-------------------------------- MODULE MCHost --------------------------------
(* Instances of Host for TLC: what three processes run, one after another or *)
(* at the same time.                                                         *)
EXTENDS Host, TLC

CONSTANTS p1, p2, p3, a, s1, s2

Typed(base) == [base |-> base, hashed |-> FALSE]
Command(op) == [op |-> op, local |-> TRUE, run |-> NoName, build |-> 0, scope |-> s1,
                forward |-> NoName, given |-> FALSE, required |-> FALSE, processed |-> FALSE]
None == Command("none")
Remote(op) == [Command(op) EXCEPT !.local = FALSE]
RunAs(id) == [Command("run") EXCEPT !.run = id]
Forwarding(c, id) == [c EXCEPT !.forward = id, !.required = TRUE]
Asks(op, id, scope) == [Command(op) EXCEPT !.run = id, !.scope = scope]
Start3(c1, c2, c3, version, done) ==
  [plans |-> p1 :> c1 @@ p2 :> c2 @@ p3 :> c3, version |-> version, done |-> done]

Generating == RunAs(NoName)
OfA == RunAs(Typed(a))
Processing == [OfA EXCEPT !.processed = TRUE]

MCStarts ==
  \* the clone, the images and bundles
  { Start3(Remote("prepare"), Remote("run"), Remote("clean-prepare"), 1, {1}),
    Start3(Remote("prepare"), Remote("export"), Remote("clean-prepare"), 0, {}) }
  \union { Start3(Remote("export"), Remote("import"), c, 1, {1}) :
             c \in {Remote("clean-prepare"), Remote("prepare"),
                    [Asks("artifacts", Typed(a), s1) EXCEPT !.local = FALSE]} }
  \* runs, their ids and inputs
  \union { Start3(OfA, c, d, 0, {1}) :
             c \in {[OfA EXCEPT !.given = TRUE], [OfA EXCEPT !.build = 2, !.scope = s2]},
             d \in {Forwarding(Generating, Typed(a)), Asks("artifacts", Typed(a), s1),
                   Asks("archive", Typed(a), s2)} }
  \union { Start3(Processing, OfA, Forwarding(Generating, Typed(a)), 0, {1}),
           Start3(Generating, RunAs(Typed(p1)), Asks("artifacts", Typed(p1), s1), 0, {1}),
           Start3(OfA, Command("clean-run"), Asks("archive", Typed(a), s1), 0, {1}),
           Start3(Generating, Forwarding(OfA, Typed(p1)), None, 0, {}) }
  \* builds and clean
  \union { Start3(Command("build"), Generating, c, 0, d) :
             c \in {Command("clean-build"), None}, d \in {{}, {1}} }
MCCommands == UNION { { s.plans[p] : p \in Procs } : s \in MCStarts }

=============================================================================
