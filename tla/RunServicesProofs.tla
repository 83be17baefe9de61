-------------------------- MODULE RunServicesProofs --------------------------
(***************************************************************************)
(* Theorems about RunServices for any services, CRSs, features and bounds: *)
(* every exit counts, what was spent is kept, and the dashboard says of a  *)
(* run what is true of it.                                                 *)
(***************************************************************************)
EXTENDS RunServices, FiniteSetTheorems, TLAPS

\* The lifecycle sidecar: no service stops twice, those it does not wait for have stopped,
\* and those it waits for that have stopped are ahead in the events.
WatchInv ==
  /\ Cardinality(Exited) = Len(died)
  /\ Services \ remaining \subseteq Exited
  /\ lcAt = "write" => remaining = {}
  /\ listed /\ lcAt \in {"open", "events"} =>
       \A s \in remaining \cap Exited : \E i \in cursor + 1 .. Len(died) : died[i] = s

\* The key generator: it is stopped after the CRSs, so its final flush asks for spends that
\* do not change any more.
FlushInv ==
  /\ kgStop => phase # "up" /\ CrsGone
  /\ kgFinal => kgStop
  /\ kgAt \in {"write", "replace"} => DOMAIN queried = Crs
  /\ kgFinal /\ ~missed => \A c \in DOMAIN queried : queried[c] = usage[c]
  /\ kgAt = "ended" => kgFinal /\ DOMAIN queried = Crs /\ report = queried
  /\ report # Torn

\* After the host's report the CRSs, the key generator and the publisher are gone.
ReportedInv ==
  phase = "reported" =>
    /\ CrsGone
    /\ kgAt \in {"absent", "ended", "failed"} /\ pubAt \in {"absent", "ended"}

\* The publisher that still tries to register has an attempt left.
RegisterInv == pubAt = "register" => attempts < MaxRegister

\* The requests that wait: the runs come in order, and the host's report is the last one of
\* its run.
InboxInv ==
  /\ \A i \in 1 .. Len(inbox) : inbox[i].of <= run
  /\ \A i, k \in 1 .. Len(inbox) : i <= k => inbox[i].of <= inbox[k].of
  /\ heard => \A i \in 1 .. Len(inbox) : inbox[i].of = run
  /\ \A i \in 1 .. Len(inbox) : inbox[i].of = run /\ ~ended => inbox[i].op \in {"register", "snapshot"}
  /\ \A i \in 1 .. Len(inbox) : inbox[i].of = run /\ inbox[i].op = "finalize" =>
       phase = "reported" /\ i = Len(inbox) /\ inbox[i].body.cost = report

\* What the server shows and has on disk.
ShownInv ==
  /\ shown.outcome # 0 => shown.done
  /\ saved.outcome # 0 => saved.done
  /\ InProgressIsLive /\ (heard => webUp)
  /\ finalized =>
       /\ phase = "reported" /\ inbox = <<>>
       /\ shown = saved /\ shown.known /\ shown.done /\ shown.outcome = run
       /\ report # NoReport => shown.latest.cost = report

IInv ==
  TypeOK /\ WatchInv /\ FlushInv /\ ReportedInv /\ RegisterInv /\ InboxInv /\ ShownInv

-----------------------------------------------------------------------------
(* The die events and the services that have exited.                        *)

\* A service has exited when its die event is there.
LEMMA ExitedIs ==
  ASSUME LifecycleTypeOK
  PROVE  /\ Len(died) \in Nat /\ DOMAIN died = 1 .. Len(died)
         /\ \A i \in 1 .. Len(died) : died[i] \in Services
         /\ Exited \subseteq Services
<1>1. died \in Seq(Services)
  BY DEF LifecycleTypeOK
<1>2. /\ Len(died) \in Nat /\ DOMAIN died = 1 .. Len(died)
      /\ \A i \in 1 .. Len(died) : died[i] \in Services
  BY <1>1
<1> QED
  BY <1>2 DEF Exited

\* A service that stops is the last of the events.
LEMMA ExitsMore ==
  ASSUME LifecycleTypeOK, NEW s \in Services, died' = Append(died, s)
  PROVE  /\ died' \in Seq(Services) /\ Len(died') = Len(died) + 1 /\ died'[Len(died) + 1] = s
         /\ \A i \in 1 .. Len(died) : died'[i] = died[i]
         /\ Exited' = Exited \union {s}
<1>1. died \in Seq(Services) /\ Len(died) \in Nat
  BY DEF LifecycleTypeOK
<1>2. /\ died' \in Seq(Services) /\ Len(died') = Len(died) + 1 /\ died'[Len(died) + 1] = s
      /\ \A i \in 1 .. Len(died) : died'[i] = died[i]
      /\ DOMAIN died' = 1 .. Len(died) + 1 /\ DOMAIN died = 1 .. Len(died)
  BY <1>1
<1>3. \A i : i \in 1 .. Len(died) + 1 <=> i \in 1 .. Len(died) \/ i = Len(died) + 1
  BY <1>1
<1>4. \A e : e \in Exited <=> \E i \in 1 .. Len(died) : died[i] = e
  BY <1>2 DEF Exited
<1>5. \A e : e \in Exited' <=> \E i \in 1 .. Len(died) + 1 : died'[i] = e
  BY <1>2 DEF Exited
<1>6. \A e : e \in Exited' <=> e \in Exited \/ e = s
  BY <1>2, <1>3, <1>4, <1>5
<1> QED
  BY <1>2, <1>6

-----------------------------------------------------------------------------
\* The initial state satisfies the invariant.
LEMMA InitIInv == Init => IInv
<1> SUFFICES ASSUME Init PROVE IInv
  OBVIOUS
<1> USE ServicesAssumption, ReportAssumption
<1>1. LifecycleTypeOK
  <2>1. Cardinality(Services) \in Nat
    BY FS_CardinalityType
  <2>2. /\ died = <<>> /\ remaining = Services /\ cursor = 0 /\ ready = {}
        /\ lcStop = FALSE /\ listed = TRUE /\ lcAt \in {"start", "absent"}
    BY DEF Init, LifecycleInit
  <2>3. died \in Seq(Services) /\ Len(died) = 0
    BY <2>2
  <2> QED
    <3>1. Len(died) <= Cardinality(Services)
      BY <2>1, <2>3
    <3>2. cursor \in 0 .. Len(died)
      BY <2>2, <2>3
    <3>3. lcAt \in {"absent", "start", "list", "open", "events", "write", "ended"}
      BY <2>2
    <3>4. remaining \subseteq Services /\ ready \subseteq Services /\ lcStop \in BOOLEAN /\ listed \in BOOLEAN
      BY <2>2
    <3> QED
      BY <2>3, <3>1, <3>2, <3>3, <3>4 DEF LifecycleTypeOK
<1>2. SpendTypeOK
  <2>1. queried \in UNION {[asked -> 0 .. MaxUsage] : asked \in SUBSET Crs}
    <3>1. queried \in [{} -> 0 .. MaxUsage]
      BY DEF Init, SpendInit
    <3>2. {} \in SUBSET Crs
      OBVIOUS
    <3> QED
      BY <3>1, <3>2
  <2>2. usage \in Spend /\ report = NoReport /\ kgErrors = 0 /\ kgAt \in {"keys", "absent"}
    BY DEF Init, SpendInit, Spend
  <2>3. kgFinal \in BOOLEAN /\ kgReady \in BOOLEAN /\ kgStop \in BOOLEAN /\ missed \in BOOLEAN
    BY Zenon DEF Init, SpendInit
  <2> QED
    BY <2>1, <2>2, <2>3 DEF SpendTypeOK, Reports
<1>3. WebTypeOK
  <2>1. NoCounts \in Counts /\ NoBody \in Bodies
    BY DEF NoCounts, Counts, NoBody, Bodies
  <2>2. NoState \in States
    BY <2>1 DEF NoState, Blank, States
  <2>3. /\ run = 1 /\ found = NoCounts /\ pubAt \in {"register", "absent"} /\ attempts = 0
        /\ pubStop = FALSE /\ inbox = <<>> /\ webUp = TRUE /\ webDowns = 0
        /\ shown = NoState /\ saved = NoState /\ heard = FALSE /\ ended = FALSE /\ finalized = FALSE
    BY DEF Init, WebInit
  <2>4. inbox \in Seq(Requests) /\ Len(inbox) <= MaxInbox
    BY <2>3
  <2> QED
    <3>1. run \in 1 .. MaxRuns /\ attempts \in 0 .. MaxRegister /\ webDowns \in 0 .. MaxWebDowns
      BY <2>3
    <3>2. found \in Counts /\ shown \in States /\ saved \in States
      BY <2>1, <2>2, <2>3
    <3>3. pubAt \in {"absent", "register", "loop", "final", "ended"}
      BY <2>3
    <3>4. /\ pubStop \in BOOLEAN /\ webUp \in BOOLEAN
          /\ heard \in BOOLEAN /\ ended \in BOOLEAN /\ finalized \in BOOLEAN
      BY <2>3
    <3> QED
      BY <2>4, <3>1, <3>2, <3>3, <3>4 DEF WebTypeOK
<1>4. TypeOK
  BY <1>1, <1>2, <1>3 DEF Init, TypeOK
<1>5. WatchInv
  <2>1. died = <<>> /\ remaining = Services /\ lcAt \in {"start", "absent"}
    BY DEF Init, LifecycleInit
  <2>2. Exited = {}
    BY <2>1 DEF Exited
  <2>3. Cardinality({}) = 0
    BY FS_EmptySet
  <2> QED
    BY <2>1, <2>2, <2>3 DEF WatchInv
<1>6. FlushInv /\ ReportedInv
  BY DEF Init, SpendInit, FlushInv, ReportedInv
<1>7. InboxInv /\ ShownInv
  BY DEF Init, WebInit, InboxInv, ShownInv, InProgressIsLive, NoState, Blank
<1>8. RegisterInv
  BY DEF Init, WebInit, RegisterInv
<1> QED
  BY <1>4, <1>5, <1>6, <1>7, <1>8 DEF IInv

-----------------------------------------------------------------------------
(* The lifecycle sidecar.                                                   *)

\* An exit appends an event, ahead of the sidecar.
LEMMA ExitKeepsWatch ==
  ASSUME LifecycleTypeOK, WatchInv, NEW s \in Services, ServiceExits(s)
  PROVE  LifecycleTypeOK' /\ WatchInv'
<1> USE ServicesAssumption
<1>1. /\ s \notin Exited /\ died' = Append(died, s)
      /\ UNCHANGED <<lcAt, remaining, cursor, lcStop, listed, ready>>
  BY DEF ServiceExits
<1>2. /\ died' \in Seq(Services) /\ Len(died') = Len(died) + 1 /\ died'[Len(died) + 1] = s
      /\ \A i \in 1 .. Len(died) : died'[i] = died[i]
      /\ Exited' = Exited \union {s}
  BY <1>1, ExitsMore
<1>3. Len(died) \in Nat /\ Exited \subseteq Services
  BY ExitedIs
<1>4. Exited' \subseteq Services
  BY <1>2, <1>3
<1>5. IsFiniteSet(Exited) /\ IsFiniteSet(Exited')
  BY <1>3, <1>4, FS_Subset
<1>6. Cardinality(Exited') = Cardinality(Exited) + 1
  BY <1>1, <1>2, <1>5, FS_AddElement
<1>7. /\ Cardinality(Exited') <= Cardinality(Services) /\ Cardinality(Exited') \in Nat
      /\ Cardinality(Exited') = Len(died')
  BY <1>2, <1>4, <1>5, <1>6, FS_Subset, FS_CardinalityType DEF WatchInv
<1>8. LifecycleTypeOK'
  <2>1. cursor' \in 0 .. Len(died')
    BY <1>1, <1>2, <1>3 DEF LifecycleTypeOK
  <2> QED
    BY <1>1, <1>2, <1>7, <2>1 DEF LifecycleTypeOK
<1>9. ASSUME listed, lcAt \in {"open", "events"}, NEW x \in remaining \cap Exited'
      PROVE  \E i \in cursor + 1 .. Len(died') : died'[i] = x
  <2>1. cursor \in 0 .. Len(died)
    BY DEF LifecycleTypeOK
  <2>2. CASE x = s
    <3>1. Len(died) + 1 \in cursor + 1 .. Len(died')
      BY <1>2, <1>3, <2>1
    <3> QED
      BY <1>2, <2>2, <3>1
  <2>3. CASE x # s
    <3>1. PICK i \in cursor + 1 .. Len(died) : died[i] = x
      BY <1>2, <1>9, <2>3 DEF WatchInv
    <3>2. i \in cursor + 1 .. Len(died') /\ i \in 1 .. Len(died)
      BY <1>2, <1>3, <2>1
    <3> QED
      BY <1>2, <3>1, <3>2
  <2> QED
    BY <2>2, <2>3
<1>10. WatchInv'
  BY <1>1, <1>2, <1>7, <1>9 DEF WatchInv
<1> QED
  BY <1>8, <1>10

\* Each step of the sidecar; when it writes the ready file all services have exited.
LEMMA LifecycleKeepsWatch ==
  ASSUME LifecycleTypeOK, WatchInv, LifecycleStep \/ LifecycleTerm
  PROVE  /\ LifecycleTypeOK' /\ WatchInv'
         /\ died' = died
         /\ ready' # ready => Services \subseteq Exited
<1> USE ServicesAssumption
<1>1. died' = died /\ Exited' = Exited
  <2>1. died' = died
    BY DEF LifecycleStep, LifecycleOn, SaveStart, ListContainers, OpenStream, NextEvent, WriteReady,
       StreamFails, LifecycleKill, LifecycleTerm
  <2> QED
    BY <2>1 DEF Exited
<1>2. /\ died \in Seq(Services) /\ Len(died) <= Cardinality(Services)
      /\ remaining \subseteq Services /\ ready \subseteq Services
      /\ cursor \in 0 .. Len(died) /\ lcStop \in BOOLEAN /\ listed \in BOOLEAN
  BY DEF LifecycleTypeOK
<1>3. /\ Len(died) \in Nat /\ DOMAIN died = 1 .. Len(died)
      /\ \A i \in 1 .. Len(died) : died[i] \in Services
      /\ Exited \subseteq Services
  BY ExitedIs
<1>4. /\ lcAt' \in {"absent", "start", "list", "open", "events", "write", "ended"}
      /\ remaining' \subseteq remaining /\ cursor' \in 0 .. Len(died)
      /\ lcStop' \in BOOLEAN /\ listed' \in BOOLEAN /\ ready' \in {ready, Services}
  <2>1. CASE SaveStart
    BY <1>2, <2>1 DEF SaveStart
  <2>2. CASE ListContainers
    BY <1>2, <2>2 DEF ListContainers
  <2>3. CASE NextEvent
    BY <1>2, <1>3, <2>3 DEF NextEvent
  <2>4. CASE OpenStream \/ WriteReady \/ StreamFails \/ LifecycleKill
    BY <1>2, <2>4 DEF OpenStream, WriteReady, StreamFails, LifecycleKill
  <2>5. CASE LifecycleTerm
    BY <1>2, <2>5 DEF LifecycleTerm, LifecycleTypeOK
  <2> QED
    BY <2>1, <2>2, <2>3, <2>4, <2>5 DEF LifecycleStep, LifecycleOn
<1>5. LifecycleTypeOK'
  <2>1. remaining' \subseteq Services /\ ready' \subseteq Services
    BY <1>2, <1>4
  <2> QED
    BY <1>1, <1>2, <1>4, <2>1 DEF LifecycleTypeOK
<1>6. WatchInv'
  <2>1. CASE SaveStart \/ WriteReady \/ StreamFails \/ LifecycleKill
    BY <1>1, <2>1 DEF SaveStart, WriteReady, StreamFails, LifecycleKill, WatchInv
  <2>2. CASE ListContainers
    <3>1. CASE listed'
      <4>1. remaining' = remaining \ Exited /\ lcAt' \in {"write", "open"}
            /\ (lcAt' = "write" => remaining' = {})
        BY <2>2, <3>1 DEF ListContainers
      <4> QED
        BY <1>1, <4>1 DEF WatchInv
    <3>2. CASE ~listed'
      <4>1. remaining' = remaining /\ lcAt' \in {"write", "open"}
            /\ (lcAt' = "write" => remaining' = {})
        BY <2>2, <3>2 DEF ListContainers
      <4> QED
        BY <1>1, <3>2, <4>1 DEF WatchInv
    <3> QED
      BY <3>1, <3>2
  <2>3. CASE OpenStream \/ LifecycleTerm
    BY <1>1, <2>3 DEF OpenStream, LifecycleTerm, WatchInv
  <2>4. CASE NextEvent
    <3>1. CASE lcStop
      BY <1>1, <2>4, <3>1 DEF NextEvent, WatchInv
    <3>2. CASE ~lcStop
      <4>1. /\ cursor < Len(died) /\ cursor' = cursor + 1
            /\ remaining' = remaining \ {died[cursor + 1]} /\ listed' = listed
            /\ lcAt = "events" /\ lcAt' \in {"write", "events"}
            /\ (lcAt' = "write" => remaining' = {})
        BY <2>4, <3>2 DEF NextEvent
      <4>2. died[cursor + 1] \in Exited
        BY <1>2, <1>3, <4>1 DEF Exited
      <4>3. ASSUME listed, NEW x \in remaining' \cap Exited
            PROVE  \E i \in cursor + 2 .. Len(died) : died[i] = x
        <5>1. PICK i \in cursor + 1 .. Len(died) : died[i] = x
          BY <4>1, <4>3 DEF WatchInv
        <5>2. i # cursor + 1
          BY <4>1, <5>1
        <5>3. i \in cursor + 2 .. Len(died)
          BY <1>2, <1>3, <5>2
        <5> QED
          BY <5>1, <5>3
      <4>4. cursor' + 1 = cursor + 2
        BY <1>2, <4>1
      <4>5. Services \ remaining' \subseteq Exited
        BY <4>1, <4>2 DEF WatchInv
      <4>6. listed' /\ lcAt' \in {"open", "events"} =>
              \A x \in remaining' \cap Exited' : \E i \in cursor' + 1 .. Len(died') : died'[i] = x
        BY <1>1, <4>1, <4>3, <4>4
      <4> QED
        BY <1>1, <4>1, <4>5, <4>6 DEF WatchInv
    <3> QED
      BY <3>1, <3>2
  <2> QED
    BY <2>1, <2>2, <2>3, <2>4 DEF LifecycleStep, LifecycleOn
<1>7. ready' # ready => Services \subseteq Exited
  BY DEF LifecycleStep, LifecycleOn, SaveStart, ListContainers, OpenStream, NextEvent, WriteReady,
     StreamFails, LifecycleKill, LifecycleTerm, WatchInv
<1> QED
  BY <1>1, <1>5, <1>6, <1>7

-----------------------------------------------------------------------------
(* The key generator.                                                       *)

\* One more CRS in the summary.
LEMMA EnteredType ==
  ASSUME NEW q \in UNION {[asked -> 0 .. MaxUsage] : asked \in SUBSET Crs}, NEW c \in Crs,
         NEW n \in 0 .. MaxUsage
  PROVE  Entered(q, c, n) \in UNION {[asked -> 0 .. MaxUsage] : asked \in SUBSET Crs}
<1>1. PICK asked \in SUBSET Crs : q \in [asked -> 0 .. MaxUsage]
  OBVIOUS
<1>2. Entered(q, c, n) \in [asked \union {c} -> 0 .. MaxUsage]
  BY <1>1 DEF Entered
<1>3. asked \union {c} \in SUBSET Crs
  OBVIOUS
<1> QED
  BY <1>2, <1>3

\* A summary for all CRSs is a spend.
LEMMA SummaryIs ==
  ASSUME SpendTypeOK
  PROVE  /\ DOMAIN queried \subseteq Crs
         /\ DOMAIN queried = Crs => queried \in Spend
<1>1. PICK asked \in SUBSET Crs : queried \in [asked -> 0 .. MaxUsage]
  BY DEF SpendTypeOK
<1>2. DOMAIN queried = asked
  BY <1>1
<1> QED
  BY <1>1, <1>2 DEF Spend

\* What a poll begins with.
LEMMA StartPollIs ==
  ASSUME StartPoll
  PROVE  /\ kgAt' = "ask" /\ kgFinal' = kgStop /\ missed' = FALSE
         /\ DOMAIN queried' = {}
         /\ queried' \in UNION {[asked -> 0 .. MaxUsage] : asked \in SUBSET Crs}
<1>1. kgAt' = "ask" /\ kgFinal' = kgStop /\ missed' = FALSE /\ queried' = [c \in {} |-> 0]
  BY DEF StartPoll
<1>2. queried' \in [{} -> 0 .. MaxUsage] /\ DOMAIN queried' = {}
  BY <1>1
<1>3. {} \in SUBSET Crs
  OBVIOUS
<1> QED
  BY <1>1, <1>2, <1>3

\* The key generator keeps the types.
LEMMA SpendKeepsType ==
  ASSUME SpendTypeOK, FlushInv,
         SpendStep \/ KeyGenTerm \/ \E c \in Crs : UseKey(c)
  PROVE  SpendTypeOK'
<1> USE ReportAssumption
<1>1. /\ usage \in Spend
      /\ kgAt \in {"absent", "keys", "sleep", "ended", "failed"} \union Polling
      /\ kgFinal \in BOOLEAN /\ kgReady \in BOOLEAN /\ kgStop \in BOOLEAN /\ missed \in BOOLEAN
      /\ queried \in UNION {[asked -> 0 .. MaxUsage] : asked \in SUBSET Crs}
      /\ report \in Reports /\ kgErrors \in 0 .. MaxErrors
  BY DEF SpendTypeOK
<1>2. CASE CreateKeys
  <2>1. /\ kgAt' \in {"ask", "failed"} /\ kgFinal' \in BOOLEAN /\ missed' \in BOOLEAN
        /\ kgReady' \in BOOLEAN
        /\ queried' \in UNION {[asked -> 0 .. MaxUsage] : asked \in SUBSET Crs}
    <3>1. CASE StartPoll /\ kgReady' = TRUE
      BY <1>1, <3>1, StartPollIs
    <3>2. CASE kgAt' = "failed" /\ UNCHANGED <<kgFinal, kgReady, queried, missed>>
      BY <1>1, <3>2
    <3> QED
      BY <1>2, <3>1, <3>2 DEF CreateKeys
  <2>2. UNCHANGED <<usage, kgStop, report, kgErrors>>
    BY <1>2 DEF CreateKeys
  <2> QED
    BY <1>1, <2>1, <2>2 DEF SpendTypeOK, Polling
<1>3. ASSUME NEW c \in Crs, AskSpend(c) PROVE SpendTypeOK'
  <2>1. usage[c] \in 0 .. MaxUsage /\ 0 \in 0 .. MaxUsage
    BY <1>1 DEF Spend
  <2>2. queried' \in UNION {[asked -> 0 .. MaxUsage] : asked \in SUBSET Crs}
    <3>1. queried' = Entered(queried, c, usage[c]) \/ queried' = Entered(queried, c, 0)
      BY <1>3 DEF AskSpend
    <3> QED
      BY <1>1, <2>1, <3>1, EnteredType
  <2>3. kgAt' \in {"write", "ask"} /\ missed' \in BOOLEAN
    BY <1>1, <1>3 DEF AskSpend
  <2>4. kgErrors' \in 0 .. MaxErrors
    BY <1>1, <1>3 DEF AskSpend
  <2>5. UNCHANGED <<usage, kgFinal, kgReady, kgStop, report>>
    BY <1>3 DEF AskSpend
  <2> QED
    BY <1>1, <2>2, <2>3, <2>4, <2>5 DEF SpendTypeOK, Polling
<1>4. CASE ReplaceReport
  <2>1. report' \in Reports
    BY <1>4, SummaryIs DEF ReplaceReport, FlushInv, Reports
  <2>2. kgAt' \in {"ended", "sleep"}
    BY <1>4 DEF ReplaceReport
  <2>3. UNCHANGED <<usage, kgFinal, kgReady, kgStop, queried, missed, kgErrors>>
    BY <1>4 DEF ReplaceReport
  <2> QED
    BY <1>1, <2>1, <2>2, <2>3 DEF SpendTypeOK
<1>5. CASE WriteTemporary \/ KeyGenKill \/ PollRaises
  <2>1. kgAt' \in {"replace", "failed"} /\ kgErrors' \in 0 .. MaxErrors
    BY <1>1, <1>5 DEF WriteTemporary, KeyGenKill, PollRaises
  <2>2. UNCHANGED <<usage, kgFinal, kgReady, kgStop, queried, missed, report>>
    BY <1>5 DEF WriteTemporary, KeyGenKill, PollRaises
  <2> QED
    BY <1>1, <2>1, <2>2 DEF SpendTypeOK, Polling
<1>6. CASE Wake
  <2>1. StartPoll /\ UNCHANGED <<usage, kgReady, kgStop, report, kgErrors>>
    BY <1>6 DEF Wake
  <2> QED
    BY <1>1, <2>1, StartPollIs DEF SpendTypeOK, Polling
<1>7. CASE KeyGenTerm
  BY <1>1, <1>7 DEF KeyGenTerm, SpendTypeOK
<1>8. ASSUME NEW c \in Crs, UseKey(c) PROVE SpendTypeOK'
  <2>1. usage' \in Spend
    BY <1>1, <1>8 DEF UseKey, Spend
  <2>2. UNCHANGED <<kgAt, kgFinal, kgReady, kgStop, queried, missed, report, kgErrors>>
    BY <1>8 DEF UseKey
  <2> QED
    BY <1>1, <2>1, <2>2 DEF SpendTypeOK
<1> QED
  BY <1>2, <1>3, <1>4, <1>5, <1>6, <1>7, <1>8 DEF SpendStep

\* A poll, its final flush included.
LEMMA SpendKeepsFlush ==
  ASSUME SpendTypeOK, FlushInv, SpendStep, UNCHANGED <<lcVars, phase, started>>
  PROVE  /\ FlushInv'
         /\ report' # report => kgAt \notin {"absent", "ended", "failed"}
         /\ kgAt \notin {"absent", "ended", "failed"}
<1> USE ReportAssumption
<1>0. (CrsGone <=> CrsGone') /\ phase' = phase
  BY DEF lcVars, CrsGone, Exited
<1>1. usage' = usage /\ kgStop' = kgStop
  BY DEF SpendStep, CreateKeys, AskSpend, WriteTemporary, ReplaceReport, PollRaises, Wake, KeyGenKill
<1>2. kgAt \notin {"absent", "ended", "failed"}
  BY DEF SpendStep, CreateKeys, AskSpend, WriteTemporary, ReplaceReport, PollRaises, Wake, KeyGenKill,
     Polling
<1>3. CASE StartPoll /\ report' = report
  BY <1>0, <1>1, <1>2, <1>3, StartPollIs DEF FlushInv
<1>4. CASE kgAt' \in {"failed"} /\ UNCHANGED <<kgFinal, queried, missed, report>>
  BY <1>0, <1>1, <1>2, <1>4 DEF FlushInv
<1>5. ASSUME NEW c \in Crs, AskSpend(c) PROVE FlushInv'
  <2>0. PICK n \in {0, usage[c]} :
          /\ queried' = Entered(queried, c, n)
          /\ missed' \/ (missed' = missed /\ n = usage[c])
    BY <1>5, Zenon DEF AskSpend
  <2>1. /\ DOMAIN queried' = DOMAIN queried \union {c}
        /\ \A k \in DOMAIN queried : k # c => queried'[k] = queried[k]
    BY <2>0 DEF Entered
  <2>2. missed' \/ (missed' = missed /\ queried'[c] = usage[c])
    BY <2>0 DEF Entered
  <2>3. kgAt' = "ask" \/ (kgAt' = "write" /\ DOMAIN queried' = Crs)
    BY <1>5 DEF AskSpend
  <2>4. UNCHANGED <<kgFinal, report>>
    BY <1>5 DEF AskSpend
  <2> QED
    BY <1>0, <1>1, <2>1, <2>2, <2>3, <2>4 DEF FlushInv
<1>6. CASE WriteTemporary
  BY <1>0, <1>1, <1>6 DEF WriteTemporary, FlushInv
<1>7. CASE ReplaceReport
  <2>1. DOMAIN queried = Crs
    BY <1>7 DEF ReplaceReport, FlushInv
  <2>2. queried \in Spend
    BY <2>1, SummaryIs
  <2> QED
    BY <1>0, <1>1, <1>7, <2>1, <2>2 DEF ReplaceReport, FlushInv
<1> QED
  BY <1>2, <1>3, <1>4, <1>5, <1>6, <1>7
     DEF SpendStep, CreateKeys, PollRaises, Wake, KeyGenKill

-----------------------------------------------------------------------------
(* The server.                                                              *)

\* What a handler leaves behind.
LEMMA HandleIs ==
  ASSUME WebTypeOK, ShownInv, NEW m \in Requests, Handle(m)
  PROVE  /\ shown' \in States /\ saved' \in States /\ heard' \in BOOLEAN /\ finalized' \in BOOLEAN
         /\ shown'.outcome # 0 => shown'.done
         /\ saved'.outcome # 0 => saved'.done
         /\ m.op \in {"register", "snapshot"} => ~shown'.done /\ shown'.outcome = 0
         /\ m.op = "finalize" =>
              /\ saved' = shown' /\ shown'.known /\ shown'.done /\ shown'.outcome = m.of
              /\ m.body.cost # NoReport => shown'.latest.cost = m.body.cost
         /\ heard' <=> heard \/ (m.of = run /\ m.op \in {"register", "snapshot"})
         /\ finalized' <=> finalized \/ (m.of = run /\ m.op = "finalize")
<1> USE ReportAssumption, ServicesAssumption
<1>1. /\ m.op \in {"register", "snapshot", "final", "finalize"} /\ m.of \in 1 .. MaxRuns
      /\ m.body \in Bodies
  BY DEF Requests
<1>2. /\ shown \in States /\ saved \in States
      /\ shown.outcome # 0 => shown.done
      /\ saved.outcome # 0 => saved.done
  BY DEF WebTypeOK, ShownInv
<1>3. /\ shown.known \in BOOLEAN /\ shown.done \in BOOLEAN /\ shown.outcome \in 0 .. MaxRuns
      /\ shown.latest \in Bodies
      /\ saved.known \in BOOLEAN /\ saved.done \in BOOLEAN /\ saved.outcome \in 0 .. MaxRuns
      /\ saved.latest \in Bodies
  BY <1>2 DEF States
<1>4. NoBody \in Bodies
  BY DEF NoBody, NoCounts, Bodies, Counts
<1>5. shown' = NextShown(m) /\ saved' = NextSaved(m)
  BY DEF Handle
<1>6. NextShown(m) \in States
  <2>1. CASE m.op = "register"
    BY <1>4, <2>1 DEF NextShown, Blank, States
  <2>2. CASE m.op = "finalize"
    <3>1. FinalizedState(m).latest \in Bodies
      BY <1>1, <1>3 DEF FinalizedState, Bodies
    <3> QED
      BY <1>1, <2>2, <3>1 DEF NextShown, FinalizedState, States
  <2>3. CASE m.op \in {"snapshot", "final"}
    <3>1. (m.op = "final") \in BOOLEAN
      OBVIOUS
    <3>2. SnapshotState(m).outcome \in 0 .. MaxRuns
      BY <1>3 DEF SnapshotState
    <3>3. SnapshotState(m) \in States
      BY <1>1, <3>1, <3>2 DEF SnapshotState, States
    <3> QED
      BY <2>3, <3>3 DEF NextShown
  <2> QED
    BY <1>1, <2>1, <2>2, <2>3
<1>7. \A a, b \in States : /\ Persist(a, b) \in States /\ Persist(a, b).done = b.done
                           /\ Persist(a, b).outcome = b.outcome
  BY DEF Persist, States
<1>8. NextSaved(m) \in {NextShown(m), Persist(saved, NextShown(m)), Persist(NextShown(m), saved)}
  BY DEF NextSaved
<1>9. NextShown(m).outcome # 0 => NextShown(m).done
  <2>1. CASE m.op = "register"
    BY <2>1 DEF NextShown, Blank
  <2>2. CASE m.op = "finalize"
    BY <2>2 DEF NextShown, FinalizedState
  <2>3. CASE m.op \in {"snapshot", "final"}
    BY <1>2, <2>3 DEF NextShown, SnapshotState
  <2> QED
    BY <1>1, <2>1, <2>2, <2>3
<1>10. saved' \in States /\ (saved'.outcome # 0 => saved'.done)
  BY <1>2, <1>5, <1>6, <1>7, <1>8, <1>9
<1>11. m.op \in {"register", "snapshot"} => ~shown'.done /\ shown'.outcome = 0
  BY <1>2, <1>5 DEF NextShown, Blank, SnapshotState
<1>12. m.op = "finalize" =>
         /\ saved' = shown' /\ shown'.known /\ shown'.done /\ shown'.outcome = m.of
         /\ m.body.cost # NoReport => shown'.latest.cost = m.body.cost
  BY <1>5 DEF NextShown, NextSaved, FinalizedState
<1>13. /\ heard' <=> heard \/ (m.of = run /\ m.op \in {"register", "snapshot"})
       /\ finalized' <=> finalized \/ (m.of = run /\ m.op = "finalize")
  BY DEF Handle
<1>14. heard' \in BOOLEAN /\ finalized' \in BOOLEAN
  BY DEF Handle
<1> QED
  BY <1>5, <1>6, <1>9, <1>10, <1>11, <1>12, <1>13, <1>14

\* The requests that wait are requests.
LEMMA InboxIs ==
  ASSUME WebTypeOK
  PROVE  /\ inbox \in Seq(Requests) /\ Len(inbox) \in Nat
         /\ \A i \in 1 .. Len(inbox) : inbox[i] \in Requests /\ inbox[i].of \in Nat
<1>1. inbox \in Seq(Requests)
  BY DEF WebTypeOK
<1>2. Len(inbox) \in Nat /\ \A i \in 1 .. Len(inbox) : inbox[i] \in Requests
  BY <1>1
<1> QED
  BY <1>1, <1>2 DEF Requests

\* The server handles the oldest request.
LEMMA HandleLateKeeps ==
  ASSUME WebTypeOK, InboxInv, ShownInv, HandleLate, UNCHANGED <<report, phase>>
  PROVE  WebTypeOK' /\ InboxInv' /\ ShownInv'
<1> USE ServicesAssumption
<1> DEFINE m == inbox[1]
<1>1. /\ webUp /\ inbox # <<>> /\ inbox' = Tail(inbox) /\ Handle(Head(inbox))
      /\ UNCHANGED <<run, found, pubAt, attempts, pubStop, ended, webUp, webDowns>>
  BY DEF HandleLate, pubVars
<1>2. inbox \in Seq(Requests) /\ Len(inbox) <= MaxInbox /\ Len(inbox) \in Nat
  BY InboxIs DEF WebTypeOK
<1>3. /\ Head(inbox) = m /\ m \in Requests /\ Len(inbox) >= 1 /\ 1 \in 1 .. Len(inbox)
      /\ inbox' \in Seq(Requests) /\ Len(inbox') = Len(inbox) - 1
      /\ \A i \in 1 .. Len(inbox') : inbox'[i] = inbox[i + 1] /\ i + 1 \in 1 .. Len(inbox)
  BY <1>1, <1>2
<1>4. Handle(m)
  BY <1>1, <1>3
<1>5. /\ shown' \in States /\ saved' \in States /\ heard' \in BOOLEAN /\ finalized' \in BOOLEAN
      /\ shown'.outcome # 0 => shown'.done
      /\ saved'.outcome # 0 => saved'.done
      /\ m.op \in {"register", "snapshot"} => ~shown'.done /\ shown'.outcome = 0
      /\ m.op = "finalize" =>
           /\ saved' = shown' /\ shown'.known /\ shown'.done /\ shown'.outcome = m.of
           /\ m.body.cost # NoReport => shown'.latest.cost = m.body.cost
      /\ heard' <=> heard \/ (m.of = run /\ m.op \in {"register", "snapshot"})
      /\ finalized' <=> finalized \/ (m.of = run /\ m.op = "finalize")
  BY <1>3, <1>4, HandleIs
<1>6. WebTypeOK'
  <2>1. Len(inbox') <= MaxInbox
    BY <1>2, <1>3
  <2> QED
    BY <1>1, <1>3, <1>5, <2>1 DEF WebTypeOK
<1>7. run \in Nat
  BY DEF WebTypeOK
<1>8. InboxInv'
  <2>1. \A i \in 1 .. Len(inbox') : inbox'[i].of <= run
    BY <1>3 DEF InboxInv
  <2>2. \A i, k \in 1 .. Len(inbox') : i <= k => inbox'[i].of <= inbox'[k].of
    BY <1>3 DEF InboxInv
  <2>3. heard' => \A i \in 1 .. Len(inbox') : inbox'[i].of = run
    <3>1. CASE heard
      BY <1>3, <3>1 DEF InboxInv
    <3>2. CASE ~heard /\ m.of = run
      <4>1. \A i \in 1 .. Len(inbox) : inbox[1].of <= inbox[i].of /\ inbox[i].of <= run /\ inbox[i].of \in Nat
        BY <1>3, InboxIs DEF InboxInv
      <4>2. \A i \in 1 .. Len(inbox) : inbox[i].of = run
        BY <1>7, <3>2, <4>1
      <4> QED
        BY <1>3, <4>2
    <3> QED
      BY <1>5, <3>1, <3>2
  <2>4. \A i \in 1 .. Len(inbox') : inbox'[i].of = run /\ ~ended => inbox'[i].op \in {"register", "snapshot"}
    BY <1>3 DEF InboxInv
  <2>5. \A i \in 1 .. Len(inbox') : inbox'[i].of = run /\ inbox'[i].op = "finalize" =>
          phase = "reported" /\ i = Len(inbox') /\ inbox'[i].body.cost = report
    <3> SUFFICES ASSUME NEW i \in 1 .. Len(inbox'), inbox'[i].of = run, inbox'[i].op = "finalize"
                 PROVE  phase = "reported" /\ i = Len(inbox') /\ inbox'[i].body.cost = report
      OBVIOUS
    <3>1. phase = "reported" /\ i + 1 = Len(inbox) /\ inbox'[i].body.cost = report
      BY <1>3 DEF InboxInv
    <3> QED
      BY <1>2, <1>3, <3>1
  <2> QED
    BY <1>1, <2>1, <2>2, <2>3, <2>4, <2>5 DEF InboxInv
<1>9. ShownInv'
  <2>1. InProgressIsLive'
    <3>1. ASSUME heard', ~ended PROVE ~shown'.done /\ shown'.outcome = 0
      <4>1. m.of = run
        BY <1>3, <1>5, <3>1 DEF InboxInv
      <4>2. m.op \in {"register", "snapshot"}
        BY <1>3, <3>1, <4>1 DEF InboxInv
      <4> QED
        BY <1>5, <4>2
    <3> QED
      BY <1>1, <3>1 DEF InProgressIsLive
  <2>2. ASSUME finalized'
        PROVE  /\ phase = "reported" /\ inbox' = <<>>
               /\ shown' = saved' /\ shown'.known /\ shown'.done /\ shown'.outcome = run
               /\ report # NoReport => shown'.latest.cost = report
    <3>1. ~finalized
      BY <1>1 DEF ShownInv
    <3>2. m.of = run /\ m.op = "finalize"
      BY <1>5, <2>2, <3>1
    <3>3. phase = "reported" /\ 1 = Len(inbox) /\ m.body.cost = report
      BY <1>3, <3>2 DEF InboxInv
    <3>4. inbox' = <<>>
      BY <1>2, <1>3, <3>3
    <3> QED
      BY <1>5, <3>2, <3>3, <3>4
  <2> QED
    BY <1>1, <1>5, <2>1, <2>2 DEF ShownInv
<1> QED
  BY <1>6, <1>8, <1>9

\* A request of the current run is sent while the run is not reported yet.
LEMMA PostKeeps ==
  ASSUME WebTypeOK, InboxInv, ShownInv, NEW m \in Requests, m.of = run, Post(m),
         phase # "reported", UNCHANGED <<run, report>>, ended => ended',
         m.op \in {"register", "snapshot"} \/ ended',
         m.op = "finalize" => phase' = "reported" /\ m.body.cost = report
  PROVE  /\ inbox' \in Seq(Requests) /\ Len(inbox') <= MaxInbox
         /\ shown' \in States /\ saved' \in States /\ heard' \in BOOLEAN /\ finalized' \in BOOLEAN
         /\ UNCHANGED <<webUp, webDowns>>
         /\ InboxInv' /\ ShownInv'
<1> USE ServicesAssumption
<1>1. UNCHANGED <<webUp, webDowns>> /\ ~finalized
  BY DEF Post, Answered, Unanswered, ShownInv
<1>2. inbox \in Seq(Requests) /\ Len(inbox) <= MaxInbox /\ Len(inbox) \in Nat
  BY InboxIs DEF WebTypeOK
<1>3. \A i \in 1 .. Len(inbox) : inbox[i].of = run => inbox[i].op # "finalize"
  BY DEF InboxInv
<1>4. CASE Answered(m)
  <2>1. /\ inbox = <<>> /\ inbox' = <<>> /\ Len(inbox') = 0 /\ webUp /\ Handle(m)
    BY <1>4 DEF Answered
  <2>2. InboxInv'
    BY <2>1 DEF InboxInv
  <2>3. InProgressIsLive'
    <3>1. ~ended' => ~shown'.done /\ shown'.outcome = 0
      BY <2>1, HandleIs
    <3> QED
      BY <3>1 DEF InProgressIsLive
  <2>4. ShownInv'
    <3>1. finalized' =>
            /\ phase' = "reported" /\ inbox' = <<>>
            /\ shown' = saved' /\ shown'.known /\ shown'.done /\ shown'.outcome = run
            /\ report # NoReport => shown'.latest.cost = report
      <4>1. finalized' => m.op = "finalize"
        BY <1>1, <2>1, HandleIs
      <4> QED
        BY <2>1, <4>1, HandleIs
    <3>2. (shown'.outcome # 0 => shown'.done) /\ (saved'.outcome # 0 => saved'.done)
      BY <2>1, HandleIs
    <3> QED
      BY <1>1, <2>1, <2>3, <3>1, <3>2 DEF ShownInv
  <2>5. shown' \in States /\ saved' \in States /\ heard' \in BOOLEAN /\ finalized' \in BOOLEAN
    BY <2>1, HandleIs
  <2> QED
    BY <1>1, <1>2, <2>1, <2>2, <2>4, <2>5
<1>5. CASE Unanswered(m)
  <2>1. UNCHANGED <<shown, saved, heard, finalized>>
    BY <1>5 DEF Unanswered
  <2>2. ShownInv'
    BY <1>1, <2>1 DEF ShownInv, InProgressIsLive
  <2>3. CASE inbox' = inbox
    <3>1. InboxInv'
      BY <1>3, <2>1, <2>3 DEF InboxInv
    <3> QED
      BY <1>1, <1>2, <2>1, <2>2, <2>3, <3>1 DEF WebTypeOK
  <2>4. CASE Len(inbox) < MaxInbox /\ inbox' = Append(inbox, m)
    <3>1. /\ inbox' \in Seq(Requests) /\ Len(inbox') = Len(inbox) + 1
          /\ inbox'[Len(inbox) + 1] = m
          /\ \A i \in 1 .. Len(inbox) : inbox'[i] = inbox[i]
          /\ \A i \in 1 .. Len(inbox') : i \in 1 .. Len(inbox) \/ i = Len(inbox) + 1
      BY <1>2, <2>4
    <3>2. Len(inbox') <= MaxInbox
      BY <1>2, <2>4, <3>1
    <3>3. run \in Nat
      BY DEF WebTypeOK
    <3>4. InboxInv'
      <4>1. \A i \in 1 .. Len(inbox') : inbox'[i].of <= run
        BY <3>1, <3>3 DEF InboxInv
      <4>2. \A i, k \in 1 .. Len(inbox') : i <= k => inbox'[i].of <= inbox'[k].of
        <5> SUFFICES ASSUME NEW i \in 1 .. Len(inbox'), NEW k \in 1 .. Len(inbox'), i <= k
                     PROVE  inbox'[i].of <= inbox'[k].of
          OBVIOUS
        <5>1. CASE k \in 1 .. Len(inbox)
          <6>1. i \in 1 .. Len(inbox)
            BY <1>2, <3>1, <5>1
          <6> QED
            BY <3>1, <5>1, <6>1 DEF InboxInv
        <5>2. CASE k = Len(inbox) + 1
          BY <3>1, <4>1, <5>2
        <5> QED
          BY <3>1, <5>1, <5>2
      <4>3. heard' => \A i \in 1 .. Len(inbox') : inbox'[i].of = run
        BY <2>1, <3>1 DEF InboxInv
      <4>4. \A i \in 1 .. Len(inbox') : inbox'[i].of = run /\ ~ended' => inbox'[i].op \in {"register", "snapshot"}
        BY <3>1 DEF InboxInv
      <4>5. \A i \in 1 .. Len(inbox') : inbox'[i].of = run /\ inbox'[i].op = "finalize" =>
              phase' = "reported" /\ i = Len(inbox') /\ inbox'[i].body.cost = report
        BY <1>3, <3>1
      <4> QED
        BY <4>1, <4>2, <4>3, <4>4, <4>5 DEF InboxInv
    <3> QED
      BY <1>1, <2>1, <2>2, <3>1, <3>2, <3>4 DEF WebTypeOK
  <2> QED
    BY <1>5, <2>3, <2>4 DEF Unanswered
<1> QED
  BY <1>4, <1>5 DEF Post

\* The server's container dies and is started again.
LEMMA WebRestartKeeps ==
  ASSUME WebTypeOK, InboxInv, ShownInv, WebCrash \/ WebRestart, UNCHANGED <<report, phase>>
  PROVE  WebTypeOK' /\ InboxInv' /\ ShownInv'
<1> USE ServicesAssumption
<1>1. CASE WebCrash
  <2>1. /\ inbox' = <<>> /\ Len(inbox') = 0 /\ heard' = FALSE /\ webUp' = FALSE
        /\ webDowns < MaxWebDowns /\ webDowns' = webDowns + 1
        /\ UNCHANGED <<run, found, pubAt, attempts, pubStop, ended, shown, saved, finalized>>
    BY <1>1 DEF WebCrash, pubVars
  <2>2. webDowns' \in 0 .. MaxWebDowns
    BY <2>1 DEF WebTypeOK
  <2>3. inbox' \in Seq(Requests) /\ Len(inbox') <= MaxInbox
    BY <2>1
  <2>4. WebTypeOK'
    BY <2>1, <2>2, <2>3 DEF WebTypeOK
  <2>5. InboxInv'
    BY <2>1 DEF InboxInv
  <2>6. ShownInv'
    BY <2>1 DEF ShownInv, InProgressIsLive
  <2> QED
    BY <2>4, <2>5, <2>6
<1>2. CASE WebRestart
  <2>1. /\ ~webUp /\ webUp' = TRUE /\ shown' = IF saved.known THEN saved ELSE NoState
        /\ UNCHANGED <<run, found, pubAt, attempts, pubStop, ended, inbox, webDowns, saved, heard, finalized>>
    BY <1>2 DEF WebRestart, pubVars
  <2>2. NoState \in States
    BY ReportAssumption DEF NoState, Blank, States, NoBody, NoCounts, Bodies, Counts
  <2>3. shown' \in States
    BY <2>1, <2>2 DEF WebTypeOK
  <2>4. WebTypeOK'
    BY <2>1, <2>3 DEF WebTypeOK
  <2>5. InboxInv'
    BY <2>1 DEF InboxInv
  <2>6. NoState.outcome = 0 /\ ~heard
    BY <2>1 DEF NoState, Blank, ShownInv
  <2>7. ShownInv'
    BY <2>1, <2>6 DEF ShownInv, InProgressIsLive
  <2> QED
    BY <2>4, <2>5, <2>7
<1> QED
  BY <1>1, <1>2

-----------------------------------------------------------------------------
(* The publisher and the host's report.                                     *)

\* The requests that are sent.
LEMMA MessageIs ==
  ASSUME SpendTypeOK, WebTypeOK
  PROVE  /\ NoBody \in Bodies /\ Snapshot \in Bodies /\ FinalBody \in Bodies
         /\ \A op \in {"register", "snapshot", "final", "finalize"}, b \in Bodies :
              /\ Message(op, b) \in Requests
              /\ Message(op, b).op = op /\ Message(op, b).of = run /\ Message(op, b).body = b
         /\ report # Torn => FinalBody.cost = report
<1> USE ReportAssumption, ServicesAssumption
<1>1. NoCounts \in Counts /\ NoCounts \in Spend
  BY DEF NoCounts, Counts, Spend
<1>2. found \in Counts /\ report \in Reports /\ run \in 1 .. MaxRuns
  BY DEF SpendTypeOK, WebTypeOK
<1>3. NoBody \in Bodies
  BY <1>1 DEF NoBody, Bodies
<1>4. Snapshot \in Bodies
  BY <1>2 DEF Snapshot, Bodies, Reports
<1>5. FinalBody \in Bodies
  BY <1>1, <1>2 DEF FinalBody, Bodies, Reports
<1>6. report # Torn => FinalBody.cost = report
  BY DEF FinalBody
<1>7. \A op \in {"register", "snapshot", "final", "finalize"}, b \in Bodies :
        /\ Message(op, b) \in Requests
        /\ Message(op, b).op = op /\ Message(op, b).of = run /\ Message(op, b).body = b
  BY <1>2 DEF Message, Requests
<1> QED
  BY <1>3, <1>4, <1>5, <1>6, <1>7

\* The publisher's steps.
LEMMA PubKeeps ==
  ASSUME SpendTypeOK, WebTypeOK, InboxInv, ShownInv, ReportedInv, RegisterInv, PubStep,
         UNCHANGED <<report, phase>>
  PROVE  WebTypeOK' /\ InboxInv' /\ ShownInv' /\ RegisterInv' /\ pubAt \notin {"absent", "ended"}
<1> USE ServicesAssumption
<1>1. pubAt \notin {"absent", "ended"} /\ UNCHANGED <<run, found, pubStop>>
  BY DEF PubStep, PubRegister, PubSnapshot, PubFinal, PubKill
<1>2. phase # "reported"
  BY <1>1 DEF ReportedInv
<1>3. /\ pubAt' \in {"absent", "register", "loop", "final", "ended"} /\ attempts' \in 0 .. MaxRegister
      /\ ended' \in BOOLEAN /\ (ended => ended')
  <2>1. CASE PubRegister
    <3>1. attempts' = attempts \/ attempts' = attempts + 1
      BY <2>1 DEF PubRegister
    <3>2. pubAt' \in {"register", "loop", "final"} /\ ended' = ended
      BY <2>1 DEF PubRegister
    <3>3. attempts' \in 0 .. MaxRegister
      <4>1. attempts \in 0 .. MaxRegister
        BY DEF WebTypeOK
      <4>2. attempts' = attempts + 1 => attempts < MaxRegister
        BY <2>1 DEF PubRegister, RegisterInv
      <4> QED
        BY <3>1, <4>1, <4>2
    <3> QED
      BY <3>2, <3>3 DEF WebTypeOK
  <2>2. CASE PubSnapshot
    BY <2>2 DEF PubSnapshot, WebTypeOK
  <2>3. CASE PubFinal \/ PubKill
    BY <2>3 DEF PubFinal, PubKill, WebTypeOK
  <2> QED
    BY <2>1, <2>2, <2>3 DEF PubStep
<1>4. ASSUME UNCHANGED srvVars PROVE WebTypeOK' /\ InboxInv' /\ ShownInv'
  <2>1. UNCHANGED <<inbox, webUp, webDowns, shown, saved, heard, finalized>>
    BY <1>4 DEF srvVars
  <2>2. WebTypeOK'
    BY <1>1, <1>3, <2>1 DEF WebTypeOK
  <2>3. InboxInv'
    BY <1>1, <1>3, <2>1 DEF InboxInv
  <2>4. ShownInv'
    BY <1>1, <1>3, <2>1 DEF ShownInv, InProgressIsLive
  <2> QED
    BY <2>2, <2>3, <2>4
<1>5. ASSUME NEW m \in Requests, m.of = run, Post(m), m.op \in {"register", "snapshot"} \/ ended',
             m.op # "finalize"
      PROVE  WebTypeOK' /\ InboxInv' /\ ShownInv'
  <2>1. /\ inbox' \in Seq(Requests) /\ Len(inbox') <= MaxInbox
        /\ shown' \in States /\ saved' \in States /\ heard' \in BOOLEAN /\ finalized' \in BOOLEAN
        /\ UNCHANGED <<webUp, webDowns>>
        /\ InboxInv' /\ ShownInv'
    BY <1>1, <1>2, <1>3, <1>5, PostKeeps
  <2> QED
    BY <1>1, <1>3, <2>1 DEF WebTypeOK
<1>6. ASSUME PubRegister PROVE WebTypeOK' /\ InboxInv' /\ ShownInv'
  <2>1. \/ UNCHANGED srvVars
        \/ Post(Message("register", NoBody))
    BY <1>6 DEF PubRegister, Post
  <2> QED
    BY <1>1, <1>4, <1>5, <2>1, MessageIs
<1>7. ASSUME PubSnapshot PROVE WebTypeOK' /\ InboxInv' /\ ShownInv'
  <2>1. UNCHANGED srvVars \/ Post(Message("snapshot", Snapshot))
    BY <1>7 DEF PubSnapshot
  <2> QED
    BY <1>1, <1>4, <1>5, <2>1, MessageIs
<1>8. ASSUME PubFinal PROVE WebTypeOK' /\ InboxInv' /\ ShownInv'
  <2>1. Post(Message("final", Snapshot)) /\ ended'
    BY <1>8 DEF PubFinal
  <2> QED
    BY <1>1, <1>5, <2>1, MessageIs
<1>9. ASSUME PubKill PROVE WebTypeOK' /\ InboxInv' /\ ShownInv'
  BY <1>1, <1>4, <1>9 DEF PubKill
<1>10. RegisterInv'
  <2>1. CASE PubRegister
    <3>1. attempts \in 0 .. MaxRegister /\ attempts < MaxRegister
      BY <2>1 DEF PubRegister, RegisterInv, WebTypeOK
    <3> QED
      BY <2>1, <3>1 DEF PubRegister, RegisterInv
  <2>2. CASE PubSnapshot \/ PubFinal \/ PubKill
    BY <2>2 DEF PubSnapshot, PubFinal, PubKill, RegisterInv
  <2> QED
    BY <2>1, <2>2 DEF PubStep
<1> QED
  BY <1>1, <1>6, <1>7, <1>8, <1>9, <1>10 DEF PubStep

-----------------------------------------------------------------------------
(* The whole: the sidecars, the CRSs, compose and the host.                 *)

\* What does not touch the sidecars but the phase, the start of the CRSs or the artifacts.
LEMMA WatchFrame ==
  ASSUME LifecycleTypeOK, WatchInv, UNCHANGED lcVars
  PROVE  LifecycleTypeOK' /\ WatchInv' /\ Exited' = Exited
<1>1. UNCHANGED <<died, lcAt, remaining, cursor, lcStop, listed, ready>>
  BY DEF lcVars
<1> QED
  BY <1>1 DEF LifecycleTypeOK, WatchInv, Exited

\* Steps of the others leave the key generator's types alone.
LEMMA SpendTypeFrame ==
  ASSUME SpendTypeOK, UNCHANGED kgVars
  PROVE  SpendTypeOK'
<1>1. UNCHANGED <<usage, kgAt, kgFinal, kgReady, kgStop, queried, missed, report, kgErrors>>
  BY DEF kgVars
<1> QED
  BY <1>1 DEF SpendTypeOK

\* Steps of the others leave the publisher and the server alone.
LEMMA WebFrame ==
  ASSUME WebTypeOK, RegisterInv, InboxInv, ShownInv, UNCHANGED webVars, report' = report \/ phase # "reported",
         phase' = "reported" <=> phase = "reported"
  PROVE  WebTypeOK' /\ RegisterInv' /\ InboxInv' /\ ShownInv'
<1>1. UNCHANGED <<run, found, pubAt, attempts, pubStop, inbox, webUp, webDowns, shown, saved, heard,
                  finalized, ended>>
  BY DEF webVars, pubVars, srvVars
<1>2. WebTypeOK' /\ RegisterInv'
  BY <1>1 DEF WebTypeOK, RegisterInv
<1>3. InboxInv'
  BY <1>1 DEF InboxInv
<1>4. ShownInv'
  BY <1>1 DEF ShownInv, InProgressIsLive
<1> QED
  BY <1>2, <1>3, <1>4

\* A run with the same run id: what is left of the earlier run belongs to that run.
LEMMA NextRunKeeps ==
  ASSUME IInv, NextRun
  PROVE  IInv'
<1> USE ServicesAssumption, ReportAssumption
<1>1. /\ phase = "reported" /\ run < MaxRuns /\ run' = run + 1 /\ phase' = "up" /\ started' = FALSE
      /\ died' = <<>> /\ remaining' = Services /\ cursor' = 0 /\ lcStop' = FALSE /\ listed' = TRUE
      /\ ready' = {} /\ lcAt' \in {"start", "absent"}
      /\ kgAt' \in {"keys", "absent"} /\ kgStop' = FALSE /\ kgFinal' = FALSE
      /\ usage' = NoCounts /\ queried' = [c \in {} |-> 0] /\ missed' = FALSE
      /\ pubAt' \in {"register", "absent"} /\ attempts' = 0 /\ pubStop' = FALSE
      /\ heard' = FALSE /\ ended' = FALSE /\ finalized' = FALSE
      /\ UNCHANGED <<features, report, kgErrors, found, inbox, webUp, webDowns, shown, saved>>
  BY DEF NextRun
<1>2. kgReady' \in BOOLEAN
  BY Zenon DEF NextRun
<1>3. LifecycleTypeOK' /\ WatchInv'
  <2>1. Cardinality(Services) \in Nat /\ Cardinality({}) = 0
    BY FS_CardinalityType, FS_EmptySet
  <2>2. Exited' = {} /\ Len(died') = 0 /\ died' \in Seq(Services)
    BY <1>1 DEF Exited
  <2>3. Len(died') <= Cardinality(Services) /\ cursor' \in 0 .. Len(died')
    BY <1>1, <2>1, <2>2
  <2>4. LifecycleTypeOK'
    BY <1>1, <2>2, <2>3 DEF LifecycleTypeOK
  <2> QED
    BY <1>1, <2>1, <2>2, <2>4 DEF WatchInv
<1>4. SpendTypeOK'
  <2>1. queried' \in UNION {[asked -> 0 .. MaxUsage] : asked \in SUBSET Crs}
    <3>1. queried' \in [{} -> 0 .. MaxUsage]
      BY <1>1
    <3>2. {} \in SUBSET Crs
      OBVIOUS
    <3> QED
      BY <3>1, <3>2
  <2>2. usage' \in Spend
    BY <1>1 DEF NoCounts, Spend
  <2>3. report' \in Reports /\ kgErrors' \in 0 .. MaxErrors
    BY <1>1 DEF IInv, TypeOK, SpendTypeOK
  <2> QED
    BY <1>1, <1>2, <2>1, <2>2, <2>3 DEF SpendTypeOK
<1>5. FlushInv' /\ ReportedInv'
  BY <1>1 DEF FlushInv, ReportedInv, IInv
<1>6. WebTypeOK'
  <2>1. WebTypeOK
    BY DEF IInv, TypeOK
  <2>2. run' \in 1 .. MaxRuns /\ attempts' \in 0 .. MaxRegister
    BY <1>1, <2>1 DEF WebTypeOK
  <2> QED
    BY <1>1, <2>1, <2>2 DEF WebTypeOK
<1>7. RegisterInv'
  BY <1>1 DEF RegisterInv
<1>8. \A i \in 1 .. Len(inbox) : inbox[i].of < run' /\ inbox[i].of # run'
  <2>1. WebTypeOK /\ InboxInv
    BY DEF IInv, TypeOK
  <2>2. run \in Nat
    BY <2>1 DEF WebTypeOK
  <2>3. \A i \in 1 .. Len(inbox) : inbox[i].of \in Nat /\ inbox[i].of <= run
    BY <2>1, InboxIs DEF InboxInv
  <2> QED
    BY <1>1, <2>2, <2>3
<1>9. InboxInv'
  <2>1. \A i \in 1 .. Len(inbox) : inbox[i].of <= run'
    <3>1. WebTypeOK
      BY DEF IInv, TypeOK
    <3>2. run' \in Nat /\ \A i \in 1 .. Len(inbox) : inbox[i].of \in Nat
      BY <1>1, <3>1, InboxIs DEF WebTypeOK
    <3> QED
      BY <1>8, <3>2
  <2> QED
    BY <1>1, <1>8, <2>1 DEF IInv, InboxInv
<1>10. ShownInv'
  BY <1>1 DEF IInv, ShownInv, InProgressIsLive
<1>11. TypeOK'
  BY <1>1, <1>3, <1>4, <1>6 DEF IInv, TypeOK
<1> QED
  BY <1>3, <1>5, <1>7, <1>9, <1>10, <1>11 DEF IInv

\* The host's report: the CRSs, the key generator and the publisher are gone.
LEMMA HostReportsKeeps ==
  ASSUME IInv, HostReports
  PROVE  IInv'
<1> USE ServicesAssumption, ReportAssumption
<1>1. /\ phase = "stopping" /\ AllStopped /\ phase' = "reported"
      /\ UNCHANGED <<lcVars, kgVars, run, found, pubAt, attempts, pubStop, features, started>>
  BY DEF HostReports, pubVars
<1>2. LifecycleTypeOK' /\ WatchInv' /\ Exited' = Exited
  BY <1>1, WatchFrame DEF IInv, TypeOK
<1>3. UNCHANGED <<usage, kgAt, kgFinal, kgReady, kgStop, queried, missed, report, kgErrors>>
  BY <1>1 DEF kgVars
<1>4. SpendTypeOK' /\ SpendTypeOK /\ WebTypeOK /\ report # Torn
  BY <1>1, SpendTypeFrame DEF IInv, TypeOK, FlushInv
<1>5. CrsGone /\ CrsGone'
  BY <1>1, <1>2 DEF AllStopped, CrsGone
<1>6. FlushInv' /\ ReportedInv' /\ RegisterInv'
  BY <1>1, <1>3, <1>5 DEF IInv, FlushInv, ReportedInv, RegisterInv, AllStopped
<1>7. CASE PublishFinal /\ ended'
  <2>1. PICK m \in Requests : m.of = run /\ m.op = "finalize" /\ m.body.cost = report /\ Post(m)
    <3>1. Post(Message("finalize", FinalBody))
      BY <1>7 DEF PublishFinal
    <3> QED
      BY <1>4, <3>1, MessageIs
  <2>2. /\ inbox' \in Seq(Requests) /\ Len(inbox') <= MaxInbox
        /\ shown' \in States /\ saved' \in States /\ heard' \in BOOLEAN /\ finalized' \in BOOLEAN
        /\ UNCHANGED <<webUp, webDowns>>
        /\ InboxInv' /\ ShownInv'
    BY <1>1, <1>3, <1>4, <1>7, <2>1, PostKeeps DEF IInv
  <2>3. ended' \in BOOLEAN
    BY <1>1 DEF HostReports, IInv, TypeOK, WebTypeOK
  <2>4. WebTypeOK'
    BY <1>1, <1>4, <2>2, <2>3 DEF WebTypeOK
  <2> QED
    BY <1>1, <1>2, <1>4, <1>6, <2>2, <2>4 DEF IInv, TypeOK
<1>8. CASE UNCHANGED <<srvVars, ended>>
  <2>1. UNCHANGED <<inbox, webUp, webDowns, shown, saved, heard, finalized, ended>>
    BY <1>8 DEF srvVars
  <2>2. WebTypeOK'
    BY <1>1, <1>4, <2>1 DEF WebTypeOK
  <2>3. InboxInv'
    BY <1>1, <1>3, <2>1 DEF IInv, InboxInv
  <2>4. ShownInv'
    BY <1>1, <1>3, <2>1 DEF IInv, ShownInv, InProgressIsLive
  <2> QED
    BY <1>1, <1>2, <1>4, <1>6, <2>2, <2>3, <2>4 DEF IInv, TypeOK
<1> QED
  BY <1>7, <1>8 DEF HostReports

\* The invariant is inductive.
LEMMA NextIInv == IInv /\ [Next]_vars => IInv'
<1> SUFFICES ASSUME IInv, [Next]_vars PROVE IInv'
  OBVIOUS
<1> USE ServicesAssumption
<1>0. /\ LifecycleTypeOK /\ SpendTypeOK /\ WebTypeOK /\ features \in Features /\ started \in BOOLEAN
      /\ phase \in {"up", "stopping", "reported"}
      /\ WatchInv /\ FlushInv /\ ReportedInv /\ RegisterInv /\ InboxInv /\ ShownInv
  BY DEF IInv, TypeOK
<1>1. ASSUME UNCHANGED lcVars PROVE LifecycleTypeOK' /\ WatchInv' /\ Exited' = Exited
  BY <1>0, <1>1, WatchFrame
<1>2. ASSUME UNCHANGED kgVars
      PROVE  /\ SpendTypeOK'
             /\ UNCHANGED <<usage, kgAt, kgFinal, kgReady, kgStop, queried, missed, report, kgErrors>>
  BY <1>0, <1>2, SpendTypeFrame DEF kgVars
<1>3. ASSUME UNCHANGED runVars PROVE UNCHANGED <<features, phase, started>>
  BY <1>3 DEF runVars
<1>4. ASSUME UNCHANGED webVars PROVE UNCHANGED <<run, found, pubAt, attempts, pubStop, ended>>
  BY <1>4 DEF webVars, pubVars
<1>5. CASE StartCrs
  <2>1. /\ phase = "up" /\ started' = TRUE
        /\ UNCHANGED <<lcVars, kgVars, webVars, features, phase>>
    BY <1>5 DEF StartCrs
  <2>2. LifecycleTypeOK' /\ WatchInv' /\ SpendTypeOK'
    BY <1>1, <1>2, <2>1
  <2>3. FlushInv' /\ ReportedInv'
    BY <1>0, <1>2, <2>1 DEF FlushInv, ReportedInv
  <2>4. WebTypeOK' /\ RegisterInv' /\ InboxInv' /\ ShownInv'
    BY <1>0, <1>2, <2>1, WebFrame
  <2> QED
    BY <1>0, <2>1, <2>2, <2>3, <2>4 DEF IInv, TypeOK
<1>6. CASE Stop
  <2>1. /\ phase = "up" /\ phase' = "stopping"
        /\ UNCHANGED <<lcVars, kgVars, webVars, features, started>>
    BY <1>6 DEF Stop
  <2>2. LifecycleTypeOK' /\ WatchInv' /\ SpendTypeOK'
    BY <1>1, <1>2, <2>1
  <2>3. FlushInv' /\ ReportedInv'
    BY <1>0, <1>2, <2>1 DEF FlushInv, ReportedInv
  <2>4. WebTypeOK' /\ RegisterInv' /\ InboxInv' /\ ShownInv'
    BY <1>0, <1>2, <2>1, WebFrame
  <2> QED
    BY <1>0, <2>1, <2>2, <2>3, <2>4 DEF IInv, TypeOK
<1>7. ASSUME NEW c \in Crs, CrsWorks(c) PROVE IInv'
  <2>1. UNCHANGED lcVars /\ UNCHANGED runVars /\ ~CrsGone
    BY <1>7 DEF CrsWorks, Runs, CrsGone
  <2>2. phase # "reported" /\ ~kgStop /\ UNCHANGED <<features, phase, started>>
    BY <1>0, <1>3, <2>1 DEF ReportedInv, FlushInv
  <2>3. LifecycleTypeOK' /\ WatchInv' /\ Exited' = Exited
    BY <1>1, <2>1
  <2>4. CASE UseKey(c) /\ UNCHANGED webVars
    <3>1. UNCHANGED <<kgAt, kgFinal, kgReady, kgStop, queried, missed, report, kgErrors>>
      BY <2>4 DEF UseKey
    <3>2. SpendTypeOK'
      BY <1>0, <2>4, SpendKeepsType
    <3>3. FlushInv' /\ ReportedInv'
      BY <1>0, <2>2, <3>1 DEF FlushInv, ReportedInv
    <3>4. WebTypeOK' /\ RegisterInv' /\ InboxInv' /\ ShownInv'
      BY <1>0, <2>2, <2>4, WebFrame
    <3> QED
      BY <1>0, <2>2, <2>3, <3>2, <3>3, <3>4 DEF IInv, TypeOK
  <2>5. CASE FindArtifact(c) /\ UNCHANGED kgVars
    <3>1. /\ found' = [found EXCEPT ![c] = @ + 1] /\ found[c] < MaxFound
          /\ UNCHANGED <<run, pubAt, attempts, pubStop, inbox, webUp, webDowns, shown, saved, heard,
                         finalized, ended>>
      BY <2>5 DEF FindArtifact, pubVars, srvVars
    <3>2. found' \in Counts
      <4>1. found \in Counts
        BY <1>0 DEF WebTypeOK
      <4> QED
        BY <3>1, <4>1 DEF Counts
    <3>3. WebTypeOK' /\ RegisterInv'
      BY <1>0, <3>1, <3>2 DEF WebTypeOK, RegisterInv
    <3>4. InboxInv' /\ ShownInv'
      BY <1>0, <1>2, <2>2, <2>5, <3>1 DEF InboxInv, ShownInv, InProgressIsLive
    <3>5. SpendTypeOK' /\ FlushInv' /\ ReportedInv'
      BY <1>0, <1>2, <2>2, <2>5 DEF FlushInv, ReportedInv
    <3> QED
      BY <1>0, <2>2, <2>3, <3>3, <3>4, <3>5 DEF IInv, TypeOK
  <2> QED
    BY <1>7, <2>4, <2>5 DEF CrsWorks
<1>8. ASSUME NEW s \in Services, CrsExits(s) PROVE IInv'
  <2>1. ServiceExits(s) /\ started /\ UNCHANGED kgVars /\ UNCHANGED webVars /\ UNCHANGED runVars
    BY <1>8 DEF CrsExits
  <2>2. LifecycleTypeOK' /\ WatchInv'
    BY <1>0, <2>1, ExitKeepsWatch
  <2>3. ~CrsGone
    BY <2>1 DEF ServiceExits, CrsGone
  <2>4. UNCHANGED <<features, phase, started>> /\ phase # "reported" /\ ~kgStop
    BY <1>0, <1>3, <2>1, <2>3 DEF ReportedInv, FlushInv
  <2>5. SpendTypeOK' /\ FlushInv' /\ ReportedInv'
    BY <1>0, <1>2, <2>1, <2>4 DEF FlushInv, ReportedInv
  <2>6. WebTypeOK' /\ RegisterInv' /\ InboxInv' /\ ShownInv'
    BY <1>0, <2>1, <2>4, WebFrame
  <2> QED
    BY <1>0, <2>2, <2>4, <2>5, <2>6 DEF IInv, TypeOK
<1>9. CASE (LifecycleStep /\ UNCHANGED <<kgVars, webVars, runVars>>) \/ TermLifecycle
  <2>1. (LifecycleStep \/ LifecycleTerm) /\ UNCHANGED <<kgVars, webVars, runVars>>
    BY <1>9 DEF TermLifecycle
  <2>2. LifecycleTypeOK' /\ WatchInv' /\ died' = died
    BY <1>0, <2>1, LifecycleKeepsWatch
  <2>3. UNCHANGED <<features, phase, started>> /\ (CrsGone <=> CrsGone')
    BY <1>3, <2>1, <2>2 DEF CrsGone, Exited
  <2>4. SpendTypeOK' /\ FlushInv' /\ ReportedInv'
    BY <1>0, <1>2, <1>4, <2>1, <2>3 DEF FlushInv, ReportedInv
  <2>5. WebTypeOK' /\ RegisterInv' /\ InboxInv' /\ ShownInv'
    BY <1>0, <1>2, <2>1, <2>3, WebFrame
  <2> QED
    BY <1>0, <2>2, <2>3, <2>4, <2>5 DEF IInv, TypeOK
<1>10. CASE SpendStep /\ UNCHANGED <<lcVars, webVars, runVars>>
  <2>1. UNCHANGED <<features, phase, started>> /\ UNCHANGED lcVars /\ UNCHANGED webVars
    BY <1>3, <1>10
  <2>2. LifecycleTypeOK' /\ WatchInv' /\ Exited' = Exited
    BY <1>1, <2>1
  <2>3. FlushInv' /\ kgAt \notin {"absent", "ended", "failed"}
    BY <1>0, <1>10, <2>1, SpendKeepsFlush
  <2>4. SpendTypeOK'
    BY <1>0, <1>10, SpendKeepsType
  <2>5. phase # "reported"
    BY <1>0, <2>3 DEF ReportedInv
  <2>6. WebTypeOK' /\ RegisterInv' /\ InboxInv' /\ ShownInv'
    BY <1>0, <2>1, <2>5, WebFrame
  <2>7. ReportedInv'
    BY <2>1, <2>5 DEF ReportedInv
  <2> QED
    BY <1>0, <2>1, <2>2, <2>3, <2>4, <2>6, <2>7 DEF IInv, TypeOK
<1>11. CASE TermKeyGen
  <2>1. /\ phase = "stopping" /\ CrsGone /\ KeyGenTerm
        /\ UNCHANGED lcVars /\ UNCHANGED webVars /\ UNCHANGED <<features, phase, started>>
    BY <1>3, <1>11 DEF TermKeyGen
  <2>2. LifecycleTypeOK' /\ WatchInv' /\ (CrsGone <=> CrsGone')
    BY <1>1, <2>1 DEF CrsGone
  <2>3. /\ kgStop' = TRUE /\ UNCHANGED <<usage, kgAt, kgFinal, kgReady, queried, missed, report, kgErrors>>
    BY <2>1 DEF KeyGenTerm
  <2>4. SpendTypeOK'
    BY <1>0, <2>1, SpendKeepsType
  <2>5. FlushInv' /\ ReportedInv'
    BY <1>0, <2>1, <2>2, <2>3 DEF FlushInv, ReportedInv
  <2>6. WebTypeOK' /\ RegisterInv' /\ InboxInv' /\ ShownInv'
    BY <1>0, <2>1, <2>3, WebFrame
  <2> QED
    BY <1>0, <2>1, <2>2, <2>4, <2>5, <2>6 DEF IInv, TypeOK
<1>12. ASSUME UNCHANGED <<lcVars, kgVars, runVars>>,
              WebTypeOK' /\ RegisterInv' /\ InboxInv' /\ ShownInv',
              phase = "reported" => pubAt' = pubAt
       PROVE  IInv'
  <2>1. UNCHANGED <<features, phase, started>> /\ UNCHANGED lcVars /\ UNCHANGED kgVars
    BY <1>3, <1>12
  <2>2. LifecycleTypeOK' /\ WatchInv' /\ (CrsGone <=> CrsGone')
    BY <1>1, <2>1 DEF CrsGone
  <2>3. SpendTypeOK' /\ FlushInv' /\ ReportedInv'
    BY <1>0, <1>2, <1>12, <2>1, <2>2 DEF FlushInv, ReportedInv
  <2> QED
    BY <1>0, <1>12, <2>1, <2>2, <2>3 DEF IInv, TypeOK
<1>13. CASE TermPublisher
  <2>1. /\ PubTerm /\ UNCHANGED <<lcVars, kgVars, runVars>>
    BY <1>13 DEF TermPublisher
  <2>2. /\ pubStop' = TRUE
        /\ UNCHANGED <<run, found, pubAt, attempts, inbox, webUp, webDowns, shown, saved, heard,
                       finalized, ended>>
    BY <2>1 DEF PubTerm, srvVars
  <2>3. UNCHANGED <<report, phase>>
    BY <1>2, <1>3, <2>1
  <2>4. WebTypeOK' /\ RegisterInv'
    BY <1>0, <2>2 DEF WebTypeOK, RegisterInv
  <2>5. InboxInv' /\ ShownInv'
    BY <1>0, <2>2, <2>3 DEF InboxInv, ShownInv, InProgressIsLive
  <2> QED
    BY <1>12, <2>1, <2>2, <2>4, <2>5
<1>14. CASE PubStep /\ UNCHANGED <<lcVars, kgVars, runVars>>
  <2>1. UNCHANGED <<report, phase>>
    BY <1>2, <1>3, <1>14
  <2>2. WebTypeOK' /\ InboxInv' /\ ShownInv' /\ RegisterInv' /\ pubAt \notin {"absent", "ended"}
    BY <1>0, <1>14, <2>1, PubKeeps
  <2> QED
    BY <1>0, <1>12, <1>14, <2>2 DEF ReportedInv
<1>15. CASE (HandleLate \/ WebCrash \/ WebRestart) /\ UNCHANGED <<lcVars, kgVars, runVars>>
  <2>1. UNCHANGED <<report, phase>>
    BY <1>2, <1>3, <1>15
  <2>2. UNCHANGED <<pubAt, attempts>>
    BY <1>15 DEF HandleLate, WebCrash, WebRestart, pubVars
  <2>3. WebTypeOK' /\ InboxInv' /\ ShownInv'
    BY <1>0, <1>15, <2>1, HandleLateKeeps, WebRestartKeeps
  <2>4. RegisterInv'
    BY <1>0, <2>2 DEF RegisterInv
  <2> QED
    BY <1>12, <1>15, <2>2, <2>3, <2>4
<1>16. CASE UNCHANGED vars
  <2>1. UNCHANGED <<lcVars, kgVars, webVars, features, phase, started>>
    BY <1>16 DEF vars
  <2>2. WebTypeOK' /\ RegisterInv' /\ InboxInv' /\ ShownInv'
    BY <1>0, <1>2, <2>1, WebFrame
  <2> QED
    BY <1>4, <1>12, <2>1, <2>2 DEF runVars
<1> QED
  BY <1>5, <1>6, <1>7, <1>8, <1>9, <1>10, <1>11, <1>13, <1>14, <1>15, <1>16,
     NextRunKeeps, HostReportsKeeps DEF Next

\* The inductive invariant holds in every reachable state.
THEOREM SpecIInv == Spec => []IInv
  BY InitIInv, NextIInv, PTL DEF Spec

\* The dashboard shows no run in progress as ended, and an ended one as ended with its own
\* outcome, across crashes of the server, late requests and runs with the same id.
THEOREM SpecDashboardIsTrue == Spec => []DashboardIsTrue
<1>1. IInv => DashboardIsTrue
  BY DEF IInv, ShownInv, DashboardIsTrue, EndIsShown, Shown
<1> QED
  BY <1>1, SpecIInv, PTL

\* What the CRSs have spent is never garbled, and when the final flush was written and no
\* query failed it is what the dashboard ends with.
THEOREM SpecSpendIsKept == Spec => []SpendIsKept
<1>1. ASSUME IInv, finalized, kgAt = "ended", ~missed PROVE Shown.latest.cost = usage
  <2>1. /\ report # NoReport => shown.latest.cost = report
        /\ shown = saved
    BY <1>1 DEF IInv, ShownInv
  <2>2. kgFinal /\ DOMAIN queried = Crs /\ report = queried /\ \A c \in Crs : queried[c] = usage[c]
    BY <1>1 DEF IInv, FlushInv
  <2>3. queried \in Spend /\ usage \in Spend
    BY <1>1, <2>2, SummaryIs DEF IInv, TypeOK, SpendTypeOK
  <2>4. queried = usage
    BY <2>2, <2>3 DEF Spend
  <2> QED
    BY <2>1, <2>2, <2>3, <2>4, ReportAssumption DEF Shown
<1>2. IInv => SpendIsKept
  BY <1>1 DEF SpendIsKept, SpendIsShown, ReportIsWhole, IInv, FlushInv
<1> QED
  BY <1>2, SpecIInv, PTL

\* Every exit counts, whenever it happens between the saved time, the list and the stream;
\* and the ready file is written only when all watched services have exited.
THEOREM SpecExitsAreCounted == Spec => ExitsAreCounted
<1>1. IInv => NoExitIsMissed
  BY DEF IInv, WatchInv, NoExitIsMissed
<1>2. IInv /\ [Next]_vars => [ready' # ready /\ ready' # {} => Exited = Services]_vars
  <2> SUFFICES ASSUME IInv, Next, ready' # ready, ready' # {} PROVE Exited = Services
    OBVIOUS
  <2>1. LifecycleStep \/ LifecycleTerm
    BY DEF Next, StartCrs, Stop, HostReports, NextRun, CrsWorks, CrsExits, ServiceExits, TermKeyGen,
       TermLifecycle, TermPublisher, lcVars
  <2>2. Services \subseteq Exited
    BY <2>1, LifecycleKeepsWatch DEF IInv, TypeOK
  <2>3. Exited \subseteq Services
    BY ExitedIs DEF IInv, TypeOK
  <2> QED
    BY <2>2, <2>3
<1> QED
  BY <1>1, <1>2, SpecIInv, PTL DEF Spec, ExitsAreCounted, ReadyMeansStopped
=============================================================================
