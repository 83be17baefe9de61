----------------------------- MODULE MCComposeRun -----------------------------
(* Instances of ComposeRun for TLC.                                         *)
EXTENDS ComposeRun

Opts(e, t, i, o, m) == [early |-> e, timeout |-> t, inputs |-> i, offline |-> o, many |-> m,
                        snapshot |-> i]

\* Nothing but the deadline, and every feature.
MCOptions == { Opts(FALSE, TRUE, FALSE, TRUE, FALSE), Opts(TRUE, TRUE, TRUE, FALSE, TRUE) }

MCTasks == {"prepare", "run", "logs", "down", "exchange", "shared", "inputs", "compose",
            "build", "shared1"}
MCCommands == {"build", "up"}
MCShared   == <<"shared1">>
MCOneWait  == { Opts(FALSE, FALSE, FALSE, TRUE, FALSE) }

=============================================================================
