----------------------------- MODULE MCExchange -----------------------------
(***************************************************************************)
(* Exchange for TLC: two CRSs, a report both may name the same (with the   *)
(* same content it stands for a hash-named file), a writer's temporary dot *)
(* file, and one fetch daemon.                                             *)
(***************************************************************************)
EXTENDS Exchange, TLC

CONSTANTS a, b, reports, report, dotfile, v, w, daemon

MCDirOf == (report :> reports) @@ (dotfile :> reports)
MCContentsOf == (report :> {v, w}) @@ (dotfile :> {})
MCFetchDir == (daemon :> reports)
=============================================================================
