---------------------------- MODULE MCCommandRunner ----------------------------
(* Instances of CommandRunner for TLC: two commands, one after the other.   *)
EXTENDS CommandRunner

MCCommands == 1 .. 2

=============================================================================
