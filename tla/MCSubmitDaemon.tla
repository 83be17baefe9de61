--------------------------- MODULE MCSubmitDaemon ---------------------------
(* SubmitDaemon for TLC: two data files and a dotfile, two contents. *)
EXTENDS SubmitDaemon
CONSTANTS f, g, dotfile, x, y
=============================================================================
