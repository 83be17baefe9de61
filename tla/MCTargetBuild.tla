----------------------------- MODULE MCTargetBuild -----------------------------
(* Instances of TargetBuild for TLC.                                        *)
EXTENDS TargetBuild

MCBuilders == <<"fuzz", "cov">>

=============================================================================
