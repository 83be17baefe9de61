--------------------------- MODULE MCPatchValidation ---------------------------
\* Two callers, each with its own CRS and patches, one call at a time.
EXTENDS PatchValidation, TLC

CONSTANTS c1, c2, k1, k2, p1, p2, p3, w1, w2

OwnCrs == k1 :> c1 @@ k2 :> c2
OwnPatches == k1 :> {p1, p2} @@ k2 :> {p3}
===============================================================================
