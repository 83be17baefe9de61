--------------------------- MODULE MCBuilderSidecar ---------------------------
\* Instances of the builder sidecar.
EXTENDS BuilderSidecar, TLC

CONSTANTS c1, c2, k1, k2, p1, p2, p3, w1, w2

\* Two callers inside one CRS.
OneCrs == k1 :> c1 @@ k2 :> c1
OnePatch == k1 :> {p1} @@ k2 :> {p1}
DistinctPatches == k1 :> {p1} @@ k2 :> {p2}
===============================================================================
