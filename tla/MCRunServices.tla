----------------------------- MODULE MCRunServices -----------------------------
(* Instances of RunServices for TLC: one CRS with two watched services.      *)
EXTENDS RunServices, TLC

CONSTANTS c, s1, s2
MCOwner == s1 :> c @@ s2 :> c

\* Without the web UI the lifecycle sidecar, with it the key generator or nothing else.
MCFeatures == {{"lifecycle"}, {"webui"}, {"llm", "webui"}}
MCRepeated == {{"webui"}}

=============================================================================
