------------------------------ MODULE MCResources ------------------------------
(* Instances of Resources for TLC: two CRSs, whose names sort in the reverse *)
(* order; two runs of one id.                                               *)
EXTENDS Resources, TLC

CONSTANTS r1, r2
MCNameRank == 0 :> 3 @@ 1 :> 2 @@ 2 :> 1
MCRunIdOf == r1 :> 1 @@ r2 :> 1
MCTemplates == [0 .. 2 -> 1 .. 5] \union {<<>>}
MCPools == 1 .. 12
MCMemories == {3, 8, 13, 26}

=============================================================================
