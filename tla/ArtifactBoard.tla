---------------------------- MODULE ArtifactBoard ----------------------------
(***************************************************************************)
(* What the artifact exchange of OSS-CRS promises, with no sidecar, no     *)
(* directory and no polling: CRSs offer artifacts, each under a path (data *)
(* type and file name); for every path at most one of the offers is ever   *)
(* published, it is published whole, it is never replaced or withdrawn,    *)
(* and a consumer's copy is a copy of the published artifact.              *)
(***************************************************************************)
CONSTANTS Paths,        \* <data type>/<file name>, visible names only
          Contents,     \* what a complete artifact may hold
          Consumers,    \* directories artifacts are fetched into
          None          \* "no such file"

VARIABLES offers,       \* every <<path, content>> a CRS has offered
          board,        \* board[p]: the published artifact of path p
          copies        \* copies[k][p]: consumer k's copy of path p

vars == <<offers, board, copies>>

Init ==
  /\ offers = {}
  /\ board = [p \in Paths |-> None]
  /\ copies = [k \in Consumers |-> [p \in Paths |-> None]]

\* A CRS offers content v under path p; a path may be offered more than once.
Offer(p, v) ==
  /\ offers' = offers \union {<<p, v>>}
  /\ UNCHANGED <<board, copies>>

\* One of the offers for an unpublished path is published.
Publish(p, v) ==
  /\ board[p] = None
  /\ <<p, v>> \in offers
  /\ board' = [board EXCEPT ![p] = v]
  /\ UNCHANGED <<offers, copies>>

\* Consumer k copies a published artifact it does not have yet.
Take(k, p) ==
  /\ board[p] # None
  /\ copies[k][p] = None
  /\ copies' = [copies EXCEPT ![k][p] = board[p]]
  /\ UNCHANGED <<offers, board>>

Next ==
  \/ \E p \in Paths, v \in Contents : Offer(p, v) \/ Publish(p, v)
  \/ \E k \in Consumers, p \in Paths : Take(k, p)

Spec == Init /\ [][Next]_vars
=============================================================================
