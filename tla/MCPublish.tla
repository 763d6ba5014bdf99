------------------------------ MODULE MCPublish ------------------------------
(***************************************************************************)
(* Two caches in the region of the node, the first of which has an index   *)
(* to announce when it connects.                                           *)
(***************************************************************************)
EXTENDS Publish

CONSTANTS c1, c2, put, commit, to, local, post, again, get, status

MCHome == <<"eu">>
MCRegionsOf == [p \in Peers |-> {"eu"}]
\* One of the commits names a peer.
MCInitPeers == [d \in Calls |-> IF d = to THEN <<c2>> ELSE <<>>]
MCRF == [d \in Calls |-> CASE d \in {commit, to} -> 2 [] d \in {post, again} -> 1
                           [] OTHER -> 0]
MCAttempts == [d \in Calls |-> IF d = commit \/ Kind[d] = "post" THEN 1 ELSE 0]
MCKind == [c \in Calls |->
              CASE c = put -> "put" [] c \in {commit, to, local} -> "commit"
                [] c \in {post, again} -> "post" [] c = get -> "get"
                [] c = status -> "status"]

MCScenarios == {
    [calls |-> {put, commit}, known |-> {c2}, listed |-> FALSE, faults |-> 2],
    [calls |-> {put, local, get, status}, known |-> {c2}, listed |-> TRUE, faults |-> 0],
    [calls |-> {put, to, commit}, known |-> {c2}, listed |-> FALSE, faults |-> 0],
    [calls |-> {post}, known |-> {c2}, listed |-> FALSE, faults |-> 1],
    [calls |-> {post, again}, known |-> {c2}, listed |-> FALSE, faults |-> 0],
    [calls |-> {}, known |-> {}, listed |-> FALSE, faults |-> 4]}
=============================================================================
