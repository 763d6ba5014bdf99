--------------------------- MODULE MCTransactions ---------------------------
(***************************************************************************)
(* A client c, and two providers of the content A behind one another: the  *)
(* offer of p2 comes back over p1, which makes a dearer offer of its own.  *)
(* The client's first transaction asks for the entries of A and takes no   *)
(* offer above the price of p2, the second asks for a key of A and takes   *)
(* the cheapest of two.                                                    *)
(***************************************************************************)
EXTENDS Transactions

CONSTANTS c, p1, p2, t1, t2, A, eu

MCLinks == {<<c, p1>>, <<p1, c>>, <<p1, p2>>, <<p2, p1>>}
MCRegionsOf == [n \in Nodes |-> {eu}]
MCHolds == [n \in Nodes |-> IF n = c THEN {} ELSE {A}]
MCPPB == [n \in Nodes |-> IF n = p1 THEN 2 ELSE 1]

MCRoot == [t \in Txs |-> A]
MCLoad == [t \in Txs |-> "load"]
MCPath == [t \in Txs |-> IF t = t1 THEN "" ELSE "key"]

SelectFirst == [after |-> -1, wait |-> FALSE, ceiling |-> -1]
SelectCheapest == [after |-> 2, wait |-> TRUE, ceiling |-> -1]
SelectFirstLowerThan == [after |-> -1, wait |-> FALSE, ceiling |-> 1]

MCStrategy ==
    [t \in Txs |-> IF t = t1 THEN SelectFirstLowerThan ELSE SelectCheapest]
MCFirst == [t \in Txs |-> SelectFirst]
=============================================================================
