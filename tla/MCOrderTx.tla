----------------------------- MODULE MCOrderTx -----------------------------
(***************************************************************************)
(* Instances of OrderTx for TLC: two products, every one on sale at first  *)
(* and priced alike (SoftDelete and Update change that while orders run).  *)
(* The second product is also ordered under an upper-case spelling, which  *)
(* sorts before every lower-case one.                                      *)
(***************************************************************************)
EXTENDS OrderTx, TLC

CONSTANTS r1, r2, a, b, B

Ids == {a, b, B}
Rows == a :> r1 @@ b :> r2 @@ B :> r2
Ranks == B :> 0 @@ a :> 1 @@ b :> 2

\* One unit a line is enough to meet a row twice and to lock in any order ...
UnitCarts == UNION {[D -> {1}] : D \in (SUBSET Ids) \ {{}}}
\* ... and a line of two, for the check of the quantity.
SomeCarts == {a :> 2, a :> 1 @@ b :> 1, a :> 1 @@ B :> 1, b :> 1 @@ B :> 1}

\* One or two units of the first product, a full column of the second.
MCInit ==
    /\ Init
    /\ listed = [r \in Row |-> TRUE]
    /\ price = [r \in Row |-> 1]
    /\ stock[r1] > 0 /\ stock[r2] = MaxInt
MCSpec == MCInit /\ [][Next]_vars
MCFairSpec == MCSpec /\ \A t \in Txn : WF_vars(Step(t))
=============================================================================
