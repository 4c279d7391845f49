---------------------------- MODULE MCCheckout -----------------------------
(* One product, ordered one unit at a time, under one Idempotency-Key. *)
EXTENDS Checkout, TLC

CONSTANTS r1, a, k1

RowOfA == a :> r1
RankA == a :> 0
CartsA == {a :> 1}

AllDuplicates == [t \in Txn |-> k1]

Symmetry == Permutations(Txn)

MCInit == CheckoutInit /\ listed = [r \in Row |-> TRUE]
MCSpec == MCInit /\ [][CheckoutNext]_checkoutVars
=============================================================================
