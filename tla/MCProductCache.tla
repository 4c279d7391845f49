--------------------------- MODULE MCProductCache ---------------------------
(* One product, whose id may be spelled in upper case, too. *)
EXTENDS ProductCache

CONSTANT r1

RowOfId == [i \in Id |-> r1]

FaultFreeSpec == Init /\ [][FaultFreeNext]_vars
=============================================================================
