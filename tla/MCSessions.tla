----------------------------- MODULE MCSessions -----------------------------
(* One user with three tokens, which are alike, and another with one. *)
EXTENDS Sessions, TLC

CONSTANTS u1, u2, t1, t2, t3, t4

OwnerOfToken == [t \in Token |-> IF t = t4 THEN u2 ELSE u1]

Alike == Permutations(Request) \cup Permutations(Token \ {t4})
=============================================================================
