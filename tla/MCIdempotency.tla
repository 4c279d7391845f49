--------------------------- MODULE MCIdempotency ---------------------------
(* Four submissions: three share a key, one carries none. *)
EXTENDS Idempotency, TLC

CONSTANTS a1, a2, a3, a4, k1

KeyOfAttempt == a1 :> k1 @@ a2 :> k1 @@ a3 :> k1 @@ a4 :> NoKey
=============================================================================
