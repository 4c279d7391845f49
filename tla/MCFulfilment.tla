--------------------------- MODULE MCFulfilment ----------------------------
(* One order, two slots of the email worker, one of the analytics worker.    *)
EXTENDS Fulfilment, TLC

CONSTANTS w1, w2, w3

Kinds == w1 :> "email" @@ w2 :> "email" @@ w3 :> "analytics"
=============================================================================
