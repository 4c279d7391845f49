----------------------------- MODULE MCGateway -----------------------------
(***************************************************************************)
(* Two scenes of one application, told apart by who comes first.           *)
(*                                                                         *)
(* The callers: an administrator and a user, each with one order; the user *)
(* also presents a refresh token, which verifies and has no role, and may  *)
(* send a key that the administrator's order is stored under.  q1 turns    *)
(* out to be any call, q2 a call for orders, and the process may end at    *)
(* any moment.  Both are within the limit, and the clocks stand.           *)
(*                                                                         *)
(* The crowd: requests for /health, one more than the limit, reach the     *)
(* limiter one after the other over more than a whole window.              *)
(***************************************************************************)
EXTENDS Gateway, TLC

CONSTANTS c1, q1, q2, q3, q4, q5, admin, user, nobody, o1, o2, k1

OneClient == [r \in Request |-> c1]
Bearers == {nobody, [user |-> admin, role |-> "ADMIN"],
            [user |-> user, role |-> "USER"], [user |-> user, role |-> "undefined"]}
Owners == o1 :> admin @@ o2 :> user
Stored == k1 :> o1

AnyCall == {c \in Call : /\ App[c.target].steps \in {<<>>, Public} => c.bearer = nobody
                         /\ c.target # "createOrder" => c.key = NoKey}
OrderCall == {c \in AnyCall : /\ c.target \in {"createOrder", "listOrders", "getOrder"}
                              /\ AccessToken(c.bearer) /\ c.valid}
Probe == [target |-> "health", bearer |-> nobody, valid |-> TRUE, key |-> NoKey]
FewCalls == [r \in Request |-> CASE r = q1 -> AnyCall
                                 [] r = q2 -> OrderCall
                                 [] OTHER -> {Probe}]

Callers == {q1, q2}
Crowd == <<q3, q4, q5>>
Waits(S) == \A r \in S : pc[r] = "idle"
Ended(S) == \A r \in S : pc[r] = "done"
CrowdSet == {Crowd[i] : i \in DOMAIN Crowd}

\* Arrivals and the clocks are restricted, but a request that can be served
\* still can: the fairness of GatewayFairSpec keeps its meaning.
MCNext ==
    \/ /\ time = 0 /\ Waits(CrowdSet)
       /\ \/ \E r \in Callers : (Receive(r) \/ Serve(r)) /\ score'[r] = 0
          \/ Shutdown
          \/ Exit
    \/ /\ Waits(Callers) /\ ~down
       /\ \/ \E i \in DOMAIN Crowd :
                \/ Receive(Crowd[i]) /\ Ended({Crowd[j] : j \in 1..(i - 1)})
                \/ Serve(Crowd[i])
          \/ /\ \A r \in CrowdSet : pc[r] \in {"idle", "done"}
             /\ Tick /\ UNCHANGED <<callVars, down>>

MCSpec ==
    GatewayInit /\ [][MCNext]_gatewayVars /\ \A r \in Request : WF_gatewayVars(Serve(r))
=============================================================================
