---------------------------- MODULE MCDirectory ----------------------------
(* Columns hold 0 until a patch sets them to 1; a user's patch sets the role *)
(* or the display name, a category's its name, with or without description. *)
EXTENDS Directory, TLC

CONSTANTS n1, n2

AFewPatches(t) ==
    IF t = "users" THEN {"note" :> 1, "role" :> 1}
    ELSE {"name" :> n1, "name" :> n2 @@ "note" :> 1}

UserThenCategory == <<[table |-> "users", name |-> n1],
                      [table |-> "categories", name |-> n1],
                      [table |-> "products", name |-> n1]>>

\* The columns of an existing row are all 0, and it is no product.
MCInit ==
    /\ Init
    /\ \A i \in Id : rows[i] # NoRow =>
           rows[i].note = 0 /\ rows[i].role = 0 /\ rows[i].table # "products"
MCSpec == MCInit /\ [][Next]_vars

\* A first start: the tables are empty, and the API runs between two seeds, as
\* docker-compose.yml orders them.
FirstStart ==
    /\ Init /\ \A i \in Id : rows[i] = NoRow
    /\ [][Next /\ ((\E s \in Seed : Running(s)) => UNCHANGED reqVars)]_vars

Symmetry == Permutations(Id) \cup Permutations(Request)
=============================================================================
