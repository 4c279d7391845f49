-------------------------- MODULE DirectoryProofs --------------------------
(***************************************************************************)
(* Proofs about Directory, for every set of uuids, names, values, patches, *)
(* calls and seeds, with or without failures and overlapping seeds.        *)
(***************************************************************************)
EXTENDS Directory, TLAPS

-----------------------------------------------------------------------------
(* Shapes *)

LEMMA CallShape ==
    ASSUME NEW c \in Calls
    PROVE  /\ c.op \in {"create", "update", "delete"}
           /\ c.table \in Indexed
           /\ c.op = "create" => c.name \in Name
           /\ c.op # "create" => c.id \in Id
           /\ c.op = "update" => c.patch \in Patches(c.table)
  <1>1. CASE c \in Creates
    BY <1>1 DEF Creates
  <1>2. CASE c \in Updates
    <2>1. PICK t \in Indexed :
              c \in [op : {"update"}, table : {t}, id : Id, patch : Patches(t),
                     exact : IF t = "users" THEN {TRUE} ELSE BOOLEAN]
      BY <1>2 DEF Updates
    <2>2. ASSUME NEW E,
                 c \in [op : {"update"}, table : {t}, id : Id, patch : Patches(t),
                        exact : E]
          PROVE  c.op = "update" /\ c.table = t /\ c.id \in Id /\ c.patch \in Patches(t)
      BY <2>2
    <2> QED
      BY <2>1, <2>2
  <1>3. CASE c \in Deletes
    BY <1>3 DEF Deletes
  <1> QED
    BY <1>1, <1>2, <1>3 DEF Calls

\* The call of a request that has started.
LEMMA StartedCall ==
    ASSUME TypeOK, CallsMatch, NEW r \in Request, pc[r] # "idle"
    PROVE  /\ call[r] \in Calls
           /\ call[r].table \in Indexed
           /\ call[r].op = "create" => call[r].name \in Name
           /\ call[r].op # "create" => call[r].id \in Id
           /\ call[r].op = "update" => call[r].patch \in Patches(call[r].table)
  BY CallShape DEF CallsMatch

\* The row that the seed is at.
LEMMA EnsuredRow ==
    ASSUME TypeOK, NEW s \in Seed
    PROVE  /\ Ensured[seed[s].at].table \in Tables
           /\ Ensured[seed[s].at].name \in Name
  <1>1. seed[s].at \in 1..Len(Ensured)
    BY DEF TypeOK
  <1>2. ASSUME NEW E, Ensured \in Seq(E)
        PROVE  Ensured[seed[s].at] \in E
    BY <1>1, <1>2
  <1>3. Ensured[seed[s].at] \in [table : Tables, name : Name]
    BY <1>2, EnsuredAssumption
  <1> QED
    BY <1>3

\* UPDATE changes the columns of the patch and no other.
LEMMA PatchedColumns ==
    ASSUME NEW t \in Indexed, NEW p \in Patches(t), NEW row \in Row, row.table = t
    PROVE  /\ Patched(p, row) \in Row
           /\ Patched(p, row).table = t
           /\ Patched(p, row).live = row.live
           /\ Patched(p, row).by = row.by
           /\ t = "users" => Patched(p, row).name = row.name
           /\ DOMAIN p \subseteq {"name", "note", "role"}
           /\ \A f \in DOMAIN p : Patched(p, row)[f] = p[f]
           /\ \A f \in {"name", "note", "role"} \ DOMAIN p : Patched(p, row)[f] = row[f]
  <1>1. DOMAIN p \subseteq Columns(t)
    BY PatchAssumption
  <1>2. DOMAIN p \subseteq {"name", "note", "role"} /\ (t = "users" => "name" \notin DOMAIN p)
    BY <1>1 DEF Columns
  <1>3. \A f \in DOMAIN p : p[f] \in IF f = "name" THEN Name ELSE Value
    BY PatchAssumption
  <1>4. /\ At(p, "name", row.name) \in Name
        /\ At(p, "note", row.note) \in Value
        /\ At(p, "role", row.role) \in Value
    BY <1>3 DEF At, Row
  <1>5. Patched(p, row) = [row EXCEPT !.name = At(p, "name", row.name),
                                      !.note = At(p, "note", row.note),
                                      !.role = At(p, "role", row.role)]
    BY DEF Patched
  <1>6. Patched(p, row) \in Row
    BY <1>4, <1>5 DEF Row
  <1>7. /\ Patched(p, row).table = t /\ Patched(p, row).live = row.live
        /\ Patched(p, row).by = row.by
        /\ Patched(p, row).name = At(p, "name", row.name)
        /\ Patched(p, row).note = At(p, "note", row.note)
        /\ Patched(p, row).role = At(p, "role", row.role)
    BY <1>5 DEF Row
  <1> QED
    BY <1>2, <1>6, <1>7 DEF At

-----------------------------------------------------------------------------
(* What a step does to the tables *)

\* Rows stay in their table, with their inserter; a user keeps the email; and
\* nothing comes back to life.
Keeps(i) ==
    rows[i] # NoRow =>
        /\ rows'[i] # NoRow
        /\ rows'[i].table = rows[i].table
        /\ rows'[i].by = rows[i].by
        /\ rows'[i].live => rows[i].live
        /\ rows[i].table = "users" => rows'[i].name = rows[i].name

\* What the lemmas below show of a step's effect on the tables.
RowsGood ==
    /\ rows' \in [Id -> Row \cup {NoRow}]
    /\ OneHolder'
    /\ \A i \in Id : Keeps(i)

\* Writing one row keeps the names unique if the index lets it pass.
LEMMA WriteOneRow ==
    ASSUME TypeOK, OneHolder, NEW k \in Id, NEW w \in Row,
           rows' = [rows EXCEPT ![k] = w],
           w.table \in Indexed =>
               \A j \in Id \ {k} : ~(In(w.table, j) /\ rows[j].name = w.name)
    PROVE  /\ rows' \in [Id -> Row \cup {NoRow}]
           /\ OneHolder'
           /\ rows'[k] = w
           /\ \A j \in Id \ {k} : rows'[j] = rows[j]
  <1>1. rows' \in [Id -> Row \cup {NoRow}]
    BY DEF TypeOK
  <1>2. rows'[k] = w /\ \A j \in Id \ {k} : rows'[j] = rows[j]
    BY DEF TypeOK
  <1>3. OneHolder'
    <2> SUFFICES ASSUME NEW i \in Id, NEW j \in Id, i # j, rows'[i] # NoRow,
                        rows'[i].table \in Indexed, rows'[j] # NoRow,
                        rows'[j].table = rows'[i].table,
                        rows'[j].name = rows'[i].name
                 PROVE  FALSE
      BY DEF OneHolder, In
    <2>1. CASE i = k
      BY <1>2, <2>1 DEF In
    <2>2. CASE j = k
      BY <1>2, <2>2 DEF In
    <2>3. CASE i # k /\ j # k
      BY <1>2, <2>3 DEF OneHolder, In
    <2> QED
      BY <2>1, <2>2, <2>3
  <1> QED
    BY <1>1, <1>2, <1>3

LEMMA InsertGood ==
    ASSUME TypeOK, OneHolder, NEW t \in Tables, NEW n \in Name,
           NEW a \in Request \cup Seed, InsertRow(t, n, a)
    PROVE  /\ RowsGood
           /\ \A j \in Id : rows[j] # NoRow => rows'[j] = rows[j]
           /\ \A j \in Id : rows[j] = NoRow /\ rows'[j] # NoRow => rows'[j].by = a
           /\ \E i \in Id : /\ rows'[i] # NoRow /\ rows'[i].table = t
                            /\ rows'[i].by = a
  <1>1. PICK i \in Id, v \in Value :
            /\ rows[i] = NoRow
            /\ rows' = [rows EXCEPT ![i] = [table |-> t, name |-> n, note |-> v,
                                            role |-> v, live |-> TRUE, by |-> a]]
    BY DEF InsertRow
  <1> DEFINE w == [table |-> t, name |-> n, note |-> v, role |-> v,
                   live |-> TRUE, by |-> a]
  <1>2. w \in Row
    BY DEF Row
  <1>3. w.table \in Indexed =>
            \A j \in Id \ {i} : ~(In(w.table, j) /\ rows[j].name = w.name)
    BY DEF InsertRow, Clashes
  <1>4. /\ rows' \in [Id -> Row \cup {NoRow}] /\ OneHolder'
        /\ rows'[i] = w /\ \A j \in Id \ {i} : rows'[j] = rows[j]
    <2> HIDE DEF w
    <2> QED
      BY <1>1, <1>2, <1>3, WriteOneRow DEF w
  <1>5. rows'[i] # NoRow
    BY <1>2, <1>4, DistinctAssumption
  <1> QED
    BY <1>1, <1>4, <1>5 DEF RowsGood, Keeps

LEMMA UpdateGood ==
    ASSUME TypeOK, OneHolder, CallsMatch, NEW r \in Request, UpdateRow(r),
           ~Clashes(call[r].table, Patched(call[r].patch, rows[call[r].id]).name,
                    {call[r].id})
    PROVE  LET k == call[r].id
           IN  /\ RowsGood
               /\ k \in Id /\ rows[k] # NoRow
               /\ rows'[k] = Patched(call[r].patch, rows[k])
               /\ \A j \in Id \ {k} : rows'[j] = rows[j]
               /\ took' = took \cup {r}
               /\ pc' = [pc EXCEPT ![r] = "reread"]
               /\ UNCHANGED <<call, answer, seed>>
  <1> DEFINE k == call[r].id
             w == Patched(call[r].patch, rows[k])
  <1>1. pc[r] = "update"
    BY DEF UpdateRow
  <1>2. /\ call[r].op = "update" /\ call[r].table \in Indexed /\ k \in Id
        /\ call[r].patch \in Patches(call[r].table)
        /\ In(call[r].table, k)
    BY <1>1, StartedCall DEF CallsMatch
  <1>3. rows[k] \in Row /\ rows[k].table = call[r].table /\ rows[k] # NoRow
    BY <1>2 DEF TypeOK, In
  <1>4. /\ w \in Row /\ w.table = call[r].table /\ w.live = rows[k].live
        /\ w.by = rows[k].by
        /\ call[r].table = "users" => w.name = rows[k].name
    BY <1>2, <1>3, PatchedColumns
  <1>5. w.table \in Indexed =>
            \A j \in Id \ {k} : ~(In(w.table, j) /\ rows[j].name = w.name)
    BY <1>2, <1>4 DEF Clashes
  <1>6. /\ rows' = [rows EXCEPT ![k] = w]
        /\ took' = took \cup {r}
        /\ pc' = [pc EXCEPT ![r] = "reread"]
        /\ UNCHANGED <<call, answer, seed>>
    BY DEF UpdateRow, GoTo
  <1>7. /\ rows' \in [Id -> Row \cup {NoRow}] /\ OneHolder'
        /\ rows'[k] = w /\ \A j \in Id \ {k} : rows'[j] = rows[j]
    <2> HIDE DEF w, k
    <2> QED
      BY <1>2, <1>4, <1>5, <1>6, WriteOneRow
  <1>8. w # NoRow
    BY <1>4, DistinctAssumption
  <1> QED
    BY <1>2, <1>3, <1>4, <1>6, <1>7, <1>8 DEF RowsGood, Keeps

LEMMA DeleteGood ==
    ASSUME TypeOK, OneHolder, CallsMatch, NEW r \in Request, SoftDelete(r),
           In(call[r].table, call[r].id)
    PROVE  LET k == call[r].id
           IN  /\ RowsGood
               /\ k \in Id
               /\ rows'[k] = [rows[k] EXCEPT !.live = FALSE]
               /\ rows'[k].live = FALSE
               /\ \A j \in Id \ {k} : rows'[j] = rows[j]
               /\ \A j \in Id : \A f \in {"name", "note", "role"} :
                      rows[j] # NoRow => rows'[j][f] = rows[j][f]
               /\ took' = took \cup {r}
               /\ pc' = [pc EXCEPT ![r] = "done"]
               /\ answer' \in {[answer EXCEPT ![r] = 200], [answer EXCEPT ![r] = 500]}
               /\ UNCHANGED <<call, seed>>
  <1> DEFINE k == call[r].id
             w == [rows[k] EXCEPT !.live = FALSE]
  <1>1. pc[r] = "delete"
    BY DEF SoftDelete
  <1>2. call[r].op = "delete" /\ call[r].table \in Indexed /\ k \in Id
    BY <1>1, StartedCall DEF CallsMatch
  <1>3. rows[k] \in Row /\ rows[k].table = call[r].table /\ rows[k] # NoRow
    BY <1>2 DEF TypeOK, In
  <1>4. /\ w \in Row /\ w.table = rows[k].table /\ w.live = FALSE
        /\ w.by = rows[k].by /\ w.name = rows[k].name
        /\ w.note = rows[k].note /\ w.role = rows[k].role
    BY <1>3 DEF Row
  <1>5. \A j \in Id \ {k} : ~(In(w.table, j) /\ rows[j].name = w.name)
    BY <1>2, <1>3, <1>4 DEF OneHolder, In
  <1>6. /\ rows' = [rows EXCEPT ![k] = w]
        /\ took' = took \cup {r}
        /\ pc' = [pc EXCEPT ![r] = "done"]
        /\ answer' \in {[answer EXCEPT ![r] = 200], [answer EXCEPT ![r] = 500]}
        /\ UNCHANGED <<call, seed>>
    BY DEF SoftDelete, Respond
  <1>7. /\ rows' \in [Id -> Row \cup {NoRow}] /\ OneHolder'
        /\ rows'[k] = w /\ \A j \in Id \ {k} : rows'[j] = rows[j]
    <2> HIDE DEF w, k
    <2> QED
      BY <1>2, <1>4, <1>5, <1>6, WriteOneRow
  <1>8. w # NoRow
    BY <1>4, DistinctAssumption
  <1>9. \A j \in Id : Keeps(j)
    BY <1>4, <1>7, <1>8 DEF Keeps
  <1>10. \A j \in Id : \A f \in {"name", "note", "role"} :
             rows[j] # NoRow => rows'[j][f] = rows[j][f]
    BY <1>4, <1>7
  <1> QED
    BY <1>2, <1>4, <1>6, <1>7, <1>9, <1>10 DEF RowsGood

\* Rows that stay as they are.
LEMMA SameRowsGood ==
    ASSUME TypeOK, OneHolder, rows' = rows
    PROVE  RowsGood
  BY DEF RowsGood, Keeps, TypeOK, OneHolder, In

-----------------------------------------------------------------------------
(* The actions, for the invariants below *)

\* r's step changes at most the rows, r's own place, answer and effect.
LEMMA OwnStep ==
    ASSUME TypeOK, CallsMatch, NEW r \in Request,
           \/ Find(r) \/ Insert(r) \/ GetById(r) \/ CheckName(r) \/ UpdateRow(r)
           \/ Reread(r) \/ SoftDelete(r) \/ Fails(r)
    PROVE  /\ call' = call /\ seed' = seed
           /\ pc[r] \notin {"idle", "done"} /\ answer[r] = 0
           /\ pc' \in [Request -> {"idle", "find", "insert", "get", "check",
                                   "update", "reread", "delete", "done"}]
           /\ answer' \in [Request -> {0, 200, 201, 404, 409, 500}]
           /\ took' \in {took, took \cup {r}}
           /\ \A q \in Request \ {r} : pc'[q] = pc[q] /\ answer'[q] = answer[q]
  <1>1. pc[r] \notin {"idle", "done"}
    BY DEF Find, Insert, GetById, CheckName, UpdateRow, Reread, SoftDelete, Fails
  <1>2. answer[r] = 0
    BY <1>1 DEF CallsMatch
  <1>3. call' = call /\ seed' = seed /\ took' \in {took, took \cup {r}}
    BY DEF Find, Insert, GetById, CheckName, UpdateRow, Reread, SoftDelete, Fails,
           Respond, GoTo
  <1>4. \/ \E p \in {"insert", "check", "update", "reread"} :
               pc' = [pc EXCEPT ![r] = p] /\ answer' = answer
        \/ /\ pc' = [pc EXCEPT ![r] = "done"]
           /\ \E a \in {200, 201, 404, 409, 500} : answer' = [answer EXCEPT ![r] = a]
    BY DEF Find, Insert, GetById, CheckName, UpdateRow, Reread, SoftDelete, Fails,
           Respond, GoTo
  <1> QED
    BY <1>1, <1>2, <1>3, <1>4 DEF TypeOK

LEMMA NextRowsGood ==
    ASSUME TypeOK, OneHolder, CallsMatch, [Next]_vars
    PROVE  RowsGood
  <1>0. ASSUME rows' = rows
        PROVE  RowsGood
    BY <1>0, SameRowsGood
  <1>1. ASSUME NEW r \in Request, Insert(r)
        PROVE  RowsGood
    <2>1. /\ call[r].table \in Tables /\ call[r].name \in Name
          /\ r \in Request \cup Seed
      BY <1>1, StartedCall DEF Insert, CallsMatch, Tables
    <2>2. CASE InsertRow(call[r].table, call[r].name, r)
      BY <2>1, <2>2, InsertGood
    <2>3. CASE rows' = rows
      BY <1>0, <2>3
    <2> QED
      BY <1>1, <2>2, <2>3 DEF Insert
  <1>2. ASSUME NEW r \in Request, UpdateRow(r)
        PROVE  RowsGood
    <2>1. CASE Clashes(call[r].table, Patched(call[r].patch, rows[call[r].id]).name,
                       {call[r].id})
      BY <1>0, <1>2, <2>1 DEF UpdateRow
    <2>2. CASE ~Clashes(call[r].table, Patched(call[r].patch, rows[call[r].id]).name,
                        {call[r].id})
      BY <1>2, <2>2, UpdateGood
    <2> QED
      BY <2>1, <2>2
  <1>3. ASSUME NEW r \in Request, SoftDelete(r)
        PROVE  RowsGood
    <2>1. CASE In(call[r].table, call[r].id)
      BY <1>3, <2>1, DeleteGood
    <2>2. CASE ~In(call[r].table, call[r].id)
      BY <1>0, <1>3, <2>2 DEF SoftDelete
    <2> QED
      BY <2>1, <2>2
  <1>4. ASSUME NEW s \in Seed, SeedInserts(s)
        PROVE  RowsGood
    <2>1. /\ Ensured[seed[s].at].table \in Tables /\ Ensured[seed[s].at].name \in Name
          /\ s \in Request \cup Seed
      BY EnsuredRow
    <2>2. CASE InsertRow(Ensured[seed[s].at].table, Ensured[seed[s].at].name, s)
      BY <2>1, <2>2, InsertGood
    <2>3. CASE rows' = rows
      BY <1>0, <2>3
    <2> QED
      BY <1>4, <2>2, <2>3 DEF SeedInserts
  <1>5. ASSUME NEW r \in Request,
               \/ \E c \in Calls : Start(r, c)
               \/ Find(r) \/ GetById(r) \/ CheckName(r) \/ Reread(r) \/ Fails(r)
        PROVE  RowsGood
    BY <1>0, <1>5 DEF Start, Find, GetById, CheckName, Reread, Fails
  <1>6. ASSUME NEW s \in Seed, SeedStarts(s) \/ SeedFinds(s) \/ SeedFails(s)
        PROVE  RowsGood
    BY <1>0, <1>6 DEF SeedStarts, SeedFinds, SeedFails
  <1>7. CASE UNCHANGED vars
    BY <1>0, <1>7 DEF vars
  <1> QED
    BY <1>1, <1>2, <1>3, <1>4, <1>5, <1>6, <1>7 DEF Next

LEMMA NextTypeOK ==
    ASSUME TypeOK, OneHolder, CallsMatch, [Next]_vars
    PROVE  TypeOK'
  <1>0. rows' \in [Id -> Row \cup {NoRow}]
    BY NextRowsGood DEF RowsGood
  <1>1. ASSUME NEW r \in Request, NEW c \in Calls, Start(r, c)
        PROVE  TypeOK'
    BY <1>0, <1>1 DEF Start, TypeOK
  <1>2. ASSUME NEW r \in Request,
               \/ Find(r) \/ Insert(r) \/ GetById(r) \/ CheckName(r) \/ UpdateRow(r)
               \/ Reread(r) \/ SoftDelete(r) \/ Fails(r)
        PROVE  TypeOK'
    BY <1>0, <1>2, OwnStep DEF TypeOK
  <1>3. ASSUME NEW s \in Seed, SeedStarts(s) \/ SeedFinds(s) \/ SeedInserts(s) \/ SeedFails(s)
        PROVE  TypeOK'
    <2>1. UNCHANGED reqVars
      BY <1>3 DEF SeedStarts, SeedFinds, SeedInserts, SeedFails
    <2> DEFINE Place == [state : {"idle", "find", "insert", "done", "duplicate", "failed"},
                         at : 1..Len(Ensured)]
    <2>2. seed[s] \in Place /\ seed \in [Seed -> Place] /\ Len(Ensured) \in Nat
      BY EnsuredAssumption DEF TypeOK
    <2>3. \A z \in {"find", "insert", "duplicate", "failed"} :
              [seed[s] EXCEPT !.state = z] \in Place
      BY <2>2
    <2>4. (IF seed[s].at = Len(Ensured) THEN [seed[s] EXCEPT !.state = "done"]
           ELSE [state |-> "find", at |-> seed[s].at + 1]) \in Place
      BY <2>2
    <2>5. \E v \in Place : seed' = [seed EXCEPT ![s] = v]
      BY <1>3, <2>3, <2>4 DEF SeedStarts, SeedFinds, SeedInserts, SeedFails, Advance
    <2>6. seed' \in [Seed -> Place]
      BY <2>2, <2>5
    <2> QED
      BY <1>0, <2>1, <2>6 DEF TypeOK, reqVars
  <1>4. CASE UNCHANGED vars
    BY <1>4 DEF TypeOK, vars, reqVars
  <1> QED
    BY <1>1, <1>2, <1>3, <1>4 DEF Next

\* Steps of the seed, and stuttering, leave the requests alone.
LEMMA SeedLeavesRequests ==
    ASSUME \/ \E s \in Seed : SeedStarts(s) \/ SeedFinds(s) \/ SeedInserts(s) \/ SeedFails(s)
           \/ UNCHANGED vars
    PROVE  UNCHANGED reqVars
  BY DEF SeedStarts, SeedFinds, SeedInserts, SeedFails, vars, reqVars

LEMMA NextCallsMatch ==
    ASSUME TypeOK, OneHolder, CallsMatch, [Next]_vars
    PROVE  CallsMatch'
  <1>0. \A i \in Id : Keeps(i)
    BY NextRowsGood DEF RowsGood
  <1> DEFINE Fits(q) ==
        /\ pc[q] # "idle" => call[q] \in Calls
        /\ pc[q] \in {"find", "insert"} => call[q].op = "create"
        /\ pc[q] \in {"get", "check", "update", "reread"} => call[q].op = "update"
        /\ pc[q] = "delete" => call[q].op = "delete"
        /\ pc[q] \in {"check", "update"} => In(call[q].table, call[q].id)
        /\ answer[q] # 0 => pc[q] = "done"
        /\ q \in took => /\ pc[q] \in {"reread", "done"}
                         /\ call[q].op \in {"update", "delete"}
                         /\ In(call[q].table, call[q].id)
        /\ pc[q] = "reread" \/ answer[q] = 200 => q \in took
  <1>f. \A q \in Request : Fits(q)
    BY DEF CallsMatch
  <1>g. ASSUME \A q \in Request : Fits(q)'
        PROVE  CallsMatch'
    BY <1>g DEF CallsMatch
  \* Who does not move still fits.
  <1>1. ASSUME NEW q \in Request, pc'[q] = pc[q], answer'[q] = answer[q],
               call'[q] = call[q], q \in took' <=> q \in took
        PROVE  Fits(q)'
    <2>1. Fits(q)
      BY <1>f
    <2>2. ASSUME pc[q] # "idle", call[q].op # "create", In(call[q].table, call[q].id)
          PROVE  In(call[q].table, call[q].id)'
      <3>1. call[q].id \in Id
        BY <2>2, StartedCall
      <3> QED
        BY <1>0, <1>1, <2>2, <3>1 DEF Keeps, In
    <2> QED
      BY <1>1, <2>1, <2>2
  <1>2. ASSUME NEW r \in Request, NEW c \in Calls, Start(r, c)
        PROVE  CallsMatch'
    <2>0. Fits(r) /\ c.op \in {"create", "update", "delete"}
      BY <1>f, CallShape
    <2>1. Fits(r)'
      BY <1>2, <2>0 DEF Start, TypeOK
    <2>2. ASSUME NEW q \in Request \ {r}
          PROVE  Fits(q)'
      BY <1>1, <1>2, <2>2 DEF Start, TypeOK
    <2> QED
      BY <1>g, <2>1, <2>2
  <1>3. ASSUME NEW r \in Request,
               \/ Find(r) \/ Insert(r) \/ GetById(r) \/ CheckName(r) \/ UpdateRow(r)
               \/ Reread(r) \/ SoftDelete(r) \/ Fails(r)
        PROVE  CallsMatch'
    <2>0. Fits(r) /\ pc[r] # "idle" /\ answer[r] = 0 /\ call' = call
      BY <1>3, <1>f, OwnStep
    <2>k. ASSUME call[r].op # "create", In(call[r].table, call[r].id)
          PROVE  In(call[r].table, call[r].id)'
      <3>1. call[r].id \in Id
        BY <2>0, <2>k, StartedCall
      <3> QED
        BY <1>0, <2>0, <2>k, <3>1 DEF Keeps, In
    <2>1. ASSUME Find(r) \/ Insert(r)
          PROVE  Fits(r)'
      BY <2>0, <2>1 DEF Find, Insert, Respond, GoTo, TypeOK
    <2>2. ASSUME GetById(r) \/ CheckName(r)
          PROVE  Fits(r)'
      BY <2>0, <2>2, <2>k DEF GetById, CheckName, Respond, GoTo, TypeOK, Visible
    <2>3. ASSUME UpdateRow(r)
          PROVE  Fits(r)'
      BY <2>0, <2>3, <2>k DEF UpdateRow, Respond, GoTo, TypeOK
    <2>4. ASSUME Reread(r) \/ Fails(r)
          PROVE  Fits(r)'
      BY <2>0, <2>4, <2>k DEF Reread, Fails, Respond, TypeOK
    <2>5. ASSUME SoftDelete(r)
          PROVE  Fits(r)'
      BY <2>0, <2>5, <2>k DEF SoftDelete, Respond, TypeOK
    <2>6. ASSUME NEW q \in Request \ {r}
          PROVE  Fits(q)'
      BY <1>1, <1>3, <2>6, OwnStep
    <2> QED
      BY <1>3, <1>g, <2>1, <2>2, <2>3, <2>4, <2>5, <2>6
  <1>4. CASE UNCHANGED reqVars
    BY <1>1, <1>4, <1>g DEF reqVars
  <1> QED
    BY <1>2, <1>3, <1>4, SeedLeavesRequests DEF Next

-----------------------------------------------------------------------------
(* Who inserted what *)

LEMMA NextInserters ==
    ASSUME TypeOK, OneHolder, CallsMatch, InsertersAnswered, [Next]_vars
    PROVE  InsertersAnswered'
  <1>0. \A i \in Id : Keeps(i)
    BY NextRowsGood DEF RowsGood
  <1>1. ASSUME \A r \in Request : pc[r] = "done" => pc'[r] = "done",
               \A i \in Id :
                   rows[i] = NoRow /\ rows'[i] # NoRow /\ rows'[i].by \in Request =>
                       pc'[rows'[i].by] = "done"
        PROVE  InsertersAnswered'
    BY <1>0, <1>1 DEF InsertersAnswered, Keeps
  <1>2. ASSUME \A r \in Request : pc[r] = "done" => pc'[r] = "done",
               \A i \in Id : rows[i] = NoRow => rows'[i] = NoRow
        PROVE  InsertersAnswered'
    BY <1>1, <1>2
  <1>3. ASSUME NEW r \in Request, NEW c \in Calls, Start(r, c)
        PROVE  InsertersAnswered'
    BY <1>2, <1>3 DEF Start, TypeOK
  <1>4. ASSUME NEW r \in Request,
               \/ Find(r) \/ Insert(r) \/ GetById(r) \/ CheckName(r) \/ UpdateRow(r)
               \/ Reread(r) \/ SoftDelete(r) \/ Fails(r)
        PROVE  InsertersAnswered'
    <2>1. \A q \in Request : pc[q] = "done" => pc'[q] = "done"
      BY <1>4, OwnStep
    <2>2. CASE Find(r) \/ GetById(r) \/ CheckName(r) \/ Reread(r) \/ Fails(r)
      BY <1>2, <2>1, <2>2 DEF Find, GetById, CheckName, Reread, Fails
    <2>3. CASE Insert(r)
      <3>1. /\ call[r].table \in Tables /\ call[r].name \in Name
            /\ r \in Request \cup Seed
        BY <2>3, StartedCall DEF Insert, CallsMatch, Tables
      <3>2. pc'[r] = "done"
        BY <2>3 DEF Insert, Respond, TypeOK
      <3>3. CASE InsertRow(call[r].table, call[r].name, r)
        BY <1>1, <2>1, <3>1, <3>2, <3>3, InsertGood
      <3>4. CASE rows' = rows
        BY <1>2, <2>1, <3>4
      <3> QED
        BY <2>3, <3>3, <3>4 DEF Insert
    <2>4. CASE UpdateRow(r)
      <3>1. CASE Clashes(call[r].table,
                         Patched(call[r].patch, rows[call[r].id]).name, {call[r].id})
        BY <1>2, <2>1, <2>4, <3>1 DEF UpdateRow
      <3>2. CASE ~Clashes(call[r].table,
                          Patched(call[r].patch, rows[call[r].id]).name, {call[r].id})
        BY <1>2, <2>1, <2>4, <3>2, UpdateGood
      <3> QED
        BY <3>1, <3>2
    <2>5. CASE SoftDelete(r)
      <3>1. CASE In(call[r].table, call[r].id)
        BY <1>2, <2>1, <2>5, <3>1, DeleteGood DEF In
      <3>2. CASE ~In(call[r].table, call[r].id)
        BY <1>2, <2>1, <2>5, <3>2 DEF SoftDelete
      <3> QED
        BY <3>1, <3>2
    <2> QED
      BY <1>4, <2>2, <2>3, <2>4, <2>5
  <1>5. ASSUME NEW s \in Seed, SeedInserts(s)
        PROVE  InsertersAnswered'
    <2>1. pc' = pc
      BY <1>5 DEF SeedInserts, reqVars
    <2>2. CASE InsertRow(Ensured[seed[s].at].table, Ensured[seed[s].at].name, s)
      <3>1. \A i \in Id : rows[i] = NoRow /\ rows'[i] # NoRow => rows'[i].by = s
        BY <2>2, EnsuredRow, InsertGood
      <3>2. s \notin Request
        BY DistinctAssumption
      <3> QED
        BY <1>1, <2>1, <3>1, <3>2
    <2>3. CASE rows' = rows
      BY <1>2, <2>1, <2>3
    <2> QED
      BY <1>5, <2>2, <2>3 DEF SeedInserts
  <1>6. ASSUME NEW s \in Seed, SeedStarts(s) \/ SeedFinds(s) \/ SeedFails(s)
        PROVE  InsertersAnswered'
    BY <1>2, <1>6 DEF SeedStarts, SeedFinds, SeedFails, reqVars
  <1>7. CASE UNCHANGED vars
    BY <1>2, <1>7 DEF vars, reqVars
  <1> QED
    BY <1>3, <1>4, <1>5, <1>6, <1>7 DEF Next

-----------------------------------------------------------------------------
(* The answers *)

AnswerHolds(r) ==
    LET c == call[r]
    IN  /\ answer[r] = 201 => \E i \in Id : In(c.table, i) /\ rows[i].by = r
        /\ answer[r] = 409 /\ c.op = "create" /\ c.table = "users" =>
               \E i \in Id : In("users", i) /\ rows[i].name = c.name /\ rows[i].by # r
        /\ answer[r] = 409 => r \notin took
        /\ answer[r] = 200 /\ c.op = "delete" => ~Visible(c.table, c.id)
        /\ answer[r] = 404 /\ r \in took => ~Visible(c.table, c.id)

\* What has been answered keeps holding while others move.
LEMMA AnswerLasts ==
    ASSUME TypeOK, CallsMatch, NEW r \in Request, AnswerHolds(r),
           \A i \in Id : Keeps(i),
           answer'[r] = answer[r], call'[r] = call[r], r \in took' <=> r \in took
    PROVE  AnswerHolds(r)'
  <1>1. ASSUME NEW i \in Id, NEW t, In(t, i)
        PROVE  /\ In(t, i)' /\ rows'[i].by = rows[i].by
               /\ ~Visible(t, i) => ~Visible(t, i)'
               /\ t = "users" => rows'[i].name = rows[i].name
    BY <1>1 DEF Keeps, In, Visible
  <1>2. ASSUME r \in took
        PROVE  call[r].id \in Id /\ In(call[r].table, call[r].id)
    BY <1>2, StartedCall DEF CallsMatch
  <1>3. answer[r] = 200 => r \in took
    BY DEF CallsMatch
  <1>4. answer[r] = 201 => \E i \in Id : In(call[r].table, i)' /\ rows'[i].by = r
    BY <1>1 DEF AnswerHolds
  <1>5. answer[r] = 409 /\ call[r].op = "create" /\ call[r].table = "users" =>
            \E i \in Id : In("users", i)' /\ rows'[i].name = call[r].name
                          /\ rows'[i].by # r
    BY <1>1 DEF AnswerHolds
  <1>6. \/ answer[r] = 200 /\ call[r].op = "delete"
        \/ answer[r] = 404 /\ r \in took
        => ~Visible(call[r].table, call[r].id)'
    BY <1>1, <1>2, <1>3 DEF AnswerHolds
  <1>7. answer[r] = 409 => r \notin took
    BY DEF AnswerHolds
  <1> QED
    BY <1>4, <1>5, <1>6, <1>7 DEF AnswerHolds, In, Visible

LEMMA NextAnswersHold ==
    ASSUME TypeOK, OneHolder, CallsMatch, InsertersAnswered, AnswersHold, [Next]_vars
    PROVE  AnswersHold'
  <1>0. \A i \in Id : Keeps(i)
    BY NextRowsGood DEF RowsGood
  <1>a. \A r \in Request : AnswerHolds(r)
    BY DEF AnswersHold, AnswerHolds
  <1>g. ASSUME \A r \in Request : AnswerHolds(r)'
        PROVE  AnswersHold'
    BY <1>g DEF AnswersHold, AnswerHolds
  <1>1. ASSUME NEW r \in Request, NEW c \in Calls, Start(r, c)
        PROVE  AnswersHold'
    <2>1. answer[r] = 0 /\ answer' = answer /\ took' = took
      BY <1>1 DEF Start, CallsMatch
    <2>2. AnswerHolds(r)'
      BY <2>1 DEF AnswerHolds
    <2>3. ASSUME NEW q \in Request \ {r}
          PROVE  AnswerHolds(q)'
      <3>1. call'[q] = call[q]
        BY <1>1 DEF Start, TypeOK
      <3> QED
        BY <1>0, <1>a, <2>1, <3>1, AnswerLasts
    <2> QED
      BY <1>g, <2>2, <2>3
  <1>2. ASSUME NEW r \in Request,
               \/ Find(r) \/ Insert(r) \/ GetById(r) \/ CheckName(r) \/ UpdateRow(r)
               \/ Reread(r) \/ SoftDelete(r) \/ Fails(r)
        PROVE  AnswersHold'
    <2>0. call' = call /\ pc[r] # "done" /\ answer[r] = 0
      BY <1>2, OwnStep
    <2>1. \A i \in Id : rows[i] # NoRow => rows[i].by # r
      BY <2>0 DEF InsertersAnswered
    <2>2. r \in took => pc[r] = "reread"
      BY <2>0 DEF CallsMatch
    <2>t. /\ pc[r] \in {"find", "insert"} => call[r].op = "create"
          /\ pc[r] \in {"get", "check", "update", "reread"} => call[r].op = "update"
          /\ pc[r] = "delete" => call[r].op = "delete"
      BY DEF CallsMatch
    <2>3. ASSUME answer'[r] \in {0, 500}
          PROVE  AnswerHolds(r)'
      BY <2>3 DEF AnswerHolds
    <2>4. ASSUME Find(r)
          PROVE  AnswerHolds(r)'
      <3>1. CASE Named(call[r].table, call[r].name) # {}
        <4>1. /\ rows' = rows /\ took' = took /\ answer'[r] = 409
              /\ r \notin took
          BY <2>2, <2>4, <3>1 DEF Find, Respond, TypeOK
        <4>2. \E i \in Id : In(call[r].table, i) /\ rows[i].name = call[r].name
          BY <3>1 DEF Named, Visible
        <4>3. \E i \in Id : In(call[r].table, i) /\ rows[i].name = call[r].name
                            /\ rows[i].by # r
          BY <2>1, <4>2 DEF In
        <4> QED
          BY <2>0, <4>1, <4>3 DEF AnswerHolds, In
      <3>2. CASE Named(call[r].table, call[r].name) = {}
        BY <2>0, <2>3, <2>4, <3>2 DEF Find, GoTo
      <3> QED
        BY <3>1, <3>2
    <2>5. ASSUME Insert(r)
          PROVE  AnswerHolds(r)'
      <3>0. /\ call[r].table \in Tables /\ call[r].name \in Name
            /\ r \in Request \cup Seed
        BY <2>5, StartedCall DEF Insert, CallsMatch, Tables
      <3>1. took' = took /\ r \notin took
        BY <2>2, <2>5 DEF Insert
      <3>2. CASE /\ InsertRow(call[r].table, call[r].name, r)
                 /\ Respond(r, 201) \/ (Failures /\ Respond(r, 500))
        <4>1. \E i \in Id : /\ rows'[i] # NoRow /\ rows'[i].table = call[r].table
                            /\ rows'[i].by = r
          BY <3>0, <3>2, InsertGood
        <4>2. answer'[r] \in {201, 500}
          BY <3>2 DEF Respond, TypeOK
        <4> QED
          BY <2>0, <3>1, <4>1, <4>2 DEF AnswerHolds, In
      <3>3. CASE /\ Clashes(call[r].table, call[r].name, {})
                 /\ Respond(r, 409) /\ UNCHANGED rows
        <4>1. answer'[r] = 409 /\ rows' = rows
          BY <3>3 DEF Respond, TypeOK
        <4>2. \E i \in Id : In(call[r].table, i) /\ rows[i].name = call[r].name
          BY <3>3 DEF Clashes
        <4>3. \E i \in Id : In(call[r].table, i) /\ rows[i].name = call[r].name
                            /\ rows[i].by # r
          BY <2>1, <4>2 DEF In
        <4> QED
          BY <2>0, <3>1, <4>1, <4>3 DEF AnswerHolds, In
      <3> QED
        BY <2>5, <3>2, <3>3 DEF Insert
    <2>6. ASSUME GetById(r) \/ CheckName(r) \/ Fails(r)
          PROVE  AnswerHolds(r)'
      <3>1. rows' = rows /\ took' = took /\ answer'[r] \in {0, 404, 409, 500}
        BY <2>0, <2>6 DEF GetById, CheckName, Fails, Respond, GoTo, TypeOK
      <3>2. answer'[r] \in {404, 409} => r \notin took /\ call[r].op = "update"
        BY <2>0, <2>2, <2>6, <2>t
           DEF GetById, CheckName, Fails, Respond, GoTo, TypeOK
      <3> QED
        BY <2>0, <3>1, <3>2 DEF AnswerHolds
    <2>7. ASSUME UpdateRow(r)
          PROVE  AnswerHolds(r)'
      <3>1. \/ answer' = answer
            \/ answer'[r] = 409 /\ took' = took /\ rows' = rows
        BY <2>7 DEF UpdateRow, Respond, GoTo, TypeOK
      <3>2. r \notin took /\ call[r].op = "update"
        BY <2>2, <2>7, <2>t DEF UpdateRow
      <3> QED
        BY <2>0, <2>3, <3>1, <3>2 DEF AnswerHolds
    <2>8. ASSUME Reread(r)
          PROVE  AnswerHolds(r)'
      <3>1. /\ rows' = rows /\ took' = took
            /\ answer'[r] = IF Visible(call[r].table, call[r].id) THEN 200 ELSE 404
            /\ call[r].op = "update"
        BY <2>8, <2>t DEF Reread, Respond, TypeOK
      <3> QED
        BY <2>0, <3>1 DEF AnswerHolds, Visible, In
    <2>9. ASSUME SoftDelete(r)
          PROVE  AnswerHolds(r)'
      <3>1. CASE In(call[r].table, call[r].id)
        <4>1. /\ answer' \in {[answer EXCEPT ![r] = 200], [answer EXCEPT ![r] = 500]}
              /\ rows'[call[r].id].live = FALSE
          BY <2>9, <3>1, DeleteGood
        <4>2. answer'[r] \in {200, 500}
          BY <4>1 DEF TypeOK
        <4> QED
          BY <2>0, <4>1, <4>2 DEF AnswerHolds, Visible
      <3>2. CASE ~In(call[r].table, call[r].id)
        <4>1. answer'[r] = 404 /\ took' = took /\ r \notin took
          BY <2>2, <2>9, <3>2 DEF SoftDelete, Respond, TypeOK
        <4> QED
          BY <2>0, <4>1 DEF AnswerHolds
      <3> QED
        BY <3>1, <3>2
    <2>10. AnswerHolds(r)'
      BY <1>2, <2>4, <2>5, <2>6, <2>7, <2>8, <2>9
    <2>11. ASSUME NEW q \in Request \ {r}
           PROVE  AnswerHolds(q)'
      <3>1. answer'[q] = answer[q] /\ call'[q] = call[q] /\ (q \in took' <=> q \in took)
        BY <1>2, OwnStep
      <3> QED
        BY <1>0, <1>a, <3>1, AnswerLasts
    <2> QED
      BY <1>g, <2>10, <2>11
  <1>3. CASE UNCHANGED reqVars
    <2>1. ASSUME NEW q \in Request
          PROVE  AnswerHolds(q)'
      <3>1. answer'[q] = answer[q] /\ call'[q] = call[q] /\ (q \in took' <=> q \in took)
        BY <1>3 DEF reqVars
      <3> QED
        BY <1>0, <1>a, <3>1, AnswerLasts
    <2> QED
      BY <1>g, <2>1
  <1> QED
    BY <1>1, <1>2, <1>3, SeedLeavesRequests DEF Next

-----------------------------------------------------------------------------
(* No UPDATE is lost *)

KeptIn(r, f) ==
    \/ rows[call[r].id][f] = call[r].patch[f]
    \/ \E z \in took \ {r} :
           /\ call[z].op = "update" /\ call[z].id = call[r].id
           /\ f \in DOMAIN call[z].patch
           /\ rows[call[r].id][f] = call[z].patch[f]

\* A column that is not written stays explained.
LEMMA KeptLasts ==
    ASSUME NEW r \in took, NEW f, KeptIn(r, f), took \subseteq took',
           \A z \in took : call'[z] = call[z],
           rows'[call[r].id][f] = rows[call[r].id][f]
    PROVE  KeptIn(r, f)'
  BY DEF KeptIn

LEMMA NextUpdatesKept ==
    ASSUME TypeOK, OneHolder, CallsMatch, UpdatesKept, [Next]_vars
    PROVE  UpdatesKept'
  <1>a. \A r \in took : call[r].op = "update" =>
            \A f \in DOMAIN call[r].patch : KeptIn(r, f)
    BY DEF UpdatesKept, KeptIn
  <1>g. ASSUME \A r \in took' : call'[r].op = "update" =>
                   \A f \in DOMAIN call'[r].patch : KeptIn(r, f)'
        PROVE  UpdatesKept'
    BY <1>g DEF UpdatesKept, KeptIn
  <1>t. ASSUME NEW r \in took
        PROVE  /\ r \in Request /\ pc[r] \in {"reread", "done"}
               /\ call[r].op \in {"update", "delete"}
               /\ In(call[r].table, call[r].id) /\ call[r].id \in Id
               /\ call[r].op = "update" => DOMAIN call[r].patch \subseteq {"name", "note", "role"}
    <2>1. r \in Request
      BY DEF TypeOK
    <2>2. /\ pc[r] \in {"reread", "done"} /\ call[r].op \in {"update", "delete"}
          /\ In(call[r].table, call[r].id)
      BY <2>1 DEF CallsMatch
    <2>3. /\ call[r].table \in Indexed
          /\ call[r].id \in Id
          /\ call[r].op = "update" => call[r].patch \in Patches(call[r].table)
      BY <2>1, <2>2, StartedCall
    <2>4. call[r].op = "update" => DOMAIN call[r].patch \subseteq Columns(call[r].table)
      BY <2>3, PatchAssumption
    <2> QED
      BY <2>1, <2>2, <2>3, <2>4 DEF Columns
  \* The steps that write no column of an existing row.
  <1>1. ASSUME \A z \in took : call'[z] = call[z], took \subseteq took',
               \A z \in took' : z \in took \/ call'[z].op # "update",
               \A j \in Id, f \in {"name", "note", "role"} :
                   rows[j] # NoRow => rows'[j][f] = rows[j][f]
        PROVE  UpdatesKept'
    <2> SUFFICES ASSUME NEW r \in took', call'[r].op = "update",
                        NEW f \in DOMAIN call'[r].patch
                 PROVE  KeptIn(r, f)'
      BY <1>g
    <2>1. r \in took /\ call'[r] = call[r]
      BY <1>1
    <2>2. /\ f \in {"name", "note", "role"} /\ call[r].id \in Id
          /\ rows[call[r].id] # NoRow
      BY <1>t, <2>1 DEF In
    <2>3. rows'[call[r].id][f] = rows[call[r].id][f]
      BY <1>1, <2>2
    <2>4. KeptIn(r, f)
      BY <1>a, <2>1
    <2> QED
      BY <1>1, <2>1, <2>3, <2>4, KeptLasts
  <1>2. ASSUME NEW r \in Request, NEW c \in Calls, Start(r, c)
        PROVE  UpdatesKept'
    <2>1. r \notin took
      BY <1>2, <1>t DEF Start
    <2> QED
      BY <1>1, <1>2, <1>t, <2>1 DEF Start, TypeOK
  <1>3. ASSUME NEW r \in Request,
               Find(r) \/ GetById(r) \/ CheckName(r) \/ Reread(r) \/ Fails(r)
        PROVE  UpdatesKept'
    BY <1>1, <1>3 DEF Find, GetById, CheckName, Reread, Fails, Respond, GoTo
  <1>4. ASSUME NEW r \in Request, Insert(r)
        PROVE  UpdatesKept'
    <2>0. /\ call[r].table \in Tables /\ call[r].name \in Name
          /\ r \in Request \cup Seed
      BY <1>4, StartedCall DEF Insert, CallsMatch, Tables
    <2>1. \A j \in Id : rows[j] # NoRow => rows'[j] = rows[j]
      BY <1>4, <2>0, InsertGood DEF Insert
    <2>2. took' = took /\ call' = call
      BY <1>4 DEF Insert, Respond
    <2> QED
      BY <1>1, <2>1, <2>2
  <1>5. ASSUME NEW r \in Request, UpdateRow(r)
        PROVE  UpdatesKept'
    <2>1. CASE Clashes(call[r].table, Patched(call[r].patch, rows[call[r].id]).name,
                       {call[r].id})
      BY <1>1, <1>5, <2>1 DEF UpdateRow, Respond
    <2>2. CASE ~Clashes(call[r].table, Patched(call[r].patch, rows[call[r].id]).name,
                        {call[r].id})
      <3> DEFINE k == call[r].id
                 p == call[r].patch
      <3>1. /\ k \in Id /\ rows[k] # NoRow /\ rows'[k] = Patched(p, rows[k])
            /\ \A j \in Id \ {k} : rows'[j] = rows[j]
            /\ took' = took \cup {r} /\ call' = call
        BY <1>5, <2>2, UpdateGood
      <3>2. /\ call[r].op = "update" /\ In(call[r].table, k)
            /\ call[r].table \in Indexed /\ p \in Patches(call[r].table)
        BY <1>5, StartedCall DEF UpdateRow, CallsMatch
      <3>3. rows[k] \in Row /\ rows[k].table = call[r].table
        BY <3>1, <3>2 DEF TypeOK, In
      <3>4. /\ \A f \in DOMAIN p : rows'[k][f] = p[f]
            /\ \A f \in {"name", "note", "role"} \ DOMAIN p : rows'[k][f] = rows[k][f]
        BY <3>1, <3>2, <3>3, PatchedColumns
      <3>5. r \notin took
        BY <1>5, <1>t DEF UpdateRow
      <3>6. ASSUME NEW q \in took', call'[q].op = "update",
                   NEW f \in DOMAIN call'[q].patch
            PROVE  KeptIn(q, f)'
        <4>1. CASE q = r
          BY <3>1, <3>4, <3>6, <4>1 DEF KeptIn
        <4>2. CASE q # r /\ call[q].id = k /\ f \in DOMAIN p
          <5>1. rows'[call'[q].id][f] = call'[r].patch[f]
            BY <3>1, <3>4, <4>2
          <5>2. r \in took' \ {q} /\ call'[r].op = "update" /\ call'[r].id = call'[q].id
            BY <3>1, <3>2, <4>2
          <5>3. f \in DOMAIN call'[r].patch
            BY <3>1, <4>2
          <5> QED
            BY <5>1, <5>2, <5>3 DEF KeptIn
        <4>3. CASE q # r /\ ~(call[q].id = k /\ f \in DOMAIN p)
          <5>1. q \in took /\ call[q].op = "update" /\ f \in DOMAIN call[q].patch
            BY <3>1, <3>6, <4>3
          <5>2. f \in {"name", "note", "role"} /\ call[q].id \in Id
            BY <1>t, <5>1
          <5>3. rows'[call[q].id][f] = rows[call[q].id][f]
            BY <3>1, <3>4, <4>3, <5>2
          <5>4. KeptIn(q, f)
            BY <1>a, <5>1
          <5> QED
            BY <3>1, <5>1, <5>3, <5>4, KeptLasts
        <4> QED
          BY <4>1, <4>2, <4>3
      <3> QED
        BY <1>g, <3>6
    <2> QED
      BY <2>1, <2>2
  <1>6. ASSUME NEW r \in Request, SoftDelete(r)
        PROVE  UpdatesKept'
    <2>1. CASE In(call[r].table, call[r].id)
      <3>1. /\ \A j \in Id : \A f \in {"name", "note", "role"} :
                   rows[j] # NoRow => rows'[j][f] = rows[j][f]
            /\ took' = took \cup {r} /\ call' = call
        BY <1>6, <2>1, DeleteGood
      <3>2. call[r].op = "delete"
        BY <1>6 DEF SoftDelete, CallsMatch
      <3> QED
        BY <1>1, <3>1, <3>2
    <2>2. CASE ~In(call[r].table, call[r].id)
      BY <1>1, <1>6, <2>2 DEF SoftDelete, Respond
    <2> QED
      BY <2>1, <2>2
  <1>7. ASSUME NEW s \in Seed, SeedInserts(s)
        PROVE  UpdatesKept'
    <2>1. \A j \in Id : rows[j] # NoRow => rows'[j] = rows[j]
      BY <1>7, EnsuredRow, InsertGood DEF SeedInserts
    <2> QED
      BY <1>1, <1>7, <2>1 DEF SeedInserts, reqVars
  <1>8. ASSUME NEW s \in Seed, SeedStarts(s) \/ SeedFinds(s) \/ SeedFails(s)
        PROVE  UpdatesKept'
    BY <1>1, <1>8 DEF SeedStarts, SeedFinds, SeedFails, reqVars
  <1>9. CASE UNCHANGED vars
    BY <1>1, <1>9 DEF vars, reqVars
  <1> QED
    BY <1>2, <1>3, <1>4, <1>5, <1>6, <1>7, <1>8, <1>9 DEF Next

-----------------------------------------------------------------------------
(* What a seed has seen *)

\* s is about to insert, and a live row that has the name is another's.
LookedAt(s, i) ==
    /\ seed[s].state = "insert"
    /\ Visible(Ensured[seed[s].at].table, i)
    /\ rows[i].name = Ensured[seed[s].at].name
    => ByAnother(s, i)

\* Nothing that the seed looks for has come to i, except by another.
NothingNew(s, i) ==
    rows'[i] # NoRow /\ rows'[i].live =>
        \/ ByAnother(s, i)'
        \/ /\ rows[i] # NoRow /\ rows[i].live
           /\ rows[i].table = rows'[i].table /\ rows[i].name = rows'[i].name
           /\ rows[i].by = rows'[i].by

LEMMA RenamedLasts ==
    ASSUME took \subseteq took', \A z \in took : call'[z] = call[z], NEW i, Renamed(i)
    PROVE  Renamed(i)'
  BY DEF Renamed

LEMMA LookedLasts ==
    ASSUME took \subseteq took', \A z \in took : call'[z] = call[z],
           NEW s \in Seed, seed'[s] = seed[s], NEW i \in Id, LookedAt(s, i), NothingNew(s, i)
    PROVE  LookedAt(s, i)'
  BY RenamedLasts DEF LookedAt, NothingNew, Visible, In, ByAnother

LEMMA NextSeedLooked ==
    ASSUME TypeOK, OneHolder, CallsMatch, SeedLooked, [Next]_vars
    PROVE  SeedLooked'
  <1>a. \A s \in Seed, i \in Id : LookedAt(s, i)
    BY DEF SeedLooked, LookedAt
  <1>g. ASSUME \A s \in Seed, i \in Id : LookedAt(s, i)'
        PROVE  SeedLooked'
    BY <1>g DEF SeedLooked, LookedAt
  <1>t. \A z \in took : pc[z] \in {"reread", "done"}
    BY DEF TypeOK, CallsMatch
  \* Requests leave the seeds where they are.
  <1>r. ASSUME took \subseteq took', \A z \in took : call'[z] = call[z], seed' = seed,
               \A s \in Seed, i \in Id : NothingNew(s, i)
        PROVE  SeedLooked'
    BY <1>a, <1>g, <1>r, LookedLasts
  <1>0. ASSUME took \subseteq took', \A z \in took : call'[z] = call[z], seed' = seed,
               rows' = rows
        PROVE  SeedLooked'
    BY <1>0, <1>r DEF NothingNew
  <1>1. ASSUME NEW r \in Request, NEW c \in Calls, Start(r, c)
        PROVE  SeedLooked'
    BY <1>0, <1>1, <1>t DEF Start, TypeOK
  <1>2. ASSUME NEW r \in Request,
               Find(r) \/ GetById(r) \/ CheckName(r) \/ Reread(r) \/ Fails(r)
        PROVE  SeedLooked'
    BY <1>0, <1>2 DEF Find, GetById, CheckName, Reread, Fails, Respond, GoTo
  <1>3. ASSUME NEW r \in Request, Insert(r)
        PROVE  SeedLooked'
    <2>0. /\ call[r].table \in Tables /\ call[r].name \in Name
          /\ r \in Request \cup Seed
      BY <1>3, StartedCall DEF Insert, CallsMatch, Tables
    <2>1. took' = took /\ call' = call /\ seed' = seed
      BY <1>3 DEF Insert, Respond
    <2>2. CASE InsertRow(call[r].table, call[r].name, r)
      <3>1. \A j \in Id : IF rows[j] # NoRow THEN rows'[j] = rows[j]
                          ELSE rows'[j] # NoRow => rows'[j].by = r
        BY <2>0, <2>2, InsertGood
      <3>2. \A s \in Seed : r \notin {s, Before}
        BY DistinctAssumption
      <3> QED
        BY <1>r, <2>1, <3>1, <3>2 DEF NothingNew, ByAnother
    <2>3. CASE rows' = rows
      BY <1>0, <2>1, <2>3
    <2> QED
      BY <1>3, <2>2, <2>3 DEF Insert
  <1>4. ASSUME NEW r \in Request, UpdateRow(r)
        PROVE  SeedLooked'
    <2>1. CASE Clashes(call[r].table, Patched(call[r].patch, rows[call[r].id]).name,
                       {call[r].id})
      BY <1>0, <1>4, <2>1 DEF UpdateRow, Respond
    <2>2. CASE ~Clashes(call[r].table, Patched(call[r].patch, rows[call[r].id]).name,
                        {call[r].id})
      <3> DEFINE k == call[r].id
                 p == call[r].patch
      <3>1. /\ k \in Id /\ rows[k] # NoRow /\ rows'[k] = Patched(p, rows[k])
            /\ \A j \in Id \ {k} : rows'[j] = rows[j]
            /\ took' = took \cup {r} /\ call' = call /\ seed' = seed
        BY <1>4, <2>2, UpdateGood
      <3>2. /\ call[r].op = "update" /\ In(call[r].table, k)
            /\ call[r].table \in Indexed /\ p \in Patches(call[r].table)
        BY <1>4, StartedCall DEF UpdateRow, CallsMatch
      <3>3. rows[k] \in Row /\ rows[k].table = call[r].table
        BY <3>1, <3>2 DEF TypeOK, In
      <3>4. /\ rows'[k].table = rows[k].table /\ rows'[k].live = rows[k].live
            /\ rows'[k].by = rows[k].by
            /\ "name" \notin DOMAIN p => rows'[k].name = rows[k].name
        BY <3>1, <3>2, <3>3, PatchedColumns
      <3>5. "name" \in DOMAIN p => Renamed(k)'
        BY <3>1, <3>2 DEF Renamed
      <3>6. \A s \in Seed, i \in Id : NothingNew(s, i)
        BY <3>1, <3>4, <3>5 DEF NothingNew, ByAnother
      <3> QED
        BY <1>r, <3>1, <3>6
    <2> QED
      BY <2>1, <2>2
  <1>5. ASSUME NEW r \in Request, SoftDelete(r)
        PROVE  SeedLooked'
    <2>1. CASE In(call[r].table, call[r].id)
      <3>1. /\ \A j \in Id \ {call[r].id} : rows'[j] = rows[j]
            /\ rows'[call[r].id].live = FALSE
            /\ took' = took \cup {r} /\ call' = call /\ seed' = seed
        BY <1>5, <2>1, DeleteGood
      <3> QED
        BY <1>r, <3>1 DEF NothingNew
    <2>2. CASE ~In(call[r].table, call[r].id)
      BY <1>0, <1>5, <2>2 DEF SoftDelete, Respond
    <2> QED
      BY <2>1, <2>2
  \* A step of seed z: the other seeds stay where they are.
  <1>6. ASSUME NEW z \in Seed, UNCHANGED reqVars,
               \A s \in Seed \ {z} : seed'[s] = seed[s],
               \A s \in Seed \ {z}, i \in Id : NothingNew(s, i),
               \A i \in Id : LookedAt(z, i)'
        PROVE  SeedLooked'
    <2>1. ASSUME NEW s \in Seed, NEW i \in Id
          PROVE  LookedAt(s, i)'
      <3>1. CASE s = z
        BY <1>6, <3>1
      <3>2. CASE s # z
        BY <1>6, <1>a, <3>2, LookedLasts DEF reqVars
      <3> QED
        BY <3>1, <3>2
    <2> QED
      BY <1>g, <2>1
  <1>7. ASSUME NEW z \in Seed, SeedStarts(z) \/ SeedFinds(z) \/ SeedInserts(z) \/ SeedFails(z)
        PROVE  SeedLooked'
    <2>1. UNCHANGED reqVars
      BY <1>7, SeedLeavesRequests
    <2>2. /\ \A s \in Seed \ {z} : seed'[s] = seed[s]
          /\ \/ seed'[z].state # "insert"
             \/ /\ rows' = rows /\ seed'[z].at = seed[z].at
                /\ Named(Ensured[seed[z].at].table, Ensured[seed[z].at].name) = {}
      BY <1>7 DEF SeedStarts, SeedFinds, SeedInserts, SeedFails, Advance, TypeOK
    <2>3. \A i \in Id : LookedAt(z, i)'
      BY <2>2 DEF LookedAt, Named, Visible, In
    <2>4. CASE rows' = rows
      BY <1>6, <2>1, <2>2, <2>3, <2>4 DEF NothingNew
    <2>5. CASE InsertRow(Ensured[seed[z].at].table, Ensured[seed[z].at].name, z)
      <3>1. \A j \in Id : IF rows[j] # NoRow THEN rows'[j] = rows[j]
                          ELSE rows'[j] # NoRow => rows'[j].by = z
        BY <2>5, EnsuredRow, InsertGood
      <3>2. \A s \in Seed \ {z} : z \notin {s, Before}
        BY DistinctAssumption
      <3>3. \A s \in Seed \ {z}, i \in Id : NothingNew(s, i)
        BY <3>1, <3>2 DEF NothingNew, ByAnother
      <3> QED
        BY <1>6, <2>1, <2>2, <2>3, <3>3
    <2> QED
      BY <1>7, <2>4, <2>5 DEF SeedStarts, SeedFinds, SeedInserts, SeedFails
  <1>8. CASE UNCHANGED vars
    BY <1>0, <1>8 DEF vars, reqVars
  <1> QED
    BY <1>1, <1>2, <1>3, <1>4, <1>5, <1>7, <1>8 DEF Next

-----------------------------------------------------------------------------
(* Theorems *)

LEMMA InitDirInv == Init => DirInv
  <1> SUFFICES ASSUME Init
               PROVE  DirInv
    OBVIOUS
  <1>1. Len(Ensured) \in Nat \ {0}
    BY EnsuredAssumption
  <1>2. TypeOK
    BY <1>1 DEF Init, TypeOK
  <1>3. InsertersAnswered
    BY DistinctAssumption DEF Init, InsertersAnswered
  <1>4. CallsMatch
    BY DEF Init, CallsMatch
  <1>5. AnswersHold /\ UpdatesKept /\ SeedLooked
    BY DEF Init, AnswersHold, UpdatesKept, SeedLooked
  <1> QED
    BY <1>2, <1>3, <1>4, <1>5 DEF Init, DirInv

LEMMA NextDirInv == DirInv /\ [Next]_vars => DirInv'
  BY NextTypeOK, NextRowsGood, NextCallsMatch, NextInserters, NextAnswersHold,
     NextUpdatesKept, NextSeedLooked
     DEF DirInv, RowsGood

\* The invariant of both tables and of every request on them: where each stands
\* in register, create, update or remove, and what it has done so far.
THEOREM DirInvariant == Spec => []DirInv
  BY InitDirInv, NextDirInv, PTL DEF Spec

\* An email, and a category's name, belongs to one row, deleted ones included,
\* although each service checks before it writes and holds no lock.
THEOREM OneRowPerName == Spec => []OneHolder
  <1>1. DirInv => OneHolder
    BY DEF DirInv
  <1> QED
    BY <1>1, DirInvariant, PTL

\* What a status says of the tables stays true.
THEOREM AnswersLast == Spec => []AnswersHold
  <1>1. DirInv => AnswersHold
    BY DEF DirInv
  <1> QED
    BY <1>1, DirInvariant, PTL

\* An UPDATE answered 200 is undone only by an UPDATE of the same column.
THEOREM UpdatesAreNotLost == Spec => []NoLostUpdate
  <1>1. DirInv => NoLostUpdate
    BY DEF DirInv, CallsMatch, UpdatesKept, NoLostUpdate
  <1> QED
    BY <1>1, DirInvariant, PTL

\* No row comes back to life, changes its table, or leaves it.
THEOREM DeletionLasts == Spec => DeletedForGood
  <1>1. DirInv /\ [Next]_vars =>
            [\A i \in Id :
                 rows[i] # NoRow =>
                     /\ rows'[i] # NoRow /\ rows'[i].table = rows[i].table
                     /\ rows'[i].live => rows[i].live]_vars
    BY NextRowsGood DEF DirInv, RowsGood, Keeps
  <1> QED
    BY <1>1, DirInvariant, PTL DEF Spec, DeletedForGood

\* A rename is refused because of another category, at the check and at the
\* index, unless the id was spelled in a way the check does not recognise.
THEOREM RenamesAreRefusedForCause == Spec => RefusedForCause
  <1> DEFINE Another(r) ==
        \E i \in Id \ Self(call[r]) :
            In(call[r].table, i) /\ rows[i].name = call[r].patch["name"]
  <1>1. ASSUME DirInv, [Next]_vars, NEW r \in Request,
               answer'[r] = 409, answer[r] # 409, call[r].op = "update"
        PROVE  Another(r)
    <2>0. TypeOK /\ OneHolder /\ CallsMatch
      BY <1>1 DEF DirInv
    <2>1. \/ Find(r) \/ Insert(r) \/ GetById(r) \/ CheckName(r) \/ UpdateRow(r)
          \/ Reread(r) \/ SoftDelete(r) \/ Fails(r)
      <3>1. ASSUME NEW q \in Request,
                   \/ Find(q) \/ Insert(q) \/ GetById(q) \/ CheckName(q)
                   \/ UpdateRow(q) \/ Reread(q) \/ SoftDelete(q) \/ Fails(q)
            PROVE  q = r
        BY <1>1, <2>0, <3>1, OwnStep
      <3>2. ASSUME NEW q \in Request, NEW c \in Calls, Start(q, c)
            PROVE  FALSE
        BY <1>1, <3>2 DEF Start
      <3>3. ~UNCHANGED reqVars
        BY <1>1 DEF reqVars
      <3> QED
        BY <1>1, <3>1, <3>2, <3>3, SeedLeavesRequests DEF Next
    <2>2. CASE CheckName(r)
      BY <1>1, <2>0, <2>2 DEF CheckName, Named, Visible, Self, GoTo
    <2>3. CASE UpdateRow(r)
      <3> DEFINE k == call[r].id
                 p == call[r].patch
                 t == call[r].table
      <3>1. Clashes(t, Patched(p, rows[k]).name, {k})
        BY <1>1, <2>3 DEF UpdateRow, GoTo
      <3>2. PICK i \in Id \ {k} : In(t, i) /\ rows[i].name = Patched(p, rows[k]).name
        BY <3>1 DEF Clashes
      <3>3. t \in Indexed /\ k \in Id /\ p \in Patches(t) /\ In(t, k)
        BY <2>0, <2>3, StartedCall DEF UpdateRow, CallsMatch
      <3>4. rows[k] \in Row /\ rows[k].table = t
        BY <2>0, <3>3 DEF TypeOK, In
      <3>5. /\ "name" \in DOMAIN p => Patched(p, rows[k]).name = p["name"]
            /\ "name" \notin DOMAIN p => Patched(p, rows[k]).name = rows[k].name
        BY <3>3, <3>4, PatchedColumns
      <3>6. rows[i].name # rows[k].name
        BY <2>0, <3>2, <3>3, <3>4 DEF OneHolder, In
      <3> QED
        BY <3>2, <3>5, <3>6 DEF Self
    <2>4. CASE Find(r) \/ Insert(r)
      BY <1>1, <2>0, <2>4 DEF Find, Insert, CallsMatch
    <2>5. CASE GetById(r) \/ Reread(r) \/ SoftDelete(r) \/ Fails(r)
      BY <1>1, <2>0, <2>5 DEF GetById, Reread, SoftDelete, Fails, Respond, GoTo, TypeOK
    <2> QED
      BY <2>1, <2>2, <2>3, <2>4, <2>5
  <1>2. DirInv /\ [Next]_vars =>
            [\A r \in Request :
                 /\ answer'[r] = 409 /\ answer[r] # 409 /\ call[r].op = "update"
                 => Another(r)]_vars
    BY <1>1
  <1> QED
    BY <1>2, DirInvariant, PTL DEF Spec, RefusedForCause

\* A seed ends with a duplicate only because of a deleted row, or of one that
\* someone else inserted or renamed between its look and its INSERT: alone, and
\* with nothing deleted, it may run any number of times (ensureUser,
\* ensureCategory, ensureProduct).
THEOREM SeedsStopForCause == Spec => SeedStopsForCause
  <1> DEFINE Cause(s) ==
        LET e == Ensured[seed[s].at]
        IN  \E i \in Id :
                /\ In(e.table, i) /\ rows[i].name = e.name
                /\ ~rows[i].live \/ ByAnother(s, i)
  <1>1. ASSUME DirInv, [Next]_vars, NEW s \in Seed,
               seed[s].state = "insert", seed'[s].state = "duplicate"
        PROVE  Cause(s)
    <2>0. TypeOK /\ CallsMatch /\ SeedLooked
      BY <1>1 DEF DirInv
    <2>1. SeedInserts(s)
      <3>1. seed' # seed
        BY <1>1
      <3>2. PICK z \in Seed : SeedStarts(z) \/ SeedFinds(z) \/ SeedInserts(z) \/ SeedFails(z)
        BY <1>1, <2>0, <3>1, OwnStep DEF Next, Start, vars
      <3>3. z = s
        BY <1>1, <2>0, <3>2 DEF SeedStarts, SeedFinds, SeedInserts, SeedFails, Advance, TypeOK
      <3> QED
        BY <1>1, <2>0, <3>2, <3>3 DEF SeedStarts, SeedFinds, SeedFails, TypeOK
    <2>2. PICK e : e = Ensured[seed[s].at]
      OBVIOUS
    <2>3. Clashes(e.table, e.name, {})
      BY <1>1, <2>0, <2>1, <2>2 DEF SeedInserts, Advance, TypeOK
    <2>4. PICK i \in Id : In(e.table, i) /\ rows[i].name = e.name
      BY <2>3 DEF Clashes
    <2>5. ~rows[i].live \/ ByAnother(s, i)
      BY <1>1, <2>0, <2>2, <2>4 DEF SeedLooked, Visible
    <2> QED
      BY <2>2, <2>4, <2>5
  <1>2. DirInv /\ [Next]_vars =>
            [\A s \in Seed :
                 seed[s].state = "insert" /\ seed'[s].state = "duplicate" => Cause(s)]_vars
    BY <1>1
  <1> QED
    BY <1>2, DirInvariant, PTL DEF Spec, SeedStopsForCause
=============================================================================
