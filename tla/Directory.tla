----------------------------- MODULE Directory -----------------------------
(***************************************************************************)
(* Users and categories: two tables with a unique name (a user's is the    *)
(* email), written by requests that check the name first and leave the     *)
(* last word to the unique index; and the seed, which does the same for    *)
(* its own rows, products among them, each time a container starts.        *)
(*                                                                         *)
(* Rows are soft-deleted: the queries see only live rows, the index and    *)
(* UPDATE see all of them.  The await of bcrypt between check and INSERT   *)
(* is part of the window between the two actions.                          *)
(***************************************************************************)
EXTENDS Integers, FiniteSets, Sequences

CONSTANTS
    Id,           \* uuids
    Name,         \* emails and names
    Value,        \* contents of the other columns
    Request, Seed,\* calls of the API, runs of the seed
    Patches(_),   \* bound, for TLC: the patches that calls on a table send
    Ensured,      \* the seed's rows: a sequence of [table, name]
    NoRow, NoCall, Before,
    SeedsOverlap, \* may two runs of the seed overlap?
    Failures      \* may PostgreSQL fail a statement?

Indexed == {"users", "categories"}
Tables == Indexed \cup {"products"}
Columns(t) == IF t = "users" THEN {"note", "role"} ELSE {"name", "note"}

ASSUME PatchAssumption ==
    \A t \in Indexed : \A p \in Patches(t) :
        /\ DOMAIN p # {} /\ DOMAIN p \subseteq Columns(t)
        /\ \A f \in DOMAIN p : p[f] \in IF f = "name" THEN Name ELSE Value
ASSUME EnsuredAssumption ==
    Ensured \in Seq([table : Tables, name : Name]) /\ Ensured # <<>>

VARIABLES
    rows,         \* rows[i]: the row with id i, or NoRow; by (seen by nobody)
                  \* is who inserted it
    call,         \* call[r]: what r asks for
    pc,           \* pc[r]: the statement that r sends next
    answer,       \* answer[r]: its status
    took,         \* the requests whose UPDATE or DELETE took effect
    seed          \* seed[s]: [state, at]: how far s is in Ensured

reqVars == <<call, pc, answer, took>>
vars == <<rows, reqVars, seed>>

Row == [table : Tables, name : Name, note : Value, role : Value,
        live : BOOLEAN, by : Request \cup Seed \cup {Before}]

\* An id is exact if the request spells it the way PostgreSQL prints it.  That
\* matters to categories only, which compare ids as strings.
Creates == [op : {"create"}, table : Indexed, name : Name]
Updates ==
    UNION {[op : {"update"}, table : {t}, id : Id, patch : Patches(t),
            exact : IF t = "users" THEN {TRUE} ELSE BOOLEAN] : t \in Indexed}
Deletes == [op : {"delete"}, table : Indexed, id : Id]
Calls == Creates \cup Updates \cup Deletes

ASSUME DistinctAssumption ==
    /\ Before \notin Request \cup Seed /\ Request \cap Seed = {}
    /\ NoRow \notin Row /\ NoCall \notin Calls

-----------------------------------------------------------------------------
(* The tables *)

\* i's row is in t, live or not.
In(t, i) == rows[i] # NoRow /\ rows[i].table = t
\* ... and default queries see it.
Visible(t, i) == In(t, i) /\ rows[i].live

\* The ids that findByEmail, findByName may return.
Named(t, n) == {i \in Id : Visible(t, i) /\ rows[i].name = n}

\* [mutant] The index is not unique.
ClashesNever(t, n, own) == FALSE

\* The unique index refuses n: a row not in own, deleted or not, has it.
Clashes(t, n, own) ==
    t \in Indexed /\ \E i \in Id \ own : In(t, i) /\ rows[i].name = n

\* INSERT under a fresh uuid, by a.
InsertRow(t, n, a) ==
    /\ ~Clashes(t, n, {})
    /\ \E i \in Id, v \in Value :
           /\ rows[i] = NoRow
           /\ rows' = [rows EXCEPT ![i] = [table |-> t, name |-> n, note |-> v,
                                           role |-> v, live |-> TRUE, by |-> a]]

At(p, f, old) == IF f \in DOMAIN p THEN p[f] ELSE old

\* [mutant] Columns that the patch leaves out are reset.
PatchedResetting(p, row) ==
    LET default == CHOOSE v \in Value : TRUE
    IN  [row EXCEPT !.name = At(p, "name", @), !.note = At(p, "note", default),
                    !.role = At(p, "role", default)]

\* [mutant] The entity as it was read, alive, goes back whole.
PatchedReviving(p, row) ==
    [row EXCEPT !.name = At(p, "name", @), !.note = At(p, "note", @),
                !.role = At(p, "role", @), !.live = TRUE]

\* UPDATE sets the columns of the patch, whatever has become of the row.
Patched(p, row) ==
    [row EXCEPT !.name = At(p, "name", @), !.note = At(p, "note", @),
                !.role = At(p, "role", @)]

\* However checks and writes interleave, a name of an indexed table belongs to
\* one row: an email to one account, deleted accounts included.
OneHolder ==
    \A i, j \in Id :
        i # j /\ rows[i] # NoRow /\ rows[i].table \in Indexed =>
            ~(In(rows[i].table, j) /\ rows[j].name = rows[i].name)

-----------------------------------------------------------------------------
(* Requests *)

\* The tables have any past.
Init ==
    /\ rows \in [Id -> {NoRow} \cup {w \in Row : w.by = Before}]
    /\ OneHolder
    /\ call = [r \in Request |-> NoCall]
    /\ pc = [r \in Request |-> "idle"]
    /\ answer = [r \in Request |-> 0]
    /\ took = {}
    /\ seed = [s \in Seed |-> [state |-> "idle", at |-> 1]]

GoTo(r, p) == pc' = [pc EXCEPT ![r] = p] /\ UNCHANGED <<call, answer, seed>>

Respond(r, status) ==
    /\ pc' = [pc EXCEPT ![r] = "done"]
    /\ answer' = [answer EXCEPT ![r] = status]
    /\ UNCHANGED <<call, seed>>

\* The handler is entered.
Start(r, c) ==
    /\ pc[r] = "idle"
    /\ call' = [call EXCEPT ![r] = c]
    /\ pc' = [pc EXCEPT ![r] = CASE c.op = "create" -> "find"
                                 [] c.op = "update" -> "get"
                                 [] OTHER           -> "delete"]
    /\ UNCHANGED <<rows, answer, took, seed>>

\* register, create: is the name taken?
Find(r) ==
    /\ pc[r] = "find"
    /\ IF Named(call[r].table, call[r].name) # {} THEN Respond(r, 409)
       ELSE GoTo(r, "insert")
    /\ UNCHANGED <<rows, took>>

\* The row is inserted, and the reply may be lost; or 23505.
Insert(r) ==
    /\ pc[r] = "insert"
    /\ \/ /\ InsertRow(call[r].table, call[r].name, r)
          /\ (Respond(r, 201) \/ (Failures /\ Respond(r, 500)))
       \/ /\ Clashes(call[r].table, call[r].name, {})
          /\ Respond(r, 409) /\ UNCHANGED rows
    /\ UNCHANGED took

\* update: 404 if missing.
GetById(r) ==
    /\ pc[r] = "get"
    /\ LET c == call[r]
       IN  IF ~Visible(c.table, c.id) THEN Respond(r, 404)
           ELSE GoTo(r, IF "name" \in DOMAIN c.patch THEN "check" ELSE "update")
    /\ UNCHANGED <<rows, took>>

\* [mutant] The category's own name clashes, too.
CheckNameSelf(r) ==
    /\ pc[r] = "check"
    /\ IF Named(call[r].table, call[r].patch["name"]) # {} THEN Respond(r, 409)
       ELSE GoTo(r, "update")
    /\ UNCHANGED <<rows, took>>

\* The row that the comparison of ids recognises as the renamed one.
Self(c) == IF c.exact THEN {c.id} ELSE {}

\* A category is renamed: does another one have the name?
CheckName(r) ==
    /\ pc[r] = "check"
    /\ IF Named(call[r].table, call[r].patch["name"]) \ Self(call[r]) # {}
       THEN Respond(r, 409) ELSE GoTo(r, "update")
    /\ UNCHANGED <<rows, took>>

\* UPDATE ... WHERE id, or 23505.
UpdateRow(r) ==
    /\ pc[r] = "update"
    /\ LET c == call[r]
           row == Patched(c.patch, rows[c.id])
       IN  IF Clashes(c.table, row.name, {c.id})
           THEN Respond(r, 409) /\ UNCHANGED <<rows, took>>
           ELSE /\ rows' = [rows EXCEPT ![c.id] = row]
                /\ took' = took \cup {r}
                /\ GoTo(r, "reread")

\* The row is read back; it may have been deleted meanwhile.
Reread(r) ==
    /\ pc[r] = "reread"
    /\ Respond(r, IF Visible(call[r].table, call[r].id) THEN 200 ELSE 404)
    /\ UNCHANGED <<rows, took>>

\* [mutant] The row is deleted from the table.
HardDelete(r) ==
    /\ pc[r] = "delete"
    /\ LET i == call[r].id
       IN  IF In(call[r].table, i)
           THEN /\ rows' = [rows EXCEPT ![i] = NoRow]
                /\ took' = took \cup {r}
                /\ (Respond(r, 200) \/ (Failures /\ Respond(r, 500)))
           ELSE Respond(r, 404) /\ UNCHANGED <<rows, took>>

\* UPDATE ... SET deletedAt WHERE id: a deleted row is deleted again.
SoftDelete(r) ==
    /\ pc[r] = "delete"
    /\ LET i == call[r].id
       IN  IF In(call[r].table, i)
           THEN /\ rows' = [rows EXCEPT ![i].live = FALSE]
                /\ took' = took \cup {r}
                /\ (Respond(r, 200) \/ (Failures /\ Respond(r, 500)))
           ELSE Respond(r, 404) /\ UNCHANGED <<rows, took>>

\* PostgreSQL fails the statement that r waits for.
Fails(r) ==
    /\ Failures /\ pc[r] \notin {"idle", "done"}
    /\ Respond(r, 500)
    /\ UNCHANGED <<rows, took>>

-----------------------------------------------------------------------------
(* The seed *)

Running(s) == seed[s].state \in {"find", "insert"}

SeedStarts(s) ==
    /\ seed[s].state = "idle"
    /\ SeedsOverlap \/ \A z \in Seed : ~Running(z)
    /\ seed' = [seed EXCEPT ![s].state = "find"]
    /\ UNCHANGED <<rows, reqVars>>

\* On to the next row, or the end.
Advance(s) ==
    seed' = [seed EXCEPT ![s] =
                IF @.at = Len(Ensured) THEN [@ EXCEPT !.state = "done"]
                ELSE [state |-> "find", at |-> @.at + 1]]

\* [mutant] It inserts without looking.
SeedFindsNothing(s) ==
    /\ seed[s].state = "find"
    /\ seed' = [seed EXCEPT ![s].state = "insert"]
    /\ UNCHANGED <<rows, reqVars>>

\* ensureUser, ensureCategory, ensureProduct: is the row there?
SeedFinds(s) ==
    /\ seed[s].state = "find"
    /\ LET e == Ensured[seed[s].at]
       IN  IF Named(e.table, e.name) # {} THEN Advance(s)
           ELSE seed' = [seed EXCEPT ![s].state = "insert"]
    /\ UNCHANGED <<rows, reqVars>>

\* It is inserted; 23505 ends the process with exit code 1.
SeedInserts(s) ==
    /\ seed[s].state = "insert"
    /\ LET e == Ensured[seed[s].at]
       IN  \/ InsertRow(e.table, e.name, s) /\ Advance(s)
           \/ /\ Clashes(e.table, e.name, {})
              /\ seed' = [seed EXCEPT ![s].state = "duplicate"]
              /\ UNCHANGED rows
    /\ UNCHANGED reqVars

\* The database fails it, or the container stops.
SeedFails(s) ==
    /\ Failures /\ Running(s)
    /\ seed' = [seed EXCEPT ![s].state = "failed"]
    /\ UNCHANGED <<rows, reqVars>>

Next ==
    \/ \E r \in Request :
           \/ \E c \in Calls : Start(r, c)
           \/ Find(r) \/ Insert(r) \/ GetById(r) \/ CheckName(r) \/ UpdateRow(r)
           \/ Reread(r) \/ SoftDelete(r) \/ Fails(r)
    \/ \E s \in Seed : SeedStarts(s) \/ SeedFinds(s) \/ SeedInserts(s) \/ SeedFails(s)

Spec == Init /\ [][Next]_vars

-----------------------------------------------------------------------------
(* Properties *)

TypeOK ==
    /\ rows \in [Id -> Row \cup {NoRow}]
    /\ call \in [Request -> Calls \cup {NoCall}]
    /\ pc \in [Request -> {"idle", "find", "insert", "get", "check", "update",
                           "reread", "delete", "done"}]
    /\ answer \in [Request -> {0, 200, 201, 404, 409, 500}]
    /\ took \subseteq Request
    /\ seed \in [Seed -> [state : {"idle", "find", "insert", "done", "duplicate", "failed"},
                          at : 1..Len(Ensured)]]

\* What the answers say holds from then on.  An email that was refused is
\* taken for good, and a removed row, or one whose change was answered with
\* 404, is gone for good.
AnswersHold ==
    \A r \in Request :
        LET c == call[r]
        IN  /\ answer[r] = 201 => \E i \in Id : In(c.table, i) /\ rows[i].by = r
            /\ answer[r] = 409 /\ c.op = "create" /\ c.table = "users" =>
                   \E i \in Id : In("users", i) /\ rows[i].name = c.name /\ rows[i].by # r
            /\ answer[r] = 409 => r \notin took
            /\ answer[r] = 200 /\ c.op = "delete" => ~Visible(c.table, c.id)
            /\ answer[r] = 404 /\ r \in took => ~Visible(c.table, c.id)

\* A rename is refused because another row has the name: the comparison of ids
\* and the index agree that the category's own is no reason, unless the id is
\* spelled in another case than PostgreSQL's, which the validators accept.
RefusedForCause ==
    [][\A r \in Request :
           /\ answer'[r] = 409 /\ answer[r] # 409 /\ call[r].op = "update"
           => \E i \in Id \ Self(call[r]) :
                  In(call[r].table, i) /\ rows[i].name = call[r].patch["name"]]_vars

\* An UPDATE that was answered 200 is not undone by a request that read the
\* row before it: a column has the value of some UPDATE that set it, and of
\* this one if no other did.
NoLostUpdate ==
    \A r \in Request :
        /\ answer[r] = 200 /\ call[r].op = "update"
        => \A f \in DOMAIN call[r].patch :
               \/ rows[call[r].id][f] = call[r].patch[f]
               \/ \E z \in took \ {r} :
                      /\ call[z].op = "update" /\ call[z].id = call[r].id
                      /\ f \in DOMAIN call[z].patch
                      /\ rows[call[r].id][f] = call[z].patch[f]

\* Soft deletion is final: no UPDATE that started before it brings a row back.
DeletedForGood ==
    [][\A i \in Id :
           rows[i] # NoRow =>
               /\ rows'[i] # NoRow /\ rows'[i].table = rows[i].table
               /\ rows'[i].live => rows[i].live]_vars

\* Some UPDATE has given i its name.
Renamed(i) ==
    \E r \in took :
        call[r].op = "update" /\ call[r].id = i /\ "name" \in DOMAIN call[r].patch

\* Since the start of the behaviour, not only since s looked, someone else than
\* seed s has put i where it is, or renamed it.
ByAnother(s, i) == rows[i].by \notin {s, Before} \/ Renamed(i)

\* A seed stops at a duplicate only if the name belongs to a deleted row, or
\* to one that someone else has inserted or renamed.  That this comes after the
\* seed's look is what SeedLooked adds, in the proof.
SeedStopsForCause ==
    [][\A s \in Seed :
           seed[s].state = "insert" /\ seed'[s].state = "duplicate" =>
               LET e == Ensured[seed[s].at]
               IN  \E i \in Id :
                       /\ In(e.table, i) /\ rows[i].name = e.name
                       /\ ~rows[i].live \/ ByAnother(s, i)]_vars

\* "Idempotent seed: safe to run repeatedly (skips rows that already exist) so
\* it can be wired into container startup" (seed.ts:11-12).
SafeToRunRepeatedly == \A s \in Seed : seed[s].state # "duplicate"

-----------------------------------------------------------------------------
(* The inductive invariant *)

\* Where a request stands fits what it asks for; it updates rows that exist.
CallsMatch ==
    \A r \in Request :
        LET c == call[r]
        IN  /\ pc[r] # "idle" => c \in Calls
            /\ pc[r] \in {"find", "insert"} => c.op = "create"
            /\ pc[r] \in {"get", "check", "update", "reread"} => c.op = "update"
            /\ pc[r] = "delete" => c.op = "delete"
            /\ pc[r] \in {"check", "update"} => In(c.table, c.id)
            /\ answer[r] # 0 => pc[r] = "done"
            /\ r \in took => /\ pc[r] \in {"reread", "done"}
                             /\ c.op \in {"update", "delete"} /\ In(c.table, c.id)
            /\ pc[r] = "reread" \/ answer[r] = 200 => r \in took

\* Whoever has inserted a row has its answer.
InsertersAnswered ==
    \A i \in Id :
        rows[i] # NoRow /\ rows[i].by \in Request => pc[rows[i].by] = "done"

\* NoLostUpdate, from the moment that the UPDATE takes effect.
UpdatesKept ==
    \A r \in took :
        call[r].op = "update" =>
            \A f \in DOMAIN call[r].patch :
               \/ rows[call[r].id][f] = call[r].patch[f]
               \/ \E z \in took \ {r} :
                      /\ call[z].op = "update" /\ call[z].id = call[r].id
                      /\ f \in DOMAIN call[z].patch
                      /\ rows[call[r].id][f] = call[z].patch[f]

\* A seed about to insert has found no live row of the name: if there is one
\* now, it is another's.
SeedLooked ==
    \A s \in Seed : \A i \in Id :
        seed[s].state = "insert" =>
            LET e == Ensured[seed[s].at]
            IN  Visible(e.table, i) /\ rows[i].name = e.name => ByAnother(s, i)

DirInv ==
    /\ TypeOK /\ OneHolder /\ CallsMatch /\ InsertersAnswered
    /\ AnswersHold /\ UpdatesKept /\ SeedLooked
=============================================================================
