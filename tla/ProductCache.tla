---------------------------- MODULE ProductCache ----------------------------
(***************************************************************************)
(* ProductService over CacheService: cache-aside reads of product details  *)
(* and lists, administrators' writes that invalidate afterwards, and the   *)
(* two kinds of write that invalidate nothing (an order's stock decrement, *)
(* a change of a category).                                                *)
(*                                                                         *)
(* What a reader sees of a row is abstracted to how often it has been      *)
(* written: edit counts the administrators' updates of it, silent the      *)
(* writes that leave the cache alone.  A detail is cached under the id as  *)
(* the request spells it, a page of a list under its query; every page is  *)
(* taken to depend on every row.  The total count of a page is left out.   *)
(***************************************************************************)
EXTENDS Integers, FiniteSets

CONSTANTS
    Row,         \* rows of the products table
    Id,          \* spellings of product ids that requests use
    RowOf,       \* RowOf[i]: the row that spelling i denotes
    Query,       \* list queries
    Reader,      \* concurrent GET requests
    Writer,      \* concurrent administrators' requests
    NoKey,       \* no key
    MaxEdits,    \* bound on the updates of a row
    MaxSilent    \* bound on the silent writes of a row

ASSUME RowOfAssumption == RowOf \in [Id -> Row]
ASSUME KeysAssumption == Id \cap Query = {} /\ NoKey \notin Id \cup Query
ASSUME BoundsAssumption == MaxEdits \in Nat /\ MaxSilent \in Nat

VARIABLES
    shelf, edit, silent,   \* the products table
    cache,       \* the cached entries: key -> what the rows looked like
    want,        \* want[r]: the key that reader r has missed, if any
    got,         \* got[r]: what its query returned, once it has
    at,          \* at[w]: what writer w does next
    target,      \* target[w]: the id it was given
    todo,        \* todo[w]: invalidations it has under way
    unscanned,   \* unscanned[w]: list keys its SCAN has still to meet
    found,       \* found[w]: list keys its SCAN has met
    strays       \* for the properties only: see StaleEntriesExplained

tableVars == <<shelf, edit, silent>>
readerVars == <<want, got>>
writerVars == <<at, target, todo, unscanned, found>>
vars == <<shelf, edit, silent, cache, want, got,
          at, target, todo, unscanned, found, strays>>

Key == Id \cup Query
Parts == {"detail", "lists"}
NoContent == [r \in {} |-> 0]

\* A row as a response shows it.
View(r) ==
    [shown  |-> shelf[r] = "listed",
     edit   |-> IF shelf[r] = "listed" THEN edit[r] ELSE 0,
     silent |-> IF shelf[r] = "listed" THEN silent[r] ELSE 0]

RowsOf(k) == IF k \in Id THEN {RowOf[k]} ELSE Row

\* What a query for key k returns now.
Content(k) == [r \in RowsOf(k) |-> View(r)]

Init ==
    /\ shelf \in [Row -> {"unborn", "listed"}]
    /\ edit = [r \in Row |-> 0]
    /\ silent = [r \in Row |-> 0]
    /\ cache = NoContent
    /\ want = [r \in Reader |-> NoKey]
    /\ got = [r \in Reader |-> NoContent]
    /\ at = [w \in Writer |-> "idle"]
    /\ target = [w \in Writer |-> NoKey]
    /\ todo = [w \in Writer |-> {}]
    /\ unscanned = [w \in Writer |-> {}]
    /\ found = [w \in Writer |-> {}]
    /\ strays = {}

-----------------------------------------------------------------------------
(* Helpers *)

\* c differs from the table in what administrators write.
Outdated(c, k) ==
    \E r \in RowsOf(k) : \/ c[r].shown # View(r).shown
                         \/ c[r].edit # View(r).edit

\* DEL, or expiry.
Drop(D) ==
    /\ cache' = [k \in (DOMAIN cache) \ D |-> cache[k]]
    /\ strays' = strays \ D

\* The keys that w has still to delete.
Outstanding(w) ==
    {k \in Key :
        \/ /\ at[w] = "reread"
           /\ shelf[RowOf[target[w]]] = "listed"
           /\ k \in Query \cup {target[w]}
        \/ "detail" \in todo[w] /\ k = target[w]
        \/ "lists" \in todo[w] /\ k \in unscanned[w] \cup found[w]}

\* The entries of the same row under other spellings than i.
OtherSpellings(i) ==
    {k \in Id \cap DOMAIN cache : k # i /\ RowOf[k] = RowOf[i]}

\* w starts the invalidations P side by side; SCAN starts at its first key.
StartInvalidation(w, P) ==
    /\ at' = [at EXCEPT ![w] = "invalidate"]
    /\ todo' = [todo EXCEPT ![w] = P]
    /\ unscanned' = [unscanned EXCEPT ![w] = Query]
    /\ found' = [found EXCEPT ![w] = {}]

\* One of them is over; when both are, w answers.
EndInvalidation(w, part) ==
    /\ todo' = [todo EXCEPT ![w] = @ \ {part}]
    /\ at' = [at EXCEPT ![w] = IF todo[w] = {part} THEN "idle" ELSE @]
    /\ target' = [target EXCEPT ![w] = IF todo[w] = {part} THEN NoKey ELSE @]

-----------------------------------------------------------------------------
(* Readers: list and getById *)

\* GET misses.  (A hit answers with cache[k] and changes nothing.)
Miss(r, k) ==
    /\ want[r] = NoKey
    /\ k \notin DOMAIN cache
    /\ want' = [want EXCEPT ![r] = k]
    /\ UNCHANGED <<tableVars, cache, got, writerVars, strays>>

\* [mutant] A missing row is cached like any other.
QueryRowsAny(r) ==
    /\ want[r] # NoKey /\ got[r] = NoContent
    /\ got' = [got EXCEPT ![r] = Content(want[r])]
    /\ UNCHANGED <<tableVars, cache, want, writerVars, strays>>

\* The query.  A detail whose row is missing is a 404, and is not cached.
QueryRows(r) ==
    LET k == want[r]
        missing == k \in Id /\ shelf[RowOf[k]] # "listed"
    IN  /\ k # NoKey /\ got[r] = NoContent
        /\ got' = [got EXCEPT ![r] = IF missing THEN NoContent ELSE Content(k)]
        /\ want' = [want EXCEPT ![r] = IF missing THEN NoKey ELSE k]
        /\ UNCHANGED <<tableVars, cache, writerVars, strays>>

PutEntry(k, c) ==
    /\ cache' = [x \in DOMAIN cache \cup {k} |-> IF x = k THEN c ELSE cache[x]]
    /\ strays' = IF Outdated(c, k) THEN strays \cup {k} ELSE strays \ {k}

EndRead(r) ==
    /\ want' = [want EXCEPT ![r] = NoKey]
    /\ got' = [got EXCEPT ![r] = NoContent]

\* SET EX, unconditional, of what the query returned before.
Fill(r) ==
    /\ got[r] # NoContent
    /\ PutEntry(want[r], got[r])
    /\ EndRead(r)
    /\ UNCHANGED <<tableVars, writerVars>>

\* Any command fails or the process ends: nothing is set, or (Fill) it is.
ReadFails(r) ==
    /\ want[r] # NoKey
    /\ EndRead(r)
    /\ UNCHANGED <<tableVars, cache, writerVars, strays>>

\* [mutant] Pages of lists are cached without EX.
ExpireDetails(k) ==
    /\ k \in Id \cap DOMAIN cache
    /\ Drop({k})
    /\ UNCHANGED <<tableVars, readerVars, writerVars>>

\* An entry reaches its TTL.
Expire(k) ==
    /\ k \in DOMAIN cache
    /\ Drop({k})
    /\ UNCHANGED <<tableVars, readerVars, writerVars>>

-----------------------------------------------------------------------------
(* Writers: create, update and remove *)

\* INSERT; only the lists are invalidated.
Create(w, r) ==
    /\ at[w] = "idle"
    /\ shelf[r] = "unborn"
    /\ shelf' = [shelf EXCEPT ![r] = "listed"]
    /\ StartInvalidation(w, {"lists"})
    /\ UNCHANGED <<edit, silent, cache, readerVars, target, strays>>

\* getEntityOrThrow finds the row.
BeginUpdate(w, i) ==
    /\ at[w] = "idle"
    /\ shelf[RowOf[i]] = "listed"
    /\ at' = [at EXCEPT ![w] = "write"]
    /\ target' = [target EXCEPT ![w] = i]
    /\ UNCHANGED <<tableVars, cache, readerVars, todo, unscanned, found, strays>>

\* UPDATE: the row may have been removed meanwhile, and is updated all the same.
UpdateRow(w) ==
    LET i == target[w]
    IN  /\ at[w] = "write"
        /\ edit[RowOf[i]] < MaxEdits
        /\ edit' = [edit EXCEPT ![RowOf[i]] = @ + 1]
        /\ strays' = strays \cup OtherSpellings(i)
        /\ at' = [at EXCEPT ![w] = "reread"]
        /\ UNCHANGED <<shelf, silent, cache, readerVars, target, todo,
                       unscanned, found>>

\* update re-reads the row: a removed one is a 404, and nothing is invalidated.
Reread(w) ==
    /\ at[w] = "reread"
    /\ IF shelf[RowOf[target[w]]] = "listed"
       THEN StartInvalidation(w, Parts) /\ UNCHANGED target
       ELSE /\ at' = [at EXCEPT ![w] = "idle"]
            /\ target' = [target EXCEPT ![w] = NoKey]
            /\ UNCHANGED <<todo, unscanned, found>>
    /\ UNCHANGED <<tableVars, cache, readerVars, strays>>

\* [mutant] remove forgets the detail key.
SoftDeleteListsOnly(w, i) ==
    /\ at[w] = "idle"
    /\ shelf[RowOf[i]] # "unborn"
    /\ shelf' = [shelf EXCEPT ![RowOf[i]] = "removed"]
    /\ target' = [target EXCEPT ![w] = i]
    /\ strays' = strays \cup OtherSpellings(i)
    /\ StartInvalidation(w, {"lists"})
    /\ UNCHANGED <<edit, silent, cache, readerVars>>

\* UPDATE ... SET deletedAt: affects a removed row, too.
SoftDelete(w, i) ==
    /\ at[w] = "idle"
    /\ shelf[RowOf[i]] # "unborn"
    /\ shelf' = [shelf EXCEPT ![RowOf[i]] = "removed"]
    /\ target' = [target EXCEPT ![w] = i]
    /\ strays' = strays \cup OtherSpellings(i)
    /\ StartInvalidation(w, Parts)
    /\ UNCHANGED <<edit, silent, cache, readerVars>>

\* DEL products:detail:<id>, under the spelling of the request.
DelDetail(w) ==
    /\ "detail" \in todo[w]
    /\ Drop({target[w]})
    /\ EndInvalidation(w, "detail")
    /\ UNCHANGED <<tableVars, readerVars, unscanned, found>>

\* SCAN meets the place of list key q: an entry that is there all the time is
\* found, one that comes or goes meanwhile may be missed.
Scan(w, q) ==
    /\ "lists" \in todo[w]
    /\ q \in unscanned[w]
    /\ unscanned' = [unscanned EXCEPT ![w] = @ \ {q}]
    /\ found' = [found EXCEPT ![w] = IF q \in DOMAIN cache THEN @ \cup {q} ELSE @]
    /\ UNCHANGED <<tableVars, cache, readerVars, at, target, todo, strays>>

\* DEL of the keys found, if any.
DelLists(w) ==
    /\ "lists" \in todo[w]
    /\ unscanned[w] = {}
    /\ Drop(found[w])
    /\ EndInvalidation(w, "lists")
    /\ found' = [found EXCEPT ![w] = {}]
    /\ UNCHANGED <<tableVars, readerVars, unscanned>>

\* Redis fails in one of the two: the answer is 500, the other goes on.
InvalidationFails(w, part) ==
    /\ part \in todo[w]
    /\ EndInvalidation(w, part)
    /\ strays' = strays \cup
         {k \in Outstanding(w) \cap DOMAIN cache :
              k \in IF part = "detail" THEN Id ELSE Query}
    /\ unscanned' = [unscanned EXCEPT ![w] = IF part = "lists" THEN {} ELSE @]
    /\ found' = [found EXCEPT ![w] = IF part = "lists" THEN {} ELSE @]
    /\ UNCHANGED <<tableVars, cache, readerVars>>

\* A query of w fails, or the process ends under it: nothing more is deleted.
WriterStops(w) ==
    /\ at[w] # "idle"
    /\ at' = [at EXCEPT ![w] = "idle"]
    /\ target' = [target EXCEPT ![w] = NoKey]
    /\ todo' = [todo EXCEPT ![w] = {}]
    /\ unscanned' = [unscanned EXCEPT ![w] = {}]
    /\ found' = [found EXCEPT ![w] = {}]
    /\ strays' = strays \cup (Outstanding(w) \cap DOMAIN cache)
    /\ UNCHANGED <<tableVars, cache, readerVars>>

-----------------------------------------------------------------------------
(* Writes that leave the cache alone *)

\* What all rows of S show changes, and no key is deleted.
SilentWrite(S) ==
    /\ \A r \in S : silent[r] < MaxSilent
    /\ silent' = [r \in Row |-> IF r \in S THEN silent[r] + 1 ELSE silent[r]]
    /\ UNCHANGED <<shelf, edit, cache, readerVars, writerVars, strays>>

\* An order over the rows S commits.
OrderCommits(S) == (\A r \in S : shelf[r] = "listed") /\ SilentWrite(S)

\* The category of the rows S is renamed or removed.
CategoryChanges(S) == SilentWrite(S)

-----------------------------------------------------------------------------
Read(r) ==
    \/ \E k \in Key : Miss(r, k)
    \/ QueryRows(r)
    \/ Fill(r)

Write(w) ==
    \/ \E r \in Row : Create(w, r)
    \/ \E i \in Id : BeginUpdate(w, i) \/ SoftDelete(w, i)
    \/ UpdateRow(w)
    \/ Reread(w)
    \/ DelDetail(w)
    \/ \E q \in Query : Scan(w, q)
    \/ DelLists(w)

WriteFails(w) ==
    \/ \E part \in Parts : InvalidationFails(w, part)
    \/ WriterStops(w)

FaultFreeNext ==
    \/ \E r \in Reader : Read(r)
    \/ \E w \in Writer : Write(w)
    \/ \E k \in Key : Expire(k)
    \/ \E S \in (SUBSET Row) \ {{}} : OrderCommits(S) \/ CategoryChanges(S)

Next ==
    \/ FaultFreeNext
    \/ \E r \in Reader : ReadFails(r)
    \/ \E w \in Writer : WriteFails(w)

Spec == Init /\ [][Next]_vars

\* Redis expires entries.  Nothing else has to happen.
FairSpec == Spec /\ \A k \in Key : WF_vars(Expire(k))

-----------------------------------------------------------------------------
(* Properties *)

Looks == [shown : BOOLEAN, edit : 0..MaxEdits, silent : 0..MaxSilent]

\* c may be cached under k.
Presentable(c, k) ==
    /\ c \in [RowsOf(k) -> Looks]
    /\ k \in Id => c[RowOf[k]].shown

\* Every variable stays in its range.  In particular a 404 is never cached: a
\* detail in the cache, or on its way there, shows a row.
TypeOK ==
    /\ shelf \in [Row -> {"unborn", "listed", "removed"}]
    /\ edit \in [Row -> 0..MaxEdits]
    /\ silent \in [Row -> 0..MaxSilent]
    /\ DOMAIN cache \subseteq Key
    /\ \A k \in DOMAIN cache : Presentable(cache[k], k)
    /\ want \in [Reader -> Key \cup {NoKey}]
    /\ DOMAIN got = Reader
    /\ \A r \in Reader :
           got[r] = NoContent \/ (want[r] \in Key /\ Presentable(got[r], want[r]))
    /\ at \in [Writer -> {"idle", "write", "reread", "invalidate"}]
    /\ target \in [Writer -> Id \cup {NoKey}]
    /\ todo \in [Writer -> SUBSET Parts]
    /\ unscanned \in [Writer -> SUBSET Query]
    /\ found \in [Writer -> SUBSET Query]
    /\ strays \in SUBSET Key

\* An entry that no longer shows what administrators have written is about to
\* be deleted by the writer concerned, or it is a stray: it was filled from a
\* row read before the write, it is cached under another spelling of the id,
\* or its invalidation failed.  So without failures and with one spelling,
\* only a read that overlaps a write leaves a stale entry behind, whatever
\* SCAN, DEL, SET and other writers do in between.
StaleEntriesExplained ==
    \A k \in DOMAIN cache :
        Outdated(cache[k], k) =>
            k \in strays \/ \E w \in Writer : k \in Outstanding(w)

\* "TTLs are a safety net for anything missed" (product.service.ts:29): once
\* the writes stop, the cache ends up equal to the table, for good, orders'
\* and categories' writes included.
EventuallyFresh ==
    <>[](\A k \in DOMAIN cache : cache[k] = Content(k))

\* "On writes the relevant keys are invalidated so stale data is never served"
\* (cache.service.ts:10): when no write is under way, what a GET would hit is
\* what administrators have written, as long as nothing fails.
NeverStale ==
    (\A w \in Writer : at[w] = "idle") =>
        \A k \in DOMAIN cache : ~Outdated(cache[k], k)

-----------------------------------------------------------------------------
(* The inductive invariant behind StaleEntriesExplained *)

\* A writer has invalidations under way at its last step only.
Tidy(w) ==
    /\ todo[w] # {} <=> at[w] = "invalidate"
    /\ at[w] \in {"write", "reread"} \/ "detail" \in todo[w] => target[w] \in Id

IInv ==
    /\ TypeOK
    /\ StaleEntriesExplained
    /\ \A w \in Writer : Tidy(w)
=============================================================================
