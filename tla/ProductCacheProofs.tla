------------------------- MODULE ProductCacheProofs -------------------------
(***************************************************************************)
(* For any number of rows, spellings, queries, readers and writers: every  *)
(* stale entry of the product cache has one of the known causes.           *)
(***************************************************************************)
EXTENDS ProductCache, TLAPS

\* The entries and the obligations of the writers, apart from the readers.
entryVars == <<tableVars, cache, writerVars, strays>>

LEMMA ContentPresentable ==
    ASSUME TypeOK, NEW k \in Key, k \in Id => shelf[RowOf[k]] = "listed"
    PROVE  Presentable(Content(k), k)
  <1>1. RowsOf(k) \subseteq Row
    BY RowOfAssumption DEF RowsOf
  <1>2. ASSUME NEW r \in Row PROVE View(r) \in Looks
    BY <1>2, BoundsAssumption DEF TypeOK, View, Looks
  <1>3. Content(k) \in [RowsOf(k) -> Looks]
    BY <1>1, <1>2 DEF Content
  <1>4. k \in Id => Content(k)[RowOf[k]].shown
    BY RowOfAssumption DEF Content, RowsOf, View
  <1> QED
    BY <1>3, <1>4 DEF Presentable

\* What is outdated depends on the two columns administrators write.
LEMMA OutdatedKept ==
    ASSUME shelf' = shelf, edit' = edit
    PROVE  \A c, k : Outdated(c, k)' <=> Outdated(c, k)
  BY DEF Outdated, View, RowsOf

-----------------------------------------------------------------------------
LEMMA InitInvariant == Init => IInv
  <1> SUFFICES ASSUME Init PROVE IInv
    OBVIOUS
  <1>1. TypeOK
    BY BoundsAssumption DEF Init, TypeOK, NoContent
  <1>2. StaleEntriesExplained
    BY DEF Init, StaleEntriesExplained, NoContent
  <1>3. \A w \in Writer : Tidy(w)
    BY DEF Init, Tidy
  <1> QED
    BY <1>1, <1>2, <1>3 DEF IInv

\* The readers up to their SET touch nothing that the invariant explains.
LEMMA ReaderKeeps ==
    ASSUME IInv, NEW r \in Reader,
           (\E k \in Key : Miss(r, k)) \/ QueryRows(r) \/ ReadFails(r)
    PROVE  IInv'
  <1>1. UNCHANGED entryVars
    BY DEF Miss, QueryRows, ReadFails, entryVars
  <1>2. TypeOK'
    <2>0. TypeOK
      BY DEF IInv
    <2>1. CASE \E k \in Key : Miss(r, k)
      BY <2>0, <2>1, KeysAssumption
         DEF TypeOK, Miss, tableVars, writerVars, Presentable, Key
    <2>2. CASE QueryRows(r)
      <3>1. want[r] \in Key
        BY <2>0, <2>2 DEF TypeOK, QueryRows
      <3>2. \/ got'[r] = NoContent
            \/ want'[r] = want[r] /\ Presentable(got'[r], want[r])
        BY <2>0, <2>2, <3>1, ContentPresentable DEF TypeOK, QueryRows
      <3> QED
        BY <2>0, <2>2, <3>1, <3>2
           DEF TypeOK, QueryRows, tableVars, writerVars, Presentable, Key
    <2>3. CASE ReadFails(r)
      BY <2>0, <2>3 DEF TypeOK, ReadFails, EndRead, tableVars, writerVars, Presentable
    <2> QED
      BY <2>1, <2>2, <2>3
  <1>3. StaleEntriesExplained'
    BY <1>1, OutdatedKept DEF IInv, StaleEntriesExplained, Outstanding,
       entryVars, tableVars, writerVars
  <1>4. \A w \in Writer : Tidy(w)'
    BY <1>1 DEF IInv, Tidy, entryVars, writerVars
  <1> QED
    BY <1>2, <1>3, <1>4 DEF IInv

\* SET marks what it makes outdated, and replaces the entry's past.
LEMMA FillKeeps ==
    ASSUME IInv, NEW r \in Reader, Fill(r)
    PROVE  IInv'
  <1> DEFINE k == want[r]
  <1>0. TypeOK /\ k \in Key /\ Presentable(got[r], k)
    BY DEF IInv, TypeOK, Fill
  <1>1. UNCHANGED <<tableVars, writerVars>>
    BY DEF Fill
  <1>2. TypeOK'
    BY <1>0, <1>1
       DEF TypeOK, Fill, PutEntry, EndRead, tableVars, writerVars, Presentable, Key
  <1>3. \A c, x : Outdated(c, x)' <=> Outdated(c, x)
    BY <1>1, OutdatedKept DEF tableVars
  <1>4. ASSUME NEW x \in DOMAIN cache', Outdated(cache[x], x)'
        PROVE  x \in strays' \/ \E w \in Writer : x \in Outstanding(w)'
    <2>1. CASE x = k
      BY <1>3, <1>4, <2>1 DEF Fill, PutEntry
    <2>2. CASE x # k
      <3>1. x \in DOMAIN cache /\ cache'[x] = cache[x]
        BY <1>4, <2>2 DEF Fill, PutEntry
      <3>2. x \in strays \/ \E w \in Writer : x \in Outstanding(w)
        BY <1>3, <1>4, <3>1 DEF IInv, StaleEntriesExplained
      <3>3. \A w \in Writer : Outstanding(w)' = Outstanding(w)
        BY <1>1 DEF Outstanding, tableVars, writerVars
      <3> QED
        BY <2>2, <3>2, <3>3 DEF Fill, PutEntry
    <2> QED
      BY <2>1, <2>2
  <1>5. \A w \in Writer : Tidy(w)'
    BY <1>1 DEF IInv, Tidy, writerVars
  <1> QED
    BY <1>2, <1>4, <1>5 DEF IInv, StaleEntriesExplained

\* An entry that expires needs no cause any more.
LEMMA ExpireKeeps ==
    ASSUME IInv, NEW k \in Key, Expire(k)
    PROVE  IInv'
  <1>1. UNCHANGED <<tableVars, readerVars, writerVars>>
    BY DEF Expire
  <1>2. TypeOK'
    BY <1>1 DEF IInv, TypeOK, Expire, Drop, tableVars, readerVars, writerVars, Presentable
  <1>3. StaleEntriesExplained'
    <2>1. \A c, x : Outdated(c, x)' <=> Outdated(c, x)
      BY <1>1, OutdatedKept DEF tableVars
    <2>2. \A w \in Writer : Outstanding(w)' = Outstanding(w)
      BY <1>1 DEF Outstanding, tableVars, writerVars
    <2> QED
      BY <2>1, <2>2 DEF IInv, StaleEntriesExplained, Expire, Drop
  <1>4. \A w \in Writer : Tidy(w)'
    BY <1>1 DEF IInv, Tidy, writerVars
  <1> QED
    BY <1>2, <1>3, <1>4 DEF IInv

\* Writes of stock and category names outdate nothing in the sense of Outdated.
LEMMA SilentKeeps ==
    ASSUME IInv, NEW S \in SUBSET Row, SilentWrite(S)
    PROVE  IInv'
  <1>1. UNCHANGED <<shelf, edit, cache, readerVars, writerVars, strays>>
    BY DEF SilentWrite
  <1>2. TypeOK'
    <2>1. silent' \in [Row -> 0..MaxSilent]
      BY BoundsAssumption DEF IInv, TypeOK, SilentWrite
    <2> QED
      BY <1>1, <2>1 DEF IInv, TypeOK, readerVars, writerVars, Presentable
  <1>3. StaleEntriesExplained'
    <2>1. \A c, x : Outdated(c, x)' <=> Outdated(c, x)
      BY <1>1, OutdatedKept
    <2>2. \A w \in Writer : Outstanding(w)' = Outstanding(w)
      BY <1>1 DEF Outstanding, writerVars
    <2> QED
      BY <1>1, <2>1, <2>2 DEF IInv, StaleEntriesExplained
  <1>4. \A w \in Writer : Tidy(w)'
    BY <1>1 DEF IInv, Tidy, writerVars
  <1> QED
    BY <1>2, <1>3, <1>4 DEF IInv

-----------------------------------------------------------------------------
(* The writers *)

\* The types, action by action.
LEMMA WriterTypes ==
    ASSUME IInv, NEW w \in Writer, Write(w) \/ WriteFails(w)
    PROVE  TypeOK'
  <1>0. TypeOK /\ Tidy(w)
    BY DEF IInv
  <1> USE DEF tableVars, readerVars, writerVars, Presentable
  <1>1. ASSUME NEW r \in Row, Create(w, r) PROVE TypeOK'
    BY <1>0, <1>1 DEF TypeOK, Create, StartInvalidation, Parts
  <1>2. ASSUME NEW i \in Id, BeginUpdate(w, i) PROVE TypeOK'
    BY <1>0, <1>2 DEF TypeOK, BeginUpdate
  <1>3. ASSUME NEW i \in Id, SoftDelete(w, i) PROVE TypeOK'
    BY <1>0, <1>3 DEF TypeOK, SoftDelete, StartInvalidation, OtherSpellings, Key, Parts
  <1>4. CASE UpdateRow(w)
    <2>1. target[w] \in Id /\ RowOf[target[w]] \in Row
      BY <1>0, <1>4, RowOfAssumption DEF Tidy, UpdateRow
    <2>2. edit' \in [Row -> 0..MaxEdits]
      BY <1>0, <1>4, <2>1, BoundsAssumption DEF TypeOK, UpdateRow
    <2> QED
      BY <1>0, <1>4, <2>2 DEF TypeOK, UpdateRow, OtherSpellings, Key
  <1>5. CASE Reread(w)
    BY <1>0, <1>5 DEF TypeOK, Reread, StartInvalidation
  <1>6. CASE DelDetail(w)
    BY <1>0, <1>6 DEF TypeOK, DelDetail, Drop, EndInvalidation
  <1>7. ASSUME NEW q \in Query, Scan(w, q) PROVE TypeOK'
    BY <1>0, <1>7 DEF TypeOK, Scan
  <1>8. CASE DelLists(w)
    BY <1>0, <1>8 DEF TypeOK, DelLists, Drop, EndInvalidation
  <1>9. ASSUME NEW part \in Parts, InvalidationFails(w, part) PROVE TypeOK'
    <2>1. strays' \subseteq Key
      BY <1>0, <1>9 DEF TypeOK, InvalidationFails
    <2>2. UNCHANGED <<tableVars, cache, readerVars>>
      BY <1>9 DEF InvalidationFails
    <2>3. /\ at' \in [Writer -> {"idle", "write", "reread", "invalidate"}]
          /\ target' \in [Writer -> Id \cup {NoKey}]
          /\ todo' \in [Writer -> SUBSET Parts]
      BY <1>0, <1>9 DEF TypeOK, InvalidationFails, EndInvalidation
    <2>4. unscanned' \in [Writer -> SUBSET Query] /\ found' \in [Writer -> SUBSET Query]
      BY <1>0, <1>9 DEF TypeOK, InvalidationFails
    <2> QED
      BY <1>0, <2>1, <2>2, <2>3, <2>4 DEF TypeOK
  <1>10. CASE WriterStops(w)
    BY <1>0, <1>10 DEF TypeOK, WriterStops
  <1> QED
    BY <1>1, <1>2, <1>3, <1>4, <1>5, <1>6, <1>7, <1>8, <1>9, <1>10
       DEF Write, WriteFails

\* A writer starts and ends its invalidations as a whole.
LEMMA WriterTidy ==
    ASSUME IInv, NEW w \in Writer, Write(w) \/ WriteFails(w)
    PROVE  \A v \in Writer : Tidy(v)'
  <1>0. TypeOK /\ \A v \in Writer : Tidy(v)
    BY DEF IInv
  <1> USE <1>0 DEF TypeOK, Tidy, tableVars, readerVars, writerVars, Parts
  <1>1. ASSUME NEW r \in Row, Create(w, r) PROVE \A v \in Writer : Tidy(v)'
    BY <1>1 DEF Create, StartInvalidation
  <1>2. ASSUME NEW i \in Id, BeginUpdate(w, i) PROVE \A v \in Writer : Tidy(v)'
    BY <1>2 DEF BeginUpdate
  <1>3. ASSUME NEW i \in Id, SoftDelete(w, i) PROVE \A v \in Writer : Tidy(v)'
    BY <1>3 DEF SoftDelete, StartInvalidation
  <1>4. CASE UpdateRow(w)
    BY <1>4 DEF UpdateRow
  <1>5. CASE Reread(w)
    <2>1. todo[w] = {} /\ target[w] \in Id
      BY <1>5 DEF Reread
    <2>2. CASE shelf[RowOf[target[w]]] = "listed"
      <3>1. /\ at' = [at EXCEPT ![w] = "invalidate"]
            /\ todo' = [todo EXCEPT ![w] = Parts]
            /\ target' = target
        BY <1>5, <2>2 DEF Reread, StartInvalidation
      <3> QED
        BY <2>1, <3>1
    <2>3. CASE shelf[RowOf[target[w]]] # "listed"
      BY <1>5, <2>1, <2>3 DEF Reread
    <2> QED
      BY <2>2, <2>3
  <1>6. CASE DelDetail(w)
    BY <1>6 DEF DelDetail, EndInvalidation
  <1>7. ASSUME NEW q \in Query, Scan(w, q) PROVE \A v \in Writer : Tidy(v)'
    BY <1>7 DEF Scan
  <1>8. CASE DelLists(w)
    BY <1>8 DEF DelLists, EndInvalidation
  <1>9. ASSUME NEW part \in Parts, InvalidationFails(w, part)
        PROVE  \A v \in Writer : Tidy(v)'
    BY <1>9 DEF InvalidationFails, EndInvalidation
  <1>10. CASE WriterStops(w)
    BY <1>10 DEF WriterStops
  <1> QED
    BY <1>1, <1>2, <1>3, <1>4, <1>5, <1>6, <1>7, <1>8, <1>9, <1>10
       DEF Write, WriteFails

\* A writer's step leaves the other writers alone.
LEMMA OthersUntouched ==
    ASSUME IInv, NEW w \in Writer, Write(w) \/ WriteFails(w),
           NEW v \in Writer, v # w
    PROVE  /\ at'[v] = at[v] /\ target'[v] = target[v] /\ todo'[v] = todo[v]
           /\ unscanned'[v] = unscanned[v] /\ found'[v] = found[v]
  <1> USE DEF IInv, TypeOK, writerVars
  <1>1. CASE \E r \in Row : Create(w, r)
    BY <1>1 DEF Create, StartInvalidation
  <1>2. CASE \E i \in Id : BeginUpdate(w, i) \/ SoftDelete(w, i)
    BY <1>2 DEF BeginUpdate, SoftDelete, StartInvalidation
  <1>3. CASE UpdateRow(w) \/ Reread(w)
    BY <1>3 DEF UpdateRow, Reread, StartInvalidation
  <1>4. CASE DelDetail(w) \/ DelLists(w)
    BY <1>4 DEF DelDetail, DelLists, EndInvalidation
  <1>5. CASE \E q \in Query : Scan(w, q)
    BY <1>5 DEF Scan
  <1>6. CASE WriteFails(w)
    BY <1>6 DEF WriteFails, InvalidationFails, WriterStops, EndInvalidation
  <1> QED
    BY <1>1, <1>2, <1>3, <1>4, <1>5, <1>6 DEF Write

\* What they have to delete can change with the shelf only: an updater of a row
\* that is removed owes nothing any more.
LEMMA OthersOwe ==
    ASSUME IInv, NEW w \in Writer, Write(w) \/ WriteFails(w),
           NEW v \in Writer, v # w,
           NEW k \in Outstanding(v),
           \/ shelf'[RowOf[target[v]]] = shelf[RowOf[target[v]]]
           \/ at[v] # "reread"
    PROVE  k \in Outstanding(v)'
  BY OthersUntouched DEF Outstanding

\* A writer that has not written yet owes nothing.
LEMMA NothingOutstanding ==
    ASSUME NEW w \in Writer, Tidy(w), at[w] \in {"idle", "write"}
    PROVE  Outstanding(w) = {}
  BY DEF Tidy, Outstanding

\* INSERT outdates pages only, which the writer has yet to scan.
LEMMA CreateExplained ==
    ASSUME IInv, NEW w \in Writer, NEW r \in Row, Create(w, r)
    PROVE  StaleEntriesExplained'
  <1>0. TypeOK /\ StaleEntriesExplained /\ Tidy(w)
    BY DEF IInv
  <1>1. SUFFICES ASSUME NEW k \in DOMAIN cache, k \in Key, Outdated(cache[k], k)'
                 PROVE  k \in strays' \/ \E v \in Writer : k \in Outstanding(v)'
    BY <1>0 DEF StaleEntriesExplained, Create, TypeOK
  <1>2. CASE k \in Query
    <2>1. todo'[w] = {"lists"} /\ unscanned'[w] = Query
      BY <1>0 DEF Create, StartInvalidation, TypeOK
    <2>2. k \in Outstanding(w)'
      BY <1>1, <1>2, <2>1 DEF Outstanding
    <2> QED
      BY <2>2
  <1>3. CASE k \in Id
    <2>1. RowsOf(k) = {RowOf[k]} /\ RowOf[k] \in Row
      BY <1>3, RowOfAssumption DEF RowsOf
    <2>2. Outdated(cache[k], k)
      <3>1. CASE RowOf[k] = r
        BY <1>0, <1>1, <1>3, <2>1, <3>1 DEF TypeOK, Presentable, Create, Outdated, View
      <3>2. CASE RowOf[k] # r
        BY <1>0, <1>1, <2>1, <3>2 DEF TypeOK, Create, Outdated, View, RowsOf
      <3> QED
        BY <3>1, <3>2
    <2>3. k \in strays \/ \E v \in Writer : k \in Outstanding(v)
      BY <1>0, <2>2 DEF StaleEntriesExplained
    <2>4. ASSUME NEW v \in Writer, k \in Outstanding(v) PROVE k \in Outstanding(v)'
      <3>1. v # w
        BY <1>0, <2>4, NothingOutstanding DEF Create
      <3>2. Write(w)
        BY DEF Write
      <3>3. CASE at[v] = "reread"
        <4>1. todo[v] = {} /\ target[v] \in Id
          BY <3>3 DEF IInv, Tidy
        <4>2. shelf[RowOf[target[v]]] = "listed"
          BY <2>4, <4>1 DEF Outstanding
        <4>3. shelf'[RowOf[target[v]]] = shelf[RowOf[target[v]]]
          BY <1>0, <4>1, <4>2, RowOfAssumption DEF TypeOK, Create
        <4> QED
          BY <2>4, <3>1, <3>2, <4>3, OthersOwe
      <3>4. CASE at[v] # "reread"
        BY <2>4, <3>1, <3>2, <3>4, OthersOwe
      <3> QED
        BY <3>3, <3>4
    <2> QED
      BY <2>3, <2>4 DEF Create
  <1> QED
    BY <1>1, <1>2, <1>3 DEF Key

\* UPDATE outdates pages and details of its row: the writer deletes the pages
\* and one spelling once it has re-read the row; the others are strays.
LEMMA UpdateExplained ==
    ASSUME IInv, NEW w \in Writer, UpdateRow(w)
    PROVE  StaleEntriesExplained'
  <1> DEFINE i == target[w]
  <1>0. TypeOK /\ StaleEntriesExplained /\ Tidy(w) /\ i \in Id /\ Write(w)
    BY DEF IInv, Tidy, UpdateRow, Write
  <1>1. SUFFICES ASSUME NEW k \in DOMAIN cache, k \in Key, Outdated(cache[k], k)'
                 PROVE  k \in strays' \/ \E v \in Writer : k \in Outstanding(v)'
    BY <1>0 DEF StaleEntriesExplained, UpdateRow, TypeOK
  <1>2. CASE Outdated(cache[k], k)
    <2>1. k \in strays \/ \E v \in Writer : k \in Outstanding(v)
      BY <1>0, <1>2 DEF StaleEntriesExplained
    <2>2. \A v \in Writer : k \in Outstanding(v) => v # w
      BY <1>0, NothingOutstanding DEF UpdateRow
    <2>3. \A v \in Writer : k \in Outstanding(v) => k \in Outstanding(v)'
      BY <1>0, <2>2, OthersOwe DEF UpdateRow
    <2> QED
      BY <2>1, <2>3 DEF UpdateRow
  <1>3. CASE ~Outdated(cache[k], k)
    <2>1. PICK r \in RowsOf(k) : \/ cache[k][r].shown # View(r)'.shown
                                 \/ cache[k][r].edit # View(r)'.edit
      BY <1>1 DEF Outdated, RowsOf, UpdateRow
    <2>2. r \in Row
      BY <2>1, RowOfAssumption DEF RowsOf
    <2>3. View(r)' # View(r)
      BY <1>3, <2>1 DEF Outdated
    <2>4. r = RowOf[i] /\ shelf[r] = "listed"
      BY <1>0, <2>2, <2>3 DEF UpdateRow, View, TypeOK
    <2>5. CASE k \in Query \/ k = i
      <3>1. at'[w] = "reread" /\ target'[w] = i /\ shelf' = shelf
        BY <1>0 DEF UpdateRow, TypeOK
      <3>2. k \in Outstanding(w)'
        BY <1>1, <2>4, <2>5, <3>1 DEF Outstanding
      <3> QED
        BY <3>2
    <2>6. CASE k \in Id /\ k # i
      BY <2>1, <2>4, <2>6 DEF UpdateRow, OtherSpellings, RowsOf
    <2> QED
      BY <1>1, <2>5, <2>6 DEF Key
  <1> QED
    BY <1>2, <1>3

\* The same for the UPDATE that removes a row, which has no row to re-read.
LEMMA SoftDeleteExplained ==
    ASSUME IInv, NEW w \in Writer, NEW i \in Id, SoftDelete(w, i)
    PROVE  StaleEntriesExplained'
  <1>0. TypeOK /\ StaleEntriesExplained /\ Tidy(w) /\ Write(w)
    BY DEF IInv, Write
  <1>1. SUFFICES ASSUME NEW k \in DOMAIN cache, k \in Key, Outdated(cache[k], k)'
                 PROVE  k \in strays' \/ \E v \in Writer : k \in Outstanding(v)'
    BY <1>0 DEF StaleEntriesExplained, SoftDelete, TypeOK
  <1>2. CASE k \in Query \/ k = i
    <2>1. todo'[w] = Parts /\ unscanned'[w] = Query /\ target'[w] = i
      BY <1>0 DEF SoftDelete, StartInvalidation, TypeOK
    <2>2. k \in Outstanding(w)'
      BY <1>1, <1>2, <2>1 DEF Outstanding, Parts
    <2> QED
      BY <2>2
  <1>3. CASE k \in Id /\ k # i /\ RowOf[k] = RowOf[i]
    BY <1>3 DEF SoftDelete, OtherSpellings
  <1>4. CASE k \in Id \ Query /\ k # i /\ RowOf[k] # RowOf[i]
    <2>1. shelf'[RowOf[k]] = shelf[RowOf[k]] /\ edit' = edit
      BY <1>0, <1>4, RowOfAssumption DEF SoftDelete, TypeOK
    <2>2. Outdated(cache[k], k)
      BY <1>1, <1>4, <2>1 DEF Outdated, View, RowsOf, SoftDelete
    <2>3. k \in strays \/ \E v \in Writer : k \in Outstanding(v)
      BY <1>0, <2>2 DEF StaleEntriesExplained
    <2>4. ASSUME NEW v \in Writer, k \in Outstanding(v) PROVE k \in Outstanding(v)'
      <3>1. v # w
        BY <1>0, <2>4, NothingOutstanding DEF SoftDelete
      <3>2. CASE at[v] = "reread"
        <4>1. todo[v] = {}
          BY <3>2 DEF IInv, Tidy
        <4>2. k = target[v]
          BY <1>4, <2>4, <4>1 DEF Outstanding
        <4> QED
          BY <1>0, <2>1, <2>4, <3>1, <4>2, OthersOwe
      <3>3. CASE at[v] # "reread"
        BY <1>0, <2>4, <3>1, <3>3, OthersOwe
      <3> QED
        BY <3>2, <3>3
    <2> QED
      BY <2>3, <2>4 DEF SoftDelete
  <1> QED
    BY <1>1, <1>2, <1>3, <1>4 DEF Key

\* The other steps of a writer outdate nothing, and what it owes it then still
\* owes, or it has deleted it, or it has become a stray.
LEMMA InvalidationExplained ==
    ASSUME IInv, NEW w \in Writer,
           \/ \E i \in Id : BeginUpdate(w, i)
           \/ Reread(w)
           \/ DelDetail(w)
           \/ \E q \in Query : Scan(w, q)
           \/ DelLists(w)
           \/ WriteFails(w)
    PROVE  StaleEntriesExplained'
  <1>0. TypeOK /\ StaleEntriesExplained /\ Tidy(w) /\ (Write(w) \/ WriteFails(w))
    BY DEF IInv, Write
  <1>1. UNCHANGED tableVars
    BY DEF BeginUpdate, Reread, DelDetail, Scan, DelLists, WriteFails,
           InvalidationFails, WriterStops
  <1>2. \A k \in DOMAIN cache' : k \in DOMAIN cache /\ cache'[k] = cache[k]
    BY DEF BeginUpdate, Reread, DelDetail, Scan, DelLists, WriteFails,
           InvalidationFails, WriterStops, Drop
  <1>3. SUFFICES ASSUME NEW k \in DOMAIN cache', k \in DOMAIN cache, k \in Key,
                        Outdated(cache[k], k)
                 PROVE  k \in strays' \/ \E v \in Writer : k \in Outstanding(v)'
    BY <1>0, <1>1, <1>2, OutdatedKept DEF StaleEntriesExplained, TypeOK, tableVars
  <1>4. CASE k \in strays
    BY <1>4, <1>3 DEF BeginUpdate, Reread, DelDetail, Scan, DelLists, WriteFails,
           InvalidationFails, WriterStops, Drop
  <1>5. ASSUME NEW v \in Writer, v # w, k \in Outstanding(v)
        PROVE  k \in Outstanding(v)'
    BY <1>0, <1>1, <1>5, OthersOwe DEF tableVars
  <1>6. ASSUME k \in Outstanding(w) PROVE k \in strays' \/ k \in Outstanding(w)'
    <2> USE <1>0 DEF TypeOK
    <2>1. CASE \E i \in Id : BeginUpdate(w, i)
      BY <1>6, <2>1, NothingOutstanding DEF BeginUpdate
    <2>2. CASE Reread(w)
      <3>1. todo[w] = {}
        BY <2>2 DEF Reread, Tidy
      <3>2. shelf[RowOf[target[w]]] = "listed" /\ k \in Query \cup {target[w]}
        BY <1>6, <3>1 DEF Outstanding
      <3>3. todo'[w] = Parts /\ unscanned'[w] = Query /\ target'[w] = target[w]
        BY <2>2, <3>2 DEF Reread, StartInvalidation
      <3> QED
        BY <1>3, <3>2, <3>3 DEF Outstanding, Parts
    <2>3. CASE DelDetail(w)
      <3>1. k # target[w] /\ at[w] = "invalidate"
        BY <1>3, <2>3 DEF DelDetail, Drop, Tidy
      <3>2. "lists" \in todo[w] /\ k \in unscanned[w] \cup found[w]
        BY <1>6, <3>1 DEF Outstanding
      <3>3. "lists" \in todo'[w] /\ unscanned' = unscanned /\ found' = found
        BY <2>3, <3>2 DEF DelDetail, EndInvalidation
      <3> QED
        BY <1>3, <3>2, <3>3 DEF Outstanding
    <2>4. CASE \E q \in Query : Scan(w, q)
      BY <1>3, <1>6, <2>4, <1>1 DEF Scan, Outstanding, tableVars
    <2>5. CASE DelLists(w)
      <3>1. k \notin unscanned[w] \cup found[w] /\ at[w] = "invalidate"
        BY <1>3, <2>5 DEF DelLists, Drop, Tidy
      <3>2. "detail" \in todo[w] /\ k = target[w]
        BY <1>6, <3>1 DEF Outstanding
      <3>3. "detail" \in todo'[w] /\ target'[w] = target[w]
        BY <2>5, <3>2 DEF DelLists, EndInvalidation
      <3> QED
        BY <1>3, <3>2, <3>3 DEF Outstanding
    <2>6. ASSUME NEW part \in Parts, InvalidationFails(w, part)
          PROVE  k \in strays' \/ k \in Outstanding(w)'
      <3>1. at[w] = "invalidate" /\ part \in todo[w]
        BY <2>6 DEF InvalidationFails, Tidy
      <3>2. CASE (part = "detail" /\ k \in Id) \/ (part = "lists" /\ k \in Query)
        BY <1>3, <1>6, <2>6, <3>2 DEF InvalidationFails
      <3>3. CASE part = "detail" /\ k \notin Id
        <4>1. "lists" \in todo[w] /\ k \in unscanned[w] \cup found[w]
          BY <1>6, <3>1, <3>3 DEF Outstanding, Tidy
        <4>2. "lists" \in todo'[w] /\ unscanned'[w] = unscanned[w] /\ found'[w] = found[w]
          BY <2>6, <3>3, <4>1 DEF InvalidationFails, EndInvalidation
        <4> QED
          BY <1>3, <4>1, <4>2 DEF Outstanding
      <3>4. CASE part = "lists" /\ k \notin Query
        <4>1. "detail" \in todo[w] /\ k = target[w]
          BY <1>6, <3>1, <3>4 DEF Outstanding
        <4>2. "detail" \in todo'[w] /\ target'[w] = target[w]
          BY <2>6, <3>4, <4>1 DEF InvalidationFails, EndInvalidation
        <4> QED
          BY <1>3, <4>1, <4>2 DEF Outstanding
      <3> QED
        BY <2>6, <3>2, <3>3, <3>4 DEF Parts
    <2>7. CASE WriterStops(w)
      BY <1>3, <1>6, <2>7 DEF WriterStops
    <2> QED
      BY <2>1, <2>2, <2>3, <2>4, <2>5, <2>6, <2>7 DEF WriteFails
  <1> QED
    BY <1>0, <1>3, <1>4, <1>5, <1>6 DEF StaleEntriesExplained

LEMMA WriterKeeps ==
    ASSUME IInv, NEW w \in Writer, Write(w) \/ WriteFails(w)
    PROVE  IInv'
  <1>1. TypeOK' /\ \A v \in Writer : Tidy(v)'
    BY WriterTypes, WriterTidy
  <1>2. StaleEntriesExplained'
    BY CreateExplained, UpdateExplained, SoftDeleteExplained, InvalidationExplained
       DEF Write
  <1> QED
    BY <1>1, <1>2 DEF IInv

-----------------------------------------------------------------------------
LEMMA StepInvariant == IInv /\ [Next]_vars => IInv'
  <1> SUFFICES ASSUME IInv, [Next]_vars PROVE IInv'
    OBVIOUS
  <1>1. CASE \E r \in Reader : Read(r) \/ ReadFails(r)
    BY <1>1, ReaderKeeps, FillKeeps DEF Read
  <1>2. CASE \E w \in Writer : Write(w) \/ WriteFails(w)
    BY <1>2, WriterKeeps
  <1>3. CASE \E k \in Key : Expire(k)
    BY <1>3, ExpireKeeps
  <1>4. CASE \E S \in (SUBSET Row) \ {{}} : OrderCommits(S) \/ CategoryChanges(S)
    BY <1>4, SilentKeeps DEF OrderCommits, CategoryChanges
  <1>5. CASE UNCHANGED vars
    <2>1. TypeOK'
      BY <1>5 DEF vars, IInv, TypeOK, Presentable
    <2>2. \A w \in Writer : Tidy(w)' /\ Outstanding(w)' = Outstanding(w)
      BY <1>5 DEF vars, IInv, Tidy, Outstanding
    <2>3. StaleEntriesExplained'
      BY <1>5, <2>2, OutdatedKept DEF vars, IInv, StaleEntriesExplained
    <2> QED
      BY <2>1, <2>2, <2>3 DEF IInv
  <1> QED
    BY <1>1, <1>2, <1>3, <1>4, <1>5 DEF Next, FaultFreeNext

\* The inductive invariant: the ranges, the causes of stale entries, and that a
\* writer has invalidations under way at its last step only.
THEOREM CacheInvariant == Spec => []IInv
  <1> QED
    BY InitInvariant, StepInvariant, PTL DEF Spec

\* Whatever the number of products, of spellings of their ids, of pages, of
\* readers and of administrators: an entry that does not show what has been
\* written is about to be deleted, or was filled from an older read, is under
\* another spelling, or lost its invalidation to a failure.
THEOREM StaleEntriesHaveACause == Spec => []StaleEntriesExplained
  <1>1. IInv => StaleEntriesExplained
    BY DEF IInv
  <1> QED
    BY <1>1, CacheInvariant, PTL
=============================================================================
