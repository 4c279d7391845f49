--------------------------- MODULE OrderTxProofs ---------------------------
(***************************************************************************)
(* Proofs about OrderTx, for every set of requests, products, spellings    *)
(* and carts, and every value of the bounds.                               *)
(***************************************************************************)
EXTENDS OrderTx, FiniteSetTheorems, WellFoundedInduction, TLAPS

-----------------------------------------------------------------------------
(* Sums over finite sets.  The library's induction theorems take a predicate *)
(* as a parameter; here a smallest counterexample does their work.           *)

\* A non-empty set of natural numbers has a least element.
LEMMA LeastElement ==
    ASSUME NEW T, T \subseteq Nat, T # {}
    PROVE  \E m \in T : \A n \in T : ~ (n < m)
  <1>1. PICK m \in T : \A n \in T : ~ (<<n, m>> \in OpToRel(<, Nat))
    BY NatLessThanWellFounded, WFMin
  <1> QED
    BY <1>1 DEF OpToRel

\* Induction over finite sets, without a predicate as parameter: among the
\* sets that fail, one has no smaller one that fails.
LEMMA SmallestSet ==
    ASSUME NEW Bad, Bad # {}, \A s \in Bad : IsFiniteSet(s)
    PROVE  \E s \in Bad : \A u \in Bad : ~ (Cardinality(u) < Cardinality(s))
  <1> DEFINE Sizes == {Cardinality(s) : s \in Bad}
  <1>1. Sizes # {} /\ Sizes \subseteq Nat
    BY FS_CardinalityType
  <1>2. PICK m \in Sizes : \A n \in Sizes : ~ (n < m)
    BY <1>1, LeastElement
  <1> QED
    BY <1>2

Pick(s) == CHOOSE x \in s : TRUE

LEMMA PickIsIn == ASSUME NEW s, s # {} PROVE Pick(s) \in s
  BY DEF Pick

\* g sums f over the subsets in D, as the fold of Functions.tla does it.
SumsOver(g, f, D) ==
    g = [s \in D |-> IF s = {} THEN 0 ELSE f[Pick(s)] + g[s \ {Pick(s)}]]

Sums(g, f, S) == SumsOver(g, f, SUBSET S)

LEMMA SumIsChosen ==
    ASSUME NEW f, NEW S
    PROVE  SumFunctionOnSet(f, S) = (CHOOSE g : Sums(g, f, S))[S]
  BY DEF SumFunctionOnSet, FoldFunctionOnSet, MapThenFoldSet, Sums, SumsOver, Pick

\* Such a function exists, by induction on the size of the sets.
LEMMA SumExists ==
    ASSUME NEW f, NEW S, IsFiniteSet(S)
    PROVE  \E g : Sums(g, f, S)
  <1> DEFINE UpTo(n) == {s \in SUBSET S : Cardinality(s) <= n}
             Bad == {n \in Nat : ~ \E g : SumsOver(g, f, UpTo(n))}
  <1>1. \A s \in SUBSET S : IsFiniteSet(s) /\ Cardinality(s) \in Nat
                            /\ Cardinality(s) <= Cardinality(S)
    BY FS_Subset, FS_CardinalityType
  <1>2. Cardinality(S) \in Nat /\ UpTo(Cardinality(S)) = SUBSET S
    BY <1>1, FS_CardinalityType
  <1>3. CASE Bad = {}
    BY <1>2, <1>3 DEF Sums
  <1>4. CASE Bad # {}
    <2>1. PICK n \in Bad : \A m \in Bad : ~ (m < n)
      BY <1>4, LeastElement
    <2>2. CASE n = 0
      <3>1. UpTo(0) = {{}}
        BY <1>1, FS_EmptySet
      <3>2. SumsOver([s \in UpTo(0) |-> 0], f, UpTo(0))
        BY <3>1 DEF SumsOver
      <3> QED
        BY <2>1, <2>2, <3>2
    <2>3. CASE n # 0
      <3>1. n - 1 \in Nat /\ n - 1 \notin Bad
        <4>1. n \in Nat
          OBVIOUS
        <4> HIDE DEF Bad
        <4> QED
          BY <2>1, <2>3, <4>1
      <3>2. PICK g : SumsOver(g, f, UpTo(n - 1))
        BY <3>1
      <3> DEFINE h == [s \in UpTo(n) |->
                         IF s = {} THEN 0 ELSE f[Pick(s)] + g[s \ {Pick(s)}]]
      <3>3. ASSUME NEW s \in UpTo(n), s # {}
            PROVE  s \ {Pick(s)} \in UpTo(n - 1)
        <4>1. Pick(s) \in s
          BY <3>3, PickIsIn
        <4>2. Cardinality(s \ {Pick(s)}) = Cardinality(s) - 1
          BY <1>1, <4>1, FS_RemoveElement
        <4> QED
          BY <1>1, <4>2, <2>1
      <3>4. ASSUME NEW s \in UpTo(n - 1)
            PROVE  s \in UpTo(n) /\ h[s] = g[s]
        <4>1. s \in UpTo(n)
          BY <1>1, <2>1
        <4>2. g[s] = IF s = {} THEN 0 ELSE f[Pick(s)] + g[s \ {Pick(s)}]
          BY <3>2, Zenon DEF Sums, SumsOver
        <4> QED
          BY <4>1, <4>2
      <3>5. \A s \in UpTo(n) : h[s] = IF s = {} THEN 0 ELSE f[Pick(s)] + h[s \ {Pick(s)}]
        BY <3>3, <3>4
      <3>6. SumsOver(h, f, UpTo(n))
        <4> HIDE DEF UpTo
        <4> QED
          BY <3>5 DEF SumsOver
      <3> QED
        BY <2>1, <3>6
    <2> QED
      BY <2>2, <2>3
  <1> QED
    BY <1>3, <1>4

\* On the subsets of both, two such functions agree.
LEMMA SumsAgree ==
    ASSUME NEW f, NEW S, NEW g, Sums(g, f, S),
           NEW T \in SUBSET S, IsFiniteSet(T), NEW h, Sums(h, f, T)
    PROVE  g[T] = h[T]
  <1> DEFINE Bad == {s \in SUBSET T : g[s] # h[s]}
  <1>1. \A s \in SUBSET T : IsFiniteSet(s) /\ Cardinality(s) \in Nat
    BY FS_Subset, FS_CardinalityType
  <1>2. CASE Bad # {}
    <2>1. PICK s \in Bad : \A u \in Bad : ~ (Cardinality(u) < Cardinality(s))
      BY <1>1, <1>2, SmallestSet
    <2>2. /\ g[s] = IF s = {} THEN 0 ELSE f[Pick(s)] + g[s \ {Pick(s)}]
          /\ h[s] = IF s = {} THEN 0 ELSE f[Pick(s)] + h[s \ {Pick(s)}]
      <3>1. s \in SUBSET S /\ s \in SUBSET T
        OBVIOUS
      <3> QED
        BY <3>1, Zenon DEF Sums, SumsOver
    <2>3. s # {}
      BY <2>1, <2>2
    <2>4. Cardinality(s \ {Pick(s)}) < Cardinality(s)
      BY <1>1, <2>3, PickIsIn, FS_RemoveElement
    <2>5. s \ {Pick(s)} \notin Bad
      BY <2>1, <2>4
    <2>6. g[s \ {Pick(s)}] = h[s \ {Pick(s)}]
      BY <2>5
    <2> QED
      BY <2>1, <2>2, <2>6
  <1> QED
    BY <1>2

LEMMA SumIsOfOne ==
    ASSUME NEW f, NEW S, IsFiniteSet(S)
    PROVE  \E g : Sums(g, f, S) /\ SumFunctionOnSet(f, S) = g[S]
  <1>1. Sums(CHOOSE g : Sums(g, f, S), f, S)
    BY SumExists
  <1> QED
    BY <1>1, SumIsChosen

\* The equation of the fold.
LEMMA SumEquation ==
    ASSUME NEW f, NEW S, IsFiniteSet(S)
    PROVE  /\ S = {} => SumFunctionOnSet(f, S) = 0
           /\ S # {} => SumFunctionOnSet(f, S)
                            = f[Pick(S)] + SumFunctionOnSet(f, S \ {Pick(S)})
  <1>1. PICK g : Sums(g, f, S) /\ SumFunctionOnSet(f, S) = g[S]
    BY SumIsOfOne
  <1>2. g[S] = IF S = {} THEN 0 ELSE f[Pick(S)] + g[S \ {Pick(S)}]
    BY <1>1, Zenon DEF Sums, SumsOver
  <1>3. PICK R : R = S \ {Pick(S)}
    OBVIOUS
  <1>4. IsFiniteSet(R) /\ R \in SUBSET S
    BY <1>3, FS_Subset
  <1>5. PICK h : Sums(h, f, R) /\ SumFunctionOnSet(f, R) = h[R]
    BY <1>4, SumIsOfOne
  <1>6. g[R] = h[R]
    BY <1>1, <1>4, <1>5, SumsAgree
  <1> QED
    BY <1>1, <1>2, <1>3, <1>5, <1>6

LEMMA SumType ==
    ASSUME NEW f, NEW S, IsFiniteSet(S)
    PROVE  /\ (\A x \in S : f[x] \in Int) => SumFunctionOnSet(f, S) \in Int
           /\ (\A x \in S : f[x] \in Nat) => SumFunctionOnSet(f, S) \in Nat
  <1>1. ASSUME NEW V, V \in {Nat, Int}, \A x \in S : f[x] \in V
        PROVE  SumFunctionOnSet(f, S) \in V
    <2> DEFINE Bad == {s \in SUBSET S : SumFunctionOnSet(f, s) \notin V}
    <2>1. \A s \in SUBSET S : IsFiniteSet(s) /\ Cardinality(s) \in Nat
      BY FS_Subset, FS_CardinalityType
    <2>2. CASE Bad # {}
      <3>1. PICK s \in Bad : \A u \in Bad : ~ (Cardinality(u) < Cardinality(s))
        BY <2>1, <2>2, SmallestSet
      <3>2. CASE s # {}
        <4>1. Pick(s) \in s /\ Cardinality(s \ {Pick(s)}) < Cardinality(s)
          BY <2>1, <3>2, PickIsIn, FS_RemoveElement
        <4>2. SumFunctionOnSet(f, s \ {Pick(s)}) \in V
          BY <3>1, <4>1
        <4>3. f[Pick(s)] \in V
          BY <1>1, <4>1
        <4> QED
          BY <1>1, <2>1, <3>1, <3>2, <4>2, <4>3, SumEquation
      <3>3. CASE s = {}
        <4>1. SumFunctionOnSet(f, s) = 0
          BY <2>1, <3>1, <3>3, SumEquation
        <4>2. 0 \in V
          BY <1>1
        <4> QED
          BY <3>1, <4>1, <4>2
      <3> QED
        BY <3>2, <3>3
    <2> QED
      BY <2>2
  <1> QED
    BY <1>1

\* Any element may be taken out first.
LEMMA SumRemove ==
    ASSUME NEW f, NEW S, IsFiniteSet(S), \A y \in S : f[y] \in Int, NEW x \in S
    PROVE  SumFunctionOnSet(f, S) = f[x] + SumFunctionOnSet(f, S \ {x})
  <1> DEFINE Bad == {s \in SUBSET S : \E y \in s : SumFunctionOnSet(f, s)
                                            # f[y] + SumFunctionOnSet(f, s \ {y})}
  <1>1. \A s \in SUBSET S : /\ IsFiniteSet(s) /\ Cardinality(s) \in Nat
                            /\ SumFunctionOnSet(f, s) \in Int
    BY FS_Subset, FS_CardinalityType, SumType
  <1>2. CASE Bad # {}
    <2>1. PICK s \in Bad : \A u \in Bad : ~ (Cardinality(u) < Cardinality(s))
      BY <1>1, <1>2, SmallestSet
    <2>2. PICK y \in s : SumFunctionOnSet(f, s) # f[y] + SumFunctionOnSet(f, s \ {y})
      BY <2>1
    <2>3. PICK p : p = Pick(s) /\ p \in s
      BY <2>2, PickIsIn
    <2>4. SumFunctionOnSet(f, s) = f[p] + SumFunctionOnSet(f, s \ {p})
      BY <1>1, <2>1, <2>3, SumEquation
    <2>5. p # y
      BY <2>2, <2>4
    <2>6. ASSUME NEW z \in s
          PROVE  s \ {z} \in SUBSET S /\ s \ {z} \notin Bad
      <3>1. Cardinality(s \ {z}) < Cardinality(s)
        BY <1>1, <2>1, FS_RemoveElement
      <3> QED
        BY <2>1, <3>1
    <2>7. SumFunctionOnSet(f, s \ {p}) = f[y] + SumFunctionOnSet(f, (s \ {p}) \ {y})
      BY <2>2, <2>3, <2>5, <2>6
    <2>8. SumFunctionOnSet(f, s \ {y}) = f[p] + SumFunctionOnSet(f, (s \ {y}) \ {p})
      BY <2>2, <2>3, <2>5, <2>6
    <2>9. PICK n \in Int : /\ n = SumFunctionOnSet(f, (s \ {p}) \ {y})
                           /\ n = SumFunctionOnSet(f, (s \ {y}) \ {p})
      <3>1. (s \ {p}) \ {y} = (s \ {y}) \ {p}
        OBVIOUS
      <3> QED
        BY <1>1, <3>1
    <2>10. f[p] \in Int /\ f[y] \in Int
      BY <2>2, <2>3
    <2>11. f[p] + (f[y] + n) = f[y] + (f[p] + n)
      BY <2>10
    <2> QED
      BY <2>2, <2>4, <2>7, <2>8, <2>9, <2>11
  <1> QED
    BY <1>2

LEMMA SumAdd ==
    ASSUME NEW f, NEW S, IsFiniteSet(S), NEW x, x \notin S,
           \A y \in S \cup {x} : f[y] \in Int
    PROVE  SumFunctionOnSet(f, S \cup {x}) = f[x] + SumFunctionOnSet(f, S)
  <1>1. IsFiniteSet(S \cup {x}) /\ (S \cup {x}) \ {x} = S
    BY FS_AddElement
  <1>2. PICK T : T = S \cup {x}
    OBVIOUS
  <1>3. SumFunctionOnSet(f, T) = f[x] + SumFunctionOnSet(f, T \ {x})
    BY <1>1, <1>2, SumRemove
  <1> QED
    BY <1>1, <1>2, <1>3

\* Only the values on the set matter.
LEMMA SumSame ==
    ASSUME NEW S, IsFiniteSet(S), NEW f, NEW e, \A x \in S : f[x] = e[x]
    PROVE  SumFunctionOnSet(f, S) = SumFunctionOnSet(e, S)
  <1> DEFINE Bad == {s \in SUBSET S : SumFunctionOnSet(f, s) # SumFunctionOnSet(e, s)}
  <1>1. \A s \in SUBSET S : IsFiniteSet(s) /\ Cardinality(s) \in Nat
    BY FS_Subset, FS_CardinalityType
  <1>2. CASE Bad # {}
    <2>1. PICK s \in Bad : \A u \in Bad : ~ (Cardinality(u) < Cardinality(s))
      BY <1>1, <1>2, SmallestSet
    <2>2. CASE s # {}
      <3>1. Pick(s) \in s /\ Cardinality(s \ {Pick(s)}) < Cardinality(s)
        BY <1>1, <2>2, PickIsIn, FS_RemoveElement
      <3>2. SumFunctionOnSet(f, s \ {Pick(s)}) = SumFunctionOnSet(e, s \ {Pick(s)})
        BY <2>1, <3>1
      <3>3. /\ SumFunctionOnSet(f, s) = f[Pick(s)] + SumFunctionOnSet(f, s \ {Pick(s)})
            /\ SumFunctionOnSet(e, s) = e[Pick(s)] + SumFunctionOnSet(e, s \ {Pick(s)})
        BY <1>1, <2>1, <2>2, SumEquation
      <3> QED
        BY <2>1, <3>1, <3>2, <3>3
    <2>3. CASE s = {}
      BY <1>1, <2>1, <2>3, SumEquation
    <2> QED
      BY <2>2, <2>3
  <1> QED
    BY <1>2

\* A part sums to no more than the whole.
LEMMA SumMonotonic ==
    ASSUME NEW f, NEW T, IsFiniteSet(T), \A x \in T : f[x] \in Nat, NEW S \in SUBSET T
    PROVE  SumFunctionOnSet(f, S) <= SumFunctionOnSet(f, T)
  <1> DEFINE Bad == {s \in SUBSET T : /\ S \subseteq s
                                      /\ ~ (SumFunctionOnSet(f, S) <= SumFunctionOnSet(f, s))}
  <1>1. \A s \in SUBSET T : /\ IsFiniteSet(s) /\ Cardinality(s) \in Nat
                            /\ SumFunctionOnSet(f, s) \in Nat
    BY FS_Subset, FS_CardinalityType, SumType
  <1>2. CASE Bad # {}
    <2>1. PICK s \in Bad : \A u \in Bad : ~ (Cardinality(u) < Cardinality(s))
      BY <1>1, <1>2, SmallestSet
    <2>2. PICK x \in s : x \notin S
      <3>1. s # S
        BY <1>1, <2>1
      <3> QED
        BY <2>1, <3>1
    <2>3. Cardinality(s \ {x}) < Cardinality(s)
      BY <1>1, <2>1, FS_RemoveElement
    <2>4. SumFunctionOnSet(f, S) <= SumFunctionOnSet(f, s \ {x})
      BY <2>1, <2>2, <2>3
    <2>5. SumFunctionOnSet(f, s) = f[x] + SumFunctionOnSet(f, s \ {x})
      BY <1>1, <2>1, <2>2, SumRemove
    <2> QED
      BY <1>1, <2>1, <2>2, <2>4, <2>5
  <1> QED
    BY <1>2

-----------------------------------------------------------------------------
(* Lemmas about the helpers *)

\* A spelling still to process is one of the cart's, with a positive quantity.
LEMMA CartQuantity ==
    ASSUME TypeOK, NEW t \in Txn, NEW i \in todo[t]
    PROVE  /\ i \in Id
           /\ cart[t] \in Carts
           /\ cart[t][i] \in Nat \ {0}
  <1>1. i \in Id /\ i \in DOMAIN cart[t]
    BY DEF TypeOK
  <1>2. cart[t] \in Carts
    BY <1>1 DEF TypeOK, NoCart
  <1> QED
    BY <1>1, <1>2, CartsAssumption

\* The version of a row that a transaction reads is a legal stock.
LEMMA VisibleType ==
    ASSUME TypeOK, NEW t \in Txn, NEW r \in Row
    PROVE  Visible(t, r) \in Stock
  BY DEF TypeOK, Visible

-----------------------------------------------------------------------------
(* Type correctness *)

LEMMA InitTypeOK == Init => TypeOK
  BY BoundsAssumption, NoTxnAssumption
     DEF Init, TypeOK, NoSight, NoItems, NoCart, Stock

LEMMA StepTypeOK ==
    ASSUME IInv, NEW t \in Txn, Step(t)
    PROVE  TypeOK'
  <1> USE DEF TypeOK, InTransaction, Placed, requestVars, lockVars,
              productVars, loopVars
  <1>1. ASSUME NEW i \in Id, LockById(t, i)
        PROVE  TypeOK'
    BY <1>1, VisibleType, RowOfAssumption, BoundsAssumption
       DEF IInv, LockById, Stock
  <1>2. ASSUME NEW i \in Id, ProductNotFound(t, i)
        PROVE  TypeOK'
    BY <1>2 DEF IInv, ProductNotFound, Throw
  <1>3. ASSUME NEW i \in Id, InsufficientStock(t, i)
        PROVE  TypeOK'
    BY <1>3 DEF IInv, InsufficientStock, Throw
  <1>4. ASSUME NEW i \in Id, SaveInTransaction(t, i)
        PROVE  TypeOK'
    <2>1. i \in todo[t] /\ cart[t][i] \in Nat \ {0}
      BY <1>4, CartQuantity DEF IInv, SaveInTransaction, IsNext
    <2>2. seen[t].stock - cart[t][i] \in Stock
      BY <1>4, <2>1, BoundsAssumption DEF IInv, SaveInTransaction, EnoughStock, Stock
    <2>3. seen[t].price * cart[t][i] \in Nat
      BY <2>1 DEF IInv
    <2>4. total[t] + seen[t].price * cart[t][i] \in Nat
      BY <2>3 DEF IInv
    <2>5. total' \in [Txn -> Nat]
      BY <1>4, <2>4 DEF IInv, SaveInTransaction, PushLine
    <2>6. /\ items' \in [Txn -> [Row -> Nat]]
          /\ unit' \in [Txn -> [Row -> Nat]]
          /\ written' \in [Txn -> [Row -> Stock]]
      BY <1>4, <2>1, <2>2, RowOfAssumption DEF IInv, SaveInTransaction, PushLine
    <2> QED
      BY <1>4, <2>1, <2>5, <2>6, RowOfAssumption, BoundsAssumption
         DEF IInv, SaveInTransaction, NoSight, Stock
  <1>5. CASE InsertOrder(t)
    BY <1>5 DEF IInv, InsertOrder
  <1>6. CASE TotalOutOfRange(t)
    BY <1>6 DEF IInv, TotalOutOfRange, Throw
  <1>7. CASE DeadlockVictim(t)
    BY <1>7 DEF IInv, DeadlockVictim, Throw
  <1>8. CASE Rollback(t)
    BY <1>8, BoundsAssumption
       DEF IInv, Rollback, EndTransaction, NoSight, NoItems, Stock
  <1>9. CASE Commit(t)
    BY <1>9, VisibleType, BoundsAssumption
       DEF IInv, Commit, CommitEffects, EndTransaction, OrderOf, Order,
           LoopProgress, NoSight, NoItems, JobKinds, Stock
  <1>10. ASSUME NEW k \in JobKinds, Enqueue(t, k)
         PROVE  TypeOK'
    BY <1>10 DEF IInv, Enqueue
  <1>11. CASE Reload(t)
    BY <1>11 DEF IInv, Reload
  <1> QED
    BY <1>1, <1>2, <1>3, <1>4, <1>5, <1>6, <1>7, <1>8, <1>9, <1>10, <1>11
       DEF Step

LEMMA FaultTypeOK ==
    ASSUME IInv, NEW t \in Txn, Fault(t)
    PROVE  TypeOK'
  <1> USE DEF TypeOK, InTransaction, Placed, requestVars, lockVars,
              productVars, loopVars
  <1>1. CASE DbError(t)
    BY <1>1 DEF IInv, DbError, Throw
  <1>2. CASE CommitAckLost(t)
    BY <1>2, VisibleType, BoundsAssumption
       DEF IInv, CommitAckLost, CommitEffects, EndTransaction, OrderOf, Order,
           LoopProgress, NoSight, NoItems, JobKinds, Stock
  <1>3. ASSUME NEW k \in JobKinds, EnqueueFails(t, k)
        PROVE  TypeOK'
    BY <1>3 DEF IInv, EnqueueFails
  <1>4. CASE ReloadFails(t)
    BY <1>4 DEF IInv, ReloadFails
  <1>5. CASE Crash(t)
    BY <1>5, BoundsAssumption
       DEF IInv, Crash, EndTransaction, NoSight, NoItems, Stock
  <1> QED
    BY <1>1, <1>2, <1>3, <1>4, <1>5 DEF Fault, Failure

LEMMA AdminTypeOK ==
    ASSUME IInv, NEW r \in Row, Admin(r)
    PROVE  TypeOK'
  <1> USE DEF TypeOK, requestVars, lockVars
  <1>1. ASSUME NEW s \in Stock, NEW p \in Prices, Update(r, s, p)
        PROVE  TypeOK'
    <2>1. supplied[r] + s - stock[r] \in Int
      BY DEF IInv, Stock
    <2> QED
      BY <1>1, <2>1, BoundsAssumption DEF IInv, Update
  <1>2. CASE SoftDelete(r)
    BY <1>2, BoundsAssumption DEF IInv, SoftDelete
  <1> QED
    BY <1>1, <1>2 DEF Admin

LEMMA NextTypeOK == IInv /\ [Next]_vars => TypeOK'
  <1> SUFFICES ASSUME IInv, [Next]_vars
               PROVE  TypeOK'
    OBVIOUS
  <1>1. ASSUME NEW t \in Txn, NEW c \in Carts, Begin(t, c)
        PROVE  TypeOK'
    BY <1>1, CartsAssumption
       DEF IInv, TypeOK, Begin, InTransaction, lockVars, productVars
  <1>2. CASE UNCHANGED vars
    BY <1>2 DEF IInv, TypeOK, vars
  <1> QED
    BY <1>1, <1>2, StepTypeOK, FaultTypeOK, AdminTypeOK DEF Next

-----------------------------------------------------------------------------
(* The inductive invariant: locks *)

\* Only LockById, and the end of a transaction, touch the locks of t.
LEMMA HoldsLocksInductive ==
    ASSUME IInv, [Next]_vars, NEW u \in Txn
    PROVE  HoldsLocks(u)'
  <1> USE DEF HoldsLocks, InTransaction, Placed, requestVars, lockVars,
              productVars, loopVars
  <1>0. TypeOK /\ HoldsLocks(u)
    BY DEF IInv
  <1>1. ASSUME NEW t \in Txn, NEW c \in Carts, Begin(t, c)
        PROVE  HoldsLocks(u)'
    BY <1>0, <1>1 DEF Begin, TypeOK
  <1>2. ASSUME NEW t \in Txn, Step(t)
        PROVE  HoldsLocks(u)'
    <2>0. HoldsLocks(t)
      BY DEF IInv
    <2>1. ASSUME NEW i \in Id, LockById(t, i)
          PROVE  HoldsLocks(u)'
      BY <1>0, <2>0, <2>1, RowOfAssumption, NoTxnAssumption
         DEF LockById, TypeOK
    <2>2. ASSUME NEW i \in Id, ProductNotFound(t, i) \/ InsufficientStock(t, i)
          PROVE  HoldsLocks(u)'
      BY <1>0, <2>2 DEF ProductNotFound, InsufficientStock, Throw, TypeOK
    <2>3. ASSUME NEW i \in Id, SaveInTransaction(t, i)
          PROVE  HoldsLocks(u)'
      <3>1. owner[RowOf[i]] = t
        BY <2>3 DEF IInv, FreshSight, SaveInTransaction
      <3> QED
        BY <1>0, <2>3, <3>1, RowOfAssumption DEF SaveInTransaction, TypeOK
    <2>4. CASE InsertOrder(t) \/ TotalOutOfRange(t)
      BY <1>0, <2>4 DEF InsertOrder, TotalOutOfRange, Throw, TypeOK
    <2>5. CASE DeadlockVictim(t)
      <3>1. pc[t] = "lock"
        BY <2>5 DEF DeadlockVictim, Cycle, WaitsFor
      <3> QED
        BY <1>0, <2>5, <3>1 DEF DeadlockVictim, Throw, TypeOK
    <2>6. CASE Rollback(t)
      BY <1>0, <2>6, NoTxnAssumption DEF Rollback, EndTransaction, TypeOK
    <2>7. CASE Commit(t)
      BY <1>0, <2>7, NoTxnAssumption
         DEF Commit, CommitEffects, EndTransaction, TypeOK
    <2>8. ASSUME NEW k \in JobKinds, Enqueue(t, k)
          PROVE  HoldsLocks(u)'
      BY <1>0, <2>8 DEF Enqueue, TypeOK
    <2>9. CASE Reload(t)
      BY <1>0, <2>9 DEF Reload, TypeOK
    <2> QED
      BY <1>2, <2>1, <2>2, <2>3, <2>4, <2>5, <2>6, <2>7, <2>8, <2>9 DEF Step
  <1>3. ASSUME NEW t \in Txn, Fault(t)
        PROVE  HoldsLocks(u)'
    <2>1. CASE DbError(t)
      BY <1>0, <2>1 DEF DbError, Throw, TypeOK
    <2>2. CASE CommitAckLost(t)
      BY <1>0, <2>2, NoTxnAssumption
         DEF CommitAckLost, CommitEffects, EndTransaction, TypeOK
    <2>3. ASSUME NEW k \in JobKinds, EnqueueFails(t, k)
          PROVE  HoldsLocks(u)'
      BY <1>0, <2>3 DEF EnqueueFails, TypeOK
    <2>4. CASE ReloadFails(t)
      BY <1>0, <2>4 DEF ReloadFails, TypeOK
    <2>5. CASE Crash(t)
      BY <1>0, <2>5, NoTxnAssumption DEF Crash, EndTransaction, TypeOK
    <2> QED
      BY <1>3, <2>1, <2>2, <2>3, <2>4, <2>5 DEF Fault, Failure
  <1>4. ASSUME NEW r \in Row, Admin(r)
        PROVE  HoldsLocks(u)'
    BY <1>0, <1>4 DEF Admin, Update, SoftDelete
  <1>5. CASE UNCHANGED vars
    BY <1>0, <1>5 DEF vars
  <1> QED
    BY <1>1, <1>2, <1>3, <1>4, <1>5 DEF Next

-----------------------------------------------------------------------------
(* The inductive invariant: the workspace of a transaction *)

\* COMMIT writes the rows its transaction has locked, and no others.
LEMMA CommitKeepsOthers ==
    ASSUME IInv, NEW t \in Txn, NEW r \in Row, owner[r] # t, CommitEffects(t)
    PROVE  stock'[r] = stock[r]
  <1>1. r \notin dirty[t]
    BY DEF IInv, HoldsLocks
  <1> QED
    BY <1>1 DEF IInv, TypeOK, CommitEffects, Visible

\* What a step of somebody else keeps for u: its own variables, its order, its
\* locks and, in the rows it has locked, the committed version.
KeepsFor(u) ==
    /\ pc'[u] = pc[u] /\ cart'[u] = cart[u] /\ todo'[u] = todo[u]
    /\ seen'[u] = seen[u] /\ items'[u] = items[u] /\ unit'[u] = unit[u]
    /\ total'[u] = total[u] /\ outcome'[u] = outcome[u]
    /\ sending'[u] = sending[u]
    /\ dirty'[u] = dirty[u] /\ written'[u] = written[u]
    /\ \A r \in Row : owner[r] = u => /\ owner'[r] = u
                                      /\ stock'[r] = stock[r]
                                      /\ price'[r] = price[r]
                                      /\ listed'[r] = listed[r]
    /\ \A r \in Row : owner'[r] = u => owner[r] = u
    /\ \A o \in orders : o \in orders'
    /\ \A o \in orders' : o.id = u => o \in orders

\* A commit of t keeps everything another request u relies on.
LEMMA CommitKeeps ==
    ASSUME IInv, NEW t \in Txn, NEW u \in Txn, t # u, CommitEffects(t),
           pc'[u] = pc[u], outcome'[u] = outcome[u], sending'[u] = sending[u]
    PROVE  KeepsFor(u)
  <1>0. TypeOK
    BY DEF IInv
  <1>1. ASSUME NEW r \in Row, owner[r] = u
        PROVE  /\ owner'[r] = u /\ stock'[r] = stock[r]
               /\ price'[r] = price[r] /\ listed'[r] = listed[r]
    BY <1>1, CommitKeepsOthers DEF CommitEffects, EndTransaction
  <1>4. \A r \in Row : owner'[r] = u => owner[r] = u
    BY NoTxnAssumption DEF CommitEffects, EndTransaction
  <1>2. /\ cart'[u] = cart[u] /\ todo'[u] = todo[u]
        /\ seen'[u] = seen[u] /\ items'[u] = items[u] /\ unit'[u] = unit[u]
        /\ total'[u] = total[u]
        /\ dirty'[u] = dirty[u] /\ written'[u] = written[u]
    BY <1>0 DEF CommitEffects, EndTransaction, TypeOK
  <1>3. /\ \A o \in orders : o \in orders'
        /\ \A o \in orders' : o.id = u => o \in orders
    BY DEF CommitEffects, OrderOf
  <1> QED
    BY <1>1, <1>2, <1>3, <1>4 DEF KeepsFor

LEMMA OthersKeep ==
    ASSUME IInv, NEW u \in Txn, [Next]_vars,
           ~ (\E c \in Carts : Begin(u, c)), ~ Step(u), ~ Fault(u)
    PROVE  KeepsFor(u)
  <1> USE DEF KeepsFor, requestVars, lockVars, productVars, loopVars
  <1>0. TypeOK
    BY DEF IInv
  <1>1. ASSUME NEW t \in Txn, t # u, NEW c \in Carts, Begin(t, c)
        PROVE  KeepsFor(u)
    BY <1>0, <1>1 DEF Begin, TypeOK
  <1>2. ASSUME NEW t \in Txn, t # u, Step(t)
        PROVE  KeepsFor(u)
    <2>1. ASSUME NEW i \in Id, LockById(t, i)
          PROVE  KeepsFor(u)
      BY <1>0, <1>2, <2>1, RowOfAssumption, NoTxnAssumption
         DEF LockById, TypeOK
    <2>2. ASSUME NEW i \in Id, ProductNotFound(t, i) \/ InsufficientStock(t, i)
          PROVE  KeepsFor(u)
      BY <1>0, <1>2, <2>2 DEF ProductNotFound, InsufficientStock, Throw, TypeOK
    <2>3. ASSUME NEW i \in Id, SaveInTransaction(t, i)
          PROVE  KeepsFor(u)
      BY <1>0, <1>2, <2>3 DEF SaveInTransaction, PushLine, TypeOK
    <2>4. CASE InsertOrder(t) \/ TotalOutOfRange(t) \/ DeadlockVictim(t)
      BY <1>0, <1>2, <2>4
         DEF InsertOrder, TotalOutOfRange, DeadlockVictim, Throw, TypeOK
    <2>5. CASE Rollback(t)
      BY <1>0, <1>2, <2>5, NoTxnAssumption
         DEF Rollback, EndTransaction, TypeOK
    <2>6. CASE Commit(t)
      BY <1>0, <1>2, <2>6, CommitKeeps DEF Commit, CommitEffects, TypeOK
    <2>7. ASSUME NEW k \in JobKinds, Enqueue(t, k)
          PROVE  KeepsFor(u)
      BY <1>0, <1>2, <2>7 DEF Enqueue, TypeOK
    <2>8. CASE Reload(t)
      BY <1>0, <1>2, <2>8 DEF Reload, TypeOK
    <2> QED
      BY <1>2, <2>1, <2>2, <2>3, <2>4, <2>5, <2>6, <2>7, <2>8 DEF Step
  <1>3. ASSUME NEW t \in Txn, t # u, Fault(t)
        PROVE  KeepsFor(u)
    <2>1. CASE DbError(t)
      BY <1>0, <1>3, <2>1 DEF DbError, Throw, TypeOK
    <2>2. CASE CommitAckLost(t)
      BY <1>0, <1>3, <2>2, CommitKeeps DEF CommitAckLost, CommitEffects, TypeOK
    <2>3. ASSUME NEW k \in JobKinds, EnqueueFails(t, k)
          PROVE  KeepsFor(u)
      BY <1>0, <1>3, <2>3 DEF EnqueueFails, TypeOK
    <2>4. CASE ReloadFails(t)
      BY <1>0, <1>3, <2>4 DEF ReloadFails, TypeOK
    <2>5. CASE Crash(t)
      BY <1>0, <1>3, <2>5, NoTxnAssumption
         DEF Crash, EndTransaction, TypeOK
    <2> QED
      BY <1>3, <2>1, <2>2, <2>3, <2>4, <2>5 DEF Fault, Failure
  <1>4. ASSUME NEW r \in Row, Admin(r)
        PROVE  KeepsFor(u)
    BY <1>0, <1>4, NoTxnAssumption DEF Admin, Update, SoftDelete, TypeOK
  <1>5. CASE UNCHANGED vars
    BY <1>5 DEF vars
  <1> QED
    BY <1>1, <1>2, <1>3, <1>4, <1>5 DEF Next

\* Hence the facts about u survive the steps of the others.
LEMMA OthersPreserve ==
    ASSUME IInv, NEW u \in Txn, KeepsFor(u)
    PROVE  /\ Workspace(u)'
           /\ FreshSight(u)'
           /\ LoopProgress(u)'
           /\ OrderKnown(u)'
  <1>0. /\ TypeOK /\ HoldsLocks(u) /\ Workspace(u) /\ FreshSight(u)
        /\ LoopProgress(u) /\ OrderKnown(u)
    BY DEF IInv
  <1>1. Workspace(u)'
    BY <1>0 DEF KeepsFor, Workspace, HoldsLocks, TypeOK
  <1>2. FreshSight(u)'
    BY <1>0, RowOfAssumption
       DEF KeepsFor, FreshSight, IsNext, Visible, TypeOK
  <1>3. LoopProgress(u)'
    BY <1>0 DEF KeepsFor, LoopProgress
  <1>4. OrderKnown(u)'
    BY <1>0 DEF KeepsFor, OrderKnown, HasOrder
  <1> QED
    BY <1>1, <1>2, <1>3, <1>4

\* The requests a transaction never got to hold leave their workspace empty.
LEMMA EndedWorkspace ==
    ASSUME IInv, NEW t \in Txn, EndTransaction(t)
    PROVE  Workspace(t)'
  BY DEF IInv, TypeOK, EndTransaction, Workspace, NoItems

\* SaveInTransaction keeps written + items = stock, also when the row had
\* already been decremented under another spelling.
LEMMA SaveKeepsWorkspace ==
    ASSUME IInv, NEW t \in Txn, NEW i \in Id, SaveInTransaction(t, i)
    PROVE  Workspace(t)'
  <1>0. TypeOK /\ Workspace(t) /\ FreshSight(t)
    BY DEF IInv
  <1>1. i \in todo[t] /\ cart[t][i] \in Nat \ {0} /\ RowOf[i] \in Row
    BY <1>0, CartQuantity, RowOfAssumption DEF SaveInTransaction, IsNext
  <1>2. /\ listed[RowOf[i]]
        /\ seen[t].stock = Visible(t, RowOf[i])
        /\ seen[t].price = price[RowOf[i]]
    <2>1. seen[t] = [stock |-> Visible(t, RowOf[i]), price |-> price[RowOf[i]]]
      BY <1>0 DEF SaveInTransaction, FreshSight
    <2>2. listed[RowOf[i]]
      BY <1>0 DEF SaveInTransaction, FreshSight
    <2> QED
      BY <2>1, <2>2
  <1>3. /\ stock' = stock /\ price' = price /\ listed' = listed
        /\ dirty'[t] = dirty[t] \cup {RowOf[i]}
        /\ written'[t] = [written[t] EXCEPT
                            ![RowOf[i]] = seen[t].stock - cart[t][i]]
        /\ items'[t] = [items[t] EXCEPT ![RowOf[i]] = @ + cart[t][i]]
        /\ unit'[t] = [unit[t] EXCEPT ![RowOf[i]] = seen[t].price]
    BY <1>0 DEF SaveInTransaction, PushLine, TypeOK, productVars
  <1>4. Visible(t, RowOf[i]) + items[t][RowOf[i]] = stock[RowOf[i]]
    BY <1>0, <1>1 DEF Workspace, Visible, TypeOK, Stock
  <1>5. items[t] \in [Row -> Nat] /\ written[t] \in [Row -> Stock]
        /\ unit[t] \in [Row -> Nat]
        /\ stock \in [Row -> Stock] /\ seen[t].stock \in Stock
    BY <1>0 DEF TypeOK
  <1>6. ASSUME NEW r \in Row, r = RowOf[i]
        PROVE  /\ r \in dirty'[t]
               /\ written'[t][r] + items'[t][r] = stock'[r]
               /\ unit'[t][r] = price'[r]
               /\ items'[t][r] > 0
               /\ listed'[r]
    BY <1>1, <1>2, <1>3, <1>4, <1>5, <1>6 DEF Stock
  <1>7. ASSUME NEW r \in Row, r # RowOf[i]
        PROVE  /\ r \in dirty'[t] <=> r \in dirty[t]
               /\ written'[t][r] = written[t][r]
               /\ items'[t][r] = items[t][r]
               /\ unit'[t][r] = unit[t][r]
               /\ stock'[r] = stock[r] /\ price'[r] = price[r]
               /\ listed'[r] = listed[r]
    BY <1>3, <1>5, <1>7
  <1> QED
    BY <1>0, <1>6, <1>7 DEF Workspace

\* The steps of t itself keep its workspace.
LEMMA OwnWorkspace ==
    ASSUME IInv, NEW t \in Txn,
           (\E c \in Carts : Begin(t, c)) \/ Step(t) \/ Fault(t)
    PROVE  Workspace(t)'
  <1> USE DEF loopVars, lockVars, productVars
  <1>0. TypeOK /\ Workspace(t)
    BY DEF IInv
  <1>1. ASSUME NEW c \in Carts, Begin(t, c)
        PROVE  Workspace(t)'
    BY <1>0, <1>1 DEF Begin, Workspace
  <1>2. ASSUME NEW i \in Id, LockById(t, i)
        PROVE  Workspace(t)'
    BY <1>0, <1>2 DEF LockById, Workspace
  <1>3. CASE UNCHANGED <<items, unit, dirty, written, stock, price, listed>>
    BY <1>0, <1>3 DEF Workspace
  <1>4. CASE CommitEffects(t)
    BY <1>4, EndedWorkspace DEF CommitEffects
  <1>5. CASE Step(t)
    BY <1>2, <1>3, <1>4, <1>5, EndedWorkspace, SaveKeepsWorkspace
       DEF Step, ProductNotFound, InsufficientStock, InsertOrder,
           TotalOutOfRange, DeadlockVictim, Rollback, Commit, Enqueue, Reload,
           Throw
  <1>6. CASE Fault(t)
    BY <1>3, <1>4, <1>6, EndedWorkspace
       DEF Fault, Failure, DbError, CommitAckLost, EnqueueFails, ReloadFails, Crash,
           Throw
  <1> QED
    BY <1>1, <1>5, <1>6

\* At most one spelling is the next one.
LEMMA NextIsUnique ==
    ASSUME TypeOK, NEW t \in Txn, NEW i \in Id, NEW j \in Id,
           IsNext(t, i), IsNext(t, j)
    PROVE  i = j
  <1>1. Rank[i] <= Rank[j] /\ Rank[j] <= Rank[i]
    BY DEF IsNext
  <1>2. Rank[i] \in Nat /\ Rank[j] \in Nat
    BY RankAssumption
  <1>3. Rank[i] = Rank[j]
    BY <1>1, <1>2
  <1> QED
    BY <1>3, RankAssumption

LEMMA OwnFreshSight ==
    ASSUME IInv, NEW t \in Txn,
           (\E c \in Carts : Begin(t, c)) \/ Step(t) \/ Fault(t)
    PROVE  FreshSight(t)'
  <1> USE DEF loopVars, lockVars, productVars
  <1>0. TypeOK /\ FreshSight(t)
    BY DEF IInv
  <1>1. ASSUME NEW i \in Id, LockById(t, i)
        PROVE  FreshSight(t)'
    <2>1. \A j \in Id : IsNext(t, j)' => j = i
      BY <1>0, <1>1, NextIsUnique DEF LockById, IsNext
    <2>2. /\ owner'[RowOf[i]] = t
          /\ listed'[RowOf[i]]
          /\ seen'[t] = [stock |-> Visible(t, RowOf[i])',
                         price |-> price'[RowOf[i]]]
      BY <1>0, <1>1, RowOfAssumption DEF LockById, TypeOK, Visible
    <2> QED
      BY <2>1, <2>2 DEF FreshSight
  <1>2. ASSUME pc'[t] # "save"
        PROVE  FreshSight(t)'
    BY <1>2 DEF FreshSight
  <1>3. ASSUME UNCHANGED <<pc, todo, seen, dirty, written, owner, stock, price, listed>>
        PROVE  FreshSight(t)'
    BY <1>0, <1>3 DEF FreshSight, IsNext, Visible
  <1>4. ASSUME NEW c \in Carts, Begin(t, c)
        PROVE  FreshSight(t)'
    BY <1>0, <1>2, <1>4 DEF Begin, TypeOK
  <1>5. CASE Step(t)
    <2>1. ASSUME NEW i \in Id, ProductNotFound(t, i) \/ InsufficientStock(t, i)
          PROVE  pc'[t] # "save"
      BY <1>0, <2>1 DEF ProductNotFound, InsufficientStock, Throw, TypeOK
    <2>2. ASSUME NEW i \in Id, SaveInTransaction(t, i)
          PROVE  pc'[t] # "save"
      BY <1>0, <2>2 DEF SaveInTransaction, TypeOK
    <2>3. CASE InsertOrder(t) \/ TotalOutOfRange(t) \/ DeadlockVictim(t)
      BY <1>0, <1>2, <2>3
         DEF InsertOrder, TotalOutOfRange, DeadlockVictim, Throw, TypeOK
    <2>4. CASE Rollback(t) \/ Commit(t) \/ Reload(t)
      BY <1>0, <1>2, <2>4 DEF Rollback, Commit, Reload, TypeOK
    <2>5. ASSUME NEW k \in JobKinds, Enqueue(t, k)
          PROVE  FreshSight(t)'
      <3>1. pc'[t] \in {"reload", pc[t]}
        BY <1>0, <2>5 DEF Enqueue, TypeOK
      <3>2. pc[t] # "save"
        BY <2>5 DEF IInv, OrderKnown, Enqueue, Placed
      <3> QED
        BY <1>2, <3>1, <3>2
    <2> QED
      BY <1>1, <1>2, <1>5, <2>1, <2>2, <2>3, <2>4, <2>5 DEF Step
  <1>6. CASE Fault(t)
    <2>1. CASE DbError(t) \/ CommitAckLost(t) \/ ReloadFails(t) \/ Crash(t)
      BY <1>0, <1>2, <2>1
         DEF DbError, CommitAckLost, ReloadFails, Crash, Throw, TypeOK
    <2>2. ASSUME NEW k \in JobKinds, EnqueueFails(t, k)
          PROVE  FreshSight(t)'
      <3>1. pc'[t] \in {"reload", pc[t]}
        BY <1>0, <2>2 DEF EnqueueFails, TypeOK
      <3>2. pc[t] # "save"
        BY <2>2 DEF IInv, OrderKnown, EnqueueFails, Placed
      <3> QED
        BY <1>2, <3>1, <3>2
    <2> QED
      BY <1>6, <2>1, <2>2 DEF Fault, Failure
  <1> QED
    BY <1>4, <1>5, <1>6

-----------------------------------------------------------------------------
(* The inductive invariant: progress of the loop, orders and answers *)

LEMMA OwnLoopProgress ==
    ASSUME IInv, NEW t \in Txn,
           (\E c \in Carts : Begin(t, c)) \/ Step(t) \/ Fault(t)
    PROVE  LoopProgress(t)'
  <1> USE DEF LoopProgress, loopVars, lockVars, productVars
  <1>0. TypeOK /\ LoopProgress(t)
    BY DEF IInv
  <1>1. ASSUME NEW c \in Carts, Begin(t, c)
        PROVE  LoopProgress(t)'
    <2>1. DOMAIN c # {}
      BY CartsAssumption
    <2>2. pc'[t] = "lock" /\ todo'[t] = DOMAIN c
      BY <1>0, <1>1 DEF Begin, TypeOK
    <2> QED
      BY <2>1, <2>2
  <1>2. CASE Step(t)
    <2>1. ASSUME NEW i \in Id, LockById(t, i)
          PROVE  LoopProgress(t)'
      BY <1>0, <2>1 DEF LockById, TypeOK
    <2>2. ASSUME NEW i \in Id, ProductNotFound(t, i) \/ InsufficientStock(t, i)
          PROVE  LoopProgress(t)'
      BY <1>0, <2>2 DEF ProductNotFound, InsufficientStock, Throw, TypeOK
    <2>3. ASSUME NEW i \in Id, SaveInTransaction(t, i)
          PROVE  LoopProgress(t)'
      BY <1>0, <2>3 DEF SaveInTransaction, TypeOK, IsNext
    <2>4. CASE InsertOrder(t)
      BY <1>0, <2>4 DEF InsertOrder, TypeOK
    <2>5. CASE TotalOutOfRange(t) \/ DeadlockVictim(t)
      BY <1>0, <2>5 DEF TotalOutOfRange, DeadlockVictim, Throw, TypeOK
    <2>6. CASE Rollback(t) \/ Commit(t) \/ Reload(t)
      BY <1>0, <2>6 DEF Rollback, Commit, Reload, TypeOK
    <2>7. ASSUME NEW k \in JobKinds, Enqueue(t, k)
          PROVE  LoopProgress(t)'
      BY <1>0, <2>7 DEF Enqueue, TypeOK
    <2> QED
      BY <1>2, <2>1, <2>2, <2>3, <2>4, <2>5, <2>6, <2>7 DEF Step
  <1>3. CASE Fault(t)
    <2>1. CASE DbError(t) \/ CommitAckLost(t) \/ ReloadFails(t) \/ Crash(t)
      BY <1>0, <2>1
         DEF DbError, CommitAckLost, ReloadFails, Crash, Throw, TypeOK
    <2>2. ASSUME NEW k \in JobKinds, EnqueueFails(t, k)
          PROVE  LoopProgress(t)'
      BY <1>0, <2>2 DEF EnqueueFails, TypeOK
    <2> QED
      BY <1>3, <2>1, <2>2 DEF Fault, Failure
  <1> QED
    BY <1>1, <1>2, <1>3

LEMMA OwnOrderKnown ==
    ASSUME IInv, NEW t \in Txn,
           (\E c \in Carts : Begin(t, c)) \/ Step(t) \/ Fault(t)
    PROVE  OrderKnown(t)'
  <1> USE DEF OrderKnown, HasOrder, InTransaction, Placed, loopVars, lockVars,
              productVars
  <1>0. TypeOK /\ OrderKnown(t)
    BY DEF IInv
  <1>1. ASSUME NEW c \in Carts, Begin(t, c)
        PROVE  OrderKnown(t)'
    BY <1>0, <1>1 DEF Begin, TypeOK
  <1>2. ASSUME CommitEffects(t)
        PROVE  HasOrder(t)'
    <2>1. OrderOf(t) \in orders' /\ OrderOf(t).id = t
      BY <1>2 DEF CommitEffects, OrderOf
    <2> QED
      BY <2>1
  <1>3. CASE Step(t)
    <2>1. ASSUME NEW i \in Id, LockById(t, i) \/ SaveInTransaction(t, i)
          PROVE  OrderKnown(t)'
      BY <1>0, <2>1 DEF LockById, SaveInTransaction, TypeOK
    <2>2. ASSUME NEW i \in Id, ProductNotFound(t, i) \/ InsufficientStock(t, i)
          PROVE  OrderKnown(t)'
      BY <1>0, <2>2 DEF ProductNotFound, InsufficientStock, Throw, TypeOK
    <2>3. CASE InsertOrder(t) \/ TotalOutOfRange(t)
      BY <1>0, <2>3 DEF InsertOrder, TotalOutOfRange, Throw, TypeOK
    <2>4. CASE DeadlockVictim(t)
      <3>1. pc[t] = "lock"
        BY <2>4 DEF DeadlockVictim, Cycle, WaitsFor
      <3> QED
        BY <1>0, <2>4, <3>1 DEF DeadlockVictim, Throw, TypeOK
    <2>5. CASE Rollback(t)
      BY <1>0, <2>5 DEF Rollback, TypeOK
    <2>6. CASE Commit(t)
      BY <1>0, <1>2, <2>6 DEF Commit, CommitEffects, TypeOK
    <2>7. ASSUME NEW k \in JobKinds, Enqueue(t, k)
          PROVE  OrderKnown(t)'
      BY <1>0, <2>7 DEF Enqueue, TypeOK
    <2>8. CASE Reload(t)
      BY <1>0, <2>8 DEF Reload, TypeOK
    <2> QED
      BY <1>3, <2>1, <2>2, <2>3, <2>4, <2>5, <2>6, <2>7, <2>8 DEF Step
  <1>4. CASE Fault(t)
    <2>1. CASE DbError(t)
      BY <1>0, <2>1 DEF DbError, Throw, TypeOK
    <2>2. CASE CommitAckLost(t)
      BY <1>0, <1>2, <2>2 DEF CommitAckLost, CommitEffects, TypeOK
    <2>3. ASSUME NEW k \in JobKinds, EnqueueFails(t, k)
          PROVE  OrderKnown(t)'
      BY <1>0, <2>3 DEF EnqueueFails, TypeOK
    <2>4. CASE ReloadFails(t)
      BY <1>0, <2>4 DEF ReloadFails, TypeOK
    <2>5. CASE Crash(t)
      BY <1>0, <2>5 DEF Crash, TypeOK
    <2> QED
      BY <1>4, <2>1, <2>2, <2>3, <2>4, <2>5 DEF Fault, Failure
  <1> QED
    BY <1>1, <1>3, <1>4

\* A step adds a job for a request that has its order, or none; no order goes.
LEMMA JobsFollowOrders ==
    ASSUME IInv, [Next]_vars
    PROVE  NoJobWithoutOrder'
  <1> USE DEF loopVars, lockVars, productVars, requestVars
  <1>0. NoJobWithoutOrder
    BY DEF IInv
  <1>1. ASSUME orders \subseteq orders',
               \A j \in jobs' \ jobs : \E o \in orders : o.id = j.order
        PROVE  NoJobWithoutOrder'
    BY <1>0, <1>1 DEF NoJobWithoutOrder
  <1>2. ASSUME orders \subseteq orders', jobs' = jobs
        PROVE  NoJobWithoutOrder'
    BY <1>1, <1>2
  <1>3. ASSUME NEW t \in Txn, NEW k \in JobKinds,
               Enqueue(t, k) \/ EnqueueFails(t, k)
        PROVE  NoJobWithoutOrder'
    <2>1. \E o \in orders : o.id = t
      BY <1>3 DEF Enqueue, EnqueueFails, IInv, OrderKnown, HasOrder
    <2>2. orders' = orders /\ jobs' \subseteq jobs \cup {[kind |-> k, order |-> t]}
      BY <1>3 DEF Enqueue, EnqueueFails
    <2> QED
      BY <1>1, <2>1, <2>2
  <1>4. ASSUME NEW t \in Txn, Step(t)
        PROVE  NoJobWithoutOrder'
    BY <1>2, <1>3, <1>4
       DEF Step, LockById, ProductNotFound, InsufficientStock,
           SaveInTransaction, InsertOrder, TotalOutOfRange, DeadlockVictim,
           Rollback, Commit, CommitEffects, Reload, Throw
  <1>5. ASSUME NEW t \in Txn, Fault(t)
        PROVE  NoJobWithoutOrder'
    BY <1>2, <1>3, <1>5
       DEF Fault, Failure, DbError, CommitAckLost, CommitEffects, ReloadFails, Crash,
           Throw
  <1>6. ASSUME NEW t \in Txn, NEW c \in Carts, Begin(t, c)
        PROVE  NoJobWithoutOrder'
    BY <1>2, <1>6 DEF Begin
  <1>7. ASSUME NEW r \in Row, Admin(r)
        PROVE  NoJobWithoutOrder'
    BY <1>2, <1>7 DEF Admin, Update, SoftDelete
  <1>8. CASE UNCHANGED vars
    BY <1>2, <1>8 DEF vars
  <1> QED
    BY <1>4, <1>5, <1>6, <1>7, <1>8 DEF Next

-----------------------------------------------------------------------------
(* Invariance *)

LEMMA InitIInv == Init => IInv
  <1> SUFFICES ASSUME Init
               PROVE  IInv
    OBVIOUS
  <1>1. NoJobWithoutOrder
    BY DEF Init, NoJobWithoutOrder
  <1>2. ASSUME NEW t \in Txn
        PROVE  /\ HoldsLocks(t) /\ Workspace(t) /\ FreshSight(t)
               /\ LoopProgress(t) /\ OrderKnown(t)
    BY NoTxnAssumption
       DEF Init, HoldsLocks, Workspace, FreshSight, LoopProgress, OrderKnown,
           HasOrder, NoItems, Placed
  <1> QED
    BY InitTypeOK, <1>1, <1>2 DEF IInv

LEMMA NextIInv == IInv /\ [Next]_vars => IInv'
  <1> SUFFICES ASSUME IInv, [Next]_vars
               PROVE  IInv'
    OBVIOUS
  <1>1. ASSUME NEW t \in Txn
        PROVE  (/\ HoldsLocks(t) /\ Workspace(t) /\ FreshSight(t)
                /\ LoopProgress(t) /\ OrderKnown(t))'
    <2>1. HoldsLocks(t)'
      BY HoldsLocksInductive
    <2>2. CASE (\E c \in Carts : Begin(t, c)) \/ Step(t) \/ Fault(t)
      BY <2>1, <2>2, OwnWorkspace, OwnFreshSight, OwnLoopProgress,
         OwnOrderKnown
    <2>3. CASE ~ ((\E c \in Carts : Begin(t, c)) \/ Step(t) \/ Fault(t))
      BY <2>1, <2>3, OthersKeep, OthersPreserve
    <2> QED
      BY <2>2, <2>3
  <1> QED
    BY <1>1, NextTypeOK, JobsFollowOrders DEF IInv

\* The bookkeeping of every transaction is exact in every reachable state:
\* what it has written plus what it has taken is the committed stock.
THEOREM BookkeepingExact == Spec => []IInv
  BY InitIInv, NextIInv, PTL DEF Spec

\* All variables keep their types; stock stays within 0..MaxInt and totals
\* within the money column, whatever requests and administrators do.
THEOREM TypeCorrect == Spec => []TypeOK
  <1>1. IInv => TypeOK
    BY DEF IInv
  <1> QED
    BY <1>1, BookkeepingExact, PTL

\* No job is ever published for an order that is not committed.
THEOREM JobsOnlyForOrders == Spec => []NoJobWithoutOrder
  <1>1. IInv => NoJobWithoutOrder
    BY DEF IInv
  <1> QED
    BY <1>1, BookkeepingExact, PTL

\* 201 means placed; 404 and 409 mean not placed, now and later.
THEOREM AnswersAreTruthful == Spec => []TruthfulAnswer
  <1>1. IInv => TruthfulAnswer
    BY DEF IInv, TruthfulAnswer, OrderKnown, HasOrder
  <1> QED
    BY <1>1, BookkeepingExact, PTL

-----------------------------------------------------------------------------
(* Conservation of stock, and orders that match their carts *)

LEMMA SumOfZeros ==
    ASSUME NEW f, NEW S, IsFiniteSet(S), \A x \in S : f[x] = 0
    PROVE  SumFunctionOnSet(f, S) = 0
  <1> DEFINE Bad == {s \in SUBSET S : SumFunctionOnSet(f, s) # 0}
  <1>1. \A s \in SUBSET S : IsFiniteSet(s) /\ Cardinality(s) \in Nat
    BY FS_Subset, FS_CardinalityType
  <1>2. CASE Bad # {}
    <2>1. PICK s \in Bad : \A u \in Bad : ~ (Cardinality(u) < Cardinality(s))
      BY <1>1, <1>2, SmallestSet
    <2>2. s # {}
      BY <1>1, <2>1, SumEquation
    <2>3. Pick(s) \in s /\ Cardinality(s \ {Pick(s)}) < Cardinality(s)
      BY <1>1, <2>2, PickIsIn, FS_RemoveElement
    <2>4. SumFunctionOnSet(f, s \ {Pick(s)}) = 0
      BY <2>1, <2>3
    <2> QED
      BY <1>1, <2>1, <2>2, <2>3, <2>4, SumEquation
  <1> QED
    BY <1>2

\* A commit adds one order, of the transaction's request, which had none.
LEMMA CommitAddsOrder ==
    ASSUME IInv, NEW t \in Txn, CommitEffects(t)
    PROVE  /\ orders' = orders \cup {OrderOf(t)} /\ OrderOf(t) \notin orders
           /\ \A o \in orders : o.id # t
  <1>1. \A o \in orders : o.id # t
    BY DEF CommitEffects, IInv, OrderKnown, HasOrder, Placed
  <1> QED
    BY <1>1 DEF CommitEffects, OrderOf

\* All other steps keep the orders.
LEMMA OrdersKept ==
    ASSUME IInv, [Next]_vars, \A t \in Txn : ~ CommitEffects(t)
    PROVE  orders' = orders
  BY DEF Next, Begin, Step, LockById, ProductNotFound, InsufficientStock, SaveInTransaction,
         InsertOrder, TotalOutOfRange, DeadlockVictim, Rollback, Commit, Enqueue, Reload, Throw,
         Fault, Failure, DbError, CommitAckLost, EnqueueFails, ReloadFails, Crash,
         Admin, Update, SoftDelete, vars

LEMMA ProductsKept ==
    ASSUME IInv, [Next]_vars, \A t \in Txn : ~ CommitEffects(t), 
           \A r \in Row, s \in Stock, p \in Prices : ~ Update(r, s, p)
    PROVE  UNCHANGED <<stock, supplied>>
  BY DEF Next, Begin, Step, LockById, ProductNotFound, InsufficientStock, SaveInTransaction,
         InsertOrder, TotalOutOfRange, DeadlockVictim, Rollback, Commit, Enqueue, Reload, Throw,
         Fault, Failure, DbError, CommitAckLost, EnqueueFails, ReloadFails, Crash,
         Admin, SoftDelete, vars, productVars

\* The units of r sold in a set of orders.
Sold(r, S) == SumFunction([o \in S |-> o.qty[r]])

LEMMA SoldGrows ==
    ASSUME NEW S, IsFiniteSet(S), NEW x, x \notin S, NEW r,
           \A o \in S \cup {x} : o.qty[r] \in Nat
    PROVE  /\ Sold(r, S) \in Nat
           /\ Sold(r, S \cup {x}) = x.qty[r] + Sold(r, S)
  <1>1. PICK T : T = S \cup {x}
    OBVIOUS
  <1>2. PICK f : f = [o \in T |-> o.qty[r]]
    OBVIOUS
  <1>3. PICK e : e = [o \in S |-> o.qty[r]]
    OBVIOUS
  <1>4. Sold(r, S) = SumFunctionOnSet(e, S) /\ Sold(r, T) = SumFunctionOnSet(f, T)
    BY <1>2, <1>3 DEF Sold, SumFunction
  <1>5. SumFunctionOnSet(f, S) = SumFunctionOnSet(e, S)
    BY <1>1, <1>2, <1>3, SumSame
  <1>6. SumFunctionOnSet(f, T) = f[x] + SumFunctionOnSet(f, S)
    BY <1>1, <1>2, SumAdd
  <1>7. SumFunctionOnSet(e, S) \in Nat
    BY <1>3, SumType
  <1> QED
    BY <1>1, <1>2, <1>4, <1>5, <1>6, <1>7

LEMMA NextConserves ==
    ASSUME IInv, IsFiniteSet(orders), StockConserved, [Next]_vars
    PROVE  IsFiniteSet(orders)' /\ StockConserved'
  <1>0. TypeOK
    BY DEF IInv
  <1>1. \A r \in Row : /\ stock[r] + Sold(r, orders) = supplied[r] /\ Sold(r, orders) \in Nat
                       /\ stock[r] \in Int /\ supplied[r] \in Int
    <2>1. \A o \in orders, r \in Row : o.qty[r] \in Nat
      BY <1>0 DEF TypeOK, Order
    <2>2. ASSUME NEW r \in Row
          PROVE  Sold(r, orders) \in Nat
      <3>1. PICK e : e = [o \in orders |-> o.qty[r]]
        OBVIOUS
      <3>2. SumFunctionOnSet(e, orders) \in Nat
        BY <2>1, <3>1, SumType
      <3> QED
        BY <3>1, <3>2 DEF Sold, SumFunction
    <2> QED
      BY <1>0, <2>2 DEF StockConserved, Sold, TypeOK, Stock
  <1>2. ASSUME NEW t \in Txn, CommitEffects(t)
        PROVE  IsFiniteSet(orders)' /\ StockConserved'
    <2>1. /\ orders' = orders \cup {OrderOf(t)} /\ OrderOf(t) \notin orders
          /\ IsFiniteSet(orders \cup {OrderOf(t)})
      BY <1>2, CommitAddsOrder, FS_AddElement
    <2>2. ASSUME NEW r \in Row
          PROVE  stock'[r] + Sold(r, orders \cup {OrderOf(t)}) = supplied'[r]
      <3>1. \A o \in orders \cup {OrderOf(t)} : o.qty[r] \in Nat
        BY <1>0 DEF TypeOK, Order, OrderOf
      <3>2. Sold(r, orders \cup {OrderOf(t)}) = items[t][r] + Sold(r, orders)
        <4>1. PICK o : o = OrderOf(t)
          OBVIOUS
        <4>2. Sold(r, orders \cup {o}) = o.qty[r] + Sold(r, orders)
          BY <2>1, <3>1, <4>1, SoldGrows
        <4>3. o.qty = items[t]
          BY <4>1 DEF OrderOf
        <4> QED
          BY <4>1, <4>2, <4>3
      <3>3. stock'[r] + items[t][r] = stock[r] /\ stock'[r] \in Int
        <4>1. stock'[r] = Visible(t, r)
          BY <1>2 DEF CommitEffects
        <4>2. /\ r \in dirty[t] => written[t][r] + items[t][r] = stock[r]
              /\ r \notin dirty[t] => items[t][r] = 0
          BY DEF IInv, Workspace
        <4>3. written[t][r] \in Int /\ stock[r] \in Int
          BY <1>0 DEF TypeOK, Stock
        <4> QED
          BY <4>1, <4>2, <4>3 DEF Visible
      <3>4. supplied'[r] = supplied[r] /\ items[t][r] \in Int
        BY <1>0, <1>2 DEF CommitEffects, TypeOK
      <3> QED
        BY <1>1, <3>2, <3>3, <3>4
    <2> QED
      BY <2>1, <2>2 DEF StockConserved, Sold
  <1>3. ASSUME NEW r \in Row, NEW s \in Stock, NEW p \in Prices, Update(r, s, p)
        PROVE  IsFiniteSet(orders)' /\ StockConserved'
    <2>1. ASSUME NEW x \in Row
          PROVE  stock'[x] + Sold(x, orders) = supplied'[x]
      BY <1>0, <1>1, <1>3 DEF Update, TypeOK, Stock
    <2> QED
      BY <1>3, <2>1 DEF Update, StockConserved, Sold
  <1>4. CASE UNCHANGED <<orders, stock, supplied>>
    BY <1>4 DEF StockConserved
  <1> QED
    BY <1>2, <1>3, <1>4, OrdersKept, ProductsKept

\* What has been pushed of row r: the lines of the cart that the loop has passed.
Passed(t) == DOMAIN cart[t] \ todo[t]
LinesOf(t, r, D) == {i \in D : RowOf[i] = r}

LEMMA CartSums ==
    ASSUME TypeOK, NEW t \in Txn, NEW r, NEW D \in SUBSET DOMAIN cart[t]
    PROVE  /\ IsFiniteSet(LinesOf(t, r, D))
           /\ \A i \in DOMAIN cart[t] : cart[t][i] \in Nat
           /\ SumFunctionOnSet(cart[t], LinesOf(t, r, D)) \in Nat
  <1>1. IsFiniteSet(DOMAIN cart[t]) /\ \A i \in DOMAIN cart[t] : cart[t][i] \in Nat
    <2>1. CASE cart[t] \in Carts
      BY <2>1, CartsAssumption
    <2>2. CASE cart[t] = NoCart
      BY <2>2, FS_EmptySet DEF NoCart
    <2> QED
      BY <2>1, <2>2 DEF TypeOK
  <1>2. LinesOf(t, r, D) \in SUBSET DOMAIN cart[t]
    BY DEF LinesOf
  <1>3. IsFiniteSet(LinesOf(t, r, D))
    BY <1>1, <1>2, FS_Subset
  <1> QED
    BY <1>1, <1>2, <1>3, SumType

\* One more line of row r.
LEMMA PassLine ==
    ASSUME TypeOK, NEW t \in Txn, NEW i \in todo[t], NEW r
    PROVE  SumFunctionOnSet(cart[t], LinesOf(t, r, DOMAIN cart[t] \ (todo[t] \ {i})))
               = SumFunctionOnSet(cart[t], LinesOf(t, r, Passed(t)))
                 + (IF r = RowOf[i] THEN cart[t][i] ELSE 0)
  <1>1. i \in DOMAIN cart[t]
    BY DEF TypeOK
  <1>2. PICK S : S = LinesOf(t, r, Passed(t))
    OBVIOUS
  <1>3. /\ IsFiniteSet(S) /\ i \notin S /\ S \subseteq DOMAIN cart[t]
        /\ \A j \in DOMAIN cart[t] : cart[t][j] \in Nat
        /\ SumFunctionOnSet(cart[t], S) \in Nat
    BY <1>2, CartSums DEF Passed, LinesOf
  <1>4. CASE r = RowOf[i]
    <2>1. LinesOf(t, r, DOMAIN cart[t] \ (todo[t] \ {i})) = S \cup {i}
      BY <1>1, <1>2, <1>4 DEF LinesOf, Passed
    <2>2. SumFunctionOnSet(cart[t], S \cup {i}) = cart[t][i] + SumFunctionOnSet(cart[t], S)
      BY <1>1, <1>3, SumAdd
    <2>3. PICK n \in Nat : n = cart[t][i]
      BY <1>1, <1>3
    <2>4. PICK m \in Nat : m = SumFunctionOnSet(cart[t], S)
      BY <1>3
    <2>5. n + m = m + n
      OBVIOUS
    <2> QED
      BY <1>2, <1>4, <2>1, <2>2, <2>3, <2>4, <2>5
  <1>5. CASE r # RowOf[i]
    <2>1. LinesOf(t, r, DOMAIN cart[t] \ (todo[t] \ {i})) = S
      BY <1>1, <1>2, <1>5 DEF LinesOf, Passed
    <2> QED
      BY <1>2, <1>3, <1>5, <2>1
  <1> QED
    BY <1>4, <1>5

\* The total of an order's lines.
OrderTotal(q, u) == SumFunction([r \in Row |-> q[r] * u[r]])

\* One line more in it.
LEMMA TotalGrows ==
    ASSUME NEW q \in [Row -> Nat], NEW u \in [Row -> Nat], NEW r \in Row,
           NEW n \in Nat, NEW p \in Nat, q[r] = 0 \/ u[r] = p
    PROVE  OrderTotal([q EXCEPT ![r] = @ + n], [u EXCEPT ![r] = p]) = OrderTotal(q, u) + p * n
  <1>1. PICK f : f = [x \in Row |-> q[x] * u[x]]
    OBVIOUS
  <1>2. PICK e : e = [x \in Row |-> [q EXCEPT ![r] = @ + n][x] * [u EXCEPT ![r] = p][x]]
    OBVIOUS
  <1>3. \A x \in Row : f[x] \in Nat
    BY <1>1
  <1>4. p * n \in Nat
    OBVIOUS
  <1>5. e[r] = f[r] + p * n
    <2>1. e[r] = (q[r] + n) * p /\ f[r] = q[r] * u[r] /\ q[r] \in Nat
      BY <1>1, <1>2
    <2>2. (q[r] + n) * p = q[r] * p + p * n
      BY <2>1
    <2>3. q[r] * p = q[r] * u[r]
      BY <2>1
    <2> QED
      BY <2>1, <2>2, <2>3
  <1>6. \A x \in Row \ {r} : e[x] = f[x]
    BY <1>1, <1>2
  <1>7. \A x \in Row : e[x] \in Nat
    BY <1>3, <1>4, <1>5, <1>6
  <1>8. IsFiniteSet(Row \ {r})
    BY RowAssumption, FS_Subset
  <1>9. SumFunctionOnSet(e, Row \ {r}) = SumFunctionOnSet(f, Row \ {r})
    BY <1>6, <1>8, SumSame
  <1>10. /\ SumFunctionOnSet(e, Row) = e[r] + SumFunctionOnSet(e, Row \ {r})
         /\ SumFunctionOnSet(f, Row) = f[r] + SumFunctionOnSet(f, Row \ {r})
    BY <1>3, <1>7, RowAssumption, SumRemove
  <1>11. SumFunctionOnSet(f, Row \ {r}) \in Nat
    BY <1>3, <1>8, SumType
  <1>12. SumFunctionOnSet(e, Row) = SumFunctionOnSet(f, Row) + p * n
    BY <1>3, <1>4, <1>5, <1>9, <1>10, <1>11
  <1> QED
    BY <1>1, <1>2, <1>12 DEF OrderTotal, SumFunction

InLoop == InTransaction \ {"rollback"}

LEMMA OwnLines ==
    ASSUME IInv, NEW t \in Txn, LinesPushed(t),
           (\E c \in Carts : Begin(t, c)) \/ Step(t) \/ Fault(t)
    PROVE  LinesPushed(t)'
  <1>0. TypeOK
    BY DEF IInv
  <1>1. ASSUME NEW c \in Carts, Begin(t, c)
        PROVE  LinesPushed(t)'
    <2>1. dirty[t] = {} /\ items[t] \in [Row -> Nat] /\ unit[t] \in [Row -> Nat]
      BY <1>0, <1>1 DEF Begin, IInv, HoldsLocks, InTransaction, TypeOK
    <2>2. \A r \in Row : items[t][r] = 0 /\ unit[t][r] = 0
      BY <2>1 DEF IInv, Workspace
    <2>3. /\ pc'[t] = "lock" /\ cart'[t] = c /\ todo'[t] = DOMAIN c
          /\ items'[t] = items[t] /\ unit'[t] = unit[t] /\ total'[t] = 0
      BY <1>0, <1>1 DEF Begin, TypeOK, LinesPushed
    <2>4. SumFunctionOnSet(c, {}) = 0
      BY FS_EmptySet, SumEquation
    <2>5. \A r \in Row : {i \in DOMAIN c \ DOMAIN c : RowOf[i] = r} = {}
      OBVIOUS
    <2>6. SumFunction([r \in Row |-> items[t][r] * unit[t][r]]) = 0
      <3>1. PICK f : f = [r \in Row |-> items[t][r] * unit[t][r]]
        OBVIOUS
      <3>2. SumFunctionOnSet(f, Row) = 0
        BY <2>2, <3>1, RowAssumption, SumOfZeros
      <3> QED
        BY <3>1, <3>2 DEF SumFunction
    <2> QED
      BY <2>2, <2>3, <2>4, <2>5, <2>6 DEF LinesPushed
  <1>2. ASSUME UNCHANGED <<cart, todo, items, unit, total>>, pc[t] \in InLoop, pc'[t] # "idle"
        PROVE  LinesPushed(t)'
    BY <1>2 DEF LinesPushed, InLoop
  <1>3. ASSUME pc'[t] \notin InLoop \cup {"idle"}
        PROVE  LinesPushed(t)'
    BY <1>3 DEF LinesPushed, InLoop
  <1>4. ASSUME NEW i \in Id, SaveInTransaction(t, i)
        PROVE  LinesPushed(t)'
    <2> DEFINE r == RowOf[i]
               n == cart[t][i]
    <2>1. i \in todo[t] /\ n \in Nat /\ r \in Row
      BY <1>0, <1>4, CartQuantity, RowOfAssumption DEF SaveInTransaction, IsNext
    <2>2. /\ pc'[t] \in InLoop /\ pc'[t] # "idle" /\ cart' = cart /\ todo'[t] = todo[t] \ {i}
          /\ items'[t] = [items[t] EXCEPT ![r] = @ + n]
          /\ unit'[t] = [unit[t] EXCEPT ![r] = seen[t].price]
          /\ total'[t] = total[t] + seen[t].price * n
      BY <1>0, <1>4 DEF SaveInTransaction, PushLine, TypeOK, InLoop, InTransaction
    <2>3. /\ \A x \in Row : items[t][x] = SumFunctionOnSet(cart[t], LinesOf(t, x, Passed(t)))
          /\ total[t] = OrderTotal(items[t], unit[t])
      BY <1>4 DEF LinesPushed, SaveInTransaction, InTransaction, LinesOf, Passed, OrderTotal
    <2>4. ASSUME NEW x \in Row
          PROVE  items'[t][x] = SumFunctionOnSet(cart[t],
                                    LinesOf(t, x, DOMAIN cart[t] \ (todo[t] \ {i})))
      <3>1. items'[t][x] = items[t][x] + (IF x = r THEN n ELSE 0)
        <4>1. items[t] \in [Row -> Nat]
          BY <1>0 DEF TypeOK
        <4> HIDE DEF r, n
        <4> QED
          BY <2>1, <2>2, <4>1
      <3>2. items[t][x] = SumFunctionOnSet(cart[t], LinesOf(t, x, Passed(t)))
        BY <2>3
      <3> QED
        BY <1>0, <2>1, <3>1, <3>2, PassLine
    <2>5. items[t][r] = 0 \/ unit[t][r] = seen[t].price
      <3>1. seen[t].price = price[r]
        <4>1. seen[t] = [stock |-> Visible(t, r), price |-> price[r]]
          BY <1>4 DEF SaveInTransaction, IInv, FreshSight
        <4> QED
          BY <4>1
      <3>2. items[t][r] = 0 \/ unit[t][r] = price[r]
        BY <2>1 DEF IInv, Workspace
      <3> QED
        BY <3>1, <3>2
    <2>6. total'[t] = OrderTotal(items'[t], unit'[t])
      <3>1. items[t] \in [Row -> Nat] /\ unit[t] \in [Row -> Nat] /\ seen[t].price \in Nat
        BY <1>0 DEF TypeOK
      <3>2. PICK q \in [Row -> Nat] : q = items[t]
        BY <3>1
      <3>3. PICK u \in [Row -> Nat] : u = unit[t]
        BY <3>1
      <3>4. PICK p \in Nat : p = seen[t].price
        BY <3>1
      <3> HIDE DEF r, n
      <3>5. OrderTotal([q EXCEPT ![r] = @ + n], [u EXCEPT ![r] = p]) = OrderTotal(q, u) + p * n
        <4>1. q[r] = 0 \/ u[r] = p
          BY <2>5, <3>2, <3>3, <3>4
        <4>2. r \in Row /\ n \in Nat
          BY <2>1
        <4> QED
          BY <4>1, <4>2, TotalGrows
      <3> QED
        BY <2>2, <2>3, <3>2, <3>3, <3>4, <3>5
    <2> QED
      BY <2>2, <2>4, <2>6 DEF LinesPushed, LinesOf, OrderTotal
  <1>5. ASSUME NEW i \in Id, LockById(t, i)
        PROVE  LinesPushed(t)'
    BY <1>2, <1>5 DEF LockById, InLoop, InTransaction
  <1>6. CASE InsertOrder(t)
    BY <1>2, <1>6 DEF InsertOrder, InLoop, InTransaction, loopVars
  <1>7. ASSUME NEW why, Throw(t, why)
        PROVE  LinesPushed(t)'
    BY <1>0, <1>3, <1>7 DEF Throw, TypeOK, InLoop, InTransaction
  <1>8. CASE Rollback(t) \/ CommitAckLost(t) \/ Commit(t) \/ Reload(t) \/ ReloadFails(t) \/ Crash(t)
    BY <1>0, <1>3, <1>8
       DEF Rollback, CommitAckLost, Commit, Reload, ReloadFails, Crash, TypeOK,
           InLoop, InTransaction
  <1>9. ASSUME NEW k \in JobKinds, Enqueue(t, k) \/ EnqueueFails(t, k)
        PROVE  LinesPushed(t)'
    <2>1. pc[t] \in Placed \cup {"done"}
      BY <1>9 DEF Enqueue, EnqueueFails, IInv, OrderKnown
    <2> QED
      BY <1>0, <1>3, <1>9, <2>1
         DEF Enqueue, EnqueueFails, TypeOK, InLoop, InTransaction, Placed
  <1> QED
    BY <1>1, <1>4, <1>5, <1>6, <1>7, <1>8, <1>9
       DEF Step, Fault, Failure, ProductNotFound, InsufficientStock, TotalOutOfRange,
           DeadlockVictim, DbError

LEMMA NextLinesPushed ==
    ASSUME IInv, NEW t \in Txn, LinesPushed(t), [Next]_vars
    PROVE  LinesPushed(t)'
  <1>1. CASE (\E c \in Carts : Begin(t, c)) \/ Step(t) \/ Fault(t)
    BY <1>1, OwnLines
  <1>2. CASE ~ ((\E c \in Carts : Begin(t, c)) \/ Step(t) \/ Fault(t))
    <2>1. KeepsFor(t)
      BY <1>2, OthersKeep
    <2>2. /\ pc'[t] = pc[t] /\ cart'[t] = cart[t] /\ todo'[t] = todo[t]
          /\ items'[t] = items[t] /\ unit'[t] = unit[t] /\ total'[t] = total[t]
      BY <2>1 DEF KeepsFor
    <2> QED
      BY <2>2 DEF LinesPushed
  <1> QED
    BY <1>1, <1>2

\* The cart of a placed order never changes again.
LEMMA CartOfOrderKept ==
    ASSUME IInv, NEW o \in orders, [Next]_vars
    PROVE  o.id \in Txn /\ cart'[o.id] = cart[o.id]
  <1>1. PICK t \in Txn : t = o.id
    BY DEF IInv, TypeOK, Order
  <1>2. pc[t] # "idle"
    <2>1. HasOrder(t)
      BY <1>1 DEF HasOrder
    <2> QED
      BY <2>1 DEF IInv, OrderKnown, Placed
  <1>3. CASE Step(t) \/ Fault(t)
    BY <1>1, <1>3
       DEF Step, LockById, ProductNotFound, InsufficientStock, SaveInTransaction,
           InsertOrder, TotalOutOfRange, DeadlockVictim, Rollback, Commit, CommitEffects,
           Enqueue, Reload, Throw, Fault, Failure, DbError, CommitAckLost,
           EnqueueFails, ReloadFails, Crash
  <1>4. CASE ~ (Step(t) \/ Fault(t))
    <2>1. KeepsFor(t)
      BY <1>2, <1>4, OthersKeep DEF Begin
    <2> QED
      BY <1>1, <2>1 DEF KeepsFor
  <1> QED
    BY <1>1, <1>3, <1>4

\* At COMMIT the loop has passed the whole cart.
LEMMA CommitsWholeCart ==
    ASSUME IInv, NEW t \in Txn, LinesPushed(t), CommitEffects(t)
    PROVE  /\ \A r \in Row : items[t][r] = Wanted(t, r)
           /\ total[t] = OrderTotal(items[t], unit[t])
  <1>1. todo[t] = {} /\ pc[t] = "commit"
    BY DEF CommitEffects, IInv, LoopProgress
  <1>2. DOMAIN cart[t] \ todo[t] = DOMAIN cart[t]
    BY <1>1
  <1> QED
    BY <1>1, <1>2 DEF LinesPushed, Wanted, InTransaction, OrderTotal

LEMMA NextOrdersMatchCarts ==
    ASSUME IInv, OrdersMatchCarts, \A t \in Txn : LinesPushed(t), [Next]_vars
    PROVE  OrdersMatchCarts'
  <1> DEFINE Matches(o) == /\ \A r \in Row : o.qty[r] = Wanted(o.id, r)
                           /\ o.total = OrderTotal(o.qty, o.unitPrice)
  <1>1. ASSUME NEW o \in orders
        PROVE  Matches(o)'
    <2>1. Matches(o)
      BY DEF OrdersMatchCarts, OrderTotal
    <2>2. cart'[o.id] = cart[o.id]
      BY CartOfOrderKept
    <2> QED
      BY <2>1, <2>2 DEF Wanted, OrderTotal
  <1>2. ASSUME NEW t \in Txn, CommitEffects(t), NEW o, o = OrderOf(t)
        PROVE  Matches(o)'
    <2>1. /\ o.id = t /\ o.qty = items[t] /\ o.unitPrice = unit[t] /\ o.total = total[t]
      BY <1>2 DEF OrderOf
    <2>2. cart' = cart
      BY <1>2 DEF CommitEffects
    <2>3. /\ \A r \in Row : items[t][r] = Wanted(t, r)
          /\ total[t] = OrderTotal(items[t], unit[t])
      BY <1>2, CommitsWholeCart
    <2> QED
      BY <2>1, <2>2, <2>3 DEF Wanted, OrderTotal
  <1>3. \A o \in orders' : Matches(o)'
    <2>1. CASE \E t \in Txn : CommitEffects(t)
      BY <1>1, <1>2, <2>1, CommitAddsOrder
    <2>2. CASE \A t \in Txn : ~ CommitEffects(t)
      BY <1>1, <2>2, OrdersKept
    <2> QED
      BY <2>1, <2>2
  <1> QED
    BY <1>3 DEF OrdersMatchCarts, OrderTotal

LEMMA InitSumInv == Init => SumInv
  <1> SUFFICES ASSUME Init
               PROVE  SumInv
    OBVIOUS
  <1>1. IsFiniteSet(orders) /\ orders = {}
    BY FS_EmptySet DEF Init
  <1>2. SumFunctionOnSet([o \in {} |-> 0], {}) = 0
    BY FS_EmptySet, SumEquation
  <1>3. ASSUME NEW r \in Row
        PROVE  stock[r] + SumFunction([o \in orders |-> o.qty[r]]) = supplied[r]
    <2>1. PICK e : e = [o \in orders |-> o.qty[r]]
      OBVIOUS
    <2>2. SumFunctionOnSet(e, {}) = 0
      BY FS_EmptySet, SumEquation
    <2>3. SumFunction(e) = 0
      BY <1>1, <2>1, <2>2 DEF SumFunction
    <2>4. stock[r] \in Int /\ supplied = stock
      BY BoundsAssumption DEF Init, Stock
    <2> QED
      BY <2>1, <2>3, <2>4
  <1>4. \A t \in Txn : LinesPushed(t)
    BY DEF Init, LinesPushed, InTransaction
  <1> QED
    BY <1>1, <1>3, <1>4 DEF SumInv, StockConserved, OrdersMatchCarts

LEMMA NextSumInv == IInv /\ SumInv /\ [Next]_vars => SumInv'
  BY NextConserves, NextLinesPushed, NextOrdersMatchCarts DEF SumInv

\* Every sum of the bookkeeping is exact in every reachable state: what is left
\* and what is sold, what the loop has pushed and what it has passed, an order
\* and the cart it was asked with.
THEOREM SumsExact == Spec => []SumInv
  BY InitSumInv, NextSumInv, BookkeepingExact, PTL DEF Spec

\* No overselling and no lost unit, for any number of requests and products:
\* stock and placed orders add up to what administrators put on sale.
THEOREM StockIsConserved == Spec => []StockConserved
  <1>1. SumInv => StockConserved
    BY DEF SumInv
  <1> QED
    BY <1>1, SumsExact, PTL

\* Every placed order is the whole cart of its request, whatever ids it spells
\* in several ways, and its total is that of its lines.
THEOREM OrdersAreWholeCarts == Spec => []OrdersMatchCarts
  <1>1. SumInv => OrdersMatchCarts
    BY DEF SumInv
  <1> QED
    BY <1>1, SumsExact, PTL

-----------------------------------------------------------------------------
(* Refusals *)

\* Whoever is refused for lack of stock has just compared a line with what it
\* read under the lock.
LEMMA RefusalIsInsufficientStock ==
    ASSUME IInv, [Next]_vars, NEW t \in Txn, outcome[t] = "none", outcome'[t] = "insufficient"
    PROVE  \E i \in Id : InsufficientStock(t, i)
  <1>0. TypeOK
    BY DEF IInv
  <1>1. CASE (\E c \in Carts : Begin(t, c)) \/ Step(t) \/ Fault(t)
    BY <1>0, <1>1
       DEF Begin, Step, LockById, ProductNotFound, SaveInTransaction, InsertOrder,
           TotalOutOfRange, DeadlockVictim, Rollback, Commit, Enqueue, Reload, Throw,
           Fault, Failure, DbError, CommitAckLost, EnqueueFails, ReloadFails, Crash, TypeOK
  <1>2. CASE ~ ((\E c \in Carts : Begin(t, c)) \/ Step(t) \/ Fault(t))
    <2>1. KeepsFor(t)
      BY <1>2, OthersKeep
    <2> QED
      BY <2>1 DEF KeepsFor
  <1> QED
    BY <1>1, <1>2

\* The part of the cart passed so far and one line more are within the cart.
LEMMA CartWantsLine ==
    ASSUME TypeOK, NEW t \in Txn, NEW i \in todo[t], NEW r, r = RowOf[i]
    PROVE  SumFunctionOnSet(cart[t], LinesOf(t, r, Passed(t))) + cart[t][i] <= Wanted(t, r)
  <1>1. PICK S : S = LinesOf(t, r, DOMAIN cart[t] \ (todo[t] \ {i}))
    OBVIOUS
  <1>2. PICK T : T = LinesOf(t, r, DOMAIN cart[t])
    OBVIOUS
  <1>3. IsFiniteSet(T) /\ S \in SUBSET T /\ T \subseteq DOMAIN cart[t]
    BY <1>1, <1>2, CartSums DEF LinesOf
  <1>4. \A j \in DOMAIN cart[t] : cart[t][j] \in Nat
    BY CartSums
  <1>5. SumFunctionOnSet(cart[t], S) <= SumFunctionOnSet(cart[t], T)
    BY <1>3, <1>4, SumMonotonic
  <1>6. SumFunctionOnSet(cart[t], S)
            = SumFunctionOnSet(cart[t], LinesOf(t, r, Passed(t))) + cart[t][i]
    BY <1>1, PassLine
  <1>7. SumFunctionOnSet(cart[t], T) = Wanted(t, r)
    BY <1>2 DEF LinesOf, Wanted
  <1> QED
    BY <1>5, <1>6, <1>7

LEMMA RefusalHasCause ==
    ASSUME IInv, SumInv, NEW t \in Txn, NEW i \in Id, InsufficientStock(t, i)
    PROVE  \E r \in Row : stock[r] < Wanted(t, r)
  <1>0. TypeOK /\ Workspace(t) /\ FreshSight(t) /\ LinesPushed(t)
    BY DEF IInv, SumInv
  <1>1. PICK r \in Row : r = RowOf[i]
    BY RowOfAssumption
  <1>2. /\ pc[t] = "save" /\ IsNext(t, i) /\ i \in todo[t]
        /\ ~ (cart[t][i] <= seen[t].stock)
    BY DEF InsufficientStock, IsNext, EnoughStock
  <1>3. seen[t].stock = Visible(t, r)
    <2>1. seen[t] = [stock |-> Visible(t, r), price |-> price[r]]
      BY <1>0, <1>1, <1>2 DEF FreshSight
    <2> QED
      BY <2>1
  <1>4. stock[r] \in Nat /\ written[t][r] \in Nat /\ items[t][r] \in Nat /\ cart[t][i] \in Nat
    BY <1>0, <1>2, BoundsAssumption, CartQuantity DEF TypeOK, Stock
  <1>5. Visible(t, r) + items[t][r] = stock[r]
    BY <1>0, <1>4 DEF Workspace, Visible
  <1>6. items[t][r] + cart[t][i] <= Wanted(t, r)
    <2>1. items[t][r] = SumFunctionOnSet(cart[t], LinesOf(t, r, Passed(t)))
      BY <1>0, <1>2 DEF LinesPushed, InTransaction, LinesOf, Passed
    <2> QED
      BY <1>0, <1>1, <1>2, <2>1, CartWantsLine
  <1>7. Wanted(t, r) \in Nat
    <2>1. SumFunctionOnSet(cart[t], LinesOf(t, r, DOMAIN cart[t])) \in Nat
      BY <1>0, CartSums
    <2> QED
      BY <2>1 DEF LinesOf, Wanted
  <1>8. Visible(t, r) \in Nat
    BY <1>4 DEF Visible
  <1> QED
    BY <1>2, <1>3, <1>4, <1>5, <1>6, <1>7, <1>8

\* 409 INSUFFICIENT_STOCK is the truth at the moment it is decided: the
\* committed stock of some product does not cover what the cart wants of it.
THEOREM RefusalsHaveACause == Spec => RefusedForCause
  <1>1. IInv /\ SumInv /\ [Next]_vars
        => [\A t \in Txn :
               (outcome[t] = "none" /\ outcome'[t] = "insufficient")
               => \E r \in Row : stock[r] < Wanted(t, r)]_vars
    BY RefusalIsInsufficientStock, RefusalHasCause
  <1> QED
    BY <1>1, BookkeepingExact, SumsExact, PTL DEF Spec, RefusedForCause

-----------------------------------------------------------------------------
(* OrderTx implements Inventory *)

LEMMA AbstractInit == Init => Abstract!Init
  BY BoundsAssumption
     DEF Init, Abstract!Init, Abstract!Quantities, PlacedOrders, Stock

\* COMMIT is the one step in which the abstract order is placed.
LEMMA CommitPlacesOrder ==
    ASSUME IInv, NEW t \in Txn, CommitEffects(t)
    PROVE  /\ items[t] \in Abstract!Quantities
           /\ Abstract!PlaceOrder(t, items[t])
  <1>0. TypeOK /\ Workspace(t) /\ LoopProgress(t) /\ OrderKnown(t)
    BY DEF IInv
  <1>1. ASSUME NEW r \in Row
        PROVE  /\ items[t][r] \in 0..MaxInt
               /\ items[t][r] <= stock[r]
               /\ stock'[r] = stock[r] - items[t][r]
               /\ items[t][r] > 0 <=> r \in dirty[t]
               /\ items[t][r] > 0 => listed[r]
               /\ unit[t][r] = IF items[t][r] > 0 THEN price[r] ELSE 0
    BY <1>0, BoundsAssumption
       DEF Workspace, CommitEffects, Visible, TypeOK, Stock
  <1>2. items[t] \in [Row -> 0..MaxInt]
    BY <1>0, <1>1 DEF TypeOK
  <1>3. \A o \in PlacedOrders : o.id # t
    BY <1>0 DEF PlacedOrders, OrderKnown, HasOrder, CommitEffects, Placed
  <1>4. \E r \in Row : items[t][r] > 0
    BY <1>0, <1>1 DEF LoopProgress, CommitEffects, TypeOK
  <1>5. stock' = [r \in Row |-> stock[r] - items[t][r]]
    BY <1>1 DEF CommitEffects
  <1>6. unit[t] = [r \in Row |-> IF items[t][r] > 0 THEN price[r] ELSE 0]
    BY <1>0, <1>1 DEF TypeOK
  <1>7. PlacedOrders' = PlacedOrders \cup
          {[id |-> t, qty |-> items[t], unitPrice |-> unit[t]]}
    <2>1. orders' = orders \cup {OrderOf(t)}
      BY DEF CommitEffects
    <2>2. /\ OrderOf(t).id = t /\ OrderOf(t).qty = items[t]
          /\ OrderOf(t).unitPrice = unit[t]
      BY DEF OrderOf
    <2> QED
      BY <2>1, <2>2 DEF PlacedOrders
  <1>8. price' = price /\ listed' = listed
    BY DEF CommitEffects
  <1> QED
    BY <1>1, <1>2, <1>3, <1>4, <1>5, <1>6, <1>7, <1>8
       DEF Abstract!PlaceOrder, Abstract!Quantities

LEMMA AbstractNext == IInv /\ [Next]_vars => [Abstract!Next]_(Abstract!vars)
  <1> SUFFICES ASSUME IInv, [Next]_vars
               PROVE  [Abstract!Next]_(Abstract!vars)
    OBVIOUS
  <1> USE DEF loopVars, lockVars, productVars, requestVars
  <1>1. ASSUME UNCHANGED <<stock, price, listed, orders>>
        PROVE  UNCHANGED Abstract!vars
    BY <1>1 DEF Abstract!vars, PlacedOrders
  <1>2. ASSUME NEW t \in Txn, CommitEffects(t)
        PROVE  Abstract!Next
    BY <1>2, CommitPlacesOrder DEF Abstract!Next
  <1>3. ASSUME NEW t \in Txn, Step(t)
        PROVE  [Abstract!Next]_(Abstract!vars)
    BY <1>1, <1>2, <1>3
       DEF Step, LockById, ProductNotFound, InsufficientStock,
           SaveInTransaction, InsertOrder, TotalOutOfRange, DeadlockVictim,
           Rollback, Commit, Enqueue, Reload, Throw
  <1>4. ASSUME NEW t \in Txn, Fault(t)
        PROVE  [Abstract!Next]_(Abstract!vars)
    BY <1>1, <1>2, <1>4
       DEF Fault, Failure, DbError, CommitAckLost, EnqueueFails, ReloadFails, Crash,
           Throw
  <1>5. ASSUME NEW t \in Txn, NEW c \in Carts, Begin(t, c)
        PROVE  UNCHANGED Abstract!vars
    BY <1>1, <1>5 DEF Begin
  <1>6. ASSUME NEW r \in Row, Admin(r)
        PROVE  Abstract!Next
    <2>0. TypeOK /\ TypeOK'
      BY NextTypeOK DEF IInv
    <2>1. ASSUME NEW s \in Stock, NEW p \in Prices, Update(r, s, p)
          PROVE  Abstract!UpdateRow(r)
      BY <2>0, <2>1, BoundsAssumption
         DEF Update, Abstract!UpdateRow, Abstract!Quantities, PlacedOrders,
             TypeOK, Stock
    <2>2. CASE SoftDelete(r)
      BY <2>2 DEF SoftDelete, Abstract!Delist, Abstract!Next, PlacedOrders
    <2> QED
      BY <1>6, <2>1, <2>2 DEF Admin, Abstract!Next
  <1>7. CASE UNCHANGED vars
    BY <1>1, <1>7 DEF vars
  <1> QED
    BY <1>3, <1>4, <1>5, <1>6, <1>7 DEF Next

\* Seen through the products and orders tables, the transactions of OrderTx
\* place each order in one indivisible step: no order takes stock that is not
\* there, charges a price that was not current, or takes effect in part.
THEOREM OrdersAreAtomic == Spec => PlacesOrdersAtomically
  BY AbstractInit, AbstractNext, BookkeepingExact, PTL
     DEF Spec, PlacesOrdersAtomically, Abstract!Spec

-----------------------------------------------------------------------------
(* OrderTx implements Publication *)

LEMMA CommitPlacesId ==
    ASSUME IInv, NEW t \in Txn, CommitEffects(t)
    PROVE  t \notin PlacedIds /\ PlacedIds' = PlacedIds \cup {t}
  <1>1. t \notin PlacedIds
    BY DEF IInv, OrderKnown, HasOrder, CommitEffects, Placed, PlacedIds
  <1>2. orders' = orders \cup {OrderOf(t)} /\ OrderOf(t).id = t
    BY DEF CommitEffects, OrderOf
  <1> QED
    BY <1>1, <1>2 DEF PlacedIds

LEMMA PublicationNext == IInv /\ [Next]_vars => [Jobs!PubNext]_(Jobs!pubVars)
  <1> SUFFICES ASSUME IInv, [Next]_vars
               PROVE  [Jobs!PubNext]_(Jobs!pubVars)
    OBVIOUS
  <1> USE DEF loopVars, lockVars, productVars, requestVars
  <1>0. sending \in [Txn -> SUBSET JobKinds]
    BY DEF IInv, TypeOK
  <1>1. ASSUME UNCHANGED <<orders, sending, jobs>>
        PROVE  UNCHANGED Jobs!pubVars
    BY <1>1 DEF Jobs!pubVars, PlacedIds
  <1>2. ASSUME NEW t \in Txn, Commit(t)
        PROVE  Jobs!Place(t)
    BY <1>2, CommitPlacesId DEF Commit, CommitEffects, Jobs!Place
  <1>3. ASSUME NEW t \in Txn, CommitAckLost(t)
        PROVE  Jobs!PlaceUnanswered(t)
    BY <1>3, CommitPlacesId DEF CommitAckLost, CommitEffects, Jobs!PlaceUnanswered
  <1>4. ASSUME NEW t \in Txn, NEW k \in JobKinds, Enqueue(t, k)
        PROVE  Jobs!Add(t, k)
    BY <1>4 DEF Enqueue, Jobs!Add, PlacedIds
  <1>5. ASSUME NEW t \in Txn, NEW k \in JobKinds, EnqueueFails(t, k)
        PROVE  Jobs!AddFails(t, k)
    BY <1>5 DEF EnqueueFails, Jobs!AddFails, PlacedIds
  <1>6. ASSUME NEW t \in Txn, Crash(t)
        PROVE  [Jobs!Drop(t)]_(Jobs!pubVars)
    <2>1. UNCHANGED <<orders, jobs>> /\ sending' = [sending EXCEPT ![t] = {}]
      BY <1>6 DEF Crash
    <2>2. CASE sending[t] = {}
      BY <1>0, <1>1, <2>1, <2>2
    <2>3. CASE sending[t] # {}
      BY <2>1, <2>3 DEF Jobs!Drop, PlacedIds
    <2> QED
      BY <2>2, <2>3
  <1>7. ASSUME NEW t \in Txn, Step(t)
        PROVE  [Jobs!PubNext]_(Jobs!pubVars)
    BY <1>1, <1>2, <1>4, <1>7
       DEF Step, LockById, ProductNotFound, InsufficientStock,
           SaveInTransaction, InsertOrder, TotalOutOfRange, DeadlockVictim,
           Rollback, Reload, Throw, Jobs!PubNext
  <1>8. ASSUME NEW t \in Txn, Fault(t)
        PROVE  [Jobs!PubNext]_(Jobs!pubVars)
    BY <1>1, <1>3, <1>5, <1>6, <1>8
       DEF Fault, Failure, DbError, ReloadFails, Throw, Jobs!PubNext
  <1>9. ASSUME \/ \E t \in Txn, c \in Carts : Begin(t, c)
               \/ \E r \in Row : Admin(r)
        PROVE  UNCHANGED Jobs!pubVars
    BY <1>1, <1>9 DEF Begin, Admin, Update, SoftDelete
  <1>10. CASE UNCHANGED vars
    BY <1>1, <1>10 DEF vars
  <1> QED
    BY <1>7, <1>8, <1>9, <1>10 DEF Next

\* Seen through the committed orders and the queues, order placement is the
\* producer that Fulfilment assumes: no job before COMMIT, none twice, and none
\* kept back but by a failure, whatever requests, failures and crashes do.
THEOREM PublicationFollowsCommit == Spec => PublishesAfterCommit
  <1>1. Init => Jobs!PubInit
    BY DEF Init, Jobs!PubInit, PlacedIds
  <1> QED
    BY <1>1, PublicationNext, BookkeepingExact, PTL
       DEF Spec, PublishesAfterCommit, Jobs!PubSpec

-----------------------------------------------------------------------------
(* Freedom from deadlock, when requests spell ids in one way only *)

\* Locks are taken in ascending order: those t holds rank below the rest of
\* its work, except the one it has just taken.
Ascends(t) ==
    \A i \in Id : \A j \in todo[t] :
        owner[RowOf[i]] = t =>
            /\ pc[t] = "save" => Rank[i] <= Rank[j]
            /\ pc[t] = "lock" => Rank[i] < Rank[j]

LocksAscend == \A t \in Txn : Ascends(t)

LEMMA OwnAscends ==
    ASSUME OneSpelling, IInv, NEW t \in Txn, Ascends(t),
           (\E c \in Carts : Begin(t, c)) \/ Step(t) \/ Fault(t)
    PROVE  Ascends(t)'
  <1> USE DEF loopVars, lockVars, productVars
  <1>0. TypeOK
    BY DEF IInv
  <1>1. ASSUME pc'[t] \notin {"save", "lock"}
        PROVE  Ascends(t)'
    BY <1>1 DEF Ascends
  <1>2. ASSUME NEW c \in Carts, Begin(t, c)
        PROVE  Ascends(t)'
    <2>1. \A r \in Row : owner[r] # t
      BY <1>2 DEF Begin, IInv, HoldsLocks, InTransaction
    <2> QED
      BY <1>2, <2>1, RowOfAssumption DEF Begin, Ascends
  <1>3. ASSUME NEW n \in Id, LockById(t, n)
        PROVE  Ascends(t)'
    <2>1. pc[t] = "lock" /\ pc'[t] = "save" /\ todo' = todo /\ IsNext(t, n)
      BY <1>0, <1>3 DEF LockById, TypeOK
    <2> SUFFICES ASSUME NEW i \in Id, NEW j \in todo[t], owner'[RowOf[i]] = t
                 PROVE  Rank[i] <= Rank[j]
      BY <2>1 DEF Ascends
    <2>2. j \in Id
      BY <1>0 DEF TypeOK
    <2>3. CASE owner[RowOf[i]] = t
      BY <2>1, <2>2, <2>3, RankAssumption DEF Ascends
    <2>4. CASE owner[RowOf[i]] # t
      <3>1. RowOf[i] = RowOf[n]
        BY <1>0, <1>3, <2>4, RowOfAssumption DEF LockById, TypeOK
      <3>2. i = n
        BY <3>1 DEF OneSpelling
      <3> QED
        BY <2>1, <3>2 DEF IsNext
    <2> QED
      BY <2>3, <2>4
  <1>4. ASSUME NEW n \in Id, SaveInTransaction(t, n)
        PROVE  Ascends(t)'
    <2>1. /\ pc[t] = "save" /\ pc'[t] # "save" /\ IsNext(t, n)
          /\ owner' = owner /\ todo'[t] = todo[t] \ {n}
      BY <1>0, <1>4 DEF SaveInTransaction, TypeOK
    <2> SUFFICES ASSUME NEW i \in Id, NEW j \in todo[t] \ {n},
                        owner[RowOf[i]] = t
                 PROVE  Rank[i] < Rank[j]
      BY <2>1 DEF Ascends
    <2>2. j \in Id /\ Rank[i] \in Nat /\ Rank[j] \in Nat /\ Rank[n] \in Nat
      BY <1>0, RankAssumption DEF TypeOK
    <2>3. Rank[i] <= Rank[j] /\ Rank[i] <= Rank[n]
      BY <2>1 DEF Ascends, IsNext
    <2>4. Rank[n] <= Rank[j] /\ Rank[n] # Rank[j]
      BY <2>1, <2>2, RankAssumption DEF IsNext
    <2> QED
      BY <2>2, <2>3, <2>4
  <1>5. CASE Step(t)
    <2>1. ASSUME NEW i \in Id, ProductNotFound(t, i) \/ InsufficientStock(t, i)
          PROVE  Ascends(t)'
      BY <1>0, <1>1, <2>1
         DEF ProductNotFound, InsufficientStock, Throw, TypeOK
    <2>2. CASE InsertOrder(t) \/ TotalOutOfRange(t) \/ DeadlockVictim(t)
      BY <1>0, <1>1, <2>2
         DEF InsertOrder, TotalOutOfRange, DeadlockVictim, Throw, TypeOK
    <2>3. CASE Rollback(t) \/ Commit(t) \/ Reload(t)
      BY <1>0, <1>1, <2>3 DEF Rollback, Commit, Reload, TypeOK
    <2>4. ASSUME NEW k \in JobKinds, Enqueue(t, k)
          PROVE  Ascends(t)'
      <3>1. pc'[t] \in {"reload", pc[t]}
        BY <1>0, <2>4 DEF Enqueue, TypeOK
      <3>2. pc[t] \notin {"save", "lock"}
        BY <2>4 DEF IInv, OrderKnown, Enqueue, Placed
      <3> QED
        BY <1>1, <3>1, <3>2
    <2> QED
      BY <1>3, <1>4, <1>5, <2>1, <2>2, <2>3, <2>4 DEF Step
  <1>6. CASE Fault(t)
    <2>1. CASE DbError(t) \/ CommitAckLost(t) \/ ReloadFails(t) \/ Crash(t)
      BY <1>0, <1>1, <2>1
         DEF DbError, CommitAckLost, ReloadFails, Crash, Throw, TypeOK
    <2>2. ASSUME NEW k \in JobKinds, EnqueueFails(t, k)
          PROVE  Ascends(t)'
      <3>1. pc'[t] \in {"reload", pc[t]}
        BY <1>0, <2>2 DEF EnqueueFails, TypeOK
      <3>2. pc[t] \notin {"save", "lock"}
        BY <2>2 DEF IInv, OrderKnown, EnqueueFails, Placed
      <3> QED
        BY <1>1, <3>1, <3>2
    <2> QED
      BY <1>6, <2>1, <2>2 DEF Fault, Failure
  <1> QED
    BY <1>2, <1>5, <1>6

LEMMA NextLocksAscend ==
    ASSUME OneSpelling, IInv, LocksAscend, [Next]_vars
    PROVE  LocksAscend'
  <1>1. ASSUME NEW t \in Txn
        PROVE  Ascends(t)'
    <2>0. Ascends(t)
      BY DEF LocksAscend, Ascends
    <2>1. CASE (\E c \in Carts : Begin(t, c)) \/ Step(t) \/ Fault(t)
      BY <2>0, <2>1, OwnAscends
    <2>2. CASE ~ ((\E c \in Carts : Begin(t, c)) \/ Step(t) \/ Fault(t))
      <3>1. KeepsFor(t)
        BY <2>2, OthersKeep
      <3> QED
        BY <2>0, <3>1, RowOfAssumption DEF KeepsFor, Ascends
    <2> QED
      BY <2>1, <2>2
  <1> QED
    BY <1>1 DEF LocksAscend, Ascends

\* Whoever is waited for, and waits itself, waits for a higher-ranked id.
LEMMA WaitingClimbs ==
    ASSUME IInv, LocksAscend, NEW t \in Txn, NEW u \in Txn, WaitsFor(t, u),
           NEW i \in Id, IsNext(t, i), NEW j \in Id, IsNext(u, j),
           pc[u] = "lock"
    PROVE  Rank[i] < Rank[j]
  <1>0. TypeOK
    BY DEF IInv
  <1>1. PICK n \in Id : IsNext(t, n) /\ owner[RowOf[n]] = u
    BY DEF WaitsFor
  <1>2. n = i
    BY <1>0, <1>1, NextIsUnique
  <1> QED
    BY <1>1, <1>2 DEF LocksAscend, Ascends, IsNext

LEMMA AscentForbidsCycles ==
    ASSUME IInv, LocksAscend
    PROVE  NoDeadlock
  <1> SUFFICES ASSUME NEW S \in SUBSET Txn, Cycle(S)
               PROVE  FALSE
    BY DEF NoDeadlock
  <1> DEFINE Ranks == {n \in Nat : \E t \in S, i \in Id :
                          IsNext(t, i) /\ Rank[i] = n}
  <1>1. ASSUME NEW t \in S
        PROVE  pc[t] = "lock" /\ \E i \in Id : IsNext(t, i) /\ Rank[i] \in Ranks
    BY RankAssumption DEF Cycle, WaitsFor
  <1>2. Ranks # {}
    BY <1>1 DEF Cycle
  <1>3. PICK m \in Ranks : \A n \in Ranks : ~ (n < m)
    BY <1>2, LeastElement
  <1>4. PICK u \in S, j \in Id : IsNext(u, j) /\ Rank[j] = m
    OBVIOUS
  <1>5. PICK t \in S : WaitsFor(t, u)
    BY DEF Cycle
  <1>6. PICK i \in Id : IsNext(t, i) /\ Rank[i] \in Ranks
    BY <1>1
  <1>7. Rank[i] < Rank[j]
    BY <1>1, <1>4, <1>5, <1>6, WaitingClimbs
  <1> QED
    BY <1>3, <1>4, <1>6, <1>7

\* Sorted lock acquisition prevents deadlock (order.service.ts:47-49), for any
\* number of requests and products, PROVIDED requests spell ids in one way:
\* the premise the code does not establish.
THEOREM NoDeadlockWithOneSpelling == OneSpelling /\ Spec => []NoDeadlock
  <1>1. Init => LocksAscend
    BY DEF Init, LocksAscend, Ascends
  <1>2. OneSpelling /\ IInv /\ LocksAscend /\ [Next]_vars => LocksAscend'
    BY NextLocksAscend
  <1>3. IInv /\ LocksAscend => NoDeadlock
    BY AscentForbidsCycles
  <1>4. SUFFICES ASSUME OneSpelling
                 PROVE  Spec => []NoDeadlock
    OBVIOUS
  <1>5. IInv /\ LocksAscend /\ [Next]_vars => LocksAscend'
    BY <1>2, <1>4
  <1> QED
    BY <1>1, <1>3, <1>5, BookkeepingExact, PTL DEF Spec
=============================================================================
