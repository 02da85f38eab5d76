----------------------------- MODULE StatsProofs -----------------------------
(***************************************************************************)
(* Theorems about the statistics, for any finite sets of tasks and types   *)
(* and any budgets: the counts of one reply agree, and the dead-letter     *)
(* depths account for the dead rows, although every part of the reply is   *)
(* read at another moment.                                                 *)
(*                                                                         *)
(* A sum is related to the size of a union of sets (SumBounds), by         *)
(* induction over the subsets of its index set, put as the existence of a  *)
(* smallest counterexample (LeastNat).                                     *)
(***************************************************************************)
EXTENDS Stats, TaskQueueProofs, FiniteSetTheorems, WellFoundedInduction

\* Every inhabited set of natural numbers has a least element.
LEMMA LeastNat ==
  ASSUME NEW T, T \subseteq Nat, T # {}
  PROVE  \E x \in T : \A y \in T : x <= y
<1>1. IsWellFoundedOn(OpToRel(<, Nat), Nat)
  BY NatLessThanWellFounded
<1>2. \E x \in T : \A y \in T : ~(<<y, x>> \in OpToRel(<, Nat))
  BY <1>1, WFMin
<1>3. \A x, y \in Nat : ~(<<y, x>> \in OpToRel(<, Nat)) => x <= y
  BY DEF OpToRel
<1> QED
  BY <1>2, <1>3
-----------------------------------------------------------------------------
(* Sums. *)

Pick(s) == CHOOSE x \in s : TRUE

\* g gives the sum of f over each of the sets in S.
Sums(g, f, S) ==
  g = [s \in S |-> IF s = {} THEN 0 ELSE f[Pick(s)] + g[s \ {Pick(s)}]]

\* The subsets of D with at most n elements.
Small(D, n) == {s \in SUBSET D : Cardinality(s) <= n}

\* Taking away the picked element leaves a set that is smaller by one.
LEMMA PickRemoves ==
  ASSUME NEW D, IsFiniteSet(D), NEW s \in SUBSET D, s # {}
  PROVE  /\ Pick(s) \in s /\ Pick(s) \in D
         /\ s \ {Pick(s)} \in SUBSET D
         /\ Cardinality(s) \in Nat /\ Cardinality(s) >= 1
         /\ Cardinality(s \ {Pick(s)}) = Cardinality(s) - 1
<1>1. Pick(s) \in s
  BY DEF Pick
<1>2. IsFiniteSet(s) /\ Cardinality(s) \in Nat
  BY FS_Subset, FS_CardinalityType
<1>3. Cardinality(s) # 0
  BY <1>2, FS_EmptySet
<1>4. Cardinality(s \ {Pick(s)}) = Cardinality(s) - 1
  BY <1>1, <1>2, FS_RemoveElement
<1> QED
  BY <1>1, <1>2, <1>3, <1>4

\* There is such a function for the subsets of every size.
LEMMA SumsExist ==
  ASSUME NEW f, NEW D, IsFiniteSet(D)
  PROVE  \A n \in Nat : \E g : Sums(g, f, Small(D, n))
<1> DEFINE T == {n \in Nat : ~\E g : Sums(g, f, Small(D, n))}
<1> SUFFICES ASSUME T # {}
             PROVE  FALSE
  OBVIOUS
<1>1. PICK n \in T : \A y \in T : n <= y
  BY LeastNat
<1>2. n # 0
  <2> DEFINE g == [s \in Small(D, 0) |-> 0]
  <2>1. \A s \in Small(D, 0) : s = {}
    <3> SUFFICES ASSUME NEW s \in SUBSET D, Cardinality(s) <= 0, s # {}
                 PROVE  FALSE
      BY DEF Small
    <3>1. Cardinality(s) \in Nat /\ Cardinality(s) >= 1
      BY PickRemoves, Zenon
    <3> QED
      BY <3>1
  <2>2. Sums(g, f, Small(D, 0))
    BY <2>1 DEF Sums
  <2> QED
    BY <2>2
<1>3. n \in Nat /\ n - 1 \in Nat /\ n - 1 \notin T
  BY <1>1, <1>2
<1>4. PICK g : Sums(g, f, Small(D, n - 1))
  BY <1>3
<1> DEFINE h == [s \in Small(D, n) |->
                   IF s = {} THEN 0 ELSE f[Pick(s)] + g[s \ {Pick(s)}]]
<1>5. \A s \in Small(D, n - 1) : s \in Small(D, n)
  <2> SUFFICES ASSUME NEW s \in SUBSET D, Cardinality(s) <= n - 1
               PROVE  Cardinality(s) <= n
    BY DEF Small
  <2>1. Cardinality(s) \in Nat
    BY FS_Subset, FS_CardinalityType
  <2> QED
    BY <1>3, <2>1
<1>6. \A s \in Small(D, n - 1) : h[s] = g[s]
  BY <1>4, <1>5 DEF Sums
<1>7. ASSUME NEW s \in Small(D, n), s # {}
      PROVE  s \ {Pick(s)} \in Small(D, n - 1)
  <2>1. s \in SUBSET D /\ Cardinality(s) <= n
    BY DEF Small
  <2>2. /\ s \ {Pick(s)} \in SUBSET D
        /\ Cardinality(s) \in Nat
        /\ Cardinality(s \ {Pick(s)}) = Cardinality(s) - 1
    BY <1>7, <2>1, PickRemoves
  <2>3. Cardinality(s \ {Pick(s)}) <= n - 1
    BY <1>3, <2>1, <2>2
  <2> QED
    BY <2>2, <2>3 DEF Small
<1>8. \A s \in Small(D, n) :
        h[s] = IF s = {} THEN 0 ELSE f[Pick(s)] + h[s \ {Pick(s)}]
  BY <1>6, <1>7
<1>9. Sums(h, f, Small(D, n))
  <2>1. h = [s \in Small(D, n) |-> h[s]]
    OBVIOUS
  <2> HIDE DEF h
  <2> QED
    BY <1>8, <2>1 DEF Sums
<1> QED
  BY <1>1, <1>9

\* What SumFunctionOnSet computes over a finite set.
LEMMA SumRecursion ==
  ASSUME NEW f, NEW D, IsFiniteSet(D)
  PROVE  \E g : Sums(g, f, SUBSET D) /\ SumFunctionOnSet(f, D) = g[D]
<1> DEFINE H == CHOOSE h : h = [s \in SUBSET D |->
                  IF s = {} THEN 0 ELSE f[Pick(s)] + h[s \ {Pick(s)}]]
<1>1. Cardinality(D) \in Nat /\ \A s \in SUBSET D : Cardinality(s) <= Cardinality(D)
  BY FS_Subset, FS_CardinalityType
<1>2. SUBSET D = Small(D, Cardinality(D))
  BY <1>1 DEF Small
<1>3. PICK g : Sums(g, f, SUBSET D)
  BY <1>1, <1>2, SumsExist
<1>4. H = [s \in SUBSET D |-> IF s = {} THEN 0 ELSE f[Pick(s)] + H[s \ {Pick(s)}]]
  BY <1>3 DEF Sums
<1>5. SumFunctionOnSet(f, D) = H[D]
  BY Zenon DEF SumFunctionOnSet, FoldFunctionOnSet, MapThenFoldSet, Pick
<1> HIDE DEF H
<1> QED
  BY <1>4, <1>5, Zenon DEF Sums

\* The elements of the sets A[d].
Union(A, s) == UNION {A[d] : d \in s}

\* A sum is at least the size of a union of sets that are no larger than the
\* summands; if these are exactly the sizes of disjoint sets, it is the size of
\* their union.
LEMMA SumBounds ==
  ASSUME NEW f, NEW D, IsFiniteSet(D), NEW A,
         \A d \in D : f[d] \in Nat /\ IsFiniteSet(A[d]) /\ Cardinality(A[d]) <= f[d]
  PROVE  /\ SumFunctionOnSet(f, D) \in Nat
         /\ Cardinality(Union(A, D)) <= SumFunctionOnSet(f, D)
         /\ (\A d, e \in D : d # e => A[d] \cap A[e] = {})
              /\ (\A d \in D : f[d] = Cardinality(A[d]))
            => SumFunctionOnSet(f, D) = Cardinality(Union(A, D))
<1>1. PICK g : Sums(g, f, SUBSET D) /\ SumFunctionOnSet(f, D) = g[D]
  BY SumRecursion
<1> DEFINE Exact == (\A d, e \in D : d # e => A[d] \cap A[e] = {})
                      /\ (\A d \in D : f[d] = Cardinality(A[d]))
           P(s) == /\ g[s] \in Nat
                   /\ IsFiniteSet(Union(A, s))
                   /\ Cardinality(Union(A, s)) <= g[s]
                   /\ Exact => g[s] = Cardinality(Union(A, s))
           T == {n \in Nat : \E s \in SUBSET D : Cardinality(s) = n /\ ~P(s)}
<1>2. \A s \in SUBSET D : Cardinality(s) \in Nat
  BY FS_Subset, FS_CardinalityType
<1>3. ASSUME T # {}
      PROVE  FALSE
  <2>1. PICK n \in T : \A y \in T : n <= y
    BY <1>3, LeastNat
  <2>2. PICK s \in SUBSET D : Cardinality(s) = n /\ ~P(s)
    OBVIOUS
  <2>3. s # {}
    <3>1. g[{}] = 0
      BY <1>1 DEF Sums
    <3>2. Union(A, {}) = {}
      BY DEF Union
    <3> QED
      BY <2>2, <3>1, <3>2, FS_EmptySet
  <2> DEFINE x == Pick(s)
             r == s \ {Pick(s)}
  <2>4. /\ x \in s /\ x \in D /\ r \in SUBSET D
        /\ n \in Nat /\ Cardinality(r) = n - 1 /\ n >= 1
    BY <2>2, <2>3, PickRemoves
  <2>5. g[s] = f[x] + g[r]
    BY <1>1, <2>2, <2>3 DEF Sums
  <2>6. s = r \cup {x} /\ x \notin r
    BY <2>4
  <2> HIDE DEF x, r
  <2>7. P(r)
    <3>1. n - 1 \in Nat /\ ~(n <= n - 1)
      BY <2>4
    <3>2. n - 1 \notin T
      BY <2>1, <3>1
    <3> QED
      BY <2>4, <3>1, <3>2
  <2>8. Union(A, s) = A[x] \cup Union(A, r)
    BY <2>6 DEF Union
  <2>9. f[x] \in Nat /\ IsFiniteSet(A[x]) /\ Cardinality(A[x]) <= f[x]
    BY <2>4
  <2>10. /\ IsFiniteSet(A[x] \cup Union(A, r))
         /\ Cardinality(A[x] \cup Union(A, r))
              = Cardinality(A[x]) + Cardinality(Union(A, r))
                  - Cardinality(A[x] \cap Union(A, r))
    BY <2>7, <2>9, FS_Union
  <2>11. /\ Cardinality(A[x]) \in Nat /\ Cardinality(Union(A, r)) \in Nat
         /\ Cardinality(A[x] \cap Union(A, r)) \in Nat
    BY <2>7, <2>9, FS_CardinalityType, FS_Intersection
  <2>12. Exact => Cardinality(A[x] \cap Union(A, r)) = 0
    <3>1. Exact => A[x] \cap Union(A, r) = {}
      BY <2>4, <2>6 DEF Union
    <3> QED
      BY <3>1, FS_EmptySet
  <2>13. Exact => f[x] = Cardinality(A[x])
    BY <2>4
  <2>14. P(s)
    <3> HIDE DEF Exact
    <3> QED
      BY <2>5, <2>7, <2>8, <2>9, <2>10, <2>11, <2>12, <2>13
  <2> QED
    BY <2>2, <2>14
<1>4. P(D)
  BY <1>2, <1>3
<1> QED
  BY <1>1, <1>4

-----------------------------------------------------------------------------
(* The handler. *)

StatsPC == {"idle", "types", "list", "depths", "done", "refused"}

\* The fields of the handler's state.
StatsRecord ==
  /\ \E a, b, c, d, e, z :
       stats = [pc |-> a, by_status |-> b, by_type |-> c, todo |-> d, queues |-> e,
                failed |-> z]
  /\ stats.pc \in StatsPC

StatsMeanwhile == StatsStep /\ UNCHANGED vars

\* Before the request nothing is counted.
LEMMA StatsStartInit ==
  ASSUME stats = StatsStart
  PROVE  StatsRecord /\ stats.pc = "idle"
<1>1. \E a, b, c, d, e, z :
        stats = [pc |-> a, by_status |-> b, by_type |-> c, todo |-> d, queues |-> e,
                 failed |-> z]
  BY Zenon DEF StatsStart
<1>2. stats.pc = "idle"
  BY DEF StatsStart
<1> QED
  BY <1>1, <1>2 DEF StatsRecord, StatsPC

\* The handler only reads.
LEMMA StatsStepType ==
  ASSUME TypeOK, StatsMeanwhile
  PROVE  TypeOK'
<1>1. [Next]_vars
  BY DEF StatsMeanwhile
<1> QED
  BY <1>1, NextType

\* The handler's state keeps its fields.
LEMMA StatsRecordStep ==
  ASSUME StatsRecord, StatsMeanwhile
  PROVE  StatsRecord'
<1>1. PICK a, b, c, d, e, z :
        stats = [pc |-> a, by_status |-> b, by_type |-> c, todo |-> d, queues |-> e,
                 failed |-> z]
  BY DEF StatsRecord
<1>2. CASE ListQueues \/ Reply \/ CountStatuses \/ CountTypes
  <2>1. stats' = Refused \/ stats' = [stats EXCEPT !.pc = "done"] \/
          \E n, m :
            \/ stats' = [stats EXCEPT !.pc = "types", !.by_status = n]
            \/ stats' = [stats EXCEPT !.pc = "types", !.by_status = n, !.failed = TRUE]
            \/ stats' = [stats EXCEPT !.pc = "list", !.by_type = n]
            \/ stats' = [stats EXCEPT !.pc = "list", !.by_type = n, !.failed = TRUE]
            \/ stats' = [stats EXCEPT !.pc = "depths", !.todo = n, !.queues = m]
    BY <1>2, Zenon DEF CountStatuses, CountTypes, ListQueues, Reply
  <2> QED
    BY <1>1, <2>1 DEF StatsRecord, StatsPC, Refused, StatsStart
<1>3. ASSUME NEW ty, ReadDepth(ty)
      PROVE  StatsRecord'
  <2>1. \E n, y : stats' = [stats EXCEPT !.queues[ty] = Append(@, n),
                                         !.todo = IF Len(stats.queues[ty]) + 1 = 3
                                                  THEN @ \ {ty} ELSE @,
                                         !.failed = y]
    BY <1>3 DEF ReadDepth
  <2> QED
    BY <1>1, <2>1 DEF StatsRecord
<1> QED
  BY <1>2, <1>3 DEF StatsMeanwhile, StatsStep
-----------------------------------------------------------------------------
(* Rows are only added. *)

Rowed == {t \in Tasks : HasRow(t)}

\* What the counts are worth at any later moment.
CountedRows ==
  /\ stats.pc \in {"types", "list", "depths", "done"} =>
       /\ SumFunction(stats.by_status) \in Nat
       /\ SumFunction(stats.by_status) <= Cardinality(Rowed)
  /\ stats.pc \in {"list", "depths", "done"} =>
       /\ SumFunction(stats.by_type) \in Nat
       /\ SumFunction(stats.by_type) <= Cardinality(Rowed)
       /\ ~stats.failed => SumFunction(stats.by_status) <= SumFunction(stats.by_type)

\* A set of tasks is finite, and a part of it no larger.
LEMMA TasksFinite ==
  ASSUME NEW S \in SUBSET Tasks
  PROVE  /\ IsFiniteSet(S) /\ Cardinality(S) \in Nat
         /\ \A R \in SUBSET S : Cardinality(R) <= Cardinality(S)
BY StatsAssumption, FS_Subset, FS_CardinalityType

\* The sizes of the groups of rows add up to the rows, and the sizes of some of
\* the groups to no more than that.
LEMMA GroupSum ==
  ASSUME NEW D, IsFiniteSet(D), NEW A,
         \A d \in D : A[d] \in SUBSET Rowed,
         \A d, e \in D : d # e => A[d] \cap A[e] = {},
         Union(A, D) = Rowed,
         NEW f, f = [d \in D |-> Cardinality(A[d])]
  PROVE  /\ SumFunction(f) = Cardinality(Rowed)
         /\ \A c \in Partly(f) :
              SumFunction(c) \in Nat /\ SumFunction(c) <= Cardinality(Rowed)
<1>0. \A d \in D : A[d] \in SUBSET Tasks
  BY DEF Rowed
<1>1. SumFunction(f) = Cardinality(Rowed)
  <2>1. \A d \in D : f[d] \in Nat /\ IsFiniteSet(A[d]) /\ Cardinality(A[d]) <= f[d]
    BY <1>0, TasksFinite
  <2>2. \A d \in D : f[d] = Cardinality(A[d])
    OBVIOUS
  <2>3. SumFunctionOnSet(f, D) = Cardinality(Rowed)
    BY <2>1, <2>2, SumBounds
  <2>4. DOMAIN f = D
    OBVIOUS
  <2> QED
    BY <2>3, <2>4 DEF SumFunction
<1>2. ASSUME NEW c \in Partly(f)
      PROVE  SumFunction(c) \in Nat /\ SumFunction(c) <= Cardinality(Rowed)
  <2>1. PICK read \in SUBSET D : c = [k \in D |-> IF k \in read THEN f[k] ELSE 0]
    BY DEF Partly
  <2> DEFINE B == [d \in D |-> IF d \in read THEN A[d] ELSE {}]
  <2>2. \A d \in D : B[d] \in SUBSET Tasks /\ c[d] = Cardinality(B[d])
    BY <1>0, <2>1, FS_EmptySet
  <2>3. \A d \in D : c[d] \in Nat /\ IsFiniteSet(B[d]) /\ Cardinality(B[d]) <= c[d]
    BY <2>2, TasksFinite
  <2>4. \A d, e \in D : d # e => B[d] \cap B[e] = {}
    OBVIOUS
  <2>5. Union(B, D) \in SUBSET Rowed /\ Rowed \in SUBSET Tasks
    BY DEF Union, Rowed
  <2>6. DOMAIN c = D
    BY <2>1
  <2> HIDE DEF B
  <2>7. /\ SumFunctionOnSet(c, D) \in Nat
        /\ SumFunctionOnSet(c, D) = Cardinality(Union(B, D))
    BY <2>2, <2>3, <2>4, SumBounds
  <2>8. Cardinality(Union(B, D)) <= Cardinality(Rowed)
    BY <2>5, TasksFinite
  <2> QED
    BY <2>6, <2>7, <2>8 DEF SumFunction
<1> QED
  BY <1>1, <1>2

\* The counts by status add up to the rows.
LEMMA StatusSum ==
  ASSUME TypeOK
  PROVE  /\ SumFunction(StatusCounts) = Cardinality(Rowed)
         /\ \A c \in Partly(StatusCounts) :
              SumFunction(c) \in Nat /\ SumFunction(c) <= Cardinality(Rowed)
<1> DEFINE A == [st \in Statuses |-> {t \in Tasks : tasks[t].status = st}]
<1>1. IsFiniteSet(Statuses)
  <2>1. Statuses = (((((({} \cup {"queued"}) \cup {"running"}) \cup {"succeeded"}) \cup
                       {"failed"}) \cup {"retrying"}) \cup {"dead"}) \cup {"canceled"}
    BY DEF Statuses
  <2> QED
    BY <2>1, FS_EmptySet, FS_AddElement
<1>2. \A t \in Tasks : tasks[t].status \in Statuses \cup {"absent"}
  BY DEF TypeOK, StoreTypeOK, Row
<1>3. "absent" \notin Statuses
  BY DEF Statuses
<1>4. \A st \in Statuses : A[st] \in SUBSET Rowed
  BY <1>3 DEF Rowed, HasRow
<1>5. \A d, e \in Statuses : d # e => A[d] \cap A[e] = {}
  OBVIOUS
<1>6. Union(A, Statuses) = Rowed
  BY <1>2, <1>3 DEF Union, Rowed, HasRow
<1>7. StatusCounts = [st \in Statuses |-> Cardinality(A[st])]
  BY DEF StatusCounts
<1> HIDE DEF A
<1> QED
  BY <1>1, <1>4, <1>5, <1>6, <1>7, GroupSum

\* The counts by type do, too.
LEMMA TypeSum ==
  ASSUME TypeOK
  PROVE  /\ SumFunction(TypeCounts) = Cardinality(Rowed)
         /\ \A c \in Partly(TypeCounts) :
              SumFunction(c) \in Nat /\ SumFunction(c) <= Cardinality(Rowed)
<1> DEFINE A == [ty \in Types |-> {t \in Tasks : tasks[t].status # "absent"
                                                  /\ TypeOf(t) = ty}]
<1>1. \A t \in Tasks : TypeOf(t) \in Types
  BY TaskAssumption DEF TypeOf
<1>2. \A ty \in Types : A[ty] \in SUBSET Rowed
  BY DEF Rowed, HasRow
<1>3. \A d, e \in Types : d # e => A[d] \cap A[e] = {}
  OBVIOUS
<1>4. Union(A, Types) = Rowed
  BY <1>1 DEF Union, Rowed, HasRow
<1>5. TypeCounts = [ty \in Types |-> Cardinality(A[ty])]
  BY DEF TypeCounts
<1> HIDE DEF A
<1> QED
  BY <1>2, <1>3, <1>4, <1>5, StatsAssumption, GroupSum

\* While the system goes on, no row is lost.
LEMMA CountedNext ==
  ASSUME TypeOK, CountedRows, [Next]_vars, UNCHANGED stats
  PROVE  CountedRows'
<1>1. Rowed \in SUBSET Rowed' /\ Rowed' \in SUBSET Tasks
  BY RowsStay DEF Rowed
<1>2. Cardinality(Rowed) <= Cardinality(Rowed') /\ Cardinality(Rowed) \in Nat
      /\ Cardinality(Rowed') \in Nat
  BY <1>1, TasksFinite
<1>3. SumFunction(stats.by_status)' = SumFunction(stats.by_status)
      /\ SumFunction(stats.by_type)' = SumFunction(stats.by_type)
  OBVIOUS
<1> QED
  BY <1>2, <1>3 DEF CountedRows

\* Every query of the handler.
LEMMA CountedStep ==
  ASSUME TypeOK, StatsRecord, CountedRows, StatsMeanwhile
  PROVE  CountedRows'
<1>r. PICK a, b, c, d, e, z :
        stats = [pc |-> a, by_status |-> b, by_type |-> c, todo |-> d, queues |-> e,
                 failed |-> z]
  BY DEF StatsRecord
<1>0. Rowed' = Rowed /\ Rowed \in SUBSET Tasks
  BY DEF StatsMeanwhile, Rowed, HasRow, vars, storeVars
<1>n. Cardinality(Rowed) \in Nat
  BY <1>0, TasksFinite
<1>1. CASE stats' = Refused
  BY <1>1 DEF CountedRows, Refused, StatsStart
<1>2. CASE CountStatuses /\ stats' # Refused
  <2>1. PICK f : /\ SumFunction(f) \in Nat /\ SumFunction(f) <= Cardinality(Rowed)
                 /\ \/ stats' = [stats EXCEPT !.pc = "types", !.by_status = f]
                    \/ stats' = [stats EXCEPT !.pc = "types", !.by_status = f,
                                              !.failed = TRUE]
    <3>1. CASE stats' = [stats EXCEPT !.pc = "types", !.by_status = StatusCounts]
      <4>1. /\ SumFunction(StatusCounts) \in Nat
            /\ SumFunction(StatusCounts) <= Cardinality(Rowed)
            /\ SumFunction(StatusCounts) = Cardinality(Rowed)
        BY <1>n, StatusSum
      <4> QED
        BY <3>1, <4>1, Zenon
    <3>2. CASE \E some \in Partly(StatusCounts) :
                 stats' = [stats EXCEPT !.pc = "types", !.by_status = some, !.failed = TRUE]
      BY <3>2, StatusSum
    <3> QED
      BY <1>2, <3>1, <3>2 DEF CountStatuses
  <2>2. stats'.pc = "types" /\ stats'.by_status = f
    BY <1>r, <2>1
  <2> QED
    BY <1>0, <2>1, <2>2 DEF CountedRows
<1>3. CASE CountTypes /\ stats' # Refused
  <2>1. PICK f : /\ SumFunction(f) \in Nat /\ SumFunction(f) <= Cardinality(Rowed)
                 /\ \/ /\ stats' = [stats EXCEPT !.pc = "list", !.by_type = f]
                       /\ SumFunction(f) = Cardinality(Rowed)
                    \/ stats' = [stats EXCEPT !.pc = "list", !.by_type = f,
                                              !.failed = TRUE]
    <3>1. CASE stats' = [stats EXCEPT !.pc = "list", !.by_type = TypeCounts]
      <4>1. /\ SumFunction(TypeCounts) \in Nat
            /\ SumFunction(TypeCounts) <= Cardinality(Rowed)
            /\ SumFunction(TypeCounts) = Cardinality(Rowed)
        BY <1>n, TypeSum
      <4> QED
        BY <3>1, <4>1, Zenon
    <3>2. CASE \E some \in Partly(TypeCounts) :
                 stats' = [stats EXCEPT !.pc = "list", !.by_type = some, !.failed = TRUE]
      BY <3>2, TypeSum
    <3> QED
      BY <1>3, <3>1, <3>2 DEF CountTypes
  <2>2. /\ stats'.pc = "list" /\ stats'.by_type = f
        /\ stats'.by_status = stats.by_status
        /\ ~stats'.failed => SumFunction(f) = Cardinality(Rowed)
    BY <1>r, <2>1
  <2>3. stats.pc = "types"
    BY <1>3 DEF CountTypes
  <2> QED
    BY <1>0, <2>1, <2>2, <2>3 DEF CountedRows
<1>4. CASE /\ stats'.by_status = stats.by_status /\ stats'.by_type = stats.by_type
           /\ ~stats'.failed => ~stats.failed
           /\ stats.pc \in {"list", "depths"} /\ stats'.pc \in {"depths", "done"}
  BY <1>0, <1>4 DEF CountedRows
<1>5. CASE ListQueues /\ stats' # Refused
  <2>1. stats.pc = "list" /\ \E x, y : stats' = [stats EXCEPT !.pc = "depths", !.todo = x,
                                                              !.queues = y]
    BY <1>5 DEF ListQueues
  <2> QED
    BY <1>r, <1>4, <2>1
<1>6. CASE Reply
  BY <1>r, <1>4, <1>6 DEF Reply
<1>7. ASSUME NEW ty, ReadDepth(ty)
      PROVE  CountedRows'
  <2>1. stats.pc = "depths" /\
        \E x, y, u : /\ stats' = [stats EXCEPT !.queues[ty] = x, !.todo = y, !.failed = u]
                     /\ u = stats.failed \/ u = TRUE
    BY <1>7 DEF ReadDepth
  <2> QED
    BY <1>r, <1>4, <2>1
<1> QED
  BY <1>1, <1>2, <1>3, <1>5, <1>6, <1>7 DEF StatsMeanwhile, StatsStep

\* A reply never counts more rows than there are, and unless one of its
\* commands failed its total by type covers the total by status that was read
\* before it, for any number of rows that are written between the two queries
\* and whichever of the groups were read.
THEOREM RepliesAgree == StatsSpec => []CountsAgree
<1> DEFINE Inv == TypeOK /\ StatsRecord /\ CountedRows
           Change == [(Next /\ UNCHANGED stats) \/ StatsMeanwhile]_allVars
<1>1. Init /\ stats = StatsStart => Inv
  BY InitType, StatsStartInit DEF CountedRows
<1>2. Inv /\ Change => Inv'
  <2> SUFFICES ASSUME Inv, Change
               PROVE  Inv'
    OBVIOUS
  <2>1. CASE StatsMeanwhile
    BY <2>1, StatsStepType, StatsRecordStep, CountedStep
  <2>2. CASE [Next]_vars /\ UNCHANGED stats
    BY <2>2, NextType, CountedNext DEF StatsRecord
  <2> QED
    BY <2>1, <2>2 DEF allVars
<1>3. Inv => CountsAgree
  BY DEF CountedRows, CountsAgree, Rowed, HasRow
<1> QED
  BY <1>1, <1>2, <1>3, PTL DEF StatsSpec, StatsMeanwhile

-----------------------------------------------------------------------------
(* While no command failed, a dead row has an entry in the Redis list.      *)

\* No command has failed.
Clean == budget["error"] = Budget["error"]

\* The jobs of a worker that is not running are gone.
Resting ==
  \A w \in Workers : loop[w] # "running" => \A s \in Slots : job[w][s].pc = "idle"

\* Whoever is about to write a dead row has pushed the entry, and so had the
\* one who wrote it.  A canceled worker may have failed to push; it will also
\* fail to write.
Entered ==
  /\ \A t \in Tasks : tasks[t].status = "dead" => dlq[t] >= 1
  /\ \A w \in Workers, s \in Slots :
       job[w][s].pc = "pushed" /\ w \notin canceled => dlq[job[w][s].env.id] >= 1
  /\ co.pc = "mark" => dlq[co.dead] >= 1

\* Steps that neither push an entry nor write a dead row.
LEMMA EnteredFrame ==
  ASSUME Entered, dlq' = dlq,
         \A t \in Tasks : tasks'[t].status = "dead" => tasks[t].status = "dead",
         \A w \in Workers, s \in Slots :
           job'[w][s].pc = "pushed" /\ w \notin canceled' =>
             job'[w][s] = job[w][s] /\ w \notin canceled,
         co'.pc = "mark" => co' = co
  PROVE  Entered'
BY DEF Entered

\* The push.
LEMMA PushEnters ==
  ASSUME TypeOK, Entered, NEW e \in Envelope, DeadLetter(e), tasks' = tasks,
         canceled' = canceled,
         \A w \in Workers, s \in Slots :
           job'[w][s].pc = "pushed" => job'[w][s] = job[w][s] \/ job'[w][s].env.id = e.id,
         co'.pc = "mark" => co' = co \/ co'.dead = e.id
  PROVE  Entered'
<1>0. e.id \in Tasks /\ dlq \in [Tasks -> Nat] /\ WorkerTypeOK /\ CoordinatorTypeOK
  BY EnvelopeFields DEF TypeOK, QueueTypeOK
<1>1. \A t \in Tasks : dlq'[t] = IF t = e.id THEN dlq[t] + 1 ELSE dlq[t]
  BY <1>0 DEF DeadLetter
<1>2. dlq'[e.id] >= 1 /\ \A t \in Tasks : dlq[t] >= 1 => dlq'[t] >= 1
  BY <1>0, <1>1
<1>3. \A w \in Workers, s \in Slots :
        job[w][s].pc = "pushed" => job[w][s].env.id \in Tasks
  BY <1>0, JobEnvelope
<1>4. ASSUME NEW w \in Workers, NEW s \in Slots, job'[w][s].pc = "pushed", w \notin canceled'
      PROVE  dlq'[job'[w][s].env.id] >= 1
  BY <1>2, <1>3, <1>4 DEF Entered
<1>5. ASSUME co'.pc = "mark"
      PROVE  dlq'[co'.dead] >= 1
  BY <1>0, <1>2, <1>5 DEF Entered, CoordinatorTypeOK
<1> QED
  BY <1>2, <1>4, <1>5 DEF Entered

\* The row, by one who has pushed.
LEMMA BuryEnters ==
  ASSUME TypeOK, Entered, NEW d \in Tasks, dlq[d] >= 1, MarkDead(d), dlq' = dlq,
         canceled' = canceled,
         \A w \in Workers, s \in Slots :
           job'[w][s].pc = "pushed" => job'[w][s] = job[w][s],
         co'.pc = "mark" => co' = co
  PROVE  Entered'
<1>1. \A t \in Tasks : t # d => tasks'[t] = tasks[t]
  BY DEF TypeOK, StoreTypeOK, MarkDead
<1> QED
  BY <1>1 DEF Entered

\* Every step of a worker.
LEMMA WorkerEnters ==
  ASSUME TypeOK, Resting, Entered, WorkerNext, UNCHANGED <<co, api>>
  PROVE  Entered' \/ Spend("error")
<1>0. QueueTypeOK /\ StoreTypeOK /\ WorkerTypeOK
  BY DEF TypeOK
<1>w. PICK w \in Workers :
        \/ ProcessStep(w)
        \/ \E s \in Slots : PollStep(w, s) \/ JobStep(w, s)
  BY DEF WorkerNext
<1>1. CASE ProcessStep(w)
  <2>1. UNCHANGED <<dlq, tasks>>
    BY <1>1 DEF ProcessStep, Register, FirstHeartbeat, StartupError, BeatTick, TouchTick,
                Sigterm, Leave, Crash, Heartbeat, UpsertWorker, TouchWorker,
                MarkWorkerDead, queueVars, storeVars
  <2>2. /\ \A v \in Workers : v # w => loop'[v] = loop[v] /\ job'[v] = job[v]
        /\ \A v \in Workers : v # w => (v \in canceled' <=> v \in canceled)
    BY <1>0, <1>1 DEF ProcessStep, Register, FirstHeartbeat, StartupError, BeatTick,
                      TouchTick, Sigterm, Leave, Crash, Halt, WorkerTypeOK
  <2>3. CASE Register(w) \/ FirstHeartbeat(w) \/ StartupError(w)
    <3>1. job' = job /\ loop[w] # "running"
      BY <2>3 DEF Register, FirstHeartbeat, StartupError
    <3>2. \A s \in Slots : job'[w][s].pc = "idle"
      BY <3>1 DEF Resting
    <3> QED
      BY <2>1, <2>2, <3>2, EnteredFrame
  <2>4. CASE BeatTick(w) \/ TouchTick(w) \/ Sigterm(w)
    <3>1. job' = job /\ loop' = loop /\ canceled \subseteq canceled'
      BY <2>4 DEF BeatTick, TouchTick, Sigterm
    <3> QED
      BY <2>1, <3>1, EnteredFrame
  <2>5. CASE Leave(w) \/ Crash(w)
    <3>1. \A s \in Slots : job'[w][s].pc = "idle"
      BY <1>0, <2>5 DEF Leave, Crash, Halt, WorkerTypeOK, IdleJob
    <3> QED
      BY <2>1, <2>2, <3>1, EnteredFrame
  <2> QED
    BY <1>1, <2>3, <2>4, <2>5 DEF ProcessStep
<1>2. ASSUME NEW s \in Slots, PollStep(w, s)
      PROVE  Entered'
  <2>1. UNCHANGED <<dlq, tasks, canceled>>
    BY <1>2 DEF PollStep, LeaseTask, LeaseEmpty, LeaseError, Lease, CanPoll, queueVars,
                storeVars
  <2>2. job' = job \/ \E e : job' = [job EXCEPT ![w][s] = [pc |-> "leased", env |-> e]]
    BY <1>2 DEF PollStep, LeaseTask, LeaseEmpty, LeaseError
  <2>3. \A v \in Workers, r \in Slots : job'[v][r].pc = "pushed" => job'[v][r] = job[v][r]
    <3>1. CASE job' = job
      BY <3>1
    <3>2. ASSUME NEW e, job' = [job EXCEPT ![w][s] = [pc |-> "leased", env |-> e]]
          PROVE  \A v \in Workers, r \in Slots :
                   job'[v][r].pc = "pushed" => job'[v][r] = job[v][r]
      <4>1. \A v \in Workers, r \in Slots :
              job'[v][r] = IF v = w /\ r = s THEN [pc |-> "leased", env |-> e]
                                            ELSE job[v][r]
        BY <1>0, <3>2 DEF WorkerTypeOK
      <4> QED
        BY <4>1
    <3> QED
      BY <2>2, <3>1, <3>2
  <2> QED
    BY <2>1, <2>3, EnteredFrame
<1>3. ASSUME NEW s \in Slots, JobStep(w, s)
      PROVE  Entered' \/ Spend("error")
  <2> DEFINE e == job[w][s].env
  <2>1. canceled' = canceled /\ job[w][s].pc # "idle"
    BY <1>3 DEF JobStep, Unhandled, Start, Succeed, RecordSuccess, Fail, PushDead, RecordDead,
                Schedule, RecordRetry, Step, Finish
  <2>2. e \in Envelope /\ e.id \in Tasks
    BY <1>0, <2>1, JobEnvelope
  <2>3. \A v \in Workers, r \in Slots : <<v, r>> # <<w, s>> => job'[v][r] = job[v][r]
    BY <1>0, <1>3 DEF JobStep, Unhandled, Start, Succeed, RecordSuccess, Fail, PushDead,
                      RecordDead, Schedule, RecordRetry, Step, Finish, WorkerTypeOK
  <2>4. CASE PushDead(w, s)
    <3>1. job'[w][s] = [pc |-> "pushed", env |-> e] /\ tasks' = tasks
      BY <1>0, <2>4 DEF PushDead, Step, WorkerTypeOK, storeVars
    <3>2. CASE DeadLetter(e)
      <4>1. \A v \in Workers, r \in Slots :
              job'[v][r].pc = "pushed" => job'[v][r] = job[v][r] \/ job'[v][r].env.id = e.id
        BY <2>3, <3>1
      <4> HIDE DEF e
      <4> QED
        BY <2>1, <2>2, <3>1, <3>2, <4>1, PushEnters
    <3>3. CASE w \in canceled /\ UNCHANGED queueVars
      <4>1. \A v \in Workers, r \in Slots :
              job'[v][r].pc = "pushed" /\ v \notin canceled' =>
                job'[v][r] = job[v][r] /\ v \notin canceled
        BY <2>1, <2>3, <3>3
      <4> QED
        BY <3>1, <3>3, <4>1, EnteredFrame DEF queueVars
    <3> QED
      BY <2>4, <3>2, <3>3 DEF PushDead, CommandFails
  <2>5. CASE RecordDead(w, s)
    <3>1. job[w][s].pc = "pushed" /\ job'[w][s].pc = "idle" /\ dlq' = dlq
      BY <1>0, <2>5 DEF RecordDead, Finish, WorkerTypeOK, IdleJob, queueVars
    <3>2. \A v \in Workers, r \in Slots : job'[v][r].pc = "pushed" => job'[v][r] = job[v][r]
      BY <2>3, <3>1
    <3>3. CASE CommandSucceeds(w) /\ MarkDead(e.id)
      <4>1. dlq[e.id] >= 1
        BY <3>1, <3>3 DEF Entered, CommandSucceeds
      <4> HIDE DEF e
      <4> QED
        BY <2>1, <2>2, <3>1, <3>2, <3>3, <4>1, BuryEnters
    <3>4. CASE UNCHANGED storeVars
      BY <2>1, <3>1, <3>2, <3>4, EnteredFrame DEF storeVars
    <3> QED
      BY <2>5, <3>3, <3>4 DEF RecordDead
  <2>6. CASE ~PushDead(w, s) /\ ~RecordDead(w, s)
    <3>1. job'[w][s].pc # "pushed"
      BY <1>0, <1>3, <2>6 DEF JobStep, Unhandled, Start, Succeed, RecordSuccess, Fail,
                Schedule, RecordRetry, Step, Finish, WorkerTypeOK, IdleJob
    <3>2. dlq' = dlq
      BY <1>3, <2>6 DEF JobStep, Unhandled, Start, Succeed, RecordSuccess, Fail,
                Schedule, RecordRetry, Ack, Nack, EnqueueDelayed, queueVars
    <3>3. \/ tasks' = tasks
          \/ MarkSucceeded(e.id) \/ MarkRetry(e.id) \/ MarkRunning(e.id, w)
      BY <1>3, <2>6 DEF JobStep, Unhandled, Start, Succeed, RecordSuccess, Fail,
                Schedule, RecordRetry, storeVars
    <3>4. \A t \in Tasks : tasks'[t].status = "dead" => tasks[t].status = "dead"
      BY <1>0, <2>2, <3>3, NoneDies
    <3>5. \A v \in Workers, r \in Slots : job'[v][r].pc = "pushed" => job'[v][r] = job[v][r]
      BY <2>3, <3>1
    <3> QED
      BY <2>1, <3>2, <3>4, <3>5, EnteredFrame
  <2> QED
    BY <2>4, <2>5, <2>6
<1> QED
  BY <1>w, <1>1, <1>2, <1>3

\* Every step of the coordinator.
LEMMA CoordinatorEnters ==
  ASSUME TypeOK, Entered, CoordinatorNext
  PROVE  Entered' \/ Spend("error")
<1>0. CoordinatorTypeOK /\ StoreTypeOK
  BY DEF TypeOK
<1>1. UNCHANGED <<job, canceled>>
  BY DEF CoordinatorNext, workerVars
<1>2. ASSUME NEW e \in co.batch, PushExhausted(e), ~Spend("error")
      PROVE  Entered'
  <2> DEFINE e1 == [e EXCEPT !.attempts = @ + 1]
  <2>1. e1 \in Envelope /\ e1.id = e.id
    BY <1>0 DEF CoordinatorTypeOK, Envelope
  <2>2. DeadLetter(e1) /\ UNCHANGED storeVars /\ co'.dead = e.id
    BY <1>0, <1>2 DEF PushExhausted, CoordinatorTypeOK, Fault
  <2> HIDE DEF e1
  <2> QED
    BY <1>1, <2>1, <2>2, PushEnters DEF storeVars
<1>3. CASE MarkExhausted /\ ~Spend("error")
  <2>1. /\ co.pc = "mark" /\ co.dead \in Tasks /\ MarkDead(co.dead) /\ dlq' = dlq
        /\ co'.pc = "requeue"
    BY <1>0, <1>3 DEF MarkExhausted, At, CoordinatorTypeOK, queueVars, Fault
  <2>2. dlq[co.dead] >= 1
    BY <2>1 DEF Entered
  <2>3. co'.pc = "mark" => co' = co
    BY <2>1
  <2>4. \A v \in Workers, r \in Slots : job'[v][r].pc = "pushed" => job'[v][r] = job[v][r]
    BY <1>1
  <2> QED
    BY <1>1, <2>1, <2>2, <2>3, <2>4, BuryEnters
<1>4. CASE ~MarkExhausted /\ ~\E e \in co.batch : PushExhausted(e)
  <2>1. UNCHANGED dlq
    BY <1>4 DEF CoordinatorNext, CoStep, CoCrash, Tick, MoveDue, PromoteDone, ReadDue,
         ReadWorkers, SweepDone, ReadInflight, RequeueDone, CheckAlive, DelHash,
         Requeue, ResetOrphans, FlagDead, DelInflight, Promote, Enqueue, queueVars
  <2>2. tasks' = tasks \/ (At("orphans") /\ RequeueOrphans(co.worker))
    BY <1>4 DEF CoordinatorNext, CoStep, CoCrash, Tick, MoveDue, PromoteDone, ReadDue,
         ReadWorkers, SweepDone, ReadInflight, RequeueDone, CheckAlive, DelHash,
         Requeue, ResetOrphans, FlagDead, MarkWorkerDead, storeVars
  <2>3. At("orphans") => co.worker \in Workers
    BY <1>0 DEF CoordinatorTypeOK, At
  <2>4. ASSUME NEW t \in Tasks
        PROVE  tasks'[t].status = "dead" => tasks[t].status = "dead"
    BY <1>0, <2>2, <2>3, NoneDies
  <2>5. co'.pc # "mark"
    <3>1. co \in [pc: CoPC, types: SUBSET Types, todo: SUBSET Workers,
                  worker: Workers \cup {NoWorker}, batch: SUBSET Envelope,
                  now: Nat, dead: Tasks \cup {NoTask}]
      BY <1>0 DEF CoordinatorTypeOK
    <3>2. CASE CoCrash \/ SweepDone \/ ReadWorkers
      <4>1. co' = CoStart \/ \E x : co' = [co EXCEPT !.pc = "sweep", !.todo = x]
        BY <3>2 DEF CoCrash, SweepDone, ReadWorkers
      <4> QED
        <5>1. CASE co' = CoStart
          BY <5>1 DEF CoStart
        <5>2. ASSUME NEW x, co' = [co EXCEPT !.pc = "sweep", !.todo = x]
              PROVE  co'.pc # "mark"
          BY <3>1, <5>2
        <5> QED
          BY <4>1, <5>1, <5>2
    <3>3. CASE \/ Tick \/ MoveDue \/ PromoteDone \/ ReadInflight \/ RequeueDone
               \/ DelHash(HeldBy(co.worker)) \/ ResetOrphans \/ FlagDead
      BY <3>1, <3>3 DEF Tick, MoveDue, PromoteDone, ReadInflight, RequeueDone, DelHash,
                        ResetOrphans, FlagDead
    <3>4. ASSUME NEW ty \in Types, ReadDue(ty)
          PROVE  co'.pc # "mark"
      BY <3>1, <3>4 DEF ReadDue, At
    <3>5. ASSUME NEW w \in Workers, CheckAlive(w)
          PROVE  co'.pc # "mark"
      BY <3>1, <3>5 DEF CheckAlive, At
    <3>6. ASSUME NEW e \in co.batch, Requeue(e)
          PROVE  co'.pc # "mark"
      BY <3>1, <3>6 DEF Requeue, At
    <3> QED
      BY <1>4, <3>2, <3>3, <3>4, <3>5, <3>6 DEF CoordinatorNext, CoStep
  <2>6. \A v \in Workers, r \in Slots :
          job'[v][r].pc = "pushed" /\ v \notin canceled' =>
            job'[v][r] = job[v][r] /\ v \notin canceled
    BY <1>1
  <2>7. co'.pc = "mark" => co' = co
    BY <2>5
  <2> QED
    BY <2>1, <2>4, <2>6, <2>7, EnteredFrame
<1> QED
  BY <1>2, <1>3, <1>4

\* Every request: none pushes an entry or makes a row dead.
LEMMA ApiEnters ==
  ASSUME TypeOK, Entered, ApiNext, UNCHANGED <<workerVars, co>>
  PROVE  Entered'
<1>0. StoreTypeOK /\ UNCHANGED <<job, canceled, co>>
  BY DEF TypeOK, workerVars
<1>1. PICK t \in Tasks : \/ InsertTask(t) \/ SubmitTask(t) \/ CancelTask(t)
                         \/ RedriveRow(t) \/ RedriveEnvelope(t)
  BY DEF ApiNext
<1>2. UNCHANGED dlq
  BY <1>1 DEF InsertTask, SubmitTask, CancelTask, RedriveRow, RedriveEnvelope, Enqueue,
              queueVars
<1>3. tasks' = tasks \/ CreateTask(t) \/ MarkCanceled(t) \/ Redrive(t)
  BY <1>1 DEF InsertTask, SubmitTask, CancelTask, RedriveRow, RedriveEnvelope, storeVars
<1>4. \A u \in Tasks : tasks'[u].status = "dead" => tasks[u].status = "dead"
  BY <1>0, <1>3, NoneDies
<1> QED
  BY <1>0, <1>2, <1>4, EnteredFrame

\* A worker that is not running runs no job, also when it has just stopped.
LEMMA RestingStep ==
  ASSUME TypeOK, Resting, [Next]_vars
  PROVE  Resting'
<1>0. WorkerTypeOK
  BY DEF TypeOK
<1>1. CASE UNCHANGED workerVars
  BY <1>1 DEF Resting, workerVars
<1>2. ASSUME NEW w \in Workers, ProcessStep(w)
      PROVE  Resting'
  <2>1. \A v \in Workers : v # w => loop'[v] = loop[v] /\ job'[v] = job[v]
    BY <1>0, <1>2 DEF ProcessStep, Register, FirstHeartbeat, StartupError, BeatTick,
                      TouchTick, Sigterm, Leave, Crash, Halt, WorkerTypeOK
  <2>2. \/ job' = job /\ (loop' = loop \/ loop[w] # "running")
        \/ job' = [job EXCEPT ![w] = [s \in Slots |-> IdleJob]]
    BY <1>2 DEF ProcessStep, Register, FirstHeartbeat, StartupError, BeatTick,
                TouchTick, Sigterm, Leave, Crash, Halt
  <2>3. CASE job' = [job EXCEPT ![w] = [s \in Slots |-> IdleJob]]
    <3>1. \A s \in Slots : job'[w][s].pc = "idle"
      BY <1>0, <2>3 DEF WorkerTypeOK, IdleJob
    <3> QED
      BY <2>1, <3>1 DEF Resting
  <2> QED
    BY <2>1, <2>2, <2>3 DEF Resting
<1>3. ASSUME NEW w \in Workers, NEW s \in Slots, PollStep(w, s) \/ JobStep(w, s)
      PROVE  Resting'
  <2>1. loop' = loop /\ (job[w][s].pc = "idle" => loop[w] = "running")
    BY <1>3 DEF PollStep, LeaseTask, LeaseEmpty, LeaseError, CanPoll, JobStep, Unhandled,
                Start, Succeed, RecordSuccess, Fail, PushDead, RecordDead, Schedule,
                RecordRetry, Step, Finish
  <2>2. job' = job \/ \E j : job' = [job EXCEPT ![w][s] = j]
    BY <1>3 DEF PollStep, LeaseTask, LeaseEmpty, LeaseError, JobStep, Unhandled,
                Start, Succeed, RecordSuccess, Fail, PushDead, RecordDead, Schedule,
                RecordRetry, Step, Finish
  <2>3. \A v \in Workers : v # w => job'[v] = job[v]
    BY <1>0, <2>2 DEF WorkerTypeOK
  <2> QED
    BY <2>1, <2>3 DEF Resting
<1> QED
  BY <1>1, <1>2, <1>3 DEF Next, WorkerNext, CoordinatorNext, TimePasses, Expire, vars

\* Every step leaves the budget alone or spends from it once.
LEMMA Spends ==
  ASSUME [Next]_vars
  PROVE  UNCHANGED budget \/ \E k \in Kinds : Spend(k)
<1>1. CASE WorkerNext
  <2>1. PICK w \in Workers :
          ProcessStep(w) \/ \E s \in Slots : PollStep(w, s) \/ JobStep(w, s)
    BY <1>1 DEF WorkerNext
  <2>2. CASE ProcessStep(w)
    BY <2>2 DEF ProcessStep, Register, FirstHeartbeat, StartupError, BeatTick, TouchTick,
                Sigterm, Leave, Crash, CommandSucceeds, CommandFails, Kinds
  <2>3. ASSUME NEW s \in Slots, PollStep(w, s) \/ JobStep(w, s)
        PROVE  UNCHANGED budget \/ Spend("error")
    BY <2>3 DEF PollStep, LeaseTask, LeaseEmpty, LeaseError, JobStep, Unhandled,
                Start, Succeed, RecordSuccess, Fail, PushDead, RecordDead, Schedule,
                RecordRetry, CommandSucceeds, CommandFails
  <2> QED
    BY <2>1, <2>2, <2>3 DEF Kinds
<1>2. CASE CoordinatorNext
  <2>1. UNCHANGED budget \/ Spend("error") \/ Spend("crash")
    BY <1>2 DEF CoordinatorNext, CoStep, CoCrash, Tick, MoveDue, PromoteDone, ReadDue,
         ReadWorkers, SweepDone, ReadInflight, RequeueDone, CheckAlive, DelHash,
         Requeue, PushExhausted, MarkExhausted, ResetOrphans, FlagDead, Fault
  <2> QED
    BY <2>1 DEF Kinds
<1>3. CASE ApiNext
  <2>1. UNCHANGED budget \/ Spend("error") \/ Spend("cancel") \/ Spend("redrive")
    BY <1>3 DEF ApiNext, InsertTask, SubmitTask, CancelTask, RedriveRow, RedriveEnvelope
  <2> QED
    BY <2>1 DEF Kinds
<1>4. CASE TimePasses \/ \E w \in Workers : Expire(w)
  BY <1>4 DEF TimePasses, Expire, Kinds
<1>5. CASE UNCHANGED vars
  BY <1>5 DEF vars
<1> QED
  BY <1>1, <1>2, <1>3, <1>4, <1>5 DEF Next

\* No kind of event happens more often than it may.
Spent == budget["error"] <= Budget["error"]

\* A step that ends without an error so far was not one.
LEMMA SpentStep ==
  ASSUME TypeOK, Spent, UNCHANGED budget \/ \E k \in Kinds : Spend(k)
  PROVE  /\ Spent'
         /\ Clean' => Clean /\ ~Spend("error")
<1>1. budget \in [Kinds -> Nat] /\ Budget \in [Kinds -> Nat] /\ "error" \in Kinds
  BY EnvironmentAssumption DEF TypeOK, EnvironmentTypeOK, Kinds
<1>2. budget'["error"] = budget["error"] \/ budget'["error"] = budget["error"] - 1
  BY <1>1 DEF Spend
<1>3. Spend("error") => budget'["error"] = budget["error"] - 1
  BY <1>1 DEF Spend
<1>4. budget["error"] \in Nat /\ Budget["error"] \in Nat
  BY <1>1
<1> QED
  BY <1>2, <1>3, <1>4 DEF Spent, Clean

\* Every step of the system.
LEMMA EnteredStep ==
  ASSUME TypeOK, Resting, Entered, [Next]_vars, ~Spend("error")
  PROVE  Entered'
<1>1. CASE ApiNext /\ UNCHANGED <<workerVars, co>>
  BY <1>1, ApiEnters
<1>2. CASE TimePasses \/ (\E w \in Workers : Expire(w)) \/ UNCHANGED vars
  <2>1. UNCHANGED <<dlq, tasks, job, canceled, co>>
    BY <1>2 DEF TimePasses, Expire, Elapse, HeartbeatExpires, storeVars, workerVars,
                vars, queueVars
  <2> QED
    BY <2>1, EnteredFrame
<1> QED
  BY <1>1, <1>2, WorkerEnters, CoordinatorEnters DEF Next

\* Entries are never removed from the list.
LEMMA DlqGrows ==
  ASSUME TypeOK, [Next]_vars, NEW t \in Tasks
  PROVE  dlq[t] \in Nat /\ dlq'[t] \in Nat /\ dlq[t] <= dlq'[t]
<1>0. dlq \in [Tasks -> Nat]
  BY DEF TypeOK, QueueTypeOK
<1>1. UNCHANGED dlq \/ \E e : DeadLetter(e)
  <2>1. CASE WorkerNext
    <3>1. PICK w \in Workers :
            ProcessStep(w) \/ \E s \in Slots : PollStep(w, s) \/ JobStep(w, s)
      BY <2>1 DEF WorkerNext
    <3>2. CASE ProcessStep(w)
      BY <3>2 DEF ProcessStep, Register, FirstHeartbeat, StartupError, BeatTick, TouchTick,
           Sigterm, Leave, Crash, Heartbeat, queueVars
    <3>3. ASSUME NEW s \in Slots, PollStep(w, s)
          PROVE  UNCHANGED dlq
      BY <3>3 DEF PollStep, LeaseTask, LeaseEmpty, LeaseError, Lease, queueVars
    <3>4. ASSUME NEW s \in Slots, JobStep(w, s)
          PROVE  UNCHANGED dlq \/ DeadLetter(job[w][s].env)
      BY <3>4 DEF JobStep, Unhandled, Start, Succeed, RecordSuccess, Fail, PushDead,
           RecordDead, Schedule, RecordRetry, Ack, Nack, EnqueueDelayed, queueVars
    <3> QED
      BY <3>1, <3>2, <3>3, <3>4
  <2>2. CASE CoordinatorNext
    BY <2>2 DEF CoordinatorNext, CoStep, CoCrash, Tick, MoveDue, PromoteDone, ReadDue,
         ReadWorkers, SweepDone, ReadInflight, RequeueDone, CheckAlive, DelHash,
         Requeue, PushExhausted, MarkExhausted, ResetOrphans, FlagDead, DelInflight,
         Promote, Enqueue, queueVars
  <2>3. CASE ApiNext
    BY <2>3 DEF ApiNext, InsertTask, SubmitTask, CancelTask, RedriveRow, RedriveEnvelope,
         Enqueue, queueVars
  <2>4. CASE TimePasses \/ (\E w \in Workers : Expire(w)) \/ UNCHANGED vars
    BY <2>4 DEF TimePasses, Expire, Elapse, HeartbeatExpires, vars, queueVars
  <2> QED
    BY <2>1, <2>2, <2>3, <2>4 DEF Next
<1> QED
  BY <1>0, <1>1 DEF DeadLetter
-----------------------------------------------------------------------------
(* The dead-letter depths account for the dead rows. *)

\* Of each type that is listed the depths are read one after the other.
Depths ==
  /\ stats.pc = "done" => stats.todo = {}
  /\ stats.pc \in {"depths", "done"} =>
       /\ stats.todo \subseteq DOMAIN stats.queues
       /\ \A ty \in DOMAIN stats.queues :
            /\ \E X : stats.queues[ty] \in Seq(X)
            /\ Len(stats.queues[ty]) <= 3
            /\ ty \in stats.todo <=> Len(stats.queues[ty]) < 3
            /\ Len(stats.queues[ty]) = 3 => stats.queues[ty][3] \in Nat

\* While no command failed, the dead rows counted are those of some tasks W
\* with an entry each, and a dead-letter depth covers those of its type.  Later
\* on the rows of W need not be dead any more.
Witness ==
  Clean /\ ~stats.failed /\ stats.pc \in {"types", "list", "depths", "done"} =>
    \E W \in SUBSET Tasks :
      /\ stats.by_status["dead"] = Cardinality(W)
      /\ \A t \in W : dlq[t] >= 1
      /\ stats.pc \in {"depths", "done"} =>
           \A ty \in DOMAIN stats.queues :
             Len(stats.queues[ty]) = 3 =>
               Cardinality({t \in W : TypeOf(t) = ty}) <= stats.queues[ty][3]

\* A list holds at least one entry for each task that has one.
LEMMA DeadDepth ==
  ASSUME TypeOK, NEW W \in SUBSET Tasks, \A t \in W : dlq[t] >= 1, NEW ty
  PROVE  /\ Depth(ty, 3) \in Nat
         /\ Cardinality({t \in W : TypeOf(t) = ty}) <= Depth(ty, 3)
<1> DEFINE D == {t \in Tasks : TypeOf(t) = ty}
           A == [t \in D |-> IF t \in W THEN {t} ELSE {}]
<1>1. D \in SUBSET Tasks /\ IsFiniteSet(D)
  BY TasksFinite
<1>2. \A t \in D : /\ dlq[t] \in Nat /\ IsFiniteSet(A[t])
                   /\ Cardinality(A[t]) <= dlq[t]
  <2> SUFFICES ASSUME NEW t \in D
               PROVE  dlq[t] \in Nat /\ IsFiniteSet(A[t]) /\ Cardinality(A[t]) <= dlq[t]
    OBVIOUS
  <2>1. dlq[t] \in Nat
    BY DEF TypeOK, QueueTypeOK
  <2>2. CASE t \in W
    BY <2>1, <2>2, FS_Singleton
  <2>3. CASE t \notin W
    BY <2>1, <2>3, FS_EmptySet
  <2> QED
    BY <2>2, <2>3
<1>3. Union(A, D) = {t \in W : TypeOf(t) = ty}
  BY DEF Union
<1>4. Depth(ty, 3) = SumFunctionOnSet(dlq, D)
  BY DEF Depth
<1> HIDE DEF A, D
<1>5. /\ SumFunctionOnSet(dlq, D) \in Nat
      /\ Cardinality(Union(A, D)) <= SumFunctionOnSet(dlq, D)
  BY <1>1, <1>2, SumBounds
<1> QED
  BY <1>3, <1>4, <1>5

\* One more depth.
LEMMA AppendOne ==
  ASSUME NEW q, NEW d, \E X : q \in Seq(X)
  PROVE  /\ \E X : Append(q, d) \in Seq(X)
         /\ Len(q) \in Nat /\ Len(Append(q, d)) = Len(q) + 1
         /\ Append(q, d)[Len(q) + 1] = d
<1>1. PICK X : q \in Seq(X)
  OBVIOUS
<1>2. q \in Seq(X \cup {d})
  BY <1>1
<1> QED
  BY <1>2

\* What the handler's step to the next depth does.
LEMMA ReadStep ==
  ASSUME StatsRecord, NEW ty, ReadDepth(ty)
  PROVE  \E d :
           /\ stats.pc = "depths" /\ ty \in stats.todo
           /\ \/ d = Depth(ty, Len(stats.queues[ty]) + 1) /\ stats'.failed = stats.failed
              \/ d = 0 /\ stats'.failed
           /\ stats'.pc = "depths" /\ stats'.by_status = stats.by_status
           /\ stats'.queues = [stats.queues EXCEPT ![ty] = Append(@, d)]
           /\ stats'.todo = IF Len(stats.queues[ty]) + 1 = 3 THEN stats.todo \ {ty}
                                                            ELSE stats.todo
<1>r. PICK a, b, c, e, f, z :
        stats = [pc |-> a, by_status |-> b, by_type |-> c, todo |-> e, queues |-> f,
                 failed |-> z]
  BY DEF StatsRecord
<1>1. PICK d, y :
        /\ \/ d = Depth(ty, Len(stats.queues[ty]) + 1) /\ y = stats.failed
           \/ d = 0 /\ y = TRUE
        /\ stats' = [stats EXCEPT !.queues[ty] = Append(@, d),
                                  !.todo = IF Len(stats.queues[ty]) + 1 = 3
                                           THEN @ \ {ty} ELSE @,
                                  !.failed = y]
  BY DEF ReadDepth
<1>2. stats.pc = "depths" /\ ty \in stats.todo
  BY DEF ReadDepth
<1>3. stats'.pc = stats.pc /\ stats'.by_status = stats.by_status
  BY <1>r, <1>1
<1>4. stats'.queues = [stats.queues EXCEPT ![ty] = Append(@, d)]
  BY <1>r, <1>1
<1>5. stats'.todo = IF Len(stats.queues[ty]) + 1 = 3 THEN stats.todo \ {ty}
                                                   ELSE stats.todo
  BY <1>r, <1>1
<1>6. stats'.failed = y
  BY <1>r, <1>1
<1> QED
  BY <1>1, <1>2, <1>3, <1>4, <1>5, <1>6

\* The depths are read in their order, and the last one is a number.
LEMMA DepthsStep ==
  ASSUME TypeOK, StatsRecord, Depths, StatsMeanwhile
  PROVE  Depths'
<1>r. PICK a, b, c, e, f, z :
        stats = [pc |-> a, by_status |-> b, by_type |-> c, todo |-> e, queues |-> f,
                 failed |-> z]
  BY DEF StatsRecord
<1>1. CASE stats'.pc \notin {"depths", "done"}
  BY <1>1 DEF Depths
<1>2. CASE ListQueues /\ stats' # Refused
  <2>1. stats' = [stats EXCEPT !.pc = "depths", !.todo = ListTypes,
                               !.queues = [ty \in ListTypes |-> <<>>]]
    BY <1>2 DEF ListQueues
  <2>2. /\ stats'.pc = "depths" /\ stats'.todo = ListTypes
        /\ stats'.queues = [ty \in ListTypes |-> <<>>]
    BY <1>r, <2>1
  <2>3. <<>> \in Seq({}) /\ Len(<<>>) = 0
    OBVIOUS
  <2> QED
    BY <2>2, <2>3 DEF Depths
<1>3. CASE Reply
  <2>1. /\ stats.pc = "depths" /\ stats.todo = {} /\ stats'.pc = "done"
        /\ stats'.todo = stats.todo /\ stats'.queues = stats.queues
    BY <1>r, <1>3 DEF Reply
  <2> QED
    BY <2>1 DEF Depths
<1>4. ASSUME NEW ty, ReadDepth(ty)
      PROVE  Depths'
  <2> DEFINE q == stats.queues[ty]
  <2>1. PICK d :
           /\ stats.pc = "depths" /\ ty \in stats.todo
           /\ \/ d = Depth(ty, Len(stats.queues[ty]) + 1) /\ stats'.failed = stats.failed
              \/ d = 0 /\ stats'.failed
           /\ stats'.pc = "depths" /\ stats'.by_status = stats.by_status
           /\ stats'.queues = [stats.queues EXCEPT ![ty] = Append(@, d)]
           /\ stats'.todo = IF Len(stats.queues[ty]) + 1 = 3 THEN stats.todo \ {ty}
                                                            ELSE stats.todo
    BY <1>4, ReadStep
  <2>2. ty \in DOMAIN stats.queues /\ (\E X : q \in Seq(X)) /\ Len(q) < 3
    BY <2>1 DEF Depths
  <2>3. /\ DOMAIN stats'.queues = DOMAIN stats.queues
        /\ \A tz \in DOMAIN stats.queues :
             stats'.queues[tz] = IF tz = ty THEN Append(q, d) ELSE stats.queues[tz]
    BY <2>1, <2>2
  <2>4. /\ \E X : Append(q, d) \in Seq(X)
        /\ Len(q) \in Nat /\ Len(Append(q, d)) = Len(q) + 1
        /\ Append(q, d)[Len(q) + 1] = d
    BY <2>2, AppendOne
  <2>5. Len(q) + 1 = 3 => d \in Nat
    <3>1. Depth(ty, 3) \in Nat
      <4> DEFINE W == {t \in Tasks : FALSE}
      <4>1. W \in SUBSET Tasks /\ \A t \in W : dlq[t] >= 1
        OBVIOUS
      <4> HIDE DEF W
      <4> QED
        BY <4>1, DeadDepth
    <3> QED
      BY <2>1, <3>1
  <2>6. stats'.todo \subseteq DOMAIN stats'.queues
    BY <2>1, <2>3 DEF Depths
  <2>7. ASSUME NEW tz \in DOMAIN stats'.queues
        PROVE  /\ \E X : stats'.queues[tz] \in Seq(X)
               /\ Len(stats'.queues[tz]) <= 3
               /\ tz \in stats'.todo <=> Len(stats'.queues[tz]) < 3
               /\ Len(stats'.queues[tz]) = 3 => stats'.queues[tz][3] \in Nat
    <3>1. CASE tz # ty
      <4>1. stats'.queues[tz] = stats.queues[tz] /\ tz \in DOMAIN stats.queues
        BY <2>3, <2>7, <3>1
      <4>2. tz \in stats'.todo <=> tz \in stats.todo
        BY <2>1, <3>1
      <4> QED
        BY <2>1, <4>1, <4>2 DEF Depths
    <3>2. CASE tz = ty
      <4>1. stats'.queues[tz] = Append(q, d)
        BY <2>3, <2>7, <3>2
      <4>2. tz \in stats'.todo <=> Len(q) + 1 # 3
        BY <2>1, <3>2
      <4> HIDE DEF q
      <4> QED
        BY <2>2, <2>4, <2>5, <4>1, <4>2
    <3> QED
      BY <3>1, <3>2
  <2> QED
    BY <2>1, <2>6, <2>7 DEF Depths
<1>5. CASE CountStatuses \/ CountTypes \/ stats' = Refused
  <2>1. stats' = Refused \/
          \E x : \/ stats' = [stats EXCEPT !.pc = "types", !.by_status = x]
                 \/ stats' = [stats EXCEPT !.pc = "types", !.by_status = x, !.failed = TRUE]
                 \/ stats' = [stats EXCEPT !.pc = "list", !.by_type = x]
                 \/ stats' = [stats EXCEPT !.pc = "list", !.by_type = x, !.failed = TRUE]
    BY <1>5 DEF CountStatuses, CountTypes
  <2>2. stats'.pc \notin {"depths", "done"}
    BY <1>r, <2>1 DEF Refused, StatsStart
  <2> QED
    BY <1>1, <2>2
<1> QED
  BY <1>2, <1>3, <1>4, <1>5 DEF StatsMeanwhile, StatsStep

\* The system goes on: entries stay, and the reply does not change.
LEMMA WitnessNext ==
  ASSUME TypeOK, Spent, Witness, [Next]_vars, UNCHANGED stats
  PROVE  Witness'
<1>1. CASE Clean' /\ ~stats.failed /\ stats.pc \in {"types", "list", "depths", "done"}
  <2>1. Clean
    BY <1>1, Spends, SpentStep
  <2>2. PICK W \in SUBSET Tasks :
          /\ stats.by_status["dead"] = Cardinality(W)
          /\ \A t \in W : dlq[t] >= 1
          /\ stats.pc \in {"depths", "done"} =>
               \A ty \in DOMAIN stats.queues :
                 Len(stats.queues[ty]) = 3 =>
                   Cardinality({t \in W : TypeOf(t) = ty}) <= stats.queues[ty][3]
    BY <1>1, <2>1 DEF Witness
  <2>3. \A t \in W : dlq'[t] >= 1
    BY <2>2, DlqGrows
  <2> QED
    BY <2>2, <2>3 DEF Witness
<1> QED
  BY <1>1 DEF Witness

\* Every query of the handler.
LEMMA WitnessStep ==
  ASSUME TypeOK, StatsRecord, Depths, Clean => Entered, Witness, StatsMeanwhile
  PROVE  Witness'
<1> SUFFICES ASSUME Clean', ~stats'.failed,
                    stats'.pc \in {"types", "list", "depths", "done"}
             PROVE  Witness'
  BY DEF Witness
<1>r. PICK a, b, c, e, f, z :
        stats = [pc |-> a, by_status |-> b, by_type |-> c, todo |-> e, queues |-> f,
                 failed |-> z]
  BY DEF StatsRecord
<1>0. Clean /\ dlq' = dlq /\ stats' # Refused
  BY DEF StatsMeanwhile, vars, queueVars, Clean, Refused, StatsStart
<1>1. CASE CountStatuses
  <2> DEFINE W == {t \in Tasks : tasks[t].status = "dead"}
  <2>0. ~\E some : stats' = [stats EXCEPT !.pc = "types", !.by_status = some,
                                         !.failed = TRUE]
    BY <1>r
  <2>1. stats' = [stats EXCEPT !.pc = "types", !.by_status = StatusCounts]
    BY <1>0, <1>1, <2>0 DEF CountStatuses
  <2>2. stats'.pc = "types" /\ stats'.by_status = StatusCounts
    BY <1>r, <2>1
  <2>3. StatusCounts["dead"] = Cardinality(W)
    BY DEF StatusCounts, Statuses
  <2>4. W \in SUBSET Tasks /\ \A t \in W : dlq'[t] >= 1
    BY <1>0 DEF Entered
  <2> HIDE DEF W
  <2> QED
    BY <2>2, <2>3, <2>4 DEF Witness
<1>2. ASSUME ~CountStatuses
      PROVE  Witness'
  <2>0. stats.pc \in {"types", "list", "depths"}
    BY <1>2 DEF StatsMeanwhile, StatsStep, CountTypes, ListQueues, Reply, ReadDepth
  <2>f. ~stats.failed
    <3>1. CASE CountTypes
      <4>1. ~\E some : stats' = [stats EXCEPT !.pc = "list", !.by_type = some,
                                             !.failed = TRUE]
        BY <1>r
      <4>2. stats' = [stats EXCEPT !.pc = "list", !.by_type = TypeCounts]
        BY <1>0, <3>1, <4>1 DEF CountTypes
      <4> QED
        BY <1>r, <4>2
    <3>2. CASE ListQueues
      <4>1. \E x, y : stats' = [stats EXCEPT !.pc = "depths", !.todo = x, !.queues = y]
        BY <1>0, <3>2 DEF ListQueues
      <4> QED
        BY <1>r, <4>1
    <3>3. CASE Reply
      BY <1>r, <3>3 DEF Reply
    <3>4. ASSUME NEW ty, ReadDepth(ty)
          PROVE  ~stats.failed
      BY <3>4, ReadStep
    <3> QED
      BY <1>2, <3>1, <3>2, <3>3, <3>4 DEF StatsMeanwhile, StatsStep
  <2>1. PICK W \in SUBSET Tasks :
          /\ stats.by_status["dead"] = Cardinality(W)
          /\ \A t \in W : dlq[t] >= 1
          /\ stats.pc \in {"depths", "done"} =>
               \A ty \in DOMAIN stats.queues :
                 Len(stats.queues[ty]) = 3 =>
                   Cardinality({t \in W : TypeOf(t) = ty}) <= stats.queues[ty][3]
    BY <1>0, <2>0, <2>f DEF Witness
  <2>2. SUFFICES /\ stats'.by_status = stats.by_status
                 /\ stats'.pc \in {"depths", "done"} =>
                      \A ty \in DOMAIN stats'.queues :
                        Len(stats'.queues[ty]) = 3 =>
                          Cardinality({t \in W : TypeOf(t) = ty}) <= stats'.queues[ty][3]
    BY <1>0, <2>1 DEF Witness
  <2>3. CASE CountTypes
    <3>1. \E x : \/ stats' = [stats EXCEPT !.pc = "list", !.by_type = x]
                 \/ stats' = [stats EXCEPT !.pc = "list", !.by_type = x, !.failed = TRUE]
      BY <1>0, <2>3 DEF CountTypes
    <3>2. stats'.pc = "list" /\ stats'.by_status = stats.by_status
      BY <1>r, <3>1
    <3> QED
      BY <3>2
  <2>4. CASE ListQueues
    <3>1. stats' = [stats EXCEPT !.pc = "depths", !.todo = ListTypes,
                                 !.queues = [ty \in ListTypes |-> <<>>]]
      BY <1>0, <2>4 DEF ListQueues
    <3>2. /\ stats'.by_status = stats.by_status
          /\ stats'.queues = [ty \in ListTypes |-> <<>>]
      BY <1>r, <3>1
    <3>3. Len(<<>>) # 3
      OBVIOUS
    <3> QED
      BY <3>2, <3>3
  <2>5. CASE Reply
    <3>1. /\ stats.pc = "depths" /\ stats'.by_status = stats.by_status
          /\ stats'.queues = stats.queues
      BY <1>r, <2>5 DEF Reply
    <3> QED
      BY <2>1, <3>1
  <2>6. ASSUME NEW ty, ReadDepth(ty)
        PROVE  /\ stats'.by_status = stats.by_status
               /\ \A tz \in DOMAIN stats'.queues :
                    Len(stats'.queues[tz]) = 3 =>
                      Cardinality({t \in W : TypeOf(t) = tz}) <= stats'.queues[tz][3]
    <3> DEFINE q == stats.queues[ty]
    <3>0. PICK d :
             /\ stats.pc = "depths" /\ ty \in stats.todo
             /\ \/ d = Depth(ty, Len(stats.queues[ty]) + 1) /\ stats'.failed = stats.failed
                \/ d = 0 /\ stats'.failed
             /\ stats'.pc = "depths" /\ stats'.by_status = stats.by_status
             /\ stats'.queues = [stats.queues EXCEPT ![ty] = Append(@, d)]
             /\ stats'.todo = IF Len(stats.queues[ty]) + 1 = 3 THEN stats.todo \ {ty}
                                                              ELSE stats.todo
      BY <2>6, ReadStep
    <3>1. /\ stats.pc = "depths" /\ ty \in stats.todo
          /\ d = Depth(ty, Len(stats.queues[ty]) + 1)
          /\ stats'.by_status = stats.by_status
          /\ stats'.queues = [stats.queues EXCEPT ![ty] = Append(@, d)]
      BY <3>0
    <3>2. ty \in DOMAIN stats.queues /\ (\E X : q \in Seq(X)) /\ Len(q) < 3
      BY <3>1 DEF Depths
    <3>3. /\ DOMAIN stats'.queues = DOMAIN stats.queues
          /\ \A tz \in DOMAIN stats.queues :
               stats'.queues[tz] = IF tz = ty THEN Append(q, d) ELSE stats.queues[tz]
      BY <3>1, <3>2
    <3>4. /\ Len(q) \in Nat /\ Len(Append(q, d)) = Len(q) + 1
          /\ Append(q, d)[Len(q) + 1] = d
      BY <3>2, AppendOne
    <3>5. Cardinality({t \in W : TypeOf(t) = ty}) <= Depth(ty, 3)
      BY <2>1, DeadDepth
    <3>6. ASSUME NEW tz \in DOMAIN stats'.queues, Len(stats'.queues[tz]) = 3
          PROVE  Cardinality({t \in W : TypeOf(t) = tz}) <= stats'.queues[tz][3]
      <4>1. CASE tz # ty
        <5>1. tz \in DOMAIN stats.queues /\ stats'.queues[tz] = stats.queues[tz]
          BY <3>3, <3>6, <4>1
        <5> QED
          BY <2>1, <3>1, <3>6, <5>1
      <4>2. CASE tz = ty
        <5>1. stats'.queues[tz] = Append(q, d)
          BY <3>3, <3>6, <4>2
        <5>2. Len(q) + 1 = 3
          BY <3>4, <3>6, <5>1
        <5>3. stats'.queues[tz][3] = Depth(ty, 3)
          BY <3>1, <3>4, <5>1, <5>2
        <5> QED
          BY <3>5, <4>2, <5>3
      <4> QED
        BY <4>1, <4>2
    <3> QED
      BY <3>1, <3>6
  <2> QED
    BY <1>2, <2>3, <2>4, <2>5, <2>6 DEF StatsMeanwhile, StatsStep
<1> QED
  BY <1>1, <1>2

\* A complete reply: the depths of the types add up to at least the entries of
\* the tasks whose rows were counted.
LEMMA WitnessAccounts ==
  ASSUME TypeOK, Depths, Witness
  PROVE  DeadAccounted
<1> SUFFICES ASSUME stats.pc = "done", ~stats.failed, Clean, DOMAIN stats.queues = Types
             PROVE  stats.by_status["dead"]
                      <= SumFunction([ty \in Types |-> stats.queues[ty][3]])
  BY DEF DeadAccounted, Clean
<1>1. PICK W \in SUBSET Tasks :
        /\ stats.by_status["dead"] = Cardinality(W)
        /\ \A ty \in Types :
             Len(stats.queues[ty]) = 3 =>
               Cardinality({t \in W : TypeOf(t) = ty}) <= stats.queues[ty][3]
  BY DEF Witness
<1>2. \A ty \in Types : Len(stats.queues[ty]) = 3 /\ stats.queues[ty][3] \in Nat
  <2> SUFFICES ASSUME NEW ty \in Types
               PROVE  Len(stats.queues[ty]) = 3 /\ stats.queues[ty][3] \in Nat
    OBVIOUS
  <2>1. PICK X : stats.queues[ty] \in Seq(X)
    BY DEF Depths
  <2>2. Len(stats.queues[ty]) \in Nat
    BY <2>1
  <2>3. Len(stats.queues[ty]) <= 3 /\ ~(Len(stats.queues[ty]) < 3)
    BY DEF Depths
  <2>4. Len(stats.queues[ty]) = 3
    <3>1. \A n \in Nat : n <= 3 /\ ~(n < 3) => n = 3
      OBVIOUS
    <3> QED
      BY <2>2, <2>3, <3>1, Zenon
  <2> QED
    BY <2>4 DEF Depths
<1> DEFINE f == [ty \in Types |-> stats.queues[ty][3]]
           A == [ty \in Types |-> {t \in W : TypeOf(t) = ty}]
<1>3. \A ty \in Types : /\ f[ty] \in Nat /\ IsFiniteSet(A[ty])
                        /\ Cardinality(A[ty]) <= f[ty]
  <2>1. \A ty \in Types : A[ty] \in SUBSET Tasks
    OBVIOUS
  <2> QED
    BY <1>1, <1>2, <2>1, TasksFinite
<1>4. Union(A, Types) = W
  <2>1. \A t \in Tasks : TypeOf(t) \in Types
    BY TaskAssumption DEF TypeOf
  <2> QED
    BY <2>1 DEF Union
<1>5. DOMAIN f = Types
  OBVIOUS
<1> HIDE DEF f, A
<1>6. Cardinality(Union(A, Types)) <= SumFunctionOnSet(f, Types)
  BY <1>3, StatsAssumption, SumBounds
<1> QED
  BY <1>1, <1>4, <1>5, <1>6 DEF SumFunction, f

\* While no command failed, the dead-letter depths of a reply that lists every
\* type account for all the dead rows the reply counts, although they are read
\* from two stores at different moments, for any number of crashes, reclaims,
\* retries and redrives in between.
THEOREM DeadRowsAccounted == StatsSpec => []DeadAccounted
<1> DEFINE Inv == /\ TypeOK /\ StatsRecord /\ Depths /\ Resting /\ Spent
                  /\ Clean => Entered
                  /\ Witness
           Change == [(Next /\ UNCHANGED stats) \/ StatsMeanwhile]_allVars
<1>1. Init /\ stats = StatsStart => Inv
  <2> SUFFICES ASSUME Init, stats = StatsStart
               PROVE  Inv
    OBVIOUS
  <2>1. TypeOK /\ StatsRecord /\ stats.pc = "idle"
    BY InitType, StatsStartInit
  <2>2. Depths /\ Witness
    BY <2>1 DEF Depths, Witness
  <2>3. Spent
    BY EnvironmentAssumption DEF Spent, Init, EnvironmentInit, Kinds
  <2>4. Resting
    BY DEF Resting, Init, WorkerInit, IdleJob
  <2>5. Entered
    BY DEF Entered, Init, WorkerInit, IdleJob, StoreInit, NoRow, CoStart
  <2> QED
    BY <2>1, <2>2, <2>3, <2>4, <2>5
<1>2. Inv /\ Change => Inv'
  <2> SUFFICES ASSUME Inv, Change
               PROVE  Inv'
    OBVIOUS
  <2>1. CASE StatsMeanwhile
    <3>2. Spent' /\ (Clean' => Clean)
      BY <2>1 DEF StatsMeanwhile, vars, Spent, Clean
    <3>3. Resting' /\ (Entered => Entered')
      BY <2>1 DEF StatsMeanwhile, vars, Resting, Entered, workerVars, storeVars, queueVars
    <3> QED
      BY <2>1, <3>2, <3>3, StatsStepType, StatsRecordStep, DepthsStep, WitnessStep
  <2>2. CASE [Next]_vars /\ UNCHANGED stats
    <3>1. Spent' /\ (Clean' => Clean /\ ~Spend("error"))
      BY <2>2, Spends, SpentStep
    <3>2. StatsRecord' /\ Depths'
      BY <2>2 DEF StatsRecord, Depths
    <3> QED
      BY <2>2, <3>1, <3>2, NextType, RestingStep, EnteredStep, WitnessNext
  <2> QED
    BY <2>1, <2>2 DEF allVars
<1>3. Inv => DeadAccounted
  BY WitnessAccounts
<1> QED
  BY <1>1, <1>2, <1>3, PTL DEF StatsSpec, StatsMeanwhile
=============================================================================
