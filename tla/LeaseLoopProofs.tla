-------------------------- MODULE LeaseLoopProofs --------------------------
(***************************************************************************)
(* Theorems about the lease loop, for every value of TASK_TYPES, registry, *)
(* base, cap and number of attempts: a retry keeps the bounds of the       *)
(* backoff, and the splitting loop yields the fields of the string.        *)
(*                                                                         *)
(* The bounds rest on a fact about the powers of two, by induction.  It is *)
(* put as the existence of a smallest counterexample (LeastNat).           *)
(***************************************************************************)
EXTENDS LeaseLoop, FiniteSetTheorems, SequenceTheorems,
        WellFoundedInduction, TLAPS

\* Every inhabited set of natural numbers has a least element.
LEMMA LeastNat ==
  ASSUME NEW T, T \subseteq Nat, T # {}
  PROVE  \E x \in T : \A y \in T : x <= y
<1>1. IsWellFoundedOn(OpToRel(<, Nat), Nat)
  BY NatLessThanWellFounded
<1>2. \E x \in T : \A y \in T : ~(<<y, x>> \in OpToRel(<, Nat))
  BY <1>1, WFMin
<1>3. \A x, y \in Nat : ~(<<y, x>> \in OpToRel(<, Nat)) => x <= y
  BY DEF OpToRel
<1> QED
  BY <1>2, <1>3
-----------------------------------------------------------------------------
(* Powers of two. *)

\* g is the beginning of Pow2, up to n.
Begins(g, n) ==
  /\ g \in [0 .. n -> Nat]
  /\ \A k \in 0 .. n : g[k] = IF k = 0 THEN 1 ELSE 2 * g[k - 1]

\* There is a beginning of every length.
LEMMA BeginsExists == \A n \in Nat : \E g : Begins(g, n)
<1> DEFINE T == {n \in Nat : ~\E g : Begins(g, n)}
<1> SUFFICES ASSUME T # {}
             PROVE  FALSE
  OBVIOUS
<1>1. PICK n \in T : \A y \in T : n <= y
  BY LeastNat
<1>2. n # 0
  <2> DEFINE g == [k \in 0 .. 0 |-> 1]
  <2>1. Begins(g, 0)
    BY DEF Begins
  <2> QED
    BY <2>1
<1>3. n \in Nat /\ n - 1 \in Nat /\ n - 1 \notin T
  BY <1>1, <1>2
<1>4. PICK g : Begins(g, n - 1)
  BY <1>3
<1> DEFINE h == [k \in 0 .. n |-> IF k = n THEN 2 * g[n - 1] ELSE g[k]]
<1>5. g[n - 1] \in Nat
  BY <1>3, <1>4 DEF Begins
<1>6. \A k \in 0 .. n : k # n => k \in 0 .. n - 1
  BY <1>3
<1>7. h \in [0 .. n -> Nat]
  BY <1>3, <1>4, <1>5, <1>6 DEF Begins
<1>8. ASSUME NEW k \in 0 .. n
      PROVE  h[k] = IF k = 0 THEN 1 ELSE 2 * h[k - 1]
  <2>1. CASE k = n
    <3>1. n - 1 \in 0 .. n /\ n - 1 # n
      BY <1>3
    <3> QED
      BY <1>2, <2>1, <3>1
  <2>2. CASE k # n
    <3>1. k \in 0 .. n - 1 /\ (k # 0 => k - 1 \in 0 .. n /\ k - 1 # n)
      BY <1>3, <2>2
    <3>2. g[k] = IF k = 0 THEN 1 ELSE 2 * g[k - 1]
      BY <1>4, <3>1 DEF Begins
    <3> QED
      BY <2>2, <3>1, <3>2
  <2> QED
    BY <2>1, <2>2
<1>9. Begins(h, n)
  BY <1>7, <1>8 DEF Begins
<1> QED
  BY <1>1, <1>9

\* A beginning agrees with every longer one.
LEMMA BeginsAgree ==
  ASSUME NEW m \in Nat, NEW n \in Nat, m <= n, NEW g, NEW h, Begins(g, m), Begins(h, n)
  PROVE  \A k \in 0 .. m : g[k] = h[k]
<1> DEFINE T == {k \in 0 .. m : g[k] # h[k]}
<1> SUFFICES ASSUME T # {}
             PROVE  FALSE
  OBVIOUS
<1>1. T \subseteq Nat
  OBVIOUS
<1>2. PICK k \in T : \A y \in T : k <= y
  BY <1>1, LeastNat
<1>3. k \in 0 .. m /\ k \in 0 .. n /\ g[k] # h[k]
  OBVIOUS
<1>4. k # 0
  BY <1>3 DEF Begins
<1>5. k - 1 \in 0 .. m /\ k - 1 \notin T
  BY <1>2, <1>3, <1>4
<1>6. g[k - 1] = h[k - 1]
  BY <1>5
<1> QED
  BY <1>3, <1>4, <1>6 DEF Begins

\* Pow2 satisfies its recursion.
LEMMA Pow2Recursion ==
  Pow2 = [k \in Nat |-> IF k = 0 THEN 1 ELSE 2 * Pow2[k - 1]]
<1> DEFINE G == [n \in Nat |-> (CHOOSE g : Begins(g, n))[n]]
<1>1. ASSUME NEW k \in Nat
      PROVE  G[k] = IF k = 0 THEN 1 ELSE 2 * G[k - 1]
  <2> DEFINE g == CHOOSE g : Begins(g, k)
             h == CHOOSE h : Begins(h, k - 1)
  <2>1. Begins(g, k)
    BY BeginsExists
  <2>2. G[k] = IF k = 0 THEN 1 ELSE 2 * g[k - 1]
    <3>1. G[k] = g[k] /\ k \in 0 .. k
      OBVIOUS
    <3> HIDE DEF g, G
    <3> QED
      BY <2>1, <3>1 DEF Begins
  <2>3. ASSUME k # 0
        PROVE  G[k - 1] = g[k - 1]
    <3>1. k - 1 \in Nat /\ k - 1 <= k /\ k - 1 \in 0 .. k - 1
      BY <2>3
    <3>2. Begins(h, k - 1)
      BY <3>1, BeginsExists
    <3>3. G[k - 1] = h[k - 1]
      BY <3>1
    <3> HIDE DEF g, h, G
    <3> QED
      BY <2>1, <3>1, <3>2, <3>3, BeginsAgree
  <2> QED
    BY <2>2, <2>3
<1>2. G = [k \in Nat |-> IF k = 0 THEN 1 ELSE 2 * G[k - 1]]
  <2>1. G = [k \in Nat |-> G[k]]
    OBVIOUS
  <2> HIDE DEF G
  <2> QED
    BY <1>1, <2>1
<1> HIDE DEF G
<1> QED
  BY <1>2 DEF Pow2

\* math.Pow(2, k) is at least 1: doubling never makes a delay shorter.
LEMMA Pow2Positive == \A k \in Nat : Pow2[k] \in Nat /\ Pow2[k] >= 1
<1> DEFINE T == {k \in Nat : ~(Pow2[k] \in Nat /\ Pow2[k] >= 1)}
<1> SUFFICES ASSUME T # {}
             PROVE  FALSE
  OBVIOUS
<1>1. PICK k \in T : \A y \in T : k <= y
  BY LeastNat
<1>2. Pow2[k] = IF k = 0 THEN 1 ELSE 2 * Pow2[k - 1]
  BY Pow2Recursion
<1>3. k # 0
  BY <1>2
<1>4. k - 1 \in Nat /\ k - 1 \notin T
  BY <1>1, <1>3
<1>5. Pow2[k - 1] \in Nat /\ Pow2[k - 1] >= 1
  BY <1>4
<1> QED
  BY <1>2, <1>3, <1>5
-----------------------------------------------------------------------------
(* The backoff. *)

\* b * p is at least b if p is at least 1.
LEMMA Multiple ==
  ASSUME NEW b \in Nat, NEW p \in Nat, p >= 1
  PROVE  b * p \in Nat /\ b <= b * p
<1>1. p - 1 \in Nat /\ b * (p - 1) \in Nat /\ b * p = b * (p - 1) + b
  OBVIOUS
<1> QED
  BY <1>1

\* Every delay BackoffDelay may return keeps the bounds (scheduler.go 193).
LEMMA BackoffBounds ==
  ASSUME NEW n \in Nat, n >= 1, NEW b \in Nat, NEW c \in Nat, NEW d \in BackoffDelay(n, b, c)
  PROVE  /\ d \in Nat
         /\ b <= d /\ d <= b * Pow2[n - 1]
         /\ b <= c => d <= c
<1> DEFINE exp == b * Pow2[n - 1]
<1>1. n - 1 \in Nat
  OBVIOUS
<1>2. exp \in Nat /\ b <= exp
  BY <1>1, Pow2Positive, Multiple
<1>3. Ceiling(n, b, c) = IF exp > c THEN c ELSE exp
  BY DEF Ceiling
<1> HIDE DEF exp
<1>4. Ceiling(n, b, c) \in Nat /\ Ceiling(n, b, c) <= c /\ Ceiling(n, b, c) <= exp
  BY <1>2, <1>3
<1>5. PICK x \in Draw(Ceiling(n, b, c)) : d = IF x < b THEN b ELSE x
  BY DEF BackoffDelay
<1>6. x \in Nat /\ x <= Ceiling(n, b, c)
  BY <1>4, <1>5 DEF Draw
<1>7. d \in Nat /\ b <= d /\ d <= exp /\ (b <= c => d <= c)
  BY <1>2, <1>4, <1>5, <1>6
<1> QED
  BY <1>7 DEF exp

\* The delays of a worker are configured once, and a scheduled retry keeps the
\* bounds until the next one.
Delays ==
  /\ base \in Nat /\ cap \in Nat
  /\ exec \in Nat /\ attempts \in Nat
  /\ WithinBounds

\* Delays holds before anything is scheduled.
LEMMA DelaysInit == ASSUME Init PROVE Delays
BY LeaseLoopAssumption DEF Init, Delays, WithinBounds, idle

\* Every step keeps the delays: only Retry schedules one.
LEMMA DelaysStep == ASSUME Delays, [Next]_vars PROVE Delays'
<1>1. CASE Retry
  <2>1. attempts' = exec + 1 /\ attempts' \in Nat /\ attempts' >= 1
    BY <1>1 DEF Retry, Delays
  <2>2. delay' \in BackoffDelay(attempts', base, cap) /\ UNCHANGED <<base, cap>>
    BY <1>1 DEF Retry
  <2>3. WithinBounds'
    BY <2>1, <2>2, BackoffBounds DEF Delays, WithinBounds
  <2>4. exec' \in Nat
    BY <1>1, LeaseLoopAssumption DEF Retry, idle
  <2> QED
    BY <2>1, <2>2, <2>3, <2>4 DEF Delays
<1>2. CASE LeaseTask
  <2>1. exec' \in Nat
    BY <1>2, LeaseLoopAssumption DEF LeaseTask
  <2> QED
    BY <1>2, <2>1 DEF LeaseTask, Delays, WithinBounds
<1>3. CASE Finish
  BY <1>3, LeaseLoopAssumption DEF Finish, Delays, WithinBounds, idle
<1>4. CASE UNCHANGED <<base, cap, exec, attempts, delay>>
  BY <1>4 DEF Delays, WithinBounds
<1> QED
  BY <1>1, <1>2, <1>3, <1>4
     DEF Next, Load, StartPolling, Arrive, LeaseEmpty, vars, loopVars

\* For every base, cap and number of attempts a retry waits at least for the
\* base, at most for the doubled delay of its attempt, and no longer than the
\* cap unless the base itself is longer.
THEOREM DelaysWithinBounds == Spec => []WithinBounds
<1>1. Init => Delays
  BY DelaysInit
<1>2. Delays /\ [Next]_vars => Delays'
  BY DelaysStep
<1>3. Delays => WithinBounds
  BY DEF Delays
<1> QED
  BY <1>1, <1>2, <1>3, PTL DEF Spec
-----------------------------------------------------------------------------
(* The types and fields of the splitting loop. *)

Char == Letters \cup {Separator}

\* The fields read so far have names.
Named ==
  /\ s \in Seq(Char) /\ cur \in Seq(Char)
  /\ i \in Nat \ {0}
  /\ out \in Seq(Seq(Char) \ {<<>>})

\* Nothing is read at the start.
LEMMA NamedInit == ASSUME Init PROVE Named
<1>1. s \in Seq(Char)
  <2>1. PICK m \in 0 .. MaxLen : s \in [1 .. m -> Char]
    BY DEF Init, ConfigInit, BoundedSeq, SeqOf, Char
  <2>2. m \in Nat
    BY ConfigAssumption
  <2> QED
    BY <2>1, <2>2, SeqDef
<1>2. cur \in Seq(Char) /\ out \in Seq(Seq(Char) \ {<<>>})
  BY EmptySeq DEF Init, ConfigInit
<1>3. i \in Nat \ {0} 
  BY DEF Init, ConfigInit
<1> QED
  BY <1>1, <1>2, <1>3 DEF Named

\* A field joins the others only if it has a name (config.go 87 and 95).
LEMMA CompleteNamed == ASSUME Named PROVE Complete \in Seq(Seq(Char) \ {<<>>})
BY DEF Named, Complete

\* Reading TASK_TYPES keeps the names.
LEMMA LoadNamed == ASSUME Named, Comma \/ Character \/ End PROVE Named'
<1>1. CASE Comma
  <2>1. cur' \in Seq(Char)
    BY <1>1, EmptySeq DEF Comma
  <2>2. out' \in Seq(Seq(Char) \ {<<>>})
    BY <1>1, CompleteNamed DEF Comma
  <2>3. i' \in Nat \ {0}
    BY <1>1 DEF Comma, Named
  <2> QED
    BY <1>1, <2>1, <2>2, <2>3 DEF Named, Comma
<1>2. CASE Character
  <2>1. i \in 1 .. Len(s) /\ i' \in Nat \ {0}
    BY <1>2, LenProperties DEF Character, Named
  <2>2. s[i] \in Char
    BY <2>1, ElementOfSeq DEF Named
  <2>3. cur' \in Seq(Char)
    BY <1>2, <2>2, AppendProperties DEF Character, Named
  <2> QED
    BY <1>2, <2>1, <2>3 DEF Named, Character
<1>3. CASE End
  BY <1>3, CompleteNamed DEF Named, End
<1> QED
  BY <1>1, <1>2, <1>3

\* Run is done with the fields once it has chosen its types.
LEMMA ChooseNamed == ASSUME Named, Choose PROVE Named'
<1>1. <<>> \in Seq(Char) /\ <<>> \in Seq(Seq(Char) \ {<<>>})
  BY EmptySeq
<1> QED
  BY <1>1 DEF Choose, Named
-----------------------------------------------------------------------------
(* What splitCSV computes. *)

\* The pieces of a string are finitely many, and two that overlap are one.
LEMMA PiecesFinite ==
  ASSUME NEW X, NEW str \in Seq(X)
  PROVE  IsFiniteSet(Pieces(str)) /\ Cardinality(Pieces(str)) \in Nat
<1>1. Len(str) \in Int /\ 1 \in Int
  BY LenProperties
<1>2. IsFiniteSet((1 .. Len(str)) \X (1 .. Len(str)))
  BY <1>1, FS_Interval, FS_Product
<1>3. Pieces(str) \in SUBSET ((1 .. Len(str)) \X (1 .. Len(str)))
  BY DEF Pieces
<1> QED
  BY <1>2, <1>3, FS_Subset, FS_CardinalityType

\* What it is to be a piece.
LEMMA PieceParts ==
  ASSUME NEW X, NEW str \in Seq(X), NEW a \in Nat, NEW b \in Nat
  PROVE  <<a, b>> \in Pieces(str) <=>
           /\ 1 <= a /\ a <= b /\ b <= Len(str)
           /\ \A k \in a .. b : str[k] # Separator
           /\ a = 1 \/ str[a - 1] = Separator
           /\ b = Len(str) \/ str[b + 1] = Separator
BY LenProperties DEF Pieces

\* A piece is a pair of positions.
LEMMA PiecePair ==
  ASSUME NEW X, NEW str \in Seq(X), NEW p \in Pieces(str)
  PROVE  p = <<p[1], p[2]>> /\ p[1] \in Nat /\ p[2] \in Nat /\ p[1] <= p[2]
         /\ 1 <= p[1] /\ p[2] <= Len(str)
BY LenProperties DEF Pieces

\* Two pieces that overlap are the same.
LEMMA PiecesApart ==
  ASSUME NEW X, NEW str \in Seq(X), NEW a \in Nat, NEW b \in Nat, NEW c \in Nat, NEW d \in Nat,
         <<a, b>> \in Pieces(str), <<c, d>> \in Pieces(str), a <= d, c <= b
  PROVE  a = c /\ b = d
<1>0. Len(str) \in Nat
  BY LenProperties
<1>1. /\ 1 <= a /\ a <= b /\ b <= Len(str)
      /\ \A k \in a .. b : str[k] # Separator
      /\ a = 1 \/ str[a - 1] = Separator
      /\ b = Len(str) \/ str[b + 1] = Separator
  BY PieceParts
<1>2. /\ 1 <= c /\ c <= d /\ d <= Len(str)
      /\ \A k \in c .. d : str[k] # Separator
      /\ c = 1 \/ str[c - 1] = Separator
      /\ d = Len(str) \/ str[d + 1] = Separator
  BY PieceParts
<1>3. ~(a < c)
  <2>1. a < c => c - 1 \in a .. b /\ c # 1
    BY <1>1, <1>2
  <2> QED
    BY <1>1, <1>2, <2>1
<1>4. ~(c < a)
  <2>1. c < a => a - 1 \in c .. d /\ a # 1
    BY <1>1, <1>2
  <2> QED
    BY <1>1, <1>2, <2>1
<1>5. ~(b < d)
  <2>1. b < d => b + 1 \in c .. d /\ b # Len(str)
    BY <1>0, <1>1, <1>2
  <2> QED
    BY <1>1, <1>2, <2>1
<1>6. ~(d < b)
  <2>1. d < b => d + 1 \in a .. b /\ d # Len(str)
    BY <1>0, <1>1, <1>2
  <2> QED
    BY <1>1, <1>2, <2>1
<1> QED
  BY <1>3, <1>4, <1>5, <1>6

\* No two pieces have the same rank.
LEMMA RankOrders ==
  ASSUME NEW X, NEW str \in Seq(X), NEW p \in Pieces(str), NEW q \in Pieces(str),
         Rank(str, p) = Rank(str, q), p[1] <= q[1]
  PROVE  p = q
<1> DEFINE P == {r \in Pieces(str) : r[1] <= p[1]}
           Q == {r \in Pieces(str) : r[1] <= q[1]}
<1>1. /\ p = <<p[1], p[2]>> /\ p[1] \in Nat /\ p[2] \in Nat /\ p[1] <= p[2]
      /\ q = <<q[1], q[2]>> /\ q[1] \in Nat /\ q[2] \in Nat /\ q[1] <= q[2]
  BY PiecePair
<1>2. \A r \in Pieces(str) : r[1] \in Nat
  BY PiecePair
<1>3. P \in SUBSET Q /\ Q \in SUBSET Pieces(str)
  BY <1>1, <1>2
<1>4. Cardinality(P) = Cardinality(Q)
  BY DEF Rank
<1>5. IsFiniteSet(Q)
  BY <1>3, PiecesFinite, FS_Subset
<1>6. P = Q
  BY <1>3, <1>4, <1>5, FS_Subset
<1>7. q \in Q
  BY <1>1
<1>8. q[1] <= p[1]
  BY <1>6, <1>7
<1>9. p[1] = q[1] /\ p[2] = q[2]
  <2>1. p[1] <= q[2] /\ q[1] <= p[2]
    BY <1>1, <1>8
  <2>2. <<p[1], p[2]>> \in Pieces(str) /\ <<q[1], q[2]>> \in Pieces(str)
    BY <1>1
  <2> QED
    BY <1>1, <2>1, <2>2, PiecesApart
<1> QED
  BY <1>1, <1>9

\* The pieces that end before position m.
Before(m) == {p \in Pieces(s) : p[2] < m}

\* The sequence o lists the pieces that end before m, from left to right.
Lists(o, m) ==
  /\ Len(o) = Cardinality(Before(m))
  /\ \A k \in 1 .. Len(o) :
       \E p \in Before(m) : Rank(s, p) = k /\ o[k] = SubSeq(s, p[1], p[2])

\* The position where the field being read starts.
From == i - Len(cur)

\* What is read so far: cur is the part of s from From on, and out lists the
\* pieces before it.
Reading ==
  /\ i <= Len(s) + 1
  /\ From \in Nat /\ 1 <= From
  /\ From = 1 \/ s[From - 1] = Separator
  /\ \A j \in 1 .. Len(cur) : cur[j] = s[From + j - 1]
  /\ \A k \in From .. i - 1 : s[k] # Separator
  /\ Lists(out, From)

\* A sequence that lists all pieces is the sequence of fields.
LEMMA ListsAll ==
  ASSUME s \in Seq(Char), NEW o \in Seq(Seq(Char)), Lists(o, Len(s) + 1)
  PROVE  o = Fields(s)
<1>1. Len(s) \in Nat /\ Len(o) \in Nat /\ o = [k \in 1 .. Len(o) |-> o[k]]
  BY LenProperties
<1>2. Before(Len(s) + 1) = Pieces(s)
  <2>1. \A p \in Pieces(s) : p[2] \in Nat /\ p[2] <= Len(s)
    BY PiecePair
  <2> QED
    BY <1>1, <2>1 DEF Before
<1>3. Len(o) = Cardinality(Pieces(s))
  BY <1>2 DEF Lists
<1>4. ASSUME NEW k \in 1 .. Len(o)
      PROVE  o[k] = LET p == CHOOSE q \in Pieces(s) : Rank(s, q) = k
                    IN SubSeq(s, p[1], p[2])
  <2> DEFINE c == CHOOSE q \in Pieces(s) : Rank(s, q) = k
  <2>1. PICK p \in Pieces(s) : Rank(s, p) = k /\ o[k] = SubSeq(s, p[1], p[2])
    BY <1>2 DEF Lists
  <2>2. c \in Pieces(s) /\ Rank(s, c) = k
    BY <2>1
  <2> HIDE DEF c
  <2>3. p[1] \in Nat /\ c[1] \in Nat
    BY <2>1, <2>2, PiecePair
  <2>4. p[1] <= c[1] \/ c[1] <= p[1]
    BY <2>3
  <2>5. p = c
    BY <2>1, <2>2, <2>4, RankOrders
  <2> QED
    BY <2>1, <2>5 DEF c
<1>5. o = [k \in 1 .. Len(o) |->
             LET p == CHOOSE q \in Pieces(s) : Rank(s, q) = k
             IN SubSeq(s, p[1], p[2])]
  BY <1>1, <1>4, Zenon
<1> QED
  BY <1>3, <1>5 DEF Fields

\* At a separator or at the end the field being read is a piece, or empty, and
\* with it out lists all pieces that end before.
LEMMA Flushed ==
  ASSUME Named, Reading, i = Len(s) + 1 \/ s[i] = Separator
  PROVE  Lists(Complete, i)
<1>0. /\ s \in Seq(Char) /\ cur \in Seq(Char) /\ out \in Seq(Seq(Char))
      /\ Len(s) \in Nat /\ Len(cur) \in Nat /\ Len(out) \in Nat /\ i \in Nat
  BY LenProperties, SeqMonotonic DEF Named
<1>1. CASE cur = <<>>
  <2>1. Len(cur) = 0
    BY <1>1, EmptySeq
  <2>2. From = i
    BY <1>0, <2>1 DEF From
  <2> QED
    BY <1>1, <2>2 DEF Reading, Complete
<1>2. CASE cur # <<>>
  <2> DEFINE a == From
             b == i - 1
             new == <<a, b>>
  <2>1. Len(cur) >= 1
    BY <1>0, <1>2, EmptySeq
  <2>2. a \in Nat /\ b \in Nat /\ 1 <= a /\ a <= b /\ b <= Len(s) /\ Len(cur) = b - a + 1
    BY <1>0, <2>1 DEF Reading, From
  <2>3. b = Len(s) \/ s[b + 1] = Separator
    BY <1>0
  <2>4. (a = 1 \/ s[a - 1] = Separator) /\ \A k \in a .. b : s[k] # Separator
    BY DEF Reading
  <2>a. \A j \in 1 .. Len(cur) : cur[j] = s[a + j - 1]
    BY DEF Reading
  <2>b. Lists(out, a)
    BY DEF Reading
  <2>c. i = b + 1
    BY <1>0
  <2> HIDE DEF a, b
  <2>5. new \in Pieces(s)
    BY <1>0, <2>2, <2>3, <2>4, PieceParts
  <2>6. ASSUME NEW p \in Pieces(s), p[1] <= b, a <= p[2]
        PROVE  p = new
    <3>1. p = <<p[1], p[2]>> /\ p[1] \in Nat /\ p[2] \in Nat
      BY <1>0, PiecePair
    <3>2. a = p[1] /\ b = p[2]
      BY <1>0, <2>2, <2>5, <2>6, <3>1, PiecesApart
    <3> QED
      BY <3>1, <3>2
  <2>7. \A p \in Pieces(s) : p[1] \in Nat /\ p[2] \in Nat /\ p[1] <= p[2]
    BY <1>0, PiecePair
  <2>8. Before(i) = Before(a) \cup {new} /\ new \notin Before(a)
    <3>1. ASSUME NEW p \in Pieces(s), p[2] < i
          PROVE  p[2] < a \/ p = new
      <4>1. p[2] < a \/ (p[1] <= b /\ a <= p[2])
        BY <2>2, <2>7, <2>c, <3>1
      <4> QED
        BY <2>6, <4>1
    <3>2. new[2] < i /\ ~(new[2] < a)
      BY <2>2, <2>c
    <3>3. \A p \in Pieces(s) : p[2] < a => p[2] < i
      BY <2>2, <2>7, <2>c
    <3> QED
      BY <2>5, <3>1, <3>2, <3>3 DEF Before
  <2>9. {q \in Pieces(s) : q[1] <= new[1]} = Before(a) \cup {new}
    <3>1. ASSUME NEW q \in Pieces(s), q[1] <= a
          PROVE  q[2] < a \/ q = new
      <4>1. q[2] < a \/ (q[1] <= b /\ a <= q[2])
        BY <2>2, <2>7, <3>1
      <4> QED
        BY <2>6, <4>1
    <3>2. \A q \in Pieces(s) : q[2] < a => q[1] <= a
      BY <2>2, <2>7
    <3>3. new[1] = a /\ a <= a
      BY <2>2
    <3> QED
      BY <2>5, <3>1, <3>2, <3>3 DEF Before
  <2>10. Cardinality(Before(a) \cup {new}) = Len(out) + 1
    <3>1. IsFiniteSet(Before(a))
      <4>1. Before(a) \in SUBSET Pieces(s)
        BY DEF Before
      <4> QED
        BY <1>0, <4>1, PiecesFinite, FS_Subset
    <3> QED
      BY <2>8, <2>b, <3>1, FS_AddElement DEF Lists
  <2>11. Rank(s, new) = Len(out) + 1
    BY <2>9, <2>10 DEF Rank
  <2>12. cur = SubSeq(s, new[1], new[2])
    <3>1. \A k \in a .. b : s[k] \in Char
      <4>1. \A k \in a .. b : k \in 1 .. Len(s)
        BY <1>0, <2>2
      <4> QED
        BY <1>0, <4>1, ElementOfSeq
    <3>2. /\ SubSeq(s, a, b) \in Seq(Char)
          /\ Len(SubSeq(s, a, b)) = b - a + 1
          /\ \A j \in 1 .. b - a + 1 : SubSeq(s, a, b)[j] = s[a + j - 1]
      BY <2>2, <3>1, SubSeqProperties
    <3>3. cur = SubSeq(s, a, b)
      BY <1>0, <2>2, <2>a, <3>2, SeqEqual
    <3> QED
      BY <3>3
  <2>13. /\ Complete = Append(out, cur)
         /\ Len(Complete) = Len(out) + 1
         /\ \A k \in 1 .. Len(out) : Complete[k] = out[k]
         /\ Complete[Len(out) + 1] = cur
    BY <1>0, <1>2, AppendProperties DEF Complete
  <2>14. ASSUME NEW k \in 1 .. Len(Complete)
         PROVE  \E p \in Before(i) : Rank(s, p) = k /\ Complete[k] = SubSeq(s, p[1], p[2])
    <3>1. CASE k = Len(out) + 1
      BY <2>8, <2>11, <2>12, <2>13, <3>1
    <3>2. CASE k # Len(out) + 1
      <4>1. k \in 1 .. Len(out)
        BY <1>0, <2>13, <3>2
      <4>2. PICK p \in Before(a) : Rank(s, p) = k /\ out[k] = SubSeq(s, p[1], p[2])
        BY <2>b, <4>1 DEF Lists
      <4> QED
        BY <2>8, <2>13, <4>1, <4>2
    <3> QED
      BY <3>1, <3>2
  <2>15. Len(Complete) = Cardinality(Before(i))
    BY <2>8, <2>10, <2>13
  <2> QED
    BY <2>14, <2>15 DEF Lists
<1> QED
  BY <1>1, <1>2

\* No piece ends at a separator.
LEMMA PastSeparator ==
  ASSUME s \in Seq(Char), i \in Nat, s[i] = Separator
  PROVE  Before(i + 1) = Before(i)
<1>1. ASSUME NEW p \in Pieces(s)
      PROVE  p[2] < i + 1 <=> p[2] < i
  <2>1. p = <<p[1], p[2]>> /\ p[1] \in Nat /\ p[2] \in Nat /\ p[1] <= p[2]
    BY PiecePair
  <2>2. \A k \in p[1] .. p[2] : s[k] # Separator
    BY DEF Pieces
  <2>3. p[2] # i
    BY <2>1, <2>2
  <2> QED
    BY <2>1, <2>3
<1> QED
  BY <1>1 DEF Before

\* Read so far what there is, or all of it.
Split ==
  /\ Named
  /\ pc = "split" => Reading
  /\ SplitIsFields

\* At the start nothing is read.
LEMMA SplitInit == ASSUME Init PROVE Split
<1>1. Named
  BY NamedInit
<1>2. pc = "split" /\ i = 1 /\ cur = <<>> /\ out = <<>>
  BY DEF Init, ConfigInit
<1>3. Len(cur) = 0 /\ Len(out) = 0 /\ s \in Seq(Char) /\ Len(s) \in Nat
  BY <1>1, <1>2, EmptySeq, LenProperties DEF Named
<1>4. From = 1
  BY <1>2, <1>3 DEF From
<1>5. Before(1) = {}
  <2>1. \A p \in Pieces(s) : p[1] \in Nat /\ p[2] \in Nat /\ p[1] <= p[2] /\ 1 <= p[1]
    BY <1>3, PiecePair
  <2> QED
    BY <2>1 DEF Before
<1>6. Lists(out, 1)
  BY <1>3, <1>5, FS_EmptySet DEF Lists
<1>7. Reading
  BY <1>2, <1>3, <1>4, <1>6 DEF Reading
<1> QED
  BY <1>1, <1>2, <1>7 DEF Split, SplitIsFields

\* Reading a character, a comma or the end keeps what is read.
LEMMA LoadSplit == ASSUME Split, Comma \/ Character \/ End PROVE Split'
<1>0. /\ Named /\ Named' /\ Reading /\ s' = s
      /\ s \in Seq(Char) /\ cur \in Seq(Char) /\ Len(s) \in Nat /\ Len(cur) \in Nat
      /\ i \in Nat
  BY LoadNamed, LenProperties DEF Split, Comma, Character, End, Named
<1>1. CASE Comma
  <2>1. /\ i <= Len(s) /\ s[i] = Separator
        /\ out' = Complete /\ cur' = <<>> /\ i' = i + 1 /\ pc' = "split"
    BY <1>1 DEF Comma
  <2>2. Lists(Complete, i + 1)
    BY <1>0, <2>1, Flushed, PastSeparator DEF Lists
  <2>3. Len(cur') = 0
    BY <2>1, EmptySeq
  <2>4. From' = i + 1
    BY <1>0, <2>1, <2>3 DEF From
  <2>5. Lists(out, From)'
    BY <1>0, <2>1, <2>2, <2>4 DEF Lists, Before
  <2>6. s'[From' - 1] = Separator
    BY <1>0, <2>1, <2>4
  <2>7. i' <= Len(s') + 1 /\ From' \in Nat /\ 1 <= From'
    BY <1>0, <2>1, <2>4
  <2>8. 1 .. Len(cur') = {} /\ From' .. i' - 1 = {}
    BY <1>0, <2>1, <2>3, <2>4
  <2>9. Reading'
    BY <2>5, <2>6, <2>7, <2>8 DEF Reading
  <2> QED
    BY <1>0, <2>1, <2>9 DEF Split, SplitIsFields
<1>2. CASE Character
  <2>1. /\ i <= Len(s) /\ s[i] # Separator /\ i' = i + 1 /\ out' = out /\ pc' = "split"
        /\ cur' = Append(cur, s[i])
    BY <1>2 DEF Character
  <2>2. i \in 1 .. Len(s)
    BY <1>0, <2>1 DEF Named
  <2>3. s[i] \in Char
    BY <1>0, <2>2, ElementOfSeq
  <2>4. /\ Len(cur') = Len(cur) + 1
        /\ \A j \in 1 .. Len(cur) : cur'[j] = cur[j]
        /\ cur'[Len(cur) + 1] = s[i]
    BY <1>0, <2>1, <2>3, AppendProperties
  <2>5. From' = From /\ From \in Nat /\ 1 <= From /\ From + Len(cur) = i
    BY <1>0, <2>1, <2>4 DEF From, Reading
  <2>6. Lists(out, From)'
    BY <1>0, <2>1, <2>5 DEF Lists, Before, Reading
  <2>7. ASSUME NEW j \in 1 .. Len(cur')
        PROVE  cur'[j] = s'[From' + j - 1]
    <3>1. CASE j = Len(cur) + 1
      <4>1. From' + j - 1 = i
        BY <1>0, <2>5, <3>1
      <4> QED
        BY <1>0, <2>4, <3>1, <4>1
    <3>2. CASE j # Len(cur) + 1
      <4>1. j \in 1 .. Len(cur)
        BY <1>0, <2>4, <3>2
      <4> QED
        BY <1>0, <2>4, <2>5, <4>1 DEF Reading
    <3> QED
      BY <3>1, <3>2
  <2>8. \A k \in From' .. i' - 1 : s'[k] # Separator
    <3>1. \A k \in From .. i : k = i \/ k \in From .. i - 1
      BY <1>0, <2>5
    <3>2. i' - 1 = i
      BY <1>0, <2>1
    <3> QED
      BY <1>0, <2>1, <2>5, <3>1, <3>2 DEF Reading
  <2>9. i' <= Len(s') + 1
    BY <1>0, <2>1
  <2>10. From' = 1 \/ s'[From' - 1] = Separator
    BY <1>0, <2>5 DEF Reading
  <2>11. Reading'
    BY <2>5, <2>6, <2>7, <2>8, <2>9, <2>10 DEF Reading
  <2> QED
    BY <1>0, <2>1, <2>11 DEF Split, SplitIsFields
<1>3. CASE End
  <2>1. i > Len(s) /\ out' = Complete /\ pc' = "choose"
    BY <1>3 DEF End
  <2>2. i = Len(s) + 1
    BY <1>0, <2>1 DEF Reading
  <2>3. Lists(Complete, Len(s) + 1)
    BY <1>0, <2>2, Flushed
  <2>4. Complete \in Seq(Seq(Char))
    BY <1>0, CompleteNamed, SeqMonotonic
  <2>5. Complete = Fields(s)
    BY <1>0, <2>3, <2>4, ListsAll
  <2>6. Fields(s)' = Fields(s)
    BY <1>0 DEF Fields, Pieces, Rank
  <2> QED
    BY <1>0, <2>1, <2>5, <2>6 DEF Split, SplitIsFields
<1> QED
  BY <1>1, <1>2, <1>3

\* Every step keeps what is read.
LEMMA SplitStep == ASSUME Split, [Next]_vars PROVE Split'
<1>1. CASE UNCHANGED configVars
  <2>1. Fields(s)' = Fields(s)
    BY <1>1 DEF configVars, Fields, Pieces, Rank
  <2>2. Named'
    BY <1>1 DEF configVars, Split, Named
  <2>3. pc' = "split" => Reading'
    BY <1>1 DEF configVars, Split, Reading, From, Lists, Before
  <2>4. SplitIsFields'
    BY <1>1, <2>1 DEF configVars, Split, SplitIsFields
  <2> QED
    BY <2>2, <2>3, <2>4 DEF Split
<1>2. CASE Choose
  BY <1>2, ChooseNamed DEF Split, Choose, SplitIsFields
<1> QED
  BY <1>1, <1>2, LoadSplit
     DEF Next, Load, StartPolling, Arrive, LeaseTask, LeaseEmpty, Finish, Retry, vars

\* For every string, splitCSV yields exactly its fields, in their order:
\* wherever it has leading, trailing or doubled commas, no field is lost, cut,
\* doubled or empty.
THEOREM SplitsIntoFields == Spec => []SplitIsFields
<1>1. Init => Split
  BY SplitInit
<1>2. Split /\ [Next]_vars => Split'
  BY SplitStep
<1>3. Split => SplitIsFields
  BY DEF Split
<1> QED
  BY <1>1, <1>2, <1>3, PTL DEF Spec
=============================================================================
