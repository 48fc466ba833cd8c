---------------------------- MODULE PacingProofs ----------------------------
(***************************************************************************)
(* Proofs about Pacing.tla: every slot is performed once or missed, none   *)
(* before its time or past the end, and a run that is late skips to within *)
(* a period;   for every period of at least a tick, any length of a run   *)
(* and any lateness. And about ActionCompiler.tla, whose programs a slot   *)
(* performs: what they press and lift, and that they fit into the period;  *)
(* for every action and every period. And about Figures.tla: what the      *)
(* figures of a run say of its actions; for every size of the ring and     *)
(* pauses of any length. And about Histogram.tla: what its percentiles say *)
(* of the times counted; for every number of buckets and any times.        *)
(***************************************************************************)
EXTENDS Pacing, ActionCompiler, Figures, Histogram, FiniteSetTheorems, SequenceTheorems,
        WellFoundedInduction, TLAPS

-----------------------------------------------------------------------------
\* Whole numbers.

LEMMA Quotients ==
    ASSUME NEW a \in Int, NEW b \in Nat \ {0}
    PROVE  a \div b \in Int /\ b * (a \div b) <= a /\ a < b * (a \div b) + b
  OBVIOUS

LEMMA Alternates ==
    ASSUME NEW x \in Int
    PROVE  ((x - 1) % 2 = 1 <=> x % 2 # 1) /\ 1 % 2 = 1
  OBVIOUS

LEMMA Ordered ==
    ASSUME NEW a \in Int, NEW b \in Int, a <= b, NEW n \in Nat
    PROVE  a * n \in Int /\ b * n \in Int /\ a * n <= b * n
  OBVIOUS

\* What lies less than a whole unit above y is not above it.
LEMMA NotAbove ==
    ASSUME NEW x \in Int, NEW y \in Int, NEW d \in Nat \ {0}, d * x < d * y + d
    PROVE  x <= y
  OBVIOUS

-----------------------------------------------------------------------------
\* The grid.

\* A slot is the whole tick nearest to its exact time.
LEMMA SlotIsNearest ==
    ASSUME NEW t \in Int, NEW p \in Periods, NEW i \in Int
    PROVE  \E s \in Int : /\ SlotOf(t, p, i) = t + s
                          /\ 2 * p.den * s <= 2 * i * p.num + p.den
                          /\ 2 * i * p.num + p.den < 2 * p.den * s + 2 * p.den
<1> DEFINE a == 2 * i * p.num + p.den
           b == 2 * p.den
<1>1. a \in Int /\ b \in Nat \ {0}
  BY PacingConstants
<1>2. a \div b \in Int /\ b * (a \div b) <= a /\ a < b * (a \div b) + b
  <2> HIDE DEF a, b
  <2> QED  BY <1>1, Quotients
<1>3. SlotOf(t, p, i) = t + a \div b
  BY DEF SlotOf
<1> QED  BY <1>2, <1>3

LEMMA SlotInt ==
    ASSUME NEW t \in Int, NEW p \in Periods, NEW i \in Int
    PROVE  SlotOf(t, p, i) \in Int
<1>1. PICK s \in Int : SlotOf(t, p, i) = t + s
  BY SlotIsNearest
<1> QED  BY <1>1

LEMMA SlotsAscend ==
    ASSUME NEW t \in Int, NEW p \in Periods, NEW i \in Int, NEW j \in Int, i <= j
    PROVE  SlotOf(t, p, i) <= SlotOf(t, p, j)
<1> DEFINE n == p.num
           d == p.den
<1>1. n \in Nat /\ d \in Nat \ {0}
  BY PacingConstants
<1>2. PICK x \in Int : /\ SlotOf(t, p, i) = t + x
                       /\ 2 * d * x <= 2 * i * n + d
                       /\ 2 * i * n + d < 2 * d * x + 2 * d
  BY SlotIsNearest
<1>3. PICK y \in Int : /\ SlotOf(t, p, j) = t + y
                       /\ 2 * d * y <= 2 * j * n + d
                       /\ 2 * j * n + d < 2 * d * y + 2 * d
  BY SlotIsNearest
<1> HIDE DEF n, d
<1>4. i * n \in Int /\ j * n \in Int /\ i * n <= j * n
  BY <1>1, Ordered
<1>5. d * x \in Int /\ d * y \in Int /\ d * x < d * y + d
  BY <1>1, <1>2, <1>3, <1>4
<1>6. x <= y
  BY <1>1, <1>5, NotAbove
<1> QED  BY <1>2, <1>3, <1>6

\* Where skipLate() goes on: not behind where it was, at a slot that has come,
\* and in a period that, before roundings, is not over.
LEMMA SkipsFarEnough ==
    ASSUME NEW t \in Int, NEW p \in Periods, NEW i \in Nat, now \in Int
    PROVE  /\ SkipLate(t, p, i) \in Nat /\ SkipLate(t, p, i) >= i
           /\ SkipLate(t, p, i) # i => SlotOf(t, p, SkipLate(t, p, i)) <= now
           /\ (now - t) * p.den < (SkipLate(t, p, i) + 1) * p.num
<1> DEFINE n == p.num
           d == p.den
           idx == ((now - t) * d) \div n
<1>1. n \in Nat \ {0} /\ d \in Nat \ {0} /\ d <= n
  BY PacingConstants
<1> DEFINE y == now - t
<1>2. i + 1 \in Int /\ y \in Int /\ y * d \in Int /\ y * d = d * y
  BY <1>1
<1>3. SlotOf(t, p, i + 1) \in Int
  BY <1>2, SlotInt
<1>4. CASE now < SlotOf(t, p, i + 1)
  <2>1. SkipLate(t, p, i) = i
    BY <1>4 DEF SkipLate
  <2>2. PICK x \in Int : /\ SlotOf(t, p, i + 1) = t + x
                         /\ 2 * d * x <= 2 * (i + 1) * n + d
    BY <1>2, SlotIsNearest
  <2>3. y + 1 <= x
    BY <1>4, <2>2
  <2>4. y * d < (i + 1) * n
    <3> HIDE DEF n, d, y
    <3>1. (y + 1) * d \in Int /\ x * d \in Int /\ (y + 1) * d <= x * d
      BY <1>1, <1>2, <2>3, Ordered
    <3>2. (i + 1) * n \in Int /\ 2 * (i + 1) * n = 2 * ((i + 1) * n)
      BY <1>1
    <3>3. (y + 1) * d = y * d + d /\ 2 * d * x = 2 * (x * d)
      BY <1>1, <1>2
    <3>4. 2 * (y * d) + 2 * d <= 2 * ((i + 1) * n) + d
      BY <1>1, <1>2, <2>2, <3>1, <3>2, <3>3
    <3> QED  BY <1>1, <1>2, <3>2, <3>4
  <2> QED  BY <2>1, <2>4
<1>5. CASE SlotOf(t, p, i + 1) <= now
  <2>1. y \in Int /\ y * d \in Int
    BY <1>2
  <2>2. idx \in Int /\ n * idx <= y * d /\ y * d < n * idx + n
    BY <1>1, <2>1, Quotients
  <2>3. SkipLate(t, p, i) = IF idx > i /\ SlotOf(t, p, idx) > now THEN idx - 1 ELSE idx
    BY <1>3, <1>5 DEF SkipLate
  <2> HIDE DEF idx
  <2>4. SlotOf(t, p, idx) \in Int
    BY <2>2, SlotInt
  <2>5. SlotOf(t, p, idx) <= now
    <3>1. PICK x \in Int : /\ SlotOf(t, p, idx) = t + x
                           /\ 2 * d * x <= 2 * idx * n + d
      BY <2>2, SlotIsNearest
    <3> HIDE DEF n, d
    <3>2. d * x \in Int /\ d * y \in Int /\ idx * n \in Int
      BY <1>1, <2>1, <2>2
    <3>3. d * x < d * y + d
      BY <1>1, <2>2, <3>1, <3>2
    <3>4. x <= y
      BY <1>1, <2>1, <3>3, NotAbove
    <3> QED  BY <3>1, <3>4
  <2>6. y * d < (idx + 1) * n
    <3> HIDE DEF n, d, y
    <3>1. (idx + 1) * n = n * idx + n
      BY <1>1, <2>2
    <3> QED  BY <2>2, <3>1
  <2>7. idx >= i
    <3>1. PICK x \in Int : /\ SlotOf(t, p, i + 1) = t + x
                           /\ 2 * (i + 1) * n + d < 2 * d * x + 2 * d
      BY <1>2, SlotIsNearest
    <3>2. x <= y
      BY <1>5, <3>1
    <3> HIDE DEF n, d
    <3>3. x * d \in Int /\ y * d \in Int /\ x * d <= y * d
      BY <1>1, <2>1, <3>2, Ordered
    <3>4. idx * n \in Int /\ i * n \in Int /\ 2 * (i + 1) * n = 2 * (i * n) + 2 * n
      BY <1>1, <2>2
    <3>5. i * n < idx * n + n
      BY <1>1, <2>2, <3>1, <3>3, <3>4
    <3> QED  BY <1>1, <2>2, <3>5, NotAbove
  <2> QED  BY <1>5, <2>2, <2>3, <2>4, <2>5, <2>6, <2>7
<1> QED  BY <1>3, <1>4, <1>5

-----------------------------------------------------------------------------
\* Sets of numbers.

LEMMA Smallest ==
    ASSUME NEW T \in SUBSET Nat, T # {}
    PROVE  \E x \in T : \A y \in T : x <= y
<1> DEFINE R == {ss \in Nat \X Nat : ss[1] < ss[2]}
<1>1. IsWellFoundedOn(R, Nat)
  BY NatLessThanWellFounded DEF OpToRel
<1>2. \A x, y \in Nat : x < y => <<x, y>> \in R
  OBVIOUS
<1> HIDE DEF R
<1>3. PICK x \in T : \A y \in T : ~(<<y, x>> \in R)
  BY <1>1, WFMin
<1>4. \A y \in T : ~(y < x)
  BY <1>2, <1>3
<1> QED  BY <1>4

\* A set that has, with a number, every smaller one has the first ones.
LEMMA InitialSegment ==
    ASSUME NEW M \in Nat, NEW S \in SUBSET (1..M),
           \A j \in S : \A i \in 1..j : i \in S
    PROVE  Cardinality(S) \in 0..M /\ S = 1..Cardinality(S)
<1> DEFINE T == {j \in 1..M + 1 : j \notin S}
<1>1. T \in SUBSET Nat /\ M + 1 \in T
  OBVIOUS
<1>2. PICK m \in T : \A j \in T : m <= j
  BY <1>1, Smallest
<1>3. m \in 1..M + 1 /\ m \notin S /\ 1 \in Int /\ m - 1 \in 0..M
  BY <1>2
<1>4. S = 1..m - 1
  <2>1. ASSUME NEW j \in S PROVE j \in 1..m - 1
    BY <1>3
  <2>2. ASSUME NEW j \in 1..m - 1 PROVE j \in S
    BY <1>2, <1>3
  <2> QED  BY <2>1, <2>2
<1>5. Cardinality(1..m - 1) = m - 1
  BY <1>3, FS_Interval
<1> QED  BY <1>3, <1>4, <1>5
-----------------------------------------------------------------------------
\* The inductive invariant.

Places == {"top", "aim", "wait", "sleep", "fire", "paused", "over"}

TypeOK ==
  /\ now \in Nat /\ policy \in {"Skip", "CatchUp"} /\ steps \in {1, 2}
  /\ endQpc \in Ends /\ remaining \in Nat /\ at \in Places
  /\ t0 \in Int /\ period \in Periods /\ k \in Nat
  /\ step \in 0 .. steps - 1 /\ first \in BOOLEAN
  /\ actions \in Int /\ missed \in Int /\ before \in Int

\* Slots gone by are performed or missed, the one in hand included.
SlotsCounted == actions + missed = before + k + InAction

\* They had come, and so has the one that is fired.
Come == /\ k + InAction > 0 => Slot(k + InAction - 1) <= now
        /\ at = "fire" => Deadline <= now

\* An action that is begun is one of those left, before the end, and not
\* begun twice.
Allowed == /\ at \in {"aim", "wait", "sleep", "fire"} \/ step > 0 => remaining > 0
           /\ at \in {"aim", "wait", "sleep", "fire"} /\ step = 0 => Slot(k) < endQpc
           /\ at = "paused" => step = 0

IInv == TypeOK /\ SlotsCounted /\ Come /\ Allowed

LEMMA SlotHere ==
    ASSUME TypeOK, NEW i \in Int
    PROVE  Slot(i) \in Int /\ \A j \in Int : i <= j => Slot(i) <= Slot(j)
<1>1. t0 \in Int /\ period \in Periods
  BY DEF TypeOK
<1>2. SlotOf(t0, period, i) \in Int
  BY <1>1, SlotInt
<1>3. \A j \in Int : i <= j => SlotOf(t0, period, i) <= SlotOf(t0, period, j)
  BY <1>1, SlotsAscend
<1> QED  BY <1>2, <1>3 DEF Slot

\* A batch is a part of what is left, all of it due and before the end.
LEMMA BatchIsDue ==
    ASSUME IInv, at = "fire", step = 0
    PROVE  /\ BatchSize \in 1..remaining
           /\ Slot(k + BatchSize - 1) <= now /\ Slot(k + BatchSize - 1) < endQpc
<1>1. /\ k \in Nat /\ now \in Nat /\ endQpc \in Nat /\ remaining \in Nat \ {0}
      /\ MaxBatch \in Nat \ {0} /\ TypeOK
  BY PacingConstants DEF IInv, TypeOK, Allowed
<1>2. Slot(k) \in Int /\ Slot(k) <= now /\ Slot(k) < endQpc
  BY <1>1, SlotHere DEF IInv, Come, Allowed, Deadline
<1>3. CASE ~(policy = "CatchUp" /\ steps = 1)
  <2>1. BatchSize = 1
    BY <1>3 DEF BatchSize
  <2>2. k + BatchSize - 1 = k
    BY <1>1, <2>1
  <2> QED  BY <1>1, <1>2, <2>1, <2>2
<1>4. CASE policy = "CatchUp" /\ steps = 1
  <2> DEFINE M == Least(MaxBatch, remaining) - 1
             S == {j \in 1..M : Slot(k + j) <= now /\ Slot(k + j) < endQpc}
  <2>1. M \in Nat /\ M < remaining
    BY <1>1 DEF Least
  <2>2. BatchSize = 1 + Cardinality(S)
    BY <1>4 DEF BatchSize
  <2>3. \A j \in S : \A i \in 1..j : i \in S
    <3> SUFFICES ASSUME NEW j \in S, NEW i \in 1..j PROVE i \in S
      OBVIOUS
    <3>1. i \in 1..M /\ j \in 1..M /\ k + i \in Int /\ k + j \in Int /\ k + i <= k + j
      BY <1>1, <2>1
    <3>2. Slot(k + i) \in Int /\ Slot(k + j) \in Int /\ Slot(k + i) <= Slot(k + j)
      BY <1>1, <3>1, SlotHere
    <3> QED  BY <1>1, <3>1, <3>2
  <2>4. \A j \in S : Slot(k + j) <= now /\ Slot(k + j) < endQpc
    OBVIOUS
  <2>5. S \in SUBSET (1..M)
    OBVIOUS
  <2> HIDE DEF S, M
  <2>6. Cardinality(S) \in 0..M /\ S = 1..Cardinality(S)
    BY <2>1, <2>3, <2>5, InitialSegment
  <2>7. BatchSize \in 1..remaining /\ k + BatchSize - 1 = k + Cardinality(S)
    BY <1>1, <2>1, <2>2, <2>6
  <2>8. CASE Cardinality(S) = 0
    <3>1. k + BatchSize - 1 = k
      BY <1>1, <2>7, <2>8
    <3> QED  BY <1>2, <2>7, <3>1
  <2>9. CASE Cardinality(S) # 0
    <3>1. Cardinality(S) \in S
      BY <2>1, <2>6, <2>9
    <3> QED  BY <2>4, <2>7, <3>1
  <2> QED  BY <2>8, <2>9
<1> QED  BY <1>3, <1>4

LEMMA Initial == Init => IInv
<1> SUFFICES ASSUME Init PROVE IInv
  OBVIOUS
<1>1. TypeOK
  BY PacingConstants DEF Init, TypeOK, Places
<1> QED  BY <1>1 DEF Init, IInv, SlotsCounted, Come, Allowed, InAction

\* What a change of the rate and a skip make of the grid.
LEMMA BoundaryKeeps ==
    ASSUME IInv, Boundary
    PROVE  /\ IInv'
           /\ missed' > missed => SlotOf(t0', period', k') <= now
           /\ at' = "aim" /\ policy = "Skip" /\ ~first
              => (now - t0') * period'.den < (k' + 1) * period'.num
<1>1. PICK p \in {q \in Periods : Fits(q)} :
        LET t    == IF p = period THEN t0 ELSE Slot(k)
            i    == IF p = period THEN k ELSE 0
            late == ~first /\ (policy = "Skip" \/ now - SlotOf(t, p, i) > CatchUpLimit)
            idx  == IF late THEN SkipLate(t, p, i) ELSE i
        IN  /\ period' = p /\ t0' = t /\ k' = idx
            /\ before' = before + (k - i)
            /\ missed' = missed + (idx - i)
            /\ at' = IF SlotOf(t, p, idx) >= endQpc THEN "over" ELSE "aim"
  BY DEF Boundary
<1> DEFINE t    == IF p = period THEN t0 ELSE Slot(k)
           i    == IF p = period THEN k ELSE 0
           late == ~first /\ (policy = "Skip" \/ now - SlotOf(t, p, i) > CatchUpLimit)
           idx  == IF late THEN SkipLate(t, p, i) ELSE i
<1>2. /\ period' = p /\ t0' = t /\ k' = idx /\ before' = before + (k - i)
      /\ missed' = missed + (idx - i)
      /\ at' = IF SlotOf(t, p, idx) >= endQpc THEN "over" ELSE "aim"
  BY <1>1
<1>3. /\ at = "top" /\ step = 0 /\ remaining > 0
      /\ now' = now /\ policy' = policy /\ steps' = steps /\ endQpc' = endQpc
      /\ remaining' = remaining /\ step' = step /\ first' = first /\ actions' = actions
  BY DEF Boundary, limits
<1>4. /\ TypeOK /\ now \in Nat /\ p \in Periods /\ t \in Int /\ i \in Nat /\ k \in Nat
      /\ endQpc \in Nat
  <2>1. TypeOK /\ k \in Nat /\ k \in Int /\ t0 \in Int /\ now \in Nat /\ endQpc \in Nat
    BY PacingConstants DEF IInv, TypeOK
  <2>2. Slot(k) \in Int
    BY <2>1, SlotHere
  <2> QED  BY <2>1, <2>2
<1>5. /\ idx \in Nat /\ idx >= i
      /\ idx # i => SlotOf(t, p, idx) <= now
      /\ late => (now - t) * p.den < (idx + 1) * p.num
  <2> HIDE DEF t, i
  <2> QED  BY <1>4, SkipsFarEnough
<1>6. i # 0 => p = period /\ t = t0 /\ i = k
  OBVIOUS
<1>7. at' = "aim" /\ policy = "Skip" /\ ~first => late
  OBVIOUS
<1> HIDE DEF t, i, late, idx
<1>8. TypeOK'
  BY <1>2, <1>3, <1>4, <1>5 DEF TypeOK, Places
<1>9. SlotsCounted'
  BY <1>2, <1>3, <1>4, <1>5 DEF SlotsCounted, IInv, InAction, TypeOK
<1>10. Come'
  <2>1. InAction = 0 /\ InAction' = 0 /\ at' # "fire"
    BY <1>2, <1>3 DEF InAction
  <2> DEFINE last == k + InAction - 1
  <2>4. last' = idx - 1 /\ Slot(last)' = SlotOf(t, p, idx - 1)
    BY <1>2, <1>5, <2>1 DEF Slot
  <2>2. CASE idx = 0
    BY <1>2, <2>1, <2>2 DEF Come
  <2>3. CASE idx > 0
    <3>1. idx - 1 \in Int /\ idx \in Int /\ idx - 1 <= idx
      BY <1>5
    <3>2. SlotOf(t, p, idx - 1) <= SlotOf(t, p, idx)
      BY <1>4, <3>1, SlotsAscend
    <3>3. SlotOf(t, p, idx) \in Int /\ SlotOf(t, p, idx - 1) \in Int
      BY <1>4, <3>1, SlotInt
    <3>4. idx # i => SlotOf(t, p, idx - 1) <= now
      BY <1>4, <1>5, <3>2, <3>3
    <3>5. idx = i => SlotOf(t, p, idx - 1) <= now
      <4>1. k > 0 => Slot(k - 1) <= now
        <5>1. k + InAction = k /\ k + InAction - 1 = k - 1
          BY <1>4, <2>1
        <5> QED  BY <5>1 DEF IInv, Come
      <4> QED  BY <1>5, <1>6, <2>3, <4>1 DEF Slot
    <3> QED  BY <1>3, <2>1, <2>4, <3>4, <3>5 DEF Come
  <2> QED  BY <1>5, <2>2, <2>3
<1>11. Allowed'
  <2>1. SlotOf(t, p, idx) \in Int
    BY <1>4, <1>5, SlotInt
  <2>2. Slot(k)' = SlotOf(t, p, idx)
    BY <1>2 DEF Slot
  <2> QED  BY <1>2, <1>3, <1>4, <2>1, <2>2 DEF Allowed
<1>12. late => (now - t0') * period'.den < (k' + 1) * period'.num
  BY <1>2, <1>5
<1>13. missed' > missed => SlotOf(t0', period', k') <= now
  <2>1. missed \in Int
    BY <1>4 DEF TypeOK
  <2>2. missed' > missed => idx # i
    BY <1>2, <1>4, <1>5, <2>1
  <2> QED  BY <1>2, <1>5, <2>2
<1> QED  BY <1>7, <1>8, <1>9, <1>10, <1>11, <1>12, <1>13 DEF IInv

LEMMA FireKeeps ==
    ASSUME IInv, Fire
    PROVE  IInv'
<1>1. /\ at = "fire" /\ at' = "top" /\ now' = now /\ policy' = policy /\ steps' = steps
      /\ endQpc' = endQpc /\ t0' = t0 /\ period' = period /\ before' = before
      /\ missed' = missed /\ first' \in BOOLEAN
      /\ actions' = IF step = 0 THEN actions + BatchSize ELSE actions
      /\ IF step + 1 = steps
         THEN step' = 0 /\ k' = k + BatchSize /\ remaining' = remaining - BatchSize
         ELSE step' = step + 1 /\ k' = k /\ remaining' = remaining
  <2>1. first' \in BOOLEAN
    BY DEF Fire
  <2> QED  BY <2>1 DEF Fire, limits
<1>2. /\ TypeOK /\ k \in Nat /\ now \in Nat /\ remaining \in Nat \ {0} /\ steps \in {1, 2}
      /\ step \in 0..steps - 1 /\ actions \in Int /\ missed \in Int /\ before \in Int
      /\ Slot(k) + step <= now
      /\ actions + missed = before + k + InAction
  <2>1. remaining \in Nat \ {0}
    BY <1>1 DEF IInv, TypeOK, Allowed
  <2>2. Slot(k) + step <= now
    BY <1>1 DEF IInv, Come, Deadline
  <2> QED  BY <2>1, <2>2 DEF IInv, TypeOK, SlotsCounted
<1>3. Slot(k) \in Int /\ Slot(k) <= now
  BY <1>2, SlotHere
<1>4. \A i : Slot(i)' = SlotOf(t0, period, i)
  BY <1>1 DEF Slot
<1>5. CASE step = 0 /\ steps = 1
  <2>1. BatchSize \in 1..remaining /\ Slot(k + BatchSize - 1) <= now
    BY <1>1, <1>5, BatchIsDue
  <2>2. /\ step' = 0 /\ k' = k + BatchSize /\ remaining' = remaining - BatchSize
        /\ actions' = actions + BatchSize /\ InAction = 0 /\ InAction' = 0
    BY <1>1, <1>5 DEF InAction
  <2>3. k' + InAction' - 1 = k + BatchSize - 1
    BY <1>2, <2>1, <2>2
  <2>4. TypeOK'
    BY <1>1, <1>2, <1>5, <2>1, <2>2 DEF TypeOK, Places
  <2>5. SlotsCounted'
    BY <1>1, <1>2, <2>1, <2>2 DEF SlotsCounted
  <2>6. Come'
    BY <1>1, <1>4, <2>1, <2>3 DEF Come, Slot
  <2>7. Allowed'
    BY <1>1, <2>2 DEF Allowed
  <2> QED  BY <2>4, <2>5, <2>6, <2>7 DEF IInv
<1>6. CASE step = 0 /\ steps = 2
  <2>1. BatchSize = 1
    BY <1>6 DEF BatchSize
  <2>2. /\ step' = 1 /\ k' = k /\ remaining' = remaining
        /\ actions' = actions + 1 /\ InAction = 0 /\ InAction' = 1
    BY <1>1, <1>6, <2>1 DEF InAction
  <2>3. k' + InAction' - 1 = k
    BY <1>2, <2>2
  <2>4. TypeOK'
    BY <1>1, <1>2, <1>6, <2>2 DEF TypeOK, Places
  <2>5. SlotsCounted'
    BY <1>1, <1>2, <2>2 DEF SlotsCounted
  <2>6. Come'
    BY <1>1, <1>3, <1>4, <2>3 DEF Come, Slot
  <2>7. Allowed'
    BY <1>1, <1>2, <2>2 DEF Allowed
  <2> QED  BY <2>4, <2>5, <2>6, <2>7 DEF IInv
<1>7. CASE step = 1 /\ steps = 2
  <2>1. BatchSize = 1
    BY <1>7 DEF BatchSize
  <2>2. /\ step' = 0 /\ k' = k + 1 /\ remaining' = remaining - 1
        /\ actions' = actions /\ InAction = 1 /\ InAction' = 0
    BY <1>1, <1>7, <2>1 DEF InAction
  <2>3. k' + InAction' - 1 = k
    BY <1>2, <2>2
  <2>4. TypeOK'
    BY <1>1, <1>2, <1>7, <2>2 DEF TypeOK, Places
  <2>5. SlotsCounted'
    BY <1>1, <1>2, <2>2 DEF SlotsCounted
  <2>6. Come'
    BY <1>1, <1>3, <1>4, <2>3 DEF Come, Slot
  <2>7. Allowed'
    BY <1>1, <2>2 DEF Allowed
  <2> QED  BY <2>4, <2>5, <2>6, <2>7 DEF IInv
<1> QED  BY <1>2, <1>5, <1>6, <1>7

\* The steps of the waiter and the turns of the loop leave the grid alone.
LEMMA GridAlone ==
    ASSUME IInv, UNCHANGED <<limits, grid, stats, step, remaining>>, first' \in BOOLEAN,
           now' \in Nat, now <= now', at' \in Places,
           at' = "fire" => Deadline <= now',
           at' \in {"aim", "wait", "sleep", "fire"} /\ step = 0
             => at \in {"aim", "wait", "sleep", "fire"},
           at' = "paused" => step = 0,
           at' \in {"aim", "wait", "sleep", "fire"}
             => at \in {"aim", "wait", "sleep", "fire"} \/ step > 0
    PROVE  IInv'
<1>1. /\ policy' = policy /\ steps' = steps /\ endQpc' = endQpc /\ t0' = t0
      /\ period' = period /\ k' = k /\ before' = before /\ actions' = actions
      /\ missed' = missed /\ step' = step /\ remaining' = remaining
  BY DEF limits, grid, stats
<1>2. TypeOK /\ k \in Nat /\ now \in Nat /\ InAction \in {0, 1}
  BY DEF IInv, TypeOK, InAction
<1>3. Slot(k + InAction - 1) \in Int
  <2>1. k + InAction - 1 \in Int
    BY <1>2
  <2> QED  BY <1>2, <2>1, SlotHere
<1>4. InAction' = InAction /\ Slot(k + InAction - 1)' = Slot(k + InAction - 1)
      /\ Slot(k)' = Slot(k)
  BY <1>1 DEF InAction, Slot
<1>5. TypeOK'
  BY <1>1 DEF IInv, TypeOK
<1>6. SlotsCounted'
  BY <1>1, <1>4 DEF IInv, SlotsCounted
<1>7. Come'
  <2>1. k + InAction > 0 => Slot(k + InAction - 1) <= now
    BY DEF IInv, Come
  <2>2. k + InAction > 0 => Slot(k + InAction - 1) <= now'
    BY <1>2, <1>3, <2>1
  <2> QED  BY <1>1, <1>4, <2>2 DEF Come, Deadline
<1>8. Allowed'
  BY <1>1, <1>4 DEF IInv, Allowed
<1> QED  BY <1>5, <1>6, <1>7, <1>8 DEF IInv

\* A grid that is left behind is counted as what it was.
LEMMA ResumeKeeps ==
    ASSUME IInv, Resume
    PROVE  IInv'
<1>1. /\ policy' = policy /\ steps' = steps /\ endQpc' = endQpc /\ t0' = now
      /\ period' = period /\ k' = 0 /\ before' = before + k /\ actions' = actions
      /\ missed' = missed /\ step' = step /\ remaining' = remaining /\ first' = first
      /\ now' = now /\ at' = "top" /\ step = 0
  BY DEF Resume, limits, stats, IInv, Allowed
<1>2. TypeOK'
  BY <1>1 DEF IInv, TypeOK, Places
<1>3. SlotsCounted'
  BY <1>1 DEF IInv, TypeOK, SlotsCounted, InAction
<1> QED  BY <1>1, <1>2, <1>3 DEF IInv, Come, Allowed, InAction

LEMMA StepKeeps ==
    ASSUME IInv, [Next]_vars
    PROVE  IInv'
<1> USE DEF Places
<1>1. TypeOK /\ now \in Nat /\ first \in BOOLEAN /\ at \in Places /\ now <= now
  BY DEF IInv, TypeOK
<1>2. Slot(k) \in Int /\ Deadline \in Int
  <2>1. k \in Int /\ step \in Int
    BY DEF IInv, TypeOK
  <2>2. Slot(k) \in Int
    BY <1>1, <2>1, SlotHere
  <2> QED  BY <2>1, <2>2 DEF Deadline
<1>3. CASE Clock
  <2>1. now' = now + 1 /\ UNCHANGED <<limits, grid, stats, step, remaining, first, at>>
    BY <1>3 DEF Clock
  <2>2. now' \in Nat /\ now <= now' /\ (at = "fire" => Deadline <= now')
    BY <1>1, <1>2, <2>1 DEF IInv, Come
  <2> QED  BY <1>1, <2>1, <2>2, GridAlone DEF IInv, Allowed
<1>4. CASE Boundary
  BY <1>4, BoundaryKeeps
<1>5. CASE BudgetDone
  BY <1>1, <1>5, GridAlone DEF BudgetDone
<1>6. CASE Pause
  BY <1>1, <1>6, GridAlone DEF Pause
<1>7. CASE Resume
  BY <1>7, ResumeKeeps
<1>8. CASE GoOn
  BY <1>1, <1>8, GridAlone DEF GoOn
<1>9. CASE Stop
  BY <1>1, <1>9, GridAlone DEF Stop
<1>10. CASE Aim
  <2>1. at' \in {"wait", "fire"} /\ (at' = "fire" => Deadline <= now)
    BY <1>1, <1>2, <1>10 DEF Aim
  <2>2. at = "aim" /\ UNCHANGED <<now, limits, grid, stats, step, remaining, first>>
    BY <1>10 DEF Aim
  <2> QED  BY <1>1, <2>1, <2>2, GridAlone
<1>11. CASE Reached
  <2>1. Deadline <= now
    BY <1>1, <1>2, <1>11 DEF Reached
  <2> QED  BY <1>1, <1>11, <2>1, GridAlone DEF Reached
<1>12. CASE Sleep
  BY <1>1, <1>12, GridAlone DEF Sleep
<1>13. CASE Wake
  BY <1>1, <1>13, GridAlone DEF Wake
<1>14. CASE Interrupted
  BY <1>1, <1>14, GridAlone DEF Interrupted
<1>15. CASE Fire
  BY <1>15, FireKeeps
<1>16. CASE UNCHANGED vars
  BY <1>1, <1>16, GridAlone DEF vars, IInv, Come, Allowed
<1> QED
  BY <1>3, <1>4, <1>5, <1>6, <1>7, <1>8, <1>9, <1>10, <1>11, <1>12, <1>13, <1>14,
     <1>15, <1>16 DEF Next

THEOREM Invariance == Spec => []IInv
<1> QED  BY Initial, StepKeeps, PTL DEF Spec

-----------------------------------------------------------------------------
\* The properties.

\* Every slot of the grid is performed once and not before it falls, or counted
\* as missed, and no action begins past the end of the run: for every period,
\* every lateness and any length of a run (Engine.cpp runTimed()).
THEOREM EverySlotOnce == Spec => []OnGrid
<1>1. IInv => OnGrid
  <2> SUFFICES ASSUME IInv PROVE OnGrid
    OBVIOUS
  <2>1. at = "fire" /\ step = 0 => Slot(k + BatchSize - 1) < endQpc
    BY BatchIsDue
  <2> QED  BY <2>1 DEF IInv, OnGrid, SlotsCounted, Come
<1> QED  BY <1>1, Invariance, PTL

\* No skip goes past the clock, and a run that skips goes on with a slot whose
\* period, before roundings, is not over: for every period, every lateness and
\* every change of the rate (Modes.h Timeline::skipLate(), changePeriod()).
THEOREM LateRunSkips == Spec => SkipsWithinAPeriod
<1> DEFINE Ahead == missed' > missed => SlotOf(t0', period', k') <= now
           Near  == at = "top" /\ at' = "aim" /\ step = 0 /\ policy = "Skip" /\ ~first
                      => (now - t0') * period'.den < (k' + 1) * period'.num
<1>1. ASSUME IInv, [Next]_vars PROVE [Ahead /\ Near]_vars
  <2>1. CASE Boundary
    <3> QED  BY <1>1, <2>1, BoundaryKeeps
  <2>2. CASE ~Boundary
    <3>1. missed \in Int
      BY <1>1 DEF IInv, SlotsCounted, TypeOK
    <3>2. [missed' = missed /\ ~(at = "top" /\ at' = "aim" /\ step = 0)]_vars
      BY <1>1, <2>2 DEF Next, Clock, BudgetDone, Pause, Resume, GoOn, Stop, Aim, Reached,
         Sleep, Wake, Interrupted, Fire, stats
    <3> QED  BY <3>1, <3>2
  <2> QED  BY <2>1, <2>2
<1> QED  BY <1>1, Invariance, PTL DEF Spec, SkipsWithinAPeriod

-----------------------------------------------------------------------------
\* Recursion and induction up to a number.

LEMMA Upward ==
    ASSUME NEW n \in Nat, NEW T \in SUBSET (0..n), 0 \in T,
           \A i \in 1..n : i - 1 \in T => i \in T
    PROVE  T = 0..n
<1> DEFINE B == {i \in 0..n : i \notin T}
<1> SUFFICES ASSUME B # {} PROVE FALSE
  OBVIOUS
<1>1. B \in SUBSET Nat
  OBVIOUS
<1>2. PICK i \in B : \A j \in B : i <= j
  BY <1>1, Smallest
<1>3. i \in 1..n /\ i - 1 \in 0..n /\ i - 1 \in T
  BY <1>2
<1> QED  BY <1>2, <1>3

\* A function that is defined step by step exists.
Chained(n, S, z, F) ==
    \E g \in [0..n -> S] : \A i \in 0..n : g[i] = IF i = 0 THEN z ELSE F[i][g[i - 1]]

LEMMA StepByStep ==
    ASSUME NEW n \in Nat, NEW S, NEW z \in S, NEW F \in [Nat -> [S -> S]]
    PROVE  Chained(n, S, z, F)
<1> DEFINE Good(m, g) == g \in [0..m -> S] /\ \A i \in 0..m : g[i] = IF i = 0 THEN z ELSE F[i][g[i - 1]]
           T == {m \in 0..n : \E g : Good(m, g)}
<1>1. 0 \in T
  <2>1. Good(0, [i \in 0..0 |-> z])
    OBVIOUS
  <2> HIDE DEF Good
  <2> QED  BY <2>1
<1>2. ASSUME NEW m \in 1..n, m - 1 \in T PROVE m \in T
  <2>1. PICK g : Good(m - 1, g)
    BY <1>2
  <2> DEFINE h == [i \in 0..m |-> IF i = m THEN F[m][g[m - 1]] ELSE g[i]]
  <2>2. m - 1 \in 0..m - 1 /\ g[m - 1] \in S
    BY <2>1
  <2>3. F[m][g[m - 1]] \in S
    BY <2>2
  <2>4. \A i \in 0..m : i # m => i \in 0..m - 1 /\ g[i] \in S
    BY <2>1
  <2>5. h \in [0..m -> S]
    BY <2>3, <2>4
  <2>6. ASSUME NEW i \in 0..m PROVE h[i] = IF i = 0 THEN z ELSE F[i][h[i - 1]]
    <3>1. CASE i = m
      BY <3>1
    <3>2. CASE i # m
      <4>1. i \in 0..m - 1 /\ h[i] = g[i] /\ (i # 0 => i - 1 \in 0..m /\ i - 1 # m /\ h[i - 1] = g[i - 1])
        BY <3>2
      <4> QED  BY <2>1, <4>1
    <3> QED  BY <3>1, <3>2
  <2>7. Good(m, h)
    BY <2>5, <2>6
  <2> HIDE DEF Good, h
  <2>8. \E f : Good(m, f)
    BY <2>7
  <2> QED  BY <2>8
<1> HIDE DEF Good
<1>3. T = 0..n
  BY <1>1, <1>2, Upward
<1>4. \E g : Good(n, g)
  BY <1>3
<1> QED  BY <1>4 DEF Good, Chained

-----------------------------------------------------------------------------
\* The events of an action.

Numbered == ActionsOf(Nat, Nat, Nat)
Keys == ModNames \cup {"main", "wheel"}
Event == [key : Keys, down : BOOLEAN, t : Nat]

\* s has every element of S, once.
Lists(s, S) ==
    /\ s \in Seq(ModNames)
    /\ \A i, j \in 1..Len(s) : s[i] = s[j] => i = j
    /\ \A x : x \in S <=> \E i \in 1..Len(s) : x = s[i]

LEMMA OneMore ==
    ASSUME NEW a \in Numbered, NEW s, NEW S, Lists(s, S), NEW m \in ModNames, m \notin S
    PROVE  /\ Lists(One(s, m, a), S \cup ({m} \cap (a.mods \ {a.own})))
           /\ Len(One(s, m, a)) <= Len(s) + 1
<1>0. Len(s) \in Nat /\ s \in Seq(ModNames)
  BY DEF Lists
<1>1. CASE m \in a.mods \ {a.own}
  <2> DEFINE q == Append(s, m)
  <2>1. /\ q \in Seq(ModNames) /\ Len(q) = Len(s) + 1 /\ q[Len(s) + 1] = m
        /\ \A i \in 1..Len(s) : q[i] = s[i]
    BY <1>0
  <2>2. One(s, m, a) = q /\ S \cup ({m} \cap (a.mods \ {a.own})) = S \cup {m}
    BY <1>1 DEF One
  <2> HIDE DEF q
  <2>3. \A i \in 1..Len(s) : s[i] # m
    BY DEF Lists
  <2>4. \A i, j \in 1..Len(q) : q[i] = q[j] => i = j
    <3> SUFFICES ASSUME NEW i \in 1..Len(q), NEW j \in 1..Len(q), q[i] = q[j] PROVE i = j
      OBVIOUS
    <3>1. (i \in 1..Len(s) \/ i = Len(s) + 1) /\ (j \in 1..Len(s) \/ j = Len(s) + 1)
      BY <1>0, <2>1
    <3> QED  BY <2>1, <2>3, <3>1 DEF Lists
  <2>5. ASSUME NEW x PROVE x \in S \cup {m} <=> \E i \in 1..Len(q) : x = q[i]
    <3>1. 1..Len(q) = 1..Len(s) \cup {Len(s) + 1}
      BY <1>0, <2>1
    <3> QED  BY <2>1, <3>1 DEF Lists
  <2> QED  BY <1>0, <2>1, <2>2, <2>4, <2>5 DEF Lists
<1>2. CASE m \notin a.mods \ {a.own}
  <2>1. One(s, m, a) = s /\ S \cup ({m} \cap (a.mods \ {a.own})) = S
    BY <1>2 DEF One
  <2>2. Len(s) <= Len(s) + 1
    BY <1>0
  <2>3. Len(One(s, m, a)) <= Len(s) + 1
    BY <2>1, <2>2
  <2>4. Lists(One(s, m, a), S \cup ({m} \cap (a.mods \ {a.own})))
    BY Zenon, <2>1
  <2> QED  BY <2>3, <2>4
<1> QED  BY <1>1, <1>2

LEMMA ModsAre ==
    ASSUME NEW a \in Numbered
    PROVE  Lists(ModsOf(a), a.mods \ {a.own}) /\ Len(ModsOf(a)) \in 0..4
<1> DEFINE W == a.mods \ {a.own}
           s1 == One(<<>>, "Ctrl", a)
           s2 == One(s1, "Shift", a)
           s3 == One(s2, "Alt", a)
           s4 == One(s3, "Win", a)
           S1 == {} \cup ({"Ctrl"} \cap W)
           S2 == S1 \cup ({"Shift"} \cap W)
           S3 == S2 \cup ({"Alt"} \cap W)
           S4 == S3 \cup ({"Win"} \cap W)
<1>1. Lists(<<>>, {}) /\ Len(<<>>) = 0
  BY DEF Lists
<1>2. Lists(s1, S1) /\ Len(s1) <= 0 + 1
  <2>1. "Ctrl" \in ModNames /\ "Ctrl" \notin {}
    BY DEF ModNames
  <2> DEFINE e == <<>>
             E == {}
  <2>2. "Ctrl" \notin E /\ Lists(e, E) /\ Len(e) = 0
    BY <1>1, <2>1
  <2> HIDE DEF e, E
  <2>3. /\ Lists(One(e, "Ctrl", a), E \cup ({"Ctrl"} \cap W))
        /\ Len(One(e, "Ctrl", a)) <= Len(e) + 1
    BY <2>1, <2>2, OneMore
  <2> QED  BY <2>2, <2>3 DEF e, E
<1>3. Lists(s2, S2) /\ Len(s2) <= Len(s1) + 1
  <2>1. "Shift" \in ModNames /\ "Shift" \notin S1
    BY DEF ModNames
  <2> HIDE DEF s1, S1
  <2> QED  BY <1>2, <2>1, OneMore
<1>4. Lists(s3, S3) /\ Len(s3) <= Len(s2) + 1
  <2>1. "Alt" \in ModNames /\ "Alt" \notin S2
    BY DEF ModNames
  <2> HIDE DEF s2, S2
  <2> QED  BY <1>3, <2>1, OneMore
<1>5. Lists(s4, S4) /\ Len(s4) <= Len(s3) + 1
  <2>1. "Win" \in ModNames /\ "Win" \notin S3
    BY DEF ModNames
  <2> HIDE DEF s3, S3
  <2> QED  BY <1>4, <2>1, OneMore
<1>6. S4 = W
  BY DEF Numbered, ActionsOf, ModNames
<1>7. ModsOf(a) = s4
  BY DEF ModsOf
<1>8. Len(s1) \in Nat /\ Len(s2) \in Nat /\ Len(s3) \in Nat /\ Len(s4) \in Nat
  <2> HIDE DEF s1, s2, s3, s4
  <2> QED  BY <1>2, <1>3, <1>4, <1>5 DEF Lists
<1>9. Len(s4) \in 0..4
  <2> DEFINE n1 == Len(s1)
             n2 == Len(s2)
             n3 == Len(s3)
             n4 == Len(s4)
  <2>1. n1 \in Nat /\ n2 \in Nat /\ n3 \in Nat /\ n4 \in Nat
    BY <1>8
  <2>2. n1 <= 0 + 1 /\ n2 <= n1 + 1 /\ n3 <= n2 + 1 /\ n4 <= n3 + 1
    BY <1>2, <1>3, <1>4, <1>5
  <2>3. n4 \in 0..4
    <3> HIDE DEF n1, n2, n3, n4
    <3> QED  BY <2>1, <2>2
  <2> QED  BY <2>3
<1> HIDE DEF s4, S4
<1> QED  BY <1>5, <1>6, <1>7, <1>9

\* The presses of the key itself: one or two events each, in order of time.
LEMMA MainsAre ==
    ASSUME NEW a \in Numbered
    PROVE  LET main == MainEvents(a)
               N == Len(main)
           IN  /\ N \in 1..6 /\ Repeat(a) \in 1..3 /\ End(a) \in Nat
               /\ main \in Seq(Event) /\ main[1].t = 0 /\ main[N].t = End(a)
               /\ \A i \in 1..N - 1 : main[i].t <= main[i + 1].t
               /\ a.kind = "wheel" => /\ N = Repeat(a)
                                      /\ \A i \in 1..N : main[i].key = "wheel" /\ main[i].down
               /\ a.kind # "wheel" => /\ N = 2 * Repeat(a)
                                      /\ \A i \in 1..N : /\ main[i].key = Main(a)
                                                         /\ (main[i].down <=> i % 2 = 1)
               /\ a.hold = 0 /\ a.gap = 0 => \A i \in 1..N : main[i].t = 0
<1> DEFINE main == MainEvents(a)
           R == Repeat(a)
           L == Length(a)
           G == L + a.gap
<1>1. R \in 1..3
  BY DEF Repeat, Numbered, ActionsOf
<1>2. L \in Nat /\ a.gap \in Nat /\ a.hold \in Nat /\ G \in Nat
  BY DEF Length, Numbered, ActionsOf
<1>3. Begin(a, 0) = 0 /\ Begin(a, 1) = G /\ Begin(a, 2) = 2 * G
  BY <1>2 DEF Begin
<1>4. Main(a) \in Keys /\ "wheel" \in Keys
  BY DEF Main, Keys, Numbered, ActionsOf
<1>5. End(a) = Begin(a, R - 1) + L
  BY DEF End
<1>6. R - 1 \in 0..2 /\ (R = 1 => R - 1 = 0) /\ (R = 2 => R - 1 = 1) /\ (R = 3 => R - 1 = 2)
  BY <1>1
<1>7. End(a) \in Nat
  BY <1>1, <1>2, <1>3, <1>5, <1>6
<1>8. CASE a.kind = "wheel"
  <2>1. main = [n \in 1..R |-> Press("wheel", Begin(a, n - 1))]
    BY <1>8 DEF MainEvents
  <2>2. L = 0 /\ G = a.gap
    BY <1>2, <1>8 DEF Length
  <2>3. \A n \in 1..R : Begin(a, n - 1) \in Nat
    <3> SUFFICES ASSUME NEW n \in 1..R PROVE Begin(a, n - 1) \in Nat
      OBVIOUS
    <3>1. n - 1 = 0 \/ n - 1 = 1 \/ n - 1 = 2
      BY <1>1
    <3> QED  BY <1>2, <1>3, <3>1
  <2>a. \A n \in 1..R : Press("wheel", Begin(a, n - 1)) \in Event
    BY <1>4, <2>3 DEF Press, Event
  <2>4. main \in Seq(Event) /\ Len(main) = R
    <3> HIDE DEF Event, R
    <3> QED  BY <1>1, <2>1, <2>a
  <2>5. \A n \in 1..R : main[n].t = Begin(a, n - 1) /\ main[n].key = "wheel" /\ main[n].down
    BY <2>1 DEF Press
  <2>6. \A n \in 1..R - 1 : main[n].t <= main[n + 1].t
    <3> SUFFICES ASSUME NEW n \in 1..R - 1 PROVE main[n].t <= main[n + 1].t
      OBVIOUS
    <3>1. main[n].t = Begin(a, n - 1) /\ main[n + 1].t = Begin(a, n)
      BY <1>1, <2>5
    <3>2. (n = 1 /\ n - 1 = 0) \/ (n = 2 /\ n - 1 = 1)
      BY <1>1
    <3> QED  BY <1>2, <1>3, <3>1, <3>2
  <2>7. main[1].t = 0 /\ main[R].t = End(a)
    BY <1>1, <1>2, <1>3, <1>5, <2>2, <2>5
  <2>8. a.hold = 0 /\ a.gap = 0 => \A i \in 1..R : main[i].t = 0
    <3> SUFFICES ASSUME a.gap = 0, NEW i \in 1..R PROVE main[i].t = 0
      OBVIOUS
    <3>1. i - 1 = 0 \/ i - 1 = 1 \/ i - 1 = 2
      BY <1>1
    <3> QED  BY <1>3, <2>2, <2>5, <3>1
  <2> QED  BY <1>1, <1>7, <1>8, <2>4, <2>5, <2>6, <2>7, <2>8
<1>9. CASE a.kind # "wheel"
  <2> DEFINE T(n) == IF n % 2 = 1 THEN Begin(a, (n - 1) \div 2) ELSE Begin(a, (n - 1) \div 2) + a.hold
  <2>1. main = [n \in 1..2 * R |->
                  IF n % 2 = 1 THEN Press(Main(a), Begin(a, (n - 1) \div 2))
                  ELSE Lift(Main(a), Begin(a, (n - 1) \div 2) + a.hold)]
    BY <1>9 DEF MainEvents
  <2>2. L = a.hold
    BY <1>9 DEF Length
  <2>3. /\ T(1) = 0 /\ T(2) = a.hold /\ T(3) = G /\ T(4) = G + a.hold
        /\ T(5) = 2 * G /\ T(6) = 2 * G + a.hold
    BY <1>2, <1>3
  <2>4. \A n \in 1..2 * R : n \in 1..6
    BY <1>1
  <2>5. \A n \in 1..2 * R : T(n) \in Nat
    <3> SUFFICES ASSUME NEW n \in 1..2 * R PROVE T(n) \in Nat
      OBVIOUS
    <3>1. n = 1 \/ n = 2 \/ n = 3 \/ n = 4 \/ n = 5 \/ n = 6
      BY <2>4
    <3> HIDE DEF T
    <3> QED  BY <1>2, <2>3, <3>1
  <2>6. \A n \in 1..2 * R : main[n].t = T(n) /\ main[n].key = Main(a) /\ (main[n].down <=> n % 2 = 1)
    BY <2>1 DEF Press, Lift
  <2>b. \A n \in 1..2 * R : main[n] = Press(Main(a), T(n)) \/ main[n] = Lift(Main(a), T(n))
    BY <2>1
  <2>7. 2 * R \in 2..6 /\ main = [n \in 1..2 * R |-> main[n]]
    BY <1>1, <2>1
  <2> HIDE DEF T, main
  <2>8. \A n \in 1..2 * R : main[n] \in Event
    <3> SUFFICES ASSUME NEW n \in 1..2 * R PROVE main[n] \in Event
      OBVIOUS
    <3>1. T(n) \in Nat
      BY <2>5
    <3>2. Press(Main(a), T(n)) \in Event /\ Lift(Main(a), T(n)) \in Event
      BY <1>4, <3>1 DEF Event, Press, Lift
    <3> QED  BY <2>b, <3>2
  <2>9. main \in Seq(Event) /\ Len(main) = 2 * R
    BY <2>7, <2>8
  <2>10. \A n \in 1..2 * R - 1 : main[n].t <= main[n + 1].t
    <3> SUFFICES ASSUME NEW n \in 1..2 * R - 1 PROVE main[n].t <= main[n + 1].t
      OBVIOUS
    <3>a. n \in 1..2 * R /\ n + 1 \in 1..2 * R
      BY <1>1
    <3>1. main[n].t = T(n) /\ main[n + 1].t = T(n + 1)
      BY <2>6, <3>a
    <3>2. n = 1 \/ n = 2 \/ n = 3 \/ n = 4 \/ n = 5
      BY <2>7
    <3> QED  BY <1>2, <2>2, <2>3, <3>1, <3>2
  <2>11. main[1].t = 0 /\ main[2 * R].t = End(a)
    <3>1. main[1].t = T(1) /\ main[2 * R].t = T(2 * R)
      BY <2>6, <2>7
    <3>2. R = 1 \/ R = 2 \/ R = 3
      BY <1>1
    <3> QED  BY <1>2, <1>3, <1>5, <2>2, <2>3, <3>1, <3>2
  <2>12. a.hold = 0 /\ a.gap = 0 => \A i \in 1..2 * R : main[i].t = 0
    <3> SUFFICES ASSUME a.hold = 0, a.gap = 0, NEW i \in 1..2 * R PROVE main[i].t = 0
      OBVIOUS
    <3>1. i = 1 \/ i = 2 \/ i = 3 \/ i = 4 \/ i = 5 \/ i = 6
      BY <2>4
    <3>2. main[i].t = T(i) /\ G = 0
      BY <2>2, <2>6
    <3> QED  BY <2>3, <3>1, <3>2
  <2>13. \A i \in 1..2 * R : main[i].key = Main(a) /\ (main[i].down <=> i % 2 = 1)
    BY <2>6
  <2> QED  BY <1>1, <1>7, <1>9, <2>7, <2>9, <2>10, <2>11, <2>12, <2>13 DEF main
<1> QED  BY <1>8, <1>9

LEMMA EventsAre ==
    ASSUME NEW a \in Numbered
    PROVE  LET mods == ModsOf(a)
               m    == Len(mods)
               main == MainEvents(a)
               N    == Len(main)
               E    == Events(a)
           IN  /\ m \in 0..4 /\ N \in 1..6 /\ E \in Seq(Event) /\ Len(E) = 2 * m + N
               /\ \A n \in 1..m : E[n] = Press(mods[n], 0)
               /\ \A n \in m + 1..m + N : E[n] = main[n - m]
               /\ \A n \in m + N + 1..2 * m + N : E[n] = Lift(mods[2 * m + N + 1 - n], End(a))
               /\ \A n \in 1..Len(E) - 1 : E[n].t <= E[n + 1].t
               /\ E[Len(E)].t = End(a)
               /\ a.hold = 0 /\ a.gap = 0 => \A n \in 1..Len(E) : E[n].t = 0
<1> DEFINE mods == ModsOf(a)
           m    == Len(mods)
           main == MainEvents(a)
           N    == Len(main)
           E    == Events(a)
           last == 2 * m + N
<1>1. m \in 0..4 /\ mods \in Seq(ModNames)
  BY ModsAre DEF Lists
<1>2. /\ N \in 1..6 /\ End(a) \in Nat /\ main \in Seq(Event) /\ main[1].t = 0 /\ main[N].t = End(a)
      /\ \A i \in 1..N - 1 : main[i].t <= main[i + 1].t
      /\ a.hold = 0 /\ a.gap = 0 => \A i \in 1..N : main[i].t = 0
  BY MainsAre
<1>3. E = [n \in 1..last |->
             IF n <= m THEN Press(mods[n], 0)
             ELSE IF n <= m + N THEN main[n - m]
             ELSE Lift(mods[last + 1 - n], End(a))]
  BY DEF Events
<1> HIDE DEF mods, main, E
<1>4. \A n \in 1..m : E[n] = Press(mods[n], 0) /\ mods[n] \in ModNames
  BY <1>1, <1>2, <1>3
<1>5. \A n \in m + 1..m + N : E[n] = main[n - m] /\ n - m \in 1..N /\ main[n - m] \in Event
  BY <1>1, <1>2, <1>3
<1>6. \A n \in m + N + 1..last : E[n] = Lift(mods[last + 1 - n], End(a)) /\ mods[last + 1 - n] \in ModNames
  BY <1>1, <1>2, <1>3
<1>7. last \in 1..14 /\ (\A n \in 1..last : n \in 1..m \/ n \in m + 1..m + N \/ n \in m + N + 1..last)
  <2>1. m \in 0..4 /\ N \in 1..6
    BY <1>1, <1>2
  <2> HIDE DEF m, N
  <2> QED  BY <2>1
<1>8. \A x \in ModNames, t \in Nat : Press(x, t) \in Event /\ Lift(x, t) \in Event
  BY DEF Press, Lift, Event, Keys
<1>9. \A n \in 1..last : E[n] \in Event
  BY <1>2, <1>4, <1>5, <1>6, <1>7, <1>8
<1>10. E \in Seq(Event) /\ Len(E) = last
  <2> HIDE DEF last, Event
  <2>1. E = [n \in 1..last |-> E[n]]
    BY <1>3
  <2> QED  BY <1>7, <1>9, <2>1
<1>a. \A x, t : Press(x, t).t = t /\ Lift(x, t).t = t
  BY DEF Press, Lift
<1>11. \A n \in 1..m : E[n].t = 0
  BY <1>4, <1>a
<1>12. \A n \in m + N + 1..last : E[n].t = End(a)
  BY <1>6, <1>a
<1>13. \A i \in 1..N : main[i].t \in Nat
  <2>1. \A i \in 1..N : main[i] \in Event
    BY <1>2
  <2> QED  BY <2>1 DEF Event
<1>14. E[m + 1].t = 0 /\ E[m + N].t = End(a)
  BY <1>1, <1>2, <1>5
<1>15. ASSUME NEW n \in 1..last - 1 PROVE E[n].t <= E[n + 1].t
  <2>1. CASE n < m
    BY <1>1, <1>11, <2>1
  <2>2. CASE n = m
    BY <1>1, <1>11, <1>14, <2>2
  <2>3. CASE n > m /\ n < m + N
    <3>1. n \in m + 1..m + N /\ n + 1 \in m + 1..m + N /\ n - m \in 1..N - 1 /\ (n + 1) - m = (n - m) + 1
      BY <1>1, <1>2, <2>3
    <3>2. E[n] = main[n - m] /\ E[n + 1] = main[(n - m) + 1]
      BY <1>5, <3>1
    <3> QED  BY <1>2, <3>1, <3>2
  <2>4. CASE n = m + N
    <3>1. n + 1 \in m + N + 1..last
      BY <1>1, <1>2, <2>4
    <3> QED  BY <1>2, <1>12, <1>14, <2>4, <3>1
  <2>5. CASE n > m + N
    <3>1. n \in m + N + 1..last /\ n + 1 \in m + N + 1..last
      BY <1>1, <1>2, <2>5
    <3> QED  BY <1>2, <1>12, <3>1
  <2>6. n < m \/ n = m \/ (n > m /\ n < m + N) \/ n = m + N \/ n > m + N
    <3>1. m \in Int /\ N \in Int /\ n \in Int
      BY <1>1, <1>2, <1>7
    <3> HIDE DEF m, N
    <3> QED  BY <3>1
  <2> QED  BY <2>1, <2>2, <2>3, <2>4, <2>5, <2>6
<1>16. E[last].t = End(a)
  BY <1>1, <1>2, <1>12, <1>14
<1>17. ASSUME a.hold = 0, a.gap = 0, NEW n \in 1..last PROVE E[n].t = 0
  <2>1. End(a) = 0
    BY <1>2, <1>17
  <2> QED  BY <1>2, <1>5, <1>7, <1>11, <1>12, <1>17, <2>1
<1> QED  BY <1>1, <1>2, <1>4, <1>5, <1>6, <1>10, <1>15, <1>16, <1>17 DEF mods, main, E

-----------------------------------------------------------------------------
\* The steps of a program.

Step == [offset : Nat, inputs : Seq(Event)]

LEMMA GroupIs ==
    ASSUME NEW p \in Seq(Step), NEW e \in Event
    PROVE  /\ Group(p, e) \in Seq(Step) /\ Len(Group(p, e)) > 0
           /\ Group(p, e)[Len(Group(p, e))].offset = e.t
<1>1. [offset |-> e.t, inputs |-> <<e>>] \in Step
  BY DEF Step, Event
<1>2. CASE p = <<>> \/ p[Len(p)].offset # e.t \/ Len(p[Len(p)].inputs) >= MaxStepInputs
  BY <1>1, <1>2 DEF Group
<1>3. CASE ~(p = <<>> \/ p[Len(p)].offset # e.t \/ Len(p[Len(p)].inputs) >= MaxStepInputs)
  <2>1. Len(p) \in 1..Len(p) /\ p[Len(p)] \in Step /\ p[Len(p)].offset = e.t
    BY <1>3
  <2> DEFINE st == [offset |-> p[Len(p)].offset, inputs |-> Append(p[Len(p)].inputs, e)]
  <2>2. st \in Step /\ st.offset = e.t
    BY <2>1 DEF Step
  <2>3. Group(p, e) = [p EXCEPT ![Len(p)] = st]
    BY <1>3 DEF Group
  <2> HIDE DEF st, Step
  <2> QED  BY <2>1, <2>2, <2>3
<1> QED  BY <1>2, <1>3

\* Grouped() is the chain of the programs its events make one by one.
LEMMA GroupedBySteps ==
    ASSUME NEW evs \in Seq(Event)
    PROVE  \E g \in [0..Len(evs) -> Seq(Step)] :
              /\ g[0] = <<>> /\ Grouped(evs) = g[Len(evs)]
              /\ \A i \in 1..Len(evs) : g[i] = Group(g[i - 1], evs[i])
<1> DEFINE n == Len(evs)
           F == [i \in Nat |-> [p \in Seq(Step) |-> IF i \in 1..n THEN Group(p, evs[i]) ELSE p]]
           Chain(g) == g = [i \in 0..n |-> IF i = 0 THEN <<>> ELSE Group(g[i - 1], evs[i])]
           c == CHOOSE g : Chain(g)
<1>1. n \in Nat /\ \A i \in 1..n : evs[i] \in Event
  OBVIOUS
<1> HIDE DEF n, Step, Event
<1>2. \A i \in 1..n, p \in Seq(Step) : Group(p, evs[i]) \in Seq(Step)
  BY <1>1, GroupIs
<1>3. F \in [Nat -> [Seq(Step) -> Seq(Step)]] /\ <<>> \in Seq(Step)
  BY <1>2
<1> HIDE DEF F
<1>4. PICK g \in [0..n -> Seq(Step)] : \A i \in 0..n : g[i] = IF i = 0 THEN <<>> ELSE F[i][g[i - 1]]
  <2> DEFINE S == Seq(Step)
             z == <<>>
  <2>1. n \in Nat /\ F \in [Nat -> [S -> S]] /\ z \in S
    BY <1>1, <1>3
  <2> HIDE DEF S, z
  <2>2. Chained(n, S, z, F)
    BY <2>1, StepByStep
  <2> QED  BY <2>2 DEF S, z, Chained
<1>5. \A i \in 0..n : g[i] = IF i = 0 THEN <<>> ELSE Group(g[i - 1], evs[i])
  <2> SUFFICES ASSUME NEW i \in 0..n PROVE g[i] = IF i = 0 THEN <<>> ELSE Group(g[i - 1], evs[i])
    OBVIOUS
  <2>1. CASE i = 0
    BY <1>4, <2>1
  <2>2. CASE i # 0
    <3>1. i \in 1..n /\ i - 1 \in 0..n /\ i \in Nat /\ g[i - 1] \in Seq(Step)
      BY <1>1, <2>2
    <3>2. F[i][g[i - 1]] = Group(g[i - 1], evs[i])
      BY <3>1 DEF F
    <3> QED  BY <1>4, <2>2, <3>2
  <2> QED  BY <2>1, <2>2
<1>6. Chain(g)
  <2>1. g = [i \in 0..n |-> g[i]]
    OBVIOUS
  <2> QED  BY <1>5, <2>1
<1> HIDE DEF Chain
<1>7. Chain(c)
  BY <1>6
<1> HIDE DEF c
<1>8. \A i \in 0..n : c[i] = IF i = 0 THEN <<>> ELSE Group(c[i - 1], evs[i])
  BY <1>7 DEF Chain
<1> DEFINE T == {i \in 0..n : c[i] \in Seq(Step)}
<1>9. T = 0..n
  <2>1. 0 \in T
    <3>1. 0 \in 0..n /\ c[0] = <<>>
      BY <1>1, <1>8
    <3> QED  BY <1>3, <3>1
  <2>2. \A i \in 1..n : i - 1 \in T => i \in T
    <3> SUFFICES ASSUME NEW i \in 1..n, c[i - 1] \in Seq(Step) PROVE i \in 0..n /\ c[i] \in Seq(Step)
      OBVIOUS
    <3>1. i \in 0..n /\ i # 0 /\ c[i] = Group(c[i - 1], evs[i])
      BY <1>1, <1>8
    <3> QED  BY <1>2, <3>1
  <2> HIDE DEF T
  <2>3. T \in SUBSET (0..n)
    BY DEF T
  <2> QED  BY <1>1, <2>1, <2>2, <2>3, Upward
<1>10. c \in [0..n -> Seq(Step)]
  <2>1. c = [i \in 0..n |-> c[i]]
    BY <1>7, <1>8 DEF Chain
  <2> QED  BY <1>9, <2>1
<1>11. Grouped(evs) = c[n]
  BY DEF Grouped, c, Chain, n
<1>12. c[0] = <<>> /\ \A i \in 1..n : c[i] = Group(c[i - 1], evs[i])
  BY <1>1, <1>8
<1> QED  BY <1>10, <1>11, <1>12 DEF n

\* Flat() is the chain of the inputs of the steps, and there is one such chain.
FlatChain(f, p) ==
    /\ f \in [0..Len(p) -> Seq(Event)] /\ f[0] = <<>>
    /\ \A i \in 1..Len(p) : f[i] = f[i - 1] \o p[i].inputs

LEMMA FlatBySteps ==
    ASSUME NEW p \in Seq(Step)
    PROVE  \E f : FlatChain(f, p) /\ Flat(p) = f[Len(p)]
<1> DEFINE n == Len(p)
           F == [i \in Nat |-> [s \in Seq(Event) |-> IF i \in 1..n THEN s \o p[i].inputs ELSE s]]
           Chain(g) == g = [i \in 0..n |-> IF i = 0 THEN <<>> ELSE g[i - 1] \o p[i].inputs]
           c == CHOOSE g : Chain(g)
           S == Seq(Event)
           z == <<>>
<1>1. n \in Nat /\ \A i \in 1..n : p[i] \in Step /\ p[i].inputs \in S
  <2>1. n \in Nat /\ \A i \in 1..n : p[i] \in Step
    OBVIOUS
  <2> QED  BY <2>1 DEF Step
<1> HIDE DEF n, Step, Event
<1>2. \A s, q \in S : s \o q \in S
  OBVIOUS
<1>3. z \in S
  OBVIOUS
<1>4. F \in [Nat -> [S -> S]]
  <2> HIDE DEF S
  <2>1. \A i \in Nat, s \in S : (IF i \in 1..n THEN s \o p[i].inputs ELSE s) \in S
    BY <1>1, <1>2
  <2>2. F = [i \in Nat |-> [s \in S |-> IF i \in 1..n THEN s \o p[i].inputs ELSE s]]
    BY DEF S
  <2> QED  BY <2>1, <2>2
<1> HIDE DEF F, S, z
<1>5. Chained(n, S, z, F)
  BY <1>1, <1>3, <1>4, StepByStep
<1>6. PICK g \in [0..n -> S] : \A i \in 0..n : g[i] = IF i = 0 THEN z ELSE F[i][g[i - 1]]
  BY <1>5 DEF Chained
<1>7. \A i \in 0..n : g[i] = IF i = 0 THEN <<>> ELSE g[i - 1] \o p[i].inputs
  <2> SUFFICES ASSUME NEW i \in 0..n PROVE g[i] = IF i = 0 THEN <<>> ELSE g[i - 1] \o p[i].inputs
    OBVIOUS
  <2>1. CASE i = 0
    BY <1>6, <2>1 DEF z
  <2>2. CASE i # 0
    <3>1. i \in 1..n /\ i - 1 \in 0..n /\ i \in Nat /\ g[i - 1] \in S
      BY <1>1, <2>2
    <3>2. F[i][g[i - 1]] = g[i - 1] \o p[i].inputs
      BY <3>1 DEF F, S
    <3> QED  BY <1>6, <2>2, <3>2
  <2> QED  BY <2>1, <2>2
<1>8. Chain(g)
  <2>1. g = [i \in 0..n |-> g[i]]
    OBVIOUS
  <2> QED  BY <1>7, <2>1
<1> HIDE DEF Chain
<1>9. Chain(c)
  BY <1>8
<1> HIDE DEF c
<1>10. \A i \in 0..n : c[i] = IF i = 0 THEN <<>> ELSE c[i - 1] \o p[i].inputs
  BY <1>9 DEF Chain
<1> DEFINE T == {i \in 0..n : c[i] \in S}
<1>11. T = 0..n
  <2>1. 0 \in T
    <3>1. 0 \in 0..n /\ c[0] = <<>>
      BY <1>1, <1>10
    <3> QED  BY <1>3, <3>1 DEF z
  <2>2. \A i \in 1..n : i - 1 \in T => i \in T
    BY <1>1, <1>2, <1>10
  <2> HIDE DEF T
  <2>3. T \in SUBSET (0..n)
    BY DEF T
  <2> QED  BY <1>1, <2>1, <2>2, <2>3, Upward
<1>12. c \in [0..n -> S]
  <2>1. c = [i \in 0..n |-> c[i]]
    BY <1>9, <1>10 DEF Chain
  <2> QED  BY <1>11, <2>1
<1>13. Flat(p) = c[n]
  BY DEF Flat, c, Chain, n
<1>14. c[0] = <<>> /\ \A i \in 1..n : c[i] = c[i - 1] \o p[i].inputs
  BY <1>1, <1>10
<1>15. FlatChain(c, p)
  BY <1>12, <1>14 DEF FlatChain, n, S
<1> QED  BY <1>13, <1>15 DEF n

LEMMA FlatUnique ==
    ASSUME NEW p \in Seq(Step), NEW f, FlatChain(f, p)
    PROVE  Flat(p) = f[Len(p)]
<1> DEFINE n == Len(p)
<1>0. n \in Nat
  OBVIOUS
<1>1. PICK g : FlatChain(g, p) /\ Flat(p) = g[Len(p)]
  BY FlatBySteps
<1> DEFINE T == {i \in 0..n : f[i] = g[i]}
<1>2. 0 \in T
  BY <1>1 DEF FlatChain
<1>3. \A i \in 1..n : i - 1 \in T => i \in T
  <2> SUFFICES ASSUME NEW i \in 1..n, f[i - 1] = g[i - 1] PROVE f[i] = g[i]
    OBVIOUS
  <2>1. f[i] = f[i - 1] \o p[i].inputs /\ g[i] = g[i - 1] \o p[i].inputs
    BY <1>1 DEF FlatChain
  <2> QED  BY <2>1
<1>4. T = 0..n
  <2>1. T \in SUBSET (0..n)
    OBVIOUS
  <2> HIDE DEF T, n
  <2> QED  BY <1>0, <1>2, <1>3, <2>1, Upward
<1>5. n \in T
  <2> HIDE DEF T, n
  <2> QED  BY <1>0, <1>4
<1> QED  BY <1>1, <1>5

\* Grouping one more event adds it to the inputs of the program, at the end.
LEMMA FlatGrows ==
    ASSUME NEW p \in Seq(Step), NEW e \in Event
    PROVE  Flat(p) \in Seq(Event) /\ Flat(Group(p, e)) = Append(Flat(p), e)
<1> DEFINE n == Len(p)
<1>0. n \in Nat
  OBVIOUS
<1>1. PICK f : FlatChain(f, p) /\ Flat(p) = f[n]
  BY FlatBySteps
<1>2. Flat(p) \in Seq(Event)
  BY <1>0, <1>1 DEF FlatChain
<1>3. CASE p = <<>> \/ p[Len(p)].offset # e.t \/ Len(p[Len(p)].inputs) >= MaxStepInputs
  <2> DEFINE st == [offset |-> e.t, inputs |-> <<e>>]
             q == Append(p, st)
             h == [i \in 0..n + 1 |-> IF i = n + 1 THEN Append(f[n], e) ELSE f[i]]
  <2>1. Group(p, e) = q /\ st \in Step
    BY <1>3 DEF Group, Step, Event
  <2>2. st.inputs = <<e>>
    OBVIOUS
  <2> HIDE DEF st
  <2>3. q \in Seq(Step) /\ Len(q) = n + 1 /\ q[n + 1] = st /\ \A i \in 1..n : q[i] = p[i]
    BY <2>1
  <2> HIDE DEF q, Step, Event
  <2>4. f[n] \in Seq(Event) /\ \A i \in 0..n : f[i] \in Seq(Event)
    BY <1>0, <1>1 DEF FlatChain
  <2>5. Append(f[n], e) \in Seq(Event) /\ Append(f[n], e) = f[n] \o <<e>>
    BY <2>4
  <2>6. h \in [0..n + 1 -> Seq(Event)] /\ h[0] = <<>>
    BY <1>0, <1>1, <2>4, <2>5 DEF FlatChain
  <2>7. ASSUME NEW i \in 1..n + 1 PROVE h[i] = h[i - 1] \o q[i].inputs
    <3>1. CASE i = n + 1
      <4>1. i - 1 = n /\ n # n + 1 /\ h[i - 1] = f[n]
        BY <1>0, <3>1
      <4>2. h[i] = Append(f[n], e)
        BY <1>0, <3>1
      <4>3. q[i].inputs = <<e>>
        BY <2>2, <2>3, <3>1
      <4> HIDE DEF h
      <4> QED  BY <2>5, <4>1, <4>2, <4>3
    <3>2. CASE i # n + 1
      <4>1. i \in 1..n /\ i - 1 \in 0..n + 1 /\ i - 1 # n + 1
        BY <1>0, <3>2
      <4>2. h[i] = f[i] /\ h[i - 1] = f[i - 1] /\ q[i] = p[i]
        BY <2>3, <3>2, <4>1
      <4>3. f[i] = f[i - 1] \o p[i].inputs
        BY <1>1, <4>1 DEF FlatChain
      <4> QED  BY <4>2, <4>3
    <3> QED  BY <3>1, <3>2
  <2>8. h[n + 1] = Append(f[n], e)
    BY <1>0
  <2> HIDE DEF h, n
  <2>9. FlatChain(h, q)
    BY <2>3, <2>6, <2>7 DEF FlatChain
  <2>10. Flat(q) = h[n + 1]
    BY <2>3, <2>9, FlatUnique
  <2> QED  BY <1>1, <1>2, <2>1, <2>8, <2>10
<1>4. CASE ~(p = <<>> \/ p[Len(p)].offset # e.t \/ Len(p[Len(p)].inputs) >= MaxStepInputs)
  <2> DEFINE st == [offset |-> p[n].offset, inputs |-> Append(p[n].inputs, e)]
             q == [p EXCEPT ![n] = st]
             h == [f EXCEPT ![n] = Append(f[n], e)]
  <2>1. n \in 1..n /\ p[n] \in Step
    BY <1>4
  <2>2. p[n].inputs \in Seq(Event) /\ st \in Step /\ st.inputs = Append(p[n].inputs, e)
    BY <2>1 DEF Step
  <2>3. Group(p, e) = q
    BY <1>4 DEF Group
  <2> HIDE DEF st
  <2>4. q \in Seq(Step) /\ Len(q) = n /\ q[n] = st /\ \A i \in 1..n : i # n => q[i] = p[i]
    BY <2>1, <2>2
  <2> HIDE DEF q, Step, Event
  <2>5. f \in [0..n -> Seq(Event)] /\ f[n] \in Seq(Event) /\ f[n - 1] \in Seq(Event) /\ f[n] = f[n - 1] \o p[n].inputs
    BY <1>0, <1>1, <2>1 DEF FlatChain
  <2>6. Append(f[n], e) \in Seq(Event) /\ Append(f[n], e) = f[n - 1] \o Append(p[n].inputs, e)
    <3> DEFINE x == f[n - 1]
               y == p[n].inputs
    <3>1. x \in Seq(Event) /\ y \in Seq(Event) /\ f[n] = x \o y
      BY <2>2, <2>5
    <3> HIDE DEF x, y
    <3>2. Append(x \o y, e) = x \o Append(y, e) /\ x \o y \in Seq(Event)
      <4>1. x \o y \in Seq(Event) /\ <<e>> \in Seq(Event)
        BY <3>1
      <4>2. Append(x \o y, e) = (x \o y) \o <<e>> /\ Append(y, e) = y \o <<e>>
        BY <3>1, <4>1
      <4>3. (x \o y) \o <<e>> = x \o (y \o <<e>>)
        BY <3>1, <4>1, ConcatAssociative
      <4> QED  BY <4>1, <4>2, <4>3
    <3> QED  BY <3>1, <3>2 DEF x, y
  <2>7. h \in [0..n -> Seq(Event)] /\ h[0] = <<>> /\ h[n] = Append(f[n], e) /\ \A i \in 0..n : i # n => h[i] = f[i]
    <3>1. n \in 0..n /\ 0 \in 0..n /\ n # 0 /\ f[0] = <<>>
      BY <1>0, <1>1, <2>1 DEF FlatChain
    <3> DEFINE v == Append(f[n], e)
    <3>2. v \in Seq(Event)
      BY <2>6
    <3> HIDE DEF v
    <3> QED  BY <2>5, <3>1, <3>2 DEF v
  <2> HIDE DEF h
  <2>8. ASSUME NEW i \in 1..n PROVE h[i] = h[i - 1] \o q[i].inputs
    <3>0. i - 1 \in 0..n /\ i - 1 # n /\ h[i - 1] = f[i - 1] /\ i \in 0..n
      BY <1>0, <2>7
    <3>1. CASE i = n
      BY <2>2, <2>4, <2>6, <2>7, <3>0, <3>1
    <3>2. CASE i # n
      BY <1>1, <2>4, <2>7, <3>0, <3>2 DEF FlatChain
    <3> QED  BY <3>1, <3>2
  <2> HIDE DEF n
  <2>9. FlatChain(h, q)
    BY <2>4, <2>7, <2>8 DEF FlatChain
  <2>10. Flat(q) = h[n]
    BY <2>4, <2>9, FlatUnique
  <2> QED  BY <1>1, <1>2, <2>3, <2>7, <2>10
<1> QED  BY <1>2, <1>3, <1>4

\* A step is begun for each moment, in order, and is never full.
LEMMA GroupInOrder ==
    ASSUME NEW p \in Seq(Step), NEW e \in Event, NEW r \in 0..14, OneCallEach(p),
           p # <<>> => p[Len(p)].offset <= e.t,
           \A i \in 1..Len(p) : Len(p[i].inputs) <= r
    PROVE  LET q == Group(p, e)
           IN  /\ OneCallEach(q) /\ \A i \in 1..Len(q) : Len(q[i].inputs) <= r + 1
               /\ \A i \in 1..Len(q) : q[i].offset = e.t \/ \E j \in 1..Len(p) : q[i].offset = p[j].offset
<1> DEFINE n == Len(p)
           q == Group(p, e)
<1>0. n \in Nat /\ e.t \in Nat /\ \A i \in 1..n : p[i] \in Step
  BY DEF Event
<1>a. \A i \in 1..n : p[i].offset \in Nat /\ p[i].inputs \in Seq(Event) /\ Len(p[i].inputs) \in Nat
  <2>1. \A s \in Step : s.offset \in Nat /\ s.inputs \in Seq(Event) /\ Len(s.inputs) \in Nat
    BY DEF Step
  <2> QED  BY <1>0, <2>1
<1>1. CASE p = <<>> \/ p[n].offset # e.t
  <2> DEFINE st == [offset |-> e.t, inputs |-> <<e>>]
  <2>1. q = Append(p, st) /\ st.offset = e.t /\ Len(st.inputs) = 1
    BY <1>1 DEF Group
  <2> HIDE DEF st, Step
  <2>2. Len(q) = n + 1 /\ q[n + 1] = st /\ \A i \in 1..n : q[i] = p[i]
    BY <2>1
  <2> HIDE DEF q
  <2>3. ASSUME NEW i \in 1..n PROVE q[i].offset < q[i + 1].offset
    <3>1. CASE i = n
      <4>1. p # <<>> /\ p[n].offset <= e.t /\ p[n].offset # e.t
        BY <1>1, <2>3, <3>1
      <4> QED  BY <1>0, <1>a, <2>1, <2>2, <3>1, <4>1
    <3>2. CASE i # n
      <4>1. i \in 1..n - 1 /\ i + 1 \in 1..n
        BY <1>0, <3>2
      <4>2. q[i] = p[i] /\ q[i + 1] = p[i + 1]
        BY <2>2, <4>1
      <4> QED  BY <4>1, <4>2 DEF OneCallEach
    <3> QED  BY <3>1, <3>2
  <2>4. OneCallEach(q)
    BY <1>0, <2>2, <2>3 DEF OneCallEach
  <2>5. ASSUME NEW i \in 1..Len(q)
        PROVE  /\ Len(q[i].inputs) <= r + 1
               /\ q[i].offset = e.t \/ \E j \in 1..n : q[i].offset = p[j].offset
    <3>1. CASE i = n + 1
      <4>1. q[i] = st
        BY <2>2, <3>1
      <4>2. 1 <= r + 1
        OBVIOUS
      <4> QED  BY <2>1, <4>1, <4>2
    <3>2. CASE i # n + 1
      <4>1. i \in 1..n /\ q[i] = p[i]
        BY <1>0, <2>2, <3>2
      <4>2. Len(p[i].inputs) <= r /\ Len(p[i].inputs) \in Nat
        BY <1>a, <4>1
      <4>3. Len(p[i].inputs) <= r + 1
        BY <4>2
      <4> QED  BY <4>1, <4>3
    <3> QED  BY <3>1, <3>2
  <2> QED  BY <2>4, <2>5 DEF q
<1>2. CASE ~(p = <<>> \/ p[n].offset # e.t)
  <2> DEFINE st == [offset |-> p[n].offset, inputs |-> Append(p[n].inputs, e)]
  <2>1. n \in 1..n
    BY <1>0, <1>2
  <2>2. Len(p[n].inputs) \in Nat /\ Len(p[n].inputs) <= r /\ ~(Len(p[n].inputs) >= MaxStepInputs)
    BY <1>a, <2>1 DEF MaxStepInputs
  <2>3. q = [p EXCEPT ![n] = st]
    BY <1>2, <2>2 DEF Group
  <2>4. st.offset = p[n].offset /\ Len(st.inputs) = Len(p[n].inputs) + 1
    BY <1>a, <2>1
  <2> HIDE DEF st, Step
  <2>5. Len(q) = n /\ q[n] = st /\ \A i \in 1..n : i # n => q[i] = p[i]
    BY <2>1, <2>3
  <2> HIDE DEF q
  <2>6. \A i \in 1..n : q[i].offset = p[i].offset
    BY <2>1, <2>4, <2>5
  <2>7. OneCallEach(q)
    <3> SUFFICES ASSUME NEW i \in 1..n - 1 PROVE q[i].offset < q[i + 1].offset
      BY <2>5 DEF OneCallEach
    <3>1. i \in 1..n /\ i + 1 \in 1..n
      BY <1>0
    <3> QED  BY <2>6, <3>1 DEF OneCallEach
  <2>8. ASSUME NEW i \in 1..Len(q) PROVE Len(q[i].inputs) <= r + 1
    <3>1. CASE i = n
      BY <2>2, <2>4, <2>5, <3>1
    <3>2. CASE i # n
      <4>1. Len(p[i].inputs) <= r /\ Len(p[i].inputs) \in Nat /\ q[i] = p[i]
        BY <1>a, <2>5, <3>2
      <4>2. Len(p[i].inputs) <= r + 1
        BY <4>1
      <4> QED  BY <4>1, <4>2
    <3> QED  BY <3>1, <3>2
  <2>9. \A i \in 1..Len(q) : \E j \in 1..n : q[i].offset = p[j].offset
    BY <2>5, <2>6
  <2> QED  BY <2>7, <2>8, <2>9 DEF q
<1> QED  BY <1>1, <1>2

LEMMA FlatOfNone == Flat(<<>>) = <<>>
<1> DEFINE f == [i \in 0..0 |-> <<>>]
           e == <<>>
<1>1. f \in [0..0 -> Seq(Event)] /\ f[0] = <<>> /\ e \in Seq(Step) /\ Len(e) = 0
  OBVIOUS
<1> HIDE DEF f, e
<1>2. FlatChain(f, e)
  BY <1>1 DEF FlatChain
<1>3. Flat(e) = f[Len(e)]
  BY <1>1, <1>2, FlatUnique
<1> QED  BY <1>1, <1>3 DEF e

LEMMA GroupedIs ==
    ASSUME NEW evs \in Seq(Event), Len(evs) <= 15,
           \A n \in 1..Len(evs) - 1 : evs[n].t <= evs[n + 1].t
    PROVE  LET p == Grouped(evs)
           IN  /\ p \in Seq(Step) /\ Flat(p) = evs /\ OneCallEach(p)
               /\ Len(evs) > 0 => Len(p) > 0 /\ p[Len(p)].offset = evs[Len(evs)].t
               /\ (\A n \in 1..Len(evs) : evs[n].t = 0) => Len(p) <= 1
<1> DEFINE last == Len(evs)
           Sound(r, p) ==
             /\ Flat(p) \in Seq(Event) /\ Len(Flat(p)) = r /\ (\A i \in 1..r : Flat(p)[i] = evs[i])
             /\ r > 0 => Len(p) > 0 /\ p[Len(p)].offset = evs[r].t
             /\ r = 0 => p = <<>>
             /\ OneCallEach(p) /\ \A i \in 1..Len(p) : Len(p[i].inputs) <= r
             /\ \A i \in 1..Len(p) : \E j \in 1..r : p[i].offset = evs[j].t
<1>1. last \in 0..15 /\ \A i \in 1..last : evs[i] \in Event
  <2>1. last \in Nat /\ \A i \in 1..last : evs[i] \in Event
    OBVIOUS
  <2>2. last <= 15
    OBVIOUS
  <2> HIDE DEF last
  <2> QED  BY <2>1, <2>2
<1>2. PICK g \in [0..last -> Seq(Step)] :
         /\ g[0] = <<>> /\ Grouped(evs) = g[last]
         /\ \A i \in 1..last : g[i] = Group(g[i - 1], evs[i])
  BY GroupedBySteps
<1>3. Sound(0, <<>>)
  <2>1. Flat(<<>>) = <<>>
    BY FlatOfNone
  <2>2. Len(<<>>) = 0 /\ OneCallEach(<<>>)
    BY DEF OneCallEach
  <2>3. <<>> \in Seq(Event) /\ 1..0 = {}
    OBVIOUS
  <2> DEFINE e == <<>>
  <2>4. Flat(e) = e /\ Len(e) = 0 /\ OneCallEach(e) /\ e \in Seq(Event)
    BY <2>1, <2>2, <2>3
  <2> HIDE DEF e
  <2>5. Sound(0, e) <=> e = <<>>
    BY <2>3, <2>4
  <2> QED  BY <2>5 DEF e
<1>4. ASSUME NEW r \in 1..last, Sound(r - 1, g[r - 1]) PROVE Sound(r, g[r])
  <2> DEFINE p == g[r - 1]
             e == evs[r]
             q == Group(p, e)
  <2>1. /\ p \in Seq(Step) /\ e \in Event /\ g[r] = q /\ e.t \in Nat
        /\ r - 1 \in 0..14 /\ r \in 1..15 /\ (r - 1) + 1 = r
    <3> HIDE DEF last
    <3>1. r - 1 \in 0..14 /\ r \in 1..15 /\ (r - 1) + 1 = r /\ r - 1 \in 0..last
      BY <1>1
    <3>2. e \in Event
      BY <1>1
    <3>3. e.t \in Nat
      BY <3>2 DEF Event
    <3>4. p \in Seq(Step) /\ g[r] = q
      BY <1>2, <3>1
    <3> QED  BY <3>1, <3>2, <3>3, <3>4
  <2>2. p # <<>> => p[Len(p)].offset <= e.t
    <3> SUFFICES ASSUME p # <<>> PROVE p[Len(p)].offset <= e.t
      OBVIOUS
    <3>a. r - 1 # 0
      BY <1>4
    <3>1. r - 1 > 0 /\ r - 1 \in 1..last - 1
      <4> HIDE DEF last
      <4> QED  BY <1>1, <3>a
    <3>2. p[Len(p)].offset = evs[r - 1].t /\ evs[r - 1].t <= evs[(r - 1) + 1].t
      BY <1>4, <3>1
    <3> QED  BY <2>1, <3>2
  <2>3. Flat(p) \in Seq(Event) /\ Flat(q) = Append(Flat(p), e)
    BY <2>1, FlatGrows
  <2>4. /\ Flat(q) \in Seq(Event) /\ Len(Flat(q)) = r /\ Flat(q)[r] = evs[r]
        /\ \A i \in 1..r - 1 : Flat(q)[i] = Flat(p)[i]
    <3>1. Len(Flat(p)) = r - 1
      BY <1>4
    <3> DEFINE s == Flat(p)
    <3> HIDE DEF s, Event
    <3>2. s \in Seq(Event) /\ Len(s) = r - 1 /\ e \in Event
      BY <2>1, <2>3, <3>1 DEF s
    <3>3. /\ Append(s, e) \in Seq(Event) /\ Len(Append(s, e)) = r /\ Append(s, e)[r] = e
          /\ \A i \in 1..r - 1 : Append(s, e)[i] = s[i]
      BY <2>1, <3>2
    <3> QED  BY <2>3, <3>3 DEF s
  <2>5. \A i \in 1..r : Flat(q)[i] = evs[i]
    <3> SUFFICES ASSUME NEW i \in 1..r PROVE Flat(q)[i] = evs[i]
      OBVIOUS
    <3>1. CASE i = r
      BY <2>4, <3>1
    <3>2. CASE i # r
      <4>1. i \in 1..r - 1
        BY <3>2
      <4> QED  BY <1>4, <2>4, <4>1
    <3> QED  BY <3>1, <3>2
  <2>6. Len(q) > 0 /\ q[Len(q)].offset = e.t
    BY <2>1, GroupIs
  <2>7. OneCallEach(p) /\ \A i \in 1..Len(p) : Len(p[i].inputs) <= r - 1
    BY <1>4
  <2>8. /\ OneCallEach(q) /\ \A i \in 1..Len(q) : Len(q[i].inputs) <= (r - 1) + 1
        /\ \A i \in 1..Len(q) : q[i].offset = e.t \/ \E j \in 1..Len(p) : q[i].offset = p[j].offset
    <3> DEFINE b == r - 1
    <3>1. b \in 0..14 /\ OneCallEach(p) /\ \A i \in 1..Len(p) : Len(p[i].inputs) <= b
      BY <2>1, <2>7
    <3> HIDE DEF b, p, e
    <3> QED  BY <2>1, <2>2, <3>1, GroupInOrder DEF b
  <2>9. ASSUME NEW i \in 1..Len(q) PROVE \E j \in 1..r : q[i].offset = evs[j].t
    <3>1. CASE q[i].offset = e.t
      BY <3>1
    <3>2. CASE \E j \in 1..Len(p) : q[i].offset = p[j].offset
      <4>1. PICK j \in 1..Len(p) : q[i].offset = p[j].offset
        BY <3>2
      <4>2. PICK l \in 1..r - 1 : p[j].offset = evs[l].t
        BY <1>4
      <4>3. l \in 1..r
        OBVIOUS
      <4> QED  BY <4>1, <4>2, <4>3
    <3> QED  BY <2>8, <3>1, <3>2
  <2>10. r > 0 /\ r # 0
    OBVIOUS
  <2>11. g[r] = q /\ q[Len(q)].offset = evs[r].t /\ \A i \in 1..Len(q) : Len(q[i].inputs) <= r
    BY <2>1, <2>6, <2>8
  <2>12. Sound(r, q)
    <3> HIDE DEF q
    <3> QED  BY <2>4, <2>5, <2>6, <2>8, <2>9, <2>10, <2>11
  <2> HIDE DEF Sound, q
  <2> QED  BY <2>11, <2>12
<1> DEFINE T == {r \in 0..last : Sound(r, g[r])}
<1>5. T = 0..last
  <2> HIDE DEF Sound, last
  <2>1. 0 \in T
    BY <1>1, <1>2, <1>3
  <2>2. \A r \in 1..last : r - 1 \in T => r \in T
    <3> SUFFICES ASSUME NEW r \in 1..last, r - 1 \in T PROVE r \in T
      OBVIOUS
    <3>1. Sound(r - 1, g[r - 1]) /\ r \in 0..last
      BY <1>1
    <3>2. Sound(r, g[r])
      BY <1>4, <3>1
    <3> QED  BY <3>1, <3>2
  <2>3. T \in SUBSET (0..last) /\ last \in Nat
    BY <1>1
  <2> HIDE DEF T
  <2> QED  BY <2>1, <2>2, <2>3, Upward
<1> DEFINE p == Grouped(evs)
<1>6. Sound(last, p)
  <2> HIDE DEF Sound, last
  <2>1. last \in T
    BY <1>1, <1>5
  <2> QED  BY <1>2, <2>1
<1>7. p \in Seq(Step)
  BY <1>1, <1>2
<1>8. Flat(p) = evs
  <2> HIDE DEF p
  <2>1. Flat(p) \in Seq(Event) /\ Len(Flat(p)) = Len(evs) /\ \A i \in 1..Len(Flat(p)) : Flat(p)[i] = evs[i]
    BY <1>6
  <2> QED  BY <2>1, SeqEqual
<1>9. ASSUME \A n \in 1..last : evs[n].t = 0 PROVE Len(p) <= 1
  <2> HIDE DEF p
  <2>1. \A i \in 1..Len(p) : p[i].offset = 0
    BY <1>6, <1>9
  <2> SUFFICES ASSUME Len(p) > 1 PROVE FALSE
    BY <1>7
  <2>2. 1 \in 1..Len(p) - 1 /\ 1 \in 1..Len(p) /\ 1 + 1 \in 1..Len(p)
    BY <1>7
  <2>3. p[1].offset < p[1 + 1].offset
    BY <1>6, <2>2 DEF OneCallEach
  <2> QED  BY <2>1, <2>2, <2>3
<1> QED  BY <1>6, <1>7, <1>8, <1>9

LEMMA CompiledIs ==
    ASSUME NEW a \in Numbered
    PROVE  LET p == CompileAction(a)
           IN  /\ p \in Seq(Step) /\ OneCallEach(p)
               /\ a.kind = "none" => p = <<>> /\ Flat(p) = <<>> /\ Span(p) = 0
               /\ a.kind # "none" => Flat(p) = Events(a) /\ Span(p) = End(a)
               /\ a.hold = 0 /\ a.gap = 0 => Len(p) <= 1
<1> DEFINE p == CompileAction(a)
           E == Events(a)
<1>1. CASE a.kind = "none"
  <2>1. p = <<>>
    BY <1>1 DEF CompileAction
  <2> DEFINE e == <<>>
  <2>2. e \in Seq(Step) /\ Len(e) = 0 /\ OneCallEach(e) /\ Flat(e) = <<>> /\ Span(e) = 0
    BY FlatOfNone DEF OneCallEach, Span
  <2>3. /\ p \in Seq(Step) /\ OneCallEach(p) /\ Len(p) <= 1
        /\ p = <<>> /\ Flat(p) = <<>> /\ Span(p) = 0
    <3> HIDE DEF p
    <3> QED  BY <2>1, <2>2
  <2> QED  BY <1>1, <2>3
<1>2. CASE a.kind # "none"
  <2>1. p = Grouped(E)
    BY <1>2 DEF CompileAction
  <2>2. /\ E \in Seq(Event) /\ Len(E) \in 1..14 /\ E[Len(E)].t = End(a)
        /\ \A n \in 1..Len(E) - 1 : E[n].t <= E[n + 1].t
        /\ a.hold = 0 /\ a.gap = 0 => \A n \in 1..Len(E) : E[n].t = 0
    <3> DEFINE m == Len(ModsOf(a))
               N == Len(MainEvents(a))
    <3>1. m \in 0..4 /\ N \in 1..6 /\ Len(E) = 2 * m + N
      BY EventsAre
    <3>2. Len(E) \in 1..14
      <4> HIDE DEF m, N
      <4> QED  BY <3>1
    <3> HIDE DEF m, N, Event
    <3> QED  BY <3>2, EventsAre
  <2> HIDE DEF E, Event, Step
  <2>3. Len(E) <= 15 /\ Len(E) > 0
    <3> DEFINE len == Len(E)
    <3>1. len \in 1..14
      BY <2>2
    <3>2. len <= 15 /\ len > 0
      <4> HIDE DEF len
      <4> QED  BY <3>1
    <3> QED  BY <3>2
  <2>4. /\ Grouped(E) \in Seq(Step) /\ Flat(Grouped(E)) = E /\ OneCallEach(Grouped(E))
        /\ Len(Grouped(E)) > 0 /\ Grouped(E)[Len(Grouped(E))].offset = E[Len(E)].t
        /\ (\A n \in 1..Len(E) : E[n].t = 0) => Len(Grouped(E)) <= 1
    BY <2>2, <2>3, GroupedIs
  <2>5. Span(p) = End(a)
    <3>1. p # <<>>
      BY <2>1, <2>4
    <3> QED  BY <2>1, <2>2, <2>4, <3>1 DEF Span
  <2>6. /\ p \in Seq(Step) /\ OneCallEach(p) /\ Flat(p) = E /\ Span(p) = End(a)
        /\ a.hold = 0 /\ a.gap = 0 => Len(p) <= 1
    <3> HIDE DEF p
    <3> QED  BY <2>1, <2>2, <2>4, <2>5
  <2> QED  BY <1>2, <2>6 DEF E
<1> QED  BY <1>1, <1>2

-----------------------------------------------------------------------------
\* What is down after each event.

LEMMA DownStep ==
    ASSUME NEW flat, NEW n \in Nat \ {0}
    PROVE  DownAfter(flat, n) =
             (DownAfter(flat, n - 1) \ {flat[n].key})
             \cup (IF flat[n].down /\ flat[n].key # "wheel" THEN {flat[n].key} ELSE {})
<1> DEFINE J(r) == {j \in 1..r : /\ flat[j].down /\ flat[j].key # "wheel"
                                 /\ \A l \in j + 1..r : flat[l].key # flat[j].key}
<1>1. \A r : DownAfter(flat, r) = {flat[i].key : i \in J(r)}
  BY DEF DownAfter
<1>2. ASSUME NEW j \in 1..n - 1 PROVE j \in J(n) <=> j \in J(n - 1) /\ flat[n].key # flat[j].key
  <2>1. j \in 1..n /\ j + 1..n = (j + 1..n - 1) \cup {n}
    OBVIOUS
  <2> QED  BY <2>1
<1>3. n \in J(n) <=> flat[n].down /\ flat[n].key # "wheel"
  <2>1. n + 1..n = {} /\ n \in 1..n
    OBVIOUS
  <2> QED  BY <2>1
<1>4. J(n) \subseteq 1..n /\ J(n - 1) \subseteq 1..n - 1 /\ 1..n = (1..n - 1) \cup {n}
  OBVIOUS
<1> HIDE DEF J
<1> QED  BY <1>1, <1>2, <1>3, <1>4

LEMMA EventKeys ==
    ASSUME NEW a \in Numbered
    PROVE  LET mods == ModsOf(a)
               m    == Len(mods)
               N    == Len(MainEvents(a))
               E    == Events(a)
           IN  /\ m \in 0..4 /\ N \in 1..6 /\ E \in Seq(Event) /\ Len(E) = 2 * m + N
               /\ N = (IF a.kind = "wheel" THEN 1 ELSE 2) * Repeat(a) /\ Repeat(a) \in 1..3
               /\ \A i \in 1..m : /\ mods[i] \notin {"wheel", Main(a)}
                                  /\ \A j \in 1..m : mods[i] = mods[j] => i = j
               /\ {mods[i] : i \in 1..m} = a.mods \ {a.own}
               /\ \A n \in 1..m : E[n].key = mods[n] /\ E[n].down
               /\ \A n \in m + 1..m + N :
                     IF a.kind = "wheel" THEN E[n].key = "wheel" /\ E[n].down
                     ELSE E[n].key = Main(a) /\ (E[n].down <=> (n - m) % 2 = 1)
               /\ \A n \in m + N + 1..2 * m + N : E[n].key = mods[2 * m + N + 1 - n] /\ ~E[n].down
<1> DEFINE mods == ModsOf(a)
           m    == Len(mods)
           main == MainEvents(a)
           N    == Len(main)
           E    == Events(a)
<1>1. /\ m \in 0..4 /\ N \in 1..6 /\ E \in Seq(Event) /\ Len(E) = 2 * m + N
      /\ \A n \in 1..m : E[n] = Press(mods[n], 0)
      /\ \A n \in m + 1..m + N : E[n] = main[n - m]
      /\ \A n \in m + N + 1..2 * m + N : E[n] = Lift(mods[2 * m + N + 1 - n], End(a))
  BY EventsAre
<1>2. /\ Repeat(a) \in 1..3
      /\ a.kind = "wheel" => /\ N = Repeat(a)
                             /\ \A i \in 1..N : main[i].key = "wheel" /\ main[i].down
      /\ a.kind # "wheel" => /\ N = 2 * Repeat(a)
                             /\ \A i \in 1..N : /\ main[i].key = Main(a)
                                                /\ (main[i].down <=> i % 2 = 1)
  BY MainsAre
<1>3. Lists(mods, a.mods \ {a.own})
  BY ModsAre
<1>4. \A x \in a.mods \ {a.own} : x \in ModNames /\ x # "wheel" /\ x # Main(a)
  BY DEF Main, Numbered, ActionsOf, ModNames
<1> HIDE DEF mods, main, E
<1>5. \A i \in 1..m : mods[i] \in a.mods \ {a.own}
  BY <1>3 DEF Lists
<1>6. \A i \in 1..m : /\ mods[i] \notin {"wheel", Main(a)}
                      /\ \A j \in 1..m : mods[i] = mods[j] => i = j
  BY <1>3, <1>4, <1>5 DEF Lists
<1>7. {mods[i] : i \in 1..m} = a.mods \ {a.own}
  BY <1>3 DEF Lists
<1>8. \A x, t : /\ Press(x, t).key = x /\ Press(x, t).down
                /\ Lift(x, t).key = x /\ ~Lift(x, t).down
  BY DEF Press, Lift
<1>9. \A n \in 1..m : E[n].key = mods[n] /\ E[n].down
  BY <1>1, <1>8
<1>10. \A n \in m + N + 1..2 * m + N : E[n].key = mods[2 * m + N + 1 - n] /\ ~E[n].down
  BY <1>1, <1>8
<1>11. ASSUME NEW n \in m + 1..m + N
       PROVE  IF a.kind = "wheel" THEN E[n].key = "wheel" /\ E[n].down
              ELSE E[n].key = Main(a) /\ (E[n].down <=> (n - m) % 2 = 1)
  <2>1. n - m \in 1..N /\ E[n] = main[n - m]
    <3>1. m \in Nat /\ N \in Nat
      BY <1>1
    <3> HIDE DEF m, N
    <3>2. n - m \in 1..N
      BY <3>1
    <3> QED  BY <1>1, <3>2
  <2> HIDE DEF m, N
  <2> QED  BY <1>2, <2>1
<1>12. N = (IF a.kind = "wheel" THEN 1 ELSE 2) * Repeat(a)
  BY <1>2
<1> QED  BY <1>1, <1>2, <1>6, <1>7, <1>9, <1>10, <1>11, <1>12 DEF mods, main, E

\* The modifiers and the key that are down after n events of an action.
Around(a, n) ==
    LET m == Len(ModsOf(a))
        N == Len(MainEvents(a))
    IN  {ModsOf(a)[i] : i \in 1..(IF n <= m THEN n ELSE IF n <= m + N THEN m ELSE 2 * m + N - n)}
Inside(a, n) ==
    LET m == Len(ModsOf(a))
        N == Len(MainEvents(a))
    IN  IF n \in m + 1..m + N /\ a.kind # "wheel" /\ (n - m) % 2 = 1 THEN {Main(a)} ELSE {}

LEMMA HeldStep ==
    ASSUME NEW a \in Numbered, NEW n \in 1..2 * Len(ModsOf(a)) + Len(MainEvents(a))
    PROVE  LET e == Events(a)[n]
           IN  /\ Around(a, n) \cup Inside(a, n) =
                    ((Around(a, n - 1) \cup Inside(a, n - 1)) \ {e.key})
                    \cup (IF e.down /\ e.key # "wheel" THEN {e.key} ELSE {})
               /\ e.down <=> e.key \notin Around(a, n - 1) \cup Inside(a, n - 1)
               /\ IsMain(e, a) /\ e.down => Around(a, n - 1) \cup Inside(a, n - 1) = a.mods \ {a.own}
               /\ IsMain(e, a) <=> n \in Len(ModsOf(a)) + 1..Len(ModsOf(a)) + Len(MainEvents(a))
<1> DEFINE mods == ModsOf(a)
           m == Len(mods)
           N == Len(MainEvents(a))
           e == Events(a)[n]
           W(r) == IF r <= m THEN r ELSE IF r <= m + N THEN m ELSE 2 * m + N - r
           A(r) == {mods[i] : i \in 1..W(r)}
<1>1. /\ m \in 0..4 /\ N \in 1..6
      /\ \A i \in 1..m : /\ mods[i] \notin {"wheel", Main(a)}
                         /\ \A j \in 1..m : mods[i] = mods[j] => i = j
      /\ {mods[i] : i \in 1..m} = a.mods \ {a.own}
  BY EventKeys
<1>2. \A r : Around(a, r) = A(r)
  BY DEF Around
<1>3. \A r : Inside(a, r) = IF r \in m + 1..m + N /\ a.kind # "wheel" /\ (r - m) % 2 = 1 THEN {Main(a)} ELSE {}
  BY DEF Inside
<1>4. /\ n \in 1..m => e.key = mods[n] /\ e.down
      /\ n \in m + 1..m + N => IF a.kind = "wheel" THEN e.key = "wheel" /\ e.down
                               ELSE e.key = Main(a) /\ (e.down <=> (n - m) % 2 = 1)
      /\ n \in m + N + 1..2 * m + N => e.key = mods[2 * m + N + 1 - n] /\ ~e.down
  BY EventKeys
<1>5. Main(a) # "wheel"
  BY DEF Main, Numbered, ActionsOf, ModNames
<1>6. n \in 1..m \/ n \in m + 1..m + N \/ n \in m + N + 1..2 * m + N
  <2>1. n \in 1..2 * m + N
    OBVIOUS
  <2> HIDE DEF m, N
  <2> QED  BY <1>1, <2>1
<1> HIDE DEF m, N, mods, e
<1>7. CASE n \in 1..m
  <2>1. W(n) = n /\ W(n - 1) = n - 1 /\ n \notin m + 1..m + N /\ n - 1 \notin m + 1..m + N
    BY <1>1, <1>7
  <2>2. 1..n = (1..n - 1) \cup {n}
    BY <1>1, <1>7
  <2>3. A(n) = A(n - 1) \cup {mods[n]}
    BY <2>1, <2>2
  <2>4. mods[n] \notin A(n - 1)
    <3>1. \A i \in 1..n - 1 : i \in 1..m /\ i # n
      BY <1>1, <1>7
    <3> QED  BY <1>1, <1>7, <2>1, <3>1
  <2>5. Inside(a, n) = {} /\ Inside(a, n - 1) = {}
    BY <1>3, <2>1
  <2>6. e.key = mods[n] /\ e.down /\ e.key # "wheel" /\ ~IsMain(e, a)
    BY <1>1, <1>4, <1>7 DEF IsMain
  <2> HIDE DEF A
  <2> QED  BY <1>2, <2>1, <2>3, <2>4, <2>5, <2>6 DEF m, N, mods, e
<1>8. CASE n \in m + 1..m + N
  <2>1. W(n) = m /\ W(n - 1) = m
    BY <1>1, <1>8
  <2>2. A(n) = a.mods \ {a.own} /\ A(n - 1) = a.mods \ {a.own}
    BY <1>1, <2>1
  <2>3. Main(a) \notin A(n) /\ "wheel" \notin A(n)
    BY <1>1, <2>1
  <2>4. CASE a.kind = "wheel"
    <3>1. Inside(a, n) = {} /\ Inside(a, n - 1) = {}
      BY <1>3, <2>4
    <3>2. e.key = "wheel" /\ e.down /\ IsMain(e, a)
      BY <1>4, <1>8, <2>4 DEF IsMain
    <3> HIDE DEF A
    <3> QED  BY <1>2, <1>8, <2>2, <2>3, <3>1, <3>2 DEF m, N, mods, e
  <2>5. CASE a.kind # "wheel"
    <3>1. e.key = Main(a) /\ (e.down <=> (n - m) % 2 = 1) /\ IsMain(e, a)
      BY <1>4, <1>8, <2>5 DEF IsMain
    <3>2. CASE (n - m) % 2 = 1
      <4>1. ~(n - 1 \in m + 1..m + N /\ (n - 1 - m) % 2 = 1)
        <5>1. n - 1 - m = (n - m) - 1 /\ n - m \in Int
          BY <1>1, <1>8
        <5>2. (n - 1 - m) % 2 # 1
          BY <3>2, <5>1, Alternates
        <5> QED  BY <5>2
      <4>2. Inside(a, n) = {Main(a)} /\ Inside(a, n - 1) = {}
        BY <1>3, <1>8, <2>5, <3>2, <4>1
      <4>3. e.down
        BY <3>1, <3>2
      <4> HIDE DEF A
      <4> QED  BY <1>2, <1>5, <1>8, <2>2, <2>3, <3>1, <4>2, <4>3 DEF m, N, mods, e
    <3>3. CASE (n - m) % 2 # 1
      <4>1. n - 1 \in m + 1..m + N /\ (n - 1 - m) % 2 = 1
        <5>1. n - 1 - m = (n - m) - 1 /\ n - m \in Int
          BY <1>1, <1>8
        <5>2. (n - 1 - m) % 2 = 1 /\ n - m # 1
          BY <3>3, <5>1, Alternates
        <5>3. n - 1 \in m + 1..m + N
          <6>1. n # m + 1
            BY <1>1, <1>8, <5>2
          <6> QED  BY <1>1, <1>8, <6>1
        <5> QED  BY <5>2, <5>3
      <4>2. Inside(a, n) = {} /\ Inside(a, n - 1) = {Main(a)}
        BY <1>3, <2>5, <3>3, <4>1
      <4>3. ~e.down
        BY <3>1, <3>3
      <4> HIDE DEF A
      <4> QED  BY <1>2, <1>5, <1>8, <2>2, <2>3, <3>1, <4>2, <4>3 DEF m, N, mods, e
    <3> QED  BY <3>2, <3>3
  <2> QED  BY <2>4, <2>5
<1>9. CASE n \in m + N + 1..2 * m + N
  <2> DEFINE j == 2 * m + N + 1 - n
  <2>1. j \in 1..m /\ W(n) = j - 1 /\ W(n - 1) = j /\ n \notin m + 1..m + N /\ n \notin 1..m
    <3>0. m \in Nat /\ N \in Nat
      BY <1>1
    <3>1. j \in 1..m /\ n > m /\ n > m + N
      BY <3>0, <1>9
    <3>2. W(n) = j - 1
      BY <1>1, <1>9
    <3>3. W(n - 1) = j
      <4>1. CASE n - 1 = m + N
        BY <1>1, <4>1
      <4>2. CASE n - 1 # m + N
        BY <1>1, <1>9, <4>2
      <4> QED  BY <4>1, <4>2
    <3> QED  BY <1>1, <1>9, <3>1, <3>2, <3>3
  <2>2. 1..j = (1..j - 1) \cup {j}
    BY <2>1
  <2>3. \A i \in 1..j - 1 : i \in 1..m /\ i # j
    BY <1>1, <2>1
  <2>4. A(n - 1) = {mods[i] : i \in 1..j} /\ A(n) = {mods[i] : i \in 1..j - 1}
    BY <2>1
  <2>5. A(n - 1) = A(n) \cup {mods[j]} /\ mods[j] \notin A(n)
    BY <1>1, <2>1, <2>2, <2>3, <2>4
  <2>6. Inside(a, n) = {} /\ Inside(a, n - 1) \subseteq {}
    <3>1. n - 1 \in m + 1..m + N => n - 1 = m + N
      BY <1>1, <1>9
    <3>2. a.kind # "wheel" => N % 2 = 0
      <4>1. N = (IF a.kind = "wheel" THEN 1 ELSE 2) * Repeat(a) /\ Repeat(a) \in 1..3
        BY EventKeys DEF N
      <4> QED  BY <4>1
    <3>3. n - 1 = m + N => n - 1 - m = N
      BY <1>1
    <3> QED  BY <1>3, <2>1, <3>1, <3>2, <3>3
  <2>7. e.key = mods[j] /\ ~e.down /\ ~IsMain(e, a)
    BY <1>1, <1>4, <1>9, <2>1 DEF IsMain
  <2> HIDE DEF A, j
  <2> QED  BY <1>2, <2>1, <2>5, <2>6, <2>7 DEF m, N, mods, e
<1> QED  BY <1>6, <1>7, <1>8, <1>9

LEMMA HeldIs ==
    ASSUME NEW a \in Numbered
    PROVE  \A n \in 0..Len(Events(a)) : DownAfter(Events(a), n) = Around(a, n) \cup Inside(a, n)
<1> DEFINE last == Len(Events(a))
           E == Events(a)
           T == {n \in 0..last : DownAfter(E, n) = Around(a, n) \cup Inside(a, n)}
<1>1. /\ Len(ModsOf(a)) \in Nat /\ Len(MainEvents(a)) \in Nat /\ last \in Nat
      /\ last = 2 * Len(ModsOf(a)) + Len(MainEvents(a))
  BY EventKeys
<1>2. 0 \in T
  <2>1. DownAfter(E, 0) = {}
    BY DEF DownAfter
  <2>2. Around(a, 0) = {} /\ Inside(a, 0) = {}
    BY <1>1 DEF Around, Inside
  <2> HIDE DEF last, E
  <2> QED  BY <1>1, <2>1, <2>2
<1>3. ASSUME NEW n \in 1..last, n - 1 \in T PROVE n \in T
  <2>1. DownAfter(E, n - 1) = Around(a, n - 1) \cup Inside(a, n - 1)
    BY <1>3
  <2>2. n \in Nat \ {0} /\ n \in 0..last
    BY <1>1
  <2>3. DownAfter(E, n) =
          (DownAfter(E, n - 1) \ {E[n].key})
          \cup (IF E[n].down /\ E[n].key # "wheel" THEN {E[n].key} ELSE {})
    BY <2>2, DownStep
  <2>4. Around(a, n) \cup Inside(a, n) =
          ((Around(a, n - 1) \cup Inside(a, n - 1)) \ {E[n].key})
          \cup (IF E[n].down /\ E[n].key # "wheel" THEN {E[n].key} ELSE {})
    BY <1>1, HeldStep
  <2> QED  BY <2>1, <2>2, <2>3, <2>4
<1>4. T \in SUBSET (0..last)
  OBVIOUS
<1> HIDE DEF T, last
<1>5. T = 0..last
  BY <1>1, <1>2, <1>3, <1>4, Upward
<1> QED  BY <1>5 DEF T, last

-----------------------------------------------------------------------------
\* What a program does, whatever its numbers.

\* The presses of the key itself are the first, third and fifth of its events,
\* or, on the wheel, all of them.
LEMMA PressesCounted ==
    ASSUME NEW a \in Numbered
    PROVE  Cardinality({n \in 1..Len(Events(a)) : Events(a)[n].down /\ IsMain(Events(a)[n], a)}) = Repeat(a)
<1> DEFINE m == Len(ModsOf(a))
           N == Len(MainEvents(a))
           R == Repeat(a)
           E == Events(a)
           P == {n \in 1..Len(E) : E[n].down /\ IsMain(E[n], a)}
<1>1. /\ m \in 0..4 /\ N \in 1..6 /\ Len(E) = 2 * m + N
      /\ N = (IF a.kind = "wheel" THEN 1 ELSE 2) * R /\ R \in 1..3
      /\ \A n \in m + 1..m + N :
            IF a.kind = "wheel" THEN E[n].key = "wheel" /\ E[n].down
            ELSE E[n].key = Main(a) /\ (E[n].down <=> (n - m) % 2 = 1)
  BY EventKeys
<1>2. \A n \in 1..Len(E) : IsMain(E[n], a) <=> n \in m + 1..m + N
  BY <1>1, HeldStep
<1> HIDE DEF m, N, R, E
<1>3. \A n \in m + 1..m + N : n \in 1..Len(E)
  BY <1>1
<1>4. P = {n \in m + 1..m + N : E[n].down}
  BY <1>2, <1>3
<1>5. \A x : IsFiniteSet({x}) /\ Cardinality({x}) = 1
  BY FS_Singleton
<1>6. \A x, y : x # y => IsFiniteSet({x, y}) /\ Cardinality({x, y}) = 2
  <2> SUFFICES ASSUME NEW x, NEW y, x # y PROVE IsFiniteSet({x, y}) /\ Cardinality({x, y}) = 2
    OBVIOUS
  <2> DEFINE X == {x}
  <2>1. {x, y} = X \cup {y} /\ y \notin X /\ IsFiniteSet(X) /\ Cardinality(X) = 1
    BY <1>5
  <2> HIDE DEF X
  <2>2. IsFiniteSet(X \cup {y}) /\ Cardinality(X \cup {y}) = 1 + 1
    BY <2>1, FS_AddElement
  <2> QED  BY <2>1, <2>2
<1>7. \A x, y, z : x # y /\ x # z /\ y # z => Cardinality({x, y, z}) = 3
  <2> SUFFICES ASSUME NEW x, NEW y, NEW z, x # y, x # z, y # z PROVE Cardinality({x, y, z}) = 3
    OBVIOUS
  <2>1. {x, y, z} = {x, y} \cup {z} /\ z \notin {x, y}
    OBVIOUS
  <2>2. IsFiniteSet({x, y}) /\ Cardinality({x, y}) = 2
    BY <1>6
  <2> QED  BY <2>1, <2>2, FS_AddElement
<1> HIDE DEF P
<1>8. CASE a.kind = "wheel"
  <2>1. P = m + 1..m + R
    BY <1>1, <1>4, <1>8
  <2>2. CASE R = 1
    <3>1. P = {m + 1}
      BY <1>1, <2>1, <2>2
    <3> QED  BY <1>5, <2>2, <3>1 DEF P, E, R
  <2>3. CASE R = 2
    <3>1. P = {m + 1, m + 2} /\ m + 1 # m + 2
      BY <1>1, <2>1, <2>3
    <3>2. Cardinality(P) = 2
      BY <1>6, <3>1
    <3> QED  BY <2>3, <3>2 DEF P, E, R
  <2>4. CASE R = 3
    <3>1. P = {m + 1, m + 2, m + 3} /\ m + 1 # m + 2 /\ m + 1 # m + 3 /\ m + 2 # m + 3
      BY <1>1, <2>1, <2>4
    <3>2. Cardinality(P) = 3
      BY <1>7, <3>1
    <3> QED  BY <2>4, <3>2 DEF P, E, R
  <2> QED  BY <1>1, <2>2, <2>3, <2>4
<1>9. CASE a.kind # "wheel"
  <2>1. P = {n \in m + 1..m + 2 * R : (n - m) % 2 = 1}
    BY <1>1, <1>4, <1>9
  <2>2. CASE R = 1
    <3>1. P = {m + 1}
      BY <1>1, <2>1, <2>2
    <3> QED  BY <1>5, <2>2, <3>1 DEF P, E, R
  <2>3. CASE R = 2
    <3>1. P = {m + 1, m + 3} /\ m + 1 # m + 3
      BY <1>1, <2>1, <2>3
    <3>2. Cardinality(P) = 2
      BY <1>6, <3>1
    <3> QED  BY <2>3, <3>2 DEF P, E, R
  <2>4. CASE R = 3
    <3>1. P = {m + 1, m + 3, m + 5} /\ m + 1 # m + 3 /\ m + 1 # m + 5 /\ m + 3 # m + 5
      BY <1>1, <2>1, <2>4
    <3>2. Cardinality(P) = 3
      BY <1>7, <3>1
    <3> QED  BY <2>4, <3>2 DEF P, E, R
  <2> QED  BY <1>1, <2>2, <2>3, <2>4
<1> QED  BY <1>8, <1>9

LEMMA CompiledWhole ==
    ASSUME NEW a \in Numbered
    PROVE  ActionWhole(a, CompileAction(a))
<1> DEFINE flat == Flat(CompileAction(a))
           E == Events(a)
<1>1. CASE a.kind = "none"
  <2>1. flat = <<>>
    BY <1>1, CompiledIs
  <2> DEFINE e == <<>>
  <2>2. DOMAIN e = {} /\ Len(e) = 0 /\ DownAfter(e, 0) = {}
    BY DEF DownAfter
  <2> HIDE DEF e
  <2>3. flat = e
    BY <2>1 DEF e
  <2> HIDE DEF flat
  <2> QED  BY <1>1, <2>1, <2>2, <2>3 DEF ActionWhole, flat, e
<1>2. CASE a.kind # "none"
  <2> DEFINE m == Len(ModsOf(a))
             N == Len(MainEvents(a))
             last == Len(E)
  <2>1. flat = E
    BY <1>2, CompiledIs
  <2>2. m \in 0..4 /\ N \in 1..6 /\ E \in Seq(Event) /\ last = 2 * m + N
    BY EventKeys
  <2>3. N = (IF a.kind = "wheel" THEN 1 ELSE 2) * Repeat(a) /\ Repeat(a) \in 1..3
    BY EventKeys
  <2>4. DOMAIN E = 1..last /\ last \in 1..14
    <3>1. last \in 1..14
      <4> HIDE DEF m, N, last
      <4> QED  BY <2>2
    <3> QED  BY <2>2, <3>1
  <2>5. \A n \in 0..last : DownAfter(E, n) = Around(a, n) \cup Inside(a, n)
    BY HeldIs
  <2>6. ASSUME NEW n \in DOMAIN E
        PROVE  /\ E[n].down <=> E[n].key \notin DownAfter(E, n - 1)
               /\ IsMain(E[n], a) /\ E[n].down => DownAfter(E, n - 1) = a.mods \ {a.own}
    <3>1. n \in 1..2 * m + N /\ n - 1 \in 0..last
      <4> HIDE DEF m, N, last
      <4> QED  BY <2>2, <2>4
    <3>2. DownAfter(E, n - 1) = Around(a, n - 1) \cup Inside(a, n - 1)
      BY <2>5, <3>1
    <3>3. /\ E[n].down <=> E[n].key \notin Around(a, n - 1) \cup Inside(a, n - 1)
          /\ IsMain(E[n], a) /\ E[n].down => Around(a, n - 1) \cup Inside(a, n - 1) = a.mods \ {a.own}
      BY <3>1, HeldStep
    <3> HIDE DEF E
    <3> QED  BY <3>2, <3>3
  <2>7. DownAfter(E, last) = {}
    <3>1. DownAfter(E, last) = Around(a, last) \cup Inside(a, last)
      BY <2>4, <2>5
    <3> HIDE DEF last
    <3>2. Around(a, last) = {}
      <4>1. (IF last <= m THEN last ELSE IF last <= m + N THEN m ELSE 2 * m + N - last) = 0
        <5> HIDE DEF m, N
        <5> QED  BY <2>2
      <4> QED  BY <4>1 DEF Around
    <3>3. Inside(a, last) = {}
      <4>1. a.kind # "wheel" => ~(last \in m + 1..m + N /\ (last - m) % 2 = 1)
        <5> HIDE DEF m, N
        <5> QED  BY <2>2, <2>3
      <4> QED  BY <4>1 DEF Inside
    <3> QED  BY <3>1, <3>2, <3>3
  <2>8. E # <<>>
    BY <2>2, <2>4
  <2>9. Cardinality({n \in DOMAIN E : E[n].down /\ IsMain(E[n], a)}) = Repeat(a)
    BY <2>4, PressesCounted
  <2> HIDE DEF E, last, m, N
  <2>10. /\ \A n \in DOMAIN flat :
              /\ flat[n].down <=> flat[n].key \notin DownAfter(flat, n - 1)
              /\ IsMain(flat[n], a) /\ flat[n].down => DownAfter(flat, n - 1) = a.mods \ {a.own}
         /\ DownAfter(flat, Len(flat)) = {} /\ flat # <<>>
         /\ Cardinality({n \in DOMAIN flat : flat[n].down /\ IsMain(flat[n], a)}) = Repeat(a)
    BY <2>1, <2>6, <2>7, <2>8, <2>9 DEF last
  <2> QED  BY <1>2, <2>10 DEF ActionWhole
<1> QED  BY <1>1, <1>2

\* Other times do not make another action of it.
LEMMA TimesAreFree ==
    ASSUME NEW a \in Numbered, NEW h \in Nat, NEW g \in Nat
    PROVE  LET b == [a EXCEPT !.hold = h, !.gap = g]
           IN  /\ b \in Numbered /\ b.hold = h /\ b.gap = g /\ b.kind = a.kind /\ b.repeat = a.repeat
               /\ ActionWhole(a, CompileAction(b))
<1> DEFINE b == [a EXCEPT !.hold = h, !.gap = g]
<1>1. /\ b \in Numbered /\ b.kind = a.kind /\ b.own = a.own /\ b.mods = a.mods /\ b.repeat = a.repeat
      /\ b.hold = h /\ b.gap = g
  BY DEF Numbered, ActionsOf
<1> HIDE DEF b
<1>2. ActionWhole(b, CompileAction(b))
  BY <1>1, CompiledWhole
<1>3. Main(a) = Main(b) /\ Repeat(a) = Repeat(b) /\ \A e : IsMain(e, a) <=> IsMain(e, b)
  BY <1>1 DEF Main, Repeat, IsMain
<1>4. ActionWhole(a, CompileAction(b))
  BY <1>1, <1>2, <1>3 DEF ActionWhole
<1> QED  BY <1>1, <1>4 DEF b

LEMMA Rounded ==
    ASSUME NEW x \in Nat, NEW d \in Nat \ {0}
    PROVE  x \div d \in Nat /\ (x \div d) * d <= x
  OBVIOUS

AnyPeriod == [num : Nat \ {0}, den : Nat \ {0}]

\* Fitted() changes at most the times, and a program it made takes less than nine tenths.
LEMMA FittedIs ==
    ASSUME NEW a \in Numbered, NEW p \in AnyPeriod
    PROVE  LET prg == CompileAction(Fitted(a, p))
           IN  /\ Fitted(a, p) \in Numbered /\ ActionWhole(a, prg)
               /\ Span(prg) > 0 => 10 * Span(prg) * p.den < 9 * p.num
<1> DEFINE span == Span(CompileAction(a))
           den == p.den
           num == p.num
           D == 2 * span * den
           h == (a.hold * num) \div D
           g == (a.gap * num) \div D
           b == [a EXCEPT !.hold = h, !.gap = g]
<1>1. den \in Nat \ {0} /\ num \in Nat \ {0}
  BY DEF AnyPeriod
<1>2. a.hold \in Nat /\ a.gap \in Nat /\ Repeat(a) \in 1..3 /\ End(a) \in Nat
  BY MainsAre DEF Numbered, ActionsOf
<1>3. span = (IF a.kind = "none" THEN 0 ELSE End(a)) /\ span \in Nat
  BY <1>2, CompiledIs
<1>4. CASE 10 * span * den >= 9 * num /\ span > 0
  <2>1. Fitted(a, p) = b
    BY <1>4 DEF Fitted
  <2>2. D \in Nat \ {0}
    <3> HIDE DEF span, den, num
    <3> QED  BY <1>1, <1>3, <1>4
  <2>3. a.hold * num \in Nat /\ a.gap * num \in Nat
    BY <1>1, <1>2
  <2>4. h \in Nat /\ g \in Nat /\ h * D <= a.hold * num /\ g * D <= a.gap * num
    <3> DEFINE x == a.hold * num
               y == a.gap * num
    <3>1. x \in Nat /\ y \in Nat
      BY <2>3
    <3> HIDE DEF x, y, D
    <3>2. x \div D \in Nat /\ (x \div D) * D <= x /\ y \div D \in Nat /\ (y \div D) * D <= y
      BY <2>2, <3>1, Rounded
    <3> QED  BY <3>2 DEF x, y
  <2> HIDE DEF h, g
  <2>5. /\ b \in Numbered /\ b.hold = h /\ b.gap = g /\ b.kind = a.kind /\ b.repeat = a.repeat
        /\ ActionWhole(a, CompileAction(b))
    BY <2>4, TimesAreFree
  <2> HIDE DEF b, D
  <2>6. Span(CompileAction(b)) = End(b) /\ End(b) \in Nat
    <3>1. b.kind # "none"
      BY <1>3, <1>4, <2>5
    <3> QED  BY <2>5, <3>1, CompiledIs, MainsAre
  <2> DEFINE L == Length(a)
             M == Length(b)
             R == Repeat(a)
  <2>7. L \in Nat /\ M \in Nat /\ M * D <= L * num
    <3>1. CASE a.kind = "wheel"
      <4>1. L = 0 /\ M = 0
        BY <2>5, <3>1 DEF Length
      <4> QED  BY <1>1, <2>2, <4>1
    <3>2. CASE a.kind # "wheel"
      <4>1. L = a.hold /\ M = h
        BY <2>5, <3>2 DEF Length
      <4> QED  BY <1>2, <2>4, <4>1
    <3> QED  BY <3>1, <3>2
  <2>8. End(a) = (R - 1) * (L + a.gap) + L /\ End(b) = (R - 1) * (M + g) + M
    <3>1. Repeat(b) = R
      BY <2>5 DEF Repeat
    <3> QED  BY <2>5, <3>1 DEF End, Begin
  <2> DEFINE x == End(a)
             y == End(b)
  <2> HIDE DEF L, M, R, x, y, den, num, span
  <2>9. y * D <= x * num
    <3>1. g * D <= a.gap * num /\ a.gap \in Nat /\ g \in Nat
      BY <1>2, <2>4
    <3>2. R = 1 \/ R = 2 \/ R = 3
      BY <1>2 DEF R
    <3>3. CASE R = 1
      <4>1. x = L /\ y = M
        BY <1>2, <2>4, <2>7, <2>8, <3>3 DEF x, y
      <4> QED  BY <2>7, <4>1
    <3>4. CASE R = 2
      <4>1. x = (L + a.gap) + L /\ y = (M + g) + M
        BY <1>2, <2>4, <2>7, <2>8, <3>4 DEF x, y
      <4>2. y * D = M * D + g * D + M * D /\ x * num = L * num + a.gap * num + L * num
        BY <1>1, <1>2, <2>2, <2>4, <2>7, <4>1
      <4> QED  BY <1>1, <1>2, <2>2, <2>7, <3>1, <4>2
    <3>5. CASE R = 3
      <4>1. x = (L + a.gap) + (L + a.gap) + L /\ y = (M + g) + (M + g) + M
        BY <1>2, <2>4, <2>7, <2>8, <3>5 DEF x, y
      <4>2. /\ y * D = M * D + g * D + M * D + g * D + M * D
            /\ x * num = L * num + a.gap * num + L * num + a.gap * num + L * num
        BY <1>1, <1>2, <2>2, <2>4, <2>7, <4>1
      <4> QED  BY <1>1, <1>2, <2>2, <2>7, <3>1, <4>2
    <3> QED  BY <3>2, <3>3, <3>4, <3>5
  <2>10. x = span /\ y \in Nat /\ span \in Nat \ {0}
    BY <1>3, <1>4, <2>6 DEF x, y
  <2>11. span * (2 * y * den) <= span * num
    <3>1. y * D = span * (2 * y * den)
      BY <1>1, <2>10 DEF D
    <3> QED  BY <1>1, <2>9, <2>10, <3>1
  <2>12. 2 * y * den <= num
    <3> DEFINE u == 2 * y * den
    <3>1. u \in Nat /\ span * u <= span * num
      BY <1>1, <2>10, <2>11
    <3> HIDE DEF u
    <3> SUFFICES ASSUME u > num PROVE FALSE
      BY <1>1, <3>1 DEF u
    <3>2. u >= num + 1
      BY <1>1, <3>1
    <3>3. span * u >= span * (num + 1) /\ span * (num + 1) = span * num + span
      BY <1>1, <2>10, <3>1, <3>2
    <3> QED  BY <1>1, <2>10, <3>1, <3>3
  <2>13. 10 * y * den < 9 * num
    <3> DEFINE u == 2 * y * den
    <3>1. 10 * y * den = 5 * u /\ u \in Nat
      BY <1>1, <2>10
    <3>2. u <= num
      BY <2>12
    <3> HIDE DEF u
    <3> QED  BY <1>1, <3>1, <3>2
  <2> QED  BY <2>1, <2>5, <2>6, <2>13 DEF y, den, num
<1>5. CASE ~(10 * span * den >= 9 * num /\ span > 0)
  <2>1. Fitted(a, p) = a
    BY <1>5 DEF Fitted
  <2>2. span > 0 => 10 * span * den < 9 * num
    <3>1. 10 * span * den \in Nat /\ 9 * num \in Nat
      BY <1>1, <1>3
    <3> HIDE DEF span, den, num
    <3> QED  BY <1>5, <3>1
  <2> QED  BY <2>1, <2>2, CompiledWhole
<1> QED  BY <1>4, <1>5

-----------------------------------------------------------------------------
\* The programs of the engine.

Rebuilt ==
    /\ config \in ConfigsOf(Numbered)
    /\ prog = RebuildProgram(config) /\ maxProg = RebuildMaxProgram(config)

LEMMA RebuiltInductive ==
    CompilerSpec => []Rebuilt
<1>1. CompilerInit => Rebuilt
  <2>1. Plain \in Numbered
    BY DEF Plain, Numbered, ActionsOf
  <2> QED  BY <2>1 DEF CompilerInit, Rebuilt, ConfigsOf
<1>2. Rebuilt /\ [CompilerNext]_compilervars => Rebuilt'
  <2> SUFFICES ASSUME Rebuilt, [CompilerNext]_compilervars PROVE Rebuilt'
    OBVIOUS
  <2>1. CASE ApplyConfig
    <3>1. ActionsOf(Repeats, Holds, Gaps) \subseteq Numbered
      BY CompilerConstants DEF ActionsOf, Numbered
    <3>2. config' \in ConfigsOf(Numbered)
      BY <2>1, <3>1 DEF ApplyConfig, ConfigsOf
    <3> QED  BY <2>1, <3>2 DEF ApplyConfig, Rebuilt
  <2>2. CASE UNCHANGED compilervars
    BY <2>2 DEF Rebuilt, compilervars
  <2> QED  BY <2>1, <2>2 DEF CompilerNext
<1> QED  BY <1>1, <1>2, PTL DEF CompilerSpec

\* Whatever an action's key, modifiers, number of presses and times, and whatever
\* the period it is fitted into: its program presses what is up, lifts what is
\* down, leaves nothing down, has all its modifiers around every press and makes
\* as many presses as were asked for (InputAction.cpp compileAction(),
\* Engine.cpp rebuildProgram()).
THEOREM ActionsWhole == CompilerSpec => []ProgramsWhole
<1>1. Rebuilt => ProgramsWhole
  <2> SUFFICES ASSUME Rebuilt PROVE ProgramsWhole
    OBVIOUS
  <2> DEFINE a == config.action
  <2>1. a \in Numbered /\ config.period \in AnyPeriod
    BY CompilerConstants DEF Rebuilt, ConfigsOf, AnyPeriod
  <2>2. ActionWhole(a, prog)
    <3>1. CASE config.maxMode
      BY <2>1, <3>1, CompiledWhole DEF Rebuilt, RebuildProgram
    <3>2. CASE ~config.maxMode
      BY <2>1, <3>2, FittedIs DEF Rebuilt, RebuildProgram
    <3> QED  BY <3>1, <3>2
  <2>3. ActionWhole(a, maxProg)
    BY <2>1, TimesAreFree DEF Rebuilt, RebuildMaxProgram
  <2> QED  BY <2>2, <2>3 DEF ProgramsWhole
<1> QED  BY <1>1, RebuiltInductive, PTL

\* And for every such action, what happens at one moment is one call of
\* SendInput(), a MAX run's action is one call, and a timed action that takes any
\* time at all takes less than nine tenths of its period (InputAction.cpp
\* compileAction(), Engine.cpp rebuildProgram()).
THEOREM ActionsFit == CompilerSpec => []ProgramsFit
<1>1. Rebuilt => ProgramsFit
  <2> SUFFICES ASSUME Rebuilt PROVE ProgramsFit
    OBVIOUS
  <2> DEFINE a == config.action
  <2>1. a \in Numbered /\ config.period \in AnyPeriod
    BY CompilerConstants DEF Rebuilt, ConfigsOf, AnyPeriod
  <2>2. OneCallEach(prog)
    <3>1. Fitted(a, config.period) \in Numbered
      BY <2>1, FittedIs
    <3> QED  BY <2>1, <3>1, CompiledIs DEF Rebuilt, RebuildProgram
  <2>3. Len(maxProg) <= 1
    <3> DEFINE b == [a EXCEPT !.hold = 0, !.gap = 0]
    <3>1. b \in Numbered /\ b.hold = 0 /\ b.gap = 0
      BY <2>1 DEF Numbered, ActionsOf
    <3>2. maxProg = CompileAction(b)
      BY DEF Rebuilt, RebuildMaxProgram
    <3> HIDE DEF b
    <3> QED  BY <3>1, <3>2, CompiledIs
  <2>4. ASSUME ~config.maxMode, Span(prog) > 0
        PROVE  10 * Span(prog) * config.period.den < 9 * config.period.num
    <3>1. prog = CompileAction(Fitted(a, config.period))
      BY <2>4 DEF Rebuilt, RebuildProgram
    <3> QED  BY <2>1, <2>4, <3>1, FittedIs
  <2> QED  BY <2>2, <2>3, <2>4 DEF ProgramsFit
<1> QED  BY <1>1, RebuiltInductive, PTL

\* Whatever is configured, both programs are what was asked for.
THEOREM CompilesAsAsked == CompilerSpec => []CompiledAsAsked
<1>1. ProgramsWhole /\ ProgramsFit => CompiledAsAsked
  BY DEF CompiledAsAsked
<1> QED  BY <1>1, ActionsWhole, ActionsFit, PTL

-----------------------------------------------------------------------------
\* The figures of a run.

Stats == [slotEnd : Nat, slotCount : Int, slots : [0..History - 1 -> Int],
          slotHead : 0..History - 1, slotFilled : 0..History, slotsDone : Nat,
          lateRun : Nat, lateSec : Int, lateLastSec : Int,
          actions : Nat, firstFire : Int, lastFire : Int]

LEMMA RemainderIs ==
    ASSUME NEW d \in Nat \ {0}, NEW q \in Int, NEW m \in 0..d - 1
    PROVE  (d * q + m) % d = m /\ (d * q + m) \div d = q
<1> DEFINE x == d * q + m
           Q == x \div d
<1>1. x \in Int
  OBVIOUS
<1>2. x % d = x - d * Q
  <2> HIDE DEF x
  <2> QED  BY <1>1
<1>3. Q \in Int /\ d * Q <= x /\ x < d * Q + d
  <2> HIDE DEF x
  <2> QED  BY <1>1, Quotients
<1> HIDE DEF Q
<1>4. d * Q < d * q + d /\ d * q < d * Q + d
  <2>1. d * Q \in Int /\ d * q \in Int /\ d * Q <= d * q + m /\ d * q + m < d * Q + d
    BY <1>3
  <2> QED  BY <2>1
<1>5. Q <= q /\ q <= Q
  BY <1>3, <1>4, NotAbove
<1>6. Q = q
  BY <1>3, <1>5
<1>7. x - d * q = m
  OBVIOUS
<1> QED  BY <1>2, <1>6, <1>7 DEF Q

\* Counting on in a ring.
LEMMA Around1 ==
    ASSUME NEW x \in Nat, NEW d \in Nat \ {0}
    PROVE  x % d \in 0..d - 1 /\ (x + 1) % d = IF x % d = d - 1 THEN 0 ELSE (x % d) + 1
<1> DEFINE q == x \div d
           m == x % d
<1>1. q \in Int /\ d * q <= x /\ x < d * q + d
  BY Quotients
<1>2. m = x - d * q
  OBVIOUS
<1> HIDE DEF q, m
<1>3. m \in 0..d - 1 /\ x = d * q + m
  BY <1>1, <1>2
<1>4. CASE m = d - 1
  <2>1. x + 1 = d * (q + 1) + 0
    BY <1>1, <1>3, <1>4
  <2>2. (d * (q + 1) + 0) % d = 0
    <3>1. q + 1 \in Int /\ 0 \in 0..d - 1
      BY <1>1
    <3> QED  BY <3>1, RemainderIs
  <2>3. (x + 1) % d = 0
    BY <2>1, <2>2
  <2> QED  BY <1>3, <1>4, <2>3 DEF m
<1>5. CASE m # d - 1
  <2>1. x + 1 = d * q + (m + 1) /\ m + 1 \in 0..d - 1
    BY <1>1, <1>3, <1>5
  <2>2. (x + 1) % d = m + 1
    <3>1. (d * q + (m + 1)) % d = m + 1
      BY <1>1, <2>1, RemainderIs
    <3> QED  BY <2>1, <3>1
  <2> QED  BY <1>3, <1>5, <2>2 DEF m
<1> QED  BY <1>4, <1>5

\* What NextSlot() does, field by field.
LEMMA NextSlotIs ==
    ASSUME NEW r \in Stats
    PROVE  LET q == NextSlot(r)
               turn == (r.slotsDone + 1) % PerSecond = 0
           IN  /\ q \in Stats
               /\ q.slotEnd = r.slotEnd + SlotTicks /\ q.slotCount = 0
               /\ q.slots = [r.slots EXCEPT ![r.slotHead] = r.slotCount]
               /\ q.slotHead = (r.slotHead + 1) % History
               /\ q.slotFilled = Capped(r.slotFilled + 1, History) /\ q.slotsDone = r.slotsDone + 1
               /\ q.lateRun = r.lateRun /\ q.actions = r.actions
               /\ q.firstFire = r.firstFire /\ q.lastFire = r.lastFire
               /\ q.lateSec = IF turn THEN 0 ELSE r.lateSec
               /\ q.lateLastSec = IF turn THEN r.lateSec ELSE r.lateLastSec
<1> DEFINE w == [r EXCEPT !.slots[r.slotHead] = r.slotCount,
                          !.slotHead = (@ + 1) % History,
                          !.slotFilled = Capped(@ + 1, History),
                          !.slotsDone = @ + 1,
                          !.slotCount = 0]
           q == NextSlot(r)
           turn == (r.slotsDone + 1) % PerSecond = 0
<1>1. History \in Nat \ {0} /\ SlotTicks \in Nat \ {0} /\ PerSecond \in Nat \ {0}
  BY FiguresConstants
<1>2. /\ r.slots \in [0..History - 1 -> Int] /\ r.slotHead \in 0..History - 1 /\ r.slotFilled \in 0..History
      /\ r.slotsDone \in Nat /\ r.slotCount \in Int /\ r.slotEnd \in Nat
      /\ r.lateRun \in Nat /\ r.lateSec \in Int /\ r.lateLastSec \in Int
      /\ r.actions \in Nat /\ r.firstFire \in Int /\ r.lastFire \in Int
  BY DEF Stats
<1>3. (r.slotHead + 1) % History \in 0..History - 1 /\ Capped(r.slotFilled + 1, History) \in 0..History
  <2>1. (r.slotHead + 1) % History \in 0..History - 1
    <3>1. r.slotHead + 1 \in Nat
      BY <1>1, <1>2
    <3> QED  BY <1>1, <3>1, Around1
  <2>2. Capped(r.slotFilled + 1, History) \in 0..History
    <3> DEFINE f == r.slotFilled
    <3>1. f \in 0..History
      BY <1>2
    <3> HIDE DEF f
    <3>2. Capped(f + 1, History) \in 0..History
      BY <1>1, <3>1 DEF Capped
    <3> QED  BY <3>2 DEF f
  <2> QED  BY <2>1, <2>2
<1>4. [r.slots EXCEPT ![r.slotHead] = r.slotCount] \in [0..History - 1 -> Int]
  BY <1>2
<1>5. /\ w.slotEnd = r.slotEnd /\ w.slotCount = 0
      /\ w.slots = [r.slots EXCEPT ![r.slotHead] = r.slotCount]
      /\ w.slotHead = (r.slotHead + 1) % History
      /\ w.slotFilled = Capped(r.slotFilled + 1, History) /\ w.slotsDone = r.slotsDone + 1
      /\ w.lateRun = r.lateRun /\ w.actions = r.actions
      /\ w.firstFire = r.firstFire /\ w.lastFire = r.lastFire
      /\ w.lateSec = r.lateSec /\ w.lateLastSec = r.lateLastSec
  BY DEF Stats
<1>6. w \in Stats
  <2>1. r.slotsDone + 1 \in Nat
    BY <1>2
  <2> DEFINE sl == [r.slots EXCEPT ![r.slotHead] = r.slotCount]
             hd == (r.slotHead + 1) % History
             fl == Capped(r.slotFilled + 1, History)
             dn == r.slotsDone + 1
  <2>2. sl \in [0..History - 1 -> Int] /\ hd \in 0..History - 1 /\ fl \in 0..History /\ dn \in Nat
    BY <1>3, <1>4, <2>1
  <2>3. w = [r EXCEPT !.slots = sl, !.slotHead = hd, !.slotFilled = fl, !.slotsDone = dn, !.slotCount = 0]
    BY DEF Stats
  <2> DEFINE w1 == [r EXCEPT !.slots = sl, !.slotHead = hd]
             w2 == [w1 EXCEPT !.slotFilled = fl, !.slotsDone = dn]
             w3 == [w2 EXCEPT !.slotCount = 0]
  <2> HIDE DEF sl, hd, fl, dn, w
  <2>4. w1 \in Stats
    BY <2>2 DEF Stats
  <2>5. w2 \in Stats
    <3> HIDE DEF w1
    <3> QED  BY <2>2, <2>4 DEF Stats
  <2>6. w3 \in Stats
    <3> DEFINE z == 0
    <3>1. z \in Int
      OBVIOUS
    <3> HIDE DEF w2, z
    <3>2. [w2 EXCEPT !.slotCount = z] \in Stats
      BY <2>5, <3>1 DEF Stats
    <3> QED  BY <3>2 DEF z
  <2>7. w3 = w
    BY <2>3 DEF Stats
  <2> QED  BY <2>6, <2>7
<1>7. q = [RollSecond(w) EXCEPT !.slotEnd = @ + SlotTicks]
  BY DEF NextSlot, PushSlot
<1> HIDE DEF w, q
<1>8. CASE turn
  <2>1. RollSecond(w) = [w EXCEPT !.lateLastSec = w.lateSec, !.lateSec = 0]
    BY <1>5, <1>8 DEF RollSecond
  <2> DEFINE v == [w EXCEPT !.lateLastSec = w.lateSec, !.lateSec = 0]
  <2>2. /\ v \in Stats /\ v.lateLastSec = w.lateSec /\ v.lateSec = 0
        /\ v.slotEnd = w.slotEnd /\ v.slotCount = w.slotCount /\ v.slots = w.slots
        /\ v.slotHead = w.slotHead /\ v.slotFilled = w.slotFilled /\ v.slotsDone = w.slotsDone
        /\ v.lateRun = w.lateRun /\ v.actions = w.actions
        /\ v.firstFire = w.firstFire /\ v.lastFire = w.lastFire
    <3>1. w.lateSec \in Int /\ 0 \in Int
      BY <1>6 DEF Stats
    <3> QED  BY <1>6, <3>1 DEF Stats
  <2>3. q = [v EXCEPT !.slotEnd = v.slotEnd + SlotTicks]
    BY <1>7, <2>1
  <2> HIDE DEF v
  <2>4. v.slotEnd + SlotTicks \in Nat
    <3>1. v.slotEnd \in Nat
      BY <2>2 DEF Stats
    <3> QED  BY <1>1, <3>1
  <2>5. /\ q \in Stats /\ q.lateLastSec = v.lateLastSec /\ q.lateSec = v.lateSec
        /\ q.slotEnd = v.slotEnd + SlotTicks /\ q.slotCount = v.slotCount /\ q.slots = v.slots
        /\ q.slotHead = v.slotHead /\ q.slotFilled = v.slotFilled /\ q.slotsDone = v.slotsDone
        /\ q.lateRun = v.lateRun /\ q.actions = v.actions
        /\ q.firstFire = v.firstFire /\ q.lastFire = v.lastFire
    BY <2>2, <2>3, <2>4 DEF Stats
  <2> QED  BY <1>5, <1>8, <2>2, <2>5 DEF q
<1>9. CASE ~turn
  <2>1. RollSecond(w) = w
    BY <1>5, <1>9 DEF RollSecond
  <2>2. q = [w EXCEPT !.slotEnd = w.slotEnd + SlotTicks]
    BY <1>7, <2>1
  <2>3. w.slotEnd + SlotTicks \in Nat
    <3>1. w.slotEnd \in Nat
      BY <1>6 DEF Stats
    <3> QED  BY <1>1, <3>1
  <2>4. /\ q \in Stats /\ q.lateLastSec = w.lateLastSec /\ q.lateSec = w.lateSec
        /\ q.slotEnd = w.slotEnd + SlotTicks /\ q.slotCount = w.slotCount /\ q.slots = w.slots
        /\ q.slotHead = w.slotHead /\ q.slotFilled = w.slotFilled /\ q.slotsDone = w.slotsDone
        /\ q.lateRun = w.lateRun /\ q.actions = w.actions
        /\ q.firstFire = w.firstFire /\ q.lastFire = w.lastFire
    BY <1>6, <2>2, <2>3 DEF Stats
  <2> QED  BY <1>5, <1>9, <2>4 DEF q
<1> QED  BY <1>8, <1>9

LEMMA PushedBySteps ==
    ASSUME NEW r \in Stats, NEW n \in Nat
    PROVE  \E g \in [0..n -> Stats] :
              /\ g[0] = r /\ Pushed(r, n) = g[n]
              /\ \A i \in 1..n : g[i] = NextSlot(g[i - 1])
<1> DEFINE F == [i \in Nat |-> [s \in Stats |-> NextSlot(s)]]
           Chain(g) == g = [i \in 0..n |-> IF i = 0 THEN r ELSE NextSlot(g[i - 1])]
           c == CHOOSE g : Chain(g)
<1>1. \A s \in Stats : NextSlot(s) \in Stats
  BY NextSlotIs
<1> HIDE DEF Stats
<1>2. F \in [Nat -> [Stats -> Stats]]
  BY <1>1
<1> HIDE DEF F
<1>3. Chained(n, Stats, r, F)
  BY <1>2, StepByStep
<1>4. PICK g \in [0..n -> Stats] : \A i \in 0..n : g[i] = IF i = 0 THEN r ELSE F[i][g[i - 1]]
  BY <1>3 DEF Chained
<1>5. \A i \in 0..n : g[i] = IF i = 0 THEN r ELSE NextSlot(g[i - 1])
  <2> SUFFICES ASSUME NEW i \in 0..n, i # 0 PROVE g[i] = NextSlot(g[i - 1])
    BY <1>4
  <2>1. i - 1 \in 0..n /\ i \in Nat /\ g[i - 1] \in Stats
    OBVIOUS
  <2>2. F[i][g[i - 1]] = NextSlot(g[i - 1])
    BY <2>1 DEF F
  <2> QED  BY <1>4, <2>2
<1>6. Chain(g)
  <2>1. g = [i \in 0..n |-> g[i]]
    OBVIOUS
  <2> QED  BY <1>5, <2>1
<1> HIDE DEF Chain
<1>7. Chain(c)
  BY <1>6
<1> HIDE DEF c
<1>8. \A i \in 0..n : c[i] = IF i = 0 THEN r ELSE NextSlot(c[i - 1])
  BY <1>7 DEF Chain
<1> DEFINE T == {i \in 0..n : c[i] \in Stats}
<1>9. T = 0..n
  <2>1. 0 \in T
    <3>1. 0 \in 0..n /\ c[0] = r
      BY <1>8
    <3> QED  BY <3>1
  <2>2. \A i \in 1..n : i - 1 \in T => i \in T
    <3> SUFFICES ASSUME NEW i \in 1..n, c[i - 1] \in Stats PROVE i \in 0..n /\ c[i] \in Stats
      OBVIOUS
    <3>1. i \in 0..n /\ i # 0 /\ c[i] = NextSlot(c[i - 1])
      BY <1>8
    <3> QED  BY <1>1, <3>1
  <2> HIDE DEF T
  <2>3. T \in SUBSET (0..n)
    BY DEF T
  <2> QED  BY <2>1, <2>2, <2>3, Upward
<1>10. c \in [0..n -> Stats]
  <2>1. c = [i \in 0..n |-> c[i]]
    BY <1>7, <1>8 DEF Chain
  <2> QED  BY <1>9, <2>1
<1>11. Pushed(r, n) = c[n]
  BY DEF Pushed, c, Chain
<1>12. c[0] = r /\ \A i \in 1..n : c[i] = NextSlot(c[i - 1])
  BY <1>8
<1> QED  BY <1>10, <1>11, <1>12

\* Multiples of a slot.
LEMMA Spans ==
    /\ \A i \in Int : i * SlotTicks \in Int /\ (i + 1) * SlotTicks = i * SlotTicks + SlotTicks
    /\ \A i, j \in Int : i <= j => i * SlotTicks <= j * SlotTicks
    /\ \A i \in Int : (i - 1) * SlotTicks = i * SlotTicks - SlotTicks
    /\ \A i, j \in Int : (i + j) * SlotTicks = i * SlotTicks + j * SlotTicks
    /\ 0 * SlotTicks = 0 /\ 1 * SlotTicks = SlotTicks
<1>1. SlotTicks \in Nat \ {0}
  BY FiguresConstants
<1>2. \A i, j \in Int : i <= j => i * SlotTicks <= j * SlotTicks
  <2> SUFFICES ASSUME NEW i \in Int, NEW j \in Int, i <= j PROVE i * SlotTicks <= j * SlotTicks
    OBVIOUS
  <2> QED  BY <1>1
<1> QED  BY <1>1, <1>2

\* The place of a slot of the ring, and where the next one goes.
LEMMA PlaceBack ==
    ASSUME NEW h \in 0..History - 1, NEW i \in 1..History
    PROVE  (h - i + History) % History = IF i <= h THEN h - i ELSE h - i + History
<1>1. History \in Nat \ {0}
  BY FiguresConstants
<1>2. CASE i <= h
  <2>1. h - i \in 0..History - 1 /\ h - i + History = History * 1 + (h - i)
    BY <1>1, <1>2
  <2>2. (History * 1 + (h - i)) % History = h - i
    BY <1>1, <2>1, RemainderIs
  <2> QED  BY <1>2, <2>1, <2>2
<1>3. CASE ~(i <= h)
  <2>1. h - i + History \in 0..History - 1 /\ h - i + History = History * 0 + (h - i + History)
    BY <1>1, <1>3
  <2>2. (History * 0 + (h - i + History)) % History = h - i + History
    BY <1>1, <2>1, RemainderIs
  <2> QED  BY <1>3, <2>1, <2>2
<1> QED  BY <1>2, <1>3

LEMMA PlaceNext ==
    ASSUME NEW h \in 0..History - 1
    PROVE  (h + 1) % History = IF h = History - 1 THEN 0 ELSE h + 1
<1>1. History \in Nat \ {0}
  BY FiguresConstants
<1>2. h % History = h
  <2>1. h = History * 0 + h
    BY <1>1
  <2>2. (History * 0 + h) % History = h
    BY <1>1, RemainderIs
  <2> QED  BY <2>1, <2>2
<1>3. h \in Nat
  BY <1>1
<1>4. (h + 1) % History = IF h % History = History - 1 THEN 0 ELSE (h % History) + 1
  BY <1>1, <1>3, Around1
<1> QED  BY <1>2, <1>4

\* The ring, the slot in progress and the seconds agree with the histories A of
\* the actions and L of those that had a deadline. SecondEnd() is where the
\* last second whose slots are complete ended.
SecondEnd(r) == Start(r) - (r.slotsDone % PerSecond) * SlotTicks

Ring(r, A, L) ==
    LET b == Start(r)
    IN  /\ b \in Nat /\ r.slotCount = r.actions - A[b]
        /\ r.slotFilled = Capped(r.slotsDone, History)
        /\ r.slotsDone * SlotTicks <= b /\ (r.slotsDone < History => r.slotsDone * SlotTicks = b)
        /\ \A i \in 1..r.slotFilled :
             SlotBack(r, i) = A[b - (i - 1) * SlotTicks] - A[b - i * SlotTicks]
        /\ r.lateSec = r.lateRun - L[SecondEnd(r)]
        /\ r.lateLastSec = IF r.slotsDone < PerSecond THEN 0
                           ELSE L[SecondEnd(r)] - L[SecondEnd(r) - PerSecond * SlotTicks]

\* The histories say nothing new from the end of the slot in progress on.
Settled(r, A, L, c) ==
    /\ A \in [0..c -> Nat] /\ L \in [0..c -> Nat]
    /\ \A x \in r.slotEnd..c : A[x] = r.actions /\ L[x] = r.lateRun

LEMMA SlotPushed ==
    ASSUME NEW r \in Stats, NEW c \in Nat, NEW A, NEW L, Ring(r, A, L), Settled(r, A, L, c),
           r.slotEnd <= c
    PROVE  Ring(NextSlot(r), A, L) /\ Settled(NextSlot(r), A, L, c)
<1> DEFINE q == NextSlot(r)
           b == Start(r)
           e == r.slotEnd
           S == SlotTicks
           done == r.slotsDone
           turn == (done + 1) % PerSecond = 0
<1>1. History \in Nat \ {0} /\ S \in Nat \ {0} /\ PerSecond \in Nat \ {0}
  BY FiguresConstants
<1>2. /\ q.slotEnd = e + S /\ q.slotCount = 0
      /\ q.slots = [r.slots EXCEPT ![r.slotHead] = r.slotCount]
      /\ q.slotHead = (r.slotHead + 1) % History
      /\ q.slotFilled = Capped(r.slotFilled + 1, History) /\ q.slotsDone = done + 1
      /\ q.lateRun = r.lateRun /\ q.actions = r.actions
      /\ q.lateSec = (IF turn THEN 0 ELSE r.lateSec)
      /\ q.lateLastSec = (IF turn THEN r.lateSec ELSE r.lateLastSec)
  BY NextSlotIs
<1>3. /\ r.slots \in [0..History - 1 -> Int] /\ r.slotHead \in 0..History - 1 /\ r.slotFilled \in 0..History
      /\ done \in Nat /\ r.slotCount \in Int /\ e \in Nat
      /\ r.lateRun \in Nat /\ r.lateSec \in Int /\ r.lateLastSec \in Int /\ r.actions \in Nat
  BY DEF Stats
<1>4. b \in Nat /\ e = b + S /\ Start(q) = e
  <2>1. b \in Nat
    BY DEF Ring
  <2>2. b = e - S /\ Start(q) = (e + S) - S
    BY <1>2 DEF Start
  <2> HIDE DEF b, e
  <2> QED  BY <1>1, <1>3, <2>1, <2>2
<1>5. A[e] = r.actions /\ L[e] = r.lateRun
  <2>1. e \in e..c
    BY <1>3
  <2> QED  BY <2>1 DEF Settled
<1> DEFINE h == r.slotHead
           f == r.slotFilled
           hq == q.slotHead
           fq == q.slotFilled
<1>a. /\ h \in 0..History - 1 /\ f \in 0..History /\ fq = Capped(f + 1, History)
      /\ hq = (h + 1) % History
  BY <1>2, <1>3
<1> HIDE DEF q, h, f, hq, fq
<1>6. q.slotCount = q.actions - A[Start(q)]
  BY <1>2, <1>3, <1>4, <1>5
<1>7. q.slotFilled = Capped(q.slotsDone, History)
  <2>1. r.slotFilled = Capped(done, History)
    BY DEF Ring
  <2>2. Capped(Capped(done, History) + 1, History) = Capped(done + 1, History)
    BY <1>1, <1>3 DEF Capped
  <2> QED  BY <1>2, <2>1, <2>2
<1>8. q.slotsDone * S <= e /\ (q.slotsDone < History => q.slotsDone * S = e)
  <2>a. done * S <= b /\ (done < History => done * S = b)
    BY DEF Ring
  <2>b. done * S \in Int /\ (done + 1) * S = done * S + S
    <3>1. done \in Int
      BY <1>3
    <3> QED  BY <3>1, Spans
  <2>1. done * S <= b /\ (done < History => done * S = b) /\ done * S \in Int /\ (done + 1) * S = done * S + S
    BY <2>a, <2>b
  <2>2. done + 1 < History => done < History
    BY <1>1, <1>3
  <2>3. (done + 1) * S <= e /\ (done + 1 < History => (done + 1) * S = e)
    BY <1>1, <1>4, <2>1, <2>2
  <2> QED  BY <1>2, <2>3
<1>9. ASSUME NEW i \in 1..q.slotFilled
      PROVE  SlotBack(q, i) = A[e - (i - 1) * S] - A[e - i * S]
  <2>0. i \in 1..fq
    BY DEF fq
  <2>1. i \in 1..History /\ i - 1 \in 0..f /\ i - 1 \in 0..History - 1
    <3>1. fq \in 0..History /\ fq <= f + 1
      BY <1>1, <1>a DEF Capped
    <3> QED  BY <1>1, <1>a, <2>0, <3>1
  <2>2. hq = IF h = History - 1 THEN 0 ELSE h + 1
    BY <1>a, PlaceNext
  <2>3. hq \in 0..History - 1
    BY <1>1, <1>a, <2>2
  <2> DEFINE x == (hq - i + History) % History
  <2>4. x = IF i <= hq THEN hq - i ELSE hq - i + History
    BY <2>1, <2>3, PlaceBack
  <2>5. SlotBack(q, i) = q.slots[x]
    BY DEF SlotBack, hq
  <2> HIDE DEF x
  <2>6. CASE i = 1
    <3>1. x = h
      BY <1>1, <1>a, <2>2, <2>4, <2>6
    <3>2. SlotBack(q, i) = r.slotCount
      BY <1>2, <1>3, <2>5, <3>1 DEF h
    <3>3. e - (i - 1) * S = e /\ e - i * S = b
      <4>1. 0 * S = 0 /\ 1 * S = S /\ i - 1 = 0
        BY <2>6, Spans
      <4> QED  BY <1>1, <1>4, <2>6, <4>1
    <3>4. r.slotCount = r.actions - A[b]
      BY DEF Ring
    <3> QED  BY <1>5, <3>2, <3>3, <3>4
  <2>7. CASE i # 1
    <3> DEFINE j == i - 1
               y == (h - j + History) % History
    <3>1. j \in 1..f /\ j \in 1..History /\ j \in 1..History - 1 /\ i = j + 1
      BY <1>1, <1>a, <2>1, <2>7
    <3> HIDE DEF j
    <3>2. y = IF j <= h THEN h - j ELSE h - j + History
      BY <1>a, <3>1, PlaceBack
    <3> HIDE DEF y
    <3>3. x = y
      BY <1>1, <1>a, <2>2, <2>4, <3>1, <3>2
    <3>4. y # h /\ y \in 0..History - 1
      BY <1>1, <1>a, <3>1, <3>2
    <3>5. SlotBack(q, i) = SlotBack(r, j)
      <4>1. SlotBack(r, j) = r.slots[y]
        BY DEF SlotBack, y, h
      <4>2. q.slots[y] = r.slots[y]
        BY <1>2, <1>3, <3>4 DEF h
      <4> QED  BY <2>5, <3>3, <4>1, <4>2
    <3>6. SlotBack(r, j) = A[b - (j - 1) * S] - A[b - j * S]
      BY <3>1 DEF Ring, f
    <3>7. b - (j - 1) * S = e - (i - 1) * S /\ b - j * S = e - i * S
      <4>1. j \in Int /\ i - 1 = j
        BY <3>1
      <4>2. (j - 1) * S = j * S - S /\ (j + 1) * S = j * S + S /\ j * S \in Int
        BY <4>1, Spans
      <4> QED  BY <1>1, <1>4, <3>1, <4>1, <4>2
    <3> QED  BY <3>5, <3>6, <3>7
  <2> QED  BY <2>6, <2>7
<1> DEFINE m == done % PerSecond
           P == PerSecond
<1>10. m \in 0..P - 1 /\ (done + 1) % P = (IF m = P - 1 THEN 0 ELSE m + 1)
  BY <1>1, <1>3, Around1
<1>11. /\ SecondEnd(r) = b - m * S /\ SecondEnd(q) = e - ((done + 1) % P) * S
       /\ r.lateSec = r.lateRun - L[SecondEnd(r)]
       /\ r.lateLastSec = IF done < P THEN 0 ELSE L[SecondEnd(r)] - L[SecondEnd(r) - P * S]
  BY <1>2, <1>4 DEF SecondEnd, Ring
<1> HIDE DEF m, P
<1>12. /\ q.lateSec = q.lateRun - L[SecondEnd(q)]
       /\ q.lateLastSec = IF q.slotsDone < P THEN 0
                          ELSE L[SecondEnd(q)] - L[SecondEnd(q) - P * S]
  <2>0. P \in Nat \ {0}
    BY <1>1 DEF P
  <2>1. CASE m = P - 1
    <3>1. turn /\ SecondEnd(q) = e
      <4>1. (done + 1) % P = 0 /\ 0 * S = 0
        BY <1>10, <2>1, Spans
      <4> QED  BY <1>3, <1>11, <4>1 DEF P
    <3>2. SecondEnd(q) - P * S = SecondEnd(r)
      <4>1. P \in Int /\ P * S \in Int /\ (P - 1) * S = P * S - S
        <5>1. P \in Int
          BY <2>0
        <5> QED  BY <5>1, Spans
      <4> QED  BY <1>1, <1>4, <1>11, <2>1, <3>1, <4>1
    <3>3. q.lateSec = 0 /\ q.lateLastSec = r.lateSec
      BY <1>2, <3>1
    <3>4. ~(q.slotsDone < P)
      <4>1. done >= P - 1
        <5> DEFINE n == done
        <5>1. n \in Nat /\ n % P = P - 1
          BY <1>3, <2>1 DEF m, P
        <5> HIDE DEF n
        <5>2. n < P => n % P = n
          <6> SUFFICES ASSUME n < P PROVE n % P = n
            OBVIOUS
          <6>1. n \in 0..P - 1 /\ n = P * 0 + n
            BY <2>0, <5>1
          <6>2. (P * 0 + n) % P = n
            BY <2>0, <6>1, RemainderIs
          <6> QED  BY <6>1, <6>2
        <5>3. n >= P - 1
          BY <2>0, <5>1, <5>2
        <5> QED  BY <5>3 DEF n
      <4> QED  BY <1>2, <1>3, <2>0, <4>1
    <3> QED  BY <1>2, <1>3, <1>5, <1>11, <3>1, <3>2, <3>3, <3>4
  <2>2. CASE m # P - 1
    <3>1. ~turn /\ SecondEnd(q) = SecondEnd(r)
      <4>1. (done + 1) % P = m + 1 /\ m \in Nat
        BY <1>10, <2>2, <2>0
      <4>2. (m + 1) * S = m * S + S /\ m * S \in Int
        BY <4>1, Spans
      <4>3. ~turn
        BY <4>1 DEF P
      <4> QED  BY <1>1, <1>4, <1>11, <4>1, <4>2, <4>3
    <3>2. q.lateSec = r.lateSec /\ q.lateLastSec = r.lateLastSec
      BY <1>2, <3>1
    <3>3. q.slotsDone < P <=> done < P
      <4>1. done + 1 # P
        <5> SUFFICES ASSUME done + 1 = P PROVE FALSE
          OBVIOUS
        <5>1. (done + 1) % P = m + 1 /\ m \in Nat
          BY <1>10, <2>2, <2>0
        <5>2. (P * 1 + 0) % P = 0
          <6>1. 0 \in 0..P - 1 /\ 1 \in Int
            BY <2>0
          <6> QED  BY <2>0, <6>1, RemainderIs
        <5>3. P * 1 + 0 = P
          BY <2>0
        <5> QED  BY <5>1, <5>2, <5>3
      <4>2. q.slotsDone = done + 1
        BY <1>2
      <4>3. done \in Nat
        BY <1>3
      <4> HIDE DEF done
      <4> QED  BY <2>0, <4>1, <4>2, <4>3
    <3> QED  BY <1>2, <1>11, <3>1, <3>2, <3>3
  <2> QED  BY <2>1, <2>2
<1>13. Ring(q, A, L)
  BY <1>3, <1>4, <1>6, <1>7, <1>8, <1>9, <1>12 DEF Ring, P
<1>14. Settled(q, A, L, c)
  <2>1. q.slotEnd = e + S /\ q.actions = r.actions /\ q.lateRun = r.lateRun
    BY <1>2
  <2>2. \A x \in e + S..c : x \in e..c
    BY <1>1, <1>3
  <2> QED  BY <2>1, <2>2 DEF Settled
<1> QED  BY <1>13, <1>14 DEF q


LEMMA PushedRing ==
    ASSUME NEW r \in Stats, NEW c \in Nat, NEW A, NEW L, Ring(r, A, L), Settled(r, A, L, c),
           NEW n \in Nat, n > 0 => r.slotEnd + (n - 1) * SlotTicks <= c
    PROVE  LET q == Pushed(r, n)
           IN  /\ q \in Stats /\ Ring(q, A, L)
               /\ q.slotEnd = r.slotEnd + n * SlotTicks /\ q.slotsDone = r.slotsDone + n
               /\ q.lateRun = r.lateRun /\ q.actions = r.actions
               /\ q.firstFire = r.firstFire /\ q.lastFire = r.lastFire
<1>1. SlotTicks \in Nat \ {0}
  BY FiguresConstants
<1>2. PICK g \in [0..n -> Stats] :
         /\ g[0] = r /\ Pushed(r, n) = g[n]
         /\ \A i \in 1..n : g[i] = NextSlot(g[i - 1])
  BY PushedBySteps
<1> DEFINE As(q, i) == /\ q.slotEnd = r.slotEnd + i * SlotTicks /\ q.slotsDone = r.slotsDone + i
                       /\ q.lateRun = r.lateRun /\ q.actions = r.actions
                       /\ q.firstFire = r.firstFire /\ q.lastFire = r.lastFire
           T == {i \in 0..n : Ring(g[i], A, L) /\ Settled(g[i], A, L, c) /\ As(g[i], i)}
<1>3. r.slotEnd \in Nat /\ r.slotsDone \in Nat
  BY DEF Stats
<1>4. 0 \in T
  <2>1. As(r, 0)
    <3>1. 0 * SlotTicks = 0
      BY Spans
    <3>2. r.slotEnd + 0 = r.slotEnd /\ r.slotsDone + 0 = r.slotsDone
      BY <1>3
    <3> QED  BY <3>1, <3>2
  <2>2. 0 \in 0..n
    OBVIOUS
  <2> HIDE DEF As
  <2> QED  BY <1>2, <2>1, <2>2
<1>5. \A i \in 1..n : i - 1 \in T => i \in T
  <2> SUFFICES ASSUME NEW i \in 1..n, Ring(g[i - 1], A, L), Settled(g[i - 1], A, L, c), As(g[i - 1], i - 1)
               PROVE  i \in 0..n /\ Ring(g[i], A, L) /\ Settled(g[i], A, L, c) /\ As(g[i], i)
    BY DEF T
  <2>1. i \in 0..n /\ i - 1 \in 0..n /\ g[i] = NextSlot(g[i - 1]) /\ g[i - 1] \in Stats
    <3>1. i \in 0..n /\ i - 1 \in 0..n
      OBVIOUS
    <3> QED  BY <1>2, <3>1
  <2> DEFINE p == g[i - 1]
  <2>2. /\ p.slotEnd = r.slotEnd + (i - 1) * SlotTicks /\ p.slotsDone = r.slotsDone + (i - 1)
        /\ p.lateRun = r.lateRun /\ p.actions = r.actions
        /\ p.firstFire = r.firstFire /\ p.lastFire = r.lastFire
    OBVIOUS
  <2>3. p.slotEnd <= c
    <3> DEFINE x == (i - 1) * SlotTicks
               y == (n - 1) * SlotTicks
    <3>1. x \in Int /\ y \in Int /\ x <= y
      <4>1. i - 1 \in Int /\ n - 1 \in Int /\ i - 1 <= n - 1
        OBVIOUS
      <4> QED  BY <4>1, Spans
    <3>2. r.slotEnd + y <= c
      OBVIOUS
    <3> HIDE DEF x, y
    <3>3. r.slotEnd + x <= c
      BY <1>3, <3>1, <3>2
    <3> QED  BY <2>2, <3>3 DEF x
  <2> HIDE DEF p
  <2>4. p \in Stats /\ Ring(p, A, L) /\ Settled(p, A, L, c)
    BY <2>1 DEF p
  <2> DEFINE q == NextSlot(p)
  <2>5. Ring(q, A, L) /\ Settled(q, A, L, c)
    BY <2>3, <2>4, SlotPushed
  <2>6. /\ q.slotEnd = p.slotEnd + SlotTicks /\ q.slotsDone = p.slotsDone + 1
        /\ q.lateRun = p.lateRun /\ q.actions = p.actions
        /\ q.firstFire = p.firstFire /\ q.lastFire = p.lastFire
    BY <2>4, NextSlotIs
  <2> HIDE DEF q
  <2>7. q.slotEnd = r.slotEnd + i * SlotTicks /\ q.slotsDone = r.slotsDone + i
    <3>1. i \in Int /\ (i - 1) * SlotTicks = i * SlotTicks - SlotTicks /\ i * SlotTicks \in Int
      <4>1. i \in Int
        OBVIOUS
      <4> QED  BY <4>1, Spans
    <3> DEFINE x == i * SlotTicks
    <3>2. q.slotEnd = (r.slotEnd + (x - SlotTicks)) + SlotTicks
      BY <2>2, <2>6, <3>1
    <3>3. x \in Int
      BY <3>1
    <3> HIDE DEF x
    <3>4. q.slotEnd = r.slotEnd + x
      BY <1>1, <1>3, <3>2, <3>3
    <3>5. q.slotsDone = (r.slotsDone + (i - 1)) + 1
      BY <2>2, <2>6
    <3>6. q.slotsDone = r.slotsDone + i
      BY <1>3, <3>5
    <3> QED  BY <3>4, <3>6 DEF x
  <2>8. As(q, i)
    BY <2>2, <2>6, <2>7
  <2> HIDE DEF As
  <2>9. g[i] = q
    BY <2>1 DEF q, p
  <2> QED  BY <2>1, <2>5, <2>8, <2>9
<1> HIDE DEF T
<1>6. T = 0..n
  <2>1. T \in SUBSET (0..n)
    BY DEF T
  <2> QED  BY <1>4, <1>5, <2>1, Upward
<1>7. n \in T
  BY <1>6
<1>8. g[n] \in Stats
  OBVIOUS
<1> QED  BY <1>2, <1>7, <1>8 DEF T

\* After all slots that ended are pushed, the moment is in the slot in progress.
LEMMA AdvanceRing ==
    ASSUME NEW r \in Stats, NEW c \in Nat, NEW A, NEW L, Ring(r, A, L), Settled(r, A, L, c),
           Start(r) <= c
    PROVE  LET q == Advance(r, c)
           IN  /\ q \in Stats /\ Ring(q, A, L) /\ Start(q) <= c /\ c < q.slotEnd
               /\ q.lateRun = r.lateRun /\ q.actions = r.actions
               /\ q.firstFire = r.firstFire /\ q.lastFire = r.lastFire
<1> DEFINE e == r.slotEnd
           S == SlotTicks
           D == (c - e) \div S
           due == IF c < e THEN 0 ELSE D + 1
           guard == History + 11
<1>1. S \in Nat \ {0} /\ History \in Nat \ {0} /\ PerSecond \in Nat \ {0} /\ 2 * PerSecond - 1 <= History
  BY FiguresConstants
<1>2. e \in Nat /\ r.slotsDone \in Nat /\ r.actions \in Nat /\ r.lateRun \in Nat
  BY DEF Stats
<1>3. Advance(r, c) = IF due >= guard THEN [Pushed(r, guard) EXCEPT !.slotEnd = c + S] ELSE Pushed(r, due)
  BY DEF Advance
<1>4. D \in Int /\ S * D <= c - e /\ c - e < S * D + S
  <2>1. c - e \in Int
    BY <1>2
  <2> HIDE DEF e
  <2> QED  BY <1>1, <2>1, Quotients
<1>5. S * D = D * S /\ D * S \in Int /\ (D + 1) * S = D * S + S
  BY <1>1, <1>4, Spans
<1> DEFINE DS == D * S
<1>6. DS \in Int /\ e + DS <= c /\ c < e + DS + S
  <2>1. DS <= c - e /\ c - e < DS + S /\ DS \in Int
    BY <1>4, <1>5
  <2> HIDE DEF DS, e
  <2> QED  BY <1>1, <1>2, <2>1
<1>7. c >= e => D >= 0
  <2> SUFFICES ASSUME c >= e, D <= -1 PROVE FALSE
    BY <1>4
  <2>1. (D + 1) * S <= 0 * S /\ 0 * S = 0
    <3>1. D + 1 \in Int /\ 0 \in Int /\ D + 1 <= 0
      BY <1>4
    <3> HIDE DEF D
    <3> QED  BY <3>1, Spans
  <2>2. DS + S <= 0
    BY <1>5, <2>1
  <2> HIDE DEF DS, e
  <2> QED  BY <1>1, <1>2, <1>6, <2>2
<1> HIDE DEF D
<1>8. due \in Nat
  BY <1>4, <1>7, <1>2
<1>9. CASE due < guard
  <2> DEFINE q == Pushed(r, due)
  <2>1. Advance(r, c) = q
    BY <1>1, <1>3, <1>8, <1>9
  <2>2. due > 0 => r.slotEnd + (due - 1) * SlotTicks <= c
    <3> SUFFICES ASSUME due > 0 PROVE r.slotEnd + (due - 1) * SlotTicks <= c
      OBVIOUS
    <3>1. due = D + 1 /\ due - 1 = D
      BY <1>4
    <3> QED  BY <1>6, <3>1
  <2>3. /\ q \in Stats /\ Ring(q, A, L) /\ q.slotEnd = e + due * SlotTicks
        /\ q.lateRun = r.lateRun /\ q.actions = r.actions
        /\ q.firstFire = r.firstFire /\ q.lastFire = r.lastFire
    <3> HIDE DEF due
    <3> QED  BY <1>8, <2>2, PushedRing
  <2>4. Start(q) <= c /\ c < q.slotEnd
    <3>1. CASE c < e
      <4>1. q.slotEnd = e
        <5>1. due = 0 /\ 0 * SlotTicks = 0
          BY <3>1, Spans
        <5>2. q.slotEnd = e + 0
          BY <2>3, <5>1
        <5> HIDE DEF q, e
        <5> QED  BY <1>2, <5>2
      <4> QED  BY <3>1, <4>1 DEF Start
    <3>2. CASE ~(c < e)
      <4> DEFINE y == q.slotEnd
                 z == Start(q)
      <4>1. y = e + (DS + S)
        BY <1>5, <2>3, <3>2
      <4> HIDE DEF q
      <4>2. z = y - S
        BY DEF Start
      <4> HIDE DEF DS, e, y, z
      <4>3. z <= c /\ c < y
        BY <1>1, <1>2, <1>6, <4>1, <4>2
      <4> QED  BY <4>3 DEF y, z
    <3> QED  BY <3>1, <3>2
  <2> HIDE DEF q
  <2> QED  BY <2>1, <2>3, <2>4
<1>10. CASE due >= guard
  <2> DEFINE p == Pushed(r, guard)
             q == [p EXCEPT !.slotEnd = c + S]
             bp == Start(p)
             H == History
  <2>1. Advance(r, c) = q
    BY <1>3, <1>10
  <2>2. c >= e /\ D >= H + 10
    BY <1>1, <1>2, <1>4, <1>10
  <2>3. (H + 10) * S <= DS /\ (H + 10) * S \in Int /\ guard - 1 = H + 10
        /\ guard * S = (H + 10) * S + S
    <3>1. H + 10 \in Int /\ guard = H + 10 + 1 /\ guard - 1 = H + 10
      BY <1>1
    <3> QED  BY <1>4, <2>2, <3>1, Spans
  <2> DEFINE HS == (H + 10) * S
  <2>4. e + HS <= c /\ HS \in Int
    <3>1. HS \in Int /\ HS <= DS
      BY <2>3
    <3> HIDE DEF HS, DS, e
    <3> QED  BY <1>2, <1>6, <3>1
  <2>5. /\ p \in Stats /\ Ring(p, A, L) /\ p.slotEnd = e + guard * SlotTicks
        /\ p.slotsDone = r.slotsDone + guard
        /\ p.lateRun = r.lateRun /\ p.actions = r.actions
        /\ p.firstFire = r.firstFire /\ p.lastFire = r.lastFire
    <3>1. guard \in Nat /\ r.slotEnd + (guard - 1) * SlotTicks <= c
      BY <1>1, <2>3, <2>4
    <3> HIDE DEF guard
    <3> QED  BY <3>1, PushedRing
  <2>6. bp = e + HS
    <3>1. p.slotEnd = e + (HS + S) /\ bp = p.slotEnd - S
      BY <2>3, <2>5 DEF Start
    <3> HIDE DEF HS, e, bp, p
    <3> QED  BY <1>1, <1>2, <2>4, <3>1
  <2> HIDE DEF p
  <2>7. /\ q \in Stats /\ q.slotEnd = c + S /\ q.slotCount = p.slotCount /\ q.slots = p.slots
        /\ q.slotHead = p.slotHead /\ q.slotFilled = p.slotFilled /\ q.slotsDone = p.slotsDone
        /\ q.lateRun = p.lateRun /\ q.lateSec = p.lateSec /\ q.lateLastSec = p.lateLastSec
        /\ q.actions = p.actions /\ q.firstFire = p.firstFire /\ q.lastFire = p.lastFire
    <3>1. c + S \in Nat
      BY <1>1
    <3> QED  BY <2>5, <3>1 DEF Stats
  <2> HIDE DEF q
  <2>8. Start(q) = c
    BY <1>1, <2>7 DEF Start
  \* Every moment the figures look back to is one where nothing happened any more.
  <2>9. ASSUME NEW x \in 0..H
        PROVE  LET xs == x * S
               IN  /\ A[bp - xs] = r.actions /\ L[bp - xs] = r.lateRun
                   /\ A[c - xs] = r.actions /\ L[c - xs] = r.lateRun
    <3> DEFINE xs == x * S
    <3>1. xs \in Int /\ 0 <= xs /\ xs <= HS
      <4>1. x \in Int /\ 0 \in Int /\ H + 10 \in Int /\ 0 <= x /\ x <= H + 10
        BY <1>1
      <4> QED  BY <4>1, Spans
    <3> HIDE DEF xs, HS, e, bp
    <3>2. bp - xs \in e..c /\ c - xs \in e..c
      BY <1>2, <2>4, <2>6, <3>1
    <3>3. A[bp - xs] = r.actions /\ L[bp - xs] = r.lateRun /\ A[c - xs] = r.actions /\ L[c - xs] = r.lateRun
      BY <3>2 DEF Settled, e
    <3> QED  BY <3>3 DEF xs
  <2>10. r.actions - r.actions = 0 /\ r.lateRun - r.lateRun = 0
    BY <1>2
  <2>11. q.slotCount = q.actions - A[Start(q)]
    <3>1. 0 * S = 0 /\ 0 \in 0..H /\ bp - 0 = bp /\ c - 0 = c
      BY <1>1, <1>2, <2>4, <2>6, Spans
    <3>2. A[bp] = r.actions /\ A[c] = r.actions
      BY <2>9, <3>1
    <3>3. p.slotCount = p.actions - A[bp]
      BY <2>5 DEF Ring
    <3> QED  BY <2>5, <2>7, <2>8, <3>2, <3>3
  <2>12. q.slotFilled = Capped(q.slotsDone, History) /\ q.slotFilled \in 0..H /\ ~(q.slotsDone < H)
    <3>1. ~(p.slotsDone < H)
      BY <1>1, <1>2, <2>5
    <3>2. p.slotFilled = Capped(p.slotsDone, History) /\ p.slotFilled \in 0..H
      BY <2>5 DEF Ring, Stats
    <3> QED  BY <2>7, <3>1, <3>2
  <2>13. q.slotsDone * S <= c
    <3>1. p.slotsDone * S <= bp /\ p.slotsDone * S \in Int
      <4>1. p.slotsDone \in Int
        BY <1>1, <1>2, <2>5
      <4> QED  BY <2>5, <4>1, Spans DEF Ring
    <3> DEFINE x == p.slotsDone * S
    <3> HIDE DEF x, bp, HS, e
    <3>2. x <= bp /\ x \in Int
      BY <3>1 DEF x, bp
    <3>3. x <= c
      BY <1>2, <2>4, <2>6, <3>2
    <3> QED  BY <2>7, <3>3 DEF x
  <2>14. ASSUME NEW i \in 1..q.slotFilled
         PROVE  SlotBack(q, i) = A[c - (i - 1) * S] - A[c - i * S]
    <3>1. i \in 0..H /\ i - 1 \in 0..H
      BY <1>1, <2>12
    <3>2. SlotBack(q, i) = SlotBack(p, i)
      BY <2>7 DEF SlotBack
    <3>3. SlotBack(p, i) = A[bp - (i - 1) * S] - A[bp - i * S]
      BY <2>5, <2>7 DEF Ring
    <3> QED  BY <2>9, <3>1, <3>2, <3>3
  <2> DEFINE P == PerSecond
             m == q.slotsDone % P
  <2>15. m \in 0..H /\ m + P \in 0..H /\ m \in 0..P - 1
    <3>1. q.slotsDone \in Nat
      BY <2>7 DEF Stats
    <3>2. m \in 0..P - 1
      BY <1>1, <3>1, Around1
    <3> HIDE DEF m
    <3> QED  BY <1>1, <3>2
  <2>16. SecondEnd(q) = c - m * S /\ SecondEnd(p) = bp - m * S
    BY <2>7, <2>8 DEF SecondEnd
  <2>17. SecondEnd(q) - P * S = c - (m + P) * S /\ SecondEnd(p) - P * S = bp - (m + P) * S
    <3>1. m \in Int /\ P \in Int
      BY <1>1, <2>15
    <3> HIDE DEF m, P
    <3>2. (m + P) * S = m * S + P * S /\ m * S \in Int /\ P * S \in Int
      BY <3>1, Spans
    <3> DEFINE x == m * S
               y == P * S
    <3> HIDE DEF x, y, bp
    <3>3. bp \in Int
      BY <1>2, <2>4, <2>6
    <3>4. c - x - y = c - (x + y) /\ bp - x - y = bp - (x + y)
      BY <3>2, <3>3 DEF x, y
    <3> QED  BY <2>16, <3>2, <3>4 DEF x, y
  <2>18. q.lateSec = q.lateRun - L[SecondEnd(q)]
    <3>1. p.lateSec = p.lateRun - L[SecondEnd(p)]
      BY <2>5 DEF Ring
    <3>2. L[SecondEnd(q)] = r.lateRun /\ L[SecondEnd(p)] = r.lateRun
      BY <2>9, <2>15, <2>16
    <3> QED  BY <2>5, <2>7, <3>1, <3>2
  <2>19. q.lateLastSec = IF q.slotsDone < P THEN 0
                         ELSE L[SecondEnd(q)] - L[SecondEnd(q) - P * S]
    <3>1. p.lateLastSec = IF p.slotsDone < P THEN 0
                          ELSE L[SecondEnd(p)] - L[SecondEnd(p) - P * S]
      BY <2>5 DEF Ring
    <3>2. L[SecondEnd(q)] = r.lateRun /\ L[SecondEnd(p)] = r.lateRun
      BY <2>9, <2>15, <2>16
    <3>3. L[SecondEnd(q) - P * S] = r.lateRun /\ L[SecondEnd(p) - P * S] = r.lateRun
      BY <2>9, <2>15, <2>17
    <3> QED  BY <2>7, <3>1, <3>2, <3>3
  <2> HIDE DEF bp, H, HS, m
  <2>20. Ring(q, A, L)
    BY <2>8, <2>11, <2>12, <2>13, <2>14, <2>18, <2>19 DEF Ring, H, P
  <2> QED  BY <1>1, <2>1, <2>5, <2>7, <2>8, <2>20
<1> QED  BY <1>1, <1>8, <1>9, <1>10

\* The figures look back to moments of the run.
LEMMA Reaches ==
    ASSUME NEW r \in Stats, NEW A, NEW L, Ring(r, A, L)
    PROVE  /\ SecondEnd(r) \in 0..Start(r)
           /\ r.slotsDone >= PerSecond => SecondEnd(r) - PerSecond * SlotTicks \in 0..Start(r)
           /\ \A i \in 0..r.slotFilled : Start(r) - i * SlotTicks \in 0..Start(r)
<1> DEFINE S == SlotTicks
           P == PerSecond
           b == Start(r)
           done == r.slotsDone
           m == done % P
<1>1. S \in Nat \ {0} /\ P \in Nat \ {0} /\ History \in Nat \ {0}
  BY FiguresConstants
<1>2. done \in Nat /\ r.slotFilled \in 0..History
  BY DEF Stats
<1>3. b \in Nat /\ done * S <= b /\ r.slotFilled = Capped(done, History)
  BY DEF Ring
<1>4. m \in 0..P - 1 /\ m <= done /\ (done >= P => m + P <= done)
  <2>1. m \in 0..P - 1
    BY <1>1, <1>2, Around1
  <2> DEFINE q == done \div P
  <2>2. q \in Int /\ P * q <= done /\ done < P * q + P /\ m = done - P * q
    <3>1. q \in Int /\ P * q <= done /\ done < P * q + P
      <4>1. done \in Int
        BY <1>2
      <4> HIDE DEF done, P
      <4> QED  BY <1>1, <4>1, Quotients
    <3>2. m = done - P * q
      <4> HIDE DEF done, P
      <4> QED  BY <1>1, <1>2
    <3> QED  BY <3>1, <3>2
  <2> HIDE DEF m, P, done, q
  <2>3. P * 1 = P /\ P * 0 = 0
    BY <1>1
  <2>4. q >= 0
    <3>1. P * 0 < P * q + P
      BY <1>1, <1>2, <2>2, <2>3
    <3>2. 0 <= q
      BY <1>1, <2>2, <3>1, NotAbove
    <3> QED  BY <3>2, <2>2
  <2>5. P * q >= 0
    <3>1. \A x \in Int : x >= 0 => P * x >= 0
      BY <1>1
    <3> QED  BY <2>2, <2>4, <3>1
  <2>6. ASSUME done >= P PROVE P * q >= P
    <3>1. P * 1 < P * q + P
      BY <1>1, <1>2, <2>2, <2>3, <2>6
    <3>2. 1 <= q
      BY <1>1, <2>2, <3>1, NotAbove
    <3>3. \A x \in Int : x >= 1 => P * x >= P
      BY <1>1
    <3> QED  BY <2>2, <3>2, <3>3
  <2>7. P * q \in Int
    BY <1>1, <2>2
  <2> DEFINE y == P * q
  <2> HIDE DEF y
  <2>8. y \in Int /\ y >= 0 /\ (done >= P => y >= P) /\ m = done - y
    BY <2>2, <2>5, <2>6, <2>7 DEF y
  <2> QED  BY <1>1, <1>2, <2>1, <2>8
<1>5. ASSUME NEW x \in Nat, x <= done PROVE b - x * S \in 0..b
  <2>1. x \in Int /\ done \in Int /\ 0 \in Int /\ 0 <= x
    BY <1>2
  <2> HIDE DEF done, b
  <2>2. x * S \in Int /\ x * S <= done * S /\ 0 * S <= x * S /\ 0 * S = 0 /\ done * S \in Int
    BY <1>5, <2>1, Spans
  <2> DEFINE y == x * S
             z == done * S
  <2> HIDE DEF y, z
  <2>3. y \in Int /\ y <= z /\ 0 <= y /\ z \in Int /\ z <= b
    BY <1>3, <2>2 DEF y, z
  <2>4. b - y \in 0..b
    BY <1>3, <2>3
  <2> QED  BY <2>4 DEF y
<1>6. SecondEnd(r) = b - m * S
  BY DEF SecondEnd
<1>7. SecondEnd(r) - P * S = b - (m + P) * S
  <2>1. m \in Int /\ P \in Int
    BY <1>1, <1>4
  <2> HIDE DEF m, P, b
  <2>2. (m + P) * S = m * S + P * S /\ m * S \in Int /\ P * S \in Int
    BY <2>1, Spans
  <2> DEFINE y == m * S
             z == P * S
  <2> HIDE DEF y, z
  <2>3. y \in Int /\ z \in Int /\ (m + P) * S = y + z /\ SecondEnd(r) = b - y
    BY <1>6, <2>2 DEF y, z
  <2>4. SecondEnd(r) - z = b - (y + z)
    BY <1>3, <2>3
  <2> QED  BY <2>3, <2>4 DEF z
<1> HIDE DEF m, P, done
<1>8. SecondEnd(r) \in 0..b
  BY <1>1, <1>4, <1>5, <1>6
<1>9. done >= P => SecondEnd(r) - P * S \in 0..b
  <2> SUFFICES ASSUME done >= P PROVE SecondEnd(r) - P * S \in 0..b
    OBVIOUS
  <2>1. m + P \in Nat /\ m + P <= done
    BY <1>1, <1>4
  <2> QED  BY <1>5, <1>7, <2>1
<1>10. \A i \in 0..r.slotFilled : b - i * S \in 0..b
  <2> SUFFICES ASSUME NEW i \in 0..r.slotFilled PROVE b - i * S \in 0..b
    OBVIOUS
  <2>1. i \in Nat /\ i <= done
    BY <1>1, <1>2, <1>3 DEF Capped
  <2> QED  BY <1>5, <2>1
<1> QED  BY <1>8, <1>9, <1>10 DEF P, done

\* The figures stay as they are when the histories go on.
LEMMA RingExtends ==
    ASSUME NEW r \in Stats, NEW A, NEW L, Ring(r, A, L), NEW A2, NEW L2,
           \A x \in 0..Start(r) : A2[x] = A[x] /\ L2[x] = L[x]
    PROVE  Ring(r, A2, L2)
<1> DEFINE S == SlotTicks
           b == Start(r)
<1>1. r.slotFilled \in 0..History /\ History \in Nat /\ r.slotsDone \in Nat /\ PerSecond \in Nat
  BY FiguresConstants DEF Stats
<1>2. b \in Nat
  BY DEF Ring
<1>3. A2[b] = A[b]
  BY <1>2
<1>4. ASSUME NEW i \in 1..r.slotFilled
      PROVE  SlotBack(r, i) = A2[b - (i - 1) * S] - A2[b - i * S]
  <2>1. i \in 0..r.slotFilled /\ i - 1 \in 0..r.slotFilled
    BY <1>1
  <2>2. b - (i - 1) * S \in 0..b /\ b - i * S \in 0..b
    BY <2>1, Reaches
  <2>3. SlotBack(r, i) = A[b - (i - 1) * S] - A[b - i * S]
    BY DEF Ring
  <2> QED  BY <2>2, <2>3
<1>5. L2[SecondEnd(r)] = L[SecondEnd(r)]
  BY Reaches
<1>6. r.slotsDone >= PerSecond =>
        L2[SecondEnd(r) - PerSecond * S] = L[SecondEnd(r) - PerSecond * S]
  BY Reaches
<1>7. r.slotsDone < PerSecond \/ r.slotsDone >= PerSecond
  BY <1>1
<1> QED  BY <1>3, <1>4, <1>5, <1>6, <1>7 DEF Ring

\* An action counted is in the slot in progress.
LEMMA CountedRing ==
    ASSUME NEW r \in Stats, NEW c \in Nat, NEW A, NEW L, Ring(r, A, L), Settled(r, A, L, c),
           Start(r) <= c, NEW n \in Nat, NEW lates \in Nat
    PROVE  LET q == Counted(r, c, n, lates)
           IN  /\ q \in Stats /\ Ring(q, A, L) /\ Start(q) <= c /\ c < q.slotEnd
               /\ q.lateRun = r.lateRun + lates /\ q.actions = r.actions + n
               /\ q.firstFire = (IF r.firstFire = -1 THEN c ELSE r.firstFire) /\ q.lastFire = c
<1> DEFINE a == Advance(r, c)
           q == Counted(r, c, n, lates)
<1>1. /\ a \in Stats /\ Ring(a, A, L) /\ Start(a) <= c /\ c < a.slotEnd
      /\ a.lateRun = r.lateRun /\ a.actions = r.actions
      /\ a.firstFire = r.firstFire /\ a.lastFire = r.lastFire
  BY AdvanceRing
<1>2. q = [a EXCEPT !.actions = @ + n, !.slotCount = @ + n, !.lateRun = @ + lates, !.lateSec = @ + lates,
                    !.lastFire = c, !.firstFire = IF @ = -1 THEN c ELSE @]
  BY DEF Counted
<1> HIDE DEF a, q
<1>3. /\ a.actions \in Nat /\ a.slotCount \in Int /\ a.lateRun \in Nat /\ a.lateSec \in Int
      /\ a.firstFire \in Int /\ a.slotEnd \in Nat /\ a.slotsDone \in Nat
  BY <1>1 DEF Stats
<1> DEFINE an == a.actions + n
           cn == a.slotCount + n
           lr == a.lateRun + lates
           ls == a.lateSec + lates
           ff == IF a.firstFire = -1 THEN c ELSE a.firstFire
<1>4. an \in Nat /\ cn \in Int /\ lr \in Nat /\ ls \in Int /\ ff \in Int /\ c \in Int
  BY <1>3
<1>5. q = [a EXCEPT !.actions = an, !.slotCount = cn, !.lateRun = lr, !.lateSec = ls,
                    !.lastFire = c, !.firstFire = ff]
  BY <1>1, <1>2 DEF Stats
<1>6. q.actions = an /\ q.slotCount = cn /\ q.lateRun = lr /\ q.lateSec = ls
  <2> HIDE DEF an, cn, lr, ls, ff
  <2> QED  BY <1>1, <1>5 DEF Stats
<1>7. q.lastFire = c /\ q.firstFire = ff /\ q.slotEnd = a.slotEnd /\ q.slots = a.slots
  <2> HIDE DEF an, cn, lr, ls, ff
  <2> QED  BY <1>1, <1>5 DEF Stats
<1>8. /\ q.slotHead = a.slotHead /\ q.slotFilled = a.slotFilled /\ q.slotsDone = a.slotsDone
      /\ q.lateLastSec = a.lateLastSec
  <2> HIDE DEF an, cn, lr, ls, ff
  <2> QED  BY <1>1, <1>5 DEF Stats
<1>9. q \in Stats
  <2> HIDE DEF an, cn, lr, ls, ff
  <2> DEFINE q1 == [a EXCEPT !.actions = an, !.slotCount = cn]
             q2 == [q1 EXCEPT !.lateRun = lr, !.lateSec = ls]
             q3 == [q2 EXCEPT !.lastFire = c, !.firstFire = ff]
  <2>1. q1 \in Stats
    BY <1>1, <1>4 DEF Stats
  <2>2. q2 \in Stats
    <3> HIDE DEF q1
    <3> QED  BY <1>4, <2>1 DEF Stats
  <2>3. q3 \in Stats
    <3> HIDE DEF q2
    <3> QED  BY <1>4, <2>2 DEF Stats
  <2>4. q3 = q
    BY <1>1, <1>5 DEF Stats
  <2> QED  BY <2>3, <2>4
<1>10. Start(q) = Start(a) /\ SecondEnd(q) = SecondEnd(a)
  BY <1>7, <1>8 DEF Start, SecondEnd
<1>11. \A i \in 1..q.slotFilled : SlotBack(q, i) = SlotBack(a, i)
  BY <1>7, <1>8 DEF SlotBack
<1>12. q.slotCount = q.actions - A[Start(q)] /\ q.lateSec = q.lateRun - L[SecondEnd(q)]
  <2> DEFINE x == A[Start(a)]
             y == L[SecondEnd(a)]
  <2>1. a.slotCount = a.actions - x /\ a.lateSec = a.lateRun - y
    BY <1>1 DEF Ring
  <2>2. x \in Int /\ y \in Int
    <3>1. Start(a) \in Nat
      BY <1>1 DEF Ring
    <3>2. Start(a) \in 0..c /\ SecondEnd(a) \in 0..Start(a)
      BY <1>1, <3>1, Reaches
    <3>3. SecondEnd(a) \in 0..c
      BY <3>1, <3>2
    <3> QED  BY <3>2, <3>3 DEF Settled
  <2> HIDE DEF x, y
  <2>3. an = a.actions + n /\ cn = an - x /\ ls = lr - y
    BY <1>3, <2>1, <2>2
  <2> QED  BY <1>6, <1>10, <2>3 DEF x, y
<1>13. Ring(q, A, L)
  BY <1>1, <1>7, <1>8, <1>10, <1>11, <1>12 DEF Ring
<1> QED  BY <1>1, <1>3, <1>6, <1>7, <1>9, <1>10, <1>13 DEF q

\* What the last slots sum up to.
LEMMA SumIs ==
    ASSUME NEW r \in Stats, NEW c \in Nat, NEW A \in [0..c -> Nat], NEW L, Ring(r, A, L),
           Start(r) <= c, NEW n \in 1..History
    PROVE  LET last == SumLast(r, n)
           IN  /\ last.have = Capped(n, Start(r) \div SlotTicks)
               /\ last.sum = A[Start(r)] - A[Start(r) - last.have * SlotTicks]
<1> DEFINE S == SlotTicks
           b == Start(r)
           have == Capped(n, r.slotFilled)
           done == r.slotsDone
           F == [i \in Nat |-> [x \in Int |-> IF i \in 1..have THEN x + SlotBack(r, i) ELSE x]]
           Chain(g) == g = [i \in 0..have |-> IF i = 0 THEN 0 ELSE g[i - 1] + SlotBack(r, i)]
           s == CHOOSE g : Chain(g)
<1>1. S \in Nat \ {0} /\ History \in Nat \ {0}
  BY FiguresConstants
<1>2. /\ r.slotFilled \in 0..History /\ r.slotHead \in 0..History - 1 /\ done \in Nat
      /\ r.slots \in [0..History - 1 -> Int]
  BY DEF Stats
<1>3. /\ b \in Nat /\ done * S <= b /\ (done < History => done * S = b)
      /\ r.slotFilled = Capped(done, History)
  BY DEF Ring
<1>4. have \in 0..r.slotFilled /\ have \in 0..History /\ have \in Nat
  BY <1>1, <1>2 DEF Capped
<1>5. ASSUME NEW i \in 1..have PROVE SlotBack(r, i) \in Int
  <2>1. i \in 1..History
    BY <1>1, <1>4
  <2> DEFINE h == r.slotHead
             x == (h - i + History) % History
  <2>2. x = IF i <= h THEN h - i ELSE h - i + History
    BY <1>2, <2>1, PlaceBack
  <2>3. SlotBack(r, i) = r.slots[x]
    BY DEF SlotBack
  <2>4. h \in 0..History - 1
    BY <1>2
  <2> HIDE DEF x, h
  <2>5. x \in 0..History - 1
    BY <1>1, <2>1, <2>2, <2>4
  <2> QED  BY <1>2, <2>3, <2>5
<1>6. F \in [Nat -> [Int -> Int]]
  <2>1. \A i \in Nat : \A x \in Int : (IF i \in 1..have THEN x + SlotBack(r, i) ELSE x) \in Int
    <3> SUFFICES ASSUME NEW i \in Nat, NEW x \in Int, i \in 1..have PROVE x + SlotBack(r, i) \in Int
      OBVIOUS
    <3> HIDE DEF have
    <3> QED  BY <1>5
  <2> HIDE DEF have
  <2> QED  BY <2>1
<1> HIDE DEF F
<1>7. Chained(have, Int, 0, F)
  <2> DEFINE z == 0
             w == have
  <2>1. z \in Int /\ w \in Nat
    BY <1>4
  <2> HIDE DEF z, w
  <2>2. Chained(w, Int, z, F)
    BY <1>6, <2>1, StepByStep
  <2> QED  BY <2>2 DEF z, w
<1> HIDE DEF have
<1>8. PICK g \in [0..have -> Int] : \A i \in 0..have : g[i] = IF i = 0 THEN 0 ELSE F[i][g[i - 1]]
  BY <1>7 DEF Chained
<1>9. \A i \in 0..have : g[i] = IF i = 0 THEN 0 ELSE g[i - 1] + SlotBack(r, i)
  <2> SUFFICES ASSUME NEW i \in 0..have, i # 0 PROVE g[i] = g[i - 1] + SlotBack(r, i)
    BY <1>8
  <2>1. i - 1 \in 0..have /\ i \in Nat /\ i \in 1..have /\ g[i - 1] \in Int
    BY <1>4
  <2>2. F[i][g[i - 1]] = g[i - 1] + SlotBack(r, i)
    BY <2>1 DEF F
  <2> QED  BY <1>8, <2>2
<1>10. Chain(g)
  <2>1. g = [i \in 0..have |-> g[i]]
    OBVIOUS
  <2> QED  BY <1>9, <2>1
<1> HIDE DEF Chain
<1>11. Chain(s)
  BY <1>10
<1>12. SumLast(r, n) = [have |-> have, sum |-> s[have]]
  BY DEF SumLast, Chain, s, have
<1> HIDE DEF s
<1>13. \A i \in 0..have : s[i] = IF i = 0 THEN 0 ELSE s[i - 1] + SlotBack(r, i)
  BY <1>11 DEF Chain
<1> DEFINE T == {i \in 0..have : s[i] = A[b] - A[b - i * S]}
<1>14. A[b] \in Nat /\ \A i \in 0..have : A[b - i * S] \in Nat
  <2>1. b \in 0..c
    BY <1>3
  <2>2. \A i \in 0..have : i \in 0..r.slotFilled
    BY <1>2, <1>4
  <2>3. \A i \in 0..have : b - i * S \in 0..b
    BY <2>2, Reaches
  <2>4. \A i \in 0..have : b - i * S \in 0..c
    <3> SUFFICES ASSUME NEW x \in 0..b PROVE x \in 0..c
      BY <2>3
    <3> QED  BY <1>3
  <2> QED  BY <2>1, <2>4
<1>15. T = 0..have
  <2>1. 0 \in T
    <3>1. 0 \in 0..have /\ s[0] = 0 /\ 0 * S = 0 /\ b - 0 = b
      <4>1. 0 \in 0..have
        BY <1>4
      <4>2. s[0] = 0
        BY <1>13, <4>1
      <4>3. 0 * S = 0
        BY Spans
      <4>4. b - 0 = b
        <5> HIDE DEF b
        <5> QED  BY <1>3
      <4> QED  BY <4>1, <4>2, <4>3, <4>4
    <3>2. A[b] - A[b] = 0
      BY <1>14
    <3> QED  BY <3>1, <3>2
  <2>2. \A i \in 1..have : i - 1 \in T => i \in T
    <3> SUFFICES ASSUME NEW i \in 1..have, s[i - 1] = A[b] - A[b - (i - 1) * S]
                 PROVE  i \in 0..have /\ s[i] = A[b] - A[b - i * S]
      OBVIOUS
    <3>1. i \in 0..have /\ i # 0 /\ i - 1 \in 0..have /\ i \in 1..r.slotFilled
      BY <1>2, <1>4
    <3>2. s[i] = s[i - 1] + SlotBack(r, i)
      BY <1>13, <3>1
    <3>3. SlotBack(r, i) = A[b - (i - 1) * S] - A[b - i * S]
      BY <3>1 DEF Ring
    <3> DEFINE x == A[b - (i - 1) * S]
               y == A[b - i * S]
               w == A[b]
    <3>4. x \in Nat /\ y \in Nat /\ w \in Nat
      BY <1>14, <3>1
    <3> HIDE DEF x, y, w
    <3>5. (w - x) + (x - y) = w - y
      BY <3>4
    <3>6. s[i - 1] = w - x /\ SlotBack(r, i) = x - y
      BY <3>3 DEF x, y, w
    <3>7. s[i] = w - y
      BY <3>2, <3>5, <3>6
    <3> QED  BY <3>1, <3>7 DEF w, y
  <2> HIDE DEF T
  <2>3. T \in SUBSET (0..have)
    BY DEF T
  <2> QED  BY <1>4, <2>1, <2>2, <2>3, Upward
<1>16. s[have] = A[b] - A[b - have * S]
  <2>1. have \in 0..have
    BY <1>4
  <2> HIDE DEF T
  <2>2. have \in T
    BY <1>15, <2>1
  <2> QED  BY <2>2 DEF T
<1>17. have = Capped(n, b \div S)
  <2> DEFINE q == b \div S
  <2>0. q \in Int /\ S * q <= b /\ b < S * q + S
    <3>1. b \in Int
      BY <1>3
    <3> HIDE DEF b
    <3> QED  BY <1>1, <3>1, Quotients
  <2>1. CASE done < History
    <3>1. b = S * done + 0
      <4>1. done * S = b
        BY <1>3, <2>1
      <4> HIDE DEF done, b
      <4> QED  BY <1>1, <1>2, <4>1
    <3>2. (S * done + 0) \div S = done
      <4>1. 0 \in 0..S - 1 /\ done \in Int
        BY <1>1, <1>2
      <4> QED  BY <1>1, <4>1, RemainderIs
    <3>3. q = done
      BY <3>1, <3>2
    <3>4. r.slotFilled = done
      BY <1>3, <2>1 DEF Capped
    <3> QED  BY <3>3, <3>4 DEF have
  <2>2. CASE ~(done < History)
    <3>1. q >= done
      <4>1. S * done < S * q + S
        <5>1. done * S < S * q + S /\ done * S = S * done
          <6>1. done * S \in Int /\ done * S = S * done
            BY <1>1, <1>2
          <6> DEFINE x == done * S
                     y == S * q
          <6>2. x \in Int /\ x <= b /\ b < y + S
            BY <1>3, <2>0, <6>1
          <6>3. y \in Int
            BY <1>1, <2>0
          <6> HIDE DEF x, y, b
          <6>4. x < y + S
            BY <1>1, <1>3, <6>2, <6>3
          <6> QED  BY <6>1, <6>4 DEF x, y
        <5> QED  BY <5>1
      <4>2. done \in Int
        BY <1>2
      <4> HIDE DEF done, q
      <4> QED  BY <1>1, <2>0, <4>1, <4>2, NotAbove
    <3> HIDE DEF q
    <3>2. r.slotFilled = History
      BY <1>1, <1>2, <1>3, <2>2 DEF Capped
    <3>3. Capped(n, History) = n /\ Capped(n, q) = n
      BY <1>1, <1>2, <2>0, <2>2, <3>1 DEF Capped
    <3> QED  BY <3>2, <3>3 DEF have, q
  <2> QED  BY <2>1, <2>2
<1> QED  BY <1>12, <1>16, <1>17
-----------------------------------------------------------------------------
\* The moments of the first and the last action fit the space between actions.
Spaced ==
    /\ run.actions = 0 => space = 0 /\ run.firstFire = -1 /\ run.lastFire = -1
    /\ run.actions > 0 => run.firstFire \in Nat /\ run.lastFire \in Nat
    /\ space = 0 => run.actions <= 1
    /\ run.actions = 1 => run.firstFire = run.lastFire
    /\ space > 0 => run.actions >= 2 /\ run.lastFire - run.firstFire = (run.actions - 1) * space

FiguresInv ==
    /\ clock \in Nat /\ run \in Stats /\ space \in Int
    /\ actionsUpTo \in [0..clock -> Nat] /\ latesUpTo \in [0..clock -> Nat]
    /\ Ring(run, actionsUpTo, latesUpTo)
    /\ Start(run) <= clock /\ clock < run.slotEnd
    /\ Spaced

LEMMA FiguresStart == FiguresInit => FiguresInv
<1> SUFFICES ASSUME FiguresInit PROVE FiguresInv
  OBVIOUS
<1> DEFINE S == SlotTicks
           A == actionsUpTo
           L == latesUpTo
<1>1. History \in Nat \ {0} /\ S \in Nat \ {0} /\ PerSecond \in Nat \ {0}
  BY FiguresConstants
<1>2. clock = 0 /\ space = 0 /\ run = NewRun /\ A = [x \in 0..0 |-> 0] /\ L = [x \in 0..0 |-> 0]
  BY DEF FiguresInit
<1>3. A \in [0..clock -> Nat] /\ L \in [0..clock -> Nat] /\ A[0] = 0 /\ L[0] = 0
  <2>1. 0 \in 0..0
    OBVIOUS
  <2> QED  BY <1>2, <2>1
<1>4. /\ run.slotEnd = S /\ run.slotCount = 0 /\ run.slots = [s \in 0..History - 1 |-> 0]
      /\ run.slotHead = 0 /\ run.slotFilled = 0 /\ run.slotsDone = 0
      /\ run.lateRun = 0 /\ run.lateSec = 0 /\ run.lateLastSec = 0
      /\ run.actions = 0 /\ run.firstFire = -1 /\ run.lastFire = -1
  BY <1>2 DEF NewRun
<1>5. run \in Stats
  <2>1. /\ 0 \in 0..History - 1 /\ 0 \in 0..History /\ 0 \in Nat /\ 0 \in Int /\ -1 \in Int /\ SlotTicks \in Nat
        /\ [s \in 0..History - 1 |-> 0] \in [0..History - 1 -> Int]
    BY <1>1
  <2> QED  BY <1>2, <2>1 DEF Stats, NewRun
<1>6. Start(run) = 0
  BY <1>1, <1>4 DEF Start
<1>7. SecondEnd(run) = 0
  <2>1. 0 % PerSecond = 0 /\ 0 * S = 0
    <3>1. 0 = PerSecond * 0 + 0 /\ 0 \in 0..PerSecond - 1
      BY <1>1
    <3>2. (PerSecond * 0 + 0) % PerSecond = 0
      BY <1>1, <3>1, RemainderIs
    <3> QED  BY <3>1, <3>2, Spans
  <2> QED  BY <1>4, <1>6, <2>1 DEF SecondEnd
<1>8. Ring(run, A, L)
  <2>1. Capped(0, History) = 0 /\ 0 < PerSecond /\ 0 * S = 0 /\ 0 - 0 = 0
    BY <1>1, Spans DEF Capped
  <2>2. 1..run.slotFilled = {}
    BY <1>4
  <2> QED  BY <1>3, <1>4, <1>6, <1>7, <2>1, <2>2 DEF Ring
<1>9. Spaced
  BY <1>2, <1>4 DEF Spaced
<1> QED  BY <1>1, <1>2, <1>3, <1>4, <1>5, <1>6, <1>8, <1>9 DEF FiguresInv

\* A call counts on from the histories it draws on.
LEMMA CallKeeps ==
    ASSUME FiguresInv, NEW d \in Nat, NEW n \in Nat \ {0}, NEW lates \in Nat,
           Remember(clock + d, n), run' = Counted(run, clock + d, n, lates)
    PROVE  FiguresInv'
<1> DEFINE c == clock + d
           A2 == actionsUpTo'
           L2 == latesUpTo'
           since == c - run.lastFire
<1>1. /\ clock \in Nat /\ run \in Stats /\ space \in Int
      /\ actionsUpTo \in [0..clock -> Nat] /\ latesUpTo \in [0..clock -> Nat]
      /\ Ring(run, actionsUpTo, latesUpTo)
      /\ Start(run) <= clock /\ clock < run.slotEnd
  BY DEF FiguresInv
<1>2. c \in Nat /\ clock <= c /\ clock' = c
  BY <1>1 DEF Remember
<1>3. /\ A2 = [x \in 0..c |-> IF x <= clock THEN actionsUpTo[x] ELSE run.actions]
      /\ L2 = [x \in 0..c |-> IF x <= clock THEN latesUpTo[x] ELSE run.lateRun]
  BY DEF Remember
<1>4. space' = IF n = 1 /\ run.actions = 0 THEN 0
               ELSE IF n = 1 /\ since > 0 /\ (run.actions = 1 \/ space = since) THEN since
               ELSE -1
  BY DEF Remember
<1> HIDE DEF c
<1>5. /\ run.actions \in Nat /\ run.lateRun \in Nat /\ run.firstFire \in Int /\ run.lastFire \in Int
      /\ run.slotEnd \in Nat /\ Start(run) \in Nat
  BY <1>1 DEF Stats, Ring
<1>6. A2 \in [0..c -> Nat] /\ L2 \in [0..c -> Nat]
  <2>1. \A x \in 0..c : x <= clock => x \in 0..clock
    BY <1>1, <1>2
  <2>2. A2 \in [0..c -> Nat]
    <3>1. \A x \in 0..c : (IF x <= clock THEN actionsUpTo[x] ELSE run.actions) \in Nat
      BY <1>1, <1>5, <2>1
    <3> QED  BY <1>3, <3>1
  <2>3. L2 \in [0..c -> Nat]
    <3>1. \A x \in 0..c : (IF x <= clock THEN latesUpTo[x] ELSE run.lateRun) \in Nat
      BY <1>1, <1>5, <2>1
    <3> QED  BY <1>3, <3>1
  <2> QED  BY <2>2, <2>3
<1>7. \A x \in 0..Start(run) : A2[x] = actionsUpTo[x] /\ L2[x] = latesUpTo[x]
  <2>1. \A x \in 0..Start(run) : x \in 0..c /\ x <= clock
    BY <1>1, <1>2, <1>5
  <2> QED  BY <1>3, <2>1
<1>8. Ring(run, A2, L2)
  <2> DEFINE A3 == A2
             L3 == L2
  <2>1. \A x \in 0..Start(run) : A3[x] = actionsUpTo[x] /\ L3[x] = latesUpTo[x]
    BY <1>7
  <2> HIDE DEF A3, L3
  <2>2. Ring(run, A3, L3)
    BY <1>1, <2>1, RingExtends
  <2> QED  BY <2>2 DEF A3, L3
<1>9. Settled(run, A2, L2, c)
  <2>1. \A x \in run.slotEnd..c : x \in 0..c /\ ~(x <= clock)
    BY <1>1, <1>2, <1>5
  <2> QED  BY <1>3, <1>6, <2>1 DEF Settled
<1> DEFINE q == Counted(run, c, n, lates)
<1>10. /\ q \in Stats /\ Ring(q, A2, L2) /\ Start(q) <= c /\ c < q.slotEnd
       /\ q.actions = run.actions + n
       /\ q.firstFire = (IF run.firstFire = -1 THEN c ELSE run.firstFire) /\ q.lastFire = c
  <2>1. Start(run) <= c
    BY <1>1, <1>2, <1>5
  <2> DEFINE A3 == A2
             L3 == L2
  <2>2. Ring(run, A3, L3) /\ Settled(run, A3, L3, c)
    BY <1>8, <1>9
  <2> HIDE DEF A3, L3
  <2>3. /\ q \in Stats /\ Ring(q, A3, L3) /\ Start(q) <= c /\ c < q.slotEnd
        /\ q.actions = run.actions + n
        /\ q.firstFire = (IF run.firstFire = -1 THEN c ELSE run.firstFire) /\ q.lastFire = c
    BY <1>1, <1>2, <2>1, <2>2, CountedRing
  <2> QED  BY <2>3 DEF A3, L3
<1>11. run' = q
  BY DEF c
<1> HIDE DEF q
<1>12. Spaced'
  <2> DEFINE a == run.actions
             f == run.firstFire
             l == run.lastFire
             s2 == space'
             a2 == run'.actions
             f2 == run'.firstFire
             l2 == run'.lastFire
  <2>1. /\ a = 0 => space = 0 /\ f = -1 /\ l = -1
        /\ a > 0 => f \in Nat /\ l \in Nat
        /\ space = 0 => a <= 1
        /\ a = 1 => f = l
        /\ space > 0 => a >= 2 /\ l - f = (a - 1) * space
    BY DEF FiguresInv, Spaced
  <2>2. a2 = a + n /\ f2 = (IF f = -1 THEN c ELSE f) /\ l2 = c
    BY <1>10, <1>11
  <2>3. a \in Nat /\ f \in Int /\ l \in Int
    BY <1>5
  <2>4. s2 = IF n = 1 /\ a = 0 THEN 0
             ELSE IF n = 1 /\ since > 0 /\ (a = 1 \/ space = since) THEN since ELSE -1
    BY <1>4
  <2>5. since = c - l
    OBVIOUS
  <2> HIDE DEF since, a, f, l, s2, a2, f2, l2
  <2>6. /\ a2 # 0
        /\ f2 \in Nat /\ l2 \in Nat
        /\ s2 = 0 => a2 <= 1
        /\ a2 = 1 => f2 = l2
    BY <1>1, <1>2, <2>1, <2>2, <2>3, <2>4, <2>5
  <2>7. s2 > 0 => a2 >= 2 /\ l2 - f2 = (a2 - 1) * s2
    <3> SUFFICES ASSUME s2 > 0 PROVE a2 >= 2 /\ l2 - f2 = (a2 - 1) * s2
      OBVIOUS
    <3>1. n = 1 /\ a # 0 /\ since > 0 /\ (a = 1 \/ space = since) /\ s2 = since
      BY <2>4
    <3>2. a2 = a + 1 /\ a2 >= 2 /\ f2 = f /\ l2 = c
      BY <2>1, <2>2, <2>3, <3>1
    <3>3. CASE a = 1
      <4>1. f = l /\ a2 - 1 = 1 /\ l2 - f2 = since
        BY <2>1, <2>5, <3>2, <3>3
      <4>2. 1 * since = since
        BY <1>2, <2>3, <2>5
      <4> QED  BY <3>1, <3>2, <4>1, <4>2
    <3>4. CASE space = since
      <4>1. l - f = (a - 1) * since
        BY <2>1, <3>1, <3>4
      <4>2. since \in Int /\ a2 - 1 = a
        BY <1>2, <2>3, <2>5, <3>2
      <4>3. (a - 1) * since = a * since - since /\ a * since \in Int
        BY <2>3, <4>2
      <4> DEFINE y == a * since
      <4>4. l - f = y - since /\ y \in Int
        BY <4>1, <4>3
      <4> HIDE DEF y
      <4>5. l2 - f2 = y
        BY <1>2, <2>3, <2>5, <3>2, <4>2, <4>4
      <4> QED  BY <3>1, <3>2, <4>2, <4>5 DEF y
    <3> QED  BY <3>1, <3>3, <3>4
  <2> QED  BY <2>6, <2>7 DEF Spaced, a2, f2, l2, s2
<1>13. space' \in Int
  <2>1. since \in Int
    BY <1>2, <1>5
  <2> HIDE DEF since
  <2> QED  BY <1>4, <2>1
<1> QED  BY <1>2, <1>6, <1>10, <1>11, <1>12, <1>13 DEF FiguresInv, Start

LEMMA FiguresSteps == FiguresInv /\ [FiguresNext]_figurevars => FiguresInv'
<1> SUFFICES ASSUME FiguresInv, [FiguresNext]_figurevars PROVE FiguresInv'
  OBVIOUS
<1>1. Pauses \subseteq Nat /\ Sizes \subseteq Nat \ {0}
  BY FiguresConstants
<1>2. ASSUME NEW n \in Nat \ {0}, NEW lates \in Nat, Call(n, lates) PROVE FiguresInv'
  <2>1. PICK d \in Pauses : Remember(clock + d, n) /\ run' = Counted(run, clock + d, n, lates)
    BY <1>2 DEF Call
  <2>2. d \in Nat
    BY <1>1
  <2> QED  BY <2>1, <2>2, CallKeeps
<1>3. CASE OnAction
  <2>1. Call(1, 1)
    BY <1>3 DEF OnAction
  <2>2. 1 \in Nat \ {0} /\ 1 \in Nat
    OBVIOUS
  <2> QED  BY <1>2, <2>1, <2>2
<1>4. CASE OnActions
  <2>1. PICK n \in Sizes : Call(n, 0)
    BY <1>4 DEF OnActions
  <2>2. n \in Nat \ {0} /\ 0 \in Nat
    BY <1>1
  <2> QED  BY <1>2, <2>1, <2>2
<1>5. CASE UNCHANGED figurevars
  BY <1>5 DEF figurevars, FiguresInv, Spaced, Ring, Start, SecondEnd, SlotBack
<1> QED  BY <1>3, <1>4, <1>5 DEF FiguresNext

\* What the histories and the ring of a run agree on holds throughout a run.
THEOREM FiguresAgree == FiguresSpec => []FiguresInv
<1> QED  BY FiguresStart, FiguresSteps, PTL DEF FiguresSpec

\* The rates are those of the actions of their time, for a ring of any size and
\* pauses of any length.
THEOREM RatesAreExact == FiguresSpec => []RatesExact
<1>1. FiguresInv => RatesExact
  <2> SUFFICES ASSUME FiguresInv PROVE RatesExact
    OBVIOUS
  <2>1. /\ clock \in Nat /\ run \in Stats
        /\ actionsUpTo \in [0..clock -> Nat]
        /\ Ring(run, actionsUpTo, latesUpTo)
        /\ Start(run) <= clock /\ clock < run.slotEnd
    BY DEF FiguresInv
  <2>2. Start(run) \in 0..clock /\ run.slotCount = run.actions - actionsUpTo[Start(run)]
    BY <2>1 DEF Ring
  <2>3. \A n \in 1..History :
          LET last == SumLast(run, n)
          IN  /\ last.have = Capped(n, Start(run) \div SlotTicks)
              /\ last.sum = actionsUpTo[Start(run)] - actionsUpTo[Start(run) - last.have * SlotTicks]
    BY <2>1, SumIs
  <2> QED  BY <2>1, <2>2, <2>3 DEF RatesExact
<1> QED  BY <1>1, FiguresAgree, PTL

\* The lateness shown for a second is that of its actions.
THEOREM SecondsAreExact == FiguresSpec => []SecondsExact
<1>1. FiguresInv => SecondsExact
  BY DEF FiguresInv, Ring, SecondsExact, LastSecond, SecondEnd
<1> QED  BY <1>1, FiguresAgree, PTL

\* An even run has the rate of the space between its actions.
THEOREM AverageIsExact == FiguresSpec => []AverageExact
<1>1. FiguresInv => AverageExact
  <2> SUFFICES ASSUME FiguresInv, space > 0
               PROVE  LET avg == AvgCps(run, clock) IN avg.num > 0 /\ avg.num * space = avg.den
    BY DEF AverageExact
  <2> DEFINE a == run.actions
             x == run.lastFire - run.firstFire
  <2>1. a >= 2 /\ x = (a - 1) * space /\ space \in Int /\ a \in Nat /\ run.lastFire \in Int /\ run.firstFire \in Int
    BY DEF FiguresInv, Spaced, Stats
  <2>2. run.lastFire > run.firstFire
    <3>1. x > 0
      <4> HIDE DEF a, x
      <4>1. \A i, j \in Int : i > 0 /\ j > 0 => i * j > 0
        OBVIOUS
      <4> QED  BY <2>1, <4>1
    <3> QED  BY <2>1, <3>1
  <2>3. AvgCps(run, clock) = [num |-> a - 1, den |-> x]
    BY <2>1, <2>2 DEF AvgCps
  <2>4. a - 1 > 0
    BY <2>1
  <2> QED  BY <2>1, <2>3, <2>4
<1> QED  BY <1>1, FiguresAgree, PTL

\* The figures of a run are right, all of them.
THEOREM FiguresAreRight == FiguresSpec => []FiguresRight
<1>1. RatesExact /\ SecondsExact /\ AverageExact => FiguresRight
  BY DEF FiguresRight
<1> QED  BY <1>1, RatesAreExact, SecondsAreExact, AverageIsExact, PTL

-----------------------------------------------------------------------------
\* The histogram.

LEMMA PowersAre ==
    /\ Pow2 \in [0..MaxMsb + 1 -> Nat \ {0}]
    /\ Pow2[0] = 1
    /\ \A i \in 1..MaxMsb + 1 : Pow2[i] = 2 * Pow2[i - 1]
<1> DEFINE N == MaxMsb + 1
           D == Nat \ {0}
           F == [i \in Nat |-> [x \in D |-> 2 * x]]
           Chain(g) == g = [i \in 0..N |-> IF i = 0 THEN 1 ELSE 2 * g[i - 1]]
<1>1. N \in Nat
  BY HistogramConstants
<1>2. F \in [Nat -> [D -> D]]
  OBVIOUS
<1>3. Chained(N, D, 1, F)
  <2> DEFINE z == 1
  <2>1. z \in D
    OBVIOUS
  <2> HIDE DEF z, F, D, N
  <2>2. Chained(N, D, z, F)
    BY <1>1, <1>2, <2>1, StepByStep
  <2> QED  BY <2>2 DEF z
<1>4. PICK g \in [0..N -> D] : \A i \in 0..N : g[i] = IF i = 0 THEN 1 ELSE F[i][g[i - 1]]
  <2> HIDE DEF N, D, F
  <2> QED  BY <1>3 DEF Chained
<1>5. \A i \in 0..N : g[i] = IF i = 0 THEN 1 ELSE 2 * g[i - 1]
  <2> SUFFICES ASSUME NEW i \in 0..N, i # 0 PROVE g[i] = 2 * g[i - 1]
    BY <1>4
  <2>1. i - 1 \in 0..N /\ i \in Nat /\ g[i - 1] \in D
    BY <1>1
  <2>2. F[i][g[i - 1]] = 2 * g[i - 1]
    BY <2>1
  <2> QED  BY <1>4, <2>2
<1>6. Chain(g)
  <2>1. g = [i \in 0..N |-> g[i]]
    OBVIOUS
  <2> HIDE DEF N
  <2> QED  BY <1>5, <2>1
<1>7. Pow2 = CHOOSE h : Chain(h)
  BY DEF Pow2
<1> HIDE DEF Chain
<1>8. Chain(Pow2)
  BY <1>6, <1>7
<1> HIDE DEF N
<1>9. \A i \in 0..N : Pow2[i] = IF i = 0 THEN 1 ELSE 2 * Pow2[i - 1]
  BY <1>8 DEF Chain
<1>10. Pow2 = [i \in 0..N |-> Pow2[i]]
  BY <1>8, <1>9 DEF Chain
<1> DEFINE T == {i \in 0..N : Pow2[i] \in D}
<1>11. T = 0..N
  <2>1. 0 \in T
    BY <1>1, <1>9
  <2>2. \A i \in 1..N : i - 1 \in T => i \in T
    <3> SUFFICES ASSUME NEW i \in 1..N, Pow2[i - 1] \in D PROVE i \in 0..N /\ Pow2[i] \in D
      OBVIOUS
    <3>1. i \in 0..N /\ i # 0
      BY <1>1
    <3> QED  BY <1>9, <3>1
  <2> HIDE DEF T
  <2>3. T \in SUBSET (0..N)
    BY DEF T
  <2> QED  BY <1>1, <2>1, <2>2, <2>3, Upward
<1>12. Pow2 \in [0..N -> D]
  BY <1>10, <1>11
<1>13. Pow2[0] = 1 /\ \A i \in 1..N : Pow2[i] = 2 * Pow2[i - 1]
  BY <1>1, <1>9
<1> QED  BY <1>12, <1>13 DEF N

LEMMA PowersAscend ==
    ASSUME NEW i \in 0..MaxMsb + 1, NEW j \in 0..MaxMsb + 1, i <= j
    PROVE  Pow2[i] <= Pow2[j]
<1> DEFINE N == MaxMsb + 1 - i
           T == {d \in 0..N : Pow2[i] <= Pow2[i + d]}
<1>1. MaxMsb \in Nat /\ N \in Nat
  BY HistogramConstants
<1>2. 0 \in T
  <2>1. i + 0 = i /\ Pow2[i] \in Nat
    BY <1>1, PowersAre
  <2> QED  BY <1>1, <2>1
<1>3. \A d \in 1..N : d - 1 \in T => d \in T
  <2> SUFFICES ASSUME NEW d \in 1..N, Pow2[i] <= Pow2[i + (d - 1)] PROVE d \in 0..N /\ Pow2[i] <= Pow2[i + d]
    OBVIOUS
  <2>1. i + d \in 1..MaxMsb + 1 /\ i + (d - 1) = (i + d) - 1 /\ i + (d - 1) \in 0..MaxMsb + 1 /\ d \in 0..N
    BY <1>1
  <2> HIDE DEF N
  <2>2. Pow2[i + d] = 2 * Pow2[i + (d - 1)] /\ Pow2[i + (d - 1)] \in Nat /\ Pow2[i] \in Nat
    BY <2>1, PowersAre
  <2> QED  BY <2>1, <2>2
<1>4. T = 0..N
  <2> HIDE DEF T
  <2>1. T \in SUBSET (0..N)
    BY DEF T
  <2> HIDE DEF N
  <2> QED  BY <1>1, <1>2, <1>3, <2>1, Upward
<1>5. j - i \in 0..N /\ i + (j - i) = j
  BY <1>1
<1> HIDE DEF N
<1>6. j - i \in T
  BY <1>4, <1>5
<1> QED  BY <1>5, <1>6

\* A power of two that is a whole number of powers of it.
LEMMA PowersSplit ==
    ASSUME NEW s \in 0..MaxMsb + 1 - SubBits
    PROVE  SubBits + s \in 0..MaxMsb + 1 /\ Pow2[SubBits + s] = Sub * Pow2[s]
<1> DEFINE N == MaxMsb + 1 - SubBits
           T == {d \in 0..N : Pow2[SubBits + d] = Sub * Pow2[d]}
<1>1. MaxMsb \in Nat /\ SubBits \in Nat /\ SubBits <= MaxMsb /\ N \in Nat
  BY HistogramConstants
<1>2. Sub \in Nat \ {0}
  <2>1. SubBits \in 0..MaxMsb + 1
    BY <1>1
  <2> QED  BY <2>1, PowersAre DEF Sub
<1>3. 0 \in T
  <2>1. SubBits + 0 = SubBits /\ Pow2[0] = 1
    BY <1>1, PowersAre
  <2>2. Sub * 1 = Sub
    BY <1>2
  <2> QED  BY <1>1, <2>1, <2>2 DEF Sub
<1>4. \A d \in 1..N : d - 1 \in T => d \in T
  <2> SUFFICES ASSUME NEW d \in 1..N, Pow2[SubBits + (d - 1)] = Sub * Pow2[d - 1]
               PROVE  d \in 0..N /\ Pow2[SubBits + d] = Sub * Pow2[d]
    OBVIOUS
  <2>1. /\ d \in 0..N /\ d \in 1..MaxMsb + 1 /\ SubBits + d \in 1..MaxMsb + 1
        /\ SubBits + (d - 1) = (SubBits + d) - 1 /\ d - 1 \in 0..MaxMsb + 1
    BY <1>1
  <2>2. Pow2[SubBits + d] = 2 * (Sub * Pow2[d - 1]) /\ Pow2[d] = 2 * Pow2[d - 1] /\ Pow2[d - 1] \in Nat
    BY <2>1, PowersAre
  <2> DEFINE x == Pow2[d - 1]
             y == Pow2[SubBits + d]
             z == Pow2[d]
  <2> HIDE DEF x, y, z
  <2>3. y = 2 * (Sub * x) /\ z = 2 * x /\ x \in Nat
    BY <2>2 DEF x, y, z
  <2>4. y = Sub * z
    BY <1>2, <2>3
  <2> QED  BY <2>1, <2>4 DEF y, z
<1>5. T = 0..N
  <2> HIDE DEF T
  <2>1. T \in SUBSET (0..N)
    BY DEF T
  <2> HIDE DEF N
  <2> QED  BY <1>1, <1>3, <1>4, <2>1, Upward
<1>6. s \in T
  BY <1>5
<1>7. SubBits + s \in 0..MaxMsb + 1
  BY <1>1
<1> QED  BY <1>6, <1>7

\* Where a time lies: which power of two, and which part of it.
LEMMA CellOf ==
    ASSUME NEW v \in Nat, Sub <= v, v < Top
    PROVE  \E s \in 0..MaxMsb - SubBits : \E q \in Sub..2 * Sub - 1 :
              /\ q * Pow2[s] <= v /\ v < q * Pow2[s] + Pow2[s]
              /\ Index(v) = s * Sub + q
<1> DEFINE M == MaxMsb
           b == Msb(v)
           s == b - SubBits
           W == Pow2[s]
           q == v \div W
           T == {i \in 0..M + 1 : Pow2[i] <= v}
<1>1. M \in Nat /\ SubBits \in Nat /\ SubBits <= M
  BY HistogramConstants
<1>2. Sub \in Nat \ {0} /\ Top \in Nat /\ Pow2[0] = 1
  <2>1. SubBits \in 0..M + 1 /\ M + 1 \in 0..M + 1
    BY <1>1
  <2> QED  BY <2>1, PowersAre DEF Sub, Top
<1>3. \E i \in 0..M : Pow2[i] <= v /\ v < Pow2[i + 1]
  <2> SUFFICES ASSUME \A i \in 0..M : Pow2[i] <= v => ~(v < Pow2[i + 1]) PROVE FALSE
    OBVIOUS
  <2>1. 0 \in T
    BY <1>1, <1>2
  <2>2. \A i \in 1..M + 1 : i - 1 \in T => i \in T
    <3> SUFFICES ASSUME NEW i \in 1..M + 1, Pow2[i - 1] <= v PROVE i \in 0..M + 1 /\ Pow2[i] <= v
      OBVIOUS
    <3>1. i - 1 \in 0..M /\ (i - 1) + 1 = i /\ i \in 0..M + 1
      BY <1>1
    <3>2. ~(v < Pow2[i])
      BY <3>1
    <3>3. Pow2[i] \in Nat
      BY <3>1, PowersAre
    <3> QED  BY <3>1, <3>2, <3>3
  <2> HIDE DEF T
  <2>3. T \in SUBSET (0..M + 1)
    BY DEF T
  <2>4. M + 1 \in Nat
    BY <1>1
  <2> DEFINE N == M + 1
  <2> HIDE DEF N
  <2>5. T = 0..N
    BY <2>1, <2>2, <2>3, <2>4, Upward DEF N
  <2>6. N \in T
    BY <2>4, <2>5 DEF N
  <2> QED  BY <1>2, <2>6 DEF T, N, Top
<1>4. b \in 0..M /\ Pow2[b] <= v /\ v < Pow2[b + 1]
  BY <1>3 DEF Msb
<1> HIDE DEF b
<1>5. SubBits <= b
  <2> SUFFICES ASSUME b < SubBits PROVE FALSE
    BY <1>1, <1>4
  <2>1. b + 1 \in 0..M + 1 /\ SubBits \in 0..M + 1 /\ b + 1 <= SubBits
    BY <1>1, <1>4
  <2>2. Pow2[b + 1] <= Sub /\ Pow2[b + 1] \in Nat
    BY <2>1, PowersAscend, PowersAre DEF Sub
  <2> QED  BY <1>2, <1>4, <2>2
<1>6. s \in 0..M - SubBits /\ s \in 0..M + 1 - SubBits /\ s + 1 \in 0..M + 1 - SubBits
      /\ s \in 0..M + 1 /\ s + 1 \in 1..M + 1
      /\ SubBits + s = b /\ SubBits + (s + 1) = b + 1
  BY <1>1, <1>4, <1>5
<1> HIDE DEF s
<1>7. W \in Nat \ {0} /\ Pow2[s + 1] = 2 * W /\ Pow2[b] = Sub * W /\ Pow2[b + 1] = Sub * Pow2[s + 1]
  <2>1. W \in Nat \ {0} /\ Pow2[s + 1] = 2 * W
    <3>1. (s + 1) - 1 = s
      BY <1>6
    <3> QED  BY <1>6, <3>1, PowersAre
  <2> QED  BY <1>6, <2>1, PowersSplit
<1> HIDE DEF W
<1>8. Sub * W <= v /\ v < Sub * (2 * W)
  BY <1>4, <1>7
<1>9. q \in Int /\ W * q <= v /\ v < W * q + W
  BY <1>7, Quotients
<1> HIDE DEF q
<1>10. q \in Sub..2 * Sub - 1
  <2>1. W * Sub < W * q + W
    <3>1. W * Sub = Sub * W /\ Sub * W \in Int /\ W * q \in Int
      BY <1>2, <1>7, <1>9
    <3> DEFINE x == W * Sub
               y == W * q
    <3> HIDE DEF x, y
    <3>2. x \in Int /\ y \in Int /\ x <= v /\ v < y + W
      BY <1>8, <1>9, <3>1 DEF x, y
    <3> QED  BY <1>7, <3>2 DEF x, y
  <2>2. W * q < W * (2 * Sub - 1) + W
    <3>1. W * (2 * Sub - 1) + W = Sub * (2 * W) /\ W * q \in Int /\ Sub * (2 * W) \in Int
      BY <1>2, <1>7, <1>9
    <3> DEFINE x == Sub * (2 * W)
               y == W * q
    <3> HIDE DEF x, y
    <3>2. x \in Int /\ y \in Int /\ v < x /\ y <= v
      BY <1>8, <1>9, <3>1 DEF x, y
    <3>3. y < x
      BY <3>2
    <3> QED  BY <3>1, <3>3 DEF x, y
  <2>3. Sub <= q /\ q <= 2 * Sub - 1
    <3>1. Sub \in Int /\ 2 * Sub - 1 \in Int
      BY <1>2
    <3> QED  BY <1>7, <1>9, <2>1, <2>2, <3>1, NotAbove
  <2> QED  BY <1>2, <1>9, <2>3
<1>11. q % Sub = q - Sub
  <2> DEFINE r == q - Sub
  <2>1. r \in 0..Sub - 1 /\ q = Sub * 1 + r
    BY <1>2, <1>10
  <2>2. (Sub * 1 + r) % Sub = r
    <3> HIDE DEF r
    <3>1. 1 \in Int
      OBVIOUS
    <3> QED  BY <1>2, <2>1, <3>1, RemainderIs
  <2> QED  BY <2>1, <2>2
<1>12. Index(v) = s * Sub + q
  <2>1. ~(v < Sub) /\ ~(v >= Top)
    BY <1>2
  <2>2. Index(v) = (s + 1) * Sub + (q % Sub)
    BY <2>1 DEF Index, b, s, W, q
  <2>3. (s + 1) * Sub = s * Sub + Sub /\ s * Sub \in Int
    BY <1>2, <1>6
  <2> DEFINE x == s * Sub
  <2>4. Index(v) = x + Sub + (q - Sub) /\ x \in Int
    BY <1>11, <2>2, <2>3
  <2> HIDE DEF x
  <2>5. x + Sub + (q - Sub) = x + q
    BY <1>2, <1>10, <2>4
  <2> QED  BY <2>4, <2>5 DEF x
<1>13. q * Pow2[s] <= v /\ v < q * Pow2[s] + Pow2[s]
  <2>1. q * W = W * q
    BY <1>7, <1>9
  <2> QED  BY <1>9, <2>1 DEF W
<1> QED  BY <1>6, <1>10, <1>12, <1>13

\* Buckets and powers are numbers.
LEMMA BucketsAre ==
    /\ Sub \in Nat \ {0} /\ MaxMsb - SubBits \in Nat
    /\ Buckets = (MaxMsb - SubBits) * Sub + 2 * Sub /\ Buckets \in Nat /\ 2 * Sub <= Buckets
    /\ Top = Sub * Pow2[MaxMsb - SubBits + 1] /\ Top \in Nat
<1> DEFINE m == MaxMsb - SubBits
<1>1. m \in Nat /\ SubBits \in 0..MaxMsb + 1 /\ MaxMsb + 1 \in 0..MaxMsb + 1
  BY HistogramConstants
<1>2. Sub \in Nat \ {0} /\ Top \in Nat
  BY <1>1, PowersAre DEF Sub, Top
<1>3. Top = Sub * Pow2[m + 1]
  <2>1. m + 1 \in 0..MaxMsb + 1 - SubBits /\ SubBits + (m + 1) = MaxMsb + 1
    BY <1>1, HistogramConstants
  <2> QED  BY <2>1, PowersSplit DEF Top
<1>4. Buckets = (m + 1) * Sub + Sub
  BY DEF Buckets
<1> HIDE DEF m
<1>5. (m + 1) * Sub = m * Sub + Sub /\ m * Sub \in Nat
  BY <1>1, <1>2
<1> DEFINE x == m * Sub
<1>6. Buckets = x + Sub + Sub /\ x \in Nat
  BY <1>4, <1>5
<1> HIDE DEF x
<1>7. Buckets = x + 2 * Sub /\ Buckets \in Nat /\ 2 * Sub <= Buckets
  BY <1>2, <1>6
<1> QED  BY <1>1, <1>2, <1>3, <1>7 DEF m, x

\* The middle of the bucket of a time is close to it.
LEMMA MiddleClose ==
    ASSUME NEW v \in Nat, v < Top
    PROVE  LET said == BucketMid(Index(v))
           IN  2 * Sub * (said - v) <= v /\ 2 * Sub * (v - said) <= v
<1>1. Sub \in Nat \ {0}
  BY BucketsAre
<1>2. CASE v < Sub
  <2>1. Index(v) = v /\ BucketMid(v) = v /\ v - v = 0 /\ 2 * Sub * 0 = 0
    BY <1>1, <1>2 DEF Index, BucketMid
  <2> QED  BY <2>1
<1>3. CASE ~(v < Sub)
  <2>1. PICK s \in 0..MaxMsb - SubBits : \E q \in Sub..2 * Sub - 1 :
           /\ q * Pow2[s] <= v /\ v < q * Pow2[s] + Pow2[s] /\ Index(v) = s * Sub + q
    BY <1>1, <1>3, CellOf
  <2>2. PICK q \in Sub..2 * Sub - 1 :
           q * Pow2[s] <= v /\ v < q * Pow2[s] + Pow2[s] /\ Index(v) = s * Sub + q
    BY <2>1
  <2> DEFINE W == Pow2[s]
             idx == s * Sub + q
             h == W \div 2
  <2>3. W \in Nat \ {0}
    <3>1. s \in 0..MaxMsb + 1
      BY HistogramConstants
    <3> QED  BY <3>1, PowersAre
  <2>4. idx = Sub * (s + 1) + (q - Sub) /\ q - Sub \in 0..Sub - 1 /\ s + 1 \in Int
    <3>1. Sub * (s + 1) = s * Sub + Sub /\ s * Sub \in Int
      BY <1>1
    <3> DEFINE x == s * Sub
    <3> HIDE DEF x
    <3>2. x \in Int /\ x + Sub + (q - Sub) = x + q
      BY <1>1, <3>1 DEF x
    <3> QED  BY <1>1, <3>1, <3>2 DEF x
  <2>5. idx % Sub = q - Sub /\ idx \div Sub = s + 1
    BY <1>1, <2>4, RemainderIs
  <2>6. ~(idx < Sub)
    <3>1. s * Sub \in Nat
      BY <1>1
    <3> DEFINE x == s * Sub
    <3> HIDE DEF x
    <3>2. ~(x + q < Sub)
      BY <1>1, <3>1 DEF x
    <3> QED  BY <3>2 DEF x
  <2>7. BucketMid(idx) = q * W + h
    <3>1. BucketMid(idx) = (Sub + (q - Sub)) * Pow2[(s + 1) - 1] + (Pow2[(s + 1) - 1] \div 2)
      BY <2>5, <2>6 DEF BucketMid
    <3>2. Sub + (q - Sub) = q /\ (s + 1) - 1 = s
      BY <1>1
    <3> QED  BY <3>1, <3>2
  <2>8. h \in Int /\ 2 * h <= W /\ W < 2 * h + 2
    BY <2>3, Quotients
  <2> DEFINE x == q * W
             d == x + h - v
             e == v - (x + h)
  <2>9. x \in Int /\ x <= v /\ v < x + W
    BY <1>1, <2>2, <2>3
  <2> HIDE DEF h, x, W, idx
  <2>10. d \in Int /\ e \in Int /\ 2 * d <= W /\ 2 * e <= W
    BY <2>3, <2>8, <2>9
  <2> HIDE DEF d, e
  <2>11. Sub * W <= v
    <3>1. Sub * W <= q * W
      <4>1. \A a, b \in Nat : a <= b => a * W <= b * W
        BY <2>3
      <4> QED  BY <1>1, <4>1
    <3>2. Sub * W \in Int
      BY <1>1, <2>3
    <3> DEFINE y == Sub * W
    <3> HIDE DEF y
    <3>3. y \in Int /\ y <= x
      BY <3>1, <3>2 DEF x, y
    <3> QED  BY <2>9, <3>3 DEF y
  <2>12. ASSUME NEW u \in Int, 2 * u <= W PROVE 2 * Sub * u <= v
    <3>1. \A a, b \in Int : a <= b => Sub * a <= Sub * b
      BY <1>1
    <3>2. Sub * (2 * u) <= Sub * W
      BY <2>3, <2>12, <3>1
    <3>3. Sub * (2 * u) = 2 * Sub * u /\ Sub * W \in Int /\ 2 * Sub * u \in Int
      BY <1>1, <2>3
    <3> DEFINE y == Sub * W
               z == 2 * Sub * u
    <3> HIDE DEF y, z
    <3>4. z <= y /\ y <= v /\ y \in Int /\ z \in Int
      BY <2>11, <3>2, <3>3 DEF y, z
    <3>5. z <= v
      BY <3>4
    <3> QED  BY <3>5 DEF z
  <2>13. 2 * Sub * d <= v /\ 2 * Sub * e <= v
    BY <2>10, <2>12
  <2> DEFINE said == BucketMid(Index(v))
  <2>14. said = x + h
    BY <2>2, <2>7 DEF idx, x, W
  <2> HIDE DEF said
  <2>15. said - v = d /\ v - said = e
    BY <2>8, <2>9, <2>14 DEF d, e
  <2>16. 2 * Sub * (said - v) <= v /\ 2 * Sub * (v - said) <= v
    BY <2>13, <2>15
  <2> QED  BY <2>16 DEF said
<1> QED  BY <1>2, <1>3

\* Every time has a bucket, and longer times have none that comes before.
LEMMA IndexIn ==
    ASSUME NEW v \in Nat
    PROVE  Index(v) \in 0..Buckets - 1
<1>1. /\ Sub \in Nat \ {0} /\ MaxMsb - SubBits \in Nat /\ Top \in Nat
      /\ Buckets = (MaxMsb - SubBits) * Sub + 2 * Sub /\ Buckets \in Nat /\ 2 * Sub <= Buckets
  BY BucketsAre
<1>2. CASE v < Sub
  BY <1>1, <1>2 DEF Index
<1>3. CASE v >= Sub /\ v >= Top
  BY <1>1, <1>3 DEF Index
<1>4. CASE v >= Sub /\ v < Top
  <2>1. PICK s \in 0..MaxMsb - SubBits : \E q \in Sub..2 * Sub - 1 : Index(v) = s * Sub + q
    BY <1>1, <1>4, CellOf
  <2>2. PICK q \in Sub..2 * Sub - 1 : Index(v) = s * Sub + q
    BY <2>1
  <2>3. s * Sub <= (MaxMsb - SubBits) * Sub /\ s * Sub \in Nat /\ (MaxMsb - SubBits) * Sub \in Nat
    <3> DEFINE m == MaxMsb - SubBits
    <3> HIDE DEF m
    <3>1. m \in Nat /\ s \in 0..m
      BY <1>1 DEF m
    <3>2. s * Sub <= m * Sub /\ s * Sub \in Nat /\ m * Sub \in Nat
      BY <1>1, <3>1
    <3> QED  BY <3>2 DEF m
  <2> DEFINE x == s * Sub
             y == (MaxMsb - SubBits) * Sub
  <2> HIDE DEF x, y
  <2>4. x \in Nat /\ y \in Nat /\ x <= y /\ Index(v) = x + q /\ Buckets = y + 2 * Sub
    BY <1>1, <2>2, <2>3 DEF x, y
  <2> QED  BY <1>1, <2>4
<1> QED  BY <1>1, <1>2, <1>3, <1>4

LEMMA IndexAscends ==
    ASSUME NEW v \in Nat, NEW w \in Nat, v <= w
    PROVE  Index(v) <= Index(w)
<1>1. /\ Sub \in Nat \ {0} /\ MaxMsb - SubBits \in Nat /\ Top \in Nat
      /\ Buckets \in Nat /\ 2 * Sub <= Buckets
  BY BucketsAre
<1>2. CASE w < Sub
  BY <1>1, <1>2 DEF Index
<1>3. CASE w >= Sub /\ w >= Top
  <2>1. Index(w) = Buckets - 1
    BY <1>1, <1>3 DEF Index
  <2>2. Index(v) \in 0..Buckets - 1
    BY IndexIn
  <2> QED  BY <1>1, <2>1, <2>2
<1>4. CASE w >= Sub /\ w < Top
  <2>1. PICK s \in 0..MaxMsb - SubBits : \E q \in Sub..2 * Sub - 1 :
           q * Pow2[s] <= w /\ w < q * Pow2[s] + Pow2[s] /\ Index(w) = s * Sub + q
    BY <1>1, <1>4, CellOf
  <2>2. PICK q \in Sub..2 * Sub - 1 :
           q * Pow2[s] <= w /\ w < q * Pow2[s] + Pow2[s] /\ Index(w) = s * Sub + q
    BY <2>1
  <2>3. s * Sub \in Nat /\ s \in 0..MaxMsb + 1
    BY <1>1, HistogramConstants
  <2>4. CASE v < Sub
    <3>1. Index(v) = v
      BY <2>4 DEF Index
    <3> DEFINE x == s * Sub
    <3> HIDE DEF x
    <3>2. x \in Nat /\ Index(w) = x + q
      BY <2>2, <2>3 DEF x
    <3> QED  BY <1>1, <2>4, <3>1, <3>2
  <2>5. CASE v >= Sub
    <3>1. v < Top
      BY <1>1, <1>4
    <3>2. PICK t \in 0..MaxMsb - SubBits : \E p \in Sub..2 * Sub - 1 :
             p * Pow2[t] <= v /\ v < p * Pow2[t] + Pow2[t] /\ Index(v) = t * Sub + p
      BY <1>1, <2>5, <3>1, CellOf
    <3>3. PICK p \in Sub..2 * Sub - 1 :
             p * Pow2[t] <= v /\ v < p * Pow2[t] + Pow2[t] /\ Index(v) = t * Sub + p
      BY <3>2
    <3>4. t \in 0..MaxMsb + 1
      BY <1>1, HistogramConstants
    <3> DEFINE V == Pow2[t]
               W == Pow2[s]
    <3>5. V \in Nat \ {0} /\ W \in Nat \ {0}
      BY <2>3, <3>4, PowersAre
    <3>6. CASE t = s
      <4>1. p <= q
        <5>1. W * p < W * q + W
          <6>1. W * p = p * W /\ W * q = q * W /\ p * W \in Int /\ q * W \in Int
            BY <1>1, <3>5
          <6> DEFINE x == p * W
                     y == q * W
          <6>2. x <= v /\ w < y + W /\ x \in Int /\ y \in Int
            BY <2>2, <3>3, <3>6, <6>1
          <6> HIDE DEF x, y, W
          <6>3. x < y + W
            BY <3>5, <6>2
          <6> QED  BY <6>1, <6>3 DEF x, y
        <5> HIDE DEF W
        <5>2. p \in Int /\ q \in Int
          BY <1>1
        <5> QED  BY <3>5, <5>1, <5>2, NotAbove
      <4> DEFINE x == s * Sub
      <4> HIDE DEF x
      <4>2. x \in Nat /\ Index(v) = x + p /\ Index(w) = x + q
        BY <2>2, <2>3, <3>3, <3>6 DEF x
      <4> QED  BY <1>1, <4>1, <4>2
    <3>7. CASE t < s
      <4>1. t + 1 \in 0..MaxMsb - SubBits /\ t + 1 <= s
        BY <1>1, <3>7
      <4>2. t * Sub + Sub <= s * Sub /\ t * Sub \in Nat
        <5>1. (t + 1) * Sub <= s * Sub
          <6>1. \A a, b \in Nat : a <= b => a * Sub <= b * Sub
            BY <1>1
          <6> QED  BY <1>1, <4>1, <6>1
        <5>2. (t + 1) * Sub = t * Sub + Sub /\ t * Sub \in Nat
          BY <1>1
        <5> QED  BY <5>1, <5>2
      <4> DEFINE x == t * Sub
                 y == s * Sub
      <4> HIDE DEF x, y
      <4>3. x \in Nat /\ y \in Nat /\ x + Sub <= y /\ Index(v) = x + p /\ Index(w) = y + q
        BY <2>2, <2>3, <3>3, <4>2 DEF x, y
      <4> QED  BY <1>1, <4>3
    <3>8. CASE s < t
      <4>1. s + 1 \in 1..MaxMsb + 1 /\ s + 1 <= t /\ s + 1 \in 0..MaxMsb + 1 /\ (s + 1) - 1 = s
        BY <1>1, <3>8, HistogramConstants
      <4>2. Pow2[s + 1] = 2 * W /\ Pow2[s + 1] <= V
        BY <3>4, <4>1, PowersAre, PowersAscend
      <4>3. 2 * W <= V
        BY <4>2
      <4> HIDE DEF V, W
      <4>4. Sub * (2 * W) <= Sub * V /\ Sub * V <= p * V
        <5>1. \A a, b \in Nat : a <= b => Sub * a <= Sub * b
          BY <1>1
        <5>2. \A a, b \in Nat : a <= b => a * V <= b * V
          BY <3>5
        <5>3. 2 * W \in Nat
          BY <3>5
        <5> QED  BY <1>1, <3>5, <4>3, <5>1, <5>2, <5>3
      <4>5. q * W + W <= Sub * (2 * W)
        <5>1. q + 1 <= 2 * Sub
          BY <1>1
        <5>2. (q + 1) * W <= (2 * Sub) * W
          <6>1. \A a, b \in Nat : a <= b => a * W <= b * W
            BY <3>5
          <6> QED  BY <1>1, <5>1, <6>1
        <5>3. (q + 1) * W = q * W + W /\ (2 * Sub) * W = Sub * (2 * W)
          BY <1>1, <3>5
        <5> QED  BY <5>2, <5>3
      <4> DEFINE x == q * W
                 y == Sub * (2 * W)
                 z == Sub * V
                 u == p * V
      <4>6. x \in Int /\ y \in Int /\ z \in Int /\ u \in Int
        BY <1>1, <3>5
      <4>7. w < x + W /\ u <= v
        BY <2>2, <3>3 DEF V, W
      <4> HIDE DEF x, y, z, u
      <4>8. x + W <= y /\ y <= z /\ z <= u
        BY <4>4, <4>5 DEF x, y, z, u
      <4>9. FALSE
        BY <3>5, <4>6, <4>7, <4>8
      <4> QED  BY <4>9
    <3> QED  BY <3>6, <3>7, <3>8
  <2> QED  BY <1>1, <2>4, <2>5
<1> QED  BY <1>1, <1>2, <1>3, <1>4

\* A bucket counts the times that belong into it.
InBucket(i)    == {n \in DOMAIN seen : Index(seen[n]) = i}
BelowBucket(i) == {n \in DOMAIN seen : Index(seen[n]) < i}

HInv ==
  /\ seen \in Seq(Times)
  /\ total = Len(seen)
  /\ counts \in [0..Buckets - 1 -> Nat]
  /\ \A i \in 0..Buckets - 1 : counts[i] = Cardinality(InBucket(i))

LEMMA SeenIs ==
    ASSUME HInv, NEW n \in DOMAIN seen
    PROVE  seen[n] \in Nat /\ Index(seen[n]) \in 0..Buckets - 1 /\ Index(seen[n]) \in Nat
<1>1. seen \in Seq(Times) /\ n \in 1..Len(seen)
  BY DEF HInv
<1>2. seen[n] \in Times
  BY <1>1, ElementOfSeq
<1>3. seen[n] \in Nat
  BY <1>2, HistogramConstants
<1>4. Index(seen[n]) \in 0..Buckets - 1
  BY <1>3, IndexIn
<1> QED  BY <1>3, <1>4

LEMMA SeenFinite ==
    ASSUME HInv, NEW T \in SUBSET (DOMAIN seen)
    PROVE  IsFiniteSet(T) /\ Cardinality(T) \in Nat
<1>1. DOMAIN seen = 1..Len(seen) /\ Len(seen) \in Nat
  BY DEF HInv
<1>2. IsFiniteSet(1..Len(seen))
  BY <1>1, FS_Interval
<1>3. IsFiniteSet(T)
  BY <1>1, <1>2, FS_Subset
<1> QED  BY <1>3, FS_CardinalityType

LEMMA HistogramStart ==
    ASSUME Buckets \in Nat
    PROVE  counts = NoCounts /\ total = 0 /\ seen = <<>> => HInv
<1> SUFFICES ASSUME counts = NoCounts, total = 0, seen = <<>> PROVE HInv
  OBVIOUS
<1>1. seen \in Seq(Times) /\ total = Len(seen) /\ DOMAIN seen = {}
  OBVIOUS
<1>2. counts \in [0..Buckets - 1 -> Nat] /\ \A i \in 0..Buckets - 1 : counts[i] = 0
  BY DEF NoCounts
<1>3. \A i \in 0..Buckets - 1 : InBucket(i) = {}
  BY <1>1 DEF InBucket
<1>4. Cardinality({}) = 0
  BY FS_EmptySet
<1> QED  BY <1>1, <1>2, <1>3, <1>4 DEF HInv

LEMMA AddKeeps ==
    ASSUME HInv, Add
    PROVE  HInv'
<1>1. PICK ns \in Times : counts' = [counts EXCEPT ![Index(ns)] = @ + 1] /\ seen' = Append(seen, ns)
  BY DEF Add
<1> DEFINE l == Len(seen)
<1>2. ns \in Nat /\ l \in Nat /\ seen \in Seq(Times)
  BY HistogramConstants DEF HInv
<1>3. seen' \in Seq(Times) /\ Len(seen') = l + 1 /\ DOMAIN seen' = 1..l + 1 /\ DOMAIN seen = 1..l
      /\ seen'[l + 1] = ns /\ \A n \in 1..l : seen'[n] = seen[n]
  BY <1>1, <1>2
<1>4. total' = Len(seen')
  BY <1>3 DEF Add, HInv
<1>5. Index(ns) \in 0..Buckets - 1
  BY <1>2, IndexIn
<1>6. counts' \in [0..Buckets - 1 -> Nat]
  BY <1>1, <1>5 DEF HInv
<1>7. ASSUME NEW i \in 0..Buckets - 1 PROVE counts'[i] = Cardinality(InBucket(i)')
  <2>1. InBucket(i) \in SUBSET (1..l) /\ InBucket(i) \in SUBSET (DOMAIN seen)
    BY <1>3 DEF InBucket
  <2>2. IsFiniteSet(InBucket(i)) /\ Cardinality(InBucket(i)) \in Nat
    BY <2>1, SeenFinite
  <2>3. counts[i] = Cardinality(InBucket(i))
    BY DEF HInv
  <2>4. InBucket(i)' = {n \in 1..l + 1 : Index(seen'[n]) = i}
    BY <1>3 DEF InBucket
  <2>5. InBucket(i) = {n \in 1..l : Index(seen[n]) = i}
    BY <1>3 DEF InBucket
  <2>6. \A n : n \in 1..l + 1 <=> n \in 1..l \/ n = l + 1
    BY <1>2
  <2>7. CASE Index(ns) = i
    <3>1. InBucket(i)' = InBucket(i) \cup {l + 1}
      BY <1>3, <2>4, <2>5, <2>6, <2>7
    <3>2. l + 1 \notin InBucket(i)
      BY <1>2, <2>1
    <3>3. Cardinality(InBucket(i) \cup {l + 1}) = Cardinality(InBucket(i)) + 1
      BY <2>2, <3>2, FS_AddElement
    <3>4. counts'[i] = counts[i] + 1
      BY <1>1, <1>5, <2>7 DEF HInv
    <3> QED  BY <2>3, <3>1, <3>3, <3>4
  <2>8. CASE Index(ns) # i
    <3>1. InBucket(i)' = InBucket(i)
      BY <1>3, <2>4, <2>5, <2>6, <2>8
    <3>2. counts'[i] = counts[i]
      BY <1>1, <1>5, <2>8 DEF HInv
    <3> QED  BY <2>3, <3>1, <3>2
  <2> QED  BY <2>7, <2>8
<1> QED  BY <1>3, <1>4, <1>6, <1>7 DEF HInv

LEMMA HistogramSteps == HistogramSpec => []HInv
<1>1. HistogramInit => HInv
  BY HistogramStart, BucketsAre DEF HistogramInit
<1>2. HInv /\ [HistogramNext]_histogramvars => HInv'
  <2> SUFFICES ASSUME HInv, [HistogramNext]_histogramvars PROVE HInv'
    OBVIOUS
  <2>1. CASE Add
    BY <2>1, AddKeeps
  <2>2. CASE Forget
    <3>1. counts' = NoCounts /\ total' = 0 /\ seen' = <<>>
      BY <2>2 DEF Forget
    <3>2. seen' \in Seq(Times) /\ total' = Len(seen') /\ DOMAIN seen' = {}
      BY <3>1
    <3>3. counts' \in [0..Buckets - 1 -> Nat] /\ \A i \in 0..Buckets - 1 : counts'[i] = 0
      BY <3>1 DEF NoCounts
    <3>4. \A i \in 0..Buckets - 1 : InBucket(i)' = {}
      BY <3>2 DEF InBucket
    <3>5. Cardinality({}) = 0
      BY FS_EmptySet
    <3> QED  BY <3>2, <3>3, <3>4, <3>5 DEF HInv
  <2>3. CASE UNCHANGED histogramvars
    BY <2>3 DEF histogramvars, HInv, InBucket
  <2> QED  BY <2>1, <2>2, <2>3 DEF HistogramNext
<1> QED  BY <1>1, <1>2, PTL DEF HistogramSpec

\* What percentile() has added up before a bucket: the times of those below.
LEMMA HitsAre ==
    ASSUME HInv, NEW share \in Shares
    PROVE  Hits(share) = {i \in 0..Buckets - 1 :
                            Cardinality(BelowBucket(i + 1)) >= Rank(share) /\ counts[i] > 0}
<1> DEFINE c(i) == Cardinality(InBucket(i - 1))
           F == [i \in Nat |-> [x \in Nat |-> x + c(i)]]
           N == Buckets
           Chain(g) == g = [i \in 0..Buckets |-> IF i = 0 THEN 0 ELSE g[i - 1] + counts[i - 1]]
           acc == CHOOSE g : Chain(g)
<1>1. N \in Nat
  BY BucketsAre
<1>2. \A i \in Nat : c(i) \in Nat
  <2> SUFFICES ASSUME NEW i \in Nat PROVE c(i) \in Nat
    OBVIOUS
  <2>1. InBucket(i - 1) \in SUBSET (DOMAIN seen)
    BY DEF InBucket
  <2> QED  BY <2>1, SeenFinite
<1>3. \A i \in 1..N : counts[i - 1] = c(i) /\ i \in Nat /\ i - 1 \in 0..N
  BY <1>1 DEF HInv
<1> HIDE DEF c
<1>4. F \in [Nat -> [Nat -> Nat]]
  BY <1>2
<1>5. Chained(N, Nat, 0, F)
  <2> DEFINE z == 0
  <2>1. z \in Nat
    OBVIOUS
  <2> DEFINE S == Nat
  <2> HIDE DEF z, F, N
  <2>2. Chained(N, Nat, z, F)
    BY <1>1, <1>4, <2>1, StepByStep
  <2> QED  BY <2>2 DEF z
<1>6. PICK g \in [0..N -> Nat] : \A i \in 0..N : g[i] = IF i = 0 THEN 0 ELSE F[i][g[i - 1]]
  <2> HIDE DEF N, F
  <2> QED  BY <1>5 DEF Chained
<1>7. \A i \in 0..N : g[i] = IF i = 0 THEN 0 ELSE g[i - 1] + counts[i - 1]
  <2> SUFFICES ASSUME NEW i \in 0..N, i # 0 PROVE g[i] = g[i - 1] + counts[i - 1]
    BY <1>6
  <2>1. i \in 1..N /\ i - 1 \in 0..N
    BY <1>1
  <2>2. i \in Nat /\ g[i - 1] \in Nat /\ counts[i - 1] = c(i)
    BY <1>3, <2>1
  <2>3. F[i][g[i - 1]] = g[i - 1] + counts[i - 1]
    BY <2>2
  <2> QED  BY <1>6, <2>3
<1>8. Chain(g)
  <2>1. g = [i \in 0..N |-> g[i]]
    OBVIOUS
  <2> QED  BY <1>7, <2>1
<1> HIDE DEF Chain
<1>9. Chain(acc)
  BY <1>8
<1>10. Hits(share) = {i \in 0..Buckets - 1 : acc[i + 1] >= Rank(share) /\ counts[i] > 0}
  BY DEF Hits, acc, Chain
<1> HIDE DEF acc
<1>11. \A i \in 0..N : acc[i] = IF i = 0 THEN 0 ELSE acc[i - 1] + counts[i - 1]
  BY <1>9 DEF Chain
<1> DEFINE T == {i \in 0..N : acc[i] = Cardinality(BelowBucket(i))}
<1>12. 0 \in T
  <2>1. BelowBucket(0) = {}
    <3>1. \A n \in DOMAIN seen : Index(seen[n]) \in Nat
      BY SeenIs
    <3>2. \A n \in DOMAIN seen : ~(Index(seen[n]) < 0)
      <4>1. \A u \in Nat : ~(u < 0)
        OBVIOUS
      <4> QED  BY <3>1, <4>1
    <3> QED  BY <3>2 DEF BelowBucket
  <2>2. 0 \in 0..N
    BY <1>1
  <2>3. acc[0] = 0
    BY <1>11, <2>2
  <2>4. Cardinality(BelowBucket(0)) = 0
    BY <2>1, FS_EmptySet
  <2> QED  BY <2>2, <2>3, <2>4
<1>13. \A i \in 1..N : i - 1 \in T => i \in T
  <2> SUFFICES ASSUME NEW i \in 1..N, acc[i - 1] = Cardinality(BelowBucket(i - 1))
               PROVE  i \in 0..N /\ acc[i] = Cardinality(BelowBucket(i))
    OBVIOUS
  <2> DEFINE A == BelowBucket(i - 1)
             B == InBucket(i - 1)
  <2>1. i \in 0..N /\ i # 0 /\ i \in Nat
    BY <1>1
  <2>2. acc[i] = Cardinality(A) + c(i)
    BY <1>3, <1>11, <2>1
  <2>3. A \in SUBSET (DOMAIN seen) /\ B \in SUBSET (DOMAIN seen)
    BY DEF BelowBucket, InBucket
  <2>4. IsFiniteSet(A) /\ IsFiniteSet(B) /\ Cardinality(A) \in Nat /\ Cardinality(B) \in Nat
    BY <2>3, SeenFinite
  <2>5. \A n \in DOMAIN seen : Index(seen[n]) \in Int
    BY SeenIs
  <2>6. A \cap B = {} /\ BelowBucket(i) = A \cup B
    <3>1. \A u \in Int : (u < i <=> u < i - 1 \/ u = i - 1) /\ ~(u < i - 1 /\ u = i - 1)
      BY <2>1
    <3> QED  BY <2>5, <3>1 DEF BelowBucket, InBucket
  <2> HIDE DEF A, B
  <2>7. Cardinality(A \cup B) = Cardinality(A) + Cardinality(B) - Cardinality(A \cap B)
    BY <2>4, FS_Union
  <2>8. Cardinality(A \cap B) = 0
    BY <2>6, FS_EmptySet
  <2>9. Cardinality(A \cup B) = Cardinality(A) + Cardinality(B)
    BY <2>4, <2>7, <2>8
  <2> QED  BY <2>1, <2>2, <2>6, <2>9 DEF B, c
<1>14. T = 0..N
  <2> HIDE DEF T
  <2>1. T \in SUBSET (0..N)
    BY DEF T
  <2> HIDE DEF N
  <2> QED  BY <1>1, <1>12, <1>13, <2>1, Upward
<1>15. \A i \in 0..Buckets - 1 : acc[i + 1] = Cardinality(BelowBucket(i + 1))
  <2>1. \A i \in 0..Buckets - 1 : i + 1 \in 0..N
    BY <1>1
  <2> HIDE DEF N
  <2> QED  BY <1>14, <2>1
<1> QED  BY <1>10, <1>15

\* percentile() takes the bucket of the time of that rank.
LEMMA TakesItsBucket ==
    ASSUME HInv, NEW share \in Shares, NEW v \in Times, Ranked(v, Rank(share))
    PROVE  Percentile(share) = BucketMid(Index(v))
<1> DEFINE r == Rank(share)
           home == Index(v)
           H == Hits(share)
           Lower == {n \in DOMAIN seen : seen[n] < v}
           UpTo  == {n \in DOMAIN seen : seen[n] <= v}
<1>1. v \in Nat /\ home \in 0..Buckets - 1 /\ Buckets \in Nat
  BY HistogramConstants, IndexIn, BucketsAre
<1>2. \A n \in DOMAIN seen : seen[n] \in Nat /\ Index(seen[n]) \in 0..Buckets - 1
  BY SeenIs
<1>3. r \in Int
  <2>1. share.num \in Nat /\ share.den \in Nat \ {0} /\ total \in Nat
    BY HistogramConstants DEF HInv
  <2> DEFINE a == total * share.num + share.den - 1
             b == share.den
  <2>2. a \in Int /\ b \in Nat \ {0}
    BY <2>1
  <2> HIDE DEF a, b
  <2>3. a \div b \in Int
    BY <2>2, Quotients
  <2> QED  BY <2>3 DEF a, b, Rank
<1>4. PICK m \in DOMAIN seen : seen[m] = v
  BY DEF Ranked
<1>5. Cardinality(Lower) < r /\ r <= Cardinality(UpTo)
  BY DEF Ranked
<1>6. Cardinality(Lower) \in Nat /\ Cardinality(UpTo) \in Nat
  BY SeenFinite
<1>7. \A i : BelowBucket(i) \in SUBSET (DOMAIN seen)
  BY DEF BelowBucket
<1>8. H = {i \in 0..Buckets - 1 : Cardinality(BelowBucket(i + 1)) >= r /\ counts[i] > 0}
  BY HitsAre
<1>9. home \in H
  <2>1. counts[home] > 0
    <3>1. m \in InBucket(home) /\ InBucket(home) \in SUBSET (DOMAIN seen)
      BY <1>4 DEF InBucket
    <3>2. IsFiniteSet(InBucket(home)) /\ Cardinality(InBucket(home)) \in Nat
      BY <3>1, SeenFinite
    <3>3. Cardinality(InBucket(home)) # 0
      BY <3>1, <3>2, FS_EmptySet
    <3>4. counts[home] = Cardinality(InBucket(home))
      BY <1>1 DEF HInv
    <3> QED  BY <3>2, <3>3, <3>4
  <2>2. UpTo \subseteq BelowBucket(home + 1)
    <3> SUFFICES ASSUME NEW n \in UpTo PROVE n \in BelowBucket(home + 1)
      OBVIOUS
    <3>1. n \in DOMAIN seen /\ seen[n] \in Nat /\ seen[n] <= v
      BY <1>2
    <3>2. Index(seen[n]) <= home
      BY <1>1, <3>1, IndexAscends
    <3>3. Index(seen[n]) < home + 1
      BY <1>1, <1>2, <3>1, <3>2
    <3> QED  BY <3>1, <3>3 DEF BelowBucket
  <2>3. IsFiniteSet(BelowBucket(home + 1)) /\ Cardinality(BelowBucket(home + 1)) \in Nat
    BY <1>7, SeenFinite
  <2>4. Cardinality(UpTo) <= Cardinality(BelowBucket(home + 1))
    BY <2>2, <2>3, FS_Subset
  <2>5. Cardinality(BelowBucket(home + 1)) >= r
    BY <1>3, <1>5, <1>6, <2>3, <2>4
  <2> QED  BY <1>1, <1>8, <2>1, <2>5
<1>10. ASSUME NEW j \in H PROVE home <= j
  <2> SUFFICES ASSUME ~(home <= j) PROVE FALSE
    OBVIOUS
  <2>1. j \in 0..Buckets - 1 /\ Cardinality(BelowBucket(j + 1)) >= r
    BY <1>8
  <2>2. BelowBucket(j + 1) \subseteq Lower
    <3> SUFFICES ASSUME NEW n \in BelowBucket(j + 1) PROVE n \in Lower
      OBVIOUS
    <3>1. n \in DOMAIN seen /\ Index(seen[n]) < j + 1
      BY DEF BelowBucket
    <3>2. seen[n] \in Nat /\ Index(seen[n]) \in 0..Buckets - 1
      BY <1>2, <3>1
    <3>3. ~(home <= Index(seen[n]))
      BY <1>1, <2>1, <3>1, <3>2
    <3>4. ~(v <= seen[n])
      BY <1>1, <3>2, <3>3, IndexAscends
    <3> QED  BY <1>1, <3>1, <3>2, <3>4
  <2>3. IsFiniteSet(Lower) /\ Cardinality(BelowBucket(j + 1)) \in Nat
    BY <1>7, SeenFinite
  <2>4. Cardinality(BelowBucket(j + 1)) <= Cardinality(Lower)
    BY <2>2, <2>3, FS_Subset
  <2> QED  BY <1>3, <1>5, <1>6, <2>1, <2>3, <2>4
<1>11. H \subseteq 0..Buckets - 1
  BY <1>8
<1> HIDE DEF H, home
<1>12. (CHOOSE i \in H : \A j \in H : i <= j) = home
  <2>1. ASSUME NEW i \in H, \A j \in H : i <= j PROVE i = home
    BY <1>1, <1>9, <1>10, <1>11, <2>1
  <2>2. \E i \in H : \A j \in H : i <= j
    BY <1>9, <1>10
  <2> DEFINE i0 == CHOOSE i \in H : \A j \in H : i <= j
  <2>3. i0 \in H /\ \A j \in H : i0 <= j
    BY <2>2
  <2> HIDE DEF i0
  <2> QED  BY <2>1, <2>3 DEF i0
<1>13. total # 0
  BY <1>4 DEF HInv
<1> QED  BY <1>9, <1>12, <1>13 DEF Percentile, H, home

THEOREM PercentilesAreClose == HistogramSpec => []PercentilesClose
<1>1. HInv => PercentilesClose
  <2> SUFFICES ASSUME HInv, NEW share \in Shares, NEW v \in Times,
                      Ranked(v, Rank(share)), v < Top
               PROVE  LET said == Percentile(share)
                      IN  2 * Sub * (said - v) <= v /\ 2 * Sub * (v - said) <= v
    BY DEF PercentilesClose
  <2>1. v \in Nat
    BY HistogramConstants
  <2>2. Percentile(share) = BucketMid(Index(v))
    BY TakesItsBucket
  <2>3. 2 * Sub * (BucketMid(Index(v)) - v) <= v /\ 2 * Sub * (v - BucketMid(Index(v))) <= v
    BY <2>1, MiddleClose
  <2> QED  BY <2>2, <2>3
<1> QED  BY <1>1, HistogramSteps, PTL
=============================================================================
