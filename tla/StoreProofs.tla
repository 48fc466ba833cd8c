----------------------------- MODULE StoreProofs -----------------------------
(***************************************************************************)
(* Proofs about Store.tla: names stay distinct through every load and      *)
(* every edit, a change is lost only by a save that failed, the files never*)
(* disagree without a reason, and an instance that follows an orderly exit *)
(* finds what writing and reading leave of what was there; for any number  *)
(* of instances, profiles, names, numbers and faults.                      *)
(***************************************************************************)
EXTENDS Store, FiniteSetTheorems, SequenceTheorems, WellFoundedInduction, TLAPS

-----------------------------------------------------------------------------
\* The inductive invariant.

Profile == [name : Name, num : Int]
Mem     == [profiles : Seq(Profile), active : Name, opt : BOOLEAN, place : Int]
Said    == [active : Name, opt : BOOLEAN, place : Int]
Place   == {"off", "wait", "load", "run", "exit", "logoff", "relaunch"}
File(f) == [has : {"none", "torn", "whole"}, val : IF f = "profiles" THEN Seq(Profile) ELSE Said]
Stage   == [stage : {"no", "open", "write", "move"}, file : Files, ok : BOOLEAN,
            then : {"run", "exit", "logoff", "relaunch"}]

FilesTyped(d) == d = [f \in Files |-> d[f]] /\ \A f \in Files : d[f] \in File(f)

TypeOK ==
  /\ pc \in [Instances -> Place] /\ mem \in [Instances -> Mem]
  /\ {dirty, unsaved, failed} \subseteq [Instances -> BOOLEAN]
  /\ save \in [Instances -> Stage]
  /\ FilesTyped(disk) /\ FilesTyped(tmp)
  /\ kept \in [has : BOOLEAN, val : Mem]

Good(m) ==
  /\ \A j, k \in DOMAIN m.profiles : m.profiles[j].name = m.profiles[k].name => j = k
  /\ Blank \notin NamesOf(m.profiles)
  /\ m.active \in NamesOf(m.profiles)

GoodNames ==
  /\ \A i \in Instances : pc[i] \notin {"off", "wait", "load"} => Good(mem[i])
  /\ kept.has => Good(kept.val)

\* Who is past the wait owns the mutex, unless one did not wait long enough.
Alone == "timeout" \notin slips

Exclusive ==
  /\ owner \in handles \cup {Nobody}
  /\ \A i \in Instances : pc[i] # "off" => i \in handles
  /\ Alone => \A i \in Instances : pc[i] \notin {"off", "wait"} => owner = i

\* How far a save has come, and what it has written by then.
Whole(m, f) == [has |-> "whole", val |-> Content(m, f)]
Second(i)   == Saving(i) /\ save[i].file = "settings"

Written(i)  == /\ save[i].stage = "move" => tmp[save[i].file] = Whole(mem[i], save[i].file)
               /\ Second(i) /\ save[i].ok => disk["profiles"] = Whole(mem[i], "profiles")

SaveGoesOn ==
  /\ \A i \in Instances : Saving(i) => pc[i] = "run"
  /\ Alone => \A i \in Instances : Written(i)
  /\ slips \intersect {"split", "timeout"} = {} => \A i \in Instances : Saving(i) => save[i].ok

Agree ==
  /\ slips \intersect {"edited", "timeout"} = {} => \A f \in Files : disk[f].has # "torn"
  /\ /\ slips \intersect {"edited", "split", "timeout"} = {}
     /\ \A i \in Instances : ~Second(i)
     => disk["settings"].val.active \in NamesOf(disk["profiles"].val)

\* What an orderly exit left lies in the files until an instance runs again.
KeptThere ==
  /\ kept.has /\ Alone
  /\ \A i \in Instances : pc[i] \in {"off", "wait", "load", "exit"}
  => \A f \in Files : disk[f] = Whole(kept.val, f)

IInv == TypeOK /\ GoodNames /\ ChangesKept /\ Exclusive /\ SaveGoesOn /\ Agree /\ KeptThere

-----------------------------------------------------------------------------
\* Numbers.

LEMMA Smallest ==
    ASSUME NEW T \in SUBSET Nat, T # {}
    PROVE  \E x \in T : \A y \in T : x <= y
<1> DEFINE R == {ss \in Nat \X Nat : ss[1] < ss[2]}
<1>1. IsWellFoundedOn(R, Nat)
  BY NatLessThanWellFounded DEF OpToRel
<1>2. \A x, y \in Nat : x < y => <<x, y>> \in R
  OBVIOUS
<1> HIDE DEF R
<1>3. PICK x \in T : \A y \in T : ~(<<y, x>> \in R)
  BY <1>1, WFMin
<1>4. \A y \in T : ~(y < x)
  BY <1>2, <1>3
<1> QED  BY <1>4

LEMMA ClampIs ==
    ASSUME NEW n \in Int
    PROVE  Clamp(n) \in Int /\ Clamp(n) \in Low..High /\ (n \in Low..High => Clamp(n) = n)
  BY DEF Clamp, Low, High, Digit

\* Writing rounds to the written digits, and leaves what is whole as it is.
LEMMA PrintedIs ==
    ASSUME NEW n \in Int
    PROVE  /\ Printed(n) \in Int
           /\ WholeNumber(n) => Printed(n) = n
           /\ WholeNumber(Printed(n))
           /\ n - Printed(n) \in {-1, 0, 1}
  BY DEF Printed, WholeNumber, Digit

\* What is left of a number by writing and reading is not changed by doing so
\* again.
LEMMA SettlesAtOnce ==
    ASSUME NEW n \in Int
    PROVE  LET m == Clamp(Printed(n)) IN m \in Int /\ Clamp(Printed(m)) = m
<1> DEFINE m == Clamp(Printed(n))
<1>1. Printed(n) \in Int /\ WholeNumber(Printed(n))
  BY PrintedIs
<1>2. m \in Low..High /\ m \in Int
  BY <1>1, ClampIs
<1>3. WholeNumber(m)
  BY <1>1 DEF Clamp, WholeNumber, Low, High, Digit
<1> HIDE DEF m
<1>4. Printed(m) = m
  BY <1>2, <1>3, PrintedIs
<1>5. Clamp(m) = m
  BY <1>2, ClampIs
<1> QED  BY <1>2, <1>4, <1>5 DEF m

-----------------------------------------------------------------------------
\* Names.

LEMMA OwnTexts == {"number", "Default", "Browser", "Profile", "New", "copy"} \subseteq Texts
  BY StoreConstants

LEMMA Words ==
    /\ \A t \in Texts : Word(t) \in [text : Texts, n : Nat]
    /\ \A k \in Nat : Number(k) \in [text : Texts, n : Nat]
    /\ \A j, k \in Nat : Number(j) = Number(k) => j = k
<1>1. \A k \in Nat : Number(k).n = k
  BY DEF Number
<1>2. \A j, k \in Nat : Number(j) = Number(k) => j = k
  BY <1>1
<1>3. \A t \in Texts : Word(t) \in [text : Texts, n : Nat]
  BY DEF Word
<1>4. \A k \in Nat : Number(k) \in [text : Texts, n : Nat]
  <2>1. "number" \in Texts
    BY OwnTexts
  <2> QED  BY <2>1 DEF Number
<1> QED  BY <1>2, <1>3, <1>4

LEMMA Named ==
    ASSUME NEW w \in [text : Texts, n : Nat]
    PROVE  <<w>> \in Name /\ <<w>> # Blank
  BY DEF Name, Blank

\* A name with a number behind it is a name of its own.
LEMMA Numbered ==
    ASSUME NEW base \in Name, NEW k \in Nat
    PROVE  /\ Append(base, Number(k)) \in Name
           /\ Append(base, Number(k)) # Blank /\ Append(base, Number(k)) # base
           /\ \A j \in Nat : Append(base, Number(j)) = Append(base, Number(k)) => j = k
<1>1. /\ Append(base, Number(k)) \in Name
      /\ Len(Append(base, Number(k))) = Len(base) + 1 /\ Len(base) \in Nat
  BY Words DEF Name
<1>2. Append(base, Number(k)) # Blank /\ Append(base, Number(k)) # base
  BY <1>1 DEF Blank
<1>3. ASSUME NEW j \in Nat, Append(base, Number(j)) = Append(base, Number(k)) PROVE j = k
  <2>1. Append(base, Number(j))[Len(base) + 1] = Number(j)
        /\ Append(base, Number(k))[Len(base) + 1] = Number(k)
    BY Words, AppendProperties DEF Name
  <2> QED  BY <1>3, <2>1, Words
<1> QED  BY <1>1, <1>2, <1>3

\* uniqueName() makes a name that no profile has, and leaves a name that is free.
LEMMA UniqueNameIs ==
    ASSUME NEW ps \in Seq(Profile), NEW base \in Name
    PROVE  /\ UniqueName(ps, base) \in Name /\ UniqueName(ps, base) \notin NamesOf(ps)
           /\ base # Blank => UniqueName(ps, base) # Blank
           /\ base \notin NamesOf(ps) => UniqueName(ps, base) = base
<1>1. CASE base \notin NamesOf(ps)
  BY <1>1 DEF UniqueName
<1>2. CASE base \in NamesOf(ps)
  <2> DEFINE n == Len(ps)
             free == {k \in 2..n + 1 : Append(base, Number(k)) \notin NamesOf(ps)}
             alias(k) == IF k = 1 THEN base ELSE Append(base, Number(k))
  <2>1. n \in Nat /\ DOMAIN ps = 1..n
    BY LenProperties
  <2>2. UniqueName(ps, base) = Append(base, Number(CHOOSE k \in free : \A j \in free : k <= j))
    BY <1>2 DEF UniqueName
  <2>3. \A j, k \in Nat : alias(j) = alias(k) => j = k
    BY Numbered
  <2>4. free # {}
    <3> SUFFICES ASSUME free = {} PROVE FALSE
      OBVIOUS
    <3>1. \A k \in 1..n + 1 : \E j \in 1..n : ps[j].name = alias(k)
      <4> SUFFICES ASSUME NEW k \in 1..n + 1 PROVE alias(k) \in NamesOf(ps)
        BY <2>1 DEF NamesOf
      <4>1. CASE k = 1
        BY <1>2, <4>1
      <4>2. CASE k \in 2..n + 1
        BY <2>1, <4>2
      <4> QED  BY <2>1, <4>1, <4>2
    <3> DEFINE f == [k \in 1..n + 1 |-> CHOOSE j \in 1..n : ps[j].name = alias(k)]
    <3>2. \A k \in 1..n + 1 : f[k] \in 1..n /\ ps[f[k]].name = alias(k)
      <4> HIDE DEF alias, n
      <4> QED  BY <3>1
    <3>3. f \in [1..n + 1 -> 1..n]
      BY <3>2
    <3>4. /\ IsFiniteSet(1..n) /\ IsFiniteSet(1..n + 1)
          /\ Cardinality(1..n) = n /\ Cardinality(1..n + 1) = n + 1
      <4> HIDE DEF n
      <4>1. n \in Int /\ 1 \in Int /\ n + 1 \in Int
        BY <2>1
      <4> QED  BY <2>1, <4>1, FS_Interval
    <3> HIDE DEF f, n, alias
    <3>5. PICK x, y \in 1..n + 1 : x # y /\ f[x] = f[y]
      <4> DEFINE S == 1..n + 1
                 T == 1..n
      <4>1. IsFiniteSet(S) /\ IsFiniteSet(T) /\ Cardinality(T) < Cardinality(S)
        BY <2>1, <3>4
      <4>2. f \in [S -> T]
        BY <3>3
      <4> HIDE DEF S, T
      <4>3. \E x, y \in S : x # y /\ f[x] = f[y]
        BY <4>1, <4>2, FS_PigeonHole
      <4> QED  BY <4>3 DEF S
    <3>6. alias(x) = alias(y)
      BY <3>2, <3>5
    <3> QED  BY <2>1, <2>3, <3>5, <3>6
  <2>5. PICK k \in free : UniqueName(ps, base) = Append(base, Number(k))
    <3>1. free \in SUBSET Nat
      BY <2>1
    <3> HIDE DEF free
    <3>2. \E k \in free : \A j \in free : k <= j
      BY <2>4, <3>1, Smallest
    <3> QED  BY <2>2, <3>2
  <2> QED  BY <1>2, <2>1, <2>5, Numbered
<1> QED  BY <1>1, <1>2

\* The repair of the names up to the k-th.
Apart(ps, k) == /\ \A a, b \in 1..k : ps[a].name = ps[b].name => a = b
                /\ \A a \in 1..k : ps[a].name # Blank

LEMMA NameChanged ==
    ASSUME NEW ps \in Seq(Profile), NEW k \in 1..Len(ps), NEW x \in Name
    PROVE  LET qs == [ps EXCEPT ![k].name = x]
           IN  /\ qs \in Seq(Profile) /\ Len(qs) = Len(ps) /\ qs[k].name = x
               /\ \A a \in 1..Len(ps) : a # k => qs[a] = ps[a]
               /\ x = ps[k].name => qs = ps
<1> DEFINE e == [ps[k] EXCEPT !.name = x]
           qs == [ps EXCEPT ![k].name = x]
<1>1. ps[k] \in Profile /\ e \in Profile /\ e.name = x
  <2>1. ps[k] \in Profile
    BY ElementOfSeq
  <2> QED  BY <2>1 DEF Profile
<1>2. qs = [ps EXCEPT ![k] = e]
  OBVIOUS
<1>3. x = ps[k].name => e = ps[k]
  BY <1>1 DEF Profile
<1> HIDE DEF e, qs
<1>4. /\ qs \in Seq(Profile) /\ Len(qs) = Len(ps)
      /\ \A a \in 1..Len(ps) : qs[a] = IF a = k THEN e ELSE ps[a]
  BY <1>1, <1>2, ExceptSeq
<1>5. x = ps[k].name => qs = ps
  BY <1>3, <1>4, SeqEqual
<1> QED  BY <1>1, <1>4, <1>5 DEF qs

LEMMA ApartGrows ==
    ASSUME NEW ps, NEW qs, NEW k \in Nat \ {0}, Apart(ps, k - 1),
           \A a \in 1..k - 1 : qs[a] = ps[a] /\ qs[a].name # qs[k].name,
           qs[k].name # Blank
    PROVE  Apart(qs, k)
<1>1. \A a \in 1..k : a = k \/ a \in 1..k - 1
  OBVIOUS
<1>2. ASSUME NEW a \in 1..k, NEW b \in 1..k, qs[a].name = qs[b].name PROVE a = b
  <2>1. CASE a = k \/ b = k
    BY <1>1, <1>2, <2>1
  <2>2. CASE a \in 1..k - 1 /\ b \in 1..k - 1
    BY <1>2, <2>2 DEF Apart
  <2> QED  BY <1>1, <2>1, <2>2
<1>3. ASSUME NEW a \in 1..k PROVE qs[a].name # Blank
  BY <1>1 DEF Apart
<1> QED  BY <1>2, <1>3 DEF Apart

LEMMA SettleKeeps ==
    ASSUME NEW ps \in Seq(Profile), NEW k \in 1..Len(ps), Apart(ps, k - 1)
    PROVE  /\ Settle(ps, k) \in Seq(Profile) /\ Len(Settle(ps, k)) = Len(ps)
           /\ Apart(Settle(ps, k), k)
           /\ Apart(ps, k) => Settle(ps, k) = ps
<1> DEFINE x == IF ps[k].name = Blank THEN <<Word("Profile")>> ELSE ps[k].name
           named == [ps EXCEPT ![k].name = x]
           twice == \E j \in 1..k - 1 : named[j].name = named[k].name
           y == UniqueName(named, named[k].name)
           qs == Settle(ps, k)
<1>0. Len(ps) \in Nat /\ k \in Nat /\ ps[k] \in Profile /\ DOMAIN ps = 1..Len(ps)
  BY LenProperties, ElementOfSeq
<1>1. x \in Name /\ x # Blank
  <2>1. <<Word("Profile")>> \in Name /\ <<Word("Profile")>> # Blank
    <3>1. Word("Profile") \in [text : Texts, n : Nat]
      <4>1. "Profile" \in Texts
        BY OwnTexts
      <4> QED  BY <4>1, Words
    <3> QED  BY <3>1, Named
  <2>2. ps[k].name \in Name
    BY <1>0 DEF Profile
  <2> QED  BY <2>1, <2>2
<1>2. qs = IF twice THEN [named EXCEPT ![k].name = y] ELSE named
  BY DEF Settle
<1> HIDE DEF x, qs
<1>3. /\ named \in Seq(Profile) /\ Len(named) = Len(ps) /\ named[k].name = x
      /\ \A a \in 1..Len(ps) : a # k => named[a] = ps[a]
      /\ x = ps[k].name => named = ps
  BY <1>1, NameChanged
<1> HIDE DEF named
<1>4. y \in Name /\ y # Blank /\ y \notin NamesOf(named)
  BY <1>1, <1>3, UniqueNameIs
<1> HIDE DEF y
<1>5. \A a \in 1..k - 1 : named[a].name # y /\ named[a] = ps[a]
  <2> SUFFICES ASSUME NEW a \in 1..k - 1 PROVE named[a].name # y /\ named[a] = ps[a]
    OBVIOUS
  <2>1. a \in 1..Len(ps) /\ a # k
    BY <1>0
  <2>2. a \in DOMAIN named
    BY <1>3, <2>1, LenProperties
  <2> QED  BY <1>3, <1>4, <2>1, <2>2 DEF NamesOf
<1>6. CASE twice
  <2>1. /\ qs \in Seq(Profile) /\ Len(qs) = Len(ps) /\ qs[k].name = y
        /\ \A a \in 1..Len(ps) : a # k => qs[a] = named[a]
    BY <1>2, <1>3, <1>4, <1>6, NameChanged
  <2>2. \A a \in 1..k - 1 : qs[a] = ps[a] /\ qs[a].name # y
    BY <1>0, <1>5, <2>1
  <2>3. Apart(qs, k)
    <3> HIDE DEF twice
    <3>1. \A a \in 1..k - 1 : qs[a] = ps[a] /\ qs[a].name # qs[k].name
      BY <2>1, <2>2
    <3>2. qs[k].name # Blank
      BY <1>4, <2>1
    <3>3. k \in Nat \ {0}
      OBVIOUS
    <3> QED  BY <3>1, <3>2, <3>3, ApartGrows
  <2>4. ~Apart(ps, k)
    <3> SUFFICES ASSUME Apart(ps, k) PROVE FALSE
      OBVIOUS
    <3>1. k \in 1..k
      BY <1>0
    <3>2. x = ps[k].name
      BY <3>1 DEF Apart, x
    <3>3. named = ps
      BY <1>3, <3>2
    <3> QED  BY <1>0, <1>6, <3>1, <3>3 DEF Apart
  <2> QED  BY <2>1, <2>3, <2>4 DEF qs
<1>7. CASE ~twice
  <2>1. qs = named
    BY <1>2, <1>7
  <2>2. Apart(qs, k)
    <3>1. \A a \in 1..k - 1 : qs[a].name # x /\ qs[a] = ps[a]
      BY <1>3, <1>5, <1>7, <2>1
    <3> HIDE DEF twice
    <3>2. k \in Nat \ {0} /\ qs[k].name = x
      BY <1>3, <2>1
    <3> QED  BY <1>1, <3>1, <3>2, ApartGrows
  <2>3. Apart(ps, k) => qs = ps
    <3>1. k \in 1..k
      BY <1>0
    <3>2. Apart(ps, k) => x = ps[k].name
      BY <3>1 DEF Apart, x
    <3> QED  BY <1>3, <2>1, <3>2
  <2> QED  BY <1>3, <2>1, <2>2, <2>3 DEF qs
<1> QED  BY <1>6, <1>7

\* The repair of a list, profile after profile: Settled() takes the last of
\* what Chain() says of each length.
Chain(ps, n, g) == g = [k \in 0..n |-> IF k = 0 THEN ps ELSE Settle(g[k - 1], k)]

LEMMA ChainExists ==
    ASSUME NEW ps, NEW n \in Nat
    PROVE  \E g : Chain(ps, n, g)
<1> DEFINE Bad(m) == ~ \E g : Chain(ps, m, g)
           T == {m \in Nat : Bad(m)}
<1> SUFFICES ASSUME T # {} PROVE FALSE
  OBVIOUS
<1>1. PICK m \in T : \A j \in T : m <= j
  <2> HIDE DEF Bad
  <2> QED  BY Smallest
<1>2. m \in Nat /\ Bad(m) /\ \A j \in Nat : j < m => ~Bad(j)
  <2> HIDE DEF Bad
  <2> QED  BY <1>1
<1>3. m # 0
  <2> DEFINE g == [k \in 0..0 |-> ps]
  <2>1. g = [k \in 0..0 |-> IF k = 0 THEN ps ELSE Settle(g[k - 1], k)]
    OBVIOUS
  <2>2. \E f : f = [k \in 0..0 |-> IF k = 0 THEN ps ELSE Settle(f[k - 1], k)]
    BY <2>1
  <2> QED  BY <1>2, <2>2 DEF Chain
<1>4. PICK g : Chain(ps, m - 1, g)
  <2>1. m - 1 \in Nat /\ m - 1 < m
    BY <1>2, <1>3
  <2> QED  BY <1>2, <2>1
<1> DEFINE h == [k \in 0..m |-> IF k = m THEN Settle(g[m - 1], m) ELSE g[k]]
<1>5. \A k \in 0..m - 1 : g[k] = IF k = 0 THEN ps ELSE Settle(g[k - 1], k)
  BY <1>4 DEF Chain
<1>6. \A k \in 0..m : h[k] = IF k = 0 THEN ps ELSE Settle(h[k - 1], k)
  <2> SUFFICES ASSUME NEW k \in 0..m PROVE h[k] = IF k = 0 THEN ps ELSE Settle(h[k - 1], k)
    OBVIOUS
  <2>1. CASE k = m
    <3>1. m - 1 \in 0..m /\ m - 1 # m
      BY <1>2, <1>3
    <3>2. h[k - 1] = g[m - 1] /\ h[k] = Settle(g[m - 1], m)
      BY <2>1, <3>1
    <3> QED  BY <1>3, <2>1, <3>2
  <2>2. CASE k # m
    <3>1. k \in 0..m - 1 /\ (k # 0 => k - 1 \in 0..m /\ k - 1 # m)
      BY <1>2, <2>2
    <3>2. h[k] = g[k] /\ (k # 0 => h[k - 1] = g[k - 1])
      BY <2>2, <3>1
    <3> QED  BY <1>5, <3>1, <3>2
  <2> QED  BY <2>1, <2>2
<1>7. h = [k \in 0..m |-> h[k]]
  OBVIOUS
<1> HIDE DEF h
<1>8. h = [k \in 0..m |-> IF k = 0 THEN ps ELSE Settle(h[k - 1], k)]
  BY <1>6, <1>7
<1>9. \E f : Chain(ps, m, f)
  BY <1>8 DEF Chain
<1> QED  BY <1>2, <1>9

\* What load() makes of a list: the names are apart, and a list whose names
\* are apart is left as it is.
LEMMA SettledIs ==
    ASSUME NEW ps \in Seq(Profile)
    PROVE  /\ Settled(ps) \in Seq(Profile) /\ Len(Settled(ps)) = Len(ps)
           /\ Apart(Settled(ps), Len(ps))
           /\ Apart(ps, Len(ps)) => Settled(ps) = ps
<1> DEFINE n == Len(ps)
           g == CHOOSE f : Chain(ps, n, f)
           Right(k) == /\ g[k] \in Seq(Profile) /\ Len(g[k]) = n /\ Apart(g[k], k)
                       /\ Apart(ps, n) => g[k] = ps
           T == {k \in 0..n : ~Right(k)}
<1>1. n \in Nat
  BY LenProperties
<1>2. Chain(ps, n, g)
  BY <1>1, ChainExists
<1>3. Settled(ps) = g[n]
  BY DEF Settled, Chain
<1> HIDE DEF g
<1>4. \A k \in 0..n : g[k] = IF k = 0 THEN ps ELSE Settle(g[k - 1], k)
  BY <1>2 DEF Chain
<1>5. T = {}
  <2> SUFFICES ASSUME T # {} PROVE FALSE
    OBVIOUS
  <2>1. PICK k \in T : \A j \in T : k <= j
    <3> HIDE DEF Right
    <3>1. T \in SUBSET Nat
      BY <1>1
    <3> QED  BY <3>1, Smallest
  <2>2. k \in 0..n /\ ~Right(k) /\ \A j \in 0..n : j < k => Right(j)
    <3> HIDE DEF Right
    <3> QED  BY <1>1, <2>1
  <2>3. CASE k = 0
    <3>1. g[0] = ps
      BY <1>1, <1>4
    <3> QED  BY <2>2, <2>3, <3>1 DEF Apart
  <2>4. CASE k # 0
    <3>1. k \in 1..n /\ k - 1 \in 0..n /\ k - 1 < k
      BY <1>1, <2>2, <2>4
    <3>2. Right(k - 1) /\ g[k] = Settle(g[k - 1], k)
      BY <1>4, <2>2, <2>4, <3>1
    <3> DEFINE q == g[k - 1]
    <3>3. q \in Seq(Profile) /\ Len(q) = n /\ Apart(q, k - 1) /\ (Apart(ps, n) => q = ps)
      BY <3>2
    <3> HIDE DEF q
    <3>4. /\ Settle(q, k) \in Seq(Profile) /\ Len(Settle(q, k)) = Len(q)
          /\ Apart(Settle(q, k), k)
          /\ Apart(q, k) => Settle(q, k) = q
      BY <3>1, <3>3, SettleKeeps
    <3>5. Apart(ps, n) => Apart(ps, k)
      BY <1>1, <3>1 DEF Apart
    <3>6. g[k] = Settle(q, k)
      BY <3>2 DEF q
    <3>7. Right(k)
      BY <3>3, <3>4, <3>5, <3>6
    <3> QED  BY <2>2, <3>7
  <2> QED  BY <2>3, <2>4
<1>6. Right(n)
  BY <1>1, <1>5
<1> QED  BY <1>3, <1>6

-----------------------------------------------------------------------------
\* What an instance holds.

LEMMA MemFields ==
    ASSUME NEW m \in Mem
    PROVE  /\ m.profiles \in Seq(Profile) /\ m.active \in Name
           /\ m.opt \in BOOLEAN /\ m.place \in Int
           /\ Len(m.profiles) \in Nat /\ DOMAIN m.profiles = 1..Len(m.profiles)
           /\ \A k \in 1..Len(m.profiles) :
                m.profiles[k] \in Profile /\ m.profiles[k].name \in Name
                /\ m.profiles[k].num \in Int
<1>1. m.profiles \in Seq(Profile) /\ m.active \in Name /\ m.opt \in BOOLEAN /\ m.place \in Int
  BY DEF Mem
<1>2. \A k \in 1..Len(m.profiles) : m.profiles[k] \in Profile
  BY <1>1, ElementOfSeq
<1> QED  BY <1>1, <1>2, LenProperties DEF Profile

LEMMA GoodIs ==
    ASSUME NEW m \in Mem
    PROVE  Good(m) <=> /\ Apart(m.profiles, Len(m.profiles))
                       /\ \E k \in 1..Len(m.profiles) : m.profiles[k].name = m.active
<1>1. DOMAIN m.profiles = 1..Len(m.profiles)
  BY MemFields
<1> QED  BY <1>1 DEF Good, Apart, NamesOf

\* Whether what is held is good is a matter of the names.
LEMMA SameNames ==
    ASSUME NEW m \in Mem, Good(m), NEW q \in Mem, q.active = m.active,
           Len(q.profiles) = Len(m.profiles),
           \A k \in 1..Len(m.profiles) : q.profiles[k].name = m.profiles[k].name
    PROVE  Good(q)
  BY GoodIs DEF Apart

LEMMA NumChanged ==
    ASSUME NEW m \in Mem, Good(m), NEW k \in DOMAIN m.profiles, NEW x \in Int,
           NEW o \in BOOLEAN
    PROVE  /\ [m EXCEPT !.profiles[k].num = x, !.opt = o] \in Mem
           /\ Good([m EXCEPT !.profiles[k].num = x, !.opt = o])
           /\ [m EXCEPT !.profiles[k].num = x] \in Mem
           /\ Good([m EXCEPT !.profiles[k].num = x])
<1> DEFINE ps == m.profiles
           e  == [ps[k] EXCEPT !.num = x]
           qs == [ps EXCEPT ![k] = e]
<1>1. ps \in Seq(Profile) /\ k \in 1..Len(ps) /\ ps[k] \in Profile
  BY MemFields
<1>2. e \in Profile /\ e.name = ps[k].name
  BY <1>1 DEF Profile
<1> HIDE DEF e
<1>3. /\ qs \in Seq(Profile) /\ Len(qs) = Len(ps)
      /\ \A a \in 1..Len(ps) : qs[a] = IF a = k THEN e ELSE ps[a]
  BY <1>1, <1>2, ExceptSeq
<1>4. \A a \in 1..Len(ps) : qs[a].name = ps[a].name
  BY <1>2, <1>3
<1>5. ASSUME NEW q, q = [m EXCEPT !.profiles = qs] \/ q = [m EXCEPT !.profiles = qs, !.opt = o]
      PROVE  q \in Mem /\ Good(q)
  <2>1. q \in Mem /\ q.active = m.active /\ q.profiles = qs
    BY <1>3, <1>5 DEF Mem
  <2> QED  BY <1>3, <1>4, <2>1, SameNames
<1>6. /\ [m EXCEPT !.profiles[k].num = x] = [m EXCEPT !.profiles = qs]
      /\ [m EXCEPT !.profiles[k].num = x, !.opt = o] = [m EXCEPT !.profiles = qs, !.opt = o]
  BY DEF e
<1> QED  BY <1>5, <1>6

LEMMA ActiveIndexIs ==
    ASSUME NEW m \in Mem, Good(m)
    PROVE  ActiveIndex(m) \in DOMAIN m.profiles
<1> DEFINE found == {k \in DOMAIN m.profiles : m.profiles[k].name = m.active}
<1>1. found # {} /\ found \in SUBSET Nat
  BY MemFields DEF Good, NamesOf
<1>2. \E k \in found : \A j \in found : k <= j
  <2> HIDE DEF found
  <2> QED  BY <1>1, Smallest
<1>3. (CHOOSE k \in found : \A j \in found : k <= j) \in found
  <2> HIDE DEF found
  <2> QED  BY <1>2
<1>4. ActiveIndex(m) = CHOOSE k \in found : \A j \in found : k <= j
  BY <1>1 DEF ActiveIndex
<1> QED  BY <1>3, <1>4

LEMMA SettingChanged ==
    ASSUME NEW m \in Mem, Good(m), NEW o \in BOOLEAN, NEW n \in NamesOf(m.profiles)
    PROVE  /\ [m EXCEPT !.opt = o] \in Mem /\ Good([m EXCEPT !.opt = o])
           /\ [m EXCEPT !.active = n] \in Mem /\ Good([m EXCEPT !.active = n])
<1>1. n \in Name
  BY MemFields DEF NamesOf
<1>2. [m EXCEPT !.opt = o] \in Mem /\ [m EXCEPT !.active = n] \in Mem
  BY <1>1 DEF Mem
<1>3. /\ [m EXCEPT !.opt = o].profiles = m.profiles /\ [m EXCEPT !.opt = o].active = m.active
      /\ [m EXCEPT !.active = n].profiles = m.profiles /\ [m EXCEPT !.active = n].active = n
  BY DEF Mem
<1> QED  BY <1>2, <1>3 DEF Good

LEMMA PlaceChanged ==
    ASSUME NEW m \in Mem, Good(m), NEW n \in Int
    PROVE  [m EXCEPT !.place = n] \in Mem /\ Good([m EXCEPT !.place = n])
<1>1. /\ [m EXCEPT !.place = n] \in Mem
      /\ [m EXCEPT !.place = n].profiles = m.profiles /\ [m EXCEPT !.place = n].active = m.active
  BY DEF Mem
<1> QED  BY <1>1 DEF Good

\* A profile behind the others, under a name of its own.
LEMMA Appended ==
    ASSUME NEW m \in Mem, Good(m), NEW p \in Profile,
           p.name \notin NamesOf(m.profiles), p.name # Blank
    PROVE  LET q == [m EXCEPT !.profiles = Append(m.profiles, p)]
           IN  q \in Mem /\ Good(q)
<1> DEFINE ps == m.profiles
           qs == Append(ps, p)
           q  == [m EXCEPT !.profiles = qs]
<1>1. /\ ps \in Seq(Profile) /\ Len(ps) \in Nat /\ DOMAIN ps = 1..Len(ps)
  BY MemFields
<1>2. /\ qs \in Seq(Profile) /\ Len(qs) = Len(ps) + 1
      /\ \A a \in 1..Len(ps) : qs[a] = ps[a]
      /\ qs[Len(ps) + 1] = p
  BY <1>1, AppendProperties
<1> HIDE DEF qs
<1>3. q \in Mem /\ q.profiles = qs /\ q.active = m.active
  BY <1>2 DEF Mem
<1>4. \A a \in 1..Len(ps) : ps[a].name # p.name
  BY <1>1 DEF NamesOf
<1>5. Apart(ps, Len(ps)) /\ \E k \in 1..Len(ps) : ps[k].name = m.active
  BY GoodIs
<1>6. Apart(qs, Len(ps) + 1)
  <2> DEFINE n == Len(ps)
  <2>1. /\ n \in Nat /\ \A a \in 1..n : qs[a] = ps[a] /\ ps[a].name # p.name /\ ps[a].name # Blank
        /\ qs[n + 1] = p /\ p.name # Blank
        /\ \A a, b \in 1..n : ps[a].name = ps[b].name => a = b
    BY <1>1, <1>2, <1>4, <1>5 DEF Apart
  <2> HIDE DEF n
  <2>2. \A a \in 1..n + 1 : a \in 1..n \/ a = n + 1
    BY <2>1
  <2>3. \A a \in 1..n + 1 : qs[a].name # Blank
    BY <2>1, <2>2
  <2>4. \A a, b \in 1..n + 1 : qs[a].name = qs[b].name => a = b
    <3> SUFFICES ASSUME NEW a \in 1..n + 1, NEW b \in 1..n + 1, qs[a].name = qs[b].name
                 PROVE  a = b
      OBVIOUS
    <3>1. CASE a \in 1..n /\ b \in 1..n
      BY <2>1, <3>1
    <3>2. CASE a = n + 1 /\ b \in 1..n
      BY <2>1, <3>2
    <3>3. CASE a \in 1..n /\ b = n + 1
      BY <2>1, <3>3
    <3>4. CASE a = n + 1 /\ b = n + 1
      BY <3>4
    <3> QED  BY <2>2, <3>1, <3>2, <3>3, <3>4
  <2>5. Apart(qs, n + 1)
    BY <2>3, <2>4 DEF Apart
  <2> QED  BY <2>5 DEF n
<1>7. \E k \in 1..Len(ps) + 1 : qs[k].name = m.active
  BY <1>1, <1>2, <1>5
<1>8. Good(q)
  BY <1>2, <1>3, <1>6, <1>7, GoodIs
<1> QED  BY <1>3, <1>8 DEF qs

LEMMA Renamed ==
    ASSUME NEW m \in Mem, Good(m), NEW k \in DOMAIN m.profiles, NEW x \in Name, x # Blank,
           x \notin NamesOf(m.profiles)
    PROVE  LET q == [m EXCEPT !.profiles[k].name = x,
                              !.active = IF @ = m.profiles[k].name THEN x ELSE @]
           IN  q \in Mem /\ Good(q)
<1> DEFINE ps  == m.profiles
           qs  == [ps EXCEPT ![k].name = x]
           act == IF m.active = ps[k].name THEN x ELSE m.active
           q   == [m EXCEPT !.profiles = qs, !.active = act]
<1>1. /\ ps \in Seq(Profile) /\ Len(ps) \in Nat /\ k \in 1..Len(ps) /\ DOMAIN ps = 1..Len(ps)
      /\ m.active \in Name
  BY MemFields
<1>2. /\ qs \in Seq(Profile) /\ Len(qs) = Len(ps) /\ qs[k].name = x
      /\ \A a \in 1..Len(ps) : a # k => qs[a] = ps[a]
  BY <1>1, NameChanged
<1>3. act \in Name
  BY <1>1
<1>4. /\ Apart(ps, Len(ps)) /\ \E a \in 1..Len(ps) : ps[a].name = m.active
  BY GoodIs
<1>5. \A a \in 1..Len(ps) : ps[a].name # x
  BY <1>1 DEF NamesOf
<1> HIDE DEF qs
<1>6. \E a \in 1..Len(ps) : qs[a].name = act
  BY <1>1, <1>2, <1>4
<1>7. Apart(qs, Len(ps))
  BY <1>1, <1>2, <1>4, <1>5 DEF Apart
<1> HIDE DEF act
<1>8. q \in Mem /\ q.profiles = qs /\ q.active = act
  BY <1>2, <1>3 DEF Mem
<1>9. Good(q)
  BY <1>2, <1>6, <1>7, <1>8, GoodIs
<1>10. [m EXCEPT !.profiles[k].name = x, !.active = IF @ = m.profiles[k].name THEN x ELSE @] = q
  BY <1>8 DEF qs, act, Mem
<1> QED  BY <1>8, <1>9, <1>10

LEMMA Deleted ==
    ASSUME NEW m \in Mem, Good(m), NEW k \in DOMAIN m.profiles, Len(m.profiles) > 1
    PROVE  LET rest == SubSeq(m.profiles, 1, k - 1) \o SubSeq(m.profiles, k + 1, Len(m.profiles))
               q    == [m EXCEPT !.profiles = rest,
                          !.active = IF @ = m.profiles[k].name THEN rest[1].name ELSE @]
           IN  q \in Mem /\ Good(q)
<1> DEFINE ps   == m.profiles
           n    == Len(ps)
           s1   == SubSeq(ps, 1, k - 1)
           s2   == SubSeq(ps, k + 1, n)
           rest == s1 \o s2
           act  == IF m.active = ps[k].name THEN rest[1].name ELSE m.active
           q    == [m EXCEPT !.profiles = rest, !.active = act]
<1>1. /\ ps \in Seq(Profile) /\ n \in Nat /\ k \in 1..n /\ m.active \in Name /\ n > 1
      /\ \A a \in 1..n : ps[a] \in Profile
  BY MemFields
<1>2. s1 \in Seq(Profile) /\ Len(s1) = k - 1 /\ \A a \in 1..k - 1 : s1[a] = ps[a]
  <2>1. 1 \in Int /\ k - 1 \in Int /\ \A a \in 1..k - 1 : ps[a] \in Profile
    BY <1>1
  <2>2. /\ s1 \in Seq(Profile) /\ Len(s1) = IF 1 <= k - 1 THEN k - 1 - 1 + 1 ELSE 0
        /\ \A a \in 1..k - 1 - 1 + 1 : s1[a] = ps[1 + a - 1]
    BY <2>1, SubSeqProperties
  <2> QED  BY <1>1, <2>2
<1>3. s2 \in Seq(Profile) /\ Len(s2) = n - k /\ \A a \in 1..n - k : s2[a] = ps[k + a]
  <2> DEFINE l == k + 1
  <2>1. l \in Int /\ n \in Int /\ \A a \in l..n : ps[a] \in Profile
    BY <1>1
  <2>2. s2 = SubSeq(ps, l, n)
    OBVIOUS
  <2>3. l = k + 1
    OBVIOUS
  <2> HIDE DEF l, n, ps, s2
  <2>4. /\ s2 \in Seq(Profile) /\ Len(s2) = IF l <= n THEN n - l + 1 ELSE 0
        /\ \A a \in 1..n - l + 1 : s2[a] = ps[l + a - 1]
    BY <2>1, <2>2, SubSeqProperties
  <2>5. \A a \in 1..n - k : a \in 1..n - l + 1 /\ l + a - 1 = k + a
    <3>1. k \in Int /\ n \in Int
      BY <1>1
    <3> QED  BY <2>3, <3>1
  <2>6. \A a \in 1..n - k : s2[a] = ps[k + a]
    BY <2>4, <2>5
  <2> QED  BY <1>1, <2>3, <2>4, <2>6
<1> HIDE DEF s1, s2
<1>4. /\ rest \in Seq(Profile) /\ Len(rest) = n - 1
      /\ \A a \in 1..n - 1 : rest[a] = IF a < k THEN ps[a] ELSE ps[a + 1]
  <2>1. /\ rest \in Seq(Profile) /\ Len(rest) = Len(s1) + Len(s2)
        /\ \A a \in 1..Len(s1) + Len(s2) : rest[a] = IF a <= Len(s1) THEN s1[a] ELSE s2[a - Len(s1)]
    BY <1>2, <1>3, ConcatProperties
  <2>2. Len(s1) + Len(s2) = n - 1
    BY <1>1, <1>2, <1>3
  <2>3. ASSUME NEW a \in 1..n - 1 PROVE rest[a] = IF a < k THEN ps[a] ELSE ps[a + 1]
    <3>1. CASE a < k
      <4>1. a \in 1..k - 1
        BY <1>1, <3>1
      <4> QED  BY <1>2, <2>1, <2>2, <3>1, <4>1
    <3>2. CASE ~(a < k)
      <4>1. a - (k - 1) \in 1..n - k /\ k + (a - (k - 1)) = a + 1 /\ ~(a <= k - 1)
        BY <1>1, <3>2
      <4>2. rest[a] = s2[a - (k - 1)]
        BY <1>2, <2>1, <2>2, <4>1
      <4> QED  BY <1>3, <3>2, <4>1, <4>2
    <3> QED  BY <3>1, <3>2
  <2> QED  BY <2>1, <2>2, <2>3
<1> HIDE DEF rest
<1>5. /\ Apart(ps, n) /\ \E a \in 1..n : ps[a].name = m.active
  BY GoodIs
<1>6. Apart(rest, n - 1)
  <2> DEFINE was(a) == IF a < k THEN a ELSE a + 1
  <2>1. \A a \in 1..n - 1 : was(a) \in 1..n /\ rest[a] = ps[was(a)]
    BY <1>1, <1>4
  <2>2. \A a, b \in 1..n - 1 : was(a) = was(b) => a = b
    BY <1>1
  <2> HIDE DEF was, n, ps
  <2>3. \A a \in 1..n - 1 : rest[a].name # Blank
    BY <1>5, <2>1 DEF Apart
  <2>4. ASSUME NEW a \in 1..n - 1, NEW b \in 1..n - 1, rest[a].name = rest[b].name
        PROVE  a = b
    <3>1. was(a) = was(b)
      BY <1>5, <2>1, <2>4 DEF Apart
    <3> QED  BY <2>2, <3>1
  <2> QED  BY <2>3, <2>4 DEF Apart
<1>7. 1 \in 1..n - 1 /\ rest[1] \in Profile
  BY <1>1, <1>4
<1>8. \E a \in 1..n - 1 : rest[a].name = act
  <2>1. CASE m.active = ps[k].name
    BY <1>7, <2>1
  <2>2. CASE m.active # ps[k].name
    <3>1. PICK a \in 1..n : ps[a].name = m.active /\ a # k
      BY <1>5, <2>2
    <3>2. CASE a < k
      BY <1>1, <1>4, <2>2, <3>1, <3>2
    <3>3. CASE a > k
      <4>1. a - 1 \in 1..n - 1 /\ ~(a - 1 < k) /\ a - 1 + 1 = a
        BY <1>1, <3>3
      <4> QED  BY <1>4, <2>2, <3>1, <4>1
    <3> QED  BY <1>1, <3>1, <3>2, <3>3
  <2> QED  BY <2>1, <2>2
<1>9. act \in Name
  BY <1>1, <1>7 DEF Profile
<1> HIDE DEF act, n
<1>10. q \in Mem /\ q.profiles = rest /\ q.active = act
  BY <1>4, <1>9 DEF Mem
<1>11. Good(q)
  BY <1>4, <1>6, <1>8, <1>10, GoodIs
<1> QED  BY <1>10, <1>11 DEF act, rest, s1, s2, n

LEMMA DefaultsGood ==
    /\ Defaults \in Seq(Profile) /\ Len(Defaults) = 2 /\ Apart(Defaults, 2)
    /\ Defaults[1].name \in Name
    /\ Fresh \in Mem /\ Good(Fresh)
    /\ \A m \in Mem : LET q == [m EXCEPT !.profiles = Defaults, !.active = Defaults[1].name]
                      IN  q \in Mem /\ Good(q)
<1> DEFINE p1 == NewProfile(<<Word("Default")>>)
           p2 == NewProfile(<<Word("Browser")>>)
<1>1. /\ Word("Default") \in [text : Texts, n : Nat] /\ Word("Browser") \in [text : Texts, n : Nat]
  <2>1. "Default" \in Texts /\ "Browser" \in Texts
    BY OwnTexts
  <2> QED  BY <2>1, Words
<1>2. /\ <<Word("Default")>> \in Name /\ <<Word("Default")>> # Blank
      /\ <<Word("Browser")>> \in Name /\ <<Word("Browser")>> # Blank
  BY <1>1, Named
<1>3. <<Word("Default")>> # <<Word("Browser")>>
  <2>1. Word("Default").text = "Default" /\ Word("Browser").text = "Browser"
    BY DEF Word
  <2> QED  BY <2>1
<1>4. /\ p1 \in Profile /\ p1.name = <<Word("Default")>>
      /\ p2 \in Profile /\ p2.name = <<Word("Browser")>>
  BY <1>2 DEF NewProfile, Profile, Low, Digit
<1>5. Defaults = <<p1, p2>>
  BY DEF Defaults
<1> HIDE DEF p1, p2
<1>6. Defaults \in Seq(Profile) /\ Len(Defaults) = 2 /\ Defaults[1] = p1 /\ Defaults[2] = p2
  BY <1>4, <1>5
<1>7. Apart(Defaults, 2)
  <2>1. 1..2 = {1, 2}
    OBVIOUS
  <2> QED  BY <1>2, <1>3, <1>4, <1>6, <2>1 DEF Apart
<1>8. Defaults[1].name \in Name
  BY <1>2, <1>4, <1>6
<1>9. ASSUME NEW q \in Mem, q.profiles = Defaults, q.active = Defaults[1].name PROVE Good(q)
  <2>1. 1 \in 1..2
    OBVIOUS
  <2> QED  BY <1>6, <1>7, <1>9, <2>1, GoodIs
<1>10. Fresh \in Mem /\ Fresh.profiles = Defaults /\ Fresh.active = Defaults[1].name
  BY <1>6, <1>8 DEF Fresh, Mem, Low, Digit
<1>11. \A m \in Mem : LET q == [m EXCEPT !.profiles = Defaults, !.active = Defaults[1].name]
                      IN  q \in Mem /\ q.profiles = Defaults /\ q.active = Defaults[1].name
  BY <1>6, <1>8 DEF Mem
<1> QED  BY <1>6, <1>7, <1>8, <1>9, <1>10, <1>11

LEMMA NothingTyped ==
    NothingKept \in [has : BOOLEAN, val : Mem] /\ NothingKept.has = FALSE
  BY DefaultsGood DEF NothingKept

-----------------------------------------------------------------------------
\* What load() makes of the files.

\* Writing and reading a list leave the names and their order.
LEMMA JsonKeepsNames ==
    ASSUME NEW ps \in Seq(Profile)
    PROVE  LET w == [k \in DOMAIN ps |-> ToJson(ps[k])]
               q == [k \in DOMAIN ps |-> FromJson(ToJson(ps[k]))]
           IN  /\ w \in Seq(Profile) /\ NamesOf(w) = NamesOf(ps)
               /\ [k \in DOMAIN w |-> FromJson(w[k])] = q
               /\ q \in Seq(Profile) /\ Len(q) = Len(ps)
               /\ \A k \in 1..Len(ps) : q[k].name = ps[k].name
<1> DEFINE n == Len(ps)
           w == [k \in 1..n |-> ToJson(ps[k])]
           q == [k \in 1..n |-> FromJson(ToJson(ps[k]))]
<1>1. n \in Nat /\ DOMAIN ps = 1..n /\ \A k \in 1..n : ps[k] \in Profile
  BY ElementOfSeq, LenProperties
<1>2. \A k \in 1..n : ToJson(ps[k]) \in Profile /\ ToJson(ps[k]).name = ps[k].name
  BY <1>1, PrintedIs DEF ToJson, Profile
<1>3. \A k \in 1..n : /\ FromJson(ToJson(ps[k])) \in Profile
                      /\ FromJson(ToJson(ps[k])).name = ps[k].name
  BY <1>2, ClampIs DEF FromJson, Profile
<1> HIDE DEF n
<1>4. /\ w \in Seq(Profile) /\ Len(w) = n /\ DOMAIN w = 1..n
      /\ q \in Seq(Profile) /\ Len(q) = n
  BY <1>1, <1>2, <1>3
<1>5. /\ \A k \in 1..n : w[k] = ToJson(ps[k]) /\ q[k] = FromJson(ToJson(ps[k]))
      /\ [k \in DOMAIN w |-> FromJson(w[k])] = q
  BY <1>4
<1>6. NamesOf(w) = NamesOf(ps)
  BY <1>1, <1>2, <1>4, <1>5 DEF NamesOf
<1> QED  BY <1>1, <1>3, <1>4, <1>5, <1>6 DEF n

LEMMA LoadedGood ==
    ASSUME FilesTyped(disk), NEW R \in SUBSET Files
    PROVE  Loaded(R) \in Mem /\ Good(Loaded(R))
<1> DEFINE d  == disk["profiles"].val
           s  == IF "settings" \in R /\ disk["settings"].has = "whole"
                 THEN disk["settings"].val ELSE Settings(Fresh)
           ps == IF "profiles" \in R /\ disk["profiles"].has = "whole"
                 THEN [k \in DOMAIN d |-> FromJson(d[k])] ELSE <<>>
           qs == IF ps = <<>> THEN Defaults ELSE ps
           named == Settled(qs)
           m  == [profiles |-> named, opt |-> s.opt, place |-> Clamp(s.place),
                  active |-> IF s.active \in NamesOf(named) THEN s.active ELSE named[1].name]
<1>1. d \in Seq(Profile) /\ disk["settings"].val \in Said
  <2>1. /\ "profiles" \in Files /\ "settings" \in Files /\ "settings" # "profiles"
        /\ disk["profiles"] \in File("profiles") /\ disk["settings"] \in File("settings")
    BY DEF FilesTyped, Files
  <2> QED  BY <2>1 DEF File
<1>2. [k \in DOMAIN d |-> FromJson(d[k])] \in Seq(Profile)
  <2> DEFINE n == Len(d)
             g(k) == FromJson(d[k])
  <2>1. n \in Nat /\ DOMAIN d = 1..n /\ \A k \in 1..n : d[k] \in Profile
    BY <1>1, ElementOfSeq, LenProperties
  <2>2. \A k \in 1..n : g(k) \in Profile
    BY <2>1, ClampIs DEF FromJson, Profile
  <2> HIDE DEF n, g
  <2>3. [k \in 1..n |-> g(k)] \in Seq(Profile)
    BY <2>1, <2>2
  <2> QED  BY <2>1, <2>3 DEF g
<1>3. qs \in Seq(Profile) /\ qs # <<>>
  <2>1. Defaults \in Seq(Profile) /\ Defaults # <<>>
    <3>1. Len(<<>>) = 0
      OBVIOUS
    <3>2. Defaults \in Seq(Profile) /\ Len(Defaults) = 2
      BY DefaultsGood
    <3> QED  BY <3>1, <3>2
  <2>2. ps \in Seq(Profile)
    BY <1>2, EmptySeq
  <2> HIDE DEF ps
  <2> QED  BY <2>1, <2>2
<1>4. s \in Said
  BY <1>1, DefaultsGood DEF Settings, Mem, Said
<1> HIDE DEF qs, s
<1>5. /\ named \in Seq(Profile) /\ Len(named) \in Nat /\ Len(named) # 0
      /\ Apart(named, Len(named))
  BY <1>3, SettledIs, LenProperties, EmptySeq
<1> HIDE DEF named
<1>6. /\ DOMAIN named = 1..Len(named) /\ 1 \in 1..Len(named)
      /\ \A k \in 1..Len(named) : named[k] \in Profile
  BY <1>5, LenProperties, ElementOfSeq
<1>7. s.active \in Name /\ s.opt \in BOOLEAN /\ Clamp(s.place) \in Int /\ named[1].name \in Name
  BY <1>4, <1>6, ClampIs DEF Said, Profile
<1>8. m \in Mem /\ m.profiles = named /\ m.active \in NamesOf(named)
  BY <1>5, <1>6, <1>7 DEF Mem, NamesOf
<1>9. Loaded(R) = m
  BY DEF Loaded, named, qs, s
<1> HIDE DEF m
<1>10. Good(m)
  BY <1>5, <1>6, <1>8 DEF Good, Apart, NamesOf
<1> QED  BY <1>8, <1>9, <1>10

\* What an instance has written is read back but for digits and ranges.
LEMMA LoadedKept ==
    ASSUME NEW m \in Mem, Good(m), \A f \in Files : disk[f] = Whole(m, f)
    PROVE  Loaded(Files) = AsRead(m)
<1> DEFINE ps == m.profiles
           w  == [k \in DOMAIN ps |-> ToJson(ps[k])]
           q  == [k \in DOMAIN ps |-> FromJson(ToJson(ps[k]))]
<1>1. ps \in Seq(Profile) /\ DOMAIN ps = 1..Len(ps) /\ Len(ps) \in Nat
  BY MemFields
<1>2. /\ disk["profiles"].has = "whole" /\ disk["profiles"].val = w
      /\ disk["settings"].has = "whole" /\ disk["settings"].val = Settings(m)
  BY DEF Files, Whole, Content
<1>3. /\ [k \in DOMAIN w |-> FromJson(w[k])] = q
      /\ q \in Seq(Profile) /\ Len(q) = Len(ps)
      /\ \A k \in 1..Len(ps) : q[k].name = ps[k].name
  BY <1>1, JsonKeepsNames
<1>8. AsRead(m) = [profiles |-> q, opt |-> m.opt, place |-> Clamp(m.place), active |-> m.active]
  <2>1. AsRead(m) = [m EXCEPT !.profiles = q, !.place = Clamp(m.place)]
    BY DEF AsRead
  <2> HIDE DEF q
  <2> QED  BY <2>1 DEF Mem
<1>4. Apart(ps, Len(ps)) /\ m.active \in NamesOf(ps) /\ Len(ps) # 0
  BY <1>1, GoodIs DEF Good
<1> HIDE DEF q, w, ps
<1>5. Settled(q) = q /\ q # <<>>
  <2>1. Apart(q, Len(ps))
    BY <1>3, <1>4 DEF Apart
  <2>2. Len(<<>>) = 0
    OBVIOUS
  <2> QED  BY <1>3, <1>4, <2>1, <2>2, SettledIs
<1>6. m.active \in NamesOf(q)
  <2>1. DOMAIN q = 1..Len(ps)
    BY <1>3, LenProperties
  <2> QED  BY <1>1, <1>3, <1>4, <2>1 DEF NamesOf
<1>7. Loaded(Files) = [profiles |-> q, opt |-> m.opt, place |-> Clamp(m.place), active |-> m.active]
  <2> DEFINE s  == IF "settings" \in Files /\ disk["settings"].has = "whole"
                   THEN disk["settings"].val ELSE Settings(Fresh)
             rs == IF "profiles" \in Files /\ disk["profiles"].has = "whole"
                   THEN [k \in DOMAIN disk["profiles"].val |-> FromJson(disk["profiles"].val[k])]
                   ELSE <<>>
             named == Settled(IF rs = <<>> THEN Defaults ELSE rs)
  <2>1. s = Settings(m)
    BY <1>2 DEF Files
  <2>2. rs = q
    BY <1>2, <1>3 DEF Files
  <2> HIDE DEF rs
  <2>3. named = q
    BY <1>5, <2>2
  <2> HIDE DEF named
  <2>4. s.opt = m.opt /\ s.place = m.place /\ s.active = m.active
    BY <2>1 DEF Settings
  <2> HIDE DEF s
  <2>5. Loaded(Files) = [profiles |-> named, opt |-> s.opt, place |-> Clamp(s.place),
          active |-> IF s.active \in NamesOf(named) THEN s.active ELSE named[1].name]
    BY DEF Loaded, named, rs, s
  <2> QED  BY <1>6, <2>3, <2>4, <2>5
<1> QED  BY <1>7, <1>8

\* What reading and writing take away they take away at once: written and read
\* again, what was read stays as it is.
THEOREM ReadIsStable ==
    ASSUME NEW m \in Mem
    PROVE  AsRead(AsRead(m)) = AsRead(m)
<1> DEFINE ps == m.profiles
           q  == [k \in DOMAIN ps |-> FromJson(ToJson(ps[k]))]
           r  == [k \in DOMAIN q |-> FromJson(ToJson(q[k]))]
<1>1. /\ AsRead(m) = [m EXCEPT !.profiles = q, !.place = Clamp(m.place)]
      /\ AsRead(m).profiles = q /\ AsRead(m).place = Clamp(m.place)
  BY DEF AsRead, Mem
<1>2. AsRead(AsRead(m)) = [AsRead(m) EXCEPT !.profiles = r, !.place = Clamp(Clamp(m.place))]
  BY <1>1 DEF AsRead
<1>3. \A k \in DOMAIN ps : FromJson(ToJson(q[k])) = q[k]
  <2>1. ASSUME NEW p \in Profile PROVE FromJson(ToJson(FromJson(ToJson(p)))) = FromJson(ToJson(p))
    BY SettlesAtOnce DEF FromJson, ToJson, Profile
  <2>2. \A k \in DOMAIN ps : ps[k] \in Profile
    BY MemFields
  <2> QED  BY <2>1, <2>2
<1>4. r = q
  BY <1>3
<1>5. Clamp(Clamp(m.place)) = Clamp(m.place)
  BY MemFields, ClampIs
<1> HIDE DEF r, q, ps
<1>6. [AsRead(m) EXCEPT !.profiles = q, !.place = Clamp(m.place)] = AsRead(m)
  BY <1>1
<1> QED  BY <1>2, <1>4, <1>5, <1>6

-----------------------------------------------------------------------------
\* The edits: each of them is one change to something good.

Edit(i) ==
  \/ EditInputCard(i) \/ EditSpeedCard(i) \/ EditEngineTab(i) \/ EditModeValues(i)
  \/ EditSafety(i) \/ ChangeSettings(i) \/ SelectProfile(i) \/ SelectFromTray(i)
  \/ Rename(i) \/ Duplicate(i) \/ AddProfile(i) \/ DeleteProfile(i) \/ ResetToDefaults(i)

LEMMA EditsGood ==
    ASSUME mem \in [Instances -> Mem], GoodNames, NEW i \in Instances, Edit(i)
    PROVE  \E m \in Mem : Good(m) /\ Change(i, m)
<1> DEFINE m == mem[i]
           ps == m.profiles
<1>1. m \in Mem
  OBVIOUS
<1>2. (\E q : Change(i, q)) => Good(m)
  BY DEF Change, Running, GoodNames
<1>3. ASSUME NEW q, Change(i, q), Good(m) => q \in Mem /\ Good(q)
      PROVE  \E a \in Mem : Good(a) /\ Change(i, a)
  BY <1>2, <1>3
<1> DEFINE Made == \E q : Change(i, q) /\ (Good(m) => q \in Mem /\ Good(q))
<1>4. \A n \in Entered : n \in Int /\ Clamp(n) \in Int
  BY StoreConstants, ClampIs
<1>5. ASSUME NEW x \in Int, Change(i, WithNumber(m, x))
      PROVE  \E a \in Mem : Good(a) /\ Change(i, a)
  <2>1. Good(m) => WithNumber(m, x) \in Mem /\ Good(WithNumber(m, x))
    <3> HIDE DEF m
    <3> QED  BY <1>1, ActiveIndexIs, NumChanged DEF WithNumber
  <2> QED  BY <1>3, <1>5, <2>1
<1>6. CASE EditInputCard(i) \/ EditSpeedCard(i) \/ EditModeValues(i)
  <2>1. PICK n \in Entered : Change(i, WithNumber(m, Clamp(n)))
    BY <1>6 DEF EditInputCard, EditSpeedCard, EditModeValues
  <2> QED  BY <1>4, <1>5, <2>1
<1>15. CASE EditEngineTab(i)
  <2>1. PICK n \in Entered, o \in BOOLEAN :
          Change(i, [WithNumber(m, Clamp(n)) EXCEPT !.opt = o])
    BY <1>15 DEF EditEngineTab
  <2>2. Good(m) => /\ [WithNumber(m, Clamp(n)) EXCEPT !.opt = o] \in Mem
                   /\ Good([WithNumber(m, Clamp(n)) EXCEPT !.opt = o])
    <3> HIDE DEF m
    <3>1. Good(m) => WithNumber(m, Clamp(n)) \in Mem /\ Good(WithNumber(m, Clamp(n)))
      BY <1>1, <1>4, ActiveIndexIs, NumChanged DEF WithNumber
    <3>2. \A q \in Mem : Good(q) => [q EXCEPT !.opt = o] \in Mem /\ Good([q EXCEPT !.opt = o])
      BY SettingChanged DEF Good
    <3> QED  BY <3>1, <3>2
  <2> QED  BY <1>3, <2>1, <2>2
<1>7. CASE EditSafety(i) \/ ChangeSettings(i)
  <2>1. CASE Change(i, [m EXCEPT !.opt = ~@])
    <3>1. Good(m) => [m EXCEPT !.opt = ~@] \in Mem /\ Good([m EXCEPT !.opt = ~@])
      <4> HIDE DEF m
      <4>1. (~m.opt) \in BOOLEAN
        OBVIOUS
      <4>2. Good(m) => m.active \in NamesOf(m.profiles)
        BY DEF Good
      <4> QED  BY <1>1, <4>1, <4>2, SettingChanged
    <3> QED  BY <1>3, <2>1, <3>1
  <2>2. CASE \E n \in Entered : Change(i, WithNumber(m, n))
    BY <1>4, <1>5, <2>2
  <2> QED  BY <1>7, <2>1, <2>2 DEF EditSafety, ChangeSettings
<1>8. CASE SelectProfile(i) \/ SelectFromTray(i)
  <2>1. PICK n \in NamesOf(ps) : Change(i, [m EXCEPT !.active = n])
    BY <1>8 DEF SelectProfile, SelectFromTray, NamesOf
  <2>2. Good(m) => [m EXCEPT !.active = n] \in Mem /\ Good([m EXCEPT !.active = n])
    BY <1>1, SettingChanged
  <2> QED  BY <1>3, <2>1, <2>2
<1>9. ps \in Seq(Profile)
  BY <1>1, MemFields
<1>10. CASE Rename(i)
  <2>1. PICK k \in DOMAIN ps, n \in Typed :
          Change(i, [m EXCEPT !.profiles[k].name = UniqueName(ps, n),
                              !.active = IF @ = ps[k].name THEN UniqueName(ps, n) ELSE @])
    BY <1>10 DEF Rename
  <2> DEFINE x == UniqueName(ps, n)
             q == [m EXCEPT !.profiles[k].name = x, !.active = IF @ = ps[k].name THEN x ELSE @]
  <2>2. x \in Name /\ x \notin NamesOf(ps) /\ x # Blank
    BY <1>9, StoreConstants, UniqueNameIs
  <2>3. Good(m) => q \in Mem /\ Good(q)
    <3> HIDE DEF x, m
    <3> QED  BY <1>1, <2>2, Renamed
  <2> QED  BY <1>3, <2>1, <2>3
<1>11. CASE Duplicate(i)
  <2>1. PICK k \in DOMAIN ps :
          Change(i, [m EXCEPT !.profiles =
            Append(ps, [ps[k] EXCEPT !.name = UniqueName(ps, Append(ps[k].name, Word("copy")))])])
    BY <1>11 DEF Duplicate
  <2> DEFINE base == Append(ps[k].name, Word("copy"))
             x == UniqueName(ps, base)
             p == [ps[k] EXCEPT !.name = x]
  <2>2. ps[k] \in Profile /\ ps[k].name \in Name
    BY <1>1, MemFields
  <2>3. base \in Name /\ base # Blank
    <3>1. Word("copy") \in [text : Texts, n : Nat]
      BY OwnTexts, Words
    <3>2. base \in Name /\ Len(base) = Len(ps[k].name) + 1 /\ Len(ps[k].name) \in Nat
      BY <2>2, <3>1, AppendProperties, LenProperties DEF Name
    <3> HIDE DEF base
    <3>3. base = <<>> => Len(base) = 0
      OBVIOUS
    <3> QED  BY <3>2, <3>3 DEF Blank
  <2> HIDE DEF base
  <2>4. x \in Name /\ x \notin NamesOf(ps) /\ x # Blank
    BY <1>9, <2>3, UniqueNameIs
  <2> HIDE DEF x
  <2>5. p \in Profile /\ p.name = x
    BY <2>2, <2>4 DEF Profile
  <2> HIDE DEF p
  <2>6. Good(m) => /\ [m EXCEPT !.profiles = Append(ps, p)] \in Mem
                   /\ Good([m EXCEPT !.profiles = Append(ps, p)])
    <3> HIDE DEF m
    <3> QED  BY <1>1, <2>4, <2>5, Appended
  <2>7. Change(i, [m EXCEPT !.profiles = Append(ps, p)])
    BY <2>1 DEF p, x, base
  <2> QED  BY <1>3, <2>6, <2>7
<1>12. CASE AddProfile(i)
  <2> DEFINE x == UniqueName(ps, <<Word("New")>>)
             p == NewProfile(x)
  <2>1. Change(i, [m EXCEPT !.profiles = Append(ps, p)])
    BY <1>12 DEF AddProfile
  <2>2. <<Word("New")>> \in Name /\ <<Word("New")>> # Blank
    BY OwnTexts, Words, Named
  <2>3. x \in Name /\ x \notin NamesOf(ps) /\ x # Blank
    BY <1>9, <2>2, UniqueNameIs
  <2> HIDE DEF x
  <2>4. p \in Profile /\ p.name = x
    BY <2>3 DEF NewProfile, Profile, Low, Digit
  <2> HIDE DEF p
  <2>5. Good(m) => /\ [m EXCEPT !.profiles = Append(ps, p)] \in Mem
                   /\ Good([m EXCEPT !.profiles = Append(ps, p)])
    <3> HIDE DEF m
    <3> QED  BY <1>1, <2>3, <2>4, Appended
  <2> QED  BY <1>3, <2>1, <2>5
<1>13. CASE DeleteProfile(i)
  <2> DEFINE rest(k) == SubSeq(ps, 1, k - 1) \o SubSeq(ps, k + 1, Len(ps))
             q(k) == [m EXCEPT !.profiles = rest(k),
                        !.active = IF @ = ps[k].name THEN rest(k)[1].name ELSE @]
  <2>1. PICK k \in DOMAIN ps : Len(ps) > 1 /\ Change(i, q(k))
    BY <1>13 DEF DeleteProfile
  <2>2. Good(m) => q(k) \in Mem /\ Good(q(k))
    <3> HIDE DEF m
    <3> QED  BY <1>1, <2>1, Deleted
  <2> QED  BY <1>3, <2>1, <2>2
<1>14. CASE ResetToDefaults(i)
  <2>1. Change(i, [m EXCEPT !.profiles = Defaults, !.active = Defaults[1].name])
    BY <1>14 DEF ResetToDefaults
  <2> QED  BY <1>1, <1>3, <2>1, DefaultsGood
<1> QED  BY <1>6, <1>7, <1>8, <1>10, <1>11, <1>12, <1>13, <1>14, <1>15 DEF Edit

-----------------------------------------------------------------------------
\* The steps, the edits taken together.

Act(i) ==
  \/ Launch(i) \/ WaitGranted(i) \/ WaitTimesOut(i) \/ Load(i)
  \/ (\E m \in Mem : Good(m) /\ Change(i, m))
  \/ SaveDue(i) \/ OpenTmp(i) \/ WriteTmp(i) \/ MoveTmp(i)
  \/ Close(i) \/ EndSession(i) \/ RestartElevated(i) \/ Relaunched(i) \/ Exit(i) \/ Crash(i)

Step == UNCHANGED vars \/ ForeignEdit \/ \E i \in Instances : Act(i)

LEMMA StepsAre ==
    ASSUME TypeOK, GoodNames, [Next]_vars
    PROVE  Step
<1>1. mem \in [Instances -> Mem]
  BY DEF TypeOK
<1>2. ASSUME NEW i \in Instances, Edit(i) PROVE \E m \in Mem : Good(m) /\ Change(i, m)
  BY <1>1, <1>2, EditsGood
<1> QED  BY <1>2 DEF Next, Step, Act, Edit

-----------------------------------------------------------------------------
\* Types.

LEMMA FilePut ==
    ASSUME NEW d, FilesTyped(d), NEW f \in Files, NEW v \in File(f)
    PROVE  FilesTyped([d EXCEPT ![f] = v])
  BY DEF FilesTyped

LEMMA Torn ==
    ASSUME NEW d, FilesTyped(d), NEW f \in Files
    PROVE  FilesTyped([d EXCEPT ![f].has = "torn"])
<1>1. [d[f] EXCEPT !.has = "torn"] \in File(f)
  BY DEF FilesTyped, File
<1> QED  BY <1>1, FilePut

LEMMA Contents ==
    /\ \A m \in Mem, f \in Files : Whole(m, f) \in File(f)
    /\ \A f \in Files : Missing(f) \in File(f)
<1>1. ASSUME NEW m \in Mem, NEW f \in Files
      PROVE  Content(m, f) \in IF f = "profiles" THEN Seq(Profile) ELSE Said
  <2>1. [k \in DOMAIN m.profiles |-> ToJson(m.profiles[k])] \in Seq(Profile)
    BY MemFields, JsonKeepsNames
  <2>2. Settings(m) \in Said
    BY MemFields DEF Settings, Said
  <2> QED  BY <2>1, <2>2 DEF Content
<1>2. \A f \in Files : Content(Fresh, f) \in IF f = "profiles" THEN Seq(Profile) ELSE Said
  BY <1>1, DefaultsGood
<1> QED  BY <1>1, <1>2 DEF Whole, Missing, File

LEMMA SaveBegun ==
    ASSUME TypeOK, NEW i \in Instances, NEW then \in {"run", "exit", "logoff", "relaunch"},
           BeginSave(i, then)
    PROVE  /\ dirty' \in [Instances -> BOOLEAN] /\ dirty'[i] = FALSE
           /\ save' \in [Instances -> Stage] /\ save'[i].stage = "open"
           /\ save'[i].file = "profiles" /\ save'[i].ok = TRUE /\ save'[i].then = then
           /\ \A j \in Instances : j # i => save'[j] = save[j] /\ dirty'[j] = dirty[j]
<1>1. [NoSave EXCEPT !.stage = "open", !.then = then] \in Stage
  BY DEF NoSave, Stage, Files
<1> QED  BY <1>1 DEF TypeOK, BeginSave, NoSave

LEMMA FileDoneTyped ==
    ASSUME TypeOK, NEW i \in Instances, NEW good \in BOOLEAN, FileDone(i, good)
    PROVE  /\ pc' \in [Instances -> Place] /\ save' \in [Instances -> Stage]
           /\ unsaved' \in [Instances -> BOOLEAN] /\ failed' \in [Instances -> BOOLEAN]
           /\ kept' \in [has : BOOLEAN, val : Mem]
<1>0. NothingKept \in [has : BOOLEAN, val : Mem]
  BY NothingTyped
<1>1. /\ save[i] \in Stage /\ save[i].then \in Place /\ save[i].ok \in BOOLEAN
      /\ NoSave \in Stage /\ mem[i] \in Mem
  BY DEF TypeOK, Stage, Place, NoSave, Files
<1>2. CASE save[i].file = "profiles"
  <2>1. [save[i] EXCEPT !.stage = "open", !.file = "settings", !.ok = good] \in Stage
    BY <1>1 DEF Stage, Files
  <2> QED  BY <1>2, <2>1 DEF TypeOK, FileDone
<1>3. CASE save[i].file # "profiles"
  <2> DEFINE ok == good /\ save[i].ok
  <2>1. ok \in BOOLEAN
    BY <1>1
  <2>2. /\ save' = [save EXCEPT ![i] = NoSave]
        /\ pc' = [pc EXCEPT ![i] = save[i].then]
        /\ unsaved' = [unsaved EXCEPT ![i] = @ /\ ~ok]
        /\ failed' = [failed EXCEPT ![i] = ~ok]
    BY <1>3 DEF FileDone
  <2> HIDE DEF ok
  <2>3. (~ok) \in BOOLEAN /\ (unsaved[i] /\ ~ok) \in BOOLEAN
    OBVIOUS
  <2>4. kept' \in [has : BOOLEAN, val : Mem]
    <3>1. kept \in [has : BOOLEAN, val : Mem] /\ [has |-> TRUE, val |-> mem[i]] \in [has : BOOLEAN, val : Mem]
      BY <1>1 DEF TypeOK
    <3>2. \/ kept' = kept \/ kept' = NothingKept
          \/ kept' = [has |-> TRUE, val |-> mem[i]]
      BY <1>3 DEF FileDone
    <3> QED  BY <1>0, <3>1, <3>2
  <2> QED  BY <1>1, <2>1, <2>2, <2>3, <2>4 DEF TypeOK
<1> QED  BY <1>2, <1>3

LEMMA GoneTyped ==
    ASSUME TypeOK, NEW i \in Instances, Gone(i)
    PROVE  /\ pc' \in [Instances -> Place] /\ mem' \in [Instances -> Mem]
           /\ {dirty', unsaved', failed'} \subseteq [Instances -> BOOLEAN]
           /\ save' \in [Instances -> Stage]
<1>1. NoSave \in Stage /\ Fresh \in Mem /\ "off" \in Place
  BY DefaultsGood DEF Stage, NoSave, Files, Place
<1> QED  BY <1>1 DEF TypeOK, Gone

LEMMA Placed ==
    ASSUME TypeOK, NEW i \in Instances, SavePlacement(i)
    PROVE  mem' \in [Instances -> Mem]
<1>1. PICK n \in Int : mem' = [mem EXCEPT ![i].place = n]
  BY StoreConstants DEF SavePlacement
<1>2. [mem[i] EXCEPT !.place = n] \in Mem
  BY DEF TypeOK, Mem
<1> QED  BY <1>1, <1>2 DEF TypeOK

LEMMA TypeIs ==
    ASSUME pc' \in [Instances -> Place], mem' \in [Instances -> Mem],
           dirty' \in [Instances -> BOOLEAN], unsaved' \in [Instances -> BOOLEAN],
           failed' \in [Instances -> BOOLEAN], save' \in [Instances -> Stage],
           FilesTyped(disk'), FilesTyped(tmp'), kept' \in [has : BOOLEAN, val : Mem]
    PROVE  TypeOK'
  BY DEF TypeOK, FilesTyped

LEMMA TypeKept ==
    ASSUME TypeOK, GoodNames, Step
    PROVE  TypeOK'
<1>1. CASE UNCHANGED vars
  BY <1>1 DEF vars, TypeOK, FilesTyped
<1>2. CASE ForeignEdit
  <2>1. FilesTyped(disk')
    <3>1. ASSUME NEW f \in Files, disk' = [disk EXCEPT ![f] = [@ EXCEPT !.has = "torn"]]
          PROVE  FilesTyped(disk')
      BY <3>1, Torn DEF TypeOK
    <3>2. ASSUME NEW ps \in Lists, disk' = [disk EXCEPT !["profiles"] = [has |-> "whole", val |-> ps]]
          PROVE  FilesTyped(disk')
      <4>1. ps \in Seq(Profile) /\ "profiles" \in Files
        <5>1. Lists \subseteq Seq([name : Name, num : Int])
          BY StoreConstants
        <5>2. "profiles" \in Files
          BY DEF Files
        <5> QED  BY <3>2, <5>1, <5>2 DEF Profile
      <4>2. [has |-> "whole", val |-> ps] \in File("profiles")
        BY <4>1 DEF File
      <4> QED  BY <3>2, <4>1, <4>2, FilePut DEF TypeOK
    <3> QED  BY <1>2, <3>1, <3>2 DEF ForeignEdit
  <2>2. kept' \in [has : BOOLEAN, val : Mem]
    BY <1>2, NothingTyped DEF ForeignEdit, TypeOK
  <2> QED  BY <1>2, <2>1, <2>2 DEF ForeignEdit, TypeOK, FilesTyped
<1>3. ASSUME NEW i \in Instances, Act(i) PROVE TypeOK'
  <2> USE TypeIs, FilePut, Torn, Contents
  <2>0. /\ pc \in [Instances -> Place] /\ mem \in [Instances -> Mem]
        /\ dirty \in [Instances -> BOOLEAN] /\ unsaved \in [Instances -> BOOLEAN]
        /\ failed \in [Instances -> BOOLEAN] /\ save \in [Instances -> Stage]
        /\ FilesTyped(disk) /\ FilesTyped(tmp) /\ kept \in [has : BOOLEAN, val : Mem]
    BY DEF TypeOK
  <2>1. CASE Launch(i) \/ WaitGranted(i) \/ WaitTimesOut(i)
    <3>1. pc' \in [Instances -> Place]
      BY <2>0, <2>1 DEF Launch, WaitGranted, WaitTimesOut, TypeOK, Place
    <3> QED  BY <2>0, <2>1, <3>1 DEF Launch, WaitGranted, WaitTimesOut, files, ghosts
  <2>2. CASE Load(i)
    <3>1. mem' \in [Instances -> Mem]
      BY <2>0, <2>2, LoadedGood DEF Load, TypeOK
    <3> QED  BY <2>0, <2>2, <3>1 DEF Load, Place
  <2>3. CASE \E m \in Mem : Good(m) /\ Change(i, m)
    <3> QED  BY <2>0, <2>3 DEF Change, files
  <2>4. CASE SaveDue(i) \/ RestartElevated(i)
    <3>1. \E then \in {"run", "exit", "logoff", "relaunch"} : BeginSave(i, then)
      BY <2>0, <2>4 DEF SaveDue, RestartElevated
    <3> QED  BY <2>0, <2>4, <3>1, SaveBegun DEF SaveDue, RestartElevated, files, ghosts
  <2>5. CASE OpenTmp(i)
    <3>1. save[i] \in Stage /\ save[i].file \in Files
      BY DEF TypeOK, Stage
    <3>2. CASE tmp' = tmp /\ FileDone(i, FALSE)
      BY <2>0, <2>5, <3>2, FileDoneTyped DEF OpenTmp
    <3>3. CASE /\ tmp' = [tmp EXCEPT ![save[i].file].has = "torn"]
               /\ save' = [save EXCEPT ![i].stage = "write"]
               /\ UNCHANGED <<pc, unsaved, failed, kept>>
      <4>1. FilesTyped(tmp')
        BY <2>0, <3>1, <3>3 DEF TypeOK
      <4>2. save' \in [Instances -> Stage]
        <5>1. [save[i] EXCEPT !.stage = "write"] \in Stage
          BY <2>0, <3>1 DEF Stage
        <5> QED  BY <2>0, <3>3, <5>1 DEF TypeOK
      <4> QED  BY <2>0, <2>5, <3>3, <4>1, <4>2 DEF OpenTmp
    <3> QED  BY <2>0, <2>5, <3>2, <3>3 DEF OpenTmp
  <2>6. CASE WriteTmp(i)
    <3>1. save[i] \in Stage /\ save[i].file \in Files /\ mem[i] \in Mem
      BY DEF TypeOK, Stage
    <3>2. CASE tmp' = [tmp EXCEPT ![save[i].file] = Missing(save[i].file)] /\ FileDone(i, FALSE)
      <4>1. FilesTyped(tmp')
        BY <2>0, <3>1, <3>2 DEF TypeOK
      <4> QED  BY <2>0, <2>6, <3>2, <4>1, FileDoneTyped DEF WriteTmp
    <3>3. CASE /\ tmp' = [tmp EXCEPT ![save[i].file] =
                            [has |-> "whole", val |-> Content(mem[i], save[i].file)]]
               /\ save' = [save EXCEPT ![i].stage = "move"]
               /\ UNCHANGED <<pc, unsaved, failed, kept>>
      <4>1. FilesTyped(tmp')
        BY <2>0, <3>1, <3>3 DEF TypeOK, Whole
      <4>2. save' \in [Instances -> Stage]
        <5>1. [save[i] EXCEPT !.stage = "move"] \in Stage
          BY <2>0, <3>1 DEF Stage
        <5> QED  BY <2>0, <3>3, <5>1 DEF TypeOK
      <4> QED  BY <2>0, <2>6, <3>3, <4>1, <4>2 DEF WriteTmp
    <3> QED  BY <2>0, <2>6, <3>2, <3>3 DEF WriteTmp
  <2>7. CASE MoveTmp(i)
    <3>1. save[i].file \in Files
      BY DEF TypeOK, Stage
    <3>2. tmp[save[i].file] \in File(save[i].file)
      BY <2>0, <3>1 DEF FilesTyped
    <3>3. FilesTyped(disk')
      <4>1. disk' \in {disk, [disk EXCEPT ![save[i].file] = tmp[save[i].file]]}
        BY <2>7 DEF MoveTmp
      <4> QED  BY <2>0, <3>1, <3>2, <4>1
    <3>4. FilesTyped(tmp')
      <4>1. tmp' \in {[tmp EXCEPT ![save[i].file] = Missing(save[i].file)],
                      [tmp EXCEPT ![save[i].file] = tmp[save[i].file]]}
        BY <2>0, <2>7 DEF MoveTmp
      <4> QED  BY <2>0, <3>1, <3>2, <4>1 DEF TypeOK
    <3>5. \E good \in BOOLEAN : FileDone(i, good)
      BY <2>0, <2>7 DEF MoveTmp
    <3> QED  BY <2>0, <2>7, <3>3, <3>4, <3>5, FileDoneTyped DEF MoveTmp
  <2>8. CASE Close(i)
    BY <2>0, <2>8, SaveBegun, Placed DEF Close, files, ghosts
  <2>9. CASE EndSession(i)
    <3>1. CASE dirty[i]
      BY <2>0, <2>9, <3>1, SaveBegun, Placed DEF EndSession, files
    <3>2. CASE ~dirty[i]
      BY <2>0, <2>9, <3>2, Placed, NothingTyped DEF EndSession, files, Place
    <3> QED  BY <2>0, <3>1, <3>2
  <2>10. CASE Relaunched(i)
    <3>1. CASE BeginSave(i, "exit") /\ SavePlacement(i)
      BY <2>0, <2>10, <3>1, SaveBegun, Placed DEF Relaunched, files, ghosts, Place
    <3>2. CASE UNCHANGED <<mem, dirty, save, restart>>
      BY <2>0, <2>10, <3>2 DEF Relaunched, files, ghosts, Place
    <3> QED  BY <2>0, <2>10, <3>1, <3>2 DEF Relaunched
  <2>11. CASE Exit(i) \/ Crash(i)
    <3>1. Gone(i) /\ UNCHANGED <<disk, tmp>>
      BY <2>0, <2>11 DEF Exit, Crash, files
    <3>2. kept' \in [has : BOOLEAN, val : Mem]
      BY <2>0, <2>11, NothingTyped DEF Exit, Crash, TypeOK
    <3> QED  BY <2>0, <3>1, <3>2, GoneTyped 
  <2> QED  BY <1>3, <2>1, <2>2, <2>3, <2>4, <2>5, <2>6, <2>7, <2>8, <2>9, <2>10, <2>11 DEF Act
<1> QED  BY <1>1, <1>2, <1>3 DEF Step

-----------------------------------------------------------------------------
\* Names.

LEMMA SlipsGrow ==
    ASSUME Step
    PROVE  slips \subseteq slips' /\ (Alone' => Alone)
<1>1. slips \subseteq slips'
  BY DEF Step, Act, vars, ForeignEdit, Launch, WaitGranted, WaitTimesOut, Load, Change, SaveDue,
         OpenTmp, WriteTmp, MoveTmp, Close, EndSession, RestartElevated, Relaunched, Exit, Crash,
         Fault, ghosts
<1> QED  BY <1>1 DEF Alone

\* The end of a save says of what is held only that it is kept.
LEMMA FileDoneNames ==
    ASSUME TypeOK, GoodNames, NEW i \in Instances, NEW good \in BOOLEAN, FileDone(i, good),
           mem' = mem, pc[i] = "run"
    PROVE  GoodNames'
<1>1. Good(mem[i])
  BY DEF GoodNames
<1>2. \A j \in Instances : pc'[j] = pc[j] \/ j = i
  BY DEF FileDone, TypeOK
<1>3. kept' = kept \/ ~kept'.has \/ kept'.val = mem[i]
  BY NothingTyped DEF FileDone
<1> QED  BY <1>1, <1>2, <1>3 DEF GoodNames, Good

LEMMA PlaceGood ==
    ASSUME TypeOK, NEW i \in Instances, Good(mem[i]), SavePlacement(i)
    PROVE  /\ mem' = [mem EXCEPT ![i] = mem'[i]] /\ Good(mem'[i])
           /\ \A j \in Instances : j # i => mem'[j] = mem[j]
<1>0. PICK n \in Int : mem' = [mem EXCEPT ![i].place = n]
  BY StoreConstants DEF SavePlacement
<1>1. mem[i] \in Mem
  BY DEF TypeOK
<1>2. Good([mem[i] EXCEPT !.place = n])
  BY <1>1, PlaceChanged
<1> QED  BY <1>0, <1>2 DEF TypeOK

LEMMA NamesKept ==
    ASSUME TypeOK, GoodNames, SaveGoesOn, Step
    PROVE  GoodNames'
<1>1. CASE UNCHANGED vars
  BY <1>1 DEF vars, GoodNames, Good
<1>2. CASE ForeignEdit
  BY <1>2, NothingTyped DEF ForeignEdit, GoodNames, Good
<1>3. ASSUME NEW i \in Instances, Act(i) PROVE GoodNames'
  <2>0. pc \in [Instances -> Place] /\ mem \in [Instances -> Mem]
    BY DEF TypeOK
  <2>1. CASE Launch(i) \/ WaitGranted(i) \/ WaitTimesOut(i)
    <3>1. /\ mem' = mem /\ kept' = kept
          /\ \A j \in Instances : pc'[j] = pc[j] \/ pc'[j] \in {"wait", "load"}
      BY <2>0, <2>1 DEF Launch, WaitGranted, WaitTimesOut, ghosts
    <3> QED  BY <3>1 DEF GoodNames, Good
  <2>2. CASE Load(i)
    <3>1. PICK R \in SUBSET Files : mem' = [mem EXCEPT ![i] = Loaded(R)]
      BY <2>2 DEF Load
    <3>2. Good(Loaded(R))
      BY LoadedGood DEF TypeOK
    <3>3. kept' = kept /\ \A j \in Instances : j # i => pc'[j] = pc[j]
      BY <2>0, <2>2 DEF Load
    <3>4. mem'[i] = Loaded(R) /\ \A j \in Instances : j # i => mem'[j] = mem[j]
      BY <2>0, <3>1
    <3> QED  BY <3>2, <3>3, <3>4 DEF GoodNames, Good
  <2>3. CASE \E m \in Mem : Good(m) /\ Change(i, m)
    <3>1. PICK m \in Mem : Good(m) /\ Change(i, m)
      BY <2>3
    <3>2. mem'[i] = m /\ \A j \in Instances : j # i => mem'[j] = mem[j]
      BY <2>0, <3>1 DEF Change
    <3>3. pc' = pc /\ kept' = kept
      BY <3>1 DEF Change
    <3> QED  BY <3>1, <3>2, <3>3 DEF GoodNames, Good
  <2>4. CASE SaveDue(i) \/ RestartElevated(i)
    BY <2>4 DEF SaveDue, RestartElevated, ghosts, GoodNames, Good
  <2>5. CASE OpenTmp(i) \/ WriteTmp(i) \/ MoveTmp(i)
    <3>1. mem' = mem /\ Saving(i)
      BY <2>5 DEF OpenTmp, WriteTmp, MoveTmp, Saving
    <3>2. pc[i] = "run"
      BY <3>1 DEF SaveGoesOn
    <3>3. CASE UNCHANGED <<pc, kept>>
      BY <3>1, <3>3 DEF GoodNames, Good
    <3>4. CASE \E good \in BOOLEAN : FileDone(i, good)
      BY <3>1, <3>2, <3>4, FileDoneNames
    <3> QED  BY <2>5, <3>3, <3>4 DEF OpenTmp, WriteTmp, MoveTmp
  <2>6. CASE Close(i) \/ EndSession(i) \/ Relaunched(i)
    <3>1. /\ pc[i] \notin {"off", "wait", "load"}
          /\ SavePlacement(i) \/ mem' = mem
          /\ \A j \in Instances : j # i => pc'[j] = pc[j]
      BY <2>0, <2>6 DEF Close, EndSession, Relaunched, Running
    <3>2. kept'.has => kept.has /\ kept' = kept
      BY <2>6, NothingTyped DEF Close, EndSession, Relaunched, ghosts
    <3>3. Good(mem[i])
      BY <3>1 DEF GoodNames
    <3>4. Good(mem'[i]) /\ \A j \in Instances : j # i => mem'[j] = mem[j]
      <4>1. CASE mem' = mem
        BY <3>3, <4>1 DEF Good
      <4>2. CASE SavePlacement(i)
        BY <3>3, <4>2, PlaceGood
      <4> QED  BY <3>1, <4>1, <4>2
    <3> QED  BY <3>1, <3>2, <3>4 DEF GoodNames, Good
  <2>7. CASE Exit(i) \/ Crash(i)
    <3>1. /\ pc'[i] = "off"
          /\ \A j \in Instances : j # i => pc'[j] = pc[j] /\ mem'[j] = mem[j]
      BY <2>0, <2>7 DEF Exit, Crash, Gone
    <3>2. kept'.has => kept.has /\ kept' = kept
      BY <2>7, NothingTyped DEF Exit, Crash
    <3> QED  BY <3>1, <3>2 DEF GoodNames, Good
  <2> QED  BY <1>3, <2>1, <2>2, <2>3, <2>4, <2>5, <2>6, <2>7 DEF Act
<1> QED  BY <1>1, <1>2, <1>3 DEF Step

-----------------------------------------------------------------------------
\* Changes.

LEMMA ChangesKeptOn ==
    ASSUME TypeOK, ChangesKept, Step
    PROVE  ChangesKept'
<1>0. /\ dirty \in [Instances -> BOOLEAN] /\ unsaved \in [Instances -> BOOLEAN]
      /\ failed \in [Instances -> BOOLEAN] /\ save \in [Instances -> Stage]
  BY DEF TypeOK
<1>1. CASE UNCHANGED vars
  BY <1>1 DEF vars, ChangesKept, Saving
<1>2. CASE ForeignEdit
  BY <1>2 DEF ForeignEdit, ChangesKept, Saving
<1>3. ASSUME NEW i \in Instances, Act(i) PROVE ChangesKept'
  <2>1. CASE Launch(i) \/ WaitGranted(i) \/ WaitTimesOut(i) \/ Load(i)
    BY <2>1 DEF Launch, WaitGranted, WaitTimesOut, Load, ghosts, ChangesKept, Saving
  <2>2. CASE \E m \in Mem : Good(m) /\ Change(i, m)
    <3>1. /\ dirty'[i] = TRUE /\ save' = save /\ failed' = failed
          /\ \A j \in Instances : j # i => dirty'[j] = dirty[j] /\ unsaved'[j] = unsaved[j]
      BY <1>0, <2>2 DEF Change
    <3> QED  BY <3>1 DEF ChangesKept, Saving
  <2>3. ASSUME NEW then \in {"run", "exit", "logoff", "relaunch"}, BeginSave(i, then),
               UNCHANGED <<unsaved, failed>>
        PROVE  ChangesKept'
    BY <2>3, SaveBegun DEF ChangesKept, Saving
  <2>4. CASE SaveDue(i) \/ RestartElevated(i) \/ Close(i)
    BY <2>3, <2>4 DEF SaveDue, RestartElevated, Close, ghosts
  <2>5. CASE EndSession(i)
    <3>1. CASE dirty[i]
      BY <2>3, <2>5, <3>1 DEF EndSession
    <3>2. CASE ~dirty[i]
      BY <2>5, <3>2 DEF EndSession, ChangesKept, Saving
    <3> QED  BY <3>1, <3>2
  <2>6. CASE Relaunched(i)
    <3>1. CASE BeginSave(i, "exit")
      BY <2>3, <2>6, <3>1 DEF Relaunched, ghosts
    <3>2. CASE UNCHANGED <<mem, dirty, save, restart>>
      BY <2>6, <3>2 DEF Relaunched, ghosts, ChangesKept, Saving
    <3> QED  BY <2>6, <3>1, <3>2 DEF Relaunched
  <2>7. ASSUME NEW good \in BOOLEAN, FileDone(i, good), dirty' = dirty
        PROVE  ChangesKept'
    <3>1. CASE save[i].file = "profiles"
      <4>1. /\ save'[i].stage = "open" /\ UNCHANGED <<unsaved, failed, dirty>>
            /\ \A j \in Instances : j # i => save'[j] = save[j]
        BY <1>0, <2>7, <3>1 DEF FileDone, Stage
      <4> QED  BY <4>1 DEF ChangesKept, Saving
    <3>2. CASE save[i].file # "profiles"
      <4>1. /\ failed'[i] = ~(good /\ save[i].ok) /\ unsaved'[i] = (unsaved[i] /\ ~(good /\ save[i].ok))
            /\ \A j \in Instances : j # i => /\ save'[j] = save[j] /\ failed'[j] = failed[j]
                                             /\ unsaved'[j] = unsaved[j]
        BY <1>0, <2>7, <3>2 DEF FileDone
      <4> QED  BY <2>7, <4>1 DEF ChangesKept, Saving
    <3> QED  BY <3>1, <3>2
  <2>8. CASE OpenTmp(i) \/ WriteTmp(i) \/ MoveTmp(i)
    <3>1. dirty' = dirty
      BY <2>8 DEF OpenTmp, WriteTmp, MoveTmp
    <3>2. CASE \E good \in BOOLEAN : FileDone(i, good)
      BY <2>7, <3>1, <3>2
    <3>3. CASE /\ UNCHANGED <<unsaved, failed>>
               /\ \/ save' = [save EXCEPT ![i].stage = "write"]
                  \/ save' = [save EXCEPT ![i].stage = "move"]
      <4>1. /\ save'[i].stage # "no"
            /\ \A j \in Instances : j # i => save'[j] = save[j]
        BY <1>0, <3>3 DEF Stage
      <4> QED  BY <3>1, <3>3, <4>1 DEF ChangesKept, Saving
    <3> QED  BY <2>8, <3>2, <3>3 DEF OpenTmp, WriteTmp, MoveTmp
  <2>9. CASE Exit(i) \/ Crash(i)
    <3>1. /\ unsaved'[i] = FALSE
          /\ \A j \in Instances : j # i => /\ unsaved'[j] = unsaved[j] /\ dirty'[j] = dirty[j]
                                           /\ save'[j] = save[j] /\ failed'[j] = failed[j]
      BY <1>0, <2>9 DEF Exit, Crash, Gone
    <3> QED  BY <3>1 DEF ChangesKept, Saving
  <2> QED  BY <1>3, <2>1, <2>2, <2>4, <2>5, <2>6, <2>8, <2>9 DEF Act
<1> QED  BY <1>1, <1>2, <1>3 DEF Step

-----------------------------------------------------------------------------
\* The mutex.

LEMMA ExclusiveKept ==
    ASSUME TypeOK, Exclusive, SaveGoesOn, Step
    PROVE  Exclusive'
<1>0. pc \in [Instances -> Place] /\ Nobody \notin Instances /\ (Alone' => Alone)
  BY StoreConstants, SlipsGrow DEF TypeOK
\* What neither starts nor ends an instance leaves it where the mutex is its own.
<1>1. ASSUME handles' = handles, owner' = owner,
             \A j \in Instances : (pc'[j] = "off" <=> pc[j] = "off")
                               /\ (pc'[j] = "wait" <=> pc[j] = "wait")
      PROVE  Exclusive'
  BY <1>0, <1>1 DEF Exclusive
<1>2. CASE UNCHANGED vars \/ ForeignEdit
  BY <1>1, <1>2 DEF vars, ForeignEdit, mutex
<1>3. ASSUME NEW i \in Instances, Act(i) PROVE Exclusive'
  <2>1. CASE Launch(i)
    <3>1. CASE handles = {}
      <4>1. /\ pc'[i] = "load" /\ handles' = {i} /\ owner' = i
            /\ \A j \in Instances : j # i => pc'[j] = pc[j]
        BY <1>0, <2>1, <3>1 DEF Launch
      <4>2. \A j \in Instances : j # i => pc[j] = "off"
        BY <3>1 DEF Exclusive
      <4> QED  BY <4>1, <4>2 DEF Exclusive
    <3>2. CASE handles # {} /\ i \in restart
      <4>1. /\ pc'[i] = "wait" /\ handles' = handles \union {i} /\ owner' = owner
            /\ \A j \in Instances : j # i => pc'[j] = pc[j]
        BY <1>0, <2>1, <3>2 DEF Launch
      <4> QED  BY <1>0, <4>1 DEF Exclusive
    <3>3. CASE handles # {} /\ i \notin restart
      BY <1>1, <2>1, <3>3 DEF Launch
    <3> QED  BY <3>1, <3>2, <3>3
  <2>2. CASE WaitGranted(i)
    <3>1. /\ pc[i] = "wait" /\ owner = Nobody /\ owner' = i /\ handles' = handles
          /\ pc'[i] = "load" /\ \A j \in Instances : j # i => pc'[j] = pc[j]
      BY <1>0, <2>2 DEF WaitGranted
    <3>2. Alone => \A j \in Instances : pc[j] \in {"off", "wait"}
      BY <1>0, <3>1 DEF Exclusive
    <3>3. i \in handles /\ \A j \in Instances : pc'[j] # "off" => j \in handles
      BY <3>1 DEF Exclusive
    <3> QED  BY <1>0, <3>1, <3>2, <3>3 DEF Exclusive
  <2>3. CASE WaitTimesOut(i)
    <3>1. ~Alone' /\ pc[i] = "wait" /\ owner' = owner /\ handles' = handles
      BY <2>3 DEF WaitTimesOut, Fault, Alone, mutex
    <3>2. \A j \in Instances : pc'[j] # "off" => pc[j] # "off"
      BY <1>0, <2>3, <3>1 DEF WaitTimesOut
    <3> QED  BY <3>1, <3>2 DEF Exclusive
  <2>4. CASE Load(i)
    BY <1>0, <1>1, <2>4 DEF Load, mutex
  <2>5. CASE (\E m \in Mem : Good(m) /\ Change(i, m)) \/ SaveDue(i) \/ Close(i) \/ RestartElevated(i)
    BY <1>1, <2>5 DEF Change, SaveDue, Close, RestartElevated, mutex
  <2>6. CASE EndSession(i)
    BY <1>0, <1>1, <2>6 DEF EndSession, Running, mutex
  <2>7. CASE Relaunched(i)
    BY <1>0, <1>1, <2>7 DEF Relaunched
  <2>8. CASE OpenTmp(i) \/ WriteTmp(i) \/ MoveTmp(i)
    <3>1. pc[i] = "run" /\ handles' = handles /\ owner' = owner
      BY <2>8 DEF OpenTmp, WriteTmp, MoveTmp, SaveGoesOn, Saving, mutex
    <3>2. save[i].then \notin {"off", "wait"}
      BY DEF TypeOK, Stage
    <3>3. pc' = pc \/ pc' = [pc EXCEPT ![i] = save[i].then]
      BY <2>8 DEF OpenTmp, WriteTmp, MoveTmp, FileDone
    <3> QED  BY <1>0, <1>1, <3>1, <3>2, <3>3
  <2>9. CASE Exit(i) \/ Crash(i)
    <3>1. /\ handles' = handles \ {i} /\ owner' = IF owner = i THEN Nobody ELSE owner
          /\ pc'[i] = "off" /\ \A j \in Instances : j # i => pc'[j] = pc[j]
      BY <1>0, <2>9 DEF Exit, Crash, Gone
    <3> QED  BY <1>0, <3>1 DEF Exclusive
  <2> QED  BY <1>3, <2>1, <2>2, <2>3, <2>4, <2>5, <2>6, <2>7, <2>8, <2>9 DEF Act
<1> QED  BY <1>2, <1>3 DEF Step

-----------------------------------------------------------------------------
\* The saves.

LEMMA FileDoneIs ==
    ASSUME TypeOK, NEW i \in Instances, NEW good \in BOOLEAN, FileDone(i, good)
    PROVE  /\ \A j \in Instances : j # i => save'[j] = save[j] /\ pc'[j] = pc[j]
           /\ save[i].file = "profiles" =>
                /\ save'[i].stage = "open" /\ save'[i].file = "settings" /\ save'[i].ok = good
                /\ pc' = pc /\ kept' = kept
           /\ save[i].file # "profiles" =>
                /\ save'[i].stage = "no" /\ save'[i].file = "profiles" /\ save'[i].ok = TRUE
                /\ pc'[i] = save[i].then
                /\ save[i].then # "exit" => kept' = kept
                /\ save[i].then = "exit" => kept' = IF good /\ save[i].ok
                     THEN [has |-> TRUE, val |-> mem[i]] ELSE NothingKept
           /\ save[i].file = "profiles" \/ save[i].file = "settings"
<1>1. save[i] \in Stage /\ (save[i].file = "profiles" \/ save[i].file = "settings")
  BY DEF TypeOK, Stage, Files
<1>2. CASE save[i].file = "profiles"
  <2>1. save'[i] = [save[i] EXCEPT !.stage = "open", !.file = "settings", !.ok = good]
    BY <1>2 DEF FileDone, TypeOK
  <2>2. save'[i].stage = "open" /\ save'[i].file = "settings" /\ save'[i].ok = good
    BY <1>1, <2>1 DEF Stage
  <2>3. pc' = pc /\ kept' = kept /\ \A j \in Instances : j # i => save'[j] = save[j]
    BY <1>2 DEF FileDone, TypeOK
  <2> QED  BY <1>2, <2>2, <2>3
<1>3. CASE save[i].file # "profiles"
  <2>1. save'[i] = NoSave /\ pc'[i] = save[i].then
    BY <1>3 DEF FileDone, TypeOK
  <2>2. \A j \in Instances : j # i => save'[j] = save[j] /\ pc'[j] = pc[j]
    BY <1>3 DEF FileDone, TypeOK
  <2>3. kept' = IF save[i].then # "exit" THEN kept
                ELSE IF good /\ save[i].ok THEN [has |-> TRUE, val |-> mem[i]] ELSE NothingKept
    BY <1>3 DEF FileDone
  <2> QED  BY <1>1, <1>3, <2>1, <2>2, <2>3 DEF NoSave
<1> QED  BY <1>2, <1>3

\* The steps of one file: it goes on to the next step, with something in the
\* temporary file or in the file itself, or the save has a slip.
LEMMA FileSteps ==
    ASSUME TypeOK, NEW i \in Instances, OpenTmp(i) \/ WriteTmp(i) \/ MoveTmp(i)
    PROVE  LET f == save[i].file IN
           /\ Saving(i) /\ mem' = mem
           /\ \/ /\ UNCHANGED <<pc, kept, disk>> /\ save'[i].file = f /\ save'[i].ok = save[i].ok
                 /\ \/ save'[i].stage = "write"
                    \/ save'[i].stage = "move" /\ tmp'[f] = Whole(mem[i], f)
                 /\ \A j \in Instances : j # i => save'[j] = save[j]
              \/ /\ save[i].stage = "move" /\ disk' = [disk EXCEPT ![f] = tmp[f]]
                 /\ FileDone(i, TRUE)
              \/ disk' = disk /\ "split" \in slips' /\ FileDone(i, FALSE)
<1> DEFINE f == save[i].file
<1>1. save[i] \in Stage /\ f \in Files /\ save \in [Instances -> Stage]
  BY DEF TypeOK, Stage
<1>2. Saving(i) /\ mem' = mem
  BY DEF OpenTmp, WriteTmp, MoveTmp, Saving
<1>3. ASSUME NEW w \in {"write", "move"}, save' = [save EXCEPT ![i].stage = w]
      PROVE  /\ save'[i].stage = w /\ save'[i].file = f /\ save'[i].ok = save[i].ok
             /\ \A j \in Instances : j # i => save'[j] = save[j]
  <2>1. save'[i] = [save[i] EXCEPT !.stage = w]
    BY <1>1, <1>3
  <2> QED  BY <1>1, <1>3, <2>1 DEF Stage
<1>4. CASE OpenTmp(i)
  <2>1. CASE save' = [save EXCEPT ![i].stage = "write"] /\ UNCHANGED <<pc, kept>>
    BY <1>2, <1>3, <1>4, <2>1 DEF OpenTmp
  <2>2. CASE FileDone(i, FALSE) /\ "split" \in slips'
    BY <1>2, <1>4, <2>2 DEF OpenTmp
  <2> QED  BY <1>4, <2>1, <2>2 DEF OpenTmp, Fault
<1>5. CASE WriteTmp(i)
  <2>1. CASE /\ save' = [save EXCEPT ![i].stage = "move"] /\ UNCHANGED <<pc, kept>>
             /\ tmp' = [tmp EXCEPT ![f] = [has |-> "whole", val |-> Content(mem[i], f)]]
    <3>1. tmp'[f] = Whole(mem[i], f)
      BY <1>1, <2>1 DEF TypeOK, FilesTyped, Whole
    <3> QED  BY <1>2, <1>3, <1>5, <2>1, <3>1 DEF WriteTmp
  <2>2. CASE FileDone(i, FALSE) /\ "split" \in slips'
    BY <1>2, <1>5, <2>2 DEF WriteTmp
  <2> QED  BY <1>5, <2>1, <2>2 DEF WriteTmp, Fault
<1>6. CASE MoveTmp(i)
  <2>1. CASE disk' = [disk EXCEPT ![f] = tmp[f]] /\ FileDone(i, TRUE)
    BY <1>2, <1>6, <2>1 DEF MoveTmp
  <2>2. CASE disk' = disk /\ FileDone(i, FALSE) /\ "split" \in slips'
    BY <1>2, <2>2
  <2> QED  BY <1>6, <2>1, <2>2 DEF MoveTmp, Fault
<1> QED  BY <1>4, <1>5, <1>6

LEMMA SavingRuns ==
    ASSUME TypeOK, SaveGoesOn, Step
    PROVE  \A j \in Instances : Saving(j)' => pc'[j] = "run"
<1>0. pc \in [Instances -> Place] /\ save \in [Instances -> Stage]
  BY DEF TypeOK
<1>1. ASSUME save' = save, pc' = pc
      PROVE  \A j \in Instances : Saving(j)' => pc'[j] = "run"
  BY <1>1 DEF SaveGoesOn, Saving
<1>2. CASE UNCHANGED vars \/ ForeignEdit
  BY <1>1, <1>2 DEF vars, ForeignEdit
<1>3. ASSUME NEW i \in Instances, Act(i), NEW j \in Instances, Saving(j)'
      PROVE  pc'[j] = "run"
  <2>1. ASSUME save' = save, pc[i] # "run" \/ ~Saving(i), \A k \in Instances : k # i => pc'[k] = pc[k]
        PROVE  pc'[j] = "run"
    BY <1>3, <2>1 DEF SaveGoesOn, Saving
  <2>2. CASE Launch(i) \/ WaitGranted(i) \/ WaitTimesOut(i) \/ Load(i)
    BY <1>0, <2>1, <2>2 DEF Launch, WaitGranted, WaitTimesOut, Load
  <2>3. CASE \E m \in Mem : Good(m) /\ Change(i, m)
    BY <1>1, <1>3, <2>3 DEF Change
  <2>4. ASSUME NEW then \in {"run", "exit", "logoff", "relaunch"}, BeginSave(i, then),
               pc' = [pc EXCEPT ![i] = "run"] \/ (pc' = pc /\ pc[i] = "run")
        PROVE  pc'[j] = "run"
    <3>1. j # i => save'[j] = save[j] /\ pc'[j] = pc[j]
      BY <1>0, <2>4, SaveBegun
    <3> QED  BY <1>0, <1>3, <2>4, <3>1 DEF SaveGoesOn, Saving
  <2>5. CASE SaveDue(i) \/ RestartElevated(i) \/ Close(i)
    BY <2>4, <2>5 DEF SaveDue, RestartElevated, Close, Running
  <2>6. CASE EndSession(i)
    BY <1>0, <2>1, <2>4, <2>6 DEF EndSession, Running
  <2>7. CASE Relaunched(i)
    <3>1. CASE BeginSave(i, "exit")
      BY <2>4, <2>7, <3>1 DEF Relaunched
    <3>2. CASE save' = save
      BY <1>0, <2>1, <2>7, <3>2 DEF Relaunched
    <3> QED  BY <2>7, <3>1, <3>2 DEF Relaunched
  <2>8. CASE OpenTmp(i) \/ WriteTmp(i) \/ MoveTmp(i)
    <3>1. pc[i] = "run"
      BY <2>8, FileSteps DEF SaveGoesOn
    <3>2. CASE UNCHANGED pc /\ \A k \in Instances : k # i => save'[k] = save[k]
      BY <1>3, <3>1, <3>2 DEF SaveGoesOn, Saving
    <3>3. CASE \E good \in BOOLEAN : FileDone(i, good)
      BY <1>3, <3>1, <3>3, FileDoneIs DEF SaveGoesOn, Saving
    <3> QED  BY <2>8, <3>2, <3>3, FileSteps
  <2>9. CASE Exit(i) \/ Crash(i)
    <3>1. /\ save'[i].stage = "no"
          /\ \A k \in Instances : k # i => save'[k] = save[k] /\ pc'[k] = pc[k]
      BY <1>0, <2>9 DEF Exit, Crash, Gone, NoSave
    <3> QED  BY <1>3, <3>1 DEF SaveGoesOn, Saving
  <2> QED  BY <1>3, <2>2, <2>3, <2>5, <2>6, <2>7, <2>8, <2>9 DEF Act
<1> QED  BY <1>2, <1>3 DEF Step

\* A step of an instance, as the saves see it.
LEMMA ActsAre ==
    ASSUME TypeOK, SaveGoesOn, NEW i \in Instances, Act(i)
    PROVE  \/ /\ UNCHANGED <<save, disk, tmp>>
              /\ mem' = mem \/ (~Saving(i) /\ \A j \in Instances : j # i => mem'[j] = mem[j])
           \/ /\ UNCHANGED <<disk, tmp>> /\ ~Saving(i) /\ pc[i] \notin {"off", "wait"}
              /\ \E then \in {"run", "exit", "logoff", "relaunch"} : BeginSave(i, then)
              /\ \A j \in Instances : j # i => mem'[j] = mem[j]
           \/ OpenTmp(i) \/ WriteTmp(i) \/ MoveTmp(i)
           \/ /\ UNCHANGED <<disk, tmp>> /\ (Second(i) => "split" \in slips')
              /\ save'[i].stage = "no" /\ save'[i].ok = TRUE
              /\ \A j \in Instances : j # i => save'[j] = save[j] /\ mem'[j] = mem[j]
<1>0. /\ mem \in [Instances -> Mem] /\ save \in [Instances -> Stage]
      /\ pc[i] # "run" => ~Saving(i)
  BY DEF TypeOK, SaveGoesOn
<1>1. CASE Launch(i) \/ WaitGranted(i) \/ WaitTimesOut(i)
  BY <1>1 DEF Launch, WaitGranted, WaitTimesOut, files
<1>2. CASE Load(i)
  BY <1>0, <1>2 DEF Load
<1>3. CASE \E m \in Mem : Good(m) /\ Change(i, m)
  BY <1>0, <1>3 DEF Change, Running, files
<1>4. CASE SaveDue(i) \/ RestartElevated(i) \/ Close(i)
  BY <1>0, <1>4 DEF SaveDue, RestartElevated, Close, SavePlacement, Running, files
<1>5. CASE EndSession(i)
  BY <1>0, <1>5 DEF EndSession, SavePlacement, Running, files
<1>6. CASE Relaunched(i)
  <2>1. CASE BeginSave(i, "exit") /\ SavePlacement(i)
    BY <1>0, <1>6, <2>1 DEF Relaunched, SavePlacement, files
  <2>2. CASE UNCHANGED <<mem, save>>
    BY <1>6, <2>2 DEF Relaunched, files
  <2> QED  BY <1>6, <2>1, <2>2 DEF Relaunched
<1>7. CASE OpenTmp(i) \/ WriteTmp(i) \/ MoveTmp(i)
  BY <1>7
<1>8. CASE Exit(i) \/ Crash(i)
  <2>1. UNCHANGED <<disk, tmp>> /\ Gone(i)
    BY <1>8 DEF Exit, Crash, files
  <2>2. /\ save'[i].stage = "no" /\ save'[i].ok = TRUE
        /\ \A j \in Instances : j # i => save'[j] = save[j] /\ mem'[j] = mem[j]
    BY <1>0, <2>1 DEF Gone, NoSave
  <2>3. Second(i) => "split" \in slips'
    <3>1. CASE Exit(i)
      BY <1>0, <3>1 DEF Exit, Second
    <3>2. CASE Crash(i)
      BY <3>2 DEF Crash, Fault, Second
    <3> QED  BY <1>8, <3>1, <3>2
  <2> QED  BY <2>1, <2>2, <2>3
<1> QED  BY <1>1, <1>2, <1>3, <1>4, <1>5, <1>6, <1>7, <1>8 DEF Act

\* Who is past the wait is alone with the files.
LEMMA OnlyOne ==
    ASSUME Exclusive, SaveGoesOn, Alone, NEW i \in Instances, pc[i] \notin {"off", "wait"},
           NEW j \in Instances, j # i
    PROVE  pc[j] \in {"off", "wait"} /\ ~Saving(j)
  BY DEF Exclusive, SaveGoesOn

LEMMA WrittenKept ==
    ASSUME TypeOK, Exclusive, SaveGoesOn, Step, Alone'
    PROVE  \A j \in Instances : Written(j)'
<1>0. Alone /\ disk = [f \in Files |-> disk[f]]
  BY SlipsGrow DEF TypeOK, FilesTyped
<1>1. CASE UNCHANGED vars
  BY <1>0, <1>1 DEF vars, SaveGoesOn, Written, Second, Saving, Whole, Content, Settings
<1>2. CASE ForeignEdit
  BY <1>2 DEF ForeignEdit, SaveGoesOn, Written, Second, Saving
<1>3. ASSUME NEW i \in Instances, Act(i), NEW j \in Instances PROVE Written(j)'
  <2>1. ASSUME UNCHANGED <<disk, tmp>>, save'[j] = save[j], mem'[j] = mem[j] \/ ~Saving(j)
        PROVE  Written(j)'
    <3>1. CASE mem'[j] = mem[j]
      BY <1>0, <2>1, <3>1 DEF SaveGoesOn, Written, Second, Saving, Whole, Content, Settings
    <3>2. CASE ~Saving(j)
      BY <2>1, <3>2 DEF Written, Second, Saving
    <3> QED  BY <2>1, <3>1, <3>2
  <2>2. ASSUME ~Saving(j)' PROVE Written(j)'
    BY <2>2 DEF Written, Second, Saving
  <2>3. CASE /\ UNCHANGED <<save, disk, tmp>>
             /\ mem' = mem \/ (~Saving(i) /\ \A k \in Instances : k # i => mem'[k] = mem[k])
    BY <2>1, <2>3
  <2>4. CASE /\ UNCHANGED <<disk, tmp>>
             /\ \E then \in {"run", "exit", "logoff", "relaunch"} : BeginSave(i, then)
             /\ \A k \in Instances : k # i => mem'[k] = mem[k]
    <3>1. CASE j = i
      BY <2>4, <3>1, SaveBegun DEF Written, Second
    <3>2. CASE j # i
      <4>1. save'[j] = save[j]
        BY <2>4, <3>2, SaveBegun
      <4> QED  BY <2>1, <2>4, <3>2, <4>1
    <3> QED  BY <3>1, <3>2
  <2>5. CASE OpenTmp(i) \/ WriteTmp(i) \/ MoveTmp(i)
    <3> DEFINE f == save[i].file
    <3>1. Saving(i) /\ mem' = mem /\ pc[i] = "run"
      BY <2>5, FileSteps DEF SaveGoesOn
    <3>2. CASE j # i
      <4>1. ~Saving(j)
        BY <1>0, <3>1, <3>2, OnlyOne
      <4>2. save'[j] = save[j]
        BY <2>5, <3>2, FileSteps, FileDoneIs
      <4> QED  BY <2>2, <4>1, <4>2 DEF Saving
    <3>3. CASE j = i
      <4>1. CASE /\ disk' = disk /\ save'[i].file = f /\ save'[i].ok = save[i].ok
                 /\ save'[i].stage = "write" \/ (save'[i].stage = "move" /\ tmp'[f] = Whole(mem[i], f))
        <5>1. Second(i)' /\ save'[i].ok => disk'["profiles"] = Whole(mem[i], "profiles")
          BY <1>0, <3>1, <4>1 DEF SaveGoesOn, Written, Second
        <5> QED  BY <3>1, <3>3, <4>1, <5>1 DEF Written, Whole, Content, Settings
      <4>2. CASE /\ save[i].stage = "move" /\ disk' = [disk EXCEPT ![f] = tmp[f]]
                 /\ FileDone(i, TRUE)
        <5>1. CASE f = "profiles"
          <6>1. tmp["profiles"] = Whole(mem[i], "profiles")
            BY <1>0, <4>2, <5>1 DEF SaveGoesOn, Written
          <6>2. disk'["profiles"] = tmp["profiles"]
            BY <1>0, <4>2, <5>1 DEF Files
          <6>3. save'[i].stage = "open"
            BY <4>2, <5>1, FileDoneIs
          <6> QED  BY <3>1, <3>3, <6>1, <6>2, <6>3 DEF Written, Whole, Content
        <5>2. CASE f # "profiles"
          BY <2>2, <3>3, <4>2, <5>2, FileDoneIs DEF Saving
        <5> QED  BY <5>1, <5>2
      <4>3. CASE FileDone(i, FALSE)
        <5>1. CASE f = "profiles"
          BY <3>3, <4>3, <5>1, FileDoneIs DEF Written
        <5>2. CASE f # "profiles"
          BY <2>2, <3>3, <4>3, <5>2, FileDoneIs DEF Saving
        <5> QED  BY <5>1, <5>2
      <4> QED  BY <2>5, <4>1, <4>2, <4>3, FileSteps
    <3> QED  BY <3>2, <3>3
  <2>6. CASE /\ UNCHANGED <<disk, tmp>> /\ save'[i].stage = "no"
             /\ \A k \in Instances : k # i => save'[k] = save[k] /\ mem'[k] = mem[k]
    <3>1. CASE j = i
      BY <2>2, <2>6, <3>1 DEF Saving
    <3>2. CASE j # i
      BY <2>1, <2>6, <3>2
    <3> QED  BY <3>1, <3>2
  <2> QED  BY <1>3, <2>3, <2>4, <2>5, <2>6, ActsAre
<1> QED  BY <1>1, <1>2, <1>3 DEF Step

LEMMA SavesGoOn ==
    ASSUME TypeOK, Exclusive, SaveGoesOn, Step
    PROVE  SaveGoesOn'
<1>1. \A j \in Instances : Saving(j)' => pc'[j] = "run"
  BY SavingRuns
<1>2. Alone' => \A j \in Instances : Written(j)'
  BY WrittenKept
<1>3. ASSUME slips' \intersect {"split", "timeout"} = {}, NEW j \in Instances, Saving(j)'
      PROVE  save'[j].ok
  <2>1. Saving(j) => save[j].ok
    BY <1>3, SlipsGrow DEF SaveGoesOn
  <2>2. CASE save' = save
    BY <1>3, <2>1, <2>2 DEF Saving
  <2>3. ASSUME NEW i \in Instances, Act(i) PROVE save'[j].ok
    <3>1. ASSUME save'[j] = save[j] PROVE save'[j].ok
      BY <1>3, <2>1, <3>1 DEF Saving
    <3>2. CASE \E then \in {"run", "exit", "logoff", "relaunch"} : BeginSave(i, then)
      <4>1. save'[i].ok /\ (j # i => save'[j] = save[j])
        BY <3>2, SaveBegun
      <4> QED  BY <3>1, <4>1
    <3>3. CASE OpenTmp(i) \/ WriteTmp(i) \/ MoveTmp(i)
      <4>1. "split" \notin slips'
        BY <1>3
      <4>2. Saving(i) /\ (save'[i].ok = save[i].ok \/ FileDone(i, TRUE))
        BY <3>3, <4>1, FileSteps
      <4>3. j # i => save'[j] = save[j]
        BY <3>3, FileSteps, FileDoneIs
      <4>4. CASE j = i /\ save'[i].ok = save[i].ok
        BY <2>1, <4>2, <4>4
      <4>5. CASE j = i /\ FileDone(i, TRUE)
        BY <4>5, FileDoneIs
      <4> QED  BY <3>1, <4>2, <4>3, <4>4, <4>5
    <3>4. CASE save'[i].ok = TRUE /\ \A k \in Instances : k # i => save'[k] = save[k]
      BY <3>1, <3>4
    <3> QED  BY <2>2, <2>3, <3>2, <3>3, <3>4, ActsAre
  <2> QED  BY <2>2, <2>3 DEF Step, vars, ForeignEdit
<1> QED  BY <1>1, <1>2, <1>3 DEF SaveGoesOn

-----------------------------------------------------------------------------
\* The files.

\* What the last step of a save moves is what is held.
LEMMA Moved ==
    ASSUME TypeOK, SaveGoesOn, Alone, NEW i \in Instances, save[i].stage = "move",
           disk' = [disk EXCEPT ![save[i].file] = tmp[save[i].file]]
    PROVE  LET f == save[i].file IN
           /\ disk'[f] = Whole(mem[i], f)
           /\ \A g \in Files : g # f => disk'[g] = disk[g]
<1>1. save[i].file \in Files /\ disk = [f \in Files |-> disk[f]]
  BY DEF TypeOK, Stage, FilesTyped
<1>2. tmp[save[i].file] = Whole(mem[i], save[i].file)
  BY DEF SaveGoesOn, Written
<1> QED  BY <1>1, <1>2

LEMMA WholeIs ==
    ASSUME NEW m \in Mem, Good(m)
    PROVE  /\ \A f : Whole(m, f).has = "whole"
           /\ Whole(m, "settings").val.active \in NamesOf(Whole(m, "profiles").val)
<1>1. NamesOf([k \in DOMAIN m.profiles |-> ToJson(m.profiles[k])]) = NamesOf(m.profiles)
  BY MemFields, JsonKeepsNames
<1> QED  BY <1>1 DEF Whole, Content, Settings, Good

LEMMA AgreeKept ==
    ASSUME TypeOK, GoodNames, Exclusive, SaveGoesOn, Agree, Step
    PROVE  Agree'
<1>1. CASE UNCHANGED vars
  BY <1>1 DEF vars, Agree, Second, Saving, NamesOf
<1>2. CASE ForeignEdit
  BY <1>2 DEF ForeignEdit, Fault, Agree
<1>3. ASSUME NEW i \in Instances, Act(i) PROVE Agree'
  <2>0. slips \subseteq slips'
    BY SlipsGrow
  <2>1. ASSUME disk' = disk, "split" \notin slips' => (Second(i) => Second(i)'),
               \A j \in Instances : j # i => save'[j] = save[j]
        PROVE  Agree'
    BY <2>0, <2>1 DEF Agree, Second, Saving, NamesOf
  <2>2. CASE UNCHANGED <<save, disk, tmp>>
    BY <2>1, <2>2 DEF Second, Saving
  <2>3. CASE /\ UNCHANGED <<disk, tmp>> /\ ~Saving(i)
             /\ \E then \in {"run", "exit", "logoff", "relaunch"} : BeginSave(i, then)
    BY <2>1, <2>3, SaveBegun DEF Second
  <2>4. CASE OpenTmp(i) \/ WriteTmp(i) \/ MoveTmp(i)
    <3> DEFINE f == save[i].file
    <3>1. Saving(i) /\ pc[i] = "run" /\ mem[i] \in Mem /\ Good(mem[i])
      BY <2>4, FileSteps DEF SaveGoesOn, GoodNames, TypeOK
    <3>2. \A j \in Instances : j # i => save'[j] = save[j]
      BY <2>4, FileSteps, FileDoneIs
    <3>3. CASE disk' = disk /\ save'[i].file = f /\ save'[i].stage \in {"write", "move"}
      BY <2>1, <3>2, <3>3 DEF Second, Saving
    <3>4. CASE disk' = disk /\ "split" \in slips'
      BY <2>1, <3>2, <3>4
    <3>5. CASE /\ save[i].stage = "move" /\ disk' = [disk EXCEPT ![f] = tmp[f]]
               /\ FileDone(i, TRUE)
      <4>1. SUFFICES ASSUME "timeout" \notin slips', "edited" \notin slips' PROVE Agree'
        BY DEF Agree
      <4>2. Alone
        BY <2>0, <4>1 DEF Alone
      <4>3. disk'[f] = Whole(mem[i], f) /\ \A g \in Files : g # f => disk'[g] = disk[g]
        BY <3>5, <4>2, Moved
      <4>4. \A g \in Files : disk'[g].has # "torn"
        BY <2>0, <3>1, <4>1, <4>3, WholeIs DEF Agree
      <4>5. ASSUME "split" \notin slips', ~Second(i)'
            PROVE  disk'["settings"].val.active \in NamesOf(disk'["profiles"].val)
        <5>1. f = "settings"
          BY <3>5, <4>5, FileDoneIs DEF Second, Saving
        <5>2. save[i].ok
          BY <2>0, <3>1, <4>1, <4>5 DEF SaveGoesOn
        <5>3. disk["profiles"] = Whole(mem[i], "profiles")
          BY <3>1, <4>2, <5>1, <5>2 DEF SaveGoesOn, Written, Second
        <5>4. disk'["profiles"] = Whole(mem[i], "profiles") /\ disk'["settings"] = Whole(mem[i], "settings")
          BY <4>3, <5>1, <5>3 DEF Files
        <5> QED  BY <3>1, <5>4, WholeIs
      <4> QED  BY <4>4, <4>5 DEF Agree, NamesOf
    <3> QED  BY <2>4, <3>3, <3>4, <3>5, FileSteps
  <2>5. CASE /\ UNCHANGED <<disk, tmp>> /\ (Second(i) => "split" \in slips')
             /\ \A j \in Instances : j # i => save'[j] = save[j]
    BY <2>1, <2>5
  <2> QED  BY <1>3, <2>2, <2>3, <2>4, <2>5, ActsAre
<1> QED  BY <1>1, <1>2, <1>3 DEF Step

\* What an orderly exit has left stays: who runs has not left it, and who does
\* not run writes nothing.
LEMMA KeptStays ==
    ASSUME TypeOK, Exclusive, SaveGoesOn, KeptThere, Step
    PROVE  KeptThere'
<1> DEFINE Out == {"off", "wait", "load", "exit"}
<1>0. pc \in [Instances -> Place] /\ (Alone' => Alone) /\ disk = [f \in Files |-> disk[f]]
  BY SlipsGrow DEF TypeOK, FilesTyped
<1>1. ASSUME disk' = disk, kept'.has => kept' = kept,
             \A j \in Instances : pc'[j] \in Out => pc[j] \in Out
      PROVE  KeptThere'
  BY <1>0, <1>1 DEF KeptThere, Whole, Content, Settings
<1>2. CASE UNCHANGED vars
  BY <1>1, <1>2 DEF vars
<1>3. CASE ForeignEdit
  <2>1. kept'.has = FALSE
    BY <1>3, NothingTyped DEF ForeignEdit
  <2> QED  BY <2>1 DEF KeptThere
<1>4. ASSUME NEW i \in Instances, Act(i) PROVE KeptThere'
  <2>1. ASSUME pc'[i] \notin Out PROVE KeptThere'
    BY <2>1 DEF KeptThere
  <2>2. CASE Launch(i) \/ WaitGranted(i) \/ WaitTimesOut(i)
    BY <1>0, <1>1, <2>2 DEF Launch, WaitGranted, WaitTimesOut, files, ghosts
  <2>3. CASE Load(i)
    BY <1>0, <2>1, <2>3 DEF Load
  <2>4. CASE \E m \in Mem : Good(m) /\ Change(i, m)
    BY <2>1, <2>4 DEF Change, Running
  <2>5. CASE SaveDue(i) \/ RestartElevated(i) \/ Close(i)
    BY <2>1, <2>5 DEF SaveDue, RestartElevated, Close, Running
  <2>6. CASE EndSession(i)
    BY <1>0, <2>1, <2>6 DEF EndSession, Running
  <2>7. CASE Relaunched(i)
    BY <1>0, <2>1, <2>7 DEF Relaunched
  <2>8. CASE OpenTmp(i) \/ WriteTmp(i) \/ MoveTmp(i)
    <3> DEFINE f == save[i].file
    <3>1. Saving(i) /\ pc[i] = "run" /\ mem' = mem
      BY <2>8, FileSteps DEF SaveGoesOn
    <3>2. CASE pc' = pc
      BY <2>1, <3>1, <3>2
    <3>3. ASSUME NEW good \in BOOLEAN, FileDone(i, good), f # "profiles",
                 save[i].then = "exit", kept'.has, Alone',
                 good => save[i].stage = "move" /\ disk' = [disk EXCEPT ![f] = tmp[f]]
          PROVE  \A g \in Files : disk'[g] = Whole(mem[i], g)
      <4>1. f = "settings" /\ good /\ save[i].ok
        BY <3>3, FileDoneIs, NothingTyped
      <4>2. disk["profiles"] = Whole(mem[i], "profiles")
        BY <1>0, <3>1, <3>3, <4>1 DEF SaveGoesOn, Written, Second
      <4>3. disk'[f] = Whole(mem[i], f) /\ \A g \in Files : g # f => disk'[g] = disk[g]
        BY <1>0, <3>3, <4>1, Moved
      <4> QED  BY <4>1, <4>2, <4>3 DEF Files
    <3>4. ASSUME NEW good \in BOOLEAN, FileDone(i, good),
                 good => save[i].stage = "move" /\ disk' = [disk EXCEPT ![f] = tmp[f]]
          PROVE  KeptThere'
      <4>1. CASE f = "profiles"
        BY <3>2, <3>4, <4>1, FileDoneIs
      <4>2. CASE f # "profiles" /\ save[i].then # "exit"
        <5>1. pc'[i] = save[i].then /\ save[i].then \in {"run", "logoff", "relaunch"}
          BY <3>4, <4>2, FileDoneIs DEF TypeOK, Stage
        <5> QED  BY <2>1, <5>1
      <4>3. CASE f # "profiles" /\ save[i].then = "exit"
        <5>0. kept' = [has |-> TRUE, val |-> mem[i]] \/ kept' = NothingKept
          BY <3>4, <4>3, FileDoneIs
        <5>1. kept'.has => kept'.val = mem[i]
          BY <5>0, NothingTyped
        <5>2. kept'.has /\ Alone' => \A g \in Files : disk'[g] = Whole(mem[i], g)
          BY <3>3, <3>4, <4>3
        <5> QED  BY <5>1, <5>2 DEF KeptThere, Whole, Content, Settings
      <4> QED  BY <4>1, <4>2, <4>3
    <3> QED  BY <2>8, <3>2, <3>4, FileSteps
  <2>9. CASE Exit(i)
    <3>1. /\ disk' = disk /\ pc'[i] = "off" /\ \A j \in Instances : j # i => pc'[j] = pc[j]
          /\ pc[i] = "exit" => kept' = kept
          /\ pc[i] = "logoff" => kept'.has = FALSE
          /\ pc[i] \in {"exit", "logoff"}
      BY <1>0, <2>9, NothingTyped DEF Exit, Gone, files
    <3>2. CASE pc[i] = "exit"
      BY <1>1, <3>1, <3>2
    <3>3. CASE pc[i] = "logoff"
      BY <3>1, <3>3 DEF KeptThere
    <3> QED  BY <3>1, <3>2, <3>3
  <2>10. CASE Crash(i)
    <3>1. kept'.has = FALSE
      BY <2>10, NothingTyped DEF Crash
    <3> QED  BY <3>1 DEF KeptThere
  <2> QED  BY <1>4, <2>2, <2>3, <2>4, <2>5, <2>6, <2>7, <2>8, <2>9, <2>10 DEF Act
<1> QED  BY <1>2, <1>3, <1>4 DEF Step

-----------------------------------------------------------------------------
\* The theorems.

LEMMA Starts ==
    ASSUME Init
    PROVE  IInv
<1>0. Fresh \in Mem /\ Good(Fresh)
  BY DefaultsGood
<1>1. TypeOK
  <2>1. NoSave \in Stage
    BY DEF NoSave, Stage, Files
  <2>2. FilesTyped(disk) /\ FilesTyped(tmp)
    BY Contents DEF Init, FilesTyped
  <2>3. pc \in [Instances -> Place]
    BY DEF Init, Place
  <2> QED  BY <1>0, <2>1, <2>2, <2>3, NothingTyped DEF Init, TypeOK
<1>2. GoodNames /\ ChangesKept /\ Exclusive /\ KeptThere
  BY NothingTyped DEF Init, GoodNames, ChangesKept, Exclusive, KeptThere
<1>3. SaveGoesOn
  BY DEF Init, SaveGoesOn, Written, Second, Saving, NoSave
<1>4. Agree
  <2>1. /\ disk["profiles"] = Missing("profiles") /\ disk["settings"] = Missing("settings")
        /\ \A f \in Files : disk[f] = Missing(f)
    BY DEF Init, Files
  <2>2. disk["settings"].val.active \in NamesOf(disk["profiles"].val)
    BY <1>0, <2>1, WholeIs DEF Missing, Whole
  <2>3. \A f \in Files : disk[f].has # "torn"
    <3>1. \A f \in Files : Missing(f).has = "none"
      BY DEF Missing
    <3> QED  BY <2>1, <3>1
  <2> QED  BY <1>0, <2>2, <2>3 DEF Agree, Good
<1> QED  BY <1>1, <1>2, <1>3, <1>4 DEF IInv

LEMMA Continues ==
    ASSUME IInv, [Next]_vars
    PROVE  IInv'
<1>1. Step
  BY StepsAre DEF IInv
<1> QED  BY <1>1, TypeKept, NamesKept, ChangesKeptOn, ExclusiveKept, SavesGoOn, AgreeKept, KeptStays
         DEF IInv

\* The inductive invariant holds in every state.
THEOREM Invariance == Spec => []IInv
  BY Starts, Continues, PTL DEF Spec

\* Whatever is loaded, and in whatever order profiles are renamed, copied,
\* added, deleted and reset, the names of a running instance stay distinct and
\* the active profile is one of them.
THEOREM NamesApart == Spec => []NamesDistinct
<1>1. IInv => NamesDistinct
  BY DEF IInv, GoodNames, Good, NamesDistinct
<1> QED  BY <1>1, Invariance, PTL

\* A change is forgotten only by a save that failed: until then it is waiting
\* for the save, in the save, or in both files.
THEOREM ChangesNotForgotten == Spec => []ChangesKept
<1>1. IInv => ChangesKept
  BY DEF IInv
<1> QED  BY <1>1, Invariance, PTL

\* No crash and no failed write leaves a file that does not parse, and the two
\* files agree but for a save between them or one that was not finished.
THEOREM FilesAgree == Spec => []DiskAgrees
<1>1. IInv => DiskAgrees
  BY DEF IInv, Agree, DiskAgrees, Second
<1> QED  BY <1>1, Invariance, PTL

\* Only a load takes an instance from its start to its run.
LEMMA OnlyLoad ==
    ASSUME TypeOK, SaveGoesOn, Step, NEW j \in Instances, pc[j] = "load", pc'[j] = "run"
    PROVE  Load(j)
<1>0. pc \in [Instances -> Place]
  BY DEF TypeOK
<1>1. ASSUME NEW i \in Instances, Act(i) PROVE Load(j)
  <2>1. CASE Launch(i) \/ WaitGranted(i) \/ WaitTimesOut(i)
    BY <1>0, <2>1 DEF Launch, WaitGranted, WaitTimesOut
  <2>2. CASE Load(i)
    BY <1>0, <2>2 DEF Load
  <2>3. CASE (\E m \in Mem : Good(m) /\ Change(i, m)) \/ SaveDue(i) \/ RestartElevated(i) \/ Close(i)
    BY <2>3 DEF Change, SaveDue, RestartElevated, Close
  <2>4. CASE EndSession(i) \/ Relaunched(i)
    BY <1>0, <2>4 DEF EndSession, Relaunched, Running
  <2>5. CASE OpenTmp(i) \/ WriteTmp(i) \/ MoveTmp(i)
    <3>1. pc[i] = "run"
      BY <2>5, FileSteps DEF SaveGoesOn
    <3> QED  BY <2>5, <3>1, FileSteps, FileDoneIs
  <2>6. CASE Exit(i) \/ Crash(i)
    BY <1>0, <2>6 DEF Exit, Crash, Gone
  <2> QED  BY <1>1, <2>1, <2>2, <2>3, <2>4, <2>5, <2>6 DEF Act
<1> QED  BY <1>1 DEF Step, vars, ForeignEdit

\* An instance that starts after an orderly exit has what was left, but for the
\* digits that are not written and the ranges that reading imposes.
THEOREM RestartFindsSaved == Spec => RestartSeesSaved
<1> DEFINE Seen == \A i \in Instances :
                     /\ pc[i] = "load" /\ pc'[i] = "run" /\ kept.has
                     /\ slips' \intersect {"timeout", "unreadable"} = {}
                     => mem'[i] = AsRead(kept.val)
<1>1. ASSUME IInv, [Next]_vars PROVE [Seen]_vars
  <2> SUFFICES ASSUME NEW j \in Instances, pc[j] = "load", pc'[j] = "run", kept.has,
                      slips' \intersect {"timeout", "unreadable"} = {}
               PROVE  mem'[j] = AsRead(kept.val)
    OBVIOUS
  <2>1. TypeOK /\ GoodNames /\ Exclusive /\ SaveGoesOn /\ KeptThere /\ Step
    BY <1>1, StepsAre DEF IInv
  <2>2. Load(j)
    BY <2>1, OnlyLoad
  <2>3. Alone /\ "unreadable" \notin slips'
    BY <2>1, SlipsGrow DEF Alone
  <2>4. \A i \in Instances : pc[i] \in {"off", "wait", "load", "exit"}
    BY <2>1, <2>3, OnlyOne
  <2>5. \A f \in Files : disk[f] = Whole(kept.val, f)
    BY <2>1, <2>3, <2>4 DEF KeptThere
  <2>6. mem' = [mem EXCEPT ![j] = Loaded(Files)]
    BY <2>2, <2>3 DEF Load, Fault
  <2>7. kept.val \in Mem /\ Good(kept.val) /\ mem \in [Instances -> Mem]
    BY <2>1 DEF TypeOK, GoodNames
  <2>8. Loaded(Files) = AsRead(kept.val)
    BY <2>5, <2>7, LoadedKept
  <2> QED  BY <2>6, <2>7, <2>8
<1> QED  BY <1>1, Invariance, PTL DEF Spec, RestartSeesSaved
=============================================================================
