------------------------------ MODULE AppProofs ------------------------------
(***************************************************************************)
(* Proofs about Capture.tla, Log.tla and Lab.tla: a chord lands where it   *)
(* was asked for, the log loses no line unseen, the gate settles on the    *)
(* window in front, no lab run is shown without a reason and none leaves   *)
(* its test pad unless two runs met; for every number of captures, lines,  *)
(* pads, profiles and messages.                                            *)
(***************************************************************************)
EXTENDS Capture, Log, Lab, SequenceTheorems, WellFoundedInduction, TLAPS

-----------------------------------------------------------------------------
\* Captures. What they rest on is lost only by a capture begun between the
\* steps of the trigger thread.

CaptureTyped ==
    /\ captureTarget \in Targets \cup {None} /\ asked \in Seq(Targets)
    /\ captureState \in BOOLEAN /\ between \in BOOLEAN /\ mail \in Nat
    /\ hand \in [at : {"idle", "read", "reset"}, chord : Nat, left : BOOLEAN]
    /\ captured \in [valid : BOOLEAN, chord : Nat, left : BOOLEAN]
    /\ binding \in [Targets -> Nat]

\* A target waits until the chord is in its hands; a chord is for the last target.
Waiting ==
    /\ captureTarget # None => Len(asked) > 0 /\ asked[Len(asked)] = captureTarget
    /\ captureState => captureTarget # None
    /\ hand.at = "reset" \/ captured.valid => ~captureState
    /\ captureTarget # None => captureState \/ hand.at # "idle" \/ captured.valid
    /\ captured.valid => mail > 0 /\ captured.chord = Len(asked)
    /\ hand.at # "idle" => hand.chord = Len(asked)

Bound == \A t \in Targets : binding[t] # 0 => binding[t] <= Len(asked) /\ asked[binding[t]] = t

CaptureInv == CaptureTyped /\ (~between => Waiting /\ Bound)

\* What becomes of a chord that was handed over when it is taken or thrown away.
LEMMA Invalid ==
    ASSUME CaptureTyped, captured' = [captured EXCEPT !.valid = FALSE]
    PROVE  /\ captured' \in [valid : BOOLEAN, chord : Nat, left : BOOLEAN]
           /\ captured'.valid = FALSE
BY DEF CaptureTyped

LEMMA CaptureTypedStep == CaptureTyped /\ CaptureNext => CaptureTyped'
<1> SUFFICES ASSUME CaptureTyped, CaptureNext PROVE CaptureTyped'
  OBVIOUS
<1> USE CaptureConstants DEF CaptureTyped
<1>1. CASE BeginCapture
  <2>1. PICK t \in Targets \ {captureTarget} : captureTarget' = t /\ asked' = Append(asked, t)
    BY <1>1 DEF BeginCapture
  <2>2. asked' \in Seq(Targets) /\ captureTarget' \in Targets
    BY <2>1
  <2>3. captured' \in [valid : BOOLEAN, chord : Nat, left : BOOLEAN]
    BY <1>1, Invalid DEF BeginCapture
  <2>4. captureState' \in BOOLEAN /\ between' \in BOOLEAN /\ UNCHANGED <<hand, mail, binding>>
    BY <1>1 DEF BeginCapture
  <2> QED  BY <2>2, <2>3, <2>4
<1>2. CASE CancelCapture
  BY <1>2 DEF CancelCapture
<1>3. CASE KeyPicker
  BY <1>3 DEF KeyPicker
<1>4. CASE ApplyCaptured
  <2>1. mail' \in Nat /\ captured' \in [valid : BOOLEAN, chord : Nat, left : BOOLEAN]
    BY <1>4, Invalid DEF ApplyCaptured
  <2>2. captureTarget' \in Targets \cup {None}
    BY <1>4 DEF ApplyCaptured
  <2>3. binding' \in [Targets -> Nat]
    BY <1>4 DEF ApplyCaptured
  <2> QED  BY <1>4, <2>1, <2>2, <2>3 DEF ApplyCaptured
<1>5. CASE CapturePress
  <2>1. hand' \in [at : {"idle", "read", "reset"}, chord : Nat, left : BOOLEAN]
    <3>1. PICK l \in BOOLEAN :
            hand' = [at |-> "read", left |-> l,
                     chord |-> IF captureTarget = None THEN 0 ELSE Len(asked)]
      BY <1>5 DEF CapturePress
    <3>2. (IF captureTarget = None THEN 0 ELSE Len(asked)) \in Nat
      OBVIOUS
    <3> QED  BY <3>1, <3>2
  <2> QED  BY <1>5, <2>1 DEF CapturePress
<1>6. CASE Reset
  BY <1>6 DEF Reset
<1>7. CASE OnCaptured
  BY <1>7 DEF OnCaptured, Free
<1> QED  BY <1>1, <1>2, <1>3, <1>4, <1>5, <1>6, <1>7 DEF CaptureNext

LEMMA WaitingStep ==
    CaptureTyped /\ Waiting /\ Bound /\ CaptureNext /\ ~between' => Waiting' /\ Bound'
<1> SUFFICES ASSUME CaptureTyped, Waiting, Bound, CaptureNext, ~between' PROVE Waiting' /\ Bound'
  OBVIOUS
<1> USE CaptureConstants DEF CaptureTyped, Waiting, Bound
<1>1. CASE BeginCapture
  <2>1. PICK t \in Targets \ {captureTarget} : captureTarget' = t /\ asked' = Append(asked, t)
    BY <1>1 DEF BeginCapture
  <2>2. /\ Len(asked') = Len(asked) + 1 /\ asked'[Len(asked')] = t
        /\ \A k \in 1 .. Len(asked) : asked'[k] = asked[k]
    BY <2>1
  <2>3. Waiting'
    <3>1. hand.at = "idle" /\ UNCHANGED <<hand, mail>> /\ captureState' = TRUE
      BY <1>1 DEF BeginCapture
    <3>2. captured'.valid = FALSE
      BY <1>1, Invalid DEF BeginCapture
    <3> QED  BY <2>1, <2>2, <3>1, <3>2
  <2>4. Bound'
    BY <1>1, <2>2 DEF BeginCapture
  <2> QED  BY <2>3, <2>4
<1>2. CASE CancelCapture
  BY <1>2 DEF CancelCapture
<1>3. CASE KeyPicker
  BY <1>3 DEF KeyPicker
<1>4. CASE ApplyCaptured
  <2>1. Waiting'
    BY <1>4 DEF ApplyCaptured
  <2>2. Bound'
    BY <1>4 DEF ApplyCaptured
  <2> QED  BY <2>1, <2>2
<1>5. CASE CapturePress
  BY <1>5 DEF CapturePress
<1>6. CASE Reset
  BY <1>6 DEF Reset
<1>7. CASE OnCaptured
  BY <1>7 DEF OnCaptured, Free
<1> QED  BY <1>1, <1>2, <1>3, <1>4, <1>5, <1>6, <1>7 DEF CaptureNext

LEMMA CaptureStart == CaptureInit => CaptureInv
<1> SUFFICES ASSUME CaptureInit PROVE CaptureInv
  OBVIOUS
<1>1. CaptureTyped
  <2>1. asked \in Seq(Targets) /\ binding \in [Targets -> Nat]
    BY DEF CaptureInit
  <2>2. /\ hand \in [at : {"idle", "read", "reset"}, chord : Nat, left : BOOLEAN]
        /\ captured \in [valid : BOOLEAN, chord : Nat, left : BOOLEAN]
    BY DEF CaptureInit, Free
  <2> QED  BY <2>1, <2>2 DEF CaptureInit, CaptureTyped
<1>2. Waiting
  BY DEF CaptureInit, Waiting, Free
<1>3. Bound
  BY DEF CaptureInit, Bound
<1> QED  BY <1>1, <1>2, <1>3 DEF CaptureInv

LEMMA CaptureStep == CaptureInv /\ [CaptureNext]_capturevars => CaptureInv'
<1> SUFFICES ASSUME CaptureInv, [CaptureNext]_capturevars PROVE CaptureInv'
  OBVIOUS
<1>1. CASE CaptureNext
  <2>1. between => between'
    BY <1>1 DEF CaptureNext, BeginCapture, CancelCapture, KeyPicker, ApplyCaptured, CapturePress,
                Reset, OnCaptured
  <2> QED  BY <1>1, <2>1, CaptureTypedStep, WaitingStep DEF CaptureInv
<1>2. CASE UNCHANGED capturevars
  BY <1>2 DEF capturevars, CaptureInv, CaptureTyped, Waiting, Bound
<1> QED  BY <1>1, <1>2

LEMMA CaptureInductive == CaptureSpec => []CaptureInv
BY CaptureStart, CaptureStep, PTL DEF CaptureSpec

\* A chord is bound to the field that waited when it was pressed (App.cpp
\* beginCapture(), applyCaptured()).
THEOREM ChordsLandAsAsked == CaptureSpec => []BoundAsAsked
<1>1. CaptureInv => BoundAsAsked
  BY DEF CaptureInv, Bound, BoundAsAsked
<1> QED  BY CaptureInductive, <1>1, PTL

\* With nothing on its way, a field waits exactly when the trigger thread takes
\* the next press (TriggerEngine.cpp handleKey(), App.cpp cancelCapture()).
THEOREM FieldsAgree == CaptureSpec => []CaptureAgrees
<1>1. CaptureInv => CaptureAgrees
  BY DEF CaptureInv, CaptureTyped, Waiting, CaptureAgrees
<1> QED  BY CaptureInductive, <1>1, PTL

-----------------------------------------------------------------------------
\* Lists of growing numbers: joined, split and extended.

Growing(s) == \A j, k \in 1 .. Len(s) : j < k => s[j] < s[k]
Below(A, B) == \A a \in A, b \in B : a < b

LEMMA ToSetIs ==
    ASSUME NEW s \in Seq(Nat)
    PROVE  /\ ToSet(s) \subseteq Nat
           /\ \A x : x \in ToSet(s) <=> \E k \in 1 .. Len(s) : x = s[k]
BY LenProperties, ElementOfSeq DEF ToSet

LEMMA Joining ==
    ASSUME NEW s \in Seq(Nat), NEW t \in Seq(Nat)
    PROVE  /\ s \o t \in Seq(Nat)
           /\ ToSet(s \o t) = ToSet(s) \cup ToSet(t)
           /\ Growing(s) /\ Growing(t) /\ Below(ToSet(s), ToSet(t)) => Growing(s \o t)
<1>1. /\ s \o t \in Seq(Nat) /\ Len(s \o t) = Len(s) + Len(t)
      /\ Len(s) \in Nat /\ Len(t) \in Nat
      /\ \A k \in 1 .. Len(s) : (s \o t)[k] = s[k]
      /\ \A k \in Len(s) + 1 .. Len(s) + Len(t) : k - Len(s) \in 1 .. Len(t) /\ (s \o t)[k] = t[k - Len(s)]
  OBVIOUS
<1>2. ToSet(s \o t) = ToSet(s) \cup ToSet(t)
  <2>1. ASSUME NEW x \in ToSet(s \o t) PROVE x \in ToSet(s) \cup ToSet(t)
    <3>0. PICK k \in 1 .. Len(s \o t) : x = (s \o t)[k]
      <4>1. s \o t \in Seq(Nat)
        BY <1>1
      <4> QED  BY <2>1, <4>1, ToSetIs
    <3>1. k \in 1 .. Len(s) + Len(t)
      BY <1>1
    <3>2. CASE k <= Len(s)
      BY <1>1, <3>0, <3>2, ToSetIs
    <3>3. CASE k > Len(s)
      <4>1. k - Len(s) \in 1 .. Len(t) /\ x = t[k - Len(s)]
        BY <1>1, <3>0, <3>1, <3>3
      <4> QED  BY <4>1, ToSetIs
    <3> QED  BY <1>1, <3>1, <3>2, <3>3
  <2>2. ASSUME NEW x \in ToSet(s) PROVE x \in ToSet(s \o t)
    <3>1. PICK k \in 1 .. Len(s) : x = s[k]
      BY <2>2, ToSetIs
    <3>2. k \in 1 .. Len(s \o t) /\ x = (s \o t)[k]
      BY <1>1, <3>1
    <3> QED  BY <1>1, <3>2, ToSetIs
  <2>3. ASSUME NEW x \in ToSet(t) PROVE x \in ToSet(s \o t)
    <3>1. PICK k \in 1 .. Len(t) : x = t[k]
      BY <2>3, ToSetIs
    <3>2. Len(s) + k \in 1 .. Len(s \o t) /\ x = (s \o t)[Len(s) + k]
      BY <1>1, <3>1
    <3> QED  BY <1>1, <3>2, ToSetIs
  <2> QED  BY <2>1, <2>2, <2>3
<1>3. ASSUME Growing(s), Growing(t), Below(ToSet(s), ToSet(t)) PROVE Growing(s \o t)
  <2> SUFFICES ASSUME NEW j \in 1 .. Len(s) + Len(t), NEW k \in 1 .. Len(s) + Len(t), j < k
               PROVE  (s \o t)[j] < (s \o t)[k]
    BY <1>1 DEF Growing
  <2>1. CASE k <= Len(s)
    BY <1>1, <1>3, <2>1 DEF Growing
  <2>2. CASE j > Len(s)
    <3>1. /\ j - Len(s) \in 1 .. Len(t) /\ k - Len(s) \in 1 .. Len(t) /\ j - Len(s) < k - Len(s)
          /\ (s \o t)[j] = t[j - Len(s)] /\ (s \o t)[k] = t[k - Len(s)]
      BY <1>1, <2>2
    <3> QED  BY <1>3, <3>1 DEF Growing
  <2>3. CASE j <= Len(s) /\ k > Len(s)
    <3>1. s[j] \in ToSet(s) /\ t[k - Len(s)] \in ToSet(t)
      BY <1>1, <2>3, ToSetIs
    <3> QED  BY <1>1, <1>3, <2>3, <3>1 DEF Below
  <2> QED  BY <1>1, <2>1, <2>2, <2>3
<1> QED  BY <1>1, <1>2, <1>3

LEMMA Splitting ==
    ASSUME NEW s \in Seq(Nat), NEW n \in 0 .. Len(s)
    PROVE  /\ SubSeq(s, 1, n) \in Seq(Nat)
           /\ ToSet(SubSeq(s, 1, n)) \cup ToSet(SubSeq(s, n + 1, Len(s))) = ToSet(s)
           /\ Growing(s) => Growing(SubSeq(s, 1, n))
<1> DEFINE u == SubSeq(s, 1, n)
           v == SubSeq(s, n + 1, Len(s))
<1>1. /\ u \in Seq(Nat) /\ Len(u) = n
      /\ \A k \in 1 .. n : u[k] = s[k]
  BY LenProperties, ElementOfSeq, SubSeqProperties
<1>2. v \in Seq(Nat) /\ u \o v = s
  <2>1. Len(s) \in Nat /\ SubSeq(s, 1, Len(s)) = s
    BY LenProperties, SubSeqFull
  <2>2. u \o v = SubSeq(s, 1, Len(s))
    <3>1. 1 \in 1 .. Len(s) + 1 /\ n \in 1 - 1 .. Len(s) /\ Len(s) \in n .. Len(s)
      BY <2>1
    <3> QED  BY <3>1, ConcatAdjacentSubSeq
  <2>3. \A k \in n + 1 .. Len(s) : s[k] \in Nat
    BY <2>1, ElementOfSeq
  <2>4. v \in Seq(Nat)
    BY <2>1, <2>3, SubSeqProperties
  <2> QED  BY <2>1, <2>2, <2>4
<1>3. ToSet(u) \cup ToSet(v) = ToSet(s)
  BY <1>1, <1>2, Joining
<1>4. Growing(s) => Growing(u)
  BY <1>1, LenProperties DEF Growing
<1> QED  BY <1>1, <1>3, <1>4

LEMMA Extending ==
    ASSUME NEW s \in Seq(Nat), NEW x \in Nat
    PROVE  /\ Append(s, x) \in Seq(Nat)
           /\ ToSet(Append(s, x)) = ToSet(s) \cup {x}
           /\ Growing(s) /\ Below(ToSet(s), {x}) => Growing(Append(s, x))
<1>1. Append(s, x) = s \o <<x>> /\ <<x>> \in Seq(Nat) /\ Len(<<x>>) = 1
  OBVIOUS
<1>2. ToSet(<<x>>) = {x} /\ Growing(<<x>>)
  <2>1. \A k \in 1 .. Len(<<x>>) : k = 1 /\ <<x>>[k] = x
    BY <1>1
  <2>2. 1 \in 1 .. Len(<<x>>)
    BY <1>1
  <2>3. ToSet(<<x>>) = {x}
    BY <1>1, <2>1, <2>2 DEF ToSet
  <2>4. Growing(<<x>>)
    BY <2>1 DEF Growing
  <2> QED  BY <2>3, <2>4
<1> QED  BY <1>1, <1>2, Joining

-----------------------------------------------------------------------------
\* The log: four lists, one after the other, and what was given up.

LogTyped ==
    /\ counter \in Nat /\ lost \subseteq Nat
    /\ pending \in Seq(Nat) /\ batch \in Seq(Nat) /\ file \in Seq(Nat) /\ old \in Seq(Nat)
    /\ at \in {"wait", "append", "over", "last", "gone"}
    /\ quit \in BOOLEAN /\ started \in BOOLEAN /\ fileOn \in BOOLEAN

InOrder ==
    /\ Growing(old) /\ Growing(file) /\ Growing(batch) /\ Growing(pending)
    /\ Below(ToSet(old), ToSet(file)) /\ Below(ToSet(old), ToSet(batch))
    /\ Below(ToSet(old), ToSet(pending)) /\ Below(ToSet(file), ToSet(batch))
    /\ Below(ToSet(file), ToSet(pending)) /\ Below(ToSet(batch), ToSet(pending))

Complete ==
    ToSet(old) \cup ToSet(file) \cup ToSet(batch) \cup ToSet(pending) \cup lost = 1 .. counter

Phases ==
    /\ at \in {"wait", "over", "gone"} => batch = <<>>
    /\ at = "last" => pending = <<>>
    /\ at = "gone" => ToSet(pending) \subseteq lost
    /\ at \in {"over", "last", "gone"} => quit
    /\ ~started => at = "gone"

LogInv == LogTyped /\ InOrder /\ Complete /\ Phases

LEMMA Nothing == ToSet(<<>>) = {} /\ Growing(<<>>) /\ <<>> \in Seq(Nat)
BY DEF ToSet, Growing

\* The file grows by the part of the batch that was written; the rest is lost.
LEMMA Appending ==
    ASSUME LogTyped, InOrder, Complete, NEW n \in 0 .. Len(batch), NEW rotate \in BOOLEAN, NEW r,
           Written(n, rotate, r), batch' = <<>>, UNCHANGED <<counter, pending>>
    PROVE  /\ file' \in Seq(Nat) /\ old' \in Seq(Nat) /\ lost' \subseteq Nat /\ lost \subseteq lost'
           /\ InOrder' /\ Complete'
<1> DEFINE head == SubSeq(batch, 1, n)
           rest == SubSeq(batch, n + 1, Len(batch))
           before == IF rotate THEN <<>> ELSE file
<1>1. /\ head \in Seq(Nat) /\ ToSet(head) \cup ToSet(rest) = ToSet(batch) /\ Growing(head)
  BY Splitting DEF LogTyped, InOrder
<1>2. /\ file' = before \o head /\ old' = (IF rotate THEN file ELSE old)
      /\ lost' = lost \cup ToSet(rest) \cup (IF rotate THEN ToSet(old) ELSE {})
  BY DEF Written
<1>3. /\ before \in Seq(Nat) /\ Growing(before) /\ Below(ToSet(before), ToSet(head))
      /\ ToSet(before) = (IF rotate THEN {} ELSE ToSet(file))
  BY <1>1, Nothing DEF LogTyped, InOrder, Below
<1> HIDE DEF head, rest, before
<1>4. file' \in Seq(Nat) /\ Growing(file') /\ ToSet(file') = ToSet(before) \cup ToSet(head)
  BY <1>1, <1>2, <1>3, Joining
<1>5. Complete'
  BY <1>1, <1>2, <1>3, <1>4, Nothing DEF Complete
<1>6. InOrder'
  <2>1. /\ Growing(file') /\ Growing(old') /\ Growing(batch') /\ Growing(pending')
    BY <1>2, <1>4, Nothing DEF InOrder, Growing
  <2>2. /\ ToSet(file') \subseteq ToSet(file) \cup ToSet(batch)
        /\ rotate => ToSet(file') \subseteq ToSet(batch)
    BY <1>1, <1>3, <1>4
  <2>3. Below(ToSet(old'), ToSet(file')) /\ Below(ToSet(old'), ToSet(pending'))
        /\ Below(ToSet(file'), ToSet(pending'))
    BY <1>2, <2>2 DEF InOrder, Below
  <2>4. ToSet(batch') = {}
    BY Nothing
  <2> QED  BY <2>1, <2>3, <2>4 DEF InOrder, Growing, Below
<1>7. old' \in Seq(Nat) /\ lost' \subseteq Nat /\ lost \subseteq lost'
  <2>1. ToSet(old) \subseteq Nat /\ ToSet(batch) \subseteq Nat
    BY ToSetIs DEF LogTyped
  <2> QED  BY <1>1, <1>2, <2>1 DEF LogTyped
<1> QED  BY <1>4, <1>5, <1>6, <1>7

LEMMA AppendsToFile ==
    ASSUME LogInv, AppendToFile, batch' = <<>>, UNCHANGED <<counter, pending>>
    PROVE  /\ file' \in Seq(Nat) /\ old' \in Seq(Nat) /\ lost' \subseteq Nat /\ lost \subseteq lost'
           /\ InOrder' /\ Complete'
<1>1. PICK n \in 0 .. Len(batch), rotate \in BOOLEAN, r \in {0, 1} : Written(n, rotate, r)
  <2> DEFINE long == Len(file) > RotateLines
  <2>1. Len(batch) \in 0 .. Len(batch)
    BY LenProperties DEF LogInv, LogTyped
  <2>2. ASSUME Written(Len(batch), long, 0) PROVE \E rotate \in BOOLEAN : Written(Len(batch), rotate, 0)
    <3>1. CASE long
      BY <2>2, <3>1 DEF Written
    <3>2. CASE ~long
      BY <2>2, <3>2 DEF Written
    <3> QED  BY <3>1, <3>2
  <2> QED  BY <2>1, <2>2 DEF AppendToFile
<1> QED  BY <1>1, Appending DEF LogInv

LEMMA LogStart == LogInit => LogInv
<1> SUFFICES ASSUME LogInit PROVE LogInv
  OBVIOUS
<1>1. LogTyped /\ Phases
  BY Nothing DEF LogInit, LogTyped, Phases
<1>2. InOrder /\ Complete
  BY Nothing DEF LogInit, InOrder, Complete, Growing, Below
<1> QED  BY <1>1, <1>2 DEF LogInv

LEMMA LogStep == LogInv /\ [LogNext]_logvars => LogInv'
<1> SUFFICES ASSUME LogInv, [LogNext]_logvars PROVE LogInv'
  OBVIOUS
<1>1. CASE Write
  <2>1. /\ counter' = counter + 1 /\ at \notin {"last", "gone"} /\ started
        /\ UNCHANGED <<batch, at, quit, started, fileOn, file, old>>
    BY <1>1 DEF Write, LogInv, Phases
  <2>2. CASE pending' = Append(pending, counter') /\ lost' = lost
    <3>1. /\ pending' \in Seq(Nat) /\ ToSet(pending') = ToSet(pending) \cup {counter + 1}
          /\ Growing(pending) /\ Below(ToSet(pending), {counter + 1}) => Growing(pending')
      <4>1. pending \in Seq(Nat) /\ counter + 1 \in Nat /\ pending' = Append(pending, counter + 1)
        BY <2>1, <2>2 DEF LogInv, LogTyped
      <4> QED  BY <4>1, Extending
    <3>2. \A x \in ToSet(old) \cup ToSet(file) \cup ToSet(batch) \cup ToSet(pending) : x < counter + 1
      BY DEF LogInv, Complete, LogTyped
    <3>3. InOrder'
      BY <2>1, <3>1, <3>2 DEF LogInv, InOrder, Below, Growing
    <3>4. Complete'
      BY <2>1, <2>2, <3>1 DEF LogInv, Complete, LogTyped
    <3> QED  BY <2>1, <2>2, <3>1, <3>3, <3>4 DEF LogInv, LogTyped, Phases
  <2>3. CASE pending' = pending /\ lost' = lost \cup {counter'}
    <3>1. Complete'
      BY <2>1, <2>3 DEF LogInv, Complete, LogTyped
    <3> QED  BY <2>1, <2>3, <3>1 DEF LogInv, LogTyped, InOrder, Phases, Growing, Below
  <2> QED  BY <1>1, <2>2, <2>3 DEF Write
<1>2. CASE SetFileEnabled \/ Quit \/ Joined
  <2>1. UNCHANGED <<counter, pending, batch, at, file, old, lost>>
    BY <1>2 DEF SetFileEnabled, Quit, Joined, lists, files
  <2>2. LogTyped' /\ Phases'
    BY <1>2, <2>1 DEF SetFileEnabled, Quit, Joined, LogInv, LogTyped, Phases
  <2> QED  BY <2>1, <2>2 DEF LogInv, InOrder, Complete, Growing, Below
<1>3. CASE Take
  <2>1. /\ batch' = pending /\ pending' = <<>> /\ at' = "append" /\ batch = <<>> /\ started
        /\ UNCHANGED <<counter, quit, started, fileOn, file, old, lost>>
    BY <1>3 DEF Take, files, LogInv, Phases
  <2> QED  BY <2>1, Nothing DEF LogInv, LogTyped, InOrder, Complete, Phases, Growing, Below
<1>4. CASE AppendBatch
  <2>1. /\ batch' = <<>> /\ at' = (IF quit THEN "over" ELSE "wait") /\ started
        /\ UNCHANGED <<counter, pending, quit, started, fileOn>>
    BY <1>4 DEF AppendBatch, LogInv, Phases
  <2>2. CASE AppendToFile
    BY <2>1, <2>2, AppendsToFile, Nothing DEF LogInv, LogTyped, Phases
  <2>3. CASE Drop
    <3>1. lost' = lost \cup ToSet(batch) /\ UNCHANGED <<file, old>>
      BY <2>3 DEF Drop
    <3>2. ToSet(batch) \subseteq Nat
      BY ToSetIs DEF LogInv, LogTyped
    <3> QED  BY <2>1, <3>1, <3>2, Nothing
             DEF LogInv, LogTyped, InOrder, Complete, Phases, Growing, Below
  <2> QED  BY <1>4, <2>2, <2>3 DEF AppendBatch
<1>5. CASE TakeLast
  <2>1. UNCHANGED <<counter, quit, started, fileOn, file, old>> /\ batch = <<>> /\ quit /\ started
    BY <1>5 DEF TakeLast, LogInv, Phases
  <2>2. CASE batch' = pending /\ pending' = <<>> /\ at' = "last" /\ UNCHANGED lost
    BY <2>1, <2>2, Nothing DEF LogInv, LogTyped, InOrder, Complete, Phases, Growing, Below
  <2>3. CASE at' = "gone" /\ lost' = lost \cup ToSet(pending) /\ UNCHANGED <<batch, pending>>
    <3>1. ToSet(pending) \subseteq Nat
      BY ToSetIs DEF LogInv, LogTyped
    <3> QED  BY <2>1, <2>3, <3>1 DEF LogInv, LogTyped, InOrder, Complete, Phases, Growing, Below
  <2> QED  BY <1>5, <2>2, <2>3 DEF TakeLast
<1>6. CASE AppendLast
  <2>1. /\ batch' = <<>> /\ at' = "gone" /\ AppendToFile /\ at = "last" /\ quit
        /\ UNCHANGED <<counter, pending, quit, started, fileOn>>
    BY <1>6 DEF AppendLast, LogInv, Phases
  <2> QED  BY <2>1, AppendsToFile, Nothing DEF LogInv, LogTyped, Phases
<1>7. CASE UNCHANGED logvars
  BY <1>7 DEF logvars, lists, files, LogInv, LogTyped, InOrder, Complete, Phases, Growing, Below
<1> QED  BY <1>1, <1>2, <1>3, <1>4, <1>5, <1>6, <1>7 DEF LogNext

LEMMA LogInductive == LogSpec => []LogInv
BY LogStart, LogStep, PTL DEF LogSpec

\* Every line accepted is in the files or on its way, once and in order, or was
\* given up: it came with the file off, Windows refused it, or it was rotated
\* away (Log.cpp writerLoop(), appendToFile()).
THEOREM NoLineLost == LogSpec => []LogKeepsLines
<1>1. ASSUME LogInv PROVE LogKeepsLines
  <2> DEFINE coming == IF started THEN batch \o pending ELSE <<>>
             kept == old \o file \o coming
  <2>1. /\ coming \in Seq(Nat) /\ Growing(coming) /\ Below(ToSet(old) \cup ToSet(file), ToSet(coming))
        /\ ToSet(coming) \cup lost = ToSet(batch) \cup ToSet(pending) \cup lost
    <3>1. CASE started
      <4>1. coming = batch \o pending
        BY <3>1
      <4>2. coming \in Seq(Nat) /\ Growing(coming) /\ ToSet(coming) = ToSet(batch) \cup ToSet(pending)
        BY <1>1, <4>1, Joining DEF LogInv, LogTyped, InOrder
      <4> QED  BY <1>1, <4>2 DEF LogInv, InOrder, Below
    <3>2. CASE ~started
      <4>1. coming = <<>> /\ batch = <<>> /\ ToSet(pending) \subseteq lost
        BY <1>1, <3>2 DEF LogInv, Phases
      <4> QED  BY <4>1, Nothing DEF Below
    <3> QED  BY <3>1, <3>2
  <2>2. /\ old \o file \in Seq(Nat) /\ Growing(old \o file)
        /\ ToSet(old \o file) = ToSet(old) \cup ToSet(file)
    BY <1>1, Joining DEF LogInv, LogTyped, InOrder
  <2> HIDE DEF coming
  <2>3. /\ kept \in Seq(Nat) /\ Growing(kept)
        /\ ToSet(kept) = ToSet(old) \cup ToSet(file) \cup ToSet(coming)
    BY <2>1, <2>2, Joining
  <2>4. ToSet(kept) \cup lost = 1 .. counter
    BY <1>1, <2>1, <2>3 DEF LogInv, Complete
  <2>5. DOMAIN kept = 1 .. Len(kept)
    BY <2>3, LenProperties
  <2>6. \A j, k \in DOMAIN kept : j < k => kept[j] < kept[k]
    BY <2>3, <2>5 DEF Growing
  <2> QED  BY <2>4, <2>6 DEF LogKeepsLines, coming
<1> QED  BY LogInductive, <1>1, PTL

-----------------------------------------------------------------------------
\* The gate: what the trigger thread has, is about to read and has judged.

GateTyped ==
    /\ pad \in [hwnd : Nat, thread : BOOLEAN, made : Nat]
    /\ fg \in [kind : {"own", "app", "other", "pad"}, pad : Nat]
    /\ events \in Seq([kind : {"own", "app", "other", "pad"}, pad : Nat])
    /\ reconfigs \in Nat
    /\ profile \in Profiles
    /\ {posted, tcfg} \subseteq [testPad : Nat, filter : BOOLEAN, own : BOOLEAN]

\* A pad in front is the one that is open, and the last configuration names it.
PadKnown ==
    /\ fg.kind = "pad" => fg.pad = pad.hwnd /\ pad.hwnd # 0
    /\ posted.filter = profile.filter /\ posted.own = profile.own
    /\ pad.hwnd # 0 => posted.testPad = pad.hwnd

\* The last word is the window in front and the configuration left last.
LastWordCounts ==
    /\ events # <<>> => events[Len(events)] = fg
    /\ reconfigs = 0 => tcfg = posted
    /\ events = <<>> /\ reconfigs = 0 => gate = Evaluate(tcfg, fg)

GateInv == ~dead => GateTyped /\ PadKnown /\ LastWordCounts

LEMMA BringsToFront ==
    ASSUME GateTyped, LastWordCounts,
           NEW w \in [kind : {"own", "app", "other", "pad"}, pad : Nat], ToFront(w)
    PROVE  /\ fg' = w
           /\ events' \in Seq([kind : {"own", "app", "other", "pad"}, pad : Nat])
           /\ events' # <<>> => events'[Len(events')] = w
           /\ events' = <<>> => w = fg /\ events = <<>>
<1>1. CASE w = fg
  BY <1>1 DEF ToFront, GateTyped, LastWordCounts
<1>2. CASE w # fg
  <2>1. events' = Append(events, w) /\ fg' = w
    BY <1>2 DEF ToFront
  <2> QED  BY <2>1 DEF GateTyped
<1> QED  BY <1>1, <1>2

LEMMA Configures ==
    ASSUME GateTyped, NEW p \in Profiles, NEW h \in Nat, NEW t, ApplyConfigs(p, h, t)
    PROVE  /\ posted' \in [testPad : Nat, filter : BOOLEAN, own : BOOLEAN]
           /\ posted'.testPad = h /\ posted'.filter = p.filter /\ posted'.own = p.own
           /\ reconfigs' \in Nat /\ reconfigs' # 0
<1>1. p.filter \in BOOLEAN /\ p.own \in BOOLEAN
  BY LabConstants
<1>2. posted' = [testPad |-> h, filter |-> p.filter, own |-> p.own] /\ reconfigs' = reconfigs + 1
  BY DEF ApplyConfigs
<1> QED  BY <1>1, <1>2 DEF GateTyped

LEMMA PadGoes ==
    ASSUME GateTyped, PadKnown, LastWordCounts, pad.hwnd # 0, WindowGone(pad.hwnd)
    PROVE  /\ fg' \in [kind : {"own", "app", "other", "pad"}, pad : Nat] /\ fg'.kind # "pad"
           /\ events' \in Seq([kind : {"own", "app", "other", "pad"}, pad : Nat])
           /\ events' # <<>> => events'[Len(events')] = fg'
           /\ events' = <<>> => fg' = fg /\ events = <<>>
<1>1. CASE fg = PadWindow(pad.hwnd)
  <2>1. PICK w \in {Own, App, Other} : ToFront(w)
    BY <1>1 DEF WindowGone
  <2>2. w \in [kind : {"own", "app", "other", "pad"}, pad : Nat] /\ w.kind # "pad"
    BY DEF Own, App, Other
  <2> QED  BY <2>1, <2>2, BringsToFront
<1>2. CASE fg # PadWindow(pad.hwnd)
  <2>1. fg' = fg /\ events' = events
    BY <1>2 DEF WindowGone
  <2>2. fg.kind # "pad"
    BY <1>2 DEF GateTyped, PadKnown, PadWindow
  <2> QED  BY <2>1, <2>2 DEF GateTyped, LastWordCounts
<1> QED  BY <1>1, <1>2

LEMMA PadComes ==
    ASSUME GateTyped, PadKnown, LastWordCounts, OpenPad, ~dead'
    PROVE  /\ pad' \in [hwnd : Nat, thread : BOOLEAN, made : Nat]
           /\ fg' \in [kind : {"own", "app", "other", "pad"}, pad : Nat]
           /\ fg'.kind = "pad" => fg'.pad = pad'.hwnd /\ pad'.hwnd # 0
           /\ events' \in Seq([kind : {"own", "app", "other", "pad"}, pad : Nat])
           /\ events' # <<>> => events'[Len(events')] = fg'
<1>1. CASE UNCHANGED <<pad, fg, events>>
  BY <1>1 DEF GateTyped, PadKnown, LastWordCounts
<1>2. CASE pad.hwnd = 0 /\ pad' = [pad EXCEPT !.thread = TRUE] /\ UNCHANGED <<fg, events>>
  BY <1>2 DEF GateTyped, PadKnown, LastWordCounts
<1>3. CASE /\ pad.hwnd = 0
           /\ pad' = [hwnd |-> pad.made + 1, thread |-> TRUE, made |-> pad.made + 1]
           /\ \E w \in {fg, PadWindow(pad.made + 1)} : ToFront(w)
  <2>1. pad.made + 1 \in Nat \ {0}
    BY DEF GateTyped
  <2>2. pad' \in [hwnd : Nat, thread : BOOLEAN, made : Nat] /\ pad'.hwnd = pad.made + 1
    BY <1>3, <2>1
  <2>3. PICK w \in {fg, PadWindow(pad.made + 1)} : ToFront(w)
    BY <1>3
  <2>4. /\ w \in [kind : {"own", "app", "other", "pad"}, pad : Nat]
        /\ w.kind = "pad" => w.pad = pad.made + 1
    BY <1>3, <2>1 DEF PadWindow, GateTyped, PadKnown
  <2> QED  BY <2>1, <2>2, <2>3, <2>4, BringsToFront
<1> QED  BY <1>1, <1>2, <1>3 DEF OpenPad

LEMMA GateStart == Init => GateInv
<1> SUFFICES ASSUME Init PROVE GateInv
  OBVIOUS
<1>1. profile.filter \in BOOLEAN /\ profile.own \in BOOLEAN
  BY LabConstants DEF Init
<1>2. Wanted \in [testPad : Nat, filter : BOOLEAN, own : BOOLEAN]
  BY <1>1 DEF Init, Wanted
<1>3. GateTyped
  <2>1. pad \in [hwnd : Nat, thread : BOOLEAN, made : Nat]
    BY DEF Init
  <2>2. fg \in [kind : {"own", "app", "other", "pad"}, pad : Nat]
    BY DEF Init, Own
  <2> QED  BY <1>2, <2>1, <2>2 DEF Init, GateTyped
<1>4. PadKnown
  BY DEF Init, Own, Wanted, PadKnown
<1>5. LastWordCounts
  BY DEF Init, LastWordCounts
<1> QED  BY <1>3, <1>4, <1>5 DEF GateInv

LEMMA GateStep == GateInv /\ [Next]_vars => GateInv'
<1> SUFFICES ASSUME GateInv, [Next]_vars, ~dead' PROVE GateTyped' /\ PadKnown' /\ LastWordCounts'
  BY DEF GateInv
<1> DEFINE gatevars == <<pad, fg, events, reconfigs, profile, posted, tcfg, gate>>
<1>0. GateTyped /\ PadKnown /\ LastWordCounts
  <2>1. ~dead
    BY DEF Next, vars, ForegroundEvent, Reconfig, Foreground, PadClosedByUser, SelectProfile,
           OpenByButton, CloseByButton, StartTest, Operate, StartRun, Tick, Press, Idle, RunAction,
           RunNotices, RunResumes, RunStopped, RunOver
  <2> QED  BY <2>1 DEF GateInv
<1>1. CASE ForegroundEvent
  <2>1. events' = Tail(events) /\ events # <<>> /\ gate' = Evaluate(tcfg, Head(events))
        /\ UNCHANGED <<pad, fg, reconfigs, profile, posted, tcfg>>
    BY <1>1 DEF ForegroundEvent, uivars
  <2>2. events' \in Seq([kind : {"own", "app", "other", "pad"}, pad : Nat])
        /\ Len(events') = Len(events) - 1
    BY <1>0, <2>1 DEF GateTyped
  <2>3. events' # <<>> => events'[Len(events')] = events[Len(events)]
    BY <1>0, <2>1, <2>2 DEF GateTyped
  <2>4. ASSUME events' = <<>> PROVE Head(events) = events[Len(events)]
    <3>1. Len(events') = 0
      BY <2>4
    <3>2. Len(events) = 1
      BY <1>0, <2>2, <3>1, LenProperties DEF GateTyped
    <3> QED  BY <1>0, <2>1, <3>2 DEF GateTyped
  <2>5. GateTyped' /\ PadKnown'
    BY <1>0, <2>1, <2>2 DEF GateTyped, PadKnown
  <2>6. LastWordCounts'
    BY <1>0, <2>1, <2>3, <2>4 DEF LastWordCounts, Evaluate, Exists
  <2> QED  BY <2>5, <2>6
<1>2. CASE Reconfig
  <2>1. /\ reconfigs' = reconfigs - 1 /\ reconfigs > 0 /\ tcfg' = posted /\ gate' = Evaluate(posted, fg)
        /\ UNCHANGED <<pad, fg, events, profile, posted>>
    BY <1>2 DEF Reconfig, uivars
  <2> QED  BY <1>0, <2>1 DEF GateTyped, PadKnown, LastWordCounts, Evaluate, Exists
<1>3. CASE Foreground
  <2>1. PICK w \in {Own, App, Other, PadWindow(pad.hwnd)} :
          w # fg /\ (w.kind = "pad" => pad.hwnd # 0) /\ ToFront(w)
    BY <1>3 DEF Foreground
  <2>2. /\ w \in [kind : {"own", "app", "other", "pad"}, pad : Nat]
        /\ w.kind = "pad" => w.pad = pad.hwnd
    BY <1>0 DEF Own, App, Other, PadWindow, GateTyped
  <2>3. UNCHANGED <<pad, reconfigs, profile, posted, tcfg, gate>>
    BY <1>3 DEF Foreground, uivars
  <2>4. /\ fg' = w /\ events' \in Seq([kind : {"own", "app", "other", "pad"}, pad : Nat])
        /\ events' # <<>> /\ events'[Len(events')] = w
    BY <1>0, <2>1, <2>2, BringsToFront
  <2> QED  BY <1>0, <2>1, <2>2, <2>3, <2>4 DEF GateTyped, PadKnown, LastWordCounts
<1>4. CASE PadClosedByUser
  <2>1. /\ pad.hwnd # 0 /\ pad' = [pad EXCEPT !.hwnd = 0] /\ WindowGone(pad.hwnd)
        /\ UNCHANGED <<reconfigs, profile, posted, tcfg, gate>>
    BY <1>4 DEF PadClosedByUser, uivars
  <2>2. pad' \in [hwnd : Nat, thread : BOOLEAN, made : Nat] /\ pad'.hwnd = 0
    BY <1>0, <2>1 DEF GateTyped
  <2>3. GateTyped' /\ PadKnown'
    BY <1>0, <2>1, <2>2, PadGoes DEF GateTyped, PadKnown
  <2>4. LastWordCounts'
    BY <1>0, <2>1, PadGoes DEF LastWordCounts, Evaluate, Exists
  <2> QED  BY <2>3, <2>4
<1>5. CASE SelectProfile
  <2>1. PICK p \in Profiles : profile' = p /\ ApplyConfigs(p, pad.hwnd, target)
    BY <1>5 DEF SelectProfile
  <2>2. UNCHANGED <<pad, fg, events, tcfg, gate>>
    BY <1>5 DEF SelectProfile
  <2>3. pad.hwnd \in Nat
    BY <1>0 DEF GateTyped
  <2> QED  BY <1>0, <2>1, <2>2, <2>3, Configures DEF GateTyped, PadKnown, LastWordCounts
<1>6. CASE OpenByButton \/ StartTest
  <2>1. PICK t : OpenPad /\ ApplyConfigs(profile, pad'.hwnd, t)
    BY <1>6 DEF OpenByButton, StartTest
  <2>2. UNCHANGED <<profile, tcfg>>
    BY <1>6 DEF OpenByButton, StartTest, uivars
  <2>3. pad'.hwnd \in Nat /\ profile \in Profiles
    BY <1>0, <2>1, PadComes DEF GateTyped
  <2>4. GateTyped' /\ PadKnown'
    BY <1>0, <2>1, <2>2, <2>3, PadComes, Configures DEF GateTyped, PadKnown
  <2>5. LastWordCounts'
    BY <1>0, <2>1, <2>3, PadComes, Configures DEF LastWordCounts
  <2> QED  BY <2>4, <2>5
<1>7. CASE CloseByButton
  <2>1. /\ pad.hwnd # 0 /\ pad' = [pad EXCEPT !.hwnd = 0, !.thread = FALSE]
        /\ WindowGone(pad.hwnd) /\ ApplyConfigs(profile, 0, target) /\ UNCHANGED <<profile, tcfg>>
    BY <1>7 DEF CloseByButton, uivars
  <2>2. pad' \in [hwnd : Nat, thread : BOOLEAN, made : Nat] /\ pad'.hwnd = 0 /\ profile \in Profiles
    BY <1>0, <2>1 DEF GateTyped
  <2>3. GateTyped' /\ PadKnown'
    BY <1>0, <2>1, <2>2, PadGoes, Configures DEF GateTyped, PadKnown
  <2>4. LastWordCounts'
    BY <1>0, <2>1, <2>2, PadGoes, Configures DEF LastWordCounts
  <2> QED  BY <2>3, <2>4
<1>8. CASE Tick
  <2>1. ApplyConfigs(profile, pad.hwnd, 0) /\ UNCHANGED <<profile, pad, fg, events, tcfg, gate>>
    BY <1>8 DEF Tick
  <2>2. pad.hwnd \in Nat /\ profile \in Profiles
    BY <1>0 DEF GateTyped
  <2> QED  BY <1>0, <2>1, <2>2, Configures DEF GateTyped, PadKnown, LastWordCounts
<1>9. CASE UNCHANGED gatevars
  BY <1>0, <1>9 DEF GateTyped, PadKnown, LastWordCounts, Evaluate, Exists
<1>10. CASE StartRun \/ Press \/ Idle \/ RunAction \/ RunNotices \/ RunResumes \/ RunStopped \/ RunOver
  <2>1. UNCHANGED gatevars
    BY <1>10 DEF StartRun, Press, Idle, RunAction, RunNotices, RunResumes, RunStopped, RunOver,
                 uivars, trigger
  <2> QED  BY <1>9, <2>1
<1>11. CASE UNCHANGED vars
  BY <1>9, <1>11 DEF vars, uivars, trigger
<1> QED  BY <1>1, <1>2, <1>3, <1>4, <1>5, <1>6, <1>7, <1>8, <1>10, <1>11 DEF Next

\* Once the trigger thread has no event and no message left, the gate stands as
\* the settings and the window in front demand (TriggerEngine.cpp
\* evaluateGate()), in whatever order windows, pads and settings changed.
THEOREM GateFollows == Spec => []GateSettles
<1>1. ASSUME GateInv PROVE GateSettles
  <2> SUFFICES ASSUME ~dead, events = <<>>, reconfigs = 0 PROVE gate = Evaluate(Wanted, fg)
    BY DEF GateSettles
  <2>1. gate = Evaluate(posted, fg)
    BY <1>1 DEF GateInv, LastWordCounts
  <2>2. posted.filter = Wanted.filter /\ posted.own = Wanted.own /\ Wanted.testPad = pad.hwnd
    BY <1>1 DEF GateInv, PadKnown, Wanted
  <2>3. fg.kind = "pad" => posted.testPad = Wanted.testPad
    BY <1>1, <2>2 DEF GateInv, PadKnown
  <2> QED  BY <2>1, <2>2, <2>3 DEF Evaluate
<1>2. Spec => []GateInv
  BY GateStart, GateStep, PTL DEF Spec
<1> QED  BY <1>1, <1>2, PTL

-----------------------------------------------------------------------------
\* A lab run that is shown.

LabInv ==
    /\ completed \in Nat /\ base \in Nat /\ base <= completed
    /\ \E Q : queue \in Seq(Q)
    /\ LabExplained

\* A StartRun stays in the queue while others are added.
LEMMA Queueing ==
    ASSUME LabInv, NEW c, queue' = Append(queue, c)
    PROVE  /\ \E Q : queue' \in Seq(Q)
           /\ StartQueued => StartQueued'
           /\ c.cmd = "StartRun" => StartQueued'
<1>1. PICK Q : queue \in Seq(Q)
  BY DEF LabInv
<1> DEFINE R == Q \cup {c}
<1>2. queue \in Seq(R)
  BY <1>1, SeqMonotonic
<1>3. /\ queue' \in Seq(R) /\ Len(queue') = Len(queue) + 1 /\ queue'[Len(queue')] = c
      /\ \A k \in 1 .. Len(queue) : queue'[k] = queue[k]
      /\ DOMAIN queue = 1 .. Len(queue) /\ DOMAIN queue' = 1 .. Len(queue') /\ Len(queue) \in Nat
  BY <1>2
<1>4. StartQueued => StartQueued'
  BY <1>3 DEF StartQueued, Queued
<1>5. c.cmd = "StartRun" => StartQueued'
  BY <1>3 DEF StartQueued, Queued
<1> QED  BY <1>3, <1>4, <1>5

LEMMA LabStart == Init => LabInv
<1> SUFFICES ASSUME Init PROVE LabInv
  OBVIOUS
<1>1. queue \in Seq({})
  BY DEF Init
<1> QED  BY <1>1 DEF Init, LabInv, LabExplained

LEMMA LabStep == LabInv /\ [Next]_vars => LabInv'
<1> SUFFICES ASSUME LabInv, [Next]_vars PROVE LabInv'
  OBVIOUS
<1>1. CASE ForegroundEvent \/ Reconfig \/ Foreground \/ PadClosedByUser \/ RunResumes \/ UNCHANGED vars
  <2>1. UNCHANGED <<ui, lab, base, queue, run, completed, dropped>>
    BY <1>1 DEF ForegroundEvent, Reconfig, Foreground, PadClosedByUser, RunResumes, vars, uivars,
                engine, ghosts
  <2> QED  BY <2>1 DEF LabInv, LabExplained, StartQueued, Queued
<1>2. CASE SelectProfile \/ OpenByButton \/ CloseByButton \/ Press
  <2>1. /\ UNCHANGED <<ui, lab, base, run, completed, dropped>>
        /\ \E c : queue' = Append(queue, c)
    BY <1>2 DEF SelectProfile, OpenByButton, CloseByButton, Press, ApplyConfigs, uivars, ghosts
  <2> QED  BY <2>1, Queueing DEF LabInv, LabExplained
<1>3. CASE StartTest
  <2>1. ui' = "activate" /\ base' = completed /\ completed' = completed /\ \E c : queue' = Append(queue, c)
    BY <1>3 DEF StartTest, ApplyConfigs
  <2> QED  BY <2>1, Queueing DEF LabInv, LabExplained
<1>4. CASE StartRun
  <2>1. /\ queue' = Append(queue, [cmd |-> "StartRun", cfg |-> cfg])
        /\ UNCHANGED <<base, completed>>
    BY <1>4 DEF StartRun
  <2>2. StartQueued' /\ \E Q : queue' \in Seq(Q)
    BY <2>1, Queueing
  <2> QED  BY <2>1, <2>2 DEF LabInv, LabExplained
<1>5. CASE Tick
  <2>1. lab' = FALSE /\ UNCHANGED <<base, completed>> /\ \E c : queue' = Append(queue, c)
    BY <1>5 DEF Tick, ApplyConfigs
  <2> QED  BY <2>1, Queueing DEF LabInv, LabExplained
<1>6. CASE Idle
  <2>1. queue' = <<>> /\ run = "none" /\ UNCHANGED <<ui, lab, base, completed>>
    BY <1>6 DEF Idle, uivars
  <2>2. dropped => dropped'
    BY <1>6 DEF Idle
  <2>3. StartQueued => dropped' \/ run' = "lab"
    BY <1>6 DEF Idle
  <2>4. queue' \in Seq({})
    BY <2>1
  <2> QED  BY <2>1, <2>2, <2>3, <2>4 DEF LabInv, LabExplained
<1>7. CASE RunAction \/ RunNotices
  <2>1. queue' = <<>> /\ run # "none" /\ run' = run /\ UNCHANGED <<base, completed>>
    BY <1>7 DEF RunAction, RunNotices, RunCommands, uivars
  <2>2. queue' \in Seq({})
    BY <2>1
  <2> QED  BY <2>1, <2>2 DEF LabInv, LabExplained
<1>8. CASE RunStopped \/ RunOver
  <2>1. completed' = completed + 1 /\ base' = base /\ queue' \in {<<>>, queue}
    BY <1>8 DEF RunStopped, RunOver, RunEnded, RunCommands, uivars
  <2>2. <<>> \in Seq({})
    OBVIOUS
  <2>3. \E Q : queue' \in Seq(Q)
    BY <2>1, <2>2 DEF LabInv
  <2> QED  BY <2>1, <2>3 DEF LabInv, LabExplained
<1> QED  BY <1>1, <1>2, <1>3, <1>4, <1>5, <1>6, <1>7, <1>8 DEF Next

\* The program does not show a lab run that nothing will ever end (App.cpp
\* startTest(), tick()).
THEOREM ShownRunsEnd == Spec => []LabExplained
<1>1. LabInv => LabExplained
  BY DEF LabInv
<1> QED  BY LabStart, LabStep, <1>1, PTL DEF Spec

-----------------------------------------------------------------------------
\* What a lab run is tied to. Effective is the configuration the engine comes
\* to when it has read its queue; only the UI thread changes it.

Effective == InForce(Newer(pendingCfg, LastConfig(queue)))

\* A lab run is being started, is in the queue or is going on.
LabAsked == ui = "activate" \/ StartQueued \/ run = "lab"

TieInv ==
    /\ \E Q : queue \in Seq(Q)
    /\ run = "none" => pendingCfg = <<>> /\ sent # "gate"
    /\ excused = {} =>
          /\ sent # "gate"
          /\ lab => target # 0
          /\ LabAsked => lab /\ completed = base /\ Effective.target # 0
    /\ completed \in Nat

LEMMA Smallest ==
    ASSUME NEW T \in SUBSET Nat, T # {}
    PROVE  \E x \in T : \A y \in T : x <= y
<1> DEFINE R == {ss \in Nat \X Nat : ss[1] < ss[2]}
<1>1. IsWellFoundedOn(R, Nat)
  BY NatLessThanWellFounded DEF OpToRel
<1>2. \A x, y \in Nat : x < y => <<x, y>> \in R
  OBVIOUS
<1> HIDE DEF R
<1>3. PICK x \in T : \A y \in T : ~(<<y, x>> \in R)
  BY <1>1, WFMin
<1>4. \A y \in T : ~(y < x)
  BY <1>2, <1>3
<1> QED  BY <1>4

LEMMA Greatest ==
    ASSUME NEW n \in Nat, NEW S \in SUBSET (1 .. n), S # {}
    PROVE  \E x \in S : \A y \in S : y <= x
<1> DEFINE T == {n - k : k \in S}
<1>1. T \in SUBSET Nat /\ T # {}
  <2>1. \A k \in S : n - k \in Nat
    OBVIOUS
  <2> QED  BY <2>1
<1>2. PICK t \in T : \A y \in T : t <= y
  BY <1>1, Smallest
<1>3. PICK x \in S : t = n - x
  BY <1>2
<1>4. ASSUME NEW y \in S PROVE y <= x
  <2>1. n - x <= n - y
    BY <1>2, <1>3
  <2> QED  BY <2>1
<1> QED  BY <1>4

\* The last command of some kinds is one of the queue, if it has any.
LEMMA LastOfIs ==
    ASSUME NEW Q, NEW q \in Seq(Q), NEW kinds
    PROVE  \/ LastOf(q, kinds) = <<>>
           \/ \E k \in DOMAIN q : q[k].cmd \in kinds /\ LastOf(q, kinds) = <<q[k]>>
<1> DEFINE found == {k \in DOMAIN q : q[k].cmd \in kinds}
           k == CHOOSE i \in found : \A j \in found : j <= i
<1>1. CASE found = {}
  BY <1>1 DEF LastOf
<1>2. CASE found # {}
  <2>1. found \in SUBSET (1 .. Len(q)) /\ Len(q) \in Nat
    BY LenProperties
  <2> HIDE DEF found
  <2>2. \E i \in found : \A j \in found : j <= i
    BY <1>2, <2>1, Greatest
  <2>3. k \in found
    BY <2>2
  <2>4. LastOf(q, kinds) = <<q[k]>>
    BY <1>2 DEF LastOf, found
  <2> QED  BY <2>3, <2>4 DEF found
<1> QED  BY <1>1, <1>2

LEMMA LastOfAppended ==
    ASSUME NEW Q, NEW q \in Seq(Q), NEW c \in Q, NEW kinds
    PROVE  LastOf(Append(q, c), kinds) = IF c.cmd \in kinds THEN <<c>> ELSE LastOf(q, kinds)
<1> DEFINE r == Append(q, c)
           n == Len(q)
           found == {k \in DOMAIN q : q[k].cmd \in kinds}
           later == {k \in DOMAIN r : r[k].cmd \in kinds}
<1>1. /\ n \in Nat /\ DOMAIN q = 1 .. n /\ DOMAIN r = 1 .. n + 1
      /\ r[n + 1] = c /\ \A k \in 1 .. n : r[k] = q[k]
  BY AppendProperties, LenProperties
<1> HIDE DEF n, r
<1>2. CASE c.cmd \in kinds
  <2>1. n + 1 \in later /\ \A k \in later : k \in Int /\ k <= n + 1
    BY <1>1, <1>2
  <2> DEFINE m == CHOOSE k \in later : \A j \in later : j <= k
  <2>2. m \in later /\ \A j \in later : j <= m
    BY <2>1
  <2>3. m = n + 1
    <3> HIDE DEF later, m
    <3> QED  BY <1>1, <2>1, <2>2
  <2>4. LastOf(r, kinds) = <<r[m]>>
    BY <2>1 DEF LastOf
  <2> QED  BY <1>1, <1>2, <2>3, <2>4 DEF r
<1>3. CASE c.cmd \notin kinds
  <2>1. later = found
    BY <1>1, <1>3
  <2>2. CASE found = {}
    BY <1>3, <2>1, <2>2 DEF LastOf, r
  <2>3. CASE found # {}
    <3> DEFINE m == CHOOSE k \in found : \A j \in found : j <= k
    <3>1. found \in SUBSET (1 .. n)
      BY <1>1
    <3>2. \E i \in found : \A j \in found : j <= i
      <4> HIDE DEF found
      <4> QED  BY <1>1, <2>3, <3>1, Greatest
    <3>3. m \in found
      BY <3>2
    <3>4. m \in 1 .. n
      BY <3>1, <3>3
    <3>5. LastOf(q, kinds) = <<q[m]>>
      BY <2>3 DEF LastOf
    <3>6. LastOf(r, kinds) = <<r[m]>>
      BY <2>1, <2>3 DEF LastOf
    <3> QED  BY <1>1, <1>3, <3>4, <3>5, <3>6 DEF r
  <2> QED  BY <2>2, <2>3
<1> QED  BY <1>2, <1>3

\* The idle loop begins a lab run only when it was asked to.
LEMMA LabBegins ==
    ASSUME TieInv, IdleCommand(queue) = "lab"
    PROVE  StartQueued
<1> DEFINE c == LastOf(queue, {"StartRun", "TriggerDown", "StopRun"})
<1>1. c # <<>> /\ c[1].cmd = "StartRun"
  BY DEF IdleCommand
<1>2. PICK k \in DOMAIN queue : c = <<queue[k]>>
  BY <1>1, LastOfIs DEF TieInv
<1> HIDE DEF c
<1>3. queue[k].cmd = "StartRun"
  BY <1>1, <1>2
<1> QED  BY <1>3 DEF StartQueued, Queued

\* A command that is queued: a configuration becomes the effective one.
LEMMA QueuedCommand ==
    ASSUME TieInv, NEW c, queue' = Append(queue, c), UNCHANGED <<pendingCfg, cfg>>
    PROVE  /\ \E Q : queue' \in Seq(Q)
           /\ StartQueued' <=> StartQueued \/ c.cmd = "StartRun"
           /\ c.cmd # "SetConfig" => Effective' = Effective
           /\ c.cmd = "SetConfig" => Effective' = c.cfg
<1>1. PICK Q : queue \in Seq(Q)
  BY DEF TieInv
<1> DEFINE R == Q \cup {c}
<1>2. queue \in Seq(R) /\ c \in R
  BY <1>1, SeqMonotonic
<1> HIDE DEF R
<1>3. /\ queue' \in Seq(R) /\ Len(queue') = Len(queue) + 1 /\ queue'[Len(queue')] = c
      /\ \A k \in 1 .. Len(queue) : queue'[k] = queue[k]
      /\ DOMAIN queue = 1 .. Len(queue) /\ DOMAIN queue' = 1 .. Len(queue') /\ Len(queue) \in Nat
  BY <1>2
<1>4. StartQueued' <=> StartQueued \/ c.cmd = "StartRun"
  BY <1>3 DEF StartQueued, Queued
<1>5. LastOf(queue', {"SetConfig"}) = IF c.cmd = "SetConfig" THEN <<c>> ELSE LastOf(queue, {"SetConfig"})
  BY <1>2, LastOfAppended
<1>6. c.cmd # "SetConfig" => LastConfig(queue') = LastConfig(queue)
  BY <1>5 DEF LastConfig
<1>7. c.cmd = "SetConfig" => LastConfig(queue') = <<c.cfg>>
  <2> SUFFICES ASSUME c.cmd = "SetConfig" PROVE LastConfig(queue') = <<c.cfg>>
    OBVIOUS
  <2>1. LastOf(queue', {"SetConfig"}) = <<c>>
    BY <1>5
  <2> QED  BY <2>1 DEF LastConfig
<1>8. c.cmd # "SetConfig" => Effective' = Effective
  BY <1>6 DEF Effective, InForce
<1>9. c.cmd = "SetConfig" => Effective' = c.cfg
  BY <1>7 DEF Effective, InForce, Newer
<1> QED  BY <1>3, <1>4, <1>8, <1>9

\* applyConfigs() for target t.
LEMMA Applied ==
    ASSUME TieInv, NEW p, NEW h, NEW t, ApplyConfigs(p, h, t), UNCHANGED <<pendingCfg, cfg>>
    PROVE  /\ \E Q : queue' \in Seq(Q)
           /\ StartQueued' = StartQueued
           /\ Effective'.target = t
<1> DEFINE c == [cmd |-> "SetConfig", cfg |-> [target |-> t, valid |-> p.valid]]
<1>1. queue' = Append(queue, c)
  BY DEF ApplyConfigs
<1>2. c.cmd = "SetConfig" /\ c.cfg.target = t
  OBVIOUS
<1> HIDE DEF c
<1>3. StartQueued \in BOOLEAN /\ StartQueued' \in BOOLEAN
  BY DEF StartQueued, Queued
<1> QED  BY <1>1, <1>2, <1>3, QueuedCommand

\* The end of a run.
LEMMA TieEnds ==
    ASSUME TieInv, RunStopped \/ RunOver
    PROVE  TieInv'
<1>1. /\ run # "none" /\ run' = "none" /\ completed' = completed + 1 /\ pendingCfg' = <<>>
      /\ sent' = "none" /\ UNCHANGED <<ui, lab, base, target>>
      /\ excused' = excused \cup (IF Races THEN {"race"} ELSE {})
      /\ queue' \in {<<>>, queue}
  BY DEF RunStopped, RunOver, RunEnded, RunCommands, uivars
<1>2. \E Q : queue' \in Seq(Q)
  <2>1. <<>> \in Seq({})
    OBVIOUS
  <2> QED  BY <1>1, <2>1 DEF TieInv
<1>3. ~StartQueued => ~StartQueued'
  BY <1>1 DEF StartQueued, Queued
<1>4. excused' = {} => ~LabAsked'
  BY <1>1, <1>3 DEF TieInv, LabAsked, Races
<1>5. excused' = {} => excused = {}
  BY <1>1
<1> QED  BY <1>1, <1>2, <1>4, <1>5 DEF TieInv

LEMMA TieStart == Init => TieInv
<1> SUFFICES ASSUME Init PROVE TieInv
  OBVIOUS
<1>1. queue \in Seq({}) /\ ~StartQueued
  BY DEF Init, StartQueued, Queued
<1> QED  BY <1>1 DEF Init, TieInv, LabAsked

LEMMA TieStep == TieInv /\ [Next]_vars => TieInv'
<1> SUFFICES ASSUME TieInv, [Next]_vars PROVE TieInv'
  OBVIOUS
<1>1. CASE ForegroundEvent \/ Reconfig \/ Foreground \/ PadClosedByUser \/ UNCHANGED vars
  <2>1. UNCHANGED <<ui, lab, base, target, queue, run, cfg, pendingCfg, completed, sent, excused>>
    BY <1>1 DEF ForegroundEvent, Reconfig, Foreground, PadClosedByUser, vars, uivars, engine, ghosts
  <2> QED  BY <2>1 DEF TieInv, LabAsked, Effective, InForce, StartQueued, Queued
<1>2. CASE SelectProfile \/ OpenByButton \/ CloseByButton
  <2>1. /\ UNCHANGED <<ui, lab, base, target, run, cfg, pendingCfg, completed, sent, excused>>
        /\ \E p, h : ApplyConfigs(p, h, target)
    BY <1>2 DEF SelectProfile, OpenByButton, CloseByButton, uivars, ghosts
  <2>2. /\ \E Q : queue' \in Seq(Q)
        /\ StartQueued' = StartQueued /\ Effective'.target = target
    BY <2>1, Applied
  <2> QED  BY <2>1, <2>2 DEF TieInv, LabAsked
<1>3. CASE StartTest
  <2>1. /\ base' = completed /\ lab' = TRUE /\ target' = pad'.hwnd
        /\ ApplyConfigs(profile, pad'.hwnd, pad'.hwnd)
        /\ excused' = (IF run # "none" \/ StartQueued THEN excused ELSE {})
                        \cup (IF pad'.hwnd = 0 THEN {"padless"} ELSE {})
        /\ UNCHANGED <<run, cfg, pendingCfg, completed, sent>>
    BY <1>3 DEF StartTest
  <2>2. (\E Q : queue' \in Seq(Q)) /\ Effective'.target = pad'.hwnd
    BY <2>1, Applied
  <2>3. excused' = {} => pad'.hwnd # 0 /\ sent # "gate"
    BY <2>1 DEF TieInv
  <2> QED  BY <2>1, <2>2, <2>3 DEF TieInv
<1>4. CASE StartRun
  <2>1. /\ ui = "activate" /\ queue' = Append(queue, [cmd |-> "StartRun", cfg |-> cfg])
        /\ UNCHANGED <<lab, base, target, run, cfg, pendingCfg, completed, sent, excused>>
    BY <1>4 DEF StartRun
  <2>2. (\E Q : queue' \in Seq(Q)) /\ Effective' = Effective
    BY <2>1, QueuedCommand
  <2> QED  BY <2>1, <2>2 DEF TieInv, LabAsked
<1>5. CASE Tick
  <2>1. /\ completed > base /\ lab' = FALSE /\ lab /\ ApplyConfigs(profile, pad.hwnd, 0)
        /\ UNCHANGED <<ui, base, run, cfg, pendingCfg, completed, sent, excused>>
    BY <1>5 DEF Tick, ghosts
  <2>2. (\E Q : queue' \in Seq(Q)) /\ StartQueued' = StartQueued
    BY <2>1, Applied
  <2>3. excused = {} => ~LabAsked
    BY <2>1 DEF TieInv
  <2> QED  BY <2>1, <2>2, <2>3 DEF TieInv, LabAsked
<1>6. CASE Press
  <2>1. PICK k \in {"TriggerDown", "StopRun"} : queue' = Append(queue, [cmd |-> k, cfg |-> cfg])
    BY <1>6 DEF Press
  <2>2. UNCHANGED <<ui, lab, base, target, run, cfg, pendingCfg, completed, sent, excused>>
    BY <1>6 DEF Press, uivars, ghosts
  <2>3. (\E Q : queue' \in Seq(Q)) /\ Effective' = Effective /\ (StartQueued' => StartQueued)
    BY <2>1, <2>2, QueuedCommand
  <2> QED  BY <2>2, <2>3 DEF TieInv, LabAsked
<1>7. CASE Idle
  <2>1. /\ run = "none" /\ queue' = <<>> /\ cfg' = InForce(LastConfig(queue))
        /\ run' = IF cfg'.valid THEN IdleCommand(queue) ELSE "none"
        /\ UNCHANGED <<ui, lab, base, target, pendingCfg, completed, sent, excused>>
    BY <1>7 DEF Idle, uivars
  <2>2. pendingCfg = <<>> /\ sent # "gate"
    BY <2>1 DEF TieInv
  <2>3. queue' \in Seq({}) /\ ~StartQueued' /\ LastConfig(queue') = <<>>
    BY <2>1 DEF StartQueued, Queued, LastConfig, LastOf
  <2>4. Effective = cfg'
    BY <2>1, <2>2 DEF Effective, Newer
  <2>5. Effective' = cfg'
    BY <2>1, <2>2, <2>3 DEF Effective, Newer, InForce
  <2>6. LabAsked' => LabAsked
    BY <2>1, <2>3, LabBegins DEF LabAsked
  <2> QED  BY <2>1, <2>2, <2>3, <2>4, <2>5, <2>6 DEF TieInv
<1>8. CASE RunAction \/ RunNotices
  <2>1. /\ run # "none" /\ queue' = <<>>
        /\ UNCHANGED <<ui, lab, base, target, run, completed, excused>>
    BY <1>8 DEF RunAction, RunNotices, RunCommands, uivars, ghosts
  <2>2. queue' \in Seq({}) /\ ~StartQueued' /\ LastConfig(queue') = <<>>
    BY <2>1 DEF StartQueued, Queued, LastConfig, LastOf
  <2>3. Effective' = Effective
    BY <1>8, <2>2 DEF RunAction, RunNotices, Effective, Newer, InForce
  <2>4. sent' = "gate" => sent = "gate" \/ (run = "lab" /\ Effective.target = 0)
    BY <1>8 DEF RunAction, RunNotices, ghosts, Effective, Basis
  <2>5. LabAsked' => LabAsked
    BY <2>1, <2>2 DEF LabAsked
  <2>6. excused = {} => sent' # "gate"
    BY <2>4 DEF TieInv, LabAsked
  <2> QED  BY <2>1, <2>2, <2>3, <2>5, <2>6 DEF TieInv
<1>9. CASE RunResumes
  <2>1. /\ run # "none"
        /\ UNCHANGED <<ui, lab, base, target, queue, run, cfg, pendingCfg, completed, sent, excused>>
    BY <1>9 DEF RunResumes, uivars, ghosts
  <2> QED  BY <2>1 DEF TieInv, LabAsked, Effective, InForce, StartQueued, Queued
<1>10. CASE RunStopped \/ RunOver
  BY <1>10, TieEnds
<1> QED
  BY <1>1, <1>2, <1>3, <1>4, <1>5, <1>6, <1>7, <1>8, <1>9, <1>10 DEF Next

\* A lab run sends nothing but into the test pad unless another run ended while
\* it was being started or there was no pad: it is tied to the pad from its first
\* send to its last (App.cpp startTest(), tick(), applyConfigs()).
THEOREM LabStaysInPad == Spec => []LabGatedAlone
<1>1. TieInv => LabGatedAlone
  BY DEF TieInv, LabGatedAlone
<1> QED  BY TieStart, TieStep, <1>1, PTL DEF Spec
=============================================================================
