--------------------------- MODULE TelemetryProofs ---------------------------
(***************************************************************************)
(* Proofs about Telemetry.tla: a snapshot read with success is whole, the  *)
(* totals are exact, and a completed run shows its last figures, for every *)
(* size of a snapshot and every number of runs, actions and attempts.      *)
(***************************************************************************)
EXTENDS Telemetry, TLAPS

-----------------------------------------------------------------------------
\* The inductive invariant, in parts.

Snapshots ==
    [publishSeq : Nat, state : {"Idle", "Running", "Paused"}, totalActions : Nat,
     runId : Nat, runActions : Nat]

EngineTyped ==
    /\ at \in {"idle", "begin", "run", "ended"} /\ state \in {"Idle", "Running", "Paused"}
    /\ totalActions \in Nat /\ runActions \in Nat /\ runId \in 0 .. MaxRuns
    /\ runsCompleted \in Nat /\ since \in Nat /\ final \in [1 .. MaxRuns -> Nat]
    /\ work \in Snapshots

LockTyped ==
    /\ writer \in [at : {"free", "open", "copy"}, left : SUBSET Words]
    /\ seq \in Nat /\ data \in [Words -> Snapshots]

ReaderTyped ==
    /\ reader \in [at : {"idle", "load", "copy", "done"}, s1 : Nat, left : SUBSET Words,
                   tries : Nat, ok : BOOLEAN]
    /\ out \in [Words -> Snapshots] /\ seen \in Nat

\* seq_ is odd while words are moved; what is written is work_, and so is what
\* was written when nobody writes.
Lock ==
    /\ seq % 2 = 1 <=> writer.at = "copy"
    /\ writer.at = "free" => \A w \in Words : data[w] = work
    /\ writer.at = "open" => writer.left = Words /\ \A v, w \in Words : data[v] = data[w]
    /\ writer.at = "copy" => \A w \in Words \ writer.left : data[w] = work

\* What a reader has copied is still there unless seq_ has moved on.
Copied ==
    /\ reader.ok => reader.at = "done"
    /\ reader.at = "copy" =>
         /\ reader.s1 % 2 = 0 /\ reader.s1 <= seq
         /\ seq = reader.s1 => \A w \in Words \ reader.left : out[w] = data[w]
    /\ reader.ok => \A v, w \in Words : out[v] = out[w]

\* The counters of the run in progress are not in the totals yet.
Counted ==
    /\ Active(state) <=> at = "run"
    /\ since = totalActions + IF at = "run" THEN runActions ELSE 0
    /\ writer.at # "free" => work.totalActions = since

\* The runs and the snapshot that is filled.
Runs ==
    /\ runsCompleted + (IF at \in {"run", "ended"} THEN 1 ELSE 0) = runId
    /\ at = "begin" => runId < MaxRuns
    /\ work.runId = runId
    /\ at # "run" /\ runId > 0 =>
         work.state = "Idle" /\ work.runActions = final[runId] /\ runActions = final[runId]

\* A snapshot that shows run n shows its end.
Settled(s, n) ==
    /\ s.runId >= n
    /\ n > 0 /\ s.runId = n => s.state = "Idle" /\ s.runActions = final[n]

Published ==
    /\ seen <= runsCompleted
    /\ \A w \in Words : Settled(data[w], runsCompleted)
    /\ reader.at = "copy" => \A w \in Words \ reader.left : Settled(out[w], seen)
    /\ reader.ok => \A w \in Words : Settled(out[w], seen)

Typed == EngineTyped /\ LockTyped /\ ReaderTyped
IInv == Typed /\ Lock /\ Copied /\ Counted /\ Runs /\ Published

-----------------------------------------------------------------------------
\* Parity, in the form the lock needs it.

LEMMA Parity ==
    ASSUME NEW n \in Nat
    PROVE  /\ n % 2 \in {0, 1}
           /\ n % 2 = 1 <=> (n + 1) % 2 = 0
BY SMT

\* What a step of each thread leaves alone.

EngineStep == EngineNext /\ UNCHANGED <<seq, data, readervars>>
WriterStep == WriterNext /\ UNCHANGED <<enginevars, readervars>>
ReaderStep == ReaderNext /\ UNCHANGED <<enginevars, writervars>>

LEMMA Steps == Next => EngineStep \/ WriterStep \/ ReaderStep
<1>1. ASSUME EngineNext PROVE EngineStep
  BY <1>1 DEF EngineStep, EngineNext, IdleBatch, BeginRun, Act, Pause, Resume, EndRun, CountRun,
              readervars, writervars
<1>2. ASSUME WriterNext PROVE WriterStep
  BY <1>2 DEF WriterStep, WriterNext, WriteOpen, WriteWord, WriteClose
<1>3. ASSUME ReaderNext PROVE ReaderStep
  BY <1>3 DEF ReaderStep, ReaderNext, ReadBegin, LoadOdd, LoadEven, ReadWord, ReadCheck, ReadDone
<1> QED  BY <1>1, <1>2, <1>3 DEF Next

\* publish() fills the snapshot and hands it to the lock, or nothing happens to
\* either.

LEMMA Publishes ==
    ASSUME EngineNext
    PROVE  \/ writer.at = "free" /\ Publish
           \/ UNCHANGED <<work, writer>>
BY DEF EngineNext, IdleBatch, BeginRun, Act, Pause, Resume, EndRun, CountRun, Engine, writervars

-----------------------------------------------------------------------------
\* Types.

LEMMA EngineTypedStep == Typed /\ Runs /\ Next => EngineTyped'
<1> SUFFICES ASSUME Typed, Runs, Next PROVE EngineTyped'
  OBVIOUS
<1> USE TelemetryConstants DEF Typed, EngineTyped
<1>1. CASE EngineNext
  <2>1. /\ at' \in {"idle", "begin", "run", "ended"} /\ state' \in {"Idle", "Running", "Paused"}
        /\ totalActions' \in Nat /\ runActions' \in Nat /\ runsCompleted' \in Nat /\ since' \in Nat
    BY <1>1 DEF EngineNext, IdleBatch, BeginRun, Act, Pause, Resume, EndRun, CountRun
  <2>2. runId' \in 0 .. MaxRuns
    BY <1>1 DEF Runs, EngineNext, IdleBatch, BeginRun, Act, Pause, Resume, EndRun, CountRun
  <2>3. final' \in [1 .. MaxRuns -> Nat]
    BY <1>1 DEF EngineNext, IdleBatch, BeginRun, Act, Pause, Resume, EndRun, CountRun
  <2>4. work' \in Snapshots
    <3>1. CASE Publish
      <4>1. totalActions' + (IF Active(state') THEN runActions' ELSE 0) \in Nat
        <5> DEFINE running == IF Active(state') THEN runActions' ELSE 0
        <5>1. running = runActions' \/ running = 0
          BY Zenon
        <5> HIDE DEF running
        <5>2. totalActions' + running \in Nat
          BY <2>1, <5>1
        <5> QED  BY <5>2 DEF running
      <4>2. work.publishSeq + 1 \in Nat /\ runId' \in Nat
        BY <2>2 DEF Snapshots
      <4> QED  BY <2>1, <3>1, <4>1, <4>2 DEF Publish, Snapshots
    <3>2. CASE UNCHANGED work
      BY <3>2
    <3> QED  BY <1>1, <3>1, <3>2, Publishes
  <2> QED  BY <2>1, <2>2, <2>3, <2>4
<1>2. CASE UNCHANGED enginevars
  BY <1>2 DEF enginevars
<1> QED  BY <1>1, <1>2, Steps DEF EngineStep, WriterStep, ReaderStep

LEMMA LockTypedStep == Typed /\ Next => LockTyped'
<1> SUFFICES ASSUME Typed, Next PROVE LockTyped'
  OBVIOUS
<1> USE DEF Typed, LockTyped
<1>1. CASE EngineStep
  <2>1. UNCHANGED <<seq, data>>
    BY <1>1 DEF EngineStep
  <2>2. writer' \in [at : {"free", "open", "copy"}, left : SUBSET Words]
    BY <1>1, Publishes DEF EngineStep, Publish
  <2> QED  BY <2>1, <2>2
<1>2. CASE WriterStep
  BY <1>2 DEF WriterStep, WriterNext, WriteOpen, WriteWord, WriteClose, enginevars, EngineTyped
<1>3. CASE ReaderStep
  BY <1>3 DEF ReaderStep, writervars
<1> QED  BY <1>1, <1>2, <1>3, Steps

LEMMA Tries ==
    ASSUME ReaderTyped, TryAgain
    PROVE  /\ reader' \in [at : {"idle", "load", "copy", "done"}, s1 : Nat, left : SUBSET Words,
                           tries : Nat, ok : BOOLEAN]
           /\ reader'.at \in {"load", "done"} /\ reader'.ok = reader.ok
<1>1. CASE reader.tries + 1 < Attempts
  <2>1. reader' = [reader EXCEPT !.at = "load", !.tries = reader.tries + 1]
    BY <1>1 DEF TryAgain
  <2>2. reader.tries + 1 \in Nat
    BY DEF ReaderTyped
  <2> QED  BY <2>1, <2>2 DEF ReaderTyped
<1>2. CASE ~(reader.tries + 1 < Attempts)
  BY <1>2 DEF ReaderTyped, TryAgain
<1> QED  BY <1>1, <1>2

LEMMA ReaderTypedStep == Typed /\ Next => ReaderTyped'
<1> SUFFICES ASSUME Typed, Next PROVE ReaderTyped'
  OBVIOUS
<1> USE TelemetryConstants DEF Typed, ReaderTyped
<1>1. CASE UNCHANGED readervars
  BY <1>1 DEF readervars
<1>2. CASE ReadBegin \/ ReadDone
  <2>1. \E a \in {"load", "idle"} :
           reader' = [at |-> a, s1 |-> 0, left |-> {}, tries |-> 0, ok |-> FALSE]
    BY <1>2 DEF ReadBegin, ReadDone
  <2>2. out' = out /\ seen' \in Nat
    BY <1>2 DEF ReadBegin, ReadDone, EngineTyped
  <2> QED  BY <2>1, <2>2
<1>3. CASE LoadOdd
  BY <1>3, Tries DEF LoadOdd
<1>4. CASE LoadEven
  BY <1>4 DEF LoadEven, LockTyped
<1>5. CASE ReadWord
  BY <1>5 DEF ReadWord, LockTyped
<1>6. CASE ReadCheck
  BY <1>6, Tries DEF ReadCheck
<1> QED  BY <1>1, <1>2, <1>3, <1>4, <1>5, <1>6, Steps
         DEF EngineStep, WriterStep, ReaderStep, ReaderNext

-----------------------------------------------------------------------------
\* The sequence lock.

LEMMA LockStep == Typed /\ Lock /\ Next => Lock'
<1> SUFFICES ASSUME Typed, Lock, Next PROVE Lock'
  OBVIOUS
<1> USE DEF Typed, LockTyped, Lock
<1>1. CASE EngineStep
  <2>1. UNCHANGED <<seq, data>>
    BY <1>1 DEF EngineStep
  <2>2. CASE writer.at = "free" /\ Publish
    BY <2>1, <2>2 DEF Publish
  <2>3. CASE UNCHANGED <<work, writer>>
    BY <2>1, <2>3
  <2> QED  BY <1>1, <2>2, <2>3, Publishes DEF EngineStep
<1>2. CASE WriteOpen
  BY <1>2, Parity DEF WriteOpen, enginevars
<1>3. CASE WriteWord
  BY <1>3 DEF WriteWord, enginevars
<1>4. CASE WriteClose
  BY <1>4, Parity DEF WriteClose, enginevars
<1>5. CASE ReaderStep
  BY <1>5 DEF ReaderStep, writervars, enginevars
<1> QED  BY <1>1, <1>2, <1>3, <1>4, <1>5, Steps DEF WriterStep, WriterNext

\* Outside a copy the words are all of one snapshot.
LEMMA Uniform ==
    ASSUME Typed, Lock, seq % 2 = 0
    PROVE  \A v, w \in Words : data[v] = data[w]
<1>1. writer.at \in {"free", "open"}
  BY DEF Typed, LockTyped, Lock
<1>2. CASE writer.at = "free"
  BY <1>2 DEF Lock
<1>3. CASE writer.at = "open"
  BY <1>3 DEF Lock
<1> QED  BY <1>1, <1>2, <1>3

LEMMA CopiedStep == Typed /\ Lock /\ Copied /\ Next => Copied'
<1> SUFFICES ASSUME Typed, Lock, Copied, Next PROVE Copied'
  OBVIOUS
<1> USE DEF Typed, LockTyped, ReaderTyped, Copied
<1>1. CASE EngineStep
  BY <1>1 DEF EngineStep, readervars
<1>2. CASE WriterStep
  <2>1. UNCHANGED <<reader, out>>
    BY <1>2 DEF WriterStep, readervars
  <2>2. CASE WriteOpen \/ WriteClose
    BY <2>1, <2>2 DEF WriteOpen, WriteClose
  <2>3. CASE WriteWord
    BY <2>1, <2>3, Parity DEF WriteWord, Lock
  <2> QED  BY <1>2, <2>2, <2>3 DEF WriterStep, WriterNext
<1>3. CASE ReadBegin \/ ReadDone
  BY <1>3 DEF ReadBegin, ReadDone
<1>4. CASE LoadOdd
  BY <1>4, Tries DEF LoadOdd
<1>5. CASE LoadEven
  BY <1>5 DEF LoadEven, writervars
<1>6. CASE ReadWord
  BY <1>6 DEF ReadWord, writervars
<1>7. CASE ReadCheck
  BY <1>7, Uniform, Tries DEF ReadCheck
<1> QED  BY <1>1, <1>2, <1>3, <1>4, <1>5, <1>6, <1>7, Steps DEF ReaderStep, ReaderNext

-----------------------------------------------------------------------------
\* The totals.

LEMMA CountedStep == Typed /\ Counted /\ Next => Counted'
<1> SUFFICES ASSUME Typed, Counted, Next PROVE Counted'
  OBVIOUS
<1> USE TelemetryConstants DEF Typed, EngineTyped, Counted, Active
<1>1. CASE EngineNext
  <2>1. Active(state') <=> at' = "run"
    BY <1>1 DEF EngineNext, IdleBatch, BeginRun, Act, Pause, Resume, EndRun, CountRun
  <2>2. since' = totalActions' + IF at' = "run" THEN runActions' ELSE 0
    BY <1>1 DEF EngineNext, IdleBatch, BeginRun, Act, Pause, Resume, EndRun, CountRun
  <2>3. CASE writer.at = "free" /\ Publish
    BY <2>1, <2>2, <2>3 DEF Publish
  <2>4. CASE UNCHANGED <<work, writer>>
    <3>1. writer.at = "free" \/ Publish
      BY <1>1, <2>4 DEF EngineNext, IdleBatch, BeginRun, Act, Pause, Resume, EndRun, CountRun, Engine
    <3> QED  BY <2>1, <2>2, <2>3, <2>4, <3>1 DEF Publish
  <2> QED  BY <1>1, <2>3, <2>4, Publishes
<1>2. CASE WriterStep
  BY <1>2 DEF WriterStep, WriterNext, WriteOpen, WriteWord, WriteClose, enginevars, LockTyped
<1>3. CASE ReaderStep
  BY <1>3 DEF ReaderStep, enginevars, writervars
<1> QED  BY <1>1, <1>2, <1>3, Steps DEF EngineStep

-----------------------------------------------------------------------------
\* The runs and what is published of them.

LEMMA RunsStep == Typed /\ Counted /\ Runs /\ Next => Runs'
<1> SUFFICES ASSUME Typed, Counted, Runs, Next PROVE Runs'
  OBVIOUS
<1> USE DEF Typed, EngineTyped, Runs
<1>1. CASE IdleBatch
  <2>1. state = "Idle" /\ UNCHANGED <<state, runActions, runId, runsCompleted, final>>
    BY <1>1 DEF IdleBatch, Counted, Active
  <2>2. work'.state = "Idle" /\ work'.runId = runId /\ work'.runActions = runActions
    BY <1>1, <2>1 DEF IdleBatch, Publish
  <2> QED  BY <1>1, <2>1, <2>2 DEF IdleBatch
<1>2. CASE BeginRun
  BY <1>2 DEF BeginRun, Publish, Snapshots
<1>3. CASE Act
  <2>1. work'.runId = runId'
    BY <1>3 DEF Act, Publish
  <2> QED  BY <1>3, <2>1 DEF Act
<1>4. CASE Pause
  BY <1>4 DEF Pause, Publish
<1>5. CASE Resume
  BY <1>5 DEF Resume
<1>6. CASE EndRun
  BY <1>6 DEF EndRun, Publish
<1>7. CASE CountRun
  BY <1>7 DEF CountRun
<1>8. CASE UNCHANGED enginevars
  BY <1>8 DEF enginevars
<1> QED  BY <1>1, <1>2, <1>3, <1>4, <1>5, <1>6, <1>7, <1>8, Steps
         DEF EngineStep, WriterStep, ReaderStep, EngineNext

\* The end of a run that was counted does not change any more.
LEMMA SettledStep ==
    ASSUME Typed, Runs, Next,
           NEW s \in Snapshots, NEW n \in Nat, n <= runsCompleted, Settled(s, n)
    PROVE  s.runId >= n /\ (n > 0 /\ s.runId = n => s.state = "Idle" /\ s.runActions = final'[n])
<1>1. final' = final \/ EndRun
  BY Steps DEF EngineStep, EngineNext, WriterStep, ReaderStep, IdleBatch, BeginRun, Act, Pause,
               Resume, CountRun, enginevars
<1>2. ASSUME EndRun, n > 0 PROVE final'[n] = final[n]
  <2>1. n # runId /\ n \in 1 .. MaxRuns
    BY <1>2, TelemetryConstants DEF EndRun, Typed, EngineTyped, Runs
  <2> QED  BY <1>2, <2>1 DEF EndRun, Typed, EngineTyped
<1> QED  BY <1>1, <1>2 DEF Settled

\* What shows the end of the last run shows that of an earlier one, or a later run.
LEMMA SettledEarlier ==
    ASSUME NEW s \in Snapshots, NEW n \in Nat, NEW m \in Nat, m <= n, Settled(s, n)
    PROVE  Settled(s, m)
BY DEF Settled, Snapshots

\* The snapshot that is written shows the end of every run that was counted.
LEMMA WorkSettled == Typed /\ Runs => Settled(work, runsCompleted)
BY DEF Typed, EngineTyped, Runs, Settled, Snapshots

LEMMA PublishedStep == Typed /\ Lock /\ Copied /\ Runs /\ Published /\ Next => Published'
<1> SUFFICES ASSUME Typed, Lock, Copied, Runs, Published, Next PROVE Published'
  OBVIOUS
<1>1. CASE EngineStep
  <2>1. UNCHANGED <<data, reader, out, seen>>
    BY <1>1 DEF EngineStep, readervars
  <2>2. ASSUME UNCHANGED runsCompleted PROVE Published'
    <3>1. \A w \in Words : Settled(data[w], runsCompleted)'
      BY <2>1, <2>2, SettledStep DEF Published, Settled, Typed, LockTyped, EngineTyped
    <3>2. \A w \in Words : Settled(out[w], seen) => Settled(out[w], seen)'
      BY <2>1, SettledStep DEF Published, Settled, Typed, ReaderTyped
    <3> QED  BY <2>1, <2>2, <3>1, <3>2 DEF Published
  <2>3. ASSUME CountRun PROVE Published'
    <3>1. UNCHANGED <<data, reader, out, seen, final, work>> /\ runsCompleted' = runsCompleted + 1
      BY <2>1, <2>3 DEF CountRun
    <3>2. Settled(work, runsCompleted')
      BY <2>3, <3>1 DEF CountRun, Settled, Typed, EngineTyped, Runs, Snapshots
    <3>3. \A w \in Words : Settled(data[w], runsCompleted)'
      BY <2>3, <3>1, <3>2 DEF CountRun, Lock, Settled
    <3>4. seen' <= runsCompleted'
      BY <3>1 DEF Published, Typed, ReaderTyped, EngineTyped
    <3> QED  BY <3>1, <3>3, <3>4 DEF Published, Settled
  <2>4. UNCHANGED runsCompleted \/ CountRun
    BY <1>1 DEF EngineStep, EngineNext, IdleBatch, BeginRun, Act, Pause, Resume, EndRun
  <2> QED  BY <2>2, <2>3, <2>4
<1>2. CASE WriterStep
  <2>1. UNCHANGED <<runsCompleted, work, final, reader, out, seen>>
    BY <1>2 DEF WriterStep, enginevars, readervars
  <2>2. \A w \in Words : data'[w] \in {data[w], work}
    BY <1>2 DEF WriterStep, WriterNext, WriteOpen, WriteWord, WriteClose, Typed, LockTyped
  <2> QED  BY <2>1, <2>2, WorkSettled DEF Published, Settled
<1>3. CASE ReaderStep
  <2>1. UNCHANGED <<runsCompleted, final, data>>
    BY <1>3 DEF ReaderStep, enginevars, writervars
  <2>2. CASE ReadBegin
    BY <2>1, <2>2 DEF ReadBegin, Published, Settled, Typed, EngineTyped
  <2>3. CASE LoadOdd
    <3>1. ~reader'.ok /\ reader'.at # "copy"
      BY <2>3, Tries DEF LoadOdd, Copied, Typed
    <3> QED  BY <2>1, <2>3, <3>1 DEF LoadOdd, Published, Settled
  <2>4. CASE LoadEven
    <3>1. ~reader'.ok /\ reader'.left = Words
      BY <2>4 DEF LoadEven, Copied, Typed, ReaderTyped
    <3> QED  BY <2>1, <2>4, <3>1 DEF LoadEven, Published, Settled
  <2>5. CASE ReadWord
    <3>1. PICK w \in reader.left : /\ out' = [out EXCEPT ![w] = data[w]]
                                   /\ reader' = [reader EXCEPT !.left = @ \ {w}]
      BY <2>5 DEF ReadWord
    <3>2. seen' = seen /\ ~reader'.ok /\ w \in Words /\ reader'.left = reader.left \ {w}
      BY <2>5, <3>1 DEF ReadWord, Copied, Typed, ReaderTyped
    <3>3. Settled(data[w], seen)
      BY <3>2, SettledEarlier DEF Published, Typed, LockTyped, EngineTyped, ReaderTyped
    <3>4. \A v \in Words \ reader'.left : Settled(out'[v], seen)
      BY <2>5, <3>1, <3>2, <3>3 DEF ReadWord, Published, Typed, ReaderTyped
    <3> QED  BY <2>1, <3>2, <3>4 DEF Published, Settled
  <2>6. CASE ReadCheck
    <3>1. UNCHANGED <<out, seen>> /\ reader.at = "copy" /\ reader.left = {} /\ reader'.at # "copy"
      BY <2>6, Tries DEF ReadCheck, Typed, ReaderTyped
    <3> QED  BY <2>1, <3>1 DEF Published, Settled
  <2>7. CASE ReadDone
    BY <2>1, <2>7 DEF ReadDone, Published, Settled
  <2> QED  BY <1>3, <2>2, <2>3, <2>4, <2>5, <2>6, <2>7 DEF ReaderStep, ReaderNext
<1> QED  BY <1>1, <1>2, <1>3, Steps

-----------------------------------------------------------------------------
\* The theorems.

LEMMA Start == Init => IInv
<1> SUFFICES ASSUME Init PROVE IInv
  OBVIOUS
<1> USE TelemetryConstants DEF Init, Nothing
<1>1. Nothing \in Snapshots
  BY DEF Snapshots
<1>2. Typed
  <2>1. EngineTyped
    BY <1>1 DEF EngineTyped
  <2>2. LockTyped
    BY <1>1 DEF LockTyped
  <2>3. ReaderTyped
    BY <1>1 DEF ReaderTyped
  <2> QED  BY <2>1, <2>2, <2>3 DEF Typed
<1>3. Lock /\ Copied
  BY DEF Lock, Copied
<1>4. Counted /\ Runs
  BY DEF Counted, Runs, Active
<1>5. Published
  BY DEF Published, Settled
<1> QED  BY <1>2, <1>3, <1>4, <1>5 DEF IInv

LEMMA Step == IInv /\ [Next]_vars => IInv'
<1> SUFFICES ASSUME IInv, [Next]_vars PROVE IInv'
  OBVIOUS
<1>1. CASE Next
  <2>1. Typed'
    BY <1>1, EngineTypedStep, LockTypedStep, ReaderTypedStep DEF IInv, Typed
  <2> QED  BY <1>1, <2>1, LockStep, CopiedStep, CountedStep, RunsStep, PublishedStep DEF IInv
<1>2. CASE UNCHANGED vars
  BY <1>2 DEF vars, enginevars, writervars, readervars, IInv, Typed, EngineTyped, LockTyped,
              ReaderTyped, Lock, Copied, Counted, Runs, Published, Settled
<1> QED  BY <1>1, <1>2

LEMMA Inductive == Spec => []IInv
BY Start, Step, PTL DEF Spec

\* A read that reports success hands out one published snapshot, of whatever
\* size and however often the engine was interrupted (Stats.h SeqLock).
THEOREM ReadsAreWhole == Spec => []SnapshotWhole
<1>1. IInv => SnapshotWhole
  BY DEF IInv, Copied, SnapshotWhole
<1> QED  BY Inductive, <1>1, PTL

\* The totals on show count every action since the last reset once (Engine.cpp
\* doRun(), publish()).
THEOREM TotalsAreExact == Spec => []TotalsExact
<1>1. IInv => TotalsExact
  BY DEF IInv, Counted, TotalsExact
<1> QED  BY Inductive, <1>1, PTL

\* Whoever sees a run completed and then reads gets its last figures, or those
\* of a later run (Bench.cpp runEngine(), App::tick()).
THEOREM ResultsAreFinal == Spec => []ResultFinal
<1>1. IInv => ResultFinal
  BY DEF IInv, Published, Settled, ResultFinal
<1> QED  BY Inductive, <1>1, PTL

-----------------------------------------------------------------------------
\* The abstract register.

\* Snapshots are written in the order of their numbers.
Ordered == writer.at = "open" => \A w \in Words : work.publishSeq = data[w].publishSeq + 1

LEMMA OrderedStep == Typed /\ Lock /\ Ordered /\ Next => Ordered'
<1> SUFFICES ASSUME Typed, Lock, Ordered, Next PROVE Ordered'
  OBVIOUS
<1>1. CASE EngineStep
  <2>1. UNCHANGED data
    BY <1>1 DEF EngineStep
  <2>2. CASE writer.at = "free" /\ Publish
    BY <2>1, <2>2 DEF Publish, Lock, Ordered
  <2>3. CASE UNCHANGED <<work, writer>>
    BY <2>1, <2>3 DEF Ordered
  <2> QED  BY <1>1, <2>2, <2>3, Publishes DEF EngineStep
<1>2. CASE WriterStep
  BY <1>2 DEF WriterStep, WriterNext, WriteOpen, WriteWord, WriteClose, Ordered, Typed, LockTyped,
              enginevars
<1>3. CASE ReaderStep
  BY <1>3 DEF ReaderStep, writervars, enginevars, Ordered
<1> QED  BY <1>1, <1>2, <1>3, Steps

LEMMA OrderedInductive == Spec => []Ordered
<1>1. Init => Ordered
  <2>1. Init => writer.at = "free"
    BY DEF Init
  <2> QED  BY <2>1 DEF Ordered
<1>2. IInv /\ Ordered /\ [Next]_vars => Ordered'
  <2>1. IInv /\ Ordered /\ Next => Ordered'
    BY OrderedStep DEF IInv
  <2>2. Ordered /\ UNCHANGED vars => Ordered'
    BY DEF vars, enginevars, writervars, Ordered
  <2> QED  BY <2>1, <2>2
<1> QED  BY <1>1, <1>2, Inductive, PTL DEF Spec

\* What the register shows and what it has handed out.
Shown == IF writer.at = "open" THEN data[AnyWord] ELSE work
Got == IF reader.at = "done" /\ reader.ok THEN {out[w] : w \in Words} ELSE {}

LEMMA AWord == AnyWord \in Words
BY TelemetryConstants DEF AnyWord

\* Nobody but the engine's number changes what is on show: the next snapshot is
\* on show when it is being written.
LEMMA ShownSteps ==
    ASSUME Typed, Lock, Ordered, Next
    PROVE  Shown' = Shown \/ (WriterStep /\ Shown'.publishSeq = Shown.publishSeq + 1)
<1> USE AWord
<1>1. CASE EngineStep
  <2>1. UNCHANGED data
    BY <1>1 DEF EngineStep
  <2>2. CASE writer.at = "free" /\ Publish
    BY <2>1, <2>2 DEF Publish, Lock, Shown
  <2>3. CASE UNCHANGED <<work, writer>>
    BY <2>1, <2>3 DEF Shown
  <2> QED  BY <1>1, <2>2, <2>3, Publishes DEF EngineStep
<1>2. CASE WriterStep
  <2>1. UNCHANGED work
    BY <1>2 DEF WriterStep, enginevars
  <2>2. CASE WriteOpen
    BY <1>2, <2>1, <2>2 DEF WriteOpen, Ordered, Shown, Typed, LockTyped
  <2>3. CASE WriteWord \/ WriteClose
    BY <2>1, <2>3 DEF WriteWord, WriteClose, Shown, Typed, LockTyped
  <2> QED  BY <1>2, <2>2, <2>3 DEF WriterStep, WriterNext
<1>3. CASE ReaderStep
  BY <1>3 DEF ReaderStep, writervars, enginevars, Shown
<1> QED  BY <1>1, <1>2, <1>3, Steps

\* A read succeeds with what is on show then, or hands out nothing new.
LEMMA GotSteps ==
    ASSUME Typed, Lock, Copied, Next
    PROVE  Got' = Got \/ (ReaderStep /\ (Got' = {} \/ (Got = {} /\ Got' = {Shown})))
<1> USE DEF Typed, LockTyped, ReaderTyped
<1>1. CASE EngineStep \/ WriterStep
  BY <1>1 DEF EngineStep, WriterStep, readervars, Got
<1>2. CASE ReaderStep
  <2>1. CASE ReadBegin \/ ReadDone \/ LoadEven \/ ReadWord
    <3>1. reader'.at # "done"
      <4>1. CASE ReadBegin \/ ReadDone
        BY <4>1 DEF ReadBegin, ReadDone
      <4>2. CASE LoadEven
        BY <4>2 DEF LoadEven
      <4>3. CASE ReadWord
        BY <4>3 DEF ReadWord
      <4> QED  BY <2>1, <4>1, <4>2, <4>3
    <3> QED  BY <1>2, <3>1 DEF Got
  <2>2. CASE LoadOdd
    <3>1. ~reader'.ok
      BY <2>2, Tries DEF LoadOdd, Copied
    <3> QED  BY <1>2, <3>1 DEF Got
  <2>3. CASE ReadCheck /\ seq # reader.s1
    <3>1. ~reader'.ok
      BY <2>3, Tries DEF ReadCheck, Copied
    <3> QED  BY <1>2, <3>1 DEF Got
  <2>4. CASE ReadCheck /\ seq = reader.s1
    <3>1. /\ reader.at = "copy" /\ reader.left = {} /\ UNCHANGED out
          /\ reader'.at = "done" /\ reader'.ok
      BY <2>4 DEF ReadCheck
    <3>2. seq % 2 = 0 /\ \A w \in Words : out[w] = data[w]
      BY <2>4, <3>1 DEF Copied
    <3>3. writer.at \in {"free", "open"} /\ \A w \in Words : data[w] = Shown
      BY <3>2, AWord DEF Lock, Shown
    <3>4. {out[w] : w \in Words} = {Shown}
      BY <3>2, <3>3, AWord
    <3>5. Got = {} /\ Got' = {Shown}
      BY <3>1, <3>4 DEF Got
    <3> QED  BY <1>2, <3>5
  <2> QED  BY <1>2, <2>1, <2>2, <2>3, <2>4 DEF ReaderStep, ReaderNext
<1> QED  BY <1>1, <1>2, Steps

\* The sequence lock is an atomic register: every behaviour of engine, writer
\* and reader is one of AbstractSnapshot (Stats.h SeqLock).
THEOREM ReadsAreAtomic == Spec => AtomicReads
<1> USE DEF Shown, Got
<1>1. Init => Register!Init
  BY DEF Init, Nothing, Register!Init
<1>2. IInv /\ Ordered /\ [Next]_vars => [Register!Next]_Register!vars
  <2> SUFFICES ASSUME IInv, Ordered, [Next]_vars PROVE [Register!Next]_Register!vars
    OBVIOUS
  <2>1. CASE Next
    <3>1. Shown' = Shown \/ (WriterStep /\ Shown'.publishSeq = Shown.publishSeq + 1)
      BY <2>1, ShownSteps DEF IInv
    <3>2. Got' = Got \/ (ReaderStep /\ (Got' = {} \/ (Got = {} /\ Got' = {Shown})))
      BY <2>1, GotSteps DEF IInv
    <3>3. WriterStep => Got' = Got
      BY DEF WriterStep, readervars
    <3>4. ReaderStep => Shown' = Shown
      BY DEF ReaderStep, enginevars, writervars
    <3>5. CASE Shown' = Shown /\ Got' = Got
      BY <3>5 DEF Register!vars
    <3>6. CASE Shown' # Shown
      BY <3>1, <3>3, <3>6 DEF Register!Next, Register!Publish
    <3>7. CASE Got' # Got
      BY <3>2, <3>4, <3>7 DEF Register!Next, Register!ReadSucceeds, Register!ReadIsTaken
    <3> QED  BY <3>5, <3>6, <3>7
  <2>2. CASE UNCHANGED vars
    BY <2>2 DEF vars, enginevars, writervars, readervars, Register!vars
  <2> QED  BY <2>1, <2>2
<1> QED  BY <1>1, <1>2, Inductive, OrderedInductive, PTL DEF Spec, AtomicReads, Register!Spec
=============================================================================
