------------------------------ MODULE Telemetry ------------------------------
(* What the engine tells about itself: the counters of a run and the totals   *)
(* (Stats.cpp, Engine.cpp publish()), the sequence lock that carries them out *)
(* (Stats.h SeqLock), and a reader on another thread that waits for the end   *)
(* of a run and takes the snapshot (App::tick(), Bench.cpp runEngine()).      *)
(* A structure is copied in words, in an order that is not fixed. Missed      *)
(* actions and calls are counted and reset as the actions are.                *)
EXTENDS Integers

CONSTANTS Words,         \* the pieces in which memcpy() moves a snapshot
          Attempts,      \* the tries of a read (1000 in the code)
          Batch,         \* the numbers of actions a call may carry
          MaxActions,    \* bound: actions of all runs
          MaxRuns,       \* bound: runs
          MaxPublishes   \* bound: snapshots published

ASSUME TelemetryConstants ==
  /\ Words # {} /\ Attempts \in Nat \ {0} /\ Batch \subseteq Nat
  /\ MaxActions \in Nat /\ MaxRuns \in Nat /\ MaxPublishes \in Nat

VARIABLES
  at,            \* the engine thread: idle, begin, run, ended
  state,         \* Engine::state_: Idle stands for Armed and Disarmed
  totalActions,  \* Engine::totalActions_
  runActions,    \* RunStats::actions_
  runId,
  runsCompleted,
  work,          \* Engine::work_, the snapshot that is filled
  writer,        \* SeqLock::write(): free, open, copy, close; the words left
  seq, data,     \* SeqLock::seq_ and data_, word by word
  reader,        \* SeqLock::read(): where it is, s1, the words left, the tries
  out,           \* the reader's copy, word by word
  seen,          \* runsCompleted() as the reader saw it before it read
  since,         \* history: actions since the last reset that took effect
  final          \* history: the actions of each run that ended

enginevars == <<at, state, totalActions, runActions, runId, runsCompleted, work, since, final>>
writervars == <<writer, seq, data>>
readervars == <<reader, out, seen>>
vars == <<enginevars, writervars, readervars>>

Nothing == [publishSeq |-> 0, state |-> "Idle", totalActions |-> 0, runId |-> 0, runActions |-> 0]
Active(s) == s \in {"Running", "Paused"}

Init ==
  /\ at = "idle" /\ state = "Idle" /\ totalActions = 0 /\ runActions = 0
  /\ runId = 0 /\ runsCompleted = 0 /\ work = Nothing
  /\ writer = [at |-> "free", left |-> {}] /\ seq = 0 /\ data = [w \in Words |-> Nothing]
  /\ reader = [at |-> "idle", s1 |-> 0, left |-> {}, tries |-> 0, ok |-> FALSE]
  /\ out = [w \in Words |-> Nothing] /\ seen = 0
  /\ since = 0 /\ final = [r \in 1 .. MaxRuns |-> 0]
------------------------------------------------------------------------------
(* The engine thread                                                          *)

(* publish(): the totals count the run in progress, while it is one. The      *)
(* figures of a run stay on show after it.                                    *)
Publish ==
  /\ work' = [publishSeq |-> work.publishSeq + 1, state |-> state',
              totalActions |-> totalActions' + IF Active(state') THEN runActions' ELSE 0,
              runId |-> runId', runActions |-> runActions']
  /\ writer' = [at |-> "open", left |-> Words]

Engine == writer.at = "free" /\ work.publishSeq < MaxPublishes

(* The idle loop takes a batch of commands, which may reset the totals, stop  *)
(* with an emergency, or start a run; and publishes.                          *)
IdleBatch ==
  /\ Engine /\ at = "idle"
  /\ \E reset, start \in BOOLEAN :
       /\ start => runId < MaxRuns
       /\ at' = IF start THEN "begin" ELSE "idle"
       /\ totalActions' = IF reset THEN 0 ELSE totalActions
       /\ since' = IF reset THEN 0 ELSE since
  /\ UNCHANGED <<state, runActions, runId, runsCompleted, final>>
  /\ Publish /\ UNCHANGED <<seq, data, readervars>>

(* doRun() begins a run.                                                      *)
BeginRun ==
  /\ Engine /\ at = "begin" /\ at' = "run"
  /\ runId' = runId + 1 /\ runActions' = 0 /\ state' = "Running"
  /\ UNCHANGED <<totalActions, runsCompleted, since, final>>
  /\ Publish /\ UNCHANGED <<seq, data, readervars>>

(* A call of the sender carries actions, and a snapshot follows it when one   *)
(* is due. A reset of the totals during a run is dropped.                     *)
Act ==
  /\ Engine /\ at = "run" /\ state = "Running"
  /\ \E n \in Batch :
       /\ since + n <= MaxActions
       /\ runActions' = runActions + n /\ since' = since + n
  /\ UNCHANGED <<at, state, totalActions, runId, runsCompleted, final, seq, data, readervars>>
  /\ Publish \/ UNCHANGED <<work, writer>>

(* Waits and pauses publish as well; a run resumes without doing so.          *)
Pause ==
  /\ Engine /\ at = "run" /\ state' = "Paused"
  /\ UNCHANGED <<at, totalActions, runActions, runId, runsCompleted, since, final>>
  /\ Publish /\ UNCHANGED <<seq, data, readervars>>

Resume ==
  /\ Engine /\ at = "run" /\ state = "Paused" /\ state' = "Running"
  /\ UNCHANGED <<at, totalActions, runActions, runId, runsCompleted, work, since, final,
                 writervars, readervars>>

\* Mutant: the last snapshot of a run is published before the state changes.
EndRunStillActive ==
  /\ Engine /\ at = "run" /\ at' = "ended"
  /\ totalActions' = totalActions + runActions
  /\ final' = [final EXCEPT ![runId] = runActions]
  /\ UNCHANGED <<state, runActions, runId, runsCompleted, since>>
  /\ Publish /\ UNCHANGED <<seq, data, readervars>>

(* The end of doRun(): the run is added to the totals and leaves the state    *)
(* before the snapshot that shows both,                                       *)
EndRun ==
  /\ Engine /\ at = "run" /\ at' = "ended"
  /\ totalActions' = totalActions + runActions
  /\ state' = "Idle"
  /\ final' = [final EXCEPT ![runId] = runActions]
  /\ UNCHANGED <<runActions, runId, runsCompleted, since>>
  /\ Publish /\ UNCHANGED <<seq, data, readervars>>

\* Mutant: a run counts as completed while its last snapshot is written.
CountRunEarly ==
  /\ at = "ended" /\ at' = "idle"
  /\ runsCompleted' = runsCompleted + 1
  /\ UNCHANGED <<state, totalActions, runActions, runId, work, since, final, writervars, readervars>>

(* which is out when the run counts as completed.                             *)
CountRun ==
  /\ writer.at = "free" /\ at = "ended" /\ at' = "idle"
  /\ runsCompleted' = runsCompleted + 1
  /\ UNCHANGED <<state, totalActions, runActions, runId, work, since, final, writervars, readervars>>
------------------------------------------------------------------------------
(* SeqLock::write()                                                           *)

WriteOpen ==
  /\ writer.at = "open" /\ writer' = [writer EXCEPT !.at = "copy"]
  /\ seq' = seq + 1
  /\ UNCHANGED <<enginevars, data, readervars>>

WriteWord ==
  /\ writer.at = "copy"
  /\ \E w \in writer.left :
       /\ data' = [data EXCEPT ![w] = work]
       /\ writer' = [writer EXCEPT !.left = @ \ {w}]
  /\ UNCHANGED <<enginevars, seq, readervars>>

WriteClose ==
  /\ writer.at = "copy" /\ writer.left = {} /\ writer' = [writer EXCEPT !.at = "free"]
  /\ seq' = seq + 1
  /\ UNCHANGED <<enginevars, data, readervars>>
------------------------------------------------------------------------------
(* The reader                                                                 *)

(* It looks at runsCompleted() and calls read() into what it has from before. *)
ReadBegin ==
  /\ reader.at = "idle"
  /\ reader' = [at |-> "load", s1 |-> 0, left |-> {}, tries |-> 0, ok |-> FALSE]
  /\ seen' = runsCompleted
  /\ UNCHANGED <<enginevars, writervars, out>>

TryAgain ==
  reader' = IF reader.tries + 1 < Attempts
            THEN [reader EXCEPT !.at = "load", !.tries = @ + 1]
            ELSE [reader EXCEPT !.at = "done"]

(* A write is in progress: pause and try again.                               *)
LoadOdd ==
  /\ reader.at = "load" /\ seq % 2 = 1 /\ TryAgain
  /\ UNCHANGED <<enginevars, writervars, out, seen>>

LoadEven ==
  /\ reader.at = "load" /\ seq % 2 = 0
  /\ reader' = [reader EXCEPT !.at = "copy", !.s1 = seq, !.left = Words]
  /\ UNCHANGED <<enginevars, writervars, out, seen>>

ReadWord ==
  /\ reader.at = "copy"
  /\ \E w \in reader.left :
       /\ out' = [out EXCEPT ![w] = data[w]]
       /\ reader' = [reader EXCEPT !.left = @ \ {w}]
  /\ UNCHANGED <<enginevars, writervars, seen>>

\* Mutant: what was copied between two even numbers is taken for whole.
ReadCheckParity ==
  /\ reader.at = "copy" /\ reader.left = {}
  /\ IF seq % 2 = 0 THEN reader' = [reader EXCEPT !.at = "done", !.ok = TRUE] ELSE TryAgain
  /\ UNCHANGED <<enginevars, writervars, out, seen>>

(* The number is still the one it was before the copy, or all begins anew.    *)
ReadCheck ==
  /\ reader.at = "copy" /\ reader.left = {}
  /\ IF seq = reader.s1 THEN reader' = [reader EXCEPT !.at = "done", !.ok = TRUE] ELSE TryAgain
  /\ UNCHANGED <<enginevars, writervars, out, seen>>

ReadDone ==
  /\ reader.at = "done" /\ reader' = [at |-> "idle", s1 |-> 0, left |-> {}, tries |-> 0, ok |-> FALSE]
  /\ UNCHANGED <<enginevars, writervars, out, seen>>
------------------------------------------------------------------------------
EngineNext == IdleBatch \/ BeginRun \/ Act \/ Pause \/ Resume \/ EndRun \/ CountRun
WriterNext == WriteOpen \/ WriteWord \/ WriteClose
ReaderNext == ReadBegin \/ LoadOdd \/ LoadEven \/ ReadWord \/ ReadCheck \/ ReadDone
Next == EngineNext \/ WriterNext \/ ReaderNext
Spec == Init /\ [][Next]_vars
------------------------------------------------------------------------------
(* A read that reports success hands out a snapshot that was published, not   *)
(* pieces of several, wherever the engine was interrupted while it wrote      *)
(* (Stats.h SeqLock). A read that gives up may leave a mixture.               *)
SnapshotWhole ==
  reader.at = "done" /\ reader.ok => \A v, w \in Words : out[v] = out[w]

(* The totals on show are the actions performed since the last reset that     *)
(* took effect, none twice and none left out, before, during and after every  *)
(* run (Engine.cpp doRun(), publish()).                                       *)
TotalsExact == writer.at # "free" => work.totalActions = since

(* Whoever sees a run completed and then reads gets that run's last figures,  *)
(* or those of a later one (Bench.cpp runEngine(), App::tick()).              *)
ResultFinal ==
  reader.at = "done" /\ reader.ok /\ seen > 0 =>
    \A w \in Words :
      /\ out[w].runId >= seen
      /\ out[w].runId = seen => out[w].state = "Idle" /\ out[w].runActions = final[seen]
------------------------------------------------------------------------------
(* The abstract register. A snapshot is on show from the moment seq_ becomes  *)
(* odd: nobody reads until it is even again.                                  *)
AnyWord == CHOOSE w \in Words : TRUE
Register == INSTANCE AbstractSnapshot WITH
  shown <- IF writer.at = "open" THEN data[AnyWord] ELSE work,
  got   <- IF reader.at = "done" /\ reader.ok THEN {out[w] : w \in Words} ELSE {}

(* A read that succeeds is atomic: every word it hands out is of the snapshot *)
(* that is on show when it succeeds, never of an older one; and no snapshot   *)
(* is left out or shown twice (Stats.h SeqLock).                              *)
AtomicReads == Register!Spec
==============================================================================
