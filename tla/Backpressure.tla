---------------------------- MODULE Backpressure ----------------------------
(***************************************************************************)
(* How a MAX run keeps the system's input queue short: runMax() of         *)
(* scheduler/Engine.cpp holds back while too many of its events have not   *)
(* been seen by the mouse hook of trigger/TriggerEngine.cpp, which counts  *)
(* them as Windows delivers them; App::applyConfigs() tells both of them   *)
(* separately whether the profile wants that, and App::healthCheck() puts  *)
(* a hook back that Windows has silently removed.                          *)
(*                                                                         *)
(* Abstracted: an action is one event; the counters accepted and observed  *)
(* appear as their difference.  The trigger is a key, so that the mouse    *)
(* hook is there for the counting alone.                                   *)
(***************************************************************************)
EXTENDS Integers

CONSTANTS
    MaxInflight,   \* cfg_->maxInflight, when backpressure is on
    MaxBatch,      \* cfg_->maxBatchActions
    HealthMin,     \* events without an observation that alarm healthCheck()
    Granted,       \* a press starts a run of so many actions
    LossyHook,     \* TRUE: Windows may remove the hook
    MaxRuns,       \* bound: runs in a behaviour
    MaxChanges     \* bound: changes of the profile

ASSUME BackpressureAssumption ==
    /\ {MaxInflight, MaxBatch, Granted} \subseteq Nat \ {0}
    /\ HealthMin \in Nat
    /\ LossyHook \in BOOLEAN
    /\ {MaxRuns, MaxChanges} \subseteq Nat

VARIABLES
    waiting,          \* our events in the system's input queue
    \* the engine thread
    running, remaining, throttle, \* throttle: the configuration in use has maxInflight
    gap,              \* accepted - observed - bpBase, of the present run
    \* the trigger thread: cfg_.observeMouse, mouseHook_, and whether Windows
    \* still calls the hook
    observe, hook, live,
    \* in the mail: the configuration posted to each, a reinstall, and what
    \* applyConfigs() has not posted yet
    toTrigger, toEngine, reinstall, half,
    \* the UI thread since the last healthCheck(): accepted, observed has moved
    sent, moved,
    \* bounds and history, of the present run: `waiting` when it began, events
    \* delivered past a missing hook since
    runs, changes, atStart, lost

engine  == <<running, remaining, throttle, gap, runs, atStart, lost>>
trigger == <<observe, hook, live>>
mail    == <<toTrigger, toEngine, reinstall, half>>
health  == <<sent, moved>>
vars    == <<waiting, engine, trigger, mail, health, changes>>

\* What a posted configuration says of backpressure.
Setting == {"on", "off"}
None == "none"

TypeOK ==
    /\ {waiting, remaining, sent, runs, changes, atStart, lost} \subseteq Nat /\ gap \in Int
    /\ running \in BOOLEAN /\ throttle \in BOOLEAN /\ reinstall \in BOOLEAN /\ moved \in BOOLEAN
    /\ observe \in BOOLEAN /\ hook \in BOOLEAN /\ live \in BOOLEAN
    /\ toTrigger \in Setting \cup {None} /\ toEngine \in Setting \cup {None}
    /\ half \in Setting \cup {None}
    /\ live => hook
    /\ sent <= HealthMin + 1

Init ==
    /\ waiting = 0 /\ running = FALSE /\ remaining = 0 /\ gap = 0
    /\ throttle \in BOOLEAN
    /\ observe = throttle /\ hook = throttle /\ live = throttle
    /\ toTrigger = None /\ toEngine = None /\ reinstall = FALSE /\ half = None
    /\ sent = 0 /\ moved = FALSE
    /\ runs = 0 /\ changes = 0 /\ atStart = 0 /\ lost = 0

-----------------------------------------------------------------------------
(* The UI thread.                                                          *)

\* applyConfigs(): bp goes to the trigger engine, then to the scheduler.
ApplyConfigs(bp) ==
    /\ half = None /\ changes < MaxChanges
    /\ toTrigger' = bp /\ half' = bp
    /\ changes' = changes + 1
    /\ UNCHANGED <<waiting, engine, trigger, toEngine, reinstall, health>>

ApplyRest ==
    /\ half # None
    /\ toEngine' = half /\ half' = None
    /\ UNCHANGED <<waiting, engine, trigger, toTrigger, reinstall, health, changes>>

Silent == hook /\ sent > HealthMin /\ ~moved

HealthCheck ==
    /\ half = None
    /\ reinstall' = (reinstall \/ Silent)
    /\ sent' = 0 /\ moved' = FALSE
    /\ UNCHANGED <<waiting, engine, trigger, toTrigger, toEngine, half, changes>>

-----------------------------------------------------------------------------
(* The trigger thread and Windows.                                         *)

\* updateHooks(): a hook that is there, alive or not, is left alone.
Reconfig ==
    /\ toTrigger # None
    /\ observe' = (toTrigger = "on") /\ toTrigger' = None
    /\ hook' = observe' /\ live' = (observe' /\ (live \/ ~hook))
    /\ UNCHANGED <<waiting, engine, toEngine, reinstall, half, health, changes>>

Reinstall ==
    /\ reinstall /\ reinstall' = FALSE
    /\ hook' = observe /\ live' = observe
    /\ UNCHANGED <<waiting, engine, observe, toTrigger, toEngine, half, health, changes>>

LoseHook ==
    /\ LossyHook /\ live
    /\ live' = FALSE
    /\ UNCHANGED <<waiting, engine, observe, hook, mail, health, changes>>

\* Windows delivers one of our events; the hook, if called, counts it.
Deliver ==
    /\ waiting > 0 /\ waiting' = waiting - 1
    /\ IF live THEN gap' = gap - 1 /\ UNCHANGED lost
               ELSE lost' = lost + 1 /\ UNCHANGED gap
    /\ moved' = (moved \/ live)
    /\ UNCHANGED <<running, remaining, throttle, runs, atStart, trigger, mail, sent, changes>>

-----------------------------------------------------------------------------
(* The engine thread.                                                      *)

\* Mutant: the counters as they stand, with all they missed in earlier runs.
RebaseNever == UNCHANGED gap

\* bpBase is what accepted and observed differ by when runMax() is entered.
Rebase == gap' = 0

Start ==
    /\ ~running /\ runs < MaxRuns /\ toEngine = None
    /\ running' = TRUE /\ remaining' = Granted
    /\ Rebase /\ atStart' = waiting /\ lost' = 0
    /\ runs' = runs + 1
    /\ UNCHANGED <<waiting, throttle, trigger, mail, health, changes>>

\* A configuration, taken over between two batches or while idle; bpBase stays.
TakeConfig ==
    /\ toEngine # None
    /\ throttle' = (toEngine = "on") /\ toEngine' = None
    /\ UNCHANGED <<waiting, running, remaining, gap, runs, atStart, lost, trigger,
                   toTrigger, reinstall, half, health, changes>>

\* Mutant: the batch is thought of as part of the limit.
OverflowsLate == gap > MaxInflight + MaxBatch

Overflows == gap > MaxInflight

Stalled == throttle /\ Overflows

Least(a, b) == IF a <= b THEN a ELSE b

\* Mutant: the last batch is not cut; the unsigned counter would wrap.
BatchUncut == MaxBatch

Batch == Least(MaxBatch, remaining)

SendBatch ==
    /\ running /\ remaining > 0 /\ toEngine = None /\ ~Stalled
    /\ waiting' = waiting + Batch /\ gap' = gap + Batch
    /\ remaining' = remaining - Batch
    /\ sent' = Least(sent + Batch, HealthMin + 1)
    /\ UNCHANGED <<running, throttle, runs, atStart, lost, trigger, mail, moved, changes>>

\* The run has done its actions ...
RunDone ==
    /\ running /\ remaining = 0
    /\ running' = FALSE
    /\ UNCHANGED <<waiting, remaining, throttle, gap, runs, atStart, lost, trigger, mail, health, changes>>

\* ... or is stopped.
StopRun ==
    /\ running /\ running' = FALSE
    /\ UNCHANGED <<waiting, remaining, throttle, gap, runs, atStart, lost, trigger, mail, health, changes>>

-----------------------------------------------------------------------------
EngineThread  == TakeConfig \/ SendBatch \/ RunDone
TriggerThread == Reconfig \/ Reinstall
UiThread      == ApplyRest \/ HealthCheck

Next ==
    \/ \E bp \in Setting : ApplyConfigs(bp)
    \/ UiThread \/ TriggerThread \/ EngineThread
    \/ LoseHook \/ Deliver \/ Start \/ StopRun

Spec == Init /\ [][Next]_vars

\* The threads keep running, and Windows keeps delivering.  The health check
\* is a timer of the UI thread.
FairSpec ==
    /\ Spec
    /\ WF_vars(EngineThread) /\ WF_vars(Deliver)
    /\ WF_vars(Reconfig) /\ WF_vars(Reinstall)
    /\ WF_vars(ApplyRest) /\ WF_vars(HealthCheck)

-----------------------------------------------------------------------------
\* What runMax() takes for the events in flight is what the run has put into
\* the queue and nobody has taken out, and what got lost past a missing hook.
GapExact == gap = waiting - atStart + lost

\* A throttled engine never adds to a queue that holds, beyond what was there
\* when the run began, more than maxInflight events and one batch ("never let
\* the system input queue fall far behind us").
QueueStaysShort ==
    [][(throttle /\ waiting' > waiting) => waiting' <= atStart + MaxInflight + MaxBatch]_vars

\* A run of which the hook has seen every event performs its actions and ends:
\* backpressure alone never stops it for good.
SeenRunEnds == (running /\ lost = 0) ~> (~running \/ lost > 0)

\* App.cpp: "if they stop arriving while we keep injecting, reinstall."  A run
\* does not stay behind a hook that Windows has removed.
HookComesBack == (running /\ hook /\ ~live) ~> (live \/ ~hook \/ ~running)

\* README: "Fixed count (run N actions, then stop)".
CountRunEnds == running ~> ~running
=============================================================================
