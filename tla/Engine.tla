------------------------------- MODULE Engine -------------------------------
(***************************************************************************)
(* The scheduler engine of scheduler/Engine.{h,cpp}: one engine thread     *)
(* that owns the output, and any number of caller threads (UI, hook        *)
(* thread, benchmark) that reach it through a locked queue, an atomic flag *)
(* polled by the hot loop and an auto-reset event that ends kernel waits.  *)
(*                                                                         *)
(* A caller's post() is three steps (push under the lock, store the flag,  *)
(* SetEvent), preceded by the store of armed_ that arm() and emergency()   *)
(* make on the caller's own thread.  The engine thread is a program        *)
(* counter `epc`; commands are processed one per step, as the callers may  *)
(* store armed_ between two of them.                                       *)
(*                                                                         *)
(* Abstracted: the clock (a wait ends, a gate check is due, a deadline     *)
(* passes at any time), the inputs of a step (an action is `steps` calls   *)
(* of SendInput; between the first and the last something is held down),   *)
(* telemetry, power and priority.                                          *)
(***************************************************************************)
EXTENDS Modes, Sequences

CONSTANTS
    Callers,      \* the threads that call the engine's API
    Ops,          \* Ops[p]: the commands thread p may post
    Rebinding,    \* TRUE: the trigger may be rebound while it is down
    Configs,      \* names of the configurations in play
    Cfg,          \* Cfg[c]: what configuration c says
    NoCfg,        \* "no pending configuration"
    CatchUpMax,   \* kMaxCatchUpBatch
    MaxPosts      \* bound: API calls in a behaviour

EngineConfig ==
    [mode : TriggerMode, burstCount : Nat, fixedCount : Nat,
     ok : BOOLEAN,              \* compileAction() succeeds
     steps : Nat \ {0},         \* SendInput calls per action
     catchUp : BOOLEAN,         \* LatePolicy::CatchUp
     maxMode : BOOLEAN, maxBatch : Nat \ {0}, backpressure : BOOLEAN]

CmdType == {"SetConfig", "Arm", "TriggerDown", "TriggerUp", "StartRun",
            "StopRun", "Emergency", "Quit"}

Command == {c \in [type : CmdType, flag : BOOLEAN, limits : RunLimits,
                   cfg : Configs \cup {NoCfg}] :
              c.type = "SetConfig" => c.cfg \in Configs}

Cmd(t)          == [type |-> t, flag |-> FALSE, limits |-> NoLimits, cfg |-> NoCfg]
CmdArm(on)      == [Cmd("Arm") EXCEPT !.flag = on]
CmdConfig(c)    == [Cmd("SetConfig") EXCEPT !.cfg = c]
CmdStart(limit) == [Cmd("StartRun") EXCEPT !.limits = limit]

ASSUME EngineAssumption ==
    /\ Cfg \in [Configs -> EngineConfig]
    /\ NoCfg \notin Configs
    /\ DOMAIN Ops = Callers
    /\ \A p \in Callers : \A c \in Ops[p] : c \in Command
    /\ Rebinding \in BOOLEAN
    /\ CatchUpMax \in Nat \ {0}
    /\ MaxPosts \in Nat

Unlimited == -1    \* kUnlimited

Least(a, b) == IF a <= b THEN a ELSE b

EngineState == {"Disarmed", "Armed", "Running", "Paused"}

VARIABLES
    \* shared between the threads
    queue, flag, event,   \* queue_, cmdFlag_, cmdEvent_
    armed, state,         \* armed_, state_
    gate,                 \* *gateOpen_, written by the trigger thread
    \* the callers
    pc, cmd,              \* where each is inside post(), and with what
    keyDown,              \* the trigger key, as the hook thread last saw it
    posts,                \* calls made so far
    \* engine thread: the command batch and the idle loop's locals
    epc, batch, start, lim, quit,
    \* engine thread: configuration and the run
    cfg, pending, stop, remaining, timed, step, inMax,
    \* the output: something held down; flips at each SendInput
    held, pulse,
    \* time: the run's endQpc has passed
    expired,
    \* history: actions granted to and counted by a limited run, SendInput
    \* calls made while a stop order was visible, endQpc passed in a pause
    granted, actions, lateSends, expiredInPause

sharedVars == <<queue, flag, event>>
callerVars == <<pc, cmd, keyDown, posts>>
idleVars   == <<start, lim, quit>>
runVars    == <<stop, remaining, timed, step, inMax>>
outVars    == <<held, pulse, lateSends>>
histVars   == <<granted, actions, expiredInPause>>
\* What an engine step inside a run leaves alone, and what a jump does.
loopFrame == <<sharedVars, armed, gate, callerVars, batch, idleVars, expired, histVars>>
allButEpc == <<loopFrame, state, cfg, pending, runVars, outVars>>

vars == <<sharedVars, armed, state, gate, callerVars, epc, batch, idleVars,
          cfg, pending, runVars, outVars, expired, histVars>>

-----------------------------------------------------------------------------
CallerPc == {"ready", "push", "flag", "event", "join", "joined"}

\* Locations inside doRun, and of the whole engine thread.
RunLoc == {"top", "runCmds", "boundary", "wait", "send", "max", "maxSend",
           "pause", "pauseCmds", "pauseCheck", "end", "final"}
EngineLoc == RunLoc \cup {"idle", "drain", "cmds", "exited"}

TypeOK ==
    /\ queue \in Seq(Command) /\ batch \in Seq(Command)
    /\ flag \in BOOLEAN /\ event \in BOOLEAN
    /\ armed \in BOOLEAN /\ state \in EngineState /\ gate \in BOOLEAN
    /\ pc \in [Callers -> CallerPc] /\ cmd \in [Callers -> Command]
    /\ keyDown \in BOOLEAN /\ posts \in Nat
    /\ epc \in EngineLoc
    /\ start \in BOOLEAN /\ lim \in RunLimits /\ quit \in BOOLEAN
    /\ cfg \in Configs /\ pending \in Configs \cup {NoCfg}
    /\ stop \in BOOLEAN /\ remaining \in Nat \cup {Unlimited}
    /\ timed \in BOOLEAN /\ step \in Nat /\ inMax \in BOOLEAN
    /\ epc \in RunLoc => step < Cfg[cfg].steps
    /\ held \in BOOLEAN /\ pulse \in {0, 1}
    /\ expired \in BOOLEAN /\ expiredInPause \in BOOLEAN
    /\ granted \in Nat /\ actions \in Nat /\ lateSends \in 0..2

\* The engine as App::init() leaves it: started, its first configuration
\* applied and, with armOnLaunch, armed.
Init ==
    /\ queue = <<>> /\ batch = <<>> /\ flag = FALSE /\ event = FALSE
    /\ armed \in BOOLEAN /\ state = (IF armed THEN "Armed" ELSE "Disarmed")
    /\ gate \in BOOLEAN
    /\ pc = [p \in Callers |-> "ready"] /\ cmd = [p \in Callers |-> Cmd("StopRun")]
    /\ keyDown = FALSE /\ posts = 0
    /\ epc = "idle" /\ start = FALSE /\ lim = NoLimits /\ quit = FALSE
    /\ cfg \in Configs /\ pending = NoCfg
    /\ stop = FALSE /\ remaining = 0 /\ timed = FALSE /\ step = 0 /\ inMax = FALSE
    /\ held = FALSE /\ pulse = 0 /\ lateSends = 0
    /\ expired = FALSE /\ expiredInPause = FALSE
    /\ granted = 0 /\ actions = 0

-----------------------------------------------------------------------------
(* Caller threads: the API and post().                                     *)

engineVars == <<epc, batch, idleVars, cfg, pending, runVars, outVars>>
callFrame  == <<state, gate, engineVars, expired, histVars>>

\* The hook thread reports a press only of a trigger it believes up, and a
\* release only of one it believes down.  A new binding makes it forget that
\* the old one is down: the next report is then a press again.
HookOrder(c) ==
    /\ c.type = "TriggerDown" => ~keyDown
    /\ c.type = "TriggerUp" => keyDown
HookKey(c) == \/ c.type = "TriggerDown"
              \/ c.type \notin {"TriggerDown", "TriggerUp"} /\ keyDown

\* The value that command c stores to armed_.
ArmedBy(c) == IF c.type = "Arm" THEN c.flag ELSE armed /\ c.type # "Emergency"

\* arm() and emergency() store armed_ before they post.
Call(p, c) ==
    /\ pc[p] = "ready" /\ posts < MaxPosts
    /\ HookOrder(c)
    /\ keyDown' \in {HookKey(c), HookKey(c) /\ ~Rebinding}
    /\ armed' = ArmedBy(c)
    /\ cmd' = [cmd EXCEPT ![p] = c]
    /\ pc' = [pc EXCEPT ![p] = "push"]
    /\ posts' = posts + 1
    /\ UNCHANGED <<sharedVars, callFrame>>

PostPush(p) ==
    /\ pc[p] = "push"
    /\ queue' = Append(queue, cmd[p])
    /\ pc' = [pc EXCEPT ![p] = "flag"]
    /\ UNCHANGED <<flag, event, armed, cmd, keyDown, posts, callFrame>>

PostFlag(p) ==
    /\ pc[p] = "flag"
    /\ flag' = TRUE
    /\ pc' = [pc EXCEPT ![p] = "event"]
    /\ UNCHANGED <<queue, event, armed, cmd, keyDown, posts, callFrame>>

\* SetEvent; the thread that called shutdown() then joins the engine thread.
PostEvent(p) ==
    /\ pc[p] = "event"
    /\ event' = TRUE
    /\ pc' = [pc EXCEPT ![p] = IF cmd[p].type = "Quit" THEN "join" ELSE "ready"]
    /\ cmd' = [cmd EXCEPT ![p] = Cmd("StopRun")]
    /\ UNCHANGED <<queue, flag, armed, keyDown, posts, callFrame>>

Join(p) ==
    /\ pc[p] = "join" /\ epc = "exited"
    /\ pc' = [pc EXCEPT ![p] = "joined"]
    /\ UNCHANGED <<sharedVars, armed, cmd, keyDown, posts, callFrame>>

Post(p) == PostPush(p) \/ PostFlag(p) \/ PostEvent(p) \/ Join(p)

-----------------------------------------------------------------------------
(* The environment: the foreground gate flips, the run's deadline passes.  *)

InRun == epc \in RunLoc

GateFlips ==
    /\ gate' = ~gate
    /\ UNCHANGED <<sharedVars, armed, state, callerVars, engineVars, expired, histVars>>

DeadlinePasses ==
    /\ InRun /\ timed /\ ~expired
    /\ expired' = TRUE
    /\ expiredInPause' = (state = "Paused")
    /\ UNCHANGED <<sharedVars, armed, state, gate, callerVars, engineVars,
                   granted, actions>>

-----------------------------------------------------------------------------
(* threadMain(): the idle loop.                                            *)

\* Mutant: one command per wake-up.
DrainOne ==
    /\ batch' = SubSeq(queue, 1, Least(1, Len(queue)))
    /\ queue' = SubSeq(queue, 2, Len(queue)) /\ flag' = FALSE

\* drain(): under the lock, take the queue and clear the flag.
Drain ==
    /\ batch' = queue /\ queue' = <<>> /\ flag' = FALSE

\* Mutant: what is held down stays down.
ReleaseNothing == UNCHANGED held

\* sender_.releaseAll(), when Windows accepts the input (HeldInput.tla has
\* the case when it does not).
ReleaseAll == held' = FALSE

IdleWake ==
    /\ epc = "idle" /\ event
    /\ event' = FALSE
    /\ epc' = "drain"
    /\ UNCHANGED <<queue, flag, armed, state, gate, callerVars, batch, idleVars,
                   cfg, pending, runVars, outVars, expired, histVars>>

IdleDrain ==
    /\ epc = "drain"
    /\ Drain
    /\ start' = FALSE /\ lim' = NoLimits
    /\ epc' = "cmds" /\ lateSends' = 0
    /\ UNCHANGED <<event, armed, state, gate, callerVars, quit, cfg, pending,
                   runVars, held, pulse, expired, histVars>>

\* One turn of the switch: what a command does while nothing runs.
IdleCommand(c) ==
    /\ cfg'   = IF c.type = "SetConfig" THEN c.cfg ELSE cfg
    /\ armed' = ArmedBy(c)
    /\ state' = CASE c.type = "Arm"       -> IF c.flag THEN "Armed" ELSE "Disarmed"
                  [] c.type = "Emergency" -> "Disarmed"
                  [] OTHER                -> state
    /\ LET d == decideOnTriggerDown(Cfg[cfg], FALSE)
           pressed == c.type = "TriggerDown" /\ armed /\ d.kind = "Start"
           lifted == c.type = "TriggerUp" /\ Cfg[cfg].mode = "Hold"
       IN /\ start' = (\/ pressed
                       \/ c.type = "StartRun"
                       \/ start /\ ~lifted /\ c.type \notin {"StopRun", "Emergency"})
          /\ lim' = IF pressed THEN d.limits
                    ELSE IF c.type = "StartRun" THEN c.limits ELSE lim
    /\ IF c.type = "Emergency" THEN ReleaseAll ELSE UNCHANGED held
    /\ quit' = (quit \/ c.type = "Quit")

IdleNext ==
    /\ epc = "cmds" /\ batch # <<>>
    /\ IdleCommand(Head(batch))
    /\ batch' = Tail(batch)
    /\ UNCHANGED <<sharedVars, gate, callerVars, epc, pending, runVars, pulse,
                   lateSends, expired, histVars>>

\* The batch is done and no run begins: wait again, or leave the loop, whose
\* last act is releaseAll().
IdleRest ==
    /\ epc = "cmds" /\ batch = <<>>
    /\ quit \/ ~start \/ ~Cfg[cfg].ok
    /\ epc' = IF quit THEN "exited" ELSE "idle"
    /\ IF quit THEN ReleaseAll ELSE UNCHANGED held
    /\ UNCHANGED <<sharedVars, armed, state, gate, callerVars, batch, idleVars,
                   cfg, pending, runVars, pulse, lateSends, expired, histVars>>

-----------------------------------------------------------------------------
(* doRun(): entry and exit.                                                *)

RunStart ==
    /\ epc = "cmds" /\ batch = <<>>
    /\ ~quit /\ start /\ Cfg[cfg].ok
    /\ stop' = FALSE
    /\ remaining' = IF lim.maxActions = 0 THEN Unlimited ELSE lim.maxActions
    /\ timed' = lim.timed
    /\ step' = 0 /\ inMax' = Cfg[cfg].maxMode
    /\ state' = "Running"
    /\ epc' = "top"
    /\ expired' = FALSE /\ expiredInPause' = FALSE
    /\ granted' = lim.maxActions /\ actions' = 0
    /\ start' = FALSE /\ lim' = NoLimits    \* dead from here on
    /\ UNCHANGED <<sharedVars, armed, gate, callerVars, batch, quit,
                   cfg, pending, outVars>>

\* runTimed() or runMax() returned: everything is released first ...
RunRelease ==
    /\ epc = "end"
    /\ ReleaseAll
    /\ epc' = "final"
    /\ UNCHANGED <<sharedVars, armed, state, gate, callerVars, batch, idleVars,
                   cfg, pending, runVars, pulse, lateSends, expired, histVars>>

\* Mutant: the state from before the run is put back.
FinalStateArmed == "Armed"

FinalState == IF armed THEN "Armed" ELSE "Disarmed"

\* ... then the state follows armed_, and a waiting configuration is applied.
RunFinish ==
    /\ epc = "final"
    /\ state' = FinalState
    /\ cfg' = IF pending = NoCfg THEN cfg ELSE pending
    /\ pending' = NoCfg
    /\ epc' = "idle"
    /\ expired' = FALSE /\ expiredInPause' = FALSE
    /\ granted' = 0 /\ actions' = 0
    /\ UNCHANGED <<sharedVars, armed, gate, callerVars, batch, idleVars,
                   runVars, outVars>>

-----------------------------------------------------------------------------
(* handleRunCommands(): what a command does while a run is on.             *)

RunCommand(c) ==
    LET d == decideOnTriggerDown(Cfg[cfg], TRUE)
        u == decideOnTriggerUp(Cfg[cfg], TRUE)
        extend == /\ c.type = "TriggerDown" /\ d.kind = "Extend"
                  /\ remaining # Unlimited
    IN /\ pending' = IF c.type = "SetConfig" THEN c.cfg ELSE pending
       /\ armed' = ArmedBy(c)
       /\ stop' = \/ stop
                  \/ c.type \in {"StopRun", "Emergency", "Quit"}
                  \/ c.type = "Arm" /\ ~c.flag
                  \/ c.type = "TriggerDown" /\ d.kind = "Stop"
                  \/ c.type = "TriggerUp" /\ u.kind = "Stop"
       /\ remaining' = IF extend THEN remaining + d.extendBy ELSE remaining
       /\ granted' = IF extend THEN granted + d.extendBy ELSE granted

\* Mutant: Quit stops the run and is forgotten.
RepostNothing(c) == UNCHANGED sharedVars

\* The engine thread's own post(): it drains nothing meanwhile, so one step.
Repost(c) ==
    /\ queue' = Append(queue, c)
    /\ flag' = TRUE /\ event' = TRUE

\* Quit is posted again for the idle loop, and the rest of the batch is dropped.
RunNext ==
    /\ epc \in {"runCmds", "pauseCmds"} /\ batch # <<>>
    /\ RunCommand(Head(batch))
    /\ IF Head(batch).type = "Quit"
       THEN /\ Repost(Head(batch))
            /\ batch' = <<>>
       ELSE /\ batch' = Tail(batch)
            /\ UNCHANGED sharedVars
    /\ UNCHANGED <<state, gate, callerVars, epc, idleVars, cfg, timed, step, inMax,
                   outVars, expired, actions, expiredInPause>>

\* Mutant: the boundary is looked at between the steps of an action.
LoopBodyAnyStep == IF inMax THEN "max" ELSE "boundary"

\* Where the loop goes on after its flag check: an action under way is
\* finished before anything else is looked at.
LoopBody == IF inMax THEN "max" ELSE IF step = 0 THEN "boundary" ELSE "wait"

\* Mutant: the result of handleRunCommands() is ignored inside a pause.
AfterCommandsPauseDeaf ==
    IF epc = "pauseCmds" THEN "pauseCheck" ELSE IF stop THEN "end" ELSE LoopBody

AfterCommands ==
    IF stop THEN "end" ELSE IF epc = "pauseCmds" THEN "pauseCheck" ELSE LoopBody

RunCommandsDone ==
    /\ epc \in {"runCmds", "pauseCmds"} /\ batch = <<>>
    /\ epc' = AfterCommands
    /\ UNCHANGED allButEpc

\* Mutants: the flag is looked at only between actions; not inside a pause.
FlagSeenAtBoundary == flag /\ step = 0
FlagSeenUnpaused == flag /\ state = "Running"

FlagSeen == flag

\* cmdFlag_.load() && handleRunCommands()
PollCommands(handler, otherwise) ==
    IF FlagSeen THEN /\ Drain
                     /\ epc' = handler /\ lateSends' = 0
    ELSE /\ epc' = otherwise
         /\ UNCHANGED <<queue, flag, batch, lateSends>>

\* The first line of both run loops.
CheckFlag ==
    /\ epc = "top"
    /\ PollCommands("runCmds", LoopBody)
    /\ UNCHANGED <<event, armed, state, gate, callerVars, idleVars,
                   cfg, pending, runVars, held, pulse, expired, histVars>>

-----------------------------------------------------------------------------
(* runTimed(): at an action boundary, then wait and send, step by step.    *)

\* A configuration that arrived during the run; switching to MAX enters
\* runMax() with what remains (whose loop starts with a flag check).
BoundaryConfig ==
    /\ epc = "boundary" /\ pending # NoCfg
    /\ cfg' = pending /\ pending' = NoCfg
    /\ inMax' = Cfg[pending].maxMode
    /\ epc' = IF ~Cfg[pending].maxMode THEN "boundary"
              ELSE IF Cfg[pending].ok THEN "top" ELSE "end"
    /\ UNCHANGED <<loopFrame, state, stop, remaining, timed, step, outVars>>

\* Mutant: the limit is never looked at.
RanOutNever == FALSE

RanOut == remaining = 0

BoundaryDone ==
    /\ epc = "boundary" /\ pending = NoCfg
    /\ ~Cfg[cfg].ok \/ RanOut
    /\ epc' = "end"
    /\ UNCHANGED allButEpc

\* pauseUntilGate() as far as its first wait.
EnterPause ==
    /\ ReleaseAll
    /\ state' = "Paused"
    /\ epc' = "pause"
    /\ UNCHANGED <<loopFrame, cfg, pending, runVars, pulse, lateSends>>

GoesOn == pending = NoCfg /\ ~RanOut

BoundaryPause ==
    /\ epc = "boundary" /\ GoesOn /\ Cfg[cfg].ok /\ ~gate
    /\ EnterPause

\* tl.next() >= endQpc: the next slot lies past the end.
BoundaryDeadline ==
    /\ epc = "boundary" /\ GoesOn /\ Cfg[cfg].ok /\ timed
    /\ epc' = "end"
    /\ UNCHANGED allButEpc

\* The gate is open, or was checked less than kGateCheckMs ago.
BoundaryGo ==
    /\ epc = "boundary" /\ GoesOn /\ Cfg[cfg].ok
    /\ epc' = "wait"
    /\ UNCHANGED allButEpc

WaitReached ==
    /\ epc = "wait"
    /\ epc' = "send"
    /\ UNCHANGED allButEpc

\* Back to the flag check: the flag was seen, the event ended a kernel wait
\* (and is consumed by it), or a chunk of a long wait is over.
WaitInterrupted ==
    /\ epc = "wait"
    /\ epc' = "top"
    /\ event' \in {event, FALSE}
    /\ UNCHANGED <<queue, flag, armed, gate, callerVars, batch, idleVars, expired,
                   histVars, state, cfg, pending, runVars, outVars>>

\* A caller has posted an order to stop and raised the flag.
OrdersStop(c) == \/ c.type \in {"StopRun", "Emergency", "Quit"}
                 \/ c.type = "Arm" /\ ~c.flag
StopOrdered == flag /\ \E i \in DOMAIN queue : OrdersStop(queue[i])

\* One call of InputSender::send() that counts n actions (n = 0: a step inside
\* an action).  An action that does not compile has no inputs and sends nothing:
\* runMax() may count such actions, it checks the program only at its entry.
Send(n, lastStep) ==
    /\ held' = ~lastStep
    /\ pulse' = IF Cfg[cfg].ok THEN 1 - pulse ELSE pulse
    /\ lateSends' = IF StopOrdered /\ lateSends < 2 THEN lateSends + 1 ELSE lateSends
    /\ actions' = IF remaining = Unlimited THEN actions ELSE actions + n

\* Mutant: a batch is not cut to what the run has left.
Uncapped(n) == n

Capped(n) == IF remaining = Unlimited THEN n ELSE Least(n, remaining)

\* Mutant: a batch is paid for as one action.
PayOne(n) == remaining' = IF remaining = Unlimited THEN Unlimited ELSE remaining - 1

Pay(n) == remaining' = IF remaining = Unlimited THEN Unlimited ELSE remaining - n

\* Slots already due go out together, if an action is a single call.
TimedBatches ==
    IF step = 0 /\ Cfg[cfg].catchUp /\ Cfg[cfg].steps = 1
    THEN 1..Capped(CatchUpMax) ELSE {1}

TimedSend ==
    /\ epc = "send"
    /\ \E n \in TimedBatches :
         LET lastStep == step + 1 = Cfg[cfg].steps
         IN /\ Send(IF step = 0 THEN n ELSE 0, lastStep)
            /\ step' = IF lastStep THEN 0 ELSE step + 1
            /\ IF lastStep THEN Pay(n) ELSE UNCHANGED remaining
    /\ epc' = "top"
    /\ UNCHANGED <<sharedVars, armed, state, gate, callerVars, batch, idleVars,
                   cfg, pending, stop, timed, inMax, expired, granted, expiredInPause>>

-----------------------------------------------------------------------------
(* runMax(): as fast as Windows accepts.                                   *)

MaxConfig ==
    /\ epc = "max" /\ pending # NoCfg
    /\ cfg' = pending /\ pending' = NoCfg
    /\ epc' = IF Cfg[pending].maxMode THEN "max" ELSE "end"
    /\ UNCHANGED <<loopFrame, state, runVars, outVars>>

MaxDone ==
    /\ epc = "max" /\ pending = NoCfg
    /\ RanOut \/ expired
    /\ epc' = "end"
    /\ UNCHANGED allButEpc

MaxPause ==
    /\ epc = "max" /\ GoesOn /\ ~expired /\ ~gate
    /\ EnterPause

MaxGo ==
    /\ epc = "max" /\ GoesOn /\ ~expired
    /\ epc' = "maxSend"
    /\ UNCHANGED allButEpc

\* Too much is in flight: spin, back to the flag check.
MaxBackpressure ==
    /\ epc = "maxSend" /\ Cfg[cfg].backpressure
    /\ epc' = "top"
    /\ UNCHANGED allButEpc

MaxSend ==
    /\ epc = "maxSend"
    /\ LET n == Capped(Cfg[cfg].maxBatch)
       IN /\ Send(n, TRUE)
          /\ Pay(n)
    /\ epc' = "top"
    /\ UNCHANGED <<sharedVars, armed, state, gate, callerVars, batch, idleVars,
                   cfg, pending, stop, timed, step, inMax, expired, granted, expiredInPause>>

-----------------------------------------------------------------------------
(* pauseUntilGate(): its loop.                                             *)

PauseWait(wakes) ==
    /\ epc = "pause" /\ wakes
    /\ event' = FALSE
    /\ PollCommands("pauseCmds", "pauseCheck")
    /\ UNCHANGED <<armed, state, gate, callerVars, idleVars,
                   cfg, pending, runVars, held, pulse, expired, histVars>>

\* Mutant: no timeout and no gate event.
PauseWakeOnCommand == PauseWait(event)

\* The event, the gate's own event or the 50 ms timeout ends the wait.
PauseWake == PauseWait(TRUE)

PauseCheck ==
    /\ epc = "pauseCheck"
    /\ IF gate THEN /\ state' = "Running"
                    /\ epc' = IF inMax THEN "maxSend" ELSE "top"
       ELSE /\ epc' = "pause"
            /\ UNCHANGED state
    /\ UNCHANGED <<loopFrame, cfg, pending, runVars, outVars>>

-----------------------------------------------------------------------------
EngineStep ==
    \/ IdleWake \/ IdleDrain \/ IdleNext \/ IdleRest
    \/ RunStart \/ RunRelease \/ RunFinish
    \/ RunNext \/ RunCommandsDone \/ CheckFlag
    \/ BoundaryConfig \/ BoundaryDone \/ BoundaryPause \/ BoundaryDeadline \/ BoundaryGo
    \/ WaitReached \/ WaitInterrupted \/ TimedSend
    \/ MaxConfig \/ MaxDone \/ MaxPause \/ MaxGo \/ MaxBackpressure \/ MaxSend
    \/ PauseWake \/ PauseCheck

Next ==
    \/ \E p \in Callers : \E c \in Ops[p] : Call(p, c)
    \/ \E p \in Callers : Post(p)
    \/ GateFlips \/ DeadlinePasses
    \/ EngineStep

Spec == Init /\ [][Next]_vars

\* A thread that is inside post() and the engine thread keep running.  The
\* clock makes a wait end, a gate check fall due and a deadline's slot come
\* round again and again, whatever else happens in between.  Nothing says that
\* backpressure lets go: that wait has no timeout.
Fairness ==
    /\ \A p \in Callers : WF_vars(Post(p))
    /\ WF_vars(EngineStep)
    /\ SF_vars(WaitReached)
    /\ SF_vars(BoundaryPause \/ MaxPause)
    /\ SF_vars(BoundaryDeadline)

FairSpec == Spec /\ Fairness

-----------------------------------------------------------------------------
(* Safety.                                                                 *)

\* The three-step post() and the two consumers of the event lose nothing: a
\* command in the queue of an idle engine has its wake-up set or on its way,
\* and one in the queue of a running engine has the flag set or on its way.
\* (The event may be consumed by a wait inside the run.)
NoLostCommand ==
    queue # <<>> =>
        /\ epc = "idle" => event \/ \E p \in Callers : pc[p] \in {"flag", "event"}
        /\ InRun => flag \/ \E p \in Callers : pc[p] = "flag"

\* armed_ is stored by callers ahead of their command and again by the engine
\* thread.  Once nothing is under way, an idle engine shows the state that
\* armed_ says, whoever stored last.
ArmedMatchesState ==
    (epc = "idle" /\ queue = <<>> /\ \A p \in Callers : pc[p] # "push")
        => state = IF armed THEN "Armed" ELSE "Disarmed"

\* After a caller has posted a stop, disarm, emergency or quit and raised the
\* flag, at most the SendInput call already past its flag check goes out
\* ("a trigger release stops output immediately", Engine.h).
StopIsPrompt == lateSends <= 1

\* Nothing is held down unless the engine shows Running: not while paused, not
\* after a run that was stopped between the DOWN and the UP of an action, not
\* after an emergency, not after the thread has exited.
ReleasedUnlessRunning == held => state = "Running" /\ InRun

\* A limited run counts exactly what it was granted: the actions counted and
\* the ones remaining add up to the press that started it and the presses that
\* extended it, and the action under way is counted before it is paid for.
BudgetExact ==
    (InRun /\ remaining # Unlimited) =>
        actions + remaining = granted + (IF step > 0 THEN 1 ELSE 0)

\* A run that has been told to stop makes no further SendInput call.
NoSendOnceStopped == [][pulse' # pulse => ~stop]_vars

\* Every step of an action comes from the configuration its first step came
\* from: a configuration posted between DOWN and UP waits for the boundary.
ConfigWholeActions == [][cfg' # cfg => ~held]_vars

-----------------------------------------------------------------------------
(* Liveness, under FairSpec.                                               *)

\* shutdown() returns: a posted Quit ends the thread from wherever it is.
QuitTerminates == \A p \in Callers : (pc[p] = "join") ~> (pc[p] = "joined")

\* An order to stop that reached the queue is followed by an idle engine.
StopTakesEffect == StopOrdered ~> ~InRun

\* A paused run does not outlast the reason it was paused for.
PauseEnds == (state = "Paused") ~> (state # "Paused" \/ ~gate)

\* A run whose time is up ends unless it is paused, also from under
\* backpressure.  One with a number of actions does so on the condition that
\* backpressure, as often as the run comes to it, lets it send again: runMax()
\* waits there for a counter that only the mouse hook advances (Backpressure.tla
\* says when it does, SeenRunEnds, and when not, CountRunEnds and HookComesBack).
LimitedRunEnds ==
    /\ (state = "Running" /\ expired) ~> state # "Running"
    /\ SF_vars(MaxSend) =>
          ((state = "Running" /\ remaining # Unlimited) ~> state # "Running")

-----------------------------------------------------------------------------
(* What the documents say and the code does not do.                        *)

\* README, Modes: "Hold: click while the trigger is held."  With nothing under
\* way and the engine armed, a Hold trigger is down exactly when a run is on.
Quiescent == /\ queue = <<>> /\ batch = <<>> /\ \A p \in Callers : pc[p] = "ready"
             /\ epc = "idle" \/ (epc \in RunLoc \ {"end", "final"} /\ ~stop)
HoldFollowsKey ==
    (Quiescent /\ armed /\ Cfg[cfg].mode = "Hold")
        => (keyDown <=> state \in {"Running", "Paused"})

\* Modes.h: "Duration : down -> run for T ms".  A run whose time is up while
\* it is paused sends nothing more.
PausedPastDeadlineIsSilent == [][pulse' # pulse => ~expiredInPause]_vars

-----------------------------------------------------------------------------
(* The abstract promise (AbstractEngine) this engine implements.           *)

Abstract == INSTANCE AbstractEngine WITH
    status <- state, budget <- remaining, alive <- epc # "exited"
AbstractSpec == Abstract!Spec
=============================================================================
