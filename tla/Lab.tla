--------------------------------- MODULE Lab ---------------------------------
(* The Input Lab and the gates: the UI thread that opens the test pad and     *)
(* starts runs into it (App.cpp, AdvancedView.cpp), the pad's own window and  *)
(* thread (TestPad.cpp), the engine that gets configurations and commands     *)
(* through its queue (Engine.cpp), and the trigger thread that keeps the gate *)
(* for all other runs up to date with the window in front (TriggerEngine.cpp).*)
(* A handle of a window is a number that is never used again, 0 is nullptr.   *)
EXTENDS Integers, Sequences

CONSTANTS Profiles,    \* [filter, own, valid]: the settings of a profile that matter here
          MaxPads,     \* bound: test pads opened
          MaxOps,      \* bound: what the user does in the window of the program
          MaxPresses,  \* bound: presses of the trigger and stops from outside
          MaxEvents,   \* bound: foreground events not yet delivered
          MaxMail      \* bound: commands and messages left unread when the user acts

ASSUME LabConstants ==
  /\ Profiles \subseteq [filter : BOOLEAN, own : BOOLEAN, valid : BOOLEAN]
  /\ {MaxPads, MaxOps, MaxPresses, MaxEvents, MaxMail} \subseteq Nat

VARIABLES
  ui,        \* the UI thread: idle, or inside startTest(): activate
  profile,   \* the active profile
  lab, base, target,    \* App::labRunActive_, labRunBase_, testTarget_
  pad,       \* TestPad: hwnd_, thread_ is joinable, windows made so far
  dead,      \* std::terminate() was called
  queue,     \* Engine::queue_
  run,       \* the run in progress: none, lab, trigger
  phase,     \* of that run: fresh (no gate asked yet), asked, paused
  cfg,       \* Engine::cfg_: the test pad it is tied to, and whether it compiles
  pendingCfg,
  completed, \* Engine::runsCompleted_
  fg,        \* the window in front: its kind and, of a pad, its handle
  events,    \* EVENT_SYSTEM_FOREGROUND on its way to the trigger thread
  reconfigs, \* WM_APP_RECONFIG in the mail of the trigger thread
  posted,    \* TriggerEngine::pending_
  tcfg,      \* TriggerEngine::cfg_
  gate,      \* gateOpen_ and gateReason_
  sent,      \* what the last send of a run rested on: nothing yet, pad, gate
  excused,   \* what has befallen a lab run: race (another run ended while it was
             \* being started), padless (it was started without a pad)
  dropped,   \* a StartRun was refused or overtaken by a stop
  ops, presses

uivars  == <<ui, profile, lab, base, target>>
engine  == <<queue, run, phase, cfg, pendingCfg, completed>>
trigger == <<events, reconfigs, posted, tcfg, gate>>
ghosts  == <<sent, excused, dropped>>
bounds  == <<ops, presses>>
vars    == <<uivars, pad, dead, engine, fg, trigger, ghosts, bounds>>

Own   == [kind |-> "own", pad |-> 0]
App   == [kind |-> "app", pad |-> 0]     \* a window of the target process
Other == [kind |-> "other", pad |-> 0]
PadWindow(h) == [kind |-> "pad", pad |-> h]
Exists(w) == w.kind = "pad" => w.pad = pad.hwnd
------------------------------------------------------------------------------
(* The gate of the trigger thread                                             *)

(* A window that is gone has no process any more, and no name.                *)
Evaluate(c, w) ==
  IF w.kind = "pad" /\ Exists(w) /\ w.pad = c.testPad THEN "open"
  ELSE IF c.own /\ w.kind \in {"own", "pad"} /\ Exists(w) THEN "OwnWindow"
  ELSE IF c.filter /\ w.kind # "app" THEN "TargetNotForeground"
  ELSE "open"

Wanted == [testPad |-> pad.hwnd, filter |-> profile.filter, own |-> profile.own]

Init ==
  /\ ui = "idle" /\ profile \in Profiles /\ lab = FALSE /\ base = 0 /\ target = 0
  /\ pad = [hwnd |-> 0, thread |-> FALSE, made |-> 0] /\ dead = FALSE
  /\ queue = <<>> /\ run = "none" /\ phase = "fresh" /\ pendingCfg = <<>> /\ completed = 0
  /\ cfg = [target |-> 0, valid |-> profile.valid]
  /\ fg = Own /\ events = <<>> /\ reconfigs = 0
  /\ posted = Wanted /\ tcfg = Wanted /\ gate = Evaluate(Wanted, Own)
  /\ sent = "none" /\ excused = {} /\ dropped = FALSE
  /\ ops = 0 /\ presses = 0

(* winEventProc() judges the window its event names.                          *)
ForegroundEvent ==
  /\ ~dead /\ events # <<>>
  /\ events' = Tail(events)
  /\ gate' = Evaluate(tcfg, Head(events))
  /\ UNCHANGED <<uivars, pad, dead, engine, fg, reconfigs, posted, tcfg, ghosts, bounds>>

\* Mutant: a new configuration waits for the next window to be judged by.
ReconfigQuietly ==
  /\ reconfigs > 0
  /\ reconfigs' = reconfigs - 1
  /\ tcfg' = posted
  /\ UNCHANGED <<uivars, pad, dead, engine, fg, events, posted, gate, ghosts, bounds>>

(* WM_APP_RECONFIG: the configuration left last, judged against the window    *)
(* that is in front now, whatever events are still on their way.              *)
Reconfig ==
  /\ ~dead /\ reconfigs > 0
  /\ reconfigs' = reconfigs - 1
  /\ tcfg' = posted
  /\ gate' = Evaluate(posted, fg)
  /\ UNCHANGED <<uivars, pad, dead, engine, fg, events, posted, ghosts, bounds>>

ToFront(w) == fg' = w /\ events' = IF w = fg THEN events ELSE Append(events, w)

(* The user, another program or Windows brings a window to the front.         *)
Foreground ==
  /\ ~dead /\ Len(events) < MaxEvents
  /\ \E w \in {Own, App, Other, PadWindow(pad.hwnd)} :
       /\ w # fg /\ (w.kind = "pad" => pad.hwnd # 0)
       /\ ToFront(w)
  /\ UNCHANGED <<uivars, pad, dead, engine, reconfigs, posted, tcfg, gate, ghosts, bounds>>
------------------------------------------------------------------------------
(* The test pad                                                               *)

(* TestPad::open(): a pad that is open is kept. Otherwise a thread is started *)
(* in the place of the last one, which std::thread allows only when that has  *)
(* been joined. The window may fail to be made.                               *)
OpenPad ==
  IF pad.hwnd # 0 THEN UNCHANGED <<pad, dead, fg, events>>
  ELSE IF pad.thread THEN dead' = TRUE /\ UNCHANGED <<pad, fg, events>>
  ELSE /\ UNCHANGED dead
       /\ \/ /\ pad.made < MaxPads /\ Len(events) < MaxEvents
             /\ pad' = [hwnd |-> pad.made + 1, thread |-> TRUE, made |-> pad.made + 1]
             /\ \E w \in {fg, PadWindow(pad.made + 1)} : ToFront(w)
          \/ pad' = [pad EXCEPT !.thread = TRUE] /\ UNCHANGED <<fg, events>>

WindowGone(h) ==
  IF fg = PadWindow(h)
  THEN Len(events) < MaxEvents /\ \E w \in {Own, App, Other} : ToFront(w)
  ELSE UNCHANGED <<fg, events>>

(* The user closes the window of the pad: its thread ends by itself.          *)
PadClosedByUser ==
  /\ ~dead /\ pad.hwnd # 0
  /\ pad' = [pad EXCEPT !.hwnd = 0]
  /\ WindowGone(pad.hwnd)
  /\ UNCHANGED <<uivars, dead, engine, reconfigs, posted, tcfg, gate, ghosts, bounds>>
------------------------------------------------------------------------------
(* The UI thread                                                              *)

(* App::applyConfigs() for profile p, a pad of handle h and target t.         *)
ApplyConfigs(p, h, t) ==
  /\ posted' = [testPad |-> h, filter |-> p.filter, own |-> p.own]
  /\ reconfigs' = reconfigs + 1
  /\ queue' = Append(queue, [cmd |-> "SetConfig", cfg |-> [target |-> t, valid |-> p.valid]])

Operate ==
  /\ ~dead /\ ui = "idle" /\ Len(queue) <= MaxMail /\ reconfigs <= MaxMail
  /\ ops < MaxOps /\ ops' = ops + 1 /\ UNCHANGED presses

SelectProfile ==
  /\ Operate
  /\ \E p \in Profiles \ {profile} : profile' = p /\ ApplyConfigs(p, pad.hwnd, target)
  /\ UNCHANGED <<ui, lab, base, target, pad, dead, fg, events, tcfg, gate,
                 run, phase, cfg, pendingCfg, completed, ghosts>>

(* The button of the lab page opens the pad,                                  *)
OpenByButton ==
  /\ Operate /\ pad.hwnd = 0
  /\ OpenPad /\ ApplyConfigs(profile, pad'.hwnd, target)
  /\ UNCHANGED <<uivars, tcfg, gate, run, phase, cfg, pendingCfg, completed, ghosts>>

(* or closes it and joins its thread.                                         *)
CloseByButton ==
  /\ Operate /\ pad.hwnd # 0
  /\ pad' = [pad EXCEPT !.hwnd = 0, !.thread = FALSE]
  /\ WindowGone(pad.hwnd) /\ ApplyConfigs(profile, 0, target)
  /\ UNCHANGED <<uivars, dead, tcfg, gate, run, phase, cfg, pendingCfg, completed, ghosts>>

Queued(c) == \E k \in DOMAIN queue : queue[k].cmd = c
StartQueued == Queued("StartRun")

(* App::startTest() up to the call of activate(). Of the configurations it    *)
(* posts when it has to open the pad, the second one says all.                *)
StartTest ==
  /\ Operate
  /\ OpenPad
  /\ base' = completed /\ lab' = TRUE /\ target' = pad'.hwnd
  /\ ApplyConfigs(profile, pad'.hwnd, pad'.hwnd)
  /\ ui' = "activate"
  /\ excused' = (IF run # "none" \/ StartQueued THEN excused ELSE {})
                  \cup (IF pad'.hwnd = 0 THEN {"padless"} ELSE {})
  /\ UNCHANGED <<profile, tcfg, gate, run, phase, cfg, pendingCfg, completed, sent, dropped>>

(* activate() has slept, whatever is in front now; the run is asked for.      *)
StartRun ==
  /\ ~dead /\ ui = "activate" /\ ui' = "idle"
  /\ queue' = Append(queue, [cmd |-> "StartRun", cfg |-> cfg])
  /\ dropped' = FALSE
  /\ UNCHANGED <<profile, lab, base, target, pad, dead, run, phase, cfg, pendingCfg, completed,
                 fg, trigger, sent, excused, bounds>>

\* Mutant: the runs that had ended before count as the end of this one.
TickEager ==
  /\ ~dead /\ ui = "idle" /\ lab /\ completed >= base
  /\ lab' = FALSE /\ target' = 0
  /\ ApplyConfigs(profile, pad.hwnd, 0)
  /\ UNCHANGED <<ui, profile, base, pad, dead, run, phase, cfg, pendingCfg, completed,
                 fg, events, tcfg, gate, ghosts, bounds>>

(* App::tick(): another run has ended since the lab run was asked for.        *)
Tick ==
  /\ ~dead /\ ui = "idle" /\ lab /\ completed > base
  /\ lab' = FALSE /\ target' = 0
  /\ ApplyConfigs(profile, pad.hwnd, 0)
  /\ UNCHANGED <<ui, profile, base, pad, dead, run, phase, cfg, pendingCfg, completed,
                 fg, events, tcfg, gate, ghosts, bounds>>
------------------------------------------------------------------------------
(* The engine                                                                 *)

(* The trigger is pressed, or a run is stopped: by the trigger, by a button,  *)
(* by disarming, by the emergency stop.                                       *)
Press ==
  /\ ~dead /\ presses < MaxPresses /\ presses' = presses + 1
  /\ \E c \in {"TriggerDown", "StopRun"} : queue' = Append(queue, [cmd |-> c, cfg |-> cfg])
  /\ UNCHANGED <<uivars, pad, dead, run, phase, cfg, pendingCfg, completed, fg, trigger, ghosts, ops>>

(* The last command of a queue that is of one of these kinds, if there is one.*)
LastOf(q, kinds) ==
  LET at == {k \in DOMAIN q : q[k].cmd \in kinds}
  IN  IF at = {} THEN <<>> ELSE <<q[CHOOSE k \in at : \A j \in at : j <= k]>>

LastConfig(q) == LET c == LastOf(q, {"SetConfig"})
                 IN  IF c = <<>> THEN <<>> ELSE <<c[1].cfg>>
InForce(pending) == IF pending = <<>> THEN cfg ELSE pending[1]

(* The idle loop takes its commands in order: the last one that starts or     *)
(* stops decides, and a profile whose action does not compile starts nothing. *)
IdleCommand(q) ==
  LET c == LastOf(q, {"StartRun", "TriggerDown", "StopRun"})
  IN  IF c = <<>> \/ c[1].cmd = "StopRun" THEN "none"
      ELSE IF c[1].cmd = "StartRun" THEN "lab" ELSE "trigger"

Idle ==
  /\ ~dead /\ run = "none" /\ queue # <<>> /\ queue' = <<>>
  /\ cfg' = InForce(LastConfig(queue))
  /\ run' = IF cfg'.valid THEN IdleCommand(queue) ELSE "none"
  /\ phase' = "fresh"
  /\ dropped' = (dropped \/ (StartQueued /\ run' # "lab"))
  /\ UNCHANGED <<uivars, pad, dead, pendingCfg, completed, fg, trigger, sent, excused, bounds>>

Newer(old, new) == IF new = <<>> THEN old ELSE new

(* What a run finds in the queue: a configuration waits for the end of the    *)
(* action, a StartRun is dropped, a press stops it or does not, by the mode.  *)
RunCommands(stop) ==
  /\ queue' = <<>>
  /\ stop => Queued("StopRun") \/ Queued("TriggerDown")
  /\ Queued("StopRun") => stop

\* A run that ends now is taken for the lab run, which is yet to start.
Races == lab /\ (ui = "activate" \/ StartQueued \/ run # "lab")

\* Mutant: a run that ends is not counted.
RunEndedQuietly(pending) ==
  /\ run' = "none" /\ phase' = "fresh" /\ completed' = completed
  /\ cfg' = InForce(pending)
  /\ pendingCfg' = <<>> /\ sent' = "none"
  /\ excused' = excused \cup (IF Races THEN {"race"} ELSE {})

RunEnded(pending) ==
  /\ run' = "none" /\ phase' = "fresh" /\ completed' = completed + 1
  /\ cfg' = InForce(pending)
  /\ pendingCfg' = <<>> /\ sent' = "none"
  /\ excused' = excused \cup (IF Races THEN {"race"} ELSE {})

(* The gate of a run: the test pad in front with the cursor over it, or the   *)
(* flag of the trigger thread.                                                *)
Passes(c, yes) ==
  IF c.target # 0 THEN yes => fg = PadWindow(c.target) ELSE yes <=> gate = "open"

Basis(c) == IF run # "lab" THEN "trigger" ELSE IF c.target # 0 THEN "pad" ELSE "gate"

(* One pass of the loop of runTimed() or runMax(): a configuration is taken   *)
(* over, the gate is asked, unless it was in the last millisecond, and the    *)
(* inputs of an action are sent, or the run pauses.                           *)
RunAction ==
  LET pending == Newer(pendingCfg, LastConfig(queue))
      now     == InForce(pending)
  IN  /\ ~dead /\ run # "none" /\ phase # "paused" /\ RunCommands(FALSE)
      /\ now.valid
      /\ cfg' = now /\ pendingCfg' = <<>>
      /\ \E asked, yes \in BOOLEAN :
           /\ IF asked THEN Passes(now, yes) ELSE phase = "asked" /\ yes
           /\ phase' = IF yes THEN "asked" ELSE "paused"
           /\ sent' = IF yes THEN Basis(now) ELSE sent
      /\ UNCHANGED <<uivars, pad, dead, run, completed, fg, trigger, excused, dropped, bounds>>

(* In the middle of an action, or while it is paused, a run only takes notice.*)
RunNotices ==
  /\ ~dead /\ run # "none" /\ queue # <<>> /\ RunCommands(FALSE)
  /\ pendingCfg' = Newer(pendingCfg, LastConfig(queue))
  /\ UNCHANGED <<uivars, pad, dead, run, phase, cfg, completed, fg, trigger, ghosts, bounds>>

(* A pause asks the gate of the configuration it began with.                  *)
RunResumes ==
  /\ ~dead /\ run # "none" /\ phase = "paused"
  /\ Passes(cfg, TRUE)
  /\ phase' = "asked"
  /\ UNCHANGED <<uivars, pad, dead, queue, run, cfg, pendingCfg, completed, fg, trigger, ghosts, bounds>>

RunStopped ==
  /\ ~dead /\ run # "none" /\ RunCommands(TRUE)
  /\ RunEnded(Newer(pendingCfg, LastConfig(queue)))
  /\ UNCHANGED <<uivars, pad, dead, fg, trigger, dropped, bounds>>

(* The limit of the run is reached, or its action does not compile any more:  *)
(* what is in the queue by then is left to the idle loop.                     *)
RunOver ==
  /\ ~dead /\ run # "none" /\ RunEnded(pendingCfg)
  /\ UNCHANGED <<uivars, pad, dead, queue, fg, trigger, dropped, bounds>>
------------------------------------------------------------------------------
Next ==
  \/ ForegroundEvent \/ Reconfig \/ Foreground \/ PadClosedByUser
  \/ SelectProfile \/ OpenByButton \/ CloseByButton \/ StartTest \/ StartRun \/ Tick
  \/ Press \/ Idle \/ RunAction \/ RunNotices \/ RunResumes \/ RunStopped \/ RunOver

Spec == Init /\ [][Next]_vars
------------------------------------------------------------------------------
(* The gate follows the window in front: once the trigger thread has no event *)
(* and no message left, it stands as the settings the user sees and the       *)
(* window in front demand, in whatever order windows, pads and settings       *)
(* changed (TriggerEngine.cpp evaluateGate(); "Output pauses on its own while *)
(* the app's window is in front").                                            *)
GateSettles ==
  ~dead /\ events = <<>> /\ reconfigs = 0 => gate = Evaluate(Wanted, fg)

(* A lab run sends nothing but into the test pad (App.cpp startTest(), the    *)
(* lab page: "Output only flows while the Test Pad is in front AND the cursor *)
(* is over it."); one that was started when no pad could be made is left out. *)
(* The code breaks this when another run ends while the lab run is being      *)
(* started: tick() takes that end for the end of the lab run.                 *)
LabGated == sent = "gate" => "padless" \in excused

(* Short of that race and of a start without a pad, a lab run is tied to the  *)
(* pad from its first send to its last, however the pad is closed and         *)
(* profiles are switched meanwhile.                                           *)
LabGatedAlone == sent = "gate" => excused # {}

(* The program does not show a lab run that nothing will ever end: it is      *)
(* being started, or in the queue, or a run is going on, or one has ended, or *)
(* the StartRun came to nothing (App::tick() waits for runsCompleted()).      *)
LabExplained ==
  lab => ui = "activate" \/ StartQueued \/ run # "none" \/ completed > base \/ dropped

(* The test pad can be opened again after it was closed (README.md "Input     *)
(* Lab: opens a small test window"). The code ends the program when the user  *)
(* closed the pad by its own window: its thread was never joined.             *)
PadReopens == ~dead
==============================================================================
