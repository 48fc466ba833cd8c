---------------------------- MODULE TriggerKeys -----------------------------
(***************************************************************************)
(* What the trigger thread (trigger/TriggerEngine.cpp) makes of physical   *)
(* keys and buttons: binding capture, the emergency stop, the trigger, and *)
(* which half of a stroke the applications get to see.                     *)
(*                                                                         *)
(* A low-level hook is called for every event before an application sees   *)
(* it and may swallow it.  The keyboard hook is always there; the mouse    *)
(* hook comes and goes (updateHooks), raw input takes its place for a      *)
(* mouse trigger that need not be swallowed, and sometimes neither is      *)
(* there.  The last key pressed repeats while it is down.                  *)
(*                                                                         *)
(* Left and right modifiers are one key.  Left out: events the program or  *)
(* others inject (passed on at once), the hot key that doubles an          *)
(* emergency chord with modifiers, hooks that Windows removes.             *)
(***************************************************************************)
EXTENDS FiniteSets

CONSTANTS
    Keys, Mods,         \* the keyboard; its modifiers
    Buttons, Wheels,    \* the mouse; a notch of a wheel has no release
    Left,               \* MouseButton::Left
    NoInput,            \* an unbound chord, no key
    Configs, Cfg,       \* names of the configurations in play; what they say
    NoCfg               \* nothing pending

Inputs == Keys \cup Buttons \cup Wheels
Mouse  == Buttons \cup Wheels

TriggerConfig ==
    [trigger : Inputs \cup {NoInput}, mods : SUBSET Mods, suppress : BOOLEAN,
     emergency : Inputs \cup {NoInput}, emergencyMods : SUBSET Mods,
     rawInput : BOOLEAN, observe : BOOLEAN]

ASSUME TriggerAssumption ==
    /\ Mods \subseteq Keys
    /\ Keys \cap Mouse = {} /\ Buttons \cap Wheels = {}
    /\ NoInput \notin Inputs
    /\ Cfg \in [Configs -> TriggerConfig] /\ NoCfg \notin Configs

VARIABLES
    \* the user's hands, the key that repeats, and what applications believe
    real, typing, seen,
    \* the trigger thread: cfg_, swallowUp_ and swallowMouseUp_, trigDown_,
    \* trigSuppressed_, captureModVk_, mouseHook_, rawOn_
    cfg, swallowUp, trigDown, trigSuppressed, capMod, hook, raw,
    \* captureState_, and the messages to the trigger thread
    capture, pending, hooksDue,
    \* the sink: isArmed(), and whether the last report was a press
    armed, told,
    \* history: why the last report may be out of date; inputs with a slip
    astray, odd

hands      == <<real, typing>>
config     == <<cfg, pending, hook, raw>>
capturing  == <<capture, capMod, hooksDue>>
triggering == <<trigDown, trigSuppressed, told, astray>>
vars == <<hands, seen, config, swallowUp, triggering, capturing, armed, odd>>

TypeOK ==
    /\ real \subseteq Keys \cup Buttons /\ seen \subseteq Keys \cup Buttons
    /\ typing \in (Keys \cap real) \cup {NoInput}
    /\ cfg \in Configs /\ pending \in Configs \cup {NoCfg}
    /\ swallowUp \subseteq Keys \cup Buttons /\ odd \subseteq Keys \cup Buttons
    /\ capMod \in Mods \cup {NoInput}
    /\ hook \in BOOLEAN /\ raw \in BOOLEAN /\ capture \in BOOLEAN /\ hooksDue \in BOOLEAN
    /\ trigDown \in BOOLEAN /\ trigSuppressed \in BOOLEAN
    /\ armed \in BOOLEAN /\ told \in BOOLEAN
    /\ astray \in {"no", "rebound", "missed"}
    /\ trigDown => Cfg[cfg].trigger \in Keys \cup Buttons

-----------------------------------------------------------------------------
(* updateHooks(): exactly one mouse source feeds the trigger logic.        *)

NeedMouse(c) == Cfg[c].trigger \in Mouse \/ Cfg[c].emergency \in Mouse
NeedHook(c) ==
    \/ capture \/ Cfg[c].observe
    \/ NeedMouse(c) /\ (~Cfg[c].rawInput \/ Cfg[c].suppress)

UpdateHooks(c) ==
    /\ hook' = NeedHook(c)
    /\ raw' = (~NeedHook(c) /\ NeedMouse(c))

Init ==
    /\ real = {} /\ typing = NoInput /\ seen = {}
    /\ cfg \in Configs /\ pending = NoCfg
    /\ capture = FALSE /\ capMod = NoInput /\ hooksDue = FALSE
    /\ hook = NeedHook(cfg) /\ raw = (~NeedHook(cfg) /\ NeedMouse(cfg))
    /\ swallowUp = {} /\ trigDown = FALSE /\ trigSuppressed = FALSE
    /\ armed \in BOOLEAN /\ told = FALSE
    /\ astray = "no" /\ odd = {}

-----------------------------------------------------------------------------
(* Messages and calls from the UI thread.                                  *)

BeginCapture ==
    /\ ~capture /\ capture' = TRUE
    /\ hooksDue' = TRUE
    /\ UNCHANGED <<hands, seen, config, swallowUp, triggering, capMod, armed, odd>>

\* Mutant: the trigger thread is not told to look at its hooks again.
CancelCaptureQuietly ==
    /\ capture /\ capture' = FALSE
    /\ UNCHANGED <<hands, seen, config, swallowUp, triggering, capMod, hooksDue, armed, odd>>

CancelCapture ==
    /\ capture /\ capture' = FALSE
    /\ hooksDue' = TRUE
    /\ UNCHANGED <<hands, seen, config, swallowUp, triggering, capMod, armed, odd>>

SetConfig(c) ==
    /\ pending' = c
    /\ UNCHANGED <<hands, seen, cfg, hook, raw, swallowUp, triggering, capturing, armed, odd>>

Arm ==
    /\ armed' = ~armed
    /\ UNCHANGED <<hands, seen, config, swallowUp, triggering, capturing, odd>>

\* WM_APP_HOOKS.
Hooks ==
    /\ hooksDue /\ hooksDue' = FALSE
    /\ UpdateHooks(cfg)
    /\ UNCHANGED <<hands, seen, cfg, pending, swallowUp, triggering, capture, capMod, armed, odd>>

\* Mutant: the new trigger inherits the state of the old one.
SameTriggerKept(c) == TRUE

\* WM_APP_RECONFIG: another trigger starts from scratch.
SameTrigger(c) == Cfg[c].trigger = Cfg[cfg].trigger /\ Cfg[c].mods = Cfg[cfg].mods

Reconfig ==
    /\ pending # NoCfg
    /\ cfg' = pending /\ pending' = NoCfg
    /\ UpdateHooks(pending)
    /\ IF SameTrigger(pending) THEN UNCHANGED <<trigDown, trigSuppressed, astray>>
       ELSE /\ trigDown' = FALSE /\ trigSuppressed' = FALSE
            /\ astray' = IF trigDown THEN "rebound" ELSE astray
    /\ odd' = odd \cup ({Cfg[pending].trigger} \cap real)
    /\ UNCHANGED <<hands, seen, swallowUp, told, capturing, armed>>

-----------------------------------------------------------------------------
(* The branches of handleKey() and handleMouse(), for an event of input i. *)
(* `eats` says that the source can swallow: a hook can, raw input cannot.  *)

\* physKey_ is stored before anything else: a chord sees the event's own key.
Chord(mods) == mods \subseteq real'

Pass(i, down) == seen' = IF down THEN seen \cup ({i} \ Wheels) ELSE seen \ {i}
Swallow(i, down, eats) == IF eats THEN UNCHANGED seen ELSE Pass(i, down)

\* Slips, the ways in which an input may get stuck, are noted where they happen.
Slip(i, happens) == odd' = IF happens THEN odd \cup {i} ELSE odd

\* onCaptured(): the capture is over, the hooks are to be looked at.
Captured == capture' = FALSE /\ hooksDue' = TRUE

\* Slip: a key that was down before the capture repeats during it.
CaptureModifier(k) ==
    /\ capMod' = IF k \in real THEN capMod ELSE k
    /\ swallowUp' = swallowUp \cup {k} /\ Slip(k, k \in seen)
    /\ UNCHANGED <<seen, capture, hooksDue, triggering, armed>>

CaptureKey(k) ==
    /\ Captured /\ capMod' = NoInput
    /\ swallowUp' = swallowUp \cup {k} /\ Slip(k, k \in seen)
    /\ UNCHANGED <<seen, triggering, armed>>

\* Slip: a captured or emergency button that only raw input has seen.
CaptureMouse(b, eats) ==
    /\ Captured
    /\ swallowUp' = swallowUp \cup ({b} \ Wheels)
    /\ Swallow(b, TRUE, eats) /\ Slip(b, ~eats /\ b \notin Wheels)
    /\ UNCHANGED <<capMod, triggering, armed>>

IsEmergency(i) == i = Cfg[cfg].emergency /\ Chord(Cfg[cfg].emergencyMods)

Emergency(i, eats) ==
    /\ armed' = FALSE
    /\ swallowUp' = swallowUp \cup ({i} \ Wheels)
    /\ Swallow(i, TRUE, eats) /\ Slip(i, ~eats /\ i \notin Wheels)
    /\ UNCHANGED <<capturing, triggering>>

IsTrigger(i) == i = Cfg[cfg].trigger
Suppress == Cfg[cfg].suppress /\ armed

Report(press) == told' = press /\ astray' = "no"

\* A press that the trigger's modifiers go with.  A key that was down before it
\* became the trigger reports a press when it repeats.
TriggerPress(i, eats) ==
    /\ ~trigDown /\ Chord(Cfg[cfg].mods)
    /\ trigDown' = TRUE /\ trigSuppressed' = Suppress
    /\ Report(TRUE)
    /\ Swallow(i, TRUE, eats /\ Suppress)

WheelTrigger ==
    /\ Chord(Cfg[cfg].mods)
    /\ Report(FALSE)
    /\ UNCHANGED <<seen, trigDown, trigSuppressed>>

\* A repetition, or a press without the modifiers, is swallowed or passes.
TriggerNoPress(i, swallows) ==
    /\ trigDown \/ ~Chord(Cfg[cfg].mods)
    /\ Swallow(i, TRUE, swallows)
    /\ UNCHANGED triggering

\* Nothing in the event concerns the program.
Ignore(i) == Pass(i, TRUE) /\ UNCHANGED triggering

\* Mutant: a release whose press was swallowed is never looked at further.
LiftReportedPassing(i) == trigDown /\ IsTrigger(i) /\ i \notin swallowUp

LiftReported(i) == trigDown /\ IsTrigger(i)

\* Mutant: whether the trigger is swallowed is asked again when it is released.
LiftSwallowedNow(i) == i \in swallowUp \/ (LiftReported(i) /\ Suppress)

LiftSwallowed(i) == i \in swallowUp \/ (LiftReported(i) /\ trigSuppressed)

\* A release: swallowed if the press was, reported if it is the trigger's.
Lift(i, eats) ==
    /\ swallowUp' = swallowUp \ {i}
    /\ Swallow(i, FALSE, eats /\ LiftSwallowed(i))
    /\ IF LiftReported(i) THEN /\ trigDown' = FALSE /\ trigSuppressed' = FALSE
                               /\ Report(FALSE)
                          ELSE UNCHANGED triggering
    /\ UNCHANGED <<capturing, armed, odd>>

\* A release nobody reports, during a capture or past a missing hook.
\* Slip: the trigger's, or that of a button whose press was swallowed.
Missed(i) == /\ astray' = IF LiftReported(i) THEN "missed" ELSE astray
             /\ UNCHANGED <<trigDown, trigSuppressed, told>>

CaptureKeyUp(k) ==
    /\ IF capMod = k THEN Captured /\ capMod' = NoInput ELSE UNCHANGED capturing
    /\ swallowUp' = swallowUp \ {k}
    /\ Swallow(k, FALSE, k \in swallowUp)
    /\ Missed(k) /\ Slip(k, LiftReported(k))
    /\ UNCHANGED armed

UnseenUp(b) ==
    /\ Pass(b, FALSE)
    /\ Missed(b) /\ Slip(b, LiftReported(b) \/ b \in swallowUp)
    /\ UNCHANGED <<capturing, swallowUp, armed>>

UnseenDown(b) ==
    /\ Pass(b, TRUE)
    /\ UNCHANGED <<capturing, swallowUp, triggering, armed, odd>>

-----------------------------------------------------------------------------
(* The events.                                                             *)

Fresh(k) == k \notin real

\* Slip: a key repeats after its press was swallowed.
KeyDown(k) ==
    /\ Fresh(k) \/ typing = k
    /\ real' = real \cup {k} /\ typing' = k
    /\ IF capture THEN IF k \in Mods THEN CaptureModifier(k) ELSE CaptureKey(k)
       ELSE IF Fresh(k) /\ IsEmergency(k) THEN Emergency(k, TRUE)
       ELSE /\ IF ~IsTrigger(k) THEN Ignore(k)
               ELSE TriggerPress(k, TRUE) \/ TriggerNoPress(k, trigDown /\ trigSuppressed)
            /\ Slip(k, ~Fresh(k) /\ k \notin seen /\ k \in seen')
            /\ UNCHANGED <<swallowUp, capturing, armed>>
    /\ UNCHANGED config

KeyUp(k) ==
    /\ k \in real /\ real' = real \ {k}
    /\ typing' = IF typing = k THEN NoInput ELSE typing
    /\ IF capture THEN CaptureKeyUp(k) ELSE Lift(k, TRUE)
    /\ UNCHANGED config

\* The pointer is over the program's own window or elsewhere.
MouseDown(b) ==
    /\ b \notin real /\ real' = real \cup ({b} \ Wheels) /\ UNCHANGED typing
    /\ IF ~hook /\ ~raw THEN UnseenDown(b)
       ELSE IF capture THEN CaptureMouse(b, hook) \/ (b = Left /\ UnseenDown(b))
       ELSE IF IsEmergency(b) THEN Emergency(b, hook)
       ELSE /\ IF ~IsTrigger(b) THEN Ignore(b)
               ELSE \/ b \in Buttons /\ TriggerPress(b, hook)
                    \/ b \in Wheels /\ WheelTrigger
                    \/ TriggerNoPress(b, FALSE)
            /\ UNCHANGED <<swallowUp, capturing, armed, odd>>
    /\ UNCHANGED config

MouseUp(b) ==
    /\ b \in real /\ real' = real \ {b} /\ UNCHANGED typing
    /\ IF capture \/ (~hook /\ ~raw) THEN UnseenUp(b) ELSE Lift(b, hook)
    /\ UNCHANGED config

-----------------------------------------------------------------------------
Next ==
    \/ BeginCapture \/ CancelCapture \/ Arm
    \/ \E c \in Configs : SetConfig(c)
    \/ Hooks \/ Reconfig
    \/ \E k \in Keys : KeyDown(k) \/ KeyUp(k)
    \/ \E b \in Mouse : MouseDown(b) \/ MouseUp(b)

Spec == Init /\ [][Next]_vars

-----------------------------------------------------------------------------
\* The scheduler is told of every press and every release of the trigger, and
\* of nothing else: unless the binding was changed while the trigger was down
\* or it was released unseen, the last report is a press exactly if the engine
\* takes the trigger as down, and then it is down.
ReportsFollowKey ==
    astray = "no" => /\ told <=> trigDown
                     /\ trigDown => Cfg[cfg].trigger \in real

\* An application is left with a key or button that is up only after a slip: a
\* key that repeats after its press was swallowed or that was down before the
\* capture it repeats in, a release during a capture or past a missing hook, a
\* press that raw input could not swallow, a trigger bound while it was down.
StuckOnlyBySlip == seen \subseteq real \cup odd

\* "exactly one mouse source feeds the trigger logic": never two; and once the
\* messages are through, one if a button or a wheel matters, and no mouse hook
\* in the way of all input unless it is needed.
OneMouseSource ==
    /\ ~(hook /\ raw)
    /\ ~hooksDue /\ pending = NoCfg =>
         /\ capture \/ NeedMouse(cfg) => hook \/ raw
         /\ hook => NeedHook(cfg)

\* README: "Hold: click while the trigger is held."  The press the scheduler was
\* told of last is still on.
ToldIsHeld == told => Cfg[cfg].trigger \in real
=============================================================================
