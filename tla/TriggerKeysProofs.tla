------------------------- MODULE TriggerKeysProofs --------------------------
(***************************************************************************)
(* Proofs about TriggerKeys.tla: what the scheduler is told agrees with    *)
(* the trigger, and the right hooks are installed, for every set of keys   *)
(* and buttons and every configuration.                                    *)
(***************************************************************************)
EXTENDS TriggerKeys, TLAPS

-----------------------------------------------------------------------------
\* What the handlers leave alone or set, in the words of the type invariant.

HandsTyped ==
    /\ real \subseteq Keys \cup Buttons /\ seen \subseteq Keys \cup Buttons
    /\ typing \in (Keys \cap real) \cup {NoInput}
    /\ swallowUp \subseteq Keys \cup Buttons /\ odd \subseteq Keys \cup Buttons
    /\ capMod \in Mods \cup {NoInput}

HooksTyped ==
    /\ cfg \in Configs /\ pending \in Configs \cup {NoCfg}
    /\ hook \in BOOLEAN /\ raw \in BOOLEAN /\ capture \in BOOLEAN /\ hooksDue \in BOOLEAN
    /\ armed \in BOOLEAN

TriggerTyped ==
    /\ trigDown \in BOOLEAN /\ trigSuppressed \in BOOLEAN /\ told \in BOOLEAN
    /\ astray \in {"no", "rebound", "missed"}
    /\ trigDown => Cfg[cfg].trigger \in Keys \cup Buttons

LEMMA TypeOKParts == TypeOK <=> HandsTyped /\ HooksTyped /\ TriggerTyped
BY DEF TypeOK, HandsTyped, HooksTyped, TriggerTyped

\* A release is the release of something that has one.
LEMMA ReleaseOfButton ==
    ASSUME HandsTyped, NEW b \in Mouse, b \in real
    PROVE  b \in Buttons
BY TriggerAssumption DEF HandsTyped, Mouse, Inputs

-----------------------------------------------------------------------------
LEMMA HandsInit == Init => HandsTyped
BY DEF Init, HandsTyped

LEMMA HandsStep == HandsTyped /\ [Next]_vars => HandsTyped'
<1> SUFFICES ASSUME HandsTyped, [Next]_vars PROVE HandsTyped'
  OBVIOUS
<1> USE TriggerAssumption
<1>1. CASE BeginCapture \/ CancelCapture \/ Arm \/ Hooks
  BY <1>1 DEF BeginCapture, CancelCapture, Arm, Hooks, HandsTyped, hands, capturing
<1>2. ASSUME NEW c \in Configs, SetConfig(c) PROVE HandsTyped'
  BY <1>2 DEF SetConfig, HandsTyped, hands, capturing
<1>3. CASE Reconfig
  BY <1>3 DEF Reconfig, HandsTyped, hands, capturing
<1>4. ASSUME NEW k \in Keys, KeyDown(k) PROVE HandsTyped'
  <2>1. /\ real' \subseteq Keys \cup Buttons
        /\ typing' \in (Keys \cap real') \cup {NoInput}
    BY <1>4 DEF KeyDown, HandsTyped
  <2>2. CASE capture /\ k \in Mods
    BY <1>4, <2>1, <2>2 DEF KeyDown, CaptureModifier, Slip, HandsTyped
  <2>3. CASE capture /\ k \notin Mods
    BY <1>4, <2>1, <2>3 DEF KeyDown, CaptureKey, Slip, HandsTyped
  <2>4. CASE ~capture /\ Fresh(k) /\ IsEmergency(k)
    BY <1>4, <2>1, <2>4 DEF KeyDown, Emergency, Swallow, Pass, Slip, HandsTyped, capturing
  <2>5. CASE ~capture /\ ~(Fresh(k) /\ IsEmergency(k))
    <3>1. seen' \subseteq Keys \cup Buttons
      BY <1>4, <2>5 DEF KeyDown, TriggerPress, TriggerNoPress, Ignore, Swallow, Pass, HandsTyped
    <3>2. /\ odd' \subseteq Keys \cup Buttons
          /\ UNCHANGED <<swallowUp, capMod>>
      BY <1>4, <2>5 DEF KeyDown, Slip, HandsTyped, capturing
    <3> QED BY <2>1, <3>1, <3>2 DEF HandsTyped
  <2> QED BY <2>2, <2>3, <2>4, <2>5
<1>5. ASSUME NEW k \in Keys, KeyUp(k) PROVE HandsTyped'
  <2>1. /\ real' \subseteq Keys \cup Buttons
        /\ typing' \in (Keys \cap real') \cup {NoInput}
    BY <1>5 DEF KeyUp, HandsTyped
  <2>2. CASE capture
    BY <1>5, <2>1, <2>2 DEF KeyUp, CaptureKeyUp, Swallow, Pass, Slip, HandsTyped, capturing
  <2>3. CASE ~capture
    BY <1>5, <2>1, <2>3 DEF KeyUp, Lift, Swallow, Pass, HandsTyped, capturing
  <2> QED BY <2>2, <2>3
<1>6. ASSUME NEW b \in Mouse, MouseDown(b) PROVE HandsTyped'
  <2>1. /\ real' \subseteq Keys \cup Buttons
        /\ typing' \in (Keys \cap real') \cup {NoInput}
    BY <1>6 DEF MouseDown, HandsTyped, Mouse
  <2>2. ({b} \ Wheels) \subseteq Buttons
    BY <1>6 DEF Mouse
  <2>3. CASE UnseenDown(b)
    BY <2>1, <2>2, <2>3 DEF UnseenDown, Pass, HandsTyped, capturing
  <2>4. CASE CaptureMouse(b, hook)
    BY <2>1, <2>2, <2>4 DEF CaptureMouse, Swallow, Pass, Slip, HandsTyped
  <2>5. CASE Emergency(b, hook)
    BY <2>1, <2>2, <2>5 DEF Emergency, Swallow, Pass, Slip, HandsTyped, capturing
  <2>6. CASE /\ \/ Ignore(b) \/ TriggerPress(b, hook) \/ WheelTrigger
                \/ TriggerNoPress(b, FALSE)
             /\ UNCHANGED <<swallowUp, capturing, armed, odd>>
    BY <2>1, <2>2, <2>6 DEF Ignore, TriggerPress, WheelTrigger, TriggerNoPress, Swallow, Pass,
         HandsTyped, capturing
  <2> QED BY <1>6, <2>3, <2>4, <2>5, <2>6 DEF MouseDown
<1>7. ASSUME NEW b \in Mouse, MouseUp(b) PROVE HandsTyped'
  <2>1. /\ real' \subseteq Keys \cup Buttons
        /\ typing' \in (Keys \cap real') \cup {NoInput}
        /\ b \in Buttons
    <3>1. b \in Buttons
      BY <1>7, ReleaseOfButton DEF MouseUp
    <3> QED BY <1>7, <3>1 DEF MouseUp, HandsTyped, Mouse, Inputs
  <2>2. CASE UnseenUp(b)
    BY <2>1, <2>2 DEF UnseenUp, Pass, Slip, HandsTyped, capturing
  <2>3. CASE Lift(b, hook)
    BY <2>1, <2>3 DEF Lift, Swallow, Pass, HandsTyped, capturing
  <2> QED BY <1>7, <2>2, <2>3 DEF MouseUp
<1>8. CASE UNCHANGED vars
  BY <1>8 DEF vars, hands, capturing, HandsTyped
<1> QED BY <1>1, <1>2, <1>3, <1>4, <1>5, <1>6, <1>7, <1>8 DEF Next

-----------------------------------------------------------------------------
\* The hooks follow what is wanted of them, as soon as the message is through.
HooksRight ==
    ~hooksDue => hook = NeedHook(cfg) /\ raw = (~NeedHook(cfg) /\ NeedMouse(cfg))

NeverTwo == ~(hook /\ raw)

HooksInv == HooksTyped /\ NeverTwo /\ HooksRight

LEMMA HooksInit == Init => HooksInv
<1> SUFFICES ASSUME Init PROVE HooksInv
  OBVIOUS
<1>1. NeedHook(cfg) \in BOOLEAN /\ (~NeedHook(cfg) /\ NeedMouse(cfg)) \in BOOLEAN
  BY Zenon DEF NeedHook, NeedMouse
<1>2. HooksTyped
  BY <1>1, Zenon DEF Init, HooksTyped
<1>3. NeverTwo /\ HooksRight
  BY Zenon DEF Init, NeverTwo, HooksRight
<1> QED BY <1>2, <1>3 DEF HooksInv

LEMMA UpdateHooksRight ==
    ASSUME NEW c \in Configs, UpdateHooks(c), cfg' = c, UNCHANGED capture
    PROVE  hook' \in BOOLEAN /\ raw' \in BOOLEAN /\ NeverTwo' /\ HooksRight'
<1>1. NeedHook(c) \in BOOLEAN /\ (~NeedHook(c) /\ NeedMouse(c)) \in BOOLEAN
  BY Zenon DEF NeedHook, NeedMouse
<1>2. NeedHook(c) <=> NeedHook(cfg)'
  BY DEF NeedHook, NeedMouse
<1>3. NeedMouse(c) <=> NeedMouse(cfg)'
  BY DEF NeedMouse
<1>4. NeedHook(cfg)' \in BOOLEAN /\ (~NeedHook(cfg)' /\ NeedMouse(cfg)') \in BOOLEAN
  BY Zenon DEF NeedHook, NeedMouse
<1> QED BY <1>1, <1>2, <1>3, <1>4, Zenon DEF UpdateHooks, NeverTwo, HooksRight

\* What an event may do to the hooks and the capture: end the capture and ask for
\* the hooks to be looked at, or leave both alone.
EndsCaptureOrNot ==
    /\ UNCHANGED config /\ (armed' = FALSE \/ UNCHANGED armed)
    /\ Captured \/ UNCHANGED <<capture, hooksDue>>

LEMMA EventsLeaveHooks ==
    ASSUME \/ \E k \in Keys : KeyDown(k) \/ KeyUp(k)
           \/ \E b \in Mouse : MouseDown(b) \/ MouseUp(b)
    PROVE  EndsCaptureOrNot
<1>1. ASSUME NEW k \in Keys, KeyDown(k) PROVE EndsCaptureOrNot
  BY <1>1, Zenon DEF KeyDown, CaptureModifier, CaptureKey, Emergency, EndsCaptureOrNot, capturing
<1>2. ASSUME NEW k \in Keys, KeyUp(k) PROVE EndsCaptureOrNot
  BY <1>2, Zenon DEF KeyUp, CaptureKeyUp, Lift, EndsCaptureOrNot, capturing
<1>3. ASSUME NEW b \in Mouse, MouseDown(b) PROVE EndsCaptureOrNot
  BY <1>3, Zenon DEF MouseDown, UnseenDown, CaptureMouse, Emergency, EndsCaptureOrNot, capturing
<1>4. ASSUME NEW b \in Mouse, MouseUp(b) PROVE EndsCaptureOrNot
  BY <1>4, Zenon DEF MouseUp, UnseenUp, Lift, EndsCaptureOrNot, capturing
<1> QED BY <1>1, <1>2, <1>3, <1>4

LEMMA HooksStep == HooksInv /\ [Next]_vars => HooksInv'
<1> SUFFICES ASSUME HooksInv, [Next]_vars PROVE HooksInv'
  OBVIOUS
<1> USE DEF HooksInv
<1>1. CASE BeginCapture \/ CancelCapture
  <2>1. hooksDue' = TRUE /\ capture' \in BOOLEAN /\ UNCHANGED <<config, armed>>
    BY <1>1, Zenon DEF BeginCapture, CancelCapture
  <2> QED BY <2>1, Zenon DEF HooksTyped, NeverTwo, HooksRight, config
<1>2. ASSUME UNCHANGED <<cfg, hook, raw, capture, hooksDue>>, HooksTyped' PROVE HooksInv'
  BY <1>2, Zenon DEF NeverTwo, HooksRight, NeedHook, NeedMouse
<1>3. CASE Arm
  BY <1>2, <1>3, Zenon DEF Arm, HooksTyped, config, capturing
<1>4. ASSUME NEW c \in Configs, SetConfig(c) PROVE HooksInv'
  <2>1. c \in Configs \cup {NoCfg}
    OBVIOUS
  <2> QED BY <1>2, <1>4, <2>1, Zenon DEF SetConfig, HooksTyped, capturing
<1>5. CASE Hooks
  <2>1. /\ hook' \in BOOLEAN /\ raw' \in BOOLEAN /\ NeverTwo' /\ HooksRight'
    BY <1>5, UpdateHooksRight DEF Hooks, HooksTyped
  <2> QED BY <1>5, <2>1, Zenon DEF Hooks, HooksTyped
<1>6. CASE Reconfig
  <2>1. pending \in Configs /\ NoCfg \in Configs \cup {NoCfg}
    BY <1>6 DEF Reconfig, HooksTyped
  <2>2. /\ hook' \in BOOLEAN /\ raw' \in BOOLEAN /\ NeverTwo' /\ HooksRight'
    BY <1>6, <2>1, UpdateHooksRight DEF Reconfig, capturing
  <2> QED BY <1>6, <2>1, <2>2, Zenon DEF Reconfig, HooksTyped, capturing
<1>7. CASE EndsCaptureOrNot
  <2>1. HooksTyped'
    BY <1>7, Zenon DEF EndsCaptureOrNot, Captured, HooksTyped, config
  <2>2. CASE Captured
    BY <1>7, <2>1, <2>2, Zenon DEF EndsCaptureOrNot, Captured, NeverTwo, HooksRight, config
  <2>3. CASE UNCHANGED <<capture, hooksDue>>
    BY <1>2, <1>7, <2>1, <2>3, Zenon DEF EndsCaptureOrNot, config
  <2> QED BY <1>7, <2>2, <2>3 DEF EndsCaptureOrNot
<1>8. CASE UNCHANGED vars
  BY <1>2, <1>8, Zenon DEF vars, config, capturing, HooksTyped
<1> QED BY <1>1, <1>3, <1>4, <1>5, <1>6, <1>7, <1>8, EventsLeaveHooks DEF Next

-----------------------------------------------------------------------------
\* What was reported is what the trigger does.
TriggerInv == TriggerTyped /\ ReportsFollowKey

LEMMA TriggerInit == Init => TriggerInv
BY DEF Init, TriggerInv, TriggerTyped, ReportsFollowKey

\* An event that is not the trigger's lift changes nothing for the trigger.
LEMMA TriggerUnmoved ==
    ASSUME TriggerInv, UNCHANGED <<triggering, cfg>>,
           trigDown => (Cfg[cfg].trigger \in real => Cfg[cfg].trigger \in real')
    PROVE  TriggerInv'
BY DEF TriggerInv, TriggerTyped, ReportsFollowKey, triggering

LEMMA TriggerPressed ==
    ASSUME TriggerInv, UNCHANGED cfg, NEW i \in Keys \cup Buttons, NEW eats,
           IsTrigger(i), TriggerPress(i, eats), i \in real'
    PROVE  TriggerInv'
<1>1. /\ trigDown' = TRUE /\ told' = TRUE /\ astray' = "no"
      /\ Cfg[cfg'].trigger = i /\ cfg' = cfg
  BY DEF TriggerPress, Report, IsTrigger
<1>2. trigSuppressed' \in BOOLEAN
  <2>1. Suppress \in BOOLEAN
    BY Zenon DEF Suppress
  <2> QED BY <2>1, Zenon DEF TriggerPress
<1>3. TriggerTyped'
  BY <1>1, <1>2, Zenon DEF TriggerTyped
<1>4. ReportsFollowKey'
  BY <1>1 DEF ReportsFollowKey
<1> QED BY <1>3, <1>4 DEF TriggerInv

LEMMA WheelPressed ==
    ASSUME TriggerInv, UNCHANGED cfg, NEW w \in Wheels, IsTrigger(w), WheelTrigger
    PROVE  TriggerInv'
<1>1. ~trigDown
  BY TriggerAssumption DEF TriggerInv, TriggerTyped, IsTrigger, Inputs, Mouse
<1> QED BY <1>1 DEF TriggerInv, TriggerTyped, ReportsFollowKey, WheelTrigger, Report

LEMMA TriggerLifted ==
    ASSUME TriggerInv, UNCHANGED cfg, NEW i, NEW eats, real' = real \ {i}, Lift(i, eats)
    PROVE  TriggerInv'
<1>1. CASE LiftReported(i)
  BY <1>1 DEF TriggerInv, TriggerTyped, ReportsFollowKey, Lift, Report
<1>2. CASE ~LiftReported(i)
  BY <1>2, TriggerUnmoved DEF Lift, LiftReported, IsTrigger
<1> QED BY <1>1, <1>2

LEMMA TriggerMissedLift ==
    ASSUME TriggerInv, UNCHANGED cfg, NEW i, real' = real \ {i}, Missed(i)
    PROVE  TriggerInv'
<1>1. CASE LiftReported(i)
  BY <1>1 DEF TriggerInv, TriggerTyped, ReportsFollowKey, Missed
<1>2. CASE ~LiftReported(i)
  BY <1>2, TriggerUnmoved DEF Missed, LiftReported, IsTrigger, triggering
<1> QED BY <1>1, <1>2

LEMMA TriggerStep == HandsTyped /\ HooksTyped /\ TriggerInv /\ [Next]_vars => TriggerInv'
<1> SUFFICES ASSUME HandsTyped, HooksTyped, TriggerInv, [Next]_vars PROVE TriggerInv'
  OBVIOUS
<1>1. CASE BeginCapture \/ CancelCapture \/ Arm \/ Hooks
  BY <1>1, TriggerUnmoved DEF BeginCapture, CancelCapture, Arm, Hooks, config, hands
<1>2. ASSUME NEW c \in Configs, SetConfig(c) PROVE TriggerInv'
  BY <1>2, TriggerUnmoved DEF SetConfig, hands
<1>3. CASE Reconfig
  <2>1. CASE SameTrigger(pending)
    BY <1>3, <2>1 DEF Reconfig, SameTrigger, TriggerInv, TriggerTyped, ReportsFollowKey, hands
  <2>2. CASE ~SameTrigger(pending)
    BY <1>3, <2>2 DEF Reconfig, TriggerInv, TriggerTyped, ReportsFollowKey, hands
  <2> QED BY <2>1, <2>2
<1>4. ASSUME NEW k \in Keys, KeyDown(k) PROVE TriggerInv'
  <2>1. UNCHANGED cfg /\ real' = real \cup {k} /\ k \in Keys \cup Buttons
    BY <1>4 DEF KeyDown, config
  <2>2. CASE IsTrigger(k) /\ TriggerPress(k, TRUE)
    BY <2>1, <2>2, TriggerPressed
  <2>3. CASE UNCHANGED triggering
    BY <2>1, <2>3, TriggerUnmoved
  <2> QED BY <1>4, <2>2, <2>3, Zenon DEF KeyDown, CaptureModifier, CaptureKey, Emergency,
               Ignore, TriggerNoPress
<1>5. ASSUME NEW k \in Keys, KeyUp(k) PROVE TriggerInv'
  <2>1. UNCHANGED cfg /\ real' = real \ {k}
    BY <1>5 DEF KeyUp, config
  <2> QED BY <1>5, <2>1, TriggerLifted, TriggerMissedLift DEF KeyUp, CaptureKeyUp
<1>6. ASSUME NEW b \in Mouse, MouseDown(b) PROVE TriggerInv'
  <2>1. UNCHANGED cfg /\ real' = real \cup ({b} \ Wheels)
    BY <1>6 DEF MouseDown, config
  <2>2. CASE b \in Buttons /\ IsTrigger(b) /\ TriggerPress(b, hook)
    <3>1. b \in Keys \cup Buttons /\ b \in real'
      BY <2>1, <2>2, TriggerAssumption
    <3> QED BY <2>1, <2>2, <3>1, TriggerPressed
  <2>3. CASE b \in Wheels /\ IsTrigger(b) /\ WheelTrigger
    BY <2>1, <2>3, WheelPressed
  <2>4. CASE UNCHANGED triggering
    BY <2>1, <2>4, TriggerUnmoved
  <2> QED BY <1>6, <2>2, <2>3, <2>4, Zenon DEF MouseDown, UnseenDown, CaptureMouse, Emergency,
               Ignore, TriggerNoPress
<1>7. ASSUME NEW b \in Mouse, MouseUp(b) PROVE TriggerInv'
  <2>1. UNCHANGED cfg /\ real' = real \ {b}
    BY <1>7 DEF MouseUp, config
  <2> QED BY <1>7, <2>1, TriggerLifted, TriggerMissedLift DEF MouseUp, UnseenUp
<1>8. CASE UNCHANGED vars
  BY <1>8, TriggerUnmoved DEF vars, hands, config
<1> QED BY <1>1, <1>2, <1>3, <1>4, <1>5, <1>6, <1>7, <1>8 DEF Next

-----------------------------------------------------------------------------
\* Both halves of a stroke go the same way, but for a slip.
Trigger == Cfg[cfg].trigger

StrokeInv ==
    /\ seen \subseteq real \cup odd
    /\ swallowUp \subseteq real \cup odd
    /\ swallowUp \cap seen \subseteq odd
    /\ trigDown => Trigger \in real \cup odd
    /\ trigDown /\ trigSuppressed /\ Trigger \in seen => Trigger \in odd
    /\ typing = Trigger /\ ~trigDown /\ Trigger \in seen /\ Cfg[cfg].mods \subseteq real
         => Trigger \in odd

\* A mouse trigger that is to be swallowed has the hook.
HookIfSwallowed == Trigger \in Mouse /\ Cfg[cfg].suppress => hook

LEMMA CfgTyped ==
    ASSUME HooksTyped
    PROVE  /\ Cfg[cfg] \in TriggerConfig /\ Trigger \in Inputs \cup {NoInput}
           /\ Cfg[cfg].mods \subseteq Keys
BY TriggerAssumption DEF HooksTyped, TriggerConfig, Trigger

LEMMA HookInit == Init => HookIfSwallowed
BY DEF Init, HookIfSwallowed, NeedHook, NeedMouse, Trigger

LEMMA HookStep == HookIfSwallowed /\ [Next]_vars => HookIfSwallowed'
<1> SUFFICES ASSUME HookIfSwallowed, [Next]_vars PROVE HookIfSwallowed'
  OBVIOUS
<1>1. CASE UNCHANGED <<cfg, hook>>
  BY <1>1 DEF HookIfSwallowed, Trigger
<1>2. CASE Hooks \/ Reconfig
  BY <1>2 DEF Hooks, Reconfig, UpdateHooks, NeedHook, NeedMouse, HookIfSwallowed, Trigger
<1> QED BY <1>1, <1>2, EventsLeaveHooks DEF Next, BeginCapture, CancelCapture, Arm, SetConfig,
             EndsCaptureOrNot, config, vars

\* Every input but i is as before; of i, what the event makes of it matters.
LEMMA StrokeOfOther ==
    ASSUME StrokeInv, UNCHANGED cfg, NEW i,
           real' \cup {i} = real \cup {i}, seen' \cup {i} = seen \cup {i},
           swallowUp' \cup {i} = swallowUp \cup {i}, odd \subseteq odd',
           i \in seen' => i \in real' \cup odd',
           i \in swallowUp' => i \in real' \cup odd' /\ (i \in seen' => i \in odd'),
           Trigger # i => UNCHANGED <<trigDown, trigSuppressed>>,
           Trigger = i /\ trigDown' => i \in real' \cup odd',
           Trigger = i /\ trigDown' /\ trigSuppressed' /\ i \in seen' => i \in odd',
           typing' = Trigger /\ ~trigDown' /\ Trigger \in seen' /\ Cfg[cfg].mods \subseteq real'
             => Trigger \in odd'
    PROVE  StrokeInv'
<1>1. seen' \subseteq real' \cup odd' /\ swallowUp' \subseteq real' \cup odd'
      /\ swallowUp' \cap seen' \subseteq odd'
  BY DEF StrokeInv
<1>2. Trigger' = Trigger /\ Cfg[cfg'] = Cfg[cfg]
  BY DEF Trigger
<1>3. trigDown' => Trigger \in real' \cup odd'
  <2>1. CASE Trigger = i
    BY <2>1
  <2>2. ASSUME Trigger # i, trigDown' PROVE Trigger \in real' \cup odd'
    <3>1. Trigger \in real \cup odd
      BY <2>2 DEF StrokeInv
    <3> QED BY <2>2, <3>1
  <2> QED BY <2>1, <2>2
<1>4. trigDown' /\ trigSuppressed' /\ Trigger \in seen' => Trigger \in odd'
  BY DEF StrokeInv
<1> QED BY <1>1, <1>2, <1>3, <1>4 DEF StrokeInv

LEMMA StrokeKeyDown ==
    ASSUME HandsTyped, HooksTyped, StrokeInv, NEW k \in Keys, KeyDown(k)
    PROVE  StrokeInv'
<1>1. /\ UNCHANGED cfg /\ real' = real \cup {k} /\ typing' = k
      /\ Fresh(k) \/ typing = k
  BY DEF KeyDown, config
<1>2. k \notin real /\ k \in seen => k \in odd
  BY DEF StrokeInv
<1>3. k \notin real /\ k \in swallowUp => k \in odd
  BY DEF StrokeInv
<1>4. Trigger = k /\ trigDown /\ trigSuppressed /\ k \in seen => k \in odd
  BY DEF StrokeInv
<1>5. CASE capture
  <2>1. /\ UNCHANGED <<seen, trigDown, trigSuppressed>>
        /\ swallowUp' = swallowUp \cup {k} /\ Slip(k, k \in seen)
    BY <1>5 DEF KeyDown, CaptureModifier, CaptureKey, triggering
  <2>2. odd \subseteq odd' /\ (k \in seen => k \in odd')
    BY <2>1 DEF Slip
  <2> QED BY <1>1, <1>2, <1>4, <2>1, <2>2, StrokeOfOther
<1>6. CASE ~capture /\ Fresh(k) /\ IsEmergency(k)
  <2>1. /\ UNCHANGED <<seen, trigDown, trigSuppressed>>
        /\ swallowUp' = swallowUp \cup ({k} \ Wheels) /\ odd' = odd
    BY <1>6 DEF KeyDown, Emergency, Swallow, Slip, triggering
  <2> QED BY <1>1, <1>2, <1>4, <1>6, <2>1, StrokeOfOther DEF Fresh
<1>7. CASE ~capture /\ ~(Fresh(k) /\ IsEmergency(k))
  <2>1. UNCHANGED swallowUp /\ Slip(k, ~Fresh(k) /\ k \notin seen /\ k \in seen')
    BY <1>7 DEF KeyDown
  <2>2. odd \subseteq odd' /\ (k \in real /\ k \notin seen /\ k \in seen' => k \in odd')
    BY <2>1 DEF Slip, Fresh
  <2>3. k \in swallowUp /\ k \in seen' => k \in odd'
    BY <1>3, <2>2 DEF StrokeInv
  <2>4. seen' \cup {k} = seen \cup {k}
    BY <1>7 DEF KeyDown, Ignore, TriggerPress, TriggerNoPress, Swallow, Pass
  <2>5. CASE ~IsTrigger(k)
    <3>1. UNCHANGED <<trigDown, trigSuppressed>> /\ Trigger # k
      BY <1>7, <2>5 DEF KeyDown, Ignore, triggering, IsTrigger, Trigger
    <3> QED BY <1>1, <2>1, <2>2, <2>3, <2>4, <3>1, StrokeOfOther
  <2>6. CASE IsTrigger(k) /\ TriggerPress(k, TRUE)
    <3>1. /\ ~trigDown /\ trigDown' = TRUE /\ trigSuppressed' = Suppress /\ Trigger = k
          /\ Cfg[cfg].mods \subseteq real' /\ (Suppress => UNCHANGED seen)
      BY <2>6 DEF TriggerPress, Chord, Swallow, IsTrigger, Trigger
    <3>2. k \in real /\ k \in seen => k \in odd
      BY <1>1, <3>1 DEF StrokeInv, Fresh
    <3>3. Suppress /\ k \in seen' => k \in odd'
      BY <1>2, <2>2, <3>1, <3>2
    <3> QED BY <1>1, <2>1, <2>2, <2>3, <2>4, <3>1, <3>3, StrokeOfOther
  <2>7. CASE IsTrigger(k) /\ TriggerNoPress(k, trigDown /\ trigSuppressed)
    <3>1. /\ trigDown \/ ~(Cfg[cfg].mods \subseteq real')
          /\ UNCHANGED <<trigDown, trigSuppressed>> /\ Trigger = k
          /\ (trigDown /\ trigSuppressed => UNCHANGED seen)
      BY <2>7 DEF TriggerNoPress, Chord, Swallow, triggering, IsTrigger, Trigger
    <3> QED BY <1>1, <1>4, <2>1, <2>2, <2>3, <2>4, <3>1, StrokeOfOther
  <2> QED BY <1>7, <2>5, <2>6, <2>7 DEF KeyDown
<1> QED BY <1>5, <1>6, <1>7

LEMMA StrokeUp ==
    ASSUME HandsTyped, StrokeInv, UNCHANGED cfg, NEW i,
           real' = real \ {i}, typing' # i, typing' \in {typing, NoInput},
           seen' \cup {i} = seen \cup {i}, swallowUp' \cup {i} = swallowUp \cup {i},
           odd \subseteq odd', i \in seen' => i \in odd',
           i \in swallowUp' => i \in odd',
           Trigger # i => UNCHANGED <<trigDown, trigSuppressed>>,
           Trigger = i /\ trigDown' => i \in odd'
    PROVE  StrokeInv'
<1>1. NoInput \notin seen
  BY TriggerAssumption DEF HandsTyped, Inputs, Mouse
<1>2. typing' = Trigger /\ ~trigDown' /\ Trigger \in seen' /\ Cfg[cfg].mods \subseteq real'
        => Trigger \in odd'
  BY <1>1 DEF StrokeInv
<1> QED BY <1>2, StrokeOfOther

\* A release that is looked at: it is swallowed if the press was.
LEMMA StrokeLift ==
    ASSUME HandsTyped, StrokeInv, UNCHANGED cfg, NEW i, NEW eats, Lift(i, eats), i \in real,
           real' = real \ {i}, typing' # i, typing' \in {typing, NoInput}
    PROVE  StrokeInv'
<1>1. swallowUp' = swallowUp \ {i} /\ odd' = odd
  BY DEF Lift
<1>2. seen' \cup {i} = seen \cup {i}
  BY DEF Lift, Swallow, Pass
<1>3. i \in seen' => LiftSwallowed(i) /\ i \in seen
  BY DEF Lift, Swallow, Pass
<1>4. LiftSwallowed(i) /\ i \in seen => i \in odd
  BY DEF LiftSwallowed, LiftReported, IsTrigger, StrokeInv, Trigger
<1>5. /\ Trigger # i => UNCHANGED <<trigDown, trigSuppressed>>
      /\ Trigger = i => ~trigDown'
  BY DEF Lift, LiftReported, IsTrigger, Trigger, triggering
<1> QED BY <1>1, <1>2, <1>3, <1>4, <1>5, StrokeUp

\* A button or a wheel does not repeat: what is pressed was up.
LEMMA StrokeMouseDown ==
    ASSUME HandsTyped, HooksTyped, TriggerTyped, HookIfSwallowed, StrokeInv,
           NEW b \in Mouse, MouseDown(b)
    PROVE  StrokeInv'
<1>1. /\ UNCHANGED <<cfg, typing>> /\ real' = real \cup ({b} \ Wheels) /\ b \notin real
  BY DEF MouseDown, config
<1>2. /\ b \in seen => b \in odd
      /\ b \in swallowUp => b \in odd
      /\ Trigger = b /\ trigDown => b \in odd
  BY <1>1 DEF StrokeInv
<1>3. typing = Trigger => Trigger # b
  BY TriggerAssumption DEF HandsTyped, Inputs, Mouse
<1>4. Cfg[cfg].mods \subseteq real' => Cfg[cfg].mods \subseteq real
  BY <1>1, CfgTyped, TriggerAssumption DEF Mouse
\* Whatever the branch: it is enough that a swallowed press stays unseen.
<1>5. ASSUME seen' \in {seen, seen \cup ({b} \ Wheels)}, odd \subseteq odd',
             swallowUp' \in {swallowUp, swallowUp \cup ({b} \ Wheels)},
             b \in swallowUp' /\ b \in seen' => b \in odd',
             Trigger # b => UNCHANGED <<trigDown, trigSuppressed>>,
             trigDown => trigDown',
             Trigger = b /\ trigDown' /\ ~trigDown => b \in real',
             Trigger = b /\ trigDown' /\ trigSuppressed' /\ b \in seen' => b \in odd'
      PROVE  StrokeInv'
  <2>1. real' \cup {b} = real \cup {b} /\ seen' \cup {b} = seen \cup {b}
        /\ swallowUp' \cup {b} = swallowUp \cup {b}
    BY <1>1, <1>5
  <2>2. /\ b \in seen' => b \in real' \cup odd'
        /\ b \in swallowUp' => b \in real' \cup odd' /\ (b \in seen' => b \in odd')
    BY <1>1, <1>2, <1>5
  <2>3. Trigger = b /\ trigDown' => b \in real' \cup odd'
    BY <1>2, <1>5
  <2>4. typing' = Trigger /\ ~trigDown' /\ Trigger \in seen' /\ Cfg[cfg].mods \subseteq real'
          => Trigger \in odd'
    BY <1>1, <1>3, <1>4, <1>5 DEF StrokeInv
  <2> QED BY <1>1, <1>5, <2>1, <2>2, <2>3, <2>4, StrokeOfOther
<1>6. CASE UnseenDown(b) \/ (Ignore(b) /\ UNCHANGED <<swallowUp, odd>>)
  BY <1>2, <1>5, <1>6 DEF UnseenDown, Ignore, Pass, triggering
<1>7. CASE CaptureMouse(b, hook) \/ Emergency(b, hook)
  <2>1. /\ UNCHANGED <<trigDown, trigSuppressed>>
        /\ swallowUp' = swallowUp \cup ({b} \ Wheels)
        /\ seen' = IF hook THEN seen ELSE seen \cup ({b} \ Wheels)
        /\ odd' = IF ~hook /\ b \notin Wheels THEN odd \cup {b} ELSE odd
    BY <1>7 DEF CaptureMouse, Emergency, Swallow, Pass, Slip, triggering
  <2>2. odd \subseteq odd' /\ (b \in seen' => b \in odd')
    BY <1>2, <2>1
  <2> QED BY <1>5, <2>1, <2>2
<1>8. CASE b \in Wheels /\ WheelTrigger /\ UNCHANGED <<swallowUp, odd>>
  BY <1>2, <1>5, <1>8 DEF WheelTrigger
<1>9. CASE TriggerNoPress(b, FALSE) /\ UNCHANGED <<swallowUp, odd>>
  BY <1>2, <1>5, <1>9 DEF TriggerNoPress, Swallow, Pass, triggering
<1>10. CASE b \in Buttons /\ IsTrigger(b) /\ TriggerPress(b, hook) /\ UNCHANGED <<swallowUp, odd>>
  <2>1. /\ ~trigDown /\ trigDown' = TRUE /\ trigSuppressed' = Suppress /\ Trigger = b
        /\ seen' = IF hook /\ Suppress THEN seen ELSE seen \cup ({b} \ Wheels)
    BY <1>10 DEF TriggerPress, Swallow, Pass, IsTrigger, Trigger
  <2>2. Suppress => hook
    BY <2>1 DEF HookIfSwallowed, Suppress
  <2>3. b \in real'
    BY <1>1, <1>10, TriggerAssumption
  <2> QED BY <1>2, <1>5, <1>10, <2>1, <2>2, <2>3
<1> QED BY <1>6, <1>7, <1>8, <1>9, <1>10 DEF MouseDown

LEMMA StrokeStep ==
    HandsTyped /\ HooksTyped /\ TriggerTyped /\ HookIfSwallowed /\ StrokeInv /\ [Next]_vars
      => StrokeInv'
<1> SUFFICES ASSUME HandsTyped, HooksTyped, TriggerTyped, HookIfSwallowed, StrokeInv, [Next]_vars
             PROVE  StrokeInv'
  OBVIOUS
<1>1. ASSUME UNCHANGED <<hands, seen, cfg, swallowUp, trigDown, trigSuppressed, odd>>
      PROVE  StrokeInv'
  BY <1>1 DEF StrokeInv, Trigger, hands
<1>2. CASE BeginCapture \/ CancelCapture \/ Arm \/ Hooks \/ UNCHANGED vars
  BY <1>1, <1>2 DEF BeginCapture, CancelCapture, Arm, Hooks, vars, config, triggering
<1>3. ASSUME NEW c \in Configs, SetConfig(c) PROVE StrokeInv'
  BY <1>1, <1>3 DEF SetConfig, triggering
<1>4. CASE Reconfig
  <2>1. UNCHANGED <<real, typing, seen, swallowUp>> /\ odd' = odd \cup ({Trigger'} \cap real)
    BY <1>4 DEF Reconfig, hands, Trigger
  <2>2. seen \subseteq real \cup odd /\ swallowUp \subseteq real \cup odd /\ swallowUp \cap seen \subseteq odd
    BY DEF StrokeInv
  <2>3. Trigger' \in seen => Trigger' \in odd'
    BY <2>1, <2>2
  <2>4. trigDown' => trigDown /\ Trigger' = Trigger
    BY <1>4 DEF Reconfig, SameTrigger, Trigger
  <2>5. trigDown' => Trigger' \in real \cup odd
    BY <2>4 DEF StrokeInv
  <2> QED BY <2>1, <2>2, <2>3, <2>5 DEF StrokeInv
<1>5. ASSUME NEW k \in Keys, KeyUp(k) PROVE StrokeInv'
  <2>1. /\ UNCHANGED cfg /\ real' = real \ {k} /\ k \in real
        /\ typing' # k /\ typing' \in {typing, NoInput} /\ k # NoInput
    BY <1>5, TriggerAssumption DEF KeyUp, config, Inputs
  <2>2. CASE capture
    <3>1. CaptureKeyUp(k)
      BY <1>5, <2>2 DEF KeyUp
    <3>2. /\ swallowUp' = swallowUp \ {k} /\ UNCHANGED <<trigDown, trigSuppressed>>
          /\ Slip(k, LiftReported(k)) /\ seen' \cup {k} = seen \cup {k}
          /\ k \in seen' => k \in swallowUp /\ k \in seen
      BY <3>1 DEF CaptureKeyUp, Missed, Swallow, Pass
    <3>3. odd \subseteq odd' /\ (Trigger = k /\ trigDown => k \in odd')
      BY <3>2 DEF Slip, LiftReported, IsTrigger, Trigger
    <3>4. k \in seen' => k \in odd'
      BY <3>2, <3>3 DEF StrokeInv
    <3> QED BY <2>1, <3>2, <3>3, <3>4, StrokeUp
  <2>3. CASE ~capture
    BY <1>5, <2>1, <2>3, StrokeLift DEF KeyUp
  <2> QED BY <2>2, <2>3
<1>6. ASSUME NEW b \in Mouse, MouseUp(b) PROVE StrokeInv'
  <2>1. /\ UNCHANGED cfg /\ real' = real \ {b} /\ b \in real
        /\ typing' # b /\ typing' \in {typing, NoInput}
    BY <1>6, TriggerAssumption DEF MouseUp, config, HandsTyped, Inputs, Mouse
  <2>2. CASE UnseenUp(b)
    <3>1. /\ UNCHANGED <<swallowUp, trigDown, trigSuppressed>> /\ seen' = seen \ {b}
          /\ Slip(b, LiftReported(b) \/ b \in swallowUp)
      BY <2>2 DEF UnseenUp, Missed, Pass
    <3>2. odd \subseteq odd' /\ (Trigger = b /\ trigDown => b \in odd') /\ (b \in swallowUp => b \in odd')
      BY <3>1 DEF Slip, LiftReported, IsTrigger, Trigger
    <3> QED BY <2>1, <3>1, <3>2, StrokeUp
  <2>3. CASE Lift(b, hook)
    BY <2>1, <2>3, StrokeLift
  <2> QED BY <1>6, <2>2, <2>3 DEF MouseUp
<1>7. ASSUME NEW k \in Keys, KeyDown(k) PROVE StrokeInv'
  BY <1>7, StrokeKeyDown
<1>8. ASSUME NEW b \in Mouse, MouseDown(b) PROVE StrokeInv'
  BY <1>8, StrokeMouseDown
<1> QED BY <1>2, <1>3, <1>4, <1>5, <1>6, <1>7, <1>8 DEF Next

-----------------------------------------------------------------------------
IInv == HandsTyped /\ HooksInv /\ TriggerInv /\ HookIfSwallowed /\ StrokeInv

LEMMA Inductive == Spec => []IInv
<1>1. Init => IInv
  <2>1. Init => StrokeInv
    BY DEF Init, StrokeInv
  <2> QED BY <2>1, HandsInit, HooksInit, TriggerInit, HookInit DEF IInv
<1>2. IInv /\ [Next]_vars => IInv'
  BY HandsStep, HooksStep, TriggerStep, HookStep, StrokeStep DEF IInv, HooksInv, TriggerInv
<1> QED BY <1>1, <1>2, PTL DEF Spec

\* The state of the trigger thread keeps its types, and a wheel is never down.
THEOREM TriggerKeysTyped == Spec => []TypeOK
<1>1. IInv => TypeOK
  BY TypeOKParts DEF IInv, HooksInv, TriggerInv
<1> QED BY <1>1, Inductive, PTL

\* handleKey(), handleMouse(): the scheduler's last report is what the trigger
\* does, unless the binding was changed under it or its lift went unseen.
THEOREM ReportsAreRight == Spec => []ReportsFollowKey
<1>1. IInv => ReportsFollowKey
  BY DEF IInv, TriggerInv
<1> QED BY <1>1, Inductive, PTL

\* updateHooks(): never two mouse sources, and the one that is wanted as soon as
\* the messages that ask for it are through.
THEOREM OneSource == Spec => []OneMouseSource
<1>1. IInv => OneMouseSource
  BY Zenon DEF IInv, HooksInv, NeverTwo, HooksRight, OneMouseSource, NeedHook
<1> QED BY <1>1, Inductive, PTL

\* Swallowed presses, captures, emergency stops, auto-repeat and two mouse sources:
\* an application keeps a key or button that is up only after a listed slip.
THEOREM SlipsAreAll == Spec => []StuckOnlyBySlip
<1>1. IInv => StuckOnlyBySlip
  BY DEF IInv, StrokeInv, StuckOnlyBySlip
<1> QED BY <1>1, Inductive, PTL
=============================================================================
