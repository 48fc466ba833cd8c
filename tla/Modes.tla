------------------------------- MODULE Modes -------------------------------
(***************************************************************************)
(* The trigger-mode state machine of scheduler/Modes.h: what a trigger     *)
(* edge means in each mode.  Pure operators, no state; Engine.tla applies  *)
(* them from the idle loop and from inside a run.                          *)
(***************************************************************************)
EXTENDS Integers

\* enum class TriggerMode
TriggerMode == {"Hold", "Toggle", "Burst", "Count", "Duration"}

\* RunLimits: maxActions = 0 means no limit.  The duration is kept as the
\* question "is there one": its length is the clock's business.
RunLimits == [maxActions : Nat, timed : BOOLEAN]
NoLimits  == [maxActions |-> 0, timed |-> FALSE]

Decision(kind, limits, extendBy) ==
    [kind |-> kind, limits |-> limits, extendBy |-> extendBy]
NoDecision == Decision("None", NoLimits, 0)

AtLeastOne(n) == IF n = 0 THEN 1 ELSE n

\* The limits a press asks for in mode p.mode when nothing runs yet.
PressLimits(p) ==
    [maxActions |-> CASE p.mode = "Burst" -> AtLeastOne(p.burstCount)
                      [] p.mode = "Count" -> AtLeastOne(p.fixedCount)
                      [] OTHER            -> 0,
     timed      |-> p.mode = "Duration"]

decideOnTriggerDown(p, running) ==
    IF ~running THEN Decision("Start", PressLimits(p), 0)
    ELSE CASE p.mode = "Hold"  -> NoDecision
           [] p.mode = "Burst" -> Decision("Extend", NoLimits, p.burstCount)
           [] OTHER            -> Decision("Stop", PressLimits(p), 0)

decideOnTriggerUp(p, running) ==
    IF p.mode = "Hold" /\ running THEN Decision("Stop", NoLimits, 0)
    ELSE NoDecision
=============================================================================
