------------------------------ MODULE MCEngine ------------------------------
(* Instances of Engine.tla for TLC: one UI thread and one hook thread.     *)
EXTENDS Engine

MCCallers == {"ui", "hook"}

Base == [mode |-> "Toggle", burstCount |-> 1, fixedCount |-> 2, ok |-> TRUE, steps |-> 1,
         catchUp |-> FALSE, maxMode |-> FALSE, maxBatch |-> 2, backpressure |-> FALSE]

Timed == [maxActions |-> 0, timed |-> TRUE]

\* Safety: a two-call action on a Hold trigger, a burst that catches up, a MAX count
\* run.  The UI may also start a run with a deadline (the lab does).
SafeCfg == [hold  |-> [Base EXCEPT !.mode = "Hold", !.steps = 2],
            burst |-> [Base EXCEPT !.mode = "Burst", !.burstCount = 2, !.catchUp = TRUE],
            max   |-> [Base EXCEPT !.mode = "Count", !.maxMode = TRUE, !.fixedCount = 3]]
SafeConfigs == DOMAIN SafeCfg
SafeOps == [ui   |-> {CmdArm(TRUE), CmdArm(FALSE), Cmd("StopRun"), Cmd("Quit"), CmdStart(Timed)}
                     \cup {CmdConfig("burst"), CmdConfig("max")},
            hook |-> {Cmd("TriggerDown"), Cmd("TriggerUp"), Cmd("Emergency")}]

\* Liveness: a two-call Duration run, a MAX run under backpressure, and an
\* action that does not compile arriving in the middle of either.
LiveCfg == [duration |-> [Base EXCEPT !.mode = "Duration", !.steps = 2],
            max      |-> [Base EXCEPT !.mode = "Count", !.maxMode = TRUE, !.backpressure = TRUE],
            broken   |-> [Base EXCEPT !.ok = FALSE]]
LiveConfigs == DOMAIN LiveCfg
LiveOps == [ui   |-> {Cmd("StopRun"), Cmd("Quit"), CmdConfig("broken")},
            hook |-> {Cmd("TriggerDown")}]

\* The hook alone, on a Hold trigger.
HoldCfg == [hold |-> [Base EXCEPT !.mode = "Hold"]]
HoldConfigs == DOMAIN HoldCfg
HoldOps == [ui |-> {}, hook |-> {Cmd("TriggerDown"), Cmd("TriggerUp")}]

\* The hook alone, on a MAX Duration trigger.
DurationCfg == [duration |-> [Base EXCEPT !.mode = "Duration", !.maxMode = TRUE]]
DurationConfigs == DOMAIN DurationCfg
DurationOps == [ui |-> {}, hook |-> {Cmd("TriggerDown")}]
=============================================================================
