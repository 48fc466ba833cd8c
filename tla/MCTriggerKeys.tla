--------------------------- MODULE MCTriggerKeys ----------------------------
(* An instance of TriggerKeys.tla: a modifier, a key, a button, a wheel.   *)
EXTENDS TriggerKeys

MCKeys    == {"ctrl", "f6"}
MCMods    == {"ctrl"}
MCButtons == {"left"}
MCWheels  == {"up"}

Base == [trigger |-> "f6", mods |-> {}, suppress |-> FALSE,
         emergency |-> "none", emergencyMods |-> {}, rawInput |-> FALSE, observe |-> FALSE]

\* A swallowed key with an emergency chord; a swallowed button whose emergency is
\* a key; raw input for a wheel with a modifier and a button in an emergency.
MCCfg == [key    |-> [Base EXCEPT !.suppress = TRUE, !.emergency = "f6", !.emergencyMods = {"ctrl"}],
          button |-> [Base EXCEPT !.trigger = "left", !.suppress = TRUE, !.emergency = "f6"],
          raw    |-> [Base EXCEPT !.trigger = "up", !.mods = {"ctrl"}, !.rawInput = TRUE,
                                  !.emergency = "left"]]
MCConfigs == DOMAIN MCCfg

\* A plain trigger key and a capture.
KeyCfg == [key |-> Base]
KeyConfigs == DOMAIN KeyCfg
=============================================================================
