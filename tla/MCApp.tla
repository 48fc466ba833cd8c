-------------------------------- MODULE MCApp --------------------------------
(* Three parts of the application object side by side: lab runs with their    *)
(* gate, bindings, and the log. They share no state, so one is followed at a  *)
(* time.                                                                      *)
(* Two profiles: one that pauses on the own window, one that is tied to a     *)
(* target process and whose action may not compile.                           *)
EXTENDS Lab, Capture, Log
VARIABLE part

TwoProfiles == {[filter |-> FALSE, own |-> TRUE, valid |-> TRUE],
                [filter |-> TRUE, own |-> FALSE, valid |-> FALSE]}
AllTargets == {"Trigger", "Action", "Emergency"}

AppInit == Init /\ CaptureInit /\ LogInit /\ part \in {"lab", "binding", "log"}
AppNext == \/ part = "lab" /\ Next /\ UNCHANGED <<capturevars, logvars, part>>
           \/ part = "binding" /\ CaptureNext /\ UNCHANGED <<vars, logvars, part>>
           \/ part = "log" /\ LogNext /\ UNCHANGED <<vars, capturevars, part>>
AppSpec == AppInit /\ [][AppNext]_<<vars, capturevars, logvars, part>>
==============================================================================
