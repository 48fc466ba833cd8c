--------------------------- MODULE AbstractEngine ---------------------------
(***************************************************************************)
(* What a user of the engine may rely on, with no threads, queue or wait:  *)
(* output happens while the status is Running and the run has budget left, *)
(* and whatever the output holds down is released before the status says   *)
(* anything else.  Engine.tla implements it (Engine!AbstractSpec).         *)
(***************************************************************************)
EXTENDS Integers

VARIABLES status,  \* what Engine::state() shows
          budget,  \* actions the run may still start; -1: no limit
          held,    \* something is held down
          pulse,   \* flips at every SendInput
          alive    \* the engine thread has not exited

vars == <<status, budget, held, pulse, alive>>

Idle == {"Disarmed", "Armed"}
Busy == {"Running", "Paused"}

Init ==
    /\ status \in Idle /\ budget = 0
    /\ held = FALSE /\ pulse = 0 /\ alive = TRUE

Begin ==
    /\ alive = TRUE /\ status \in Idle /\ held = FALSE
    /\ status' = "Running"
    /\ budget' \in (Nat \ {0}) \cup {-1}
    /\ UNCHANGED <<held, pulse, alive>>

\* One SendInput call: never without budget, and it never adds to it.
Emit ==
    /\ alive = TRUE /\ status = "Running" /\ budget # 0
    /\ pulse' = 1 - pulse
    /\ held' \in BOOLEAN
    /\ IF budget = -1 THEN UNCHANGED budget ELSE budget' \in 0..budget
    /\ UNCHANGED <<status, alive>>

\* An action that has no inputs is counted and nothing is sent.
Spend ==
    /\ status = "Running" /\ budget # -1 /\ budget # 0
    /\ budget' \in 0..budget /\ held' = FALSE
    /\ UNCHANGED <<status, pulse, alive>>

Extend ==
    /\ status \in Busy /\ budget # -1
    /\ budget' \in Nat /\ budget' >= budget
    /\ UNCHANGED <<status, held, pulse, alive>>

Release ==
    /\ held' = FALSE
    /\ UNCHANGED <<status, budget, pulse, alive>>

Pause ==
    /\ status = "Running" /\ status' = "Paused"
    /\ held' = FALSE
    /\ UNCHANGED <<budget, pulse, alive>>

Resume ==
    /\ status = "Paused" /\ status' = "Running"
    /\ UNCHANGED <<budget, held, pulse, alive>>

\* A run ends, or an idle engine is armed or disarmed.
Settle ==
    /\ status' \in Idle
    /\ held' = FALSE /\ (status \in Busy => held = FALSE)
    /\ UNCHANGED <<budget, pulse, alive>>

Exit ==
    /\ status \in Idle
    /\ alive = TRUE /\ alive' = FALSE /\ held' = FALSE
    /\ UNCHANGED <<status, budget, pulse>>

Next == \/ Begin \/ Emit \/ Spend \/ Extend \/ Release \/ Pause \/ Resume \/ Settle \/ Exit

Spec == Init /\ [][Next]_vars
=============================================================================
