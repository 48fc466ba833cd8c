---------------------------- MODULE MCHeldInput ----------------------------
(* An instance of HeldInput.tla: a modifier, a key and a mouse button.     *)
EXTENDS HeldInput

MCItems  == {"ctrl", "k", "left"}
MCWordOf == [i \in MCItems |-> IF i = "left" THEN 2 ELSE 1]

Press(i) == [item |-> i, press |-> TRUE]
Lift(i)  == [item |-> i, press |-> FALSE]

\* The two calls of Ctrl+K with a down time, of a click with a down time, and
\* a MAX batch of two clicks.
MCBatches == {<<Press("ctrl"), Press("k")>>, <<Lift("k"), Lift("ctrl")>>,
              <<Press("left")>>, <<Lift("left")>>,
              <<Press("left"), Lift("left"), Press("left"), Lift("left")>>}
=============================================================================
