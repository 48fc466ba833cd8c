------------------------------- MODULE MCPacing -------------------------------
(* Periods of two and a half, two and a third and one and two thirds ticks.   *)
EXTENDS Pacing
SomePeriods == {[num |-> 5, den |-> 2], [num |-> 7, den |-> 3], [num |-> 5, den |-> 3]}
=============================================================================
