-------------------------- MODULE AbstractSnapshot --------------------------
(* What the telemetry promises its readers, with no words, numbers or         *)
(* attempts: there is one snapshot on show, publishing replaces it by the     *)
(* next one, and a read that succeeds hands out the one on show at that       *)
(* moment. Telemetry.tla implements it (Telemetry!AtomicReads).               *)
EXTENDS Naturals

VARIABLES shown,  \* the snapshot on show
          got     \* what the read that has just ended hands out, if anything

vars == <<shown, got>>

Init == shown.publishSeq = 0 /\ got = {}

Publish ==
  /\ shown'.publishSeq = shown.publishSeq + 1
  /\ UNCHANGED got

ReadSucceeds == got = {} /\ got' = {shown} /\ UNCHANGED shown
ReadIsTaken  == got' = {} /\ UNCHANGED shown

Next == Publish \/ ReadSucceeds \/ ReadIsTaken
Spec == Init /\ [][Next]_vars
==============================================================================
