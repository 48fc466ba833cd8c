------------------------- MODULE BackpressureProofs -------------------------
(* Proofs about Backpressure.tla, for any limits, batch sizes and bounds.  *)
EXTENDS Backpressure, TLAPS

USE DEF vars, engine, trigger, mail, health

LEMMA LeastBounds ==
    ASSUME NEW a \in Nat, NEW b \in Nat
    PROVE  Least(a, b) \in Nat /\ Least(a, b) <= a /\ Least(a, b) <= b
  BY DEF Least

Numbers ==
    /\ {waiting, remaining, sent, runs, changes, atStart, lost} \subseteq Nat /\ gap \in Int
    /\ sent <= HealthMin + 1
Switches ==
    /\ running \in BOOLEAN /\ throttle \in BOOLEAN /\ reinstall \in BOOLEAN /\ moved \in BOOLEAN
    /\ observe \in BOOLEAN /\ hook \in BOOLEAN /\ live \in BOOLEAN
    /\ toTrigger \in Setting \cup {None} /\ toEngine \in Setting \cup {None}
    /\ half \in Setting \cup {None}
    /\ live => hook

LEMMA InitTypes == Init => TypeOK
  <1>1. Init => Numbers
    BY BackpressureAssumption DEF Init, Numbers
  <1>2. ASSUME Init PROVE Switches
    <2>1. None \in Setting \cup {None}
      OBVIOUS
    <2>2. observe \in BOOLEAN /\ hook \in BOOLEAN /\ live \in BOOLEAN /\ (live => hook)
      BY <1>2, Zenon DEF Init
    <2> QED
      BY <1>2, <2>1, <2>2, Zenon DEF Init, Switches
  <1> QED
    BY <1>1, <1>2 DEF TypeOK, Numbers, Switches

\* The counters: numbers stay natural, because a batch is cut to what remains
\* and a delivery needs an event that waits.
LEMMA NextNumbers == Numbers /\ [Next]_vars => Numbers'
  <1> SUFFICES ASSUME Numbers, [Next]_vars PROVE Numbers'
    OBVIOUS
  <1> USE BackpressureAssumption DEF Numbers
  <1>1. ASSUME NEW bp \in Setting, ApplyConfigs(bp) PROVE Numbers'
    BY <1>1 DEF ApplyConfigs
  <1>2. CASE UiThread \/ TriggerThread \/ LoseHook
    BY <1>2 DEF UiThread, ApplyRest, HealthCheck, TriggerThread, Reconfig, Reinstall, LoseHook
  <1>3. CASE SendBatch
    <2>1. Batch \in Nat /\ Batch <= remaining
      BY LeastBounds DEF Batch
    <2>2. sent + Batch \in Nat /\ HealthMin + 1 \in Nat
      BY <2>1
    <2>3. sent' \in Nat /\ sent' <= HealthMin + 1
      BY <1>3, <2>2, LeastBounds DEF SendBatch
    <2> QED
      BY <1>3, <2>1, <2>3 DEF SendBatch
  <1>4. CASE TakeConfig \/ RunDone \/ StopRun \/ UNCHANGED vars
    BY <1>4 DEF TakeConfig, RunDone, StopRun
  <1>5. CASE Deliver
    BY <1>5 DEF Deliver
  <1>6. CASE Start
    BY <1>6 DEF Start, Rebase
  <1> QED
    BY <1>1, <1>2, <1>3, <1>4, <1>5, <1>6 DEF Next, EngineThread

LEMMA NextSwitches == Switches /\ [Next]_vars => Switches'
  <1> SUFFICES ASSUME Switches, [Next]_vars PROVE Switches'
    OBVIOUS
  <1> USE DEF Switches
  <1>1. ASSUME NEW bp \in Setting, ApplyConfigs(bp) PROVE Switches'
    BY <1>1 DEF ApplyConfigs
  <1>2. CASE ApplyRest
    BY <1>2, Zenon DEF ApplyRest
  <1>3. CASE HealthCheck
    <2>1. reinstall' \in BOOLEAN /\ moved' \in BOOLEAN
      BY <1>3, Zenon DEF HealthCheck, Silent
    <2> QED
      BY <1>3, <2>1, Zenon DEF HealthCheck
  <1>4. CASE Reconfig
    <2>1. observe' \in BOOLEAN /\ hook' = observe' /\ live' \in BOOLEAN /\ (live' => hook')
      BY <1>4, Zenon DEF Reconfig
    <2> QED
      BY <1>4, <2>1, Zenon DEF Reconfig
  <1>5. CASE Reinstall
    BY <1>5, Zenon DEF Reinstall
  <1>6. CASE LoseHook
    BY <1>6, Zenon DEF LoseHook
  <1>7. ASSUME UNCHANGED <<trigger, mail, throttle, moved>>, running' \in BOOLEAN PROVE Switches'
    BY <1>7, Zenon
  <1>8. CASE TakeConfig
    <2>1. throttle' \in BOOLEAN /\ toEngine' = None
      BY <1>8, Zenon DEF TakeConfig
    <2> QED
      BY <1>8, <2>1, Zenon DEF TakeConfig
  <1>9. CASE Deliver
    <2>1. moved' \in BOOLEAN
      BY <1>9, Zenon DEF Deliver
    <2> QED
      BY <1>9, <2>1, Zenon DEF Deliver
  <1>10. CASE Start \/ RunDone \/ StopRun \/ SendBatch \/ UNCHANGED vars
    <2>1. UNCHANGED <<trigger, mail, throttle, moved>>
      BY <1>10 DEF Start, RunDone, StopRun, SendBatch
    <2>2. running' \in BOOLEAN
      BY <1>10, Zenon DEF Start, RunDone, StopRun, SendBatch
    <2> QED
      BY <1>7, <2>1, <2>2
  <1> QED
    BY <1>1, <1>2, <1>3, <1>4, <1>5, <1>6, <1>8, <1>9, <1>10
    DEF Next, UiThread, TriggerThread, EngineThread

LEMMA NextTypes == TypeOK /\ [Next]_vars => TypeOK'
  <1>1. TypeOK <=> Numbers /\ Switches
    BY DEF TypeOK, Numbers, Switches
  <1>2. TypeOK' <=> Numbers' /\ Switches'
    BY DEF TypeOK, Numbers, Switches
  <1> QED
    BY <1>1, <1>2, NextNumbers, NextSwitches

\* The types of the counters and of the mail are kept by every step: a MAX
\* run's unsigned counter never wraps.
THEOREM CountersTyped == Spec => []TypeOK
  BY InitTypes, NextTypes, PTL DEF Spec

LEMMA NextGap == TypeOK /\ GapExact /\ [Next]_vars => GapExact'
  <1> SUFFICES ASSUME TypeOK, GapExact, [Next]_vars PROVE GapExact'
    OBVIOUS
  <1>0. /\ gap \in Int /\ {waiting, remaining, atStart, lost} \subseteq Nat
        /\ gap = waiting - atStart + lost
    BY DEF TypeOK, GapExact
  <1>1. ASSUME UNCHANGED <<gap, waiting, atStart, lost>> PROVE GapExact'
    BY <1>0, <1>1 DEF GapExact
  <1>2. CASE SendBatch
    <2>1. Batch \in Nat
      BY <1>0, LeastBounds, BackpressureAssumption DEF Batch
    <2> QED
      BY <1>0, <1>2, <2>1 DEF SendBatch, GapExact
  <1>3. CASE Deliver
    BY <1>0, <1>3 DEF Deliver, GapExact
  <1>4. CASE Start
    BY <1>0, <1>4 DEF Start, Rebase, GapExact
  <1> QED
    BY <1>1, <1>2, <1>3, <1>4 DEF Next, UiThread, TriggerThread, EngineThread, ApplyConfigs, ApplyRest,
       HealthCheck, Reconfig, Reinstall, TakeConfig, RunDone, StopRun, LoseHook

\* What runMax() computes from three counters is exactly the number of its
\* events that wait, corrected by what got lost past a missing hook.
THEOREM GapIsExact == Spec => []GapExact
  <1>1. Init => GapExact
    BY DEF Init, GapExact
  <1> QED
    BY <1>1, NextGap, CountersTyped, PTL DEF Spec

\* A throttled run leaves, whatever the hook does, at most maxInflight events
\* and one batch in the queue beyond what was there when it began.
THEOREM QueueBounded == Spec => QueueStaysShort
  <1>1. TypeOK /\ TypeOK' /\ GapExact /\ [Next]_vars =>
            ((throttle /\ waiting' > waiting) => waiting' <= atStart + MaxInflight + MaxBatch)
    <2> SUFFICES ASSUME TypeOK, TypeOK', GapExact, [Next]_vars, throttle, waiting' > waiting
                 PROVE  waiting' <= atStart + MaxInflight + MaxBatch
      OBVIOUS
    <2>0. /\ gap \in Int /\ {waiting, waiting', remaining, atStart, lost} \subseteq Nat
          /\ gap = waiting - atStart + lost
          /\ MaxBatch \in Nat /\ MaxInflight \in Nat
      BY BackpressureAssumption DEF TypeOK, GapExact
    <2>1. SendBatch
      <3>1. waiting' # waiting
        BY <2>0
      <3>2. ASSUME Deliver PROVE FALSE
        <4>1. waiting' = waiting - 1
          BY <3>2 DEF Deliver
        <4> QED
          BY <2>0, <4>1
      <3> QED
        BY <3>1, <3>2, Zenon DEF Next, UiThread, TriggerThread, EngineThread, ApplyConfigs, ApplyRest,
           HealthCheck, Reconfig, Reinstall, TakeConfig, RunDone, StopRun, LoseHook, Start
    <2>2. Batch \in Nat /\ Batch <= MaxBatch
      BY <2>0, LeastBounds DEF Batch
    <2>3. gap <= MaxInflight /\ waiting' = waiting + Batch
      BY <2>0, <2>1 DEF SendBatch, Stalled, Overflows
    <2> QED
      BY <2>0, <2>2, <2>3
  <1> QED
    BY <1>1, CountersTyped, GapIsExact, PTL DEF Spec, QueueStaysShort
=============================================================================
