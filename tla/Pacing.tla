-------------------------------- MODULE Pacing --------------------------------
(* When the actions of a timed run go out: the grid of slots (Modes.h         *)
(* Timeline), the loop that walks along it (Engine.cpp runTimed()) and the    *)
(* wait for a slot (PreciseWaiter.cpp). Time is in ticks and passes between   *)
(* any two reads of the clock. A period is a fraction of ticks.               *)
EXTENDS Integers, FiniteSets

CONSTANTS Periods,       \* [num, den]: the periods a profile may ask for, in ticks
          Margins,       \* how early the waiter may ask to be woken
          MinSleep,      \* the shortest sleep of the waiter
          CatchUpLimit,  \* 250 ms: how far a run may lag behind before it skips
          MaxBatch,      \* kMaxCatchUpBatch
          Budgets, Ends, \* the limits of a run: its actions, its end
          MaxTime,       \* bound: the time a run is watched for
          MaxTurns       \* bound: pauses and changes of the rate

ASSUME PacingConstants ==
  /\ Periods \subseteq [num : Nat \ {0}, den : Nat \ {0}]
  /\ \A p \in Periods : p.den <= p.num   \* no shorter than a tick: at most 1 000 000 a second
  /\ Margins \subseteq Nat /\ {MinSleep, CatchUpLimit, MaxTime, MaxTurns} \subseteq Nat
  /\ MaxBatch \in Nat \ {0} /\ Budgets \subseteq Nat /\ Ends \subseteq Nat

VARIABLES
  now,              \* the clock
  policy, steps,    \* LatePolicy; the calls an action takes, one tick apart
  endQpc, remaining,
  at,               \* the thread: top, aim, wait, sleep, fire, paused, over
  wake,             \* when the timer is due
  t0, period, k,    \* the Timeline
  step, first,
  actions, missed,  \* RunStats
  before,           \* history: slots of the grids left behind
  turns             \* pauses and changes of the rate so far

limits == <<policy, steps, endQpc>>
grid   == <<t0, period, k, before>>
stats  == <<actions, missed>>
vars   == <<now, limits, remaining, at, wake, grid, step, first, stats, turns>>

(* Timeline::slot() rounds to the nearest tick.                               *)
SlotOf(t, p, i) == t + (2 * i * p.num + p.den) \div (2 * p.den)
Slot(i) == SlotOf(t0, period, i)
Fits(p) == steps = 1 \/ p.num >= 2 * p.den   \* rebuildProgram() shortens longer actions

Init ==
  /\ now = 0 /\ policy \in {"Skip", "CatchUp"} /\ steps \in {1, 2}
  /\ endQpc \in Ends /\ remaining \in Budgets
  /\ at = "top" /\ wake = 0
  /\ t0 = 0 /\ period \in {p \in Periods : Fits(p)} /\ k = 0 /\ before = 0
  /\ step = 0 /\ first = TRUE /\ actions = 0 /\ missed = 0 /\ turns = 0

Clock ==
  /\ now < MaxTime /\ now' = now + 1
  /\ UNCHANGED <<limits, remaining, at, wake, grid, step, first, stats, turns>>
------------------------------------------------------------------------------
\* Mutant: one slot is skipped, however late it is.
SkipLateOne(t, p, i) == IF now < SlotOf(t, p, i + 1) THEN i ELSE i + 1

(* Timeline::skipLate(): the index to go on with, for a grid at t with period *)
(* p. The division rounds down, slots round to the nearest: a slot that lies  *)
(* ahead is stepped back from.                                                *)
SkipLate(t, p, i) ==
  IF now < SlotOf(t, p, i + 1) THEN i
  ELSE LET idx == ((now - t) * p.den) \div p.num
       IN  IF idx > i /\ SlotOf(t, p, idx) > now THEN idx - 1 ELSE idx

(* A pass through the top of the loop between two actions: the rate may have  *)
(* changed, which moves the grid to start at the next slot; a run that is     *)
(* late skips, at once or beyond the limit for catching up.                   *)
Boundary ==
  /\ at = "top" /\ step = 0 /\ remaining > 0
  /\ \E p \in {q \in Periods : Fits(q)} :
       LET t    == IF p = period THEN t0 ELSE Slot(k)
           i    == IF p = period THEN k ELSE 0
           late == ~first /\ (policy = "Skip" \/ now - SlotOf(t, p, i) > CatchUpLimit)
           idx  == IF late THEN SkipLate(t, p, i) ELSE i
       IN  /\ turns' = IF p = period THEN turns ELSE turns + 1
           /\ turns' <= MaxTurns
           /\ period' = p /\ t0' = t /\ k' = idx
           /\ before' = before + (k - i)
           /\ missed' = missed + (idx - i)
           /\ at' = IF SlotOf(t, p, idx) >= endQpc THEN "over" ELSE "aim"
  /\ UNCHANGED <<now, limits, remaining, wake, step, first, actions>>

BudgetDone ==
  /\ at = "top" /\ step = 0 /\ remaining = 0 /\ at' = "over"
  /\ UNCHANGED <<now, limits, remaining, wake, grid, step, first, stats, turns>>

(* The gate is closed: the run pauses and starts a new grid when it goes on.  *)
Pause ==
  /\ at = "top" /\ step = 0 /\ remaining > 0 /\ at' = "paused"
  /\ turns < MaxTurns /\ turns' = turns + 1
  /\ UNCHANGED <<now, limits, remaining, wake, grid, step, first, stats>>

Resume ==
  /\ at = "paused" /\ at' = "top"
  /\ t0' = now /\ k' = 0 /\ before' = before + k
  /\ UNCHANGED <<now, limits, remaining, wake, period, step, first, stats, turns>>

(* In the middle of an action only the flag for commands is looked at.        *)
GoOn ==
  /\ at = "top" /\ step > 0 /\ at' = "aim"
  /\ UNCHANGED <<now, limits, remaining, wake, grid, step, first, stats, turns>>

Stop ==
  /\ at \in {"top", "paused"} /\ at' = "over"
  /\ UNCHANGED <<now, limits, remaining, wake, grid, step, first, stats, turns>>
------------------------------------------------------------------------------
Deadline == Slot(k) + step

Aim ==
  /\ at = "aim" /\ at' = IF Deadline > now THEN "wait" ELSE "fire"
  /\ UNCHANGED <<now, limits, remaining, wake, grid, step, first, stats, turns>>

(* PreciseWaiter::waitUntil(): reached,                                       *)
Reached ==
  /\ at = "wait" /\ now >= Deadline /\ at' = "fire"
  /\ UNCHANGED <<now, limits, remaining, wake, grid, step, first, stats, turns>>

(* or asleep until a margin before the deadline, if that is worth it; else it *)
(* spins, which is Clock and Reached.                                         *)
Sleep ==
  /\ at = "wait" /\ now < Deadline
  /\ \E m \in Margins :
       /\ Deadline - now - m >= MinSleep
       /\ wake' = Deadline - m
  /\ at' = "sleep"
  /\ UNCHANGED <<now, limits, remaining, grid, step, first, stats, turns>>

Wake ==
  /\ at = "sleep" /\ now >= wake /\ at' = "wait" /\ wake' = 0
  /\ UNCHANGED <<now, limits, remaining, grid, step, first, stats, turns>>

(* A command, or a snapshot that is due, interrupts the wait.                 *)
Interrupted ==
  /\ at \in {"wait", "sleep"} /\ at' = "top" /\ wake' = 0
  /\ UNCHANGED <<now, limits, remaining, grid, step, first, stats, turns>>

Least(a, b) == IF a < b THEN a ELSE b

\* Mutant: a slot is due with the one before it.
BatchAhead ==
  IF policy = "CatchUp" /\ steps = 1
  THEN 1 + Cardinality({j \in 1 .. Least(MaxBatch, remaining) - 1 :
                          Slot(k + j - 1) <= now /\ Slot(k + j) < endQpc})
  ELSE 1

(* With CatchUp, actions of one call whose slots are already due go together. *)
BatchSize ==
  IF policy = "CatchUp" /\ steps = 1
  THEN 1 + Cardinality({j \in 1 .. Least(MaxBatch, remaining) - 1 :
                          Slot(k + j) <= now /\ Slot(k + j) < endQpc})
  ELSE 1

Fire ==
  /\ at = "fire" /\ at' = "top"
  /\ actions' = IF step = 0 THEN actions + BatchSize ELSE actions
  /\ first' = FALSE
  /\ IF step + 1 = steps
     THEN step' = 0 /\ k' = k + BatchSize /\ remaining' = remaining - BatchSize
     ELSE step' = step + 1 /\ UNCHANGED <<k, remaining>>
  /\ UNCHANGED <<now, limits, wake, t0, period, before, missed, turns>>
------------------------------------------------------------------------------
Next == \/ Clock \/ Boundary \/ BudgetDone \/ Pause \/ Resume \/ GoOn \/ Stop
        \/ Aim \/ Reached \/ Sleep \/ Wake \/ Interrupted \/ Fire
Spec == Init /\ [][Next]_vars
------------------------------------------------------------------------------
InAction == IF step > 0 THEN 1 ELSE 0

(* Every slot of the grid is performed once, not before it falls, or is       *)
(* counted as missed, and no action begins whose slot lies past the end;      *)
(* through late wake-ups, skips, batches, changes of the rate and pauses      *)
(* (Engine.cpp runTimed(), docs/RESEARCH.md "Zero drift").                    *)
OnGrid ==
  /\ actions + missed = before + k + InAction
  /\ k + InAction > 0 => Slot(k + InAction - 1) <= now
  /\ at = "fire" /\ step = 0 => Slot(k + BatchSize - 1) < endQpc

(* No skip goes past the clock, and a run that skips what it is late for goes *)
(* on with a slot whose period, before roundings, is not over yet: neither    *)
(* roundings nor a change of the rate in the same pass of the loop make it    *)
(* skip too much or too little (Modes.h skipLate(), changePeriod()).          *)
SkipsWithinAPeriod ==
  [][/\ missed' > missed => SlotOf(t0', period', k') <= now
     /\ at = "top" /\ at' = "aim" /\ step = 0 /\ policy = "Skip" /\ ~first
          => (now - t0') * period'.den < (k' + 1) * period'.num]_vars

(* Modes.h skipLate(): "jump to the latest slot that is <= now". It is not    *)
(* always the latest: the division knows nothing of the rounding of slots, so *)
(* a slot that is rounded down to this very tick is not seen to have come.    *)
SkipsToLatest ==
  [][at = "top" /\ at' = "aim" /\ step = 0 /\ policy = "Skip" /\ ~first
     => now < SlotOf(t0', period', k' + 1)]_vars
==============================================================================
