------------------------------- MODULE Figures -------------------------------
(* The figures of a run (Stats.cpp RunStats): the ring of slots from which    *)
(* the rates are taken, what is collected for a second, and the rate of the   *)
(* whole run. Times are ticks, and the moment a run begins is 0.              *)
EXTENDS Integers

CONSTANTS History,    \* kCpsHistory: slots in the ring
          SlotTicks,  \* 100 ms
          PerSecond,  \* slots in a second
          Pauses,     \* ticks from one call to the next
          Sizes,      \* actions of one call of a MAX run
          MaxCalls    \* bound: calls of the run

ASSUME FiguresConstants ==
  /\ {History, SlotTicks, PerSecond} \subseteq Nat \ {0} /\ 2 * PerSecond - 1 <= History
  /\ Pauses \subseteq Nat /\ Sizes \subseteq Nat \ {0} /\ MaxCalls \in Nat

VARIABLES
  clock,         \* the moment of the last call
  run,           \* RunStats
  calls,         \* calls so far
  actionsUpTo,   \* history: the actions before each moment
  latesUpTo,     \* history: those of them that had a deadline
  space          \* history: the space between all actions so far; 0: there is none yet,
                 \* -1: they are not even

figurevars == <<clock, run, calls, actionsUpTo, latesUpTo, space>>

Capped(a, b) == IF a < b THEN a ELSE b

(* begin(). What is collected for a second is collected and set back with     *)
(* lateSec_, of which only the number is kept here.                           *)
NewRun ==
  [slotEnd |-> SlotTicks, slotCount |-> 0, slots |-> [s \in 0 .. History - 1 |-> 0],
   slotHead |-> 0, slotFilled |-> 0, slotsDone |-> 0,
   lateRun |-> 0, lateSec |-> 0, lateLastSec |-> 0,
   actions |-> 0, firstFire |-> -1, lastFire |-> -1]

(* The figures of the second in progress become those of the last one when    *)
(* its slots are complete.                                                    *)
RollSecond(r) ==
  IF r.slotsDone % PerSecond = 0 THEN [r EXCEPT !.lateLastSec = r.lateSec, !.lateSec = 0] ELSE r

\* Mutant: a slot goes on counting where the one before it ended.
PushSlotCumulative(r) ==
  RollSecond([r EXCEPT !.slots[r.slotHead] = r.slotCount,
                       !.slotHead = (@ + 1) % History,
                       !.slotFilled = Capped(@ + 1, History),
                       !.slotsDone = @ + 1])

PushSlot(r) ==
  RollSecond([r EXCEPT !.slots[r.slotHead] = r.slotCount,
                       !.slotHead = (@ + 1) % History,
                       !.slotFilled = Capped(@ + 1, History),
                       !.slotsDone = @ + 1,
                       !.slotCount = 0])

NextSlot(r) == [PushSlot(r) EXCEPT !.slotEnd = @ + SlotTicks]

Pushed(r, n) ==
  LET p[i \in 0 .. n] == IF i = 0 THEN r ELSE NextSlot(p[i - 1])
  IN  p[n]

(* All slots that ended by now are pushed; after a pause so long that more    *)
(* than the ring would be pushed, the slots begin anew where it ends.         *)
Advance(r, moment) ==
  LET due   == IF moment < r.slotEnd THEN 0 ELSE ((moment - r.slotEnd) \div SlotTicks) + 1
      guard == History + 11
  IN  IF due >= guard THEN [Pushed(r, guard) EXCEPT !.slotEnd = moment + SlotTicks]
      ELSE Pushed(r, due)

(* n actions of one call. An action with a deadline has its lateness          *)
(* collected; the actions of a MAX run have no deadline.                      *)
Counted(r, moment, n, lates) ==
  [Advance(r, moment) EXCEPT
     !.actions = @ + n, !.slotCount = @ + n, !.lateRun = @ + lates, !.lateSec = @ + lates,
     !.lastFire = moment, !.firstFire = IF @ = -1 THEN moment ELSE @]
------------------------------------------------------------------------------
FiguresInit ==
  /\ clock = 0 /\ run = NewRun /\ calls = 0
  /\ actionsUpTo = [x \in 0 .. 0 |-> 0] /\ latesUpTo = [x \in 0 .. 0 |-> 0] /\ space = 0

(* The histories are drawn on to the moment of the call, and the call counts  *)
(* from there.                                                                *)
Remember(moment, n) ==
  /\ clock' = moment
  /\ actionsUpTo' = [x \in 0 .. moment |-> IF x <= clock THEN actionsUpTo[x] ELSE run.actions]
  /\ latesUpTo' = [x \in 0 .. moment |-> IF x <= clock THEN latesUpTo[x] ELSE run.lateRun]
  /\ LET before == moment - run.lastFire
     IN  space' = IF n = 1 /\ run.actions = 0 THEN 0
                  ELSE IF n = 1 /\ before > 0 /\ (run.actions = 1 \/ space = before) THEN before
                  ELSE -1

Call(n, lates) ==
  /\ calls < MaxCalls /\ calls' = calls + 1
  /\ \E d \in Pauses : Remember(clock + d, n) /\ run' = Counted(run, clock + d, n, lates)

OnAction  == Call(1, 1)
OnActions == \E n \in Sizes : Call(n, 0)

FiguresNext == OnAction \/ OnActions
FiguresSpec == FiguresInit /\ [][FiguresNext]_figurevars
------------------------------------------------------------------------------
(* fill()                                                                     *)

(* The last n slots: how many there are of them and their sum; the last       *)
(* second, or the one in progress when nothing happened in it; the rate of    *)
(* the run as a fraction of actions and ticks.                                *)
SlotBack(r, i) == r.slots[(r.slotHead - i + History) % History]
SumLast(r, n) ==
  LET have == Capped(n, r.slotFilled)
      sum[i \in 0 .. have] == IF i = 0 THEN 0 ELSE sum[i - 1] + SlotBack(r, i)
  IN  [have |-> have, sum |-> sum[have]]
LastSecond(r) == IF r.lateLastSec # 0 THEN r.lateLastSec ELSE r.lateSec
AvgCps(r, moment) ==
  IF r.actions >= 2 /\ r.lastFire > r.firstFire
  THEN [num |-> r.actions - 1, den |-> r.lastFire - r.firstFire]
  ELSE [num |-> r.actions, den |-> moment]
------------------------------------------------------------------------------
(* What the figures should say                                                *)

(* The slot in progress began at this moment.                                 *)
Start(r) == r.slotEnd - SlotTicks

(* The rate over the last slots, of any number of them, is that of the        *)
(* actions of their time, as many slots as there have been, and what came     *)
(* later is in the slot in progress; also where the ring wraps and after a    *)
(* pause longer than the ring (Stats.cpp advance(), fill()).                  *)
RatesExact ==
  LET start == Start(run)
  IN  /\ start \in 0 .. clock /\ clock < run.slotEnd
      /\ run.slotCount = run.actions - actionsUpTo[start]
      /\ \A n \in 1 .. History :
           LET last == SumLast(run, n)
           IN  /\ last.have = Capped(n, start \div SlotTicks)
               /\ last.sum = actionsUpTo[start] - actionsUpTo[start - last.have * SlotTicks]

(* The lateness shown for a second is that of the actions of the last second  *)
(* whose slots are complete, or, when it has none, of those since; also after *)
(* a pause longer than the ring (Stats.cpp pushSlot(), fill()).               *)
SecondsExact ==
  LET second == PerSecond * SlotTicks
      end    == Start(run) - (run.slotsDone % PerSecond) * SlotTicks
      last   == IF run.slotsDone < PerSecond THEN 0 ELSE latesUpTo[end] - latesUpTo[end - second]
  IN  LastSecond(run) = IF last # 0 THEN last ELSE run.lateRun - latesUpTo[end]

(* A run of single actions with the same space between them has the rate of   *)
(* that space, however soon it ends (Stats.cpp fill(): dividing the actions   *)
(* by the length of the run would overstate it).                              *)
AverageExact ==
  space > 0 => LET avg == AvgCps(run, clock) IN avg.num > 0 /\ avg.num * space = avg.den

(* All of it, at every moment of a run (Stats.cpp RunStats).                  *)
FiguresRight == RatesExact /\ SecondsExact /\ AverageExact

(* A comment of fill() has the rates "from completed 100 ms slots (+ the      *)
(* partial current slot)": the last second's worth of slots with the actions  *)
(* since.                                                                     *)
RatesWithPartialSlot ==
  LET last == SumLast(run, PerSecond)
  IN  last.have > 0 =>
        last.sum = run.actions - actionsUpTo[Start(run) - last.have * SlotTicks]
==============================================================================
