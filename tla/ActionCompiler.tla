---------------------------- MODULE ActionCompiler ----------------------------
(* From the action of a profile to the calls of the scheduler: compileAction()*)
(* (InputAction.cpp), and Engine::applyConfig() with rebuildProgram(), which  *)
(* fits the action into the period and makes of it what a MAX run sends. Times*)
(* are in microseconds, which are whole ticks; a period is a fraction of them.*)
EXTENDS Integers, Sequences, FiniteSets

CONSTANTS Holds, Gaps, Repeats,  \* InputAction: downTimeUs, repeatGapUs, repeat
          Intervals,             \* [num, den]: 1 / cps
          MaxChanges             \* bound: configurations applied

ASSUME CompilerConstants ==
  /\ Holds \subseteq Nat /\ Gaps \subseteq Nat /\ Repeats \subseteq Nat
  /\ Intervals \subseteq [num : Nat \ {0}, den : Nat \ {0}] /\ MaxChanges \in Nat

(* What an action presses, the modifier the key itself is, the modifiers held *)
(* around it, and its numbers.                                                *)
ModNames == {"Ctrl", "Shift", "Alt", "Win"}
ActionsOf(repeats, holds, gaps) ==
  {a \in [kind : {"none", "button", "key", "wheel"}, own : ModNames \cup {"none"},
          mods : SUBSET ModNames, repeat : repeats, hold : holds, gap : gaps] :
     a.own # "none" => a.kind = "key"}
Plain == [kind |-> "button", own |-> "none", mods |-> {}, repeat |-> 1, hold |-> 0, gap |-> 0]

MaxStepInputs == 16

Press(k, t) == [key |-> k, down |-> TRUE, t |-> t]
Lift(k, t)  == [key |-> k, down |-> FALSE, t |-> t]

\* Mutant: a key that is a modifier is pressed like any other around itself.
AroundItself(s, m, a) == IF m \in a.mods THEN Append(s, m) ELSE s

(* appendMods(): the modifiers in their order, without the key's own.         *)
One(s, m, a) == IF m \in a.mods \ {a.own} THEN Append(s, m) ELSE s
ModsOf(a) == One(One(One(One(<<>>, "Ctrl", a), "Shift", a), "Alt", a), "Win", a)

Repeat(a) == CASE a.repeat < 1 -> 1 [] a.repeat > 3 -> 3 [] OTHER -> a.repeat
Main(a)   == IF a.own \in a.mods THEN a.own ELSE "main"

(* A turn of the wheel is one event and has no length.                        *)
Length(a)   == IF a.kind = "wheel" THEN 0 ELSE a.hold
Begin(a, r) == r * (Length(a) + a.gap)
End(a)      == Begin(a, Repeat(a) - 1) + Length(a)

MainEvents(a) ==
  IF a.kind = "wheel" THEN [n \in 1 .. Repeat(a) |-> Press("wheel", Begin(a, n - 1))]
  ELSE [n \in 1 .. 2 * Repeat(a) |->
          IF n % 2 = 1 THEN Press(Main(a), Begin(a, (n - 1) \div 2))
          ELSE Lift(Main(a), Begin(a, (n - 1) \div 2) + a.hold)]

(* The modifiers go down first and come up last, in the reverse order.        *)
Events(a) ==
  LET mods == ModsOf(a)
      m    == Len(mods)
      main == MainEvents(a)
      last == 2 * m + Len(main)
  IN  [n \in 1 .. last |->
         IF n <= m THEN Press(mods[n], 0)
         ELSE IF n <= m + Len(main) THEN main[n - m]
         ELSE Lift(mods[last + 1 - n], End(a))]

(* Events of one moment form one step, which is one call of SendInput().      *)
Group(prg, e) ==
  IF prg = <<>> \/ prg[Len(prg)].offset # e.t \/ Len(prg[Len(prg)].inputs) >= MaxStepInputs
  THEN Append(prg, [offset |-> e.t, inputs |-> <<e>>])
  ELSE [prg EXCEPT ![Len(prg)] = [offset |-> @.offset, inputs |-> Append(@.inputs, e)]]

Grouped(evs) ==
  LET g[n \in 0 .. Len(evs)] == IF n = 0 THEN <<>> ELSE Group(g[n - 1], evs[n])
  IN  g[Len(evs)]

CompileAction(a) == IF a.kind = "none" THEN <<>> ELSE Grouped(Events(a))
Span(prg) == IF prg = <<>> THEN 0 ELSE prg[Len(prg)].offset

(* An action that takes nine tenths of the period or more is shortened to     *)
(* half of it, to whole microseconds.                                         *)
Fitted(a, p) ==
  LET span == Span(CompileAction(a))
  IN  IF 10 * span * p.den >= 9 * p.num /\ span > 0
      THEN [a EXCEPT !.hold = (@ * p.num) \div (2 * span * p.den),
                     !.gap  = (@ * p.num) \div (2 * span * p.den)]
      ELSE a

RebuildProgram(c) == CompileAction(IF c.maxMode THEN c.action ELSE Fitted(c.action, c.period))
RebuildMaxProgram(c) == CompileAction([c.action EXCEPT !.hold = 0, !.gap = 0])
------------------------------------------------------------------------------
VARIABLES
  config,         \* Engine::cfg_: the action, the period, whether it is MAX
  prog, maxProg,  \* Engine::prog_, maxProg_
  changes         \* configurations applied so far

compilervars == <<config, prog, maxProg, changes>>

ConfigsOf(actions) == [action : actions, period : Intervals, maxMode : BOOLEAN]

(* threadMain() compiles the configuration it begins with.                    *)
CompilerInit ==
  /\ config \in ConfigsOf({Plain})
  /\ prog = RebuildProgram(config) /\ maxProg = RebuildMaxProgram(config)
  /\ changes = 0

ApplyConfig ==
  /\ changes < MaxChanges /\ changes' = changes + 1
  /\ config' \in ConfigsOf(ActionsOf(Repeats, Holds, Gaps))
  /\ prog' = RebuildProgram(config') /\ maxProg' = RebuildMaxProgram(config')

CompilerNext == ApplyConfig
CompilerSpec == CompilerInit /\ [][CompilerNext]_compilervars
------------------------------------------------------------------------------
(* What a reader of the profile expects                                       *)

(* The inputs of all steps, one after the other.                              *)
Flat(prg) ==
  LET f[n \in 0 .. Len(prg)] == IF n = 0 THEN <<>> ELSE f[n - 1] \o prg[n].inputs
  IN  f[Len(prg)]

(* The keys whose last event among the first n inputs is a press.             *)
DownAfter(flat, n) ==
  {flat[i].key : i \in {j \in 1 .. n : /\ flat[j].down /\ flat[j].key # "wheel"
                                       /\ \A l \in j + 1 .. n : flat[l].key # flat[j].key}}

IsMain(e, a) == e.key \in {"wheel", Main(a)}

ActionWhole(a, prg) ==
  LET flat == Flat(prg)
  IN  /\ \A n \in DOMAIN flat :
           /\ flat[n].down <=> flat[n].key \notin DownAfter(flat, n - 1)
           /\ IsMain(flat[n], a) /\ flat[n].down
                => DownAfter(flat, n - 1) = a.mods \ {a.own}
      /\ DownAfter(flat, Len(flat)) = {}
      /\ a.kind = "none" <=> flat = <<>>
      /\ flat # <<>> => Cardinality({n \in DOMAIN flat : flat[n].down /\ IsMain(flat[n], a)}) = Repeat(a)

(* A program presses what is up and lifts what is down, leaves nothing down,  *)
(* has all its modifiers around every press and makes as many presses as were *)
(* asked for, whatever was shortened for a timed run or left out for a MAX    *)
(* run (InputAction.cpp compileAction(), Engine.cpp rebuildProgram()).        *)
ProgramsWhole == ActionWhole(config.action, prog) /\ ActionWhole(config.action, maxProg)

(* What happens at one moment is one call of SendInput(), so a MAX run's      *)
(* action is one; and a timed action ends before the next one starts          *)
(* (InputAction.h, Engine.cpp rebuildProgram()).                              *)
OneCallEach(prg) == \A n \in 1 .. Len(prg) - 1 : prg[n].offset < prg[n + 1].offset
ProgramsFit ==
  /\ OneCallEach(prog) /\ Len(maxProg) <= 1
  /\ ~config.maxMode /\ Span(prog) > 0 =>
       10 * Span(prog) * config.period.den < 9 * config.period.num

(* Both, after every configuration (Engine.cpp applyConfig()).                *)
CompiledAsAsked == ProgramsWhole /\ ProgramsFit
==============================================================================
