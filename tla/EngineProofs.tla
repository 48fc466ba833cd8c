---------------------------- MODULE EngineProofs ----------------------------
(***************************************************************************)
(* Proofs about Engine.tla, for every set of callers, configurations and   *)
(* commands, in three parts. Shape is the inductive invariant of the       *)
(* engine thread's program counter; on it rest the protocol of             *)
(* post()/drain(), the two writers of armed_, the stop flag and the budget *)
(* of a limited run; and that the engine implements AbstractEngine.tla:    *)
(* each step of the engine thread is one abstract action or a stutter, and *)
(* the steps of callers and environment are stutters.                      *)
(***************************************************************************)
EXTENDS Engine, TLAPS

-----------------------------------------------------------------------------
(* What the operators return.                                              *)

LEMMA CmdIsCommand == ASSUME NEW t \in CmdType \ {"SetConfig"} PROVE Cmd(t) \in Command
  BY DEF Cmd, Command, CmdType, RunLimits, NoLimits

LEMMA CommandFields ==
    ASSUME NEW c \in Command
    PROVE  /\ c.type \in CmdType /\ c.flag \in BOOLEAN /\ c.limits \in RunLimits
           /\ c.type = "SetConfig" => c.cfg \in Configs
  BY DEF Command

LEMMA CfgFields ==
    ASSUME NEW c \in Configs
    PROVE  /\ Cfg[c] \in EngineConfig
           /\ Cfg[c].ok \in BOOLEAN /\ Cfg[c].maxMode \in BOOLEAN
           /\ Cfg[c].steps \in Nat \ {0} /\ Cfg[c].maxBatch \in Nat \ {0}
  BY EngineAssumption DEF EngineConfig

\* A press is decided inside the types, and while nothing runs only starts.
LEMMA DownDecision ==
    ASSUME NEW p \in EngineConfig, NEW r \in BOOLEAN
    PROVE  /\ decideOnTriggerDown(p, r).extendBy \in Nat
           /\ decideOnTriggerDown(p, r).limits \in RunLimits
  BY DEF decideOnTriggerDown, Decision, NoDecision, NoLimits, PressLimits, AtLeastOne,
         EngineConfig, RunLimits

\* What a batch of n actions leaves of a run's budget is again a budget.
LEMMA CappedRange ==
    ASSUME NEW n \in Nat \ {0}, remaining \in Nat \cup {Unlimited}, remaining # 0
    PROVE  /\ Capped(n) \in Nat \ {0}
           /\ remaining # Unlimited => Capped(n) <= remaining
  BY DEF Capped, Least, Unlimited

-----------------------------------------------------------------------------
(* The shape of the engine thread: what each location implies.             *)

PausedLoc == {"pause", "pauseCmds", "pauseCheck"}
CommandLoc == {"cmds", "runCmds", "pauseCmds"}

Shape ==
    /\ epc \notin CommandLoc => batch = <<>>
    /\ epc \notin RunLoc => state \in {"Armed", "Disarmed"} /\ pending = NoCfg
    /\ epc \in RunLoc => state \in {"Running", "Paused"}
    /\ epc \in PausedLoc => state = "Paused"
    /\ epc \in RunLoc \ (PausedLoc \cup {"end", "final"}) => state = "Running"
    /\ held => step > 0 /\ state = "Running" /\ epc \in RunLoc \ {"final"}
    /\ epc \in RunLoc => (inMax => step = 0)
    /\ epc \in {"boundary", "max", "maxSend"} \cup PausedLoc => step = 0
    /\ epc \in {"boundary", "wait", "send"} => ~inMax
    /\ epc \in {"max", "maxSend"} => inMax
    \* an action under way, or about to be sent, is paid for and compiles
    /\ epc \in {"wait", "send", "maxSend"} \cup PausedLoc => remaining # 0
    /\ epc \in {"top", "runCmds", "wait", "send"} =>
         (step > 0 \/ epc \in {"wait", "send"} => remaining # 0 /\ Cfg[cfg].ok)

IInv == TypeOK /\ Shape

LEMMA InitIInv == Init => IInv
  <1> SUFFICES ASSUME Init PROVE IInv
    OBVIOUS
  <1>1. Cmd("StopRun") \in Command
    BY CmdIsCommand DEF CmdType
  <1>2. NoLimits \in RunLimits
    BY DEF NoLimits, RunLimits
  <1>3. queue \in Seq(Command) /\ batch \in Seq(Command)
    BY DEF Init
  <1>4. pc \in [Callers -> CallerPc] /\ cmd \in [Callers -> Command]
    BY <1>1 DEF Init, CallerPc
  <1>5. epc \in EngineLoc /\ epc \notin RunLoc /\ state \in EngineState
    BY DEF Init, EngineLoc, RunLoc, EngineState
  <1>6. /\ {flag, event, armed, gate, keyDown, start, quit, stop, timed, inMax} \subseteq BOOLEAN
        /\ {held, expired, expiredInPause} \subseteq BOOLEAN
    BY DEF Init
  <1>7. /\ lim \in RunLimits /\ cfg \in Configs /\ pending \in Configs \cup {NoCfg}
        /\ {posts, step, remaining, granted, actions} \subseteq Nat
        /\ pulse \in {0, 1} /\ lateSends \in 0..2
    BY <1>2 DEF Init
  <1>8. TypeOK
    BY <1>3, <1>4, <1>5, <1>6, <1>7 DEF TypeOK
  <1>9. Shape
    BY DEF Init, Shape, RunLoc, PausedLoc, CommandLoc
  <1> QED BY <1>8, <1>9 DEF IInv

-----------------------------------------------------------------------------
(* The steps of the callers and of the environment.                        *)

LEMMA CallerStep ==
    ASSUME IInv, NEW p \in Callers, (\E c \in Ops[p] : Call(p, c)) \/ Post(p)
    PROVE  IInv'
  <1> USE DEF IInv
  <1>1. Cmd("StopRun") \in Command
    BY CmdIsCommand DEF CmdType
  <1>2. ASSUME NEW c \in Ops[p], Call(p, c) PROVE IInv'
    <2>1. c \in Command
      BY EngineAssumption
    <2>2. keyDown' \in BOOLEAN /\ armed' \in BOOLEAN
      BY <1>2, <2>1, CommandFields DEF Call, HookKey, ArmedBy, TypeOK
    <2>3. posts' \in Nat
      BY <1>2 DEF Call, TypeOK
    <2>4. cmd' \in [Callers -> Command] /\ pc' \in [Callers -> CallerPc]
      BY <1>2, <2>1 DEF Call, TypeOK, CallerPc
    <2>5. TypeOK'
      BY <1>2, <2>2, <2>3, <2>4 DEF Call, callFrame, engineVars, sharedVars, idleVars, runVars, outVars, histVars, TypeOK
    <2>6. Shape'
      BY <1>2 DEF Call, callFrame, engineVars, sharedVars, idleVars, runVars, outVars, histVars, Shape
    <2> QED BY <2>5, <2>6
  <1>3. CASE PostPush(p)
    <2>1. queue' \in Seq(Command)
      BY <1>3 DEF PostPush, TypeOK
    <2>2. TypeOK'
      BY <1>3, <2>1 DEF PostPush, callFrame, engineVars, idleVars, runVars, outVars, histVars, TypeOK, CallerPc
    <2>3. Shape'
      BY <1>3 DEF PostPush, callFrame, engineVars, idleVars, runVars, outVars, histVars, Shape
    <2> QED BY <2>2, <2>3
  <1>4. CASE PostFlag(p)
    BY <1>4 DEF PostFlag, callFrame, engineVars, idleVars, runVars, outVars, histVars, TypeOK, CallerPc, Shape
  <1>5. CASE PostEvent(p)
    BY <1>1, <1>5 DEF PostEvent, callFrame, engineVars, idleVars, runVars, outVars, histVars, TypeOK, CallerPc, Shape
  <1>6. CASE Join(p)
    BY <1>6 DEF Join, sharedVars, callFrame, engineVars, idleVars, runVars, outVars, histVars, TypeOK, CallerPc, Shape
  <1> QED BY <1>2, <1>3, <1>4, <1>5, <1>6 DEF Post

LEMMA EnvironmentStep == ASSUME IInv, GateFlips \/ DeadlinePasses PROVE IInv'
  <1>1. CASE GateFlips
    BY <1>1 DEF IInv, GateFlips, sharedVars, callerVars, engineVars, idleVars, runVars,
         outVars, histVars, TypeOK, Shape
  <1>2. CASE DeadlinePasses
    <2>1. expiredInPause' \in BOOLEAN
      BY <1>2 DEF DeadlinePasses
    <2> QED
      BY <1>2, <2>1 DEF IInv, DeadlinePasses, sharedVars, callerVars, engineVars, idleVars, runVars,
         outVars, TypeOK, Shape
  <1> QED BY <1>1, <1>2

-----------------------------------------------------------------------------
(* The steps of the engine thread.                                         *)

\* A step that moves only the program counter, from a location inside a run
\* whose conditions are at least as strong as those of the one it goes to.
LEMMA JumpStep ==
    ASSUME IInv, UNCHANGED allButEpc, epc \in RunLoc, epc' \in RunLoc,
           Shape', epc \in {"boundary", "max", "maxSend", "wait", "top", "runCmds", "pauseCmds"}
    PROVE  IInv'
  BY DEF IInv, TypeOK, EngineLoc, allButEpc, loopFrame, sharedVars, callerVars, idleVars, runVars,
         outVars, histVars

LEMMA IdleStep ==
    ASSUME IInv, IdleWake \/ IdleDrain \/ IdleNext \/ IdleRest \/ RunStart
    PROVE  IInv'
  <1> USE DEF IInv, sharedVars, callerVars, idleVars, runVars, outVars, histVars
  <1>1. NoLimits \in RunLimits
    BY DEF NoLimits, RunLimits
  <1>2. CASE IdleWake
    <2>1. epc' \in EngineLoc /\ epc' \notin RunLoc /\ event' \in BOOLEAN
      BY <1>2 DEF IdleWake, EngineLoc, RunLoc
    <2>2. TypeOK'
      BY <1>2, <2>1 DEF IdleWake, TypeOK
    <2>3. Shape'
      BY <1>2 DEF IdleWake, Shape, RunLoc, PausedLoc, CommandLoc
    <2> QED BY <2>2, <2>3
  <1>3. CASE IdleDrain
    <2>1. epc' \in EngineLoc /\ epc' \notin RunLoc
      BY <1>3 DEF IdleDrain, EngineLoc, RunLoc
    <2>2. queue' \in Seq(Command) /\ batch' \in Seq(Command)
      BY <1>3 DEF IdleDrain, Drain, TypeOK
    <2>3. start' \in BOOLEAN /\ flag' \in BOOLEAN /\ lim' \in RunLimits
      BY <1>1, <1>3 DEF IdleDrain, Drain
    <2>4. lateSends' \in 0..2
      BY <1>3 DEF IdleDrain
    <2>5. TypeOK'
      BY <1>3, <2>1, <2>2, <2>3, <2>4 DEF IdleDrain, TypeOK
    <2>6. Shape'
      BY <1>3 DEF IdleDrain, Drain, Shape, RunLoc, PausedLoc, CommandLoc
    <2> QED BY <2>5, <2>6
  <1>4. CASE IdleNext
    <2> DEFINE c == Head(batch)
    <2>1. c \in Command /\ batch' \in Seq(Command) /\ epc' = "cmds" /\ epc = "cmds"
      BY <1>4 DEF IdleNext, TypeOK
    <2>2. decideOnTriggerDown(Cfg[cfg], FALSE).limits \in RunLimits
      BY DownDecision, CfgFields DEF TypeOK
    <2> HIDE DEF c
    <2>3. IdleCommand(c)
      BY <1>4 DEF IdleNext, c
    <2>4. /\ cfg' \in Configs /\ armed' \in BOOLEAN /\ lim' \in RunLimits
          /\ start' \in BOOLEAN /\ quit' \in BOOLEAN
      BY <2>1, <2>2, <2>3, CommandFields DEF IdleCommand, ArmedBy, TypeOK
    <2>5. state' \in {"Armed", "Disarmed"} /\ held' = FALSE
      BY <2>1, <2>3 DEF IdleCommand, ReleaseAll, TypeOK, Shape, RunLoc
    <2>6. TypeOK'
      <3>1. epc' \in EngineLoc /\ epc' \notin RunLoc /\ state' \in EngineState /\ held' \in BOOLEAN
        BY <2>1, <2>5 DEF EngineLoc, RunLoc, EngineState
      <3> QED BY <1>4, <2>1, <2>4, <3>1 DEF IdleNext, TypeOK
    <2>7. Shape'
      BY <1>4, <2>1, <2>5 DEF IdleNext, Shape, RunLoc, PausedLoc, CommandLoc
    <2> QED BY <2>6, <2>7
  <1>5. CASE IdleRest
    <2>1. epc' \in EngineLoc /\ epc' \notin RunLoc /\ held' \in BOOLEAN
      BY <1>5 DEF IdleRest, ReleaseAll, EngineLoc, RunLoc, TypeOK
    <2>2. TypeOK'
      BY <1>5, <2>1 DEF IdleRest, TypeOK
    <2>3. Shape'
      BY <1>5 DEF IdleRest, ReleaseAll, Shape, RunLoc, PausedLoc, CommandLoc
    <2> QED BY <2>2, <2>3
  <1>6. CASE RunStart
    <2>1. lim.maxActions \in Nat /\ lim.timed \in BOOLEAN
      BY DEF TypeOK, RunLimits
    <2>2. Cfg[cfg].maxMode \in BOOLEAN /\ 0 < Cfg[cfg].steps
      BY CfgFields DEF TypeOK
    <2>3. TypeOK'
      <3>1. epc' \in EngineLoc /\ state' \in EngineState
        BY <1>6 DEF RunStart, EngineLoc, RunLoc, EngineState
      <3>2. /\ stop' \in BOOLEAN /\ remaining' \in Nat \cup {Unlimited} /\ timed' \in BOOLEAN
            /\ step' \in Nat /\ inMax' \in BOOLEAN /\ granted' \in Nat /\ actions' \in Nat
            /\ start' \in BOOLEAN /\ lim' \in RunLimits
            /\ expired' \in BOOLEAN /\ expiredInPause' \in BOOLEAN
            /\ step' < Cfg[cfg].steps
        BY <1>1, <1>6, <2>1, <2>2 DEF RunStart
      <3> QED BY <1>6, <3>1, <3>2 DEF RunStart, TypeOK
    <2>4. Shape'
      BY <1>6 DEF RunStart, Shape, RunLoc, PausedLoc, CommandLoc
    <2> QED BY <2>3, <2>4
  <1> QED BY <1>2, <1>3, <1>4, <1>5, <1>6

\* Where the flag check falls through to.
LEMMA LoopBodyCases ==
    ASSUME step \in Nat
    PROVE  \/ inMax /\ LoopBody = "max"
           \/ ~inMax /\ step = 0 /\ LoopBody = "boundary"
           \/ ~inMax /\ step > 0 /\ LoopBody = "wait"
  BY DEF LoopBody

LEMMA CommandsStep ==
    ASSUME IInv, RunRelease \/ RunFinish \/ RunNext \/ RunCommandsDone \/ CheckFlag
    PROVE  IInv'
  <1> USE DEF IInv, sharedVars, callerVars, idleVars, runVars, outVars, histVars
  <1>1. CASE RunRelease
    <2>1. epc \in RunLoc /\ epc' \in EngineLoc /\ held' \in BOOLEAN
      BY <1>1 DEF RunRelease, ReleaseAll, EngineLoc, RunLoc
    <2>2. TypeOK'
      BY <1>1, <2>1 DEF RunRelease, TypeOK
    <2>3. Shape'
      BY <1>1 DEF RunRelease, ReleaseAll, Shape, RunLoc, PausedLoc, CommandLoc
    <2> QED BY <2>2, <2>3
  <1>2. CASE RunFinish
    <2>1. epc' \in EngineLoc /\ epc' \notin RunLoc /\ state' \in EngineState
      BY <1>2 DEF RunFinish, FinalState, EngineState, EngineLoc, RunLoc
    <2>2. /\ cfg' \in Configs /\ pending' \in Configs \cup {NoCfg}
          /\ granted' \in Nat /\ actions' \in Nat
          /\ expired' \in BOOLEAN /\ expiredInPause' \in BOOLEAN
      BY <1>2 DEF RunFinish, TypeOK
    <2>3. TypeOK'
      BY <1>2, <2>1, <2>2 DEF RunFinish, TypeOK
    <2>4. Shape'
      BY <1>2 DEF RunFinish, FinalState, Shape, RunLoc, PausedLoc, CommandLoc
    <2> QED BY <2>3, <2>4
  <1>3. CASE RunNext
    <2> DEFINE c == Head(batch)
    <2>1. c \in Command /\ epc' = epc /\ epc \in {"runCmds", "pauseCmds"}
      BY <1>3 DEF RunNext, TypeOK
    <2>2. /\ batch' \in Seq(Command) /\ queue' \in Seq(Command)
          /\ flag' \in BOOLEAN /\ event' \in BOOLEAN
      <3>1. CASE c.type = "Quit"
        <4>1. queue' = Append(queue, c) /\ batch' = <<>> /\ flag' = TRUE /\ event' = TRUE
          BY <1>3, <3>1 DEF RunNext, Repost
        <4>2. queue \in Seq(Command) /\ <<>> \in Seq(Command)
          BY DEF TypeOK
        <4>3. Append(queue, c) \in Seq(Command)
          <5> HIDE DEF c
          <5> QED BY <2>1, <4>2
        <4> QED BY <4>1, <4>2, <4>3
      <3>2. CASE c.type # "Quit"
        BY <1>3, <3>2 DEF RunNext, TypeOK
      <3> QED BY <3>1, <3>2
    <2>3. decideOnTriggerDown(Cfg[cfg], TRUE).extendBy \in Nat
      BY DownDecision, CfgFields DEF TypeOK
    <2> HIDE DEF c
    <2>4. RunCommand(c)
      BY <1>3 DEF RunNext, c
    <2>5. /\ armed' \in BOOLEAN /\ pending' \in Configs \cup {NoCfg} /\ stop' \in BOOLEAN
      BY <2>1, <2>4, CommandFields DEF RunCommand, ArmedBy, TypeOK
    <2>8. /\ remaining' \in Nat \cup {Unlimited} /\ granted' \in Nat
          /\ remaining # 0 => remaining' # 0
      <3> DEFINE more == decideOnTriggerDown(Cfg[cfg], TRUE).extendBy
      <3>1. \/ remaining' = remaining /\ granted' = granted
            \/ remaining' = remaining + more /\ granted' = granted + more /\ remaining # Unlimited
        BY <2>4 DEF RunCommand
      <3>2. remaining \in Nat \cup {Unlimited} /\ granted \in Nat /\ more \in Nat
        BY <2>3 DEF TypeOK
      <3> HIDE DEF more
      <3> QED BY <3>1, <3>2 DEF Unlimited
    <2>6. TypeOK'
      BY <1>3, <2>1, <2>2, <2>5, <2>8 DEF RunNext, TypeOK
    <2>7. Shape'
      BY <1>3, <2>1, <2>5, <2>8 DEF RunNext, Shape, RunLoc, PausedLoc, CommandLoc, TypeOK
    <2> QED BY <2>6, <2>7
  <1>4. CASE RunCommandsDone
    <2> USE DEF allButEpc, loopFrame
    <2>1. \/ epc = "pauseCmds" /\ epc' \in {"end", "pauseCheck"}
          \/ epc = "runCmds" /\ epc' \in {"end", LoopBody}
      BY <1>4 DEF RunCommandsDone, AfterCommands
    <2>2. Shape'
      BY <1>4, <2>1, LoopBodyCases DEF RunCommandsDone, Shape, RunLoc, PausedLoc, CommandLoc, TypeOK
    <2>3. epc \in RunLoc /\ epc' \in RunLoc /\ epc \in {"runCmds", "pauseCmds"}
      BY <2>1, LoopBodyCases DEF RunLoc, TypeOK
    <2> QED BY <1>4, <2>2, <2>3, JumpStep DEF RunCommandsDone
  <1>5. CASE CheckFlag
    <2>1. epc = "top" /\ epc' \in {"runCmds", LoopBody} /\ (epc' # "runCmds" => batch' = batch)
      BY <1>5 DEF CheckFlag, PollCommands
    <2>2. queue' \in Seq(Command) /\ batch' \in Seq(Command)
      <3>1. <<>> \in Seq(Command)
        OBVIOUS
      <3>2. \/ queue' = <<>> /\ batch' = queue
            \/ queue' = queue /\ batch' = batch
        BY <1>5 DEF CheckFlag, PollCommands, Drain
      <3> QED BY <3>1, <3>2 DEF TypeOK
    <2>5. flag' \in BOOLEAN
      BY <1>5 DEF CheckFlag, PollCommands, Drain, TypeOK
    <2>6. lateSends' \in 0..2
      BY <1>5 DEF CheckFlag, PollCommands, TypeOK
    <2>3. TypeOK'
      BY <1>5, <2>1, <2>2, <2>5, <2>6 DEF CheckFlag, LoopBody, TypeOK, EngineLoc, RunLoc
    <2>4. Shape'
      BY <1>5, <2>1, LoopBodyCases DEF CheckFlag, Shape, RunLoc, PausedLoc, CommandLoc, TypeOK
    <2> QED BY <2>3, <2>4
  <1> QED BY <1>1, <1>2, <1>3, <1>4, <1>5

\* A jump that needs nothing but the guards of its action.
LEMMA PlainJumpStep ==
    ASSUME IInv,
           \/ BoundaryDone \/ BoundaryDeadline \/ BoundaryGo \/ WaitReached
           \/ MaxDone \/ MaxGo \/ MaxBackpressure
    PROVE  IInv'
  <1>1. /\ UNCHANGED allButEpc /\ epc' \in RunLoc
        /\ epc \in {"boundary", "max", "maxSend", "wait"}
    BY DEF BoundaryDone, BoundaryDeadline, BoundaryGo, WaitReached, MaxDone, MaxGo,
           MaxBackpressure, RunLoc
  <1>2. Shape'
    <2> USE DEF IInv, Shape, RunLoc, PausedLoc, CommandLoc, allButEpc, loopFrame, runVars, outVars
    <2>1. CASE BoundaryDone \/ BoundaryDeadline \/ MaxDone
      BY <2>1 DEF BoundaryDone, BoundaryDeadline, MaxDone
    <2>2. CASE BoundaryGo
      BY <2>2 DEF BoundaryGo, GoesOn, RanOut
    <2>3. CASE WaitReached
      BY <2>3 DEF WaitReached
    <2>4. CASE MaxGo
      BY <2>4 DEF MaxGo, GoesOn, RanOut
    <2>5. CASE MaxBackpressure
      BY <2>5 DEF MaxBackpressure
    <2> QED BY <2>1, <2>2, <2>3, <2>4, <2>5
  <1> QED BY <1>1, <1>2, JumpStep DEF RunLoc

LEMMA BoundaryStep ==
    ASSUME IInv, BoundaryConfig \/ MaxConfig \/ BoundaryPause \/ MaxPause
    PROVE  IInv'
  <1> USE DEF IInv, loopFrame, sharedVars, callerVars, idleVars, runVars, outVars, histVars
  <1>1. CASE BoundaryConfig \/ MaxConfig
    <2>1. /\ epc \in {"boundary", "max"} /\ epc' \in {"boundary", "top", "max", "end"}
          /\ cfg' \in Configs /\ pending' \in Configs \cup {NoCfg} /\ step = 0 /\ step' = 0
      BY <1>1 DEF BoundaryConfig, MaxConfig, TypeOK, Shape
    <2>2. inMax' \in BOOLEAN
      BY <1>1, CfgFields DEF BoundaryConfig, MaxConfig, TypeOK
    <2>3. 0 < Cfg[cfg'].steps /\ epc' \in EngineLoc
      BY <2>1, CfgFields DEF EngineLoc, RunLoc
    <2>4. TypeOK'
      BY <1>1, <2>1, <2>2, <2>3 DEF BoundaryConfig, MaxConfig, TypeOK
    <2>5. Shape'
      BY <1>1, <2>1 DEF BoundaryConfig, MaxConfig, Shape, RunLoc, PausedLoc, CommandLoc
    <2> QED BY <2>4, <2>5
  <1>2. CASE BoundaryPause \/ MaxPause
    <2>1. /\ epc \in {"boundary", "max"} /\ epc \in RunLoc /\ epc' = "pause"
          /\ epc' \in EngineLoc /\ state' \in EngineState /\ held' \in BOOLEAN
      BY <1>2 DEF BoundaryPause, MaxPause, EnterPause, ReleaseAll, EngineLoc, RunLoc, EngineState
    <2>2. TypeOK'
      BY <1>2, <2>1 DEF BoundaryPause, MaxPause, EnterPause, TypeOK
    <2>3. Shape'
      BY <1>2, <2>1 DEF BoundaryPause, MaxPause, EnterPause, ReleaseAll, GoesOn, RanOut, Shape,
                        RunLoc, PausedLoc, CommandLoc
    <2> QED BY <2>2, <2>3
  <1> QED BY <1>1, <1>2

LEMMA WaitsStep ==
    ASSUME IInv, WaitInterrupted \/ PauseWake \/ PauseCheck
    PROVE  IInv'
  <1> USE DEF IInv, loopFrame, sharedVars, callerVars, idleVars, runVars, outVars, histVars
  <1>1. CASE WaitInterrupted
    <2>1. epc \in RunLoc /\ epc' \in EngineLoc /\ event' \in BOOLEAN
      BY <1>1 DEF WaitInterrupted, EngineLoc, RunLoc, TypeOK
    <2>2. TypeOK'
      BY <1>1, <2>1 DEF WaitInterrupted, TypeOK
    <2>3. Shape'
      BY <1>1 DEF WaitInterrupted, Shape, RunLoc, PausedLoc, CommandLoc
    <2> QED BY <2>2, <2>3
  <1>2. CASE PauseWake
    <2> USE DEF PauseWake, PauseWait, PollCommands
    <2>1. /\ epc = "pause" /\ epc' \in {"pauseCmds", "pauseCheck"}
          /\ epc' # "pauseCmds" => batch' = batch
      BY <1>2
    <2>2. queue' \in Seq(Command) /\ batch' \in Seq(Command)
      <3>1. <<>> \in Seq(Command)
        OBVIOUS
      <3>2. \/ queue' = <<>> /\ batch' = queue
            \/ queue' = queue /\ batch' = batch
        BY <1>2 DEF Drain
      <3> QED BY <3>1, <3>2 DEF TypeOK
    <2>3. flag' \in BOOLEAN /\ event' \in BOOLEAN
      BY <1>2 DEF Drain, TypeOK
    <2>4. lateSends' \in 0..2
      BY <1>2 DEF TypeOK
    <2>5. epc \in RunLoc /\ epc' \in EngineLoc
      BY <2>1 DEF EngineLoc, RunLoc
    <2>6. TypeOK'
      BY <1>2, <2>2, <2>3, <2>4, <2>5 DEF TypeOK
    <2>7. Shape'
      BY <1>2, <2>1 DEF Shape, RunLoc, PausedLoc, CommandLoc
    <2> QED BY <2>6, <2>7
  <1>3. CASE PauseCheck
    <2>1. epc \in RunLoc /\ epc' \in EngineLoc /\ state' \in EngineState
      BY <1>3 DEF PauseCheck, EngineLoc, RunLoc, EngineState, TypeOK
    <2>2. TypeOK'
      BY <1>3, <2>1 DEF PauseCheck, TypeOK
    <2>3. Shape'
      BY <1>3 DEF PauseCheck, Shape, RunLoc, PausedLoc, CommandLoc
    <2> QED BY <2>2, <2>3
  <1> QED BY <1>1, <1>2, <1>3

\* A SendInput call keeps the output's variables in their types.
LEMMA SendTypes ==
    ASSUME TypeOK, NEW n \in Nat, NEW last \in BOOLEAN, Send(n, last)
    PROVE  /\ held' = ~last /\ held' \in BOOLEAN
           /\ pulse' \in {0, 1} /\ lateSends' \in 0..2 /\ actions' \in Nat
  <1>1. held' = ~last /\ held' \in BOOLEAN
    BY DEF Send
  <1>2. pulse' \in {0, 1}
    BY DEF Send, TypeOK
  <1>3. lateSends' \in 0..2
    BY DEF Send, TypeOK
  <1>4. actions' \in Nat
    BY DEF Send, TypeOK
  <1> QED BY <1>1, <1>2, <1>3, <1>4

\* Paying for a batch that was cut to the budget leaves a budget.
LEMMA PayTypes ==
    ASSUME remaining \in Nat \cup {Unlimited}, NEW n \in Nat \ {0},
           remaining # Unlimited => n <= remaining, Pay(n)
    PROVE  remaining' \in Nat \cup {Unlimited}
  BY DEF Pay, Unlimited

LEMMA SendStep == ASSUME IInv, TimedSend \/ MaxSend PROVE IInv'
  <1> USE DEF IInv
  <1>1. CASE TimedSend
    <2> DEFINE last == step + 1 = Cfg[cfg].steps
    <2>1. /\ epc = "send" /\ epc' = "top" /\ remaining # 0 /\ Cfg[cfg].ok /\ ~inMax
          /\ remaining \in Nat \cup {Unlimited} /\ step \in Nat /\ last \in BOOLEAN
          /\ cfg \in Configs /\ epc \in RunLoc
      BY <1>1 DEF TimedSend, Shape, TypeOK, RunLoc, PausedLoc
    <2>2. Cfg[cfg].steps \in Nat \ {0} /\ step < Cfg[cfg].steps
      BY <2>1, CfgFields DEF TypeOK
    <2>3. PICK n \in TimedBatches :
            /\ Send(IF step = 0 THEN n ELSE 0, last)
            /\ step' = IF last THEN 0 ELSE step + 1
            /\ IF last THEN Pay(n) ELSE UNCHANGED remaining
      BY <1>1 DEF TimedSend
    <2>4. n \in Nat \ {0} /\ (remaining # Unlimited => n <= remaining)
      <3>1. Capped(CatchUpMax) \in Nat \ {0} /\ (remaining # Unlimited => Capped(CatchUpMax) <= remaining)
        BY <2>1, CappedRange, EngineAssumption
      <3>2. n \in 1..Capped(CatchUpMax) \/ n = 1
        BY <2>3 DEF TimedBatches
      <3> QED BY <2>1, <3>1, <3>2 DEF Unlimited
    <2>5. /\ held' = ~last /\ held' \in BOOLEAN
          /\ pulse' \in {0, 1} /\ lateSends' \in 0..2 /\ actions' \in Nat
      BY <2>1, <2>3, <2>4, SendTypes
    <2>6. /\ remaining' \in Nat \cup {Unlimited}
          /\ ~last => remaining' = remaining
      BY <2>1, <2>3, <2>4, PayTypes
    <2>7. /\ step' \in Nat /\ step' < Cfg[cfg].steps
          /\ last => step' = 0
          /\ ~last => step' > 0
      BY <2>1, <2>2, <2>3
    <2> HIDE DEF last
    <2>8. epc' \in EngineLoc /\ epc' \in RunLoc
      BY <2>1 DEF EngineLoc, RunLoc
    <2> USE DEF sharedVars, callerVars, idleVars
    <2>9. TypeOK'
      BY <1>1, <2>1, <2>5, <2>6, <2>7, <2>8 DEF TimedSend, TypeOK
    <2>10. Shape'
      <3>1. held' => step' > 0
        BY <2>5, <2>7
      <3>2. step' > 0 => remaining' # 0
        BY <2>1, <2>6, <2>7
      <3>3. UNCHANGED <<batch, state, inMax, pending, cfg>> /\ state = "Running" /\ batch = <<>>
        BY <1>1, <2>1 DEF TimedSend, Shape, RunLoc, PausedLoc, CommandLoc
      <3> QED BY <2>1, <2>5, <3>1, <3>2, <3>3 DEF Shape, RunLoc, PausedLoc, CommandLoc
    <2> QED BY <2>9, <2>10
  <1>2. CASE MaxSend
    <2> DEFINE n == Capped(Cfg[cfg].maxBatch)
    <2>1. /\ epc = "maxSend" /\ epc' = "top" /\ remaining # 0 /\ inMax /\ step = 0
          /\ remaining \in Nat \cup {Unlimited} /\ cfg \in Configs /\ epc \in RunLoc
      BY <1>2 DEF MaxSend, Shape, TypeOK, RunLoc
    <2>2. n \in Nat \ {0} /\ (remaining # Unlimited => n <= remaining)
      BY <2>1, CfgFields, CappedRange
    <2>3. Send(n, TRUE) /\ Pay(n)
      BY <1>2 DEF MaxSend
    <2> HIDE DEF n
    <2>4. /\ held' = FALSE /\ held' \in BOOLEAN
          /\ pulse' \in {0, 1} /\ lateSends' \in 0..2 /\ actions' \in Nat
      BY <2>2, <2>3, SendTypes
    <2>5. remaining' \in Nat \cup {Unlimited}
      BY <2>1, <2>2, <2>3, PayTypes
    <2>6. epc' \in EngineLoc /\ epc' \in RunLoc
      BY <2>1 DEF EngineLoc, RunLoc
    <2> USE DEF sharedVars, callerVars, idleVars
    <2>7. TypeOK'
      BY <1>2, <2>1, <2>4, <2>5, <2>6 DEF MaxSend, TypeOK
    <2>8. Shape'
      BY <1>2, <2>1, <2>4 DEF MaxSend, Shape, RunLoc, PausedLoc, CommandLoc
    <2> QED BY <2>7, <2>8
  <1> QED BY <1>1, <1>2

LEMMA StutterStep == ASSUME IInv, UNCHANGED vars PROVE IInv'
  BY DEF IInv, TypeOK, Shape, vars, sharedVars, callerVars, idleVars, runVars, outVars, histVars

LEMMA EngineKeepsIInv == ASSUME IInv, EngineStep PROVE IInv'
  BY IdleStep, CommandsStep, PlainJumpStep, BoundaryStep, WaitsStep, SendStep DEF EngineStep

LEMMA NextIInv == IInv /\ [Next]_vars => IInv'
  BY CallerStep, EnvironmentStep, EngineKeepsIInv, StutterStep DEF Next

LEMMA IInvHolds == Spec => []IInv
  BY InitIInv, NextIInv, PTL DEF Spec

-----------------------------------------------------------------------------
(* What follows from IInv alone.                                           *)

\* Every variable keeps its type, and a run is never more than `steps` calls
\* into an action, for every set of callers, commands and configurations.
THEOREM TypeCorrect == Spec => []TypeOK
  BY IInvHolds, PTL DEF IInv

\* Nothing is held down unless the engine shows Running and is inside a run:
\* the releaseAll() calls of doRun(), pauseUntilGate() and threadMain() cover
\* every way out of an action.
THEOREM Released == Spec => []ReleasedUnlessRunning
  <1>1. IInv => ReleasedUnlessRunning
    BY DEF IInv, Shape, ReleasedUnlessRunning, InRun
  <1> QED BY <1>1, IInvHolds, PTL

\* A configuration is put into force only between two actions: pendingCfg_
\* waits for the boundary, whichever of the four places applies it.
THEOREM WholeActions == Spec => ConfigWholeActions
  <1>1. IInv /\ [Next]_vars => [cfg' # cfg => ~held]_vars
    <2> SUFFICES ASSUME IInv, Next, cfg' # cfg PROVE ~held
      OBVIOUS
    <2>1. CASE epc \in {"cmds", "final", "boundary", "max"}
      BY <2>1 DEF IInv, Shape, RunLoc
    <2>2. CASE epc \notin {"cmds", "final", "boundary", "max"}
      <3> USE DEF loopFrame, allButEpc, vars, sharedVars, callerVars, idleVars, runVars, outVars,
                  histVars, engineVars, callFrame
      <3>1. ASSUME NEW p \in Callers, (\E c \in Ops[p] : Call(p, c)) \/ Post(p) PROVE cfg' = cfg
        BY <3>1 DEF Call, Post, PostPush, PostFlag, PostEvent, Join
      <3>2. ASSUME GateFlips \/ DeadlinePasses PROVE cfg' = cfg
        BY <3>2 DEF GateFlips, DeadlinePasses
      <3>3. ASSUME EngineStep PROVE cfg' = cfg
        BY <2>2, <3>3 DEF EngineStep, IdleWake, IdleDrain, IdleNext, IdleRest, RunStart, RunRelease,
           RunFinish, RunNext, RunCommandsDone, CheckFlag, BoundaryConfig, BoundaryDone,
           BoundaryPause, BoundaryDeadline, BoundaryGo, WaitReached, WaitInterrupted, TimedSend,
           MaxConfig, MaxDone, MaxPause, MaxGo, MaxBackpressure, MaxSend, PauseWake, PauseWait,
           PauseCheck, EnterPause
      <3> QED BY <3>1, <3>2, <3>3 DEF Next
    <2> QED BY <2>1, <2>2
  <1> QED BY <1>1, IInvHolds, PTL DEF Spec, ConfigWholeActions

-----------------------------------------------------------------------------
(* The wake-up protocol.                                                   *)

\* A command in the queue has the flag set or its poster about to set it, and
\* a set flag has the event set or its setter about to, except where the
\* engine thread is about to read the flag anyway.
WakeInv ==
    /\ queue # <<>> => flag \/ \E p \in Callers : pc[p] = "flag"
    /\ flag /\ epc \notin {"top", "drain"} => event \/ \E p \in Callers : pc[p] = "event"

\* A step that leaves the protocol's variables alone and does not leave a
\* place where the flag is about to be read.
LEMMA QuietStep ==
    ASSUME WakeInv, UNCHANGED <<queue, flag, event, pc>>,
           epc' = epc \/ epc \notin {"top", "drain"}
    PROVE  WakeInv'
  BY DEF WakeInv

LEMMA NextWakeInv == IInv /\ WakeInv /\ [Next]_vars => WakeInv'
  <1> SUFFICES ASSUME IInv, WakeInv, [Next]_vars PROVE WakeInv'
    OBVIOUS
  <1> USE DEF loopFrame, allButEpc, vars, sharedVars, callerVars, idleVars, runVars, outVars,
              histVars, engineVars, callFrame
  <1>1. ASSUME NEW p \in Callers, (\E c \in Ops[p] : Call(p, c)) \/ Post(p) PROVE WakeInv'
    <2>1. pc \in [Callers -> CallerPc]
      BY DEF IInv, TypeOK
    <2>2. CASE \E c \in Ops[p] : Call(p, c)
      BY <2>1, <2>2 DEF Call, WakeInv
    <2>3. CASE PostPush(p)
      BY <2>1, <2>3 DEF PostPush, WakeInv
    <2>4. CASE PostFlag(p)
      BY <2>1, <2>4 DEF PostFlag, WakeInv
    <2>5. CASE PostEvent(p)
      BY <2>1, <2>5 DEF PostEvent, WakeInv
    <2>6. CASE Join(p)
      BY <2>1, <2>6 DEF Join, WakeInv
    <2> QED BY <1>1, <2>2, <2>3, <2>4, <2>5, <2>6 DEF Post
  <1>2. CASE GateFlips \/ DeadlinePasses \/ UNCHANGED vars
    BY <1>2, QuietStep DEF GateFlips, DeadlinePasses
  <1>3. CASE IdleWake
    BY <1>3 DEF IdleWake, WakeInv
  <1>4. CASE IdleDrain
    BY <1>4 DEF IdleDrain, Drain, WakeInv
  <1>5. CASE IdleNext \/ IdleRest \/ RunStart \/ RunRelease \/ RunFinish \/ RunCommandsDone
    BY <1>5, QuietStep DEF IdleNext, IdleRest, RunStart, RunRelease, RunFinish, RunCommandsDone
  <1>6. CASE RunNext
    <2>1. CASE Head(batch).type = "Quit"
      BY <1>6, <2>1 DEF RunNext, Repost, WakeInv
    <2>2. CASE Head(batch).type # "Quit"
      BY <1>6, <2>2, QuietStep DEF RunNext
    <2> QED BY <2>1, <2>2
  <1>7. CASE CheckFlag \/ PauseWake
    <2>1. flag' = FALSE /\ pc' = pc /\ (queue' = <<>> \/ (queue' = queue /\ ~flag))
      BY <1>7 DEF CheckFlag, PauseWake, PauseWait, PollCommands, FlagSeen, Drain, IInv, TypeOK
    <2> QED BY <2>1 DEF WakeInv
  <1>8. CASE WaitInterrupted
    BY <1>8 DEF WaitInterrupted, WakeInv
  <1>9. CASE BoundaryConfig \/ BoundaryDone \/ BoundaryPause \/ BoundaryDeadline \/ BoundaryGo
    BY <1>9, QuietStep DEF BoundaryConfig, BoundaryDone, BoundaryPause, BoundaryDeadline,
                           BoundaryGo, EnterPause
  <1>10. CASE WaitReached \/ TimedSend \/ PauseCheck
    BY <1>10, QuietStep DEF WaitReached, TimedSend, PauseCheck
  <1>11. CASE MaxConfig \/ MaxDone \/ MaxPause \/ MaxGo \/ MaxBackpressure \/ MaxSend
    BY <1>11, QuietStep DEF MaxConfig, MaxDone, MaxPause, MaxGo, MaxBackpressure, MaxSend, EnterPause
  <1> QED BY <1>1, <1>2, <1>3, <1>4, <1>5, <1>6, <1>7, <1>8, <1>9, <1>10, <1>11 DEF Next, EngineStep

LEMMA WakeInvHolds == Spec => []WakeInv
  <1>1. Init => WakeInv
    BY DEF Init, WakeInv
  <1> QED BY <1>1, NextWakeInv, IInvHolds, PTL DEF Spec

\* No command is lost: while a command waits in the queue, the engine thread's
\* wake-up (idle) or the flag its loop polls (running) is set or on its way.
THEOREM NothingLost == Spec => []NoLostCommand
  <1>1. WakeInv => NoLostCommand
    BY DEF WakeInv, NoLostCommand, InRun, RunLoc
  <1> QED BY <1>1, WakeInvHolds, PTL

-----------------------------------------------------------------------------
(* armed_ and the state shown.                                             *)

ArmOrder(c) == c.type \in {"Arm", "Emergency"}

\* An order to arm or disarm has been stored to armed_ and not yet been handled.
ArmUnderWay ==
    \/ \E p \in Callers : pc[p] = "push" /\ ArmOrder(cmd[p])
    \/ \E i \in DOMAIN queue : ArmOrder(queue[i])
    \/ \E i \in DOMAIN batch : ArmOrder(batch[i])

ArmInv == epc \notin RunLoc => state = FinalState \/ ArmUnderWay

LEMMA QuietArmStep ==
    ASSUME ArmInv, UNCHANGED <<queue, batch, pc, cmd, armed>>,
           epc' \notin RunLoc => epc \notin RunLoc /\ state' = state
    PROVE  ArmInv'
  BY DEF ArmInv, ArmUnderWay, FinalState

LEMMA CallerArmStep ==
    ASSUME IInv, ArmInv, NEW p \in Callers, (\E c \in Ops[p] : Call(p, c)) \/ Post(p)
    PROVE  ArmInv'
  <1> USE DEF callFrame, engineVars, sharedVars, idleVars
  <1>0. /\ pc \in [Callers -> CallerPc] /\ cmd \in [Callers -> Command]
        /\ queue \in Seq(Command) /\ batch \in Seq(Command)
    BY DEF IInv, TypeOK
  <1>1. ASSUME NEW c \in Ops[p], Call(p, c) PROVE ArmInv'
    <2>1. pc' = [pc EXCEPT ![p] = "push"] /\ cmd' = [cmd EXCEPT ![p] = c] /\ pc[p] = "ready"
      BY <1>1 DEF Call
    <2>2. UNCHANGED <<queue, batch, epc, state>>
      BY <1>1 DEF Call
    <2>3. CASE ArmOrder(c)
      BY <1>0, <2>1, <2>3 DEF ArmInv, ArmUnderWay
    <2>4. CASE ~ArmOrder(c)
      <3>1. armed' = armed
        BY <1>1, <2>4 DEF Call, ArmedBy, ArmOrder, IInv, TypeOK
      <3>2. ArmUnderWay => ArmUnderWay'
        BY <1>0, <2>1, <2>2 DEF ArmUnderWay
      <3> QED BY <2>2, <3>1, <3>2 DEF ArmInv, FinalState
    <2> QED BY <2>3, <2>4
  <1>2. CASE PostPush(p)
    <2>1. /\ queue' = Append(queue, cmd[p]) /\ pc' = [pc EXCEPT ![p] = "flag"]
          /\ UNCHANGED <<cmd, batch, epc, state, armed>>
      BY <1>2 DEF PostPush
    <2>2. queue'[Len(queue) + 1] = cmd[p] /\ Len(queue) + 1 \in DOMAIN queue'
      BY <1>0, <2>1
    <2>3. \A i \in DOMAIN queue : i \in DOMAIN queue' /\ queue'[i] = queue[i]
      BY <1>0, <2>1
    <2>4. ASSUME ArmUnderWay PROVE ArmUnderWay'
      <3>1. CASE pc[p] = "push" /\ ArmOrder(cmd[p])
        BY <2>2, <3>1 DEF ArmUnderWay
      <3>2. CASE \E q \in Callers \ {p} : pc[q] = "push" /\ ArmOrder(cmd[q])
        BY <1>0, <2>1, <3>2 DEF ArmUnderWay
      <3>3. CASE \E i \in DOMAIN queue : ArmOrder(queue[i])
        BY <2>3, <3>3 DEF ArmUnderWay
      <3>4. CASE \E i \in DOMAIN batch : ArmOrder(batch[i])
        BY <2>1, <3>4 DEF ArmUnderWay
      <3> QED BY <2>4, <3>1, <3>2, <3>3, <3>4 DEF ArmUnderWay
    <2> QED BY <2>1, <2>4 DEF ArmInv, FinalState
  <1>3. CASE PostFlag(p) \/ PostEvent(p) \/ Join(p)
    <2>1. UNCHANGED <<queue, batch, epc, state, armed>>
      BY <1>3 DEF PostFlag, PostEvent, Join
    <2>2. \A q \in Callers : pc[q] = "push" => pc'[q] = "push" /\ cmd'[q] = cmd[q]
      BY <1>0, <1>3 DEF PostFlag, PostEvent, Join
    <2> QED BY <2>1, <2>2 DEF ArmInv, ArmUnderWay, FinalState
  <1> QED BY <1>1, <1>2, <1>3 DEF Post

\* A command handled by the idle loop either brings the state in line with
\* armed_ or leaves the rest of the batch to do it.
LEMMA IdleArmStep == ASSUME IInv, ArmInv, IdleNext PROVE ArmInv'
  <1>1. /\ batch \in Seq(Command) /\ batch # <<>> /\ batch' = Tail(batch)
        /\ epc = "cmds" /\ epc' = epc /\ epc \notin RunLoc
        /\ UNCHANGED <<queue, pc, cmd>> /\ IdleCommand(Head(batch))
    BY DEF IdleNext, IInv, TypeOK, RunLoc, sharedVars, callerVars
  <1>2. Head(batch) = batch[1] /\ Head(batch) \in Command
    BY <1>1
  <1>3. CASE ArmOrder(Head(batch))
    <2>1. state' = FinalState'
      BY <1>1, <1>2, <1>3, CommandFields DEF IdleCommand, ArmedBy, ArmOrder, FinalState
    <2> QED BY <2>1 DEF ArmInv
  <1>4. CASE ~ArmOrder(Head(batch))
    <2>1. armed' = armed /\ state' = state
      BY <1>1, <1>4 DEF IdleCommand, ArmedBy, ArmOrder, IInv, TypeOK
    <2>2. \A i \in DOMAIN batch : i # 1 => i - 1 \in DOMAIN batch' /\ batch'[i - 1] = batch[i]
      BY <1>1
    <2>3. (\E i \in DOMAIN batch : ArmOrder(batch[i])) => \E i \in DOMAIN batch' : ArmOrder(batch'[i])
      BY <1>2, <1>4, <2>2
    <2> QED BY <1>1, <2>1, <2>3 DEF ArmInv, ArmUnderWay, FinalState
  <1> QED BY <1>3, <1>4

LEMMA NextArmInv == IInv /\ ArmInv /\ [Next]_vars => ArmInv'
  <1> SUFFICES ASSUME IInv, ArmInv, [Next]_vars PROVE ArmInv'
    OBVIOUS
  <1> USE DEF loopFrame, allButEpc, vars, sharedVars, callerVars, idleVars, runVars, outVars,
              histVars, engineVars, callFrame
  <1>1. ASSUME NEW p \in Callers, (\E c \in Ops[p] : Call(p, c)) \/ Post(p) PROVE ArmInv'
    BY <1>1, CallerArmStep
  <1>2. CASE GateFlips \/ DeadlinePasses \/ UNCHANGED vars
    BY <1>2, QuietArmStep DEF GateFlips, DeadlinePasses
  <1>3. CASE IdleWake \/ IdleRest
    BY <1>3, QuietArmStep DEF IdleWake, IdleRest, RunLoc
  <1>4. CASE IdleDrain
    BY <1>4 DEF IdleDrain, Drain, ArmInv, ArmUnderWay, FinalState, RunLoc, IInv, Shape, CommandLoc
  <1>5. CASE IdleNext
    BY <1>5, IdleArmStep
  <1>6. CASE RunFinish
    BY <1>6 DEF RunFinish, ArmInv, FinalState
  <1>7. CASE epc' \in RunLoc
    BY <1>7 DEF ArmInv
  <1>8. CASE EngineStep /\ ~(IdleWake \/ IdleRest \/ IdleDrain \/ IdleNext \/ RunFinish)
    <2>1. epc' \in RunLoc
      <3>1. CASE RunStart \/ RunRelease \/ RunNext \/ RunCommandsDone \/ CheckFlag
        BY <3>1 DEF RunStart, RunRelease, RunNext, RunCommandsDone, AfterCommands, LoopBody,
                    CheckFlag, PollCommands, RunLoc
      <3>2. CASE BoundaryConfig \/ BoundaryDone \/ BoundaryPause \/ BoundaryDeadline \/ BoundaryGo
        BY <3>2 DEF BoundaryConfig, BoundaryDone, BoundaryPause, BoundaryDeadline, BoundaryGo,
                    EnterPause, RunLoc
      <3>3. CASE WaitReached \/ WaitInterrupted \/ TimedSend \/ PauseWake \/ PauseCheck
        BY <3>3 DEF WaitReached, WaitInterrupted, TimedSend, PauseWake, PauseWait, PollCommands,
                    PauseCheck, RunLoc
      <3>4. CASE MaxConfig \/ MaxDone \/ MaxPause \/ MaxGo \/ MaxBackpressure \/ MaxSend
        BY <3>4 DEF MaxConfig, MaxDone, MaxPause, MaxGo, MaxBackpressure, MaxSend, EnterPause, RunLoc
      <3> QED BY <1>8, <3>1, <3>2, <3>3, <3>4 DEF EngineStep
    <2> QED BY <1>7, <2>1
  <1> QED BY <1>1, <1>2, <1>3, <1>4, <1>5, <1>6, <1>8 DEF Next

LEMMA ArmInvHolds == Spec => []ArmInv
  <1>1. Init => ArmInv
    BY DEF Init, ArmInv, FinalState
  <1> QED BY <1>1, NextArmInv, IInvHolds, PTL DEF Spec

\* Two threads store armed_ and a third shows the state; once every order has
\* been handled, an idle engine shows what armed_ says.
THEOREM StateFollowsArmed == Spec => []ArmedMatchesState
  <1>1. IInv /\ ArmInv => ArmedMatchesState
    BY DEF IInv, Shape, ArmInv, ArmUnderWay, ArmedMatchesState, FinalState, RunLoc, CommandLoc
  <1> QED BY <1>1, IInvHolds, ArmInvHolds, PTL

-----------------------------------------------------------------------------
(* The stop flag.                                                          *)

\* Inside a run, run_.stop is only ever seen set by the code that acts on it.
StopInv == epc \in RunLoc \ {"runCmds", "pauseCmds", "end", "final"} => ~stop

LEMMA NextStopInv == StopInv /\ [Next]_vars => StopInv'
  <1> SUFFICES ASSUME StopInv, [Next]_vars PROVE StopInv'
    OBVIOUS
  <1> USE DEF loopFrame, allButEpc, vars, sharedVars, callerVars, idleVars, runVars, outVars,
              histVars, engineVars, callFrame
  <1>1. ASSUME NEW p \in Callers, (\E c \in Ops[p] : Call(p, c)) \/ Post(p) PROVE StopInv'
    BY <1>1 DEF Call, Post, PostPush, PostFlag, PostEvent, Join, StopInv
  <1>2. CASE GateFlips \/ DeadlinePasses \/ UNCHANGED vars
    BY <1>2 DEF GateFlips, DeadlinePasses, StopInv
  <1>3. CASE IdleWake \/ IdleDrain \/ IdleNext \/ IdleRest \/ RunStart \/ RunRelease \/ RunFinish
    BY <1>3 DEF IdleWake, IdleDrain, IdleNext, IdleRest, RunStart, RunRelease, RunFinish, StopInv,
                RunLoc
  <1>4. CASE RunNext
    BY <1>4 DEF RunNext, StopInv
  <1>5. CASE RunCommandsDone
    BY <1>5 DEF RunCommandsDone, AfterCommands, StopInv
  <1>6. CASE CheckFlag \/ WaitInterrupted \/ PauseWake \/ PauseCheck
    BY <1>6 DEF CheckFlag, PauseWake, PauseWait, PollCommands, WaitInterrupted, PauseCheck, StopInv,
                RunLoc
  <1>7. CASE BoundaryConfig \/ BoundaryDone \/ BoundaryPause \/ BoundaryDeadline \/ BoundaryGo
    BY <1>7 DEF BoundaryConfig, BoundaryDone, BoundaryPause, BoundaryDeadline, BoundaryGo,
                EnterPause, StopInv, RunLoc
  <1>8. CASE WaitReached \/ TimedSend
    BY <1>8 DEF WaitReached, TimedSend, StopInv, RunLoc
  <1>9. CASE MaxConfig \/ MaxDone \/ MaxPause \/ MaxGo \/ MaxBackpressure \/ MaxSend
    BY <1>9 DEF MaxConfig, MaxDone, MaxPause, MaxGo, MaxBackpressure, MaxSend, EnterPause, StopInv,
                RunLoc
  <1> QED BY <1>1, <1>2, <1>3, <1>4, <1>5, <1>6, <1>7, <1>8, <1>9 DEF Next, EngineStep

LEMMA StopInvHolds == Spec => []StopInv
  <1>1. Init => StopInv
    BY DEF Init, StopInv
  <1> QED BY <1>1, NextStopInv, PTL DEF Spec

\* The two steps that call SendInput.
LEMMA PulseChanges ==
    ASSUME [Next]_vars, pulse' # pulse PROVE TimedSend \/ MaxSend
  <1> USE DEF loopFrame, allButEpc, vars, sharedVars, callerVars, idleVars, runVars, outVars,
              histVars, engineVars, callFrame
  <1>1. ASSUME NEW p \in Callers, (\E c \in Ops[p] : Call(p, c)) \/ Post(p) PROVE FALSE
    BY <1>1 DEF Call, Post, PostPush, PostFlag, PostEvent, Join
  <1>2. CASE EngineStep
    BY <1>2 DEF EngineStep, IdleWake, IdleDrain, IdleNext, IdleRest, RunStart, RunRelease, RunFinish,
       RunNext, RunCommandsDone, CheckFlag, BoundaryConfig, BoundaryDone, BoundaryPause,
       BoundaryDeadline, BoundaryGo, WaitReached, WaitInterrupted, MaxConfig, MaxDone, MaxPause,
       MaxGo, MaxBackpressure, PauseWake, PauseWait, PauseCheck, EnterPause
  <1> QED BY <1>1, <1>2 DEF Next, GateFlips, DeadlinePasses

\* A run that has been told to stop makes no further SendInput call, from
\* whichever of the run loop and the pause loop it learnt it.
THEOREM StoppedIsSilent == Spec => NoSendOnceStopped
  <1>1. StopInv /\ [Next]_vars => [pulse' # pulse => ~stop]_vars
    BY PulseChanges DEF StopInv, TimedSend, MaxSend, RunLoc
  <1> QED BY <1>1, StopInvHolds, PTL DEF Spec, NoSendOnceStopped

-----------------------------------------------------------------------------
(* Promptness.                                                             *)

\* A SendInput call made while a stop order was visible leaves the engine
\* thread at its flag check, with the flag still set.
LateInv == lateSends = 0 \/ (lateSends = 1 /\ flag /\ epc = "top")

LEMMA NextLateInv == LateInv /\ [Next]_vars => LateInv'
  <1> SUFFICES ASSUME LateInv, [Next]_vars PROVE LateInv'
    OBVIOUS
  <1> USE DEF loopFrame, allButEpc, vars, sharedVars, callerVars, idleVars, runVars, outVars,
              histVars, engineVars, callFrame
  <1>1. ASSUME NEW p \in Callers, (\E c \in Ops[p] : Call(p, c)) \/ Post(p) PROVE LateInv'
    BY <1>1 DEF Call, Post, PostPush, PostFlag, PostEvent, Join, LateInv
  <1>2. CASE GateFlips \/ DeadlinePasses \/ UNCHANGED vars
    BY <1>2 DEF GateFlips, DeadlinePasses, LateInv
  <1>3. CASE IdleWake \/ IdleDrain \/ IdleNext \/ IdleRest \/ RunStart \/ RunRelease \/ RunFinish
    BY <1>3 DEF IdleWake, IdleDrain, IdleNext, IdleRest, RunStart, RunRelease, RunFinish, LateInv
  <1>4. CASE RunNext \/ RunCommandsDone
    BY <1>4 DEF RunNext, RunCommandsDone, LateInv
  <1>5. CASE CheckFlag
    BY <1>5 DEF CheckFlag, PollCommands, FlagSeen, LateInv
  <1>6. CASE WaitInterrupted \/ PauseWake \/ PauseCheck
    BY <1>6 DEF WaitInterrupted, PauseWake, PauseWait, PollCommands, PauseCheck, LateInv
  <1>7. CASE BoundaryConfig \/ BoundaryDone \/ BoundaryPause \/ BoundaryDeadline \/ BoundaryGo
             \/ WaitReached
    BY <1>7 DEF BoundaryConfig, BoundaryDone, BoundaryPause, BoundaryDeadline, BoundaryGo,
                EnterPause, WaitReached, LateInv
  <1>8. CASE MaxConfig \/ MaxDone \/ MaxPause \/ MaxGo \/ MaxBackpressure
    BY <1>8 DEF MaxConfig, MaxDone, MaxPause, MaxGo, MaxBackpressure, EnterPause, LateInv
  <1>9. CASE TimedSend \/ MaxSend
    <2>1. /\ epc \in {"send", "maxSend"} /\ epc' = "top" /\ flag' = flag
          /\ lateSends' = IF StopOrdered /\ lateSends < 2 THEN lateSends + 1 ELSE lateSends
      BY <1>9 DEF TimedSend, MaxSend, Send
    <2> QED BY <2>1 DEF LateInv, StopOrdered
  <1> QED BY <1>1, <1>2, <1>3, <1>4, <1>5, <1>6, <1>7, <1>8, <1>9 DEF Next, EngineStep

\* At most one SendInput call goes out between a posted order to stop and the
\* engine thread taking it, whatever the rate, mode and length of an action.
THEOREM StopPrompt == Spec => []StopIsPrompt
  <1>1. Init => LateInv
    BY DEF Init, LateInv
  <1>2. LateInv => StopIsPrompt
    BY DEF LateInv, StopIsPrompt
  <1> QED BY <1>1, <1>2, NextLateInv, PTL DEF Spec

-----------------------------------------------------------------------------
(* The budget of a limited run.                                            *)

\* A step that leaves the account alone and enters no run.
LEMMA QuietBudgetStep ==
    ASSUME BudgetExact, UNCHANGED <<remaining, granted, actions>>,
           step' = step, epc' \in RunLoc => epc \in RunLoc
    PROVE  BudgetExact'
  BY DEF BudgetExact, InRun

LEMMA SendBudgetStep == ASSUME IInv, BudgetExact, TimedSend \/ MaxSend PROVE BudgetExact'
  <1>1. /\ remaining \in Nat \cup {Unlimited} /\ granted \in Nat /\ actions \in Nat /\ step \in Nat
        /\ epc \in RunLoc
    BY DEF IInv, TypeOK, TimedSend, MaxSend, RunLoc
  <1>2. CASE TimedSend
    <2>1. remaining # 0 /\ cfg \in Configs /\ step < Cfg[cfg].steps /\ granted' = granted
      BY <1>1, <1>2 DEF TimedSend, IInv, TypeOK, Shape
    <2>2. Cfg[cfg].steps \in Nat \ {0}
      BY <2>1, CfgFields
    <2> DEFINE last == step + 1 = Cfg[cfg].steps
    <2>3. PICK n \in TimedBatches :
            /\ actions' = IF remaining = Unlimited THEN actions
                          ELSE actions + (IF step = 0 THEN n ELSE 0)
            /\ step' = IF last THEN 0 ELSE step + 1
            /\ IF last THEN Pay(n) ELSE UNCHANGED remaining
      BY <1>2 DEF TimedSend, Send
    <2>4. /\ n \in Nat \ {0} /\ (remaining # Unlimited => n <= remaining)
          /\ n = 1 \/ (step = 0 /\ last)
      <3>1. Capped(CatchUpMax) \in Nat \ {0} /\ (remaining # Unlimited => Capped(CatchUpMax) <= remaining)
        BY <1>1, <2>1, CappedRange, EngineAssumption
      <3>2. (n \in 1..Capped(CatchUpMax) /\ step = 0 /\ Cfg[cfg].steps = 1) \/ n = 1
        BY <2>3 DEF TimedBatches
      <3> QED BY <1>1, <2>1, <3>1, <3>2 DEF Unlimited
    <2>5. CASE remaining = Unlimited
      BY <2>3, <2>5 DEF BudgetExact, Pay
    <2>6. CASE remaining # Unlimited
      <3>1. actions + remaining = granted + (IF step > 0 THEN 1 ELSE 0)
        BY <1>1, <2>6 DEF BudgetExact, InRun
      <3>2. CASE last
        <4>1. step' = 0 /\ remaining' = remaining - n
          BY <2>3, <2>6, <3>2 DEF Pay
        <4>2. actions' = actions + (IF step = 0 THEN n ELSE 0) /\ (step # 0 => n = 1)
          BY <2>3, <2>4, <2>6
        <4> QED BY <1>1, <2>1, <2>4, <3>1, <4>1, <4>2 DEF BudgetExact
      <3>3. CASE ~last
        <4>1. step' = step + 1 /\ remaining' = remaining /\ n = 1
          BY <2>3, <2>4, <3>3
        <4>2. actions' = actions + (IF step = 0 THEN 1 ELSE 0)
          BY <2>3, <2>6, <4>1
        <4> QED BY <1>1, <2>1, <3>1, <4>1, <4>2 DEF BudgetExact
      <3> QED BY <3>2, <3>3
    <2> QED BY <2>5, <2>6
  <1>3. CASE MaxSend
    <2> DEFINE n == Capped(Cfg[cfg].maxBatch)
    <2>1. remaining # 0 /\ step = 0 /\ step' = step /\ granted' = granted
      BY <1>3 DEF MaxSend, IInv, Shape
    <2>2. n \in Nat \ {0}
      BY <1>1, <2>1, CfgFields, CappedRange DEF IInv, TypeOK
    <2>3. /\ actions' = IF remaining = Unlimited THEN actions ELSE actions + n
          /\ remaining' = IF remaining = Unlimited THEN Unlimited ELSE remaining - n
      BY <1>3 DEF MaxSend, Send, Pay
    <2> HIDE DEF n
    <2> QED BY <1>1, <2>1, <2>2, <2>3 DEF BudgetExact, InRun
  <1> QED BY <1>2, <1>3

LEMMA NextBudget == IInv /\ BudgetExact /\ [Next]_vars => BudgetExact'
  <1> SUFFICES ASSUME IInv, BudgetExact, [Next]_vars PROVE BudgetExact'
    OBVIOUS
  <1> USE DEF loopFrame, allButEpc, vars, sharedVars, callerVars, idleVars, runVars, outVars,
              histVars, engineVars, callFrame
  <1>1. ASSUME NEW p \in Callers, (\E c \in Ops[p] : Call(p, c)) \/ Post(p) PROVE BudgetExact'
    BY <1>1, QuietBudgetStep DEF Call, Post, PostPush, PostFlag, PostEvent, Join
  <1>2. CASE GateFlips \/ DeadlinePasses \/ UNCHANGED vars
    BY <1>2, QuietBudgetStep DEF GateFlips, DeadlinePasses
  <1>3. CASE IdleWake \/ IdleDrain \/ IdleNext \/ IdleRest \/ RunFinish
    BY <1>3 DEF IdleWake, IdleDrain, IdleNext, IdleRest, RunFinish, BudgetExact, InRun, RunLoc
  <1>4. CASE RunStart
    <2>1. lim.maxActions \in Nat
      BY DEF IInv, TypeOK, RunLimits
    <2> QED BY <1>4, <2>1 DEF RunStart, BudgetExact
  <1>5. CASE RunNext
    <2> DEFINE more == decideOnTriggerDown(Cfg[cfg], TRUE).extendBy
    <2>1. more \in Nat
      BY DownDecision, CfgFields DEF IInv, TypeOK
    <2>2. /\ \/ remaining' = remaining /\ granted' = granted
             \/ remaining' = remaining + more /\ granted' = granted + more /\ remaining # Unlimited
          /\ step' = step /\ actions' = actions /\ epc' = epc /\ epc \in RunLoc
      BY <1>5 DEF RunNext, RunCommand, RunLoc
    <2> HIDE DEF more
    <2>3. remaining \in Nat \cup {Unlimited} /\ granted \in Nat /\ actions \in Nat /\ step \in Nat
      BY DEF IInv, TypeOK
    <2> QED BY <2>1, <2>2, <2>3 DEF BudgetExact, InRun
  <1>6. CASE RunRelease \/ RunCommandsDone \/ CheckFlag \/ WaitReached \/ WaitInterrupted
             \/ PauseWake \/ PauseCheck
    BY <1>6, QuietBudgetStep DEF RunRelease, RunCommandsDone, CheckFlag, WaitReached,
             WaitInterrupted, PauseWake, PauseWait, PollCommands, PauseCheck, RunLoc
  <1>7. CASE BoundaryConfig \/ BoundaryDone \/ BoundaryPause \/ BoundaryDeadline \/ BoundaryGo
             \/ MaxConfig \/ MaxDone \/ MaxPause \/ MaxGo \/ MaxBackpressure
    BY <1>7, QuietBudgetStep DEF BoundaryConfig, BoundaryDone, BoundaryPause, BoundaryDeadline,
             BoundaryGo, MaxConfig, MaxDone, MaxPause, MaxGo, MaxBackpressure, EnterPause, RunLoc
  <1>8. CASE TimedSend \/ MaxSend
    BY <1>8, SendBudgetStep
  <1> QED BY <1>1, <1>2, <1>3, <1>4, <1>5, <1>6, <1>7, <1>8 DEF Next, EngineStep

\* A limited run counts what it was granted, no more and no less: across the
\* batches of a catch-up, MAX batches, Burst extensions, and configurations
\* that change the number of calls per action in the middle of the run.
THEOREM BudgetIsExact == Spec => []BudgetExact
  <1>1. Init => BudgetExact
    BY DEF Init, BudgetExact, InRun, RunLoc
  <1> QED BY <1>1, NextBudget, IInvHolds, PTL DEF Spec

-----------------------------------------------------------------------------
(* The refinement.                                                         *)

\* Nothing the abstract engine shows changes.
LEMMA HiddenStep ==
    ASSUME UNCHANGED <<state, remaining, held, pulse>>, (epc = "exited") <=> (epc' = "exited")
    PROVE  UNCHANGED Abstract!vars
  BY DEF Abstract!vars

LEMMA IdleMaps ==
    ASSUME IInv, IdleWake \/ IdleDrain \/ IdleNext \/ IdleRest
    PROVE  [Abstract!Next]_(Abstract!vars)
  <1> USE DEF sharedVars, callerVars, idleVars, runVars, outVars, histVars
  <1>1. CASE IdleWake \/ IdleDrain
    BY <1>1, HiddenStep DEF IdleWake, IdleDrain
  <1>2. CASE IdleNext
    <2>1. state' \in {"Armed", "Disarmed"} /\ held = FALSE /\ held' = FALSE
      BY <1>2 DEF IdleNext, IdleCommand, ReleaseAll, IInv, TypeOK, Shape, RunLoc
    <2>2. Abstract!Settle
      BY <1>2, <2>1 DEF IdleNext, Abstract!Settle, Abstract!Idle, Abstract!Busy
    <2> QED BY <2>2 DEF Abstract!Next
  <1>3. CASE IdleRest
    <2>1. CASE quit
      <3>1. Abstract!Exit
        BY <1>3, <2>1 DEF IdleRest, ReleaseAll, Abstract!Exit, Abstract!Idle, IInv, Shape, RunLoc
      <3> QED BY <3>1 DEF Abstract!Next
    <2>2. CASE ~quit
      BY <1>3, <2>2, HiddenStep DEF IdleRest
    <2> QED BY <2>1, <2>2
  <1> QED BY <1>1, <1>2, <1>3

LEMMA RunEdgesMap ==
    ASSUME IInv, RunStart \/ RunRelease \/ RunFinish
    PROVE  Abstract!Next
  <1> USE DEF sharedVars, callerVars, idleVars, runVars, outVars, histVars
  <1>1. CASE RunStart
    <2>1. remaining' \in (Nat \ {0}) \cup {-1}
      BY <1>1 DEF RunStart, IInv, TypeOK, RunLimits, Unlimited
    <2>2. Abstract!Begin
      BY <1>1, <2>1 DEF RunStart, Abstract!Begin, Abstract!Idle, IInv, TypeOK, Shape, RunLoc
    <2> QED BY <2>2 DEF Abstract!Next
  <1>2. CASE RunRelease
    <2>1. Abstract!Release
      BY <1>2 DEF RunRelease, ReleaseAll, Abstract!Release
    <2> QED BY <2>1 DEF Abstract!Next
  <1>3. CASE RunFinish
    <2>1. held = FALSE /\ held' = held
      BY <1>3 DEF RunFinish, IInv, TypeOK, Shape
    <2>2. Abstract!Settle
      BY <1>3, <2>1 DEF RunFinish, FinalState, Abstract!Settle, Abstract!Idle, Abstract!Busy
    <2> QED BY <2>2 DEF Abstract!Next
  <1> QED BY <1>1, <1>2, <1>3

LEMMA CommandsMap ==
    ASSUME IInv, RunNext \/ RunCommandsDone \/ CheckFlag
    PROVE  [Abstract!Next]_(Abstract!vars)
  <1> USE DEF sharedVars, callerVars, idleVars, runVars, outVars, histVars
  <1>1. CASE RunNext
    <2> DEFINE more == decideOnTriggerDown(Cfg[cfg], TRUE).extendBy
    <2>1. more \in Nat /\ remaining \in Nat \cup {Unlimited}
      BY DownDecision, CfgFields DEF IInv, TypeOK
    <2>2. /\ \/ remaining' = remaining
             \/ remaining' = remaining + more /\ remaining # Unlimited
          /\ epc' = epc /\ epc \in RunLoc
          /\ UNCHANGED <<state, held, pulse>>
      BY <1>1 DEF RunNext, RunCommand, RunLoc
    <2> HIDE DEF more
    <2>3. CASE remaining' = remaining
      BY <2>2, <2>3, HiddenStep
    <2>4. CASE remaining' = remaining + more /\ remaining # Unlimited
      <3>1. remaining # -1 /\ remaining' \in Nat /\ remaining' >= remaining
        BY <2>1, <2>4 DEF Unlimited
      <3>2. state \in {"Running", "Paused"}
        BY <2>2 DEF IInv, Shape
      <3>3. Abstract!Extend
        BY <2>2, <3>1, <3>2 DEF Abstract!Extend, Abstract!Busy
      <3> QED BY <3>3 DEF Abstract!Next
    <2> QED BY <2>2, <2>3, <2>4
  <1>2. CASE RunCommandsDone \/ CheckFlag
    BY <1>2, HiddenStep DEF RunCommandsDone, AfterCommands, LoopBody, CheckFlag, PollCommands,
                            allButEpc, loopFrame
  <1> QED BY <1>1, <1>2

LEMMA LoopMaps ==
    ASSUME IInv,
           \/ BoundaryConfig \/ BoundaryDone \/ BoundaryDeadline \/ BoundaryGo
           \/ WaitReached \/ WaitInterrupted \/ MaxConfig \/ MaxDone \/ MaxGo \/ MaxBackpressure
           \/ BoundaryPause \/ MaxPause \/ PauseWake \/ PauseCheck
    PROVE  [Abstract!Next]_(Abstract!vars)
  <1> USE DEF allButEpc, loopFrame, sharedVars, callerVars, idleVars, runVars, outVars, histVars
  <1>1. CASE BoundaryConfig \/ BoundaryDone \/ BoundaryDeadline \/ BoundaryGo
    BY <1>1, HiddenStep DEF BoundaryConfig, BoundaryDone, BoundaryDeadline, BoundaryGo
  <1>2. CASE WaitReached \/ WaitInterrupted \/ PauseWake
    BY <1>2, HiddenStep DEF WaitReached, WaitInterrupted, PauseWake, PauseWait, PollCommands
  <1>3. CASE MaxConfig \/ MaxDone \/ MaxGo \/ MaxBackpressure
    BY <1>3, HiddenStep DEF MaxConfig, MaxDone, MaxGo, MaxBackpressure
  <1>4. CASE BoundaryPause \/ MaxPause
    <2>1. Abstract!Pause
      BY <1>4 DEF BoundaryPause, MaxPause, EnterPause, ReleaseAll, Abstract!Pause, IInv, Shape,
                  RunLoc, PausedLoc
    <2> QED BY <2>1 DEF Abstract!Next
  <1>5. CASE PauseCheck
    <2>1. CASE gate
      <3>1. Abstract!Resume
        BY <1>5, <2>1 DEF PauseCheck, Abstract!Resume, IInv, Shape, PausedLoc
      <3> QED BY <3>1 DEF Abstract!Next
    <2>2. CASE ~gate
      BY <1>5, <2>2, HiddenStep DEF PauseCheck
    <2> QED BY <2>1, <2>2
  <1> QED BY <1>1, <1>2, <1>3, <1>4, <1>5

LEMMA SendMaps ==
    ASSUME IInv, TimedSend \/ MaxSend
    PROVE  [Abstract!Next]_(Abstract!vars)
  <1>1. /\ remaining \in Nat \cup {Unlimited} /\ remaining # 0 /\ step \in Nat
        /\ cfg \in Configs /\ state = "Running" /\ state' = state
        /\ epc # "exited" /\ epc' # "exited"
    BY DEF TimedSend, MaxSend, IInv, TypeOK, Shape, RunLoc, PausedLoc
  <1>2. CASE TimedSend
    <2>1. Cfg[cfg].ok /\ pulse' = 1 - pulse
      BY <1>2 DEF TimedSend, Send, IInv, Shape
    <2>2. held' \in BOOLEAN
      BY <1>2 DEF TimedSend, Send
    <2>3. IF remaining = -1 THEN remaining' = remaining ELSE remaining' \in 0..remaining
      <3>1. PICK n \in TimedBatches : Pay(n) \/ UNCHANGED remaining
        BY <1>2 DEF TimedSend
      <3>2. Capped(CatchUpMax) \in Nat \ {0} /\ (remaining # Unlimited => Capped(CatchUpMax) <= remaining)
        BY <1>1, CappedRange, EngineAssumption
      <3>3. n \in 1..Capped(CatchUpMax) \/ n = 1
        BY <3>1 DEF TimedBatches
      <3> QED BY <1>1, <3>1, <3>2, <3>3 DEF Pay, Unlimited
    <2>4. Abstract!Emit
      BY <1>1, <2>1, <2>2, <2>3 DEF Abstract!Emit
    <2> QED BY <2>4 DEF Abstract!Next
  <1>3. CASE MaxSend
    <2> DEFINE n == Capped(Cfg[cfg].maxBatch)
    <2>1. n \in Nat \ {0} /\ (remaining # Unlimited => n <= remaining)
      BY <1>1, CfgFields, CappedRange
    <2>2. /\ remaining' = IF remaining = Unlimited THEN Unlimited ELSE remaining - n
          /\ pulse' = IF Cfg[cfg].ok THEN 1 - pulse ELSE pulse
          /\ held' = FALSE
      BY <1>3 DEF MaxSend, Send, Pay
    <2>3. held = FALSE
      BY <1>3 DEF MaxSend, IInv, TypeOK, Shape
    <2> HIDE DEF n
    <2>4. IF remaining = -1 THEN remaining' = remaining ELSE remaining' \in 0..remaining
      BY <1>1, <2>1, <2>2 DEF Unlimited
    <2>5. CASE Cfg[cfg].ok
      <3>1. Abstract!Emit
        BY <1>1, <2>2, <2>4, <2>5 DEF Abstract!Emit
      <3> QED BY <3>1 DEF Abstract!Next
    <2>6. CASE ~Cfg[cfg].ok /\ remaining # -1
      <3>1. Abstract!Spend
        BY <1>1, <2>2, <2>4, <2>6 DEF Abstract!Spend
      <3> QED BY <3>1 DEF Abstract!Next
    <2>7. CASE ~Cfg[cfg].ok /\ remaining = -1
      BY <1>1, <2>2, <2>3, <2>4, <2>7, HiddenStep
    <2> QED BY <2>5, <2>6, <2>7
  <1> QED BY <1>2, <1>3

LEMMA StepMaps == IInv /\ [Next]_vars => [Abstract!Next]_(Abstract!vars)
  <1> SUFFICES ASSUME IInv, [Next]_vars PROVE [Abstract!Next]_(Abstract!vars)
    OBVIOUS
  <1>1. ASSUME NEW p \in Callers, (\E c \in Ops[p] : Call(p, c)) \/ Post(p)
        PROVE  UNCHANGED Abstract!vars
    BY <1>1, HiddenStep DEF Call, Post, PostPush, PostFlag, PostEvent, Join, callFrame,
       engineVars, runVars, outVars
  <1>2. CASE GateFlips \/ DeadlinePasses \/ UNCHANGED vars
    BY <1>2, HiddenStep DEF GateFlips, DeadlinePasses, vars, engineVars, runVars, outVars
  <1>3. CASE EngineStep
    BY <1>3, IdleMaps, RunEdgesMap, CommandsMap, LoopMaps, SendMaps DEF EngineStep
  <1> QED BY <1>1, <1>2, <1>3 DEF Next

LEMMA InitMaps == Init => Abstract!Init
  BY DEF Init, Abstract!Init, Abstract!Idle

\* The whole engine keeps the abstract promise: output only while Running and
\* within budget, and never a status other than Running over something held.
THEOREM ImplementsAbstract == Spec => AbstractSpec
  BY InitMaps, StepMaps, IInvHolds, PTL DEF Spec, AbstractSpec, Abstract!Spec
=============================================================================
