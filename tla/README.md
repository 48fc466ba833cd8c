# Verification of Infinity Clicker

Infinity Clicker (`src/`) is a Windows auto-clicker in C++: while a trigger key
or button says so, it sends mouse clicks or key chords at a fixed rate or as fast
as Windows takes them. This directory holds TLA+ models of its core, the TLC
configurations that check them on small instances, and proofs that hold for
every instance. All paths below are relative to the repository.

    tlc -workers 2 -config EngineSafety.cfg MCEngine    # a run
    tlapm EngineProofs.tla                              # a proof module

## 1. The program

### Processes and threads

| Thread | Code | Talks to the others through |
| --- | --- | --- |
| UI thread | `app/App.cpp`, `ui/*` | engine API, trigger API, window messages, callbacks it receives |
| engine thread | `scheduler/Engine.cpp`, `input/InputSender.cpp` | locked queue + atomic flag + auto-reset event; atomics `armed_`, `state_`; the sequence lock of the telemetry |
| trigger thread | `trigger/TriggerEngine.cpp` | low-level hooks and raw input in, `Engine::trigger*()`, `emergency()` out; `*gateOpen_` and its event |
| log writer | `core/Log.cpp` | locked line buffer |
| test pad thread | `lab/TestPad.cpp` | its own window; a counter the engine reads |
| watchdog process | `platform/win/Guardian.cpp` | a shared-memory section (`HeldShared`) and a handle on the main process |

`App::init()` wires the engine to the gate and to the observed-click counter and
starts the threads. `App::shutdown()` goes the other way: save, stop the run, join
the engine thread (whose last act is to release everything), stop the hooks and
the pad, set the clean-exit mark, stop the log.

### Components, state and operations

* **Scheduler engine** (`scheduler/Engine`). State: `queue_`, `cmdFlag_`,
  `cmdEvent_`, `armed_`, `state_`, the configuration in use and the pending one,
  the run in progress (remaining actions, end time, step inside the action).
  Operations: `setConfig`, `arm`, `triggerDown`, `triggerUp`, `startRun`,
  `stopRun`, `emergency`, `shutdown` on any thread; the idle loop, `doRun`,
  `runTimed`, `runMax`, `handleRunCommands`, `pauseUntilGate` on the engine thread.
  Correct when: no command is lost, a stop ends output at once, a stop, pause,
  emergency or exit leaves nothing held, a limited run performs exactly what it
  was granted, an action is never mixed from two configurations, the shown state is
  what `armed_` says, and everything that should end does.
* **Trigger modes** (`scheduler/Modes.h`). No state: what a press and a release
  mean in Hold, Toggle, Burst, Count and Duration. The same file holds the
  `Timeline`, the grid of slots.
* **Input sender and held-input record** (`input/InputSender`, `input/HeldState`).
  State: what is held, and a copy of it, word by word, in shared memory.
  Operations: `send`, `publish`, `releaseAll`, and `releaseHeldFrom` run by a
  crash handler or by the watchdog. Correct when whatever is physically down is on
  record somewhere whoever dies when.
* **Watchdog and crash handler** (`platform/win/Guardian`). State: attached or
  not, the clean-exit mark, the crash in progress. Correct when any death of the
  process is followed by a release and an orderly exit is not.
* **Trigger engine** (`trigger/TriggerEngine`). State: what it believes about the
  trigger, the capture in progress, swallowed key-ups, which hooks are installed,
  the foreground gate with its process-name cache, the last configuration.
  Operations: `handleKey`, `handleMouse`, `updateHooks`, `beginCapture`,
  `cancelCapture`, `updateConfig`, `evaluateGate`, the emergency hot key. Correct when every
  press and release of the trigger is reported once and applications see no half
  of a key stroke.
* **Backpressure**, spread over `Engine::runMax`, the mouse hook, `App::applyConfigs`
  and `App::healthCheck`. State: three counters compared on the engine thread, the
  hook, two configurations in the mail. Correct when the system's input queue
  stays short and a run that is held back goes on again.
* **Telemetry** (`telemetry/Stats`). State: the counters of the run, the totals, a
  ring of 100 ms slots, the second in progress, a histogram, and the sequence lock
  that carries all of it to the readers. Correct when a reader gets a snapshot
  that existed, totals count every action once, and the figures are those of the run.
* **Precise waiter** (`scheduler/PreciseWaiter`). Sleep, then spin, until a
  time or an interruption. With the `Timeline` and the late policies of the engine it
  decides when an action goes out.
* **Application** (`app/App`). State: current profile, the lab run and its base, the
  capture in progress, the chord handed over, the save that is due, the last health
  check. Turns user operations into engine and trigger calls. Correct when a chord
  lands in the field that asked for it and a lab run stays inside the pad.
* **Profiles, settings and their manager** (`profiles/Profile`, `core/Paths`,
  `ui/Views.cpp`, `ui/SettingsView.cpp`). State: a list with unique names, the active
  one, two files. Correct when a change is lost only by a save that failed, no
  crash leaves a file that cannot be read, and a restart finds what was saved.
* **Start-up** (`main.cpp`). A mutex makes the program single, a restart as
  administrator waits for the old instance.
* **Test pad** (`lab/TestPad`). A window with a thread of its own, opened by the
  program and closed by either side.
* **Log** (`core/Log`). State: the lines waiting, the file and the one before it.
  Correct when lines come out in order, once, and none is lost without a reason.
* **Action compiler** (`input/InputAction`, `input/KeyChord`). Pure: from the
  action of a profile to a list of steps, each one call of `SendInput`.
* **JSON and text** (`core/Json`, `core/Str`, `core/I18n`). Pure: reading and writing
  the two files; formatting; the translations.
* **Benchmark and autotest** (`lab/Bench`, `lab/AutoTest`), **drawing and tray**,
  **platform helpers**, **Dear ImGui**: see "Not modelled".

### What is hard about it

1. `post()` is three steps (push, flag, event), preceded on the caller's thread
   by the store of `armed_`; the engine consumes flag and event in different
   places, also inside waits.
2. Commands are handled in batches in two places (idle loop, inside a run) that
   treat the same command differently.
3. A stop, a pause, a quit or a new configuration may arrive between the DOWN and
   the UP of an action.
4. Windows may refuse any part of any `SendInput`; the process may crash in one
   thread while another goes on, or be killed between any two instructions; the
   record that the watchdog reads is written word by word.
5. The hook thread decides what applications see of a key stroke while captures,
   new bindings and hook removal happen between a press and its release.
6. Pauses and waits must end, and backpressure as long as the hook counts.
7. The engine counts a run as completed after its last snapshot, and readers act on
   the count, with nothing but the order of three stores between them.
8. A lab run is recognised by a count that other runs increase too, while windows
   come to the front and the trigger thread learns of it by messages of its own.
9. A chord is captured on one thread and applied on another, eight seconds or a
   click may cancel it in between, and the next capture may already wait.
10. Two files, each written in four calls that may fail, by a process that may
    die; and for some seconds two processes.
11. Rounding: slots round to the nearest tick, skipping rounds down, actions too
    long for their period are scaled, percentiles are read from buckets.

`PROJECT.json` lists these hazards at their lines, with the properties that
would catch them.

## 2. The modules

| Module | Models | Holds |
| --- | --- | --- |
| `Modes` | `scheduler/Modes.h`, the decisions | pure operators |
| `Engine` | `scheduler/Engine.cpp` | the engine thread and its callers, properties |
| `AbstractEngine` | nothing: it is the promise | status, budget, held; implemented by `Engine` |
| `HeldInput` | `InputSender`, `HeldState`, `Guardian` | the sender, the record, the two releasers |
| `Backpressure` | the MAX run's throttle across `runMax`, `updateHooks`, `applyConfigs`, `healthCheck` | counters, hook, mail |
| `TriggerKeys` | `trigger/TriggerEngine.cpp`: keys, buttons, capture, choice of hooks | the trigger thread, the user's hands, what applications saw |
| `Store` | `profiles/Profile`, `core/Paths.cpp`, the profile manager and the pages, `App::saveNow`, start-up and exit | instances, files, mutex |
| `Lab` | `App::startTest`/`tick`, `TestPad`, the gate of `TriggerEngine` and of `Engine` | UI thread, pad, engine, trigger thread, windows |
| `Capture` | `App::beginCapture` ... `applyCaptured` with the trigger thread's side | UI thread, trigger thread, the chord between them |
| `Log` | `core/Log.cpp` | callers, the writer thread, two files |
| `Telemetry` | `Engine::publish`, the ends of runs, `SeqLock`, its readers | engine, writer, reader |
| `Pacing` | `Timeline`, `runTimed`'s late policies, `PreciseWaiter` | one timed run and the clock |
| `AbstractSnapshot` | nothing: it is the promise | the snapshot on show and what a read hands out; implemented by `Telemetry` |
| `ActionCompiler` | `InputAction.cpp`, `Engine::applyConfig` and `rebuildProgram` | the configuration in force and its two programs |
| `Figures`, `Histogram` | `Stats.cpp`: slots, seconds, average; `LogHistogram` | the statistics of a run, with histories of what they are about |
| `JsonText`, `JsonString` | `Json.cpp` | pure operators with reference definitions |
| `MCEngine` + 2 cfg, `MCApp` (`Lab`, `Capture`, `Log`) + 3 cfg, `MCHeldInput`, `MCBackpressure`, `MCTriggerKeys`, `MCStore`, `MCTelemetry`, `MCPacing`, `MCData` (`MCPacing` and the last three rows above) + 1 cfg each | | instances for TLC |
| `EngineProofs`, `HeldInputProofs`, `BackpressureProofs`, `TriggerKeysProofs`, `TelemetryProofs`, `PacingProofs`, `StoreProofs`, `AppProofs` | | proofs; `PacingProofs` also about `ActionCompiler`, `Figures` and `Histogram`, `AppProofs` about `Lab`, `Capture` and `Log` |

How they meet: `Engine` has a gate that flips at will and a backpressure that
holds back at will; `Lab` and `Backpressure` are where these come from. `Engine`
hands over `SendInput` calls; what a call does to the keys is `HeldInput`, when it is made
is `Pacing`, what it consists of is `ActionCompiler`. The reports that `Engine`
receives are those `TriggerKeys` makes; `HookOrder` of the one is `ReportsFollowKey`
of the other. What a run says about itself is `Telemetry` with `Figures` and `Histogram`.

### Engine

Each thread is a program counter: `pc[p]` for a caller inside `post()`, `epc`
for the engine thread. A step is what the thread does between two accesses to
state shared with another thread, so every interleaving that can matter is there.

| State | Code |
| --- | --- |
| `queue`, `flag`, `event` | `queue_` (under `queueMu_`), `cmdFlag_`, `cmdEvent_` |
| `armed`, `state`, `gate` | `armed_`, `state_`, `*gateOpen_` |
| `batch`, `start`, `lim`, `quit` | locals of `threadMain()` and of `handleRunCommands()` |
| `cfg`, `pending` | `cfg_`, `pendingCfg_` |
| `stop`, `remaining`, `timed`, `step`, `inMax` | the `RunCtx`, the step in the action, which run loop |
| `held`, `pulse` | what `sender_` holds; flips at each `SendInput` |
| `expired` | the clock has passed `endQpc` |
| `granted`, `actions`, `lateSends`, `expiredInPause` | history, read by properties only |

Actions, in the order of the code: `Call`, `PostPush`, `PostFlag`, `PostEvent`,
`Join` (the API); `IdleWake`, `IdleDrain`, `IdleNext`, `IdleRest` (`threadMain`);
`RunStart`, `RunRelease`, `RunFinish` (`doRun`); `RunNext`, `RunCommandsDone`
(`handleRunCommands`); `CheckFlag`, `Boundary*`, `Wait*`, `TimedSend` (`runTimed`);
`Max*` (`runMax`); `PauseWake`, `PauseCheck` (`pauseUntilGate`); `GateFlips` and
`DeadlinePasses` are the environment.

Abstracted: time. A wait ends or is interrupted whenever it likes, a deadline
passes at any step, a gate check is due or not. An action is a number of `SendInput`
calls; something is held between the first and the last one. A slot that is late
is `TimedBatches`: with catch-up, any number of due actions up to the batch limit.
`HookOrder` is what the hook thread guarantees about its reports; `Rebinding`
lets the trigger be rebound while it is down, after which a press follows a press.

### HeldInput

| State | Code |
| --- | --- |
| `down` | the real key state, as far as this program made it |
| `held`, `left`, `fresh`, `epc`, `word`, `after` | `heldKeys_`/`heldMouse_`, the locals of `releaseAll()` and where the engine thread is in `send`/`publish`/`releaseAll` |
| `bits`, `meta` | the words and the metadata of `HeldShared` |
| `alive`, `clean`, `frozen` | the process, `cleanExit`, its engine thread stopped by a crash |
| `rpc`, `rword`, `taken` | `releaseHeldFrom()` in the crash handler and in the watchdog |
| `refused`, `balked` | history: what Windows refused |

Every word of `publish()` and every exchange of `releaseHeldFrom()` is a step, and
`Kill` and `Crash` are possible between any two. Windows accepts any prefix of a
call (`Send`), or any subset of a set of UPs. `InTurn` says that the engine's
actions alternate presses and lifts as the action compiler makes them, until
Windows refuses something.

### Backpressure

| State | Code |
| --- | --- |
| `waiting` | this program's events in the system's input queue (external) |
| `running`, `remaining`, `throttle` | the MAX run, `run_.remaining`, `cfg_->maxInflight != 0` |
| `gap` | `accepted - observed - bpBase`, the `inflight` of the code |
| `observe`, `hook`, `live` | `cfg_.observeMouse`, `mouseHook_`, whether Windows still calls it |
| `toTrigger`, `toEngine`, `reinstall`, `half` | `pending_` of each side, the posted messages, `applyConfigs()` half done |
| `sent`, `moved` | accepted and observed since the last `healthCheck()` |
| `atStart`, `lost` | history |

An action of the profile is one event. `engine` in `Engine.tla` abstracts all of
this to "may hold back"; here is the reason why it lets go again.

### TriggerKeys

| State | Code |
| --- | --- |
| `real`, `typing` | the user's hands; `physKey_` has the same keys. `typing` is the key that repeats |
| `seen` | what the applications believe is down |
| `cfg`, `pending` | `cfg_`, `pending_` and the message that announces it |
| `swallowUp` | `swallowUp_` and `swallowMouseUp_` |
| `trigDown`, `trigSuppressed`, `capMod` | `trigDown_`, `trigSuppressed_`, `captureModVk_` |
| `capture`, `hooksDue`, `hook`, `raw` | `captureState_`, `WM_APP_HOOKS` in the mail, `mouseHook_`, `rawOn_` |
| `armed`, `told` | the sink: `isArmed()`, whether the last report was a press |
| `astray`, `odd` | history: why a report may be out of date, which inputs had a slip |

An action is one event (`KeyDown`, `KeyUp`, `MouseDown`, `MouseUp`: `handleKey()` and
`handleMouse()` whole, up to what the hook returns), one call of the UI thread
(`BeginCapture`, `CancelCapture`, `SetConfig`, `Arm`) or one message (`Hooks`,
`Reconfig`). The branches of the handlers are operators of their own. A hook decides
before an application sees the event; raw input cannot swallow.

`astray` and `odd` make two properties exact: they do not say that nothing goes wrong,
but name the only ways in which it does. A report is out of date only after a
rebinding with the trigger down or a release nobody looked at. A key sticks in an application only
after one of the slips listed at `StuckOnlyBySlip`; each of them can happen in the code.

### Store

| State | Code |
| --- | --- |
| `pc` | an instance: off, waiting for the mutex, loading, running, in one of the exits |
| `mem` | `ProfileStore::profiles`, the active one, `settings`, the window's place |
| `dirty`, `save` | `App::dirty_`; where `writeFileAtomic()` is with which file, and what follows |
| `disk`, `tmp`, `writer`, `backup` | the two files, their temporary files, who has one open, `profiles.corrupt.json` |
| `handles`, `owner`, `restart` | the mutex `main.cpp` creates, the instances started with `--restarted` |
| `unsaved`, `failed`, `kept`, `slips` | history: a change that is not in both files, the last save failed, what an orderly exit left, faults that explain the files |

A profile is its name and one number, which stands for every number with a range. Numbers are counted in thirds of
the last digit that is written, so `ToJson` rounds (`writeNumber()`: `%.10g`, whole numbers exactly) and `FromJson` brings into the range.
What is typed is not always in it: sliders take what is typed into them with Ctrl+Click (`EditSafety`), and the window's size
is taken down as it is (`SavePlacement`); both are brought into their ranges by the next load. A
name is the list of words and numbers it is made of, so that "Default (2)" and
"Default copy" are not by accident equal. What words say (`Texts`), what a user types (`Typed`, `Entered`), the sizes of the window (`Sizes`) and
what a person may write into `profiles.json` (`Lists`) are constants. One action per operation of the pages and of the manager,
each of which ends in `profileChanged()`; saving is `OpenTmp`, `WriteTmp`, `MoveTmp` for each
file, any of which may fail; `Crash` is possible between any two steps. `Load`
repairs what it reads: clamped values, numbered names, a default active profile.

### Lab

| State | Code |
| --- | --- |
| `ui`, `profile`, `lab`, `base`, `target` | where `startTest()` is; the active profile, `labRunActive_`, `labRunBase_`, `testTarget_` |
| `pad`, `dead` | `TestPad::hwnd_` and `thread_`; `std::terminate()` was reached |
| `queue`, `run`, `phase`, `cfg`, `pendingCfg`, `completed` | the engine as far as gates go: a run, whether its gate was asked in the last millisecond, `runsCompleted_` |
| `fg`, `events`, `reconfigs`, `posted`, `tcfg`, `gate` | the window in front, and what the trigger thread has and has not heard of it |
| `sent`, `excused`, `dropped` | history: what the last send rested on, why a lab run may go out by the ordinary gate (another run ended while it was started, there was no pad), and that its `StartRun` came to nothing |

Every handler of the UI thread is one action, but `startTest()`, which sleeps in the
middle (`StartTest`, `StartRun`). A window handle is never used again. The engine's
queue is drained at once: `Engine` has the details of it.

### Capture and Log

`Capture`: `captureTarget`, `captured`, `binding` are the UI thread's, `captureState` is the
atomic of the trigger thread, `hand` is that thread between reading the state, clearing it
and calling `onCaptured()`, `mail` the messages on their way. A chord is the number of the capture it was
pressed for. `Log`: `pending` is the list under the lock, `batch` what the writer took,
`at` where the writer is, `file` and `old` the two files line by line; `lost` says which
lines were given up for a reason (file off, refused by Windows, rotated away twice).

The three modules share no state. `MCApp` follows one of them per behaviour (`part`),
which keeps the instance as large as the largest of the three and not as their product.

### Telemetry

| State | Code |
| --- | --- |
| `at`, `state`, `totalActions`, `runActions`, `runId`, `runsCompleted` | where the engine is in `threadMain()`/`doRun()`, its members of these names |
| `work`, `writer` | the snapshot that `publish()` fills; where `SeqLock::write()` is, which words are left |
| `seq`, `data`, `reader`, `out` | the lock, and a reader that retries and may give up |
| `seen`, `since`, `final` | what the reader knew before it read; history |

A snapshot is moved word by word in any order, on both sides. Stores and loads are
sequentially consistent: the fences of `Stats.h` are taken to do what they are there for.

### Pacing

Time is a counter of ticks that passes between any two steps. `t0`, `period`, `k` are the
`Timeline`, a period is a fraction; `at` and `wake` are the thread in its loop and in
`waitUntil()`; `actions` and `missed` are the statistics; `before` remembers the slots of the grids left
behind. The adaptive margin of the waiter is any member of `Margins`, so it may wake early or late.

`AbstractSnapshot` says what the readers are promised, without words, numbers or attempts: publishing replaces the snapshot
on show by the next one, and a read that succeeds hands out the one on show at that moment. `AtomicReads` is that
`Telemetry` implements it. On show is what the words will be once those still being copied are, from the moment
the engine begins to write; a reader that ends while the next write has begun has to fail, as its number is old.

### Action compiler, figures and histogram

| State | Code |
| --- | --- |
| `config`, `prog`, `maxProg` | `Engine::cfg_`, `prog_`, `maxProg_` |
| `run`, `clock` | `RunStats` with its ring of slots; the moment of the last call |
| `actionsUpTo`, `latesUpTo`, `space` | history: the actions before each moment, those of them with a deadline, the even space between them if there is one |
| `counts`, `total` | `LogHistogram` |
| `seen` | history: the times counted since the last reset |

`ApplyConfig` compiles a configuration, whatever its action and period, into both programs: events in their order, grouped into the
calls of `SendInput`, shortened to half the period if they would take nine tenths of it. `OnAction` and `OnActions`
are a call of `RunStats`, after any pause, with all slots that ended meanwhile; what `fill()`
shows are operators on the state. `Add` and `Forget` are those of the histogram. The
percentile's share is a fraction, so its rank is exact; in the code it is a product of two
`double`s. A bucket's count does not wrap: it has 32 bits, over an hour of a million actions a second in one bucket.

### The readers

`JsonText` reads tokens and `JsonString` characters, recursively; their references generate all spellings of a value.
`MCData` follows one of the compiler, the figures, the histogram and the readers per behaviour (`part`); a reader
gets one input.

## 3. The runs

| Run | Instance | Shows |
| --- | --- | --- |
| `engine_safety` | UI and hook thread, 3 calls in all, 3 configurations (a two-call Hold action, a catching-up Burst, a MAX Count), start with deadline | all safety properties and the refinement of `AbstractEngine`; 2.05 million states |
| `engine_live` | 2 calls, rebinding, a Duration run, MAX with backpressure, an action that does not compile arriving in mid-run | the four liveness properties |
| `held_input` | a modifier, a key, a button; 2 words; 5 calls | coverage and release properties, and that the watchdog acts |
| `backpressure` | two runs of 5 actions, limit 1, batches of 3, two changes of the profile, a hook that may vanish | accounting, the bound on the queue, and that a run whose events were seen ends |
| `trigger_keys` | Ctrl, a key, a button, a wheel; 3 configurations swapped at will (a swallowed key with an emergency chord, a swallowed button with an emergency key, raw input for a wheel with an emergency button) | reports follow the trigger, slips are the only way to stick, the right mouse source; 1.08 million states |
| `store` | two instances, a name to type, lists of up to 3, two edits, one fault, two launches; a number between two written ones and one below its range, a window too large; the instances are alike (symmetry) | names stay distinct, a change is forgotten only by a failed save, no file is torn, a restart finds what was saved but for rounding and ranges; 1.89 million states |
| `app` | two profiles, two pads, three operations, one press; three captures; five lines, rotation after two | the gate settles, lab runs stay in the pad but for the known races, chords land as asked, the log keeps lines; 1.52 million states |
| `lab_gate` | as `app` | **violated**: `LabGated` |
| `pad_reopen` | as `app` | **violated**: `PadReopens` |
| `telemetry` | two words, two attempts, two runs, three actions, six snapshots | reads are atomic, that is the refinement of `AbstractSnapshot`, totals exact, results final; 3.56 million states |
| `skip_latest` | `MCPacing`: three fractional periods, both policies, one- and two-call actions, 15 ticks, two pauses or changes of the rate | **violated**: `SkipsToLatest` |
| `data` | timed runs as in `skip_latest`; every action with three hold times, two gaps and five repeats in four periods; four calls on a ring of three slots, with seven pauses; four times out of eleven in a histogram of 72 buckets; about 139 000 texts and strings | no slot lost, doubled, early or past the end, and skips go far enough; programs are what was asked for, figures are those of the run, percentiles are close, texts are read as they are spelled; 2.52 million states |

### Bounds, and why they are enough

* `MaxPosts` (3, 2) bounds the API calls of a behaviour. Three calls by two
  threads cover every pair of racing calls together with the one that started
  the run they race in. Nothing else in the engine is bounded: the runs are as
  long as they like, the gate flips as often as it likes.
* `CatchUpMax = 2` stands for `kMaxCatchUpBatch = 8`: with a burst of 2 a batch
  equals, and after a press that extends it falls short of, the budget.
* Counts of 2 and 3 with a MAX batch of 2 give a last batch that is full and one
  that is cut.
* Actions have one or two `SendInput` calls: the middle of an action exists.
* `Backpressure`: the real limit is at least 16 and the batch at most 256; what
  matters is that a batch overshoots the limit, that the last one is cut, and that
  a run is longer than limit plus batch. `HealthMin = 1` stands for 200. `MaxRuns`
  and `MaxChanges` of 2 let a run begin with the leftovers of another and a
  change overtake the one in the mail.
* `TriggerKeys` is finite as it stands. One input of each kind is enough for the
  properties, which are about one input at a time, and for the conflicts between
  roles: the key is trigger, emergency and captured key in turn.
* Three items in two words give a word with two items, one of which may be
  released or refused without the other, and a boundary between words.
* `Store`: two edits are a change and one made while or after it was saved; one fault
  at any place (a refused call, a crash, a file edited by hand, a file that cannot be read, a wait that times out) is
  followed by what the program makes of it at the next launch. `MaxProfiles` of 3 has a
  name, a duplicate and a copy. One number loses by being written and one by being read. A split save needs the fault, not a second one.
* `Lab`: two pads are one and its successor; three operations are, for example, open,
  start and select. `MaxPresses`, `MaxEvents` and `MaxMail` of 1 let a press, a
  window event and a message each be late with regard to the other two; they
  bound how many are on their way at once, not how many there are.
* `Capture`: three captures are one in the hand of the trigger thread, one cancelled, one
  waiting. `Log`: five lines and a limit of two rotate twice, which loses the first file.
* `Telemetry`: two words make a mixture, two attempts one retry and a reader that gives up;
  two runs and three actions let a reader be a run late. Six snapshots are more than two runs with one
  action each publish by themselves, so forced ones fit between.
* `Pacing`: 15 ticks are six slots and more of the fastest period, twice the limit for catching
  up and a batch of three together. `MaxTurns = 2` is a pause and a change of the rate, in either order.
* `data`: numbers around every limit of the code (repeat 0 to 4 around the range 1 to 3, holds
  and gaps around zero, periods shorter and longer than the action), all token texts of up to six,
  code points at both ends of every UTF-8 length and around the surrogates, runs across the wrap
  of the ring and longer pauses, values at the edges of buckets. `MaxDepth = 1` stands for 64, a
  ring of 3 slots for its `kCpsHistory`; `MaxMsb = 10` for 40. Four calls are two with a space between them that the next two keep or break.
* `posts`, `edits`, `ops` and their like grow and are bounded; nothing else is cut off.

Deadlock checking is on for `TriggerKeys`, where the user can always do something. It
is off elsewhere: with the calls used up and the engine idle or exited the system
really stops, and so does a process that has ended, a run that is over, a logger that was
joined, an input that was answered.

### Fairness

`FairSpec` of `Engine` assumes

* `WF(Post(p))`, `WF(EngineStep)`: a thread that is inside a function goes on.
  No fairness is assumed for `Call`, for the gate or for the deadline.
* `SF(WaitReached)`: a wait that is begun over and over reaches its slot. The
  slot is an absolute time, so interruptions do not push it back.
* `SF(BoundaryPause \/ MaxPause)`: the gate is looked at every `kGateCheckMs`.
* `SF(BoundaryDeadline)`: slots advance, so one lies past the deadline.

Nothing is assumed of backpressure: the code spins without a timeout on a counter that only the hook advances
(`Engine.cpp:559-571`). That it lets go again and again, `SF(MaxSend)`, is a condition inside
`LimitedRunEnds`, for its second half only: a run with a count ends if it does. That a run with a deadline ends needs no condition, as the
loop looks at the clock while it waits. `Backpressure` shows when the condition holds (`SeenRunEnds`: the hook sees every event),
`HookComesBack` and `CountRunEnds` below are where it does not.

`Backpressure` assumes that the engine, trigger and UI threads keep running (the
health check is a timer) and that Windows keeps delivering; only weak fairness.

`HeldInput` assumes `WF(Guardian)`: the watchdog is a process of its own that the
system keeps scheduling. The other modules state safety only and assume no fairness.

### Where the code and its documents disagree

Three runs show it, the first two on the instance of `app`:

* `LabGated` (`lab_gate`). `AdvancedView.cpp:454`: "Output only flows while the Test Pad is in
  front AND the cursor is over it." `startTest()` takes `runsCompleted()` as the base and posts the
  pad's configuration; while it sleeps in `activate()`, a press of the trigger begins a trigger run; `startRun()` is queued
  behind it; the trigger run ends and counts itself; `tick()` takes that for the end of the lab run and posts a configuration
  without the pad. The engine takes both, and the lab run clicks by the ordinary gate, wherever the cursor is.
  A lab run that has no pad to be tied to, because none could be made, is excepted. `LabGatedAlone`, which holds, says that this race is the only other way.
* `PadReopens` (`pad_reopen`). Closed by its own window, the pad's thread ends without being
  joined; the next `TestPad::open()` assigns a `std::thread` over it and the program terminates.
* `SkipsToLatest` (`skip_latest`). `Modes.h:104`: "jump to the latest slot that is <= now". `skipLate()` divides
  downwards where `slot()` rounds to the nearest tick, so a slot that was rounded down to this very tick is not seen to
  have come: with a period of 5/3 ticks, at tick 3 of the grid, it goes on at slot 1 (tick 2) although slot 2 is at tick 3. The
  loop behind the division only steps back. The slot is not lost, the next turn of the loop performs it at once. `SkipsWithinAPeriod`, which
  holds, says how far a skip goes: never beyond the clock, and to a slot whose period, before roundings, is not over.

Seven more statements of documents and comments do not hold. They are definitions at the end of their
modules; each row says with what to replace in a configuration of that module to
see its counterexample (`INVARIANT` or `PROPERTY` being that one definition).

| Definition | Instance |
| --- | --- |
| `HoldFollowsKey` | `EngineSafety.cfg` with `Ops <- HoldOps`, `Configs <- HoldConfigs`, `Cfg <- HoldCfg`, `MaxPosts = 4` |
| `PausedPastDeadlineIsSilent` | `EngineSafety.cfg` with `Ops <- DurationOps`, `Configs <- DurationConfigs`, `Cfg <- DurationCfg`, `MaxPosts = 1` |
| `HeldKnowsDown` | `HeldInput.cfg` |
| `HookComesBack` | `Backpressure.cfg` with `MaxInflight = 2`, `MaxBatch = 1`, `Granted = 6`, `MaxRuns = 1`, `MaxChanges = 0` |
| `CountRunEnds` | `Backpressure.cfg` with `MaxBatch = 1`, `Granted = 4`, `LossyHook = FALSE`, `MaxRuns = 1`, `MaxChanges = 1` |
| `ToldIsHeld` | `TriggerKeys.cfg` with `Configs <- KeyConfigs`, `Cfg <- KeyCfg` |
| `RatesWithPartialSlot` | `Data.cfg` |

* `HoldFollowsKey`. `README.md` promises "Hold: click while the trigger is held".
  `handleRunCommands()` decides every command of a batch as if the run went on,
  also after an earlier one of the batch has ended it. Release and press within
  one wake-up: the release stops the run, the press is taken for a repetition, and
  the trigger is down with nothing running.
* `PausedPastDeadlineIsSilent`. `Modes.h`: "Duration : down -> run for T ms".
  `runMax()` tests the deadline, then pauses for the gate, then sends. If the
  time ran out in the pause, one more batch goes out. `runTimed()` tests again.
* `HeldKnowsDown`. `InputSender.cpp` says "Only events Windows accepted change the
  real key state", and tracks by it; `releaseAll()` drops what Windows refused a
  second time from its record, so that nobody knows it is down.
* `HookComesBack`. The comment on `healthCheck()` promises to reinstall a hook that
  Windows removed "if they stop arriving while we keep injecting". A throttled run
  stops injecting within `maxInflight` events of the loss, usually in the check period
  in which the hook was still counting; from then on nothing is injected.
* `CountRunEnds`. "Fixed count (run N actions, then stop)". `bpBase` is fixed when
  `runMax()` is entered. Backpressure switched on in mid-run counts everything that
  went out before as in flight, and the run spins until it is stopped by hand.
* `ToldIsHeld`. "Hold: click while the trigger is held". A capture has absolute
  priority: the release of the trigger during one is consumed without a report, and
  `beginCapture()` does not end the run. The Hold run goes on with nothing held; the
  next press of the trigger is taken for a repetition and its release ends the run.
* `RatesWithPartialSlot`. `Stats.cpp:189`: "Rolling CPS from completed 100 ms slots (+ the partial current slot)." `sumLast()`
  adds up completed slots only; what the slot in progress has counted is in no rate until it ends. `RatesExact`, which
  holds, says what the rates are.

### What else came up

Behaviour that contradicts no document but that a reader should know of; the models have it.

* Engine. `Arm(false)` behind a `StartRun` in one idle batch does not take the start back
  (`Engine.cpp:198`). A profile switched from Toggle to Burst in an unlimited run: the next press extends the
  run and does not stop it (`Engine.cpp:254`). A configuration is not taken while a run is
  paused (`Engine.cpp:383-393`).
* Lab. A refused `StartRun`, or one overtaken by a stop in the same batch, leaves `labRunActive_` on
  until some other run ends; `LabExplained` names it `dropped`. The benchmark's `runEngine()` waits for its
  run without end if the `StartRun` is refused.
* Emergency chord. A capture refuses the bare left button, the list of keys next to it
  offers it (`AdvancedView.cpp:257`, `SettingsView.cpp:111`).
* Telemetry. A reader that gives up leaves a mixture in its buffer, and `App::tick()` does not look
  at the result. A publish forced in the idle loop fills in the elapsed time of the last run as if it went
  on (`Engine.cpp:618`). The rolling rate is as of the last action.
* Pacing. The loop in `skipLate()` that steps back has nothing to do with exact arithmetic (section 4). Slots skipped beyond the end of the run
  count as missed.
* Store. A failed save is not tried again before the next change or the orderly exit; a log-off saves only if something has changed since. The line that says so is drawn on the main page
  only, for six seconds (`Views.cpp:424-429`), and not at all at exit and log-off, where the window is gone (`MainWindow.cpp:342-348`): such a change
  is lost without a word, which is why `ChangesKept` promises nothing after a save that failed. A restart changes values that no page shows to be wrong: a rate of many digits is
  rounded (`Json.cpp:379`), a batch typed into its slider beyond its range is brought back (`AdvancedView.cpp:282`, `Profile.cpp:147`), so is a window's size
  (`Profile.cpp:212-213`); until then the program works with the value as it was. At logging off the window's place is
  lost unless something else waits to be saved. A `profiles.json` that could not be opened is overwritten at exit
  without a backup (`Profile.cpp:300`). A torn file takes two living instances, after the five seconds one of them waits,
  and a crash.
* Log. Lines logged before `setFileEnabled()` never reach the file (`App.cpp:22-27`); `flush()` has no caller.
* JSON. An escaped high surrogate that is not followed by a low one takes the following escape with it
  (`Json.cpp:258`): the module does so too, and its reference asks nothing of such texts.

## 4. The proofs

All theorems hold for every value of the constants that satisfies the module's
assumption: `EngineAssumption` (configurations are well formed, callers post
commands), `HeldAssumption` (every item has a word, batches are sequences of
events), `BackpressureAssumption` (limits and batches are positive), `TriggerAssumption`
(keys, buttons and wheels are different things, configurations are well formed),
`TelemetryConstants` (there is a word, a read tries at least once), `CaptureConstants`
(no target is called `None`, one is the emergency stop), `LogConstants` and `LabConstants` (bounds are numbers,
profiles are well formed), `CompilerConstants`, `FiguresConstants` and `HistogramConstants` (numbers are numbers, a ring holds
two seconds' slots less one, a bucket is no wider than its power of two), `PacingConstants` (a period is a fraction and at least one tick: the rate has a maximum of
a million a second, and Windows counts at least that many ticks), `StoreConstants` and `StoreBounds` (the program's own words are
words, nobody types a blank name, no list is longer than the 9 998 numbers
`uniqueName()` tries). The bounds are constants too: what is proved holds for all of them.

Induction over data has no library theorem these provers can use, but where
a proof needs it, it takes the least counterexample: `Smallest`, proved once
from the well-foundedness of the naturals, in `PacingProofs`, `StoreProofs` and `AppProofs`.

**Engine types and shape** (`EngineProofs`). `IInv == TypeOK /\ Shape`. `TypeOK` says
that a run never looks past the last step of its action, which needs to know that a
configuration is only swapped at step 0; `Shape` says where the engine thread can be
with which state, that nothing is held outside a run or at a boundary, and that an
action under way is paid for and compiles. Each action of `Next` preserves it;
`TypeCorrect`, `Released` and `WholeActions` follow.

**Engine protocol** (`EngineProofs`), each with its own invariant on top of
`IInv`:

* `NothingLost` from `WakeInv`: a non-empty queue has the flag set or on its way, and
  a set flag has the event set or on its way unless the engine is about to read it.
* `StateFollowsArmed` from `ArmInv`: outside a run the state shows `armed_`, or a
  command that will make it so is still in a caller's hand, in the queue or batch.
* `StoppedIsSilent` from `StopInv`; `StopPrompt` from `LateInv`; `BudgetIsExact` is
  inductive with `IInv`.

**Refinement** (`EngineProofs`). `ImplementsAbstract`: every step of the
engine is a step of `AbstractEngine` or leaves its variables alone, with `status`
mapped to `state`, `budget` to `remaining`, and `alive` to `epc # "exited"`.

**Held input** (`HeldInputProofs`). `HInv` is `TypeOK` with four parts. `SenderInv`:
what is down is tracked or was refused. `RecordInv`: between calls the record has what
the sender has, up to the word being written, and metadata comes before bits.
`WatchdogInv`: the watchdog acts only on a dead process and has been through all
words before it sends. `Covered` itself. From it `NothingUnrecorded`,
`WatchdogLeavesNothing` and `CleanExitIsClean`; `NothingLeft` is the last two together. The difficult step is `Send`: a call that
Windows accepts in part is dirty whenever it presses anything (`InTurnIsDirty`).

**Backpressure** (`BackpressureProofs`). `GapIsExact` is inductive; `QueueBounded`
follows from it, as nothing lost makes the real queue longer than the computed one.

**Trigger keys** (`TriggerKeysProofs`). `IInv` begins with three parts: `HandsTyped`, `HooksInv`
(once the message is through, the hooks are what `NeedHook` wants) and `TriggerInv`,
which is `ReportsFollowKey` with the types of the trigger. The types matter: that a wheel
is never taken as down (`TriggerTyped`) is what keeps a notch, reported as a press and a
release in one call, from contradicting `trigDown_`. `TriggerKeysTyped`,
`ReportsAreRight` and `OneSource` follow. `SlipsAreAll` needs `StrokeInv` on top: a
swallowed press whose release will be swallowed is unseen by the applications, and a
trigger that repeats without having been reported still lacks its modifiers, because a
modifier pressed meanwhile would have taken over the repetition; and
`HookIfSwallowed`: a mouse trigger that is to be swallowed never comes by raw input.

**Telemetry** (`TelemetryProofs`). `IInv` has six parts. `Typed`; `Lock`: the number is odd exactly while
words are copied, and every word not left to copy is the new snapshot; `Copied`: as long as the number is the
one the reader saw, what it has copied is what is in the lock, and an old number means it will try again; `Counted`: the totals
and the run in progress add up to the actions since the last reset; `Runs`: the place of the engine, its state and
`runsCompleted` agree; `Published`: a lock that is at rest is not older than the runs
that were counted, nor is what the reader holds older than what it saw counted before. `ReadsAreWhole` (a
read that succeeds hands out no mixture), `TotalsAreExact` and `ResultsAreFinal` follow. For every number of words, attempts and runs.
`ReadsAreAtomic` is the refinement of `AbstractSnapshot`: `WriteOpen` is its `Publish`, the check of the number its
`ReadSucceeds`, as `Copied` makes what was copied the snapshot on show; taking the result its `ReadIsTaken`; every other step leaves both variables alone.

**Captures** (`AppProofs`). `CaptureInv`: unless a capture was begun between the steps of the trigger thread, a
target waits until its chord is in the field (`Waiting`: state set, in the hand, or handed over), a chord on its way is for the last
capture asked, and every binding is for its own target (`Bound`). `ChordsLandAsAsked` and `FieldsAgree` follow.

**Log** (`AppProofs`). `LogInv`: the old file, the file, the batch and the waiting lines, one after the other,
are growing and together with the lost ones are all lines. Rotating, taking and appending move a boundary between
these lists; lines are lost from an end of one (`Joining`, `Splitting`, `Extending`).

**Gate and lab runs** (`AppProofs`). `GateInv`: the pad the program knows is the one there is, or a message
says otherwise; and the last word counts: the gate is right for the last event and configuration delivered, the last event on its way is the
window in front. `GateFollows` follows when nothing is on its way; `ShownRunsEnd` has an invariant of its own, in which `LabExplained` carries
itself but for the types of the queue.

`LabStaysInPad` is the promise of the lab page with its two known exceptions taken out. `TieInv`: unless `excused`, a lab run that is
asked for, queued or going on (`LabAsked`) has the count it waits for still ahead, and the configuration that will be in force when it sends is tied to the
pad. That configuration (`Effective`) is the last one in the queue, else the pending one, else the current one; so a
drain, which takes the whole queue in one step, leaves it as it was, and a press, a release or a second start among the
commands does not change it. `LastOfAppended` says what `LastOf` does of a longer queue.

**Pacing** (`PacingProofs`). First the grid: `SlotOf` is the nearest tick (`SlotIsNearest`), slots ascend when a period
is a tick or longer (`SlotsAscend`), and the slot that `SkipLate` goes on with has come while its period, before roundings, is not over
(`SkipsFarEnough`). The first half says that the code's `while (idx > k && slot(idx) > now) --idx` is never taken with exact
arithmetic: rounding down the index and rounding the slot to the nearest tick cannot meet; the loop is there for the errors of `double`. `IInv`:
`SlotsCounted` (performed and missed actions are the slots walked over), `Come` (the last of them is not in the future)
and `Allowed` (what is about to be fired has budget and lies before the end). The difficult step is a batch:
the slots that `BatchSize` counts are the next ones without a gap, because slots ascend (`InitialSegment`, from
the pigeon-hole theorem on finite sets), so the last of the batch has come and lies before the end (`BatchIsDue`). `EverySlotOnce` and
`LateRunSkips` follow.

**Action compiler** (`PacingProofs`). The invariant (`Rebuilt`) is that both programs are compiled from the configuration in force; what is left
is about every action. The events of an action ascend in time, and what is down after each of them is known: modifiers up
to a place, the key in every second event between. Grouping them into calls keeps the inputs in
their order, one call per moment, because fourteen events at most are fewer than a call takes. `Fitted` brings the
last offset under nine tenths of the period: its parts are scaled and rounded down, so their sum is at most half of it.
`ActionsWhole`, `ActionsFit` and, with both, `CompilesAsAsked` follow.

**Figures** (`PacingProofs`). `FiguresInv` ties the statistics to the histories: where the slot in progress began, that what it
counted came since (`Ring`), that every slot in the ring, counted back from the head around its end, is the number of actions of its
time, and the same for the second. The difficult steps are one slot pushed (`PushedRing`) and how many are (`AdvanceRing`): a call pushes all
slots that ended, or, after a pause longer than `History + 11` of them, that many, all but one of them empty, and begins anew. Recursive functions
(`Pushed`, the sum of `SumLast`) are reached by `StepByStep`: the function their definition describes exists, so `CHOOSE` returns it.
`RatesAreExact`, `SecondsAreExact`, `AverageIsExact` and, with all three, `FiguresAreRight` follow.

**Histogram** (`PacingProofs`). Times of a power of two lie in one of its parts (`CellOf`), so longer times have no bucket that comes
before (`IndexAscends`) and the middle of a bucket is within half its width of its times, which is a sixteenth of the shortest of them (`MiddleClose`). `HInv`: a bucket counts
the times counted that belong into it. So what `percentile()` has added up before a bucket are the times of those below
(`HitsAre`), and it stops at the bucket of the time of that rank (`TakesItsBucket`). `PercentilesAreClose` follows, for any number of
parts and powers of two.

**Store** (`StoreProofs`). First what the operators return. `UniqueNameIs`: among the numbers from 2 to one more than there are profiles one is
free, by the pigeon-hole theorem. `SettledIs`: the repair of a list, one
profile after the other, leaves all names apart, and leaves a list as it is whose names are apart already.
`LoadedGood` and `LoadedKept`: whatever the files hold, what is loaded is good; what was written by an instance is read back as `AsRead` says, because writing and reading a list leave its names and their order (`JsonKeepsNames`);
`ReadIsStable`: what is lost by a restart is lost at once, a second one changes nothing more.
`EditsGood`: each of the thirteen edits is one change to something good. So all of them are one case in what follows.

`IInv` has seven parts. `TypeOK`. `GoodNames`, which is `NamesDistinct` with what an orderly exit left. `ChangesKept`
itself. `Exclusive`: whoever is past the wait owns the mutex, unless one did not wait long enough. `SaveGoesOn`: a save
belongs to a running instance, what is about to be moved is what that instance holds, and the first file is as it should be when
the second one is written. `Agree`, which is `DiskAgrees` with the moment between the two files told apart. `KeptThere`: as
long as nobody runs, the files are what the last orderly exit left. All but the
first three need `Exclusive`, as a second instance may write or move what the first has in its hands; that is why `DiskAgrees`
and `RestartSeesSaved` except a wait that timed out. `NamesApart`,
`ChangesNotForgotten`, `FilesAgree` and `RestartFindsSaved` (an action property) follow, for any number of instances, edits and faults.

Only model-checked: liveness (TLAPS proves nothing about fairness here): `QuitTerminates`, `StopTakesEffect`, `PauseEnds`,
`LimitedRunEnds`, `WatchdogActs`, `SeenRunEnds`; the readers (`ReadsAsSpelled`), which descend recursively into texts and so are
out of the provers' reach; and whatever is violated.

## 5. Not modelled

* Of the engine: thread priority and power throttling; `Engine` itself has no clock (waits end at any time),
  that is `Pacing`.
* Of the telemetry: extremes and deviations of the jitter, sums of latencies, the text of the last action. `seq_` does
  not wrap: it has 32 bits and takes two numbers per snapshot, so a reader would have to sleep through
  exactly 2^31 snapshots, of which the engine makes some ten a second.
* Of the trigger thread: the cache of process names, which is kept by process id and so
  shows an old name when an id is used again (`TriggerEngine.cpp:285`): one lookup, with no second
  piece of state to relate it to. Injected input, which is passed on at once, the hot key that doubles an
  emergency chord, hooks that fail to install. Left and right modifiers are one key.
* Of the watchdog: the dump and the log line. That it attaches, or comes too late to (`Guardian.cpp:118`), is in `HeldInput`;
  a death before it has attached leaves what is down to nobody, and the properties are about an attached one.
* Of the test pad: the recording of events and the charts made of it. Of the precise waiter: how
  the margin adapts.
* Of the profiles: the fields are one number, one option and the name; their ranges differ, what is done to them does not.
* Number formatting and parsing, `strFormat`, translations, the command line, status texts, themes, drawing, the
  tray's icon: formatting, or immediate-mode drawing. The operations of the pages and of the tray that change state are
  in `Store`, `Lab` and `Capture`.
* The benchmark and autotest scripts drive the program and measure time; nothing reads their results back. Their
  reading of snapshots is in `Telemetry`.
* Platform helpers (registry, process names, performance counter): single calls of Windows.
* `src/third_party/imgui`: vendored.

## 6. Plan

In this order:

1. `Engine` and `Telemetry` composed: `at` and `state` of the one as a refinement of the other.
2. `JsonText` as recursive functions over positions instead of recursive operators over texts, so that reading can be proved about.
3. The jitter of `Stats.cpp`: extremes and deviations against the times they are made of.
