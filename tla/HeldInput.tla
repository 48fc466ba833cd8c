----------------------------- MODULE HeldInput -----------------------------
(***************************************************************************)
(* What the program holds down, and who lets go of it: InputSender (the    *)
(* engine thread's only way to SendInput), the shared record of HeldState, *)
(* the crash handler and the watchdog process of Guardian.                 *)
(*                                                                         *)
(* Windows may refuse any part of any SendInput call, another thread of    *)
(* the process may crash while the engine thread goes on, and the process  *)
(* may be killed between any two steps.  A releasing call is a set of UPs: *)
(* Windows accepts any subset of it here, the program sees only a prefix.  *)
(* The 64-entry buffers never fill (an action holds a handful of inputs).  *)
(***************************************************************************)
EXTENDS Naturals, Sequences

CONSTANTS
    Items,      \* keys and mouse buttons
    Words,      \* 32-bit words of the shared record: keys first, then buttons
    WordOf,     \* WordOf[i]: the word that holds the bit of item i
    Batches     \* the event sequences one SendInput call may carry

Event == [item : Items, press : BOOLEAN]

ASSUME HeldAssumption ==
    /\ Words \in Nat \ {0}
    /\ WordOf \in [Items -> 1..Words]
    /\ Batches \subseteq Seq(Event)

Releasers == {"handler", "guardian"}   \* the callers of releaseHeldFrom()

VARIABLES
    down,       \* what Windows believes is held down because of this program
    refused,    \* what Windows refused to let go of in a last attempt
    balked,     \* Windows has refused part of some call
    \* InputSender, on the engine thread
    held,       \* heldKeys_, heldMouse_
    left,       \* releaseAll(): what the first call did not release
    fresh,      \* pressed by the call that publish() has not finished recording
    epc, word, after,
    \* HeldShared
    bits, meta,
    \* the process: running, cleanExit set, its engine thread stopped by a crash
    alive, clean, frozen,
    \* releaseHeldFrom(), per caller
    rpc, rword, taken

record    == <<bits, meta>>
senderLocals == <<held, left, fresh, epc, word, after>>
releasers == <<rpc, rword, taken>>
process   == <<alive, clean, frozen>>
world     == <<down, refused, balked>>
vars == <<world, senderLocals, record, process, releasers>>

InWord(w) == {i \in Items : WordOf[i] = w}

\* Mutant: one word too many.
PastLastWord(w) == w > Words

LastWord(w) == w = Words

TypeOK ==
    /\ {down, refused, held, left, fresh, bits, meta} \subseteq SUBSET Items
    /\ epc \in {"idle", "meta", "bits", "retry", "exited"}
    /\ word \in 1..Words /\ after \in {"idle", "exited"}
    /\ {alive, clean, frozen, balked} \subseteq BOOLEAN
    /\ rpc \in [Releasers -> {"off", "starting", "watching", "failed",
                              "take", "send", "done"}]
    /\ rword \in [Releasers -> 1..Words]
    /\ taken \in [Releasers -> SUBSET Items]

\* The watchdog is started if the settings say so.
Init ==
    /\ down = {} /\ refused = {} /\ balked = FALSE
    /\ held = {} /\ left = {} /\ fresh = {}
    /\ epc = "idle" /\ word = 1 /\ after = "idle"
    /\ bits = {} /\ meta = {}
    /\ alive = TRUE /\ clean = FALSE /\ frozen = FALSE
    /\ \E g \in {"off", "starting"} : rpc = [handler |-> "off", guardian |-> g]
    /\ rword = [r \in Releasers |-> 1] /\ taken = [r \in Releasers |-> {}]

-----------------------------------------------------------------------------
(* InputSender.                                                            *)

\* The engine thread runs.
Up == alive /\ ~frozen

\* What the first n events of batch b make of the set s of held items.
Apply(s, b, n) ==
    {i \in Items :
       LET mine == {j \in 1..n : b[j].item = i}
       IN IF mine = {} THEN i \in s
          ELSE \E j \in mine : b[j].press /\ \A k \in mine : k <= j}

Pressed(b, n) == {b[j].item : j \in {k \in 1..n : b[k].press}}

\* track() saw a change; a press and its release in one call count as well.
Dirty(b, n) == \E j \in 1..n : Apply(held, b, j) # held

\* The steps of an action press what is up and lift what they pressed; that
\* is what happens, too, as long as Windows accepts every call.
InTurn(b) ==
    balked \/ \A j \in 1..Len(b) : b[j].press <=> b[j].item \notin Apply(held, b, j - 1)

\* send(): Windows accepts the first n events, and only those are tracked.
Send ==
    /\ Up /\ epc = "idle"
    /\ \E b \in Batches : \E n \in 0..Len(b) :
         /\ InTurn(b)
         /\ balked' = (balked \/ n < Len(b))
         /\ down' = Apply(down, b, n)
         /\ held' = Apply(held, b, n)
         /\ IF Dirty(b, n) THEN epc' = "meta" /\ fresh' = Pressed(b, n)
                           ELSE UNCHANGED <<epc, fresh>>
    /\ UNCHANGED <<refused, left, word, after, record, process, releasers>>

\* Mutant: only the bits.
PublishNoMeta == UNCHANGED meta

\* publish(): the metadata of everything held, then the words one by one.
PublishMeta == meta' = meta \cup held

StartPublish ==
    /\ Up /\ epc = "meta"
    /\ PublishMeta
    /\ epc' = "bits" /\ word' = 1
    /\ UNCHANGED <<world, held, left, fresh, after, bits, process, releasers>>

PublishWord ==
    /\ Up /\ epc = "bits"
    /\ bits' = (bits \ InWord(word)) \cup (held \cap InWord(word))
    /\ IF LastWord(word)
       THEN /\ word' = 1 /\ fresh' = {}
            /\ epc' = IF left # {} THEN "retry" ELSE after
       ELSE word' = word + 1 /\ UNCHANGED <<epc, fresh>>
    /\ UNCHANGED <<world, held, left, after, meta, process, releasers>>

\* releaseAll(), called on a stop, a pause, an emergency and, then = "exited",
\* as the last act of the engine thread.  Windows accepts the UPs of `ok`.
ReleaseAll(then) ==
    /\ Up /\ epc = "idle"
    /\ after' = then
    /\ \E ok \in SUBSET held :
         /\ down' = down \ ok
         /\ held' = held \ ok
         /\ left' = held \ ok
         /\ epc' = IF ok # {} THEN "meta" ELSE IF held # {} THEN "retry" ELSE then
         /\ balked' = (balked \/ ok # held)
    /\ UNCHANGED <<refused, fresh, word, record, process, releasers>>

\* The one retry.  Whatever Windows says, everything is tracked as released.
Retry ==
    /\ Up /\ epc = "retry"
    /\ \E ok \in SUBSET left :
         /\ down' = down \ ok
         /\ refused' = refused \cup (left \ ok)
    /\ UNCHANGED balked
    /\ held' = held \ left /\ left' = {}
    /\ epc' = "meta"
    /\ UNCHANGED <<fresh, word, after, record, process, releasers>>

\* threadMain() returns.
Leave == ReleaseAll("exited")

\* App::shutdown(): the engine thread has been joined; markCleanExit().
MarkCleanExit ==
    /\ alive /\ epc = "exited" /\ ~clean
    /\ clean' = TRUE
    /\ UNCHANGED <<world, senderLocals, record, alive, frozen, releasers>>

-----------------------------------------------------------------------------
(* The end of the process.                                                 *)

Death == /\ alive' = FALSE
         /\ UNCHANGED <<world, senderLocals, record, clean, frozen, releasers>>

Exit == alive /\ clean /\ Death

\* Killed from outside, or by a second crash: g_inCrash makes that one skip
\* the release and end the process under the first one's feet.
Kill == alive /\ Death

\* The first crash, of the engine thread or of another one.
Crash ==
    /\ alive /\ rpc["handler"] = "off"
    /\ rpc' = [rpc EXCEPT !["handler"] = "take"]
    /\ frozen' \in BOOLEAN
    /\ UNCHANGED <<world, senderLocals, record, alive, clean, rword, taken>>

\* The dump is written and the process ends.
CrashExit == alive /\ rpc["handler"] = "done" /\ Death

-----------------------------------------------------------------------------
(* releaseHeldFrom(): exchange the words for 0 one by one, then one call.  *)

\* The crash handler lives in the process, the watchdog acts after it.
Acts(r) == alive <=> r = "handler"

Take(r) ==
    /\ Acts(r) /\ rpc[r] = "take"
    /\ taken' = [taken EXCEPT ![r] = @ \cup (bits \cap InWord(rword[r]))]
    /\ bits' = bits \ InWord(rword[r])
    /\ IF LastWord(rword[r])
       THEN rpc' = [rpc EXCEPT ![r] = "send"] /\ UNCHANGED rword
       ELSE rword' = [rword EXCEPT ![r] = @ + 1] /\ UNCHANGED rpc
    /\ UNCHANGED <<world, senderLocals, meta, process>>

\* An UP without metadata releases nothing; what Windows refuses is not retried.
Release(r) ==
    /\ Acts(r) /\ rpc[r] = "send"
    /\ \E no \in SUBSET taken[r] :
         /\ down' = down \ ((taken[r] \ no) \cap meta)
         /\ refused' = refused \cup no
         /\ balked' = (balked \/ no # {})
    /\ taken' = [taken EXCEPT ![r] = {}]
    /\ rpc' = [rpc EXCEPT ![r] = "done"]
    /\ UNCHANGED <<senderLocals, record, process, rword>>

-----------------------------------------------------------------------------
(* runGuardian().                                                          *)

\* It needs the process alive to open its handle and the section.
Attach ==
    /\ rpc["guardian"] = "starting"
    /\ rpc' = [rpc EXCEPT !["guardian"] = IF alive THEN "watching" ELSE "failed"]
    /\ UNCHANGED <<world, senderLocals, record, process, rword, taken>>

\* Mutant: cleanExit is read the wrong way round.
AfterDeathInverted == IF clean THEN "take" ELSE "done"

AfterDeath == IF clean THEN "done" ELSE "take"

\* Mutant: the watchdog looks at cleanExit before it looks at the process.
WakeUnlessClean ==
    /\ rpc["guardian"] = "watching" /\ ~alive /\ ~clean
    /\ rpc' = [rpc EXCEPT !["guardian"] = AfterDeath]
    /\ UNCHANGED <<world, senderLocals, record, process, rword, taken>>

Wake ==
    /\ rpc["guardian"] = "watching" /\ ~alive
    /\ rpc' = [rpc EXCEPT !["guardian"] = AfterDeath]
    /\ UNCHANGED <<world, senderLocals, record, process, rword, taken>>

Guardian == Attach \/ Wake \/ Take("guardian") \/ Release("guardian")
Handler  == Take("handler") \/ Release("handler") \/ CrashExit

Next ==
    \/ Send \/ StartPublish \/ PublishWord \/ ReleaseAll("idle") \/ Retry \/ Leave
    \/ MarkCleanExit \/ Exit \/ Kill \/ Crash
    \/ Guardian \/ Handler

Spec == Init /\ [][Next]_vars

\* The watchdog process keeps running while it can.
FairSpec == Spec /\ WF_vars(Guardian)

-----------------------------------------------------------------------------
\* Everything held down is on record: its bit is in the shared record, or a
\* releaser has taken the bit and will send the UP, or the call that pressed
\* it has not been published yet, or Windows refused the last UP.
\* (A crash of another thread does not stop the engine thread.  If Windows has
\* refused an UP before, the engine may then press that item again, unseen.)
OnRecord == bits \cup taken["handler"] \cup taken["guardian"] \cup fresh \cup refused
Unseen == balked /\ rpc["handler"] # "off" /\ ~frozen
Covered == Unseen \/ down \subseteq OnRecord

\* When an attached watchdog has finished, nothing is held down but what
\* Windows refused, what was pressed by the very call the process died in, or
\* what a crash handler was about to release when it was killed.
WatchdogReleases ==
    (rpc["guardian"] = "done" /\ ~Unseen) => down \subseteq fresh \cup taken["handler"] \cup refused

\* After an orderly shutdown nothing is held down but what Windows refused.
CleanExitReleased == clean => down \subseteq refused

\* Whichever way the program ends, by dying or by leaving, nothing stays down
\* that it or its watchdog could have released.
NothingLeftDown == WatchdogReleases /\ CleanExitReleased

\* However a process dies under an attached watchdog, the watchdog cleans up
\* after it and ends.
WatchdogActs == (~alive /\ rpc["guardian"] = "watching") ~> (rpc["guardian"] = "done")

\* InputSender.cpp: "Only events Windows accepted change the real key state."
\* The sender's record never misses an item that is really down.
HeldKnowsDown == down \subseteq held
=============================================================================
