--------------------------------- MODULE Log ---------------------------------
(* The logger (core/Log.cpp): the threads of the program append lines to a    *)
(* list under a lock, the logger's own thread takes the list and appends it   *)
(* to the file outside the lock, and App::shutdown() ends it. The settings    *)
(* page switches the file on and off meanwhile (App.cpp settingsChanged()).   *)
(* A line is its number; how long the file may get is counted in lines.       *)
(* flush() has no caller and is left out, as is the ring shown in the window. *)
EXTENDS Integers, Sequences, FiniteSets, SequencesExt

CONSTANTS RotateLines,   \* kRotateBytes
          MaxLines,      \* bound: lines written
          MaxSwitches,   \* bound: times the file is switched on or off
          MaxRefusals    \* bound: calls on a file that Windows refuses

ASSUME LogConstants == {RotateLines, MaxLines, MaxSwitches, MaxRefusals} \subseteq Nat

VARIABLES
  counter,   \* lines accepted
  pending,   \* lines waiting for the file writer
  batch,     \* what the writer has taken
  at,        \* the writer: wait, append, over (the loop), last (append), gone
  quit,
  started,
  fileOn,
  file, old, \* the lines in InfinityClicker.log and in InfinityClicker.old.log
  lost,      \* history: lines given up, with the file off, refused or rotated away
  switches, refusals

lists == <<pending, batch, at>>
files == <<file, old, lost, refusals>>
logvars == <<counter, lists, quit, started, fileOn, files, switches>>

LogInit ==
  /\ counter = 0 /\ pending = <<>> /\ batch = <<>> /\ at = "wait"
  /\ quit = FALSE /\ started = TRUE /\ fileOn = FALSE
  /\ file = <<>> /\ old = <<>> /\ lost = {} /\ switches = 0 /\ refusals = 0

(* write(), by any thread. App::shutdown() has joined all of them but its own *)
(* when it comes to the logger. Without the file a line is for the window     *)
(* only.                                                                      *)
Write ==
  /\ ~quit /\ counter < MaxLines
  /\ counter' = counter + 1
  /\ pending' = IF fileOn /\ started THEN Append(pending, counter') ELSE pending
  /\ lost' = IF fileOn /\ started THEN lost ELSE lost \cup {counter'}
  /\ UNCHANGED <<batch, at, quit, started, fileOn, file, old, refusals, switches>>

SetFileEnabled ==
  /\ ~quit /\ switches < MaxSwitches /\ switches' = switches + 1
  /\ fileOn' = ~fileOn
  /\ UNCHANGED <<counter, lists, quit, started, files>>

(* appendToFile(): a file that has grown too long becomes the old one first.  *)
(* Windows may refuse to open the file, before or after that, to move it, or  *)
(* to write all of the batch.                                                 *)
Written(n, rotate, refused) ==
  /\ file' = (IF rotate THEN <<>> ELSE file) \o SubSeq(batch, 1, n)
  /\ old' = IF rotate THEN file ELSE old
  /\ lost' = lost \cup ToSet(SubSeq(batch, n + 1, Len(batch)))
                  \cup (IF rotate THEN ToSet(old) ELSE {})
  /\ refusals' = refusals + refused

AppendToFile ==
  LET long == Len(file) > RotateLines
  IN  \/ Written(Len(batch), long, 0)
      \/ /\ refusals < MaxRefusals
         /\ \E n \in 0 .. Len(batch), rotate \in BOOLEAN :
              (rotate => long) /\ Written(n, rotate, 1)

(* Or with the file off by now.                                               *)
Drop == ~fileOn /\ lost' = lost \cup ToSet(batch) /\ UNCHANGED <<file, old, refusals>>

(* writerLoop() wakes up, twice a second, for many lines or to quit, and      *)
(* takes what there is; then it looks at quit again.                          *)
Take ==
  /\ at = "wait" /\ pending # <<>>
  /\ batch' = pending /\ pending' = <<>> /\ at' = "append"
  /\ UNCHANGED <<counter, quit, started, fileOn, files, switches>>

\* Mutant: the list is emptied after the batch was written, not when it was taken.
AppendBatchThenClear ==
  /\ at = "append" /\ at' = (IF quit THEN "over" ELSE "wait") /\ batch' = <<>> /\ pending' = <<>>
  /\ IF fileOn THEN AppendToFile ELSE Drop
  /\ UNCHANGED <<counter, quit, started, fileOn, switches>>

AppendBatch ==
  /\ at = "append" /\ at' = (IF quit THEN "over" ELSE "wait") /\ batch' = <<>>
  /\ IF fileOn THEN AppendToFile ELSE Drop
  /\ UNCHANGED <<counter, pending, quit, started, fileOn, switches>>

(* The loop has ended: one more batch, if the file is on.                     *)
TakeLast ==
  /\ at \in {"wait", "over"} /\ quit
  /\ IF pending # <<>> /\ fileOn
     THEN batch' = pending /\ pending' = <<>> /\ at' = "last" /\ UNCHANGED lost
     ELSE at' = "gone" /\ lost' = lost \cup ToSet(pending) /\ UNCHANGED <<batch, pending>>
  /\ UNCHANGED <<counter, quit, started, fileOn, file, old, refusals, switches>>

AppendLast ==
  /\ at = "last" /\ at' = "gone" /\ batch' = <<>>
  /\ AppendToFile
  /\ UNCHANGED <<counter, pending, quit, started, fileOn, switches>>

(* shutdown() sets quit and joins the writer.                                 *)
Quit ==
  /\ started /\ ~quit /\ quit' = TRUE
  /\ UNCHANGED <<counter, lists, started, fileOn, files, switches>>

Joined ==
  /\ started /\ at = "gone" /\ started' = FALSE
  /\ UNCHANGED <<counter, lists, quit, fileOn, files, switches>>

LogNext ==
  \/ Write \/ SetFileEnabled \/ Quit \/ Joined
  \/ Take \/ AppendBatch \/ TakeLast \/ AppendLast
LogSpec == LogInit /\ [][LogNext]_logvars
------------------------------------------------------------------------------
(* Every line accepted while the file is on is in the files, or on its way    *)
(* there, once and in order, and in the files when the logger has ended; but  *)
(* for those that came with the file off, that Windows refused, or that were  *)
(* rotated away (Log.h: a background thread does the file I/O).               *)
LogKeepsLines ==
  LET kept == old \o file \o (IF started THEN batch \o pending ELSE <<>>)
  IN  /\ ToSet(kept) \cup lost = 1 .. counter
      /\ \A j, k \in DOMAIN kept : j < k => kept[j] < kept[k]
==============================================================================
