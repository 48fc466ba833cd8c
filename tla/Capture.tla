------------------------------- MODULE Capture -------------------------------
(* Binding a key: the UI thread begins a capture for one of three targets,    *)
(* cancels it or lets it time out (App.cpp), the trigger thread takes the     *)
(* first press while a capture is on, in three steps that the UI thread may   *)
(* come between (TriggerEngine.cpp handleKey(), App::onCaptured()), and the   *)
(* chord is handed over under a mutex and by a message.                       *)
(* A chord is named by the capture it was pressed for: 0 for any other.       *)
EXTENDS Integers, Sequences

CONSTANTS Targets,      \* Trigger, Action, Emergency
          None,         \* CaptureTarget::None
          MaxCaptures   \* bound: captures begun

ASSUME CaptureConstants ==
  /\ None \notin Targets /\ "Emergency" \in Targets
  /\ MaxCaptures \in Nat

VARIABLES
  captureTarget, \* App::captureTarget_
  asked,         \* the target of each capture so far
  captureState,  \* TriggerEngine::captureState_ is not 0
  hand,          \* the trigger thread: idle, read the state, reset it; and its chord
  captured,      \* App::captured_ and capturedValid_
  mail,          \* WM_APP_CAPTURED not yet handled
  binding,       \* the chord each target is bound to
  between        \* a capture was begun between the steps of the trigger thread

capturevars == <<captureTarget, asked, captureState, hand, captured, mail, binding, between>>

Free == [at |-> "idle", chord |-> 0, left |-> FALSE]

CaptureInit ==
  /\ captureTarget = None /\ asked = <<>> /\ captureState = FALSE
  /\ hand = Free /\ captured = [valid |-> FALSE, chord |-> 0, left |-> FALSE]
  /\ mail = 0 /\ binding = [t \in Targets |-> 0] /\ between = FALSE
------------------------------------------------------------------------------
(* The UI thread                                                              *)

\* Mutant: a chord that came too late for the last capture is left where it is.
BeginOverLeftover ==
  /\ Len(asked) < MaxCaptures
  /\ \E t \in Targets : captureTarget' = t /\ asked' = Append(asked, t)
  /\ captureState' = TRUE
  /\ between' = (between \/ hand.at # "idle")
  /\ UNCHANGED <<hand, captured, mail, binding>>

(* App::beginCapture(); a click into another field begins a second capture    *)
(* without a cancel.                                                          *)
BeginCapture ==
  /\ Len(asked) < MaxCaptures
  /\ \E t \in Targets \ {captureTarget} : captureTarget' = t /\ asked' = Append(asked, t)
  /\ captured' = [captured EXCEPT !.valid = FALSE]
  /\ captureState' = TRUE
  /\ between' = (between \/ hand.at # "idle")
  /\ UNCHANGED <<hand, mail, binding>>

\* Mutant: the trigger thread is not told that nobody waits any more.
CancelShownOnly ==
  /\ captureTarget # None /\ captureTarget' = None
  /\ UNCHANGED <<asked, captureState, hand, captured, mail, binding, between>>

(* App::cancelCapture(), by a click or after eight seconds.                   *)
CancelCapture ==
  /\ captureTarget # None /\ captureTarget' = None
  /\ captureState' = FALSE
  /\ UNCHANGED <<asked, hand, captured, mail, binding, between>>

(* A chord picked from the list of keys is bound at once, whatever waits.     *)
KeyPicker ==
  /\ \E t \in Targets : binding' = [binding EXCEPT ![t] = 0]
  /\ UNCHANGED <<captureTarget, asked, captureState, hand, captured, mail, between>>

(* WM_APP_CAPTURED: App::applyCaptured(). The bare left button is refused as  *)
(* an emergency stop.                                                         *)
ApplyCaptured ==
  /\ mail > 0 /\ mail' = mail - 1
  /\ captured' = [captured EXCEPT !.valid = FALSE]
  /\ captureTarget' = IF captured.valid THEN None ELSE captureTarget
  /\ binding' = IF /\ captured.valid /\ captureTarget # None
                   /\ ~(captureTarget = "Emergency" /\ captured.left)
                THEN [binding EXCEPT ![captureTarget] = captured.chord] ELSE binding
  /\ UNCHANGED <<asked, captureState, hand, between>>
------------------------------------------------------------------------------
(* The trigger thread                                                         *)

(* A press while captureState_ is set: the chord is made,                     *)
CapturePress ==
  /\ hand.at = "idle" /\ captureState
  /\ \E l \in BOOLEAN :
       hand' = [at |-> "read", left |-> l,
                chord |-> IF captureTarget = None THEN 0 ELSE Len(asked)]
  /\ UNCHANGED <<captureTarget, asked, captureState, captured, mail, binding, between>>

(* the capture is over,                                                       *)
Reset ==
  /\ hand.at = "read" /\ hand' = [hand EXCEPT !.at = "reset"]
  /\ captureState' = FALSE
  /\ UNCHANGED <<captureTarget, asked, captured, mail, binding, between>>

(* and App::onCaptured() hands the chord over.                                *)
OnCaptured ==
  /\ hand.at = "reset" /\ hand' = Free
  /\ captured' = [valid |-> TRUE, chord |-> hand.chord, left |-> hand.left]
  /\ mail' = mail + 1
  /\ UNCHANGED <<captureTarget, asked, captureState, binding, between>>

CaptureNext ==
  \/ BeginCapture \/ CancelCapture \/ KeyPicker \/ ApplyCaptured
  \/ CapturePress \/ Reset \/ OnCaptured
CaptureSpec == CaptureInit /\ [][CaptureNext]_capturevars
------------------------------------------------------------------------------
(* A chord is bound to the target whose field was waiting when it was         *)
(* pressed, however captures are cancelled, time out and follow one another   *)
(* while chords are on their way (App.cpp beginCapture(), applyCaptured()).   *)
(* Only a capture begun in the microseconds in which the trigger thread takes *)
(* a press may get the chord of the one before.                               *)
BoundAsAsked ==
  ~between => \A t \in Targets : binding[t] # 0 => asked[binding[t]] = t

(* Nobody listens unseen, or is shown and does not listen: with no press and  *)
(* no message on its way, a field waits exactly when the trigger thread takes *)
(* the next press, which it swallows.                                         *)
CaptureAgrees ==
  ~between /\ hand.at = "idle" /\ mail = 0 => (captureState <=> captureTarget # None)
==============================================================================
