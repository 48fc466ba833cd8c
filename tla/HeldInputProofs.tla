-------------------------- MODULE HeldInputProofs --------------------------
(***************************************************************************)
(* Proofs about HeldInput.tla, for every set of items, layout of the       *)
(* shared record and set of event sequences: nothing the program holds     *)
(* down is ever off the record, and what follows for the watchdog and for  *)
(* an orderly exit.                                                        *)
(***************************************************************************)
EXTENDS HeldInput, TLAPS

-----------------------------------------------------------------------------
(* What a prefix of a batch does to a set of held items.                   *)

LEMMA BatchTypes ==
    ASSUME NEW b \in Batches, NEW n \in 0..Len(b), NEW j \in 1..n
    PROVE  /\ Len(b) \in Nat /\ n \in Nat
           /\ b[j].item \in Items /\ b[j].press \in BOOLEAN
  <1>1. b \in Seq(Event)
    BY HeldAssumption
  <1>2. Len(b) \in Nat /\ j \in 1..Len(b) /\ b[j] \in Event
    BY <1>1
  <1> QED BY <1>2 DEF Event

\* It adds only what it presses.
LEMMA ApplyAdds ==
    ASSUME NEW b \in Batches, NEW n \in 0..Len(b), NEW s
    PROVE  /\ Apply(s, b, n) \subseteq s \cup Pressed(b, n)
           /\ Apply(s, b, n) \subseteq Items
  BY DEF Apply, Pressed

\* It does the same to a smaller set.
LEMMA ApplyMonotone ==
    ASSUME NEW b \in Batches, NEW n \in 0..Len(b), NEW s, NEW t, NEW r, s \subseteq t \cup r
    PROVE  Apply(s, b, n) \subseteq Apply(t, b, n) \cup r
  BY DEF Apply

\* What it presses is held right after the event that presses it.
LEMMA PressedIsHeld ==
    ASSUME NEW b \in Batches, NEW n \in 0..Len(b), NEW s, NEW i \in Pressed(b, n)
    PROVE  i \in Items /\ \E j \in 1..n : i \in Apply(s, b, j)
  <1>1. PICK j \in 1..n : b[j].press /\ b[j].item = i
    BY DEF Pressed
  <1>2. i \in Items /\ n \in Nat
    BY <1>1, BatchTypes
  <1>3. i \in Apply(s, b, j)
    BY <1>1, <1>2 DEF Apply
  <1> QED BY <1>1, <1>2, <1>3

\* A call that changes nothing in the record presses only what is recorded.
LEMMA CleanCallPresses ==
    ASSUME NEW b \in Batches, NEW n \in 0..Len(b), ~Dirty(b, n)
    PROVE  Pressed(b, n) \subseteq held
  BY PressedIsHeld DEF Dirty

\* A call in turn, of which Windows accepts anything, changes the record.
LEMMA InTurnIsDirty ==
    ASSUME NEW b \in Batches, NEW n \in 0..Len(b), InTurn(b), ~balked, n # 0, held \subseteq Items
    PROVE  Dirty(b, n)
  <1>1. n \in Nat /\ Len(b) \in Nat /\ 1 \in 1..n /\ 1 \in 1..Len(b)
    BY HeldAssumption
  <1>2. b[1].item \in Items
    BY <1>1, BatchTypes
  <1>3. Apply(held, b, 0) = held
    BY DEF Apply
  <1>4. b[1].press <=> b[1].item \notin held
    BY <1>1, <1>3 DEF InTurn
  <1>5. b[1].item \in Apply(held, b, 1) <=> b[1].press
    BY <1>1, <1>2 DEF Apply
  <1> QED BY <1>1, <1>4, <1>5 DEF Dirty

-----------------------------------------------------------------------------
(* The inductive invariant.                                                *)

Publishing == epc \in {"meta", "bits"}

\* The sender's record misses only what Windows refused in a last attempt,
\* and after the last releaseAll() it holds what that call has yet to retry.
SenderInv ==
    /\ down \subseteq held \cup refused
    /\ ~Publishing => fresh = {}
    /\ epc = "idle" => after = "idle"
    /\ after = "exited" => held = left
    /\ epc = "exited" => held = {}
    /\ clean => epc = "exited"

\* While no crash handler is at work the shared record says what the sender's
\* says, up to the word that is being published; metadata comes first.
RecordInv ==
    /\ bits \subseteq meta /\ \A r \in Releasers : taken[r] \subseteq meta
    /\ epc = "bits" => held \subseteq meta
    /\ (alive /\ rpc["handler"] = "off" /\ ~Publishing) => held \subseteq bits
    /\ (alive /\ rpc["handler"] = "off" /\ epc = "bits") =>
         \A i \in held : WordOf[i] < word => i \in bits
    /\ (alive /\ epc = "bits" /\ ~Unseen) =>
         \A i \in down : WordOf[i] < word => i \in bits \cup taken["handler"] \cup refused

\* The watchdog acts on a dead process and goes through all words.
WatchdogInv ==
    /\ rpc["guardian"] \in {"take", "send", "done"} => ~alive
    /\ rpc["guardian"] \notin {"take", "send"} => taken["guardian"] = {}
    /\ rpc["guardian"] \notin {"take", "send", "done"} => rword["guardian"] = 1
    /\ rpc["guardian"] = "take" => \A i \in bits : WordOf[i] >= rword["guardian"]
    /\ rpc["guardian"] = "send" => bits = {}
    /\ (rpc["guardian"] = "done" /\ ~clean) => bits = {}

HInv == TypeOK /\ SenderInv /\ RecordInv /\ WatchdogInv /\ Covered

LEMMA HInit == Init => HInv
  <1> SUFFICES ASSUME Init PROVE HInv
    OBVIOUS
  <1>1. PICK g \in {"off", "starting"} : rpc = [handler |-> "off", guardian |-> g]
    BY DEF Init
  <1>2. rpc["handler"] = "off" /\ rpc["guardian"] = g /\ 1 \in 1..Words
    BY <1>1, HeldAssumption
  <1>3. TypeOK
    BY <1>1, <1>2 DEF Init, TypeOK, Releasers
  <1> QED
    BY <1>2, <1>3 DEF Init, HInv, SenderInv, RecordInv, WatchdogInv, Covered, Publishing, Releasers

\* The engine thread's steps touch neither the process nor the releasers.
LEMMA SendStep == ASSUME HInv, Send PROVE HInv'
  <1> USE DEF HInv, senderLocals, record, process, releasers
  <1>1. PICK b \in Batches : \E n \in 0..Len(b) :
          /\ InTurn(b)
          /\ balked' = (balked \/ n < Len(b))
          /\ down' = Apply(down, b, n)
          /\ held' = Apply(held, b, n)
          /\ IF Dirty(b, n) THEN epc' = "meta" /\ fresh' = Pressed(b, n)
                            ELSE UNCHANGED <<epc, fresh>>
    BY DEF Send
  <1>2. PICK n \in 0..Len(b) :
          /\ InTurn(b)
          /\ balked' = (balked \/ n < Len(b))
          /\ down' = Apply(down, b, n)
          /\ held' = Apply(held, b, n)
          /\ IF Dirty(b, n) THEN epc' = "meta" /\ fresh' = Pressed(b, n)
                            ELSE UNCHANGED <<epc, fresh>>
    BY <1>1
  <1>3. /\ epc = "idle" /\ alive /\ ~frozen /\ fresh = {} /\ ~clean /\ after = "idle"
        /\ UNCHANGED <<refused, left, word, after, bits, meta, alive, clean, frozen, rpc, rword, taken>>
    BY DEF Send, Up, SenderInv, Publishing
  <1>4. Len(b) \in Nat /\ n \in Nat /\ n <= Len(b)
    BY HeldAssumption
  <1>5. held \subseteq Items /\ Pressed(b, n) \subseteq Items
    BY PressedIsHeld DEF TypeOK
  <1>6. down' \subseteq Items /\ held' \subseteq Items /\ balked' \in BOOLEAN
    BY <1>2, ApplyAdds DEF TypeOK
  <1>7. down' \subseteq held' \cup refused'
    BY <1>2, <1>3, ApplyMonotone DEF SenderInv
  <1>8. CASE Dirty(b, n)
    <2>1. epc' = "meta" /\ fresh' = Pressed(b, n)
      BY <1>2, <1>8
    <2>2. TypeOK'
      BY <1>3, <1>5, <1>6, <2>1 DEF TypeOK
    <2>3. SenderInv'
      BY <1>3, <1>7, <2>1 DEF SenderInv, Publishing
    <2>4. RecordInv'
      BY <1>3, <2>1 DEF RecordInv, Publishing
    <2>5. WatchdogInv'
      BY <1>3 DEF WatchdogInv
    <2>6. Covered'
      <3>1. down' \subseteq down \cup fresh'
        BY <1>2, <2>1, ApplyAdds
      <3>2. Unseen => Unseen'
        BY <1>2, <1>3 DEF Unseen
      <3> QED BY <1>3, <3>1, <3>2 DEF Covered, OnRecord
    <2> QED BY <2>2, <2>3, <2>4, <2>5, <2>6
  <1>9. CASE ~Dirty(b, n)
    <2>1. epc' = epc /\ fresh' = fresh
      BY <1>2, <1>9
    <2>2. held' = held
      <3>1. CASE n = 0
        BY <1>2, <1>5, <3>1 DEF Apply
      <3>2. CASE n # 0
        <4>1. n \in 1..n
          BY <1>4, <3>2
        <4> QED BY <1>2, <1>9, <4>1 DEF Dirty
      <3> QED BY <3>1, <3>2
    <2>3. TypeOK'
      BY <1>3, <1>6, <2>1 DEF TypeOK
    <2>4. SenderInv'
      BY <1>3, <1>7, <2>1, <2>2 DEF SenderInv, Publishing
    <2>5. RecordInv'
      BY <1>3, <2>1, <2>2 DEF RecordInv, Publishing
    <2>6. WatchdogInv'
      BY <1>3 DEF WatchdogInv
    <2>7. Covered'
      <3>1. down' \subseteq down \cup Pressed(b, n)
        BY <1>2, ApplyAdds
      <3>2. Unseen => Unseen'
        BY <1>2, <1>3 DEF Unseen
      <3>3. CASE rpc["handler"] = "off"
        <4>1. Pressed(b, n) \subseteq bits
          BY <1>3, <1>9, <3>3, CleanCallPresses DEF RecordInv, Publishing
        <4> QED BY <1>3, <2>1, <3>1, <3>2, <4>1 DEF Covered, OnRecord
      <3>4. CASE rpc["handler"] # "off" /\ ~Unseen'
        <4>1. ~balked
          BY <1>2, <1>3, <3>4 DEF Unseen, TypeOK
        <4>2. n = 0
          BY <1>2, <1>5, <1>9, <4>1, InTurnIsDirty
        <4>3. Pressed(b, n) = {}
          BY <4>2 DEF Pressed
        <4> QED BY <1>3, <2>1, <3>1, <3>2, <4>3 DEF Covered, OnRecord
      <3> QED BY <3>3, <3>4 DEF Covered
    <2> QED BY <2>3, <2>4, <2>5, <2>6, <2>7
  <1> QED BY <1>8, <1>9

LEMMA ReleaseAllStep ==
    ASSUME HInv, NEW then \in {"idle", "exited"}, ReleaseAll(then)
    PROVE  HInv'
  <1> USE DEF HInv, senderLocals, record, process, releasers
  <1>1. PICK ok \in SUBSET held :
          /\ down' = down \ ok
          /\ held' = held \ ok
          /\ left' = held \ ok
          /\ epc' = IF ok # {} THEN "meta" ELSE IF held # {} THEN "retry" ELSE then
          /\ balked' = (balked \/ ok # held)
    BY DEF ReleaseAll
  <1>2. /\ epc = "idle" /\ alive /\ ~clean /\ fresh = {} /\ after' = then
        /\ UNCHANGED <<refused, fresh, word, bits, meta, alive, clean, frozen, rpc, rword, taken>>
    BY DEF ReleaseAll, Up, SenderInv, Publishing
  <1>3. TypeOK'
    BY <1>1, <1>2 DEF TypeOK
  <1>4. SenderInv'
    BY <1>1, <1>2 DEF SenderInv, Publishing
  <1>5. RecordInv'
    BY <1>1, <1>2 DEF RecordInv, Publishing
  <1>6. WatchdogInv'
    BY <1>2 DEF WatchdogInv
  <1>7. Covered'
    BY <1>1, <1>2 DEF Covered, OnRecord, Unseen
  <1> QED BY <1>3, <1>4, <1>5, <1>6, <1>7

LEMMA RetryStep == ASSUME HInv, Retry PROVE HInv'
  <1> USE DEF HInv, senderLocals, record, process, releasers
  <1>1. PICK ok \in SUBSET left :
          down' = down \ ok /\ refused' = refused \cup (left \ ok)
    BY DEF Retry
  <1>2. /\ epc = "retry" /\ epc' = "meta" /\ fresh = {} /\ ~clean
        /\ held' = held \ left /\ left' = {}
        /\ UNCHANGED <<balked, fresh, word, after, bits, meta, alive, clean, frozen, rpc, rword, taken>>
    BY DEF Retry, SenderInv, Publishing
  <1>3. TypeOK'
    BY <1>1, <1>2 DEF TypeOK
  <1>4. SenderInv'
    BY <1>1, <1>2 DEF SenderInv, Publishing
  <1>5. RecordInv'
    BY <1>1, <1>2 DEF RecordInv, Publishing
  <1>6. WatchdogInv'
    BY <1>2 DEF WatchdogInv
  <1>7. Covered'
    BY <1>1, <1>2 DEF Covered, OnRecord, Unseen
  <1> QED BY <1>3, <1>4, <1>5, <1>6, <1>7

LEMMA PublishStep == ASSUME HInv, StartPublish \/ PublishWord PROVE HInv'
  <1> USE DEF HInv, world, senderLocals, record, process, releasers
  <1>1. CASE StartPublish
    <2> USE DEF StartPublish, PublishMeta
    <2>1. TypeOK'
      BY <1>1, HeldAssumption DEF TypeOK
    <2>2. SenderInv'
      BY <1>1 DEF SenderInv, Publishing
    <2>3. RecordInv'
      <3>1. \A i \in Items : ~(WordOf[i] < 1)
        BY HeldAssumption
      <3> QED BY <1>1, <3>1 DEF RecordInv, Publishing, TypeOK
    <2>4. WatchdogInv'
      BY <1>1 DEF WatchdogInv
    <2>5. Covered'
      BY <1>1 DEF Covered, OnRecord, Unseen
    <2> QED BY <2>1, <2>2, <2>3, <2>4, <2>5
  <1>2. CASE PublishWord
    <2>1. /\ epc = "bits" /\ alive
          /\ bits' = (bits \ InWord(word)) \cup (held \cap InWord(word))
          /\ UNCHANGED <<world, held, left, after, meta, process, releasers>>
      BY <1>2 DEF PublishWord, Up
    <2>2. /\ down \subseteq Items /\ held \subseteq Items /\ word \in 1..Words
          /\ \A i \in Items : WordOf[i] \in 1..Words
      BY HeldAssumption DEF TypeOK
    <2>3. \A i \in held : WordOf[i] <= word /\ rpc["handler"] = "off" => i \in bits'
      BY <2>1, <2>2 DEF RecordInv, InWord
    <2>4. ~Unseen => \A i \in down : WordOf[i] <= word => i \in bits' \cup taken["handler"] \cup refused
      BY <2>1, <2>2 DEF RecordInv, SenderInv, InWord
    <2>5. Unseen' = Unseen
      BY <2>1 DEF Unseen
    <2>6. WatchdogInv'
      BY <2>1 DEF WatchdogInv
    <2>7. CASE LastWord(word)
      <3>1. word = Words /\ word' = 1 /\ fresh' = {} /\ epc' = IF left # {} THEN "retry" ELSE after
        BY <1>2, <2>7 DEF PublishWord, LastWord
      <3>2. /\ \A i \in held : rpc["handler"] = "off" => i \in bits'
            /\ ~Unseen => down \subseteq bits' \cup taken["handler"] \cup refused
        BY <2>2, <2>3, <2>4, <3>1
      <3>3. TypeOK'
        BY <2>1, <2>2, <3>1, HeldAssumption DEF TypeOK, InWord
      <3>4. SenderInv'
        BY <2>1, <3>1 DEF SenderInv, Publishing, TypeOK
      <3>5. RecordInv'
        BY <2>1, <3>1, <3>2 DEF RecordInv, Publishing, TypeOK
      <3>6. Covered'
        BY <2>1, <2>5, <3>1, <3>2 DEF Covered, OnRecord
      <3> QED BY <2>6, <3>3, <3>4, <3>5, <3>6
    <2>8. CASE ~LastWord(word)
      <3>1. word' = word + 1 /\ fresh' = fresh /\ epc' = epc /\ word + 1 \in 1..Words
        BY <1>2, <2>2, <2>8, HeldAssumption DEF PublishWord, LastWord
      <3>2. TypeOK'
        BY <2>1, <2>2, <3>1 DEF TypeOK, InWord
      <3>3. SenderInv'
        BY <2>1, <3>1 DEF SenderInv, Publishing
      <3>4. RecordInv'
        <4>1. \A i \in Items : WordOf[i] < word + 1 => WordOf[i] <= word
          BY <2>2
        <4> QED BY <2>1, <2>2, <2>3, <2>4, <2>5, <3>1, <4>1 DEF RecordInv, Publishing
      <3>5. Covered'
        BY <2>1, <2>5, <3>1 DEF Covered, OnRecord, SenderInv
      <3> QED BY <2>6, <3>2, <3>3, <3>4, <3>5
    <2> QED BY <2>7, <2>8
  <1> QED BY <1>1, <1>2

\* The end of the process, orderly or not.
LEMMA ProcessStep ==
    ASSUME HInv, MarkCleanExit \/ Exit \/ Kill \/ CrashExit
    PROVE  HInv'
  <1> USE DEF HInv, world, senderLocals, record, releasers
  <1>1. CASE MarkCleanExit
    <2> USE <1>1 DEF MarkCleanExit
    <2>1. TypeOK'
      BY DEF TypeOK
    <2>2. SenderInv'
      BY DEF SenderInv, Publishing
    <2>3. RecordInv'
      BY DEF RecordInv, Publishing, Unseen
    <2>4. WatchdogInv'
      BY DEF WatchdogInv
    <2>5. Covered'
      BY DEF Covered, OnRecord, Unseen
    <2> QED BY <2>1, <2>2, <2>3, <2>4, <2>5
  <1>2. CASE Exit \/ Kill \/ CrashExit
    <2>1. alive /\ alive' = FALSE /\ UNCHANGED <<world, senderLocals, record, clean, frozen, releasers>>
      BY <1>2 DEF Exit, Kill, CrashExit, Death
    <2> USE <2>1
    <2>2. TypeOK'
      BY DEF TypeOK
    <2>3. SenderInv'
      BY DEF SenderInv, Publishing
    <2>4. RecordInv'
      BY DEF RecordInv, Publishing
    <2>5. WatchdogInv'
      BY DEF WatchdogInv
    <2>6. Covered'
      BY DEF Covered, OnRecord, Unseen
    <2> QED BY <2>2, <2>3, <2>4, <2>5, <2>6
  <1> QED BY <1>1, <1>2

LEMMA CrashStep == ASSUME HInv, Crash PROVE HInv'
  <1> USE DEF HInv, world, senderLocals, record
  <1>1. /\ alive /\ rpc["handler"] = "off" /\ frozen' \in BOOLEAN
        /\ UNCHANGED <<world, senderLocals, record, alive, clean, rword, taken>>
    BY DEF Crash
  <1>2. rpc'["handler"] = "take" /\ rpc'["guardian"] = rpc["guardian"]
    BY DEF Crash, TypeOK, Releasers
  <1>3. TypeOK'
    <2>1. rpc' \in [Releasers -> {"off", "starting", "watching", "failed", "take", "send", "done"}]
      BY DEF Crash, TypeOK
    <2> QED BY <1>1, <2>1 DEF TypeOK
  <1>4. ~Unseen
    BY <1>1 DEF Unseen
  <1>5. SenderInv'
    BY <1>1 DEF SenderInv, Publishing
  <1>6. RecordInv'
    BY <1>1, <1>2, <1>4 DEF RecordInv, Publishing
  <1>7. WatchdogInv'
    BY <1>1, <1>2 DEF WatchdogInv
  <1>8. Covered'
    BY <1>1, <1>4 DEF Covered, OnRecord
  <1> QED BY <1>3, <1>5, <1>6, <1>7, <1>8

-----------------------------------------------------------------------------
(* The releasers.                                                          *)

\* What a step of one releaser leaves of the other one's locals.
LEMMA Locals ==
    ASSUME TypeOK, NEW r \in Releasers
    PROVE  /\ DOMAIN rpc = Releasers /\ DOMAIN rword = Releasers /\ DOMAIN taken = Releasers
           /\ rword[r] \in 1..Words /\ taken[r] \subseteq Items
  BY DEF TypeOK

\* The word a releaser exchanges goes from the record to what it has taken.
LEMMA TakeStep == ASSUME HInv, NEW r \in Releasers, Take(r) PROVE HInv'
  <1> USE DEF HInv, world, senderLocals, process
  <1>1. /\ (alive <=> r = "handler") /\ rpc[r] = "take"
        /\ taken' = [taken EXCEPT ![r] = @ \cup (bits \cap InWord(rword[r]))]
        /\ bits' = bits \ InWord(rword[r])
        /\ UNCHANGED <<world, senderLocals, meta, process>>
    BY DEF Take, Acts
  <1>2. \/ /\ rword[r] = Words
           /\ rpc' = [rpc EXCEPT ![r] = "send"] /\ rword' = rword
        \/ /\ rword[r] # Words
           /\ rword' = [rword EXCEPT ![r] = @ + 1] /\ rpc' = rpc
    BY DEF Take, LastWord
  <1>3. /\ taken'[r] = taken[r] \cup (bits \cap InWord(rword[r]))
        /\ rword[r] \in 1..Words /\ Words \in Nat
        /\ \A q \in Releasers \ {r} :
             taken'[q] = taken[q] /\ rpc'[q] = rpc[q] /\ rword'[q] = rword[q]
        /\ rpc'[r] \in {"take", "send"}
    BY <1>1, <1>2, Locals, HeldAssumption
  <1>4. "handler" \in Releasers /\ "guardian" \in Releasers
    BY DEF Releasers
  <1>5. TypeOK'
    <2>1. taken' \in [Releasers -> SUBSET Items] /\ bits' \subseteq Items
      BY <1>1 DEF TypeOK
    <2>2. rpc' \in [Releasers -> {"off", "starting", "watching", "failed", "take", "send", "done"}]
      BY <1>2 DEF TypeOK
    <2>3. rword' \in [Releasers -> 1..Words]
      BY <1>2, <1>3 DEF TypeOK
    <2> QED BY <1>1, <2>1, <2>2, <2>3 DEF TypeOK
  <1>6. SenderInv'
    BY <1>1 DEF SenderInv, Publishing
  <1>7. Unseen' = Unseen
    BY <1>1, <1>2, <1>3, <1>4 DEF Unseen, Releasers
  <1>8. RecordInv'
    <2>1. bits' \subseteq meta' /\ \A q \in Releasers : taken'[q] \subseteq meta'
      BY <1>1, <1>3 DEF RecordInv
    <2>2. alive => r = "handler" /\ rpc'["handler"] # "off"
      BY <1>1, <1>3
    <2>3. alive => bits' \cup taken'["handler"] = bits \cup taken["handler"]
      BY <1>1, <1>3
    <2> QED BY <1>1, <1>7, <2>1, <2>2, <2>3 DEF RecordInv, Publishing
  <1>9. WatchdogInv'
    <2>1. CASE r = "handler"
      <3>1. alive /\ rpc["guardian"] \notin {"take", "send", "done"}
        BY <1>1, <2>1 DEF WatchdogInv
      <3> QED BY <1>1, <1>3, <1>4, <2>1, <3>1 DEF WatchdogInv
    <2>2. CASE r = "guardian"
      <3>1. ~alive /\ \A i \in bits : WordOf[i] >= rword["guardian"]
        BY <1>1, <2>2 DEF WatchdogInv
      <3>2. \A i \in bits : i \in Items /\ WordOf[i] \in 1..Words
        BY HeldAssumption DEF TypeOK
      <3>3. \A i \in bits' : WordOf[i] >= rword["guardian"] + 1
        BY <1>1, <1>3, <2>2, <3>1, <3>2 DEF InWord
      <3>4. CASE rword[r] = Words
        <4>1. bits' = {} /\ rpc'["guardian"] = "send"
          <5>1. bits' = {}
            BY <1>3, <2>2, <3>2, <3>3, <3>4, <1>1
          <5> QED BY <1>2, <2>2, <3>4, <5>1, <1>4, Locals
        <4> QED BY <1>1, <3>1, <4>1 DEF WatchdogInv
      <3>5. CASE rword[r] # Words
        <4>1. rpc'["guardian"] = "take" /\ rword'["guardian"] = rword["guardian"] + 1
          BY <1>1, <1>2, <1>4, <2>2, <3>5, Locals
        <4> QED BY <1>1, <3>1, <3>3, <4>1 DEF WatchdogInv
      <3> QED BY <3>4, <3>5
    <2> QED BY <2>1, <2>2 DEF Releasers
  <1>10. Covered'
    <2>1. bits' \cup taken'["handler"] \cup taken'["guardian"]
            = bits \cup taken["handler"] \cup taken["guardian"]
      BY <1>1, <1>3, <1>4 DEF Releasers
    <2> QED BY <1>1, <1>7, <2>1 DEF Covered, OnRecord
  <1> QED BY <1>5, <1>6, <1>8, <1>9, <1>10

\* What a releaser took has metadata: it is released or refused.
LEMMA ReleaseStep == ASSUME HInv, NEW r \in Releasers, Release(r) PROVE HInv'
  <1> USE DEF HInv, senderLocals, record, process
  <1>1. PICK no \in SUBSET taken[r] :
          /\ down' = down \ ((taken[r] \ no) \cap meta)
          /\ refused' = refused \cup no
          /\ balked' = (balked \/ no # {})
    BY DEF Release
  <1>2. /\ (alive <=> r = "handler") /\ rpc[r] = "send"
        /\ taken' = [taken EXCEPT ![r] = {}] /\ rpc' = [rpc EXCEPT ![r] = "done"]
        /\ UNCHANGED <<senderLocals, record, process, rword>>
    BY DEF Release, Acts
  <1>3. /\ taken'[r] = {} /\ rpc'[r] = "done" /\ taken[r] \subseteq Items
        /\ \A q \in Releasers \ {r} : taken'[q] = taken[q] /\ rpc'[q] = rpc[q]
    BY <1>2, Locals
  <1>4. "handler" \in Releasers /\ "guardian" \in Releasers
    BY DEF Releasers
  <1>5. down' \subseteq down /\ down' \cap taken[r] \subseteq refused' /\ refused \subseteq refused'
    BY <1>1 DEF RecordInv
  <1>6. TypeOK'
    <2>1. taken' \in [Releasers -> SUBSET Items]
      BY <1>2 DEF TypeOK
    <2>2. rpc' \in [Releasers -> {"off", "starting", "watching", "failed", "take", "send", "done"}]
      BY <1>2 DEF TypeOK
    <2>3. down' \subseteq Items /\ refused' \subseteq Items /\ balked' \in BOOLEAN
      BY <1>1, <1>3 DEF TypeOK
    <2> QED BY <1>2, <2>1, <2>2, <2>3 DEF TypeOK
  <1>7. SenderInv'
    BY <1>2, <1>5 DEF SenderInv, Publishing
  <1>8. Unseen => Unseen'
    BY <1>1, <1>2, <1>3, <1>4 DEF Unseen
  <1>9. RecordInv'
    <2>1. \A q \in Releasers : taken'[q] \subseteq meta'
      BY <1>2, <1>3 DEF RecordInv
    <2>2. alive => r = "handler" /\ rpc'["handler"] # "off"
      BY <1>2, <1>3
    <2> QED BY <1>2, <1>3, <1>5, <1>8, <2>1, <2>2 DEF RecordInv, Publishing
  <1>10. WatchdogInv'
    <2>1. CASE r = "handler"
      BY <1>2, <1>3, <1>4, <2>1 DEF WatchdogInv
    <2>2. CASE r = "guardian"
      BY <1>2, <1>3, <2>2 DEF WatchdogInv
    <2> QED BY <2>1, <2>2 DEF Releasers
  <1>11. Covered'
    <2>1. down' \subseteq down /\ \A i \in down' : i \in taken[r] => i \in refused'
      BY <1>5
    <2> QED BY <1>2, <1>3, <1>4, <1>5, <1>8, <2>1 DEF Covered, OnRecord, Releasers
  <1> QED BY <1>6, <1>7, <1>9, <1>10, <1>11

LEMMA GuardianStep == ASSUME HInv, Attach \/ Wake PROVE HInv'
  <1> USE DEF HInv, world, senderLocals, record, process
  <1>1. /\ rpc["guardian"] \in {"starting", "watching"}
        /\ UNCHANGED <<world, senderLocals, record, process, rword, taken>>
    BY DEF Attach, Wake
  <1>2. /\ rpc'["handler"] = rpc["handler"]
        /\ rpc'["guardian"] \in {"watching", "failed", "take", "done"}
        /\ rpc'["guardian"] \in {"take", "done"} => ~alive
        /\ rpc'["guardian"] = "done" => clean
    BY DEF Attach, Wake, AfterDeath, TypeOK, Releasers
  <1>3. TypeOK'
    <2>1. rpc' \in [Releasers -> {"off", "starting", "watching", "failed", "take", "send", "done"}]
      BY DEF Attach, Wake, AfterDeath, TypeOK
    <2> QED BY <1>1, <2>1 DEF TypeOK
  <1>4. SenderInv'
    BY <1>1 DEF SenderInv, Publishing
  <1>5. RecordInv'
    BY <1>1, <1>2 DEF RecordInv, Publishing, Unseen
  <1>6. WatchdogInv'
    <2>1. \A i \in bits : WordOf[i] >= 1
      BY HeldAssumption DEF TypeOK
    <2> QED BY <1>1, <1>2, <2>1 DEF WatchdogInv
  <1>7. Covered'
    BY <1>1, <1>2 DEF Covered, OnRecord, Unseen
  <1> QED BY <1>3, <1>4, <1>5, <1>6, <1>7

-----------------------------------------------------------------------------
(* The theorems.                                                           *)

LEMMA NextHInv == HInv /\ [Next]_vars => HInv'
  <1> SUFFICES ASSUME HInv, [Next]_vars PROVE HInv'
    OBVIOUS
  <1>1. CASE Send
    BY <1>1, SendStep
  <1>2. CASE StartPublish \/ PublishWord
    BY <1>2, PublishStep
  <1>3. CASE ReleaseAll("idle") \/ Leave
    BY <1>3, ReleaseAllStep DEF Leave
  <1>4. CASE Retry
    BY <1>4, RetryStep
  <1>5. CASE MarkCleanExit \/ Exit \/ Kill \/ CrashExit
    BY <1>5, ProcessStep
  <1>6. CASE Crash
    BY <1>6, CrashStep
  <1>7. CASE \E r \in Releasers : Take(r) \/ Release(r)
    BY <1>7, TakeStep, ReleaseStep
  <1>8. CASE Attach \/ Wake
    BY <1>8, GuardianStep
  <1>9. CASE UNCHANGED vars
    BY <1>9 DEF vars, world, senderLocals, record, process, releasers, HInv, TypeOK, SenderInv,
        RecordInv, WatchdogInv, Covered, OnRecord, Unseen, Publishing
  <1> QED
    BY <1>1, <1>2, <1>3, <1>4, <1>5, <1>6, <1>7, <1>8, <1>9 DEF Next, Guardian, Handler, Releasers

LEMMA HInvHolds == Spec => []HInv
  BY HInit, NextHInv, PTL DEF Spec

\* The variables keep their types.
THEOREM HeldTypes == Spec => []TypeOK
  <1>1. HInv => TypeOK
    BY DEF HInv
  <1> QED BY <1>1, HInvHolds, PTL

\* InputSender::publish() and releaseHeldFrom(): nothing that is held down is
\* missing from the record, at any step of the sender and of the releasers.
THEOREM NothingUnrecorded == Spec => []Covered
  <1>1. HInv => Covered
    BY DEF HInv
  <1> QED BY <1>1, HInvHolds, PTL

\* runGuardian(): a watchdog that has finished has left nothing down that it
\* could have released.
THEOREM WatchdogLeavesNothing == Spec => []WatchdogReleases
  <1>1. HInv => WatchdogReleases
    BY DEF HInv, WatchdogReleases, Covered, OnRecord, WatchdogInv, SenderInv
  <1> QED BY <1>1, HInvHolds, PTL

\* App::shutdown(): when markCleanExit() has run, nothing is held down.
THEOREM CleanExitIsClean == Spec => []CleanExitReleased
  <1>1. HInv => CleanExitReleased
    BY DEF HInv, CleanExitReleased, SenderInv
  <1> QED BY <1>1, HInvHolds, PTL

\* Both: nothing that could have been released is left down by the program.
THEOREM NothingLeft == Spec => []NothingLeftDown
  <1>1. WatchdogReleases /\ CleanExitReleased => NothingLeftDown
    BY DEF NothingLeftDown
  <1> QED BY <1>1, WatchdogLeavesNothing, CleanExitIsClean, PTL
=============================================================================
