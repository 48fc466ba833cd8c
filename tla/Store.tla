-------------------------------- MODULE Store --------------------------------
(* Profiles and settings: the lists the profile manager edits, the two files *)
(* they are kept in (profiles.json, settings.json), the delayed save, the     *)
(* load that repairs what it finds, and the instances of the program that     *)
(* follow one another on the same data folder.                                *)
(*                                                                            *)
(* A name is the sequence of the words and numbers it is put together from,   *)
(* so that the numbered and the copied names the manager makes are told apart.*)
(* A profile has, beside its name, one number that stands for every field     *)
(* that is brought into its range when it is read. Numbers count thirds of    *)
(* the last digit that is written, so that some of them lose by being saved.  *)
(* A save writes each file in the steps of writeFileAtomic(): the temporary   *)
(* file is created, written and moved over the real one, any of which may     *)
(* fail, and the process may die between any two of them.                     *)
EXTENDS Integers, Sequences, FiniteSets

CONSTANTS Instances,    \* processes of the program
          Texts,        \* what the words of a name may say
          Typed,        \* names a user types
          Entered,      \* numbers a user types or arrives at with a slider; the one
                        \* field that could go below zero is unsigned and goes far above
          Sizes,        \* sizes the window may have when its place is taken down
          Lists,        \* lists of profiles a person writes into profiles.json
          Nobody,       \* no instance
          MaxProfiles,  \* bound: length of the list
          MaxEdits,     \* bound: changes made by users, over all instances
          MaxFaults,    \* bound: failed writes, crashes, foreign edits, unreadable files
          MaxLaunches   \* bound: starts of the program

Word(t)   == [text |-> t, n |-> 0]
Number(k) == [text |-> "number", n |-> k]      \* " (k)" at the end of a name
Name      == Seq([text : Texts, n : Nat])
Blank     == <<>>

ASSUME StoreConstants ==
  /\ Nobody \notin Instances
  /\ {"number", "Default", "Browser", "Profile", "New", "copy"} \subseteq Texts
  /\ Typed \subseteq Name \ {Blank}
  /\ Lists \subseteq Seq([name : Name, num : Int])
  /\ Entered \subseteq Nat /\ Sizes \subseteq Int

ASSUME StoreBounds ==
  /\ MaxProfiles \in 1..9998    \* uniqueName() tries the numbers below 10000
  /\ \A ps \in Lists : Len(ps) <= MaxProfiles
  /\ {MaxEdits, MaxFaults, MaxLaunches} \subseteq Nat

VARIABLES
  pc,       \* where each instance is: off, start, wait, load, run, exit
  mem,      \* what each instance holds: profiles, active, opt, place
  dirty,    \* App::dirty_
  save,     \* the save in progress of each instance
  disk,     \* the two files: what there is of each (none, torn: it does not
            \* parse, whole) and what a whole one says
  tmp,      \* the two temporary files, likewise
  writer,   \* the instance that has each temporary file open
  backup,   \* profiles.corrupt.json exists
  handles,  \* instances with a handle of the single-instance mutex
  owner,    \* the instance that owns the mutex
  restart,  \* instances started with --restarted
  unsaved,  \* a user's change of this instance has not reached both files
  failed,   \* the last save of this instance failed
  kept,     \* what the last orderly exit left, for the next start
  slips,    \* faults that explain what the files look like
  edits, faults, launches

vars == <<pc, mem, dirty, save, disk, tmp, writer, backup, handles, owner,
          restart, unsaved, failed, kept, slips, edits, faults, launches>>

Files  == {"profiles", "settings"}
Digit  == 3            \* the last digit that is written, in the units of the model
Low    == Digit
High   == 2 * Digit
WholeNumber(n) == n % Digit = 0

(* writeNumber(): rounded to the digits that are written; a number that is    *)
(* whole to begin with stays as it is.                                        *)
Printed(n) == Digit * ((n + 1) \div Digit)

Clamp(n) == IF n < Low THEN Low ELSE IF n > High THEN High ELSE n

NewProfile(n) == [name |-> n, num |-> Low]

Defaults == <<NewProfile(<<Word("Default")>>), NewProfile(<<Word("Browser")>>)>>

(* What a file says of a profile. Nothing is brought into its range as it is  *)
(* written,                                                                   *)
ToJson(p) == [p EXCEPT !.num = Printed(@)]

(* only as it is read: a person may have edited it.                           *)
FromJson(p) == [p EXCEPT !.num = Clamp(@)]

NamesOf(ps) == {ps[k].name : k \in DOMAIN ps}

\* Mutant: the first numbered name is taken without a look.
UniqueNameOnce(ps, base) ==
  IF base \notin NamesOf(ps) THEN base ELSE Append(base, Number(2))

UniqueName(ps, base) ==
  IF base \notin NamesOf(ps) THEN base
  ELSE LET free == {k \in 2..Len(ps) + 1 : Append(base, Number(k)) \notin NamesOf(ps)}
       IN  Append(base, Number(CHOOSE k \in free : \A j \in free : k <= j))

(* The repair of the names, one profile after the other: a blank name is      *)
(* replaced, a name that an earlier profile has is made unique.               *)
Settle(ps, k) ==
  LET named == [ps EXCEPT ![k].name = IF @ = Blank THEN <<Word("Profile")>> ELSE @]
  IN  IF \E j \in 1..k - 1 : named[j].name = named[k].name
      THEN [named EXCEPT ![k].name = UniqueName(named, @)]
      ELSE named

Settled(ps) ==
  LET upTo[k \in 0..Len(ps)] == IF k = 0 THEN ps ELSE Settle(upTo[k - 1], k)
  IN  upTo[Len(ps)]

ActiveIndex(m) ==
  LET at == {k \in DOMAIN m.profiles : m.profiles[k].name = m.active}
  IN  IF at = {} THEN 1 ELSE CHOOSE k \in at : \A j \in at : k <= j

Settings(m) == [active |-> m.active, opt |-> m.opt, place |-> m.place]
Content(m, f) == IF f = "profiles" THEN [k \in DOMAIN m.profiles |-> ToJson(m.profiles[k])]
                 ELSE Settings(m)

Fresh == [profiles |-> Defaults, active |-> Defaults[1].name, opt |-> FALSE, place |-> Low]
Missing(f) == [has |-> "none", val |-> Content(Fresh, f)]
NothingKept == [has |-> FALSE, val |-> Fresh]
NoSave == [stage |-> "no", file |-> "profiles", ok |-> TRUE, then |-> "run"]
Saving(i) == save[i].stage # "no"
Running(i) == pc[i] = "run" /\ ~Saving(i)

Init ==
  /\ pc = [i \in Instances |-> "off"]
  /\ mem = [i \in Instances |-> Fresh]
  /\ dirty = [i \in Instances |-> FALSE]
  /\ save = [i \in Instances |-> NoSave]
  /\ disk = [f \in Files |-> Missing(f)]
  /\ tmp = [f \in Files |-> Missing(f)]
  /\ writer = [f \in Files |-> Nobody]
  /\ backup = FALSE
  /\ handles = {} /\ owner = Nobody /\ restart = {}
  /\ unsaved = [i \in Instances |-> FALSE]
  /\ failed = [i \in Instances |-> FALSE]
  /\ kept = NothingKept /\ slips = {}
  /\ edits = 0 /\ faults = 0 /\ launches = 0

files  == <<disk, tmp, writer, backup>>
mutex  == <<handles, owner, restart>>
ghosts == <<unsaved, failed, kept, slips>>
bounds == <<edits, faults, launches>>

Fault(kind) == faults < MaxFaults /\ faults' = faults + 1 /\ slips' = slips \union kind
------------------------------------------------------------------------------
(* Start-up                                                                   *)

(* CreateMutexW: the first instance owns it, a later one leaves unless it was *)
(* started to take over from the one that is there.                           *)
Launch(i) ==
  /\ pc[i] = "off" /\ launches < MaxLaunches
  /\ launches' = launches + 1
  /\ \/ /\ handles = {}
        /\ pc' = [pc EXCEPT ![i] = "load"]
        /\ handles' = {i} /\ owner' = i
     \/ /\ handles # {} /\ i \in restart
        /\ pc' = [pc EXCEPT ![i] = "wait"]
        /\ handles' = handles \union {i} /\ UNCHANGED owner
     \/ /\ handles # {} /\ i \notin restart
        /\ UNCHANGED <<pc, handles, owner>>
  /\ restart' = restart \ {i}
  /\ UNCHANGED <<mem, dirty, save, files, ghosts, edits, faults>>

(* WaitForSingleObject(mutex, 5000): its result is not looked at.             *)
WaitGranted(i) ==
  /\ pc[i] = "wait" /\ owner = Nobody
  /\ owner' = i
  /\ pc' = [pc EXCEPT ![i] = "load"]
  /\ UNCHANGED <<mem, dirty, save, files, handles, restart, ghosts, bounds>>

WaitTimesOut(i) ==
  /\ pc[i] = "wait" /\ owner # Nobody
  /\ Fault({"timeout"})
  /\ pc' = [pc EXCEPT ![i] = "load"]
  /\ UNCHANGED <<mem, dirty, save, files, mutex, unsaved, failed, kept, edits, launches>>

(* ProfileStore::load(): R is the set of files that can be read this time.    *)
Loaded(R) ==
  LET s  == IF "settings" \in R /\ disk["settings"].has = "whole"
            THEN disk["settings"].val ELSE Settings(Fresh)
      ps == IF "profiles" \in R /\ disk["profiles"].has = "whole"
            THEN [k \in DOMAIN disk["profiles"].val |-> FromJson(disk["profiles"].val[k])]
            ELSE <<>>
      named == Settled(IF ps = <<>> THEN Defaults ELSE ps)
  IN  [profiles |-> named, opt |-> s.opt, place |-> Clamp(s.place),
       active |-> IF s.active \in NamesOf(named) THEN s.active ELSE named[1].name]

Load(i) ==
  /\ pc[i] = "load"
  /\ \E R \in SUBSET Files :
       /\ IF \E f \in Files \ R : disk[f].has # "none"
          THEN Fault({"unreadable"})
          ELSE R = Files /\ UNCHANGED <<faults, slips>>
       /\ mem' = [mem EXCEPT ![i] = Loaded(R)]
       /\ backup' = (backup \/ ("profiles" \in R /\ disk["profiles"].has = "torn"))
  /\ pc' = [pc EXCEPT ![i] = "run"]
  /\ UNCHANGED <<dirty, save, disk, tmp, writer, mutex, unsaved, failed, kept, edits, launches>>
------------------------------------------------------------------------------
(* Changes, all of them on the UI thread                                      *)

(* Every change of the manager and of the settings pages ends in              *)
(* profileChanged(): the save is put off by 600 ms.                           *)
Change(i, m) ==
  /\ Running(i) /\ edits < MaxEdits /\ edits' = edits + 1
  /\ mem' = [mem EXCEPT ![i] = m]
  /\ dirty' = [dirty EXCEPT ![i] = TRUE]
  /\ unsaved' = [unsaved EXCEPT ![i] = TRUE]
  /\ UNCHANGED <<pc, save, files, mutex, failed, kept, slips, faults, launches>>

(* A number of the active profile.                                            *)
WithNumber(m, n) == [m EXCEPT !.profiles[ActiveIndex(m)].num = n]

(* The pages change the active profile: the main page by a whole number that  *)
(* is brought into its range as it is typed,                                  *)
EditInputCard(i) ==
  \E n \in Entered : WholeNumber(n) /\ Change(i, WithNumber(mem[i], Clamp(n)))

(* by a speed, which may come to more digits than are written, and of which   *)
(* nothing that is not above zero is taken at all,                            *)
EditSpeedCard(i) ==
  \E n \in Entered : n > 0 /\ Change(i, WithNumber(mem[i], Clamp(n)))

(* and the engine page: timing and how input is taken, the values of the      *)
(* modes, and what is for safety or experimental. The profile, the settings   *)
(* or both change.                                                            *)
EditEngineTab(i) ==
  \E n \in Entered, o \in BOOLEAN :
    WholeNumber(n) /\ Change(i, [WithNumber(mem[i], Clamp(n)) EXCEPT !.opt = o])

EditModeValues(i) ==
  \E n \in Entered : WholeNumber(n) /\ Change(i, WithNumber(mem[i], Clamp(n)))

(* A slider takes any whole number that is typed into it (Ctrl+Click).        *)
EditSafety(i) ==
  \/ Change(i, [mem[i] EXCEPT !.opt = ~@])
  \/ \E n \in Entered : WholeNumber(n) /\ Change(i, WithNumber(mem[i], n))

ChangeSettings(i) == Change(i, [mem[i] EXCEPT !.opt = ~@])

SelectProfile(i) ==
  \E n \in NamesOf(mem[i].profiles) : Change(i, [mem[i] EXCEPT !.active = n])

(* The tray's menu is built from the profiles and answered by a place in it:  *)
(* the menu runs on the UI thread, so nobody edits them meanwhile.            *)
SelectFromTray(i) ==
  \E k \in DOMAIN mem[i].profiles :
    Change(i, [mem[i] EXCEPT !.active = mem[i].profiles[k].name])

Rename(i) ==
  \E k \in DOMAIN mem[i].profiles, n \in Typed :
    LET m   == mem[i]
        old == m.profiles[k].name
        new == UniqueName(m.profiles, n)
    IN  /\ n # old
        /\ Change(i, [m EXCEPT !.profiles[k].name = new,
                               !.active = IF @ = old THEN new ELSE @])

Duplicate(i) ==
  \E k \in DOMAIN mem[i].profiles :
    LET m == mem[i]
        p == m.profiles[k]
    IN  /\ Len(m.profiles) < MaxProfiles
        /\ Change(i, [m EXCEPT !.profiles =
             Append(@, [p EXCEPT !.name = UniqueName(m.profiles, Append(p.name, Word("copy")))])])

AddProfile(i) ==
  LET m == mem[i] IN
  /\ Len(m.profiles) < MaxProfiles
  /\ Change(i, [m EXCEPT !.profiles =
       Append(@, NewProfile(UniqueName(m.profiles, <<Word("New")>>)))])

DeleteProfile(i) ==
  \E k \in DOMAIN mem[i].profiles :
    LET m    == mem[i]
        rest == SubSeq(m.profiles, 1, k - 1) \o SubSeq(m.profiles, k + 1, Len(m.profiles))
    IN  /\ Len(m.profiles) > 1
        /\ Change(i, [m EXCEPT !.profiles = rest,
             !.active = IF @ = m.profiles[k].name THEN rest[1].name ELSE @])

ResetToDefaults(i) ==
  Change(i, [mem[i] EXCEPT !.profiles = Defaults, !.active = Defaults[1].name])
------------------------------------------------------------------------------
(* Saving                                                                     *)

BeginSave(i, then) ==
  /\ dirty' = [dirty EXCEPT ![i] = FALSE]
  /\ save' = [save EXCEPT ![i] = [NoSave EXCEPT !.stage = "open", !.then = then]]

(* App::tick(): the 600 ms are over.                                          *)
SaveDue(i) ==
  /\ Running(i) /\ dirty[i]
  /\ BeginSave(i, "run")
  /\ UNCHANGED <<pc, mem, files, mutex, ghosts, bounds>>

\* Mutant: the result of the first file is overwritten by that of the second.
FileDoneLast(i, good) ==
  IF save[i].file = "profiles"
  THEN /\ save' = [save EXCEPT ![i].stage = "open", ![i].file = "settings", ![i].ok = good]
       /\ UNCHANGED <<pc, unsaved, failed, kept>>
  ELSE /\ save' = [save EXCEPT ![i] = NoSave]
       /\ pc' = [pc EXCEPT ![i] = save[i].then]
       /\ unsaved' = [unsaved EXCEPT ![i] = @ /\ ~(good /\ save[i].ok)]
       /\ failed' = [failed EXCEPT ![i] = ~good]
       /\ UNCHANGED kept

(* What follows one file: the other one, whether it went well or not, and     *)
(* after the second one the caller of saveNow().                              *)
FileDone(i, good) ==
  IF save[i].file = "profiles"
  THEN /\ save' = [save EXCEPT ![i].stage = "open", ![i].file = "settings", ![i].ok = good]
       /\ UNCHANGED <<pc, unsaved, failed, kept>>
  ELSE LET ok == good /\ save[i].ok IN
       /\ save' = [save EXCEPT ![i] = NoSave]
       /\ pc' = [pc EXCEPT ![i] = save[i].then]
       /\ unsaved' = [unsaved EXCEPT ![i] = @ /\ ~ok]
       /\ failed' = [failed EXCEPT ![i] = ~ok]
       /\ kept' = IF save[i].then # "exit" THEN kept
                  ELSE IF ok THEN [has |-> TRUE, val |-> mem[i]] ELSE NothingKept

\* Mutant: the file itself is created and written, there is no temporary one.
OpenInPlace(i) ==
  LET f == save[i].file IN
  /\ save[i].stage = "open" /\ writer[f] = Nobody
  /\ disk' = [disk EXCEPT ![f].has = "torn"]
  /\ writer' = [writer EXCEPT ![f] = i]
  /\ save' = [save EXCEPT ![i].stage = "write"]
  /\ UNCHANGED <<pc, mem, dirty, tmp, backup, mutex, ghosts, bounds>>

(* CreateFileW(tmp, no sharing, CREATE_ALWAYS)                                *)
OpenTmp(i) ==
  LET f == save[i].file IN
  /\ save[i].stage = "open"
  /\ \/ /\ writer[f] = Nobody
        /\ tmp' = [tmp EXCEPT ![f].has = "torn"]
        /\ writer' = [writer EXCEPT ![f] = i]
        /\ save' = [save EXCEPT ![i].stage = "write"]
        /\ UNCHANGED <<pc, unsaved, failed, kept, slips, faults>>
     \/ /\ IF writer[f] # Nobody THEN slips' = slips \union {"split"} /\ UNCHANGED faults
           ELSE Fault({"split"})
        /\ FileDone(i, FALSE)
        /\ UNCHANGED <<tmp, writer>>
  /\ UNCHANGED <<mem, dirty, disk, backup, mutex, edits, launches>>

(* WriteFile, FlushFileBuffers, CloseHandle; a short write is deleted.        *)
WriteTmp(i) ==
  LET f == save[i].file IN
  /\ save[i].stage = "write"
  /\ writer' = [writer EXCEPT ![f] = Nobody]
  /\ \/ /\ tmp' = [tmp EXCEPT ![f] = [has |-> "whole", val |-> Content(mem[i], f)]]
        /\ save' = [save EXCEPT ![i].stage = "move"]
        /\ UNCHANGED <<pc, unsaved, failed, kept, slips, faults>>
     \/ /\ Fault({"split"})
        /\ tmp' = [tmp EXCEPT ![f] = Missing(f)]
        /\ FileDone(i, FALSE)
  /\ UNCHANGED <<mem, dirty, disk, backup, mutex, edits, launches>>

(* MoveFileExW: one step of the file system. Another instance may have the    *)
(* temporary file open, or have moved it away.                                *)
MoveTmp(i) ==
  LET f == save[i].file IN
  /\ save[i].stage = "move"
  /\ \/ /\ writer[f] = Nobody /\ tmp[f].has # "none"
        /\ disk' = [disk EXCEPT ![f] = tmp[f]]
        /\ tmp' = [tmp EXCEPT ![f] = Missing(f)]
        /\ FileDone(i, TRUE)
        /\ UNCHANGED <<slips, faults>>
     \/ /\ IF writer[f] # Nobody \/ tmp[f].has = "none"
           THEN slips' = slips \union {"split"} /\ UNCHANGED faults
           ELSE Fault({"split"})
        /\ tmp' = [tmp EXCEPT ![f] = IF writer[f] = Nobody THEN Missing(f) ELSE @]
        /\ FileDone(i, FALSE)
        /\ UNCHANGED disk
  /\ UNCHANGED <<mem, dirty, writer, backup, mutex, edits, launches>>
------------------------------------------------------------------------------
(* The end of an instance                                                     *)

(* saveWindowPlacement(): the window as it is, whatever a start would make of *)
(* its size.                                                                  *)
SavePlacement(i) == \E n \in Sizes : mem' = [mem EXCEPT ![i].place = n]

\* Mutant: the end of the loop leaves the save to shutdown(), which saves only
\* when something is waiting.
CloseUnsaved(i) ==
  /\ Running(i)
  /\ SavePlacement(i)
  /\ IF dirty[i]
     THEN BeginSave(i, "exit") /\ UNCHANGED <<pc, kept>>
     ELSE /\ pc' = [pc EXCEPT ![i] = "exit"]
          /\ kept' = [has |-> TRUE, val |-> mem'[i]]
          /\ UNCHANGED <<dirty, save>>
  /\ UNCHANGED <<files, mutex, unsaved, failed, slips, bounds>>

(* WM_CLOSE: the window's place is taken down, the loop ends and run() saves. *)
Close(i) ==
  /\ Running(i)
  /\ SavePlacement(i)
  /\ BeginSave(i, "exit")
  /\ UNCHANGED <<pc, files, mutex, ghosts, bounds>>

(* WM_ENDSESSION: App::shutdown() saves only when something waits to be       *)
(* saved, and Windows ends the process; the window's place alone is lost.     *)
EndSession(i) ==
  /\ Running(i)
  /\ SavePlacement(i)
  /\ IF dirty[i]
     THEN BeginSave(i, "logoff") /\ UNCHANGED <<pc, kept>>
     ELSE /\ pc' = [pc EXCEPT ![i] = "logoff"]
          /\ kept' = NothingKept
          /\ UNCHANGED <<dirty, save>>
  /\ UNCHANGED <<files, mutex, unsaved, failed, slips, bounds>>

(* "Restart as administrator": saveNow(), then another process is started     *)
(* with --restarted and this one is closed.                                   *)
RestartElevated(i) ==
  /\ Running(i)
  /\ BeginSave(i, "relaunch")
  /\ UNCHANGED <<pc, mem, files, mutex, ghosts, bounds>>

Relaunched(i) ==
  /\ pc[i] = "relaunch"
  /\ \/ \E j \in Instances :                \* the user agrees to the elevation
          /\ pc[j] = "off" /\ restart' = restart \union {j}
          /\ SavePlacement(i)
          /\ BeginSave(i, "exit")
          /\ pc' = [pc EXCEPT ![i] = "run"]
     \/ /\ pc' = [pc EXCEPT ![i] = "run"]   \* or does not
        /\ UNCHANGED <<mem, dirty, save, restart>>
  /\ UNCHANGED <<files, handles, owner, ghosts, bounds>>

Gone(i) ==
  /\ handles' = handles \ {i}
  /\ owner' = IF owner = i THEN Nobody ELSE owner
  /\ pc' = [pc EXCEPT ![i] = "off"]
  /\ save' = [save EXCEPT ![i] = NoSave]
  /\ dirty' = [dirty EXCEPT ![i] = FALSE]
  /\ mem' = [mem EXCEPT ![i] = Fresh]
  /\ unsaved' = [unsaved EXCEPT ![i] = FALSE]
  /\ failed' = [failed EXCEPT ![i] = FALSE]

(* App::shutdown(), ReleaseMutex, CloseHandle                                 *)
Exit(i) ==
  /\ pc[i] \in {"exit", "logoff"}
  /\ Gone(i)
  /\ kept' = IF pc[i] = "logoff" THEN NothingKept ELSE kept
  /\ UNCHANGED <<files, restart, slips, bounds>>

(* The process dies: Windows closes its files and its handle of the mutex.    *)
Crash(i) ==
  /\ pc[i] # "off"
  /\ Fault(IF Saving(i) /\ save[i].file = "settings" THEN {"split"} ELSE {})
  /\ Gone(i)
  /\ writer' = [f \in Files |-> IF writer[f] = i THEN Nobody ELSE writer[f]]
  /\ kept' = NothingKept
  /\ UNCHANGED <<disk, tmp, backup, restart, edits, launches>>

(* A person edits a file while no instance runs: the files are meant to be    *)
(* read and written by people.                                                *)
ForeignEdit ==
  /\ \A i \in Instances : pc[i] = "off"
  /\ Fault({"edited"})
  /\ \/ \E f \in Files : disk' = [disk EXCEPT ![f] = [@ EXCEPT !.has = "torn"]]
     \/ \E ps \in Lists : disk' = [disk EXCEPT !["profiles"] = [has |-> "whole", val |-> ps]]
  /\ kept' = NothingKept
  /\ UNCHANGED <<pc, mem, dirty, save, tmp, writer, backup, mutex, unsaved, failed, edits, launches>>

Next ==
  \/ ForeignEdit
  \/ \E i \in Instances :
       \/ Launch(i) \/ WaitGranted(i) \/ WaitTimesOut(i) \/ Load(i)
       \/ EditInputCard(i) \/ EditSpeedCard(i) \/ EditEngineTab(i) \/ EditModeValues(i)
       \/ EditSafety(i) \/ ChangeSettings(i) \/ SelectProfile(i) \/ SelectFromTray(i)
       \/ Rename(i) \/ Duplicate(i) \/ AddProfile(i) \/ DeleteProfile(i) \/ ResetToDefaults(i)
       \/ SaveDue(i) \/ OpenTmp(i) \/ WriteTmp(i) \/ MoveTmp(i)
       \/ Close(i) \/ EndSession(i) \/ RestartElevated(i) \/ Relaunched(i) \/ Exit(i) \/ Crash(i)

Spec == Init /\ [][Next]_vars
------------------------------------------------------------------------------
(* Whatever is loaded, and in whatever order profiles are renamed, copied,    *)
(* added, deleted and reset, no two profiles of a running instance have the   *)
(* same name, none is blank, and the active one is one of them: a profile is  *)
(* found by its name everywhere (Profile.cpp activeIndex(), setActive()).     *)
NamesDistinct ==
  \A i \in Instances : pc[i] \notin {"off", "wait", "load"} =>
    LET ps == mem[i].profiles IN
    /\ \A j, k \in DOMAIN ps : ps[j].name = ps[k].name => j = k
    /\ Blank \notin NamesOf(ps)
    /\ mem[i].active \in NamesOf(ps)

(* A change a user made is forgotten only by a save that fails: until then it *)
(* waits for the save, is being saved, or is in both files, although          *)
(* App::saveNow() clears dirty_ before it knows and a failure of the first    *)
(* file is followed by a try with the second one. After a save that failed    *)
(* nothing is promised: the line that says so is drawn on the main page, for  *)
(* six seconds, and never at the end of the program.                          *)
ChangesKept ==
  \A i \in Instances : unsaved[i] => dirty[i] \/ Saving(i) \/ failed[i]

(* What is left of m when it has been written and read: the same profiles in  *)
(* the same order, the same one active, the same options; every number to the *)
(* digits that are written, and it and the size of the window within what a   *)
(* reader allows.                                                             *)
AsRead(m) ==
  [m EXCEPT !.profiles = [k \in DOMAIN @ |-> FromJson(ToJson(@[k]))], !.place = Clamp(@)]

(* An instance that starts after an orderly exit has what the one before it   *)
(* had, but for the rounding and the ranges that AsRead names: nothing is     *)
(* lost between the last save and the hand-over of the mutex, no name is      *)
(* taken for a repeated one, nobody else's save comes in between. Only an     *)
(* instance that did not wait long enough or a file that could not be read    *)
(* explains less.                                                             *)
RestartSeesSaved ==
  [][\A i \in Instances :
       /\ pc[i] = "load" /\ pc'[i] = "run" /\ kept.has
       /\ slips' \intersect {"timeout", "unreadable"} = {}
       => mem'[i] = AsRead(kept.val)]_vars

(* No crash and no failed write leaves a file that does not parse: only a     *)
(* person, or a second instance that did not wait long enough and dies with   *)
(* the temporary file of the first in its hands, does that. And the files     *)
(* disagree on the active profile only while a save is between them or after  *)
(* one of the two was not written (Paths.cpp writeFileAtomic()).              *)
DiskAgrees ==
  /\ slips \intersect {"edited", "timeout"} = {} => \A f \in Files : disk[f].has # "torn"
  /\ /\ slips \intersect {"edited", "split", "timeout"} = {}
     /\ \A i \in Instances : ~Saving(i)
     => disk["settings"].val.active \in NamesOf(disk["profiles"].val)

==============================================================================
