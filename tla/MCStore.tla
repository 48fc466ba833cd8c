------------------------------ MODULE MCStore ------------------------------
(* Two instances, a name to type, which two profiles may be given, and lists  *)
(* that are empty, that have a blank name beside the one it is given, and     *)
(* that have one name three times and a number above the range. A number to   *)
(* enter lies between two that are written, one below the range a reader      *)
(* allows, and the window is larger than a reader allows.                     *)
EXTENDS Store, TLC
AllTexts == {"number", "Default", "Browser", "Profile", "New", "copy", "Game"}
TypedNames == {<<Word("Game")>>}
WrittenLists == {<<>>, <<NewProfile(Blank), NewProfile(<<Word("Profile")>>)>>,
                 [k \in 1..3 |-> [NewProfile(<<Word("Default")>>) EXCEPT !.num = High + 1]]}
SomeNumbers == {High - 1, 0}
SomeSizes == {High + Digit}
Alike == Permutations(Instances)
=============================================================================
