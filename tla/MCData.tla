-------------------------------- MODULE MCData --------------------------------
(* The algorithms that keep to themselves side by side: the slots of a run,   *)
(* programs compiled, figures of a run, a histogram, and a text or the inside *)
(* of a string read. They share no state, so one is followed at a time.       *)
(* Intervals of one, two and a third and seven microseconds, and a long one.    *)
(* Seconds of two slots of two ticks, a ring of three slots; pauses within a  *)
(* slot, to the next one, over a second, over the ring, and longer than the   *)
(* fourteen slots that advance() pushes at most; calls of one or two actions. *)
(* Times at both ends of a bucket, of a power of two and of the histogram,    *)
(* and one past it. Every text of up to MaxTokens tokens and longer ones that *)
(* spell a value, every string of two characters in all its spellings, and    *)
(* any three units of one.                                                    *)
EXTENDS MCPacing, ActionCompiler, Figures, Histogram, JsonText, JsonString

CONSTANTS MaxTokens, CodePoints

SomeIntervals == {[num |-> 1, den |-> 1], [num |-> 7, den |-> 3], [num |-> 7, den |-> 1],
                  [num |-> 100, den |-> 1]}
SomeShares == {[num |-> 1, den |-> 2], [num |-> 99, den |-> 100]}

Tokens == {"[", "]", "{", "}", ":", ",", "s", "n"}
Right == Language(MaxDepth)
SpeltTexts == {x.text : x \in Right}
Spelled(t) == {x.value : x \in {y \in Right : y.text = t}}

Units == {Byte(65), Short(10), Short(Bad), U(65), U(55296), U(56320), U(Bad)}
Strings == {[t |-> t, cps |-> <<>>, spells |-> FALSE] : t \in SeqOf(Units, 3)}
           \cup UNION {{[t |-> t, cps |-> cps, spells |-> TRUE] : t \in SpeltSeq(cps)} :
                       cps \in SeqOf(CodePoints, 2)}

VARIABLES part, input, answer

readervars == <<input, answer>>

NoInput == [what |-> "nothing"]
Inputs ==
  [what : {"text"}, t : SeqOf(Tokens, MaxTokens) \cup {x.text : x \in Language(MaxDepth + 1)}]
    \cup [what : {"string"}, s : Strings]

Answer(what, said) ==
  answer = "none" /\ input.what = what /\ answer' = said /\ UNCHANGED input

Read   == Answer("text", "read")
Decode == Answer("string", "decoded")

(* What is not followed begins as it always does. So does the compiler: the   *)
(* first change of the configuration leads to any other.                      *)
DataInit ==
  /\ part \in {"pacing", "compiler", "figures", "histogram", "reader"}
  /\ Init
  /\ part # "pacing" => /\ limits = <<"Skip", 1, 100>>
                        /\ remaining = 100 /\ period = [num |-> 5, den |-> 2]
  /\ CompilerInit /\ FiguresInit /\ HistogramInit /\ answer = "none"
  /\ config = CHOOSE c \in ConfigsOf({Plain}) : ~c.maxMode
  /\ input \in IF part = "reader" THEN Inputs ELSE {NoInput}

DataNext ==
  \/ part = "pacing" /\ Next /\ UNCHANGED <<compilervars, figurevars, histogramvars, readervars, part>>
  \/ part = "compiler" /\ CompilerNext /\ UNCHANGED <<vars, figurevars, histogramvars, readervars, part>>
  \/ part = "figures" /\ FiguresNext /\ UNCHANGED <<vars, compilervars, histogramvars, readervars, part>>
  \/ part = "histogram" /\ HistogramNext /\ UNCHANGED <<vars, compilervars, figurevars, readervars, part>>
  \/ part = "reader" /\ (Read \/ Decode) /\ UNCHANGED <<vars, compilervars, figurevars, histogramvars, part>>

DataSpec == DataInit /\ [][DataNext]_<<vars, compilervars, figurevars, histogramvars, readervars, part>>
------------------------------------------------------------------------------
(* A text is accepted exactly when it spells a value that is not nested too   *)
(* deep, a comma before an end allowed, and is read as that value; so what    *)
(* stringify() writes comes back as it was; and so for strings, with their    *)
(* escapes, surrogate pairs and UTF-8 (Json.cpp).                             *)
ReadsAsSpelled ==
  /\ answer = "read" =>
       LET r == Parse(input.t)
       IN  IF r.ok THEN Spelled(input.t) = {r.value} /\ Parse(Write(r.value)) = r
           ELSE input.t \notin SpeltTexts
  /\ answer = "decoded" => StringRight(input.s.t, input.s.cps, input.s.spells)
==============================================================================
