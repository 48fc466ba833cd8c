------------------------------- MODULE JsonText -------------------------------
(* The reader and the writer of the settings files (Json.cpp), over tokens:   *)
(* brackets, colon, comma, "s" for any string, "n" for a number or a literal. *)
(* White space and comments between tokens, and how these are spelled, are    *)
(* left out. Only TLC's runs use this module: its operators are recursive.    *)
EXTENDS Integers, Sequences, FiniteSets, SequencesExt

CONSTANT MaxDepth   \* 64 in the code

Scalar(tok) == [type |-> tok, items |-> <<>>]
Scalars == {Scalar("s"), Scalar("n")}
Array(items)  == [type |-> "array", items |-> items]
Object(items) == [type |-> "object", items |-> items]   \* its values; keys are "s"

Failed == [ok |-> FALSE, value |-> Scalar("n"), rest |-> <<>>]
Parsed(v, rest) == [ok |-> TRUE, value |-> v, rest |-> rest]
At(t, tok) == t # <<>> /\ Head(t) = tok
Closing(type) == IF type = "array" THEN "]" ELSE "}"
------------------------------------------------------------------------------
RECURSIVE ParseValue(_, _), ParseItems(_, _, _, _)

\* Mutant: the depth is looked at when a container begins, not at its values.
ParseValueDeeper(t, depth) ==
  IF depth > MaxDepth + 1 \/ t = <<>> THEN Failed
  ELSE CASE Head(t) = "[" -> ParseItems(Tail(t), depth, "array", <<>>)
         [] Head(t) = "{" -> ParseItems(Tail(t), depth, "object", <<>>)
         [] Head(t) \in {"s", "n"} -> Parsed(Scalar(Head(t)), Tail(t))
         [] OTHER         -> Failed

(* Parser::parseValue() of the text t.                                        *)
ParseValue(t, depth) ==
  IF depth > MaxDepth \/ t = <<>> THEN Failed
  ELSE CASE Head(t) = "[" -> ParseItems(Tail(t), depth, "array", <<>>)
         [] Head(t) = "{" -> ParseItems(Tail(t), depth, "object", <<>>)
         [] Head(t) \in {"s", "n"} -> Parsed(Scalar(Head(t)), Tail(t))
         [] OTHER         -> Failed

(* parseArray() and parseObject() after some items: the end, which may follow *)
(* a comma, or an item (with its key) and then a comma or the end.            *)
ParseItems(t, depth, type, items) ==
  IF At(t, Closing(type)) THEN Parsed([type |-> type, items |-> items], Tail(t))
  ELSE LET keyed == type = "object"
           r == IF ~keyed THEN ParseValue(t, depth + 1)
                ELSE IF At(t, "s") /\ At(Tail(t), ":")
                THEN ParseValue(Tail(Tail(t)), depth + 1) ELSE Failed
           more == Append(items, r.value)
       IN  IF ~r.ok THEN Failed
           ELSE IF At(r.rest, ",") THEN ParseItems(Tail(r.rest), depth, type, more)
           ELSE IF At(r.rest, Closing(type))
           THEN Parsed([type |-> type, items |-> more], Tail(r.rest))
           ELSE Failed

(* parse(): nothing may follow the value.                                     *)
Parse(t) ==
  LET r == ParseValue(t, 0) IN IF r.ok /\ r.rest = <<>> THEN r ELSE Failed

Joined(parts) ==
  FlattenSeq([n \in DOMAIN parts |-> IF n = 1 THEN parts[n] ELSE <<",">> \o parts[n]])

RECURSIVE Write(_)
(* stringify()                                                                *)
Write(v) ==
  CASE v \in Scalars -> <<v.type>>
    [] v.type = "array"  ->
         <<"[">> \o Joined([n \in DOMAIN v.items |-> Write(v.items[n])]) \o <<"]">>
    [] v.type = "object" ->
         <<"{">> \o Joined([n \in DOMAIN v.items |-> <<"s", ":">> \o Write(v.items[n])]) \o <<"}">>
------------------------------------------------------------------------------
(* The reference: the values of some height and all their spellings           *)

RECURSIVE Values(_)
Values(height) ==
  IF height = 0 THEN Scalars \cup {Array(<<>>), Object(<<>>)}
  ELSE LET parts == Values(height - 1)
           seqs  == {<<x>> : x \in parts}
                    \cup {<<x, y>> : x \in parts, y \in Scalars}
                    \cup {<<y, x>> : x \in parts, y \in Scalars}
       IN  parts \cup {Array(s) : s \in seqs} \cup {Object(s) : s \in seqs}

(* A comma before the end is tolerated where there is an item.                *)
RECURSIVE Spellings(_)
Spellings(v) ==
  LET Item(n) == {IF v.type = "object" THEN <<"s", ":">> \o x ELSE x : x \in Spellings(v.items[n])}
      Bodies  == CASE Len(v.items) = 0 -> {<<>>}
                   [] Len(v.items) = 1 -> Item(1)
                   [] OTHER -> {x \o <<",">> \o y : x \in Item(1), y \in Item(2)}
      Commas  == IF v.items = <<>> THEN {<<>>} ELSE {<<>>, <<",">>}
  IN  CASE v \in Scalars -> {<<v.type>>}
        [] v.type = "array"  -> {<<"[">> \o b \o e \o <<"]">> : b \in Bodies, e \in Commas}
        [] v.type = "object" -> {<<"{">> \o b \o e \o <<"}">> : b \in Bodies, e \in Commas}

Language(height) == UNION {{[text |-> t, value |-> v] : t \in Spellings(v)} : v \in Values(height)}
==============================================================================
