------------------------------ MODULE JsonString ------------------------------
(* The inside of a string of the settings files (Json.cpp): escapes, surrogate*)
(* pairs and UTF-8. A text is a sequence of units [kind, v]: a byte as it is, *)
(* a short escape for the byte v, or \u with the number v; v is Bad when the  *)
(* letter or a digit is none. Only TLC's runs use this module.                *)
EXTENDS Integers, Sequences, SequencesExt

Bad      == -1
Byte(v)  == [kind |-> "byte", v |-> v]
Short(v) == [kind |-> "short", v |-> v]
U(v)     == [kind |-> "u", v |-> v]

HighSurrogates == 55296 .. 56319   \* D800 to DBFF
LowSurrogates  == 56320 .. 57343   \* DC00 to DFFF
Quote == 34
Backslash == 92
Slash == 47
ShortEscaped == {Quote, Backslash, 8, 9, 10, 12, 13}

AppendUtf8(cp) ==
  LET Tail6(shift) == 128 + ((cp \div shift) % 64)
  IN  CASE cp < 128   -> <<cp>>
        [] cp \in 128 .. 2047 -> <<192 + (cp \div 64), Tail6(1)>>
        [] cp \in 2048 .. 65535 -> <<224 + (cp \div 4096), Tail6(64), Tail6(1)>>
        [] cp > 65535 -> <<240 + (cp \div 262144), Tail6(4096), Tail6(64), Tail6(1)>>

RECURSIVE ParseString(_)
(* Parser::parseString(): a high surrogate takes a \u that follows with it,   *)
(* also when that is not a low one, which is lost then.                       *)
ParseString(t) ==
  IF t = <<>> THEN [ok |-> TRUE, bytes |-> <<>>]
  ELSE LET c      == Head(t)
           joined == c.kind = "u" /\ c.v \in HighSurrogates /\ Len(t) > 1 /\ t[2].kind = "u"
           cp     == IF joined /\ t[2].v \in LowSurrogates
                     THEN 65536 + (c.v - 55296) * 1024 + (t[2].v - 56320) ELSE c.v
           rest   == ParseString(SubSeq(t, IF joined THEN 3 ELSE 2, Len(t)))
       IN  IF c.v = Bad \/ (joined /\ t[2].v = Bad) \/ ~rest.ok
           THEN [ok |-> FALSE, bytes |-> <<>>]
           ELSE [ok |-> TRUE,
                 bytes |-> (IF c.kind = "u" THEN AppendUtf8(cp) ELSE <<c.v>>) \o rest.bytes]

(* writeString()                                                              *)
WriteString(bytes) ==
  [k \in DOMAIN bytes |->
     LET b == bytes[k]
     IN  IF b \in ShortEscaped THEN Short(b) ELSE IF b < 32 THEN U(b) ELSE Byte(b)]
------------------------------------------------------------------------------
(* The reference: what UTF-8 says, and all spellings of a character           *)

RECURSIVE Decoded(_)
(* The characters of some bytes, by their leading bytes.                      *)
Decoded(bytes) ==
  IF bytes = <<>> THEN <<>>
  ELSE LET b    == Head(bytes)
           n    == IF b < 128 THEN 1 ELSE IF b < 224 THEN 2 ELSE IF b < 240 THEN 3 ELSE 4
           lead == CASE n = 1 -> b [] n = 2 -> b - 192 [] n = 3 -> b - 224 [] n = 4 -> b - 240
           more == SubSeq(bytes, 2, n)
       IN  <<FoldLeft(LAMBDA x, c : x * 64 + (c - 128), lead, more)>>
           \o Decoded(SubSeq(bytes, n + 1, Len(bytes)))

Spelt(cp) ==
  (IF cp \in {Quote, Backslash} THEN {}
   ELSE {[k \in DOMAIN AppendUtf8(cp) |-> Byte(AppendUtf8(cp)[k])]})
  \cup (IF cp \in ShortEscaped \cup {Slash} THEN {<<Short(cp)>>} ELSE {})
  \cup (IF cp < 65536 THEN {<<U(cp)>>}
        ELSE {<<U(55296 + ((cp - 65536) \div 1024)), U(56320 + ((cp - 65536) % 1024))>>})

SpeltSeq(cps) ==
  FoldLeft(LAMBDA texts, cp : {x \o y : x \in texts, y \in Spelt(cp)}, {<<>>}, cps)

(* A text is accepted when none of its escapes is bad, one that spells some   *)
(* characters is read as their UTF-8, and what is read comes back when it is  *)
(* written and read again.                                                    *)
StringRight(t, cps, spells) ==
  LET r == ParseString(t)
  IN  /\ r.ok <=> \A k \in DOMAIN t : t[k].v # Bad
      /\ spells => Decoded(r.bytes) = cps
      /\ r.ok => ParseString(WriteString(r.bytes)) = r
==============================================================================
