------------------------------ MODULE Histogram ------------------------------
(* The histogram from which the percentiles of a run are read (Stats.h,       *)
(* Stats.cpp LogHistogram): buckets for every power of two, each divided into *)
(* the same number of parts.                                                  *)
EXTENDS Integers, Sequences, FiniteSets

CONSTANTS SubBits,    \* kSubBits
          MaxMsb,     \* kMaxMsb: the last power of two it tells apart
          Times,      \* what is counted, in nanoseconds
          Shares,     \* [num, den]: the percentiles asked for
          MaxAdds     \* bound: times counted before they are forgotten

ASSUME HistogramConstants ==
  /\ SubBits \in Nat /\ MaxMsb \in Nat /\ SubBits <= MaxMsb
  /\ Times \subseteq Nat /\ Shares \subseteq [num : Nat, den : Nat \ {0}] /\ MaxAdds \in Nat

VARIABLES counts, total,   \* of LogHistogram
          seen             \* history: the times counted since the last reset

histogramvars == <<counts, total, seen>>

Pow2[n \in 0 .. MaxMsb + 1] == IF n = 0 THEN 1 ELSE 2 * Pow2[n - 1]

Sub     == Pow2[SubBits]
Buckets == (MaxMsb - SubBits + 1) * Sub + Sub
Top     == Pow2[MaxMsb + 1]
Msb(v)  == CHOOSE b \in 0 .. MaxMsb : Pow2[b] <= v /\ v < Pow2[b + 1]

Index(v) ==
  IF v < Sub THEN v
  ELSE IF v >= Top THEN Buckets - 1
  ELSE LET shift == Msb(v) - SubBits
       IN  (shift + 1) * Sub + ((v \div Pow2[shift]) % Sub)

\* Mutant: where the bucket begins instead of its middle.
BucketLow(idx) ==
  IF idx < Sub THEN idx ELSE (Sub + (idx % Sub)) * Pow2[(idx \div Sub) - 1]

BucketMid(idx) ==
  IF idx < Sub THEN idx
  ELSE LET width == Pow2[(idx \div Sub) - 1]
       IN  (Sub + (idx % Sub)) * width + (width \div 2)

(* The first bucket with which the share of all that was counted is reached.  *)
Rank(share) == (total * share.num + share.den - 1) \div share.den
Hits(share) ==
  LET acc[i \in 0 .. Buckets] == IF i = 0 THEN 0 ELSE acc[i - 1] + counts[i - 1]
  IN  {i \in 0 .. Buckets - 1 : acc[i + 1] >= Rank(share) /\ counts[i] > 0}
Percentile(share) ==
  LET hits == Hits(share)
  IN  IF total = 0 THEN 0
      ELSE BucketMid(IF hits = {} THEN Buckets - 1 ELSE CHOOSE i \in hits : \A j \in hits : i <= j)
------------------------------------------------------------------------------
NoCounts == [i \in 0 .. Buckets - 1 |-> 0]

HistogramInit == counts = NoCounts /\ total = 0 /\ seen = <<>>

Add ==
  /\ Len(seen) < MaxAdds
  /\ \E ns \in Times : /\ counts' = [counts EXCEPT ![Index(ns)] = @ + 1]
                       /\ seen' = Append(seen, ns)
  /\ total' = total + 1

Forget == counts' = NoCounts /\ total' = 0 /\ seen' = <<>>

HistogramNext == Add \/ Forget
HistogramSpec == HistogramInit /\ [][HistogramNext]_histogramvars
------------------------------------------------------------------------------
(* Among the times counted v has this rank: it is where they reach it.        *)
Ranked(v, rank) ==
  /\ \E n \in DOMAIN seen : seen[n] = v
  /\ Cardinality({n \in DOMAIN seen : seen[n] < v}) < rank
  /\ rank <= Cardinality({n \in DOMAIN seen : seen[n] <= v})

(* A percentile is within the part of a power of two that half a bucket is of *)
(* the time of that rank: the 6.25 % that Stats.h promises, whatever the      *)
(* times, up to those that are too long to be told apart.                     *)
PercentilesClose ==
  \A share \in Shares : \A v \in Times :
    Ranked(v, Rank(share)) /\ v < Top =>
      LET said == Percentile(share)
      IN  2 * Sub * (said - v) <= v /\ 2 * Sub * (v - said) <= v
==============================================================================
