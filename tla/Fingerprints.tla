---------------------------- MODULE Fingerprints ----------------------------
(***************************************************************************)
(* Comparing fingerprints (fingerprint/compare.py and leak/similarity.py): *)
(* a Hamming distance of 64-bit simhashes, and a cosine of embeddings.  A  *)
(* cosine is a number of Unit-ths of a hundredth, Unit as fine as one      *)
(* likes; one below zero counts for nothing and is 0.                      *)
(***************************************************************************)
EXTENDS Naturals

CONSTANT Unit  \* the cosine's steps to a hundredth
ASSUME UnitAssumption == Unit \in Nat \ {0}

Bits == 64

(* round(n / d), halves to even.                                           *)
Round(n, d) ==
  LET floor == n \div d
      twice == 2 * (n % d)
  IN IF twice < d \/ (twice = d /\ floor % 2 = 0) THEN floor ELSE floor + 1

Verdict(hamming, cosine) ==
  IF hamming = 0 /\ cosine >= 99 * Unit THEN "identical"
  ELSE IF hamming <= 3 \/ cosine >= 95 * Unit THEN "near-duplicate"
  ELSE IF hamming <= 12 \/ cosine >= 85 * Unit THEN "derivative"
  ELSE IF cosine >= 70 * Unit THEN "inspired"
  ELSE "unrelated"

(* _overlap_pct: three tenths of the bits shared, seven of the cosine.     *)
Overlap(hamming, cosine) ==
  Round(300 * Unit * (Bits - hamming) + 7 * Bits * cosine, 10 * Bits * Unit)

(* What the scanner makes of a candidate document, in ten-thousandths.     *)
SimilarityScore(hamming) == Round(10000 * (Bits - hamming), Bits)

IsLeak(hamming) == hamming <= 12
=============================================================================
