--------------------------- MODULE MCCertificates ---------------------------
(* Four texts: one certified, one differing from it in a space only, one   *)
(* unrelated, one blank.  A batch of two texts and a request with one, at  *)
(* a time, the other refused.                                              *)
EXTENDS CertificateReads

CONSTANTS r1, r2, t1, t2, t3, blank, zero

MCCanonical == t1 :> "a" @@ t2 :> "a" @@ t3 :> "b" @@ blank :> ""

Close(t, u) == {t, u} \subseteq {t1, t2}

Between(t, same, close, apart) ==
  [u \in {t1, t2, t3, blank} |-> IF t = u THEN same ELSE IF Close(t, u) THEN close ELSE apart]

MCDistance   == [t \in {t1, t2, t3, blank} |-> Between(t, 0, 2, 30)]
MCSimilarity == [t \in {t1, t2, t3, blank} |-> Between(t, 1000, 993, 200)]

(* The keys say nothing to R2: all of its behaviours, without keys.         *)
AllButBoth == [configured: BOOLEAN, keyed: BOOLEAN] \ {[configured |-> TRUE, keyed |-> TRUE]}

Batch(ts) == [kind |-> "batch", texts |-> ts]
Single(t) == [kind |-> "single", texts |-> <<t>>]

PairAndOne == r1 :> {Batch(<<t1, t3>>)} @@ r2 :> {Single(t1), Single(blank)}
=============================================================================
