----------------------------- MODULE MCLeakScan -----------------------------
(* Small instances of LeakScan: Common Crawl, asked one at a time, and The *)
(* Stack, which may refuse.                                                *)
EXTENDS LeakScanInvariant, TLC

CONSTANTS s1, s2, c1, i1, i2, cc, stack, bogus

MCDefault == <<cc>>
OnlyDefault == {<<>>}
TwoCorpora == {<<cc, stack>>}
ValidAndNot == {<<cc, stack>>, <<bogus>>}
Symmetric == Permutations({s1, s2})
=============================================================================
