---------------------------- MODULE MCScanStream ----------------------------
(* A small instance of ScanStream: two streams of one scan, one of which   *)
(* may poll while the scan runs.                                           *)
EXTENDS ScanStream

CONSTANTS s1, x1, x2, p1, p2

FirstServes == [s \in {s1} |-> p1]

PollsOfOne == [x \in {x1, x2} |-> IF x = x1 THEN 1 ELSE 0]
=============================================================================
