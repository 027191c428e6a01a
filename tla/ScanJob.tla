------------------------------ MODULE ScanJob ------------------------------
(***************************************************************************)
(* What a leak-scan job promises its clients, without the machinery: a job *)
(* is pending, then perhaps running, then complete or error for good, and  *)
(* its results appear at once, with "complete", and never change.  LeakScan*)
(* implements it (LeakScanProofs), and ScanStream watches it.              *)
(***************************************************************************)
EXTENDS Naturals, Sequences

CONSTANTS Scans,   \* ids of the jobs
          Results  \* the lists of per-corpus results a job may end with

VARIABLES status,  \* "none" before the job exists
          result   \* its published results, <<>> while there are none

jobVars == <<status, result>>

Active   == {"pending", "running"}
Terminal == {"complete", "error"}

Init ==
  /\ status = [s \in Scans |-> "none"]
  /\ result = [s \in Scans |-> <<>>]

Submit(s) ==
  /\ status[s] = "none"
  /\ status' = [status EXCEPT ![s] = "pending"]
  /\ UNCHANGED result

Start(s) ==
  /\ status[s] = "pending"
  /\ status' = [status EXCEPT ![s] = "running"]
  /\ UNCHANGED result

Complete(s) ==
  /\ status[s] = "running"
  /\ status' = [status EXCEPT ![s] = "complete"]
  /\ result'[s] \in Results \ {<<>>}
  /\ result' = [result EXCEPT ![s] = result'[s]]

(* run_scan fails its own job; the reaper fails all stale ones at once.    *)
Fail(F) ==
  /\ \A s \in F : status[s] \in Active
  /\ status' = [s \in Scans |-> IF s \in F THEN "error" ELSE status[s]]
  /\ UNCHANGED result

(* Every step shows in a status.                                           *)
Next ==
  /\ status' # status
  /\ \/ \E s \in Scans : Submit(s) \/ Start(s) \/ Complete(s)
     \/ \E F \in SUBSET Scans : Fail(F)

Spec == Init /\ [][Next]_jobVars

-----------------------------------------------------------------------------
TypeOK ==
  /\ status \in [Scans -> {"none"} \cup Active \cup Terminal]
  /\ result \in [Scans -> Results \cup {<<>>}]
=============================================================================
