------------------------- MODULE LeakScanInvariant -------------------------
(***************************************************************************)
(* Why LeakScan keeps its promises: the inductive invariants of            *)
(* LeakScanProofs, in parts a run also checks.                             *)
(***************************************************************************)
EXTENDS LeakScan

OpeningSteps == {"lookup", "missing", "start"}
WorkingSteps == {"read", "wait", "query"}
StoringSteps == {"look", "write"}

(* How a coroutine t and its job j fit together: the job is still pending  *)
(* up to the step that marks it running, and running from there on, unless *)
(* the reaper of another process failed it; where t stands tells how many  *)
(* of the corpora have a result; and past the validation every corpus is a *)
(* known one.                                                              *)
Fits(t, j) ==
  /\ j.status \in {IF t.pc \in OpeningSteps THEN "pending" ELSE "running", "error"}
  /\ Len(t.acc) <= Len(j.corpora)
  /\ \A k \in 1..Len(t.acc) : t.acc[k].corpus = j.corpora[k]
  /\ t.pc \in OpeningSteps => t.acc = <<>>
  /\ t.pc \in WorkingSteps => Len(t.acc) < Len(j.corpora)
  /\ t.pc \in StoringSteps => t.acc # <<>>
  /\ t.pc = "save" => Len(t.acc) = Len(j.corpora)
  /\ t.pc \notin OpeningSteps \cup {"fail"} =>
       \A k \in 1..Len(j.corpora) : j.corpora[k] \in Corpora

TasksFitJobs ==
  /\ \A s \in DOMAIN job : job[s].corpora # <<>>
  /\ \A s \in DOMAIN task : up[task[s].inst] /\ Fits(task[s], job[s])

CacheMatchesKeys == \A k \in DOMAIN cache : cache[k].result.corpus = k[2]

(* What the rows of a job show whatever the reapers do: a job has none, or *)
(* all of them and it has ended, completed by its coroutine (a reaper that *)
(* selected it before that may have failed it since).                      *)
RowsFitJobs ==
  /\ \A s \in Scans : rows[s] # <<>> =>
       /\ s \in DOMAIN job \ DOMAIN task /\ job[s].status \in Terminal
       /\ RowsAreWhole(s)
  /\ \A s \in DOMAIN job : job[s].status = "complete" => rows[s] # <<>>

(* The invariant behind the life of a job and its results.                 *)
LifeInv == TypeOK /\ TasksFitJobs /\ CacheMatchesKeys /\ RowsFitJobs

(* A result r is current for the job j that reports it.                    *)
CurrentFor(j, r) ==
  /\ j.created <= r.asked + TTL + CorpusTimeout + 2 * DbLatency
  /\ r.status \in {"timeout", "error"} => j.created <= r.asked

(* No step outlives its due time, so a result reaches the cache within the *)
(* attempt's own time and two sessions; attempts begin after the request;  *)
(* and every result t holds is current for j.                              *)
Timely(t, j) ==
  /\ now <= t.due
  /\ t.pc \in {"wait", "query"} => j.created <= t.due - CorpusTimeout
  /\ t.pc = "look" => t.due <= t.acc[Len(t.acc)].asked + CorpusTimeout + DbLatency
  /\ t.pc = "write" => t.due <= t.acc[Len(t.acc)].asked + CorpusTimeout + 2 * DbLatency
  /\ t.pc \in StoringSteps => t.acc[Len(t.acc)].status \in {"ok", "skipped"}
  /\ \A k \in 1..Len(t.acc) : CurrentFor(j, t.acc[k])

CacheIsTimely ==
  \A k \in DOMAIN cache :
    /\ cache[k].at <= cache[k].result.asked + CorpusTimeout + 2 * DbLatency
    /\ cache[k].result.status \in {"ok", "skipped"}

(* The invariant behind the age of the answers.                            *)
TimeInv ==
  /\ \A s \in DOMAIN job : job[s].created <= now
  /\ \A s \in DOMAIN task : Timely(task[s], job[s])
  /\ CacheIsTimely
  /\ AnswersAreCurrent

(* The longest run_scan may take to have n results, from the request on:   *)
(* three sessions before the first corpus; per corpus all its attempts and *)
(* the three sessions of the cache.                                        *)
Lasts(n) == 3 * DbLatency + n * (MaxRetries * CorpusTimeout + 3 * DbLatency)

(* Coroutine t of job j keeps to that: its step is due in time, and leaves *)
(* time for those that follow it before the next corpus.                   *)
Punctual(t, j) ==
  /\ now <= t.due
  /\ t.pc = "lookup" => t.due <= j.created + DbLatency
  /\ t.pc \in {"missing", "start"} => t.due <= j.created + 2 * DbLatency
  /\ t.pc \in {"read", "save"} => t.due <= j.created + Lasts(Len(t.acc))
  /\ t.pc \in {"wait", "query"} =>
       t.due <= j.created + Lasts(Len(t.acc)) + t.attempt * CorpusTimeout
  /\ t.pc = "look" => t.due + 2 * DbLatency <= j.created + Lasts(Len(t.acc))
  /\ t.pc = "write" => t.due + DbLatency <= j.created + Lasts(Len(t.acc))
  /\ t.pc = "fail" => t.due <= j.created + Lasts(Len(j.corpora))

(* The reaper's limit is longer than any scan.                             *)
LimitOutlastsScans ==
  \A r \in Requests \cup {DefaultCorpora} : Lasts(Len(r)) <= MaxAge

(* Behind the reaper of one process sparing the coroutines of another.     *)
PaceInv ==
  /\ \A s \in DOMAIN task : Punctual(task[s], job[s])
  /\ \A s \in DOMAIN job : Lasts(Len(job[s].corpora)) <= MaxAge

(* The totals a coroutine carries and a job stores are the sums of the     *)
(* results next to them.                                                   *)
TotalsInv ==
  /\ HitCountIsSum
  /\ \A s \in DOMAIN task : SumOfHits(task[s].acc, task[s].total)

(* The job of a living coroutine is open, no reaper has selected a job     *)
(* that is complete, and what a reaper failed has no rows.                 *)
InStep ==
  /\ \A s \in DOMAIN task : job[s].status \in Active
  /\ \A i \in DOMAIN reaper : \A s \in reaper[i].picked : job[s].status # "complete"
  /\ \A s \in DOMAIN job : job[s].status = "error" => rows[s] = <<>>

(* A reaper selects a job only once it is past its limit, so only then may *)
(* a living coroutine find its job failed.                                 *)
ReapInv ==
  /\ \A i \in DOMAIN reaper : \A s \in reaper[i].picked : job[s].created + MaxAge < now
  /\ \A s \in DOMAIN task : job[s].status \in Active \/ job[s].created + MaxAge < now

(* A process that starts up now selects no job with a living coroutine,    *)
(* and none has.                                                           *)
NoneToSelect == (\E i \in Instances : ~up[i]) => \A s \in DOMAIN task : ~Stale(s)

SelectedAreDead == \A i \in DOMAIN reaper : reaper[i].picked \cap DOMAIN task = {}

SparesLiving == NoneToSelect /\ SelectedAreDead
=============================================================================
