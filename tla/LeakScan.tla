------------------------------ MODULE LeakScan ------------------------------
(***************************************************************************)
(* The leak-scan job of services/leak_service.py over                      *)
(* repositories/leak_repo.py and leak/scanner.py: POST /leak-scan stores a *)
(* pending job and schedules run_scan in the process that served it;       *)
(* run_scan walks the requested corpora, asking the seven-day cache before *)
(* the corpus, and stores one row per corpus together with the completed   *)
(* job.  Every session_scope() block is one step, because the event loop   *)
(* switches tasks at each of its awaits; the look-before-insert of         *)
(* put_cached_result is two, because two sessions can both look first, and *)
(* so is the select-then-update of the reaper, because a scan of another   *)
(* process may end between the two.                                        *)
(*                                                                         *)
(* What lives in the database (job, rows, cache, certs) survives a Crash;  *)
(* what lives in a process (task, reaper) does not.  The reaper runs only  *)
(* before a process serves.                                                *)
(* The progress events run_scan publishes are the subject of ScanStream.   *)
(*                                                                         *)
(* An operator commented "Slip" is a mistake somebody could make in the    *)
(* definition below it, used by nothing: the README says what for.         *)
(***************************************************************************)
EXTENDS Integers, Sequences, Functions, SequencesExt

CONSTANTS
  Scans,           \* ids of the scan jobs clients may create
  Certs,           \* certificates, one per distinct content_hash
  Purgeable,       \* certificates an operator may delete by hand
  Instances,       \* server processes (two of them while a deploy overlaps)
  Corpora,         \* VALID_CORPORA
  Serial,          \* corpora asked one at a time (the Common Crawl semaphore)
  Gated,           \* corpora that may refuse for want of a token (The Stack)
  UnknownCorpus,   \* a name outside VALID_CORPORA
  DefaultCorpora,  \* DEFAULT_CORPORA
  Requests,        \* the corpora lists clients post; <<>> is null or []
  HitCounts,       \* how many hits a corpus may report
  CorpusTimeout,   \* CORPUS_TIMEOUT, in ticks
  DbLatency,       \* longest a database session takes, in ticks
  MaxAge,          \* STALE_SCAN_MAX_AGE, in ticks
  TTL,             \* CACHE_TTL, in ticks
  MaxTime,         \* bound on the clock
  MaxFaults,       \* bound on failing database sessions
  MaxCrashes       \* bound on process crashes

ScanParameters ==
  /\ Purgeable \subseteq Certs
  /\ UnknownCorpus \notin Corpora
  /\ Serial \subseteq Corpora /\ Gated \subseteq Corpora
  /\ DefaultCorpora \in Seq(Corpora) /\ DefaultCorpora # <<>>
  /\ Requests \subseteq Seq(Corpora \cup {UnknownCorpus})
  /\ HitCounts \subseteq Nat
  /\ CorpusTimeout \in Nat /\ DbLatency \in Nat /\ MaxAge \in Nat
  /\ TTL \in Nat /\ MaxTime \in Nat /\ MaxFaults \in Nat /\ MaxCrashes \in Nat
ASSUME ScanParametersAssumption == ScanParameters

VARIABLES
  certs,    \* certificates table
  job,      \* leak_scan_jobs: a function on the ids created so far
  rows,     \* leak_scans: per scan, its per-corpus rows in order
  cache,    \* leak_scan_cache: a function on the keys stored so far
  task,     \* the run_scan coroutines alive: a function on their scans
  up,       \* which processes serve requests
  reaper,   \* reap_stale_jobs under way: a function on the processes starting up
  now,      \* wall clock
  faults,   \* failed database sessions so far
  crashes,  \* crashes so far
  lastReap  \* history: the time of the newest reap that succeeded

vars == <<certs, job, rows, cache, task, up, reaper, now, faults, crashes, lastReap>>

-----------------------------------------------------------------------------
MaxRetries == 2

Active   == {"pending", "running"}
Terminal == {"complete", "error"}
Status   == Active \cup Terminal

(* A per-corpus result.  asked and answered are history: when the attempt  *)
(* began that gave it, and whether the corpus did answer.                  *)
Result == [corpus: Corpora, hits: Nat, status: {"ok", "skipped", "timeout", "error"},
           asked: Int, answered: BOOLEAN]

Job == [status: Status, cert: Certs, corpora: Seq(Corpora \cup {UnknownCorpus}),
        created: Nat, hits: Nat]

Steps == {"lookup", "missing", "start", "read", "wait", "query", "look", "write", "save", "fail"}

Task == [pc: Steps, inst: Instances, attempt: 1..MaxRetries, acc: Seq(Result),
         total: Nat, seen: BOOLEAN, due: Nat]

Put(f, k, v) == [x \in DOMAIN f \cup {k} |-> IF x = k THEN v ELSE f[x]]

At(s, l) == s \in DOMAIN task /\ task[s].pc = l

Patience(l) == IF l \in {"wait", "query"} THEN CorpusTimeout ELSE DbLatency

Goto(s, l) == task' = [task EXCEPT ![s].pc = l, ![s].due = now + Patience(l)]

End(s) == task' = Restrict(task, DOMAIN task \ {s})

SetStatus(s, st) == job' = [job EXCEPT ![s].status = st]

(* The corpus task s is working on: the first without a result.            *)
Current(s) == job[s].corpora[Len(task[s].acc) + 1]

(* cache_key: content hash and corpus (the snapshot is fixed per corpus).  *)
CacheKey(s, corpus) == <<job[s].cert, corpus>>

(* Slip: a cached answer never ages.                                       *)
FreshForever(k) == k \in DOMAIN cache

Fresh(k) == k \in DOMAIN cache /\ now <= cache[k].at + TTL

(* Slip: the last corpus is never asked.                                   *)
AfterOneTooFew(s, n) == IF n + 1 < Len(job[s].corpora) THEN "read" ELSE "save"

(* After n results: the next corpus, or save_results.                      *)
After(s, n) == IF n < Len(job[s].corpora) THEN "read" ELSE "save"

(* Slip: all_hits holds the hits of the last corpus only.                  *)
TakeLastHits(s, r, l) ==
  task' = [task EXCEPT ![s].acc = Append(@, r), ![s].total = r.hits,
                       ![s].pc = l, ![s].due = now + Patience(l)]

(* corpus_results.append(result) and all_hits.extend(result["hits"]).      *)
Take(s, r, l) ==
  task' = [task EXCEPT ![s].acc = Append(@, r), ![s].total = @ + r.hits,
                       ![s].pc = l, ![s].due = now + Patience(l)]

Init ==
  /\ certs = Certs
  /\ job = [s \in {} |-> {}]
  /\ rows = [s \in Scans |-> <<>>]
  /\ cache = [k \in {} |-> {}]
  /\ task = [s \in {} |-> {}]
  /\ up = [i \in Instances |-> FALSE]
  /\ reaper = [i \in {} |-> {}]
  /\ now = 0 /\ faults = 0 /\ crashes = 0 /\ lastReap = 0

-----------------------------------------------------------------------------
(* create_leak_scan: the certificate exists, the job is committed, run_scan *)
(* is scheduled in this process.  corpora or DEFAULT_CORPORA: an empty list *)
(* means the default one.                                                   *)
Submit(i, s, c, list) ==
  /\ up[i] /\ s \notin DOMAIN job /\ c \in certs
  /\ job' = Put(job, s, [status |-> "pending", cert |-> c, created |-> now, hits |-> 0,
                         corpora |-> IF list = <<>> THEN DefaultCorpora ELSE list])
  /\ task' = Put(task, s, [pc |-> "lookup", inst |-> i, attempt |-> 1, acc |-> <<>>,
                           total |-> 0, seen |-> FALSE, due |-> now + DbLatency])
  /\ UNCHANGED <<certs, rows, cache, up, reaper, now, faults, crashes, lastReap>>

(* certificate_repo.get: the certificate may be gone by now.               *)
Lookup(s) ==
  /\ At(s, "lookup")
  /\ Goto(s, IF job[s].cert \in certs THEN "start" ELSE "missing")
  /\ UNCHANGED <<certs, job, rows, cache, up, reaper, now, faults, crashes, lastReap>>

(* Slip: validate_corpora is not called.                                   *)
StartUnvalidated(s) ==
  /\ At(s, "start")
  /\ SetStatus(s, "running")
  /\ Goto(s, "read")
  /\ UNCHANGED <<certs, rows, cache, up, reaper, now, faults, crashes, lastReap>>

(* set_status "running", then validate_corpora.                            *)
Start(s) ==
  /\ At(s, "start")
  /\ SetStatus(s, "running")
  /\ Goto(s, IF Range(job[s].corpora) \subseteq Corpora THEN "read" ELSE "fail")
  /\ UNCHANGED <<certs, rows, cache, up, reaper, now, faults, crashes, lastReap>>

(* Slip: the results obtained before the failure are kept.                 *)
MarkErrorWithRows(s) ==
  /\ At(s, "missing") \/ At(s, "fail")
  /\ SetStatus(s, "error")
  /\ rows' = [rows EXCEPT ![s] = task[s].acc]
  /\ End(s)
  /\ UNCHANGED <<certs, cache, up, reaper, now, faults, crashes, lastReap>>

(* Slip: run_scan just returns when the certificate is missing.            *)
MarkErrorUnlessMissing(s) ==
  /\ At(s, "missing") \/ At(s, "fail")
  /\ IF At(s, "missing") THEN UNCHANGED job ELSE SetStatus(s, "error")
  /\ End(s)
  /\ UNCHANGED <<certs, rows, cache, up, reaper, now, faults, crashes, lastReap>>

(* set_status "error", for a missing certificate or from the except block. *)
MarkError(s) ==
  /\ At(s, "missing") \/ At(s, "fail")
  /\ SetStatus(s, "error")
  /\ End(s)
  /\ UNCHANGED <<certs, rows, cache, up, reaper, now, faults, crashes, lastReap>>

(* get_cached_result finds a fresh entry: the corpus is not asked.         *)
CacheHit(s) ==
  /\ At(s, "read")
  /\ LET k == CacheKey(s, Current(s)) IN
       /\ Fresh(k)
       /\ Take(s, cache[k].result, After(s, Len(task[s].acc) + 1))
  /\ UNCHANGED <<certs, job, rows, cache, up, reaper, now, faults, crashes, lastReap>>

(* wait_for starts an attempt.  A serial corpus is first waited for, on    *)
(* the clock of the same attempt.                                          *)
Attempt(s, n) ==
  LET l == IF Current(s) \in Serial THEN "wait" ELSE "query"
  IN task' = [task EXCEPT ![s].pc = l, ![s].due = now + Patience(l), ![s].attempt = n]

CacheMiss(s) ==
  /\ At(s, "read")
  /\ ~Fresh(CacheKey(s, Current(s)))
  /\ Attempt(s, 1)
  /\ UNCHANGED <<certs, job, rows, cache, up, reaper, now, faults, crashes, lastReap>>

(* The semaphore is per process, and free again once its holder answers,   *)
(* raises or is cancelled by wait_for.                                     *)
Acquire(s) ==
  /\ At(s, "wait")
  /\ \A t \in DOMAIN task \ {s} :
       ~(At(t, "query") /\ Current(t) = Current(s) /\ task[t].inst = task[s].inst)
  /\ task' = [task EXCEPT ![s].pc = "query"]
  /\ UNCHANGED <<certs, job, rows, cache, up, reaper, now, faults, crashes, lastReap>>

(* An attempt is due CORPUS_TIMEOUT after it began.                        *)
Outcome(s, h, st, ans) ==
  [corpus |-> Current(s), hits |-> h, status |-> st, asked |-> task[s].due - CorpusTimeout,
   answered |-> ans]

(* The corpus answers with h near-duplicates.                              *)
Answer(s, h) ==
  /\ At(s, "query")
  /\ Take(s, Outcome(s, h, "ok", TRUE), "look")
  /\ UNCHANGED <<certs, job, rows, cache, up, reaper, now, faults, crashes, lastReap>>

(* An HTTP timeout, transport error or error status inside the client: it  *)
(* returns the same empty result as a corpus with no near-duplicate.       *)
AnswerLost(s) ==
  /\ At(s, "query")
  /\ Take(s, Outcome(s, 0, "ok", FALSE), "look")
  /\ UNCHANGED <<certs, job, rows, cache, up, reaper, now, faults, crashes, lastReap>>

(* PermissionError: "skipped" at once, without a retry.                    *)
Refuse(s) ==
  /\ At(s, "query") /\ Current(s) \in Gated
  /\ Take(s, Outcome(s, 0, "skipped", FALSE), "look")
  /\ UNCHANGED <<certs, job, rows, cache, up, reaper, now, faults, crashes, lastReap>>

(* Slip: no limit on the attempts.                                         *)
RetryForever(s, st) == Attempt(s, task[s].attempt)

(* A failed attempt: retried once, then reported as st and not cached.     *)
Retry(s, st) ==
  IF task[s].attempt < MaxRetries
  THEN Attempt(s, task[s].attempt + 1)
  ELSE Take(s, Outcome(s, 0, st, FALSE), After(s, Len(task[s].acc) + 1))

(* The client raises (a body that is not JSON, say).                       *)
Raise(s) ==
  /\ At(s, "query")
  /\ Retry(s, "error")
  /\ UNCHANGED <<certs, job, rows, cache, up, reaper, now, faults, crashes, lastReap>>

(* wait_for gives up: CORPUS_TIMEOUT has passed since the attempt began.   *)
TimeOut(s) ==
  /\ At(s, "wait") \/ At(s, "query")
  /\ now = task[s].due
  /\ Retry(s, "timeout")
  /\ UNCHANGED <<certs, job, rows, cache, up, reaper, now, faults, crashes, lastReap>>

(* put_cached_result looks whether the key has a row, then updates it or   *)
(* inserts one.  The primary key lets only one of two inserters commit;    *)
(* the other session raises IntegrityError into run_scan's except block.   *)
Newest(s) == Last(task[s].acc)

Look(s) ==
  /\ At(s, "look")
  /\ task' = [task EXCEPT ![s].pc = "write", ![s].due = now + DbLatency,
                          ![s].seen = CacheKey(s, Newest(s).corpus) \in DOMAIN cache]
  /\ UNCHANGED <<certs, job, rows, cache, up, reaper, now, faults, crashes, lastReap>>

Write(s) ==
  /\ At(s, "write")
  /\ LET k == CacheKey(s, Newest(s).corpus) IN
       /\ task[s].seen \/ k \notin DOMAIN cache
       /\ cache' = Put(cache, k, [result |-> Newest(s), at |-> now])
  /\ Goto(s, After(s, Len(task[s].acc)))
  /\ UNCHANGED <<certs, job, rows, up, reaper, now, faults, crashes, lastReap>>

Collide(s) ==
  /\ At(s, "write")
  /\ ~task[s].seen /\ CacheKey(s, Newest(s).corpus) \in DOMAIN cache
  /\ Goto(s, "fail")
  /\ UNCHANGED <<certs, job, rows, cache, up, reaper, now, faults, crashes, lastReap>>

(* save_results: the rows and the completed job in one transaction.        *)
Save(s) ==
  /\ At(s, "save")
  /\ rows' = [rows EXCEPT ![s] = task[s].acc]
  /\ job' = [job EXCEPT ![s].status = "complete", ![s].hits = task[s].total]
  /\ End(s)
  /\ UNCHANGED <<certs, cache, up, reaper, now, faults, crashes, lastReap>>

(* A session of task s fails and rolls back.  Between validate_corpora and *)
(* the last corpus the except block turns that into "fail"; anywhere else  *)
(* run_scan itself dies and leaves the job as it was.                      *)
Guarded == {"read", "look", "write"}

SessionFails(s) ==
  /\ s \in DOMAIN task /\ task[s].pc \notin {"wait", "query"}
  /\ faults < MaxFaults
  /\ faults' = faults + 1
  /\ IF task[s].pc \in Guarded THEN Goto(s, "fail") ELSE End(s)
  /\ UNCHANGED <<certs, job, rows, cache, up, reaper, now, crashes, lastReap>>

(* A crash, a suspension or a redeploy: the coroutines are gone, or a      *)
(* reaper that has not committed.                                          *)
Crash(i) ==
  /\ up[i] \/ i \in DOMAIN reaper
  /\ crashes < MaxCrashes
  /\ crashes' = crashes + 1
  /\ up' = [up EXCEPT ![i] = FALSE]
  /\ task' = Restrict(task, {s \in DOMAIN task : task[s].inst # i})
  /\ reaper' = Restrict(reaper, DOMAIN reaper \ {i})
  /\ UNCHANGED <<certs, job, rows, cache, now, faults, lastReap>>

(* Slips: pending jobs are not reaped; whatever is open is, at any age.    *)
StaleIfRunning(s) == job[s].status = "running" /\ job[s].created + MaxAge < now

StaleAtAnyAge(s) == job[s].status \in Active

(* The jobs reap_stale_jobs selects.                                       *)
Stale(s) == job[s].status \in Active /\ job[s].created + MaxAge < now

(* lifespan reaps before the first request is served: it selects, ...      *)
StartUp(i) ==
  /\ ~up[i] /\ i \notin DOMAIN reaper
  /\ reaper' = Put(reaper, i, [picked |-> {s \in DOMAIN job : Stale(s)},
                               at |-> now, due |-> now + DbLatency])
  /\ UNCHANGED <<certs, job, rows, cache, task, up, now, faults, crashes, lastReap>>

(* ... and updates what it selected by primary key, whatever has become of *)
(* it since, ...                                                           *)
Reap(picked) ==
  job' = [s \in DOMAIN job |->
            IF s \in picked THEN [job[s] EXCEPT !.status = "error"] ELSE job[s]]

Boot(i) ==
  /\ i \in DOMAIN reaper
  /\ Reap(reaper[i].picked)
  /\ lastReap' = IF lastReap < reaper[i].at THEN reaper[i].at ELSE lastReap
  /\ up' = [up EXCEPT ![i] = TRUE]
  /\ reaper' = Restrict(reaper, DOMAIN reaper \ {i})
  /\ UNCHANGED <<certs, rows, cache, task, now, faults, crashes>>

(* ... and serves all the same when the reaper raises.                     *)
BootUnreaped(i) ==
  /\ i \in DOMAIN reaper /\ faults < MaxFaults
  /\ up' = [up EXCEPT ![i] = TRUE]
  /\ reaper' = Restrict(reaper, DOMAIN reaper \ {i})
  /\ faults' = faults + 1
  /\ UNCHANGED <<certs, job, rows, cache, task, now, crashes, lastReap>>

-----------------------------------------------------------------------------
(* The environment.                                                        *)

(* No step outlives its due time: wait_for cancels an attempt then, and    *)
(* DbLatency is how long a session may take.                               *)
Tick ==
  /\ now < MaxTime
  /\ \A s \in DOMAIN task : now < task[s].due
  /\ \A i \in DOMAIN reaper : now < reaper[i].due
  /\ now' = now + 1
  /\ UNCHANGED <<certs, job, rows, cache, task, up, reaper, faults, crashes, lastReap>>

(* SQLite does not enforce the foreign key of leak_scan_jobs.              *)
Purge(c) ==
  /\ c \in certs \cap Purgeable
  /\ certs' = certs \ {c}
  /\ UNCHANGED <<job, rows, cache, task, up, reaper, now, faults, crashes, lastReap>>

RunScan(s) ==
  \/ Lookup(s) \/ Start(s) \/ MarkError(s) \/ CacheHit(s) \/ CacheMiss(s)
  \/ Acquire(s) \/ (\E h \in HitCounts : Answer(s, h)) \/ AnswerLost(s) \/ Refuse(s)
  \/ Raise(s) \/ TimeOut(s) \/ Look(s) \/ Write(s) \/ Collide(s) \/ Save(s)

Next ==
  \/ \E i \in Instances, s \in Scans, c \in Certs, r \in Requests : Submit(i, s, c, r)
  \/ \E s \in Scans : RunScan(s) \/ SessionFails(s)
  \/ \E i \in Instances : Crash(i) \/ StartUp(i) \/ Boot(i) \/ BootUnreaped(i)
  \/ Tick
  \/ \E c \in Certs : Purge(c)

Spec == Init /\ [][Next]_vars

(* The event loop keeps running every coroutine that can run, and the      *)
(* platform starts a process that is down.  Nothing else is fair: no       *)
(* client need call, no corpus need answer well, nothing need fail.        *)
Fairness == /\ \A s \in Scans : WF_vars(RunScan(s))
            /\ \A i \in Instances : WF_vars(StartUp(i) \/ Boot(i) \/ BootUnreaped(i))
            /\ WF_vars(Tick)

FairSpec == Spec /\ Fairness

-----------------------------------------------------------------------------
TypeOK ==
  /\ certs \subseteq Certs
  /\ job \in [DOMAIN job -> Job] /\ DOMAIN job \subseteq Scans
  /\ rows \in [Scans -> Seq(Result)]
  /\ cache \in [DOMAIN cache -> [result: Result, at: Nat]]
  /\ DOMAIN cache \subseteq Certs \X Corpora
  /\ task \in [DOMAIN task -> Task] /\ DOMAIN task \subseteq DOMAIN job
  /\ up \in [Instances -> BOOLEAN]
  /\ reaper \in [DOMAIN reaper -> [picked: SUBSET DOMAIN job, at: Nat, due: Nat]]
  /\ DOMAIN reaper \subseteq {i \in Instances : ~up[i]}
  /\ now \in Nat /\ faults \in Nat /\ crashes \in Nat /\ lastReap \in Nat

-----------------------------------------------------------------------------
(* The rows of job s are those of its corpora, one each and in order.      *)
RowsAreWhole(s) ==
  /\ Len(rows[s]) = Len(job[s].corpora)
  /\ \A k \in DOMAIN rows[s] : rows[s][k].corpus = job[s].corpora[k]

(* A job is complete exactly when its leak_scans rows are there, one per   *)
(* corpus of the request and in its order.  No crash, failed session or    *)
(* concurrent scan leaves half a result.                                   *)
ResultsMatchJob ==
  \A s \in Scans :
    /\ rows[s] # <<>> <=> s \in DOMAIN job /\ job[s].status = "complete"
    /\ rows[s] # <<>> => RowsAreWhole(s)

(* n is the sum of the hits of these results: a running total from 0 to n  *)
(* grows by those of one result after the other.                           *)
SumOfHits(results, n) ==
  \E total \in [0..Len(results) -> 0..n] :
    /\ total[0] = 0 /\ total[Len(results)] = n
    /\ \A k \in 1..Len(results) : total[k] = total[k - 1] + results[k].hits

(* hit_count, counted over all_hits, is the sum of the per-corpus counts   *)
(* that save_results stores next to it, and 0 where there are none.        *)
HitCountIsSum == \A s \in DOMAIN job : SumOfHits(rows[s], job[s].hits)

(* A client that saw "complete" or "error" never sees the job change again *)
(* (the stream and the pollers stop there): neither a late coroutine nor   *)
(* the reaper of another process overwrites it.  True of the code only     *)
(* where the reaper is safe: see ReaperIsSafe in LeakScanProofs.           *)
TerminalIsFinal ==
  [][\A s \in DOMAIN job : job[s].status \in Terminal => job'[s] = job[s]]_vars

(* After a reap at time t no job older than t - STALE_SCAN_MAX_AGE is ever *)
(* left pending or running, whatever runs, dies or restarts since.         *)
NoOldOrphans ==
  \A s \in DOMAIN job : job[s].status \in Active => lastReap <= job[s].created + MaxAge

(* A job that ended stays as it is at least until it is as old as          *)
(* STALE_SCAN_MAX_AGE.  Past that, the reaper of a process that starts up  *)
(* may fail it under its coroutine, which then ends it a second time, or   *)
(* may fail what has completed since it was selected.                      *)
EndsHoldUntilStale ==
  [][\A s \in DOMAIN job :
       job[s].status \in Terminal /\ now <= job[s].created + MaxAge => job'[s] = job[s]]_vars

(* Whatever a finished scan reports comes from an attempt that began at    *)
(* most CACHE_TTL before the scan was requested, give or take the attempt  *)
(* itself and the two sessions that stored its result; and a timeout or    *)
(* error it reports is its own, never one replayed from cache.             *)
AnswersAreCurrent ==
  \A s \in DOMAIN job : \A k \in DOMAIN rows[s] :
    LET r == rows[s][k] IN
      /\ job[s].created <= r.asked + TTL + CorpusTimeout + 2 * DbLatency
      /\ r.status \in {"timeout", "error"} => job[s].created <= r.asked

(* run_scan never ends, returning or raising, with its job still pending   *)
(* or running (leak_service.py:131-133).                                   *)
NoneLeftStuck ==
  \A s \in DOMAIN job \ DOMAIN task : job[s].status \in Terminal

(* Every job a client created ends "complete" or "error".                  *)
JobsTerminate ==
  \A s \in Scans : (s \in DOMAIN job) ~> (s \in DOMAIN job /\ job[s].status \in Terminal)

(* The client's view of the jobs is that of ScanJob.                       *)
AbstractJob ==
  INSTANCE ScanJob WITH
    Results <- Seq(Result),
    status <- [s \in Scans |-> IF s \in DOMAIN job THEN job[s].status ELSE "none"],
    result <- rows

JobView == AbstractJob!Spec

(* What the cache serves for CACHE_TTL as a corpus's finding is one: the   *)
(* corpus did answer (leak_service.py:110-111).                            *)
NoPoisonedEntry ==
  \A k \in DOMAIN cache : cache[k].result.status = "ok" => cache[k].result.answered
=============================================================================
