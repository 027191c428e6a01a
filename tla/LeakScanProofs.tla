--------------------------- MODULE LeakScanProofs ---------------------------
(***************************************************************************)
(* Proofs about LeakScan, for any numbers of processes, scans,             *)
(* certificates, corpora, crashes and failures.  What a reaper may break,  *)
(* by failing the job of a coroutine that lives, or lived when the reaper  *)
(* selected the job, assumes ReaperIsSafe: that one process serves at a    *)
(* time, or the reaper's limit outlasts every scan.                        *)
(***************************************************************************)
EXTENDS LeakScanInvariant, TLAPS

OneProcess == \A i, j \in Instances : i = j

ReaperIsSafe == OneProcess \/ LimitOutlastsScans

(* The types a step has to respect.                                        *)
USE DEF Job, Task, Steps, Status, Active, Terminal, Result, MaxRetries

LEMMA ParametersAreNat ==
  ASSUME ScanParameters
  PROVE  CorpusTimeout \in Nat /\ DbLatency \in Nat /\ MaxAge \in Nat /\ TTL \in Nat
BY DEF ScanParameters

LEMMA PutFunction ==
  ASSUME NEW V, NEW f, f \in [DOMAIN f -> V], NEW k, NEW v \in V
  PROVE  /\ Put(f, k, v) \in [DOMAIN f \cup {k} -> V]
         /\ DOMAIN Put(f, k, v) = DOMAIN f \cup {k}
         /\ Put(f, k, v)[k] = v
         /\ \A x \in DOMAIN f : x # k => Put(f, k, v)[x] = f[x]
BY DEF Put

LEMMA RestrictFunction ==
  ASSUME NEW V, NEW f, f \in [DOMAIN f -> V], NEW S, S \subseteq DOMAIN f
  PROVE  /\ Restrict(f, S) \in [S -> V]
         /\ DOMAIN Restrict(f, S) = S
         /\ \A x \in S : Restrict(f, S)[x] = f[x]
BY DEF Restrict

LEMMA LastResult ==
  ASSUME NEW acc \in Seq(Result), acc # <<>>
  PROVE  acc[Len(acc)] \in Result /\ acc[Len(acc)].asked \in Int
<1>1. Len(acc) \in 1..Len(acc)
  OBVIOUS
<1>2. acc[Len(acc)] \in Result
  <2> HIDE DEF Result
  <2> QED BY <1>1
<1> QED BY <1>2

LEMMA InitLife == ScanParameters /\ Init => LifeInv
BY DEF ScanParameters, Init, LifeInv, TypeOK, TasksFitJobs, CacheMatchesKeys, RowsFitJobs

-----------------------------------------------------------------------------
(* The three ways a step moves coroutine s.                                *)
Moves(s) ==
  /\ task' \in [DOMAIN task -> Task]
  /\ \A x \in DOMAIN task : x # s => task'[x] = task[x]

LEMMA GotoMoves ==
  ASSUME ScanParameters, TypeOK, NEW s \in DOMAIN task, NEW l \in Steps, Goto(s, l)
  PROVE  /\ Moves(s)
         /\ task'[s].inst = task[s].inst /\ task'[s].acc = task[s].acc
         /\ task'[s].total = task[s].total
         /\ task'[s].pc = l /\ task'[s].due = now + Patience(l)
<1>1. task[s] \in Task
  BY DEF TypeOK
<1>2. now + Patience(l) \in Nat
  <2>1. now \in Nat
    BY DEF TypeOK
  <2>2. Patience(l) \in Nat
    BY ParametersAreNat DEF Patience
  <2> QED BY <2>1, <2>2
<1> QED BY <1>1, <1>2 DEF TypeOK, Goto, Moves

LEMMA AttemptMoves ==
  ASSUME ScanParameters, TypeOK, NEW s \in DOMAIN task, NEW n \in 1..MaxRetries, Attempt(s, n)
  PROVE  /\ Moves(s)
         /\ task'[s].inst = task[s].inst /\ task'[s].acc = task[s].acc
         /\ task'[s].total = task[s].total
         /\ task'[s].pc \in {"wait", "query"} /\ task'[s].attempt = n
         /\ task'[s].due = now + CorpusTimeout
<1>1. task[s] \in Task
  BY DEF TypeOK
<1>2. now + CorpusTimeout \in Nat
  BY SMTT(30), ParametersAreNat DEF TypeOK
<1> QED BY <1>1, <1>2 DEF TypeOK, Attempt, Patience, Moves

LEMMA TakeMoves ==
  ASSUME ScanParameters, TypeOK, NEW s \in DOMAIN task, NEW r \in Result, NEW l \in Steps,
         Take(s, r, l)
  PROVE  /\ Moves(s)
         /\ task'[s].inst = task[s].inst
         /\ task'[s].acc = Append(task[s].acc, r)
         /\ task'[s].total = task[s].total + r.hits
         /\ task'[s].pc = l /\ task'[s].due = now + Patience(l)
<1>1. task[s] \in Task
  BY DEF TypeOK
<1>2. now + Patience(l) \in Nat
  <2>1. now \in Nat
    BY DEF TypeOK
  <2>2. Patience(l) \in Nat
    BY ParametersAreNat DEF Patience
  <2> QED BY <2>1, <2>2
<1>3. Append(task[s].acc, r) \in Seq(Result) /\ task[s].total + r.hits \in Nat
  BY <1>1
<1> QED BY <1>1, <1>2, <1>3 DEF TypeOK, Take, Moves

(* A step that only moves one coroutine preserves LifeInv when the new     *)
(* state of the coroutine fits its job.                                    *)
CacheOK ==
  /\ cache \in [DOMAIN cache -> [result: Result, at: Nat]]
  /\ DOMAIN cache \subseteq Certs \X Corpora
  /\ CacheMatchesKeys

LEMMA MoveKeepsLife ==
  ASSUME LifeInv, NEW s \in DOMAIN task, Moves(s),
         task'[s].inst = task[s].inst, Fits(task'[s], job[s]),
         UNCHANGED <<job, rows, up, reaper>>, cache' = cache \/ CacheOK', certs' \subseteq certs,
         now' \in Nat, faults' \in Nat, crashes' \in Nat, lastReap' \in Nat
  PROVE  LifeInv'
<1>1. TypeOK'
  BY DEF LifeInv, TypeOK, Moves, CacheOK
<1>2. TasksFitJobs'
  <2>1. DOMAIN task' = DOMAIN task
    BY DEF Moves
  <2> SUFFICES ASSUME NEW x \in DOMAIN task
               PROVE  up[task'[x].inst] /\ Fits(task'[x], job[x])
    BY <2>1 DEF LifeInv, TasksFitJobs, Fits
  <2>2. up[task[x].inst] /\ Fits(task[x], job[x])
    BY DEF LifeInv, TasksFitJobs
  <2> QED BY <2>2 DEF Moves
<1>3. CacheMatchesKeys' /\ RowsFitJobs'
  BY DEF LifeInv, CacheMatchesKeys, RowsFitJobs, RowsAreWhole, CacheOK, Moves
<1> QED BY <1>1, <1>2, <1>3 DEF LifeInv

(* Taking a result for the current corpus fits the job, wherever the       *)
(* coroutine goes on to from there.                                        *)
LEMMA TakeFits ==
  ASSUME ScanParameters, LifeInv, NEW s \in DOMAIN task, task[s].pc \in WorkingSteps,
         NEW r \in Result, r.corpus = Current(s),
         NEW l \in StoringSteps \cup {After(s, Len(task[s].acc) + 1)},
         Take(s, r, l)
  PROVE  Moves(s) /\ task'[s].inst = task[s].inst /\ Fits(task'[s], job[s])
<1>1. task[s] \in Task /\ job[s] \in Job /\ l \in Steps
  <2>1. task[s] \in Task /\ job[s] \in Job
    <3> HIDE DEF Task, Job
    <3> QED BY DEF LifeInv, TypeOK
  <2>2. l \in StoringSteps \cup {"read", "save"}
    BY Zenon DEF After
  <2>3. l \in Steps
    BY ONLY <2>2 DEF StoringSteps, Steps
  <2> QED BY <2>1, <2>3
<1>2. /\ Moves(s) /\ task'[s].inst = task[s].inst
      /\ task'[s].acc = Append(task[s].acc, r) /\ task'[s].pc = l
  <2>1. TypeOK
    BY DEF LifeInv
  <2> HIDE DEF Task, Job, Result, Steps
  <2> QED BY <1>1, <2>1, TakeMoves
<1>3. /\ Len(task'[s].acc) = Len(task[s].acc) + 1
      /\ \A k \in 1..Len(task[s].acc) : task'[s].acc[k] = task[s].acc[k]
      /\ task'[s].acc[Len(task[s].acc) + 1] = r
  BY <1>1, <1>2
<1>4. Fits(task[s], job[s])
  BY DEF LifeInv, TasksFitJobs
<1>5. /\ Len(task[s].acc) < Len(job[s].corpora) /\ task[s].pc \notin OpeningSteps \cup {"fail"}
      /\ l \in WorkingSteps => Len(task[s].acc) + 1 < Len(job[s].corpora)
      /\ l = "save" => Len(task[s].acc) + 1 = Len(job[s].corpora)
      /\ l \notin OpeningSteps
  BY <1>1, <1>4 DEF Fits, WorkingSteps, OpeningSteps, StoringSteps, After
<1>6. \A k \in 1..Len(task'[s].acc) : task'[s].acc[k].corpus = job[s].corpora[k]
  <2> SUFFICES ASSUME NEW k \in 1..Len(task'[s].acc)
               PROVE  task'[s].acc[k].corpus = job[s].corpora[k]
    OBVIOUS
  <2>1. CASE k = Len(task[s].acc) + 1
    BY <1>3, <2>1 DEF Current
  <2>2. CASE k \in 1..Len(task[s].acc)
    BY <1>3, <1>4, <2>2 DEF Fits
  <2>3. Len(task[s].acc) \in Nat
    BY <1>1
  <2> HIDE DEF Task, Job, Result
  <2> QED BY <1>3, <2>1, <2>2, <2>3
<1> QED
  BY SMTT(30), <1>1, <1>2, <1>3, <1>4, <1>5, <1>6 DEF Fits

(* Going to step l without a new result fits the job when l expects no     *)
(* more than task s has.                                                   *)
LEMMA GotoFits ==
  ASSUME ScanParameters, LifeInv, NEW s \in DOMAIN task, Moves(s),
         task'[s].acc = task[s].acc,
         \/ task[s].pc \in OpeningSteps /\ task'[s].pc \in OpeningSteps
         \/ /\ task[s].pc \in WorkingSteps \cup StoringSteps
            /\ \/ task'[s].pc = "fail"
               \/ task[s].pc \in WorkingSteps /\ task'[s].pc \in WorkingSteps
               \/ task[s].pc = "look" /\ task'[s].pc = "write"
               \/ task[s].pc = "write" /\ task'[s].pc = After(s, Len(task[s].acc))
  PROVE  Fits(task'[s], job[s])
<1>1. task[s] \in Task /\ job[s] \in Job /\ Fits(task[s], job[s])
  BY DEF LifeInv, TypeOK, TasksFitJobs
<1> QED
  BY SMTT(30), <1>1 DEF Fits, OpeningSteps, WorkingSteps, StoringSteps, After

(* Steps of a coroutine that leave the database's job and rows alone, but  *)
(* for the cache entry of Write.                                           *)
LEMMA QuietStepsLife ==
  ASSUME ScanParameters, LifeInv, NEW s \in Scans,
         \/ Lookup(s) \/ CacheHit(s) \/ CacheMiss(s) \/ Acquire(s)
         \/ (\E h \in HitCounts : Answer(s, h)) \/ AnswerLost(s) \/ Refuse(s)
         \/ Raise(s) \/ TimeOut(s) \/ Look(s) \/ Collide(s)
  PROVE  LifeInv'
<1> USE DEF LifeInv, At
<1>1. TypeOK
  OBVIOUS
<1>a. CASE Lookup(s)
  <2>1. s \in DOMAIN task /\ task[s].pc = "lookup"
        /\ \E l \in {"start", "missing"} : Goto(s, l)
    BY <1>a DEF Lookup
  <2>2. Moves(s) /\ task'[s].inst = task[s].inst /\ task'[s].acc = task[s].acc
        /\ task'[s].pc \in OpeningSteps
    BY <1>1, <2>1, GotoMoves DEF OpeningSteps
  <2>3. Fits(task'[s], job[s])
    BY <2>1, <2>2, GotoFits DEF OpeningSteps
  <2> QED BY <1>a, <2>1, <2>2, <2>3, MoveKeepsLife DEF Lookup, TypeOK
<1>b. CASE CacheHit(s)
  <2> DEFINE r == cache[CacheKey(s, Current(s))].result
  <2>1. s \in DOMAIN task /\ task[s].pc = "read" /\ Take(s, r, After(s, Len(task[s].acc) + 1))
        /\ CacheKey(s, Current(s)) \in DOMAIN cache
    BY <1>b DEF CacheHit, Fresh
  <2>2. r \in Result /\ r.corpus = Current(s)
    BY <2>1 DEF TypeOK, CacheMatchesKeys, CacheKey
  <2>3. Moves(s) /\ task'[s].inst = task[s].inst /\ Fits(task'[s], job[s])
    BY <2>1, <2>2, TakeFits DEF WorkingSteps
  <2> QED BY <1>b, <2>1, <2>3, MoveKeepsLife DEF CacheHit, TypeOK
<1>c. CASE CacheMiss(s)
  <2>1. s \in DOMAIN task /\ task[s].pc = "read" /\ Attempt(s, 1)
    BY <1>c DEF CacheMiss
  <2>2. Moves(s) /\ task'[s].inst = task[s].inst /\ task'[s].acc = task[s].acc
        /\ task'[s].pc \in {"wait", "query"}
    BY <1>1, <2>1, AttemptMoves
  <2>3. Fits(task'[s], job[s])
    BY <2>1, <2>2, GotoFits DEF WorkingSteps
  <2> QED BY <1>c, <2>1, <2>2, <2>3, MoveKeepsLife DEF CacheMiss, TypeOK
<1>d. CASE Acquire(s)
  <2>1. s \in DOMAIN task /\ task[s].pc = "wait" /\ task' = [task EXCEPT ![s].pc = "query"]
    BY <1>d DEF Acquire
  <2>2. Moves(s) /\ task'[s].inst = task[s].inst /\ task'[s].acc = task[s].acc
        /\ task'[s].pc = "query"
    <3>1. task[s] \in Task /\ task \in [DOMAIN task -> Task]
      BY <2>1 DEF TypeOK
    <3>2. [task[s] EXCEPT !.pc = "query"] \in Task
      BY <3>1 DEF Task, Steps
    <3>3. /\ [task[s] EXCEPT !.pc = "query"].inst = task[s].inst
          /\ [task[s] EXCEPT !.pc = "query"].acc = task[s].acc
          /\ [task[s] EXCEPT !.pc = "query"].pc = "query"
      BY <3>1 DEF Task
    <3> HIDE DEF Task
    <3>4. task'[s] = [task[s] EXCEPT !.pc = "query"]
      BY <2>1, <3>1
    <3>5. Moves(s)
      BY <2>1, <3>1, <3>2 DEF Moves
    <3> QED BY <3>3, <3>4, <3>5
  <2>3. Fits(task'[s], job[s])
    BY <2>1, <2>2, GotoFits DEF WorkingSteps
  <2> QED BY <1>d, <2>1, <2>2, <2>3, MoveKeepsLife DEF Acquire, TypeOK
<1>e. ASSUME s \in DOMAIN task, task[s].pc \in WorkingSteps, NEW h \in Nat,
             NEW st \in {"ok", "skipped", "timeout", "error"}, NEW ans \in BOOLEAN,
             NEW l \in StoringSteps \cup {After(s, Len(task[s].acc) + 1)},
             Take(s, Outcome(s, h, st, ans), l),
             UNCHANGED <<certs, job, rows, cache, up, reaper, now, faults, crashes, lastReap>>
      PROVE  LifeInv'
  <2>1. Current(s) \in Corpora
    <3>1. Fits(task[s], job[s])
      BY <1>e DEF TasksFitJobs
    <3>2. Len(task[s].acc) \in Nat /\ Len(job[s].corpora) \in Nat
      <4>1. task[s] \in Task /\ job[s] \in Job
        BY <1>e DEF TypeOK
      <4> QED BY <4>1
    <3>3. /\ Len(task[s].acc) < Len(job[s].corpora)
          /\ \A k \in 1..Len(job[s].corpora) : job[s].corpora[k] \in Corpora
      BY ONLY <1>e, <3>1 DEF Fits, WorkingSteps, OpeningSteps
    <3> QED BY ONLY <3>2, <3>3 DEF Current
  <2>2. Outcome(s, h, st, ans) \in Result /\ Outcome(s, h, st, ans).corpus = Current(s)
    <3>1. task[s].due - CorpusTimeout \in Int
      <4>1. task[s] \in Task /\ CorpusTimeout \in Nat
        BY <1>e, ParametersAreNat DEF TypeOK
      <4> QED BY <4>1
    <3>2. h \in Nat /\ st \in {"ok", "skipped", "timeout", "error"} /\ ans \in BOOLEAN
      BY <1>e
    <3> QED BY ONLY <2>1, <3>1, <3>2 DEF Outcome, Result
  <2>3. Moves(s) /\ task'[s].inst = task[s].inst /\ Fits(task'[s], job[s])
    BY <1>e, <2>2, TakeFits
  <2> QED BY <1>e, <2>3, MoveKeepsLife DEF TypeOK
<1>f. CASE \E h \in HitCounts : Answer(s, h)
  BY <1>f, <1>e DEF ScanParameters, Answer, WorkingSteps, StoringSteps
<1>g. CASE AnswerLost(s)
  BY <1>g, <1>e DEF AnswerLost, WorkingSteps, StoringSteps
<1>h. CASE Refuse(s)
  BY <1>h, <1>e DEF Refuse, WorkingSteps, StoringSteps
<1>i. ASSUME s \in DOMAIN task, task[s].pc \in {"wait", "query"}, NEW st \in {"timeout", "error"},
             Retry(s, st), UNCHANGED <<certs, job, rows, cache, up, reaper, now, faults, crashes, lastReap>>
      PROVE  LifeInv'
  <2>1. CASE task[s].attempt < MaxRetries
    <3>1. task[s].attempt + 1 \in 1..MaxRetries /\ Attempt(s, task[s].attempt + 1)
      <4>1. task[s] \in Task
        BY <1>i DEF TypeOK
      <4> QED BY <1>i, <2>1, <4>1 DEF Retry
    <3>2. Moves(s) /\ task'[s].inst = task[s].inst /\ task'[s].acc = task[s].acc
          /\ task'[s].pc \in {"wait", "query"}
      BY <1>1, <1>i, <3>1, AttemptMoves
    <3>3. Fits(task'[s], job[s])
      BY <1>i, <3>2, GotoFits DEF WorkingSteps
    <3> QED BY <1>i, <3>2, <3>3, MoveKeepsLife DEF TypeOK
  <2>2. CASE ~(task[s].attempt < MaxRetries)
    BY <1>i, <1>e, <2>2 DEF Retry, WorkingSteps
  <2> QED BY <2>1, <2>2
<1>j. CASE Raise(s)
  BY <1>j, <1>i DEF Raise
<1>k. CASE TimeOut(s)
  BY <1>k, <1>i DEF TimeOut
<1>l. CASE Look(s)
  <2>1. s \in DOMAIN task /\ task[s].pc = "look"
    BY <1>l DEF Look
  <2>2. now + DbLatency \in Nat
    BY ParametersAreNat DEF TypeOK
  <2>3. Moves(s) /\ task'[s].inst = task[s].inst /\ task'[s].acc = task[s].acc
        /\ task'[s].pc = "write"
    <3>1. task[s] \in Task
      BY <2>1 DEF TypeOK
    <3> DEFINE b == CacheKey(s, Newest(s).corpus) \in DOMAIN cache
    <3>2. task' = [task EXCEPT ![s].pc = "write", ![s].due = now + DbLatency, ![s].seen = b]
          /\ b \in BOOLEAN
      BY <1>l DEF Look
    <3> HIDE DEF b
    <3> QED BY <2>1, <2>2, <3>1, <3>2 DEF TypeOK, Moves
  <2>4. Fits(task'[s], job[s])
    BY <2>1, <2>3, GotoFits DEF StoringSteps
  <2> QED BY <1>l, <2>1, <2>3, <2>4, MoveKeepsLife DEF Look, TypeOK
<1>m. CASE Collide(s)
  <2>1. s \in DOMAIN task /\ task[s].pc = "write" /\ Goto(s, "fail")
    BY <1>m DEF Collide
  <2>2. Moves(s) /\ task'[s].inst = task[s].inst /\ task'[s].acc = task[s].acc
        /\ task'[s].pc = "fail"
    BY <1>1, <2>1, GotoMoves
  <2>3. Fits(task'[s], job[s])
    BY <2>1, <2>2, GotoFits DEF StoringSteps
  <2> QED BY <1>m, <2>1, <2>2, <2>3, MoveKeepsLife DEF Collide, TypeOK
<1> QED BY <1>a, <1>b, <1>c, <1>d, <1>f, <1>g, <1>h, <1>j, <1>k, <1>l, <1>m

LEMMA WriteLife ==
  ASSUME ScanParameters, LifeInv, NEW s \in Scans, Write(s)
  PROVE  LifeInv'
<1> DEFINE k == CacheKey(s, Newest(s).corpus)
           e == [result |-> Newest(s), at |-> now]
<1>1. s \in DOMAIN task /\ task[s].pc = "write" /\ cache' = Put(cache, k, e)
      /\ Goto(s, After(s, Len(task[s].acc)))
  BY DEF Write, At
<1>2. task[s] \in Task /\ job[s] \in Job /\ Fits(task[s], job[s]) /\ now \in Nat
  BY <1>1 DEF LifeInv, TypeOK, TasksFitJobs
<1>3. task[s].acc # <<>>
  BY <1>1, <1>2 DEF Fits, StoringSteps
<1>4. Newest(s) \in Result
  <2>1. task[s].acc \in Seq(Result) /\ Len(task[s].acc) \in 1..Len(task[s].acc)
    BY <1>2, <1>3
  <2>2. Newest(s) = task[s].acc[Len(task[s].acc)]
    BY DEF Newest, Last
  <2> HIDE DEF Result
  <2> QED BY <2>1, <2>2
<1>5. k \in Certs \X Corpora /\ e \in [result: Result, at: Nat] /\ e.result.corpus = k[2]
  BY <1>2, <1>4 DEF CacheKey
<1> HIDE DEF k, e
<1>6. cache \in [DOMAIN cache -> [result: Result, at: Nat]]
      /\ DOMAIN cache \subseteq Certs \X Corpora /\ CacheMatchesKeys
  BY DEF LifeInv, TypeOK
<1>7. /\ cache' \in [DOMAIN cache \cup {k} -> [result: Result, at: Nat]]
      /\ DOMAIN cache' = DOMAIN cache \cup {k}
      /\ cache'[k] = e
      /\ \A x \in DOMAIN cache : x # k => cache'[x] = cache[x]
  <2> DEFINE V == [result: Result, at: Nat]
  <2>1. cache \in [DOMAIN cache -> V] /\ e \in V
    BY <1>5, <1>6
  <2> HIDE DEF V
  <2>2. /\ Put(cache, k, e) \in [DOMAIN cache \cup {k} -> V]
        /\ DOMAIN Put(cache, k, e) = DOMAIN cache \cup {k}
        /\ Put(cache, k, e)[k] = e
        /\ \A x \in DOMAIN cache : x # k => Put(cache, k, e)[x] = cache[x]
    BY <2>1 DEF Put
  <2> QED BY <1>1, <2>2 DEF V
<1>8. CacheOK'
  <2>1. CacheMatchesKeys'
    <3> SUFFICES ASSUME NEW x \in DOMAIN cache'
                 PROVE  cache'[x].result.corpus = x[2]
      BY DEF CacheMatchesKeys
    <3> QED BY <1>5, <1>6, <1>7 DEF CacheMatchesKeys
  <2> QED BY <1>5, <1>6, <1>7, <2>1 DEF CacheOK
<1>9. Moves(s) /\ task'[s].inst = task[s].inst /\ task'[s].acc = task[s].acc
      /\ task'[s].pc = After(s, Len(task[s].acc))
  BY <1>1, GotoMoves DEF After, LifeInv
<1>10. Fits(task'[s], job[s])
  BY <1>1, <1>9, GotoFits DEF StoringSteps
<1> QED
  BY <1>1, <1>8, <1>9, <1>10, MoveKeepsLife DEF Write, LifeInv, TypeOK

(* Steps of a coroutine that change its job.                               *)
LEMMA EndFunction ==
  ASSUME TypeOK, NEW s \in DOMAIN task, End(s)
  PROVE  /\ task' \in [DOMAIN task \ {s} -> Task]
         /\ DOMAIN task' = DOMAIN task \ {s}
         /\ \A x \in DOMAIN task \ {s} : task'[x] = task[x]
<1>1. task \in [DOMAIN task -> Task] /\ DOMAIN task \ {s} \subseteq DOMAIN task
  BY DEF TypeOK
<1> HIDE DEF Task
<1> QED BY <1>1, RestrictFunction DEF End

LEMMA SubmitLife ==
  ASSUME ScanParameters, LifeInv, NEW i \in Instances, NEW s \in Scans, NEW c \in Certs,
         NEW r \in Requests, Submit(i, s, c, r)
  PROVE  LifeInv'
<1> DEFINE j == [status |-> "pending", cert |-> c, created |-> now, hits |-> 0,
                 corpora |-> IF r = <<>> THEN DefaultCorpora ELSE r]
           t == [pc |-> "lookup", inst |-> i, attempt |-> 1, acc |-> <<>>,
                 total |-> 0, seen |-> FALSE, due |-> now + DbLatency]
<1>1. /\ s \notin DOMAIN job /\ up[i]
      /\ job' = Put(job, s, j) /\ task' = Put(task, s, t)
      /\ UNCHANGED <<certs, rows, cache, up, reaper, now, faults, crashes, lastReap>>
  BY DEF Submit
<1>2. now \in Nat /\ DbLatency \in Nat
  BY ParametersAreNat DEF LifeInv, TypeOK
<1>3. j \in Job /\ j.corpora # <<>> /\ j.status = "pending"
  BY <1>2 DEF ScanParameters
<1>4. t \in Task /\ t.inst = i /\ Fits(t, j)
  BY <1>2, <1>3 DEF Fits, OpeningSteps, WorkingSteps, StoringSteps
<1> HIDE DEF j, t
<1>5. /\ job' \in [DOMAIN job \cup {s} -> Job]
      /\ DOMAIN job' = DOMAIN job \cup {s}
      /\ job'[s] = j /\ \A x \in DOMAIN job : x # s => job'[x] = job[x]
  <2> HIDE DEF Job
  <2> QED BY <1>1, <1>3 DEF Put, LifeInv, TypeOK
<1>6. /\ task' \in [DOMAIN task \cup {s} -> Task]
      /\ DOMAIN task' = DOMAIN task \cup {s}
      /\ task'[s] = t /\ \A x \in DOMAIN task : x # s => task'[x] = task[x]
  <2> HIDE DEF Task
  <2> QED BY <1>1, <1>4 DEF Put, LifeInv, TypeOK
<1>7. TypeOK'
  <2> HIDE DEF Job, Task, Result
  <2> QED BY <1>1, <1>5, <1>6 DEF LifeInv, TypeOK
<1>8. TasksFitJobs'
  <2>1. ASSUME NEW x \in DOMAIN task PROVE x \in DOMAIN job /\ x # s
    BY <1>1 DEF LifeInv, TypeOK
  <2>2. up'[task'[s].inst] /\ Fits(task'[s], job'[s]) /\ job'[s].corpora # <<>>
    BY <1>1, <1>3, <1>4, <1>5, <1>6
  <2>3. ASSUME NEW x \in DOMAIN task
        PROVE  up'[task'[x].inst] /\ Fits(task'[x], job'[x])
    BY <1>1, <1>5, <1>6, <2>1 DEF LifeInv, TasksFitJobs
  <2>4. ASSUME NEW x \in DOMAIN job PROVE job'[x].corpora # <<>>
    BY <1>1, <1>5 DEF LifeInv, TasksFitJobs
  <2> HIDE DEF Job, Task, Result
  <2> QED BY <1>5, <1>6, <2>2, <2>3, <2>4 DEF TasksFitJobs
<1>9. RowsFitJobs'
  <2> HIDE DEF Job, Task, Result
  <2> QED BY <1>1, <1>3, <1>5, <1>6 DEF LifeInv, RowsFitJobs, RowsAreWhole
<1> QED BY <1>1, <1>7, <1>8, <1>9 DEF LifeInv, CacheMatchesKeys

LEMMA StartLife ==
  ASSUME ScanParameters, LifeInv, NEW s \in Scans, Start(s)
  PROVE  LifeInv'
<1> DEFINE l == IF Range(job[s].corpora) \subseteq Corpora THEN "read" ELSE "fail"
<1>1. /\ s \in DOMAIN task /\ task[s].pc = "start"
      /\ job' = [job EXCEPT ![s].status = "running"] /\ Goto(s, l)
      /\ UNCHANGED <<certs, rows, cache, up, reaper, now, faults, crashes, lastReap>>
  BY DEF Start, At, SetStatus
<1>2. l \in Steps /\ TypeOK /\ s \in DOMAIN job
  BY <1>1 DEF LifeInv, TypeOK
<1>3. Moves(s) /\ task'[s].inst = task[s].inst /\ task'[s].acc = task[s].acc
      /\ task'[s].pc = l
  BY <1>1, <1>2, GotoMoves
<1>4. /\ job[s] \in Job /\ Fits(task[s], job[s]) /\ job[s].corpora # <<>> /\ up[task[s].inst]
      /\ task[s] \in Task
  BY <1>1, <1>2 DEF LifeInv, TypeOK, TasksFitJobs
<1>5. /\ job' \in [DOMAIN job -> Job]
      /\ job'[s].status = "running" /\ job'[s].corpora = job[s].corpora
      /\ \A x \in DOMAIN job : x # s => job'[x] = job[x]
  BY <1>1, <1>2, <1>4 DEF TypeOK
<1>6. Fits(task'[s], job'[s])
  <2>1. l = "read" => \A k \in 1..Len(job[s].corpora) : job[s].corpora[k] \in Corpora
    BY <1>4 DEF Range
  <2>2. task[s].acc = <<>> /\ Len(job[s].corpora) > 0
    BY <1>1, <1>4 DEF Fits, OpeningSteps
  <2> QED BY <1>2, <1>3, <1>4, <1>5, <2>1, <2>2 DEF Fits, OpeningSteps, WorkingSteps, StoringSteps
<1>7. TypeOK'
  <2> HIDE DEF Job, Task, Result
  <2> QED BY <1>1, <1>2, <1>3, <1>5 DEF TypeOK, Moves
<1>8. TasksFitJobs'
  <2>1. DOMAIN task' = DOMAIN task /\ DOMAIN job' = DOMAIN job /\ DOMAIN task \subseteq DOMAIN job
    BY <1>2, <1>3, <1>5 DEF Moves, TypeOK
  <2>2. job'[s].corpora # <<>> /\ up[task'[s].inst] /\ Fits(task'[s], job'[s])
    BY <1>3, <1>4, <1>5, <1>6
  <2>3. ASSUME NEW x \in DOMAIN task, x # s
        PROVE  up[task'[x].inst] /\ Fits(task'[x], job'[x])
    BY <1>3, <1>5, <2>1, <2>3 DEF LifeInv, TasksFitJobs, Moves
  <2>4. ASSUME NEW x \in DOMAIN job PROVE job'[x].corpora # <<>>
    BY <1>4, <1>5 DEF LifeInv, TasksFitJobs
  <2> HIDE DEF Job, Task, Result
  <2> QED BY <1>1, <2>1, <2>2, <2>3, <2>4 DEF TasksFitJobs
<1>9. RowsFitJobs'
  <2>1. rows[s] = <<>>
    BY <1>1 DEF LifeInv, RowsFitJobs
  <2> HIDE DEF Job, Task, Result
  <2> QED BY <1>1, <1>3, <1>5, <2>1 DEF LifeInv, RowsFitJobs, RowsAreWhole, Moves
<1> QED BY <1>1, <1>7, <1>8, <1>9 DEF LifeInv, CacheMatchesKeys

(* Coroutines that end, or die, take no other state with them.             *)
ReaperOK ==
  /\ reaper \in [DOMAIN reaper -> [picked: SUBSET DOMAIN job, at: Nat, due: Nat]]
  /\ DOMAIN reaper \subseteq {i \in Instances : ~up[i]}

LEMMA EndKeepsLife ==
  ASSUME LifeInv, NEW D, D \subseteq DOMAIN task,
         task' = Restrict(task, D), ReaperOK',
         \A x \in D : up'[task[x].inst], up' \in [Instances -> BOOLEAN],
         UNCHANGED <<certs, job, rows, cache>>,
         now' \in Nat, faults' \in Nat, crashes' \in Nat, lastReap' \in Nat
  PROVE  LifeInv'
<1> HIDE DEF Job, Task, Result
<1>1. task' \in [D -> Task] /\ DOMAIN task' = D /\ \A x \in D : task'[x] = task[x]
  BY DEF Restrict, LifeInv, TypeOK
<1>2. TypeOK'
  BY <1>1 DEF LifeInv, TypeOK, ReaperOK
<1>3. TasksFitJobs'
  BY <1>1 DEF LifeInv, TasksFitJobs, Fits
<1>4. RowsFitJobs'
  BY <1>1 DEF LifeInv, RowsFitJobs, RowsAreWhole
<1> QED BY <1>2, <1>3, <1>4 DEF LifeInv, CacheMatchesKeys

(* A coroutine that ends its job: MarkError and Save.                      *)
LEMMA FinishKeepsLife ==
  ASSUME LifeInv, NEW s \in DOMAIN task, End(s), NEW j \in Job, j.corpora = job[s].corpora,
         j.created = job[s].created,
         job' = [job EXCEPT ![s] = j],
         UNCHANGED <<certs, cache, up, reaper, now, faults, crashes, lastReap>>,
         rows' \in [Scans -> Seq(Result)], \A x \in Scans : x # s => rows'[x] = rows[x],
         j.status \in Terminal, j.status = "complete" => rows'[s] # <<>>,
         rows'[s] # <<>> => /\ Len(rows'[s]) = Len(j.corpora)
                            /\ \A k \in DOMAIN rows'[s] : rows'[s][k].corpus = j.corpora[k]
  PROVE  LifeInv'
<1>1. TypeOK /\ s \in DOMAIN job /\ s \in Scans
  BY DEF LifeInv, TypeOK
<1>2. /\ task' \in [DOMAIN task \ {s} -> Task]
      /\ DOMAIN task' = DOMAIN task \ {s}
      /\ \A x \in DOMAIN task \ {s} : task'[x] = task[x]
  BY <1>1, EndFunction
<1> HIDE DEF Job, Task, Result
<1>3. /\ job' \in [DOMAIN job -> Job] /\ DOMAIN job' = DOMAIN job /\ job'[s] = j
      /\ \A x \in DOMAIN job : x # s => job'[x] = job[x]
  BY <1>1 DEF TypeOK
<1>4. TypeOK'
  BY <1>1, <1>2, <1>3 DEF TypeOK
<1>5. TasksFitJobs'
  <2>1. ASSUME NEW x \in DOMAIN task', TRUE PROVE up'[task'[x].inst] /\ Fits(task'[x], job'[x])
    BY <1>1, <1>2, <1>3, <2>1 DEF LifeInv, TypeOK, TasksFitJobs
  <2>2. ASSUME NEW x \in DOMAIN job PROVE job'[x].corpora # <<>>
    BY <1>1, <1>3 DEF LifeInv, TasksFitJobs
  <2> QED BY <1>3, <2>1, <2>2 DEF TasksFitJobs
<1>6. RowsFitJobs'
  <2>1. ASSUME NEW x \in Scans, rows'[x] # <<>>
        PROVE  /\ x \in DOMAIN job' \ DOMAIN task' /\ job'[x].status \in Terminal
               /\ Len(rows'[x]) = Len(job'[x].corpora)
               /\ \A k \in DOMAIN rows'[x] : rows'[x][k].corpus = job'[x].corpora[k]
    <3>1. CASE x = s
      BY <1>1, <1>2, <1>3, <2>1, <3>1
    <3>2. CASE x # s
      BY <1>2, <1>3, <2>1, <3>2 DEF LifeInv, RowsFitJobs, RowsAreWhole
    <3> QED BY <3>1, <3>2
  <2>2. ASSUME NEW x \in DOMAIN job', job'[x].status = "complete"
        PROVE  rows'[x] # <<>>
    BY <1>1, <1>3, <2>2 DEF TypeOK, LifeInv, RowsFitJobs
  <2> QED BY <2>1, <2>2 DEF RowsFitJobs, RowsAreWhole
<1> QED BY <1>4, <1>5, <1>6 DEF LifeInv, CacheMatchesKeys

LEMMA MarkErrorLife ==
  ASSUME ScanParameters, LifeInv, NEW s \in Scans, MarkError(s)
  PROVE  LifeInv'
<1> DEFINE j == [job[s] EXCEPT !.status = "error"]
<1>1. /\ s \in DOMAIN task /\ End(s) /\ job' = [job EXCEPT ![s].status = "error"]
      /\ UNCHANGED <<certs, rows, cache, up, reaper, now, faults, crashes, lastReap>>
  BY DEF MarkError, At, SetStatus
<1>2. s \in DOMAIN job /\ job[s] \in Job /\ rows \in [Scans -> Seq(Result)]
      /\ Fits(task[s], job[s])
  BY <1>1 DEF LifeInv, TypeOK, TasksFitJobs
<1>3. rows[s] = <<>>
  BY <1>1, <1>2 DEF LifeInv, TypeOK, RowsFitJobs
<1>4. /\ j \in Job /\ j.corpora = job[s].corpora /\ j.created = job[s].created
      /\ j.status = "error"
  BY <1>2
<1>5. job' = [job EXCEPT ![s] = j]
  BY <1>1
<1> HIDE DEF j
<1> QED BY <1>1, <1>2, <1>3, <1>4, <1>5, FinishKeepsLife

LEMMA SaveLife ==
  ASSUME ScanParameters, LifeInv, NEW s \in Scans, Save(s)
  PROVE  LifeInv'
<1> DEFINE j == [job[s] EXCEPT !.status = "complete", !.hits = task[s].total]
<1>1. /\ s \in DOMAIN task /\ task[s].pc = "save" /\ End(s)
      /\ job' = [job EXCEPT ![s].status = "complete", ![s].hits = task[s].total]
      /\ rows' = [rows EXCEPT ![s] = task[s].acc]
      /\ UNCHANGED <<certs, cache, up, reaper, now, faults, crashes, lastReap>>
  BY DEF Save, At
<1>2. s \in DOMAIN job /\ job[s] \in Job /\ rows \in [Scans -> Seq(Result)]
      /\ Fits(task[s], job[s]) /\ task[s] \in Task /\ job[s].corpora # <<>>
  BY <1>1 DEF LifeInv, TypeOK, TasksFitJobs
<1>3. /\ task[s].acc # <<>> /\ Len(task[s].acc) = Len(job[s].corpora)
      /\ \A k \in DOMAIN task[s].acc : task[s].acc[k].corpus = job[s].corpora[k]
  <2>1. Len(task[s].acc) = Len(job[s].corpora) /\ Len(job[s].corpora) > 0
        /\ \A k \in 1..Len(task[s].acc) : task[s].acc[k].corpus = job[s].corpora[k]
    BY <1>1, <1>2 DEF Fits
  <2>2. DOMAIN task[s].acc = 1..Len(task[s].acc)
    BY <1>2
  <2> QED BY SMTT(30), <1>2, <2>1, <2>2
<1>4. /\ j \in Job /\ j.corpora = job[s].corpora /\ j.created = job[s].created
      /\ j.status = "complete"
  BY <1>2
<1>5. job' = [job EXCEPT ![s] = j]
  BY <1>1, <1>2
<1>6. rows'[s] = task[s].acc /\ rows' \in [Scans -> Seq(Result)]
      /\ \A x \in Scans : x # s => rows'[x] = rows[x]
  BY <1>1, <1>2
<1> HIDE DEF j, Job, Task, Result
<1>7. rows'[s] # <<>> /\ j.status \in Terminal
  BY <1>3, <1>4, <1>6
<1>8. Len(rows'[s]) = Len(j.corpora)
      /\ \A k \in DOMAIN rows'[s] : rows'[s][k].corpus = j.corpora[k]
  BY <1>3, <1>4, <1>6
<1> QED BY <1>1, <1>4, <1>5, <1>6, <1>7, <1>8, FinishKeepsLife

LEMMA SessionFailsLife ==
  ASSUME ScanParameters, LifeInv, NEW s \in Scans, SessionFails(s)
  PROVE  LifeInv'
<1>1. s \in DOMAIN task /\ task[s] \in Task /\ TypeOK /\ faults' \in Nat
      /\ UNCHANGED <<certs, job, rows, cache, up, reaper, now, crashes, lastReap>>
  <2>1. TypeOK /\ s \in DOMAIN task /\ task[s] \in Task
    BY DEF SessionFails, LifeInv, TypeOK
  <2>2. faults \in Nat /\ faults' = faults + 1
    BY <2>1 DEF TypeOK, SessionFails
  <2> QED BY <2>1, <2>2 DEF SessionFails
<1>2. CASE task[s].pc \in Guarded
  <2>1. Goto(s, "fail")
    BY <1>2 DEF SessionFails
  <2>2. Moves(s) /\ task'[s].inst = task[s].inst /\ task'[s].acc = task[s].acc
        /\ task'[s].pc = "fail"
    BY <1>1, <2>1, GotoMoves
  <2>3. Fits(task'[s], job[s])
    BY <1>1, <1>2, <2>2, GotoFits DEF Guarded, WorkingSteps, StoringSteps
  <2> QED BY <1>1, <2>2, <2>3, MoveKeepsLife DEF TypeOK
<1>3. CASE task[s].pc \notin Guarded
  <2>1. task' = Restrict(task, DOMAIN task \ {s})
    BY <1>3 DEF SessionFails, End
  <2>2. \A x \in DOMAIN task \ {s} : up'[task[x].inst]
    BY <1>1 DEF LifeInv, TasksFitJobs
  <2>3. ReaperOK'
    BY <1>1 DEF TypeOK, ReaperOK
  <2> QED BY <1>1, <2>1, <2>2, <2>3, EndKeepsLife DEF TypeOK
<1> QED BY <1>2, <1>3

LEMMA ReaperEnds ==
  ASSUME TypeOK, NEW i \in Instances, reaper' = Restrict(reaper, DOMAIN reaper \ {i}),
         up' = [up EXCEPT ![i] = up'[i]], DOMAIN job' = DOMAIN job
  PROVE  /\ ReaperOK'
         /\ DOMAIN reaper' = DOMAIN reaper \ {i}
         /\ \A x \in DOMAIN reaper \ {i} : reaper'[x] = reaper[x]
<1>1. /\ reaper \in [DOMAIN reaper -> [picked: SUBSET DOMAIN job, at: Nat, due: Nat]]
      /\ DOMAIN reaper \ {i} \subseteq DOMAIN reaper
      /\ DOMAIN reaper \subseteq {x \in Instances : ~up[x]} /\ up \in [Instances -> BOOLEAN]
  BY DEF TypeOK
<1>2. /\ reaper' \in [DOMAIN reaper \ {i} -> [picked: SUBSET DOMAIN job, at: Nat, due: Nat]]
      /\ DOMAIN reaper' = DOMAIN reaper \ {i}
      /\ \A x \in DOMAIN reaper \ {i} : reaper'[x] = reaper[x]
  BY <1>1 DEF Restrict
<1> QED BY <1>1, <1>2 DEF ReaperOK

LEMMA CrashLife ==
  ASSUME LifeInv, NEW i \in Instances, Crash(i)
  PROVE  LifeInv'
<1> DEFINE D == {x \in DOMAIN task : task[x].inst # i}
<1>1. /\ task' = Restrict(task, D) /\ up' = [up EXCEPT ![i] = FALSE]
      /\ reaper' = Restrict(reaper, DOMAIN reaper \ {i})
      /\ UNCHANGED <<certs, job, rows, cache, now, faults, lastReap>> /\ crashes' \in Nat
  BY DEF Crash, LifeInv, TypeOK
<1>2. up' \in [Instances -> BOOLEAN] /\ \A x \in D : up'[task[x].inst]
  BY <1>1 DEF LifeInv, TypeOK, TasksFitJobs
<1>3. up' = [up EXCEPT ![i] = up'[i]]
  BY <1>1 DEF LifeInv, TypeOK
<1> HIDE DEF D
<1>4. ReaperOK'
  BY <1>1, <1>3, ReaperEnds DEF LifeInv
<1> QED BY <1>1, <1>2, <1>4, EndKeepsLife DEF LifeInv, TypeOK, D

(* With one process, a process that starts up finds no coroutine alive.    *)
LEMMA BootFindsNone ==
  ASSUME OneProcess, LifeInv, NEW i \in Instances, ~up[i]
  PROVE  DOMAIN task = {}
<1> SUFFICES ASSUME NEW s \in DOMAIN task PROVE FALSE
  OBVIOUS
<1>1. task[s].inst \in Instances /\ up[task[s].inst]
  BY DEF LifeInv, TypeOK, TasksFitJobs
<1> QED BY <1>1 DEF OneProcess

(* What a reaper does to the jobs it has selected.                         *)
LEMMA ReapedJobs ==
  ASSUME TypeOK, NEW picked, Reap(picked)
  PROVE  /\ job' \in [DOMAIN job -> Job] /\ DOMAIN job' = DOMAIN job
         /\ \A s \in DOMAIN job :
              /\ job'[s].corpora = job[s].corpora /\ job'[s].created = job[s].created
              /\ job'[s].hits = job[s].hits
              /\ s \notin picked => job'[s] = job[s]
              /\ s \in picked => job'[s].status = "error"
              /\ job[s].status = "error" => job'[s] = job[s]
<1>1. \A s \in DOMAIN job : job[s] \in Job
  BY DEF TypeOK
<1> QED BY <1>1 DEF Reap

LEMMA BootLife ==
  ASSUME ScanParameters, LifeInv, NEW i \in Instances, Boot(i)
  PROVE  LifeInv'
<1>1. TypeOK /\ Reap(reaper[i].picked) /\ reaper[i].at \in Nat
  BY DEF Boot, LifeInv, TypeOK
<1>2. /\ job' \in [DOMAIN job -> Job] /\ DOMAIN job' = DOMAIN job
      /\ \A s \in DOMAIN job :
           /\ job'[s].corpora = job[s].corpora
           /\ job'[s] = job[s] \/ job'[s].status = "error"
  BY <1>1, ReapedJobs
<1>3. /\ up' = [up EXCEPT ![i] = TRUE] /\ up' \in [Instances -> BOOLEAN] /\ lastReap' \in Nat
      /\ up' = [up EXCEPT ![i] = up'[i]]
      /\ UNCHANGED <<certs, rows, cache, task, now, faults, crashes>>
      /\ reaper' = Restrict(reaper, DOMAIN reaper \ {i})
  BY <1>1 DEF Boot, TypeOK
<1>4. TypeOK'
  <2>1. ReaperOK'
    BY <1>1, <1>2, <1>3, ReaperEnds
  <2> HIDE DEF Job, Task, Result
  <2> QED BY <1>1, <1>2, <1>3, <2>1 DEF TypeOK, ReaperOK
<1>5. TasksFitJobs'
  <2> HIDE DEF Job, Task, Result
  <2>1. ASSUME NEW s \in DOMAIN task
        PROVE  up'[task[s].inst] /\ Fits(task[s], job'[s])
    <3>1. /\ s \in DOMAIN job /\ up[task[s].inst] /\ Fits(task[s], job[s])
          /\ up \in [Instances -> BOOLEAN]
      BY DEF LifeInv, TypeOK, TasksFitJobs
    <3>2. /\ job'[s].corpora = job[s].corpora
          /\ job'[s].status = job[s].status \/ job'[s].status = "error"
      BY <1>2, <3>1
    <3>3. up'[task[s].inst]
      BY <1>3, <3>1
    <3> QED BY <3>1, <3>2, <3>3 DEF Fits
  <2>2. \A s \in DOMAIN job' : job'[s].corpora # <<>>
    BY <1>2 DEF LifeInv, TasksFitJobs
  <2> QED BY <1>3, <2>1, <2>2 DEF TasksFitJobs, Fits
<1>6. RowsFitJobs'
  <2>1. ASSUME NEW s \in DOMAIN job
        PROVE  /\ job'[s].status = "complete" => job[s].status = "complete"
               /\ job[s].status \in Terminal => job'[s].status \in Terminal
    BY <1>2
  <2> HIDE DEF Job
  <2> QED BY <1>2, <1>3, <2>1 DEF LifeInv, RowsFitJobs, RowsAreWhole
<1> QED BY <1>3, <1>4, <1>5, <1>6 DEF LifeInv, CacheMatchesKeys

LEMMA QuietWorldLife ==
  ASSUME ScanParameters, LifeInv,
         \/ \E i \in Instances : StartUp(i) \/ BootUnreaped(i)
         \/ Tick
         \/ \E c \in Certs : Purge(c)
         \/ UNCHANGED vars
  PROVE  LifeInv'
<1> DEFINE Quiet ==
      /\ UNCHANGED <<job, rows, cache, task>> /\ certs' \subseteq certs
      /\ up' \in [Instances -> BOOLEAN] /\ \A i \in Instances : up[i] => up'[i]
      /\ ReaperOK'
      /\ now' \in Nat /\ faults' \in Nat /\ crashes' \in Nat /\ lastReap' \in Nat
<1>1. Quiet
  <2>1. /\ certs \subseteq Certs /\ up \in [Instances -> BOOLEAN] /\ now \in Nat
        /\ faults \in Nat /\ crashes \in Nat /\ lastReap \in Nat
        /\ TypeOK /\ ReaperOK /\ DbLatency \in Nat
    BY ParametersAreNat DEF LifeInv, TypeOK, ReaperOK
  <2> HIDE DEF Job, Task, Result
  <2>2. ASSUME NEW i \in Instances, BootUnreaped(i) PROVE Quiet
    <3>1. /\ reaper' = Restrict(reaper, DOMAIN reaper \ {i})
          /\ up' = [up EXCEPT ![i] = up'[i]] /\ DOMAIN job' = DOMAIN job
      BY <2>1, <2>2 DEF BootUnreaped
    <3>2. ReaperOK'
      BY <2>1, <3>1, ReaperEnds
    <3> QED BY <2>1, <2>2, <3>2 DEF BootUnreaped
  <2>3. ASSUME NEW i \in Instances, StartUp(i) PROVE Quiet
    <3> DEFINE r == [picked |-> {s \in DOMAIN job : Stale(s)}, at |-> now,
                     due |-> now + DbLatency]
               V == [picked: SUBSET DOMAIN job, at: Nat, due: Nat]
    <3>1. r \in V /\ reaper' = Put(reaper, i, r) /\ ~up[i]
      BY <2>1, <2>3 DEF StartUp
    <3>2. UNCHANGED <<certs, job, rows, cache, task, up, now, faults, crashes, lastReap>>
      BY <2>3 DEF StartUp
    <3>3. reaper \in [DOMAIN reaper -> V] /\ DOMAIN reaper \subseteq {x \in Instances : ~up[x]}
      BY <2>1 DEF ReaperOK
    <3> HIDE DEF r, V
    <3>4. reaper' \in [DOMAIN reaper' -> V] /\ DOMAIN reaper' = DOMAIN reaper \cup {i}
      BY <3>1, <3>3 DEF Put
    <3>5. ReaperOK'
      BY <3>1, <3>2, <3>3, <3>4 DEF ReaperOK, V
    <3> QED BY <2>1, <3>2, <3>5
  <2>4. CASE Tick
    BY <2>1, <2>4 DEF Tick, ReaperOK
  <2>5. CASE \E c \in Certs : Purge(c)
    BY <2>1, <2>5 DEF Purge, ReaperOK
  <2>6. CASE UNCHANGED vars
    BY <2>1, <2>6 DEF vars, ReaperOK
  <2> QED BY <2>2, <2>3, <2>4, <2>5, <2>6
<1>2. TypeOK'
  <2> HIDE DEF Job, Task, Result
  <2> QED BY <1>1 DEF LifeInv, TypeOK, ReaperOK
<1>3. TasksFitJobs'
  <2>1. ASSUME NEW x \in DOMAIN task
        PROVE  task[x].inst \in Instances /\ up[task[x].inst] /\ Fits(task[x], job[x])
    BY DEF LifeInv, TypeOK, TasksFitJobs
  <2> QED BY <1>1, <2>1 DEF LifeInv, TasksFitJobs
<1> QED BY <1>1, <1>2, <1>3 DEF LifeInv, CacheMatchesKeys, RowsFitJobs, RowsAreWhole

LEMMA NextLife ==
  ASSUME ScanParameters, LifeInv, [Next]_vars
  PROVE  LifeInv'
<1>1. ASSUME NEW s \in Scans, RunScan(s) PROVE LifeInv'
  BY <1>1, QuietStepsLife, StartLife, MarkErrorLife, WriteLife, SaveLife DEF RunScan
<1> QED
  BY <1>1, SubmitLife, SessionFailsLife, CrashLife, BootLife, QuietWorldLife DEF Next

(* Where a coroutine stands tells what its job and its results are, with   *)
(* any number of processes and however long the scans last; and the rows   *)
(* of a job are none, or all of them under a job that has ended: complete, *)
(* or failed by a reaper that had selected it before it completed.         *)
THEOREM CoroutinesFitJobs == Spec => []LifeInv
<1>1. Init => LifeInv
  BY InitLife, ScanParametersAssumption
<1>2. LifeInv /\ [Next]_vars => LifeInv'
  BY NextLife, ScanParametersAssumption
<1> QED BY <1>1, <1>2, PTL DEF Spec

-----------------------------------------------------------------------------
(* The pace of a coroutine.                                                *)
LEMMA LastsGrows ==
  ASSUME ScanParameters, NEW k \in Nat
  PROVE  /\ Lasts(k) \in Nat /\ Lasts(k + 1) = Lasts(k) + 2 * CorpusTimeout + 3 * DbLatency
         /\ 3 * DbLatency <= Lasts(k)
         /\ \A n \in Nat : k <= n => Lasts(k) <= Lasts(n)
<1> DEFINE e == MaxRetries * CorpusTimeout + 3 * DbLatency
<1>1. e \in Nat /\ e = 2 * CorpusTimeout + 3 * DbLatency
      /\ CorpusTimeout \in Nat /\ DbLatency \in Nat
  BY ParametersAreNat
<1>2. \A n \in Nat : Lasts(n) = 3 * DbLatency + n * e
  BY DEF Lasts
<1> HIDE DEF e
<1>3. \A n \in Nat : n * e \in Nat
  BY <1>1
<1>4. (k + 1) * e = k * e + e
  BY <1>1
<1>5. ASSUME NEW n \in Nat, k <= n PROVE k * e <= n * e
  <2>1. n - k \in Nat /\ n = k + (n - k)
    BY <1>5
  <2>2. (k + (n - k)) * e = k * e + (n - k) * e
    BY <1>1, <2>1
  <2>3. (n - k) * e \in Nat
    BY <1>3, <2>1
  <2> QED BY <1>3, <2>1, <2>2, <2>3
<1>6. /\ Lasts(k) = 3 * DbLatency + k * e /\ k * e \in Nat
      /\ Lasts(k + 1) = 3 * DbLatency + (k * e + e)
  <2>1. k + 1 \in Nat
    OBVIOUS
  <2> QED BY <1>2, <1>3, <1>4, <2>1
<1>7. ASSUME NEW n \in Nat, k <= n PROVE Lasts(k) <= Lasts(n)
  <2>1. Lasts(n) = 3 * DbLatency + n * e /\ n * e \in Nat
    BY <1>2, <1>3
  <2>2. k * e <= n * e
    BY <1>5, <1>7
  <2> QED BY <1>1, <1>6, <2>1, <2>2
<1>8. Lasts(k) \in Nat /\ 3 * DbLatency <= Lasts(k)
  BY <1>1, <1>6
<1>9. Lasts(k + 1) = Lasts(k) + 2 * CorpusTimeout + 3 * DbLatency
  BY <1>1, <1>6
<1> QED BY <1>7, <1>8, <1>9

(* What PaceInv says of one coroutine, and the numbers it is about.        *)
LEMMA Paced ==
  ASSUME ScanParameters, LifeInv, PaceInv, NEW s \in DOMAIN task
  PROVE  /\ task[s] \in Task /\ job[s] \in Job /\ s \in DOMAIN job
         /\ Punctual(task[s], job[s]) /\ Fits(task[s], job[s])
         /\ now \in Nat /\ DbLatency \in Nat /\ CorpusTimeout \in Nat /\ MaxAge \in Nat
         /\ task[s].due \in Nat /\ job[s].created \in Nat /\ task[s].attempt \in 1..2
         /\ Len(task[s].acc) \in Nat /\ Len(job[s].corpora) \in Nat
         /\ Len(task[s].acc) <= Len(job[s].corpora)
         /\ Lasts(Len(task[s].acc)) \in Nat /\ Lasts(Len(job[s].corpora)) \in Nat
         /\ 3 * DbLatency <= Lasts(Len(task[s].acc))
         /\ Lasts(Len(task[s].acc)) <= Lasts(Len(job[s].corpora))
         /\ Lasts(Len(task[s].acc) + 1)
              = Lasts(Len(task[s].acc)) + 2 * CorpusTimeout + 3 * DbLatency
         /\ Len(task[s].acc) < Len(job[s].corpora) =>
              Lasts(Len(task[s].acc) + 1) <= Lasts(Len(job[s].corpora))
         /\ Lasts(Len(job[s].corpora)) <= MaxAge
<1>1. /\ task[s] \in Task /\ job[s] \in Job /\ s \in DOMAIN job
      /\ Punctual(task[s], job[s]) /\ Fits(task[s], job[s])
      /\ now \in Nat /\ Lasts(Len(job[s].corpora)) <= MaxAge
  BY DEF LifeInv, TypeOK, TasksFitJobs, PaceInv
<1>2. DbLatency \in Nat /\ CorpusTimeout \in Nat /\ MaxAge \in Nat
  BY ParametersAreNat
<1>3. /\ task[s].due \in Nat /\ job[s].created \in Nat /\ task[s].attempt \in 1..2
      /\ Len(task[s].acc) \in Nat /\ Len(job[s].corpora) \in Nat
  BY <1>1
<1>4. Len(task[s].acc) <= Len(job[s].corpora)
  BY <1>1 DEF Fits
<1> HIDE DEF Job, Task, Result
<1> DEFINE k == Len(task[s].acc)
           n == Len(job[s].corpora)
<1>5. /\ Lasts(k) \in Nat /\ Lasts(k + 1) = Lasts(k) + 2 * CorpusTimeout + 3 * DbLatency
      /\ 3 * DbLatency <= Lasts(k)
      /\ \A m \in Nat : k <= m => Lasts(k) <= Lasts(m)
  BY <1>3, LastsGrows
<1>6. Lasts(n) \in Nat /\ Lasts(k) <= Lasts(n)
  BY <1>3, <1>4, <1>5, LastsGrows
<1>7. k < n => Lasts(k + 1) <= Lasts(n)
  <2> HAVE k < n
  <2>1. k + 1 \in Nat /\ k + 1 <= n
    BY <1>3
  <2> HIDE DEF k, n
  <2>2. \A m \in Nat : k + 1 <= m => Lasts(k + 1) <= Lasts(m)
    BY <2>1, LastsGrows
  <2> QED BY <1>3, <2>1, <2>2 DEF n
<1> HIDE DEF k, n
<1> QED BY <1>1, <1>2, <1>3, <1>4, <1>5, <1>6, <1>7 DEF k, n

(* A coroutine is never older than its scan may last.                      *)
LEMMA PaceSpares ==
  ASSUME ScanParameters, LifeInv, PaceInv, NEW s \in DOMAIN task
  PROVE  ~Stale(s)
<1> DEFINE t == task[s]
           j == job[s]
           k == Len(t.acc)
           n == Len(j.corpora)
<1>1. /\ Punctual(t, j) /\ Fits(t, j) /\ t.pc \in Steps
      /\ now \in Nat /\ DbLatency \in Nat /\ CorpusTimeout \in Nat /\ MaxAge \in Nat
      /\ t.due \in Nat /\ j.created \in Nat /\ t.attempt \in 1..2
      /\ Lasts(k) \in Nat /\ Lasts(n) \in Nat /\ 3 * DbLatency <= Lasts(k)
      /\ Lasts(k) <= Lasts(n) /\ Lasts(k + 1) = Lasts(k) + 2 * CorpusTimeout + 3 * DbLatency
      /\ k < n => Lasts(k + 1) <= Lasts(n)
      /\ Lasts(n) <= MaxAge
  BY Paced
<1>2. t.attempt * CorpusTimeout <= 2 * CorpusTimeout /\ t.attempt * CorpusTimeout \in Nat
  <2>1. CorpusTimeout \in Nat /\ (t.attempt = 1 \/ t.attempt = 2)
    BY <1>1
  <2> QED BY ONLY <2>1
<1>3. t.pc \in {"wait", "query"} => k < n
  BY <1>1 DEF Fits, WorkingSteps
<1>4. now <= t.due
  BY <1>1 DEF Punctual
<1> HIDE DEF t, j, k, n
<1>a. /\ DbLatency \in Nat /\ CorpusTimeout \in Nat /\ t.due \in Nat /\ j.created \in Nat
      /\ Lasts(k) \in Nat /\ Lasts(n) \in Nat /\ t.attempt * CorpusTimeout \in Nat
      /\ 3 * DbLatency <= Lasts(k) /\ Lasts(k) <= Lasts(n)
  BY ONLY <1>1, <1>2
<1>5. t.due <= j.created + Lasts(n)
  <2>1. CASE t.pc \in {"lookup", "missing", "start"}
    <3>1. t.due <= j.created + 2 * DbLatency
      <4>1. DbLatency \in Nat /\ j.created \in Nat /\ t.due \in Nat
        BY <1>1
      <4>2. t.due <= j.created + DbLatency \/ t.due <= j.created + 2 * DbLatency
        BY ONLY <1>1, <2>1 DEF Punctual
      <4> QED BY ONLY <4>1, <4>2
    <3> QED BY ONLY <1>a, <3>1
  <2>2. CASE t.pc \in {"read", "save"}
    <3>1. t.due <= j.created + Lasts(k)
      BY ONLY <1>1, <2>2 DEF Punctual, k
    <3> QED BY ONLY <1>a, <3>1
  <2>3. CASE t.pc \in {"wait", "query"}
    <3>1. t.due <= j.created + Lasts(k) + t.attempt * CorpusTimeout
      BY ONLY <1>1, <2>3 DEF Punctual, k
    <3>2. Lasts(k) + 2 * CorpusTimeout <= Lasts(n)
      BY <1>1, <1>3, <2>3
    <3> QED BY ONLY <1>a, <1>2, <3>1, <3>2
  <2>4. CASE t.pc \in {"look", "write"}
    <3>1. t.due + DbLatency <= j.created + Lasts(k)
          \/ t.due + 2 * DbLatency <= j.created + Lasts(k)
      BY ONLY <1>1, <2>4 DEF Punctual, k
    <3> QED BY ONLY <1>a, <3>1
  <2>5. CASE t.pc = "fail"
    BY ONLY <1>1, <2>5 DEF Punctual, n
  <2> QED BY <1>1, <2>1, <2>2, <2>3, <2>4, <2>5
<1>6. now <= j.created + MaxAge
  BY <1>1, <1>4, <1>5
<1> QED BY <1>1, <1>6 DEF Stale, j

(* The ways a coroutine moves on keep its pace.                            *)
LEMMA GotoPunctual ==
  ASSUME ScanParameters, LifeInv, PaceInv, NEW s \in DOMAIN task, NEW l \in Steps,
         task'[s].pc = l, task'[s].acc = task[s].acc,
         \/ task[s].pc = "lookup" /\ l \in {"missing", "start"}
         \/ task[s].pc = "start" /\ l \in {"read", "fail"}
         \/ task[s].pc \in Guarded /\ l = "fail"
         \/ task[s].pc = "look" /\ l = "write"
         \/ task[s].pc = "write" /\ l \in {"read", "save"},
         task'[s].due = now + DbLatency
  PROVE  Punctual(task'[s], job[s])
<1> DEFINE t == task[s]
           u == task'[s]
           j == job[s]
           k == Len(t.acc)
           n == Len(j.corpora)
<1>1. /\ Punctual(t, j) /\ Fits(t, j)
      /\ now \in Nat /\ DbLatency \in Nat /\ CorpusTimeout \in Nat
      /\ t.due \in Nat /\ j.created \in Nat
      /\ Lasts(k) \in Nat /\ Lasts(n) \in Nat /\ 3 * DbLatency <= Lasts(k)
      /\ Lasts(k) <= Lasts(n) /\ Lasts(k + 1) = Lasts(k) + 2 * CorpusTimeout + 3 * DbLatency
      /\ k < n => Lasts(k + 1) <= Lasts(n)
  BY Paced
<1>2. now <= t.due
  BY <1>1 DEF Punctual
<1>3. u.pc = l /\ Len(u.acc) = k /\ u.due = now + DbLatency
  OBVIOUS
<1>4. t.pc = "read" => k < n
  BY <1>1 DEF Fits, WorkingSteps
<1>5. now <= u.due
  BY <1>1, <1>3
<1> SUFFICES Punctual(u, j)
  OBVIOUS
<1> HIDE DEF t, u, j, k, n
<1>a. /\ now \in Nat /\ DbLatency \in Nat /\ t.due \in Nat /\ j.created \in Nat
      /\ Lasts(k) \in Nat /\ Lasts(n) \in Nat
      /\ 3 * DbLatency <= Lasts(k) /\ Lasts(k) <= Lasts(n)
      /\ now <= t.due /\ u.due = now + DbLatency
  BY ONLY <1>1, <1>2, <1>3
<1>6. CASE t.pc = "lookup" /\ l \in {"missing", "start"}
  <2>1. t.due <= j.created + DbLatency
    BY <1>1, <1>6 DEF Punctual
  <2>2. u.due <= j.created + 2 * DbLatency
    BY ONLY <1>a, <2>1
  <2> QED BY <1>3, <1>5, <1>6, <2>2 DEF Punctual
<1>7. CASE t.pc = "start" /\ l \in {"read", "fail"}
  <2>1. t.due <= j.created + 2 * DbLatency
    BY <1>1, <1>7 DEF Punctual
  <2>2. u.due <= j.created + 3 * DbLatency
    BY ONLY <1>a, <2>1
  <2>3. u.due <= j.created + Lasts(k)
    BY ONLY <1>a, <2>2
  <2>4. u.due <= j.created + Lasts(n)
    BY ONLY <1>a, <2>3
  <2> QED BY <1>3, <1>5, <1>7, <2>3, <2>4 DEF Punctual, n
<1>8. CASE t.pc \in Guarded /\ l = "fail"
  <2>1. CASE t.pc = "read"
    <3>1. t.due <= j.created + Lasts(k)
      BY <1>1, <2>1 DEF Punctual, k
    <3>2. u.due <= j.created + Lasts(n)
      BY <1>1, <1>2, <1>3, <1>4, <2>1, <3>1
    <3> QED BY <1>3, <1>5, <1>8, <3>2 DEF Punctual, n
  <2>2. CASE t.pc \in {"look", "write"}
    <3>1. t.due + DbLatency <= j.created + Lasts(k)
          \/ t.due + 2 * DbLatency <= j.created + Lasts(k)
      BY ONLY <1>1, <2>2 DEF Punctual, k
    <3>2. u.due <= j.created + Lasts(n)
      BY ONLY <1>a, <3>1
    <3> QED BY <1>3, <1>5, <1>8, <3>2 DEF Punctual, n
  <2> QED BY <1>8, <2>1, <2>2 DEF Guarded, t
<1>9. CASE t.pc = "look" /\ l = "write"
  <2>1. t.due + 2 * DbLatency <= j.created + Lasts(k)
    BY <1>1, <1>9 DEF Punctual, k
  <2>2. u.due + DbLatency <= j.created + Lasts(k)
    BY ONLY <1>a, <2>1
  <2> QED BY <1>3, <1>5, <1>9, <2>2 DEF Punctual
<1>10. CASE t.pc = "write" /\ l \in {"read", "save"}
  <2>1. t.due + DbLatency <= j.created + Lasts(k)
    BY <1>1, <1>10 DEF Punctual, k
  <2>2. u.due <= j.created + Lasts(k)
    BY ONLY <1>a, <2>1
  <2> QED BY <1>3, <1>5, <1>10, <2>2 DEF Punctual
<1> QED BY <1>6, <1>7, <1>8, <1>9, <1>10 DEF t

LEMMA AttemptPunctual ==
  ASSUME ScanParameters, LifeInv, PaceInv, NEW s \in DOMAIN task, NEW a \in 1..2,
         task'[s].pc \in {"wait", "query"}, task'[s].acc = task[s].acc, task'[s].attempt = a,
         \/ task[s].pc = "read" /\ a = 1
         \/ task[s].pc \in {"wait", "query"} /\ a = task[s].attempt + 1,
         task'[s].due = now + CorpusTimeout
  PROVE  Punctual(task'[s], job[s])
<1> DEFINE t == task[s]
           u == task'[s]
           j == job[s]
           k == Len(t.acc)
<1>1. /\ Punctual(t, j)
      /\ now \in Nat /\ CorpusTimeout \in Nat /\ t.attempt \in 1..2
      /\ t.due \in Nat /\ j.created \in Nat /\ Lasts(k) \in Nat
  BY Paced
<1>2. now <= t.due
  BY <1>1 DEF Punctual
<1>3. u.pc \in {"wait", "query"} /\ Len(u.acc) = k /\ u.due = now + CorpusTimeout /\ u.attempt = a
  OBVIOUS
<1> HIDE DEF t, u, j, k
<1>4. now <= u.due
  BY <1>1, <1>3
<1>5. u.due <= j.created + Lasts(k) + a * CorpusTimeout
  <2>1. CASE t.pc = "read" /\ a = 1
    <3>1. t.due <= j.created + Lasts(k)
      BY <1>1, <2>1 DEF Punctual, k
    <3> QED BY <1>1, <1>2, <1>3, <2>1, <3>1
  <2>2. CASE t.pc \in {"wait", "query"} /\ a = t.attempt + 1
    <3>1. t.due <= j.created + Lasts(k) + t.attempt * CorpusTimeout
      BY <1>1, <2>2 DEF Punctual, k
    <3>2. t.attempt = 1 /\ a = 2
      BY <1>1, <2>2
    <3> QED BY <1>1, <1>2, <1>3, <3>1, <3>2
  <2> QED BY <2>1, <2>2 DEF t
<1>6. Punctual(u, j)
  BY <1>3, <1>4, <1>5 DEF Punctual
<1> QED BY <1>6 DEF u, j

LEMMA TakePunctual ==
  ASSUME ScanParameters, LifeInv, PaceInv, NEW s \in DOMAIN task,
         task'[s].pc \in {"look", "read", "save"}, Len(task'[s].acc) = Len(task[s].acc) + 1,
         task[s].pc \in WorkingSteps, task[s].pc = "read" => task'[s].pc # "look",
         task'[s].due = now + DbLatency
  PROVE  Punctual(task'[s], job[s])
<1> DEFINE t == task[s]
           u == task'[s]
           j == job[s]
           k == Len(t.acc)
<1>1. /\ Punctual(t, j)
      /\ now \in Nat /\ CorpusTimeout \in Nat /\ DbLatency \in Nat /\ t.attempt \in 1..2
      /\ t.due \in Nat /\ j.created \in Nat /\ Lasts(k) \in Nat
      /\ Lasts(k + 1) = Lasts(k) + 2 * CorpusTimeout + 3 * DbLatency
  BY Paced
<1>2. now <= t.due
  BY <1>1 DEF Punctual
<1>3. /\ u.pc \in {"look", "read", "save"} /\ Len(u.acc) = k + 1 /\ u.due = now + DbLatency
      /\ t.pc = "read" => u.pc # "look"
      /\ t.pc \in {"read", "wait", "query"}
  BY DEF WorkingSteps
<1> HIDE DEF t, u, j, k
<1>4. now <= u.due
  BY <1>1, <1>3
<1>a. /\ now \in Nat /\ CorpusTimeout \in Nat /\ DbLatency \in Nat /\ t.due \in Nat
      /\ j.created \in Nat /\ Lasts(k) \in Nat
      /\ Lasts(k + 1) = Lasts(k) + 2 * CorpusTimeout + 3 * DbLatency
      /\ now <= t.due /\ u.due = now + DbLatency
  BY ONLY <1>1, <1>2, <1>3
<1>5. /\ u.pc = "look" => u.due + 2 * DbLatency <= j.created + Lasts(k + 1)
      /\ u.due <= j.created + Lasts(k + 1)
  <2>1. CASE t.pc = "read"
    <3>1. t.due <= j.created + Lasts(k)
      BY <1>1, <2>1 DEF Punctual, k
    <3>2. u.due <= j.created + Lasts(k + 1)
      BY ONLY <1>a, <3>1
    <3> QED BY ONLY <1>3, <2>1, <3>2
  <2>2. CASE t.pc \in {"wait", "query"}
    <3>1. t.due <= j.created + Lasts(k) + t.attempt * CorpusTimeout
      BY <1>1, <2>2 DEF Punctual, k
    <3>2. t.attempt = 1 \/ t.attempt = 2
      BY <1>1
    <3>3. t.due <= j.created + Lasts(k) + 2 * CorpusTimeout
      BY ONLY <1>a, <3>1, <3>2
    <3>4. u.due + 2 * DbLatency <= j.created + Lasts(k + 1)
      BY ONLY <1>a, <3>3
    <3>5. u.due <= j.created + Lasts(k + 1)
      BY ONLY <1>a, <3>4
    <3> QED BY ONLY <3>4, <3>5
  <2> QED BY <1>3, <2>1, <2>2
<1>6. Punctual(u, j)
  BY <1>3, <1>4, <1>5 DEF Punctual
<1> QED BY <1>6 DEF u, j

LEMMA MoveKeepsPace ==
  ASSUME LifeInv, PaceInv, NEW s \in DOMAIN task, Moves(s), Punctual(task'[s], job[s]),
         UNCHANGED <<job, now>>
  PROVE  PaceInv'
<1> HIDE DEF Job, Task, Result
<1>1. (\A x \in DOMAIN task : Punctual(task[x], job[x]))'
  <2> SUFFICES ASSUME NEW x \in DOMAIN task' PROVE (Punctual(task[x], job[x]))'
    OBVIOUS
  <2>1. x \in DOMAIN task /\ Punctual(task'[x], job[x])
    BY DEF PaceInv, Moves
  <2> QED BY <2>1 DEF Punctual
<1> QED BY <1>1 DEF PaceInv

LEMMA OutcomeIsResult ==
  ASSUME ScanParameters, LifeInv, NEW s \in DOMAIN task, task[s].pc \in WorkingSteps,
         NEW h \in Nat,
         NEW st \in {"ok", "skipped", "timeout", "error"}, NEW ans \in BOOLEAN
  PROVE  Outcome(s, h, st, ans) \in Result
<1>1. task[s] \in Task /\ job[s] \in Job /\ now \in Nat /\ Fits(task[s], job[s])
  BY DEF LifeInv, TypeOK, TasksFitJobs
<1>2. Current(s) \in Corpora
  BY SMTT(30), <1>1 DEF Fits, Current, WorkingSteps, OpeningSteps
<1>3. task[s].due - CorpusTimeout \in Int
  BY <1>1, ParametersAreNat
<1> QED BY <1>2, <1>3 DEF Outcome

LEMMA RunScanPace ==
  ASSUME ScanParameters, LifeInv, PaceInv, NEW s \in Scans,
         \/ Lookup(s) \/ CacheHit(s) \/ CacheMiss(s) \/ Acquire(s)
         \/ (\E h \in HitCounts : Answer(s, h)) \/ AnswerLost(s) \/ Refuse(s)
         \/ Raise(s) \/ TimeOut(s) \/ Look(s) \/ Write(s) \/ Collide(s)
  PROVE  PaceInv'
<1>1. /\ s \in DOMAIN task /\ task[s] \in Task /\ TypeOK /\ now \in Nat
      /\ UNCHANGED <<job, now>>
  <2>1. s \in DOMAIN task
    BY DEF Lookup, CacheHit, CacheMiss, Acquire, Answer, AnswerLost, Refuse, Raise, TimeOut,
      Look, Write, Collide, At
  <2>2. UNCHANGED <<job, now>>
    BY DEF Lookup, CacheHit, CacheMiss, Acquire, Answer, AnswerLost, Refuse, Raise, TimeOut,
      Look, Write, Collide
  <2> QED BY <2>1, <2>2 DEF LifeInv, TypeOK
<1>2. DbLatency \in Nat /\ CorpusTimeout \in Nat
  BY ParametersAreNat
<1>a. ASSUME NEW l \in Steps, Goto(s, l),
             \/ task[s].pc = "lookup" /\ l \in {"missing", "start"}
             \/ task[s].pc = "write" /\ l \in {"read", "save", "fail"}
      PROVE  PaceInv'
  <2>1. Moves(s) /\ task'[s].acc = task[s].acc /\ task'[s].pc = l
        /\ task'[s].due = now + DbLatency
    BY <1>1, <1>a, GotoMoves DEF Patience
  <2>2. Punctual(task'[s], job[s])
    <3> HIDE DEF Job, Task, Result, Steps
    <3> QED BY <1>1, <1>a, <2>1, GotoPunctual DEF Guarded
  <2> HIDE DEF Job, Task, Result, Steps
  <2> QED BY <1>1, <2>1, <2>2, MoveKeepsPace
<1>b. ASSUME NEW n \in 1..MaxRetries, Attempt(s, n),
             \/ task[s].pc = "read" /\ n = 1
             \/ task[s].pc \in {"wait", "query"} /\ n = task[s].attempt + 1
      PROVE  PaceInv'
  <2>1. Moves(s) /\ task'[s].acc = task[s].acc /\ task'[s].pc \in {"wait", "query"}
        /\ task'[s].due = now + CorpusTimeout /\ task'[s].attempt = n
    BY <1>1, <1>b, AttemptMoves
  <2>2. Punctual(task'[s], job[s])
    BY <1>1, <1>b, <2>1, AttemptPunctual
  <2> HIDE DEF Job, Task, Result, Steps
  <2> QED BY <1>1, <2>1, <2>2, MoveKeepsPace
<1>c. ASSUME NEW r \in Result, NEW l \in {"look", "read", "save"}, Take(s, r, l),
             task[s].pc \in WorkingSteps, task[s].pc = "read" => l # "look"
      PROVE  PaceInv'
  <2>1. Moves(s) /\ task'[s].acc = Append(task[s].acc, r) /\ task'[s].pc = l
        /\ task'[s].due = now + DbLatency
    <3>1. l \in Steps /\ Patience(l) = DbLatency
      BY DEF Patience
    <3> HIDE DEF Job, Task, Result, Steps
    <3> QED BY <1>1, <1>c, <3>1, TakeMoves
  <2>2. Len(task'[s].acc) = Len(task[s].acc) + 1
    BY <1>1, <2>1
  <2>3. Punctual(task'[s], job[s])
    <3> HIDE DEF Job, Task, Result, Steps
    <3> QED BY <1>1, <1>c, <2>1, <2>2, TakePunctual
  <2> HIDE DEF Job, Task, Result, Steps
  <2> QED BY <1>1, <2>1, <2>3, MoveKeepsPace
<1>d. ASSUME task[s].pc \in {"wait", "query"}, NEW h \in Nat,
             NEW st \in {"ok", "skipped", "timeout", "error"}, NEW ans \in BOOLEAN,
             NEW l \in {"look", "read", "save"}, Take(s, Outcome(s, h, st, ans), l)
      PROVE  PaceInv'
  <2>1. Outcome(s, h, st, ans) \in Result
    <3>1. task[s].pc \in WorkingSteps
      BY <1>d DEF WorkingSteps
    <3> HIDE DEF Result
    <3> QED BY Zenon, <1>1, <1>d, <3>1, OutcomeIsResult
  <2> HIDE DEF Job, Task, Result, Steps
  <2> QED BY <1>c, <1>d, <2>1 DEF WorkingSteps
<1>e. ASSUME task[s].pc \in {"wait", "query"}, NEW st \in {"timeout", "error"}, Retry(s, st)
      PROVE  PaceInv'
  <2>1. CASE task[s].attempt < MaxRetries
    BY <1>1, <1>b, <1>e, <2>1 DEF Retry
  <2>2. CASE ~(task[s].attempt < MaxRetries)
    BY <1>d, <1>e, <2>2 DEF Retry, After
  <2> QED BY <2>1, <2>2
<1>3. CASE Lookup(s)
  BY <1>3, <1>a DEF Lookup, At
<1>4. CASE CacheHit(s)
  <2> DEFINE k == CacheKey(s, Current(s))
  <2>1. k \in DOMAIN cache /\ task[s].pc = "read"
        /\ Take(s, cache[k].result, After(s, Len(task[s].acc) + 1))
    BY <1>4 DEF CacheHit, Fresh, At
  <2>2. cache[k].result \in Result
    BY <1>1, <2>1 DEF TypeOK
  <2> HIDE DEF k, Result
  <2> QED BY <1>c, <2>1, <2>2 DEF After, WorkingSteps
<1>5. CASE CacheMiss(s)
  BY <1>5, <1>b DEF CacheMiss, At
<1>6. CASE Acquire(s)
  <2>1. task[s].pc = "wait" /\ task' = [task EXCEPT ![s].pc = "query"]
    BY <1>6 DEF Acquire, At
  <2>2. Moves(s) /\ task'[s].acc = task[s].acc /\ task'[s].pc = "query"
        /\ task'[s].due = task[s].due /\ task'[s].attempt = task[s].attempt
    BY <1>1, <2>1 DEF Moves, TypeOK
  <2> HIDE DEF Job, Task, Result, Steps
  <2>3. Punctual(task[s], job[s])
    BY <1>1 DEF PaceInv
  <2>4. Punctual(task'[s], job[s])
    BY <2>1, <2>2, <2>3 DEF Punctual
  <2> QED BY <1>1, <2>2, <2>4, MoveKeepsPace
<1>7. CASE \E h \in HitCounts : Answer(s, h)
  BY <1>7, <1>d DEF ScanParameters, Answer, At
<1>8. CASE AnswerLost(s)
  BY <1>8, <1>d DEF AnswerLost, At
<1>9. CASE Refuse(s)
  BY <1>9, <1>d DEF Refuse, At
<1>10. CASE Raise(s)
  BY <1>10, <1>e DEF Raise, At
<1>11. CASE TimeOut(s)
  BY <1>11, <1>e DEF TimeOut, At
<1>12. CASE Look(s)
  <2> DEFINE b == CacheKey(s, Newest(s).corpus) \in DOMAIN cache
  <2>1. task[s].pc = "look" /\ b \in BOOLEAN
        /\ task' = [task EXCEPT ![s].pc = "write", ![s].due = now + DbLatency, ![s].seen = b]
    BY <1>12 DEF Look, At
  <2>2. now + DbLatency \in Nat
    BY <1>1, <1>2
  <2> HIDE DEF b
  <2>3. Moves(s) /\ task'[s].acc = task[s].acc /\ task'[s].pc = "write"
        /\ task'[s].due = now + DbLatency
    BY <1>1, <2>1, <2>2 DEF Moves, TypeOK
  <2>4. "write" \in Steps
    OBVIOUS
  <2> HIDE DEF Job, Task, Result, Steps
  <2>5. Punctual(task'[s], job[s])
    BY <1>1, <2>1, <2>3, <2>4, GotoPunctual
  <2> QED BY <1>1, <2>3, <2>5, MoveKeepsPace
<1>13. CASE Write(s)
  BY <1>13, <1>a DEF Write, At, After
<1>14. CASE Collide(s)
  BY <1>14, <1>a DEF Collide, At
<1> QED
  BY <1>3, <1>4, <1>5, <1>6, <1>7, <1>8, <1>9, <1>10, <1>11, <1>12, <1>13, <1>14

(* Steps that change jobs keep what a request is and when it was made.     *)
LEMMA JobsKeepPace ==
  ASSUME LifeInv, PaceInv, now' = now,
         DOMAIN task' \subseteq DOMAIN task, \A x \in DOMAIN task' : task'[x] = task[x],
         DOMAIN job' = DOMAIN job,
         \A x \in DOMAIN job :
           job'[x].created = job[x].created /\ job'[x].corpora = job[x].corpora
  PROVE  PaceInv'
<1> HIDE DEF Job, Task, Result, Steps
<1>1. DOMAIN task \subseteq DOMAIN job
  BY DEF LifeInv, TypeOK
<1>2. (\A x \in DOMAIN task : Punctual(task[x], job[x]))'
  <2> SUFFICES ASSUME NEW x \in DOMAIN task' PROVE (Punctual(task[x], job[x]))'
    OBVIOUS
  <2>1. Punctual(task[x], job[x]) /\ job'[x].created = job[x].created
        /\ job'[x].corpora = job[x].corpora /\ task'[x] = task[x]
    BY <1>1 DEF PaceInv
  <2> QED BY <2>1 DEF Punctual
<1>3. (\A x \in DOMAIN job : Lasts(Len(job[x].corpora)) <= MaxAge)'
  BY DEF PaceInv
<1> QED BY <1>2, <1>3 DEF PaceInv

LEMMA NextPace ==
  ASSUME ScanParameters, LimitOutlastsScans, LifeInv, PaceInv, [Next]_vars
  PROVE  PaceInv'
<1>1. /\ TypeOK /\ now \in Nat /\ DbLatency \in Nat
      /\ task \in [DOMAIN task -> Task] /\ job \in [DOMAIN job -> Job]
      /\ DOMAIN task \subseteq DOMAIN job
  BY ParametersAreNat DEF LifeInv, TypeOK
<1>2. "read" \in Steps /\ "fail" \in Steps
  OBVIOUS
<1>3. ASSUME NEW s \in Scans, Start(s) PROVE PaceInv'
  <2> DEFINE l == IF Range(job[s].corpora) \subseteq Corpora THEN "read" ELSE "fail"
  <2>1. /\ s \in DOMAIN task /\ task[s].pc = "start" /\ Goto(s, l)
        /\ job' = [job EXCEPT ![s].status = "running"] /\ now' = now
    BY <1>3 DEF Start, At, SetStatus
  <2>2. l \in {"read", "fail"}
    OBVIOUS
  <2> HIDE DEF l
  <2>3. Moves(s) /\ task'[s].acc = task[s].acc /\ task'[s].pc = l
        /\ task'[s].due = now + DbLatency
    BY <1>1, <2>1, <2>2, GotoMoves DEF Patience
  <2>4. \A x \in DOMAIN job :
          job'[x].created = job[x].created /\ job'[x].corpora = job[x].corpora
    BY <1>1, <2>1
  <2> HIDE DEF Job, Task, Result, Steps
  <2>5. Punctual(task'[s], job[s])
    BY <1>2, <2>1, <2>2, <2>3, GotoPunctual
  <2>6. (\A x \in DOMAIN task : Punctual(task[x], job[x]))'
    <3> SUFFICES ASSUME NEW x \in DOMAIN task' PROVE (Punctual(task[x], job[x]))'
      OBVIOUS
    <3>1. Punctual(task'[x], job[x]) /\ job'[x].created = job[x].created
          /\ job'[x].corpora = job[x].corpora
      BY <1>1, <2>3, <2>4, <2>5 DEF PaceInv, Moves
    <3> QED BY <2>1, <3>1 DEF Punctual
  <2>7. (\A x \in DOMAIN job : Lasts(Len(job[x].corpora)) <= MaxAge)'
    BY <1>1, <2>1, <2>4 DEF PaceInv
  <2> QED BY <2>6, <2>7 DEF PaceInv
<1>4. ASSUME NEW s \in Scans, MarkError(s) \/ Save(s) PROVE PaceInv'
  <2>1. s \in DOMAIN task /\ End(s) /\ now' = now
        /\ \/ job' = [job EXCEPT ![s].status = "error"]
           \/ job' = [job EXCEPT ![s].status = "complete", ![s].hits = task[s].total]
    BY <1>4 DEF MarkError, Save, At, SetStatus
  <2>2. DOMAIN job' = DOMAIN job
        /\ \A x \in DOMAIN job :
             job'[x].created = job[x].created /\ job'[x].corpora = job[x].corpora
    <3>1. CASE job' = [job EXCEPT ![s].status = "error"]
      BY <1>1, <3>1
    <3>2. CASE job' = [job EXCEPT ![s].status = "complete", ![s].hits = task[s].total]
      BY <1>1, <3>2
    <3> QED BY <2>1, <3>1, <3>2
  <2>3. DOMAIN task' \subseteq DOMAIN task /\ \A x \in DOMAIN task' : task'[x] = task[x]
    BY <1>1, <2>1, EndFunction
  <2> HIDE DEF Job, Task, Result, Steps
  <2> QED BY <2>1, <2>2, <2>3, JobsKeepPace
<1>5. ASSUME NEW i \in Instances, NEW s \in Scans, NEW c \in Certs, NEW r \in Requests,
             Submit(i, s, c, r)
      PROVE  PaceInv'
  <2> DEFINE corpora == IF r = <<>> THEN DefaultCorpora ELSE r
  <2>1. /\ DOMAIN job' = DOMAIN job \cup {s} /\ s \notin DOMAIN job
        /\ job'[s].created = now /\ job'[s].corpora = corpora
        /\ \A x \in DOMAIN job : job'[x] = job[x]
        /\ DOMAIN task' = DOMAIN task \cup {s}
        /\ task'[s].pc = "lookup" /\ task'[s].due = now + DbLatency
        /\ \A x \in DOMAIN task : task'[x] = task[x]
        /\ now' = now
    BY <1>1, <1>5 DEF Submit, Put
  <2>2. Lasts(Len(corpora)) <= MaxAge
    BY DEF LimitOutlastsScans
  <2> HIDE DEF corpora, Job, Task, Result, Steps
  <2>3. (\A x \in DOMAIN task : Punctual(task[x], job[x]))'
    <3> SUFFICES ASSUME NEW x \in DOMAIN task' PROVE (Punctual(task[x], job[x]))'
      OBVIOUS
    <3>1. CASE x = s
      BY <1>1, <2>1, <3>1 DEF Punctual
    <3>2. CASE x # s
      <4>1. task'[x] = task[x] /\ job'[x] = job[x] /\ Punctual(task[x], job[x])
        BY <1>1, <2>1, <3>2 DEF PaceInv
      <4> QED BY <2>1, <4>1 DEF Punctual
    <3> QED BY <3>1, <3>2
  <2>4. (\A x \in DOMAIN job : Lasts(Len(job[x].corpora)) <= MaxAge)'
    <3> SUFFICES ASSUME NEW x \in DOMAIN job'
                 PROVE  (Lasts(Len(job[x].corpora)) <= MaxAge)'
      OBVIOUS
    <3>1. CASE x = s
      BY <2>1, <2>2, <3>1
    <3>2. CASE x # s
      BY <2>1, <3>2 DEF PaceInv
    <3> QED BY <3>1, <3>2
  <2> QED BY <2>3, <2>4 DEF PaceInv
<1>6. ASSUME NEW s \in Scans, SessionFails(s) PROVE PaceInv'
  <2>1. s \in DOMAIN task /\ UNCHANGED <<job, now>>
    BY <1>6 DEF SessionFails
  <2>2. CASE task[s].pc \in Guarded /\ Goto(s, "fail")
    <3>1. Moves(s) /\ task'[s].acc = task[s].acc /\ task'[s].pc = "fail"
          /\ task'[s].due = now + DbLatency
      BY <1>1, <2>1, <2>2, GotoMoves DEF Patience
    <3> HIDE DEF Job, Task, Result, Steps
    <3>2. Punctual(task'[s], job[s])
      BY <1>2, <2>1, <2>2, <3>1, GotoPunctual
    <3> QED BY <2>1, <3>1, <3>2, MoveKeepsPace
  <2>3. CASE End(s)
    <3>1. DOMAIN task' \subseteq DOMAIN task /\ \A x \in DOMAIN task' : task'[x] = task[x]
      BY <1>1, <2>1, <2>3, EndFunction
    <3> HIDE DEF Job, Task, Result, Steps
    <3> QED BY <2>1, <3>1, JobsKeepPace
  <2> QED BY <1>6, <2>2, <2>3 DEF SessionFails
<1>7. ASSUME NEW i \in Instances, Crash(i) PROVE PaceInv'
  <2>1. UNCHANGED <<job, now>>
        /\ DOMAIN task' \subseteq DOMAIN task /\ \A x \in DOMAIN task' : task'[x] = task[x]
    BY <1>7 DEF Crash, Restrict
  <2> HIDE DEF Job, Task, Result, Steps
  <2> QED BY <2>1, JobsKeepPace
<1>8. ASSUME NEW i \in Instances, Boot(i) PROVE PaceInv'
  <2>1. UNCHANGED <<task, now>> /\ Reap(reaper[i].picked)
    BY <1>8 DEF Boot
  <2>2. DOMAIN job' = DOMAIN job
        /\ \A x \in DOMAIN job :
             job'[x].created = job[x].created /\ job'[x].corpora = job[x].corpora
    BY <1>1, <2>1, ReapedJobs
  <2> HIDE DEF Job, Task, Result, Steps
  <2> QED BY <2>1, <2>2, JobsKeepPace
<1>9. CASE Tick
  <2>1. UNCHANGED <<job, task>> /\ now' = now + 1 /\ \A x \in DOMAIN task : now < task[x].due
    BY <1>9 DEF Tick
  <2>2. (\A x \in DOMAIN task : Punctual(task[x], job[x]))'
    <3> SUFFICES ASSUME NEW x \in DOMAIN task PROVE (Punctual(task[x], job[x]))'
      BY <2>1
    <3>1. task[x].due \in Nat /\ Punctual(task[x], job[x])
      BY <1>1 DEF PaceInv
    <3> HIDE DEF Job, Task, Result, Steps
    <3>2. now' <= task[x].due
      BY <1>1, <2>1, <3>1
    <3> QED BY <2>1, <3>1, <3>2 DEF Punctual
  <2> HIDE DEF Job, Task, Result, Steps
  <2> QED BY <2>1, <2>2 DEF PaceInv
<1>10. CASE UNCHANGED <<job, task, now>>
  <2> HIDE DEF Job, Task, Result, Steps
  <2> QED BY <1>10, JobsKeepPace
<1>11. ASSUME NEW s \in Scans, RunScan(s) PROVE PaceInv'
  BY <1>11, <1>3, <1>4, RunScanPace DEF RunScan
<1> QED
  BY <1>5, <1>6, <1>7, <1>8, <1>9, <1>10, <1>11 DEF Next, StartUp, BootUnreaped, Purge, vars

(* A reaper under way is as it was, or has just selected.                  *)
LEMMA ReapersKeep ==
  ASSUME TypeOK, [Next]_vars, NEW i \in DOMAIN reaper'
  PROVE  \/ i \in DOMAIN reaper /\ reaper'[i] = reaper[i]
         \/ /\ i \in Instances /\ ~up[i] /\ UNCHANGED <<job, rows, task, now, lastReap>>
            /\ reaper'[i].picked = {s \in DOMAIN job : Stale(s)} /\ reaper'[i].at = now
<1> DEFINE Kept == i \in DOMAIN reaper /\ reaper'[i] = reaper[i]
           Selects == /\ i \in Instances /\ ~up[i] /\ UNCHANGED <<job, rows, task, now, lastReap>>
                      /\ reaper'[i].picked = {s \in DOMAIN job : Stale(s)}
                      /\ reaper'[i].at = now
<1> HIDE DEF Job, Task, Result, Steps, Status
<1>1. CASE reaper' = reaper
  BY <1>1
<1>2. ASSUME NEW x \in Instances, reaper' = Restrict(reaper, DOMAIN reaper \ {x})
      PROVE  Kept
  BY <1>2 DEF Restrict
<1>3. ASSUME NEW x \in Instances, StartUp(x) PROVE Kept \/ Selects
  <2>1. /\ i \in DOMAIN reaper \cup {x} /\ ~up[x]
        /\ UNCHANGED <<job, rows, task, now, lastReap>>
        /\ i # x => reaper'[i] = reaper[i]
        /\ i = x => /\ reaper'[i].picked = {s \in DOMAIN job : Stale(s)}
                    /\ reaper'[i].at = now
    BY <1>3 DEF StartUp, Put
  <2> QED BY <2>1
<1>4. ASSUME NEW x \in Instances, Crash(x) \/ Boot(x) \/ BootUnreaped(x)
      PROVE  Kept
  BY <1>2, <1>4 DEF Crash, Boot, BootUnreaped
<1>5. reaper' = reaper \/ \E x \in Instances : Crash(x) \/ StartUp(x) \/ Boot(x) \/ BootUnreaped(x)
  BY DEF Next, RunScan, Submit, Lookup, Start, MarkError, CacheHit, CacheMiss, Acquire,
    Answer, AnswerLost, Refuse, Raise, TimeOut, Look, Write, Collide, Save, SessionFails,
    Tick, Purge, vars
<1> QED BY <1>1, <1>3, <1>4, <1>5

(* A step creates a coroutine only with its job.                           *)
LEMMA TasksAreNew ==
  ASSUME LifeInv, [Next]_vars
  PROVE  \A s \in DOMAIN task' : s \in DOMAIN task \/ s \notin DOMAIN job
<1> HIDE DEF Job, Task, Result, Steps, Status
<1>1. ASSUME NEW i \in Instances, NEW s \in Scans, NEW c \in Certs, NEW r \in Requests,
             Submit(i, s, c, r)
      PROVE  DOMAIN task' = DOMAIN task \cup {s} /\ s \notin DOMAIN job
  BY <1>1 DEF Submit, Put
<1>2. ASSUME NEW s \in Scans, RunScan(s) PROVE DOMAIN task' \subseteq DOMAIN task
  <2>1. ASSUME NEW st, Retry(s, st) PROVE DOMAIN task' = DOMAIN task
    BY <2>1 DEF Retry, Attempt, Take
  <2>2. CASE MarkError(s) \/ Save(s)
    BY <2>2 DEF MarkError, Save, End, Restrict
  <2>3. CASE DOMAIN task' = DOMAIN task
    BY <2>3
  <2> QED
    BY <1>2, <2>1, <2>2, <2>3 DEF RunScan, Lookup, Start, CacheHit, CacheMiss, Acquire, Answer,
      AnswerLost, Refuse, Raise, TimeOut, Look, Write, Collide, Goto, Take, Attempt
<1>3. ASSUME NEW s \in Scans, SessionFails(s) PROVE DOMAIN task' \subseteq DOMAIN task
  BY <1>3 DEF SessionFails, Goto, End, Restrict
<1>4. ASSUME NEW i \in Instances, Crash(i) PROVE DOMAIN task' \subseteq DOMAIN task
  BY <1>4 DEF Crash, Restrict
<1>5. CASE task' = task
  BY <1>5
<1> QED
  BY <1>1, <1>2, <1>3, <1>4, <1>5
    DEF Next, StartUp, Boot, BootUnreaped, Tick, Purge, vars

LEMMA NextSelected ==
  ASSUME LifeInv, NoneToSelect, SelectedAreDead, [Next]_vars
  PROVE  SelectedAreDead'
<1> SUFFICES ASSUME NEW i \in DOMAIN reaper', NEW s \in reaper'[i].picked, s \in DOMAIN task'
             PROVE  FALSE
  BY DEF SelectedAreDead
<1>1. TypeOK /\ (s \in DOMAIN task \/ s \notin DOMAIN job)
  BY TasksAreNew DEF LifeInv
<1>2. CASE i \in DOMAIN reaper /\ reaper'[i] = reaper[i]
  <2>1. s \in DOMAIN job
    BY <1>1, <1>2 DEF TypeOK
  <2> QED BY <1>1, <1>2, <2>1 DEF SelectedAreDead
<1>3. CASE /\ i \in Instances /\ ~up[i] /\ UNCHANGED <<job, rows, task, now, lastReap>>
           /\ reaper'[i].picked = {x \in DOMAIN job : Stale(x)}
  BY <1>3 DEF NoneToSelect
<1> QED BY <1>1, <1>2, <1>3, ReapersKeep

(* A job is only ever ended by its coroutine's last step, or by a reaper   *)
(* that found it without one.                                              *)
LEMMA NextInStep ==
  ASSUME ScanParameters, LifeInv, SelectedAreDead, InStep, [Next]_vars
  PROVE  InStep'
<1>1. /\ TypeOK /\ DOMAIN task \subseteq DOMAIN job /\ DOMAIN job \subseteq Scans
      /\ \A s \in DOMAIN job : job[s] \in Job
      /\ job \in [DOMAIN job -> Job] /\ rows \in [Scans -> Seq(Result)]
      /\ \A i \in DOMAIN reaper : reaper[i].picked \subseteq DOMAIN job
  BY DEF LifeInv, TypeOK
<1>2. /\ \A s \in DOMAIN task : job[s].status \in Active /\ rows[s] = <<>>
      /\ \A s \in DOMAIN job : job[s].status \in Active \cup {"error"} => rows[s] = <<>>
  <2>1. \A s \in DOMAIN job : job[s].status \in Active => rows[s] = <<>>
    BY <1>1 DEF LifeInv, RowsFitJobs
  <2> QED BY <1>1, <2>1 DEF InStep
<1> DEFINE Living == \A s \in DOMAIN task' : job'[s].status \in Active
           Selected == \A i \in DOMAIN reaper' :
                         \A s \in reaper'[i].picked : job'[s].status # "complete"
           Failed == \A s \in DOMAIN job' : job'[s].status = "error" => rows'[s] = <<>>
<1> HIDE DEF Job, Task, Result, Steps, Status
(* A job selected before, that this step does not complete, is not complete. *)
<1>3. ASSUME NEW C, \A x \in DOMAIN job : x \in DOMAIN task \/ x \notin C,
             \A x \in DOMAIN job \ C : job'[x].status \in {job[x].status} \cup Active \cup {"error"}
      PROVE  Selected
  <2> SUFFICES ASSUME NEW i \in DOMAIN reaper', NEW s \in reaper'[i].picked
               PROVE  job'[s].status # "complete"
    OBVIOUS
  <2>1. CASE i \in DOMAIN reaper /\ reaper'[i] = reaper[i]
    <3>1. /\ s \in DOMAIN job /\ s \notin DOMAIN task /\ job[s].status # "complete"
      BY <1>1, <2>1 DEF SelectedAreDead, InStep
    <3> QED BY <1>3, <3>1
  <2>2. CASE job' = job /\ reaper'[i].picked = {x \in DOMAIN job : Stale(x)}
    BY <2>2 DEF Stale
  <2> QED BY <1>1, <2>1, <2>2, ReapersKeep
<1>4. ASSUME NEW i \in Instances, NEW s \in Scans, NEW c \in Certs, NEW r \in Requests,
             Submit(i, s, c, r)
      PROVE  Living /\ Selected /\ Failed
  <2>1. /\ DOMAIN task' = DOMAIN task \cup {s} /\ job'[s].status = "pending"
        /\ s \notin DOMAIN job /\ \A x \in DOMAIN job : job'[x] = job[x]
        /\ DOMAIN job' = DOMAIN job \cup {s} /\ rows' = rows
    BY <1>4 DEF Submit, Put
  <2>2. Selected
    <3> HIDE DEF Selected
    <3> QED BY <1>3, <2>1
  <2> QED BY <1>1, <1>2, <2>1, <2>2
<1>5. ASSUME NEW s \in Scans, Start(s) PROVE Living /\ Selected /\ Failed
  <2>1. /\ DOMAIN task' = DOMAIN task /\ job' = [job EXCEPT ![s].status = "running"]
        /\ rows' = rows
    BY <1>5 DEF Start, SetStatus, Goto
  <2>2. DOMAIN job' = DOMAIN job
        /\ \A x \in DOMAIN job : job'[x].status \in {job[x].status, "running"}
    BY <1>1, <2>1 DEF Job
  <2>3. Selected
    <3> HIDE DEF Selected
    <3> QED BY <1>3, <2>2
  <2> QED BY <1>1, <1>2, <2>1, <2>2, <2>3
<1>6. ASSUME NEW s \in Scans, MarkError(s) PROVE Living /\ Selected /\ Failed
  <2>1. /\ DOMAIN task' = DOMAIN task \ {s} /\ job' = [job EXCEPT ![s].status = "error"]
        /\ s \in DOMAIN task /\ rows' = rows
    BY <1>6 DEF MarkError, At, SetStatus, End, Restrict
  <2>2. /\ DOMAIN job' = DOMAIN job /\ job'[s].status = "error"
        /\ \A x \in DOMAIN job : x # s => job'[x] = job[x]
    BY <1>1, <2>1 DEF Job
  <2>3. Selected
    <3> HIDE DEF Selected
    <3> QED BY <1>3, <2>2
  <2> QED BY <1>1, <1>2, <2>1, <2>2, <2>3
<1>7. ASSUME NEW s \in Scans, Save(s) PROVE Living /\ Selected /\ Failed
  <2>1. /\ DOMAIN task' = DOMAIN task \ {s} /\ s \in DOMAIN task
        /\ job' = [job EXCEPT ![s].status = "complete", ![s].hits = task[s].total]
        /\ rows' = [rows EXCEPT ![s] = task[s].acc]
    BY <1>7 DEF Save, At, End, Restrict
  <2>2. /\ DOMAIN job' = DOMAIN job /\ job'[s].status = "complete"
        /\ \A x \in DOMAIN job : x # s => job'[x] = job[x] /\ rows'[x] = rows[x]
    BY <1>1, <2>1 DEF Job
  <2>3. Selected
    <3> HIDE DEF Selected
    <3> QED BY <1>3, <2>1, <2>2
  <2> QED BY <1>1, <1>2, <2>1, <2>2, <2>3
<1>8. ASSUME NEW i \in Instances, Boot(i) PROVE Living /\ Selected /\ Failed
  <2>1. task' = task /\ rows' = rows /\ Reap(reaper[i].picked) /\ i \in DOMAIN reaper
    BY <1>8 DEF Boot
  <2>2. /\ DOMAIN job' = DOMAIN job
        /\ \A x \in DOMAIN job :
             IF x \in reaper[i].picked THEN job'[x].status = "error" ELSE job'[x] = job[x]
    BY <1>1, <2>1, ReapedJobs
  <2>3. \A x \in reaper[i].picked :
          x \notin DOMAIN task /\ x \in DOMAIN job /\ job[x].status \in Active \cup {"error"}
    BY <1>1, <2>1 DEF SelectedAreDead, InStep, Job, Status
  <2>4. Selected
    <3> HIDE DEF Selected
    <3> QED BY <1>3, <2>2
  <2> QED BY <1>1, <1>2, <2>1, <2>2, <2>3, <2>4
<1>9. ASSUME job' = job, rows' = rows PROVE Living /\ Selected /\ Failed
  <2>1. Living
    BY <1>1, <1>2, <1>9, TasksAreNew, NextLife DEF LifeInv, TypeOK
  <2>2. Selected
    <3> HIDE DEF Selected
    <3> QED BY <1>3, <1>9
  <2> QED BY <1>2, <1>9, <2>1, <2>2
<1>10. ASSUME NEW s \in Scans, RunScan(s) PROVE Living /\ Selected /\ Failed
  <2> HIDE DEF Living, Selected, Failed
  <2> QED
    BY <1>5, <1>6, <1>7, <1>9, <1>10 DEF RunScan, Lookup, CacheHit, CacheMiss, Acquire, Answer,
      AnswerLost, Refuse, Raise, TimeOut, Look, Write, Collide
<1>11. Living /\ Selected /\ Failed
  <2> HIDE DEF Living, Selected, Failed
  <2> QED
    BY <1>4, <1>8, <1>9, <1>10
      DEF Next, SessionFails, Crash, StartUp, BootUnreaped, Tick, Purge, vars
<1> QED BY <1>11 DEF InStep

(* A process that starts up while another serves selects none of its       *)
(* living coroutines: either there is one process only, which has no       *)
(* coroutine before it serves, or no scan lasts as long as the reaper      *)
(* waits.  So none is failed under its coroutine, and none that completes  *)
(* has been selected.                                                      *)
LEMMA LifeGoesOn ==
  ASSUME ReaperIsSafe
  PROVE  Spec => [](SparesLiving /\ InStep)
<1>1. Spec => []NoneToSelect
  <2>1. CASE OneProcess
    <3>1. LifeInv => NoneToSelect
      BY <2>1, BootFindsNone DEF NoneToSelect
    <3> QED BY <3>1, CoroutinesFitJobs, PTL
  <2>2. CASE LimitOutlastsScans
    <3>1. Init => PaceInv
      BY DEF Init, PaceInv
    <3>2. LifeInv /\ PaceInv => NoneToSelect
      BY PaceSpares, ScanParametersAssumption DEF NoneToSelect
    <3>3. LifeInv /\ PaceInv /\ [Next]_vars => PaceInv'
      BY <2>2, NextPace, ScanParametersAssumption
    <3> QED BY <3>1, <3>2, <3>3, CoroutinesFitJobs, PTL DEF Spec
  <2> QED BY <2>1, <2>2 DEF ReaperIsSafe
<1>2. Init => SelectedAreDead /\ InStep
  BY DEF Init, SelectedAreDead, InStep
<1>3. LifeInv /\ NoneToSelect /\ SelectedAreDead /\ [Next]_vars => SelectedAreDead'
  BY NextSelected
<1>4. LifeInv /\ SelectedAreDead /\ InStep /\ [Next]_vars => InStep'
  BY NextInStep, ScanParametersAssumption
<1>5. NoneToSelect /\ SelectedAreDead => SparesLiving
  BY DEF SparesLiving
<1> QED BY <1>1, <1>2, <1>3, <1>4, <1>5, CoroutinesFitJobs, PTL DEF Spec

(* The reaper of a process that starts while another serves leaves the     *)
(* scans that are alive there alone, those that end between its select and *)
(* its update included.                                                    *)
THEOREM LivingAreSpared ==
  ASSUME ReaperIsSafe
  PROVE  Spec => []SparesLiving
BY LifeGoesOn, PTL

(* A job is complete exactly when its rows are stored, all of them and in  *)
(* the order of the request.  (Where the reaper is not safe it may fail a  *)
(* job that completed after it was selected: its rows then stay.)          *)
THEOREM JobsAndResults ==
  ASSUME ReaperIsSafe
  PROVE  Spec => [](TypeOK /\ ResultsMatchJob)
<1>1. LifeInv /\ InStep => TypeOK /\ ResultsMatchJob
  <2> SUFFICES ASSUME LifeInv, InStep PROVE TypeOK /\ ResultsMatchJob
    OBVIOUS
  <2>1. ASSUME NEW s \in Scans, rows[s] # <<>>
        PROVE  s \in DOMAIN job /\ job[s].status = "complete" /\ RowsAreWhole(s)
    BY <2>1 DEF LifeInv, RowsFitJobs, InStep
  <2> HIDE DEF Job, Task, Result
  <2> QED BY <2>1 DEF LifeInv, RowsFitJobs, ResultsMatchJob
<1> QED BY <1>1, CoroutinesFitJobs, LifeGoesOn, PTL

-----------------------------------------------------------------------------
(* What a step does to the jobs: it creates one, starts a pending one,     *)
(* completes a running one with its rows, or fails open ones.              *)
Creates(s) ==
  /\ s \in Scans \ DOMAIN job /\ DOMAIN job' = DOMAIN job \cup {s}
  /\ job'[s].status = "pending" /\ job'[s].created = now
  /\ \A x \in DOMAIN job : job'[x] = job[x]
  /\ rows' = rows

Changes(s, from, to) ==
  /\ s \in DOMAIN job /\ DOMAIN job' = DOMAIN job
  /\ job[s].status \in from /\ job'[s].status = to /\ job'[s].created = job[s].created
  /\ \A x \in DOMAIN job : x # s => job'[x] = job[x]

Reaps ==
  /\ DOMAIN job' = DOMAIN job /\ rows' = rows
  /\ \A s \in DOMAIN job :
       \/ job'[s] = job[s]
       \/ job[s].status \in Active /\ job'[s].status = "error" /\ job'[s].created = job[s].created

JobStep ==
  \/ \E s \in Scans : Creates(s)
  \/ \E s \in Scans : Changes(s, {"pending"}, "running") /\ rows' = rows
  \/ \E s \in Scans : Changes(s, Active, "error") /\ rows' = rows
  \/ \E s \in Scans : /\ Changes(s, {"running"}, "complete")
                       /\ rows'[s] \in Seq(Result) \ {<<>>}
                       /\ rows' = [rows EXCEPT ![s] = rows'[s]]
  \/ Reaps

LEMMA NextIsJobStep ==
  ASSUME ScanParameters, LifeInv, LifeInv', InStep, [Next]_vars
  PROVE  JobStep
<1>1. /\ DOMAIN job \subseteq Scans /\ DOMAIN task \subseteq DOMAIN job
      /\ \A s \in DOMAIN job : job[s] \in Job
      /\ job \in [DOMAIN job -> Job] /\ rows \in [Scans -> Seq(Result)]
  BY DEF LifeInv, TypeOK
<1>2. \A s \in DOMAIN task : Fits(task[s], job[s]) /\ job[s].status \in Active
  BY DEF LifeInv, TasksFitJobs, InStep
<1>3. CASE UNCHANGED <<job, rows>>
  BY <1>3 DEF JobStep, Reaps
<1>4. ASSUME NEW i \in Instances, NEW s \in Scans, NEW c \in Certs, NEW r \in Requests,
             Submit(i, s, c, r)
      PROVE  JobStep
  <2>1. Creates(s)
    BY <1>4 DEF Submit, Put, Creates
  <2> QED BY <2>1 DEF JobStep
<1>5. ASSUME NEW s \in Scans, Start(s) PROVE JobStep
  <2>1. s \in DOMAIN task /\ task[s].pc = "start"
    BY <1>5 DEF Start, At
  <2>2. job[s].status = "pending"
    BY <1>2, <2>1 DEF Fits, OpeningSteps
  <2>3. Changes(s, {"pending"}, "running") /\ rows' = rows
    BY <1>1, <1>5, <2>1, <2>2 DEF Start, SetStatus, Changes
  <2> QED BY <2>3 DEF JobStep
<1>6. ASSUME NEW s \in Scans, MarkError(s) PROVE JobStep
  <2>1. s \in DOMAIN task
    BY <1>6 DEF MarkError, At
  <2>2. job[s].status \in Active
    BY <1>2, <2>1
  <2>3. Changes(s, Active, "error") /\ rows' = rows
    BY <1>1, <1>6, <2>1, <2>2 DEF MarkError, SetStatus, Changes
  <2> QED BY <2>3 DEF JobStep
<1>7. ASSUME NEW s \in Scans, Save(s) PROVE JobStep
  <2>1. s \in DOMAIN task /\ task[s].pc = "save"
    BY <1>7 DEF Save, At
  <2>2. job[s].status = "running"
    BY <1>2, <2>1 DEF Fits, OpeningSteps
  <2>3. Changes(s, {"running"}, "complete")
    BY <1>1, <1>7, <2>1, <2>2 DEF Save, Changes
  <2>4. rows' = [rows EXCEPT ![s] = rows'[s]] /\ rows'[s] \in Seq(Result)
    BY <1>1, <1>7 DEF Save, LifeInv, TypeOK
  <2>5. rows'[s] # <<>>
    BY <2>3 DEF LifeInv, RowsFitJobs, Changes
  <2> QED BY <2>3, <2>4, <2>5 DEF JobStep
<1>8. ASSUME NEW i \in Instances, Boot(i) PROVE JobStep
  <2>1. Reap(reaper[i].picked) /\ rows' = rows /\ TypeOK
        /\ \A s \in reaper[i].picked : job[s].status # "complete"
    BY <1>8 DEF Boot, InStep, LifeInv
  <2>2. Reaps
    BY <1>1, <2>1, ReapedJobs DEF Reaps
  <2> QED BY <2>2 DEF JobStep
<1>9. CASE Next
  <2>1. ASSUME NEW s \in Scans, RunScan(s) \/ SessionFails(s) PROVE JobStep
    <3> HIDE DEF Job, Task, Result, Status, Steps
    <3> QED
      BY <2>1, <1>3, <1>5, <1>6, <1>7 DEF RunScan, Lookup, CacheHit, CacheMiss, Acquire, Answer,
        AnswerLost, Refuse, Raise, TimeOut, Look, Write, Collide, SessionFails
  <2>2. ASSUME NEW i \in Instances, Crash(i) \/ StartUp(i) \/ BootUnreaped(i) PROVE JobStep
    BY <2>2, <1>3 DEF Crash, StartUp, BootUnreaped
  <2>3. ASSUME Tick \/ \E c \in Certs : Purge(c) PROVE JobStep
    BY <2>3, <1>3 DEF Tick, Purge
  <2> QED BY <1>4, <1>8, <1>9, <2>1, <2>2, <2>3 DEF Next
<1> QED BY <1>3, <1>9 DEF vars

(* A job that ended stays as it is, for good: no late coroutine and no     *)
(* reaper overwrites what a client was told.                               *)
THEOREM EndedJobsStay ==
  ASSUME ReaperIsSafe
  PROVE  Spec => TerminalIsFinal
<1>1. Spec => [](LifeInv /\ InStep)
  BY CoroutinesFitJobs, LifeGoesOn, PTL
<1>3. LifeInv /\ LifeInv' /\ InStep /\ [Next]_vars =>
        [\A s \in DOMAIN job : job[s].status \in Terminal => job'[s] = job[s]]_vars
  <2> SUFFICES ASSUME LifeInv, LifeInv', InStep, [Next]_vars, NEW s \in DOMAIN job,
                      job[s].status \in Terminal
               PROVE  job'[s] = job[s]
    OBVIOUS
  <2>1. JobStep
    BY NextIsJobStep, ScanParametersAssumption
  <2> HIDE DEF Job, Task, Result
  <2> QED BY <2>1 DEF JobStep, Creates, Changes, Reaps
<1> QED BY <1>1, <1>3, PTL DEF Spec, TerminalIsFinal

-----------------------------------------------------------------------------
(* The scans implement the abstract job: every step of run_scan, of the    *)
(* router and of the reaper is one of ScanJob's, or invisible to clients.  *)
bar == [s \in Scans |-> IF s \in DOMAIN job THEN job[s].status ELSE "none"]

LEMMA JobStepMaps ==
  ASSUME LifeInv, LifeInv', JobStep
  PROVE  [AbstractJob!Next]_<<bar, rows>>
<1> USE DEF bar
<1>1. DOMAIN job \subseteq Scans /\ rows \in [Scans -> Seq(Result)]
  BY DEF LifeInv, TypeOK
<1> HIDE DEF Job, Task, Result
<1>2. ASSUME NEW s \in Scans, Creates(s) PROVE AbstractJob!Submit(s)
  BY <1>1, <1>2 DEF Creates, AbstractJob!Submit
<1>3. ASSUME NEW s \in Scans, Changes(s, {"pending"}, "running"), rows' = rows
      PROVE  AbstractJob!Start(s)
  BY <1>1, <1>3 DEF Changes, AbstractJob!Start
<1>4. ASSUME NEW s \in Scans, Changes(s, Active, "error"), rows' = rows
      PROVE  AbstractJob!Fail({s})
  BY <1>1, <1>4 DEF Changes, AbstractJob!Fail, AbstractJob!Active
<1>5. ASSUME NEW s \in Scans, Changes(s, {"running"}, "complete"),
             rows'[s] \in Seq(Result) \ {<<>>}, rows' = [rows EXCEPT ![s] = rows'[s]]
      PROVE  AbstractJob!Complete(s) /\ bar' # bar
  <2>1. bar[s] = "running" /\ bar'[s] = "complete"
    BY <1>1, <1>5 DEF Changes
  <2> QED BY <1>1, <1>5, <2>1 DEF Changes, AbstractJob!Complete
<1>6. ASSUME Reaps PROVE \E F \in SUBSET Scans : AbstractJob!Fail(F)
  <2> DEFINE F == {s \in DOMAIN job : job'[s] # job[s]}
  <2>1. F \in SUBSET Scans
    BY <1>1
  <2>2. /\ \A s \in F : bar[s] \in Active
        /\ bar' = [s \in Scans |-> IF s \in F THEN "error" ELSE bar[s]]
        /\ rows' = rows
    BY <1>1, <1>6 DEF Reaps
  <2> HIDE DEF F
  <2> QED BY <2>1, <2>2 DEF AbstractJob!Fail, AbstractJob!Active
<1>7. \/ \E s \in Scans : AbstractJob!Submit(s) \/ AbstractJob!Start(s) \/ AbstractJob!Complete(s)
      \/ \E F \in SUBSET Scans : AbstractJob!Fail(F)
  BY <1>2, <1>3, <1>4, <1>5, <1>6 DEF JobStep
<1>8. bar' # bar \/ rows' = rows
  BY <1>5 DEF JobStep, Creates, Reaps
<1> HIDE DEF bar
<1> QED
  <2>1. CASE bar' # bar
    BY <1>7, <2>1 DEF AbstractJob!Next, bar
  <2>2. CASE bar' = bar /\ rows' = rows
    BY <2>2
  <2> QED BY <1>8, <2>1, <2>2

THEOREM ScansImplementJob ==
  ASSUME ReaperIsSafe
  PROVE  Spec => JobView
<1>1. Spec => [](LifeInv /\ InStep)
  BY CoroutinesFitJobs, LifeGoesOn, PTL
<1>3. Init => AbstractJob!Init
  BY DEF Init, AbstractJob!Init
<1>4. LifeInv /\ LifeInv' /\ InStep /\ [Next]_vars => [AbstractJob!Next]_<<bar, rows>>
  BY NextIsJobStep, JobStepMaps, ScanParametersAssumption
<1>5. AbstractJob!jobVars = <<bar, rows>>
  BY DEF AbstractJob!jobVars, bar
<1> QED BY <1>1, <1>3, <1>4, <1>5, PTL DEF Spec, JobView, AbstractJob!Spec, AbstractJob!jobVars, bar

-----------------------------------------------------------------------------
(* After a reap no job older than the reaper's limit is open, ever again.  *)
OrphanInv ==
  /\ NoOldOrphans
  /\ lastReap <= now /\ \A s \in DOMAIN job : job[s].created <= now
  /\ \A i \in DOMAIN reaper :
       /\ reaper[i].at <= now
       /\ \A s \in DOMAIN job \ reaper[i].picked :
            job[s].status \in Active => reaper[i].at <= job[s].created + MaxAge

LEMMA NextOrphans ==
  ASSUME ScanParameters, LifeInv, LifeInv', InStep, OrphanInv, [Next]_vars
  PROVE  OrphanInv'
<1>1. JobStep
  BY NextIsJobStep
<1>2. /\ now \in Nat /\ lastReap \in Nat /\ MaxAge \in Nat /\ TypeOK
      /\ \A s \in DOMAIN job : job[s].created \in Nat
      /\ \A i \in DOMAIN reaper : reaper[i].at \in Nat
  BY <1>1, ParametersAreNat DEF LifeInv, TypeOK
<1>3. now' >= now /\ now' \in Nat
  <2>1. now' = now \/ Tick
    BY DEF Next, RunScan, Submit, Lookup, Start, MarkError, CacheHit, CacheMiss, Acquire,
      Answer, AnswerLost, Refuse, Raise, TimeOut, Look, Write, Collide, Save, SessionFails,
      Crash, StartUp, Boot, BootUnreaped, Purge, vars
  <2> QED BY <1>2, <2>1 DEF Tick
<1>4. lastReap' = lastReap \/ \E i \in Instances : Boot(i)
  BY DEF Next, RunScan, Submit, Lookup, Start, MarkError, CacheHit, CacheMiss, Acquire,
    Answer, AnswerLost, Refuse, Raise, TimeOut, Look, Write, Collide, Save, SessionFails,
    Crash, StartUp, BootUnreaped, Tick, Purge, vars
<1> HIDE DEF Job, Task, Result
<1>a. ASSUME NEW s \in DOMAIN job'
      PROVE  \/ job'[s].created = now
             \/ /\ s \in DOMAIN job /\ job'[s].created = job[s].created
                /\ job'[s].status \in Active => job[s].status \in Active
  BY <1>1 DEF JobStep, Creates, Changes, Reaps, Active
<1>5. \A s \in DOMAIN job' : job'[s].created <= now'
  BY <1>2, <1>3, <1>a DEF OrphanInv
<1>6. ASSUME NEW i \in DOMAIN reaper'
      PROVE  /\ reaper'[i].at <= now'
             /\ \A s \in DOMAIN job' \ reaper'[i].picked :
                  job'[s].status \in Active => reaper'[i].at <= job'[s].created + MaxAge
  <2>1. CASE i \in DOMAIN reaper /\ reaper'[i] = reaper[i]
    <3>1. reaper[i].at \in Nat /\ reaper[i].at <= now
      BY <1>2, <2>1 DEF OrphanInv
    <3>2. ASSUME NEW s \in DOMAIN job' \ reaper[i].picked, job'[s].status \in Active
          PROVE  reaper[i].at <= job'[s].created + MaxAge
      <4>1. CASE job'[s].created = now
        BY <1>2, <3>1, <4>1
      <4>2. CASE /\ s \in DOMAIN job /\ job'[s].created = job[s].created
                 /\ job[s].status \in Active
        BY <2>1, <3>2, <4>2 DEF OrphanInv
      <4> QED BY <1>a, <3>2, <4>1, <4>2
    <3> QED BY <1>2, <1>3, <2>1, <3>1, <3>2
  <2>2. CASE /\ UNCHANGED <<job, now>> /\ reaper'[i].at = now
             /\ reaper'[i].picked = {s \in DOMAIN job : Stale(s)}
    BY <1>2, <2>2 DEF Stale
  <2> QED BY <1>2, <2>1, <2>2, ReapersKeep
<1>7. CASE lastReap' = lastReap
  <2>1. \A s \in DOMAIN job' : job'[s].status \in Active => lastReap <= job'[s].created + MaxAge
    BY <1>2, <1>a DEF OrphanInv, NoOldOrphans
  <2>2. lastReap <= now'
    BY <1>2, <1>3 DEF OrphanInv
  <2> QED BY <1>5, <1>6, <1>7, <2>1, <2>2 DEF OrphanInv, NoOldOrphans
<1>8. ASSUME NEW i \in Instances, Boot(i) PROVE OrphanInv'
  <2>1. /\ Reap(reaper[i].picked) /\ now' = now /\ i \in DOMAIN reaper
        /\ lastReap' = lastReap \/ lastReap' = reaper[i].at
    BY <1>8 DEF Boot
  <2>2. lastReap' <= now'
    BY <1>2, <2>1 DEF OrphanInv
  <2>3. ASSUME NEW s \in DOMAIN job', job'[s].status \in Active
        PROVE  lastReap' <= job'[s].created + MaxAge
    <3>1. /\ s \in DOMAIN job /\ s \notin reaper[i].picked /\ job'[s] = job[s]
      BY <1>2, <2>1, <2>3, ReapedJobs
    <3> QED BY <2>1, <2>3, <3>1 DEF OrphanInv, NoOldOrphans
  <2> QED BY <1>5, <1>6, <2>2, <2>3 DEF OrphanInv, NoOldOrphans
<1> QED BY <1>4, <1>7, <1>8

THEOREM ReapedForGood ==
  ASSUME ReaperIsSafe
  PROVE  Spec => []NoOldOrphans
<1>1. Init => OrphanInv
  BY InitLife, ScanParametersAssumption DEF Init, OrphanInv, NoOldOrphans
<1>2. LifeInv /\ LifeInv' /\ InStep /\ OrphanInv /\ [Next]_vars => OrphanInv'
  BY NextOrphans, ScanParametersAssumption
<1>3. OrphanInv => NoOldOrphans
  BY DEF OrphanInv
<1> QED BY <1>1, <1>2, <1>3, CoroutinesFitJobs, LifeGoesOn, PTL DEF Spec

-----------------------------------------------------------------------------
(* The age of answers.  First the steps that move one coroutine and leave  *)
(* jobs, rows and clock alone.                                             *)
LEMMA MoveKeepsTime ==
  ASSUME LifeInv, TimeInv, NEW s \in DOMAIN task, Moves(s), Timely(task'[s], job[s]),
         UNCHANGED <<job, rows, now>>, cache' = cache \/ CacheIsTimely'
  PROVE  TimeInv'
<1> HIDE DEF Job, Task, Result
<1>1. (\A x \in DOMAIN task : Timely(task[x], job[x]))'
  <2> SUFFICES ASSUME NEW x \in DOMAIN task' PROVE (Timely(task[x], job[x]))'
    OBVIOUS
  <2>1. x \in DOMAIN task /\ Timely(task'[x], job[x])
    BY DEF TimeInv, Moves
  <2> QED BY <2>1 DEF Timely, CurrentFor
<1>2. (\A x \in DOMAIN job : job[x].created <= now)' /\ AnswersAreCurrent'
  BY DEF TimeInv, AnswersAreCurrent
<1>3. CacheIsTimely'
  BY DEF TimeInv, CacheIsTimely
<1> QED BY <1>1, <1>2, <1>3 DEF TimeInv

LEMMA QuietTimely ==
  ASSUME ScanParameters, LifeInv, TimeInv, NEW s \in DOMAIN task, task'[s].acc = task[s].acc,
         task'[s].pc \notin StoringSteps,
         \/ task[s].pc \in {"wait", "query"} /\ task'[s].due = task[s].due
         \/ task'[s].due = now + CorpusTimeout
         \/ task'[s].pc \notin {"wait", "query"} /\ task'[s].due = now + DbLatency
  PROVE  Timely(task'[s], job[s])
<1>1. /\ Timely(task[s], job[s]) /\ now \in Nat /\ job[s].created \in Nat
      /\ job[s].created <= now /\ CorpusTimeout \in Nat /\ DbLatency \in Nat
  BY ParametersAreNat DEF LifeInv, TypeOK, TimeInv
<1>2. now <= now + CorpusTimeout /\ now <= now + DbLatency
      /\ (now + CorpusTimeout) - CorpusTimeout = now
  BY <1>1
<1> HIDE DEF Job, Task, Result
<1> QED BY <1>1, <1>2 DEF Timely, StoringSteps

LEMMA TakeTimely ==
  ASSUME ScanParameters, LifeInv, TimeInv, NEW s \in DOMAIN task, NEW r \in Result,
         NEW l \in {"look", "read", "save"}, Take(s, r, l), CurrentFor(job[s], r),
         l = "look" => now <= r.asked + CorpusTimeout /\ r.status \in {"ok", "skipped"}
  PROVE  Moves(s) /\ Timely(task'[s], job[s])
<1>1. Timely(task[s], job[s]) /\ now \in Nat /\ task[s] \in Task /\ TypeOK
      /\ Patience(l) = DbLatency /\ DbLatency \in Nat /\ CorpusTimeout \in Nat /\ r.asked \in Int
  BY ParametersAreNat DEF LifeInv, TypeOK, TimeInv, Patience
<1>2. /\ Moves(s) /\ task'[s].acc = Append(task[s].acc, r)
      /\ task'[s].pc = l /\ task'[s].due = now + DbLatency
  <2>1. TypeOK /\ l \in Steps
    BY <1>1
  <2> HIDE DEF Task, Job, Result, Steps
  <2> QED BY <1>1, <2>1, TakeMoves
<1>3. /\ Len(task'[s].acc) = Len(task[s].acc) + 1
      /\ task'[s].acc[Len(task'[s].acc)] = r
      /\ \A k \in 1..Len(task[s].acc) : task'[s].acc[k] = task[s].acc[k]
  BY <1>1, <1>2
<1>4. \A k \in 1..Len(task'[s].acc) : CurrentFor(job[s], task'[s].acc[k])
  <2>1. ASSUME NEW k \in 1..Len(task'[s].acc), k # Len(task'[s].acc)
        PROVE  k \in 1..Len(task[s].acc)
    BY <1>1, <1>3, <2>1
  <2> HIDE DEF Task, Result
  <2> QED BY <1>1, <1>3, <2>1 DEF Timely
<1>5. /\ now <= now + DbLatency
      /\ l = "look" => now + DbLatency <= r.asked + CorpusTimeout + DbLatency
  BY <1>1
<1> HIDE DEF Task, Result
<1> QED BY <1>1, <1>2, <1>3, <1>4, <1>5 DEF Timely, StoringSteps

LEMMA RunScanTime ==
  ASSUME ScanParameters, LifeInv, TimeInv, NEW s \in Scans,
         \/ Lookup(s) \/ CacheHit(s) \/ CacheMiss(s) \/ Acquire(s)
         \/ (\E h \in HitCounts : Answer(s, h)) \/ AnswerLost(s) \/ Refuse(s)
         \/ Raise(s) \/ TimeOut(s) \/ Look(s) \/ Write(s) \/ Collide(s)
  PROVE  TimeInv'
<1>1. /\ s \in DOMAIN task /\ task[s] \in Task /\ job[s] \in Job /\ TypeOK /\ now \in Nat
      /\ Timely(task[s], job[s]) /\ job[s].created <= now
      /\ UNCHANGED <<job, rows, now>>
  <2>1. s \in DOMAIN task
    BY DEF Lookup, CacheHit, CacheMiss, Acquire, Answer, AnswerLost, Refuse, Raise, TimeOut,
      Look, Write, Collide, At
  <2>2. UNCHANGED <<job, rows, now>>
    BY DEF Lookup, CacheHit, CacheMiss, Acquire, Answer, AnswerLost, Refuse, Raise, TimeOut,
      Look, Write, Collide
  <2> QED BY <2>1, <2>2 DEF LifeInv, TypeOK, TimeInv
<1>2. CorpusTimeout \in Nat /\ DbLatency \in Nat /\ TTL \in Nat
  BY ParametersAreNat
<1>a. ASSUME NEW l \in {"missing", "start", "fail"}, Goto(s, l), cache' = cache
      PROVE  TimeInv'
  <2>1. Moves(s) /\ task'[s].acc = task[s].acc /\ task'[s].pc = l
        /\ task'[s].due = now + Patience(l)
    BY <1>1, <1>a, GotoMoves
  <2>2. Timely(task'[s], job[s])
    BY <1>1, <1>2, <2>1, <1>a, QuietTimely DEF Patience, StoringSteps
  <2> QED BY <1>1, <1>a, <2>1, <2>2, MoveKeepsTime
<1>b. ASSUME NEW n \in 1..MaxRetries, Attempt(s, n), cache' = cache
      PROVE  TimeInv'
  <2>1. Moves(s) /\ task'[s].acc = task[s].acc /\ task'[s].pc \in {"wait", "query"}
        /\ task'[s].due = now + CorpusTimeout
    BY <1>1, <1>b, AttemptMoves
  <2>2. Timely(task'[s], job[s])
    BY <1>1, <1>2, <2>1, QuietTimely DEF StoringSteps
  <2> QED BY <1>1, <1>b, <2>1, <2>2, MoveKeepsTime
<1>c. ASSUME NEW r \in Result, NEW l \in {"look", "read", "save"}, Take(s, r, l),
             CurrentFor(job[s], r), cache' = cache,
             l = "look" => now <= r.asked + CorpusTimeout /\ r.status \in {"ok", "skipped"}
      PROVE  TimeInv'
  <2>1. Moves(s) /\ Timely(task'[s], job[s])
    BY <1>1, <1>c, TakeTimely
  <2> QED BY <1>1, <1>c, <2>1, MoveKeepsTime
<1>d. ASSUME task[s].pc \in {"wait", "query"}, NEW h \in Nat,
             NEW st \in {"ok", "skipped", "timeout", "error"}, NEW ans \in BOOLEAN
      PROVE  /\ Outcome(s, h, st, ans) \in Result
             /\ CurrentFor(job[s], Outcome(s, h, st, ans))
             /\ now <= Outcome(s, h, st, ans).asked + CorpusTimeout
             /\ Outcome(s, h, st, ans).status = st
  <2>1. Outcome(s, h, st, ans) \in Result
    <3>1. task[s].pc \in WorkingSteps
      BY <1>d DEF WorkingSteps
    <3> HIDE DEF Result
    <3> QED BY Zenon, <1>1, <3>1, OutcomeIsResult
  <2> DEFINE asked == task[s].due - CorpusTimeout
             created == job[s].created
  <2>2. Outcome(s, h, st, ans).asked = asked /\ Outcome(s, h, st, ans).status = st
    BY DEF Outcome
  <2>3. /\ created \in Nat /\ task[s].due \in Nat /\ asked \in Int
        /\ now <= task[s].due /\ created <= asked
    BY <1>1, <1>2, <1>d DEF Timely
  <2>4. now <= asked + CorpusTimeout
    BY <1>1, <1>2, <2>3
  <2> HIDE DEF asked, created
  <2>5. created <= asked + TTL + CorpusTimeout + 2 * DbLatency
    BY ONLY <1>2, <2>3
  <2> HIDE DEF Job, Task, Result
  <2> QED BY <2>1, <2>2, <2>3, <2>4, <2>5 DEF CurrentFor, created
<1>e. ASSUME task[s].pc \in {"wait", "query"}, NEW st \in {"timeout", "error"}, Retry(s, st),
             cache' = cache
      PROVE  TimeInv'
  <2>1. CASE task[s].attempt < MaxRetries
    BY <1>1, <1>b, <1>e, <2>1 DEF Retry
  <2>2. CASE ~(task[s].attempt < MaxRetries)
    <3> DEFINE o == Outcome(s, 0, st, FALSE)
    <3>1. Take(s, o, After(s, Len(task[s].acc) + 1))
      BY <1>e, <2>2 DEF Retry
    <3>2. o \in Result /\ CurrentFor(job[s], o)
      BY <1>d, <1>e
    <3> HIDE DEF o, Result
    <3> QED BY <1>c, <1>e, <3>1, <3>2 DEF After
  <2> QED BY <2>1, <2>2
<1>3. CASE Lookup(s)
  BY <1>3, <1>a DEF Lookup
<1>4. CASE CacheHit(s)
  <2> DEFINE k == CacheKey(s, Current(s))
  <2>1. k \in DOMAIN cache /\ now <= cache[k].at + TTL
        /\ Take(s, cache[k].result, After(s, Len(task[s].acc) + 1)) /\ cache' = cache
    BY <1>4 DEF CacheHit, Fresh
  <2>2. /\ cache[k].result \in Result /\ cache[k].at \in Nat
        /\ cache[k].at <= cache[k].result.asked + CorpusTimeout + 2 * DbLatency
        /\ cache[k].result.status \in {"ok", "skipped"}
    BY <1>1, <2>1 DEF TypeOK, TimeInv, CacheIsTimely
  <2>3. CurrentFor(job[s], cache[k].result)
    <3>1. cache[k].result.asked \in Int /\ job[s].created \in Nat
      BY <1>1, <2>2
    <3> HIDE DEF k, Job, Task, Result
    <3>2. job[s].created <= cache[k].result.asked + TTL + CorpusTimeout + 2 * DbLatency
      <4>1. /\ job[s].created <= now /\ now <= cache[k].at + TTL
            /\ cache[k].at <= cache[k].result.asked + CorpusTimeout + 2 * DbLatency
            /\ now \in Nat /\ cache[k].at \in Nat
        BY <1>1, <2>1, <2>2
      <4> QED BY <1>2, <3>1, <4>1
    <3> QED BY <2>2, <3>2 DEF CurrentFor
  <2> QED BY <1>c, <2>1, <2>2, <2>3 DEF After
<1>5. CASE CacheMiss(s)
  BY <1>5, <1>b DEF CacheMiss
<1>6. CASE Acquire(s)
  <2>1. Moves(s) /\ task'[s].acc = task[s].acc /\ task'[s].pc = "query"
        /\ task'[s].due = task[s].due /\ task[s].pc = "wait"
    BY <1>1, <1>6 DEF Acquire, At, Moves, TypeOK
  <2>2. Timely(task'[s], job[s])
    BY <1>1, <2>1, QuietTimely DEF StoringSteps
  <2> QED BY <1>1, <1>6, <2>1, <2>2, MoveKeepsTime DEF Acquire
<1>7. CASE \E h \in HitCounts : Answer(s, h)
  <2>1. PICK h \in HitCounts : Answer(s, h)
    BY <1>7
  <2>2. h \in Nat /\ task[s].pc = "query"
    BY <2>1 DEF ScanParameters, Answer, At
  <2> QED BY <1>c, <1>d, <2>1, <2>2 DEF Answer
<1>8. CASE AnswerLost(s)
  BY <1>8, <1>c, <1>d DEF AnswerLost, At
<1>9. CASE Refuse(s)
  BY <1>9, <1>c, <1>d DEF Refuse, At
<1>10. CASE Raise(s)
  BY <1>10, <1>e DEF Raise, At
<1>11. CASE TimeOut(s)
  BY <1>11, <1>e DEF TimeOut, At
<1>12. CASE Look(s)
  <2> DEFINE b == CacheKey(s, Newest(s).corpus) \in DOMAIN cache
  <2>1. task[s].pc = "look" /\ cache' = cache
        /\ task' = [task EXCEPT ![s].pc = "write", ![s].due = now + DbLatency, ![s].seen = b]
    BY <1>12 DEF Look, At
  <2>2. b \in BOOLEAN /\ now + DbLatency \in Nat
    BY <1>1, <1>2
  <2> HIDE DEF b
  <2>3. Moves(s) /\ task'[s].acc = task[s].acc /\ task'[s].pc = "write"
        /\ task'[s].due = now + DbLatency
    BY <1>1, <2>1, <2>2 DEF Moves, TypeOK
  <2>4. task[s].acc[Len(task[s].acc)].asked \in Int
    <3>1. task[s].acc # <<>>
      BY <1>1, <2>1 DEF LifeInv, TasksFitJobs, Fits, StoringSteps
    <3> QED BY <1>1, <3>1, LastResult
  <2>5. Timely(task'[s], job[s])
    <3>1. task[s].due \in Nat /\ Len(task'[s].acc) = Len(task[s].acc)
      BY <1>1, <2>3
    <3> HIDE DEF Job, Task, Result
    <3>2. /\ now <= task[s].due
          /\ task[s].due <= task[s].acc[Len(task[s].acc)].asked + CorpusTimeout + DbLatency
          /\ task[s].acc[Len(task[s].acc)].status \in {"ok", "skipped"}
      BY <1>1, <2>1 DEF Timely, StoringSteps
    <3>3. now + DbLatency <= task[s].acc[Len(task[s].acc)].asked + CorpusTimeout + 2 * DbLatency
          /\ now <= now + DbLatency
      <4> DEFINE asked == task[s].acc[Len(task[s].acc)].asked
      <4>1. /\ now <= task[s].due /\ task[s].due <= asked + CorpusTimeout + DbLatency
            /\ now \in Nat /\ task[s].due \in Nat /\ asked \in Int
        BY <1>1, <2>4, <3>1, <3>2
      <4> HIDE DEF asked
      <4>2. /\ now + DbLatency <= asked + CorpusTimeout + 2 * DbLatency
            /\ now <= now + DbLatency
        BY ONLY <1>2, <4>1
      <4> QED BY <4>2 DEF asked
    <3> QED BY <1>1, <2>3, <3>2, <3>3 DEF Timely
  <2> QED BY <1>1, <2>1, <2>3, <2>5, MoveKeepsTime
<1>13. CASE Write(s)
  <2> DEFINE k == CacheKey(s, Newest(s).corpus)
             e == [result |-> Newest(s), at |-> now]
             l == After(s, Len(task[s].acc))
  <2>1. task[s].pc = "write" /\ cache' = Put(cache, k, e) /\ Goto(s, l)
    BY <1>13 DEF Write, At
  <2>2. Moves(s) /\ task'[s].acc = task[s].acc /\ task'[s].pc = l
        /\ task'[s].due = now + Patience(l)
    BY <1>1, <2>1, GotoMoves DEF After
  <2>3. Timely(task'[s], job[s])
    BY <1>1, <1>2, <2>2, QuietTimely DEF Patience, After, StoringSteps
  <2>4. task[s].acc[Len(task[s].acc)].asked \in Int
    <3>1. task[s].acc # <<>>
      BY <1>1, <2>1 DEF LifeInv, TasksFitJobs, Fits, StoringSteps
    <3> QED BY <1>1, <3>1, LastResult
  <2>5. e.at <= e.result.asked + CorpusTimeout + 2 * DbLatency /\ e.result.status \in {"ok", "skipped"}
    BY <1>1, <1>2, <2>1, <2>4 DEF Timely, StoringSteps, Newest, Last
  <2> HIDE DEF e, k
  <2>6. CacheIsTimely'
    BY <2>1, <2>5 DEF Put, TimeInv, CacheIsTimely
  <2> QED BY <1>1, <2>2, <2>3, <2>6, MoveKeepsTime
<1>14. CASE Collide(s)
  BY <1>14, <1>a DEF Collide
<1> QED
  BY <1>3, <1>4, <1>5, <1>6, <1>7, <1>8, <1>9, <1>10, <1>11, <1>12, <1>13, <1>14

(* Steps that change jobs keep created, and leave only coroutines that     *)
(* were timely before; those that publish rows publish timely ones.        *)
LEMMA JobsKeepTime ==
  ASSUME LifeInv, TimeInv, cache' = cache, now' = now,
         DOMAIN task' \subseteq DOMAIN task, \A x \in DOMAIN task' : task'[x] = task[x],
         DOMAIN job' = DOMAIN job, \A x \in DOMAIN job : job'[x].created = job[x].created,
         \A x \in DOMAIN job : \A k \in DOMAIN rows'[x] : CurrentFor(job[x], rows'[x][k])
  PROVE  TimeInv'
<1> HIDE DEF Job, Task, Result
<1>1. DOMAIN task \subseteq DOMAIN job
  BY DEF LifeInv, TypeOK
<1>2. (\A x \in DOMAIN task : Timely(task[x], job[x]))'
  <2> SUFFICES ASSUME NEW x \in DOMAIN task' PROVE (Timely(task[x], job[x]))'
    OBVIOUS
  <2>1. Timely(task[x], job[x]) /\ job'[x].created = job[x].created
    BY <1>1 DEF TimeInv
  <2> QED BY <2>1 DEF Timely, CurrentFor
<1>3. (\A x \in DOMAIN job : job[x].created <= now)' /\ AnswersAreCurrent'
  BY DEF TimeInv, AnswersAreCurrent, CurrentFor
<1>4. CacheIsTimely'
  BY DEF TimeInv, CacheIsTimely
<1> QED BY <1>2, <1>3, <1>4 DEF TimeInv

LEMMA NextTime ==
  ASSUME ScanParameters, LifeInv, LifeInv', TimeInv, [Next]_vars
  PROVE  TimeInv'
<1>1. /\ TypeOK /\ now \in Nat /\ DbLatency \in Nat /\ TTL \in Nat
      /\ task \in [DOMAIN task -> Task] /\ job \in [DOMAIN job -> Job]
      /\ DOMAIN task \subseteq DOMAIN job /\ DOMAIN job \subseteq Scans
      /\ rows \in [Scans -> Seq(Result)]
  BY ParametersAreNat DEF LifeInv, TypeOK
<1>2. \A x \in DOMAIN job : \A k \in DOMAIN rows[x] : CurrentFor(job[x], rows[x][k])
  BY DEF TimeInv, AnswersAreCurrent, CurrentFor
<1>3. ASSUME NEW s \in Scans, Start(s) PROVE TimeInv'
  <2> DEFINE l == IF Range(job[s].corpora) \subseteq Corpora THEN "read" ELSE "fail"
  <2>1. /\ s \in DOMAIN task /\ Goto(s, l) /\ job' = [job EXCEPT ![s].status = "running"]
        /\ UNCHANGED <<rows, cache, now>>
    BY <1>3 DEF Start, At, SetStatus
  <2>2. Moves(s) /\ task'[s].acc = task[s].acc /\ task'[s].pc = l
        /\ task'[s].due = now + DbLatency
    BY <1>1, <2>1, GotoMoves DEF Patience
  <2>3. Timely(task'[s], job[s])
    BY <1>1, <2>1, <2>2, QuietTimely DEF StoringSteps
  <2>4. DOMAIN job' = DOMAIN job /\ \A x \in DOMAIN job : job'[x].created = job[x].created
    BY <1>1, <2>1
  <2> HIDE DEF Job, Task, Result
  <2>5. (\A x \in DOMAIN task : Timely(task[x], job[x]))'
    <3> SUFFICES ASSUME NEW x \in DOMAIN task' PROVE (Timely(task[x], job[x]))'
      OBVIOUS
    <3>1. Timely(task'[x], job[x]) /\ job'[x].created = job[x].created
      BY <1>1, <2>2, <2>3, <2>4 DEF TimeInv, Moves
    <3> QED BY <2>1, <3>1 DEF Timely, CurrentFor
  <2>6. (\A x \in DOMAIN job : job[x].created <= now)' /\ AnswersAreCurrent' /\ CacheIsTimely'
    BY <2>1, <2>4 DEF TimeInv, AnswersAreCurrent, CacheIsTimely
  <2> QED BY <2>5, <2>6 DEF TimeInv
<1>4. ASSUME NEW s \in Scans, MarkError(s) PROVE TimeInv'
  <2>1. /\ s \in DOMAIN task /\ End(s) /\ job' = [job EXCEPT ![s].status = "error"]
        /\ UNCHANGED <<rows, cache, now>>
    BY <1>4 DEF MarkError, At, SetStatus
  <2>2. DOMAIN job' = DOMAIN job /\ \A x \in DOMAIN job : job'[x].created = job[x].created
    BY <1>1, <2>1
  <2>3. DOMAIN task' \subseteq DOMAIN task /\ \A x \in DOMAIN task' : task'[x] = task[x]
    BY <1>1, <2>1, EndFunction
  <2> HIDE DEF Job, Task, Result
  <2> QED BY <1>2, <2>1, <2>2, <2>3, JobsKeepTime
<1>5. ASSUME NEW s \in Scans, Save(s) PROVE TimeInv'
  <2>1. /\ s \in DOMAIN task /\ End(s) /\ UNCHANGED <<cache, now>>
        /\ job' = [job EXCEPT ![s].status = "complete", ![s].hits = task[s].total]
        /\ rows' = [rows EXCEPT ![s] = task[s].acc]
    BY <1>5 DEF Save, At
  <2>2. DOMAIN job' = DOMAIN job /\ \A x \in DOMAIN job : job'[x].created = job[x].created
    BY <1>1, <2>1
  <2>3. DOMAIN task' \subseteq DOMAIN task /\ \A x \in DOMAIN task' : task'[x] = task[x]
    BY <1>1, <2>1, EndFunction
  <2>4. DOMAIN task[s].acc = 1..Len(task[s].acc) /\ Timely(task[s], job[s])
    BY <1>1, <2>1 DEF TimeInv
  <2> HIDE DEF Job, Task, Result
  <2>5. \A x \in DOMAIN job : \A k \in DOMAIN rows'[x] : CurrentFor(job[x], rows'[x][k])
    BY <1>1, <1>2, <2>1, <2>4 DEF Timely
  <2> QED BY <2>1, <2>2, <2>3, <2>5, JobsKeepTime
<1>6. ASSUME NEW i \in Instances, NEW s \in Scans, NEW c \in Certs, NEW r \in Requests,
             Submit(i, s, c, r)
      PROVE  TimeInv'
  <2>1. /\ DOMAIN job' = DOMAIN job \cup {s} /\ s \notin DOMAIN job
        /\ job'[s].created = now /\ \A x \in DOMAIN job : job'[x] = job[x]
        /\ DOMAIN task' = DOMAIN task \cup {s} /\ task'[s].acc = <<>>
        /\ task'[s].pc = "lookup" /\ task'[s].due = now + DbLatency
        /\ \A x \in DOMAIN task : task'[x] = task[x]
        /\ UNCHANGED <<rows, cache, now>>
    BY <1>1, <1>6 DEF Submit, Put
  <2>2. rows'[s] = <<>>
    BY <2>1 DEF LifeInv, RowsFitJobs
  <2>3. (\A x \in DOMAIN task : Timely(task[x], job[x]))'
    <3> SUFFICES ASSUME NEW x \in DOMAIN task' PROVE (Timely(task[x], job[x]))'
      OBVIOUS
    <3>1. CASE x = s
      BY <1>1, <2>1, <3>1 DEF Timely, StoringSteps
    <3>2. CASE x # s
      <4> HIDE DEF Job, Task, Result
      <4>1. x \in DOMAIN task /\ task'[x] = task[x] /\ job'[x] = job[x] /\ Timely(task[x], job[x])
        BY <1>1, <2>1, <3>2 DEF TimeInv
      <4> QED BY <2>1, <4>1 DEF Timely, CurrentFor
    <3> QED BY <3>1, <3>2
  <2>4. (\A x \in DOMAIN job : job[x].created <= now)' /\ AnswersAreCurrent'
    <3>1. DOMAIN rows'[s] = {}
      BY <2>2
    <3> HIDE DEF Job, Task, Result
    <3> QED BY <1>1, <2>1, <3>1 DEF TimeInv, AnswersAreCurrent
  <2>5. CacheIsTimely'
    BY <2>1 DEF TimeInv, CacheIsTimely
  <2> QED BY <2>3, <2>4, <2>5 DEF TimeInv
<1>7. ASSUME NEW s \in Scans, SessionFails(s) PROVE TimeInv'
  <2>1. s \in DOMAIN task /\ UNCHANGED <<job, rows, cache, now>>
    BY <1>7 DEF SessionFails
  <2>2. CASE Goto(s, "fail")
    <3>1. Moves(s) /\ task'[s].acc = task[s].acc /\ task'[s].pc = "fail"
          /\ task'[s].due = now + DbLatency
      BY <1>1, <2>1, <2>2, GotoMoves DEF Patience
    <3>2. Timely(task'[s], job[s])
      BY <1>1, <2>1, <3>1, QuietTimely DEF StoringSteps
    <3> QED BY <2>1, <3>1, <3>2, MoveKeepsTime
  <2>3. CASE End(s)
    <3>1. DOMAIN task' \subseteq DOMAIN task /\ \A x \in DOMAIN task' : task'[x] = task[x]
      BY <1>1, <2>1, <2>3, EndFunction
    <3> HIDE DEF Job, Task, Result
    <3> QED BY <1>2, <2>1, <3>1, JobsKeepTime
  <2> QED BY <1>7, <2>2, <2>3 DEF SessionFails
<1>8. ASSUME NEW i \in Instances, Crash(i) PROVE TimeInv'
  <2>1. UNCHANGED <<job, rows, cache, now>>
        /\ DOMAIN task' \subseteq DOMAIN task /\ \A x \in DOMAIN task' : task'[x] = task[x]
    BY <1>8 DEF Crash, Restrict
  <2> HIDE DEF Job, Task, Result
  <2> QED BY <1>2, <2>1, JobsKeepTime
<1>9. ASSUME NEW i \in Instances, Boot(i) PROVE TimeInv'
  <2>1. UNCHANGED <<rows, cache, task, now>> /\ Reap(reaper[i].picked)
    BY <1>9 DEF Boot
  <2>2. DOMAIN job' = DOMAIN job /\ \A x \in DOMAIN job : job'[x].created = job[x].created
    BY <1>1, <2>1, ReapedJobs
  <2> HIDE DEF Job, Task, Result
  <2> QED BY <1>2, <2>1, <2>2, JobsKeepTime
<1>10. CASE Tick
  <2>1. UNCHANGED <<job, rows, cache, task>> /\ now' = now + 1
        /\ \A x \in DOMAIN task : now < task[x].due
    BY <1>10 DEF Tick
  <2>2. (\A x \in DOMAIN task : Timely(task[x], job[x]))'
    <3> SUFFICES ASSUME NEW x \in DOMAIN task PROVE (Timely(task[x], job[x]))'
      BY <2>1
    <3>1. task[x].due \in Nat /\ Timely(task[x], job[x])
      BY <1>1 DEF TimeInv
    <3> HIDE DEF Job, Task, Result
    <3> QED BY <1>1, <2>1, <3>1 DEF Timely, CurrentFor
  <2>3. (\A x \in DOMAIN job : job[x].created <= now)'
    <3>1. \A x \in DOMAIN job : job[x].created \in Nat
      BY <1>1
    <3> QED BY <1>1, <2>1, <3>1 DEF TimeInv
  <2>4. AnswersAreCurrent' /\ CacheIsTimely'
    BY <2>1 DEF TimeInv, AnswersAreCurrent, CacheIsTimely
  <2> QED BY <2>2, <2>3, <2>4 DEF TimeInv
<1>11. CASE UNCHANGED <<job, rows, cache, task, now>>
  <2> HIDE DEF Job, Task, Result
  <2> QED BY <1>2, <1>11, JobsKeepTime
<1>12. ASSUME NEW s \in Scans, RunScan(s) PROVE TimeInv'
  BY <1>12, <1>3, <1>4, <1>5, RunScanTime DEF RunScan
<1> QED
  BY <1>6, <1>7, <1>8, <1>9, <1>10, <1>11, <1>12
    DEF Next, StartUp, BootUnreaped, Purge, vars

(* Whatever a finished scan reports comes from an attempt that began at    *)
(* most CACHE_TTL before the scan was requested, give or take the attempt  *)
(* itself and the two sessions that stored its result; a timeout or an     *)
(* error it reports is its own.                                            *)
THEOREM ReportsAreCurrent == Spec => []AnswersAreCurrent
<1>1. Init => TimeInv
  BY DEF Init, TimeInv, CacheIsTimely, AnswersAreCurrent
<1>2. LifeInv /\ LifeInv' /\ TimeInv /\ [Next]_vars => TimeInv'
  BY NextTime, ScanParametersAssumption
<1>3. TimeInv => AnswersAreCurrent
  BY DEF TimeInv
<1> QED BY <1>1, <1>2, <1>3, CoroutinesFitJobs, PTL DEF Spec

-----------------------------------------------------------------------------
(* The hits of a scan, summed up one result after the other.               *)
LEMMA SumOfNone == SumOfHits(<<>>, 0)
<1> DEFINE total == [k \in 0..0 |-> 0]
<1>1. Len(<<>>) = 0
  OBVIOUS
<1>2. total \in [0..0 -> 0..0] /\ total[0] = 0
  OBVIOUS
<1> HIDE DEF total
<1>3. \A k \in 1..0 : total[k] = total[k - 1] + <<>>[k].hits
  OBVIOUS
<1> QED BY ONLY <1>1, <1>2, <1>3 DEF SumOfHits

LEMMA SumGrows ==
  ASSUME NEW acc \in Seq(Result), NEW n \in Nat, SumOfHits(acc, n), NEW r \in Result
  PROVE  SumOfHits(Append(acc, r), n + r.hits)
<1> DEFINE results == Append(acc, r)
           m == n + r.hits
           l == Len(acc)
<1>1. r.hits \in Nat /\ l \in Nat /\ m \in Nat /\ n <= m
  BY DEF Result
<1>2. PICK total \in [0..l -> 0..n] :
        /\ total[0] = 0 /\ total[l] = n
        /\ \A k \in 1..l : total[k] = total[k - 1] + acc[k].hits
  BY DEF SumOfHits
<1>3. /\ Len(results) = l + 1 /\ results[l + 1] = r
      /\ \A k \in 1..l : results[k] = acc[k]
  <2> HIDE DEF Result
  <2> QED OBVIOUS
<1> DEFINE sum == [k \in 0..(l + 1) |-> IF k = l + 1 THEN m ELSE total[k]]
<1> HIDE DEF results, m, l, Result
<1>4. sum \in [0..(l + 1) -> 0..m]
  <2> SUFFICES ASSUME NEW k \in 0..(l + 1) PROVE sum[k] \in 0..m
    OBVIOUS
  <2>1. CASE k = l + 1
    BY <1>1, <2>1
  <2>2. CASE k # l + 1
    <3>1. k \in 0..l /\ total[k] \in 0..n
      BY <1>1, <2>2
    <3>2. total[k] \in 0..m
      BY <1>1, <3>1
    <3> QED BY <2>2, <3>2
  <2> QED BY <2>1, <2>2
<1>5. sum[0] = 0 /\ sum[l + 1] = m
  BY <1>1, <1>2
<1>6. ASSUME NEW k \in 1..(l + 1) PROVE sum[k] = sum[k - 1] + results[k].hits
  <2>1. CASE k = l + 1
    <3>1. k - 1 = l /\ sum[k] = m /\ sum[k - 1] = total[l]
      BY <1>1, <2>1
    <3> QED BY <1>2, <1>3, <2>1, <3>1 DEF m
  <2>2. CASE k # l + 1
    <3>1. k \in 1..l /\ k - 1 \in 0..(l + 1) /\ k - 1 # l + 1
      BY <1>1, <2>2
    <3>2. sum[k] = total[k] /\ sum[k - 1] = total[k - 1]
      BY <2>2, <3>1
    <3> QED BY <1>2, <1>3, <3>1, <3>2
  <2> QED BY <2>1, <2>2
<1> HIDE DEF sum
<1>7. SumOfHits(results, m)
  BY <1>3, <1>4, <1>5, <1>6 DEF SumOfHits
<1> QED BY <1>7 DEF results, m

LEMMA MoveKeepsTotals ==
  ASSUME LifeInv, TotalsInv, NEW s \in DOMAIN task, Moves(s),
         SumOfHits(task'[s].acc, task'[s].total), UNCHANGED <<job, rows>>
  PROVE  TotalsInv'
<1> HIDE DEF Job, Task, Result
<1>1. (\A x \in DOMAIN task : SumOfHits(task[x].acc, task[x].total))'
  <2> SUFFICES ASSUME NEW x \in DOMAIN task'
               PROVE  (SumOfHits(task[x].acc, task[x].total))'
    OBVIOUS
  <2>1. SumOfHits(task'[x].acc, task'[x].total)
    BY DEF TotalsInv, Moves
  <2> QED BY <2>1 DEF SumOfHits
<1>2. \A x \in DOMAIN job' : SumOfHits(rows'[x], job'[x].hits)
  BY DEF TotalsInv, HitCountIsSum
<1>3. HitCountIsSum'
  BY <1>2 DEF HitCountIsSum, SumOfHits
<1> QED BY <1>1, <1>3 DEF TotalsInv

(* Steps that end coroutines keep the totals of the others.                *)
LEMMA JobsKeepTotals ==
  ASSUME TotalsInv, DOMAIN task' \subseteq DOMAIN task,
         \A x \in DOMAIN task' : task'[x] = task[x],
         \A x \in DOMAIN job' : SumOfHits(rows'[x], job'[x].hits)
  PROVE  TotalsInv'
<1> HIDE DEF Job, Task, Result
<1>1. (\A x \in DOMAIN task : SumOfHits(task[x].acc, task[x].total))'
  <2> SUFFICES ASSUME NEW x \in DOMAIN task'
               PROVE  (SumOfHits(task[x].acc, task[x].total))'
    OBVIOUS
  <2>1. SumOfHits(task'[x].acc, task'[x].total)
    BY DEF TotalsInv
  <2> QED BY <2>1 DEF SumOfHits
<1>2. HitCountIsSum'
  BY DEF HitCountIsSum, SumOfHits
<1> QED BY <1>1, <1>2 DEF TotalsInv

LEMMA RunScanTotals ==
  ASSUME ScanParameters, LifeInv, TotalsInv, NEW s \in Scans,
         \/ Lookup(s) \/ CacheHit(s) \/ CacheMiss(s) \/ Acquire(s)
         \/ (\E h \in HitCounts : Answer(s, h)) \/ AnswerLost(s) \/ Refuse(s)
         \/ Raise(s) \/ TimeOut(s) \/ Look(s) \/ Write(s) \/ Collide(s)
  PROVE  TotalsInv'
<1>1. /\ s \in DOMAIN task /\ task[s] \in Task /\ TypeOK /\ now \in Nat
      /\ UNCHANGED <<job, rows>>
  <2>1. s \in DOMAIN task
    BY DEF Lookup, CacheHit, CacheMiss, Acquire, Answer, AnswerLost, Refuse, Raise, TimeOut,
      Look, Write, Collide, At
  <2>2. UNCHANGED <<job, rows>>
    BY DEF Lookup, CacheHit, CacheMiss, Acquire, Answer, AnswerLost, Refuse, Raise, TimeOut,
      Look, Write, Collide
  <2> QED BY <2>1, <2>2 DEF LifeInv, TypeOK
<1>2. SumOfHits(task[s].acc, task[s].total) /\ now + DbLatency \in Nat
  BY <1>1, ParametersAreNat DEF TotalsInv
<1>a. ASSUME NEW l \in Steps, Goto(s, l)
      PROVE  TotalsInv'
  <2>1. Moves(s) /\ task'[s].acc = task[s].acc /\ task'[s].total = task[s].total
    BY <1>1, <1>a, GotoMoves
  <2> QED BY <1>1, <1>2, <2>1, MoveKeepsTotals
<1>b. ASSUME NEW n \in 1..MaxRetries, Attempt(s, n)
      PROVE  TotalsInv'
  <2>1. Moves(s) /\ task'[s].acc = task[s].acc /\ task'[s].total = task[s].total
    BY <1>1, <1>b, AttemptMoves
  <2> QED BY <1>1, <1>2, <2>1, MoveKeepsTotals
<1>c. ASSUME NEW r \in Result, NEW l \in Steps, Take(s, r, l)
      PROVE  TotalsInv'
  <2>1. Moves(s) /\ task'[s].acc = Append(task[s].acc, r)
        /\ task'[s].total = task[s].total + r.hits
    <3> HIDE DEF Job, Task, Result, Steps
    <3> QED BY <1>1, <1>c, TakeMoves
  <2>2. task[s].acc \in Seq(Result) /\ task[s].total \in Nat
    BY <1>1
  <2> HIDE DEF Job, Task, Result, Steps
  <2>3. SumOfHits(task'[s].acc, task'[s].total)
    BY <1>2, <1>c, <2>1, <2>2, SumGrows
  <2> QED BY <1>1, <2>1, <2>3, MoveKeepsTotals
<1>d. ASSUME task[s].pc \in {"wait", "query"}, NEW h \in Nat,
             NEW st \in {"ok", "skipped", "timeout", "error"}, NEW ans \in BOOLEAN,
             NEW l \in Steps, Take(s, Outcome(s, h, st, ans), l)
      PROVE  TotalsInv'
  <2>1. Outcome(s, h, st, ans) \in Result
    <3>1. task[s].pc \in WorkingSteps
      BY <1>d DEF WorkingSteps
    <3> HIDE DEF Result
    <3> QED BY Zenon, <1>1, <1>d, <3>1, OutcomeIsResult
  <2> HIDE DEF Job, Task, Result, Steps
  <2> QED BY <1>c, <1>d, <2>1
<1>e. ASSUME task[s].pc \in {"wait", "query"}, NEW st \in {"timeout", "error"}, Retry(s, st)
      PROVE  TotalsInv'
  <2>1. CASE task[s].attempt < MaxRetries
    BY <1>1, <1>b, <1>e, <2>1 DEF Retry
  <2>2. CASE ~(task[s].attempt < MaxRetries)
    BY <1>d, <1>e, <2>2 DEF Retry, After
  <2> QED BY <2>1, <2>2
<1>3. CASE Lookup(s)
  BY <1>3, <1>a DEF Lookup
<1>4. CASE CacheHit(s)
  <2> DEFINE k == CacheKey(s, Current(s))
  <2>1. k \in DOMAIN cache /\ Take(s, cache[k].result, After(s, Len(task[s].acc) + 1))
    BY <1>4 DEF CacheHit, Fresh
  <2>2. cache[k].result \in Result /\ After(s, Len(task[s].acc) + 1) \in Steps
    BY <1>1, <2>1 DEF TypeOK, After
  <2> HIDE DEF k, Result, Steps
  <2> QED BY <1>c, <2>1, <2>2
<1>5. CASE CacheMiss(s)
  BY <1>5, <1>b DEF CacheMiss
<1>6. CASE Acquire(s)
  <2>1. Moves(s) /\ task'[s].acc = task[s].acc /\ task'[s].total = task[s].total
    BY <1>1, <1>6 DEF Acquire, Moves, TypeOK
  <2> QED BY <1>1, <1>2, <2>1, MoveKeepsTotals
<1>7. CASE \E h \in HitCounts : Answer(s, h)
  BY <1>7, <1>d DEF ScanParameters, Answer, At
<1>8. CASE AnswerLost(s)
  BY <1>8, <1>d DEF AnswerLost, At
<1>9. CASE Refuse(s)
  BY <1>9, <1>d DEF Refuse, At
<1>10. CASE Raise(s)
  BY <1>10, <1>e DEF Raise, At
<1>11. CASE TimeOut(s)
  BY <1>11, <1>e DEF TimeOut, At
<1>12. CASE Look(s)
  <2> DEFINE b == CacheKey(s, Newest(s).corpus) \in DOMAIN cache
  <2>1. b \in BOOLEAN
        /\ task' = [task EXCEPT ![s].pc = "write", ![s].due = now + DbLatency, ![s].seen = b]
    BY <1>12 DEF Look
  <2> HIDE DEF b
  <2>2. Moves(s) /\ task'[s].acc = task[s].acc /\ task'[s].total = task[s].total
    BY <1>1, <1>2, <2>1 DEF Moves, TypeOK
  <2> QED BY <1>1, <1>2, <2>2, MoveKeepsTotals
<1>13. CASE Write(s)
  BY <1>13, <1>a DEF Write, After
<1>14. CASE Collide(s)
  BY <1>14, <1>a DEF Collide
<1> QED
  BY <1>3, <1>4, <1>5, <1>6, <1>7, <1>8, <1>9, <1>10, <1>11, <1>12, <1>13, <1>14

LEMMA NextTotals ==
  ASSUME ScanParameters, LifeInv, TotalsInv, [Next]_vars
  PROVE  TotalsInv'
<1>1. /\ TypeOK /\ now \in Nat
      /\ task \in [DOMAIN task -> Task] /\ job \in [DOMAIN job -> Job]
      /\ DOMAIN task \subseteq DOMAIN job /\ DOMAIN job \subseteq Scans
      /\ rows \in [Scans -> Seq(Result)]
  BY DEF LifeInv, TypeOK
<1>2. \A x \in DOMAIN job : SumOfHits(rows[x], job[x].hits)
  BY DEF TotalsInv, HitCountIsSum
<1>3. ASSUME NEW s \in Scans, Start(s) PROVE TotalsInv'
  <2> DEFINE l == IF Range(job[s].corpora) \subseteq Corpora THEN "read" ELSE "fail"
  <2>1. /\ s \in DOMAIN task /\ Goto(s, l) /\ l \in Steps
        /\ job' = [job EXCEPT ![s].status = "running"] /\ rows' = rows
    BY <1>3 DEF Start, At, SetStatus
  <2> HIDE DEF l
  <2>2. Moves(s) /\ task'[s].acc = task[s].acc /\ task'[s].total = task[s].total
    BY <1>1, <2>1, GotoMoves
  <2>3. DOMAIN job' = DOMAIN job /\ \A x \in DOMAIN job : job'[x].hits = job[x].hits
    BY <1>1, <2>1
  <2> HIDE DEF Job, Task, Result, Steps
  <2>4. (\A x \in DOMAIN task : SumOfHits(task[x].acc, task[x].total))'
    <3> SUFFICES ASSUME NEW x \in DOMAIN task'
                 PROVE  (SumOfHits(task[x].acc, task[x].total))'
      OBVIOUS
    <3>1. SumOfHits(task'[x].acc, task'[x].total)
      BY <2>2 DEF TotalsInv, Moves
    <3> QED BY <3>1 DEF SumOfHits
  <2>5. \A x \in DOMAIN job' : SumOfHits(rows'[x], job'[x].hits)
    BY <1>2, <2>1, <2>3
  <2>6. HitCountIsSum'
    BY <2>5 DEF HitCountIsSum, SumOfHits
  <2> QED BY <2>4, <2>6 DEF TotalsInv
<1>4. ASSUME NEW s \in Scans, MarkError(s) PROVE TotalsInv'
  <2>1. /\ s \in DOMAIN task /\ End(s) /\ job' = [job EXCEPT ![s].status = "error"]
        /\ rows' = rows
    BY <1>4 DEF MarkError, At, SetStatus
  <2>2. DOMAIN job' = DOMAIN job /\ \A x \in DOMAIN job : job'[x].hits = job[x].hits
    BY <1>1, <2>1
  <2>3. DOMAIN task' \subseteq DOMAIN task /\ \A x \in DOMAIN task' : task'[x] = task[x]
    BY <1>1, <2>1, EndFunction
  <2> HIDE DEF Job, Task, Result
  <2> QED BY <1>2, <2>1, <2>2, <2>3, JobsKeepTotals
<1>5. ASSUME NEW s \in Scans, Save(s) PROVE TotalsInv'
  <2>1. /\ s \in DOMAIN task /\ End(s)
        /\ job' = [job EXCEPT ![s].status = "complete", ![s].hits = task[s].total]
        /\ rows' = [rows EXCEPT ![s] = task[s].acc]
    BY <1>5 DEF Save, At
  <2>2. /\ DOMAIN job' = DOMAIN job /\ job'[s].hits = task[s].total
        /\ \A x \in DOMAIN job : x # s => job'[x].hits = job[x].hits
    BY <1>1, <2>1
  <2>3. DOMAIN task' \subseteq DOMAIN task /\ \A x \in DOMAIN task' : task'[x] = task[x]
    BY <1>1, <2>1, EndFunction
  <2>4. rows'[s] = task[s].acc /\ \A x \in DOMAIN job : x # s => rows'[x] = rows[x]
    BY <1>1, <2>1
  <2>5. SumOfHits(task[s].acc, task[s].total)
    BY <2>1 DEF TotalsInv
  <2> HIDE DEF Job, Task, Result
  <2>6. \A x \in DOMAIN job' : SumOfHits(rows'[x], job'[x].hits)
    BY <1>2, <2>2, <2>4, <2>5
  <2> QED BY <2>3, <2>6, JobsKeepTotals
<1>6. ASSUME NEW i \in Instances, NEW s \in Scans, NEW c \in Certs, NEW r \in Requests,
             Submit(i, s, c, r)
      PROVE  TotalsInv'
  <2>1. /\ DOMAIN job' = DOMAIN job \cup {s} /\ s \notin DOMAIN job
        /\ job'[s].hits = 0 /\ \A x \in DOMAIN job : job'[x] = job[x]
        /\ DOMAIN task' = DOMAIN task \cup {s} /\ task'[s].acc = <<>> /\ task'[s].total = 0
        /\ \A x \in DOMAIN task : task'[x] = task[x]
        /\ rows' = rows
    BY <1>1, <1>6 DEF Submit, Put
  <2>2. rows'[s] = <<>>
    BY <2>1 DEF LifeInv, RowsFitJobs
  <2> HIDE DEF Job, Task, Result
  <2>3. (\A x \in DOMAIN task : SumOfHits(task[x].acc, task[x].total))'
    <3> SUFFICES ASSUME NEW x \in DOMAIN task'
                 PROVE  (SumOfHits(task[x].acc, task[x].total))'
      OBVIOUS
    <3>1. SumOfHits(task'[x].acc, task'[x].total)
      BY <1>1, <2>1, SumOfNone DEF TotalsInv
    <3> QED BY <3>1 DEF SumOfHits
  <2>4. \A x \in DOMAIN job' : SumOfHits(rows'[x], job'[x].hits)
    BY <1>2, <2>1, <2>2, SumOfNone
  <2>5. HitCountIsSum'
    BY <2>4 DEF HitCountIsSum, SumOfHits
  <2> QED BY <2>3, <2>5 DEF TotalsInv
<1>7. ASSUME NEW s \in Scans, SessionFails(s) PROVE TotalsInv'
  <2>1. s \in DOMAIN task /\ UNCHANGED <<job, rows>>
    BY <1>7 DEF SessionFails
  <2>2. CASE Goto(s, "fail")
    <3>1. Moves(s) /\ task'[s].acc = task[s].acc /\ task'[s].total = task[s].total
      BY <1>1, <2>1, <2>2, GotoMoves
    <3> HIDE DEF Job, Task, Result, Steps
    <3>2. SumOfHits(task[s].acc, task[s].total)
      BY <2>1 DEF TotalsInv
    <3> QED BY <2>1, <3>1, <3>2, MoveKeepsTotals
  <2>3. CASE End(s)
    <3>1. DOMAIN task' \subseteq DOMAIN task /\ \A x \in DOMAIN task' : task'[x] = task[x]
      BY <1>1, <2>1, <2>3, EndFunction
    <3> HIDE DEF Job, Task, Result
    <3> QED BY <1>2, <2>1, <3>1, JobsKeepTotals
  <2> QED BY <1>7, <2>2, <2>3 DEF SessionFails
<1>8. ASSUME NEW i \in Instances, Crash(i) PROVE TotalsInv'
  <2>1. UNCHANGED <<job, rows>>
        /\ DOMAIN task' \subseteq DOMAIN task /\ \A x \in DOMAIN task' : task'[x] = task[x]
    BY <1>8 DEF Crash, Restrict
  <2> HIDE DEF Job, Task, Result
  <2> QED BY <1>2, <2>1, JobsKeepTotals
<1>9. ASSUME NEW i \in Instances, Boot(i) PROVE TotalsInv'
  <2>1. UNCHANGED <<rows, task>> /\ Reap(reaper[i].picked)
    BY <1>9 DEF Boot
  <2>2. DOMAIN job' = DOMAIN job /\ \A x \in DOMAIN job : job'[x].hits = job[x].hits
    BY <1>1, <2>1, ReapedJobs
  <2> HIDE DEF Job, Task, Result
  <2> QED BY <1>2, <2>1, <2>2, JobsKeepTotals
<1>10. CASE UNCHANGED <<job, rows, task>>
  <2> HIDE DEF Job, Task, Result
  <2> QED BY <1>2, <1>10, JobsKeepTotals
<1>11. ASSUME NEW s \in Scans, RunScan(s) PROVE TotalsInv'
  BY <1>11, <1>3, <1>4, <1>5, RunScanTotals DEF RunScan
<1> QED
  BY <1>6, <1>7, <1>8, <1>9, <1>10, <1>11
    DEF Next, StartUp, BootUnreaped, Tick, Purge, vars

(* The hit count of a job is the sum over its stored rows, and 0 as long   *)
(* as it has none, whatever the cache, the retries and the failures gave.  *)
THEOREM HitsAddUp == Spec => []HitCountIsSum
<1>1. Init => TotalsInv
  BY DEF Init, TotalsInv, HitCountIsSum
<1>2. LifeInv /\ TotalsInv /\ [Next]_vars => TotalsInv'
  BY NextTotals, ScanParametersAssumption
<1>3. TotalsInv => HitCountIsSum
  BY DEF TotalsInv
<1> QED BY <1>1, <1>2, <1>3, CoroutinesFitJobs, PTL DEF Spec

-----------------------------------------------------------------------------
(* What stays, with any number of processes and however long scans last.   *)

(* The rows of a scan, once stored, never change again.                    *)
RowsAreFinal == [][\A s \in Scans : rows[s] # <<>> => rows'[s] = rows[s]]_vars

(* Without a coroutine nothing touches the rows of a job, nor the job,     *)
(* unless a reaper has selected it.                                        *)
LEMMA NextKeepsEnded ==
  ASSUME LifeInv, [Next]_vars, NEW s \in Scans \ DOMAIN task
  PROVE  /\ s \in DOMAIN job => rows'[s] = rows[s]
         /\ s \in DOMAIN job /\ (\A i \in DOMAIN reaper : s \notin reaper[i].picked)
              => job'[s] = job[s]
<1> SUFFICES ASSUME s \in DOMAIN job
             PROVE  /\ rows'[s] = rows[s]
                    /\ (\A i \in DOMAIN reaper : s \notin reaper[i].picked) => job'[s] = job[s]
  OBVIOUS
<1>1. /\ job \in [DOMAIN job -> Job] /\ DOMAIN job \subseteq Scans /\ TypeOK
      /\ rows \in [Scans -> Seq(Result)] /\ s \in Scans
  BY DEF LifeInv, TypeOK
<1> HIDE DEF Job, Task, Result
<1>3. CASE UNCHANGED <<job, rows>>
  BY <1>3
<1>4. ASSUME NEW x \in Scans, RunScan(x)
      PROVE  job'[s] = job[s] /\ rows'[s] = rows[s]
  <2>1. CASE Start(x) \/ MarkError(x) \/ Save(x)
    <3>1. x # s
      BY <2>1 DEF Start, MarkError, Save, At
    <3> QED BY <1>1, <2>1, <3>1 DEF Start, MarkError, Save, SetStatus
  <2> QED
    BY <1>3, <1>4, <2>1 DEF RunScan, Lookup, CacheHit, CacheMiss, Acquire, Answer,
      AnswerLost, Refuse, Raise, TimeOut, Look, Write, Collide
<1>5. ASSUME NEW i \in Instances, Boot(i)
      PROVE  /\ rows' = rows
             /\ (\A y \in DOMAIN reaper : s \notin reaper[y].picked) => job'[s] = job[s]
  <2>1. i \in DOMAIN reaper /\ Reap(reaper[i].picked) /\ rows' = rows
    BY <1>5 DEF Boot
  <2> QED BY <1>1, <2>1, ReapedJobs
<1>6. ASSUME NEW i \in Instances, NEW x \in Scans, NEW c \in Certs, NEW r \in Requests,
             Submit(i, x, c, r)
      PROVE  job'[s] = job[s] /\ rows'[s] = rows[s]
  BY <1>6 DEF Submit, Put
<1> QED
  BY <1>3, <1>4, <1>5, <1>6
    DEF Next, SessionFails, Crash, StartUp, BootUnreaped, Tick, Purge, vars

(* What a finished scan reports stays: no coroutine is left that could     *)
(* overwrite it, and a reaper, even one that fails the job of a coroutine  *)
(* that lives, or a job that completed after it was selected, leaves the   *)
(* rows alone.                                                             *)
THEOREM StoredRowsStay == Spec => RowsAreFinal
<1>1. LifeInv /\ [Next]_vars => [\A s \in Scans : rows[s] # <<>> => rows'[s] = rows[s]]_vars
  <2> SUFFICES ASSUME LifeInv, [Next]_vars, NEW s \in Scans, rows[s] # <<>>
               PROVE  rows'[s] = rows[s]
    OBVIOUS
  <2>1. s \in DOMAIN job \ DOMAIN task
    BY DEF LifeInv, RowsFitJobs
  <2> QED BY <2>1, NextKeepsEnded
<1> QED BY <1>1, CoroutinesFitJobs, PTL DEF Spec, RowsAreFinal

(* No step takes a job away or changes when it was requested.              *)
LEMMA JobsKeepCreated ==
  ASSUME TypeOK, [Next]_vars, NEW s \in DOMAIN job
  PROVE  s \in DOMAIN job' /\ job'[s].created = job[s].created
<1>1. job \in [DOMAIN job -> Job]
  BY DEF TypeOK
<1>2. CASE job' = job
  BY <1>2
<1>3. ASSUME NEW i \in Instances, NEW x \in Scans, NEW c \in Certs, NEW r \in Requests,
             Submit(i, x, c, r)
      PROVE  s \in DOMAIN job' /\ job'[s].created = job[s].created
  BY <1>3 DEF Submit, Put
<1>4. ASSUME NEW x \in Scans, Start(x) \/ MarkError(x)
      PROVE  s \in DOMAIN job' /\ job'[s].created = job[s].created
  <2>1. PICK st \in Status : job' = [job EXCEPT ![x].status = st]
    BY <1>4 DEF Start, MarkError, SetStatus
  <2> QED BY <1>1, <2>1
<1>5. ASSUME NEW x \in Scans, Save(x)
      PROVE  s \in DOMAIN job' /\ job'[s].created = job[s].created
  BY <1>1, <1>5 DEF Save
<1>6. ASSUME NEW i \in Instances, Boot(i)
      PROVE  s \in DOMAIN job' /\ job'[s].created = job[s].created
  <2>1. Reap(reaper[i].picked)
    BY <1>6 DEF Boot
  <2> QED BY <2>1, ReapedJobs
<1> HIDE DEF Job, Task, Result, Steps, Status
<1>7. ASSUME NEW x \in Scans, RunScan(x)
      PROVE  s \in DOMAIN job' /\ job'[s].created = job[s].created
  BY <1>2, <1>4, <1>5, <1>7 DEF RunScan, Lookup, CacheHit, CacheMiss, Acquire, Answer,
    AnswerLost, Refuse, Raise, TimeOut, Look, Write, Collide
<1> QED
  BY <1>2, <1>3, <1>6, <1>7
    DEF Next, SessionFails, Crash, StartUp, BootUnreaped, Tick, Purge, vars

LEMMA NextReaped ==
  ASSUME ScanParameters, LifeInv, ReapInv, [Next]_vars
  PROVE  ReapInv'
<1>1. /\ DOMAIN task \subseteq DOMAIN job /\ now \in Nat /\ MaxAge \in Nat /\ TypeOK
      /\ \A s \in DOMAIN job : job[s] \in Job /\ job[s].created \in Nat
      /\ job \in [DOMAIN job -> Job]
      /\ \A i \in DOMAIN reaper : reaper[i].picked \subseteq DOMAIN job
  BY ParametersAreNat DEF LifeInv, TypeOK
<1>2. now' \in Nat /\ now <= now'
  <2>1. now' = now \/ Tick
    BY DEF Next, RunScan, Submit, Lookup, Start, MarkError, CacheHit, CacheMiss, Acquire,
      Answer, AnswerLost, Refuse, Raise, TimeOut, Look, Write, Collide, Save, SessionFails,
      Crash, StartUp, Boot, BootUnreaped, Purge, vars
  <2> QED BY <1>1, <2>1 DEF Tick
(* What was past the limit stays past it.                                  *)
<1>a. ASSUME NEW s \in DOMAIN job, job[s].created + MaxAge < now
      PROVE  job'[s].created + MaxAge < now'
  <2>1. job'[s].created = job[s].created
    BY <1>1, JobsKeepCreated
  <2>2. job[s].created \in Nat
    BY <1>1
  <2> HIDE DEF Job, Task, Result
  <2> QED BY <1>1, <1>2, <1>a, <2>1, <2>2
<1> HIDE DEF Job, Task, Result, Steps, Status
<1>b. (\A i \in DOMAIN reaper : \A s \in reaper[i].picked : job[s].created + MaxAge < now)'
  <2> SUFFICES ASSUME NEW i \in DOMAIN reaper', NEW s \in reaper'[i].picked
               PROVE  job'[s].created + MaxAge < now'
    OBVIOUS
  <2>1. CASE i \in DOMAIN reaper /\ reaper'[i] = reaper[i]
    BY <1>1, <1>a, <2>1 DEF ReapInv
  <2>2. CASE reaper'[i].picked = {x \in DOMAIN job : Stale(x)}
    BY <1>a, <2>2 DEF Stale
  <2> QED BY <1>1, <2>1, <2>2, ReapersKeep
(* A living coroutine's job is as it was, open, or past the limit.         *)
<1>3. ASSUME NEW s \in DOMAIN task'
      PROVE  \/ job'[s].status \in Active
             \/ s \in DOMAIN task /\ job'[s] = job[s]
             \/ s \in DOMAIN job /\ job[s].created + MaxAge < now
  <2> DEFINE Good == \/ job'[s].status \in Active
                     \/ s \in DOMAIN task /\ job'[s] = job[s]
                     \/ s \in DOMAIN job /\ job[s].created + MaxAge < now
  <2>1. s \in DOMAIN task \/ s \notin DOMAIN job
    BY TasksAreNew
  <2>2. s \in DOMAIN job'
    BY NextLife DEF LifeInv, TypeOK
  <2>3. ASSUME NEW i \in Instances, NEW x \in Scans, NEW c \in Certs, NEW r \in Requests,
               Submit(i, x, c, r)
        PROVE  Good
    <3>1. /\ job'[x].status = "pending" /\ DOMAIN job' = DOMAIN job \cup {x}
          /\ \A y \in DOMAIN job : job'[y] = job[y]
      BY <2>3 DEF Submit, Put
    <3> QED BY <2>1, <2>2, <3>1
  <2>4. ASSUME NEW x \in Scans, Start(x) PROVE Good
    <3>1. job' = [job EXCEPT ![x].status = "running"] /\ x \in DOMAIN task
      BY <2>4 DEF Start, At, SetStatus
    <3>2. /\ DOMAIN job' = DOMAIN job /\ job'[x].status = "running"
          /\ \A y \in DOMAIN job : y # x => job'[y] = job[y]
      BY <1>1, <3>1 DEF Job
    <3> QED BY <2>1, <2>2, <3>2
  <2>5. ASSUME NEW x \in Scans, MarkError(x) \/ Save(x) PROVE Good
    <3>1. /\ DOMAIN task' = DOMAIN task \ {x}
          /\ \/ job' = [job EXCEPT ![x].status = "error"]
             \/ job' = [job EXCEPT ![x].status = "complete", ![x].hits = task[x].total]
      BY <2>5 DEF MarkError, Save, SetStatus, End, Restrict
    <3>2. \A y \in DOMAIN job : y # x => job'[y] = job[y]
      BY <1>1, <3>1
    <3> QED BY <1>1, <3>1, <3>2
  <2>6. ASSUME NEW i \in Instances, Boot(i) PROVE Good
    <3>1. i \in DOMAIN reaper /\ task' = task /\ Reap(reaper[i].picked)
      BY <2>6 DEF Boot
    <3>2. s \in DOMAIN job /\ (s \notin reaper[i].picked => job'[s] = job[s])
      BY <1>1, <3>1, ReapedJobs
    <3>3. s \in reaper[i].picked => job[s].created + MaxAge < now
      BY <3>1 DEF ReapInv
    <3> HIDE DEF Job, Task, Result
    <3> QED BY <3>1, <3>2, <3>3
  <2>7. ASSUME job' = job PROVE Good
    BY <2>1, <2>2, <2>7
  <2> HIDE DEF Good
  <2>8. ASSUME NEW x \in Scans, RunScan(x) PROVE Good
    BY <2>4, <2>5, <2>7, <2>8 DEF RunScan, Lookup, CacheHit, CacheMiss, Acquire, Answer,
      AnswerLost, Refuse, Raise, TimeOut, Look, Write, Collide
  <2>9. Good
    BY <2>3, <2>6, <2>7, <2>8
      DEF Next, SessionFails, Crash, StartUp, BootUnreaped, Tick, Purge, vars
  <2> QED BY <2>9 DEF Good
<1>4. (\A s \in DOMAIN task : job[s].status \in Active \/ job[s].created + MaxAge < now)'
  <2> SUFFICES ASSUME NEW s \in DOMAIN task'
               PROVE  job'[s].status \in Active \/ job'[s].created + MaxAge < now'
    OBVIOUS
  <2>1. CASE s \in DOMAIN task /\ job'[s] = job[s]
    <3>1. s \in DOMAIN job
      BY <1>1, <2>1
    <3>2. job[s].status \in Active \/ job[s].created + MaxAge < now
      BY <2>1 DEF ReapInv
    <3> QED BY <1>a, <2>1, <3>1, <3>2
  <2> QED BY <1>3, <1>a, <2>1
<1> QED BY <1>b, <1>4 DEF ReapInv

(* What a client was told of a job that ended holds as long as the job is  *)
(* no older than STALE_SCAN_MAX_AGE.  Past that a reaper may fail it under *)
(* its coroutine, or fail what completed after it was selected: that is    *)
(* all the harm two processes and a slow scan can do.                      *)
THEOREM EndsHold == Spec => EndsHoldUntilStale
<1>1. Init => ReapInv
  BY DEF Init, ReapInv
<1>2. LifeInv /\ ReapInv /\ [Next]_vars => ReapInv'
  BY NextReaped, ScanParametersAssumption
<1>3. LifeInv /\ ReapInv /\ [Next]_vars =>
        [\A s \in DOMAIN job :
           job[s].status \in Terminal /\ now <= job[s].created + MaxAge => job'[s] = job[s]]_vars
  <2> SUFFICES ASSUME LifeInv, ReapInv, [Next]_vars, NEW s \in DOMAIN job,
                      job[s].status \in Terminal, now <= job[s].created + MaxAge
               PROVE  job'[s] = job[s]
    OBVIOUS
  <2>1. job[s].created \in Nat /\ MaxAge \in Nat /\ now \in Nat /\ DOMAIN job \subseteq Scans
    BY ParametersAreNat, ScanParametersAssumption DEF LifeInv, TypeOK
  <2>2. ~(job[s].created + MaxAge < now)
    BY <2>1
  <2>3. s \notin DOMAIN task /\ \A i \in DOMAIN reaper : s \notin reaper[i].picked
    BY <2>2 DEF ReapInv
  <2> QED BY <2>1, <2>3, NextKeepsEnded
<1> QED BY <1>1, <1>2, <1>3, CoroutinesFitJobs, PTL DEF Spec, EndsHoldUntilStale

-----------------------------------------------------------------------------
(* Who fails a job: nobody but a failed session or a crash leaves one      *)
(* without a coroutine before it ended.  That needs neither ReaperIsSafe   *)
(* nor the rest of the invariant.                                          *)
StuckInv ==
  /\ DOMAIN task \subseteq DOMAIN job
  /\ \A s \in DOMAIN job : "status" \in DOMAIN job[s]
  /\ faults \in Nat /\ crashes \in Nat
  /\ faults = 0 /\ crashes = 0 => NoneLeftStuck

(* A step that ends no coroutine, or only one whose job has now ended.     *)
LEMMA EndsAccountedFor ==
  ASSUME StuckInv, DOMAIN job' = DOMAIN job,
         DOMAIN task' \subseteq DOMAIN task,
         \A s \in DOMAIN task \ DOMAIN task' : job'[s].status \in Terminal,
         \A s \in DOMAIN job :
           /\ "status" \in DOMAIN job'[s]
           /\ job[s].status \in Terminal => job'[s].status \in Terminal,
         faults' = faults, crashes' = crashes
  PROVE  StuckInv'
BY DEF StuckInv, NoneLeftStuck

LEMMA RunScanEnds ==
  ASSUME StuckInv, NEW s \in Scans, RunScan(s)
  PROVE  StuckInv'
<1> USE DEF At
<1>1. CASE MarkError(s)
  <2>1. /\ s \in DOMAIN task /\ End(s) /\ job' = [job EXCEPT ![s].status = "error"]
        /\ UNCHANGED <<faults, crashes>>
    BY <1>1 DEF MarkError, SetStatus
  <2>2. DOMAIN task' = DOMAIN task \ {s}
    BY <2>1 DEF End, Restrict
  <2>3. DOMAIN job' = DOMAIN job /\ job'[s].status = "error"
        /\ \A x \in DOMAIN job : "status" \in DOMAIN job'[x] /\ (x # s => job'[x] = job[x])
    BY <2>1 DEF StuckInv
  <2> QED BY <2>1, <2>2, <2>3, EndsAccountedFor
<1>2. CASE Save(s)
  <2>1. /\ s \in DOMAIN task /\ End(s) /\ UNCHANGED <<faults, crashes>>
        /\ job' = [job EXCEPT ![s].status = "complete", ![s].hits = task[s].total]
    BY <1>2 DEF Save
  <2>2. DOMAIN task' = DOMAIN task \ {s}
    BY <2>1 DEF End, Restrict
  <2>3. DOMAIN job' = DOMAIN job /\ job'[s].status = "complete"
        /\ \A x \in DOMAIN job : "status" \in DOMAIN job'[x] /\ (x # s => job'[x] = job[x])
    BY <2>1 DEF StuckInv
  <2> QED BY <2>1, <2>2, <2>3, EndsAccountedFor
<1>3. CASE Start(s)
  <2>1. /\ s \in DOMAIN task /\ DOMAIN task' = DOMAIN task
        /\ job' = [job EXCEPT ![s].status = "running"] /\ UNCHANGED <<faults, crashes>>
    BY <1>3 DEF Start, SetStatus, Goto
  <2>2. DOMAIN job' = DOMAIN job
        /\ \A x \in DOMAIN job : "status" \in DOMAIN job'[x] /\ (x # s => job'[x] = job[x])
    BY <2>1 DEF StuckInv
  <2> QED BY <2>1, <2>2 DEF StuckInv, NoneLeftStuck
<1>4. CASE /\ DOMAIN task' = DOMAIN task /\ UNCHANGED <<job, faults, crashes>>
  BY <1>4 DEF StuckInv, NoneLeftStuck
<1>5. ASSUME NEW st, Retry(s, st) PROVE DOMAIN task' = DOMAIN task
  BY <1>5 DEF Retry, Attempt, Take
<1> QED
  BY <1>1, <1>2, <1>3, <1>4, <1>5 DEF RunScan, Lookup, CacheHit, CacheMiss, Acquire, Answer,
    AnswerLost, Refuse, Raise, TimeOut, Look, Write, Collide, Goto, Take, Attempt

LEMMA NextEnds ==
  ASSUME StuckInv, [Next]_vars
  PROVE  StuckInv'
<1>1. ASSUME NEW i \in Instances, NEW s \in Scans, NEW c \in Certs, NEW r \in Requests,
             Submit(i, s, c, r)
      PROVE  StuckInv'
  <2>1. /\ DOMAIN job' = DOMAIN job \cup {s} /\ s \notin DOMAIN job
        /\ "status" \in DOMAIN job'[s] /\ \A x \in DOMAIN job : job'[x] = job[x]
        /\ DOMAIN task' = DOMAIN task \cup {s}
        /\ UNCHANGED <<faults, crashes>>
    BY <1>1 DEF Submit, Put
  <2> QED BY <2>1 DEF StuckInv, NoneLeftStuck
<1>2. ASSUME NEW s \in Scans, SessionFails(s) PROVE StuckInv'
  <2>1. /\ DOMAIN task' \subseteq DOMAIN task /\ UNCHANGED <<job, crashes>>
        /\ faults' \in Nat /\ faults' # 0
    BY <1>2 DEF SessionFails, Goto, End, Restrict, StuckInv
  <2> QED BY <2>1 DEF StuckInv
<1>3. ASSUME NEW i \in Instances, Crash(i) PROVE StuckInv'
  <2>1. /\ DOMAIN task' \subseteq DOMAIN task /\ UNCHANGED <<job, faults>>
        /\ crashes' \in Nat /\ crashes' # 0
    BY <1>3 DEF Crash, Restrict, StuckInv
  <2> QED BY <2>1 DEF StuckInv
<1>4. ASSUME NEW i \in Instances, Boot(i) PROVE StuckInv'
  <2>1. Reap(reaper[i].picked) /\ UNCHANGED <<task, faults, crashes>>
    BY <1>4 DEF Boot
  <2>2. /\ DOMAIN job' = DOMAIN job
        /\ \A x \in DOMAIN job : "status" \in DOMAIN job'[x]
        /\ \A x \in DOMAIN job : job[x].status \in Terminal => job'[x].status \in Terminal
    BY <2>1 DEF Reap, StuckInv
  <2> QED BY <2>1, <2>2, EndsAccountedFor
<1>5. ASSUME NEW i \in Instances, BootUnreaped(i) PROVE StuckInv'
  <2>1. UNCHANGED <<job, task, crashes>> /\ faults' \in Nat /\ faults' # 0
    BY <1>5 DEF BootUnreaped, StuckInv
  <2> QED BY <2>1 DEF StuckInv
<1>6. CASE UNCHANGED <<job, task, faults, crashes>>
  BY <1>6 DEF StuckInv, NoneLeftStuck
<1> QED
  BY <1>1, <1>2, <1>3, <1>4, <1>5, <1>6, RunScanEnds DEF Next, StartUp, Tick, Purge, vars

(* As long as no session fails and no process crashes, run_scan ends only  *)
(* once its job is complete or failed, with any number of processes and    *)
(* however long the scans last.                                            *)
THEOREM EndsWithItsJob ==
  Spec => [](faults = 0 /\ crashes = 0 => NoneLeftStuck)
<1>1. Init => StuckInv
  BY DEF Init, StuckInv, NoneLeftStuck
<1>2. StuckInv /\ [Next]_vars => StuckInv'
  BY NextEnds
<1>3. StuckInv => (faults = 0 /\ crashes = 0 => NoneLeftStuck)
  BY DEF StuckInv
<1> QED BY <1>1, <1>2, <1>3, PTL DEF Spec
=============================================================================
