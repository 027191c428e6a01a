# A TLA+ model of inkprint-backend

inkprint certifies the authorship of a text: it signs a manifest, archives the
text, keeps fingerprints of it, compares other texts with them, scans public
corpora for copies, and signs *dossiers* that rest on certificates. This
directory models the parts of the service (`src/src/inkprint/`) in which the
order of things matters, checks them with TLC on small instances, and proves
the most important results with TLAPS for every value of the constants.

Paths below are relative to `src/src/inkprint/` unless they say otherwise.

## 1. The system

The service is one asyncio process (FastAPI, uvicorn) over a SQL database, with
an object store (Cloudflare R2), an embedding provider, three corpora and
"bastion", which publishes the key that signs visitors' tokens. During a deploy
two processes overlap. All database work is a `session_scope()` block, one
transaction each (`core/db.py:63`); between two blocks, and at every `await`
inside one, the event loop may run any other request.

| component | state it keeps | operations | talks to |
|---|---|---|---|
| leak-scan jobs: `services/leak_service.py`, `repositories/leak_repo.py`, `leak/scanner.py` | tables `leak_scan_jobs`, `leak_scans`, `leak_scan_cache`; one coroutine per scan; a semaphore per process | `create_scan`, `run_scan`, `_scan_corpus_cached`, `put_cached_result`, `save_results`, `reap_stale_jobs` | corpus clients, certificates, progress channels |
| progress streams: `leak_service.py:50-75`, `api/routers/leak.py` | `_progress_channels` in process memory, one queue per stream | `publish_progress`, `progress_subscription`, the SSE generator | scan jobs |
| dossier envelopes: `services/envelope_service.py`, `repositories/envelope_repo.py` | table `dossier_envelopes`, never updated | `create_envelope` | certificates |
| rate limiter: `platform/rate_limit.py` | a deque per caller and path in process memory | the middleware | platform token |
| certificate issuance: `services/certificate_service.py`, `batch_service.py` | table `certificates` | `create_certificate`, `create_batch` | R2, embedding provider |
| R2 and its health: `core/r2.py`, `core/storage_health.py` | objects in R2; `_last_ok` in process memory | `upload_text`, `probe_storage`, `_recorded` | issuance, `/health` |
| signing keys: `core/keys.py`, `main.py:37` | configured, or a pair per process | `_load_keys` | issuance, verification, `/download` |
| verification, diff, search, download: `batch_service.py`, `certificate_service.py`, `fingerprint/compare.py`, `repositories/certificate_repo.py` | none | `verify_certificate`, `verify_batch`, `diff_certificate`, `search_certificates`, `download_certificate` | certificates, embedding provider |
| trusted keys: `platform/trusted_keys.py`, `platform_token.py` | `_url_cache`, `_url_lock` in process memory | `resolve`, the middleware | bastion, token claims |
| token claims: `platform/token_verifier.py`, `public_routes.py` | none | `verify_platform_token`, `is_public` | |
| fingerprints, canonicalization, manifests, `/health`, logging, evaluation harness, migrations | none that changes | see `PROJECT.json` | |

What is hard here, and what makes each component correct:

* **Scans** outlive the request that started them, may be cut off between any
  two sessions, run beside each other on one cache and one semaphore, and are
  reaped by another process, which selects what is old and fails it a moment
  later. A job must end, end once, and its rows must be all there or not at all;
  what it reports from the cache must be current.
* **Streams** join a scan at any moment, possibly in another process, while the
  events of that scan are published between their awaits. Nothing later than
  the snapshot may be missed, nothing told may be untrue, and a stream must close.
* **Envelopes** are looked up, signed and inserted in separate sessions. A
  dossier must have one signature, whatever is submitted together or again.
* **The limiter** must hold within every window, wherever it starts, and must
  not make one visitor pay for another.
* **Issuance** uploads in threads before it inserts in one transaction: stored
  keys must name objects, rows must carry their own vectors, answers must be
  durable, and a failure of R2 or of the provider must not fail a request.
* **Reads of certificates** compare what was stored under one key, by one
  process, with or without an embedding, with what is computed under another:
  the ways to verify must agree with each other, and with search and diff.
* **Keys** are cached past their rotation, failures too: rotation must take hold
  in bounded time, requests must neither fetch in a herd nor wait one by one, and
  a token must be good when it is judged, not when its request began to wait.

## 2. The modules

| module | models | checked by | proved in |
|---|---|---|---|
| `ScanJob` | what a client may see of a job (abstract) | `scan_shared` (as `JobView`) | `LeakScanProofs` |
| `LeakScan` | the job, its coroutine, cache, reaper, processes | `scan_*` | `LeakScanProofs` |
| `LeakScanInvariant` | the inductive invariants of `LeakScan`, and how long a scan may last | `scan_shared` | `LeakScanProofs` |
| `ScanStream` | channels and streams over the jobs of `ScanJob` | `stream` | `ScanStreamProofs` |
| `DossierRegistry` | what the endpoint promises (abstract) | `dossier` (as `OneSignature`) | `DossierProofs` |
| `Dossier` | the handler, under concurrent and repeated submissions | `dossier`, `dossier_together` | `DossierProofs` |
| `RateLimit` | the sliding window and caller identities | `rate` | `RateLimitProofs` |
| `Certificates` | issuance under the process's signing key, R2 threads, health | `cert`, `cert_outage` | `CertificatesProofs` |
| `Fingerprints` | the verdict, the overlap, the scanner's score and threshold | `cert` | `CertificatesProofs` |
| `CertificateReads` | verification by manifest, by id and offline, diff, search: operators on the state of `Certificates` | `cert`, `cert_outage` | `CertificatesProofs` |
| `TokenClaims` | the token verifier: operators on a token, the keys and the time | `keys` | `AccessProofs` |
| `PublicRoutes` | the table of public routes and the routes it must leave out | | `AccessProofs` |
| `TrustedKeys` | the middleware over both issuers' keys, bastion's fetched under a lock | `keys` | `TrustedKeysProofs` |
| `MC*` | small instances for TLC | | |

`LeakScan` implements `ScanJob` and `ScanStream` is built over an `INSTANCE` of
`ScanJob`: that is how the two halves of `leak_service.py` compose without
multiplying their states. `Dossier` implements `DossierRegistry`. `TrustedKeys`
runs the verifier of `TokenClaims` at the moment a request holds its keys, and
`CertificateReads` evaluates every read in every state of `Certificates`.

**State and steps.** A database table is a function on the ids stored so far
and survives a crash; what lives in a process is a separate variable that a
crash empties. A `session_scope()` block is one step. Where the code looks and
then inserts (`put_cached_result`, `create_envelope`), look and insert are two
steps, since two transactions may both look first; the primary key then lets
one of them commit. So are the select and the update of `reap_stale_jobs`
(`StartUp`, `Boot`): it updates what it selected whatever has become of it, and
a scan of another process may end in between. Committing certificates and
answering are two steps as well, with room for a crash (`Commit`, `Return`).
Code between two awaits that touches only memory is part of one step (`Request`
of the limiter, `CorpusComplete` of the stream). A coroutine's local state is a
record with a program counter. Variables commented "history" are read by
properties only.

**Time** is a counter bounded by `MaxTime`. A step that the code bounds by a
timeout carries the time it is due, and `Tick` does not pass it: that is
`wait_for(CORPUS_TIMEOUT)` around a corpus, `DbLatency` for a session,
`FetchTime` for a fetch of the key. The 5 s of httpx bound each of its
operations, not the whole: `FetchTime` stands for what they add up to, and a body
that trickles in without end is left out. `TrustedKeys` has one clock where the code
reads two, the monotonic one for the cache and the wall clock for a token's
claims. `ScanStream` leaves time out: its 15 s poll may fire whenever the stream
waits.

**Data.** Corpora, texts, certificates, keys and bundles are model values. A
certificate of `LeakScan` stands for one content hash (half of the cache key).
Metadata of a dossier is `"null"` or `"{}"`, which `_bundle_fingerprint`
identifies. `canonicalize` is the function `Canonical` on texts, `NoBytes` the
form of a blank one; a SHA-256 stands for the bytes it is of. A signature is its
key and the bytes it covers: Ed25519 is deterministic, so signing the same bytes
twice gives one signature. It covers the canonical text and nothing else of the
manifest, and the model says no more. `Distance` (of simhashes) and `Similarity`
(of embeddings, in `Unit`-ths of a hundredth) are parameters; the thresholds of `compare.py`,
`batch_service.py` and `leak/similarity.py` are in the model. A token is a record
of what the verifier reads of it; a path is the sequence of its segments.

**Slips.** Beside some definitions stands an operator commented "Slip", with the
same parameters and one plausible mistake. Nothing uses it. `PROJECT.json`
("mutants") says which property fails when the slip takes the definition's
place, so that no property is kept that the code could not break.

## 3. What is checked

Deadlock is not checked: clients may stop calling and clocks are bounded, so
every model may come to rest.

### Runs that pass

| run | instance | about | distinct states |
|---|---|---|---|
| `scan_shared` | 2 scans, one text, 1 process, 2 corpora (one serial, one gated), valid and refused requests, 1 crash, 1 failing session, `TTL = MaxAge = 0`, 2 instants; scans interchangeable | rows, `hit_count` and job agree; reaper; coroutines and jobs; `ScanJob` | 877,000 |
| `scan_progress` | 2 scans, 2 processes, default corpora, certificate may be purged, no fault, `MaxAge = TTL = 1`, 4 instants, `HitCounts = {}` | every scan ends; an ended job holds until it is stale; age of answers | 334,000 |
| `stream` | 1 scan of one corpus, 2 streams, 2 processes, 1 crash, a reaper that spares the living, one stream polling a live job once | events, channels, order, closing | 188,000 |
| `dossier` | 2 clients, 1 dossier, 3 bundles (2 of one fingerprint), 2 certificates, 2 faults, 2 instants | one signature; answers; retries | 18,000 |
| `rate` | 3 keys, 3 callers, 2 requests in a window of 4 ticks, 2 ticks a second, 6 instants, restarts | quota, deque, `Retry-After`, identities | 400,000 |
| `cert` | a batch of 2 texts and a request with 1, 4 texts, R2 or signing keys configured or neither, 1 failing session, 1 crash | issuance, health, verification, diff, search | 130,000 |
| `keys` | 2 requests, 5 deployments, 5 tokens, 2 bastion keys, frontend and foreign keys, `KeyTTL = 2`, `RetryAfter = FetchTime = Leeway = 1`, 5 instants | who proceeds, rotation, waiting, spacing, answers | 55,000 |

Why these bounds are enough for what is asked:

* *scan_shared.* Two scans are what a shared key or a semaphore tells apart from
  one; two corpora are needed for an order, a sum and a failure half-way. The only
  serial corpus comes first, so both scans meet at its semaphore. `TTL` and
  `MaxAge` are of no tick, so the second instant is the first at which an entry
  of the first has expired and a job of it is stale, while another scan is young;
  what is as old as the limit, and not older, is met within one instant. The run
  says nothing of the ratio of the two, on which no property depends. Longer
  histories are left to `LeakScanProofs`, which bounds neither clock, crashes
  nor faults, and most of the theorems not the processes either.
* *scan_progress.* A scan of one serial corpus may take 2 attempts of 1 tick, and
  `MaxAge` is 1: a second process that boots at instant 2 or 3 finds it stale and
  fails it under its coroutine, or selects it and fails it after it completed. An
  ended job does change here (`TerminalIsFinal` and `ResultsMatchJob` do not hold
  in this run), which is what `EndsHoldUntilStale` puts a time to. `TTL = 1`
  with 4 instants makes an entry expire that a later scan looks for. No certificate
  is deleted by the code; `Purge` stands for an operator, and is there for the
  branch of `run_scan` that finds none. Nothing asked here depends on hits, so an
  answer is an empty one (`AnswerLost`, the same step).
* *stream.* Two streams tell leaving a channel from closing it; two processes put
  a stream beside its scan and away from it (`Server` names the scan's process;
  the two are interchangeable, so one choice is enough). The bound on polls is per stream
  and counts only those that found a live job: a poll of an ended job is free.
  `ReaperSpares` is `TRUE`: with `FALSE` the reaper may fail any job, and then an
  end that was told may not be what is stored (see *Streams* below).
* *dossier.* Two clients race for one dossier, two faults hit both or one twice,
  and `issued_at` differs between instants.
* *rate.* At instant 5 the first requests of instant 0 have just left the window
  of 4: a burst may straddle its edge. Two ticks a second make `int()` lose
  something.
* *cert.* A batch of two, another request and the probe are four threads that
  answer and record in any order. A cosine is counted in tenths of a hundredth
  (`Unit = 10`): 0.993, between the text and the one that differs in a space, is no
  whole hundredth. Of the four texts one is certified, one differs
  from it in a space (same canonical form, simhash at distance 2), one is
  unrelated and one is blank; three rows and a list of two make search cut its
  results. A crash changes the process's own signing key. R2 and the signing keys
  are configured one at a time (`AllButBoth`): the keys decide nothing about R2.
* *keys.* A key fetched just before its rotation is used for `FetchTime +
  KeyTTL = 3` ticks at most and the clock goes on to 4. Two requests make one
  queue behind the other's failing fetch. The tokens run out, begin and outlast
  the run, or name the wrong issuer; one deployment fetches the key, two have it
  configured beside a URL (readable, in `DEMO_MODE`, or not), and two have no key,
  with and without the test settings.

The properties, by run (each is stated in words above its definition):

* `LeakScan`: `ResultsMatchJob`, `HitCountIsSum`, `NoOldOrphans`,
  `AnswersAreCurrent`, `EndsHoldUntilStale`, `NoneLeftStuck`, `JobsTerminate`,
  `JobView`; `LifeInv` of `LeakScanInvariant`, which contains `TypeOK`.
* `ScanStream`: `NoEventMissed`, `ChannelsMatchStreams`, `ToldWhatIsStored`,
  `ToldInOrder`, `StreamsClose`.
* `Dossier`: `EnvelopesAreSound`, `HandlersJustified`, `AnswersAgree`,
  `OneSignature` (refinement), `RetrySettles`.
* `RateLimit`: `DequeIsRecent`, `QuotaHolds`, `RetryAfterSuffices`,
  `RefusedForOwnRequests`.
* `Certificates`: `KeysAreBacked`, `RepliesAreDurable`, `HealthFollowsStorage`,
  `RequestsEnd`.
* `CertificateReads`: `ManifestVerifies` (the ways to verify agree with each other
  and with exact search), `OwnTextVerifies` (and agrees with diff), `SearchFinds`.
* `TrustedKeys`: `ProceedsJustified`, `RotationTakesHold`, `WaitsOneFetch`,
  `FetchesSpaced`, `RequestsAnswered`.

### Fairness

* `LeakScan`: weak fairness of each coroutine (the event loop resumes what is
  ready, and `wait_for` ends every attempt), of booting a process that is down
  (the platform restarts it) and of the clock. No client, corpus, failure or
  purge is fair.
* `ScanStream`: weak fairness of each stream's generator only: `wait_for` ends a
  wait after 15 s. `StreamsClose` therefore asks nothing of the scan, which may
  have died or run elsewhere.
* `Dossier`: weak fairness of each handler, and of the client's retry in
  `RetrySettles`, which is about clients that do retry.
* `Certificates`: weak fairness of each request; the provider is bounded by 15 s
  and R2 by its connect and read timeouts, so calls end in one outcome or another.
* `TrustedKeys`: weak fairness of waking the first in the queue (`asyncio.Lock`
  is first come, first served) and of ending a fetch (the httpx timeout).

### Where the code departs from what is said of it

Each is a run that TLC ends with a counterexample; `PROJECT.json` ("findings")
quotes the line.

* `scan_restart` (`JobsTerminate`): the reaper runs at start-up only and spares
  jobs younger than 30 minutes. A process that crashes and restarts promptly
  leaves the job it was scanning `running` until some later restart.
* `scan_failure` (`NoneLeftStuck`): `run_scan`'s first two sessions and
  `save_results` are outside its `try` block. If one raises, the job stays
  `pending` or `running`.
* `scan_poison` (`NoPoisonedEntry`): corpus clients turn a transport error into
  an empty result, which is cached for seven days as an answer.
* `dossier_together` (`IdenticalInputsReturned`): two identical submissions at
  once; the primary key refuses one with an `IntegrityError` nobody maps, a 500
  instead of the stored record. A retry settles it (`RetrySettles`).
* `cert_outage` (`VerificationUnaffected`): a certificate issued while the
  provider was down is stored with the zero vector and fails batch verification
  with its own text once the provider is back.

Seen while modelling, in the model, and stated by no property:

* Two scans of one text that both found no cache entry both insert it; the
  second gets an `IntegrityError` and its job ends in `error` (`Collide`,
  `leak_repo.py:144`).
* A stream opened while a scan runs never reports the corpora finished before it,
  when the `complete` event closes it: the snapshot of a running job has no rows.
* Upload threads may record their outcomes in another order than R2 answered, so
  `/health` may repeat the last but one. `HealthFollowsStorage` is what does hold.
* With the frontend's key configured, a token of bastion is answered 401 rather
  than 503 while bastion's key cannot be fetched.
* The reaper of a process that starts during a deploy may fail a job of the other
  process that is older than 30 minutes, even one that completed after it was
  selected: a client that saw it `complete` then finds it in `error`, its rows
  still there (`Boot`, `leak_repo.py:177-189`). `EndsHoldUntilStale` is what holds.
* `public_routes.py:3-5` says that everything that spends quota is absent from the
  public routes; `POST /verify/batch` is public and embeds the texts it is sent
  (`batch_service.py:231`). `ProtectedRoutes` names the routes that are protected.
* `/download` packs the key the process has now with a manifest that an earlier
  process may have signed: without configured keys the archive then does not
  verify (`ManifestVerifies` says when it does).
* Search keeps its database session while it waits
  up to 15 s for the embedding of the query.

And outside the model:

* `rate_limit_per_minute = 0` makes every request an `IndexError`.
* Vectors of another length than the stored ones make `zip(strict=True)` raise in
  diff, batch verification and semantic search. The model takes every vector to
  be as long as the fallback.
* A batch accepts an author of blanks, which a single request refuses, and has no
  limit like `max_text_bytes`, past which a single request is answered 413.
* Search rounds scores to six digits, so that nearly equal ones may tie.
* The confidence bands in the docstring of `leak/score.py` are not those that
  `score` returns (one distant hit gives less than 0.3); only `scanner.scan`,
  which no route calls, uses it.

## 4. What is proved

`tlapm` checks every step; nothing is assumed but the `ASSUME`s of the modules.
They give each constant its type (`ScanParameters`, `DossierParameters`,
`LimitAssumption`, `CertificateParameters`, `ReadParameters`, `ClaimParameters`,
`KeyParameters`) and are evaluated by TLC on every run. Those that say more:
`RetryAfter <= KeyTTL` (60 s and an hour in the code); `Distance[t][t] = 0` and
`Similarity[t][t] = Same`, a cosine of 1 (a text is like itself).

| theorem | says | rests on |
|---|---|---|
| `LeakScanProofs!CoroutinesFitJobs` | `Spec => []LifeInv` | |
| `LeakScanProofs!LivingAreSpared` | `Spec => []SparesLiving`, if `ReaperIsSafe` | `PaceInv` |
| `LeakScanProofs!JobsAndResults` | `Spec => [](TypeOK /\ ResultsMatchJob)`, if `ReaperIsSafe` | `LifeInv`, `InStep` |
| `LeakScanProofs!HitsAddUp` | `Spec => []HitCountIsSum` | `LifeInv`, `TotalsInv` |
| `LeakScanProofs!StoredRowsStay` | `Spec => RowsAreFinal`: the rows of a scan, once stored, never change | `LifeInv` |
| `LeakScanProofs!EndsHold` | `Spec => EndsHoldUntilStale`: an ended job changes only once it is past the reaper's limit | `LifeInv`, `ReapInv` |
| `LeakScanProofs!EndedJobsStay` | `Spec => TerminalIsFinal`, if `ReaperIsSafe` | `LifeInv`, `InStep`, `NextIsJobStep` |
| `LeakScanProofs!ScansImplementJob` | `Spec => JobView`, if `ReaperIsSafe` | the same |
| `LeakScanProofs!ReapedForGood` | `Spec => []NoOldOrphans`, if `ReaperIsSafe` | the same |
| `LeakScanProofs!ReportsAreCurrent` | `Spec => []AnswersAreCurrent` | `LifeInv`, `TimeInv` |
| `LeakScanProofs!EndsWithItsJob` | `Spec => [](faults = 0 /\ crashes = 0 => NoneLeftStuck)` | `StuckInv` |
| `ScanStreamProofs!TypeCorrect` | `Spec => []TypeOK`, if `ReaperSpares` | `Inv` |
| `ScanStreamProofs!ChannelsKept` | `Spec => []ChannelsMatchStreams`, if `ReaperSpares` | `Inv` |
| `ScanStreamProofs!EndsAreStored` | `Spec => []ToldWhatIsStored`, if `ReaperSpares` | `Inv` |
| `ScanStreamProofs!EventsArrive` | `Spec => []NoEventMissed`, if `ReaperSpares` | `Inv` |
| `ScanStreamProofs!NeverToldBack` | `Spec => ToldInOrder`, if `ReaperSpares` | `Inv` |
| `ScanStreamProofs!WatchesJobs` | `Spec => Jobs!Spec`, if `ReaperSpares`: the streams' jobs are those of `ScanJob` | `Inv` |
| `DossierProofs!TypeCorrect` | `Spec => []TypeOK` | |
| `DossierProofs!SoundEnvelopes` | `Spec => []EnvelopesAreSound` | `HandlersJustified` |
| `DossierProofs!FindingsStand` | `Spec => []HandlersJustified` | |
| `DossierProofs!DossierImplementsRegistry` | `Spec => OneSignature` | `HandlersJustified` |
| `DossierProofs!ClientsAgree` | `Spec => []AnswersAgree` | the abstract steps |
| `RateLimitProofs!TypeCorrect` | `Spec => []TypeOK` | |
| `RateLimitProofs!QuotaIsKept` | `Spec => []QuotaHolds` | `DequeIsRecent` |
| `RateLimitProofs!DequesAreRecent` | `Spec => []DequeIsRecent` | |
| `RateLimitProofs!RefusalsAreOwn` | `Spec => []RefusedForOwnRequests` | `DequeIsRecent`, `OwnInv` |
| `RateLimitProofs!RetryAfterIsEnough` | `Spec => []RetryAfterSuffices` | the same |
| `CertificatesProofs!TypeCorrect` | `Spec => []TypeOK` | `Invariant` |
| `CertificatesProofs!KeysBacked` | `Spec => []KeysAreBacked` | `Invariant` |
| `CertificatesProofs!RepliesDurable` | `Spec => []RepliesAreDurable` | `Invariant` |
| `CertificatesProofs!ManifestsVerify` | `Spec => []ManifestVerifies` | `Invariant` |
| `CertificatesProofs!OwnTextsVerify` | `Spec => []OwnTextVerifies` | `Invariant` |
| `CertificatesProofs!SearchIsComplete` | `Spec => []SearchFinds` | `Invariant`, `FinitelyMany` |
| `CertificatesProofs!HealthIsRecent` | `Spec => []HealthFollowsStorage` | `Invariant`, `HealthInv` |
| `CertificatesProofs!LeaksAreDerivatives` | a leak of the scanner is at least a derivative of diff, and leaks are what scores 0.8125 or more | |
| `CertificatesProofs!OverlapAgreesWithVerdict` | the overlap lies in 0..100, is 100 only of texts one bit and less than a hundredth apart, and 99 at least of identical ones | |
| `AccessProofs!AcceptedIsVouched` | an accepted token was signed by a trusted key of the issuer it names, and the frontend's in its role | |
| `AccessProofs!AcceptanceWindow` | no token is good for longer than its longest lifetime and two leeways | |
| `AccessProofs!KeyOrderIrrelevant` | neither order nor repetition of the trusted keys changes who is accepted | |
| `AccessProofs!ProtectedRoutes` | what stores, and what reads for authenticated callers, is not public | |
| `TrustedKeysProofs!TypeCorrect` | `Spec => []TypeOK` | `Holds` |
| `TrustedKeysProofs!OneFetchAwaited` | `Spec => []WaitsOneFetch` | `Holds` |
| `TrustedKeysProofs!Justified` | `Spec => []ProceedsJustified` | `Holds`, `AcceptedIsVouched` |
| `TrustedKeysProofs!RotationKnown` | `Spec => []RotationTakesHold` | `Holds`, `KeyOrderIrrelevant` |
| `TrustedKeysProofs!FetchesAreSpaced` | `Spec => FetchesSpaced` | `Holds` |

*Scans.* What the rows of a job show rests on where its coroutine stands, so
`LifeInv` joins `TasksFitJobs` (for each coroutine, the status its job may have, how
many corpora have a result and that they are the requested ones in order),
`CacheMatchesKeys` (a cached result is of the corpus in its key) and `RowsFitJobs` (a
job has no rows, or all of them and it has ended, and a complete one has them). Each
action then has a lemma that it keeps `LifeInv`. It holds for any number of
processes and scans of any length, because it allows what the reaper of a process
that starts during a deploy may do: to fail a job under a living coroutine, or one
that completed, with its rows, after it was selected. `ResultsMatchJob` says more,
that a job with rows *is* complete: for that the reaper must be safe (below).

`ReportsAreCurrent` also needs `TimeInv`, which bounds by a step's due time how long
a result may take from the beginning of the attempt that gave it (`asked`) to the
cache. It bounds what `scan_poison` finds, too: the empty result of a corpus that did
not answer is reported to the scan that asked, and to those requested at most
`CACHE_TTL`, `CORPUS_TIMEOUT` and two sessions after it asked.

*Hits.* `HitsAddUp` relates a number to the rows of a sequence. `SumOfHits` states
the sum by its partial sums (there is a running total that starts at 0, grows by the hits
of one row after the other and ends at `hit_count`) rather than by a fold, of
which the prover could only say something by induction over operators. `TotalsInv`
adds that each coroutine carries the sum of what it has so far (`all_hits`), and
`SumGrows` that a result taken from a corpus, from the cache or after the last retry
prolongs the running total by its own hits; `Save` then stores both at once.

*Who ends a job.* A job without a coroutine that ended is touched by no step
unless a reaper has selected it (`NextKeepsEnded`), and its rows by none at all: so
`StoredRowsStay` needs no more than `LifeInv`. A failed job may have a coroutine
left, and an ended one may be selected, but only past `STALE_SCAN_MAX_AGE`
(`ReapInv`): so `EndsHold` says that what a client was told of an ended job holds
at least until then.

`ReaperIsSafe` makes it hold for good. It says that there is one server process, or
that the reaper's limit outlasts every scan that may be requested
(`LimitOutlastsScans`). Finality, the refinement, rows and status together
(`ResultsMatchJob`), the reaper's own promise and `LivingAreSpared` cannot do
without: during a deploy the new process selects by age alone
(`leak_repo.py:177-184`), and a scan of the old one that is older than the limit may
be failed and then completed by its coroutine, or complete and then be failed.
`Lasts(n)` is how long `run_scan` may take for `n` corpora: three sessions before the
first, and per corpus every attempt and the three sessions of the cache. In the code
that is a minute and three sessions per corpus against 30 minutes, so it holds for the
three default corpora and for nearly thirty. The API does not bound the list a
client sends (repeated names are scanned again), and no timeout bounds a session: the
assumption bounds `Requests` and `DbLatency` to what the limit was chosen for.
That each coroutine keeps to `Lasts` is `PaceInv`, on top of `LifeInv`, which tells
how many results are still to come: its step is due in time and leaves time for those
that follow before the next corpus. `SparesLiving` follows: a process that starts
selects no scan with a living coroutine elsewhere, and none it selected gets one
before its update. With it a coroutine's job is always open and no selected job is
complete (`InStep`), and every step creates a job, starts a pending one, completes a
running one with its rows, fails active ones, or leaves jobs and rows alone
(`NextIsJobStep`), from which finality, the refinement and the reaper's promise are
read off.

`EndsWithItsJob` needs none of this: whatever reaps, a coroutine leaves a job
without having ended it only when a session of its own raises or its process dies.

*Streams.* `Inv` joins the three parties of a scan's channel. Of the worker:
what it has committed and how much it has published, which lags behind
(`WorkerFits`, `LogFits`: an end is published only when it is the stored one). Of
the channel: it lists the streams that read it (`ChannelsFit`). Of a stream: what
it has sent and still has in its queue is the *end* of what the scan published,
and reaches back at least to its first snapshot (`CaughtUp`); what it was told or
is about to tell is no later than the database (`StreamFits`). The step that
decides is the publication: it finds exactly the listening streams, appends to all
their queues at once, and so prolongs both sides of `CaughtUp`. `WatchesJobs`
closes the chain: `ScanStream` takes of its jobs no more than `ScanJob` says,
and `LeakScan` is proved to implement `ScanJob`. The theorems about streams assume
`ReaperSpares`, that the reaper fails no job under its coroutine and none that ended
since it was selected. `LivingAreSpared` and `ScansImplementJob` prove that of
`LeakScan` wherever `ReaperIsSafe`; elsewhere a stream may tell an end that the
reaper then overwrites.

*Dossiers.* A handler signs on the strength of checks it made sessions ago.
`HandlersJustified` says that what each handler has checked is still so, because
no certificate and no envelope is ever taken back; it is inductive, and with it
each step of `Dossier` is a step of `DossierRegistry` or none.

*Quota.* The deque forgets what left the window. `DequeIsRecent` says it is the
tail of all requests served, in order and within one window of its youngest, and that
what it forgot is older than the window (an entry may outlive the window in it until
the next request of its key pops it);
with it a full deque, not merely a recent refusal, is what spaces request `i`
and request `i + PerMinute`.

*Refusals.* `RefusedForOwnRequests` and `RetryAfterSuffices` look back from a
refusal at the log of its key, which grows afterwards. `OwnInv` says that a log
holds its own key's requests in order of time, and that each refusal has a place
in its log with a full quota from there to the time of the refusal; later
requests are appended behind it and disturb nothing. A key is one visitor on one
path (`KeyIsVisitor`), which turns "the key's requests" into "the visitor's own".

*Certificates.* `Invariant` says, of the rows, that each is what `Certify` makes of
its text, under the configured key if there is one, and that an R2 key names an
object in the bucket; of requests in service, that none has a reply, nor a row before
its commit, that their vectors are their texts' own or all zero, and that a recorded
key is that of an object already there; of those that have committed and not
answered, that their rows are all there; and of all that were received (`sent`), what
`RepliesAreDurable` says. The bucket and the table only grow, so what is true of a row
stays true. The two theorems about reading are then about single states.

*Search.* `SearchFinds` is about single states as well, but about the sequences
that list a set. `FinitelyMany` (the table is finite: each commit adds the items
of one request) makes them exist, and makes a list without repetition one of
everything (`ListsAll`); a result is then the front of such a list, and what is
behind the front scores no more than what is in it.

*Storage health.* Threads record in another order than R2 answered, so `_last_ok`
is not the last outcome. `HealthInv` says what it is instead: every outcome not
yet recorded is one of the burst, and once nothing is in flight `_last_ok` is one
too. An item that has a key has been recorded (`Told`), which is why a request
that is answered, or refused with a 500, takes no unrecorded outcome with it.

*Keys.* `Holds` joins who has the lock (exactly the request that fetches), the
deadline of the fetch under way (it ends in time for everyone in flight, and a
release leaves what was fetched at this very time to those that queue: a failure
is remembered too, which is why nobody waits for two), what the cache remembers
(the last fetch) and how old a withdrawn key in it can be. `Answered` is what the
last answer owes to the properties; each action either answers nobody or
establishes it from `Holds` and the lemmas of `AccessProofs`.

Only model-checked: what needs fairness (`RequestsEnd`, `RequestsAnswered`,
`StreamsClose`, `JobsTerminate`, `RetrySettles`), which the prover does not reach.
Every safety and action property that a passing run checks is a theorem.

## 5. What is not modelled

* SimHash and embeddings themselves: library code, a provider and floating point.
  Distances and cosines enter `CertificateReads` as parameters, in `Unit`-ths of a hundredth;
  hits of a corpus enter `LeakScan` as numbers.
* Manifests of any other shape than those of stored ones, joined ones, and ones
  without a hash or a signature: `verify_certificate` answers what it answers to
  the latter, whatever else the JSON holds.
* A signing key pair that is malformed (the process does not start) or whose
  halves do not belong together; a key URL that is no URL.
* The parsing in the corpus clients. They appear by what they return or raise. A
  Common Crawl query on a blank text answers without taking the semaphore; in
  the model it always takes it.
* Layout: manifests, JSON schemas, QR codes, `/version`, the public key's PEM,
  logging, CORS, request ids, and the evaluation harness and migrations, which run
  outside the service.
* `scanner.scan` and `scan_stream`, `download_text`, presigned URLs and
  derivative links have no caller in the API.

## 6. Plan

The order was: the life of a scan, its streams, the envelope, the limiter,
issuance with R2, the keys; then the reads of certificates with the signing keys,
the token verifier under the middleware, and the proofs of both and of the rest of
the limiter; then the proofs about streams, the reaper during a deploy, storage
health and search; last, the sum of the hits, and the theorems about scans freed
of conditions they did not need. That completes the plan. What would say more is
`ScanStream` over `LeakScan` itself instead of over `ScanJob`: that the events of a
scan and its rows agree.

## 7. Running it

    tlc -workers 2 -config MCScanShared.cfg MCLeakScan
    tlapm LeakScanProofs.tla

`PROJECT.json` lists every run with its module and configuration, the source
lines of each definition (`map`), the hazards with the properties that cover
them, and the theorems.
