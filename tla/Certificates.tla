---------------------------- MODULE Certificates ----------------------------
(***************************************************************************)
(* Issuing certificates: create_certificate and create_batch (services/    *)
(* certificate_service.py and batch_service.py), the R2 archive they write *)
(* to first (core/r2.py) and the storage health they leave behind          *)
(* (core/storage_health.py).  A request embeds its texts, archives each in *)
(* a worker thread of its own, inserts all its rows in one session and     *)
(* then answers.  The R2 call and the recording of its outcome are two     *)
(* steps: threads interleave between them.  CertificateReads says what is  *)
(* read of a row.                                                          *)
(*                                                                         *)
(* An operator commented "Slip" is a mistake somebody could make in the    *)
(* definition below it, used by nothing: the README says what for.         *)
(***************************************************************************)
EXTENDS Naturals, Sequences, SequencesExt, Functions

CONSTANTS
  Requests,    \* POST /certificates and POST /certificates/batch requests
  Texts,       \* texts clients submit
  Posts,       \* per request, what it may be: [kind, texts]
  Zero,        \* the zero vector stored when embedding fails
  Canonical,   \* canonicalize: the bytes a text's hash and signature cover
  NoBytes,     \* the canonical form of a text of whitespace only
  Deployments, \* settings a process may run with: [configured, keyed]
  MaxFaults,   \* bound on failing database sessions
  MaxCrashes   \* bound on process crashes

CertificateParameters ==
  /\ DOMAIN Posts = Requests
  /\ \A r \in Requests : \A p \in Posts[r] :
       /\ p.kind \in {"single", "batch"} /\ p.texts \in Seq(Texts) \ {<<>>}
       /\ p.kind = "single" => Len(p.texts) = 1
  /\ Zero \notin Texts
  /\ DOMAIN Canonical = Texts
  /\ Deployments \subseteq [configured: BOOLEAN, keyed: BOOLEAN]
  /\ MaxFaults \in Nat /\ MaxCrashes \in Nat
ASSUME CertificateParametersAssumption == CertificateParameters

VARIABLES
  rows,        \* certificates table: a function on the ids stored so far
  bucket,      \* ids whose text R2 holds
  work,        \* requests being served: a function on them
  reply,       \* what clients were told: a function on the answered requests
  configured,  \* is_configured: R2 has an endpoint and a credential
  keyed,       \* both halves of the signing key are configured
  probe,       \* the startup probe's call
  lastOk,      \* _last_ok of storage_health, in process memory
  up, faults, crashes,
  sent,        \* history: the texts of every request received
  burst        \* history: outcomes since R2 last had no call in flight

served  == <<work, reply, sent>>
health  == <<probe, lastOk, burst>>
process == <<configured, keyed, up, faults, crashes>>
vars    == <<rows, bucket, served, health, process>>

-----------------------------------------------------------------------------
(* Certificate ids: the n-th item of request r.                            *)
Ids(r) == {r} \X DOMAIN work[r].texts

Calls    == {"idle", "calling", "ok", "failed"}
Outcomes == {"ok", "failed"}

(* _load_keys: the configured keys, or a pair of the process's own.        *)
SigningKey == IF keyed THEN 0 ELSE crashes + 1

(* A row.  key is "object" for an R2 key, "logical" for the fallback.      *)
Row == [text: Texts, hash: Range(Canonical), signed: [by: Nat, covers: Range(Canonical)],
        vec: Texts \cup {Zero}, key: {"object", "logical"}]

(* puts: per item, its put_object; keys: what archive_text returned.       *)
Work == [kind: {"single", "batch"}, texts: Seq(Texts), pc: {"embed", "archive", "answer"},
         vecs: Seq(Texts \cup {Zero}), puts: Seq(Calls),
         keys: Seq({"none", "object", "logical"})]

Put(f, k, v) == [x \in DOMAIN f \cup {k} |-> IF x = k THEN v ELSE f[x]]

Unrecorded ==
  {i \in UNION {Ids(r) : r \in DOMAIN work} : work[i[1]].puts[i[2]] # "idle"}

InFlight == Unrecorded # {} \/ probe # "idle"

(* Slip: an answered request is not forgotten.                             *)
RespondAndKeep(r, status) ==
  /\ reply' = Put(reply, r, [status |-> status, kind |-> work[r].kind,
                             embedded |-> Zero \notin Range(work[r].vecs)])
  /\ UNCHANGED <<work, sent>>

(* Respond: "ok" (with an embedding_id per item, or null) or a 500.        *)
Respond(r, status) ==
  /\ reply' = Put(reply, r, [status |-> status, kind |-> work[r].kind,
                             embedded |-> Zero \notin Range(work[r].vecs)])
  /\ work' = Restrict(work, DOMAIN work \ {r})
  /\ UNCHANGED sent

Init ==
  /\ rows = [i \in {} |-> {}] /\ bucket = {}
  /\ work = [r \in {} |-> {}] /\ reply = [r \in {} |-> {}]
  /\ sent = [r \in {} |-> {}]
  /\ \E d \in Deployments : configured = d.configured /\ keyed = d.keyed
  /\ up = FALSE /\ faults = 0 /\ crashes = 0
  /\ probe = "idle" /\ lastOk = "none" /\ burst = {}

-----------------------------------------------------------------------------
(* Embedding.                                                              *)

Fill(ts, x) == [n \in DOMAIN ts |-> x]

(* reject_blank_canonical: sign, too, refuses to sign no bytes.            *)
HasCanonicalContent(t) == Canonical[t] # NoBytes

Receive(r, kind, ts) ==
  /\ up /\ r \notin DOMAIN sent
  /\ \A n \in DOMAIN ts : HasCanonicalContent(ts[n])
  /\ work' = Put(work, r, [kind |-> kind, texts |-> ts, pc |-> "embed", vecs |-> <<>>,
                           puts |-> Fill(ts, "idle"), keys |-> Fill(ts, "none")])
  /\ sent' = Put(sent, r, ts)
  /\ UNCHANGED <<rows, bucket, reply, health, process>>

(* What the provider may answer: a vector per text, or one too few or many.*)
Answers(ts) == {ts, Append(ts, ts[1])} \cup {RemoveAt(ts, n) : n \in DOMAIN ts}

(* Slip: the vectors are paired with the texts without counting them.      *)
VectorsUncounted(kind, ts, answer) ==
  [n \in DOMAIN ts |-> IF n <= Len(answer) THEN answer[n] ELSE Zero]

(* The vectors kept.  A batch keeps all or none, and none unless their     *)
(* count matches; a single certificate takes the first there is.           *)
Vectors(kind, ts, answer) ==
  IF kind = "batch"
  THEN IF Len(answer) = Len(ts) THEN answer ELSE Fill(ts, Zero)
  ELSE IF answer # <<>> THEN <<answer[1]>> ELSE Fill(ts, Zero)

(* The manifests are built, and every item's put_object starts in a thread *)
(* of its own; with R2 unconfigured upload_text returns None at once.      *)
Archive(r, vecs) ==
  LET ts == work[r].texts IN
  /\ r \in DOMAIN work /\ work[r].pc = "embed"
  /\ work' = [work EXCEPT
       ![r].pc = "archive", ![r].vecs = vecs,
       ![r].puts = Fill(ts, IF configured THEN "calling" ELSE "idle"),
       ![r].keys = Fill(ts, IF configured THEN "none" ELSE "logical")]
  /\ burst' = IF InFlight THEN burst ELSE {}
  /\ UNCHANGED <<rows, bucket, reply, sent, probe, lastOk, process>>

Embedded(r) ==
  \E answer \in Answers(work[r].texts) :
    Archive(r, Vectors(work[r].kind, work[r].texts, answer))

(* A 429, a 5xx, a timeout, no key: certified without embeddings.          *)
EmbeddingFails(r) == Archive(r, Fill(work[r].texts, Zero))

-----------------------------------------------------------------------------
(* R2.                                                                     *)

Completed(o) == burst' = burst \cup {o}

(* put_object returns o.  A call that failed may still have written the    *)
(* object: its answer was lost.                                            *)
PutReturns(r, n, o) ==
  /\ r \in DOMAIN work /\ n \in DOMAIN work[r].puts
  /\ work[r].puts[n] = "calling"
  /\ work' = [work EXCEPT ![r].puts[n] = o]
  /\ bucket' \in {bucket \cup {<<r, n>>}} \cup (IF o = "failed" THEN {bucket} ELSE {})
  /\ Completed(o)
  /\ UNCHANGED <<rows, reply, sent, probe, lastOk, process>>

(* Slip: a success is not recorded.                                        *)
SetLastFailure(o) == lastOk' = IF o = "failed" THEN o ELSE lastOk

(* record_success and record_failure.                                      *)
SetLastOk(o) == lastOk' = o

(* _recorded records the outcome, and archive_text returns the key or,     *)
(* swallowing the failure, None.                                           *)
Record(r, n) ==
  /\ r \in DOMAIN work /\ n \in DOMAIN work[r].puts
  /\ LET o == work[r].puts[n] IN
       /\ o \in Outcomes
       /\ SetLastOk(o)
       /\ work' = [work EXCEPT ![r].puts[n] = "idle",
                               ![r].keys[n] = IF o = "ok" THEN "object" ELSE "logical"]
  /\ UNCHANGED <<rows, bucket, reply, sent, probe, burst, process>>

(* probe_storage, in a thread lifespan does not wait for.                  *)
ProbeReturns(o) ==
  /\ probe = "calling"
  /\ probe' = o
  /\ Completed(o)
  /\ UNCHANGED <<rows, bucket, served, lastOk, process>>

ProbeRecord ==
  /\ probe \in Outcomes
  /\ SetLastOk(probe)
  /\ probe' = "idle"
  /\ UNCHANGED <<rows, bucket, served, burst, process>>

-----------------------------------------------------------------------------
(* The database.                                                           *)

(* Slip: the request waits for every upload to succeed.                    *)
GatheredAllStored(r) ==
  /\ r \in DOMAIN work /\ work[r].pc = "archive"
  /\ \A n \in DOMAIN work[r].keys : work[r].keys[n] = "object"

(* asyncio.gather: every archive_text of the request has returned.         *)
Gathered(r) ==
  /\ r \in DOMAIN work /\ work[r].pc = "archive"
  /\ \A n \in DOMAIN work[r].keys : work[r].keys[n] # "none"

(* The record of a text: its hash and signature cover its canonical form,  *)
(* what is stored is the text as it was sent.                              *)
Certify(t, vec, key) ==
  [text |-> t, hash |-> Canonical[t],
   signed |-> [by |-> SigningKey, covers |-> Canonical[t]], vec |-> vec, key |-> key]

(* Slip: the R2 key is kept whatever became of the upload.                 *)
NewRowArchived(r, n) ==
  Certify(work[r].texts[n], work[r].vecs[n], IF configured THEN "object" ELSE "logical")

NewRow(r, n) == Certify(work[r].texts[n], work[r].vecs[n], work[r].keys[n])

(* Slip: items whose upload failed are left out.                           *)
InsertArchived(r) ==
  rows' = [i \in DOMAIN rows \cup {i \in Ids(r) : work[r].keys[i[2]] = "object"} |->
             IF i \in DOMAIN rows THEN rows[i] ELSE NewRow(i[1], i[2])]

(* add and add_many: all the rows of the request, in one transaction.      *)
Insert(r) ==
  rows' = [i \in DOMAIN rows \cup Ids(r) |-> IF i \in DOMAIN rows THEN rows[i]
                                             ELSE NewRow(i[1], i[2])]

Commit(r) ==
  /\ Gathered(r)
  /\ Insert(r)
  /\ work' = [work EXCEPT ![r].pc = "answer"]
  /\ UNCHANGED <<bucket, reply, sent, health, process>>

(* The session is closed: the handler returns the certificates.            *)
Return(r) ==
  /\ r \in DOMAIN work /\ work[r].pc = "answer"
  /\ Respond(r, "ok")
  /\ UNCHANGED <<rows, bucket, health, process>>

(* The session raises: the transaction rolled back, or it had committed    *)
(* and the connection was lost before the answer.                          *)
SessionFails(r) ==
  /\ Gathered(r) /\ faults < MaxFaults
  /\ faults' = faults + 1
  /\ Insert(r) \/ UNCHANGED rows
  /\ Respond(r, "failed")
  /\ UNCHANGED <<bucket, health, configured, keyed, up, crashes>>

-----------------------------------------------------------------------------
(* The process.                                                            *)

(* Requests in service, those whose rows are committed among them, and the *)
(* recorded outcome are lost; a put under way may still reach R2.          *)
Crash ==
  /\ up /\ crashes < MaxCrashes
  /\ crashes' = crashes + 1
  /\ up' = FALSE
  /\ \E landed \in SUBSET {i \in Unrecorded : work[i[1]].puts[i[2]] = "calling"} :
       bucket' = bucket \cup landed
  /\ work' = [r \in {} |-> {}]
  /\ probe' = "idle" /\ lastOk' = "none" /\ burst' = {}
  /\ UNCHANGED <<rows, reply, sent, configured, keyed, faults>>

Boot ==
  /\ ~up
  /\ up' = TRUE
  /\ probe' = IF configured THEN "calling" ELSE "idle"
  /\ UNCHANGED <<rows, bucket, served, lastOk, burst, configured, keyed, faults, crashes>>

(* The steps the event loop, the threads and their timeouts (15 s for the  *)
(* embedding, 3 s and 5 s for R2) bring about.                             *)
Serve(r) ==
  \/ Embedded(r) \/ EmbeddingFails(r)
  \/ \E n \in DOMAIN work[r].texts : Record(r, n) \/ \E o \in Outcomes : PutReturns(r, n, o)
  \/ Commit(r) \/ SessionFails(r) \/ Return(r)

Probe == ProbeRecord \/ \E o \in Outcomes : ProbeReturns(o)

Next ==
  \/ \E r \in Requests : \E p \in Posts[r] : Receive(r, p.kind, p.texts)
  \/ \E r \in DOMAIN work : Serve(r)
  \/ Probe \/ Crash \/ Boot

Spec == Init /\ [][Next]_vars

FairSpec == Spec /\ \A r \in Requests : WF_vars(r \in DOMAIN work /\ Serve(r))
-----------------------------------------------------------------------------
TypeOK ==
  /\ DOMAIN rows \subseteq Requests \X Nat /\ rows \in [DOMAIN rows -> Row]
  /\ bucket \subseteq Requests \X Nat
  /\ DOMAIN work \subseteq Requests /\ work \in [DOMAIN work -> Work]
  /\ DOMAIN sent \subseteq Requests /\ sent \in [DOMAIN sent -> Seq(Texts)]
  /\ DOMAIN reply \subseteq DOMAIN sent \ DOMAIN work
  /\ configured \in BOOLEAN /\ keyed \in BOOLEAN /\ up \in BOOLEAN
  /\ probe \in Calls /\ lastOk \in Outcomes \cup {"none"}
  /\ burst \subseteq Outcomes
  /\ faults \in Nat /\ crashes \in Nat

(* A stored R2 key names an object R2 holds, whichever of the request's    *)
(* uploads failed, were lost or finished last.                             *)
KeysAreBacked == \A i \in DOMAIN rows : rows[i].key = "object" => i \in bucket

(* The rows of request r.                                                  *)
RowsOf(r) == {i \in DOMAIN rows : i[1] = r}

(* The request is the transactional unit: at any time, in service, refused *)
(* with a 500, cut off by a crash before or after its commit, or answered, *)
(* it has all of its certificates in the table or none, each text under    *)
(* the id of its place in the request, and all of them embedded or none.   *)
(* One that was answered has them all, embedded exactly when the answer of *)
(* its batch has an embedding id.                                          *)
RepliesAreDurable ==
  \A r \in DOMAIN sent :
    /\ RowsOf(r) \in {{}, {r} \X DOMAIN sent[r]}
    /\ \A i \in RowsOf(r) : rows[i].text = sent[r][i[2]]
    /\ \A i, j \in RowsOf(r) : rows[i].vec = Zero <=> rows[j].vec = Zero
    /\ r \in DOMAIN reply =>
         /\ reply[r].status = "ok" => RowsOf(r) # {}
         /\ reply[r].kind = "batch" =>
              \A i \in RowsOf(r) : rows[i].vec # Zero <=> reply[r].embedded

(* storage_status, of /health.                                             *)
StorageStatus == IF ~configured \/ lastOk = "failed" THEN "degraded" ELSE "ok"

(* When R2 is quiet, /health repeats the outcome of one of the calls that  *)
(* were last under way: it does not stay degraded once they all succeed,   *)
(* nor ok once they all fail.                                              *)
HealthFollowsStorage ==
  ~InFlight /\ burst # {} =>
    (IF StorageStatus = "ok" THEN "ok" ELSE "failed") \in burst

(* Every request is answered unless its process dies.                      *)
RequestsEnd == \A r \in Requests : r \in DOMAIN work ~> r \notin DOMAIN work
=============================================================================
