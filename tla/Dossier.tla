------------------------------ MODULE Dossier ------------------------------
(***************************************************************************)
(* POST /dossiers/envelope: create_envelope of services/envelope_service.py*)
(* over repositories/envelope_repo.py, called by clients that may submit   *)
(* the same dossier together and submit again when no answer came back.    *)
(* The handler checks each evidence certificate, looks the dossier up,     *)
(* signs, and inserts, each in a session of its own: between the look-up   *)
(* and the insert others run, and only the primary key of                  *)
(* dossier_envelopes keeps two signatures apart.                           *)
(*                                                                         *)
(* An operator commented "Slip" is a mistake somebody could make in the    *)
(* definition below it, used by nothing: the README says what for.         *)
(***************************************************************************)
EXTENDS Naturals, Sequences

CONSTANTS
  Clients,     \* concurrent submitters
  Dossiers,    \* dossier ids
  Certs,       \* certificate ids
  Bundles,     \* what clients submit: [evidence, content, metadata]
  MaxTime,     \* bound on the clock
  MaxFaults    \* bound on failing sessions, crashes and lost answers

DossierParameters ==
  /\ \A b \in Bundles : b.evidence \in Seq(Certs) /\ b.evidence # <<>>
  /\ MaxTime \in Nat /\ MaxFaults \in Nat
ASSUME DossierParametersAssumption == DossierParameters

VARIABLES
  certs,       \* certificates table: the ids issued so far
  envelopes,   \* dossier_envelopes: a function on the dossiers stored so far
  request,     \* where each client's submission stands
  answers,     \* history: the 200s and 409s that reached a client
  now,         \* wall clock
  faults       \* faults so far

vars == <<certs, envelopes, request, answers, now, faults>>

-----------------------------------------------------------------------------
(* _bundle_fingerprint: no metadata is the same as empty metadata.         *)
Fingerprint(b) ==
  [b EXCEPT !.metadata = IF @ = "null" THEN "{}" ELSE @]

(* sign(canonical_bundle_bytes(...)): Ed25519 is deterministic, so the     *)
(* signature stands for the signed bytes, issued_at among them.            *)
Signature(d, b, at) == [dossier |-> d, bundle |-> Fingerprint(b), issued_at |-> at]

Idle == [pc |-> "idle"]

Doing(c, l) == request[c].pc = l

Goto(c, l) == request' = [request EXCEPT ![c].pc = l]

Put(f, k, v) == [x \in DOMAIN f \cup {k} |-> IF x = k THEN v ELSE f[x]]

Init ==
  /\ certs = {}
  /\ envelopes = [d \in {} |-> {}]
  /\ request = [c \in Clients |-> Idle]
  /\ answers = {}
  /\ now = 0 /\ faults = 0

-----------------------------------------------------------------------------
(* A new submission, or the same one again after a 500 or no answer.       *)
Submission(d, b) == [pc |-> "check", dossier |-> d, bundle |-> b, checked |-> 0,
                     signature |-> <<>>]

Submit(c, d, b) ==
  /\ Doing(c, "idle")
  /\ request' = [request EXCEPT ![c] = Submission(d, b)]
  /\ UNCHANGED <<certs, envelopes, answers, now, faults>>

(* Slip: a retry skips the evidence check.                                 *)
ResubmitUnchecked(c) ==
  /\ Doing(c, "failed")
  /\ request' = [request EXCEPT ![c] = [Submission(@.dossier, @.bundle) EXCEPT !.pc = "look"]]
  /\ UNCHANGED <<certs, envelopes, answers, now, faults>>

Resubmit(c) ==
  /\ Doing(c, "failed")
  /\ request' = [request EXCEPT ![c] = Submission(@.dossier, @.bundle)]
  /\ UNCHANGED <<certs, envelopes, answers, now, faults>>

(* Slip: only the first certificate is looked for.                         *)
CheckFirst(c) ==
  /\ Doing(c, "check")
  /\ IF request[c].bundle.evidence[1] \notin certs
     THEN Goto(c, "unknown")
     ELSE request' = [request EXCEPT ![c].checked = 1, ![c].pc = "look"]
  /\ UNCHANGED <<certs, envelopes, answers, now, faults>>

(* get_certificate for the next evidence id: UnknownCertificateError, 422. *)
CheckEvidence(c) ==
  /\ Doing(c, "check")
  /\ LET r == request[c]  n == r.checked + 1 IN
       IF r.bundle.evidence[n] \notin certs
       THEN Goto(c, "unknown")
       ELSE request' = [request EXCEPT
              ![c].checked = n,
              ![c].pc = IF n = Len(r.bundle.evidence) THEN "look" ELSE "check"]
  /\ UNCHANGED <<certs, envelopes, answers, now, faults>>

(* Slip: nothing is signed.                                                *)
LookUnsigned(c) ==
  /\ Doing(c, "look")
  /\ Goto(c, IF request[c].dossier \in DOMAIN envelopes THEN "conflict" ELSE "insert")
  /\ UNCHANGED <<certs, envelopes, answers, now, faults>>

(* Slip: a dossier already signed is an error, also for its own bundle.    *)
LookWithoutReadBack(c) ==
  /\ Doing(c, "look")
  /\ LET r == request[c]  d == r.dossier IN
       request' = [request EXCEPT ![c] =
         IF d \notin DOMAIN envelopes
         THEN [r EXCEPT !.pc = "insert", !.signature = Signature(d, r.bundle, now)]
         ELSE [r EXCEPT !.pc = "failed"]]
  /\ UNCHANGED <<certs, envelopes, answers, now, faults>>

(* get_envelope: the stored record if the fingerprints agree, else         *)
(* EnvelopeConflictError; if there is none, build, sign and validate, all  *)
(* before the next await.                                                  *)
Look(c) ==
  /\ Doing(c, "look")
  /\ LET r == request[c]  d == r.dossier IN
       request' = [request EXCEPT ![c] =
         IF d \notin DOMAIN envelopes
         THEN [r EXCEPT !.pc = "insert", !.signature = Signature(d, r.bundle, now)]
         ELSE IF Fingerprint(envelopes[d].bundle) = Fingerprint(r.bundle)
         THEN [r EXCEPT !.pc = "ok", !.signature = envelopes[d].signature]
         ELSE [r EXCEPT !.pc = "conflict"]]
  /\ UNCHANGED <<certs, envelopes, answers, now, faults>>

(* Slip: the row is merged over the one that is there.                     *)
InsertOver(c) ==
  /\ Doing(c, "insert")
  /\ envelopes' = Put(envelopes, request[c].dossier,
                      [bundle |-> request[c].bundle, signature |-> request[c].signature])
  /\ Goto(c, "ok")
  /\ UNCHANGED <<certs, answers, now, faults>>

(* envelope_repo.add and commit.                                           *)
Insert(c) ==
  /\ Doing(c, "insert")
  /\ LET r == request[c] IN
       /\ r.dossier \notin DOMAIN envelopes
       /\ envelopes' = Put(envelopes, r.dossier, [bundle |-> r.bundle,
                                                 signature |-> r.signature])
  /\ Goto(c, "ok")
  /\ UNCHANGED <<certs, answers, now, faults>>

(* Slip: the IntegrityError is swallowed and the unsaved record returned.  *)
DuplicateSwallowed(c) ==
  /\ Doing(c, "insert")
  /\ request[c].dossier \in DOMAIN envelopes
  /\ Goto(c, "ok")
  /\ UNCHANGED <<certs, envelopes, answers, now, faults>>

(* The dossier_id is taken: IntegrityError, which no handler catches: 500. *)
Duplicate(c) ==
  /\ Doing(c, "insert")
  /\ request[c].dossier \in DOMAIN envelopes
  /\ Goto(c, "failed")
  /\ UNCHANGED <<certs, envelopes, answers, now, faults>>

(* The answer reaches the client.                                          *)
Reply(c) ==
  /\ request[c].pc \in {"ok", "conflict"}
  /\ LET r == request[c]  b == Fingerprint(r.bundle) IN
       answers' = answers \cup
         {IF r.pc = "ok"
          THEN [dossier |-> r.dossier, outcome |-> "ok", bundle |-> b,
                signature |-> r.signature]
          ELSE [dossier |-> r.dossier, outcome |-> "conflict", bundle |-> b]}
  /\ Goto(c, "answered")
  /\ UNCHANGED <<certs, envelopes, now, faults>>

(* A session raises, the process dies or the answer is lost: the client    *)
(* has no answer, whether or not its envelope was committed.               *)
Fault(c) ==
  /\ faults < MaxFaults /\ request[c].pc \in {"check", "look", "insert", "ok", "conflict"}
  /\ faults' = faults + 1
  /\ Goto(c, "failed")
  /\ UNCHANGED <<certs, envelopes, answers, now>>

-----------------------------------------------------------------------------
(* create_certificate, elsewhere.  The API deletes none.                   *)
Certify(i) ==
  /\ i \in Certs \ certs
  /\ certs' = certs \cup {i}
  /\ UNCHANGED <<envelopes, request, answers, now, faults>>

Tick ==
  /\ now < MaxTime
  /\ now' = now + 1
  /\ UNCHANGED <<certs, envelopes, request, answers, faults>>

Handle(c) ==
  CheckEvidence(c) \/ Look(c) \/ Insert(c) \/ Duplicate(c) \/ Reply(c)

Next ==
  \/ \E c \in Clients : Handle(c) \/ Resubmit(c) \/ Fault(c)
  \/ \E c \in Clients, d \in Dossiers, b \in Bundles : Submit(c, d, b)
  \/ \E i \in Certs : Certify(i)
  \/ Tick

Spec == Init /\ [][Next]_vars

(* The event loop finishes every handler; the client tries again.          *)
FairSpec == Spec /\ \A c \in Clients : WF_vars(Handle(c)) /\ WF_vars(Resubmit(c))

-----------------------------------------------------------------------------
Canonical == {Fingerprint(b) : b \in Bundles}
Signatures == [dossier: Dossiers, bundle: Canonical, issued_at: Nat]
Stored == [bundle: Bundles, signature: Signatures]
Busy == {"check", "look", "insert", "ok", "unknown", "conflict", "failed", "answered"}

Request == [pc: Busy, dossier: Dossiers, bundle: Bundles, checked: Nat,
            signature: Signatures \cup {<<>>}]

TypeOK ==
  /\ certs \subseteq Certs
  /\ DOMAIN envelopes \subseteq Dossiers /\ envelopes \in [DOMAIN envelopes -> Stored]
  /\ request \in [Clients -> {Idle} \cup Request]
  /\ now \in Nat /\ faults \in Nat

(* Why a handler may do what comes next: what it has checked is still so,  *)
(* because certificates and envelopes are never taken back.                *)
Justified(r) ==
  /\ r.pc = "check" => r.checked < Len(r.bundle.evidence)
                       /\ \A k \in 1..r.checked : r.bundle.evidence[k] \in certs
  /\ r.pc \in {"look", "insert"} =>
       \A k \in 1..Len(r.bundle.evidence) : r.bundle.evidence[k] \in certs
  /\ r.pc = "insert" => /\ r.signature \in Signatures
                        /\ r.signature.dossier = r.dossier
                        /\ r.signature.bundle = Fingerprint(r.bundle)
                        /\ r.signature.issued_at <= now
  /\ r.pc = "ok" => r.dossier \in DOMAIN envelopes
                    /\ r.signature = envelopes[r.dossier].signature
                    /\ Fingerprint(r.bundle) = Fingerprint(envelopes[r.dossier].bundle)
  /\ r.pc = "conflict" => r.dossier \in DOMAIN envelopes
                    /\ Fingerprint(r.bundle) # Fingerprint(envelopes[r.dossier].bundle)

HandlersJustified == \A c \in Clients : Justified(request[c])

(* Seen from outside this is DossierRegistry: one signature per dossier,   *)
(* whatever is submitted together, fails half-way or is submitted again.   *)
Signed == [d \in DOMAIN envelopes |-> [bundle |-> Fingerprint(envelopes[d].bundle),
                                      signature |-> envelopes[d].signature]]

Registry == INSTANCE DossierRegistry WITH Bundles <- Canonical, signed <- Signed

OneSignature == Registry!Spec

(* No two clients ever hold different envelopes of one dossier, each holds *)
(* what is still stored, and a client was told "conflict" only where the   *)
(* stored envelope is for another bundle than its own.                     *)
AnswersAgree == Registry!OneEnvelope

(* Every envelope rests on certificates that exist and is signed for the   *)
(* very dossier and bundle it is stored with.                              *)
EnvelopesAreSound ==
  \A d \in DOMAIN envelopes :
    LET e == envelopes[d] IN
      /\ \A k \in DOMAIN e.bundle.evidence : e.bundle.evidence[k] \in certs
      /\ e.signature.dossier = d /\ e.signature.bundle = Fingerprint(e.bundle)
      /\ e.signature.issued_at <= now

(* A client that submits until it is answered is answered in the end: the  *)
(* retry that follows a collision or a lost answer is not lost to them.    *)
RetrySettles ==
  \A c \in Clients :
    (~Doing(c, "idle")) ~> (request[c].pc \in {"answered", "unknown"})

(* Submitting what is already stored, or being stored, returns the stored  *)
(* record: without a fault nothing but a conflict or an unknown evidence   *)
(* certificate refuses a client (envelope_service.py:90-92).               *)
IdenticalInputsReturned ==
  \A c \in Clients :
    Doing(c, "failed") /\ faults = 0 =>
      Fingerprint(request[c].bundle) # Fingerprint(envelopes[request[c].dossier].bundle)
=============================================================================
