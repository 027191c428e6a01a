---------------------------- MODULE DossierProofs ----------------------------
(***************************************************************************)
(* Dossier implements DossierRegistry, and stores sound envelopes only,    *)
(* for every set of clients, dossiers, certificates and bundles.           *)
(* HandlersJustified makes it inductive: what a handler found before an    *)
(* await is still so after it, since no certificate and no envelope is     *)
(* ever taken back; and an insert re-checks the one thing that can change, *)
(* the dossier being free.                                                 *)
(***************************************************************************)
EXTENDS Dossier, TLAPS

IInv == TypeOK /\ HandlersJustified /\ EnvelopesAreSound

LEMMA InitInv == Init => IInv
BY DEF Init, IInv, TypeOK, HandlersJustified, Justified, EnvelopesAreSound, Idle

(* A handler at work has a whole request.                                  *)
LEMMA AtWork ==
  ASSUME TypeOK, NEW c \in Clients, request[c].pc # "idle"
  PROVE  request[c] \in Request
BY DEF TypeOK, Idle

LEMMA Evidence ==
  ASSUME NEW b \in Bundles
  PROVE  b.evidence \in Seq(Certs) /\ Len(b.evidence) \in Nat /\ Len(b.evidence) > 0
         /\ DOMAIN b.evidence = 1..Len(b.evidence)
<1>1. b.evidence \in Seq(Certs) /\ b.evidence # <<>>
  BY DossierParametersAssumption DEF DossierParameters
<1> QED
  BY <1>1

(* A step of client c that leaves the tables alone, or only adds to them,  *)
(* and moves c to a justified request keeps the invariant.                 *)
LEMMA Moves ==
  ASSUME IInv, NEW c \in Clients, NEW r \in Request,
         request' = [request EXCEPT ![c] = r],
         UNCHANGED <<certs, envelopes, now>>, faults' \in Nat, Justified(r)
  PROVE  IInv'
<1>1. TypeOK'
  BY DEF IInv, TypeOK
<1>2. EnvelopesAreSound'
  BY DEF IInv, EnvelopesAreSound
<1>3. ASSUME NEW d \in Clients PROVE Justified(request[d])'
  <2>1. Justified(request'[d])
    BY DEF IInv, TypeOK, HandlersJustified
  <2> QED
    BY <2>1 DEF Justified
<1>4. HandlersJustified'
  BY <1>3 DEF HandlersJustified
<1> QED
  BY <1>1, <1>2, <1>4 DEF IInv

LEMMA SubmitInv ==
  ASSUME IInv, NEW c \in Clients, NEW d \in Dossiers, NEW b \in Bundles, Submit(c, d, b)
  PROVE  IInv'
<1>1. Submission(d, b) \in Request
  BY DEF Submission, Request, Busy
<1>2. Justified(Submission(d, b))
  BY Evidence DEF Submission, Justified
<1> QED
  BY <1>1, <1>2, Moves DEF Submit, IInv, TypeOK

LEMMA ResubmitInv ==
  ASSUME IInv, NEW c \in Clients, Resubmit(c)
  PROVE  IInv'
<1>1. request[c] \in Request
  BY AtWork DEF Resubmit, Doing, IInv
<1>2. PICK d \in Dossiers, b \in Bundles : d = request[c].dossier /\ b = request[c].bundle
  BY <1>1 DEF Request
<1>3. Submission(d, b) \in Request
  BY DEF Submission, Request, Busy
<1>4. Justified(Submission(d, b))
  BY Evidence DEF Submission, Justified
<1>5. request' = [request EXCEPT ![c] = Submission(d, b)]
  BY <1>2 DEF Resubmit
<1> QED
  BY <1>3, <1>4, <1>5, Moves DEF Resubmit, IInv, TypeOK

(* A handler that only changes its pc, to one that asks for no more.       *)
LEMMA GotoInv ==
  ASSUME IInv, NEW c \in Clients, request[c] \in Request,
         NEW l \in {"unknown", "failed", "answered"}, Goto(c, l),
         UNCHANGED <<certs, envelopes, now>>, faults' \in Nat
  PROVE  IInv'
<1>1. PICK r \in Request : r = [request[c] EXCEPT !.pc = l]
  BY DEF Request, Busy
<1>2. r.pc = l
  BY <1>1 DEF Request
<1>3. Justified(r)
  BY <1>2 DEF Justified
<1>4. request' = [request EXCEPT ![c] = r]
  BY <1>1 DEF Goto
<1> QED
  BY <1>3, <1>4, Moves

LEMMA CheckInv ==
  ASSUME IInv, NEW c \in Clients, CheckEvidence(c)
  PROVE  IInv'
<1>1. request[c] \in Request /\ request[c].pc = "check"
  BY AtWork DEF CheckEvidence, Doing, IInv
<1>2. PICK r \in Request : r = request[c] /\ r.pc = "check"
  BY <1>1, Zenon
<1>3. faults' \in Nat /\ UNCHANGED <<certs, envelopes, now>>
  BY DEF CheckEvidence, IInv, TypeOK
<1>4. r.bundle \in Bundles /\ r.checked \in Nat
  BY DEF Request
<1>5. Justified(r)
  BY <1>2 DEF IInv, HandlersJustified
<1>6. r.checked < Len(r.bundle.evidence)
      /\ \A k \in 1..r.checked : r.bundle.evidence[k] \in certs
  BY <1>2, <1>5 DEF Justified
<1>7. CASE r.bundle.evidence[r.checked + 1] \notin certs
  <2>1. Goto(c, "unknown")
    BY <1>2, <1>7 DEF CheckEvidence
  <2> QED
    BY <2>1, <1>1, <1>3, GotoInv
<1>8. CASE r.bundle.evidence[r.checked + 1] \in certs
  <2>1. PICK n \in Nat : n = r.checked + 1
    <3>1. r.checked + 1 \in Nat
      BY <1>4
    <3> QED
      BY <3>1, Zenon
  <2>2. PICK l \in {"look", "check"} :
          l = IF n = Len(r.bundle.evidence) THEN "look" ELSE "check"
    OBVIOUS
  <2>3. PICK q \in Request : q = [r EXCEPT !.checked = n, !.pc = l]
    BY DEF Request, Busy
  <2>4. q.checked = n /\ q.pc = l /\ q.bundle = r.bundle
    BY <2>3 DEF Request
  <2>5. request' = [request EXCEPT ![c] = q]
    BY <2>1, <2>2, <2>3, <1>2, <1>8 DEF CheckEvidence
  <2>6. \A k \in 1..n : r.bundle.evidence[k] \in certs
    BY <2>1, <1>4, <1>6, <1>8
  <2>7. n <= Len(r.bundle.evidence) /\ Len(r.bundle.evidence) \in Nat
    BY <2>1, <1>4, <1>6, Evidence
  <2>8. Justified(q)
    BY <2>2, <2>4, <2>6, <2>7 DEF Justified
  <2> QED
    BY <2>5, <2>8, <1>3, Moves
<1> QED
  BY <1>7, <1>8

LEMMA LookInv ==
  ASSUME IInv, NEW c \in Clients, Look(c)
  PROVE  IInv'
<1>1. request[c] \in Request /\ request[c].pc = "look"
  BY AtWork DEF Look, Doing, IInv
<1>2. PICK r \in Request : r = request[c] /\ r.pc = "look"
  BY <1>1, Zenon
<1>3. faults' \in Nat /\ UNCHANGED <<certs, envelopes, now>> /\ now \in Nat
  BY DEF Look, IInv, TypeOK
<1>4. r.bundle \in Bundles /\ r.dossier \in Dossiers
  BY DEF Request
<1>5. \A k \in 1..Len(r.bundle.evidence) : r.bundle.evidence[k] \in certs
  BY <1>2 DEF IInv, HandlersJustified, Justified
<1>6. CASE r.dossier \notin DOMAIN envelopes
  <2>1. PICK sig \in Signatures : sig = Signature(r.dossier, r.bundle, now)
    BY <1>3, <1>4 DEF Signatures, Signature, Canonical
  <2>2. PICK q \in Request : q = [r EXCEPT !.pc = "insert", !.signature = sig]
    BY DEF Request, Busy
  <2>3. q.pc = "insert" /\ q.signature = sig /\ q.bundle = r.bundle /\ q.dossier = r.dossier
    BY <2>2 DEF Request
  <2>4. request' = [request EXCEPT ![c] = q]
    BY <2>1, <2>2, <1>2, <1>6 DEF Look
  <2>5. /\ sig.dossier = r.dossier /\ sig.bundle = Fingerprint(r.bundle)
        /\ sig.issued_at <= now
    BY <2>1, <1>3 DEF Signature
  <2>6. Justified(q)
    BY <2>3, <2>5, <1>5 DEF Justified
  <2> QED
    BY <2>4, <2>6, <1>3, Moves
<1>7. CASE /\ r.dossier \in DOMAIN envelopes
           /\ Fingerprint(envelopes[r.dossier].bundle) = Fingerprint(r.bundle)
  <2>1. PICK sig \in Signatures : sig = envelopes[r.dossier].signature
    BY <1>7 DEF IInv, TypeOK, Stored
  <2>2. PICK q \in Request : q = [r EXCEPT !.pc = "ok", !.signature = sig]
    BY DEF Request, Busy
  <2>3. q.pc = "ok" /\ q.signature = sig /\ q.bundle = r.bundle /\ q.dossier = r.dossier
    BY <2>2 DEF Request
  <2>4. request' = [request EXCEPT ![c] = q]
    BY <2>1, <2>2, <1>2, <1>7 DEF Look
  <2>5. Justified(q)
    BY <2>1, <2>3, <1>7 DEF Justified
  <2> QED
    BY <2>4, <2>5, <1>3, Moves
<1>8. CASE /\ r.dossier \in DOMAIN envelopes
           /\ Fingerprint(envelopes[r.dossier].bundle) # Fingerprint(r.bundle)
  <2>1. PICK q \in Request : q = [r EXCEPT !.pc = "conflict"]
    BY DEF Request, Busy
  <2>2. q.pc = "conflict" /\ q.bundle = r.bundle /\ q.dossier = r.dossier
    BY <2>1 DEF Request
  <2>3. request' = [request EXCEPT ![c] = q]
    BY <2>1, <1>2, <1>8 DEF Look
  <2>4. Justified(q)
    BY <2>2, <1>8 DEF Justified
  <2> QED
    BY <2>3, <2>4, <1>3, Moves
<1> QED
  BY <1>6, <1>7, <1>8

(* The row an insert adds, and that it leaves the others alone.            *)
LEMMA InsertAdds ==
  ASSUME IInv, NEW c \in Clients, Insert(c)
  PROVE  \E d \in Dossiers \ DOMAIN envelopes, e \in Stored :
           /\ d = request[c].dossier /\ request[c] \in Request
           /\ e.bundle = request[c].bundle /\ e.signature = request[c].signature
           /\ \A k \in 1..Len(e.bundle.evidence) : e.bundle.evidence[k] \in certs
           /\ e.signature.dossier = d /\ e.signature.bundle = Fingerprint(e.bundle)
           /\ e.signature.issued_at <= now
           /\ envelopes' = Put(envelopes, d, e)
<1>1. PICK r \in Request : r = request[c] /\ r.pc = "insert"
  <2>1. request[c] \in Request /\ request[c].pc = "insert"
    BY AtWork DEF Insert, Doing, IInv
  <2> QED
    BY <2>1, Zenon
<1>2. Justified(r)
  BY <1>1 DEF IInv, HandlersJustified
<1>3. PICK e \in Stored : e = [bundle |-> r.bundle, signature |-> r.signature]
  BY <1>1, <1>2 DEF Justified, Stored, Request
<1>4. e.bundle = r.bundle /\ e.signature = r.signature
  BY <1>3
<1>5. r.dossier \in Dossiers \ DOMAIN envelopes
  BY <1>1 DEF Insert, Request
<1>6. envelopes' = Put(envelopes, r.dossier, e)
  BY <1>1, <1>3 DEF Insert
<1> QED
  BY <1>1, <1>2, <1>4, <1>5, <1>6 DEF Justified

LEMMA InsertInv ==
  ASSUME IInv, NEW c \in Clients, Insert(c)
  PROVE  IInv'
<1>1. PICK d \in Dossiers \ DOMAIN envelopes, e \in Stored :
           /\ d = request[c].dossier /\ request[c] \in Request
           /\ e.bundle = request[c].bundle /\ e.signature = request[c].signature
           /\ \A k \in 1..Len(e.bundle.evidence) : e.bundle.evidence[k] \in certs
           /\ e.signature.dossier = d /\ e.signature.bundle = Fingerprint(e.bundle)
           /\ e.signature.issued_at <= now
           /\ envelopes' = Put(envelopes, d, e)
  BY InsertAdds
<1>2. /\ DOMAIN envelopes' = DOMAIN envelopes \cup {d}
      /\ envelopes'[d] = e
      /\ \A x \in DOMAIN envelopes : envelopes'[x] = envelopes[x]
  BY <1>1 DEF Put
<1>3. PICK r \in Request : r = [request[c] EXCEPT !.pc = "ok"]
  BY <1>1 DEF Request, Busy
<1>4. r.pc = "ok" /\ r.dossier = d /\ r.bundle = e.bundle /\ r.signature = e.signature
  BY <1>1, <1>3 DEF Request
<1>5. request' = [request EXCEPT ![c] = r]
  BY <1>3 DEF Insert, Goto
<1>6. UNCHANGED <<certs, answers, now, faults>>
  BY DEF Insert
<1>7. TypeOK'
  <2>1. envelopes' \in [DOMAIN envelopes' -> Stored]
    <3>1. envelopes' = [x \in DOMAIN envelopes' |-> envelopes'[x]]
      BY <1>1 DEF Put
    <3>2. \A x \in DOMAIN envelopes' : envelopes'[x] \in Stored
      BY <1>2 DEF IInv, TypeOK
    <3> QED
      BY <3>1, <3>2
  <2>2. DOMAIN envelopes' \subseteq Dossiers
    BY <1>2 DEF IInv, TypeOK
  <2> QED
    BY <2>1, <2>2, <1>5, <1>6 DEF IInv, TypeOK
<1>8. EnvelopesAreSound'
  <2>1. ASSUME NEW x \in DOMAIN envelopes'
        PROVE  LET f == envelopes'[x] IN
                 /\ \A k \in DOMAIN f.bundle.evidence : f.bundle.evidence[k] \in certs
                 /\ f.signature.dossier = x /\ f.signature.bundle = Fingerprint(f.bundle)
                 /\ f.signature.issued_at <= now
    <3>1. CASE x \in DOMAIN envelopes
      BY <3>1, <1>2 DEF IInv, EnvelopesAreSound
    <3>2. CASE x = d
      <4>1. DOMAIN e.bundle.evidence = 1..Len(e.bundle.evidence)
        BY Evidence DEF Stored
      <4> QED
        BY <4>1, <3>2, <1>1, <1>2
    <3> QED
      BY <3>1, <3>2, <1>2
  <2> QED
    BY <2>1, <1>6 DEF EnvelopesAreSound
<1>9. ASSUME NEW b \in Clients PROVE Justified(request[b])'
  <2>1. CASE b = c
    <3>1. request'[b] = r
      BY <2>1, <1>5 DEF IInv, TypeOK
    <3> QED
      BY <3>1, <1>2, <1>4 DEF Justified
  <2>2. CASE b # c
    <3>1. request'[b] = request[b] /\ Justified(request[b])
      BY <2>2, <1>5 DEF IInv, TypeOK, HandlersJustified
    <3> QED
      BY <3>1, <1>2, <1>6 DEF Justified
  <2> QED
    BY <2>1, <2>2
<1> QED
  BY <1>7, <1>8, <1>9 DEF IInv, HandlersJustified

LEMMA NextInv == IInv /\ [Next]_vars => IInv'
<1> SUFFICES ASSUME IInv, [Next]_vars PROVE IInv'
  OBVIOUS
<1>1. ASSUME NEW c \in Clients, Handle(c) \/ Resubmit(c) \/ Fault(c) PROVE IInv'
  <2>1. CASE CheckEvidence(c)
    BY <2>1, CheckInv
  <2>2. CASE Look(c)
    BY <2>2, LookInv
  <2>3. CASE Insert(c)
    BY <2>3, InsertInv
  <2>4. CASE Duplicate(c)
    <3>1. request[c] \in Request
      BY <2>4, AtWork DEF Duplicate, Doing, IInv
    <3> QED
      BY <3>1, <2>4, GotoInv DEF Duplicate, IInv, TypeOK
  <2>5. CASE Reply(c)
    <3>1. request[c] \in Request
      BY <2>5, AtWork DEF Reply, IInv
    <3> QED
      BY <3>1, <2>5, GotoInv DEF Reply, IInv, TypeOK
  <2>6. CASE Resubmit(c)
    BY <2>6, ResubmitInv
  <2>7. CASE Fault(c)
    <3>1. request[c] \in Request
      BY <2>7, AtWork DEF Fault, IInv
    <3>2. faults' \in Nat
      BY <2>7 DEF Fault, IInv, TypeOK
    <3> QED
      BY <3>1, <3>2, <2>7, GotoInv DEF Fault
  <2> QED
    BY <1>1, <2>1, <2>2, <2>3, <2>4, <2>5, <2>6, <2>7 DEF Handle
<1>2. ASSUME NEW c \in Clients, NEW d \in Dossiers, NEW b \in Bundles, Submit(c, d, b)
      PROVE  IInv'
  BY <1>2, SubmitInv
<1>3. ASSUME NEW i \in Certs, Certify(i) PROVE IInv'
  <2>1. certs \subseteq certs' /\ certs' \subseteq Certs
        /\ UNCHANGED <<envelopes, request, now, faults>>
    BY <1>3 DEF Certify, IInv, TypeOK
  <2>2. TypeOK'
    BY <2>1 DEF IInv, TypeOK
  <2>3. HandlersJustified'
    BY <2>1 DEF IInv, HandlersJustified, Justified
  <2>4. EnvelopesAreSound'
    BY <2>1 DEF IInv, EnvelopesAreSound
  <2> QED
    BY <2>2, <2>3, <2>4 DEF IInv
<1>4. CASE Tick
  <2>1. UNCHANGED <<certs, envelopes, request, answers, faults>> /\ now' = now + 1 /\ now \in Nat
    BY <1>4 DEF Tick, IInv, TypeOK
  <2>2. TypeOK'
    BY <2>1 DEF IInv, TypeOK
  <2>3. HandlersJustified'
    <3>1. ASSUME NEW c \in Clients, request[c].pc = "insert"
          PROVE  request[c].signature.issued_at <= now + 1
      <4>1. request[c].signature \in Signatures /\ request[c].signature.issued_at <= now
        BY <3>1 DEF IInv, HandlersJustified, Justified
      <4> QED
        BY <4>1, <2>1 DEF Signatures
    <3> QED
      BY <3>1, <2>1 DEF IInv, HandlersJustified, Justified
  <2>4. EnvelopesAreSound'
    <3>1. ASSUME NEW d \in DOMAIN envelopes
          PROVE  envelopes[d].signature.issued_at <= now + 1
      <4>1. envelopes[d].signature \in Signatures /\ envelopes[d].signature.issued_at <= now
        BY DEF IInv, TypeOK, Stored, EnvelopesAreSound
      <4> QED
        BY <4>1, <2>1 DEF Signatures
    <3> QED
      BY <3>1, <2>1 DEF IInv, EnvelopesAreSound
  <2> QED
    BY <2>2, <2>3, <2>4 DEF IInv
<1>5. CASE UNCHANGED vars
  BY <1>5 DEF vars, IInv, TypeOK, HandlersJustified, Justified, EnvelopesAreSound
<1> QED
  BY <1>1, <1>2, <1>3, <1>4, <1>5 DEF Next

LEMMA Inductive == Spec => []IInv
BY InitInv, NextInv, PTL DEF Spec

(* Every row of dossier_envelopes and every submission in flight has the   *)
(* shape create_envelope gives it, wherever it was cut off.                *)
THEOREM TypeCorrect == Spec => []TypeOK
<1>1. IInv => TypeOK
  BY DEF IInv
<1> QED
  BY <1>1, Inductive, PTL

(* Every stored envelope rests on issued certificates and is signed for    *)
(* the dossier and bundle it is stored with (create_envelope).             *)
THEOREM SoundEnvelopes == Spec => []EnvelopesAreSound
<1>1. IInv => EnvelopesAreSound
  BY DEF IInv
<1> QED
  BY <1>1, Inductive, PTL

(* What create_envelope found before an await is still so after it.        *)
THEOREM FindingsStand == Spec => []HandlersJustified
<1>1. IInv => HandlersJustified
  BY DEF IInv
<1> QED
  BY <1>1, Inductive, PTL

-----------------------------------------------------------------------------
LEMMA InitRegistry == Init => Registry!Init
<1> SUFFICES ASSUME Init PROVE Registry!Init
  OBVIOUS
<1>1. DOMAIN envelopes = {}
  BY DEF Init
<1>2. Signed = [d \in {} |-> {}]
  BY <1>1 DEF Signed
<1> QED
  BY <1>2 DEF Init, Registry!Init

LEMMA StepRegistry == IInv /\ [Next]_vars => [Registry!Next]_(Registry!registryVars)
<1> SUFFICES ASSUME IInv, [Next]_vars PROVE [Registry!Next]_(Registry!registryVars)
  OBVIOUS
<1>1. ASSUME UNCHANGED <<envelopes, answers>> PROVE UNCHANGED Registry!registryVars
  BY <1>1 DEF Registry!registryVars, Signed
<1>2. ASSUME NEW c \in Clients, Insert(c) PROVE Registry!Next
  <2>1. PICK d \in Dossiers \ DOMAIN envelopes, e \in Stored :
           /\ e.signature.bundle = Fingerprint(e.bundle)
           /\ envelopes' = Put(envelopes, d, e)
    BY <1>2, InsertAdds
  <2>2. /\ DOMAIN envelopes' = DOMAIN envelopes \cup {d}
        /\ envelopes'[d] = e
        /\ \A x \in DOMAIN envelopes : envelopes'[x] = envelopes[x]
    BY <2>1 DEF Put
  <2>3. /\ DOMAIN Signed = DOMAIN envelopes
        /\ DOMAIN Signed' = DOMAIN envelopes \cup {d}
        /\ \A x \in DOMAIN envelopes : Signed'[x] = Signed[x]
        /\ Signed'[d] = [bundle |-> Fingerprint(e.bundle), signature |-> e.signature]
    BY <2>2 DEF Signed
  <2>4. Signed'[d] \in Registry!Envelope
    <3>1. Fingerprint(e.bundle) \in Canonical /\ e.signature \in Signatures
      BY DEF Canonical, Stored
    <3> QED
      BY <2>3, <3>1 DEF Registry!Envelope
  <2>5. Signed' = [x \in DOMAIN Signed \cup {d} |-> IF x = d THEN Signed'[d] ELSE Signed[x]]
    <3>1. Signed' = [x \in DOMAIN Signed' |-> Signed'[x]]
      BY DEF Signed
    <3> QED
      BY <3>1, <2>1, <2>3
  <2>6. Registry!Sign(d)
    BY <2>1, <2>3, <2>4, <2>5, <1>2 DEF Registry!Sign, Insert
  <2> QED
    BY <2>1, <2>6 DEF Registry!Next
<1>3. ASSUME NEW c \in Clients, Reply(c) PROVE Registry!Next
  <2>1. PICK r \in Request : r = request[c] /\ r.pc \in {"ok", "conflict"}
    <3>1. request[c] \in Request /\ request[c].pc \in {"ok", "conflict"}
      BY <1>3, AtWork DEF Reply, IInv
    <3> QED
      BY <3>1, Zenon
  <2>2. Justified(r) /\ r.dossier \in Dossiers /\ Fingerprint(r.bundle) \in Canonical
    BY <2>1 DEF IInv, HandlersJustified, Request, Canonical
  <2>3. envelopes' = envelopes /\ Signed' = Signed
    BY <1>3 DEF Reply, Signed
  <2>4. \A d \in DOMAIN envelopes :
          /\ d \in DOMAIN Signed
          /\ Signed[d].bundle = Fingerprint(envelopes[d].bundle)
          /\ Signed[d].signature = envelopes[d].signature
    BY DEF Signed
  <2>5. CASE r.pc = "ok"
    <3>1. answers' = answers \cup {[dossier |-> r.dossier, outcome |-> "ok",
             bundle |-> Fingerprint(r.bundle), signature |-> r.signature]}
      BY <1>3, <2>1, <2>5 DEF Reply
    <3>2. /\ r.dossier \in DOMAIN Signed
          /\ Signed[r.dossier].bundle = Fingerprint(r.bundle)
          /\ Signed[r.dossier].signature = r.signature
      BY <2>2, <2>4, <2>5 DEF Justified
    <3>3. Registry!AnswerOk(r.dossier)
      BY <3>1, <3>2, <2>3 DEF Registry!AnswerOk
    <3> QED
      BY <3>3, <2>2 DEF Registry!Next
  <2>6. CASE r.pc = "conflict"
    <3>1. answers' = answers \cup {[dossier |-> r.dossier, outcome |-> "conflict",
                                    bundle |-> Fingerprint(r.bundle)]}
      BY <1>3, <2>1, <2>6 DEF Reply
    <3>2. /\ r.dossier \in DOMAIN Signed
          /\ Signed[r.dossier].bundle # Fingerprint(r.bundle)
      BY <2>2, <2>4, <2>6 DEF Justified
    <3>3. Registry!AnswerConflict(r.dossier, Fingerprint(r.bundle))
      BY <3>1, <3>2, <2>3 DEF Registry!AnswerConflict
    <3> QED
      BY <3>3, <2>2 DEF Registry!Next
  <2> QED
    BY <2>1, <2>5, <2>6
<1>4. CASE UNCHANGED vars
  BY <1>1, <1>4 DEF vars
<1>5. ASSUME NEW c \in Clients,
             CheckEvidence(c) \/ Look(c) \/ Duplicate(c) \/ Resubmit(c) \/ Fault(c)
      PROVE  UNCHANGED <<envelopes, answers>>
  BY <1>5 DEF CheckEvidence, Look, Duplicate, Resubmit, Fault
<1>6. ASSUME NEW c \in Clients, NEW d \in Dossiers, NEW b \in Bundles, Submit(c, d, b)
      PROVE  UNCHANGED <<envelopes, answers>>
  BY <1>6 DEF Submit
<1>7. ASSUME NEW i \in Certs, Certify(i) PROVE UNCHANGED <<envelopes, answers>>
  BY <1>7 DEF Certify
<1>8. ASSUME Tick PROVE UNCHANGED <<envelopes, answers>>
  BY <1>8 DEF Tick
<1> QED
  BY <1>1, <1>2, <1>3, <1>4, <1>5, <1>6, <1>7, <1>8 DEF Next, Handle

(* create_envelope keeps the promise of DossierRegistry: one signature per *)
(* dossier for good, and answers that agree with it, whatever is submitted *)
(* together, fails half-way, crashes or is submitted again.                *)
THEOREM DossierImplementsRegistry == Spec => OneSignature
<1>1. Spec => Registry!Init /\ [][Registry!Next]_(Registry!registryVars)
  BY Inductive, InitRegistry, StepRegistry, PTL DEF Spec
<1> QED
  BY <1>1 DEF OneSignature, Registry!Spec

LEMMA RegistryStep ==
  ASSUME Registry!OneEnvelope, [Registry!Next]_(Registry!registryVars)
  PROVE  Registry!OneEnvelope'
<1>1. ASSUME NEW d \in Dossiers, Registry!Sign(d) PROVE Registry!OneEnvelope'
  <2>1. /\ answers' = answers
        /\ \A x \in DOMAIN Signed : x \in DOMAIN Signed' /\ Signed'[x] = Signed[x]
    BY <1>1 DEF Registry!Sign
  <2> QED
    BY <2>1 DEF Registry!OneEnvelope
<1>2. ASSUME NEW d \in Dossiers, Registry!AnswerOk(d) PROVE Registry!OneEnvelope'
  <2> DEFINE a == [dossier |-> d, outcome |-> "ok", bundle |-> Signed[d].bundle,
                   signature |-> Signed[d].signature]
  <2>1. /\ a.dossier = d /\ a.outcome = "ok" /\ a.outcome # "conflict"
        /\ a.bundle = Signed[d].bundle /\ a.signature = Signed[d].signature
    OBVIOUS
  <2>2. d \in DOMAIN Signed /\ Signed' = Signed /\ answers' = answers \cup {a}
    BY <1>2 DEF Registry!AnswerOk
  <2> HIDE DEF a
  <2> QED
    BY <2>1, <2>2 DEF Registry!OneEnvelope
<1>3. ASSUME NEW d \in Dossiers, NEW b \in Canonical, Registry!AnswerConflict(d, b)
      PROVE  Registry!OneEnvelope'
  <2> DEFINE a == [dossier |-> d, outcome |-> "conflict", bundle |-> b]
  <2>1. a.dossier = d /\ a.outcome = "conflict" /\ a.outcome # "ok" /\ a.bundle = b
    OBVIOUS
  <2>2. /\ d \in DOMAIN Signed /\ b # Signed[d].bundle
        /\ Signed' = Signed /\ answers' = answers \cup {a}
    BY <1>3 DEF Registry!AnswerConflict
  <2> HIDE DEF a
  <2> QED
    BY <2>1, <2>2 DEF Registry!OneEnvelope
<1>4. CASE UNCHANGED Registry!registryVars
  BY <1>4 DEF Registry!registryVars, Registry!OneEnvelope
<1> QED
  BY <1>1, <1>2, <1>3, <1>4 DEF Registry!Next

(* All 200s for a dossier carry the one signature that is stored, and no   *)
(* 409 is given for the bundle it covers (routers/dossiers.py).            *)
THEOREM ClientsAgree == Spec => []AnswersAgree
<1>1. Registry!Init => Registry!OneEnvelope
  BY DEF Registry!Init, Registry!OneEnvelope
<1>2. Spec => Registry!Init /\ [][Registry!Next]_(Registry!registryVars)
  BY DossierImplementsRegistry DEF OneSignature, Registry!Spec
<1>3. Spec => []Registry!OneEnvelope
  BY <1>1, <1>2, RegistryStep, PTL
<1> QED
  BY <1>3 DEF AnswersAgree
=============================================================================
