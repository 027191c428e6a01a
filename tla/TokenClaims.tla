----------------------------- MODULE TokenClaims -----------------------------
(***************************************************************************)
(* Verifying a platform token (platform/token_verifier.py): no I/O and no  *)
(* clock, the caller passes the trusted keys in order and the time.  A     *)
(* token is a record of what the verifier reads of it:                     *)
(*   form    what becomes of parsing it: "jwt", "unreadable" (no header),  *)
(*           "other algorithm", "no object" (its payload is no JSON object)*)
(*   signer  the key that signed it                                        *)
(*   iss, role, aud, sub   the claim, or Absent: missing or not a string,  *)
(*                         for sub also empty                              *)
(*   exp, iat              the claim, or Absent: missing or not an integer *)
(*                                                                         *)
(* An operator commented "Slip" is a mistake somebody could make in the    *)
(* definition below it, used by nothing: the README says what for.         *)
(***************************************************************************)
EXTENDS Integers, Sequences

CONSTANTS
  Bastion, Frontend,  \* the issuers
  FrontendRole,       \* the only role inkprint-frontend's key vouches for
  Service,            \* SERVICE_ID, the one audience
  Absent,             \* a claim that is missing or of the wrong type
  Leeway,             \* LEEWAY_S
  MaxLifetime         \* MAX_LIFETIME_S

ClaimParameters ==
  /\ Bastion # Frontend /\ Absent \notin {Bastion, Frontend, FrontendRole, Service} \cup Int
  /\ Leeway \in Nat /\ MaxLifetime \in Nat
ASSUME ClaimParametersAssumption == ClaimParameters

Accepted(iss, sub, role) == [verdict |-> "accepted", iss |-> iss, sub |-> sub, role |-> role]
Rejected(reason)         == [verdict |-> "rejected", reason |-> reason]

(* Slip: a key vouches for whatever issuer the token names.                *)
AnyIssuer(trusted, token) ==
  IF trusted.issuer = Frontend /\ token.role # FrontendRole THEN "role" ELSE "ok"

(* The key decides which iss, and for the frontend which role, it vouches  *)
(* for.                                                                    *)
IssuerPolicy(trusted, token) ==
  IF token.iss # trusted.issuer THEN "issuer"
  ELSE IF trusted.issuer = Frontend /\ token.role # FrontendRole THEN "role"
  ELSE "ok"

(* Audience, times and subject, in this order.                             *)
ClaimRules(token, now) ==
  IF token.aud # Service                             THEN "audience"
  ELSE IF Absent \in {token.exp, token.iat}          THEN "claims"
  ELSE IF token.exp + Leeway <= now                  THEN "expired"
  ELSE IF token.iat - Leeway > now                   THEN "not_yet_valid"
  ELSE IF token.exp - token.iat \notin 1..MaxLifetime THEN "lifetime"
  ELSE IF token.sub = Absent                         THEN "claims"
  ELSE "ok"

(* The keys, by index, under which the signature verifies, and those of    *)
(* them whose issuer policy the token meets.  A key's policy failure gives *)
(* the next key a chance, a rule failure ends the loop.                    *)
Signing(token, keys)  == {i \in DOMAIN keys : keys[i].key = token.signer}
Vouching(token, keys) == {i \in Signing(token, keys) : IssuerPolicy(keys[i], token) = "ok"}

FirstOf(S) == CHOOSE i \in S : \A j \in S : i <= j

Verify(token, keys, now) ==
  LET signing  == Signing(token, keys)
      vouching == Vouching(token, keys)
      failure  == ClaimRules(token, now)
  IN IF token.form = "unreadable"           THEN Rejected("malformed")
     ELSE IF token.form = "other algorithm" THEN Rejected("algorithm")
     ELSE IF signing = {}                   THEN Rejected("signature")
     ELSE IF token.form = "no object"       THEN Rejected("malformed")
     ELSE IF vouching = {} THEN Rejected(IssuerPolicy(keys[FirstOf(signing)], token))
     ELSE IF failure # "ok"                 THEN Rejected(failure)
     ELSE Accepted(keys[FirstOf(vouching)].issuer, token.sub, token.role)

Accepts(token, keys, now) == Verify(token, keys, now).verdict = "accepted"
=============================================================================
