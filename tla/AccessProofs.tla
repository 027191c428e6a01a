---------------------------- MODULE AccessProofs ----------------------------
(***************************************************************************)
(* What the token rules and the table of public routes promise, for every  *)
(* token, list of keys, path and time.                                     *)
(***************************************************************************)
EXTENDS TokenClaims, PublicRoutes, WellFoundedInduction, TLAPS

(* A set of naturals that is not empty has a first element.                *)
LEMMA FirstOfIsMember ==
  ASSUME NEW S \in SUBSET Nat, S # {}
  PROVE  FirstOf(S) \in S /\ \A j \in S : FirstOf(S) <= j
<1>1. PICK i \in S : \A j \in S : <<j, i>> \notin OpToRel(<, Nat)
  BY NatLessThanWellFounded, WFMin
<1>2. ASSUME NEW j \in S PROVE ~ (j < i)
  BY <1>1, Zenon DEF OpToRel
<1>3. \A j \in S : i <= j
  BY <1>2
<1> QED BY <1>3 DEF FirstOf

(* A token whose times are integers where they are claimed at all, and a   *)
(* list of keys, each of an issuer's.                                      *)
TimedToken(token) == {token.exp, token.iat} \subseteq Int \cup {Absent}

KeyList(keys) ==
  DOMAIN keys \subseteq Nat /\ \A i \in DOMAIN keys : keys[i].issuer \in {Bastion, Frontend}

(* Accepting is finding a key that signed the token and vouches for its    *)
(* issuer, and a token that meets every rule.                              *)
LEMMA AcceptsMeans ==
  ASSUME NEW token, NEW keys, KeyList(keys), NEW now \in Int
  PROVE  Accepts(token, keys, now) <=>
           /\ token.form \notin {"unreadable", "other algorithm", "no object"}
           /\ Vouching(token, keys) # {}
           /\ ClaimRules(token, now) = "ok"
<1>1. Vouching(token, keys) \subseteq Signing(token, keys)
  BY DEF Vouching
<1> QED BY <1>1 DEF Accepts, Verify, Accepted, Rejected

(* The principal of an accepted token is the issuer of a trusted key that  *)
(* signed it; the frontend's key makes nobody but the frontend.            *)
THEOREM AcceptedIsVouched ==
  ASSUME NEW token, NEW keys, KeyList(keys), NEW now \in Int, Accepts(token, keys, now)
  PROVE  \E i \in DOMAIN keys :
           /\ keys[i].key = token.signer /\ keys[i].issuer = token.iss
           /\ Verify(token, keys, now).iss = token.iss
           /\ token.iss = Frontend => token.role = FrontendRole
<1> DEFINE first == FirstOf(Vouching(token, keys))
<1>1. Vouching(token, keys) # {} /\ Vouching(token, keys) \subseteq DOMAIN keys
  BY AcceptsMeans DEF Vouching, Signing
<1>2. first \in Vouching(token, keys)
  BY <1>1, FirstOfIsMember DEF KeyList
<1>3. /\ first \in DOMAIN keys /\ keys[first].key = token.signer
      /\ IssuerPolicy(keys[first], token) = "ok"
  BY <1>2 DEF Vouching, Signing
<1>4. keys[first].issuer = token.iss /\ (token.iss = Frontend => token.role = FrontendRole)
  BY <1>3 DEF IssuerPolicy
<1>5. Verify(token, keys, now).iss = keys[first].issuer
  BY DEF Accepts, Verify, Accepted, Rejected
<1> QED BY <1>3, <1>4, <1>5

(* When a token that is accepted is in time.                               *)
LEMMA AcceptedInTime ==
  ASSUME NEW token, TimedToken(token), NEW keys, KeyList(keys), NEW now \in Int,
         Accepts(token, keys, now)
  PROVE  /\ token.exp \in Int /\ token.iat \in Int
         /\ token.iat - Leeway <= now /\ now < token.exp + Leeway
         /\ token.exp - token.iat \in 1..MaxLifetime
<1>1. ClaimRules(token, now) = "ok"
  BY AcceptsMeans
<1>2. Leeway \in Nat
  BY ClaimParametersAssumption DEF ClaimParameters
<1>3. token.exp \in Int /\ token.iat \in Int
  BY <1>1 DEF ClaimRules, TimedToken
<1> QED BY <1>1, <1>2, <1>3 DEF ClaimRules

(* However a token claims to be dated, the times at which it is accepted,  *)
(* under whatever keys, span less than its longest lifetime and a leeway   *)
(* at either end: no token is good for longer.                             *)
THEOREM AcceptanceWindow ==
  ASSUME NEW token, TimedToken(token), NEW keys1, KeyList(keys1), NEW keys2, KeyList(keys2),
         NEW from \in Int, NEW to \in Int,
         Accepts(token, keys1, from), Accepts(token, keys2, to)
  PROVE  to - from < MaxLifetime + 2 * Leeway
<1>1. token.exp \in Int /\ token.iat \in Int /\ token.exp - token.iat <= MaxLifetime
  BY AcceptedInTime, ClaimParametersAssumption DEF ClaimParameters
<1>2. token.iat - Leeway <= from
  BY AcceptedInTime
<1>3. to < token.exp + Leeway
  BY AcceptedInTime
<1> QED BY <1>1, <1>2, <1>3, ClaimParametersAssumption DEF ClaimParameters

(* The order of the trusted keys, and a key listed twice, decide nothing   *)
(* but the reason of a refusal.                                            *)
THEOREM KeyOrderIrrelevant ==
  ASSUME NEW token, NEW keys1, KeyList(keys1), NEW keys2, KeyList(keys2), NEW now \in Int,
         \A i \in DOMAIN keys1 : \E j \in DOMAIN keys2 : keys2[j] = keys1[i],
         Accepts(token, keys1, now)
  PROVE  /\ Accepts(token, keys2, now)
         /\ Verify(token, keys2, now) = Verify(token, keys1, now)
<1>1. Vouching(token, keys1) # {} /\ ClaimRules(token, now) = "ok"
  BY AcceptsMeans
<1>2. PICK i \in DOMAIN keys1 :
        keys1[i].key = token.signer /\ IssuerPolicy(keys1[i], token) = "ok"
  BY <1>1 DEF Vouching, Signing
<1>3. PICK j \in DOMAIN keys2 : keys2[j] = keys1[i]
  OBVIOUS
<1>4. Vouching(token, keys2) # {}
  BY <1>2, <1>3 DEF Vouching, Signing
<1>5. Accepts(token, keys2, now)
  BY <1>1, <1>4, AcceptsMeans
<1>6. Verify(token, keys1, now).iss = token.iss /\ Verify(token, keys2, now).iss = token.iss
  BY <1>5, AcceptedIsVouched
<1>7. ASSUME NEW keys, KeyList(keys), Accepts(token, keys, now)
      PROVE  Verify(token, keys, now)
               = Accepted(Verify(token, keys, now).iss, token.sub, token.role)
  BY <1>7 DEF Accepts, Verify, Accepted, Rejected
<1> QED BY <1>5, <1>6, <1>7

-----------------------------------------------------------------------------
(* No path a router serves to store something or to read for an            *)
(* authenticated caller is public, whatever the id in it, and a path under *)
(* /certificates is public to read only.                                   *)
THEOREM ProtectedRoutes ==
  ASSUME NEW id \in STRING
  PROVE  /\ \A path \in Issuing : ~IsPublic("POST", path)
         /\ \A route \in Reading(id) : ~IsPublic(route[1], route[2])
         /\ \A method \in STRING : IsPublic(method, <<"certificates", id>>) => method = "GET"
<1>1. \A path \in Issuing : ~IsPublic("POST", path)
  BY DEF Issuing, IsPublic, Infrastructure, Verification
<1>2. \A route \in Reading(id) : ~IsPublic(route[1], route[2])
  BY DEF Reading, IsPublic, Infrastructure, Verification
<1>3. \A method \in STRING : IsPublic(method, <<"certificates", id>>) => method = "GET"
  BY DEF IsPublic, Infrastructure, Verification
<1> QED BY <1>1, <1>2, <1>3
=============================================================================
