-------------------------- MODULE TrustedKeysProofs --------------------------
(***************************************************************************)
(* Proofs about TrustedKeys, for any numbers of requests, keys, tokens and *)
(* deployments and any times.                                              *)
(***************************************************************************)
EXTENDS TrustedKeys, AccessProofs

USE KeyParametersAssumption DEF KeyParameters

(* The lock is held by the request that fetches, which is not queued.      *)
LockHeld ==
  /\ lock \in Requests \cup {None} /\ lock \notin Range(waiting)
  /\ \A r \in Requests : fetch[r] # None <=> r = lock

(* The fetch under way ends in time for everybody in flight, and a release *)
(* leaves what was fetched at this very time to those that queue.          *)
Deadlines ==
  /\ lock # None => now <= fetch[lock] /\ fetch[lock] <= now + FetchTime
  /\ lock # None => \A r \in InFlight : fetch[lock] <= request[r].since + FetchTime
  /\ lock = None /\ waiting # <<>> => cache # None /\ cache.at = now

(* The cache is what the last fetch brought.                               *)
Remembered == cache = lastFetch /\ (cache # None => cache.at <= now)

(* The published key is the last to have changed; a cached key that was    *)
(* withdrawn had been offered to a fetch that ended soon after.            *)
Rotations ==
  /\ \A k \in BastionKeys : changed[k] <= changed[published] /\ changed[k] <= now
  /\ cache # None /\ cache.key # None /\ cache.key # published =>
       cache.at <= changed[cache.key] + FetchTime

Holds == TypeOK /\ LockHeld /\ Deadlines /\ WaitsOneFetch /\ Remembered /\ Rotations

-----------------------------------------------------------------------------
LEMMA Appended ==
  ASSUME NEW S, NEW q \in Seq(S), IsInjective(q), NEW x \in S, x \notin Range(q)
  PROVE  /\ Append(q, x) \in Seq(S) /\ IsInjective(Append(q, x))
         /\ Range(Append(q, x)) = Range(q) \cup {x} /\ Append(q, x) # <<>>
<1>1. /\ Append(q, x) \in Seq(S) /\ DOMAIN Append(q, x) = 1..(Len(q) + 1)
      /\ DOMAIN q = 1..Len(q) /\ Len(q) \in Nat
      /\ \A i \in DOMAIN q : Append(q, x)[i] = q[i]
      /\ Append(q, x)[Len(q) + 1] = x /\ Append(q, x) # <<>>
  OBVIOUS
<1>2. IsInjective(Append(q, x))
  BY <1>1 DEF IsInjective, Range
<1>3. Range(Append(q, x)) = Range(q) \cup {x}
  <2>1. \A i \in DOMAIN Append(q, x) : i \in DOMAIN q \/ i = Len(q) + 1
    BY <1>1
  <2>2. DOMAIN q \subseteq DOMAIN Append(q, x) /\ Len(q) + 1 \in DOMAIN Append(q, x)
    BY <1>1
  <2> QED BY <1>1, <2>1, <2>2 DEF Range
<1> QED BY <1>1, <1>2, <1>3

LEMMA Dequeued ==
  ASSUME NEW S, NEW q \in Seq(S), IsInjective(q), q # <<>>
  PROVE  /\ Tail(q) \in Seq(S) /\ IsInjective(Tail(q)) /\ Head(q) \in S
         /\ Head(q) \in Range(q) /\ Range(Tail(q)) = Range(q) \ {Head(q)}
<1>1. /\ Tail(q) \in Seq(S) /\ DOMAIN Tail(q) = 1..(Len(q) - 1) /\ DOMAIN q = 1..Len(q)
      /\ Len(q) \in Nat /\ Len(q) > 0 /\ Head(q) = q[1] /\ Head(q) \in S
      /\ \A i \in DOMAIN Tail(q) : Tail(q)[i] = q[i + 1] /\ i + 1 \in DOMAIN q
  OBVIOUS
<1>2. IsInjective(Tail(q))
  BY <1>1 DEF IsInjective
<1>3. Head(q) \in Range(q)
  BY <1>1 DEF Range
<1>4. ASSUME NEW x \in Range(Tail(q)) PROVE x \in Range(q) \ {Head(q)}
  <2>1. PICK i \in DOMAIN Tail(q) : x = Tail(q)[i]
    BY DEF Range
  <2>2. x = q[i + 1] /\ i + 1 # 1 /\ 1 \in DOMAIN q /\ i + 1 \in DOMAIN q
    BY <1>1, <2>1
  <2> QED BY <1>1, <2>2 DEF Range, IsInjective
<1>5. ASSUME NEW x \in Range(q) \ {Head(q)} PROVE x \in Range(Tail(q))
  <2>1. PICK i \in DOMAIN q : x = q[i]
    BY DEF Range
  <2>2. i - 1 \in DOMAIN Tail(q) /\ Tail(q)[i - 1] = x
    BY <1>1, <1>5, <2>1
  <2> QED BY <2>2 DEF Range
<1> QED BY <1>1, <1>2, <1>3, <1>4, <1>5

-----------------------------------------------------------------------------
(* The keys resolve returns, bastion's first.                              *)
LEMMA ResolvedKeys ==
  ASSUME settings \in Settings, NEW key \in BastionKeys \cup {None}
  PROVE  /\ KeyList(Resolved(key))
         /\ \A i \in DOMAIN Resolved(key) :
              \/ Resolved(key)[i] = [issuer |-> Bastion, key |-> key] /\ key # None
              \/ Resolved(key)[i] = [issuer |-> Frontend, key |-> FrontendKey]
         /\ key # None => \E i \in DOMAIN Resolved(key) :
                            Resolved(key)[i] = [issuer |-> Bastion, key |-> key]
         /\ Resolved(key) = <<>> => key = None
<1> DEFINE f == Parsed(settings.frontendKey)
           B == [issuer |-> Bastion, key |-> key]
           F == [issuer |-> Frontend, key |-> f]
<1>1. f \in {FrontendKey, None}
  BY DEF Settings, Parsed
<1>2. Resolved(key) = (IF key = None THEN <<>> ELSE <<B>>) \o (IF f = None THEN <<>> ELSE <<F>>)
  BY DEF Resolved, Trust
<1> HIDE DEF f, B, F
<1>3. CASE key = None /\ f = None
  <2>1. Resolved(key) = <<>>
    BY <1>2, <1>3
  <2> QED BY <1>3, <2>1 DEF KeyList
<1>4. CASE key # None /\ f = None
  <2>1. Resolved(key) = <<B>>
    BY <1>2, <1>4
  <2> QED BY <1>4, <2>1 DEF KeyList, B
<1>5. CASE key = None /\ f # None
  <2>1. Resolved(key) = <<F>>
    BY <1>2, <1>5
  <2> QED BY <1>1, <1>5, <2>1 DEF KeyList, F
<1>6. CASE key # None /\ f # None
  <2>1. Resolved(key) = <<B>> \o <<F>>
    BY <1>2, <1>6
  <2>2. /\ Len(Resolved(key)) = 2 /\ Resolved(key) \in Seq({B, F})
        /\ Resolved(key)[1] = B /\ Resolved(key)[2] = F
    BY <2>1
  <2>4. DOMAIN Resolved(key) = {1, 2} /\ Resolved(key) # <<>>
    BY <2>2
  <2>3. B.issuer = Bastion /\ F.issuer = Frontend
    BY DEF B, F
  <2> QED BY <1>1, <1>6, <2>2, <2>3, <2>4 DEF KeyList, B, F
<1> QED BY <1>3, <1>4, <1>5, <1>6

LEMMA TokensAreTimed == ASSUME NEW token \in Tokens PROVE TimedToken(token) /\ token \in Token
<1>1. token \in Token
  OBVIOUS
<1>2. token.exp \in Nat \cup {Absent} /\ token.iat \in Nat \cup {Absent}
  BY <1>1 DEF Token
<1> QED BY <1>1, <1>2 DEF TimedToken

(* What an answer to a token says of the key it was judged by.             *)
Sound(a, token, key, at) ==
  /\ a \in Answer /\ a.token = token /\ a.key = key
  /\ a.said = "proceeds" =>
       /\ a.iss # None /\ token.iss = a.iss
       /\ a.iss = Bastion => token.signer = key /\ key \in BastionKeys
       /\ a.iss = Frontend => token.signer = FrontendKey /\ token.role = FrontendRole
       /\ token.iat - Leeway <= at /\ at < token.exp + Leeway
  /\ a.said = "401 invalid_platform_token"
       /\ Accepts(token, Trust(Bastion, token.signer), at) => key # token.signer

LEMMA JudgedIsSound ==
  ASSUME settings \in Settings, NEW token \in Tokens, NEW key \in BastionKeys \cup {None},
         NEW at \in Nat
  PROVE  Sound(Judged(token, key, at), token, key, at)
<1> DEFINE a == Judged(token, key, at)
<1>a. a = Judged(token, key, at)
  OBVIOUS
<1> DEFINE keys == Resolved(key)
<1>1. /\ a = [route |-> "protected", token |-> token, key |-> key, said |-> Say(key, token, at),
               iss |-> IF Say(key, token, at) = "proceeds" THEN Verify(token, keys, at).iss
                       ELSE None]
      /\ Say(key, token, at) \in {"proceeds", "401 invalid_platform_token",
                                  "503 platform_auth_unconfigured"}
      /\ Say(key, token, at) = "proceeds" => Accepts(token, keys, at)
      /\ Say(key, token, at) = "401 invalid_platform_token" => ~Accepts(token, keys, at)
  BY DEF Judged, Say
<1>b. a.token = token /\ a.key = key /\ a.said = Say(key, token, at)
  BY DEF Judged
<1> HIDE DEF keys, a
<1>2. KeyList(keys) /\ TimedToken(token)
  BY ResolvedKeys, TokensAreTimed DEF keys
<1>3. CASE a.said = "proceeds"
  <2>1. Accepts(token, keys, at) /\ a.iss = Verify(token, keys, at).iss
    BY <1>1, <1>3
  <2>2. PICK i \in DOMAIN keys :
          /\ keys[i].key = token.signer /\ keys[i].issuer = token.iss
          /\ a.iss = token.iss /\ (token.iss = Frontend => token.role = FrontendRole)
    BY <1>2, <2>1, AcceptedIsVouched
  <2>3. token.iat - Leeway <= at /\ at < token.exp + Leeway
    BY <1>2, <2>1, AcceptedInTime
  <2>4. \/ token.iss = Bastion /\ token.signer = key /\ key # None
        \/ token.iss = Frontend /\ token.signer = FrontendKey
    BY <2>2, ResolvedKeys DEF keys
  <2>5. a.iss \in {Bastion, Frontend} /\ a.iss # None
    BY <2>2, <2>4
  <2>6. a \in Answer
    BY <1>1, <1>3, <2>5 DEF Answer
  <2>7. Sound(a, token, key, at)
    BY <1>b, <1>3, <2>2, <2>3, <2>4, <2>5, <2>6, ClaimParametersAssumption
    DEF ClaimParameters, Sound
  <2> QED BY <1>a, <2>7
<1>4. CASE a.said # "proceeds"
  <2>1. a \in Answer /\ a.token = token /\ a.key = key
    <3>1. a = [route |-> "protected", token |-> token, key |-> key, said |-> Say(key, token, at),
               iss |-> None]
      BY <1>1, <1>4, <1>b
    <3>2. Say(key, token, at) \in {"401 invalid_platform_token", "503 platform_auth_unconfigured"}
      BY <1>1, <1>4, <1>b
    <3>3. a \in Answer
      <4> DEFINE said == Say(key, token, at)
      <4> HIDE DEF said
      <4>1. ASSUME NEW s \in {"401 invalid_platform_token", "503 platform_auth_unconfigured"}
            PROVE  [route |-> "protected", token |-> token, key |-> key, said |-> s, iss |-> None]
                     \in Answer
        BY DEF Answer
      <4> QED BY <3>1, <3>2, <4>1, Zenon
    <3> QED BY <1>b, <3>3
  <2>2. ASSUME a.said = "401 invalid_platform_token",
               Accepts(token, Trust(Bastion, token.signer), at), key = token.signer
        PROVE  FALSE
    <3> DEFINE own == Trust(Bastion, key)
    <3>a. Accepts(token, own, at)
      BY <2>2
    <3>1. key # None
      BY <2>2, TokensAreTimed DEF Token, Signers
    <3>2. own = <<[issuer |-> Bastion, key |-> key]>>
      BY <3>1 DEF Trust
    <3>3. KeyList(own) /\ DOMAIN own = {1} /\ own[1] = [issuer |-> Bastion, key |-> key]
      BY <3>2 DEF KeyList
    <3>4. \A i \in DOMAIN own : \E j \in DOMAIN keys : keys[j] = own[i]
      BY <3>1, <3>3, ResolvedKeys DEF keys
    <3> HIDE DEF own
    <3>5. Accepts(token, keys, at)
      BY <1>2, <3>a, <3>3, <3>4, KeyOrderIrrelevant
    <3> QED BY <1>1, <1>b, <2>2, <3>5
  <2>3. Sound(a, token, key, at)
    BY <1>4, <2>1, <2>2 DEF Sound
  <2> QED BY <1>a, <2>3
<1> QED BY <1>3, <1>4

-----------------------------------------------------------------------------
Answered == ProceedsJustified /\ RotationTakesHold

(* A key held now was published not long ago.                              *)
Recent(key) ==
  key \in BastionKeys \cup {None} /\
  (key # None /\ key # published => now < changed[key] + FetchTime + KeyTTL)

LEMMA TypedNumbers ==
  ASSUME TypeOK
  PROVE  /\ now \in Nat /\ published \in BastionKeys /\ settings \in Settings
         /\ \A k \in BastionKeys : changed[k] \in Nat
         /\ KeyTTL \in Nat /\ FetchTime \in Nat /\ RetryAfter \in Nat /\ RetryAfter > 0
         /\ KeyTTL > 0 /\ None \notin Requests
BY DEF TypeOK

(* Answering a token by a recent key.                                      *)
LEMMA AnsweredByKey ==
  ASSUME Holds, NEW token \in Tokens, NEW key, Recent(key) \/ (~FromURL /\ key \in BastionKeys \cup {None}),
         answer' = Judged(token, key, now), UNCHANGED <<settings, bastion, now>>
  PROVE  Answered' /\ answer' \in Answer \cup {None}
<1> DEFINE a == Judged(token, key, now)
<1>a. a = Judged(token, key, now)
  OBVIOUS
<1> HIDE DEF a
<1>1. key \in BastionKeys \cup {None} /\ (FromURL => Recent(key))
  BY DEF Recent
<1>2. /\ now \in Nat /\ settings \in Settings /\ published \in BastionKeys
      /\ changed \in [BastionKeys -> Nat]
  BY TypedNumbers DEF Holds, TypeOK
<1>3. /\ a \in Answer /\ a.token = token /\ a.key = key
      /\ a.said = "proceeds" =>
           /\ a.iss # None /\ token.iss = a.iss
           /\ a.iss = Bastion => token.signer = key /\ key \in BastionKeys
           /\ a.iss = Frontend => token.signer = FrontendKey /\ token.role = FrontendRole
           /\ token.iat - Leeway <= now /\ now < token.exp + Leeway
      /\ a.said = "401 invalid_platform_token"
           /\ Accepts(token, Trust(Bastion, token.signer), now) => key # token.signer
  <2>1. Sound(a, token, key, now)
    BY <1>a, <1>1, <1>2, JudgedIsSound, Zenon
  <2> QED BY <2>1 DEF Sound
<1>4. answer' = a /\ settings' = settings /\ now' = now /\ published' = published
      /\ changed' = changed
  BY <1>a DEF bastion
<1>5. a.said = "proceeds" => a.iss \in {Bastion, Frontend}
  BY <1>3 DEF Answer
<1>6. ProceedsJustified'
  BY <1>3, <1>4, <1>5 DEF ProceedsJustified, KeysOf, AuthorizeBastion
<1>7. ASSUME FromURL, token.signer \in BastionKeys
      PROVE  /\ a.said = "proceeds" /\ token.signer # published =>
                  now < changed[token.signer] + FetchTime + KeyTTL
             /\ /\ a.said = "401 invalid_platform_token" /\ key # None
                /\ token.signer = published /\ Accepts(token, Trust(Bastion, token.signer), now)
                => now < changed[token.signer] + FetchTime + KeyTTL
  <2>1. ASSUME a.said = "proceeds", token.signer # published
        PROVE  now < changed[token.signer] + FetchTime + KeyTTL
    <3>1. a.iss = Bastion
      BY <1>3, <1>5, <1>7, <2>1
    <3>2. key = token.signer /\ key # None
      BY <1>3, <2>1, <3>1
    <3> QED BY <1>1, <1>7, <2>1, <3>2 DEF Recent
  <2>2. ASSUME a.said = "401 invalid_platform_token", key # None, token.signer = published,
               Accepts(token, Trust(Bastion, token.signer), now)
        PROVE  now < changed[token.signer] + FetchTime + KeyTTL
    <3>1. key \in BastionKeys /\ key # published
      BY <1>1, <1>3, <2>2
    <3>2. now < changed[key] + FetchTime + KeyTTL
      BY <1>1, <1>7, <3>1 DEF Recent
    <3>3. changed[key] <= changed[published]
      BY <3>1 DEF Holds, Rotations
    <3>4. changed[key] \in Nat /\ changed[published] \in Nat
      BY <1>2, <3>1
    <3>5. now \in Nat /\ FetchTime \in Nat /\ KeyTTL \in Nat
      BY <1>2
    <3>6. now < changed[published] + FetchTime + KeyTTL
      BY <3>2, <3>3, <3>4, <3>5
    <3> QED BY <2>2, <3>6
  <2> QED BY <2>1, <2>2
<1>8. RotationTakesHold'
  BY <1>3, <1>4, <1>7 DEF RotationTakesHold, FromURL
<1> QED BY <1>3, <1>4, <1>6, <1>8 DEF Answered

(* Telling somebody nothing, or something that takes no token.             *)
LEMMA AnsweredNobody ==
  ASSUME answer' = None PROVE Answered' /\ answer' \in Answer \cup {None}
BY DEF Answered, ProceedsJustified, RotationTakesHold

(* A fresh key is recent.                                                  *)
LEMMA FreshIsRecent ==
  ASSUME Holds, Fresh PROVE Recent(cache.key)
<1>1. /\ cache # None /\ cache.key \in BastionKeys \cup {None} /\ cache.at \in Nat
      /\ now - cache.at < TTLOf(cache.key)
  BY DEF Fresh, Holds, TypeOK
<1>2. ASSUME cache.key # None, cache.key # published
      PROVE  now < changed[cache.key] + FetchTime + KeyTTL
  <2>1. cache.at <= changed[cache.key] + FetchTime /\ now - cache.at < KeyTTL
    BY <1>1, <1>2 DEF Holds, Rotations, TTLOf
  <2> QED BY <1>1, <1>2, <2>1, TypedNumbers DEF Holds
<1> QED BY <1>1, <1>2 DEF Recent

-----------------------------------------------------------------------------
(* A step that only answers keeps the invariant.                           *)
LEMMA StepAnswers ==
  ASSUME Holds, UNCHANGED <<idle, request>>, answer' \in Answer \cup {None}
  PROVE  Holds'
<1>1. InFlight' = InFlight
  BY DEF InFlight
<1>2. UNCHANGED <<settings, cache, lock, waiting, fetch, request, published, changed, lastFetch, now>>
  BY DEF idle, bastion
<1>3. TypeOK'
  BY <1>1, <1>2 DEF Holds, TypeOK
<1>4. LockHeld' /\ Deadlines' /\ WaitsOneFetch' /\ Remembered' /\ Rotations'
  BY <1>1, <1>2 DEF Holds, LockHeld, Deadlines, WaitsOneFetch, Remembered, Rotations
<1> QED BY <1>3, <1>4 DEF Holds

(* Ending a request that was not in flight changes none.                   *)
LEMMA ToldAtOnce ==
  ASSUME Holds, NEW r \in Requests, request[r] = None, NEW told, Tell(r, told)
  PROVE  answer' = told /\ UNCHANGED request
<1>1. request \in [Requests -> [token: Tokens, since: Nat] \cup {None}]
  BY DEF Holds, TypeOK
<1>2. request' = [request EXCEPT ![r] = request[r]]
  BY DEF Tell
<1> QED BY <1>1, <1>2 DEF Tell

LEMMA UnverifiedKeeps ==
  ASSUME Holds, NEW r \in Requests, Unverified(r) PROVE Holds' /\ Answered'
<1>t. settings.test \in BOOLEAN /\ settings.demo \in BOOLEAN
  BY TypedNumbers DEF Holds, Settings
<1>1. PICK route \in {"public", "protected"},
           said \in {"proceeds", "401 missing_platform_token", "503 platform_auth_unconfigured"} :
        /\ Tell(r, Anonymous(route, said))
        /\ said = "proceeds" =>
             route = "public" \/ settings.demo \/ (settings.test /\ ~IsConfigured)
  <2>1. CASE Tell(r, Anonymous("public", "proceeds"))
    BY <2>1
  <2>2. CASE /\ ~IsConfigured
             /\ Tell(r, Anonymous("protected", IF settings.test THEN "proceeds"
                                               ELSE "503 platform_auth_unconfigured"))
    <3>1. CASE settings.test
      BY <2>2, <3>1
    <3>2. CASE ~settings.test
      BY <2>2, <3>2
    <3> QED BY <3>1, <3>2
  <2>3. CASE /\ IsConfigured
             /\ Tell(r, Anonymous("protected", IF settings.demo THEN "proceeds"
                                               ELSE "401 missing_platform_token"))
    <3>1. CASE settings.demo
      BY <2>3, <3>1
    <3>2. CASE ~settings.demo
      BY <2>3, <3>2
    <3> QED BY <3>1, <3>2
  <2> QED BY <2>1, <2>2, <2>3 DEF Unverified
<1> DEFINE told == Anonymous(route, said)
<1>o. told \in Answer /\ told.token = None /\ told.iss = None /\ told.said = said /\ told.route = route
  BY DEF Anonymous, Answer
<1>u. Tell(r, told)
  BY <1>1
<1> HIDE DEF told
<1>2. answer' = told /\ UNCHANGED <<idle, request>>
  BY <1>u, ToldAtOnce DEF Unverified
<1>3. settings' = settings /\ IsConfigured' = IsConfigured
  BY <1>2 DEF idle, IsConfigured
<1>4. answer'.token = None /\ answer'.iss = None /\ answer' \in Answer
  BY <1>2, <1>o
<1>5. answer'.said = "proceeds" =>
        answer'.route = "public" \/ settings.demo \/ (settings.test /\ ~IsConfigured)
  BY <1>1, <1>2, <1>o
<1>6. Answered'
  BY <1>3, <1>4, <1>5 DEF Answered, ProceedsJustified, RotationTakesHold
<1> QED BY <1>2, <1>4, <1>6, StepAnswers

LEMMA DirectKeeps ==
  ASSUME Holds, NEW r \in Requests, NEW token \in Tokens, Direct(r, token)
  PROVE  Holds' /\ Answered'
<1> DEFINE key == Parsed(settings.bastionKey)
<1>1. key \in BastionKeys \cup {None} /\ ~FromURL
  BY TypedNumbers DEF Holds, Direct, Parsed, Settings
<1>2. Tell(r, Judged(token, key, now)) /\ UNCHANGED idle
  BY DEF Direct, Authenticate
<1> HIDE DEF key
<1>3. answer' = Judged(token, key, now) /\ UNCHANGED <<idle, request>>
  BY <1>2, ToldAtOnce DEF Direct
<1>4. UNCHANGED <<settings, bastion, now>>
  BY <1>3 DEF idle
<1>5. Answered' /\ answer' \in Answer \cup {None}
  BY <1>1, <1>3, <1>4, AnsweredByKey
<1> QED BY <1>3, <1>5, StepAnswers

LEMMA ArriveKeeps ==
  ASSUME Holds, NEW r \in Requests, NEW token \in Tokens, Arrive(r, token)
  PROVE  Holds' /\ Answered'
<1> DEFINE q == [token |-> token, since |-> now]
<1>1. /\ request[r] = None /\ lock = None /\ waiting = <<>> /\ q.token = token /\ q.since = now
      /\ Locked(r, q) /\ UNCHANGED <<settings, cache, waiting, bastion, lastFetch, now>>
  BY DEF Arrive, Free
<1>q. now \in Nat /\ q \in [token: Tokens, since: Nat] /\ q # None
  BY TypedNumbers DEF Holds
<1> HIDE DEF q
<1>2. CASE Fresh /\ Tell(r, Judged(q.token, cache.key, now)) /\ UNCHANGED <<lock, fetch>>
  <2>1. answer' = Judged(token, cache.key, now) /\ UNCHANGED <<idle, request>>
    BY <1>1, <1>2, ToldAtOnce DEF idle
  <2>2. Answered' /\ answer' \in Answer \cup {None}
    BY <1>1, <1>2, <2>1, FreshIsRecent, AnsweredByKey
  <2> QED BY <2>1, <2>2, StepAnswers
<1>3. CASE /\ lock' = r
           /\ fetch' = [fetch EXCEPT ![r] = now + FetchTime]
           /\ request' = [request EXCEPT ![r] = q]
           /\ answer' = None
  <2>1. /\ fetch \in [Requests -> Nat \cup {None}]
        /\ request \in [Requests -> [token: Tokens, since: Nat] \cup {None}]
        /\ \A x \in Requests : fetch[x] = None /\ request[x] = None
    BY <1>1, TypedNumbers DEF Holds, TypeOK, LockHeld, InFlight, Range
  <2>2. /\ fetch' \in [Requests -> Nat \cup {None}]
        /\ request' \in [Requests -> [token: Tokens, since: Nat] \cup {None}]
        /\ fetch'[r] = now + FetchTime /\ fetch'[r] # None /\ request'[r] = q
        /\ \A x \in Requests \ {r} : fetch'[x] = None /\ request'[x] = None
    BY <1>3, <1>q, <2>1, TypedNumbers DEF Holds
  <2>3. InFlight' = {r} /\ Range(waiting) = {} /\ Range(waiting') = {}
    BY <1>1, <1>q, <2>2 DEF InFlight, Range
  <2>4. TypeOK'
    BY <1>1, <1>3, <2>2, <2>3, TypedNumbers DEF Holds, TypeOK, bastion
  <2>5. LockHeld'
    BY <1>3, <2>2, <2>3 DEF LockHeld
  <2>6. Deadlines' /\ WaitsOneFetch'
    BY <1>1, <1>3, <1>q, <2>2, <2>3, TypedNumbers DEF Holds, Deadlines, WaitsOneFetch
  <2>7. Remembered' /\ Rotations'
    BY <1>1 DEF Holds, Remembered, Rotations, bastion
  <2> QED BY <1>3, <2>4, <2>5, <2>6, <2>7, AnsweredNobody DEF Holds
<1> QED BY <1>1, <1>2, <1>3 DEF Locked, Authenticate

LEMMA QueueKeeps ==
  ASSUME Holds, NEW r \in Requests, NEW token \in Tokens, Queue(r, token)
  PROVE  Holds' /\ Answered'
<1> DEFINE q == [token |-> token, since |-> now]
<1>1. /\ request[r] = None /\ ~(lock = None /\ waiting = <<>>) /\ waiting' = Append(waiting, r)
      /\ request' = [request EXCEPT ![r] = q] /\ answer' = None
      /\ UNCHANGED <<settings, cache, lock, fetch, bastion, lastFetch, now>>
  BY DEF Queue, Free
<1>q. now \in Nat /\ q \in [token: Tokens, since: Nat] /\ q # None /\ q.since = now
  BY TypedNumbers DEF Holds
<1> HIDE DEF q
<1>2. /\ r \notin InFlight /\ InFlight = Range(waiting) \cup ({lock} \ {None})
      /\ waiting \in Seq(Requests) /\ IsInjective(waiting)
      /\ request \in [Requests -> [token: Tokens, since: Nat] \cup {None}]
  BY <1>1 DEF Holds, TypeOK, InFlight
<1>3. /\ request' \in [Requests -> [token: Tokens, since: Nat] \cup {None}] /\ request'[r] = q
      /\ \A x \in Requests \ {r} : request'[x] = request[x]
  BY <1>1, <1>2, <1>q
<1>4. r # lock /\ r \notin Range(waiting)
  BY <1>2, TypedNumbers DEF Holds
<1>5. /\ waiting' \in Seq(Requests) /\ IsInjective(waiting')
      /\ Range(waiting') = Range(waiting) \cup {r}
  BY <1>1, <1>2, <1>4, Appended
<1>6. InFlight' = InFlight \cup {r}
  BY <1>3, <1>q DEF InFlight
<1>7. TypeOK'
  BY <1>1, <1>2, <1>3, <1>5, <1>6 DEF Holds, TypeOK, bastion
<1>8. LockHeld'
  BY <1>1, <1>4, <1>5 DEF Holds, LockHeld
<1>9. Deadlines'
  <2>1. CASE lock = None
    BY <1>1, <2>1 DEF Holds, Deadlines
  <2>2. CASE lock # None
    <3>1. now <= fetch[lock] /\ fetch[lock] <= now + FetchTime
      BY <2>2 DEF Holds, Deadlines
    <3>2. \A x \in InFlight' : fetch[lock] <= request'[x].since + FetchTime
      BY <1>2, <1>3, <1>6, <1>q, <2>2, <3>1 DEF Holds, Deadlines, InFlight
    <3> QED BY <1>1, <2>2, <3>1, <3>2 DEF Deadlines
  <2> QED BY <2>1, <2>2
<1>10. WaitsOneFetch'
  BY <1>1, <1>3, <1>6, <1>q, TypedNumbers DEF Holds, WaitsOneFetch, InFlight
<1>11. Remembered' /\ Rotations'
  BY <1>1 DEF Holds, Remembered, Rotations, bastion
<1> QED BY <1>1, <1>7, <1>8, <1>9, <1>10, <1>11, AnsweredNobody DEF Holds

(* Whoever is woken finds what was fetched while it waited.                *)
LEMMA WakeKeeps ==
  ASSUME Holds, Wake PROVE Holds' /\ Answered'
<1> DEFINE h == Head(waiting)
<1>1. /\ lock = None /\ waiting # <<>> /\ Locked(h, request[h]) /\ waiting' = Tail(waiting)
      /\ UNCHANGED <<settings, cache, bastion, lastFetch, now>>
  BY DEF Wake
<1>2. /\ waiting \in Seq(Requests) /\ IsInjective(waiting)
      /\ InFlight = Range(waiting)
      /\ request \in [Requests -> [token: Tokens, since: Nat] \cup {None}]
  BY <1>1 DEF Holds, TypeOK
<1>3. /\ waiting' \in Seq(Requests) /\ IsInjective(waiting') /\ h \in Requests
      /\ h \in Range(waiting) /\ Range(waiting') = Range(waiting) \ {h}
  BY <1>1, <1>2, Dequeued
<1> HIDE DEF h
<1>4. Fresh
  <2>1. cache # None /\ cache.at = now
    BY <1>1 DEF Holds, Deadlines
  <2> QED BY <2>1, TypedNumbers DEF Holds, Fresh, TTLOf
<1>5. /\ answer' = Judged(request[h].token, cache.key, now)
      /\ request' = [request EXCEPT ![h] = None] /\ UNCHANGED <<lock, fetch>>
  BY <1>1, <1>4 DEF Locked, Authenticate, Tell
<1>6. request[h].token \in Tokens
  BY <1>2, <1>3 DEF InFlight
<1>7. Answered' /\ answer' \in Answer \cup {None}
  BY <1>1, <1>4, <1>5, <1>6, FreshIsRecent, AnsweredByKey
<1>8. /\ request' \in [Requests -> [token: Tokens, since: Nat] \cup {None}] /\ request'[h] = None
      /\ \A x \in Requests \ {h} : request'[x] = request[x]
  BY <1>2, <1>3, <1>5
<1>9. InFlight' = InFlight \ {h}
  BY <1>8 DEF InFlight
<1>10. TypeOK'
  BY <1>1, <1>2, <1>3, <1>5, <1>7, <1>8, <1>9 DEF Holds, TypeOK, bastion
<1>11. LockHeld'
  BY <1>3, <1>5 DEF Holds, LockHeld
<1>12. Deadlines'
  BY <1>1, <1>5 DEF Holds, Deadlines
<1>13. WaitsOneFetch'
  BY <1>1, <1>8, <1>9 DEF Holds, WaitsOneFetch, InFlight
<1>14. Remembered' /\ Rotations'
  BY <1>1 DEF Holds, Remembered, Rotations, bastion
<1> QED BY <1>7, <1>10, <1>11, <1>12, <1>13, <1>14 DEF Holds

LEMMA FetchedKeeps ==
  ASSUME Holds, NEW r \in Requests, Fetched(r) PROVE Holds' /\ Answered'
<1>1. PICK key \in Offered(r) \cup {None} : FetchEnds(r, key)
  BY DEF Fetched
<1>2. /\ fetch[r] # None /\ r = lock /\ lock \notin Range(waiting)
      /\ fetch \in [Requests -> Nat \cup {None}] /\ fetch[r] \in Nat
  BY DEF Fetched, Holds, TypeOK, LockHeld
<1>3. /\ InFlight = Range(waiting) \cup {r}
      /\ request \in [Requests -> [token: Tokens, since: Nat] \cup {None}]
  BY <1>2, TypedNumbers DEF Holds, TypeOK
<1>4. /\ cache' = [key |-> key, at |-> now] /\ lastFetch' = [key |-> key, at |-> now]
      /\ lock' = None /\ fetch' = [fetch EXCEPT ![r] = None]
      /\ answer' = Judged(request[r].token, key, now)
      /\ request' = [request EXCEPT ![r] = None] /\ UNCHANGED <<settings, waiting, bastion, now>>
  BY <1>1 DEF FetchEnds, Cache, Release, Authenticate, Tell
<1>5. /\ key \in BastionKeys \cup {None}
      /\ key # None /\ key # published => now <= changed[key] + FetchTime
  <2>1. now <= fetch[r]
    BY <1>2, TypedNumbers DEF Holds, Deadlines
  <2>2. key \in BastionKeys => key = published \/ fetch[r] <= changed[key] + FetchTime
    BY TypedNumbers DEF Offered, Holds
  <2>3. key \in BastionKeys \cup {None}
    BY DEF Offered
  <2> QED BY <1>2, <2>1, <2>2, <2>3, TypedNumbers DEF Holds
<1>6. Recent(key)
  BY <1>5, TypedNumbers DEF Holds, Recent
<1>7. request[r].token \in Tokens
  BY <1>3 DEF InFlight
<1>8. Answered' /\ answer' \in Answer \cup {None}
  BY <1>4, <1>6, <1>7, AnsweredByKey
<1>9. /\ request' \in [Requests -> [token: Tokens, since: Nat] \cup {None}] /\ request'[r] = None
      /\ \A x \in Requests \ {r} : request'[x] = request[x]
      /\ fetch' \in [Requests -> Nat \cup {None}] /\ fetch'[r] = None
      /\ \A x \in Requests \ {r} : fetch'[x] = fetch[x]
  BY <1>2, <1>3, <1>4
<1>10. InFlight' = Range(waiting)
  BY <1>2, <1>3, <1>9 DEF InFlight
<1>11. cache' # None /\ cache'.key = key /\ cache'.at = now
  <2>1. now \in Nat
    BY TypedNumbers DEF Holds
  <2>2. [key |-> key, at |-> now] \in [key: BastionKeys \cup {None}, at: Nat]
    BY <1>5, <2>1
  <2>3. [key |-> key, at |-> now] # None
    BY <2>2
  <2> QED BY <1>4, <2>3
<1>12. TypeOK'
  BY <1>4, <1>5, <1>8, <1>9, <1>10, TypedNumbers DEF Holds, TypeOK, bastion
<1>13. LockHeld'
  <2>1. None \notin Range(waiting)
    BY <1>10, TypedNumbers DEF Holds, InFlight
  <2>2. \A x \in Requests : fetch'[x] = None /\ x # None
    BY <1>2, <1>9, TypedNumbers DEF Holds, LockHeld
  <2> QED BY <1>4, <2>1, <2>2 DEF LockHeld
<1>14. Deadlines'
  BY <1>4, <1>11 DEF Deadlines
<1>15. WaitsOneFetch'
  BY <1>3, <1>4, <1>9, <1>10 DEF Holds, WaitsOneFetch, InFlight
<1>16. Remembered'
  BY <1>4, <1>11, TypedNumbers DEF Holds, Remembered
<1>17. Rotations'
  BY <1>4, <1>5, <1>11 DEF Holds, Rotations, bastion
<1> QED BY <1>8, <1>12, <1>13, <1>14, <1>15, <1>16, <1>17 DEF Holds

LEMMA RotateKeeps ==
  ASSUME Holds, NEW k \in BastionKeys, Rotate(k) PROVE Holds' /\ Answered'
<1>1. /\ k # published /\ published' = k /\ answer' = None
      /\ changed' = [changed EXCEPT ![published] = now, ![k] = now]
      /\ UNCHANGED <<settings, cache, lock, waiting, fetch, request, lastFetch, now>>
  BY DEF Rotate
<1>2. published \in BastionKeys /\ changed \in [BastionKeys -> Nat] /\ now \in Nat
  BY DEF Holds, TypeOK
<1>3. /\ changed' \in [BastionKeys -> Nat] /\ changed'[published] = now /\ changed'[k] = now
      /\ \A x \in BastionKeys \ {published, k} : changed'[x] = changed[x]
  BY <1>1, <1>2
<1>4. InFlight' = InFlight
  BY <1>1 DEF InFlight
<1>5. TypeOK'
  BY <1>1, <1>2, <1>3, <1>4 DEF Holds, TypeOK
<1>6. LockHeld' /\ Deadlines' /\ WaitsOneFetch' /\ Remembered'
  BY <1>1, <1>4 DEF Holds, LockHeld, Deadlines, WaitsOneFetch, Remembered
<1>7. Rotations'
  <2>1. \A x \in BastionKeys : changed'[x] <= now
    BY <1>2, <1>3 DEF Holds, Rotations
  <2>2. ASSUME cache # None, cache.key # None, cache.key # k
        PROVE  cache.at <= changed'[cache.key] + FetchTime
    <3>1. cache.key \in BastionKeys /\ cache.at \in Nat /\ cache.at <= now
      BY <2>2 DEF Holds, TypeOK, Remembered
    <3>2. CASE cache.key = published
      BY <1>2, <1>3, <3>1, <3>2, TypedNumbers DEF Holds
    <3>3. CASE cache.key # published
      BY <1>3, <2>2, <3>1, <3>3 DEF Holds, Rotations
    <3> QED BY <3>2, <3>3
  <2> QED BY <1>1, <1>3, <2>1, <2>2 DEF Rotations
<1> QED BY <1>1, <1>5, <1>6, <1>7, AnsweredNobody DEF Holds

LEMMA TickKeeps ==
  ASSUME Holds, Tick PROVE Holds' /\ Answered'
<1>1. /\ \A r \in Requests : fetch[r] # None => now < fetch[r]
      /\ ~(lock = None /\ waiting # <<>>) /\ now' = now + 1 /\ answer' = None
      /\ UNCHANGED <<settings, cache, lock, waiting, fetch, request, published, changed, lastFetch>>
  BY DEF Tick, bastion
<1>2. InFlight' = InFlight /\ now \in Nat
  BY <1>1, TypedNumbers DEF InFlight, Holds
<1>3. TypeOK'
  BY <1>1, <1>2 DEF Holds, TypeOK
<1>4. LockHeld'
  BY <1>1 DEF Holds, LockHeld
<1>5. ASSUME lock # None
      PROVE  now + 1 <= fetch[lock] /\ fetch[lock] <= now + 1 + FetchTime
  <2>1. lock \in Requests /\ fetch[lock] # None /\ fetch[lock] \in Nat
    BY <1>5 DEF Holds, TypeOK, LockHeld
  <2>2. now < fetch[lock] /\ fetch[lock] <= now + FetchTime
    BY <1>1, <1>5, <2>1 DEF Holds, Deadlines
  <2> QED BY <1>2, <2>1, <2>2, TypedNumbers DEF Holds
<1>6. Deadlines'
  BY <1>1, <1>2, <1>5 DEF Holds, Deadlines
<1>7. WaitsOneFetch'
  <2>1. CASE lock = None
    <3>1. InFlight = {}
      BY <1>1, <2>1 DEF Holds, TypeOK, Range
    <3> QED BY <1>2, <3>1 DEF WaitsOneFetch
  <2>2. CASE lock # None
    <3>1. lock \in Requests /\ fetch[lock] \in Nat
      BY <2>2 DEF Holds, TypeOK, LockHeld
    <3>2. \A r \in InFlight : request[r].since \in Nat
      BY DEF Holds, TypeOK, InFlight
    <3>3. \A r \in InFlight : now + 1 <= request[r].since + FetchTime
      BY <1>2, <1>5, <2>2, <3>1, <3>2, TypedNumbers DEF Holds, Deadlines
    <3> QED BY <1>1, <1>2, <3>3 DEF WaitsOneFetch
  <2> QED BY <2>1, <2>2
<1>8. Remembered' /\ Rotations'
  <2>1. cache # None => cache.at \in Nat
    BY DEF Holds, TypeOK
  <2>2. \A k \in BastionKeys : changed[k] \in Nat
    BY DEF Holds, TypeOK
  <2> QED BY <1>1, <1>2, <2>1, <2>2 DEF Holds, Remembered, Rotations
<1> QED BY <1>1, <1>3, <1>4, <1>6, <1>7, <1>8, AnsweredNobody DEF Holds

-----------------------------------------------------------------------------
LEMMA InitHolds == ASSUME Init PROVE Holds /\ Answered
<1>1. InFlight = {} /\ Range(waiting) = {}
  BY DEF Init, InFlight, Range
<1>2. waiting \in Seq(Requests) /\ IsInjective(waiting)
  BY DEF Init, IsInjective
<1>3. TypeOK
  BY <1>1, <1>2 DEF Init, TypeOK
<1>4. LockHeld /\ Deadlines /\ WaitsOneFetch /\ Remembered
  BY <1>1, TypedNumbers, <1>3 DEF Init, LockHeld, Deadlines, WaitsOneFetch, Remembered
<1>5. Rotations /\ Answered
  BY DEF Init, Rotations, Answered, ProceedsJustified, RotationTakesHold
<1> QED BY <1>3, <1>4, <1>5 DEF Holds

LEMMA NextHolds == ASSUME Holds, Answered, [Next]_vars PROVE Holds' /\ Answered'
<1>1. CASE UNCHANGED vars
  <2>1. UNCHANGED <<idle, request, answer>> /\ answer' \in Answer \cup {None}
    BY <1>1 DEF vars, auth, bastion, idle, Holds, TypeOK
  <2>2. Holds'
    BY <2>1, StepAnswers
  <2>3. Answered'
    BY <2>1 DEF Answered, ProceedsJustified, RotationTakesHold, FromURL, IsConfigured, idle, bastion
  <2> QED BY <2>2, <2>3
<1> QED BY <1>1, UnverifiedKeeps, FetchedKeeps, DirectKeeps, ArriveKeeps, QueueKeeps, WakeKeeps,
           TickKeeps, RotateKeeps DEF Next

(* The invariant, and the answers it justifies, hold at all times.         *)
THEOREM Invariant == Spec => [](Holds /\ Answered)
<1>1. Init => Holds /\ Answered
  BY InitHolds
<1>2. Holds /\ Answered /\ [Next]_vars => (Holds /\ Answered)'
  BY NextHolds
<1> QED BY <1>1, <1>2, PTL DEF Spec

(* Every request in flight is queued or holds the lock.                    *)
THEOREM TypeCorrect == Spec => []TypeOK
BY Invariant, PTL DEF Holds

(* However many requests queue, each waits for one fetch at most.          *)
THEOREM OneFetchAwaited == Spec => []WaitsOneFetch
BY Invariant, PTL DEF Holds

(* Nobody proceeds but by a token that is theirs and in time.              *)
THEOREM Justified == Spec => []ProceedsJustified
BY Invariant, PTL DEF Answered

(* A rotation of bastion's key is known within the hour, and a fetch.      *)
THEOREM RotationKnown == Spec => []RotationTakesHold
BY Invariant, PTL DEF Answered

(* Fetches exclude one another, and are spaced by what the last one got.   *)
THEOREM FetchesAreSpaced == Spec => FetchesSpaced
<1>1. ASSUME Holds, [Next]_vars, NEW r \in Requests, fetch[r] = None, fetch'[r] # None
      PROVE  /\ \A q \in Requests : fetch[q] = None
             /\ lastFetch # None => now - lastFetch.at >= TTLOf(lastFetch.key)
  <2>1. lock = None /\ ~Fresh
    <3>1. PICK q \in Requests :
               \E x : Locked(q, x) /\ fetch' # fetch /\ lock = None
      <4>1. ASSUME NEW q \in Requests, Fetched(q) PROVE FALSE
        <5>1. fetch' = [fetch EXCEPT ![q] = None] /\ fetch \in [Requests -> Nat \cup {None}]
          BY <1>1, <4>1 DEF Fetched, FetchEnds, Holds, TypeOK
        <5> QED BY <1>1, <5>1
      <4>2. fetch' # fetch
        BY <1>1
      <4>3. CASE Wake
        <5>1. waiting \in Seq(Requests) /\ waiting # <<>>
          BY <1>1, <4>3 DEF Wake, Holds, TypeOK
        <5>2. Head(waiting) \in Requests
          BY <5>1
        <5> QED BY <4>2, <4>3, <5>2 DEF Wake
      <4>4. CASE \E q \in Requests, token \in Tokens : Arrive(q, token)
        BY <4>2, <4>4 DEF Arrive, Free
      <4> QED BY <1>1, <4>1, <4>2, <4>3, <4>4
               DEF Next, vars, auth, Unverified, Direct, Queue, Rotate, Tick, idle
    <3> QED BY <3>1 DEF Locked
  <2>2. \A q \in Requests : fetch[q] = None
    BY <1>1, <2>1, TypedNumbers DEF Holds, LockHeld
  <2>3. ASSUME lastFetch # None PROVE now - lastFetch.at >= TTLOf(lastFetch.key)
    <3>1. cache = lastFetch /\ cache.at \in Nat /\ ~(now - cache.at < TTLOf(cache.key))
      BY <1>1, <2>1, <2>3 DEF Holds, TypeOK, Remembered, Fresh
    <3> QED BY <1>1, <3>1, TypedNumbers DEF Holds, TTLOf
  <2> QED BY <2>2, <2>3
<1>2. Holds /\ [Next]_vars =>
        [\A r \in Requests : fetch[r] = None /\ fetch'[r] # None =>
           /\ \A q \in Requests : fetch[q] = None
           /\ lastFetch # None => now - lastFetch.at >= TTLOf(lastFetch.key)]_vars
  BY <1>1
<1> QED BY Invariant, <1>2, PTL DEF Spec, FetchesSpaced
=============================================================================
