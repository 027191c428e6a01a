---------------------------- MODULE TrustedKeys -----------------------------
(***************************************************************************)
(* Authenticating requests: TrustedKeySource (platform/trusted_keys.py)    *)
(* under the middleware of platform/platform_token.py.  Bastion's key is a *)
(* setting, or comes from BASTION_PUBLIC_KEY_URL and is cached, a failed   *)
(* fetch for a shorter time than a key; an asyncio.Lock, granted in order  *)
(* of arrival, keeps the requests of a process from fetching together.  A  *)
(* token is verified (TokenClaims) once its request holds the keys, at the *)
(* time it is then.                                                        *)
(*                                                                         *)
(* An operator commented "Slip" is a mistake somebody could make in the    *)
(* definition below it, used by nothing: the README says what for.         *)
(***************************************************************************)
EXTENDS TokenClaims, Functions

CONSTANTS
  Requests,            \* requests a process may be serving at a time
  BastionKeys,         \* keys bastion may publish
  FrontendKey,         \* inkprint-frontend's key
  ForeignKey,          \* a key nobody trusts
  Tokens,              \* tokens clients send
  Deployments,         \* settings a process may run with
  Unparsable,          \* a configured value that is no Ed25519 key
  None,                \* no token, no key, no entry, nobody
  KeyTTL,              \* _URL_KEY_TTL_S, in ticks
  RetryAfter,          \* _URL_RETRY_AFTER_S, in ticks
  FetchTime,           \* longest a fetch takes, in ticks
  MaxTime              \* bound on the clock

Signers == BastionKeys \cup {FrontendKey, ForeignKey}

Token ==
  [form: {"jwt", "unreadable", "other algorithm", "no object"}, signer: Signers,
   iss: {Bastion, Frontend, Absent}, role: {FrontendRole, Absent}, aud: {Service, Absent},
   exp: Nat \cup {Absent}, iat: Nat \cup {Absent}, sub: (STRING \ {""}) \cup {Absent}]

(* BASTION_SIGNING_KEY_PUBLIC, whether BASTION_PUBLIC_KEY_URL is set,      *)
(* INKPRINT_FRONTEND_SIGNING_KEY_PUBLIC, DEMO_MODE, and the test settings. *)
Settings ==
  [bastionKey: BastionKeys \cup {Unparsable, None}, byURL: BOOLEAN,
   frontendKey: {FrontendKey, Unparsable, None}, demo: BOOLEAN, test: BOOLEAN]

KeyParameters ==
  /\ None \notin Requests \cup BastionKeys \cup {FrontendKey, ForeignKey}
  /\ FrontendKey \notin BastionKeys /\ ForeignKey \notin BastionKeys \cup {FrontendKey}
  /\ None \notin {Unparsable, Bastion, Frontend} /\ None \notin Tokens \cup Nat
  /\ None \notin [token: Tokens, since: Nat] \cup [key: BastionKeys \cup {None}, at: Nat]
  /\ Unparsable \notin BastionKeys \cup {FrontendKey}
  /\ Tokens \subseteq Token /\ Deployments \subseteq Settings
  /\ KeyTTL \in Nat /\ RetryAfter \in Nat /\ FetchTime \in Nat /\ MaxTime \in Nat
  /\ 0 < RetryAfter /\ RetryAfter <= KeyTTL
ASSUME KeyParametersAssumption == KeyParameters

VARIABLES
  settings,   \* the process's settings
  cache,      \* _url_cache: [key, at], or None
  lock,       \* holder of _url_lock, or None
  waiting,    \* requests queued on the lock, in order
  fetch,      \* per request, when its fetch gives up, or None
  request,    \* per request, [token, since] while it waits for a key
  answer,     \* history: what the last step told a request, or None
  published,  \* the key bastion serves
  changed,    \* history: per key, when it was last published or withdrawn
  lastFetch,  \* history: when the last fetch ended, and what it got
  now

auth    == <<settings, cache, lock, waiting, fetch, request, answer>>
bastion == <<published, changed>>
vars    == <<auth, bastion, lastFetch, now>>

Init ==
  /\ settings \in Deployments
  /\ cache = None /\ lock = None /\ waiting = <<>>
  /\ fetch = [r \in Requests |-> None]
  /\ request = [r \in Requests |-> None]
  /\ answer = None
  /\ published \in BastionKeys
  /\ changed = [k \in BastionKeys |-> 0]
  /\ lastFetch = None
  /\ now = 0

-----------------------------------------------------------------------------
(* Which keys are trusted.                                                 *)
IsConfigured == settings.bastionKey # None \/ settings.byURL \/ settings.frontendKey # None

(* A configured bastion key wins over the URL even when it does not parse. *)
FromURL == settings.bastionKey = None /\ settings.byURL

Parsed(value) == IF value = Unparsable THEN None ELSE value

Trust(issuer, key) == IF key = None THEN <<>> ELSE <<[issuer |-> issuer, key |-> key]>>

(* resolve, where key is what _bastion returned.                           *)
Resolved(key) == Trust(Bastion, key) \o Trust(Frontend, Parsed(settings.frontendKey))

(* What the middleware answers with those keys at a time.                  *)
Say(key, token, at) ==
  IF Resolved(key) = <<>> THEN "503 platform_auth_unconfigured"
  ELSE IF Accepts(token, Resolved(key), at) THEN "proceeds"
  ELSE "401 invalid_platform_token"

(* The answer to a token, with the issuer of the principal that proceeds.  *)
Judged(token, key, at) ==
  LET said == Say(key, token, at) IN
  [route |-> "protected", token |-> token, key |-> key, said |-> said,
   iss |-> IF said = "proceeds" THEN Verify(token, Resolved(key), at).iss ELSE None]

(* authorize_bastion: who may read /_slowquery.                            *)
AuthorizeBastion(iss) == iss = Bastion

(* Slip: the request is not ended by its answer.                           *)
TellAndKeep(r, told) == answer' = told /\ UNCHANGED request

Tell(r, told) == answer' = told /\ request' = [request EXCEPT ![r] = None]

Anonymous(route, said) ==
  [route |-> route, token |-> None, key |-> None, said |-> said, iss |-> None]

(* Slip: the token is judged at the time its request arrived.              *)
AuthenticateAsOfArrival(r, q, key) == Tell(r, Judged(q.token, key, q.since))

Authenticate(r, q, key) == Tell(r, Judged(q.token, key, now))

(* _fresh_url_key.                                                         *)
TTLOf(key) == IF key # None THEN KeyTTL ELSE RetryAfter

(* Slip: only a failure expires.                                           *)
FreshOnceFetched == cache # None /\ (cache.key # None \/ now - cache.at < RetryAfter)

Fresh == cache # None /\ now - cache.at < TTLOf(cache.key)

(* Under the lock: the cached key, or a fetch that keeps the lock.         *)
Locked(r, q) ==
  \/ /\ Fresh
     /\ Authenticate(r, q, cache.key)
     /\ UNCHANGED <<lock, fetch>>
  \/ /\ ~Fresh
     /\ lock' = r
     /\ fetch' = [fetch EXCEPT ![r] = now + FetchTime]
     /\ request' = [request EXCEPT ![r] = q]
     /\ answer' = None

idle == <<settings, cache, lock, waiting, fetch, bastion, lastFetch, now>>

(* A request that is answered without a key source being asked: to a       *)
(* public route, to a deployment without keys, or without a token.         *)
Unverified(r) ==
  /\ request[r] = None
  /\ \/ Tell(r, Anonymous("public", "proceeds"))
     \/ /\ ~IsConfigured
        /\ Tell(r, Anonymous("protected", IF settings.test THEN "proceeds"
                                          ELSE "503 platform_auth_unconfigured"))
     \/ /\ IsConfigured
        /\ Tell(r, Anonymous("protected", IF settings.demo THEN "proceeds"
                                          ELSE "401 missing_platform_token"))
  /\ UNCHANGED idle

(* With a configured bastion key, or none, resolve does not wait.          *)
Direct(r, token) ==
  /\ request[r] = None /\ IsConfigured /\ ~FromURL
  /\ Authenticate(r, [token |-> token, since |-> now], Parsed(settings.bastionKey))
  /\ UNCHANGED idle

(* Slip: no lock.                                                          *)
FreeAlways == TRUE

(* asyncio.Lock: granted at once when it is free and nobody queues; the    *)
(* first in the queue is woken by the release, and looks at the cache.     *)
Free == lock = None /\ waiting = <<>>

Arrive(r, token) ==
  /\ request[r] = None /\ FromURL /\ Free
  /\ Locked(r, [token |-> token, since |-> now])
  /\ UNCHANGED <<settings, cache, waiting, bastion, lastFetch, now>>

Queue(r, token) ==
  /\ request[r] = None /\ FromURL /\ ~Free
  /\ waiting' = Append(waiting, r)
  /\ request' = [request EXCEPT ![r] = [token |-> token, since |-> now]]
  /\ answer' = None
  /\ UNCHANGED <<settings, cache, lock, fetch, bastion, lastFetch, now>>

Wake ==
  /\ lock = None /\ waiting # <<>>
  /\ Locked(Head(waiting), request[Head(waiting)])
  /\ waiting' = Tail(waiting)
  /\ UNCHANGED <<settings, cache, bastion, lastFetch, now>>

(* Slip: a failure leaves the cache as it was.                             *)
CacheKeysOnly(key) == IF key = None THEN UNCHANGED cache ELSE cache' = [key |-> key, at |-> now]

(* The fetch brings key, or None: an HTTP error, a body of another shape,  *)
(* or one that is no Ed25519 key.  Either is cached from the end of the    *)
(* fetch, in the place of whatever was there.                              *)
Cache(key) == cache' = [key |-> key, at |-> now]

(* Slip: the lock is kept.                                                 *)
ReleaseNot == UNCHANGED lock

Release == lock' = None

FetchEnds(r, key) ==
  /\ Cache(key)
  /\ Release
  /\ fetch' = [fetch EXCEPT ![r] = None]
  /\ Authenticate(r, request[r], key)
  /\ lastFetch' = [key |-> key, at |-> now]
  /\ UNCHANGED <<settings, waiting, bastion, now>>

-----------------------------------------------------------------------------
(* Bastion rotates its key.                                                *)
Rotate(k) ==
  /\ k # published
  /\ published' = k
  /\ changed' = [changed EXCEPT ![published] = now, ![k] = now]
  /\ answer' = None
  /\ UNCHANGED <<settings, cache, lock, waiting, fetch, request, lastFetch, now>>

(* The client's timeout ends a fetch, and a woken request runs long before *)
(* a tick has passed.                                                      *)
Tick ==
  /\ now < MaxTime
  /\ \A r \in Requests : fetch[r] # None => now < fetch[r]
  /\ ~(lock = None /\ waiting # <<>>)
  /\ now' = now + 1
  /\ answer' = None
  /\ UNCHANGED <<settings, cache, lock, waiting, fetch, request, bastion, lastFetch>>

(* Keys bastion served at some time since r's fetch began.                 *)
Offered(r) ==
  {k \in BastionKeys : k = published \/ fetch[r] <= changed[k] + FetchTime}

Fetched(r) ==
  fetch[r] # None /\ \E key \in Offered(r) \cup {None} : FetchEnds(r, key)

Next ==
  \/ \E r \in Requests : Unverified(r) \/ Fetched(r)
  \/ \E r \in Requests, token \in Tokens : Direct(r, token) \/ Arrive(r, token) \/ Queue(r, token)
  \/ Wake \/ Tick
  \/ \E k \in BastionKeys : Rotate(k)

Spec == Init /\ [][Next]_vars

(* The event loop runs what is ready, and httpx ends every fetch.          *)
FairSpec == Spec /\ WF_vars(Wake) /\ \A r \in Requests : WF_vars(Fetched(r))

-----------------------------------------------------------------------------
InFlight == {r \in Requests : request[r] # None}

Answer == [route: {"public", "protected"}, token: Tokens \cup {None},
           key: BastionKeys \cup {None}, iss: {Bastion, Frontend, None},
           said: {"proceeds", "401 missing_platform_token", "401 invalid_platform_token",
                  "503 platform_auth_unconfigured"}]

(* Types, and every request in flight is queued or holds the lock.         *)
TypeOK ==
  /\ settings \in Deployments
  /\ cache \in [key: BastionKeys \cup {None}, at: Nat] \cup {None}
  /\ lastFetch \in [key: BastionKeys \cup {None}, at: Nat] \cup {None}
  /\ fetch \in [Requests -> Nat \cup {None}]
  /\ request \in [Requests -> [token: Tokens, since: Nat] \cup {None}]
  /\ answer \in Answer \cup {None}
  /\ published \in BastionKeys /\ changed \in [BastionKeys -> Nat]
  /\ waiting \in Seq(Requests) /\ IsInjective(waiting)
  /\ InFlight = Range(waiting) \cup ({lock} \ {None})
  /\ now \in Nat

(* One fetch at a time, and none before the last result is an hour old, or *)
(* a minute when it was a failure: "never per request".                    *)
FetchesSpaced ==
  [][\A r \in Requests : fetch[r] = None /\ fetch'[r] # None =>
       /\ \A q \in Requests : fetch[q] = None
       /\ lastFetch # None => now - lastFetch.at >= TTLOf(lastFetch.key)]_vars

(* The keys a process may hold of an issuer's.                             *)
KeysOf(issuer) == IF issuer = Bastion THEN BastionKeys ELSE {FrontendKey}

(* Who proceeds as somebody holds a token that is theirs and in time, to   *)
(* the tick, when it proceeds, however long it waited for the key; what    *)
(* bastion alone may read takes a key of bastion's; and who proceeds as    *)
(* nobody was on a public route, or under DEMO_MODE or the test settings.  *)
ProceedsJustified ==
  answer # None /\ answer.said = "proceeds" =>
    IF answer.iss # None
    THEN /\ answer.token.iss = answer.iss /\ answer.token.signer \in KeysOf(answer.iss)
         /\ answer.iss = Frontend => answer.token.role = FrontendRole
         /\ answer.token.iat - Leeway <= now /\ now < answer.token.exp + Leeway
         /\ AuthorizeBastion(answer.iss) => answer.token.signer \in BastionKeys
    ELSE answer.route = "public" \/ settings.demo \/ (settings.test /\ ~IsConfigured)

(* Under a key URL, a withdrawn key opens nothing once _URL_KEY_TTL_S and  *)
(* a fetch have passed, and a good token under a key published for that    *)
(* long is not refused while a key of bastion's is held.                   *)
RotationTakesHold ==
  FromURL /\ answer # None /\ answer.token # None /\ answer.token.signer \in BastionKeys =>
    LET signer == answer.token.signer
        due    == changed[signer] + FetchTime + KeyTTL
    IN /\ answer.said = "proceeds" /\ signer # published => now < due
       /\ /\ answer.said = "401 invalid_platform_token" /\ answer.key # None
          /\ signer = published /\ Accepts(answer.token, Trust(Bastion, signer), now)
          => now < due

(* An unreachable bastion costs a request one fetch timeout, however many  *)
(* requests queue ahead of it.                                             *)
WaitsOneFetch == \A r \in InFlight : now <= request[r].since + FetchTime

(* No request hangs: the lock is released however the fetch ends.          *)
RequestsAnswered == \A r \in Requests : r \in InFlight ~> r \notin InFlight
=============================================================================
