----------------------------- MODULE RateLimit -----------------------------
(***************************************************************************)
(* The rate limiter of platform/rate_limit.py: one deque of accepted times *)
(* per caller and path, in the memory of one process.  The handler has no  *)
(* await between reading the clock and appending, so a request is a step.  *)
(*                                                                         *)
(* An operator commented "Slip" is a mistake somebody could make in the    *)
(* definition below it, used by nothing: the README says what for.         *)
(***************************************************************************)
EXTENDS Integers, Sequences

CONSTANTS
  Callers,    \* [iss, sub, address, path]: who may send what
  PerMinute,  \* rate_limit_per_minute
  Window,     \* _WINDOW_SECONDS, in ticks
  Second,     \* ticks in a second
  MaxTime     \* bound on the clock

(* rate_limit_per_minute = 0 makes every request fail with IndexError on   *)
(* bucket[0]; the default is 60.                                           *)
ASSUME LimitAssumption ==
  /\ PerMinute \in Nat \ {0} /\ Window \in Nat /\ Second \in Nat \ {0} /\ MaxTime \in Nat

VARIABLES
  hits,    \* the deques, by key
  served,  \* history: by key, all requests let through since start, [by, at]
  refusal, \* history: the last 429, <<[by, at, retry]>>, or <<>>
  now      \* time.monotonic()

vars == <<hits, served, refusal, now>>

-----------------------------------------------------------------------------
(* Slip: every authenticated caller is known by its sub.                   *)
IdentityBySub(c) == IF c.iss = "none" THEN <<c.address>> ELSE <<c.iss, c.sub>>

(* rate_limit_identity: bastion's visitors by pseudonym, the frontend's by *)
(* address, the others by bare address.                                    *)
Identity(c) ==
  IF c.iss = "none" THEN <<c.address>>
  ELSE IF c.iss = "bastion" THEN <<c.iss, c.sub>>
  ELSE <<c.iss, c.address>>

Key(c) == <<Identity(c), c.path>>

Keys == {Key(c) : c \in Callers}

Init ==
  /\ hits = [k \in Keys |-> <<>>]
  /\ served = [k \in Keys |-> <<>>]
  /\ refusal = <<>>
  /\ now = 0

(* popleft while the head is older than the window: n entries go.          *)
Expired(at, t) == t - at > Window

(* Slip: a window that ends takes all its entries with it.                 *)
PopsAll(bucket, n, t) ==
  n = IF bucket # <<>> /\ Expired(bucket[1], t) THEN Len(bucket) ELSE 0

Pops(bucket, n, t) ==
  /\ \A i \in 1..n : Expired(bucket[i], t)
  /\ n < Len(bucket) => ~Expired(bucket[n + 1], t)

(* Slip: pop instead of popleft.                                           *)
KeptOldest(bucket, n) == SubSeq(bucket, 1, Len(bucket) - n)

Kept(bucket, n) == SubSeq(bucket, n + 1, Len(bucket))

Larger(a, b) == IF a > b THEN a ELSE b

(* Slips: a misplaced parenthesis; the time waited instead of what is left.  *)
RetryAfterMisplaced(oldest) == (Window - now - oldest) \div Second

RetryAfterElapsed(oldest) == Larger(1, (now - oldest) \div Second)

RetryAfter(oldest) == Larger(1, (Window - (now - oldest)) \div Second)

Request(c) ==
  LET k == Key(c) IN
  \E n \in 0..Len(hits[k]) :
    /\ Pops(hits[k], n, now)
    /\ LET bucket == Kept(hits[k], n) IN
         IF Len(bucket) >= PerMinute
         THEN /\ hits' = [hits EXCEPT ![k] = bucket]
              /\ refusal' = <<[by |-> c, at |-> now, retry |-> RetryAfter(bucket[1])]>>
              /\ UNCHANGED served
         ELSE /\ hits' = [hits EXCEPT ![k] = Append(bucket, now)]
              /\ served' = [served EXCEPT ![k] = Append(@, [by |-> c, at |-> now])]
              /\ UNCHANGED refusal
    /\ UNCHANGED now

(* A new process starts with empty deques; its quota starts over.          *)
Restart ==
  /\ hits' = [k \in Keys |-> <<>>]
  /\ served' = [k \in Keys |-> <<>>]
  /\ refusal' = <<>>
  /\ UNCHANGED now

Tick ==
  /\ now < MaxTime
  /\ now' = now + 1
  /\ UNCHANGED <<hits, served, refusal>>

Next == (\E c \in Callers : Request(c)) \/ Restart \/ Tick

Spec == Init /\ [][Next]_vars

-----------------------------------------------------------------------------
Served == [by: Callers, at: Nat]
Refused == [by: Callers, at: Nat, retry: Nat]

TypeOK ==
  /\ hits \in [Keys -> Seq(Nat)]
  /\ served \in [Keys -> Seq(Served)]
  /\ refusal \in Seq(Refused)
  /\ now \in Nat

(* The deque holds the youngest requests served, in the order they came    *)
(* and all within one window: an entry that had expired when the youngest  *)
(* was served is gone.  What it no longer holds had left the window.       *)
Recent(bucket, log, t) ==
  LET gone == Len(log) - Len(bucket) IN
    /\ gone >= 0 /\ Len(bucket) <= PerMinute
    /\ \A i \in 1..Len(bucket) : bucket[i] = log[gone + i].at
    /\ \A i, j \in 1..Len(bucket) :
         i <= j => bucket[i] <= bucket[j] /\ ~Expired(bucket[i], bucket[j])
    /\ \A i \in 1..gone : Expired(log[i].at, t)
    /\ \A i \in 1..Len(log) : log[i].at <= t

DequeIsRecent == \A k \in Keys : Recent(hits[k], served[k], now)

(* More than PerMinute requests of one key never get through within a      *)
(* window, wherever the window starts: the limit does not reset at fixed   *)
(* boundaries that a burst could straddle.                                 *)
Spaced(log) ==
  \A i \in 1..Len(log) :
    i + PerMinute <= Len(log) => log[i + PerMinute].at - log[i].at > Window

QuotaHolds == \A k \in Keys : Spaced(served[k])

SameVisitor(c, d) ==
  /\ c.iss = d.iss
  /\ IF c.iss = "bastion" THEN c.sub = d.sub ELSE c.address = d.address

(* A caller is refused only for its own requests: PerMinute of them, by    *)
(* the same visitor on the same path, are in the window before it.         *)
RefusedForOwnRequests ==
  \A j \in 1..Len(refusal) :
    LET r == refusal[j]
        s == served[Key(r.by)]
    IN \E first \in 1..Len(s) :
         /\ first + PerMinute - 1 <= Len(s)
         /\ \A i \in first..(first + PerMinute - 1) :
              /\ r.at - s[i].at <= Window
              /\ SameVisitor(s[i].by, r.by) /\ s[i].by.path = r.by.path

(* A second past the Retry-After it was given, a caller that sent nothing  *)
(* else has room again: int() loses less than a second of the wait.        *)
RetryAfterSuffices ==
  \A j \in 1..Len(refusal) :
    LET r   == refusal[j]
        log == served[Key(r.by)]
    IN \E i \in 1..Len(log) :
         /\ r.at - log[i].at <= Window
         /\ r.at + (r.retry + 1) * Second - log[i].at > Window
         /\ \A m \in 1..Len(log) : log[m].at <= r.at => m < i + PerMinute
=============================================================================
