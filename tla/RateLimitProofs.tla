--------------------------- MODULE RateLimitProofs ---------------------------
(***************************************************************************)
(* The quota of RateLimit for every set of callers, limit and window.      *)
(* DequeIsRecent is what makes it inductive: a deque is the tail of what   *)
(* was served, no longer than a window, and what it dropped is older.      *)
(***************************************************************************)
EXTENDS RateLimit, TLAPS

IInv == TypeOK /\ DequeIsRecent /\ QuotaHolds

(* What a deque holds after its old entries are popped.                    *)
LEMMA KeptIsTail ==
  ASSUME NEW b \in Seq(Nat), NEW n \in 0..Len(b)
  PROVE  /\ Kept(b, n) \in Seq(Nat)
         /\ Len(Kept(b, n)) = Len(b) - n
         /\ \A i \in 1..Len(Kept(b, n)) : Kept(b, n)[i] = b[n + i]
BY DEF Kept

(* Popping old entries only moves them to those gone before.               *)
LEMMA PopKeepsRecent ==
  ASSUME NEW b \in Seq(Nat), NEW log \in Seq(Served), NEW t \in Nat,
         NEW n \in 0..Len(b), Recent(b, log, t), Pops(b, n, t)
  PROVE  Recent(Kept(b, n), log, t)
<1> USE LimitAssumption
<1>0. Len(log) - Len(b) \in Int
  OBVIOUS
<1>1. PICK gone \in Int : gone = Len(log) - Len(b)
  BY <1>0, Zenon
<1>2. /\ gone >= 0 /\ Len(b) <= PerMinute
      /\ \A i \in 1..Len(b) : b[i] = log[gone + i].at
      /\ \A i \in 1..gone : Expired(log[i].at, t)
      /\ \A i \in 1..Len(log) : log[i].at <= t
  BY <1>1 DEF Recent
<1>3. PICK kept \in Seq(Nat) : kept = Kept(b, n)
  BY KeptIsTail
<1>4. Len(kept) = Len(b) - n /\ \A i \in 1..Len(kept) : kept[i] = b[n + i]
  BY <1>3, KeptIsTail
<1>5. Len(log) - Len(kept) = gone + n
  BY <1>1, <1>4
<1>6. ASSUME NEW i \in 1..(gone + n) PROVE Expired(log[i].at, t)
  <2>1. CASE i <= gone
    BY <2>1, <1>2
  <2>2. CASE i > gone
    <3>1. PICK j \in 1..n : i = gone + j
      BY <2>2, <1>2, <1>6
    <3>2. Expired(b[j], t) /\ j \in 1..Len(b)
      BY <3>1 DEF Pops
    <3> QED
      BY <3>1, <3>2, <1>2
  <2> QED
    BY <2>1, <2>2
<1>7. ASSUME NEW i \in 1..Len(kept) PROVE kept[i] = log[gone + n + i].at
  <2>1. n + i \in 1..Len(b) /\ gone + (n + i) = gone + n + i
    BY <1>4
  <2> QED
    BY <2>1, <1>2, <1>4
<1>8. gone + n >= 0 /\ Len(kept) <= PerMinute
  BY <1>2, <1>4
<1>a. ASSUME NEW i \in 1..Len(kept), NEW j \in 1..Len(kept), i <= j
      PROVE  kept[i] <= kept[j] /\ ~Expired(kept[i], kept[j])
  <2>1. n + i \in 1..Len(b) /\ n + j \in 1..Len(b) /\ n + i <= n + j
    BY <1>4, <1>a
  <2>2. b[n + i] <= b[n + j] /\ ~Expired(b[n + i], b[n + j])
    BY <2>1 DEF Recent
  <2> QED
    BY <1>4, <2>2
<1>9. Recent(kept, log, t)
  BY <1>2, <1>5, <1>6, <1>7, <1>8, <1>a DEF Recent
<1> QED
  BY <1>3, <1>9

(* A request let through is the youngest, and the PerMinute-th after one   *)
(* that is gone.                                                           *)
LEMMA ServeKeepsQuota ==
  ASSUME NEW b \in Seq(Nat), NEW log \in Seq(Served), NEW t \in Nat,
         NEW e \in Served, e.at = t,
         Recent(b, log, t), Spaced(log), Len(b) < PerMinute,
         Len(b) > 0 => ~Expired(b[1], t)
  PROVE  Recent(Append(b, t), Append(log, e), t) /\ Spaced(Append(log, e))
<1> USE LimitAssumption
<1>0. Len(log) - Len(b) \in Int
  OBVIOUS
<1>1. PICK gone \in Int : gone = Len(log) - Len(b)
  BY <1>0, Zenon
<1>2. /\ gone >= 0
      /\ \A i \in 1..Len(b) : b[i] = log[gone + i].at
      /\ \A i \in 1..gone : Expired(log[i].at, t)
      /\ \A i \in 1..Len(log) : log[i].at <= t
  BY <1>1 DEF Recent
<1>a. Append(b, t) \in Seq(Nat) /\ Append(log, e) \in Seq(Served)
  OBVIOUS
<1>3. PICK more \in Seq(Nat) : more = Append(b, t)
  BY <1>a, Zenon
<1>4. PICK longer \in Seq(Served) : longer = Append(log, e)
  BY <1>a, Zenon
<1>5. /\ Len(more) = Len(b) + 1 /\ more[Len(b) + 1] = t
      /\ \A i \in 1..Len(b) : more[i] = b[i]
  BY <1>3
<1>6. /\ Len(longer) = Len(log) + 1 /\ longer[Len(log) + 1] = e
      /\ \A i \in 1..Len(log) : longer[i] = log[i]
  BY <1>4
<1>7. Recent(more, longer, t)
  <2>1. Len(longer) - Len(more) = gone /\ Len(more) <= PerMinute
    BY <1>1, <1>5, <1>6
  <2>2. ASSUME NEW i \in 1..Len(more) PROVE more[i] = longer[gone + i].at
    <3>1. CASE i \in 1..Len(b)
      <4>1. gone + i \in 1..Len(log)
        BY SMTT(30), <3>1, <1>1, <1>2
      <4> QED
        BY <4>1, <3>1, <1>2, <1>5, <1>6
    <3>2. CASE i = Len(b) + 1
      <4>1. gone + i = Len(log) + 1
        BY <3>2, <1>1
      <4> QED
        BY <4>1, <3>2, <1>5, <1>6
    <3> QED
      BY <3>1, <3>2, <1>5
  <2>3. ASSUME NEW i \in 1..gone PROVE Expired(longer[i].at, t)
    <3>1. i \in 1..Len(log)
      BY <1>1
    <3> QED
      BY <3>1, <1>2, <1>6
  <2>4. ASSUME NEW i \in 1..Len(longer) PROVE longer[i].at <= t
    <3>1. CASE i \in 1..Len(log)
      BY <3>1, <1>2, <1>6
    <3>2. CASE i = Len(log) + 1
      BY <3>2, <1>6
    <3> QED
      BY <3>1, <3>2, <1>6
  <2>5. ASSUME NEW i \in 1..Len(b) PROVE b[i] <= t /\ ~Expired(b[i], t)
    <3>1. gone + i \in 1..Len(log)
      BY SMTT(30), <1>1, <1>2
    <3>2. b[i] <= t
      BY <1>2, <3>1
    <3>3. 1 \in 1..Len(b) /\ 1 <= i /\ b[1] \in Nat /\ b[i] \in Nat
      OBVIOUS
    <3>4. b[1] <= b[i]
      BY <3>3 DEF Recent
    <3>5. ~Expired(b[1], t)
      BY <3>3
    <3> QED
      BY <3>2, <3>3, <3>4, <3>5 DEF Expired
  <2>6. ASSUME NEW i \in 1..Len(more), NEW j \in 1..Len(more), i <= j
        PROVE  more[i] <= more[j] /\ ~Expired(more[i], more[j])
    <3>1. CASE j \in 1..Len(b)
      <4>0. i \in 1..Len(b)
        BY <2>6, <3>1
      <4>1. i \in 1..Len(b) /\ more[i] = b[i] /\ more[j] = b[j]
        BY <1>5, <3>1, <4>0
      <4> QED
        BY <2>6, <3>1, <4>1 DEF Recent
    <3>2. CASE j = Len(b) + 1 /\ i \in 1..Len(b)
      BY <1>5, <2>5, <3>2
    <3>3. CASE j = Len(b) + 1 /\ i = Len(b) + 1
      BY <1>5, <3>3 DEF Expired
    <3> QED
      BY <1>5, <2>6, <3>1, <3>2, <3>3
  <2> QED
    BY <2>1, <2>2, <2>3, <2>4, <2>6, <1>2 DEF Recent
<1>8. Spaced(longer)
  <2> SUFFICES ASSUME NEW i \in 1..Len(longer), i + PerMinute <= Len(longer)
               PROVE  longer[i + PerMinute].at - longer[i].at > Window
    BY DEF Spaced
  <2>1. CASE i + PerMinute <= Len(log)
    <3>1. i \in 1..Len(log) /\ i + PerMinute \in 1..Len(log)
      BY <2>1
    <3> QED
      BY <3>1, <2>1, <1>6 DEF Spaced
  <2>2. CASE i + PerMinute = Len(log) + 1
    <3>1. i \in 1..gone /\ i \in 1..Len(log)
      BY <2>2, <1>1
    <3>2. t - log[i].at > Window
      BY <3>1, <1>2 DEF Expired
    <3> QED
      BY <3>1, <3>2, <2>2, <1>6
  <2>3. i + PerMinute <= Len(log) \/ i + PerMinute = Len(log) + 1
    <3>1. i + PerMinute <= Len(log) + 1 /\ i + PerMinute \in Int /\ Len(log) \in Int
      BY <1>6
    <3>2. \A x, y \in Int : x <= y + 1 => x <= y \/ x = y + 1
      OBVIOUS
    <3> QED
      BY ONLY <3>1, <3>2, Zenon
  <2> QED
    BY <2>1, <2>2, <2>3
<1> QED
  BY <1>3, <1>4, <1>7, <1>8

(* What was old stays old.                                                 *)
LEMMA TimeKeepsRecent ==
  ASSUME NEW b \in Seq(Nat), NEW log \in Seq(Served), NEW t \in Nat, Recent(b, log, t)
  PROVE  Recent(b, log, t + 1)
<1> USE LimitAssumption
<1>1. ASSUME NEW i \in 1..Len(log)
      PROVE  /\ log[i].at <= t => log[i].at <= t + 1
             /\ Expired(log[i].at, t) => Expired(log[i].at, t + 1)
  <2>1. log[i] \in Served
    OBVIOUS
  <2>2. log[i].at \in Nat
    BY <2>1 DEF Served
  <2> QED
    BY <2>2 DEF Expired
<1>2. \A i \in 1..(Len(log) - Len(b)) : i \in 1..Len(log)
  OBVIOUS
<1> QED
  BY <1>1, <1>2 DEF Recent

LEMMA InitInv == Init => IInv
<1> SUFFICES ASSUME Init PROVE IInv
  OBVIOUS
<1> USE LimitAssumption
<1>1. TypeOK
  BY DEF Init, TypeOK
<1>2. DequeIsRecent
  BY DEF Init, DequeIsRecent, Recent
<1>3. QuotaHolds
  BY DEF Init, QuotaHolds, Spaced
<1> QED
  BY <1>1, <1>2, <1>3 DEF IInv

LEMMA RequestInv ==
  ASSUME IInv, NEW c \in Callers, Request(c)
  PROVE  IInv'
<1> USE LimitAssumption
<1>1. PICK k \in Keys : k = Key(c)
  BY DEF Keys
<1>2. PICK n \in 0..Len(hits[k]) :
        /\ Pops(hits[k], n, now)
        /\ LET bucket == Kept(hits[k], n) IN
             IF Len(bucket) >= PerMinute
             THEN /\ hits' = [hits EXCEPT ![k] = bucket]
                  /\ refusal' = <<[by |-> c, at |-> now, retry |-> RetryAfter(bucket[1])]>>
                  /\ UNCHANGED served
             ELSE /\ hits' = [hits EXCEPT ![k] = Append(bucket, now)]
                  /\ served' = [served EXCEPT ![k] = Append(@, [by |-> c, at |-> now])]
                  /\ UNCHANGED refusal
        /\ UNCHANGED now
  BY <1>1 DEF Request
<1>3. /\ hits \in [Keys -> Seq(Nat)] /\ hits[k] \in Seq(Nat)
      /\ served \in [Keys -> Seq(Served)] /\ served[k] \in Seq(Served)
      /\ refusal \in Seq(Refused)
      /\ now \in Nat /\ now' = now
  BY <1>2 DEF IInv, TypeOK
<1>4. PICK bucket \in Seq(Nat) : bucket = Kept(hits[k], n)
  BY <1>3, KeptIsTail
<1>5. Recent(hits[k], served[k], now) /\ Spaced(served[k])
  BY DEF IInv, DequeIsRecent, QuotaHolds
<1>6. Recent(bucket, served[k], now)
  BY <1>2, <1>3, <1>4, <1>5, PopKeepsRecent
<1>7. CASE Len(bucket) >= PerMinute
  <2>1. /\ hits' = [hits EXCEPT ![k] = bucket] /\ served' = served
        /\ refusal' = <<[by |-> c, at |-> now, retry |-> RetryAfter(bucket[1])]>>
    BY <1>7, <1>2, <1>4
  <2>2. RetryAfter(bucket[1]) \in Nat
    <3>1. bucket[1] \in Nat
      BY <1>7
    <3>2. (Window - (now - bucket[1])) \div Second \in Int
      BY <3>1, <1>3
    <3> QED
      BY <3>2 DEF RetryAfter, Larger
  <2>3. PICK r \in Refused : r = [by |-> c, at |-> now, retry |-> RetryAfter(bucket[1])]
    BY <2>2, <1>3 DEF Refused
  <2>4. TypeOK'
    BY <2>1, <2>3, <1>3 DEF TypeOK
  <2>5. DequeIsRecent'
    BY <2>1, <1>3, <1>6 DEF IInv, DequeIsRecent
  <2>6. QuotaHolds'
    BY <2>1 DEF IInv, QuotaHolds
  <2> QED
    BY <2>4, <2>5, <2>6 DEF IInv
<1>8. CASE Len(bucket) < PerMinute
  <2>1. PICK e \in Served : e = [by |-> c, at |-> now]
    BY <1>3 DEF Served
  <2>2. ~(Len(bucket) >= PerMinute)
    BY <1>8
  <2>3. /\ hits' = [hits EXCEPT ![k] = Append(bucket, now)]
        /\ served' = [served EXCEPT ![k] = Append(served[k], e)]
        /\ refusal' = refusal
    BY <2>1, <2>2, <1>2, <1>4
  <2>h. Len(bucket) > 0 => ~Expired(bucket[1], now)
    <3>1. /\ Len(bucket) = Len(hits[k]) - n
          /\ \A i \in 1..Len(bucket) : bucket[i] = hits[k][n + i]
      BY <1>3, <1>4, KeptIsTail
    <3>2. n < Len(hits[k]) => ~Expired(hits[k][n + 1], now)
      BY <1>2 DEF Pops
    <3> SUFFICES ASSUME Len(bucket) > 0 PROVE ~Expired(bucket[1], now)
      OBVIOUS
    <3>3. n < Len(hits[k]) /\ 1 \in 1..Len(bucket)
      BY <1>3, <3>1
    <3>4. bucket[1] = hits[k][n + 1]
      BY <3>1, <3>3
    <3> QED
      BY <3>2, <3>3, <3>4
  <2>4. /\ Recent(Append(bucket, now), Append(served[k], e), now)
        /\ Spaced(Append(served[k], e))
    BY <2>1, <2>h, <1>3, <1>5, <1>6, <1>8, ServeKeepsQuota
  <2>5. TypeOK'
    <3>1. Append(bucket, now) \in Seq(Nat) /\ Append(served[k], e) \in Seq(Served)
      BY <2>1, <1>3
    <3> QED
      BY <3>1, <2>3, <1>3 DEF TypeOK
  <2>6. DequeIsRecent'
    BY <2>3, <2>4, <1>3 DEF IInv, DequeIsRecent
  <2>7. QuotaHolds'
    BY <2>3, <2>4, <1>3 DEF IInv, QuotaHolds
  <2> QED
    BY <2>5, <2>6, <2>7 DEF IInv
<1> QED
  BY <1>7, <1>8

LEMMA NextInv == IInv /\ [Next]_vars => IInv'
<1> SUFFICES ASSUME IInv, [Next]_vars PROVE IInv'
  OBVIOUS
<1> USE LimitAssumption
<1>1. ASSUME NEW c \in Callers, Request(c) PROVE IInv'
  BY <1>1, RequestInv
<1>2. CASE Restart
  <2>1. TypeOK'
    BY <1>2 DEF Restart, TypeOK, IInv
  <2>2. DequeIsRecent'
    BY <1>2 DEF Restart, DequeIsRecent, Recent
  <2>3. QuotaHolds'
    BY <1>2 DEF Restart, QuotaHolds, Spaced
  <2> QED
    BY <2>1, <2>2, <2>3 DEF IInv
<1>3. CASE Tick
  <2>1. TypeOK'
    BY <1>3 DEF Tick, TypeOK, IInv
  <2>2. DequeIsRecent'
    BY <1>3, TimeKeepsRecent DEF Tick, DequeIsRecent, IInv, TypeOK
  <2>3. QuotaHolds'
    BY <1>3 DEF Tick, QuotaHolds, IInv
  <2> QED
    BY <2>1, <2>2, <2>3 DEF IInv
<1>4. CASE UNCHANGED vars
  BY <1>4 DEF vars, IInv, TypeOK, DequeIsRecent, QuotaHolds
<1> QED
  BY <1>1, <1>2, <1>3, <1>4 DEF Next

LEMMA Inductive == Spec => []IInv
BY InitInv, NextInv, PTL DEF Spec

(* The deques hold times and the refusals a Retry-After of some seconds,   *)
(* never a negative one, whatever the limit and the window.                *)
THEOREM TypeCorrect == Spec => []TypeOK
<1>1. IInv => TypeOK
  BY DEF IInv
<1> QED
  BY <1>1, Inductive, PTL

(* More than PerMinute requests of one key never get through in a window   *)
(* (rate_limit.py), whatever the limit, the window and the callers.        *)
THEOREM QuotaIsKept == Spec => []QuotaHolds
<1>1. IInv => QuotaHolds
  BY DEF IInv
<1> QED
  BY <1>1, Inductive, PTL

(* A deque holds the youngest accepted requests, at most PerMinute and all *)
(* within one window of the youngest; the others had left the window.      *)
(* Entries may grow old in it while no request of its key comes: they are  *)
(* popped by the next (rate_limit.py).                                     *)
THEOREM DequesAreRecent == Spec => []DequeIsRecent
<1>1. IInv => DequeIsRecent
  BY DEF IInv
<1> QED
  BY <1>1, Inductive, PTL

-----------------------------------------------------------------------------
(* What a key's log says of its callers, in the order they came.           *)
Ordered(log) == \A i, j \in 1..Len(log) : i <= j => log[i].at <= log[j].at

LogsAreOwn ==
  \A k \in Keys : /\ Ordered(served[k])
                  /\ \A i \in 1..Len(served[k]) : Key(served[k][i].by) = k

(* A second past its Retry-After the oldest of them has left the window.   *)
Enough(at, retry, oldest) == at + (retry + 1) * Second - oldest > Window

(* The PerMinute requests a refusal is for: entries gone + 1 onwards, none *)
(* after them as old as the refusal.                                       *)
Backed(r, log) ==
  \E gone \in Nat :
    /\ gone + PerMinute <= Len(log)
    /\ \A i \in 1..PerMinute : r.at - log[gone + i].at <= Window
    /\ Enough(r.at, r.retry, log[gone + 1].at)
    /\ \A m \in 1..Len(log) : m > gone + PerMinute => log[m].at > r.at

(* A deque that refused stays full until the clock moves.                  *)
Full(bucket, t) == Len(bucket) = PerMinute /\ ~Expired(bucket[1], t)

RefusalsAreBacked ==
  \A j \in 1..Len(refusal) :
    LET r == refusal[j] IN
    /\ r.at <= now
    /\ r.at = now => Full(hits[Key(r.by)], now)
    /\ Backed(r, served[Key(r.by)])

OwnInv == LogsAreOwn /\ RefusalsAreBacked

(* A key names one visitor on one path.                                    *)
LEMMA KeyIsVisitor ==
  ASSUME NEW c, NEW d, Key(c) = Key(d)
  PROVE  SameVisitor(c, d) /\ c.path = d.path
<1>1. Identity(c) = Identity(d) /\ c.path = d.path
  BY DEF Key
<1>2. \A x, y, z : <<x>> # <<y, z>>
  OBVIOUS
<1>3. \A w, x, y, z : <<w, x>> = <<y, z>> => w = y /\ x = z
  OBVIOUS
<1>4. \A x, y : <<x>> = <<y>> => x = y
  OBVIOUS
<1>5. SameVisitor(c, d)
  BY <1>1, <1>2, <1>3, <1>4, Zenon DEF Identity, SameVisitor
<1> QED BY <1>1, <1>5

(* int() loses less than a second.                                         *)
LEMMA SecondAfter ==
  ASSUME NEW oldest \in Nat, NEW retry \in Nat, now \in Nat, retry = RetryAfter(oldest)
  PROVE  Enough(now, retry, oldest)
<1> USE LimitAssumption DEF Enough
<1>1. PICK x \in Int : x = Window - (now - oldest)
  OBVIOUS
<1>2. PICK q \in Int : q = x \div Second
  OBVIOUS
<1>3. (q + 1) * Second > x
  BY <1>1, <1>2
<1>4. retry >= q
  BY <1>1, <1>2 DEF RetryAfter, Larger
<1>5. (retry + 1) * Second >= (q + 1) * Second
  BY <1>4
<1> QED BY <1>1, <1>3, <1>5

LEMMA EntryIsServed ==
  ASSUME NEW log \in Seq(Served), NEW i \in 1..Len(log)
  PROVE  log[i] \in Served /\ log[i].at \in Nat
<1>1. log[i] \in Served
  OBVIOUS
<1> QED BY <1>1 DEF Served

LEMMA RefusalIsRefused ==
  ASSUME TypeOK, NEW j \in 1..Len(refusal)
  PROVE  refusal[j] \in Refused /\ refusal[j].at \in Nat /\ Key(refusal[j].by) \in Keys
<1>1. refusal[j] \in Refused
  BY DEF TypeOK
<1> QED BY <1>1 DEF Refused, Keys

(* A full deque popped at the time of its refusal keeps all it holds.      *)
LEMMA FullPopsNothing ==
  ASSUME NEW b \in Seq(Nat), NEW n \in 0..Len(b), Pops(b, n, now), Full(b, now)
  PROVE  Len(Kept(b, n)) = PerMinute
<1>1. n = 0
  BY LimitAssumption DEF Pops, Full
<1> QED BY <1>1, KeptIsTail DEF Full

(* A refusal is backed by what the deque held.                             *)
LEMMA RefusalBacked ==
  ASSUME NEW bucket \in Seq(Nat), NEW log \in Seq(Served), now \in Nat, Recent(bucket, log, now),
         Ordered(log), Len(bucket) >= PerMinute, ~Expired(bucket[1], now),
         NEW r \in Refused, r.at = now, r.retry = RetryAfter(bucket[1])
  PROVE  Full(bucket, now) /\ Backed(r, log)
<1> USE LimitAssumption
<1>1. Len(log) - Len(bucket) \in Int
  OBVIOUS
<1>2. PICK gone \in Int : gone = Len(log) - Len(bucket)
  BY <1>1, Zenon
<1>3. /\ gone >= 0 /\ Len(bucket) <= PerMinute
      /\ \A i \in 1..Len(bucket) : bucket[i] = log[gone + i].at
  BY <1>2 DEF Recent
<1>4. Len(bucket) = PerMinute
  BY <1>3
<1>5. gone \in Nat /\ gone + PerMinute = Len(log)
  BY <1>2, <1>3, <1>4
<1>6. ASSUME NEW i \in 1..PerMinute
      PROVE  /\ gone + i \in 1..Len(log) /\ gone + 1 \in 1..Len(log) /\ gone + 1 <= gone + i
             /\ log[gone + i].at = bucket[i] /\ log[gone + 1].at = bucket[1]
             /\ bucket[i] \in Nat /\ bucket[1] \in Nat
  BY <1>3, <1>4, <1>5
<1>7. ASSUME NEW i \in 1..PerMinute PROVE r.at - log[gone + i].at <= Window
  <2>1. bucket[1] <= bucket[i]
    BY <1>6, Zenon DEF Ordered
  <2>2. now - bucket[1] <= Window
    BY <1>6 DEF Expired
  <2>3. now - bucket[i] <= Window
    BY SMTT(30), <1>6, <2>1, <2>2
  <2> QED BY <1>6, <2>3, Zenon
<1>8. 1 \in 1..PerMinute
  OBVIOUS
<1>9. Enough(r.at, r.retry, log[gone + 1].at)
  <2>1. r.retry \in Nat
    BY DEF Refused
  <2> QED BY <1>6, <1>8, <2>1, SecondAfter
<1>10. \A m \in 1..Len(log) : m > gone + PerMinute => log[m].at > r.at
  BY <1>5
<1>11. gone + PerMinute <= Len(log)
  BY <1>5
<1>12. Backed(r, log)
  BY <1>5, <1>7, <1>9, <1>10, <1>11, Zenon DEF Backed
<1> QED BY <1>4, <1>12 DEF Full

(* A request let through later does not unsettle an earlier refusal.       *)
LEMMA StaysBacked ==
  ASSUME NEW r \in Refused, NEW log \in Seq(Served), NEW e \in Served, e.at > r.at, Backed(r, log)
  PROVE  Backed(r, Append(log, e))
<1> USE LimitAssumption
<1>1. PICK gone \in Nat :
        /\ gone + PerMinute <= Len(log)
        /\ \A i \in 1..PerMinute : r.at - log[gone + i].at <= Window
        /\ Enough(r.at, r.retry, log[gone + 1].at)
        /\ \A m \in 1..Len(log) : m > gone + PerMinute => log[m].at > r.at
  BY DEF Backed
<1>2. Append(log, e) \in Seq(Served)
  OBVIOUS
<1>3. PICK longer \in Seq(Served) : longer = Append(log, e)
  BY <1>2, Zenon
<1>4. /\ Len(longer) = Len(log) + 1 /\ longer[Len(log) + 1] = e
      /\ \A m \in 1..Len(log) : longer[m] = log[m]
  BY <1>3
<1>5. gone + PerMinute <= Len(longer)
  BY <1>1, <1>4
<1>6. ASSUME NEW i \in 1..PerMinute
      PROVE  longer[gone + i] = log[gone + i] /\ longer[gone + 1] = log[gone + 1]
  <2>1. gone + i \in 1..Len(log) /\ gone + 1 \in 1..Len(log)
    BY <1>1
  <2> QED BY <1>4, <2>1, Zenon
<1>7. ASSUME NEW m \in 1..Len(longer), m > gone + PerMinute PROVE longer[m].at > r.at
  <2>1. CASE m \in 1..Len(log)
    BY <1>1, <1>4, <1>7, <2>1, Zenon
  <2>2. CASE m = Len(log) + 1
    BY <1>4, <2>2, Zenon
  <2> QED BY <1>4, <2>1, <2>2
<1>8. \A i \in 1..PerMinute : r.at - longer[gone + i].at <= Window
  BY <1>1, <1>6, Zenon
<1>9. 1 \in 1..PerMinute
  OBVIOUS
<1>10. Enough(r.at, r.retry, longer[gone + 1].at)
  BY <1>1, <1>6, <1>9, Zenon
<1>11. Backed(r, longer)
  BY <1>5, <1>7, <1>8, <1>10, Zenon DEF Backed
<1> QED BY <1>3, <1>11

LEMMA StaysOrdered ==
  ASSUME NEW log \in Seq(Served), NEW e \in Served, Ordered(log), \A i \in 1..Len(log) : log[i].at <= e.at
  PROVE  Ordered(Append(log, e))
<1>a. Append(log, e) \in Seq(Served)
  OBVIOUS
<1>1. PICK longer \in Seq(Served) : longer = Append(log, e)
  BY <1>a, Zenon
<1>2. /\ Len(longer) = Len(log) + 1 /\ longer[Len(log) + 1] = e
      /\ \A m \in 1..Len(log) : longer[m] = log[m]
  BY <1>1
<1>3. e.at \in Nat
  BY DEF Served
<1>4. Ordered(longer)
  BY <1>2, <1>3 DEF Ordered
<1> QED BY <1>1, <1>4

LEMMA RequestOwn ==
  ASSUME IInv, OwnInv, NEW c \in Callers, Request(c)
  PROVE  OwnInv'
<1> USE LimitAssumption
<1>1. PICK k \in Keys : k = Key(c)
  BY DEF Keys
<1>2. PICK n \in 0..Len(hits[k]) :
        /\ Pops(hits[k], n, now)
        /\ LET bucket == Kept(hits[k], n) IN
             IF Len(bucket) >= PerMinute
             THEN /\ hits' = [hits EXCEPT ![k] = bucket]
                  /\ refusal' = <<[by |-> c, at |-> now, retry |-> RetryAfter(bucket[1])]>>
                  /\ UNCHANGED served
             ELSE /\ hits' = [hits EXCEPT ![k] = Append(bucket, now)]
                  /\ served' = [served EXCEPT ![k] = Append(@, [by |-> c, at |-> now])]
                  /\ UNCHANGED refusal
        /\ UNCHANGED now
  BY <1>1 DEF Request
<1>3. /\ hits \in [Keys -> Seq(Nat)] /\ hits[k] \in Seq(Nat)
      /\ served \in [Keys -> Seq(Served)] /\ served[k] \in Seq(Served)
      /\ refusal \in Seq(Refused)
      /\ now \in Nat /\ now' = now
  BY <1>2 DEF IInv, TypeOK
<1>4. PICK bucket \in Seq(Nat) : bucket = Kept(hits[k], n)
  BY <1>3, KeptIsTail
<1>5. Recent(hits[k], served[k], now) /\ Ordered(served[k])
  BY DEF IInv, OwnInv, DequeIsRecent, LogsAreOwn
<1>6. Recent(bucket, served[k], now)
  BY <1>2, <1>3, <1>4, <1>5, PopKeepsRecent
<1>7. CASE Len(bucket) >= PerMinute
  <2> DEFINE r == [by |-> c, at |-> now, retry |-> RetryAfter(bucket[1])]
  <2>1. hits' = [hits EXCEPT ![k] = bucket] /\ served' = served /\ refusal' = <<r>>
    BY <1>7, <1>2, <1>4
  <2>2. r.by = c /\ r.at = now /\ r.retry = RetryAfter(bucket[1])
    OBVIOUS
  <2>3. IInv'
    BY RequestInv
  <2>4. refusal' \in Seq(Refused)
    BY <2>3 DEF IInv, TypeOK
  <2> HIDE DEF r
  <2>5. r \in Refused
    BY <2>1, <2>4
  <2>6. Full(bucket, now) /\ Backed(r, served[k])
    <3>1. ~Expired(bucket[1], now)
      <4>1. Len(bucket) = Len(hits[k]) - n /\ bucket[1] = hits[k][n + 1]
        <5>1. Len(bucket) = Len(hits[k]) - n /\ \A i \in 1..Len(bucket) : bucket[i] = hits[k][n + i]
          BY <1>3, <1>4, KeptIsTail
        <5>2. 1 \in 1..Len(bucket)
          BY <1>7
        <5> QED BY <5>1, <5>2, Zenon
      <4> QED BY <1>2, <1>3, <1>7, <4>1 DEF Pops
    <3> QED BY <1>3, <1>5, <1>6, <1>7, <2>2, <2>5, <3>1, RefusalBacked
  <2>7. RefusalsAreBacked'
    <3>1. hits'[k] = bucket
      BY <2>1, <1>3
    <3>2. Len(refusal') = 1 /\ refusal'[1] = r
      BY <2>1
    <3> QED BY <1>1, <1>3, <2>1, <2>2, <2>6, <3>1, <3>2 DEF RefusalsAreBacked
  <2>8. LogsAreOwn'
    BY <2>1 DEF OwnInv, LogsAreOwn
  <2> QED BY <2>7, <2>8 DEF OwnInv
<1>8. CASE Len(bucket) < PerMinute
  <2>1. PICK e \in Served : e = [by |-> c, at |-> now]
    BY <1>3 DEF Served
  <2>2. ~(Len(bucket) >= PerMinute)
    BY <1>8
  <2>3. /\ hits' = [hits EXCEPT ![k] = Append(bucket, now)]
        /\ served' = [served EXCEPT ![k] = Append(served[k], e)]
        /\ refusal' = refusal
    BY <2>1, <2>2, <1>2, <1>4
  <2>4. e.at = now /\ e.by = c
    BY <2>1
  <2>5. LogsAreOwn'
    <3>1. ASSUME NEW x \in Keys
          PROVE  Ordered(served'[x]) /\ \A i \in 1..Len(served'[x]) : Key(served'[x][i].by) = x
      <4>1. CASE x = k
        <5>1. Ordered(Append(served[k], e))
          BY <1>3, <1>5, <2>4, StaysOrdered DEF Recent
        <5>2. \A i \in 1..Len(Append(served[k], e)) : Key(Append(served[k], e)[i].by) = k
          <6>1. \A i \in 1..Len(served[k]) : Key(served[k][i].by) = k
            BY DEF OwnInv, LogsAreOwn
          <6>2. \A i \in 1..Len(Append(served[k], e)) :
                  Append(served[k], e)[i] = IF i \in 1..Len(served[k]) THEN served[k][i] ELSE e
            BY <1>3
          <6>3. \A i \in 1..Len(Append(served[k], e)) : Key(Append(served[k], e)[i].by) = k
            BY <1>1, <2>4, <6>1, <6>2, ZenonT(30)
          <6> QED BY <6>3
        <5>3. served'[x] = Append(served[k], e)
          BY <1>3, <2>3, <4>1
        <5> QED BY <4>1, <5>1, <5>2, <5>3
      <4>2. CASE x # k
        BY <1>3, <2>3, <4>2 DEF OwnInv, LogsAreOwn
      <4> QED BY <4>1, <4>2
    <3> QED BY <3>1 DEF LogsAreOwn
  <2>6. RefusalsAreBacked'
    <3> SUFFICES ASSUME NEW j \in 1..Len(refusal)
                 PROVE  LET r == refusal[j] IN
                        /\ r.at <= now
                        /\ r.at = now => Full(hits'[Key(r.by)], now)
                        /\ Backed(r, served'[Key(r.by)])
      BY <1>3, <2>3 DEF RefusalsAreBacked
    <3>1. PICK r \in Refused : r = refusal[j]
      BY <1>3
    <3>2. /\ r.at <= now /\ (r.at = now => Full(hits[Key(r.by)], now))
          /\ Backed(r, served[Key(r.by)]) /\ r.at \in Nat /\ Key(r.by) \in Keys
      BY <3>1 DEF OwnInv, RefusalsAreBacked, Refused, Keys
    <3>3. CASE Key(r.by) = k
      <4>1. r.at # now
        BY <1>2, <1>3, <1>4, <1>8, <3>2, <3>3, FullPopsNothing
      <4>2. e.at > r.at
        BY <1>3, <2>4, <3>2, <4>1
      <4>3. Backed(r, Append(served[k], e))
        BY <1>3, <3>2, <3>3, <4>2, StaysBacked
      <4>4. served'[Key(r.by)] = Append(served[k], e)
        BY <1>3, <2>3, <3>3
      <4> QED BY <3>1, <3>2, <4>1, <4>3, <4>4
    <3>4. CASE Key(r.by) # k
      <4>1. hits'[Key(r.by)] = hits[Key(r.by)] /\ served'[Key(r.by)] = served[Key(r.by)]
        BY <1>3, <2>3, <3>2, <3>4
      <4> QED BY <3>1, <3>2, <4>1
    <3> QED BY <3>3, <3>4
  <2> QED BY <2>5, <2>6 DEF OwnInv
<1> QED BY <1>3, <1>7, <1>8

LEMMA NextOwn == ASSUME IInv, OwnInv, [Next]_vars PROVE OwnInv'
<1>1. ASSUME NEW c \in Callers, Request(c) PROVE OwnInv'
  BY <1>1, RequestOwn
<1>2. CASE Restart
  BY <1>2 DEF Restart, OwnInv, LogsAreOwn, Ordered, RefusalsAreBacked
<1>3. CASE Tick
  <2>1. now' = now + 1 /\ UNCHANGED <<hits, served, refusal>> /\ now \in Nat /\ refusal \in Seq(Refused)
    BY <1>3 DEF Tick, IInv, TypeOK
  <2>2. \A j \in 1..Len(refusal) : refusal[j].at \in Nat
    BY RefusalIsRefused DEF IInv
  <2>3. RefusalsAreBacked'
    BY <2>1, <2>2 DEF OwnInv, RefusalsAreBacked
  <2> QED BY <2>1, <2>3 DEF OwnInv, LogsAreOwn
<1>4. CASE UNCHANGED vars
  BY <1>4 DEF vars, OwnInv, LogsAreOwn, RefusalsAreBacked
<1> QED BY <1>1, <1>2, <1>3, <1>4 DEF Next

LEMMA InductiveOwn == Spec => [](IInv /\ OwnInv)
<1>1. Init => IInv /\ OwnInv
  BY InitInv DEF Init, OwnInv, LogsAreOwn, Ordered, RefusalsAreBacked
<1>2. IInv /\ OwnInv /\ [Next]_vars => (IInv /\ OwnInv)'
  BY NextInv, NextOwn
<1> QED BY <1>1, <1>2, PTL DEF Spec

(* Nobody is refused for another's requests: PerMinute of the caller's own *)
(* are in the window, whichever callers share its address or its sub.      *)
THEOREM RefusalsAreOwn == Spec => []RefusedForOwnRequests
<1> USE LimitAssumption
<1>1. ASSUME IInv, OwnInv PROVE RefusedForOwnRequests
  <2> SUFFICES ASSUME NEW j \in 1..Len(refusal)
               PROVE  LET r == refusal[j]
                          s == served[Key(r.by)]
                      IN \E first \in 1..Len(s) :
                           /\ first + PerMinute - 1 <= Len(s)
                           /\ \A i \in first..(first + PerMinute - 1) :
                                /\ r.at - s[i].at <= Window
                                /\ SameVisitor(s[i].by, r.by) /\ s[i].by.path = r.by.path
    BY DEF RefusedForOwnRequests
  <2>1. PICK r \in Refused : r = refusal[j] /\ Backed(r, served[Key(r.by)]) /\ Key(r.by) \in Keys
    BY <1>1, RefusalIsRefused DEF IInv, OwnInv, RefusalsAreBacked
  <2>2. PICK log \in Seq(Served) : log = served[Key(r.by)]
    BY <1>1, <2>1 DEF IInv, TypeOK
  <2>3. PICK gone \in Nat :
          /\ gone + PerMinute <= Len(log)
          /\ \A i \in 1..PerMinute : r.at - log[gone + i].at <= Window
    BY <2>1, <2>2 DEF Backed
  <2>4. ASSUME NEW i \in (gone + 1)..(gone + 1 + PerMinute - 1)
        PROVE  r.at - log[i].at <= Window /\ i \in 1..Len(log)
    <3>1. PICK m \in 1..PerMinute : i = gone + m
      <4>1. i - gone \in 1..PerMinute /\ i = gone + (i - gone)
        BY <2>4
      <4> QED BY <4>1
    <3>2. r.at - log[gone + m].at <= Window
      BY <2>3, <3>1
    <3>3. i \in 1..Len(log)
      <4> DEFINE n == Len(log)
      <4>1. n \in Nat /\ gone + PerMinute <= n
        BY <2>3
      <4> HIDE DEF n
      <4>2. i \in 1..n
        BY <3>1, <4>1
      <4> QED BY <4>2 DEF n
    <3> QED BY <3>1, <3>2, <3>3
  <2>5. ASSUME NEW i \in 1..Len(log) PROVE SameVisitor(log[i].by, r.by) /\ log[i].by.path = r.by.path
    <3>1. Key(log[i].by) = Key(r.by)
      BY <1>1, <2>1, <2>2 DEF OwnInv, LogsAreOwn
    <3> QED BY <3>1, KeyIsVisitor
  <2>6. gone + 1 \in 1..Len(log) /\ gone + 1 + PerMinute - 1 <= Len(log)
    BY <2>3
  <2> QED BY <2>1, <2>2, <2>4, <2>5, <2>6
<1> QED BY <1>1, InductiveOwn, PTL

(* A second past its Retry-After a caller has room again.                  *)
THEOREM RetryAfterIsEnough == Spec => []RetryAfterSuffices
<1> USE LimitAssumption
<1>1. ASSUME IInv, OwnInv PROVE RetryAfterSuffices
  <2> SUFFICES ASSUME NEW j \in 1..Len(refusal)
               PROVE  LET r   == refusal[j]
                          log == served[Key(r.by)]
                      IN \E i \in 1..Len(log) :
                           /\ r.at - log[i].at <= Window
                           /\ r.at + (r.retry + 1) * Second - log[i].at > Window
                           /\ \A m \in 1..Len(log) : log[m].at <= r.at => m < i + PerMinute
    BY DEF RetryAfterSuffices
  <2>1. PICK r \in Refused : r = refusal[j] /\ Backed(r, served[Key(r.by)]) /\ Key(r.by) \in Keys
    BY <1>1, RefusalIsRefused DEF IInv, OwnInv, RefusalsAreBacked
  <2>2. PICK log \in Seq(Served) : log = served[Key(r.by)]
    BY <1>1, <2>1 DEF IInv, TypeOK
  <2>3. PICK gone \in Nat :
          /\ gone + PerMinute <= Len(log)
          /\ \A i \in 1..PerMinute : r.at - log[gone + i].at <= Window
          /\ Enough(r.at, r.retry, log[gone + 1].at)
          /\ \A m \in 1..Len(log) : m > gone + PerMinute => log[m].at > r.at
    BY <2>1, <2>2 DEF Backed
  <2>4. ASSUME NEW m \in 1..Len(log), log[m].at <= r.at PROVE m < gone + 1 + PerMinute
    <3>1. log[m].at \in Nat /\ r.at \in Nat
      BY EntryIsServed DEF Refused
    <3>2. ~(m > gone + PerMinute)
      BY <2>3, <2>4, <3>1
    <3> QED BY <3>2
  <2>5. gone + 1 \in 1..Len(log) /\ r.at - log[gone + 1].at <= Window
    BY <2>3
  <2>6. r.at + (r.retry + 1) * Second - log[gone + 1].at > Window
    BY <2>3 DEF Enough
  <2> QED BY <2>1, <2>2, <2>4, <2>5, <2>6, Zenon
<1> QED BY <1>1, InductiveOwn, PTL
=============================================================================
