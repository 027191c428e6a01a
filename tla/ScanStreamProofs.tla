-------------------------- MODULE ScanStreamProofs --------------------------
(***************************************************************************)
(* Proofs about ScanStream, for any numbers of scans, streams, processes,  *)
(* corpora, crashes and polls.  They assume ReaperSpares, which            *)
(* LivingAreSpared of LeakScanProofs shows where the reaper is safe: one   *)
(* that fails a job under its coroutine may tell a client of an error and  *)
(* let the scan complete.                                                  *)
(***************************************************************************)
EXTENDS ScanStream, SequenceTheorems, TLAPS

Channel == UNION {[D -> SUBSET Streams] : D \in SUBSET Scans}

Statuses == {"none"} \cup Jobs!Active \cup Jobs!Terminal

(* What a status may become: a later one, and nothing once it is the end.  *)
Advances(a, b) == Rank[a] <= Rank[b] /\ (a \in Jobs!Terminal => b = a)

(* Where run_scan stands tells what it has committed ...                   *)
WorkerFits(w, st) ==
  /\ w.pc = "none" <=> st = "none"
  /\ w.pc = "open" => st = "pending"
  /\ w.pc \in {"started", "scanning"} => st = "running"
  /\ w.pc = "finished" => st = "complete"
  /\ w.pc = "failed" => st = "error"

(* ... and how much it has published: nothing before "running" is          *)
(* committed, and an end only when it is what was committed.               *)
LogFits(log, w, st) ==
  /\ Len(log) <= w.done + 2
  /\ w.pc \in {"none", "open", "started"} => log = <<>>
  /\ w.pc \in {"scanning", "finished", "failed"} => Len(log) <= w.done + 1
  /\ log # <<>> => Rank[st] >= 2
  /\ \A k \in 1..Len(log) : log[k].type \in Jobs!Terminal => log[k].type = st

WorkersFit ==
  \A s \in Scans : WorkerFits(worker[s], status[s]) /\ LogFits(published[s], worker[s], status[s])

(* What stream st has sent and has yet to send is the end of what its scan *)
(* published, and reaches back to its first snapshot at least.             *)
Heard(st) == st.got \o st.queue

CaughtUp(st, log) ==
  /\ Len(Heard(st)) <= Len(log)
  /\ \A k \in 1..Len(Heard(st)) : Heard(st)[k] = log[Len(log) - Len(Heard(st)) + k]
  /\ st.pc # "subscribed" => Len(log) - Len(Heard(st)) <= st.since /\ st.since <= Len(log)

Listens(st) == st.pc \in Live \ {"requested"} /\ st.proc = Server[st.scan]

(* What stream st was told, or read and has yet to tell, is no later than  *)
(* what the database holds.                                                *)
StreamFits(st, now, log) ==
  /\ now # "none"
  /\ st.told \in Jobs!Terminal => st.told = now
  /\ st.pc \in Live => st.told \notin Jobs!Terminal /\ Rank[st.told] <= Rank[now]
  /\ st.pc = "telling" =>
       st.snap # "none" /\ Rank[st.told] <= Rank[st.snap] /\ Advances(st.snap, now)
  /\ IF Listens(st) THEN CaughtUp(st, log) ELSE st.queue = <<>> /\ st.got = <<>>

StreamsFit ==
  \A x \in DOMAIN stream :
    StreamFits(stream[x], status[stream[x].scan], published[stream[x].scan])

(* The streams of process p that read scan s's channel, and ChannelsMatch- *)
(* Streams in their terms.                                                 *)
Readers(s, p) == {x \in Subscribed : stream[x].proc = p /\ stream[x].scan = s}

ChannelsFit ==
  \A p \in Procs :
    /\ \A s \in Scans : Listeners(s, p) = Readers(s, p)
    /\ \A s \in DOMAIN channel[p] : channel[p][s] # {}

Inv == TypeOK /\ WorkersFit /\ ChannelsFit /\ StreamsFit

-----------------------------------------------------------------------------
LEMMA ChannelsFitMeans == ASSUME TypeOK PROVE ChannelsFit <=> ChannelsMatchStreams
<1>1. \A p \in Procs : DOMAIN channel[p] \subseteq Scans
  BY DEF TypeOK
<1>2. ASSUME ChannelsFit PROVE ChannelsMatchStreams
  <2> SUFFICES ASSUME NEW p \in Procs
               PROVE  /\ DOMAIN channel[p] = {s \in Scans : Readers(s, p) # {}}
                      /\ \A s \in DOMAIN channel[p] : channel[p][s] = Readers(s, p)
    BY DEF ChannelsMatchStreams, Readers
  <2> QED BY <1>1, <1>2 DEF ChannelsFit, Listeners
<1>3. ASSUME ChannelsMatchStreams PROVE ChannelsFit
  <2> SUFFICES ASSUME NEW p \in Procs
               PROVE  /\ \A s \in Scans : Listeners(s, p) = Readers(s, p)
                      /\ \A s \in DOMAIN channel[p] : channel[p][s] # {}
    BY DEF ChannelsFit
  <2>1. /\ DOMAIN channel[p] = {s \in Scans : Readers(s, p) # {}}
        /\ \A s \in DOMAIN channel[p] : channel[p][s] = Readers(s, p)
    BY <1>3 DEF ChannelsMatchStreams, Readers
  <2> QED BY <2>1 DEF Listeners
<1> QED BY <1>2, <1>3

LEMMA EventSeqs ==
  ASSUME NEW q \in Seq(Event), NEW e \in Event
  PROVE  /\ Append(q, e) \in Seq(Event) /\ Len(Append(q, e)) = Len(q) + 1
         /\ \A k \in 1..Len(q) : Append(q, e)[k] = q[k]
         /\ Append(q, e)[Len(q) + 1] = e
<1> HIDE DEF Event
<1> QED BY AppendProperties

(* Sending the head of the queue leaves what was heard as it was, and an   *)
(* event that is queued is heard last.                                     *)
LEMMA HeardRelayed ==
  ASSUME NEW got \in Seq(Event), NEW queue \in Seq(Event), queue # <<>>
  PROVE  /\ Append(got, Head(queue)) \o Tail(queue) = got \o queue
         /\ Append(got, Head(queue)) \in Seq(Event) /\ Tail(queue) \in Seq(Event)
         /\ Head(queue) \in Event
<1> HIDE DEF Event
<1>1. /\ Head(queue) \in Event /\ Tail(queue) \in Seq(Event)
      /\ queue = <<Head(queue)>> \o Tail(queue)
  <2>1. Head(queue) \in Event /\ Tail(queue) \in Seq(Event)
    BY HeadTailProperties
  <2>2. queue = <<Head(queue)>> \o Tail(queue)
    OBVIOUS
  <2> QED BY <2>1, <2>2
<1>2. Append(got, Head(queue)) = got \o <<Head(queue)>>
  BY <1>1, AppendIsConcat
<1>3. <<Head(queue)>> \in Seq(Event)
  BY <1>1
<1>4. (got \o <<Head(queue)>>) \o Tail(queue) = got \o (<<Head(queue)>> \o Tail(queue))
  BY <1>1, <1>3, ConcatAssociative
<1>5. Append(got, Head(queue)) \in Seq(Event)
  BY <1>1, AppendProperties
<1> QED BY <1>1, <1>2, <1>4, <1>5

LEMMA HeardQueued ==
  ASSUME NEW got \in Seq(Event), NEW queue \in Seq(Event), NEW e \in Event
  PROVE  /\ got \o queue \in Seq(Event)
         /\ got \o Append(queue, e) = Append(got \o queue, e)
<1> HIDE DEF Event
<1>1. got \o queue \in Seq(Event) /\ <<e>> \in Seq(Event)
  BY ConcatProperties
<1>2. Append(queue, e) = queue \o <<e>> /\ Append(got \o queue, e) = (got \o queue) \o <<e>>
  BY <1>1, AppendIsConcat
<1>3. (got \o queue) \o <<e>> = got \o (queue \o <<e>>)
  BY <1>1, ConcatAssociative
<1> QED BY <1>1, <1>2, <1>3

LEMMA EmptyChannel == [s \in {} |-> {}] \in Channel
<1>1. [s \in {} |-> {}] \in [{} -> SUBSET Streams] /\ {} \in SUBSET Scans
  OBVIOUS
<1> QED BY <1>1 DEF Channel

LEMMA InitHolds == ASSUME Init PROVE Inv
<1>1. /\ status = [s \in Scans |-> "none"] /\ result = [s \in Scans |-> <<>>]
      /\ worker = [s \in Scans |-> [pc |-> "none", done |-> 0]]
      /\ published = [s \in Scans |-> <<>>]
      /\ channel = [p \in Procs |-> [s \in {} |-> {}]] /\ DOMAIN stream = {}
      /\ stream = [x \in {} |-> {}] /\ up = [p \in Procs |-> TRUE] /\ crashes = 0
  BY DEF Init, Jobs!Init
<1>2. N \in Nat /\ MaxCrashes \in Nat
  BY StreamAssumption
<1>3. channel \in [Procs -> Channel] /\ \A p \in Procs : DOMAIN channel[p] \subseteq Scans
  <2>1. [s \in {} |-> {}] \in Channel
    BY EmptyChannel
  <2>2. \A p \in Procs : channel[p] = [s \in {} |-> {}]
    BY <1>1
  <2>3. channel \in [Procs -> Channel]
    BY <1>1, <2>1
  <2> QED BY <2>2, <2>3
<1>4. TypeOK
  <2>1. worker \in [Scans -> Worker]
    BY <1>1, <1>2 DEF Worker
  <2>2. published \in [Scans -> Seq(Event)]
    BY <1>1
  <2>3. crashes \in 0..MaxCrashes /\ up \in [Procs -> BOOLEAN]
    BY <1>1, <1>2
  <2> QED BY <1>1, <1>3, <2>1, <2>2, <2>3 DEF TypeOK, Channel
<1>5. WorkersFit
  BY <1>1 DEF WorkersFit, WorkerFits, LogFits
<1>6. ChannelsFit /\ StreamsFit
  BY <1>1 DEF ChannelsFit, StreamsFit, Listeners, Readers, Subscribed
<1> QED BY <1>4, <1>5, <1>6 DEF Inv

-----------------------------------------------------------------------------
(* The scan: a step that publishes nothing.                                *)

LEMMA AdvancesOn ==
  ASSUME NEW a \in Statuses, NEW b \in Statuses, Advances(a, b)
  PROVE  /\ a # "none" => b # "none"
         /\ \A c \in Statuses : Rank[c] <= Rank[a] => Rank[c] <= Rank[b]
         /\ \A c \in Statuses : Advances(c, a) => Advances(c, b)
BY DEF Advances, Statuses, Rank, Jobs!Active, Jobs!Terminal

LEMMA StreamTyped ==
  ASSUME TypeOK, NEW x \in DOMAIN stream
  PROVE  /\ x \in Streams /\ stream[x] \in Stream
         /\ stream[x].scan \in Scans /\ stream[x].proc \in Procs
         /\ stream[x].snap \in Statuses /\ stream[x].told \in Statuses
         /\ status[stream[x].scan] \in Statuses /\ published[stream[x].scan] \in Seq(Event)
         /\ stream[x].queue \in Seq(Event) /\ stream[x].got \in Seq(Event)
         /\ stream[x].since \in Nat
<1>1. x \in Streams /\ stream[x] \in Stream
  BY DEF TypeOK
<1>2. /\ stream[x].scan \in Scans /\ stream[x].proc \in Procs
      /\ stream[x].snap \in Statuses /\ stream[x].told \in Statuses
      /\ stream[x].queue \in Seq(Event) /\ stream[x].got \in Seq(Event)
      /\ stream[x].since \in Nat
  BY <1>1, StreamAssumption DEF Stream, Statuses
<1> QED BY <1>1, <1>2 DEF TypeOK, Statuses

(* The streams fit on when the jobs advance.                               *)
LEMMA StreamsOutlast ==
  ASSUME Inv, UNCHANGED <<published, stream>>, status' \in [Scans -> Statuses],
         \A s \in Scans : Advances(status[s], status'[s])
  PROVE  StreamsFit'
<1> SUFFICES ASSUME NEW x \in DOMAIN stream
             PROVE  StreamFits(stream[x], status'[stream[x].scan], published[stream[x].scan])
  BY DEF StreamsFit
<1> DEFINE st   == stream[x]
           old  == status[st.scan]
           now  == status'[st.scan]
<1>1. StreamFits(st, old, published[st.scan])
  BY DEF Inv, StreamsFit
<1>2. old \in Statuses /\ now \in Statuses /\ st.snap \in Statuses /\ st.told \in Statuses
      /\ Advances(old, now)
  BY StreamTyped DEF Inv
<1> HIDE DEF st, old, now
<1>3. /\ now # "none"
      /\ Rank[st.told] <= Rank[old] => Rank[st.told] <= Rank[now]
      /\ Advances(st.snap, old) => Advances(st.snap, now)
  BY <1>1, <1>2, AdvancesOn DEF StreamFits
<1>4. st.told \in Jobs!Terminal => st.told = now
  BY <1>1, <1>2 DEF StreamFits, Advances
<1>5. StreamFits(st, now, published[st.scan])
  BY <1>1, <1>3, <1>4 DEF StreamFits
<1> QED BY <1>5 DEF st, now

LEMMA QuietKeeps ==
  ASSUME Inv, UNCHANGED <<published, channel, stream>>,
         status' \in [Scans -> Statuses], result' \in [Scans -> Results \cup {<<>>}],
         worker' \in [Scans -> Worker], up' \in [Procs -> BOOLEAN], crashes' \in 0..MaxCrashes,
         \A s \in Scans : Advances(status[s], status'[s]),
         WorkersFit'
  PROVE  Inv'
<1>1. TypeOK'
  BY DEF Inv, TypeOK, Statuses
<1>2. ChannelsFit'
  BY DEF Inv, ChannelsFit, Listeners, Readers, Subscribed
<1> QED BY <1>1, <1>2, StreamsOutlast DEF Inv

(* One worker moves on, and its job with it.                               *)
Moved(s) ==
  /\ worker' \in [Scans -> Worker] /\ \A t \in Scans \ {s} : worker'[t] = worker[t]
  /\ status' \in [Scans -> Statuses] /\ \A t \in Scans \ {s} : status'[t] = status[t]
  /\ result' \in [Scans -> Results \cup {<<>>}]
  /\ Advances(status[s], status'[s])

LEMMA MovedKeeps ==
  ASSUME Inv, NEW s \in Scans, UNCHANGED <<published, channel, stream, up, crashes>>, Moved(s),
         WorkerFits(worker'[s], status'[s]), LogFits(published[s], worker'[s], status'[s])
  PROVE  Inv'
<1> USE DEF Moved
<1>1. \A t \in Scans : Advances(status[t], status'[t])
  BY DEF Inv, TypeOK, Advances, Rank, Jobs!Active, Jobs!Terminal
<1>2. WorkersFit'
  BY DEF Inv, WorkersFit
<1>3. up' \in [Procs -> BOOLEAN] /\ crashes' \in 0..MaxCrashes
  BY DEF Inv, TypeOK
<1> QED BY <1>1, <1>2, <1>3, QuietKeeps

(* What Inv says of one scan.                                              *)
LEMMA ScanTyped ==
  ASSUME Inv, NEW s \in Scans
  PROVE  /\ status \in [Scans -> Statuses] /\ result \in [Scans -> Results \cup {<<>>}]
         /\ worker \in [Scans -> Worker] /\ worker[s] \in Worker /\ status[s] \in Statuses
         /\ worker[s].done \in Nat /\ worker[s].done <= N /\ N \in Nat
         /\ published[s] \in Seq(Event)
         /\ WorkerFits(worker[s], status[s]) /\ LogFits(published[s], worker[s], status[s])
<1>1. worker[s] \in Worker
  BY DEF Inv, TypeOK
<1> QED BY <1>1, StreamAssumption DEF Inv, TypeOK, WorkersFit, Statuses, Worker

LEMMA CommitKeeps ==
  ASSUME Inv, NEW s \in Scans,
         Submit(s) \/ CommitRunning(s) \/ CommitComplete(s) \/ CommitError(s) \/ Die(s)
  PROVE  Inv'
<1> USE ScanTyped DEF Advances, Rank, Jobs!Active, Jobs!Terminal, Statuses
<1>1. CASE Submit(s)
  <2>1. /\ status[s] = "none" /\ status' = [status EXCEPT ![s] = "pending"]
        /\ worker' = [worker EXCEPT ![s] = [pc |-> "open", done |-> 0]]
        /\ UNCHANGED <<result, published, channel, stream, up, crashes>>
    BY <1>1 DEF Submit, Jobs!Submit
  <2>2. published[s] = <<>>
    BY <2>1 DEF WorkerFits, LogFits
  <2>3. worker' \in [Scans -> Worker]
    BY <2>1 DEF Worker
  <2>4. WorkerFits(worker'[s], status'[s]) /\ LogFits(published[s], worker'[s], status'[s])
    BY <2>1, <2>2 DEF WorkerFits, LogFits
  <2>5. Moved(s)
    BY <2>1, <2>3, <2>4 DEF Moved
  <2> QED BY <2>1, <2>4, <2>5, MovedKeeps
<1>2. CASE CommitRunning(s)
  <2>1. /\ worker[s].pc = "open" /\ worker' = [worker EXCEPT ![s].pc = "started"]
        /\ status[s] = "pending" /\ status' = [status EXCEPT ![s] = "running"]
        /\ UNCHANGED <<result, published, channel, stream, up, crashes>>
    BY <1>2 DEF CommitRunning, Step, WorkerFits
  <2>2. /\ worker' \in [Scans -> Worker] /\ worker'[s].done = worker[s].done
        /\ worker'[s].pc = "started"
    BY <2>1 DEF Worker
  <2>3. WorkerFits(worker'[s], status'[s]) /\ LogFits(published[s], worker'[s], status'[s])
    BY <2>1, <2>2 DEF WorkerFits, LogFits
  <2>4. Moved(s)
    BY <2>1, <2>2, <2>3 DEF Moved
  <2> QED BY <2>1, <2>3, <2>4, MovedKeeps
<1>3. CASE CommitComplete(s)
  <2>1. /\ worker[s].pc = "scanning" /\ worker' = [worker EXCEPT ![s].pc = "finished"]
        /\ status[s] = "running" /\ status' = [status EXCEPT ![s] = "complete"]
        /\ result' = [result EXCEPT ![s] = [k \in 1..N |-> k]]
        /\ UNCHANGED <<published, channel, stream, up, crashes>>
    BY <1>3 DEF CommitComplete, Step, WorkerFits
  <2>2. /\ worker' \in [Scans -> Worker] /\ worker'[s].done = worker[s].done
        /\ worker'[s].pc = "finished"
    BY <2>1 DEF Worker
  <2>3. result' \in [Scans -> Results \cup {<<>>}]
    BY <2>1 DEF Results
  <2>4. WorkerFits(worker'[s], status'[s]) /\ LogFits(published[s], worker'[s], status'[s])
    BY <2>1, <2>2 DEF WorkerFits, LogFits
  <2>5. Moved(s)
    BY <2>1, <2>2, <2>3, <2>4 DEF Moved
  <2> QED BY <2>1, <2>4, <2>5, MovedKeeps
<1>4. CASE CommitError(s)
  <2>1. /\ worker[s].pc \in {"open", "scanning"} /\ worker' = [worker EXCEPT ![s].pc = "failed"]
        /\ status[s] \in {"pending", "running"}
        /\ status' = [status EXCEPT ![s] = "error"]
        /\ UNCHANGED <<result, published, channel, stream, up, crashes>>
    BY <1>4 DEF CommitError, Step, WorkerFits
  <2>2. /\ worker' \in [Scans -> Worker] /\ worker'[s].done = worker[s].done
        /\ worker'[s].pc = "failed"
    BY <2>1 DEF Worker
  <2>3. WorkerFits(worker'[s], status'[s]) /\ LogFits(published[s], worker'[s], status'[s])
    BY <2>1, <2>2 DEF WorkerFits, LogFits
  <2>4. Moved(s)
    BY <2>1, <2>2, <2>3 DEF Moved
  <2> QED BY <2>1, <2>3, <2>4, MovedKeeps
<1>5. CASE Die(s)
  <2>1. /\ worker[s].pc # "none" /\ worker' = [worker EXCEPT ![s].pc = "ended"]
        /\ UNCHANGED <<status, result, published, channel, stream, up, crashes>>
    BY <1>5 DEF Die
  <2>2. worker' \in [Scans -> Worker] /\ worker'[s].done = worker[s].done /\ worker'[s].pc = "ended"
    BY <2>1 DEF Worker
  <2>3. WorkerFits(worker'[s], status'[s]) /\ LogFits(published[s], worker'[s], status'[s])
    BY <2>1, <2>2 DEF WorkerFits, LogFits
  <2>4. Moved(s)
    BY <2>1, <2>2, <2>3 DEF Moved
  <2> QED BY <2>1, <2>3, <2>4, MovedKeeps
<1> QED BY <1>1, <1>2, <1>3, <1>4, <1>5

(* The reaper fails jobs whose coroutine is gone.                          *)
LEMMA BootKeeps == ASSUME ReaperSpares, Inv, NEW p \in Procs, Boot(p) PROVE Inv'
<1> PICK F \in SUBSET {s \in Scans : worker[s].pc = "ended" /\ status[s] \in Jobs!Active} :
      status' = [s \in Scans |-> IF s \in F THEN "error" ELSE status[s]]
  BY DEF Boot, Reapable
<1>1. /\ status' = [s \in Scans |-> IF s \in F THEN "error" ELSE status[s]]
      /\ UNCHANGED <<result, worker, published, channel, stream, crashes>>
      /\ up' \in [Procs -> BOOLEAN]
  BY DEF Boot, Inv, TypeOK
<1>2. /\ status' \in [Scans -> Statuses] /\ result' \in [Scans -> Results \cup {<<>>}]
      /\ worker' \in [Scans -> Worker] /\ crashes' \in 0..MaxCrashes
  BY <1>1 DEF Inv, TypeOK, Statuses, Jobs!Terminal
<1>3. ASSUME NEW s \in Scans
      PROVE  /\ Advances(status[s], status'[s])
             /\ WorkerFits(worker[s], status'[s]) /\ LogFits(published[s], worker[s], status'[s])
  <2>1. CASE s \in F
    BY <1>1, <2>1, ScanTyped
       DEF WorkerFits, LogFits, Advances, Rank, Jobs!Active, Jobs!Terminal, Statuses
  <2>2. CASE s \notin F
    BY <1>1, <2>2, ScanTyped DEF Advances, Rank, Jobs!Active, Jobs!Terminal, Statuses
  <2> QED BY <2>1, <2>2
<1>4. WorkersFit'
  BY <1>1, <1>3 DEF WorkersFit
<1> QED BY <1>1, <1>2, <1>3, <1>4, QuietKeeps

-----------------------------------------------------------------------------
(* The scan: a step that publishes.                                        *)

(* A stream that listens is caught up again when the event is queued.      *)
LEMMA QueuedCaughtUp ==
  ASSUME NEW st \in Stream, NEW log \in Seq(Event), NEW e \in Event, CaughtUp(st, log)
  PROVE  CaughtUp([st EXCEPT !.queue = Append(@, e)], Append(log, e))
<1> DEFINE sq == [st EXCEPT !.queue = Append(@, e)]
<1>1. st.got \in Seq(Event) /\ st.queue \in Seq(Event) /\ st.since \in Nat
  BY StreamAssumption DEF Stream
<1>2. /\ sq.got = st.got /\ sq.queue = Append(st.queue, e) /\ sq.pc = st.pc /\ sq.since = st.since
  BY DEF Stream
<1> HIDE DEF sq
<1>3. Heard(st) \in Seq(Event) /\ Heard(sq) = Append(Heard(st), e)
  <2>1. /\ st.got \o st.queue \in Seq(Event)
        /\ st.got \o Append(st.queue, e) = Append(st.got \o st.queue, e)
    BY <1>1, HeardQueued
  <2> QED BY <1>2, <2>1, Zenon DEF Heard
<1> DEFINE h == Heard(st)
<1>4. /\ Len(Append(h, e)) = Len(h) + 1 /\ Len(Append(log, e)) = Len(log) + 1
      /\ \A k \in 1..Len(h) : Append(h, e)[k] = h[k]
      /\ \A k \in 1..Len(log) : Append(log, e)[k] = log[k]
      /\ Append(h, e)[Len(h) + 1] = e /\ Append(log, e)[Len(log) + 1] = e
  BY <1>3, EventSeqs
<1>5. /\ Len(h) \in Nat /\ Len(log) \in Nat /\ Len(h) <= Len(log)
      /\ \A k \in 1..Len(h) : h[k] = log[Len(log) - Len(h) + k]
      /\ st.pc # "subscribed" => Len(log) - Len(h) <= st.since /\ st.since <= Len(log)
  BY <1>3 DEF CaughtUp
<1>6. Heard(sq) = Append(h, e)
  BY <1>3
<1> HIDE DEF h
<1>7. ASSUME NEW k \in 1..Len(h) + 1
      PROVE  Append(h, e)[k] = Append(log, e)[Len(log) + 1 - (Len(h) + 1) + k]
  <2>1. CASE k = Len(h) + 1
    BY <1>4, <1>5, <2>1
  <2>2. CASE k # Len(h) + 1
    <3>1. k \in 1..Len(h) /\ Len(log) - Len(h) + k \in 1..Len(log)
      BY <1>5, <2>2
    <3>2. Len(log) + 1 - (Len(h) + 1) + k = Len(log) - Len(h) + k
      BY <1>5
    <3> QED BY <1>4, <1>5, <3>1, <3>2
  <2> QED BY <2>1, <2>2
<1>8. CaughtUp(sq, Append(log, e))
  <2> DEFINE hq == Append(h, e)
             lq == Append(log, e)
  <2>1. /\ Heard(sq) = hq /\ Len(hq) = Len(h) + 1 /\ Len(lq) = Len(log) + 1
        /\ \A k \in 1..Len(h) + 1 : hq[k] = lq[Len(log) + 1 - (Len(h) + 1) + k]
    BY <1>4, <1>6, <1>7
  <2> HIDE DEF hq, lq
  <2>2. Len(hq) <= Len(lq) /\ \A k \in 1..Len(hq) : hq[k] = lq[Len(lq) - Len(hq) + k]
    BY <1>5, <2>1
  <2>3. sq.pc # "subscribed" => Len(lq) - Len(hq) <= sq.since /\ sq.since <= Len(lq)
    BY <1>1, <1>2, <1>5, <2>1
  <2>4. CaughtUp(sq, lq)
    BY <2>1, <2>2, <2>3 DEF CaughtUp
  <2> QED BY <2>4 DEF lq
<1> QED BY <1>8 DEF sq

LEMMA PublishKeeps ==
  ASSUME Inv, NEW s \in Scans, NEW e \in Event, Publish(s, e),
         UNCHANGED <<status, result, channel, up, crashes>>,
         worker' \in [Scans -> Worker], \A t \in Scans \ {s} : worker'[t] = worker[t],
         WorkerFits(worker'[s], status[s]), LogFits(Append(published[s], e), worker'[s], status[s])
  PROVE  Inv'
<1>1. /\ published' = [published EXCEPT ![s] = Append(@, e)]
      /\ published \in [Scans -> Seq(Event)] /\ published' \in [Scans -> Seq(Event)]
      /\ published'[s] = Append(published[s], e)
  <2>1. published \in [Scans -> Seq(Event)]
    BY DEF Inv, TypeOK
  <2>2. Append(published[s], e) \in Seq(Event)
    BY <2>1, EventSeqs
  <2> QED BY <2>1, <2>2 DEF Publish
<1>2. Server[s] \in Procs
  BY StreamAssumption
<1>3. ASSUME NEW x \in DOMAIN stream
      PROVE  /\ stream'[x] = IF Listens(stream[x]) /\ stream[x].scan = s
                             THEN [stream[x] EXCEPT !.queue = Append(@, e)] ELSE stream[x]
             /\ stream'[x] \in Stream
             /\ stream'[x].pc = stream[x].pc /\ stream'[x].scan = stream[x].scan
             /\ stream'[x].proc = stream[x].proc /\ stream'[x].told = stream[x].told
             /\ stream'[x].snap = stream[x].snap
  <2>1. x \in Listeners(s, Server[s]) <=> Listens(stream[x]) /\ stream[x].scan = s
    BY <1>2 DEF Inv, ChannelsFit, Readers, Subscribed, Listens
  <2>2. stream[x] \in Stream /\ Append(stream[x].queue, e) \in Seq(Event)
    BY StreamTyped, EventSeqs DEF Inv
  <2> QED BY <2>1, <2>2 DEF Publish, Stream
<1>4. DOMAIN stream' = DOMAIN stream /\ stream' = [x \in DOMAIN stream |-> stream'[x]]
  BY DEF Publish
<1>5. TypeOK'
  BY <1>1, <1>3, <1>4 DEF Inv, TypeOK
<1>6. WorkersFit'
  BY <1>1 DEF Inv, WorkersFit
<1>7. ChannelsFit'
  BY <1>3, <1>4 DEF Inv, ChannelsFit, Listeners, Readers, Subscribed
<1>8. ASSUME NEW x \in DOMAIN stream
      PROVE  StreamFits(stream'[x], status[stream'[x].scan], published'[stream'[x].scan])
  <2>1. /\ StreamFits(stream[x], status[stream[x].scan], published[stream[x].scan])
        /\ stream[x] \in Stream /\ stream[x].scan \in Scans
    BY StreamTyped DEF Inv, StreamsFit
  <2>2. CASE Listens(stream[x]) /\ stream[x].scan = s
    <3>1. stream'[x] = [stream[x] EXCEPT !.queue = Append(@, e)]
      BY <1>3, <2>2
    <3>2. CaughtUp(stream'[x], published'[s])
      <4>1. CaughtUp(stream[x], published[s]) /\ published[s] \in Seq(Event)
        BY <1>1, <2>1, <2>2 DEF StreamFits
      <4>2. CaughtUp([stream[x] EXCEPT !.queue = Append(@, e)], Append(published[s], e))
        BY <2>1, <4>1, QueuedCaughtUp
      <4> QED BY <1>1, <3>1, <4>2
    <3>3. Listens(stream'[x])
      BY <1>3, <2>2 DEF Listens
    <3> QED BY <1>3, <2>1, <2>2, <3>2, <3>3 DEF StreamFits
  <2>3. CASE ~(Listens(stream[x]) /\ stream[x].scan = s)
    <3>1. stream'[x] = stream[x]
      BY <1>3, <2>3
    <3>2. stream[x].scan # s => published'[stream[x].scan] = published[stream[x].scan]
      BY <1>1, <2>1
    <3> QED BY <2>1, <2>3, <3>1, <3>2 DEF StreamFits
  <2> QED BY <2>2, <2>3
<1>9. StreamsFit'
  BY <1>4, <1>8 DEF StreamsFit
<1> QED BY <1>5, <1>6, <1>7, <1>9 DEF Inv

(* The log after one more event.                                           *)
LEMMA LogGrows ==
  ASSUME NEW log \in Seq(Event), NEW e \in Event, NEW w \in Worker, NEW st \in Statuses,
         w.pc \in {"scanning", "ended"}, Rank[st] >= 2, e.type \in Jobs!Terminal => e.type = st,
         \A k \in 1..Len(log) : log[k].type \in Jobs!Terminal => log[k].type = st,
         Len(log) <= w.done + 1, w.pc = "scanning" => Len(log) <= w.done
  PROVE  LogFits(Append(log, e), w, st)
<1> DEFINE lq == Append(log, e)
<1>1. /\ Len(lq) = Len(log) + 1 /\ lq[Len(log) + 1] = e
      /\ \A k \in 1..Len(log) : lq[k] = log[k]
  BY EventSeqs
<1>2. Len(log) \in Nat /\ w.done \in Nat
  BY StreamAssumption DEF Worker
<1> HIDE DEF lq
<1>3. \A k \in 1..Len(lq) : lq[k].type \in Jobs!Terminal => lq[k].type = st
  <2> TAKE k \in 1..Len(lq)
  <2> QED BY <1>1, <1>2
<1>4. LogFits(lq, w, st)
  BY <1>1, <1>2, <1>3 DEF LogFits
<1> QED BY <1>4 DEF lq

LEMMA PublishingKeeps ==
  ASSUME Inv, NEW s \in Scans, PublishRunning(s) \/ CorpusComplete(s) \/ PublishEnd(s)
  PROVE  Inv'
<1> DEFINE w == worker[s]
           st == status[s]
           log == published[s]
<1>0. /\ w \in Worker /\ st \in Statuses /\ log \in Seq(Event) /\ worker \in [Scans -> Worker]
      /\ WorkerFits(w, st) /\ LogFits(log, w, st) /\ N \in Nat /\ w.done \in Nat
  BY ScanTyped
<1>1. CASE PublishRunning(s)
  <2> PICK e \in Event : e = Happened("status") /\ Publish(s, e)
    <3>1. Happened("status") \in Event
      BY <1>0 DEF Happened, Event
    <3> QED BY <1>1, <3>1 DEF PublishRunning
  <2>1. /\ worker' = [worker EXCEPT ![s].pc = "scanning"] /\ w.pc = "started"
        /\ UNCHANGED <<status, result, channel, up, crashes>> /\ e.type = "status"
    BY <1>1 DEF PublishRunning, Step, Happened
  <2>2. /\ worker' \in [Scans -> Worker] /\ \A t \in Scans \ {s} : worker'[t] = worker[t]
        /\ worker'[s].done = w.done /\ worker'[s].pc = "scanning" /\ worker'[s] \in Worker
    BY <1>0, <2>1 DEF Worker
  <2>3. st = "running" /\ log = <<>> /\ Len(log) = 0
    BY <1>0, <2>1 DEF WorkerFits, LogFits
  <2>4. WorkerFits(worker'[s], st)
    BY <2>2, <2>3 DEF WorkerFits
  <2>5. LogFits(Append(log, e), worker'[s], st)
    <3>1. Rank[st] >= 2 /\ e.type \notin Jobs!Terminal
      BY <2>1, <2>3 DEF Rank, Jobs!Terminal
    <3>2. \A k \in 1..Len(log) : log[k].type \in Jobs!Terminal => log[k].type = st
      BY <2>3
    <3>3. Len(log) <= worker'[s].done /\ Len(log) <= worker'[s].done + 1
      BY <1>0, <2>2, <2>3
    <3>4. worker'[s].pc \in {"scanning", "ended"}
      BY <2>2
    <3> QED BY <1>0, <2>2, <3>1, <3>2, <3>3, <3>4, LogGrows
  <2> QED BY <2>1, <2>2, <2>4, <2>5, PublishKeeps
<1>2. CASE CorpusComplete(s)
  <2> PICK e \in Event : /\ e = [type |-> "corpus_complete", corpus |-> worker[s].done + 1]
                         /\ Publish(s, e)
    <3>1. worker[s].done + 1 \in 0..N
      BY <1>0, <1>2 DEF CorpusComplete
    <3>2. [type |-> "corpus_complete", corpus |-> worker[s].done + 1] \in Event
      BY <3>1 DEF Event
    <3> QED BY <1>2, <3>2 DEF CorpusComplete
  <2>1. /\ worker' = [worker EXCEPT ![s].done = @ + 1] /\ w.pc = "scanning" /\ w.done < N
        /\ UNCHANGED <<status, result, channel, up, crashes>> /\ e.type = "corpus_complete"
    BY <1>2 DEF CorpusComplete
  <2>2. /\ worker' \in [Scans -> Worker] /\ \A t \in Scans \ {s} : worker'[t] = worker[t]
        /\ worker'[s].done = w.done + 1 /\ worker'[s].pc = "scanning" /\ worker'[s] \in Worker
    <3>1. w.done + 1 \in 0..N
      BY <1>0, <2>1
    <3>2. [w EXCEPT !.done = w.done + 1] \in Worker
      BY <1>0, <3>1 DEF Worker
    <3>3. worker'[s] = [w EXCEPT !.done = w.done + 1]
      BY <1>0, <2>1
    <3>4. worker'[s].done = w.done + 1 /\ worker'[s].pc = "scanning"
      BY <1>0, <2>1, <3>3 DEF Worker
    <3> QED BY <1>0, <2>1, <3>2, <3>3, <3>4
  <2>3. st = "running" /\ Len(log) <= w.done + 1
        /\ \A k \in 1..Len(log) : log[k].type \in Jobs!Terminal => log[k].type = st
    BY <1>0, <2>1 DEF WorkerFits, LogFits
  <2>4. WorkerFits(worker'[s], st)
    BY <2>2, <2>3 DEF WorkerFits
  <2>5. LogFits(Append(log, e), worker'[s], st)
    <3>1. Len(log) <= worker'[s].done /\ Len(log) <= worker'[s].done + 1
      BY <1>0, <2>2, <2>3
    <3>2. Rank[st] >= 2 /\ e.type \notin Jobs!Terminal
      BY <2>1, <2>3 DEF Rank, Jobs!Terminal
    <3> QED BY <1>0, <2>2, <2>3, <3>1, <3>2, LogGrows
  <2> QED BY <2>1, <2>2, <2>4, <2>5, PublishKeeps
<1>3. CASE PublishEnd(s)
  <2>1. \E end \in {"complete", "error"} :
          /\ Publish(s, Happened(end)) /\ worker' = [worker EXCEPT ![s].pc = "ended"]
          /\ w.pc \in {"finished", "failed"} /\ st = end
          /\ UNCHANGED <<status, result, channel, up, crashes>>
    BY <1>0, <1>3 DEF PublishEnd, Step, WorkerFits
  <2> PICK end \in {"complete", "error"} :
             /\ Publish(s, Happened(end)) /\ worker' = [worker EXCEPT ![s].pc = "ended"]
             /\ w.pc \in {"finished", "failed"} /\ st = end
             /\ UNCHANGED <<status, result, channel, up, crashes>>
    BY <2>1
  <2> PICK e \in Event : e = Happened(end) /\ Publish(s, e)
    <3>1. Happened(end) \in Event
      BY <1>0 DEF Happened, Event
    <3> QED BY <3>1
  <2>2. e.type = st /\ Rank[st] >= 2 /\ st # "none"
    BY DEF Happened, Rank
  <2>3. /\ worker' \in [Scans -> Worker] /\ \A t \in Scans \ {s} : worker'[t] = worker[t]
        /\ worker'[s].done = w.done /\ worker'[s].pc = "ended" /\ worker'[s] \in Worker
    BY <1>0 DEF Worker
  <2>4. WorkerFits(worker'[s], st)
    BY <2>2, <2>3 DEF WorkerFits
  <2>5. Len(log) <= w.done + 1
        /\ \A k \in 1..Len(log) : log[k].type \in Jobs!Terminal => log[k].type = st
    BY <1>0 DEF LogFits
  <2>6. LogFits(Append(log, e), worker'[s], st)
    BY <1>0, <2>2, <2>3, <2>5, LogGrows
  <2> QED BY <2>3, <2>4, <2>6, PublishKeeps
<1> QED BY <1>1, <1>2, <1>3

-----------------------------------------------------------------------------
(* The streams.                                                            *)

Reads(st) == st.pc \in Live \ {"requested"}

(* Stream x becomes st, of the same scan and process.                      *)
Becomes(x, st) ==
  /\ x \in DOMAIN stream /\ stream' = [stream EXCEPT ![x] = st]
  /\ st \in Stream /\ st.scan = stream[x].scan /\ st.proc = stream[x].proc
  /\ StreamFits(st, status[stream[x].scan], published[stream[x].scan])
  /\ UNCHANGED <<status, result, worker, published, up, crashes>>

LEMMA StreamsKeep ==
  ASSUME Inv, UNCHANGED <<status, result, worker, published, up, crashes>>,
         DOMAIN stream' \subseteq Streams, stream' \in [DOMAIN stream' -> Stream],
         channel' \in [Procs -> Channel], \A p \in Procs : DOMAIN channel'[p] \subseteq Scans,
         \A x \in DOMAIN stream' :
           StreamFits(stream'[x], status[stream'[x].scan], published[stream'[x].scan]),
         ChannelsFit'
  PROVE  Inv'
<1>1. TypeOK'
  BY DEF Inv, TypeOK, Channel
<1>2. WorkersFit'
  BY DEF Inv, WorkersFit
<1>3. StreamsFit'
  BY DEF StreamsFit
<1> QED BY <1>1, <1>2, <1>3 DEF Inv

LEMMA BecomesKeeps ==
  ASSUME Inv, NEW x, NEW st, Becomes(x, st)
  PROVE  /\ DOMAIN stream' = DOMAIN stream /\ DOMAIN stream' \subseteq Streams
         /\ stream' \in [DOMAIN stream' -> Stream]
         /\ stream'[x] = st /\ \A y \in DOMAIN stream \ {x} : stream'[y] = stream[y]
         /\ \A y \in DOMAIN stream' :
              StreamFits(stream'[y], status[stream'[y].scan], published[stream'[y].scan])
         /\ \A s \in Scans, p \in Procs :
              Readers(s, p)' = IF s = st.scan /\ p = st.proc
                               THEN IF Reads(st) THEN Readers(s, p) \cup {x}
                                                 ELSE Readers(s, p) \ {x}
                               ELSE Readers(s, p)
<1> HIDE DEF Stream
<1>0. st.scan \in Scans /\ st.proc \in Procs
  BY DEF Becomes, Stream
<1>1. /\ DOMAIN stream' = DOMAIN stream /\ DOMAIN stream' \subseteq Streams
      /\ stream' \in [DOMAIN stream' -> Stream]
      /\ stream'[x] = st /\ \A y \in DOMAIN stream \ {x} : stream'[y] = stream[y]
  BY DEF Becomes, Inv, TypeOK
<1>2. \A y \in DOMAIN stream' :
        StreamFits(stream'[y], status[stream'[y].scan], published[stream'[y].scan])
  BY <1>1 DEF Becomes, Inv, StreamsFit
<1>3. ASSUME NEW s \in Scans, NEW p \in Procs
      PROVE  Readers(s, p)' = IF s = st.scan /\ p = st.proc
                              THEN IF Reads(st) THEN Readers(s, p) \cup {x}
                                                ELSE Readers(s, p) \ {x}
                              ELSE Readers(s, p)
  <2>1. Readers(s, p)' = {y \in DOMAIN stream : /\ Reads(stream'[y])
                                                /\ stream'[y].proc = p /\ stream'[y].scan = s}
    BY <1>1 DEF Readers, Subscribed, Reads
  <2>2. Readers(s, p) = {y \in DOMAIN stream : /\ Reads(stream[y])
                                               /\ stream[y].proc = p /\ stream[y].scan = s}
    BY DEF Readers, Subscribed, Reads
  <2>3. x \in DOMAIN stream /\ stream[x].scan = st.scan /\ stream[x].proc = st.proc
    BY DEF Becomes
  <2> QED BY <1>1, <2>1, <2>2, <2>3
<1> QED BY <1>1, <1>2, <1>3

(* A stream that goes on reading, or goes on not reading.                  *)
LEMMA GoesOnKeeps ==
  ASSUME Inv, NEW x, NEW st, Becomes(x, st), Reads(st) <=> Reads(stream[x]), UNCHANGED channel
  PROVE  Inv'
<1>1. \A s \in Scans, p \in Procs : Readers(s, p)' = Readers(s, p)
  <2> TAKE s \in Scans, p \in Procs
  <2>1. x \in Readers(s, p) <=> Reads(st) /\ st.scan = s /\ st.proc = p
    BY DEF Becomes, Readers, Subscribed, Reads
  <2>2. Readers(s, p)' = IF s = st.scan /\ p = st.proc
                         THEN IF Reads(st) THEN Readers(s, p) \cup {x}
                                           ELSE Readers(s, p) \ {x}
                         ELSE Readers(s, p)
    BY BecomesKeeps
  <2> QED BY <2>1, <2>2
<1>2. ChannelsFit'
  BY <1>1 DEF Inv, ChannelsFit, Listeners
<1>3. channel' \in [Procs -> Channel] /\ \A p \in Procs : DOMAIN channel'[p] \subseteq Scans
  BY DEF Inv, TypeOK, Channel
<1>4. UNCHANGED <<status, result, worker, published, up, crashes>>
  BY DEF Becomes
<1> QED BY <1>2, <1>3, <1>4, BecomesKeeps, StreamsKeep

(* A stream that leaves.                                                   *)
LEMMA LeavesKeeps ==
  ASSUME Inv, NEW x, NEW st, Becomes(x, st), ~Reads(st), Unsubscribe(x)
  PROVE  Inv'
<1> DEFINE s == st.scan
           p == st.proc
           c == channel[p]
           subs == Listeners(s, p) \ {x}
           d == IF subs = {} THEN Restrict(c, DOMAIN c \ {s}) ELSE Put(c, s, subs)
<1>0. /\ s \in Scans /\ p \in Procs /\ channel \in [Procs -> Channel]
      /\ \A q \in Procs : DOMAIN channel[q] \subseteq Scans
  BY DEF Becomes, Stream, Inv, TypeOK, Channel
<1>1. channel' = [channel EXCEPT ![p] = d]
  BY DEF Becomes, Unsubscribe
<1>2. c \in [DOMAIN c -> SUBSET Streams] /\ DOMAIN c \subseteq Scans
      /\ subs \subseteq Streams
  <2>1. c \in [DOMAIN c -> SUBSET Streams] /\ DOMAIN c \subseteq Scans
    BY <1>0 DEF Channel
  <2> QED BY <2>1 DEF Listeners
<1>3. /\ d \in [DOMAIN d -> SUBSET Streams] /\ DOMAIN d \subseteq Scans
      /\ \A t \in Scans \ {s} : t \in DOMAIN d <=> t \in DOMAIN c
      /\ \A t \in DOMAIN d \ {s} : d[t] = c[t]
      /\ IF subs = {} THEN s \notin DOMAIN d ELSE s \in DOMAIN d /\ d[s] = subs
  <2> HIDE DEF c, s, subs, p
  <2>1. CASE subs = {}
    BY <1>2, <2>1 DEF Restrict
  <2>2. CASE subs # {}
    BY <1>0, <1>2, <2>2 DEF Put
  <2> QED BY <2>1, <2>2
<1> HIDE DEF d
<1>4. /\ channel' \in [Procs -> Channel] /\ channel'[p] = d
      /\ \A q \in Procs \ {p} : channel'[q] = channel[q]
      /\ \A q \in Procs : DOMAIN channel'[q] \subseteq Scans
  <2>1. d \in Channel
    BY <1>3 DEF Channel
  <2> QED BY <1>0, <1>1, <1>3, <2>1
<1>5. ASSUME NEW q \in Procs
      PROVE  /\ \A t \in Scans : Listeners(t, q)' = Readers(t, q)'
             /\ \A t \in DOMAIN channel'[q] : channel'[q][t] # {}
  <2>1. /\ \A t \in Scans : Listeners(t, q) = Readers(t, q)
        /\ \A t \in DOMAIN channel[q] : channel[q][t] # {}
    BY DEF Inv, ChannelsFit
  <2>2. \A t \in Scans :
          Readers(t, q)' = IF t = s /\ q = p THEN Readers(t, q) \ {x} ELSE Readers(t, q)
    BY BecomesKeeps
  <2> HIDE DEF s, p
  <2>3. CASE q # p
    BY <1>4, <2>1, <2>2, <2>3 DEF Listeners
  <2>4. CASE q = p
    <3>1. \A t \in Scans \ {s} : Listeners(t, q)' = Listeners(t, q)
      BY <1>3, <1>4, <2>4 DEF Listeners
    <3>2. Listeners(s, q)' = subs
      BY <1>3, <1>4, <2>4 DEF Listeners
    <3>3. \A t \in DOMAIN d : d[t] # {}
      BY <1>3, <2>1, <2>4
    <3> QED BY <1>0, <1>4, <2>1, <2>2, <2>4, <3>1, <3>2, <3>3
  <2> QED BY <2>3, <2>4
<1>6. ChannelsFit'
  BY <1>5 DEF ChannelsFit
<1>7. UNCHANGED <<status, result, worker, published, up, crashes>>
  BY DEF Becomes
<1> QED BY <1>4, <1>6, <1>7, BecomesKeeps, StreamsKeep

(* A stream that is over has nothing left to send.                         *)
LEMMA OverFits ==
  ASSUME Inv, NEW x \in DOMAIN stream, NEW l \in {"closed", "gone"}, NEW told \in Statuses,
         told \in Jobs!Terminal => told = status[stream[x].scan]
  PROVE  /\ Over(stream[x], l, told) \in Stream /\ ~Reads(Over(stream[x], l, told))
         /\ Over(stream[x], l, told).scan = stream[x].scan
         /\ Over(stream[x], l, told).proc = stream[x].proc
         /\ StreamFits(Over(stream[x], l, told), status[stream[x].scan],
                       published[stream[x].scan])
<1> DEFINE st == stream[x]
           o == Over(st, l, told)
           now == status[st.scan]
           log == published[st.scan]
<1>1. st \in Stream /\ now # "none"
  BY StreamTyped DEF Inv, StreamsFit, StreamFits
<1>2. /\ o \in Stream /\ o.scan = st.scan /\ o.proc = st.proc
      /\ o.pc = l /\ o.told = told /\ o.queue = <<>> /\ o.got = <<>>
  <2> HIDE DEF st
  <2>1. N + 3 \in Nat /\ 0 \in 0..N + 3
    BY StreamAssumption
  <2>2. o = [pc |-> l, scan |-> st.scan, proc |-> st.proc, queue |-> <<>>, snap |-> "none",
             polls |-> 0, got |-> <<>>, told |-> told, since |-> 0]
    BY DEF Over
  <2>3. st.scan \in Scans /\ st.proc \in Procs /\ <<>> \in Seq(Event)
    BY <1>1 DEF Stream
  <2>4. o \in Stream
    BY <2>1, <2>2, <2>3 DEF Stream, Statuses
  <2> QED BY <2>2, <2>4
<1>3. o.pc \notin Live
  BY <1>2 DEF Live
<1> HIDE DEF o, now, log
<1>4. ~Reads(o) /\ ~Listens(o) /\ o.pc # "telling"
  BY <1>3 DEF Reads, Listens, Live
<1>5. StreamFits(o, now, log)
  BY <1>1, <1>2, <1>3, <1>4 DEF StreamFits, now
<1> QED BY <1>2, <1>4, <1>5 DEF o, now, log

LEMMA DisconnectKeeps == ASSUME Inv, NEW x \in Streams, Disconnect(x) PROVE Inv'
<1> DEFINE st == Over(stream[x], "gone", stream[x].told)
<1>1. /\ x \in DOMAIN stream /\ stream[x].pc \in Live /\ stream' = [stream EXCEPT ![x] = st]
      /\ UNCHANGED <<status, result, worker, published, up, crashes>>
      /\ IF stream[x].pc = "requested" THEN UNCHANGED channel ELSE Unsubscribe(x)
  BY DEF Disconnect
<1>2. /\ stream[x].told \in Statuses
      /\ stream[x].told \in Jobs!Terminal => stream[x].told = status[stream[x].scan]
  BY <1>1, StreamTyped DEF Inv, StreamsFit, StreamFits
<1>3. Becomes(x, st) /\ ~Reads(st)
  BY <1>1, <1>2, OverFits DEF Becomes
<1> HIDE DEF st
<1>4. CASE stream[x].pc = "requested"
  BY <1>1, <1>3, <1>4, GoesOnKeeps DEF Reads
<1>5. CASE stream[x].pc # "requested"
  BY <1>1, <1>3, <1>5, LeavesKeeps
<1> QED BY <1>4, <1>5

(* The last thing a stream is told closes it.                              *)
LEMMA ClosesKeeps ==
  ASSUME Inv, NEW x \in DOMAIN stream, NEW told \in Jobs!Terminal,
         told = status[stream[x].scan],
         stream' = [stream EXCEPT ![x] = Over(@, "closed", told)], Unsubscribe(x),
         UNCHANGED <<status, result, worker, published, up, crashes>>
  PROVE  Inv'
<1> DEFINE st == Over(stream[x], "closed", told)
<1>1. told \in Statuses
  BY DEF Statuses
<1>2. Becomes(x, st) /\ ~Reads(st)
  BY <1>1, OverFits DEF Becomes
<1> HIDE DEF st
<1> QED BY <1>2, LeavesKeeps

LEMMA TellKeeps == ASSUME Inv, NEW x \in Streams, Tell(x) PROVE Inv'
<1> DEFINE st == stream[x]
           now == status[st.scan]
           log == published[st.scan]
           to == [st EXCEPT !.pc = "waiting", !.told = st.snap]
<1>1. /\ x \in DOMAIN stream /\ st.pc = "telling" /\ st \in Stream
      /\ UNCHANGED <<status, result, worker, published, up, crashes>>
      /\ st.snap \in Statuses /\ now \in Statuses /\ StreamFits(st, now, log)
  BY StreamTyped DEF Tell, At, Inv, StreamsFit
<1>2. st.snap # "none" /\ Advances(st.snap, now)
  BY <1>1 DEF StreamFits
<1>3. CASE st.snap \in Jobs!Terminal
  <2>1. st.snap = now
    BY <1>2, <1>3 DEF Advances
  <2>2. stream' = [stream EXCEPT ![x] = Over(@, "closed", st.snap)] /\ Unsubscribe(x)
    BY <1>3 DEF Tell
  <2> QED BY <1>1, <1>3, <2>1, <2>2, ClosesKeeps
<1>4. CASE st.snap \notin Jobs!Terminal
  <2>1. stream' = [stream EXCEPT ![x] = to] /\ UNCHANGED channel
    BY <1>4 DEF Tell
  <2>2. /\ to \in Stream /\ to.scan = st.scan /\ to.proc = st.proc /\ to.pc = "waiting"
        /\ to.told = st.snap /\ to.queue = st.queue /\ to.got = st.got /\ to.since = st.since
    <3> HIDE DEF st
    <3> QED BY <1>1 DEF Stream, Live, Statuses
  <2> HIDE DEF to, st, now, log
  <2>3. Listens(to) <=> Listens(st)
    BY <1>1, <2>2 DEF Listens, Live
  <2>4. CaughtUp(st, log) => CaughtUp(to, log)
    <3>1. Heard(to) = Heard(st)
      BY <2>2 DEF Heard
    <3> QED BY <1>1, <2>2, <3>1 DEF CaughtUp
  <2>5. StreamFits(to, now, log)
    BY <1>1, <1>2, <1>4, <2>2, <2>3, <2>4 DEF StreamFits, Advances
  <2>6. Becomes(x, to) /\ (Reads(to) <=> Reads(st))
    BY <1>1, <2>1, <2>2, <2>5 DEF Becomes, st, now, log, Reads, Live
  <2> QED BY <2>1, <2>6, GoesOnKeeps DEF st
<1> QED BY <1>3, <1>4

(* What a stream has yet to send was published.                            *)
LEMMA QueuedIsPublished ==
  ASSUME NEW st \in Stream, NEW log \in Seq(Event), CaughtUp(st, log), NEW k \in 1..Len(st.queue)
  PROVE  \E j \in 1..Len(log) : log[j] = st.queue[k]
<1>1. st.got \in Seq(Event) /\ st.queue \in Seq(Event)
  BY DEF Stream
<1> DEFINE g == st.got
           q == st.queue
<1>2. /\ Len(Heard(st)) = Len(g) + Len(q) /\ Heard(st)[Len(g) + k] = q[k]
      /\ Len(g) \in Nat /\ Len(q) \in Nat /\ Len(log) \in Nat
  <2> HIDE DEF Event, Stream
  <2>1. /\ Len(g \o q) = Len(g) + Len(q)
        /\ \A i \in 1..Len(g) + Len(q) : (g \o q)[i] = IF i <= Len(g) THEN g[i] ELSE q[i - Len(g)]
    BY <1>1, ConcatProperties
  <2>2. Len(g) \in Nat /\ Len(q) \in Nat /\ Len(log) \in Nat /\ k \in 1..Len(q)
    BY <1>1
  <2> HIDE DEF g, q
  <2>3. Len(g) + k \in 1..Len(g) + Len(q) /\ ~(Len(g) + k <= Len(g)) /\ Len(g) + k - Len(g) = k
    BY <2>2
  <2>4. (g \o q)[Len(g) + k] = q[k]
    BY <2>1, <2>3
  <2> QED BY <2>1, <2>2, <2>4 DEF Heard, g, q
<1>3. /\ Len(Heard(st)) <= Len(log)
      /\ \A i \in 1..Len(Heard(st)) : Heard(st)[i] = log[Len(log) - Len(Heard(st)) + i]
  BY DEF CaughtUp
<1> HIDE DEF g, q
<1>4. Len(g) + k \in 1..Len(Heard(st)) /\ Len(log) - Len(Heard(st)) + (Len(g) + k) \in 1..Len(log)
  BY <1>2, <1>3 DEF q
<1> QED BY <1>2, <1>3, <1>4 DEF q

LEMMA ReadKeeps == ASSUME Inv, NEW x \in Streams, Read(x) PROVE Inv'
<1> DEFINE st == stream[x]
           now == status[st.scan]
           log == published[st.scan]
           since == IF st.pc = "subscribed" THEN Len(log) ELSE st.since
           to == [st EXCEPT !.pc = "telling", !.snap = now, !.since = since]
<1>1. /\ x \in DOMAIN stream /\ st.pc \in {"subscribed", "expired"} /\ st \in Stream
      /\ UNCHANGED <<status, result, worker, published, channel, up, crashes>>
      /\ stream' = [stream EXCEPT ![x] = to]
  BY StreamTyped DEF Read, At, Inv
<1>2. /\ st.told \in Statuses /\ now \in Statuses /\ log \in Seq(Event)
      /\ StreamFits(st, now, log) /\ st.scan \in Scans
  BY <1>1, StreamTyped DEF Inv, StreamsFit
<1>3. Len(log) \in 0..N + 3 /\ Len(log) \in Nat
  <2>1. LogFits(log, worker[st.scan], now) /\ worker[st.scan].done <= N
        /\ worker[st.scan].done \in Nat /\ N \in Nat
    BY <1>2, ScanTyped
  <2>2. Len(log) \in Nat
    BY <1>2
  <2> HIDE DEF log, st, now
  <2> QED BY <2>1, <2>2 DEF LogFits
<1>4. since \in 0..N + 3 /\ st.since \in 0..N + 3
  BY <1>1, <1>3 DEF Stream
<1>5. /\ to \in Stream /\ to.scan = st.scan /\ to.proc = st.proc /\ to.pc = "telling"
      /\ to.told = st.told /\ to.queue = st.queue /\ to.got = st.got /\ to.snap = now
      /\ to.since = since
  <2> HIDE DEF st, now, since
  <2> QED BY <1>1, <1>2, <1>4 DEF Stream, Live, Statuses
<1> HIDE DEF to
<1>6. (Listens(to) <=> Listens(st)) /\ Reads(to) /\ Reads(st)
  BY <1>1, <1>5 DEF Listens, Reads, Live
<1>7. CaughtUp(st, log) => CaughtUp(to, log)
  <2>1. Heard(to) = Heard(st)
    BY <1>5 DEF Heard
  <2>2. Len(Heard(st)) \in Nat
    BY <1>1 DEF Stream, Heard
  <2> HIDE DEF st, log
  <2>3. CASE st.pc = "subscribed"
    <3>1. to.since = Len(log)
      BY <1>5, <2>3
    <3> QED BY <1>3, <2>1, <2>2, <3>1 DEF CaughtUp
  <2>4. CASE st.pc # "subscribed"
    <3>1. to.since = st.since
      BY <1>5, <2>4
    <3> QED BY <2>1, <2>4, <3>1 DEF CaughtUp
  <2> QED BY <2>3, <2>4
<1> HIDE DEF since
<1>8. StreamFits(to, now, log)
  <2> HIDE DEF st, now, log
  <2>1. /\ now # "none"
        /\ to.told \in Jobs!Terminal => to.told = now
    BY <1>2, <1>5 DEF StreamFits
  <2>2. to.told \notin Jobs!Terminal /\ Rank[to.told] <= Rank[now]
    <3>1. st.pc \in Live
      BY <1>1 DEF Live
    <3> QED BY <1>2, <1>5, <3>1 DEF StreamFits
  <2>3. Advances(now, now)
    BY <1>2 DEF Advances, Statuses, Rank, Jobs!Active, Jobs!Terminal
  <2>4. IF Listens(to) THEN CaughtUp(to, log) ELSE to.queue = <<>> /\ to.got = <<>>
    BY <1>2, <1>5, <1>6, <1>7 DEF StreamFits
  <2> QED BY <1>5, <2>1, <2>2, <2>3, <2>4 DEF StreamFits
<1>9. Becomes(x, to)
  BY <1>1, <1>5, <1>8 DEF Becomes
<1> QED BY <1>1, <1>6, <1>9, GoesOnKeeps

LEMMA ExpireKeeps == ASSUME Inv, NEW x \in Streams, Expire(x) PROVE Inv'
<1> DEFINE st == stream[x]
           now == status[st.scan]
           log == published[st.scan]
           polls == IF st.polls < MaxPolls[x] THEN st.polls + 1 ELSE st.polls
           to == [st EXCEPT !.pc = "expired", !.polls = polls]
<1>1. /\ x \in DOMAIN stream /\ st.pc = "waiting" /\ st \in Stream
      /\ UNCHANGED <<status, result, worker, published, channel, up, crashes>>
      /\ stream' = [stream EXCEPT ![x] = to] /\ StreamFits(st, now, log)
  BY StreamTyped DEF Expire, At, Inv, StreamsFit
<1>2. polls \in Nat
  BY <1>1 DEF Stream
<1>3. /\ to \in Stream /\ to.scan = st.scan /\ to.proc = st.proc /\ to.pc = "expired"
      /\ to.told = st.told /\ to.queue = st.queue /\ to.got = st.got /\ to.since = st.since
  <2> HIDE DEF st, polls
  <2> QED BY <1>1, <1>2 DEF Stream, Live
<1> HIDE DEF to
<1>4. (Listens(to) <=> Listens(st)) /\ Reads(to) /\ Reads(st) /\ st.pc \in Live
  BY <1>1, <1>3 DEF Listens, Reads, Live
<1>5. CaughtUp(st, log) => CaughtUp(to, log)
  <2>1. Heard(to) = Heard(st)
    BY <1>3 DEF Heard
  <2> HIDE DEF st, log
  <2> QED BY <1>1, <1>3, <2>1 DEF CaughtUp
<1>6. StreamFits(to, now, log)
  <2> HIDE DEF st, now, log
  <2> QED BY <1>1, <1>3, <1>4, <1>5 DEF StreamFits
<1>7. Becomes(x, to)
  BY <1>1, <1>3, <1>6 DEF Becomes
<1> QED BY <1>1, <1>4, <1>7, GoesOnKeeps

LEMMA RelayKeeps == ASSUME Inv, NEW x \in Streams, Relay(x) PROVE Inv'
<1> DEFINE st == stream[x]
           now == status[st.scan]
           log == published[st.scan]
           e == Head(st.queue)
           told == IF e.type = "status" THEN "running" ELSE st.told
           to == [st EXCEPT !.queue = Tail(@), !.got = Append(@, e), !.told = told]
<1>1. /\ x \in DOMAIN stream /\ st.pc = "waiting" /\ st \in Stream /\ st.queue # <<>>
      /\ UNCHANGED <<status, result, worker, published, up, crashes>>
  BY StreamTyped DEF Relay, At, Inv
<1>2. /\ st.told \in Statuses /\ now \in Statuses /\ log \in Seq(Event)
      /\ st.queue \in Seq(Event) /\ st.got \in Seq(Event)
      /\ StreamFits(st, now, log) /\ st.scan \in Scans
  BY <1>1, StreamTyped DEF Inv, StreamsFit
<1>3. Listens(st) /\ CaughtUp(st, log)
  BY <1>1, <1>2 DEF StreamFits
<1>4. LogFits(log, worker[st.scan], now)
  BY <1>2, ScanTyped
<1>5. (e.type \in Jobs!Terminal => e.type = now) /\ Rank[now] >= 2 /\ e \in Event
  <2>1. 1 \in 1..Len(st.queue) /\ e = st.queue[1] /\ e \in Event
    <3> HIDE DEF Event, Stream, st
    <3> QED BY <1>1, <1>2
  <2>2. PICK j \in 1..Len(log) : log[j] = e
    BY <1>1, <1>2, <1>3, <2>1, QueuedIsPublished
  <2>3. log # <<>>
    BY <1>2, <2>2
  <2> HIDE DEF e, log, now
  <2> QED BY <1>4, <2>1, <2>2, <2>3 DEF LogFits
<1>6. CASE e.type \in Jobs!Terminal
  <2>1. stream' = [stream EXCEPT ![x] = Over(@, "closed", e.type)] /\ Unsubscribe(x)
    BY <1>6 DEF Relay
  <2> QED BY <1>1, <1>5, <1>6, <2>1, ClosesKeeps
<1>7. CASE e.type \notin Jobs!Terminal
  <2>1. stream' = [stream EXCEPT ![x] = to] /\ UNCHANGED channel
    BY <1>7 DEF Relay
  <2>2. /\ Append(st.got, e) \o Tail(st.queue) = st.got \o st.queue
        /\ Append(st.got, e) \in Seq(Event) /\ Tail(st.queue) \in Seq(Event)
    BY <1>1, <1>2, HeardRelayed
  <2>3. told \in Statuses /\ told \notin Jobs!Terminal /\ Rank[told] <= Rank[now]
    <3>1. st.told \notin Jobs!Terminal /\ Rank[st.told] <= Rank[now]
      BY <1>1, <1>2 DEF StreamFits, Live
    <3>2. Rank["running"] = 2 /\ "running" \in Statuses /\ "running" \notin Jobs!Terminal
      BY DEF Rank, Statuses, Jobs!Active, Jobs!Terminal
    <3>3. Rank[now] \in Nat
      BY <1>2 DEF Rank, Statuses, Jobs!Active, Jobs!Terminal
    <3> HIDE DEF e, now, st
    <3> QED BY <1>2, <1>5, <3>1, <3>2, <3>3
  <2>4. /\ to \in Stream /\ to.scan = st.scan /\ to.proc = st.proc /\ to.pc = st.pc
        /\ to.told = told /\ to.queue = Tail(st.queue) /\ to.got = Append(st.got, e)
        /\ to.since = st.since
    <3> HIDE DEF st, e, told, Event
    <3> QED BY <1>1, <2>2, <2>3 DEF Stream, Statuses
  <2> HIDE DEF to, told
  <2>5. Listens(to) /\ Reads(to) /\ Reads(st)
    BY <1>1, <1>3, <2>4 DEF Listens, Reads, Live
  <2>6. CaughtUp(to, log)
    <3>1. Heard(to) = Heard(st)
      BY <2>2, <2>4 DEF Heard
    <3> HIDE DEF st, log
    <3> QED BY <1>3, <2>4, <3>1 DEF CaughtUp
  <2>7. StreamFits(to, now, log)
    <3> HIDE DEF st, now, log
    <3> QED BY <1>1, <1>2, <2>3, <2>4, <2>5, <2>6 DEF StreamFits
  <2>8. Becomes(x, to)
    BY <1>1, <2>1, <2>4, <2>7 DEF Becomes
  <2> QED BY <2>1, <2>5, <2>8, GoesOnKeeps
<1> QED BY <1>6, <1>7

LEMMA SubscribeKeeps == ASSUME Inv, NEW x \in Streams, Subscribe(x) PROVE Inv'
<1> DEFINE st == stream[x]
           s == st.scan
           p == st.proc
           c == channel[p]
           subs == Listeners(s, p) \cup {x}
           d == Put(c, s, subs)
           to == [st EXCEPT !.pc = "subscribed"]
<1>1. /\ x \in DOMAIN stream /\ st.pc = "requested" /\ st \in Stream
      /\ UNCHANGED <<status, result, worker, published, up, crashes>>
      /\ stream' = [stream EXCEPT ![x] = to] /\ channel' = [channel EXCEPT ![p] = d]
      /\ StreamFits(st, status[s], published[s])
  BY StreamTyped DEF Subscribe, At, Inv, StreamsFit
<1>2. /\ to \in Stream /\ to.scan = s /\ to.proc = p /\ to.pc = "subscribed"
      /\ to.told = st.told /\ to.queue = st.queue /\ to.got = st.got
  <2> HIDE DEF st
  <2> QED BY <1>1 DEF Stream, Live
<1>3. /\ s \in Scans /\ p \in Procs /\ channel \in [Procs -> Channel]
      /\ \A q \in Procs : DOMAIN channel[q] \subseteq Scans
      /\ st.told \in Statuses /\ published[s] \in Seq(Event)
  BY <1>1, StreamTyped DEF Inv, TypeOK, Channel
<1>4. Reads(to) /\ st.queue = <<>> /\ st.got = <<>>
  BY <1>1, <1>2 DEF StreamFits, Listens, Reads, Live
<1>5. Becomes(x, to)
  <2>1. CaughtUp(to, published[s])
    <3>1. Len(Heard(to)) = 0
      <4>1. Heard(to) = <<>> \o <<>>
        BY <1>2, <1>4 DEF Heard
      <4>2. <<>> \in Seq(Event) /\ Len(<<>>) = 0
        OBVIOUS
      <4> QED BY <4>1, <4>2, ConcatProperties
    <3> QED BY <1>2, <1>3, <3>1 DEF CaughtUp
  <2>2. st.pc \in Live
    BY <1>1 DEF Live
  <2>3. StreamFits(to, status[s], published[s])
    <3> HIDE DEF to, st, s
    <3> QED BY <1>1, <1>2, <1>4, <2>1, <2>2 DEF StreamFits
  <2> QED BY <1>1, <1>2, <2>3 DEF Becomes
<1> HIDE DEF to
<1>6. /\ c \in [DOMAIN c -> SUBSET Streams] /\ DOMAIN c \subseteq Scans /\ subs \subseteq Streams
  <2>1. c \in [DOMAIN c -> SUBSET Streams] /\ DOMAIN c \subseteq Scans
    BY <1>3 DEF Channel
  <2> QED BY <2>1 DEF Listeners
<1>7. /\ d \in [DOMAIN d -> SUBSET Streams] /\ DOMAIN d = DOMAIN c \cup {s}
      /\ d[s] = subs /\ \A t \in DOMAIN d \ {s} : d[t] = c[t]
  <2> HIDE DEF c, s, subs, p
  <2> QED BY <1>6 DEF Put
<1> HIDE DEF d
<1>8. /\ channel' \in [Procs -> Channel] /\ channel'[p] = d
      /\ \A q \in Procs \ {p} : channel'[q] = channel[q]
      /\ \A q \in Procs : DOMAIN channel'[q] \subseteq Scans
  <2>1. DOMAIN d \subseteq Scans
    BY <1>3, <1>6, <1>7
  <2>2. d \in Channel
    BY <1>7, <2>1 DEF Channel
  <2> HIDE DEF p
  <2> QED BY <1>1, <1>3, <2>1, <2>2
<1>9. ASSUME NEW q \in Procs
      PROVE  /\ \A t \in Scans : Listeners(t, q)' = Readers(t, q)'
             /\ \A t \in DOMAIN channel'[q] : channel'[q][t] # {}
  <2>1. /\ \A t \in Scans : Listeners(t, q) = Readers(t, q)
        /\ \A t \in DOMAIN channel[q] : channel[q][t] # {}
    BY DEF Inv, ChannelsFit
  <2>2. \A t \in Scans :
          Readers(t, q)' = IF t = s /\ q = p THEN Readers(t, q) \cup {x} ELSE Readers(t, q)
    BY <1>2, <1>4, <1>5, BecomesKeeps
  <2> HIDE DEF s, p
  <2>3. CASE q # p
    BY <1>8, <2>1, <2>2, <2>3 DEF Listeners
  <2>4. CASE q = p
    <3>1. \A t \in Scans \ {s} : Listeners(t, q)' = Listeners(t, q)
      BY <1>7, <1>8, <2>4 DEF Listeners
    <3>2. \A t \in Scans : t = s => Listeners(t, q)' = subs
      BY <1>7, <1>8, <2>4 DEF Listeners
    <3>3. \A t \in DOMAIN d : d[t] # {}
      BY <1>7, <2>1, <2>4
    <3> QED BY <1>3, <1>8, <2>1, <2>2, <2>4, <3>1, <3>2, <3>3
  <2> QED BY <2>3, <2>4
<1>10. ChannelsFit'
  BY <1>9 DEF ChannelsFit
<1> QED BY <1>1, <1>5, <1>8, <1>10, BecomesKeeps, StreamsKeep

LEMMA OpenKeeps ==
  ASSUME Inv, NEW x \in Streams, NEW s \in Scans, NEW p \in Procs, Open(x, s, p)
  PROVE  Inv'
<1> DEFINE st == [pc |-> "requested", scan |-> s, proc |-> p, queue |-> <<>>,
                  snap |-> "none", polls |-> 0, got |-> <<>>, told |-> "none", since |-> 0]
<1>1. /\ x \notin DOMAIN stream /\ status[s] # "none" /\ stream' = Put(stream, x, st)
      /\ UNCHANGED <<status, result, worker, published, channel, up, crashes>>
      /\ status[s] \in Statuses
  BY ScanTyped DEF Open
<1>2. st \in Stream
  <2>1. 0 \in 0..N + 3
    BY StreamAssumption
  <2> QED BY <2>1 DEF Stream, Live
<1>3. /\ st.pc = "requested" /\ st.scan = s /\ st.told = "none"
      /\ st.queue = <<>> /\ st.got = <<>>
  OBVIOUS
<1>4. StreamFits(st, status[s], published[s]) /\ ~Reads(st)
  <2> HIDE DEF st
  <2>1. "none" \notin Jobs!Terminal /\ Rank["none"] <= Rank[status[s]]
    BY <1>1 DEF Rank, Statuses, Jobs!Active, Jobs!Terminal
  <2> QED BY <1>1, <1>3, <2>1 DEF StreamFits, Listens, Reads
<1> HIDE DEF st
<1>5. /\ DOMAIN stream' = DOMAIN stream \cup {x} /\ stream'[x] = st
      /\ \A y \in DOMAIN stream : stream'[y] = stream[y] /\ y # x
      /\ stream' = [y \in DOMAIN stream' |-> stream'[y]]
  BY <1>1 DEF Put
<1>6. DOMAIN stream' \subseteq Streams /\ stream' \in [DOMAIN stream' -> Stream]
  <2>1. \A y \in DOMAIN stream' : stream'[y] \in Stream
    BY <1>2, <1>5, StreamTyped DEF Inv
  <2>2. DOMAIN stream \subseteq Streams
    BY DEF Inv, TypeOK
  <2> QED BY <1>5, <2>1, <2>2
<1>7. \A y \in DOMAIN stream' :
        StreamFits(stream'[y], status[stream'[y].scan], published[stream'[y].scan])
  BY <1>3, <1>4, <1>5 DEF Inv, StreamsFit
<1>8. ChannelsFit'
  <2>1. \A t \in Scans, q \in Procs : Readers(t, q)' = Readers(t, q)
    BY <1>4, <1>5 DEF Readers, Subscribed, Reads
  <2> QED BY <1>1, <2>1 DEF Inv, ChannelsFit, Listeners
<1>9. channel' \in [Procs -> Channel] /\ \A q \in Procs : DOMAIN channel'[q] \subseteq Scans
  BY <1>1 DEF Inv, TypeOK, Channel
<1> QED BY <1>1, <1>6, <1>7, <1>8, <1>9, StreamsKeep

-----------------------------------------------------------------------------
LEMMA CrashKeeps == ASSUME Inv, NEW p \in Procs, Crash(p) PROVE Inv'
<1>1. /\ crashes < MaxCrashes /\ up' = [up EXCEPT ![p] = FALSE] /\ crashes' = crashes + 1
      /\ worker' = [s \in Scans |-> IF Server[s] = p /\ worker[s].pc # "none"
                                    THEN [worker[s] EXCEPT !.pc = "ended"] ELSE worker[s]]
      /\ stream' = [x \in DOMAIN stream |->
                      IF stream[x].proc = p /\ stream[x].pc \in Live
                      THEN Over(stream[x], "gone", stream[x].told) ELSE stream[x]]
      /\ channel' = [channel EXCEPT ![p] = [s \in {} |-> {}]]
      /\ UNCHANGED <<status, result, published>>
  BY DEF Crash
<1>2. /\ worker' \in [Scans -> Worker]
      /\ \A s \in Scans : /\ WorkerFits(worker'[s], status[s])
                          /\ LogFits(published[s], worker'[s], status[s])
  <2>1. ASSUME NEW s \in Scans
        PROVE  /\ worker'[s] \in Worker /\ WorkerFits(worker'[s], status[s])
               /\ LogFits(published[s], worker'[s], status[s])
    <3>1. CASE Server[s] = p /\ worker[s].pc # "none"
      <4>1. worker'[s] \in Worker /\ worker'[s].pc = "ended" /\ worker'[s].done = worker[s].done
        BY <1>1, <3>1, ScanTyped DEF Worker
      <4> QED BY <3>1, <4>1, ScanTyped DEF WorkerFits, LogFits
    <3>2. CASE ~(Server[s] = p /\ worker[s].pc # "none")
      BY <1>1, <3>2, ScanTyped
    <3> QED BY <3>1, <3>2
  <2> QED BY <1>1, <2>1
<1>3. ASSUME NEW x \in DOMAIN stream
      PROVE  /\ stream'[x] \in Stream
             /\ StreamFits(stream'[x], status[stream'[x].scan], published[stream'[x].scan])
             /\ Reads(stream'[x]) <=> Reads(stream[x]) /\ stream[x].proc # p
             /\ stream'[x].proc = stream[x].proc /\ stream'[x].scan = stream[x].scan
  <2>1. /\ StreamFits(stream[x], status[stream[x].scan], published[stream[x].scan])
        /\ stream[x] \in Stream /\ stream[x].told \in Statuses
    BY StreamTyped DEF Inv, StreamsFit
  <2>2. CASE stream[x].proc = p /\ stream[x].pc \in Live
    <3>1. stream'[x] = Over(stream[x], "gone", stream[x].told)
      BY <1>1, <2>2
    <3>2. stream[x].told \in Jobs!Terminal => stream[x].told = status[stream[x].scan]
      BY <2>1 DEF StreamFits
    <3> QED BY <2>1, <2>2, <3>1, <3>2, OverFits
  <2>3. CASE ~(stream[x].proc = p /\ stream[x].pc \in Live)
    <3>1. stream'[x] = stream[x] /\ (Reads(stream[x]) => stream[x].proc # p)
      BY <1>1, <2>3 DEF Reads
    <3> QED BY <2>1, <3>1
  <2> QED BY <2>2, <2>3
<1>4. DOMAIN stream' = DOMAIN stream /\ stream' \in [DOMAIN stream -> Stream]
  BY <1>1, <1>3
<1>5. /\ channel' \in [Procs -> Channel] /\ \A q \in Procs : DOMAIN channel'[q] \subseteq Scans
      /\ DOMAIN channel'[p] = {} /\ \A q \in Procs \ {p} : channel'[q] = channel[q]
  <2>1. [s \in {} |-> {}] \in Channel
    BY EmptyChannel
  <2> QED BY <1>1, <2>1 DEF Inv, TypeOK, Channel
<1>6. ChannelsFit'
  <2>1. \A s \in Scans, q \in Procs : Readers(s, q)' = IF q = p THEN {} ELSE Readers(s, q)
    BY <1>3, <1>4 DEF Readers, Subscribed, Reads
  <2>2. \A s \in Scans, q \in Procs : Listeners(s, q)' = IF q = p THEN {} ELSE Listeners(s, q)
    BY <1>5 DEF Listeners
  <2>3. /\ \A s \in Scans, q \in Procs : Listeners(s, q) = Readers(s, q)
        /\ \A q \in Procs : \A s \in DOMAIN channel[q] : channel[q][s] # {}
    BY DEF Inv, ChannelsFit
  <2>4. \A s \in Scans, q \in Procs : Listeners(s, q)' = Readers(s, q)'
    BY <2>1, <2>2, <2>3
  <2>5. \A q \in Procs : \A s \in DOMAIN channel'[q] : channel'[q][s] # {}
    BY <1>5, <2>3
  <2> QED BY <2>4, <2>5 DEF ChannelsFit
<1>7. TypeOK'
  <2>1. crashes' \in 0..MaxCrashes /\ up' \in [Procs -> BOOLEAN]
    BY <1>1, StreamAssumption DEF Inv, TypeOK
  <2> QED BY <1>1, <1>2, <1>4, <1>5, <2>1 DEF Inv, TypeOK, Channel
<1>8. WorkersFit' /\ StreamsFit'
  BY <1>1, <1>2, <1>3, <1>4 DEF WorkersFit, StreamsFit
<1> QED BY <1>6, <1>7, <1>8 DEF Inv

-----------------------------------------------------------------------------
LEMMA NextKeeps == ASSUME ReaperSpares, Inv, [Next]_vars PROVE Inv'
<1>1. ASSUME NEW s \in Scans, Submit(s) \/ RunScan(s) PROVE Inv'
  BY <1>1, CommitKeeps, PublishingKeeps DEF RunScan
<1>2. ASSUME NEW x \in Streams, NEW s \in Scans, NEW p \in Procs, Open(x, s, p) PROVE Inv'
  BY <1>2, OpenKeeps
<1>3. ASSUME NEW x \in Streams, Generate(x) \/ Disconnect(x) PROVE Inv'
  BY <1>3, SubscribeKeeps, ReadKeeps, TellKeeps, RelayKeeps, ExpireKeeps, DisconnectKeeps
     DEF Generate
<1>4. ASSUME NEW p \in Procs, Crash(p) \/ Boot(p) PROVE Inv'
  BY <1>4, CrashKeeps, BootKeeps
<1>5. CASE UNCHANGED vars
  BY <1>5 DEF vars, Inv, TypeOK, WorkersFit, ChannelsFit, Listeners, Readers, Subscribed,
              StreamsFit
<1> QED BY <1>1, <1>2, <1>3, <1>4, <1>5 DEF Next

THEOREM Inductive ==
  ASSUME ReaperSpares
  PROVE  Spec => []Inv
<1>1. Init => Inv
  BY InitHolds
<1>2. Inv /\ [Next]_vars => Inv'
  BY NextKeeps
<1> QED BY <1>1, <1>2, PTL DEF Spec

-----------------------------------------------------------------------------
(* Every variable holds a value of its kind: run_scan has done no more     *)
(* corpora than there are, and no crash or poll leaves a queue or a channel*)
(* of another shape.                                                       *)
THEOREM TypeCorrect ==
  ASSUME ReaperSpares
  PROVE  Spec => []TypeOK
BY Inductive, PTL DEF Inv

(* A scan's channel holds exactly the streams that read it, in the process *)
(* that serves them, and its key goes with the last: progress_subscription *)
(* leaks no queue however a stream ends.                                   *)
THEOREM ChannelsKept ==
  ASSUME ReaperSpares
  PROVE  Spec => []ChannelsMatchStreams
<1>1. Inv => ChannelsMatchStreams
  BY ChannelsFitMeans DEF Inv
<1> QED BY <1>1, Inductive, PTL

(* A client that was told how its scan ended, or has that in its queue,    *)
(* finds the same in the database: run_scan publishes after it commits,    *)
(* and a finished scan keeps its status, as long as the reaper spares the  *)
(* jobs that are worked on.                                                *)
THEOREM EndsAreStored ==
  ASSUME ReaperSpares
  PROVE  Spec => []ToldWhatIsStored
<1>1. ASSUME Inv PROVE ToldWhatIsStored
  <2> SUFFICES ASSUME NEW x \in DOMAIN stream
               PROVE  /\ stream[x].told \in Jobs!Terminal => stream[x].told = status[stream[x].scan]
                      /\ \A k \in DOMAIN stream[x].queue :
                           stream[x].queue[k].type \in Jobs!Terminal =>
                             stream[x].queue[k].type = status[stream[x].scan]
    BY DEF ToldWhatIsStored
  <2> DEFINE st == stream[x]
             now == status[st.scan]
             log == published[st.scan]
  <2>1. /\ StreamFits(st, now, log) /\ st \in Stream /\ st.scan \in Scans
        /\ log \in Seq(Event) /\ st.queue \in Seq(Event)
    BY <1>1, StreamTyped DEF Inv, StreamsFit
  <2>2. ASSUME NEW k \in DOMAIN st.queue, st.queue[k].type \in Jobs!Terminal
        PROVE  st.queue[k].type = now
    <3>1. k \in 1..Len(st.queue)
      <4> HIDE DEF Event, Stream, st
      <4> QED BY <2>1
    <3>2. st.queue # <<>>
      BY <3>1
    <3>3. CaughtUp(st, log)
      BY <2>1, <3>2 DEF StreamFits
    <3>4. PICK j \in 1..Len(log) : log[j] = st.queue[k]
      BY <2>1, <3>1, <3>3, QueuedIsPublished
    <3>5. LogFits(log, worker[st.scan], now)
      BY <1>1, <2>1, ScanTyped
    <3> HIDE DEF st, now, log
    <3> QED BY <2>2, <3>4, <3>5 DEF LogFits
  <2> QED BY <2>1, <2>2 DEF StreamFits
<1> QED BY <1>1, Inductive, PTL

LEMMA SuffixMeans ==
  ASSUME NEW S, NEW s \in Seq(S), NEW t \in Seq(S), Len(s) <= Len(t),
         \A k \in 1..Len(s) : s[k] = t[Len(t) - Len(s) + k]
  PROVE  IsSuffix(s, t)
<1> DEFINE m == Len(s)
           n == Len(t)
           r == Reverse(s)
           q == Reverse(t)
<1>1. m \in Nat /\ n \in Nat /\ m <= n
  OBVIOUS
<1>2. /\ Len(r) = m /\ Len(q) = n
      /\ \A i \in 1..m : r[i] = s[(m - i) + 1] /\ r[i] \in S
      /\ \A i \in 1..n : q[i] = t[(n - i) + 1] /\ q[i] \in S
  BY DEF Reverse
<1> HIDE DEF m, n, r, q
<1>3. \A i \in 1..m : r[i] = q[i]
  <2> TAKE i \in 1..m
  <2>1. (m - i) + 1 \in 1..m /\ n - m + ((m - i) + 1) = (n - i) + 1 /\ i \in 1..n
    BY <1>1
  <2>2. s[(m - i) + 1] = t[n - m + ((m - i) + 1)]
    BY <2>1 DEF m, n
  <2> QED BY <1>2, <2>1, <2>2
<1>4. SubSeq(r, 1, m) = SubSeq(q, 1, m)
  <2>1. /\ SubSeq(r, 1, m) \in Seq(S) /\ Len(SubSeq(r, 1, m)) = (IF 1 <= m THEN m - 1 + 1 ELSE 0)
        /\ \A i \in 1..m - 1 + 1 : SubSeq(r, 1, m)[i] = r[1 + i - 1]
    BY <1>1, <1>2, SubSeqProperties
  <2>2. /\ SubSeq(q, 1, m) \in Seq(S) /\ Len(SubSeq(q, 1, m)) = (IF 1 <= m THEN m - 1 + 1 ELSE 0)
        /\ \A i \in 1..m - 1 + 1 : SubSeq(q, 1, m)[i] = q[1 + i - 1]
    BY <1>1, <1>2, SubSeqProperties
  <2>3. Len(SubSeq(r, 1, m)) = m /\ Len(SubSeq(q, 1, m)) = m
    BY <1>1, <2>1, <2>2
  <2>4. \A i \in 1..m : SubSeq(r, 1, m)[i] = SubSeq(q, 1, m)[i]
    BY <1>1, <1>3, <2>1, <2>2
  <2> QED BY <2>1, <2>2, <2>3, <2>4, SeqEqual
<1> QED BY <1>1, <1>2, <1>4 DEF IsSuffix, IsPrefix, r, q, m, n

LEMMA Shifted ==
  ASSUME NEW a \in Nat, NEW b \in Nat, NEW c \in Nat, NEW d \in Nat, NEW i \in 1..a,
         a = c - d, a <= b, b <= c
  PROVE  b - a + i \in 1..b /\ c - b + (b - a + i) = d + i
OBVIOUS

(* Every event that the scan's process publishes after a stream's first    *)
(* snapshot reaches the stream, in order and once: the subscription is     *)
(* older than the snapshot, and every publication finds it.                *)
THEOREM EventsArrive ==
  ASSUME ReaperSpares
  PROVE  Spec => []NoEventMissed
<1>1. ASSUME Inv PROVE NoEventMissed
  <2> SUFFICES ASSUME NEW x \in Subscribed,
                      stream[x].pc # "subscribed" /\ stream[x].proc = Server[stream[x].scan]
               PROVE  IsSuffix(SubSeq(published[stream[x].scan], stream[x].since + 1,
                                      Len(published[stream[x].scan])),
                               stream[x].got \o stream[x].queue)
    BY DEF NoEventMissed
  <2> DEFINE st == stream[x]
             log == published[st.scan]
             h == Heard(st)
             later == SubSeq(log, st.since + 1, Len(log))
  <2>1. /\ StreamFits(st, status[st.scan], log) /\ Listens(st)
        /\ st.since \in Nat /\ log \in Seq(Event)
        /\ st.got \in Seq(Event) /\ st.queue \in Seq(Event)
    BY <1>1, StreamTyped DEF Inv, StreamsFit, Subscribed, Listens
  <2>2. h \in Seq(Event)
    <3> HIDE DEF st, Event
    <3> QED BY <2>1, ConcatProperties DEF Heard
  <2>3. /\ Len(h) <= Len(log)
        /\ \A k \in 1..Len(h) : h[k] = log[Len(log) - Len(h) + k]
        /\ Len(log) - Len(h) <= st.since /\ st.since <= Len(log)
    BY <2>1 DEF StreamFits, CaughtUp
  <2>4. Len(h) \in Nat /\ Len(log) \in Nat /\ \A i \in 1..Len(log) : log[i] \in Event
    BY <2>1, <2>2
  <2> HIDE DEF st, h, log
  <2>5. /\ later \in Seq(Event) /\ Len(later) = Len(log) - st.since
        /\ \A i \in 1..Len(log) - st.since : later[i] = log[st.since + i]
    <3>1. /\ SubSeq(log, st.since + 1, Len(log)) \in Seq(Event)
          /\ Len(later) = (IF st.since + 1 <= Len(log) THEN Len(log) - (st.since + 1) + 1 ELSE 0)
          /\ \A i \in 1..Len(log) - (st.since + 1) + 1 : later[i] = log[(st.since + 1) + i - 1]
      <4>1. \A i \in st.since + 1..Len(log) : log[i] \in Event
        BY <2>1, <2>4
      <4>2. st.since + 1 \in Int /\ Len(log) \in Int
        BY <2>1, <2>4
      <4> HIDE DEF Event
      <4> QED BY <4>1, <4>2, SubSeqProperties
    <3> HIDE DEF later
    <3>2. Len(later) = Len(log) - st.since
      BY <2>1, <2>3, <2>4, <3>1
    <3>3. ASSUME NEW i \in 1..Len(log) - st.since PROVE later[i] = log[st.since + i]
      <4>1. i \in 1..Len(log) - (st.since + 1) + 1 /\ (st.since + 1) + i - 1 = st.since + i
        BY <2>1, <2>4
      <4> QED BY <3>1, <4>1
    <3> QED BY <3>1, <3>2, <3>3 DEF later
  <2> HIDE DEF later
  <2>6. Len(later) <= Len(h)
    BY <2>1, <2>3, <2>4, <2>5
  <2>7. ASSUME NEW k \in 1..Len(later) PROVE later[k] = h[Len(h) - Len(later) + k]
    <3>1. /\ Len(h) - Len(later) + k \in 1..Len(h)
          /\ Len(log) - Len(h) + (Len(h) - Len(later) + k) = st.since + k
      <4>1. /\ Len(later) = Len(log) - st.since /\ Len(later) <= Len(h) /\ Len(h) <= Len(log)
            /\ st.since \in Nat /\ Len(later) \in Nat /\ Len(h) \in Nat /\ Len(log) \in Nat
        BY <2>1, <2>3, <2>4, <2>5, <2>6
      <4> QED BY <4>1, Shifted
    <3>2. h[Len(h) - Len(later) + k] = log[Len(log) - Len(h) + (Len(h) - Len(later) + k)]
      BY <2>3, <3>1
    <3> QED BY <2>5, <3>1, <3>2
  <2>8. IsSuffix(later, h)
    BY <2>2, <2>5, <2>6, <2>7, SuffixMeans
  <2> QED BY <2>8 DEF later, h, log, st, Heard
<1> QED BY <1>1, Inductive, PTL

-----------------------------------------------------------------------------
LEMMA ToldOn ==
  ASSUME NEW a \in Statuses
  PROVE  /\ Rank[a] \in Nat /\ Rank[a] <= Rank[a]
         /\ a \notin Jobs!Terminal => \A e \in {"status"} \cup Jobs!Terminal :
              Rank[a] <= Rank[IF e = "status" THEN "running" ELSE e]
BY DEF Statuses, Rank, Jobs!Active, Jobs!Terminal

LEMMA ToldKeeps ==
  ASSUME Inv, [Next]_vars, NEW x \in DOMAIN stream
  PROVE  Rank[stream[x].told] <= Rank[stream'[x].told]
<1> DEFINE st == stream[x]
<1>1. st \in Stream /\ x \in Streams /\ st.told \in Statuses
  BY StreamTyped DEF Inv
<1>2. StreamFits(st, status[st.scan], published[st.scan])
  BY DEF Inv, StreamsFit
<1>3. Rank[st.told] <= Rank[st.told]
  BY <1>1, ToldOn
<1>4. CASE stream'[x].told = st.told
  BY <1>3, <1>4
<1>5. ASSUME NEW s \in Scans, Submit(s) \/ RunScan(s) PROVE stream'[x].told = st.told
  <2>1. CASE stream' = stream
    BY <2>1
  <2>2. ASSUME NEW e, Publish(s, e) PROVE stream'[x].told = st.told
    BY <1>1, <2>2 DEF Publish, Stream
  <2> QED BY <1>5, <2>1, <2>2 DEF Submit, RunScan, CommitRunning, PublishRunning, CorpusComplete,
                                  CommitComplete, CommitError, PublishEnd, Die
<1>6. ASSUME NEW y \in Streams, NEW s \in Scans, NEW p \in Procs, Open(y, s, p)
      PROVE  stream'[x].told = st.told
  BY <1>6 DEF Open, Put
<1>7. ASSUME NEW p \in Procs, Crash(p) \/ Boot(p) PROVE stream'[x].told = st.told
  BY <1>7 DEF Crash, Boot, Over
<1>8. ASSUME NEW y \in Streams, Subscribe(y) \/ Read(y) \/ Expire(y) \/ Disconnect(y)
      PROVE  stream'[x].told = st.told
  BY <1>1, <1>8 DEF Subscribe, Read, Expire, Disconnect, At, Over, Stream
<1>9. ASSUME NEW y \in Streams, Tell(y) \/ Relay(y), y # x PROVE stream'[x].told = st.told
  BY <1>9 DEF Tell, Relay
<1>10. CASE Tell(x)
  <2>1. stream'[x].told = st.snap /\ st.pc = "telling"
    BY <1>1, <1>10 DEF Tell, At, Over, Stream
  <2> QED BY <1>2, <2>1 DEF StreamFits
<1>11. CASE Relay(x)
  <2> DEFINE type == Head(st.queue).type
  <2>1. st.pc = "waiting" /\ stream'[x].told = IF type \in Jobs!Terminal THEN type
                                  ELSE IF type = "status" THEN "running" ELSE st.told
    BY <1>1, <1>11 DEF Relay, At, Over, Stream, Jobs!Terminal
  <2>2. st.told \notin Jobs!Terminal
    BY <1>2, <2>1 DEF StreamFits, Live
  <2> HIDE DEF type
  <2>3. "status" \notin Jobs!Terminal
    BY DEF Jobs!Terminal
  <2> QED BY <1>1, <1>3, <2>1, <2>2, <2>3, ToldOn
<1>12. CASE UNCHANGED vars
  BY <1>3, <1>12 DEF vars
<1> QED BY <1>4, <1>5, <1>6, <1>7, <1>8, <1>9, <1>10, <1>11, <1>12 DEF Next, Generate

(* The statuses a stream reports to its client never go back, whether they *)
(* come from a snapshot, a poll or the channel, whose events may be older  *)
(* or younger than the snapshot.                                           *)
THEOREM NeverToldBack ==
  ASSUME ReaperSpares
  PROVE  Spec => ToldInOrder
<1>1. Inv /\ [Next]_vars =>
        [\A x \in DOMAIN stream : Rank[stream[x].told] <= Rank[stream'[x].told]]_vars
  BY ToldKeeps
<1> QED BY <1>1, Inductive, PTL DEF Spec, ToldInOrder

(* The jobs that the streams watch are the abstract ones of ScanJob: what  *)
(* LeakScan is proved to implement is what ScanStream assumes.             *)
THEOREM WatchesJobs ==
  ASSUME ReaperSpares
  PROVE  Spec => Jobs!Spec
<1>1. Init => Jobs!Init
  BY DEF Init
<1>2. ASSUME Inv, [Next]_vars PROVE [Jobs!Next]_(Jobs!jobVars)
  <2> SUFFICES ASSUME ~UNCHANGED <<status, result>> PROVE Jobs!Next
    BY DEF Jobs!jobVars
  <2>1. PICK s \in Scans, F \in SUBSET Scans :
          Jobs!Submit(s) \/ Jobs!Start(s) \/ Jobs!Complete(s) \/ Jobs!Fail(F)
    <3>1. ASSUME NEW s \in Scans, Submit(s) \/ RunScan(s)
          PROVE  Jobs!Submit(s) \/ Jobs!Start(s) \/ Jobs!Complete(s) \/ Jobs!Fail({s})
      <4> USE DEF Step, WorkerFits
      <4>1. WorkerFits(worker[s], status[s]) /\ status \in [Scans -> Statuses]
            /\ result \in [Scans -> Results \cup {<<>>}]
        BY <1>2, ScanTyped DEF Inv, TypeOK, Statuses
      <4>2. CASE CommitRunning(s)
        BY <4>1, <4>2 DEF CommitRunning, Jobs!Start
      <4>3. CASE CommitComplete(s)
        <5>1. [k \in 1..N |-> k] # <<>>
          BY StreamAssumption
        <5> DEFINE all == [k \in 1..N |-> k]
        <5>2. all \in Results \ {<<>>}
          BY <5>1 DEF Results
        <5> HIDE DEF all
        <5>3. /\ worker[s].pc = "scanning" /\ status' = [status EXCEPT ![s] = "complete"]
              /\ result' = [result EXCEPT ![s] = all]
          BY <4>3 DEF CommitComplete, all
        <5> QED BY <4>1, <5>2, <5>3 DEF Jobs!Complete
      <4>4. CASE CommitError(s)
        <5>1. /\ status[s] \in Jobs!Active /\ result' = result
              /\ status' = [status EXCEPT ![s] = "error"]
          BY <4>1, <4>4 DEF CommitError, Jobs!Active
        <5>2. status' = [t \in Scans |-> IF t \in {s} THEN "error" ELSE status[t]]
          BY <4>1, <5>1
        <5> QED BY <5>1, <5>2 DEF Jobs!Fail
      <4>5. CASE Submit(s)
        BY <4>5 DEF Submit
      <4> QED
        BY <3>1, <4>2, <4>3, <4>4, <4>5
          DEF RunScan, PublishRunning, CorpusComplete, PublishEnd, Die
    <3>2. ASSUME NEW p \in Procs, Boot(p)
          PROVE  \E s \in Scans, F \in SUBSET Scans : Jobs!Fail(F)
      <4>1. PICK F \in SUBSET {s \in Scans : worker[s].pc = "ended" /\ status[s] \in Jobs!Active} :
              Jobs!Fail(F)
        BY <3>2 DEF Boot, Reapable, Jobs!Fail
      <4>2. F # {}
        BY <1>2, <4>1, <3>2 DEF Jobs!Fail, Boot, Inv, TypeOK
      <4> QED BY <4>1, <4>2
    <3>3. \/ \E s \in Scans : Submit(s) \/ RunScan(s)
          \/ \E p \in Procs : Boot(p)
      BY <1>2 DEF Next, vars, Open, Generate, Subscribe, Read, Tell, Relay, Expire, Disconnect,
                  Crash
    <3> QED BY <3>1, <3>2, <3>3
  <2>2. status' # status
    BY <1>2, <2>1 DEF Jobs!Submit, Jobs!Start, Jobs!Complete, Jobs!Fail, Inv, TypeOK
  <2> QED BY <2>1, <2>2 DEF Jobs!Next
<1> QED BY <1>1, <1>2, Inductive, PTL DEF Spec, Jobs!Spec
=============================================================================
