----------------------------- MODULE ScanStream -----------------------------
(***************************************************************************)
(* The live progress of a scan: run_scan publishes what it has committed   *)
(* to an in-process channel (_progress_channels of leak_service.py), and   *)
(* GET /leak-scan/{id}/stream (routers/leak.py) turns one subscription     *)
(* into server-sent events.  The jobs are those of ScanJob, which LeakScan *)
(* implements; what is detailed here is what lies between a commit and the *)
(* client that hears of it: session.close() is awaited after the commit    *)
(* and before publish_progress, a stream awaits its snapshot after it has  *)
(* subscribed, and a stream may live in another process than the scan.     *)
(*                                                                         *)
(* Time is left out: the 15 s poll may fire whenever a stream waits.       *)
(*                                                                         *)
(* An operator commented "Slip" is a mistake somebody could make in the    *)
(* definition below it, used by nothing: the README says what for.         *)
(***************************************************************************)
EXTENDS Naturals, Sequences, Functions, SequencesExt

CONSTANTS Scans,    \* ids of the scan jobs
          Streams,  \* ids of the stream requests
          Procs,    \* server processes
          Server,   \* per scan, the process that serves its request
          N,        \* how many corpora a scan asks for
          ReaperSpares, \* whether the reaper only fails jobs nobody works on
          MaxCrashes, \* bound on process crashes
          MaxPolls  \* bounds, per stream, the polls that found a live job

ASSUME StreamAssumption ==
  /\ N \in Nat \ {0} /\ MaxCrashes \in Nat /\ MaxPolls \in [Streams -> Nat]
  /\ Server \in [Scans -> Procs] /\ ReaperSpares \in BOOLEAN

VARIABLES status, result, \* the jobs in the database, as in ScanJob
          worker,    \* the run_scan coroutine of each scan
          published, \* history: what run_scan published, in order
          channel,   \* _progress_channels of each process
          stream,    \* the stream requests served so far
          up,        \* which processes are running
          crashes    \* crashes so far

jobVars == <<status, result>>
vars == <<status, result, worker, published, channel, stream, up, crashes>>

Results == {[k \in 1..N |-> k]}

Jobs == INSTANCE ScanJob

-----------------------------------------------------------------------------
Event == [type: {"status", "corpus_complete", "complete", "error"}, corpus: 0..N]

Happened(type) == [type |-> type, corpus |-> 0]

(* Where run_scan stands between two awaits: it owes the event of what it  *)
(* has just committed when "started", "finished" or "failed".              *)
Worker == [pc: {"none", "open", "started", "scanning", "finished", "failed", "ended"},
           done: 0..N]

Live == {"requested", "subscribed", "telling", "waiting", "expired"}

Stream == [pc: Live \cup {"closed", "gone"}, scan: Scans, proc: Procs,
           queue: Seq(Event),  \* the asyncio.Queue
           snap: {"none"} \cup Jobs!Active \cup Jobs!Terminal, \* the status last read
           polls: Nat,
           got: Seq(Event),    \* history: the events sent to the client
           told: {"none"} \cup Jobs!Active \cup Jobs!Terminal, \* history: the status last sent
           since: 0..N+3]      \* history: Len(published) when first read

Put(f, k, v) == [x \in DOMAIN f \cup {k} |-> IF x = k THEN v ELSE f[x]]

Init ==
  /\ Jobs!Init
  /\ worker = [s \in Scans |-> [pc |-> "none", done |-> 0]]
  /\ published = [s \in Scans |-> <<>>]
  /\ channel = [p \in Procs |-> [s \in {} |-> {}]]
  /\ stream = [x \in {} |-> {}]
  /\ up = [p \in Procs |-> TRUE]
  /\ crashes = 0

-----------------------------------------------------------------------------
(* The scan.                                                               *)

(* publish_progress: to every queue of the channel in the scan's process.  *)
Listeners(s, p) == IF s \in DOMAIN channel[p] THEN channel[p][s] ELSE {}

Publish(s, e) ==
  /\ published' = [published EXCEPT ![s] = Append(@, e)]
  /\ stream' = [x \in DOMAIN stream |->
                  IF x \in Listeners(s, Server[s])
                  THEN [stream[x] EXCEPT !.queue = Append(@, e)] ELSE stream[x]]

Step(s, from, to) ==
  /\ worker[s].pc = from
  /\ worker' = [worker EXCEPT ![s].pc = to]

Submit(s) ==
  /\ up[Server[s]]
  /\ Jobs!Submit(s)
  /\ worker' = [worker EXCEPT ![s] = [pc |-> "open", done |-> 0]]
  /\ UNCHANGED <<published, channel, stream, up, crashes>>

CommitRunning(s) ==
  /\ Step(s, "open", "started")
  /\ status' = [status EXCEPT ![s] = "running"]
  /\ UNCHANGED <<result, published, channel, stream, up, crashes>>

PublishRunning(s) ==
  /\ Step(s, "started", "scanning")
  /\ Publish(s, Happened("status"))
  /\ UNCHANGED <<status, result, channel, up, crashes>>

(* Slip: one corpus_complete too many.                                     *)
CorpusCompleteAgain(s) ==
  /\ worker[s].pc = "scanning" /\ worker[s].done <= N
  /\ worker' = [worker EXCEPT ![s].done = @ + 1]
  /\ Publish(s, [type |-> "corpus_complete", corpus |-> worker[s].done + 1])
  /\ UNCHANGED <<status, result, channel, up, crashes>>

(* One corpus is done: its result is kept and published in one go.         *)
CorpusComplete(s) ==
  /\ worker[s].pc = "scanning" /\ worker[s].done < N
  /\ worker' = [worker EXCEPT ![s].done = @ + 1]
  /\ Publish(s, [type |-> "corpus_complete", corpus |-> worker[s].done + 1])
  /\ UNCHANGED <<status, result, channel, up, crashes>>

CommitComplete(s) ==
  /\ worker[s].done = N
  /\ Step(s, "scanning", "finished")
  /\ status' = [status EXCEPT ![s] = "complete"]
  /\ result' = [result EXCEPT ![s] = [k \in 1..N |-> k]]
  /\ UNCHANGED <<published, channel, stream, up, crashes>>

(* The certificate is gone, or the except block.                           *)
CommitError(s) ==
  /\ worker[s].done < N
  /\ Step(s, "open", "failed") \/ Step(s, "scanning", "failed")
  /\ status' = [status EXCEPT ![s] = "error"]
  /\ UNCHANGED <<result, published, channel, stream, up, crashes>>

(* Slip: "complete" is published before save_results commits.              *)
PublishEndEarly(s) ==
  /\ worker[s].done = N
  /\ Step(s, "scanning", "finished")
  /\ Publish(s, Happened("complete"))
  /\ UNCHANGED <<status, result, channel, up, crashes>>

PublishEnd(s) ==
  /\ \/ Step(s, "finished", "ended") /\ Publish(s, Happened("complete"))
     \/ Step(s, "failed", "ended") /\ Publish(s, Happened("error"))
  /\ UNCHANGED <<status, result, channel, up, crashes>>

(* A session raises outside the try block, or closing one does after its   *)
(* commit: run_scan dies, and what it owed is never published.             *)
Die(s) ==
  /\ worker[s].pc \in {"open", "started", "scanning", "finished", "failed"}
  /\ worker' = [worker EXCEPT ![s].pc = "ended"]
  /\ UNCHANGED <<status, result, published, channel, stream, up, crashes>>

RunScan(s) ==
  \/ CommitRunning(s) \/ PublishRunning(s) \/ CorpusComplete(s)
  \/ CommitComplete(s) \/ CommitError(s) \/ PublishEnd(s) \/ Die(s)

-----------------------------------------------------------------------------
(* The stream.                                                             *)

(* stream_leak_scan answers 404 for an unknown scan; its generator starts  *)
(* when the response does.                                                 *)
Open(x, s, p) ==
  /\ up[p] /\ x \notin DOMAIN stream /\ status[s] # "none"
  /\ stream' = Put(stream, x, [pc |-> "requested", scan |-> s, proc |-> p, queue |-> <<>>,
                               snap |-> "none", polls |-> 0,
                               got |-> <<>>, told |-> "none", since |-> 0])
  /\ UNCHANGED <<status, result, worker, published, channel, up, crashes>>

At(x, l) == x \in DOMAIN stream /\ stream[x].pc = l

(* progress_subscription: setdefault(scan_id, []).append(queue).           *)
Subscribe(x) ==
  /\ At(x, "requested")
  /\ LET s == stream[x].scan  p == stream[x].proc IN
       channel' = [channel EXCEPT ![p] = Put(@, s, Listeners(s, p) \cup {x})]
  /\ stream' = [stream EXCEPT ![x].pc = "subscribed"]
  /\ UNCHANGED <<status, result, worker, published, up, crashes>>

(* Slip: a poll repeats the first snapshot.                                *)
ReadOnce(x) ==
  /\ At(x, "subscribed") \/ At(x, "expired")
  /\ LET s == stream[x].scan  first == stream[x].pc = "subscribed" IN
       stream' = [stream EXCEPT
         ![x].pc = "telling",
         ![x].snap = IF first THEN status[s] ELSE @,
         ![x].since = IF first THEN Len(published[s]) ELSE @]
  /\ UNCHANGED <<status, result, worker, published, channel, up, crashes>>

(* get_scan, for the first snapshot and after every poll timeout.          *)
Read(x) ==
  /\ At(x, "subscribed") \/ At(x, "expired")
  /\ LET s == stream[x].scan IN
       stream' = [stream EXCEPT
         ![x].pc = "telling",
         ![x].snap = status[s],
         ![x].since = IF stream[x].pc = "subscribed" THEN Len(published[s]) ELSE @]
  /\ UNCHANGED <<status, result, worker, published, channel, up, crashes>>

(* The generator of a stream returns, or is closed, and its queue goes     *)
(* with it; what it was last told is kept as history.                      *)
Over(st, l, told) ==
  [pc |-> l, scan |-> st.scan, proc |-> st.proc, queue |-> <<>>, snap |-> "none",
   polls |-> 0, got |-> <<>>, told |-> told, since |-> 0]

(* Slip: leaving pops the channel for everyone.                            *)
UnsubscribeAll(x) ==
  channel' = [channel EXCEPT ![stream[x].proc] = Restrict(@, DOMAIN @ \ {stream[x].scan})]

(* Leaving progress_subscription: the queue goes, the last one with its    *)
(* key.                                                                    *)
Unsubscribe(x) ==
  LET s == stream[x].scan
      p == stream[x].proc
      subs == Listeners(s, p) \ {x}
  IN channel' = [channel EXCEPT ![p] = IF subs = {} THEN Restrict(@, DOMAIN @ \ {s})
                                                    ELSE Put(@, s, subs)]

(* Slip: what was queued behind the snapshot is thrown away with it.       *)
TellAndDrain(x) ==
  /\ At(x, "telling")
  /\ LET st == stream[x].snap
         end == st \in Jobs!Terminal
     IN /\ stream' = [stream EXCEPT ![x] =
              IF end THEN Over(@, "closed", st)
                     ELSE [@ EXCEPT !.pc = "waiting", !.told = st, !.queue = <<>>]]
        /\ IF end THEN Unsubscribe(x) ELSE UNCHANGED channel
  /\ UNCHANGED <<status, result, worker, published, up, crashes>>

(* The snapshot is sent; a terminal one is the last.                       *)
Tell(x) ==
  /\ At(x, "telling")
  /\ LET st == stream[x].snap
         end == st \in Jobs!Terminal
     IN /\ stream' = [stream EXCEPT ![x] =
              IF end THEN Over(@, "closed", st) ELSE [@ EXCEPT !.pc = "waiting", !.told = st]]
        /\ IF end THEN Unsubscribe(x) ELSE UNCHANGED channel
  /\ UNCHANGED <<status, result, worker, published, up, crashes>>

(* queue.get(): the event is sent; "complete" and "error" are the last.    *)
Relay(x) ==
  /\ At(x, "waiting") /\ stream[x].queue # <<>>
  /\ LET e == Head(stream[x].queue)
         end == e.type \in Jobs!Terminal
         told == IF e.type = "status" THEN "running" ELSE stream[x].told
     IN /\ stream' = [stream EXCEPT ![x] =
              IF end THEN Over(@, "closed", e.type)
                     ELSE [stream[x] EXCEPT !.queue = Tail(@), !.got = Append(@, e),
                                            !.told = told]]
        /\ IF end THEN Unsubscribe(x) ELSE UNCHANGED channel
  /\ UNCHANGED <<status, result, worker, published, up, crashes>>

(* Slip: the stream stops polling after a while.                           *)
ExpireAtMost(x) ==
  /\ At(x, "waiting") /\ stream[x].polls < MaxPolls[x]
  /\ stream' = [stream EXCEPT ![x].pc = "expired", ![x].polls = @ + 1]
  /\ UNCHANGED <<status, result, worker, published, channel, up, crashes>>

(* wait_for gives up, with an event in the queue or none.  A poll that     *)
(* found the job alive is followed by another: MaxPolls bounds only those. *)
Expire(x) ==
  /\ At(x, "waiting")
  /\ stream[x].polls < MaxPolls[x] \/ status[stream[x].scan] \in Jobs!Terminal
  /\ stream' = [stream EXCEPT ![x].pc = "expired",
                              ![x].polls = IF @ < MaxPolls[x] THEN @ + 1 ELSE @]
  /\ UNCHANGED <<status, result, worker, published, channel, up, crashes>>

(* The client hangs up: the generator is closed.                           *)
Disconnect(x) ==
  /\ x \in DOMAIN stream /\ stream[x].pc \in Live
  /\ stream' = [stream EXCEPT ![x] = Over(@, "gone", @.told)]
  /\ IF stream[x].pc = "requested" THEN UNCHANGED channel ELSE Unsubscribe(x)
  /\ UNCHANGED <<status, result, worker, published, up, crashes>>

Generate(x) == Subscribe(x) \/ Read(x) \/ Tell(x) \/ Relay(x) \/ Expire(x)

-----------------------------------------------------------------------------
(* A process dies with its coroutines, its streams and its channels.       *)
Crash(p) ==
  /\ up[p] /\ crashes < MaxCrashes
  /\ up' = [up EXCEPT ![p] = FALSE]
  /\ crashes' = crashes + 1
  /\ worker' = [s \in Scans |-> IF Server[s] = p /\ worker[s].pc # "none"
                                THEN [worker[s] EXCEPT !.pc = "ended"] ELSE worker[s]]
  /\ stream' = [x \in DOMAIN stream |->
                  IF stream[x].proc = p /\ stream[x].pc \in Live
                  THEN Over(stream[x], "gone", stream[x].told) ELSE stream[x]]
  /\ channel' = [channel EXCEPT ![p] = [s \in {} |-> {}]]
  /\ UNCHANGED <<status, result, published>>

(* The next process reaps some jobs, those that were open and old enough   *)
(* when it selected them.  The code goes by age alone, so it may fail a    *)
(* job under its coroutine, or one that ended since it was selected.       *)
(* ReaperSpares says it does neither: that is LivingAreSpared, proved of   *)
(* LeakScan for one process, or a limit that outlasts every scan.          *)
Reapable(s) ==
  /\ status[s] # "none"
  /\ ReaperSpares => worker[s].pc = "ended" /\ status[s] \in Jobs!Active

Boot(p) ==
  /\ ~up[p]
  /\ up' = [up EXCEPT ![p] = TRUE]
  /\ \E F \in SUBSET {s \in Scans : Reapable(s)} :
       status' = [s \in Scans |-> IF s \in F THEN "error" ELSE status[s]]
  /\ UNCHANGED <<result, worker, published, channel, stream, crashes>>

Next ==
  \/ \E s \in Scans : Submit(s) \/ RunScan(s)
  \/ \E x \in Streams, s \in Scans, p \in Procs : Open(x, s, p)
  \/ \E x \in Streams : Generate(x) \/ Disconnect(x)
  \/ \E p \in Procs : Crash(p) \/ Boot(p)

Spec == Init /\ [][Next]_vars

(* The event loop resumes a stream whose await is over, and a wait is over *)
(* after 15 s at the latest.  Nothing is asked of the scan or the client.  *)
FairSpec == Spec /\ \A x \in Streams : WF_vars(Generate(x))

-----------------------------------------------------------------------------
Subscribed == {x \in DOMAIN stream : stream[x].pc \in Live \ {"requested"}}

TypeOK ==
  /\ status \in [Scans -> {"none"} \cup Jobs!Active \cup Jobs!Terminal]
  /\ result \in [Scans -> Results \cup {<<>>}]
  /\ worker \in [Scans -> Worker]
  /\ published \in [Scans -> Seq(Event)]
  /\ DOMAIN stream \subseteq Streams /\ stream \in [DOMAIN stream -> Stream]
  /\ \A p \in Procs : DOMAIN channel[p] \subseteq Scans
  /\ channel \in [Procs -> UNION {[D -> SUBSET Streams] : D \in SUBSET Scans}]
  /\ up \in [Procs -> BOOLEAN] /\ crashes \in 0..MaxCrashes

(* A client that is told how its scan ended finds the same in the database *)
(* when it asks: no event runs ahead of its commit, none contradicts it.   *)
ToldWhatIsStored ==
  \A x \in DOMAIN stream :
    /\ stream[x].told \in Jobs!Terminal => stream[x].told = status[stream[x].scan]
    /\ \A k \in DOMAIN stream[x].queue :
         stream[x].queue[k].type \in Jobs!Terminal =>
           stream[x].queue[k].type = status[stream[x].scan]

(* Every event published by the scan's process after the snapshot a stream *)
(* started from reaches that stream, in order and once: a subscription is  *)
(* older than the snapshot, so nothing falls between the two.              *)
NoEventMissed ==
  \A x \in Subscribed :
    LET s == stream[x].scan
        later == SubSeq(published[s], stream[x].since + 1, Len(published[s]))
    IN stream[x].pc # "subscribed" /\ stream[x].proc = Server[s] =>
         IsSuffix(later, stream[x].got \o stream[x].queue)

(* The statuses one stream reports never go back, although a snapshot may  *)
(* be older or younger than the events queued around it.                   *)
Rank == [none |-> 0, pending |-> 1, running |-> 2, complete |-> 3, error |-> 3]

ToldInOrder ==
  [][\A x \in DOMAIN stream : Rank[stream[x].told] <= Rank[stream'[x].told]]_vars

(* Queues live exactly as long as the generators that read them: a scan's  *)
(* channel holds the streams reading it and its key goes with the last.    *)
ChannelsMatchStreams ==
  \A p \in Procs :
    LET Readers(s) == {x \in Subscribed : stream[x].proc = p /\ stream[x].scan = s} IN
      /\ DOMAIN channel[p] = {s \in Scans : Readers(s) # {}}
      /\ \A s \in DOMAIN channel[p] : channel[p][s] = Readers(s)

(* A stream whose job has ended closes, even if the end was never          *)
(* published: the coroutine died, or ran in another process.               *)
StreamsClose ==
  \A x \in Streams :
    (x \in DOMAIN stream /\ stream[x].pc \in Live /\ status[stream[x].scan] \in Jobs!Terminal)
      ~> (x \in DOMAIN stream /\ stream[x].pc \in {"closed", "gone"})
=============================================================================
