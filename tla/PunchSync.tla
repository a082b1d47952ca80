------------------------------ MODULE PunchSync ------------------------------
(* The synchronisation of one fingerprint device through the branch agent.    *)
(* The device keeps a log of punches; the web site queues pull requests; the  *)
(* agent of the branch polls the requests, reads the whole device log, cuts   *)
(* it to what the server misses and uploads it in batches; the server imports *)
(* each batch and closes the requests with the last one.  Requests of the     *)
(* agent may be lost, may lose their reply, or may outlive the agent's time   *)
(* limit and be served while a later cycle runs.                              *)
(*                                                                            *)
(* A punch is the index of its record in the device log; its user, type and   *)
(* signature are left out.  Agent and server each leave out what is too old   *)
(* when they look at it: 93 days in an incremental upload, 365 in any other.  *)
(* One device stands for all: nothing is shared between devices but the loop  *)
(* of the agent.  The clock of the device is right, so that nothing is        *)
(* dropped for being of the future, and is never put back.                    *)
EXTENDS Integers, Sequences, FiniteSets, FiniteSetsExt

CONSTANTS
  Users,         \* web users who ask for a synchronisation
  Posts,         \* HTTP requests of the agent that may be on their way at once
  Ranges,        \* the date ranges a user may ask for, as [from, to] times
  Buffer,        \* INCREMENTAL_BUFFER, in units of time
  Recent,        \* MAX_PAST_DAYS_INCREMENTAL, of the agent and of the server
  Year,          \* MAX_PAST_DAYS_FULL_SYNC, of the agent and of the server
  Batch,         \* INGEST_BATCH_SIZE, in punches
  Polls,         \* SYNC_ON_REQUEST_ONLY is off, or --force-sync is given
  None,          \* no request, no watermark, no HTTP request
  MaxTime, MaxPunches, MaxAsks, MaxFaults   \* bounds of the instance

Full == [from |-> -1, to |-> MaxTime]      \* a request without dates
Dates == Ranges \cup {Full}
Post == [kind : {"ingest", "ack"}, stage : {"sent", "read", "stored", "answered"},
         rows : SUBSET (1..MaxPunches), inc : BOOLEAN, last : BOOLEAN,
         req : Dates \cup {None}, snap : 0..MaxPunches]       \* an HTTP request

ASSUME SyncAssumption ==
  /\ Recent \in Nat /\ Year \in Nat /\ Recent <= Year
  /\ Buffer \in Nat \ {0} /\ Batch \in Nat \ {0} /\ Polls \in BOOLEAN
  /\ MaxTime \in Nat /\ MaxPunches \in Nat /\ MaxAsks \in Nat /\ MaxFaults \in Nat
  /\ Ranges \subseteq [from : 0..MaxTime, to : 0..MaxTime]
  /\ None \notin Dates \cup Nat \cup Post

VARIABLES
  now,    \* the time, of the device, the agent and the server
  log,      \* the device: the time of each punch, in the order recorded
  stored,   \* AttendancePunch: the punches the server has
  rows,     \* BiometricPullRequest: each row's range, whether it is closed and
            \* (history) how long the log was at the last click
  web,      \* the row queue_pull_request has read for each user, or None
  agent,    \* the cycle the agent is in
  post,     \* the HTTP requests of the agent
  whole,    \* history: no upload was limited to a range of dates so far
  asks,     \* bound: clicks so far
  faults    \* bound: failures so far
vars == <<now, log, stored, rows, web, agent, post, whole, asks, faults>>

Indices == 1..Len(log)
Row == [range : Dates, done : BOOLEAN, upto : 0..MaxPunches]
Cycle == [stage : {"idle", "listed", "fetched", "sending", "waiting", "acking", "ackwait"},
          req : Dates \cup {None}, snap : 0..MaxPunches, todo : SUBSET (1..MaxPunches),
          inc : BOOLEAN, slot : Posts \cup {None}]
Asleep == [stage |-> "idle", req |-> None, snap |-> 0, todo |-> {}, inc |-> FALSE, slot |-> None]

TypeOK ==
  /\ now \in 0..MaxTime /\ log \in Seq(0..MaxTime) /\ Len(log) <= MaxPunches
  /\ stored \subseteq Indices
  /\ rows \in Seq(Row) /\ Len(rows) <= MaxAsks
  /\ web \in [Users -> {None} \cup (0..MaxAsks)]
  /\ agent \in Cycle
  /\ post \in [Posts -> Post \cup {None}]
  /\ whole \in BOOLEAN /\ asks \in 0..MaxAsks /\ faults \in 0..MaxFaults

Init ==
  /\ now = 0 /\ log = <<>> /\ stored = {} /\ rows = <<>> /\ web = [u \in Users |-> None]
  /\ agent = Asleep /\ post = [p \in Posts |-> None]
  /\ whole = TRUE /\ asks = 0 /\ faults = 0

(* -------- what the code computes ------------------------------------------ *)
(* The latest row that is not closed, 0 when there is none.                   *)
OpenRows == {k \in 1..Len(rows) : ~rows[k].done}
LatestPending == Max(OpenRows \cup {0})

(* The time of the last punch of the device the server has.                   *)
Watermark == IF stored = {} THEN None ELSE Max({log[i] : i \in stored})
After(S, w) == {i \in S : log[i] > w - Buffer}

(* What is young enough for an upload of this kind.                           *)
Age(inc) == IF inc THEN Recent ELSE Year
Young(inc) == {i \in Indices : log[i] >= now - Age(inc)}

(* What of the log it has read is in the range of a request.                  *)
InRange(range, snap) == {i \in 1..snap : range.from < log[i] /\ log[i] <= range.to}

(* What the agent uploads of it.                                              *)
Wanted(range, snap, inc) == InRange(range, snap) \cap Young(inc)

(* The beginnings of what is left, in the order of the log.                   *)
Chunks(S) ==
  {B \in SUBSET S : /\ Cardinality(B) <= Batch /\ (B = {} => S = {})
                    /\ \A i \in B, j \in S \ B : i < j}

Mutant_CloseNone == rows
CloseAll == [k \in DOMAIN rows |-> [rows[k] EXCEPT !.done = TRUE]]

FreePost == CHOOSE p \in Posts : post[p] = None
SomePostFree == \E p \in Posts : post[p] = None

Answered(p) == post[p] # None /\ post[p].stage = "answered"
(* A reply goes nowhere when the cycle that waited for it is over.            *)
Answer(p) == IF agent.slot = p THEN [post[p] EXCEPT !.stage = "answered"] ELSE None

(* -------- the device -------------------------------------------------------- *)
Tick ==
  /\ now < MaxTime /\ now' = now + 1
  /\ UNCHANGED <<log, stored, rows, web, agent, post, whole, asks, faults>>

Punch ==
  /\ Len(log) < MaxPunches
  /\ log' = Append(log, now)
  /\ UNCHANGED <<now, stored, rows, web, agent, post, whole, asks, faults>>

(* -------- the web site ------------------------------------------------------ *)
LookPending(u) ==
  /\ web[u] = None /\ asks < MaxAsks
  /\ web' = [web EXCEPT ![u] = LatestPending]
  /\ asks' = asks + 1
  /\ UNCHANGED <<now, log, stored, rows, agent, post, whole, faults>>

SaveRequest(u, range) ==
  /\ web[u] # None
  /\ rows' = IF web[u] = 0
             THEN Append(rows, [range |-> range, done |-> FALSE, upto |-> Len(log)])
             ELSE [rows EXCEPT ![web[u]].range = range, ![web[u]].upto = Len(log)]
  /\ web' = [web EXCEPT ![u] = None]
  /\ UNCHANGED <<now, log, stored, agent, post, whole, asks, faults>>

(* -------- the agent --------------------------------------------------------- *)
(* The list is empty too when it cannot be fetched.                           *)
ListPulls ==
  /\ agent.stage = "idle"
  /\ \E k \in IF faults < MaxFaults THEN {LatestPending, 0} ELSE {LatestPending} :
       /\ k # 0 \/ Polls
       /\ agent' = [Asleep EXCEPT !.stage = "listed",
                                  !.req = IF k = 0 THEN None ELSE rows[k].range]
       /\ faults' = IF k = LatestPending THEN faults ELSE faults + 1
  /\ UNCHANGED <<now, log, stored, rows, web, post, whole, asks>>

FetchDevice ==
  /\ agent.stage = "listed"
  /\ agent' = [agent EXCEPT !.stage = "fetched", !.snap = Len(log)]
  /\ UNCHANGED <<now, log, stored, rows, web, post, whole, asks, faults>>

(* A cycle nobody asked for asks the server for its watermark, and uploads    *)
(* everything when there is none or the answer does not come.                 *)
PlanUpload ==
  /\ agent.stage = "fetched"
  /\ \E w \in IF faults < MaxFaults THEN {Watermark, None} ELSE {Watermark} :
       LET range == IF agent.req = None THEN Full ELSE agent.req
           inc == agent.req = None /\ w # None
           want == Wanted(range, agent.snap, inc)
           todo == IF inc THEN After(want, w) ELSE want
       IN /\ agent' = IF inc /\ todo = {} THEN Asleep
                      ELSE [agent EXCEPT !.stage = "sending", !.todo = todo, !.inc = inc]
          /\ faults' = IF w = Watermark \/ agent.req # None THEN faults ELSE faults + 1
  /\ UNCHANGED <<now, log, stored, rows, web, post, whole, asks>>

(* Mutant: every batch closes the requests. *)
Mutant_SendChunkFinal ==
  /\ agent.stage = "sending" /\ SomePostFree
  /\ \E B \in Chunks(agent.todo) :
       /\ post' = [post EXCEPT ![FreePost] =
            [kind |-> "ingest", stage |-> "sent", rows |-> B, inc |-> agent.inc,
             last |-> TRUE, req |-> agent.req, snap |-> agent.snap]]
       /\ agent' = [agent EXCEPT !.stage = "waiting", !.todo = @ \ B, !.slot = FreePost]
  /\ UNCHANGED <<now, log, stored, rows, web, whole, asks, faults>>

SendChunk ==
  /\ agent.stage = "sending" /\ SomePostFree
  /\ \E B \in Chunks(agent.todo) :
       /\ post' = [post EXCEPT ![FreePost] =
            [kind |-> "ingest", stage |-> "sent", rows |-> B, inc |-> agent.inc,
             last |-> B = agent.todo, req |-> agent.req, snap |-> agent.snap]]
       /\ agent' = [agent EXCEPT !.stage = "waiting", !.todo = @ \ B, !.slot = FreePost]
  /\ UNCHANGED <<now, log, stored, rows, web, whole, asks, faults>>

(* A device without users and punches has nothing to upload.                  *)
NothingToSend ==
  /\ agent.stage = "sending" /\ agent.todo = {}
  /\ agent' = IF agent.req = None THEN Asleep ELSE [agent EXCEPT !.stage = "acking"]
  /\ UNCHANGED <<now, log, stored, rows, web, post, whole, asks, faults>>

ReceiveReply ==
  /\ agent.stage \in {"waiting", "ackwait"}
  /\ Answered(agent.slot)
  /\ post' = [post EXCEPT ![agent.slot] = None]
  /\ agent' = IF agent.stage = "ackwait" THEN Asleep
              ELSE IF ~post[agent.slot].last
                   THEN [agent EXCEPT !.stage = "sending", !.slot = None]
              ELSE IF agent.req = None THEN Asleep
              ELSE [agent EXCEPT !.stage = "acking", !.slot = None]
  /\ UNCHANGED <<now, log, stored, rows, web, whole, asks, faults>>

SendAck ==
  /\ agent.stage = "acking" /\ SomePostFree
  /\ post' = [post EXCEPT ![FreePost] =
       [kind |-> "ack", stage |-> "sent", rows |-> {}, inc |-> FALSE,
        last |-> TRUE, req |-> agent.req, snap |-> agent.snap]]
  /\ agent' = [agent EXCEPT !.stage = "ackwait", !.slot = FreePost]
  /\ UNCHANGED <<now, log, stored, rows, web, whole, asks, faults>>

(* The device does not answer, an upload fails or takes too long, the process *)
(* stops and is started again: the cycle is over, its request may go on.      *)
CycleFails ==
  /\ agent.stage # "idle" /\ faults < MaxFaults
  /\ agent' = Asleep /\ faults' = faults + 1
  /\ post' = [p \in Posts |-> IF p = agent.slot /\ Answered(p) THEN None ELSE post[p]]
  /\ UNCHANGED <<now, log, stored, rows, web, whole, asks>>

(* -------- the server -------------------------------------------------------- *)
Serves(p, kind, stage) == post[p] # None /\ post[p].kind = kind /\ post[p].stage = stage

(* What is too old is dropped, the index is read and the rows that it does    *)
(* not cover are picked out.                                                  *)
ReadIndex(p) ==
  /\ Serves(p, "ingest", "sent")
  /\ post' = [post EXCEPT ![p].stage = "read",
       ![p].rows = ((IF post[p].inc /\ Watermark # None THEN After(@, Watermark) ELSE @)
                    \cap Young(post[p].inc)) \ stored]
  /\ UNCHANGED <<now, log, stored, rows, web, agent, whole, asks, faults>>

Import(p) ==
  /\ Serves(p, "ingest", "read")
  /\ stored' = stored \cup post[p].rows
  /\ whole' = (whole /\ post[p].req \in {None, Full})
  /\ post' = [post EXCEPT ![p] = IF @.last THEN [@ EXCEPT !.stage = "stored"] ELSE Answer(p)]
  /\ UNCHANGED <<now, log, rows, web, agent, asks, faults>>

Acknowledge(p) ==
  /\ Serves(p, "ingest", "stored") \/ Serves(p, "ack", "sent")
  /\ rows' = CloseAll
  /\ post' = [post EXCEPT ![p] = Answer(p)]
  /\ UNCHANGED <<now, log, stored, web, agent, whole, asks, faults>>

(* The request does not arrive, or the worker that serves it is stopped: the  *)
(* agent sees the connection close.                                           *)
LosePost(p) ==
  /\ post[p] # None /\ ~Answered(p) /\ faults < MaxFaults
  /\ post' = [post EXCEPT ![p] = None] /\ faults' = faults + 1
  /\ agent' = IF agent.slot = p THEN Asleep ELSE agent
  /\ UNCHANGED <<now, log, stored, rows, web, whole, asks>>

Agent == \/ ListPulls \/ FetchDevice \/ PlanUpload \/ SendChunk \/ NothingToSend
         \/ ReceiveReply \/ SendAck
Serve(p) == ReadIndex(p) \/ Import(p) \/ Acknowledge(p)
Ask(u) == LookPending(u) \/ \E range \in Dates : SaveRequest(u, range)

Next ==
  \/ Tick \/ Punch
  \/ \E u \in Users : Ask(u)
  \/ Agent \/ CycleFails
  \/ \E p \in Posts : Serve(p) \/ LosePost(p)

Spec == Init /\ [][Next]_vars

(* The loop of the agent, the workers of the server and the steps of a click  *)
(* go on; failures are bounded by MaxFaults, so they end.                     *)
FairSpec ==
  /\ Spec /\ WF_vars(Agent)
  /\ \A p \in Posts : WF_vars(Serve(p))
  /\ \A u \in Users : WF_vars(web[u] # None /\ Ask(u))

(* -------- properties -------------------------------------------------------- *)
(* What is older than the server's watermark is on the server, unless it is   *)
(* older than 93 days, as long as no upload was limited to dates: the         *)
(* watermark, the cut of the agent and the cut of the import never jump over  *)
(* a younger punch, whatever batches were lost, repeated or served late       *)
(* (agent.py filter_punches_for_upload, punch_sync.py partition_new_rows).    *)
NoGap ==
  whole /\ Watermark # None => {i \in Young(TRUE) : log[i] < Watermark} \subseteq stored

(* When the last batch of a cycle has been imported, and so when its requests *)
(* are closed, everything the cycle set out to upload is on the server, but   *)
(* for what has meanwhile grown too old (AgentIngestView.post,                *)
(* run_all_cycles).                                                           *)
UploadComplete ==
  \A p \in Posts :
    post[p] # None /\ post[p].last
      /\ (post[p].kind = "ack" \/ post[p].stage \in {"stored", "answered"})
      /\ (whole \/ post[p].req # None)
    => Wanted(IF post[p].req = None THEN Full ELSE post[p].req, post[p].snap, post[p].inc)
         \subseteq stored

(* No punch of the last 93 days is missed by what the watermark skips, as     *)
(* long as no upload was limited to dates, and none by what a finished cycle  *)
(* has announced (AgentIngestView.post, run_all_cycles).                      *)
NothingMissed == NoGap /\ UploadComplete

(* README.md of the agent: the first sync uploads the history of 365 days,    *)
(* later ones what is newer than the last saved punch.  So what is within 365 *)
(* days and older than the last saved punch is saved, as long as no upload    *)
(* was limited to dates.  It fails when a first sync breaks off between two   *)
(* batches: the next ones leave out what is older than 93 days.               *)
NoGapInAYear ==
  whole /\ Watermark # None => {i \in Young(FALSE) : log[i] < Watermark} \subseteq stored

(* A queued request is closed in the end, whatever was lost on the way.       *)
RequestsClosed ==
  \A k \in 1..MaxAsks :
    (k \in DOMAIN rows /\ ~rows[k].done) ~> (k \in DOMAIN rows /\ rows[k].done)

(* A request that is marked as carried out (acknowledged_at) was carried out: *)
(* the punches it asks for, of those on the device at the last click, are on  *)
(* the server.                                                                *)
RequestServed ==
  \A k \in DOMAIN rows :
    rows[k].done => Wanted(rows[k].range, rows[k].upto, FALSE) \subseteq stored
=============================================================================
