-------------------------- MODULE AttendanceProofs --------------------------
(* Of the attendance, for every number of devices, agents, workers, records   *)
(* and punches:                                                               *)
(*   PunchSync       NoPunchMissed         the agent's watermark hides nothing *)
(*   DirectPull      WhatIsPulledIsStored  nor does the one of a direct pull   *)
(*   DeviceRegistry  OneNumberForEach, PunchesFollow                           *)
(*   AttendanceDay   DayIsRight                                                *)
(* Each part states its inductive invariant, proves that the steps keep it    *)
(* one by one, and ends in its theorem.                                       *)
EXTENDS PunchSync, DeviceRegistry, DirectPull, AttendanceDay,
        FiniteSetTheorems, SequenceTheorems, TLAPS

(* A set of numbers has a least one, and a bounded one a greatest.           *)
LEMMA MinOfNats ==
  ASSUME NEW S \in SUBSET Nat, S # {}
  PROVE  Min(S) \in S /\ \A y \in S : Min(S) <= y
<1> DEFINE Less == {ss \in Nat \X Nat : ss[1] < ss[2]}
<1>1. IsWellFoundedOn(Less, Nat)
  BY NatLessThanWellFounded DEF OpToRel
<1>2. \E x \in S : \A y \in S : ~(<<y, x>> \in Less)
  <2> HIDE DEF Less
  <2> QED
    BY <1>1, WFMin
<1>3. PICK x \in S : \A y \in S : ~(<<y, x>> \in Less)
  BY <1>2
<1>4. ASSUME NEW y \in S PROVE x <= y
  <2>1. ~(<<y, x>> \in Less)
    BY <1>3
  <2> QED
    BY <2>1
<1> QED
  BY <1>4 DEF Min

LEMMA MaxOfNats ==
  ASSUME NEW n \in Nat, NEW S \in SUBSET (0..n), S # {}
  PROVE  Max(S) \in S /\ \A y \in S : y <= Max(S)
<1> DEFINE T == {n - y : y \in S}
<1>1. T \in SUBSET Nat
  OBVIOUS
<1>2. T # {}
  OBVIOUS
<1>3. Min(T) \in T /\ \A y \in T : Min(T) <= y
  BY <1>1, <1>2, MinOfNats
<1>4. PICK m \in S : Min(T) = n - m
  BY <1>3
<1>5. ASSUME NEW y \in S PROVE m >= y
  <2>1. n - y \in T
    OBVIOUS
  <2>2. n - m <= n - y
    BY <1>3, <1>4, <2>1
  <2> QED
    BY <2>2
<1> QED
  BY <1>5 DEF Max

(***************************************************************************)
(* PunchSync: no punch is missed.                                          *)
(***************************************************************************)
(* What a request asks for, and what a post carries that is not stored yet.   *)
Sought(req) == IF req = None THEN Full ELSE req
InFlight(p) ==
  IF post[p] # None /\ post[p].stage \in {"sent", "read"} THEN post[p].rows ELSE {}

(* The types, and that a batch and a plan are of the log they were cut from. *)
SyncTypes ==
  /\ now \in 0..MaxTime /\ log \in Seq(0..MaxTime) /\ Len(log) <= MaxPunches
  /\ stored \subseteq Indices /\ rows \in Seq(Row) /\ whole \in BOOLEAN
  /\ agent \in Cycle /\ post \in [Posts -> Post \cup {None}]
  /\ agent.snap <= Len(log) /\ agent.todo \subseteq 1..agent.snap
  /\ \A p \in Posts : post[p] # None =>
       /\ post[p].snap <= Len(log) /\ post[p].rows \subseteq 1..post[p].snap
       /\ post[p].inc => post[p].req = None
       /\ post[p].kind = "ack" => post[p].rows = {} /\ post[p].last

(* The device records in the order of time.                                   *)
LogInOrder ==
  /\ \A i, j \in Indices : i <= j => log[i] <= log[j]
  /\ \A i \in Indices : log[i] <= now

(* The agent waits for the answer to its own post, and acknowledges what was  *)
(* asked for when nothing is left to upload.                                  *)
CycleOrder ==
  /\ agent.stage = "waiting" =>
       /\ agent.slot \in Posts /\ post[agent.slot] # None
       /\ post[agent.slot].kind = "ingest" /\ post[agent.slot].req = agent.req
       /\ post[agent.slot].snap = agent.snap /\ post[agent.slot].inc = agent.inc
       /\ post[agent.slot].last => agent.todo = {}
  /\ agent.stage \notin {"sending", "waiting"} => agent.todo = {}
  /\ agent.stage \in {"acking", "ackwait"} => agent.req # None
  /\ agent.stage = "ackwait" => agent.slot \in Posts
  /\ agent.inc => agent.req = None

(* As long as no upload was limited to dates the server has, of the punches   *)
(* of the last 93 days, a beginning, and a batch on its way goes on from it.  *)
NoHoles == whole => \A j \in stored : (1..j) \cap Young(TRUE) \subseteq stored
PostsFollow ==
  whole => \A p \in Posts :
    post[p] # None /\ post[p].req \in {None, Full}
      => \A j \in InFlight(p) : (1..j) \cap Young(TRUE) \subseteq stored \cup InFlight(p)

(* What a cycle set out to upload is on the server, still to be sent or on    *)
(* its way; with a last batch it is on the server or in that batch.           *)
AgentCovers ==
  (agent.stage \in {"sending", "waiting", "acking", "ackwait"} /\ (whole \/ agent.req # None))
    => Wanted(Sought(agent.req), agent.snap, agent.inc) \subseteq
         stored \cup agent.todo \cup (IF agent.stage = "waiting" THEN InFlight(agent.slot) ELSE {})
PostsCover ==
  \A p \in Posts :
    (post[p] # None /\ post[p].last /\ (whole \/ post[p].req # None))
      => Wanted(Sought(post[p].req), post[p].snap, post[p].inc) \subseteq stored \cup InFlight(p)

SyncInv ==
  /\ SyncTypes /\ LogInOrder /\ CycleOrder
  /\ NoHoles /\ PostsFollow /\ AgentCovers /\ PostsCover

(* The times of the log, and the punches the server has, are numbers.         *)
LEMMA LogTyped ==
  ASSUME SyncTypes
  PROVE  /\ Len(log) \in Nat /\ stored \subseteq 1..Len(log)
         /\ \A i \in 1..Len(log) : log[i] \in 0..MaxTime /\ log[i] \in Nat
<1>1. log \in Seq(0..MaxTime) /\ stored \subseteq Indices
  BY DEF SyncTypes
<1> QED
  BY <1>1, SyncAssumption DEF Indices

(* What is young enough for an incremental upload is so for any.              *)
LEMMA YoungTyped ==
  ASSUME SyncTypes
  PROVE  /\ Young(TRUE) \subseteq Indices /\ Young(FALSE) \subseteq Indices
         /\ \A inc \in BOOLEAN : Young(TRUE) \subseteq Young(inc)
<1>1. now \in Int /\ \A i \in Indices : log[i] \in Int
  BY LogTyped, SyncAssumption DEF SyncTypes, Indices
<1>2. Young(TRUE) \subseteq Young(FALSE)
  BY <1>1, SyncAssumption DEF Young, Age, Indices
<1> QED
  BY <1>2 DEF Young, Indices

(* What the agent sets out to upload is of the log it has read.               *)
LEMMA WantedInLog ==
  ASSUME NEW range, NEW snap \in Nat, NEW inc
  PROVE  Wanted(range, snap, inc) \subseteq 1..snap
BY DEF Wanted, InRange, Young, Indices

(* A request without dates wants all of the log that is young enough.         *)
LEMMA FullWantsAll ==
  ASSUME SyncTypes, NEW snap \in Nat, snap <= Len(log), NEW inc
  PROVE  Wanted(Full, snap, inc) = (1..snap) \cap Young(inc)
<1>1. InRange(Full, snap) = 1..snap
  BY SyncAssumption DEF InRange, Full, SyncTypes
<1> QED
  BY <1>1 DEF Wanted, InRange, Young, Indices

(* As the log grows and time passes, no more is wanted of what was read.      *)
LEMMA WantedShrinks ==
  ASSUME SyncTypes, NEW range, NEW snap \in Nat, snap <= Len(log), NEW inc \in BOOLEAN,
         \A i \in 1..snap : log'[i] = log[i], now' \in Nat, now <= now'
  PROVE  Wanted(range, snap, inc)' \subseteq Wanted(range, snap, inc)
<1>1. now \in Int /\ \A i \in 1..snap : log[i] \in Int /\ i \in Indices
  BY LogTyped, SyncAssumption DEF SyncTypes, Indices
<1> QED
  BY <1>1, SyncAssumption DEF Wanted, InRange, Young, Age, Indices

(* The watermark is the time of a punch the server has.                       *)
LEMMA WatermarkStored ==
  ASSUME SyncTypes, Watermark # None
  PROVE  \E j \in stored : log[j] = Watermark
<1> DEFINE S == {log[i] : i \in stored}
<1>1. stored # {} /\ Watermark = Max(S)
  BY DEF Watermark
<1>2. S \in SUBSET (0..MaxTime) /\ S # {}
  BY <1>1, LogTyped
<1>3. Max(S) \in S
  BY <1>2, MaxOfNats, SyncAssumption
<1> QED
  BY <1>1, <1>3

(* With no hole, what is older than the watermark, and young enough, is       *)
(* stored.                                                                    *)
LEMMA OlderIsStored ==
  ASSUME SyncTypes, LogInOrder, NoHoles, whole, Watermark # None,
         NEW i \in Young(TRUE), log[i] < Watermark
  PROVE  i \in stored
<1>1. PICK j \in stored : log[j] = Watermark
  BY WatermarkStored
<1>2. j \in Indices /\ i \in Indices /\ log[i] \in Nat /\ log[j] \in Nat
  BY LogTyped, YoungTyped DEF Indices
<1>3. i < j
  BY <1>1, <1>2, LogTyped DEF LogInOrder, Indices
<1>4. i \in 1..j
  BY <1>2, <1>3, LogTyped DEF Indices
<1>5. (1..j) \cap Young(TRUE) \subseteq stored
  BY DEF NoHoles
<1> QED
  BY <1>4, <1>5

(* So is what an incremental cut leaves out.                                  *)
LEMMA CutIsStored ==
  ASSUME SyncTypes, LogInOrder, NoHoles, whole, Watermark # None,
         NEW S, S \subseteq Indices
  PROVE  S \cap Young(TRUE) \subseteq After(S, Watermark) \cup stored
<1> SUFFICES ASSUME NEW i \in S \cap Young(TRUE), i \notin After(S, Watermark) PROVE i \in stored
  OBVIOUS
<1>1. PICK j \in stored : log[j] = Watermark
  BY WatermarkStored
<1>2. log[i] \in Nat /\ Watermark \in Nat
  BY <1>1, LogTyped DEF Indices
<1>3. log[i] < Watermark
  BY <1>2, SyncAssumption DEF After
<1> QED
  BY <1>3, OlderIsStored

(* What a post still carries is of the log.                                   *)
LEMMA PostTyped ==
  ASSUME SyncTypes, NEW p \in Posts, post[p] # None
  PROVE  /\ post[p] \in Post /\ post[p].snap \in Nat /\ post[p].snap <= Len(log)
         /\ post[p].rows \subseteq 1..post[p].snap
         /\ InFlight(p) \subseteq 1..post[p].snap
<1>1. post[p] \in Post
  BY DEF SyncTypes
<1>2. post[p].snap \in Nat
  BY <1>1, SyncAssumption DEF Post
<1> QED
  BY <1>1, <1>2 DEF SyncTypes, InFlight

LEMMA AgentTyped ==
  ASSUME SyncTypes
  PROVE  /\ agent \in Cycle /\ agent.snap \in Nat /\ agent.snap <= Len(log)
         /\ agent.todo \subseteq 1..agent.snap
<1>1. agent \in Cycle
  BY DEF SyncTypes
<1> QED
  BY <1>1, SyncAssumption DEF SyncTypes, Cycle

(* Time passes, or the device records another punch: what was stored, on its  *)
(* way or to be uploaded stays so, and nothing becomes young again.           *)
LEMMA TimeKeeps ==
  ASSUME SyncInv, UNCHANGED <<stored, rows, agent, post, whole>>, SyncTypes', LogInOrder',
         now <= now', Len(log) <= Len(log'), \A i \in 1..Len(log) : log'[i] = log[i]
  PROVE  SyncInv'
<1> USE DEF SyncInv
<1>1. now \in Int /\ now' \in Nat /\ \A i \in 1..Len(log) : log[i] \in Int
  BY LogTyped, SyncAssumption DEF SyncTypes
<1>2. \A p \in Posts : InFlight(p)' = InFlight(p)
  BY DEF InFlight
<1>3. \A j \in 1..Len(log) : (1..j) \cap Young(TRUE)' \subseteq (1..j) \cap Young(TRUE)
  BY <1>1, LogTyped, SyncAssumption DEF Young, Age, Indices
<1>4. CycleOrder'
  BY DEF CycleOrder
<1>5. NoHoles'
  BY <1>3, LogTyped DEF NoHoles
<1>6. PostsFollow'
  <2> SUFFICES ASSUME whole, NEW p \in Posts, post[p] # None, post[p].req \in {None, Full},
                      NEW j \in InFlight(p)
               PROVE  (1..j) \cap Young(TRUE)' \subseteq stored \cup InFlight(p)
    BY <1>2 DEF PostsFollow
  <2>1. j \in 1..Len(log)
    BY PostTyped, LogTyped
  <2> QED
    BY <1>3, <2>1 DEF PostsFollow
<1>7. AgentCovers'
  <2>1. Wanted(Sought(agent.req), agent.snap, agent.inc)'
          \subseteq Wanted(Sought(agent.req), agent.snap, agent.inc)
    <3>1. agent.inc \in BOOLEAN /\ \A i \in 1..agent.snap : log'[i] = log[i]
      BY AgentTyped, LogTyped DEF Cycle
    <3>2. UNCHANGED <<agent.snap, agent.inc>> /\ Sought(agent.req)' = Sought(agent.req)
      BY DEF Sought
    <3> QED
      BY <1>1, <3>1, <3>2, AgentTyped, WantedShrinks DEF Wanted, InRange, Young, Indices
  <2> QED
    BY <1>2, <2>1 DEF AgentCovers, InFlight
<1>8. PostsCover'
  <2> SUFFICES ASSUME NEW p \in Posts, post[p] # None
               PROVE  Wanted(Sought(post[p].req), post[p].snap, post[p].inc)'
                        \subseteq Wanted(Sought(post[p].req), post[p].snap, post[p].inc)
    BY <1>2 DEF PostsCover
  <2>1. post[p].inc \in BOOLEAN /\ \A i \in 1..post[p].snap : log'[i] = log[i]
    BY PostTyped, LogTyped DEF Post
  <2>2. UNCHANGED <<post[p].snap, post[p].inc>> /\ Sought(post[p].req)' = Sought(post[p].req)
    BY DEF Sought
  <2> QED
    BY <1>1, <2>1, <2>2, PostTyped, WantedShrinks DEF Wanted, InRange, Young, Indices
<1> QED
  BY <1>4, <1>5, <1>6, <1>7, <1>8

LEMMA TickKeeps ==
  ASSUME SyncInv, Tick
  PROVE  SyncInv'
<1> USE DEF SyncInv
<1>1. now' = now + 1 /\ now' \in 0..MaxTime /\ now \in Nat
      /\ UNCHANGED <<log, stored, rows, agent, post, whole>>
  BY SyncAssumption DEF Tick, SyncTypes
<1>2. SyncTypes'
  BY <1>1 DEF SyncTypes, Indices
<1>3. LogInOrder'
  BY <1>1, LogTyped DEF LogInOrder, Indices
<1> QED
  BY <1>1, <1>2, <1>3, LogTyped, TimeKeeps

LEMMA PunchKeeps ==
  ASSUME SyncInv, Punch
  PROVE  SyncInv'
<1> USE DEF SyncInv
<1>1. /\ log' \in Seq(0..MaxTime) /\ Len(log') = Len(log) + 1 /\ Len(log') <= MaxPunches
      /\ \A i \in 1..Len(log) : log'[i] = log[i]
      /\ log'[Len(log) + 1] = now
  BY LogTyped, SyncAssumption DEF Punch, SyncTypes
<1>2. UNCHANGED <<now, stored, rows, agent, post, whole>> /\ now \in Nat
  BY SyncAssumption DEF Punch, SyncTypes
<1>3. SyncTypes'
  <2>1. stored \subseteq Indices'
    BY <1>1, LogTyped DEF Indices
  <2>2. agent.snap <= Len(log)'
    BY <1>1, LogTyped, AgentTyped
  <2>3. \A p \in Posts : post[p] # None => post[p].snap <= Len(log)'
    BY <1>1, LogTyped, PostTyped
  <2> QED
    BY <1>1, <1>2, <2>1, <2>2, <2>3 DEF SyncTypes
<1>4. \A i \in 1..(Len(log) + 1) : log'[i] <= now
  <2> SUFFICES ASSUME NEW i \in 1..(Len(log) + 1) PROVE log'[i] <= now
    OBVIOUS
  <2>1. CASE i \in 1..Len(log)
    BY <1>1, <2>1 DEF LogInOrder, Indices
  <2>2. CASE i = Len(log) + 1
    BY <1>1, <1>2, <2>2
  <2> QED
    BY <2>1, <2>2, LogTyped
<1>5. LogInOrder'
  <2> SUFFICES ASSUME NEW i \in 1..(Len(log) + 1), NEW j \in 1..(Len(log) + 1), i <= j
               PROVE  log'[i] <= log'[j]
    BY <1>1, <1>2, <1>4 DEF LogInOrder, Indices
  <2>1. CASE j \in 1..Len(log)
    <3>1. i \in 1..Len(log)
      BY <2>1, LogTyped
    <3> QED
      BY <1>1, <2>1, <3>1 DEF LogInOrder, Indices
  <2>2. CASE j = Len(log) + 1
    BY <1>1, <1>4, <2>2
  <2> QED
    BY <2>1, <2>2, LogTyped
<1>6. now <= now' /\ Len(log) <= Len(log')
  BY <1>1, <1>2, LogTyped
<1> QED
  BY <1>1, <1>2, <1>3, <1>5, <1>6, TimeKeeps

(* A click changes the requests only.                                         *)
LEMMA ClickKeeps ==
  ASSUME SyncInv, UNCHANGED <<now, log, stored, agent, post, whole>>, rows' \in Seq(Row)
  PROVE  SyncInv'
BY DEF SyncInv, SyncTypes, LogInOrder, CycleOrder, NoHoles, PostsFollow, AgentCovers, PostsCover,
       Indices, InFlight, Wanted, InRange, Young

(* A request that is saved is a request.                                      *)
LEMMA SavedIsRow ==
  ASSUME SyncTypes, NEW u \in Users, NEW range \in Dates, SaveRequest(u, range)
  PROVE  rows' \in Seq(Row)
<1>1. rows \in Seq(Row) /\ Len(log) \in 0..MaxPunches
  BY SyncAssumption DEF SyncTypes
<1>2. CASE web[u] = 0
  <2>1. [range |-> range, done |-> FALSE, upto |-> Len(log)] \in Row
    BY <1>1 DEF Row
  <2> QED
    BY <1>1, <1>2, <2>1 DEF SaveRequest
<1>3. CASE web[u] # 0
  <2>1. rows' = [rows EXCEPT ![web[u]].range = range, ![web[u]].upto = Len(log)]
    BY <1>3 DEF SaveRequest
  <2>2. /\ rows \in [1..Len(rows) -> Row] /\ Len(rows) \in Nat
    BY <1>1
  <2>3. \A k \in 1..Len(rows) : rows'[k] \in Row
    BY <1>1, <2>1, <2>2 DEF Row
  <2>4. rows' \in [1..Len(rows) -> Row]
    BY <2>1, <2>2, <2>3
  <2> QED
    BY <2>2, <2>4, IsASeq
<1> QED
  BY <1>2, <1>3

(* The latest request that is open is one.                                    *)
LEMMA LatestIsOpen ==
  ASSUME SyncTypes, LatestPending # 0
  PROVE  LatestPending \in 1..Len(rows) /\ rows[LatestPending] \in Row
<1> DEFINE S == OpenRows \cup {0}
<1>1. rows \in Seq(Row) /\ Len(rows) \in Nat
  BY DEF SyncTypes
<1>2. S \in SUBSET (0..Len(rows)) /\ S # {}
  BY <1>1 DEF OpenRows
<1>3. Max(S) \in S
  BY <1>1, <1>2, MaxOfNats
<1>4. LatestPending \in OpenRows
  BY <1>3 DEF LatestPending
<1> QED
  BY <1>1, <1>4 DEF OpenRows

(* An agent that goes to sleep, or starts anew, has nothing to cover.         *)
LEMMA RestKeeps ==
  ASSUME SyncInv, UNCHANGED <<now, log, stored, rows, whole>>,
         agent' \in Cycle, agent'.stage \in {"idle", "listed", "fetched"},
         agent'.inc => agent'.req = None,
         agent'.snap <= Len(log), agent'.todo = {},
         \A p \in Posts : post'[p] \in {post[p], None}, post' \in [Posts -> Post \cup {None}]
  PROVE  SyncInv'
<1> USE DEF SyncInv
<1>1. SyncTypes'
  BY DEF SyncTypes, Indices
<1>2. LogInOrder' /\ NoHoles' /\ CycleOrder' /\ AgentCovers'
  BY DEF LogInOrder, NoHoles, Young, CycleOrder, AgentCovers, Indices
<1>3. \A p \in Posts : post'[p] # None => post'[p] = post[p] /\ InFlight(p)' = InFlight(p)
  BY DEF InFlight
<1>4. PostsFollow'
  <2> SUFFICES ASSUME whole, NEW p \in Posts, post'[p] # None, post'[p].req \in {None, Full},
                      NEW j \in InFlight(p)'
               PROVE  (1..j) \cap Young(TRUE) \subseteq stored \cup InFlight(p)'
    BY DEF PostsFollow, Young, Indices
  <2> QED
    BY <1>3 DEF PostsFollow
<1>5. PostsCover'
  BY <1>3 DEF PostsCover, Wanted, InRange, Young, Indices
<1> QED
  BY <1>1, <1>2, <1>4, <1>5

LEMMA AsleepIsCycle == Asleep \in Cycle /\ Asleep.snap = 0 /\ Asleep.todo = {}
                       /\ Asleep.stage = "idle" /\ ~Asleep.inc
BY SyncAssumption DEF Asleep, Cycle

LEMMA ListPullsKeeps ==
  ASSUME SyncInv, ListPulls
  PROVE  SyncInv'
<1> USE DEF SyncInv
<1>1. PICK k \in {LatestPending, 0} :
        agent' = [Asleep EXCEPT !.stage = "listed",
                                !.req = IF k = 0 THEN None ELSE rows[k].range]
  BY DEF ListPulls
<1>2. PICK r \in Dates \cup {None} : agent' = [Asleep EXCEPT !.stage = "listed", !.req = r]
  BY <1>1, LatestIsOpen DEF Row
<1>3. agent' \in Cycle /\ agent'.stage = "listed" /\ agent'.snap = 0 /\ agent'.todo = {}
      /\ ~agent'.inc
  <2> HIDE DEF Asleep
  <2> QED
    BY <1>2, AsleepIsCycle DEF Cycle
<1>4. UNCHANGED <<now, log, stored, rows, post, whole>> /\ post \in [Posts -> Post \cup {None}]
  BY DEF ListPulls, SyncTypes
<1> QED
  BY <1>3, <1>4, RestKeeps, LogTyped

LEMMA FetchDeviceKeeps ==
  ASSUME SyncInv, FetchDevice
  PROVE  SyncInv'
<1> USE DEF SyncInv
<1>1. agent.todo = {}
  BY DEF FetchDevice, CycleOrder
<1>2. Len(log) \in 0..MaxPunches
  BY LogTyped, SyncAssumption DEF SyncTypes
<1>3. agent' = [agent EXCEPT !.stage = "fetched", !.snap = Len(log)]
  BY DEF FetchDevice
<1>4. agent' \in Cycle /\ agent'.stage = "fetched" /\ agent'.snap = Len(log)
      /\ agent'.todo = {} /\ agent'.inc = agent.inc /\ agent'.req = agent.req
  BY <1>1, <1>2, <1>3, AgentTyped DEF Cycle
<1>5. UNCHANGED <<now, log, stored, rows, post, whole>> /\ post \in [Posts -> Post \cup {None}]
  BY DEF FetchDevice, SyncTypes
<1> QED
  BY <1>4, <1>5, RestKeeps, LogTyped DEF CycleOrder

(* A cycle that fails, and a post that is lost.                               *)
LEMMA CycleFailsKeeps ==
  ASSUME SyncInv, CycleFails
  PROVE  SyncInv'
<1> USE DEF SyncInv
<1>1. UNCHANGED <<now, log, stored, rows, whole>> /\ agent' = Asleep
  BY DEF CycleFails
<1>2. /\ post' \in [Posts -> Post \cup {None}]
      /\ \A p \in Posts : post'[p] \in {post[p], None}
  BY DEF CycleFails, SyncTypes
<1> QED
  BY <1>1, <1>2, AsleepIsCycle, RestKeeps, LogTyped

(* The agent goes on to its acknowledgement when everything is on the server. *)
LEMMA AckingKeeps ==
  ASSUME SyncInv, UNCHANGED <<now, log, stored, rows, whole>>,
         agent' \in Cycle, agent'.stage = "acking", agent'.todo = {},
         agent'.req = agent.req, agent.req # None, agent'.snap = agent.snap,
         agent'.inc = agent.inc,
         Wanted(Sought(agent.req), agent.snap, agent.inc) \subseteq stored,
         \A p \in Posts : post'[p] \in {post[p], None}, post' \in [Posts -> Post \cup {None}]
  PROVE  SyncInv'
<1> USE DEF SyncInv
<1>1. SyncTypes'
  BY AgentTyped DEF SyncTypes, Indices
<1>2. LogInOrder' /\ NoHoles' /\ CycleOrder'
  BY DEF LogInOrder, NoHoles, Young, CycleOrder, Indices
<1>3. \A p \in Posts : post'[p] # None => post'[p] = post[p] /\ InFlight(p)' = InFlight(p)
  BY DEF InFlight
<1>4. PostsFollow'
  <2> SUFFICES ASSUME whole, NEW p \in Posts, post'[p] # None, post'[p].req \in {None, Full},
                      NEW j \in InFlight(p)'
               PROVE  (1..j) \cap Young(TRUE) \subseteq stored \cup InFlight(p)'
    BY DEF PostsFollow, Young, Indices
  <2> QED
    BY <1>3 DEF PostsFollow
<1>5. PostsCover'
  BY <1>3 DEF PostsCover, Wanted, InRange, Young, Indices
<1>6. AgentCovers'
  BY DEF AgentCovers, Wanted, InRange, Young, Sought, Indices
<1> QED
  BY <1>1, <1>2, <1>4, <1>5, <1>6

LEMMA NothingToSendKeeps ==
  ASSUME SyncInv, NothingToSend
  PROVE  SyncInv'
<1> USE DEF SyncInv
<1>1. /\ UNCHANGED <<now, log, stored, rows, post, whole>> /\ agent.stage = "sending"
      /\ agent.todo = {} /\ post \in [Posts -> Post \cup {None}]
  BY DEF NothingToSend, SyncTypes
<1>2. CASE agent.req = None
  BY <1>1, <1>2, AsleepIsCycle, RestKeeps, LogTyped DEF NothingToSend
<1>3. CASE agent.req # None
  <2>1. agent' = [agent EXCEPT !.stage = "acking"]
    BY <1>3 DEF NothingToSend
  <2>2. agent' \in Cycle /\ agent'.stage = "acking" /\ agent'.todo = {}
        /\ agent'.req = agent.req /\ agent'.snap = agent.snap /\ agent'.inc = agent.inc
    BY <1>1, <2>1, AgentTyped DEF Cycle
  <2>3. Wanted(Sought(agent.req), agent.snap, agent.inc) \subseteq stored
    BY <1>1, <1>3 DEF AgentCovers
  <2> QED
    BY <1>1, <1>3, <2>2, <2>3, AckingKeeps
<1> QED
  BY <1>2, <1>3

LEMMA ReceiveReplyKeeps ==
  ASSUME SyncInv, ReceiveReply
  PROVE  SyncInv'
<1> USE DEF SyncInv
<1> DEFINE q == agent.slot
<1>1. /\ UNCHANGED <<now, log, stored, rows, whole>> /\ q \in Posts
      /\ post[q] # None /\ post[q].stage = "answered"
      /\ post' = [post EXCEPT ![q] = None]
  BY DEF ReceiveReply, Answered, CycleOrder
<1>2. /\ post' \in [Posts -> Post \cup {None}]
      /\ \A p \in Posts : post'[p] \in {post[p], None}
      /\ \A p \in Posts \ {q} : post'[p] = post[p]
      /\ post'[q] = None
  BY <1>1 DEF SyncTypes
<1>3. CASE agent' = Asleep
  BY <1>1, <1>2, <1>3, AsleepIsCycle, RestKeeps, LogTyped
<1>4. CASE agent.stage = "waiting" /\ post[q].last /\ agent.req # None
  <2>1. agent' = [agent EXCEPT !.stage = "acking", !.slot = None]
    BY <1>4 DEF ReceiveReply
  <2>2. agent.todo = {} /\ InFlight(q) = {}
    BY <1>1, <1>4 DEF CycleOrder, InFlight
  <2>3. agent' \in Cycle /\ agent'.stage = "acking" /\ agent'.todo = {}
        /\ agent'.req = agent.req /\ agent'.snap = agent.snap /\ agent'.inc = agent.inc
    BY <2>1, <2>2, AgentTyped DEF Cycle
  <2>4. Wanted(Sought(agent.req), agent.snap, agent.inc) \subseteq stored
    BY <1>4, <2>2 DEF AgentCovers
  <2> QED
    BY <1>1, <1>2, <1>4, <2>3, <2>4, AckingKeeps
<1>5. CASE agent.stage = "waiting" /\ ~post[q].last
  <2>1. agent' = [agent EXCEPT !.stage = "sending", !.slot = None]
    BY <1>5 DEF ReceiveReply
  <2>2. agent' \in Cycle /\ agent'.stage = "sending" /\ agent'.todo = agent.todo
        /\ agent'.req = agent.req /\ agent'.snap = agent.snap /\ agent'.inc = agent.inc
    BY <2>1, AgentTyped DEF Cycle
  <2>3. SyncTypes'
    BY <1>1, <1>2, <2>2 DEF SyncTypes, Indices
  <2>4. LogInOrder' /\ NoHoles' /\ CycleOrder'
    BY <1>1, <2>2 DEF LogInOrder, NoHoles, Young, CycleOrder, Indices
  <2>5. InFlight(q) = {}
    BY <1>1 DEF InFlight
  <2>6. AgentCovers'
    BY <1>1, <1>5, <2>2, <2>5 DEF AgentCovers, Wanted, InRange, Young, Sought, Indices
  <2>7. \A p \in Posts : post'[p] # None => post'[p] = post[p] /\ InFlight(p)' = InFlight(p)
    BY <1>2 DEF InFlight
  <2>8. PostsFollow'
    BY <1>1, <2>7 DEF PostsFollow, Young, Indices
  <2>9. PostsCover'
    BY <1>1, <2>7 DEF PostsCover, Wanted, InRange, Young, Indices
  <2> QED
    BY <2>3, <2>4, <2>6, <2>8, <2>9
<1> QED
  BY <1>3, <1>4, <1>5 DEF ReceiveReply

(* A post that is free is one of the agent's.                                 *)
LEMMA FreeIsFree ==
  ASSUME SomePostFree
  PROVE  FreePost \in Posts /\ post[FreePost] = None
BY DEF SomePostFree, FreePost

LEMMA SendAckKeeps ==
  ASSUME SyncInv, SendAck
  PROVE  SyncInv'
<1> USE DEF SyncInv
<1> DEFINE m == [kind |-> "ack", stage |-> "sent", rows |-> {}, inc |-> FALSE, last |-> TRUE,
                 req |-> agent.req, snap |-> agent.snap]
<1>1. PICK q \in Posts :
      /\ UNCHANGED <<now, log, stored, rows, whole>> /\ agent.stage = "acking"
      /\ post[q] = None /\ post' = [post EXCEPT ![q] = m]
      /\ agent' = [agent EXCEPT !.stage = "ackwait", !.slot = q]
  BY FreeIsFree DEF SendAck
<1>2. agent \in Cycle /\ agent.todo = {} /\ agent.req # None
  BY <1>1, AgentTyped DEF CycleOrder
<1>3. m \in Post
  BY <1>2 DEF Post, Cycle
<1>4. /\ post' \in [Posts -> Post \cup {None}] /\ post'[q] = m
      /\ \A p \in Posts \ {q} : post'[p] = post[p]
  BY <1>1, <1>3 DEF SyncTypes
<1>5. /\ agent' \in Cycle /\ agent'.stage = "ackwait" /\ agent'.todo = {}
      /\ agent'.req = agent.req /\ agent'.snap = agent.snap /\ agent'.inc = agent.inc /\ agent'.slot = q
  BY <1>1, <1>2 DEF Cycle
<1>6. SyncTypes'
  BY <1>1, <1>4, <1>5, AgentTyped DEF SyncTypes, Indices
<1>7. LogInOrder' /\ NoHoles' /\ CycleOrder'
  BY <1>1, <1>2, <1>5 DEF LogInOrder, NoHoles, Young, CycleOrder, Indices
<1>8. AgentCovers'
  BY <1>1, <1>2, <1>5 DEF AgentCovers, Wanted, InRange, Young, Sought, Indices
<1>9. InFlight(q)' = {} /\ \A p \in Posts \ {q} : InFlight(p)' = InFlight(p)
  BY <1>3, <1>4, SyncAssumption DEF InFlight
<1>10. PostsFollow'
  <2> SUFFICES ASSUME whole, NEW p \in Posts, post'[p] # None, post'[p].req \in {None, Full},
                      NEW j \in InFlight(p)'
               PROVE  (1..j) \cap Young(TRUE) \subseteq stored \cup InFlight(p)'
    BY <1>1 DEF PostsFollow, Young, Indices
  <2> QED
    BY <1>4, <1>9 DEF PostsFollow
<1>11. PostsCover'
  <2> SUFFICES ASSUME NEW p \in Posts, post'[p] # None, post'[p].last, whole \/ post'[p].req # None
               PROVE  Wanted(Sought(post'[p].req), post'[p].snap, post'[p].inc) \subseteq stored \cup InFlight(p)'
    BY <1>1 DEF PostsCover, Wanted, InRange, Young, Sought, Indices
  <2>1. CASE p = q
    <3>1. post'[p].req = agent.req /\ post'[p].snap = agent.snap /\ post'[p].inc = agent.inc
      <4>1. agent.inc \in BOOLEAN /\ ~agent.inc
        BY <1>2 DEF CycleOrder, Cycle
      <4>2. agent.inc = FALSE
        BY <4>1
      <4>3. m.req = agent.req /\ m.snap = agent.snap /\ m.inc = FALSE
        OBVIOUS
      <4> HIDE DEF m
      <4> QED
        BY <1>4, <2>1, <4>2, <4>3
    <3> QED
      BY <1>1, <1>2, <3>1 DEF AgentCovers
  <2>2. CASE p # q
    BY <1>4, <1>9, <2>2 DEF PostsCover
  <2> QED
    BY <2>1, <2>2
<1> QED
  BY <1>6, <1>7, <1>8, <1>10, <1>11

(* The next batch leaves: the beginning of what is left to upload.            *)
LEMMA SendChunkKeeps ==
  ASSUME SyncInv, SendChunk
  PROVE  SyncInv'
<1> USE DEF SyncInv
<1> DEFINE m(B) == [kind |-> "ingest", stage |-> "sent", rows |-> B, inc |-> agent.inc,
                    last |-> B = agent.todo, req |-> agent.req, snap |-> agent.snap]
<1>1. PICK q \in Posts, B \in Chunks(agent.todo) :
        /\ post[q] = None
        /\ post' = [post EXCEPT ![q] = m(B)]
        /\ agent' = [agent EXCEPT !.stage = "waiting", !.todo = @ \ B, !.slot = q]
  BY FreeIsFree DEF SendChunk
<1>2. UNCHANGED <<now, log, stored, rows, whole>> /\ agent.stage = "sending"
  BY DEF SendChunk
<1>3. agent \in Cycle
  BY AgentTyped
<1>4. B \subseteq agent.todo /\ \A i \in B, j \in agent.todo \ B : i < j
  BY DEF Chunks
<1>5. m(B) \in Post
  BY <1>3, <1>4 DEF Post, Cycle
<1>6. /\ post' \in [Posts -> Post \cup {None}] /\ post'[q] = m(B)
      /\ \A p \in Posts \ {q} : post'[p] = post[p]
  BY <1>1, <1>2, <1>5 DEF SyncTypes
<1>7. /\ agent' \in Cycle /\ agent'.stage = "waiting" /\ agent'.todo = agent.todo \ B
      /\ agent'.req = agent.req /\ agent'.snap = agent.snap /\ agent'.inc = agent.inc /\ agent'.slot = q
  BY <1>1, <1>2, <1>3 DEF Cycle
<1>0. post'[q].last => agent.todo \subseteq B
  <2>1. m(B).last <=> (B = agent.todo)
    OBVIOUS
  <2> HIDE DEF m
  <2> QED
    BY <1>6, <2>1
<1>8. m(B) # None /\ InFlight(q)' = B /\ \A p \in Posts \ {q} : InFlight(p)' = InFlight(p)
  BY <1>5, <1>6, SyncAssumption DEF InFlight
<1>9. SyncTypes'
  <2>1. /\ post'[q].snap = agent.snap /\ post'[q].rows = B /\ post'[q].kind = "ingest"
        /\ post'[q].inc => post'[q].req = None
    BY <1>6 DEF CycleOrder
  <2> HIDE DEF m
  <2> QED
    BY <1>2, <1>4, <1>6, <1>7, <2>1, AgentTyped DEF SyncTypes, Indices
<1>10. LogInOrder' /\ NoHoles' /\ CycleOrder'
  BY <1>0, <1>2, <1>4, <1>6, <1>7, <1>8 DEF LogInOrder, NoHoles, Young, Age, CycleOrder, Indices
<1>11. (whole \/ agent.req # None)
         => Wanted(Sought(agent.req), agent.snap, agent.inc) \subseteq stored \cup agent.todo
  BY <1>2 DEF AgentCovers
<1>12. AgentCovers'
  BY <1>2, <1>7, <1>8, <1>11 DEF AgentCovers, Wanted, InRange, Young, Sought, Indices
<1>13. PostsFollow'
  <2> SUFFICES ASSUME whole, NEW p \in Posts, post'[p] # None, post'[p].req \in {None, Full},
                      NEW j \in InFlight(p)', NEW i \in (1..j) \cap Young(TRUE)
               PROVE  i \in stored \cup InFlight(p)'
    BY <1>2 DEF PostsFollow, Young, Indices
  <2>1. CASE p # q
    BY <1>6, <1>8, <2>1 DEF PostsFollow
  <2>2. CASE p = q
    <3>1. j \in B /\ i \in 1..agent.snap /\ j \in Nat /\ ~(j < i)
      BY <1>4, <1>8, <2>2, AgentTyped
    <3>2. Sought(agent.req) = Full
      BY <1>6, <2>2 DEF Sought
    <3>3. i \in stored \cup agent.todo
      <4>1. i \in Young(agent.inc)
        BY <1>3, YoungTyped DEF Cycle
      <4> QED
        BY <1>6, <1>11, <2>2, <3>1, <3>2, <4>1, FullWantsAll, AgentTyped
    <3> QED
      BY <1>4, <1>8, <2>2, <3>1, <3>3
  <2> QED
    BY <2>1, <2>2
<1>14. PostsCover'
  <2> SUFFICES ASSUME NEW p \in Posts, post'[p] # None, post'[p].last, whole \/ post'[p].req # None
               PROVE  Wanted(Sought(post'[p].req), post'[p].snap, post'[p].inc) \subseteq stored \cup InFlight(p)'
    BY <1>2 DEF PostsCover, Wanted, InRange, Young, Sought, Indices
  <2>1. CASE p = q
    <3>1. post'[p].req = agent.req /\ post'[p].snap = agent.snap /\ post'[p].inc = agent.inc
      BY <1>6, <2>1
    <3> QED
      BY <1>0, <1>8, <1>11, <2>1, <3>1
  <2>2. CASE p # q
    BY <1>6, <1>8, <2>2 DEF PostsCover
  <2> QED
    BY <2>1, <2>2
<1> QED
  BY <1>9, <1>10, <1>12, <1>13, <1>14

(* The cut of the agent leaves out nothing that is not on the server, unless  *)
(* an upload was limited to dates.                                            *)
LEMMA PlanUploadKeeps ==
  ASSUME SyncInv, PlanUpload
  PROVE  SyncInv'
<1> USE DEF SyncInv
<1>1. /\ UNCHANGED <<now, log, stored, rows, post, whole>> /\ agent.stage = "fetched"
      /\ post \in [Posts -> Post \cup {None}]
  BY DEF PlanUpload, SyncTypes
<1>2. PICK w \in {Watermark, None} :
        LET inc == agent.req = None /\ w # None
            want == Wanted(Sought(agent.req), agent.snap, inc)
            todo == IF inc THEN After(want, w) ELSE want
        IN agent' = IF inc /\ todo = {} THEN Asleep
                    ELSE [agent EXCEPT !.stage = "sending", !.todo = todo, !.inc = inc]
  BY DEF PlanUpload, Sought
<1> DEFINE inc == agent.req = None /\ w # None
           want == Wanted(Sought(agent.req), agent.snap, inc)
           todo == IF inc THEN After(want, w) ELSE want
<1>3. want \subseteq 1..agent.snap /\ want \subseteq Indices /\ want \subseteq 1..MaxPunches
  <2>1. want \subseteq 1..agent.snap
    BY WantedInLog, AgentTyped
  <2>2. agent.snap <= Len(log) /\ Len(log) <= MaxPunches /\ agent.snap \in Nat
    BY AgentTyped DEF SyncTypes
  <2> QED
    BY <2>1, <2>2, LogTyped, SyncAssumption DEF Indices
<1>4. todo \subseteq want /\ want \subseteq Young(inc)
  BY DEF After, Wanted, InRange, Young, Indices
<1>5. (whole \/ agent.req # None) => want \subseteq stored \cup todo
  <2>1. CASE inc /\ whole
    <3>1. w = Watermark /\ Watermark # None /\ want \subseteq Young(TRUE)
      BY <1>4, <2>1
    <3> QED
      BY <1>3, <2>1, <3>1, CutIsStored
  <2> QED
    BY <2>1
<1> HIDE DEF todo, want, inc
<1>6. CASE agent' = Asleep
  BY <1>1, <1>6, AsleepIsCycle, RestKeeps, LogTyped
<1>7. CASE agent' = [agent EXCEPT !.stage = "sending", !.todo = todo, !.inc = inc]
  <2>1. /\ agent \in Cycle /\ todo \subseteq 1..agent.snap /\ todo \subseteq 1..MaxPunches
        /\ inc \in BOOLEAN
    BY <1>3, <1>4, AgentTyped DEF inc
  <2>2. /\ agent' \in Cycle /\ agent'.stage = "sending" /\ agent'.todo = todo
        /\ agent'.inc = inc /\ agent'.req = agent.req /\ agent'.snap = agent.snap
    BY <1>7, <2>1 DEF Cycle
  <2>3. SyncTypes'
    BY <1>1, <2>1, <2>2, AgentTyped DEF SyncTypes, Indices
  <2>4. LogInOrder' /\ NoHoles' /\ CycleOrder' /\ PostsFollow' /\ PostsCover'
    BY <1>1, <2>2 DEF inc, LogInOrder, NoHoles, CycleOrder, PostsFollow, PostsCover, Indices,
       InFlight, Wanted, InRange, Young, Sought
  <2>5. AgentCovers'
    BY <1>1, <1>5, <2>2 DEF AgentCovers, Wanted, InRange, Young, Indices, Sought, want
  <2> QED
    BY <2>3, <2>4, <2>5
<1> QED
  BY <1>2, <1>6, <1>7 DEF todo, inc, want

(* A step of the server that serves the post p, or loses it: what p carried   *)
(* and carries no more is on the server.                                      *)
LEMMA ServeKeeps ==
  ASSUME SyncInv, NEW p \in Posts, post[p] # None, UNCHANGED <<now, log, agent>>,
         rows' \in Seq(Row), stored \subseteq stored', stored' \subseteq Indices,
         whole' \in BOOLEAN, whole' => whole, NoHoles',
         NEW m \in Post \cup {None}, post' = [post EXCEPT ![p] = m],
         m = None => agent.slot # p,
         m # None =>
           /\ m.kind = post[p].kind /\ m.req = post[p].req /\ m.snap = post[p].snap
           /\ m.last = post[p].last /\ m.inc = post[p].inc /\ m.rows \subseteq post[p].rows
           /\ InFlight(p)' \subseteq InFlight(p)
           /\ (whole' \/ post[p].req # None)
                => InFlight(p) \cap Young(post[p].inc) \subseteq stored' \cup InFlight(p)'
  PROVE  SyncInv'
<1> USE DEF SyncInv
<1>1. /\ post' \in [Posts -> Post \cup {None}] /\ post'[p] = m
      /\ \A o \in Posts \ {p} : post'[o] = post[o] /\ InFlight(o)' = InFlight(o)
  BY DEF SyncTypes, InFlight
<1>2. \A o \in Posts : post'[o] # None =>
        /\ post[o] # None /\ post'[o].kind = post[o].kind /\ post'[o].req = post[o].req
        /\ post'[o].snap = post[o].snap /\ post'[o].inc = post[o].inc
        /\ post'[o].last = post[o].last /\ post'[o].rows \subseteq post[o].rows
  BY <1>1
<1>3. \A o \in Posts : post'[o] # None =>
        /\ InFlight(o)' \subseteq InFlight(o)
        /\ (whole' \/ post[o].req # None)
             => InFlight(o) \cap Young(post[o].inc) \subseteq stored' \cup InFlight(o)'
  BY <1>1
<1>4. SyncTypes'
  BY <1>1, <1>2 DEF SyncTypes, Indices
<1>5. LogInOrder' /\ CycleOrder'
  BY <1>1, <1>2 DEF LogInOrder, CycleOrder, Indices
<1>6. PostsFollow'
  <2> SUFFICES ASSUME whole', NEW o \in Posts, post'[o] # None, post'[o].req \in {None, Full},
                      NEW j \in InFlight(o)'
               PROVE  (1..j) \cap Young(TRUE) \subseteq stored' \cup InFlight(o)'
    BY DEF PostsFollow, Young, Indices
  <2>1. /\ j \in InFlight(o) /\ post[o].inc \in BOOLEAN
        /\ (1..j) \cap Young(TRUE) \subseteq stored \cup InFlight(o)
    BY <1>2, <1>3, PostTyped DEF PostsFollow, Post
  <2>2. Young(TRUE) \subseteq Young(post[o].inc)
    BY <2>1, YoungTyped
  <2> QED
    BY <1>2, <1>3, <2>1, <2>2
<1>7. PostsCover'
  <2> SUFFICES ASSUME NEW o \in Posts, post'[o] # None, post'[o].last,
                      whole' \/ post'[o].req # None
               PROVE  Wanted(Sought(post[o].req), post[o].snap, post[o].inc) \subseteq stored' \cup InFlight(o)'
    BY <1>2 DEF PostsCover, Wanted, InRange, Young, Sought, Indices
  <2>1. Wanted(Sought(post[o].req), post[o].snap, post[o].inc)
          \subseteq (stored \cup InFlight(o)) \cap Young(post[o].inc)
    <3>1. post[o] # None /\ post[o].last /\ (whole \/ post[o].req # None)
      BY <1>2
    <3> QED
      BY <3>1 DEF PostsCover, Wanted
  <2> QED
    BY <1>2, <1>3, <2>1
<1>8. AgentCovers'
  <2> SUFFICES ASSUME agent.stage \in {"sending", "waiting", "acking", "ackwait"},
                      whole' \/ agent.req # None
               PROVE  Wanted(Sought(agent.req), agent.snap, agent.inc) \subseteq
                        stored' \cup agent.todo
                        \cup (IF agent.stage = "waiting" THEN InFlight(agent.slot)' ELSE {})
    BY DEF AgentCovers, Wanted, InRange, Young, Sought, InFlight, Indices
  <2>1. CASE agent.stage = "waiting"
    <3>1. /\ agent.slot \in Posts /\ post'[agent.slot] # None
          /\ post[agent.slot].req = agent.req /\ post[agent.slot].inc = agent.inc
      BY <1>1, <2>1 DEF CycleOrder
    <3>2. Wanted(Sought(agent.req), agent.snap, agent.inc)
            \subseteq (stored \cup agent.todo \cup InFlight(agent.slot)) \cap Young(agent.inc)
      BY <2>1 DEF AgentCovers, Wanted
    <3> QED
      BY <1>3, <2>1, <3>1, <3>2
  <2>2. CASE agent.stage # "waiting"
    BY <2>2 DEF AgentCovers
  <2> QED
    BY <2>1, <2>2
<1> QED
  BY <1>4, <1>5, <1>6, <1>7, <1>8

(* The index of the server leaves out of a batch only what it has.            *)
LEMMA ReadIndexKeeps ==
  ASSUME SyncInv, NEW p \in Posts, ReadIndex(p)
  PROVE  SyncInv'
<1> USE DEF SyncInv
<1> DEFINE cut == (IF post[p].inc /\ Watermark # None THEN After(post[p].rows, Watermark)
                   ELSE post[p].rows) \cap Young(post[p].inc)
           m == [post[p] EXCEPT !.stage = "read", !.rows = cut \ stored]
<1>1. /\ UNCHANGED <<now, log, stored, rows, agent, whole>> /\ post[p] # None
      /\ post[p].kind = "ingest" /\ post[p].stage = "sent" /\ post' = [post EXCEPT ![p] = m]
  BY DEF ReadIndex, Serves, SyncTypes
<1>2. post[p] \in Post /\ post[p].rows \subseteq Indices
  BY <1>1, PostTyped, LogTyped DEF Indices
<1>3. cut \subseteq post[p].rows
  BY DEF After
<1>4. (whole \/ post[p].req # None)
        => post[p].rows \cap Young(post[p].inc) \subseteq cut \cup stored
  BY <1>1, <1>2, CutIsStored DEF SyncTypes
<1> HIDE DEF cut
<1>5. /\ m \in Post /\ m.kind = "ingest" /\ m.stage = "read" /\ m.rows = cut \ stored
      /\ m.req = post[p].req /\ m.snap = post[p].snap /\ m.last = post[p].last
      /\ m.inc = post[p].inc
  BY <1>1, <1>2, <1>3 DEF Post
<1> HIDE DEF m
<1>6. post'[p] = m /\ m # None
  BY <1>1, <1>5, SyncAssumption DEF SyncTypes
<1>7. InFlight(p)' = cut \ stored /\ InFlight(p) = post[p].rows
  BY <1>1, <1>5, <1>6 DEF InFlight
<1>8. /\ rows' \in Seq(Row) /\ stored' \subseteq Indices /\ whole' \in BOOLEAN /\ NoHoles'
  BY <1>1 DEF SyncTypes, NoHoles, Young, Indices
<1> QED
  BY <1>1, <1>3, <1>4, <1>5, <1>6, <1>7, <1>8, ServeKeeps

LEMMA ImportKeeps ==
  ASSUME SyncInv, NEW p \in Posts, Import(p)
  PROVE  SyncInv'
<1> USE DEF SyncInv
<1> DEFINE m == IF post[p].last THEN [post[p] EXCEPT !.stage = "stored"] ELSE Answer(p)
<1>1. /\ UNCHANGED <<now, log, rows, agent>> /\ post[p] # None
      /\ post[p].kind = "ingest" /\ post[p].stage = "read" /\ post' = [post EXCEPT ![p] = m]
      /\ stored' = stored \cup post[p].rows
      /\ whole' = (whole /\ post[p].req \in {None, Full})
  BY DEF Import, Serves, SyncTypes
<1>2. post[p] \in Post /\ post[p].rows \subseteq Indices /\ InFlight(p) = post[p].rows
  BY <1>1, PostTyped, LogTyped DEF Indices, InFlight
<1>3. /\ m \in Post \cup {None}
      /\ m = None => agent.slot # p
      /\ m # None => /\ m.kind = post[p].kind /\ m.req = post[p].req /\ m.snap = post[p].snap
                     /\ m.last = post[p].last /\ m.inc = post[p].inc /\ m.rows = post[p].rows
                     /\ m.stage \in {"stored", "answered"}
  BY <1>1, <1>2, SyncAssumption DEF Post, Answer
<1> HIDE DEF m
<1>4. post'[p] = m /\ (m # None => InFlight(p)' = {})
  BY <1>1, <1>3 DEF SyncTypes, InFlight
<1>5. NoHoles'
  <2> SUFFICES ASSUME whole, post[p].req \in {None, Full}, NEW j \in stored \cup post[p].rows
               PROVE  (1..j) \cap Young(TRUE) \subseteq stored \cup post[p].rows
    BY <1>1 DEF NoHoles, Young, Indices
  <2>1. CASE j \in stored
    BY <2>1 DEF NoHoles
  <2>2. CASE j \in post[p].rows
    BY <1>1, <1>2, <2>2 DEF PostsFollow
  <2> QED
    BY <2>1, <2>2
<1>6. /\ rows' \in Seq(Row) /\ stored' \subseteq Indices /\ stored \subseteq stored'
      /\ whole' \in BOOLEAN
      /\ whole' => whole
  BY <1>1, <1>2 DEF SyncTypes
<1>7. m # None =>
        /\ m.kind = post[p].kind /\ m.req = post[p].req /\ m.snap = post[p].snap
        /\ m.last = post[p].last /\ m.inc = post[p].inc /\ m.rows \subseteq post[p].rows
        /\ InFlight(p)' \subseteq InFlight(p)
        /\ InFlight(p) \cap Young(post[p].inc) \subseteq stored' \cup InFlight(p)'
  BY <1>1, <1>2, <1>3, <1>4
<1> QED
  BY <1>1, <1>3, <1>5, <1>6, <1>7, ServeKeeps

LEMMA AcknowledgeKeeps ==
  ASSUME SyncInv, NEW p \in Posts, Acknowledge(p)
  PROVE  SyncInv'
<1> USE DEF SyncInv
<1> DEFINE m == Answer(p)
<1>1. /\ UNCHANGED <<now, log, stored, agent, whole>> /\ post[p] # None
      /\ post[p].stage = "stored" \/ (post[p].kind = "ack" /\ post[p].stage = "sent")
      /\ post' = [post EXCEPT ![p] = m] /\ rows' = CloseAll
  BY DEF Acknowledge, Serves, SyncTypes
<1>2. post[p] \in Post /\ InFlight(p) = {}
  BY <1>1, PostTyped DEF InFlight, SyncTypes
<1>3. /\ m \in Post \cup {None}
      /\ m = None => agent.slot # p
      /\ m # None => /\ m.kind = post[p].kind /\ m.req = post[p].req /\ m.snap = post[p].snap
                     /\ m.last = post[p].last /\ m.inc = post[p].inc /\ m.rows = post[p].rows
                     /\ m.stage = "answered"
  BY <1>1, <1>2, SyncAssumption DEF Post, Answer
<1> HIDE DEF m
<1>4. post'[p] = m /\ (m # None => InFlight(p)' = {})
  BY <1>1, <1>3 DEF SyncTypes, InFlight
<1>5. rows' \in Seq(Row)
  <2>1. rows \in [1..Len(rows) -> Row] /\ Len(rows) \in Nat
    BY DEF SyncTypes
  <2>2. \A k \in 1..Len(rows) : [rows[k] EXCEPT !.done = TRUE] \in Row
    BY <2>1 DEF Row
  <2>3. rows' \in [1..Len(rows) -> Row]
    BY <1>1, <2>1, <2>2 DEF CloseAll
  <2> QED
    BY <2>1, <2>3, IsASeq
<1>6. /\ stored' \subseteq Indices /\ stored \subseteq stored'
      /\ whole' \in BOOLEAN /\ NoHoles'
      /\ whole' => whole
  BY <1>1 DEF SyncTypes, NoHoles, Young, Indices
<1>7. m # None =>
        /\ m.kind = post[p].kind /\ m.req = post[p].req /\ m.snap = post[p].snap
        /\ m.last = post[p].last /\ m.inc = post[p].inc /\ m.rows \subseteq post[p].rows
        /\ InFlight(p)' \subseteq InFlight(p)
        /\ InFlight(p) \cap Young(post[p].inc) \subseteq stored' \cup InFlight(p)'
  BY <1>1, <1>2, <1>3, <1>4
<1> QED
  BY <1>1, <1>3, <1>5, <1>6, <1>7, ServeKeeps

LEMMA LosePostKeeps ==
  ASSUME SyncInv, NEW p \in Posts, LosePost(p)
  PROVE  SyncInv'
<1> USE DEF SyncInv
<1>1. /\ UNCHANGED <<now, log, stored, rows, whole>> /\ post[p] # None
      /\ post' = [post EXCEPT ![p] = None]
      /\ agent' = IF agent.slot = p THEN Asleep ELSE agent
  BY DEF LosePost
<1>2. /\ post' \in [Posts -> Post \cup {None}] /\ \A o \in Posts : post'[o] \in {post[o], None}
  BY <1>1 DEF SyncTypes
<1>3. CASE agent' = Asleep
  BY <1>1, <1>2, <1>3, AsleepIsCycle, RestKeeps, LogTyped
<1>4. CASE agent.slot # p
  <2>1. UNCHANGED agent
    BY <1>1, <1>4
  <2>2. /\ rows' \in Seq(Row) /\ stored' \subseteq Indices /\ whole' \in BOOLEAN /\ NoHoles'
    BY <1>1 DEF SyncTypes, NoHoles, Young, Indices
  <2> QED
    BY <1>1, <1>4, <2>1, <2>2, ServeKeeps
<1> QED
  BY <1>1, <1>3, <1>4

(* The server has no hole, and every batch and every plan goes on from what   *)
(* it has.                                                                    *)
LEMMA SyncInvariant == Spec => []SyncInv
<1>1. Init => SyncInv
  BY SyncAssumption DEF Init, SyncInv, SyncTypes, LogInOrder, CycleOrder, NoHoles, PostsFollow,
       AgentCovers, PostsCover, Indices, Asleep, Cycle, InFlight
<1>2. SyncInv /\ [Next]_vars => SyncInv'
  <2> SUFFICES ASSUME SyncInv, [Next]_vars PROVE SyncInv'
    OBVIOUS
  <2>1. CASE Tick \/ Punch
    BY <2>1, TickKeeps, PunchKeeps
  <2>2. ASSUME NEW u \in Users, LookPending(u) PROVE SyncInv'
    BY <2>2, ClickKeeps DEF LookPending, SyncInv, SyncTypes
  <2>3. ASSUME NEW u \in Users, NEW range \in Dates, SaveRequest(u, range) PROVE SyncInv'
    BY <2>3, ClickKeeps, SavedIsRow DEF SaveRequest, SyncInv
  <2>4. CASE Agent
    BY <2>4, ListPullsKeeps, FetchDeviceKeeps, PlanUploadKeeps, SendChunkKeeps, NothingToSendKeeps,
       ReceiveReplyKeeps, SendAckKeeps DEF Agent
  <2>5. CASE CycleFails
    BY <2>5, CycleFailsKeeps
  <2>6. ASSUME NEW p \in Posts, Serve(p) PROVE SyncInv'
    BY <2>6, ReadIndexKeeps, ImportKeeps, AcknowledgeKeeps DEF Serve
  <2>7. ASSUME NEW p \in Posts, LosePost(p) PROVE SyncInv'
    BY <2>7, LosePostKeeps
  <2>8. CASE UNCHANGED vars
    BY <2>8, ClickKeeps DEF vars, SyncInv, SyncTypes
  <2> QED
    BY <2>1, <2>2, <2>3, <2>4, <2>5, <2>6, <2>7, <2>8 DEF Next, Ask
<1> QED
  BY <1>1, <1>2, PTL DEF Spec

(* No punch of the last 93 days is missed by what the watermark skips, as     *)
(* long as no upload was limited to dates, and none by what a finished cycle  *)
(* has announced (AgentIngestView.post, run_all_cycles).                      *)
THEOREM NoPunchMissed == Spec => []NothingMissed
<1>1. SyncInv => NoGap
  <2> SUFFICES ASSUME SyncInv, whole, Watermark # None, NEW i \in Young(TRUE), log[i] < Watermark
               PROVE  i \in stored
    BY DEF NoGap
  <2> QED
    BY OlderIsStored DEF SyncInv
<1>2. SyncInv => UploadComplete
  <2> SUFFICES ASSUME SyncInv, NEW p \in Posts, post[p] # None, post[p].last,
                      post[p].kind = "ack" \/ post[p].stage \in {"stored", "answered"},
                      whole \/ post[p].req # None
               PROVE  Wanted(Sought(post[p].req), post[p].snap, post[p].inc) \subseteq stored
    BY DEF UploadComplete, Sought
  <2>1. InFlight(p) = {}
    BY DEF SyncInv, SyncTypes, InFlight
  <2> QED
    BY <2>1 DEF SyncInv, PostsCover
<1> QED
  BY <1>1, <1>2, SyncInvariant, PTL DEF NothingMissed

(***************************************************************************)
(* DirectPull: what a pull reads is stored.                                *)
(***************************************************************************)

(* Every record that is anywhere.                                             *)
Known == Range(tape) \cup kept \cup promised \cup UNION {pull[o].read : o \in Pullers}

(* Numbers, identities and times of records are in one order.                *)
InOneOrder ==
  /\ \A r \in Known : r.id <= made /\ r.at <= clock /\ r.no = r.id
  /\ \A r, s \in Known : (r.id = s.id => r = s) /\ (r.id < s.id => r.at <= s.at)
  /\ tape # <<>> => tape[Len(tape)].no = made
  /\ Restarts /\ tape = <<>> => made = 0

(* Who has read a record has read what is on the device from before it; of    *)
(* two pulls under way likewise; and what is older than a stored record and   *)
(* on the device, or read by a pull under way, is stored.                     *)
ReadWhole(S) == \A q \in Pullers : \A k \in pull[q].read : \A r \in S : r.id < k.id => r \in pull[q].read
KeptWhole(S) == \A k \in kept : \A r \in S : r.id < k.id => r \in kept
Contained ==
  /\ ReadWhole(Range(tape)) /\ KeptWhole(Range(tape))
  /\ \A o \in Pullers : ReadWhole(pull[o].read) /\ KeptWhole(pull[o].read)

(* What an import without a range leaves out is stored.                       *)
LeftOutIsKept ==
  \A o \in Pullers :
    /\ pull[o].new \subseteq pull[o].read
    /\ pull[o].stage = "indexed" /\ pull[o].opt.span = Whole
         => pull[o].read \ pull[o].new \subseteq kept

Sound == InOneOrder /\ Contained /\ LeftOutIsKept /\ promised \subseteq kept
PullInv == careful => Sound
PullState == [stage : {"idle"}, read : {{}}, new : {{}}]
        \cup [stage : {"reading", "closed", "indexed"}, read : SUBSET Record,
              new : SUBSET Record, opt : Options]
PullTypes ==
  /\ tape \in Seq(Record) /\ made \in 0..MaxRecords /\ clock \in 0..MaxClock
  /\ kept \subseteq Record /\ promised \subseteq Record /\ careful \in BOOLEAN
  /\ pull \in [Pullers -> PullState]
  /\ \A i \in DOMAIN tape : tape[i].no <= made

LEMMA PullTypesInvariant == PullSpec => []PullTypes
<1>1. PullInit => PullTypes
  BY DirectPullAssumption DEF PullInit, PullTypes, PullState, Resting
<1>2. PullTypes /\ [PullNext]_pullVars => PullTypes'
  <2> SUFFICES ASSUME PullTypes, [PullNext]_pullVars PROVE PullTypes'
    OBVIOUS
  <2> USE DEF PullTypes
  <2>0. Resting \in PullState
    BY DEF Resting, PullState
  <2>1. CASE Punched
    <3>1. tape # <<>> => tape[Len(tape)] \in Record /\ tape[Len(tape)].no <= made
      <4>1. tape # <<>> => Len(tape) \in 1..Len(tape)
        BY EmptySeq
      <4> QED
        BY <4>1
    <3>2. NextNumber \in 1..(made + 1)
      BY <3>1, DirectPullAssumption DEF NextNumber, Record
    <3> DEFINE r == [id |-> made + 1, no |-> NextNumber, at |-> clock]
    <3>3. r \in Record
      BY <2>1, <3>2, DirectPullAssumption DEF Punched, Record
    <3> HIDE DEF r
    <3>4. tape' = Append(tape, r) /\ made' = made + 1 /\ made' \in 0..MaxRecords
      BY <2>1, DirectPullAssumption DEF Punched, r
    <3>5. \A i \in DOMAIN tape' : tape'[i].no <= made'
      <4> TAKE i \in DOMAIN tape'
      <4>1. CASE i = Len(tape) + 1
        BY <3>2, <3>4, <4>1, DirectPullAssumption DEF r
      <4>2. CASE i \in 1..Len(tape)
        <5>1. tape'[i] = tape[i] /\ tape[i] \in Record /\ tape[i].no <= made
          BY <3>4, <4>2
        <5> QED
          BY <5>1, <3>4, DirectPullAssumption DEF Record
      <4> QED
        BY <3>4, <4>1, <4>2
    <3> QED
      BY <2>1, <3>3, <3>4, <3>5 DEF Punched
  <2>2. CASE ClockTicks
    BY <2>2, DirectPullAssumption DEF ClockTicks
  <2>3. ASSUME NEW p \in Pullers, NEW opt \in Options, ReadDevice(p, opt) PROVE PullTypes'
    <3>1. Range(tape) \subseteq Record
      BY DEF Range
    <3>2. [stage |-> "reading", read |-> Range(tape), new |-> {}, opt |-> opt] \in PullState
      BY <3>1 DEF PullState
    <3> QED
      BY <2>3, <3>2 DEF ReadDevice
  <2>4. ASSUME NEW p \in Pullers, CloseSession(p) PROVE PullTypes'
    <3>1. pull' = [pull EXCEPT ![p] = [@ EXCEPT !.stage = "closed"]]
      BY <2>4 DEF CloseSession
    <3>2. [pull[p] EXCEPT !.stage = "closed"] \in PullState
      BY <2>4 DEF CloseSession, PullState
    <3>3. pull' \in [Pullers -> PullState]
      BY <3>1, <3>2
    <3>4. tape' \in Seq(Record) /\ careful' \in BOOLEAN
          /\ \A i \in DOMAIN tape' : tape'[i].no <= made'
      BY <2>4 DEF CloseSession
    <3> QED
      BY <2>4, <3>3, <3>4 DEF CloseSession
  <2>5. ASSUME NEW p \in Pullers, SessionFails(p) PROVE PullTypes'
    BY <2>0, <2>5 DEF SessionFails
  <2>6. ASSUME NEW p \in Pullers, LoadIndex(p) PROVE PullTypes'
    <3>1. PICK new \in SUBSET pull[p].read :
            pull' = [pull EXCEPT ![p] = [@ EXCEPT !.stage = "indexed", !.new = new]]
      BY <2>6 DEF LoadIndex, Later, Chosen
    <3>2. [pull[p] EXCEPT !.stage = "indexed", !.new = new] \in PullState
      BY <2>6 DEF LoadIndex, PullState
    <3> QED
      BY <2>6, <3>1, <3>2 DEF LoadIndex
  <2>7. ASSUME NEW p \in Pullers, StoreNew(p) PROVE PullTypes'
    <3>1. pull[p].new \subseteq Record /\ pull[p].read \subseteq Record
      BY DEF PullState
    <3> QED
      BY <2>0, <2>7, <3>1 DEF StoreNew
  <2> QED
    BY <2>1, <2>2, <2>3, <2>4, <2>5, <2>6, <2>7 DEF PullNext, pullVars
<1> QED
  BY <1>1, <1>2, PTL DEF PullSpec

(* A punch is appended to what is on the device.                              *)
LEMMA RangeAppend ==
  ASSUME NEW S, NEW s \in Seq(S), NEW e \in S
  PROVE  Range(Append(s, e)) = Range(s) \cup {e}
<1>1. Len(Append(s, e)) = Len(s) + 1 /\ DOMAIN Append(s, e) = 1..(Len(s) + 1) /\ Len(s) \in Nat
  OBVIOUS
<1>2. \A i \in 1..Len(s) : Append(s, e)[i] = s[i]
  OBVIOUS
<1>3. Append(s, e)[Len(s) + 1] = e
  OBVIOUS
<1> QED
  BY <1>1, <1>2, <1>3 DEF Range

(* Nothing of a pull at rest is in play.                                      *)
LEMMA KnownRecords ==
  ASSUME PullTypes
  PROVE  /\ Known \subseteq Record /\ Range(tape) \subseteq Known /\ kept \subseteq Known
         /\ \A o \in Pullers : pull[o].read \subseteq Known /\ pull[o].read \subseteq Record
<1>1. Range(tape) \subseteq Record
  BY DEF PullTypes, Range
<1>2. \A o \in Pullers : pull[o].read \subseteq Record
  BY DEF PullTypes, PullState
<1> QED
  BY <1>1, <1>2 DEF Known, PullTypes

(* Steps that bring no record from anywhere, and no record off the device     *)
(* that leaves the others out.                                                *)
LEMMA NothingNew ==
  ASSUME PullTypes, PullTypes', Sound, UNCHANGED <<kept, made, promised>>, clock <= clock',
         Range(tape') \subseteq Range(tape),
         \A o \in Pullers : pull'[o].read \subseteq pull[o].read /\ pull'[o].new \subseteq pull'[o].read,
         \A o \in Pullers : pull'[o].read = pull[o].read \/ pull'[o].read = {}
  PROVE  /\ Contained'
         /\ \A r \in Known' : r.id <= made' /\ r.at <= clock' /\ r.no = r.id
         /\ \A r, s \in Known' : (r.id = s.id => r = s) /\ (r.id < s.id => r.at <= s.at)
<1>1. Known' \subseteq Known
  BY DEF Known
<1>2. Known \subseteq Record
  BY KnownRecords
<1>3. \A r \in Known' : r.id <= made' /\ r.at <= clock' /\ r.no = r.id
  BY <1>1, <1>2 DEF Sound, InOneOrder, Record, PullTypes
<1>4. \A r, s \in Known' : (r.id = s.id => r = s) /\ (r.id < s.id => r.at <= s.at)
  BY <1>1 DEF Sound, InOneOrder
<1>5. Contained'
  BY DEF Sound, Contained, ReadWhole, KeptWhole
<1> QED
  BY <1>3, <1>4, <1>5

LEMMA PunchedKeeps ==
  ASSUME PullTypes, PullTypes', Sound, Punched
  PROVE  Sound'
<1>1. PICK e \in Record : e.id = made + 1 /\ e.no = NextNumber /\ e.at = clock /\ tape' = Append(tape, e)
  <2> DEFINE e == [id |-> made + 1, no |-> NextNumber, at |-> clock]
  <2>1. tape' = Append(tape, e) /\ tape \in Seq(Record) /\ tape' \in Seq(Record)
    BY DEF Punched, PullTypes
  <2>2. e \in Record
    <3> HIDE DEF e
    <3>1. e = tape'[Len(tape')] /\ Len(tape') \in DOMAIN tape'
      BY <2>1
    <3> QED
      BY <2>1, <3>1
  <2> QED
    BY <2>1, <2>2
<1>2. e.no = made + 1
  <2>1. tape # <<>> => Len(tape) \in DOMAIN tape /\ tape[Len(tape)].no = made
    BY EmptySeq DEF Sound, InOneOrder, PullTypes
  <2> QED
    BY <1>1, <2>1 DEF NextNumber, Sound, InOneOrder, PullTypes
<1>3. Range(tape') = Range(tape) \cup {e}
  BY <1>1, RangeAppend DEF PullTypes
<1>4. Known' = Known \cup {e}
  BY <1>3 DEF Known, Punched
<1>5. Known \subseteq Record /\ made \in Nat /\ made' = made + 1 /\ clock \in Nat /\ UNCHANGED clock
  BY KnownRecords, DirectPullAssumption DEF PullTypes, Punched
<1>6. \A r \in Known : r.id <= made /\ r.at <= clock /\ r.id < e.id /\ r.id \in Nat /\ r.at \in Nat
  BY <1>1, <1>5 DEF Sound, InOneOrder, Record
<1>7. InOneOrder'
  <2>1. \A r \in Known' : r.id <= made' /\ r.at <= clock' /\ r.no = r.id
    BY <1>1, <1>2, <1>4, <1>5, <1>6 DEF Sound, InOneOrder
  <2>2. \A r, s \in Known' : (r.id = s.id => r = s) /\ (r.id < s.id => r.at <= s.at)
    BY <1>1, <1>4, <1>5, <1>6 DEF Sound, InOneOrder
  <2>3. tape' # <<>> /\ tape'[Len(tape')] = e
    BY <1>1 DEF PullTypes
  <2> QED
    BY <1>2, <1>5, <2>1, <2>2, <2>3 DEF InOneOrder
<1>8. Contained'
  <2>1. \A k \in Known : ~(e.id < k.id)
    BY <1>1, <1>5, <1>6
  <2>2. /\ \A o \in Pullers : \A k \in pull[o].read : ~(e.id < k.id)
        /\ \A k \in kept : ~(e.id < k.id)
    BY <2>1, KnownRecords
  <2> QED
    BY <1>3, <2>1, <2>2 DEF Sound, Contained, ReadWhole, KeptWhole, Punched
<1> QED
  BY <1>7, <1>8 DEF Sound, LeftOutIsKept, Punched

LEMMA ReadDeviceKeeps ==
  ASSUME PullTypes, PullTypes', Sound, careful', NEW p \in Pullers, NEW opt \in Options,
         ReadDevice(p, opt)
  PROVE  Sound'
<1>1. pull'[p] = [stage |-> "reading", read |-> Range(tape), new |-> {}, opt |-> opt]
  BY DEF ReadDevice, PullTypes
<1>2. \A o \in Pullers \ {p} : pull'[o] = pull[o]
  BY DEF ReadDevice, PullTypes
<1>3. UNCHANGED <<tape, made, clock, kept, promised>>
      /\ \A o \in Pullers : pull[o].read \subseteq Range(tape)
  BY DEF ReadDevice
<1>4. Known' \subseteq Known
  BY <1>1, <1>2, <1>3 DEF Known
<1>5. InOneOrder'
  BY <1>3, <1>4 DEF Sound, InOneOrder
<1>6. \A o \in Pullers : pull'[o].read = Range(tape) \/ pull'[o].read = pull[o].read
  BY <1>1, <1>2
<1>7. ReadWhole(Range(tape))' /\ KeptWhole(Range(tape))'
  BY <1>3, <1>6 DEF Sound, Contained, ReadWhole, KeptWhole
<1>8. ASSUME NEW o \in Pullers PROVE ReadWhole(pull[o].read)' /\ KeptWhole(pull[o].read)'
  BY <1>3, <1>6 DEF Sound, Contained, ReadWhole, KeptWhole
<1>9. LeftOutIsKept'
  BY <1>1, <1>2, <1>3 DEF Sound, LeftOutIsKept
<1> QED
  BY <1>3, <1>5, <1>7, <1>8, <1>9 DEF Sound, Contained

LEMMA CloseSessionKeeps ==
  ASSUME PullTypes, PullTypes', Sound, careful', NEW p \in Pullers, CloseSession(p)
  PROVE  Sound'
<1>1. pull' = [pull EXCEPT ![p] = [@ EXCEPT !.stage = "closed"]]
      /\ UNCHANGED <<made, clock, kept, promised>>
      /\ (tape' = tape \/ (tape' = <<>> /\ ~Restarts))
  BY DEF CloseSession
<1>2. \A o \in Pullers : /\ pull'[o].read = pull[o].read /\ pull'[o].new = pull[o].new
                         /\ pull'[o].stage = "indexed" => pull'[o] = pull[o]
  BY <1>1 DEF PullTypes, PullState
<1>3. Range(tape') \subseteq Range(tape)
  BY <1>1 DEF Range
<1>4. \A o \in Pullers : pull'[o].new \subseteq pull'[o].read
  BY <1>2 DEF Sound, LeftOutIsKept
<1>5. /\ Contained'
      /\ \A r \in Known' : r.id <= made' /\ r.at <= clock' /\ r.no = r.id
      /\ \A r, s \in Known' : (r.id = s.id => r = s) /\ (r.id < s.id => r.at <= s.at)
  <2>1. clock <= clock'
    BY <1>1 DEF PullTypes
  <2> QED
    BY <1>1, <1>2, <1>3, <1>4, <2>1, NothingNew
<1>6. InOneOrder'
  BY <1>1, <1>5 DEF InOneOrder, Sound
<1>7. LeftOutIsKept'
  BY <1>1, <1>2 DEF Sound, LeftOutIsKept
<1> QED
  BY <1>1, <1>5, <1>6, <1>7 DEF Sound

LEMMA SessionFailsKeeps ==
  ASSUME PullTypes, PullTypes', Sound, NEW p \in Pullers, SessionFails(p)
  PROVE  Sound'
<1>1. /\ UNCHANGED <<tape, made, clock, kept, promised>>
      /\ \A o \in Pullers \ {p} : pull'[o] = pull[o]
      /\ pull'[p] = Resting
  BY DEF SessionFails, PullTypes
<1>2. /\ \A o \in Pullers : pull'[o].read = pull[o].read \/ pull'[o].read = {}
      /\ \A o \in Pullers : pull'[o].read \subseteq pull[o].read /\ pull'[o].new \subseteq pull'[o].read
  BY <1>1 DEF Resting, Sound, LeftOutIsKept
<1>3. clock <= clock'
  BY <1>1 DEF PullTypes
<1>4. /\ Contained'
      /\ \A r \in Known' : r.id <= made' /\ r.at <= clock' /\ r.no = r.id
      /\ \A r, s \in Known' : (r.id = s.id => r = s) /\ (r.id < s.id => r.at <= s.at)
  BY <1>1, <1>2, <1>3, NothingNew
<1>5. InOneOrder'
  BY <1>1, <1>4 DEF InOneOrder, Sound
<1>6. LeftOutIsKept'
  BY <1>1, <1>2 DEF Sound, LeftOutIsKept, Resting
<1> QED
  BY <1>1, <1>4, <1>5, <1>6 DEF Sound

LEMMA ClockTicksKeeps ==
  ASSUME PullTypes, PullTypes', Sound, ClockTicks
  PROVE  Sound'
<1>1. /\ UNCHANGED <<tape, made, kept, promised, pull>> /\ clock <= clock'
  BY DirectPullAssumption DEF ClockTicks, PullTypes
<1>2. \A o \in Pullers : pull[o].new \subseteq pull[o].read
  BY DEF Sound, LeftOutIsKept
<1>3. /\ Contained'
      /\ \A r \in Known' : r.id <= made' /\ r.at <= clock' /\ r.no = r.id
      /\ \A r, s \in Known' : (r.id = s.id => r = s) /\ (r.id < s.id => r.at <= s.at)
  BY <1>1, <1>2, NothingNew
<1> QED
  BY <1>1, <1>3 DEF Sound, LeftOutIsKept, InOneOrder

(* What an incremental import does not look at is older than the last record  *)
(* stored, and stored itself.                                                 *)
LEMMA LoadIndexKeeps ==
  ASSUME PullTypes, PullTypes', Sound, NEW p \in Pullers, LoadIndex(p)
  PROVE  Sound'
<1> DEFINE inc == Incremental(p) /\ LastKept # Whole
           near == IF inc THEN {r \in kept : r.at + Margin >= LastKept} ELSE kept
           taken == IF inc THEN Later(Chosen(p), LastKept) ELSE Chosen(p)
           new == {r \in taken : \A k \in near : r.no # k.no /\ r.id # k.id}
<1>1. /\ UNCHANGED <<tape, made, clock, kept, promised>>
      /\ pull' = [pull EXCEPT ![p] = [@ EXCEPT !.stage = "indexed", !.new = new]]
  BY DEF LoadIndex
<1>2. new \subseteq pull[p].read
  BY DEF Later, Chosen
<1>4. ASSUME pull[p].opt.span = Whole, NEW r \in pull[p].read, r \notin new PROVE r \in kept
  <2>1. r \in Known /\ r \in Record /\ kept \subseteq Known /\ Known \subseteq Record
    BY KnownRecords
  <2>2. Chosen(p) = pull[p].read
    BY <1>4 DEF Chosen
  <2>3. CASE r \in taken
    <3>1. PICK k \in near : r.no = k.no \/ r.id = k.id
      BY <1>4, <2>3
    <3>2. k \in kept /\ k \in Known
      BY <2>1
    <3>3. r.id = k.id
      BY <2>1, <3>1, <3>2 DEF Sound, InOneOrder
    <3> QED
      BY <2>1, <3>2, <3>3 DEF Sound, InOneOrder
  <2>4. CASE r \notin taken
    <3>1. inc /\ ~(r.at + Margin > LastKept)
      BY <1>4, <2>2, <2>4 DEF Later
    <3> DEFINE times == {k.at : k \in kept}
    <3>2. kept # {} /\ LastKept = Max(times)
      BY <3>1 DEF LastKept
    <3>3. times \in SUBSET (0..clock) /\ times # {} /\ clock \in Nat
      BY <2>1, <3>2, DirectPullAssumption DEF Sound, InOneOrder, Record, PullTypes
    <3>4. Max(times) \in times
      <4> HIDE DEF times
      <4> QED
        BY <3>3, MaxOfNats
    <3>5. PICK k \in kept : k.at = LastKept
      BY <3>2, <3>4
    <3>6. k \in Known /\ k \in Record
      BY <2>1
    <3>7. r.at < k.at
      BY <2>1, <3>1, <3>5, <3>6, DirectPullAssumption DEF Record
    <3>8. r.id < k.id
      <4>1. r.id \in Nat /\ k.id \in Nat /\ r.at \in Nat /\ k.at \in Nat
        BY <2>1, <3>6, DirectPullAssumption DEF Record
      <4>2. (r.id = k.id => r = k) /\ (k.id < r.id => k.at <= r.at)
        BY <2>1, <3>6 DEF Sound, InOneOrder
      <4> QED
        BY <3>7, <4>1, <4>2
    <3> QED
      BY <3>8 DEF Sound, Contained, KeptWhole
  <2> QED
    BY <2>3, <2>4
<1> HIDE DEF new
<1>5. \A o \in Pullers : pull'[o].read = pull[o].read /\ (o # p => pull'[o] = pull[o])
  BY <1>1 DEF PullTypes, PullState
<1>6. pull'[p].new = new /\ pull'[p].opt = pull[p].opt
  <2>1. pull[p].stage = "closed" /\ pull[p] \in PullState
    BY DEF PullTypes, LoadIndex
  <2>2. pull[p] = [stage |-> pull[p].stage, read |-> pull[p].read, new |-> pull[p].new, opt |-> pull[p].opt]
    BY <2>1 DEF PullState
  <2>3. pull'[p] = [pull[p] EXCEPT !.stage = "indexed", !.new = new]
    BY <1>1 DEF PullTypes
  <2> QED
    BY <2>2, <2>3
<1>7. /\ Contained'
      /\ \A r \in Known' : r.id <= made' /\ r.at <= clock' /\ r.no = r.id
      /\ \A r, s \in Known' : (r.id = s.id => r = s) /\ (r.id < s.id => r.at <= s.at)
  <2>1. \A o \in Pullers : pull'[o].new \subseteq pull'[o].read
    BY <1>2, <1>5, <1>6 DEF Sound, LeftOutIsKept
  <2>2. clock <= clock'
    BY <1>1 DEF PullTypes
  <2> QED
    BY <1>1, <1>5, <2>1, <2>2, NothingNew
<1>8. LeftOutIsKept'
  BY <1>1, <1>2, <1>4, <1>5, <1>6 DEF Sound, LeftOutIsKept
<1>9. InOneOrder'
  BY <1>1, <1>7 DEF InOneOrder, Sound
<1> QED
  BY <1>1, <1>7, <1>8, <1>9 DEF Sound

LEMMA StoreNewKeeps ==
  ASSUME PullTypes, PullTypes', Sound, careful', NEW p \in Pullers, StoreNew(p)
  PROVE  Sound'
<1>1. /\ UNCHANGED <<tape, made, clock>>
      /\ \A o \in Pullers \ {p} : pull'[o] = pull[o]
      /\ pull'[p] = Resting
  BY DEF StoreNew, PullTypes
<1>2. \A o \in Pullers : pull'[o].read \subseteq pull[o].read /\ pull'[o].new \subseteq pull'[o].read
                         /\ (pull'[o].read = pull[o].read \/ pull'[o].read = {})
  BY <1>1 DEF Resting, Sound, LeftOutIsKept
<1>3. CASE UNCHANGED <<kept, promised>>
  <2>1. clock <= clock'
    BY <1>1 DEF PullTypes
  <2>2. /\ Contained'
        /\ \A r \in Known' : r.id <= made' /\ r.at <= clock' /\ r.no = r.id
        /\ \A r, s \in Known' : (r.id = s.id => r = s) /\ (r.id < s.id => r.at <= s.at)
    BY <1>1, <1>2, <1>3, <2>1, NothingNew
  <2>3. InOneOrder' /\ LeftOutIsKept'
    BY <1>1, <1>2, <1>3, <2>2 DEF InOneOrder, LeftOutIsKept, Sound, Resting
  <2> QED
    BY <1>3, <2>2, <2>3 DEF Sound
<1>4. CASE pull[p].opt.store
  <2>1. /\ pull[p].opt.span = Whole /\ pull[p].stage = "indexed"
        /\ kept' = kept \cup {r \in pull[p].new : \A k \in kept : r.no # k.no /\ r.id # k.id}
        /\ promised' = promised \cup pull[p].read
    BY <1>4 DEF StoreNew
  <2>2. pull[p].read \subseteq Known /\ kept \subseteq Known /\ Known \subseteq Record
    BY KnownRecords
  <2>3. pull[p].read \subseteq kept'
    <3> SUFFICES ASSUME NEW r \in pull[p].read, r \in pull[p].new, r \notin kept PROVE r \in kept'
      BY <2>1 DEF Sound, LeftOutIsKept
    <3>1. \A k \in kept : r.no # k.no /\ r.id # k.id
      BY <2>2 DEF Sound, InOneOrder
    <3> QED
      BY <2>1, <3>1
  <2>4. kept' \subseteq kept \cup pull[p].read /\ kept \subseteq kept'
    BY <2>1 DEF Sound, LeftOutIsKept
  <2>5. promised' \subseteq kept'
    BY <2>1, <2>3, <2>4 DEF Sound
  <2>6. Known' \subseteq Known
    BY <1>1, <1>2, <2>1, <2>2, <2>4 DEF Known
  <2>7. InOneOrder'
    BY <1>1, <2>6 DEF InOneOrder, Sound
  <2>8. Contained'
    <3>1. ReadWhole(Range(tape))' /\ KeptWhole(Range(tape))'
      BY <1>1, <1>2, <2>3, <2>4 DEF Sound, Contained, ReadWhole, KeptWhole
    <3>2. ASSUME NEW o \in Pullers PROVE ReadWhole(pull[o].read)' /\ KeptWhole(pull[o].read)'
      BY <1>2, <2>3, <2>4 DEF Sound, Contained, ReadWhole, KeptWhole
    <3> QED
      BY <3>1, <3>2 DEF Contained
  <2>9. LeftOutIsKept'
    BY <1>1, <1>2, <2>4 DEF Sound, LeftOutIsKept, Resting
  <2> QED
    BY <2>5, <2>7, <2>8, <2>9 DEF Sound
<1> QED
  BY <1>3, <1>4 DEF StoreNew

(* Whatever a pull without a date range has read is stored, however pulls of  *)
(* the device overlap, fail and clear it, for every number of them: as long   *)
(* as no range of dates was imported, no numbers began anew, and no pull was  *)
(* begun between the clearing by an earlier one and its import.               *)
THEOREM WhatIsPulledIsStored == PullSpec => []PulledIsStored
<1>1. PullInit => PullInv
  <2> SUFFICES ASSUME PullInit PROVE Sound
    BY DEF PullInv
  <2>1. Range(tape) = {} /\ \A o \in Pullers : pull[o] = Resting
    BY DEF PullInit, Range
  <2>2. Known = {}
    BY <2>1 DEF PullInit, Known, Resting
  <2> QED
    BY <2>1, <2>2 DEF PullInit, Sound, InOneOrder, Contained, ReadWhole, KeptWhole, LeftOutIsKept,
       Resting
<1>2. PullTypes /\ PullTypes' /\ PullInv /\ [PullNext]_pullVars => PullInv'
  <2> SUFFICES ASSUME PullTypes, PullTypes', PullInv, [PullNext]_pullVars, careful'
               PROVE  Sound'
    BY DEF PullInv
  <2>0. careful
    BY DEF PullNext, pullVars, Punched, ClockTicks, ReadDevice, CloseSession, SessionFails,
       LoadIndex, StoreNew, PullTypes
  <2>1. Sound
    BY <2>0 DEF PullInv
  <2>2. CASE UNCHANGED pullVars
    BY <2>1, <2>2 DEF pullVars, Sound, InOneOrder, Known, Contained, ReadWhole, KeptWhole,
       LeftOutIsKept
  <2> QED
    BY <2>1, <2>2, PunchedKeeps, ReadDeviceKeeps, CloseSessionKeeps, SessionFailsKeeps,
       ClockTicksKeeps, LoadIndexKeeps, StoreNewKeeps DEF PullNext
<1> QED
  BY <1>1, <1>2, PullTypesInvariant, PTL DEF PullSpec, PullInv, Sound, PulledIsStored

(***************************************************************************)
(* DeviceRegistry: one number for each employee, punches follow links.     *)
(***************************************************************************)
(* The types the links depend on.                                           *)
LinkTypes ==
  /\ links \in [Ids -> [Numbers -> Employees \cup {Absent}]]
  /\ errand \in [Hands -> Errand]
  /\ DOMAIN dev = Ids /\ \A d \in Ids : dev[d] # Absent => dev[d] \in Device

(* What a worker that writes a link has read is a link.                     *)
LEMMA LinkingHasLink ==
  ASSUME LinkTypes, NEW w \in Hands, errand[w].op \in {"linking", "logging"}
  PROVE  errand[w].link \in Link
BY DEF LinkTypes, Errand

(* What a worker that tests a device has read is a row of a device.          *)
LEMMA TestHasRow ==
  ASSUME LinkTypes, NEW w \in Hands, errand[w].op = "test"
  PROVE  errand[w].dev \in Ids /\ errand[w].row \in Device
BY DEF LinkTypes, Errand

(* Links, errands and devices keep their types.                             *)
LEMMA LinkTypesInvariant == RegistrySpec => []LinkTypes
<1>1. RegistryInit => LinkTypes
  BY DEF RegistryInit, LinkTypes, Unlinked, NoErrand, Errand
<1>2. LinkTypes /\ [RegistryNext]_registryVars => LinkTypes'
  <2> SUFFICES ASSUME LinkTypes, [RegistryNext]_registryVars PROVE LinkTypes'
    OBVIOUS
  <2>1. ASSUME NEW d \in Ids, NEW b \in Branches, CreateDevice(d, b) PROVE LinkTypes'
    BY <2>1 DEF CreateDevice, LinkTypes, Device, Taken, Live
  <2>2. ASSUME NEW d \in Ids, NEW b \in Branches, NEW active \in BOOLEAN, EditDevice(d, b, active)
        PROVE  LinkTypes'
    BY <2>2 DEF EditDevice, LinkTypes, Device, Live
  <2>3. ASSUME NEW d \in Ids, NEW e \in Ids, Renumber(d, e) PROVE LinkTypes'
    BY <2>3 DEF Renumber, LinkTypes, Device, Live, Unlinked
  <2>4. ASSUME NEW d \in Ids, PurgeDevice(d) PROVE LinkTypes'
    BY <2>4 DEF PurgeDevice, Purged, LinkTypes, Unlinked
  <2>5. ASSUME NEW d \in Ids, SoftDelete(d) PROVE LinkTypes'
    BY <2>5 DEF SoftDelete, LinkTypes, Device, Live
  <2>6. ASSUME NEW d \in Ids, GenerateKey(d) PROVE LinkTypes'
    BY <2>6 DEF GenerateKey, LinkTypes, Device, Live
  <2>7. ASSUME NEW d \in Ids, RequestPull(d) PROVE LinkTypes'
    BY <2>7 DEF RequestPull, LinkTypes
  <2>8. ASSUME NEW w \in Hands, NEW d \in Ids, TestLoad(w, d) PROVE LinkTypes'
    BY <2>8 DEF TestLoad, Live, LinkTypes, Errand
  <2>9. ASSUME NEW w \in Hands, TestSave(w) PROVE LinkTypes'
    <3>1. errand' = [errand EXCEPT ![w] = NoErrand] /\ NoErrand \in Errand
      BY <2>9 DEF TestSave, NoErrand, Errand
    <3> QED
      BY <2>9, <3>1, TestHasRow DEF TestSave, LinkTypes
  <2>10. ASSUME NEW w \in Hands, NEW l \in Link, NEW force \in BOOLEAN, LinkCheck(w, l, force)
         PROVE  LinkTypes'
    <3>1. [op |-> "linking", link |-> l] \in Errand
      BY DEF Errand
    <3> QED
      BY <2>10, <3>1 DEF LinkCheck, LinkTypes
  <2>11. ASSUME NEW w \in Hands, LinkCommit(w) PROVE LinkTypes'
    <3> DEFINE l == errand[w].link
    <3>1. l \in Link
      BY <2>11, LinkingHasLink DEF LinkCommit
    <3>2. LinksAfter(l) \in [Ids -> [Numbers -> Employees \cup {Absent}]]
      BY <3>1 DEF LinksAfter, Link, LinkTypes
    <3>3. NoErrand \in Errand /\ [op |-> "logging", link |-> l] \in Errand
      BY <3>1 DEF NoErrand, Errand
    <3> QED
      BY <2>11, <3>2, <3>3 DEF LinkCommit, LinkTypes
  <2>12. ASSUME NEW w \in Hands, LinkLog(w) PROVE LinkTypes'
    BY <2>12 DEF LinkLog, LinkTypes, NoErrand, Errand
  <2>13. ASSUME NEW w \in Hands, NEW d \in Ids, IngestRead(w, d) PROVE LinkTypes'
    <3>1. [op |-> "ingest", dev |-> d, map |-> links[d]] \in Errand
      BY DEF LinkTypes, Errand
    <3> QED
      BY <2>13, <3>1 DEF IngestRead, LinkTypes
  <2>14. ASSUME NEW w \in Hands, NEW n \in Numbers, IngestWrite(w, n) PROVE LinkTypes'
    BY <2>14 DEF IngestWrite, LinkTypes, NoErrand, Errand
  <2>15. CASE UNCHANGED registryVars
    BY <2>15 DEF registryVars, LinkTypes
  <2> QED
    BY <2>1, <2>2, <2>3, <2>4, <2>5, <2>6, <2>7, <2>8, <2>9, <2>10, <2>11, <2>12, <2>13, <2>14,
       <2>15 DEF RegistryNext, Registry, RegistryWork
<1> QED
  BY <1>1, <1>2, PTL DEF RegistrySpec

(* On a device an employee has one number, whatever links are confirmed,     *)
(* moved and written at the same time (biometric_enrollment_save).           *)
THEOREM OneNumberForEach == RegistrySpec => []OneNumberEach
<1>1. RegistryInit => OneNumberEach
  BY DEF RegistryInit, OneNumberEach, Unlinked
<1>2. LinkTypes /\ OneNumberEach /\ [RegistryNext]_registryVars => OneNumberEach'
  <2> SUFFICES ASSUME LinkTypes, OneNumberEach, [RegistryNext]_registryVars
               PROVE  OneNumberEach'
    OBVIOUS
  <2>1. CASE UNCHANGED links
    BY <2>1 DEF OneNumberEach
  <2>2. ASSUME NEW d \in Ids, NEW e \in Ids, Renumber(d, e) PROVE OneNumberEach'
    BY <2>2 DEF Renumber, OneNumberEach, LinkTypes, Unlinked
  <2>3. ASSUME NEW d \in Ids, PurgeDevice(d) PROVE OneNumberEach'
    BY <2>3 DEF PurgeDevice, Purged, OneNumberEach, LinkTypes, Unlinked
  <2>4. ASSUME NEW w \in Hands, LinkCommit(w), ~UNCHANGED links PROVE OneNumberEach'
    <3>1. PICK l \in Link : links' = LinksAfter(l)
      BY <2>4, LinkingHasLink DEF LinkCommit
    <3>2. l.dev \in Ids /\ l.num \in Numbers /\ l.emp \in Employees
      BY DEF Link
    <3>3. ASSUME NEW d \in Ids, d # l.dev PROVE links'[d] = links[d]
      BY <3>1, <3>2, <3>3 DEF LinksAfter, LinkTypes
    <3>4. ASSUME NEW n \in Numbers
          PROVE  links'[l.dev][n] = IF n = l.num THEN l.emp
                                    ELSE IF links[l.dev][n] = l.emp THEN Absent
                                    ELSE links[l.dev][n]
      BY <3>1, <3>2 DEF LinksAfter, LinkTypes
    <3> QED
      BY <3>2, <3>3, <3>4 DEF OneNumberEach
  <2> QED
    BY <2>1, <2>2, <2>3, <2>4 DEF RegistryNext, Registry, RegistryWork, registryVars, CreateDevice,
       EditDevice, SoftDelete, GenerateKey, RequestPull, TestLoad, TestSave, LinkCheck, LinkLog,
       IngestRead, IngestWrite
<1> QED
  BY <1>1, <1>2, LinkTypesInvariant, PTL DEF RegistrySpec

(* Where one worker serves one request at a time: punches carry the employee  *)
(* of their number's link, and an import has read the links as they are.      *)
PunchTypes == punches \subseteq PunchRow
MapIsCurrent ==
  \A w \in Hands : errand[w].op = "ingest" =>
    \A n \in Numbers : errand[w].map[n] = links[errand[w].dev][n]
FollowInv == LinkTypes /\ PunchTypes /\ PunchesFollowLinks /\ MapIsCurrent

(* An import has read a map of the numbers of a device.                       *)
LEMMA IngestHasMap ==
  ASSUME LinkTypes, NEW w \in Hands, errand[w].op = "ingest"
  PROVE  errand[w].dev \in Ids /\ errand[w].map \in [Numbers -> Employees \cup {Absent}]
BY DEF LinkTypes, Errand

(* A step that leaves links, punches and the errands that import alone.       *)
LEMMA ElsewhereKeeps ==
  ASSUME FollowInv, LinkTypes', UNCHANGED <<links, punches>>,
         \A w \in Hands : errand'[w].op = "ingest" => errand'[w] = errand[w]
  PROVE  FollowInv'
BY DEF FollowInv, PunchTypes, PunchesFollowLinks, MapIsCurrent

(* Every punch of a linked number carries the employee of the link, across    *)
(* links, imports, renumbering and reused device numbers, where the server    *)
(* has one worker.                                                            *)
THEOREM PunchesFollow ==
  ASSUME OneHand, \A v, w \in Hands : v = w
  PROVE  RegistrySpec => []PunchesFollowLinks
<1>1. RegistryInit => PunchTypes /\ PunchesFollowLinks /\ MapIsCurrent
  BY DEF RegistryInit, PunchTypes, PunchesFollowLinks, MapIsCurrent, NoErrand
<1>2. LinkTypes /\ LinkTypes' /\ FollowInv /\ [RegistryNext]_registryVars => FollowInv'
  <2> SUFFICES ASSUME LinkTypes, LinkTypes', FollowInv, [RegistryNext]_registryVars
               PROVE  FollowInv'
    OBVIOUS
  <2> USE DEF FollowInv
  <2> DEFINE Idle == \A w \in Hands : errand[w] = NoErrand
  <2>1. ASSUME Idle, UNCHANGED errand PROVE MapIsCurrent'
    BY <2>1 DEF MapIsCurrent, NoErrand
  <2>2. ASSUME NEW d \in Ids, NEW e \in Ids, Idle, Renumber(d, e) PROVE FollowInv'
    <3> SUFFICES PunchTypes' /\ PunchesFollowLinks'
      BY <2>1, <2>2 DEF Renumber
    <3>1. d # e /\ links' = [links EXCEPT ![e] = links[d], ![d] = Unlinked]
      BY <2>2 DEF Renumber
    <3>2. /\ links'[d] = Unlinked /\ links'[e] = links[d]
          /\ \A o \in Ids \ {d, e} : links'[o] = links[o]
      BY <3>1 DEF LinkTypes
    <3> SUFFICES ASSUME NEW p \in PunchesBut(e)
                 PROVE  LET q == IF p.dev = d THEN [p EXCEPT !.dev = e] ELSE p
                        IN q \in PunchRow /\ (links'[q.dev][q.num] # Absent
                                                => q.emp = links'[q.dev][q.num])
      BY <2>2 DEF Renumber, PunchTypes, PunchesFollowLinks
    <3>3. p \in punches /\ p \in PunchRow /\ p.dev # e
      BY DEF PunchesBut, PunchTypes
    <3>4. links[p.dev][p.num] # Absent => p.emp = links[p.dev][p.num]
      BY <3>3 DEF PunchesFollowLinks
    <3>5. CASE p.dev = d
      BY <3>2, <3>3, <3>4, <3>5 DEF PunchRow
    <3>6. CASE p.dev # d
      BY <3>2, <3>3, <3>4, <3>6 DEF PunchRow
    <3> QED
      BY <3>5, <3>6
  <2>3. ASSUME NEW d \in Ids, Idle, PurgeDevice(d) PROVE FollowInv'
    <3>1. PunchTypes'
      BY <2>3 DEF PurgeDevice, Purged, PunchesBut, PunchTypes
    <3>2. PunchesFollowLinks'
      BY <2>3 DEF PurgeDevice, Purged, PunchesBut, PunchTypes, PunchesFollowLinks, LinkTypes, PunchRow
    <3> QED
      BY <2>1, <2>3, <3>1, <3>2 DEF PurgeDevice
  <2>4. ASSUME NEW w \in Hands, LinkCommit(w) PROVE FollowInv'
    <3>1. CASE UNCHANGED <<links, punches>>
      BY <2>4, <3>1, ElsewhereKeeps DEF LinkCommit, LinkTypes, NoErrand
    <3>2. CASE links' = LinksAfter(errand[w].link) /\ punches' = Relinked(errand[w].link)
      <4> DEFINE l == errand[w].link
      <4>1. l \in Link
        BY <2>4, LinkingHasLink DEF LinkCommit
      <4> HIDE DEF l
      <4>2. l.dev \in Ids /\ l.num \in Numbers /\ l.emp \in Employees
        BY <4>1 DEF Link
      <4>3. \A d \in Ids \ {l.dev} : links'[d] = links[d]
        BY <3>2, <4>2 DEF LinksAfter, LinkTypes, l
      <4>4. \A n \in Numbers :
              links'[l.dev][n] = IF n = l.num THEN l.emp
                                 ELSE IF links[l.dev][n] = l.emp THEN Absent
                                 ELSE links[l.dev][n]
        BY <3>2, <4>2 DEF LinksAfter, LinkTypes, l
      <4>5. MapIsCurrent'
        BY <2>4 DEF LinkCommit, MapIsCurrent, LinkTypes, NoErrand
      <4>0. punches' = {IF p.dev = l.dev /\ p.num = l.num THEN [p EXCEPT !.emp = l.emp]
                        ELSE p : p \in punches}
        BY <3>2 DEF Relinked, l
      <4> SUFFICES PunchTypes' /\ PunchesFollowLinks'
        BY <4>5
      <4> SUFFICES ASSUME NEW q \in punches'
                   PROVE  q \in PunchRow /\ (links'[q.dev][q.num] # Absent
                                                => q.emp = links'[q.dev][q.num])
        BY DEF PunchTypes, PunchesFollowLinks
      <4> PICK p \in punches : q = IF p.dev = l.dev /\ p.num = l.num THEN [p EXCEPT !.emp = l.emp] ELSE p
        BY <4>0
      <4>6. p \in PunchRow /\ (links[p.dev][p.num] # Absent => p.emp = links[p.dev][p.num])
        BY DEF PunchTypes, PunchesFollowLinks
      <4>7. CASE p.dev = l.dev /\ p.num = l.num
        BY <4>2, <4>4, <4>6, <4>7 DEF PunchRow
      <4>8. CASE ~(p.dev = l.dev /\ p.num = l.num)
        BY <4>2, <4>3, <4>4, <4>6, <4>8 DEF PunchRow
      <4> QED
        BY <4>7, <4>8
    <3> QED
      BY <2>4, <3>1, <3>2 DEF LinkCommit
  <2>5. ASSUME NEW w \in Hands, NEW d \in Ids, IngestRead(w, d) PROVE FollowInv'
    <3>1. \A v \in Hands : v = w
      OBVIOUS
    <3>2. errand'[w] = [op |-> "ingest", dev |-> d, map |-> links[d]]
      BY <2>5 DEF IngestRead, LinkTypes
    <3>3. MapIsCurrent'
      BY <2>5, <3>1, <3>2 DEF IngestRead, MapIsCurrent
    <3> QED
      BY <2>5, <3>3 DEF IngestRead, PunchTypes, PunchesFollowLinks
  <2>6. ASSUME NEW w \in Hands, NEW n \in Numbers, IngestWrite(w, n) PROVE FollowInv'
    <3> DEFINE q == [dev |-> errand[w].dev, num |-> n, emp |-> errand[w].map[n]]
    <3>1. q \in PunchRow /\ q.emp = links[q.dev][q.num]
      BY <2>6, IngestHasMap DEF IngestWrite, PunchRow, MapIsCurrent
    <3>2. punches' = punches \/ punches' = punches \cup {q}
      BY <2>6 DEF IngestWrite
    <3>3. UNCHANGED links /\ MapIsCurrent'
      BY <2>6 DEF IngestWrite, MapIsCurrent, LinkTypes, NoErrand
    <3> QED
      BY <3>1, <3>2, <3>3 DEF PunchTypes, PunchesFollowLinks
  <2>7. CASE UNCHANGED <<links, punches, errand>>
    BY <2>7, ElsewhereKeeps
  <2>8. ASSUME NEW w \in Hands, NEW d \in Ids, TestLoad(w, d) PROVE FollowInv'
    BY <2>8, ElsewhereKeeps DEF TestLoad, LinkTypes
  <2>9. ASSUME NEW w \in Hands, TestSave(w) \/ LinkLog(w) PROVE FollowInv'
    BY <2>9, ElsewhereKeeps DEF TestSave, LinkLog, LinkTypes, NoErrand
  <2>10. ASSUME NEW w \in Hands, NEW l \in Link, NEW force \in BOOLEAN, LinkCheck(w, l, force)
         PROVE  FollowInv'
    BY <2>10, ElsewhereKeeps DEF LinkCheck, LinkTypes
  <2>11. ASSUME Idle, Registry PROVE FollowInv'
    BY <2>2, <2>3, <2>7, <2>11 DEF Registry, CreateDevice, EditDevice, SoftDelete, GenerateKey,
       RequestPull
  <2>12. ASSUME NEW w \in Hands, RegistryWork(w) PROVE FollowInv'
    BY <2>4, <2>5, <2>6, <2>8, <2>9, <2>10, <2>12 DEF RegistryWork
  <2> QED
    BY <2>7, <2>11, <2>12 DEF RegistryNext, registryVars
<1> QED
  BY <1>1, <1>2, LinkTypesInvariant, PTL DEF RegistrySpec, FollowInv

(***************************************************************************)
(* AttendanceDay: a reclassified day is right.                             *)
(***************************************************************************)

(* A finite set of numbers has a greatest one: by the least counterexample.   *)
LEMMA MaxOfFinite ==
  ASSUME NEW S \in SUBSET Nat, S # {}, IsFiniteSet(S)
  PROVE  Max(S) \in S /\ \A y \in S : Max(S) >= y
<1> DEFINE HasMax(U) == \E x \in U : \A y \in U : x >= y
           Sizes == {Cardinality(U) : U \in {U \in SUBSET S : U # {} /\ ~HasMax(U)}}
<1>1. HasMax(S)
  <2> SUFFICES ASSUME ~HasMax(S) PROVE FALSE
    OBVIOUS
  <2>1. Sizes \in SUBSET Nat
    <3>1. \A U \in SUBSET S : Cardinality(U) \in Nat
      BY FS_Subset, FS_CardinalityType
    <3> QED
      BY <3>1
  <2>2. Sizes # {}
    OBVIOUS
  <2>3. PICK U \in SUBSET S : /\ U # {} /\ ~HasMax(U)
                              /\ \A V \in SUBSET S : V # {} /\ ~HasMax(V) => Cardinality(U) <= Cardinality(V)
    <3>1. Min(Sizes) \in Sizes /\ \A y \in Sizes : Min(Sizes) <= y
      <4> HIDE DEF Sizes
      <4> QED
        BY <2>1, <2>2, MinOfNats
    <3>2. PICK U \in SUBSET S : U # {} /\ ~HasMax(U) /\ Min(Sizes) = Cardinality(U)
      BY <3>1
    <3> QED
      BY <3>1, <3>2
  <2>4. PICK u \in U : TRUE
    BY <2>3
  <2>5. IsFiniteSet(U) /\ Cardinality(U \ {u}) = Cardinality(U) - 1 /\ Cardinality(U) \in Nat
    BY <2>4, FS_Subset, FS_RemoveElement, FS_CardinalityType
  <2>6. CASE U \ {u} = {}
    BY <2>3, <2>4, <2>6
  <2>7. CASE U \ {u} # {}
    <3>1. HasMax(U \ {u})
      <4> DEFINE V == U \ {u}
      <4>1. V \in SUBSET S /\ V # {} /\ IsFiniteSet(V) /\ Cardinality(V) = Cardinality(U) - 1
        BY <2>5, <2>7, FS_RemoveElement
      <4>2. ~(Cardinality(U) <= Cardinality(V))
        BY <2>5, <4>1
      <4> HIDE DEF V, HasMax
      <4>3. HasMax(V)
        BY <2>3, <4>1, <4>2
      <4> QED
        BY <4>3 DEF V
    <3>2. PICK m \in U \ {u} : \A y \in U \ {u} : m >= y
      BY <3>1
    <3>3. CASE m >= u
      BY <2>3, <3>2, <3>3
    <3>4. CASE u >= m
      <4>1. \A y \in U : u >= y
        BY <3>2, <3>4
      <4> QED
        BY <2>3, <2>4, <4>1
    <3> QED
      BY <3>3, <3>4
  <2> QED
    BY <2>6, <2>7
<1>2. PICK x \in S : \A y \in S : x >= y
  BY <1>1
<1> QED
  BY <1>2 DEF Max

(* The punches of a device that sent nothing since it was read have the       *)
(* directions of their order, or the reclassification under way gives them.   *)
InOrder == \A s \in Sorted :
  (IF plan # NoPunch /\ s \in DOMAIN plan THEN plan[s] ELSE direction[s]) = Direction(Rank(s))
DayInv ==
  /\ direction \in [Slot -> Directions \cup {NoPunch}] /\ IsFiniteSet(Stored)
  /\ plan # NoPunch => plan \in [DOMAIN plan -> Directions] /\ DOMAIN plan \subseteq Stored
  /\ InOrder
  /\ grace \in Graces /\ sorted \subseteq Readers

LEMMA DayInvariant == DaySpec => []DayInv
<1>1. DayInit => DayInv
  <2> SUFFICES ASSUME DayInit PROVE DayInv
    OBVIOUS
  <2>1. Stored = {}
    BY DEF DayInit, Stored
  <2> QED
    BY <2>1, FS_EmptySet DEF DayInit, DayInv, InOrder, Sorted
<1>2. DayInv /\ [DayNext]_dayVars => DayInv'
  <2> SUFFICES ASSUME DayInv, [DayNext]_dayVars PROVE DayInv'
    OBVIOUS
  <2> USE DEF DayInv
  <2>0. \A r : Direction(r) \in Directions /\ Direction(r) # NoPunch
    BY AttendanceAssumption DEF Direction, Directions
  <2>1. ASSUME NEW s \in Slot, NEW d \in Directions, Arrives(s, d) PROVE DayInv'
    <3>1. /\ direction' \in [Slot -> Directions \cup {NoPunch}] /\ sorted' = sorted \ {s[1]}
          /\ UNCHANGED <<plan, grace>>
          /\ \A o \in Slot \ {s} : direction'[o] = direction[o]
      BY <2>1 DEF Arrives
    <3>2. Stored' = Stored \cup {s}
      BY <2>1, AttendanceAssumption DEF Arrives, Stored
    <3>3. IsFiniteSet(Stored')
      BY <3>2, FS_AddElement
    <3>4. ASSUME NEW o \in Sorted' PROVE o \in Sorted /\ o # s /\ o \in Slot /\ Rank(o)' = Rank(o)
      <4>1. o \in Stored' /\ o[1] # s[1] /\ o[1] \in sorted
        BY <3>1, <3>4 DEF Sorted
      <4> QED
        BY <3>2, <4>1 DEF Sorted, Stored, Rank
    <3>5. InOrder'
      BY <3>1, <3>4 DEF InOrder, Direction
    <3> QED
      BY <3>1, <3>2, <3>3, <3>5
  <2>2. ASSUME NEW D \in SUBSET Readers, ReclassifyRead(D) PROVE DayInv'
    <3> DEFINE read == {s \in Stored : s[1] \in D}
    <3>1. UNCHANGED <<direction, grace>> /\ Stored' = Stored /\ sorted' = sorted \cup D /\ plan = NoPunch
      BY <2>2 DEF ReclassifyRead, Stored
    <3>2. plan' = [s \in read |-> Direction(Rank(s))]
      BY <2>2 DEF ReclassifyRead
    <3>3. plan' \in [read -> Directions] /\ read \subseteq Stored /\ read \in SUBSET Slot
      BY <2>0, <3>2 DEF Stored
    <3>4. plan' # NoPunch /\ DOMAIN plan' = read
      BY <3>3, AttendanceAssumption
    <3>5. \A s \in Stored : Rank(s)' = Rank(s)
      BY <3>1 DEF Rank
    <3>6. ASSUME NEW s \in Sorted'
          PROVE  (IF s \in read THEN plan'[s] ELSE direction'[s]) = Direction(Rank(s)')
      <4>1. s \in Stored /\ (s \in read \/ s \in Sorted)
        BY <3>1, <3>6 DEF Sorted
      <4> QED
        BY <3>1, <3>2, <3>5, <4>1 DEF InOrder
    <3> QED
      BY <3>1, <3>3, <3>4, <3>6 DEF InOrder, Direction
  <2>3. CASE ReclassifyWrite
    <3>1. /\ plan' = NoPunch /\ plan # NoPunch /\ UNCHANGED <<grace, sorted>>
          /\ \A s \in Slot : direction'[s] = IF s \in DOMAIN plan THEN plan[s] ELSE direction[s]
          /\ DOMAIN direction' = Slot
      BY <2>3 DEF ReclassifyWrite
    <3>2. /\ plan \in [DOMAIN plan -> Directions] /\ DOMAIN plan \subseteq Stored
          /\ \A s \in DOMAIN plan : plan[s] \in Directions /\ plan[s] # NoPunch
      BY <2>3, AttendanceAssumption DEF ReclassifyWrite
    <3>3. direction' \in [Slot -> Directions \cup {NoPunch}]
      BY <2>3, <3>2 DEF ReclassifyWrite
    <3>4. Stored' = Stored
      BY <3>1, <3>2 DEF Stored
    <3>5. InOrder'
      <4>1. \A s \in Stored : Rank(s)' = Rank(s)
        BY <3>4 DEF Rank
      <4>2. Sorted' = Sorted /\ Sorted \subseteq Slot
        BY <3>1, <3>4 DEF Sorted, Stored
      <4> QED
        BY <3>1, <4>1, <4>2 DEF InOrder, Sorted, Direction
    <3> QED
      BY <3>1, <3>3, <3>4, <3>5
  <2>4. ASSUME UNCHANGED <<direction, plan, sorted>>, grace' \in Graces PROVE DayInv'
    <3>1. Stored' = Stored
      BY <2>4 DEF Stored
    <3>2. \A s \in Stored : Rank(s)' = Rank(s)
      BY <3>1 DEF Rank
    <3> QED
      BY <2>4, <3>1, <3>2 DEF InOrder, Sorted, Direction
  <2> QED
    BY <2>1, <2>2, <2>3, <2>4 DEF DayNext, Reclassify, SetGrace, dayVars
<1> QED
  BY <1>1, <1>2, PTL DEF DaySpec

(* Once a reclassification of one device or of all is written, the day begins *)
(* no later than the first punch of a device that sent nothing since it was   *)
(* read, and is complete if it has two; with every device in order, it begins *)
(* with the first punch and is late only if they all are: for every number of *)
(* devices and punches, one reclassification at a time.                       *)
THEOREM DayIsRight == DaySpec => []ReclassifiedDayIsRight
<1>1. DayInv => ReclassifiedDayIsRight
  <2> SUFFICES ASSUME DayInv, plan = NoPunch
               PROVE  /\ \A s \in Sorted : CheckIn # NoPunch /\ CheckIn <= s[2]
                      /\ (\E a, b \in Sorted : a[1] = b[1] /\ a # b) => Complete
                      /\ (Stored # {} /\ Stored = Sorted) =>
                            /\ CheckIn = Min({s[2] : s \in Stored})
                            /\ Late <=> \A s \in Stored : s[2] > Expected + Grace
    BY DEF ReclassifiedDayIsRight
  <2> DEFINE times == {s[2] : s \in Stored}
             ins == Times("in")
             outs == Times("out")
  <2>1. /\ \A s \in Stored : s \in Slot /\ s[2] \in Nat
        /\ Sorted \subseteq Stored /\ \A s \in Sorted : direction[s] = Direction(Rank(s))
        /\ \A s \in Sorted, o \in Stored : s[1] = o[1] => o \in Sorted
    BY AttendanceAssumption DEF DayInv, InOrder, Stored, Sorted, Slot
  <2>2. times \in SUBSET Nat /\ ins \subseteq times /\ outs \subseteq times
    BY <2>1 DEF Times
  <2>3. ASSUME NEW b \in Sorted
        PROVE  \E m \in Sorted : /\ m[1] = b[1] /\ m[2] \in ins
                                 /\ \A o \in Stored : o[1] = b[1] => m[2] <= o[2]
    <3> DEFINE T == {s[2] : s \in {s \in Stored : s[1] = b[1]}}
    <3>1. T \in SUBSET Nat /\ T # {}
      BY <2>1
    <3>2. Min(T) \in T /\ \A y \in T : Min(T) <= y
      <4> HIDE DEF T
      <4> QED
        BY <3>1, MinOfNats
    <3>3. PICK m \in Stored : m[1] = b[1] /\ \A o \in Stored : o[1] = b[1] => m[2] <= o[2]
      BY <3>2
    <3>4. {o \in Stored : o[1] = m[1] /\ o[2] < m[2]} = {}
      <4>1. \A o \in Stored : o[1] = m[1] => m[2] <= o[2] /\ o[2] \in Nat /\ m[2] \in Nat
        BY <2>1, <3>3
      <4> QED
        BY <4>1
    <3>5. Rank(m) = 0 /\ m \in Sorted
      BY <2>1, <3>3, <3>4, FS_EmptySet DEF Rank
    <3>6. direction[m] = "in"
      BY <2>1, <3>5 DEF Direction
    <3> QED
      BY <3>3, <3>5, <3>6 DEF Times
  <2>4. ASSUME ins # {}
        PROVE  CheckIn \in ins /\ CheckIn \in Nat /\ CheckIn # NoPunch /\ \A y \in ins : CheckIn <= y
    <3> HIDE DEF ins, times
    <3>1. Min(ins) \in ins /\ \A y \in ins : Min(ins) <= y
      BY <2>2, <2>4, MinOfNats
    <3>2. CheckIn = Min(ins)
      BY <2>4 DEF CheckIn, ins
    <3> QED
      BY <2>2, <3>1, <3>2, AttendanceAssumption
  <2> HIDE DEF times, ins, outs
  <2>5. ASSUME NEW s \in Sorted PROVE CheckIn # NoPunch /\ CheckIn <= s[2]
    <3>1. PICK m \in Sorted : m[2] \in ins /\ m[2] <= s[2]
      BY <2>1, <2>3
    <3>2. CheckIn # NoPunch /\ CheckIn <= m[2] /\ CheckIn \in Nat
      BY <2>4, <3>1
    <3> QED
      BY <2>1, <3>1, <3>2
  <2>6. ASSUME NEW b \in Sorted, NEW c \in Sorted, b[1] = c[1], b # c PROVE Complete
    <3>1. PICK m \in Sorted : /\ m[1] = b[1] /\ m[2] \in ins
                              /\ \A o \in Stored : o[1] = b[1] => m[2] <= o[2]
      BY <2>3
    <3> DEFINE R == {s \in Stored : s[1] = b[1] /\ s # m}
               T == {s[2] : s \in R}
    <3>2. R # {}
      BY <2>1, <2>6
    <3>3. T \in SUBSET Nat /\ T # {}
      BY <2>1, <3>2
    <3>4. Min(T) \in T /\ \A y \in T : Min(T) <= y
      <4> HIDE DEF T
      <4> QED
        BY <3>3, MinOfNats
    <3>5. PICK n \in R : \A o \in R : n[2] <= o[2]
      BY <3>4
    <3>6. \A s \in R : m[2] < s[2]
      <4> TAKE s \in R
      <4>1. s \in Slot /\ m \in Slot /\ s[1] = m[1] /\ s # m /\ m[2] <= s[2]
            /\ m[2] \in Nat /\ s[2] \in Nat
        BY <2>1, <3>1
      <4>2. s[2] # m[2]
        BY <4>1 DEF Slot
      <4> QED
        BY <4>1, <4>2
    <3>7. {o \in Stored : o[1] = n[1] /\ o[2] < n[2]} = {m}
      <4>1. \A o \in R : ~(o[2] < n[2])
        BY <2>1, <3>5
      <4> QED
        BY <2>1, <3>1, <3>6, <4>1
    <3>8. Rank(n) = 1
      BY <3>7, FS_Singleton DEF Rank
    <3>9. direction[n] = "out"
      BY <2>1, <3>8 DEF Direction
    <3>10. n[2] \in outs
      BY <3>9 DEF outs, Times
    <3>11. IsFiniteSet(outs)
      <4>1. IsFiniteSet({s \in Stored : direction[s] = "out"})
        BY FS_Subset DEF DayInv
      <4> DEFINE W == {s \in Stored : direction[s] = "out"}
                 f == [s \in W |-> s[2]]
      <4>2. f \in Surjection(W, outs)
        BY DEF Surjection, outs, Times
      <4> QED
        BY <4>1, <4>2, FS_Surjection
    <3>12. Max(outs) \in outs /\ Max(outs) >= n[2]
      <4>1. outs \in SUBSET Nat
        BY <2>2
      <4> QED
        BY <3>10, <3>11, <4>1, MaxOfFinite
    <3>13. CheckIn < n[2] /\ n[2] \in Nat /\ CheckIn \in Nat /\ CheckIn # NoPunch
      <4>1. CheckIn <= m[2] /\ CheckIn \in Nat /\ CheckIn # NoPunch
        BY <2>4, <3>1
      <4>2. m[2] < n[2] /\ m[2] \in Nat /\ n[2] \in Nat
        BY <2>1, <3>6
      <4> QED
        BY <4>1, <4>2
    <3>14. CheckOut = Max(outs) /\ Max(outs) \in Nat
      BY <2>2, <3>10, <3>12 DEF CheckOut, outs
    <3> QED
      BY <3>12, <3>13, <3>14, AttendanceAssumption DEF Complete
  <2>7. ASSUME Stored # {}, Stored = Sorted
        PROVE  CheckIn = Min(times) /\ (Late <=> \A s \in Stored : s[2] > Expected + Grace)
    <3>1. Min(times) \in times /\ \A y \in times : Min(times) <= y
      <4>1. times # {}
        BY <2>7 DEF times
      <4> QED
        BY <2>2, <4>1, MinOfNats
    <3>2. CheckIn \in times /\ CheckIn \in Nat /\ CheckIn # NoPunch /\ \A s \in Stored : CheckIn <= s[2]
      <4>1. ins # {}
        BY <2>3, <2>7
      <4> QED
        BY <2>2, <2>4, <2>5, <2>7, <4>1
    <3>3. CheckIn = Min(times)
      <4>1. \A y \in times : CheckIn <= y
        BY <3>2 DEF times
      <4>2. CheckIn <= Min(times) /\ Min(times) <= CheckIn /\ Min(times) \in Nat
        BY <2>2, <3>1, <3>2, <4>1
      <4> QED
        BY <3>2, <4>2
    <3>4. PICK a \in Stored : a[2] = CheckIn
      BY <3>2 DEF times
    <3>5. Expected + Grace \in Nat
      BY AttendanceAssumption DEF Grace, DayInv
    <3>6. Late <=> \A s \in Stored : s[2] > Expected + Grace
      BY <2>1, <3>2, <3>4, <3>5 DEF Late
    <3> QED
      BY <3>3, <3>6
  <2> QED
    BY <2>5, <2>6, <2>7 DEF times
<1> QED
  BY <1>1, DayInvariant, PTL
=============================================================================
