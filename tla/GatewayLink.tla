------------------------------ MODULE GatewayLink ------------------------------
(* The page that connects the company's WhatsApp through the gateway.  The    *)
(* one row of settings keeps the connection as it was last heard of: from the *)
(* gateway's webhooks, which any worker handles as they come, and from the    *)
(* requests of the page, which load the row, ask the gateway and then save.   *)
EXTENDS Integers, Sequences, FiniteSets

CONSTANTS
  Names,       \* instances of the gateway
  Admins,      \* requests of the page that may be under way at once
  Forms,       \* what may be entered in the form of the page
  NoJob,
  MaxEvents    \* bound: requests, and what happens at the gateway

Form == [name : Names, key : {"right", "wrong"}, hook : BOOLEAN]

ConnectionStatus == {"unknown", "open", "close", "connecting"}
Setup == [name : Names, key : {"right", "wrong"}, hook : BOOLEAN,
          status : ConnectionStatus, code : BOOLEAN]
Buttons == {"save", "refresh", "create", "connect", "webhook"}
Event == [name : Names, kind : {"code", "connection"}, state : {"open", "close", "connecting"}]
Answer == [state : ConnectionStatus \cup {"failed"}, code : BOOLEAN]
Job == [op : Buttons, form : SUBSET Form, seen : Setup, stage : {"loaded", "saved", "answered"},
        answer : Answer, late : BOOLEAN]

ASSUME GatewayAssumption ==
  Forms \subseteq Form /\ MaxEvents \in Nat /\ NoJob \notin Job

VARIABLES
  setup,     \* EvolutionWhatsAppSettings: [name, key, hook, status, code]
  gate,      \* external: each instance at the gateway
  hooked,    \* external: whether an instance sends its webhooks
  posts,     \* webhooks on their way, in the order they were sent
  job,       \* the request of each administrator
  heard,     \* history: the status ought to be the latest
  spent      \* bound
gatewayVars == <<setup, gate, hooked, posts, job, heard, spent>>

GatewayTypeOK ==
  /\ setup \in Setup /\ gate \in [Names -> {"absent", "close", "connecting", "open"}]
  /\ hooked \in [Names -> BOOLEAN] /\ posts \in Seq(Event)
  /\ job \in [Admins -> Job \cup {NoJob}] /\ heard \in BOOLEAN /\ spent \in 0..MaxEvents

GatewayInit ==
  /\ setup \in {s \in Setup : s.key = "right" /\ s.hook /\ s.status = "unknown" /\ ~s.code}
  /\ gate = [n \in Names |-> "absent"] /\ hooked = [n \in Names |-> FALSE]
  /\ posts = <<>> /\ job = [a \in Admins |-> NoJob] /\ heard = TRUE /\ spent = 0

Spend == spent < MaxEvents /\ spent' = spent + 1

\* Requests under way have read, or have been told, what is now out of date.
Outdated == [a \in Admins |-> IF job[a] = NoJob THEN NoJob ELSE [job[a] EXCEPT !.late = TRUE]]

-----------------------------------------------------------------------------
(* The gateway *)

Sends(n, kind, state) ==
  posts' = IF hooked[n] THEN Append(posts, [name |-> n, kind |-> kind, state |-> state]) ELSE posts

\* The telephone scans the code, gives up, is lost or comes back.
Moves(n, state) ==
  /\ Spend
  /\ <<gate[n], state>> \in {<<"connecting", "open">>, <<"connecting", "close">>,
                             <<"open", "close">>, <<"close", "open">>}
  /\ gate' = [gate EXCEPT ![n] = state] /\ Sends(n, "connection", state)
  /\ job' = Outdated /\ heard' = (heard /\ (hooked[n] \/ n # setup.name))
  /\ UNCHANGED <<setup, hooked>>
NewCode(n) ==
  /\ Spend /\ gate[n] = "connecting" /\ Sends(n, "code", "connecting")
  /\ UNCHANGED <<setup, gate, hooked, job, heard>>

-----------------------------------------------------------------------------
(* EvolutionWebhookView.post *)

Without(k) == SubSeq(posts, 1, k - 1) \o SubSeq(posts, k + 1, Len(posts))

\* A code means connecting; an open connection takes the code off the page.  The
\* instance the webhook is about is not looked at.
Apply(e) ==
  IF e.kind = "code" THEN [setup EXCEPT !.status = "connecting", !.code = TRUE]
  ELSE [setup EXCEPT !.status = e.state, !.code = @ /\ e.state # "open"]
Deliver(k) ==
  /\ k \in DOMAIN posts /\ setup.key = "right"
  /\ setup' = Apply(posts[k]) /\ posts' = Without(k)
  /\ job' = Outdated /\ heard' = (heard /\ k = 1 /\ posts[k].name = setup.name)
  /\ UNCHANGED <<gate, hooked, spent>>
\* Lost, over the 120 of an hour, or sent with a key that is not the one saved.
Refuse(k) ==
  /\ k \in DOMAIN posts /\ posts' = Without(k)
  /\ heard' = FALSE
  /\ UNCHANGED <<setup, gate, hooked, job, spent>>

-----------------------------------------------------------------------------
(* whatsapp_integration *)

NoAnswer == [state |-> "unknown", code |-> FALSE]

\* With any button the page may send its form along; the page that only looks has none.
Press(a, op, form) ==
  /\ job[a] = NoJob /\ Spend /\ (op = "save" => form # {})
  /\ job' = [job EXCEPT ![a] = [op |-> op, form |-> form, seen |-> setup, stage |-> "loaded",
                                answer |-> NoAnswer, late |-> FALSE]]
  /\ UNCHANGED <<setup, gate, hooked, posts, heard>>

Leaves(a) == job' = [job EXCEPT ![a] = NoJob]
Continues(a, j) == job' = [job EXCEPT ![a] = j]

\* _apply_settings_from_post: the form saves the whole row, the status it has loaded
\* included, also under another name.
SaveForm(a) ==
  LET j == job[a]
      filled(f) == [j.seen EXCEPT !.name = f.name, !.key = f.key, !.hook = f.hook]
  IN /\ j # NoJob /\ j.stage = "loaded"
     /\ IF j.form = {} THEN setup' = setup /\ UNCHANGED heard /\ Continues(a, [j EXCEPT !.stage = "saved"])
        ELSE \E f \in j.form :
          /\ setup' = filled(f)
          /\ heard' = (heard /\ ~j.late /\ f.name = setup.name)
          /\ job' = [Outdated EXCEPT ![a] =
               IF j.op = "save" THEN NoJob ELSE [j EXCEPT !.seen = filled(f), !.stage = "saved"]]
     /\ UNCHANGED <<gate, hooked, posts, spent>>

Mine(a) == job[a] # NoJob /\ job[a].stage = "saved"
Reached(a) == job[a].seen.key = "right" /\ gate[job[a].seen.name] # "absent"
Answered(a, state, code) ==
  [job[a] EXCEPT !.stage = "answered", !.answer = [state |-> state, code |-> code], !.late = FALSE]

\* An error, or no answer in time: only a refresh goes on.
Fails(a) ==
  /\ Mine(a)
  /\ IF job[a].op = "refresh"
     THEN Continues(a, [job[a] EXCEPT !.stage = "answered", !.answer.state = "failed"])
     ELSE Leaves(a)
  /\ UNCHANGED <<setup, gate, hooked, posts, heard, spent>>

\* fetch_connection_state
AskState(a) ==
  /\ Mine(a) /\ job[a].op = "refresh" /\ Reached(a)
  /\ Continues(a, Answered(a, gate[job[a].seen.name], FALSE))
  /\ UNCHANGED <<setup, gate, hooked, posts, heard, spent>>

\* find_instance, create_instance
AskCreate(a) ==
  LET n == job[a].seen.name
  IN /\ Mine(a) /\ job[a].op = "create" /\ job[a].seen.key = "right"
     /\ gate' = [gate EXCEPT ![n] = IF @ = "absent" THEN "close" ELSE @]
     /\ Leaves(a) /\ heard' = (heard /\ gate' = gate)
     /\ UNCHANGED <<setup, hooked, posts, spent>>

\* connect_instance: an open instance says so; another gives a code, and may not say
\* what state it is in.
AskConnect(a, state) ==
  LET n == job[a].seen.name
  IN /\ Mine(a) /\ job[a].op = "connect" /\ Reached(a)
     /\ IF gate[n] = "open"
        THEN state = "open" /\ Continues(a, Answered(a, state, FALSE)) /\ UNCHANGED <<gate, posts, heard>>
        ELSE /\ state \in {"unknown", "connecting"}
             /\ gate' = [gate EXCEPT ![n] = "connecting"] /\ Sends(n, "code", "connecting")
             /\ job' = [Outdated EXCEPT ![a] = Answered(a, state, TRUE)]
             /\ heard' = (heard /\ (hooked[n] \/ posts = <<>>))
     /\ UNCHANGED <<setup, hooked, spent>>

\* set_webhook
AskWebhook(a) ==
  /\ Mine(a) /\ job[a].op = "webhook" /\ Reached(a)
  /\ hooked' = [hooked EXCEPT ![job[a].seen.name] = job[a].seen.hook] /\ Leaves(a)
  /\ UNCHANGED <<setup, gate, posts, heard, spent>>

\* sync_settings_status saves the status it has loaded when the gateway did not answer.
Refreshed(j) ==
  [setup EXCEPT !.status = IF j.answer.state = "failed" THEN j.seen.status ELSE j.answer.state]
Mutant_Connected(j) ==
  [setup EXCEPT !.status = "connecting", !.code = j.answer.code \/ j.seen.code]
Connected(j) ==
  [setup EXCEPT !.status = j.answer.state, !.code = j.answer.code \/ j.seen.code]
StoreAnswer(a) ==
  LET j == job[a]
      asked == j.op = "refresh" /\ j.answer.state # "failed" /\ j.seen.name = setup.name
  IN /\ j # NoJob /\ j.stage = "answered"
     /\ setup' = IF j.op = "refresh" THEN Refreshed(j) ELSE Connected(j)
     /\ job' = [Outdated EXCEPT ![a] = NoJob]
     /\ heard' = (~j.late /\ ((asked /\ posts = <<>>) \/ (heard /\ j.seen.name = setup.name)))
     /\ UNCHANGED <<gate, hooked, posts, spent>>

GatewayNext ==
  \/ \E n \in Names : NewCode(n) \/ \E state \in {"open", "close"} : Moves(n, state)
  \/ \E k \in DOMAIN posts : Deliver(k) \/ Refuse(k)
  \/ \E a \in Admins :
       \/ \E op \in Buttons, form \in {{}} \cup {{f} : f \in Forms} : Press(a, op, form)
       \/ SaveForm(a) \/ Fails(a) \/ AskState(a) \/ AskCreate(a) \/ AskWebhook(a) \/ StoreAnswer(a)
       \/ \E state \in ConnectionStatus : AskConnect(a, state)

GatewaySpec == GatewayInit /\ [][GatewayNext]_gatewayVars

(* When nothing is under way, and since the last answer of the gateway every   *)
(* change of the instance was sent and handled in order and no request saved   *)
(* what it had read before another change, the page shows the instance as it   *)
(* is, or says that it does not know (EvolutionWebhookView.post,               *)
(* sync_settings_status, whatsapp_integration).                                *)
StatusIsLatest ==
  heard /\ posts = <<>> /\ (\A a \in Admins : job[a] = NoJob)
    => setup.status \in {"unknown", gate[setup.name]}
=============================================================================
