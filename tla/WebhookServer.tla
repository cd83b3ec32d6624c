---------------------------- MODULE WebhookServer ----------------------------
(* The GitHub App's HTTP server: one event loop that routes requests, reads    *)
(* their bodies chunk by chunk, classifies webhook deliveries, answers, and    *)
(* hands accepted deliveries on in a promise callback of its own; and the kill *)
(* switch route.  Chunks of several requests interleave; promise callbacks run *)
(* before the next event does, but the process may die before them.  The       *)
(* handoff is the bounded queue of createMemoryWebhookHandoff, or one that     *)
(* rejects.                                                                    *)
EXTENDS Naturals, Sequences, FiniteSets, Functions

CONSTANTS
  Requests,   \* requests that may arrive
  Inbound,    \* what a request may be
  None,
  KillRoute,  \* whether the server has a controller and an admin token
  MaxBody,    \* maxBodyBytes, in chunks
  MaxQueued   \* maxQueued

(* A body is its number of chunks and what JSON.parse and the action allowlist *)
(* make of it; an event with ALWAYS_ALLOWED lists the action of any object.    *)
Inbounds ==
  [route : {"health", "kill", "webhook", "other"}, method : {"GET", "POST"},
   token : BOOLEAN, size : Nat, signature : {"missing", "malformed", "wrong", "valid"},
   has_id : BOOLEAN, event : {"missing", "unlisted", "listed"},
   body : {"not_json", "not_object", "unlisted_action", "listed_action"}]
Closed == 0  \* instead of a status: the connection went before one was written
AnswerCodes == {200, 202, 400, 401, 404, 405, 500, Closed}
Tasks == [do : {"resolve", "enqueue"}, req : Requests]
  \cup [do : {"fail"}, req : Requests, status : {500, Closed}]

ASSUME InboundAreInbounds == Inbound \subseteq Inbounds
ASSUME EmptyIsNotJson == \A in \in Inbound : in.size = 0 => in.body = "not_json"
ASSUME LimitsAreNaturals == MaxBody \in Nat /\ MaxQueued \in Nat
ASSUME KillRouteIsBoolean == KillRoute \in BOOLEAN
ASSUME NoneIsNothing == None \notin Inbounds \cup AnswerCodes \cup Tasks

VARIABLES
  incoming,  \* incoming[r]: the request r is, or None before it arrives
  reading,   \* requests whose body readRawBody is waiting for
  got,       \* got[r]: chunks of r buffered
  task,      \* the promise callback due before the next event, or None
  answer,    \* answer[r]: what r's client got, or None
  queue,     \* deliveries of the memory handoff
  handed,    \* deliveries enqueued since the process started, in order
  taken,     \* deliveries drained
  reported,  \* deliveries whose handoff rejected: logged, or onAsyncHandoffError
  lost,      \* requests a process died on, and deliveries its queue died with
  killed     \* kill_switch_engaged in the runtime database

handoff == <<queue, handed, taken, reported>>
serverVars == <<incoming, reading, got, task, answer, handoff, lost, killed>>

----------------------------------------------------------------------------
(* What the server decides.                                                  *)

(* routeKillSwitch up to the body: the answer that needs no body, or None.     *)
RouteKill(in) ==
  CASE ~KillRoute -> 404
    [] KillRoute /\ in.method # "POST" -> 405
    [] KillRoute /\ in.method = "POST" /\ ~in.token -> 401
    [] OTHER -> None

(* routeRequest up to the body.                                                *)
Route(in) ==
  CASE in.route = "health" -> IF in.method = "GET" THEN 200 ELSE 404
    [] in.route = "kill" -> RouteKill(in)
    [] in.route = "other" -> 404
    [] OTHER -> IF in.method = "POST" THEN None ELSE 405

(* classifyGitHubWebhookDelivery: its checks in their order.                   *)
Signed(in) == in.signature = "valid"
(* Mutant: the payload is parsed before the event is looked up.                *)
ClassifyAfterParsing(in) ==
  IF ~Signed(in) THEN 401
  ELSE IF ~in.has_id \/ in.event = "missing" \/ in.body \in {"not_json", "not_object"} THEN 400
  ELSE 202
Classify(in) ==
  IF ~Signed(in) THEN 401
  ELSE IF ~in.has_id \/ in.event = "missing" THEN 400
  ELSE IF in.event = "unlisted" THEN 202
  ELSE IF in.body \in {"not_json", "not_object"} THEN 400 ELSE 202

(* Mutants: an event that is not listed is handed on; nothing is while killed. *)
AcceptsAnyEvent(in) == Classify(in) = 202 /\ in.body = "listed_action"
AcceptsUnlessKilled(in) ==
  Classify(in) = 202 /\ in.event = "listed" /\ in.body = "listed_action" /\ ~killed
(* The outcome is accepted, not ignored.                                       *)
Accepts(in) ==
  Classify(in) = 202 /\ in.event = "listed" /\ in.body = "listed_action"

(* enqueue of the memory handoff: push, then shift when over maxQueued.        *)
Pushed(q, r) ==
  IF Len(q) + 1 > MaxQueued THEN Tail(Append(q, r)) ELSE Append(q, r)

----------------------------------------------------------------------------
ServerInit ==
  /\ incoming = [r \in Requests |-> None]
  /\ reading = {} /\ got = [r \in Requests |-> 0]
  /\ task = None /\ answer = [r \in Requests |-> None]
  /\ queue = <<>> /\ handed = <<>> /\ taken = {} /\ reported = {}
  /\ lost = {} /\ killed = FALSE

Answer(r, status) == answer' = [answer EXCEPT ![r] = status]

(* A request comes in: it is answered at once, or its body is read.            *)
Arrive(r, in) ==
  /\ task = None /\ incoming[r] = None
  /\ incoming' = [incoming EXCEPT ![r] = in]
  /\ Answer(r, Route(in))
  /\ reading' = (IF Route(in) = None THEN reading \cup {r} ELSE reading)
  /\ UNCHANGED <<got, task, handoff, lost, killed>>

OverLimit(r) == got[r] + 1 > MaxBody

(* readRawBody, "data": a chunk is buffered, or the body given up and the      *)
(* request destroyed, its connection with it.                                  *)
Data(r) ==
  /\ task = None /\ r \in reading /\ got[r] < incoming[r].size
  /\ IF OverLimit(r)
     THEN /\ reading' = reading \ {r}
          /\ task' = [do |-> "fail", req |-> r, status |-> Closed]
          /\ UNCHANGED got
     ELSE /\ got' = [got EXCEPT ![r] = @ + 1]
          /\ UNCHANGED <<reading, task>>
  /\ UNCHANGED <<incoming, answer, handoff, lost, killed>>

(* readRawBody, "end".                                                         *)
End(r) ==
  /\ task = None /\ r \in reading /\ got[r] = incoming[r].size
  /\ reading' = reading \ {r}
  /\ task' = [do |-> "resolve", req |-> r]
  /\ UNCHANGED <<incoming, got, answer, handoff, lost, killed>>

(* readRawBody, "error": the client is gone.                                   *)
Cut(r) ==
  /\ task = None /\ r \in reading
  /\ reading' = reading \ {r}
  /\ task' = [do |-> "fail", req |-> r, status |-> Closed]
  /\ UNCHANGED <<incoming, got, answer, handoff, lost, killed>>

Due(what, r) == task # None /\ task.do = what /\ task.req = r

(* The catch handler of createGitHubWebhookServer.  The 413 of a body that was *)
(* too large is written to a connection that is closed by then, and reaches no *)
(* client; nor does the 500 of one that has gone.                              *)
Fail(r) ==
  /\ Due("fail", r)
  /\ Answer(r, task.status) /\ task' = None
  /\ UNCHANGED <<incoming, reading, got, handoff, lost, killed>>

(* routeRequest after the body: the decision is answered, and the handoff of   *)
(* an accepted delivery is left to the next callback.                          *)
Respond(r) ==
  /\ Due("resolve", r) /\ incoming[r].route = "webhook"
  /\ Answer(r, Classify(incoming[r]))
  /\ task' = (IF Accepts(incoming[r]) THEN [do |-> "enqueue", req |-> r] ELSE None)
  /\ UNCHANGED <<incoming, reading, got, handoff, lost, killed>>

(* Mutant: the answer is sent and the switch left for later.                   *)
KillAnsweredOnly(r) ==
  /\ Due("resolve", r) /\ incoming[r].route = "kill"
  /\ Answer(r, 200) /\ task' = None
  /\ UNCHANGED <<incoming, reading, got, handoff, lost, killed>>
(* routeKillSwitch after the body, whatever the body says.                     *)
Kill(r) ==
  /\ Due("resolve", r) /\ incoming[r].route = "kill"
  /\ killed' = TRUE
  /\ Answer(r, 200) /\ task' = None
  /\ UNCHANGED <<incoming, reading, got, handoff, lost>>

(* activateKillSwitch throws: the database is locked or gone.                  *)
KillThrows(r) ==
  /\ Due("resolve", r) /\ incoming[r].route = "kill"
  /\ task' = [do |-> "fail", req |-> r, status |-> 500]
  /\ UNCHANGED <<incoming, reading, got, answer, handoff, lost, killed>>

HandOff(r) ==
  /\ Due("enqueue", r)
  /\ queue' = Pushed(queue, r) /\ handed' = Append(handed, r)
  /\ task' = None
  /\ UNCHANGED <<incoming, reading, got, answer, taken, reported, lost, killed>>

(* A handoff that rejects, the inbox's for example: nobody tries again.        *)
HandOffRejects(r) ==
  /\ Due("enqueue", r)
  /\ reported' = reported \cup {r} /\ task' = None
  /\ UNCHANGED <<incoming, reading, got, answer, queue, handed, taken, lost, killed>>

(* drain of the memory handoff.                                                *)
Drain ==
  /\ task = None /\ queue # <<>>
  /\ taken' = taken \cup Range(queue) /\ queue' = <<>>
  /\ UNCHANGED <<incoming, reading, got, task, answer, handed, reported, lost, killed>>

(* An operator restores the runtime.                                           *)
Restore ==
  /\ killed /\ killed' = FALSE
  /\ UNCHANGED <<incoming, reading, got, task, answer, handoff, lost>>

(* The process dies and another one starts: only the database survives.        *)
Crash ==
  /\ lost' = lost \cup reading \cup (Range(handed) \ taken)
                  \cup { r \in Requests : task # None /\ task.req = r }
  /\ reading' = {} /\ task' = None /\ queue' = <<>> /\ handed' = <<>>
  /\ UNCHANGED <<incoming, got, answer, taken, reported, killed>>

Run(r) ==
  \/ Fail(r) \/ Respond(r) \/ Kill(r) \/ KillThrows(r)
  \/ HandOff(r) \/ HandOffRejects(r)

ServerNext ==
  \/ \E r \in Requests :
       \/ \E in \in Inbound : Arrive(r, in)
       \/ Data(r) \/ End(r) \/ Cut(r) \/ Run(r)
  \/ Drain \/ Restore \/ Crash

ServerSpec == ServerInit /\ [][ServerNext]_serverVars

(* Callbacks run, and clients that are not cut send their whole body.          *)
FairServerSpec ==
  /\ ServerSpec
  /\ \A r \in Requests : WF_serverVars(Run(r)) /\ WF_serverVars(Data(r)) /\ WF_serverVars(End(r))

----------------------------------------------------------------------------
(* Properties.                                                              *)

(* Every variable has its type, and no body is buffered beyond its limit or    *)
(* for a request the server has no use for.                                    *)
ServerTypeOK ==
  /\ incoming \in [Requests -> Inbound \cup {None}]
  /\ reading \subseteq Requests
  /\ got \in [Requests -> 0..MaxBody]
  /\ task \in Tasks \cup {None}
  /\ answer \in [Requests -> AnswerCodes \cup {None}]
  /\ queue \in Seq(Requests) /\ Len(queue) <= MaxQueued
  /\ handed \in Seq(Requests)
  /\ taken \subseteq Requests /\ reported \subseteq Requests
  /\ lost \subseteq Requests /\ killed \in BOOLEAN

(* docs/specs/t007-validation-report.md, "Ingress behavior": the cases it lists *)
(* and their answers, whatever other requests were read in between, whatever    *)
(* an unsigned request says and whatever failed.  The 413 it lists is not among *)
(* them: a client whose body is too large gets no answer at all.                *)
Posted(in) == in.route = "webhook" /\ in.method = "POST"
Allowed(in) ==
  Signed(in) /\ in.has_id /\ in.event = "listed" /\ in.body = "listed_action"
Unlisted(in) ==
  /\ Signed(in) /\ in.has_id
  /\ in.event = "unlisted" \/ (in.event = "listed" /\ in.body = "unlisted_action")
ReportedAnswer(in) ==
  CASE ~Signed(in) -> 401
    [] Signed(in) /\ (Allowed(in) \/ Unlisted(in)) -> 202
    [] OTHER -> 400
AnswersFollowTheReport ==
  \A r \in Requests :
    answer[r] \notin {None, Closed} /\ Posted(incoming[r]) =>
      incoming[r].size <= MaxBody /\ answer[r] = ReportedAnswer(incoming[r])

(* "Handoff: yes" in the same table for one case only: whatever is handed on,   *)
(* or was tried to, is such a request, read in full and already answered 202,   *)
(* and it is handed on once.                                                    *)
HandedOnWereAccepted ==
  /\ \A r \in Range(handed) \cup taken \cup reported :
       Posted(incoming[r]) /\ Allowed(incoming[r]) /\ answer[r] = 202
  /\ \A i, j \in DOMAIN handed : handed[i] = handed[j] => i = j
  /\ \A i \in DOMAIN handed : handed[i] \notin reported

(* docs/ops/runtime-mode.md, "Kill switch": a kill request that is told 200 has *)
(* engaged the switch when the answer is written, and nothing but a kill        *)
(* request with the token engages it.                                           *)
KillSwitchAnswersAreTrue ==
  [][/\ \A r \in Requests :
          answer[r] = None /\ answer'[r] = 200 /\ incoming'[r].route = "kill" => killed'
     /\ killed' /\ ~killed =>
          \E r \in Requests : /\ Due("resolve", r) /\ incoming[r].route = "kill"
                              /\ incoming[r].method = "POST" /\ incoming[r].token
    ]_serverVars

(* A delivery whose sender was told it is accepted is handed on, or its failure *)
(* reported, unless the process dies first: the answer comes before the handoff.*)
AcceptedAreHandedOn ==
  \A r \in Requests :
    (answer[r] = 202 /\ Allowed(incoming[r])) ~>
      r \in Range(handed) \cup taken \cup reported \cup lost
=============================================================================
