--------------------------------- MODULE Api ---------------------------------
(***************************************************************************)
(* The HTTP API on the Unix socket (packages/core/src/api): requests whose *)
(* bodies are read, routed to a handler and answered, while the executor   *)
(* moves the run they name, connections break, clients give up and ask     *)
(* again (api/client.ts, connector-sdk), and the server closes.  A handler *)
(* that does not wait runs in one step; cancel and restart wait.           *)
(***************************************************************************)
EXTENDS Naturals, FiniteSets

CONSTANTS
  Reqs,      \* the things clients ask for, one client each
  Asks,      \* what a request may ask
  Bodies,    \* what may be the matter with its body
  MaxTries   \* bound: times a client asks for the same thing

ApiAssumption ==
  /\ MaxTries \in Nat \ {0}
  /\ Asks \subseteq {"emit", "keyed", "run", "cancel", "pause", "resume", "put", "delete",
                     "restart", "read"}
  /\ Bodies \subseteq {"good", "large", "json", "invalid"}

VARIABLES
  server,
  ask,     \* what each request asks for, with a body that is good or not
  req,     \* where it stands: at, whether the client listens, the status, whether it did it
  made,    \* times its effect was made, of all its tries
  unsure,  \* its tries whose client cannot know what became of them
  task,    \* the task of the run, pause and resume requests
  run,     \* the run of the cancel requests
  conn     \* the connector of the restart requests

vars == <<server, ask, req, made, unsure, task, run, conn>>

Idle == [at |-> "idle", heard |-> TRUE, status |-> 0, did |-> FALSE, tries |-> 0]
Waiting == {"settling", "restarting"}  \* handlers that await

TypeOK ==
  /\ server \in {"open", "closed"}
  /\ ask \in [Reqs -> [what : Asks, body : Bodies]]
  /\ \A r \in Reqs :
       /\ req[r].at \in {"idle", "reading", "answered", "done", "lost"} \cup Waiting
       /\ req[r].status \in {0, 200, 201, 202, 400, 404, 405, 409, 413, 500}
       /\ req[r].tries \in 0 .. MaxTries
  /\ made \in [Reqs -> Nat] /\ unsure \in [Reqs -> 0 .. MaxTries]
  /\ task \in [known : BOOLEAN, paused : BOOLEAN]
  /\ run \in {"none", "queued", "waiting", "running", "aborted", "ended"}
  /\ conn \in [kind : {"builtin", "unit", "stdio", "none"}, restarts : 0 .. 1]

Asked(what) == \E r \in Reqs : ask[r].what \in what

\* Only what some request asks about varies.
Init ==
  /\ server = "open" /\ req = [r \in Reqs |-> Idle]
  /\ ask \in [Reqs -> [what : Asks, body : Bodies]]
  /\ made = [r \in Reqs |-> 0] /\ unsure = [r \in Reqs |-> 0]
  /\ task \in [known : IF Asked({"run", "pause", "resume"}) THEN BOOLEAN ELSE {TRUE},
               paused : IF Asked({"run", "pause", "resume"}) THEN BOOLEAN ELSE {FALSE}]
  /\ run \in IF Asked({"cancel"}) THEN {"none", "queued", "waiting", "running", "ended"}
             ELSE {"none"}
  /\ conn \in [kind : IF Asked({"restart"}) THEN {"builtin", "unit", "stdio", "none"}
                      ELSE {"none"}, restarts : {0}]

-----------------------------------------------------------------------------
\* The handlers of api/routes.ts: each says what it answers, and whether it did what was asked.

Answer(r, status, did) ==
  /\ req' = [req EXCEPT ![r] = [req[r] EXCEPT !.at = "answered", !.status = status,
                                             !.did = did]]
  /\ made' = [made EXCEPT ![r] = IF did THEN @ + 1 ELSE @]

Await(r, at) == req' = [req EXCEPT ![r].at = at] /\ UNCHANGED made

\* The event is committed: an explanation that throws leaves its answer without tasks.
StatusOnceCommitted(explained) == 201
\* Mutant: an event whose explanation fails is answered as an error.
StatusOrError(explained) == IF explained THEN 201 ELSE 500
EmitStatus(explained) == StatusOnceCommitted(explained)

\* emit: publish inserts, finds the key of an earlier one, or throws with nothing written.
Emit(r) ==
  /\ ask[r].what \in {"emit", "keyed"}
  /\ \/ Answer(r, 500, FALSE)
     \/ IF ask[r].what = "keyed" /\ made[r] > 0
          THEN Answer(r, 200, FALSE)
          ELSE \E explained \in BOOLEAN : Answer(r, EmitStatus(explained), TRUE)
  /\ UNCHANGED <<task, run, conn>>

\* runTask: the publish and the drain are two commits, and the drain may throw.
RunTask(r) ==
  /\ ask[r].what = "run"
  /\ IF ~task.known THEN Answer(r, 404, FALSE)
     ELSE IF task.paused THEN Answer(r, 409, FALSE)
     ELSE \/ Answer(r, 201, TRUE)
          \/ Answer(r, 400, FALSE)
          \/ \E published \in BOOLEAN : Answer(r, 500, published)
  /\ UNCHANGED <<task, run, conn>>

\* cancelRun over executor.cancel: what nothing executes ends at once, an attempt is aborted.
CancelRun(r) ==
  /\ ask[r].what = "cancel"
  /\ \/ run = "none" /\ Answer(r, 404, FALSE) /\ UNCHANGED run
     \/ run = "ended" /\ Answer(r, 409, FALSE) /\ UNCHANGED run
     \/ run \in {"queued", "waiting"} /\ run' = "ended" /\ Answer(r, 200, TRUE)
     \/ run \in {"queued", "waiting"} /\ Answer(r, 500, FALSE) /\ UNCHANGED run
     \/ run \in {"running", "aborted"} /\ run' = "aborted" /\ Await(r, "settling")
  /\ UNCHANGED <<task, conn>>

\* Of the run as it is read again after the wait.
SettledStatus(running) == IF running THEN 202 ELSE 200
\* Mutant: a cancel says settled while the run still goes on.
SettledAlways(running) == 200
CancelStatus(running) == SettledStatus(running)

\* The attempt settled, or it did not within CANCEL_SETTLE_MS.
Settle(r) ==
  /\ req[r].at = "settling"
  /\ Answer(r, CancelStatus(run = "aborted"), TRUE)
  /\ UNCHANGED <<server, ask, unsure, task, run, conn>>

\* setPaused: pausing a paused task, or resuming one that is not, changes nothing and is fine.
SetPaused(r) ==
  /\ ask[r].what \in {"pause", "resume"}
  /\ \/ ~task.known /\ Answer(r, 404, FALSE) /\ UNCHANGED task
     \/ task.known /\ task' = [task EXCEPT !.paused = ask[r].what = "pause"] /\ Answer(r, 200, TRUE)
     \/ task.known /\ Answer(r, 500, FALSE) /\ UNCHANGED task
  /\ UNCHANGED <<run, conn>>

PutState(r) ==
  /\ ask[r].what \in {"put", "delete"}
  /\ Answer(r, 200, TRUE) \/ Answer(r, 500, FALSE)
  /\ UNCHANGED <<task, run, conn>>

\* The handlers that only look: what they are asked about is there, is unknown, or the query
\* makes no sense.
Read(r) ==
  /\ ask[r].what = "read"
  /\ \E status \in {200, 400, 404, 500} : Answer(r, status, FALSE)
  /\ UNCHANGED <<task, run, conn>>

\* restartConnector: a restart asked for during another joins it (supervisor.restart).
RestartConnector(r) ==
  /\ ask[r].what = "restart"
  /\ CASE conn.kind \in {"builtin", "unit"} -> Answer(r, 409, FALSE) /\ UNCHANGED conn
       [] conn.kind = "none" -> Answer(r, 404, FALSE) /\ UNCHANGED conn
       [] OTHER -> Await(r, "restarting") /\ conn' = [conn EXCEPT !.restarts = 1]
  /\ UNCHANGED <<task, run>>

\* The restart that the waiting requests share is over: up again, or the spawn or the
\* connector's place in the configuration was lost meanwhile.
Restarted ==
  /\ conn.restarts = 1 /\ conn' = [conn EXCEPT !.restarts = 0]
  /\ \E status \in {200, 500} :
       req' = [r \in Reqs |-> IF req[r].at # "restarting" THEN req[r]
                 ELSE [req[r] EXCEPT !.at = "answered", !.status = status, !.did = TRUE]]
  /\ made' = [r \in Reqs |-> IF req[r].at = "restarting" THEN made[r] + 1 ELSE made[r]]
  /\ UNCHANGED <<server, ask, unsure, task, run>>

\* route: a path or a method it does not know is refused.
Route(r) ==
  \/ Emit(r) \/ RunTask(r) \/ CancelRun(r) \/ SetPaused(r) \/ PutState(r) \/ Read(r)
  \/ RestartConnector(r)
  \/ \E status \in {404, 405} : Answer(r, status, FALSE) /\ UNCHANGED <<task, run, conn>>

-----------------------------------------------------------------------------
\* The server and the connections

Send(r) ==
  /\ req[r].at = "idle" /\ server = "open" /\ req[r].tries < MaxTries
  /\ req' = [req EXCEPT ![r] = [Idle EXCEPT !.at = "reading", !.tries = req[r].tries + 1]]
  /\ UNCHANGED <<server, ask, made, unsure, task, run, conn>>

\* What is refused for its body: too long, no JSON, not what the route parses it as.
Refusal(r) ==
  CASE ask[r].body = "large" -> 413
    [] ask[r].body = "json" -> 400
    [] ask[r].body = "invalid" /\ ask[r].what \in {"emit", "keyed", "run", "put"} -> 400
    [] OTHER -> 0

\* The body is in: it is refused, or the request is routed.
Handle(r) ==
  /\ req[r].at = "reading" /\ req[r].heard
  /\ IF Refusal(r) = 0 THEN Route(r)
     ELSE Answer(r, Refusal(r), FALSE) /\ UNCHANGED <<task, run, conn>>
  /\ UNCHANGED <<server, ask, unsure>>

\* The client reads the answer.
Deliver(r) ==
  /\ req[r].at = "answered" /\ req[r].heard
  /\ req' = [req EXCEPT ![r].at = "done"]
  /\ UNCHANGED <<server, ask, made, unsure, task, run, conn>>

\* The client's timeout, or its connection breaks: a body half read reaches no handler.
Break(r) ==
  /\ req[r].at \in {"reading", "answered"} \cup Waiting /\ req[r].heard
  /\ req' = [req EXCEPT ![r].heard = FALSE]
  /\ unsure' = [unsure EXCEPT ![r] = @ + 1]
  /\ UNCHANGED <<server, ask, made, task, run, conn>>

\* The handler of a request nobody listens to is over.
Lose(r) ==
  /\ req[r].at \in {"reading", "answered"} /\ ~req[r].heard
  /\ req' = [req EXCEPT ![r].at = "lost"]
  /\ UNCHANGED <<server, ask, made, unsure, task, run, conn>>

\* A caller that got no answer, or an answer that says the daemon failed, asks again.
AskAgain(r) ==
  /\ \/ req[r].at = "lost"
     \/ req[r].at = "done" /\ req[r].status >= 500
  /\ req[r].tries < MaxTries
  /\ req' = [req EXCEPT ![r].at = "idle"]
  /\ UNCHANGED <<server, ask, made, unsure, task, run, conn>>

\* close(): every connection is dropped; the handlers that wait go on.
Close ==
  /\ server = "open" /\ server' = "closed"
  /\ LET open == {r \in Reqs : req[r].at \in {"reading", "answered"} \cup Waiting}
     IN  /\ req' = [r \in Reqs |-> IF r \in open THEN [req[r] EXCEPT !.heard = FALSE] ELSE req[r]]
         /\ unsure' = [r \in Reqs |-> IF r \in open /\ req[r].heard THEN unsure[r] + 1
                                      ELSE unsure[r]]
  /\ UNCHANGED <<ask, made, task, run, conn>>

\* The executor: the run starts, parks, is resumed, ends; an aborted attempt only ends.
Execute ==
  /\ \/ run = "queued" /\ run' = "running"
     \/ run = "running" /\ run' \in {"waiting", "queued", "ended"}
     \/ run = "waiting" /\ run' \in {"queued", "ended"}
     \/ run = "aborted" /\ run' = "ended"
  /\ UNCHANGED <<server, ask, req, made, unsure, task, conn>>

Next ==
  \/ \E r \in Reqs : \/ Send(r) \/ Handle(r) \/ Settle(r) \/ Deliver(r) \/ Break(r) \/ Lose(r)
                     \/ AskAgain(r)
  \/ Restarted \/ Close \/ Execute

Spec == Init /\ [][Next]_vars

-----------------------------------------------------------------------------
Told(r) == req[r].at \in {"answered", "done"}

\* An answer says what became of the request: a 4xx means nothing was done, 201 that it was,
\* 200 to a cancel that the run is over and stays so, 202 and 409 that it was stopped or over.
AnswersAreTrue ==
  \A r \in Reqs : Told(r) =>
    /\ req[r].status \in 400 .. 499 => ~req[r].did
    /\ req[r].status = 201 => req[r].did /\ made[r] > 0
    /\ ask[r].what = "cancel" /\ req[r].status \in {200, 409} => run = "ended"
    /\ ask[r].what = "cancel" /\ req[r].status = 202 => run \in {"aborted", "ended"}

\* routes.ts: a connector that asks again after a 500 does not publish its event twice.  Only
\* tries whose answer never came may add one, and a dedup key rules that out too.
RetryIsSafe ==
  \A r \in Reqs :
    /\ ask[r].what = "keyed" => made[r] <= 1
    /\ ask[r].what = "emit" => made[r] <= 1 + unsure[r]
=============================================================================
