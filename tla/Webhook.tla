------------------------------- MODULE Webhook -------------------------------
(***************************************************************************)
(* The webhook connector (connectors/webhook/src): one delivery that its   *)
(* sender posts, and posts again while it gets no answer or a 503, over    *)
(* the connections of the HTTP server.  A request's headers are checked    *)
(* before its body is read, the body is verified, one event is emitted to  *)
(* the core (packages/connector-sdk, CoreClient), and the answer says      *)
(* whether to retry.  The server is drained on a stop.                     *)
(***************************************************************************)
EXTENDS Naturals, FiniteSets

CONSTANTS
  Conns,           \* the connections the senders open
  MaxConnections,  \* max_connections
  MaxTries         \* bound: times the delivery is posted

WebhookAssumption == MaxConnections \in Nat /\ MaxTries \in Nat

VARIABLES
  route,   \* its check, and whether a header names the delivery
  post,    \* the delivery: signature or token, timestamp, body
  server,
  conn,    \* a connection: what it is at, whether the sender hears it, the answer
  events,  \* how often the core has the event
  seen,    \* the answers the sender got
  tries

vars == <<route, post, server, conn, events, seen, tries>>

\* The presets come down to four checks: none, a token (gitlab), a signature of the body
\* (github) and one that covers a timestamp (slack, stripe).
Verify == {"none", "token", "hmac", "timed"}
NoDelivery == 0
Free == [at |-> "free", fresh |-> FALSE, heard |-> TRUE, status |-> NoDelivery, close |-> FALSE]

TypeOK ==
  /\ route \in [verify : Verify, dedup : BOOLEAN]
  /\ server \in {"open", "draining", "closed"} /\ tries \in 0 .. MaxTries /\ events \in Nat
  /\ \A c \in Conns : conn[c].at \in {"free", "silent", "reading", "emitting", "answer",
                                      "written", "idle"}
  /\ seen \subseteq {200, 202, 400, 401, 413, 422, 503}

Init ==
  /\ route \in [verify : Verify, dedup : BOOLEAN]
  /\ post \in [proof : {"missing", "wrong", "right"}, fresh : BOOLEAN,
               body : {"good", "large", "invalid", "refused"}]
  /\ server = "open" /\ conn = [c \in Conns |-> Free] /\ events = 0 /\ seen = {} /\ tries = 0

-----------------------------------------------------------------------------
\* verify.ts

\* headerHmac, stripe: a signature that can be read and, if it covers one, a time in the window.
PlanReady(fresh) == post.proof # "missing" /\ (route.verify = "timed" => fresh)

\* checkToken
TokenPasses == post.proof = "right"

\* plan: a token is settled by the headers, a signature's presence and its time too.
HeadersPass(fresh) ==
  CASE route.verify = "none" -> TRUE
    [] route.verify = "token" -> TokenPasses
    [] OTHER -> PlanReady(fresh)

\* Mutant: what the headers passed is taken as verified.
BodyUnchecked(fresh) == TRUE

\* verifyRequest, with the time the request came in.
BodyPasses(fresh) ==
  HeadersPass(fresh) /\ (route.verify \in {"hmac", "timed"} => post.proof = "right")

-----------------------------------------------------------------------------
\* Connections.

At(c, where) == conn[c].at = where
Set(c, r) == conn' = [conn EXCEPT ![c] = r]
Answer(c, status) == Set(c, [conn[c] EXCEPT !.at = "answer", !.status = status])
\* The connections the server holds: one whose sender went away is closed, though its
\* handler runs on.
Held == {c \in Conns : ~At(c, "free") /\ conn[c].heard}

\* One connection more than max_connections is closed at once.
Connects(c) ==
  /\ At(c, "free") /\ server = "open" /\ Cardinality(Held) < MaxConnections
  /\ Set(c, [Free EXCEPT !.at = "silent"])
  /\ UNCHANGED <<route, post, server, events, seen, tries>>

\* closeSilentConnections and keepAliveTimeout; the sender may also go away, in the middle of a
\* body too, and the 500 its handler ends with is heard by nobody.
Leaves(c) ==
  /\ conn[c].at \in {"silent", "reading", "idle"} /\ Set(c, Free)
  /\ UNCHANGED <<route, post, server, events, seen, tries>>

\* The sender stops listening; the handler does not notice.
Unheard(c) ==
  /\ conn[c].at \in {"emitting", "answer"} /\ conn[c].heard
  /\ Set(c, [conn[c] EXCEPT !.heard = FALSE])
  /\ UNCHANGED <<route, post, server, events, seen, tries>>

\* The sender posts the delivery, again after no answer or a 503.
Posts(c) ==
  /\ conn[c].at \in {"silent", "idle"} /\ tries < MaxTries /\ seen \subseteq {503}
  /\ tries' = tries + 1
  /\ LET r == [Free EXCEPT !.fresh = post.fresh] IN
     Set(c, IF HeadersPass(post.fresh) THEN [r EXCEPT !.at = "reading"]
            ELSE [r EXCEPT !.at = "answer", !.status = 401, !.close = TRUE])
  /\ UNCHANGED <<route, post, server, events, seen>>

\* A request that is no delivery: /healthz, a path with no route, a method its route does not
\* take, a URL that cannot be read (a 500).  None of the checks is run.
AsksElse(c) ==
  /\ conn[c].at \in {"silent", "idle"} /\ Set(c, [Free EXCEPT !.at = "answer"])
  /\ UNCHANGED <<route, post, server, events, seen, tries>>

\* A signed timestamp grows old, while a body is read too.
Ages == post.fresh /\ post' = [post EXCEPT !.fresh = FALSE]
  /\ UNCHANGED <<route, server, conn, events, seen, tries>>

\* The body is in: readBody, verifyRequest, parseBody.
Reads(c) ==
  /\ At(c, "reading")
  /\ IF post.body = "large" THEN Answer(c, 413)
     ELSE IF ~BodyPasses(conn[c].fresh) THEN Answer(c, 401)
     ELSE IF post.body = "invalid" THEN Answer(c, 400)
     ELSE Set(c, [conn[c] EXCEPT !.at = "emitting"])
  /\ UNCHANGED <<route, post, server, events, seen, tries>>

-----------------------------------------------------------------------------
\* The event, in the core.

\* Mutant: the event carries no dedup key.
NeverDuplicate == FALSE

Duplicate == route.dedup /\ events > 0
\* n calls with the delivery: of calls with one dedup key the first is inserted.
Arrive(n) ==
  events' = IF Duplicate THEN events ELSE IF route.dedup THEN events + 1 ELSE events + n
Inserted == Arrive(1)

Emits(c) ==
  /\ At(c, "emitting") /\ post.body # "refused"
  /\ Inserted /\ Answer(c, IF Duplicate THEN 200 ELSE 202)
  /\ UNCHANGED <<route, post, server, seen, tries>>

\* A 4xx of the core is the sender's fault.
CoreRefuses(c) ==
  /\ At(c, "emitting") /\ post.body = "refused" /\ Answer(c, 422)
  /\ UNCHANGED <<route, post, server, events, seen, tries>>

\* Mutant: a call that timed out is taken as done.
TimeoutIsAccepted == 202

CoreGone == 503

\* The core is not reached, or its answer does not come in time.
EmitFails(c) ==
  /\ At(c, "emitting") /\ Answer(c, CoreGone)
  /\ \/ UNCHANGED events
     \/ post.body # "refused" /\ Inserted
  /\ UNCHANGED <<route, post, server, seen, tries>>

-----------------------------------------------------------------------------
\* Answers and the stop.

\* The answer is written; from the drain on it closes its connection.
Replies(c) ==
  /\ At(c, "answer")
  /\ Set(c, [conn[c] EXCEPT !.at = "written", !.close = @ \/ server # "open"])
  /\ UNCHANGED <<route, post, server, events, seen, tries>>

\* Mutant: the drain is not looked at once the answer is out.
StaysAfter(c) == ~conn[c].close

StaysOpen(c) == ~conn[c].close /\ server = "open"

Finishes(c) ==
  /\ At(c, "written")
  /\ seen' = IF conn[c].heard THEN seen \union ({conn[c].status} \ {NoDelivery}) ELSE seen
  /\ Set(c, IF StaysOpen(c) /\ conn[c].heard THEN [Free EXCEPT !.at = "idle"] ELSE Free)
  /\ UNCHANGED <<route, post, server, events, tries>>

\* SIGTERM: no more connections are accepted, and the idle ones are closed.
Stop ==
  /\ server = "open" /\ server' = "draining"
  /\ conn' = [c \in Conns |-> IF At(c, "idle") THEN Free ELSE conn[c]]
  /\ UNCHANGED <<route, post, events, seen, tries>>

\* The process is gone, and events on their way to the core may get there.
OnTheirWay == {c \in Conns : At(c, "emitting")}

Exits ==
  /\ server' = "closed" /\ conn' = [c \in Conns |-> Free]
  /\ \/ UNCHANGED events
     \/ /\ OnTheirWay # {} /\ post.body # "refused"
        /\ \E n \in 1 .. Cardinality(OnTheirWay) : Arrive(n)
  /\ UNCHANGED <<route, post, seen, tries>>

\* The grace is over, or the supervisor kills the process: what still runs is cut off.
CutOff == server # "closed" /\ Exits

\* Every connection is closed; the handler of one whose sender went away is not waited for.
Closed == server = "draining" /\ Held = {} /\ Exits

Starts == server = "closed" /\ server' = "open"
  /\ UNCHANGED <<route, post, conn, events, seen, tries>>

-----------------------------------------------------------------------------

Next ==
  \/ Ages \/ Stop \/ CutOff \/ Closed \/ Starts
  \/ \E c \in Conns : \/ Connects(c) \/ Leaves(c) \/ Unheard(c) \/ Posts(c) \/ AsksElse(c)
                      \/ Reads(c)
                      \/ Emits(c) \/ CoreRefuses(c) \/ EmitFails(c) \/ Replies(c) \/ Finishes(c)

Spec == Init /\ [][Next]_vars

-----------------------------------------------------------------------------

\* A 2xx means the core has the event, whatever was retried, timed out or cut off; and a
\* delivery that a header names is one event at most (handle, dedup_key).
AnswersAreTrue ==
  /\ seen \intersect {200, 202} # {} => events > 0
  /\ route.dedup => events <= 1

\* What was emitted had the right token or signature (verify.ts).
EmittedIsGenuine == events > 0 => route.verify = "none" \/ post.proof = "right"

\* A drain leaves no connection waiting for a next request (createHandler, stopServer).
DrainsClean == server # "open" => \A c \in Conns : ~At(c, "idle")
=============================================================================
