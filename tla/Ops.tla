--------------------------------- MODULE Ops ---------------------------------
(***************************************************************************)
(* One run whose action calls an op of an HTTP-backed connector: the call  *)
(* through the supervisor (packages/core/src/connectors/supervisor.ts), the *)
(* SDK that serves it (packages/connector-sdk/src/index.ts) and the github *)
(* and jira ops, which send one or several requests.  Whether a failure is *)
(* retried is decided from what is known of the request: an op is a set of *)
(* effects on a service that can be reached, refuse, break off or answer   *)
(* late.                                                                   *)
(***************************************************************************)
EXTENDS Naturals, Sequences, SequencesExt, FiniteSets

CONSTANTS
  Apis,         \* of "github", "cloud", "server" (Jira's two deployments)
  MaxAttempts,  \* the task's retry policy
  PerPage,      \* the code's 100
  Wants,        \* the limits asked for
  Pulls,        \* the items `issues` filters out
  MaxItems,     \* bound: items of the service
  MaxFaults     \* bound: failures and changes of the list

OpsAssumption ==
  /\ Apis \subseteq {"github", "cloud", "server"}
  /\ MaxAttempts \in Nat \ {0} /\ PerPage \in Nat \ {0} /\ Wants \subseteq Nat \ {0}
  /\ Pulls \subseteq Nat /\ MaxItems \in Nat /\ MaxFaults \in Nat

VARIABLES
  op,       \* the op of the run: its api, kind and limit
  status,   \* the run
  attempt,
  conn,     \* the connector: up, down, or unknown to the supervisor
  waiting,  \* whether the core waits for the op's answer
  handler,  \* the handler in the connector: its request number and request, or Idle
  got,      \* the items it has
  list,     \* the service's items
  writes,   \* how often the write took effect, and one still on its way
  faults    \* their number, whether the list changed under the handler, and whether a
            \* rate limit was reported with an answer that is no refusal

vars == <<op, status, attempt, conn, waiting, handler, got, list, writes, faults>>

\* Reads of pages, reads of one thing, and writes: one that sets what it writes ("put"), one
\* that adds something ("create") and Jira's, which reads before it writes.
Lists == {"list", "issues"}
Gets == {"get"}
Writes == {"put", "create"}
Kinds == Lists \union Gets \union Writes \union {"transition"}
Idle == [at |-> 0, request |-> "none"]

\* What became of a request, as the handler sees it.
Answers == {"ok", "nothingSent", "refused", "rejected", "broken", "failed", "lastOfQuota"}

TypeOK ==
  /\ op.kind \in Kinds /\ status \in {"running", "succeeded", "failed"}
  /\ attempt \in 0 .. MaxAttempts /\ conn \in {"up", "down", "unknown"} /\ waiting \in BOOLEAN
  /\ handler.request \in {"none", "sent"} \union Answers
  /\ Range(got) \subseteq 1 .. MaxItems /\ writes.late \in BOOLEAN

Init ==
  /\ op \in [api : Apis, kind : Kinds, want : Wants]
  /\ op.kind = "issues" => op.api = "github"
  /\ op.kind = "transition" => op.api # "github"
  /\ status = "running" /\ attempt = 0 /\ conn = "up" /\ waiting = FALSE /\ handler = Idle
  /\ got = <<>> /\ list \in {[i \in 1 .. n |-> i] : n \in 0 .. MaxItems}
  /\ writes = [done |-> 0, late |-> FALSE]
  /\ faults = [number |-> 0, changed |-> FALSE, quota |-> FALSE]

Fault == faults.number < MaxFaults /\ faults' = [faults EXCEPT !.number = @ + 1]

-----------------------------------------------------------------------------
\* The requests of an op.

\* The request of the handler is a write; every other one only reads.
IsWrite == op.kind \in Writes \/ (op.kind = "transition" /\ handler.at = 2)

\* GET, PUT and DELETE are, and Jira's search; GitHub's PATCH is not.
IsIdempotent == ~IsWrite \/ (op.kind = "put" /\ op.api # "github")

\* Mutant: a request that broke off is worth retrying whatever it was.
TransientAnyBreak(a) ==
  a \in {"nothingSent", "refused", "broken"} \/ (IsIdempotent /\ a = "failed")

\* isTransientHttpError: a connection not made, 429 and 503 always; a broken or timed out
\* one, 408 and the other 5xx when the request can run twice.
TransientHttp(a) ==
  \/ a \in {"nothingSent", "refused"}
  \/ IsIdempotent /\ a \in {"broken", "failed", "lastOfQuota"}

\* GitHub's errors also are when the answer says the rate limit is used up.
Transient(a) == TransientHttp(a) \/ a = "lastOfQuota"

-----------------------------------------------------------------------------
\* The run and the supervisor.

Fails(retryable) ==
  status' = IF retryable /\ attempt' < MaxAttempts THEN "running" ELSE "failed"

\* An attempt calls the op; it is sent when the connector is up.
Call ==
  /\ status = "running" /\ ~waiting /\ conn = "up" /\ attempt < MaxAttempts
  /\ attempt' = attempt + 1 /\ waiting' = TRUE
  /\ handler' = [at |-> 1, request |-> "none"] /\ got' = <<>>
  /\ faults' = [faults EXCEPT !.changed = FALSE]
  /\ UNCHANGED <<op, status, conn, list, writes>>

\* A connector that is down (or an attempt cut off before the call is sent) may be tried
\* again, one the supervisor does not know not.
CallRefused ==
  /\ status = "running" /\ ~waiting /\ conn # "up" /\ attempt < MaxAttempts
  /\ attempt' = attempt + 1 /\ Fails(conn = "down")
  /\ UNCHANGED <<op, conn, waiting, handler, got, list, writes, faults>>

\* Mutant: a call that got no answer is an error like any other.
NoAnswerIsRetried == Fails(TRUE)

\* noAnswer: the op may have had its effect, whatever the attempts left.
NoAnswer == Fails(FALSE)

\* The call times out or is aborted; the handler goes on unheard.
GivesUp ==
  /\ waiting /\ waiting' = FALSE /\ Fault /\ UNCHANGED attempt /\ NoAnswer
  /\ UNCHANGED <<op, conn, handler, got, list, writes>>

\* The process exits: its handler with it, but not a request that left.
Exits ==
  /\ conn = "up" /\ conn' = "down" /\ Fault /\ waiting' = FALSE
  /\ handler' = Idle
  /\ writes' = [writes EXCEPT !.late = @ \/ (handler.request = "sent" /\ IsWrite)]
  /\ IF waiting THEN UNCHANGED attempt /\ NoAnswer ELSE UNCHANGED <<attempt, status>>
  /\ UNCHANGED <<op, got, list>>

Restarts == conn = "down" /\ conn' = "up"
  /\ UNCHANGED <<op, status, attempt, waiting, handler, got, list, writes, faults>>

\* A reload removes the connector between two calls.
Removed ==
  /\ conn # "unknown" /\ ~waiting /\ handler = Idle /\ Fault /\ conn' = "unknown"
  /\ UNCHANGED <<op, status, attempt, waiting, handler, got, list, writes>>

-----------------------------------------------------------------------------
\* The handler and the service.

Send ==
  /\ handler.at > 0 /\ handler.request = "none"
  /\ handler' = [handler EXCEPT !.request = "sent"]
  /\ UNCHANGED <<op, status, attempt, conn, waiting, got, list, writes, faults>>

Answer(a) == handler.request = "sent" /\ handler' = [handler EXCEPT !.request = a]
Done == writes' = [writes EXCEPT !.done = @ + (IF IsWrite THEN 1 ELSE 0)]

\* The service carries the request out and says so.
Serves ==
  /\ Answer("ok") /\ Done
  /\ UNCHANGED <<op, status, attempt, conn, waiting, got, list, faults>>

\* The service does not carry it out: no connection, a 429 or 503, a 4xx.
Refuses(a) ==
  /\ a \in {"nothingSent", "refused", "rejected"} /\ Answer(a) /\ Fault
  /\ UNCHANGED <<op, status, attempt, conn, waiting, got, list, writes>>

\* A 5xx or a connection that broke: carried out or not.  GitHub's answer to the last
\* request of the rate limit's window is marked as a refused one is.
Breaks(a) ==
  /\ a \in {"broken", "failed", "lastOfQuota"} /\ Answer(a)
  /\ faults.number < MaxFaults
  /\ a = "lastOfQuota" => op.api = "github"
  /\ faults' = [faults EXCEPT !.number = @ + 1, !.quota = @ \/ (a = "lastOfQuota" /\ IsWrite)]
  /\ Done \/ UNCHANGED writes
  /\ UNCHANGED <<op, status, attempt, conn, waiting, got, list>>

\* The request's time-out fires while it is on its way.
TimesOut ==
  /\ Answer("broken") /\ Fault
  /\ writes' = [writes EXCEPT !.late = IsWrite]
  /\ UNCHANGED <<op, status, attempt, conn, waiting, got, list>>

ArrivesLate ==
  /\ writes.late /\ writes' = [done |-> writes.done + 1, late |-> FALSE]
  /\ UNCHANGED <<op, status, attempt, conn, waiting, handler, got, list, faults>>

\* Somebody else adds an item at the front, or takes the first one away.
ListChanges ==
  /\ faults.number < MaxFaults
  /\ \/ \E i \in 1 .. MaxItems \ Range(list) : list' = <<i>> \o list
     \/ list # <<>> /\ list' = Tail(list)
  /\ faults' = [faults EXCEPT !.number = @ + 1, !.changed = TRUE]
  /\ UNCHANGED <<op, status, attempt, conn, waiting, handler, got, writes>>

Min2(a, b) == IF a < b THEN a ELSE b

\* GitHub's pages are as long as the limit when nothing is filtered out; Jira is asked for
\* what is still wanted.
PageSize ==
  CASE op.api # "github" -> Min2(PerPage, op.want - Len(got))
    [] op.kind = "issues" -> PerPage
    [] OTHER -> Min2(PerPage, op.want)

\* Where the page begins: GitHub counts pages, Jira the items before it.
PageStart == IF op.api = "github" THEN (handler.at - 1) * PageSize ELSE Len(got)
Page == SubSeq(list, PageStart + 1, Min2(PageStart + PageSize, Len(list)))
Wanted(items) == IF op.kind = "issues" THEN SelectSeq(items, LAMBDA i : i \notin Pulls) ELSE items

\* Mutant: a page is the last one when what is left of it is short.
LastPageFiltered(all) ==
  \/ Len(all) >= op.want
  \/ IF op.api = "github" THEN Len(Wanted(Page)) < PageSize
     ELSE Page = <<>> \/ PageStart + Len(Page) >= Len(list)

LastPage(all) ==
  \/ Len(all) >= op.want
  \/ IF op.api = "github" THEN Len(Page) < PageSize
     ELSE Page = <<>> \/ PageStart + Len(Page) >= Len(list)

\* The handler's answer to the core, which may be waiting no more.
Returns(ok, retryable) ==
  /\ handler' = Idle /\ waiting' = FALSE /\ UNCHANGED attempt
  /\ CASE ~waiting -> UNCHANGED status
       [] waiting /\ ok -> status' = "succeeded"
       [] waiting /\ ~ok -> Fails(retryable)

NextRequest ==
  /\ handler' = [at |-> handler.at + 1, request |-> "none"]
  /\ UNCHANGED <<status, attempt, waiting>>

\* A list takes the page; a transition goes on to its write; any other op is done.
TakesOk ==
  /\ handler.request = "ok"
  /\ IF op.kind \in Lists
     THEN LET all == got \o Wanted(Page)
          IN /\ got' = SubSeq(all, 1, Min2(op.want, Len(all)))
             /\ IF LastPage(all) THEN Returns(TRUE, FALSE) ELSE NextRequest
     ELSE /\ UNCHANGED got
          /\ IF op.kind = "transition" /\ handler.at = 1 THEN NextRequest ELSE Returns(TRUE, FALSE)
  /\ UNCHANGED <<op, conn, list, writes, faults>>

\* createConnectorServer: the error is marked transient when it is, and the supervisor
\* lets the run be retried by that mark.
TakesError ==
  /\ handler.request \in Answers \ {"ok"}
  /\ Returns(FALSE, Transient(handler.request))
  /\ UNCHANGED <<op, conn, got, list, writes, faults>>

-----------------------------------------------------------------------------

Next ==
  \/ Call \/ CallRefused \/ GivesUp \/ Exits \/ Restarts \/ Removed
  \/ Send \/ Serves \/ TimesOut \/ ArrivesLate \/ ListChanges \/ TakesOk \/ TakesError
  \/ \E a \in Answers : Refuses(a) \/ Breaks(a)

Spec == Init /\ [][Next]_vars

-----------------------------------------------------------------------------

\* A write that cannot run twice takes effect once at most, over every attempt of the run
\* and what is still on its way, unless the service reported a rate limit with an answer
\* to a request it may have carried out (api.ts, GitHubError).
WriteNotRepeated ==
  \/ op.kind = "put" /\ op.api # "github"
  \/ faults.quota
  \/ writes.done + (IF writes.late THEN 1 ELSE 0) <= 1

\* A run that succeeded has what it asked for: the write took effect; a list no one
\* changed meanwhile came whole up to the limit, in order and without repeats (paged,
\* JiraOps.search).
SucceedsWithAll ==
  status = "succeeded" =>
    IF op.kind \in Lists
    THEN faults.changed \/ LET all == Wanted(list) IN got = SubSeq(all, 1, Min2(op.want, Len(all)))
    ELSE op.kind \in Gets \/ writes.done > 0
=============================================================================
