------------------------------- MODULE Scrape -------------------------------
(***************************************************************************)
(* The metrics listener (packages/core/src/api/metrics-server.ts): the     *)
(* start and the reloads configure its address one after the other, a new  *)
(* one is bound before the old one closes, and a close ends it for good.   *)
(* Other programs take and leave addresses meanwhile.                      *)
(***************************************************************************)
EXTENDS Naturals, FiniteSets, Sequences

CONSTANTS
  Addresses,   \* [host, port]; the host "any" is every address of the machine
  MaxRequests  \* bound: configures asked for

ScrapeAssumption == MaxRequests \in Nat

VARIABLES
  wanted,  \* current.wanted, Off when nothing listens
  held,    \* the addresses this daemon listens on
  others,  \* those other programs do
  queue,   \* the configures that wait for the one before
  step, job, old,  \* the one that is applied
  closed,
  served,  \* the last configuration that took effect
  lost     \* it could not be restored: another program took its address

vars == <<wanted, held, others, queue, step, job, old, closed, served, lost>>

Off == [host |-> "none", port |-> 0]
Wishes == Addresses \cup {Off}

TypeOK ==
  /\ wanted \in Wishes /\ job \in Wishes /\ old \in Wishes /\ served \in Wishes
  /\ held \subseteq Addresses /\ others \subseteq Addresses
  /\ Len(queue) <= MaxRequests + 1 /\ \A i \in DOMAIN queue : queue[i] \in Wishes
  /\ step \in {"idle", "bind", "closeOld", "rebind", "restore", "stopOld"}
  /\ closed \in BOOLEAN /\ lost \in BOOLEAN

Init ==
  /\ wanted = Off /\ held = {} /\ others \in SUBSET Addresses /\ queue = <<>>
  /\ step = "idle" /\ job = Off /\ old = Off /\ closed = FALSE /\ served = Off /\ lost = FALSE

Clash(a, b) == a.port = b.port /\ (a.host = b.host \/ "any" \in {a.host, b.host})
Free(a) == \A b \in held \cup others : ~Clash(a, b)

-----------------------------------------------------------------------------
Asked == Len(queue) + (IF step = "idle" THEN 0 ELSE 1)

Configure(a) ==
  /\ Asked < MaxRequests /\ queue' = Append(queue, a)
  /\ UNCHANGED <<wanted, held, others, step, job, old, closed, served, lost>>

Close ==
  /\ ~closed /\ closed' = TRUE /\ queue' = Append(queue, Off)
  /\ UNCHANGED <<wanted, held, others, step, job, old, served, lost>>

\* Whether it is closed is looked at when its turn comes.
Granted(a) == IF closed THEN Off ELSE a
\* Mutant: a configure does not look whether it was closed.
GrantedAsAsked(a) == a
Applied(a) == Granted(a)

Begin ==
  /\ step = "idle" /\ queue # <<>> /\ queue' = Tail(queue)
  /\ LET a == Applied(Head(queue)) IN
       /\ job' = a /\ old' = wanted
       /\ IF a = wanted THEN step' = "idle" /\ UNCHANGED <<wanted, served, lost>>
          ELSE IF a = Off
            THEN step' = "stopOld" /\ wanted' = Off /\ served' = Off /\ lost' = FALSE
            ELSE step' = "bind" /\ UNCHANGED <<wanted, served, lost>>
  /\ UNCHANGED <<held, others, closed>>

Listens(next) ==
  /\ held' = held \cup {job} /\ wanted' = job /\ served' = job /\ lost' = FALSE /\ step' = next

\* Bound, refused for any reason, or in the way of itself: the same port under another host.
Bind ==
  /\ step = "bind"
  /\ \/ Free(job) /\ Listens(IF old = Off THEN "idle" ELSE "stopOld")
     \/ /\ old = Off \/ old.port # job.port \/ Free(job)
        /\ step' = "idle" /\ UNCHANGED <<wanted, held, served, lost>>
     \/ /\ ~Free(job) /\ old # Off /\ old.port = job.port
        /\ wanted' = Off /\ step' = "closeOld" /\ UNCHANGED <<held, served, lost>>
  /\ UNCHANGED <<others, queue, job, old, closed>>

\* stop: connections dropped, the address free; after a new one is bound, or before it is tried.
StopOld ==
  /\ step \in {"stopOld", "closeOld"}
  /\ held' = held \ {old} /\ step' = IF step = "stopOld" THEN "idle" ELSE "rebind"
  /\ UNCHANGED <<wanted, others, queue, job, old, closed, served, lost>>

AfterRefusal == "restore"
\* Mutant: a refused address leaves no listener.
AfterRefusalNothing == "idle"
NextAfterRefusal == AfterRefusal

Rebind ==
  /\ step = "rebind"
  /\ \/ Free(job) /\ Listens("idle")
     \/ step' = NextAfterRefusal /\ UNCHANGED <<wanted, held, served, lost>>
  /\ UNCHANGED <<others, queue, job, old, closed>>

Restore ==
  /\ step = "restore" /\ step' = "idle"
  /\ IF Free(old) THEN held' = held \cup {old} /\ wanted' = old /\ UNCHANGED lost
     ELSE lost' = TRUE /\ UNCHANGED <<held, wanted>>
  /\ UNCHANGED <<others, queue, job, old, closed, served>>

\* Another program listens, or stops listening.
Elsewhere ==
  /\ \E a \in Addresses : \/ a \in others /\ others' = others \ {a}
                          \/ a \notin others /\ Free(a) /\ others' = others \cup {a}
  /\ UNCHANGED <<wanted, held, queue, step, job, old, closed, served, lost>>

Next ==
  \/ \E a \in Wishes : Configure(a)
  \/ Close \/ Begin \/ Bind \/ StopOld \/ Rebind \/ Restore \/ Elsewhere

Spec == Init /\ [][Next]_vars

-----------------------------------------------------------------------------
\* MetricsServer.configure: at rest the daemon listens on what was last configured with
\* success and on nothing else; an address that cannot be bound leaves the old one serving,
\* and while a new one on another port is tried the old one never stops.
ListenerKept ==
  /\ step = "idle" => held = {wanted} \ {Off} /\ (lost \/ wanted = served)
  /\ step \in {"bind", "stopOld"} /\ wanted # Off => wanted \in held

\* MetricsServer.close: a configure still in the queue, or asked for later, opens nothing.
ClosedStaysClosed == closed /\ step = "idle" /\ queue = <<>> => held = {}
=============================================================================
