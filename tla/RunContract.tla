----------------------------- MODULE RunContract -----------------------------
(***************************************************************************)
(* What the rest of the daemon may rely on about a run, whatever the       *)
(* executor does to get there: the statuses a run moves through and the    *)
(* lifecycle events its end publishes (docs/internal/architecture.md,      *)
(* "Runs, attempts, retries" and "Cancel and pause").  A run is the row    *)
(* the dispatcher inserts for one (task, event) pair; the pool, attempts,  *)
(* retries, waits and restarts behind it are the business of Executor,     *)
(* which implements this specification.                                    *)
(***************************************************************************)
EXTENDS Naturals, Sequences

CONSTANT Runs          \* ids of the runs rows, in creation order

VARIABLES
  status,              \* runs.status; "none" until the row is inserted
  published            \* per run, the task.<name>.* lifecycle events in the log

vars == <<status, published>>

Active == {"queued", "running", "waiting"}
Terminal == {"succeeded", "failed", "cancelled"}
Status == Active \cup Terminal \cup {"none"}

-----------------------------------------------------------------------------

Init ==
  /\ status = [r \in Runs |-> "none"]
  /\ published = [r \in Runs |-> <<>>]

\* A status change that is not an end publishes nothing.
Move(r, from, to) ==
  /\ status[r] \in from
  /\ status' = [status EXCEPT ![r] = to]
  /\ UNCHANGED published

Queue(r) == Move(r, {"none"}, "queued")
Begin(r) == Move(r, {"queued", "running"}, "running")
Park(r)  == Move(r, {"running"}, "waiting")
Wake(r)  == Move(r, {"running", "waiting"}, "queued")

\* A run ends once, in the transaction that publishes the event saying so.
\* Only a run that executes can succeed or fail; any active one can be cancelled.
End(r, outcome) ==
  /\ status[r] \in (IF outcome = "cancelled" THEN Active ELSE {"running"})
  /\ status' = [status EXCEPT ![r] = outcome]
  /\ published' = [published EXCEPT ![r] = Append(@, outcome)]

Next ==
  \E r \in Runs :
    \/ Queue(r) \/ Begin(r) \/ Park(r) \/ Wake(r)
    \/ \E outcome \in Terminal : End(r, outcome)

Spec == Init /\ [][Next]_vars
=============================================================================
