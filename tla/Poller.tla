------------------------------- MODULE Poller -------------------------------
(***************************************************************************)
(* A poller (packages/core/src/connectors/poller.ts): on each instant of   *)
(* its schedule it calls a connector's op and publishes an event for every *)
(* item whose key is not in its seen list.  Events are deduplicated by key *)
(* until retention deletes them, so the seen list alone keeps an item the  *)
(* op still returns from being emitted again.                              *)
(*                                                                         *)
(* The op returns any list, in any order and with repetitions.  A call, a  *)
(* result of the wrong shape and the store may fail.                       *)
(***************************************************************************)
EXTENDS Naturals, Sequences, SequencesExt

CONSTANTS
  Keys,         \* the items' keys
  Keep,         \* keep
  SkipFirst,    \* whether the manifest says "first_run: skip"
  MaxItems,     \* bound: the items of a result
  MaxEmissions  \* bound: how often an item is emitted

PollerAssumption ==
  /\ Keep \in Nat \ {0} /\ SkipFirst \in BOOLEAN
  /\ MaxItems \in Nat \ {0} /\ MaxEmissions \in Nat \ {0}
  /\ "none" \notin Keys

VARIABLES
  armed,    \* whether the schedule's timer runs
  flight,   \* the poll in flight
  seen,     \* the seen list in the state store, or NoEntry
  stored,   \* the keys whose event is in the store
  emitted,  \* how often a key was emitted
  seeded,   \* the keys the first run skipped
  steady    \* the keys every result had since they were first seen

vars == <<armed, flight, seen, stored, emitted, seeded, steady>>

NoEntry == <<"none">>
Results == UNION {[1 .. n -> Keys] : n \in 0 .. MaxItems}
SeenSet == IF seen = NoEntry THEN {} ELSE ToSet(seen)

\* The items of q at the places in "at", in their order.
Picked(q, at) ==
  LET pick[n \in 0 .. Len(q)] ==
        IF n = 0 THEN <<>> ELSE IF n \in at THEN Append(pick[n - 1], q[n]) ELSE pick[n - 1]
  IN pick[Len(q)]

\* [...new Set(keys)]: each key once, in the order of its first occurrence.
Current(q) == Picked(q, {i \in DOMAIN q : \A j \in 1 .. i - 1 : q[j] # q[i]})

\* The keys of the seen list that q has no longer.
Previous(q) ==
  LET list == IF seen = NoEntry THEN <<>> ELSE seen
  IN Picked(list, {i \in DOMAIN list : list[i] \notin ToSet(q)})

\* slice(-n)
LastOf(q, n) == IF n >= Len(q) THEN q ELSE SubSeq(q, Len(q) - n + 1, Len(q))

\* Mutant: a result longer than "keep" is cut to it.
SeenCut(q) == LastOf(Previous(q) \o Current(q), Keep)

\* Mutant: what the result has takes no room from the rest.
SeenRoomy(q) == LastOf(Previous(q), Keep) \o Current(q)

\* The next seen list: what the result has, and of what it has no longer the newest.
SeenNext(q) ==
  LET room == IF Keep > Len(Current(q)) THEN Keep - Len(Current(q)) ELSE 0
  IN LastOf(Previous(q), room) \o Current(q)

\* The items that are new: of those, the ones published and not known to the store.
Fresh(q) == ToSet(q) \ SeenSet
Skips == seen = NoEntry /\ SkipFirst
Inserted(q) == IF Skips THEN {} ELSE Fresh(q) \ stored

TypeOK ==
  /\ armed \in BOOLEAN /\ flight \in {"none", "calling", "aborted"}
  /\ seen # NoEntry => IsInjective(seen) /\ ToSet(seen) \subseteq Keys
                     /\ (Len(seen) <= Keep \/ Len(seen) <= MaxItems)
  /\ stored \subseteq Keys /\ emitted \in [Keys -> 0 .. MaxEmissions]
  /\ seeded \subseteq Keys /\ steady \subseteq Keys

Init ==
  /\ armed = FALSE /\ flight = "none" /\ seen = NoEntry
  /\ stored = {} /\ emitted = [k \in Keys |-> 0] /\ seeded = {} /\ steady = {}

Kept == UNCHANGED <<seen, stored, emitted, seeded, steady>>

-----------------------------------------------------------------------------

\* start(): the timer is armed; the first poll comes with the next instant.
Start ==
  /\ ~armed /\ flight = "none" /\ armed' = TRUE
  /\ UNCHANGED flight /\ Kept

\* poll(), by the timer or by hand: skipped while one is in flight.
Poll ==
  /\ armed /\ flight = "none" /\ flight' = "calling"
  /\ UNCHANGED armed /\ Kept

\* Mutant: the seen list commits first, and the events may be lost.
DiffAndEmitInTwo(q) ==
  /\ seen' = SeenNext(q)
  /\ \E new \in {{}, Inserted(q)} :
       /\ stored' = stored \cup new
       /\ emitted' = [k \in Keys |-> emitted[k] + (IF k \in new THEN 1 ELSE 0)]
  /\ seeded' = IF Skips THEN seeded \cup Fresh(q) ELSE seeded
  /\ steady' = (steady \cap ToSet(q)) \cup Fresh(q)

\* diffAndEmit(), one transaction.
DiffAndEmit(q) ==
  /\ stored' = stored \cup Inserted(q)
  /\ emitted' = [k \in Keys |-> emitted[k] + (IF k \in Inserted(q) THEN 1 ELSE 0)]
  /\ seeded' = IF Skips THEN seeded \cup Fresh(q) ELSE seeded
  /\ steady' = (steady \cap ToSet(q)) \cup Fresh(q)
  /\ seen' = SeenNext(q)

\* The op answered, perhaps after stop() aborted the call.
Answered(q) ==
  /\ flight # "none" /\ flight' = "none"
  /\ \A k \in Inserted(q) : emitted[k] < MaxEmissions
  /\ DiffAndEmit(q)
  /\ UNCHANGED armed

\* The call fails or is aborted, its result has the wrong shape, the store rolls back.
PollFails == flight # "none" /\ flight' = "none" /\ UNCHANGED armed /\ Kept

\* stop(): the timer goes, the call in flight is aborted, its poll still settles.
Stop ==
  /\ armed /\ armed' = FALSE
  /\ flight' = IF flight = "calling" THEN "aborted" ELSE flight
  /\ Kept

Crash == armed' = FALSE /\ flight' = "none" /\ Kept

\* Retention deletes an old event; its dedup key goes with it.
Purge(k) ==
  /\ k \in stored /\ stored' = stored \ {k}
  /\ UNCHANGED <<armed, flight, seen, emitted, seeded, steady>>

Next ==
  \/ Start \/ Poll \/ PollFails \/ Stop \/ Crash
  \/ \E q \in Results : Answered(q)
  \/ \E k \in Keys : Purge(k)

Spec == Init /\ [][Next]_vars

-----------------------------------------------------------------------------

\* An item the op keeps returning is emitted once, however long the result is, in whatever
\* order its items come, and whether or not its event was purged (poller.ts, 351-358).
SteadyItemQuiet == \A k \in steady : emitted'[k] = emitted[k]
SteadyItemEmittedOnce == [][SteadyItemQuiet]_vars

\* The seen list never swallows an item: every key in it was emitted, or skipped by the
\* first run, through failed polls, rollbacks and crashes (311-313).
SeenWasEmitted == \A k \in SeenSet : emitted[k] > 0 \/ k \in seeded
=============================================================================
