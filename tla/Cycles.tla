------------------------------- MODULE Cycles -------------------------------
(***************************************************************************)
(* The lint for tasks that trigger one another in a circle (packages/core/ *)
(* src/config/lint.ts, eventCycles): the tasks are visited in their order, *)
(* and the first of each strongly connected group names the shortest cycle *)
(* through it. The matching of emitted types with triggers is abstracted   *)
(* to which task triggers which.                                           *)
(***************************************************************************)
EXTENDS Naturals, Sequences, FiniteSets, SequencesExt

CONSTANT Size  \* the tasks of a configuration are 1..Size, in its order

CyclesAssumption == Size \in Nat

VARIABLES
  edges,    \* per task, those its events trigger, never itself
  visited,  \* the tasks before this number were visited
  grouped, cycles

vars == <<edges, visited, grouped, cycles>>

Tasks == 1..Size

TypeOK ==
  /\ \A t \in Tasks : edges[t] \subseteq Tasks \ {t}
  /\ visited \in 0..Size /\ grouped \subseteq Tasks
  /\ \A i \in DOMAIN cycles : ToSet(cycles[i]) \subseteq Tasks

Init ==
  /\ edges \in {e \in [Tasks -> SUBSET Tasks] : \A t \in Tasks : t \notin e[t]}
  /\ visited = 0 /\ grouped = {} /\ cycles = <<>>

-----------------------------------------------------------------------------
None == 0
InOrder(S) == SelectSeq([t \in Tasks |-> t], LAMBDA t : t \in S)

\* search: breadth first from start within allowed, each task reached and the one before it.
\* The start is not marked: it may be reached, and stands in the queue a second time.
Expand(q, n, allowed) ==
  LET new == {t \in edges[n] : q.prev[t] = None /\ t \in allowed}
  IN [prev |-> [t \in Tasks |-> IF t \in new THEN n ELSE q.prev[t]],
      queue |-> q.queue \o InOrder(new)]

Search(start, allowed) ==
  FoldLeft(LAMBDA q, i : IF i > Len(q.queue) THEN q ELSE Expand(q, q.queue[i], allowed),
           [prev |-> [t \in Tasks |-> None], queue |-> <<start>>],
           [i \in 1..Size + 1 |-> i]).prev

Reached(start) == {t \in Tasks : Search(start, Tasks)[t] # None}

\* The tasks in a circle with v.
Mutual(v) == {u \in Reached(v) : v \in Reached(u)}
\* Mutant: the group is all that is reached from v.
Downstream(v) == Reached(v)
Group(v) == Mutual(v)

\* Back from v along prev until v.
Path(v, prev) ==
  FoldLeft(LAMBDA p, i : IF prev[Head(p)] = v THEN p ELSE <<prev[Head(p)]>> \o p,
           <<v>>, [i \in 1..Size |-> i])
Cycle(v, prev) == <<v>> \o Front(Path(v, prev))

Visit ==
  LET v == visited + 1 IN
    /\ v <= Size /\ visited' = v /\ UNCHANGED edges
    /\ IF v \in grouped \/ v \notin Reached(v) THEN UNCHANGED <<grouped, cycles>>
       ELSE /\ grouped' = grouped \cup Group(v)
            /\ cycles' = Append(cycles, Cycle(v, Search(v, Group(v))))

Next == Visit

Spec == Init /\ [][Next]_vars

-----------------------------------------------------------------------------
\* Which tasks a chain of k - 1 events leads to from t.
Led(t) ==
  FoldLeft(LAMBDA s, k : Append(s, UNION {edges[u] : u \in Last(s)}), <<{t}>>,
           [k \in 1..Size |-> k])
Circles ==
  LET leads == [t \in Tasks |-> UNION {Led(t)[k] : k \in 2..Size + 1}]
  IN [t \in Tasks |-> {u \in leads[t] : t \in leads[u]}]

\* eventCycles: once all are visited, each task in a circle belongs to the group of exactly one
\* cycle named, which starts at the first task of the group, is a real chain of
\* triggers back to it, names no task twice and is as short as any through that task.
CirclesAreNamed ==
  visited = Size => LET circle == Circles IN
    /\ \A t \in Tasks : circle[t] # {} =>
         Cardinality({i \in DOMAIN cycles : Head(cycles[i]) \in circle[t]}) = 1
    /\ \A i \in DOMAIN cycles :
         LET c == cycles[i] IN
           /\ \A k \in DOMAIN c : c[(k % Len(c)) + 1] \in edges[c[k]]
           /\ \A u \in circle[c[1]] : c[1] <= u
           /\ Cardinality(ToSet(c)) = Len(c)
           /\ \A k \in 2..Len(c) : c[1] \notin Led(c[1])[k]
=============================================================================
