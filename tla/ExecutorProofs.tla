--------------------------- MODULE ExecutorProofs ---------------------------
(***************************************************************************)
(* Theorems about Executor, for every set of runs, tasks, policies, pool   *)
(* size and store behaviour.  They are layered:                            *)
(*                                                                         *)
(*   1. lemmas about the executor's queues;                                *)
(*   2. PoolInv: the pool's books, with the types of its variables;        *)
(*   3. RowsInv: what the pool and the rows say of each other, and how     *)
(*      far attempts and waits have come;                                  *)
(*   4. the properties of Executor that follow from those two, with what   *)
(*      the last ones add: SpentInv for the attempts that failed,          *)
(*      ToldInFlight for the runs that were cancelled.                     *)
(***************************************************************************)
EXTENDS Executor, FiniteSetTheorems, SequenceTheorems, TLAPS

-----------------------------------------------------------------------------
(***************************************************************************)
(* 1. Queues.  "pending" and "retryReady" hold a run at most once; what    *)
(* joining, dropping an entry and taking the head do to the runs they hold.*)
(***************************************************************************)

Distinct(q) == \A i, j \in DOMAIN q : q[i].run = q[j].run => i = j

\* Every entry of q is an entry of p, other than those of run r.
FromOther(q, p, r) == \A i \in DOMAIN q : \E j \in DOMAIN p : q[i] = p[j] /\ p[j].run # r

\* RemoveAt() drops one entry and closes the gap.
LEMMA RemoveAtFacts ==
  ASSUME NEW S, NEW q \in Seq(S), NEW i \in DOMAIN q
  PROVE  /\ RemoveAt(q, i) \in Seq(S)
         /\ Len(RemoveAt(q, i)) = Len(q) - 1
         /\ \A j \in 1 .. Len(q) - 1 : RemoveAt(q, i)[j] = IF j < i THEN q[j] ELSE q[j + 1]
<1> DEFINE front == SubSeq(q, 1, i - 1)
           back == SubSeq(q, i + 1, Len(q))
<1>0. i \in 1 .. Len(q) /\ Len(q) \in Nat
  BY LenProperties
<1>1. /\ front \in Seq(S) /\ Len(front) = i - 1
      /\ \A j \in 1 .. i - 1 : front[j] = q[j]
  BY <1>0
<1>2. /\ back \in Seq(S) /\ Len(back) = Len(q) - i
      /\ \A j \in 1 .. Len(q) - i : back[j] = q[i + j]
  BY <1>0
<1> HIDE DEF front, back
<1>3. /\ front \o back \in Seq(S)
      /\ Len(front \o back) = Len(front) + Len(back)
      /\ \A j \in 1 .. Len(front) + Len(back) :
           (front \o back)[j] = IF j <= Len(front) THEN front[j] ELSE back[j - Len(front)]
  BY <1>1, <1>2, ConcatProperties
<1>4. Len(front) + Len(back) = Len(q) - 1
  BY <1>0, <1>1, <1>2
<1>5. ASSUME NEW j \in 1 .. Len(q) - 1
      PROVE  (front \o back)[j] = IF j < i THEN q[j] ELSE q[j + 1]
  <2>1. CASE j < i
    <3>1. j \in 1 .. i - 1 /\ j <= Len(front)
      BY <2>1, <1>0, <1>1
    <3> QED BY <2>1, <3>1, <1>1, <1>3, <1>4
  <2>2. CASE ~(j < i)
    <3> DEFINE k == j - (i - 1)
    <3>1. k \in 1 .. Len(q) - i /\ i + k = j + 1 /\ ~(j <= Len(front)) /\ k = j - Len(front)
      BY <2>2, <1>0, <1>1
    <3> HIDE DEF k
    <3>2. (front \o back)[j] = back[k]
      BY <3>1, <1>3, <1>4
    <3>3. back[k] = q[i + k]
      BY <3>1, <1>2
    <3> QED BY <2>2, <3>1, <3>2, <3>3
  <2> QED BY <2>1, <2>2
<1> QED BY <1>3, <1>4, <1>5 DEF RemoveAt, front, back

\* Removing an entry of a queue removes its run, and leaves the others once each.
LEMMA RemoveQueue ==
  ASSUME NEW S, NEW q \in Seq(S), NEW i \in DOMAIN q, Distinct(q)
  PROVE  /\ RemoveAt(q, i) \in Seq(S)
         /\ Ids(RemoveAt(q, i)) = Ids(q) \ {q[i].run}
         /\ Distinct(RemoveAt(q, i))
         /\ FromOther(RemoveAt(q, i), q, q[i].run)
<1> DEFINE p == RemoveAt(q, i)
           at(j) == IF j < i THEN j ELSE j + 1
<1>1. /\ p \in Seq(S) /\ DOMAIN p = 1 .. Len(q) - 1
      /\ \A j \in 1 .. Len(q) - 1 : p[j] = IF j < i THEN q[j] ELSE q[j + 1]
  BY RemoveAtFacts, LenProperties
<1>2. DOMAIN q = 1 .. Len(q) /\ Len(q) \in Nat /\ i \in 1 .. Len(q)
  BY LenProperties
<1> HIDE DEF p
<1>3. ASSUME NEW j \in DOMAIN p
      PROVE  at(j) \in DOMAIN q /\ at(j) # i /\ p[j] = q[at(j)]
  BY <1>1, <1>2
<1>4. \A j, k \in DOMAIN p : at(j) = at(k) => j = k
  BY <1>1, <1>2
<1>5. Distinct(p)
  BY <1>3, <1>4 DEF Distinct
<1>6. FromOther(p, q, q[i].run)
  BY <1>3 DEF Distinct, FromOther
<1>7. ASSUME NEW k \in DOMAIN q, k # i
      PROVE  \E j \in DOMAIN p : p[j] = q[k]
  <2>1. CASE k < i
    BY <2>1, <1>1, <1>2
  <2>2. CASE k > i
    <3>1. k - 1 \in DOMAIN p /\ p[k - 1] = q[k]
      BY <2>2, <1>1, <1>2
    <3> QED BY <3>1
  <2> QED BY <2>1, <2>2, <1>2, <1>7
<1>8. Ids(p) = Ids(q) \ {q[i].run}
  BY <1>6, <1>7 DEF Ids, FromOther
<1> QED BY <1>1, <1>5, <1>6, <1>8 DEF p

\* cancel() and an aborted backoff splice a run out of a queue that holds it.
LEMMA WithoutQueue ==
  ASSUME NEW S, NEW q \in Seq(S), NEW r, Distinct(q)
  PROVE  /\ Without(q, r) \in Seq(S)
         /\ Ids(Without(q, r)) = Ids(q) \ {r}
         /\ Distinct(Without(q, r))
         /\ FromOther(Without(q, r), q, r)
<1>1. CASE r \in Ids(q)
  <2> DEFINE i == CHOOSE i \in DOMAIN q : q[i].run = r
  <2>1. i \in DOMAIN q /\ q[i].run = r
    BY <1>1 DEF Ids
  <2> HIDE DEF i
  <2>2. Without(q, r) = RemoveAt(q, i)
    BY <1>1 DEF Without, i
  <2> QED BY <2>1, <2>2, RemoveQueue
<1>2. CASE r \notin Ids(q)
  BY <1>2 DEF Without, Ids, FromOther
<1> QED BY <1>1, <1>2

\* Joining two queues that share no run.
LEMMA ConcatQueue ==
  ASSUME NEW S, NEW p \in Seq(S), NEW q \in Seq(S),
         Distinct(p), Distinct(q), Ids(p) \cap Ids(q) = {}
  PROVE  /\ p \o q \in Seq(S)
         /\ Ids(p \o q) = Ids(p) \cup Ids(q)
         /\ Distinct(p \o q)
         /\ \A i \in DOMAIN (p \o q) :
              \/ \E j \in DOMAIN p : (p \o q)[i] = p[j]
              \/ \E j \in DOMAIN q : (p \o q)[i] = q[j]
<1> DEFINE c == p \o q
           m == Len(p)
           n == Len(q)
<1>1. /\ c \in Seq(S) /\ DOMAIN c = 1 .. m + n
      /\ \A i \in 1 .. m + n : c[i] = IF i <= m THEN p[i] ELSE q[i - m]
  BY ConcatProperties, LenProperties
<1>2. DOMAIN p = 1 .. m /\ DOMAIN q = 1 .. n /\ m \in Nat /\ n \in Nat
  BY LenProperties
<1> HIDE DEF c, m, n
<1>3. \A i \in DOMAIN c :
        \/ i \in DOMAIN p /\ c[i] = p[i]
        \/ i - m \in DOMAIN q /\ c[i] = q[i - m]
  BY <1>1, <1>2
<1>4. /\ \A i \in DOMAIN p : i \in DOMAIN c /\ c[i] = p[i]
      /\ \A i \in DOMAIN q : m + i \in DOMAIN c /\ c[m + i] = q[i]
  BY <1>1, <1>2
<1>5. Ids(c) = Ids(p) \cup Ids(q)
  BY <1>3, <1>4 DEF Ids
<1>6. ASSUME NEW i \in DOMAIN c, NEW j \in DOMAIN c, c[i].run = c[j].run
      PROVE  i = j
  <2>1. CASE i \in DOMAIN p /\ c[i] = p[i] /\ j \in DOMAIN p /\ c[j] = p[j]
    BY <2>1, <1>6 DEF Distinct
  <2>2. CASE i - m \in DOMAIN q /\ c[i] = q[i - m] /\ j - m \in DOMAIN q /\ c[j] = q[j - m]
    <3>1. i - m = j - m
      BY <2>2, <1>6 DEF Distinct
    <3> QED BY <3>1, <1>1, <1>2
  <2> QED BY <2>1, <2>2, <1>3, <1>6 DEF Ids
<1> QED BY <1>1, <1>3, <1>5, <1>6 DEF Distinct, c

\* A queue of one.
LEMMA SingletonQueue ==
  ASSUME NEW S, NEW x \in S
  PROVE  <<x>> \in Seq(S) /\ DOMAIN <<x>> = {1} /\ Ids(<<x>>) = {x.run} /\ Distinct(<<x>>)
<1>1. <<x>> \in Seq(S) /\ DOMAIN <<x>> = {1}
  OBVIOUS
<1> QED BY <1>1 DEF Ids, Distinct

LEMMA AppendEntries ==
  ASSUME NEW S, NEW q \in Seq(S), NEW x \in S
  PROVE  \A i \in DOMAIN Append(q, x) :
           Append(q, x)[i] = x \/ (i \in DOMAIN q /\ Append(q, x)[i] = q[i])
<1>1. /\ Append(q, x) \in Seq(S) /\ Len(Append(q, x)) = Len(q) + 1
      /\ \A i \in 1 .. Len(q) : Append(q, x)[i] = q[i]
      /\ Append(q, x)[Len(q) + 1] = x
  BY AppendProperties
<1>2. DOMAIN q = 1 .. Len(q) /\ Len(q) \in Nat /\ DOMAIN Append(q, x) = 1 .. Len(q) + 1
  BY <1>1, LenProperties
<1> SUFFICES ASSUME NEW i \in DOMAIN Append(q, x)
             PROVE  Append(q, x)[i] = x \/ (i \in DOMAIN q /\ Append(q, x)[i] = q[i])
  OBVIOUS
<1>3. i \in 1 .. Len(q) \/ i = Len(q) + 1
  BY <1>2
<1> QED BY <1>1, <1>2, <1>3

\* The queue without its head.
LEMMA TailQueue ==
  ASSUME NEW S, NEW q \in Seq(S), q # <<>>, Distinct(q)
  PROVE  /\ Head(q) \in S /\ Head(q).run \in Ids(q)
         /\ Tail(q) \in Seq(S)
         /\ Ids(Tail(q)) = Ids(q) \ {Head(q).run}
         /\ Distinct(Tail(q))
<1>1. DOMAIN q = 1 .. Len(q) /\ Len(q) \in Nat \ {0}
  BY LenProperties, EmptySeq
<1>2. Head(q) = q[1] /\ 1 \in DOMAIN q
  BY <1>1
<1>3. Tail(q) = RemoveAt(q, 1)
  <2>1. /\ Tail(q) \in Seq(S) /\ Len(Tail(q)) = Len(q) - 1
        /\ \A j \in 1 .. Len(q) - 1 : Tail(q)[j] = q[j + 1]
    BY HeadTailProperties
  <2>2. /\ RemoveAt(q, 1) \in Seq(S) /\ Len(RemoveAt(q, 1)) = Len(q) - 1
        /\ \A j \in 1 .. Len(q) - 1 : RemoveAt(q, 1)[j] = q[j + 1]
    <3>1. /\ RemoveAt(q, 1) \in Seq(S) /\ Len(RemoveAt(q, 1)) = Len(q) - 1
          /\ \A j \in 1 .. Len(q) - 1 : RemoveAt(q, 1)[j] = IF j < 1 THEN q[j] ELSE q[j + 1]
      BY <1>2, RemoveAtFacts
    <3> QED BY <3>1, <1>1
  <2> QED BY <1>1, <2>1, <2>2, SeqEqual
<1>4. Head(q) \in S /\ Head(q).run \in Ids(q)
  BY <1>2, HeadTailProperties DEF Ids
<1>5. /\ RemoveAt(q, 1) \in Seq(S)
      /\ Ids(RemoveAt(q, 1)) = Ids(q) \ {q[1].run}
      /\ Distinct(RemoveAt(q, 1))
  BY <1>2, RemoveQueue
<1> QED BY <1>2, <1>3, <1>4, <1>5

-----------------------------------------------------------------------------
(***************************************************************************)
(* 2. The pool's books.                                                    *)
(***************************************************************************)

PoolTypes ==
  /\ pending \in Seq(Record)
  /\ known \subseteq Runs /\ inFlight \subseteq Runs /\ backingOff \subseteq Runs
  /\ perTask \in [Tasks -> Nat]
  /\ retryReady \in Seq([run : Runs])
  /\ reason \in [Runs -> {"none", "stopped", "cancelled"}]
  /\ phase \in [Runs -> {"idle", "performing", "parking", "backoff", "ready"}]
  /\ pumping \in BOOLEAN
  /\ mode \in {"down", "booting", "up"} \cup Stopping
  /\ scan \subseteq Runs /\ holds \in {0, 1} /\ workers \in WorkerCounts

\* Once a stop began, every run in a backoff was told to go, so none can queue for a worker.
BackoffsTold ==
  mode \in Stopping =>
    \A r \in Runs : phase[r] \in {"backoff", "ready"} => reason[r] # "none"

PoolInv == PoolTypes /\ PoolAgrees /\ BackoffsTold

\* The three parts of PoolAgrees an action disturbs, each for itself.
QueueAgrees ==
  /\ pending \in Seq(Record)
  /\ known = Ids(pending) \cup inFlight
  /\ Ids(pending) \cap inFlight = {}
  /\ Distinct(pending)

FlightAgrees ==
  /\ inFlight = {r \in Runs : phase[r] # "idle"}
  /\ backingOff = {r \in Runs : phase[r] \in {"backoff", "ready"}}
  /\ perTask \in [Tasks -> Nat]
  /\ \A t \in Tasks : perTask[t] = Cardinality({r \in inFlight : TaskOf[r] = t})

RetryAgrees ==
  /\ retryReady \in Seq([run : Runs])
  /\ Distinct(retryReady)
  /\ Ids(retryReady) = {r \in Runs : phase[r] = "ready" /\ reason[r] = "none"}

HostTypes ==
  /\ known \subseteq Runs
  /\ reason \in [Runs -> {"none", "stopped", "cancelled"}]
  /\ phase \in [Runs -> {"idle", "performing", "parking", "backoff", "ready"}]
  /\ pumping \in BOOLEAN
  /\ mode \in {"down", "booting", "up"} \cup Stopping
  /\ scan \subseteq Runs /\ holds \in {0, 1} /\ workers \in WorkerCounts

DownIsEmpty == mode = "down" => known = {}

LEMMA PoolInvParts ==
  PoolInv <=> /\ QueueAgrees /\ FlightAgrees /\ RetryAgrees /\ HostTypes /\ DownIsEmpty
              /\ BackoffsTold
BY DEF PoolInv, PoolTypes, PoolAgrees, QueueAgrees, FlightAgrees, RetryAgrees, HostTypes,
       DownIsEmpty, Distinct

LEMMA PoolInvPartsNext ==
  PoolInv' <=> /\ QueueAgrees' /\ FlightAgrees' /\ RetryAgrees' /\ HostTypes' /\ DownIsEmpty'
               /\ BackoffsTold'
BY DEF PoolInv, PoolTypes, PoolAgrees, QueueAgrees, FlightAgrees, RetryAgrees, HostTypes,
       DownIsEmpty, Distinct

\* Every entry of a queue of records is a record of one of its runs.
LEMMA EntryFacts ==
  ASSUME NEW q \in Seq(Record), NEW i \in DOMAIN q
  PROVE  /\ q[i] \in Record /\ q[i].run \in Runs /\ q[i].run \in Ids(q)
         /\ q[i].status \in {"queued", "running"}
<1>1. i \in 1 .. Len(q)
  BY LenProperties
<1>2. q[i] \in Record
  BY <1>1, ElementOfSeq
<1> QED BY <1>2 DEF Record, Ids

\* How a run that joins or leaves the pool changes the count of each task.
LEMMA CountLeave ==
  ASSUME NEW F \in SUBSET Runs, NEW r \in F, NEW t \in Tasks
  PROVE  /\ Cardinality({q \in F : TaskOf[q] = t}) \in Nat
         /\ Cardinality({q \in F \ {r} : TaskOf[q] = t}) \in Nat
         /\ Cardinality({q \in F \ {r} : TaskOf[q] = t})
              = Cardinality({q \in F : TaskOf[q] = t}) - (IF TaskOf[r] = t THEN 1 ELSE 0)
<1> DEFINE S == {q \in F : TaskOf[q] = t}
           D == {q \in F \ {r} : TaskOf[q] = t}
<1>1. IsFiniteSet(S) /\ IsFiniteSet(D)
  BY ExecutorAssumption, FS_Subset
<1>2. Cardinality(S) \in Nat /\ Cardinality(D) \in Nat
  BY <1>1, FS_CardinalityType
<1>3. CASE TaskOf[r] = t
  <2>1. D = S \ {r} /\ r \in S
    BY <1>3
  <2> HIDE DEF S, D
  <2>2. Cardinality(D) = Cardinality(S) - 1
    BY <1>1, <2>1, FS_RemoveElement
  <2> QED BY <1>2, <1>3, <2>2 DEF S, D
<1>4. CASE TaskOf[r] # t
  <2>1. D = S
    BY <1>4
  <2> QED BY <1>2, <1>4, <2>1
<1> QED BY <1>2, <1>3, <1>4

LEMMA CountJoin ==
  ASSUME NEW F \in SUBSET Runs, NEW r \in Runs, r \notin F, NEW t \in Tasks
  PROVE  /\ Cardinality({q \in F : TaskOf[q] = t}) \in Nat
         /\ Cardinality({q \in F \cup {r} : TaskOf[q] = t})
              = Cardinality({q \in F : TaskOf[q] = t}) + (IF TaskOf[r] = t THEN 1 ELSE 0)
<1> DEFINE J == F \cup {r}
<1>1. J \in SUBSET Runs /\ r \in J /\ J \ {r} = F
  OBVIOUS
<1> HIDE DEF J
<1>2. /\ Cardinality({q \in J : TaskOf[q] = t}) \in Nat
      /\ Cardinality({q \in F : TaskOf[q] = t}) \in Nat
      /\ Cardinality({q \in F : TaskOf[q] = t})
           = Cardinality({q \in J : TaskOf[q] = t}) - (IF TaskOf[r] = t THEN 1 ELSE 0)
  BY <1>1, CountLeave
<1> QED BY <1>2 DEF J

\* The finally block: whoever leaves was in flight and no longer waits for a worker.
LEMMA LeavePoolKeeps ==
  ASSUME PoolInv, NEW r \in Runs, phase[r] # "idle", LeavePool(r)
  PROVE  FlightAgrees' /\ inFlight' = inFlight \ {r} /\ r \in inFlight
<1> USE PoolInvParts DEF FlightAgrees, HostTypes
<1>1. /\ inFlight' = {q \in Runs : phase'[q] # "idle"} /\ r \in inFlight
      /\ backingOff' = {q \in Runs : phase'[q] \in {"backoff", "ready"}}
  BY DEF LeavePool
<1>2. TaskOf[r] \in Tasks
  BY ExecutorAssumption
<1>3. perTask' = [perTask EXCEPT ![TaskOf[r]] = @ - 1] /\ inFlight' = inFlight \ {r}
  BY DEF LeavePool
<1>4. ASSUME NEW t \in Tasks
      PROVE  /\ perTask'[t] = Cardinality({q \in inFlight' : TaskOf[q] = t})
             /\ perTask'[t] \in Nat
  <2>1. /\ Cardinality({q \in inFlight : TaskOf[q] = t}) \in Nat
        /\ Cardinality({q \in inFlight \ {r} : TaskOf[q] = t}) \in Nat
        /\ Cardinality({q \in inFlight \ {r} : TaskOf[q] = t})
             = Cardinality({q \in inFlight : TaskOf[q] = t}) - (IF TaskOf[r] = t THEN 1 ELSE 0)
    BY <1>1, CountLeave
  <2>2. perTask'[t] = perTask[t] - (IF TaskOf[r] = t THEN 1 ELSE 0)
    BY <1>2, <1>3
  <2> QED BY <1>3, <2>1, <2>2
<1>5. perTask' \in [Tasks -> Nat]
  BY <1>2, <1>3, <1>4
<1> QED BY <1>1, <1>3, <1>4, <1>5

\* A run leaves the pool for good: settled, parked, cancelled, abandoned or failed.
LEMMA LeaveKeeps ==
  ASSUME PoolInv, NEW r \in Runs, phase[r] # "idle", Leave(r),
         phase[r] = "ready" => reason[r] # "none",
         UNCHANGED hostVars
  PROVE  PoolInv'
<1> USE PoolInvParts
<1>1. FlightAgrees' /\ inFlight' = inFlight \ {r} /\ r \in inFlight
  BY LeavePoolKeeps DEF Leave
<1>2. QueueAgrees'
  BY <1>1 DEF QueueAgrees, Leave, Ids, Distinct
<1>3. RetryAgrees'
  BY DEF RetryAgrees, Leave, LeavePool, HostTypes, Ids, Distinct
<1>4. HostTypes' /\ DownIsEmpty' /\ BackoffsTold'
  BY DEF HostTypes, DownIsEmpty, BackoffsTold, Leave, LeavePool, CallPump, hostVars
<1> QED BY <1>1, <1>2, <1>3, <1>4, PoolInvPartsNext

\* enqueue() takes a queue of runs the executor does not hold.
LEMMA EnqueueKeeps ==
  ASSUME PoolInv, NEW q \in Seq(Record), Distinct(q), Ids(q) \cap known = {}, Enqueue(q),
         UNCHANGED inFlight
  PROVE  QueueAgrees' /\ known' \subseteq Runs
<1> USE PoolInvParts DEF QueueAgrees
<1>1. /\ pending \o q \in Seq(Record) /\ Distinct(pending \o q)
      /\ Ids(pending \o q) = Ids(pending) \cup Ids(q)
  BY ConcatQueue
<1>2. Ids(q) \subseteq Runs
  BY EntryFacts DEF Ids
<1>3. known' \subseteq Runs
  BY <1>2 DEF Enqueue, HostTypes
<1>4. QueueAgrees'
  BY <1>1 DEF Enqueue
<1> QED BY <1>3, <1>4

LEMMA TakeKeeps ==
  ASSUME PoolInv, NEW r \in Runs, NEW s \in {"queued", "running"}, Take(r, s), mode # "down",
         UNCHANGED <<inFlight, perTask, backingOff, retryReady, reason, phase, mode, holds, workers>>,
         pumping' \in BOOLEAN, scan' \subseteq Runs
  PROVE  PoolInv'
<1> USE PoolInvParts
<1>1. QueueAgrees' /\ known' \subseteq Runs
  <2>1. CASE r \in known
    BY <2>1 DEF Take, QueueAgrees, HostTypes
  <2>2. CASE r \notin known
    <3> DEFINE q == <<RecordOf(r, s)>>
    <3>1. RecordOf(r, s) \in Record /\ RecordOf(r, s).run = r
      BY DEF Record, RecordOf
    <3>2. q \in Seq(Record) /\ Distinct(q) /\ Ids(q) = {r}
      BY <3>1, SingletonQueue
    <3>3. Enqueue(q)
      BY <2>2 DEF Take
    <3> HIDE DEF q
    <3> QED BY <2>2, <3>2, <3>3, EnqueueKeeps
  <2> QED BY <2>1, <2>2
<1>2. FlightAgrees' /\ RetryAgrees'
  BY DEF FlightAgrees, RetryAgrees
<1>3. HostTypes' /\ DownIsEmpty' /\ BackoffsTold'
  BY <1>1 DEF HostTypes, DownIsEmpty, BackoffsTold
<1> QED BY <1>1, <1>2, <1>3, PoolInvPartsNext

\* Starting a run moves it from the queue into the pool.
LEMMA PumpStartKeeps ==
  ASSUME PoolInv, NEW i \in DOMAIN pending, PumpStart(i)
  PROVE  PoolInv'
<1> DEFINE r == pending[i].run
<1> USE PoolInvParts
<1>1. r \in Runs /\ r \in Ids(pending) /\ r \notin inFlight
  BY EntryFacts DEF QueueAgrees
<1>2. /\ pending' = RemoveAt(pending, i)
      /\ inFlight' = inFlight \cup {r}
      /\ perTask' = [perTask EXCEPT ![TaskOf[r]] = @ + 1]
      /\ phase' = [phase EXCEPT ![r] = "performing"]
      /\ UNCHANGED <<known, backingOff, retryReady, reason, pumping, hostVars>>
  BY DEF PumpStart
<1> HIDE DEF r
<1>3. QueueAgrees'
  <2>1. /\ pending' \in Seq(Record) /\ Distinct(pending') /\ Ids(pending') = Ids(pending) \ {r}
    BY <1>2, RemoveQueue DEF QueueAgrees, r
  <2> QED BY <1>1, <1>2, <2>1 DEF QueueAgrees
<1>4. FlightAgrees'
  <2>1. /\ inFlight' = {q \in Runs : phase'[q] # "idle"}
        /\ backingOff' = {q \in Runs : phase'[q] \in {"backoff", "ready"}}
    BY <1>1, <1>2 DEF FlightAgrees, HostTypes
  <2>2. TaskOf[r] \in Tasks
    BY <1>1, ExecutorAssumption
  <2>3. ASSUME NEW t \in Tasks
        PROVE  /\ perTask'[t] = Cardinality({q \in inFlight' : TaskOf[q] = t})
               /\ perTask'[t] \in Nat
    <3>1. /\ Cardinality({q \in inFlight : TaskOf[q] = t}) \in Nat
          /\ Cardinality({q \in inFlight \cup {r} : TaskOf[q] = t})
               = Cardinality({q \in inFlight : TaskOf[q] = t}) + (IF TaskOf[r] = t THEN 1 ELSE 0)
      BY <1>1, CountJoin DEF FlightAgrees
    <3>2. perTask'[t] = perTask[t] + (IF TaskOf[r] = t THEN 1 ELSE 0)
      BY <1>2, <2>2 DEF FlightAgrees
    <3> QED BY <1>2, <3>1, <3>2 DEF FlightAgrees
  <2>4. perTask' \in [Tasks -> Nat]
    BY <1>2, <2>2, <2>3 DEF FlightAgrees
  <2> QED BY <2>1, <2>3, <2>4 DEF FlightAgrees
<1>5. RetryAgrees'
  BY <1>1, <1>2 DEF RetryAgrees, FlightAgrees, HostTypes
<1>6. HostTypes' /\ DownIsEmpty' /\ BackoffsTold'
  BY <1>1, <1>2 DEF HostTypes, DownIsEmpty, BackoffsTold, hostVars
<1> QED BY <1>3, <1>4, <1>5, <1>6, PoolInvPartsNext

LEMMA StartFailsKeeps ==
  ASSUME PoolInv, NEW i \in DOMAIN pending, StartFails(i)
  PROVE  PoolInv'
<1> USE PoolInvParts
<1>1. /\ pending' = RemoveAt(pending, i)
      /\ known' = known \ {pending[i].run}
      /\ UNCHANGED <<inFlight, perTask, backingOff, retryReady, reason, phase, pumping, hostVars>>
  BY DEF StartFails
<1>2. QueueAgrees'
  <2>1. pending[i].run \in Ids(pending)
    BY DEF Ids
  <2>2. /\ pending' \in Seq(Record) /\ Distinct(pending')
        /\ Ids(pending') = Ids(pending) \ {pending[i].run}
    BY <1>1, RemoveQueue DEF QueueAgrees
  <2> QED BY <1>1, <2>1, <2>2 DEF QueueAgrees
<1>3. FlightAgrees' /\ RetryAgrees'
  BY <1>1 DEF FlightAgrees, RetryAgrees
<1>4. HostTypes' /\ DownIsEmpty' /\ BackoffsTold'
  BY <1>1 DEF HostTypes, DownIsEmpty, BackoffsTold, hostVars
<1> QED BY <1>2, <1>3, <1>4, PoolInvPartsNext

\* The head of the retries is a run whose delay is over and that nobody aborted.
LEMMA HeadIsReady ==
  ASSUME PoolInv, NEW r \in Runs, retryReady # <<>>, r = Head(retryReady).run
  PROVE  /\ phase[r] = "ready" /\ reason[r] = "none"
         /\ Tail(retryReady) \in Seq([run : Runs])
         /\ Distinct(Tail(retryReady))
         /\ Ids(Tail(retryReady)) = Ids(retryReady) \ {r}
BY PoolInvParts, TailQueue DEF RetryAgrees

LEMMA PumpRetryKeeps ==
  ASSUME PoolInv, NEW r \in Runs, PumpRetry(r)
  PROVE  PoolInv'
<1> USE PoolInvParts
<1>1. /\ retryReady # <<>> /\ r = Head(retryReady).run
      /\ retryReady' = Tail(retryReady)
      /\ backingOff' = backingOff \ {r}
      /\ phase' = [phase EXCEPT ![r] = "performing"]
      /\ UNCHANGED <<pending, known, inFlight, perTask, reason, pumping, hostVars>>
  BY DEF PumpRetry
<1>2. /\ phase[r] = "ready" /\ reason[r] = "none"
      /\ retryReady' \in Seq([run : Runs]) /\ Distinct(retryReady')
      /\ Ids(retryReady') = Ids(retryReady) \ {r}
  BY <1>1, HeadIsReady
<1>3. QueueAgrees'
  BY <1>1 DEF QueueAgrees
<1>4. FlightAgrees'
  BY <1>1, <1>2 DEF FlightAgrees, HostTypes
<1>5. RetryAgrees'
  BY <1>1, <1>2 DEF RetryAgrees, HostTypes
<1>6. HostTypes' /\ DownIsEmpty' /\ BackoffsTold'
  BY <1>1 DEF HostTypes, DownIsEmpty, BackoffsTold, hostVars
<1> QED BY <1>3, <1>4, <1>5, <1>6, PoolInvPartsNext

LEMMA RetryFailsKeeps ==
  ASSUME PoolInv, NEW r \in Runs, RetryFails(r)
  PROVE  PoolInv'
<1> USE PoolInvParts
<1>1. /\ retryReady # <<>> /\ r = Head(retryReady).run
      /\ retryReady' = Tail(retryReady)
      /\ LeavePool(r)
      /\ known' = known \ {r}
      /\ UNCHANGED <<pending, hostVars>>
  BY DEF RetryFails
<1>2. /\ phase[r] = "ready" /\ reason[r] = "none"
      /\ retryReady' \in Seq([run : Runs]) /\ Distinct(retryReady')
      /\ Ids(retryReady') = Ids(retryReady) \ {r}
  BY <1>1, HeadIsReady
<1>3. FlightAgrees' /\ inFlight' = inFlight \ {r} /\ r \in inFlight
  BY <1>1, <1>2, LeavePoolKeeps
<1>4. QueueAgrees'
  BY <1>1, <1>3 DEF QueueAgrees
<1>5. RetryAgrees'
  BY <1>1, <1>2 DEF RetryAgrees, LeavePool, HostTypes
<1>6. HostTypes' /\ DownIsEmpty' /\ BackoffsTold'
  BY <1>1 DEF HostTypes, DownIsEmpty, BackoffsTold, LeavePool, CallPump, hostVars
<1> QED BY <1>3, <1>4, <1>5, <1>6, PoolInvPartsNext

\* The sweep hands enqueue() runs it does not hold, once each.
LEMMA AdoptKeeps ==
  ASSUME PoolInv, Adopt
  PROVE  PoolInv'
<1> USE PoolInvParts
<1> DEFINE S == OldestQueued \ known
<1>1. PICK q \in InOrder(S) : Enqueue(q)
  BY DEF Adopt
<1>2. S \subseteq Runs /\ IsFiniteSet(S) /\ Cardinality(S) \in Nat
  BY ExecutorAssumption, FS_Subset, FS_CardinalityType DEF OldestQueued
<1>3. S \cap known = {}
  OBVIOUS
<1> HIDE DEF S
<1>4. /\ q \in [1 .. Cardinality(S) -> [run : S, status : {"queued"}]]
      /\ Ids(q) = S
      /\ \A i, j \in DOMAIN q : i < j => q[i].run < q[j].run
  BY <1>1 DEF InOrder
<1>5. q \in Seq(Record)
  <2>1. q \in [1 .. Cardinality(S) -> Record]
    BY <1>2, <1>4 DEF Record
  <2> QED BY <1>2, <2>1
<1>6. Distinct(q)
  <2> SUFFICES ASSUME NEW i \in DOMAIN q, NEW j \in DOMAIN q, q[i].run = q[j].run, i # j
               PROVE  FALSE
    BY DEF Distinct
  <2>1. i \in Nat /\ j \in Nat /\ DOMAIN q = 1 .. Cardinality(S)
    BY <1>2, <1>4
  <2>2. q[i].run \in Nat
    BY <1>5, EntryFacts, ExecutorAssumption
  <2> QED BY <1>4, <2>1, <2>2
<1>7. UNCHANGED <<inFlight, perTask, backingOff, retryReady, reason, phase, hostVars>>
      /\ mode = "up" /\ CallPump
  BY DEF Adopt
<1>8. QueueAgrees' /\ known' \subseteq Runs
  BY <1>1, <1>3, <1>4, <1>5, <1>6, <1>7, EnqueueKeeps
<1>9. FlightAgrees' /\ RetryAgrees'
  BY <1>7 DEF FlightAgrees, RetryAgrees
<1>10. HostTypes' /\ DownIsEmpty' /\ BackoffsTold'
  BY <1>7, <1>8 DEF HostTypes, DownIsEmpty, BackoffsTold, hostVars, CallPump
<1> QED BY <1>8, <1>9, <1>10, PoolInvPartsNext

\* A run stays in the pool: its await, its abort reason or its place among the retries moves.
LEMMA InPoolKeeps ==
  ASSUME PoolInv, NEW r \in Runs,
         Retry(r) \/ BackoffOver(r) \/ CancelInFlight(r) \/ \E o \in {"pending", "matched"} : Suspend(r, o)
  PROVE  PoolInv'
<1> USE PoolInvParts
<1>1. CASE Retry(r)
  <2>1. QueueAgrees'
    BY <1>1 DEF Retry, QueueAgrees
  <2>2. FlightAgrees'
    BY <1>1 DEF Retry, FlightAgrees, HostTypes, Performing
  <2>3. RetryAgrees'
    BY <1>1 DEF Retry, RetryAgrees, HostTypes, Performing
  <2>4. HostTypes' /\ DownIsEmpty' /\ BackoffsTold'
    BY <1>1 DEF Retry, HostTypes, DownIsEmpty, BackoffsTold, hostVars, CallPump
  <2> QED BY <2>1, <2>2, <2>3, <2>4, PoolInvPartsNext
<1>2. CASE BackoffOver(r)
  <2>1. QueueAgrees'
    BY <1>2 DEF BackoffOver, QueueAgrees
  <2>2. FlightAgrees'
    BY <1>2 DEF BackoffOver, FlightAgrees, HostTypes
  <2>3. RetryAgrees'
    <3> DEFINE q == <<[run |-> r]>>
    <3>1. q \in Seq([run : Runs]) /\ Ids(q) = {r} /\ Distinct(q)
      BY SingletonQueue
    <3>2. retryReady' = retryReady \o q
      BY <1>2, AppendIsConcat DEF BackoffOver, RetryAgrees
    <3>3. Ids(retryReady) \cap {r} = {}
      BY <1>2 DEF BackoffOver, RetryAgrees
    <3> HIDE DEF q
    <3>4. /\ retryReady' \in Seq([run : Runs]) /\ Distinct(retryReady')
          /\ Ids(retryReady') = Ids(retryReady) \cup {r}
      BY <3>1, <3>2, <3>3, ConcatQueue DEF RetryAgrees
    <3> QED BY <1>2, <3>4 DEF BackoffOver, RetryAgrees, HostTypes
  <2>4. HostTypes' /\ DownIsEmpty' /\ BackoffsTold'
    BY <1>2 DEF BackoffOver, HostTypes, DownIsEmpty, BackoffsTold, hostVars, CallPump
  <2> QED BY <2>1, <2>2, <2>3, <2>4, PoolInvPartsNext
<1>3. CASE CancelInFlight(r)
  <2>1. QueueAgrees' /\ FlightAgrees'
    BY <1>3 DEF CancelInFlight, QueueAgrees, FlightAgrees
  <2>2. RetryAgrees'
    <3>1. /\ retryReady' \in Seq([run : Runs]) /\ Distinct(retryReady')
          /\ Ids(retryReady') = Ids(retryReady) \ {r}
      BY <1>3, WithoutQueue DEF CancelInFlight, RetryAgrees
    <3> QED BY <1>3, <3>1 DEF CancelInFlight, RetryAgrees, HostTypes
  <2>3. HostTypes' /\ DownIsEmpty' /\ BackoffsTold'
    BY <1>3 DEF CancelInFlight, HostTypes, DownIsEmpty, BackoffsTold, hostVars
  <2> QED BY <2>1, <2>2, <2>3, PoolInvPartsNext
<1>4. ASSUME NEW o \in {"pending", "matched"}, Suspend(r, o)
      PROVE  PoolInv'
  <2>1. QueueAgrees'
    BY <1>4 DEF Suspend, QueueAgrees
  <2>2. FlightAgrees'
    BY <1>4 DEF Suspend, FlightAgrees, HostTypes, Performing
  <2>3. RetryAgrees'
    BY <1>4 DEF Suspend, RetryAgrees, HostTypes, Performing
  <2>4. HostTypes' /\ DownIsEmpty' /\ BackoffsTold'
    BY <1>4 DEF Suspend, HostTypes, DownIsEmpty, BackoffsTold, hostVars
  <2> QED BY <2>1, <2>2, <2>3, <2>4, PoolInvPartsNext
<1> QED BY <1>1, <1>2, <1>3, <1>4

\* A parked run leaves the pool, into the queue again when its wait is already over.
LEMMA ParkKeeps ==
  ASSUME PoolInv, NEW r \in Runs, Park(r)
  PROVE  PoolInv'
<1> USE PoolInvParts
<1>1. /\ phase[r] = "parking" /\ LeavePool(r)
      /\ UNCHANGED <<retryReady, hostVars>>
      /\ \/ mode = "up" /\ pending' = Append(pending, RecordOf(r, "queued")) /\ known' = known
         \/ known' = known \ {r} /\ pending' = pending
  BY DEF Park
<1>2. FlightAgrees' /\ inFlight' = inFlight \ {r} /\ r \in inFlight
  BY <1>1, LeavePoolKeeps
<1>3. QueueAgrees'
  <2>1. CASE known' = known \ {r} /\ pending' = pending
    BY <1>2, <2>1 DEF QueueAgrees
  <2>2. CASE pending' = Append(pending, RecordOf(r, "queued")) /\ known' = known
    <3> DEFINE q == <<RecordOf(r, "queued")>>
    <3>1. RecordOf(r, "queued") \in Record /\ RecordOf(r, "queued").run = r
      BY DEF Record, RecordOf
    <3>2. q \in Seq(Record) /\ Distinct(q) /\ Ids(q) = {r}
      BY <3>1, SingletonQueue
    <3>3. pending' = pending \o q
      BY <2>2, <3>1, AppendIsConcat DEF QueueAgrees
    <3> HIDE DEF q
    <3>4. /\ pending' \in Seq(Record) /\ Distinct(pending')
          /\ Ids(pending') = Ids(pending) \cup {r}
      BY <1>2, <3>2, <3>3, ConcatQueue DEF QueueAgrees
    <3> QED BY <1>2, <2>2, <3>4 DEF QueueAgrees
  <2> QED BY <1>1, <2>1, <2>2
<1>4. RetryAgrees'
  BY <1>1 DEF RetryAgrees, LeavePool, HostTypes
<1>5. HostTypes' /\ DownIsEmpty' /\ BackoffsTold'
  BY <1>1 DEF HostTypes, DownIsEmpty, BackoffsTold, LeavePool, CallPump, hostVars
<1> QED BY <1>2, <1>3, <1>4, <1>5, PoolInvPartsNext

LEMMA CancelIdleKeeps ==
  ASSUME PoolInv, NEW r \in Runs, CancelIdle(r)
  PROVE  PoolInv'
<1> USE PoolInvParts
<1>1. /\ r \notin inFlight
      /\ pending' = Without(pending, r) /\ known' = known \ {r}
      /\ UNCHANGED <<inFlight, perTask, backingOff, retryReady, reason, phase, pumping, hostVars>>
  BY DEF CancelIdle
<1>2. QueueAgrees'
  BY <1>1, WithoutQueue DEF QueueAgrees
<1>3. FlightAgrees' /\ RetryAgrees'
  BY <1>1 DEF FlightAgrees, RetryAgrees
<1>4. HostTypes' /\ DownIsEmpty' /\ BackoffsTold'
  BY <1>1 DEF HostTypes, DownIsEmpty, BackoffsTold, hostVars
<1> QED BY <1>2, <1>3, <1>4, PoolInvPartsNext

\* The abort reasons after AbortAll().
LEMMA AbortAllFacts ==
  ASSUME PoolInv, NEW S, AbortAll(S)
  PROVE  /\ reason' \in [Runs -> {"none", "stopped", "cancelled"}]
         /\ \A r \in Runs : reason'[r] = "none" <=> reason[r] = "none" /\ r \notin S
BY PoolInvParts DEF AbortAll, HostTypes

LEMMA StopKeeps ==
  ASSUME PoolInv, Stop \/ GraceOver \/ Stopped
  PROVE  PoolInv'
<1> USE PoolInvParts
<1>e. <<>> \in Seq(Record) /\ <<>> \in Seq([run : Runs]) /\ Ids(<<>>) = {} /\ Distinct(<<>>)
  BY DEF Ids, Distinct
<1>1. CASE Stop
  <2>1. QueueAgrees'
    BY <1>1, <1>e DEF Stop, QueueAgrees
  <2>2. FlightAgrees'
    BY <1>1 DEF Stop, FlightAgrees
  <2>3. /\ reason' \in [Runs -> {"none", "stopped", "cancelled"}]
        /\ \A r \in Runs : reason'[r] = "none" <=> reason[r] = "none" /\ r \notin backingOff
    BY <1>1, AbortAllFacts DEF Stop
  <2>4. RetryAgrees' /\ BackoffsTold'
    BY <1>1, <1>e, <2>3 DEF Stop, RetryAgrees, FlightAgrees, BackoffsTold
  <2>5. HostTypes' /\ DownIsEmpty'
    BY <1>1, <2>3 DEF Stop, HostTypes, DownIsEmpty, Stopping
  <2> QED BY <2>1, <2>2, <2>4, <2>5, PoolInvPartsNext
<1>2. CASE GraceOver
  <2>1. QueueAgrees' /\ FlightAgrees'
    BY <1>2 DEF GraceOver, QueueAgrees, FlightAgrees
  <2>2. /\ reason' \in [Runs -> {"none", "stopped", "cancelled"}]
        /\ \A r \in Runs : reason'[r] = "none" <=> reason[r] = "none" /\ r \notin inFlight
    BY <1>2, AbortAllFacts DEF GraceOver
  <2>3. RetryAgrees' /\ BackoffsTold'
    BY <1>2, <2>2 DEF GraceOver, RetryAgrees, BackoffsTold, Stopping
  <2>4. HostTypes' /\ DownIsEmpty'
    BY <1>2, <2>2 DEF GraceOver, HostTypes, DownIsEmpty, Stopping
  <2> QED BY <2>1, <2>3, <2>4, PoolInvPartsNext
<1>3. CASE Stopped
  <2>1. QueueAgrees' /\ FlightAgrees' /\ RetryAgrees'
    BY <1>3 DEF Stopped, poolVars, QueueAgrees, FlightAgrees, RetryAgrees
  <2>2. HostTypes' /\ BackoffsTold'
    BY <1>3 DEF Stopped, poolVars, HostTypes, BackoffsTold, Stopping
  <2>3. DownIsEmpty'
    BY <1>3, <1>e DEF Stopped, poolVars, DownIsEmpty, QueueAgrees
  <2> QED BY <2>1, <2>2, <2>3, PoolInvPartsNext
<1> QED BY <1>1, <1>2, <1>3

\* A pool with nothing in it, as Init and a crash leave it.
LEMMA EmptyPool ==
  ASSUME pending' = <<>>, known' = {}, inFlight' = {}, backingOff' = {}, retryReady' = <<>>,
         perTask' = [t \in Tasks |-> 0],
         reason' = [r \in Runs |-> "none"], phase' = [r \in Runs |-> "idle"], pumping' = FALSE,
         mode' = "down", scan' = {}, holds' = 0, workers' \in WorkerCounts
  PROVE  PoolInv'
<1>e. <<>> \in Seq(Record) /\ <<>> \in Seq([run : Runs]) /\ Ids(<<>>) = {} /\ Distinct(<<>>)
  BY DEF Ids, Distinct
<1>1. QueueAgrees' /\ RetryAgrees'
  BY <1>e DEF QueueAgrees, RetryAgrees
<1>2. FlightAgrees'
  <2>1. ASSUME NEW t \in Tasks
        PROVE  Cardinality({r \in inFlight' : TaskOf[r] = t}) = 0
    <3>1. {r \in inFlight' : TaskOf[r] = t} = {}
      OBVIOUS
    <3> QED BY <3>1, FS_EmptySet
  <2> QED BY <2>1 DEF FlightAgrees
<1>3. HostTypes' /\ DownIsEmpty' /\ BackoffsTold'
  BY DEF HostTypes, DownIsEmpty, BackoffsTold, Stopping
<1> QED BY <1>1, <1>2, <1>3, PoolInvPartsNext

\* Boot, the scan, a reload and the end of a pump touch the pool's host only.
LEMMA HostKeeps ==
  ASSUME PoolInv,
         UNCHANGED <<pending, known, inFlight, perTask, backingOff, retryReady, reason, phase>>,
         pumping' \in BOOLEAN, scan' \subseteq Runs, holds' \in {0, 1}, workers' \in WorkerCounts,
         \/ mode' = mode
         \/ mode' \in {"booting", "up"}
  PROVE  PoolInv'
<1> USE PoolInvParts
<1>1. QueueAgrees' /\ FlightAgrees' /\ RetryAgrees'
  BY DEF QueueAgrees, FlightAgrees, RetryAgrees
<1>2. HostTypes' /\ DownIsEmpty' /\ BackoffsTold'
  BY DEF HostTypes, DownIsEmpty, BackoffsTold, Stopping
<1> QED BY <1>1, <1>2, PoolInvPartsNext

\* A hand-off is taken, or does not arrive.
LEMMA HandOffKeeps ==
  ASSUME PoolInv, NEW r \in Runs, HandOff(r), mode = "up",
         UNCHANGED <<inFlight, perTask, backingOff, retryReady, reason, phase, hostVars>>
  PROVE  PoolInv'
<1>h. HostTypes
  BY PoolInvParts
<1>1. CASE Take(r, "queued") /\ CallPump
  BY <1>h, <1>1, TakeKeeps DEF CallPump, hostVars, HostTypes
<1>2. CASE UNCHANGED <<pending, known, pumping>>
  BY <1>h, <1>2, HostKeeps DEF hostVars, HostTypes
<1> QED BY <1>1, <1>2 DEF HandOff

LEMMA PoolInit == Init => PoolInv
<1> SUFFICES ASSUME Init PROVE PoolInv
  OBVIOUS
<1>e. <<>> \in Seq(Record) /\ <<>> \in Seq([run : Runs]) /\ Ids(<<>>) = {} /\ Distinct(<<>>)
  BY DEF Ids, Distinct
<1>1. QueueAgrees /\ RetryAgrees
  BY <1>e DEF Init, QueueAgrees, RetryAgrees
<1>2. FlightAgrees
  <2>1. ASSUME NEW t \in Tasks
        PROVE  Cardinality({r \in inFlight : TaskOf[r] = t}) = 0
    <3>1. {r \in inFlight : TaskOf[r] = t} = {}
      BY DEF Init
    <3> QED BY <3>1, FS_EmptySet
  <2> QED BY <2>1 DEF Init, FlightAgrees
<1>3. HostTypes /\ DownIsEmpty /\ BackoffsTold
  BY DEF Init, HostTypes, DownIsEmpty, BackoffsTold, Stopping
<1> QED BY <1>1, <1>2, <1>3, PoolInvParts

LEMMA PoolStep == PoolInv /\ [Next]_vars => PoolInv'
<1> SUFFICES ASSUME PoolInv, [Next]_vars PROVE PoolInv'
  OBVIOUS
<1>h. HostTypes /\ FlightAgrees
  BY PoolInvParts
<1>1. CASE Pump
  <2>1. CASE PumpDone
    BY <1>h, <2>1, HostKeeps DEF PumpDone, HostTypes, hostVars
  <2> QED BY <1>1, <2>1, PumpStartKeeps, PumpRetryKeeps DEF Pump
<1>2. CASE Adopt
  BY <1>2, AdoptKeeps
<1>3. CASE Boot
  BY <1>h, <1>3, HostKeeps DEF Boot, poolVars, HostTypes
<1>4. CASE Recover
  <2>1. ASSUME NEW r \in Runs, RecoverRunning(r)
        PROVE  PoolInv'
    BY <1>h, <2>1, TakeKeeps DEF RecoverRunning, Scanning, UntouchedByBoot, HostTypes
  <2>2. ASSUME NEW r \in Runs, RecoverQueued(r)
        PROVE  PoolInv'
    BY <1>h, <2>2, TakeKeeps DEF RecoverQueued, Scanning, UntouchedByBoot, HostTypes
  <2>3. ASSUME NEW r \in Runs, FailInterrupted(r) \/ FailInterruptedFails(r) \/ RecoverWaiting(r)
        PROVE  PoolInv'
    BY <1>h, <2>3, HostKeeps
       DEF FailInterrupted, FailInterruptedFails, RecoverWaiting, Scanning, UntouchedByBoot, HostTypes
  <2>4. CASE Booted
    BY <1>h, <2>4, HostKeeps DEF Booted, HostTypes
  <2> QED BY <1>4, <2>1, <2>2, <2>3, <2>4 DEF Recover
<1>5. CASE Stop \/ GraceOver \/ Stopped
  BY <1>5, StopKeeps
<1>6. CASE Crash
  BY <1>h, <1>6, EmptyPool DEF Crash, HostTypes
<1>7. CASE BeginReload
  BY <1>h, <1>7, HostKeeps DEF BeginReload, poolVars, HostTypes
<1>8. ASSUME NEW w \in WorkerCounts, EndReload(w)
      PROVE  PoolInv'
  BY <1>h, <1>8, HostKeeps DEF EndReload, HostTypes
<1>9. ASSUME NEW r \in Runs, Settle(r)
      PROVE  PoolInv'
  <2>1. ASSUME NEW outcome, Finish(r, outcome)
        PROVE  PoolInv'
    BY <2>1, LeaveKeeps DEF Finish, Performing
  <2>2. CASE FailWhileStopping(r) \/ AbortCancelled(r) \/ AbortStopped(r)
    BY <2>2, LeaveKeeps DEF FailWhileStopping, AbortCancelled, AbortStopped, Performing
  <2> QED BY <1>9, <2>1, <2>2, InPoolKeeps DEF Settle
<1>10. ASSUME NEW r \in Runs, Unwind(r)
       PROVE  PoolInv'
  <2>1. CASE ParkCancelled(r)
    BY <2>1, LeaveKeeps DEF ParkCancelled
  <2>2. CASE BackoffCancelled(r) \/ BackoffStopped(r)
    BY <2>2, LeaveKeeps DEF BackoffCancelled, BackoffStopped
  <2> QED BY <1>10, <2>1, <2>2, ParkKeeps, InPoolKeeps DEF Unwind
<1>11. ASSUME NEW r \in Runs, Dispatcher(r)
       PROVE  PoolInv'
  <2>1. CASE Queue(r)
    BY <1>h, <2>1, HandOffKeeps DEF Queue
  <2>2. ASSUME NEW outcome, EndWait(r, outcome)
        PROVE  PoolInv'
    BY <1>h, <2>2, HandOffKeeps DEF EndWait
  <2> QED BY <1>11, <2>1, <2>2 DEF Dispatcher
<1>12. ASSUME NEW r \in Runs, Cancel(r)
       PROVE  PoolInv'
  BY <1>12, CancelIdleKeeps, InPoolKeeps DEF Cancel
<1>13. CASE StoreFault
  <2>1. ASSUME NEW r \in Runs, SettleFails(r)
        PROVE  PoolInv'
    BY <1>h, <2>1, LeaveKeeps DEF SettleFails, FlightAgrees
  <2> QED BY <1>13, <2>1, StartFailsKeeps, RetryFailsKeeps DEF StoreFault
<1>14. CASE UNCHANGED vars
  BY <1>h, <1>14, HostKeeps DEF vars, poolVars, hostVars, HostTypes
<1> QED BY <1>1, <1>2, <1>3, <1>4, <1>5, <1>6, <1>7, <1>8, <1>9, <1>10, <1>11, <1>12, <1>13, <1>14
        DEF Next

\* The books of the pool agree in every state: nothing is held twice, forgotten or
\* miscounted, whatever crashes, stops, store failures and reloads do (executor.ts pump,
\* execute and its finally block).
THEOREM PoolIsSound == Spec => []PoolAgrees
<1>1. PoolInv => PoolAgrees
  BY DEF PoolInv
<1> QED BY <1>1, PoolInit, PoolStep, PTL DEF Spec

-----------------------------------------------------------------------------
(***************************************************************************)
(* 3. The rows.                                                            *)
(***************************************************************************)

RowTable ==
  /\ rows = [r \in Runs |-> rows[r]]
  /\ \A r \in Runs : rows[r] \in [1 .. AttemptsOf(r) -> RowStatus]

RowTypes ==
  /\ status \in [Runs -> Active \cup Terminal \cup {"none"}]
  /\ attempt \in [Runs -> Nat]
  /\ wait \in [Runs -> {"none", "pending"} \cup Resolved]
  /\ RowTable
  /\ published \in [Runs -> Seq(Terminal)]

\* What the row of a run, its wait, its lifecycle events and the await its execute()
\* stands at say of each other.
RunAgrees(r) ==
  /\ status[r] = "waiting" <=> wait[r] = "pending"
  /\ published[r] = IF status[r] \in Terminal THEN <<status[r]>> ELSE <<>>
  /\ phase[r] \in {"performing", "backoff", "ready"} => status[r] = "running"
  /\ phase[r] = "parking" => status[r] \in {"waiting", "queued"}
  /\ attempt[r] <= AttemptsOf(r)
  /\ phase[r] # "idle" => attempt[r] >= 1
  /\ phase[r] \in {"backoff", "ready"} => attempt[r] < AttemptsOf(r)
  /\ status[r] = "none" => attempt[r] = 0 /\ wait[r] = "none"
  /\ status[r] = "queued" => \/ wait[r] = "none" /\ attempt[r] = 0
                             \/ wait[r] \in Resolved /\ attempt[r] >= 1
  /\ status[r] = "waiting" => attempt[r] >= 1

\* A queued record is still true, and a recovered run has an attempt left to make.
RecordAgrees(rec) ==
  /\ rec.status = status[rec.run]
  /\ rec.status = "running" => attempt[rec.run] < AttemptsOf(rec.run)

PendingAgrees == \A i \in DOMAIN pending : RecordAgrees(pending[i])

\* start() does not hold a run it has yet to look at.
ScanIsFresh == mode = "booting" => known \cap scan = {}

RowsInv ==
  /\ RowTypes
  /\ \A r \in Runs : RunAgrees(r)
  /\ PendingAgrees
  /\ ScanIsFresh

\* A step that changes the row of one run only, and queues no record but one that is true.
LEMMA RunStep ==
  ASSUME PoolInv, PoolInv', RowsInv, NEW r \in Runs, RowTypes', RunAgrees(r)', ScanIsFresh',
         \A q \in Runs \ {r} :
            /\ status'[q] = status[q] /\ attempt'[q] = attempt[q] /\ wait'[q] = wait[q]
            /\ published'[q] = published[q] /\ phase'[q] = phase[q],
         \A i \in DOMAIN pending' :
            \/ \E j \in DOMAIN pending : pending'[i] = pending[j] /\ pending[j].run # r
            \/ /\ pending'[i].run = r /\ pending'[i].status = status'[r]
               /\ status'[r] = "running" => attempt'[r] < AttemptsOf(r)
  PROVE  RowsInv'
<1>1. ASSUME NEW q \in Runs PROVE RunAgrees(q)'
  <2>1. CASE q = r
    BY <2>1
  <2>2. CASE q # r
    BY <2>2 DEF RowsInv, RunAgrees
  <2> QED BY <2>1, <2>2
<1>2. ASSUME NEW i \in DOMAIN pending' PROVE RecordAgrees(pending[i])'
  <2>1. CASE /\ pending'[i].run = r /\ pending'[i].status = status'[r]
             /\ status'[r] = "running" => attempt'[r] < AttemptsOf(r)
    BY <2>1 DEF RecordAgrees
  <2>2. ASSUME NEW j \in DOMAIN pending, pending'[i] = pending[j], pending[j].run # r
        PROVE  RecordAgrees(pending[i])'
    <3>1. pending[j].run \in Runs
      BY EntryFacts, PoolInvParts DEF QueueAgrees
    <3> QED BY <2>2, <3>1 DEF RowsInv, PendingAgrees, RecordAgrees
  <2> QED BY <2>1, <2>2
<1> QED BY <1>1, <1>2 DEF RowsInv, PendingAgrees

\* The table of attempts keeps its type however it is written.
LEMMA RowTableKept ==
  ASSUME RowTypes, NEW r \in Runs, NEW s \in RowStatus, NEW n,
         \/ rows' = rows
         \/ rows' = [rows EXCEPT ![r] = CloseOpen(@, s)]
         \/ rows' = [rows EXCEPT ![r][n] = s]
  PROVE  RowTable'
<1>1. CloseOpen(rows[r], s) \in [1 .. AttemptsOf(r) -> RowStatus]
  BY DEF RowTypes, RowTable, CloseOpen
<1>2. [rows[r] EXCEPT ![n] = s] \in [1 .. AttemptsOf(r) -> RowStatus]
  BY DEF RowTypes, RowTable
<1> QED BY <1>1, <1>2 DEF RowTypes, RowTable

\* The row of a run that is in flight, and that no record of the queue is about it.
LEMMA InFlightFacts ==
  ASSUME PoolInv, NEW r \in Runs, phase[r] # "idle" \/ r \in inFlight
  PROVE  /\ r \in inFlight /\ r \in known /\ r \notin Ids(pending)
         /\ \A j \in DOMAIN pending : pending[j].run # r
BY PoolInvParts DEF FlightAgrees, QueueAgrees, Ids

\* An active run ends: by then nothing executes it and the queue has forgotten it.
LEMMA EndRunKeeps ==
  ASSUME PoolInv, PoolInv', RowsInv, NEW r \in Runs, NEW o \in Terminal, EndRun(r, o),
         status[r] \in Active,
         phase' = [phase EXCEPT ![r] = "idle"],
         FromOther(pending', pending, r),
         ScanIsFresh'
  PROVE  RowsInv'
<1> USE PoolInvParts DEF HostTypes
<1>t. o \in RowStatus
  BY DEF RowStatus
<1>1. /\ status' = [status EXCEPT ![r] = o]
      /\ wait' = [wait EXCEPT ![r] = "none"]
      /\ rows' = [rows EXCEPT ![r] = CloseOpen(@, o)]
      /\ published' = [published EXCEPT ![r] = Append(@, o)]
      /\ attempt' = attempt
  BY DEF EndRun
<1>2. published[r] = <<>>
  BY DEF RowsInv, RunAgrees, Active, Terminal
<1>3. published'[r] = <<o>> /\ published' \in [Runs -> Seq(Terminal)]
  BY <1>1, <1>2 DEF RowsInv, RowTypes, RowTable
<1>4. RowTypes'
  BY <1>t, <1>1, <1>3, RowTableKept DEF RowsInv, RowTypes
<1>5. RunAgrees(r)'
  BY <1>1, <1>3 DEF RowsInv, RowTypes, RowTable, RunAgrees, Active, Terminal
<1>6. \A q \in Runs \ {r} :
            /\ status'[q] = status[q] /\ attempt'[q] = attempt[q] /\ wait'[q] = wait[q]
            /\ published'[q] = published[q] /\ phase'[q] = phase[q]
  BY <1>1 DEF RowsInv, RowTypes, RowTable
<1> QED BY <1>4, <1>5, <1>6, RunStep DEF FromOther

\* Nothing but the pool or the host moves, and the queue only loses entries.
LEMMA RowsUnchanged ==
  ASSUME PoolInv, PoolInv', RowsInv,
         UNCHANGED <<status, attempt, wait, rows, published>>,
         \A r \in Runs :
            \/ phase'[r] = phase[r]
            \/ phase'[r] = "idle"
            \/ phase[r] = "backoff" /\ phase'[r] = "ready",
         \A i \in DOMAIN pending' : \E j \in DOMAIN pending : pending'[i] = pending[j],
         ScanIsFresh'
  PROVE  RowsInv'
<1>1. ASSUME NEW r \in Runs PROVE RunAgrees(r)'
  BY DEF RowsInv, RunAgrees
<1>2. ASSUME NEW i \in DOMAIN pending' PROVE RecordAgrees(pending[i])'
  BY DEF RowsInv, PendingAgrees, RecordAgrees
<1> QED BY <1>1, <1>2 DEF RowsInv, PendingAgrees, RowTypes, RowTable

\* execute() begins or goes on with an attempt of a run that may make it.
LEMMA BeginKeeps ==
  ASSUME PoolInv, PoolInv', RowsInv, NEW r \in Runs, NEW n \in Nat, BeginAttempt(r, n),
         status[r] \in {"queued", "running"}, 1 <= n, n <= AttemptsOf(r),
         phase' = [phase EXCEPT ![r] = "performing"],
         FromOther(pending', pending, r),
         ScanIsFresh'
  PROVE  RowsInv'
<1> USE PoolInvParts DEF HostTypes
<1>t. "running" \in RowStatus
  BY DEF RowStatus, OpenRow
<1>1. /\ status' = [status EXCEPT ![r] = "running"]
      /\ attempt' = [attempt EXCEPT ![r] = n]
      /\ rows' = [rows EXCEPT ![r][n] = "running"]
      /\ UNCHANGED <<wait, published>>
  BY DEF BeginAttempt
<1>2. RowTypes'
  BY <1>t, <1>1, RowTableKept DEF RowsInv, RowTypes, Active
<1>3. RunAgrees(r)'
  BY <1>1 DEF RowsInv, RowTypes, RowTable, RunAgrees, Active, Terminal
<1>4. \A q \in Runs \ {r} :
            /\ status'[q] = status[q] /\ attempt'[q] = attempt[q] /\ wait'[q] = wait[q]
            /\ published'[q] = published[q] /\ phase'[q] = phase[q]
  BY <1>1 DEF RowsInv, RowTypes, RowTable
<1> QED BY <1>2, <1>3, <1>4, RunStep DEF FromOther

\* The attempt a queued record stands for is one the policy allows.
LEMMA AttemptForFacts ==
  ASSUME PoolInv, RowsInv, NEW i \in DOMAIN pending
  PROVE  LET rec == pending[i] IN
         /\ rec.run \in Runs /\ status[rec.run] = rec.status
         /\ rec.status \in {"queued", "running"}
         /\ AttemptFor(rec) \in Nat /\ 1 <= AttemptFor(rec) /\ AttemptFor(rec) <= AttemptsOf(rec.run)
<1> DEFINE rec == pending[i]
<1>1. rec.run \in Runs /\ rec.status \in {"queued", "running"}
  BY EntryFacts, PoolInvParts DEF QueueAgrees
<1>2. RecordAgrees(rec)
  BY DEF RowsInv, PendingAgrees
<1> HIDE DEF rec
<1>3. /\ RunAgrees(rec.run) /\ attempt[rec.run] \in Nat
      /\ AttemptsOf(rec.run) \in Nat \ {0}
  BY <1>1, ExecutorAssumption DEF RowsInv, RowTypes, RowTable, AttemptsOf
<1>4. /\ AttemptFor(rec) \in Nat /\ 1 <= AttemptFor(rec) /\ AttemptFor(rec) <= AttemptsOf(rec.run)
  BY <1>1, <1>2, <1>3 DEF AttemptFor, Resuming, RecordAgrees, RunAgrees, Resolved
<1> QED BY <1>1, <1>2, <1>4 DEF RecordAgrees, rec

LEMMA PumpKeepsRows ==
  ASSUME PoolInv, PoolInv', RowsInv, Pump
  PROVE  RowsInv'
<1> USE PoolInvParts
<1>1. CASE PumpDone
  BY <1>1, RowsUnchanged DEF PumpDone, storeVars, hostVars, RowsInv, ScanIsFresh
<1>2. ASSUME NEW i \in DOMAIN pending, PumpStart(i)
      PROVE  RowsInv'
  <2> DEFINE rec == pending[i]
  <2>1. /\ pending' = RemoveAt(pending, i)
        /\ phase' = [phase EXCEPT ![rec.run] = "performing"]
        /\ BeginAttempt(rec.run, AttemptFor(rec))
        /\ UNCHANGED <<known, hostVars>>
    BY <1>2 DEF PumpStart
  <2>2. FromOther(pending', pending, rec.run)
    BY <2>1, RemoveQueue DEF QueueAgrees
  <2>3. ScanIsFresh'
    BY <2>1 DEF RowsInv, ScanIsFresh, hostVars
  <2>4. /\ rec.run \in Runs /\ status[rec.run] \in {"queued", "running"}
        /\ AttemptFor(rec) \in Nat /\ 1 <= AttemptFor(rec) /\ AttemptFor(rec) <= AttemptsOf(rec.run)
    BY AttemptForFacts
  <2> HIDE DEF rec
  <2> QED BY <2>1, <2>2, <2>3, <2>4, BeginKeeps
<1>3. ASSUME NEW r \in Runs, PumpRetry(r)
      PROVE  RowsInv'
  <2>1. phase[r] = "ready"
    BY <1>3, HeadIsReady DEF PumpRetry
  <2>2. /\ status[r] = "running" /\ attempt[r] \in Nat /\ 1 <= attempt[r] + 1
        /\ attempt[r] + 1 \in Nat /\ attempt[r] + 1 <= AttemptsOf(r)
    BY <2>1, ExecutorAssumption DEF RowsInv, RowTypes, RowTable, RunAgrees, AttemptsOf
  <2>3. FromOther(pending', pending, r) /\ ScanIsFresh'
    BY <1>3, <2>1, InFlightFacts DEF PumpRetry, FromOther, RowsInv, ScanIsFresh, hostVars
  <2> QED BY <1>3, <2>2, <2>3, BeginKeeps DEF PumpRetry
<1> QED BY <1>1, <1>2, <1>3 DEF Pump

\* What enqueue() of one run leaves in the queue.
LEMMA TakeEntries ==
  ASSUME PoolInv, NEW r \in Runs, NEW s \in {"queued", "running"}, Take(r, s), r \notin known
  PROVE  /\ known' = known \cup {r}
         /\ \A i \in DOMAIN pending' :
              \/ \E j \in DOMAIN pending : pending'[i] = pending[j] /\ pending[j].run # r
              \/ pending'[i].run = r /\ pending'[i].status = s
<1> USE PoolInvParts DEF QueueAgrees
<1> DEFINE rec == RecordOf(r, s)
<1>1. rec \in Record /\ rec.run = r /\ rec.status = s
  BY DEF Record, RecordOf
<1>2. Enqueue(<<rec>>)
  BY DEF Take
<1> HIDE DEF rec
<1>3. <<rec>> \in Seq(Record) /\ DOMAIN <<rec>> = {1} /\ Ids(<<rec>>) = {r} /\ Distinct(<<rec>>)
  BY <1>1, SingletonQueue
<1>4. pending' = pending \o <<rec>> /\ known' = known \cup {r}
  BY <1>2, <1>3 DEF Enqueue
<1>5. \A i \in DOMAIN pending' :
        \/ \E j \in DOMAIN pending : pending'[i] = pending[j]
        \/ \E j \in DOMAIN <<rec>> : pending'[i] = <<rec>>[j]
  BY <1>3, <1>4, ConcatQueue
<1>6. \A j \in DOMAIN pending : pending[j].run # r
  BY DEF Ids
<1> QED BY <1>1, <1>3, <1>4, <1>5, <1>6

\* A run in the queue is queued, or running and recovered.
LEMMA QueuedIsActive ==
  ASSUME PoolInv, RowsInv, NEW r \in Ids(pending)
  PROVE  r \in Runs /\ status[r] \in {"queued", "running"}
<1>1. PICK i \in DOMAIN pending : r = pending[i].run
  BY DEF Ids
<1>2. pending[i].run \in Runs /\ pending[i].status \in {"queued", "running"}
  BY EntryFacts, PoolInvParts DEF QueueAgrees
<1> QED BY <1>1, <1>2 DEF RowsInv, PendingAgrees, RecordAgrees

LEMMA DispatcherKeepsRows ==
  ASSUME PoolInv, PoolInv', RowsInv, NEW r \in Runs, Dispatcher(r)
  PROVE  RowsInv'
<1> USE PoolInvParts DEF HostTypes
<1>1. CASE Queue(r)
  <2>1. /\ status[r] = "none" /\ status' = [status EXCEPT ![r] = "queued"]
        /\ Take(r, "queued") \/ UNCHANGED <<pending, known>>
        /\ mode' = "up" /\ UNCHANGED <<attempt, wait, rows, published, phase>>
    BY <1>1 DEF Queue, HandOff, hostVars
  <2>2. r \notin known
    <3>1. r \notin Ids(pending)
      BY <2>1, QueuedIsActive
    <3>2. phase[r] = "idle"
      BY <2>1 DEF RowsInv, RunAgrees
    <3> QED BY <3>1, <3>2 DEF QueueAgrees, FlightAgrees
  <2>3. RowTypes' /\ ScanIsFresh'
    BY <2>1 DEF RowsInv, RowTypes, RowTable, ScanIsFresh, Active
  <2>4. RunAgrees(r)'
    BY <2>1 DEF RowsInv, RowTypes, RowTable, RunAgrees, Terminal
  <2>5. \A q \in Runs \ {r} :
            /\ status'[q] = status[q] /\ attempt'[q] = attempt[q] /\ wait'[q] = wait[q]
            /\ published'[q] = published[q] /\ phase'[q] = phase[q]
    BY <2>1 DEF RowsInv, RowTypes, RowTable
  <2>6. status'[r] = "queued"
    BY <2>1 DEF RowsInv, RowTypes, RowTable
  <2>7. CASE Take(r, "queued")
    BY <2>1, <2>2, <2>3, <2>4, <2>5, <2>6, <2>7, TakeEntries, RunStep
  <2>8. CASE UNCHANGED <<pending, known>>
    <3>1. \A i \in DOMAIN pending : pending[i].run # r
      BY <2>2 DEF QueueAgrees, Ids
    <3> QED BY <2>3, <2>4, <2>5, <2>8, <3>1, RunStep
  <2> QED BY <2>1, <2>7, <2>8
<1>2. ASSUME NEW o \in Resolved, EndWait(r, o)
      PROVE  RowsInv'
  <2>1. /\ wait[r] = "pending" /\ wait' = [wait EXCEPT ![r] = o]
        /\ status' = [status EXCEPT ![r] = "queued"]
        /\ Take(r, "queued") \/ UNCHANGED <<pending, known>>
        /\ mode' = "up" /\ UNCHANGED <<attempt, rows, published, phase>>
    BY <1>2 DEF EndWait, HandOff, hostVars
  <2>2. status[r] = "waiting" /\ r \notin Ids(pending)
    <3>1. status[r] = "waiting"
      BY <2>1 DEF RowsInv, RunAgrees
    <3> QED BY <3>1, QueuedIsActive
  <2>3. RowTypes' /\ ScanIsFresh'
    BY <2>1 DEF RowsInv, RowTypes, RowTable, ScanIsFresh, Active
  <2>4. RunAgrees(r)'
    BY <2>1, <2>2 DEF RowsInv, RowTypes, RowTable, RunAgrees, Terminal, Resolved
  <2>5. \A q \in Runs \ {r} :
            /\ status'[q] = status[q] /\ attempt'[q] = attempt[q] /\ wait'[q] = wait[q]
            /\ published'[q] = published[q] /\ phase'[q] = phase[q]
    BY <2>1 DEF RowsInv, RowTypes, RowTable
  <2>6. status'[r] = "queued"
    BY <2>1 DEF RowsInv, RowTypes, RowTable
  <2>7. \A i \in DOMAIN pending' :
            \/ \E j \in DOMAIN pending : pending'[i] = pending[j] /\ pending[j].run # r
            \/ pending'[i].run = r /\ pending'[i].status = "queued"
    <3>1. CASE pending' = pending
      BY <2>2, <3>1 DEF Ids
    <3>2. CASE Take(r, "queued") /\ r \notin known
      BY <2>1, <3>2, TakeEntries
    <3> QED BY <2>1, <3>1, <3>2 DEF Take
  <2> QED BY <2>3, <2>4, <2>5, <2>6, <2>7, RunStep
<1> QED BY <1>1, <1>2 DEF Dispatcher

LEMMA AdoptKeepsRows ==
  ASSUME PoolInv, PoolInv', RowsInv, Adopt
  PROVE  RowsInv'
<1> USE PoolInvParts
<1> DEFINE S == OldestQueued \ known
<1>1. PICK q \in InOrder(S) : Enqueue(q)
  BY DEF Adopt
<1>2. UNCHANGED <<status, attempt, wait, rows, published, phase, mode>> /\ mode = "up"
  BY DEF Adopt, storeVars, hostVars
<1>3. \A r \in S : r \in Runs /\ status[r] = "queued"
  BY DEF OldestQueued
<1>4. S \subseteq Runs /\ Cardinality(S) \in Nat
  BY ExecutorAssumption, FS_Subset, FS_CardinalityType DEF OldestQueued
<1> HIDE DEF S
<1>5. /\ q \in [1 .. Cardinality(S) -> [run : S, status : {"queued"}]]
  BY <1>1 DEF InOrder
<1>6. q \in Seq([run : S, status : {"queued"}]) /\ pending \in Seq(Record)
  <2> DEFINE T == [run : S, status : {"queued"}]
  <2> HIDE DEF T
  <2>1. q \in [1 .. Cardinality(S) -> T]
    BY <1>5 DEF T
  <2>2. q \in Seq(T)
    BY <1>4, <2>1
  <2> QED BY <2>2 DEF QueueAgrees, T
<1>7. ASSUME NEW i \in DOMAIN pending' PROVE RecordAgrees(pending[i])'
  <2>1. \/ i \in DOMAIN pending /\ pending'[i] = pending[i]
        \/ i - Len(pending) \in DOMAIN q /\ pending'[i] = q[i - Len(pending)]
    <3>1. pending' = pending \o q
      BY <1>1 DEF Enqueue
    <3> QED BY <1>6, <3>1
  <2>2. CASE i \in DOMAIN pending /\ pending'[i] = pending[i]
    BY <1>2, <2>2 DEF RowsInv, PendingAgrees, RecordAgrees
  <2>3. CASE i - Len(pending) \in DOMAIN q /\ pending'[i] = q[i - Len(pending)]
    <3>1. pending'[i] \in [run : S, status : {"queued"}]
      BY <1>5, <2>3
    <3> QED BY <1>2, <1>3, <3>1 DEF RecordAgrees
  <2> QED BY <2>1, <2>2, <2>3
<1>8. ASSUME NEW r \in Runs PROVE RunAgrees(r)'
  BY <1>2 DEF RowsInv, RunAgrees
<1> QED BY <1>2, <1>7, <1>8 DEF RowsInv, RowTypes, RowTable, PendingAgrees, ScanIsFresh

\* An attempt is given back, left behind or spent, and the run leaves the pool as it is.
LEMMA LeaveKeepsRows ==
  ASSUME PoolInv, PoolInv', RowsInv, NEW r \in Runs, phase[r] # "idle",
         attempt' \in [Runs -> Nat],
         \A q \in Runs \ {r} : attempt'[q] = attempt[q],
         attempt'[r] = attempt[r] \/ (status[r] = "running" /\ attempt'[r] <= AttemptsOf(r)),
         RowTable',
         UNCHANGED <<status, wait, published, pending, mode, scan>>,
         known' = known \ {r},
         phase' = [phase EXCEPT ![r] = "idle"]
  PROVE  RowsInv'
<1> USE PoolInvParts DEF HostTypes
<1>1. RowTypes'
  BY DEF RowsInv, RowTypes
<1>2. RunAgrees(r)'
  <2>1. RunAgrees(r) /\ phase'[r] = "idle"
    BY DEF RowsInv
  <2> QED BY <2>1 DEF RunAgrees
<1>3. \A q \in Runs \ {r} :
            /\ status'[q] = status[q] /\ attempt'[q] = attempt[q] /\ wait'[q] = wait[q]
            /\ published'[q] = published[q] /\ phase'[q] = phase[q]
  OBVIOUS
<1>4. \A i \in DOMAIN pending' : \E j \in DOMAIN pending : pending'[i] = pending[j] /\ pending[j].run # r
  BY InFlightFacts
<1>5. ScanIsFresh'
  BY DEF RowsInv, ScanIsFresh
<1> QED BY <1>1, <1>2, <1>3, <1>4, <1>5, RunStep

\* The attempt count of a run that leaves the pool: kept, given back, or one more tried.
LEMMA AttemptTyped ==
  ASSUME RowsInv, NEW r \in Runs, phase[r] # "idle",
         \/ attempt' = attempt
         \/ attempt' = [attempt EXCEPT ![r] = @ - 1]
         \/ attempt' = [attempt EXCEPT ![r] = @ + 1] /\ phase[r] = "ready"
  PROVE  /\ attempt' \in [Runs -> Nat]
         /\ \A q \in Runs \ {r} : attempt'[q] = attempt[q]
         /\ attempt'[r] <= AttemptsOf(r)
<1>1. /\ RunAgrees(r) /\ attempt \in [Runs -> Nat] /\ attempt[r] >= 1
      /\ attempt[r] <= AttemptsOf(r) /\ AttemptsOf(r) \in Nat
      /\ phase[r] = "ready" => attempt[r] < AttemptsOf(r)
  BY ExecutorAssumption DEF RowsInv, RowTypes, RunAgrees, AttemptsOf
<1> HIDE DEF AttemptsOf
<1> QED BY <1>1

\* What LeavePool() and Leave() do to the variables the rows are compared with.
LEMMA LeaveFacts ==
  ASSUME PoolInv, RowsInv, NEW r \in Runs, phase[r] # "idle", Leave(r), UNCHANGED hostVars
  PROVE  /\ phase' = [phase EXCEPT ![r] = "idle"] /\ known' = known \ {r}
         /\ UNCHANGED <<pending, mode, scan>>
         /\ FromOther(pending', pending, r)
         /\ ScanIsFresh'
BY InFlightFacts DEF Leave, LeavePool, hostVars, FromOther, RowsInv, ScanIsFresh

LEMMA SettleKeepsRows ==
  ASSUME PoolInv, PoolInv', RowsInv, NEW r \in Runs, Settle(r)
  PROVE  RowsInv'
<1> USE PoolInvParts DEF HostTypes
<1>1. phase[r] = "performing" /\ status[r] = "running"
  BY DEF Settle, Finish, Suspend, Retry, FailWhileStopping, AbortCancelled, AbortStopped,
         Performing, RowsInv, RunAgrees
<1>2. ASSUME NEW o \in {"succeeded", "failed"}, Finish(r, o)
      PROVE  RowsInv'
  BY <1>1, <1>2, LeaveFacts, EndRunKeeps DEF Finish, Active, Terminal
<1>3. CASE AbortCancelled(r)
  BY <1>1, <1>3, LeaveFacts, EndRunKeeps DEF AbortCancelled, Active, Terminal
<1>4. CASE FailWhileStopping(r)
  <2>1. RowTable'
    BY <1>4, RowTableKept DEF FailWhileStopping, SetRow, RowStatus, Terminal, RowsInv
  <2>2. attempt' = attempt /\ Leave(r) /\ UNCHANGED <<status, wait, published, hostVars>>
    BY <1>4 DEF FailWhileStopping
  <2> QED BY <1>1, <2>1, <2>2, LeaveFacts, AttemptTyped, LeaveKeepsRows
<1>5. CASE AbortStopped(r)
  <2>1. RowTable'
    BY <1>5, RowTableKept DEF AbortStopped, SetRow, RowStatus, RowsInv
  <2>2. /\ attempt' = [attempt EXCEPT ![r] = @ - 1] /\ Leave(r)
        /\ UNCHANGED <<status, wait, published, hostVars>>
    BY <1>5 DEF AbortStopped
  <2> QED BY <1>1, <2>1, <2>2, LeaveFacts, AttemptTyped, LeaveKeepsRows
<1>6. CASE Retry(r)
  <2>1. /\ attempt[r] < AttemptsOf(r)
        /\ rows' = [rows EXCEPT ![r][attempt[r]] = "failed"]
        /\ phase' = [phase EXCEPT ![r] = "backoff"]
        /\ UNCHANGED <<status, attempt, wait, published, pending, known, mode, scan>>
    BY <1>6 DEF Retry, SetRow, hostVars
  <2>2. RowTypes'
    <3>1. "failed" \in RowStatus
      BY DEF RowStatus, Terminal
    <3> QED BY <2>1, <3>1, RowTableKept DEF RowsInv, RowTypes
  <2>3. RunAgrees(r)' /\ ScanIsFresh'
    BY <1>1, <2>1 DEF RowsInv, RunAgrees, ScanIsFresh
  <2>4. \A i \in DOMAIN pending' : \E j \in DOMAIN pending : pending'[i] = pending[j] /\ pending[j].run # r
    BY <1>1, <2>1, InFlightFacts
  <2> QED BY <2>1, <2>2, <2>3, <2>4, RunStep
<1>7. ASSUME NEW o \in {"pending", "matched"}, Suspend(r, o)
      PROVE  RowsInv'
  <2>1. /\ wait' = [wait EXCEPT ![r] = o]
        /\ status' = [status EXCEPT ![r] = IF o = "pending" THEN "waiting" ELSE "queued"]
        /\ phase' = [phase EXCEPT ![r] = "parking"]
        /\ UNCHANGED <<attempt, rows, published, pending, known, mode, scan>>
    BY <1>7 DEF Suspend, hostVars
  <2>2. RowTypes' /\ ScanIsFresh'
    BY <2>1 DEF RowsInv, RowTypes, RowTable, ScanIsFresh, Active, Resolved
  <2>3. RunAgrees(r)'
    BY <1>1, <2>1 DEF RowsInv, RowTypes, RowTable, RunAgrees, Terminal, Resolved
  <2>4. \A i \in DOMAIN pending' : \E j \in DOMAIN pending : pending'[i] = pending[j] /\ pending[j].run # r
    BY <1>1, <2>1, InFlightFacts
  <2>5. \A q \in Runs \ {r} :
            /\ status'[q] = status[q] /\ attempt'[q] = attempt[q] /\ wait'[q] = wait[q]
            /\ published'[q] = published[q] /\ phase'[q] = phase[q]
    BY <2>1 DEF RowsInv, RowTypes, RowTable
  <2> QED BY <2>2, <2>3, <2>4, <2>5, RunStep
<1> QED BY <1>2, <1>3, <1>4, <1>5, <1>6, <1>7 DEF Settle

LEMMA UnwindKeepsRows ==
  ASSUME PoolInv, PoolInv', RowsInv, NEW r \in Runs, Unwind(r)
  PROVE  RowsInv'
<1> USE PoolInvParts DEF HostTypes
<1>1. CASE Park(r)
  <2>1. /\ phase[r] = "parking"
        /\ rows' = [rows EXCEPT ![r][attempt[r]] = "waiting"]
        /\ phase' = [phase EXCEPT ![r] = "idle"]
        /\ known' = known \ {r} \/ mode = "up"
        /\ UNCHANGED <<status, attempt, wait, published, mode, scan>>
        /\ \/ pending' = pending
           \/ status[r] = "queued" /\ pending' = Append(pending, RecordOf(r, "queued"))
    BY <1>1 DEF Park, SetRow, LeavePool, hostVars
  <2>2. RowTypes'
    <3>1. "waiting" \in RowStatus
      BY DEF RowStatus, OpenRow
    <3> QED BY <2>1, <3>1, RowTableKept DEF RowsInv, RowTypes
  <2>3. RunAgrees(r)' /\ ScanIsFresh'
    BY <2>1 DEF RowsInv, RunAgrees, ScanIsFresh
  <2>4. \A j \in DOMAIN pending : pending[j].run # r
    BY <2>1, InFlightFacts
  <2>5. \A i \in DOMAIN pending' :
            \/ \E j \in DOMAIN pending : pending'[i] = pending[j] /\ pending[j].run # r
            \/ pending'[i].run = r /\ pending'[i].status = status'[r] /\ status'[r] = "queued"
    <3>1. CASE pending' = pending
      BY <2>4, <3>1
    <3>2. CASE status[r] = "queued" /\ pending' = Append(pending, RecordOf(r, "queued"))
      <4> DEFINE rec == RecordOf(r, "queued")
      <4>1. rec \in Record /\ rec.run = r /\ rec.status = "queued"
        BY DEF Record, RecordOf
      <4> HIDE DEF rec
      <4>2. pending' = Append(pending, rec) /\ pending \in Seq(Record)
        BY <3>2 DEF QueueAgrees, rec
      <4>3. \A i \in DOMAIN pending' :
              pending'[i] = rec \/ (i \in DOMAIN pending /\ pending'[i] = pending[i])
        BY <4>1, <4>2, AppendEntries
      <4> QED BY <2>1, <2>4, <3>2, <4>1, <4>3
    <3> QED BY <2>1, <3>1, <3>2
  <2> QED BY <2>1, <2>2, <2>3, <2>5, RunStep
<1>2. CASE ParkCancelled(r)
  <2>1. phase[r] = "parking" /\ status[r] \in {"waiting", "queued"}
    BY <1>2 DEF ParkCancelled, RowsInv, RunAgrees
  <2> QED BY <1>2, <2>1, LeaveFacts, EndRunKeeps DEF ParkCancelled, Active, Terminal
<1>3. CASE BackoffOver(r)
  BY <1>3, RowsUnchanged DEF BackoffOver, storeVars, hostVars, RowsInv, ScanIsFresh
<1>4. CASE BackoffCancelled(r)
  <2>1. phase[r] \in {"backoff", "ready"} /\ status[r] = "running"
    BY <1>4 DEF BackoffCancelled, RowsInv, RunAgrees
  <2> QED BY <1>4, <2>1, LeaveFacts, EndRunKeeps DEF BackoffCancelled, Active, Terminal
<1>5. CASE BackoffStopped(r)
  <2>1. phase[r] # "idle"
    BY <1>5 DEF BackoffStopped
  <2>2. Leave(r) /\ UNCHANGED <<status, attempt, wait, rows, published, hostVars>>
    BY <1>5 DEF BackoffStopped, storeVars
  <2>3. RowTable'
    BY <2>2 DEF RowsInv, RowTypes, RowTable
  <2> QED BY <2>1, <2>2, <2>3, LeaveFacts, AttemptTyped, LeaveKeepsRows
<1> QED BY <1>1, <1>2, <1>3, <1>4, <1>5 DEF Unwind

\* A run that is not in flight has no await to stand at.
LEMMA IdleFacts ==
  ASSUME PoolInv, NEW r \in Runs, r \notin inFlight
  PROVE  phase[r] = "idle" /\ [phase EXCEPT ![r] = "idle"] = phase
BY PoolInvParts DEF FlightAgrees, HostTypes

LEMMA CancelKeepsRows ==
  ASSUME PoolInv, PoolInv', RowsInv, NEW r \in Runs, Cancel(r)
  PROVE  RowsInv'
<1>1. CASE CancelIdle(r)
  <2>1. phase' = [phase EXCEPT ![r] = "idle"] /\ status[r] \in Active /\ EndRun(r, "cancelled")
    BY <1>1, IdleFacts DEF CancelIdle
  <2>2. FromOther(pending', pending, r)
    BY <1>1, PoolInvParts, WithoutQueue DEF CancelIdle, QueueAgrees
  <2>3. ScanIsFresh'
    BY <1>1 DEF CancelIdle, hostVars, RowsInv, ScanIsFresh
  <2> QED BY <2>1, <2>2, <2>3, EndRunKeeps DEF Terminal
<1>2. CASE CancelInFlight(r)
  BY <1>2, RowsUnchanged DEF CancelInFlight, storeVars, hostVars, RowsInv, ScanIsFresh
<1> QED BY <1>1, <1>2 DEF Cancel

\* A run whose start failed leaves the queue; its row may already say it runs.
LEMMA DropKeepsRows ==
  ASSUME PoolInv, PoolInv', RowsInv, NEW r \in Runs, NEW n \in Nat, 1 <= n, n <= AttemptsOf(r),
         status[r] \in {"queued", "running"}, phase[r] = "idle",
         \/ UNCHANGED <<status, attempt>>
         \/ status' = [status EXCEPT ![r] = "running"] /\ attempt' = [attempt EXCEPT ![r] = n],
         UNCHANGED <<wait, rows, published, phase, mode, scan>>,
         known' = known \ {r},
         FromOther(pending', pending, r)
  PROVE  RowsInv'
<1>1. RowTypes' /\ ScanIsFresh'
  BY DEF RowsInv, RowTypes, RowTable, ScanIsFresh, Active
<1>2. RunAgrees(r)'
  <2>1. RunAgrees(r) /\ wait[r] # "pending" /\ published[r] = <<>>
    BY DEF RowsInv, RunAgrees, Terminal
  <2>2. CASE UNCHANGED <<status, attempt>>
    BY <2>1, <2>2 DEF RunAgrees
  <2>3. CASE status' = [status EXCEPT ![r] = "running"] /\ attempt' = [attempt EXCEPT ![r] = n]
    <3>1. status'[r] = "running" /\ attempt'[r] = n
      BY <2>3 DEF RowsInv, RowTypes
    <3> QED BY <2>1, <3>1 DEF RunAgrees, Terminal
  <2> QED BY <2>2, <2>3
<1>3. \A q \in Runs \ {r} :
            /\ status'[q] = status[q] /\ attempt'[q] = attempt[q] /\ wait'[q] = wait[q]
            /\ published'[q] = published[q] /\ phase'[q] = phase[q]
  BY DEF RowsInv, RowTypes
<1> QED BY <1>1, <1>2, <1>3, RunStep DEF FromOther

LEMMA StoreFaultKeepsRows ==
  ASSUME PoolInv, PoolInv', RowsInv, StoreFault
  PROVE  RowsInv'
<1> USE PoolInvParts DEF HostTypes
<1>1. ASSUME NEW i \in DOMAIN pending, StartFails(i)
      PROVE  RowsInv'
  <2> DEFINE rec == pending[i]
             r == rec.run
             n == AttemptFor(rec)
  <2>1. /\ r \in Runs /\ status[r] \in {"queued", "running"}
        /\ n \in Nat /\ 1 <= n /\ n <= AttemptsOf(r)
    BY AttemptForFacts
  <2>2. /\ pending' = RemoveAt(pending, i) /\ known' = known \ {r}
        /\ \/ UNCHANGED <<status, attempt>>
           \/ status' = [status EXCEPT ![r] = "running"] /\ attempt' = [attempt EXCEPT ![r] = n]
        /\ UNCHANGED <<wait, rows, published, phase, mode, scan>>
    BY <1>1 DEF StartFails, BeginHalf, storeVars, hostVars
  <2>3. FromOther(pending', pending, r)
    BY <2>2, RemoveQueue DEF QueueAgrees
  <2>4. phase[r] = "idle"
    <3>1. r \in Ids(pending)
      BY DEF Ids
    <3> QED BY <2>1, <3>1, IdleFacts DEF QueueAgrees
  <2> HIDE DEF rec, r, n
  <2> QED BY <2>1, <2>2, <2>3, <2>4, DropKeepsRows
<1>2. ASSUME NEW r \in Runs, RetryFails(r)
      PROVE  RowsInv'
  <2>1. phase[r] = "ready" /\ status[r] = "running"
    BY <1>2, HeadIsReady DEF RetryFails, RowsInv, RunAgrees
  <2>s. status = [status EXCEPT ![r] = "running"]
    BY <2>1 DEF RowsInv, RowTypes
  <2>2. /\ phase' = [phase EXCEPT ![r] = "idle"] /\ known' = known \ {r}
        /\ attempt' \in {attempt, [attempt EXCEPT ![r] = @ + 1]}
        /\ UNCHANGED <<status, wait, rows, published, pending, mode, scan>>
    BY <1>2, <2>s DEF RetryFails, BeginHalf, LeavePool, storeVars, hostVars
  <2>3. RowTable'
    BY <2>2 DEF RowsInv, RowTypes, RowTable
  <2> QED BY <2>1, <2>2, <2>3, AttemptTyped, LeaveKeepsRows
<1>3. ASSUME NEW r \in Runs, SettleFails(r)
      PROVE  RowsInv'
  <2>1. phase[r] # "idle"
    BY <1>3 DEF SettleFails, FlightAgrees
  <2>2. Leave(r) /\ UNCHANGED <<status, wait, published, hostVars>>
    BY <1>3 DEF SettleFails, SettleHalf, storeVars
  <2>3. \/ UNCHANGED <<attempt, rows>>
        \/ /\ attempt' = [attempt EXCEPT ![r] = @ - 1] /\ phase[r] = "performing"
           /\ UNCHANGED rows
        \/ rows' = [rows EXCEPT ![r][attempt[r]] = "waiting"] /\ UNCHANGED attempt
    BY <1>3 DEF SettleFails, SettleHalf, SetRow, storeVars
  <2>4. RowTable'
    BY <2>3, RowTableKept DEF RowStatus, OpenRow, RowsInv
  <2>5. phase[r] = "performing" => status[r] = "running"
    BY DEF RowsInv, RunAgrees
  <2> QED BY <2>1, <2>2, <2>3, <2>4, <2>5, LeaveFacts, AttemptTyped, LeaveKeepsRows
<1> QED BY <1>1, <1>2, <1>3 DEF StoreFault

LEMMA RecoverKeepsRows ==
  ASSUME PoolInv, PoolInv', RowsInv, Recover
  PROVE  RowsInv'
<1> USE PoolInvParts
<1>b. ASSUME NEW r \in Runs, NEW s, Scanning(r, s)
      PROVE  /\ r \notin known /\ r \notin inFlight /\ r \notin Ids(pending)
             /\ phase[r] = "idle" /\ [phase EXCEPT ![r] = "idle"] = phase
             /\ status[r] = s /\ mode = "booting" /\ scan' = scan \ {r}
             /\ FromOther(pending, pending, r)
  <2>1. r \notin known /\ status[r] = s /\ mode = "booting" /\ scan' = scan \ {r}
    BY <1>b DEF Scanning, RowsInv, ScanIsFresh
  <2>2. r \notin inFlight /\ r \notin Ids(pending)
    BY <2>1 DEF QueueAgrees
  <2> QED BY <2>1, <2>2, IdleFacts DEF FromOther, Ids
<1>1. ASSUME NEW r \in Runs, RecoverRunning(r)
      PROVE  RowsInv'
  <2>1. /\ Scanning(r, "running") /\ attempt[r] < AttemptsOf(r)
        /\ rows' = [rows EXCEPT ![r] = CloseOpen(@, "interrupted")]
        /\ Take(r, "running")
        /\ UNCHANGED <<status, attempt, wait, published, phase, mode>>
    BY <1>1 DEF RecoverRunning, UntouchedByBoot
  <2>2. /\ r \notin known /\ status[r] = "running" /\ mode = "booting" /\ scan' = scan \ {r}
    BY <1>b, <2>1
  <2>3. /\ known' = known \cup {r}
        /\ \A i \in DOMAIN pending' :
              \/ \E j \in DOMAIN pending : pending'[i] = pending[j] /\ pending[j].run # r
              \/ pending'[i].run = r /\ pending'[i].status = "running"
    BY <2>1, <2>2, TakeEntries
  <2>4. RowTypes'
    <3>1. "interrupted" \in RowStatus
      BY DEF RowStatus
    <3> QED BY <2>1, <3>1, RowTableKept DEF RowsInv, RowTypes
  <2>5. RunAgrees(r)' /\ ScanIsFresh'
    BY <2>1, <2>2, <2>3 DEF RowsInv, RunAgrees, ScanIsFresh
  <2> QED BY <2>1, <2>2, <2>3, <2>4, <2>5, RunStep
<1>2. ASSUME NEW r \in Runs, RecoverQueued(r)
      PROVE  RowsInv'
  <2>1. /\ Scanning(r, "queued") /\ Take(r, "queued")
        /\ UNCHANGED <<status, attempt, wait, rows, published, phase, mode>>
    BY <1>2 DEF RecoverQueued, storeVars, UntouchedByBoot
  <2>2. /\ r \notin known /\ status[r] = "queued" /\ mode = "booting" /\ scan' = scan \ {r}
    BY <1>b, <2>1
  <2>3. /\ known' = known \cup {r}
        /\ \A i \in DOMAIN pending' :
              \/ \E j \in DOMAIN pending : pending'[i] = pending[j] /\ pending[j].run # r
              \/ pending'[i].run = r /\ pending'[i].status = "queued"
    BY <2>1, <2>2, TakeEntries
  <2>4. RowTypes' /\ RunAgrees(r)' /\ ScanIsFresh'
    BY <2>1, <2>2, <2>3 DEF RowsInv, RowTypes, RowTable, RunAgrees, ScanIsFresh
  <2> QED BY <2>1, <2>2, <2>3, <2>4, RunStep
<1>3. ASSUME NEW r \in Runs, FailInterrupted(r)
      PROVE  RowsInv'
  <2>1. /\ Scanning(r, "running") /\ EndRun(r, "failed")
        /\ UNCHANGED <<pending, known, phase, mode>>
    BY <1>3 DEF FailInterrupted, UntouchedByBoot
  <2>2. /\ status[r] = "running" /\ phase' = [phase EXCEPT ![r] = "idle"]
        /\ scan' = scan \ {r} /\ FromOther(pending', pending, r)
    BY <1>b, <2>1
  <2>3. ScanIsFresh'
    BY <2>1, <2>2 DEF RowsInv, ScanIsFresh
  <2> QED BY <2>1, <2>2, <2>3, EndRunKeeps DEF Active, Terminal
<1>4. ASSUME NEW r \in Runs, FailInterruptedFails(r) \/ RecoverWaiting(r)
      PROVE  RowsInv'
  <2>1. /\ scan' = scan \ {r}
        /\ UNCHANGED <<status, attempt, wait, rows, published, pending, known, phase, mode>>
    BY <1>4 DEF FailInterruptedFails, RecoverWaiting, Scanning, storeVars, UntouchedByBoot
  <2>2. ScanIsFresh'
    BY <2>1 DEF RowsInv, ScanIsFresh
  <2> QED BY <2>1, <2>2, RowsUnchanged
<1>5. CASE Booted
  BY <1>5, RowsUnchanged DEF Booted, storeVars, ScanIsFresh
<1> QED BY <1>1, <1>2, <1>3, <1>4, <1>5 DEF Recover

\* Starting, stopping, a reload and a crash write no row.
\* A step cut in half by a crash has begun an attempt its run may make, or settled half of one.
LEMMA HalfwayFacts ==
  ASSUME PoolInv, RowsInv, Halfway
  PROVE  \E r \in Runs :
           \/ SettleHalf(r)
           \/ \E n \in Nat : /\ BeginHalf(r, n) /\ status[r] \in {"queued", "running"}
                             /\ 1 <= n /\ n <= AttemptsOf(r)
                             /\ (n = attempt[r] /\ status[r] = "queued") \/ n = attempt[r] + 1
<1>1. ASSUME NEW r \in inFlight, SettleHalf(r)
      PROVE  r \in Runs /\ SettleHalf(r)
  BY <1>1, PoolInvParts DEF FlightAgrees
<1>2. ASSUME NEW i \in DOMAIN pending, BeginHalf(pending[i].run, AttemptFor(pending[i]))
      PROVE  \E r \in Runs, n \in Nat :
               /\ BeginHalf(r, n) /\ status[r] \in {"queued", "running"}
               /\ 1 <= n /\ n <= AttemptsOf(r)
               /\ (n = attempt[r] /\ status[r] = "queued") \/ n = attempt[r] + 1
  <2> DEFINE rec == pending[i]
  <2>1. /\ rec.run \in Runs /\ status[rec.run] = rec.status
        /\ rec.status \in {"queued", "running"}
        /\ AttemptFor(rec) \in Nat /\ 1 <= AttemptFor(rec) /\ AttemptFor(rec) <= AttemptsOf(rec.run)
    BY AttemptForFacts
  <2> HIDE DEF rec
  <2>2. \/ AttemptFor(rec) = attempt[rec.run] /\ status[rec.run] = "queued"
        \/ AttemptFor(rec) = attempt[rec.run] + 1
    BY <2>1 DEF AttemptFor, Resuming
  <2>3. BeginHalf(rec.run, AttemptFor(rec))
    BY <1>2 DEF rec
  <2> QED BY <2>1, <2>2, <2>3
<1>3. ASSUME NEW r, retryReady # <<>>, r = Head(retryReady).run, BeginHalf(r, attempt[r] + 1)
      PROVE  \E n \in Nat : /\ r \in Runs /\ BeginHalf(r, n) /\ status[r] \in {"queued", "running"}
                            /\ 1 <= n /\ n <= AttemptsOf(r)
                            /\ n = attempt[r] + 1
  <2>1. r \in Runs
    <3>1. r \in Ids(retryReady)
      BY <1>3, PoolInvParts, TailQueue DEF RetryAgrees
    <3> QED BY <3>1, PoolInvParts DEF RetryAgrees
  <2>2. phase[r] = "ready"
    BY <1>3, <2>1, HeadIsReady
  <2>3. /\ status[r] = "running" /\ attempt[r] \in Nat
        /\ attempt[r] < AttemptsOf(r) /\ AttemptsOf(r) \in Nat
    BY <2>1, <2>2, ExecutorAssumption DEF RowsInv, RowTypes, RunAgrees, AttemptsOf
  <2>4. attempt[r] + 1 \in Nat /\ 1 <= attempt[r] + 1 /\ attempt[r] + 1 <= AttemptsOf(r)
    BY <2>3
  <2> QED BY <1>3, <2>1, <2>3, <2>4
<1> QED BY <1>1, <1>2, <1>3 DEF Halfway

\* A crash leaves rows the next start understands, also when it comes halfway through a step.
LEMMA CrashKeepsRows ==
  ASSUME PoolInv, PoolInv', RowsInv, Halfway, phase' = [r \in Runs |-> "idle"], pending' = <<>>,
         mode' = "down"
  PROVE  RowsInv'
<1>1. PICK r \in Runs :
           \/ SettleHalf(r)
           \/ \E n \in Nat : /\ BeginHalf(r, n) /\ status[r] \in {"queued", "running"}
                             /\ 1 <= n /\ n <= AttemptsOf(r)
  BY HalfwayFacts
<1>2. RowTypes' /\ RunAgrees(r)'
      /\ \A q \in Runs \ {r} :
            /\ status'[q] = status[q] /\ attempt'[q] = attempt[q] /\ wait'[q] = wait[q]
            /\ published'[q] = published[q]
  <2>f. RunAgrees(r) /\ phase'[r] = "idle"
    BY DEF RowsInv
  <2>1. ASSUME NEW n \in Nat, BeginHalf(r, n), status[r] \in {"queued", "running"},
               1 <= n, n <= AttemptsOf(r)
        PROVE  /\ RowTypes' /\ RunAgrees(r)'
               /\ \A q \in Runs \ {r} :
                     /\ status'[q] = status[q] /\ attempt'[q] = attempt[q] /\ wait'[q] = wait[q]
                     /\ published'[q] = published[q]
    <3>1. /\ status' = [status EXCEPT ![r] = "running"] /\ attempt' = [attempt EXCEPT ![r] = n]
          /\ UNCHANGED <<wait, rows, published>>
      BY <2>1 DEF BeginHalf
    <3>2. RowTypes'
      BY <3>1 DEF RowsInv, RowTypes, RowTable, Active
    <3>3. status'[r] = "running" /\ attempt'[r] = n
      BY <3>1 DEF RowsInv, RowTypes
    <3>4. RunAgrees(r)'
      BY <2>f, <2>1, <3>1, <3>3 DEF RunAgrees, Terminal
    <3> QED BY <3>1, <3>2, <3>4 DEF RowsInv, RowTypes
  <2>2. CASE SettleHalf(r)
    <3>1. /\ UNCHANGED <<status, wait, published>>
          /\ \/ attempt' = [attempt EXCEPT ![r] = @ - 1] /\ phase[r] = "performing" /\ UNCHANGED rows
             \/ rows' = [rows EXCEPT ![r][attempt[r]] = "waiting"] /\ UNCHANGED attempt
      BY <2>2 DEF SettleHalf, SetRow
    <3>2. RowTable'
      BY <3>1, RowTableKept DEF RowStatus, OpenRow, RowsInv
    <3>3. /\ attempt' \in [Runs -> Nat] /\ \A q \in Runs \ {r} : attempt'[q] = attempt[q]
          /\ attempt'[r] <= AttemptsOf(r)
          /\ attempt'[r] = attempt[r] \/ status[r] = "running"
      <4>1. CASE attempt' = attempt
        BY <2>f, <4>1 DEF RowsInv, RowTypes, RunAgrees
      <4>2. CASE attempt' = [attempt EXCEPT ![r] = @ - 1] /\ phase[r] = "performing"
        BY <2>f, <4>2, AttemptTyped DEF RunAgrees
      <4> QED BY <3>1, <4>1, <4>2
    <3>4. RunAgrees(r)'
      BY <2>f, <3>1, <3>3 DEF RunAgrees
    <3> QED BY <3>1, <3>2, <3>3, <3>4 DEF RowsInv, RowTypes
  <2> QED BY <1>1, <2>1, <2>2
<1>3. ASSUME NEW q \in Runs PROVE RunAgrees(q)'
  <2>1. CASE q # r
    BY <1>2, <2>1 DEF RowsInv, RunAgrees
  <2> QED BY <1>2, <2>1
<1> QED BY <1>2, <1>3 DEF RowsInv, PendingAgrees, ScanIsFresh

LEMMA HostKeepsRows ==
  ASSUME PoolInv, PoolInv', RowsInv,
         Boot \/ Stop \/ GraceOver \/ Stopped \/ Crash \/ BeginReload
           \/ \E w \in WorkerCounts : EndReload(w)
  PROVE  RowsInv'
<1> USE PoolInvParts
<1>h. CASE Crash /\ Halfway
  BY <1>h, CrashKeepsRows DEF Crash
<1> SUFFICES ASSUME ~(Crash /\ Halfway) PROVE RowsInv'
  BY <1>h
<1>1. UNCHANGED <<status, attempt, wait, rows, published>>
  BY DEF Boot, Stop, GraceOver, Stopped, Crash, BeginReload, EndReload, storeVars
<1>2. \A r \in Runs : phase'[r] = phase[r] \/ phase'[r] = "idle"
  BY DEF Boot, Stop, GraceOver, Stopped, Crash, BeginReload, EndReload, poolVars
<1>3. pending' = pending \/ pending' = <<>>
  BY DEF Boot, Stop, GraceOver, Stopped, Crash, BeginReload, EndReload, poolVars
<1>4. ScanIsFresh'
  <2>1. CASE Boot
    BY <2>1 DEF Boot, poolVars, ScanIsFresh, DownIsEmpty
  <2>2. CASE Stop \/ GraceOver \/ Stopped \/ Crash
    BY <2>2 DEF Stop, GraceOver, Stopped, Crash, ScanIsFresh
  <2>3. CASE BeginReload \/ \E w \in WorkerCounts : EndReload(w)
    BY <2>3 DEF BeginReload, EndReload, poolVars, RowsInv, ScanIsFresh
  <2> QED BY <2>1, <2>2, <2>3
<1> QED BY <1>1, <1>2, <1>3, <1>4, RowsUnchanged

LEMMA RowsInit == Init => RowsInv
<1> SUFFICES ASSUME Init PROVE RowsInv
  OBVIOUS
<1>1. RowTypes
  BY DEF Init, RowTypes, RowTable, RowStatus
<1>2. ASSUME NEW r \in Runs PROVE RunAgrees(r)
  <2>1. AttemptsOf(r) \in Nat \ {0}
    BY ExecutorAssumption DEF AttemptsOf
  <2> QED BY <2>1 DEF Init, RunAgrees, Terminal
<1>3. PendingAgrees /\ ScanIsFresh
  BY DEF Init, PendingAgrees, ScanIsFresh
<1> QED BY <1>1, <1>2, <1>3 DEF RowsInv

LEMMA RowsStep == PoolInv /\ PoolInv' /\ RowsInv /\ [Next]_vars => RowsInv'
<1> SUFFICES ASSUME PoolInv, PoolInv', RowsInv, [Next]_vars PROVE RowsInv'
  OBVIOUS
<1>1. CASE UNCHANGED vars
  BY <1>1, RowsUnchanged DEF vars, storeVars, poolVars, hostVars, RowsInv, ScanIsFresh
<1> QED BY <1>1, PumpKeepsRows, AdoptKeepsRows, RecoverKeepsRows, HostKeepsRows, SettleKeepsRows,
           UnwindKeepsRows, DispatcherKeepsRows, CancelKeepsRows, StoreFaultKeepsRows DEF Next

-----------------------------------------------------------------------------
(***************************************************************************)
(* 4. What follows for the specification.                                  *)
(***************************************************************************)

LEMMA InvHolds == Spec => [](PoolInv /\ RowsInv)
<1>1. Init => PoolInv /\ RowsInv
  BY PoolInit, RowsInit
<1>2. PoolInv /\ RowsInv /\ [Next]_vars => PoolInv' /\ RowsInv'
  BY PoolStep, RowsStep
<1> QED BY <1>1, <1>2, PTL DEF Spec

\* Rows, pool and host have their types in every state (the columns of runs, waits and
\* run_attempts, and the executor's fields).
THEOREM TypesAreCorrect == Spec => []TypeOK
<1>1. PoolInv /\ RowsInv => TypeOK
  BY DEF PoolInv, PoolTypes, RowsInv, RowTypes, RowTable, TypeOK
<1> QED BY <1>1, InvHolds, PTL

\* What the pool holds of a run is what its row says, whatever a cancel, the end of a
\* wait or a sweep did between two awaits of execute() (executor.ts enqueue, cancel,
\* execute).
THEOREM PoolMatchesRows == Spec => []PoolMatchesStore
<1>1. PoolInv /\ RowsInv => PoolMatchesStore
  BY EntryFacts DEF PoolInv, PoolTypes, RowsInv, RunAgrees, PendingAgrees, RecordAgrees,
                    PoolMatchesStore
<1> QED BY <1>1, InvHolds, PTL

\* A waiting run has an armed wait, and an armed wait a waiting run (executor.ts suspend,
\* finish and finishCancelled, dispatcher.ts endWait).
THEOREM WaitingRunsHaveWaits == Spec => []WaitingHasWait
<1>1. RowsInv => WaitingHasWait
  BY DEF RowsInv, RunAgrees, WaitingHasWait
<1> QED BY <1>1, InvHolds, PTL

\* A run publishes its end exactly once, whatever path it takes there (executor.ts finish
\* and finishCancelled, called from execute, cancel and start).
THEOREM EndsPublishOnce == Spec => []EndPublishedOnce
<1>1. RowsInv => EndPublishedOnce
  BY DEF RowsInv, RunAgrees, EndPublishedOnce
<1> QED BY <1>1, InvHolds, PTL

\* No run makes more attempts than its policy allows (executor.ts execute, start).
THEOREM AttemptsAreBounded == Spec => []AttemptsWithinPolicy
<1>1. RowsInv => AttemptsWithinPolicy
  BY DEF RowsInv, RunAgrees, AttemptsWithinPolicy
<1> QED BY <1>1, InvHolds, PTL

-----------------------------------------------------------------------------
(***************************************************************************)
(* Concurrency: only the pump adds to a task's count, below its limit.     *)
(***************************************************************************)

LEMMA ConcurrencyStep ==
  PoolInv /\ PoolInv' /\ ConcurrencyKept /\ [Next]_vars => ConcurrencyKept'
<1> SUFFICES ASSUME PoolInv, PoolInv', ConcurrencyKept, [Next]_vars, NEW t \in Tasks
             PROVE  perTask'[t] <= Limit[t]
  BY DEF ConcurrencyKept
<1>1. /\ perTask \in [Tasks -> Nat] /\ perTask' \in [Tasks -> Nat]
      /\ Limit[t] \in Nat \ {0} /\ perTask[t] <= Limit[t]
  BY ExecutorAssumption DEF PoolInv, PoolTypes, ConcurrencyKept
<1>2. ASSUME NEW i \in DOMAIN pending, PumpStart(i)
      PROVE  perTask'[t] <= Limit[t]
  <2>1. /\ perTask' = [perTask EXCEPT ![TaskOf[pending[i].run]] = @ + 1]
        /\ perTask[TaskOf[pending[i].run]] < Limit[TaskOf[pending[i].run]]
    BY <1>2 DEF PumpStart, NextToStart, BelowLimit
  <2> QED BY <1>1, <2>1
<1>3. ASSUME NEW r \in Runs, perTask' = [perTask EXCEPT ![TaskOf[r]] = @ - 1]
      PROVE  perTask'[t] <= Limit[t]
  BY <1>1, <1>3
<1>4. CASE perTask' = perTask
  BY <1>1, <1>4
<1>5. CASE perTask' = [u \in Tasks |-> 0]
  BY <1>1, <1>5
<1>6. \/ \E i \in DOMAIN pending : PumpStart(i)
      \/ \E r \in Runs : perTask' = [perTask EXCEPT ![TaskOf[r]] = @ - 1]
      \/ perTask' = perTask
      \/ perTask' = [u \in Tasks |-> 0]
  <2>1. CASE Pump
    BY <2>1 DEF Pump, PumpDone, PumpRetry
  <2>2. CASE Adopt \/ Boot \/ Recover \/ Stop \/ GraceOver \/ Stopped \/ Crash
    BY <2>2 DEF Adopt, Boot, Recover, RecoverRunning, FailInterrupted, FailInterruptedFails,
                RecoverWaiting, RecoverQueued, Booted, UntouchedByBoot, Stop, GraceOver, Stopped,
                Crash, poolVars
  <2>3. CASE BeginReload \/ \E w \in WorkerCounts : EndReload(w)
    BY <2>3 DEF BeginReload, EndReload, poolVars
  <2>4. CASE \E r \in Runs : Settle(r)
    BY <2>4 DEF Settle, Finish, Suspend, Retry, FailWhileStopping, AbortCancelled, AbortStopped,
                Leave, LeavePool
  <2>5. CASE \E r \in Runs : Unwind(r)
    BY <2>5 DEF Unwind, Park, ParkCancelled, BackoffOver, BackoffCancelled, BackoffStopped, Leave,
                LeavePool
  <2>6. CASE \E r \in Runs : Dispatcher(r) \/ Cancel(r)
    BY <2>6 DEF Dispatcher, Queue, EndWait, Cancel, CancelIdle, CancelInFlight
  <2>7. CASE StoreFault
    BY <2>7 DEF StoreFault, StartFails, RetryFails, SettleFails, Leave, LeavePool
  <2>8. CASE UNCHANGED vars
    BY <2>8 DEF vars, poolVars
  <2> QED BY <2>1, <2>2, <2>3, <2>4, <2>5, <2>6, <2>7, <2>8 DEF Next
<1> QED BY <1>2, <1>3, <1>4, <1>5, <1>6

\* No task ever runs more of its runs at once than its concurrency (executor.ts pump,
\* nextRunnable and the counts execute keeps).
THEOREM ConcurrencyIsKept == Spec => []ConcurrencyKept
<1>1. Init => ConcurrencyKept
  BY ExecutorAssumption DEF Init, ConcurrencyKept
<1> QED BY <1>1, ConcurrencyStep, PoolInit, PoolStep, PTL DEF Spec

-----------------------------------------------------------------------------
(***************************************************************************)
(* The executor implements the contract of a run.                          *)
(***************************************************************************)

\* Every way to end a run is a permitted end that publishes its event.
LEMMA EndRunKeepsContract ==
  ASSUME NEW r \in Runs, NEW o \in Terminal, EndRun(r, o),
         status[r] \in (IF o = "cancelled" THEN Active ELSE {"running"})
  PROVE  Contract!Next
<1>1. Contract!End(r, o)
  BY DEF EndRun, Contract!End, Contract!Active, Active
<1>2. o \in Contract!Terminal
  BY DEF Terminal, Contract!Terminal
<1> QED BY <1>1, <1>2 DEF Contract!Next

\* A start, a resume, a retry or a recovered run goes on from "queued" or "running".
LEMMA BeginKeepsContract ==
  ASSUME NEW r \in Runs, NEW n, BeginAttempt(r, n), status[r] \in {"queued", "running"}
  PROVE  Contract!Next
<1>1. Contract!Begin(r)
  BY DEF BeginAttempt, Contract!Begin, Contract!Move
<1> QED BY <1>1 DEF Contract!Next

LEMMA ContractStep ==
  PoolInv /\ RowsInv /\ [Next]_vars => [Contract!Next]_(Contract!vars)
<1> SUFFICES ASSUME PoolInv, RowsInv, [Next]_vars
             PROVE  Contract!Next \/ UNCHANGED <<status, published>>
  BY DEF Contract!vars
<1>f. /\ pending \in Seq(Record)
      /\ status \in [Runs -> Active \cup Terminal \cup {"none"}]
      /\ \A r \in Runs : RunAgrees(r)
      /\ \A i \in DOMAIN pending : RecordAgrees(pending[i])
  BY DEF PoolInv, PoolTypes, RowsInv, RowTypes, PendingAgrees
<1>e. ASSUME NEW i \in DOMAIN pending
      PROVE  pending[i].run \in Runs /\ status[pending[i].run] \in {"queued", "running"}
  BY <1>f, EntryFacts DEF RecordAgrees
<1>w. ASSUME NEW r \in Runs
      PROVE  /\ phase[r] \in {"performing", "backoff", "ready"} => status[r] = "running"
             /\ phase[r] = "parking" => status[r] \in {"waiting", "queued"}
             /\ status[r] = "waiting" <=> wait[r] = "pending"
  BY <1>f DEF RunAgrees
<1>1. CASE Pump
  <2>1. ASSUME NEW i \in DOMAIN pending, PumpStart(i)
        PROVE  Contract!Next
    BY <1>e, <2>1, BeginKeepsContract DEF PumpStart
  <2>2. ASSUME NEW r \in Runs, PumpRetry(r)
        PROVE  Contract!Next
    <3>1. phase[r] = "ready"
      <4>1. retryReady # <<>> /\ r = Head(retryReady).run
        BY <2>2 DEF PumpRetry
      <4> QED BY <4>1, HeadIsReady
    <3> QED BY <1>w, <2>2, <3>1, BeginKeepsContract DEF PumpRetry
  <2> QED BY <1>1, <2>1, <2>2 DEF Pump, PumpDone, storeVars
<1>h. ASSUME NEW r \in Runs, NEW n, BeginHalf(r, n), status[r] \in {"queued", "running"}
      PROVE  Contract!Next
  <2>1. Contract!Begin(r)
    BY <1>h DEF BeginHalf, Contract!Begin, Contract!Move
  <2> QED BY <2>1 DEF Contract!Next
<1>2. CASE Adopt \/ Boot \/ Stop \/ GraceOver \/ Stopped \/ Crash \/ BeginReload
             \/ \E w \in WorkerCounts : EndReload(w)
  <2>1. CASE Halfway
    BY <1>h, <2>1, HalfwayFacts DEF SettleHalf
  <2>2. CASE Crash /\ ~Halfway
    BY <2>2 DEF Crash, storeVars
  <2> QED BY <1>2, <2>1, <2>2 DEF Adopt, Boot, Stop, GraceOver, Stopped, BeginReload, EndReload,
                                 storeVars
<1>3. CASE Recover
  <2>1. ASSUME NEW r \in Runs, FailInterrupted(r)
        PROVE  Contract!Next
    BY <2>1, EndRunKeepsContract DEF FailInterrupted, Scanning, Terminal
  <2> QED BY <1>3, <2>1 DEF Recover, RecoverRunning, FailInterruptedFails, RecoverWaiting,
                            RecoverQueued, Booted, storeVars
<1>4. ASSUME NEW r \in Runs, Settle(r)
      PROVE  Contract!Next \/ UNCHANGED <<status, published>>
  <2>1. status[r] = "running"
    BY <1>4, <1>w DEF Settle, Finish, Suspend, Retry, FailWhileStopping, AbortCancelled,
                      AbortStopped, Performing
  <2>2. ASSUME NEW o \in {"succeeded", "failed"}, Finish(r, o)
        PROVE  Contract!Next
    BY <2>1, <2>2, EndRunKeepsContract DEF Finish, Terminal
  <2>3. CASE AbortCancelled(r)
    BY <2>1, <2>3, EndRunKeepsContract DEF AbortCancelled, Terminal, Active
  <2>4. ASSUME NEW o \in {"pending", "matched"}, Suspend(r, o)
        PROVE  Contract!Next
    <3>1. Contract!Park(r) \/ Contract!Wake(r)
      BY <2>1, <2>4 DEF Suspend, Contract!Park, Contract!Wake, Contract!Move
    <3> QED BY <3>1 DEF Contract!Next
  <2> QED BY <1>4, <2>2, <2>3, <2>4 DEF Settle, Retry, FailWhileStopping, AbortStopped
<1>5. ASSUME NEW r \in Runs, Unwind(r)
      PROVE  Contract!Next \/ UNCHANGED <<status, published>>
  <2>1. CASE ParkCancelled(r)
    BY <2>1, <1>w, EndRunKeepsContract DEF ParkCancelled, Terminal, Active
  <2>2. CASE BackoffCancelled(r)
    BY <2>2, <1>w, EndRunKeepsContract DEF BackoffCancelled, Terminal, Active
  <2> QED BY <1>5, <2>1, <2>2 DEF Unwind, Park, BackoffOver, BackoffStopped, storeVars
<1>6. ASSUME NEW r \in Runs, Dispatcher(r)
      PROVE  Contract!Next
  <2>1. Contract!Queue(r) \/ Contract!Wake(r)
    BY <1>6, <1>w DEF Dispatcher, Queue, EndWait, Contract!Queue, Contract!Wake, Contract!Move
  <2> QED BY <2>1 DEF Contract!Next
<1>7. ASSUME NEW r \in Runs, Cancel(r)
      PROVE  Contract!Next \/ UNCHANGED <<status, published>>
  BY <1>7, EndRunKeepsContract DEF Cancel, CancelIdle, CancelInFlight, Terminal, storeVars
<1>8. CASE StoreFault
  <2>1. ASSUME NEW i \in DOMAIN pending, StartFails(i)
        PROVE  Contract!Next \/ UNCHANGED <<status, published>>
    BY <1>e, <1>h, <2>1 DEF StartFails, storeVars
  <2>2. ASSUME NEW r \in Runs, RetryFails(r)
        PROVE  Contract!Next \/ UNCHANGED <<status, published>>
    <3>1. phase[r] = "ready"
      BY <2>2, HeadIsReady DEF RetryFails
    <3> QED BY <1>h, <1>w, <2>2, <3>1 DEF RetryFails, storeVars
  <2> QED BY <1>8, <2>1, <2>2 DEF StoreFault, SettleFails, SettleHalf, storeVars
<1>9. CASE UNCHANGED vars
  BY <1>9 DEF vars, storeVars
<1> QED BY <1>1, <1>2, <1>3, <1>4, <1>5, <1>6, <1>7, <1>8, <1>9 DEF Next

\* Every behaviour of the executor, with its crashes and store failures, is one the
\* contract of a run allows: the statuses a run moves through, and the lifecycle event
\* each end publishes.
THEOREM ExecutorKeepsContract == Spec => KeepsContract
<1>1. Init => Contract!Init
  BY DEF Init, Contract!Init
<1> QED BY <1>1, InvHolds, ContractStep, PTL DEF Spec, KeepsContract, Contract!Spec

-----------------------------------------------------------------------------
(***************************************************************************)
(* The pump.                                                               *)
(***************************************************************************)

\* A handler that ends in pump(), or leaves the pool stopping or held, leaves nothing
\* for NoLostPump to see.
LEMMA PumpCalled ==
  ASSUME CallPump, UNCHANGED <<mode, holds>>
  PROVE  NoLostPump'
BY DEF CallPump, NoLostPump, Idle

LEMMA NoLostPumpStep ==
  PoolInv /\ NoLostPump /\ [Next]_vars => NoLostPump'
<1> SUFFICES ASSUME PoolInv, NoLostPump, [Next]_vars PROVE NoLostPump'
  OBVIOUS
<1>1. CASE Pump
  BY <1>1 DEF Pump, PumpDone, PumpStart, PumpRetry, NoLostPump, Idle, HasWorker, BusyWorkers,
              BelowLimit, hostVars
<1>2. CASE Boot \/ Recover \/ Stop \/ GraceOver \/ Stopped \/ Crash \/ BeginReload
             \/ \E w \in WorkerCounts : EndReload(w)
  <2>1. CASE Recover
    <3>1. mode' = "booting" \/ pumping' = TRUE
      BY <2>1 DEF Recover, RecoverRunning, FailInterrupted, FailInterruptedFails, RecoverWaiting,
                  RecoverQueued, Scanning, UntouchedByBoot, Booted
    <3> QED BY <3>1 DEF NoLostPump, Idle
  <2>2. CASE \E w \in WorkerCounts : EndReload(w)
    <3>1. pumping' = (mode' = "up")
      BY <2>2 DEF EndReload
    <3> QED BY <3>1 DEF NoLostPump, Idle
  <2>3. CASE Boot \/ Stop \/ GraceOver \/ Stopped \/ Crash \/ BeginReload
    <3>1. mode' # "up" \/ holds' = 1
      BY <2>3 DEF Boot, Stop, GraceOver, Stopped, Crash, BeginReload
    <3> QED BY <3>1 DEF NoLostPump
  <2> QED BY <1>2, <2>1, <2>2, <2>3
<1>3. CASE Adopt
  BY <1>3, PumpCalled DEF Adopt, hostVars
<1>4. ASSUME NEW r \in Runs, Settle(r)
      PROVE  NoLostPump'
  <2>1. ASSUME NEW o, Suspend(r, o)
        PROVE  NoLostPump'
    BY <2>1 DEF Suspend, NoLostPump, Idle, HasWorker, BusyWorkers, BelowLimit, hostVars
  <2> QED BY <1>4, <2>1, PumpCalled DEF Settle, Finish, Retry, FailWhileStopping, AbortCancelled,
                                        AbortStopped, Leave, LeavePool, hostVars
<1>5. ASSUME NEW r \in Runs, Unwind(r)
      PROVE  NoLostPump'
  BY <1>5, PumpCalled DEF Unwind, Park, ParkCancelled, BackoffOver, BackoffCancelled,
                          BackoffStopped, Leave, LeavePool, hostVars
<1>6. ASSUME NEW r \in Runs, Dispatcher(r)
      PROVE  NoLostPump'
  <2>1. /\ HandOff(r) /\ Idle /\ UNCHANGED <<mode, holds, workers>>
        /\ UNCHANGED <<inFlight, perTask, backingOff, retryReady>>
    BY <1>6 DEF Dispatcher, Queue, EndWait, hostVars
  <2>2. CASE UNCHANGED <<pending, known, pumping>>
    BY <2>1, <2>2 DEF NoLostPump, Idle, HasWorker, BusyWorkers, BelowLimit
  <2> QED BY <2>1, <2>2, PumpCalled DEF HandOff
<1>7. ASSUME NEW r \in Runs, CancelIdle(r)
      PROVE  NoLostPump'
  <2>1. \A i \in DOMAIN pending' : \E j \in DOMAIN pending : pending'[i] = pending[j]
    BY <1>7, WithoutQueue, PoolInvParts DEF CancelIdle, QueueAgrees, FromOther
  <2> QED BY <1>7, <2>1 DEF CancelIdle, NoLostPump, Idle, HasWorker, BusyWorkers, BelowLimit, hostVars
<1>8. ASSUME NEW r \in Runs, CancelInFlight(r)
      PROVE  NoLostPump'
  <2>1. retryReady = <<>> => retryReady' = <<>>
    BY <1>8 DEF CancelInFlight, Without, Ids
  <2> QED BY <1>8, <2>1 DEF CancelInFlight, NoLostPump, Idle, HasWorker, BusyWorkers, BelowLimit,
                            hostVars
<1>9. CASE StoreFault
  BY <1>9, PumpCalled DEF StoreFault, StartFails, RetryFails, SettleFails, Leave, LeavePool,
                          NoLostPump, Idle, hostVars
<1>10. CASE UNCHANGED vars
  BY <1>10 DEF vars, poolVars, hostVars, NoLostPump, Idle, HasWorker, BusyWorkers, BelowLimit
<1> QED BY <1>1, <1>2, <1>3, <1>4, <1>5, <1>6, <1>7, <1>8, <1>9, <1>10 DEF Next, Cancel

\* No wake-up of the pump is ever lost: whenever it is done and not held, a free worker
\* means that nothing is left to start (every handler that frees a worker, a task's
\* place or adds work ends in pump()).
THEOREM PumpIsNeverLost == Spec => []NoLostPump
<1>1. Init => NoLostPump
  BY DEF Init, NoLostPump
<1> QED BY <1>1, NoLostPumpStep, PoolInit, PoolStep, PTL DEF Spec

\* A worker taken by one more run, or by one run fewer that backs off.
LEMMA OneMoreBusy ==
  ASSUME NEW F \in SUBSET Runs, NEW B \in SUBSET Runs, NEW r \in Runs
  PROVE  /\ Cardinality(F) \in Nat /\ Cardinality(B) \in Nat
         /\ r \notin F => Cardinality(F \cup {r}) = Cardinality(F) + 1
         /\ r \in B => Cardinality(B \ {r}) = Cardinality(B) - 1
<1>1. IsFiniteSet(F) /\ IsFiniteSet(B)
  BY ExecutorAssumption, FS_Subset
<1> QED BY <1>1, FS_CardinalityType, FS_AddElement, FS_RemoveElement

StartHasWorker(r) ==
  phase'[r] = "performing" /\ phase[r] # "performing"
    => Cardinality(inFlight') - Cardinality(backingOff') <= workers'

LEMMA StartsStep ==
  ASSUME PoolInv, [Next]_vars, NEW r \in Runs
  PROVE  StartHasWorker(r)
<1>p. /\ QueueAgrees /\ FlightAgrees /\ HostTypes /\ inFlight \subseteq Runs
      /\ backingOff \subseteq Runs /\ workers \in Nat
  BY PoolInvParts, ExecutorAssumption DEF FlightAgrees, HostTypes
<1>1. ASSUME NEW i \in DOMAIN pending, PumpStart(i)
      PROVE  Cardinality(inFlight') - Cardinality(backingOff') <= workers'
  <2> DEFINE q == pending[i].run
  <2>1. q \in Runs /\ q \notin inFlight
    BY <1>p, EntryFacts DEF QueueAgrees
  <2>2. inFlight' = inFlight \cup {q} /\ backingOff' = backingOff /\ workers' = workers
    BY <1>1 DEF PumpStart, hostVars
  <2> HIDE DEF q
  <2>3. Cardinality(inFlight) - Cardinality(backingOff) < workers
    BY <1>1 DEF PumpStart, HasWorker, BusyWorkers
  <2>4. /\ Cardinality(inFlight') = Cardinality(inFlight) + 1
        /\ Cardinality(inFlight) \in Nat /\ Cardinality(backingOff) \in Nat
    BY <1>p, <2>1, <2>2, OneMoreBusy
  <2> QED BY <1>p, <2>2, <2>3, <2>4
<1>2. ASSUME NEW q \in Runs, PumpRetry(q)
      PROVE  Cardinality(inFlight') - Cardinality(backingOff') <= workers'
  <2>1. q \in backingOff
    <3>1. retryReady # <<>> /\ q = Head(retryReady).run
      BY <1>2 DEF PumpRetry
    <3> QED BY <1>p, <3>1, HeadIsReady DEF FlightAgrees
  <2>2. inFlight' = inFlight /\ backingOff' = backingOff \ {q} /\ workers' = workers
    BY <1>2 DEF PumpRetry, hostVars
  <2>3. Cardinality(inFlight) - Cardinality(backingOff) < workers
    BY <1>2 DEF PumpRetry, HasWorker, BusyWorkers
  <2>4. /\ Cardinality(backingOff') = Cardinality(backingOff) - 1
        /\ Cardinality(inFlight) \in Nat /\ Cardinality(backingOff) \in Nat
    BY <1>p, <2>1, <2>2, OneMoreBusy
  <2> QED BY <1>p, <2>2, <2>3, <2>4
<1>3. \/ \E i \in DOMAIN pending : PumpStart(i)
      \/ \E q \in Runs : PumpRetry(q)
      \/ phase'[r] # "performing" \/ phase'[r] = phase[r]
  <2>1. CASE Pump
    BY <2>1 DEF Pump, PumpDone
  <2>2. CASE Adopt \/ Boot \/ Recover \/ Stop \/ GraceOver \/ Stopped \/ Crash
    BY <2>2 DEF Adopt, Boot, Recover, RecoverRunning, FailInterrupted, FailInterruptedFails,
                RecoverWaiting, RecoverQueued, Booted, UntouchedByBoot, Stop, GraceOver, Stopped,
                Crash, poolVars
  <2>3. CASE BeginReload \/ \E w \in WorkerCounts : EndReload(w)
    BY <2>3 DEF BeginReload, EndReload, poolVars
  <2>4. CASE \E q \in Runs : Settle(q)
    BY <1>p, <2>4 DEF Settle, Finish, Suspend, Retry, FailWhileStopping, AbortCancelled,
                AbortStopped, Leave, LeavePool, HostTypes
  <2>5. CASE \E q \in Runs : Unwind(q)
    BY <1>p, <2>5 DEF Unwind, Park, ParkCancelled, BackoffOver, BackoffCancelled, BackoffStopped,
                Leave, LeavePool, HostTypes
  <2>6. CASE \E q \in Runs : Dispatcher(q) \/ Cancel(q)
    BY <2>6 DEF Dispatcher, Queue, EndWait, Cancel, CancelIdle, CancelInFlight
  <2>7. CASE StoreFault
    BY <1>p, <2>7 DEF StoreFault, StartFails, RetryFails, SettleFails, Leave, LeavePool, HostTypes
  <2>8. CASE UNCHANGED vars
    BY <2>8 DEF vars, poolVars
  <2> QED BY <2>1, <2>2, <2>3, <2>4, <2>5, <2>6, <2>7, <2>8 DEF Next
<1> QED BY <1>1, <1>2, <1>3 DEF StartHasWorker

\* No attempt, first, resumed or retried, starts without a worker for it (executor.ts
\* pump, hasWorker and workerFor).
THEOREM StartsHaveTheirWorker == Spec => StartsHaveWorker
<1>1. PoolInv /\ [Next]_vars
        => [\A r \in Runs : phase'[r] = "performing" /\ phase[r] # "performing"
              => Cardinality(inFlight') - Cardinality(backingOff') <= workers']_vars
  BY StartsStep DEF StartHasWorker
<1> QED BY <1>1, PoolInit, PoolStep, PTL DEF Spec, StartsHaveWorker

-----------------------------------------------------------------------------
(***************************************************************************)
(* The attempts of a run that ended.                                       *)
(***************************************************************************)

\* A step either leaves the row and the attempts of a run that ended alone, or is the
\* one that ends it and closes them.
LEMMA EndedRowsStep ==
  ASSUME PoolInv, RowsInv, [Next]_vars, NEW r \in Runs, status'[r] \in Terminal
  PROVE  \/ status'[r] = status[r] /\ rows'[r] = rows[r]
         \/ rows'[r] = CloseOpen(rows[r], status'[r])
<1> DEFINE Ended == \/ status'[r] = status[r] /\ rows'[r] = rows[r]
                    \/ rows'[r] = CloseOpen(rows[r], status'[r])
<1>f. /\ pending \in Seq(Record) /\ rows = [q \in Runs |-> rows[q]]
      /\ status \in [Runs -> Active \cup Terminal \cup {"none"}]
      /\ \A q \in Runs : RunAgrees(q)
      /\ \A i \in DOMAIN pending : RecordAgrees(pending[i])
  BY DEF PoolInv, PoolTypes, RowsInv, RowTypes, RowTable, PendingAgrees
<1>w. ASSUME NEW q \in Runs
      PROVE  phase[q] # "idle" => status[q] \notin Terminal
  BY <1>f, PoolInvParts DEF RunAgrees, Terminal, HostTypes
<1>e. ASSUME NEW q \in Runs, NEW o, EndRun(q, o)
      PROVE  Ended
  BY <1>f, <1>e DEF EndRun
<1>s. ASSUME NEW q \in Runs, phase[q] # "idle", status'[q] = status[q],
             \A u \in Runs \ {q} : status'[u] = status[u] /\ rows'[u] = rows[u]
      PROVE  Ended
  BY <1>s, <1>w
<1>b. ASSUME NEW q \in Runs, NEW n, BeginAttempt(q, n)
      PROVE  Ended
  BY <1>f, <1>b DEF BeginAttempt, Terminal
<1>h. ASSUME NEW q \in Runs, NEW n, BeginHalf(q, n)
      PROVE  Ended
  BY <1>f, <1>h DEF BeginHalf, Terminal
<1>g. ASSUME NEW q \in Runs, phase[q] # "idle", SettleHalf(q)
      PROVE  Ended
  BY <1>f, <1>g, <1>s DEF SettleHalf, SetRow
<1>1. CASE Pump
  <2>1. ASSUME NEW i \in DOMAIN pending, PumpStart(i)
        PROVE  Ended
    BY <1>f, <2>1, <1>b, EntryFacts DEF PumpStart
  <2> QED BY <1>1, <2>1, <1>b DEF Pump, PumpDone, PumpRetry, storeVars
<1>2. CASE Adopt \/ Boot \/ Stop \/ GraceOver \/ Stopped \/ Crash \/ BeginReload
             \/ \E w \in WorkerCounts : EndReload(w)
  <2>1. CASE Halfway
    <3>1. \A q \in Runs : SettleHalf(q) => phase[q] # "idle"
      BY DEF SettleHalf
    <3> QED BY <1>g, <1>h, <2>1, <3>1, HalfwayFacts
  <2>2. CASE Crash /\ ~Halfway
    BY <2>2 DEF Crash, storeVars
  <2> QED BY <1>2, <2>1, <2>2 DEF Adopt, Boot, Stop, GraceOver, Stopped, BeginReload, EndReload,
                                 storeVars
<1>3. CASE Recover
  <2>1. ASSUME NEW q \in Runs, RecoverRunning(q)
        PROVE  Ended
    BY <1>f, <2>1 DEF RecoverRunning, Scanning, Terminal
  <2> QED BY <1>3, <2>1, <1>e DEF Recover, FailInterrupted, FailInterruptedFails, RecoverWaiting,
                                 RecoverQueued, Booted, storeVars
<1>4. ASSUME NEW q \in Runs, Settle(q)
      PROVE  Ended
  <2>1. phase[q] # "idle"
    BY <1>4 DEF Settle, Finish, Suspend, Retry, FailWhileStopping, AbortCancelled, AbortStopped,
                Performing
  <2>2. CASE Retry(q) \/ FailWhileStopping(q) \/ AbortStopped(q)
    BY <1>f, <1>s, <2>1, <2>2 DEF Retry, FailWhileStopping, AbortStopped, SetRow
  <2>3. ASSUME NEW o \in {"pending", "matched"}, Suspend(q, o)
        PROVE  Ended
    BY <1>f, <2>3 DEF Suspend, Terminal
  <2> QED BY <1>4, <1>e, <2>2, <2>3 DEF Settle, Finish, AbortCancelled
<1>5. ASSUME NEW q \in Runs, Unwind(q)
      PROVE  Ended
  <2>1. CASE Park(q)
    BY <1>f, <1>s, <2>1 DEF Park, SetRow
  <2> QED BY <1>5, <2>1, <1>e DEF Unwind, ParkCancelled, BackoffOver, BackoffCancelled,
                                 BackoffStopped, storeVars
<1>6. ASSUME NEW q \in Runs, Dispatcher(q)
      PROVE  Ended
  BY <1>f, <1>6 DEF Dispatcher, Queue, EndWait, Terminal
<1>7. ASSUME NEW q \in Runs, Cancel(q)
      PROVE  Ended
  BY <1>7, <1>e DEF Cancel, CancelIdle, CancelInFlight, storeVars
<1>8. CASE StoreFault
  <2>1. ASSUME NEW i \in DOMAIN pending, StartFails(i)
        PROVE  Ended
    <3>1. pending[i].run \in Runs
      BY <1>f, EntryFacts
    <3> QED BY <1>h, <2>1, <3>1 DEF StartFails, storeVars
  <2>2. ASSUME NEW q \in Runs, SettleFails(q)
        PROVE  Ended
    <3>1. phase[q] # "idle"
      BY <2>2, PoolInvParts DEF SettleFails, FlightAgrees
    <3> QED BY <1>g, <2>2, <3>1 DEF SettleFails, storeVars
  <2> QED BY <1>8, <1>h, <2>1, <2>2 DEF StoreFault, RetryFails, storeVars
<1>9. CASE UNCHANGED vars
  BY <1>9 DEF vars, storeVars
<1> QED BY <1>1, <1>2, <1>3, <1>4, <1>5, <1>6, <1>7, <1>8, <1>9 DEF Next

LEMMA NoOpenAttemptStep ==
  PoolInv /\ RowsInv /\ NoOpenAttemptAfterEnd /\ [Next]_vars => NoOpenAttemptAfterEnd'
<1> SUFFICES ASSUME PoolInv, RowsInv, NoOpenAttemptAfterEnd, [Next]_vars,
                    NEW r \in Runs, status'[r] \in Terminal, NEW n \in DOMAIN rows'[r]
             PROVE  rows'[r][n] \notin OpenRow
  BY DEF NoOpenAttemptAfterEnd
<1>1. CASE status'[r] = status[r] /\ rows'[r] = rows[r]
  BY <1>1 DEF NoOpenAttemptAfterEnd
<1>2. CASE rows'[r] = CloseOpen(rows[r], status'[r])
  BY <1>2 DEF CloseOpen, OpenRow, Terminal
<1> QED BY <1>1, <1>2, EndedRowsStep

\* The history of a run that ended shows no attempt still running or waiting (store
\* attempts.ts closeOpen, called by finish, finishCancelled and start).
THEOREM NoOpenAttemptRemains == Spec => []NoOpenAttemptAfterEnd
<1>1. Init => NoOpenAttemptAfterEnd
  BY DEF Init, NoOpenAttemptAfterEnd, Terminal
<1> QED BY <1>1, NoOpenAttemptStep, InvHolds, PTL DEF Spec
-----------------------------------------------------------------------------
(***************************************************************************)
(* Attempts that are spent, and attempts that are not.                     *)
(***************************************************************************)

\* How a step changes the row of a run, its attempts and the await its execute() stands at.
Kept(r) ==
  /\ status'[r] = status[r] /\ attempt'[r] = attempt[r] /\ rows'[r] = rows[r]
  /\ \/ phase'[r] \in {phase[r], "idle"}
     \/ phase[r] = "backoff" /\ phase'[r] = "ready"
Begun(r, n) ==
  /\ (n = attempt[r] /\ status[r] = "queued") \/ n = attempt[r] + 1
  /\ n \in 1 .. AttemptsOf(r) /\ status[r] \in {"queued", "running"}
  /\ status'[r] = "running" /\ attempt'[r] = n
  /\ rows'[r] = [rows[r] EXCEPT ![n] = "running"] /\ phase'[r] = "performing"
Over(r) ==
  /\ status'[r] \in Terminal /\ attempt'[r] = attempt[r]
  /\ rows'[r] = CloseOpen(rows[r], status'[r]) /\ phase'[r] = "idle"
FailedOnce(r) ==
  /\ phase[r] = "performing" /\ attempt[r] < AttemptsOf(r)
  /\ status'[r] = status[r] /\ attempt'[r] = attempt[r]
  /\ rows'[r] = [rows[r] EXCEPT ![attempt[r]] = "failed"] /\ phase'[r] \in {"backoff", "idle"}
GivenBack(r) ==
  /\ phase[r] = "performing" /\ attempt'[r] = attempt[r] - 1
  /\ status'[r] = status[r] /\ phase'[r] = "idle"
  /\ \/ rows'[r] = [rows[r] EXCEPT ![attempt[r]] = "interrupted"]
     \/ rows'[r] = rows[r]
Suspended(r) ==
  /\ phase[r] = "performing" /\ phase'[r] = "parking" /\ status'[r] \in {"waiting", "queued"}
  /\ attempt'[r] = attempt[r] /\ rows'[r] = rows[r]
Parked(r) ==
  /\ phase[r] = "parking" /\ phase'[r] = "idle"
  /\ status'[r] = status[r] /\ attempt'[r] = attempt[r]
  /\ rows'[r] = [rows[r] EXCEPT ![attempt[r]] = "waiting"]
QueuedAgain(r) ==
  /\ status[r] \in {"none", "waiting"} /\ status'[r] = "queued"
  /\ attempt'[r] = attempt[r] /\ rows'[r] = rows[r] /\ phase'[r] = phase[r]
Recovered(r) ==
  /\ status[r] = "running" /\ attempt[r] < AttemptsOf(r) /\ phase[r] = "idle"
  /\ status'[r] = status[r] /\ attempt'[r] = attempt[r] /\ phase'[r] = phase[r]
  /\ rows'[r] = CloseOpen(rows[r], "interrupted")
HalfStarted(r) ==
  /\ status[r] \in {"queued", "running"} /\ status'[r] = "running"
  /\ (attempt'[r] = attempt[r] /\ status[r] = "queued") \/ attempt'[r] = attempt[r] + 1
  /\ rows'[r] = rows[r] /\ phase'[r] = "idle"

Changed(r) ==
  \/ Kept(r) \/ Over(r) \/ FailedOnce(r) \/ GivenBack(r) \/ Suspended(r) \/ Parked(r)
  \/ QueuedAgain(r) \/ Recovered(r) \/ HalfStarted(r)
  \/ \E n \in Nat : Begun(r, n)

LEMMA RunChanges ==
  ASSUME PoolInv, RowsInv, [Next]_vars, NEW r \in Runs
  PROVE  Changed(r)
<1>p. /\ QueueAgrees /\ FlightAgrees /\ HostTypes /\ pending \in Seq(Record)
  BY PoolInvParts DEF QueueAgrees
<1>f. /\ rows = [q \in Runs |-> rows[q]]
      /\ status \in [Runs -> Active \cup Terminal \cup {"none"}]
      /\ attempt \in [Runs -> Nat]
      /\ phase \in [Runs -> {"idle", "performing", "parking", "backoff", "ready"}]
      /\ \A q \in Runs : RunAgrees(q)
      /\ \A q \in Runs : AttemptsOf(q) \in Nat \ {0}
  BY <1>p, ExecutorAssumption DEF RowsInv, RowTypes, RowTable, HostTypes, AttemptsOf
<1>e. ASSUME NEW q \in Runs, NEW o \in Terminal, EndRun(q, o), LeavePool(q)
      PROVE  Changed(r)
  BY <1>f, <1>e DEF EndRun, LeavePool, Changed, Kept, Over
<1>l. ASSUME NEW q \in Runs, LeavePool(q) PROVE phase' = [phase EXCEPT ![q] = "idle"]
  BY <1>l DEF LeavePool
<1>k. ASSUME UNCHANGED <<status, attempt, rows, phase>>
      PROVE  Changed(r)
  BY <1>k DEF Changed, Kept
<1>b. ASSUME NEW q \in Runs, NEW n \in Nat, BeginAttempt(q, n),
             phase' = [phase EXCEPT ![q] = "performing"], n \in 1 .. AttemptsOf(q),
             (n = attempt[q] /\ status[q] = "queued") \/ n = attempt[q] + 1,
             status[q] \in {"queued", "running"}
      PROVE  Changed(r)
  <2>1. CASE q = r
    <3>1. Begun(r, n)
      BY <1>f, <1>b, <2>1 DEF BeginAttempt, Begun
    <3> QED BY <3>1 DEF Changed
  <2>2. CASE q # r
    BY <1>f, <1>b, <2>2 DEF BeginAttempt, Changed, Kept
  <2> QED BY <2>1, <2>2
<1>a. ASSUME NEW rec, rec \in Record, status[rec.run] = rec.status
      PROVE  \/ AttemptFor(rec) = attempt[rec.run] /\ status[rec.run] = "queued"
             \/ AttemptFor(rec) = attempt[rec.run] + 1
  BY <1>a DEF AttemptFor, Resuming
<1>1. CASE Pump
  <2>1. ASSUME NEW i \in DOMAIN pending, PumpStart(i)
        PROVE  Changed(r)
    <3> PICK rec \in Record : rec = pending[i]
      BY <1>p, EntryFacts
    <3>1. /\ rec.run \in Runs /\ status[rec.run] = rec.status
          /\ status[rec.run] \in {"queued", "running"}
          /\ AttemptFor(rec) \in Nat /\ AttemptFor(rec) \in 1 .. AttemptsOf(rec.run)
      BY <1>f, AttemptForFacts
    <3>2. BeginAttempt(rec.run, AttemptFor(rec)) /\ phase' = [phase EXCEPT ![rec.run] = "performing"]
      BY <2>1 DEF PumpStart
    <3> QED BY <1>a, <1>b, <3>1, <3>2
  <2>2. ASSUME NEW q \in Runs, PumpRetry(q)
        PROVE  Changed(r)
    <3>1. phase[q] = "ready"
      BY <2>2, HeadIsReady DEF PumpRetry
    <3>2. /\ status[q] = "running" /\ attempt[q] < AttemptsOf(q) /\ attempt[q] \in Nat
          /\ AttemptsOf(q) \in Nat
      BY <1>f, <3>1 DEF RunAgrees
    <3>3. PICK n \in Nat : n = attempt[q] + 1
      BY <3>2
    <3>4. n \in 1 .. AttemptsOf(q)
      BY <3>2, <3>3
    <3>5. BeginAttempt(q, n) /\ phase' = [phase EXCEPT ![q] = "performing"]
      BY <2>2, <3>3 DEF PumpRetry
    <3> QED BY <1>b, <3>2, <3>3, <3>4, <3>5
  <2>3. CASE PumpDone
    BY <1>k, <2>3 DEF PumpDone, storeVars
  <2> QED BY <1>1, <2>1, <2>2, <2>3 DEF Pump
<1>2. CASE Adopt \/ Boot \/ Stop \/ GraceOver \/ Stopped \/ Crash \/ BeginReload
             \/ \E w \in WorkerCounts : EndReload(w)
  <2>1. CASE Crash
    <3>0. phase' = [q \in Runs |-> "idle"]
      BY <2>1 DEF Crash
    <3>1. CASE ~Halfway
      BY <2>1, <3>0, <3>1 DEF Crash, storeVars, Changed, Kept
    <3>2. ASSUME NEW q \in Runs, SettleHalf(q)
          PROVE  Changed(r)
      <4>1. /\ UNCHANGED status
            /\ \/ /\ phase[q] = "performing" /\ attempt' = [attempt EXCEPT ![q] = @ - 1]
                  /\ UNCHANGED rows
               \/ /\ phase[q] = "parking" /\ UNCHANGED attempt
                  /\ rows' = [rows EXCEPT ![q][attempt[q]] = "waiting"]
        BY <3>2 DEF SettleHalf, SetRow
      <4> QED BY <1>f, <3>0, <4>1 DEF Changed, Kept, GivenBack, Parked
    <3>3. ASSUME NEW q \in Runs, NEW n \in Nat, BeginHalf(q, n),
                 status[q] \in {"queued", "running"},
                 (n = attempt[q] /\ status[q] = "queued") \/ n = attempt[q] + 1
          PROVE  Changed(r)
      BY <1>f, <3>0, <3>3 DEF BeginHalf, Changed, Kept, HalfStarted
    <3> QED BY <3>1, <3>2, <3>3, HalfwayFacts
  <2> QED BY <1>2, <1>k, <2>1 DEF Adopt, Boot, Stop, GraceOver, Stopped, BeginReload, EndReload,
                                 storeVars, poolVars
<1>i. ASSUME mode = "booting", NEW q \in Runs, q \in scan, status[q] = "running" PROVE phase[q] = "idle"
  <2>1. known \cap scan = {}
    BY <1>i DEF RowsInv, ScanIsFresh
  <2> QED BY <1>i, <1>p, <1>f, <2>1 DEF QueueAgrees, FlightAgrees
<1>3. CASE Recover
  <2>1. ASSUME NEW q \in Runs, RecoverRunning(q)
        PROVE  Changed(r)
    <3>1. mode = "booting" /\ q \in scan /\ status[q] = "running" /\ attempt[q] < AttemptsOf(q)
          /\ rows' = [rows EXCEPT ![q] = CloseOpen(@, "interrupted")]
          /\ UNCHANGED <<status, attempt, phase>>
      BY <2>1 DEF RecoverRunning, Scanning, UntouchedByBoot
    <3> QED BY <1>f, <1>i, <3>1 DEF Changed, Kept, Recovered
  <2>2. ASSUME NEW q \in Runs, FailInterrupted(q)
        PROVE  Changed(r)
    <3>1. mode = "booting" /\ q \in scan /\ status[q] = "running" /\ EndRun(q, "failed")
          /\ UNCHANGED phase
      BY <2>2 DEF FailInterrupted, Scanning, UntouchedByBoot
    <3> QED BY <1>f, <1>i, <3>1 DEF EndRun, Changed, Kept, Over, Terminal
  <2> QED BY <1>3, <1>k, <2>1, <2>2 DEF Recover, FailInterruptedFails, RecoverWaiting, RecoverQueued,
                                       Booted, storeVars, UntouchedByBoot
<1>4. ASSUME NEW q \in Runs, Settle(q)
      PROVE  Changed(r)
  <2>1. phase[q] = "performing"
    BY <1>4 DEF Settle, Finish, Suspend, Retry, FailWhileStopping, AbortCancelled, AbortStopped,
                Performing
  <2>2. CASE Retry(q) \/ FailWhileStopping(q)
    <3>1. rows' = [rows EXCEPT ![q][attempt[q]] = "failed"] /\ attempt[q] < AttemptsOf(q)
          /\ UNCHANGED <<status, attempt>>
          /\ \/ phase' = [phase EXCEPT ![q] = "backoff"]
             \/ phase' = [phase EXCEPT ![q] = "idle"]
      BY <2>2 DEF Retry, FailWhileStopping, SetRow, Leave, LeavePool
    <3> QED BY <1>f, <2>1, <3>1 DEF Changed, Kept, FailedOnce
  <2>3. CASE AbortStopped(q)
    <3>1. rows' = [rows EXCEPT ![q][attempt[q]] = "interrupted"]
          /\ attempt' = [attempt EXCEPT ![q] = @ - 1]
          /\ UNCHANGED status /\ phase' = [phase EXCEPT ![q] = "idle"]
      BY <2>3 DEF AbortStopped, SetRow, Leave, LeavePool
    <3> QED BY <1>f, <2>1, <3>1 DEF Changed, Kept, GivenBack
  <2>4. ASSUME NEW o \in {"pending", "matched"}, Suspend(q, o)
        PROVE  Changed(r)
    BY <1>f, <2>1, <2>4 DEF Suspend, Changed, Kept, Suspended
  <2>5. ASSUME NEW o \in {"succeeded", "failed"}, Finish(q, o)
        PROVE  Changed(r)
    BY <1>e, <2>5 DEF Finish, Leave, Terminal
  <2>6. CASE AbortCancelled(q)
    BY <1>e, <2>6 DEF AbortCancelled, Leave, Terminal
  <2> QED BY <1>4, <2>2, <2>3, <2>4, <2>5, <2>6 DEF Settle
<1>5. ASSUME NEW q \in Runs, Unwind(q)
      PROVE  Changed(r)
  <2>1. CASE Park(q)
    <3>1. phase[q] = "parking" /\ rows' = [rows EXCEPT ![q][attempt[q]] = "waiting"]
          /\ UNCHANGED <<status, attempt>> /\ phase' = [phase EXCEPT ![q] = "idle"]
      BY <2>1 DEF Park, SetRow, LeavePool
    <3> QED BY <1>f, <3>1 DEF Changed, Kept, Parked
  <2>2. CASE ParkCancelled(q) \/ BackoffCancelled(q)
    BY <1>e, <2>2 DEF ParkCancelled, BackoffCancelled, Leave, Terminal
  <2>3. CASE BackoffOver(q)
    <3>1. phase[q] = "backoff" /\ phase' = [phase EXCEPT ![q] = "ready"]
          /\ UNCHANGED <<status, attempt, rows>>
      BY <2>3 DEF BackoffOver, storeVars
    <3> QED BY <1>f, <3>1 DEF Changed, Kept
  <2>4. CASE BackoffStopped(q)
    <3>1. phase' = [phase EXCEPT ![q] = "idle"] /\ UNCHANGED <<status, attempt, rows>>
      BY <2>4 DEF BackoffStopped, storeVars, Leave, LeavePool
    <3> QED BY <1>f, <3>1 DEF Changed, Kept
  <2> QED BY <1>5, <2>1, <2>2, <2>3, <2>4 DEF Unwind
<1>6. ASSUME NEW q \in Runs, Dispatcher(q)
      PROVE  Changed(r)
  <2>1. status[q] \in {"none", "waiting"} /\ status' = [status EXCEPT ![q] = "queued"]
        /\ UNCHANGED <<attempt, rows, phase>>
    BY <1>f, <1>6 DEF Dispatcher, Queue, EndWait, RunAgrees
  <2> QED BY <1>f, <2>1 DEF Changed, Kept, QueuedAgain
<1>7. ASSUME NEW q \in Runs, Cancel(q)
      PROVE  Changed(r)
  <2>1. CASE CancelIdle(q)
    <3>1. EndRun(q, "cancelled") /\ UNCHANGED phase /\ phase[q] = "idle"
      BY <1>p, <1>f, <2>1 DEF CancelIdle, FlightAgrees
    <3> QED BY <1>f, <3>1 DEF EndRun, Changed, Kept, Over, Terminal
  <2> QED BY <1>7, <1>k, <2>1 DEF Cancel, CancelInFlight, storeVars
<1>8. CASE StoreFault
  <2>1. ASSUME NEW i \in DOMAIN pending, StartFails(i)
        PROVE  Changed(r)
    <3> PICK rec \in Record : rec = pending[i]
      BY <1>p, EntryFacts
    <3>1. /\ rec.run \in Runs /\ status[rec.run] = rec.status
          /\ status[rec.run] \in {"queued", "running"}
      BY AttemptForFacts
    <3>2. phase[rec.run] = "idle"
      <4>1. rec.run \in Ids(pending)
        BY <1>p, EntryFacts
      <4> QED BY <1>p, <1>f, <3>1, <4>1 DEF QueueAgrees, FlightAgrees
    <3>3. \/ \/ AttemptFor(rec) = attempt[rec.run] /\ status[rec.run] = "queued"
             \/ AttemptFor(rec) = attempt[rec.run] + 1
      BY <1>a, <3>1
    <3>4. /\ UNCHANGED <<rows, phase>>
          /\ \/ UNCHANGED <<status, attempt>>
             \/ /\ status' = [status EXCEPT ![rec.run] = "running"]
                /\ attempt' = [attempt EXCEPT ![rec.run] = AttemptFor(rec)]
      BY <2>1 DEF StartFails, BeginHalf, storeVars
    <3> QED BY <1>f, <3>1, <3>2, <3>3, <3>4 DEF Changed, Kept, HalfStarted
  <2>2. ASSUME NEW q \in Runs, RetryFails(q)
        PROVE  Changed(r)
    <3>1. phase[q] = "ready"
      BY <2>2, HeadIsReady DEF RetryFails
    <3>2. status[q] = "running"
      BY <1>f, <3>1 DEF RunAgrees
    <3>s. status = [status EXCEPT ![q] = "running"]
      BY <1>f, <3>2
    <3>3. /\ UNCHANGED <<status, rows>> /\ phase' = [phase EXCEPT ![q] = "idle"]
          /\ attempt' = attempt \/ attempt' = [attempt EXCEPT ![q] = @ + 1]
      BY <2>2, <3>s DEF RetryFails, BeginHalf, LeavePool, storeVars
    <3> QED BY <1>f, <3>2, <3>3 DEF Changed, Kept, HalfStarted
  <2>3. ASSUME NEW q \in Runs, SettleFails(q)
        PROVE  Changed(r)
    <3>1. /\ UNCHANGED status /\ phase' = [phase EXCEPT ![q] = "idle"]
          /\ \/ UNCHANGED <<attempt, rows>>
             \/ /\ phase[q] = "performing" /\ attempt' = [attempt EXCEPT ![q] = @ - 1]
                /\ UNCHANGED rows
             \/ /\ phase[q] = "parking" /\ UNCHANGED attempt
                /\ rows' = [rows EXCEPT ![q][attempt[q]] = "waiting"]
      BY <2>3 DEF SettleFails, SettleHalf, Leave, LeavePool, SetRow, storeVars
    <3> QED BY <1>f, <3>1 DEF Changed, Kept, GivenBack, Parked
  <2> QED BY <1>8, <2>1, <2>2, <2>3 DEF StoreFault
<1>9. CASE UNCHANGED vars
  BY <1>9, <1>k DEF vars, storeVars, poolVars
<1> QED BY <1>1, <1>2, <1>3, <1>4, <1>5, <1>6, <1>7, <1>8, <1>9 DEF Next
\* What is true of a run's attempts between two attempts: the one that is made is the one
\* open, and one that failed lies behind, so that the next one is not made in its place.
AttemptsAgree(r) ==
  /\ phase[r] \in {"performing", "parking"} => rows[r][attempt[r]] = "running"
  /\ status[r] \notin Terminal =>
       \A n \in 1 .. AttemptsOf(r) : rows[r][n] = "failed" =>
         n <= attempt[r] /\ (status[r] # "running" => n < attempt[r])

SpentInv == \A r \in Runs : AttemptsAgree(r)

LEMMA AttemptsStep ==
  ASSUME PoolInv, RowsInv, NEW r \in Runs, AttemptsAgree(r), Changed(r)
  PROVE  /\ AttemptsAgree(r)'
         /\ \A n \in 1 .. AttemptsOf(r) : rows[r][n] = "failed" => rows'[r][n] = "failed"
<1>f. /\ rows[r] \in [1 .. AttemptsOf(r) -> RowStatus]
      /\ status[r] \in Active \cup Terminal \cup {"none"}
      /\ attempt[r] \in Nat /\ AttemptsOf(r) \in Nat \ {0}
      /\ phase[r] \in {"idle", "performing", "parking", "backoff", "ready"}
      /\ RunAgrees(r)
  BY PoolInvParts, ExecutorAssumption DEF RowsInv, RowTypes, RowTable, HostTypes, AttemptsOf
<1>p. phase[r] \in {"performing", "parking"} =>
        attempt[r] \in 1 .. AttemptsOf(r) /\ rows[r][attempt[r]] = "running"
  BY <1>f DEF RunAgrees, AttemptsAgree
<1>1. CASE Kept(r) \/ QueuedAgain(r)
  BY <1>1, <1>f DEF Kept, QueuedAgain, AttemptsAgree, Terminal, RunAgrees
<1>2. CASE Over(r)
  BY <1>2, <1>f DEF Over, AttemptsAgree, CloseOpen, OpenRow
<1>3. CASE FailedOnce(r)
  BY <1>3, <1>f, <1>p DEF FailedOnce, AttemptsAgree, RunAgrees
<1>4. CASE GivenBack(r)
  BY <1>4, <1>f, <1>p DEF GivenBack, AttemptsAgree, RunAgrees, Terminal
<1>5. CASE Suspended(r)
  BY <1>5, <1>f, <1>p DEF Suspended, AttemptsAgree, RunAgrees, Terminal
<1>6. CASE Parked(r)
  BY <1>6, <1>f, <1>p DEF Parked, AttemptsAgree, RunAgrees, Terminal
<1>7. CASE Recovered(r)
  BY <1>7, <1>f DEF Recovered, AttemptsAgree, CloseOpen, OpenRow, Terminal
<1>8. CASE HalfStarted(r)
  BY <1>8, <1>f DEF HalfStarted, AttemptsAgree, Terminal
<1>9. ASSUME NEW n \in Nat, Begun(r, n)
      PROVE  /\ AttemptsAgree(r)'
             /\ \A m \in 1 .. AttemptsOf(r) : rows[r][m] = "failed" => rows'[r][m] = "failed"
  <2>1. rows[r][n] # "failed"
    BY <1>9, <1>f DEF Begun, AttemptsAgree, Terminal
  <2>2. rows'[r][n] = "running" /\ \A m \in 1 .. AttemptsOf(r) : m # n => rows'[r][m] = rows[r][m]
    BY <1>9, <1>f DEF Begun
  <2> QED BY <1>9, <1>f, <2>1, <2>2 DEF Begun, AttemptsAgree, Terminal
<1> QED BY <1>1, <1>2, <1>3, <1>4, <1>5, <1>6, <1>7, <1>8, <1>9 DEF Changed

LEMMA SpentStep ==
  PoolInv /\ RowsInv /\ SpentInv /\ [Next]_vars
    => /\ SpentInv'
       /\ \A r \in Runs : \A n \in DOMAIN rows[r] :
            rows[r][n] = "failed" => rows'[r][n] = "failed"
<1> SUFFICES ASSUME PoolInv, RowsInv, SpentInv, [Next]_vars, NEW r \in Runs
             PROVE  /\ AttemptsAgree(r)'
                    /\ \A n \in DOMAIN rows[r] : rows[r][n] = "failed" => rows'[r][n] = "failed"
  BY DEF SpentInv
<1>1. DOMAIN rows[r] = 1 .. AttemptsOf(r)
  BY DEF RowsInv, RowTypes, RowTable
<1>2. AttemptsAgree(r) /\ Changed(r)
  BY RunChanges DEF SpentInv
<1> QED BY <1>1, <1>2, AttemptsStep

LEMMA SpentInit == Init => SpentInv
  BY DEF Init, SpentInv, AttemptsAgree

\* An attempt that failed stays failed: neither a stop that gives attempts back, nor a resume
\* of a parked one, nor a recovery makes it again (executor.ts execute).
THEOREM FailedAttemptsStaySpent == Spec => FailedAttemptIsSpent
<1>1. PoolInv /\ RowsInv /\ SpentInv /\ [Next]_vars
        => [\A r \in Runs : \A n \in DOMAIN rows[r] :
              rows[r][n] = "failed" => rows'[r][n] = "failed"]_vars
  BY SpentStep
<1>2. PoolInv /\ RowsInv /\ SpentInv /\ [Next]_vars => SpentInv'
  BY SpentStep
<1> QED BY <1>1, <1>2, SpentInit, InvHolds, PTL DEF Spec, FailedAttemptIsSpent

\* Who leaves the pool and is still running was abandoned by a stop, and has an attempt left.
LEMMA AbandonStep ==
  ASSUME PoolInv, RowsInv, [Next]_vars, NEW r \in inFlight, r \notin inFlight',
         mode' # "down", ~StoreFault, status'[r] = "running"
  PROVE  attempt'[r] < AttemptsOf(r)
<1>f. /\ r \in Runs /\ inFlight \subseteq Runs
      /\ status \in [Runs -> Active \cup Terminal \cup {"none"}]
      /\ attempt \in [Runs -> Nat] /\ AttemptsOf(r) \in Nat
      /\ RunAgrees(r)
  BY PoolInvParts, ExecutorAssumption DEF RowsInv, RowTypes, FlightAgrees, AttemptsOf
<1>e. ASSUME NEW q \in Runs, NEW o \in Terminal, EndRun(q, o), inFlight' = inFlight \ {q}
      PROVE  FALSE
  BY <1>f, <1>e DEF EndRun, Terminal
<1>u. inFlight' # inFlight
  OBVIOUS
<1>1. ~Pump
  BY DEF Pump, PumpDone, PumpStart, PumpRetry
<1>2. ~(Adopt \/ Boot \/ Recover \/ Stop \/ GraceOver \/ Stopped \/ Crash \/ BeginReload
          \/ \E w \in WorkerCounts : EndReload(w))
  BY <1>u DEF Adopt, Boot, Recover, RecoverRunning, FailInterrupted, FailInterruptedFails,
              RecoverWaiting, RecoverQueued, Booted, UntouchedByBoot, Stop, GraceOver,
              Stopped, Crash, BeginReload, EndReload, poolVars
<1>3. ASSUME NEW q \in Runs, Settle(q) PROVE attempt'[r] < AttemptsOf(r)
  <2>1. ~\E o \in {"succeeded", "failed"} : Finish(q, o)
    BY <1>e DEF Finish, Leave, LeavePool, Terminal
  <2>2. ~AbortCancelled(q)
    BY <1>e DEF AbortCancelled, Leave, LeavePool, Terminal
  <2>3. CASE FailWhileStopping(q)
    BY <1>f, <2>3 DEF FailWhileStopping, Leave, LeavePool
  <2>4. CASE AbortStopped(q)
    <3>1. q = r /\ attempt' = [attempt EXCEPT ![q] = @ - 1]
      BY <2>4 DEF AbortStopped, Leave, LeavePool
    <3> QED BY <1>f, <3>1 DEF RunAgrees
  <2> QED BY <1>3, <1>u, <2>1, <2>2, <2>3, <2>4 DEF Settle, Suspend, Retry
<1>4. ASSUME NEW q \in Runs, Unwind(q) PROVE attempt'[r] < AttemptsOf(r)
  <2>1. ~(ParkCancelled(q) \/ BackoffCancelled(q))
    BY <1>e DEF ParkCancelled, BackoffCancelled, Leave, LeavePool, Terminal
  <2>2. ~Park(q)
    BY <1>f DEF Park, LeavePool, RunAgrees
  <2>3. CASE BackoffStopped(q)
    BY <1>f, <2>3 DEF BackoffStopped, Leave, LeavePool, RunAgrees, storeVars
  <2> QED BY <1>4, <1>u, <2>1, <2>2, <2>3 DEF Unwind, BackoffOver
<1>5. ~\E q \in Runs : Dispatcher(q) \/ Cancel(q)
  BY <1>u DEF Dispatcher, Queue, EndWait, Cancel, CancelIdle, CancelInFlight
<1>6. ~UNCHANGED vars
  BY <1>u DEF vars, poolVars
<1> QED BY <1>1, <1>2, <1>3, <1>4, <1>5, <1>6 DEF Next

\* A stop gives back every attempt it cuts short, and abandons no run that failed its last
\* one: what leaves the pool still running has an attempt left for the next start (executor.ts
\* execute, the three places that log run.abandoned).
THEOREM StopsSpendNothing == Spec => StopSpendsNoAttempt
<1>1. PoolInv /\ RowsInv /\ [Next]_vars
        => [\A r \in inFlight \ inFlight' :
              mode' # "down" /\ ~StoreFault /\ status'[r] = "running"
                => attempt'[r] < AttemptsOf(r)]_vars
  BY AbandonStep
<1> QED BY <1>1, InvHolds, PTL DEF Spec, StopSpendsNoAttempt

-----------------------------------------------------------------------------
(***************************************************************************)
(* A cancel in flight.                                                     *)
(***************************************************************************)

\* Only a run in flight has been told why to stop.
ToldInFlight == \A r \in Runs : reason[r] # "none" => r \in inFlight

LEMMA ToldStep ==
  PoolInv /\ ToldInFlight /\ [Next]_vars => ToldInFlight'
<1> SUFFICES ASSUME PoolInv, ToldInFlight, [Next]_vars, NEW r \in Runs, reason'[r] # "none"
             PROVE  r \in inFlight'
  BY DEF ToldInFlight
<1>p. /\ reason \in [Runs -> {"none", "stopped", "cancelled"}]
      /\ backingOff \subseteq inFlight
  BY PoolInvParts DEF HostTypes, FlightAgrees
<1>l. ASSUME NEW q \in Runs, LeavePool(q) PROVE r \in inFlight'
  BY <1>l, <1>p DEF LeavePool, ToldInFlight
<1>k. ASSUME UNCHANGED reason, inFlight \subseteq inFlight' PROVE r \in inFlight'
  BY <1>k DEF ToldInFlight
<1>1. CASE Pump \/ Adopt \/ Boot \/ Recover \/ Stopped \/ BeginReload
             \/ \E w \in WorkerCounts : EndReload(w)
  BY <1>1, <1>k DEF Pump, PumpDone, PumpStart, PumpRetry, Adopt, Boot, Recover, RecoverRunning,
                    FailInterrupted, FailInterruptedFails, RecoverWaiting, RecoverQueued, Booted,
                    UntouchedByBoot, Stopped, BeginReload, EndReload, poolVars
<1>2. CASE Stop \/ GraceOver \/ Crash
  BY <1>2, <1>p DEF Stop, GraceOver, Crash, AbortAll, ToldInFlight
<1>3. ASSUME NEW q \in Runs, Settle(q) \/ Unwind(q) PROVE r \in inFlight'
  BY <1>3, <1>k, <1>l DEF Settle, Finish, Suspend, Retry, FailWhileStopping, AbortCancelled,
     AbortStopped, Unwind, Park, ParkCancelled, BackoffOver, BackoffCancelled, BackoffStopped, Leave
<1>4. ASSUME NEW q \in Runs, Dispatcher(q) \/ CancelIdle(q) PROVE r \in inFlight'
  BY <1>4, <1>k DEF Dispatcher, Queue, EndWait, CancelIdle
<1>5. ASSUME NEW q \in Runs, CancelInFlight(q) PROVE r \in inFlight'
  BY <1>5, <1>p DEF CancelInFlight, ToldInFlight
<1>6. CASE StoreFault
  BY <1>6, <1>k, <1>l DEF StoreFault, StartFails, RetryFails, SettleFails, Leave
<1>7. CASE UNCHANGED vars
  BY <1>7, <1>k DEF vars, poolVars
<1> QED BY <1>1, <1>2, <1>3, <1>4, <1>5, <1>6, <1>7 DEF Next, Cancel

\* What becomes of a run that was cancelled in flight.
CancelTaken(r) ==
  /\ r \notin inFlight' => status'[r] \in Terminal
  /\ phase[r] # "performing" => phase'[r] # "performing"
CancelGoesOn(r) == reason[r] = "cancelled" /\ mode' # "down" /\ ~StoreFault => CancelTaken(r)

LEMMA CancelStep ==
  ASSUME PoolInv, RowsInv, ToldInFlight, [Next]_vars, NEW r \in Runs
  PROVE  CancelGoesOn(r)
<1> SUFFICES ASSUME reason[r] = "cancelled", mode' # "down", ~StoreFault
             PROVE  CancelTaken(r)
  BY DEF CancelGoesOn
<1>p. /\ QueueAgrees /\ FlightAgrees /\ RetryAgrees
      /\ phase \in [Runs -> {"idle", "performing", "parking", "backoff", "ready"}]
      /\ status \in [Runs -> Active \cup Terminal \cup {"none"}]
      /\ r \in inFlight /\ r \notin Ids(pending)
  BY PoolInvParts DEF HostTypes, RowsInv, RowTypes, ToldInFlight, QueueAgrees
<1>k. ASSUME inFlight \subseteq inFlight', phase'[r] = phase[r] PROVE CancelTaken(r)
  BY <1>k, <1>p DEF CancelTaken
<1>o. ASSUME NEW q \in Runs, q # r, LeavePool(q) PROVE CancelTaken(r)
  BY <1>o, <1>p DEF LeavePool, CancelTaken
<1>e. ASSUME NEW q \in Runs, NEW o \in Terminal, EndRun(q, o), LeavePool(q) PROVE CancelTaken(r)
  BY <1>e, <1>o, <1>p DEF EndRun, LeavePool, CancelTaken
<1>u. ASSUME UNCHANGED <<inFlight, phase>> PROVE CancelTaken(r)
  BY <1>k, <1>u
<1>1. CASE Pump
  <2>1. ASSUME NEW i \in DOMAIN pending, PumpStart(i) PROVE CancelTaken(r)
    <3>1. pending[i].run \in Runs /\ pending[i].run # r
      BY <1>p, EntryFacts DEF QueueAgrees
    <3>2. inFlight \subseteq inFlight' /\ phase' = [phase EXCEPT ![pending[i].run] = "performing"]
      BY <2>1 DEF PumpStart
    <3> QED BY <1>k, <1>p, <3>1, <3>2
  <2>2. ASSUME NEW q \in Runs, PumpRetry(q) PROVE CancelTaken(r)
    <3>1. reason[q] = "none"
      BY <2>2, HeadIsReady DEF PumpRetry
    <3>2. q # r /\ inFlight' = inFlight /\ phase' = [phase EXCEPT ![q] = "performing"]
      BY <2>2, <3>1 DEF PumpRetry
    <3> QED BY <1>k, <1>p, <3>2
  <2> QED BY <1>1, <1>u, <2>1, <2>2 DEF Pump, PumpDone
<1>2. CASE Adopt \/ Boot \/ Recover \/ Stop \/ GraceOver \/ Stopped \/ Crash \/ BeginReload
             \/ \E w \in WorkerCounts : EndReload(w)
  BY <1>2, <1>u DEF Adopt, Boot, Recover, RecoverRunning, FailInterrupted, FailInterruptedFails,
                    RecoverWaiting, RecoverQueued, Booted, UntouchedByBoot, Stop, GraceOver,
                    Stopped, Crash, BeginReload, EndReload, poolVars
<1>3. ASSUME NEW q \in Runs, Settle(q) PROVE CancelTaken(r)
  <2>1. ASSUME NEW o \in {"succeeded", "failed"}, Finish(q, o) PROVE CancelTaken(r)
    BY <1>e, <2>1 DEF Finish, Leave, Terminal
  <2>2. CASE AbortCancelled(q)
    BY <1>e, <2>2 DEF AbortCancelled, Leave, Terminal
  <2>3. ASSUME NEW o \in {"pending", "matched"}, Suspend(q, o) PROVE CancelTaken(r)
    <3>1. inFlight' = inFlight /\ phase' = [phase EXCEPT ![q] = "parking"]
      BY <2>3 DEF Suspend
    <3> QED BY <1>p, <3>1 DEF CancelTaken
  <2>4. CASE Retry(q)
    <3>1. q # r /\ inFlight' = inFlight /\ phase' = [phase EXCEPT ![q] = "backoff"]
      BY <2>4 DEF Retry
    <3> QED BY <1>k, <1>p, <3>1
  <2>5. CASE FailWhileStopping(q) \/ AbortStopped(q)
    BY <1>o, <2>5 DEF FailWhileStopping, AbortStopped, Leave
  <2> QED BY <1>3, <2>1, <2>2, <2>3, <2>4, <2>5 DEF Settle
<1>4. ASSUME NEW q \in Runs, Unwind(q) PROVE CancelTaken(r)
  <2>1. CASE Park(q) \/ BackoffStopped(q)
    BY <1>o, <2>1 DEF Park, BackoffStopped, Leave
  <2>2. CASE ParkCancelled(q) \/ BackoffCancelled(q)
    BY <1>e, <2>2 DEF ParkCancelled, BackoffCancelled, Leave, Terminal
  <2>3. CASE BackoffOver(q)
    <3>1. q # r /\ inFlight' = inFlight /\ phase' = [phase EXCEPT ![q] = "ready"]
      BY <2>3 DEF BackoffOver
    <3> QED BY <1>k, <1>p, <3>1
  <2> QED BY <1>4, <2>1, <2>2, <2>3 DEF Unwind
<1>5. ASSUME NEW q \in Runs, Dispatcher(q) \/ Cancel(q) PROVE CancelTaken(r)
  BY <1>5, <1>u DEF Dispatcher, Queue, EndWait, Cancel, CancelIdle, CancelInFlight
<1>6. CASE UNCHANGED vars
  BY <1>6, <1>u DEF vars, poolVars
<1> QED BY <1>1, <1>2, <1>3, <1>4, <1>5, <1>6 DEF Next

\* A run cancelled in flight leaves the pool only into a terminal status and starts no further
\* attempt, whatever await it stood at: a backoff, the wait for a worker, a suspend or a runner
\* that returns in spite of the abort (executor.ts cancel and execute).
THEOREM CancelsEndRuns == Spec => CancelEndsRun
<1>1. PoolInv /\ RowsInv /\ ToldInFlight /\ [Next]_vars
        => [\A r \in Runs : reason[r] = "cancelled" /\ mode' # "down" /\ ~StoreFault =>
              /\ r \notin inFlight' => status'[r] \in Terminal
              /\ phase[r] # "performing" => phase'[r] # "performing"]_vars
  BY CancelStep DEF CancelGoesOn, CancelTaken
<1>2. Init => ToldInFlight
  BY DEF Init, ToldInFlight
<1> QED BY <1>1, <1>2, ToldStep, InvHolds, PTL DEF Spec, CancelEndsRun
=============================================================================
