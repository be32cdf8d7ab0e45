-------------------------- MODULE DispatcherProofs --------------------------
(***************************************************************************)
(* Theorems about Dispatcher, for every set of tasks, triggers, limits and *)
(* batch size, whatever fails.  They are layered:                          *)
(*                                                                         *)
(*   1. lemmas about numbers, finite sets and the index of waits;          *)
(*   2. StoreInv: what holds of the store by itself, stated of a log, a    *)
(*      position in it, statuses and waits, so that it can be said of the  *)
(*      store as it is and as a rollback would leave it; one lemma per way *)
(*      to write to the store;                                             *)
(*   3. BatchInv: what the batch in flight, the index and the memory of    *)
(*      reported chains say of the store, and that every step keeps both;  *)
(*   4. WakeInv: what keeps a drain scheduled;                             *)
(*   5. the properties of Dispatcher that follow.                          *)
(***************************************************************************)
EXTENDS Dispatcher, FiniteSetTheorems, SequenceTheorems, TLAPS

-----------------------------------------------------------------------------
(***************************************************************************)
(* The invariants.  A store is its log l, the last event d dispatched from *)
(* it, the statuses st and the waits w; "now" is the clock.                *)
(***************************************************************************)

\* Events are stored in the order of their time, and a chain's root first.
LogInv(l, now) ==
  /\ l \in Seq(Event) /\ Len(l) <= 2 * MaxEvents
  /\ \A s \in DOMAIN l : l[s].root <= s /\ l[s].ts <= now
  /\ \A s, u \in DOMAIN l : s <= u => l[s].ts <= l[u].ts

\* Runs are of events already dispatched, and wait while their wait is armed.
RowsInv(l, d, st, w) ==
  /\ d \in 0 .. Len(l)
  /\ st \in [Runs -> RunStatus] /\ w \in [Runs -> WaitRow]
  /\ \A r \in Runs : /\ st[r] # "none" => r[2] <= d
                     /\ w[r].outcome = "pending" <=> st[r] = "waiting"

\* The wait v of run r: an armed one has overlooked no reply; a reply ends one wait; how one
\* with a deadline ended is settled by when events were stored.
WaitInv(l, d, r, v, now) ==
  /\ v.event <= d /\ v.consumed \subseteq 1 .. d
  /\ v.event # 0 => v.event \notin v.consumed
  /\ v.outcome = "pending" =>
       \A s \in r[2] + 1 .. d : l[s].type = v.type => s \in v.consumed
  /\ v.outcome = "timeout" =>
       /\ v.expires <= now
       /\ \A s \in r[2] + 1 .. Len(l) :
            l[s].type = v.type /\ s \notin v.consumed => v.expires <= l[s].ts
  /\ v.outcome = "matched" =>
       v.event # 0 /\ (v.expires # 0 => l[v.event].ts < v.expires)

\* Active runs of a task with overlap: skip that ticks started.
OverlapInv(l, st) ==
  \A t \in OverlapSkip : \A s, u \in DOMAIN l :
    /\ st[<<t, s>>] \in Active /\ l[s].type = "cron.tick"
    /\ st[<<t, u>>] \in Active /\ l[u].type = "cron.tick"
    => s = u

RunsOf(l, st, chain) == {r \in Runs : st[r] # "none" /\ r[2] \in DOMAIN l /\ l[r[2]].root = chain}

ChainsInv(l, st) == \A c \in Nat : Cardinality(RunsOf(l, st, c)) <= MaxChainRuns

\* loop.detected is in the log for the chain.
Told(l, chain) == \E u \in DOMAIN l : l[u].type = "loop.detected" /\ l[u].about = chain

DropsInv(l, d) ==
  /\ \A s \in 1 .. d : l[s].depth > MaxDepth => Told(l, l[s].root)
  /\ \A s, u \in DOMAIN l :
       /\ l[s].type = "loop.detected" /\ l[s].about # 0
       /\ l[u].type = "loop.detected" /\ l[u].about = l[s].about
       => s = u

StoreInv(l, d, st, w, now) ==
  /\ LogInv(l, now) /\ RowsInv(l, d, st, w)
  /\ \A r \in Runs : WaitInv(l, d, r, w[r], now)
  /\ OverlapInv(l, st) /\ ChainsInv(l, st) /\ DropsInv(l, d)

\* The waits of the index that this batch has not ended.
Open == {w \in index : w.run \notin batch.ended}

\* The types of what the store does not hold.
MemoryInv ==
  /\ paused \subseteq Tasks /\ clock \in 0 .. MaxTime
  /\ \A w \in index : w.run \in Runs
  /\ fresh \in BOOLEAN /\ wakePending \in BOOLEAN /\ healthy \in BOOLEAN /\ draining \in BOOLEAN
  /\ reported \subseteq Seqs /\ batchReported \subseteq Seqs
  /\ mode \in {"down", "booting", "up", "stopping"}
  /\ batch \in [at : Nat, last : Nat, by : {"none", "step", "drain"}, ended : SUBSET Runs]

\* The batch in flight goes over events that were there when it began; what it wrote since
\* then is newer, and what it would leave behind if rolled back is sound.
InFlightInv ==
  /\ cursor < batch.at /\ batch.at <= batch.last + 1
  /\ batch.last <= cursor + BatchSize
  /\ batch.last <= Len(saved.log) /\ Len(saved.log) <= Len(log)
  /\ batch.last < cursor + BatchSize => batch.last = Len(saved.log)
  /\ \A s \in 1 .. Len(saved.log) : log[s] = saved.log[s]
  /\ \A s \in Len(saved.log) + 1 .. Len(log) : log[s].ts = clock
  /\ saved.cursor = cursor
  /\ StoreInv(saved.log, saved.cursor, saved.status, saved.wait, clock)
  /\ Open = PendingWaits
  /\ \A c \in reported : Told(saved.log, c)
  /\ \A c \in batchReported : Told(log, c)

BatchInv ==
  /\ IF InBatch THEN InFlightInv ELSE batch = NoBatch /\ \A c \in reported : Told(log, c)
  /\ fresh => index = PendingWaits

IndInv == MemoryInv /\ StoreInv(log, Dispatched, status, wait, clock) /\ BatchInv

\* A batch or a drain that runs knows who runs it, and what it leaves over stays scheduled.
WakeInv ==
  /\ InBatch => (batch.by = "drain" <=> draining)
  /\ InBatch /\ batch.by = "step" => mode = "up"
  /\ draining => mode \in {"booting", "up"}
  /\ draining /\ mode = "up" => wakePending
  /\ InBatch /\ Len(saved.log) < Len(log) => wakePending
  /\ NoLostWake

-----------------------------------------------------------------------------
(***************************************************************************)
(* 1. Numbers, finite sets, logs and the index.                            *)
(***************************************************************************)

\* Numbers are well ordered.
LEMMA LeastNatural ==
  ASSUME NEW S \in SUBSET Nat, S # {}
  PROVE  \E m \in S : \A n \in S : m <= n
<1> DEFINE R == OpToRel(<, Nat)
<1>1. IsWellFoundedOn(R, Nat)
  BY NatLessThanWellFounded
<1>2. \A m, n \in S : <<n, m>> \in R <=> n < m
  BY DEF OpToRel
<1> HIDE DEF R
<1>3. PICK m \in S : \A n \in S : ~(<<n, m>> \in R)
  BY <1>1, WFMin
<1>4. \A n \in S : ~(n < m) /\ m \in Nat /\ n \in Nat
  BY <1>2, <1>3
<1>5. \A n \in S : m <= n
  BY <1>4
<1> QED BY <1>5

LEMMA MinFacts ==
  ASSUME NEW S \in SUBSET Nat, S # {}
  PROVE  Min(S) \in S /\ \A n \in S : Min(S) <= n
BY LeastNatural DEF Min

\* A set loses elements when it loses its greater part.
LEMMA SubsetIsSmaller ==
  ASSUME NEW S, IsFiniteSet(S), NEW T \in SUBSET S
  PROVE  /\ IsFiniteSet(T) /\ Cardinality(T) \in Nat /\ Cardinality(S) \in Nat
         /\ Cardinality(T) <= Cardinality(S)
         /\ Cardinality(T) = Cardinality(S) => T = S
BY FS_Subset, FS_CardinalityType

\* Tasks that each find room behind n runs and the tasks before them all fit together.
LEMMA StartsFit ==
  ASSUME NEW S \in SUBSET Nat, IsFiniteSet(S), NEW n \in Nat, NEW max \in Nat, n <= max,
         NEW T, T = {t \in S : n + Cardinality(Earlier(S, t)) < max}
  PROVE  n + Cardinality(T) <= max
<1>0. /\ IsFiniteSet(T) /\ Cardinality(T) \in Nat /\ Cardinality(S) \in Nat
      /\ \A t \in S : /\ IsFiniteSet(Earlier(S, t)) /\ Cardinality(Earlier(S, t)) \in Nat
                      /\ Cardinality(Earlier(S, t)) <= Cardinality(S)
  BY SubsetIsSmaller DEF Earlier
<1>1. CASE T = {}
  <2>1. Cardinality(T) = 0
    BY <1>1, FS_EmptySet
  <2> QED BY <2>1
<1>2. CASE T # {}
  <2> DEFINE D == {Cardinality(S) - Cardinality(Earlier(S, t)) : t \in T}
  <2>1. D \in SUBSET Nat /\ D # {}
    <3>1. \A t \in T : Cardinality(S) - Cardinality(Earlier(S, t)) \in Nat
      BY <1>0
    <3> QED BY <1>2, <3>1
  <2>2. PICK last \in T :
          \A t \in T : Cardinality(Earlier(S, t)) <= Cardinality(Earlier(S, last))
    <3>1. PICK m \in D : \A k \in D : m <= k
      BY <2>1, LeastNatural
    <3>2. PICK last \in T : m = Cardinality(S) - Cardinality(Earlier(S, last))
      BY <3>1
    <3>3. ASSUME NEW t \in T
          PROVE  Cardinality(Earlier(S, t)) <= Cardinality(Earlier(S, last))
      <4>1. m <= Cardinality(S) - Cardinality(Earlier(S, t))
        BY <3>1
      <4> HIDE DEF D
      <4> QED BY <1>0, <3>2, <4>1
    <3> QED BY <3>3
  <2>3. /\ last \in S /\ T \subseteq S
        /\ \A t \in S : t \in Nat
    OBVIOUS
  <2>4. \A t \in T : t <= last
    <3> SUFFICES ASSUME NEW t \in T, last < t PROVE FALSE
      BY <2>3
    <3>1. \A u \in S : u < last => u < t
      BY <2>3
    <3>2. last \in Earlier(S, t) /\ last \notin Earlier(S, last)
      BY <2>3 DEF Earlier
    <3>3. Earlier(S, last) \in SUBSET Earlier(S, t)
      BY <3>1 DEF Earlier
    <3>4. Cardinality(Earlier(S, last)) = Cardinality(Earlier(S, t))
      BY <1>0, <2>2, <2>3, <3>3, SubsetIsSmaller
    <3> QED BY <1>0, <2>3, <3>2, <3>3, <3>4, SubsetIsSmaller
  <2>5. T \subseteq Earlier(S, last) \cup {last} /\ last \notin Earlier(S, last)
    <3>1. \A t \in T : t = last \/ t < last
      BY <2>3, <2>4
    <3>2. \A t \in T : t \in S /\ (t = last \/ t < last)
      BY <2>3, <3>1
    <3>3. T \subseteq Earlier(S, last) \cup {last}
      BY <3>2 DEF Earlier
    <3>4. ~(last < last)
      BY <2>3
    <3> QED BY <3>3, <3>4 DEF Earlier
  <2>6. /\ IsFiniteSet(Earlier(S, last) \cup {last})
        /\ Cardinality(Earlier(S, last) \cup {last}) = Cardinality(Earlier(S, last)) + 1
    BY <1>0, <2>3, <2>5, FS_AddElement
  <2>7. Cardinality(T) <= Cardinality(Earlier(S, last)) + 1
    BY <2>5, <2>6, SubsetIsSmaller
  <2> QED BY <1>0, <2>3, <2>7
<1> QED BY <1>1, <1>2

LEMMA RunsAreFinite == IsFiniteSet(Runs)
<1>1. 2 * MaxEvents \in Int /\ IsFiniteSet(Tasks)
  BY DispatcherAssumption
<1>2. IsFiniteSet(Seqs)
  BY <1>1, FS_Interval DEF Seqs
<1> QED BY <1>1, <1>2, FS_Product DEF Runs

\* What an event appended to a log leaves as it was.
LEMMA Appended ==
  ASSUME NEW l \in Seq(Event), NEW e \in Event
  PROVE  /\ Append(l, e) \in Seq(Event) /\ Len(l) \in Nat
         /\ Len(Append(l, e)) = Len(l) + 1
         /\ DOMAIN l = 1 .. Len(l) /\ DOMAIN Append(l, e) = 1 .. Len(l) + 1
         /\ \A s \in 1 .. Len(l) : Append(l, e)[s] = l[s]
         /\ Append(l, e)[Len(l) + 1] = e
BY AppendProperties, LenProperties

-----------------------------------------------------------------------------
(***************************************************************************)
(* 2. The store.                                                           *)
(***************************************************************************)

\* The shape of runs, events and waits, for the provers.
LEMMA Shapes ==
  /\ \A r \in Runs : r[1] \in Tasks /\ r[2] \in Seqs /\ r[2] \in Nat /\ r[2] >= 1 /\ r = <<r[1], r[2]>>
  /\ \A e \in Event : /\ e.ts \in Nat /\ e.about \in Nat /\ e.depth \in Nat
                      /\ e.root \in Nat /\ e.root \in Seqs
  /\ \A v \in WaitRow : /\ v.expires \in Nat /\ v.event \in Nat /\ v.consumed \subseteq Seqs
                        /\ v.outcome \in {"none", "pending", "matched", "timeout"}
  /\ Seqs \subseteq Nat /\ 2 * MaxEvents \in Nat /\ NoWait \in WaitRow
BY DispatcherAssumption DEF Runs, Seqs, Event, WaitRow, NoWait

\* An event stored now changes nothing about a wait.
LEMMA WaitAppend ==
  ASSUME NEW now \in Nat, NEW l, LogInv(l, now), NEW d \in 0 .. Len(l), NEW r \in Runs,
         NEW v \in WaitRow, WaitInv(l, d, r, v, now), NEW e \in Event, e.ts = now
  PROVE  WaitInv(Append(l, e), d, r, v, now)
<1> DEFINE m == Append(l, e)
<1>1. /\ l \in Seq(Event) /\ Len(l) \in Nat /\ Len(m) = Len(l) + 1
      /\ \A s \in 1 .. Len(l) : m[s] = l[s]
      /\ m[Len(l) + 1] = e
  BY Appended DEF LogInv
<1> HIDE DEF m
<1>2. \A s \in r[2] + 1 .. d : s \in 1 .. Len(l)
  BY <1>1, Shapes
<1>3. \A s \in r[2] + 1 .. Len(m) :
        (s \in r[2] + 1 .. Len(l) /\ s \in 1 .. Len(l)) \/ s = Len(l) + 1
  BY <1>1, Shapes
<1>4. v.outcome = "matched" => m[v.event] = l[v.event]
  <2>1. v.outcome = "matched" => v.event \in 1 .. Len(l)
    BY <1>1, Shapes DEF WaitInv
  <2> QED BY <1>1, <2>1
<1>5. ASSUME v.outcome = "timeout", NEW s \in r[2] + 1 .. Len(m),
             m[s].type = v.type, s \notin v.consumed
      PROVE  v.expires <= m[s].ts
  BY <1>1, <1>3, <1>5 DEF WaitInv
<1>6. v.outcome = "pending" =>
        \A s \in r[2] + 1 .. d : m[s].type = v.type => s \in v.consumed
  BY <1>1, <1>2 DEF WaitInv
<1> QED BY <1>4, <1>5, <1>6 DEF WaitInv, m

\* Only runs of dispatched events count for a chain, so that a longer log has the same.
LEMMA SameRunsOf ==
  ASSUME NEW l, NEW d, NEW st, NEW w, RowsInv(l, d, st, w), NEW m, Len(l) \in Nat,
         DOMAIN l = 1 .. Len(l), 1 .. Len(l) \subseteq DOMAIN m,
         \A s \in 1 .. Len(l) : m[s] = l[s], NEW c
  PROVE  RunsOf(m, st, c) = RunsOf(l, st, c)
<1>1. \A r \in Runs : st[r] # "none" => r[2] \in 1 .. Len(l)
  BY Shapes DEF RowsInv
<1> QED BY <1>1 DEF RunsOf

\* publishEvent() keeps the store sound, when loop.detected is new for its chain.
LEMMA AppendKeeps ==
  ASSUME NEW now \in Nat, NEW l, NEW d, NEW st, NEW w, StoreInv(l, d, st, w, now),
         NEW e \in Event, e.ts = now, e.root <= Len(l) + 1, Len(l) + 1 <= 2 * MaxEvents,
         e.type = "loop.detected" /\ e.about # 0 => ~Told(l, e.about)
  PROVE  StoreInv(Append(l, e), d, st, w, now)
<1> DEFINE m == Append(l, e)
           n == Len(l) + 1
<1>1. /\ l \in Seq(Event) /\ Len(l) \in Nat /\ m \in Seq(Event) /\ Len(m) = n
      /\ DOMAIN l = 1 .. Len(l) /\ DOMAIN m = 1 .. n
      /\ \A s \in 1 .. Len(l) : m[s] = l[s] /\ l[s] \in Event
      /\ m[n] = e
  BY Appended, ElementOfSeq DEF StoreInv, LogInv
<1>2. \A r \in Runs : WaitInv(m, d, r, w[r], now)
  BY WaitAppend DEF StoreInv, RowsInv
<1> HIDE DEF m
<1>3. \A s \in DOMAIN m : s \in 1 .. Len(l) \/ s = n
  BY <1>1
<1>4. LogInv(m, now)
  <2>1. \A s \in DOMAIN m : m[s].root <= s /\ m[s].ts <= now
    BY <1>1, <1>3, Shapes DEF StoreInv, LogInv
  <2>2. \A s, u \in DOMAIN m : s <= u => m[s].ts <= m[u].ts
    BY <1>1, <1>3, <2>1, Shapes DEF StoreInv, LogInv
  <2> QED BY <1>1, <2>1, <2>2 DEF LogInv
<1>5. RowsInv(m, d, st, w)
  BY <1>1 DEF StoreInv, RowsInv
<1>6. OverlapInv(m, st)
  <2>1. \A t \in OverlapSkip, s \in DOMAIN m : st[<<t, s>>] \in Active => s \in 1 .. Len(l)
    <3>1. ASSUME NEW t \in OverlapSkip, NEW s \in DOMAIN m, st[<<t, s>>] \in Active
          PROVE  s \in 1 .. Len(l)
      <4>1. <<t, s>> \in Runs
        BY <1>1, DispatcherAssumption DEF Runs, Seqs
      <4>2. st[<<t, s>>] # "none"
        BY <3>1 DEF Active
      <4>3. s <= d
        BY <4>1, <4>2 DEF StoreInv, RowsInv
      <4> QED BY <1>1, <4>3 DEF StoreInv, RowsInv
    <3> QED BY <3>1
  <2> QED BY <1>1, <2>1 DEF StoreInv, OverlapInv
<1>7. ChainsInv(m, st)
  <2>1. \A c \in Nat : RunsOf(m, st, c) = RunsOf(l, st, c)
    BY <1>1, SameRunsOf DEF StoreInv
  <2> QED BY <2>1 DEF StoreInv, ChainsInv
<1>8. DropsInv(m, d)
  <2>1. \A c : Told(l, c) => Told(m, c)
    BY <1>1 DEF Told
  <2>2. \A s \in 1 .. d : m[s].depth > MaxDepth => Told(m, m[s].root)
    BY <1>1, <2>1 DEF StoreInv, RowsInv, DropsInv
  <2>3. \A s \in 1 .. Len(l) : l[s].type = "loop.detected" => Told(l, l[s].about)
    BY <1>1 DEF Told
  <2>4. \A s, u \in DOMAIN m :
          /\ m[s].type = "loop.detected" /\ m[s].about # 0
          /\ m[u].type = "loop.detected" /\ m[u].about = m[s].about
          => s = u
    BY <1>1, <1>3, <2>3 DEF StoreInv, DropsInv
  <2> QED BY <2>2, <2>4 DEF DropsInv
<1> QED BY <1>2, <1>4, <1>5, <1>6, <1>7, <1>8 DEF StoreInv, m

\* Time passes.
LEMMA TimeKeeps ==
  ASSUME NEW now \in Nat, NEW l, NEW d, NEW st, NEW w, StoreInv(l, d, st, w, now)
  PROVE  StoreInv(l, d, st, w, now + 1)
<1>1. LogInv(l, now + 1)
  <2>1. \A s \in DOMAIN l : l[s].ts \in Nat
    BY ElementOfSeq, LenProperties, Shapes DEF StoreInv, LogInv
  <2> QED BY <2>1 DEF StoreInv, LogInv
<1>2. ASSUME NEW r \in Runs PROVE WaitInv(l, d, r, w[r], now + 1)
  <2>1. w[r] \in WaitRow /\ WaitInv(l, d, r, w[r], now)
    BY DEF StoreInv, RowsInv
  <2>2. w[r].expires \in Nat
    BY <2>1, Shapes
  <2> QED BY <2>1, <2>2 DEF WaitInv
<1> QED BY <1>1, <1>2 DEF StoreInv

\* Runs begin, wait, wake and end, when none starts, comes alive again or ends a wait wrongly.
LEMMA RowsKeep ==
  ASSUME NEW now \in Nat, NEW l, NEW d, NEW st, NEW w, StoreInv(l, d, st, w, now),
         NEW st2 \in [Runs -> RunStatus], NEW w2 \in [Runs -> WaitRow],
         \A r \in Runs : /\ st2[r] = "none" <=> st[r] = "none"
                         /\ st2[r] \in Active => st[r] \in Active
                         /\ w2[r].outcome = "pending" <=> st2[r] = "waiting"
                         /\ w2[r] # w[r] => WaitInv(l, d, r, w2[r], now)
  PROVE  StoreInv(l, d, st2, w2, now)
<1>1. RowsInv(l, d, st2, w2)
  BY DEF StoreInv, RowsInv
<1>2. \A r \in Runs : WaitInv(l, d, r, w2[r], now)
  BY DEF StoreInv
<1>3. OverlapInv(l, st2)
  <2>1. DOMAIN l = 1 .. Len(l) /\ Len(l) \in Nat /\ Len(l) <= 2 * MaxEvents
    BY LenProperties DEF StoreInv, LogInv
  <2>2. \A t \in OverlapSkip, s \in DOMAIN l : <<t, s>> \in Runs
    BY <2>1, DispatcherAssumption DEF Runs, Seqs
  <2> QED BY <2>2 DEF StoreInv, OverlapInv
<1>4. ChainsInv(l, st2)
  <2>1. \A c \in Nat : RunsOf(l, st2, c) = RunsOf(l, st, c)
    BY DEF RunsOf
  <2> QED BY <2>1 DEF StoreInv, ChainsInv
<1> QED BY <1>1, <1>2, <1>3, <1>4 DEF StoreInv

\* A wait ends late by a time its armed deadline has passed, when every event still to be
\* dispatched was stored no earlier.
LEMMA WaitLate ==
  ASSUME NEW now \in Nat, NEW l, NEW d \in 0 .. Len(l), NEW r \in Runs, Len(l) \in Nat,
         NEW v \in WaitRow, WaitInv(l, d, r, v, now), v.outcome = "pending",
         NEW time \in Nat, time <= now, Expired(v.expires, time),
         \A s \in d + 1 .. Len(l) : l[s].ts \in Nat /\ time <= l[s].ts
  PROVE  WaitInv(l, d, r, [v EXCEPT !.outcome = "timeout"], now)
<1> DEFINE v2 == [v EXCEPT !.outcome = "timeout"]
<1>1. /\ v2.outcome = "timeout" /\ v2.event = v.event /\ v2.consumed = v.consumed
      /\ v2.type = v.type /\ v2.expires = v.expires /\ v.expires \in Nat
      /\ v.expires <= time /\ r[2] \in Nat
  BY Shapes DEF WaitRow, Expired
<1> HIDE DEF v2
<1>2. ASSUME NEW s \in r[2] + 1 .. Len(l), l[s].type = v.type, s \notin v.consumed
      PROVE  v.expires <= l[s].ts
  <2>1. s \notin r[2] + 1 .. d
    BY <1>2 DEF WaitInv
  <2>2. s \in d + 1 .. Len(l)
    BY <1>1, <2>1
  <2> QED BY <1>1, <2>2
<1>3. v2.expires <= now
  BY <1>1
<1> QED BY <1>1, <1>2, <1>3 DEF WaitInv, v2

\* EndWaits() and Requeued(), of any store.
Ended(w, late, answered, seq) ==
  [r \in Runs |-> IF w[r].outcome # "pending" THEN w[r]
                  ELSE IF r \in late THEN [w[r] EXCEPT !.outcome = "timeout"]
                  ELSE IF r \in answered THEN [w[r] EXCEPT !.outcome = "matched", !.event = seq]
                  ELSE w[r]]

Woken(st, w, rs) == [r \in Runs |-> IF r \in rs /\ w[r].outcome = "pending" THEN "queued" ELSE st[r]]

ExpiredBy(w, time) == {r \in Runs : w[r].outcome = "pending" /\ Expired(w[r].expires, time)}

\* The clock ends the waits whose deadline it has reached, once no event stored before is
\* left to dispatch.
LEMMA ExpireKeeps ==
  ASSUME NEW now \in Nat, NEW l, NEW d, NEW st, NEW w, StoreInv(l, d, st, w, now),
         \A s \in d + 1 .. Len(l) : l[s].ts = now,
         NEW late, late \in {{}, ExpiredBy(w, now)},
         NEW st2, st2 = Woken(st, w, late), NEW w2, w2 = Ended(w, late, {}, 0)
  PROVE  StoreInv(l, d, st2, w2, now)
<1>1. st \in [Runs -> RunStatus] /\ w \in [Runs -> WaitRow] /\ d \in 0 .. Len(l) /\ Len(l) \in Nat
  BY LenProperties DEF StoreInv, RowsInv, LogInv
<1>2. ASSUME NEW r \in Runs
      PROVE  /\ st2[r] \in RunStatus /\ w2[r] \in WaitRow
             /\ st2[r] = "none" <=> st[r] = "none"
             /\ st2[r] \in Active => st[r] \in Active
             /\ w2[r].outcome = "pending" <=> st2[r] = "waiting"
             /\ w2[r] # w[r] => WaitInv(l, d, r, w2[r], now)
  <2>1. w[r] \in WaitRow /\ (w[r].outcome = "pending" <=> st[r] = "waiting")
    BY <1>1 DEF StoreInv, RowsInv
  <2>2. CASE r \in late /\ w[r].outcome = "pending"
    <3>1. w2[r] = [w[r] EXCEPT !.outcome = "timeout"] /\ st2[r] = "queued"
      BY <2>2 DEF Ended, Woken
    <3>2. w2[r] \in WaitRow /\ w2[r].outcome = "timeout"
      BY <2>1, <3>1 DEF WaitRow
    <3>3. WaitInv(l, d, r, w2[r], now)
      <4>1. Expired(w[r].expires, now)
        BY <2>2 DEF ExpiredBy
      <4>2. \A s \in d + 1 .. Len(l) : l[s].ts \in Nat /\ now <= l[s].ts
        OBVIOUS
      <4>3. WaitInv(l, d, r, w[r], now)
        BY DEF StoreInv
      <4> QED BY <1>1, <2>1, <2>2, <3>1, <4>1, <4>2, <4>3, WaitLate
    <3> QED BY <2>1, <2>2, <3>1, <3>2, <3>3 DEF RunStatus, Active
  <2>3. CASE ~(r \in late /\ w[r].outcome = "pending")
    <3>1. w2[r] = w[r] /\ st2[r] = st[r]
      BY <2>3 DEF Ended, Woken
    <3> QED BY <1>1, <2>1, <3>1
  <2> QED BY <2>2, <2>3
<1>3. st2 \in [Runs -> RunStatus] /\ w2 \in [Runs -> WaitRow]
  BY <1>2 DEF Ended, Woken
<1> QED BY <1>2, <1>3, RowsKeep

\* The waits an event answers.
AnsweredBy(w, e) ==
  {r \in Runs : /\ w[r].outcome = "pending" /\ ~Expired(w[r].expires, e.ts)
                /\ w[r].type = e.type}

\* The runs that event "seq" queues, and those whose waits it ends.
Started(st, w, e, seq, starts) ==
  [r \in Runs |-> IF r[2] = seq /\ r[1] \in starts THEN "queued"
                  ELSE Woken(st, w, ExpiredBy(w, e.ts) \cup AnsweredBy(w, e))[r]]

\* Its chain and its cron tasks have room for what it starts.
MayStart(l, st, e, starts) ==
  /\ starts \subseteq Tasks /\ IsFiniteSet(starts)
  /\ e.type = "cron.tick" =>
       \A t \in starts \cap OverlapSkip, s \in Seqs : st[<<t, s>>] \notin Active
  /\ Cardinality(RunsOf(l, st, e.root)) + Cardinality(starts) <= MaxChainRuns

\* One event is dispatched: the waits it is late for and those it answers end, and it starts
\* runs that its chain and its cron tasks have room for.
LEMMA DispatchKeeps ==
  ASSUME NEW now \in Nat, NEW l, NEW d, NEW st, NEW w, StoreInv(l, d, st, w, now),
         NEW seq, seq = d + 1, seq <= Len(l), NEW e, e = l[seq],
         NEW starts, MayStart(l, st, e, starts),
         e.depth > MaxDepth => Told(l, e.root),
         NEW st2, st2 = Started(st, w, e, seq, starts),
         NEW w2, w2 = Ended(w, ExpiredBy(w, e.ts), AnsweredBy(w, e), seq)
  PROVE  StoreInv(l, seq, st2, w2, now)
<1>1. /\ st \in [Runs -> RunStatus] /\ w \in [Runs -> WaitRow] /\ d \in 0 .. Len(l)
      /\ Len(l) \in Nat /\ l \in Seq(Event) /\ DOMAIN l = 1 .. Len(l) /\ Len(l) <= 2 * MaxEvents
      /\ \A s \in 1 .. Len(l) : l[s] \in Event
  BY LenProperties, ElementOfSeq DEF StoreInv, RowsInv, LogInv
<1>2. /\ seq \in 1 .. Len(l) /\ seq \in Seqs /\ d \in Nat /\ e \in Event /\ e.ts \in Nat
      /\ e.root \in Nat /\ e.ts <= now
  <2>1. seq \in 1 .. Len(l) /\ d \in Nat
    BY <1>1
  <2>2. seq \in Seqs
    BY <1>1, <2>1, Shapes DEF Seqs
  <2>3. e \in Event /\ e.ts <= now
    BY <1>1, <2>1 DEF StoreInv, LogInv
  <2> QED BY <2>1, <2>2, <2>3, Shapes
<1>3. \A r \in Runs : w[r] \in WaitRow /\ WaitInv(l, d, r, w[r], now)
                      /\ (w[r].outcome = "pending" <=> st[r] = "waiting")
                      /\ (st[r] # "none" => r[2] <= d)
  BY <1>1 DEF StoreInv, RowsInv
<1>4. ASSUME NEW r \in Runs, w[r].outcome = "pending"
      PROVE  ~(r[2] = seq /\ r[1] \in starts)
  BY <1>1, <1>2, <1>3, <1>4
<1> DEFINE late == ExpiredBy(w, e.ts)
           answered == AnsweredBy(w, e)
<1>45. ASSUME NEW r \in Runs
       PROVE  /\ w2[r] = IF w[r].outcome # "pending" THEN w[r]
                         ELSE IF r \in late THEN [w[r] EXCEPT !.outcome = "timeout"]
                         ELSE IF r \in answered
                              THEN [w[r] EXCEPT !.outcome = "matched", !.event = seq]
                              ELSE w[r]
              /\ st2[r] = IF r[2] = seq /\ r[1] \in starts THEN "queued"
                          ELSE IF r \in late \cup answered THEN "queued" ELSE st[r]
              /\ r \in late => w[r].outcome = "pending" /\ Expired(w[r].expires, e.ts)
              /\ r \in answered => /\ w[r].outcome = "pending" /\ ~Expired(w[r].expires, e.ts)
                                   /\ w[r].type = e.type
              /\ w[r].outcome = "pending" /\ w[r].type = e.type => r \in late \cup answered
  BY DEF Ended, Started, Woken, ExpiredBy, AnsweredBy
<1> HIDE DEF late, answered
<1>5. ASSUME NEW r \in Runs
      PROVE  /\ w2[r] \in WaitRow /\ WaitInv(l, seq, r, w2[r], now)
             /\ w2[r].outcome = "pending" <=> st2[r] = "waiting"
  <2>0. /\ w[r] \in WaitRow /\ w[r].expires \in Nat /\ w[r].event \in Nat /\ r[2] \in Nat
        /\ w[r].event <= d /\ w[r].consumed \subseteq 1 .. d /\ w[r].consumed \subseteq 1 .. seq
    BY <1>2, <1>3, Shapes DEF WaitInv
  <2>9. /\ WaitInv(l, d, r, w[r], now)
        /\ r \in late => w[r].outcome = "pending" /\ Expired(w[r].expires, e.ts)
        /\ r \in answered => w[r].outcome = "pending" /\ ~Expired(w[r].expires, e.ts)
    BY <1>3, <1>45
  <2>1. CASE w[r].outcome # "pending"
    <3>1. w2[r] = w[r]
      BY <1>45, <2>1
    <3>2. st2[r] \in {"queued", st[r]} /\ st[r] # "waiting"
      BY <1>3, <1>45, <2>1
    <3>3. w[r].event <= seq
      BY <1>2, <2>0
    <3>4. WaitInv(l, seq, r, w[r], now)
      BY <2>0, <2>1, <2>9, <3>3 DEF WaitInv
    <3> QED BY <2>0, <2>1, <3>1, <3>2, <3>4
  <2>2. CASE r \in late
    <3>1. w2[r] = [w[r] EXCEPT !.outcome = "timeout"] /\ st2[r] = "queued"
      BY <1>45, <2>2
    <3>2. /\ w2[r] \in WaitRow /\ w2[r].outcome = "timeout" /\ w2[r].event = w[r].event
          /\ w2[r].consumed = w[r].consumed
      BY <2>0, <3>1 DEF WaitRow
    <3>3. \A s \in d + 1 .. Len(l) : l[s].ts \in Nat /\ e.ts <= l[s].ts
      BY <1>1, <1>2, Shapes DEF StoreInv, LogInv
    <3>4. WaitInv(l, d, r, w2[r], now)
      <4>1. w[r].outcome = "pending" /\ Expired(w[r].expires, e.ts) /\ e.ts <= now
        BY <1>2, <2>2, <2>9
      <4>2. e.ts \in Nat /\ d \in 0 .. Len(l) /\ Len(l) \in Nat
        BY <1>1, <1>2
      <4> QED BY <2>0, <2>9, <3>1, <3>3, <4>1, <4>2, WaitLate
    <3> QED BY <1>2, <2>0, <3>1, <3>2, <3>4 DEF WaitInv
  <2>3. CASE r \in answered
    <3>1. w2[r] = [w[r] EXCEPT !.outcome = "matched", !.event = seq] /\ st2[r] = "queued"
      BY <1>45, <2>3
    <3>2. /\ w2[r] \in WaitRow /\ w2[r].outcome = "matched" /\ w2[r].event = seq
          /\ w2[r].consumed = w[r].consumed /\ w2[r].expires = w[r].expires
      BY <1>2, <2>0, <3>1 DEF WaitRow
    <3>3. seq \notin w[r].consumed /\ (w[r].expires # 0 => e.ts < w[r].expires)
      <4>1. ~Expired(w[r].expires, e.ts)
        BY <2>3, <2>9
      <4> QED BY <1>2, <2>0, <4>1 DEF Expired
    <3> QED BY <1>2, <2>0, <3>1, <3>2, <3>3 DEF WaitInv
  <2>4. CASE w[r].outcome = "pending" /\ r \notin late /\ r \notin answered
    <3>1. w2[r] = w[r] /\ st2[r] = "waiting" /\ e.type # w[r].type
      BY <1>3, <1>4, <1>45, <2>4
    <3>2. \A s \in r[2] + 1 .. seq : l[s].type = w[r].type => s \in w[r].consumed
      <4>1. \A s \in r[2] + 1 .. seq : s = seq \/ s \in r[2] + 1 .. d
        BY <1>2, <2>0
      <4> QED BY <1>3, <2>4, <3>1, <4>1 DEF WaitInv
    <3> QED BY <1>2, <1>3, <2>0, <2>4, <3>1, <3>2 DEF WaitInv
  <2> QED BY <2>1, <2>2, <2>3, <2>4
<1>6. ASSUME NEW r \in Runs
      PROVE  /\ st2[r] \in RunStatus
             /\ st2[r] # "none" => st[r] # "none" \/ (r[2] = seq /\ r[1] \in starts)
             /\ st2[r] \in Active => st[r] \in Active \/ (r[2] = seq /\ r[1] \in starts)
             /\ st[r] # "none" => st2[r] # "none"
  <2>1. r \in late \cup answered => st[r] = "waiting"
    BY <1>3, <1>45
  <2> QED BY <1>1, <1>45, <2>1 DEF RunStatus, Active
<1>7. RowsInv(l, seq, st2, w2)
  <2>1. \A r \in Runs : st2[r] # "none" => r[2] <= seq
    <3>1. ASSUME NEW r \in Runs, st2[r] # "none" PROVE r[2] <= d \/ r[2] = seq
      BY <1>3, <1>6, <3>1
    <3>2. d <= seq /\ seq \in Nat /\ \A r \in Runs : r[2] \in Nat
      BY <1>2, Shapes
    <3> QED BY <1>2, <3>1, <3>2
  <2>2. st2 \in [Runs -> RunStatus] /\ w2 \in [Runs -> WaitRow]
    BY <1>5, <1>6 DEF Started, Ended
  <2>3. seq \in 0 .. Len(l)
    BY <1>1, <1>2
  <2> QED BY <1>5, <2>1, <2>2, <2>3 DEF RowsInv
<1>8. OverlapInv(l, st2)
  <2> SUFFICES ASSUME NEW t \in OverlapSkip, NEW s \in DOMAIN l, NEW u \in DOMAIN l,
                      st2[<<t, s>>] \in Active, l[s].type = "cron.tick",
                      st2[<<t, u>>] \in Active, l[u].type = "cron.tick"
               PROVE  s = u
    BY DEF OverlapInv
  <2>1. t \in Tasks /\ s \in Seqs /\ u \in Seqs /\ <<t, s>> \in Runs /\ <<t, u>> \in Runs
    BY <1>1, DispatcherAssumption DEF Runs, Seqs
  <2>2. /\ st[<<t, s>>] \in Active \/ (s = seq /\ t \in starts)
        /\ st[<<t, u>>] \in Active \/ (u = seq /\ t \in starts)
    <3>1. ASSUME NEW r \in Runs, NEW v, r = <<t, v>>, st2[r] \in Active
          PROVE  st[r] \in Active \/ (v = seq /\ t \in starts)
      <4>1. r[1] = t /\ r[2] = v
        BY <3>1
      <4> QED BY <1>6, <3>1, <4>1
    <3> QED BY <2>1, <3>1
  <2>3. t \in starts /\ e.type = "cron.tick" => \A v \in Seqs : st[<<t, v>>] \notin Active
    BY DEF MayStart
  <2> QED BY <2>1, <2>2, <2>3 DEF StoreInv, OverlapInv
<1>9. ChainsInv(l, st2)
  <2>0. /\ IsFiniteSet(starts)
        /\ Cardinality(RunsOf(l, st, e.root)) + Cardinality(starts) <= MaxChainRuns
    BY DEF MayStart
  <2> DEFINE new == {<<t, seq>> : t \in starts}
  <2>1. IsFiniteSet(new) /\ Cardinality(new) <= Cardinality(starts) /\ Cardinality(new) \in Nat
        /\ Cardinality(starts) \in Nat
    <3> DEFINE f == [t \in starts |-> <<t, seq>>]
    <3>1. f \in Surjection(starts, new)
      BY DEF Surjection
    <3> HIDE DEF f
    <3> QED BY <2>0, <3>1, FS_Surjection, FS_CardinalityType
  <2>2. ASSUME NEW c \in Nat
        PROVE  Cardinality(RunsOf(l, st2, c)) <= MaxChainRuns
    <3>1. /\ IsFiniteSet(RunsOf(l, st, c)) /\ IsFiniteSet(RunsOf(l, st2, c))
          /\ Cardinality(RunsOf(l, st, c)) \in Nat /\ Cardinality(RunsOf(l, st2, c)) \in Nat
          /\ Cardinality(RunsOf(l, st, c)) <= MaxChainRuns /\ MaxChainRuns \in Nat
      <4>1. RunsOf(l, st, c) \in SUBSET Runs /\ RunsOf(l, st2, c) \in SUBSET Runs
        BY DEF RunsOf
      <4> QED BY <4>1, RunsAreFinite, SubsetIsSmaller, DispatcherAssumption DEF StoreInv, ChainsInv
    <3>2. CASE c = e.root
      <4>1. RunsOf(l, st2, c) \subseteq RunsOf(l, st, c) \cup new
        <5>1. ASSUME NEW r \in Runs, r[2] = seq, r[1] \in starts PROVE r \in new
          BY <5>1, Shapes
        <5> HIDE DEF new
        <5> QED BY <1>6, <5>1 DEF RunsOf
      <4> HIDE DEF new
      <4>2. RunsOf(l, st2, c) \in SUBSET (RunsOf(l, st, c) \cup new)
        BY <4>1
      <4>3. /\ IsFiniteSet(RunsOf(l, st, c) \cup new)
            /\ Cardinality(RunsOf(l, st, c) \cup new)
                 = Cardinality(RunsOf(l, st, c)) + Cardinality(new)
                   - Cardinality(RunsOf(l, st, c) \cap new)
        BY <2>1, <3>1, FS_Union
      <4>4. Cardinality(RunsOf(l, st, c) \cap new) \in Nat
        BY <2>1, SubsetIsSmaller
      <4>5. Cardinality(RunsOf(l, st2, c)) <= Cardinality(RunsOf(l, st, c) \cup new)
        BY <4>2, <4>3, SubsetIsSmaller
      <4> QED BY <2>0, <2>1, <3>1, <3>2, <4>3, <4>4, <4>5
    <3>3. CASE c # e.root
      <4>1. RunsOf(l, st2, c) = RunsOf(l, st, c)
        BY <1>6, <3>3 DEF RunsOf
      <4> QED BY <3>1, <4>1
    <3> QED BY <3>2, <3>3
  <2> QED BY <2>2 DEF ChainsInv
<1>10. DropsInv(l, seq)
  <2>1. \A s \in 1 .. seq : s = seq \/ s \in 1 .. d
    BY <1>2
  <2> QED BY <2>1 DEF StoreInv, DropsInv
<1> QED BY <1>5, <1>7, <1>8, <1>9, <1>10 DEF StoreInv

-----------------------------------------------------------------------------
(***************************************************************************)
(* 3. The batch in flight and the memory.                                  *)
(***************************************************************************)

\* Waits that do not change leave the pending ones as they are.
LEMMA SamePending ==
  ASSUME \A r \in Runs : /\ wait'[r].outcome = "pending" <=> wait[r].outcome = "pending"
                         /\ wait[r].outcome = "pending" => wait'[r] = wait[r]
  PROVE  PendingWaits' = PendingWaits
BY DEF PendingWaits, Armed

\* What begins with a store at rest.
LEMMA AtRest ==
  ASSUME IndInv, ~InBatch
  PROVE  /\ StoreInv(log, cursor, status, wait, clock) /\ Dispatched = cursor
         /\ batch = NoBatch /\ \A c \in reported : Told(log, c)
         /\ cursor \in 0 .. Len(log) /\ Len(log) \in Nat /\ clock \in Nat
         /\ log \in Seq(Event) /\ DOMAIN log = 1 .. Len(log)
         /\ status \in [Runs -> RunStatus] /\ wait \in [Runs -> WaitRow]
<1>1. StoreInv(log, cursor, status, wait, clock) /\ Dispatched = cursor
  BY DEF IndInv, Dispatched
<1>2. clock \in Nat
  BY DispatcherAssumption DEF IndInv, MemoryInv
<1> QED BY <1>1, <1>2, LenProperties DEF IndInv, BatchInv, StoreInv, RowsInv, LogInv

\* ... and leaves it at rest.
LEMMA StaysAtRest ==
  ASSUME IndInv, ~InBatch, UNCHANGED batch,
         StoreInv(log', cursor', status', wait', clock'),
         \A c \in reported' : Told(log, c),
         \A c \in reported' : Told(log, c) => Told(log', c),
         fresh' => index' = PendingWaits'
  PROVE  (StoreInv(log, Dispatched, status, wait, clock) /\ BatchInv)'
<1>1. batch' = NoBatch /\ ~InBatch'
  BY AtRest DEF InBatch
<1> QED BY <1>1 DEF BatchInv, Dispatched

\* What was told stays told.
LEMMA StillTold ==
  ASSUME NEW l \in Seq(Event), NEW e \in Event, NEW c, Told(l, c)
  PROVE  Told(Append(l, e), c)
BY Appended DEF Told

\* publishEvent() makes events of the log's type.
LEMMA NewEventFacts ==
  ASSUME IndInv, Len(log) + 1 \in Seqs, NEW type \in Types \cup Builtin,
         NEW task \in Tasks \cup {0}, NEW parent \in 0 .. Len(log), NEW about \in Nat
  PROVE  /\ NewEvent(type, task, parent, about) \in Event
         /\ NewEvent(type, task, parent, about).ts = clock
         /\ NewEvent(type, task, parent, about).root <= Len(log) + 1
         /\ NewEvent(type, task, parent, about).type = type
         /\ NewEvent(type, task, parent, about).about = about
<1> DEFINE depth == IF parent = 0 THEN 0 ELSE log[parent].depth + 1
           root == IF parent = 0 THEN Len(log) + 1 ELSE log[parent].root
<1>1. /\ log \in Seq(Event) /\ DOMAIN log = 1 .. Len(log) /\ Len(log) \in Nat
      /\ clock \in 0 .. MaxTime
  BY LenProperties DEF IndInv, StoreInv, LogInv, MemoryInv
<1>2. depth \in Nat /\ root \in Seqs /\ root <= Len(log) + 1
  <2>1. CASE parent = 0
    BY <1>1, <2>1
  <2>2. CASE parent # 0
    <3>1. parent \in 1 .. Len(log) /\ log[parent] \in Event /\ log[parent].root <= parent
      BY <1>1, <2>2, ElementOfSeq DEF IndInv, StoreInv, LogInv
    <3>2. log[parent].depth \in Nat /\ log[parent].root \in Seqs /\ log[parent].root \in Nat
      BY <3>1, Shapes
    <3> QED BY <1>1, <2>2, <3>1, <3>2
  <2> QED BY <2>1, <2>2
<1>3. NewEvent(type, task, parent, about)
        = [type |-> type, task |-> task, ts |-> clock, about |-> about, depth |-> depth, root |-> root]
  BY DEF NewEvent
<1> HIDE DEF depth, root
<1>4. [type |-> type, task |-> task, ts |-> clock, about |-> about, depth |-> depth, root |-> root]
        \in Event
  BY <1>1, <1>2 DEF Event
<1> QED BY <1>2, <1>3, <1>4

\* Publish, Tick and RunManually.
LEMMA PublishKeeps ==
  ASSUME IndInv, ~InBatch, Len(log) < MaxEvents, NEW type \in Types \cup Builtin,
         NEW about \in Nat, type = "loop.detected" => about = 0,
         log' = Append(log, NewEvent(type, 0, 0, about)),
         UNCHANGED <<cursor, status, wait, index, fresh, reported, batch, clock>>
  PROVE  (StoreInv(log, Dispatched, status, wait, clock) /\ BatchInv)'
<1> DEFINE e == NewEvent(type, 0, 0, about)
<1>1. Len(log) + 1 \in Seqs /\ Len(log) + 1 <= 2 * MaxEvents
  BY AtRest, DispatcherAssumption DEF Seqs
<1>2. e \in Event /\ e.ts = clock /\ e.root <= Len(log) + 1 /\ e.type = type /\ e.about = about
  <2>1. ASSUME NEW z, z = 0
        PROVE  /\ NewEvent(type, z, z, about) \in Event
               /\ NewEvent(type, z, z, about).ts = clock
               /\ NewEvent(type, z, z, about).root <= Len(log) + 1
               /\ NewEvent(type, z, z, about).type = type
               /\ NewEvent(type, z, z, about).about = about
    <3>1. z \in 0 .. Len(log) /\ z \in Tasks \cup {0}
      BY <2>1, AtRest
    <3> QED BY <1>1, <3>1, NewEventFacts
  <2> QED BY <2>1
<1> HIDE DEF e
<1>3. log' = Append(log, e)
  BY DEF e
<1>4. StoreInv(log', cursor, status, wait, clock)
  BY <1>1, <1>2, <1>3, AppendKeeps, AtRest
<1>5. \A c : Told(log, c) => Told(log', c)
  BY <1>2, <1>3, StillTold, AtRest
<1>6. PendingWaits' = PendingWaits
  BY DEF PendingWaits, Armed
<1> QED BY <1>4, <1>5, <1>6, StaysAtRest, AtRest DEF IndInv, BatchInv

\* Steps that leave the store and the batch alone.
LEMMA StoreSame ==
  ASSUME IndInv, UNCHANGED <<storeVars, batch, saved, reported, batchReported, clock>>,
         UNCHANGED <<index, fresh>> \/ (~InBatch /\ index' = PendingWaits /\ fresh' = TRUE)
  PROVE  (StoreInv(log, Dispatched, status, wait, clock) /\ BatchInv)'
<1>1. /\ log' = log /\ cursor' = cursor /\ status' = status /\ wait' = wait /\ batch' = batch
      /\ saved' = saved /\ reported' = reported /\ batchReported' = batchReported /\ clock' = clock
  BY DEF storeVars
<1>2. InBatch' = InBatch /\ Dispatched' = Dispatched /\ PendingWaits' = PendingWaits
  BY <1>1 DEF InBatch, Dispatched, PendingWaits, Armed
<1>3. fresh' => index' = PendingWaits'
  BY <1>2 DEF IndInv, BatchInv
<1>4. InBatch => InFlightInv'
  <2>1. InBatch => index' = index
    OBVIOUS
  <2>2. InBatch => Open' = Open
    BY <1>1, <2>1 DEF Open
  <2> QED BY <1>1, <1>2, <2>2 DEF IndInv, BatchInv, InFlightInv
<1> QED BY <1>1, <1>2, <1>3, <1>4 DEF IndInv, BatchInv

\* Begin: a queued run runs.
LEMMA BeginKeeps ==
  ASSUME IndInv, NEW r \in Runs, Begin(r)
  PROVE  (StoreInv(log, Dispatched, status, wait, clock) /\ BatchInv)'
<1>1. /\ ~InBatch /\ status[r] = "queued" /\ status' = [status EXCEPT ![r] = "running"]
      /\ UNCHANGED <<log, cursor, wait, index, fresh, reported, batch, clock>>
  BY DEF Begin, Serving, Idle, memoryVars, batchVars
<1>2. status' \in [Runs -> RunStatus]
  BY <1>1, AtRest DEF RunStatus, Active
<1>3. \A q \in Runs : /\ status'[q] = "none" <=> status[q] = "none"
                      /\ status'[q] \in Active => status[q] \in Active
                      /\ wait'[q].outcome = "pending" <=> status'[q] = "waiting"
  BY <1>1, AtRest DEF Active, StoreInv, RowsInv
<1>4. StoreInv(log, cursor, status', wait', clock)
  BY <1>1, <1>2, <1>3, AtRest, RowsKeep
<1>5. PendingWaits' = PendingWaits
  BY <1>1 DEF PendingWaits, Armed
<1> QED BY <1>1, <1>4, <1>5, StaysAtRest, AtRest DEF IndInv, BatchInv

\* Suspend: a run parks on a new wait, unless an event already dispatched ends it at once.
LEMMA SuspendKeeps ==
  ASSUME IndInv, NEW r \in Runs, NEW type \in Awaited, NEW timeout \in Timeouts,
         Suspend(r, type, timeout)
  PROVE  (StoreInv(log, Dispatched, status, wait, clock) /\ BatchInv)'
<1> DEFINE consumed == wait[r].consumed \cup ({wait[r].event} \ {0})
           expires == IF timeout = 0 THEN 0 ELSE clock + timeout
           there == Backlog(r, type, consumed)
           hit == Min(there)
           parked == [outcome |-> "pending", type |-> type, event |-> 0, consumed |-> consumed,
                      expires |-> expires]
           answered == [outcome |-> "matched", type |-> type, event |-> hit,
                        consumed |-> consumed, expires |-> expires]
           v == wait'[r]
<1>1. /\ ~InBatch /\ status[r] = "running" /\ clock + timeout <= MaxTime
      /\ fresh' = FALSE /\ UNCHANGED <<log, cursor, index, reported, batch, clock>>
  BY DEF Suspend, Serving, Idle, batchVars
<1>2. \/ there = {} /\ wait' = [wait EXCEPT ![r] = parked] /\ status' = [status EXCEPT ![r] = "waiting"]
      \/ /\ there # {} /\ wait' = [wait EXCEPT ![r] = answered]
         /\ status' = [status EXCEPT ![r] = "queued"]
  BY DEF Suspend
<1>3. /\ cursor \in 0 .. Len(log) /\ Len(log) \in Nat /\ clock \in Nat /\ timeout \in Nat
      /\ wait[r] \in WaitRow /\ WaitInv(log, cursor, r, wait[r], clock)
      /\ wait \in [Runs -> WaitRow] /\ status \in [Runs -> RunStatus]
      /\ MaxTime \in Nat /\ r[2] \in Nat /\ Len(log) <= 2 * MaxEvents
  BY <1>1, AtRest, Shapes, DispatcherAssumption DEF StoreInv, LogInv
<1>4. consumed \subseteq 1 .. cursor /\ consumed \subseteq Seqs /\ expires \in 0 .. MaxTime
  <2>1. wait[r].event \in Nat /\ wait[r].event <= cursor /\ wait[r].consumed \subseteq 1 .. cursor
    BY <1>3, Shapes DEF WaitInv
  <2>2. consumed \subseteq 1 .. cursor
    BY <1>3, <2>1
  <2>3. 1 .. cursor \subseteq Seqs
    BY <1>3, Shapes DEF Seqs
  <2> QED BY <1>1, <1>3, <2>2, <2>3
<1> HIDE DEF consumed, expires
<1>5. CASE there = {}
  <2>1. v = parked /\ wait' = [wait EXCEPT ![r] = parked] /\ status' = [status EXCEPT ![r] = "waiting"]
    BY <1>2, <1>3, <1>5
  <2>2. parked \in WaitRow
    BY <1>4 DEF WaitRow
  <2>3. \A s \in r[2] + 1 .. cursor : log[s].type = type => s \in consumed
    BY <1>5 DEF Backlog
  <2>4. WaitInv(log, cursor, r, parked, clock)
    BY <1>3, <1>4, <2>3 DEF WaitInv
  <2>5. StoreInv(log, cursor, status', wait', clock)
    <3>1. status' \in [Runs -> RunStatus] /\ wait' \in [Runs -> WaitRow]
      BY <1>3, <2>1, <2>2 DEF RunStatus, Active
    <3>2. \A q \in Runs : /\ status'[q] = "none" <=> status[q] = "none"
                          /\ status'[q] \in Active => status[q] \in Active
                          /\ wait'[q].outcome = "pending" <=> status'[q] = "waiting"
                          /\ wait'[q] # wait[q] => WaitInv(log, cursor, q, wait'[q], clock)
      BY <1>1, <1>3, <2>1, <2>4, AtRest DEF Active, StoreInv, RowsInv
    <3> QED BY <1>1, <3>1, <3>2, AtRest, RowsKeep
  <2> QED BY <1>1, <2>5, StaysAtRest, AtRest
<1>6. CASE there # {}
  <2>1. v = answered /\ wait' = [wait EXCEPT ![r] = answered] /\ status' = [status EXCEPT ![r] = "queued"]
    BY <1>2, <1>3, <1>6
  <2>2. hit \in there
    <3>1. there \in SUBSET Nat
      BY <1>3 DEF Backlog
    <3> QED BY <1>6, <3>1, MinFacts
  <2>3. hit \in 1 .. cursor /\ hit \in Nat /\ hit \notin consumed /\ hit \in 1 .. Len(log)
    BY <1>3, <2>2 DEF Backlog
  <2>4. answered \in WaitRow
    <3>1. hit \in Seqs
      BY <1>3, <2>3, Shapes DEF Seqs
    <3> QED BY <1>4, <3>1 DEF WaitRow
  <2>5. expires # 0 => log[hit].ts < expires
    <3>1. log[hit].ts <= clock /\ log[hit] \in Event
      BY <1>1, <2>3, AtRest, ElementOfSeq DEF StoreInv, LogInv
    <3>2. log[hit].ts \in Nat
      BY <3>1, Shapes
    <3> QED BY <1>3, <3>1, <3>2 DEF expires
  <2> HIDE DEF hit
  <2>6. WaitInv(log, cursor, r, answered, clock)
    BY <1>3, <1>4, <2>3, <2>5 DEF WaitInv
  <2>7. StoreInv(log, cursor, status', wait', clock)
    <3>1. status' \in [Runs -> RunStatus] /\ wait' \in [Runs -> WaitRow]
      BY <1>3, <2>1, <2>4 DEF RunStatus, Active
    <3>2. \A q \in Runs : /\ status'[q] = "none" <=> status[q] = "none"
                          /\ status'[q] \in Active => status[q] \in Active
                          /\ wait'[q].outcome = "pending" <=> status'[q] = "waiting"
                          /\ wait'[q] # wait[q] => WaitInv(log, cursor, q, wait'[q], clock)
      BY <1>1, <1>3, <2>1, <2>6, AtRest DEF Active, StoreInv, RowsInv
    <3> QED BY <1>1, <3>1, <3>2, AtRest, RowsKeep
  <2> QED BY <1>1, <2>7, StaysAtRest, AtRest
<1> QED BY <1>5, <1>6

\* finish(): the row ends, its wait goes, its lifecycle event and what it emits are stored.
LEMMA EndRunKeeps ==
  ASSUME IndInv, ~InBatch, NEW r \in Runs, status[r] \in Active,
         UNCHANGED <<batchVars, clock>>,
         \/ EndRun(r, <<>>)
         \/ \E type \in Types : EndRun(r, <<NewEvent(type, r[1], r[2], 0)>>)
  PROVE  (StoreInv(log, Dispatched, status, wait, clock) /\ BatchInv)'
<1> DEFINE e1 == NewEvent("task.ended", r[1], r[2], 0)
<1>1. /\ status' = [status EXCEPT ![r] = "ended"] /\ wait' = [wait EXCEPT ![r] = NoWait]
      /\ fresh' = FALSE /\ UNCHANGED <<cursor, reported, batch, clock, index>>
  BY DEF EndRun, batchVars
<1>2. /\ r[2] \in 0 .. Len(log) /\ r[1] \in Tasks \cup {0} /\ Len(log) + 1 \in Seqs
      /\ Len(log) + 1 \in Nat /\ Len(log) \in Nat /\ 2 * MaxEvents \in Nat /\ MaxEvents \in Nat
      /\ cursor \in 0 .. Len(log) /\ clock \in Nat
  <2>1. Len(log) + 1 <= MaxEvents
    <3>1. Len(log) + 1 + Len(<<>>) <= MaxEvents
          \/ \E type \in Types : Len(log) + 1 + Len(<<NewEvent(type, r[1], r[2], 0)>>) <= MaxEvents
      BY DEF EndRun
    <3>2. Len(<<>>) = 0 /\ \A x : Len(<<x>>) = 1
      OBVIOUS
    <3> QED BY <3>1, <3>2, AtRest, DispatcherAssumption
  <2>2. r[2] <= cursor
    BY AtRest DEF StoreInv, RowsInv, Active
  <2> QED BY <2>1, <2>2, AtRest, Shapes, DispatcherAssumption DEF Seqs
<1>3. ASSUME NEW type \in Types \cup Builtin, NEW z, z = 0
      PROVE  /\ NewEvent(type, r[1], r[2], z) \in Event
             /\ NewEvent(type, r[1], r[2], z).ts = clock
             /\ NewEvent(type, r[1], r[2], z).root <= Len(log) + 1
             /\ NewEvent(type, r[1], r[2], z).about = z
  <2>1. z \in Nat
    BY <1>3
  <2>2. ASSUME NEW k \in Tasks \cup {0}, NEW p \in 0 .. Len(log)
        PROVE  /\ NewEvent(type, k, p, z) \in Event
               /\ NewEvent(type, k, p, z).ts = clock
               /\ NewEvent(type, k, p, z).root <= Len(log) + 1
               /\ NewEvent(type, k, p, z).about = z
    BY <1>2, <2>1, NewEventFacts
  <2> QED BY <1>2, <2>2
<1>4. e1 \in Event /\ e1.ts = clock /\ e1.root <= Len(log) + 1 /\ e1.about = 0
  <2>1. "task.ended" \in Types \cup Builtin
    BY DEF Builtin
  <2> QED BY <1>3, <2>1
<1> HIDE DEF e1
<1>5. StoreInv(log, cursor, status', wait', clock)
  <2>1. status' \in [Runs -> RunStatus] /\ wait' \in [Runs -> WaitRow]
    BY <1>1, AtRest, Shapes DEF RunStatus
  <2>2. WaitInv(log, cursor, r, NoWait, clock)
    BY <1>2 DEF WaitInv, NoWait
  <2>3. \A q \in Runs : /\ status'[q] = "none" <=> status[q] = "none"
                        /\ status'[q] \in Active => status[q] \in Active
                        /\ wait'[q].outcome = "pending" <=> status'[q] = "waiting"
                        /\ wait'[q] # wait[q] => WaitInv(log, cursor, q, wait'[q], clock)
    BY <1>1, <2>2, AtRest DEF Active, StoreInv, RowsInv, NoWait
  <2> QED BY <1>2, <2>1, <2>3, AtRest, RowsKeep
<1> DEFINE l1 == Append(log, e1)
<1>6. /\ StoreInv(l1, cursor, status', wait', clock)
      /\ l1 \in Seq(Event) /\ Len(l1) = Len(log) + 1
      /\ \A c : Told(log, c) => Told(l1, c)
  <2>1. Len(log) + 1 <= 2 * MaxEvents
    BY <1>2 DEF Seqs
  <2> QED BY <1>2, <1>4, <1>5, <2>1, AppendKeeps, Appended, StillTold, AtRest
<1>7. /\ StoreInv(log', cursor, status', wait', clock)
      /\ \A c : Told(log, c) => Told(log', c)
  <2>1. CASE EndRun(r, <<>>)
    <3>1. log' = l1 \o <<>>
      BY <2>1 DEF EndRun, l1, e1
    <3>2. log' = l1
      BY <1>6, <3>1, ConcatEmptySeq
    <3> QED BY <1>6, <3>2
  <2>2. ASSUME NEW type \in Types, EndRun(r, <<NewEvent(type, r[1], r[2], 0)>>)
        PROVE  /\ StoreInv(log', cursor, status', wait', clock)
               /\ \A c : Told(log, c) => Told(log', c)
    <3> DEFINE e2 == NewEvent(type, r[1], r[2], 0)
    <3>1. e2 \in Event /\ e2.ts = clock /\ e2.root <= Len(log) + 1 /\ e2.about = 0
      BY <1>3
    <3>2. log' = l1 \o <<e2>> /\ Len(log) + 1 + Len(<<e2>>) <= MaxEvents
      BY <2>2 DEF EndRun, l1, e1
    <3> HIDE DEF e2
    <3>3. log' = Append(l1, e2)
      BY <1>6, <3>1, <3>2, AppendIsConcat
    <3>4. Len(l1) + 1 <= 2 * MaxEvents /\ e2.root <= Len(l1) + 1
      <4>1. Len(<<e2>>) = 1
        OBVIOUS
      <4>2. e2.root \in Nat
        BY <3>1, Shapes
      <4> QED BY <1>2, <1>6, <3>1, <3>2, <4>1, <4>2
    <3> QED BY <1>2, <1>6, <3>1, <3>3, <3>4, AppendKeeps, StillTold
  <2> QED BY <2>1, <2>2
<1> QED BY <1>1, <1>7, StaysAtRest, AtRest

\* ClockTicks.
LEMMA ClockKeeps ==
  ASSUME IndInv, ClockTicks
  PROVE  (StoreInv(log, Dispatched, status, wait, clock) /\ BatchInv)'
<1>1. /\ ~InBatch /\ clock' = clock + 1
      /\ UNCHANGED <<log, cursor, status, wait, index, fresh, reported, batch>>
  BY DEF ClockTicks, Idle, storeVars, memoryVars, batchVars
<1>2. StoreInv(log, cursor, status, wait, clock')
  BY <1>1, AtRest, TimeKeeps
<1>3. PendingWaits' = PendingWaits
  BY <1>1 DEF PendingWaits, Armed
<1> QED BY <1>1, <1>2, <1>3, StaysAtRest, AtRest DEF IndInv, BatchInv

\* Steps that end with no batch in flight.
LEMMA ComesToRest ==
  ASSUME batch' = NoBatch, StoreInv(log', cursor', status', wait', clock'),
         \A c \in reported' : Told(log', c), fresh' => index' = PendingWaits'
  PROVE  (StoreInv(log, Dispatched, status, wait, clock) /\ BatchInv)'
<1>1. ~InBatch'
  BY DEF InBatch, NoBatch
<1> QED BY <1>1 DEF BatchInv, Dispatched

\* EndWaits() and Requeued() are Ended() and Woken() of the store.
LEMMA EndWaitsIs ==
  ASSUME NEW late, NEW answered, NEW seq, EndWaits(late, answered, seq)
  PROVE  wait' = Ended(wait, late, answered, seq)
<1>1. \A r : (wait[r].outcome # "pending") <=> ~Armed(r)
  BY DEF Armed
<1> QED BY <1>1, Zenon DEF EndWaits, Ended

LEMMA RequeuedIs ==
  ASSUME NEW rs
  PROVE  Requeued(rs) = Woken(status, wait, rs)
BY DEF Requeued, Woken, Armed

LEMMA ExpiredNowIs == ExpiredNow = ExpiredBy(wait, clock)
BY DEF ExpiredNow, ExpiredBy, Armed

\* With nothing to end, statuses and waits stay.
LEMMA NoneEnds ==
  ASSUME NEW st \in [Runs -> RunStatus], NEW w \in [Runs -> WaitRow], NEW none, none = {}, NEW z
  PROVE  Ended(w, none, none, z) = w /\ Woken(st, w, none) = st
<1>1. Ended(w, none, none, z) = [r \in Runs |-> w[r]]
  BY DEF Ended
<1>2. Woken(st, w, none) = [r \in Runs |-> st[r]]
  BY DEF Woken
<1> QED BY <1>1, <1>2

\* The clock ends waits in a store whose undispatched events were all stored just now.
LEMMA DueKeeps ==
  ASSUME NEW d, StoreInv(log, d, status, wait, clock), clock \in Nat,
         NEW due, due = {} \/ (due = ExpiredNow /\ \A s \in d + 1 .. Len(log) : log[s].ts = clock),
         NEW none, none = {}, NEW z, z = 0, EndWaits(due, none, z), status' = Requeued(due)
  PROVE  /\ StoreInv(log, d, status', wait', clock)
         /\ due = {} => PendingWaits' = PendingWaits
<1>1. wait' = Ended(wait, due, none, z) /\ status' = Woken(status, wait, due)
  BY EndWaitsIs, RequeuedIs
<1>2. status \in [Runs -> RunStatus] /\ wait \in [Runs -> WaitRow]
  BY DEF StoreInv, RowsInv
<1>3. CASE due = {}
  <2>1. wait' = wait /\ status' = status
    BY <1>1, <1>2, <1>3, NoneEnds
  <2>2. PendingWaits' = PendingWaits
    BY <2>1 DEF PendingWaits, Armed
  <2> QED BY <2>1, <2>2
<1>4. CASE due # {}
  <2>1. due = ExpiredBy(wait, clock) /\ \A s \in d + 1 .. Len(log) : log[s].ts = clock
    BY <1>4, ExpiredNowIs
  <2>2. wait' = Ended(wait, due, {}, 0)
    BY <1>1
  <2> QED BY <1>1, <1>4, <2>1, <2>2, ExpireKeeps
<1> QED BY <1>3, <1>4

\* A drain that finds every event dispatched.
LEMMA CaughtUpKeeps ==
  ASSUME IndInv, ~InBatch, NEW by, CaughtUp(by), UNCHANGED clock
  PROVE  (StoreInv(log, Dispatched, status, wait, clock) /\ BatchInv)'
<1>1. /\ cursor = Len(log) /\ status' = Requeued(ExpiredNow)
      /\ fresh' = (fresh /\ ExpiredNow = {})
      /\ UNCHANGED <<log, cursor, index, reported, batch>>
  BY DEF CaughtUp
<1>2. ASSUME NEW none, none = {}, NEW z, z = 0
      PROVE  EndWaits(ExpiredNow, none, z)
  BY <1>2 DEF CaughtUp
<1>3. \A s \in cursor + 1 .. Len(log) : log[s].ts = clock
  BY <1>1, AtRest
<1>4. /\ StoreInv(log, cursor, status', wait', clock)
      /\ ExpiredNow = {} => PendingWaits' = PendingWaits
  BY <1>1, <1>2, <1>3, AtRest, DueKeeps
<1> QED BY <1>1, <1>4, AtRest, ComesToRest DEF IndInv, BatchInv

\* The last event of the next batch.
LEMMA LastOfBatchIs ==
  ASSUME IndInv, ~InBatch
  PROVE  /\ LastOfBatch \in {cursor + BatchSize, Len(log)} /\ LastOfBatch \in Nat
         /\ LastOfBatch <= cursor + BatchSize /\ LastOfBatch <= Len(log)
         /\ cursor + 1 \in Nat
<1>1. cursor + BatchSize \in Nat /\ Len(log) \in Nat /\ cursor + 1 \in Nat
  BY AtRest, DispatcherAssumption
<1>2. {cursor + BatchSize, Len(log)} \in SUBSET Nat
  BY <1>1
<1> QED BY <1>1, <1>2, MinFacts DEF LastOfBatch

\* BEGIN.
LEMMA BeginBatchKeeps ==
  ASSUME IndInv, ~InBatch, NEW by \in {"step", "drain"}, BeginBatch(by), UNCHANGED clock
  PROVE  (StoreInv(log, Dispatched, status, wait, clock) /\ BatchInv)'
<1>1. /\ cursor < Len(log)
      /\ batch' = [at |-> cursor + 1, last |-> LastOfBatch, by |-> by, ended |-> {}]
      /\ saved' = [log |-> log, cursor |-> cursor, status |-> status, wait |-> wait]
      /\ index' = (IF fresh THEN index ELSE PendingWaits) /\ fresh' = TRUE /\ batchReported' = {}
      /\ log' = log /\ cursor' = cursor /\ status' = status /\ wait' = wait /\ reported' = reported
      /\ clock' = clock
  BY DEF BeginBatch, storeVars
<1>2. /\ cursor + 1 \in Nat /\ cursor \in Nat /\ Len(log) \in Nat /\ BatchSize \in Nat \ {0}
      /\ cursor + BatchSize \in Nat
  BY AtRest, DispatcherAssumption
<1>3. /\ LastOfBatch \in {cursor + BatchSize, Len(log)}
      /\ LastOfBatch <= cursor + BatchSize /\ LastOfBatch <= Len(log)
  BY LastOfBatchIs
<1>4. PendingWaits' = PendingWaits /\ index' = PendingWaits /\ Open' = index'
  BY <1>1 DEF PendingWaits, Armed, Open, IndInv, BatchInv
<1>5. InBatch' /\ Dispatched' = cursor
  BY <1>1, <1>2 DEF InBatch, Dispatched
<1>6. StoreInv(log, cursor, status, wait, clock) /\ \A c \in reported : Told(log, c)
  BY AtRest
<1>7. /\ batch'.at = cursor + 1 /\ batch'.last = LastOfBatch
      /\ saved'.log = log /\ saved'.cursor = cursor /\ saved'.status = status /\ saved'.wait = wait
  BY <1>1
<1>8. InFlightInv'
  BY <1>1, <1>2, <1>3, <1>4, <1>6, <1>7 DEF InFlightInv
<1> QED BY <1>1, <1>4, <1>5, <1>6, <1>8 DEF BatchInv

\* A batch that throws before it looked at an event.
LEMMA FailsKeeps ==
  ASSUME IndInv, ~InBatch, NEW by, Fails(by)
  PROVE  (StoreInv(log, Dispatched, status, wait, clock) /\ BatchInv)'
<1>1. fresh' = FALSE /\ UNCHANGED <<log, cursor, status, wait, reported, batch, clock>>
  BY DEF Fails, Throws, storeVars
<1> QED BY <1>1, AtRest, ComesToRest

\* What a batch in flight knows of its event.
LEMMA InFlightFacts ==
  ASSUME IndInv, InBatch
  PROVE  /\ InFlightInv /\ StoreInv(log, Dispatched, status, wait, clock)
         /\ Dispatched = batch.at - 1 /\ batch.at \in Nat /\ batch.last \in Nat /\ cursor \in Nat
         /\ Len(log) \in Nat /\ Len(saved.log) \in Nat /\ clock \in Nat
         /\ log \in Seq(Event) /\ DOMAIN log = 1 .. Len(log)
         /\ DOMAIN saved.log = 1 .. Len(saved.log)
         /\ status \in [Runs -> RunStatus] /\ wait \in [Runs -> WaitRow]
         /\ \A c \in reported \cup batchReported : Told(log, c)
<1>1. /\ InFlightInv /\ StoreInv(log, Dispatched, status, wait, clock)
      /\ Dispatched = batch.at - 1 /\ batch.at \in Nat /\ batch.last \in Nat
      /\ clock \in Nat
  BY DispatcherAssumption DEF IndInv, BatchInv, Dispatched, MemoryInv
<1>2. saved.log \in Seq(Event) /\ log \in Seq(Event) /\ cursor \in 0 .. Len(saved.log)
  BY <1>1 DEF InFlightInv, StoreInv, LogInv, RowsInv
<1>3. /\ DOMAIN saved.log = 1 .. Len(saved.log) /\ DOMAIN log = 1 .. Len(log)
      /\ Len(log) \in Nat /\ Len(saved.log) \in Nat
  BY <1>2, LenProperties
<1>4. \A c : Told(saved.log, c) => Told(log, c)
  BY <1>1, <1>3 DEF InFlightInv, Told
<1>5. \A c \in reported \cup batchReported : Told(log, c)
  BY <1>1, <1>4 DEF InFlightInv
<1> QED BY <1>1, <1>2, <1>3, <1>5 DEF StoreInv, RowsInv

\* drop(): after it, loop.detected is in the log for the chain.
LEMMA DropFacts ==
  ASSUME IndInv, InBatch, NEW chain \in Seqs, Drop(chain)
  PROVE  /\ log' = log \/ (log' = Append(log, LoopDetected(log, chain)) /\ wakePending')
         /\ wakePending => wakePending'
         /\ StoreInv(log', Dispatched, status, wait, clock)
         /\ Len(log') \in Nat /\ Len(log) <= Len(log')
         /\ \A s \in 1 .. Len(log) : log'[s] = log[s]
         /\ \A s \in Len(log) + 1 .. Len(log') : log'[s].ts = clock
         /\ batchReported' \subseteq Seqs
         /\ \A c \in batchReported' : Told(log', c)
         /\ Told(log', chain)
<1> DEFINE e == LoopDetected(log, chain)
<1>1. batchReported \subseteq Seqs /\ chain \in Nat /\ chain # 0
  BY DispatcherAssumption DEF IndInv, MemoryInv, Seqs
<1>2. CASE chain \in reported \cup batchReported
  <2>1. log' = log /\ batchReported' = batchReported /\ wakePending' = wakePending
    BY <1>2 DEF Drop
  <2>2. Told(log, chain) /\ \A c \in batchReported : Told(log, c)
    BY <1>2, InFlightFacts
  <2> QED BY <1>1, <2>1, <2>2, InFlightFacts
<1>3. CASE chain \notin reported \cup batchReported /\ Told(log, chain)
  <2>1. log' = log /\ batchReported' = batchReported \cup {chain} /\ wakePending' = wakePending
    BY <1>3 DEF Drop, Told
  <2>2. \A c \in batchReported' : Told(log, c)
    BY <1>3, <2>1, InFlightFacts
  <2> QED BY <1>1, <1>3, <2>1, <2>2, InFlightFacts
<1>4. CASE chain \notin reported \cup batchReported /\ ~Told(log, chain)
  <2>1. batchReported' = batchReported \cup {chain} /\ Report(chain)
    BY <1>4 DEF Drop, Told
  <2>2. Len(log) + 1 \in Seqs /\ log' = Append(log, e) /\ wakePending'
    BY <2>1 DEF Report
  <2>3. /\ Len(log) \in Nat /\ log \in Seq(Event) /\ clock \in 0 .. MaxTime /\ clock \in Nat
        /\ Len(log) + 1 <= 2 * MaxEvents
    BY <2>2, InFlightFacts, DispatcherAssumption DEF IndInv, MemoryInv, Seqs
  <2>4. /\ e \in Event /\ e.ts = clock /\ e.root = Len(log) + 1 /\ e.type = "loop.detected"
        /\ e.about = chain
    BY <1>1, <2>2, <2>3 DEF LoopDetected, Event, Builtin
  <2> HIDE DEF e
  <2>5. StoreInv(log', Dispatched, status, wait, clock)
    <3>1. e.root <= Len(log) + 1
      BY <2>3, <2>4
    <3> QED BY <1>4, <2>2, <2>3, <2>4, <3>1, InFlightFacts, AppendKeeps
  <2>6. /\ Len(log') = Len(log) + 1 /\ DOMAIN log' = 1 .. Len(log) + 1
        /\ \A s \in 1 .. Len(log) : log'[s] = log[s]
        /\ log'[Len(log) + 1] = e
    BY <2>2, <2>3, <2>4, Appended
  <2>7. Told(log', chain) /\ \A c \in batchReported' : Told(log', c)
    <3>1. Told(log', chain)
      BY <2>3, <2>4, <2>6 DEF Told
    <3>2. \A c : Told(log, c) => Told(log', c)
      BY <2>2, <2>3, <2>4, StillTold
    <3> QED BY <2>1, <3>1, <3>2, InFlightFacts
  <2>8. \A s \in Len(log) + 1 .. Len(log') : log'[s].ts = clock
    <3>1. \A s \in Len(log) + 1 .. Len(log') : s = Len(log) + 1
      BY <2>3, <2>6
    <3> QED BY <2>4, <2>6, <3>1
  <2> QED BY <1>1, <2>1, <2>2, <2>3, <2>5, <2>6, <2>7, <2>8 DEF e
<1> QED BY <1>2, <1>3, <1>4

\* What is told in a log is told in a longer one.
LEMMA ToldLonger ==
  ASSUME NEW l, NEW m, DOMAIN l \subseteq DOMAIN m, \A s \in DOMAIN l : m[s] = l[s], NEW c,
         Told(l, c)
  PROVE  Told(m, c)
BY DEF Told

\* The runs of a set of waits.
RunsOfWaits(W) == {w.run : w \in W}

\* What the batch takes for pending is pending, so that it ends the waits the store holds.
LEMMA OpenIsPending ==
  ASSUME Open = PendingWaits, NEW e,
         NEW late, late = {w \in Open : Expired(w.expires, e.ts)},
         NEW answered, answered = {w \in Open \ late : w.type = e.type}
  PROVE  /\ RunsOfWaits(late) = ExpiredBy(wait, e.ts)
         /\ RunsOfWaits(answered) = AnsweredBy(wait, e)
         /\ RunsOfWaits(late \cup answered) = ExpiredBy(wait, e.ts) \cup AnsweredBy(wait, e)
<1>1. \A w \in Open : /\ w.run \in Runs /\ wait[w.run].outcome = "pending"
                      /\ w.type = wait[w.run].type /\ w.expires = wait[w.run].expires
  BY DEF PendingWaits, Armed
<1>2. \A r \in Runs : wait[r].outcome = "pending" =>
        \E w \in Open : w.run = r /\ w.type = wait[r].type /\ w.expires = wait[r].expires
  <2>1. ASSUME NEW r \in Runs, wait[r].outcome = "pending"
        PROVE  [run |-> r, type |-> wait[r].type, expires |-> wait[r].expires] \in Open
    BY <2>1 DEF PendingWaits, Armed
  <2> QED BY <2>1
<1>3. RunsOfWaits(late) = ExpiredBy(wait, e.ts)
  BY <1>1, <1>2 DEF RunsOfWaits, ExpiredBy
<1>4. RunsOfWaits(answered) = AnsweredBy(wait, e)
  BY <1>1, <1>2 DEF RunsOfWaits, AnsweredBy
<1>5. RunsOfWaits(late \cup answered) = RunsOfWaits(late) \cup RunsOfWaits(answered)
  BY DEF RunsOfWaits
<1> QED BY <1>3, <1>4, <1>5

\* A wait that ends is pending no more; the others stay as they are.
LEMMA EndedFacts ==
  ASSUME NEW w \in [Runs -> WaitRow], NEW late, NEW answered, NEW seq \in Nat, NEW w2,
         w2 = Ended(w, late, answered, seq), NEW r \in Runs
  PROVE  /\ w2[r].outcome = "pending"
              <=> w[r].outcome = "pending" /\ r \notin late /\ r \notin answered
         /\ w2[r].outcome = "pending" => w2[r] = w[r]
<1>1. w[r] \in WaitRow
  OBVIOUS
<1>0. w2[r] = IF w[r].outcome # "pending" THEN w[r]
              ELSE IF r \in late THEN [w[r] EXCEPT !.outcome = "timeout"]
              ELSE IF r \in answered THEN [w[r] EXCEPT !.outcome = "matched", !.event = seq]
              ELSE w[r]
  BY Zenon DEF Ended
<1>2. CASE w[r].outcome # "pending"
  BY <1>0, <1>2
<1>3. CASE w[r].outcome = "pending" /\ r \in late
  <2>1. w2[r] = [w[r] EXCEPT !.outcome = "timeout"]
    BY <1>0, <1>3
  <2> QED BY <1>1, <1>3, <2>1 DEF WaitRow
<1>4. CASE w[r].outcome = "pending" /\ r \notin late /\ r \in answered
  <2>1. w2[r] = [w[r] EXCEPT !.outcome = "matched", !.event = seq]
    BY <1>0, <1>4
  <2>2. w2[r].outcome = "matched"
    BY <1>1, <2>1 DEF WaitRow
  <2> QED BY <1>4, <2>2
<1>5. CASE w[r].outcome = "pending" /\ r \notin late /\ r \notin answered
  BY <1>0, <1>5
<1> QED BY <1>2, <1>3, <1>4, <1>5

\* The waits that stay open are those still pending.
LEMMA OpenStaysPending ==
  ASSUME Open = PendingWaits, NEW late, NEW answered, NEW seq \in Nat,
         wait' = Ended(wait, late, answered, seq), wait \in [Runs -> WaitRow],
         index' = index, batch'.ended = batch.ended \cup (late \cup answered)
  PROVE  Open' = PendingWaits'
<1> DEFINE over == late \cup answered
<1>1. \A r \in Runs : /\ wait'[r].outcome = "pending"
                           <=> wait[r].outcome = "pending" /\ r \notin over
                      /\ wait'[r].outcome = "pending" => wait'[r] = wait[r]
  BY EndedFacts
<1> HIDE DEF over
<1>2. Open' = {w \in Open : w.run \notin over}
  <2>1. batch'.ended = batch.ended \cup over
    BY DEF over
  <2> QED BY <2>1 DEF Open
<1>3. PendingWaits' = {w \in PendingWaits : w.run \notin over}
  BY <1>1 DEF PendingWaits, Armed
<1> QED BY <1>2, <1>3

\* One event of a batch.
LEMMA DispatchEventKeeps ==
  ASSUME IndInv, DispatchEvent
  PROVE  /\ (StoreInv(log, Dispatched, status, wait, clock) /\ BatchInv)'
         /\ batchReported' \subseteq Seqs /\ wakePending' \in BOOLEAN
         /\ batch'.at \in Nat /\ batch' = [batch EXCEPT !.at = @ + 1, !.ended = batch'.ended]
         /\ batch'.ended \subseteq Runs
         /\ Len(log) < Len(log') => wakePending'
         /\ wakePending => wakePending'
<1> DEFINE seq == batch.at
           e == log[seq]
           late == {w \in Open : Expired(w.expires, e.ts)}
           answered == {w \in Open \ late : w.type = e.type}
           deep == e.depth > MaxDepth
           ready == {t \in Tasks \ paused : Matches(t, e)
                       /\ (e.type = "cron.tick" /\ t \in OverlapSkip => ~HasActive(t))}
           new == {t \in ready : status[<<t, seq>>] = "none"}
           room(t) == Cardinality(ChainRuns(e.root)) + Cardinality(Earlier(new, t)) < MaxChainRuns
           starts == IF deep THEN {} ELSE {t \in new : room(t)}
<1>1. /\ InBatch /\ seq <= batch.last
      /\ EndWaits(RunsOfWaits(late), RunsOfWaits(answered), seq)
      /\ status' = [r \in Runs |-> IF r[2] = seq /\ r[1] \in starts THEN "queued"
                                   ELSE Requeued(RunsOfWaits(late \cup answered))[r]]
      /\ fresh' = (fresh /\ late \cup answered = {})
      /\ batch' = [batch EXCEPT !.at = seq + 1,
                                !.ended = @ \cup RunsOfWaits(late \cup answered)]
      /\ IF deep \/ \E t \in ready : ~room(t)
         THEN Drop(e.root)
         ELSE UNCHANGED <<log, batchReported, wakePending>>
      /\ UNCHANGED <<cursor, index, reported, saved, clock>>
  BY DEF DispatchEvent, Open, RunsOfWaits
<1> DEFINE over == ExpiredBy(wait, e.ts) \cup AnsweredBy(wait, e)
<1>2. /\ RunsOfWaits(late) = ExpiredBy(wait, e.ts)
      /\ RunsOfWaits(answered) = AnsweredBy(wait, e)
      /\ RunsOfWaits(late \cup answered) = over
  <2>1. Open = PendingWaits
    BY <1>1, InFlightFacts DEF InFlightInv
  <2> QED BY <2>1, OpenIsPending
<1>3. late \cup answered = {} => over = {}
  BY <1>2 DEF RunsOfWaits
<1> HIDE DEF late, answered
<1>4. /\ wait' = Ended(wait, ExpiredBy(wait, e.ts), AnsweredBy(wait, e), seq)
      /\ status' = Started(status, wait, e, seq, starts)
      /\ fresh' => fresh /\ over = {}
      /\ batch' = [batch EXCEPT !.at = seq + 1, !.ended = @ \cup over]
  <2>1. EndWaits(ExpiredBy(wait, e.ts), AnsweredBy(wait, e), seq)
    BY <1>1, <1>2
  <2>2. wait' = Ended(wait, ExpiredBy(wait, e.ts), AnsweredBy(wait, e), seq)
    BY <2>1, EndWaitsIs
  <2>3. Requeued(over) = Woken(status, wait, over)
    BY RequeuedIs
  <2> HIDE DEF starts
  <2>4. status' = Started(status, wait, e, seq, starts)
    BY <1>1, <1>2, <2>3 DEF Started
  <2> QED BY <1>1, <1>2, <1>3, <2>2, <2>4
<1>5. /\ InFlightInv /\ StoreInv(log, Dispatched, status, wait, clock) /\ Dispatched = seq - 1
      /\ seq \in Nat /\ batch.last \in Nat /\ cursor \in Nat /\ Len(log) \in Nat
      /\ Len(saved.log) \in Nat /\ clock \in Nat /\ log \in Seq(Event)
      /\ DOMAIN log = 1 .. Len(log) /\ seq \in 1 .. Len(log) /\ e \in Event
      /\ e.root \in Seqs /\ e.root \in Nat
      /\ status \in [Runs -> RunStatus] /\ wait \in [Runs -> WaitRow]
  <2>1. /\ InFlightInv /\ StoreInv(log, Dispatched, status, wait, clock) /\ Dispatched = seq - 1
        /\ seq \in Nat /\ batch.last \in Nat /\ cursor \in Nat /\ Len(log) \in Nat
        /\ Len(saved.log) \in Nat /\ clock \in Nat /\ log \in Seq(Event)
        /\ DOMAIN log = 1 .. Len(log)
        /\ status \in [Runs -> RunStatus] /\ wait \in [Runs -> WaitRow]
    BY <1>1, InFlightFacts
  <2>2. seq \in 1 .. Len(log)
    BY <1>1, <2>1 DEF InFlightInv
  <2>3. e \in Event
    BY <2>1, <2>2, ElementOfSeq
  <2> QED BY <2>1, <2>2, <2>3, Shapes
<1>6. /\ StoreInv(log', Dispatched, status, wait, clock)
      /\ Len(log') \in Nat /\ Len(log) <= Len(log')
      /\ \A s \in 1 .. Len(log) : log'[s] = log[s]
      /\ \A s \in Len(log) + 1 .. Len(log') : log'[s].ts = clock
      /\ batchReported' \subseteq Seqs
      /\ \A c \in batchReported' : Told(log', c)
      /\ \A c : Told(log, c) => Told(log', c)
      /\ deep => Told(log', e.root)
      /\ Len(log) < Len(log') => wakePending'
      /\ wakePending => wakePending'
      /\ wakePending' \in BOOLEAN
  <2>1. CASE Drop(e.root)
    <3>1. /\ log' = log \/ (log' = Append(log, LoopDetected(log, e.root)) /\ wakePending')
          /\ StoreInv(log', Dispatched, status, wait, clock)
          /\ Len(log') \in Nat /\ Len(log) <= Len(log')
          /\ \A s \in 1 .. Len(log) : log'[s] = log[s]
          /\ \A s \in Len(log) + 1 .. Len(log') : log'[s].ts = clock
          /\ batchReported' \subseteq Seqs
          /\ \A c \in batchReported' : Told(log', c)
          /\ Told(log', e.root)
          /\ wakePending => wakePending'
      BY <1>1, <1>5, <2>1, DropFacts
    <3>2. DOMAIN log' = 1 .. Len(log')
      BY <3>1, LenProperties DEF StoreInv, LogInv
    <3>3. \A c : Told(log, c) => Told(log', c)
      <4>0. /\ Len(log) \in Nat /\ Len(log') \in Nat /\ Len(log) <= Len(log')
            /\ DOMAIN log = 1 .. Len(log) /\ DOMAIN log' = 1 .. Len(log')
            /\ \A s \in 1 .. Len(log) : log'[s] = log[s]
        <5> HIDE DEF e
        <5>1. Len(log) \in Nat /\ DOMAIN log = 1 .. Len(log)
          BY <1>5
        <5>2. /\ Len(log') \in Nat /\ Len(log) <= Len(log')
              /\ \A s \in 1 .. Len(log) : log'[s] = log[s]
          BY <3>1
        <5> QED BY <3>2, <5>1, <5>2
      <4>1. DOMAIN log \subseteq DOMAIN log' /\ \A s \in DOMAIN log : log'[s] = log[s]
        BY <4>0
      <4> QED BY <4>1, ToldLonger
    <3>4. wakePending' \in BOOLEAN
      <4>1. wakePending' = wakePending \/ wakePending' = TRUE
        BY <2>1 DEF Drop, Report
      <4> QED BY <4>1 DEF IndInv, MemoryInv
    <3>5. Len(log) < Len(log') => wakePending'
      BY <1>5, <3>1
    <3> QED BY <3>1, <3>3, <3>4, <3>5
  <2>2. CASE ~deep /\ UNCHANGED <<log, batchReported, wakePending>>
    <3>1. batchReported \subseteq Seqs /\ \A c \in batchReported : Told(log, c)
      BY <1>5 DEF IndInv, MemoryInv, InFlightInv
    <3>2. ~(Len(log) < Len(log)) /\ wakePending \in BOOLEAN
      BY <1>5 DEF IndInv, MemoryInv
    <3> QED BY <1>5, <2>2, <3>1, <3>2
  <2> QED BY <1>1, <2>1, <2>2
<1>7. MayStart(log', status, e, starts)
  <2>1. new \in SUBSET Nat /\ new \subseteq Tasks /\ IsFiniteSet(new)
    <3>1. new \in SUBSET Tasks /\ Tasks \subseteq Nat /\ IsFiniteSet(Tasks)
      BY DispatcherAssumption
    <3> QED BY <3>1, FS_Subset
  <2>2. /\ ChainRuns(e.root) = RunsOf(log', status, e.root)
        /\ Cardinality(ChainRuns(e.root)) \in Nat
        /\ Cardinality(ChainRuns(e.root)) <= MaxChainRuns /\ MaxChainRuns \in Nat
    <3>1. RunsOf(log', status, e.root) = RunsOf(log, status, e.root)
      <4>1. DOMAIN log' = 1 .. Len(log')
        BY <1>6, LenProperties DEF StoreInv, LogInv
      <4>2. 1 .. Len(log) \subseteq DOMAIN log'
        BY <1>5, <1>6, <4>1
      <4>3. /\ RowsInv(log, Dispatched, status, wait) /\ Len(log) \in Nat
            /\ DOMAIN log = 1 .. Len(log) /\ \A s \in 1 .. Len(log) : log'[s] = log[s]
        BY <1>5, <1>6 DEF StoreInv
      <4> HIDE DEF e
      <4> QED BY <4>2, <4>3, SameRunsOf
    <3>2. ChainRuns(e.root) = RunsOf(log, status, e.root)
      BY DEF ChainRuns, RunsOf
    <3>3. ChainRuns(e.root) \in SUBSET Runs
      BY DEF ChainRuns
    <3>4. Cardinality(ChainRuns(e.root)) \in Nat
      BY <3>3, RunsAreFinite, SubsetIsSmaller
    <3>5. Cardinality(RunsOf(log, status, e.root)) <= MaxChainRuns
      BY <1>5 DEF StoreInv, ChainsInv
    <3> QED BY <3>1, <3>2, <3>4, <3>5, DispatcherAssumption
  <2>3. /\ starts \subseteq new /\ starts \subseteq Tasks /\ IsFiniteSet(starts)
    <3>1. starts \in SUBSET new
      OBVIOUS
    <3> QED BY <2>1, <3>1, FS_Subset
  <2>4. Cardinality(ChainRuns(e.root)) + Cardinality(starts) <= MaxChainRuns
    <3>1. CASE deep
      <4>1. Cardinality(starts) = 0
        BY <3>1, FS_EmptySet
      <4> HIDE DEF starts
      <4> QED BY <2>2, <4>1
    <3>2. CASE ~deep
      <4> DEFINE n == Cardinality(ChainRuns(e.root))
      <4>1. starts = {t \in new : n + Cardinality(Earlier(new, t)) < MaxChainRuns}
        BY <3>2
      <4>2. n \in Nat /\ n <= MaxChainRuns /\ MaxChainRuns \in Nat
        BY <2>2
      <4> HIDE DEF n, starts, new
      <4>3. n + Cardinality(starts) <= MaxChainRuns
        BY <2>1, <4>1, <4>2, StartsFit
      <4> QED BY <4>3 DEF n
    <3> QED BY <3>1, <3>2
  <2>5. ASSUME e.type = "cron.tick", NEW t \in starts \cap OverlapSkip, NEW s \in Seqs
        PROVE  status[<<t, s>>] \notin Active
    <3>1. t \in ready /\ t \in OverlapSkip
      OBVIOUS
    <3>2. ~HasActive(t)
      BY <2>5, <3>1
    <3> HIDE DEF starts, ready, new, e
    <3> QED BY <3>2 DEF HasActive
  <2> HIDE DEF starts, new
  <2> QED BY <2>2, <2>3, <2>4, <2>5 DEF MayStart
<1> HIDE DEF starts, new, ready, room, deep, over
<1>8. StoreInv(log', seq, status', wait', clock)
  <2>1. seq = (seq - 1) + 1 /\ seq <= Len(log') /\ e = log'[seq]
    BY <1>5, <1>6
  <2>2. e.depth > MaxDepth => Told(log', e.root)
    BY <1>6 DEF deep
  <2>3. StoreInv(log', seq - 1, status, wait, clock)
    BY <1>5, <1>6
  <2> HIDE DEF seq, e
  <2> QED BY <1>4, <1>5, <1>7, <2>1, <2>2, <2>3, DispatchKeeps
<1>9. /\ batch'.at = seq + 1 /\ batch'.last = batch.last /\ batch'.by = batch.by
      /\ batch'.ended = batch.ended \cup over
      /\ batch' = [batch EXCEPT !.at = @ + 1, !.ended = batch'.ended]
      /\ batch'.ended \subseteq Runs
  <2>1. batch \in [at : Nat, last : Nat, by : {"none", "step", "drain"}, ended : SUBSET Runs]
    BY DEF IndInv, MemoryInv
  <2>2. over \subseteq Runs
    BY DEF over, ExpiredBy, AnsweredBy
  <2> QED BY <1>4, <2>1, <2>2
<1>10. Dispatched' = seq /\ InBatch'
  BY <1>1, <1>5, <1>9 DEF Dispatched, InBatch
<1>11. Open' = PendingWaits'
  <2>1. /\ Open = PendingWaits
        /\ batch'.ended = batch.ended \cup (ExpiredBy(wait, e.ts) \cup AnsweredBy(wait, e))
    BY <1>5, <1>9 DEF InFlightInv, over
  <2>2. index' = index
    BY <1>1
  <2> HIDE DEF e
  <2> QED BY <1>4, <1>5, <2>1, <2>2, OpenStaysPending
<1>12. InFlightInv'
  <2>1. /\ cursor < seq /\ seq <= batch.last + 1
        /\ batch.last <= cursor + BatchSize
        /\ batch.last <= Len(saved.log) /\ Len(saved.log) <= Len(log)
        /\ batch.last < cursor + BatchSize => batch.last = Len(saved.log)
        /\ \A s \in 1 .. Len(saved.log) : log[s] = saved.log[s]
        /\ \A s \in Len(saved.log) + 1 .. Len(log) : log[s].ts = clock
        /\ saved.cursor = cursor
        /\ StoreInv(saved.log, saved.cursor, saved.status, saved.wait, clock)
        /\ \A c \in reported : Told(saved.log, c)
    BY <1>5 DEF InFlightInv
  <2>2. /\ cursor' = cursor /\ saved' = saved /\ clock' = clock /\ reported' = reported
    BY <1>1
  <2>3. cursor' < batch'.at /\ batch'.at <= batch'.last + 1
    BY <1>1, <1>5, <1>9, <2>1, <2>2
  <2>4. Len(saved.log) <= Len(log')
    BY <1>5, <1>6, <2>1
  <2>5. \A s \in 1 .. Len(saved.log) : log'[s] = saved.log[s]
    BY <1>5, <1>6, <2>1
  <2>6. \A s \in Len(saved.log) + 1 .. Len(log') : log'[s].ts = clock
    <3>1. \A s \in Len(saved.log) + 1 .. Len(log') :
            \/ s \in Len(saved.log) + 1 .. Len(log) /\ s \in 1 .. Len(log)
            \/ s \in Len(log) + 1 .. Len(log')
      BY <1>5, <1>6
    <3> QED BY <1>6, <2>1, <3>1
  <2> HIDE DEF seq, e
  <2> QED BY <1>6, <1>9, <1>11, <2>1, <2>2, <2>3, <2>4, <2>5, <2>6 DEF InFlightInv
<1>13. fresh' => index' = PendingWaits'
  <2>1. ASSUME over = {} PROVE wait' = wait
    <3>1. ExpiredBy(wait, e.ts) = {} /\ AnsweredBy(wait, e) = {}
      BY <2>1 DEF over
    <3> HIDE DEF seq, e
    <3> QED BY <1>4, <1>5, <3>1, NoneEnds
  <2>2. over = {} => PendingWaits' = PendingWaits
    BY <2>1 DEF PendingWaits, Armed
  <2> QED BY <1>1, <1>4, <2>2 DEF IndInv, BatchInv
<1> QED
  <2>1. (StoreInv(log, Dispatched, status, wait, clock) /\ BatchInv)'
    BY <1>1, <1>8, <1>10, <1>12, <1>13 DEF BatchInv
  <2>2. batch'.at \in Nat
    BY <1>5, <1>9
  <2> QED BY <1>6, <1>9, <2>1, <2>2

\* COMMIT.
LEMMA CommitKeeps ==
  ASSUME IndInv, CommitBatch
  PROVE  (StoreInv(log, Dispatched, status, wait, clock) /\ BatchInv)'
<1>1. /\ InBatch /\ batch.at > batch.last
      /\ status' = Requeued(DueAtCommit) /\ fresh' = (fresh /\ DueAtCommit = {})
      /\ cursor' = batch.last /\ batch' = NoBatch
      /\ reported' \subseteq reported \cup batchReported
      /\ UNCHANGED <<log, index, clock>>
  BY DEF CommitBatch
<1>2. ASSUME NEW none, none = {}, NEW z, z = 0
      PROVE  EndWaits(DueAtCommit, none, z)
  BY <1>2 DEF CommitBatch
<1>3. /\ InFlightInv /\ batch.last \in Nat /\ cursor \in Nat /\ BatchSize \in Nat
      /\ clock \in Nat /\ Dispatched = batch.last
      /\ StoreInv(log, batch.last, status, wait, clock)
      /\ \A c \in reported' : Told(log, c)
  <2>1. Dispatched = batch.last
    BY <1>1, InFlightFacts DEF InFlightInv
  <2> QED BY <1>1, <2>1, InFlightFacts, DispatcherAssumption
<1>4. \/ DueAtCommit = {}
      \/ DueAtCommit = ExpiredNow /\ \A s \in batch.last + 1 .. Len(log) : log[s].ts = clock
  <2>1. ASSUME ~Full
        PROVE  \A s \in batch.last + 1 .. Len(log) : log[s].ts = clock
    <3>0. batch.last <= cursor + BatchSize /\ batch.last - cursor # BatchSize
      BY <1>3, <2>1 DEF Full, InFlightInv
    <3>1. batch.last < cursor + BatchSize
      BY <1>3, <3>0
    <3> QED BY <1>3, <3>1 DEF InFlightInv
  <2> QED BY <2>1 DEF DueAtCommit
<1>5. /\ StoreInv(log, batch.last, status', wait', clock)
      /\ DueAtCommit = {} => PendingWaits' = PendingWaits
  BY <1>1, <1>2, <1>3, <1>4, DueKeeps
<1> QED BY <1>1, <1>3, <1>5, ComesToRest DEF IndInv, BatchInv

\* The store of a transaction taken back is the one it began with.
LEMMA RestoreKeeps ==
  ASSUME IndInv, InBatch, RestoreSaved, UNCHANGED clock, fresh' = FALSE,
         reported' \subseteq reported
  PROVE  (StoreInv(log, Dispatched, status, wait, clock) /\ BatchInv)'
<1>1. /\ log' = saved.log /\ cursor' = saved.cursor /\ status' = saved.status
      /\ wait' = saved.wait /\ batch' = NoBatch
  BY DEF RestoreSaved
<1>2. /\ StoreInv(saved.log, saved.cursor, saved.status, saved.wait, clock)
      /\ \A c \in reported : Told(saved.log, c)
  BY InFlightFacts DEF InFlightInv
<1> QED BY <1>1, <1>2, ComesToRest

\* ROLLBACK.
LEMMA RollbackKeeps ==
  ASSUME IndInv, Rollback
  PROVE  (StoreInv(log, Dispatched, status, wait, clock) /\ BatchInv)'
<1>1. InBatch /\ RestoreSaved /\ fresh' = FALSE
  BY DEF Rollback, Throws
<1>2. reported' \subseteq reported /\ UNCHANGED clock
  BY DEF Rollback, Throws
<1> QED BY <1>1, <1>2, RestoreKeeps

\* The process is gone: what it remembered is, too.
LEMMA ForgottenKeeps ==
  ASSUME IndInv, Crash \/ Exit
  PROVE  (StoreInv(log, Dispatched, status, wait, clock) /\ BatchInv)'
<1>1. fresh' = FALSE /\ reported' = {} /\ clock' = clock
  BY DEF Crash, Exit, Forgotten
<1>2. CASE InBatch
  <2>1. RestoreSaved
    BY <1>2 DEF Crash, Exit, Idle
  <2> QED BY <1>1, <1>2, <2>1, RestoreKeeps
<1>3. CASE ~InBatch
  <2>1. UNCHANGED <<log, cursor, status, wait, batch>>
    BY <1>3 DEF Crash, Exit, storeVars
  <2> QED BY <1>1, <1>3, <2>1, AtRest, ComesToRest
<1> QED BY <1>2, <1>3

\* The index never lists anything but runs.
LEMMA IndexOfRuns == \A w \in PendingWaits : w.run \in Runs
BY DEF PendingWaits

LEMMA NoBatchIs ==
  NoBatch \in [at : Nat, last : Nat, by : {"none", "step", "drain"}, ended : SUBSET Runs]
BY DEF NoBatch

\* The types outside the store, in every step.
LEMMA MemoryKeeps ==
  ASSUME IndInv, Next
  PROVE  MemoryInv'
<1> USE DispatcherAssumption DEF MemoryInv
<1>0. MemoryInv
  BY DEF IndInv
<1>1. ASSUME NEW type \in Types, Publish(type) PROVE MemoryInv'
  BY <1>0, <1>1 DEF Publish, batchVars
<1>2. ASSUME NEW t \in Tasks, Tick(t) \/ RunManually(t) PROVE MemoryInv'
  BY <1>0, <1>2 DEF Tick, RunManually, batchVars
<1>3. ASSUME NEW t \in Tasks, Pause(t) PROVE MemoryInv'
  BY <1>0, <1>3 DEF Pause, memoryVars, batchVars
<1>4. CASE Explain
  BY <1>0, <1>4, IndexOfRuns DEF Explain, batchVars
<1>5. CASE ClockTicks
  BY <1>0, <1>5 DEF ClockTicks, memoryVars, batchVars
<1>6. ASSUME NEW r \in Runs, Begin(r) PROVE MemoryInv'
  BY <1>0, <1>6 DEF Begin, memoryVars, batchVars
<1>7. ASSUME NEW r \in Runs, Finish(r) \/ Cancel(r) PROVE MemoryInv'
  <2>1. /\ wakePending' = TRUE /\ fresh' = FALSE
        /\ UNCHANGED <<paused, index, reported, batchReported, healthy, batchVars, mode, clock>>
    BY <1>7 DEF Finish, Cancel, EndRun
  <2> QED BY <1>0, <2>1 DEF batchVars
<1>8. ASSUME NEW r \in Runs, NEW type \in Awaited, NEW timeout \in Timeouts,
             Suspend(r, type, timeout)
      PROVE  MemoryInv'
  <2>1. /\ fresh' = FALSE
        /\ UNCHANGED <<paused, index, reported, batchReported, wakePending, healthy, batchVars,
                       mode, clock>>
    BY <1>8 DEF Suspend
  <2> QED BY <1>0, <2>1 DEF batchVars
<1>9. ASSUME NEW by \in {"step", "drain"}, ~InBatch, Dispatch(by), wakePending' \in BOOLEAN
      PROVE  MemoryInv'
  <2>1. CASE BeginBatch(by)
    <3>1. /\ batch' = [at |-> cursor + 1, last |-> LastOfBatch, by |-> by, ended |-> {}]
          /\ index' \in {index, PendingWaits} /\ fresh' = TRUE /\ batchReported' = {}
          /\ UNCHANGED <<reported, healthy, draining, mode, paused, clock>>
      BY <1>9, <2>1 DEF BeginBatch, Dispatch
    <3>2. cursor + 1 \in Nat /\ LastOfBatch \in Nat
      BY <1>9, LastOfBatchIs
    <3> QED BY <1>0, <1>9, <3>1, <3>2, IndexOfRuns
  <2>2. CASE CaughtUp(by)
    <3>1. /\ fresh' \in BOOLEAN /\ batchReported' = {} /\ healthy' \in BOOLEAN /\ draining' = FALSE
          /\ mode' \in {"up", mode}
          /\ UNCHANGED <<index, reported, batch, paused, clock>>
      BY <1>9, <2>2 DEF CaughtUp, Dispatch
    <3> QED BY <1>0, <1>9, <3>1
  <2> QED BY <1>9, <2>1, <2>2 DEF Dispatch
<1>10. CASE WakeStep \/ TimerStep \/ DrainStep
  BY <1>0, <1>9, <1>10 DEF WakeStep, TimerStep, DrainStep, Idle
<1>11. CASE DispatchEvent
  <2>1. /\ batchReported' \subseteq Seqs /\ wakePending' \in BOOLEAN
        /\ batch'.at \in Nat /\ batch' = [batch EXCEPT !.at = @ + 1, !.ended = batch'.ended]
        /\ batch'.ended \subseteq Runs
    BY <1>11, DispatchEventKeeps
  <2>2. fresh' \in BOOLEAN /\ UNCHANGED <<paused, index, reported, healthy, draining, mode, clock>>
    BY <1>11 DEF DispatchEvent
  <2> QED BY <1>0, <2>1, <2>2
<1>12. CASE CommitBatch
  <2>1. /\ fresh' \in BOOLEAN /\ batch' = NoBatch /\ reported' \subseteq reported \cup batchReported
        /\ batchReported' = {} /\ healthy' \in BOOLEAN /\ wakePending' \in BOOLEAN
        /\ draining' \in BOOLEAN /\ mode' \in {"up", mode} /\ UNCHANGED <<paused, index, clock>>
    BY <1>12 DEF CommitBatch
  <2> QED BY <1>0, <2>1 DEF NoBatch
<1>13. CASE StepFails \/ DrainFails \/ Rollback
  <2>1. /\ fresh' = FALSE /\ healthy' \in BOOLEAN /\ draining' = FALSE
        /\ batchReported' \in {{}, batchReported} /\ wakePending' \in {wakePending, FALSE}
        /\ batch' \in {batch, NoBatch} /\ UNCHANGED <<paused, index, reported, mode, clock>>
    BY <1>13 DEF StepFails, DrainFails, Rollback, Fails, Throws, RestoreSaved
  <2> QED BY <1>0, <2>1, NoBatchIs
<1>14. CASE Boot \/ Stop
  BY <1>0, <1>14 DEF Boot, Stop, memoryVars, batchVars
<1>15. CASE Exit \/ Crash
  <2>1. /\ mode' = "down" /\ index' = {} /\ fresh' = FALSE /\ reported' = {} /\ batchReported' = {}
        /\ wakePending' = FALSE /\ healthy' = TRUE /\ draining' = FALSE
        /\ batch' \in {batch, NoBatch} /\ UNCHANGED <<paused, clock>>
    BY <1>15 DEF Exit, Crash, Forgotten, RestoreSaved
  <2> QED BY <1>0, <2>1, NoBatchIs
<1> QED
  BY <1>1, <1>2, <1>3, <1>4, <1>5, <1>6, <1>7, <1>8, <1>10, <1>11, <1>12, <1>13, <1>14, <1>15
  DEF Next, Environment, Drain, StoreFault

\* Every step keeps the store and the batch sound.
LEMMA StoreAndBatchKeep ==
  ASSUME IndInv, Next
  PROVE  (StoreInv(log, Dispatched, status, wait, clock) /\ BatchInv)'
<1> DEFINE Goal == (StoreInv(log, Dispatched, status, wait, clock) /\ BatchInv)'
<1>1. ASSUME NEW type \in Types \cup Builtin, type # "loop.detected" \/ type \in Types,
             NEW about \in Nat, type = "loop.detected" => about = 0, Serving, Len(log) < MaxEvents,
             log' = Append(log, NewEvent(type, 0, 0, about)),
             UNCHANGED <<cursor, status, wait, index, fresh, reported, batch, clock>>
      PROVE  Goal
  BY <1>1, PublishKeeps DEF Serving, Idle
<1>2. ASSUME NEW type \in Types, Publish(type) PROVE Goal
  <2>1. /\ Serving /\ Len(log) < MaxEvents /\ log' = Append(log, NewEvent(type, 0, 0, 0))
        /\ UNCHANGED <<cursor, status, wait, index, fresh, reported, batch, clock>>
    BY <1>2 DEF Publish, batchVars
  <2> QED BY <1>1, <2>1
<1>3. ASSUME NEW t \in Tasks, Tick(t) PROVE Goal
  <2>1. /\ Serving /\ Len(log) < MaxEvents /\ log' = Append(log, NewEvent("cron.tick", 0, 0, t))
        /\ UNCHANGED <<cursor, status, wait, index, fresh, reported, batch, clock>>
    BY <1>3 DEF Tick, batchVars
  <2>2. "cron.tick" \in Types \cup Builtin /\ t \in Nat
    BY DispatcherAssumption DEF Builtin
  <2> QED BY <1>1, <2>1, <2>2
<1>4. ASSUME NEW t \in Tasks, RunManually(t) PROVE Goal
  <2>1. /\ Serving /\ Len(log) < MaxEvents /\ log' = Append(log, NewEvent("manual.run", 0, 0, t))
        /\ UNCHANGED <<cursor, status, wait, index, fresh, reported, batch, clock>>
    BY <1>4 DEF RunManually
  <2>2. "manual.run" \in Types \cup Builtin /\ t \in Nat
    BY DispatcherAssumption DEF Builtin
  <2> QED BY <1>1, <2>1, <2>2
<1>5. CASE Explain
  <2>1. /\ ~InBatch /\ index' = PendingWaits /\ fresh' = TRUE
        /\ UNCHANGED <<storeVars, batch, saved, reported, batchReported, clock>>
    BY <1>5 DEF Explain, Serving, Idle, batchVars
  <2> QED BY <2>1, StoreSame
<1>6. ASSUME \/ \E t \in Tasks : Pause(t)
             \/ Boot
             \/ Stop
      PROVE  Goal
  <2>1. UNCHANGED <<storeVars, batch, saved, reported, batchReported, clock, index, fresh>>
    BY <1>6 DEF Pause, Boot, Stop, memoryVars, batchVars
  <2> QED BY <2>1, StoreSame
<1>7. CASE ClockTicks
  BY <1>7, ClockKeeps
<1>8. ASSUME NEW r \in Runs, Begin(r) PROVE Goal
  BY <1>8, BeginKeeps
<1>9. ASSUME NEW r \in Runs, Finish(r) \/ Cancel(r) PROVE Goal
  <2>1. ~InBatch /\ status[r] \in Active
    BY <1>9 DEF Finish, Cancel, Serving, Idle, Active
  <2>2. \/ EndRun(r, <<>>)
        \/ \E type \in Types : EndRun(r, <<NewEvent(type, r[1], r[2], 0)>>)
    <3>1. Emits[r[1]] \subseteq Types
      BY Shapes, DispatcherAssumption
    <3> QED BY <1>9, <3>1 DEF Finish, Cancel
  <2>3. UNCHANGED <<batchVars, clock>>
    BY <2>2 DEF EndRun
  <2> QED BY <2>1, <2>2, <2>3, EndRunKeeps
<1>10. ASSUME NEW r \in Runs, NEW type \in Awaited, NEW timeout \in Timeouts,
              Suspend(r, type, timeout)
       PROVE  Goal
  BY <1>10, SuspendKeeps
<1>11. CASE WakeStep \/ TimerStep \/ DrainStep
  <2>1. ~InBatch /\ \E by \in {"step", "drain"} : Dispatch(by)
    BY <1>11 DEF WakeStep, TimerStep, DrainStep, Idle
  <2>2. ASSUME NEW by \in {"step", "drain"}, Dispatch(by) PROVE Goal
    BY <2>1, <2>2, BeginBatchKeeps, CaughtUpKeeps DEF Dispatch
  <2> QED BY <2>1, <2>2
<1>12. CASE StepFails \/ DrainFails
  <2>1. ASSUME NEW by, Fails(by), ~InBatch PROVE Goal
    BY <2>1, FailsKeeps
  <2>2. CASE StepFails
    <3>1. ~InBatch /\ Fails("step")
      BY <2>2 DEF StepFails, Idle
    <3> QED BY <2>1, <3>1
  <2>3. CASE DrainFails
    <3>1. ~InBatch /\ Fails("drain")
      BY <2>3 DEF DrainFails
    <3> QED BY <2>1, <3>1
  <2> QED BY <1>12, <2>2, <2>3
<1>13. CASE DispatchEvent \/ CommitBatch \/ Rollback \/ Exit \/ Crash
  BY <1>13, DispatchEventKeeps, CommitKeeps, RollbackKeeps, ForgottenKeeps
<1> QED
  BY <1>2, <1>3, <1>4, <1>5, <1>6, <1>7, <1>8, <1>9, <1>10, <1>11, <1>12, <1>13
  DEF Next, Environment, Drain, StoreFault

\* The invariant holds of an empty store, and a step that changes nothing keeps it.
LEMMA StartsSound == Init => IndInv
<1> SUFFICES ASSUME Init PROVE IndInv
  OBVIOUS
<1>1. /\ log = <<>> /\ cursor = 0 /\ status = [r \in Runs |-> "none"] /\ wait = [r \in Runs |-> NoWait]
      /\ batch = NoBatch /\ reported = {} /\ fresh = FALSE
  BY DEF Init
<1>2. ~InBatch /\ Dispatched = cursor
  BY <1>1 DEF InBatch, NoBatch, Dispatched
<1>3. MemoryInv
  <2>1. /\ paused = {} /\ clock = 0 /\ index = {} /\ wakePending = FALSE /\ healthy = TRUE
        /\ draining = FALSE /\ batchReported = {} /\ mode = "down"
    BY DEF Init
  <2>2. clock \in 0 .. MaxTime
    BY <2>1, DispatcherAssumption
  <2>3. batch \in [at : Nat, last : Nat, by : {"none", "step", "drain"}, ended : SUBSET Runs]
    BY <1>1, NoBatchIs
  <2> QED BY <1>1, <2>1, <2>2, <2>3 DEF MemoryInv
<1>4. /\ log \in Seq(Event) /\ Len(log) = 0 /\ DOMAIN log = 1 .. 0 /\ 2 * MaxEvents \in Nat
  <2>1. log \in Seq(Event) /\ Len(log) = 0
    BY <1>1, EmptySeq
  <2> QED BY <2>1, LenProperties, Shapes
<1>5. LogInv(log, clock)
  BY <1>4 DEF LogInv
<1>6. RowsInv(log, cursor, status, wait)
  <2>1. \A r \in Runs : status[r] = "none" /\ wait[r].outcome = "none"
    BY <1>1 DEF NoWait
  <2>2. status \in [Runs -> RunStatus] /\ wait \in [Runs -> WaitRow]
    BY <1>1, Shapes DEF RunStatus
  <2>3. cursor \in 0 .. Len(log)
    BY <1>1, <1>4
  <2> QED BY <2>1, <2>2, <2>3 DEF RowsInv
<1>7. ASSUME NEW r \in Runs PROVE WaitInv(log, cursor, r, wait[r], clock)
  <2>1. wait[r] = NoWait
    BY <1>1
  <2>2. WaitInv(log, cursor, r, NoWait, clock)
    BY <1>1 DEF WaitInv, NoWait
  <2> QED BY <2>1, <2>2
<1>8. OverlapInv(log, status) /\ DropsInv(log, cursor)
  BY <1>1, <1>4 DEF OverlapInv, DropsInv
<1>9. ChainsInv(log, status)
  <2>1. \A c \in Nat : RunsOf(log, status, c) = {}
    BY <1>1 DEF RunsOf
  <2>2. Cardinality({}) = 0
    BY FS_EmptySet
  <2> QED BY <2>1, <2>2, DispatcherAssumption DEF ChainsInv
<1> QED BY <1>1, <1>2, <1>3, <1>5, <1>6, <1>7, <1>8, <1>9 DEF IndInv, StoreInv, BatchInv

LEMMA StutterKeeps ==
  ASSUME IndInv, UNCHANGED vars
  PROVE  IndInv'
<1>1. /\ UNCHANGED <<storeVars, batch, saved, reported, batchReported, clock, index, fresh>>
      /\ UNCHANGED <<paused, wakePending, healthy, draining, mode>>
  BY DEF vars, memoryVars, batchVars
<1>2. (StoreInv(log, Dispatched, status, wait, clock) /\ BatchInv)'
  BY <1>1, StoreSame
<1>3. MemoryInv'
  BY <1>1 DEF IndInv, MemoryInv
<1> QED BY <1>2, <1>3 DEF IndInv

\* The invariant, in every behaviour.
THEOREM DispatcherInvariant == Spec => []IndInv
<1>1. IndInv /\ [Next]_vars => IndInv'
  <2>1. IndInv /\ Next => IndInv'
    BY MemoryKeeps, StoreAndBatchKeep DEF IndInv
  <2> QED BY <2>1, StutterKeeps
<1> QED BY <1>1, StartsSound, PTL DEF Spec

-----------------------------------------------------------------------------
(***************************************************************************)
(* 4. What keeps a drain scheduled.                                        *)
(***************************************************************************)

\* Steps of the environment schedule a drain for what they publish.
LEMMA WakeAtRest ==
  ASSUME WakeInv, ~InBatch, ~draining, UNCHANGED <<batch, cursor, healthy>>, ~draining',
         wakePending' \/ (UNCHANGED <<log, wakePending>> /\ mode' = mode) \/ mode' # "up"
  PROVE  WakeInv'
<1>1. ~InBatch'
  BY DEF InBatch
<1> QED BY <1>1 DEF WakeInv, NoLostWake, Idle

\* What a batch that does not take as many events as it may leaves over is newer than it.
LEMMA LeftOver ==
  ASSUME IndInv, InBatch, ~Full
  PROVE  batch.last = Len(saved.log) /\ Len(log) \in Nat /\ Len(saved.log) <= Len(log)
<1>1. /\ batch.last <= cursor + BatchSize /\ batch.last - cursor # BatchSize
      /\ batch.last < cursor + BatchSize => batch.last = Len(saved.log)
      /\ Len(saved.log) <= Len(log)
      /\ batch.last \in Nat /\ cursor \in Nat /\ BatchSize \in Nat /\ Len(log) \in Nat
  BY InFlightFacts, DispatcherAssumption DEF InFlightInv, Full
<1> QED BY <1>1

\* Every step keeps a backlog scheduled.
LEMMA WakeKeeps ==
  ASSUME IndInv, WakeInv, Next
  PROVE  WakeInv'
<1>1. ASSUME NEW type \in Types, Publish(type) PROVE WakeInv'
  BY <1>1, WakeAtRest DEF Publish, Serving, Idle, batchVars
<1>2. ASSUME NEW t \in Tasks, Tick(t) PROVE WakeInv'
  BY <1>2, WakeAtRest DEF Tick, Serving, Idle, batchVars
<1>3. ASSUME NEW t \in Tasks, RunManually(t) PROVE WakeInv'
  <2>1. ~InBatch /\ wakePending' = TRUE /\ mode' = "up" /\ UNCHANGED batch
    BY <1>3 DEF RunManually, Serving, Idle
  <2>2. ~InBatch'
    BY <2>1 DEF InBatch
  <2> QED BY <2>1, <2>2 DEF WakeInv, NoLostWake
<1>4. ASSUME NEW t \in Tasks, Pause(t) PROVE WakeInv'
  BY <1>4, WakeAtRest DEF Pause, Serving, Idle, storeVars, memoryVars, batchVars
<1>5. CASE Explain
  BY <1>5, WakeAtRest DEF Explain, Serving, Idle, storeVars, batchVars
<1>6. CASE ClockTicks
  BY <1>6, WakeAtRest DEF ClockTicks, Idle, storeVars, memoryVars, batchVars
<1>7. ASSUME NEW r \in Runs, Begin(r) PROVE WakeInv'
  BY <1>7, WakeAtRest DEF Begin, Serving, Idle, memoryVars, batchVars
<1>8. ASSUME NEW r \in Runs, Finish(r) \/ Cancel(r) PROVE WakeInv'
  <2>1. /\ ~InBatch /\ ~draining /\ wakePending' = TRUE
        /\ UNCHANGED <<batchVars, cursor, healthy>>
    BY <1>8 DEF Finish, Cancel, EndRun, Serving, Idle
  <2> QED BY <2>1, WakeAtRest DEF batchVars
<1>9. ASSUME NEW r \in Runs, NEW type \in Awaited, NEW timeout \in Timeouts,
             Suspend(r, type, timeout)
      PROVE  WakeInv'
  <2>1. /\ ~InBatch /\ ~draining
        /\ UNCHANGED <<batchVars, cursor, healthy, log, wakePending, mode>>
    BY <1>9 DEF Suspend, Serving, Idle
  <2> QED BY <2>1, WakeAtRest DEF batchVars
<1>10. ASSUME NEW by \in {"step", "drain"}, ~InBatch, by = "drain" <=> draining,
              by = "step" => mode = "up", Dispatch(by),
              UNCHANGED wakePending \/ by = "step"
       PROVE  WakeInv'
  <2>1. CASE BeginBatch(by)
    <3>1. /\ batch'.by = by /\ saved'.log = log
          /\ UNCHANGED <<log, cursor, healthy, draining, mode>>
      BY <1>10, <2>1 DEF BeginBatch, storeVars
    <3>2. InBatch'
      BY <1>10, <3>1 DEF InBatch
    <3>3. Len(log) \in Nat
      BY <1>10, AtRest
    <3> QED BY <1>10, <3>1, <3>2, <3>3 DEF WakeInv, NoLostWake, Idle
  <2>2. CASE CaughtUp(by)
    <3>1. cursor = Len(log) /\ draining' = FALSE /\ UNCHANGED <<log, cursor, batch>>
      BY <1>10, <2>2 DEF CaughtUp
    <3>2. ~InBatch' /\ Len(log) \in Nat
      BY <1>10, <3>1, AtRest DEF InBatch
    <3> QED BY <3>1, <3>2 DEF WakeInv, NoLostWake
  <2> QED BY <1>10, <2>1, <2>2 DEF Dispatch
<1>11. CASE WakeStep \/ TimerStep \/ DrainStep
  <2>1. CASE WakeStep \/ TimerStep
    <3>1. ~InBatch /\ ~draining /\ mode = "up" /\ Dispatch("step")
      BY <2>1 DEF WakeStep, TimerStep, Idle
    <3> QED BY <1>10, <3>1
  <2>2. CASE DrainStep
    <3>1. ~InBatch /\ draining /\ Dispatch("drain") /\ UNCHANGED wakePending
      BY <2>2 DEF DrainStep
    <3> QED BY <1>10, <3>1
  <2> QED BY <1>11, <2>1, <2>2
<1>12. CASE DispatchEvent
  <2>1. /\ batch'.by = batch.by /\ InBatch /\ InBatch'
        /\ UNCHANGED <<saved, draining, mode>>
    BY <1>12 DEF DispatchEvent, InBatch
  <2>2. Len(log) < Len(log') => wakePending'
    BY <1>12, DispatchEventKeeps
  <2>3. wakePending => wakePending'
    BY <1>12, DispatchEventKeeps
  <2>4. ~(Len(log) < Len(log')) /\ Len(saved.log) < Len(log') => Len(saved.log) < Len(log)
    <3>1. Len(log) \in Nat /\ Len(saved.log) \in Nat
      BY <2>1, InFlightFacts
    <3>2. Len(log') \in Nat
      BY <1>12, StoreAndBatchKeep, LenProperties DEF StoreInv, LogInv, Next, Drain
    <3> QED BY <3>1, <3>2
  <2> QED BY <2>1, <2>2, <2>3, <2>4 DEF WakeInv, NoLostWake, Idle
<1>13. CASE CommitBatch
  <2>1. /\ InBatch /\ batch' = NoBatch /\ cursor' = batch.last
        /\ wakePending' = (wakePending \/ (batch.by = "step" /\ Full))
        /\ draining' = (draining /\ Full)
        /\ mode' = (IF mode = "booting" /\ ~Full THEN "up" ELSE mode)
        /\ UNCHANGED log
    BY <1>13 DEF CommitBatch, WakesNext
  <2>2. ~InBatch' /\ batch.by \in {"step", "drain"}
    BY <2>1 DEF InBatch, NoBatch, IndInv, MemoryInv
  <2>3. CASE Full
    BY <2>1, <2>2, <2>3 DEF WakeInv, NoLostWake, Idle
  <2>4. CASE ~Full
    <3>1. batch.last < Len(log) => Len(saved.log) < Len(log)
      BY <2>1, <2>4, LeftOver
    <3> QED BY <2>1, <2>2, <2>4, <3>1 DEF WakeInv, NoLostWake, Idle
  <2> QED BY <2>3, <2>4
<1>14. CASE StepFails
  <2>1. /\ ~InBatch /\ mode = "up" /\ healthy' = FALSE /\ draining' = FALSE
        /\ UNCHANGED <<mode, batch>>
    BY <1>14 DEF StepFails, Fails, Throws, Idle
  <2>2. ~InBatch'
    BY <2>1 DEF InBatch
  <2> QED BY <2>1, <2>2 DEF WakeInv, NoLostWake
<1>15. CASE DrainFails
  <2>1. /\ ~InBatch /\ draining /\ draining' = FALSE
        /\ UNCHANGED <<mode, batch, wakePending>>
    BY <1>15 DEF DrainFails, Fails, Throws
  <2>2. ~InBatch'
    BY <2>1 DEF InBatch
  <2> QED BY <2>1, <2>2 DEF WakeInv, NoLostWake
<1>16. CASE Rollback
  <2>1. /\ InBatch /\ draining' = FALSE /\ batch' = NoBatch
        /\ healthy' = (batch.by = "drain" /\ healthy)
        /\ UNCHANGED <<mode, wakePending>>
    BY <1>16 DEF Rollback, RestoreSaved, Throws
  <2>2. ~InBatch'
    BY <2>1 DEF InBatch, NoBatch
  <2> QED BY <2>1, <2>2 DEF WakeInv, NoLostWake
<1>17. CASE Boot
  <2>1. mode = "down" /\ mode' = "booting" /\ draining' = TRUE /\ UNCHANGED batch
    BY <1>17 DEF Boot
  <2>2. ~InBatch
    <3>1. InBatch => batch.by \in {"step", "drain"}
      BY DEF InBatch, IndInv, MemoryInv
    <3> QED BY <2>1, <3>1 DEF WakeInv
  <2>3. ~InBatch'
    BY <2>1, <2>2 DEF InBatch
  <2> QED BY <2>1, <2>3 DEF WakeInv, NoLostWake
<1>18. CASE Stop
  BY <1>18, WakeAtRest DEF Stop, Idle, storeVars, batchVars
<1>19. CASE Exit \/ Crash
  <2>1. mode' = "down" /\ draining' = FALSE /\ (batch' = NoBatch \/ (~InBatch /\ UNCHANGED batch))
    BY <1>19 DEF Exit, Crash, Forgotten, RestoreSaved, Idle
  <2>2. ~InBatch'
    BY <2>1 DEF InBatch, NoBatch
  <2> QED BY <2>1, <2>2 DEF WakeInv, NoLostWake
<1> QED
  BY <1>1, <1>2, <1>3, <1>4, <1>5, <1>6, <1>7, <1>8, <1>9, <1>11, <1>12, <1>13, <1>14, <1>15,
     <1>16, <1>17, <1>18, <1>19
  DEF Next, Environment, Drain, StoreFault

LEMMA WakeInvariant == Spec => []WakeInv
<1>1. Init => WakeInv
  BY DEF Init, WakeInv, NoLostWake, InBatch, NoBatch
<1>2. IndInv /\ WakeInv /\ [Next]_vars => WakeInv'
  <2>1. ASSUME WakeInv, UNCHANGED vars PROVE WakeInv'
    <3>1. UNCHANGED <<batch, cursor, healthy, draining, log, wakePending, mode, saved>>
      BY <2>1 DEF vars, storeVars, memoryVars, batchVars
    <3> QED BY <2>1, <3>1 DEF WakeInv, NoLostWake, InBatch, Idle
  <2> QED BY <2>1, WakeKeeps
<1> QED BY <1>1, <1>2, DispatcherInvariant, PTL DEF Spec

-----------------------------------------------------------------------------
(***************************************************************************)
(* 5. The properties.                                                      *)
(***************************************************************************)

\* The types of the store, the memory, the transaction and the process.
THEOREM DispatcherTypeOK == Spec => []TypeOK
<1>1. ASSUME IndInv PROVE TypeOK
  <2>1. StoreInv(log, Dispatched, status, wait, clock) /\ MemoryInv
    BY <1>1 DEF IndInv
  <2>2. cursor \in 0 .. Len(log)
    <3>1. CASE InBatch
      <4>1. /\ cursor \in 0 .. Len(saved.log) /\ Len(saved.log) <= Len(log)
            /\ Len(log) \in Nat /\ Len(saved.log) \in Nat
        BY <1>1, <3>1, InFlightFacts DEF InFlightInv, StoreInv, RowsInv
      <4> QED BY <4>1
    <3> QED BY <1>1, <3>1, AtRest
  <2>3. InBatch => cursor < batch.at /\ batch.at <= batch.last + 1 /\ batch.last <= Len(log)
    <3> SUFFICES ASSUME InBatch
                 PROVE  cursor < batch.at /\ batch.at <= batch.last + 1 /\ batch.last <= Len(log)
      OBVIOUS
    <3>1. /\ cursor < batch.at /\ batch.at <= batch.last + 1
          /\ batch.last <= Len(saved.log) /\ Len(saved.log) <= Len(log)
          /\ batch.last \in Nat /\ Len(log) \in Nat /\ Len(saved.log) \in Nat
      BY <1>1, InFlightFacts DEF InFlightInv
    <3> QED BY <3>1
  <2>4. status \in [Runs -> RunStatus] /\ \A r \in Runs : wait[r] \in WaitRow
    BY <2>1 DEF StoreInv, RowsInv
  <2>5. log \in Seq(Event) /\ Len(log) <= 2 * MaxEvents
    BY <2>1 DEF StoreInv, LogInv
  <2> QED BY <2>1, <2>2, <2>3, <2>4, <2>5 DEF TypeOK, MemoryInv
<1> QED BY <1>1, DispatcherInvariant, PTL

\* The cached index is used only while it holds exactly the waits still armed.
THEOREM IndexStaysFresh == Spec => []IndexIsFresh
<1>1. IndInv => IndexIsFresh
  BY DEF IndInv, BatchInv, IndexIsFresh
<1> QED BY <1>1, DispatcherInvariant, PTL

\* No reply falls between the backlog a new wait looks at and the events dispatched after it.
THEOREM NoReplyMissed == Spec => []ReplyNotMissed
<1>1. IndInv => ReplyNotMissed
  BY DEF IndInv, StoreInv, WaitInv, ReplyNotMissed, Armed
<1> QED BY <1>1, DispatcherInvariant, PTL

\* One reply never ends two waits of a run.
THEOREM OneReplyOneWait == Spec => []ReplyEndsOneWait
<1>1. IndInv => ReplyEndsOneWait
  BY DEF IndInv, StoreInv, WaitInv, ReplyEndsOneWait
<1> QED BY <1>1, DispatcherInvariant, PTL

\* A wait times out, or is answered, by when events were stored and not by when they are read.
THEOREM DeadlinesAreFair == Spec => []DeadlineIsFair
<1>1. IndInv => DeadlineIsFair
  BY DEF IndInv, StoreInv, WaitInv, DeadlineIsFair
<1> QED BY <1>1, DispatcherInvariant, PTL

LEMMA AtMostOne ==
  ASSUME NEW S, \A s, u \in S : s = u
  PROVE  Cardinality(S) <= 1
<1>1. CASE S = {}
  <2>1. Cardinality(S) = 0
    BY <1>1, FS_EmptySet
  <2> QED BY <2>1
<1>2. CASE S # {}
  <2>1. PICK s \in S : S = {s}
    BY <1>2
  <2>2. Cardinality({s}) = 1
    BY FS_Singleton
  <2> QED BY <2>1, <2>2
<1> QED BY <1>1, <1>2

\* With overlap: skip, no two ticks of a cron task have a run active at once.
THEOREM OverlapsAreSkipped == Spec => []OverlapKept
<1>1. ASSUME IndInv, NEW t \in OverlapSkip
      PROVE  Cardinality({s \in DOMAIN log : status[<<t, s>>] \in Active /\ log[s].type = "cron.tick"}) <= 1
  <2> DEFINE S == {s \in DOMAIN log : status[<<t, s>>] \in Active /\ log[s].type = "cron.tick"}
  <2>1. \A s, u \in S : s = u
    BY <1>1 DEF IndInv, StoreInv, OverlapInv
  <2> HIDE DEF S
  <2>2. Cardinality(S) <= 1
    BY <2>1, AtMostOne
  <2> QED BY <2>2 DEF S
<1>2. IndInv => OverlapKept
  BY <1>1 DEF OverlapKept
<1> QED BY <1>2, DispatcherInvariant, PTL

\* No causal chain starts more runs than its cap, however its events spread over tasks and
\* batches.
THEOREM ChainCapHolds == Spec => []ChainCapKept
<1>1. ASSUME IndInv, NEW s \in DOMAIN log
      PROVE  Cardinality({r \in Runs : status[r] # "none" /\ log[r[2]].root = s}) <= MaxChainRuns
  <2>1. /\ DOMAIN log = 1 .. Len(log) /\ Len(log) \in Nat /\ s \in Nat
        /\ StoreInv(log, Dispatched, status, wait, clock)
    BY <1>1, LenProperties DEF IndInv, StoreInv, LogInv
  <2>2. \A r \in Runs : status[r] # "none" => r[2] \in DOMAIN log
    BY <2>1, Shapes DEF StoreInv, RowsInv
  <2>3. {r \in Runs : status[r] # "none" /\ log[r[2]].root = s} = RunsOf(log, status, s)
    BY <2>2 DEF RunsOf
  <2> QED BY <2>1, <2>3 DEF StoreInv, ChainsInv
<1>2. IndInv => ChainCapKept
  BY <1>1 DEF ChainCapKept
<1> QED BY <1>2, DispatcherInvariant, PTL

\* A dropped chain is told of, once, through rollbacks and restarts.
THEOREM RunawaysAreTold == Spec => []DropsReported
<1>1. IndInv => DropsReported
  BY DEF IndInv, StoreInv, DropsInv, DropsReported, Told
<1> QED BY <1>1, DispatcherInvariant, PTL

\* A backlog never waits for the timer alone, unless a batch failed.
THEOREM WakesAreKept == Spec => []NoLostWake
BY WakeInvariant, PTL DEF WakeInv

=============================================================================
