-------------------------- MODULE SupervisorProofs --------------------------
(***************************************************************************)
(* Theorems about Supervisor, for every number of slots and every kind of  *)
(* connector.  They are layered:                                           *)
(*                                                                         *)
(*   1. lemmas about slots, callers and sets of one element;               *)
(*   2. what Launch, BeginKill and Settle change;                          *)
(*   3. TypeInv, which needs no assumption on the requests;                *)
(*   4. IndInv, for a supervisor no restart reaches while a reload kills   *)
(*      the entry it replaces (RestartWhileReplacing = FALSE), and one     *)
(*      lemma per action that keeps it;                                    *)
(*   5. the properties of Supervisor that follow.                          *)
(***************************************************************************)
EXTENDS Supervisor, FiniteSetTheorems, WellFoundedInduction, TLAPS

ByRestart == By("restart")
ByApply == By("apply")
ByStop == By("stop")

\* Before start() nothing runs, so that there is a slot for what it spawns.
NewInv ==
  mode = "new" =>
    /\ \A s \in Spawns : at[s] = "idle" /\ proc[s] = "none"
    /\ armed = {} /\ checking = {} /\ restartTimer = {}
    /\ \A k \in Callers : kills[k] = NoKill

TypeInv == TypeOK /\ NewInv

\* stop() kills nothing while it has not begun.
StopInv == kills[ByStop].entry # 0 => mode # "serving"

\* The entries and the spawns agree on who is attached to whom, and who is in flight.
SlotsAgree ==
  /\ \A e \in Entries : launched[e] # 0 =>
       /\ e = current /\ mode = "serving" /\ owner[launched[e]] = e
       /\ at[launched[e]] = "idle" /\ proc[launched[e]] = "live"
  /\ \A e \in Entries : starting[e] # 0 => InFlight(starting[e]) /\ owner[starting[e]] = e
  /\ \A s \in Spawns : InFlight(s) => starting[owner[s]] = s

\* A process nobody told to go is attached, unless its launch still has it.
ProcsAgree ==
  \A s \in Spawns :
    /\ at[s] = "opening" => proc[s] = "none"
    /\ at[s] = "discarding" => proc[s] # "live"
    /\ at[s] = "idle" /\ proc[s] = "live" => launched[owner[s]] = s

OneInFlight == \A s, t \in Spawns : InFlight(s) /\ InFlight(t) => s = t

\* Whatever was killed or replaced in flight is stale.
StaleAgree ==
  /\ \A s \in stale : InFlight(s)
  /\ aborted \subseteq stale
  /\ \A s \in Spawns : InFlight(s) /\ s \notin stale => owner[s] = current /\ mode = "serving"
  /\ \A s \in Spawns : at[s] = "discarding" => s \in stale

\* A kill that has a process to wait for has told it to go, and apply() that kills the old
\* entry has put the new one in its place.
KillsAgree ==
  /\ \A k \in Callers : kills[k].entry = 0 => kills[k] = NoKill
  /\ \A k \in Callers : kills[k].stops # 0 =>
       kills[k].start = 0 /\ proc[kills[k].stops] = "stopping"
  /\ kills[ByApply].entry # 0 => kills[ByApply].next = current

\* A stale spawn is awaited by who will spawn the next one.
StaleAwaited ==
  mode = "serving" => \A t \in stale :
    \/ kills[ByRestart].start = t /\ kills[ByRestart].entry = current /\ owner[t] = current
    \/ kills[ByApply].start = t

\* A health check will take entry e for crashed.
Condemns(s, e) == kills[Health(s)].entry = e /\ ~kills[Health(s)].stale

\* A restart or a reload will spawn entry e.
WillSpawn(e) == kills[ByRestart].entry = e \/ kills[ByApply].next = e

\* The state of the supervised entry tells the one thing that brings it up again.
StateTells(e) ==
  /\ launched[e] # 0 <=> state[e] = "up"
  /\ (starting[e] # 0 /\ starting[e] \notin stale) <=> state[e] = "starting"
  /\ e \in restartTimer <=> state[e] = "down"
  /\ (WillSpawn(e) \/ \E s \in Spawns : Condemns(s, e)) <=> state[e] = "stopped"
  /\ kills[ByRestart].entry = e => kills[ByApply].next # e
  /\ \A s \in Spawns : Condemns(s, e) =>
       ~WillSpawn(e) /\ \A t \in Spawns : Condemns(t, e) => s = t

StatesAgree ==
  /\ \A e \in Entries : e # current => state[e] = "stopped"
  /\ mode = "serving" /\ current # 0 => StateTells(current)

IndInv ==
  /\ SlotsAgree /\ ProcsAgree /\ OneInFlight /\ StaleAgree
  /\ KillsAgree /\ StaleAwaited /\ StatesAgree

-----------------------------------------------------------------------------
(***************************************************************************)
(* 1. Slots, callers and sets of one element.                              *)
(***************************************************************************)

\* First() finds the least slot.
LEMMA FirstIsOne ==
  ASSUME NEW S \in SUBSET Nat, S # {}
  PROVE  First(S) \in S
<1> DEFINE R == OpToRel(<, Nat)
<1>1. IsWellFoundedOn(R, Nat)
  BY NatLessThanWellFounded
<1>2. \A m, n \in S : <<n, m>> \in R <=> n < m
  BY DEF OpToRel
<1> HIDE DEF R
<1>3. PICK m \in S : \A n \in S : ~(<<n, m>> \in R)
  BY <1>1, WFMin
<1>4. \A n \in S : ~(n < m) /\ m \in Nat /\ n \in Nat
  BY <1>2, <1>3
<1>5. \A n \in S : m <= n
  BY <1>4
<1> QED BY <1>5 DEF First

\* Slots have numbers of their own.
LEMMA Slots ==
  /\ 0 \notin Entries /\ 0 \notin Spawns
  /\ First(Entries) \in Entries /\ First(Spawns) \in Spawns
  /\ FreeSpawns # {} => First(FreeSpawns) \in FreeSpawns
  /\ FreeEntries # {} => First(FreeEntries) \in FreeEntries
  /\ FreeSpawns \subseteq Spawns /\ FreeEntries \subseteq Entries
<1>1. Entries \subseteq Nat /\ Spawns \subseteq Nat /\ Entries # {} /\ Spawns # {}
      /\ 0 \notin Entries /\ 0 \notin Spawns
  BY SupervisorAssumption DEF SupervisorAssumption
<1>2. FreeSpawns \subseteq Spawns /\ FreeEntries \subseteq Entries
  BY DEF FreeSpawns, FreeEntries
<1> QED BY <1>1, <1>2, FirstIsOne

\* The callers are told apart.
LEMMA CallersDiffer ==
  /\ ByRestart \in Callers /\ ByApply \in Callers /\ ByStop \in Callers
  /\ ByRestart # ByApply /\ ByRestart # ByStop /\ ByApply # ByStop
  /\ \A s \in Spawns : Health(s) \in Callers /\ Health(s) # ByRestart /\ Health(s) # ByApply
                       /\ Health(s) # ByStop
  /\ \A s, t \in Spawns : Health(s) = Health(t) => s = t
  BY DEF ByRestart, ByApply, ByStop, By, Health, Callers

\* A set in which all elements are the same.
LEMMA AtMostOne ==
  ASSUME NEW S, \A x, y \in S : x = y
  PROVE  Cardinality(S) \in Nat /\ Cardinality(S) <= 1
<1>1. CASE S = {}
  BY <1>1, FS_EmptySet
<1>2. CASE S # {}
  <2>1. PICK x : x \in S
    BY <1>2
  <2>2. S = {x}
    BY <2>1
  <2> QED BY <2>2, FS_Singleton
<1> QED BY <1>1, <1>2

-----------------------------------------------------------------------------
(***************************************************************************)
(* 2. What Launch, BeginKill and Settle change.                            *)
(***************************************************************************)

\* The field of a kill that is marked or gone further.
LEMMA KillFields ==
  ASSUME NEW v \in Kill
  PROVE  /\ v.entry \in Entries \cup {0} /\ v.start \in Spawns \cup {0}
         /\ v.stops \in Spawns \cup {0} /\ v.next \in Entries \cup {0} /\ v.stale \in BOOLEAN
         /\ LET u == [v EXCEPT !.stale = TRUE] IN
              /\ u \in Kill /\ u.entry = v.entry /\ u.start = v.start /\ u.stops = v.stops
              /\ u.next = v.next /\ u.stale
         /\ LET u == [v EXCEPT !.stops = 0] IN
              /\ u \in Kill /\ u.entry = v.entry /\ u.start = v.start /\ u.stops = 0
              /\ u.next = v.next /\ u.stale = v.stale
         /\ LET u == [v EXCEPT !.start = 0] IN
              /\ u \in Kill /\ u.entry = v.entry /\ u.start = 0 /\ u.stops = v.stops
              /\ u.next = v.next /\ u.stale = v.stale
  BY DEF Kill

LEMMA NoKillFields ==
  /\ NoKill \in Kill
  /\ NoKill.entry = 0 /\ NoKill.start = 0 /\ NoKill.stops = 0 /\ NoKill.next = 0
  /\ NoKill.stale = FALSE
  BY DEF Kill, NoKill

\* Caller k has begun to kill entry e, and who was killing it already is told so.
KillBegun(k, e, n) ==
  /\ kills'[k].entry = e /\ kills'[k].start = starting[e] /\ kills'[k].stops = launched[e]
  /\ kills'[k].next = n /\ kills'[k].stale = FALSE
  /\ \A c \in Callers \ {k} :
       /\ kills'[c].entry = kills[c].entry /\ kills'[c].start = kills[c].start
       /\ kills'[c].stops = kills[c].stops /\ kills'[c].next = kills[c].next
       /\ kills'[c].stale <=> (kills[c].stale \/ kills[c].entry = e)
       /\ kills[c].entry # e => kills'[c] = kills[c]

LEMMA BeginKillEffect ==
  ASSUME TypeOK, NEW k \in Callers, NEW e \in Entries, NEW n \in Entries \cup {0},
         BeginKill(k, e, n)
  PROVE  kills' \in [Callers -> Kill] /\ KillBegun(k, e, n)
<1> DEFINE new == [entry |-> e, start |-> starting[e], stops |-> launched[e], next |-> n,
                   stale |-> FALSE]
           told(c) == [kills[c] EXCEPT !.stale = TRUE]
<1>1. kills' = [c \in Callers |->
                  IF c = k THEN new
                  ELSE IF kills[c].entry = e THEN told(c) ELSE kills[c]]
  BY DEF BeginKill
<1>2. starting[e] \in Spawns \cup {0} /\ launched[e] \in Spawns \cup {0}
  BY DEF TypeOK
<1>3. new \in Kill /\ new.entry = e /\ new.start = starting[e] /\ new.stops = launched[e]
      /\ new.next = n /\ new.stale = FALSE
  BY <1>2 DEF Kill
<1>4. ASSUME NEW c \in Callers
      PROVE  /\ kills[c] \in Kill /\ kills[c].stale \in BOOLEAN
             /\ told(c) \in Kill /\ told(c).entry = kills[c].entry
             /\ told(c).start = kills[c].start /\ told(c).stops = kills[c].stops
             /\ told(c).next = kills[c].next /\ told(c).stale
  <2>1. kills[c] \in Kill
    BY DEF TypeOK
  <2> QED BY <2>1, KillFields
<1> HIDE DEF new, told
<1>5. kills'[k] = new
  BY <1>1
<1>6. \A c \in Callers \ {k} : kills'[c] = IF kills[c].entry = e THEN told(c) ELSE kills[c]
  BY <1>1
<1>7. kills' \in [Callers -> Kill]
  BY <1>1, <1>3, <1>4
<1> QED BY <1>3, <1>4, <1>5, <1>6, <1>7 DEF KillBegun

\* A spawn is launched into a free slot, or the connector is external.
LEMMA LaunchEffect ==
  ASSUME TypeOK, FreeSpawns # {}, NEW e \in Entries, NEW kd, Launch(e, kd)
  PROVE  \/ /\ kd = "external" /\ Launching(kd) = 0
            /\ state' = [state EXCEPT ![e] = "external"]
            /\ UNCHANGED <<starting, owner, at, proc>>
         \/ \E s \in FreeSpawns :
              /\ kd # "external" /\ Launching(kd) = s
              /\ state' = [state EXCEPT ![e] = "starting"]
              /\ starting' = [starting EXCEPT ![e] = s]
              /\ owner' = [owner EXCEPT ![s] = e]
              /\ \/ at' = [at EXCEPT ![s] = "opening"] /\ UNCHANGED proc
                 \/ /\ at' = [at EXCEPT ![s] = "launching"]
                    /\ proc' = [proc EXCEPT ![s] = "live"]
<1>1. CASE kd = "external"
  BY <1>1 DEF Launch, Launching
<1>2. CASE kd # "external"
  BY <1>2, Slots DEF Launch, Launching
<1> QED BY <1>1, <1>2

LEMMA LaunchTypes ==
  ASSUME TypeOK, FreeSpawns # {}, NEW e \in Entries, NEW kd, Launch(e, kd)
  PROVE  /\ state' \in [Entries -> {"stopped", "starting", "up", "down", "external"}]
         /\ starting' \in [Entries -> Spawns \cup {0}]
         /\ owner' \in [Spawns -> Entries]
         /\ at' \in [Spawns -> {"idle", "opening", "launching", "discarding"}]
         /\ proc' \in [Spawns -> {"none", "live", "stopping"}]
         /\ Launching(kd) \in Spawns \cup {0}
  BY LaunchEffect, Slots DEF TypeOK

LEMMA BeginKillTypes ==
  ASSUME TypeOK, NEW k \in Callers, NEW e \in Entries, NEW n \in Entries \cup {0},
         BeginKill(k, e, n)
  PROVE  /\ state' \in [Entries -> {"stopped", "starting", "up", "down", "external"}]
         /\ launched' \in [Entries -> Spawns \cup {0}]
         /\ restartTimer' \subseteq Entries /\ healthTimer' \in [Entries -> Spawns \cup {0}]
         /\ proc' \in [Spawns -> {"none", "live", "stopping"}]
         /\ aborted' \subseteq Spawns /\ stale' \subseteq Spawns /\ armed' \subseteq Spawns
         /\ kills' \in [Callers -> Kill]
<1>1. kills' \in [Callers -> Kill]
  BY BeginKillEffect
<1> QED BY <1>1 DEF TypeOK, BeginKill, Signal

LEMMA SettleTypes ==
  ASSUME TypeOK, NEW s \in Spawns, Settle(s)
  PROVE  /\ starting' \in [Entries -> Spawns \cup {0}]
         /\ at' \in [Spawns -> {"idle", "opening", "launching", "discarding"}]
         /\ aborted' \subseteq Spawns /\ stale' \subseteq Spawns
         /\ awaits' \in [{"restart", "apply"} -> Spawns \cup {0}]
  BY DEF TypeOK, Settle

-----------------------------------------------------------------------------
(***************************************************************************)
(* 3. Types.                                                               *)
(***************************************************************************)

LEMMA TypeInit == Init => TypeInv
<1> SUFFICES ASSUME Init PROVE TypeInv
  OBVIOUS
<1>1. kind \in [Entries -> Kinds]
  BY DEF Init
<1>2. kills \in [Callers -> Kill] /\ \A k \in Callers : kills[k] = NoKill
  BY NoKillFields DEF Init
<1>3. TypeOK
  BY <1>1, <1>2, Slots DEF Init, TypeOK
<1> QED BY <1>2, <1>3 DEF TypeInv, NewInv, Init

\* Nothing but start() happens to a supervisor that has not been started.
LEMMA NewSteps ==
  ASSUME TypeInv, [Next]_vars, mode = "new"
  PROVE  Start \/ UNCHANGED vars
<1>1. /\ \A s \in Spawns : at[s] = "idle" /\ proc[s] = "none"
      /\ armed = {} /\ checking = {} /\ restartTimer = {}
      /\ \A k \in Callers : kills[k].entry = 0 /\ kills[k].start = 0
  BY NoKillFields DEF TypeInv, NewInv
<1>2. ~(Restart \/ Stop \/ Remove \/ \E kd \in Kinds : Add(kd) \/ Change(kd))
  BY DEF Restart, Stop, Remove, Add, Change
<1>3. ~GoesOn
  <2>1. \A k \in Callers : ~KillGoesOn(k) /\ ~Ended(k)
    BY <1>1 DEF KillGoesOn, SpawnSettled, Ended, Killed
  <2> QED
    BY <2>1, CallersDiffer
    DEF GoesOn, RestartGoesOn, ApplyGoesOn, StopGoesOn, HealthGoesOn, ByRestart, ByApply, ByStop
<1>4. ~Failure
  BY <1>1 DEF Failure, OpenFails, Condemn, GiveUp, Exit
<1>5. \A e \in Entries : ~RestartDue(e)
  BY <1>1 DEF RestartDue
<1>6. \A s \in Spawns :
        ~(Open(s) \/ Settles(s) \/ HealthDue(s) \/ Checked(s) \/ GiveUp(s) \/ Exit(s))
  BY <1>1 DEF Open, Settles, Attach, LaunchFails, Discard, Discarded, HealthDue, Checked, GiveUp,
              Exit
<1> QED BY <1>2, <1>3, <1>4, <1>5, <1>6 DEF Next, Requests

\* What goes on after a kill has a slot for what it spawns.
LEMMA EndedEffect ==
  ASSUME TypeOK, NEW k \in Callers, Ended(k)
  PROVE  /\ kills[k].entry # 0 /\ kills[k].start = 0 /\ kills[k].stops = 0
         /\ kills' = [kills EXCEPT ![k] = NoKill] /\ kills' \in [Callers -> Kill]
         /\ k \in {ByRestart, ByApply} => FreeSpawns # {}
  BY NoKillFields DEF Ended, Killed, HasSlot, TypeOK, ByRestart, ByApply

LEMMA NewSlot ==
  ASSUME TypeInv, mode = "new"
  PROVE  FreeSpawns # {}
<1>1. \A s \in Spawns : s \in FreeSpawns
  BY CallersDiffer, NoKillFields, Slots DEF TypeInv, NewInv, FreeSpawns, InFlight
<1> QED BY <1>1, Slots

LEMMA TypeStep == TypeInv /\ [Next]_vars => TypeInv'
<1> SUFFICES ASSUME TypeInv, [Next]_vars PROVE TypeInv'
  OBVIOUS
<1>a. TypeOK
  BY DEF TypeInv
<1>k. \A k \in Callers : kills[k] \in Kill /\ kills[k].entry \in Entries \cup {0}
                         /\ kills[k].next \in Entries \cup {0} /\ kills[k].stops \in Spawns \cup {0}
                         /\ [kills[k] EXCEPT !.start = 0] \in Kill
                         /\ [kills[k] EXCEPT !.stops = 0] \in Kill
  BY <1>a, KillFields DEF TypeOK
<1>s. 0 \notin Entries /\ 0 \notin Spawns
  BY Slots
<1>1. CASE Start
  <2>1. FreeSpawns # {}
    BY <1>1, NewSlot DEF Start
  <2>2. CASE current = 0
    BY <1>1, <1>a, <2>2 DEF Start, NoLaunch, TypeOK, TypeInv, NewInv
  <2>3. CASE current # 0
    <3>1. current \in Entries /\ Launch(current, kind[current])
      BY <1>1, <1>a, <2>3 DEF Start, TypeOK
    <3> QED BY <1>1, <1>a, <2>1, <3>1, LaunchTypes DEF Start, TypeOK, TypeInv, NewInv
  <2> QED BY <2>2, <2>3
<1>2. CASE UNCHANGED vars
  BY <1>2 DEF TypeInv, TypeOK, NewInv, vars, entryVars, spawnVars
<1>3. CASE mode # "new" /\ Next /\ ~Start
  <2>1. CASE Restart
    <3>1. current \in Entries /\ BeginKill(ByRestart, current, 0)
      BY <1>a, <2>1 DEF Restart, TypeOK, ByRestart
    <3> QED BY <1>3, <1>a, <2>1, <3>1, BeginKillTypes, CallersDiffer
            DEF Restart, TypeOK, TypeInv, NewInv
  <2>2. CASE Stop
    <3>1. CASE current = 0
      BY <1>3, <1>a, <2>2, <3>1 DEF Stop, TypeOK, TypeInv, NewInv
    <3>2. CASE current # 0
      <4>1. current \in Entries /\ BeginKill(ByStop, current, 0) /\ mode' = "stopping"
        BY <1>a, <2>2, <3>2 DEF Stop, TypeOK, ByStop
      <4> QED BY <1>a, <2>2, <4>1, BeginKillTypes, CallersDiffer DEF Stop, TypeOK, TypeInv, NewInv
    <3> QED BY <3>1, <3>2
  <2>3. CASE Remove
    <3>1. current \in Entries /\ BeginKill(ByApply, current, 0)
      BY <1>a, <2>3 DEF Remove, TypeOK, ByApply
    <3> QED BY <1>3, <1>a, <2>3, <3>1, BeginKillTypes, CallersDiffer
            DEF Remove, TypeOK, TypeInv, NewInv
  <2>4. ASSUME NEW kd \in Kinds, Add(kd) PROVE TypeInv'
    <3> DEFINE e == First(FreeEntries)
    <3>1. e \in Entries /\ FreeSpawns # {}
      BY <2>4, Slots DEF Add
    <3>2. CASE mode = "serving"
      <4>1. Launch(e, kd) /\ awaits' = [awaits EXCEPT !["apply"] = Launching(kd)]
            /\ current' = e /\ kind' = [kind EXCEPT ![e] = kd]
        BY <2>4, <3>2 DEF Add
      <4> HIDE DEF e
      <4> QED BY <1>3, <1>a, <2>4, <3>1, <4>1, LaunchTypes DEF Add, TypeOK, TypeInv, NewInv
    <3>3. CASE mode # "serving"
      BY <1>3, <1>a, <2>4, <3>1, <3>3 DEF Add, NoLaunch, TypeOK, TypeInv, NewInv
    <3> QED BY <3>2, <3>3
  <2>5. ASSUME NEW kd \in Kinds, Change(kd) PROVE TypeInv'
    <3> DEFINE e == First(FreeEntries)
    <3>1. e \in Entries /\ current \in Entries /\ BeginKill(ByApply, current, e)
          /\ current' = e /\ kind' = [kind EXCEPT ![e] = kd]
      BY <1>a, <2>5, Slots DEF Change, TypeOK, ByApply
    <3> HIDE DEF e
    <3> QED BY <1>3, <1>a, <2>5, <3>1, BeginKillTypes, CallersDiffer
            DEF Change, TypeOK, TypeInv, NewInv
  <2>6. ASSUME NEW k \in Callers, KillGoesOn(k) PROVE TypeInv'
    <3>1. kills' = [kills EXCEPT ![k] = [kills[k] EXCEPT !.start = 0]]
      BY <2>6 DEF KillGoesOn
    <3>2. kills' \in [Callers -> Kill]
      BY <1>a, <1>k, <3>1 DEF TypeOK
    <3> QED BY <1>3, <1>a, <1>k, <2>6, <3>2
            DEF KillGoesOn, Signal, TypeOK, TypeInv, NewInv, entryVars
  <2>7. CASE RestartGoesOn
    <3> DEFINE e == kills[ByRestart].entry
    <3>1. Ended(ByRestart) /\ Respawn("restart", e)
      BY <2>7 DEF RestartGoesOn, ByRestart
    <3>2. e \in Entries /\ FreeSpawns # {} /\ kills' \in [Callers -> Kill]
      BY <1>a, <1>k, <3>1, EndedEffect, CallersDiffer
    <3> HIDE DEF e
    <3>3. CASE MaySpawn(e)
      <4>1. Launch(e, kind[e]) /\ awaits' = [awaits EXCEPT !["restart"] = Launching(kind[e])]
        BY <3>1, <3>3 DEF Respawn
      <4> QED BY <1>3, <1>a, <3>1, <3>2, <4>1, LaunchTypes
              DEF Respawn, Ended, TypeOK, TypeInv, NewInv
    <3>4. CASE ~MaySpawn(e)
      BY <1>3, <1>a, <3>1, <3>2, <3>4 DEF Respawn, Ended, NoLaunch, TypeOK, TypeInv, NewInv
    <3> QED BY <3>3, <3>4
  <2>8. CASE ApplyGoesOn
    <3> DEFINE e == kills[ByApply].next
    <3>1. Ended(ByApply) /\ \/ e # 0 /\ Respawn("apply", e)
                            \/ NoLaunch /\ UNCHANGED <<mode, awaits, restartTimer>>
      BY <2>8 DEF ApplyGoesOn, ByApply
    <3>2. e \in Entries \cup {0} /\ FreeSpawns # {} /\ kills' \in [Callers -> Kill]
      BY <1>a, <1>k, <3>1, EndedEffect, CallersDiffer
    <3> HIDE DEF e
    <3>3. CASE MaySpawn(e) /\ e # 0 /\ Respawn("apply", e)
      <4>1. Launch(e, kind[e]) /\ awaits' = [awaits EXCEPT !["apply"] = Launching(kind[e])]
        BY <3>3 DEF Respawn
      <4> QED BY <1>3, <1>a, <3>1, <3>2, <3>3, <4>1, LaunchTypes
              DEF Respawn, Ended, TypeOK, TypeInv, NewInv
    <3>4. CASE NoLaunch /\ UNCHANGED <<mode, awaits, restartTimer>>
      BY <1>3, <1>a, <3>1, <3>2, <3>4 DEF Ended, NoLaunch, TypeOK, TypeInv, NewInv
    <3> QED BY <3>1, <3>3, <3>4 DEF Respawn
  <2>9. CASE StopGoesOn
    <3>1. Ended(ByStop) /\ kills' \in [Callers -> Kill]
      BY <1>a, <2>9, EndedEffect, CallersDiffer DEF StopGoesOn, ByStop
    <3> QED BY <1>a, <2>9, <3>1 DEF StopGoesOn, Ended, NoLaunch, TypeOK, TypeInv, NewInv
  <2>10. ASSUME NEW s \in Spawns, HealthGoesOn(s) PROVE TypeInv'
    <3>1. Ended(Health(s)) /\ kills' \in [Callers -> Kill] /\ kills[Health(s)].entry \in Entries
      BY <1>a, <1>k, <2>10, EndedEffect, CallersDiffer DEF HealthGoesOn
    <3> QED BY <1>3, <1>a, <2>10, <3>1
            DEF HealthGoesOn, Exited, Ended, TypeOK, TypeInv, NewInv
  <2>11. ASSUME NEW e \in Entries, RestartDue(e) PROVE TypeInv'
    <3>1. CASE MaySpawn(e)
      <4>1. Launch(e, kind[e]) /\ FreeSpawns # {}
        BY <2>11, <3>1 DEF RestartDue
      <4> QED BY <1>3, <1>a, <2>11, <4>1, LaunchTypes DEF RestartDue, TypeOK, TypeInv, NewInv
    <3>2. CASE ~MaySpawn(e)
      BY <1>3, <1>a, <2>11, <3>2 DEF RestartDue, NoLaunch, TypeOK, TypeInv, NewInv
    <3> QED BY <3>1, <3>2
  <2>12. ASSUME NEW s \in Spawns, Open(s) \/ OpenFails(s) \/ LaunchFails(s) \/ Attach(s) \/ Discarded(s)
         PROVE  TypeInv'
    <3>1. CASE Settle(s)
      BY <1>3, <1>a, <2>12, <3>1, SettleTypes
      DEF Open, OpenFails, LaunchFails, SettleFailed, Attach, Discarded, TypeOK, TypeInv, NewInv
    <3>2. CASE ~Settle(s)
      BY <1>3, <1>a, <2>12, <3>2
      DEF Open, OpenFails, LaunchFails, SettleFailed, Attach, Discarded, TypeOK, TypeInv, NewInv
    <3> QED BY <3>1, <3>2
  <2>13. ASSUME NEW s \in Spawns, GiveUp(s) \/ Discard(s) PROVE TypeInv'
    BY <1>3, <1>a, <2>13 DEF GiveUp, Discard, TypeOK, TypeInv, NewInv, entryVars
  <2>14. ASSUME NEW s \in Spawns, Exit(s) PROVE TypeInv'
    <3>1. kills' \in [Callers -> Kill]
      BY <1>a, <1>k, <2>14 DEF Exit, TypeOK
    <3> QED BY <1>3, <1>a, <2>14, <3>1 DEF Exit, Exited, TypeOK, TypeInv, NewInv
  <2>15. ASSUME NEW s \in Spawns, HealthDue(s) \/ Checked(s) PROVE TypeInv'
    BY <1>3, <1>a, <2>15 DEF HealthDue, Checked, TypeOK, TypeInv, NewInv
  <2>16. ASSUME NEW s \in Spawns, Condemn(s) PROVE TypeInv'
    <3>1. owner[s] \in Entries /\ BeginKill(Health(s), owner[s], 0) /\ checking' \subseteq Spawns
      BY <1>a, <2>16 DEF Condemn, TypeOK
    <3> QED BY <1>3, <1>a, <2>16, <3>1, BeginKillTypes, CallersDiffer
            DEF Condemn, TypeOK, TypeInv, NewInv
  <2> QED
    BY <1>3, <2>1, <2>2, <2>3, <2>4, <2>5, <2>6, <2>7, <2>8, <2>9, <2>10, <2>11, <2>12, <2>13,
       <2>14, <2>15, <2>16
    DEF Next, Requests, GoesOn, Failure, Settles
<1> QED BY <1>1, <1>2, <1>3, NewSteps

-----------------------------------------------------------------------------
(***************************************************************************)
(* 4. The invariant.                                                       *)
(***************************************************************************)

\* A spawn in flight is the only one, and the one its entry knows.
LEMMA Alone ==
  ASSUME TypeOK, IndInv, NEW s \in Spawns, InFlight(s)
  PROVE  /\ owner[s] \in Entries /\ starting[owner[s]] = s
         /\ \A e \in Entries : e # owner[s] => starting[e] = 0
         /\ \A t \in Spawns : t # s => at[t] = "idle"
         /\ \A t \in stale : t = s
         /\ \A t \in aborted : t = s
  BY DEF TypeOK, IndInv, SlotsAgree, OneInFlight, StaleAgree, InFlight

\* Without a spawn in flight nothing refers to one.
LEMMA NoneStarting ==
  ASSUME TypeOK, IndInv, \A s \in Spawns : ~InFlight(s)
  PROVE  /\ stale = {} /\ aborted = {}
         /\ \A e \in Entries : starting[e] = 0
  BY DEF TypeOK, IndInv, SlotsAgree, StaleAgree

\* Unless the connector is starting, only a kill by a restart or a reload leaves a spawn in
\* flight.
LEMMA NoneInFlight ==
  ASSUME TypeOK, IndInv, mode = "serving", current # 0 => state[current] # "starting",
         kills[ByRestart].entry = current => kills[ByRestart].start = 0,
         kills[ByApply].start = 0
  PROVE  \A s \in Spawns : ~InFlight(s)
<1> SUFFICES ASSUME NEW s \in Spawns, InFlight(s) PROVE FALSE
  OBVIOUS
<1>s. s # 0 /\ 0 \notin Entries
  BY Slots
<1>1. CASE s \in stale
  BY <1>1, <1>s DEF IndInv, StaleAwaited
<1>2. CASE s \notin stale
  <2>1. owner[s] = current /\ current \in Entries /\ starting[current] = s
    BY <1>2, Alone DEF IndInv, StaleAgree
  <2> QED BY <1>2, <1>s, <2>1 DEF IndInv, StatesAgree, StateTells
<1> QED BY <1>1, <1>2

\* A caller without a kill waits for nothing.
LEMMA Unused ==
  ASSUME TypeOK, IndInv, NEW k \in Callers, kills[k].entry = 0
  PROVE  kills[k].start = 0 /\ kills[k].stops = 0 /\ kills[k].next = 0 /\ ~kills[k].stale
  BY NoKillFields DEF IndInv, KillsAgree

\* A connector that is up or down has no spawn in flight, and nobody is to spawn it.
LEMMA Settled ==
  ASSUME TypeOK, IndInv, mode = "serving", current # 0, state[current] \in {"up", "down"}
  PROVE  /\ \A s \in Spawns : ~InFlight(s)
         /\ kills[ByRestart].entry # current /\ kills[ByApply].next # current
         /\ \A s \in Spawns : ~Condemns(s, current)
<1>1. /\ kills[ByRestart].entry # current /\ kills[ByApply].next # current
      /\ \A s \in Spawns : ~Condemns(s, current)
  BY DEF IndInv, StatesAgree, StateTells, WillSpawn
<1>2. kills[ByApply].entry = 0
  BY <1>1 DEF IndInv, KillsAgree
<1>3. kills[ByApply].start = 0
  BY <1>2, Unused, CallersDiffer
<1> QED BY <1>1, <1>3, NoneInFlight

\* An attached process is that of the entry supervised, while nothing is in flight.
LEMMA Attached ==
  ASSUME TypeOK, IndInv, NEW e \in Entries, launched[e] # 0
  PROVE  /\ e = current /\ mode = "serving" /\ state[e] = "up" /\ \A s \in Spawns : ~InFlight(s)
         /\ launched[e] \in Spawns /\ owner[launched[e]] = e /\ proc[launched[e]] = "live"
<1>1. /\ e = current /\ mode = "serving" /\ current # 0
      /\ launched[e] \in Spawns /\ owner[launched[e]] = e /\ proc[launched[e]] = "live"
  BY Slots DEF TypeOK, IndInv, SlotsAgree
<1>2. state[e] = "up"
  BY <1>1 DEF IndInv, StatesAgree, StateTells
<1> QED BY <1>1, <1>2, Settled

\* Whatever leaves what IndInv speaks of alone keeps it.
LEMMA SameInv ==
  ASSUME IndInv,
         UNCHANGED <<mode, current, state, launched, starting, restartTimer, owner, at, proc,
                     aborted, stale, kills>>
  PROVE  IndInv'
  BY DEF IndInv, SlotsAgree, ProcsAgree, OneInFlight, StaleAgree, KillsAgree, StaleAwaited,
         StatesAgree, StateTells, WillSpawn, Condemns, InFlight

\* A launch that goes on, or is given up or discarded by itself.
LEMMA LaunchGoesOn ==
  ASSUME TypeOK, IndInv, NEW s \in Spawns,
         \/ at[s] = "opening" /\ at' = [at EXCEPT ![s] = "launching"]
              /\ proc' = [proc EXCEPT ![s] = "live"]
         \/ at[s] = "launching" /\ at' = at /\ proc' = [proc EXCEPT ![s] = "stopping"]
         \/ at[s] = "launching" /\ ~Wanted(s) /\ at' = [at EXCEPT ![s] = "discarding"]
              /\ proc' = [proc EXCEPT ![s] = "stopping"],
         UNCHANGED <<mode, current, state, launched, starting, restartTimer, owner, aborted,
                     stale, kills>>
  PROVE  IndInv'
<1>1. \A t \in Spawns : InFlight(t)' <=> InFlight(t)
  BY DEF TypeOK, InFlight
<1>2. SlotsAgree'
  <2>1. \A e \in Entries : launched[e] # 0 => launched[e] # s
    BY DEF IndInv, SlotsAgree
  <2>2. \A e \in Entries : launched[e] # 0 => launched[e] \in Spawns
    BY DEF TypeOK
  <2>3. \A e \in Entries : starting[e] # 0 => starting[e] \in Spawns
    BY DEF TypeOK
  <2> QED BY <1>1, <2>1, <2>2, <2>3 DEF TypeOK, IndInv, SlotsAgree
<1>3. ProcsAgree'
  BY DEF TypeOK, IndInv, ProcsAgree
<1>4. OneInFlight'
  BY <1>1 DEF IndInv, OneInFlight
<1>5. StaleAgree'
  <2>1. InFlight(s)
    BY DEF InFlight
  <2>2. ~Wanted(s) => s \in stale
    BY <2>1 DEF IndInv, StaleAgree, Wanted
  <2>3. \A t \in Spawns : at'[t] = "discarding" => t \in stale
    BY <2>2 DEF TypeOK, IndInv, StaleAgree
  <2> QED BY <1>1, <2>3 DEF TypeOK, IndInv, StaleAgree
<1>6. KillsAgree'
  <2>1. \A k \in Callers : kills[k].stops # 0 => kills[k].stops \in Spawns
    BY KillFields DEF TypeOK
  <2>2. proc[s] = "stopping" => proc'[s] = "stopping"
    BY DEF TypeOK, IndInv, ProcsAgree
  <2>3. \A t \in Spawns : proc[t] = "stopping" => proc'[t] = "stopping"
    BY <2>2 DEF TypeOK
  <2> QED BY <2>1, <2>3 DEF IndInv, KillsAgree
<1>7. StaleAwaited'
  BY DEF IndInv, StaleAwaited
<1>8. StatesAgree'
  BY DEF IndInv, StatesAgree, StateTells, WillSpawn, Condemns
<1> QED BY <1>2, <1>3, <1>4, <1>5, <1>6, <1>7, <1>8 DEF IndInv

\* Once the spawn in flight has settled none is left.
LEMMA SettleEffect ==
  ASSUME TypeOK, IndInv, NEW s \in Spawns, InFlight(s), Settle(s)
  PROVE  /\ \A t \in Spawns : at'[t] = "idle"
         /\ \A e \in Entries : starting'[e] = 0
         /\ stale' = {} /\ aborted' = {}
  BY Alone DEF TypeOK, Settle

\* What is left of the invariant when nothing is in flight.
LEMMA SettledInv ==
  ASSUME \A t \in Spawns : at'[t] = "idle", \A e \in Entries : starting'[e] = 0,
         stale' = {}, aborted' = {},
         \A e \in Entries : launched'[e] # 0 =>
           /\ e = current' /\ mode' = "serving" /\ owner'[launched'[e]] = e
           /\ launched'[e] \in Spawns /\ proc'[launched'[e]] = "live",
         \A t \in Spawns : proc'[t] = "live" => launched'[owner'[t]] = t,
         KillsAgree', StatesAgree'
  PROVE  IndInv'
<1>1. SlotsAgree' /\ ProcsAgree' /\ OneInFlight' /\ StaleAgree' /\ StaleAwaited'
  BY DEF SlotsAgree, ProcsAgree, OneInFlight, StaleAgree, StaleAwaited, InFlight
<1> QED BY <1>1 DEF IndInv

\* A spawn that comes to nothing: the connector is down and will be restarted, or somebody
\* else has it in hand.
LEMMA SettleKeeps ==
  ASSUME TypeOK, IndInv, NEW s \in Spawns, InFlight(s), Settle(s), proc[s] # "live",
         UNCHANGED <<mode, current, launched, owner, proc, kills>>,
         \/ /\ Wanted(s) /\ state' = [state EXCEPT ![owner[s]] = "down"]
            /\ restartTimer' = restartTimer \cup {owner[s]}
         \/ ~Wanted(s) /\ UNCHANGED <<state, restartTimer>>
  PROVE  IndInv'
<1>1. /\ \A t \in Spawns : at'[t] = "idle"
      /\ \A e \in Entries : starting'[e] = 0
      /\ stale' = {} /\ aborted' = {}
  BY SettleEffect
<1>2. \A e \in Entries : launched[e] = 0
  BY Attached
<1>3. \A t \in Spawns : proc[t] # "live"
  BY <1>2, Alone, Slots DEF TypeOK, IndInv, ProcsAgree
<1>4. KillsAgree'
  BY DEF IndInv, KillsAgree
<1>5. StatesAgree'
  <2> DEFINE e == owner[s]
  <2>0. e \in Entries /\ starting[e] = s /\ s # 0 /\ 0 \notin Entries
    BY Alone, Slots
  <2>1. CASE Wanted(s)
    <3>1. e = current /\ mode = "serving" /\ s \notin stale
      BY <2>1 DEF Wanted
    <3>2. StateTells(e) /\ state[e] = "starting"
      BY <2>0, <3>1 DEF IndInv, StatesAgree, StateTells
    <3>3. state'[e] = "down" /\ e \in restartTimer' /\ \A d \in Entries : d # e => state'[d] = state[d]
      BY <2>0, <2>1 DEF TypeOK
    <3>4. ~WillSpawn(e) /\ \A t \in Spawns : ~Condemns(t, e)
      BY <3>2 DEF StateTells
    <3>5. StateTells(e)'
      BY <1>1, <1>2, <2>0, <3>3, <3>4 DEF StateTells, WillSpawn, Condemns
    <3>6. current' = e
      BY <3>1
    <3>7. \A d \in Entries : d # current' => state'[d] = "stopped"
      BY <3>1, <3>3 DEF IndInv, StatesAgree
    <3> QED BY <3>5, <3>6, <3>7 DEF StatesAgree
  <2>2. CASE ~Wanted(s)
    <3>1. ASSUME mode = "serving", current # 0 PROVE StateTells(current)'
      <4>1. StateTells(current) /\ current \in Entries
        BY <3>1 DEF IndInv, StatesAgree, TypeOK
      <4>2. ~(starting[current] # 0 /\ starting[current] \notin stale)
        BY <2>2, <3>1, <4>1, Alone DEF Wanted
      <4>3. starting'[current] = 0
        BY <1>1, <4>1
      <4> QED BY <1>1, <2>2, <4>1, <4>2, <4>3 DEF StateTells, WillSpawn, Condemns
    <3> QED BY <2>2, <3>1 DEF IndInv, StatesAgree
  <2> QED BY <2>1, <2>2
<1> QED BY <1>1, <1>2, <1>3, <1>4, <1>5, SettledInv

\* The connector is up.
LEMMA AttachKeeps ==
  ASSUME TypeOK, IndInv, NEW s \in Spawns, Attach(s)
  PROVE  IndInv'
<1>o. PICK e \in Entries : e = owner[s]
  BY DEF TypeOK
<1>0. /\ InFlight(s) /\ Settle(s) /\ mode = "serving" /\ s \notin stale /\ e = current
      /\ proc[s] = "live"
      /\ launched' = [launched EXCEPT ![e] = s] /\ state' = [state EXCEPT ![e] = "up"]
      /\ UNCHANGED <<mode, current, restartTimer, owner, proc, kills>>
  BY <1>o DEF Attach, Wanted, InFlight
<1>e. e \in Entries /\ starting[e] = s /\ s # 0 /\ 0 \notin Entries
  BY <1>0, <1>o, Alone, Slots
<1>1. /\ \A t \in Spawns : at'[t] = "idle"
      /\ \A d \in Entries : starting'[d] = 0
      /\ stale' = {} /\ aborted' = {}
  BY <1>0, SettleEffect
<1>2. \A d \in Entries : launched[d] = 0
  BY <1>0, Attached
<1>3. launched'[e] = s /\ \A d \in Entries : d # e => launched'[d] = 0
  BY <1>0, <1>e, <1>2 DEF TypeOK
<1>4. \A t \in Spawns : t # s => proc[t] # "live"
  BY <1>0, <1>2, Alone, Slots DEF TypeOK, IndInv, ProcsAgree
<1>5. KillsAgree'
  BY <1>0 DEF IndInv, KillsAgree
<1>6. StateTells(e) /\ state[e] = "starting"
  BY <1>0, <1>e DEF IndInv, StatesAgree, StateTells
<1>7. ~WillSpawn(e) /\ (\A t \in Spawns : ~Condemns(t, e)) /\ e \notin restartTimer
  BY <1>6 DEF StateTells
<1>8. state'[e] = "up" /\ \A d \in Entries : d # e => state'[d] = state[d]
  BY <1>0, <1>e DEF TypeOK
<1>9. StatesAgree'
  <2>1. StateTells(e)'
    BY <1>0, <1>1, <1>3, <1>e, <1>7, <1>8 DEF StateTells, WillSpawn, Condemns
  <2>2. current' = e /\ \A d \in Entries : d # current' => state'[d] = "stopped"
    BY <1>0, <1>8 DEF IndInv, StatesAgree
  <2> QED BY <2>1, <2>2 DEF StatesAgree
<1>10. \A d \in Entries : launched'[d] # 0 =>
           /\ d = current' /\ mode' = "serving" /\ owner'[launched'[d]] = d
           /\ launched'[d] \in Spawns /\ proc'[launched'[d]] = "live"
  BY <1>0, <1>3, <1>o
<1>11. \A t \in Spawns : proc'[t] = "live" => launched'[owner'[t]] = t
  BY <1>0, <1>3, <1>4, <1>o
<1> QED BY <1>1, <1>5, <1>9, <1>10, <1>11, SettledInv

\* A process is gone; an attached one leaves its connector down or, at the end, stopped.
LEMMA ExitKeeps ==
  ASSUME TypeOK, IndInv, NEW s \in Spawns, Exit(s)
  PROVE  IndInv'
<1>o. PICK e \in Entries : e = owner[s]
  BY DEF TypeOK
<1>e. e \in Entries /\ s # 0 /\ 0 \notin Entries
  BY Slots
<1>0. /\ proc[s] # "none" /\ proc' = [proc EXCEPT ![s] = "none"]
      /\ IF launched[e] = s
         THEN launched' = [launched EXCEPT ![e] = 0] /\ Exited(e)
         ELSE UNCHANGED <<launched, state, restartTimer>>
      /\ kills' = [k \in Callers |->
            IF kills[k].stops = s THEN [kills[k] EXCEPT !.stops = 0] ELSE kills[k]]
      /\ UNCHANGED <<mode, current, starting, owner, at, aborted, stale>>
  BY <1>o DEF Exit
<1>k. ASSUME NEW k \in Callers
      PROVE
        /\ kills'[k].entry = kills[k].entry /\ kills'[k].start = kills[k].start
        /\ kills'[k].next = kills[k].next /\ kills'[k].stale = kills[k].stale
        /\ kills'[k].stops = IF kills[k].stops = s THEN 0 ELSE kills[k].stops
        /\ kills[k].stops # s => kills'[k] = kills[k]
        /\ kills[k].stops \in Spawns \cup {0}
  <2>1. kills[k] \in Kill
    BY DEF TypeOK
  <2>2. kills'[k] = IF kills[k].stops = s THEN [kills[k] EXCEPT !.stops = 0] ELSE kills[k]
    BY <1>0
  <2>3. CASE kills[k].stops = s
    <3>1. kills'[k] = [kills[k] EXCEPT !.stops = 0]
      BY <2>2, <2>3
    <3> QED BY <2>1, <2>3, <3>1, KillFields
  <2>4. CASE kills[k].stops # s
    <3>1. kills'[k] = kills[k]
      BY <2>2, <2>4
    <3> QED BY <2>1, <2>4, <3>1, KillFields
  <2> QED BY <2>3, <2>4
<1>p. proc'[s] = "none" /\ \A t \in Spawns : t # s => proc'[t] = proc[t]
  BY <1>0 DEF TypeOK
<1>l. \A d \in Entries : launched'[d] = IF launched[d] = s THEN 0 ELSE launched[d]
  <2>1. \A d \in Entries : launched[d] = s => d = e
    BY <1>e, <1>o, Attached
  <2> QED BY <1>0, <1>e, <2>1 DEF TypeOK
<1>1. SlotsAgree'
  <2>1. \A d \in Entries : launched[d] # 0 => launched[d] \in Spawns
    BY DEF TypeOK
  <2> QED BY <1>0, <1>l, <1>p, <2>1 DEF IndInv, SlotsAgree, InFlight
<1>2. ProcsAgree'
  BY <1>0, <1>l, <1>p, <1>e, <1>o DEF TypeOK, IndInv, ProcsAgree
<1>3. OneInFlight' /\ StaleAgree'
  BY <1>0 DEF IndInv, OneInFlight, StaleAgree, InFlight
<1>4. KillsAgree'
  <2>1. \A k \in Callers : kills[k].entry = 0 => kills[k].stops = 0
    BY Unused
  <2> QED BY <1>0, <1>k, <1>p, <1>e, <2>1, CallersDiffer DEF IndInv, KillsAgree
<1>5. StaleAwaited'
  BY <1>0, <1>k, CallersDiffer DEF IndInv, StaleAwaited
<1>6. StatesAgree'
  <2>c. \A d \in Entries : /\ WillSpawn(d)' <=> WillSpawn(d)
                           /\ \A t \in Spawns : Condemns(t, d)' <=> Condemns(t, d)
    BY <1>k, CallersDiffer DEF WillSpawn, Condemns
  <2>w. \A d \in Entries : (kills[ByRestart].entry = d => kills[ByApply].next # d)
                        <=> (kills'[ByRestart].entry = d => kills'[ByApply].next # d)
    BY <1>k, CallersDiffer
  <2>1. CASE launched[e] = s
    <3>1. e = current /\ mode = "serving" /\ state[e] = "up" /\ \A t \in Spawns : ~InFlight(t)
      BY <1>e, <2>1, Attached
    <3>2. /\ state' = [state EXCEPT ![e] = "down"] /\ restartTimer' = restartTimer \cup {e}
      BY <1>0, <2>1, <3>1 DEF Exited
    <3>3. state'[e] = "down" /\ \A d \in Entries : d # e => state'[d] = state[d]
      BY <1>e, <3>2 DEF TypeOK
    <3>4. StateTells(e)
      BY <1>e, <3>1 DEF IndInv, StatesAgree
    <3>5. starting'[e] = 0 /\ launched'[e] = 0 /\ e \in restartTimer'
      BY <1>0, <1>e, <1>l, <2>1, <3>1, <3>2, NoneStarting
    <3>6. ~WillSpawn(e) /\ \A t \in Spawns : ~Condemns(t, e)
      BY <3>1, <3>4 DEF StateTells
    <3>7. ~WillSpawn(e)' /\ \A t \in Spawns : ~Condemns(t, e)'
      BY <1>e, <2>c, <3>6
    <3>8. StateTells(e)'
      BY <3>3, <3>5, <3>7 DEF StateTells, WillSpawn
    <3>9. current' = e /\ \A d \in Entries : d # current' => state'[d] = "stopped"
      BY <1>0, <3>1, <3>3 DEF IndInv, StatesAgree
    <3> QED BY <3>8, <3>9 DEF StatesAgree
  <2>2. CASE launched[e] # s
    <3>1. UNCHANGED <<launched, state, restartTimer>>
      BY <1>0, <2>2
    <3>2. ASSUME NEW d \in Entries, StateTells(d) PROVE StateTells(d)'
      <4>1. \A t \in Spawns : Condemns(t, d)' <=> Condemns(t, d)
        BY <2>c
      <4>2. WillSpawn(d)' <=> WillSpawn(d)
        BY <2>c
      <4> HIDE <1>0
      <4>3. UNCHANGED <<starting, stale>>
        BY <1>0
      <4> QED BY <2>w, <3>1, <3>2, <4>1, <4>2, <4>3 DEF StateTells
    <3>3. current # 0 => current \in Entries
      BY DEF TypeOK
    <3>4. UNCHANGED <<mode, current, state>>
      BY <1>0, <3>1
    <3> QED BY <3>2, <3>3, <3>4 DEF IndInv, StatesAgree
  <2> QED BY <2>1, <2>2
<1> QED BY <1>1, <1>2, <1>3, <1>4, <1>5, <1>6 DEF IndInv

\* A launch where nothing is at work and nothing else will launch: start(), a restart timer,
\* and what a restart or a reload goes on with.
LEMMA LaunchKeeps ==
  ASSUME TypeOK, IndInv, FreeSpawns # {}, NEW e \in Entries, NEW kd, Launch(e, kd),
         \A s \in Spawns : ~InFlight(s), \A d \in Entries : launched[d] = 0,
         UNCHANGED <<launched, stale, aborted>>,
         mode' = "serving", current' = e, \A d \in Entries : d # e => state[d] = "stopped",
         e \notin restartTimer', \A k \in Callers : kills'[k] = kills[k] \/ kills'[k] = NoKill,
         kills'[ByApply].entry # 0 => kills'[ByApply].next = e,
         kills'[ByRestart].entry # e, kills'[ByApply].next # e,
         \A s \in Spawns : kills'[Health(s)].entry = e => kills'[Health(s)].stale
  PROVE  IndInv'
<1>0. /\ stale = {} /\ aborted = {} /\ \A d \in Entries : starting[d] = 0
      /\ \A s \in Spawns : at[s] = "idle" /\ proc[s] # "live"
      /\ 0 \notin Spawns /\ 0 \notin Entries
  BY NoneStarting, Slots DEF TypeOK, IndInv, ProcsAgree, InFlight
<1>1. ASSUME NEW k \in Callers, kills'[k].stops # 0
      PROVE  kills'[k].stops \in Spawns /\ kills'[k].start = 0 /\ proc[kills'[k].stops] = "stopping"
  <2>1. kills'[k] = kills[k]
    BY <1>1, NoKillFields
  <2>2. kills[k].stops \in Spawns
    BY <1>1, <2>1, KillFields DEF TypeOK
  <2> QED BY <1>1, <2>1, <2>2 DEF IndInv, KillsAgree
<1>2. \A k \in Callers : kills'[k].entry = 0 => kills'[k] = NoKill
  BY DEF IndInv, KillsAgree
<1>3. ~WillSpawn(e)' /\ \A s \in Spawns : ~Condemns(s, e)'
  BY DEF WillSpawn, Condemns
<1>4. CASE UNCHANGED <<starting, owner, at, proc>> /\ state' = [state EXCEPT ![e] = "external"]
  <2>1. KillsAgree'
    BY <1>1, <1>2, <1>4 DEF KillsAgree
  <2>2. state'[e] = "external" /\ \A d \in Entries : d # e => state'[d] = "stopped"
    BY <1>4 DEF TypeOK
  <2>3. StateTells(e)'
    BY <1>0, <1>3, <1>4, <2>2 DEF StateTells
  <2>4. StatesAgree'
    BY <2>2, <2>3 DEF StatesAgree
  <2>5. SlotsAgree' /\ ProcsAgree' /\ OneInFlight' /\ StaleAgree' /\ StaleAwaited'
    BY <1>0, <1>4 DEF SlotsAgree, ProcsAgree, OneInFlight, StaleAgree, StaleAwaited, InFlight
  <2> QED BY <2>1, <2>4, <2>5 DEF IndInv
<1>5. ASSUME NEW s \in FreeSpawns,
             state' = [state EXCEPT ![e] = "starting"],
             starting' = [starting EXCEPT ![e] = s], owner' = [owner EXCEPT ![s] = e],
             \/ at' = [at EXCEPT ![s] = "opening"] /\ UNCHANGED proc
             \/ at' = [at EXCEPT ![s] = "launching"] /\ proc' = [proc EXCEPT ![s] = "live"]
      PROVE  IndInv'
  <2>1. s \in Spawns /\ s # 0 /\ proc[s] = "none"
    BY <1>0 DEF FreeSpawns
  <2>2. /\ starting'[e] = s /\ \A d \in Entries : d # e => starting'[d] = 0
        /\ owner'[s] = e /\ at'[s] \in {"opening", "launching"}
        /\ at'[s] = "opening" => proc'[s] = "none"
        /\ \A t \in Spawns : t # s => at'[t] = "idle" /\ proc'[t] = proc[t]
        /\ state'[e] = "starting" /\ \A d \in Entries : d # e => state'[d] = "stopped"
    BY <1>0, <1>5, <2>1 DEF TypeOK
  <2>3. KillsAgree'
    BY <1>1, <1>2, <2>1, <2>2 DEF KillsAgree
  <2>4. StateTells(e)'
    BY <1>0, <1>3, <2>1, <2>2 DEF StateTells
  <2>5. StatesAgree'
    BY <2>2, <2>4 DEF StatesAgree
  <2>6. SlotsAgree' /\ ProcsAgree' /\ OneInFlight' /\ StaleAgree' /\ StaleAwaited'
    BY <1>0, <2>1, <2>2
    DEF SlotsAgree, ProcsAgree, OneInFlight, StaleAgree, StaleAwaited, InFlight
  <2> QED BY <2>3, <2>5, <2>6 DEF IndInv
<1> QED BY <1>4, <1>5, LaunchEffect

\* A kill that begins takes the connector out of every other hand; who called it may spawn
\* it again.
LEMMA BeginKillKeeps ==
  ASSUME TypeOK, IndInv, NEW k \in Callers, NEW e \in Entries, NEW n \in Entries \cup {0},
         e = current, BeginKill(k, e, n), UNCHANGED <<starting, owner, at>>,
         kills'[ByApply].entry # 0 => kills'[ByApply].next = current',
         StaleAwaited', StatesAgree'
  PROVE  IndInv'
<1>0. 0 \notin Spawns /\ 0 \notin Entries
  BY Slots
<1>1. /\ stale' = stale \cup {s \in Spawns : owner[s] = e /\ InFlight(s)}
      /\ aborted' = aborted \cup ({starting[e]} \ {0})
      /\ launched' = [launched EXCEPT ![e] = 0]
      /\ IF starting[e] = 0 THEN Signal(launched[e]) ELSE UNCHANGED proc
  BY DEF BeginKill
<1>2. \A d \in Entries : launched'[d] = 0
  <2>1. \A d \in Entries : launched[d] # 0 => d = e
    BY Attached
  <2> QED BY <1>1, <2>1 DEF TypeOK
<1>3. launched[e] # 0 => starting[e] = 0
  BY Attached, NoneStarting
<1>4. \A s \in Spawns : proc'[s] = IF s = launched[e] THEN "stopping" ELSE proc[s]
  <2>1. CASE launched[e] = 0
    BY <1>0, <1>1, <2>1 DEF Signal
  <2>2. CASE launched[e] # 0
    BY <1>1, <1>3, <2>2 DEF Signal, TypeOK
  <2> QED BY <2>1, <2>2
<1>5. SlotsAgree' /\ OneInFlight'
  BY <1>2 DEF IndInv, SlotsAgree, OneInFlight, InFlight
<1>6. ProcsAgree'
  <2>1. \A s \in Spawns : at[s] = "idle" /\ proc[s] = "live" => s = launched[e]
    BY <1>0, Attached DEF TypeOK, IndInv, ProcsAgree
  <2>2. \A s \in Spawns : s = launched[e] => at[s] = "idle"
    BY <1>0 DEF IndInv, SlotsAgree
  <2>3. ASSUME NEW s \in Spawns
        PROVE  /\ at[s] = "opening" => proc'[s] = "none"
               /\ at[s] = "discarding" => proc'[s] # "live"
               /\ ~(at[s] = "idle" /\ proc'[s] = "live")
    BY <1>4, <2>1, <2>2 DEF IndInv, ProcsAgree
  <2> QED BY <2>3 DEF ProcsAgree
<1>7. StaleAgree'
  <2>1. \A s \in Spawns : InFlight(s) => s \in stale'
    BY <1>1 DEF IndInv, StaleAgree
  <2>2. starting[e] # 0 => starting[e] \in Spawns /\ InFlight(starting[e])
    BY DEF TypeOK, IndInv, SlotsAgree
  <2>3. aborted' \subseteq stale'
    BY <1>1, <2>1, <2>2 DEF IndInv, StaleAgree
  <2>4. \A s \in stale' : InFlight(s)
    BY <1>1 DEF IndInv, StaleAgree
  <2> QED BY <2>1, <2>3, <2>4 DEF StaleAgree, InFlight
<1>k. /\ kills'[k].entry = e /\ kills'[k].start = starting[e] /\ kills'[k].stops = launched[e]
      /\ \A c \in Callers \ {k} :
           /\ kills'[c].entry = kills[c].entry /\ kills'[c].start = kills[c].start
           /\ kills'[c].stops = kills[c].stops
           /\ kills[c].entry # e => kills'[c] = kills[c]
  <2>1. KillBegun(k, e, n)
    BY BeginKillEffect
  <2> QED BY <2>1 DEF KillBegun
<1>8. KillsAgree'
  <2>1. ASSUME NEW c \in Callers, kills'[c].entry = 0 PROVE kills'[c] = NoKill
    <3>1. c # k
      BY <1>0, <1>k, <2>1
    <3>2. kills[c].entry = 0 /\ kills[c].entry # e
      BY <1>0, <1>k, <2>1, <3>1
    <3>3. kills'[c] = kills[c]
      BY <1>k, <3>1, <3>2
    <3> QED BY <3>2, <3>3 DEF IndInv, KillsAgree
  <2>2. ASSUME NEW c \in Callers, kills'[c].stops # 0
        PROVE  kills'[c].start = 0 /\ proc'[kills'[c].stops] = "stopping"
    <3>1. CASE c = k
      <4>1. launched[e] # 0 /\ launched[e] \in Spawns
        BY <1>k, <2>2, <3>1 DEF TypeOK
      <4> QED BY <1>3, <1>4, <1>k, <3>1, <4>1
    <3>2. CASE c # k
      <4>1. kills'[c].start = kills[c].start /\ kills'[c].stops = kills[c].stops
        BY <1>k, <3>2
      <4>2. kills[c].stops \in Spawns
        BY <2>2, <4>1, KillFields DEF TypeOK
      <4> QED BY <1>4, <2>2, <4>1, <4>2 DEF IndInv, KillsAgree
    <3> QED BY <3>1, <3>2
  <2> QED BY <2>1, <2>2 DEF KillsAgree
<1> QED BY <1>5, <1>6, <1>7, <1>8 DEF IndInv

\* What a kill says of the entry it kills, whoever called it.
LEMMA BeginKillStates ==
  ASSUME TypeOK, IndInv, NEW k \in Callers, NEW e \in Entries, NEW n \in Entries \cup {0},
         e = current, BeginKill(k, e, n)
  PROVE  /\ state'[e] = "stopped" /\ \A d \in Entries : state'[d] = "stopped" \/ d = current
         /\ launched'[e] = 0 /\ e \notin restartTimer' /\ restartTimer' \subseteq restartTimer
         /\ \A d \in Entries : launched'[d] = 0
         /\ starting[e] # 0 => starting[e] \in stale'
         /\ \A t \in stale' : t \in Spawns /\ InFlight(t) /\ (owner[t] = e \/ t \in stale)
         /\ \A t \in Spawns : Health(t) # k => ~Condemns(t, e)'
<1>1. /\ state' = [state EXCEPT ![e] = "stopped"] /\ launched' = [launched EXCEPT ![e] = 0]
      /\ restartTimer' = restartTimer \ {e}
      /\ stale' = stale \cup {s \in Spawns : owner[s] = e /\ InFlight(s)}
  BY DEF BeginKill
<1>2. /\ state'[e] = "stopped" /\ \A d \in Entries : state'[d] = "stopped" \/ d = current
      /\ launched'[e] = 0 /\ e \notin restartTimer' /\ restartTimer' \subseteq restartTimer
  BY <1>1 DEF TypeOK, IndInv, StatesAgree
<1>3. \A d \in Entries : launched'[d] = 0
  <2>1. \A d \in Entries : launched[d] # 0 => d = e
    BY Attached
  <2> QED BY <1>1, <2>1 DEF TypeOK
<1>4. starting[e] # 0 => starting[e] \in stale'
  BY <1>1 DEF TypeOK, IndInv, SlotsAgree
<1>5. \A t \in stale' : t \in Spawns /\ InFlight(t) /\ (owner[t] = e \/ t \in stale)
  BY <1>1 DEF TypeOK, IndInv, StaleAgree
<1>6. ASSUME NEW t \in Spawns, Health(t) # k PROVE ~Condemns(t, e)'
  <2>1. KillBegun(k, e, n)
    BY BeginKillEffect
  <2>2. Health(t) \in Callers \ {k}
    BY <1>6, CallersDiffer
  <2>3. /\ kills'[Health(t)].entry = kills[Health(t)].entry
        /\ kills'[Health(t)].stale <=> (kills[Health(t)].stale \/ kills[Health(t)].entry = e)
    BY <2>1, <2>2 DEF KillBegun
  <2> QED BY <2>3 DEF Condemns
<1> QED BY <1>2, <1>3, <1>4, <1>5, <1>6

\* restart() kills the supervised entry and will spawn it again.
LEMMA RestartKeeps ==
  ASSUME TypeOK, IndInv, RestartWhileReplacing = FALSE, Restart
  PROVE  IndInv'
<1> PICK e \in Entries : e = current
  BY DEF Restart, TypeOK
<1>1. /\ BeginKill(ByRestart, e, 0) /\ UNCHANGED <<mode, current, starting, owner, at>>
      /\ kills[ByApply].next = 0 /\ e # 0
  BY DEF Restart, ByRestart, ByApply
<1>2. /\ kills'[ByRestart].entry = e /\ kills'[ByRestart].start = starting[e]
      /\ kills'[ByApply].entry = kills[ByApply].entry /\ kills'[ByApply].next = 0
      /\ kills'[ByApply].start = kills[ByApply].start
  <2>1. KillBegun(ByRestart, e, 0)
    BY <1>1, BeginKillEffect, CallersDiffer
  <2> QED BY <1>1, <2>1, CallersDiffer DEF KillBegun
<1>3. /\ state'[e] = "stopped" /\ \A d \in Entries : state'[d] = "stopped" \/ d = current
      /\ launched'[e] = 0 /\ e \notin restartTimer'
      /\ starting[e] # 0 => starting[e] \in stale'
      /\ \A t \in stale' : t \in Spawns /\ InFlight(t) /\ (owner[t] = e \/ t \in stale)
      /\ \A t \in Spawns : ~Condemns(t, e)'
  BY <1>1, BeginKillStates, CallersDiffer
<1>4. StaleAwaited'
  <2> SUFFICES ASSUME mode = "serving", NEW t \in stale'
               PROVE  \/ kills'[ByRestart].start = t /\ kills'[ByRestart].entry = e /\ owner[t] = e
                      \/ kills'[ByApply].start = t
    BY <1>1 DEF StaleAwaited
  <2>1. CASE owner[t] = e
    BY <1>2, <1>3, <2>1, Alone
  <2>2. CASE owner[t] # e
    BY <1>2, <1>3, <2>2 DEF IndInv, StaleAwaited
  <2> QED BY <2>1, <2>2
<1>5. StateTells(e)'
  BY <1>1, <1>2, <1>3 DEF StateTells, WillSpawn
<1>6. StatesAgree'
  BY <1>1, <1>3, <1>5 DEF StatesAgree
<1>7. kills'[ByApply].entry # 0 => kills'[ByApply].next = current'
  BY <1>1, <1>2 DEF IndInv, KillsAgree
<1> QED BY <1>1, <1>4, <1>6, <1>7, BeginKillKeeps, CallersDiffer

\* A reload takes the entry away, or puts one in its place that it spawns once the old one
\* is killed.
LEMMA ReplaceKeeps ==
  ASSUME TypeOK, IndInv, ~Busy("apply"), NEW e \in Entries, NEW n \in Entries \cup {0},
         e = current, BeginKill(ByApply, e, n), n # 0 => n \in FreeEntries,
         current' = n, UNCHANGED <<mode, starting, owner, at>>
  PROVE  IndInv'
<1>0. kills[ByApply].start = 0 /\ kills[ByApply].next = 0
  BY NoKillFields DEF Busy, ByApply
<1>1. /\ kills'[ByApply].entry = e /\ kills'[ByApply].start = starting[e]
      /\ kills'[ByApply].next = n /\ kills'[ByRestart].entry = kills[ByRestart].entry
      /\ \A t \in Spawns : kills'[Health(t)].entry = kills[Health(t)].entry
  <2>1. KillBegun(ByApply, e, n)
    BY BeginKillEffect, CallersDiffer
  <2> QED BY <2>1, CallersDiffer DEF KillBegun
<1>2. /\ state'[e] = "stopped" /\ \A d \in Entries : state'[d] = "stopped" \/ d = current
      /\ restartTimer' \subseteq restartTimer
      /\ \A d \in Entries : launched'[d] = 0
      /\ \A t \in stale' : t \in Spawns /\ InFlight(t) /\ (owner[t] = e \/ t \in stale)
  BY BeginKillStates, CallersDiffer
<1>3. StaleAwaited'
  <2> SUFFICES ASSUME mode = "serving", NEW t \in stale' PROVE kills'[ByApply].start = t
    BY DEF StaleAwaited
  <2>1. CASE owner[t] = e
    BY <1>1, <1>2, <2>1, Alone
  <2>2. CASE owner[t] # e
    BY <1>0, <1>2, <2>2, Slots DEF IndInv, StaleAwaited
  <2> QED BY <2>1, <2>2
<1>4. ASSUME n # 0 PROVE StateTells(n)'
  <2>1. /\ n # e /\ n \in Entries /\ n \notin restartTimer
        /\ \A k \in Callers : kills[k].entry # n
        /\ \A s \in Spawns : owner[s] = n => ~InFlight(s)
    BY <1>4 DEF FreeEntries, Killing
  <2>2. starting[n] = 0
    BY <2>1 DEF TypeOK, IndInv, SlotsAgree
  <2>3. state'[n] = "stopped" /\ launched'[n] = 0 /\ n \notin restartTimer' /\ starting'[n] = 0
    BY <1>2, <2>1, <2>2
  <2>4. kills'[ByRestart].entry # n /\ \A t \in Spawns : ~Condemns(t, n)'
    BY <1>1, <2>1, CallersDiffer DEF Condemns
  <2> QED BY <1>1, <2>3, <2>4 DEF StateTells, WillSpawn
<1>5. StatesAgree'
  BY <1>2, <1>4 DEF StatesAgree
<1> QED BY <1>1, <1>3, <1>5, BeginKillKeeps, CallersDiffer

\* stop() kills the supervised entry, if there is one.
LEMMA StopKeeps ==
  ASSUME TypeOK, IndInv, Stop
  PROVE  IndInv'
<1>1. CASE current = 0
  <2>1. \A e \in Entries : launched[e] = 0
    BY <1>1, Slots DEF IndInv, SlotsAgree
  <2>2. \A s \in Spawns : InFlight(s) => s \in stale
    BY <1>1, Slots DEF IndInv, StaleAgree, TypeOK
  <2>3. /\ mode' = "stopped"
        /\ UNCHANGED <<current, state, launched, starting, restartTimer, owner, at, proc, aborted,
                       stale, kills>>
    BY <1>1 DEF Stop
  <2>4. SlotsAgree' /\ StaleAgree'
    BY <2>1, <2>2, <2>3 DEF IndInv, SlotsAgree, StaleAgree, InFlight
  <2>5. ProcsAgree' /\ OneInFlight' /\ KillsAgree'
    BY <2>3 DEF IndInv, ProcsAgree, OneInFlight, KillsAgree, InFlight
  <2>6. StaleAwaited' /\ StatesAgree'
    BY <2>3 DEF IndInv, StaleAwaited, StatesAgree
  <2> QED BY <2>4, <2>5, <2>6 DEF IndInv
<1>2. CASE current # 0
  <2> PICK e \in Entries : e = current
    BY <1>2 DEF TypeOK
  <2>1. /\ BeginKill(ByStop, e, 0) /\ mode' = "stopping"
        /\ UNCHANGED <<current, starting, owner, at>>
    BY <1>2 DEF Stop, ByStop
  <2>2. /\ kills'[ByApply].entry = kills[ByApply].entry
        /\ kills'[ByApply].next = kills[ByApply].next
    <3>1. KillBegun(ByStop, e, 0)
      BY <2>1, BeginKillEffect, CallersDiffer
    <3> QED BY <3>1, CallersDiffer DEF KillBegun
  <2>3. \A d \in Entries : state'[d] = "stopped" \/ d = current
    BY <2>1, BeginKillStates, CallersDiffer
  <2>4. StaleAwaited' /\ StatesAgree'
    BY <2>1, <2>3 DEF StaleAwaited, StatesAgree
  <2>5. kills'[ByApply].entry # 0 => kills'[ByApply].next = current'
    BY <2>1, <2>2 DEF IndInv, KillsAgree
  <2> QED BY <2>1, <2>4, <2>5, BeginKillKeeps, CallersDiffer
<1> QED BY <1>1, <1>2

\* A health check kills what is attached, and will take it for crashed.
LEMMA CondemnKeeps ==
  ASSUME TypeOK, IndInv, NEW s \in Spawns, Condemn(s)
  PROVE  IndInv'
<1> PICK e \in Entries : e = owner[s]
  BY DEF TypeOK
<1>1. /\ launched[e] = s /\ BeginKill(Health(s), e, 0)
      /\ UNCHANGED <<mode, current, starting, owner, at>>
  BY DEF Condemn
<1>2. e = current /\ mode = "serving" /\ state[e] = "up" /\ e # 0 /\ \A t \in Spawns : ~InFlight(t)
  BY <1>1, Attached, Slots
<1>3. kills[ByRestart].entry # e /\ kills[ByApply].next # e
  BY <1>2, Settled
<1>4. /\ kills'[Health(s)].entry = e /\ ~kills'[Health(s)].stale
      /\ kills'[ByRestart].entry = kills[ByRestart].entry
      /\ kills'[ByApply].entry = kills[ByApply].entry
      /\ kills'[ByApply].next = kills[ByApply].next
  <2>1. KillBegun(Health(s), e, 0)
    BY <1>1, BeginKillEffect, CallersDiffer
  <2> QED BY <2>1, CallersDiffer DEF KillBegun
<1>5. /\ state'[e] = "stopped" /\ \A d \in Entries : state'[d] = "stopped" \/ d = current
      /\ launched'[e] = 0 /\ e \notin restartTimer'
      /\ starting[e] # 0 => starting[e] \in stale'
      /\ \A t \in stale' : t \in Spawns /\ InFlight(t)
      /\ \A t \in Spawns : t # s => ~Condemns(t, e)'
  BY <1>1, <1>2, BeginKillStates, CallersDiffer
<1>6. StaleAwaited'
  BY <1>2, <1>5 DEF StaleAwaited
<1>7. Condemns(s, e)' /\ ~WillSpawn(e)' /\ kills'[ByRestart].entry # e
  BY <1>3, <1>4 DEF Condemns, WillSpawn
<1>8. StateTells(e)'
  BY <1>1, <1>5, <1>7 DEF StateTells
<1>9. StatesAgree'
  BY <1>1, <1>2, <1>5, <1>8 DEF StatesAgree
<1>10. kills'[ByApply].entry # 0 => kills'[ByApply].next = current'
  BY <1>1, <1>4 DEF IndInv, KillsAgree
<1> QED BY <1>1, <1>2, <1>6, <1>9, <1>10, BeginKillKeeps, CallersDiffer

\* The spawn a kill waits for has settled; there is no process beside it to be told to go.
LEMMA KillGoesOnKeeps ==
  ASSUME TypeOK, IndInv, NEW k \in Callers, KillGoesOn(k)
  PROVE  IndInv'
<1>1. /\ kills[k].start # 0 /\ ~InFlight(kills[k].start) /\ kills[k] \in Kill
      /\ kills' = [kills EXCEPT ![k] = [kills[k] EXCEPT !.start = 0]] /\ Signal(kills[k].stops)
      /\ UNCHANGED <<mode, entryVars, owner, at, aborted, stale>>
  BY DEF KillGoesOn, SpawnSettled, TypeOK
<1>2. kills[k].stops = 0 /\ kills[k].entry # 0
  BY <1>1, Unused DEF IndInv, KillsAgree
<1>3. proc' = proc
  BY <1>1, <1>2 DEF Signal
<1>4. /\ \A c \in Callers : /\ kills'[c].entry = kills[c].entry
                            /\ kills'[c].stops = kills[c].stops
                            /\ kills'[c].next = kills[c].next
                            /\ kills'[c].stale = kills[c].stale
                            /\ kills'[c].start = IF c = k THEN 0 ELSE kills[c].start
      /\ \A c \in Callers : c # k => kills'[c] = kills[c]
  <2>1. kills'[k] = [kills[k] EXCEPT !.start = 0] /\ \A c \in Callers : c # k => kills'[c] = kills[c]
    BY <1>1 DEF TypeOK
  <2>2. /\ kills'[k].entry = kills[k].entry /\ kills'[k].stops = kills[k].stops
        /\ kills'[k].next = kills[k].next /\ kills'[k].stale = kills[k].stale
        /\ kills'[k].start = 0
    <3> PICK v \in Kill : v = kills[k]
      BY <1>1
    <3> DEFINE u == [v EXCEPT !.start = 0]
    <3>1. /\ u.entry = v.entry /\ u.start = 0 /\ u.stops = v.stops
          /\ u.next = v.next /\ u.stale = v.stale
      BY DEF Kill
    <3>2. kills'[k] = u
      BY <2>1
    <3> HIDE DEF u
    <3> QED BY <3>1, <3>2
  <2> QED BY <2>1, <2>2
<1>5. UNCHANGED <<mode, current, state, launched, starting, restartTimer, owner, at, proc,
                  aborted, stale>>
  BY <1>1, <1>3 DEF entryVars
<1>6. SlotsAgree' /\ ProcsAgree' /\ OneInFlight' /\ StaleAgree'
  BY <1>5 DEF IndInv, SlotsAgree, ProcsAgree, OneInFlight, StaleAgree, InFlight
<1>7. KillsAgree'
  BY <1>2, <1>4, <1>5, CallersDiffer DEF IndInv, KillsAgree
<1>8. StaleAwaited'
  <2>1. \A t \in stale : t # kills[k].start
    BY <1>1 DEF IndInv, StaleAgree
  <2> QED BY <1>4, <1>5, <2>1, CallersDiffer DEF IndInv, StaleAwaited
<1>9. StatesAgree'
  <2>1. \A d \in Entries : /\ WillSpawn(d)' <=> WillSpawn(d)
                           /\ \A t \in Spawns : Condemns(t, d)' <=> Condemns(t, d)
    BY <1>4, CallersDiffer DEF WillSpawn, Condemns
  <2>2. kills'[ByRestart].entry = kills[ByRestart].entry /\ kills'[ByApply].next = kills[ByApply].next
    BY <1>4, CallersDiffer
  <2>3. current # 0 => current \in Entries
    BY DEF TypeOK
  <2> QED BY <1>5, <2>1, <2>2, <2>3 DEF IndInv, StatesAgree, StateTells
<1> QED BY <1>6, <1>7, <1>8, <1>9 DEF IndInv

\* A kill that is over, apart from what its caller goes on with.
LEMMA EndedKeeps ==
  ASSUME TypeOK, IndInv, NEW k \in Callers, Ended(k), UNCHANGED <<starting, owner, at, proc>>,
         current' = current, mode' = mode \/ (mode # "serving" /\ mode' # "serving")
  PROVE  /\ SlotsAgree' /\ ProcsAgree' /\ OneInFlight' /\ StaleAgree' /\ KillsAgree'
         /\ StaleAwaited'
         /\ kills'[k] = NoKill /\ \A c \in Callers : c # k => kills'[c] = kills[c]
<1>1. /\ kills[k].entry # 0 /\ kills[k].start = 0 /\ kills[k].stops = 0
      /\ kills'[k] = NoKill /\ \A c \in Callers : c # k => kills'[c] = kills[c]
      /\ UNCHANGED <<launched, aborted, stale>>
  BY EndedEffect DEF Ended, TypeOK
<1>2. SlotsAgree' /\ ProcsAgree' /\ OneInFlight' /\ StaleAgree'
  BY <1>1 DEF IndInv, SlotsAgree, ProcsAgree, OneInFlight, StaleAgree, InFlight
<1>3. KillsAgree'
  BY <1>1, NoKillFields, CallersDiffer DEF IndInv, KillsAgree
<1>4. StaleAwaited'
  <2>1. \A t \in stale : t # 0
    BY Slots DEF TypeOK
  <2> QED BY <1>1, <2>1, CallersDiffer DEF IndInv, StaleAwaited
<1> QED BY <1>1, <1>2, <1>3, <1>4

\* The states stay when the kill that is over was not to bring anything up.
LEMMA EndedStates ==
  ASSUME TypeOK, IndInv, NEW k \in Callers, kills'[k] = NoKill,
         \A c \in Callers : c # k => kills'[c] = kills[c],
         UNCHANGED <<current, state, launched, starting, restartTimer, stale>>,
         mode' = mode \/ mode' # "serving",
         mode = "serving" /\ current # 0 =>
           /\ k = ByRestart => kills[k].entry # current
           /\ k = ByApply => kills[k].next # current
           /\ \A s \in Spawns : k = Health(s) => ~Condemns(s, current)
  PROVE  StatesAgree'
<1> SUFFICES ASSUME mode' = "serving", current # 0 PROVE StateTells(current)'
  BY DEF IndInv, StatesAgree
<1>1. current \in Entries /\ current # 0 /\ StateTells(current)
  BY DEF IndInv, StatesAgree, TypeOK
<1>2. kills'[ByRestart].entry = current <=> kills[ByRestart].entry = current
  BY <1>1, CallersDiffer, NoKillFields
<1>3. kills'[ByApply].next = current <=> kills[ByApply].next = current
  BY <1>1, CallersDiffer, NoKillFields
<1>4. \A s \in Spawns : Condemns(s, current)' <=> Condemns(s, current)
  BY <1>1, CallersDiffer, NoKillFields DEF Condemns
<1> QED BY <1>1, <1>2, <1>3, <1>4 DEF StateTells, WillSpawn

\* A health check whose kill is over takes its connector for crashed, if it still has it.
LEMMA HealthGoesOnKeeps ==
  ASSUME TypeOK, IndInv, NEW s \in Spawns, HealthGoesOn(s)
  PROVE  IndInv'
<1>0. /\ Ended(Health(s)) /\ Health(s) \in Callers
      /\ UNCHANGED <<mode, current, launched, starting, owner, at, proc, stale>>
  BY CallersDiffer DEF HealthGoesOn, Ended
<1>1. /\ SlotsAgree' /\ ProcsAgree' /\ OneInFlight' /\ StaleAgree' /\ KillsAgree'
      /\ StaleAwaited'
      /\ kills'[Health(s)] = NoKill /\ \A c \in Callers : c # Health(s) => kills'[c] = kills[c]
  <2> PICK k \in Callers : k = Health(s)
    BY <1>0
  <2>1. Ended(k) /\ UNCHANGED <<starting, owner, at, proc>> /\ current' = current /\ mode' = mode
    BY <1>0
  <2>2. /\ SlotsAgree' /\ ProcsAgree' /\ OneInFlight' /\ StaleAgree' /\ KillsAgree'
        /\ StaleAwaited'
        /\ kills'[k] = NoKill /\ \A c \in Callers : c # k => kills'[c] = kills[c]
    BY <2>1, EndedKeeps
  <2> QED BY <2>2
<1>2. CASE ~Condemns(s, current)
  <2>1. UNCHANGED <<state, restartTimer>>
    BY <1>2 DEF HealthGoesOn, Condemns
  <2>2. StatesAgree'
    BY <1>0, <1>1, <1>2, <2>1, EndedStates, CallersDiffer
  <2> QED BY <1>1, <2>2 DEF IndInv
<1>3. CASE Condemns(s, current)
  <2> PICK e \in Entries : e = current /\ e # 0
    BY <1>0, <1>3, EndedEffect, Slots DEF Condemns, TypeOK
  <2>1. Exited(e)
    BY <1>3 DEF HealthGoesOn, Condemns
  <2>2. \A d \in Entries : d # e => state'[d] = "stopped"
    BY <2>1 DEF Exited, TypeOK, IndInv, StatesAgree
  <2>3. CASE mode = "serving"
    <3>1. state'[e] = "down" /\ e \in restartTimer'
      BY <2>1, <2>3 DEF Exited, TypeOK
    <3>2. /\ StateTells(e) /\ state[e] = "stopped" /\ ~WillSpawn(e)
          /\ \A t \in Spawns : Condemns(t, e) => t = s
      BY <1>3, <2>3 DEF IndInv, StatesAgree, StateTells
    <3>3. ~WillSpawn(e)' /\ kills'[ByRestart].entry # e
      BY <1>1, <3>2, CallersDiffer DEF WillSpawn
    <3>4. \A t \in Spawns : ~Condemns(t, e)'
      BY <1>1, <3>2, CallersDiffer, NoKillFields, Slots DEF Condemns
    <3>5. StateTells(e)'
      BY <1>0, <3>1, <3>2, <3>3, <3>4 DEF StateTells
    <3>6. StatesAgree'
      BY <1>0, <2>2, <3>5 DEF StatesAgree
    <3> QED BY <1>1, <3>6 DEF IndInv
  <2>4. CASE mode # "serving"
    <3>1. StatesAgree'
      BY <1>0, <2>2, <2>4 DEF StatesAgree
    <3> QED BY <1>1, <3>1 DEF IndInv
  <2> QED BY <2>3, <2>4
<1> QED BY <1>2, <1>3

\* stop() is over.
LEMMA StopGoesOnKeeps ==
  ASSUME TypeOK, IndInv, StopInv, StopGoesOn
  PROVE  IndInv'
<1>0. /\ Ended(ByStop) /\ mode' = "stopped" /\ ByStop \in Callers
      /\ UNCHANGED <<current, state, launched, starting, restartTimer, owner, at, proc, stale>>
  BY CallersDiffer DEF StopGoesOn, Ended, NoLaunch, ByStop
<1>1. mode # "serving"
  BY <1>0, EndedEffect DEF StopInv
<1>2. /\ SlotsAgree' /\ ProcsAgree' /\ OneInFlight' /\ StaleAgree' /\ KillsAgree'
      /\ StaleAwaited'
  BY <1>0, <1>1, EndedKeeps
<1>3. StatesAgree'
  BY <1>0 DEF IndInv, StatesAgree
<1> QED BY <1>2, <1>3 DEF IndInv

\* restart() spawns its entry again, unless a reload or a stop came in between.
LEMMA RestartGoesOnKeeps ==
  ASSUME TypeOK, IndInv, RestartGoesOn
  PROVE  IndInv'
<1> PICK e \in Entries : e = kills[ByRestart].entry
  BY CallersDiffer, EndedEffect, KillFields DEF RestartGoesOn, ByRestart, TypeOK
<1>0. /\ Ended(ByRestart) /\ Respawn("restart", e) /\ ByRestart \in Callers
      /\ UNCHANGED <<mode, current, launched, restartTimer, aborted, stale>>
  BY CallersDiffer DEF RestartGoesOn, Respawn, Ended, ByRestart
<1>1. /\ kills[ByRestart].start = 0 /\ FreeSpawns # {}
      /\ kills'[ByRestart] = NoKill /\ \A c \in Callers : c # ByRestart => kills'[c] = kills[c]
  BY <1>0, EndedEffect DEF TypeOK
<1>2. CASE MaySpawn(e)
  <2>1. mode = "serving" /\ current = e /\ e # 0
    BY <1>2, Slots DEF MaySpawn
  <2>2. Launch(e, kind[e])
    BY <1>0, <1>2 DEF Respawn
  <2>3. /\ StateTells(e) /\ state[e] = "stopped" /\ kills[ByApply].next # e
        /\ \A s \in Spawns : ~Condemns(s, e)
    BY <2>1 DEF IndInv, StatesAgree, StateTells, WillSpawn
  <2>4. kills[ByApply].entry = 0 /\ kills[ByApply].start = 0
    BY <2>1, <2>3, Unused, CallersDiffer DEF IndInv, KillsAgree
  <2>5. \A s \in Spawns : ~InFlight(s)
    BY <1>1, <2>1, <2>3, <2>4, NoneInFlight
  <2>6. \A d \in Entries : launched[d] = 0
    BY <2>1, <2>3, Attached
  <2>7. e \notin restartTimer /\ \A d \in Entries : d # e => state[d] = "stopped"
    BY <2>1, <2>3 DEF IndInv, StatesAgree, StateTells
  <2>8. /\ kills'[ByRestart].entry # e /\ kills'[ByApply].next # e /\ kills'[ByApply].entry = 0
        /\ \A s \in Spawns : kills'[Health(s)].entry = e => kills'[Health(s)].stale
    BY <1>1, <2>1, <2>3, <2>4, CallersDiffer, NoKillFields DEF Condemns
  <2>9. \A k \in Callers : kills'[k] = kills[k] \/ kills'[k] = NoKill
    BY <1>1
  <2> QED BY <1>0, <1>1, <2>1, <2>2, <2>5, <2>6, <2>7, <2>8, <2>9, LaunchKeeps
<1>3. CASE ~MaySpawn(e)
  <2>1. UNCHANGED <<state, starting, owner, at, proc>>
    BY <1>0, <1>3 DEF Respawn, NoLaunch
  <2>2. /\ SlotsAgree' /\ ProcsAgree' /\ OneInFlight' /\ StaleAgree' /\ KillsAgree'
        /\ StaleAwaited'
    BY <1>0, <2>1, EndedKeeps
  <2>3. StatesAgree'
    BY <1>0, <1>1, <1>3, <2>1, EndedStates, CallersDiffer DEF MaySpawn
  <2> QED BY <2>2, <2>3 DEF IndInv
<1> QED BY <1>2, <1>3

\* apply() spawns what it put in place of the killed entry.
LEMMA ApplyGoesOnKeeps ==
  ASSUME TypeOK, IndInv, ApplyGoesOn
  PROVE  IndInv'
<1> DEFINE e == kills[ByApply].next
<1>0. /\ Ended(ByApply) /\ ByApply \in Callers /\ e \in Entries \cup {0}
      /\ UNCHANGED <<mode, current, launched, restartTimer, aborted, stale>>
      /\ (e # 0 /\ Respawn("apply", e)) \/ (e = 0 /\ NoLaunch)
  BY CallersDiffer, KillFields DEF ApplyGoesOn, Respawn, Ended, ByApply, TypeOK
<1>1. /\ kills[ByApply].start = 0 /\ kills[ByApply].entry # 0 /\ FreeSpawns # {}
      /\ kills'[ByApply] = NoKill /\ \A c \in Callers : c # ByApply => kills'[c] = kills[c]
  BY <1>0, EndedEffect DEF TypeOK
<1>2. e = current
  BY <1>1 DEF IndInv, KillsAgree
<1>3. CASE e # 0 /\ MaySpawn(e)
  <2> PICK d \in Entries : d = e
    BY <1>0, <1>3
  <2>1. mode = "serving" /\ current = d /\ d # 0 /\ d = kills[ByApply].next
    BY <1>2, <1>3 DEF MaySpawn
  <2>2. Launch(d, kind[d])
    BY <1>0, <1>3 DEF Respawn
  <2>3. /\ StateTells(d) /\ state[d] = "stopped" /\ kills[ByRestart].entry # d
        /\ \A s \in Spawns : ~Condemns(s, d)
    BY <2>1 DEF IndInv, StatesAgree, StateTells, WillSpawn
  <2>5. \A s \in Spawns : ~InFlight(s)
    BY <1>1, <2>1, <2>3, NoneInFlight
  <2>6. \A c \in Entries : launched[c] = 0
    BY <2>1, <2>3, Attached
  <2>7. d \notin restartTimer /\ \A c \in Entries : c # d => state[c] = "stopped"
    BY <2>1, <2>3 DEF IndInv, StatesAgree, StateTells
  <2>8. /\ kills'[ByRestart].entry # d /\ kills'[ByApply].next # d /\ kills'[ByApply].entry = 0
        /\ \A s \in Spawns : kills'[Health(s)].entry = d => kills'[Health(s)].stale
    BY <1>1, <2>1, <2>3, CallersDiffer, NoKillFields DEF Condemns
  <2>9. \A k \in Callers : kills'[k] = kills[k] \/ kills'[k] = NoKill
    BY <1>1
  <2>10. mode' = "serving" /\ current' = d /\ d \notin restartTimer' /\ UNCHANGED <<launched, stale, aborted>>
    BY <1>0, <2>1, <2>7
  <2> HIDE DEF e
  <2> QED BY <1>1, <2>2, <2>5, <2>6, <2>7, <2>8, <2>9, <2>10, LaunchKeeps
<1>4. CASE e = 0 \/ ~MaySpawn(e)
  <2>1. UNCHANGED <<state, starting, owner, at, proc>>
    BY <1>0, <1>4 DEF Respawn, NoLaunch
  <2>2. /\ SlotsAgree' /\ ProcsAgree' /\ OneInFlight' /\ StaleAgree' /\ KillsAgree'
        /\ StaleAwaited'
    BY <1>0, <2>1, EndedKeeps
  <2>3. mode # "serving" \/ current = 0
    BY <1>2, <1>4 DEF MaySpawn
  <2>4. StatesAgree'
    BY <1>0, <2>1, <2>3 DEF IndInv, StatesAgree
  <2> QED BY <2>2, <2>4 DEF IndInv
<1> QED BY <1>3, <1>4

\* The backoff of a connector that is down is over.
LEMMA RestartDueKeeps ==
  ASSUME TypeOK, IndInv, NEW e \in Entries, RestartDue(e)
  PROVE  IndInv'
<1>0. /\ e \in restartTimer /\ FreeSpawns # {} /\ restartTimer' = restartTimer \ {e}
      /\ IF MaySpawn(e) THEN Launch(e, kind[e]) ELSE NoLaunch
      /\ UNCHANGED <<mode, current, launched, aborted, stale, kills>>
  BY DEF RestartDue
<1>1. CASE MaySpawn(e)
  <2>1. mode = "serving" /\ current = e /\ e # 0 /\ Launch(e, kind[e])
    BY <1>0, <1>1, Slots DEF MaySpawn
  <2>2. state[e] = "down"
    BY <1>0, <2>1 DEF IndInv, StatesAgree, StateTells
  <2>3. /\ \A s \in Spawns : ~InFlight(s)
        /\ kills[ByRestart].entry # e /\ kills[ByApply].next # e
        /\ \A s \in Spawns : ~Condemns(s, e)
    BY <2>1, <2>2, Settled
  <2>4. \A d \in Entries : launched[d] = 0
    BY <2>1, <2>2, Attached
  <2>5. \A d \in Entries : d # e => state[d] = "stopped"
    BY <2>1 DEF IndInv, StatesAgree
  <2>6. kills[ByApply].entry = 0
    BY <2>1, <2>3 DEF IndInv, KillsAgree
  <2>7. \A s \in Spawns : kills[Health(s)].entry = e => kills[Health(s)].stale
    BY <2>3 DEF Condemns
  <2> QED BY <1>0, <2>1, <2>3, <2>4, <2>5, <2>6, <2>7, LaunchKeeps
<1>2. CASE ~MaySpawn(e)
  <2>1. UNCHANGED <<state, starting, owner, at, proc>>
    BY <1>0, <1>2 DEF NoLaunch
  <2>2. SlotsAgree' /\ ProcsAgree' /\ OneInFlight' /\ StaleAgree' /\ KillsAgree' /\ StaleAwaited'
    BY <1>0, <2>1 DEF IndInv, SlotsAgree, ProcsAgree, OneInFlight, StaleAgree, KillsAgree,
                      StaleAwaited, InFlight
  <2>3. mode = "serving" => current # e
    BY <1>2 DEF MaySpawn
  <2>4. StatesAgree'
    BY <1>0, <2>1, <2>3 DEF IndInv, StatesAgree, StateTells, WillSpawn, Condemns
  <2> QED BY <2>2, <2>4 DEF IndInv
<1> QED BY <1>1, <1>2

\* A reload adds a connector where there was none.
LEMMA AddKeeps ==
  ASSUME TypeOK, IndInv, NEW kd \in Kinds, Add(kd)
  PROVE  IndInv'
<1> PICK e \in FreeEntries : e = First(FreeEntries)
  BY Slots DEF Add
<1>0. /\ current = 0 /\ FreeSpawns # {} /\ current' = e /\ kills[ByApply] = NoKill
      /\ IF mode = "serving" THEN Launch(e, kd) ELSE NoLaunch
      /\ UNCHANGED <<mode, launched, restartTimer, aborted, stale, kills>>
  BY DEF Add, Busy, ByApply
<1>1. /\ e \in Entries /\ e # 0 /\ e \notin restartTimer
      /\ \A k \in Callers : kills[k].entry # e /\ kills[k].next # e
  BY Slots DEF FreeEntries, Killing
<1>2. \A d \in Entries : launched[d] = 0 /\ state[d] = "stopped"
  BY <1>0, Attached, Slots DEF IndInv, StatesAgree
<1>3. kills[ByApply].start = 0 /\ kills[ByApply].entry = 0
      /\ (kills[ByRestart].entry = 0 => kills[ByRestart].start = 0)
  BY <1>0, NoKillFields, Unused, CallersDiffer
<1>4. CASE mode = "serving"
  <2>1. \A s \in Spawns : ~InFlight(s)
    BY <1>0, <1>3, <1>4, NoneInFlight
  <2> QED BY <1>0, <1>1, <1>2, <1>3, <1>4, <2>1, LaunchKeeps, CallersDiffer
<1>5. CASE mode # "serving"
  <2>1. UNCHANGED <<state, starting, owner, at, proc>>
    BY <1>0, <1>5 DEF NoLaunch
  <2>2. SlotsAgree' /\ ProcsAgree' /\ OneInFlight' /\ StaleAgree'
    BY <1>0, <1>2, <1>5, <2>1 DEF IndInv, SlotsAgree, ProcsAgree, OneInFlight, StaleAgree, InFlight
  <2>3. KillsAgree' /\ StaleAwaited' /\ StatesAgree'
    BY <1>0, <1>2, <1>3, <1>5, <2>1 DEF IndInv, KillsAgree, StaleAwaited, StatesAgree
  <2> QED BY <2>2, <2>3 DEF IndInv
<1> QED BY <1>4, <1>5

\* start() spawns the configured connector.
LEMMA StartKeeps ==
  ASSUME TypeInv, IndInv, Start
  PROVE  IndInv'
<1>0. /\ mode = "new" /\ mode' = "serving" /\ TypeOK /\ FreeSpawns # {}
      /\ IF current = 0 THEN NoLaunch ELSE Launch(current, kind[current])
      /\ UNCHANGED <<current, launched, restartTimer, aborted, stale, kills>>
  BY NewSlot DEF Start, TypeInv
<1>1. /\ \A s \in Spawns : ~InFlight(s)
      /\ restartTimer = {} /\ \A k \in Callers : kills[k] = NoKill
  BY <1>0 DEF TypeInv, NewInv, InFlight
<1>2. /\ \A d \in Entries : launched[d] = 0 /\ (d # current => state[d] = "stopped")
      /\ stale = {}
  BY <1>0, <1>1, Attached, NoneStarting DEF IndInv, StatesAgree
<1>3. CASE current = 0
  <2>1. UNCHANGED <<state, starting, owner, at, proc>>
    BY <1>0, <1>3 DEF NoLaunch
  <2>2. SlotsAgree' /\ ProcsAgree' /\ OneInFlight' /\ StaleAgree'
    BY <1>0, <1>1, <1>2, <2>1
    DEF IndInv, SlotsAgree, ProcsAgree, OneInFlight, StaleAgree, InFlight
  <2>3. KillsAgree' /\ StaleAwaited' /\ StatesAgree'
    BY <1>0, <1>2, <1>3, <2>1 DEF IndInv, KillsAgree, StaleAwaited, StatesAgree
  <2> QED BY <2>2, <2>3 DEF IndInv
<1>4. CASE current # 0
  <2> PICK e \in Entries : e = current
    BY <1>0, <1>4 DEF TypeOK
  <2>1. Launch(e, kind[e]) /\ e # 0
    BY <1>0, <1>4
  <2>2. \A k \in Callers : kills'[k].entry = 0 /\ kills'[k].next = 0 /\ kills'[k] = kills[k]
    BY <1>0, <1>1, NoKillFields
  <2> QED BY <1>0, <1>1, <1>2, <2>1, <2>2, LaunchKeeps, CallersDiffer
<1> QED BY <1>3, <1>4

\* A kill by another caller leaves what stop() kills.
LEMMA StopUntouched ==
  ASSUME TypeOK, NEW k \in Callers, k # ByStop, NEW e \in Entries, NEW n \in Entries \cup {0},
         BeginKill(k, e, n)
  PROVE  kills'[ByStop].entry = kills[ByStop].entry
<1>1. KillBegun(k, e, n) /\ ByStop \in Callers \ {k}
  BY BeginKillEffect, CallersDiffer
<1> QED BY <1>1 DEF KillBegun

\* What stop() kills is gone with it, and nothing else kills in its name.
LEMMA StopStep == TypeInv /\ StopInv /\ [Next]_vars => StopInv'
<1> SUFFICES ASSUME TypeInv, StopInv, [Next]_vars, kills'[ByStop].entry # 0, mode' = "serving"
             PROVE  FALSE
  BY DEF StopInv
<1>a. TypeOK
  BY DEF TypeInv
<1>b. \A k \in Callers :
        [kills[k] EXCEPT !.start = 0].entry = kills[k].entry
        /\ [kills[k] EXCEPT !.stops = 0].entry = kills[k].entry
  BY <1>a, KillFields DEF TypeOK
<1>c. mode = "new" => kills[ByStop].entry = 0
  BY CallersDiffer, NoKillFields DEF TypeInv, NewInv
<1>1. CASE Stop
  BY <1>1 DEF Stop
<1>2. CASE kills'[ByStop].entry = kills[ByStop].entry
  <2>1. mode # "serving"
    BY <1>2 DEF StopInv
  <2>2. mode' = mode \/ mode = "new" \/ mode' = "stopped"
    BY DEF Next, Requests, Start, Restart, Stop, Remove, Add, Change, GoesOn, KillGoesOn,
           RestartGoesOn, ApplyGoesOn, StopGoesOn, HealthGoesOn, Respawn, Failure, OpenFails,
           Condemn, GiveUp, Exit, RestartDue, Open, Settles, Attach, LaunchFails, Discard,
           Discarded, HealthDue, Checked, vars
  <2> QED BY <1>2, <1>c, <2>1, <2>2
<1>3. CASE UNCHANGED kills
  BY <1>2, <1>3
<1>4. ASSUME NEW e \in Entries, NEW k \in Callers, k # ByStop, NEW n \in Entries \cup {0},
             BeginKill(k, e, n)
      PROVE  FALSE
  BY <1>2, <1>4, <1>a, StopUntouched
<1>5. ASSUME NEW k \in Callers, Ended(k) PROVE FALSE
  <2>1. kills'[ByStop] = kills[ByStop] \/ kills'[ByStop] = NoKill
    BY <1>5, <1>a, EndedEffect, CallersDiffer DEF TypeOK
  <2> QED BY <1>2, <2>1, NoKillFields
<1>6. ASSUME NEW k \in Callers, KillGoesOn(k) PROVE FALSE
  BY <1>2, <1>6, <1>a, <1>b, CallersDiffer DEF KillGoesOn, TypeOK
<1>7. ASSUME NEW s \in Spawns, Exit(s) PROVE FALSE
  BY <1>2, <1>7, <1>a, <1>b, CallersDiffer DEF Exit
<1>8. CASE Restart
  BY <1>4, <1>8, <1>a, CallersDiffer DEF Restart, ByRestart, TypeOK
<1>9. CASE Remove
  BY <1>4, <1>9, <1>a, CallersDiffer DEF Remove, ByApply, TypeOK
<1>10. ASSUME NEW kd \in Kinds, Change(kd) PROVE FALSE
  <2>1. PICK n \in Entries : n = First(FreeEntries)
    BY <1>10, Slots DEF Change
  <2> QED BY <1>4, <1>10, <1>a, <2>1, CallersDiffer DEF Change, ByApply, TypeOK
<1>11. ASSUME NEW s \in Spawns, Condemn(s) PROVE FALSE
  BY <1>4, <1>11, <1>a, CallersDiffer DEF Condemn, TypeOK
<1>12. ASSUME NEW s \in Spawns,
              OpenFails(s) \/ GiveUp(s) \/ Open(s) \/ Settles(s) \/ HealthDue(s) \/ Checked(s)
       PROVE  FALSE
  BY <1>3, <1>12 DEF OpenFails, GiveUp, Open, Settles, Attach, LaunchFails, Discard, Discarded,
                     HealthDue, Checked
<1>13. CASE GoesOn
  BY <1>5, <1>6, <1>13, CallersDiffer
  DEF GoesOn, RestartGoesOn, ApplyGoesOn, StopGoesOn, HealthGoesOn, ByRestart, ByApply, ByStop
<1>14. CASE Requests
  <2>1. ASSUME NEW kd \in Kinds, Add(kd) PROVE FALSE
    BY <1>3, <2>1 DEF Add
  <2>2. CASE Start
    BY <1>3, <2>2 DEF Start
  <2> QED BY <1>1, <1>8, <1>9, <1>10, <1>14, <2>1, <2>2 DEF Requests
<1>15. CASE Failure
  BY <1>7, <1>11, <1>12, <1>15 DEF Failure
<1>16. ASSUME NEW e \in Entries, RestartDue(e) PROVE FALSE
  BY <1>3, <1>16 DEF RestartDue
<1>17. CASE UNCHANGED vars
  BY <1>3, <1>17 DEF vars
<1> QED BY <1>7, <1>12, <1>13, <1>14, <1>15, <1>16, <1>17 DEF Next

-----------------------------------------------------------------------------
(***************************************************************************)
(* 5. The properties.                                                      *)
(***************************************************************************)

LEMMA InvInit == Init => StopInv /\ IndInv
<1> SUFFICES ASSUME Init PROVE StopInv /\ IndInv
  OBVIOUS
<1>1. \A k \in Callers : kills[k] = NoKill
  BY DEF Init
<1>2. StopInv /\ KillsAgree
  BY <1>1, CallersDiffer, NoKillFields DEF StopInv, KillsAgree
<1>3. SlotsAgree /\ ProcsAgree /\ OneInFlight /\ StaleAgree
  BY DEF Init, SlotsAgree, ProcsAgree, OneInFlight, StaleAgree, InFlight
<1>4. StaleAwaited /\ StatesAgree
  BY DEF Init, StaleAwaited, StatesAgree
<1> QED BY <1>2, <1>3, <1>4 DEF IndInv

LEMMA IndStep ==
  ASSUME RestartWhileReplacing = FALSE, TypeInv, StopInv, IndInv, [Next]_vars
  PROVE  IndInv'
<1>a. TypeOK
  BY DEF TypeInv
<1>1. CASE Requests
  <2>1. CASE Start
    BY <2>1, StartKeeps
  <2>2. CASE Restart
    <3>1. RestartWhileReplacing = FALSE
      OBVIOUS
    <3> QED BY <1>a, <2>2, <3>1, RestartKeeps
  <2>3. CASE Stop
    BY <1>a, <2>3, StopKeeps
  <2>4. CASE Remove
    <3>1. PICK e \in Entries : e = current
      BY <1>a, <2>4 DEF Remove, TypeOK
    <3>2. PICK n \in Entries \cup {0} : n = 0
      OBVIOUS
    <3> QED BY <1>a, <2>4, <3>1, <3>2, ReplaceKeeps DEF Remove, ByApply
  <2>5. ASSUME NEW kd \in Kinds, Change(kd) PROVE IndInv'
    <3>1. PICK e \in Entries : e = current
      BY <1>a, <2>5 DEF Change, TypeOK
    <3>2. PICK n \in FreeEntries : n = First(FreeEntries)
      BY <2>5, Slots DEF Change
    <3>3. n \in Entries \cup {0}
      BY <3>2, Slots
    <3>4. /\ ~Busy("apply") /\ BeginKill(ByApply, e, n) /\ current' = n
          /\ UNCHANGED <<mode, starting, owner, at>>
      BY <2>5, <3>1, <3>2 DEF Change, ByApply
    <3> QED BY <1>a, <3>1, <3>2, <3>3, <3>4, ReplaceKeeps
  <2>6. ASSUME NEW kd \in Kinds, Add(kd) PROVE IndInv'
    BY <1>a, <2>6, AddKeeps
  <2> QED BY <1>1, <2>1, <2>2, <2>3, <2>4, <2>5, <2>6 DEF Requests
<1>2. CASE GoesOn
  BY <1>2, <1>a, KillGoesOnKeeps, RestartGoesOnKeeps, ApplyGoesOnKeeps, StopGoesOnKeeps,
     HealthGoesOnKeeps DEF GoesOn
<1>3. ASSUME NEW s \in Spawns, Open(s) PROVE IndInv'
  <2>1. CASE Wanted(s)
    <3>1. \/ Settle(s)
          \/ at[s] = "opening" /\ at' = [at EXCEPT ![s] = "launching"]
               /\ proc' = [proc EXCEPT ![s] = "live"] /\ UNCHANGED <<starting, aborted, stale>>
      BY <1>3 DEF Open
    <3> QED BY <1>3, <1>a, <2>1, LaunchGoesOn DEF Open
  <2>2. CASE ~Wanted(s)
    BY <1>3, <1>a, <2>2, SettleKeeps DEF Open, InFlight, IndInv, ProcsAgree
  <2> QED BY <2>1, <2>2
<1>4. ASSUME NEW s \in Spawns, OpenFails(s) \/ LaunchFails(s) PROVE IndInv'
  <2>1. InFlight(s) /\ proc[s] # "live" /\ SettleFailed(s)
        /\ UNCHANGED <<mode, current, launched, owner, proc, kills>>
    BY <1>4 DEF OpenFails, LaunchFails, InFlight, IndInv, ProcsAgree
  <2> QED BY <1>a, <2>1, SettleKeeps DEF SettleFailed
<1>5. ASSUME NEW s \in Spawns, GiveUp(s) \/ Discard(s) PROVE IndInv'
  BY <1>5, <1>a, LaunchGoesOn DEF GiveUp, Discard, entryVars
<1>6. ASSUME NEW s \in Spawns, Discarded(s) PROVE IndInv'
  <2>1. InFlight(s) /\ proc[s] # "live" /\ ~Wanted(s)
    BY <1>6 DEF Discarded, InFlight, Wanted, IndInv, StaleAgree
  <2> QED BY <1>6, <1>a, <2>1, SettleKeeps DEF Discarded
<1>7. ASSUME NEW s \in Spawns, Attach(s) \/ Exit(s) \/ Condemn(s) PROVE IndInv'
  BY <1>7, <1>a, AttachKeeps, ExitKeeps, CondemnKeeps
<1>8. ASSUME NEW s \in Spawns, HealthDue(s) \/ Checked(s) PROVE IndInv'
  BY <1>8, SameInv DEF HealthDue, Checked
<1>9. ASSUME NEW e \in Entries, RestartDue(e) PROVE IndInv'
  BY <1>9, <1>a, RestartDueKeeps
<1>10. CASE UNCHANGED vars
  BY <1>10, SameInv DEF vars, entryVars, spawnVars
<1> QED
  BY <1>1, <1>2, <1>3, <1>4, <1>5, <1>6, <1>7, <1>8, <1>9, <1>10 DEF Next, Failure, Settles

\* Every variable keeps its type, whenever a restart may come: the slots a launch and a
\* reload take are free when they take them, and every kill names a caller's entry.
THEOREM SupervisorTypeOK == Spec => []TypeOK
<1>1. TypeInv => TypeOK
  BY DEF TypeInv
<1> QED BY <1>1, TypeInit, TypeStep, PTL DEF Spec

\* The inductive invariant of one connector's life.  It does not hold of a supervisor a
\* restart can reach while a reload kills the replaced entry: the code then overwrites a
\* spawn in flight.
THEOREM SupervisorInvariant ==
  ASSUME RestartWhileReplacing = FALSE
  PROVE  Spec => [](TypeInv /\ StopInv /\ IndInv)
<1>1. Init => TypeInv /\ StopInv /\ IndInv
  BY TypeInit, InvInit
<1>2. ASSUME TypeInv, StopInv, IndInv, [Next]_vars
      PROVE  TypeInv' /\ StopInv' /\ IndInv'
  <2>1. RestartWhileReplacing = FALSE
    OBVIOUS
  <2> QED BY <1>2, <2>1, TypeStep, StopStep, IndStep
<1>3. TypeInv /\ StopInv /\ IndInv /\ [Next]_vars => (TypeInv /\ StopInv /\ IndInv)'
  BY <1>2
<1> QED BY <1>1, <1>3, PTL DEF Spec

LEMMA NoneForgottenFollows == TypeOK /\ IndInv => NoneForgotten
<1> SUFFICES ASSUME TypeOK, IndInv, NEW s \in Spawns, proc[s] = "live", ~InFlight(s)
             PROVE  current = owner[s] /\ launched[owner[s]] = s
  BY DEF NoneForgotten
<1>1. launched[owner[s]] = s
  BY DEF IndInv, ProcsAgree, InFlight, TypeOK
<1> QED BY <1>1, Attached, Slots DEF TypeOK

\* A process at work is the attached one, or the one being launched for the supervised entry.
LEMMA WorkIsWanted ==
  ASSUME TypeOK, IndInv, NEW s \in AtWork
  PROVE  /\ mode = "serving" /\ owner[s] = current /\ s \in Spawns
         /\ InFlight(s) \/ (launched[current] = s /\ \A t \in Spawns : ~InFlight(t))
<1>1. s \in Spawns /\ proc[s] = "live" /\ s \notin stale /\ owner[s] \in Entries
  BY DEF AtWork, TypeOK
<1>2. CASE InFlight(s)
  BY <1>1, <1>2 DEF IndInv, StaleAgree
<1>3. CASE ~InFlight(s)
  <2>1. launched[owner[s]] = s /\ s # 0
    BY <1>1, <1>3, Slots DEF IndInv, ProcsAgree, InFlight
  <2> QED BY <1>1, <2>1, Attached
<1> QED BY <1>2, <1>3

LEMMA OneAtATimeFollows == TypeOK /\ IndInv => OneAtATime
<1> SUFFICES ASSUME TypeOK, IndInv PROVE OneAtATime
  OBVIOUS
<1> DEFINE F == {s \in Spawns : InFlight(s)}
<1>1. \A s, t \in F : s = t
  BY DEF IndInv, OneInFlight
<1>2. Cardinality(F) <= 1
  <2> HIDE DEF F
  <2> QED BY <1>1, AtMostOne
<1>3. \A s, t \in AtWork : s = t
  BY WorkIsWanted DEF IndInv, OneInFlight
<1>4. Cardinality(AtWork) <= 1
  BY <1>3, AtMostOne
<1>5. mode # "serving" => AtWork = {}
  BY WorkIsWanted
<1>6. Cardinality({}) = 0
  BY FS_EmptySet
<1> QED BY <1>2, <1>4, <1>5, <1>6 DEF OneAtATime

LEMMA NeverStrandedFollows == IndInv => NeverStranded
<1> SUFFICES ASSUME IndInv, mode = "serving", current # 0
             PROVE  LET e == current IN
                      /\ state[e] = "up" <=> launched[e] # 0
                      /\ state[e] = "starting" => starting[e] # 0 /\ starting[e] \notin stale
                      /\ state[e] = "down" => e \in restartTimer
                      /\ state[e] = "stopped" =>
                           \/ kills[By("restart")].entry = e
                           \/ kills[By("apply")].next = e
                           \/ \E s \in Spawns : kills[Health(s)].entry = e /\ ~kills[Health(s)].stale
  BY DEF NeverStranded
<1> QED BY DEF IndInv, StatesAgree, StateTells, WillSpawn, Condemns, ByRestart, ByApply

\* Whatever restart, reload, crash and health check run into each other, no process is
\* overwritten and left running: one nobody has told to go is attached, being launched, or
\* held by a kill that will stop it.
THEOREM NothingIsForgotten ==
  ASSUME RestartWhileReplacing = FALSE
  PROVE  Spec => []NoneForgotten
<1>1. TypeInv /\ StopInv /\ IndInv => NoneForgotten
  BY NoneForgottenFollows DEF TypeInv
<1>2. Spec => [](TypeInv /\ StopInv /\ IndInv)
  BY SupervisorInvariant
<1> QED BY <1>1, <1>2, PTL

\* A connector never has two processes at work nor two spawns in flight, and none is at work
\* once a stop has begun.
THEOREM OneIsAtWork ==
  ASSUME RestartWhileReplacing = FALSE
  PROVE  Spec => []OneAtATime
<1>1. TypeInv /\ StopInv /\ IndInv => OneAtATime
  BY OneAtATimeFollows DEF TypeInv
<1>2. Spec => [](TypeInv /\ StopInv /\ IndInv)
  BY SupervisorInvariant
<1> QED BY <1>1, <1>2, PTL

\* A supervised connector that is not up has someone or something that brings it up again: a
\* spawn in flight that still counts, a restart pending, or whoever is killing it.
THEOREM NoneIsStranded ==
  ASSUME RestartWhileReplacing = FALSE
  PROVE  Spec => []NeverStranded
<1>1. TypeInv /\ StopInv /\ IndInv => NeverStranded
  BY NeverStrandedFollows
<1>2. Spec => [](TypeInv /\ StopInv /\ IndInv)
  BY SupervisorInvariant
<1> QED BY <1>1, <1>2, PTL
=============================================================================
