----------------------------- MODULE LlmProofs -----------------------------
(***************************************************************************)
(* Theorems about Llm, for every number of runs, batches and days and for  *)
(* every price and cap.  They are layered:                                 *)
(*                                                                         *)
(*   1. sums over finite sets: what Total() adds up, whatever the order;   *)
(*   2. TypeInv, which says besides what a run holds and when a batch has  *)
(*      its row;                                                           *)
(*   3. the ledger: what a step adds to its sums, and that no day reaches  *)
(*      the cap without its event;                                         *)
(*   4. what is held and reserved, and the daily cap;                      *)
(*   5. WaitInv: of the batches of a run only the last may have a row or   *)
(*      may yet succeed, and the run waits for it;                         *)
(*   6. the properties of Llm that follow, and the refinement of           *)
(*      BatchContract.                                                     *)
(*                                                                         *)
(* MapThenFoldSet only chooses its iteration, so that a sum is first shown *)
(* to have one.  Facts about sums are proved on a smallest counterexample: *)
(* among the subsets for which one fails, one has the fewest elements.     *)
(***************************************************************************)
EXTENDS Llm, FiniteSetTheorems, WellFoundedInduction, TLAPS

\* The outcomes after which a run may submit again.
Failed == Outcomes \ {"succeeded"}

BatchRow ==
  [run : Runs \cup {0}, at : 0 .. MaxTime, state : {"none", "running"} \cup Outcomes,
   row : BOOLEAN, told : BOOLEAN, paid : {0, 1}, parked : BOOLEAN]
WaitRow ==
  [batch : Ids \cup {0}, attempt : Nat, until : Nat, outcome : {"none", "matched", "timeout"}]

Statuses == {"queued", "resumed", "busy", "parked", "done", "failed"}

\* What a run holds is what its kind of call costs at worst, and an attempt in flight counts.
RunAgrees(r) ==
  /\ attempt[r] <= MaxAttempts[r]
  /\ status[r] = "busy" <=> began[r] # -1
  /\ held[r] # 0 <=> began[r] # -1
  /\ held[r] # 0 => held[r] = IF r \in CallRuns THEN Worst ELSE BatchWorst
  /\ status[r] \in {"busy", "parked", "resumed"} => attempt[r] # 0
  /\ status[r] \in {"parked", "resumed"} => r \in BatchRuns

\* A batch has its row until it is settled or given up.
BatchAgrees(b) ==
  /\ batch[b].state = "none" => batch[b] = NoBatch
  /\ batch[b].state # "none" => batch[b].run \in BatchRuns
  /\ batch[b].row => batch[b].state # "none" /\ ~batch[b].told /\ batch[b].paid = 0
  /\ batch[b].told => batch[b].state \in Outcomes

LedgerTypes ==
  /\ now \in 0 .. MaxTime
  /\ spent \in [Runs \X Days -> Nat] /\ tripped \subseteq Days

RunTypes ==
  /\ status \in [Runs -> Statuses] /\ attempt \in [Runs -> Nat] /\ wait \in [Runs -> WaitRow]
  /\ began \in [Runs -> Days \cup {-1}] /\ held \in [Runs -> {0, Worst, BatchWorst}]
  /\ \A r \in Runs : RunAgrees(r)

BatchTypes ==
  /\ batch \in [Ids -> BatchRow] /\ pass \subseteq Rows
  /\ \A b \in Ids : BatchAgrees(b)

TypeInv == LedgerTypes /\ RunTypes /\ BatchTypes

\* Providers number what they accept.
NumbersAgree == \A b \in Accepted : b <= Cardinality(Accepted)

\* What is spent.
SpendInv == CapOvershootsByOneCall /\ NoSilentOverspend

\* A run waits for the last batch it was parked with.
WaitAgrees(r) ==
  /\ wait[r].outcome = "none" /\ wait[r].batch # 0 => status[r] = "parked"
  /\ status[r] = "parked" => wait[r].batch # 0 /\ wait[r].outcome = "none"
  /\ wait[r].outcome = "matched" => wait[r].batch # 0 /\ batch[wait[r].batch].told

SameRun(b, c) == batch[b].run = batch[c].run

\* A batch with a row, and one a run was parked with that has not failed, is the last of its
\* run; the run submits no other, and waits for the latter.
LastOfRun(b) == /\ \A c \in Accepted : SameRun(b, c) => c <= b
                /\ status[batch[b].run] # "busy"
Awaited(b) == batch[b].parked /\ batch[b].state \notin Failed

BatchesAgree ==
  \A b \in Accepted :
    /\ batch[b].row \/ Awaited(b) => LastOfRun(b)
    /\ Awaited(b) => wait[batch[b].run].batch = b

WaitInv == (\A r \in BatchRuns : WaitAgrees(r)) /\ BatchesAgree

LlmInv == TypeInv /\ NumbersAgree /\ SpendInv /\ WaitInv

-----------------------------------------------------------------------------
(***************************************************************************)
(* Sums over finite sets                                                   *)
(***************************************************************************)

\* What MapThenFoldSet iterates: the sums over the subsets of a set, one element at a time.
Pick(T) == CHOOSE x \in T : TRUE
Sums(f, g, S) ==
  g = [T \in SUBSET S |-> IF T = {} THEN 0 ELSE Plus(f[Pick(T)], g[T \ {Pick(T)}])]

\* Of some finite sets one is the smallest.
LEMMA SmallestSet ==
  ASSUME NEW A, A # {}, \A T \in A : IsFiniteSet(T)
  PROVE  \E S \in A : \A T \in A : Cardinality(S) <= Cardinality(T)
<1> DEFINE N == {Cardinality(T) : T \in A}
<1> DEFINE R == OpToRel(<, Nat)
<1>1. IsWellFoundedOn(R, Nat)
  BY NatLessThanWellFounded
<1>2. N \subseteq Nat /\ N # {}
  BY FS_CardinalityType
<1>3. \A m, n \in Nat : <<n, m>> \in R <=> n < m
  BY DEF OpToRel
<1> HIDE DEF R, N
<1>4. PICK m \in N : \A n \in N : ~(<<n, m>> \in R)
  BY <1>1, <1>2, WFMin
<1>5. \A n \in N : ~(n < m) /\ m \in Nat /\ n \in Nat
  BY <1>2, <1>3, <1>4
<1>6. \A n \in N : m <= n
  BY <1>5
<1> QED BY <1>6 DEF N

LEMMA PickIn == ASSUME NEW T, T # {} PROVE Pick(T) \in T
  BY DEF Pick

\* One element less is one less.
LEMMA Smaller ==
  ASSUME NEW T, IsFiniteSet(T), NEW x \in T
  PROVE  /\ IsFiniteSet(T \ {x}) /\ Cardinality(T \ {x}) \in Nat /\ Cardinality(T) \in Nat
         /\ Cardinality(T) = Cardinality(T \ {x}) + 1
<1>1. IsFiniteSet(T \ {x}) /\ Cardinality(T \ {x}) = Cardinality(T) - 1
  BY FS_RemoveElement
<1> QED BY <1>1, FS_CardinalityType

LEMMA NotSmaller ==
  ASSUME NEW T, IsFiniteSet(T), NEW x \in T
  PROVE  ~(Cardinality(T) <= Cardinality(T \ {x}))
<1>1. \A m, n \in Nat : m = n + 1 => ~(m <= n)
  OBVIOUS
<1> QED BY <1>1, Smaller

\* The iteration has a result, although MapThenFoldSet only chooses one.
LEMMA SumsExist ==
  ASSUME NEW f, NEW S, IsFiniteSet(S)
  PROVE  \E g : Sums(f, g, S)
<1> DEFINE Next1(g, T) == IF T = {} THEN 0 ELSE Plus(f[Pick(T)], g[T \ {Pick(T)}])
           Upto(n) == \E g : \A T \in SUBSET S : Cardinality(T) <= n => g[T] = Next1(g, T)
<1>f. \A T \in SUBSET S : IsFiniteSet(T) /\ Cardinality(T) \in Nat
  BY FS_Subset, FS_CardinalityType
<1>0. Upto(0)
  <2> DEFINE g == [T \in SUBSET S |-> 0]
  <2>1. \A T \in SUBSET S : Cardinality(T) <= 0 => g[T] = Next1(g, T)
    BY <1>f, FS_EmptySet
  <2> QED BY <2>1
<1>1. ASSUME NEW n \in Nat, Upto(n) PROVE Upto(n + 1)
  <2>1. PICK g : \A T \in SUBSET S : Cardinality(T) <= n => g[T] = Next1(g, T)
    BY <1>1
  <2> DEFINE h == [T \in SUBSET S |-> Next1(g, T)]
  <2>2. ASSUME NEW T \in SUBSET S, Cardinality(T) <= n + 1 PROVE h[T] = Next1(h, T)
    <3>1. CASE T = {}
      BY <3>1
    <3>2. CASE T # {}
      <4> DEFINE U == T \ {Pick(T)}
      <4>1. U \in SUBSET S /\ Cardinality(U) <= n
        BY <1>f, <2>2, <3>2, PickIn, Smaller
      <4>2. h[U] = Next1(g, U) /\ g[U] = Next1(g, U)
        BY <4>1, <2>1
      <4>3. h[U] = g[U]
        BY <4>2
      <4> HIDE DEF U
      <4>4. h[T] = Plus(f[Pick(T)], g[U])
        BY <3>2 DEF U
      <4>5. Next1(h, T) = Plus(f[Pick(T)], h[U])
        BY <3>2 DEF U
      <4> QED BY <4>3, <4>4, <4>5
    <3> QED BY <3>1, <3>2
  <2> QED BY <2>2
<1>2. Upto(Cardinality(S))
  <2> DEFINE R == OpToRel(<, Nat)
             B == {n \in Nat : ~Upto(n)}
  <2>1. IsWellFoundedOn(R, Nat)
    BY NatLessThanWellFounded
  <2>2. \A m, n \in Nat : <<n, m>> \in R <=> n < m
    BY DEF OpToRel
  <2> SUFFICES ASSUME B # {} PROVE FALSE
    BY <1>f
  <2> HIDE DEF R, Upto
  <2>3. PICK m \in B : \A n \in B : ~(<<n, m>> \in R)
    BY <2>1, WFMin
  <2>4. m \in Nat /\ ~Upto(m) /\ \A n \in Nat : n < m => Upto(n)
    BY <2>2, <2>3
  <2>5. CASE m = 0
    BY <2>4, <2>5, <1>0
  <2>6. CASE m # 0
    <3> DEFINE k == m - 1
    <3>1. k \in Nat /\ k < m /\ k + 1 = m
      BY <2>4, <2>6
    <3> HIDE DEF k
    <3> QED BY <3>1, <2>4, <1>1
  <2> QED BY <2>5, <2>6
<1>3. PICK g : \A T \in SUBSET S : Cardinality(T) <= Cardinality(S) => g[T] = Next1(g, T)
  BY <1>2
<1>4. \A T \in SUBSET S : g[T] = Next1(g, T)
  BY <1>3, FS_Subset
<1> DEFINE h == [T \in SUBSET S |-> g[T]]
<1>5. ASSUME NEW T \in SUBSET S PROVE h[T] = Next1(h, T)
  <2>1. CASE T = {}
    BY <1>4, <2>1
  <2>2. CASE T # {}
    <3>1. T \ {Pick(T)} \in SUBSET S
      OBVIOUS
    <3> QED BY <3>1, <1>4, <2>2
  <2> QED BY <2>1, <2>2
<1>6. h = [T \in SUBSET S |-> Next1(h, T)]
  BY <1>5
<1> QED BY <1>6 DEF Sums

LEMMA TotalIsSum ==
  ASSUME NEW f, NEW S, IsFiniteSet(S)
  PROVE  \E g : Sums(f, g, S) /\ Total(f, S) = g[S]
<1> DEFINE g == CHOOSE g : Sums(f, g, S)
<1>1. Sums(f, g, S)
  BY SumsExist
<1>2. Total(f, S) = g[S]
  BY DEF Total, FoldFunctionOnSet, MapThenFoldSet, Sums, Pick
<1> QED BY <1>1, <1>2

\* It has one: on a set that two iterations share they agree.
LEMMA SumsAgree ==
  ASSUME NEW f, NEW S, NEW U, NEW g, NEW h, IsFiniteSet(S), U \subseteq S,
         Sums(f, g, S), Sums(f, h, U)
  PROVE  g[U] = h[U]
<1> DEFINE A == {T \in SUBSET U : g[T] # h[T]}
<1> SUFFICES ASSUME A # {} PROVE FALSE
  OBVIOUS
<1>1. \A T \in SUBSET S : IsFiniteSet(T)
  BY FS_Subset
<1>2. PICK T \in A : \A V \in A : Cardinality(T) <= Cardinality(V)
  BY <1>1, SmallestSet
<1>3. CASE T = {}
  BY <1>3 DEF Sums
<1>4. CASE T # {}
  <2> DEFINE V == T \ {Pick(T)}
  <2>1. V \in SUBSET U /\ V \notin A
    <3>1. IsFiniteSet(T) /\ Pick(T) \in T
      BY <1>1, <1>4, PickIn
    <3>2. ~(Cardinality(T) <= Cardinality(V))
      BY <3>1, Smaller
    <3> QED BY <3>2, <1>2
  <2>2. g[V] = h[V]
    BY <2>1
  <2>3. g[T] = Plus(f[Pick(T)], g[V]) /\ h[T] = Plus(f[Pick(T)], h[V])
    BY <1>4 DEF Sums
  <2> QED BY <2>2, <2>3
<1> QED BY <1>3, <1>4

LEMMA SumIsTotal ==
  ASSUME NEW f, NEW S, NEW g, IsFiniteSet(S), Sums(f, g, S), NEW T \in SUBSET S
  PROVE  g[T] = Total(f, T)
BY FS_Subset, TotalIsSum, SumsAgree

LEMMA TotalEmpty == ASSUME NEW f PROVE Total(f, {}) = 0
<1>1. PICK g : Sums(f, g, {}) /\ Total(f, {}) = g[{}]
  BY TotalIsSum, FS_EmptySet
<1> QED BY <1>1 DEF Sums

\* A sum is that of some element and the rest.
LEMMA TotalPick ==
  ASSUME NEW f, NEW S, IsFiniteSet(S), S # {}
  PROVE  Total(f, S) = f[Pick(S)] + Total(f, S \ {Pick(S)})
<1>1. PICK g : Sums(f, g, S)
  BY SumsExist
<1>2. Total(f, S) = g[S] /\ Total(f, S \ {Pick(S)}) = g[S \ {Pick(S)}]
  BY <1>1, SumIsTotal
<1>3. g[S] = Plus(f[Pick(S)], g[S \ {Pick(S)}])
  BY <1>1 DEF Sums
<1> QED BY <1>2, <1>3 DEF Plus

LEMMA TotalNat ==
  ASSUME NEW f, NEW S, IsFiniteSet(S), \A x \in S : f[x] \in Nat
  PROVE  Total(f, S) \in Nat
<1> DEFINE A == {T \in SUBSET S : Total(f, T) \notin Nat}
<1> SUFFICES ASSUME A # {} PROVE FALSE
  OBVIOUS
<1>1. \A T \in SUBSET S : IsFiniteSet(T)
  BY FS_Subset
<1>2. PICK T \in A : \A V \in A : Cardinality(T) <= Cardinality(V)
  BY <1>1, SmallestSet
<1>3. T # {}
  BY TotalEmpty
<1>4. IsFiniteSet(T) /\ Pick(T) \in T
  BY <1>1, <1>3, PickIn
<1>5. T \ {Pick(T)} \notin A
  BY <1>2, <1>4, NotSmaller
<1>6. Total(f, T \ {Pick(T)}) \in Nat /\ f[Pick(T)] \in Nat
  BY <1>4, <1>5
<1> QED BY <1>2, <1>3, <1>4, <1>6, TotalPick

\* Any element may be taken first.
LEMMA TotalTake ==
  ASSUME NEW f, NEW S, IsFiniteSet(S), \A x \in S : f[x] \in Nat, NEW x \in S
  PROVE  Total(f, S) = f[x] + Total(f, S \ {x})
<1> DEFINE Bad(T) == \E y \in T : Total(f, T) # f[y] + Total(f, T \ {y})
           A == {T \in SUBSET S : Bad(T)}
<1> SUFFICES ASSUME A # {} PROVE FALSE
  OBVIOUS
<1>1. \A T \in SUBSET S : IsFiniteSet(T)
  BY FS_Subset
<1>2. PICK T \in A : \A V \in A : Cardinality(T) <= Cardinality(V)
  BY <1>1, SmallestSet
<1>3. PICK y \in T : Total(f, T) # f[y] + Total(f, T \ {y})
  BY <1>2
<1> DEFINE p == Pick(T)
<1>4. p \in T /\ IsFiniteSet(T)
  BY <1>1, <1>3, PickIn
<1>5. \A z \in T : T \ {z} \in SUBSET S /\ ~Bad(T \ {z})
  <2> TAKE z \in T
  <2>1. ~(Cardinality(T) <= Cardinality(T \ {z}))
    BY <1>4, NotSmaller
  <2> QED BY <2>1, <1>2
<1>6. Total(f, T) = f[p] + Total(f, T \ {p})
  BY <1>4, TotalPick
<1> HIDE DEF p
<1>7. y # p
  BY <1>3, <1>6
<1> DEFINE c == Total(f, (T \ {p}) \ {y})
<1>8. Total(f, T \ {p}) = f[y] + c /\ Total(f, T \ {y}) = f[p] + c
  <2>1. (T \ {p}) \ {y} = (T \ {y}) \ {p}
    OBVIOUS
  <2> QED BY <1>3, <1>4, <1>5, <1>7, <2>1
<1>9. f[y] \in Nat /\ f[p] \in Nat /\ c \in Nat
  BY <1>3, <1>4, FS_Subset, TotalNat
<1> HIDE DEF c
<1>10. f[p] + (f[y] + c) = f[y] + (f[p] + c)
  BY <1>9
<1> QED BY <1>3, <1>6, <1>8, <1>10

\* The sum over more elements is no smaller.
LEMMA TotalGrows ==
  ASSUME NEW f, NEW S, IsFiniteSet(S), \A x \in S : f[x] \in Nat, NEW T \in SUBSET S
  PROVE  Total(f, T) <= Total(f, S)
<1> DEFINE A == {V \in SUBSET S : T \subseteq V /\ ~(Total(f, T) <= Total(f, V))}
<1> SUFFICES ASSUME A # {} PROVE FALSE
  OBVIOUS
<1>1. \A V \in SUBSET S : IsFiniteSet(V) /\ Total(f, V) \in Nat
  BY FS_Subset, TotalNat
<1>2. PICK V \in A : \A W \in A : Cardinality(V) <= Cardinality(W)
  BY <1>1, SmallestSet
<1>3. PICK x \in V : x \notin T
  BY <1>1, <1>2
<1>4. IsFiniteSet(V) /\ ~(Cardinality(V) <= Cardinality(V \ {x}))
  BY <1>1, <1>2, <1>3, NotSmaller
<1>5. V \ {x} \in SUBSET S /\ T \subseteq V \ {x} /\ V \ {x} \notin A
  BY <1>2, <1>3, <1>4
<1>6. Total(f, T) <= Total(f, V \ {x})
  BY <1>5
<1>7. Total(f, V) = f[x] + Total(f, V \ {x})
  BY <1>2, <1>3, <1>4, TotalTake
<1>8. f[x] \in Nat /\ Total(f, V \ {x}) \in Nat /\ Total(f, T) \in Nat
  BY <1>1, <1>3, <1>5
<1> QED BY <1>2, <1>6, <1>7, <1>8

LEMMA TotalSame ==
  ASSUME NEW f, NEW g, NEW S, IsFiniteSet(S), \A x \in S : f[x] = g[x]
  PROVE  Total(f, S) = Total(g, S)
<1> DEFINE A == {T \in SUBSET S : Total(f, T) # Total(g, T)}
<1> SUFFICES ASSUME A # {} PROVE FALSE
  OBVIOUS
<1>1. \A T \in SUBSET S : IsFiniteSet(T)
  BY FS_Subset
<1>2. PICK T \in A : \A V \in A : Cardinality(T) <= Cardinality(V)
  BY <1>1, SmallestSet
<1>3. T # {}
  BY <1>2, TotalEmpty
<1>4. IsFiniteSet(T) /\ Pick(T) \in T
  BY <1>1, <1>3, PickIn
<1>5. T \ {Pick(T)} \notin A
  BY <1>2, <1>4, NotSmaller
<1>6. Total(f, T \ {Pick(T)}) = Total(g, T \ {Pick(T)}) /\ f[Pick(T)] = g[Pick(T)]
  BY <1>4, <1>5
<1> QED BY <1>2, <1>3, <1>4, <1>6, TotalPick

\* What changes of a function at one element changes of its sum.
LEMMA TotalChange ==
  ASSUME NEW f, NEW g, NEW S, IsFiniteSet(S), NEW k \in S,
         \A x \in S : f[x] \in Nat /\ g[x] \in Nat,
         \A x \in S \ {k} : g[x] = f[x]
  PROVE  /\ Total(f, S) \in Nat /\ Total(g, S) \in Nat
         /\ Total(g, S) + f[k] = Total(f, S) + g[k]
<1>1. /\ Total(f, S) = f[k] + Total(f, S \ {k})
      /\ Total(g, S) = g[k] + Total(g, S \ {k})
  BY TotalTake
<1>2. IsFiniteSet(S \ {k})
  BY FS_Subset
<1>3. Total(f, S \ {k}) = Total(g, S \ {k}) /\ Total(f, S \ {k}) \in Nat
  BY <1>2, TotalSame, TotalNat
<1> QED BY <1>1, <1>3, TotalNat

LEMMA TotalZero ==
  ASSUME NEW f, NEW S, IsFiniteSet(S), \A x \in S : f[x] = 0
  PROVE  Total(f, S) = 0
<1> DEFINE A == {T \in SUBSET S : Total(f, T) # 0}
<1> SUFFICES ASSUME A # {} PROVE FALSE
  OBVIOUS
<1>1. \A T \in SUBSET S : IsFiniteSet(T)
  BY FS_Subset
<1>2. PICK T \in A : \A V \in A : Cardinality(T) <= Cardinality(V)
  BY <1>1, SmallestSet
<1>3. T # {}
  BY <1>2, TotalEmpty
<1>4. IsFiniteSet(T) /\ Pick(T) \in T
  BY <1>1, <1>3, PickIn
<1>5. T \ {Pick(T)} \notin A
  BY <1>2, <1>4, NotSmaller
<1>6. Total(f, T \ {Pick(T)}) = 0 /\ f[Pick(T)] = 0
  BY <1>4, <1>5
<1> QED BY <1>2, <1>3, <1>4, <1>6, TotalPick

-----------------------------------------------------------------------------
(***************************************************************************)
(* Types                                                                   *)
(***************************************************************************)

LEMMA DayFacts ==
  ASSUME LlmAssumption, NEW t \in 0 .. MaxTime
  PROVE  Day(t) \in Days /\ Day(t) \in Nat
<1>1. \A n \in Nat, d \in Nat \ {0} : n \div d \in Nat
  OBVIOUS
<1>2. \A m, n \in Nat, d \in Nat \ {0} : m <= n => m \div d <= n \div d
  OBVIOUS
<1> QED BY <1>1, <1>2 DEF LlmAssumption, Day, Days

LEMMA TypeStarts == ASSUME LlmAssumption, Init PROVE TypeInv
<1>1. 0 \in Days
  BY DayFacts DEF LlmAssumption, Days
<1>2. LedgerTypes
  BY <1>1 DEF Init, LedgerTypes, LlmAssumption
<1>3. RunTypes
  BY DEF Init, RunTypes, RunAgrees, Statuses, WaitRow, NoWait, LlmAssumption
<1>4. BatchTypes
  BY DEF Init, BatchTypes, BatchAgrees, BatchRow, NoBatch, LlmAssumption
<1> QED BY <1>2, <1>3, <1>4 DEF TypeInv

\* The ledger: its rows grow by what a call or a batch cost.
LEMMA SettleTypes ==
  ASSUME LlmAssumption, LedgerTypes, NEW r \in Runs, NEW d \in Days, NEW usd \in Nat,
         Settle(r, d, usd), now' \in 0 .. MaxTime
  PROVE  LedgerTypes'
BY DEF LedgerTypes, Settle, Trip

LEMMA EndsTypes ==
  ASSUME LlmAssumption, RunTypes, NEW r \in Runs, Ready(r), NEW to \in {"queued", "done", "failed"},
         Ends(r, to)
  PROVE  RunTypes'
BY DEF RunTypes, RunAgrees, Statuses, Ready, Ends, Starting, LlmAssumption

LEMMA HoldTypes ==
  ASSUME LlmAssumption, now \in 0 .. MaxTime, RunTypes, NEW r \in Runs, Ready(r),
         Hold(r, IF r \in CallRuns THEN Worst ELSE BatchWorst)
  PROVE  RunTypes'
BY DayFacts DEF RunTypes, RunAgrees, Statuses, Ready, Hold, Starting, LlmAssumption, Days

\* The attempt in flight ends.
LEMMA ReleaseTypes ==
  ASSUME LlmAssumption, RunTypes, NEW r \in Runs, status[r] = "busy", Release(r),
         NEW to \in {"queued", "done", "failed"}, status' = [status EXCEPT ![r] = to],
         NEW n \in {attempt[r], attempt[r] - 1}, attempt' = [attempt EXCEPT ![r] = n],
         UNCHANGED wait
  PROVE  RunTypes'
BY DEF RunTypes, RunAgrees, Statuses, Release, LlmAssumption

\* Newest() finds the last batch of a set.
LEMMA NewestIs ==
  ASSUME NEW S \in SUBSET Nat, IsFiniteSet(S), S # {}
  PROVE  Newest(S) \in S /\ \A c \in S : c <= Newest(S)
<1> DEFINE After(b) == {c \in S : c > b}
           A == {After(b) : b \in S}
<1>1. \A T \in A : IsFiniteSet(T)
  BY FS_Subset
<1>2. PICK b \in S : \A c \in S : Cardinality(After(b)) <= Cardinality(After(c))
  <2>1. A # {}
    OBVIOUS
  <2>2. PICK T \in A : \A U \in A : Cardinality(T) <= Cardinality(U)
    BY <1>1, <2>1, SmallestSet
  <2>3. PICK b \in S : T = After(b)
    OBVIOUS
  <2> HIDE DEF After
  <2> QED BY <2>2, <2>3
<1>3. ASSUME NEW c \in S, c > b PROVE FALSE
  <2> DEFINE T == After(b) \ {c}
  <2>1. IsFiniteSet(After(b)) /\ IsFiniteSet(T) /\ IsFiniteSet(After(c)) /\ c \in After(b)
    BY <1>1, <1>3, FS_Subset
  <2>2. After(c) \subseteq T
    <3>1. \A d \in S : d > c => d > b /\ d # c
      BY <1>3
    <3> QED BY <3>1
  <2> HIDE DEF After
  <2>3. Cardinality(After(c)) <= Cardinality(T)
    BY <2>1, <2>2, FS_Subset
  <2>4. Cardinality(After(b)) = Cardinality(T) + 1
    BY <2>1, Smaller
  <2>5. /\ Cardinality(After(c)) \in Nat /\ Cardinality(T) \in Nat
        /\ Cardinality(After(b)) <= Cardinality(After(c))
    BY <2>1, <1>2, FS_CardinalityType
  <2> QED BY <2>3, <2>4, <2>5
<1>4. \A c \in S : c <= b
  BY <1>3
<1> QED BY <1>4 DEF Newest

LEMMA NewestRow ==
  ASSUME LlmAssumption, NEW r, RowsOf(r) # {}
  PROVE  /\ Newest(RowsOf(r)) \in Rows /\ Newest(RowsOf(r)) \in Ids
         /\ batch[Newest(RowsOf(r))].run = r
         /\ \A b \in Rows : batch[b].run = r => b <= Newest(RowsOf(r))
<1>1. RowsOf(r) \subseteq Nat /\ IsFiniteSet(RowsOf(r))
  BY FS_Subset DEF RowsOf, Rows, LlmAssumption
<1>2. Newest(RowsOf(r)) \in RowsOf(r) /\ \A c \in RowsOf(r) : c <= Newest(RowsOf(r))
  BY <1>1, NewestIs
<1> QED BY <1>2 DEF RowsOf, Rows

LEMMA ParkTypes ==
  ASSUME LlmAssumption, now \in 0 .. MaxTime, RunTypes, NEW r \in BatchRuns, NEW b \in Ids,
         NEW n \in Nat, n # 0, n <= MaxAttempts[r],
         \/ status[r] = "busy" /\ Release(r)
         \/ status[r] # "busy" /\ UNCHANGED <<began, held>>,
         Park(r, b, n), attempt' = [attempt EXCEPT ![r] = n]
  PROVE  RunTypes'
BY DEF RunTypes, RunAgrees, Statuses, Release, Park, WaitRow, LlmAssumption, Runs

AnOutcome == {"queued", "done", "failed"}

LEMMA AfterFailureIs ==
  /\ \A r, n, retryable : AfterFailure(r, n, retryable) \in AnOutcome
  /\ \A r, n : \A answer \in {"good", "truncated", "unusable"} : Worth(r, n, answer) \in AnOutcome
BY DEF AfterFailure, Worth, AnOutcome

\* What a batched run does when it starts.
LEMMA RunBatchedIs ==
  ASSUME LlmAssumption, TypeInv, NEW r \in Runs, RunBatched(r)
  PROVE  /\ r \in BatchRuns /\ Ready(r) /\ UNCHANGED <<now, pass, spent>>
         /\ \/ /\ \E to \in AnOutcome : Ends(r, to)
               /\ (NoSpend \/ Trip(Day(now), SumSince(Day(now))))
            \/ /\ ~ReadsResult(r) /\ wait[r].outcome # "timeout" /\ NoSpend
               /\ \/ /\ RowsOf(r) # {}
                     /\ Park(r, Newest(RowsOf(r)), Starting(r))
                     /\ attempt' = [attempt EXCEPT ![r] = Starting(r)]
                     /\ batch' = [batch EXCEPT ![Newest(RowsOf(r))].parked = TRUE]
                     /\ UNCHANGED <<began, held>>
                  \/ RowsOf(r) = {} /\ ~BatchRefused(r) /\ Hold(r, BatchWorst)
<1>1. r \in BatchRuns /\ Ready(r) /\ UNCHANGED <<now, pass>>
  BY DEF RunBatched
<1>2. CASE wait[r].outcome = "timeout"
  BY <1>1, <1>2 DEF RunBatched, NoSpend, AnOutcome
<1>3. CASE wait[r].outcome # "timeout" /\ ReadsResult(r)
  BY <1>1, <1>3, AfterFailureIs DEF RunBatched, Result, NoSpend, AnOutcome
<1>4. CASE wait[r].outcome # "timeout" /\ ~ReadsResult(r)
  BY <1>1, <1>4 DEF RunBatched, Submit, NoSpend, AnOutcome
<1> QED BY <1>2, <1>3, <1>4

LEMMA CallStartTypes ==
  ASSUME LlmAssumption, TypeInv, NEW r \in Runs, NoProvider(r) \/ Call(r) \/ RunBatched(r)
  PROVE  RunTypes'
<1>t. RunTypes /\ now \in 0 .. MaxTime
  BY DEF TypeInv, LedgerTypes
<1>1. CASE NoProvider(r)
  BY <1>t, <1>1, EndsTypes DEF NoProvider
<1>2. CASE Call(r)
  <2>1. CASE Refused(r, Worst)
    BY <1>t, <1>2, <2>1, EndsTypes DEF Call
  <2>2. CASE ~Refused(r, Worst)
    BY <1>t, <1>2, <2>2, HoldTypes DEF Call
  <2> QED BY <2>1, <2>2
<1>3. CASE RunBatched(r)
  <2>1. r \in BatchRuns /\ Ready(r) /\ r \notin CallRuns
    BY <1>3, RunBatchedIs DEF LlmAssumption
  <2>2. ASSUME NEW to \in AnOutcome, Ends(r, to) PROVE RunTypes'
    BY <1>t, <2>1, <2>2, EndsTypes DEF AnOutcome
  <2>3. ASSUME RowsOf(r) # {}, Park(r, Newest(RowsOf(r)), Starting(r)),
               attempt' = [attempt EXCEPT ![r] = Starting(r)], UNCHANGED <<began, held>>
        PROVE  RunTypes'
    <3>1. status[r] # "busy" /\ Starting(r) \in Nat /\ Starting(r) # 0 /\ Starting(r) <= MaxAttempts[r]
      BY <1>t, <2>1 DEF Ready, Starting, RunTypes, RunAgrees, LlmAssumption
    <3> QED BY <1>t, <2>1, <2>3, <3>1, NewestRow, ParkTypes
  <2>4. ASSUME Hold(r, BatchWorst) PROVE RunTypes'
    BY <1>t, <2>1, <2>4, HoldTypes
  <2>5. \/ \E to \in AnOutcome : Ends(r, to)
        \/ /\ RowsOf(r) # {} /\ Park(r, Newest(RowsOf(r)), Starting(r))
           /\ attempt' = [attempt EXCEPT ![r] = Starting(r)] /\ UNCHANGED <<began, held>>
        \/ Hold(r, BatchWorst)
    BY <1>3, RunBatchedIs
  <2> QED BY <2>2, <2>3, <2>4, <2>5
<1> QED BY <1>1, <1>2, <1>3

LEMMA CutOffTypes ==
  ASSUME LlmAssumption, RunTypes, NEW r \in Runs, status[r] = "busy",
         NEW why \in {"stop", "cancel", "timeout"}, CutOff(r, why), UNCHANGED wait
  PROVE  RunTypes'
<1> DEFINE to == CASE why = "stop" -> "queued"
                   [] why = "cancel" -> "failed"
                   [] why = "timeout" -> AfterFailure(r, attempt[r], TRUE)
           n == IF why = "stop" THEN attempt[r] - 1 ELSE attempt[r]
<1>1. to \in AnOutcome /\ n \in {attempt[r], attempt[r] - 1}
  BY AfterFailureIs DEF AnOutcome
<1>2. status' = [status EXCEPT ![r] = to] /\ attempt' = [attempt EXCEPT ![r] = n] /\ Release(r)
  BY DEF CutOff
<1> HIDE DEF to, n
<1> QED BY <1>1, <1>2, ReleaseTypes DEF AnOutcome

LEMMA CallEndTypes ==
  ASSUME LlmAssumption, TypeInv, NEW r \in Runs,
         \/ \E usd \in 0 .. Worst, answer \in {"good", "truncated", "unusable"} : CallReturns(r, usd, answer)
         \/ \E retryable \in BOOLEAN : CallFails(r, retryable)
         \/ \E why \in {"stop", "cancel", "timeout"} : CallCutOff(r, why) \/ SubmitFails(r, why)
         \/ \E b \in Ids, parks \in BOOLEAN : Submitted(r, b, parks)
  PROVE  RunTypes'
<1>t. RunTypes /\ now \in 0 .. MaxTime /\ attempt \in [Runs -> Nat]
  BY DEF TypeInv, LedgerTypes, RunTypes
<1>s. UNCHANGED attempt => attempt' = [attempt EXCEPT ![r] = attempt[r]]
  BY <1>t
<1>r. ASSUME NEW to, to \in AnOutcome, status[r] = "busy", Release(r),
             status' = [status EXCEPT ![r] = to], UNCHANGED <<wait, attempt>>
      PROVE  RunTypes'
  BY <1>t, <1>s, <1>r, ReleaseTypes DEF AnOutcome
<1>1. ASSUME NEW usd \in 0 .. Worst, NEW answer \in {"good", "truncated", "unusable"},
             CallReturns(r, usd, answer)
      PROVE  RunTypes'
  <2> DEFINE to == IF SumForRun(r) + usd > RunCap THEN "failed" ELSE Worth(r, attempt[r], answer)
  <2>1. to \in AnOutcome
    BY AfterFailureIs DEF AnOutcome
  <2>2. status' = [status EXCEPT ![r] = to] /\ status[r] = "busy" /\ Release(r) /\ UNCHANGED <<wait, attempt>>
    BY <1>1 DEF CallReturns
  <2> HIDE DEF to
  <2> QED BY <1>r, <2>1, <2>2
<1>2. ASSUME NEW retryable \in BOOLEAN, CallFails(r, retryable) PROVE RunTypes'
  <2>1. /\ status' = [status EXCEPT ![r] = AfterFailure(r, attempt[r], retryable)]
        /\ status[r] = "busy" /\ Release(r) /\ UNCHANGED <<wait, attempt>>
    BY <1>2 DEF CallFails
  <2> QED BY <1>r, <2>1, AfterFailureIs
<1>3. ASSUME NEW why \in {"stop", "cancel", "timeout"}, CallCutOff(r, why) \/ SubmitFails(r, why)
      PROVE  RunTypes'
  BY <1>t, <1>3, CutOffTypes DEF CallCutOff, SubmitFails
<1>4. ASSUME NEW b \in Ids, NEW parks \in BOOLEAN, Submitted(r, b, parks) PROVE RunTypes'
  <2>1. /\ r \in BatchRuns /\ status[r] = "busy" /\ Release(r) /\ UNCHANGED attempt
        /\ attempt[r] \in Nat /\ attempt[r] # 0 /\ attempt[r] <= MaxAttempts[r]
    BY <1>4, <1>t DEF Submitted, RunTypes, RunAgrees
  <2>2. CASE parks
    <3>1. Park(r, b, attempt[r])
      BY <1>4, <2>2 DEF Submitted
    <3> QED BY <1>t, <1>s, <2>1, <3>1, ParkTypes
  <2>3. CASE ~parks
    <3>1. status' = [status EXCEPT ![r] = AfterFailure(r, attempt[r], TRUE)] /\ UNCHANGED wait
      BY <1>4, <2>3 DEF Submitted
    <3> QED BY <1>r, <2>1, <3>1, AfterFailureIs
  <2> QED BY <2>2, <2>3
<1> QED BY <1>1, <1>2, <1>3, <1>4

LEMMA RunTypesStep ==
  ASSUME LlmAssumption, TypeInv, [Next]_vars
  PROVE  RunTypes'
<1>t. RunTypes
  BY DEF TypeInv
<1>k. UNCHANGED runVars => RunTypes'
  BY <1>t DEF runVars, RunTypes, RunAgrees
<1>1. ASSUME NEW r \in Runs, RunStep(r) PROVE RunTypes'
  <2>1. CASE NoProvider(r) \/ Call(r) \/ RunBatched(r)
    BY <2>1, CallStartTypes
  <2>2. CASE Resume(r)
    BY <1>t, <2>2 DEF Resume, RunTypes, RunAgrees, Statuses, WaitRow
  <2>3. CASE \E usd \in 0 .. Worst, answer \in {"good", "truncated", "unusable"} : CallReturns(r, usd, answer)
    BY <2>3, CallEndTypes
  <2>4. CASE \E retryable \in BOOLEAN : CallFails(r, retryable)
    BY <2>4, CallEndTypes
  <2>5. CASE \E why \in {"stop", "cancel", "timeout"} : CallCutOff(r, why) \/ SubmitFails(r, why)
    BY <2>5, CallEndTypes
  <2>6. CASE \E b \in Ids, parks \in BOOLEAN : Submitted(r, b, parks)
    BY <2>6, CallEndTypes
  <2> QED BY <1>1, <2>1, <2>2, <2>3, <2>4, <2>5, <2>6 DEF RunStep
<1>2. ASSUME NEW b \in Ids, BatchStep(b) PROVE RunTypes'
  BY <1>2, <1>k DEF BatchStep, ProviderEnds, SettleBatch, PollAgain
<1>3. CASE Crash
  BY <1>3, <1>t DEF Crash, RunTypes, RunAgrees, Statuses, AfterFailure
<1>4. CASE StartPass \/ StopPass \/ Tick \/ UNCHANGED vars
  BY <1>4, <1>k DEF StartPass, StopPass, Tick, vars
<1> QED BY <1>1, <1>2, <1>3, <1>4 DEF Next

\* A step enters one bill, or publishes that today's cap is reached, or neither.
LedgerChanged ==
  \/ UNCHANGED spent /\ tripped' \in {tripped, tripped \cup {Day(now)}}
  \/ \E r \in Runs, d \in Days, usd \in Nat : Settle(r, d, usd)

LEMMA LedgerSteps ==
  ASSUME LlmAssumption, TypeInv, [Next]_vars
  PROVE  LedgerChanged
<1>t. /\ Day(now) \in Days
      /\ \A r \in Runs : status[r] = "busy" => began[r] \in Days
  BY DayFacts DEF TypeInv, LedgerTypes, RunTypes, RunAgrees
<1>k. UNCHANGED <<spent, tripped>> => LedgerChanged
  BY DEF LedgerChanged
<1>p. UNCHANGED spent /\ Trip(Day(now), SumSince(Day(now))) => LedgerChanged
  BY DEF LedgerChanged, Trip
<1>s. ASSUME NEW r \in Runs, NEW d \in Days, NEW usd \in Nat, Settle(r, d, usd) PROVE LedgerChanged
  BY <1>s DEF LedgerChanged
<1>1. ASSUME NEW r \in Runs, RunStep(r) PROVE LedgerChanged
  <2>1. CASE NoProvider(r) \/ Resume(r)
    BY <1>k, <2>1 DEF NoProvider, Resume
  <2>2. CASE Call(r)
    BY <1>k, <1>p, <2>2 DEF Call
  <2>3. CASE RunBatched(r)
    BY <1>k, <1>p, <2>3, RunBatchedIs DEF NoSpend
  <2>4. ASSUME NEW usd \in 0 .. Worst, NEW answer \in {"good", "truncated", "unusable"},
               CallReturns(r, usd, answer)
        PROVE  LedgerChanged
    BY <1>t, <1>s, <2>4 DEF CallReturns
  <2>5. ASSUME NEW why \in {"stop", "cancel", "timeout"}, CallCutOff(r, why) PROVE LedgerChanged
    BY <1>t, <1>s, <2>5 DEF CallCutOff, LlmAssumption
  <2>6. CASE \/ \E retryable \in BOOLEAN : CallFails(r, retryable)
             \/ \E why \in {"stop", "cancel", "timeout"} : SubmitFails(r, why)
             \/ \E b \in Ids, parks \in BOOLEAN : Submitted(r, b, parks)
    BY <1>k, <2>6 DEF CallFails, SubmitFails, Submitted
  <2> QED BY <1>1, <2>1, <2>2, <2>3, <2>4, <2>5, <2>6 DEF RunStep
<1>2. ASSUME NEW b \in Ids, BatchStep(b) PROVE LedgerChanged
  <2>1. ASSUME NEW usd \in 0 .. BatchWorst, SettleBatch(b, usd) PROVE LedgerChanged
    <3>1. batch[b].run \in Runs
      BY <2>1 DEF SettleBatch, TypeInv, BatchTypes, BatchAgrees, Outcomes, Runs
    <3>2. NoSpend \/ Settle(batch[b].run, Day(now), usd)
      BY <2>1 DEF SettleBatch
    <3> QED BY <1>t, <1>k, <1>s, <3>1, <3>2 DEF NoSpend
  <2> QED BY <1>2, <1>k, <2>1 DEF BatchStep, ProviderEnds, PollAgain
<1>3. CASE StartPass \/ StopPass \/ Tick \/ Crash \/ UNCHANGED vars
  BY <1>3, <1>k DEF StartPass, StopPass, Tick, Crash, vars
<1> QED BY <1>1, <1>2, <1>3 DEF Next

LEMMA ClockStep ==
  ASSUME LlmAssumption, TypeInv, [Next]_vars
  PROVE  now' \in 0 .. MaxTime /\ (now' = now \/ (now' = now + 1 /\ UNCHANGED <<spent, held, batch>>))
<1>t. now \in 0 .. MaxTime
  BY DEF TypeInv, LedgerTypes
<1>1. now' = now \/ Tick
  BY RunBatchedIs DEF Next, RunStep, BatchStep, NoProvider, Call, Resume, CallReturns, CallFails, CallCutOff,
        SubmitFails, Submitted, ProviderEnds, SettleBatch, PollAgain, StartPass, StopPass, Crash, vars
<1> QED BY <1>t, <1>1 DEF Tick, LlmAssumption, runVars

LEMMA LedgerTypesStep ==
  ASSUME LlmAssumption, TypeInv, [Next]_vars
  PROVE  LedgerTypes'
<1>t. LedgerTypes /\ now' \in 0 .. MaxTime /\ Day(now) \in Days
  BY ClockStep, DayFacts DEF TypeInv, LedgerTypes
<1>1. CASE UNCHANGED spent /\ tripped' \in {tripped, tripped \cup {Day(now)}}
  BY <1>t, <1>1 DEF LedgerTypes
<1>2. CASE \E r \in Runs, d \in Days, usd \in Nat : Settle(r, d, usd)
  BY <1>t, <1>2, SettleTypes
<1> QED BY <1>1, <1>2, LedgerSteps DEF LedgerChanged

LEMMA BatchTypesStep ==
  ASSUME LlmAssumption, TypeInv, [Next]_vars
  PROVE  BatchTypes'
<1>t. BatchTypes /\ now \in 0 .. MaxTime
  BY DEF TypeInv, LedgerTypes
<1>k. UNCHANGED batch /\ pass' \subseteq Rows => BatchTypes'
  BY <1>t DEF BatchTypes, BatchAgrees, Rows
<1>j. pass \subseteq Rows
  BY <1>t DEF BatchTypes
<1>1. ASSUME NEW r \in Runs, RunStep(r) PROVE BatchTypes'
  <2>1. CASE NoProvider(r) \/ Resume(r) \/ Call(r)
    BY <1>j, <1>k, <2>1 DEF NoProvider, Resume, Call, Ends, Hold
  <2>2. CASE RunBatched(r)
    <3>1. ASSUME RowsOf(r) # {}, batch' = [batch EXCEPT ![Newest(RowsOf(r))].parked = TRUE],
                 UNCHANGED pass
          PROVE  BatchTypes'
      <4>1. PICK b \in Ids : b = Newest(RowsOf(r)) /\ batch[b].row
        BY <3>1, NewestRow DEF Rows
      <4>2. batch' = [batch EXCEPT ![b].parked = TRUE]
        BY <3>1, <4>1
      <4>3. batch' \in [Ids -> BatchRow]
        BY <1>t, <4>2 DEF BatchTypes, BatchRow
      <4>4. \A c \in Ids : BatchAgrees(c)'
        BY <1>t, <4>1, <4>2 DEF BatchTypes, BatchAgrees, BatchRow
      <4>5. \A c \in Ids : batch'[c].row = batch[c].row
        BY <1>t, <4>2 DEF BatchTypes, BatchRow
      <4> QED BY <1>t, <3>1, <4>3, <4>4, <4>5 DEF BatchTypes, Rows
    <3>2. UNCHANGED pass
          /\ (UNCHANGED batch \/ (RowsOf(r) # {} /\ batch' = [batch EXCEPT ![Newest(RowsOf(r))].parked = TRUE]))
      BY <2>2, RunBatchedIs DEF Ends, Hold
    <3> QED BY <1>j, <1>k, <3>1, <3>2
  <2>3. CASE \/ \E usd \in 0 .. Worst, answer \in {"good", "truncated", "unusable"} : CallReturns(r, usd, answer)
             \/ \E retryable \in BOOLEAN : CallFails(r, retryable)
             \/ \E why \in {"stop", "cancel", "timeout"} : CallCutOff(r, why) \/ SubmitFails(r, why)
    BY <1>j, <1>k, <2>3 DEF CallReturns, CallFails, CallCutOff, SubmitFails
  <2>4. ASSUME NEW b \in Ids, NEW parks \in BOOLEAN, Submitted(r, b, parks) PROVE BatchTypes'
    <3>1. /\ r \in BatchRuns /\ UNCHANGED pass
          /\ batch' = [batch EXCEPT ![b] = [NoBatch EXCEPT !.run = r, !.at = now,
                                             !.state = "running", !.row = TRUE, !.parked = parks]]
      BY <2>4 DEF Submitted
    <3> QED BY <1>t, <3>1 DEF BatchTypes, BatchAgrees, Rows, BatchRow, NoBatch, Runs
  <2> QED BY <1>1, <2>1, <2>2, <2>3, <2>4 DEF RunStep
<1>2. ASSUME NEW b \in Ids, BatchStep(b) PROVE BatchTypes'
  <2>1. ASSUME NEW usd \in 0 .. BatchWorst, SettleBatch(b, usd) PROVE BatchTypes'
    BY <1>t, <2>1 DEF SettleBatch, BatchTypes, BatchAgrees, BatchRow, Rows, Polled, Billed, Outcomes
  <2>2. ASSUME NEW failed \in BOOLEAN, PollAgain(b, failed) PROVE BatchTypes'
    BY <1>t, <2>2 DEF PollAgain, BatchTypes, BatchAgrees, BatchRow, Rows, Polled
  <2>3. ASSUME NEW outcome \in Outcomes, ProviderEnds(b, outcome) PROVE BatchTypes'
    BY <1>t, <2>3 DEF ProviderEnds, BatchTypes, BatchAgrees, BatchRow, Rows, Outcomes
  <2> QED BY <1>2, <2>1, <2>2, <2>3 DEF BatchStep
<1>3. CASE StartPass \/ StopPass \/ Tick \/ Crash \/ UNCHANGED vars
  BY <1>3, <1>j, <1>k DEF StartPass, StopPass, Tick, Crash, vars
<1> QED BY <1>1, <1>2, <1>3 DEF Next

LEMMA TypeStep ==
  ASSUME LlmAssumption, TypeInv, [Next]_vars
  PROVE  TypeInv'
BY RunTypesStep, LedgerTypesStep, BatchTypesStep DEF TypeInv

-----------------------------------------------------------------------------
(***************************************************************************)
(* The ledger                                                              *)
(***************************************************************************)

\* The days of the ledger are finitely many.
LEMMA LedgerIsFinite ==
  ASSUME LlmAssumption, LedgerTypes
  PROVE  /\ DOMAIN spent = Runs \X Days /\ IsFiniteSet(Runs \X Days)
         /\ \A S \in SUBSET (Runs \X Days) : IsFiniteSet(S) /\ Total(spent, S) \in Nat
<1>1. Day(MaxTime) \in Nat
  BY DayFacts DEF LlmAssumption
<1>2. IsFiniteSet(Runs) /\ IsFiniteSet(Days)
  BY <1>1, FS_Interval DEF LlmAssumption, Days
<1>3. DOMAIN spent = Runs \X Days /\ IsFiniteSet(Runs \X Days)
  BY <1>2, FS_Product DEF LedgerTypes
<1>4. \A k \in Runs \X Days : spent[k] \in Nat
  BY DEF LedgerTypes
<1> QED BY <1>3, <1>4, FS_Subset, TotalNat

Since(d) == {k \in Runs \X Days : k[2] >= d}
On(d) == {k \in Runs \X Days : k[2] = d}

LEMMA SumsAre ==
  ASSUME LlmAssumption, LedgerTypes, NEW d
  PROVE  SumSince(d) = Total(spent, Since(d)) /\ SpentOn(d) = Total(spent, On(d))
BY LedgerIsFinite DEF SumSince, SpentOn, Since, On

\* What was spent since a day includes what was spent on it and since any later one.
LEMMA SumFacts ==
  ASSUME LlmAssumption, LedgerTypes, NEW d \in Nat
  PROVE  /\ SumSince(d) \in Nat /\ SpentOn(d) \in Nat /\ SpentOn(d) <= SumSince(d)
         /\ \A e \in Nat : d <= e => SumSince(e) <= SumSince(d)
<1>d. Days \subseteq Nat
  BY DEF Days
<1>1. Since(d) \subseteq Runs \X Days /\ On(d) \subseteq Since(d)
  BY <1>d DEF Since, On
<1>2. \A k \in Since(d) : spent[k] \in Nat
  BY DEF LedgerTypes, Since
<1>3. \A e \in Nat : d <= e => Since(e) \subseteq Since(d)
  <2>1. \A k \in Runs \X Days : k[2] \in Nat
    BY <1>d
  <2>2. \A e, n \in Nat : d <= e /\ n >= e => n >= d
    OBVIOUS
  <2> QED BY <2>1, <2>2 DEF Since
<1>4. \A S \in SUBSET Since(d) : Total(spent, S) <= Total(spent, Since(d))
  BY <1>1, <1>2, LedgerIsFinite, TotalGrows
<1> QED BY <1>1, <1>3, <1>4, LedgerIsFinite, SumsAre

LEMMA SettleSums ==
  ASSUME LlmAssumption, LedgerTypes, LedgerTypes',
         NEW r \in Runs, NEW d \in Days, NEW usd \in Nat, Settle(r, d, usd), NEW e \in Nat
  PROVE  /\ SumSince(e)' = SumSince(e) + IF e <= d THEN usd ELSE 0
         /\ SpentOn(e)' = SpentOn(e) + IF e = d THEN usd ELSE 0
<1> DEFINE k == <<r, d>>
<1>d. d \in Nat /\ Days \subseteq Nat
  BY DEF Days
<1>1. spent' = [spent EXCEPT ![k] = @ + usd] /\ k \in Runs \X Days
  BY DEF Settle
<1>2. /\ SumSince(e) = Total(spent, Since(e)) /\ SpentOn(e) = Total(spent, On(e))
      /\ SumSince(e)' = Total(spent', Since(e)) /\ SpentOn(e)' = Total(spent', On(e))
  BY LedgerIsFinite, SumsAre DEF SumSince, SpentOn, Since, On, LedgerTypes
<1>3. ASSUME NEW S \in SUBSET (Runs \X Days)
      PROVE  Total(spent', S) = Total(spent, S) + IF k \in S THEN usd ELSE 0
  <2>1. IsFiniteSet(S) /\ Total(spent, S) \in Nat
    BY LedgerIsFinite
  <2>2. \A x \in S : spent[x] \in Nat /\ spent'[x] \in Nat
    BY DEF LedgerTypes
  <2>3. \A x \in S \ {k} : spent'[x] = spent[x]
    BY <1>1 DEF LedgerTypes
  <2>4. CASE k \in S
    <3>1. spent'[k] = spent[k] + usd /\ spent[k] \in Nat
      BY <1>1 DEF LedgerTypes
    <3> HIDE DEF k
    <3>2. Total(spent', S) + spent[k] = Total(spent, S) + spent'[k] /\ Total(spent', S) \in Nat
      BY <2>1, <2>2, <2>3, <2>4, TotalChange
    <3> QED BY <2>1, <2>4, <3>1, <3>2
  <2>5. CASE k \notin S
    <3> HIDE DEF k
    <3> QED BY <2>1, <2>3, <2>5, TotalSame
  <2> QED BY <2>4, <2>5
<1>4. (k \in Since(e) <=> e <= d) /\ (k \in On(e) <=> e = d)
  BY <1>d DEF Since, On
<1>5. Since(e) \subseteq Runs \X Days /\ On(e) \subseteq Runs \X Days
  BY DEF Since, On
<1> HIDE DEF k
<1> QED BY <1>2, <1>3, <1>4, <1>5

\* budget.exceeded was published for every day whose spend reached the cap.
LEMMA OverspendStep ==
  ASSUME LlmAssumption, TypeInv, NoSilentOverspend, [Next]_vars
  PROVE  NoSilentOverspend'
<1>t. LedgerTypes /\ LedgerTypes' /\ Days \subseteq Nat /\ Cap \in Nat
  BY LedgerTypesStep DEF TypeInv, Days, LlmAssumption
<1>1. CASE UNCHANGED spent /\ tripped \subseteq tripped'
  BY <1>1 DEF NoSilentOverspend, SpentOn
<1>2. ASSUME NEW r \in Runs, NEW d \in Days, NEW usd \in Nat, Settle(r, d, usd)
      PROVE  NoSilentOverspend'
  <2>1. ASSUME NEW e \in Days, SpentOn(e)' >= Cap PROVE e \in tripped'
    <3>1. SpentOn(e)' = SpentOn(e) + IF e = d THEN usd ELSE 0
      BY <1>t, <1>2, SettleSums
    <3>2. tripped' = IF SumSince(d) + usd >= Cap THEN tripped \cup {d} ELSE tripped
      BY <1>2 DEF Settle, Trip
    <3>3. SpentOn(e) \in Nat /\ SumSince(d) \in Nat /\ SpentOn(d) <= SumSince(d)
      BY <1>t, SumFacts
    <3>4. SpentOn(e) >= Cap => e \in tripped
      BY DEF NoSilentOverspend
    <3>5. CASE e = d
      BY <1>t, <2>1, <3>1, <3>2, <3>3, <3>5
    <3>6. CASE e # d
      BY <1>t, <2>1, <3>1, <3>2, <3>3, <3>4, <3>6
    <3> QED BY <3>5, <3>6
  <2> QED BY <2>1 DEF NoSilentOverspend
<1> QED BY <1>1, <1>2, LedgerSteps DEF LedgerChanged

-----------------------------------------------------------------------------
(***************************************************************************)
(* What is held and reserved, and the daily cap                            *)
(***************************************************************************)

\* What is held and reserved: sums over the runs and the rows of any one state.
LEMMA HeldNat ==
  ASSUME LlmAssumption, NEW h \in [Runs -> {0, Worst, BatchWorst}]
  PROVE  IsFiniteSet(Runs) /\ (\A r \in Runs : h[r] \in Nat) /\ Total(h, Runs) \in Nat
<1>1. IsFiniteSet(Runs) /\ \A r \in Runs : h[r] \in Nat
  BY DEF LlmAssumption
<1> QED BY <1>1, TotalNat

LEMMA RowsNat ==
  ASSUME LlmAssumption, NEW S \in SUBSET Ids
  PROVE  IsFiniteSet(S) /\ Cardinality(S) \in Nat /\ BatchWorst \in Nat /\ BatchWorst * Cardinality(S) \in Nat
<1>1. IsFiniteSet(S) /\ Cardinality(S) \in Nat /\ BatchWorst \in Nat
  BY FS_Subset, FS_CardinalityType DEF LlmAssumption
<1>2. \A m, n \in Nat : m * n \in Nat
  OBVIOUS
<1> QED BY <1>1, <1>2

LEMMA HeldChange ==
  ASSUME LlmAssumption, NEW h \in [Runs -> {0, Worst, BatchWorst}], NEW r \in Runs,
         NEW w \in {0, Worst, BatchWorst}
  PROVE  Total([h EXCEPT ![r] = w], Runs) + h[r] = Total(h, Runs) + w
<1> DEFINE g == [h EXCEPT ![r] = w]
<1>1. g[r] = w /\ (\A q \in Runs \ {r} : g[q] = h[q]) /\ g \in [Runs -> {0, Worst, BatchWorst}]
  OBVIOUS
<1> HIDE DEF g
<1>2. IsFiniteSet(Runs) /\ \A q \in Runs : h[q] \in Nat /\ g[q] \in Nat
  BY <1>1, HeldNat
<1>3. Total(g, Runs) + h[r] = Total(h, Runs) + g[r]
  BY <1>1, <1>2, TotalChange
<1> QED BY <1>1, <1>3 DEF g

\* One row less.
LEMMA RowGone ==
  ASSUME LlmAssumption, NEW S \in SUBSET Ids, NEW b \in S
  PROVE  BatchWorst * Cardinality(S \ {b}) + BatchWorst = BatchWorst * Cardinality(S)
<1>1. /\ Cardinality(S \ {b}) \in Nat /\ BatchWorst \in Nat
      /\ Cardinality(S) = Cardinality(S \ {b}) + 1
  BY Smaller, RowsNat
<1>2. \A m, n \in Nat : m * n + m = m * (n + 1)
  OBVIOUS
<1> QED BY <1>1, <1>2

\* Reserved, of the rows S and what runs hold.
Booked(S, h) == BatchWorst * Cardinality(S) + Total(h, Runs)

LEMMA BookedNat ==
  ASSUME LlmAssumption, NEW S \in SUBSET Ids, NEW h \in [Runs -> {0, Worst, BatchWorst}]
  PROVE  Booked(S, h) \in Nat
<1>1. Total(h, Runs) \in Nat /\ BatchWorst * Cardinality(S) \in Nat
  BY HeldNat, RowsNat
<1> QED BY <1>1 DEF Booked

Holding(h, r, w) == [h EXCEPT ![r] = w]

LEMMA BookedChange ==
  ASSUME LlmAssumption, NEW S \in SUBSET Ids, NEW h \in [Runs -> {0, Worst, BatchWorst}],
         NEW r \in Runs, NEW w \in {0, Worst, BatchWorst}
  PROVE  Booked(S, Holding(h, r, w)) + h[r] = Booked(S, h) + w
<1> DEFINE g == Holding(h, r, w)
<1>0. g = [h EXCEPT ![r] = w]
  BY DEF Holding
<1> HIDE DEF g
<1>1. g \in [Runs -> {0, Worst, BatchWorst}]
  BY <1>0
<1>2. Total(g, Runs) + h[r] = Total(h, Runs) + w
  BY <1>0, HeldChange
<1>3. /\ Total(h, Runs) \in Nat /\ Total(g, Runs) \in Nat /\ h[r] \in Nat
      /\ w \in Nat /\ BatchWorst * Cardinality(S) \in Nat
  BY <1>1, HeldNat, RowsNat DEF LlmAssumption
<1>4. Booked(S, g) + h[r] = Booked(S, h) + w
  BY <1>2, <1>3 DEF Booked
<1> QED BY <1>4 DEF g

LEMMA BookedGone ==
  ASSUME LlmAssumption, NEW S \in SUBSET Ids, NEW h \in [Runs -> {0, Worst, BatchWorst}],
         NEW b \in S
  PROVE  Booked(S \ {b}, h) + BatchWorst = Booked(S, h)
<1>1. BatchWorst * Cardinality(S \ {b}) + BatchWorst = BatchWorst * Cardinality(S)
  BY RowGone
<1>2. /\ BatchWorst * Cardinality(S \ {b}) \in Nat /\ BatchWorst * Cardinality(S) \in Nat
      /\ BatchWorst \in Nat /\ Total(h, Runs) \in Nat
  BY HeldNat, RowsNat
<1> QED BY <1>1, <1>2 DEF Booked

LEMMA ReservedIs ==
  /\ Reserved = Booked(Rows, held) /\ Reserved' = Booked(Rows', held')
BY DEF Reserved, Booked

\* The batch a provider accepts next is a new one, after all others.
LEMMA NewIdIs ==
  ASSUME LlmAssumption, TypeInv, NumbersAgree, NEW b \in NewId
  PROVE  b \in Ids /\ batch[b].state = "none" /\ ~batch[b].row /\ \A c \in Accepted : c < b
<1>1. Cardinality(Accepted) \in Nat /\ b = Cardinality(Accepted) + 1 /\ b \in Ids
  BY RowsNat DEF NewId, Accepted
<1>2. \A c \in Accepted : c \in Nat /\ c <= Cardinality(Accepted)
  BY DEF NumbersAgree, Accepted, LlmAssumption
<1>3. \A c \in Accepted : c < b
  BY <1>1, <1>2
<1>4. b \notin Accepted
  BY <1>1, <1>2
<1> QED BY <1>1, <1>3, <1>4 DEF Accepted, TypeInv, BatchTypes, BatchAgrees, NoBatch

\* What a submission and its end do to the batches.
Submission(r, b, parks) ==
  [NoBatch EXCEPT !.run = r, !.at = now, !.state = "running", !.row = TRUE, !.parked = parks]

LEMMA NumbersStep ==
  ASSUME LlmAssumption, TypeInv, NumbersAgree, [Next]_vars
  PROVE  NumbersAgree'
<1>t. batch \in [Ids -> BatchRow]
  BY DEF TypeInv, BatchTypes
<1>k. ASSUME Accepted' = Accepted PROVE NumbersAgree'
  BY <1>k DEF NumbersAgree
<1>u. UNCHANGED batch => Accepted' = Accepted
  BY DEF Accepted
<1>e. ASSUME NEW b \in Ids, batch[b].state # "none", NEW row, row.state # "none",
             batch' = [batch EXCEPT ![b] = row]
      PROVE  Accepted' = Accepted
  BY <1>t, <1>e DEF Accepted
<1>1. ASSUME NEW r \in Runs, RunStep(r) PROVE NumbersAgree'
  <2>1. CASE NoProvider(r) \/ Resume(r) \/ Call(r)
    BY <1>k, <1>u, <2>1 DEF NoProvider, Resume, Call, Ends, Hold
  <2>2. CASE RunBatched(r)
    <3>1. ASSUME RowsOf(r) # {}, batch' = [batch EXCEPT ![Newest(RowsOf(r))].parked = TRUE]
          PROVE  Accepted' = Accepted
      <4>1. PICK b \in Ids : b = Newest(RowsOf(r)) /\ batch[b].row
        BY <3>1, NewestRow DEF Rows
      <4>2. batch' = [batch EXCEPT ![b].parked = TRUE]
        BY <3>1, <4>1
      <4> QED BY <1>t, <4>1, <4>2 DEF Accepted, BatchRow
    <3>2. \/ UNCHANGED batch
          \/ RowsOf(r) # {} /\ batch' = [batch EXCEPT ![Newest(RowsOf(r))].parked = TRUE]
      BY <2>2, RunBatchedIs DEF Ends, Hold
    <3> QED BY <1>k, <1>u, <3>1, <3>2
  <2>3. CASE \/ \E usd \in 0 .. Worst, answer \in {"good", "truncated", "unusable"} : CallReturns(r, usd, answer)
             \/ \E retryable \in BOOLEAN : CallFails(r, retryable)
             \/ \E why \in {"stop", "cancel", "timeout"} : CallCutOff(r, why) \/ SubmitFails(r, why)
    BY <1>k, <1>u, <2>3 DEF CallReturns, CallFails, CallCutOff, SubmitFails
  <2>4. ASSUME NEW b \in Ids, NEW parks \in BOOLEAN, Submitted(r, b, parks) PROVE NumbersAgree'
    <3>1. b \in NewId /\ batch' = [batch EXCEPT ![b] = Submission(r, b, parks)]
      BY <2>4 DEF Submitted, Submission
    <3>2. batch[b].state = "none" /\ Accepted' = Accepted \cup {b} /\ b \notin Accepted
      BY <1>t, <3>1, NewIdIs DEF Accepted, Submission, NoBatch
    <3>3. /\ IsFiniteSet(Accepted) /\ Cardinality(Accepted) \in Nat
          /\ b = Cardinality(Accepted) + 1
      BY <3>1, RowsNat DEF Accepted, NewId
    <3>4. Cardinality(Accepted') = Cardinality(Accepted) + 1
      BY <3>2, <3>3, FS_AddElement
    <3>5. \A c \in Accepted : c \in Nat /\ c <= Cardinality(Accepted)
      BY DEF NumbersAgree, Accepted, LlmAssumption
    <3>6. \A c \in Accepted' : c <= Cardinality(Accepted')
      BY <3>2, <3>3, <3>4, <3>5
    <3> QED BY <3>6 DEF NumbersAgree
  <2> QED BY <1>1, <2>1, <2>2, <2>3, <2>4 DEF RunStep
<1>2. ASSUME NEW b \in Ids, BatchStep(b) PROVE NumbersAgree'
  <2>r. b \in pass => batch[b].state # "none"
    BY DEF TypeInv, BatchTypes, BatchAgrees, Rows
  <2>1. Accepted' = Accepted
    BY <1>2, <1>t, <2>r DEF BatchStep, ProviderEnds, SettleBatch, PollAgain, Polled, Accepted, Outcomes, BatchRow
  <2> QED BY <1>k, <2>1
<1>3. CASE StartPass \/ StopPass \/ Tick \/ Crash \/ UNCHANGED vars
  BY <1>3, <1>k, <1>u DEF StartPass, StopPass, Tick, Crash, vars
<1> QED BY <1>1, <1>2, <1>3 DEF Next

LEMMA CapStep ==
  ASSUME LlmAssumption, TypeInv, TypeInv', NumbersAgree, CapOvershootsByOneCall, [Next]_vars
  PROVE  CapOvershootsByOneCall'
<1>t. /\ LedgerTypes /\ LedgerTypes' /\ now \in 0 .. MaxTime /\ batch \in [Ids -> BatchRow]
      /\ held \in [Runs -> {0, Worst, BatchWorst}] /\ held' \in [Runs -> {0, Worst, BatchWorst}]
      /\ Rows \subseteq Ids /\ Rows' \subseteq Ids
      /\ \A r \in Runs :
           /\ status[r] = "busy" => began[r] \in Days
           /\ status[r] # "busy" => held[r] = 0
           /\ status[r] = "busy" => held[r] = (IF r \in CallRuns THEN Worst ELSE BatchWorst)
  BY DEF TypeInv, LedgerTypes, RunTypes, RunAgrees, BatchTypes, Rows
<1>d. PICK d \in Days : d = Day(now) /\ d \in Nat
  BY <1>t, DayFacts
<1>n. Cap \in Nat /\ Worst \in Nat /\ BatchWorst \in Nat /\ Worst > 0 /\ BatchWorst > 0
  BY DEF LlmAssumption
<1>x. PICK sum \in Nat, old \in Nat, new \in Nat :
        sum = SumSince(d) /\ old = Reserved /\ new = Reserved'
  <2>1. SumSince(d) \in Nat
    BY <1>t, <1>d, SumFacts
  <2>2. Booked(Rows, held) \in Nat /\ Booked(Rows', held') \in Nat
    BY <1>t, BookedNat
  <2> QED BY <2>1, <2>2, ReservedIs
<1>c. sum + old < Cap + Worst
  BY <1>d, <1>x DEF CapOvershootsByOneCall
<1>p. ASSUME NEW m \in Nat, SumSince(Day(now))' = m, m + new < Cap + Worst
      PROVE  CapOvershootsByOneCall'
  BY <1>p, <1>x DEF CapOvershootsByOneCall
<1>q. UNCHANGED <<now, spent>> => SumSince(Day(now))' = sum
  BY <1>d, <1>x DEF SumSince
<1>k. ASSUME UNCHANGED <<now, spent>>, new <= old PROVE CapOvershootsByOneCall'
  <2>1. sum + new < Cap + Worst
    BY <1>k, <1>n, <1>c
  <2> QED BY <1>k, <1>q, <1>p, <2>1
<1>u. UNCHANGED <<held, batch>> => new <= old
  BY <1>x DEF Reserved, Rows
<1>g. \A r \in Runs : held[r] \in Nat
  BY <1>t, HeldNat
<1>m. ASSUME NEW r \in Runs, NEW w \in {0, Worst, BatchWorst}, Rows' = Rows,
             held' = [held EXCEPT ![r] = w]
      PROVE  new + held[r] = old + w
  <2>1. Rows \in SUBSET Ids /\ held \in [Runs -> {0, Worst, BatchWorst}] /\ held' = Holding(held, r, w)
    BY <1>t, <1>m DEF Holding
  <2>2. Booked(Rows, Holding(held, r, w)) + held[r] = Booked(Rows, held) + w
    BY <2>1, BookedChange
  <2> QED BY <1>m, <1>x, <2>1, <2>2, ReservedIs
<1>h. ASSUME NEW r \in Runs, status[r] # "busy", NEW w \in {Worst, BatchWorst}, Hold(r, w),
             UNCHANGED <<now, spent>>, sum + old + w < Cap + Worst
      PROVE  CapOvershootsByOneCall'
  <2>1. held' = [held EXCEPT ![r] = w] /\ Rows' = Rows /\ held[r] = 0
    BY <1>h, <1>t DEF Hold, Rows
  <2>2. new + held[r] = old + w /\ w \in Nat
    BY <1>n, <1>m, <2>1
  <2>3. new = old + w
    BY <1>n, <2>1, <2>2
  <2>4. sum + new < Cap + Worst
    BY <1>h, <1>n, <2>2, <2>3
  <2> QED BY <1>h, <1>q, <1>p, <2>4
<1>s. ASSUME NEW r \in Runs, NEW e \in Days, NEW usd \in Nat, Settle(r, e, usd), UNCHANGED now,
             new + usd <= old
      PROVE  CapOvershootsByOneCall'
  <2>1. SumSince(d)' = SumSince(d) + IF d <= e THEN usd ELSE 0
    BY <1>t, <1>d, <1>s, SettleSums
  <2>2. SumSince(Day(now))' = SumSince(d)'
    BY <1>s, <1>d DEF SumSince
  <2>3. PICK m \in Nat : m = SumSince(Day(now))' /\ m <= sum + usd
    BY <1>x, <2>1, <2>2
  <2>4. m + new < Cap + Worst
    BY <1>s, <1>n, <1>c, <2>3
  <2> QED BY <2>3, <2>4, <1>p
<1>r. ASSUME NEW r \in Runs, Release(r), Rows' = Rows PROVE new + held[r] = old
  <2>1. held' = [held EXCEPT ![r] = 0]
    BY <1>r DEF Release
  <2>2. PICK z \in {0, Worst, BatchWorst} : z = 0
    OBVIOUS
  <2>3. new + held[r] = old + z
    BY <1>m, <1>r, <2>1, <2>2
  <2> QED BY <1>n, <2>2, <2>3
<1>b. UNCHANGED batch => Rows' = Rows
  BY DEF Rows
<1>1. ASSUME NEW r \in Runs, RunStep(r) PROVE CapOvershootsByOneCall'
  <2>1. CASE NoProvider(r) \/ Resume(r)
    BY <1>k, <1>u, <2>1 DEF NoProvider, Resume, Ends
  <2>2. CASE Call(r)
    <3>1. CASE Refused(r, Worst)
      BY <1>k, <1>u, <2>2, <3>1 DEF Call, Ends
    <3>2. CASE ~Refused(r, Worst)
      <4>1. sum + old < Cap /\ status[r] # "busy" /\ Hold(r, Worst) /\ UNCHANGED <<now, spent>>
        BY <1>d, <1>n, <1>x, <2>2, <3>2 DEF Refused, Call, Ready
      <4>2. sum + old + Worst < Cap + Worst
        BY <1>n, <4>1
      <4> QED BY <1>h, <4>1, <4>2
    <3> QED BY <3>1, <3>2
  <2>3. CASE RunBatched(r)
    <3>1. UNCHANGED <<now, spent>> /\ status[r] # "busy"
      BY <2>3, RunBatchedIs DEF Ready
    <3>2. ASSUME ~BatchRefused(r), Hold(r, BatchWorst) PROVE CapOvershootsByOneCall'
      <4>1. sum + old + BatchWorst <= Cap
        BY <1>d, <1>n, <1>x, <3>2 DEF BatchRefused
      <4>2. sum + old + BatchWorst < Cap + Worst
        BY <1>n, <4>1
      <4> QED BY <1>h, <3>1, <3>2, <4>2
    <3>3. ASSUME RowsOf(r) # {}, batch' = [batch EXCEPT ![Newest(RowsOf(r))].parked = TRUE],
                 UNCHANGED held
          PROVE  CapOvershootsByOneCall'
      <4>1. PICK b \in Ids : b = Newest(RowsOf(r))
        BY <3>3, NewestRow
      <4>2. Rows' = Rows
        BY <1>t, <3>3, <4>1 DEF Rows, BatchRow
      <4> QED BY <1>k, <1>n, <3>1, <3>3, <4>2, <1>x, ReservedIs
    <3>4. \/ UNCHANGED <<held, batch>>
          \/ /\ RowsOf(r) # {} /\ UNCHANGED held
             /\ batch' = [batch EXCEPT ![Newest(RowsOf(r))].parked = TRUE]
          \/ ~BatchRefused(r) /\ Hold(r, BatchWorst)
      BY <2>3, RunBatchedIs DEF Ends
    <3> QED BY <1>k, <1>u, <3>1, <3>2, <3>3, <3>4
  <2>4. ASSUME NEW usd \in 0 .. Worst, NEW answer \in {"good", "truncated", "unusable"},
               CallReturns(r, usd, answer)
        PROVE  CapOvershootsByOneCall'
    <3>1. /\ held[r] = Worst /\ began[r] \in Days /\ Settle(r, began[r], usd) /\ UNCHANGED now
          /\ usd \in Nat /\ usd <= Worst /\ new + held[r] = old
      BY <2>4, <1>t, <1>r, <1>b, <1>n DEF CallReturns
    <3>2. new + usd <= old
      BY <1>n, <3>1
    <3> QED BY <1>s, <3>1, <3>2
  <2>5. ASSUME NEW why \in {"stop", "cancel", "timeout"}, CallCutOff(r, why)
        PROVE  CapOvershootsByOneCall'
    <3>1. /\ held[r] = Worst /\ began[r] \in Days /\ Settle(r, began[r], Worst) /\ UNCHANGED now
          /\ new + held[r] = old
      BY <2>5, <1>t, <1>r, <1>b DEF CallCutOff, CutOff
    <3>2. new + Worst <= old /\ Worst \in Nat
      BY <1>n, <3>1
    <3> QED BY <1>s, <3>1, <3>2
  <2>6. CASE \/ \E retryable \in BOOLEAN : CallFails(r, retryable)
             \/ \E why \in {"stop", "cancel", "timeout"} : SubmitFails(r, why)
    <3>1. UNCHANGED <<now, spent>> /\ new + held[r] = old
      BY <2>6, <1>r, <1>b DEF CallFails, SubmitFails, CutOff
    <3>2. held[r] \in Nat
      BY <1>t, <1>n
    <3> QED BY <1>k, <1>n, <3>1, <3>2
  <2>7. ASSUME NEW b \in Ids, NEW parks \in BOOLEAN, Submitted(r, b, parks) PROVE CapOvershootsByOneCall'
    <3>1. /\ b \in NewId /\ batch' = [batch EXCEPT ![b] = Submission(r, b, parks)]
          /\ held' = [held EXCEPT ![r] = 0] /\ UNCHANGED <<now, spent>>
          /\ r \in BatchRuns /\ status[r] = "busy"
      BY <2>7 DEF Submitted, Submission, Release
    <3>2. held[r] = BatchWorst
      BY <1>t, <3>1 DEF LlmAssumption
    <3>3. b \in Rows' /\ Rows = Rows' \ {b}
      BY <1>t, <3>1, NewIdIs DEF Rows, Submission, NoBatch
    <3>4. Booked(Rows, held') + held[r] = Booked(Rows, held) + 0
      <4>1. PICK z \in {0, Worst, BatchWorst} : z = 0
        OBVIOUS
      <4>2. /\ Rows \in SUBSET Ids /\ held \in [Runs -> {0, Worst, BatchWorst}]
            /\ held' = Holding(held, r, z)
        BY <1>t, <3>1, <4>1 DEF Holding
      <4>3. Booked(Rows, Holding(held, r, z)) + held[r] = Booked(Rows, held) + z
        BY <4>2, BookedChange
      <4> QED BY <4>1, <4>2, <4>3
    <3>5. Booked(Rows' \ {b}, held') + BatchWorst = Booked(Rows', held')
      BY <1>t, <3>3, BookedGone
    <3>f. Booked(Rows, held') \in Nat
      BY <1>t, BookedNat
    <3>6. new = old
      BY <1>n, <1>x, <3>2, <3>3, <3>4, <3>5, <3>f, ReservedIs
    <3> QED BY <1>k, <1>n, <3>1, <3>6
  <2> QED BY <1>1, <2>1, <2>2, <2>3, <2>4, <2>5, <2>6, <2>7 DEF RunStep
<1>2. ASSUME NEW b \in Ids, BatchStep(b) PROVE CapOvershootsByOneCall'
  <2>r. Polled(b) => b \in Rows
    BY DEF Polled, TypeInv, BatchTypes
  <2>g. ASSUME b \in Rows, Rows' = Rows \ {b}, UNCHANGED held PROVE new + BatchWorst = old
    <3>1. Booked(Rows \ {b}, held) + BatchWorst = Booked(Rows, held)
      BY <1>t, <2>g, BookedGone
    <3> QED BY <1>x, <2>g, <3>1, ReservedIs
  <2>1. ASSUME NEW usd \in 0 .. BatchWorst, SettleBatch(b, usd) PROVE CapOvershootsByOneCall'
    <3>1. b \in Rows /\ Rows' = Rows \ {b} /\ UNCHANGED held /\ UNCHANGED now
      BY <1>t, <2>r, <2>1 DEF SettleBatch, Rows, runVars, BatchRow
    <3>2. new + BatchWorst = old
      BY <2>g, <3>1
    <3>3. batch[b].run \in Runs
      BY <3>1 DEF Rows, TypeInv, BatchTypes, BatchAgrees, Runs
    <3>4. CASE NoSpend
      <4>1. new <= old
        BY <1>n, <3>2
      <4> QED BY <1>k, <3>1, <3>4, <4>1 DEF NoSpend
    <3>5. CASE Settle(batch[b].run, Day(now), usd)
      <4>1. usd \in Nat /\ new + usd <= old
        BY <1>n, <3>2
      <4> QED BY <1>s, <1>d, <3>1, <3>3, <3>5, <4>1
    <3> QED BY <2>1, <3>4, <3>5 DEF SettleBatch
  <2>2. ASSUME NEW failed \in BOOLEAN, PollAgain(b, failed) PROVE CapOvershootsByOneCall'
    <3>1. b \in Rows /\ (Rows' = Rows \/ Rows' = Rows \ {b}) /\ UNCHANGED <<now, spent, held>>
      BY <1>t, <2>r, <2>2 DEF PollAgain, Rows, runVars, BatchRow
    <3>2. CASE Rows' = Rows
      <4>1. new <= old
        BY <1>n, <3>1, <3>2, <1>x, ReservedIs
      <4> QED BY <1>k, <3>1, <4>1
    <3>3. CASE Rows' = Rows \ {b}
      <4>1. new + BatchWorst = old
        BY <2>g, <3>1, <3>3
      <4>2. new <= old
        BY <1>n, <4>1
      <4> QED BY <1>k, <3>1, <4>2
    <3> QED BY <3>1, <3>2, <3>3
  <2>3. ASSUME NEW outcome \in Outcomes, ProviderEnds(b, outcome) PROVE CapOvershootsByOneCall'
    <3>1. Rows' = Rows /\ UNCHANGED <<now, spent, held>>
      BY <1>t, <2>3 DEF ProviderEnds, Rows, runVars, BatchRow
    <3> QED BY <1>k, <1>n, <3>1, <1>x, ReservedIs
  <2> QED BY <1>2, <2>1, <2>2, <2>3 DEF BatchStep
<1>3. CASE StartPass \/ StopPass \/ UNCHANGED vars
  BY <1>3, <1>k, <1>u DEF StartPass, StopPass, vars, runVars
<1>4. CASE Tick
  <2>1. now' = now + 1 /\ now' \in 0 .. MaxTime /\ UNCHANGED <<spent, held, batch>>
    BY <1>4, <1>t DEF Tick, runVars, LedgerTypes
  <2>2. PICK e \in Nat : e = Day(now')
    BY <2>1, DayFacts
  <2>3. d <= e
    <3>1. \A m \in Nat, n \in Nat \ {0} : m \div n <= (m + 1) \div n
      OBVIOUS
    <3> QED BY <1>d, <1>t, <2>1, <2>2, <3>1 DEF Day, LlmAssumption
  <2>4. PICK m \in Nat : m = SumSince(e) /\ m <= sum
    BY <1>t, <1>d, <1>x, <2>3, SumFacts
  <2>5. SumSince(Day(now))' = SumSince(e)
    BY <2>1, <2>2 DEF SumSince, Day
  <2>6. new <= old
    BY <1>u, <2>1
  <2>7. m + new < Cap + Worst
    BY <1>n, <1>c, <2>4, <2>6
  <2> QED BY <1>p, <2>4, <2>5, <2>7
<1>5. CASE Crash
  <2>1. held' = [r \in Runs |-> 0] /\ Rows' = Rows /\ UNCHANGED <<now, spent>>
    BY <1>5 DEF Crash, Rows
  <2>2. Total(held', Runs) = 0
    BY <2>1, TotalZero DEF LlmAssumption
  <2>3. Total(held, Runs) \in Nat /\ BatchWorst * Cardinality(Rows) \in Nat
    BY <1>t, HeldNat, RowsNat
  <2>4. new <= old
    BY <2>1, <2>2, <2>3, <1>x, ReservedIs DEF Booked
  <2> QED BY <1>k, <2>1, <2>4
<1> QED BY <1>1, <1>2, <1>3, <1>4, <1>5 DEF Next

-----------------------------------------------------------------------------
(***************************************************************************)
(* What runs wait for                                                      *)
(***************************************************************************)

LEMMA WaitFacts ==
  ASSUME LlmAssumption, TypeInv
  PROVE  /\ batch \in [Ids -> BatchRow] /\ wait \in [Runs -> WaitRow] /\ status \in [Runs -> Statuses]
         /\ Ids \subseteq Nat /\ 0 \notin Ids /\ Runs = CallRuns \cup BatchRuns
         /\ \A r \in BatchRuns : r \notin CallRuns
         /\ \A b \in Accepted : b \in Ids /\ batch[b].run \in BatchRuns
         /\ \A b \in Ids : batch[b].row \/ batch[b].told => b \in Accepted
BY DEF TypeInv, RunTypes, BatchTypes, BatchAgrees, LlmAssumption, Runs, Accepted, Outcomes

LEMMA WaitInit == ASSUME LlmAssumption, Init PROVE NumbersAgree /\ WaitInv
BY DEF Init, NumbersAgree, WaitInv, WaitAgrees, BatchesAgree, Accepted, NoBatch, NoWait, LlmAssumption, Runs

\* A run that is not parked moves on, not to a submission and not to a wait.
LEMMA WaitMoves ==
  ASSUME LlmAssumption, TypeInv, WaitInv, UNCHANGED <<batch, wait>>,
         NEW r \in Runs, status[r] # "parked", NEW to, status' = [status EXCEPT ![r] = to],
         to # "parked", r \in CallRuns \/ to # "busy"
  PROVE  WaitInv'
<1>1. \A q \in BatchRuns : /\ status'[q] = "busy" => status[q] = "busy"
                           /\ status'[q] = "parked" <=> status[q] = "parked"
  BY WaitFacts
<1>2. \A q \in BatchRuns : WaitAgrees(q)'
  BY <1>1 DEF WaitInv, WaitAgrees
<1>3. Accepted' = Accepted /\ \A b \in Accepted : batch[b].run \in BatchRuns
  BY WaitFacts DEF Accepted
<1>4. BatchesAgree'
  BY <1>1, <1>3 DEF WaitInv, BatchesAgree, LastOfRun, Awaited, SameRun
<1> QED BY <1>2, <1>4 DEF WaitInv

\* No batch of a run in a submission may still be waited for.
LEMMA NothingAwaited ==
  ASSUME LlmAssumption, TypeInv, WaitInv, NEW r \in BatchRuns, Ready(r),
         ~ReadsResult(r), wait[r].outcome # "timeout", RowsOf(r) = {},
         NEW b \in Accepted, batch[b].run = r
  PROVE  ~batch[b].row /\ ~Awaited(b)
<1>1. ~batch[b].row
  BY DEF RowsOf, Rows, Accepted
<1>2. ASSUME Awaited(b) PROVE FALSE
  <2>1. wait[r].batch = b /\ b # 0
    BY <1>2, WaitFacts DEF WaitInv, BatchesAgree
  <2>2. wait[r].outcome = "matched"
    BY <2>1, WaitFacts DEF WaitInv, WaitAgrees, Ready, WaitRow, Runs
  <2>3. batch[b].told
    BY <2>1, <2>2 DEF WaitInv, WaitAgrees
  <2>4. batch[b].state \in Outcomes
    BY <2>3, WaitFacts DEF TypeInv, BatchTypes, BatchAgrees
  <2>5. batch[b].state = "succeeded"
    BY <1>2, <2>4 DEF Awaited, Failed
  <2> QED BY <2>1, <2>2, <2>5 DEF ReadsResult
<1> QED BY <1>1, <1>2

LEMMA WaitSubmits ==
  ASSUME LlmAssumption, TypeInv, WaitInv, NEW r \in BatchRuns, Ready(r),
         ~ReadsResult(r), wait[r].outcome # "timeout", RowsOf(r) = {}, Hold(r, BatchWorst)
  PROVE  WaitInv'
<1>1. /\ status' = [status EXCEPT ![r] = "busy"] /\ UNCHANGED <<wait, batch>>
      /\ status[r] # "parked" /\ r \in Runs
  BY DEF Hold, Ready, Runs
<1>2. \A q \in BatchRuns : WaitAgrees(q)'
  BY <1>1, WaitFacts DEF WaitInv, WaitAgrees
<1>3. Accepted' = Accepted
  BY <1>1 DEF Accepted
<1>4. \A b \in Accepted : batch[b].row \/ Awaited(b) => batch[b].run # r
  BY NothingAwaited
<1>5. BatchesAgree'
  BY <1>1, <1>3, <1>4, WaitFacts DEF WaitInv, BatchesAgree, LastOfRun, Awaited, SameRun
<1> QED BY <1>2, <1>5 DEF WaitInv

\* A row of the run is waited for, not submitted again.
LEMMA WaitParks ==
  ASSUME LlmAssumption, TypeInv, WaitInv, NEW r \in BatchRuns, NEW b \in Ids,
         batch[b].row, batch[b].run = r, NEW n, Park(r, b, n),
         batch' = [batch EXCEPT ![b].parked = TRUE]
  PROVE  WaitInv'
<1>w. r \in Runs /\ b \in Accepted /\ b # 0 /\ LastOfRun(b)
  BY WaitFacts DEF WaitInv, BatchesAgree
<1>1. /\ status' = [status EXCEPT ![r] = "parked"]
      /\ wait'[r].batch = b /\ wait'[r].outcome = "none"
      /\ \A q \in Runs \ {r} : wait'[q] = wait[q]
  BY <1>w, WaitFacts DEF Park
<1>2. /\ Accepted' = Accepted
      /\ \A c \in Ids : /\ batch'[c].run = batch[c].run /\ batch'[c].state = batch[c].state
                        /\ batch'[c].row = batch[c].row /\ batch'[c].told = batch[c].told
                        /\ c # b => batch'[c].parked = batch[c].parked
  BY WaitFacts DEF Accepted, BatchRow
<1>3. \A q \in BatchRuns : WaitAgrees(q)'
  <2> SUFFICES ASSUME NEW q \in BatchRuns PROVE WaitAgrees(q)'
    OBVIOUS
  <2>1. CASE q = r
    BY <1>w, <1>1, <2>1, WaitFacts DEF WaitAgrees
  <2>2. CASE q # r
    <3>1. q \in Runs /\ status'[q] = status[q] /\ wait'[q] = wait[q] /\ WaitAgrees(q)
      BY <1>1, <2>2, WaitFacts DEF WaitInv
    <3>2. wait[q].batch # 0 => batch'[wait[q].batch].told = batch[wait[q].batch].told
      BY <1>2, <3>1, WaitFacts DEF WaitRow
    <3> QED BY <3>1, <3>2 DEF WaitAgrees
  <2> QED BY <2>1, <2>2
<1>4. ASSUME NEW c \in Accepted, (batch[c].row \/ Awaited(c))'
      PROVE  LastOfRun(c)' /\ (Awaited(c)' => wait'[batch'[c].run].batch = c)
  <2>1. c \in Ids /\ batch[c].run \in Runs
    BY WaitFacts
  <2>2. batch[c].row \/ Awaited(c) \/ c = b
    BY <1>2, <1>4, <2>1 DEF Awaited
  <2>3. LastOfRun(c) /\ (c # b /\ Awaited(c) => wait[batch[c].run].batch = c)
    BY <1>w, <2>2 DEF WaitInv, BatchesAgree
  <2>4. LastOfRun(c)'
    BY <1>1, <1>2, <2>1, <2>3, WaitFacts DEF LastOfRun, SameRun
  <2>5. batch[c].run = r => c = b
    BY <1>w, <2>1, <2>3, WaitFacts DEF LastOfRun, SameRun
  <2>6. c # b /\ Awaited(c)' => Awaited(c)
    BY <1>2, <2>1 DEF Awaited
  <2> QED BY <1>1, <1>2, <2>1, <2>3, <2>4, <2>5, <2>6
<1> QED BY <1>2, <1>3, <1>4 DEF WaitInv, BatchesAgree
\* A new batch comes after all others, and none of its run is waited for.
LEMMA WaitSubmitted ==
  ASSUME LlmAssumption, TypeInv, NumbersAgree, WaitInv, NEW r \in BatchRuns, NEW b \in Ids,
         NEW parks \in BOOLEAN, Submitted(r, b, parks)
  PROVE  WaitInv'
<1>n. /\ batch[b].state = "none" /\ ~batch[b].row /\ ~batch[b].told /\ b # 0
      /\ \A c \in Accepted : c < b
  <2>1. b \in NewId
    BY DEF Submitted
  <2>2. batch[b].state = "none" /\ ~batch[b].row /\ \A c \in Accepted : c < b
    BY <2>1, NewIdIs
  <2>3. b \notin Accepted /\ b # 0
    BY <2>2, WaitFacts DEF Accepted
  <2> QED BY <2>2, <2>3, WaitFacts
<1>1. /\ r \in Runs /\ status[r] = "busy"
      /\ \A q \in Runs \ {r} : status'[q] = status[q] /\ wait'[q] = wait[q]
      /\ status'[r] # "busy" /\ (status'[r] = "parked" <=> parks)
      /\ parks => wait'[r].batch = b /\ wait'[r].outcome = "none"
      /\ ~parks => wait'[r] = wait[r]
  <2>1. r \in Runs /\ status[r] = "busy"
    BY WaitFacts DEF Submitted
  <2>2. CASE parks
    BY <2>1, <2>2, WaitFacts DEF Submitted, Park
  <2>3. CASE ~parks
    <3>1. PICK to \in AnOutcome : to = AfterFailure(r, attempt[r], TRUE)
      BY AfterFailureIs
    <3>2. status' = [status EXCEPT ![r] = to] /\ wait' = wait
      BY <2>3, <3>1 DEF Submitted
    <3> QED BY <2>1, <2>3, <3>2, WaitFacts DEF AnOutcome
  <2> QED BY <2>2, <2>3
<1>2. /\ batch'[b].run = r /\ batch'[b].state = "running" /\ batch'[b].row
      /\ \A c \in Ids \ {b} : batch'[c] = batch[c]
      /\ batch'[b].parked = parks
  BY WaitFacts DEF Submitted, NoBatch
<1>3. Accepted' = Accepted \cup {b}
  BY <1>2 DEF Accepted
<1>4. \A q \in BatchRuns : WaitAgrees(q)'
  <2> SUFFICES ASSUME NEW q \in BatchRuns PROVE WaitAgrees(q)'
    OBVIOUS
  <2>1. q \in Runs /\ WaitAgrees(q)
    BY WaitFacts DEF WaitInv
  <2>2. CASE q = r /\ parks
    BY <1>n, <1>1, <2>2 DEF WaitAgrees
  <2>3. CASE q # r \/ ~parks
    <3>1. wait'[q] = wait[q] /\ (status'[q] = "parked" <=> status[q] = "parked")
      BY <1>1, <2>1, <2>3
    <3>2. wait[q].outcome = "matched" => batch'[wait[q].batch].told
      <4>1. wait[q].batch \in Ids \cup {0}
        BY <2>1, WaitFacts DEF WaitRow
      <4> QED BY <1>n, <1>2, <2>1, <4>1 DEF WaitAgrees
    <3> QED BY <2>1, <3>1, <3>2 DEF WaitAgrees
  <2> QED BY <2>2, <2>3
<1>5. \A c \in Accepted : batch[c].run = r => ~batch[c].row /\ ~Awaited(c)
  BY <1>1 DEF WaitInv, BatchesAgree, LastOfRun
<1>6. ASSUME NEW c \in Accepted', (batch[c].row \/ Awaited(c))'
      PROVE  LastOfRun(c)' /\ (Awaited(c)' => wait'[batch'[c].run].batch = c)
  <2>1. CASE c = b
    <3>1. \A a \in Accepted' : a <= b
      BY <1>n, <1>3, WaitFacts
    <3> QED BY <1>1, <1>2, <2>1, <3>1 DEF LastOfRun, Awaited
  <2>2. CASE c # b
    <3>1. c \in Accepted /\ c \in Ids /\ batch'[c] = batch[c] /\ (batch[c].row \/ Awaited(c))
      BY <1>2, <1>3, <1>6, <2>2, WaitFacts DEF Awaited
    <3>2. batch[c].run # r /\ batch[c].run \in Runs
      BY <1>5, <3>1, WaitFacts
    <3>3. LastOfRun(c) /\ (Awaited(c) => wait[batch[c].run].batch = c)
      BY <3>1 DEF WaitInv, BatchesAgree
    <3>4. \A a \in Accepted' : SameRun(c, a)' => a \in Accepted /\ SameRun(c, a)
      BY <1>2, <1>3, <3>1, <3>2, WaitFacts DEF SameRun
    <3>5. LastOfRun(c)'
      BY <1>1, <3>1, <3>2, <3>3, <3>4 DEF LastOfRun
    <3> QED BY <1>1, <3>1, <3>2, <3>3, <3>5 DEF Awaited
  <2> QED BY <2>1, <2>2
<1> QED BY <1>4, <1>6 DEF WaitInv, BatchesAgree

LEMMA WaitResumes ==
  ASSUME LlmAssumption, TypeInv, WaitInv, NEW r \in Runs, Resume(r)
  PROVE  WaitInv'
<1>1. PICK outcome \in {"matched", "timeout"} :
        /\ outcome = "matched" => batch[wait[r].batch].told
        /\ wait' = [wait EXCEPT ![r].outcome = outcome]
  BY DEF Resume
<1>2. status[r] = "parked" /\ status' = [status EXCEPT ![r] = "resumed"] /\ UNCHANGED batch
  BY DEF Resume
<1>3. \A q \in Runs : /\ wait'[q].batch = wait[q].batch
                      /\ wait'[q].outcome = IF q = r THEN outcome ELSE wait[q].outcome
  BY <1>1, WaitFacts DEF WaitRow
<1>4. \A q \in BatchRuns : WaitAgrees(q)'
  BY <1>1, <1>2, <1>3, WaitFacts DEF WaitInv, WaitAgrees
<1>5. Accepted' = Accepted /\ \A b \in Accepted : batch[b].run \in Runs
  BY <1>2, WaitFacts DEF Accepted
<1>6. BatchesAgree'
  BY <1>2, <1>3, <1>5, WaitFacts DEF WaitInv, BatchesAgree, LastOfRun, Awaited, SameRun
<1> QED BY <1>4, <1>6 DEF WaitInv

\* What providers and the poller do to a batch leaves what is waited for as it is, or ends it.
LaterBatch(old, new) ==
  /\ new.run = old.run /\ new.parked = old.parked
  /\ new.row => old.row
  /\ old.told => new.told
  /\ old.state # "none"
  /\ new.state # old.state => old.state = "running" /\ new.state \in Outcomes

LEMMA BatchMoves ==
  ASSUME LlmAssumption, TypeInv, NEW b \in Ids, BatchStep(b)
  PROVE  /\ UNCHANGED <<status, wait>> /\ LaterBatch(batch[b], batch'[b])
         /\ \A c \in Ids \ {b} : batch'[c] = batch[c]
<1>1. batch \in [Ids -> BatchRow] /\ (b \in pass => batch[b].row /\ batch[b].state # "none")
  BY DEF TypeInv, BatchTypes, BatchAgrees, Rows
<1>2. ASSUME NEW outcome \in Outcomes, ProviderEnds(b, outcome)
      PROVE  /\ UNCHANGED <<status, wait>> /\ LaterBatch(batch[b], batch'[b])
             /\ \A c \in Ids \ {b} : batch'[c] = batch[c]
  BY <1>1, <1>2 DEF ProviderEnds, LaterBatch, BatchRow, runVars
<1>3. ASSUME NEW usd \in 0 .. BatchWorst, SettleBatch(b, usd)
      PROVE  /\ UNCHANGED <<status, wait>> /\ LaterBatch(batch[b], batch'[b])
             /\ \A c \in Ids \ {b} : batch'[c] = batch[c]
  BY <1>1, <1>3 DEF SettleBatch, Polled, LaterBatch, BatchRow, runVars
<1>4. ASSUME NEW failed \in BOOLEAN, PollAgain(b, failed)
      PROVE  /\ UNCHANGED <<status, wait>> /\ LaterBatch(batch[b], batch'[b])
             /\ \A c \in Ids \ {b} : batch'[c] = batch[c]
  BY <1>1, <1>4 DEF PollAgain, Polled, LaterBatch, BatchRow, runVars
<1> QED BY <1>2, <1>3, <1>4 DEF BatchStep

LEMMA WaitPolled ==
  ASSUME LlmAssumption, TypeInv, WaitInv, NEW b \in Ids, BatchStep(b)
  PROVE  WaitInv'
<1>1. /\ UNCHANGED <<status, wait>> /\ LaterBatch(batch[b], batch'[b])
      /\ \A c \in Ids \ {b} : batch'[c] = batch[c]
  BY BatchMoves
<1>2. Accepted' = Accepted
  BY <1>1 DEF Accepted, LaterBatch, Outcomes
<1>3. /\ \A c \in Ids : batch'[c].run = batch[c].run
      /\ \A c \in Ids : batch[c].told => batch'[c].told
      /\ \A c \in Ids : (batch[c].row \/ Awaited(c))' => batch[c].row \/ Awaited(c)
      /\ \A c \in Ids : Awaited(c)' => Awaited(c)
  BY <1>1 DEF LaterBatch, Awaited, Failed, Outcomes
<1>4. \A q \in BatchRuns : WaitAgrees(q)'
  BY <1>1, <1>3, WaitFacts DEF WaitInv, WaitAgrees, WaitRow
<1>5. BatchesAgree'
  BY <1>1, <1>2, <1>3, WaitFacts DEF WaitInv, BatchesAgree, LastOfRun, SameRun
<1> QED BY <1>4, <1>5 DEF WaitInv

\* A run waits for its last batch, the only one that may have a row or may yet succeed.
LEMMA WaitStep ==
  ASSUME LlmAssumption, TypeInv, NumbersAgree, WaitInv, [Next]_vars
  PROVE  WaitInv'
<1>1. ASSUME NEW r \in Runs, RunStep(r) PROVE WaitInv'
  <2>f. AnOutcome \subseteq {"queued", "done", "failed"}
    BY DEF AnOutcome
  <2>1. CASE NoProvider(r)
    BY <2>1, WaitMoves DEF NoProvider, Ends, Ready
  <2>2. CASE Call(r)
    <3>1. r \in CallRuns /\ status[r] # "parked" /\ UNCHANGED <<batch, wait>>
      BY <2>2 DEF Call, Ready, Ends, Hold
    <3>2. \E to \in {"failed", "busy"} : status' = [status EXCEPT ![r] = to]
      BY <2>2 DEF Call, Ends, Hold
    <3> QED BY <3>1, <3>2, WaitMoves
  <2>3. CASE RunBatched(r)
    <3>1. r \in BatchRuns /\ Ready(r) /\ status[r] # "parked"
      BY <2>3, RunBatchedIs DEF Ready
    <3>2. ASSUME NEW to \in AnOutcome, Ends(r, to) PROVE WaitInv'
      BY <2>f, <3>1, <3>2, WaitMoves DEF Ends
    <3>3. ASSUME RowsOf(r) # {}, Park(r, Newest(RowsOf(r)), Starting(r)),
                 batch' = [batch EXCEPT ![Newest(RowsOf(r))].parked = TRUE]
          PROVE  WaitInv'
      <4>1. PICK b \in Ids : b = Newest(RowsOf(r)) /\ batch[b].row /\ batch[b].run = r
        BY <3>3, NewestRow DEF Rows
      <4>2. Park(r, b, Starting(r)) /\ batch' = [batch EXCEPT ![b].parked = TRUE]
        BY <3>3, <4>1
      <4> QED BY <3>1, <4>1, <4>2, WaitParks
    <3>4. ASSUME ~ReadsResult(r), wait[r].outcome # "timeout", RowsOf(r) = {}, Hold(r, BatchWorst)
          PROVE  WaitInv'
      BY <3>1, <3>4, WaitSubmits
    <3> QED BY <2>3, <3>2, <3>3, <3>4, RunBatchedIs
  <2>4. CASE Resume(r)
    BY <2>4, WaitResumes
  <2>5. ASSUME NEW usd \in 0 .. Worst, NEW answer \in {"good", "truncated", "unusable"},
               CallReturns(r, usd, answer)
        PROVE  WaitInv'
    <3>1. \E to \in AnOutcome : status' = [status EXCEPT ![r] = to]
      BY <2>5, AfterFailureIs DEF CallReturns, AnOutcome
    <3>2. status[r] # "parked" /\ UNCHANGED <<batch, wait>>
      BY <2>5 DEF CallReturns
    <3> QED BY <2>f, <3>1, <3>2, WaitMoves
  <2>6. ASSUME NEW retryable \in BOOLEAN, CallFails(r, retryable) PROVE WaitInv'
    <3>1. \E to \in AnOutcome : status' = [status EXCEPT ![r] = to]
      BY <2>6, AfterFailureIs DEF CallFails
    <3>2. status[r] # "parked" /\ UNCHANGED <<batch, wait>>
      BY <2>6 DEF CallFails
    <3> QED BY <2>f, <3>1, <3>2, WaitMoves
  <2>7. ASSUME NEW why \in {"stop", "cancel", "timeout"}, CallCutOff(r, why) \/ SubmitFails(r, why)
        PROVE  WaitInv'
    <3>1. \E to \in AnOutcome : status' = [status EXCEPT ![r] = to]
      <4> DEFINE to == CASE why = "stop" -> "queued"
                         [] why = "cancel" -> "failed"
                         [] why = "timeout" -> AfterFailure(r, attempt[r], TRUE)
      <4>1. to \in AnOutcome
        BY AfterFailureIs DEF AnOutcome
      <4>2. status' = [status EXCEPT ![r] = to]
        BY <2>7 DEF CallCutOff, SubmitFails, CutOff
      <4> HIDE DEF to
      <4> QED BY <4>1, <4>2
    <3>2. status[r] # "parked" /\ UNCHANGED <<batch, wait>>
      BY <2>7 DEF CallCutOff, SubmitFails
    <3> QED BY <2>f, <3>1, <3>2, WaitMoves
  <2>8. ASSUME NEW b \in Ids, NEW parks \in BOOLEAN, Submitted(r, b, parks) PROVE WaitInv'
    <3>1. r \in BatchRuns
      BY <2>8 DEF Submitted
    <3> QED BY <2>8, <3>1, WaitSubmitted
  <2> QED BY <1>1, <2>1, <2>2, <2>3, <2>4, <2>5, <2>6, <2>7, <2>8 DEF RunStep
<1>2. ASSUME NEW b \in Ids, BatchStep(b) PROVE WaitInv'
  BY <1>2, WaitPolled
<1>3. CASE StartPass \/ StopPass \/ Tick \/ UNCHANGED vars
  BY <1>3 DEF StartPass, StopPass, Tick, vars, runVars,
              WaitInv, WaitAgrees, BatchesAgree, LastOfRun, Awaited, SameRun, Accepted
<1>4. CASE Crash
  <2>1. /\ UNCHANGED <<wait, batch>>
        /\ \A q \in Runs : IF status[q] = "busy" THEN status'[q] \in AnOutcome
                            ELSE status'[q] = status[q]
    BY <1>4, AfterFailureIs DEF Crash
  <2>2. \A q \in Runs : status'[q] # "busy" /\ (status'[q] = "parked" <=> status[q] = "parked")
    BY <2>1 DEF AnOutcome
  <2>3. \A q \in BatchRuns : WaitAgrees(q)'
    BY <2>1, <2>2, WaitFacts DEF WaitInv, WaitAgrees
  <2>4. Accepted' = Accepted /\ \A b \in Accepted : batch[b].run \in Runs
    BY <2>1, WaitFacts DEF Accepted
  <2>5. BatchesAgree'
    BY <2>1, <2>2, <2>4 DEF WaitInv, BatchesAgree, LastOfRun, Awaited, SameRun
  <2> QED BY <2>3, <2>5 DEF WaitInv
<1> QED BY <1>1, <1>2, <1>3, <1>4 DEF Next
-----------------------------------------------------------------------------
(***************************************************************************)
(* The properties                                                          *)
(***************************************************************************)

LEMMA LlmInvStarts == ASSUME LlmAssumption, Init PROVE LlmInv
<1>t. TypeInv /\ NumbersAgree /\ WaitInv
  BY TypeStarts, WaitInit
<1>n. Cap \in Nat \ {0} /\ Worst \in Nat \ {0} /\ BatchWorst \in Nat
  BY DEF LlmAssumption
<1>1. PICK d \in Days : d = Day(now) /\ d \in Nat
  BY <1>t, DayFacts DEF TypeInv, LedgerTypes
<1>2. \A S \in SUBSET (Runs \X Days) : Total(spent, S) = 0
  <2>1. \A k \in Runs \X Days : spent[k] = 0
    BY DEF Init
  <2> QED BY <1>t, <2>1, LedgerIsFinite, TotalZero DEF TypeInv
<1>3. \A e \in Nat : SumSince(e) = 0 /\ SpentOn(e) = 0
  BY <1>t, <1>2, SumsAre DEF TypeInv, Since, On
<1>4. Reserved = 0
  <2>1. Rows = {} /\ Cardinality(Rows) = 0
    BY FS_EmptySet DEF Init, Rows, NoBatch
  <2>2. IsFiniteSet(Runs) /\ \A r \in Runs : held[r] = 0
    BY DEF Init, LlmAssumption
  <2>3. Total(held, Runs) = 0
    BY <2>2, TotalZero
  <2> QED BY <1>n, <2>1, <2>3 DEF Reserved
<1>5. CapOvershootsByOneCall
  BY <1>n, <1>1, <1>3, <1>4 DEF CapOvershootsByOneCall
<1>6. NoSilentOverspend
  BY <1>n, <1>3 DEF NoSilentOverspend, Days
<1> QED BY <1>t, <1>5, <1>6 DEF LlmInv, SpendInv

LEMMA LlmInvStays ==
  ASSUME LlmAssumption, LlmInv, [Next]_vars
  PROVE  LlmInv'
BY TypeStep, NumbersStep, OverspendStep, CapStep, WaitStep DEF LlmInv, SpendInv

LEMMA LlmInvHolds == ASSUME LlmAssumption PROVE Spec => []LlmInv
<1>1. Init => LlmInv
  BY LlmInvStarts
<1>2. LlmInv /\ [Next]_vars => LlmInv'
  BY LlmInvStays
<1> QED BY <1>1, <1>2, PTL DEF Spec

\* The variables keep their types; a run holds a worst case exactly while its call is in flight.
THEOREM LlmTypeOK == ASSUME LlmAssumption PROVE Spec => []TypeOK
<1>1. LlmInv => TypeOK
  BY DEF LlmInv, TypeInv, LedgerTypes, RunTypes, RunAgrees, BatchTypes, TypeOK, Statuses
<1> QED BY LlmInvHolds, <1>1, PTL

\* precheck(), reserving() and settle(): concurrent calls, submissions and settlements
\* overshoot the daily cap by less than the worst case of one call.
THEOREM LlmCapHolds == ASSUME LlmAssumption PROVE Spec => []CapOvershootsByOneCall
<1>1. LlmInv => CapOvershootsByOneCall
  BY DEF LlmInv, SpendInv
<1> QED BY LlmInvHolds, <1>1, PTL

\* settle() and tripBreaker(): no day reaches the cap without its budget.exceeded.
THEOREM LlmOverspendIsTold == ASSUME LlmAssumption PROVE Spec => []NoSilentOverspend
<1>1. LlmInv => NoSilentOverspend
  BY DEF LlmInv, SpendInv
<1> QED BY LlmInvHolds, <1>1, PTL

\* runBatched(): through retries, resumes, stops and crashes a run submits a batch again
\* only after the one it waited for failed.
THEOREM LlmBatchNotRepeated == ASSUME LlmAssumption PROVE Spec => []ParkedBatchNotRepeated
<1>1. ASSUME LlmAssumption, LlmInv, NEW b \in Accepted, NEW c \in Accepted, b < c,
             batch[b].run = batch[c].run, batch[b].parked
      PROVE  batch[b].state \in Failed
  <2>1. b \in Nat /\ c \in Nat
    BY <1>1, WaitFacts DEF LlmInv
  <2>2. ~(c <= b)
    BY <1>1, <2>1
  <2>3. ~LastOfRun(b)
    BY <1>1, <2>2 DEF LastOfRun, SameRun
  <2> QED BY <1>1, <2>3 DEF LlmInv, WaitInv, BatchesAgree, Awaited
<1>2. LlmInv => ParkedBatchNotRepeated
  BY <1>1 DEF ParkedBatchNotRepeated, Failed
<1> QED BY LlmInvHolds, <1>2, PTL

-----------------------------------------------------------------------------
(***************************************************************************)
(* The refinement of BatchContract                                         *)
(***************************************************************************)

LEMMA ContractStarts == ASSUME LlmAssumption, Init PROVE Contract!Init
BY DEF Init, Contract!Init, Fate, NoBatch

\* A step that leaves fate and paid of every batch alone.
LEMMA ContractStutters ==
  ASSUME \A b \in Ids : Fate(b)' = Fate(b) /\ batch'[b].paid = batch[b].paid
  PROVE  UNCHANGED Contract!vars
BY DEF Contract!vars

LEMMA ContractStep ==
  ASSUME LlmAssumption, LlmInv, [Next]_vars
  PROVE  [Contract!Next]_(Contract!vars)
<1>t. /\ batch \in [Ids -> BatchRow] /\ \A b \in Ids : BatchAgrees(b)
      /\ \A b \in pass : batch[b].row
  BY DEF LlmInv, TypeInv, BatchTypes, Rows
<1>u. UNCHANGED batch => UNCHANGED Contract!vars
  BY ContractStutters DEF Fate
<1>1. ASSUME NEW r \in Runs, RunStep(r) PROVE [Contract!Next]_(Contract!vars)
  <2>1. CASE RunBatched(r)
    <3>1. ASSUME RowsOf(r) # {}, batch' = [batch EXCEPT ![Newest(RowsOf(r))].parked = TRUE]
          PROVE  UNCHANGED Contract!vars
      <4>1. PICK b \in Ids : b = Newest(RowsOf(r))
        BY <3>1, NewestRow
      <4>2. batch' = [batch EXCEPT ![b].parked = TRUE]
        BY <3>1, <4>1
      <4> QED BY <1>t, <4>2, ContractStutters DEF Fate, BatchRow
    <3>2. \/ UNCHANGED batch
          \/ RowsOf(r) # {} /\ batch' = [batch EXCEPT ![Newest(RowsOf(r))].parked = TRUE]
      BY <2>1, RunBatchedIs DEF LlmInv, Ends, Hold
    <3> QED BY <1>u, <3>1, <3>2
  <2>2. ASSUME NEW b \in Ids, NEW parks \in BOOLEAN, Submitted(r, b, parks)
        PROVE  [Contract!Next]_(Contract!vars)
    <3>1. batch[b].state = "none"
      BY <2>2, NewIdIs DEF Submitted, LlmInv
    <3>2. batch[b] = NoBatch
      BY <1>t, <3>1 DEF BatchAgrees
    <3>3. batch' = [batch EXCEPT ![b] = Submission(r, b, parks)]
      BY <2>2 DEF Submitted, Submission
    <3>4. /\ Fate(b) = "none" /\ Fate(b)' = "inflight" /\ batch'[b].paid = batch[b].paid
          /\ \A c \in Ids \ {b} : Fate(c)' = Fate(c) /\ batch'[c].paid = batch[c].paid
      BY <1>t, <3>2, <3>3 DEF Fate, Submission, NoBatch
    <3>5. Contract!Submit(b)
      BY <3>4 DEF Contract!Submit
    <3> QED BY <3>5 DEF Contract!Next
  <2>3. CASE \/ NoProvider(r) \/ Call(r) \/ Resume(r)
             \/ \E usd \in 0 .. Worst, answer \in {"good", "truncated", "unusable"} : CallReturns(r, usd, answer)
             \/ \E retryable \in BOOLEAN : CallFails(r, retryable)
             \/ \E why \in {"stop", "cancel", "timeout"} : CallCutOff(r, why) \/ SubmitFails(r, why)
    BY <1>u, <2>3 DEF NoProvider, Call, Resume, Ends, Hold, CallReturns, CallFails, CallCutOff, SubmitFails
  <2> QED BY <1>1, <2>1, <2>2, <2>3 DEF RunStep
<1>2. ASSUME NEW b \in Ids, BatchStep(b) PROVE [Contract!Next]_(Contract!vars)
  <2>c. \A c \in Ids \ {b} : Fate(c)' = Fate(c) /\ batch'[c].paid = batch[c].paid
    BY <1>2, BatchMoves DEF LlmInv, Fate
  <2>r. Polled(b) => batch[b].row /\ ~batch[b].told /\ batch[b].paid = 0 /\ batch[b].state # "none"
    BY <1>t DEF Polled, BatchAgrees
  <2>1. ASSUME NEW outcome \in Outcomes, ProviderEnds(b, outcome) PROVE UNCHANGED Contract!vars
    <3>1. Fate(b)' = Fate(b) /\ batch'[b].paid = batch[b].paid
      BY <1>t, <2>1 DEF ProviderEnds, Fate, BatchRow, Outcomes
    <3> QED BY <2>c, <3>1, ContractStutters
  <2>2. ASSUME NEW usd \in 0 .. BatchWorst, SettleBatch(b, usd) PROVE Contract!End(b)
    <3>1. PICK n \in {0, 1} : n = IF Billed(b) THEN 1 ELSE 0
      OBVIOUS
    <3>2. Fate(b) = "inflight" /\ Fate(b)' = "ended" /\ batch'[b].paid = n
      BY <1>t, <2>r, <2>2, <3>1 DEF SettleBatch, Fate, BatchRow
    <3>3. /\ [c \in Ids |-> Fate(c)]' = [[c \in Ids |-> Fate(c)] EXCEPT ![b] = "ended"]
          /\ [c \in Ids |-> batch[c].paid]' = [[c \in Ids |-> batch[c].paid] EXCEPT ![b] = n]
      BY <2>c, <3>2
    <3> QED BY <3>2, <3>3 DEF Contract!End
  <2>3. ASSUME NEW failed \in BOOLEAN, PollAgain(b, failed)
        PROVE  Contract!Abandon(b) \/ UNCHANGED Contract!vars
    <3>1. Fate(b) = "inflight" /\ Fate(b)' \in {"inflight", "abandoned"} /\ batch'[b].paid = batch[b].paid
      BY <1>t, <2>r, <2>3 DEF PollAgain, Fate, BatchRow
    <3>2. CASE Fate(b)' = "inflight"
      BY <2>c, <3>1, <3>2, ContractStutters
    <3>3. CASE Fate(b)' = "abandoned"
      BY <2>c, <3>1, <3>3 DEF Contract!Abandon
    <3> QED BY <3>1, <3>2, <3>3
  <2> QED BY <1>2, <2>1, <2>2, <2>3 DEF BatchStep, Contract!Next
<1>3. CASE StartPass \/ StopPass \/ Tick \/ Crash \/ UNCHANGED vars
  BY <1>3, <1>u DEF StartPass, StopPass, Tick, Crash, vars
<1> QED BY <1>1, <1>2, <1>3 DEF Next

\* settleBatch() and pollBatches(): a batch ends at most once, its ledger row and its event
\* come in the step that ends it, and one given up is never paid for.
THEOREM LlmKeepsBatchContract == ASSUME LlmAssumption PROVE Spec => KeepsBatchContract
<1>1. Init => Contract!Init
  BY ContractStarts
<1>2. LlmInv /\ [Next]_vars => [Contract!Next]_(Contract!vars)
  BY ContractStep
<1> QED BY <1>1, <1>2, LlmInvHolds, PTL DEF Spec, KeepsBatchContract, Contract!Spec
=============================================================================
