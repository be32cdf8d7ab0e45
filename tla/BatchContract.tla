--------------------------- MODULE BatchContract ---------------------------
(***************************************************************************)
(* What the language model service promises of a batch it keeps a row for  *)
(* (packages/core/src/llm/service.ts, llm/batches.ts): it ends at most     *)
(* once; llm.batch.ended and the ledger row, one per billed batch, come in *)
(* the step that ends it; an abandoned batch is never paid for.            *)
(***************************************************************************)
EXTENDS Naturals

CONSTANT Ids
VARIABLES
  fate,  \* "none", "inflight", "ended" or "abandoned"
  paid   \* the ledger rows of the batch

vars == <<fate, paid>>

Init == /\ fate = [b \in Ids |-> "none"]
        /\ paid = [b \in Ids |-> 0]

\* submitBatch() wrote its row.
Submit(b) == /\ fate[b] = "none"
             /\ fate' = [fate EXCEPT ![b] = "inflight"]
             /\ UNCHANGED paid

\* settleBatch(): billed or not.
End(b) == /\ fate[b] = "inflight"
          /\ fate' = [fate EXCEPT ![b] = "ended"]
          /\ \E n \in {0, 1} : paid' = [paid EXCEPT ![b] = n]

\* Too old: the poller gives it up.
Abandon(b) == /\ fate[b] = "inflight"
              /\ fate' = [fate EXCEPT ![b] = "abandoned"]
              /\ UNCHANGED paid

Next == \E b \in Ids : Submit(b) \/ End(b) \/ Abandon(b)
Spec == Init /\ [][Next]_vars
=============================================================================
