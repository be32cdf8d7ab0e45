----------------------------- MODULE Transcript -----------------------------
(***************************************************************************)
(* The transcript of an agent run (packages/core/src/actions/              *)
(* agent-transcript.ts): chunks of text are joined per kind, cut at a      *)
(* length, and written before whatever comes next. The first write that    *)
(* fails is the last one tried. A unit of text, or an entry of another     *)
(* kind, is the number of its arrival.                                     *)
(***************************************************************************)
EXTENDS Naturals, Sequences, SequencesExt

CONSTANTS
  TextMax,   \* TRANSCRIPT_TEXT_MAX
  MaxTurns,  \* bound: the prompt and its nudges
  MaxUnits   \* bound: units the session sends

TranscriptAssumption == TextMax \in Nat \ {0} /\ MaxTurns \in Nat /\ MaxUnits \in Nat

VARIABLES
  turn,
  open,      \* a turn is watched (agent.ts)
  buffered,  \* the text not written yet
  failed,
  rows,      \* the rows of the run in the store
  fed        \* the turn and kind of every unit that arrived

vars == <<turn, open, buffered, failed, rows, fed>>

Texts == {"text", "thought"}
Events == {"prompt", "event"}
Nothing == [kind |-> "none", text |-> <<>>]

TypeOK ==
  /\ turn \in 0..MaxTurns /\ open \in BOOLEAN /\ failed \in BOOLEAN
  /\ buffered.kind \in Texts \cup {"none"} /\ Len(buffered.text) <= TextMax
  /\ \A i \in DOMAIN rows : rows[i].kind \in Texts \cup Events /\ Len(rows[i].text) <= TextMax

Init ==
  /\ turn = 0 /\ open = FALSE /\ buffered = Nothing /\ failed = FALSE
  /\ rows = <<>> /\ fed = <<>>

-----------------------------------------------------------------------------
Row(kind, text) == [turn |-> turn, kind |-> kind, text |-> text]

\* flush: what is buffered, as a row of the turn it is written in.
Pending == IF buffered = Nothing THEN <<>> ELSE <<Row(buffered.kind, buffered.text)>>

\* write: the sink takes each row, or throws at one and is not asked again.
Written(new) ==
  \/ failed /\ UNCHANGED <<rows, failed>>
  \/ ~failed /\ rows' = rows \o new /\ UNCHANGED failed
  \/ /\ ~failed /\ failed' = TRUE
     /\ \E n \in 0..Len(new) - 1 : rows' = rows \o SubSeq(new, 1, n)

Heard(kind, n, t) == fed' = fed \o [i \in 1..n |-> [turn |-> t, kind |-> kind]]
Arrives(n) == [i \in 1..n |-> Len(fed) + i]

\* begin, and the turn whose updates are read. What is left of the turn before is written first.
BeginsFlushed == Pending \o <<[turn |-> turn + 1, kind |-> "prompt", text |-> Arrives(1)]>>

Begin ==
  /\ ~open /\ turn < MaxTurns /\ Len(fed) < MaxUnits
  /\ turn' = turn + 1 /\ open' = TRUE /\ buffered' = Nothing
  /\ Written(BeginsFlushed) /\ Heard("prompt", 1, turn + 1)

\* A tool call, a permission, usage, a cancel, the stop: the buffered text goes first.
BeforeEvent == Pending
\* Mutant: an entry overtakes the text that is buffered.
BeforeEventLater == <<>>
Flushes == BeforeEvent

Event ==
  /\ open /\ Len(fed) < MaxUnits
  /\ Written(Flushes \o <<Row("event", Arrives(1))>>)
  /\ buffered' = IF Flushes = <<>> THEN buffered ELSE Nothing
  /\ Heard("event", 1, turn) /\ UNCHANGED <<turn, open>>

\* chunk: joined to text of its kind; whole rows are cut off, the rest is buffered.
Chunk(kind, n) ==
  /\ open /\ Len(fed) + n <= MaxUnits
  /\ LET same == buffered.kind \in {kind, "none"}
         text == (IF same THEN buffered.text ELSE <<>>) \o Arrives(n)
         cuts == (Len(text) - 1) \div TextMax
         heads == [i \in 1..cuts |->
                     Row(kind, SubSeq(text, (i - 1) * TextMax + 1, i * TextMax))]
     IN /\ Written((IF same THEN <<>> ELSE Pending) \o heads)
        /\ buffered' = [kind |-> kind, text |-> SubSeq(text, cuts * TextMax + 1, Len(text))]
  /\ Heard(kind, n, turn) /\ UNCHANGED <<turn, open>>

\* The turn ends, answered, cancelled or broken off; runTurn flushes on every way out.
End ==
  /\ open /\ open' = FALSE /\ buffered' = Nothing /\ Written(Pending)
  /\ UNCHANGED <<turn, fed>>

\* result: the RESULT.json, once no turn is watched.
Result ==
  /\ ~open /\ turn > 0 /\ Len(fed) < MaxUnits
  /\ Written(Pending \o <<Row("event", Arrives(1))>>) /\ buffered' = Nothing
  /\ Heard("event", 1, turn) /\ UNCHANGED <<turn, open>>

Next ==
  \/ Begin \/ Event \/ End \/ Result
  \/ \E kind \in Texts, n \in 1..TextMax + 1 : Chunk(kind, n)

Spec == Init /\ [][Next]_vars

-----------------------------------------------------------------------------
Told == FlattenSeq([i \in DOMAIN rows |-> rows[i].text])

\* TranscriptWriter: the rows of a run are what its session sent, in the order it came and
\* each under its turn and kind; only a failed sink ends them early, and between turns
\* nothing waits to be written.
RowsAreSession ==
  /\ Told = [i \in 1..Len(Told) |-> i]
  /\ \A i \in DOMAIN rows : \A u \in ToSet(rows[i].text) :
       fed[u] = [turn |-> rows[i].turn, kind |-> rows[i].kind]
  /\ ~failed => Told \o buffered.text = [i \in DOMAIN fed |-> i]
  /\ ~open => buffered = Nothing
=============================================================================
