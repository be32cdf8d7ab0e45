------------------------------- MODULE Output -------------------------------
(***************************************************************************)
(* What a connector prints (packages/core/src/connectors/output.ts): its   *)
(* streams arrive in chunks cut anywhere, are split into lines of bounded  *)
(* length, and share one budget of lines per window. A line past the       *)
(* budget is counted and the count reported later.                         *)
(***************************************************************************)
EXTENDS Naturals, Sequences, FiniteSets, SequencesExt

CONSTANTS
  Streams,
  Room,      \* bound: characters each stream prints
  MaxChars,  \* MAX_LINE_CHARS
  Lines      \* OUTPUT_LINES_PER_WINDOW

OutputAssumption ==
  /\ Room \in [Streams -> Nat] /\ MaxChars \in Nat \ {0} /\ Lines \in Nat \ {0}

VARIABLES
  reader,    \* per stream the line in progress: LineReader
  ended,     \* the streams that have finished
  limiter,   \* OutputLimiter, timer: one is set
  reported,  \* lines in the connector.output_dropped entries
  printed,   \* per stream, every character it printed
  lines      \* per stream, every line read and whether it was logged

vars == <<reader, ended, limiter, reported, printed, lines>>

\* A character, a carriage return; the newline ends a part.
Chars == {"c", "r", "n"}
Pieces == {<<>>, <<"c">>, <<"r">>, <<"c", "c">>, <<"c", "r">>, <<"r", "c">>}
Chunks == {<<p>> : p \in Pieces \ {<<>>}} \cup {<<p, q>> : p \in Pieces, q \in Pieces}
            \cup {<<p, <<>>, q>> : p \in Pieces, q \in {<<>>, <<"c">>}}
Empty == [buf |-> <<>>, chars |-> 0, cr |-> FALSE]

TypeOK ==
  /\ \A s \in Streams : /\ Len(reader[s].buf) <= MaxChars /\ reader[s].cr \in BOOLEAN
                        /\ reader[s].chars \in Nat /\ printed[s] \in Seq(Chars)
  /\ ended \subseteq Streams /\ reported \in Nat
  /\ limiter.used \in 0..Lines /\ limiter.dropped \in Nat /\ limiter.timer \in BOOLEAN

Init ==
  /\ reader = [s \in Streams |-> Empty] /\ ended = {} /\ reported = 0
  /\ limiter = [used |-> 0, dropped |-> 0, timer |-> FALSE]
  /\ printed = [s \in Streams |-> <<>>] /\ lines = [s \in Streams |-> <<>>]

-----------------------------------------------------------------------------
Cut(text) == SubSeq(text, 1, IF Len(text) < MaxChars THEN Len(text) ELSE MaxChars)
EndsInCr(text) == text # <<>> /\ Last(text) = "r"

\* take: an empty part leaves the carriage return before it in force.
CrAfter(r, part) == IF part = <<>> THEN r.cr ELSE EndsInCr(part)
\* Mutant: an empty part forgets the carriage return before it.
CrOfPart(r, part) == EndsInCr(part)
Cr(r, part) == CrAfter(r, part)

Take(r, part) ==
  [buf |-> Cut(r.buf \o part), chars |-> r.chars + Len(part), cr |-> Cr(r, part)]

\* flush: the line handed on, without its carriage return, and its length before the cut.
Flushed(r) ==
  LET chars == r.chars - (IF r.cr THEN 1 ELSE 0)
  IN [line |-> IF Len(r.buf) > chars THEN SubSeq(r.buf, 1, chars) ELSE r.buf, chars |-> chars]

\* push: a chunk is its parts, a newline between each and the next.
Pushed(r, chunk) ==
  FoldLeft(LAMBDA a, part :
             [reader |-> Take(Empty, part), out |-> Append(a.out, Flushed(a.reader))],
           [reader |-> Take(r, Head(chunk)), out |-> <<>>], Tail(chunk))

\* report and allow, for one line; fresh: the clock says that a new window begins.
Report(a) == [a EXCEPT !.dropped = 0, !.timer = FALSE, !.reported = @ + a.dropped]

Allow(a, line, fresh) ==
  LET used == IF fresh THEN 0 ELSE a.used
      entry(ok) == [line |-> line.line, chars |-> line.chars, logged |-> ok]
  IN IF used >= Lines
       THEN [a EXCEPT !.used = used, !.dropped = @ + 1, !.timer = TRUE,
                      !.lines = Append(@, entry(FALSE))]
       ELSE [Report(a) EXCEPT !.used = used + 1, !.lines = Append(@, entry(TRUE))]

\* The lines of one chunk, read at one time: a new window begins with the first or not at all.
Handed(s, out, fresh) ==
  FoldLeft(LAMBDA a, i : Allow(a, out[i], fresh /\ i = 1),
           [used |-> limiter.used, dropped |-> limiter.dropped, timer |-> limiter.timer,
            reported |-> reported, lines |-> lines[s]],
           [i \in DOMAIN out |-> i])

Settled(s, a) ==
  /\ limiter' = [used |-> a.used, dropped |-> a.dropped, timer |-> a.timer]
  /\ reported' = a.reported /\ lines' = [lines EXCEPT ![s] = a.lines]

Text(chunk) == FoldLeft(LAMBDA t, part : t \o <<"n">> \o part, Head(chunk), Tail(chunk))

Data(s, chunk, fresh) ==
  /\ s \notin ended /\ Len(printed[s]) + Len(Text(chunk)) <= Room[s]
  /\ LET p == Pushed(reader[s], chunk)
     IN reader' = [reader EXCEPT ![s] = p.reader] /\ Settled(s, Handed(s, p.out, fresh))
  /\ printed' = [printed EXCEPT ![s] = @ \o Text(chunk)] /\ UNCHANGED ended

\* finish, at the end or the close of the stream: the unterminated line, then the drops.
LastLine(r) == IF r.chars > 0 THEN <<Flushed(r)>> ELSE <<>>
LastReport(a) == Report(a)
\* Mutant: a stream ends without the drops being reported.
NoLastReport(a) == a
Closing(a) == LastReport(a)

Finish(s, fresh) ==
  /\ s \notin ended /\ ended' = ended \cup {s}
  /\ reader' = [reader EXCEPT ![s] = Empty]
  /\ Settled(s, Closing(Handed(s, LastLine(reader[s]), fresh)))
  /\ UNCHANGED printed

\* The timer of the first drop in a window.
TimerFires ==
  /\ limiter.timer
  /\ limiter' = [limiter EXCEPT !.timer = FALSE, !.dropped = 0]
  /\ reported' = reported + limiter.dropped
  /\ UNCHANGED <<reader, ended, printed, lines>>

Next ==
  \/ \E s \in Streams, fresh \in BOOLEAN :
       (\E chunk \in Chunks : Data(s, chunk, fresh)) \/ Finish(s, fresh)
  \/ TimerFires

Spec == Init /\ [][Next]_vars

-----------------------------------------------------------------------------
\* The lines of a text, however it came: cut at each newline, a carriage return before it
\* dropped, the last one only if it has any character.
Newlines(t) == {i \in DOMAIN t : t[i] = "n"}
LineAt(t, from, to) ==
  LET whole == SubSeq(t, from, to)
      text == IF EndsInCr(whole) THEN Front(whole) ELSE whole
  IN [line |-> Cut(text), chars |-> Len(text)]
LinesOf(t, over) ==
  LET stops == Newlines(t) \cup (IF over /\ t # <<>> /\ Last(t) # "n" THEN {Len(t) + 1} ELSE {})
      at == SetToSortSeq(stops, <)
  IN [i \in DOMAIN at |-> LineAt(t, IF i = 1 THEN 1 ELSE at[i - 1] + 1, at[i] - 1)]

\* LineReader: the lines of a stream do not depend on where its chunks were cut.
LinesAreWhole ==
  \A s \in Streams :
    [i \in DOMAIN lines[s] |-> [line |-> lines[s][i].line, chars |-> lines[s][i].chars]]
      = LinesOf(printed[s], s \in ended)

\* OutputLimiter: every line not logged is in a report, or a timer waits to report it; none
\* is left when the streams have ended.
DropsAreReported ==
  LET unlogged(s) == Cardinality({i \in DOMAIN lines[s] : ~lines[s][i].logged})
  IN /\ FoldLeft(LAMBDA n, s : n + unlogged(s), 0, SetToSeq(Streams))
          = reported + limiter.dropped
     /\ limiter.dropped > 0 => limiter.timer
     /\ ended = Streams => limiter.dropped = 0
=============================================================================
