-------------------------------- MODULE Pop3 --------------------------------
(***************************************************************************)
(* The POP3 client of the email connector (email/src/pop3.ts, Pop3Client): *)
(* one session, whose caller sends the next command once the one before is *)
(* answered.  The server's lines come in chunks of any size, the buffer    *)
(* keeps what is not yet an answer, and a timeout, an error or the end of  *)
(* the connection may come at any time.  STLS turns the connection into a  *)
(* TLS one after the greeting.                                             *)
(***************************************************************************)
EXTENDS Naturals, Sequences

CONSTANTS
  Session,  \* the commands after the login: "single" or "multi" line answers
  MaxLines  \* bound: lines of one mail

Pop3Assumption == Session \in Seq({"single", "multi"}) /\ MaxLines \in Nat

VARIABLES
  starttls,  \* the connection is upgraded with STLS
  phase,     \* of the connection
  sent,      \* commands sent, the greeting being the answer to none
  waiter,    \* the answer waited for: none, or its kind
  wire,      \* lines on their way from the server
  buffer,
  meant,     \* what the server meant by its answer to the command just sent
  got,       \* the last answer the caller got
  owed       \* the server has the command and has not answered

vars == <<starttls, phase, sent, waiter, wire, buffer, meant, got, owed>>

Nothing == <<>>

\* Lines of a mail that begin with a dot travel with another one.
Bodies == UNION {[1 .. n -> {"text", "dot"}] : n \in 0 .. MaxLines}
Stuffed(body) == [i \in DOMAIN body |-> IF body[i] = "dot" THEN "dotdot" ELSE body[i]]

Lines == {"ok", "err", "text", "dotdot", "end", "plain"}

TypeOK ==
  /\ starttls \in BOOLEAN
  /\ phase \in {"greeting", "greeted", "stls", "handshake", "ready", "closed"}
  /\ sent \in 0 .. Len(Session) /\ waiter \in {"none", "single", "multi"} /\ owed \in BOOLEAN
  /\ wire \in Seq(Lines) /\ buffer \in Seq(Lines)

\* connect: the greeting is waited for.
Init ==
  /\ starttls \in BOOLEAN /\ phase = "greeting" /\ sent = 0 /\ waiter = "single"
  /\ wire = Nothing /\ buffer = Nothing /\ meant = Nothing /\ got = Nothing /\ owed = TRUE

-----------------------------------------------------------------------------
\* The server.

Kind == IF phase = "ready" THEN Session[sent] ELSE "single"

\* One answer to a command; before TLS a server may say more than that.
Answers ==
  /\ owed /\ owed' = FALSE
  /\ \/ meant' = <<"err">> /\ wire' = wire \o <<"err">>
     \/ Kind = "single" /\ meant' = <<"ok">> /\ wire' = wire \o <<"ok">>
     \/ /\ Kind = "multi"
        /\ \E body \in Bodies : /\ meant' = <<"ok">> \o body
                                /\ wire' = wire \o <<"ok">> \o Stuffed(body) \o <<"end">>
     \/ phase = "stls" /\ meant' = <<"ok">> /\ wire' = wire \o <<"ok", "plain">>
  /\ UNCHANGED <<starttls, phase, sent, waiter, buffer, got>>

-----------------------------------------------------------------------------
\* The client.

\* Mutant: any answer to RETR or UIDL is read up to the dot, a refusal too.
OneLineOfKind(kind, lines) == kind = "single"

\* pump: a refusal, like an answer of one line, is over with its line.
OneLine(kind, lines) == kind = "single" \/ Head(lines) = "err"

EndsAt(lines) == {i \in DOMAIN lines : lines[i] = "end"}
FirstEnd(lines) == CHOOSE i \in EndsAt(lines) : \A j \in EndsAt(lines) : i <= j

Complete(kind, lines) == lines # Nothing /\ (OneLine(kind, lines) \/ EndsAt(lines) # {})

\* How many lines the answer takes from the buffer.
Length(kind, lines) == IF OneLine(kind, lines) THEN 1 ELSE FirstEnd(lines)

\* The status line and, without the stuffing, the body.
Unstuffed(lines) == [i \in DOMAIN lines |-> IF lines[i] = "dotdot" THEN "dot" ELSE lines[i]]
AnswerOf(kind, lines) ==
  IF OneLine(kind, lines) THEN <<Head(lines)>>
  ELSE Unstuffed(SubSeq(lines, 1, FirstEnd(lines) - 1))

\* Where the connection is once an answer is there; a refusal ends the session, as QUIT does.
After(answer) ==
  IF Head(answer) = "err" THEN "closed"
  ELSE CASE phase = "greeting" -> IF starttls THEN "greeted" ELSE "ready"
         [] phase = "stls" -> "handshake"
         [] phase = "ready" -> IF sent = Len(Session) THEN "closed" ELSE "ready"

\* A chunk is in: the answer waited for is taken from the buffer once it is complete; STLS
\* drops what else is there, and so does a connection that is closed.
Receives ==
  /\ wire # Nothing /\ phase \in {"greeting", "stls", "ready"}
  /\ \E n \in 1 .. Len(wire) :
       LET lines == buffer \o SubSeq(wire, 1, n)
           rest == SubSeq(wire, n + 1, Len(wire)) IN
       IF waiter # "none" /\ Complete(waiter, lines)
       THEN LET answer == AnswerOf(waiter, lines)
                keeps == After(answer) \in {"greeted", "ready"} IN
            /\ got' = answer /\ phase' = After(answer) /\ waiter' = "none"
            /\ buffer' = IF keeps THEN SubSeq(lines, Length(waiter, lines) + 1, Len(lines))
                         ELSE Nothing
            /\ wire' = IF keeps THEN rest ELSE Nothing
       ELSE buffer' = lines /\ wire' = rest /\ UNCHANGED <<got, phase, waiter>>
  /\ UNCHANGED <<starttls, sent, meant, owed>>

Upgrades ==
  /\ phase = "greeted" /\ phase' = "stls" /\ waiter' = "single" /\ owed' = TRUE /\ got' = Nothing
  /\ UNCHANGED <<starttls, sent, wire, buffer, meant>>

\* startTls: the handshake is done, or fails on whatever the plain connection still carried.
Secures ==
  /\ phase = "handshake" /\ phase' \in {"ready", "closed"}
  /\ UNCHANGED <<starttls, sent, waiter, wire, buffer, meant, got, owed>>

\* command: written and waited for.
Sends ==
  /\ phase = "ready" /\ waiter = "none" /\ sent < Len(Session)
  /\ sent' = sent + 1 /\ waiter' = Session[sent + 1] /\ owed' = TRUE /\ got' = Nothing
  /\ UNCHANGED <<starttls, phase, wire, buffer, meant>>

\* fail: what was waited for is rejected, and nothing more is sent.
Breaks ==
  /\ phase # "closed" /\ phase' = "closed" /\ waiter' = "none" /\ owed' = FALSE
  /\ wire' = Nothing /\ buffer' = Nothing
  /\ UNCHANGED <<starttls, sent, meant, got>>

-----------------------------------------------------------------------------

Next == Answers \/ Receives \/ Upgrades \/ Secures \/ Sends \/ Breaks

Spec == Init /\ [][Next]_vars

-----------------------------------------------------------------------------

\* The answer a command gets is the server's answer to it, whole and unstuffed, however the
\* lines were cut into chunks (pump, unstuff), and never a line that came before TLS
\* (startTls): so nothing is left in the buffer between two commands.
AnswersBelong ==
  /\ got # Nothing => got = meant
  /\ waiter = "none" /\ phase # "closed" => buffer = Nothing

\* A command does not wait for an answer that is there (read, pump).
NoneWaitsForLong == waiter # "none" => ~Complete(waiter, buffer)
=============================================================================
