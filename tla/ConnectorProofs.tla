--------------------------- MODULE ConnectorProofs --------------------------
(***************************************************************************)
(* Proofs about the connectors among the parts of Services, under the same *)
(* letters and in the way of ServiceProofs.                                *)
(***************************************************************************)
EXTENDS Integers, Sequences, FiniteSets, FiniteSetTheorems, SequenceTheorems,
        WellFoundedInduction, TLAPS

CONSTANTS
  Conns, MaxConnections, MaxTries,  \* Webhook
  Apis, MaxAttempts, PerPage, Wants, Pulls, OpsItems, MaxFaults,  \* Ops
  Session, MaxLines,  \* Pop3
  Tree, Extra, Servers,  \* Ftp
  Kinds, MaxMails, MaxSeen, Limit, FailsAfterReset,  \* Mail
  Matrix, SkipHistory, Questions, Options, PendingLimit, Tries, MaxItems  \* Chat

VARIABLES
  route, post, server, conn, events, seen, tries,  \* Webhook
  op, status, attempt, waiting, handler, got, list, writes, faults,  \* Ops
  starttls, phase, sent, waiter, wire, buffer, meant, owed,  \* Pop3
  at, error, net, remote, stage, staged, todo,  \* Ftp
  kind, state, cursor, run, counted, waived, evicted,  \* Mail, and server
  timeline, core, mem, batch, asks, copy, told, excused  \* Chat, and events, stage

W == INSTANCE Webhook
O == INSTANCE Ops WITH MaxItems <- OpsItems
I == INSTANCE Pop3
F == INSTANCE Ftp
M == INSTANCE Mail
Ch == INSTANCE Chat

-----------------------------------------------------------------------------
(***************************************************************************)
(* Webhook: answers and events                                             *)
(***************************************************************************)
Places == {"free", "silent", "reading", "emitting", "answer", "written", "idle"}
Statuses == {0, 200, 202, 400, 401, 413, 422, 503}
Connections == [at : Places, fresh : BOOLEAN, heard : BOOLEAN, status : Statuses, close : BOOLEAN]

WebhookTypes ==
  /\ conn \in [Conns -> Connections] /\ events \in Nat
  /\ route \in [verify : W!Verify, dedup : BOOLEAN]
  /\ post \in [proof : {"missing", "wrong", "right"}, fresh : BOOLEAN,
               body : {"good", "large", "invalid", "refused"}]

\* What is being emitted was verified, and a 2xx is on its way only for what the core has.
AnswerInv ==
  /\ \A c \in Conns :
       /\ conn[c].at = "emitting" => route.verify = "none" \/ post.proof = "right"
       /\ conn[c].status \in {200, 202} => events > 0
  /\ W!AnswersAreTrue /\ W!EmittedIsGenuine /\ W!DrainsClean

WebhookInv == WebhookTypes /\ AnswerInv

\* Records of a connection, with fields replaced.
AnswerOf(k, s) == [k EXCEPT !.at = "answer", !.status = s]
WrittenOf(k, b) == [k EXCEPT !.at = "written", !.close = b]
UnheardOf(k) == [k EXCEPT !.heard = FALSE]
FreeAt(where) == [W!Free EXCEPT !.at = where]
CameAt(fresh) == [W!Free EXCEPT !.fresh = fresh]
TakenOf(k) == [k EXCEPT !.at = "reading"]
RefusedOf(k, s, b) == [k EXCEPT !.at = "answer", !.status = s, !.close = b]

LEMMA FreeTyped ==
  /\ W!Free \in Connections /\ W!Free.at = "free" /\ W!Free.status = 0
  /\ \A where \in Places : /\ FreeAt(where) \in Connections
                           /\ FreeAt(where).at = where /\ FreeAt(where).status = 0
<1>1. W!Free \in Connections
  BY DEF Connections, Places, Statuses, W!Free, W!NoDelivery
<1>2. W!Free.at = "free" /\ W!Free.status = 0
  BY DEF W!Free, W!NoDelivery
<1> QED BY <1>1, <1>2 DEF FreeAt, Connections

LEMMA AnswerTyped ==
  ASSUME NEW k \in Connections, NEW s \in Statuses
  PROVE  AnswerOf(k, s) \in Connections /\ AnswerOf(k, s).at = "answer" /\ AnswerOf(k, s).status = s
<1> DEFINE there == [k EXCEPT !.at = "answer"]
           r == [k EXCEPT !.at = "answer", !.status = s]
<1>1. "answer" \in Places
  BY DEF Places
<1>2. there \in Connections
  BY <1>1 DEF Connections
<1>3. [there EXCEPT !.status = s] \in Connections
  BY <1>2 DEF Connections
<1>4. r = [there EXCEPT !.status = s]
  BY DEF Connections
<1>5. r.at = "answer" /\ r.status = s
  BY DEF Connections
<1> QED BY <1>3, <1>4, <1>5 DEF AnswerOf

LEMMA PostTyped ==
  ASSUME NEW fresh \in BOOLEAN, NEW s \in Statuses, NEW b \in BOOLEAN
  PROVE  /\ TakenOf(CameAt(fresh)) \in Connections
         /\ TakenOf(CameAt(fresh)).at = "reading" /\ TakenOf(CameAt(fresh)).status = 0
         /\ RefusedOf(CameAt(fresh), s, b) \in Connections
         /\ RefusedOf(CameAt(fresh), s, b).at = "answer"
         /\ RefusedOf(CameAt(fresh), s, b).status = s
<1> DEFINE k == CameAt(fresh)
           there == [k EXCEPT !.at = "answer"]
           answered == [there EXCEPT !.status = s]
<1>1. k \in Connections /\ k.status = 0
  BY FreeTyped DEF CameAt, Connections
<1>2. "answer" \in Places /\ "reading" \in Places
  BY DEF Places
<1> HIDE DEF k
<1>3. TakenOf(k) \in Connections /\ TakenOf(k).at = "reading" /\ TakenOf(k).status = 0
  BY <1>1, <1>2 DEF TakenOf, Connections
<1>4. there \in Connections
  BY <1>1, <1>2 DEF Connections
<1>5. answered \in Connections
  BY <1>4 DEF Connections
<1>6. [answered EXCEPT !.close = b] \in Connections
  BY <1>5 DEF Connections
<1>7. RefusedOf(k, s, b) = [answered EXCEPT !.close = b]
  BY <1>1 DEF RefusedOf, Connections
<1>8. RefusedOf(k, s, b).at = "answer" /\ RefusedOf(k, s, b).status = s
  BY <1>1 DEF RefusedOf, Connections
<1> QED BY <1>3, <1>6, <1>7, <1>8 DEF k

LEMMA WrittenTyped ==
  ASSUME NEW k \in Connections, NEW b \in BOOLEAN
  PROVE  /\ WrittenOf(k, b) \in Connections
         /\ WrittenOf(k, b).at = "written" /\ WrittenOf(k, b).status = k.status
<1> DEFINE there == [k EXCEPT !.at = "written"]
           r == [k EXCEPT !.at = "written", !.close = b]
<1>1. "written" \in Places
  BY DEF Places
<1>2. there \in Connections
  BY <1>1 DEF Connections
<1>3. [there EXCEPT !.close = b] \in Connections
  BY <1>2 DEF Connections
<1>4. r = [there EXCEPT !.close = b]
  BY DEF Connections
<1>5. r.at = "written" /\ r.status = k.status
  BY DEF Connections
<1> QED BY <1>3, <1>4, <1>5 DEF WrittenOf

LEMMA UnheardTyped ==
  ASSUME NEW k \in Connections
  PROVE  /\ UnheardOf(k) \in Connections
         /\ UnheardOf(k).at = k.at /\ UnheardOf(k).status = k.status
<1>1. PICK b \in BOOLEAN : b = FALSE
  OBVIOUS
<1>2. [k EXCEPT !.heard = b] \in Connections
  BY DEF Connections
<1>3. [k EXCEPT !.heard = b].at = k.at /\ [k EXCEPT !.heard = b].status = k.status
  BY DEF Connections
<1> QED BY <1>1, <1>2, <1>3 DEF UnheardOf

LEMMA WebhookStarts == ASSUME W!Init PROVE WebhookInv
<1>1. WebhookTypes
  BY DEF W!Init, W!Free, W!NoDelivery, WebhookTypes, Connections, Places, Statuses
<1>2. AnswerInv
  BY DEF W!Init, W!Free, W!NoDelivery, W!At, AnswerInv, W!AnswersAreTrue, W!EmittedIsGenuine,
         W!DrainsClean
<1> QED BY <1>1, <1>2 DEF WebhookInv

\* What one connection's step leaves to show.
ConnectionKeeps(r) ==
  /\ r \in Connections
  /\ r.at = "emitting" => route.verify = "none" \/ post.proof = "right"
  /\ r.status \in {200, 202} => events' > 0
  /\ r.at = "idle" => server = "open"

LEMMA OneConnection ==
  ASSUME WebhookInv, NEW c \in Conns, NEW r, W!Set(c, r), ConnectionKeeps(r),
         UNCHANGED <<route, post, server>>, events' \in Nat, events' >= events,
         W!AnswersAreTrue', W!EmittedIsGenuine'
  PROVE  WebhookInv'
<1>1. conn' = [conn EXCEPT ![c] = r]
  BY DEF W!Set
<1>2. WebhookTypes'
  BY <1>1 DEF WebhookInv, WebhookTypes, ConnectionKeeps
<1>3. \A d \in Conns : conn'[d] = IF d = c THEN r ELSE conn[d]
  BY <1>1 DEF WebhookInv, WebhookTypes
<1>4. \A d \in Conns : conn'[d].at = "emitting" => route.verify = "none" \/ post.proof = "right"
  BY <1>3 DEF WebhookInv, AnswerInv, ConnectionKeeps
<1>5. \A d \in Conns : conn'[d].status \in {200, 202} => events' > 0
  BY <1>3 DEF WebhookInv, WebhookTypes, AnswerInv, ConnectionKeeps
<1>6. W!DrainsClean'
  BY <1>3 DEF WebhookInv, AnswerInv, ConnectionKeeps, W!DrainsClean, W!At
<1> QED BY <1>2, <1>4, <1>5, <1>6 DEF WebhookInv, AnswerInv

\* Senders connect, post and leave, and the body is read: no event, no answer of 2xx.
LEMMA WebhookReads ==
  ASSUME WebhookInv, NEW c \in Conns,
         W!Connects(c) \/ W!Leaves(c) \/ W!Unheard(c) \/ W!Posts(c) \/ W!AsksElse(c) \/ W!Reads(c)
  PROVE  WebhookInv'
<1>1. UNCHANGED <<route, post, server, events, seen>>
  BY DEF W!Connects, W!Leaves, W!Unheard, W!Posts, W!AsksElse, W!Reads
<1>2. events' \in Nat /\ events' >= events /\ W!AnswersAreTrue' /\ W!EmittedIsGenuine'
  BY <1>1 DEF WebhookInv, WebhookTypes, AnswerInv, W!AnswersAreTrue, W!EmittedIsGenuine
<1>3. conn[c] \in Connections
  BY DEF WebhookInv, WebhookTypes
<1>4. CASE W!Connects(c)
  <2> DEFINE r == FreeAt("silent")
  <2>1. W!Set(c, r)
    BY <1>4 DEF W!Connects, FreeAt
  <2>2. "silent" \in Places
    BY DEF Places
  <2>3. ConnectionKeeps(r)
    BY <2>2, FreeTyped DEF ConnectionKeeps
  <2> QED BY <1>1, <1>2, <2>1, <2>3, OneConnection
<1>5. CASE W!Leaves(c)
  <2>1. W!Set(c, W!Free)
    BY <1>5 DEF W!Leaves
  <2>2. ConnectionKeeps(W!Free)
    BY FreeTyped DEF ConnectionKeeps
  <2> QED BY <1>1, <1>2, <2>1, <2>2, OneConnection
<1>6. CASE W!Unheard(c)
  <2> DEFINE r == UnheardOf(conn[c])
  <2>1. W!Set(c, r)
    BY <1>6 DEF W!Unheard, UnheardOf
  <2>2. conn[c].at \in {"emitting", "answer"}
    BY <1>6 DEF W!Unheard
  <2>3. r \in Connections /\ r.at = conn[c].at /\ r.status = conn[c].status
    BY <1>3, UnheardTyped
  <2>4. ConnectionKeeps(r)
    BY <1>1, <2>2, <2>3 DEF WebhookInv, AnswerInv, ConnectionKeeps
  <2> QED BY <1>1, <1>2, <2>1, <2>4, OneConnection
<1>7. CASE W!Posts(c)
  <2>1. PICK fresh \in BOOLEAN : fresh = post.fresh
    BY DEF WebhookInv, WebhookTypes
  <2>2. PICK b \in BOOLEAN : b = TRUE
    OBVIOUS
  <2>3. PICK s \in Statuses : s = 401
    BY DEF Statuses
  <2> DEFINE taken == TakenOf(CameAt(fresh))
             refused == RefusedOf(CameAt(fresh), s, b)
  <2>4. W!Set(c, taken) \/ W!Set(c, refused)
    BY <1>7, <2>1, <2>2, <2>3 DEF W!Posts, TakenOf, CameAt, RefusedOf
  <2>5. ConnectionKeeps(taken)
    BY PostTyped DEF ConnectionKeeps
  <2>6. refused \in Connections /\ refused.at = "answer" /\ refused.status = 401
    BY <2>3, PostTyped
  <2>7. ConnectionKeeps(refused)
    BY <2>6 DEF ConnectionKeeps
  <2> QED BY <1>1, <1>2, <2>4, <2>5, <2>7, OneConnection
<1>8. CASE W!AsksElse(c)
  <2> DEFINE r == FreeAt("answer")
  <2>1. W!Set(c, r)
    BY <1>8 DEF W!AsksElse, FreeAt
  <2>2. "answer" \in Places
    BY DEF Places
  <2>3. ConnectionKeeps(r)
    BY <2>2, FreeTyped DEF ConnectionKeeps
  <2> QED BY <1>1, <1>2, <2>1, <2>3, OneConnection
<1>9. CASE W!Reads(c)
  <2>1. CASE \E code \in {400, 401, 413} : W!Answer(c, code)
    <3>1. PICK code \in {400, 401, 413} : W!Answer(c, code)
      BY <2>1
    <3> DEFINE r == AnswerOf(conn[c], code)
    <3>2. W!Set(c, r)
      BY <3>1 DEF W!Answer, AnswerOf
    <3>3. code \in Statuses
      BY DEF Statuses
    <3>4. r \in Connections /\ r.at = "answer" /\ r.status = code
      BY <1>3, <3>3, AnswerTyped
    <3>5. ConnectionKeeps(r)
      BY <3>1, <3>4 DEF ConnectionKeeps
    <3> QED BY <1>1, <1>2, <3>2, <3>5, OneConnection
  <2>2. CASE W!BodyPasses(conn[c].fresh) /\ W!Set(c, [conn[c] EXCEPT !.at = "emitting"])
    <3> DEFINE r == [conn[c] EXCEPT !.at = "emitting"]
    <3>1. route.verify = "none" \/ post.proof = "right"
      BY <2>2 DEF W!BodyPasses, W!HeadersPass, W!TokenPasses, WebhookInv, WebhookTypes, W!Verify
    <3>2. ConnectionKeeps(r)
      BY <1>1, <1>3, <3>1 DEF WebhookInv, AnswerInv, ConnectionKeeps, Connections, Places, Statuses
    <3> QED BY <1>1, <1>2, <2>2, <3>2, OneConnection
  <2> QED BY <1>9, <2>1, <2>2 DEF W!Reads
<1> QED BY <1>4, <1>5, <1>6, <1>7, <1>8, <1>9

\* A verified event is inserted, once if a header names the delivery.
LEMMA WebhookInserts ==
  ASSUME WebhookInv, route.verify = "none" \/ post.proof = "right",
         W!Inserted \/ \E n \in Nat \ {0} : W!Arrive(n),
         UNCHANGED <<route, post, seen>>
  PROVE  /\ events' \in Nat /\ events' >= events /\ events' > 0
         /\ W!AnswersAreTrue' /\ W!EmittedIsGenuine'
<1>1. events \in Nat
  BY DEF WebhookInv, WebhookTypes
<1>2. PICK n \in Nat \ {0} : W!Arrive(n)
  BY DEF W!Inserted
<1>3. \/ route.dedup /\ events > 0 /\ events' = events
      \/ ~route.dedup /\ events' = events + n
      \/ events = 0 /\ events' = 1
  BY <1>1, <1>2 DEF W!Arrive, W!Duplicate
<1>4. events' \in Nat /\ events' >= events /\ events' > 0
  BY <1>1, <1>2, <1>3
<1>5. W!AnswersAreTrue'
  BY <1>1, <1>3, <1>4 DEF WebhookInv, AnswerInv, W!AnswersAreTrue
<1> QED BY <1>4, <1>5 DEF W!EmittedIsGenuine

\* The event goes to the core, or seems not to, and the answer is written and heard.
LEMMA WebhookAnswers ==
  ASSUME WebhookInv, NEW c \in Conns,
         W!Emits(c) \/ W!CoreRefuses(c) \/ W!EmitFails(c) \/ W!Replies(c) \/ W!Finishes(c)
  PROVE  WebhookInv'
<1>1. conn[c] \in Connections /\ events \in Nat
  BY DEF WebhookInv, WebhookTypes
<1>2. W!At(c, "emitting") => route.verify = "none" \/ post.proof = "right"
  BY DEF WebhookInv, AnswerInv, W!At
<1>3. ASSUME UNCHANGED <<route, post, seen>>, UNCHANGED events
      PROVE  events' \in Nat /\ events' >= events /\ W!AnswersAreTrue' /\ W!EmittedIsGenuine'
  BY <1>1, <1>3 DEF WebhookInv, AnswerInv, W!AnswersAreTrue, W!EmittedIsGenuine
<1>4. \A code \in Statuses : W!Answer(c, code) => W!Set(c, AnswerOf(conn[c], code))
  BY DEF W!Answer, AnswerOf
<1>5. CASE W!Emits(c)
  <2>1. W!Inserted /\ UNCHANGED <<route, post, seen, server>> /\ W!At(c, "emitting")
    BY <1>5 DEF W!Emits
  <2>2. /\ events' \in Nat /\ events' >= events /\ events' > 0
        /\ W!AnswersAreTrue' /\ W!EmittedIsGenuine'
    BY <1>2, <2>1, WebhookInserts
  <2>3. PICK code \in Statuses : W!Answer(c, code)
    BY <1>5 DEF W!Emits, Statuses
  <2>4. ConnectionKeeps(AnswerOf(conn[c], code))
    BY <1>1, <2>2, AnswerTyped DEF ConnectionKeeps
  <2> QED BY <1>4, <2>1, <2>2, <2>3, <2>4, OneConnection
<1>6. CASE W!CoreRefuses(c)
  <2>1. UNCHANGED <<route, post, seen, server, events>>
    BY <1>6 DEF W!CoreRefuses
  <2>2. PICK code \in Statuses : code = 422
    BY DEF Statuses
  <2>3. W!Answer(c, code)
    BY <1>6, <2>2 DEF W!CoreRefuses
  <2>4. ConnectionKeeps(AnswerOf(conn[c], code))
    BY <1>1, <2>2, AnswerTyped DEF ConnectionKeeps
  <2> QED BY <1>3, <1>4, <2>1, <2>3, <2>4, OneConnection
<1>7. CASE W!EmitFails(c)
  <2>1. UNCHANGED <<route, post, seen, server>> /\ W!At(c, "emitting")
    BY <1>7 DEF W!EmitFails
  <2>2. events' \in Nat /\ events' >= events /\ W!AnswersAreTrue' /\ W!EmittedIsGenuine'
    BY <1>2, <1>3, <1>7, <2>1, WebhookInserts DEF W!EmitFails
  <2>3. PICK code \in Statuses : code = 503
    BY DEF Statuses
  <2>4. W!Answer(c, code)
    BY <1>7, <2>3 DEF W!EmitFails, W!CoreGone
  <2>5. ConnectionKeeps(AnswerOf(conn[c], code))
    BY <1>1, <2>3, AnswerTyped DEF ConnectionKeeps
  <2> QED BY <1>4, <2>1, <2>2, <2>4, <2>5, OneConnection
<1>8. CASE W!Replies(c)
  <2>1. UNCHANGED <<route, post, seen, server, events>>
    BY <1>8 DEF W!Replies
  <2>2. PICK b \in BOOLEAN : b = (conn[c].close \/ server # "open")
    OBVIOUS
  <2>3. W!Set(c, WrittenOf(conn[c], b))
    BY <1>8, <2>2 DEF W!Replies, WrittenOf
  <2>4. ConnectionKeeps(WrittenOf(conn[c], b))
    BY <1>1, <2>1, WrittenTyped DEF ConnectionKeeps, WebhookInv, AnswerInv
  <2> QED BY <1>3, <2>1, <2>3, <2>4, OneConnection
<1>9. CASE W!Finishes(c)
  <2>1. UNCHANGED <<route, post, server, events>>
    BY <1>9 DEF W!Finishes
  <2>2. seen' \cap {200, 202} # {} => events > 0
    BY <1>9 DEF W!Finishes, WebhookInv, AnswerInv, W!AnswersAreTrue
  <2>3. events' \in Nat /\ events' >= events /\ W!AnswersAreTrue' /\ W!EmittedIsGenuine'
    BY <1>1, <2>1, <2>2 DEF WebhookInv, AnswerInv, W!AnswersAreTrue, W!EmittedIsGenuine
  <2>4. CASE W!Set(c, W!Free)
    <3>1. ConnectionKeeps(W!Free)
      BY FreeTyped DEF ConnectionKeeps
    <3> QED BY <2>1, <2>3, <2>4, <3>1, OneConnection
  <2>5. CASE server = "open" /\ W!Set(c, FreeAt("idle"))
    <3>1. "idle" \in Places
      BY DEF Places
    <3>2. ConnectionKeeps(FreeAt("idle"))
      BY <2>5, <3>1, FreeTyped DEF ConnectionKeeps
    <3> QED BY <2>1, <2>3, <2>5, <3>2, OneConnection
  <2> QED BY <1>9, <2>4, <2>5 DEF W!Finishes, W!StaysOpen, FreeAt
<1> QED BY <1>5, <1>6, <1>7, <1>8, <1>9

\* The signature grows old; the server stops, drained or cut off, and starts again.
LEMMA WebhookStops ==
  ASSUME WebhookInv, W!Ages \/ W!Stop \/ W!CutOff \/ W!Closed \/ W!Starts
  PROVE  WebhookInv'
<1>1. CASE W!Ages
  <2>1. UNCHANGED <<route, server, conn, events, seen, tries>> /\ post'.proof = post.proof
    BY <1>1 DEF W!Ages, WebhookInv, WebhookTypes
  <2>2. WebhookTypes'
    <3>1. PICK b \in BOOLEAN : b = FALSE
      OBVIOUS
    <3>2. post' = [post EXCEPT !.fresh = b]
      BY <1>1, <3>1 DEF W!Ages
    <3> QED BY <2>1, <3>2 DEF WebhookInv, WebhookTypes
  <2> QED BY <2>1, <2>2
       DEF WebhookInv, AnswerInv, W!AnswersAreTrue, W!EmittedIsGenuine, W!DrainsClean, W!At
<1>2. CASE W!Stop
  <2>1. \A c \in Conns : conn'[c] = IF W!At(c, "idle") THEN W!Free ELSE conn[c]
    BY <1>2 DEF W!Stop
  <2>2. UNCHANGED <<route, post, events, seen>>
    BY <1>2 DEF W!Stop
  <2>3. WebhookTypes'
    BY <1>2, <2>2, FreeTyped DEF W!Stop, WebhookInv, WebhookTypes
  <2>4. W!DrainsClean'
    BY <2>1, FreeTyped DEF W!DrainsClean, W!At
  <2> QED
    BY <2>1, <2>2, <2>3, <2>4, FreeTyped
    DEF WebhookInv, AnswerInv, W!AnswersAreTrue, W!EmittedIsGenuine
<1>3. CASE W!Exits
  <2>1. conn' = [c \in Conns |-> W!Free] /\ UNCHANGED <<route, post, seen>>
    BY <1>3 DEF W!Exits
  <2>2. events' \in Nat /\ events' >= events /\ W!AnswersAreTrue' /\ W!EmittedIsGenuine'
    <3>1. CASE UNCHANGED events
      BY <2>1, <3>1 DEF WebhookInv, WebhookTypes, AnswerInv, W!AnswersAreTrue, W!EmittedIsGenuine
    <3>2. CASE W!OnTheirWay # {} /\ \E n \in Nat \ {0} : W!Arrive(n)
      <4>1. route.verify = "none" \/ post.proof = "right"
        BY <3>2 DEF W!OnTheirWay, WebhookInv, AnswerInv, W!At
      <4> QED BY <2>1, <3>2, <4>1, WebhookInserts
    <3> QED BY <1>3, <3>1, <3>2 DEF W!Exits
  <2>3. WebhookTypes'
    BY <2>1, <2>2, FreeTyped DEF WebhookInv, WebhookTypes
  <2>4. \A c \in Conns : conn'[c].at = "free" /\ conn'[c].status = 0
    BY <2>1, FreeTyped
  <2> QED BY <2>2, <2>3, <2>4 DEF WebhookInv, AnswerInv, W!DrainsClean, W!At
<1>4. CASE W!Starts
  BY <1>4 DEF W!Starts, WebhookInv, WebhookTypes, AnswerInv, W!AnswersAreTrue, W!EmittedIsGenuine,
              W!DrainsClean, W!At
<1> QED BY <1>1, <1>2, <1>3, <1>4 DEF W!CutOff, W!Closed

LEMMA WebhookInvHolds == W!Spec => []WebhookInv
<1>1. W!Init => WebhookInv
  BY WebhookStarts
<1>2. WebhookInv /\ [W!Next]_(W!vars) => WebhookInv'
  <2>1. ASSUME WebhookInv, W!Next PROVE WebhookInv'
    BY <2>1, WebhookReads, WebhookAnswers, WebhookStops DEF W!Next
  <2>2. ASSUME WebhookInv, UNCHANGED W!vars PROVE WebhookInv'
    BY <2>2 DEF WebhookInv, WebhookTypes, AnswerInv, W!AnswersAreTrue, W!EmittedIsGenuine,
                W!DrainsClean, W!At, W!vars
  <2> QED BY <2>1, <2>2
<1> QED BY <1>1, <1>2, PTL DEF W!Spec

\* A sender that heard a 2xx may forget the delivery: the core has its event, whatever was
\* retried, timed out or cut off; and a delivery a header names becomes one event at most.
THEOREM WebhookAnswersAreTrue == W!Spec => []W!AnswersAreTrue
<1>1. WebhookInv => W!AnswersAreTrue
  BY DEF WebhookInv, AnswerInv
<1> QED BY <1>1, WebhookInvHolds, PTL

\* Only what carried the right token or signature becomes an event (verify.ts).
THEOREM WebhookEmittedIsGenuine == W!Spec => []W!EmittedIsGenuine
<1>1. WebhookInv => W!EmittedIsGenuine
  BY DEF WebhookInv, AnswerInv
<1> QED BY <1>1, WebhookInvHolds, PTL

\* A stopping server keeps no connection open for a request that will not be taken.
THEOREM WebhookDrainsClean == W!Spec => []W!DrainsClean
<1>1. WebhookInv => W!DrainsClean
  BY DEF WebhookInv, AnswerInv
<1> QED BY <1>1, WebhookInvHolds, PTL

-----------------------------------------------------------------------------
(***************************************************************************)
(* Ops: a write that cannot run twice                                      *)
(***************************************************************************)
Answered == {"ok", "broken", "failed", "lastOfQuota"}
Unheard == {"none", "sent", "nothingSent", "refused", "rejected"}
Handlers == [at : Nat, request : Answered \cup Unheard]
WriteCounts == [done : Nat, late : BOOLEAN]
FaultCounts == [number : Nat, changed : BOOLEAN, quota : BOOLEAN]

OpsTypes ==
  /\ handler \in Handlers /\ writes \in WriteCounts /\ faults \in FaultCounts
  /\ waiting \in BOOLEAN

\* How often the write took effect, with the one on its way.
Effected == writes.done + (IF writes.late THEN 1 ELSE 0)
Repeatable == op.kind = "put" /\ op.api # "github"

\* The core waits for a handler that works; one it does not wait for is of a run that failed.
OpsCallInv ==
  /\ waiting => status = "running" /\ handler.at > 0
  /\ handler.at > 0 /\ ~waiting => status = "failed"
  /\ handler.at = 0 => handler.request = "none"

\* Nothing has taken effect while a handler has not sent the write or was refused, nor while
\* the run may still be tried again.
WriteInv ==
  ~Repeatable /\ ~faults.quota =>
    /\ Effected <= 1
    /\ handler.at > 0 /\ (~O!IsWrite \/ handler.request \in Unheard) => Effected = 0
    /\ handler.at = 0 /\ status = "running" => Effected = 0
    /\ handler.at > 0 /\ handler.request = "lastOfQuota" => ~O!IsWrite

OpsInv == OpsTypes /\ OpsCallInv /\ WriteInv

LEMMA OpsStarts == ASSUME O!Init PROVE OpsInv
<1>n. PICK no \in BOOLEAN : no = FALSE
  OBVIOUS
<1>1. /\ handler = [at |-> 0, request |-> "none"] /\ writes = [done |-> 0, late |-> no]
      /\ faults = [number |-> 0, changed |-> no, quota |-> no] /\ waiting = no
  BY <1>n DEF O!Init, O!Idle
<1>2. handler \in Handlers /\ handler.at = 0
  BY <1>1 DEF Handlers, Unheard
<1>3. writes \in WriteCounts /\ writes.done = 0 /\ ~writes.late
  BY <1>1, <1>n DEF WriteCounts
<1>4. faults \in FaultCounts
  BY <1>1 DEF FaultCounts
<1>5. Effected = 0
  BY <1>3 DEF Effected
<1> QED BY <1>1, <1>2, <1>3, <1>4, <1>5, <1>n DEF OpsInv, OpsTypes, OpsCallInv, WriteInv

\* A step that leaves the handler and the writes alone.
LEMMA OpsRests ==
  ASSUME OpsInv, UNCHANGED <<op, handler, writes>>, faults' \in FaultCounts,
         faults'.quota = faults.quota, waiting' \in BOOLEAN, OpsCallInv',
         status' = "running" => status = "running"
  PROVE  OpsInv'
<1>1. Effected' = Effected /\ (O!IsWrite)' = O!IsWrite /\ Repeatable' = Repeatable
  BY DEF Effected, O!IsWrite, Repeatable
<1> QED BY <1>1 DEF OpsInv, OpsTypes, WriteInv

LEMMA OpsCalls ==
  ASSUME OpsInv, O!Call \/ O!CallRefused \/ O!GivesUp \/ O!Restarts \/ O!Removed \/ O!ListChanges
  PROVE  OpsInv'
<1>1. /\ handler \in Handlers /\ writes \in WriteCounts /\ faults \in FaultCounts
      /\ waiting \in BOOLEAN /\ handler.at \in Nat /\ faults.number \in Nat
      /\ OpsCallInv /\ WriteInv
  BY DEF OpsInv, OpsTypes, Handlers, FaultCounts
<1>f. ASSUME NEW n \in Nat
      PROVE  /\ [faults EXCEPT !.number = n] \in FaultCounts
             /\ [faults EXCEPT !.number = n].quota = faults.quota
  BY <1>1 DEF FaultCounts
<1>2. CASE O!Call
  <2>n. PICK no \in BOOLEAN : no = FALSE
    OBVIOUS
  <2>1. /\ status = "running" /\ ~waiting /\ waiting' = TRUE /\ UNCHANGED <<op, status, writes>>
        /\ handler' = [at |-> 1, request |-> "none"]
        /\ faults' = [faults EXCEPT !.changed = no]
    BY <1>2, <2>n DEF O!Call
  <2>2. handler.at = 0
    BY <1>1, <2>1 DEF OpsCallInv
  <2>3. /\ handler' \in Handlers /\ handler'.at = 1 /\ handler'.request = "none"
        /\ faults' \in FaultCounts /\ faults'.quota = faults.quota
    BY <1>1, <2>1 DEF Handlers, Unheard, FaultCounts
  <2>4. Effected' = Effected /\ Repeatable' = Repeatable
    BY <2>1 DEF Effected, Repeatable
  <2> QED BY <1>1, <2>1, <2>2, <2>3, <2>4 DEF OpsInv, OpsTypes, OpsCallInv, WriteInv, Unheard
<1>3. CASE O!CallRefused
  <2>1. /\ status = "running" /\ ~waiting /\ UNCHANGED <<op, waiting, handler, writes, faults>>
    BY <1>3 DEF O!CallRefused
  <2>2. handler.at = 0
    BY <1>1, <2>1 DEF OpsCallInv
  <2> QED BY <1>1, <2>1, <2>2, OpsRests DEF OpsCallInv
<1>4. CASE O!GivesUp
  <2>1. /\ waiting /\ waiting' = FALSE /\ status' = "failed" /\ UNCHANGED <<op, handler, writes>>
        /\ faults' = [faults EXCEPT !.number = faults.number + 1]
    BY <1>1, <1>4 DEF O!GivesUp, O!Fault, O!NoAnswer, O!Fails
  <2>2. faults' \in FaultCounts /\ faults'.quota = faults.quota
    BY <1>1, <1>f, <2>1
  <2>3. waiting' \in BOOLEAN /\ OpsCallInv'
    BY <1>1, <2>1 DEF OpsCallInv
  <2> QED BY <2>1, <2>2, <2>3, OpsRests
<1>5. CASE O!Restarts
  BY <1>1, <1>5, OpsRests DEF O!Restarts, OpsCallInv
<1>6. CASE O!Removed
  <2>1. /\ UNCHANGED <<op, status, waiting, handler, writes>>
        /\ faults' = [faults EXCEPT !.number = faults.number + 1]
    BY <1>1, <1>6 DEF O!Removed, O!Fault
  <2> QED BY <1>1, <1>f, <2>1, OpsRests DEF OpsCallInv
<1>7. CASE O!ListChanges
  <2>y. PICK yes \in BOOLEAN : yes = TRUE
    OBVIOUS
  <2>1. /\ UNCHANGED <<op, status, waiting, handler, writes>>
        /\ faults' = [faults EXCEPT !.number = faults.number + 1, !.changed = yes]
    BY <1>1, <1>7, <2>y DEF O!ListChanges
  <2>2. PICK n \in Nat : n = faults.number + 1
    BY <1>1
  <2>3. faults' = [[faults EXCEPT !.number = n] EXCEPT !.changed = yes]
    BY <1>1, <2>1, <2>2 DEF FaultCounts
  <2>4. faults' \in FaultCounts /\ faults'.quota = faults.quota
    BY <1>f, <2>2, <2>3 DEF FaultCounts
  <2> QED BY <1>1, <2>1, <2>4, OpsRests DEF OpsCallInv
<1> QED BY <1>2, <1>3, <1>4, <1>5, <1>6, <1>7

\* What the service does with a request, and what the handler sees of it.
LEMMA OpsAnswers ==
  ASSUME OpsInv, NEW a \in Answered \cup Unheard,
         handler.at > 0, handler.request \in {"none", "sent"},
         handler' = [handler EXCEPT !.request = a], UNCHANGED <<op, status, waiting>>,
         writes' \in WriteCounts, faults' \in FaultCounts, faults.quota => faults'.quota,
         Effected = 0 => Effected' = 0 \/ (Effected' = 1 /\ O!IsWrite /\ a \notin Unheard),
         a = "lastOfQuota" /\ O!IsWrite => faults'.quota
  PROVE  OpsInv'
<1>1. /\ handler \in Handlers /\ handler.at \in Nat /\ Effected \in Nat
      /\ OpsCallInv /\ WriteInv
  BY DEF OpsInv, OpsTypes, Handlers, Effected, WriteCounts
<1>2. handler' \in Handlers /\ handler'.at = handler.at /\ handler'.request = a
  BY <1>1 DEF Handlers
<1>3. (O!IsWrite)' = O!IsWrite /\ Repeatable' = Repeatable
  BY <1>2 DEF O!IsWrite, Repeatable
<1>4. OpsCallInv'
  BY <1>1, <1>2 DEF OpsCallInv
<1>5. WriteInv'
  <2>1. ~Repeatable /\ ~faults.quota => Effected = 0
    BY <1>1 DEF WriteInv, Unheard
  <2> QED BY <1>1, <1>2, <1>3, <2>1 DEF WriteInv
<1> QED BY <1>2, <1>4, <1>5 DEF OpsInv, OpsTypes

LEMMA OpsServes ==
  ASSUME OpsInv,
         O!Send \/ O!Serves \/ O!TimesOut \/ \E a \in O!Answers : O!Refuses(a) \/ O!Breaks(a)
  PROVE  OpsInv'
<1>1. /\ handler \in Handlers /\ writes \in WriteCounts /\ faults \in FaultCounts
      /\ handler.at \in Nat /\ faults.number \in Nat /\ writes.done \in Nat
      /\ writes.late \in BOOLEAN
  BY DEF OpsInv, OpsTypes, Handlers, FaultCounts, WriteCounts
<1>f. ASSUME NEW n \in Nat
      PROVE  /\ [faults EXCEPT !.number = n] \in FaultCounts
             /\ [faults EXCEPT !.number = n].quota = faults.quota
  BY <1>1 DEF FaultCounts
<1>w. ASSUME NEW n \in Nat
      PROVE  /\ [writes EXCEPT !.done = n] \in WriteCounts
             /\ [writes EXCEPT !.done = n].done = n /\ [writes EXCEPT !.done = n].late = writes.late
  BY <1>1 DEF WriteCounts
<1>d. ASSUME O!Done
      PROVE  /\ writes' \in WriteCounts
             /\ Effected' = Effected \/ (Effected' = Effected + 1 /\ O!IsWrite)
  <2>1. PICK n \in {0, 1} : n = (IF O!IsWrite THEN 1 ELSE 0)
    OBVIOUS
  <2>2. writes' = [writes EXCEPT !.done = writes.done + n]
    BY <1>1, <1>d, <2>1 DEF O!Done
  <2>3. /\ writes' \in WriteCounts /\ writes'.done = writes.done + n /\ writes'.late = writes.late
    BY <1>1, <1>w, <2>2
  <2> QED BY <1>1, <2>1, <2>3 DEF Effected
<1>s. handler.request = "sent" => handler.at > 0
  BY <1>1 DEF OpsInv, OpsCallInv
<1>2. CASE O!Send
  <2>1. /\ handler.at > 0 /\ handler.request = "none"
        /\ handler' = [handler EXCEPT !.request = "sent"]
        /\ UNCHANGED <<op, status, waiting, writes, faults>>
    BY <1>2 DEF O!Send
  <2>2. Effected' = Effected /\ "sent" \in Unheard
    BY <2>1 DEF Effected, Unheard
  <2> QED BY <1>1, <2>1, <2>2, OpsAnswers
<1>3. CASE O!Serves
  <2>1. /\ handler.request = "sent" /\ handler' = [handler EXCEPT !.request = "ok"]
        /\ O!Done /\ UNCHANGED <<op, status, waiting, faults>>
    BY <1>3 DEF O!Serves, O!Answer
  <2>2. "ok" \in Answered /\ "ok" \notin Unheard
    BY DEF Answered, Unheard
  <2> QED BY <1>1, <1>d, <1>s, <2>1, <2>2, OpsAnswers
<1>4. CASE O!TimesOut
  <2>1. PICK b \in BOOLEAN : b = O!IsWrite
    BY DEF O!IsWrite
  <2>2. /\ handler.request = "sent" /\ handler' = [handler EXCEPT !.request = "broken"]
        /\ writes' = [writes EXCEPT !.late = b] /\ UNCHANGED <<op, status, waiting>>
        /\ faults' = [faults EXCEPT !.number = faults.number + 1]
    BY <1>1, <1>4, <2>1 DEF O!TimesOut, O!Answer, O!Fault
  <2>3. /\ writes' \in WriteCounts /\ writes'.done = writes.done /\ writes'.late = b
    BY <1>1, <2>2 DEF WriteCounts
  <2>4. faults' \in FaultCounts /\ faults'.quota = faults.quota
    BY <1>1, <1>f, <2>2
  <2>5. "broken" \in Answered /\ "broken" \notin Unheard
    BY DEF Answered, Unheard
  <2>6. Effected = 0 => Effected' = 0 \/ (Effected' = 1 /\ O!IsWrite)
    BY <1>1, <2>1, <2>3 DEF Effected
  <2> QED BY <1>1, <1>s, <2>2, <2>3, <2>4, <2>5, <2>6, OpsAnswers
<1>5. ASSUME NEW a \in O!Answers, O!Refuses(a) PROVE OpsInv'
  <2>1. /\ a \in Unheard /\ a # "lastOfQuota" /\ UNCHANGED <<op, status, waiting, writes>>
        /\ handler.request = "sent" /\ handler' = [handler EXCEPT !.request = a]
        /\ faults' = [faults EXCEPT !.number = faults.number + 1]
    BY <1>1, <1>5 DEF O!Refuses, O!Answer, O!Fault, Unheard
  <2>2. faults' \in FaultCounts /\ faults'.quota = faults.quota
    BY <1>1, <1>f, <2>1
  <2>3. Effected' = Effected
    BY <2>1 DEF Effected
  <2> QED BY <1>1, <1>s, <2>1, <2>2, <2>3, OpsAnswers
<1>6. ASSUME NEW a \in O!Answers, O!Breaks(a) PROVE OpsInv'
  <2>1. PICK b \in BOOLEAN : b = (faults.quota \/ (a = "lastOfQuota" /\ O!IsWrite))
    BY <1>1 DEF O!IsWrite, FaultCounts
  <2>2. PICK n \in Nat : n = faults.number + 1
    BY <1>1
  <2>3. /\ a \in {"broken", "failed", "lastOfQuota"} /\ UNCHANGED <<op, status, waiting>>
        /\ handler.request = "sent" /\ handler' = [handler EXCEPT !.request = a]
        /\ faults' = [faults EXCEPT !.number = n, !.quota = b]
        /\ O!Done \/ UNCHANGED writes
    BY <1>6, <2>1, <2>2 DEF O!Breaks, O!Answer
  <2>4. faults' = [[faults EXCEPT !.number = n] EXCEPT !.quota = b]
    BY <1>1, <2>3 DEF FaultCounts
  <2>5. faults' \in FaultCounts /\ faults'.quota = b
    BY <1>f, <2>4 DEF FaultCounts
  <2>6. /\ writes' \in WriteCounts
        /\ Effected' = Effected \/ (Effected' = Effected + 1 /\ O!IsWrite)
    BY <1>1, <1>d, <2>3 DEF Effected
  <2>7. a \in Answered /\ a \notin Unheard
    BY <2>3 DEF Answered, Unheard
  <2>8. /\ faults.quota => faults'.quota
        /\ a = "lastOfQuota" /\ O!IsWrite => faults'.quota
    BY <2>1, <2>5
  <2>9. Effected = 0 => Effected' = 0 \/ (Effected' = 1 /\ O!IsWrite)
    BY <2>6
  <2> QED BY <1>1, <1>s, <2>3, <2>5, <2>6, <2>7, <2>8, <2>9, OpsAnswers
<1> QED BY <1>2, <1>3, <1>4, <1>5, <1>6

\* The handler answers the core, which may wait no more, and is gone.
LEMMA OpsReturns ==
  ASSUME OpsInv, NEW ok \in BOOLEAN, NEW again \in BOOLEAN, O!Returns(ok, again),
         handler.at > 0, UNCHANGED <<op, writes, faults>>,
         ~ok /\ again /\ ~Repeatable /\ ~faults.quota => Effected = 0
  PROVE  OpsInv'
<1>1. /\ handler \in Handlers /\ waiting \in BOOLEAN /\ OpsCallInv /\ WriteInv
  BY DEF OpsInv, OpsTypes
<1>2. handler' = [at |-> 0, request |-> "none"] /\ waiting' = FALSE
  BY DEF O!Returns, O!Idle
<1>3. handler' \in Handlers /\ handler'.at = 0 /\ handler'.request = "none"
  BY <1>2 DEF Handlers, Unheard
<1>4. status' = "running" => ~ok /\ again
  BY <1>1 DEF O!Returns, O!Fails, OpsCallInv
<1>5. Effected' = Effected /\ Repeatable' = Repeatable
  BY DEF Effected, Repeatable
<1>6. OpsTypes'
  BY <1>2, <1>3 DEF OpsInv, OpsTypes
<1>7. OpsCallInv'
  BY <1>2, <1>3 DEF OpsCallInv
<1>8. WriteInv'
  BY <1>1, <1>3, <1>4, <1>5 DEF WriteInv
<1> QED BY <1>6, <1>7, <1>8 DEF OpsInv

\* It goes on to the next request of its op: a page, or Jira's write after the read.
LEMMA OpsGoesOn ==
  ASSUME OpsInv, O!NextRequest, handler.at > 0, ~O!IsWrite, UNCHANGED <<op, writes, faults>>
  PROVE  OpsInv'
<1>1. /\ handler \in Handlers /\ waiting \in BOOLEAN /\ OpsCallInv /\ WriteInv
      /\ handler.at \in Nat
  BY DEF OpsInv, OpsTypes, Handlers
<1>2. handler' = [at |-> handler.at + 1, request |-> "none"] /\ UNCHANGED <<status, waiting>>
  BY DEF O!NextRequest
<1>3. handler' \in Handlers /\ handler'.at = handler.at + 1 /\ handler'.request = "none"
  BY <1>1, <1>2 DEF Handlers, Unheard
<1>4. Effected' = Effected /\ Repeatable' = Repeatable
  BY DEF Effected, Repeatable
<1>5. OpsTypes' /\ OpsCallInv'
  BY <1>1, <1>2, <1>3 DEF OpsInv, OpsTypes, OpsCallInv
<1>6. WriteInv'
  BY <1>1, <1>3, <1>4 DEF WriteInv
<1> QED BY <1>5, <1>6 DEF OpsInv

LEMMA OpsTakes == ASSUME OpsInv, O!TakesOk \/ O!TakesError PROVE OpsInv'
<1>1. /\ handler \in Handlers /\ OpsCallInv /\ WriteInv
  BY DEF OpsInv, OpsTypes
<1>n. PICK no \in BOOLEAN : no = FALSE
  OBVIOUS
<1>y. PICK yes \in BOOLEAN : yes = TRUE
  OBVIOUS
<1>2. CASE O!TakesOk
  <2>1. handler.request = "ok" /\ handler.at > 0 /\ UNCHANGED <<op, writes, faults>>
    BY <1>1, <1>2 DEF O!TakesOk, OpsCallInv, Handlers
  <2>2. O!Returns(TRUE, FALSE) \/ (O!NextRequest /\ ~O!IsWrite)
    <3>1. CASE op.kind \in O!Lists
      <4>1. ~O!IsWrite
        BY <3>1 DEF O!IsWrite, O!Lists, O!Writes
      <4>2. O!Returns(TRUE, FALSE) \/ O!NextRequest
        BY <1>2, <3>1 DEF O!TakesOk
      <4> QED BY <4>1, <4>2
    <3>2. CASE op.kind \notin O!Lists
      <4>1. op.kind = "transition" /\ handler.at = 1 => ~O!IsWrite
        BY DEF O!IsWrite, O!Writes
      <4>2. IF op.kind = "transition" /\ handler.at = 1 THEN O!NextRequest
            ELSE O!Returns(TRUE, FALSE)
        BY <1>2, <3>2 DEF O!TakesOk
      <4> QED BY <4>1, <4>2
    <3> QED BY <3>1, <3>2
  <2>3. CASE O!Returns(TRUE, FALSE)
    <3>1. O!Returns(yes, no)
      BY <1>n, <1>y, <2>3
    <3> QED BY <1>n, <2>1, <3>1, OpsReturns
  <2>4. CASE O!NextRequest /\ ~O!IsWrite
    BY <2>1, <2>4, OpsGoesOn
  <2> QED BY <2>2, <2>3, <2>4
<1>3. CASE O!TakesError
  <2>1. /\ handler.request \in O!Answers \ {"ok"} /\ UNCHANGED <<op, writes, faults>>
        /\ O!Returns(FALSE, O!Transient(handler.request))
    BY <1>3 DEF O!TakesError
  <2>2. handler.at > 0
    BY <1>1, <2>1 DEF O!Answers, OpsCallInv, Handlers
  <2>3. PICK again \in BOOLEAN : again = O!Transient(handler.request)
    BY DEF O!Transient, O!TransientHttp
  <2>4. O!Returns(no, again)
    BY <1>n, <2>1, <2>3
  <2>5. ASSUME again, ~Repeatable, ~faults.quota PROVE Effected = 0
    <3>1. \/ handler.request \in {"nothingSent", "refused"}
          \/ O!IsIdempotent \/ handler.request = "lastOfQuota"
      BY <2>3, <2>5 DEF O!Transient, O!TransientHttp
    <3>2. O!IsIdempotent => ~O!IsWrite
      BY <2>5 DEF O!IsIdempotent, Repeatable
    <3> QED BY <1>1, <2>2, <2>5, <3>1, <3>2 DEF WriteInv, Unheard
  <2> QED BY <1>n, <2>1, <2>2, <2>4, <2>5, OpsReturns
<1> QED BY <1>2, <1>3

\* The process exits, and a write that left it is still on its way.
LEMMA OpsExits == ASSUME OpsInv, O!Exits \/ O!ArrivesLate PROVE OpsInv'
<1>1. /\ handler \in Handlers /\ writes \in WriteCounts /\ faults \in FaultCounts
      /\ handler.at \in Nat /\ faults.number \in Nat /\ writes.done \in Nat
      /\ writes.late \in BOOLEAN /\ OpsCallInv /\ WriteInv
  BY DEF OpsInv, OpsTypes, Handlers, FaultCounts, WriteCounts
<1>2. CASE O!Exits
  <2>1. PICK b \in BOOLEAN : b = (writes.late \/ (handler.request = "sent" /\ O!IsWrite))
    BY <1>1 DEF O!IsWrite
  <2>2. /\ handler' = [at |-> 0, request |-> "none"] /\ waiting' = FALSE /\ op' = op
        /\ writes' = [writes EXCEPT !.late = b]
        /\ faults' = [faults EXCEPT !.number = faults.number + 1]
        /\ IF waiting THEN status' = "failed" ELSE status' = status
    BY <1>1, <1>2, <2>1 DEF O!Exits, O!Fault, O!Idle, O!NoAnswer, O!Fails
  <2>3. handler' \in Handlers /\ handler'.at = 0 /\ handler'.request = "none"
    BY <2>2 DEF Handlers, Unheard
  <2>4. writes' \in WriteCounts /\ writes'.done = writes.done /\ writes'.late = b
    BY <1>1, <2>2 DEF WriteCounts
  <2>5. faults' \in FaultCounts /\ faults'.quota = faults.quota
    BY <1>1, <2>2 DEF FaultCounts
  <2>w. waiting' \in BOOLEAN /\ ~waiting'
    BY <2>2
  <2>6. OpsTypes' /\ OpsCallInv'
    BY <2>3, <2>4, <2>5, <2>w DEF OpsTypes, OpsCallInv
  <2>7. status' = "running" => handler.at = 0 /\ status = "running"
    BY <1>1, <2>2 DEF OpsCallInv
  <2>8. /\ ~(handler.request = "sent" /\ O!IsWrite) => Effected' = Effected
        /\ Effected = 0 => Effected' <= 1
    BY <1>1, <2>1, <2>4 DEF Effected
  <2>9. ASSUME ~Repeatable, ~faults.quota
        PROVE  Effected' <= 1 /\ (status' = "running" => Effected' = 0)
    <3>1. handler.request = "sent" => handler.at > 0 /\ Effected = 0
      BY <1>1, <2>9 DEF WriteInv, OpsCallInv, Unheard
    <3> QED BY <1>1, <2>7, <2>8, <2>9, <3>1 DEF WriteInv, OpsCallInv
  <2>10. WriteInv'
    BY <2>2, <2>3, <2>5, <2>9 DEF WriteInv, Repeatable
  <2> QED BY <2>6, <2>10 DEF OpsInv
<1>3. CASE O!ArrivesLate
  <2>n. PICK no \in BOOLEAN : no = FALSE
    OBVIOUS
  <2>1. /\ writes.late /\ writes' = [done |-> writes.done + 1, late |-> no]
        /\ UNCHANGED <<op, status, waiting, handler, faults>>
    BY <1>3, <2>n DEF O!ArrivesLate
  <2>2. writes' \in WriteCounts /\ writes'.done = writes.done + 1 /\ ~writes'.late
    BY <1>1, <2>1, <2>n DEF WriteCounts
  <2>3. Effected' = Effected /\ (O!IsWrite)' = O!IsWrite /\ Repeatable' = Repeatable
    BY <1>1, <2>1, <2>2 DEF Effected, O!IsWrite, Repeatable
  <2> QED BY <2>1, <2>2, <2>3 DEF OpsInv, OpsTypes, OpsCallInv, WriteInv
<1> QED BY <1>2, <1>3

LEMMA OpsInvHolds == O!Spec => []OpsInv
<1>1. O!Init => OpsInv
  BY OpsStarts
<1>2. ASSUME OpsInv, [O!Next]_(O!vars) PROVE OpsInv'
  <2>1. CASE UNCHANGED O!vars
    BY <1>2, <2>1
    DEF OpsInv, OpsTypes, OpsCallInv, WriteInv, Effected, Repeatable, O!IsWrite, O!vars
  <2> QED BY <1>2, <2>1, OpsCalls, OpsServes, OpsTakes, OpsExits DEF O!Next
<1> QED BY <1>1, <1>2, PTL DEF O!Spec

\* A write that cannot run twice takes effect once at most, over every attempt of its run and
\* with what is still on its way: whatever breaks, times out, exits or answers late, unless the
\* service reported a rate limit with an answer to a request it may have carried out.
THEOREM OpsWriteNotRepeated == O!Spec => []O!WriteNotRepeated
<1>1. OpsInv => O!WriteNotRepeated
  BY DEF OpsInv, WriteInv, Repeatable, Effected, O!WriteNotRepeated
<1> QED BY <1>1, OpsInvHolds, PTL

-----------------------------------------------------------------------------
(***************************************************************************)
(* Pop3: answers and the chunks they come in                               *)
(***************************************************************************)

\* The lines of a mail on the wire: the status, the body with its dots stuffed, and the end.
Carries(body, s) ==
  /\ Len(s) = Len(body) + 2 /\ s[1] = "ok" /\ s[Len(s)] = "end"
  /\ \A i \in 1 .. Len(body) : s[i + 1] = IF body[i] = "dot" THEN "dotdot" ELSE body[i]

\* The lines that are an answer of a kind, and what the server means by them.
Says(asked, where, m, s) ==
  \/ m = <<"err">> /\ s = <<"err">>
  \/ asked = "single" /\ m = <<"ok">> /\ s = <<"ok">>
  \/ asked = "single" /\ where = "stls" /\ m = <<"ok">> /\ s = <<"ok", "plain">>
  \/ asked = "multi" /\ \E body \in I!Bodies : m = <<"ok">> \o body /\ Carries(body, s)

\* What has come and what is to come of the answer.
Stream == buffer \o wire

Pop3Types ==
  /\ starttls \in BOOLEAN /\ owed \in BOOLEAN /\ sent \in Nat /\ sent <= Len(Session)
  /\ phase \in {"greeting", "greeted", "stls", "handshake", "ready", "closed"}
  /\ waiter \in {"none", "single", "multi"}
  /\ wire \in Seq(I!Lines) /\ buffer \in Seq(I!Lines)

\* Between two commands nothing has come and nothing will; while one is waited for, what has
\* come and what will is the server's answer to it, and it has not all come.
AnswerWay ==
  /\ waiter = "none" => buffer = <<>> /\ wire = <<>> /\ owed = FALSE
  /\ waiter # "none" =>
       /\ phase \in {"greeting", "stls", "ready"} /\ got = <<>>
       /\ phase = "ready" => sent \in 1 .. Len(Session)
       /\ waiter = I!Kind
       /\ owed = TRUE => Stream = <<>>
       /\ owed = FALSE => Says(waiter, phase, meant, Stream)
  /\ got # <<>> => got = meant

Pop3Inv == Pop3Types /\ AnswerWay /\ I!NoneWaitsForLong

LEMMA BodiesAre ==
  ASSUME I!Pop3Assumption, NEW body \in I!Bodies
  PROVE  /\ body \in Seq({"text", "dot"}) /\ I!Stuffed(body) \in Seq(I!Lines)
         /\ Len(I!Stuffed(body)) = Len(body)
         /\ \A i \in 1 .. Len(body) :
              I!Stuffed(body)[i] = IF body[i] = "dot" THEN "dotdot" ELSE body[i]
<1>1. PICK n \in 0 .. MaxLines : body \in [1 .. n -> {"text", "dot"}]
  BY DEF I!Bodies
<1>2. n \in Nat
  BY DEF I!Pop3Assumption
<1>3. body \in Seq({"text", "dot"}) /\ DOMAIN body = 1 .. n /\ Len(body) = n
  BY <1>1, <1>2
<1>4. I!Stuffed(body) \in [1 .. n -> I!Lines]
  BY <1>1, <1>3 DEF I!Stuffed, I!Lines
<1>5. I!Stuffed(body) \in Seq(I!Lines) /\ Len(I!Stuffed(body)) = n
  BY <1>2, <1>4
<1>6. \A i \in 1 .. n : I!Stuffed(body)[i] = IF body[i] = "dot" THEN "dotdot" ELSE body[i]
  BY <1>3 DEF I!Stuffed
<1> QED BY <1>3, <1>5, <1>6

\* What the server sends of a mail carries it.
LEMMA MailCarried ==
  ASSUME I!Pop3Assumption, NEW body \in I!Bodies
  PROVE  LET s == <<"ok">> \o I!Stuffed(body) \o <<"end">> IN s \in Seq(I!Lines) /\ Carries(body, s)
<1> DEFINE u == I!Stuffed(body)
           t == <<"ok">> \o u
           s == t \o <<"end">>
<1>1. u \in Seq(I!Lines) /\ Len(u) = Len(body) /\ Len(body) \in Nat
      /\ \A i \in 1 .. Len(body) : u[i] = IF body[i] = "dot" THEN "dotdot" ELSE body[i]
  BY BodiesAre
<1> HIDE DEF u
<1>2. <<"ok">> \in Seq(I!Lines) /\ <<"end">> \in Seq(I!Lines)
      /\ Len(<<"ok">>) = 1 /\ Len(<<"end">>) = 1 /\ <<"ok">>[1] = "ok" /\ <<"end">>[1] = "end"
  BY DEF I!Lines
<1>3. /\ t \in Seq(I!Lines) /\ Len(t) = Len(body) + 1 /\ t[1] = "ok"
      /\ \A i \in 1 .. Len(body) : t[i + 1] = u[i]
  BY <1>1, <1>2
<1> HIDE DEF t
<1>4. /\ s \in Seq(I!Lines) /\ Len(s) = Len(body) + 2 /\ s[Len(body) + 2] = "end"
      /\ \A i \in 1 .. Len(body) + 1 : s[i] = t[i]
  BY <1>1, <1>2, <1>3
<1> HIDE DEF s
<1>5. s[1] = "ok"
  BY <1>1, <1>3, <1>4
<1>6. \A i \in 1 .. Len(body) : s[i + 1] = u[i]
  <2>1. \A i \in 1 .. Len(body) : i + 1 \in 1 .. Len(body) + 1
    BY <1>1
  <2> QED BY <1>3, <1>4, <2>1
<1>7. Carries(body, s)
  BY <1>1, <1>4, <1>5, <1>6 DEF Carries
<1> QED BY <1>4, <1>7 DEF s, t, u

\* What one sequence after another is, line by line.
LEMMA JoinIs ==
  ASSUME NEW L, NEW u \in Seq(L), NEW v \in Seq(L)
  PROVE  /\ u \o v \in Seq(L) /\ Len(u \o v) = Len(u) + Len(v)
         /\ \A i \in 1 .. Len(u) + Len(v) :
              (u \o v)[i] = IF i <= Len(u) THEN u[i] ELSE v[i - Len(u)]
OBVIOUS

\* What taking a chunk of n lines from the wire makes of the buffer and the wire.
Moved(L, b, w, n) ==
  /\ b \o SubSeq(w, 1, n) \in Seq(L) /\ SubSeq(w, n + 1, Len(w)) \in Seq(L)
  /\ (b \o SubSeq(w, 1, n)) \o SubSeq(w, n + 1, Len(w)) = b \o w
  /\ Len(b \o SubSeq(w, 1, n)) = Len(b) + n
  /\ Len(SubSeq(w, n + 1, Len(w))) = Len(w) - n
  /\ b \o w \in Seq(L) /\ Len(b \o w) = Len(b) + Len(w)
  /\ \A i \in 1 .. Len(b) + n : (b \o SubSeq(w, 1, n))[i] = (b \o w)[i]

\* A chunk moves lines from the wire to the buffer and changes nothing of the two together.
LEMMA Chunk ==
  ASSUME NEW L, NEW b \in Seq(L), NEW w \in Seq(L), NEW n \in 1 .. Len(w)
  PROVE  Moved(L, b, w, n)
<1> DEFINE p == SubSeq(w, 1, n)
           q == SubSeq(w, n + 1, Len(w))
<1>0. Len(w) \in Nat /\ Len(b) \in Nat /\ n \in Nat /\ n >= 1 /\ n <= Len(w)
  OBVIOUS
<1>1. p \in Seq(L) /\ Len(p) = n /\ \A i \in 1 .. n : p[i] = w[i]
  BY <1>0
<1>2. q \in Seq(L) /\ Len(q) = Len(w) - n /\ \A i \in 1 .. Len(w) - n : q[i] = w[n + i]
  BY <1>0
<1>3. b \o p \in Seq(L) /\ Len(b \o p) = Len(b) + n
      /\ \A i \in 1 .. Len(b) + n : (b \o p)[i] = IF i <= Len(b) THEN b[i] ELSE p[i - Len(b)]
  BY <1>0, <1>1
<1>4. b \o w \in Seq(L) /\ Len(b \o w) = Len(b) + Len(w)
      /\ \A i \in 1 .. Len(b) + Len(w) : (b \o w)[i] = IF i <= Len(b) THEN b[i] ELSE w[i - Len(b)]
  BY <1>0
<1> DEFINE bp == b \o p
           bw == b \o w
<1> HIDE DEF p, q, bp, bw
<1>5. \A i \in 1 .. Len(b) + n : bp[i] = bw[i]
  <2> TAKE i \in 1 .. Len(b) + n
  <2>1. bp[i] = IF i <= Len(b) THEN b[i] ELSE p[i - Len(b)]
    BY <1>3 DEF bp
  <2>2. bw[i] = IF i <= Len(b) THEN b[i] ELSE w[i - Len(b)]
    BY <1>4, <1>0 DEF bw
  <2>3. ~(i <= Len(b)) => p[i - Len(b)] = w[i - Len(b)]
    BY <1>0, <1>1
  <2> QED BY <2>1, <2>2, <2>3
<1>6. bp \in Seq(L) /\ Len(bp) = Len(b) + n /\ bw \in Seq(L) /\ Len(bw) = Len(b) + Len(w)
  BY <1>3, <1>4 DEF bp, bw
<1>7. /\ bp \o q \in Seq(L) /\ Len(bp \o q) = Len(b) + Len(w)
      /\ \A i \in 1 .. Len(b) + Len(w) :
           (bp \o q)[i] = IF i <= Len(b) + n THEN bp[i] ELSE q[i - (Len(b) + n)]
  <2>0. bp \in Seq(L) /\ q \in Seq(L)
    BY <1>2, <1>6
  <2>1. /\ bp \o q \in Seq(L) /\ Len(bp \o q) = Len(bp) + Len(q)
        /\ \A i \in 1 .. Len(bp) + Len(q) :
             (bp \o q)[i] = IF i <= Len(bp) THEN bp[i] ELSE q[i - Len(bp)]
    BY <2>0, JoinIs, Zenon
  <2>2. Len(bp) + Len(q) = Len(b) + Len(w)
    BY <1>0, <1>2, <1>6
  <2> QED BY <1>6, <2>1, <2>2
<1> DEFINE bpq == bp \o q
<1> HIDE DEF bpq
<1>8. \A i \in 1 .. Len(b) + Len(w) : bpq[i] = bw[i]
  <2> TAKE i \in 1 .. Len(b) + Len(w)
  <2>1. bpq[i] = IF i <= Len(b) + n THEN bp[i] ELSE q[i - (Len(b) + n)]
    BY <1>7 DEF bpq
  <2>2. CASE i <= Len(b) + n
    BY <1>0, <1>5, <2>1, <2>2
  <2>3. CASE ~(i <= Len(b) + n)
    <3>1. i - (Len(b) + n) \in 1 .. Len(w) - n /\ n + (i - (Len(b) + n)) = i - Len(b)
      BY <1>0, <2>3
    <3>2. q[i - (Len(b) + n)] = w[i - Len(b)]
      BY <1>2, <3>1
    <3>3. bw[i] = w[i - Len(b)]
      BY <1>0, <1>4, <2>3 DEF bw
    <3> QED BY <2>1, <2>3, <3>2, <3>3
  <2> QED BY <2>2, <2>3
<1>9. bpq = bw
  BY <1>6, <1>7, <1>8 DEF bpq
<1> QED BY <1>2, <1>5, <1>6, <1>9 DEF Moved, p, q, bp, bw, bpq

\* The only end in a mail is its last line.
LEMMA EndIsLast ==
  ASSUME I!Pop3Assumption, NEW body \in I!Bodies, NEW s, Carries(body, s),
         NEW i \in 1 .. Len(s), s[i] = "end"
  PROVE  i = Len(s)
<1>1. body \in Seq({"text", "dot"}) /\ Len(body) \in Nat
  BY BodiesAre
<1>2. Len(s) = Len(body) + 2 /\ s[1] = "ok"
      /\ \A j \in 1 .. Len(body) : s[j + 1] = IF body[j] = "dot" THEN "dotdot" ELSE body[j]
  BY DEF Carries
<1>3. SUFFICES ASSUME i # Len(s) PROVE FALSE
  OBVIOUS
<1>4. i # 1
  BY <1>2
<1>5. i - 1 \in 1 .. Len(body) /\ (i - 1) + 1 = i
  BY <1>1, <1>2, <1>3, <1>4
<1>6. s[i] = IF body[i - 1] = "dot" THEN "dotdot" ELSE body[i - 1]
  BY <1>2, <1>5
<1>7. body[i - 1] \in {"text", "dot"}
  BY <1>1, <1>5
<1> QED BY <1>6, <1>7

\* Without the stuffing, the lines before the end are what the server meant.
LEMMA MailRead ==
  ASSUME I!Pop3Assumption, NEW body \in I!Bodies, NEW s \in Seq(I!Lines), Carries(body, s)
  PROVE  I!Unstuffed(SubSeq(s, 1, Len(s) - 1)) = <<"ok">> \o body
<1> DEFINE t == SubSeq(s, 1, Len(s) - 1)
           u == I!Unstuffed(t)
           m == <<"ok">> \o body
<1>1. body \in Seq({"text", "dot"}) /\ Len(body) \in Nat
  BY BodiesAre
<1>2. Len(s) = Len(body) + 2 /\ s[1] = "ok"
      /\ \A j \in 1 .. Len(body) : s[j + 1] = IF body[j] = "dot" THEN "dotdot" ELSE body[j]
  BY DEF Carries
<1>3. t \in Seq(I!Lines) /\ Len(t) = Len(body) + 1 /\ \A i \in 1 .. Len(body) + 1 : t[i] = s[i]
  BY <1>1, <1>2
<1> HIDE DEF t
<1>4. DOMAIN t = 1 .. Len(body) + 1
  BY <1>3
<1>5. u = [i \in 1 .. Len(body) + 1 |-> IF t[i] = "dotdot" THEN "dot" ELSE t[i]]
  BY <1>4 DEF I!Unstuffed
<1>6. /\ m \in Seq({"ok", "text", "dot"}) /\ Len(m) = Len(body) + 1 /\ m[1] = "ok"
      /\ \A i \in 1 .. Len(body) : m[i + 1] = body[i]
  <2>1. <<"ok">> \in Seq({"ok", "text", "dot"}) /\ Len(<<"ok">>) = 1 /\ <<"ok">>[1] = "ok"
        /\ body \in Seq({"ok", "text", "dot"})
    BY <1>1
  <2> QED BY <1>1, <2>1
<1> HIDE DEF m, u
<1>7. \A i \in 1 .. Len(body) + 1 : m[i] = IF t[i] = "dotdot" THEN "dot" ELSE t[i]
  <2> TAKE i \in 1 .. Len(body) + 1
  <2>1. t[i] = s[i]
    BY <1>3
  <2>2. CASE i = 1
    BY <1>2, <1>6, <2>1, <2>2
  <2>3. CASE i # 1
    <3>1. i - 1 \in 1 .. Len(body) /\ (i - 1) + 1 = i
      BY <1>1, <2>3
    <3>2. m[i] = body[i - 1] /\ s[i] = IF body[i - 1] = "dot" THEN "dotdot" ELSE body[i - 1]
      BY <1>2, <1>6, <3>1
    <3>3. body[i - 1] \in {"text", "dot"}
      BY <1>1, <3>1
    <3> QED BY <2>1, <3>2, <3>3
  <2> QED BY <2>2, <2>3
<1>8. m = [i \in 1 .. Len(body) + 1 |-> m[i]]
  BY <1>1, <1>6
<1> QED BY <1>5, <1>7, <1>8 DEF m, t, u

\* The answer taken from the lines is the server's, and it takes them all.
Whole(asked, where, m, s, lines) ==
  /\ I!AnswerOf(asked, lines) = m
  /\ Head(m) \in {"ok", "err"}
  /\ where # "stls" => Len(lines) = Len(s) /\ I!Length(asked, lines) = Len(lines)

\* However much of the answer has come: once it is complete, it is what the server meant, and
\* nothing of it is left, unless the server said more before TLS.
LEMMA WholeAnswer ==
  ASSUME I!Pop3Assumption, NEW asked \in {"single", "multi"}, NEW where, NEW m,
         NEW s \in Seq(I!Lines), Says(asked, where, m, s),
         NEW lines \in Seq(I!Lines), Len(lines) >= 1, Len(lines) <= Len(s),
         \A i \in 1 .. Len(lines) : lines[i] = s[i],
         I!Complete(asked, lines)
  PROVE  Whole(asked, where, m, s, lines)
<1>0. Len(lines) \in Nat /\ Len(s) \in Nat /\ Head(lines) = lines[1] /\ lines[1] = s[1]
  OBVIOUS
<1>1. CASE m = <<"err">> /\ s = <<"err">>
  <2>1. Len(s) = 1 /\ s[1] = "err" /\ Head(m) = "err"
    BY <1>1
  <2>2. Head(lines) = "err" /\ I!OneLine(asked, lines)
    BY <1>0, <2>1 DEF I!OneLine
  <2> QED BY <1>0, <1>1, <2>1, <2>2 DEF Whole, I!AnswerOf, I!Length
<1>2. CASE asked = "single" /\ m = <<"ok">> /\ s = <<"ok">>
  <2>1. Len(s) = 1 /\ s[1] = "ok" /\ Head(m) = "ok"
    BY <1>2
  <2>2. Head(lines) = "ok" /\ I!OneLine(asked, lines)
    BY <1>0, <1>2, <2>1 DEF I!OneLine
  <2> QED BY <1>0, <1>2, <2>1, <2>2 DEF Whole, I!AnswerOf, I!Length
<1>3. CASE asked = "single" /\ where = "stls" /\ m = <<"ok">> /\ s = <<"ok", "plain">>
  <2>1. s[1] = "ok" /\ Head(m) = "ok"
    BY <1>3
  <2>2. Head(lines) = "ok" /\ I!OneLine(asked, lines)
    BY <1>0, <1>3, <2>1 DEF I!OneLine
  <2> QED BY <1>0, <1>3, <2>1, <2>2 DEF Whole, I!AnswerOf
<1>4. CASE asked = "multi" /\ \E body \in I!Bodies : m = <<"ok">> \o body /\ Carries(body, s)
  <2>1. PICK body \in I!Bodies : m = <<"ok">> \o body /\ Carries(body, s)
    BY <1>4
  <2>2. body \in Seq({"text", "dot"})
    BY BodiesAre
  <2>3. Head(m) = "ok"
    BY <2>1, <2>2
  <2>4. s[1] = "ok" /\ s[Len(s)] = "end"
    BY <2>1 DEF Carries
  <2>5. ~I!OneLine(asked, lines)
    BY <1>0, <1>4, <2>4 DEF I!OneLine
  <2>6. PICK i \in I!EndsAt(lines) : TRUE
    BY <2>5 DEF I!Complete
  <2>7. i \in 1 .. Len(lines) /\ lines[i] = "end"
    BY <2>6 DEF I!EndsAt
  <2>8. i \in 1 .. Len(s) /\ s[i] = "end"
    BY <1>0, <2>7
  <2>9. i = Len(s)
    BY <2>1, <2>8, EndIsLast
  <2>10. Len(lines) = Len(s)
    BY <1>0, <2>7, <2>9
  <2>11. lines = s
    BY <2>10
  <2>12. I!EndsAt(lines) = {Len(s)}
    <3>1. \A j \in I!EndsAt(lines) : j = Len(s)
      <4> TAKE j \in I!EndsAt(lines)
      <4>1. j \in 1 .. Len(s) /\ s[j] = "end"
        BY <2>11 DEF I!EndsAt
      <4> QED BY <2>1, <4>1, EndIsLast
    <3> QED BY <2>6, <3>1
  <2>13. I!FirstEnd(lines) = Len(s)
    BY <1>0, <2>12 DEF I!FirstEnd
  <2>14. I!AnswerOf(asked, lines) = I!Unstuffed(SubSeq(s, 1, Len(s) - 1))
    BY <2>5, <2>11, <2>13 DEF I!AnswerOf
  <2>15. I!AnswerOf(asked, lines) = m
    BY <2>1, <2>14, MailRead
  <2>16. I!Length(asked, lines) = Len(lines)
    BY <2>5, <2>10, <2>13 DEF I!Length
  <2> QED BY <2>3, <2>10, <2>15, <2>16 DEF Whole
<1> QED BY <1>1, <1>2, <1>3, <1>4 DEF Says

\* pump with a chunk: the answer is handed over once it has all come, and as the server meant it.
LEMMA ReceivesKeeps ==
  ASSUME I!Pop3Assumption, Pop3Inv, I!Receives
  PROVE  Pop3Inv'
<1>1. /\ wire # <<>> /\ phase \in {"greeting", "stls", "ready"}
      /\ UNCHANGED <<starttls, sent, meant, owed>>
  BY DEF I!Receives, I!Nothing
<1>2. waiter # "none" /\ waiter \in {"single", "multi"}
  BY <1>1 DEF Pop3Inv, Pop3Types, AnswerWay
<1>3. wire \in Seq(I!Lines) /\ buffer \in Seq(I!Lines) /\ Len(wire) \in Nat /\ Len(wire) >= 1
      /\ Len(buffer) \in Nat
  BY <1>1 DEF Pop3Inv, Pop3Types
<1>4. Stream # <<>>
  BY <1>3 DEF Stream
<1>5. owed = FALSE /\ Says(waiter, phase, meant, Stream) /\ got = <<>>
  BY <1>2, <1>4 DEF Pop3Inv, Pop3Types, AnswerWay
<1>6. PICK n \in 1 .. Len(wire) :
        LET lines == buffer \o SubSeq(wire, 1, n)
            rest == SubSeq(wire, n + 1, Len(wire)) IN
        IF waiter # "none" /\ I!Complete(waiter, lines)
        THEN LET answer == I!AnswerOf(waiter, lines)
                 keeps == I!After(answer) \in {"greeted", "ready"} IN
             /\ got' = answer /\ phase' = I!After(answer) /\ waiter' = "none"
             /\ buffer' = IF keeps THEN SubSeq(lines, I!Length(waiter, lines) + 1, Len(lines))
                          ELSE I!Nothing
             /\ wire' = IF keeps THEN rest ELSE I!Nothing
        ELSE buffer' = lines /\ wire' = rest /\ UNCHANGED <<got, phase, waiter>>
  BY DEF I!Receives
<1> DEFINE lines == buffer \o SubSeq(wire, 1, n)
           rest == SubSeq(wire, n + 1, Len(wire))
<1>7. wire \in Seq(I!Lines) /\ buffer \in Seq(I!Lines) /\ n \in 1 .. Len(wire)
  BY <1>3
<1>8. /\ lines \in Seq(I!Lines) /\ rest \in Seq(I!Lines) /\ lines \o rest = Stream
      /\ Len(lines) = Len(buffer) + n /\ Len(rest) = Len(wire) - n
      /\ Stream \in Seq(I!Lines) /\ Len(Stream) = Len(buffer) + Len(wire)
      /\ \A i \in 1 .. Len(buffer) + n : lines[i] = Stream[i]
  <2>1. Moved(I!Lines, buffer, wire, n)
    BY <1>7, Chunk
  <2> QED BY <2>1, Zenon DEF Moved, Stream
<1>9. CASE I!Complete(waiter, lines)
  <2> DEFINE answer == I!AnswerOf(waiter, lines)
             keeps == I!After(answer) \in {"greeted", "ready"}
  <2>1. /\ got' = answer /\ phase' = I!After(answer) /\ waiter' = "none"
        /\ buffer' = IF keeps THEN SubSeq(lines, I!Length(waiter, lines) + 1, Len(lines)) ELSE <<>>
        /\ wire' = IF keeps THEN rest ELSE <<>>
    BY <1>2, <1>6, <1>9 DEF I!Nothing
  <2>2. Len(lines) >= 1 /\ Len(lines) <= Len(Stream)
    BY <1>3, <1>8
  <2>3. \A i \in 1 .. Len(lines) : lines[i] = Stream[i]
    BY <1>8
  <2>4. lines \in Seq(I!Lines) /\ Stream \in Seq(I!Lines)
    BY <1>8
  <2> HIDE DEF lines, rest
  <2>5. /\ answer = meant /\ Head(meant) \in {"ok", "err"}
        /\ phase # "stls" => Len(lines) = Len(Stream) /\ I!Length(waiter, lines) = Len(lines)
    <3>1. Whole(waiter, phase, meant, Stream, lines)
      BY <1>2, <1>5, <1>9, <2>2, <2>3, <2>4, WholeAnswer
    <3> QED BY <3>1 DEF Whole
  <2> HIDE DEF answer
  <2>6. /\ I!After(answer) \in {"greeted", "handshake", "ready", "closed"}
        /\ phase = "stls" => I!After(answer) \in {"handshake", "closed"}
    <3>1. CASE Head(answer) = "err"
      BY <3>1 DEF I!After
    <3>2. CASE Head(answer) # "err"
      BY <1>1, <3>2 DEF I!After
    <3> QED BY <3>1, <3>2
  <2>7. buffer' = <<>> /\ wire' = <<>>
    <3>1. CASE ~keeps
      BY <2>1, <3>1
    <3>2. CASE keeps
      <4>1. phase # "stls"
        BY <2>6, <3>2
      <4>2. Len(lines) = Len(Stream) /\ I!Length(waiter, lines) = Len(lines)
        BY <2>5, <4>1
      <4>3. Len(rest) = 0 /\ rest = <<>>
        BY <1>3, <1>8, <4>2
      <4>4. SubSeq(lines, Len(lines) + 1, Len(lines)) = <<>>
        BY <1>8
      <4> QED BY <2>1, <3>2, <4>2, <4>3, <4>4
    <3> QED BY <3>1, <3>2
  <2>8. got' = meant'
    BY <1>1, <2>1, <2>5
  <2> HIDE DEF keeps
  <2>9. phase' \in {"greeted", "handshake", "ready", "closed"} /\ waiter' = "none" /\ owed' = FALSE
    BY <1>1, <1>5, <2>1, <2>6
  <2>10. Pop3Types'
    BY <1>1, <2>7, <2>9 DEF Pop3Inv, Pop3Types
  <2>11. AnswerWay'
    BY <2>7, <2>8, <2>9 DEF AnswerWay
  <2> QED BY <2>9, <2>10, <2>11 DEF Pop3Inv, I!NoneWaitsForLong
<1>10. CASE ~I!Complete(waiter, lines)
  <2>1. buffer' = lines /\ wire' = rest /\ UNCHANGED <<got, phase, waiter>>
    BY <1>2, <1>6, <1>10
  <2>2. Stream' = Stream
    BY <1>8, <2>1 DEF Stream
  <2>3. Pop3Types'
    BY <1>1, <1>8, <2>1 DEF Pop3Inv, Pop3Types
  <2>4. I!Kind' = I!Kind
    BY <1>1, <2>1 DEF I!Kind
  <2>5. AnswerWay'
    <3>1. /\ waiter' # "none" /\ phase' \in {"greeting", "stls", "ready"} /\ got' = <<>>
          /\ owed' = FALSE
      BY <1>1, <1>2, <1>5, <2>1
    <3>2. phase' = "ready" => sent' \in 1 .. Len(Session)
      BY <1>1, <1>2, <2>1 DEF Pop3Inv, AnswerWay
    <3>3. waiter' = I!Kind'
      BY <1>2, <2>1, <2>4 DEF Pop3Inv, AnswerWay
    <3>4. Says(waiter', phase', meant', Stream')
      BY <1>1, <1>5, <2>1, <2>2
    <3> QED BY <3>1, <3>2, <3>3, <3>4 DEF AnswerWay
  <2>6. I!NoneWaitsForLong'
    BY <1>10, <2>1 DEF I!NoneWaitsForLong
  <2> QED BY <2>3, <2>5, <2>6 DEF Pop3Inv
<1> QED BY <1>9, <1>10

\* The server's answer is to the command that waits for one, and nothing else is on its way.
LEMMA AnswersKeeps ==
  ASSUME I!Pop3Assumption, Pop3Inv, I!Answers
  PROVE  Pop3Inv'
<1>1. owed = TRUE /\ owed' = FALSE /\ UNCHANGED <<starttls, phase, sent, waiter, buffer, got>>
  BY DEF I!Answers, Pop3Inv, Pop3Types
<1>2. waiter \in {"single", "multi"} /\ waiter # "none" /\ Stream = <<>>
      /\ waiter = I!Kind /\ I!Kind' = I!Kind
  BY <1>1 DEF Pop3Inv, Pop3Types, AnswerWay, I!Kind
<1>3. buffer = <<>> /\ wire = <<>>
  <2>1. wire \in Seq(I!Lines) /\ buffer \in Seq(I!Lines)
    BY DEF Pop3Inv, Pop3Types
  <2>2. Len(Stream) = Len(buffer) + Len(wire)
    BY <2>1 DEF Stream
  <2>3. Len(Stream) = 0
    BY <1>2
  <2>4. Len(buffer) = 0 /\ Len(wire) = 0
    <3>1. Len(buffer) \in Nat /\ Len(wire) \in Nat
      BY <2>1
    <3> QED BY <2>2, <2>3, <3>1
  <2> QED BY <2>1, <2>4
<1>4. wire' \in Seq(I!Lines) /\ Says(waiter, phase, meant', wire')
  <2>1. CASE meant' = <<"err">> /\ wire' = wire \o <<"err">>
    <3>1. <<"err">> \in Seq(I!Lines)
      BY DEF I!Lines
    <3>2. wire' = <<"err">>
      BY <1>3, <2>1, <3>1
    <3> QED BY <2>1, <3>1, <3>2 DEF Says
  <2>2. CASE I!Kind = "single" /\ meant' = <<"ok">> /\ wire' = wire \o <<"ok">>
    <3>1. <<"ok">> \in Seq(I!Lines)
      BY DEF I!Lines
    <3>2. wire' = <<"ok">>
      BY <1>3, <2>2, <3>1
    <3> QED BY <1>2, <2>2, <3>1, <3>2 DEF Says
  <2>3. CASE /\ I!Kind = "multi"
             /\ \E body \in I!Bodies :
                  /\ meant' = <<"ok">> \o body
                  /\ wire' = wire \o <<"ok">> \o I!Stuffed(body) \o <<"end">>
    <3>1. PICK body \in I!Bodies :
            /\ meant' = <<"ok">> \o body
            /\ wire' = wire \o <<"ok">> \o I!Stuffed(body) \o <<"end">>
      BY <2>3
    <3>2. wire \o <<"ok">> = <<"ok">>
      BY <1>3
    <3>3. wire' = <<"ok">> \o I!Stuffed(body) \o <<"end">>
      BY <3>1, <3>2
    <3>4. wire' \in Seq(I!Lines) /\ Carries(body, wire')
      BY <3>3, MailCarried
    <3> QED BY <1>2, <2>3, <3>1, <3>4 DEF Says
  <2>4. CASE phase = "stls" /\ meant' = <<"ok">> /\ wire' = wire \o <<"ok", "plain">>
    <3>1. <<"ok", "plain">> \in Seq(I!Lines)
      BY DEF I!Lines
    <3>2. wire' = <<"ok", "plain">>
      BY <1>3, <2>4, <3>1
    <3>3. waiter = "single"
      BY <1>2, <2>4 DEF I!Kind
    <3> QED BY <2>4, <3>1, <3>2, <3>3 DEF Says
  <2> QED BY <2>1, <2>2, <2>3, <2>4 DEF I!Answers
<1>5. Stream' = wire'
  BY <1>1, <1>3, <1>4 DEF Stream
<1>6. Pop3Types'
  BY <1>1, <1>4 DEF Pop3Inv, Pop3Types
<1>7. AnswerWay'
  <2>1. /\ waiter' # "none" /\ phase' \in {"greeting", "stls", "ready"} /\ got' = <<>>
        /\ owed' = FALSE
        /\ phase' = "ready" => sent' \in 1 .. Len(Session)
    BY <1>1, <1>2 DEF Pop3Inv, AnswerWay
  <2>2. waiter' = I!Kind'
    BY <1>1, <1>2
  <2>3. Says(waiter', phase', meant', Stream')
    BY <1>1, <1>4, <1>5
  <2> QED BY <2>1, <2>2, <2>3 DEF AnswerWay
<1>8. I!NoneWaitsForLong'
  BY <1>1, <1>3, <1>2 DEF I!NoneWaitsForLong, I!Complete, I!Nothing
<1> QED BY <1>6, <1>7, <1>8 DEF Pop3Inv

LEMMA Pop3Inductive ==
  ASSUME I!Pop3Assumption, Pop3Inv, [I!Next]_I!vars
  PROVE  Pop3Inv'
<1>0. Session \in Seq({"single", "multi"}) /\ Len(Session) \in Nat /\ sent \in Nat
  BY DEF I!Pop3Assumption, Pop3Inv, Pop3Types
<1>1. CASE I!Answers
  BY <1>1, AnswersKeeps
<1>2. CASE I!Receives
  BY <1>2, ReceivesKeeps
<1>3. CASE I!Upgrades
  <2>1. /\ phase = "greeted" /\ phase' = "stls" /\ waiter' = "single" /\ owed' = TRUE
        /\ got' = <<>> /\ UNCHANGED <<starttls, sent, wire, buffer, meant>>
    BY <1>3 DEF I!Upgrades, I!Nothing
  <2>2. waiter = "none" /\ wire = <<>> /\ buffer = <<>>
    BY <2>1 DEF Pop3Inv, Pop3Types, AnswerWay
  <2>3. Stream' = <<>> /\ I!Kind' = "single"
    BY <2>1, <2>2 DEF Stream, I!Kind
  <2>4. Pop3Types'
    BY <2>1 DEF Pop3Inv, Pop3Types
  <2>5. AnswerWay'
    BY <2>1, <2>3 DEF AnswerWay
  <2>6. I!NoneWaitsForLong'
    BY <2>1, <2>2 DEF I!NoneWaitsForLong, I!Complete, I!Nothing
  <2> QED BY <2>4, <2>5, <2>6 DEF Pop3Inv
<1>4. CASE I!Secures
  <2>1. /\ phase = "handshake" /\ phase' \in {"ready", "closed"}
        /\ UNCHANGED <<starttls, sent, waiter, wire, buffer, meant, got, owed>>
    BY <1>4 DEF I!Secures
  <2>2. waiter = "none" /\ wire = <<>> /\ buffer = <<>> /\ owed = FALSE
    BY <2>1 DEF Pop3Inv, Pop3Types, AnswerWay
  <2> QED BY <2>1, <2>2 DEF Pop3Inv, Pop3Types, AnswerWay, I!NoneWaitsForLong
<1>5. CASE I!Sends
  <2>1. /\ phase = "ready" /\ waiter = "none" /\ sent < Len(Session)
        /\ sent' = sent + 1 /\ waiter' = Session[sent + 1] /\ owed' = TRUE /\ got' = <<>>
        /\ UNCHANGED <<starttls, phase, wire, buffer, meant>>
    BY <1>5 DEF I!Sends, I!Nothing
  <2>2. wire = <<>> /\ buffer = <<>>
    BY <2>1 DEF Pop3Inv, Pop3Types, AnswerWay
  <2>3. sent' \in 1 .. Len(Session) /\ waiter' \in {"single", "multi"} /\ waiter' = Session[sent']
    BY <1>0, <2>1
  <2>4. Stream' = <<>> /\ I!Kind' = Session[sent']
    BY <2>1, <2>2 DEF Stream, I!Kind
  <2>5. Pop3Types'
    BY <1>0, <2>1, <2>3 DEF Pop3Inv, Pop3Types
  <2>6. AnswerWay'
    BY <2>1, <2>3, <2>4 DEF AnswerWay
  <2>7. I!NoneWaitsForLong'
    BY <2>1, <2>2 DEF I!NoneWaitsForLong, I!Complete, I!Nothing
  <2> QED BY <2>5, <2>6, <2>7 DEF Pop3Inv
<1>6. CASE I!Breaks
  <2>1. /\ phase' = "closed" /\ waiter' = "none" /\ owed' = FALSE /\ wire' = <<>> /\ buffer' = <<>>
        /\ UNCHANGED <<starttls, sent, meant, got>>
    BY <1>6 DEF I!Breaks, I!Nothing
  <2>2. wire' \in Seq(I!Lines) /\ buffer' \in Seq(I!Lines)
    <3>1. <<>> \in Seq(I!Lines)
      OBVIOUS
    <3> QED BY <2>1, <3>1
  <2>3. Pop3Types'
    BY <2>1, <2>2 DEF Pop3Inv, Pop3Types
  <2>4. AnswerWay'
    BY <2>1 DEF Pop3Inv, AnswerWay
  <2> QED BY <2>1, <2>3, <2>4 DEF Pop3Inv, I!NoneWaitsForLong
<1>7. CASE UNCHANGED I!vars
  <2>1. UNCHANGED <<starttls, phase, sent, waiter, wire, buffer, meant, got, owed>>
    BY <1>7 DEF I!vars
  <2>2. Stream' = Stream /\ I!Kind' = I!Kind
    BY <2>1 DEF Stream, I!Kind
  <2>3. Pop3Types' /\ I!NoneWaitsForLong'
    BY <2>1 DEF Pop3Inv, Pop3Types, I!NoneWaitsForLong
  <2>4. AnswerWay'
    BY <2>1, <2>2 DEF Pop3Inv, AnswerWay
  <2> QED BY <2>3, <2>4 DEF Pop3Inv
<1> QED BY <1>1, <1>2, <1>3, <1>4, <1>5, <1>6, <1>7 DEF I!Next

LEMMA Pop3Always == ASSUME I!Pop3Assumption PROVE I!Spec => []Pop3Inv
<1>1. I!Init => Pop3Inv
  <2> SUFFICES ASSUME I!Init PROVE Pop3Inv
    OBVIOUS
  <2>1. /\ starttls \in BOOLEAN /\ phase = "greeting" /\ sent = 0 /\ waiter = "single"
        /\ wire = <<>> /\ buffer = <<>> /\ got = <<>> /\ owed = TRUE
    BY DEF I!Init, I!Nothing
  <2>2. Stream = <<>> /\ I!Kind = "single"
    BY <2>1 DEF Stream, I!Kind
  <2>3. Pop3Types
    BY <2>1 DEF Pop3Types, I!Pop3Assumption
  <2>4. AnswerWay
    BY <2>1, <2>2 DEF AnswerWay
  <2> QED BY <2>1, <2>3, <2>4 DEF Pop3Inv, I!NoneWaitsForLong, I!Complete, I!Nothing
<1>2. Pop3Inv /\ [I!Next]_I!vars => Pop3Inv'
  BY Pop3Inductive
<1> QED BY <1>1, <1>2, PTL DEF I!Spec

\* The answer a command of a POP3 session gets is the server's answer to it, whole and
\* unstuffed, however its lines were cut into chunks, and none that came before TLS; and no
\* command waits for an answer that is there: for every session and every length of the mails
\* (pump, unstuff, startTls).
THEOREM Pop3AnswersBelong ==
  ASSUME I!Pop3Assumption PROVE I!Spec => [](I!AnswersBelong /\ I!NoneWaitsForLong)
<1>1. Pop3Inv => I!AnswersBelong /\ I!NoneWaitsForLong
  BY DEF Pop3Inv, AnswerWay, I!AnswersBelong, I!Nothing
<1> QED BY <1>1, Pop3Always, PTL

-----------------------------------------------------------------------------
(***************************************************************************)
(* Ftp: what readers of a server see                                       *)
(***************************************************************************)
FileSteps ==
  [do : {"connect", "mkdir", "upload", "drop", "replace", "walk"}, file : F!InTree]
Files == 1 .. Len(Tree)

\* Where the plan of a sync moves the i-th file into place.
PlaceAt(i) == IF op.server.atomic THEN Len(Tree) + 2 + i ELSE Len(Tree) + 2 + 2 * i

LEMMA TreeIs ==
  ASSUME F!FtpAssumption
  PROVE  /\ Len(Tree) \in Nat /\ Len(Tree) >= 2 /\ DOMAIN Tree = Files
         /\ \A i \in Files : Tree[i] \in F!InTree
         /\ \A i, j \in Files : Tree[i] = Tree[j] => i = j
         /\ \A f \in F!InTree : \E i \in Files : f = Tree[i]
         /\ \A f \in F!InTree : f \notin Extra
         /\ F!First \in F!InTree
<1>1. Tree \in Seq(F!InTree) /\ Len(Tree) >= 2
  BY DEF F!FtpAssumption
<1>2. Len(Tree) \in Nat /\ DOMAIN Tree = Files
  BY <1>1 DEF Files
<1>3. \A i \in Files : Tree[i] \in F!InTree
  BY <1>2 DEF F!InTree
<1>4. \A f \in F!InTree : \E i \in Files : f = Tree[i]
  BY <1>2 DEF F!InTree
<1>5. \A i, j \in Files : Tree[i] = Tree[j] => i = j
  BY <1>2 DEF F!FtpAssumption
<1>6. \A f \in F!InTree : f \notin Extra
  BY DEF F!FtpAssumption
<1>7. 1 \in Files
  BY <1>1, <1>2 DEF Files
<1> QED BY <1>1, <1>2, <1>3, <1>4, <1>5, <1>6, <1>7 DEF F!First

LEMMA StepsAre ==
  ASSUME F!FtpAssumption, NEW i \in Files
  PROVE  /\ F!Step("upload", Tree[i]) \in FileSteps
         /\ F!Step("drop", Tree[i]) \in FileSteps
         /\ F!Step("replace", Tree[i]) \in FileSteps
<1>1. Tree[i] \in F!InTree
  BY TreeIs
<1> QED BY <1>1 DEF F!Step, FileSteps

LEMMA UploadsAre ==
  ASSUME F!FtpAssumption
  PROVE  /\ F!Uploads \in Seq(FileSteps) /\ Len(F!Uploads) = Len(Tree)
         /\ \A i \in Files : F!Uploads[i] = F!Step("upload", Tree[i])
<1>1. F!Uploads = [i \in Files |-> F!Step("upload", Tree[i])]
  <2>1. DOMAIN Tree = Files
    BY TreeIs
  <2>2. F!Uploads = [i \in DOMAIN Tree |-> F!Step("upload", Tree[i])]
    BY DEF F!Uploads
  <2> QED BY <2>1, <2>2
<1>2. \A i \in Files : F!Step("upload", Tree[i]) \in FileSteps
  BY StepsAre
<1>3. [i \in Files |-> F!Step("upload", Tree[i])] \in [1 .. Len(Tree) -> FileSteps]
  BY <1>2 DEF Files
<1> QED BY <1>1, <1>3, TreeIs DEF Files

LEMMA Halves ==
  ASSUME NEW k \in Nat
  PROVE  k % 2 \in {0, 1} /\ k \div 2 \in Nat /\ k = 2 * (k \div 2) + (k % 2)
OBVIOUS

LEMMA HalfUp ==
  ASSUME NEW n \in Nat, NEW k \in 1 .. 2 * n, k % 2 = 1 PROVE (k + 1) \div 2 \in 1 .. n
BY Halves

LEMMA HalfDown ==
  ASSUME NEW n \in Nat, NEW k \in 1 .. 2 * n, k % 2 # 1 PROVE k \div 2 \in 1 .. n
BY Halves

LEMMA PlacesAre ==
  ASSUME F!FtpAssumption, op.server.atomic \in BOOLEAN
  PROVE  /\ F!Places \in Seq(FileSteps)
         /\ Len(F!Places) = PlaceAt(Len(Tree)) - (Len(Tree) + 2)
         /\ \A i \in Files : F!Places[PlaceAt(i) - (Len(Tree) + 2)] = F!Step("replace", Tree[i])
         /\ ~op.server.atomic => \A i \in Files :
              F!Places[PlaceAt(i) - 1 - (Len(Tree) + 2)] = F!Step("drop", Tree[i])
<1>1. CASE op.server.atomic
  <2>1. F!Places = [i \in Files |-> F!Step("replace", Tree[i])]
    <3>1. DOMAIN Tree = Files
      BY TreeIs
    <3>2. F!Places = [i \in DOMAIN Tree |-> F!Step("replace", Tree[i])]
      BY <1>1 DEF F!Places
    <3> QED BY <3>1, <3>2
  <2>2. F!Places \in [1 .. Len(Tree) -> FileSteps]
    BY <2>1, StepsAre DEF Files
  <2>3. \A i \in Files : PlaceAt(i) - (Len(Tree) + 2) = i
    BY <1>1, TreeIs DEF PlaceAt, Files
  <2>4. Len(Tree) \in Files
    BY TreeIs DEF Files
  <2>5. F!Places \in Seq(FileSteps) /\ Len(F!Places) = Len(Tree)
    BY <2>2, TreeIs
  <2> QED BY <1>1, <2>1, <2>3, <2>4, <2>5
<1>2. CASE ~op.server.atomic
  <2> DEFINE n == Len(Tree)
             At(k) == IF k % 2 = 1 THEN F!Step("drop", Tree[(k + 1) \div 2])
                      ELSE F!Step("replace", Tree[k \div 2])
  <2>1. F!Places = [k \in 1 .. 2 * n |-> At(k)]
    BY <1>2 DEF F!Places
  <2>2. \A k \in 1 .. 2 * n : /\ k % 2 = 1 => (k + 1) \div 2 \in Files
                             /\ k % 2 # 1 => k \div 2 \in Files
    <3> SUFFICES ASSUME NEW k \in 1 .. 2 * n
                 PROVE  /\ k % 2 = 1 => (k + 1) \div 2 \in Files
                        /\ k % 2 # 1 => k \div 2 \in Files
      OBVIOUS
    <3>1. n \in Nat
      BY TreeIs
    <3>2. k % 2 = 1 => (k + 1) \div 2 \in 1 .. n
      BY <3>1, HalfUp
    <3>3. k % 2 # 1 => k \div 2 \in 1 .. n
      BY <3>1, HalfDown
    <3> QED BY <3>2, <3>3 DEF Files
  <2>3. \A k \in 1 .. 2 * n : At(k) \in FileSteps
    <3> SUFFICES ASSUME NEW k \in 1 .. 2 * n PROVE At(k) \in FileSteps
      OBVIOUS
    <3>1. CASE k % 2 = 1
      <4>1. (k + 1) \div 2 \in Files
        BY <3>1, TreeIs, HalfUp DEF Files
      <4>2. F!Step("drop", Tree[(k + 1) \div 2]) \in FileSteps
        BY <4>1, StepsAre
      <4> QED BY <3>1, <4>2
    <3>2. CASE k % 2 # 1
      BY <3>2, <2>2, StepsAre
    <3> QED BY <3>1, <3>2
  <2>4. F!Places \in [1 .. 2 * n -> FileSteps]
    BY <2>1, <2>3
  <2>5. F!Places \in Seq(FileSteps) /\ Len(F!Places) = 2 * n
    BY <2>4, TreeIs
  <2>6. \A i \in Files : PlaceAt(i) - (n + 2) = 2 * i /\ PlaceAt(i) - 1 - (n + 2) = 2 * i - 1
    BY <1>2, TreeIs DEF PlaceAt, Files
  <2>7. \A i \in Files : 2 * i \in 1 .. 2 * n /\ (2 * i) % 2 = 0 /\ (2 * i) \div 2 = i
    BY TreeIs DEF Files
  <2>8. \A i \in Files : /\ 2 * i - 1 \in 1 .. 2 * n /\ (2 * i - 1) % 2 = 1
                          /\ (2 * i - 1 + 1) \div 2 = i
    BY TreeIs DEF Files
  <2>9. n \in Files
    BY TreeIs DEF Files
  <2>10. \A i \in Files : F!Places[2 * i] = F!Step("replace", Tree[i])
    BY <2>1, <2>7
  <2>11. \A i \in Files : F!Places[2 * i - 1] = F!Step("drop", Tree[i])
    BY <2>1, <2>8
  <2> QED BY <2>5, <2>6, <2>9, <2>10, <2>11
<1> QED BY <1>1, <1>2

FtpOps ==
  [kind : F!Kinds, server : Servers, prune : BOOLEAN, before : [F!Names -> {"none", "old"}]]

FtpTypes ==
  /\ op \in FtpOps /\ status \in {"running", "succeeded", "failed"}
  /\ attempt \in 0 .. MaxAttempts /\ at \in Nat
  /\ error \in {"none", "final", "transient", "exists", "missing"}
  /\ remote \in [F!Names -> F!Contents] /\ stage \in [F!Names -> F!Contents]
  /\ todo \subseteq [stage : BOOLEAN, name : F!Names]

LEMMA OpIs ==
  ASSUME F!FtpAssumption, op \in FtpOps
  PROVE  /\ op.server.atomic \in BOOLEAN /\ op.server.ftp \in BOOLEAN /\ op.prune \in BOOLEAN
         /\ op.kind \in F!Kinds /\ op.before \in [F!Names -> {"none", "old"}]
<1>1. op.server \in Servers /\ Servers \subseteq [ftp : BOOLEAN, atomic : BOOLEAN]
  BY DEF FtpOps, F!FtpAssumption
<1>2. op.server.atomic \in BOOLEAN /\ op.server.ftp \in BOOLEAN
  BY <1>1
<1> QED BY <1>2 DEF FtpOps

LEMMA PlanKept == ASSUME op' = op PROVE F!Plan' = F!Plan
BY DEF F!Plan, F!UploadThenPlace, F!Uploads, F!Places, F!First, F!Step

LEMMA Joined ==
  ASSUME NEW S, NEW s \in Seq(S), NEW t \in Seq(S)
  PROVE  /\ s \o t \in Seq(S) /\ Len(s \o t) = Len(s) + Len(t)
         /\ \A k \in 1 .. Len(s) : (s \o t)[k] = s[k]
         /\ \A k \in 1 .. Len(t) : (s \o t)[Len(s) + k] = t[k]
OBVIOUS

LEMMA SyncPlan ==
  ASSUME F!FtpAssumption, op \in FtpOps, op.kind = "sync"
  PROVE  /\ F!Plan \in Seq(FileSteps) /\ DOMAIN F!Plan = 1 .. Len(F!Plan)
         /\ Len(F!Plan) = IF op.prune THEN PlaceAt(Len(Tree)) + 1 ELSE PlaceAt(Len(Tree))
         /\ F!Plan[1] = F!Step("connect", F!First) /\ F!Plan[2] = F!Step("mkdir", F!First)
         /\ \A i \in Files : F!Plan[i + 2] = F!Step("upload", Tree[i])
         /\ \A i \in Files : F!Plan[PlaceAt(i)] = F!Step("replace", Tree[i])
         /\ ~op.server.atomic =>
              \A i \in Files : F!Plan[PlaceAt(i) - 1] = F!Step("drop", Tree[i])
         /\ op.prune => F!Plan[Len(F!Plan)] = F!Step("walk", F!First)
<1> DEFINE n == Len(Tree)
           c == <<F!Step("connect", F!First)>>
           m == <<F!Step("mkdir", F!First)>>
           w == IF op.prune THEN <<F!Step("walk", F!First)>> ELSE <<>>
           up == F!Uploads \o F!Places
           mu == m \o up
           muw == mu \o w
<1>1. F!Plan = c \o muw
  BY DEF F!Plan, F!UploadThenPlace
<1>2. c \in Seq(FileSteps) /\ Len(c) = 1 /\ c[1] = F!Step("connect", F!First)
  <2>1. F!Step("connect", F!First) \in FileSteps
    BY TreeIs DEF F!Step, FileSteps
  <2> QED BY <2>1
<1>3. m \in Seq(FileSteps) /\ Len(m) = 1 /\ m[1] = F!Step("mkdir", F!First)
  <2>1. F!Step("mkdir", F!First) \in FileSteps
    BY TreeIs DEF F!Step, FileSteps
  <2> QED BY <2>1
<1>4. /\ w \in Seq(FileSteps) /\ Len(w) = IF op.prune THEN 1 ELSE 0
      /\ op.prune => w[1] = F!Step("walk", F!First)
  <2>1. F!Step("walk", F!First) \in FileSteps
    BY TreeIs DEF F!Step, FileSteps
  <2>2. <<>> \in Seq(FileSteps) /\ Len(<<>>) = 0
    OBVIOUS
  <2>3. CASE op.prune
    BY <2>1, <2>3
  <2>4. CASE ~op.prune
    BY <2>2, <2>4
  <2> QED BY <2>3, <2>4
<1>5. /\ F!Uploads \in Seq(FileSteps) /\ Len(F!Uploads) = n
      /\ \A i \in Files : F!Uploads[i] = F!Step("upload", Tree[i])
  BY UploadsAre
<1>6. /\ F!Places \in Seq(FileSteps) /\ Len(F!Places) = PlaceAt(n) - (n + 2)
      /\ \A i \in Files : F!Places[PlaceAt(i) - (n + 2)] = F!Step("replace", Tree[i])
      /\ ~op.server.atomic => \A i \in Files :
           F!Places[PlaceAt(i) - 1 - (n + 2)] = F!Step("drop", Tree[i])
  BY OpIs, PlacesAre
<1>7. /\ n \in Nat /\ n >= 2 /\ n \in Files
      /\ \A i \in Files : i \in 1 .. n
  BY TreeIs DEF Files
<1>8. \A i \in Files : /\ PlaceAt(i) \in Nat /\ PlaceAt(i) >= n + 3 /\ PlaceAt(i) <= PlaceAt(n)
                       /\ ~op.server.atomic => PlaceAt(i) - 1 >= n + 3
  BY <1>7, OpIs DEF PlaceAt
<1>9. /\ up \in Seq(FileSteps) /\ Len(up) = PlaceAt(n) - 2
      /\ \A i \in Files : up[i] = F!Step("upload", Tree[i])
      /\ \A k \in 1 .. Len(F!Places) : up[n + k] = F!Places[k]
  <2>1. /\ up \in Seq(FileSteps) /\ Len(up) = Len(F!Uploads) + Len(F!Places)
        /\ \A k \in 1 .. Len(F!Uploads) : up[k] = F!Uploads[k]
        /\ \A k \in 1 .. Len(F!Places) : up[Len(F!Uploads) + k] = F!Places[k]
    <3>1. F!Uploads \in Seq(FileSteps) /\ F!Places \in Seq(FileSteps)
      BY <1>5, <1>6
    <3> QED BY <3>1, Joined
  <2>2. Len(up) = PlaceAt(n) - 2 /\ Files = 1 .. Len(F!Uploads)
    BY <2>1, <1>5, <1>6, <1>7, <1>8 DEF Files
  <2> HIDE DEF up
  <2> QED BY <2>1, <2>2, <1>5
<1>10. /\ mu \in Seq(FileSteps) /\ Len(mu) = PlaceAt(n) - 1 /\ mu[1] = F!Step("mkdir", F!First)
       /\ \A k \in 1 .. PlaceAt(n) - 2 : mu[1 + k] = up[k]
  <2>1. /\ mu \in Seq(FileSteps) /\ Len(mu) = Len(m) + Len(up) /\ mu[1] = m[1]
        /\ \A k \in 1 .. Len(up) : mu[Len(m) + k] = up[k]
    BY <1>3, <1>9, Joined
  <2> QED BY <2>1, <1>3, <1>9, <1>7, <1>8
<1>11. /\ muw \in Seq(FileSteps) /\ Len(muw) = PlaceAt(n) - 1 + Len(w)
       /\ \A k \in 1 .. PlaceAt(n) - 1 : muw[k] = mu[k]
       /\ op.prune => muw[PlaceAt(n)] = w[1]
  <2>1. /\ muw \in Seq(FileSteps) /\ Len(muw) = Len(mu) + Len(w)
        /\ \A k \in 1 .. Len(mu) : muw[k] = mu[k]
        /\ \A k \in 1 .. Len(w) : muw[Len(mu) + k] = w[k]
    BY <1>4, <1>10, Joined
  <2> HIDE DEF w, mu, muw
  <2>2. op.prune => muw[PlaceAt(n)] = w[1]
    BY <2>1, <1>4, <1>10, <1>7, <1>8
  <2> QED BY <2>1, <2>2, <1>4, <1>10
<1>12. /\ F!Plan \in Seq(FileSteps) /\ Len(F!Plan) = PlaceAt(n) + Len(w)
       /\ F!Plan[1] = c[1]
       /\ \A k \in 1 .. Len(muw) : F!Plan[1 + k] = muw[k]
  <2>1. /\ F!Plan \in Seq(FileSteps) /\ Len(F!Plan) = Len(c) + Len(muw) /\ F!Plan[1] = c[1]
        /\ \A k \in 1 .. Len(muw) : F!Plan[Len(c) + k] = muw[k]
    BY <1>1, <1>2, <1>11, Joined
  <2> HIDE DEF w, mu, muw, c
  <2> QED BY <2>1, <1>2, <1>11, <1>4, <1>7, <1>8
<1> HIDE DEF w, mu, muw, c, m, up, n
<1>13. \A k \in 1 .. PlaceAt(n) - 2 : F!Plan[2 + k] = up[k]
  <2> SUFFICES ASSUME NEW k \in 1 .. PlaceAt(n) - 2 PROVE F!Plan[2 + k] = up[k]
    OBVIOUS
  <2>1. PlaceAt(n) \in Nat /\ 1 + k \in 1 .. PlaceAt(n) - 1 /\ Len(w) \in Nat
    BY <1>7, <1>8, <1>4
  <2>2. mu[1 + k] = up[k] /\ muw[1 + k] = mu[1 + k]
    BY <2>1, <1>10, <1>11
  <2>3. 1 + k \in 1 .. Len(muw)
    BY <2>1, <1>11
  <2>4. F!Plan[1 + (1 + k)] = muw[1 + k]
    BY <2>3, <1>12
  <2> QED BY <2>2, <2>4
<1>14. F!Plan[2] = F!Step("mkdir", F!First)
  <2>1. 1 \in 1 .. Len(muw) /\ 1 \in 1 .. PlaceAt(n) - 1
    BY <1>7, <1>8, <1>4, <1>11
  <2>2. F!Plan[1 + 1] = muw[1] /\ muw[1] = mu[1]
    BY <2>1, <1>11, <1>12
  <2> QED BY <2>2, <1>10
<1>15. ASSUME NEW i \in Files PROVE F!Plan[i + 2] = F!Step("upload", Tree[i])
  <2>1. i \in 1 .. PlaceAt(n) - 2 /\ i + 2 = 2 + i
    BY <1>7, <1>8
  <2> QED BY <2>1, <1>13, <1>9
<1>16. ASSUME NEW i \in Files PROVE F!Plan[PlaceAt(i)] = F!Step("replace", Tree[i])
  <2> DEFINE k == PlaceAt(i) - (n + 2)
  <2>1. k \in 1 .. Len(F!Places) /\ n + k \in 1 .. PlaceAt(n) - 2 /\ 2 + (n + k) = PlaceAt(i)
    <3>1. PlaceAt(i) \in Nat /\ PlaceAt(i) >= n + 3 /\ PlaceAt(i) <= PlaceAt(n)
      BY <1>8
    <3>2. ~op.server.atomic => PlaceAt(i) - 1 >= n + 3
      BY <1>8
    <3>3. Len(F!Places) = PlaceAt(n) - (n + 2) /\ n \in Nat /\ PlaceAt(n) \in Nat
      BY <1>6, <1>7, <1>8
    <3> QED BY <3>1, <3>2, <3>3
  <2>2. F!Places[k] = F!Step("replace", Tree[i])
    BY <1>6
  <2> HIDE DEF k
  <2>3. up[n + k] = F!Places[k] /\ F!Plan[2 + (n + k)] = up[n + k]
    BY <2>1, <1>9, <1>13
  <2> QED BY <2>1, <2>2, <2>3
<1>17. ASSUME ~op.server.atomic, NEW i \in Files
       PROVE  F!Plan[PlaceAt(i) - 1] = F!Step("drop", Tree[i])
  <2> DEFINE k == PlaceAt(i) - 1 - (n + 2)
  <2>1. k \in 1 .. Len(F!Places) /\ n + k \in 1 .. PlaceAt(n) - 2 /\ 2 + (n + k) = PlaceAt(i) - 1
    <3>1. PlaceAt(i) \in Nat /\ PlaceAt(i) >= n + 3 /\ PlaceAt(i) <= PlaceAt(n)
      BY <1>8
    <3>2. PlaceAt(i) - 1 >= n + 3
      BY <1>8, <1>17
    <3>3. Len(F!Places) = PlaceAt(n) - (n + 2) /\ n \in Nat /\ PlaceAt(n) \in Nat
      BY <1>6, <1>7, <1>8
    <3> QED BY <3>1, <3>2, <3>3
  <2>2. F!Places[k] = F!Step("drop", Tree[i])
    BY <1>6, <1>17
  <2> HIDE DEF k
  <2>3. up[n + k] = F!Places[k] /\ F!Plan[2 + (n + k)] = up[n + k]
    BY <2>1, <1>9, <1>13
  <2> QED BY <2>1, <2>2, <2>3
<1>18. ASSUME op.prune PROVE F!Plan[Len(F!Plan)] = F!Step("walk", F!First)
  <2>1. PlaceAt(n) \in 1 .. Len(muw) /\ Len(F!Plan) = 1 + PlaceAt(n)
    BY <1>18, <1>4, <1>7, <1>8, <1>11, <1>12
  <2>2. F!Plan[1 + PlaceAt(n)] = muw[PlaceAt(n)]
    BY <2>1, <1>12
  <2> QED BY <2>1, <2>2, <1>18, <1>11, <1>4
<1>19. Len(F!Plan) = IF op.prune THEN PlaceAt(n) + 1 ELSE PlaceAt(n)
  BY <1>12, <1>4, <1>7, <1>8
<1>20. F!Plan \in Seq(FileSteps) /\ DOMAIN F!Plan = 1 .. Len(F!Plan)
  BY <1>12
<1> QED BY <1>2, <1>12, <1>14, <1>15, <1>16, <1>17, <1>18, <1>19, <1>20 DEF n


LEMMA SyncNow ==
  ASSUME F!FtpAssumption, FtpTypes, op.kind = "sync", at \in DOMAIN F!Plan
  PROVE  \/ at = 1 /\ F!Now = F!Step("connect", F!First)
         \/ at = 2 /\ F!Now = F!Step("mkdir", F!First)
         \/ \E i \in Files : at = i + 2 /\ F!Now = F!Step("upload", Tree[i])
         \/ \E i \in Files : at = PlaceAt(i) /\ F!Now = F!Step("replace", Tree[i])
         \/ ~op.server.atomic /\ \E i \in Files :
              at = PlaceAt(i) - 1 /\ F!Now = F!Step("drop", Tree[i])
         \/ op.prune /\ at = PlaceAt(Len(Tree)) + 1 /\ F!Now = F!Step("walk", F!First)
<1> DEFINE n == Len(Tree)
<1>1. op \in FtpOps
  BY DEF FtpTypes
<1>2. n \in Nat /\ n >= 2 /\ Files = 1 .. n
  BY TreeIs DEF Files
<1>3. PlaceAt(n) = IF op.server.atomic THEN n + 2 + n ELSE n + 2 + 2 * n
  BY DEF PlaceAt
<1>4. /\ at \in 1 .. Len(F!Plan)
      /\ Len(F!Plan) = IF op.prune THEN PlaceAt(n) + 1 ELSE PlaceAt(n)
  BY <1>1, SyncPlan
<1>5. op.server.atomic \in BOOLEAN /\ op.prune \in BOOLEAN
  BY <1>1, OpIs
<1>6. CASE at = 1
  BY <1>1, <1>6, SyncPlan DEF F!Now
<1>7. CASE at = 2
  BY <1>1, <1>7, SyncPlan DEF F!Now
<1>8. CASE at \in 3 .. n + 2
  <2>1. at - 2 \in Files /\ at = (at - 2) + 2
    BY <1>2, <1>8
  <2>2. F!Plan[(at - 2) + 2] = F!Step("upload", Tree[at - 2])
    BY <2>1, <1>1, SyncPlan
  <2> QED BY <2>1, <2>2 DEF F!Now
<1>9. CASE at \in n + 3 .. PlaceAt(n)
  <2>1. CASE op.server.atomic
    <3>1. at - (n + 2) \in Files /\ at = PlaceAt(at - (n + 2))
      BY <1>2, <1>3, <1>9, <2>1 DEF PlaceAt
    <3>2. F!Plan[PlaceAt(at - (n + 2))] = F!Step("replace", Tree[at - (n + 2)])
      BY <3>1, <1>1, SyncPlan
    <3> QED BY <3>1, <3>2 DEF F!Now
  <2>2. CASE ~op.server.atomic
    <3> DEFINE k == at - (n + 2)
    <3>1. k \in 1 .. 2 * n /\ k \in Nat /\ at = n + 2 + k
      BY <1>2, <1>3, <1>9, <2>2
    <3> HIDE DEF k
    <3>2. k % 2 \in {0, 1} /\ k = 2 * (k \div 2) + (k % 2)
      BY <3>1, Halves
    <3>3. CASE k % 2 = 1
      <4>1. PICK i \in Files : i = (k + 1) \div 2
        BY <3>1, <3>3, <1>2, HalfUp
      <4>2. k = 2 * i - 1
        BY <4>1, <3>1, <3>2, <3>3
      <4>3. at = PlaceAt(i) - 1
        BY <4>2, <3>1, <1>2, <2>2 DEF PlaceAt
      <4>4. F!Plan[PlaceAt(i) - 1] = F!Step("drop", Tree[i])
        BY <2>2, <1>1, SyncPlan
      <4> QED BY <2>2, <4>3, <4>4 DEF F!Now
    <3>4. CASE k % 2 = 0
      <4>1. PICK i \in Files : i = k \div 2
        BY <3>1, <3>4, <1>2, HalfDown
      <4>2. k = 2 * i
        BY <4>1, <3>1, <3>2, <3>4
      <4>3. at = PlaceAt(i)
        BY <4>2, <3>1, <1>2, <2>2 DEF PlaceAt
      <4>4. F!Plan[PlaceAt(i)] = F!Step("replace", Tree[i])
        BY <1>1, SyncPlan
      <4> QED BY <4>3, <4>4 DEF F!Now
    <3> QED BY <3>2, <3>3, <3>4
  <2> QED BY <2>1, <2>2
<1>10. CASE op.prune /\ at = PlaceAt(n) + 1
  <2>1. at = Len(F!Plan)
    BY <1>10, <1>4
  <2> QED BY <2>1, <1>10, <1>1, SyncPlan DEF F!Now
<1>11. \/ at = 1 \/ at = 2 \/ at \in 3 .. n + 2 \/ at \in n + 3 .. PlaceAt(n)
       \/ op.prune /\ at = PlaceAt(n) + 1
  BY <1>2, <1>3, <1>4, <1>5
<1> QED BY <1>6, <1>7, <1>8, <1>9, <1>10, <1>11

\* What a step of a sync makes of the server when it is carried out, and when it breaks off.
Quiet == remote' = remote /\ stage' = stage
Uploads(i) == remote' = remote /\ stage' = [stage EXCEPT ![Tree[i]] = "new"]
Replaces(i) ==
  /\ remote' = [remote EXCEPT ![Tree[i]] = stage[Tree[i]]]
  /\ stage' = [stage EXCEPT ![Tree[i]] = "none"]
Drops(i) == remote' = [remote EXCEPT ![Tree[i]] = "none"] /\ stage' = stage

LEMMA SyncDoes ==
  ASSUME F!FtpAssumption, FtpTypes, op.kind = "sync", F!Does
  PROVE  /\ error = "none" /\ at' = at + 1 /\ at \in DOMAIN F!Plan
         /\ \/ at \in {1, 2} /\ Quiet /\ todo' = todo
            \/ \E i \in Files : at = i + 2 /\ Uploads(i) /\ todo' = todo
            \/ \E i \in Files : at = PlaceAt(i) /\ Replaces(i) /\ todo' = todo
            \/ ~op.server.atomic /\ \E i \in Files :
                 at = PlaceAt(i) - 1 /\ Drops(i) /\ todo' = todo
            \/ op.prune /\ at = PlaceAt(Len(Tree)) + 1 /\ Quiet /\ todo' = F!Surplus
<1>1. /\ error = "none" /\ at' = at + 1 /\ at \in DOMAIN F!Plan
      /\ F!Effect(F!Now.do, F!Now.file, TRUE)
      /\ todo' = IF F!Now.do = "walk" THEN F!Surplus ELSE todo
  BY DEF F!Does, F!Going
<1>2. CASE at = 1 /\ F!Now = F!Step("connect", F!First)
  <2>1. F!Now.do = "connect"
    BY <1>2 DEF F!Step
  <2> QED BY <1>1, <1>2, <2>1 DEF F!Effect, Quiet
<1>3. CASE at = 2 /\ F!Now = F!Step("mkdir", F!First)
  <2>1. F!Now.do = "mkdir"
    BY <1>3 DEF F!Step
  <2> QED BY <1>1, <1>3, <2>1 DEF F!Effect, Quiet
<1>4. ASSUME NEW i \in Files, at = i + 2, F!Now = F!Step("upload", Tree[i])
      PROVE  Uploads(i) /\ todo' = todo
  <2>1. F!Now.do = "upload" /\ F!Now.file = Tree[i]
    BY <1>4 DEF F!Step
  <2> QED BY <1>1, <2>1 DEF F!Effect, Uploads
<1>5. ASSUME NEW i \in Files, at = PlaceAt(i), F!Now = F!Step("replace", Tree[i])
      PROVE  Replaces(i) /\ todo' = todo
  <2>1. F!Now.do = "replace" /\ F!Now.file = Tree[i]
    BY <1>5 DEF F!Step
  <2> QED BY <1>1, <2>1 DEF F!Effect, Replaces
<1>6. ASSUME NEW i \in Files, F!Now = F!Step("drop", Tree[i])
      PROVE  Drops(i) /\ todo' = todo
  <2>1. F!Now.do = "drop" /\ F!Now.file = Tree[i]
    BY <1>6 DEF F!Step
  <2> QED BY <1>1, <2>1 DEF F!Effect, Drops
<1>7. CASE op.prune /\ at = PlaceAt(Len(Tree)) + 1 /\ F!Now = F!Step("walk", F!First)
  <2>1. F!Now.do = "walk"
    BY <1>7 DEF F!Step
  <2> QED BY <1>1, <1>7, <2>1 DEF F!Effect, Quiet
<1> QED BY <1>1, <1>2, <1>3, <1>4, <1>5, <1>6, <1>7, SyncNow

LEMMA SyncBreaks ==
  ASSUME F!FtpAssumption, FtpTypes, op.kind = "sync", F!Breaks
  PROVE  \/ remote' = remote
         \/ error = "none" /\ \E i \in Files : at = PlaceAt(i) /\ Replaces(i)
         \/ ~op.server.atomic /\ \E i \in Files : Drops(i)
<1>1. error = "none" /\ at \in DOMAIN F!Plan
  BY DEF F!Breaks, F!Going
<1>2. CASE UNCHANGED <<remote, stage>>
  BY <1>2
<1>3. ASSUME NEW whole \in BOOLEAN, F!Effect(F!Now.do, F!Now.file, whole)
      PROVE  \/ remote' = remote
             \/ \E i \in Files : at = PlaceAt(i) /\ Replaces(i)
             \/ ~op.server.atomic /\ \E i \in Files : Drops(i)
  <2>1. CASE F!Now.do \in {"connect", "mkdir", "walk", "upload"}
    BY <1>3, <2>1 DEF F!Effect
  <2>2. ASSUME NEW i \in Files, at = PlaceAt(i), F!Now = F!Step("replace", Tree[i])
        PROVE  Replaces(i)
    <3>1. F!Now.do = "replace" /\ F!Now.file = Tree[i]
      BY <2>2 DEF F!Step
    <3> QED BY <1>3, <3>1 DEF F!Effect, Replaces
  <2>3. ASSUME NEW i \in Files, F!Now = F!Step("drop", Tree[i])
        PROVE  Drops(i)
    <3>1. F!Now.do = "drop" /\ F!Now.file = Tree[i]
      BY <2>3 DEF F!Step
    <3> QED BY <1>3, <3>1 DEF F!Effect, Drops
  <2>4. \/ F!Now.do \in {"connect", "mkdir", "walk", "upload"}
        \/ \E i \in Files : at = PlaceAt(i) /\ F!Now = F!Step("replace", Tree[i])
        \/ ~op.server.atomic /\ \E i \in Files : F!Now = F!Step("drop", Tree[i])
    BY <1>1, SyncNow DEF F!Step
  <2> QED BY <2>1, <2>2, <2>3, <2>4
<1>4. \/ UNCHANGED <<remote, stage>>
      \/ \E whole \in BOOLEAN : F!Effect(F!Now.do, F!Now.file, whole)
  BY DEF F!Breaks
<1> QED BY <1>1, <1>2, <1>3, <1>4


\* The plans of the other ops: only the last step changes the server.
PlainKinds == {"write", "create", "delete", "rename"}
Harmless == {"connect", "mkdir", "absent", "present"}
Changing == {"put", "remove", "move"}

LEMMA Front3 ==
  ASSUME NEW a, NEW b, NEW c, NEW s, s = <<a>> \o <<b, c>>
  PROVE  Len(s) = 3 /\ DOMAIN s = 1 .. 3 /\ s[1] = a /\ s[2] = b /\ s[3] = c
OBVIOUS

LEMMA Front4 ==
  ASSUME NEW a, NEW b, NEW c, NEW d, NEW s, s = <<a>> \o <<b, c, d>>
  PROVE  Len(s) = 4 /\ DOMAIN s = 1 .. 4 /\ s[1] = a /\ s[2] = b /\ s[3] = c /\ s[4] = d
<1>1. <<a>> \in Seq({a, b, c, d}) /\ <<b, c, d>> \in Seq({a, b, c, d})
  OBVIOUS
<1>2. s \in Seq({a, b, c, d}) /\ Len(s) = 4
  BY <1>1
<1>3. s[1] = a /\ s[2] = b /\ s[3] = c /\ s[4] = d
  BY <1>1
<1> QED BY <1>2, <1>3

LEMMA PlainPlan ==
  ASSUME F!FtpAssumption, op.kind \in PlainKinds
  PROVE  /\ Len(F!Plan) \in Nat /\ DOMAIN F!Plan = 1 .. Len(F!Plan)
         /\ \A k \in DOMAIN F!Plan :
              /\ F!Plan[k].file = F!First /\ F!Plan[k].do \in Harmless \union Changing
              /\ F!Plan[k].do \in Changing => k = Len(F!Plan)
<1>1. CASE op.kind = "write"
  <2>1. F!Plan = <<F!Step("connect", F!First)>>
                 \o <<F!Step("mkdir", F!First), F!Step("put", F!First)>>
    BY <1>1 DEF F!Plan
  <2>2. /\ Len(F!Plan) = 3 /\ DOMAIN F!Plan = 1 .. 3
        /\ F!Plan[1] = F!Step("connect", F!First)
        /\ F!Plan[2] = F!Step("mkdir", F!First)
        /\ F!Plan[3] = F!Step("put", F!First)
    BY <2>1, Front3
  <2> QED BY <2>2 DEF F!Step, Harmless, Changing
<1>2. CASE op.kind = "create"
  <2>1. F!Plan = <<F!Step("connect", F!First)>>
                 \o <<F!Step("absent", F!First), F!Step("mkdir", F!First), F!Step("put", F!First)>>
    BY <1>2 DEF F!Plan
  <2>2. /\ Len(F!Plan) = 4 /\ DOMAIN F!Plan = 1 .. 4
        /\ F!Plan[1] = F!Step("connect", F!First)
        /\ F!Plan[2] = F!Step("absent", F!First)
        /\ F!Plan[3] = F!Step("mkdir", F!First)
        /\ F!Plan[4] = F!Step("put", F!First)
    BY <2>1, Front4
  <2> QED BY <2>2 DEF F!Step, Harmless, Changing
<1>3. CASE op.kind = "delete"
  <2>1. F!Plan = <<F!Step("connect", F!First)>>
                 \o <<F!Step("present", F!First), F!Step("remove", F!First)>>
    BY <1>3 DEF F!Plan
  <2>2. /\ Len(F!Plan) = 3 /\ DOMAIN F!Plan = 1 .. 3
        /\ F!Plan[1] = F!Step("connect", F!First)
        /\ F!Plan[2] = F!Step("present", F!First)
        /\ F!Plan[3] = F!Step("remove", F!First)
    BY <2>1, Front3
  <2> QED BY <2>2 DEF F!Step, Harmless, Changing
<1>4. CASE op.kind = "rename"
  <2>1. F!Plan = <<F!Step("connect", F!First)>>
                 \o <<F!Step("mkdir", F!First), F!Step("move", F!First)>>
    BY <1>4 DEF F!Plan
  <2>2. /\ Len(F!Plan) = 3 /\ DOMAIN F!Plan = 1 .. 3
        /\ F!Plan[1] = F!Step("connect", F!First)
        /\ F!Plan[2] = F!Step("mkdir", F!First)
        /\ F!Plan[3] = F!Step("move", F!First)
    BY <2>1, Front3
  <2> QED BY <2>2 DEF F!Step, Harmless, Changing
<1> QED BY <1>1, <1>2, <1>3, <1>4 DEF PlainKinds

LEMMA NowIs ==
  ASSUME F!FtpAssumption, op \in FtpOps, at \in DOMAIN F!Plan
  PROVE  F!Now.file \in F!InTree
<1>1. F!First \in F!InTree
  BY TreeIs
<1>2. CASE op.kind = "sync"
  <2>1. F!Plan \in Seq(FileSteps)
    BY <1>2, SyncPlan
  <2>2. F!Plan[at] \in FileSteps
    BY <2>1
  <2> QED BY <2>2 DEF F!Now, FileSteps
<1>3. CASE op.kind \in PlainKinds
  <2>1. F!Plan[at].file = F!First
    BY <1>3, PlainPlan
  <2> QED BY <2>1, <1>1 DEF F!Now
<1>4. op.kind \in F!Kinds
  BY OpIs
<1> QED BY <1>2, <1>3, <1>4 DEF F!Kinds, PlainKinds

LEMMA EffectTypes ==
  ASSUME F!FtpAssumption, NEW do, NEW f \in F!InTree, NEW whole \in BOOLEAN,
         remote \in [F!Names -> F!Contents], stage \in [F!Names -> F!Contents],
         F!Effect(do, f, whole)
  PROVE  remote' \in [F!Names -> F!Contents] /\ stage' \in [F!Names -> F!Contents]
<1> DEFINE content == IF whole THEN "new" ELSE "partial"
<1>1. content \in F!Contents /\ "none" \in F!Contents
  BY DEF F!Contents
<1>2. f \in F!Names /\ Tree[2] \in F!Names
  <2>1. 2 \in Files
    BY TreeIs DEF Files
  <2>2. Tree[2] \in F!InTree
    BY <2>1, TreeIs
  <2> QED BY <2>2 DEF F!Names
<1>3. remote[f] \in F!Contents /\ stage[f] \in F!Contents
  BY <1>2
<1> HIDE DEF content
<1>4. CASE do = "put"
  <2>1. remote' = [remote EXCEPT ![f] = content] /\ stage' = stage
    BY <1>4 DEF F!Effect, content
  <2> QED BY <2>1, <1>1
<1>5. CASE do = "upload"
  <2>1. stage' = [stage EXCEPT ![f] = content] /\ remote' = remote
    BY <1>5 DEF F!Effect, content
  <2> QED BY <2>1, <1>1
<1>6. CASE do \in {"remove", "drop"}
  <2>1. remote' = [remote EXCEPT ![f] = "none"] /\ stage' = stage
    BY <1>6 DEF F!Effect
  <2> QED BY <2>1, <1>1
<1>7. CASE do = "replace"
  <2>1. remote' = [remote EXCEPT ![f] = stage[f]] /\ stage' = [stage EXCEPT ![f] = "none"]
    BY <1>7 DEF F!Effect
  <2> QED BY <2>1, <1>1, <1>3
<1>8. CASE do = "move"
  <2>1. remote' = [remote EXCEPT ![f] = "none", ![Tree[2]] = remote[f]] /\ stage' = stage
    BY <1>8 DEF F!Effect
  <2> QED BY <2>1, <1>1, <1>2, <1>3
<1>9. CASE do \notin {"put", "upload", "remove", "drop", "replace", "move"}
  BY <1>9 DEF F!Effect
<1> QED BY <1>4, <1>5, <1>6, <1>7, <1>8, <1>9

LEMMA RemovedTypes ==
  ASSUME remote \in [F!Names -> F!Contents], stage \in [F!Names -> F!Contents],
         NEW x \in [stage : BOOLEAN, name : F!Names], F!Removed(x)
  PROVE  /\ remote' \in [F!Names -> F!Contents] /\ stage' \in [F!Names -> F!Contents]
         /\ x.stage => remote' = remote /\ stage' = [stage EXCEPT ![x.name] = "none"]
         /\ ~x.stage => stage' = stage /\ remote' = [remote EXCEPT ![x.name] = "none"]
<1>1. x.stage \in BOOLEAN /\ x.name \in F!Names
  OBVIOUS
<1>2. CASE x.stage
  <2>1. /\ remote' = [remote EXCEPT ![x.name] = remote[x.name]]
        /\ stage' = [stage EXCEPT ![x.name] = "none"]
    BY <1>2 DEF F!Removed
  <2>2. remote' = remote
    BY <2>1, <1>1
  <2> QED BY <2>1, <2>2, <1>1, <1>2 DEF F!Contents
<1>3. CASE ~x.stage
  <2>1. /\ stage' = [stage EXCEPT ![x.name] = stage[x.name]]
        /\ remote' = [remote EXCEPT ![x.name] = "none"]
    BY <1>3 DEF F!Removed
  <2>2. stage' = stage
    BY <2>1, <1>1
  <2> QED BY <2>1, <2>2, <1>1, <1>3 DEF F!Contents
<1> QED BY <1>1, <1>2, <1>3

\* A step that ends the attempt and leaves the server as it is.
Stops == F!FindsOtherwise \/ F!Busy \/ F!Refused \/ F!ResolveFails \/ F!LinkGone

LEMMA StopsDo ==
  ASSUME Stops
  PROVE  /\ F!Going /\ error' # "none" /\ Quiet
         /\ UNCHANGED <<op, status, attempt, at, todo>>
         /\ error' \in {"final", "transient", "exists", "missing"}
         /\ error' \in {"exists", "missing"} => F!FindsOtherwise
<1>1. CASE F!FindsOtherwise
  BY <1>1 DEF F!FindsOtherwise, Quiet
<1>2. CASE F!Busy
  BY <1>2 DEF F!Busy, Quiet
<1>3. CASE F!Refused
  BY <1>3 DEF F!Refused, Quiet
<1>4. CASE F!ResolveFails
  BY <1>4 DEF F!ResolveFails, Quiet
<1>5. CASE F!LinkGone
  BY <1>5 DEF F!LinkGone, Quiet
<1> QED BY <1>1, <1>2, <1>3, <1>4, <1>5 DEF Stops

LEMMA FtpTypesKept ==
  ASSUME F!FtpAssumption, FtpTypes, [F!Next]_F!vars PROVE FtpTypes' /\ op' = op
<1> USE DEF FtpTypes
<1>0. MaxAttempts \in Nat
  BY DEF F!FtpAssumption
<1>1. CASE F!Begin
  BY <1>0, <1>1 DEF F!Begin
<1>2. CASE F!Does
  <2>1. F!Effect(F!Now.do, F!Now.file, TRUE) /\ F!Now.file \in F!InTree
    BY <1>2, NowIs DEF F!Does, F!Going
  <2>2. remote' \in [F!Names -> F!Contents] /\ stage' \in [F!Names -> F!Contents]
    BY <2>1, EffectTypes
  <2>3. F!Surplus \subseteq [stage : BOOLEAN, name : F!Names]
    BY DEF F!Surplus, F!Names
  <2>4. UNCHANGED <<op, status, attempt, error>> /\ at' = at + 1 /\ todo' \in {F!Surplus, todo}
    BY <1>2 DEF F!Does
  <2> QED BY <2>2, <2>3, <2>4
<1>3. CASE Stops
  BY <1>3, StopsDo DEF Quiet
<1>4. CASE F!Breaks
  <2>1. F!Now.file \in F!InTree
    BY <1>4, NowIs DEF F!Breaks, F!Going
  <2>2. \/ UNCHANGED <<remote, stage>>
        \/ \E whole \in BOOLEAN : F!Effect(F!Now.do, F!Now.file, whole)
    BY <1>4 DEF F!Breaks
  <2>3. remote' \in [F!Names -> F!Contents] /\ stage' \in [F!Names -> F!Contents]
    BY <2>1, <2>2, EffectTypes
  <2>4. UNCHANGED <<op, status, attempt, at, todo>> /\ error' \in {"transient", "final"}
    BY <1>4 DEF F!Breaks
  <2> QED BY <2>3, <2>4
<1>5. CASE F!DropIgnored
  <2>1. F!Now.file \in F!InTree
    BY <1>5, NowIs DEF F!DropIgnored, F!Going
  <2>2. F!Effect("drop", F!Now.file, TRUE) \/ UNCHANGED <<remote, stage>>
    BY <1>5 DEF F!DropIgnored
  <2>3. remote' \in [F!Names -> F!Contents] /\ stage' \in [F!Names -> F!Contents]
    BY <2>1, <2>2, EffectTypes
  <2>4. UNCHANGED <<op, status, attempt, error, todo>> /\ at' = at + 1
    BY <1>5 DEF F!DropIgnored
  <2> QED BY <2>3, <2>4
<1>6. ASSUME NEW x \in [stage : BOOLEAN, name : F!Names], F!Prunes(x) PROVE FtpTypes' /\ op' = op
  <2>1. remote' \in [F!Names -> F!Contents] /\ stage' \in [F!Names -> F!Contents]
    BY <1>6, RemovedTypes DEF F!Prunes
  <2>2. UNCHANGED <<op, status, attempt, at, error>> /\ todo' = todo \ {x}
    BY <1>6 DEF F!Prunes
  <2> QED BY <2>1, <2>2
<1>7. ASSUME NEW x \in [stage : BOOLEAN, name : F!Names], F!PruneFails(x)
      PROVE  FtpTypes' /\ op' = op
  <2>1. remote' \in [F!Names -> F!Contents] /\ stage' \in [F!Names -> F!Contents]
    BY <1>7, RemovedTypes DEF F!PruneFails
  <2>2. UNCHANGED <<op, status, attempt, at, todo>> /\ error' \in {"final", "transient"}
    BY <1>7 DEF F!PruneFails
  <2> QED BY <2>1, <2>2
<1>8. ASSUME NEW f \in F!Names, F!Cleans(f) PROVE FtpTypes' /\ op' = op
  <2>1. stage' \in [F!Names -> F!Contents]
    BY <1>8 DEF F!Cleans, F!Contents
  <2>2. UNCHANGED <<op, status, attempt, at, error, remote, todo>>
    BY <1>8 DEF F!Cleans
  <2> QED BY <2>1, <2>2
<1>9. CASE F!Returns
  BY <1>9 DEF F!Returns
<1>10. CASE UNCHANGED F!vars
  BY <1>10 DEF F!vars
<1> QED
  BY <1>1, <1>2, <1>3, <1>4, <1>5, <1>6, <1>7, <1>8, <1>9, <1>10 DEF F!Next, Stops


LEMMA Geometry ==
  ASSUME F!FtpAssumption, op \in FtpOps, op.kind = "sync"
  PROVE  /\ Len(F!Plan) \in Nat
         /\ \A i \in Files :
              /\ i \in Nat /\ i >= 1 /\ PlaceAt(i) \in Nat
              /\ \A j \in Files : j + 3 <= PlaceAt(i)
              /\ PlaceAt(i) <= Len(F!Plan) /\ PlaceAt(i) <= PlaceAt(Len(Tree))
              /\ \A j \in Files : PlaceAt(i) = PlaceAt(j) => i = j
              /\ ~op.server.atomic =>
                   \A j \in Files : PlaceAt(i) - 1 # PlaceAt(j) /\ j + 3 <= PlaceAt(i) - 1
         /\ Len(F!Plan) <= PlaceAt(Len(Tree)) + 1 /\ Len(F!Plan) >= PlaceAt(Len(Tree))
         /\ op.prune => Len(F!Plan) = PlaceAt(Len(Tree)) + 1
         /\ Len(F!Plan) >= 5
         /\ Len(Tree) \in Files
<1> DEFINE n == Len(Tree)
<1>1. n \in Nat /\ n >= 2 /\ Files = 1 .. n
  BY TreeIs DEF Files
<1>2. op.server.atomic \in BOOLEAN /\ op.prune \in BOOLEAN
  BY OpIs
<1>3. Len(F!Plan) = IF op.prune THEN PlaceAt(n) + 1 ELSE PlaceAt(n)
  BY SyncPlan
<1>4. CASE op.server.atomic
  <2>1. \A i \in Files : PlaceAt(i) = n + 2 + i
    BY <1>4 DEF PlaceAt
  <2>2. PlaceAt(n) = n + 2 + n
    BY <2>1, <1>1
  <2> QED BY <1>1, <1>2, <1>3, <1>4, <2>1, <2>2
<1>5. CASE ~op.server.atomic
  <2>1. \A i \in Files : PlaceAt(i) = n + 2 + 2 * i
    BY <1>5 DEF PlaceAt
  <2>2. PlaceAt(n) = n + 2 + 2 * n
    BY <2>1, <1>1
  <2> QED BY <1>1, <1>2, <1>3, <1>5, <2>1, <2>2
<1> QED BY <1>4, <1>5

\* Between attempts nothing is under way; before the first, nothing was done.
Rests ==
  /\ at = 0 => error = "none" /\ todo = {}
  /\ status # "running" => at = 0
  /\ attempt = 0 => at = 0 /\ remote = op.before

\* The other ops: until the last step is carried out the server is as it was.
PlainInv ==
  op.kind # "sync" =>
    /\ todo = {}
    /\ error # "none" => at <= Len(F!Plan)
    /\ status = "running" /\ error # "final" /\ at <= Len(F!Plan) => remote = op.before

\* A sync, at its step: what is uploaded, what is in place.
NonePartial == \A i \in Files : remote[Tree[i]] # "partial"
Progress ==
  error = "none" => \A i \in Files :
    /\ i + 2 < at /\ at <= PlaceAt(i) => stage[Tree[i]] = "new"
    /\ at > PlaceAt(i) => remote[Tree[i]] = "new" /\ stage[Tree[i]] = "none"
FirstTry ==
  attempt = 1 /\ at > 0 /\ error = "none" =>
    \A i \in Files : remote[Tree[i]] = "new" => at > PlaceAt(i)
\* Where a rename replaces, no file goes missing and nothing is pruned before all is in place.
Kept ==
  op.server.atomic =>
    /\ \A i \in Files : op.before[Tree[i]] # "none" => remote[Tree[i]] # "none"
    /\ (\E f \in Extra : remote[f] # op.before[f]) => \A i \in Files : remote[Tree[i]] = "new"
Surpluses ==
  /\ \A x \in todo : x.stage \/ x.name \in Extra
  /\ todo # {} => at > Len(F!Plan)
  /\ op.prune /\ error = "none" /\ at > Len(F!Plan) => \A f \in Extra :
       /\ remote[f] # "none" => \E x \in todo : ~x.stage /\ x.name = f
       /\ stage[f] # "none" => \E x \in todo : x.stage /\ x.name = f
Mirrored ==
  status = "succeeded" =>
    /\ \A i \in Files : remote[Tree[i]] = "new" /\ stage[Tree[i]] = "none"
    /\ op.prune => \A f \in Extra : remote[f] = "none" /\ stage[f] = "none"
SyncInv == NonePartial /\ Progress /\ FirstTry /\ Kept /\ Surpluses /\ Mirrored

FtpInv == FtpTypes /\ Rests /\ F!RetriesAreClean /\ PlainInv /\ (op.kind = "sync" => SyncInv)

LEMMA FtpInit == ASSUME F!FtpAssumption, F!Init PROVE FtpInv
<1>1. FtpTypes
  <2>1. op \in FtpOps
    BY DEF F!Init, FtpOps
  <2>2. remote \in [F!Names -> F!Contents]
    BY DEF F!Init, F!Contents
  <2>3. stage \in [F!Names -> F!Contents]
    BY DEF F!Init, F!Contents
  <2>4. 0 \in 0 .. MaxAttempts
    BY DEF F!FtpAssumption
  <2> QED BY <2>1, <2>2, <2>3, <2>4 DEF FtpTypes, F!Init
<1>2. Rests /\ F!RetriesAreClean /\ PlainInv
  BY DEF F!Init, Rests, F!RetriesAreClean, PlainInv
<1>3. ASSUME op.kind = "sync" PROVE SyncInv
  <2>1. /\ at = 0 /\ error = "none" /\ attempt = 0 /\ todo = {} /\ status = "running"
        /\ remote = op.before
    BY DEF F!Init
  <2>2. \A i \in Files : Tree[i] \in F!Names
    BY TreeIs DEF F!Names
  <2>3. \A i \in Files : remote[Tree[i]] \in {"none", "old"}
    BY <2>1, <2>2, <1>1, OpIs DEF FtpTypes
  <2> QED
    BY <1>1, <1>3, <2>1, <2>3, Geometry
    DEF SyncInv, NonePartial, Progress, FirstTry, Kept, Surpluses, Mirrored, FtpTypes
<1> QED BY <1>1, <1>2, <1>3 DEF FtpInv

LEMMA PlainNow ==
  ASSUME F!FtpAssumption, FtpTypes, op.kind # "sync", at \in DOMAIN F!Plan
  PROVE  /\ op.kind \in PlainKinds /\ Len(F!Plan) \in Nat /\ at <= Len(F!Plan)
         /\ F!Now.file = F!First /\ F!Now.do \in Harmless \union Changing
         /\ F!Now.do \in Changing => at = Len(F!Plan)
<1>1. op.kind \in PlainKinds
  BY OpIs DEF FtpTypes, F!Kinds, PlainKinds
<1> QED BY <1>1, PlainPlan DEF F!Now

LEMMA SyncDo ==
  ASSUME F!FtpAssumption, FtpTypes, op.kind = "sync", at \in DOMAIN F!Plan
  PROVE  F!Now.do \in {"connect", "mkdir", "upload", "replace", "drop", "walk"}
BY SyncNow DEF F!Step

LEMMA RestsKept ==
  ASSUME F!FtpAssumption, FtpInv, F!Next PROVE Rests'
<1>0. /\ at \in Nat /\ attempt \in Nat /\ Rests /\ op' = op
      /\ \A k : k \in DOMAIN F!Plan => k # 0
  <2>1. op \in FtpOps /\ op.kind \in F!Kinds
    BY OpIs DEF FtpInv, FtpTypes
  <2>2. \A k : k \in DOMAIN F!Plan => k # 0
    BY <2>1, SyncPlan, PlainPlan DEF F!Kinds, PlainKinds
  <2> QED BY <2>2, FtpTypesKept DEF FtpInv, FtpTypes
<1>1. CASE F!Begin
  BY <1>0, <1>1 DEF F!Begin, Rests
<1>2. CASE F!Does
  <2>1. at \in DOMAIN F!Plan /\ at' = at + 1 /\ UNCHANGED <<op, status, attempt, error>>
    BY <1>2 DEF F!Does, F!Going
  <2> QED BY <1>0, <2>1 DEF Rests
<1>3. CASE Stops
  <2>1. at \in DOMAIN F!Plan /\ UNCHANGED <<op, status, attempt, at>>
    BY <1>3, StopsDo DEF F!Going
  <2> QED BY <1>0, <2>1 DEF Rests
<1>4. CASE F!Breaks
  <2>1. at \in DOMAIN F!Plan /\ UNCHANGED <<op, status, attempt, at>>
    BY <1>4 DEF F!Breaks, F!Going
  <2> QED BY <1>0, <2>1 DEF Rests
<1>5. CASE F!DropIgnored
  <2>1. at \in DOMAIN F!Plan /\ at' = at + 1 /\ UNCHANGED <<op, status, attempt>>
    BY <1>5 DEF F!DropIgnored, F!Going
  <2> QED BY <1>0, <2>1 DEF Rests
<1>6. ASSUME NEW x \in [stage : BOOLEAN, name : F!Names], F!Prunes(x) PROVE Rests'
  <2>1. todo # {} /\ UNCHANGED <<op, status, attempt, at>>
    BY <1>6 DEF F!Prunes, F!Pruning
  <2> QED BY <1>0, <2>1 DEF Rests
<1>7. ASSUME NEW x \in [stage : BOOLEAN, name : F!Names], F!PruneFails(x) PROVE Rests'
  <2>1. todo # {} /\ UNCHANGED <<op, status, attempt, at>>
    BY <1>7 DEF F!PruneFails, F!Pruning
  <2> QED BY <1>0, <2>1 DEF Rests
<1>8. ASSUME NEW f \in F!Names, F!Cleans(f) PROVE Rests'
  <2>1. error # "none" /\ UNCHANGED <<op, status, attempt, at>>
    BY <1>8 DEF F!Cleans
  <2> QED BY <1>0, <2>1 DEF Rests
<1>9. CASE F!Returns
  <2>1. at > 0 /\ at' = 0 /\ error' = "none" /\ todo' = {} /\ UNCHANGED <<op, attempt>>
    BY <1>9 DEF F!Returns
  <2> QED BY <1>0, <2>1 DEF Rests
<1> QED BY <1>1, <1>2, <1>3, <1>4, <1>5, <1>6, <1>7, <1>8, <1>9 DEF F!Next, Stops

LEMMA CleanKept ==
  ASSUME F!FtpAssumption, FtpInv, F!Next PROVE F!RetriesAreClean'
<1>0. FtpTypes /\ Rests /\ op' = op /\ F!First' = F!First /\ F!RetriesAreClean
  BY FtpTypesKept DEF FtpInv, F!First
<1>1. CASE F!FindsOtherwise
  <2>1. /\ error = "none" /\ at \in DOMAIN F!Plan /\ (F!Missing \/ F!Exists)
        /\ error' = IF F!Missing THEN "missing" ELSE "exists"
    BY <1>1 DEF F!FindsOtherwise, F!Going
  <2>2. F!Now.do \in {"present", "move", "absent"}
    BY <2>1 DEF F!Missing, F!Exists
  <2>3. op.kind # "sync"
    BY <2>1, <2>2, <1>0, SyncDo
  <2>4. /\ op.kind \in PlainKinds /\ at <= Len(F!Plan) /\ F!Now.file = F!First
        /\ DOMAIN F!Plan = 1 .. Len(F!Plan)
    BY <2>1, <2>3, <1>0, PlainNow, PlainPlan
  <2>5. status = "running"
    BY <2>1, <2>4, <1>0 DEF Rests
  <2>6. remote = op.before
    BY <2>1, <2>3, <2>4, <2>5 DEF FtpInv, PlainInv
  <2> QED BY <2>1, <2>4, <2>6, <1>0 DEF F!Missing, F!Exists, F!RetriesAreClean
<1>2. CASE Stops /\ ~F!FindsOtherwise
  BY <1>0, <1>2, StopsDo DEF F!RetriesAreClean
<1>3. CASE \/ F!Begin \/ F!Does \/ F!DropIgnored
           \/ \E x \in [stage : BOOLEAN, name : F!Names] : F!Prunes(x)
           \/ \E f \in F!Names : F!Cleans(f)
  <2>1. error' = error
    BY <1>3 DEF F!Begin, F!Does, F!DropIgnored, F!Prunes, F!Cleans
  <2> QED BY <1>0, <2>1 DEF F!RetriesAreClean
<1>4. CASE \/ F!Breaks \/ F!Returns
           \/ \E x \in [stage : BOOLEAN, name : F!Names] : F!PruneFails(x)
  <2>1. error' \in {"none", "transient", "final"}
    BY <1>4 DEF F!Breaks, F!Returns, F!PruneFails
  <2> QED BY <2>1 DEF F!RetriesAreClean
<1> QED BY <1>1, <1>2, <1>3, <1>4 DEF F!Next, Stops


LEMMA PlainKept ==
  ASSUME F!FtpAssumption, FtpInv, F!Next, op.kind # "sync" PROVE PlainInv'
<1> DEFINE n == Len(F!Plan)
           Good == status = "running" /\ error # "final" /\ at <= n => remote = op.before
<1>0. /\ FtpTypes /\ Rests /\ op' = op /\ F!Plan' = F!Plan /\ todo = {} /\ at \in Nat
      /\ (error # "none" => at <= n) /\ Good
  BY FtpTypesKept, PlanKept DEF FtpInv, FtpTypes, PlainInv
<1>00. n \in Nat /\ n > 0
  <2>1. op.kind \in PlainKinds
    BY <1>0, OpIs DEF FtpTypes, F!Kinds, PlainKinds
  <2>2. n \in Nat /\ DOMAIN F!Plan = 1 .. n
    BY <2>1, PlainPlan
  <2>3. CASE op.kind = "create"
    BY <2>3, Front4 DEF F!Plan
  <2>4. CASE op.kind \in {"write", "delete", "rename"}
    BY <2>4, Front3 DEF F!Plan
  <2> QED BY <2>1, <2>2, <2>3, <2>4 DEF PlainKinds
<1>000. SUFFICES /\ todo' = {}
                 /\ error' # "none" => at' <= n
                 /\ status' = "running" /\ error' # "final" /\ at' <= n => remote' = op.before
  BY <1>0 DEF PlainInv
<1> HIDE DEF n
<1>1. CASE F!Begin
  <2>1. at = 0 /\ at' = 1 /\ UNCHANGED <<status, error, remote, todo>>
    BY <1>1 DEF F!Begin
  <2> QED BY <1>0, <1>00, <2>1 DEF Rests
<1>2. CASE F!Does
  <2>1. /\ at \in DOMAIN F!Plan /\ at' = at + 1 /\ error = "none"
        /\ UNCHANGED <<status, error>> /\ F!Effect(F!Now.do, F!Now.file, TRUE)
        /\ todo' = IF F!Now.do = "walk" THEN F!Surplus ELSE todo
    BY <1>2 DEF F!Does, F!Going
  <2>2. /\ F!Now.do \in Harmless \union Changing /\ at <= n
        /\ F!Now.do \in Changing => at = n
    BY <1>0, <2>1, PlainNow DEF n
  <2>3. todo' = {}
    BY <1>0, <2>1, <2>2 DEF Harmless, Changing
  <2>4. CASE F!Now.do \in Harmless
    <3>1. remote' = remote
      BY <2>1, <2>4 DEF F!Effect, Harmless
    <3> QED BY <1>0, <1>00, <2>1, <2>2, <2>3, <3>1
  <2>5. CASE F!Now.do \in Changing
    BY <1>0, <1>00, <2>1, <2>2, <2>3, <2>5
  <2> QED BY <2>2, <2>4, <2>5
<1>3. CASE Stops
  <2>1. error = "none" /\ at \in DOMAIN F!Plan /\ remote' = remote /\ UNCHANGED <<status, at, todo>>
    BY <1>3, StopsDo DEF F!Going, Quiet
  <2>2. at <= n
    BY <1>0, <2>1, PlainNow DEF n
  <2> QED BY <1>0, <2>1, <2>2
<1>4. CASE F!Breaks
  <2>1. /\ at \in DOMAIN F!Plan /\ error = "none" /\ UNCHANGED <<status, at, todo>>
        /\ \/ UNCHANGED <<remote, stage>>
           \/ \E whole \in BOOLEAN : F!Effect(F!Now.do, F!Now.file, whole)
        /\ error' = IF F!RepeatsAfterBreak(F!Now.do) THEN "transient" ELSE "final"
    BY <1>4 DEF F!Breaks, F!Going
  <2>2. F!Now.do \in Harmless \union Changing /\ at <= n
    BY <1>0, <2>1, PlainNow DEF n
  <2>3. CASE F!Now.do \in Harmless
    <3>1. remote' = remote
      BY <2>1, <2>3 DEF F!Effect, Harmless
    <3> QED BY <1>0, <2>1, <2>2, <3>1
  <2>4. CASE F!Now.do \in Changing
    <3>1. error' = "final"
      BY <2>1, <2>4 DEF F!RepeatsAfterBreak, F!IsRead, Changing
    <3> QED BY <1>0, <2>1, <2>2, <3>1
  <2> QED BY <2>2, <2>3, <2>4
<1>5. CASE F!DropIgnored
  <2>1. at \in DOMAIN F!Plan /\ F!Now.do = "drop"
    BY <1>5 DEF F!DropIgnored, F!Going
  <2> QED BY <1>0, <2>1, PlainNow DEF Harmless, Changing
<1>6. ASSUME NEW x \in [stage : BOOLEAN, name : F!Names], F!Prunes(x) \/ F!PruneFails(x)
      PROVE  FALSE
  BY <1>6, <1>0 DEF F!Prunes, F!PruneFails
<1>7. ASSUME NEW f \in F!Names, F!Cleans(f)
      PROVE  UNCHANGED <<status, at, error, remote, todo>>
  BY <1>7 DEF F!Cleans
<1>8. CASE UNCHANGED <<status, at, error, remote, todo>>
  BY <1>0, <1>8
<1>9. CASE F!Returns
  <2>1. /\ at > 0 /\ at' = 0 /\ error' = "none" /\ todo' = {} /\ remote' = remote
        /\ status' = CASE error = "none" -> "succeeded"
                       [] error = "transient" /\ attempt < MaxAttempts -> "running"
                       [] OTHER -> "failed"
    BY <1>9 DEF F!Returns
  <2>2. status' = "running" => error = "transient" /\ status = "running"
    BY <2>1, <1>0 DEF Rests, FtpTypes
  <2> QED BY <1>0, <1>00, <2>1, <2>2
<1> QED BY <1>1, <1>2, <1>3, <1>4, <1>5, <1>6, <1>7, <1>8, <1>9 DEF F!Next, Stops


\* What the steps of a sync rely on.
Syncing ==
  /\ FtpTypes /\ Rests /\ SyncInv /\ op' = op /\ F!Plan' = F!Plan /\ op.kind = "sync"
  /\ FtpTypes' /\ \A i \in Files : PlaceAt(i)' = PlaceAt(i)

LEMMA TreeNames ==
  ASSUME F!FtpAssumption
  PROVE  /\ \A i \in Files : Tree[i] \in F!Names /\ Tree[i] \notin Extra
         /\ \A i, j \in Files : i # j => Tree[i] # Tree[j]
         /\ \A f \in Extra : f \in F!Names /\ \A i \in Files : f # Tree[i]
BY TreeIs DEF F!Names

LEMMA SyncFacts ==
  ASSUME F!FtpAssumption, FtpInv, [F!Next]_F!vars, op.kind = "sync"
  PROVE  Syncing
<1>1. FtpTypes' /\ op' = op
  BY FtpTypesKept DEF FtpInv
<1>2. \A i \in Files : PlaceAt(i)' = PlaceAt(i)
  BY <1>1 DEF PlaceAt
<1> QED BY <1>1, <1>2, PlanKept DEF FtpInv, Syncing

\* Nothing of the server changes and the attempt is over, or goes no further.
LEMMA SyncQuiet ==
  ASSUME F!FtpAssumption, Syncing, Quiet, UNCHANGED <<status, attempt, at, todo>>,
         error' # "none" \/ error' = error
  PROVE  SyncInv'
BY DEF Syncing, Quiet, SyncInv, NonePartial, Progress, FirstTry, Kept, Surpluses, Mirrored

LEMMA SyncPasses ==
  ASSUME F!FtpAssumption, Syncing, Quiet, UNCHANGED <<status, attempt, error>>,
         error = "none", at' = at + 1,
         \/ at \in {1, 2} /\ todo' = todo
         \/ op.prune /\ at = PlaceAt(Len(Tree)) + 1 /\ todo' = F!Surplus
  PROVE  SyncInv'
<1>1. /\ NonePartial /\ Progress /\ FirstTry /\ Kept /\ Surpluses /\ Mirrored /\ op' = op
      /\ F!Plan' = F!Plan /\ \A i \in Files : PlaceAt(i)' = PlaceAt(i)
      /\ at \in Nat /\ remote' = remote /\ stage' = stage /\ op \in FtpOps
      /\ op.kind = "sync" /\ Rests
  BY DEF Syncing, SyncInv, FtpTypes, Quiet
<1>2. NonePartial' /\ Kept'
  BY <1>1 DEF NonePartial, Kept
<1>3. \A i \in Files : /\ i + 2 < at' /\ at' <= PlaceAt(i) <=> i + 2 < at /\ at <= PlaceAt(i)
                       /\ at' > PlaceAt(i) <=> at > PlaceAt(i)
  <2> SUFFICES ASSUME NEW i \in Files
               PROVE  /\ i + 2 < at' /\ at' <= PlaceAt(i) <=> i + 2 < at /\ at <= PlaceAt(i)
                      /\ at' > PlaceAt(i) <=> at > PlaceAt(i)
    OBVIOUS
  <2>1. /\ i \in Nat /\ i >= 1 /\ PlaceAt(i) \in Nat /\ i + 3 <= PlaceAt(i)
        /\ PlaceAt(i) <= PlaceAt(Len(Tree)) /\ PlaceAt(Len(Tree)) \in Nat
    BY <1>1, Geometry
  <2>2. \/ at \in {1, 2}
        \/ at = PlaceAt(Len(Tree)) + 1
    OBVIOUS
  <2>3. at' = at + 1 /\ at \in Nat
    BY <1>1
  <2> QED BY <2>1, <2>2, <2>3
<1>4. Progress' /\ FirstTry'
  <2>1. Progress'
    BY <1>1, <1>3 DEF Progress
  <2>2. at # 0
    BY <1>1, Geometry
  <2>3. FirstTry'
    BY <1>1, <1>3, <2>2 DEF FirstTry
  <2> QED BY <2>1, <2>3
<1>5. Surpluses'
  <2>1. CASE at \in {1, 2} /\ todo' = todo
    <3>1. at' <= Len(F!Plan) /\ at <= Len(F!Plan)
      BY <2>1, <1>1, Geometry
    <3>2. todo = {}
      BY <3>1, <1>1, Geometry DEF Surpluses
    <3> QED BY <2>1, <3>1, <3>2, <1>1, Geometry DEF Surpluses
  <2>2. CASE op.prune /\ at = PlaceAt(Len(Tree)) + 1 /\ todo' = F!Surplus
    <3>1. at' > Len(F!Plan)
      BY <2>2, <1>1, Geometry
    <3>2. ASSUME NEW f \in Extra
          PROVE  /\ remote[f] # "none" => \E x \in F!Surplus : ~x.stage /\ x.name = f
                 /\ stage[f] # "none" => \E x \in F!Surplus : x.stage /\ x.name = f
      <4>1. f \in F!Names
        BY TreeNames
      <4>2. remote[f] # "none" => [stage |-> FALSE, name |-> f] \in F!Surplus
        BY <3>2 DEF F!Surplus
      <4>3. stage[f] # "none" => [stage |-> TRUE, name |-> f] \in F!Surplus
        BY <4>1 DEF F!Surplus
      <4> QED BY <4>2, <4>3
    <3>3. ASSUME NEW x \in F!Surplus PROVE x.stage \/ x.name \in Extra
      BY <3>3 DEF F!Surplus
    <3> QED BY <2>2, <3>1, <3>2, <3>3, <1>1 DEF Surpluses
  <2> QED BY <2>1, <2>2
<1>6. Mirrored'
  <2>1. status # "succeeded"
    BY <1>1, Geometry, TreeIs DEF Rests, Files
  <2> QED BY <2>1 DEF Mirrored
<1> QED BY <1>2, <1>4, <1>5, <1>6 DEF SyncInv

LEMMA SyncUploads ==
  ASSUME F!FtpAssumption, Syncing, NEW i \in Files, Uploads(i), at = i + 2, at' = at + 1,
         error = "none", UNCHANGED <<status, attempt, error, todo>>
  PROVE  SyncInv'
<1>1. /\ NonePartial /\ Progress /\ FirstTry /\ Kept /\ Surpluses /\ Mirrored /\ op' = op
      /\ F!Plan' = F!Plan /\ \A j \in Files : PlaceAt(j)' = PlaceAt(j)
      /\ at \in Nat /\ remote' = remote /\ op \in FtpOps
      /\ op.kind = "sync" /\ Rests /\ stage \in [F!Names -> F!Contents]
      /\ stage' = [stage EXCEPT ![Tree[i]] = "new"]
  BY DEF Syncing, SyncInv, FtpTypes, Uploads
<1>2. NonePartial' /\ Kept'
  BY <1>1 DEF NonePartial, Kept
<1>3. /\ stage'[Tree[i]] = "new"
      /\ \A j \in Files : j # i => stage'[Tree[j]] = stage[Tree[j]]
      /\ \A f \in Extra : stage'[f] = stage[f]
  BY <1>1, TreeNames
<1>4. i \in Nat /\ at' <= Len(F!Plan) /\ at <= Len(F!Plan) /\ at # 0
  BY <1>1, Geometry
<1>5. \A j \in Files : ~(at > PlaceAt(j)) /\ ~(at' > PlaceAt(j))
  <2>1. at = i + 2 /\ at' = i + 3 /\ i \in Nat
    BY <1>4
  <2>2. \A j \in Files : PlaceAt(j) \in Nat /\ i + 3 <= PlaceAt(j)
    BY <1>1, Geometry
  <2> QED BY <2>1, <2>2
<1>6. ASSUME NEW j \in Files, j + 2 < at' PROVE stage'[Tree[j]] = "new"
  <2>1. CASE j = i
    BY <2>1, <1>3
  <2>2. CASE j # i
    <3>1. j \in Nat /\ PlaceAt(j) \in Nat /\ i + 3 <= PlaceAt(j) /\ at = i + 2 /\ at' = i + 3
      BY <1>4, <1>1, Geometry
    <3>2. j + 2 < at /\ at <= PlaceAt(j)
      BY <2>2, <3>1, <1>4, <1>6
    <3> QED BY <3>2, <2>2, <1>1, <1>3 DEF Progress
  <2> QED BY <2>1, <2>2
<1>7. Progress'
  BY <1>1, <1>5, <1>6 DEF Progress
<1>8. FirstTry'
  BY <1>1, <1>4, <1>5 DEF FirstTry
<1>9. Surpluses'
  BY <1>1, <1>4, Geometry DEF Surpluses
<1>10. Mirrored'
  BY <1>1, <1>4 DEF Mirrored, Rests
<1> QED BY <1>2, <1>7, <1>8, <1>9, <1>10 DEF SyncInv

LEMMA ReplacedNew ==
  ASSUME F!FtpAssumption, Syncing, NEW i \in Files, Replaces(i), at = PlaceAt(i), error = "none"
  PROVE  /\ remote'[Tree[i]] = "new" /\ stage'[Tree[i]] = "none"
         /\ \A f \in F!Names : f # Tree[i] => remote'[f] = remote[f] /\ stage'[f] = stage[f]
         /\ NonePartial' /\ Kept'
<1>1. /\ NonePartial /\ Progress /\ Kept /\ op' = op
      /\ op \in FtpOps /\ op.kind = "sync"
      /\ remote \in [F!Names -> F!Contents] /\ stage \in [F!Names -> F!Contents]
      /\ remote' = [remote EXCEPT ![Tree[i]] = stage[Tree[i]]]
      /\ stage' = [stage EXCEPT ![Tree[i]] = "none"]
  BY DEF Syncing, SyncInv, FtpTypes, Replaces
<1>2. stage[Tree[i]] = "new"
  <2>1. i + 2 < at /\ at <= PlaceAt(i)
    BY <1>1, Geometry
  <2> QED BY <2>1, <1>1 DEF Progress
<1>3. /\ remote'[Tree[i]] = "new" /\ stage'[Tree[i]] = "none"
      /\ \A f \in F!Names : f # Tree[i] => remote'[f] = remote[f] /\ stage'[f] = stage[f]
  BY <1>1, <1>2, TreeNames
<1>4. NonePartial'
  BY <1>1, <1>3, TreeNames DEF NonePartial
<1>5. Kept'
  BY <1>1, <1>3, TreeNames DEF Kept
<1> QED BY <1>3, <1>4, <1>5

LEMMA SyncReplaces ==
  ASSUME F!FtpAssumption, Syncing, NEW i \in Files, Replaces(i), at = PlaceAt(i), at' = at + 1,
         error = "none", UNCHANGED <<status, attempt, error, todo>>
  PROVE  SyncInv'
<1>1. /\ Progress /\ FirstTry /\ Surpluses /\ Mirrored /\ op' = op
      /\ F!Plan' = F!Plan /\ \A j \in Files : PlaceAt(j)' = PlaceAt(j)
      /\ at \in Nat /\ op \in FtpOps /\ op.kind = "sync" /\ Rests
  BY DEF Syncing, SyncInv, FtpTypes
<1>2. /\ NonePartial' /\ Kept' /\ remote'[Tree[i]] = "new" /\ stage'[Tree[i]] = "none"
      /\ \A j \in Files : j # i => remote'[Tree[j]] = remote[Tree[j]]
                                   /\ stage'[Tree[j]] = stage[Tree[j]]
      /\ \A f \in Extra : remote'[f] = remote[f] /\ stage'[f] = stage[f]
  BY ReplacedNew, TreeNames
<1>3. \A j \in Files : j # i => (at' > PlaceAt(j) <=> at > PlaceAt(j))
  BY <1>1, Geometry
<1>4. at' > PlaceAt(i) /\ at <= Len(F!Plan) /\ at # 0
  BY <1>1, Geometry
<1>5. ASSUME NEW j \in Files, at' <= PlaceAt(j) PROVE stage'[Tree[j]] = "new"
  <2>1. j # i /\ j + 2 < at /\ at <= PlaceAt(j)
    BY <1>1, <1>5, Geometry
  <2> QED BY <2>1, <1>1, <1>2 DEF Progress
<1>6. ASSUME NEW j \in Files, at' > PlaceAt(j)
      PROVE  remote'[Tree[j]] = "new" /\ stage'[Tree[j]] = "none"
  BY <1>1, <1>2, <1>3, <1>6 DEF Progress
<1>7. Progress'
  BY <1>1, <1>5, <1>6 DEF Progress
<1>8. FirstTry'
  <2> SUFFICES ASSUME attempt = 1, NEW j \in Files, remote'[Tree[j]] = "new"
               PROVE  at' > PlaceAt(j)
    BY <1>1 DEF FirstTry
  <2> QED BY <1>1, <1>2, <1>3, <1>4 DEF FirstTry
<1>9. Surpluses'
  <2>1. todo = {}
    BY <1>1, <1>4, Geometry DEF Surpluses
  <2>2. op.prune => at' <= Len(F!Plan)
    BY <1>1, Geometry
  <2> QED BY <2>1, <2>2, <1>1, Geometry DEF Surpluses
<1>10. Mirrored'
  BY <1>1, <1>4 DEF Mirrored, Rests
<1> QED BY <1>2, <1>7, <1>8, <1>9, <1>10 DEF SyncInv

LEMMA DroppedGone ==
  ASSUME F!FtpAssumption, Syncing, NEW i \in Files, Drops(i), ~op.server.atomic
  PROVE  /\ remote'[Tree[i]] = "none" /\ stage' = stage
         /\ \A f \in F!Names : f # Tree[i] => remote'[f] = remote[f]
         /\ NonePartial' /\ Kept'
<1>1. /\ NonePartial /\ op' = op
      /\ remote \in [F!Names -> F!Contents] /\ stage' = stage
      /\ remote' = [remote EXCEPT ![Tree[i]] = "none"]
  BY DEF Syncing, SyncInv, FtpTypes, Drops
<1>2. /\ remote'[Tree[i]] = "none"
      /\ \A f \in F!Names : f # Tree[i] => remote'[f] = remote[f]
  BY <1>1, TreeNames
<1>3. NonePartial'
  BY <1>1, <1>2, TreeNames DEF NonePartial
<1>4. Kept'
  BY <1>1 DEF Kept
<1> QED BY <1>1, <1>2, <1>3, <1>4

LEMMA SyncDrops ==
  ASSUME F!FtpAssumption, Syncing, NEW i \in Files, Drops(i) \/ Quiet, ~op.server.atomic,
         at = PlaceAt(i) - 1, at' = at + 1,
         error = "none", UNCHANGED <<status, attempt, error, todo>>
  PROVE  SyncInv'
<1>1. /\ NonePartial /\ Kept /\ Progress /\ FirstTry /\ Surpluses /\ Mirrored /\ op' = op
      /\ F!Plan' = F!Plan /\ \A j \in Files : PlaceAt(j)' = PlaceAt(j)
      /\ at \in Nat /\ op \in FtpOps /\ op.kind = "sync" /\ Rests
  BY DEF Syncing, SyncInv, FtpTypes
<1>2. /\ NonePartial' /\ Kept' /\ stage' = stage
      /\ remote'[Tree[i]] \in {"none", remote[Tree[i]]}
      /\ \A j \in Files : j # i => remote'[Tree[j]] = remote[Tree[j]]
      /\ \A f \in Extra : remote'[f] = remote[f]
  <2>1. CASE Drops(i)
    BY <2>1, DroppedGone, TreeNames
  <2>2. CASE Quiet
    BY <2>2, <1>1 DEF Quiet, NonePartial, Kept
  <2> QED BY <2>1, <2>2
<1>03. ASSUME NEW j \in Files
       PROVE  /\ j \in Nat /\ PlaceAt(i) \in Nat /\ PlaceAt(j) \in Nat
              /\ PlaceAt(i) - 1 # PlaceAt(j) /\ j + 3 <= PlaceAt(i) - 1
  BY <1>1, Geometry
<1>3. \A j \in Files : at' > PlaceAt(j) <=> at > PlaceAt(j)
  BY <1>1, <1>03
<1>4. ~(at > PlaceAt(i)) /\ at <= Len(F!Plan) /\ at' <= Len(F!Plan) /\ at # 0
  BY <1>1, Geometry
<1>5. ASSUME NEW j \in Files, at' <= PlaceAt(j) PROVE stage'[Tree[j]] = "new"
  <2>1. j + 2 < at /\ at <= PlaceAt(j)
    BY <1>1, <1>5, <1>03
  <2> QED BY <2>1, <1>1, <1>2 DEF Progress
<1>6. ASSUME NEW j \in Files, at' > PlaceAt(j)
      PROVE  remote'[Tree[j]] = "new" /\ stage'[Tree[j]] = "none"
  BY <1>1, <1>2, <1>3, <1>4, <1>6 DEF Progress
<1>7. Progress'
  BY <1>1, <1>5, <1>6 DEF Progress
<1>8. FirstTry'
  <2> SUFFICES ASSUME attempt = 1, NEW j \in Files, remote'[Tree[j]] = "new"
               PROVE  at' > PlaceAt(j)
    BY <1>1 DEF FirstTry
  <2>1. remote[Tree[j]] = "new"
    <3>1. CASE j = i
      BY <3>1, <1>2
    <3>2. CASE j # i
      BY <3>2, <1>2
    <3> QED BY <3>1, <3>2
  <2>2. at > 0
    <3>1. at \in Nat
      BY <1>1
    <3>2. at # 0
      BY <1>4
    <3>3. PlaceAt(i) \in Nat /\ i \in Nat /\ i + 3 <= PlaceAt(i) - 1
      BY <1>03
    <3> QED BY <3>1, <3>2, <3>3
  <2>3. at > PlaceAt(j)
    BY <2>1, <2>2, <1>1 DEF FirstTry
  <2> QED BY <2>3, <1>3
<1>9. Surpluses'
  <2>1. todo = {}
    BY <1>1, <1>4, Geometry DEF Surpluses
  <2> QED BY <2>1, <1>1, <1>4, Geometry DEF Surpluses
<1>10. Mirrored'
  BY <1>1, <1>4 DEF Mirrored, Rests
<1> QED BY <1>2, <1>7, <1>8, <1>9, <1>10 DEF SyncInv


LEMMA SyncBegins ==
  ASSUME F!FtpAssumption, Syncing, F!Begin PROVE SyncInv'
<1>1. /\ NonePartial /\ Kept /\ Surpluses /\ Rests /\ op' = op /\ F!Plan' = F!Plan
      /\ \A j \in Files : PlaceAt(j)' = PlaceAt(j)
      /\ op \in FtpOps /\ op.kind = "sync" /\ attempt \in Nat
      /\ op.before \in [F!Names -> {"none", "old"}]
  BY OpIs DEF Syncing, SyncInv, FtpTypes
<1>2. /\ status = "running" /\ at = 0 /\ at' = 1 /\ attempt' = attempt + 1
      /\ UNCHANGED <<status, error, remote, stage, todo>>
  BY DEF F!Begin
<1>3. NonePartial' /\ Kept'
  BY <1>1, <1>2 DEF NonePartial, Kept
<1>4. Progress'
  <2>1. \A j \in Files : ~(j + 2 < at') /\ ~(at' > PlaceAt(j))
    BY <1>1, <1>2, Geometry
  <2> QED BY <2>1, <1>1 DEF Progress
<1>5. FirstTry'
  <2>1. attempt' = 1 => \A j \in Files : remote'[Tree[j]] # "new"
    BY <1>1, <1>2, TreeNames DEF Rests
  <2> QED BY <2>1 DEF FirstTry
<1>6. Surpluses'
  <2>1. todo' = {} /\ ~(at' > Len(F!Plan))
    BY <1>1, <1>2, Geometry DEF Rests
  <2> QED BY <2>1, <1>1 DEF Surpluses
<1>7. Mirrored'
  BY <1>2 DEF Mirrored
<1> QED BY <1>3, <1>4, <1>5, <1>6, <1>7 DEF SyncInv

LEMMA SyncBroken ==
  ASSUME F!FtpAssumption, Syncing, F!Breaks PROVE SyncInv'
<1>1. /\ NonePartial /\ Kept /\ Surpluses /\ Mirrored /\ Rests /\ op' = op /\ F!Plan' = F!Plan
      /\ op.kind = "sync" /\ op \in FtpOps /\ FtpTypes
  BY DEF Syncing, SyncInv, FtpTypes
<1>2. /\ error' # "none" /\ UNCHANGED <<status, attempt, at, todo>> /\ at \in DOMAIN F!Plan
  BY DEF F!Breaks, F!Going
<1>3. NonePartial' /\ Kept'
  <2>1. CASE remote' = remote
    BY <2>1, <1>1 DEF NonePartial, Kept
  <2>2. ASSUME NEW i \in Files, error = "none", at = PlaceAt(i), Replaces(i)
        PROVE  NonePartial' /\ Kept'
    BY <2>2, ReplacedNew
  <2>3. ASSUME NEW i \in Files, ~op.server.atomic, Drops(i) PROVE NonePartial' /\ Kept'
    BY <2>3, DroppedGone
  <2> QED BY <1>1, <2>1, <2>2, <2>3, SyncBreaks
<1>4. at # 0 /\ ~(at > Len(F!Plan))
  BY <1>1, <1>2, SyncPlan
<1>5. Progress' /\ FirstTry'
  BY <1>2 DEF Progress, FirstTry
<1>6. Surpluses'
  BY <1>1, <1>2 DEF Surpluses
<1>7. Mirrored'
  BY <1>1, <1>2, <1>4 DEF Mirrored, Rests
<1> QED BY <1>3, <1>5, <1>6, <1>7 DEF SyncInv

\* Pruning removes a file the local tree lacks, or a leftover under a staging name.
LEMMA Removal ==
  ASSUME F!FtpAssumption, Syncing, NEW x \in todo, F!Removed(x), at > Len(F!Plan), error = "none"
  PROVE  /\ \A i \in Files : remote'[Tree[i]] = "new" /\ stage'[Tree[i]] = "none"
         /\ \A f \in Extra :
              /\ remote'[f] # "none" => remote[f] # "none" /\ ~(~x.stage /\ x.name = f)
              /\ stage'[f] # "none" => stage[f] # "none" /\ ~(x.stage /\ x.name = f)
         /\ NonePartial' /\ Kept'
<1>1. /\ NonePartial /\ Progress /\ Kept /\ Surpluses /\ op' = op /\ op \in FtpOps
      /\ op.kind = "sync" /\ at \in Nat
      /\ remote \in [F!Names -> F!Contents] /\ stage \in [F!Names -> F!Contents]
      /\ x \in [stage : BOOLEAN, name : F!Names]
      /\ op.before \in [F!Names -> {"none", "old"}]
  BY OpIs DEF Syncing, SyncInv, FtpTypes
<1>2. /\ x.stage \in BOOLEAN /\ x.name \in F!Names
      /\ x.stage => remote' = remote /\ stage' = [stage EXCEPT ![x.name] = "none"]
      /\ ~x.stage => stage' = stage /\ remote' = [remote EXCEPT ![x.name] = "none"]
      /\ ~x.stage => x.name \in Extra
  BY <1>1, RemovedTypes DEF Surpluses
<1>3. \A i \in Files : remote[Tree[i]] = "new" /\ stage[Tree[i]] = "none"
  <2>1. \A i \in Files : at > PlaceAt(i)
    BY <1>1, Geometry
  <2> QED BY <2>1, <1>1 DEF Progress
<1>4. CASE x.stage
  <2>1. \A f \in F!Names : stage'[f] = IF f = x.name THEN "none" ELSE stage[f]
    BY <1>1, <1>2, <1>4
  <2>2. remote' = remote
    BY <1>2, <1>4
  <2>3. NonePartial' /\ Kept'
    BY <2>2, <1>1 DEF NonePartial, Kept
  <2> QED BY <2>1, <2>2, <2>3, <1>3, <1>4, TreeNames
<1>5. CASE ~x.stage
  <2>1. \A f \in F!Names : remote'[f] = IF f = x.name THEN "none" ELSE remote[f]
    BY <1>1, <1>2, <1>5
  <2>2. stage' = stage
    BY <1>2, <1>5
  <2>3. \A i \in Files : remote'[Tree[i]] = "new"
    BY <2>1, <1>2, <1>3, <1>5, TreeNames
  <2>4. NonePartial' /\ Kept'
    BY <2>3 DEF NonePartial, Kept
  <2> QED BY <2>1, <2>2, <2>3, <2>4, <1>3, <1>5, TreeNames
<1> QED BY <1>2, <1>4, <1>5

LEMMA SyncPrunes ==
  ASSUME F!FtpAssumption, Syncing, NEW x \in [stage : BOOLEAN, name : F!Names], F!Prunes(x)
  PROVE  SyncInv'
<1>1. /\ Progress /\ FirstTry /\ Surpluses /\ Mirrored /\ Rests /\ op' = op /\ F!Plan' = F!Plan
      /\ op.kind = "sync" /\ op \in FtpOps /\ at \in Nat
      /\ \A j \in Files : PlaceAt(j)' = PlaceAt(j)
  BY DEF Syncing, SyncInv, FtpTypes
<1>2. /\ x \in todo /\ F!Removed(x) /\ at > Len(F!Plan) /\ error = "none"
      /\ todo' = todo \ {x} /\ UNCHANGED <<op, status, attempt, at, error>>
  BY DEF F!Prunes, F!Pruning
<1>3. /\ \A i \in Files : remote'[Tree[i]] = "new" /\ stage'[Tree[i]] = "none"
      /\ \A f \in Extra :
           /\ remote'[f] # "none" => remote[f] # "none" /\ ~(~x.stage /\ x.name = f)
           /\ stage'[f] # "none" => stage[f] # "none" /\ ~(x.stage /\ x.name = f)
      /\ NonePartial' /\ Kept'
  BY <1>2, Removal
<1>4. at # 0 /\ \A i \in Files : at > PlaceAt(i)
  BY <1>1, <1>2, Geometry
<1>5. Progress' /\ FirstTry'
  <2>1. \A i \in Files : ~(at' <= PlaceAt(i)') /\ at' > PlaceAt(i)'
    BY <1>1, <1>2, <1>4, Geometry
  <2>2. Progress'
    BY <2>1, <1>3 DEF Progress
  <2>3. FirstTry'
    BY <2>1 DEF FirstTry
  <2> QED BY <2>2, <2>3
<1>6. Surpluses'
  <2>1. \A y \in todo' : y.stage \/ y.name \in Extra
    BY <1>1, <1>2 DEF Surpluses
  <2>2. ASSUME op.prune, NEW f \in Extra, remote'[f] # "none"
        PROVE  \E y \in todo' : ~y.stage /\ y.name = f
    BY <2>2, <1>1, <1>2, <1>3 DEF Surpluses
  <2>3. ASSUME op.prune, NEW f \in Extra, stage'[f] # "none"
        PROVE  \E y \in todo' : y.stage /\ y.name = f
    BY <2>3, <1>1, <1>2, <1>3 DEF Surpluses
  <2>4. at' > Len(F!Plan')
    BY <1>1, <1>2
  <2> QED BY <2>1, <2>2, <2>3, <2>4, <1>1 DEF Surpluses
<1>7. Mirrored'
  BY <1>1, <1>2, <1>4 DEF Mirrored, Rests
<1> QED BY <1>3, <1>5, <1>6, <1>7 DEF SyncInv

LEMMA SyncPruneFails ==
  ASSUME F!FtpAssumption, Syncing, NEW x \in [stage : BOOLEAN, name : F!Names], F!PruneFails(x)
  PROVE  SyncInv'
<1>1. /\ NonePartial /\ Kept /\ Surpluses /\ Mirrored /\ Rests /\ op' = op /\ F!Plan' = F!Plan
      /\ op.kind = "sync" /\ op \in FtpOps /\ at \in Nat
  BY DEF Syncing, SyncInv, FtpTypes
<1>2. /\ x \in todo /\ (F!Removed(x) \/ UNCHANGED <<remote, stage>>) /\ at > Len(F!Plan)
      /\ error = "none" /\ error' # "none" /\ UNCHANGED <<op, status, attempt, at, todo>>
  BY DEF F!PruneFails, F!Pruning
<1>3. NonePartial' /\ Kept'
  <2>1. CASE F!Removed(x)
    BY <2>1, <1>2, Removal
  <2>2. CASE UNCHANGED <<remote, stage>>
    BY <2>2, <1>1 DEF NonePartial, Kept
  <2> QED BY <1>2, <2>1, <2>2
<1>4. at # 0
  BY <1>1, <1>2, Geometry
<1>5. Progress' /\ FirstTry' /\ Surpluses'
  BY <1>1, <1>2 DEF Progress, FirstTry, Surpluses
<1>6. Mirrored'
  BY <1>1, <1>2, <1>4 DEF Mirrored, Rests
<1> QED BY <1>3, <1>5, <1>6 DEF SyncInv

LEMMA SyncCleans ==
  ASSUME F!FtpAssumption, Syncing, NEW f \in F!Names, F!Cleans(f) PROVE SyncInv'
<1>1. /\ NonePartial /\ Kept /\ Surpluses /\ Mirrored /\ Rests /\ op' = op /\ F!Plan' = F!Plan
  BY DEF Syncing, SyncInv
<1>2. error # "none" /\ UNCHANGED <<op, status, attempt, at, error, remote, todo>>
  BY DEF F!Cleans
<1>3. at # 0
  BY <1>1, <1>2 DEF Rests
<1>4. Progress' /\ FirstTry' /\ Surpluses'
  BY <1>1, <1>2 DEF Progress, FirstTry, Surpluses
<1>5. Mirrored'
  BY <1>1, <1>2, <1>3 DEF Mirrored, Rests
<1>6. NonePartial' /\ Kept'
  BY <1>1, <1>2 DEF NonePartial, Kept
<1> QED BY <1>4, <1>5, <1>6 DEF SyncInv

LEMMA SyncReturns ==
  ASSUME F!FtpAssumption, Syncing, F!Returns PROVE SyncInv'
<1>1. /\ NonePartial /\ Kept /\ Progress /\ Surpluses /\ op' = op /\ F!Plan' = F!Plan
      /\ op.kind = "sync" /\ op \in FtpOps /\ at \in Nat
      /\ \A j \in Files : PlaceAt(j)' = PlaceAt(j)
  BY DEF Syncing, SyncInv, FtpTypes
<1>2. /\ error = "none" => at > Len(F!Plan) /\ todo = {}
      /\ status' = "succeeded" => error = "none"
      /\ at' = 0 /\ todo' = {} /\ UNCHANGED <<attempt, remote, stage>>
  BY DEF F!Returns
<1>3. NonePartial' /\ Kept'
  BY <1>1, <1>2 DEF NonePartial, Kept
<1>4. Progress'
  <2>1. \A j \in Files : ~(j + 2 < at') /\ ~(at' > PlaceAt(j))
    BY <1>1, <1>2, Geometry
  <2> QED BY <2>1, <1>1 DEF Progress
<1>5. FirstTry'
  BY <1>2 DEF FirstTry
<1>6. Surpluses'
  <2>1. ~(at' > Len(F!Plan))
    BY <1>1, <1>2, Geometry
  <2> QED BY <2>1, <1>1, <1>2 DEF Surpluses
<1>7. Mirrored'
  <2> SUFFICES ASSUME status' = "succeeded"
               PROVE  /\ \A i \in Files : remote[Tree[i]] = "new" /\ stage[Tree[i]] = "none"
                      /\ op.prune => \A f \in Extra : remote[f] = "none" /\ stage[f] = "none"
    BY <1>1, <1>2 DEF Mirrored
  <2>1. error = "none" /\ at > Len(F!Plan) /\ todo = {}
    BY <1>2
  <2>2. \A i \in Files : at > PlaceAt(i)
    BY <2>1, <1>1, Geometry
  <2>3. \A i \in Files : remote[Tree[i]] = "new" /\ stage[Tree[i]] = "none"
    BY <2>1, <2>2, <1>1 DEF Progress
  <2>4. op.prune => \A f \in Extra : remote[f] = "none" /\ stage[f] = "none"
    BY <2>1, <1>1 DEF Surpluses
  <2> QED BY <2>3, <2>4
<1> QED BY <1>3, <1>4, <1>5, <1>6, <1>7 DEF SyncInv

LEMMA SyncKept ==
  ASSUME F!FtpAssumption, FtpInv, F!Next, op.kind = "sync" PROVE SyncInv'
<1>0. Syncing /\ FtpTypes
  BY SyncFacts DEF FtpInv
<1>1. CASE F!Begin
  BY <1>0, <1>1, SyncBegins
<1>2. CASE F!Does
  <2>1. UNCHANGED <<op, status, attempt, error>>
    BY <1>2 DEF F!Does
  <2>2. error = "none" /\ at' = at + 1
    BY <1>0, <1>2, SyncDoes
  <2>3. CASE at \in {1, 2} /\ Quiet /\ todo' = todo
    BY <1>0, <2>1, <2>2, <2>3, SyncPasses
  <2>4. ASSUME NEW i \in Files, at = i + 2, Uploads(i), todo' = todo PROVE SyncInv'
    BY <1>0, <2>1, <2>2, <2>4, SyncUploads
  <2>5. ASSUME NEW i \in Files, at = PlaceAt(i), Replaces(i), todo' = todo PROVE SyncInv'
    BY <1>0, <2>1, <2>2, <2>5, SyncReplaces
  <2>6. ASSUME ~op.server.atomic, NEW i \in Files, at = PlaceAt(i) - 1, Drops(i), todo' = todo
        PROVE  SyncInv'
    BY <1>0, <2>1, <2>2, <2>6, SyncDrops
  <2>7. CASE op.prune /\ at = PlaceAt(Len(Tree)) + 1 /\ Quiet /\ todo' = F!Surplus
    BY <1>0, <2>1, <2>2, <2>7, SyncPasses
  <2> QED BY <1>0, <1>2, <2>3, <2>4, <2>5, <2>6, <2>7, SyncDoes
<1>3. CASE Stops
  BY <1>0, <1>3, StopsDo, SyncQuiet
<1>4. CASE F!Breaks
  BY <1>0, <1>4, SyncBroken
<1>5. CASE F!DropIgnored
  <2>1. /\ error = "none" /\ at \in DOMAIN F!Plan /\ F!Now.do = "drop" /\ at' = at + 1
        /\ F!Effect("drop", F!Now.file, TRUE) \/ UNCHANGED <<remote, stage>>
        /\ UNCHANGED <<op, status, attempt, error, todo>>
    BY <1>5 DEF F!DropIgnored, F!Going
  <2>2. /\ ~op.server.atomic
        /\ \E i \in Files : at = PlaceAt(i) - 1 /\ F!Now = F!Step("drop", Tree[i])
    BY <1>0, <2>1, SyncNow DEF F!Step
  <2>3. PICK i \in Files : at = PlaceAt(i) - 1 /\ F!Now = F!Step("drop", Tree[i])
    BY <2>2
  <2>4. F!Now.file = Tree[i]
    BY <2>3 DEF F!Step
  <2>5. Drops(i) \/ Quiet
    BY <2>1, <2>4 DEF F!Effect, Drops, Quiet
  <2> QED BY <1>0, <2>1, <2>2, <2>3, <2>5, SyncDrops
<1>6. ASSUME NEW x \in [stage : BOOLEAN, name : F!Names], F!Prunes(x) PROVE SyncInv'
  BY <1>0, <1>6, SyncPrunes
<1>7. ASSUME NEW x \in [stage : BOOLEAN, name : F!Names], F!PruneFails(x) PROVE SyncInv'
  BY <1>0, <1>7, SyncPruneFails
<1>8. ASSUME NEW f \in F!Names, F!Cleans(f) PROVE SyncInv'
  BY <1>0, <1>8, SyncCleans
<1>9. CASE F!Returns
  BY <1>0, <1>9, SyncReturns
<1> QED BY <1>1, <1>2, <1>3, <1>4, <1>5, <1>6, <1>7, <1>8, <1>9 DEF F!Next, Stops

LEMMA FtpStep ==
  ASSUME F!FtpAssumption, FtpInv, [F!Next]_F!vars PROVE FtpInv'
<1>1. CASE F!Next
  <2>1. FtpTypes' /\ op' = op
    BY FtpTypesKept DEF FtpInv
  <2>2. CASE op.kind = "sync"
    <3>1. PlainInv'
      BY <2>1, <2>2 DEF PlainInv
    <3> QED BY <1>1, <2>1, <2>2, <3>1, RestsKept, CleanKept, SyncKept DEF FtpInv
  <2>3. CASE op.kind # "sync"
    BY <1>1, <2>1, <2>3, RestsKept, CleanKept, PlainKept DEF FtpInv
  <2> QED BY <2>2, <2>3
<1>2. CASE UNCHANGED F!vars
  <2>1. UNCHANGED <<op, status, attempt, at, error, net, remote, stage, todo>>
    BY <1>2 DEF F!vars
  <2>2. F!Plan' = F!Plan /\ \A i \in Files : PlaceAt(i)' = PlaceAt(i)
    BY <2>1, PlanKept DEF PlaceAt
  <2>3. FtpTypes' /\ Rests' /\ F!RetriesAreClean' /\ PlainInv'
    BY <2>1, <2>2 DEF FtpInv, FtpTypes, Rests, F!RetriesAreClean, PlainInv, F!First
  <2>4. op.kind = "sync" => SyncInv'
    BY <2>1, <2>2
    DEF FtpInv, SyncInv, NonePartial, Progress, FirstTry, Kept, Surpluses, Mirrored
  <2> QED BY <2>1, <2>3, <2>4 DEF FtpInv
<1> QED BY <1>1, <1>2

THEOREM FtpInvariant == ASSUME F!FtpAssumption PROVE F!Spec => []FtpInv
<1>1. F!Init => FtpInv
  BY FtpInit
<1>2. FtpInv /\ [F!Next]_F!vars => FtpInv'
  BY FtpStep
<1> QED BY <1>1, <1>2, PTL DEF F!Spec

\* While a sync runs, fails or is retried, a reader never meets a truncated file under its
\* real name, nothing is replaced before every transfer has finished, and where a rename
\* replaces no file goes missing (FileOps.sync, replace).
THEOREM FtpReadersSeeWhole == ASSUME F!FtpAssumption PROVE F!Spec => []F!ReadersSeeWhole
<1>1. FtpInv => F!ReadersSeeWhole
  <2> SUFFICES ASSUME FtpInv, op.kind = "sync"
               PROVE  /\ \A f \in F!InTree : remote[f] # "partial"
                      /\ (\E f \in F!InTree : remote[f] = "new") /\ attempt = 1 /\ at > 0
                           /\ error = "none" =>
                           \A f \in F!InTree : stage[f] = "new" \/ remote[f] = "new"
                      /\ op.server.atomic =>
                           /\ \A f \in F!InTree : op.before[f] # "none" => remote[f] # "none"
                           /\ (\E f \in Extra : remote[f] # op.before[f]) =>
                                \A f \in F!InTree : remote[f] = "new"
    BY DEF F!ReadersSeeWhole
  <2>1. /\ NonePartial /\ Progress /\ FirstTry /\ Kept /\ at \in Nat /\ op \in FtpOps
        /\ \A f \in F!InTree : \E i \in Files : f = Tree[i]
        /\ \A i \in Files : Tree[i] \in F!InTree
    BY TreeIs DEF FtpInv, SyncInv, FtpTypes
  <2>2. \A f \in F!InTree : remote[f] # "partial"
    BY <2>1 DEF NonePartial
  <2>3. ASSUME NEW f \in F!InTree, remote[f] = "new", attempt = 1, at > 0, error = "none",
               NEW g \in F!InTree
        PROVE  stage[g] = "new" \/ remote[g] = "new"
    <3>1. PICK i \in Files : f = Tree[i]
      BY <2>1
    <3>2. PICK j \in Files : g = Tree[j]
      BY <2>1
    <3>3. at > PlaceAt(i)
      BY <2>1, <2>3, <3>1 DEF FirstTry
    <3>4. j + 3 <= PlaceAt(i) /\ PlaceAt(i) \in Nat /\ PlaceAt(j) \in Nat /\ j \in Nat
      BY <2>1, Geometry
    <3>5. j + 2 < at /\ (at <= PlaceAt(j) \/ at > PlaceAt(j))
      BY <2>1, <3>3, <3>4
    <3> QED BY <2>1, <2>3, <3>2, <3>5 DEF Progress
  <2>4. op.server.atomic =>
          /\ \A f \in F!InTree : op.before[f] # "none" => remote[f] # "none"
          /\ (\E f \in Extra : remote[f] # op.before[f]) =>
               \A f \in F!InTree : remote[f] = "new"
    BY <2>1 DEF Kept
  <2> QED BY <2>2, <2>3, <2>4
<1> QED BY <1>1, FtpInvariant, PTL

\* An attempt never fails on what an earlier one of the run did (errors.ts).
THEOREM FtpRetriesAreClean == ASSUME F!FtpAssumption PROVE F!Spec => []F!RetriesAreClean
<1>1. FtpInv => F!RetriesAreClean
  BY DEF FtpInv
<1> QED BY <1>1, FtpInvariant, PTL

\* A sync that succeeded has put every file in place, left no staging name of them and,
\* when it prunes, nothing the local tree lacks (FileOps.sync, walkRemote).
THEOREM FtpSyncMirrors == ASSUME F!FtpAssumption PROVE F!Spec => []F!SyncMirrors
<1>1. FtpInv => F!SyncMirrors
  BY TreeIs DEF FtpInv, SyncInv, Mirrored, F!SyncMirrors
<1> QED BY <1>1, FtpInvariant, PTL

-----------------------------------------------------------------------------
(***************************************************************************)
(* Mail: what a fetch passes over and what it gets again                   *)
(***************************************************************************)
MailTypes ==
  /\ kind \in [pop : BOOLEAN, all : BOOLEAN, deletes : BOOLEAN]
  /\ server \in [box : SUBSET M!Mails, uid : [M!Mails -> Nat], next : Nat \ {0}, era : {1, 2},
                 arrived : Nat]
  /\ server.arrived <= MaxMails /\ server.box \subseteq M!Arrived
  /\ server.next <= server.arrived + 1
  /\ \A m \in M!Arrived : server.uid[m] < server.next
  /\ \A m \in M!Mails : server.uid[m] <= MaxMails
  /\ state \in [era : {0, 1, 2}, known : BOOLEAN, seen : SUBSET M!Mails,
                    pending : SUBSET M!Mails]
  /\ Cardinality(state.seen) <= MaxSeen
  /\ cursor \in {M!None} \union 0 .. MaxMails
  /\ run \in [at : {"idle", "asked", "open", "listed", "read", "saving", "returned"},
              since : Nat, reset : BOOLEAN, listed : SUBSET M!Mails, done : SUBSET M!Mails,
              batch : SUBSET M!Mails, got : SUBSET M!Mails, skip : SUBSET M!Mails]
  /\ run.since <= MaxMails
  /\ counted \in [M!Mails -> 0 .. 2] /\ waived \subseteq M!Mails /\ evicted \in BOOLEAN
  /\ run.at \in {"open"} => ~kind.pop
  /\ run.at \in {"listed", "saving"} => kind.pop
  /\ \A m \in M!Mails \ M!Arrived : counted[m] = 0

\* UIDs grow with the mails; those of the first UIDVALIDITY are never reused.
UidsGrow ==
  /\ \A m, n \in server.box : m < n => server.uid[m] < server.uid[n]
  /\ server.era = 1 => /\ server.next = server.arrived + 1
                       /\ \A m \in M!Arrived : server.uid[m] = m

DoneWith(m) == counted[m] > 0 \/ m \in waived
InRead == run.at \in {"read", "saving", "returned"}

\* POP3: what is below the cursor, and around a batch, was handled.
Pop3Kept ==
  /\ \A m \in M!Arrived \ server.box : DoneWith(m)
  /\ \A m \in state.seen : DoneWith(m)
  /\ kind.pop =>
     /\ cursor # M!None => \A m \in M!Mails : m <= cursor => DoneWith(m)
     /\ run.done \subseteq {m \in M!Mails : DoneWith(m)}
     /\ run.at = "listed" =>
          /\ run.listed \subseteq server.box
          /\ \A m \in M!Mails \ run.listed : \A x \in run.listed : m < x => DoneWith(m)
     /\ InRead => \A m \in M!Mails \ run.batch : \A x \in run.batch : m < x => DoneWith(m)
     /\ run.at = "read" /\ M!SkipsAll => run.skip = run.listed /\ run.batch = {}
     /\ InRead => run.got = run.batch /\ run.batch \subseteq M!Arrived
     /\ run.at = "returned" => state.pending = run.batch

\* Whether the cursor is one of the UIDVALIDITY stored: no run failed after a reset.
SureCursor == ~FailsAfterReset \/ server.era = 1

\* IMAP: what is at or below the cursor of the UIDVALIDITY was handled.
ImapKept ==
  ~kind.pop =>
    /\ state.era <= server.era
    /\ cursor # M!None => state.era # 0
    /\ cursor # M!None /\ state.era = server.era /\ SureCursor
         /\ ~(run.at = "returned" /\ run.reset) =>
         /\ cursor < server.next
         /\ \A m \in server.box : server.uid[m] <= cursor => DoneWith(m)
    /\ run.at \in {"open", "read", "returned"} =>
         /\ run.reset => server.era = 2
         /\ run.at \in {"open", "read"} => run.reset = M!Reset
         /\ SureCursor =>
              /\ run.since < server.next
              /\ \A m \in server.box :
                   server.uid[m] <= run.since => DoneWith(m) \/ m \in run.skip
    /\ run.at \in {"read", "returned"} =>
         /\ run.batch \subseteq M!Arrived /\ run.batch \subseteq run.got \union run.skip
         /\ run.got \subseteq run.batch
         /\ \A m \in server.box \ run.batch : \A x \in run.batch :
              server.uid[m] <= server.uid[x] => server.uid[m] <= run.since
         /\ \A x \in run.batch : server.uid[x] > run.since
    /\ run.at = "returned" => state.era = server.era

\* What was got is not got again.
Once ==
  /\ kind.pop /\ ~evicted =>
     /\ \A m \in server.box : counted[m] > 0 => m \in state.seen \union M!Handled
     /\ run.at \in {"asked", "listed", "read", "saving"} => run.done = M!Handled
     /\ run.at \in {"listed", "read"} =>
          \A m \in server.box \ run.listed : counted[m] = 0
     /\ InRead => \A m \in run.batch : counted[m] = 0
     /\ run.at \in {"saving", "returned"} =>
          \A m \in server.box : counted[m] > 0 => m \in state.seen
  /\ ~kind.pop /\ ~evicted /\ server.era = 1 =>
     /\ \A m \in M!Mails : counted[m] > 0 => cursor # M!None /\ m <= cursor
     /\ run.at \in {"open", "read", "returned"} /\ cursor # M!None => run.since >= cursor
     /\ cursor # M!None => cursor <= server.arrived
  /\ evicted \/ server.era = 2 \/ \A m \in M!Mails : counted[m] <= 1

MailInv == MailTypes /\ UidsGrow /\ Pop3Kept /\ ImapKept /\ Once

LEMMA MailsAre == ASSUME M!MailAssumption PROVE IsFiniteSet(M!Mails) /\ M!Mails \subseteq Nat \ {0}
BY FS_Interval DEF M!MailAssumption, M!Mails

LEMMA LastIs ==
  ASSUME M!MailAssumption, NEW S \in SUBSET M!Mails, S # {}
  PROVE  M!Max(S) \in S /\ \A x \in S : x <= M!Max(S)
<1> DEFINE U == {k \in Nat : \A x \in S : x <= k}
           Less == OpToRel(<, Nat)
<1>1. IsWellFoundedOn(Less, Nat)
  BY NatLessThanWellFounded
<1>2. \A m, n \in Nat : <<n, m>> \in Less <=> n < m
  BY DEF OpToRel
<1>3. MaxMails \in U /\ S \subseteq Nat \ {0}
  BY DEF M!MailAssumption, M!Mails
<1>4. U \subseteq Nat /\ U # {}
  BY <1>3
<1> HIDE DEF Less
<1>5. PICK u \in U : \A n \in U : ~(<<n, u>> \in Less)
  <2> HIDE DEF U
  <2> QED BY <1>1, <1>4, WFMin
<1>6. u \in Nat /\ \A x \in S : x <= u
  OBVIOUS
<1>7. u \in S
  <2> SUFFICES ASSUME u \notin S PROVE FALSE
    OBVIOUS
  <2>1. \A x \in S : x \in Nat \ {0} /\ x <= u - 1
    BY <1>3, <1>6
  <2>2. u - 1 \in U
    BY <1>6, <2>1
  <2>3. u - 1 < u
    BY <1>6
  <2> HIDE DEF U
  <2> QED BY <1>2, <1>4, <1>5, <1>6, <2>2, <2>3
<1>8. \E x \in S : \A y \in S : x >= y
  BY <1>3, <1>6, <1>7
<1>9. M!Max(S) \in S /\ \A y \in S : M!Max(S) >= y
  BY <1>8 DEF M!Max
<1> QED BY <1>3, <1>9

\* The cardinality of the model is that of the library.
LEMMA SizeIs == \A S : M!Cardinality(S) = Cardinality(S)
BY DEF M!Cardinality, Cardinality

LEMMA FirstsAre ==
  ASSUME M!MailAssumption, NEW S \in SUBSET M!Mails
  PROVE  /\ M!FirstOf(S) \subseteq S
         /\ \A m \in S : \A x \in M!FirstOf(S) : m <= x => m \in M!FirstOf(S)
<1>1. M!FirstOf(S) \subseteq S
  BY DEF M!FirstOf
<1>2. ASSUME NEW m \in S, NEW x \in M!FirstOf(S), m <= x PROVE m \in M!FirstOf(S)
  <2> DEFINE A == {n \in S : n <= m}
             B == {n \in S : n <= x}
  <2>1. A \in SUBSET B /\ B \in SUBSET M!Mails
    BY <1>1, <1>2, MailsAre
  <2>2. IsFiniteSet(B)
    BY <2>1, MailsAre, FS_Subset
  <2>3. IsFiniteSet(A) /\ Cardinality(A) <= Cardinality(B)
    BY <2>1, <2>2, FS_Subset
  <2>4. Cardinality(A) \in Nat /\ Cardinality(B) \in Nat
    BY <2>2, <2>3, FS_CardinalityType
  <2>5. Cardinality(B) <= Limit /\ Limit \in Nat
    BY SizeIs DEF M!FirstOf, M!MailAssumption
  <2> HIDE DEF A, B
  <2>6. Cardinality(A) <= Limit
    BY <2>3, <2>4, <2>5
  <2> QED BY <2>6, SizeIs DEF M!FirstOf, A
<1> QED BY <1>1, <1>2

\* The rank of a mail in the mailbox: its UID once the server has renumbered.
Rank(m) == Cardinality({n \in server.box : n <= m})

LEMMA RanksGrow ==
  ASSUME M!MailAssumption, server.box \subseteq M!Mails
  PROVE  /\ Cardinality(server.box) \in Nat
         /\ \A m \in server.box : Rank(m) \in Nat \ {0} /\ Rank(m) <= Cardinality(server.box)
         /\ \A m, n \in server.box : m < n => Rank(m) < Rank(n)
<1> DEFINE B(m) == {n \in server.box : n <= m}
<1>1. IsFiniteSet(server.box)
  BY MailsAre, FS_Subset
<1>2. \A m \in server.box : IsFiniteSet(B(m)) /\ Cardinality(B(m)) <= Cardinality(server.box)
                            /\ m \in B(m)
  BY <1>1, MailsAre, FS_Subset
<1>3. ASSUME NEW m \in server.box, NEW n \in server.box, m < n
      PROVE  Cardinality(B(m)) < Cardinality(B(n))
  <2>1. B(m) \in SUBSET B(n) /\ B(m) # B(n)
    BY <1>2, <1>3, MailsAre
  <2>2. IsFiniteSet(B(m)) /\ IsFiniteSet(B(n))
    BY <1>2
  <2> HIDE DEF B
  <2>3. Cardinality(B(m)) <= Cardinality(B(n)) /\ Cardinality(B(m)) # Cardinality(B(n))
    BY <2>1, <2>2, FS_Subset
  <2>4. Cardinality(B(m)) \in Nat /\ Cardinality(B(n)) \in Nat
    BY <2>2, FS_CardinalityType
  <2> QED BY <2>3, <2>4
<1>4. \A m \in server.box : Cardinality(B(m)) \in Nat \ {0}
  <2> HIDE DEF B
  <2> QED BY <1>2, FS_CardinalityType, FS_EmptySet
<1> HIDE DEF B
<1> QED BY <1>1, <1>2, <1>3, <1>4, FS_CardinalityType DEF Rank, B

LEMMA MailBegins == ASSUME M!MailAssumption, M!Init PROVE MailInv
<1>1. Cardinality({}) = 0
  BY FS_EmptySet
<1>2. MailTypes
  <2>1. MaxMails \in Nat /\ M!Arrived = {}
    BY DEF M!Init, M!MailAssumption, M!Arrived
  <2>2. server \in [box : SUBSET M!Mails, uid : [M!Mails -> Nat], next : Nat \ {0}, era : {1, 2},
                    arrived : Nat]
    BY DEF M!Init
  <2>3. /\ state \in [era : {0, 1, 2}, known : BOOLEAN, seen : SUBSET M!Mails,
                      pending : SUBSET M!Mails]
        /\ run \in [at : {"idle", "asked", "open", "listed", "read", "saving", "returned"},
                    since : Nat, reset : BOOLEAN, listed : SUBSET M!Mails, done : SUBSET M!Mails,
                    batch : SUBSET M!Mails, got : SUBSET M!Mails, skip : SUBSET M!Mails]
    BY DEF M!Init, M!Idle
  <2>4. /\ kind \in [pop : BOOLEAN, all : BOOLEAN, deletes : BOOLEAN]
        /\ counted \in [M!Mails -> 0 .. 2] /\ \A m \in M!Mails : counted[m] = 0
    BY DEF M!Init, M!MailAssumption
  <2>5. /\ server.arrived = 0 /\ server.box = {} /\ server.next = 1
        /\ \A m \in M!Mails : server.uid[m] = 0
        /\ state.seen = {} /\ cursor = M!None /\ run.at = "idle" /\ run.since = 0
        /\ waived = {} /\ evicted = FALSE
    BY DEF M!Init, M!Idle
  <2>6. /\ server.arrived <= MaxMails /\ server.box \subseteq M!Arrived
        /\ server.next <= server.arrived + 1
        /\ \A m \in M!Arrived : server.uid[m] < server.next
        /\ \A m \in M!Mails : server.uid[m] <= MaxMails
    BY <2>1, <2>5
  <2>7. Cardinality(state.seen) <= MaxSeen /\ run.since <= MaxMails
    BY <1>1, <2>1, <2>5 DEF M!MailAssumption
  <2>8. /\ cursor \in {M!None} \union 0 .. MaxMails /\ waived \subseteq M!Mails /\ evicted \in BOOLEAN
        /\ run.at \in {"open"} => ~kind.pop
        /\ run.at \in {"listed", "saving"} => kind.pop
    BY <2>5
  <2> QED BY <2>2, <2>3, <2>4, <2>6, <2>7, <2>8 DEF MailTypes
<1>3. UidsGrow
  BY DEF M!Init, UidsGrow, M!Arrived
<1>4. Pop3Kept
  BY DEF M!Init, Pop3Kept, M!Idle, M!Arrived, InRead
<1>5. ImapKept
  BY DEF M!Init, ImapKept, M!Idle
<1>6. Once
  BY DEF M!Init, Once, M!Idle, InRead
<1> QED BY <1>2, <1>3, <1>4, <1>5, <1>6 DEF MailInv

\* What was handled stays so.
LEMMA HandledStays ==
  ASSUME MailTypes, [M!Next]_(M!vars), NEW m \in M!Mails, DoneWith(m)
  PROVE  DoneWith(m)'
<1>1. counted \in [M!Mails -> 0 .. 2]
  BY DEF MailTypes
<1>2. waived \subseteq waived'
  BY DEF M!Next, M!vars, M!Arrive, M!Removed, M!Renumber, M!Ask, M!Open, M!Search, M!SaveValidity,
     M!List, M!Retrieve,
         M!SaveSeen, M!SavePending, M!Succeed, M!Fail
<1>3. counted' [m] >= counted[m] /\ counted' [m] \in Nat
  <2>1. CASE M!Succeed
    BY <1>1, <2>1 DEF M!Succeed
  <2>2. CASE UNCHANGED counted
    BY <1>1, <2>2
  <2> QED BY <2>1, <2>2 DEF M!Next, M!vars, M!Arrive, M!Removed, M!Renumber, M!Ask, M!Open,
             M!Search, M!SaveValidity,
             M!List, M!Retrieve, M!SaveSeen, M!SavePending, M!Fail
<1> QED BY <1>1, <1>2, <1>3 DEF DoneWith

LEMMA MailTypesStep == ASSUME M!MailAssumption, MailInv, [M!Next]_(M!vars) PROVE MailTypes'
<1> DEFINE ServerOk(s) ==
             /\ s \in [box : SUBSET M!Mails, uid : [M!Mails -> Nat], next : Nat \ {0}, era : {1, 2},
                       arrived : Nat]
             /\ s.arrived <= MaxMails /\ s.box \subseteq 1 .. s.arrived
             /\ s.next <= s.arrived + 1
             /\ \A m \in 1 .. s.arrived : s.uid[m] < s.next
             /\ \A m \in M!Mails : s.uid[m] <= MaxMails
           StateOk(s) ==
             /\ s \in [era : {0, 1, 2}, known : BOOLEAN, seen : SUBSET M!Mails,
                       pending : SUBSET M!Mails]
             /\ Cardinality(s.seen) <= MaxSeen
           RunOk(r) ==
             /\ r \in [at : {"idle", "asked", "open", "listed", "read", "saving", "returned"},
                       since : Nat, reset : BOOLEAN, listed : SUBSET M!Mails, done : SUBSET M!Mails,
                       batch : SUBSET M!Mails, got : SUBSET M!Mails, skip : SUBSET M!Mails]
             /\ r.since <= MaxMails
             /\ r.at \in {"open"} => ~kind.pop
             /\ r.at \in {"listed", "saving"} => kind.pop
           RestOk ==
             /\ cursor \in {M!None} \union 0 .. MaxMails
             /\ counted \in [M!Mails -> 0 .. 2] /\ waived \subseteq M!Mails /\ evicted \in BOOLEAN
             /\ \A m \in M!Mails \ M!Arrived : counted[m] = 0
<1>1. /\ MailTypes /\ UidsGrow /\ Pop3Kept /\ ImapKept /\ MaxMails \in Nat
      /\ kind \in [pop : BOOLEAN, all : BOOLEAN, deletes : BOOLEAN]
      /\ ServerOk(server) /\ StateOk(state) /\ RunOk(run) /\ RestOk
  BY DEF MailInv, MailTypes, M!Arrived, M!MailAssumption
<1>2. ASSUME kind' = kind, ServerOk(server'), StateOk(state'), RunOk(run'), RestOk'
      PROVE  MailTypes'
  BY <1>1, <1>2 DEF MailTypes, M!Arrived
<1>3. ASSUME NEW stop \in {"idle", "asked", "open", "listed", "read", "saving", "returned"}, 
             stop \in {"open"} => ~kind.pop, stop \in {"listed", "saving"} => kind.pop
      PROVE  RunOk([run EXCEPT !.at = stop])
  BY <1>1, <1>3
<1>4. RunOk(M!Idle)
  BY <1>1 DEF M!Idle
<1>5. CASE M!Arrive
  <2> DEFINE m == server.arrived + 1
  <2>1. /\ m <= MaxMails /\ m \in M!Mails /\ m \in Nat
        /\ server' = [server EXCEPT !.box = @ \union {m}, !.uid[m] = server.next,
                                    !.next = @ + 1, !.arrived = m]
    BY <1>1, <1>5 DEF M!Arrive, M!Mails
  <2>2. /\ server'.box = server.box \union {m}
        /\ server'.uid = [server.uid EXCEPT ![m] = server.next]
        /\ server'.next = server.next + 1 /\ server'.arrived = m /\ server'.era = server.era
        /\ server' \in [box : SUBSET M!Mails, uid : [M!Mails -> Nat], next : Nat \ {0}, era : {1, 2},
                       arrived : Nat]
    <3> DEFINE uids == [server.uid EXCEPT ![m] = server.next]
               box == server.box \union {m}
               next == server.next + 1
    <3>1. server' = [server EXCEPT !.box = box, !.uid = uids, !.next = next, !.arrived = m]
      BY <1>1, <2>1
    <3>2. /\ uids \in [M!Mails -> Nat] /\ box \subseteq M!Mails /\ next \in Nat \ {0}
      BY <1>1, <2>1
    <3> HIDE DEF m, uids, box, next
    <3>3. /\ server'.box = box /\ server'.uid = uids
          /\ server'.next = next /\ server'.arrived = m /\ server'.era = server.era
      BY <1>1, <3>1
    <3>4. server' \in [box : SUBSET M!Mails, uid : [M!Mails -> Nat], next : Nat \ {0}, era : {1, 2},
                       arrived : Nat]
      <4>1. server \in [box : SUBSET M!Mails, uid : [M!Mails -> Nat], next : Nat \ {0},
                        era : {1, 2}, arrived : Nat]
        BY <1>1
      <4>2. m \in Nat
        BY <2>1
      <4> QED BY <3>1, <3>2, <4>1, <4>2
    <3> QED BY <3>3, <3>4 DEF uids, box, next
  <2>3. ServerOk(server')
    <3>1. /\ server.next <= m /\ server.next \in Nat /\ m = server.arrived + 1
          /\ server.arrived \in Nat
      BY <1>1
    <3>2. \A k \in 1 .. m : server'.uid[k] < server'.next
      <4> SUFFICES ASSUME NEW k \in 1 .. m PROVE server'.uid[k] < server'.next
        OBVIOUS
      <4>1. CASE k = m
        BY <1>1, <2>1, <2>2, <3>1, <4>1
      <4>2. CASE k # m
        <5>1. k \in 1 .. server.arrived /\ k \in M!Mails
          BY <1>1, <2>1, <3>1, <4>2 DEF M!Mails
        <5>2. server'.uid[k] = server.uid[k] /\ server.uid[k] \in Nat /\ server.uid[k] < server.next
          BY <1>1, <2>1, <2>2, <4>2, <5>1
        <5> QED BY <2>2, <3>1, <5>2
      <4> QED BY <4>1, <4>2
    <3>3. \A k \in M!Mails : server'.uid[k] <= MaxMails
      BY <1>1, <2>1, <2>2, <3>1
    <3>4. server'.box \subseteq 1 .. server'.arrived
      BY <1>1, <2>2, <3>1
    <3> QED BY <2>1, <2>2, <3>1, <3>2, <3>3, <3>4
  <2>4. \A k \in M!Mails \ M!Arrived' : counted' [k] = 0
    BY <1>1, <1>5, <2>1, <2>2 DEF M!Arrive, M!Arrived
  <2> HIDE DEF m, ServerOk, StateOk, RunOk
  <2> QED BY <1>1, <1>2, <1>5, <2>3, <2>4 DEF M!Arrive
<1>6. CASE M!Removed
  <2>1. PICK m \in server.box : server' = [server EXCEPT !.box = @ \ {m}]
                                /\ waived' = waived \union {m}
    BY <1>6 DEF M!Removed
  <2>2. ServerOk(server') /\ server'.arrived = server.arrived
    BY <1>1, <2>1
  <2>3. RestOk'
    BY <1>1, <1>6, <2>1, <2>2 DEF M!Removed, M!Arrived
  <2> HIDE DEF ServerOk, StateOk, RunOk, RestOk
  <2> QED BY <1>1, <1>2, <1>6, <2>2, <2>3 DEF M!Removed
<1>7. CASE M!Renumber
  <2> DEFINE uids == [m \in M!Mails |-> IF m \in server.box THEN Rank(m) ELSE 0]
             count == Cardinality(server.box)
  <2>1. server' = [server EXCEPT !.uid = uids, !.next = count + 1, !.era = 2]
    BY <1>7, SizeIs DEF M!Renumber, Rank
  <2>2. /\ count \in Nat /\ uids \in [M!Mails -> Nat] /\ \A m \in M!Mails : uids[m] <= count
        /\ count <= server.arrived
    <3>1. count <= server.arrived
      <4>1. IsFiniteSet(1 .. server.arrived) /\ Cardinality(1 .. server.arrived) = server.arrived
        BY <1>1, FS_Interval
      <4> QED BY <1>1, <4>1, FS_Subset
    <3> QED BY <1>1, <3>1, RanksGrow
  <2> HIDE DEF uids, count
  <2>3. /\ server'.box = server.box /\ server'.uid = uids /\ server'.next = count + 1
        /\ server'.arrived = server.arrived
        /\ server' \in [box : SUBSET M!Mails, uid : [M!Mails -> Nat], next : Nat \ {0}, era : {1, 2},
                       arrived : Nat]
    <3>1. count + 1 \in Nat \ {0}
      BY <2>2
    <3> DEFINE next == count + 1
    <3> HIDE DEF next
    <3>2. server' = [server EXCEPT !.uid = uids, !.next = next, !.era = 2]
      BY <2>1 DEF next
    <3>3. /\ server'.box = server.box /\ server'.uid = uids /\ server'.next = next
          /\ server'.arrived = server.arrived
          /\ server' \in [box : SUBSET M!Mails, uid : [M!Mails -> Nat], next : Nat \ {0}, era : {1, 2},
                         arrived : Nat]
      BY <1>1, <2>2, <3>1, <3>2 DEF next
    <3> QED BY <3>3 DEF next
  <2>4. ServerOk(server')
    <3>1. \A m \in 1 .. server.arrived : m \in M!Mails
      BY <1>1 DEF M!Mails
    <3>2. \A m \in M!Mails : uids[m] \in Nat
      BY <2>2
    <3> QED BY <1>1, <2>2, <2>3, <3>1, <3>2
  <2>5. RestOk'
    BY <1>1, <1>7, <2>3 DEF M!Renumber, M!Arrived
  <2> HIDE DEF ServerOk, StateOk, RunOk, RestOk
  <2> QED BY <1>1, <1>2, <1>7, <2>4, <2>5 DEF M!Renumber
<1>8. RestOk /\ M!Arrived' = M!Arrived /\ UNCHANGED <<cursor, counted>> /\ waived' \subseteq M!Mails
      /\ evicted' \in BOOLEAN => RestOk'
  BY <1>1
<1>9. CASE M!Ask
  <2>1. M!Handled \subseteq M!Mails
    BY <1>1 DEF M!Handled
  <2>2. RunOk(run')
    <3> DEFINE done == IF kind.pop THEN M!Handled ELSE {}
    <3>1. run' = [run EXCEPT !.at = "asked", !.done = done] /\ done \subseteq M!Mails
      BY <1>9, <2>1 DEF M!Ask
    <3> HIDE DEF done
    <3> QED BY <1>1, <3>1
  <2> HIDE DEF ServerOk, StateOk, RunOk
  <2> QED BY <1>1, <1>2, <1>9, <2>2 DEF M!Ask, M!Arrived
<1>10. CASE M!Open
  <2>1. PICK since, skip : /\ run' = [run EXCEPT !.at = "open", !.since = since, !.reset = M!Reset,
                                                 !.skip = skip]
                           /\ since \in Nat /\ since <= MaxMails /\ skip \subseteq M!Mails
                           /\ M!Reset \in BOOLEAN
    <3> DEFINE fresh == M!Reset \/ cursor = M!None
               from == IF ~fresh THEN cursor ELSE IF kind.all THEN 0 ELSE server.next - 1
               over == IF fresh THEN {m \in server.box : server.uid[m] <= from} ELSE {}
    <3>1. run' = [run EXCEPT !.at = "open", !.since = from, !.reset = M!Reset, !.skip = over]
      BY <1>10 DEF M!Open
    <3>2. from \in Nat /\ from <= MaxMails
      <4>1. server.next - 1 \in Nat /\ server.next - 1 <= MaxMails
        BY <1>1
      <4>2. cursor # M!None => cursor \in Nat /\ cursor <= MaxMails
        BY <1>1
      <4> QED BY <1>1, <4>1, <4>2
    <3>3. over \subseteq M!Mails /\ M!Reset \in BOOLEAN
      BY <1>1 DEF M!Reset
    <3> HIDE DEF from, over
    <3> QED BY <3>1, <3>2, <3>3
  <2>0. ~kind.pop
    BY <1>10 DEF M!Open
  <2>2. RunOk(run')
    BY <1>1, <2>0, <2>1
  <2> HIDE DEF ServerOk, StateOk, RunOk
  <2> QED BY <1>1, <1>2, <1>10, <2>2 DEF M!Open, M!Arrived
<1>11. CASE M!Search
  <2>1. PICK first, bodiless :
          /\ run' = [run EXCEPT !.at = "read", !.batch = first, !.got = first \ bodiless,
                                !.skip = @ \union bodiless]
          /\ first \subseteq M!Mails /\ bodiless \subseteq first
    <3> DEFINE new == {m \in server.box : server.uid[m] > run.since}
    <3>1. M!FirstOf(new) \subseteq M!Mails
      BY <1>1, FirstsAre
    <3> HIDE DEF new
    <3> QED BY <1>11, <3>1 DEF M!Search, new
  <2>2. RunOk(run')
    BY <1>1, <2>1
  <2> HIDE DEF ServerOk, StateOk, RunOk
  <2> QED BY <1>1, <1>2, <1>11, <2>2 DEF M!Search, M!Arrived
<1>12. CASE M!SaveValidity
  <2>1. StateOk(state') /\ RunOk(run')
    <3>1. StateOk(state')
      BY <1>1, <1>12 DEF M!SaveValidity
    <3> HIDE DEF RunOk, StateOk
    <3> QED BY <1>3, <1>12, <3>1 DEF M!SaveValidity
  <2> HIDE DEF ServerOk, StateOk, RunOk
  <2> QED BY <1>1, <1>2, <1>12, <2>1 DEF M!SaveValidity, M!Arrived
<1>13. CASE M!List
  <2>1. RunOk(run')
    BY <1>1, <1>13 DEF M!List
  <2> HIDE DEF ServerOk, StateOk, RunOk
  <2> QED BY <1>1, <1>2, <1>13, <2>1 DEF M!List, M!Arrived
<1>14. CASE M!Retrieve
  <2> DEFINE fresh == IF M!SkipsAll THEN {}
                      ELSE M!FirstOf(run.listed \ (state.seen \union run.done))
             gone == IF kind.deletes /\ ~M!SkipsAll THEN run.done ELSE {}
             skip == IF M!SkipsAll THEN run.listed ELSE {}
  <2>1. fresh \subseteq M!Mails /\ skip \subseteq M!Mails
    <3>1. M!FirstOf(run.listed \ (state.seen \union run.done)) \subseteq M!Mails
      BY <1>1, FirstsAre
    <3> QED BY <1>1, <3>1
  <2>2. /\ server' = [server EXCEPT !.box = @ \ gone]
        /\ run' \in {M!Idle, [run EXCEPT !.at = "read", !.listed = @ \ gone, !.batch = fresh,
                                       !.got = fresh, !.skip = skip]}
    BY <1>14 DEF M!Retrieve
  <2> HIDE DEF fresh, gone, skip
  <2>3. ServerOk(server') /\ server'.arrived = server.arrived
    BY <1>1, <2>2
  <2>4. RunOk(run')
    <3>1. RunOk([run EXCEPT !.at = "read", !.listed = @ \ gone, !.batch = fresh, !.got = fresh,
                            !.skip = skip])
      BY <1>1, <2>1
    <3> HIDE DEF RunOk
    <3> QED BY <1>4, <2>2, <3>1
  <2> HIDE DEF ServerOk, StateOk, RunOk
  <2> QED BY <1>1, <1>2, <1>14, <2>3, <2>4 DEF M!Retrieve, M!Arrived
<1>15. CASE M!SaveSeen
  <2>1. PICK kept \in M!Kept : state' = [state EXCEPT !.known = TRUE, !.seen = kept]
    BY <1>15 DEF M!SaveSeen
  <2>2. kept \subseteq M!Mails /\ Cardinality(kept) <= MaxSeen
    <3>1. M!Seen \subseteq M!Mails /\ MaxSeen \in Nat
      BY <1>1 DEF M!Seen, M!MailAssumption
    <3> QED BY <3>1, SizeIs DEF M!Kept
  <2>3. StateOk(state')
    BY <1>1, <2>1, <2>2
  <2>4. RunOk(run')
    <3> HIDE DEF RunOk
    <3> QED BY <1>3, <1>15 DEF M!SaveSeen
  <2>5. RestOk'
    BY <1>1, <1>15 DEF M!SaveSeen, M!Arrived
  <2> HIDE DEF ServerOk, StateOk, RunOk, RestOk
  <2> QED BY <1>1, <1>2, <1>15, <2>3, <2>4, <2>5 DEF M!SaveSeen
<1>16. CASE M!SavePending
  <2>1. StateOk(state')
    BY <1>1, <1>16 DEF M!SavePending
  <2>2. RunOk(run')
    <3> HIDE DEF RunOk
    <3> QED BY <1>3, <1>16 DEF M!SavePending
  <2> HIDE DEF ServerOk, StateOk, RunOk
  <2> QED BY <1>1, <1>2, <1>16, <2>1, <2>2 DEF M!SavePending, M!Arrived
<1>17. CASE M!Succeed
  <2>1. M!LastUid \in {M!None} \union 0 .. MaxMails
    <3>1. CASE run.batch = {}
      BY <1>1, <3>1 DEF M!LastUid
    <3>2. CASE run.batch # {}
      <4>1. M!Max(run.batch) \in M!Mails
        BY <1>1, <3>2, LastIs
      <4> QED BY <1>1, <3>2, <4>1 DEF M!LastUid, M!Mails
    <3> QED BY <3>1, <3>2
  <2>2. counted' \in [M!Mails -> 0 .. 2]
    BY <1>1, <1>17 DEF M!Succeed
  <2>3. \A m \in M!Mails \ M!Arrived : counted' [m] = 0
    <3>1. run.got \subseteq M!Arrived
      BY <1>1, <1>17 DEF M!Succeed, Pop3Kept, ImapKept, InRead
    <3> QED BY <1>1, <1>17, <3>1 DEF M!Succeed
  <2>4. RestOk'
    BY <1>1, <1>17, <2>1, <2>2, <2>3 DEF M!Succeed, M!Arrived
  <2> HIDE DEF ServerOk, StateOk, RunOk, RestOk
  <2> QED BY <1>1, <1>2, <1>4, <1>17, <2>4 DEF M!Succeed
<1>18. CASE M!Fail
  <2>1. RestOk'
    BY <1>1, <1>18 DEF M!Fail, M!Arrived
  <2> HIDE DEF ServerOk, StateOk, RunOk, RestOk
  <2> QED BY <1>1, <1>2, <1>4, <1>18, <2>1 DEF M!Fail
<1>19. CASE UNCHANGED M!vars
  BY <1>1, <1>19 DEF M!vars, MailTypes, M!Arrived
<1> QED BY <1>5, <1>6, <1>7, <1>9, <1>10, <1>11, <1>12, <1>13, <1>14, <1>15, <1>16, <1>17, <1>18,
           <1>19 DEF M!Next

\* What the steps of the mailbox and its other clients leave.
LEMMA ArriveIs ==
  ASSUME MailTypes, M!MailAssumption, M!Arrive
  PROVE  /\ UNCHANGED <<kind, state, cursor, run, counted, waived, evicted>>
         /\ server.arrived + 1 \in M!Mails
         /\ server'.arrived = server.arrived + 1 /\ server'.next = server.next + 1
         /\ server'.era = server.era /\ server'.box = server.box \union {server.arrived + 1}
         /\ server'.uid[server.arrived + 1] = server.next
         /\ \A m \in M!Mails : m # server.arrived + 1 => server'.uid[m] = server.uid[m]
<1> DEFINE m == server.arrived + 1
           uids == [server.uid EXCEPT ![m] = server.next]
           box == server.box \union {m}
           next == server.next + 1
<1>1. server \in [box : SUBSET M!Mails, uid : [M!Mails -> Nat], next : Nat \ {0}, era : {1, 2},
                  arrived : Nat]
  BY DEF MailTypes
<1>2. server' = [server EXCEPT !.box = box, !.uid = uids, !.next = next, !.arrived = m]
      /\ m <= MaxMails /\ UNCHANGED <<kind, state, cursor, run, counted, waived, evicted>>
  BY <1>1 DEF M!Arrive
<1>3. m \in M!Mails
  BY <1>1, <1>2 DEF M!MailAssumption, M!Mails
<1>4. uids[m] = server.next /\ \A k \in M!Mails : k # m => uids[k] = server.uid[k]
  BY <1>1, <1>3
<1> HIDE DEF m, uids, box, next
<1>5. server'.box = box /\ server'.uid = uids /\ server'.next = next /\ server'.arrived = m
      /\ server'.era = server.era
  BY <1>1, <1>2
<1> QED BY <1>2, <1>3, <1>4, <1>5 DEF m, box, next

LEMMA ShrinksIs ==
  ASSUME MailTypes, M!Removed \/ M!Retrieve
  PROVE  /\ server'.box \subseteq server.box /\ server'.uid = server.uid
         /\ server'.next = server.next /\ server'.era = server.era
         /\ server'.arrived = server.arrived
<1>1. server \in [box : SUBSET M!Mails, uid : [M!Mails -> Nat], next : Nat \ {0}, era : {1, 2},
                  arrived : Nat]
  BY DEF MailTypes
<1>2. \E gone : server' = [server EXCEPT !.box = @ \ gone]
  <2>1. CASE M!Removed
    BY <2>1 DEF M!Removed
  <2>2. CASE M!Retrieve
    BY <2>2 DEF M!Retrieve
  <2> QED BY <2>1, <2>2
<1> QED BY <1>1, <1>2

LEMMA RenumberIs ==
  ASSUME MailTypes, M!MailAssumption, M!Renumber
  PROVE  /\ UNCHANGED <<kind, state, cursor, run, counted, waived, evicted>>
         /\ ~kind.pop /\ run.at = "idle" /\ server.era = 1
         /\ server'.box = server.box /\ server'.era = 2 /\ server'.arrived = server.arrived
         /\ \A m, n \in server.box : m < n => server'.uid[m] < server'.uid[n]
<1> DEFINE uids == [m \in M!Mails |-> IF m \in server.box THEN Rank(m) ELSE 0]
           next == Cardinality(server.box) + 1
<1>1. server \in [box : SUBSET M!Mails, uid : [M!Mails -> Nat], next : Nat \ {0}, era : {1, 2},
                  arrived : Nat]
  BY DEF MailTypes
<1>2. server' = [server EXCEPT !.uid = uids, !.next = next, !.era = 2]
      /\ ~kind.pop /\ run.at = "idle" /\ server.era = 1
      /\ UNCHANGED <<kind, state, cursor, run, counted, waived, evicted>>
  BY SizeIs DEF M!Renumber, Rank
<1>3. \A m, n \in server.box : m < n => uids[m] < uids[n]
  BY <1>1, RanksGrow
<1> HIDE DEF uids, next
<1>4. server'.box = server.box /\ server'.uid = uids /\ server'.era = 2
      /\ server'.arrived = server.arrived
  BY <1>1, <1>2
<1> QED BY <1>2, <1>3, <1>4

LEMMA UidsStep == ASSUME M!MailAssumption, MailTypes, UidsGrow, [M!Next]_(M!vars) PROVE UidsGrow'
<1>1. CASE M!Arrive
  <2>1. /\ \A m \in server.box : m \in M!Mails /\ m # server.arrived + 1 /\ server.uid[m] < server.next
                                 /\ m <= server.arrived /\ m \in Nat
        /\ server.arrived \in Nat /\ server.next \in Nat
    BY DEF MailTypes, M!Arrived, M!Mails
  <2>2. ASSUME NEW m \in server'.box, NEW n \in server'.box, m < n
        PROVE  server'.uid[m] < server'.uid[n]
    <3>1. CASE n \in server.box
      <4>1. m \in server.box
        BY <1>1, <2>1, <2>2, <3>1, ArriveIs
      <4> QED BY <1>1, <2>1, <2>2, <3>1, <4>1, ArriveIs DEF UidsGrow
    <3>2. CASE n \notin server.box
      <4>1. n = server.arrived + 1 /\ m \in server.box
        BY <1>1, <2>1, <2>2, <3>2, ArriveIs
      <4> QED BY <1>1, <2>1, <4>1, ArriveIs
    <3> QED BY <3>1, <3>2
  <2>3. ASSUME server'.era = 1
        PROVE  /\ server'.next = server'.arrived + 1
               /\ \A m \in 1 .. server'.arrived : server'.uid[m] = m
    <3>1. server.era = 1 /\ server.next = server.arrived + 1
          /\ \A m \in 1 .. server.arrived : server.uid[m] = m
      BY <1>1, <2>3, ArriveIs DEF UidsGrow, M!Arrived
    <3>2. \A m \in 1 .. server.arrived : m \in M!Mails
      BY DEF MailTypes, M!Mails, M!MailAssumption
    <3>3. \A m \in 1 .. server.arrived : server'.uid[m] = m
      BY <1>1, <2>1, <3>1, <3>2, ArriveIs
    <3> QED BY <1>1, <2>1, <3>1, <3>3, ArriveIs
  <2> QED BY <2>2, <2>3 DEF UidsGrow, M!Arrived
<1>2. CASE M!Removed \/ M!Retrieve
  BY <1>2, ShrinksIs DEF UidsGrow, M!Arrived
<1>3. CASE M!Renumber
  BY <1>3, RenumberIs DEF UidsGrow
<1>4. CASE UNCHANGED server
  BY <1>4 DEF UidsGrow, M!Arrived
<1> QED BY <1>1, <1>2, <1>3, <1>4
        DEF M!Next, M!vars, M!Ask, M!Open, M!Search, M!SaveValidity, M!List, M!SaveSeen,
        M!SavePending, M!Succeed, M!Fail

\* The record of the run after each of its steps.
LEMMA MailRunIs ==
  ASSUME MailTypes, M!MailAssumption
  PROVE  /\ M!Ask => run' = [run EXCEPT !.at = "asked", !.done = run'.done]
                   /\ run'.done = (IF kind.pop THEN M!Handled ELSE {}) /\ run'.at = "asked"
         /\ M!List => /\ run'.at = "listed" /\ run'.listed = server.box /\ run'.done = run.done
         /\ M!Retrieve =>
              \/ run' = M!Idle
              \/ /\ run'.at = "read" /\ run'.done = run.done
                 /\ run'.batch = IF M!SkipsAll THEN {}
                                 ELSE M!FirstOf(run.listed \ (state.seen \union run.done))
                 /\ run'.got = run'.batch
                 /\ run'.skip = IF M!SkipsAll THEN run.listed ELSE {}
                 /\ run'.listed =
                      run.listed \ IF kind.deletes /\ ~M!SkipsAll THEN run.done ELSE {}
         /\ M!SaveSeen => run' = [run EXCEPT !.at = "saving"] /\ run'.at = "saving"
         /\ M!SavePending \/ M!SaveValidity =>
               run' = [run EXCEPT !.at = "returned"] /\ run'.at = "returned"
         /\ M!Succeed \/ M!Fail => run' = M!Idle
         /\ run' = [run EXCEPT !.at = run'.at] =>
               /\ run'.since = run.since /\ run'.reset = run.reset /\ run'.listed = run.listed
               /\ run'.done = run.done /\ run'.batch = run.batch /\ run'.got = run.got
               /\ run'.skip = run.skip
<1>1. run \in [at : {"idle", "asked", "open", "listed", "read", "saving", "returned"},
              since : Nat, reset : BOOLEAN, listed : SUBSET M!Mails, done : SUBSET M!Mails,
              batch : SUBSET M!Mails, got : SUBSET M!Mails, skip : SUBSET M!Mails]
  BY DEF MailTypes
<1>2. M!Ask => run' = [run EXCEPT !.at = "asked", !.done = run'.done]
             /\ run'.done = (IF kind.pop THEN M!Handled ELSE {}) /\ run'.at = "asked"
  <2> DEFINE done == IF kind.pop THEN M!Handled ELSE {}
  <2>1. M!Ask => run' = [run EXCEPT !.at = "asked", !.done = done]
    BY DEF M!Ask
  <2> HIDE DEF done
  <2>2. M!Ask => run'.at = "asked" /\ run'.done = done
    BY <1>1, <2>1
  <2> QED BY <2>1, <2>2 DEF done
<1>3. M!List => run'.at = "listed" /\ run'.listed = server.box /\ run'.done = run.done
  BY <1>1 DEF M!List
<1>4. M!Retrieve =>
        \/ run' = M!Idle
        \/ /\ run'.at = "read" /\ run'.done = run.done
           /\ run'.batch = IF M!SkipsAll THEN {}
                           ELSE M!FirstOf(run.listed \ (state.seen \union run.done))
           /\ run'.got = run'.batch
           /\ run'.skip = IF M!SkipsAll THEN run.listed ELSE {}
           /\ run'.listed = run.listed \ IF kind.deletes /\ ~M!SkipsAll THEN run.done ELSE {}
  <2> DEFINE fresh == IF M!SkipsAll THEN {}
                      ELSE M!FirstOf(run.listed \ (state.seen \union run.done))
             gone == IF kind.deletes /\ ~M!SkipsAll THEN run.done ELSE {}
             skip == IF M!SkipsAll THEN run.listed ELSE {}
  <2>1. M!Retrieve => run' \in {M!Idle, [run EXCEPT !.at = "read", !.listed = @ \ gone,
                                     !.batch = fresh, !.got = fresh, !.skip = skip]}
    BY DEF M!Retrieve
  <2> HIDE DEF fresh, gone, skip
  <2>2. M!Retrieve =>
          \/ run' = M!Idle
          \/ /\ run'.at = "read" /\ run'.done = run.done /\ run'.batch = fresh
             /\ run'.got = fresh /\ run'.skip = skip /\ run'.listed = run.listed \ gone
    BY <1>1, <2>1
  <2> QED BY <2>2 DEF fresh, gone, skip
<1>5. M!SaveSeen => run' = [run EXCEPT !.at = "saving"] /\ run'.at = "saving"
  BY <1>1 DEF M!SaveSeen
<1>6. M!SavePending \/ M!SaveValidity => run' = [run EXCEPT !.at = "returned"] /\ run'.at = "returned"
  BY <1>1 DEF M!SavePending, M!SaveValidity
<1>7. M!Succeed \/ M!Fail => run' = M!Idle
  BY DEF M!Succeed, M!Fail
<1>8. run' = [run EXCEPT !.at = run'.at] =>
               /\ run'.since = run.since /\ run'.reset = run.reset /\ run'.listed = run.listed
               /\ run'.done = run.done /\ run'.batch = run.batch /\ run'.got = run.got
               /\ run'.skip = run.skip
  BY <1>1
<1> QED BY <1>2, <1>3, <1>4, <1>5, <1>6, <1>7, <1>8

LEMMA Pop3KeptStep == ASSUME M!MailAssumption, MailInv, [M!Next]_(M!vars) PROVE Pop3Kept'
<1> DEFINE InListing == /\ run.listed \subseteq server.box
                        /\ \A m \in M!Mails \ run.listed : \A x \in run.listed :
                             m < x => DoneWith(m)
           InBatch == /\ \A m \in M!Mails \ run.batch : \A x \in run.batch : m < x => DoneWith(m)
                      /\ run.got = run.batch /\ run.batch \subseteq M!Arrived
<1>1. /\ MailTypes /\ UidsGrow /\ Pop3Kept
      /\ MailTypes' /\ \A m \in M!Mails : DoneWith(m) => DoneWith(m)'
      /\ M!Mails \subseteq Nat
  BY MailTypesStep, HandledStays, MailsAre DEF MailInv
<1>2. /\ server.box \subseteq M!Arrived /\ M!Arrived \subseteq M!Mails /\ server.arrived \in Nat
      /\ state.seen \subseteq M!Mails /\ run.done \subseteq M!Mails /\ run.listed \subseteq M!Mails
      /\ run.batch \subseteq M!Mails /\ state.pending \subseteq M!Mails
      /\ waived' \subseteq M!Mails /\ kind' = kind
  <2>1. kind' = kind
    BY DEF M!Next, M!vars, M!Arrive, M!Removed, M!Renumber, M!Ask, M!Open, M!Search,
       M!SaveValidity, M!List, M!Retrieve,
           M!SaveSeen, M!SavePending, M!Succeed, M!Fail
  <2>2. M!Arrived \subseteq M!Mails
    BY <1>1 DEF MailTypes, M!MailAssumption, M!Arrived, M!Mails
  <2> QED BY <1>1, <2>1, <2>2 DEF MailTypes
<1>3. /\ \A m \in M!Arrived \ server.box : DoneWith(m)
      /\ \A m \in state.seen : DoneWith(m)
      /\ kind.pop /\ cursor # M!None => \A m \in M!Mails : m <= cursor => DoneWith(m)
      /\ kind.pop => run.done \subseteq {m \in M!Mails : DoneWith(m)}
      /\ kind.pop /\ run.at = "listed" => InListing
      /\ kind.pop /\ InRead => InBatch
      /\ kind.pop /\ run.at = "read" /\ M!SkipsAll => run.skip = run.listed /\ run.batch = {}
      /\ kind.pop /\ run.at = "returned" => state.pending = run.batch
  BY <1>1 DEF Pop3Kept
<1>4. ASSUME /\ \A m \in M!Arrived' \ server'.box : DoneWith(m)'
             /\ \A m \in state'.seen : DoneWith(m)'
             /\ kind.pop /\ cursor' # M!None => \A m \in M!Mails : m <= cursor' => DoneWith(m)'
             /\ kind.pop => run'.done \subseteq {m \in M!Mails : DoneWith(m)'}
             /\ kind.pop /\ run'.at = "listed" => InListing'
             /\ kind.pop /\ InRead' => InBatch'
             /\ kind.pop /\ run'.at = "read" /\ M!SkipsAll' =>
                   run'.skip = run'.listed /\ run'.batch = {}
             /\ kind.pop /\ run'.at = "returned" => state'.pending = run'.batch
      PROVE  Pop3Kept'
  BY <1>2, <1>4 DEF Pop3Kept
<1>5. ASSUME M!Arrived \subseteq M!Arrived', server.box \subseteq server'.box, UNCHANGED run
      PROVE  /\ kind.pop /\ run'.at = "listed" => InListing'
             /\ kind.pop /\ InRead' => InBatch'
             /\ kind.pop => run'.done \subseteq {m \in M!Mails : DoneWith(m)'}
  BY <1>1, <1>2, <1>3, <1>5 DEF InRead
<1>6. ASSUME UNCHANGED <<server, state>>
      PROVE  /\ \A m \in M!Arrived' \ server'.box : DoneWith(m)'
             /\ \A m \in state'.seen : DoneWith(m)'
             /\ M!Arrived' = M!Arrived
  BY <1>1, <1>2, <1>3, <1>6 DEF M!Arrived
<1>7. ASSUME UNCHANGED cursor
      PROVE  kind.pop /\ cursor' # M!None => \A m \in M!Mails : m <= cursor' => DoneWith(m)'
  BY <1>1, <1>3, <1>7
<1>8. ASSUME run' = M!Idle
      PROVE  /\ kind.pop => run'.done \subseteq {m \in M!Mails : DoneWith(m)'}
             /\ run'.at = "idle" /\ ~InRead'
  BY <1>8 DEF M!Idle, InRead
<1>9. CASE M!Arrive
  <2>1. M!Arrived' = M!Arrived \union {server.arrived + 1} /\ server'.box = server.box \union {server.arrived + 1}
        /\ UNCHANGED <<kind, state, cursor, run, counted, waived, evicted>>
    BY <1>1, <1>2, <1>9, ArriveIs DEF M!Arrived
  <2>2. \A m \in M!Arrived' \ server'.box : DoneWith(m)'
    BY <1>1, <1>2, <1>3, <2>1
  <2>3. /\ \A m \in state'.seen : DoneWith(m)'
        /\ kind.pop /\ run'.at = "read" /\ M!SkipsAll' =>
                   run'.skip = run'.listed /\ run'.batch = {}
        /\ kind.pop /\ run'.at = "returned" => state'.pending = run'.batch
    BY <1>1, <1>2, <1>3, <2>1 DEF M!SkipsAll
  <2> HIDE DEF InListing, InBatch
  <2> QED BY <1>4, <1>5, <1>7, <2>1, <2>2, <2>3
<1>10. CASE M!Removed
  <2>1. PICK m \in server.box : /\ server' = [server EXCEPT !.box = @ \ {m}]
                                /\ waived' = waived \union {m} /\ ~(kind.pop /\ M!InSession)
    BY <1>10 DEF M!Removed
  <2>2. server'.box = server.box \ {m} /\ M!Arrived' = M!Arrived
    <3>1. server \in [box : SUBSET M!Mails, uid : [M!Mails -> Nat], next : Nat \ {0}, era : {1, 2},
                      arrived : Nat]
      BY <1>1 DEF MailTypes
    <3> QED BY <2>1, <3>1 DEF M!Arrived
  <2>3. UNCHANGED <<kind, state, cursor, run>>
    BY <1>10 DEF M!Removed
  <2>4. \A k \in M!Arrived' \ server'.box : DoneWith(k)'
    BY <1>1, <1>2, <1>3, <2>1, <2>2 DEF DoneWith
  <2>5. /\ \A k \in state'.seen : DoneWith(k)'
        /\ kind.pop /\ run'.at = "read" /\ M!SkipsAll' =>
                   run'.skip = run'.listed /\ run'.batch = {}
        /\ kind.pop /\ run'.at = "returned" => state'.pending = run'.batch
        /\ kind.pop => run'.done \subseteq {k \in M!Mails : DoneWith(k)'}
        /\ kind.pop => run'.at # "listed"
    BY <1>1, <1>2, <1>3, <2>1, <2>3 DEF M!SkipsAll, M!InSession
  <2>6. kind.pop /\ InRead' => InBatch'
    BY <1>1, <1>2, <1>3, <2>2, <2>3 DEF InRead
  <2> HIDE DEF InListing, InBatch
  <2> QED BY <1>4, <1>7, <2>3, <2>4, <2>5, <2>6
<1>11. CASE M!Renumber
  <2>1. M!Arrived' = M!Arrived /\ server'.box = server.box /\ ~kind.pop /\ UNCHANGED state
    BY <1>1, <1>11, RenumberIs DEF M!Arrived
  <2> QED BY <1>1, <1>2, <1>3, <1>4, <2>1
<1>12. CASE M!Open \/ M!Search \/ M!SaveValidity
  <2>1. M!Arrived' = M!Arrived /\ server' = server /\ state'.seen = state.seen
    <3>1. state \in [era : {0, 1, 2}, known : BOOLEAN, seen : SUBSET M!Mails,
                    pending : SUBSET M!Mails]
      BY <1>1 DEF MailTypes
    <3> QED BY <1>12, <3>1 DEF M!Open, M!Search, M!SaveValidity, M!Arrived
  <2>2. ~kind.pop
    BY <1>1, <1>12 DEF M!Open, M!Search, M!SaveValidity, MailTypes
  <2> QED BY <1>1, <1>2, <1>3, <1>4, <2>1, <2>2
<1>13. CASE M!Ask
  <2>1. UNCHANGED <<server, state, cursor>>
    BY <1>13 DEF M!Ask
  <2>2. kind.pop => run'.done \subseteq {m \in M!Mails : DoneWith(m)'}
    <3>1. CASE state.pending # {} /\ M!Max(state.pending) = cursor /\ kind.pop
      <4>1. \A x \in state.pending : x <= cursor /\ cursor \in M!Mails
        BY <1>1, <1>2, <3>1, LastIs
      <4>2. cursor # M!None
        BY <3>1, <4>1, MailsAre DEF M!None
      <4> QED BY <1>1, <1>2, <1>3, <1>13, <3>1, <4>1, <4>2, MailRunIs DEF M!Handled
    <3> QED BY <1>1, <1>13, <3>1, MailRunIs DEF M!Handled
  <2>3. run'.at = "asked" /\ ~InRead'
    BY <1>1, <1>13, MailRunIs DEF InRead
  <2> HIDE DEF InListing, InBatch
  <2> QED BY <1>4, <1>6, <1>7, <2>1, <2>2, <2>3
<1>14. CASE M!List
  <2>1. UNCHANGED <<server, state, cursor>>
    BY <1>14 DEF M!List
  <2>2. run'.at = "listed" /\ ~InRead' /\ run'.listed = server.box /\ run'.done = run.done
    BY <1>1, <1>14, MailRunIs DEF InRead
  <2>3. kind.pop => run'.done \subseteq {m \in M!Mails : DoneWith(m)'}
    BY <1>1, <1>2, <1>3, <2>2
  <2>4. InListing'
    <3>1. \A m \in M!Mails, x \in server.box : m < x => m \in M!Arrived
      BY <1>1, <1>2 DEF M!Arrived, M!Mails
    <3> QED BY <1>1, <1>2, <1>3, <2>1, <2>2, <3>1
  <2> HIDE DEF InListing, InBatch
  <2> QED BY <1>4, <1>6, <1>7, <2>1, <2>2, <2>3, <2>4
<1>15. CASE M!Retrieve
  <2>1. UNCHANGED <<kind, state, cursor, counted, waived>> /\ run.at = "listed" /\ kind.pop
        /\ \E gone : gone \subseteq run.done /\ server' = [server EXCEPT !.box = @ \ gone]
    BY <1>1, <1>15 DEF M!Retrieve, MailTypes
  <2>2. M!Arrived' = M!Arrived /\ server'.box \subseteq server.box
        /\ \A m \in server.box \ server'.box : m \in run.done
    <3>1. server \in [box : SUBSET M!Mails, uid : [M!Mails -> Nat], next : Nat \ {0}, era : {1, 2},
                      arrived : Nat]
      BY <1>1 DEF MailTypes
    <3> QED BY <2>1, <3>1 DEF M!Arrived
  <2>3. /\ \A m \in M!Arrived' \ server'.box : DoneWith(m)'
        /\ \A m \in state'.seen : DoneWith(m)'
    BY <1>1, <1>2, <1>3, <2>1, <2>2
  <2>4. CASE run' = M!Idle
    <3> HIDE DEF InListing, InBatch
    <3> QED BY <1>4, <1>7, <1>8, <2>1, <2>3, <2>4
  <2>5. CASE run' # M!Idle
    <3> DEFINE new == run.listed \ (state.seen \union run.done)
    <3>1. /\ run'.at = "read" /\ run'.done = run.done /\ run'.got = run'.batch
          /\ run'.batch = IF M!SkipsAll THEN {} ELSE M!FirstOf(new)
          /\ run'.skip = IF M!SkipsAll THEN run.listed ELSE {}
          /\ run'.listed = run.listed \ IF kind.deletes /\ ~M!SkipsAll THEN run.done ELSE {}
      BY <1>1, <1>15, <2>5, MailRunIs
    <3>2. new \subseteq M!Mails
      BY <1>2
    <3> HIDE DEF new
    <3>3. M!FirstOf(new) \subseteq new
          /\ \A m \in new : \A x \in M!FirstOf(new) : m <= x => m \in M!FirstOf(new)
      BY <3>2, FirstsAre
    <3>4. run'.batch \subseteq new
          /\ \A m \in new : \A x \in run'.batch : m <= x => m \in run'.batch
      <4> HIDE DEF InListing, InBatch
      <4> QED BY <3>1, <3>3
    <3>5. \A m \in M!Mails \ run'.batch : \A x \in run'.batch : m < x => DoneWith(m)'
      <4> SUFFICES ASSUME NEW m \in M!Mails \ run'.batch, NEW x \in run'.batch, m < x
                   PROVE  DoneWith(m)
        BY <1>1
      <4>1. m <= x
        <5>1. m \in Nat /\ x \in Nat
          BY <1>1, <3>2, <3>4
        <5> QED BY <5>1
      <4>2. m \notin new
        BY <3>4, <4>1
      <4>3. x \in run.listed
        BY <3>4 DEF new
      <4>4. InListing
        BY <1>3, <2>1
      <4>5. CASE m \in run.listed
        BY <1>3, <2>1, <4>2, <4>5 DEF new
      <4>6. CASE m \notin run.listed
        BY <4>3, <4>4, <4>6
      <4> QED BY <4>5, <4>6
    <3>6. run'.batch \subseteq M!Arrived
      BY <1>2, <1>3, <2>1, <3>4 DEF new
    <3>7. InBatch'
      BY <2>2, <3>1, <3>5, <3>6
    <3>8. run'.done \subseteq {m \in M!Mails : DoneWith(m)'}
      BY <1>1, <1>2, <1>3, <2>1, <3>1
    <3>9. M!SkipsAll' => run'.skip = run'.listed /\ run'.batch = {}
      <4>1. M!SkipsAll' = M!SkipsAll
        BY <2>1 DEF M!SkipsAll
      <4> QED BY <3>1, <4>1
    <3> HIDE DEF InListing, InBatch
    <3> QED BY <1>4, <1>7, <2>1, <2>3, <3>1, <3>7, <3>8, <3>9
  <2> QED BY <2>4, <2>5
<1>16. CASE M!SaveSeen
  <2>1. UNCHANGED <<server, cursor>> /\ run.at = "read" /\ kind.pop /\ waived' = waived \union run.skip
    BY <1>16 DEF M!SaveSeen
  <2>2. /\ run'.at = "saving" /\ run'.listed = run.listed /\ run'.done = run.done
        /\ run'.batch = run.batch /\ run'.got = run.got
    BY <1>1, <1>16, MailRunIs
  <2>3. state'.seen \subseteq M!Seen
    <3>1. state \in [era : {0, 1, 2}, known : BOOLEAN, seen : SUBSET M!Mails,
                    pending : SUBSET M!Mails]
      BY <1>1 DEF MailTypes
    <3>2. PICK kept \in M!Kept : state' = [state EXCEPT !.known = TRUE, !.seen = kept]
      BY <1>16 DEF M!SaveSeen
    <3>3. kept \subseteq M!Seen
      BY DEF M!Kept
    <3> QED BY <3>1, <3>2, <3>3
  <2>4. \A m \in state'.seen : DoneWith(m)'
    <3>1. \A m \in M!Seen : m \in state.seen \/ m \in run.done \/ m \in run.skip
      BY <1>3, <2>1 DEF M!Seen
    <3> QED BY <1>1, <1>2, <1>3, <2>1, <2>3, <3>1 DEF DoneWith
  <2>5. InBatch'
    BY <1>1, <1>2, <1>3, <2>1, <2>2 DEF InRead, M!Arrived
  <2>6. \A m \in M!Arrived' \ server'.box : DoneWith(m)'
    BY <1>1, <1>2, <1>3, <2>1 DEF M!Arrived
  <2>7. run'.done \subseteq {m \in M!Mails : DoneWith(m)'}
    BY <1>1, <1>2, <1>3, <2>1, <2>2
  <2> HIDE DEF InListing, InBatch
  <2> QED BY <1>4, <1>7, <2>1, <2>2, <2>4, <2>5, <2>6, <2>7
<1>17. CASE M!SavePending
  <2>1. UNCHANGED <<server, cursor>> /\ run.at = "saving" /\ kind.pop
    BY <1>1, <1>17 DEF M!SavePending, MailTypes
  <2>2. /\ run'.at = "returned" /\ run'.listed = run.listed /\ run'.done = run.done
        /\ run'.batch = run.batch /\ run'.got = run.got
    BY <1>1, <1>17, MailRunIs
  <2>3. state'.seen = state.seen /\ state'.pending = run.batch
    <3>1. state \in [era : {0, 1, 2}, known : BOOLEAN, seen : SUBSET M!Mails,
                    pending : SUBSET M!Mails]
      BY <1>1 DEF MailTypes
    <3> QED BY <1>17, <3>1 DEF M!SavePending
  <2>4. /\ \A m \in M!Arrived' \ server'.box : DoneWith(m)'
        /\ \A m \in state'.seen : DoneWith(m)'
        /\ run'.done \subseteq {m \in M!Mails : DoneWith(m)'}
    BY <1>1, <1>2, <1>3, <2>1, <2>2, <2>3 DEF M!Arrived
  <2>5. InBatch'
    BY <1>1, <1>2, <1>3, <2>1, <2>2 DEF InRead, M!Arrived
  <2> HIDE DEF InListing, InBatch
  <2> QED BY <1>4, <1>7, <2>1, <2>2, <2>3, <2>4, <2>5
<1>18. CASE M!Succeed
  <2>1. UNCHANGED <<server, state>> /\ run.at = "returned" /\ cursor' = M!LastUid /\ run' = M!Idle
        /\ counted' = [m \in M!Mails |-> IF m \in run.got /\ counted[m] < 2 THEN counted[m] + 1
                                        ELSE counted[m]]
    BY <1>18 DEF M!Succeed
  <2>2. \A m \in run.got : DoneWith(m)'
    <3>1. counted \in [M!Mails -> 0 .. 2] /\ run.got \subseteq M!Mails
      BY <1>1 DEF MailTypes
    <3> QED BY <2>1, <3>1 DEF DoneWith
  <2>3. kind.pop /\ cursor' # M!None => \A m \in M!Mails : m <= cursor' => DoneWith(m)'
    <3>1. CASE run.batch = {} \/ ~kind.pop
      BY <1>1, <1>3, <2>1, <3>1 DEF M!LastUid
    <3>2. CASE run.batch # {} /\ kind.pop
      <4>1. cursor' = M!Max(run.batch) /\ M!Max(run.batch) \in run.batch
        BY <1>2, <2>1, <3>2, LastIs DEF M!LastUid
      <4>2. InBatch
        BY <1>3, <2>1, <3>2 DEF InRead
      <4>3. ASSUME NEW m \in M!Mails, m <= cursor' PROVE DoneWith(m)'
        <5>1. CASE m \in run.batch
          BY <2>2, <4>2, <5>1
        <5>2. CASE m \notin run.batch
          <6>1. m < M!Max(run.batch)
            <7>1. m # M!Max(run.batch) /\ m \in Nat /\ M!Max(run.batch) \in Nat
              BY <1>1, <1>2, <4>1, <5>2
            <7> QED BY <4>1, <4>3, <7>1
          <6> QED BY <1>1, <4>1, <4>2, <5>2, <6>1
        <5> QED BY <5>1, <5>2
      <4> QED BY <4>3
    <3> QED BY <3>1, <3>2
  <2> HIDE DEF InListing, InBatch
  <2> QED BY <1>4, <1>6, <1>8, <2>1, <2>3
<1>19. CASE M!Fail
  <2>1. UNCHANGED <<server, state, cursor>> /\ run' = M!Idle
    BY <1>19 DEF M!Fail
  <2> HIDE DEF InListing, InBatch
  <2> QED BY <1>4, <1>6, <1>7, <1>8, <2>1
<1>20. CASE UNCHANGED M!vars
  <2>1. UNCHANGED <<server, state, cursor, run, kind>>
    BY <1>20 DEF M!vars
  <2>2. /\ kind.pop /\ run'.at = "read" /\ M!SkipsAll' =>
                   run'.skip = run'.listed /\ run'.batch = {}
        /\ kind.pop /\ run'.at = "returned" => state'.pending = run'.batch
    BY <1>3, <2>1 DEF M!SkipsAll
  <2> HIDE DEF InListing, InBatch
  <2> QED BY <1>4, <1>5, <1>6, <1>7, <2>1, <2>2
<1> QED BY <1>9, <1>10, <1>11, <1>12, <1>13, <1>14, <1>15, <1>16, <1>17, <1>18, <1>19,
           <1>20 DEF M!Next

LEMMA ImapKeptStep == ASSUME M!MailAssumption, MailInv, [M!Next]_(M!vars) PROVE ImapKept'
<1> DEFINE AtCursor == /\ cursor < server.next
                       /\ \A m \in server.box : server.uid[m] <= cursor => DoneWith(m)
           AtSince == /\ run.since < server.next
                      /\ \A m \in server.box :
                           server.uid[m] <= run.since => DoneWith(m) \/ m \in run.skip
           BatchIs == /\ run.batch \subseteq M!Arrived /\ run.batch \subseteq run.got \union run.skip
                      /\ run.got \subseteq run.batch
                      /\ \A m \in server.box \ run.batch : \A x \in run.batch :
                           server.uid[m] <= server.uid[x] => server.uid[m] <= run.since
                      /\ \A x \in run.batch : server.uid[x] > run.since
           Trusted == cursor # M!None /\ state.era = server.era /\ SureCursor
                      /\ ~(run.at = "returned" /\ run.reset)
           Reading == run.at \in {"open", "read", "returned"}
           HasBatch == run.at \in {"read", "returned"}
<1>1. /\ MailTypes /\ UidsGrow /\ ImapKept /\ MailTypes'
      /\ \A m \in M!Mails : DoneWith(m) => DoneWith(m)'
      /\ M!Mails \subseteq Nat
  BY MailTypesStep, HandledStays, MailsAre DEF MailInv
<1>2. /\ server.box \subseteq M!Arrived /\ M!Arrived \subseteq M!Mails /\ server.arrived \in Nat
      /\ server.era \in {1, 2} /\ state.era \in {0, 1, 2} /\ server.next \in Nat \ {0}
      /\ \A m \in M!Mails : server.uid[m] \in Nat
      /\ run.since \in Nat /\ run.batch \subseteq M!Mails /\ cursor \in Nat \union {M!None}
      /\ \A m \in M!Arrived : server.uid[m] < server.next
      /\ run.reset \in BOOLEAN /\ FailsAfterReset \in BOOLEAN
  <2>1. M!Arrived \subseteq M!Mails
    BY <1>1 DEF MailTypes, M!MailAssumption, M!Arrived, M!Mails
  <2>2. cursor \in Nat \union {M!None}
    BY <1>1 DEF MailTypes
  <2> QED BY <1>1, <2>1, <2>2 DEF MailTypes, M!MailAssumption
<1>t. server \in [box : SUBSET M!Mails, uid : [M!Mails -> Nat], next : Nat \ {0}, era : {1, 2},
                 arrived : Nat]
  BY <1>1 DEF MailTypes
<1>3. kind' = kind
  BY DEF M!Next, M!vars, M!Arrive, M!Removed, M!Renumber, M!Ask, M!Open, M!Search, M!SaveValidity,
     M!List, M!Retrieve,
         M!SaveSeen, M!SavePending, M!Succeed, M!Fail
<1>s. SureCursor' => SureCursor
  <2>1. server'.era = 2 \/ server'.era = server.era
    BY <1>2, <1>t DEF M!Next, M!vars, M!Arrive, M!Removed, M!Renumber, M!Ask, M!Open, M!Search,
       M!SaveValidity, M!List, M!Retrieve, M!SaveSeen, M!SavePending, M!Succeed, M!Fail
  <2> QED BY <2>1 DEF SureCursor
<1>4. SUFFICES ASSUME ~kind.pop
               PROVE  /\ state'.era <= server'.era
                      /\ cursor' # M!None => state'.era # 0
                      /\ Trusted' => AtCursor'
                      /\ Reading' => /\ run'.reset => server'.era = 2
                                     /\ run'.at \in {"open", "read"} => run'.reset = M!Reset'
                                     /\ SureCursor' => AtSince'
                      /\ HasBatch' => BatchIs'
                      /\ run'.at = "returned" => state'.era = server'.era
  BY <1>3 DEF ImapKept
<1>5. /\ state.era <= server.era
      /\ cursor # M!None => state.era # 0
      /\ Trusted => AtCursor
      /\ Reading => /\ run.reset => server.era = 2
                    /\ run.at \in {"open", "read"} => run.reset = M!Reset
                    /\ SureCursor => AtSince
      /\ HasBatch => BatchIs
      /\ run.at = "returned" => state.era = server.era
  BY <1>1, <1>4 DEF ImapKept
<1>6. ASSUME UNCHANGED <<state, cursor>>, run' = M!Idle \/ run'.at = "asked",
             UNCHANGED server, ~(run.at = "returned" /\ run.reset)
      PROVE  /\ state'.era <= server'.era
             /\ cursor' # M!None => state'.era # 0
             /\ Trusted' => AtCursor'
             /\ ~Reading' /\ ~HasBatch' /\ run'.at # "returned"
  <2>1. /\ ~Reading' /\ ~HasBatch' /\ run'.at # "returned"
    BY <1>6 DEF M!Idle
  <2>2. Trusted' => Trusted
    BY <1>6, <1>s
  <2>3. AtCursor => AtCursor'
    BY <1>1, <1>2, <1>6
  <2> HIDE DEF Trusted, AtCursor, Reading, HasBatch
  <2> QED BY <1>s, <1>5, <1>6, <2>1, <2>2, <2>3
<1>7. CASE M!Arrive
  <2> DEFINE new == server.arrived + 1
  <2>1. /\ UNCHANGED <<state, cursor, run>> /\ server'.next = server.next + 1
        /\ server'.era = server.era /\ server'.box = server.box \union {new}
        /\ server'.uid[new] = server.next /\ M!Arrived \subseteq M!Arrived'
        /\ \A m \in M!Arrived : server'.uid[m] = server.uid[m]
    <3>1. \A m \in M!Arrived : m \in M!Mails /\ m # new
      BY <1>2 DEF M!Arrived
    <3>2. M!Arrived \subseteq M!Arrived'
      BY <1>1, <1>2, <1>7, ArriveIs DEF M!Arrived
    <3> QED BY <1>1, <1>7, <3>1, <3>2, ArriveIs
  <2> HIDE DEF new
  <2>2. ASSUME NEW k \in Nat, k < server.next
        PROVE  /\ k < server'.next
               /\ \A m \in server'.box : server'.uid[m] <= k =>
                    m \in server.box /\ server.uid[m] <= k
    <3> SUFFICES ASSUME NEW m \in server'.box, server'.uid[m] <= k
                 PROVE  m \in server.box /\ server.uid[m] <= k
      BY <1>2, <2>1, <2>2
    <3>1. CASE m \in server.box
      BY <1>2, <2>1, <3>1
    <3>2. CASE m = new
      BY <1>2, <2>1, <2>2, <3>2
    <3> QED BY <2>1, <3>1, <3>2
  <2>3. /\ AtCursor /\ cursor # M!None => AtCursor'
        /\ AtSince => AtSince'
    <3>1. \A m \in server.box : DoneWith(m) => DoneWith(m)'
      BY <1>1, <1>2
    <3>2. AtCursor /\ cursor # M!None => AtCursor'
      BY <1>2, <2>1, <2>2, <3>1
    <3>3. AtSince => AtSince'
      BY <1>2, <2>1, <2>2, <3>1
    <3> QED BY <3>2, <3>3
  <2>4. BatchIs => BatchIs'
    <3> SUFFICES ASSUME BatchIs PROVE BatchIs'
      OBVIOUS
    <3>1. \A x \in run.batch : server'.uid[x] = server.uid[x] /\ server.uid[x] < server.next
                               /\ server.uid[x] \in Nat
      BY <1>2, <2>1
    <3>2. \A m \in server'.box \ run.batch : \A x \in run.batch :
                           server'.uid[m] <= server'.uid[x] => server'.uid[m] <= run.since
      <4> SUFFICES ASSUME NEW m \in server'.box \ run.batch, NEW x \in run.batch,
                          server'.uid[m] <= server'.uid[x]
                   PROVE  server'.uid[m] <= run.since
        OBVIOUS
      <4>1. CASE m \in server.box
        BY <1>2, <2>1, <3>1, <4>1
      <4>2. CASE m = new
        BY <1>2, <2>1, <3>1, <4>2
      <4> QED BY <2>1, <4>1, <4>2
    <3> QED BY <2>1, <3>1, <3>2
  <2>5. (Trusted' => Trusted) /\ Reading' = Reading /\ HasBatch' = HasBatch /\ M!Reset' = M!Reset
        /\ (Trusted => cursor # M!None)
    BY <1>s, <2>1 DEF M!Reset
  <2> HIDE DEF Trusted, AtCursor, Reading, HasBatch, AtSince, BatchIs
  <2> QED BY <1>s, <1>5, <2>1, <2>2, <2>3, <2>4, <2>5
<1>8. CASE M!Removed
  <2>1. /\ UNCHANGED <<state, cursor, run>> /\ server'.next = server.next
        /\ server'.era = server.era /\ server'.box \subseteq server.box
        /\ server'.uid = server.uid /\ M!Arrived' = M!Arrived
    BY <1>1, <1>8, ShrinksIs DEF M!Removed, M!Arrived
  <2>2. (AtCursor => AtCursor') /\ (AtSince => AtSince') /\ (BatchIs => BatchIs')
    BY <1>1, <1>2, <2>1
  <2>3. (Trusted' => Trusted) /\ Reading' = Reading /\ HasBatch' = HasBatch /\ M!Reset' = M!Reset
    BY <1>s, <2>1 DEF M!Reset
  <2> HIDE DEF Trusted, AtCursor, Reading, HasBatch, AtSince, BatchIs
  <2> QED BY <1>s, <1>5, <2>1, <2>2, <2>3
<1>9. CASE M!Renumber
  <2>1. /\ UNCHANGED <<state, cursor, run>> /\ server.era = 1 /\ server'.era = 2
        /\ run.at = "idle"
    BY <1>1, <1>9, RenumberIs
  <2>2. state.era <= 1 /\ ~Trusted' /\ ~Reading' /\ ~HasBatch' /\ run'.at # "returned"
    BY <1>2, <1>5, <2>1
  <2> HIDE DEF Trusted, AtCursor, Reading, HasBatch, AtSince, BatchIs
  <2> QED BY <1>s, <1>2, <1>5, <2>1, <2>2
<1>10. CASE M!Ask
  <2>1. UNCHANGED <<state, cursor, server>> /\ run'.at = "asked" /\ run.at = "idle"
    BY <1>1, <1>10, MailRunIs DEF M!Ask
  <2> HIDE DEF Trusted, AtCursor, Reading, HasBatch, AtSince, BatchIs
  <2> QED BY <1>6, <2>1
<1>11. CASE M!Open
  <2> DEFINE fresh == M!Reset \/ cursor = M!None
             since == IF ~fresh THEN cursor ELSE IF kind.all THEN 0 ELSE server.next - 1
             skip == IF fresh THEN {m \in server.box : server.uid[m] <= since} ELSE {}
  <2>1. UNCHANGED <<state, cursor, server, counted, waived>> /\ run.at = "asked"
        /\ run' = [run EXCEPT !.at = "open", !.since = since, !.reset = M!Reset, !.skip = skip]
    BY <1>11 DEF M!Open
  <2>2. M!Reset => server.era = 2
    BY <1>2, <1>5 DEF M!Reset
  <2>3. SureCursor => /\ since < server.next
                    /\ \A m \in server.box : server.uid[m] <= since => DoneWith(m) \/ m \in skip
    <3>1. CASE fresh
      BY <1>2, <3>1
    <3>2. CASE ~fresh
      <4>1. Trusted \/ ~SureCursor
        BY <1>2, <1>5, <2>1, <3>2 DEF M!Reset
      <4>2. since = cursor
        BY <3>2
      <4>3. Trusted => AtCursor
        BY <1>5
      <4> HIDE DEF Trusted, fresh, since
      <4> QED BY <4>1, <4>2, <4>3
    <3> QED BY <3>1, <3>2
  <2> HIDE DEF fresh, since, skip
  <2>4. /\ run'.at = "open" /\ run'.since = since /\ run'.reset = M!Reset /\ run'.skip = skip
    <3>1. run \in [at : {"idle", "asked", "open", "listed", "read", "saving", "returned"},
              since : Nat, reset : BOOLEAN, listed : SUBSET M!Mails, done : SUBSET M!Mails,
              batch : SUBSET M!Mails, got : SUBSET M!Mails, skip : SUBSET M!Mails]
      BY <1>1 DEF MailTypes
    <3> QED BY <2>1, <3>1
  <2>5. SureCursor' => AtSince'
    <3>1. \A m \in M!Mails : DoneWith(m)' = DoneWith(m)
      BY <2>1 DEF DoneWith
    <3> QED BY <1>s, <1>2, <2>1, <2>3, <2>4, <3>1
  <2>6. Trusted' => AtCursor'
    <3>1. Trusted' => Trusted
      BY <1>s, <2>1, <2>4
    <3>2. AtCursor => AtCursor'
      BY <1>1, <1>2, <2>1
    <3> HIDE DEF Trusted, AtCursor
    <3> QED BY <1>5, <3>1, <3>2
  <2>7. ~HasBatch' /\ M!Reset' = M!Reset
    BY <2>1, <2>4 DEF M!Reset
  <2> HIDE DEF Trusted, AtCursor, Reading, HasBatch, AtSince, BatchIs
  <2> QED BY <1>s, <1>5, <2>1, <2>2, <2>4, <2>5, <2>6, <2>7
<1>12. CASE M!Search
  <2> DEFINE new == {m \in server.box : server.uid[m] > run.since}
             first == M!FirstOf(new)
  <2>1. UNCHANGED <<state, cursor, server, counted, waived>> /\ run.at = "open"
    BY <1>12 DEF M!Search
  <2>2. PICK bodiless \in SUBSET first :
          run' = [run EXCEPT !.at = "read", !.batch = first, !.got = first \ bodiless,
                             !.skip = @ \union bodiless]
    BY <1>12 DEF M!Search
  <2>3. new \subseteq M!Mails
    BY <1>2
  <2>4. first \subseteq new /\ \A m \in new : \A x \in first : m <= x => m \in first
    <3> HIDE DEF new
    <3> QED BY <2>3, FirstsAre
  <2> HIDE DEF first
  <2>5. /\ run'.at = "read" /\ run'.since = run.since /\ run'.reset = run.reset
        /\ run'.batch = first /\ run'.got = first \ bodiless
        /\ run'.skip = run.skip \union bodiless
    <3>1. run \in [at : {"idle", "asked", "open", "listed", "read", "saving", "returned"},
              since : Nat, reset : BOOLEAN, listed : SUBSET M!Mails, done : SUBSET M!Mails,
              batch : SUBSET M!Mails, got : SUBSET M!Mails, skip : SUBSET M!Mails]
      BY <1>1 DEF MailTypes
    <3> HIDE DEF new
    <3> QED BY <2>2, <3>1
  <2>6. first \subseteq server.box /\ \A x \in first : server.uid[x] > run.since
    BY <2>4
  <2>7. ASSUME NEW m \in server.box \ first, NEW x \in first, server.uid[m] <= server.uid[x]
        PROVE  server.uid[m] <= run.since
    <3>1. m \in Nat /\ x \in Nat /\ x \in server.box /\ server.uid[m] \in Nat
          /\ server.uid[x] \in Nat
      BY <1>1, <1>2, <2>6
    <3>2. x < m => server.uid[x] < server.uid[m]
      BY <1>1, <2>7, <3>1 DEF UidsGrow
    <3>3. m <= x
      BY <2>7, <3>1, <3>2
    <3>4. m \notin new
      BY <2>4, <2>7, <3>3
    <3> QED BY <1>2, <2>7, <3>1, <3>4
  <2>8. BatchIs'
    BY <1>2, <2>1, <2>5, <2>6, <2>7 DEF M!Arrived
  <2>9. (AtSince => AtSince') /\ (AtCursor => AtCursor')
    BY <1>1, <1>2, <2>1, <2>5
  <2>10. (Trusted' => Trusted) /\ Reading' /\ Reading /\ M!Reset' = M!Reset
    BY <1>s, <2>1, <2>5 DEF M!Reset
  <2> HIDE DEF Trusted, AtCursor, Reading, HasBatch, AtSince, BatchIs
  <2> QED BY <1>s, <1>5, <2>1, <2>5, <2>8, <2>9, <2>10
<1>13. CASE M!SaveValidity
  <2>1. UNCHANGED <<cursor, server, counted, waived>> /\ run.at = "read"
        /\ state'.era = server.era
    <3>1. state \in [era : {0, 1, 2}, known : BOOLEAN, seen : SUBSET M!Mails,
                    pending : SUBSET M!Mails]
      BY <1>1 DEF MailTypes
    <3> QED BY <1>13, <3>1 DEF M!SaveValidity
  <2>2. /\ run'.at = "returned" /\ run'.since = run.since /\ run'.reset = run.reset
        /\ run'.batch = run.batch /\ run'.got = run.got /\ run'.skip = run.skip
    BY <1>1, <1>13, MailRunIs
  <2>3. M!Arrived' = M!Arrived
    BY <2>1 DEF M!Arrived
  <2>4. /\ AtSince => AtSince'
        /\ AtCursor => AtCursor'
        /\ BatchIs => BatchIs'
    BY <1>1, <1>2, <2>1, <2>2, <2>3
  <2>5. Reading /\ HasBatch /\ (Trusted' => Trusted)
    <3>1. Reading /\ HasBatch /\ run.reset = M!Reset
      BY <1>s, <1>5, <2>1
    <3>2. Trusted' => Trusted
      BY <1>s, <1>2, <1>5, <2>1, <2>2, <3>1 DEF M!Reset
    <3> QED BY <3>1, <3>2
  <2> HIDE DEF Trusted, AtCursor, Reading, HasBatch, AtSince, BatchIs
  <2> QED BY <1>s, <1>2, <1>5, <2>1, <2>2, <2>4, <2>5
<1>14. CASE M!Succeed
  <2>1. UNCHANGED <<server, state>> /\ run.at = "returned" /\ cursor' = M!LastUid
        /\ run' = M!Idle /\ waived' = waived \union run.skip
        /\ counted' = [m \in M!Mails |-> IF m \in run.got /\ counted[m] < 2 THEN counted[m] + 1
                                        ELSE counted[m]]
    BY <1>14 DEF M!Succeed
  <2>2. \A m \in M!Mails : m \in run.got \/ m \in run.skip => DoneWith(m)'
    <3>1. counted \in [M!Mails -> 0 .. 2] /\ run.got \subseteq M!Mails
      BY <1>1 DEF MailTypes
    <3> QED BY <2>1, <3>1 DEF DoneWith
  <2>3. BatchIs /\ state.era = server.era /\ (SureCursor => AtSince)
    BY <1>5, <2>1
  <2>4. SureCursor => AtCursor'
    <3>1. CASE run.batch = {}
      <4>1. cursor' = run.since
        BY <1>4, <2>1, <3>1 DEF M!LastUid
      <4> QED BY <1>1, <1>2, <2>1, <2>2, <2>3, <4>1
    <3>2. CASE run.batch # {}
      <4>1. cursor' = server.uid[M!Max(run.batch)]
        BY <1>4, <2>1, <3>2 DEF M!LastUid
      <4>2. M!Max(run.batch) \in run.batch
        BY <1>2, <3>2, LastIs
      <4>3. cursor' < server.next
        BY <1>2, <2>3, <4>1, <4>2
      <4>4. ASSUME NEW m \in server.box, server.uid[m] <= cursor', SureCursor PROVE DoneWith(m)'
        <5>1. m \in M!Mails
          BY <1>2
        <5>2. CASE m \in run.batch
          BY <2>2, <2>3, <5>1, <5>2
        <5>3. CASE m \notin run.batch
          <6>1. server.uid[m] <= run.since
            BY <2>3, <4>1, <4>2, <4>4, <5>3
          <6>2. DoneWith(m) \/ m \in run.skip
            BY <2>3, <4>4, <6>1
          <6> QED BY <1>1, <2>2, <5>1, <6>2
        <5> QED BY <5>2, <5>3
      <4> QED BY <2>1, <4>3, <4>4
    <3> QED BY <3>1, <3>2
  <2>5. ~Reading' /\ ~HasBatch' /\ run'.at # "returned" /\ (Trusted' => SureCursor)
    BY <1>s, <2>1 DEF M!Idle
  <2> HIDE DEF Trusted, AtCursor, Reading, HasBatch, AtSince, BatchIs
  <2> QED BY <1>s, <1>2, <1>5, <2>1, <2>3, <2>4, <2>5
<1>15. CASE M!Fail
  <2>1. UNCHANGED <<server, state, cursor>> /\ run' = M!Idle
        /\ (FailsAfterReset \/ ~(run.at = "returned" /\ run.reset))
    BY <1>15 DEF M!Fail
  <2>2. SureCursor => ~(run.at = "returned" /\ run.reset)
    BY <1>5, <2>1 DEF SureCursor
  <2>4. ~Reading' /\ ~HasBatch' /\ run'.at # "returned" /\ (Trusted' => Trusted)
    BY <1>s, <1>2, <2>1, <2>2 DEF M!Idle, SureCursor
  <2>3. AtCursor => AtCursor'
    BY <1>1, <1>2, <2>1
  <2> HIDE DEF Trusted, AtCursor, Reading, HasBatch, AtSince, BatchIs
  <2> QED BY <1>s, <1>5, <2>1, <2>4, <2>3
<1>16. CASE M!List \/ M!Retrieve \/ M!SaveSeen \/ M!SavePending
  BY <1>1, <1>4, <1>16 DEF M!List, M!Retrieve, M!SaveSeen, M!SavePending, MailTypes
<1>17. CASE UNCHANGED M!vars
  <2>1. UNCHANGED <<server, state, cursor, run, counted, waived>>
    BY <1>17 DEF M!vars
  <2>2. /\ (Trusted' => Trusted) /\ Reading' = Reading /\ HasBatch' = HasBatch /\ M!Reset' = M!Reset
    BY <1>s, <2>1 DEF M!Reset
  <2>3. /\ (AtCursor => AtCursor') /\ (AtSince => AtSince') /\ (BatchIs => BatchIs')
    BY <1>1, <1>2, <2>1 DEF M!Arrived
  <2> HIDE DEF Trusted, AtCursor, Reading, HasBatch, AtSince, BatchIs
  <2> QED BY <1>s, <1>5, <2>1, <2>2, <2>3
<1> QED BY <1>7, <1>8, <1>9, <1>10, <1>11, <1>12, <1>13, <1>14, <1>15, <1>16, <1>17 DEF M!Next

LEMMA OnceStep == ASSUME M!MailAssumption, MailInv, [M!Next]_(M!vars) PROVE Once'
<1> DEFINE Known == \A m \in server.box : counted[m] > 0 => m \in state.seen \union M!Handled
           Told == run.at \in {"asked", "listed", "read", "saving"}
           Listed == run.at \in {"listed", "read"}
           Fits == \A m \in server.box \ run.listed : counted[m] = 0
           Fresh == \A m \in run.batch : counted[m] = 0
           Saved == run.at \in {"saving", "returned"}
           AllSeen == \A m \in server.box : counted[m] > 0 => m \in state.seen
           Below == \A m \in M!Mails : counted[m] > 0 => cursor # M!None /\ m <= cursor
           Reading == run.at \in {"open", "read", "returned"}
           AtMost == \A m \in M!Mails : counted[m] <= 1
<1>1. /\ MailTypes /\ UidsGrow /\ Pop3Kept /\ ImapKept /\ Once
      /\ M!Mails \subseteq Nat /\ MaxSeen \in Nat \ {0}
  BY MailsAre DEF MailInv, M!MailAssumption
<1>2. /\ server.box \subseteq M!Arrived /\ M!Arrived \subseteq M!Mails /\ server.arrived \in Nat
      /\ server.era \in {1, 2} /\ state.era \in {0, 1, 2}
      /\ run.since \in Nat /\ run.batch \subseteq M!Mails /\ cursor \in Nat \union {M!None}
      /\ evicted \in BOOLEAN /\ counted \in [M!Mails -> 0 .. 2]
      /\ \A m \in M!Mails \ M!Arrived : counted[m] = 0
  <2>1. M!Arrived \subseteq M!Mails
    BY <1>1 DEF MailTypes, M!MailAssumption, M!Arrived, M!Mails
  <2>2. cursor \in Nat \union {M!None}
    BY <1>1 DEF MailTypes
  <2> QED BY <1>1, <2>1, <2>2 DEF MailTypes
<1>3. kind' = kind
  BY DEF M!Next, M!vars, M!Arrive, M!Removed, M!Renumber, M!Ask, M!Open, M!Search, M!SaveValidity,
     M!List, M!Retrieve,
         M!SaveSeen, M!SavePending, M!Succeed, M!Fail
<1>4. /\ kind.pop /\ ~evicted => /\ Known
                                 /\ Told => run.done = M!Handled
                                 /\ Listed => Fits
                                 /\ InRead => Fresh
                                 /\ Saved => AllSeen
      /\ ~kind.pop /\ ~evicted /\ server.era = 1 =>
           /\ Below
           /\ Reading /\ cursor # M!None => run.since >= cursor
           /\ cursor # M!None => cursor <= server.arrived
      /\ evicted \/ server.era = 2 \/ AtMost
  BY <1>1 DEF Once
<1>5. ASSUME /\ kind.pop /\ ~evicted' => /\ Known'
                                         /\ Told' => run'.done = M!Handled'
                                         /\ Listed' => Fits'
                                         /\ InRead' => Fresh'
                                         /\ Saved' => AllSeen'
             /\ ~kind.pop /\ ~evicted' /\ server'.era = 1 =>
                  /\ Below'
                  /\ (Reading' /\ cursor' # M!None) => run'.since >= cursor'
                  /\ cursor' # M!None => cursor' <= server'.arrived
             /\ evicted' \/ server'.era = 2 \/ AtMost'
      PROVE  Once'
  BY <1>3, <1>5 DEF Once
<1>6. ASSUME UNCHANGED <<state, cursor, counted, evicted>>, server'.era = server.era,
             server'.arrived = server.arrived, server'.box \subseteq server.box
      PROVE  /\ M!Handled' = M!Handled
             /\ kind.pop /\ ~evicted' => Known'
             /\ (AllSeen => AllSeen') /\ AtMost' = AtMost /\ Below' = Below
             /\ cursor' # M!None => cursor' = cursor
             /\ evicted' = evicted
  BY <1>4, <1>6 DEF M!Handled
<1>7. CASE M!Arrive
  <2>1. /\ UNCHANGED <<state, cursor, run, counted, evicted>>
        /\ server'.era = server.era /\ server'.arrived = server.arrived + 1
        /\ server'.box = server.box \union {server.arrived + 1}
    BY <1>1, <1>7, ArriveIs
  <2>2. counted[server.arrived + 1] = 0
    <3>1. server.arrived + 1 \in M!Mails \ M!Arrived
      BY <1>1, <1>2, <1>7, ArriveIs DEF M!Arrived
    <3> QED BY <1>2, <3>1
  <2>3. (Known => Known') /\ (Fits => Fits') /\ (AllSeen => AllSeen') /\ M!Handled' = M!Handled
    BY <1>2, <2>1, <2>2 DEF M!Handled
  <2>4. /\ Fresh' = Fresh /\ Below' = Below /\ AtMost' = AtMost /\ Told' = Told
        /\ Listed' = Listed /\ Saved' = Saved /\ InRead' = InRead /\ Reading' = Reading
    BY <2>1 DEF InRead
  <2>5. cursor # M!None /\ cursor <= server.arrived => cursor <= server'.arrived
    BY <1>2, <2>1
  <2> HIDE DEF Known, Told, Listed, Fits, Fresh, Saved, AllSeen, Below, Reading, AtMost
  <2> QED BY <1>4, <1>5, <2>1, <2>3, <2>4, <2>5
<1>8. CASE M!Removed
  <2>1. /\ UNCHANGED <<state, cursor, run, counted, evicted>> /\ server'.era = server.era
        /\ server'.arrived = server.arrived /\ server'.box \subseteq server.box
    BY <1>1, <1>8, ShrinksIs DEF M!Removed
  <2>2. /\ Fresh' = Fresh /\ Told' = Told /\ Listed' = Listed /\ Saved' = Saved
        /\ InRead' = InRead /\ Reading' = Reading /\ (Fits => Fits')
    BY <2>1 DEF InRead
  <2> HIDE DEF Known, Told, Listed, Fits, Fresh, Saved, AllSeen, Below, Reading, AtMost
  <2> QED BY <1>4, <1>5, <1>6, <2>1, <2>2
<1>9. CASE M!Renumber
  <2>1. server'.era = 2 /\ ~kind.pop
    BY <1>1, <1>9, RenumberIs
  <2> QED BY <1>5, <2>1
<1>10. CASE M!Ask
  <2>1. UNCHANGED <<state, cursor, counted, evicted, server>>
    BY <1>10 DEF M!Ask
  <2>2. run'.at = "asked" /\ (kind.pop => run'.done = M!Handled)
    BY <1>1, <1>10, MailRunIs
  <2>3. ~Listed' /\ ~InRead' /\ ~Saved' /\ ~Reading'
    BY <2>2 DEF InRead
  <2> HIDE DEF Known, Told, Listed, Fits, Fresh, Saved, AllSeen, Below, Reading, AtMost
  <2> QED BY <1>4, <1>5, <1>6, <2>1, <2>2, <2>3
<1>11. CASE M!Open
  <2> DEFINE fresh == M!Reset \/ cursor = M!None
             since == IF ~fresh THEN cursor ELSE IF kind.all THEN 0 ELSE server.next - 1
             skip == IF fresh THEN {m \in server.box : server.uid[m] <= since} ELSE {}
  <2>1. UNCHANGED <<state, cursor, evicted, server, counted>> /\ run.at = "asked" /\ ~kind.pop
        /\ run' = [run EXCEPT !.at = "open", !.since = since, !.reset = M!Reset, !.skip = skip]
    BY <1>11 DEF M!Open
  <2>2. server.era = 1 /\ cursor # M!None => since = cursor
    <3>1. ~kind.pop => state.era <= server.era
      BY <1>1 DEF ImapKept
    <3>2. server.era = 1 => ~M!Reset
      BY <1>2, <2>1, <3>1 DEF M!Reset
    <3> QED BY <3>2
  <2> HIDE DEF fresh, since, skip
  <2>3. run'.since = since
    <3>1. run \in [at : {"idle", "asked", "open", "listed", "read", "saving", "returned"},
              since : Nat, reset : BOOLEAN, listed : SUBSET M!Mails, done : SUBSET M!Mails,
              batch : SUBSET M!Mails, got : SUBSET M!Mails, skip : SUBSET M!Mails]
      BY <1>1 DEF MailTypes
    <3> QED BY <2>1, <3>1
  <2>4. server.era = 1 /\ cursor # M!None => run'.since >= cursor'
    BY <1>2, <2>1, <2>2, <2>3
  <2> HIDE DEF Known, Told, Listed, Fits, Fresh, Saved, AllSeen, Below, Reading, AtMost
  <2> QED BY <1>4, <1>5, <1>6, <2>1, <2>4
<1>12. CASE M!Search
  <2>1. UNCHANGED <<state, cursor, evicted, server, counted>> /\ run.at = "open"
        /\ \E first, gets, skip : run' = [run EXCEPT !.at = "read", !.batch = first, !.got = gets,
                                                    !.skip = skip]
    BY <1>12 DEF M!Search
  <2>2. run'.since = run.since
    <3>1. run \in [at : {"idle", "asked", "open", "listed", "read", "saving", "returned"},
              since : Nat, reset : BOOLEAN, listed : SUBSET M!Mails, done : SUBSET M!Mails,
              batch : SUBSET M!Mails, got : SUBSET M!Mails, skip : SUBSET M!Mails]
      BY <1>1 DEF MailTypes
    <3> QED BY <2>1, <3>1
  <2>3. ~kind.pop /\ Reading
    BY <1>1, <2>1 DEF MailTypes
  <2> HIDE DEF Known, Told, Listed, Fits, Fresh, Saved, AllSeen, Below, Reading, AtMost
  <2> QED BY <1>4, <1>5, <1>6, <2>1, <2>2, <2>3
<1>13. CASE M!SaveValidity
  <2>1. UNCHANGED <<cursor, evicted, server, counted>> /\ run.at = "read" /\ ~kind.pop
    BY <1>13 DEF M!SaveValidity
  <2>2. run'.since = run.since /\ Reading
    BY <1>1, <1>13, <2>1, MailRunIs
  <2>3. Below' = Below /\ AtMost' = AtMost
    BY <2>1
  <2> HIDE DEF Known, Told, Listed, Fits, Fresh, Saved, AllSeen, Below, Reading, AtMost
  <2> QED BY <1>4, <1>5, <2>1, <2>2, <2>3
<1>14. CASE M!List
  <2>1. UNCHANGED <<state, cursor, counted, evicted, server>> /\ run.at = "asked" /\ kind.pop
    BY <1>14 DEF M!List
  <2>2. run'.at = "listed" /\ run'.done = run.done /\ run'.listed = server.box
    BY <1>1, <1>14, MailRunIs
  <2>3. ~InRead' /\ ~Saved' /\ Told /\ Fits'
    BY <2>1, <2>2 DEF InRead
  <2> HIDE DEF Known, Told, Listed, Fits, Fresh, Saved, AllSeen, Below, Reading, AtMost
  <2> QED BY <1>4, <1>5, <1>6, <2>1, <2>2, <2>3
<1>15. CASE M!Retrieve
  <2> DEFINE gone == IF kind.deletes /\ ~M!SkipsAll THEN run.done ELSE {}
             new == run.listed \ (state.seen \union run.done)
  <2>1. UNCHANGED <<state, cursor, counted, evicted>> /\ run.at = "listed"
        /\ server' = [server EXCEPT !.box = @ \ gone]
    BY <1>15 DEF M!Retrieve
  <2>2. /\ server'.era = server.era /\ server'.arrived = server.arrived
        /\ server'.box = server.box \ gone /\ kind.pop
    <3>1. server \in [box : SUBSET M!Mails, uid : [M!Mails -> Nat], next : Nat \ {0}, era : {1, 2},
                      arrived : Nat] /\ kind.pop
      BY <1>1, <2>1 DEF MailTypes
    <3> HIDE DEF gone
    <3> QED BY <2>1, <3>1
  <2>3. CASE run' = M!Idle
    <3>1. ~Told' /\ ~Listed' /\ ~InRead' /\ ~Saved'
      BY <2>3 DEF M!Idle, InRead
    <3> HIDE DEF Known, Told, Listed, Fits, Fresh, Saved, AllSeen, Below, Reading, AtMost, gone
    <3> QED BY <1>4, <1>5, <1>6, <2>1, <2>2, <3>1
  <2>4. CASE run' # M!Idle
    <3>1. /\ run'.at = "read" /\ run'.done = run.done
          /\ run'.batch = IF M!SkipsAll THEN {} ELSE M!FirstOf(new)
          /\ run'.listed = run.listed \ gone
      BY <1>1, <1>15, <2>4, MailRunIs
    <3>2. run'.batch \subseteq new
      <4>1. new \subseteq M!Mails
        BY <1>1 DEF MailTypes
      <4> HIDE DEF new
      <4> QED BY <3>1, <4>1, FirstsAre
    <3>3. ~evicted => Fits'
      BY <1>4, <2>1, <2>2, <3>1
    <3>4. ~evicted => Fresh'
      <4> SUFFICES ASSUME ~evicted, NEW m \in run'.batch PROVE counted[m] = 0
        BY <2>1
      <4>1. m \in run.listed /\ m \notin state.seen /\ m \notin run.done
        BY <3>2
      <4>2. m \in server.box /\ m \in M!Mails
        BY <1>1, <1>2, <2>1, <2>2, <4>1 DEF Pop3Kept
      <4>3. run.done = M!Handled /\ Known
        BY <1>4, <2>1, <2>2
      <4>4. ~(counted[m] > 0)
        BY <4>1, <4>2, <4>3
      <4> QED BY <1>2, <4>2, <4>4
    <3>5. Told /\ ~Saved'
      BY <2>1, <3>1
    <3> HIDE DEF Known, Told, Listed, Fits, Fresh, Saved, AllSeen, Below, Reading, AtMost, gone, new
    <3> QED BY <1>4, <1>5, <1>6, <2>1, <2>2, <3>1, <3>3, <3>4, <3>5
  <2> QED BY <2>3, <2>4
<1>16. CASE M!SaveSeen
  <2>1. UNCHANGED <<server, cursor, counted>> /\ run.at = "read" /\ kind.pop
        /\ evicted' = (evicted \/ M!Seen \notin M!Kept)
    BY <1>16 DEF M!SaveSeen
  <2>2. /\ run'.at = "saving" /\ run'.listed = run.listed /\ run'.done = run.done
        /\ run'.batch = run.batch
    BY <1>1, <1>16, MailRunIs
  <2>3. PICK kept \in M!Kept : state' = [state EXCEPT !.known = TRUE, !.seen = kept]
    BY <1>16 DEF M!SaveSeen
  <2>4. state'.seen = kept /\ state'.pending = state.pending
    <3>1. state \in [era : {0, 1, 2}, known : BOOLEAN, seen : SUBSET M!Mails,
                    pending : SUBSET M!Mails]
      BY <1>1 DEF MailTypes
    <3> QED BY <2>3, <3>1
  <2>5. M!Seen \in M!Kept => kept = M!Seen
    BY <1>1 DEF M!Kept
  <2>6. ASSUME ~evicted' PROVE AllSeen'
    <3>1. ~evicted /\ M!Seen \in M!Kept /\ kept = M!Seen
      BY <1>2, <2>1, <2>5, <2>6
    <3>2. ASSUME NEW m \in server.box, counted[m] > 0 PROVE m \in M!Seen
      <4>1. m \in run.listed
        <5>1. Fits
          BY <1>4, <2>1, <3>1
        <5>2. counted[m] # 0
          BY <1>2, <3>2
        <5> QED BY <3>2, <5>1, <5>2
      <4>2. m \in state.seen \union run.done
        BY <1>4, <2>1, <3>1, <3>2
      <4> QED BY <4>1, <4>2 DEF M!Seen
    <3> QED BY <2>1, <2>4, <3>1, <3>2
  <2>7. M!Handled' = M!Handled /\ Told /\ ~Listed' /\ InRead /\ (AllSeen' => Known') /\ Fresh' = Fresh
    BY <2>1, <2>2, <2>4 DEF M!Handled, InRead
  <2>8. AtMost' = AtMost
    BY <2>1
  <2>9. ~evicted' => ~evicted
    BY <1>2, <2>1
  <2> HIDE DEF Known, Told, Listed, Fits, Fresh, Saved, AllSeen, Below, Reading, AtMost
  <2> QED BY <1>2, <1>4, <1>5, <2>1, <2>2, <2>6, <2>7, <2>8, <2>9
<1>17. CASE M!SavePending
  <2>1. UNCHANGED <<server, cursor, counted, evicted>> /\ run.at = "saving" /\ kind.pop
    BY <1>1, <1>17 DEF M!SavePending, MailTypes
  <2>2. run'.at = "returned" /\ run'.batch = run.batch
    BY <1>1, <1>17, MailRunIs
  <2>3. state'.seen = state.seen
    <3>1. state \in [era : {0, 1, 2}, known : BOOLEAN, seen : SUBSET M!Mails,
                    pending : SUBSET M!Mails]
      BY <1>1 DEF MailTypes
    <3> QED BY <1>17, <3>1 DEF M!SavePending
  <2>4. Saved /\ ~Told' /\ ~Listed' /\ InRead /\ AllSeen' = AllSeen /\ (AllSeen' => Known')
        /\ Fresh' = Fresh /\ AtMost' = AtMost
    BY <2>1, <2>2, <2>3 DEF InRead
  <2> HIDE DEF Known, Told, Listed, Fits, Fresh, Saved, AllSeen, Below, Reading, AtMost
  <2> QED BY <1>4, <1>5, <2>1, <2>4
<1>18. CASE M!Succeed
  <2>1. UNCHANGED <<server, state, evicted>> /\ run.at = "returned" /\ cursor' = M!LastUid
        /\ run' = M!Idle
        /\ counted' = [m \in M!Mails |-> IF m \in run.got /\ counted[m] < 2 THEN counted[m] + 1
                                        ELSE counted[m]]
    BY <1>18 DEF M!Succeed
  <2>2. ~Told' /\ ~Listed' /\ ~InRead' /\ ~Saved' /\ ~Reading' /\ InRead /\ Saved /\ Reading
    BY <2>1 DEF M!Idle, InRead
  <2>3. \A m \in M!Mails :
          /\ m \notin run.got => counted' [m] = counted[m]
          /\ counted[m] = 0 => counted' [m] \in {0, 1}
    BY <1>2, <2>1
  <2>4. CASE kind.pop
    <3>1. run.got = run.batch /\ state.pending = run.batch
      BY <1>1, <2>1, <2>2, <2>4 DEF Pop3Kept
    <3>2. ~evicted => AtMost' \/ server.era = 2
      BY <1>2, <1>4, <2>2, <2>3, <2>4, <3>1
    <3>3. ASSUME ~evicted, NEW m \in server.box, counted' [m] > 0
          PROVE  m \in state'.seen \union M!Handled'
      <4>0. m \in M!Mails
        BY <1>2
      <4>1. CASE m \in run.batch
        <5>1. cursor' = M!Max(run.batch)
          BY <2>1, <2>4, <4>1 DEF M!LastUid
        <5>2. M!Handled' = run.batch
          BY <2>1, <3>1, <4>1, <5>1 DEF M!Handled
        <5> QED BY <4>1, <5>2
      <4>2. CASE m \notin run.batch
        <5>1. counted[m] > 0 /\ AllSeen
          BY <1>4, <2>2, <2>3, <2>4, <3>1, <3>3, <4>0, <4>2
        <5> QED BY <2>1, <5>1
      <4> QED BY <4>1, <4>2
    <3>4. ~evicted => Known'
      BY <2>1, <3>3
    <3> HIDE DEF Known, Told, Listed, Fits, Fresh, Saved, AllSeen, Below, Reading, AtMost
    <3> QED BY <1>2, <1>5, <2>1, <2>2, <2>4, <3>2, <3>4
  <2>5. CASE ~kind.pop /\ (evicted \/ server.era = 2)
    BY <1>5, <2>1, <2>5
  <2>6. CASE ~kind.pop /\ ~evicted /\ server.era = 1
    <3>1. /\ run.batch \subseteq M!Arrived /\ run.got \subseteq run.batch
          /\ \A x \in run.batch : server.uid[x] > run.since
          /\ run.since < server.next
      BY <1>1, <2>1, <2>6 DEF ImapKept, SureCursor
    <3>2. server.next = server.arrived + 1 /\ \A m \in M!Arrived : server.uid[m] = m
      BY <1>1, <2>6 DEF UidsGrow
    <3>3. \A m \in M!Mails : counted[m] > 0 => m <= run.since
      BY <1>1, <1>2, <1>4, <2>2, <2>6
    <3>4. \A m \in run.batch : m > run.since /\ m \in M!Mails /\ m <= server.arrived /\ m \in Nat
      BY <1>1, <1>2, <3>1, <3>2 DEF M!Arrived
    <3>5. AtMost'
      <4>1. \A m \in run.got : counted[m] = 0
        BY <1>1, <1>2, <3>1, <3>3, <3>4
      <4> QED BY <1>2, <1>4, <2>3, <2>6, <4>1
    <3>6. cursor' \in Nat /\ cursor' <= server.arrived /\ cursor' >= run.since
          /\ \A m \in run.batch : m <= cursor'
      <4>1. CASE run.batch = {}
        BY <1>2, <2>1, <2>6, <3>1, <3>2, <4>1 DEF M!LastUid
      <4>2. CASE run.batch # {}
        <5>1. M!Max(run.batch) \in run.batch /\ \A x \in run.batch : x <= M!Max(run.batch)
          BY <1>2, <4>2, LastIs
        <5>2. cursor' = M!Max(run.batch)
          BY <2>1, <2>6, <3>1, <3>2, <4>2, <5>1 DEF M!LastUid
        <5> QED BY <1>2, <3>4, <5>1, <5>2
      <4> QED BY <4>1, <4>2
    <3>7. \A m \in M!Mails : counted' [m] > 0 => m <= cursor'
      <4> SUFFICES ASSUME NEW m \in M!Mails, counted' [m] > 0 PROVE m <= cursor'
        OBVIOUS
      <4>1. CASE m \in run.batch
        BY <3>6, <4>1
      <4>2. CASE m \notin run.batch
        <5>1. m <= run.since /\ m \in Nat
          BY <1>1, <2>3, <3>1, <3>3, <4>2
        <5> QED BY <1>2, <3>6, <5>1
      <4> QED BY <4>1, <4>2
    <3>8. cursor' # M!None /\ Below'
      BY <3>6, <3>7 DEF M!None
    <3> HIDE DEF Known, Told, Listed, Fits, Fresh, Saved, AllSeen, Below, Reading, AtMost
    <3> QED BY <1>5, <2>1, <2>2, <2>6, <3>5, <3>6, <3>8
  <2> QED BY <1>2, <2>4, <2>5, <2>6
<1>19. CASE M!Fail
  <2>1. UNCHANGED <<server, state, cursor, counted>> /\ run' = M!Idle
        /\ (~evicted' => ~evicted)
    BY <1>2, <1>19 DEF M!Fail
  <2>2. ~Told' /\ ~Listed' /\ ~InRead' /\ ~Saved' /\ ~Reading'
    BY <2>1 DEF M!Idle, InRead
  <2>3. Known' = Known /\ Below' = Below /\ AtMost' = AtMost
    BY <2>1 DEF M!Handled
  <2>4. UNCHANGED <<server, cursor>> /\ (evicted => evicted')
    BY <1>2, <1>19 DEF M!Fail
  <2> HIDE DEF Known, Told, Listed, Fits, Fresh, Saved, AllSeen, Below, Reading, AtMost
  <2> QED BY <1>4, <1>5, <2>1, <2>2, <2>3, <2>4
<1>20. CASE UNCHANGED M!vars
  <2>1. UNCHANGED <<server, state, cursor, run, counted, evicted>>
    BY <1>20 DEF M!vars
  <2>2. /\ Fresh' = Fresh /\ Told' = Told /\ Listed' = Listed /\ Saved' = Saved
        /\ InRead' = InRead /\ Reading' = Reading /\ (Fits => Fits')
    BY <2>1 DEF InRead
  <2> HIDE DEF Known, Told, Listed, Fits, Fresh, Saved, AllSeen, Below, Reading, AtMost
  <2> QED BY <1>4, <1>5, <1>6, <2>1, <2>2
<1> QED BY <1>7, <1>8, <1>9, <1>10, <1>11, <1>12, <1>13, <1>14, <1>15, <1>16, <1>17, <1>18, <1>19,
           <1>20 DEF M!Next

LEMMA MailStep == ASSUME M!MailAssumption, MailInv, [M!Next]_(M!vars) PROVE MailInv'
BY MailTypesStep, UidsStep, Pop3KeptStep, ImapKeptStep, OnceStep DEF MailInv

LEMMA MailSafe ==
  ASSUME M!MailAssumption, MailInv
  PROVE  /\ kind \in Kinds => M!TypeOK
         /\ ~FailsAfterReset => M!PassedOrHandled
         /\ M!GotOnce
<1>1. kind \in Kinds => M!TypeOK
  <2>1. server.uid \in [M!Mails -> 0 .. MaxMails] /\ MaxMails \in Nat
    BY DEF MailInv, MailTypes, M!MailAssumption
  <2>2. server.next \in 1 .. MaxMails + 1 /\ server.arrived \in 0 .. MaxMails
    BY <2>1 DEF MailInv, MailTypes
  <2> QED BY <2>1, <2>2, SizeIs DEF MailInv, MailTypes, M!TypeOK
<1>2. ASSUME ~FailsAfterReset PROVE M!PassedOrHandled
  <2>1. \A m \in M!Arrived \ server.box : counted[m] > 0 \/ m \in waived
    BY DEF MailInv, Pop3Kept, DoneWith
  <2>2. \A m \in state.seen : counted[m] > 0 \/ m \in waived
    BY DEF MailInv, Pop3Kept, DoneWith
  <2>3. run.at \in {"open", "read", "returned"} /\ ~kind.pop =>
       \A m \in server.box :
         server.uid[m] <= run.since => counted[m] > 0 \/ m \in waived \/ m \in run.skip
    BY <1>2 DEF MailInv, ImapKept, SureCursor, DoneWith
  <2> QED BY <2>1, <2>2, <2>3 DEF M!PassedOrHandled
<1>3. M!GotOnce
  BY DEF MailInv, Once, M!GotOnce
<1> QED BY <1>1, <1>2, <1>3

\* What each stage of a fetch knows of the mails above and below the cursor (imap.ts, pop3.ts).
THEOREM MailInvariant == ASSUME M!MailAssumption PROVE M!Spec => []MailInv
<1>1. M!Init => MailInv
  BY MailBegins
<1>2. MailInv /\ [M!Next]_(M!vars) => MailInv'
  BY MailStep
<1> QED BY <1>1, <1>2, PTL DEF M!Spec

\* A fetch passes over, and deletes, only mails that a successful run got or need not get
\* (imap.ts and pop3.ts: the cursor moves with the run, the UIDLs with the call), as long as no
\* run fails after the call that stored a new UIDVALIDITY.  Where one does, mail is lost: see
\* MCMail.
THEOREM MailPassedOrHandled ==
  ASSUME M!MailAssumption, ~FailsAfterReset PROVE M!Spec => []M!PassedOrHandled
<1>1. MailInv => M!PassedOrHandled
  BY MailSafe
<1> QED BY <1>1, MailInvariant, PTL

\* A mail that a successful run got is not fetched again, save one a server renumbered or
\* beyond MAX_SEEN (the cursor of IMAP, the UIDLs and the pending batch of POP3).
THEOREM MailGotOnce == ASSUME M!MailAssumption PROVE M!Spec => []M!GotOnce
<1>1. MailInv => M!GotOnce
  BY MailSafe
<1> QED BY <1>1, MailInvariant, PTL

\* The types of the mail connector: its configuration never changes.
THEOREM MailTypeOK == ASSUME M!MailAssumption PROVE M!Spec => []M!TypeOK
<1>1. M!Init => kind \in Kinds
  BY DEF M!Init
<1>2. kind \in Kinds /\ [M!Next]_(M!vars) => (kind \in Kinds)'
  BY DEF M!Next, M!vars, M!Arrive, M!Removed, M!Renumber, M!Ask, M!Open, M!Search, M!SaveValidity,
         M!List, M!Retrieve, M!SaveSeen, M!SavePending, M!Succeed, M!Fail
<1>3. MailInv /\ kind \in Kinds => M!TypeOK
  BY MailSafe
<1> QED BY <1>1, <1>2, <1>3, MailInvariant, PTL DEF M!Spec

-----------------------------------------------------------------------------
(***************************************************************************)
(* Chat: what the cursor passes and what becomes of a question             *)
(***************************************************************************)
ChatTypes ==
  /\ timeline \in Seq(Ch!Items)
  /\ core.cursor \in Nat \cup {Ch!NoCursor} /\ core.cursor <= Len(timeline) /\ core.pending \in Seq(Questions)
  /\ core = [cursor |-> core.cursor, pending |-> core.pending]
  /\ events.messages \subseteq Nat /\ events.reply \in [Questions -> Options \cup {0}]
  /\ events = [messages |-> events.messages, reply |-> events.reply]
  /\ mem \in [cursor : Nat \cup {Ch!NoCursor}, loaded : BOOLEAN, handled : SUBSET Nat, item : Nat, tries : Nat,
              gap : Nat]
  /\ mem.cursor <= Len(timeline) /\ mem.tries < Tries /\ mem.gap < Tries
  /\ batch \in [items : Seq(Nat), to : Nat] /\ batch.to <= Len(timeline)
  /\ stage \in {"none", "loaded", "emitted", "commit"}
  /\ asks \in [Questions -> {"none", "posted", "loaded", "open", "evicted", "failed"}]
  /\ copy \in [Questions \cup {0} -> Seq(Questions)]
  /\ told \in [Questions -> Options \cup {0}]
  /\ excused \subseteq DOMAIN timeline

\* The items of a batch follow one another, up to its cursor.
BatchInOrder ==
  /\ Len(batch.items) <= batch.to
  /\ \A i \in DOMAIN batch.items : batch.items[i] = batch.to - Len(batch.items) + i
  /\ stage \in {"loaded", "emitted"} => batch.items # <<>>
  /\ stage = "commit" /\ batch.items # <<>> => ~Matrix
  /\ mem.handled \subseteq DOMAIN timeline /\ Len(timeline) <= MaxItems

OneHolder ==
  /\ stage \in {"loaded", "emitted"} =>
       /\ copy[0] = core.pending /\ Ch!It.kind # "text"
       /\ \A q \in Questions : asks[q] # "loaded"
  /\ \A q \in Questions : asks[q] = "loaded" =>
       /\ copy[q] = core.pending
       /\ \A p \in Questions : asks[p] = "loaded" => p = q
  /\ stage = "emitted" => Ch!Answers /\ events.reply[Ch!It.q] # 0

Gone(q) == q \notin Ch!ToSet(core.pending) /\ asks[q] \notin {"none", "posted", "loaded"}

PendingIsOpen ==
  /\ Len(core.pending) <= PendingLimit
  /\ \A i, j \in DOMAIN core.pending : core.pending[i] = core.pending[j] => i = j
  /\ \A q \in Ch!ToSet(core.pending) : asks[q] = "open"
  /\ \A q \in Questions : asks[q] = "open" /\ events.reply[q] = 0 => q \in Ch!ToSet(core.pending)
  /\ \A q \in Questions : told[q] # 0 => Gone(q)

Reached == IF batch.items = <<>> /\ stage # "commit" THEN 0 ELSE batch.to - Len(batch.items)
Passed(i) == i <= mem.cursor \/ i <= core.cursor \/ i <= Reached \/ i \in mem.handled
Settled(i) ==
  /\ i \in events.messages \/ (timeline[i].q # 0 /\ events.reply[timeline[i].q] # 0)
  /\ timeline[i].c # 0 => Gone(timeline[i].q)
PassedIsSettled == \A i \in DOMAIN timeline : Passed(i) => i \in excused \/ Settled(i)

FirstAnswer(q, c) ==
  \E j \in DOMAIN timeline :
    /\ timeline[j].q = q /\ timeline[j].c = c
    /\ \A i \in 1 .. j - 1 : timeline[i].q = q => timeline[i].c = 0
FirstCounts ==
  \A q \in Questions :
    \/ \E i \in excused : timeline[i].q = q
    \/ /\ events.reply[q] # 0 => FirstAnswer(q, events.reply[q])
       /\ told[q] # 0 => events.reply[q] # 0 /\ FirstAnswer(q, told[q])

ChatInv == /\ ChatTypes /\ BatchInOrder /\ OneHolder /\ PendingIsOpen /\ PassedIsSettled
           /\ FirstCounts


USE DEF Ch!NoCursor

LEMMA ItemsAre ==
  ASSUME NEW x \in Ch!Items
  PROVE  /\ x.kind \in {"text", "tap", "reply"} /\ x.q \in Questions \cup {0}
         /\ x.c \in Options \cup {0}
         /\ x.kind = "text" => x.q = 0 /\ x.c = 0
         /\ x.kind # "text" => x.q \in Questions
         /\ x.c # 0 => x.q \in Questions
BY DEF Ch!Items

LEMMA HeadIs ==
  ASSUME ChatTypes, BatchInOrder, batch.items # <<>>
  PROVE  /\ Ch!Item \in DOMAIN timeline /\ Ch!Item \in Nat \ {0}
         /\ Ch!Item = batch.to - Len(batch.items) + 1 /\ Ch!It \in Ch!Items
         /\ Len(batch.items) \in Nat \ {0}
         /\ Tail(batch.items) \in Seq(Nat) /\ Len(Tail(batch.items)) = Len(batch.items) - 1
         /\ \A i \in DOMAIN Tail(batch.items) :
              Tail(batch.items)[i] = batch.to - Len(Tail(batch.items)) + i
<1>1. batch.items \in Seq(Nat) /\ batch.to \in Nat /\ batch.to <= Len(timeline)
      /\ timeline \in Seq(Ch!Items) /\ batch.items # <<>>
  BY DEF ChatTypes
<1>2. Len(batch.items) \in Nat \ {0} /\ 1 \in DOMAIN batch.items
  BY <1>1
<1>3. Ch!Item = batch.to - Len(batch.items) + 1
  BY <1>1, <1>2 DEF BatchInOrder, Ch!Item
<1>4. Len(batch.items) <= batch.to
  BY DEF BatchInOrder
<1>5. Ch!Item \in DOMAIN timeline /\ Ch!Item \in Nat \ {0}
  BY <1>1, <1>2, <1>3, <1>4
<1>6. Ch!It \in Ch!Items
  BY <1>1, <1>5 DEF Ch!It
<1>7. Tail(batch.items) \in Seq(Nat) /\ Len(Tail(batch.items)) = Len(batch.items) - 1
  BY <1>1, <1>2
<1>8. \A i \in DOMAIN Tail(batch.items) :
        /\ i \in 1 .. Len(batch.items) - 1 /\ i + 1 \in DOMAIN batch.items
        /\ Tail(batch.items)[i] = batch.items[i + 1]
  BY <1>1, <1>2, <1>7
<1>9. \A i \in DOMAIN batch.items : batch.items[i] = batch.to - Len(batch.items) + i
  BY DEF BatchInOrder
<1>10. \A i \in DOMAIN Tail(batch.items) :
              Tail(batch.items)[i] = batch.to - Len(Tail(batch.items)) + i
  <2> SUFFICES ASSUME NEW i \in DOMAIN Tail(batch.items)
               PROVE  Tail(batch.items)[i] = batch.to - Len(Tail(batch.items)) + i
    OBVIOUS
  <2>1. Tail(batch.items)[i] = batch.to - Len(batch.items) + (i + 1)
    BY <1>8, <1>9
  <2> QED BY <2>1, <1>1, <1>2, <1>7, <1>8
<1> QED BY <1>2, <1>3, <1>5, <1>6, <1>7, <1>10

LEMMA NewestIs ==
  ASSUME NEW p \in Seq(Questions), PendingLimit \in Nat \ {0},
         \A i, j \in DOMAIN p : p[i] = p[j] => i = j
  PROVE  /\ Ch!Newest(p) \in Seq(Questions) /\ Len(Ch!Newest(p)) <= PendingLimit
         /\ \A i, j \in DOMAIN Ch!Newest(p) : Ch!Newest(p)[i] = Ch!Newest(p)[j] => i = j
         /\ Ch!ToSet(Ch!Newest(p)) \subseteq Ch!ToSet(p)
         /\ p # <<>> => p[Len(p)] \in Ch!ToSet(Ch!Newest(p))
<1>1. CASE Len(p) <= PendingLimit
  BY <1>1 DEF Ch!Newest, Ch!ToSet
<1>2. CASE Len(p) > PendingLimit
  <2> DEFINE k == Len(p) - PendingLimit
             t == SubSeq(p, k + 1, Len(p))
  <2>1. Ch!Newest(p) = t /\ k \in Nat /\ Len(p) \in Nat
    BY <1>2 DEF Ch!Newest
  <2>2. t \in Seq(Questions) /\ Len(t) = PendingLimit
    BY <1>2
  <2>3. \A i \in 1 .. PendingLimit : t[i] = p[k + i] /\ k + i \in DOMAIN p
    BY <1>2
  <2>4. DOMAIN t = 1 .. PendingLimit
    BY <2>2
  <2>5. t[PendingLimit] = p[Len(p)] /\ PendingLimit \in DOMAIN t
    <3>1. k + PendingLimit = Len(p) /\ PendingLimit \in 1 .. PendingLimit
      BY <2>1
    <3> HIDE DEF t
    <3> QED BY <3>1, <2>3, <2>4
  <2> HIDE DEF t
  <2>6. \A i, j \in DOMAIN t : t[i] = t[j] => i = j
    BY <2>3, <2>4, <2>1
  <2>7. Ch!ToSet(t) \subseteq Ch!ToSet(p)
    BY <2>3, <2>4 DEF Ch!ToSet
  <2>8. p[Len(p)] \in Ch!ToSet(t)
    BY <2>5 DEF Ch!ToSet
  <2> QED BY <2>1, <2>2, <2>6, <2>7, <2>8
<1> QED BY <1>1, <1>2

LEMMA RemovedIs ==
  ASSUME NEW p \in Seq(Questions), NEW e,
         \A i, j \in DOMAIN p : p[i] = p[j] => i = j
  PROVE  /\ Ch!RemoveFirst(p, e) \in Seq(Questions) /\ Len(Ch!RemoveFirst(p, e)) <= Len(p)
         /\ \A i, j \in DOMAIN Ch!RemoveFirst(p, e) :
              Ch!RemoveFirst(p, e)[i] = Ch!RemoveFirst(p, e)[j] => i = j
         /\ Ch!ToSet(Ch!RemoveFirst(p, e)) = Ch!ToSet(p) \ {e}
<1>1. CASE ~ \E i \in 1 .. Len(p) : p[i] = e
  BY <1>1 DEF Ch!RemoveFirst, Ch!ToSet
<1>2. CASE \E i \in 1 .. Len(p) : p[i] = e
  <2>1. PICK k \in 1 .. Len(p) : p[k] = e
    BY <1>2
  <2>2. {i \in 1 .. Len(p) : p[i] = e} = {k}
    BY <2>1
  <2>3. Ch!Min({k}) = k
    <3>1. \E x \in {k} : \A y \in {k} : x <= y
      BY <2>1
    <3> QED BY <3>1 DEF Ch!Min
  <2>4. Ch!SelectInSeq(p, LAMBDA v : v = e) = k
    BY <2>2, <2>3 DEF Ch!SelectInSeq
  <2> DEFINE a == SubSeq(p, 1, k - 1)
             b == SubSeq(p, k + 1, Len(p))
             t == a \o b
  <2>5. Ch!RemoveFirst(p, e) = t
    BY <1>2, <2>4 DEF Ch!RemoveFirst, Ch!RemoveAt
  <2>6. Len(p) \in Nat /\ k \in Nat /\ 1 <= k /\ k <= Len(p)
    BY <2>1
  <2>7. a \in Seq(Questions) /\ Len(a) = k - 1 /\ \A i \in 1 .. k - 1 : a[i] = p[i]
    BY <2>6
  <2>8. b \in Seq(Questions) /\ Len(b) = Len(p) - k /\ \A i \in 1 .. Len(p) - k : b[i] = p[k + i]
    BY <2>6
  <2> HIDE DEF a, b
  <2>9. t \in Seq(Questions) /\ Len(t) = Len(p) - 1
    <3>1. t \in Seq(Questions)
      BY <2>7, <2>8
    <3>2. Len(t) = Len(a) + Len(b)
      BY <2>7, <2>8, ConcatProperties
    <3> HIDE DEF t
    <3> QED BY <3>1, <3>2, <2>6, <2>7, <2>8
  <2>10. \A i \in 1 .. Len(p) - 1 : t[i] = IF i < k THEN p[i] ELSE p[i + 1]
    <3> SUFFICES ASSUME NEW i \in 1 .. Len(p) - 1 PROVE t[i] = IF i < k THEN p[i] ELSE p[i + 1]
      OBVIOUS
    <3>1. t[i] = IF i <= k - 1 THEN a[i] ELSE b[i - (k - 1)]
      BY <2>6, <2>7, <2>8
    <3>2. CASE i < k
      BY <3>1, <3>2, <2>6, <2>7
    <3>3. CASE ~ i < k
      <4>1. i - (k - 1) \in 1 .. Len(p) - k /\ k + (i - (k - 1)) = i + 1
        BY <3>3, <2>6
      <4> QED BY <3>1, <3>3, <4>1, <2>6, <2>8
    <3> QED BY <3>2, <3>3
  <2> HIDE DEF t
  <2>11. DOMAIN t = 1 .. Len(p) - 1 /\ DOMAIN p = 1 .. Len(p)
    BY <2>6, <2>9
  <2>12. \A i, j \in DOMAIN t : t[i] = t[j] => i = j
    <3> DEFINE f(i) == IF i < k THEN i ELSE i + 1
    <3>1. \A i \in DOMAIN t : t[i] = p[f(i)] /\ f(i) \in DOMAIN p
      BY <2>6, <2>10, <2>11
    <3>2. \A i, j \in DOMAIN t : f(i) = f(j) => i = j
      BY <2>6, <2>11
    <3> HIDE DEF f
    <3> QED BY <3>1, <3>2
  <2>13. Ch!ToSet(t) \subseteq Ch!ToSet(p) \ {e}
    BY <2>1, <2>6, <2>10, <2>11 DEF Ch!ToSet
  <2>14. ASSUME NEW i \in DOMAIN p, i # k PROVE p[i] \in Ch!ToSet(t)
    <3>1. CASE i < k
      <4>1. i \in DOMAIN t /\ t[i] = p[i]
        BY <3>1, <2>6, <2>10, <2>11
      <4> QED BY <4>1 DEF Ch!ToSet
    <3>2. CASE i > k
      <4>1. i - 1 \in DOMAIN t /\ t[i - 1] = p[i]
        BY <3>2, <2>6, <2>10, <2>11
      <4> QED BY <4>1 DEF Ch!ToSet
    <3> QED BY <3>1, <3>2, <2>14, <2>6, <2>11
  <2>15. Ch!ToSet(p) \ {e} \subseteq Ch!ToSet(t)
    BY <2>1, <2>14 DEF Ch!ToSet
  <2> QED BY <2>5, <2>9, <2>6, <2>12, <2>13, <2>15
<1> QED BY <1>1, <1>2


LEMMA TypesAtFirst == ASSUME Ch!ChatAssumption, Ch!Init PROVE ChatInv
<1>1. ChatTypes
  BY DEF Ch!Init, ChatTypes, Ch!ChatAssumption, Ch!NewMem, Ch!NoBatch
<1>2. BatchInOrder
  BY DEF Ch!Init, BatchInOrder, Ch!NoBatch, Ch!NewMem, Ch!ChatAssumption, Ch!Items
<1>3. OneHolder
  BY DEF Ch!Init, OneHolder
<1>4. PendingIsOpen
  BY DEF Ch!Init, PendingIsOpen, Ch!ChatAssumption, Gone, Ch!ToSet
<1>5. PassedIsSettled
  BY DEF Ch!Init, PassedIsSettled
<1>6. FirstCounts
  BY DEF Ch!Init, FirstCounts
<1> QED BY <1>1, <1>2, <1>3, <1>4, <1>5, <1>6 DEF ChatInv

LEMMA DoneTypes ==
  ASSUME ChatTypes, BatchInOrder, Ch!ChatAssumption, batch.items # <<>>, Ch!Done(Ch!Item)
  PROVE  /\ mem' \in [cursor : Nat \cup {Ch!NoCursor}, loaded : BOOLEAN, handled : SUBSET Nat, item : Nat, tries : Nat,
              gap : Nat]
         /\ mem'.cursor = mem.cursor /\ mem'.gap = mem.gap /\ mem'.tries = 0
         /\ batch' \in [items : Seq(Nat), to : Nat] /\ batch'.to = batch.to
         /\ batch'.items = Tail(batch.items) /\ stage' \in {"none", "commit"}
         /\ mem'.handled \subseteq mem.handled \cup {Ch!Item} /\ mem'.loaded = mem.loaded
BY HeadIs DEF ChatTypes, Ch!Done, Ch!Next1

LEMMA RunOfItems == ASSUME NEW n \in Nat, NEW k \in Nat PROVE [i \in 1 .. n |-> k + i] \in Seq(Nat)
OBVIOUS

LEMMA FailsTypes ==
  ASSUME ChatTypes, BatchInOrder, Ch!ChatAssumption, batch.items # <<>>, NEW u \in BOOLEAN,
         Ch!Fails(Ch!Item, u)
  PROVE  /\ mem' \in [cursor : Nat \cup {Ch!NoCursor}, loaded : BOOLEAN, handled : SUBSET Nat, item : Nat, tries : Nat,
              gap : Nat]
         /\ mem'.cursor = mem.cursor /\ mem'.gap = mem.gap /\ mem'.tries < Tries
         /\ \/ batch' = Ch!NoBatch /\ stage' = "none" /\ mem'.handled = mem.handled /\ UNCHANGED excused
            \/ Ch!Done(Ch!Item) /\ excused' = excused \cup {Ch!Item}
<1>1. CASE u \/ Ch!TriesOf(Ch!Item) < Tries
  <2>1. Ch!Item \in Nat /\ Ch!TriesOf(Ch!Item) \in Nat
    BY HeadIs DEF Ch!TriesOf, ChatTypes
  <2>2. batch' = Ch!NoBatch /\ stage' = "none" /\ UNCHANGED excused
        /\ mem' = IF u THEN mem ELSE [mem EXCEPT !.item = Ch!Item, !.tries = Ch!TriesOf(Ch!Item)]
    BY <1>1 DEF Ch!Fails, Ch!Again
  <2>3. CASE u
    BY <2>2, <2>3 DEF ChatTypes
  <2>4. CASE ~u
    <3>1. Ch!TriesOf(Ch!Item) < Tries /\ mem' = [mem EXCEPT !.item = Ch!Item, !.tries = Ch!TriesOf(Ch!Item)]
      BY <1>1, <2>2, <2>4
    <3> HIDE DEF Ch!Item
    <3> QED BY <2>1, <2>2, <3>1 DEF ChatTypes
  <2> QED BY <2>3, <2>4
<1>2. CASE ~(u \/ Ch!TriesOf(Ch!Item) < Tries)
  <2>1. Ch!Done(Ch!Item) /\ excused' = excused \cup {Ch!Item}
    BY <1>2 DEF Ch!Fails
  <2> QED BY <2>1, DoneTypes DEF Ch!ChatAssumption
<1> QED BY <1>1, <1>2

\* What ask's save leaves of the questions.
LEMMA SavedIs ==
  ASSUME ChatTypes, OneHolder, PendingIsOpen, Ch!ChatAssumption, NEW q \in Questions, Ch!AskSaves(q)
  PROVE  /\ core'.cursor = core.cursor /\ core'.pending \in Seq(Questions)
         /\ core' = [cursor |-> core'.cursor, pending |-> core'.pending]
         /\ Len(core'.pending) <= PendingLimit
         /\ \A i, j \in DOMAIN core'.pending : core'.pending[i] = core'.pending[j] => i = j
         /\ Ch!ToSet(core'.pending) \subseteq Ch!ToSet(core.pending) \cup {q}
         /\ q \in Ch!ToSet(core'.pending)
<1> DEFINE p == Append(core.pending, q)
<1>1. copy[q] = core.pending /\ core.pending \in Seq(Questions) /\ asks[q] = "loaded"
  BY DEF Ch!AskSaves, OneHolder, ChatTypes
<1>2. core' = [core EXCEPT !.pending = Ch!Newest(p)]
  BY <1>1 DEF Ch!AskSaves
<1>3. core'.cursor = core.cursor /\ core'.pending = Ch!Newest(p)
      /\ core' = [cursor |-> core'.cursor, pending |-> core'.pending]
  <2> HIDE DEF p
  <2> QED BY <1>2 DEF ChatTypes
<1>4. q \notin Ch!ToSet(core.pending)
  BY <1>1 DEF PendingIsOpen
<1>5. p \in Seq(Questions) /\ Len(p) = Len(core.pending) + 1 /\ p[Len(p)] = q
      /\ \A i \in DOMAIN core.pending : p[i] = core.pending[i]
      /\ DOMAIN p = DOMAIN core.pending \cup {Len(p)}
  BY <1>1
<1> HIDE DEF p
<1>6. \A i, j \in DOMAIN p : p[i] = p[j] => i = j
  BY <1>4, <1>5 DEF PendingIsOpen, Ch!ToSet
<1>7. Ch!ToSet(p) \subseteq Ch!ToSet(core.pending) \cup {q} /\ p # <<>>
  BY <1>1, <1>5 DEF Ch!ToSet
<1>8. PendingLimit \in Nat \ {0}
  BY DEF Ch!ChatAssumption
<1> QED BY <1>3, <1>5, <1>6, <1>7, <1>8, NewestIs

LEMMA TypesStep ==
  ASSUME Ch!ChatAssumption, ChatTypes, BatchInOrder, OneHolder, PendingIsOpen, [Ch!Next]_(Ch!vars)
  PROVE  ChatTypes'
<1> USE DEF ChatTypes
<1>1. ASSUME NEW item \in Ch!Items, Ch!Write(item) PROVE ChatTypes'
  <2>1. timeline' \in Seq(Ch!Items) /\ Len(timeline') = Len(timeline) + 1
        /\ DOMAIN timeline \subseteq DOMAIN timeline'
    BY <1>1 DEF Ch!Write
  <2> QED BY <1>1, <2>1 DEF Ch!Write
<1>2. ASSUME NEW q \in Questions, Ch!AskPosts(q) \/ Ch!AskLoads(q) PROVE ChatTypes'
  BY <1>2 DEF Ch!AskPosts, Ch!AskLoads
<1>3. ASSUME NEW q \in Questions, Ch!AskSaves(q) PROVE ChatTypes'
  <2>5. asks' \in [Questions -> {"none", "posted", "loaded", "open", "evicted", "failed"}]
    BY <1>3 DEF Ch!AskSaves
  <2>6. copy' \in [Questions \cup {0} -> Seq(Questions)]
    BY <1>3 DEF Ch!AskSaves, Ch!Released
  <2> QED BY <1>3, SavedIs, <2>5, <2>6 DEF Ch!AskSaves
<1>4. ASSUME NEW q \in Questions, Ch!AskFails(q) PROVE ChatTypes'
  BY <1>4 DEF Ch!AskFails, Ch!Released
<1>5. ASSUME Ch!LoadCursor PROVE ChatTypes'
  <2>1. mem' = [mem EXCEPT !.cursor = core.cursor, !.loaded = TRUE]
        /\ UNCHANGED <<core, batch, stage, excused, timeline, events, asks, copy, told>>
    BY <1>5 DEF Ch!LoadCursor, Ch!Unchanged
  <2>2. mem' \in [cursor : Nat \cup {Ch!NoCursor}, loaded : BOOLEAN, handled : SUBSET Nat, item : Nat,
              tries : Nat, gap : Nat]
        /\ mem'.cursor = core.cursor /\ mem'.tries = mem.tries /\ mem'.gap = mem.gap
    BY <2>1
  <2> QED BY <2>1, <2>2
<1>6. ASSUME NEW b \in BOOLEAN, Ch!FirstCursor(b) PROVE ChatTypes'
  <2> DEFINE now == IF ~Matrix /\ timeline = <<>> THEN Ch!NoCursor ELSE Len(timeline)
  <2>1. /\ mem' = [mem EXCEPT !.cursor = now, !.loaded = b \/ now = Ch!NoCursor]
        /\ core' = [core EXCEPT !.cursor = IF b THEN now ELSE @]
        /\ excused' = excused \cup DOMAIN timeline
        /\ UNCHANGED <<batch, stage, timeline, events, asks, copy, told>>
    BY <1>6 DEF Ch!FirstCursor, Ch!Unchanged
  <2>2. now \in Nat \cup {Ch!NoCursor} /\ now <= Len(timeline)
    OBVIOUS
  <2> HIDE DEF now
  <2>3. mem' \in [cursor : Nat \cup {Ch!NoCursor}, loaded : BOOLEAN, handled : SUBSET Nat, item : Nat,
              tries : Nat, gap : Nat]
        /\ mem'.cursor = now /\ mem'.tries = mem.tries /\ mem'.gap = mem.gap
    BY <2>1, <2>2
  <2>4. /\ core'.cursor \in Nat \cup {Ch!NoCursor} /\ core'.cursor <= Len(timeline)
        /\ core'.pending = core.pending
        /\ core' = [cursor |-> core'.cursor, pending |-> core'.pending]
    BY <2>1, <2>2
  <2> QED BY <2>1, <2>2, <2>3, <2>4
<1>7. ASSUME Ch!Fetch \/ \E from \in DOMAIN timeline : Ch!FillGivesUp(from) PROVE ChatTypes'
  <2>1. Ch!After \in Nat /\ Ch!After <= Len(timeline)
    BY DEF Ch!After
  <2> DEFINE Fetched(from) ==
          /\ Ch!After <= from /\ from <= Len(timeline)
          /\ batch' = [items |-> [i \in 1 .. Len(timeline) - from |-> from + i],
                       to |-> Len(timeline)]
          /\ stage' \in {"none", "commit"} /\ excused' \subseteq excused \cup (Ch!After + 1 .. from)
  <2>2. PICK from \in Nat : Fetched(from)
    <3>1. CASE Ch!Fetch
      <4>1. Fetched(Ch!After)
        BY <3>1, <2>1 DEF Ch!Fetch, Ch!Between
      <4> HIDE DEF Fetched
      <4> QED BY <4>1, <2>1
    <3>2. CASE \E from \in DOMAIN timeline : Ch!FillGivesUp(from)
      <4>1. PICK from \in DOMAIN timeline : Ch!FillGivesUp(from)
        BY <3>2
      <4>2. Fetched(from) /\ from \in Nat
        BY <4>1, <2>1 DEF Ch!FillGivesUp
      <4> HIDE DEF Fetched
      <4> QED BY <4>2
    <3> QED BY <1>7, <3>1, <3>2
  <2>3. batch' \in [items : Seq(Nat), to : Nat] /\ batch'.to = Len(timeline)
    <3>1. Len(timeline) - from \in Nat
      BY <2>2
    <3>2. [i \in 1 .. Len(timeline) - from |-> from + i] \in Seq(Nat)
      BY <3>1, <2>2, RunOfItems
    <3> QED BY <2>2, <3>2
  <2>4. excused' \subseteq DOMAIN timeline
    BY <2>1, <2>2
  <2>5. UNCHANGED <<core, mem, timeline, events, asks, copy, told>>
    BY <1>7 DEF Ch!Fetch, Ch!FillGivesUp, Ch!Unchanged
  <2>6. stage' \in {"none", "loaded", "emitted", "commit"} /\ batch'.to <= Len(timeline)
    BY <2>2, <2>3
  <2> QED BY <2>3, <2>4, <2>5, <2>6
<1>8. ASSUME NEW b \in BOOLEAN, Ch!FillFails(b) \/ Ch!TokenRejected(b) PROVE ChatTypes'
  <2>1. CASE Ch!FillFails(b)
    <3>1. mem' = [mem EXCEPT !.gap = IF b THEN @ ELSE @ + 1] /\ (~b => mem.gap + 1 < Tries)
          /\ UNCHANGED <<core, batch, stage, excused, timeline, events, asks, copy, told>>
      BY <2>1 DEF Ch!FillFails, Ch!Unchanged
    <3>2. mem' \in [cursor : Nat \cup {Ch!NoCursor}, loaded : BOOLEAN, handled : SUBSET Nat,
              item : Nat, tries : Nat, gap : Nat]
          /\ mem'.cursor = mem.cursor /\ mem'.tries = mem.tries /\ mem'.gap < Tries
      <4>1. CASE b
        <5>1. mem' = [mem EXCEPT !.gap = mem.gap]
          BY <3>1, <4>1
        <5> QED BY <5>1
      <4>2. CASE ~b
        <5> DEFINE n == mem.gap + 1
        <5>1. mem' = [mem EXCEPT !.gap = n] /\ n < Tries /\ n \in Nat
          BY <3>1, <4>2
        <5> HIDE DEF n
        <5> QED BY <5>1
      <4> QED BY <4>1, <4>2
    <3> QED BY <3>1, <3>2
  <2>2. CASE Ch!TokenRejected(b)
    <3>1. /\ mem' = [mem EXCEPT !.cursor = Ch!NoCursor, !.loaded = FALSE, !.gap = 0]
          /\ core' = [core EXCEPT !.cursor = IF b THEN Ch!NoCursor ELSE @] /\ 0 < Tries
          /\ UNCHANGED <<batch, stage, excused, timeline, events, asks, copy, told>>
      BY <2>2 DEF Ch!TokenRejected, Ch!Unchanged, Ch!ChatAssumption
    <3>2. mem' \in [cursor : Nat \cup {Ch!NoCursor}, loaded : BOOLEAN, handled : SUBSET Nat,
              item : Nat, tries : Nat, gap : Nat]
          /\ mem'.cursor = Ch!NoCursor /\ mem'.tries = mem.tries /\ mem'.gap = 0
      BY <3>1
    <3>3. /\ core'.cursor = IF b THEN Ch!NoCursor ELSE core.cursor
          /\ core'.pending = core.pending
          /\ core' = [cursor |-> core'.cursor, pending |-> core'.pending]
      BY <3>1
    <3>4. core'.cursor \in Nat \cup {Ch!NoCursor} /\ core'.cursor <= Len(timeline)
      BY <3>3
    <3> QED BY <3>1, <3>2, <3>3, <3>4
  <2> QED BY <1>8, <2>1, <2>2
<1>9. ASSUME Ch!Skip PROVE ChatTypes'
  <2>1. Tail(batch.items) \in Seq(Nat)
    BY <1>9, HeadIs DEF Ch!Skip, Ch!Handling
  <2>2. batch' = [items |-> Tail(batch.items), to |-> batch.to] /\ stage' \in {"none", "commit"}
        /\ UNCHANGED <<core, mem, excused, timeline, events, asks, copy, told>>
    BY <1>9 DEF Ch!Skip, Ch!Next1, Ch!Unchanged
  <2> QED BY <2>1, <2>2
<1>10. ASSUME Ch!HandleText PROVE ChatTypes'
  <2>1. batch.items # <<>> /\ Ch!Item \in Nat /\ Ch!Done(Ch!Item)
    BY <1>10, HeadIs DEF Ch!HandleText, Ch!Handling
  <2>2. /\ events'.messages \subseteq Nat /\ events'.reply = events.reply
        /\ events' = [messages |-> events'.messages, reply |-> events'.reply]
    BY <1>10, <2>1 DEF Ch!HandleText, Ch!Message
  <2>3. UNCHANGED <<timeline, core, asks, copy, told, excused>> /\ 0 < Tries
    BY <1>10 DEF Ch!HandleText, Ch!ChatAssumption
  <2> QED BY <2>1, <2>2, <2>3, DoneTypes
<1>11. ASSUME Ch!Load PROVE ChatTypes'
  BY <1>11 DEF Ch!Load
<1>12. ASSUME Ch!HandleNoAnswer PROVE ChatTypes'
  <2>1. batch.items # <<>> /\ Ch!Item \in Nat /\ Ch!Item \in DOMAIN timeline /\ Ch!Done(Ch!Item)
    BY <1>12, HeadIs DEF Ch!HandleNoAnswer, BatchInOrder
  <2>2. /\ events'.messages \subseteq Nat /\ events'.reply = events.reply
        /\ events' = [messages |-> events'.messages, reply |-> events'.reply]
    BY <1>12, <2>1 DEF Ch!HandleNoAnswer, Ch!Message
  <2>3. UNCHANGED <<timeline, core, asks, told>> /\ excused' \subseteq excused \cup {Ch!Item}
        /\ 0 < Tries
    BY <1>12 DEF Ch!HandleNoAnswer, Ch!ChatAssumption
  <2>4. copy' \in [Questions \cup {0} -> Seq(Questions)]
    BY <1>12 DEF Ch!HandleNoAnswer, Ch!Released
  <2> QED BY <2>1, <2>2, <2>3, <2>4, DoneTypes
<1>13. ASSUME Ch!EmitReply PROVE ChatTypes'
  BY <1>13, HeadIs, ItemsAre DEF Ch!EmitReply, BatchInOrder
<1>14. ASSUME NEW b \in BOOLEAN, Ch!Forget(b) PROVE ChatTypes'
  <2>1. batch.items # <<>> /\ Ch!Item \in DOMAIN timeline /\ Ch!It \in Ch!Items
    BY <1>14, HeadIs DEF Ch!Forget, BatchInOrder
  <2>2. Ch!Forgotten \in Seq(Questions)
    BY <1>14, RemovedIs DEF Ch!Forget, Ch!Forgotten, OneHolder, PendingIsOpen
  <2>3. told' \in [Questions -> Options \cup {0}]
    BY <1>14, <2>1, ItemsAre DEF Ch!Forget
  <2>4. copy' \in [Questions \cup {0} -> Seq(Questions)]
    BY <1>14 DEF Ch!Forget, Ch!Released
  <2>5. /\ core'.cursor = core.cursor /\ core'.pending = Ch!Forgotten
        /\ core' = [cursor |-> core'.cursor, pending |-> core'.pending]
    BY <1>14 DEF Ch!Forget
  <2>6. Ch!Done(Ch!Item) /\ UNCHANGED <<timeline, events, asks, excused>> /\ 0 < Tries
    BY <1>14 DEF Ch!Forget, Ch!ChatAssumption
  <2> HIDE DEF Ch!Forgotten
  <2> QED BY <2>1, <2>2, <2>3, <2>4, <2>5, <2>6, DoneTypes
<1>15. ASSUME NEW b \in BOOLEAN, Ch!HandleFails(b) PROVE ChatTypes'
  <2>1. batch.items # <<>> /\ Ch!Item \in Nat /\ Ch!Item \in DOMAIN timeline /\ Ch!Fails(Ch!Item, b)
    BY <1>15, HeadIs DEF Ch!HandleFails, Ch!Handling, BatchInOrder
  <2>2. copy' \in [Questions \cup {0} -> Seq(Questions)]
    BY <1>15 DEF Ch!HandleFails, Ch!Released
  <2>3. UNCHANGED <<timeline, core, events, asks, told>>
    BY <1>15 DEF Ch!HandleFails
  <2>4. batch' \in [items : Seq(Nat), to : Nat] /\ batch'.to <= Len(timeline)
        /\ stage' \in {"none", "commit"} /\ excused' \subseteq DOMAIN timeline
    <3>1. <<>> \in Seq(Nat)
      OBVIOUS
    <3>2. CASE batch' = Ch!NoBatch /\ stage' = "none" /\ UNCHANGED excused
      BY <3>1, <3>2 DEF Ch!NoBatch
    <3>3. CASE Ch!Done(Ch!Item) /\ excused' = excused \cup {Ch!Item}
      BY <2>1, <3>3, DoneTypes
    <3> QED BY <2>1, <3>2, <3>3, FailsTypes
  <2>5. mem' \in [cursor : Nat \cup {Ch!NoCursor}, loaded : BOOLEAN, handled : SUBSET Nat, item : Nat,
              tries : Nat, gap : Nat]
        /\ mem'.cursor = mem.cursor /\ mem'.gap = mem.gap /\ mem'.tries < Tries
    BY <2>1, FailsTypes
  <2> QED BY <2>2, <2>3, <2>4, <2>5
<1>16. ASSUME NEW b \in BOOLEAN, Ch!Commit(b) PROVE ChatTypes'
  <2>1. Ch!Target \in Nat /\ Ch!Target <= Len(timeline)
    <3>1. CASE Matrix \/ batch.items = <<>>
      BY <3>1 DEF Ch!Target
    <3>2. CASE ~(Matrix \/ batch.items = <<>>)
      BY <3>2, HeadIs DEF Ch!Target
    <3> QED BY <3>1, <3>2
  <2>2. /\ mem' = [mem EXCEPT !.cursor = Ch!Target, !.handled = IF b THEN {} ELSE @, !.gap = 0]
        /\ core' = [core EXCEPT !.cursor = IF b THEN Ch!Target ELSE @]
        /\ batch' \in {batch, Ch!NoBatch} /\ stage' = "none"
        /\ UNCHANGED <<excused, timeline, events, asks, copy, told>> /\ 0 < Tries
    BY <1>16 DEF Ch!Commit, Ch!Unchanged, Ch!ChatAssumption
  <2> HIDE DEF Ch!Target
  <2>3. mem' \in [cursor : Nat \cup {Ch!NoCursor}, loaded : BOOLEAN, handled : SUBSET Nat, item : Nat,
              tries : Nat, gap : Nat]
        /\ mem'.cursor = Ch!Target /\ mem'.tries = mem.tries /\ mem'.gap = 0
    BY <2>1, <2>2
  <2>4. /\ core'.cursor \in Nat \cup {Ch!NoCursor} /\ core'.cursor <= Len(timeline)
        /\ core'.pending = core.pending
        /\ core' = [cursor |-> core'.cursor, pending |-> core'.pending]
    BY <2>1, <2>2
  <2>5. batch' \in [items : Seq(Nat), to : Nat] /\ batch'.to <= Len(timeline)
    <3>1. <<>> \in Seq(Nat)
      OBVIOUS
    <3>2. CASE batch' = batch
      BY <3>2
    <3>3. CASE batch' = Ch!NoBatch
      BY <3>1, <3>3 DEF Ch!NoBatch
    <3> QED BY <2>2, <3>2, <3>3
  <2> QED BY <2>1, <2>2, <2>3, <2>4, <2>5
<1>17. ASSUME Ch!Crash PROVE ChatTypes'
  BY <1>17 DEF Ch!Crash, Ch!NewMem, Ch!NoBatch, Ch!ChatAssumption
<1>18. CASE UNCHANGED Ch!vars
  BY <1>18 DEF Ch!vars
<1> QED BY <1>1, <1>2, <1>3, <1>4, <1>5, <1>6, <1>7, <1>8, <1>9, <1>10, <1>11, <1>12, <1>13,
           <1>14, <1>15, <1>16, <1>17, <1>18 DEF Ch!Next

\* What every step leaves as it is.
LEMMA Stays ==
  ASSUME Ch!ChatAssumption, ChatTypes, BatchInOrder, OneHolder, PendingIsOpen, [Ch!Next]_(Ch!vars)
  PROVE  /\ DOMAIN timeline \subseteq DOMAIN timeline'
         /\ \A i \in DOMAIN timeline : timeline'[i] = timeline[i]
         /\ excused \subseteq excused' /\ events.messages \subseteq events'.messages
         /\ \A q \in Questions : events.reply[q] # 0 => events'.reply[q] = events.reply[q]
         /\ \A q \in Questions : Gone(q) => Gone(q)'
<1>1. /\ DOMAIN timeline \subseteq DOMAIN timeline'
      /\ \A i \in DOMAIN timeline : timeline'[i] = timeline[i]
  <2>1. ASSUME NEW item \in Ch!Items, Ch!Write(item)
        PROVE  /\ DOMAIN timeline \subseteq DOMAIN timeline'
               /\ \A i \in DOMAIN timeline : timeline'[i] = timeline[i]
    BY <2>1 DEF Ch!Write, ChatTypes
  <2>2. CASE UNCHANGED timeline
    BY <2>2
  <2>3. UNCHANGED timeline \/ \E item \in Ch!Items : Ch!Write(item)
    BY DEF Ch!Next, Ch!vars, Ch!AskPosts, Ch!AskLoads, Ch!AskSaves, Ch!AskFails, Ch!LoadCursor,
       Ch!Fetch, Ch!Skip,
           Ch!HandleText, Ch!Load, Ch!HandleNoAnswer, Ch!EmitReply, Ch!Crash, Ch!FirstCursor,
           Ch!FillFails,
           Ch!TokenRejected, Ch!Forget, Ch!HandleFails, Ch!Commit, Ch!FillGivesUp, Ch!Unchanged
  <2> QED BY <2>1, <2>2, <2>3
<1>2. excused \subseteq excused'
  BY DEF Ch!Next, Ch!vars, Ch!Write, Ch!AskPosts, Ch!AskLoads, Ch!AskSaves, Ch!AskFails,
     Ch!LoadCursor, Ch!Fetch, Ch!Skip,
         Ch!HandleText, Ch!Load, Ch!HandleNoAnswer, Ch!EmitReply, Ch!Crash, Ch!FirstCursor,
         Ch!FillFails,
         Ch!TokenRejected, Ch!Forget, Ch!HandleFails, Ch!Fails, Ch!Commit, Ch!FillGivesUp,
         Ch!Unchanged
<1>3. /\ events.messages \subseteq events'.messages
      /\ \A q \in Questions : events.reply[q] # 0 => events'.reply[q] = events.reply[q]
  <2>1. ASSUME Ch!EmitReply
        PROVE  /\ events'.messages = events.messages
               /\ \A q \in Questions : events.reply[q] # 0 => events'.reply[q] = events.reply[q]
    BY <2>1 DEF Ch!EmitReply, ChatTypes
  <2>2. ASSUME Ch!Message(Ch!Item)
        PROVE  events.messages \subseteq events'.messages /\ events'.reply = events.reply
    BY <2>2 DEF Ch!Message, ChatTypes
  <2>3. UNCHANGED events \/ Ch!Message(Ch!Item) \/ Ch!EmitReply
    BY DEF Ch!Next, Ch!vars, Ch!Write, Ch!AskPosts, Ch!AskLoads, Ch!AskSaves, Ch!AskFails,
       Ch!LoadCursor, Ch!Fetch, Ch!Skip,
           Ch!HandleText, Ch!Load, Ch!HandleNoAnswer, Ch!Crash, Ch!FirstCursor, Ch!FillFails,
           Ch!TokenRejected, Ch!Forget, Ch!HandleFails, Ch!Commit, Ch!FillGivesUp, Ch!Unchanged
  <2> QED BY <2>1, <2>2, <2>3
<1>4. ASSUME NEW q \in Questions, Gone(q) PROVE Gone(q)'
  <2> USE <1>4 DEF Gone
  <2>1. ASSUME NEW p \in Questions, Ch!AskSaves(p) PROVE Gone(q)'
    <3>1. q # p /\ asks' [q] \in {asks[q], "evicted"}
      BY <2>1 DEF Ch!AskSaves, ChatTypes
    <3> QED BY <2>1, <3>1, SavedIs
  <2>2. ASSUME NEW b \in BOOLEAN, Ch!Forget(b) PROVE Gone(q)'
    <3>1. core'.pending = Ch!Forgotten /\ UNCHANGED asks
      BY <2>2 DEF Ch!Forget, ChatTypes
    <3>2. Ch!ToSet(Ch!Forgotten) \subseteq Ch!ToSet(core.pending)
      BY <2>2, RemovedIs DEF Ch!Forget, Ch!Forgotten, OneHolder, PendingIsOpen, ChatTypes
    <3> QED BY <3>1, <3>2
  <2>3. ASSUME NEW p \in Questions, Ch!AskPosts(p) \/ Ch!AskLoads(p) \/ Ch!AskFails(p) PROVE Gone(q)'
    BY <2>3 DEF Ch!AskPosts, Ch!AskLoads, Ch!AskFails, ChatTypes
  <2>4. CASE Ch!Crash
    BY <2>4 DEF Ch!Crash, ChatTypes
  <2>5. CASE core'.pending = core.pending /\ UNCHANGED asks
    BY <2>5
  <2>6. \/ core'.pending = core.pending /\ UNCHANGED asks
        \/ \E p \in Questions : Ch!AskPosts(p) \/ Ch!AskLoads(p) \/ Ch!AskFails(p) \/ Ch!AskSaves(p)
        \/ Ch!Crash \/ \E b \in BOOLEAN : Ch!Forget(b)
    <3>1. ASSUME NEW b \in BOOLEAN, Ch!FirstCursor(b) \/ Ch!TokenRejected(b) \/ Ch!Commit(b)
          PROVE  core'.pending = core.pending /\ UNCHANGED asks
      BY <3>1 DEF Ch!FirstCursor, Ch!TokenRejected, Ch!Commit, Ch!Unchanged, ChatTypes
    <3>2. CASE \E b \in BOOLEAN : Ch!FirstCursor(b) \/ Ch!TokenRejected(b) \/ Ch!Commit(b)
      BY <3>1, <3>2
    <3>3. CASE ~ \E b \in BOOLEAN : Ch!FirstCursor(b) \/ Ch!TokenRejected(b) \/ Ch!Commit(b)
      BY <3>3 DEF Ch!Next, Ch!vars, Ch!Write, Ch!LoadCursor, Ch!Fetch, Ch!Skip, Ch!HandleText,
         Ch!Load, Ch!HandleNoAnswer,
                  Ch!EmitReply, Ch!FillFails, Ch!HandleFails, Ch!FillGivesUp, Ch!Unchanged
    <3> QED BY <3>2, <3>3
  <2> QED BY <2>1, <2>2, <2>3, <2>4, <2>5, <2>6
<1> QED BY <1>1, <1>2, <1>3, <1>4

\* The batch that a fetch, or a gap given up, leaves.
LEMMA ChatRunIs ==
  ASSUME ChatTypes, NEW from \in Nat, from <= Len(timeline),
         batch' = [items |-> [i \in 1 .. Len(timeline) - from |-> from + i],
                   to |-> Len(timeline)]
  PROVE  /\ Len(batch'.items) = Len(timeline) - from /\ batch'.to = Len(timeline)
         /\ batch'.items = <<>> <=> from = Len(timeline)
         /\ \A i \in DOMAIN batch'.items : batch'.items[i] = batch'.to - Len(batch'.items) + i
<1> DEFINE line == [i \in 1 .. Len(timeline) - from |-> from + i]
<1>1. Len(timeline) \in Nat /\ Len(timeline) - from \in Nat
  BY DEF ChatTypes
<1>2. line \in Seq(Nat) /\ Len(line) = Len(timeline) - from
  BY <1>1, RunOfItems
<1>3. batch'.items = line /\ batch'.to = Len(timeline)
  OBVIOUS
<1>4. \A i \in DOMAIN line : line[i] = Len(timeline) - Len(line) + i
  BY <1>1, <1>2
<1> HIDE DEF line
<1>5. line = <<>> <=> from = Len(timeline)
  <2>1. line = <<>> <=> Len(line) = 0
    BY <1>2
  <2> QED BY <1>1, <1>2, <2>1
<1> QED BY <1>2, <1>3, <1>4, <1>5

LEMMA AfterIs == ASSUME ChatTypes PROVE Ch!After \in Nat /\ Ch!After <= Len(timeline)
                                        /\ (Ch!After = mem.cursor \/ Ch!After = 0)
BY DEF Ch!After, ChatTypes

LEMMA BatchStep ==
  ASSUME Ch!ChatAssumption, ChatTypes, BatchInOrder, [Ch!Next]_(Ch!vars)
  PROVE  BatchInOrder'
<1>1. ASSUME NEW item \in Ch!Items, Ch!Write(item) PROVE BatchInOrder'
  <2>1. Len(timeline') <= MaxItems /\ DOMAIN timeline \subseteq DOMAIN timeline'
    BY <1>1 DEF Ch!Write, ChatTypes, Ch!ChatAssumption
  <2> QED BY <1>1, <2>1 DEF Ch!Write, BatchInOrder
<1>2. CASE UNCHANGED <<timeline, batch, stage, mem>>
  BY <1>2 DEF BatchInOrder
<1>3. ASSUME UNCHANGED <<timeline, batch, stage>>, mem'.handled = mem.handled PROVE BatchInOrder'
  BY <1>3 DEF BatchInOrder
<1>4. ASSUME NEW b \in BOOLEAN, Ch!LoadCursor \/ Ch!FirstCursor(b) \/ Ch!FillFails(b) \/ Ch!TokenRejected(b)
      PROVE  UNCHANGED <<timeline, batch, stage>> /\ mem'.handled = mem.handled
  BY <1>4 DEF Ch!LoadCursor, Ch!FirstCursor, Ch!FillFails, Ch!TokenRejected, Ch!Unchanged, ChatTypes
<1>5. ASSUME NEW from \in Nat, from <= Len(timeline),
             batch' = [items |-> [i \in 1 .. Len(timeline) - from |-> from + i],
                       to |-> Len(timeline)],
             stage' \in {"none", IF from = Len(timeline) THEN "commit" ELSE "none"},
             UNCHANGED <<timeline, mem>>
      PROVE  BatchInOrder'
  <2>1. Len(timeline) \in Nat
    BY DEF ChatTypes
  <2> QED BY <1>5, <2>1, ChatRunIs DEF BatchInOrder
<1>6. CASE Ch!Fetch
  BY <1>5, <1>6, AfterIs DEF Ch!Fetch, Ch!Unchanged, Ch!Between
<1>7. ASSUME NEW from \in DOMAIN timeline, Ch!FillGivesUp(from) PROVE BatchInOrder'
  <2>1. from \in Nat
    BY DEF ChatTypes
  <2> QED BY <1>5, <1>7, <2>1 DEF Ch!FillGivesUp, Ch!Unchanged
<1>8. ASSUME batch.items # <<>>, batch' = Ch!Next1(Ch!Item), UNCHANGED timeline,
             mem'.handled \subseteq mem.handled \cup {Ch!Item},
             stage' = "none" \/ (stage' = "commit" /\ (~Matrix \/ Len(batch.items) = 1))
      PROVE  BatchInOrder'
  <2>1. batch'.items = Tail(batch.items) /\ batch'.to = batch.to
    BY <1>8 DEF Ch!Next1
  <2>2. Len(batch.items) <= batch.to /\ batch.to \in Nat
    BY DEF BatchInOrder, ChatTypes
  <2>3. stage' = "commit" /\ batch'.items # <<>> => ~Matrix
    BY <1>8, <2>1, HeadIs
  <2> QED BY <1>8, <2>1, <2>2, <2>3, HeadIs DEF BatchInOrder
<1>9. CASE Ch!Skip
  BY <1>8, <1>9 DEF Ch!Skip, Ch!Handling, Ch!Unchanged
<1>10. ASSUME Ch!Done(Ch!Item), batch.items # <<>>, UNCHANGED timeline PROVE BatchInOrder'
  BY <1>8, <1>10, DoneTypes DEF Ch!Done
<1>11. CASE Ch!HandleText
  BY <1>10, <1>11 DEF Ch!HandleText, Ch!Handling
<1>12. CASE Ch!HandleNoAnswer
  BY <1>10, <1>12 DEF Ch!HandleNoAnswer, BatchInOrder
<1>13. ASSUME NEW b \in BOOLEAN, Ch!Forget(b) PROVE BatchInOrder'
  BY <1>10, <1>13 DEF Ch!Forget, BatchInOrder
<1>14. CASE Ch!Load \/ Ch!EmitReply
  BY <1>14 DEF Ch!Load, Ch!EmitReply, BatchInOrder, Ch!Handling
<1>15. ASSUME batch' \in {batch, Ch!NoBatch}, stage' = "none", UNCHANGED timeline,
              mem'.handled \subseteq mem.handled
       PROVE  BatchInOrder'
  <2>1. CASE batch' = batch
    BY <1>15, <2>1 DEF BatchInOrder
  <2>2. CASE batch' = Ch!NoBatch
    BY <1>15, <2>2 DEF BatchInOrder, Ch!NoBatch
  <2> QED BY <1>15, <2>1, <2>2
<1>16. ASSUME NEW b \in BOOLEAN, Ch!HandleFails(b) PROVE BatchInOrder'
  <2>1. batch.items # <<>> /\ UNCHANGED timeline /\ Ch!Fails(Ch!Item, b)
    BY <1>16 DEF Ch!HandleFails, Ch!Handling, BatchInOrder
  <2> QED BY <1>10, <1>15, <2>1, FailsTypes
<1>17. ASSUME NEW b \in BOOLEAN, Ch!Commit(b) PROVE BatchInOrder'
  <2>1. mem'.handled \subseteq mem.handled
    BY <1>17 DEF Ch!Commit, ChatTypes
  <2> QED BY <1>15, <1>17, <2>1 DEF Ch!Commit, Ch!Unchanged
<1>18. CASE Ch!Crash
  BY <1>15, <1>18 DEF Ch!Crash, Ch!NewMem
<1>19. ASSUME NEW q \in Questions, Ch!AskPosts(q) \/ Ch!AskLoads(q) \/ Ch!AskSaves(q) \/ Ch!AskFails(q)
       PROVE  UNCHANGED <<timeline, batch, stage, mem>>
  BY <1>19 DEF Ch!AskPosts, Ch!AskLoads, Ch!AskSaves, Ch!AskFails
<1>20. CASE UNCHANGED Ch!vars
  BY <1>2, <1>20 DEF Ch!vars
<1> QED BY <1>1, <1>2, <1>3, <1>4, <1>6, <1>7, <1>9, <1>11, <1>12, <1>13, <1>14, <1>16, <1>17,
           <1>18, <1>19, <1>20 DEF Ch!Next

LEMMA HolderStep ==
  ASSUME Ch!ChatAssumption, ChatTypes, BatchInOrder, OneHolder, PendingIsOpen, [Ch!Next]_(Ch!vars)
  PROVE  OneHolder'
<1>0. 0 \notin Questions
  BY DEF Ch!ChatAssumption
<1>1. ASSUME NEW item \in Ch!Items, Ch!Write(item) PROVE OneHolder'
  <2>1. stage \in {"loaded", "emitted"} => Ch!It' = Ch!It
    BY <1>1, HeadIs, Stays DEF Ch!Write, BatchInOrder, Ch!It, Ch!Item, Ch!Next
  <2>2. UNCHANGED <<core, events, batch, stage, asks, copy>>
    BY <1>1 DEF Ch!Write
  <2> HIDE DEF Ch!It
  <2> QED BY <2>1, <2>2 DEF OneHolder, Ch!Answers
<1>2. ASSUME NEW q \in Questions, Ch!AskPosts(q) PROVE OneHolder'
  <2>1. Ch!It' = Ch!It /\ UNCHANGED <<core, stage, copy, events>>
        /\ \A p \in Questions : asks' [p] = "loaded" <=> asks[p] = "loaded"
    BY <1>2 DEF Ch!AskPosts, Ch!It, Ch!Item, ChatTypes
  <2> HIDE DEF Ch!It
  <2> QED BY <2>1 DEF OneHolder, Ch!Answers
<1>3. ASSUME NEW q \in Questions, Ch!AskLoads(q) PROVE OneHolder'
  <2>1. /\ \A p \in Questions : asks' [p] = "loaded" => p = q
        /\ copy'[q] = core'.pending /\ stage' \notin {"loaded", "emitted"}
    BY <1>3 DEF Ch!AskLoads, Ch!Free, ChatTypes
  <2> QED BY <2>1 DEF OneHolder
<1>4. ASSUME NEW q \in Questions, Ch!AskSaves(q) PROVE OneHolder'
  <2>1. stage' \notin {"loaded", "emitted"} /\ \A p \in Questions : asks' [p] # "loaded"
    BY <1>4 DEF Ch!AskSaves, OneHolder, ChatTypes
  <2> QED BY <2>1 DEF OneHolder
<1>5. ASSUME NEW q \in Questions, Ch!AskFails(q) PROVE OneHolder'
  <2>1. Ch!It' = Ch!It /\ UNCHANGED <<core, stage, events>>
        /\ \A p \in Questions : asks' [p] = "loaded" => asks[p] = "loaded" /\ p # q
        /\ \A h \in Questions \cup {0} : h # q => copy'[h] = copy[h]
    BY <1>5 DEF Ch!AskFails, Ch!It, Ch!Item, ChatTypes, Ch!Released
  <2> HIDE DEF Ch!It
  <2>2. copy'[0] = copy[0]
    <3>1. 0 # q
      BY <1>0, <1>5
    <3>2. copy' = [copy EXCEPT ![q] = <<>>]
      BY <1>5 DEF Ch!AskFails, Ch!Released
    <3> QED BY <3>1, <3>2 DEF ChatTypes
  <2>3. Ch!Answers' <=> Ch!Answers
    BY <2>1, <2>2 DEF Ch!Answers
  <2> HIDE DEF Ch!Answers
  <2> QED BY <2>1, <2>2, <2>3 DEF OneHolder
<1>6. ASSUME stage' \notin {"loaded", "emitted"}, UNCHANGED asks, core'.pending = core.pending,
             \A q \in Questions : copy'[q] = copy[q]
      PROVE  OneHolder'
  BY <1>6 DEF OneHolder
<1>7. ASSUME stage \in {"loaded", "emitted"}, stage' \notin {"loaded", "emitted"},
             UNCHANGED asks
      PROVE  OneHolder'
  BY <1>7 DEF OneHolder
<1>8. ASSUME Ch!Released(0) PROVE \A q \in Questions : copy'[q] = copy[q]
  BY <1>0, <1>8 DEF Ch!Released, ChatTypes
<1>9. CASE Ch!LoadCursor \/ Ch!Fetch \/ Ch!Skip
  BY <1>6, <1>9 DEF Ch!LoadCursor, Ch!Fetch, Ch!Skip, Ch!Between, Ch!Unchanged, Ch!Handling
<1>10. CASE Ch!HandleText
  BY <1>6, <1>10 DEF Ch!HandleText, Ch!Done
<1>11. ASSUME NEW b \in BOOLEAN, Ch!FirstCursor(b) \/ Ch!FillFails(b) \/ Ch!TokenRejected(b) \/ Ch!Commit(b)
       PROVE  OneHolder'
  <2>1. core'.pending = core.pending /\ stage' = "none" /\ UNCHANGED <<asks, copy>>
    BY <1>11 DEF Ch!FirstCursor, Ch!FillFails, Ch!TokenRejected, Ch!Commit, Ch!Between,
       Ch!Unchanged, ChatTypes
  <2> QED BY <1>6, <2>1
<1>12. ASSUME NEW from \in DOMAIN timeline, Ch!FillGivesUp(from) PROVE OneHolder'
  BY <1>6, <1>12 DEF Ch!FillGivesUp, Ch!Unchanged
<1>13. CASE Ch!Load
  <2>1. Ch!It' = Ch!It /\ stage' = "loaded" /\ UNCHANGED <<core, asks>> /\ copy'[0] = core.pending
        /\ Ch!It.kind # "text" /\ \A q \in Questions : asks[q] # "loaded"
    BY <1>13 DEF Ch!Load, Ch!Free, Ch!It, Ch!Item, ChatTypes
  <2> HIDE DEF Ch!It
  <2> QED BY <2>1 DEF OneHolder
<1>14. CASE Ch!HandleNoAnswer
  BY <1>7, <1>14 DEF Ch!HandleNoAnswer, Ch!Done
<1>15. CASE Ch!EmitReply
  <2>1. Ch!It' = Ch!It /\ stage' = "emitted" /\ stage = "loaded" /\ UNCHANGED <<core, asks, copy>>
        /\ Ch!Answers /\ Ch!Answers'
    BY <1>15 DEF Ch!EmitReply, Ch!It, Ch!Item, Ch!Answers
  <2>2. Ch!It \in Ch!Items
    BY <2>1, HeadIs DEF BatchInOrder
  <2>3. Ch!It.q \in Questions /\ Ch!It.c # 0
    BY <2>1, <2>2, ItemsAre DEF Ch!Answers
  <2>4. events'.reply[Ch!It.q] # 0
    BY <1>15, <2>3 DEF Ch!EmitReply, ChatTypes
  <2> HIDE DEF Ch!It, Ch!Answers
  <2> QED BY <2>1, <2>4 DEF OneHolder
<1>16. ASSUME NEW b \in BOOLEAN, Ch!Forget(b) PROVE OneHolder'
  BY <1>7, <1>16 DEF Ch!Forget, Ch!Done
<1>17. ASSUME NEW b \in BOOLEAN, Ch!HandleFails(b) PROVE OneHolder'
  BY <1>6, <1>8, <1>17 DEF Ch!HandleFails, Ch!Fails, Ch!Done
<1>18. CASE Ch!Crash
  <2>1. \A q \in Questions : asks' [q] # "loaded"
    BY <1>18 DEF Ch!Crash, ChatTypes
  <2> QED BY <1>18, <2>1 DEF Ch!Crash, OneHolder
<1>19. CASE UNCHANGED Ch!vars
  <2>1. Ch!It' = Ch!It /\ UNCHANGED <<core, stage, copy, events, asks>>
    BY <1>19 DEF Ch!vars, Ch!It, Ch!Item
  <2> HIDE DEF Ch!It
  <2> QED BY <2>1 DEF OneHolder, Ch!Answers
<1> QED BY <1>1, <1>2, <1>3, <1>4, <1>5, <1>9, <1>10, <1>11, <1>12, <1>13, <1>14, <1>15, <1>16,
           <1>17, <1>18, <1>19 DEF Ch!Next

\* What the questions answered leave of the open ones.
LEMMA ForgottenIs ==
  ASSUME ChatTypes, BatchInOrder, OneHolder, PendingIsOpen, NEW b \in BOOLEAN, Ch!Forget(b)
  PROVE  /\ Ch!It.q \in Questions /\ Ch!It.c # 0 /\ events.reply[Ch!It.q] # 0 /\ asks[Ch!It.q] = "open"
         /\ core'.pending \in Seq(Questions) /\ Len(core'.pending) <= Len(core.pending)
         /\ \A i, j \in DOMAIN core'.pending : core'.pending[i] = core'.pending[j] => i = j
         /\ Ch!ToSet(core'.pending) = Ch!ToSet(core.pending) \ {Ch!It.q}
<1>1. copy[0] = core.pending /\ Ch!Answers /\ events.reply[Ch!It.q] # 0 /\ Ch!It \in Ch!Items
  BY HeadIs DEF Ch!Forget, OneHolder, BatchInOrder
<1>2. Ch!It.q \in Questions /\ Ch!It.c # 0 /\ Ch!It.q \in Ch!ToSet(core.pending)
  BY <1>1, ItemsAre DEF Ch!Answers
<1>3. core'.pending = Ch!RemoveFirst(core.pending, Ch!It.q)
  BY <1>1 DEF Ch!Forget, Ch!Forgotten, ChatTypes
<1> QED BY <1>1, <1>2, <1>3, RemovedIs DEF PendingIsOpen, ChatTypes

LEMMA PendingStep ==
  ASSUME Ch!ChatAssumption, ChatTypes, BatchInOrder, OneHolder, PendingIsOpen, [Ch!Next]_(Ch!vars)
  PROVE  PendingIsOpen'
<1>1. ASSUME NEW q \in Questions, Ch!AskSaves(q) PROVE PendingIsOpen'
  <2>1. /\ asks' [q] = "open" /\ copy[q] = core.pending /\ asks[q] = "loaded"
        /\ \A p \in Questions : p # q =>
             asks' [p] = IF asks[p] = "open" /\ p \in Ch!ToSet(core.pending) \ Ch!ToSet(core'.pending)
                         THEN "evicted" ELSE asks[p]
        /\ UNCHANGED <<told, events>>
    BY <1>1 DEF Ch!AskSaves, OneHolder, ChatTypes
  <2>2. \A p \in Ch!ToSet(core'.pending) : p \in Questions /\ asks' [p] = "open"
    <3>1. Ch!ToSet(core'.pending) \subseteq Questions
      BY <1>1, SavedIs DEF Ch!ToSet
    <3> QED BY <1>1, <2>1, <3>1, SavedIs DEF PendingIsOpen
  <2>3. \A p \in Questions : asks' [p] = "open" /\ events'.reply[p] = 0
                               => p \in Ch!ToSet(core'.pending)
    BY <1>1, <2>1, SavedIs DEF PendingIsOpen
  <2>4. \A p \in Questions : told'[p] # 0 => Gone(p)'
    BY <2>1, Stays DEF PendingIsOpen
  <2> QED BY <1>1, <2>2, <2>3, <2>4, SavedIs DEF PendingIsOpen
<1>2. ASSUME NEW b \in BOOLEAN, Ch!Forget(b) PROVE PendingIsOpen'
  <2>1. UNCHANGED <<events, asks>> /\ \A q \in Questions : q # Ch!It.q => told'[q] = told[q]
    BY <1>2 DEF Ch!Forget, ChatTypes
  <2>2. Len(core'.pending) <= PendingLimit
    <3>1. Len(core'.pending) \in Nat /\ Len(core.pending) \in Nat /\ PendingLimit \in Nat
          /\ Len(core.pending) <= PendingLimit
      BY <1>2, ForgottenIs DEF ChatTypes, Ch!ChatAssumption, PendingIsOpen
    <3>2. Len(core'.pending) <= Len(core.pending)
      BY <1>2, ForgottenIs
    <3> QED BY <3>1, <3>2
  <2>0. PICK a \in Questions : a = Ch!It.q
    BY <1>2, ForgottenIs
  <2>3. Gone(a)'
    BY <1>2, <2>0, <2>1, ForgottenIs DEF Gone
  <2>4. \A q \in Questions : told'[q] # 0 => Gone(q)'
    <3>1. \A q \in Questions : q # a => told'[q] = told[q]
      BY <2>0, <2>1
    <3>2. \A q \in Questions : told[q] # 0 => Gone(q)
      BY DEF PendingIsOpen
    <3> HIDE DEF Gone
    <3> QED BY <2>3, <3>1, <3>2, Stays
  <2>5. \A q \in Ch!ToSet(core'.pending) : asks' [q] = "open"
    BY <1>2, <2>1, ForgottenIs DEF PendingIsOpen
  <2>6. \A q \in Questions : asks' [q] = "open" /\ events'.reply[q] = 0
                               => q \in Ch!ToSet(core'.pending)
    BY <1>2, <2>1, ForgottenIs DEF PendingIsOpen
  <2> QED BY <1>2, <2>2, <2>4, <2>5, <2>6, ForgottenIs DEF PendingIsOpen
<1>3. ASSUME core'.pending = core.pending, UNCHANGED <<told, events>>,
             \A q \in Questions : asks' [q] = "open" <=> asks[q] = "open"
      PROVE  PendingIsOpen'
  <2>1. \A q \in Ch!ToSet(core.pending) : q \in Questions
    BY DEF Ch!ToSet, ChatTypes
  <2> QED BY <1>3, <2>1, Stays DEF PendingIsOpen
<1>4. ASSUME core'.pending = core.pending, UNCHANGED <<told, asks>>
      PROVE  PendingIsOpen'
  <2>1. \A q \in Questions : events'.reply[q] = 0 => events.reply[q] = 0
    BY Stays
  <2> QED BY <1>4, <2>1, Stays DEF PendingIsOpen
<1>5. ASSUME NEW q \in Questions, Ch!AskPosts(q) \/ Ch!AskLoads(q) \/ Ch!AskFails(q) PROVE PendingIsOpen'
  <2>1. \A p \in Questions : asks' [p] = "open" <=> asks[p] = "open"
    BY <1>5 DEF Ch!AskPosts, Ch!AskLoads, Ch!AskFails, ChatTypes
  <2> QED BY <1>3, <1>5, <2>1 DEF Ch!AskPosts, Ch!AskLoads, Ch!AskFails
<1>6. CASE Ch!Crash
  <2>1. \A p \in Questions : asks' [p] = "open" <=> asks[p] = "open"
    BY <1>6 DEF Ch!Crash
  <2> QED BY <1>3, <1>6, <2>1 DEF Ch!Crash
<1>7. ASSUME NEW b \in BOOLEAN, Ch!FirstCursor(b) \/ Ch!FillFails(b) \/ Ch!TokenRejected(b) \/ Ch!Commit(b)
      PROVE  PendingIsOpen'
  <2>1. core'.pending = core.pending /\ UNCHANGED <<asks, told>>
    BY <1>7 DEF Ch!FirstCursor, Ch!FillFails, Ch!TokenRejected, Ch!Commit, Ch!Between,
       Ch!Unchanged, ChatTypes
  <2> QED BY <1>4, <2>1
<1>8. CASE \/ \E item \in Ch!Items : Ch!Write(item)
           \/ Ch!LoadCursor \/ Ch!Fetch \/ Ch!Skip \/ Ch!HandleText \/ Ch!Load \/ Ch!HandleNoAnswer \/ Ch!EmitReply
           \/ \E b \in BOOLEAN : Ch!HandleFails(b)
           \/ \E from \in DOMAIN timeline : Ch!FillGivesUp(from)
           \/ UNCHANGED Ch!vars
  <2>1. core'.pending = core.pending /\ UNCHANGED <<asks, told>>
    BY <1>8 DEF Ch!Write, Ch!LoadCursor, Ch!Fetch, Ch!Skip, Ch!HandleText, Ch!Load,
       Ch!HandleNoAnswer, Ch!EmitReply,
                Ch!HandleFails, Ch!FillGivesUp, Ch!Unchanged, Ch!vars
  <2> QED BY <1>4, <2>1
<1> QED BY <1>1, <1>2, <1>5, <1>6, <1>7, <1>8 DEF Ch!Next

\* What was handled stays so.
LEMMA SettledStays ==
  ASSUME Ch!ChatAssumption, ChatTypes, BatchInOrder, OneHolder, PendingIsOpen, [Ch!Next]_(Ch!vars),
         NEW i \in DOMAIN timeline, i \in excused \/ Settled(i)
  PROVE  i \in excused' \/ Settled(i)'
<1>1. timeline[i] \in Ch!Items /\ timeline'[i] = timeline[i]
  BY Stays DEF ChatTypes
<1>2. timeline[i].q # 0 => timeline[i].q \in Questions
  BY <1>1, ItemsAre
<1>3. timeline[i].c # 0 => timeline[i].q \in Questions
  BY <1>1, ItemsAre
<1>4. ASSUME Settled(i) PROVE Settled(i)'
  <2>1. i \in events'.messages \/ (timeline[i].q # 0 /\ events'.reply[timeline[i].q] # 0)
    BY <1>2, <1>4, Stays DEF Settled
  <2>2. ASSUME timeline[i].c # 0 PROVE Gone(timeline[i].q)'
    <3>1. PICK q \in Questions : q = timeline[i].q
      BY <1>3, <2>2
    <3>2. Gone(q)'
      BY <1>4, <2>2, <3>1, Stays DEF Settled
    <3>3. timeline'[i].q = q
      BY <1>1, <3>1
    <3> QED BY <3>2, <3>3 DEF Gone
  <2> QED BY <1>1, <2>1, <2>2 DEF Settled
<1> QED BY <1>4, Stays

\* How far the loop is, with the item that comes next done.
LEMMA DoneReaches ==
  ASSUME ChatTypes, BatchInOrder, batch.items # <<>>, batch' = Ch!Next1(Ch!Item),
         Len(batch.items) = 1 => stage' = "commit",
         mem'.handled \subseteq mem.handled \cup {Ch!Item}, mem'.cursor = mem.cursor,
         core'.cursor = core.cursor, NEW i \in DOMAIN timeline, Passed(i)'
  PROVE  Passed(i) \/ i = Ch!Item
<1>1. batch'.items = Tail(batch.items) /\ batch'.to = batch.to
  BY DEF Ch!Next1
<1>2. /\ Len(batch.items) \in Nat \ {0} /\ batch.to \in Nat /\ Ch!Item = batch.to - Len(batch.items) + 1
      /\ Len(batch'.items) = Len(batch.items) - 1 /\ Ch!Item \in Nat
      /\ batch'.items \in Seq(Nat)
  BY <1>1, HeadIs DEF ChatTypes
<1>3. batch'.items = <<>> => Len(batch.items) = 1
  <2>1. ASSUME batch'.items = <<>> PROVE Len(batch'.items) = 0
    BY <2>1
  <2>2. Len(batch.items) \in Nat /\ Len(batch'.items) = Len(batch.items) - 1
    BY <1>2
  <2> QED BY <2>1, <2>2
<1>0. PICK x : x = Ch!Item
  OBVIOUS
<1>4. Reached' = x /\ Reached = x - 1
  <2> HIDE DEF Ch!Item
  <2>1. Reached' = batch.to - Len(batch'.items)
    <3>1. Len(batch'.items) = 0 => batch'.items = <<>> /\ stage' = "commit"
      BY <1>2, <1>3
    <3> QED BY <1>1, <1>2, <1>3, <3>1 DEF Reached
  <2>2. Reached = batch.to - Len(batch.items)
    BY DEF Reached
  <2> QED BY <1>0, <1>2, <2>1, <2>2
<1>5. i \in Nat
  BY DEF ChatTypes
<1> HIDE DEF Ch!Item
<1>6. \/ i <= mem.cursor \/ i <= core.cursor \/ i <= x \/ i \in mem.handled \/ i = x
  BY <1>0, <1>4 DEF Passed
<1>7. i <= x => i <= x - 1 \/ i = x
  BY <1>0, <1>2, <1>5
<1> QED BY <1>0, <1>4, <1>6, <1>7 DEF Passed

LEMMA PassedStep ==
  ASSUME Ch!ChatAssumption, ChatTypes, BatchInOrder, OneHolder, PendingIsOpen, PassedIsSettled,
         [Ch!Next]_(Ch!vars)
  PROVE  PassedIsSettled'
<1>0. ASSUME NEW S,
             \A i \in DOMAIN timeline' : Passed(i)' => (i \in DOMAIN timeline /\ Passed(i)) \/ i \in S,
             \A i \in S : i \in excused' \/ Settled(i)'
      PROVE  PassedIsSettled'
  <2> HIDE DEF Passed, Settled
  <2> QED BY <1>0, SettledStays DEF PassedIsSettled
<1>1. ASSUME NEW item \in Ch!Items, Ch!Write(item) PROVE PassedIsSettled'
  <2>1. Len(timeline) \in Nat /\ DOMAIN timeline' = DOMAIN timeline \cup {Len(timeline) + 1}
    BY <1>1 DEF Ch!Write, ChatTypes
  <2>2. UNCHANGED <<core, mem, batch, stage>>
    BY <1>1 DEF Ch!Write
  <2>3. Reached <= Len(timeline) /\ Reached' = Reached
    <3>1. batch.to \in Nat /\ Len(batch.items) \in Nat /\ batch.to <= Len(timeline)
      BY DEF ChatTypes
    <3> QED BY <2>1, <2>2, <3>1 DEF Reached
  <2>4. ~Passed(Len(timeline) + 1)
    <3>1. /\ mem.cursor \in Int /\ mem.cursor <= Len(timeline)
          /\ core.cursor \in Int /\ core.cursor <= Len(timeline) /\ Reached \in Int
      BY DEF ChatTypes, Reached
    <3>2. Len(timeline) + 1 \notin mem.handled
      BY <2>1 DEF BatchInOrder, ChatTypes
    <3> QED BY <2>1, <2>3, <3>1, <3>2 DEF Passed
  <2>5. \A i : Passed(i)' <=> Passed(i)
    BY <2>2, <2>3 DEF Passed
  <2> HIDE DEF Passed
  <2> QED BY <1>0, <2>1, <2>4, <2>5
<1>2. ASSUME UNCHANGED timeline, \A i \in DOMAIN timeline : Passed(i)' => Passed(i)
      PROVE  PassedIsSettled'
  BY <1>0, <1>2
<1>3. ASSUME UNCHANGED <<timeline, core, mem, batch>>, stage # "commit", stage' # "commit"
      PROVE  PassedIsSettled'
  <2>1. \A i : Passed(i)' => Passed(i)
    BY <1>3 DEF Passed, Reached
  <2> HIDE DEF Passed
  <2> QED BY <1>2, <1>3, <2>1
<1>4. CASE Ch!Load \/ Ch!EmitReply
  BY <1>3, <1>4 DEF Ch!Load, Ch!EmitReply, Ch!Handling
<1>5. ASSUME UNCHANGED <<timeline, mem, batch, stage>>, core'.cursor = core.cursor
      PROVE  PassedIsSettled'
  <2>1. \A i : Passed(i)' => Passed(i)
    BY <1>5 DEF Passed, Reached
  <2> HIDE DEF Passed
  <2> QED BY <1>2, <1>5, <2>1
<1>6. ASSUME NEW q \in Questions, Ch!AskPosts(q) \/ Ch!AskLoads(q) \/ Ch!AskSaves(q) \/ Ch!AskFails(q)
      PROVE  PassedIsSettled'
  BY <1>5, <1>6, SavedIs DEF Ch!AskPosts, Ch!AskLoads, Ch!AskSaves, Ch!AskFails
<1>7. CASE Ch!LoadCursor
  <2>1. /\ mem'.cursor = core.cursor /\ mem'.handled = mem.handled
        /\ UNCHANGED <<timeline, core, batch, stage>>
    BY <1>7 DEF Ch!LoadCursor, Ch!Unchanged, ChatTypes
  <2>2. \A i : Passed(i)' => Passed(i)
    BY <2>1 DEF Passed, Reached
  <2> HIDE DEF Passed
  <2> QED BY <1>2, <2>1, <2>2
<1>8. ASSUME NEW b \in BOOLEAN, Ch!FirstCursor(b) PROVE PassedIsSettled'
  <2>1. excused' = excused \cup DOMAIN timeline /\ UNCHANGED timeline
    BY <1>8 DEF Ch!FirstCursor, Ch!Unchanged
  <2> QED BY <2>1 DEF PassedIsSettled
<1>9. ASSUME NEW b \in BOOLEAN, Ch!FillFails(b) \/ Ch!TokenRejected(b) PROVE PassedIsSettled'
  <2>1. /\ mem'.cursor \in {mem.cursor, Ch!NoCursor} /\ mem'.handled = mem.handled
        /\ core'.cursor \in {core.cursor, Ch!NoCursor} /\ UNCHANGED <<timeline, batch, stage>>
    BY <1>9 DEF Ch!FillFails, Ch!TokenRejected, Ch!Unchanged, ChatTypes
  <2>2. \A i \in DOMAIN timeline : i \in Nat /\ ~(i <= Ch!NoCursor)
    BY DEF ChatTypes
  <2>3. \A i \in DOMAIN timeline : Passed(i)' => Passed(i)
    BY <2>1, <2>2 DEF Passed, Reached
  <2> HIDE DEF Passed
  <2> QED BY <1>2, <2>1, <2>3
<1>10. ASSUME NEW from \in Nat, Ch!After <= from, from <= Len(timeline),
              batch' = [items |-> [i \in 1 .. Len(timeline) - from |-> from + i],
                        to |-> Len(timeline)],
              UNCHANGED <<timeline, core, mem>>, Ch!After + 1 .. from \subseteq excused'
       PROVE  PassedIsSettled'
  <2>1. Len(timeline) \in Nat /\ Reached' \in {0, from}
    BY <1>10, ChatRunIs DEF Reached, ChatTypes
  <2>2. \A i \in DOMAIN timeline : i \in Nat \ {0}
    BY DEF ChatTypes
  <2>3. \A i \in DOMAIN timeline : Passed(i)' => Passed(i) \/ i \in Ch!After + 1 .. from
    <3> SUFFICES ASSUME NEW i \in DOMAIN timeline, Passed(i)', ~Passed(i)
                 PROVE  i \in Ch!After + 1 .. from
      OBVIOUS
    <3>1. i <= Reached'
      BY <1>10 DEF Passed
    <3>2. i <= from /\ ~(i <= mem.cursor)
      BY <2>1, <2>2, <3>1 DEF Passed
    <3> QED BY <2>2, <3>2, AfterIs
  <2> HIDE DEF Passed
  <2> QED BY <1>0, <1>10, <2>3
<1>11. CASE Ch!Fetch
  <2>1. Ch!After + 1 .. Ch!After = {}
    BY AfterIs
  <2> QED BY <1>10, <1>11, <2>1, AfterIs DEF Ch!Fetch, Ch!Unchanged
<1>12. ASSUME NEW from \in DOMAIN timeline, Ch!FillGivesUp(from) PROVE PassedIsSettled'
  <2>1. from \in Nat /\ Ch!After <= from
    BY <1>12, AfterIs DEF Ch!FillGivesUp, ChatTypes
  <2> QED BY <1>10, <1>12, <2>1 DEF Ch!FillGivesUp, Ch!Unchanged
<1>13. ASSUME batch.items # <<>>, Ch!Done(Ch!Item), UNCHANGED timeline, core'.cursor = core.cursor,
              NEW x \in DOMAIN timeline, x = Ch!Item, x \in excused' \/ Settled(x)'
       PROVE  PassedIsSettled'
  <2>1. /\ batch' = Ch!Next1(Ch!Item) /\ mem'.handled \subseteq mem.handled \cup {Ch!Item}
        /\ mem'.cursor = mem.cursor /\ (Len(batch.items) = 1 => stage' = "commit")
    BY <1>13, DoneTypes DEF Ch!Done
  <2>2. \A i \in DOMAIN timeline : Passed(i)' => Passed(i) \/ i = Ch!Item
    BY <1>13, <2>1, DoneReaches
  <2>3. \A i \in DOMAIN timeline : Passed(i)' => Passed(i) \/ i \in {x}
    BY <1>13, <2>2
  <2>4. \A i \in {x} : i \in excused' \/ Settled(i)'
    BY <1>13
  <2>5. timeline' = timeline
    BY <1>13
  <2> HIDE DEF Passed, Settled
  <2>6. ASSUME NEW i \in DOMAIN timeline', Passed(i)' PROVE i \in excused' \/ Settled(i)'
    <3>1. i \in DOMAIN timeline /\ (Passed(i) \/ i \in {x})
      BY <2>3, <2>5, <2>6
    <3>2. CASE Passed(i)
      BY <3>1, <3>2, SettledStays DEF PassedIsSettled
    <3> QED BY <2>4, <3>1, <3>2
  <2> QED BY <2>6 DEF PassedIsSettled
<1>14. CASE Ch!Skip
  <2>1. /\ batch.items # <<>> /\ batch' = Ch!Next1(Ch!Item) /\ Ch!Item \in mem.handled
        /\ UNCHANGED <<core, mem, timeline>> /\ (Len(batch.items) = 1 => stage' = "commit")
    BY <1>14 DEF Ch!Skip, Ch!Handling, Ch!Unchanged
  <2>2. \A i \in DOMAIN timeline : Passed(i)' => Passed(i) \/ i = Ch!Item
    BY <2>1, DoneReaches
  <2>3. Passed(Ch!Item)
    BY <2>1 DEF Passed
  <2> HIDE DEF Passed
  <2> QED BY <1>2, <2>1, <2>2, <2>3
<1>15. CASE Ch!HandleText
  <2>1. batch.items # <<>> /\ Ch!Done(Ch!Item) /\ UNCHANGED <<timeline, core>> /\ Ch!It.kind = "text"
        /\ Ch!Item \in events'.messages
    BY <1>15 DEF Ch!HandleText, Ch!Handling, Ch!Message, ChatTypes
  <2>2. PICK x \in DOMAIN timeline : x = Ch!Item /\ timeline[x] = Ch!It
    BY <2>1, HeadIs DEF Ch!It
  <2>3. timeline'[x].c = 0 /\ x \in events'.messages
    BY <2>1, <2>2, HeadIs, ItemsAre
  <2>4. Settled(x)'
    BY <2>3 DEF Settled
  <2> HIDE DEF Settled, Ch!Item, Ch!It
  <2> QED BY <1>13, <2>1, <2>2, <2>4
<1>16. CASE Ch!HandleNoAnswer
  <2>1. /\ batch.items # <<>> /\ Ch!Done(Ch!Item) /\ UNCHANGED <<timeline, core>>
        /\ (Ch!It.kind = "reply" => Ch!Item \in events'.messages)
        /\ excused' = IF Ch!It.kind = "tap" \/ Ch!It.c # 0 THEN excused \cup {Ch!Item} ELSE excused
        /\ Ch!It.kind # "text"
    <3>1. stage = "loaded"
      BY <1>16 DEF Ch!HandleNoAnswer
    <3>2. Ch!It.kind # "text" /\ batch.items # <<>>
      BY <3>1 DEF BatchInOrder, OneHolder
    <3>3. Ch!It.kind = "reply" => Ch!Item \in events'.messages
      BY <1>16 DEF Ch!HandleNoAnswer, Ch!Message, ChatTypes
    <3>4. Ch!Done(Ch!Item) /\ UNCHANGED <<timeline, core>>
          /\ excused' = IF Ch!It.kind = "tap" \/ Ch!It.c # 0 THEN excused \cup {Ch!Item} ELSE excused
      BY <1>16 DEF Ch!HandleNoAnswer
    <3> HIDE DEF Ch!It, Ch!Item
    <3> QED BY <3>2, <3>3, <3>4
  <2>2. CASE Ch!It.kind = "tap" \/ Ch!It.c # 0
    <3>1. PICK x \in DOMAIN timeline : x = Ch!Item
      BY <2>1, HeadIs
    <3>2. x \in excused'
      BY <2>1, <2>2, <3>1
    <3>3. /\ UNCHANGED timeline /\ core'.cursor = core.cursor /\ batch.items # <<>>
          /\ Ch!Done(Ch!Item)
      BY <2>1
    <3> HIDE DEF Settled, Ch!Item, Ch!It
    <3> QED BY <1>13, <3>1, <3>2, <3>3
  <2>3. CASE ~(Ch!It.kind = "tap" \/ Ch!It.c # 0)
    <3>1. Ch!It \in Ch!Items /\ Ch!It.kind = "reply" /\ Ch!It.c = 0
      BY <2>1, <2>3, HeadIs, ItemsAre
    <3>2. PICK x \in DOMAIN timeline : x = Ch!Item /\ timeline[x] = Ch!It
      BY <2>1, HeadIs DEF Ch!It
    <3>3. timeline'[x].c = 0 /\ x \in events'.messages
      BY <2>1, <3>1, <3>2
    <3>4. Settled(x)'
      BY <3>3 DEF Settled
    <3> HIDE DEF Settled, Ch!Item, Ch!It
    <3> QED BY <1>13, <2>1, <3>2, <3>4
  <2> QED BY <2>2, <2>3
<1>17. ASSUME NEW b \in BOOLEAN, Ch!Forget(b) PROVE PassedIsSettled'
  <2>1. batch.items # <<>> /\ Ch!Done(Ch!Item) /\ UNCHANGED <<timeline, events, asks>>
        /\ core'.cursor = core.cursor
    BY <1>17 DEF Ch!Forget, BatchInOrder, ChatTypes
  <2>2. PICK x \in DOMAIN timeline : x = Ch!Item /\ timeline[x] = Ch!It
    BY <2>1, HeadIs DEF Ch!It
  <2>3. PICK q \in Questions : q = Ch!It.q
    BY <1>17, ForgottenIs
  <2>4. q # 0 /\ events.reply[q] # 0 /\ asks[q] = "open" /\ q \notin Ch!ToSet(core'.pending)
    BY <1>17, <2>3, ForgottenIs DEF Ch!ChatAssumption
  <2>5. timeline'[x].q = q /\ Gone(q)'
    BY <2>1, <2>2, <2>3, <2>4 DEF Gone
  <2>6. Settled(x)'
    BY <2>1, <2>4, <2>5 DEF Settled, Gone
  <2> HIDE DEF Settled, Ch!Item, Ch!It
  <2> QED BY <1>13, <2>1, <2>2, <2>6
<1>18. ASSUME UNCHANGED timeline, core'.cursor = core.cursor, mem'.cursor \in {mem.cursor, Ch!NoCursor},
              mem'.handled \subseteq mem.handled, batch' = Ch!NoBatch, stage' = "none"
       PROVE  PassedIsSettled'
  <2>1. Reached' = 0
    BY <1>18 DEF Reached, Ch!NoBatch
  <2>2. \A i \in DOMAIN timeline : i \in Nat \ {0}
    BY DEF ChatTypes
  <2>3. \A i \in DOMAIN timeline : Passed(i)' => Passed(i)
    BY <1>18, <2>1, <2>2 DEF Passed
  <2> HIDE DEF Passed
  <2> QED BY <1>2, <1>18, <2>3
<1>19. CASE Ch!Crash
  BY <1>18, <1>19 DEF Ch!Crash, Ch!NewMem
<1>20. ASSUME NEW b \in BOOLEAN, Ch!HandleFails(b) PROVE PassedIsSettled'
  <2>1. batch.items # <<>> /\ UNCHANGED <<timeline, core>> /\ Ch!Fails(Ch!Item, b)
    BY <1>20 DEF Ch!HandleFails, Ch!Handling, BatchInOrder
  <2>2. CASE Ch!Done(Ch!Item) /\ excused' = excused \cup {Ch!Item}
    <3>1. PICK x \in DOMAIN timeline : x = Ch!Item
      BY <2>1, HeadIs
    <3> HIDE DEF Settled, Ch!Item
    <3> QED BY <1>13, <2>1, <2>2, <3>1
  <2> QED BY <1>18, <2>1, <2>2, FailsTypes
<1>21. ASSUME NEW b \in BOOLEAN, Ch!Commit(b) PROVE PassedIsSettled'
  <2>1. /\ stage = "commit" /\ stage' = "none" /\ UNCHANGED timeline /\ batch' \in {batch, Ch!NoBatch}
        /\ mem'.cursor = Ch!Target /\ core'.cursor \in {core.cursor, Ch!Target}
        /\ mem'.handled \subseteq mem.handled
    BY <1>21 DEF Ch!Commit, Ch!Unchanged, ChatTypes
  <2>2. Ch!Target = Reached
    <3>1. CASE batch.items = <<>>
      BY <2>1, <3>1 DEF Ch!Target, Reached, ChatTypes
    <3>2. CASE batch.items # <<>>
      <4>1. Ch!Item = batch.to - Len(batch.items) + 1 /\ batch.to \in Nat /\ Len(batch.items) \in Nat
        BY <3>2, HeadIs DEF ChatTypes
      <4>2. ~Matrix
        BY <2>1, <3>2 DEF BatchInOrder
      <4> HIDE DEF Ch!Item
      <4> QED BY <3>2, <4>1, <4>2 DEF Ch!Target, Reached
    <3> QED BY <3>1, <3>2
  <2>3. Reached' \in {0, Reached}
    <3>1. CASE batch' = batch
      BY <2>1, <3>1 DEF Reached
    <3>2. CASE batch' = Ch!NoBatch
      BY <2>1, <3>2 DEF Reached, Ch!NoBatch
    <3> QED BY <2>1, <3>1, <3>2
  <2>4. \A i \in DOMAIN timeline : i \in Nat \ {0}
    BY DEF ChatTypes
  <2> HIDE DEF Reached, Ch!Target
  <2>5. \A i \in DOMAIN timeline : Passed(i)' => Passed(i)
    BY <2>1, <2>2, <2>3, <2>4 DEF Passed
  <2> HIDE DEF Passed
  <2> QED BY <1>2, <2>1, <2>5
<1>22. CASE UNCHANGED Ch!vars
  BY <1>5, <1>22 DEF Ch!vars
<1> QED BY <1>1, <1>4, <1>6, <1>7, <1>8, <1>9, <1>11, <1>12, <1>14, <1>15, <1>16, <1>17, <1>19,
           <1>20, <1>21, <1>22 DEF Ch!Next

\* The choice handled is the first for its question, or an earlier answer was excused.
LEMMA FirstHere ==
  ASSUME Ch!ChatAssumption, ChatTypes, BatchInOrder, OneHolder, PassedIsSettled,
         stage \in {"loaded", "emitted"}, Ch!Answers
  PROVE  /\ Ch!It.q \in Questions /\ Ch!It.c \in Options /\ Ch!It.c # 0
         /\ (\E i \in excused : timeline[i].q = Ch!It.q) \/ FirstAnswer(Ch!It.q, Ch!It.c)
<1>1. batch.items # <<>> /\ Ch!It.c # 0 /\ Ch!It.q \in Ch!ToSet(core.pending)
  BY DEF BatchInOrder, OneHolder, Ch!Answers
<1>2. /\ Ch!Item \in DOMAIN timeline /\ Ch!Item \in Nat \ {0} /\ Ch!It \in Ch!Items /\ timeline[Ch!Item] = Ch!It
      /\ Ch!Item = batch.to - Len(batch.items) + 1
  BY <1>1, HeadIs DEF Ch!It
<1>3. Ch!It.q \in Questions /\ Ch!It.c \in Options
  BY <1>1, <1>2, ItemsAre
<1>4. Reached = Ch!Item - 1
  BY <1>1, <1>2 DEF Reached, ChatTypes
<1> HIDE DEF Ch!It, Ch!Item
<1>5. ASSUME NEW i \in 1 .. Ch!Item - 1, timeline[i].q = Ch!It.q, timeline[i].c # 0
      PROVE  i \in excused
  <2>1. i \in DOMAIN timeline /\ i <= Reached
    BY <1>2, <1>4 DEF ChatTypes
  <2>2. i \in excused \/ Settled(i)
    BY <2>1 DEF PassedIsSettled, Passed
  <2> QED BY <1>1, <1>5, <2>2 DEF Settled, Gone
<1>6. CASE \E i \in 1 .. Ch!Item - 1 : timeline[i].q = Ch!It.q /\ timeline[i].c # 0
  BY <1>1, <1>3, <1>5, <1>6
<1>7. CASE \A i \in 1 .. Ch!Item - 1 : timeline[i].q = Ch!It.q => timeline[i].c = 0
  BY <1>1, <1>2, <1>3, <1>7 DEF FirstAnswer
<1> QED BY <1>6, <1>7

LEMMA FirstStep ==
  ASSUME Ch!ChatAssumption, ChatTypes, BatchInOrder, OneHolder, PendingIsOpen, PassedIsSettled,
         FirstCounts, [Ch!Next]_(Ch!vars)
  PROVE  FirstCounts'
<1>1. ASSUME NEW q, NEW c, FirstAnswer(q, c) PROVE FirstAnswer(q, c)'
  <2>1. PICK j \in DOMAIN timeline :
          /\ timeline[j].q = q /\ timeline[j].c = c
          /\ \A i \in 1 .. j - 1 : timeline[i].q = q => timeline[i].c = 0
    BY <1>1 DEF FirstAnswer
  <2>2. j \in DOMAIN timeline' /\ timeline'[j] = timeline[j]
    BY Stays
  <2>3. \A i \in 1 .. j - 1 : i \in DOMAIN timeline /\ timeline'[i] = timeline[i]
    <3>1. \A i \in 1 .. j - 1 : i \in DOMAIN timeline
      BY DEF ChatTypes
    <3> QED BY <3>1, Stays
  <2> QED BY <2>1, <2>2, <2>3 DEF FirstAnswer
<1>2. ASSUME NEW q, \E i \in excused : timeline[i].q = q
      PROVE  \E i \in excused' : timeline'[i].q = q
  BY <1>2, Stays DEF ChatTypes
<1>3. ASSUME UNCHANGED <<events, told>> PROVE FirstCounts'
  <2> HIDE DEF FirstAnswer
  <2> QED BY <1>1, <1>2, <1>3 DEF FirstCounts
<1>4. ASSUME UNCHANGED told, events'.reply = events.reply PROVE FirstCounts'
  <2> HIDE DEF FirstAnswer
  <2> QED BY <1>1, <1>2, <1>4 DEF FirstCounts
<1>5. CASE Ch!EmitReply
  <2>1. PICK a \in Questions, c \in Options : a = Ch!It.q /\ c = Ch!It.c
    BY <1>5, FirstHere DEF Ch!EmitReply
  <2>2. /\ \A q \in Questions : q # a => events'.reply[q] = events.reply[q]
        /\ events'.reply[a] = IF events.reply[a] = 0 THEN c ELSE events.reply[a]
        /\ UNCHANGED told
    BY <1>5, <2>1 DEF Ch!EmitReply, ChatTypes
  <2>3. (\E i \in excused : timeline[i].q = a) \/ FirstAnswer(a, c)
    BY <1>5, <2>1, FirstHere DEF Ch!EmitReply
  <2> HIDE DEF FirstAnswer
  <2>4. c # 0
    BY <2>1 DEF Ch!ChatAssumption
  <2> QED BY <1>1, <1>2, <2>2, <2>3, <2>4 DEF FirstCounts
<1>6. ASSUME NEW b \in BOOLEAN, Ch!Forget(b) PROVE FirstCounts'
  <2>1. stage = "emitted" /\ Ch!Answers /\ events.reply[Ch!It.q] # 0
    BY <1>6 DEF Ch!Forget, OneHolder
  <2>2. PICK a \in Questions, c \in Options : a = Ch!It.q /\ c = Ch!It.c
    BY <2>1, FirstHere
  <2>3. /\ \A q \in Questions : q # a => told'[q] = told[q]
        /\ told'[a] \in {c, told[a]} /\ UNCHANGED events
    BY <1>6, <2>2 DEF Ch!Forget, ChatTypes
  <2>4. (\E i \in excused : timeline[i].q = a) \/ FirstAnswer(a, c)
    BY <2>1, <2>2, FirstHere
  <2>5. events.reply[a] # 0
    BY <2>1, <2>2
  <2> HIDE DEF FirstAnswer
  <2> QED BY <1>1, <1>2, <2>3, <2>4, <2>5 DEF FirstCounts
<1>7. ASSUME Ch!Message(Ch!Item) PROVE events'.reply = events.reply
  BY <1>7 DEF Ch!Message, ChatTypes
<1>8. CASE Ch!HandleText \/ Ch!HandleNoAnswer
  BY <1>4, <1>7, <1>8 DEF Ch!HandleText, Ch!HandleNoAnswer
<1>9. CASE ~(Ch!HandleText \/ Ch!HandleNoAnswer \/ Ch!EmitReply \/ \E b \in BOOLEAN : Ch!Forget(b))
  <2>1. UNCHANGED <<events, told>>
    BY <1>9 DEF Ch!Next, Ch!vars, Ch!Write, Ch!AskPosts, Ch!AskLoads, Ch!AskSaves, Ch!AskFails,
       Ch!LoadCursor, Ch!Fetch,
                Ch!Skip, Ch!Load, Ch!Crash, Ch!FirstCursor, Ch!FillFails, Ch!TokenRejected,
                Ch!HandleFails, Ch!Commit,
                Ch!FillGivesUp, Ch!Unchanged
  <2> QED BY <1>3, <2>1
<1> QED BY <1>5, <1>6, <1>8, <1>9

LEMMA ChatStep == ASSUME Ch!ChatAssumption, ChatInv, [Ch!Next]_(Ch!vars) PROVE ChatInv'
<1>1. /\ ChatTypes /\ BatchInOrder /\ OneHolder /\ PendingIsOpen /\ PassedIsSettled
      /\ FirstCounts
  BY DEF ChatInv
<1>2. ChatTypes'
  BY <1>1, TypesStep
<1>3. BatchInOrder'
  BY <1>1, BatchStep
<1>4. OneHolder'
  BY <1>1, HolderStep
<1>5. PendingIsOpen'
  BY <1>1, PendingStep
<1>6. PassedIsSettled'
  BY <1>1, PassedStep
<1>7. FirstCounts'
  BY <1>1, FirstStep
<1> QED BY <1>2, <1>3, <1>4, <1>5, <1>6, <1>7 DEF ChatInv

LEMMA ChatSafe ==
  ASSUME Ch!ChatAssumption, ChatInv
  PROVE  Ch!TypeOK /\ Ch!CursorPassesHandled /\ Ch!QuestionsKept /\ Ch!ConfirmedIsReply
<1>1. /\ ChatTypes /\ BatchInOrder /\ OneHolder /\ PendingIsOpen /\ PassedIsSettled
      /\ FirstCounts
  BY DEF ChatInv
<1>2. Ch!TypeOK
  <2>1. \A i \in DOMAIN timeline : i \in 1 .. MaxItems
    BY <1>1 DEF ChatTypes, BatchInOrder, Ch!ChatAssumption
  <2> QED BY <1>1, <2>1 DEF ChatTypes, PendingIsOpen, Ch!TypeOK
<1>3. Ch!CursorPassesHandled
  <2> SUFFICES ASSUME NEW i \in 1 .. Ch!After
               PROVE  \/ i \in excused \/ i \in events.messages
                      \/ timeline[i].q # 0 /\ events.reply[timeline[i].q] # 0
    BY DEF Ch!CursorPassesHandled
  <2>1. i \in DOMAIN timeline /\ i <= mem.cursor
    BY <1>1, AfterIs DEF ChatTypes
  <2> QED BY <1>1, <2>1 DEF PassedIsSettled, Passed, Settled
<1>4. Ch!QuestionsKept
  BY <1>1 DEF Ch!QuestionsKept, PendingIsOpen, Gone
<1>5. Ch!ConfirmedIsReply
  <2> SUFFICES ASSUME NEW q \in Questions, told[q] # 0, told[q] # events.reply[q],
                      ~ \E i \in excused : timeline[i].q = q
               PROVE  FALSE
    BY DEF Ch!ConfirmedIsReply
  <2>1. /\ events.reply[q] # 0 /\ FirstAnswer(q, events.reply[q]) /\ FirstAnswer(q, told[q])
    BY <1>1 DEF FirstCounts
  <2>2. PICK j \in DOMAIN timeline :
          /\ timeline[j].q = q /\ timeline[j].c = told[q]
          /\ \A i \in 1 .. j - 1 : timeline[i].q = q => timeline[i].c = 0
    BY <2>1 DEF FirstAnswer
  <2>3. PICK k \in DOMAIN timeline :
          /\ timeline[k].q = q /\ timeline[k].c = events.reply[q]
          /\ \A i \in 1 .. k - 1 : timeline[i].q = q => timeline[i].c = 0
    BY <2>1 DEF FirstAnswer
  <2>4. j \in Nat \ {0} /\ k \in Nat \ {0}
    BY <1>1 DEF ChatTypes
  <2>5. ~(j < k) /\ ~(k < j)
    BY <2>1, <2>2, <2>3, <2>4
  <2>6. j = k
    BY <2>4, <2>5
  <2> QED BY <2>2, <2>3, <2>6
<1> QED BY <1>2, <1>3, <1>4, <1>5

\* What the cursor, the batch in hand and the copies of a question agree on.
THEOREM ChatInvariant == ASSUME Ch!ChatAssumption PROVE Ch!Spec => []ChatInv
<1>1. Ch!Init => ChatInv
  BY TypesAtFirst
<1>2. ChatInv /\ [Ch!Next]_(Ch!vars) => ChatInv'
  BY ChatStep
<1> QED BY <1>1, <1>2, PTL DEF Ch!Spec

\* The types of the chat connector (telegram/src/server.ts, matrix/src/server.ts).
THEOREM ChatTypeOK == ASSUME Ch!ChatAssumption PROVE Ch!Spec => []Ch!TypeOK
<1>1. ChatInv => Ch!TypeOK
  BY ChatSafe
<1> QED BY <1>1, ChatInvariant, PTL

\* The cursor kept for a restart passes only what was handled: emitted, answered or refused.
THEOREM ChatCursorPassesHandled == ASSUME Ch!ChatAssumption PROVE Ch!Spec => []Ch!CursorPassesHandled
<1>1. ChatInv => Ch!CursorPassesHandled
  BY ChatSafe
<1> QED BY <1>1, ChatInvariant, PTL

\* A question that is posted and unanswered stays pending in the state the connector keeps.
THEOREM ChatQuestionsKept == ASSUME Ch!ChatAssumption PROVE Ch!Spec => []Ch!QuestionsKept
<1>1. ChatInv => Ch!QuestionsKept
  BY ChatSafe
<1> QED BY <1>1, ChatInvariant, PTL

\* The chat is told the answer the core took, and the first answer counts.
THEOREM ChatConfirmedIsReply == ASSUME Ch!ChatAssumption PROVE Ch!Spec => []Ch!ConfirmedIsReply
<1>1. ChatInv => Ch!ConfirmedIsReply
  BY ChatSafe
<1> QED BY <1>1, ChatInvariant, PTL
=============================================================================
