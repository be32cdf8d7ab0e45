-------------------------------- MODULE Chat --------------------------------
(***************************************************************************)
(* The chat connector (src/connectors/chat): the loop that turns messages  *)
(* and answers into chat.message and chat.reply events, beside the `ask`   *)
(* op that posts questions, on the Telegram backend (bot.ts) or the Matrix *)
(* one (matrix-bot.ts).  What must survive a restart lives in the core's   *)
(* state: the cursor and the open questions.  The core may be unreachable, *)
(* refuse a call or fail, and the process may die, between any two calls.  *)
(*                                                                         *)
(* The chat is a sequence of items by others: plain texts, and taps and    *)
(* text replies on a question, which name an option or, like those of a    *)
(* user who may not answer, none.                                          *)
(***************************************************************************)
EXTENDS Naturals, Sequences, SequencesExt

CONSTANTS
  Matrix,        \* which backend: the cursor is a sync token of a batch, or an update's id
  SkipHistory,   \* initial: none
  Questions, Options,
  PendingLimit,  \* pending_limit
  Tries,         \* MAX_EVENT_ATTEMPTS, MAX_UPDATE_ATTEMPTS
  MaxItems       \* bound

ChatAssumption ==
  /\ Matrix \in BOOLEAN /\ SkipHistory \in BOOLEAN /\ 0 \notin Options /\ 0 \notin Questions
  /\ PendingLimit \in Nat \ {0} /\ Tries \in Nat \ {0} /\ MaxItems \in Nat

VARIABLES
  timeline,  \* the items: kind, question, choice (0: none)
  core,      \* the state kept by the core: cursor (-1: none) and pending, oldest first
  events,    \* the core's log: the items with a chat.message, the choice of each chat.reply
  mem,       \* cursor, whether it is loaded, handled, and the attempts at an item or a gap
  batch,     \* items still to handle, and the cursor they lead to
  stage,     \* the loop's item: "none", "loaded", "emitted", "commit"
  asks,      \* a question: "none", "posted", "loaded", "open", "evicted", "failed"
  copy,      \* the questions read under the lock, by its holder
  told,      \* the choice confirmed in the chat, 0: none
  excused    \* items given up, skipped, or that came before their question was remembered

vars == <<timeline, core, events, mem, batch, stage, asks, copy, told, excused>>

NoCursor == 0 - 1
NoBatch == [items |-> <<>>, to |-> 0]
NewMem == [cursor |-> NoCursor, loaded |-> FALSE, handled |-> {}, item |-> 0, tries |-> 0,
           gap |-> 0]
Items == [kind : {"text"}, q : {0}, c : {0}]
           \cup [kind : {"tap", "reply"}, q : Questions, c : Options \cup {0}]

TypeOK ==
  /\ timeline \in Seq(Items) /\ Len(core.pending) <= PendingLimit
  /\ stage \in {"none", "loaded", "emitted", "commit"} /\ mem.tries < Tries /\ mem.gap < Tries
  /\ asks \in [Questions -> {"none", "posted", "loaded", "open", "evicted", "failed"}]
  /\ told \in [Questions -> Options \cup {0}] /\ excused \subseteq 1 .. MaxItems

Init ==
  /\ timeline = <<>> /\ core = [cursor |-> NoCursor, pending |-> <<>>]
  /\ events = [messages |-> {}, reply |-> [q \in Questions |-> 0]]
  /\ mem = NewMem /\ batch = NoBatch /\ stage = "none"
  /\ asks = [q \in Questions |-> "none"] /\ copy = [h \in Questions \cup {0} |-> <<>>]
  /\ told = [q \in Questions |-> 0] /\ excused = {}

\* Mutant: ask and the loop do not wait for each other.
FreeAlways == TRUE

\* withPending(): one caller at a time from its load to its save.
Free == stage \notin {"loaded", "emitted"} /\ \A q \in Questions : asks[q] # "loaded"

Released(h) == copy' = [copy EXCEPT ![h] = <<>>]

\* savePendingState(): the newest are kept.
Newest(p) == IF Len(p) > PendingLimit THEN SubSeq(p, Len(p) - PendingLimit + 1, Len(p)) ELSE p

-----------------------------------------------------------------------------
\* Users write in the chat; an answer needs its question to be there.

Write(item) ==
  /\ Len(timeline) < MaxItems /\ item.q \in {0} \cup {q \in Questions : asks[q] # "none"}
  /\ timeline' = Append(timeline, item)
  /\ UNCHANGED <<core, events, mem, batch, stage, asks, copy, told, excused>>

\* ask(): the question is posted, and then remembered.
AskPosts(q) ==
  /\ asks[q] = "none" /\ asks' = [asks EXCEPT ![q] = "posted"]
  /\ UNCHANGED <<timeline, core, events, mem, batch, stage, copy, told, excused>>

AskLoads(q) ==
  /\ asks[q] = "posted" /\ Free
  /\ asks' = [asks EXCEPT ![q] = "loaded"] /\ copy' = [copy EXCEPT ![q] = core.pending]
  /\ UNCHANGED <<timeline, core, events, mem, batch, stage, told, excused>>

AskSaves(q) ==
  /\ asks[q] = "loaded"
  /\ core' = [core EXCEPT !.pending = Newest(Append(copy[q], q))]
  /\ asks' = [p \in Questions |->
       IF p = q THEN "open"
       ELSE IF asks[p] = "open" /\ p \in ToSet(copy[q]) \ ToSet(core'.pending) THEN "evicted"
       ELSE asks[p]]
  /\ Released(q)
  /\ UNCHANGED <<timeline, events, mem, batch, stage, told, excused>>

AskFails(q) ==
  /\ asks[q] \in {"posted", "loaded"} /\ asks' = [asks EXCEPT ![q] = "failed"]
  /\ Released(q)
  /\ UNCHANGED <<timeline, core, events, mem, batch, stage, told, excused>>

-----------------------------------------------------------------------------
\* The loop: load the cursor, fetch what is new, handle it item by item.

Between == batch = NoBatch /\ stage = "none"
Unchanged == UNCHANGED <<timeline, events, asks, copy, told>>

\* loadOffset(), loadSince().  Without a cursor what was said so far is skipped; on
\* Telegram there is no cursor to take while nothing was.
LoadCursor ==
  /\ Between /\ ~mem.loaded /\ (core.cursor # NoCursor \/ ~SkipHistory)
  /\ mem' = [mem EXCEPT !.cursor = core.cursor, !.loaded = TRUE]
  /\ UNCHANGED <<core, batch, stage, excused>> /\ Unchanged
FirstCursor(saved) ==
  /\ Between /\ ~mem.loaded /\ core.cursor = NoCursor /\ SkipHistory
  /\ LET now == IF ~Matrix /\ timeline = <<>> THEN NoCursor ELSE Len(timeline)
     IN /\ mem' = [mem EXCEPT !.cursor = now, !.loaded = saved \/ now = NoCursor]
        /\ core' = [core EXCEPT !.cursor = IF saved THEN now ELSE @]
  /\ excused' = excused \cup DOMAIN timeline
  /\ UNCHANGED <<batch, stage>> /\ Unchanged

After == IF mem.cursor = NoCursor THEN 0 ELSE mem.cursor

\* getUpdates, /sync, with all of a limited timeline's gap.
Fetch ==
  /\ Between /\ mem.loaded /\ After < Len(timeline)
  /\ batch' = [items |-> [i \in 1 .. Len(timeline) - After |-> After + i], to |-> Len(timeline)]
  /\ UNCHANGED <<core, mem, stage, excused>> /\ Unchanged

\* fillGap() that fails: another round fetches it again, a few times; a rate limit does
\* not count.
FillFails(rated) ==
  /\ Matrix /\ Between /\ mem.loaded /\ mem.cursor # NoCursor /\ After < Len(timeline)
  /\ ~rated => mem.gap + 1 < Tries
  /\ mem' = [mem EXCEPT !.gap = IF rated THEN @ ELSE @ + 1]
  /\ UNCHANGED <<core, batch, stage, excused>> /\ Unchanged

\* ... and then, or when the server will not page back, the newest part has to do.
FillGivesUp(from) ==
  /\ Matrix /\ Between /\ mem.loaded /\ mem.cursor # NoCursor
  /\ After < from /\ from <= Len(timeline)
  /\ batch' = [items |-> [i \in 1 .. Len(timeline) - from |-> from + i], to |-> Len(timeline)]
  /\ excused' = excused \cup (After + 1 .. from)
  /\ stage' = IF from = Len(timeline) THEN "commit" ELSE "none"
  /\ UNCHANGED <<core, mem>> /\ Unchanged

\* tokenRejected(): back to a first start.
TokenRejected(saved) ==
  /\ Matrix /\ Between /\ mem.loaded /\ mem.cursor # NoCursor
  /\ mem' = [mem EXCEPT !.cursor = NoCursor, !.loaded = FALSE, !.gap = 0]
  /\ core' = [core EXCEPT !.cursor = IF saved THEN NoCursor ELSE @]
  /\ UNCHANGED <<batch, stage, excused>> /\ Unchanged

Item == Head(batch.items)
It == timeline[Item]
Handling == batch.items # <<>> /\ stage = "none"

\* The item is done: Telegram moves the offset now, Matrix the token after the batch.
Next1(i) == [items |-> Tail(batch.items), to |-> batch.to]
Done(i) ==
  /\ batch' = Next1(i)
  /\ mem' = [mem EXCEPT !.item = 0, !.tries = 0,
                        !.handled = IF Matrix THEN @ \cup {i} ELSE @]
  /\ stage' = IF ~Matrix \/ Len(batch.items) = 1 THEN "commit" ELSE "none"

\* Mutant: the rest of the batch goes on.
AgainLater == [items |-> Tail(batch.items), to |-> batch.to]

\* The item fails: the batch is fetched again, unless this item failed too often.  While
\* the core is unreachable no attempt counts.
Again == NoBatch
TriesOf(i) == IF mem.item = i THEN mem.tries + 1 ELSE 1
Fails(i, unreachable) ==
  IF unreachable \/ TriesOf(i) < Tries
  THEN /\ batch' = Again /\ stage' = "none"
       /\ mem' = IF unreachable THEN mem ELSE [mem EXCEPT !.item = i, !.tries = TriesOf(i)]
       /\ UNCHANGED excused
  ELSE Done(i) /\ excused' = excused \cup {i}

Skip ==
  /\ Handling /\ Item \in mem.handled
  /\ batch' = Next1(Item) /\ stage' = IF Len(batch.items) = 1 THEN "commit" ELSE "none"
  /\ UNCHANGED <<core, mem, excused>> /\ Unchanged

\* A plain text, or what is no answer: chat.message.  A repeated one is deduplicated.
Message(i) == events' = [events EXCEPT !.messages = @ \cup {i}]
HandleText ==
  /\ Handling /\ Item \notin mem.handled /\ It.kind = "text"
  /\ Message(Item) /\ Done(Item)
  /\ UNCHANGED <<timeline, core, asks, copy, told, excused>>
Load ==
  /\ Handling /\ Item \notin mem.handled /\ It.kind # "text" /\ Free
  /\ stage' = "loaded" /\ copy' = [copy EXCEPT ![0] = core.pending]
  /\ UNCHANGED <<timeline, core, events, mem, batch, asks, told, excused>>

\* Mutant: an answered question can be answered again.
AnswersTwice == It.c # 0 /\ asks[It.q] = "open"

Answers == It.c # 0 /\ It.q \in ToSet(copy[0])
HandleNoAnswer ==
  /\ stage = "loaded" /\ ~Answers
  /\ IF It.kind = "reply" THEN Message(Item) ELSE UNCHANGED events
  /\ excused' = IF It.kind = "tap" \/ It.c # 0 THEN excused \cup {Item} ELSE excused
  /\ Done(Item) /\ Released(0)
  /\ UNCHANGED <<timeline, core, asks, told>>

\* answer(): chat.reply, deduplicated by the question; then the question is forgotten.
EmitReply ==
  /\ stage = "loaded" /\ Answers /\ stage' = "emitted"
  /\ events' = [events EXCEPT !.reply[It.q] = IF @ = 0 THEN It.c ELSE @]
  /\ UNCHANGED <<timeline, core, mem, batch, asks, copy, told, excused>>
\* Mutant: the question stays open.
ForgottenLater == copy[0]

\* What the filter leaves: a question is pending once.
Forgotten == RemoveFirst(copy[0], It.q)

Forget(confirmed) ==
  /\ stage = "emitted"
  /\ core' = [core EXCEPT !.pending = Forgotten]
  /\ told' = [told EXCEPT ![It.q] = IF confirmed THEN It.c ELSE @]
  /\ Done(Item) /\ Released(0)
  /\ UNCHANGED <<timeline, events, asks, excused>>

HandleFails(unreachable) ==
  /\ (Handling /\ Item \notin mem.handled) \/ stage \in {"loaded", "emitted"}
  /\ Fails(Item, unreachable) /\ Released(0)
  /\ UNCHANGED <<timeline, core, events, asks, told>>

\* setOffset(), setSince(): the loop's own cursor moves even if the core's does not.
Target == IF Matrix \/ batch.items = <<>> THEN batch.to ELSE Item - 1
Commit(saved) ==
  /\ stage = "commit"
  /\ mem' = [mem EXCEPT !.cursor = Target,
                        !.handled = IF saved THEN {} ELSE @, !.gap = 0]
  /\ core' = [core EXCEPT !.cursor = IF saved THEN Target ELSE @]
  /\ batch' = IF saved /\ batch.items # <<>> THEN batch ELSE NoBatch
  /\ stage' = "none"
  /\ UNCHANGED excused /\ Unchanged

\* The process dies and is started again.
Crash ==
  /\ mem' = NewMem /\ batch' = NoBatch /\ stage' = "none"
  /\ asks' = [q \in Questions |-> IF asks[q] \in {"posted", "loaded"} THEN "failed" ELSE asks[q]]
  /\ copy' = [h \in DOMAIN copy |-> <<>>]
  /\ UNCHANGED <<timeline, core, events, told, excused>>

Next ==
  \/ \E item \in Items : Write(item)
  \/ \E q \in Questions : AskPosts(q) \/ AskLoads(q) \/ AskSaves(q) \/ AskFails(q)
  \/ LoadCursor \/ Fetch \/ Skip \/ HandleText \/ Load \/ HandleNoAnswer \/ EmitReply \/ Crash
  \/ \E b \in BOOLEAN : FirstCursor(b) \/ FillFails(b) \/ TokenRejected(b) \/ Forget(b)
                        \/ HandleFails(b) \/ Commit(b)
  \/ \E from \in DOMAIN timeline : FillGivesUp(from)

Spec == Init /\ [][Next]_vars

-----------------------------------------------------------------------------

\* The cursor passes nothing that was not handled: each item below it became an event, or
\* answered a question that has its reply, through crashes, failed calls and batches fetched
\* again.  Given up or skipped are a poisonous item, a gap and history (bot.ts, 167-171).
CursorPassesHandled ==
  \A i \in 1 .. After :
    \/ i \in excused \/ i \in events.messages
    \/ timeline[i].q # 0 /\ events.reply[timeline[i].q] # 0

\* However `ask` and the loop interleave, the questions in the core's state are the newest
\* of those asked and not answered (bot.ts, 86, 406 and 429): none is lost to a save of
\* the other, none comes back.
QuestionsKept ==
  \A q \in Questions :
    /\ asks[q] = "open" /\ events.reply[q] = 0 => q \in ToSet(core.pending)
    /\ told[q] # 0 => q \notin ToSet(core.pending)

\* What is confirmed in the chat is the choice the reply carries, unless the loop gave up on
\* another answer or a gap, and handled them in another order.
ConfirmedIsReply ==
  \A q \in Questions :
    told[q] # 0 /\ told[q] # events.reply[q] =>
      \E i \in excused : timeline[i].q = q
=============================================================================
