-------------------------------- MODULE Mail --------------------------------
(***************************************************************************)
(* fetch_new of the email connector over IMAP (email/src/imap.ts) and POP3 *)
(* (email/src/pop3.ts), called by the runs of one task that do not         *)
(* overlap.  The task keeps the op's last_uid with its state_updates, so   *)
(* the cursor moves only when the run succeeds, while the connector's own  *)
(* state (UIDVALIDITY, the UIDLs seen, the batch pending) moves with every *)
(* call.  A connection, a write of that state or the run may fail anywhere.*)
(***************************************************************************)
EXTENDS Integers, FiniteSets, FiniteSetsExt

CONSTANTS
  Kinds,     \* [pop, all, deletes]: the protocol, `initial: all`, delete_after_fetch
  MaxMails,  \* bound: mails that arrive, in order
  MaxSeen,   \* MAX_SEEN
  Limit,     \* mails of one batch
  FailsAfterReset  \* whether the run that stored a new UIDVALIDITY may fail after the call

MailAssumption ==
  /\ Kinds \subseteq [pop : BOOLEAN, all : BOOLEAN, deletes : BOOLEAN]
  /\ MaxMails \in Nat /\ MaxSeen \in Nat \ {0} /\ Limit \in Nat \ {0}
  /\ FailsAfterReset \in BOOLEAN

VARIABLES
  kind,     \* the connector's configuration
  server,   \* the mailbox: what it holds, UIDs, the next UID, UIDVALIDITY, mails arrived
  state,    \* the connector's state in the core: UIDVALIDITY or 0, UIDLs, the batch pending
  cursor,   \* the task's cursor, a UID or a UIDL, or None
  run,      \* the run that calls fetch_new
  counted,  \* successful runs that got each mail, up to 2
  waived,   \* mails no run need get: there at a start with `initial: none`, without a body,
            \* or removed by another client
  evicted   \* whether more UIDLs were seen than MAX_SEEN

vars == <<kind, server, state, cursor, run, counted, waived, evicted>>

Mails == 1 .. MaxMails
None == -1
Arrived == 1 .. server.arrived

\* The Limit first of some mails: they are numbered in the order of a mailbox.
FirstOf(ms) == {m \in ms : Cardinality({n \in ms : n <= m}) <= Limit}

Idle == [at |-> "idle", since |-> 0, reset |-> FALSE, listed |-> {}, done |-> {},
         batch |-> {}, got |-> {}, skip |-> {}]
InSession == run.at \in {"open", "listed"}

TypeOK ==
  /\ kind \in Kinds
  /\ server.box \subseteq Arrived /\ server.arrived \in 0 .. MaxMails
  /\ server.uid \in [Mails -> 0 .. MaxMails] /\ server.next \in 1 .. MaxMails + 1
  /\ server.era \in {1, 2}
  /\ state.era \in {0, 1, 2} /\ state.known \in BOOLEAN
  /\ state.seen \subseteq Mails /\ Cardinality(state.seen) <= MaxSeen
  /\ state.pending \subseteq Mails
  /\ cursor \in {None} \union 0 .. MaxMails
  /\ run.at \in {"idle", "asked", "open", "listed", "read", "saving", "returned"}
  /\ counted \in [Mails -> 0 .. 2] /\ waived \subseteq Mails /\ evicted \in BOOLEAN

Init ==
  /\ kind \in Kinds
  /\ server = [box |-> {}, uid |-> [m \in Mails |-> 0], next |-> 1, era |-> 1, arrived |-> 0]
  /\ state = [era |-> 0, known |-> FALSE, seen |-> {}, pending |-> {}]
  /\ cursor = None /\ run = Idle
  /\ counted = [m \in Mails |-> 0] /\ waived = {} /\ evicted = FALSE

-----------------------------------------------------------------------------
\* The mailbox and its other clients.

Arrive ==
  LET m == server.arrived + 1 IN
  /\ m <= MaxMails
  /\ server' = [server EXCEPT !.box = @ \union {m}, !.uid[m] = server.next,
                              !.next = @ + 1, !.arrived = m]
  /\ UNCHANGED <<kind, state, cursor, run, counted, waived, evicted>>

\* Another client removes a mail; a POP3 session locks the mailbox.
Removed ==
  \E m \in server.box :
    /\ ~(kind.pop /\ InSession)
    /\ server' = [server EXCEPT !.box = @ \ {m}]
    /\ waived' = waived \union {m}
    /\ UNCHANGED <<kind, state, cursor, run, counted, evicted>>

\* The server numbers its mails anew under another UIDVALIDITY, at most once.
Renumber ==
  /\ ~kind.pop /\ run.at = "idle" /\ server.era = 1
  /\ LET rank(m) == Cardinality({n \in server.box : n <= m}) IN
     server' = [server EXCEPT
       !.uid = [m \in Mails |-> IF m \in server.box THEN rank(m) ELSE 0],
       !.next = Cardinality(server.box) + 1, !.era = 2]
  /\ UNCHANGED <<kind, state, cursor, run, counted, waived, evicted>>

-----------------------------------------------------------------------------
\* A run of the task.

\* Mutant: whatever was pending is handled once any cursor comes back.
HandledByAny == state.pending

\* POP3: the batch before is handled when its last UIDL comes back.
Handled ==
  IF state.pending # {} /\ Max(state.pending) = cursor THEN state.pending ELSE {}

\* The connector reads its state, for POP3 before it connects.
Ask ==
  /\ run.at = "idle"
  /\ run' = [run EXCEPT !.at = "asked", !.done = IF kind.pop THEN Handled ELSE {}]
  /\ UNCHANGED <<kind, server, state, cursor, counted, waived, evicted>>

\* IMAP: the cursor of another UIDVALIDITY is dropped.
Reset == state.era # 0 /\ state.era # server.era

\* IMAP: the mailbox is opened and the cursor resolved; without one, `initial` decides.
Open ==
  /\ run.at = "asked" /\ ~kind.pop
  /\ LET fresh == Reset \/ cursor = None
         since == IF ~fresh THEN cursor ELSE IF kind.all THEN 0 ELSE server.next - 1 IN
     run' = [run EXCEPT !.at = "open", !.since = since, !.reset = Reset,
                        !.skip = IF fresh THEN {m \in server.box : server.uid[m] <= since}
                                 ELSE {}]
  /\ UNCHANGED <<kind, server, state, cursor, counted, waived, evicted>>

\* IMAP: the first UIDs above the cursor; what comes back without a body is skipped.
Search ==
  /\ run.at = "open"
  /\ LET batch == FirstOf({m \in server.box : server.uid[m] > run.since}) IN
     \E bodiless \in SUBSET batch :
       run' = [run EXCEPT !.at = "read", !.batch = batch, !.got = batch \ bodiless,
                          !.skip = @ \union bodiless]
  /\ UNCHANGED <<kind, server, state, cursor, counted, waived, evicted>>

\* IMAP: the UIDVALIDITY is stored when the mails are there, and the op returns.
SaveValidity ==
  /\ run.at = "read" /\ ~kind.pop
  /\ state' = [state EXCEPT !.era = server.era]
  /\ run' = [run EXCEPT !.at = "returned"]
  /\ UNCHANGED <<kind, server, cursor, counted, waived, evicted>>

\* POP3: login and UIDL.
List ==
  /\ run.at = "asked" /\ kind.pop
  /\ run' = [run EXCEPT !.at = "listed", !.listed = server.box]
  /\ UNCHANGED <<kind, server, state, cursor, counted, waived, evicted>>

SkipsAll == ~state.known /\ ~kind.all

\* POP3: DELE of the mails handled, RETR of the batch and QUIT, which commits the deletions;
\* its reply may be lost.
Retrieve ==
  /\ run.at = "listed"
  /\ LET fresh == IF SkipsAll THEN {} ELSE FirstOf(run.listed \ (state.seen \union run.done))
         gone == IF kind.deletes /\ ~SkipsAll THEN run.done ELSE {} IN
     /\ server' = [server EXCEPT !.box = @ \ gone]
     /\ \/ run' = [run EXCEPT !.at = "read", !.listed = @ \ gone, !.batch = fresh,
                              !.got = fresh, !.skip = IF SkipsAll THEN run.listed ELSE {}]
        \/ run' = Idle
  /\ UNCHANGED <<kind, state, cursor, counted, waived, evicted>>

\* Mutant: the batch just handled is not among the UIDLs remembered.
SeenWithoutBatch == state.seen \intersect run.listed

\* POP3: handled and still on the server.
Seen == (IF SkipsAll THEN run.listed ELSE state.seen \union run.done) \intersect run.listed

\* At most MAX_SEEN of them are kept; the code keeps the last ones it handled, and no property
\* depends on which.
Kept ==
  IF Cardinality(Seen) <= MaxSeen THEN {Seen}
  ELSE {kept \in SUBSET Seen : Cardinality(kept) = MaxSeen}

\* saveSeen: the UIDLs seen, then the batch just read.
SaveSeen ==
  /\ run.at = "read" /\ kind.pop
  /\ \E kept \in Kept : state' = [state EXCEPT !.known = TRUE, !.seen = kept]
  /\ evicted' = (evicted \/ Seen \notin Kept)
  /\ waived' = waived \union run.skip
  /\ run' = [run EXCEPT !.at = "saving"]
  /\ UNCHANGED <<kind, server, cursor, counted>>

SavePending ==
  /\ run.at = "saving"
  /\ state' = [state EXCEPT !.pending = run.batch]
  /\ run' = [run EXCEPT !.at = "returned"]
  /\ UNCHANGED <<kind, server, cursor, counted, waived, evicted>>

\* last_uid: the end of the batch, else the cursor it was read from.
LastUid ==
  IF kind.pop THEN IF run.batch = {} THEN cursor ELSE Max(run.batch)
  ELSE IF run.batch = {} THEN run.since ELSE server.uid[Max(run.batch)]

\* The run succeeds, and its state_updates commit with it.
Succeed ==
  /\ run.at = "returned"
  /\ cursor' = LastUid
  /\ counted' = [m \in Mails |-> IF m \in run.got /\ counted[m] < 2 THEN counted[m] + 1
                                 ELSE counted[m]]
  /\ waived' = waived \union run.skip
  /\ run' = Idle
  /\ UNCHANGED <<kind, server, state, evicted>>

\* The connection breaks, the core refuses a write, or the run fails after the op.  A run that
\* fails once a new UIDVALIDITY is stored leaves the task a cursor of the old one, which the
\* next call takes for one of the new: its mails may be passed over.
Fail ==
  /\ run.at # "idle"
  /\ FailsAfterReset \/ ~(run.at = "returned" /\ run.reset)
  /\ run' = Idle
  /\ UNCHANGED <<kind, server, state, cursor, counted, waived, evicted>>

Next ==
  \/ Arrive \/ Removed \/ Renumber
  \/ Ask \/ Open \/ Search \/ SaveValidity
  \/ List \/ Retrieve \/ SaveSeen \/ SavePending
  \/ Succeed \/ Fail

Spec == Init /\ [][Next]_vars

-----------------------------------------------------------------------------
\* No mail is lost to a run that failed (imap.ts, 4-6; docs/connectors/email.md, 124-127): what a
\* search passes over, what counts as seen and what was deleted was got by a successful run, or
\* need not be.
PassedOrHandled ==
  LET handled(m) == counted[m] > 0 \/ m \in waived IN
  /\ \A m \in Arrived \ server.box : handled(m)
  /\ \A m \in state.seen : handled(m)
  /\ run.at \in {"open", "read", "returned"} /\ ~kind.pop =>
       \A m \in server.box : server.uid[m] <= run.since => handled(m) \/ m \in run.skip

\* No two successful runs get the same mail, except the mails a server has renumbered, and
\* those of a mailbox with more than MAX_SEEN mails.
GotOnce == evicted \/ server.era = 2 \/ \A m \in Mails : counted[m] <= 1
=============================================================================
