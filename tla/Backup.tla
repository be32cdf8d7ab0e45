------------------------------- MODULE Backup -------------------------------
(***************************************************************************)
(* oa backup: the daemon copies its database next to itself, streams the   *)
(* copy and deletes it (store/db.ts, api/server.ts), and the client writes *)
(* the stream beside its destination and puts it in place when it is whole *)
(* (api/client.ts).  Several clients have one destination; a connection, a *)
(* client, the daemon or the power may go at any step.                     *)
(***************************************************************************)
EXTENDS Naturals, FiniteSets

CONSTANTS
  Clients,  \* runs of oa backup
  Forced    \* those with --force

BackupAssumption ==
  Forced \subseteq Clients /\ Clients \intersect {"nobody", "before"} = {}

VARIABLES
  daemon,
  handler,  \* the daemon's request of each client
  copy,     \* the clients whose file the daemon has
  line,     \* the connection
  at,       \* the client
  partial,  \* the client's hidden file
  dest,     \* the destination: who wrote it, and what it is
  lost,     \* the power went: clients and daemon were killed
  older,    \* what the destination was: its directory is not synced
  stuck     \* the files that could not be removed

vars == <<daemon, handler, copy, line, at, partial, dest, lost, older, stuck>>

Nobody == "nobody"
Before == "before"  \* who wrote a destination that was there already
Short == "short"
Cached == "cached"  \* whole, but not on disk
Kept == "kept"      \* whole and on disk
Data == {"none", Short, Cached, Kept}

Dests == [by : Clients \cup {Nobody, Before}, data : Data]

TypeOK ==
  /\ daemon \in {"up", "killed"} /\ lost \in BOOLEAN
  /\ handler \in [Clients -> {"none", "asked", "copying", "copied", "streaming", "over"}]
  /\ copy \subseteq Clients /\ line \in [Clients -> {"none", "open", "sent", "failed"}]
  /\ at \in [Clients -> {"start", "download", "written", "synced", "linked", "failing",
                         "done", "refused", "killed"}]
  /\ partial \in [Clients -> Data]
  /\ dest \in Dests /\ older \subseteq Dests /\ stuck \subseteq {"copy", "partial"} \X Clients

Init ==
  /\ daemon = "up" /\ lost = FALSE /\ older = {} /\ stuck = {}
  /\ handler = [c \in Clients |-> "none"] /\ copy = {}
  /\ line = [c \in Clients |-> "none"] /\ at = [c \in Clients |-> "start"]
  /\ partial = [c \in Clients |-> "none"]
  /\ dest \in {[by |-> Nobody, data |-> "none"],
               [by |-> Before, data |-> Kept]}

Fails(c) == at' = [at EXCEPT ![c] = "failing"]

-----------------------------------------------------------------------------
\* The client

\* The command line looks whether the destination is there, then the hidden file is created,
\* if it can be.
Start(c) ==
  /\ at[c] = "start" /\ ~lost
  /\ \/ at' = [at EXCEPT ![c] = "refused"] /\ UNCHANGED <<handler, line, partial>>
     \/ /\ c \in Forced \/ dest.by = Nobody
        /\ partial' = [partial EXCEPT ![c] = Short]
        /\ IF daemon = "up"
             THEN /\ at' = [at EXCEPT ![c] = "download"]
                  /\ line' = [line EXCEPT ![c] = "open"]
                  /\ handler' = [handler EXCEPT ![c] = "asked"]
             ELSE Fails(c) /\ UNCHANGED <<handler, line>>
  /\ UNCHANGED <<daemon, copy, dest, lost, older, stuck>>

\* download: the body is checked against its length.
Accepts(c) == line[c] = "sent" /\ partial[c] = Cached
\* Mutant: a stream that broke off is taken for complete.
AcceptsAnyEnd(c) == line[c] \in {"sent", "failed"}
Complete(c) == Accepts(c)

Downloaded(c) ==
  /\ at[c] = "download" /\ line[c] \in {"sent", "failed"}
  /\ IF Complete(c) THEN at' = [at EXCEPT ![c] = "written"] ELSE Fails(c)
  /\ UNCHANGED <<daemon, handler, copy, line, partial, dest, lost, older, stuck>>

OnDisk(file) == IF file = Cached THEN Kept ELSE file
\* Mutant: the file is placed without a sync.
InCache(file) == file
Flushed(file) == OnDisk(file)

Sync(c) ==
  /\ at[c] = "written"
  /\ \/ partial' = [partial EXCEPT ![c] = Flushed(@)] /\ at' = [at EXCEPT ![c] = "synced"]
     \/ Fails(c) /\ UNCHANGED partial
  /\ UNCHANGED <<daemon, handler, copy, line, dest, lost, older, stuck>>

\* link refuses a name that is taken, rename does not.
MayTake(c) == c \in Forced \/ dest.by = Nobody
\* Mutant: the destination is replaced without being asked.
TakesAny(c) == TRUE
Takes(c) == MayTake(c)

Place(c) ==
  /\ at[c] = "synced"
  /\ \/ /\ Takes(c)
        /\ dest' = [by |-> c, data |-> partial[c]] /\ older' = older \union {dest}
        /\ at' = [at EXCEPT ![c] = IF c \in Forced THEN "done" ELSE "linked"]
        /\ partial' = IF c \in Forced THEN [partial EXCEPT ![c] = "none"] ELSE partial
     \/ Fails(c) /\ UNCHANGED <<dest, partial, older>>
  /\ UNCHANGED <<daemon, handler, copy, line, lost, stuck>>

\* The hidden file goes, if it can be removed: after a link, and after any failure.
RemovePartial(c) ==
  /\ at[c] \in {"linked", "failing"}
  /\ \/ partial' = [partial EXCEPT ![c] = "none"] /\ UNCHANGED stuck
     \/ stuck' = stuck \union {<<"partial", c>>} /\ UNCHANGED partial
  /\ at' = [at EXCEPT ![c] = IF @ = "linked" THEN "done" ELSE "refused"]
  /\ UNCHANGED <<daemon, handler, copy, line, dest, lost, older>>

KillClient(c) ==
  /\ at[c] \notin {"start", "done", "refused", "killed"}
  /\ at' = [at EXCEPT ![c] = "killed"]
  /\ line' = [line EXCEPT ![c] = IF @ = "open" THEN "failed" ELSE @]
  /\ UNCHANGED <<daemon, handler, copy, partial, dest, lost, older, stuck>>

-----------------------------------------------------------------------------
\* The daemon's handler

\* The copy goes with the request, if it can be removed.
Over(c) ==
  /\ handler' = [handler EXCEPT ![c] = "over"]
  /\ \/ copy' = copy \ {c} /\ UNCHANGED stuck
     \/ UNCHANGED copy /\ stuck' = stuck \union {<<"copy", c>>}
\* Mutant: the handler leaves its copy behind.
OverButForTheCopy(c) == handler' = [handler EXCEPT ![c] = "over"] /\ UNCHANGED <<copy, stuck>>
Ends(c) == Over(c)

\* backupDatabase creates the copy beside the database; if it cannot, a 500.
Creates(c) ==
  /\ handler[c] = "asked" /\ daemon = "up"
  /\ \/ handler' = [handler EXCEPT ![c] = "copying"] /\ copy' = copy \union {c}
        /\ UNCHANGED line
     \/ /\ handler' = [handler EXCEPT ![c] = "over"] /\ line' = [line EXCEPT ![c] = "failed"]
        /\ UNCHANGED copy
  /\ UNCHANGED <<daemon, at, partial, dest, lost, older, stuck>>

\* The copy is made and synced; one that fails is removed, and answered 500.
Copy(c) ==
  /\ handler[c] = "copying" /\ daemon = "up"
  /\ \/ handler' = [handler EXCEPT ![c] = "copied"] /\ UNCHANGED <<copy, line, stuck>>
     \/ Over(c) /\ line' = [line EXCEPT ![c] = "failed"]
  /\ UNCHANGED <<daemon, at, partial, dest, lost, older>>

\* sendFile: a client that hung up meanwhile gets nothing, nor does one whose file is gone.
SendFile(c) ==
  /\ handler[c] = "copied" /\ daemon = "up"
  /\ \/ line[c] # "open" /\ Ends(c) /\ UNCHANGED line
     \/ line[c] = "open" /\ Ends(c) /\ line' = [line EXCEPT ![c] = "failed"]
     \/ /\ line[c] = "open" /\ handler' = [handler EXCEPT ![c] = "streaming"]
        /\ UNCHANGED <<copy, line, stuck>>
  /\ UNCHANGED <<daemon, at, partial, dest, lost, older>>

\* The pipeline is over: all of it was sent, or the connection broke.
Stream(c) ==
  /\ handler[c] = "streaming" /\ daemon = "up"
  /\ Ends(c)
  /\ \/ /\ line[c] = "open" /\ line' = [line EXCEPT ![c] = "sent"]
        /\ partial' = [partial EXCEPT ![c] = Cached]
     \/ line' = [line EXCEPT ![c] = "failed"] /\ UNCHANGED partial
  /\ UNCHANGED <<daemon, at, dest, lost, older>>

\* The connection is lost, or the server closes it on a stop.
Break(c) ==
  /\ line[c] = "open" /\ line' = [line EXCEPT ![c] = "failed"]
  /\ UNCHANGED <<daemon, handler, copy, at, partial, dest, lost, older, stuck>>

KillDaemon ==
  /\ daemon = "up" /\ daemon' = "killed"
  /\ line' = [c \in Clients |-> IF line[c] = "open" THEN "failed" ELSE line[c]]
  /\ UNCHANGED <<handler, copy, at, partial, dest, lost, older, stuck>>

\* What was not on disk is cut short, and a name given to a file may be gone.
AfterLoss(file) == IF file = Cached THEN Short ELSE file

PowerLoss ==
  /\ ~lost /\ lost' = TRUE /\ daemon' = "killed"
  /\ line' = [c \in Clients |-> IF line[c] = "open" THEN "failed" ELSE line[c]]
  /\ at' = [c \in Clients |-> IF at[c] \in {"done", "refused"} THEN at[c] ELSE "killed"]
  /\ partial' = [c \in Clients |-> AfterLoss(partial[c])]
  /\ \E was \in older \union {dest} : dest' = [was EXCEPT !.data = AfterLoss(@)]
  /\ UNCHANGED <<handler, copy, older, stuck>>

Next ==
  \/ \E c \in Clients : \/ Start(c) \/ Downloaded(c) \/ Sync(c) \/ Place(c) \/ RemovePartial(c)
                        \/ KillClient(c) \/ Creates(c) \/ Copy(c) \/ SendFile(c)
                        \/ Stream(c) \/ Break(c)
  \/ KillDaemon \/ PowerLoss

Spec == Init /\ [][Next]_vars

-----------------------------------------------------------------------------
\* ApiClient.backup: the destination is a whole copy or what it was, whatever breaks and
\* whenever, and only --force replaces what is there, also when two runs race for the name.
DestIsWhole ==
  /\ dest.by # Nobody => dest.data \in {Cached, Kept}
  /\ \A c, d \in Clients \ Forced : at[c] \in {"linked", "done"} /\ at[d] \in {"linked", "done"}
                                      => c = d
  /\ ~lost /\ (\E c \in Clients : at[c] = "done") => dest.by \in Clients

\* A copy holds every payload and transcript: none is left once its request is over, and no
\* hidden file once its client has answered, but one that could not be removed.
NoCopyLeft ==
  \A c \in Clients :
    /\ handler[c] = "over" /\ c \in copy => <<"copy", c>> \in stuck
    /\ at[c] \in {"done", "refused"} /\ partial[c] # "none" => <<"partial", c>> \in stuck
=============================================================================
