--------------------------------- MODULE Ftp ---------------------------------
(***************************************************************************)
(* The writing ops of the ftp connector (connectors/ftp/src/ops.ts) over   *)
(* one SFTP or FTP connection, and the executor's retry of the failures    *)
(* errors.ts calls transient.  An op is a plan of steps on the server; any *)
(* step may be refused, break off half way or lose the connection, while a *)
(* reader (a web server) sees the files at every moment.                   *)
(***************************************************************************)
EXTENDS Naturals, Sequences

CONSTANTS
  Tree,         \* the local files of a sync, in order; the other ops act on the first two
  Extra,        \* remote files the local tree lacks
  Servers,      \* [ftp, atomic]: FTP or SFTP, and whether a rename replaces its target
  MaxAttempts,  \* the task's retry policy
  MaxFaults     \* bound: steps that fail

InTree == {Tree[i] : i \in DOMAIN Tree}
Names == InTree \union Extra

FtpAssumption ==
  /\ Tree \in Seq(InTree) /\ Len(Tree) >= 2 /\ InTree \intersect Extra = {}
  /\ \A i, j \in DOMAIN Tree : Tree[i] = Tree[j] => i = j
  /\ Servers \subseteq [ftp : BOOLEAN, atomic : BOOLEAN]
  /\ MaxAttempts \in Nat \ {0} /\ MaxFaults \in Nat

VARIABLES
  op,      \* the op, its server, whether a sync prunes, and the files before it
  status, attempt,
  at,      \* the step of the plan, 0 without a connection
  error,   \* what ended the attempt, "none" while it goes on
  net,     \* whether the connection lives, and the steps failed so far
  remote,  \* what each name of the server holds
  stage,   \* what its staging name holds
  staged,  \* staging names not renamed into place yet
  todo     \* what the prune still removes: names, and staging names

vars == <<op, status, attempt, at, error, net, remote, stage, staged, todo>>

Contents == {"none", "partial", "old", "new"}
Kinds == {"write", "create", "delete", "rename", "sync"}

TypeOK ==
  /\ op.kind \in Kinds /\ status \in {"running", "succeeded", "failed"}
  /\ attempt \in 0 .. MaxAttempts /\ at \in Nat
  /\ error \in {"none", "final", "transient", "exists", "missing"}
  /\ remote \in [Names -> Contents] /\ stage \in [Names -> Contents]
  /\ staged \subseteq InTree /\ todo \subseteq [stage : BOOLEAN, name : Names]

Init ==
  /\ op \in [kind : Kinds, server : Servers, prune : BOOLEAN,
              before : [Names -> {"none", "old"}]]
  /\ op.prune => op.kind = "sync"
  /\ status = "running" /\ attempt = 0 /\ at = 0 /\ error = "none"
  /\ net = [up |-> FALSE, faults |-> 0]
  /\ remote = op.before /\ stage \in {[f \in Names |-> c] : c \in {"none", "partial"}}
  /\ staged = {} /\ todo = {}

-----------------------------------------------------------------------------
\* Plans.

Step(do, f) == [do |-> do, file |-> f]
First == Tree[1]

Uploads == [i \in DOMAIN Tree |-> Step("upload", Tree[i])]
\* replace, file by file: where a rename does not replace, the target is removed first.
Places ==
  IF op.server.atomic THEN [i \in DOMAIN Tree |-> Step("replace", Tree[i])]
  ELSE [k \in 1 .. 2 * Len(Tree) |-> IF k % 2 = 1 THEN Step("drop", Tree[(k + 1) \div 2])
                                     ELSE Step("replace", Tree[k \div 2])]

\* Mutant: every file is moved into place as soon as it is uploaded.
PlaceOneByOne ==
  LET w == IF op.server.atomic THEN 2 ELSE 3
      Do(k) == CASE k % w = 1 -> "upload" [] k % w = 0 -> "replace" [] OTHER -> "drop"
  IN [k \in 1 .. w * Len(Tree) |-> Step(Do(k), Tree[1 + (k - 1) \div w])]

\* sync: every transfer comes before the first rename.
UploadThenPlace == Uploads \o Places

Plan ==
  <<Step("connect", First)>> \o
  CASE op.kind = "write" -> <<Step("mkdir", First), Step("put", First)>>
    [] op.kind = "create" -> <<Step("absent", First), Step("mkdir", First), Step("put", First)>>
    [] op.kind = "delete" -> <<Step("present", First), Step("remove", First)>>
    [] op.kind = "rename" -> <<Step("mkdir", First), Step("move", First)>>
    [] op.kind = "sync" ->
         <<Step("mkdir", First)>> \o UploadThenPlace
         \o (IF op.prune THEN <<Step("walk", First)>> ELSE <<>>)

Now == Plan[at]
Going == at \in DOMAIN Plan /\ error = "none"

\* A failure of these is transient whatever it is: they change nothing.
IsRead(do) == do \in {"connect", "present", "absent", "walk"}

\* Mutant: what broke off is repeated.
BreakIsTransient(do) == TRUE

\* errors.ts: a 4xx or a broken connection is transient after a step that can be repeated.
RepeatsAfterBreak(do) == IsRead(do)

-----------------------------------------------------------------------------
\* Steps.

\* A new attempt of the run opens its connection; one that failed is not retried for good.
Begin ==
  /\ status = "running" /\ at = 0 /\ attempt < MaxAttempts
  /\ attempt' = attempt + 1 /\ at' = 1 /\ net' = [net EXCEPT !.up = TRUE]
  /\ UNCHANGED <<op, status, error, remote, stage, staged, todo>>

\* What a step makes of the server when it is carried out, wholly or in part.
Effect(do, f, whole) ==
  LET content == IF whole THEN "new" ELSE "partial" IN
  CASE do = "put" -> remote' = [remote EXCEPT ![f] = content] /\ UNCHANGED stage
    [] do = "upload" -> stage' = [stage EXCEPT ![f] = content] /\ UNCHANGED remote
    [] do \in {"remove", "drop"} -> remote' = [remote EXCEPT ![f] = "none"] /\ UNCHANGED stage
    [] do = "replace" -> /\ remote' = [remote EXCEPT ![f] = stage[f]]
                         /\ stage' = [stage EXCEPT ![f] = "none"]
    [] do = "move" -> /\ remote' = [remote EXCEPT ![f] = "none", ![Tree[2]] = remote[f]]
                      /\ UNCHANGED stage
    [] OTHER -> UNCHANGED <<remote, stage>>

\* The step finds the server as it must: the file there, or not there.
Missing == Now.do \in {"present", "move"} /\ remote[Now.file] = "none"
Exists == Now.do = "absent" /\ remote[Now.file] # "none"

Staging ==
  staged' = CASE Now.do = "upload" -> staged \union {Now.file}
              [] Now.do = "replace" -> staged \ {Now.file}
              [] OTHER -> staged

\* Mutant: hidden names are passed over.
SurplusFilesOnly == [stage : {FALSE}, name : {f \in Extra : remote[f] # "none"}]

\* walkRemote: what the local tree lacks, leftovers of earlier syncs too.
Surplus ==
  [stage : {FALSE}, name : {f \in Extra : remote[f] # "none"}]
  \union [stage : {TRUE}, name : {f \in Names : stage[f] # "none"}]

Does ==
  /\ Going /\ net.up /\ ~Missing /\ ~Exists
  /\ Effect(Now.do, Now.file, TRUE) /\ Staging /\ at' = at + 1
  /\ todo' = IF Now.do = "walk" THEN Surplus ELSE todo
  /\ UNCHANGED <<op, status, attempt, error, net>>

\* A missing source, or a target there already: not retried.
FindsOtherwise ==
  /\ Going /\ net.up /\ (Missing \/ Exists)
  /\ error' = IF Missing THEN "missing" ELSE "exists"
  /\ UNCHANGED <<op, status, attempt, at, net, remote, stage, staged, todo>>

\* An upload adds its name before it starts.
StagingBegun == staged' = IF Now.do = "upload" THEN staged \union {Now.file} ELSE staged
Fault(up) == net.faults < MaxFaults /\ net' = [up |-> up, faults |-> net.faults + 1]

\* 425 or 450: FTP says so before anything changed.
Busy ==
  /\ Going /\ net.up /\ op.server.ftp /\ Now.do # "drop" /\ Fault(TRUE) /\ StagingBegun
  /\ error' = "transient"
  /\ UNCHANGED <<op, status, attempt, at, remote, stage, todo>>

\* A 5xx, a refused login, a full disk.
Refused ==
  /\ Going /\ net.up /\ ~(Now.do = "drop" /\ op.server.ftp) /\ Fault(TRUE) /\ StagingBegun
  /\ error' = "final"
  /\ UNCHANGED <<op, status, attempt, at, remote, stage, todo>>

\* confine: the server is asked where the path leads before the step, and does not say.
ResolveFails ==
  /\ Going /\ net.up /\ ~op.server.ftp /\ Now.do \notin {"connect", "drop"}
  /\ \E up \in BOOLEAN : Fault(up)
  /\ StagingBegun /\ error' = "transient"
  /\ UNCHANGED <<op, status, attempt, at, remote, stage, todo>>

\* Another 4xx, or the connection breaks: the step was carried out, in part or not.
Breaks ==
  /\ Going /\ net.up /\ ~Missing /\ ~Exists /\ ~(Now.do = "drop" /\ op.server.ftp)
  /\ \E up \in BOOLEAN : Fault(up)
  /\ StagingBegun
  /\ \/ UNCHANGED <<remote, stage>>
     \/ \E whole \in BOOLEAN : Effect(Now.do, Now.file, whole)
  /\ error' = IF RepeatsAfterBreak(Now.do) THEN "transient" ELSE "final"
  /\ UNCHANGED <<op, status, attempt, at, todo>>

\* FTP's replace does not look at what became of the removal of the target.
DropIgnored ==
  /\ Going /\ net.up /\ Now.do = "drop" /\ op.server.ftp /\ at' = at + 1
  /\ \E up \in BOOLEAN : Fault(up)
  /\ Effect("drop", Now.file, TRUE) \/ UNCHANGED <<remote, stage>>
  /\ UNCHANGED <<op, status, attempt, error, staged, todo>>

\* The rename after it meets the broken connection.
LinkGone ==
  /\ Going /\ ~net.up
  /\ error' = IF RepeatsAfterBreak(Now.do) THEN "transient" ELSE "final"
  /\ UNCHANGED <<op, status, attempt, at, net, remote, stage, staged, todo>>

\* Prune, once everything is in place.
Pruning == at > Len(Plan) /\ error = "none" /\ todo # {}

Removed(x) ==
  /\ remote' = [remote EXCEPT ![x.name] = IF x.stage THEN @ ELSE "none"]
  /\ stage' = [stage EXCEPT ![x.name] = IF x.stage THEN "none" ELSE @]

Prunes(x) ==
  /\ Pruning /\ x \in todo /\ Removed(x) /\ todo' = todo \ {x}
  /\ UNCHANGED <<op, status, attempt, at, error, net, staged>>

PruneFails(x) ==
  /\ Pruning /\ x \in todo /\ \E up \in BOOLEAN : Fault(up)
  /\ \/ Removed(x) /\ error' = "final"
     \/ UNCHANGED <<remote, stage>> /\ error' \in {"final", IF op.server.ftp THEN "transient" ELSE "final"}
  /\ UNCHANGED <<op, status, attempt, at, staged, todo>>

\* The catch: what is staged is removed, as far as the connection lets it.
Cleans(f) ==
  /\ error # "none" /\ f \in staged /\ staged' = staged \ {f}
  /\ \/ net.up /\ stage' = [stage EXCEPT ![f] = "none"]
     \/ UNCHANGED stage
  /\ UNCHANGED <<op, status, attempt, at, error, net, remote, todo>>

\* The connection is closed and the op answers; a transient failure is retried while
\* attempts are left.
Returns ==
  /\ at > 0 /\ (error # "none" => staged = {})
  /\ error = "none" => at > Len(Plan) /\ todo = {}
  /\ status' = CASE error = "none" -> "succeeded"
                 [] error = "transient" /\ attempt < MaxAttempts -> "running"
                 [] OTHER -> "failed"
  /\ at' = 0 /\ error' = "none" /\ net' = [net EXCEPT !.up = FALSE] /\ todo' = {}
  /\ UNCHANGED <<op, attempt, remote, stage, staged>>

-----------------------------------------------------------------------------

Next ==
  \/ Begin \/ Does \/ FindsOtherwise \/ Busy \/ Refused \/ Returns
  \/ ResolveFails \/ Breaks \/ DropIgnored \/ LinkGone
  \/ \E x \in [stage : BOOLEAN, name : Names] : Prunes(x) \/ PruneFails(x)
  \/ \E f \in Names : Cleans(f)

Spec == Init /\ [][Next]_vars

-----------------------------------------------------------------------------

\* While a sync runs, fails or is retried, a reader never meets a truncated file under its
\* real name; nothing is replaced before every transfer has finished; and where a rename
\* replaces, no file goes missing and nothing is pruned before all is in place
\* (FileOps.sync, replace).
ReadersSeeWhole ==
  op.kind = "sync" =>
    /\ \A f \in InTree : remote[f] # "partial"
    /\ (\E f \in InTree : remote[f] = "new") /\ attempt = 1 /\ at > 0 /\ error = "none" =>
         \A f \in InTree : stage[f] = "new" \/ remote[f] = "new"
    /\ op.server.atomic =>
         /\ \A f \in InTree : op.before[f] # "none" => remote[f] # "none"
         /\ (\E f \in Extra : remote[f] # op.before[f]) => \A f \in InTree : remote[f] = "new"

\* An attempt never fails on what an earlier one of the run did: a file its own write
\* left, a source its own rename or delete took away (errors.ts).
RetriesAreClean ==
  /\ error = "exists" => op.before[First] # "none"
  /\ error = "missing" => op.before[First] = "none"

\* A sync that succeeded has put every file in place, left no staging name of them and,
\* when it prunes, nothing the local tree lacks.
SyncMirrors ==
  status = "succeeded" /\ op.kind = "sync" =>
    /\ \A f \in InTree : remote[f] = "new" /\ stage[f] = "none"
    /\ op.prune => \A f \in Extra : remote[f] = "none" /\ stage[f] = "none"
=============================================================================
