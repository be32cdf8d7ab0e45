------------------------------- MODULE Upgrade -------------------------------
(***************************************************************************)
(* Opening the database (store/db.ts, store/migrations.ts): a file with    *)
(* pending migrations is copied beside itself, the older copies go, and    *)
(* the migrations commit together.  Releases come and go; a start may      *)
(* fail, be killed, or lose the power at any step.                         *)
(***************************************************************************)
EXTENDS Naturals, FiniteSets

CONSTANT Releases  \* the highest schema a release knows is 1 .. Releases

UpgradeAssumption == Releases \in Nat \ {0}

Schemas == 1 .. Releases

VARIABLES
  build,   \* the schema of the release that starts or runs
  step,
  schema,  \* of the database file
  copies,  \* per schema, the file <path>.schema-<n>.bak
  back     \* the schema the last migration left, until a copy of what it brought replaces it

vars == <<build, step, schema, copies, back>>

None == "none"
Torn == "torn"      \* not all of it
Cached == "cached"  \* whole, but not on disk
Kept == "kept"      \* whole and on disk

TypeOK ==
  /\ build \in Schemas /\ schema \in Schemas /\ back \in Schemas
  /\ step \in {"down", "opened", "cleared", "created", "copied", "synced", "tidied", "refused",
               "up"}
  /\ copies \in [Schemas -> {None, Torn, Cached, Kept}]

Init ==
  /\ build \in Schemas /\ schema = build /\ step = "up"
  /\ copies = [n \in Schemas |-> None] /\ back = schema

Start ==
  /\ step \in {"down", "refused"} /\ build' \in Schemas /\ step' = "opened"
  /\ UNCHANGED <<schema, copies, back>>

\* Nothing to migrate; or a newer release has migrated it and nothing is written.
Open ==
  /\ step = "opened" /\ schema >= build
  /\ step' = IF schema = build THEN "up" ELSE "refused"
  /\ UNCHANGED <<build, schema, copies, back>>

Set(n, file) == copies' = [copies EXCEPT ![n] = file]

\* copyBeforeMigration: a copy of that schema is made anew.
Clear ==
  /\ step = "opened" /\ schema < build
  /\ Set(schema, None) /\ step' = "cleared"
  /\ UNCHANGED <<build, schema, back>>

Create ==
  /\ step = "cleared" /\ Set(schema, Torn) /\ step' = "created"
  /\ UNCHANGED <<build, schema, back>>

CopyInto == step = "created" /\ Set(schema, Cached) /\ step' = "copied"
            /\ UNCHANGED <<build, schema, back>>

Sync ==
  /\ step = "copied" /\ Set(schema, Kept) /\ step' = "synced"
  /\ UNCHANGED <<build, schema, back>>

\* A step of the copy fails: what there is of it goes, the database is not migrated.
CopyFails ==
  /\ step \in {"cleared", "created", "copied"}
  /\ Set(schema, None) /\ step' = "refused"
  /\ UNCHANGED <<build, schema, back>>

\* The other copies go, each as far as it can be removed.
MayTidy == step = "synced"
\* Mutant: the older copies go before the new one is on disk.
MayTidyEarly == step = "synced" \/ (step = "opened" /\ schema < build)
Tidies == MayTidy

Tidy ==
  /\ Tidies
  /\ \E left \in SUBSET (Schemas \ {schema}) :
       copies' = [n \in Schemas |-> IF n = schema \/ n \in left THEN copies[n] ELSE None]
  /\ back' = IF copies[schema] = Kept THEN schema ELSE back
  /\ step' = IF step = "synced" THEN "tidied" ELSE step
  /\ UNCHANGED <<build, schema>>

Ready == step = "tidied"
\* Mutant: the migration does not wait for the sync.
ReadyBeforeSync == step \in {"copied", "tidied"}
MayMigrate == Ready

\* One transaction: all the pending migrations, or none.
Migrate ==
  /\ MayMigrate
  /\ \/ schema' = build /\ back' = schema /\ step' = "up"
     \/ step' = "refused" /\ UNCHANGED <<schema, back>>
  /\ UNCHANGED <<build, copies>>

Stop ==
  /\ step \notin {"down", "refused"} /\ step' = "down"
  /\ UNCHANGED <<build, schema, copies, back>>

\* What is not on disk is torn, and a migration may not be (synchronous = NORMAL).
PowerLoss ==
  /\ step # "down" /\ step' = "down" /\ schema' \in {schema, back}
  /\ copies' = [n \in Schemas |-> IF copies[n] = Cached THEN Torn ELSE copies[n]]
  /\ UNCHANGED <<build, back>>

Next ==
  \/ Start \/ Open \/ Clear \/ Create \/ CopyInto \/ Sync \/ CopyFails \/ Tidy \/ Migrate \/ Stop
  \/ PowerLoss

Spec == Init /\ [][Next]_vars

-----------------------------------------------------------------------------
\* db.ts: "a failed migration or a rollback to the release that wrote it has a way back".  The
\* database is what the last migration left, or a copy of that is whole and on disk, at every
\* step of the upgrades after it, until a copy of what it brought is.
WayBack == schema = back \/ copies[back] = Kept
=============================================================================
