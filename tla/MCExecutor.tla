----------------------------- MODULE MCExecutor -----------------------------
(***************************************************************************)
(* Small instances of Executor: runs of a task that may retry once, unless *)
(* a reload takes its retry or the task itself away, and of a task that    *)
(* may not.                                                                *)
(***************************************************************************)
EXTENDS Executor

MCTaskOf == [r \in Runs |-> IF r = 3 THEN "once" ELSE "twice"]
MixedTaskOf == [r \in Runs |-> IF r = 1 THEN "twice" ELSE "once"]
MCLimit == [t \in Tasks |-> 1]
MCAttempts == [t \in Tasks |-> IF t = "twice" THEN 2 ELSE 1]
MCFewest == [t \in Tasks |-> IF t = "twice" THEN 0 ELSE 1]
=============================================================================
