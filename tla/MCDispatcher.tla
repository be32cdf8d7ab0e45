---------------------------- MODULE MCDispatcher ----------------------------
(***************************************************************************)
(* Small instances of Dispatcher: a task that asks and waits for replies;  *)
(* two tasks that trigger each other; a cron task.                         *)
(***************************************************************************)
EXTENDS Dispatcher

AskTriggers == [t \in Tasks |-> IF t = 1 THEN {"ask"} ELSE {}]
NoEmits == [t \in Tasks |-> {}]
ChainTriggers == [t \in Tasks |-> IF t = 1 THEN {"ping"} ELSE {"task.ended"}]
ChainEmits == [t \in Tasks |-> IF t = 1 THEN {"ping"} ELSE {}]
=============================================================================
