----------------------------- MODULE MCExecutor -----------------------------
(* Instances of Executor.  The queue has one place where it is to fill up or  *)
(* where few jobs are fired, and otherwise two, so that jobs can overtake one *)
(* another.                                                                   *)
EXTENDS Executor

MCMacros == {<<"delay", "call">>, <<"call", "paste">>}

Few == {{"paste", "macro", "stop"}}

MCEnvironments ==
    Few \cup
    {{"paste", "cancel", "panic"},
     {"paste", "crowd", "pump"},
     {"launch", "paste"},
     {"launch", "macro", "crowd", "cancel", "stop", "timer", "quit", "fail", "pump"}}

MCCancel == {{"launch", "paste", "cancel"}}

Instances == MCEnvironments \cup MCCancel

MCCapacity == [e \in Instances |-> IF "crowd" \in e \/ e \in Few THEN 1 ELSE 2]
MCMaxJobs  == [e \in Instances |-> IF e \in Few THEN 2 ELSE 3]
=============================================================================
