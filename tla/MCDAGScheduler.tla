--------------------------- MODULE MCDAGScheduler ---------------------------
(***************************************************************************)
(* Instances of DAGScheduler for TLC.                                      *)
(***************************************************************************)
EXTENDS DAGScheduler

\* Every acyclic graph over three tasks, up to the names of the tasks.
AnyEdges == {<<t, d>> \in Task \X Task : d < t}

\* Two actions for the task that may wait and be waited for.
SomeAdded == {[task |-> 2, name |-> "a"], [task |-> 2, name |-> "b"]}
=============================================================================
