------------------------------ MODULE TaskPool ------------------------------
(***************************************************************************)
(* What sparta::SpartaWorkQueue promises its callers, without threads,     *)
(* queues, counters or semaphores: a pool of tasks that run_all() drains.  *)
(* While the pool runs, at most NumThreads tasks are active; an active     *)
(* task may add tasks when the pool was built with                         *)
(* push_tasks_while_running; and run_all() returns only once no task is    *)
(* left.  WorkQueue implements this specification.                         *)
(***************************************************************************)
EXTENDS Naturals, FiniteSets

CONSTANTS Task,        \* the items that can be added to the pool
          NumThreads,  \* how many tasks may be active together
          CanPush      \* push_tasks_while_running

VARIABLES draining,    \* is run_all() executing?
          waiting,     \* tasks added and not started
          active,      \* tasks some thread is executing
          finished     \* tasks whose execution is over

vars == <<draining, waiting, active, finished>>

New == Task \ (waiting \cup active \cup finished)

Init == /\ draining = FALSE
        /\ waiting = {}
        /\ active = {}
        /\ finished = {}

\* A caller adds a task between two runs.
Add(t) == /\ ~draining
          /\ t \in New
          /\ waiting' = waiting \cup {t}
          /\ UNCHANGED <<draining, active, finished>>

Call == /\ ~draining
        /\ draining' = TRUE
        /\ UNCHANGED <<waiting, active, finished>>

Begin(t) == /\ draining
            /\ t \in waiting
            /\ Cardinality(active) < NumThreads
            /\ waiting' = waiting \ {t}
            /\ active' = active \cup {t}
            /\ UNCHANGED <<draining, finished>>

\* An active task adds a task.
Push(t) == /\ CanPush
           /\ active # {}
           /\ t \in New
           /\ waiting' = waiting \cup {t}
           /\ UNCHANGED <<draining, active, finished>>

End(t) == /\ t \in active
          /\ active' = active \ {t}
          /\ finished' = finished \cup {t}
          /\ UNCHANGED <<draining, waiting>>

\* run_all() returns: every task there ever was is finished.
Return == /\ draining
          /\ waiting = {}
          /\ active = {}
          /\ draining' = FALSE
          /\ UNCHANGED <<waiting, active, finished>>

Next == \/ Call
        \/ Return
        \/ \E t \in Task : Add(t) \/ Begin(t) \/ Push(t) \/ End(t)

Spec == Init /\ [][Next]_vars

\* Every call returns, and every task is begun and ended.
FairSpec == Spec /\ WF_vars(Return) /\ \A t \in Task : WF_vars(Begin(t)) /\ WF_vars(End(t))
=============================================================================
