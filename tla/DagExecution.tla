---------------------------- MODULE DagExecution ----------------------------
(***************************************************************************)
(* What PriorityThreadPoolDAGScheduler promises, without threads, counts   *)
(* or priorities.  A task is its body and the actions it was augmented     *)
(* with while one of its actions ran; it is complete when all of them are  *)
(* over.  No action of a task begins before the tasks it depends on are    *)
(* complete, none runs twice, a continuation begins after everything else  *)
(* the task had been asked for, and run() returns when every task is       *)
(* complete.  DAGScheduler implements this specification.                  *)
(***************************************************************************)
EXTENDS Naturals

CONSTANTS Task,   \* what is scheduled
          Body,   \* Body[t]: the executor's run of task t
          Action  \* the bodies and what tasks may be augmented with

VARIABLES called,    \* "no", "running" or "returned"
          before,    \* before[t]: the tasks t depends on
          asked,     \* actions that are to run and have not begun
          active,    \* actions that run
          deferred   \* continuations that wait for the actions before them

vars == <<called, before, asked, active, deferred>>

Of(t, S) == {a \in S : a.task = t}

Complete(t) == Of(t, asked \cup active \cup deferred) = {}

Init == /\ called = "no"
        /\ before = [t \in Task |-> {}]
        /\ asked = {Body[t] : t \in Task}
        /\ active = {}
        /\ deferred = {}

AddDependency(t, d) ==
  /\ called = "no"
  /\ before' = [before EXCEPT ![t] = @ \cup {d}]
  /\ UNCHANGED <<called, asked, active, deferred>>

Call == /\ called = "no"
        /\ called' = "running"
        /\ UNCHANGED <<before, asked, active, deferred>>

Begin(a) == /\ called = "running"
            /\ a \in asked
            /\ \A d \in before[a.task] : Complete(d)
            /\ asked' = asked \ {a}
            /\ active' = active \cup {a}
            /\ UNCHANGED <<called, before, deferred>>

\* While an action of its task runs, an action is added: at once or for later.
Augment(a) == /\ Of(a.task, active) # {}
              /\ asked' = asked \cup {a}
              /\ UNCHANGED <<called, before, active, deferred>>

Defer(a) == /\ Of(a.task, active) # {}
            /\ deferred' = deferred \cup {a}
            /\ UNCHANGED <<called, before, asked, active>>

\* The last action of a task lets its continuations begin.
End(a) == /\ a \in active
          /\ active' = active \ {a}
          /\ IF Of(a.task, asked \cup active') = {}
             THEN /\ asked' = asked \cup Of(a.task, deferred)
                  /\ deferred' = deferred \ Of(a.task, deferred)
             ELSE UNCHANGED <<asked, deferred>>
          /\ UNCHANGED <<called, before>>

Return == /\ called = "running"
          /\ \A t \in Task : Complete(t)
          /\ called' = "returned"
          /\ before' = [t \in Task |-> {}]
          /\ UNCHANGED <<asked, active, deferred>>

Next == \/ Call
        \/ Return
        \/ \E t, d \in Task : AddDependency(t, d)
        \/ \E a \in Action : Begin(a) \/ Augment(a) \/ Defer(a) \/ End(a)

Spec == /\ Init /\ [][Next]_vars
        /\ WF_vars(\E a \in Action : Begin(a) \/ End(a))
        /\ WF_vars(Return)
=============================================================================
