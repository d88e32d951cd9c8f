-------------------------- MODULE CountingSemaphore --------------------------
(***************************************************************************)
(* What workqueue_impl::Semaphore (sparta/include/SpartaWorkQueue.h)       *)
(* promises: a counter that take() brings down by one and never below      *)
(* zero.  WorkQueue uses the semaphore as this.                            *)
(***************************************************************************)
EXTENDS Naturals

CONSTANTS Thread,   \* the threads that use the semaphore
          Amounts   \* the n that give() is called with

VARIABLES count,    \* units to take
          takers    \* the threads inside take()

vars == <<count, takers>>

Init == count = 0 /\ takers = {}

Give(n) == /\ takers # Thread
           /\ count' = count + n
           /\ UNCHANGED takers

Enter(t) == /\ t \notin takers
            /\ takers' = takers \cup {t}
            /\ UNCHANGED count

Take(t) == /\ t \in takers
           /\ count > 0
           /\ count' = count - 1
           /\ takers' = takers \ {t}

TakeAll == /\ takers # Thread
           /\ count' = 0
           /\ UNCHANGED takers

Next == \/ TakeAll
        \/ \E n \in Amounts : Give(n)
        \/ \E t \in Thread : Enter(t) \/ Take(t)

\* A thread for which there is always a unit gets one.
Spec == Init /\ [][Next]_vars /\ \A t \in Thread : WF_vars(Take(t))
=============================================================================
