------------------------------ MODULE Semaphore ------------------------------
(***************************************************************************)
(* workqueue_impl::Semaphore (sparta/include/SpartaWorkQueue.h): a counter *)
(* under a mutex, and a condition variable on which take() sleeps while    *)
(* the counter is zero.  What happens under the mutex is one step; a       *)
(* thread that was notified has yet to get the mutex again, and another    *)
(* one may come first.                                                     *)
(***************************************************************************)
EXTENDS Integers, FiniteSets

CONSTANTS Thread,    \* the threads that use the semaphore
          Amounts,   \* the n that give() is called with
          MaxCount   \* bound on the counter

ASSUME ThreadAssumption == IsFiniteSet(Thread)
ASSUME AmountsAssumption == Amounts \subseteq Nat \ {0} /\ MaxCount \in Nat

VARIABLES count,     \* m_count
          ready,     \* the threads in take() that want the mutex
          sleeping   \* the threads in take() that wait on m_cv

vars == <<count, ready, sleeping>>

Init == count = 0 /\ ready = {} /\ sleeping = {}

Outside == Thread \ (ready \cup sleeping)

-----------------------------------------------------------------------------
\* Mutant of GiveOne: nobody is notified.
GiveOneSilently ==
  /\ Outside # {}
  /\ 1 \in Amounts
  /\ count < MaxCount
  /\ count' = count + 1
  /\ UNCHANGED <<ready, sleeping>>

\* give(1): notify_one.  Nobody need be waiting.
GiveOne ==
  /\ Outside # {}
  /\ 1 \in Amounts
  /\ count < MaxCount
  /\ count' = count + 1
  /\ \/ sleeping = {} /\ UNCHANGED <<ready, sleeping>>
     \/ \E t \in sleeping : /\ ready' = ready \cup {t}
                            /\ sleeping' = sleeping \ {t}

\* give(n): notify_all.
GiveMany(n) ==
  /\ Outside # {}
  /\ n \in Amounts \ {1}
  /\ count + n <= MaxCount
  /\ count' = count + n
  /\ ready' = ready \cup sleeping
  /\ sleeping' = {}

\* take() is called.
Enter(t) ==
  /\ t \in Outside
  /\ ready' = ready \cup {t}
  /\ UNCHANGED <<count, sleeping>>

\* Mutant of TakeUnit: "if" in place of "while", so that a thread that was
\* woken does not look at the counter again.
TakeUnitBlindly(t) ==
  /\ t \in ready
  /\ count' = count - 1
  /\ ready' = ready \ {t}
  /\ UNCHANGED sleeping

\* The mutex is got and the counter is not zero.
TakeUnit(t) ==
  /\ t \in ready
  /\ count > 0
  /\ count' = count - 1
  /\ ready' = ready \ {t}
  /\ UNCHANGED sleeping

\* The mutex is got and the counter is zero: to sleep, also again.
Sleep(t) ==
  /\ t \in ready
  /\ count = 0
  /\ ready' = ready \ {t}
  /\ sleeping' = sleeping \cup {t}
  /\ UNCHANGED count

\* A condition variable may wake a thread that nobody notified.
WakeSpuriously(t) ==
  /\ t \in sleeping
  /\ ready' = ready \cup {t}
  /\ sleeping' = sleeping \ {t}
  /\ UNCHANGED count

TakeAll ==
  /\ Outside # {}
  /\ count' = 0
  /\ UNCHANGED <<ready, sleeping>>

Next == \/ GiveOne
        \/ \E n \in Amounts : GiveMany(n)
        \/ TakeAll
        \/ \E t \in Thread : Enter(t) \/ TakeUnit(t) \/ Sleep(t) \/ WakeSpuriously(t)

Spec == Init /\ [][Next]_vars

\* A thread that wants the mutex gets it; nothing else has to happen, and no
\* thread wakes up unless it is notified.
FairSpec == Spec /\ \A t \in Thread : WF_vars(TakeUnit(t) \/ Sleep(t))

-----------------------------------------------------------------------------
\* Types; the counter is a size_t and must not go below zero.
TypeOK == /\ count \in Nat
          /\ ready \subseteq Thread
          /\ sleeping \subseteq Thread \ ready

\* No wake-up is lost: while a thread sleeps in take(), every unit has a
\* thread that is awake and on its way to it, whoever was notified for it
\* and whoever came in between (SpartaWorkQueue.h:64-80).
NoLostWakeup == sleeping # {} => count <= Cardinality(ready)

\* The semaphore is a counting semaphore.
Counting == INSTANCE CountingSemaphore WITH takers <- ready \cup sleeping
ImplementsCounting == Counting!Spec

\* The same without fairness: every step is a step of the counter or none.
CountingSafely == Counting!Init /\ [][Counting!Next]_(Counting!vars)
=============================================================================
