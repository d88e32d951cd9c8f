--------------------------- MODULE SemaphoreProofs ---------------------------
(***************************************************************************)
(* Proofs about Semaphore, for any finite set of threads and any amounts:  *)
(* no wake-up is lost, and every step is one of a counting semaphore.      *)
(***************************************************************************)
EXTENDS Semaphore, FiniteSetTheorems, TLAPS

\* Threads in take() are finitely many, so they can be counted.
LEMMA ReadyFinite ==
  ASSUME TypeOK
  PROVE  IsFiniteSet(ready) /\ Cardinality(ready) \in Nat
BY ThreadAssumption, FS_Subset, FS_CardinalityType DEF TypeOK

\* A thread that leaves "ready" is one less to count.
LEMMA OneLess ==
  ASSUME TypeOK, NEW t \in ready
  PROVE  Cardinality(ready \ {t}) = Cardinality(ready) - 1
BY ReadyFinite, FS_RemoveElement

\* A thread that is woken is one more to count.
LEMMA OneMore ==
  ASSUME TypeOK, NEW t \in sleeping
  PROVE  Cardinality(ready \cup {t}) = Cardinality(ready) + 1
<1>1. t \notin ready
  BY DEF TypeOK
<1> QED
  BY <1>1, ReadyFinite, FS_AddElement

\* Type correctness: the counter of the semaphore never goes below zero.
THEOREM TypeCorrect == Spec => []TypeOK
<1>1. Init => TypeOK
  BY DEF Init, TypeOK
<1>2. TypeOK /\ [Next]_vars => TypeOK'
  <2> SUFFICES ASSUME TypeOK, [Next]_vars PROVE TypeOK'
    OBVIOUS
  <2> USE DEF TypeOK, Outside
  <2>1. CASE GiveOne
    BY <2>1 DEF GiveOne
  <2>2. ASSUME NEW n \in Amounts, GiveMany(n) PROVE TypeOK'
    BY <2>2, AmountsAssumption DEF GiveMany
  <2>3. CASE TakeAll
    BY <2>3 DEF TakeAll
  <2>4. ASSUME NEW t \in Thread, Enter(t) PROVE TypeOK'
    BY <2>4 DEF Enter
  <2>5. ASSUME NEW t \in Thread, TakeUnit(t) PROVE TypeOK'
    BY <2>5 DEF TakeUnit
  <2>6. ASSUME NEW t \in Thread, Sleep(t) PROVE TypeOK'
    BY <2>6 DEF Sleep
  <2>7. ASSUME NEW t \in Thread, WakeSpuriously(t) PROVE TypeOK'
    BY <2>7 DEF WakeSpuriously
  <2>8. CASE UNCHANGED vars
    BY <2>8 DEF vars
  <2> QED
    BY <2>1, <2>2, <2>3, <2>4, <2>5, <2>6, <2>7, <2>8 DEF Next
<1> QED
  BY <1>1, <1>2, PTL DEF Spec

\* A step keeps every unit in sight of a thread that is awake.
LEMMA NoLostWakeupStep ==
  ASSUME TypeOK, TypeOK', NoLostWakeup, [Next]_vars
  PROVE  NoLostWakeup'
<1> USE DEF NoLostWakeup
<1>1. /\ IsFiniteSet(ready) /\ Cardinality(ready) \in Nat
      /\ count \in Nat
  BY ReadyFinite DEF TypeOK
<1>2. CASE GiveOne
  <2>1. CASE sleeping = {} /\ UNCHANGED <<ready, sleeping>>
    BY <2>1
  <2>2. ASSUME NEW t \in sleeping, ready' = ready \cup {t}, sleeping' = sleeping \ {t}
        PROVE  NoLostWakeup'
    BY <1>1, <1>2, <2>2, OneMore DEF GiveOne
  <2> QED
    BY <1>2, <2>1, <2>2 DEF GiveOne
<1>3. ASSUME NEW n \in Amounts, GiveMany(n) PROVE NoLostWakeup'
  BY <1>3 DEF GiveMany
<1>4. CASE TakeAll
  BY <1>1, <1>4 DEF TakeAll
<1>5. ASSUME NEW t \in Thread, Enter(t) PROVE NoLostWakeup'
  <2>1. t \notin ready /\ count' = count /\ sleeping' = sleeping /\ ready' = ready \cup {t}
    BY <1>5 DEF Enter, Outside
  <2>2. Cardinality(ready') = Cardinality(ready) + 1
    BY <1>1, <2>1, FS_AddElement
  <2> QED
    BY <1>1, <2>1, <2>2
<1>6. ASSUME NEW t \in Thread, TakeUnit(t) PROVE NoLostWakeup'
  <2>1. Cardinality(ready') = Cardinality(ready) - 1
    BY <1>6, OneLess DEF TakeUnit
  <2> QED
    BY <1>1, <1>6, <2>1 DEF TakeUnit
<1>7. ASSUME NEW t \in Thread, Sleep(t) PROVE NoLostWakeup'
  <2>1. Cardinality(ready') \in Nat /\ count' = 0
    BY <1>7, OneLess, <1>1, FS_RemoveElement, FS_CardinalityType DEF Sleep
  <2> QED
    BY <2>1
<1>8. ASSUME NEW t \in Thread, WakeSpuriously(t) PROVE NoLostWakeup'
  <2>1. Cardinality(ready') = Cardinality(ready) + 1
    BY <1>8, OneMore DEF WakeSpuriously
  <2> QED
    BY <1>1, <1>8, <2>1 DEF WakeSpuriously
<1>9. CASE UNCHANGED vars
  BY <1>9 DEF vars
<1> QED
  BY <1>2, <1>3, <1>4, <1>5, <1>6, <1>7, <1>8, <1>9 DEF Next

\* No wake-up is lost.
THEOREM WakeupsKept == Spec => []NoLostWakeup
<1>1. Init => NoLostWakeup
  BY DEF Init, NoLostWakeup
<1>2. TypeOK /\ TypeOK' /\ NoLostWakeup /\ [Next]_vars => NoLostWakeup'
  BY NoLostWakeupStep
<1> QED
  BY <1>1, <1>2, TypeCorrect, PTL DEF Spec

\* The semaphore's code takes only steps of a counting semaphore: falling
\* asleep and waking up change nothing a caller can see.
THEOREM StepsAreCounting == Spec => CountingSafely
<1> USE DEF Counting!vars
<1>1. Init => Counting!Init
  BY DEF Init, Counting!Init
<1>2. TypeOK /\ [Next]_vars => [Counting!Next]_(Counting!vars)
  <2> SUFFICES ASSUME TypeOK, [Next]_vars PROVE [Counting!Next]_(Counting!vars)
    OBVIOUS
  <2> USE DEF TypeOK, Outside
  <2>1. CASE GiveOne
    <3>1. Counting!Give(1)
      BY <2>1 DEF GiveOne, Counting!Give
    <3> QED
      BY <2>1, <3>1 DEF GiveOne, Counting!Next
  <2>2. ASSUME NEW n \in Amounts, GiveMany(n) PROVE Counting!Next
    <3>1. Counting!Give(n)
      BY <2>2 DEF GiveMany, Counting!Give
    <3> QED
      BY <3>1 DEF Counting!Next
  <2>3. CASE TakeAll
    <3>1. Counting!TakeAll
      BY <2>3 DEF TakeAll, Counting!TakeAll
    <3> QED
      BY <3>1 DEF Counting!Next
  <2>4. ASSUME NEW t \in Thread, Enter(t) PROVE Counting!Next
    <3>1. Counting!Enter(t)
      BY <2>4 DEF Enter, Counting!Enter
    <3> QED
      BY <3>1 DEF Counting!Next
  <2>5. ASSUME NEW t \in Thread, TakeUnit(t) PROVE Counting!Next
    <3>1. Counting!Take(t)
      BY <2>5 DEF TakeUnit, Counting!Take
    <3> QED
      BY <3>1 DEF Counting!Next
  <2>6. ASSUME NEW t \in Thread, Sleep(t) PROVE UNCHANGED Counting!vars
    BY <2>6 DEF Sleep
  <2>7. ASSUME NEW t \in Thread, WakeSpuriously(t) PROVE UNCHANGED Counting!vars
    BY <2>7 DEF WakeSpuriously
  <2>8. CASE UNCHANGED vars
    BY <2>8 DEF vars
  <2> QED
    BY <2>1, <2>2, <2>3, <2>4, <2>5, <2>6, <2>7, <2>8 DEF Next
<1> QED
  BY <1>1, <1>2, TypeCorrect, PTL DEF Spec, CountingSafely
=============================================================================
