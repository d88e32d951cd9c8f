---------------------- MODULE PriorityThreadPoolProofs ----------------------
(***************************************************************************)
(* Proofs about PriorityThreadPool: for any number of threads, any work    *)
(* items and any priorities no wake-up is lost, nothing is left after the  *)
(* shutdown, and the most urgent item goes first.                          *)
(***************************************************************************)
EXTENDS PriorityThreadPool, FiniteSetTheorems, SequenceTheorems, TLAPS

\* m_running_work_items is the number of threads that run a work item.
RunningExact == running = Cardinality(At("run"))

\* What the place and the call of the owner say of the shutdown.
ShutdownKnown ==
  /\ main \in {"new", "open"} => ~shutdown
  /\ main \in {"test", "asleep"} => call # "none" /\ (shutdown <=> call = "close")
  /\ main \in {"threads", "closed"} => shutdown
  /\ main = "new" => \A t \in Thread : pc[t] = "absent"

\* The map iterates from the highest priority on.
Sorted == \A i, j \in 1 .. Len(pending) : i < j => pending[i].prio >= pending[j].prio

\* The inductive invariant.
Inv == /\ TypeOK
       /\ RunningExact
       /\ NoSleeperForgotten
       /\ NothingAfterShutdown
       /\ ShutdownKnown
       /\ Sorted

-----------------------------------------------------------------------------
(* Posting keeps the order.                                                *)

\* A set of indices with every index below one of its own is an interval.
LEMMA Prefix ==
  ASSUME NEW n \in Nat, NEW D \in SUBSET (1 .. n),
         \A j \in D : \A i \in 1 .. n : i <= j => i \in D
  PROVE  /\ Cardinality(D) \in 0 .. n
         /\ \A i \in 1 .. n : i \in D <=> i <= Cardinality(D)
<1>1. IsFiniteSet(1 .. n) /\ Cardinality(1 .. n) = n
  BY FS_Interval
<1>2. IsFiniteSet(D) /\ Cardinality(D) \in Nat /\ Cardinality(D) <= n
  BY <1>1, FS_Subset, FS_CardinalityType
<1>3. ASSUME NEW i \in 1 .. n, i \in D  PROVE i <= Cardinality(D)
  <2>1. (1 .. i) \in SUBSET D
    BY <1>3
  <2>2. Cardinality(1 .. i) = i
    BY FS_Interval
  <2> QED
    BY <1>2, <2>1, <2>2, FS_Subset
<1>4. ASSUME NEW i \in 1 .. n, i \notin D  PROVE ~(i <= Cardinality(D))
  <2> DEFINE I == 1 .. i - 1
  <2>1. D \in SUBSET I
    BY <1>4
  <2>2. IsFiniteSet(I) /\ Cardinality(I) = i - 1
    BY FS_Interval
  <2> HIDE DEF I
  <2>3. Cardinality(D) <= i - 1
    BY <2>1, <2>2, FS_Subset
  <2> QED
    BY <1>2, <2>3
<1> QED
  BY <1>2, <1>3, <1>4

\* A push lengthens the pending items by one and keeps them in order.
LEMMA EnqueueSorted ==
  ASSUME NEW s \in Seq(Item), NEW e \in Item,
         \A i, j \in 1 .. Len(s) : i < j => s[i].prio >= s[j].prio
  PROVE  /\ Enqueue(s, e) \in Seq(Item)
         /\ Len(Enqueue(s, e)) = Len(s) + 1
         /\ \A i, j \in 1 .. Len(s) + 1 :
              i < j => Enqueue(s, e)[i].prio >= Enqueue(s, e)[j].prio
<1> DEFINE n == Len(s)
           D == {j \in DOMAIN s : s[j].prio >= e.prio}
           k == Cardinality(D)
           q == Enqueue(s, e)
<1>1. n \in Nat /\ DOMAIN s = 1 .. n /\ \A j \in 1 .. n : s[j] \in Item /\ s[j].prio \in Int
  <2>1. n \in Nat /\ s \in [1 .. n -> Item]
    BY LenProperties
  <2> QED
    BY <2>1, PriorityAssumption DEF Item
<1>2. e.prio \in Int
  BY PriorityAssumption DEF Item
<1>3. D \in SUBSET (1 .. n) /\ \A j \in D : \A i \in 1 .. n : i <= j => i \in D
  BY <1>1, <1>2
<1>4. q = [j \in 1 .. n + 1 |-> IF j <= k THEN s[j] ELSE IF j = k + 1 THEN e ELSE s[j - 1]]
  BY DEF Enqueue
<1>5. \A j \in 1 .. n : s[j].prio >= e.prio <=> j \in D
  BY <1>1
<1> HIDE DEF D, n, q
<1>6. k \in 0 .. n /\ \A i \in 1 .. n : i \in D <=> i <= k
  BY <1>1, <1>3, Prefix
<1> HIDE DEF k
<1>7. \A j \in 1 .. n + 1 : q[j] \in Item
  BY <1>1, <1>4, <1>6
<1>8. q \in [1 .. n + 1 -> Item] /\ n + 1 \in Nat
  BY <1>1, <1>4, <1>7
<1>9. q \in Seq(Item)
  BY <1>8, SeqDef
<1>10. Len(q) = n + 1
  BY <1>8, <1>9, LenProperties
<1>11. ASSUME NEW i \in 1 .. n + 1, NEW j \in 1 .. n + 1, i < j
       PROVE  q[i].prio >= q[j].prio
  <2>1. CASE j <= k
    BY <1>1, <1>4, <1>6, <1>11, <2>1 DEF n
  <2>2. CASE j = k + 1
    <3>1. q[i] = s[i] /\ q[j] = e /\ i \in 1 .. n /\ i <= k
      BY <1>1, <1>4, <1>6, <1>11, <2>2
    <3> QED
      BY <3>1, <1>5, <1>6
  <2>3. CASE j > k + 1 /\ i = k + 1
    <3>1. q[i] = e /\ q[j] = s[j - 1] /\ j - 1 \in 1 .. n /\ ~(j - 1 <= k)
      BY <1>1, <1>4, <1>6, <1>11, <2>3
    <3>2. ~(s[j - 1].prio >= e.prio)
      BY <3>1, <1>5, <1>6
    <3> QED
      BY <1>1, <1>2, <3>1, <3>2
  <2>4. CASE j > k + 1 /\ i # k + 1
    <3> DEFINE h == IF i <= k THEN i ELSE i - 1
    <3>1. q[i] = s[h] /\ q[j] = s[j - 1] /\ h \in 1 .. n /\ j - 1 \in 1 .. n /\ h < j - 1
      BY <1>1, <1>4, <1>6, <1>11, <2>4
    <3> HIDE DEF h
    <3> QED
      BY <3>1 DEF n
  <2> QED
    BY <1>1, <1>6, <2>1, <2>2, <2>3, <2>4
<1> QED
  BY <1>9, <1>10, <1>11 DEF n, q

\* A fetch shortens them by one and keeps them in order.
LEMMA TailSorted ==
  ASSUME Inv, pending # <<>>, pending' = Tail(pending)
  PROVE  /\ pending' \in Seq(Item) /\ Len(pending') = Len(pending) - 1
         /\ Head(pending) \in Item
         /\ Sorted'
<1>1. pending \in Seq(Item)
  BY DEF Inv, TypeOK
<1>2. /\ Tail(pending) \in Seq(Item) /\ Head(pending) \in Item
      /\ Len(Tail(pending)) = Len(pending) - 1 /\ Len(pending) \in Nat
      /\ \A i \in 1 .. Len(Tail(pending)) : Tail(pending)[i] = pending[i + 1]
  BY <1>1, HeadTailProperties, LenProperties
<1>3. \A i, j \in 1 .. Len(pending) - 1 : i < j => Tail(pending)[i].prio >= Tail(pending)[j].prio
  BY <1>2 DEF Inv, Sorted
<1> QED
  BY <1>2, <1>3 DEF Sorted

-----------------------------------------------------------------------------
(* Counting threads.                                                       *)

Labels == {"absent", "fetch", "asleep", "run", "exited"}

\* The threads at a label are finitely many.
LEMMA AtFinite ==
  ASSUME TypeOK, NEW m
  PROVE  /\ IsFiniteSet(At(m)) /\ Cardinality(At(m)) \in Nat
         /\ Cardinality(At(m)) = 0 <=> At(m) = {}
<1>1. At(m) \in SUBSET Thread
  BY DEF At
<1>2. IsFiniteSet(At(m))
  BY <1>1, ThreadAssumption, FS_Subset
<1> QED
  BY <1>2, FS_CardinalityType, FS_EmptySet

\* The threads at m when t has gone from one label to another.
Moved(m, t, old, new) ==
  IF m = old THEN At(old) \ {t} ELSE IF m = new THEN At(new) \cup {t} ELSE At(m)

\* A thread that goes from one label to another is one less there and one
\* more here.
LEMMA Goes ==
  ASSUME TypeOK, NEW t \in Thread, NEW old \in Labels, NEW new \in Labels,
         pc[t] = old, old # new, pc' = [pc EXCEPT ![t] = new]
  PROVE  /\ pc' \in [Thread -> Labels]
         /\ At("fetch")' = Moved("fetch", t, old, new)
         /\ At("asleep")' = Moved("asleep", t, old, new)
         /\ At("run")' = Moved("run", t, old, new)
         /\ At("exited")' = Moved("exited", t, old, new)
         /\ At(old) # {}
         /\ Cardinality(At(old) \ {t}) = Cardinality(At(old)) - 1
         /\ Cardinality(At(new) \cup {t}) = Cardinality(At(new)) + 1
<1>1. pc' \in [Thread -> Labels] /\ t \in At(old) /\ t \notin At(new)
  BY DEF TypeOK, At, Labels
<1>2. ASSUME NEW m  PROVE At(m)' = Moved(m, t, old, new)
  BY DEF TypeOK, At, Moved
<1>3. IsFiniteSet(At(old)) /\ IsFiniteSet(At(new))
  BY AtFinite
<1> QED
  BY <1>1, <1>2, <1>3, FS_AddElement, FS_RemoveElement

\* When all sleepers wake, nobody sleeps, and where nobody came from or went
\* to there are the same threads.
LEMMA WakeAll ==
  ASSUME TypeOK, ShutDown
  PROVE  /\ pc' \in [Thread -> Labels] /\ shutdown' = TRUE
         /\ At("asleep")' = {}
         /\ At("run")' = At("run") /\ At("exited")' = At("exited")
BY DEF TypeOK, ShutDown, At, Labels

-----------------------------------------------------------------------------
(* One lemma for each action.                                              *)

\* The pool starts empty.
LEMMA InitInv == Init => Inv
<1> SUFFICES ASSUME Init  PROVE Inv
  OBVIOUS
<1>1. \A m : m # "absent" => At(m) = {}
  BY DEF Init, At
<1>2. Cardinality({}) = 0 /\ Len(<<>>) = 0 /\ <<>> \in Seq(Item)
  BY FS_EmptySet, EmptySeq
<1>3. TypeOK
  BY <1>2 DEF Init, TypeOK
<1>4. At("run") = {} /\ At("asleep") = {} /\ At("exited") = {} /\ Cardinality(At("run")) = 0
  BY <1>1, <1>2
<1>5. Sorted
  BY <1>2 DEF Init, Sorted
<1> QED
  BY <1>3, <1>4, <1>5 DEF Init, Inv, RunningExact, NoSleeperForgotten, NothingAfterShutdown,
                          ShutdownKnown

\* Starting the threads.
LEMMA SetNumThreadsInv ==
  ASSUME Inv, SetNumThreads
  PROVE  Inv'
<1>1. At("run")' = {} /\ At("run") = {} /\ At("asleep")' = {} /\ At("exited")' = {}
  BY DEF SetNumThreads, At, Inv, ShutdownKnown
<1>2. TypeOK'
  BY DEF SetNumThreads, Inv, TypeOK
<1> QED
  BY <1>1, <1>2 DEF SetNumThreads, Inv, RunningExact, NoSleeperForgotten, NothingAfterShutdown,
                    ShutdownKnown, Sorted, Idle

\* A post wakes one sleeper for the item it adds.
LEMMA PostInv ==
  ASSUME Inv, NEW p \in Priority, NEW w \in Work, Post(p, w), main # "new"
  PROVE  Inv'
<1> DEFINE e == [prio |-> p, work |-> w]
<1>0. TypeOK /\ Sorted /\ e \in Item /\ pending \in Seq(Item) /\ Len(pending) \in Nat
  BY LenProperties DEF Inv, TypeOK, Item
<1>1. /\ pending' \in Seq(Item) /\ Len(pending') = Len(pending) + 1
      /\ pending' # <<>> /\ Sorted'
  <2>1. pending' = Enqueue(pending, e)
    BY DEF Post
  <2>2. /\ Enqueue(pending, e) \in Seq(Item) /\ Len(Enqueue(pending, e)) = Len(pending) + 1
        /\ \A i, j \in 1 .. Len(pending) + 1 :
             i < j => Enqueue(pending, e)[i].prio >= Enqueue(pending, e)[j].prio
    BY <1>0, EnqueueSorted DEF Sorted
  <2> QED
    BY <1>0, <2>1, <2>2, EmptySeq DEF Sorted
<1>2. /\ ~shutdown /\ shutdown' = shutdown /\ running' = running
      /\ work' = work /\ main' = main /\ call' = call /\ posted' = posted \cup {w}
  BY DEF Post
<1>3. main \notin {"threads", "closed"} /\ At("exited") = {}
  BY <1>2 DEF Inv, ShutdownKnown, NothingAfterShutdown
<1>4. CASE At("asleep") = {}
  <2>1. pc' = pc
    BY <1>4 DEF Post, NotifyWork
  <2>2. /\ At("run")' = At("run") /\ At("asleep")' = At("asleep")
        /\ At("exited")' = At("exited")
    BY <2>1 DEF At
  <2>3. TypeOK'
    BY <1>1, <1>2, <2>1 DEF Inv, TypeOK
  <2> QED
    BY <1>0, <1>1, <1>2, <1>3, <1>4, <2>2, <2>3
    DEF Inv, RunningExact, NoSleeperForgotten, NothingAfterShutdown, ShutdownKnown, Idle
<1>5. ASSUME NEW t \in At("asleep"), pc' = [pc EXCEPT ![t] = "fetch"]  PROVE Inv'
  <2>1. t \in Thread /\ pc[t] = "asleep" /\ "asleep" \in Labels /\ "fetch" \in Labels
    BY DEF At, Labels
  <2>2. /\ pc' \in [Thread -> Labels]
        /\ At("run")' = At("run") /\ At("exited")' = At("exited")
        /\ At("fetch")' = At("fetch") \cup {t}
        /\ Cardinality(At("fetch") \cup {t}) = Cardinality(At("fetch")) + 1
    <3>1. /\ pc' \in [Thread -> Labels]
          /\ At("fetch")' = Moved("fetch", t, "asleep", "fetch")
          /\ At("run")' = Moved("run", t, "asleep", "fetch")
          /\ At("exited")' = Moved("exited", t, "asleep", "fetch")
          /\ Cardinality(At("fetch") \cup {t}) = Cardinality(At("fetch")) + 1
      <4>1. TypeOK /\ pc' = [pc EXCEPT ![t] = "fetch"] /\ "asleep" # "fetch"
        BY <1>0, <1>5
      <4> HIDE DEF e
      <4> QED
        BY <2>1, <4>1, Goes
    <3>2. /\ Moved("run", t, "asleep", "fetch") = At("run")
          /\ Moved("exited", t, "asleep", "fetch") = At("exited")
          /\ Moved("fetch", t, "asleep", "fetch") = At("fetch") \cup {t}
      BY DEF Moved
    <3> QED
      BY <3>1, <3>2
  <2>3. Len(pending') <= Cardinality(At("fetch")')
    <3>1. Cardinality(At("fetch")) \in Nat /\ Len(pending) <= Cardinality(At("fetch"))
      BY <1>0, <1>5, AtFinite DEF Inv, NoSleeperForgotten
    <3>2. Cardinality(At("fetch")') = Cardinality(At("fetch")) + 1
      BY <2>2
    <3>3. Len(pending') = Len(pending) + 1 /\ Len(pending) \in Nat
      BY <1>0, <1>1
    <3> QED
      BY <3>1, <3>2, <3>3
  <2>4. TypeOK'
    BY <1>1, <1>2, <2>2 DEF Inv, TypeOK, Labels
  <2> QED
    BY <1>0, <1>1, <1>2, <1>3, <2>2, <2>3, <2>4
    DEF Inv, RunningExact, NoSleeperForgotten, NothingAfterShutdown, ShutdownKnown, Idle
<1> QED
  BY <1>4, <1>5 DEF Post, NotifyWork

\* A fetch takes one item and one thread that was about to look for work.
LEMMA FetchInv ==
  ASSUME Inv, NEW t \in Thread, Fetch(t)
  PROVE  Inv'
<1>0. TypeOK /\ Sorted /\ pending # <<>> /\ pc[t] = "fetch" /\ running' = running + 1
  BY DEF Inv, Fetch
<1>1. /\ pending' \in Seq(Item) /\ Len(pending') = Len(pending) - 1 /\ Len(pending) \in Nat
      /\ Head(pending).work \in Work /\ Sorted'
  BY <1>0, TailSorted, LenProperties DEF Fetch, TypeOK, Item
<1>2. /\ pc' \in [Thread -> Labels]
      /\ At("run")' = At("run") \cup {t} /\ At("fetch")' = At("fetch") \ {t}
      /\ At("asleep")' = At("asleep") /\ At("exited")' = At("exited")
      /\ Cardinality(At("run") \cup {t}) = Cardinality(At("run")) + 1
      /\ Cardinality(At("fetch") \ {t}) = Cardinality(At("fetch")) - 1
  BY <1>0, Goes DEF Fetch, Moved, Labels
<1>3. /\ Cardinality(At("run")) \in Nat /\ Cardinality(At("fetch")) \in Nat
      /\ Cardinality(At("run")') = Cardinality(At("run")) + 1
      /\ Cardinality(At("fetch")') = Cardinality(At("fetch")) - 1
  BY <1>0, <1>2, AtFinite
<1>4. TypeOK'
  BY <1>1, <1>2 DEF Inv, TypeOK, Fetch, Labels
<1>5. running' # 0 /\ RunningExact'
  BY <1>0, <1>3 DEF Inv, RunningExact
<1>6. ~(shutdown /\ call = "join") /\ At("exited") = {} /\ main \notin {"threads", "closed"}
  BY <1>0 DEF Inv, NothingAfterShutdown, Idle
<1>7. At("asleep") # {} => Len(pending') <= Cardinality(At("fetch")')
  BY <1>1, <1>3 DEF Inv, NoSleeperForgotten
<1>8. main # "new"
  BY <1>0 DEF Inv, ShutdownKnown
<1> QED
  BY <1>1, <1>2, <1>4, <1>5, <1>6, <1>7, <1>8
  DEF Fetch, Inv, NoSleeperForgotten, NothingAfterShutdown, ShutdownKnown, Idle

\* What every step of one thread that neither takes nor posts an item keeps.
LEMMA MoveKeeps ==
  ASSUME Inv, NEW t \in Thread, NEW old \in Labels, NEW new \in Labels \ {"absent"},
         pc[t] = old, old # new, old # "absent", pc' = [pc EXCEPT ![t] = new],
         UNCHANGED <<pending, shutdown, call, posted>>,
         running' \in Nat, work' \in [Thread -> Work \cup {NoWork}],
         main' \in {main, "test"}, main' # main => main = "asleep"
  PROVE  TypeOK' /\ ShutdownKnown' /\ Sorted'
<1>1. pc' \in [Thread -> Labels]
  BY Goes DEF Inv
<1>2. TypeOK'
  BY <1>1 DEF Inv, TypeOK, Labels
<1> QED
  BY <1>2 DEF Inv, ShutdownKnown, Sorted

\* A thread falls asleep only when nothing is pending.
LEMMA SleepInv ==
  ASSUME Inv, NEW t \in Thread, Sleep(t)
  PROVE  Inv'
<1>0. TypeOK /\ pending = <<>> /\ ~shutdown /\ pc[t] = "fetch"
  BY DEF Inv, Sleep
<1>1. /\ At("run")' = At("run") /\ At("exited")' = At("exited")
      /\ At("fetch")' = At("fetch") \ {t} /\ At("fetch") # {}
      /\ Cardinality(At("fetch") \ {t}) = Cardinality(At("fetch")) - 1
  BY <1>0, Goes DEF Sleep, Moved, Labels
<1>2. TypeOK' /\ ShutdownKnown' /\ Sorted'
  BY <1>0, MoveKeeps DEF Sleep, Labels, Inv, TypeOK
<1>3. Cardinality(At("fetch")') \in Nat
  <2>1. Cardinality(At("fetch")) \in Nat \ {0}
    BY <1>0, <1>1, AtFinite
  <2>2. Cardinality(At("fetch")') = Cardinality(At("fetch")) - 1
    BY <1>1
  <2> QED
    BY <2>1, <2>2
<1>4. Len(pending') <= Cardinality(At("fetch")')
  BY <1>0, <1>3, EmptySeq DEF Sleep
<1>5. main \notin {"threads", "closed"}
  BY <1>0 DEF Inv, ShutdownKnown
<1> QED
  BY <1>0, <1>1, <1>2, <1>4, <1>5
  DEF Sleep, Inv, RunningExact, NoSleeperForgotten, NothingAfterShutdown, Idle

\* A thread that wakes up looks for work.
LEMMA WakeSpuriouslyInv ==
  ASSUME Inv, NEW t \in Thread, WakeSpuriously(t)
  PROVE  Inv'
<1>0. TypeOK /\ pc[t] = "asleep"
  BY DEF Inv, WakeSpuriously
<1>1. /\ At("run")' = At("run") /\ At("exited")' = At("exited")
      /\ At("asleep")' = At("asleep") \ {t} /\ At("asleep") # {}
      /\ At("fetch")' = At("fetch") \cup {t}
      /\ Cardinality(At("fetch") \cup {t}) = Cardinality(At("fetch")) + 1
  BY <1>0, Goes DEF WakeSpuriously, Moved, Labels
<1>2. TypeOK' /\ ShutdownKnown' /\ Sorted'
  BY <1>0, MoveKeeps DEF WakeSpuriously, Labels, Inv, TypeOK
<1>3. Cardinality(At("fetch")') = Cardinality(At("fetch")) + 1 /\ Cardinality(At("fetch")) \in Nat
  BY <1>0, <1>1, AtFinite
<1>4. pending' = pending /\ pending \in Seq(Item) /\ Len(pending) \in Nat
  BY <1>0, LenProperties DEF WakeSpuriously, TypeOK
<1>5. Len(pending') <= Cardinality(At("fetch")') /\ ~shutdown
  BY <1>1, <1>3, <1>4 DEF Inv, NoSleeperForgotten
<1> QED
  BY <1>1, <1>2, <1>5
  DEF WakeSpuriously, Inv, RunningExact, NoSleeperForgotten, NothingAfterShutdown, Idle

\* A thread leaves only after the shutdown and when nothing is pending.
LEMMA LeaveInv ==
  ASSUME Inv, NEW t \in Thread, Leave(t)
  PROVE  Inv'
<1>0. TypeOK /\ pc[t] = "fetch" /\ pending = <<>> /\ shutdown
  BY DEF Inv, Leave
<1>1. At("run")' = At("run") /\ At("asleep")' = At("asleep")
  BY <1>0, Goes DEF Leave, Moved, Labels
<1>2. TypeOK' /\ ShutdownKnown' /\ Sorted'
  BY <1>0, MoveKeeps DEF Leave, Labels, Inv, TypeOK
<1> QED
  BY <1>0, <1>1, <1>2
  DEF Leave, Inv, RunningExact, NoSleeperForgotten, NothingAfterShutdown, Idle

\* Who runs the last item wakes the owner.
LEMMA FinishInv ==
  ASSUME Inv, NEW t \in Thread, Finish(t)
  PROVE  Inv'
<1>0. TypeOK /\ pc[t] = "run" /\ pending' = pending /\ running' = running - 1
  BY DEF Inv, Finish
<1>1. /\ At("run")' = At("run") \ {t} /\ At("exited")' = At("exited") /\ At("run") # {}
      /\ At("asleep")' = At("asleep") /\ At("fetch")' = At("fetch") \cup {t}
      /\ Cardinality(At("run") \ {t}) = Cardinality(At("run")) - 1
      /\ Cardinality(At("fetch") \cup {t}) = Cardinality(At("fetch")) + 1
  BY <1>0, Goes DEF Finish, Moved, Labels
<1>2. /\ Cardinality(At("run")') = Cardinality(At("run")) - 1
      /\ Cardinality(At("run")) \in Nat \ {0}
      /\ Cardinality(At("fetch")') = Cardinality(At("fetch")) + 1
      /\ Cardinality(At("fetch")) \in Nat
  BY <1>0, <1>1, AtFinite
<1>3. running' \in Nat /\ RunningExact'
  BY <1>0, <1>2 DEF Inv, RunningExact
<1>4. TypeOK' /\ ShutdownKnown' /\ Sorted'
  BY <1>0, <1>3, MoveKeeps DEF Finish, Labels, Inv, TypeOK
<1>5. pending \in Seq(Item) /\ Len(pending) \in Nat
  BY <1>0, LenProperties DEF TypeOK
<1>6. NoSleeperForgotten'
  <2>1. At("asleep")' # {} => Len(pending') <= Cardinality(At("fetch")') /\ ~shutdown'
    BY <1>0, <1>1, <1>2, <1>5 DEF Inv, NoSleeperForgotten, Finish
  <2>2. running \in Nat
    BY <1>0 DEF TypeOK
  <2>3. main' = "asleep" => main = "asleep" /\ ~(running = 1 /\ pending = <<>>)
    BY DEF Finish
  <2>4. main' = "asleep" => ~Idle'
    BY <1>0, <2>2, <2>3 DEF Idle
  <2> QED
    BY <2>1, <2>4 DEF NoSleeperForgotten
<1>7. NothingAfterShutdown'
  <2>1. main' \in {"threads", "closed"} => main = main'
    BY DEF Finish
  <2> QED
    BY <1>0, <1>1, <2>1 DEF Inv, NothingAfterShutdown, Finish
<1> QED
  BY <1>3, <1>4, <1>6, <1>7 DEF Inv

\* Steps of the owner that leave the pool alone.
LEMMA OwnerInv ==
  ASSUME Inv, Wait \/ Join \/ WaitSleep \/ OwnerWakesSpuriously \/ Joined
  PROVE  Inv'
<1>1. /\ At("run")' = At("run") /\ At("asleep")' = At("asleep") /\ At("exited")' = At("exited")
      /\ At("fetch")' = At("fetch")
  BY DEF At, Wait, Join, WaitSleep, OwnerWakesSpuriously, Joined
<1>2. TypeOK'
  BY DEF Inv, TypeOK, Wait, Join, WaitSleep, OwnerWakesSpuriously, Joined
<1>3. ShutdownKnown' /\ Sorted' /\ RunningExact'
  BY <1>1 DEF Inv, ShutdownKnown, Sorted, RunningExact, Wait, Join, WaitSleep,
              OwnerWakesSpuriously, Joined
<1>4. NoSleeperForgotten'
  BY <1>1 DEF Inv, NoSleeperForgotten, Idle, Wait, Join, WaitSleep, OwnerWakesSpuriously, Joined
<1>5. NothingAfterShutdown'
  BY <1>1 DEF Inv, NothingAfterShutdown, ShutdownKnown, Idle, Wait, Join, WaitSleep,
              OwnerWakesSpuriously, Joined
<1> QED
  BY <1>2, <1>3, <1>4, <1>5 DEF Inv

\* join(false) wakes all sleepers.
LEMMA JoinNoNewWorkInv ==
  ASSUME Inv, JoinNoNewWork
  PROVE  Inv'
<1>0. TypeOK /\ ShutDown /\ main = "open"
  BY DEF Inv, JoinNoNewWork
<1>1. /\ pc' \in [Thread -> Labels] /\ shutdown' = TRUE /\ At("asleep")' = {}
      /\ At("run")' = At("run") /\ At("exited")' = At("exited")
  BY <1>0, WakeAll
<1>2. TypeOK'
  BY <1>1 DEF Inv, TypeOK, JoinNoNewWork, Labels
<1>3. At("exited") = {}
  BY <1>0 DEF Inv, ShutdownKnown, NothingAfterShutdown
<1> QED
  BY <1>0, <1>1, <1>2, <1>3
  DEF JoinNoNewWork, Inv, RunningExact, NoSleeperForgotten, NothingAfterShutdown, ShutdownKnown,
      Sorted, Idle

\* wait() returns when nothing is pending or running, and within join() shuts
\* down at once.
LEMMA WaitDoneInv ==
  ASSUME Inv, WaitDone
  PROVE  Inv'
<1>0. TypeOK /\ main = "test" /\ Idle /\ At("run") = {}
  BY AtFinite DEF Inv, WaitDone, Idle, RunningExact
<1>1. CASE call = "join"
  <2>1. ShutDown
    BY <1>1 DEF WaitDone
  <2>2. /\ pc' \in [Thread -> Labels] /\ shutdown' = TRUE /\ At("asleep")' = {}
        /\ At("run")' = At("run") /\ At("exited")' = At("exited")
    BY <1>0, <2>1, WakeAll
  <2>3. TypeOK'
    BY <1>1, <2>2 DEF Inv, TypeOK, WaitDone, Labels
  <2> QED
    BY <1>0, <1>1, <2>2, <2>3
    DEF WaitDone, Inv, RunningExact, NoSleeperForgotten, NothingAfterShutdown, ShutdownKnown,
        Sorted, Idle
<1>2. CASE call # "join"
  <2>1. /\ At("run")' = At("run") /\ At("asleep")' = At("asleep")
        /\ At("exited")' = At("exited") /\ At("fetch")' = At("fetch")
    BY <1>2 DEF At, WaitDone
  <2>2. TypeOK'
    BY <1>2 DEF Inv, TypeOK, WaitDone
  <2>3. call \in {"wait", "close"} /\ (shutdown <=> call = "close")
    BY <1>0, <1>2 DEF Inv, ShutdownKnown, TypeOK
  <2> QED
    BY <1>0, <1>2, <2>1, <2>2, <2>3
    DEF WaitDone, Inv, RunningExact, NoSleeperForgotten, NothingAfterShutdown, ShutdownKnown,
        Sorted, Idle
<1> QED
  BY <1>1, <1>2

-----------------------------------------------------------------------------
(* The theorems.                                                           *)

\* Every step keeps the invariant.
LEMMA NextInv == Inv /\ [Next]_poolVars => Inv'
<1> SUFFICES ASSUME Inv, [Next]_poolVars  PROVE Inv'
  OBVIOUS
<1>1. CASE UNCHANGED poolVars
  <2>1. /\ At("run")' = At("run") /\ At("asleep")' = At("asleep")
        /\ At("exited")' = At("exited") /\ At("fetch")' = At("fetch")
    BY <1>1 DEF poolVars, At
  <2> QED
    BY <1>1, <2>1 DEF poolVars, Inv, TypeOK, RunningExact, NoSleeperForgotten,
                      NothingAfterShutdown, ShutdownKnown, Sorted, Idle
<1>2. CASE SetNumThreads
  BY <1>2, SetNumThreadsInv
<1>3. CASE Wait \/ Join \/ OwnerWakesSpuriously
  BY <1>3, OwnerInv
<1>4. CASE JoinNoNewWork
  BY <1>4, JoinNoNewWorkInv
<1>5. CASE OwnerNext
  BY <1>5, OwnerInv, WaitDoneInv DEF OwnerNext
<1>6. ASSUME NEW t \in Thread, ThreadNext(t) \/ WakeSpuriously(t)  PROVE Inv'
  BY <1>6, FetchInv, SleepInv, LeaveInv, FinishInv, WakeSpuriouslyInv DEF ThreadNext
<1>7. ASSUME NEW p \in Priority, NEW w \in Work, OwnerPosts(p, w)  PROVE Inv'
  BY <1>7, PostInv DEF OwnerPosts
<1>8. ASSUME NEW p \in Priority, NEW w \in Work, NEW t \in Thread, WorkPosts(t, p, w)
      PROVE  Inv'
  BY <1>8, PostInv DEF WorkPosts, Inv, ShutdownKnown
<1> QED
  BY <1>1, <1>2, <1>3, <1>4, <1>5, <1>6, <1>7, <1>8 DEF Next

\* For any number of threads: a thread sleeps only while those awake can take
\* all that is pending, and the owner only while something is left.
THEOREM NoWakeupLost == Spec => []NoSleeperForgotten
BY InitInv, NextInv, PTL DEF Spec, Inv

\* After the shutdown of a join() nothing is pending or running: the
\* assertions of the destructor, and nobody is left who could post.
THEOREM CleanShutdown == Spec => []NothingAfterShutdown
BY InitInv, NextInv, PTL DEF Spec, Inv

\* The variables keep their types: m_running_work_items never wraps.
THEOREM TypeCorrect == Spec => []TypeOK
BY InitInv, NextInv, PTL DEF Spec, Inv

\* The item a thread takes is as urgent as any, whatever was posted when.
LEMMA TakesUrgent ==
  ASSUME Inv, [Next]_poolVars
  PROVE  [\A t \in Thread : pc[t] = "fetch" /\ pc'[t] = "run" =>
            \A k \in DOMAIN pending : pending[k].prio <= Head(pending).prio]_poolVars
<1>1. \A k \in DOMAIN pending : pending[k].prio <= Head(pending).prio
  <2>1. pending \in Seq(Item) /\ DOMAIN pending = 1 .. Len(pending) /\ Len(pending) \in Nat
    BY LenProperties DEF Inv, TypeOK
  <2> SUFFICES ASSUME NEW k \in 1 .. Len(pending)
               PROVE  pending[k].prio <= Head(pending).prio
    BY <2>1
  <2>2. pending[k] \in Item /\ pending[1] \in Item /\ Head(pending) = pending[1]
    BY <2>1, ElementOfSeq
  <2>3. pending[k].prio \in Int /\ pending[1].prio \in Int
    BY <2>2, PriorityAssumption DEF Item
  <2> QED
    BY <2>1, <2>2, <2>3 DEF Inv, Sorted
<1> QED
  BY <1>1

\* "Work items with the highest priority are executed first", with any
\* number of threads and in whatever order work is posted.
THEOREM MostUrgentFirst == Spec => UrgentFirst
<1>1. Inv /\ [Next]_poolVars =>
        [\A t \in Thread : pc[t] = "fetch" /\ pc'[t] = "run" =>
           \A k \in DOMAIN pending : pending[k].prio <= Head(pending).prio]_poolVars
  BY TakesUrgent
<1> QED
  BY <1>1, InitInv, NextInv, PTL DEF Spec, UrgentFirst
=============================================================================
