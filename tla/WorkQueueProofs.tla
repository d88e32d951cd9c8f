--------------------------- MODULE WorkQueueProofs ---------------------------
(***************************************************************************)
(* Proofs, for any number of threads and any set of tasks, that the work   *)
(* queue never loses its count of who is running, that no worker leaves    *)
(* run_all() before its time, that no task is lost or doubled, that nobody *)
(* is left asleep by the first worker that leaves, and that every step of  *)
(* the queue is one that the task pool allows.                             *)
(***************************************************************************)
EXTENDS WorkQueue, FiniteSetTheorems, SequenceTheorems, TLAPS

USE NumThreadsAssumption, TaskAssumption, CanPushAssumption

-----------------------------------------------------------------------------
(* Counting workers.                                                       *)

LEMMA WorkerFinite == IsFiniteSet(Worker)
BY FS_Interval DEF Worker

LEMMA FreeIsNobody == Free \notin Worker
BY DEF Free, Worker

\* A set of workers has a size, and it is 0 only for the empty set.
LEMMA CountWorkers ==
  ASSUME NEW S \in SUBSET Worker
  PROVE  /\ IsFiniteSet(S)
         /\ Cardinality(S) \in Nat
         /\ Cardinality(S) = 0 <=> S = {}
BY WorkerFinite, FS_Subset, FS_CardinalityType, FS_EmptySet

LEMMA CountOneMore ==
  ASSUME NEW S \in SUBSET Worker, NEW w \in Worker, w \notin S
  PROVE  Cardinality(S \cup {w}) = Cardinality(S) + 1
BY CountWorkers, FS_AddElement

LEMMA CountOneLess ==
  ASSUME NEW S \in SUBSET Worker, NEW w \in S
  PROVE  /\ Cardinality(S \ {w}) = Cardinality(S) - 1
         /\ Cardinality(S) > 0
<1>1. Cardinality(S \ {w}) = Cardinality(S) - 1
  BY CountWorkers, FS_RemoveElement
<1>2. Cardinality(S) > 0
  BY CountWorkers
<1> QED BY <1>1, <1>2

Runners == {w \in Worker : running[w]}
Loaded  == {k \in Worker : Busy(k)}

\* set_running keeps the count.
LEMMA SetRunningCounts ==
  ASSUME NEW w \in Worker, NEW on \in BOOLEAN,
         running \in [Worker -> BOOLEAN], numRunning \in Nat,
         numRunning = Cardinality(Runners),
         SetRunning(w, on)
  PROVE  /\ running' \in [Worker -> BOOLEAN]
         /\ numRunning' \in Nat
         /\ numRunning' = Cardinality(Runners')
<1>0. running' = [running EXCEPT ![w] = on]
  BY DEF SetRunning
<1>t. running' \in [Worker -> BOOLEAN]
  BY <1>0
<1>1. CASE running[w] = on
  <2>1. running' = running
    BY <1>0, <1>1
  <2> QED
    BY <2>1, <1>1 DEF SetRunning, Runners
<1>2. CASE ~running[w] /\ on
  <2>1. Runners' = Runners \cup {w} /\ w \notin Runners
    BY <1>0, <1>2 DEF Runners
  <2>2. numRunning' = numRunning + 1
    BY <1>2 DEF SetRunning
  <2> QED
    BY <2>1, <2>2, <1>t, CountOneMore DEF Runners
<1>3. CASE running[w] /\ ~on
  <2>1. Runners' = Runners \ {w} /\ w \in Runners
    BY <1>0, <1>3 DEF Runners
  <2>2. numRunning' = numRunning - 1
    BY <1>3 DEF SetRunning
  <2> QED
    BY <2>1, <2>2, <1>t, CountOneLess DEF Runners
<1> QED BY <1>1, <1>2, <1>3

-----------------------------------------------------------------------------
LEMMA InitInv == Init => Inv
<1> SUFFICES ASSUME Init PROVE Inv
  OBVIOUS
<1>1. TypeOK
  BY DEF Init, TypeOK, Worker, Free
<1>2. LockInv
  BY FreeIsNobody DEF Init, LockInv, Holds, Pushing
<1>3. PlaceInv
  BY DEF Init, PlaceInv, Place, Executing, Pushing, Waiting
<1>4. PhaseInv /\ SeenInv /\ QuietInv
  BY DEF Init, PhaseInv, SeenInv, QuietInv
<1>5. CountersExact
  <2>1. {w \in Worker : running[w]} = {}
    BY DEF Init
  <2> QED
    BY <2>1, FS_EmptySet DEF Init, CountersExact
<1> QED BY <1>1, <1>2, <1>3, <1>4, <1>5 DEF Inv

-----------------------------------------------------------------------------
(***************************************************************************)
(* What the steps of a worker have in common.  A worker's step leaves the  *)
(* other workers' own state alone, so each conjunct of the invariant is a  *)
(* matter of what the step does to the worker itself and to the queues and *)
(* counters it shares.                                                     *)
(***************************************************************************)
Local(w) ==
  /\ phase' = phase
  /\ attempts' = attempts
  /\ \A v \in Worker : v # w =>
       /\ pc'[v] = pc[v]
       /\ idx'[v] = idx[v]
       /\ running'[v] = running[v]
       /\ task'[v] = task[v]
       /\ fresh'[v] = fresh[v]

LEMMA StepIsLocal ==
  ASSUME TypeOK, NEW w \in Worker, Loop(w) \/ \E t \in Task : PushBegin(w, t)
  PROVE  Local(w)
<1> USE DEF Local, TypeOK, Goto, counters, history
<1>1. CASE PopEmpty(w) BY <1>1 DEF PopEmpty
<1>2. CASE PopLock(w) BY <1>2 DEF PopLock, SetRunning
<1>3. CASE PopTake(w) BY <1>3 DEF PopTake
<1>4. CASE PushRead(w) BY <1>4 DEF PushRead
<1>5. CASE PushGive(w) BY <1>5 DEF PushGive
<1>6. CASE PushPut(w) BY <1>6 DEF PushPut
<1>7. CASE Finish(w) BY <1>7 DEF Finish
<1>8. CASE SetIdle(w) BY <1>8 DEF SetIdle, SetRunning
<1>9. CASE ReadRunning(w) BY <1>9 DEF ReadRunning
<1>10. CASE ReadNonEmpty(w) BY <1>10 DEF ReadNonEmpty
<1>11. CASE Quit(w) BY <1>11 DEF Quit
<1>12. CASE Take(w) BY <1>12 DEF Take
<1>13. CASE \E t \in Task : PushBegin(w, t) BY <1>13 DEF PushBegin
<1> QED
  BY <1>1, <1>2, <1>3, <1>4, <1>5, <1>6, <1>7, <1>8, <1>9, <1>10, <1>11,
     <1>12, <1>13 DEF Loop

LEMMA TargetType ==
  ASSUME TypeOK, NEW w \in Worker, idx[w] <= NumThreads
  PROVE  Target(w) \in Worker
BY DEF TypeOK, Target

\* Only run_all() has workers that are not done.
LEMMA AtWork ==
  ASSUME TypeOK, PhaseInv, NEW w \in Worker, pc[w] # "done"
  PROVE  phase = "running"
BY DEF TypeOK, PhaseInv

\* A step that takes or frees no mutex.
LEMMA LockFrame ==
  ASSUME LockInv, NEW w \in Worker, Local(w), mutex' = mutex,
         \A k \in Worker : Holds(w, k)' <=> Holds(w, k)
  PROVE  LockInv'
<1> SUFFICES ASSUME NEW v \in Worker, NEW k \in Worker
             PROVE  (mutex[k] = v <=> Holds(v, k))'
  BY DEF LockInv
<1>1. mutex[k] = v <=> Holds(v, k)
  BY DEF LockInv
<1>2. CASE v = w
  BY <1>1, <1>2
<1>3. CASE v # w
  BY <1>1, <1>3 DEF Local, Holds, Pushing, Target
<1> QED BY <1>2, <1>3

\* The others are where they were: only the queue a worker has locked to pop
\* from must not change under it.
LEMMA PlaceFrame ==
  ASSUME TypeOK, LockInv, PlaceInv, NEW w \in Worker, Local(w), Place(w)',
         \A k \in Worker : queue'[k] = queue[k] \/ mutex[k] = w
  PROVE  PlaceInv'
<1> SUFFICES ASSUME NEW v \in Worker, v # w
             PROVE  Place(v)'
  BY DEF PlaceInv
<1>1. Place(v)
  BY DEF PlaceInv
<1>2. pc'[v] = pc[v] /\ Target(v)' = Target(v)
  BY DEF Local, Target
<1>3. ASSUME pc[v] = "pop" PROVE queue'[Target(v)] = queue[Target(v)]
  <2>1. Target(v) \in Worker
    BY <1>1, <1>3, TargetType DEF Place
  <2>2. mutex[Target(v)] = v
    BY <1>3, <2>1 DEF LockInv, Holds
  <2> QED BY <2>1, <2>2
<1> QED
  BY <1>1, <1>2, <1>3 DEF Local, Place, Executing, Pushing

\* No queue becomes busy but the stepping worker's, who runs, and no owner of
\* a busy queue stops running.
LEMMA SeenFrame ==
  ASSUME SeenInv, NEW w \in Worker, Local(w),
         phase = "running" =>
           \A k \in Worker : Seen(w, k)' => Guarded(w, k)',
         phase = "running" =>
           \A k \in Worker : Busy(k)' =>
             \/ Busy(k) /\ (running[k] => running'[k])
             \/ k = w /\ CanPush /\ running'[w]
  PROVE  SeenInv'
<1> SUFFICES ASSUME phase = "running", NEW v \in Worker, NEW k \in Worker,
                    v # w, Seen(v, k)'
             PROVE  Guarded(v, k)'
  BY DEF SeenInv, Local
<1>1. Seen(v, k)
  BY DEF Local, Seen
<1>2. Guarded(v, k)
  BY <1>1 DEF SeenInv
<1> QED
  BY <1>2 DEF Guarded

\* Nothing that is quiet wakes up.
LEMMA QuietFrame ==
  ASSUME QuietInv, NEW w \in Worker, Local(w),
         phase = "running" /\ CanPush /\ Leaving(w)' =>
           \A k \in Worker : ~running'[k] /\ ~Busy(k)',
         (phase = "running" /\ \A k \in Worker : ~running[k] /\ ~Busy(k)) =>
           \A k \in Worker : ~running'[k] /\ ~Busy(k)'
  PROVE  QuietInv'
<1> SUFFICES ASSUME phase = "running", CanPush,
                    NEW v \in Worker, v # w, Leaving(v)'
             PROVE  \A k \in Worker : ~running'[k] /\ ~Busy(k)'
  BY DEF QuietInv, Local
<1>1. Leaving(v)
  BY DEF Local, Leaving
<1> QED
  BY <1>1 DEF QuietInv

LEMMA PhaseFrame ==
  ASSUME PhaseInv, NEW w \in Worker, Local(w), phase = "running"
  PROVE  PhaseInv'
BY DEF PhaseInv, Local, Order

-----------------------------------------------------------------------------
(* The steps of a worker, one lemma each.                                  *)

LEMMA PopEmptyInv ==
  ASSUME Inv, NEW w \in Worker, PopEmpty(w)
  PROVE  Inv'
<1> USE DEF Inv
<1>1. pc[w] = "scan" /\ pc' = pc
  BY DEF PopEmpty
<1>2. Target(w) \in Worker /\ ~Busy(Target(w))
  <2>1. Target(w) \in Worker
    BY TargetType DEF PopEmpty
  <2>2. ~Holds(Target(w), Target(w))
    BY <2>1, FreeIsNobody DEF LockInv, PopEmpty
  <2> QED BY <2>1, <2>2 DEF Busy, Holds, PopEmpty
<1>3. Local(w) /\ phase = "running"
  BY <1>1, StepIsLocal, AtWork DEF Loop
<1>i. idx[w] \in Int /\ idx'[w] = idx[w] + 1 /\ idx' \in [Worker -> 1 .. NumThreads + 1]
  <2>1. idx[w] \in 1 .. NumThreads + 1 /\ idx[w] <= NumThreads
    BY DEF TypeOK, PopEmpty
  <2>2. idx[w] + 1 \in 1 .. NumThreads + 1
    BY <2>1
  <2> QED BY <2>1, <2>2 DEF TypeOK, PopEmpty
<1>4. TypeOK'
  BY <1>i DEF TypeOK, PopEmpty, counters, history
<1>5. LockInv'
  BY <1>1, <1>3, LockFrame DEF Holds, Pushing, PopEmpty
<1>6. PlaceInv'
  BY <1>1, <1>3, PlaceFrame DEF PlaceInv, Place, Executing, Pushing, Waiting,
     PopEmpty, counters
<1>7. \A k \in Worker : Busy(k)' <=> Busy(k)
  BY <1>1 DEF Busy, Pushing, PopEmpty
<1>8. SeenInv'
  <2>1. ASSUME NEW k \in Worker, Seen(w, k)' PROVE Guarded(w, k)'
    <3>1. CASE k = Target(w)
      BY <1>2, <1>7, <3>1 DEF Guarded
    <3>2. CASE k # Target(w)
      <4>1. PICK i \in 1 .. idx'[w] - 1 : attempts[w][i] = k
        BY <1>1, <2>1 DEF Seen, Waiting, PopEmpty
      <4>2. i \in 1 .. idx[w] - 1
        <5>1. i # idx[w]
          BY <3>2, <4>1 DEF Target
        <5> QED BY <1>i, <4>1, <5>1
      <4>3. Seen(w, k)
        BY <1>1, <4>1, <4>2 DEF Seen
      <4> QED BY <1>3, <1>7, <4>3 DEF SeenInv, Guarded, PopEmpty, counters
    <3> QED BY <3>1, <3>2
  <2> QED BY <1>3, <1>7, <2>1, SeenFrame DEF PopEmpty, counters
<1>9. QuietInv'
  BY <1>1, <1>3, <1>7, QuietFrame DEF Leaving, PopEmpty, counters
<1>10. CountersExact'
  BY <1>3, <1>7 DEF CountersExact, PopEmpty, counters
<1> QED BY <1>3, <1>4, <1>5, <1>6, <1>8, <1>9, <1>10, PhaseFrame

LEMMA PopLockInv ==
  ASSUME Inv, NEW w \in Worker, PopLock(w)
  PROVE  Inv'
<1> USE DEF Inv
<1>1. pc[w] = "scan" /\ pc'[w] = "pop" /\ running'[w] /\ queue' = queue
  BY DEF PopLock, Goto, SetRunning, TypeOK
<1>2. Target(w) \in Worker /\ Target(w)' = Target(w)
  BY TargetType DEF PopLock, Target
<1>3. Local(w) /\ phase = "running"
  BY <1>1, StepIsLocal, AtWork DEF Loop
<1>c. numRunning' \in Nat /\ numRunning' = Cardinality(Runners')
  BY SetRunningCounts DEF TypeOK, CountersExact, Runners, PopLock
<1>4. TypeOK'
  BY <1>2, <1>c DEF TypeOK, PopLock, SetRunning, Goto, history
<1>5. LockInv'
  <2> SUFFICES ASSUME NEW v \in Worker, NEW k \in Worker
               PROVE  (mutex[k] = v <=> Holds(v, k))'
    BY DEF LockInv
  <2>1. mutex[k] = v <=> Holds(v, k)
    BY DEF LockInv
  <2>2. mutex[Target(w)] = Free /\ mutex' = [mutex EXCEPT ![Target(w)] = w]
    BY DEF PopLock
  <2>3. CASE v = w
    BY <1>1, <1>2, <2>1, <2>2, <2>3 DEF TypeOK, Holds, Pushing
  <2>4. CASE v # w
    <3>1. Holds(v, k)' <=> Holds(v, k)
      BY <1>3, <2>4 DEF Local, Holds, Pushing, Target
    <3>2. mutex'[k] = v <=> mutex[k] = v
      BY <1>2, <2>2, <2>4, FreeIsNobody DEF TypeOK
    <3> QED BY <2>1, <3>1, <3>2
  <2> QED BY <2>3, <2>4
<1>6. PlaceInv'
  BY <1>1, <1>2, <1>3, PlaceFrame DEF Place, Executing, Pushing, Waiting, PopLock
<1>7. \A k \in Worker : Busy(k)' <=> Busy(k)
  BY <1>1, <1>3 DEF Busy, Pushing, Local
<1>8. SeenInv'
  BY <1>1, <1>3, <1>7, SeenFrame DEF Seen, Waiting, Local
<1>9. QuietInv'
  <2>1. Busy(Target(w))
    BY DEF PopLock, Busy
  <2> QED
    BY <1>1, <1>2, <1>3, <2>1, QuietFrame DEF Leaving
<1>10. CountersExact'
  BY <1>3, <1>7, <1>c DEF CountersExact, Runners, PopLock
<1> QED BY <1>3, <1>4, <1>5, <1>6, <1>8, <1>9, <1>10, PhaseFrame

LEMMA PopTakeInv ==
  ASSUME Inv, NEW w \in Worker, PopTake(w)
  PROVE  Inv'
<1> USE DEF Inv
<1>1. pc[w] = "pop" /\ pc'[w] = "exec" /\ running[w] /\ running' = running
  BY DEF PopTake, Goto, TypeOK, PlaceInv, Place
<1>0. PICK k0 \in Worker : k0 = Target(w)
  BY <1>1, TargetType DEF PlaceInv, Place
<1>2. /\ k0 \in Worker
      /\ queue[k0] \in Seq(Task) /\ queue[k0] # <<>>
      /\ mutex[k0] = w
  BY <1>0, <1>1 DEF TypeOK, PlaceInv, Place, LockInv, Holds
<1>3. Local(w) /\ phase = "running"
  BY <1>1, StepIsLocal, AtWork DEF Loop
<1>q. /\ queue' = [queue EXCEPT ![k0] = Tail(queue[k0])]
      /\ mutex' = [mutex EXCEPT ![k0] = Free]
      /\ task' = [task EXCEPT ![w] = Head(queue[k0])]
  BY <1>0 DEF PopTake
<1>p. ~Pushing(k0) /\ ~Pushing(k0)'
  <2>1. ~Pushing(k0)
    BY <1>1, <1>2 DEF LockInv, Holds, Pushing
  <2> QED BY <1>1, <1>3, <2>1 DEF Local, Pushing
<1>b. /\ Busy(k0)
      /\ Busy(k0)' <=> Len(queue[k0]) # 1
      /\ \A k \in Worker : k # k0 => (Busy(k)' <=> Busy(k))
  <2>1. Tail(queue[k0]) = <<>> <=> Len(queue[k0]) = 1
    <3>1. Tail(queue[k0]) \in Seq(Task) /\ Len(Tail(queue[k0])) = Len(queue[k0]) - 1
      BY <1>2, HeadTailProperties
    <3>2. Len(queue[k0]) \in Nat /\ Len(<<>>) = 0
      BY <1>2, LenProperties, EmptySeq
    <3>3. Tail(queue[k0]) # <<>> => Len(Tail(queue[k0])) # 0
      BY <3>1, EmptySeq
    <3>4. CASE Tail(queue[k0]) = <<>>
      <4>1. Len(Tail(queue[k0])) = 0
        BY <3>2, <3>4
      <4> QED BY <3>1, <3>2, <3>4, <4>1
    <3>5. CASE Tail(queue[k0]) # <<>>
      BY <3>1, <3>2, <3>3, <3>5
    <3> QED BY <3>4, <3>5
  <2>2. queue'[k0] = Tail(queue[k0])
    BY <1>2, <1>q DEF TypeOK
  <2>3. ASSUME NEW k \in Worker, k # k0 PROVE Busy(k)' <=> Busy(k)
    BY <1>1, <1>3, <1>q, <2>3 DEF Busy, Pushing, Local, TypeOK
  <2> QED BY <1>2, <1>p, <2>1, <2>2, <2>3 DEF Busy
<1>c. /\ nonEmpty' \in Nat
      /\ nonEmpty' = Cardinality(Loaded')
  <2>1. nonEmpty = Cardinality(Loaded) /\ Loaded \in SUBSET Worker
    BY <1>3 DEF CountersExact, Loaded
  <2>2. CASE Len(queue[k0]) = 1
    <3>1. Loaded' = Loaded \ {k0} /\ k0 \in Loaded
      BY <1>2, <1>b, <2>2 DEF Loaded
    <3>2. nonEmpty' = nonEmpty - 1
      BY <1>0, <2>2 DEF PopTake
    <3> QED BY <2>1, <3>1, <3>2, CountOneLess, CountWorkers
  <2>3. CASE Len(queue[k0]) # 1
    <3>1. Loaded' = Loaded
      BY <1>2, <1>b, <2>3 DEF Loaded
    <3>2. nonEmpty' = nonEmpty
      BY <1>0, <2>3 DEF PopTake
    <3> QED BY <2>1, <3>1, <3>2, CountWorkers
  <2> QED BY <2>2, <2>3
<1>4. TypeOK'
  <2>1. Head(queue[k0]) \in Task /\ Tail(queue[k0]) \in Seq(Task)
    BY <1>2
  <2>2. /\ queue' \in [Worker -> Seq(Task)]
        /\ mutex' \in [Worker -> Worker \cup {Free}]
        /\ task' \in [Worker -> Task \cup {NoTask}]
    BY <1>2, <1>q, <2>1 DEF TypeOK
  <2> QED BY <1>c, <2>2 DEF TypeOK, PopTake, Goto, history
<1>5. LockInv'
  <2> SUFFICES ASSUME NEW v \in Worker, NEW k \in Worker
               PROVE  (mutex[k] = v <=> Holds(v, k))'
    BY DEF LockInv
  <2>1. mutex[k] = v <=> Holds(v, k)
    BY DEF LockInv
  <2>2. Target(w) = k0 /\ mutex' = [mutex EXCEPT ![k0] = Free]
    BY <1>0, <1>q
  <2>3. CASE v = w
    BY <1>1, <1>2, <2>1, <2>2, <2>3, FreeIsNobody DEF TypeOK, Holds, Pushing
  <2>4. CASE v # w
    <3>1. Holds(v, k)' <=> Holds(v, k)
      BY <1>3, <2>4 DEF Local, Holds, Pushing, Target
    <3>2. mutex'[k] = v <=> mutex[k] = v
      BY <1>2, <2>2, <2>4, FreeIsNobody DEF TypeOK
    <3> QED BY <2>1, <3>1, <3>2
  <2> QED BY <2>3, <2>4
<1>6. PlaceInv'
  <2>1. task'[w] \in Task
    BY <1>2, <1>q DEF TypeOK
  <2>2. Place(w)'
    BY <1>1, <2>1 DEF Place, Executing, Pushing, Waiting
  <2>3. \A k \in Worker : queue'[k] = queue[k] \/ mutex[k] = w
    BY <1>2, <1>q DEF TypeOK
  <2> QED BY <1>3, <2>2, <2>3, PlaceFrame
<1>8. SeenInv'
  BY <1>1, <1>3, <1>b, SeenFrame DEF Seen, Waiting
<1>9. QuietInv'
  BY <1>1, <1>3, QuietFrame DEF Leaving
<1>10. CountersExact'
  BY <1>3, <1>c DEF CountersExact, Loaded, PopTake
<1> QED BY <1>3, <1>4, <1>5, <1>6, <1>8, <1>9, <1>10, PhaseFrame

LEMMA PushBeginInv ==
  ASSUME Inv, NEW w \in Worker, NEW t \in Task, PushBegin(w, t)
  PROVE  Inv'
<1> USE DEF Inv
<1>1. /\ pc[w] = "exec" /\ pc'[w] = "pushRead"
      /\ running[w] /\ running' = running /\ queue' = queue
      /\ CanPush /\ fresh'[w] = t /\ task'[w] \in Task
  BY DEF PushBegin, Goto, TypeOK, PlaceInv, Place, Executing
<1>3. Local(w) /\ phase = "running"
  BY <1>1, StepIsLocal, AtWork
<1>b. /\ Busy(w)' /\ (Busy(w) <=> queue[w] # <<>>)
      /\ \A k \in Worker : k # w => (Busy(k)' <=> Busy(k))
  BY <1>1, <1>3 DEF Busy, Pushing, Local
<1>c. /\ nonEmpty' \in Nat
      /\ nonEmpty' = Cardinality(Loaded')
  <2>1. nonEmpty = Cardinality(Loaded) /\ Loaded \in SUBSET Worker
    BY <1>3 DEF CountersExact, Loaded
  <2>2. CASE queue[w] = <<>>
    <3>1. Loaded' = Loaded \cup {w} /\ w \notin Loaded
      BY <1>b, <2>2 DEF Loaded
    <3>2. nonEmpty' = nonEmpty + 1
      BY <2>2 DEF PushBegin
    <3> QED BY <2>1, <3>1, <3>2, CountOneMore, CountWorkers
  <2>3. CASE queue[w] # <<>>
    <3>1. Loaded' = Loaded
      BY <1>b, <2>3 DEF Loaded
    <3>2. nonEmpty' = nonEmpty
      BY <2>3 DEF PushBegin
    <3> QED BY <2>1, <3>1, <3>2, CountWorkers
  <2> QED BY <2>2, <2>3
<1>4. TypeOK'
  BY <1>c DEF TypeOK, PushBegin, Goto
<1>5. LockInv'
  <2> SUFFICES ASSUME NEW v \in Worker, NEW k \in Worker
               PROVE  (mutex[k] = v <=> Holds(v, k))'
    BY DEF LockInv
  <2>1. mutex[k] = v <=> Holds(v, k)
    BY DEF LockInv
  <2>2. mutex[w] = Free /\ mutex' = [mutex EXCEPT ![w] = w]
    BY DEF PushBegin
  <2>3. CASE v = w
    BY <1>1, <2>1, <2>2, <2>3 DEF TypeOK, Holds, Pushing
  <2>4. CASE v # w
    <3>1. Holds(v, k)' <=> Holds(v, k)
      BY <1>3, <2>4 DEF Local, Holds, Pushing, Target
    <3>2. mutex'[k] = v <=> mutex[k] = v
      BY <2>2, <2>4, FreeIsNobody DEF TypeOK
    <3> QED BY <2>1, <3>1, <3>2
  <2> QED BY <2>3, <2>4
<1>6. PlaceInv'
  BY <1>1, <1>3, PlaceFrame DEF Place, Executing, Pushing, Waiting
<1>8. SeenInv'
  BY <1>1, <1>3, <1>b, SeenFrame DEF Seen, Waiting
<1>9. QuietInv'
  BY <1>1, <1>3, QuietFrame DEF Leaving
<1>10. CountersExact'
  BY <1>1, <1>3, <1>c DEF CountersExact, Loaded, PushBegin
<1> QED BY <1>3, <1>4, <1>5, <1>6, <1>8, <1>9, <1>10, PhaseFrame

LEMMA PushReadInv ==
  ASSUME Inv, NEW w \in Worker, PushRead(w)
  PROVE  Inv'
<1> USE DEF Inv
<1>1. /\ pc[w] = "pushRead" /\ pc'[w] \in {"pushGive", "pushPut"}
      /\ UNCHANGED <<queue, mutex, running, numRunning, nonEmpty, idx, task, fresh>>
  BY DEF PushRead, Goto, TypeOK, counters
<1>3. Local(w) /\ phase = "running"
  BY <1>1, StepIsLocal, AtWork DEF Loop
<1>b. \A k \in Worker : Busy(k)' <=> Busy(k)
  BY <1>1, <1>3 DEF Busy, Pushing, Local
<1>4. TypeOK'
  BY DEF TypeOK, PushRead, Goto, counters, history
<1>5. LockInv'
  BY <1>1, <1>3, LockFrame DEF Holds, Pushing
<1>6. PlaceInv'
  BY <1>1, <1>3, PlaceFrame DEF PlaceInv, Place, Executing, Pushing, Waiting
<1>8. SeenInv'
  BY <1>1, <1>3, <1>b, SeenFrame DEF Seen, Waiting
<1>9. QuietInv'
  BY <1>1, <1>3, <1>b, QuietFrame DEF Leaving
<1>10. CountersExact'
  BY <1>1, <1>3, <1>b DEF CountersExact
<1> QED BY <1>3, <1>4, <1>5, <1>6, <1>8, <1>9, <1>10, PhaseFrame

LEMMA PushGiveInv ==
  ASSUME Inv, NEW w \in Worker, PushGive(w)
  PROVE  Inv'
<1> USE DEF Inv
<1>1. /\ pc[w] = "pushGive" /\ pc'[w] = "pushPut"
      /\ UNCHANGED <<queue, mutex, running, numRunning, nonEmpty, idx, task, fresh>>
  BY DEF PushGive, Goto, TypeOK, counters
<1>3. Local(w) /\ phase = "running"
  BY <1>1, StepIsLocal, AtWork DEF Loop
<1>b. \A k \in Worker : Busy(k)' <=> Busy(k)
  BY <1>1, <1>3 DEF Busy, Pushing, Local
<1>4. TypeOK'
  <2>1. sem' \in Nat
    BY DEF TypeOK, PushGive
  <2> QED BY <2>1 DEF TypeOK, PushGive, Goto, counters, history
<1>5. LockInv'
  BY <1>1, <1>3, LockFrame DEF Holds, Pushing
<1>6. PlaceInv'
  BY <1>1, <1>3, PlaceFrame DEF PlaceInv, Place, Executing, Pushing, Waiting
<1>8. SeenInv'
  BY <1>1, <1>3, <1>b, SeenFrame DEF Seen, Waiting
<1>9. QuietInv'
  BY <1>1, <1>3, <1>b, QuietFrame DEF Leaving
<1>10. CountersExact'
  BY <1>1, <1>3, <1>b DEF CountersExact
<1> QED BY <1>3, <1>4, <1>5, <1>6, <1>8, <1>9, <1>10, PhaseFrame

LEMMA PushPutInv ==
  ASSUME Inv, NEW w \in Worker, PushPut(w)
  PROVE  Inv'
<1> USE DEF Inv
<1>1. /\ pc[w] = "pushPut" /\ pc'[w] = "exec" /\ fresh[w] \in Task
      /\ running[w] /\ mutex[w] = w /\ task[w] \in Task
      /\ UNCHANGED <<running, numRunning, nonEmpty, idx, task>>
  BY DEF PushPut, Goto, TypeOK, counters, PlaceInv, Place, Pushing, Executing,
     LockInv, Holds
<1>2. /\ queue' = [queue EXCEPT ![w] = Append(@, fresh[w])]
      /\ mutex' = [mutex EXCEPT ![w] = Free]
      /\ fresh' = [fresh EXCEPT ![w] = NoTask]
  BY DEF PushPut
<1>3. Local(w) /\ phase = "running"
  BY <1>1, StepIsLocal, AtWork DEF Loop
<1>q. queue'[w] # <<>> /\ queue' \in [Worker -> Seq(Task)]
  <2>1. queue[w] \in Seq(Task)
    BY DEF TypeOK
  <2>2. /\ Append(queue[w], fresh[w]) \in Seq(Task)
        /\ Len(Append(queue[w], fresh[w])) = Len(queue[w]) + 1
    BY <1>1, <2>1, AppendProperties
  <2>3. Append(queue[w], fresh[w]) # <<>>
    BY <2>1, <2>2, EmptySeq, LenProperties
  <2> QED BY <1>2, <2>2, <2>3 DEF TypeOK
<1>b. \A k \in Worker : Busy(k)' <=> Busy(k)
  <2>1. Busy(w)' /\ Busy(w)
    BY <1>1, <1>q DEF Busy, Pushing
  <2>2. ASSUME NEW k \in Worker, k # w PROVE Busy(k)' <=> Busy(k)
    BY <1>2, <1>3, <2>2 DEF Busy, Pushing, Local, TypeOK
  <2> QED BY <2>1, <2>2
<1>4. TypeOK'
  BY <1>q DEF TypeOK, PushPut, Goto, counters, history
<1>5. LockInv'
  <2> SUFFICES ASSUME NEW v \in Worker, NEW k \in Worker
               PROVE  (mutex[k] = v <=> Holds(v, k))'
    BY DEF LockInv
  <2>1. mutex[k] = v <=> Holds(v, k)
    BY DEF LockInv
  <2>3. CASE v = w
    BY <1>1, <1>2, <2>1, <2>3, FreeIsNobody DEF TypeOK, Holds, Pushing
  <2>4. CASE v # w
    <3>1. Holds(v, k)' <=> Holds(v, k)
      BY <1>3, <2>4 DEF Local, Holds, Pushing, Target
    <3>2. mutex'[k] = v <=> mutex[k] = v
      BY <1>1, <1>2, <2>4, FreeIsNobody DEF TypeOK
    <3> QED BY <2>1, <3>1, <3>2
  <2> QED BY <2>3, <2>4
<1>6. PlaceInv'
  <2>1. Place(w)'
    BY <1>1 DEF Place, Executing, Pushing, Waiting
  <2>2. \A k \in Worker : queue'[k] = queue[k] \/ mutex[k] = w
    BY <1>1, <1>2 DEF TypeOK
  <2> QED BY <1>3, <2>1, <2>2, PlaceFrame
<1>8. SeenInv'
  BY <1>1, <1>3, <1>b, SeenFrame DEF Seen, Waiting
<1>9. QuietInv'
  BY <1>1, <1>3, <1>b, QuietFrame DEF Leaving
<1>10. CountersExact'
  BY <1>1, <1>3, <1>b DEF CountersExact
<1> QED BY <1>3, <1>4, <1>5, <1>6, <1>8, <1>9, <1>10, PhaseFrame

LEMMA FinishInv ==
  ASSUME Inv, NEW w \in Worker, Finish(w)
  PROVE  Inv'
<1> USE DEF Inv
<1>1. /\ pc[w] = "exec" /\ pc'[w] = "scan" /\ idx'[w] = 1
      /\ running[w] /\ task[w] \in Task
      /\ UNCHANGED <<queue, mutex, running, numRunning, nonEmpty, fresh>>
  BY DEF Finish, Goto, TypeOK, counters, PlaceInv, Place, Executing
<1>3. Local(w) /\ phase = "running"
  BY <1>1, StepIsLocal, AtWork DEF Loop
<1>b. \A k \in Worker : Busy(k)' <=> Busy(k)
  BY <1>1, <1>3 DEF Busy, Pushing, Local
<1>4. TypeOK'
  <2>1. executed' \subseteq Task
    BY <1>1 DEF Finish, TypeOK
  <2>2. 1 \in 1 .. NumThreads + 1
    OBVIOUS
  <2> QED BY <2>1, <2>2 DEF TypeOK, Finish, Goto, counters
<1>5. LockInv'
  BY <1>1, <1>3, LockFrame DEF Holds, Pushing
<1>6. PlaceInv'
  BY <1>1, <1>3, PlaceFrame DEF Place, Executing, Pushing, Waiting
<1>8. SeenInv'
  <2>1. \A k \in Worker : ~Seen(w, k)'
    BY <1>1 DEF Seen, Waiting
  <2> QED BY <1>1, <1>3, <1>b, <2>1, SeenFrame
<1>9. QuietInv'
  BY <1>1, <1>3, <1>b, QuietFrame DEF Leaving
<1>10. CountersExact'
  BY <1>1, <1>3, <1>b DEF CountersExact
<1> QED BY <1>3, <1>4, <1>5, <1>6, <1>8, <1>9, <1>10, PhaseFrame

LEMMA SetIdleInv ==
  ASSUME Inv, NEW w \in Worker, SetIdle(w)
  PROVE  Inv'
<1> USE DEF Inv
<1>1. /\ pc[w] = "scan" /\ ~running'[w]
      /\ pc'[w] = IF CanPush THEN "readRunning" ELSE "done"
      /\ UNCHANGED <<queue, mutex, nonEmpty, idx, task, fresh>>
  BY DEF SetIdle, SetRunning, Goto, TypeOK
<1>3. Local(w) /\ phase = "running"
  BY <1>1, StepIsLocal, AtWork DEF Loop
<1>s. \A k \in Worker : Seen(w, k)
  <2> SUFFICES ASSUME NEW k \in Worker PROVE Seen(w, k)
    OBVIOUS
  <2>1. PICK i \in 1 .. NumThreads : attempts[w][i] = k
    BY <1>3 DEF PhaseInv, Order
  <2>2. idx[w] \in Int /\ idx[w] > NumThreads
    BY DEF SetIdle, TypeOK
  <2>3. i \in 1 .. idx[w] - 1
    BY <2>2
  <2> QED BY <1>1, <2>1, <2>3 DEF Seen
<1>w. ~Busy(w)
  BY <1>3, <1>s DEF SeenInv, Guarded
<1>b. \A k \in Worker : Busy(k)' <=> Busy(k)
  BY <1>1, <1>3 DEF Busy, Pushing, Local
<1>c. /\ numRunning' \in Nat /\ numRunning' = Cardinality(Runners')
      /\ running' \in [Worker -> BOOLEAN]
  BY SetRunningCounts DEF TypeOK, CountersExact, Runners, SetIdle
<1>4. TypeOK'
  BY <1>c DEF TypeOK, SetIdle, Goto, history
<1>5. LockInv'
  BY <1>1, <1>3, LockFrame DEF Holds, Pushing
<1>6. PlaceInv'
  BY <1>1, <1>3, PlaceFrame DEF Place, Executing, Pushing, Waiting
<1>8. SeenInv'
  <2>1. ASSUME NEW k \in Worker PROVE Guarded(w, k)'
    BY <1>3, <1>b, <1>s, <1>w DEF SeenInv, Guarded, Local
  <2>2. ASSUME NEW k \in Worker, Busy(k)'
        PROVE  Busy(k) /\ (running[k] => running'[k])
    BY <1>3, <1>b, <1>w, <2>2 DEF Local
  <2> QED BY <1>3, <2>1, <2>2, SeenFrame
<1>9. QuietInv'
  BY <1>1, <1>3, <1>b, QuietFrame DEF Leaving, Local
<1>10. CountersExact'
  BY <1>1, <1>3, <1>b, <1>c DEF CountersExact, Runners
<1> QED BY <1>3, <1>4, <1>5, <1>6, <1>8, <1>9, <1>10, PhaseFrame

\* The heart of the matter: a worker that has seen every queue empty and then
\* reads 0 knows that everything is quiet.
LEMMA ReadRunningInv ==
  ASSUME Inv, NEW w \in Worker, ReadRunning(w)
  PROVE  Inv'
<1> USE DEF Inv
<1>1. /\ pc[w] = "readRunning"
      /\ pc'[w] = IF numRunning = 0 THEN "readNonEmpty" ELSE "take"
      /\ UNCHANGED <<queue, mutex, running, numRunning, nonEmpty, idx, task, fresh>>
  BY DEF ReadRunning, Goto, TypeOK, counters
<1>3. Local(w) /\ phase = "running"
  BY <1>1, StepIsLocal, AtWork DEF Loop
<1>s. \A k \in Worker : Guarded(w, k)
  BY <1>1, <1>3 DEF SeenInv, Seen, Waiting
<1>b. \A k \in Worker : Busy(k)' <=> Busy(k)
  BY <1>1, <1>3 DEF Busy, Pushing, Local
<1>4. TypeOK'
  BY DEF TypeOK, ReadRunning, Goto, counters, history
<1>5. LockInv'
  BY <1>1, <1>3, LockFrame DEF Holds, Pushing
<1>6. PlaceInv'
  BY <1>1, <1>3, PlaceFrame DEF PlaceInv, Place, Executing, Pushing, Waiting
<1>8. SeenInv'
  BY <1>1, <1>3, <1>b, <1>s, SeenFrame DEF Guarded
<1>9. QuietInv'
  <2>1. ASSUME numRunning = 0 PROVE \A k \in Worker : ~running[k] /\ ~Busy(k)
    <3>1. Runners = {}
      BY <2>1, CountWorkers DEF CountersExact, Runners
    <3> QED BY <1>s, <3>1 DEF Runners, Guarded
  <2> QED BY <1>1, <1>3, <1>b, <2>1, QuietFrame DEF Leaving
<1>10. CountersExact'
  BY <1>1, <1>3, <1>b DEF CountersExact
<1> QED BY <1>3, <1>4, <1>5, <1>6, <1>8, <1>9, <1>10, PhaseFrame

LEMMA ReadNonEmptyInv ==
  ASSUME Inv, NEW w \in Worker, ReadNonEmpty(w)
  PROVE  Inv'
<1> USE DEF Inv
<1>1. /\ pc[w] = "readNonEmpty" /\ pc'[w] \in {"quit", "take"}
      /\ UNCHANGED <<queue, mutex, running, numRunning, nonEmpty, idx, task, fresh>>
  BY DEF ReadNonEmpty, Goto, TypeOK, counters
<1>3. Local(w) /\ phase = "running"
  BY <1>1, StepIsLocal, AtWork DEF Loop
<1>s. \A k \in Worker : Guarded(w, k)
  BY <1>1, <1>3 DEF SeenInv, Seen, Waiting
<1>b. \A k \in Worker : Busy(k)' <=> Busy(k)
  BY <1>1, <1>3 DEF Busy, Pushing, Local
<1>4. TypeOK'
  BY DEF TypeOK, ReadNonEmpty, Goto, counters, history
<1>5. LockInv'
  BY <1>1, <1>3, LockFrame DEF Holds, Pushing
<1>6. PlaceInv'
  BY <1>1, <1>3, PlaceFrame DEF PlaceInv, Place, Executing, Pushing, Waiting
<1>8. SeenInv'
  BY <1>1, <1>3, <1>b, <1>s, SeenFrame DEF Guarded
<1>9. QuietInv'
  BY <1>1, <1>3, <1>b, QuietFrame DEF QuietInv, Leaving
<1>10. CountersExact'
  BY <1>1, <1>3, <1>b DEF CountersExact
<1> QED BY <1>3, <1>4, <1>5, <1>6, <1>8, <1>9, <1>10, PhaseFrame

LEMMA QuitInv ==
  ASSUME Inv, NEW w \in Worker, Quit(w)
  PROVE  Inv'
<1> USE DEF Inv
<1>1. /\ pc[w] = "quit" /\ pc'[w] = "done"
      /\ UNCHANGED <<queue, mutex, running, numRunning, nonEmpty, idx, task, fresh>>
  BY DEF Quit, Goto, TypeOK, counters
<1>3. Local(w) /\ phase = "running"
  BY <1>1, StepIsLocal, AtWork DEF Loop
<1>s. \A k \in Worker : Guarded(w, k)
  BY <1>1, <1>3 DEF SeenInv, Seen, Waiting
<1>b. \A k \in Worker : Busy(k)' <=> Busy(k)
  BY <1>1, <1>3 DEF Busy, Pushing, Local
<1>4. TypeOK'
  <2>1. sem' \in Nat
    BY DEF TypeOK, Quit
  <2> QED BY <2>1 DEF TypeOK, Quit, Goto, counters, history
<1>5. LockInv'
  BY <1>1, <1>3, LockFrame DEF Holds, Pushing
<1>6. PlaceInv'
  BY <1>1, <1>3, PlaceFrame DEF PlaceInv, Place, Executing, Pushing, Waiting
<1>8. SeenInv'
  BY <1>1, <1>3, <1>b, <1>s, SeenFrame DEF Guarded
<1>9. QuietInv'
  BY <1>1, <1>3, <1>b, QuietFrame DEF QuietInv, Leaving
<1>10. CountersExact'
  BY <1>1, <1>3, <1>b DEF CountersExact
<1> QED BY <1>3, <1>4, <1>5, <1>6, <1>8, <1>9, <1>10, PhaseFrame

LEMMA TakeInv ==
  ASSUME Inv, NEW w \in Worker, Take(w)
  PROVE  Inv'
<1> USE DEF Inv
<1>1. /\ pc[w] = "take" /\ pc'[w] = "scan" /\ idx'[w] = 1
      /\ UNCHANGED <<queue, mutex, running, numRunning, nonEmpty, task, fresh>>
  BY DEF Take, Goto, TypeOK, counters
<1>3. Local(w) /\ phase = "running"
  BY <1>1, StepIsLocal, AtWork DEF Loop
<1>b. \A k \in Worker : Busy(k)' <=> Busy(k)
  BY <1>1, <1>3 DEF Busy, Pushing, Local
<1>4. TypeOK'
  <2>1. sem' \in Nat
    BY DEF TypeOK, Take
  <2>2. 1 \in 1 .. NumThreads + 1
    OBVIOUS
  <2> QED BY <2>1, <2>2 DEF TypeOK, Take, Goto, counters, history
<1>5. LockInv'
  BY <1>1, <1>3, LockFrame DEF Holds, Pushing
<1>6. PlaceInv'
  BY <1>1, <1>3, PlaceFrame DEF Place, Executing, Pushing, Waiting
<1>8. SeenInv'
  <2>1. \A k \in Worker : ~Seen(w, k)'
    BY <1>1 DEF Seen, Waiting
  <2> QED BY <1>1, <1>3, <1>b, <2>1, SeenFrame
<1>9. QuietInv'
  BY <1>1, <1>3, <1>b, QuietFrame DEF Leaving
<1>10. CountersExact'
  BY <1>1, <1>3, <1>b DEF CountersExact
<1> QED BY <1>3, <1>4, <1>5, <1>6, <1>8, <1>9, <1>10, PhaseFrame

-----------------------------------------------------------------------------
(* The steps of the caller's thread.                                       *)

\* While nobody runs every worker is done: what matters is that the step
\* keeps it so and touches no mutex.
LEMMA IdleFrame ==
  ASSUME Inv, \A w \in Worker : pc[w] = "done",
         phase' = "idle", UNCHANGED <<pc, mutex, running, numRunning>>
  PROVE  /\ LockInv' /\ PlaceInv' /\ PhaseInv' /\ SeenInv' /\ QuietInv'
         /\ CountersExact'
<1> USE DEF Inv
<1>1. LockInv'
  BY DEF LockInv, Holds, Pushing
<1>2. PlaceInv'
  BY DEF PlaceInv, Place, Executing, Pushing, Waiting
<1>3. PhaseInv' /\ SeenInv' /\ QuietInv'
  BY DEF PhaseInv, SeenInv, QuietInv
<1>4. CountersExact'
  BY DEF CountersExact
<1> QED BY <1>1, <1>2, <1>3, <1>4

LEMMA AddItemToInv ==
  ASSUME Inv, NEW t \in Task, NEW k \in Worker, AddItemTo(t, k)
  PROVE  Inv'
<1> USE DEF Inv
<1>1. TypeOK'
  <2>1. Append(queue[k], t) \in Seq(Task)
    BY AppendProperties DEF TypeOK
  <2> QED BY <2>1 DEF TypeOK, AddItemTo, counters
<1>2. \A w \in Worker : pc[w] = "done"
  BY DEF PhaseInv, AddItemTo
<1> QED BY <1>1, <1>2, IdleFrame DEF AddItemTo, counters

LEMMA AddItemInv ==
  ASSUME Inv, NEW t \in Task, AddItem(t)
  PROVE  Inv'
<1> USE DEF Inv
<1>1. insertIdx' \in Worker
  <2>1. insertIdx + 1 \in Int
    BY DEF TypeOK, Worker
  <2>2. (insertIdx + 1) % NumThreads \in 0 .. NumThreads - 1
    BY <2>1
  <2> QED BY <2>2 DEF AddItem, Worker
<1>2. TypeOK'
  <2>1. Append(queue[insertIdx'], t) \in Seq(Task)
    BY <1>1, AppendProperties DEF TypeOK
  <2>2. queue' = [queue EXCEPT ![insertIdx'] = Append(queue[insertIdx'], t)]
    BY DEF AddItem
  <2>3. queue' \in [Worker -> Seq(Task)]
    BY <1>1, <2>1, <2>2 DEF TypeOK
  <2> QED BY <1>1, <2>3 DEF TypeOK, AddItem, counters
<1>3. \A w \in Worker : pc[w] = "done"
  BY DEF PhaseInv, AddItem
<1> QED BY <1>2, <1>3, IdleFrame DEF AddItem, counters

LEMMA JoinInv ==
  ASSUME Inv, Join
  PROVE  Inv'
<1>1. TypeOK'
  BY DEF Inv, TypeOK, Join, counters, history
<1> QED BY <1>1, IdleFrame DEF Inv, Join, counters

LEMMA RunAllInv ==
  ASSUME Inv, RunAll
  PROVE  Inv'
<1> USE DEF Inv
<1>1. /\ phase = "idle" /\ phase' = "running"
      /\ idx' = [w \in Worker |-> 1] /\ pc' = [w \in Worker |-> "scan"]
      /\ numRunning' = 0 /\ sem' = 0
      /\ UNCHANGED <<queue, mutex, running, task, fresh>>
  BY DEF RunAll
<1>h. UNCHANGED <<insertIdx, created, executed>>
  BY DEF RunAll, history
<1>2. \A w \in Worker : pc[w] = "done" /\ ~running[w]
  BY <1>1 DEF PhaseInv, PlaceInv, Place, Waiting
<1>3. \A w \in Worker : attempts'[w] \in Order(w)
  BY DEF RunAll
<1>c. nonEmpty' \in Nat /\ nonEmpty' = Cardinality({k \in Worker : Busy(k)'})
  <2>1. {k \in Worker : Busy(k)'} = {w \in Worker : queue[w] # <<>>}
    BY <1>1 DEF Busy, Pushing
  <2> QED BY <2>1, CountWorkers DEF RunAll
<1>4. TypeOK'
  <2>1. attempts' \in [Worker -> [1 .. NumThreads -> Worker]]
    BY DEF RunAll, Order
  <2>2. 1 \in 1 .. NumThreads + 1
    OBVIOUS
  <2>3. /\ idx' \in [Worker -> 1 .. NumThreads + 1]
        /\ pc' \in [Worker -> {"scan", "pop", "exec", "pushRead", "pushGive",
                        "pushPut", "readRunning", "readNonEmpty", "quit",
                        "take", "done"}]
    BY <1>1, <2>2
  <2>4. /\ insertIdx' \in Worker
        /\ created' \subseteq Task /\ executed' \subseteq Task
    BY <1>h DEF TypeOK
  <2>6. /\ phase' \in {"idle", "running"}
        /\ numRunning' \in Nat /\ nonEmpty' \in Nat /\ sem' \in Nat
    BY <1>1, <1>c
  <2>5. /\ queue' \in [Worker -> Seq(Task)]
        /\ mutex' \in [Worker -> Worker \cup {Free}]
        /\ running' \in [Worker -> BOOLEAN]
        /\ task' \in [Worker -> Task \cup {NoTask}]
        /\ fresh' \in [Worker -> Task \cup {NoTask}]
    BY <1>1 DEF TypeOK
  <2> QED BY <2>1, <2>3, <2>4, <2>5, <2>6 DEF TypeOK
<1>5. LockInv'
  BY <1>1, <1>2 DEF LockInv, Holds, Pushing
<1>6. PlaceInv'
  BY <1>1 DEF Place, PlaceInv, Executing, Pushing, Waiting
<1>7. PhaseInv'
  BY <1>1, <1>3 DEF PhaseInv, Order
<1>8. SeenInv'
  BY <1>1 DEF SeenInv, Seen, Waiting
<1>9. QuietInv'
  BY <1>1 DEF QuietInv, Leaving
<1>10. CountersExact'
  <2>1. {w \in Worker : running'[w]} = {}
    BY <1>1, <1>2
  <2> QED BY <1>1, <1>c, <2>1, FS_EmptySet DEF CountersExact
<1> QED BY <1>4, <1>5, <1>6, <1>7, <1>8, <1>9, <1>10

LEMMA StutterInv ==
  ASSUME Inv, UNCHANGED vars
  PROVE  Inv'
<1> USE DEF vars
<1>1. TypeOK'
  BY DEF Inv, TypeOK
<1>2. LockInv' /\ PlaceInv' /\ PhaseInv'
  BY DEF Inv, LockInv, Holds, PlaceInv, Place, PhaseInv, Executing, Pushing,
     Target, Order
<1>3. SeenInv' /\ QuietInv'
  BY DEF Inv, SeenInv, Seen, Guarded, QuietInv, Leaving, Busy, Pushing
<1>4. CountersExact'
  BY DEF Inv, CountersExact, Busy, Pushing
<1> QED BY <1>1, <1>2, <1>3, <1>4 DEF Inv

LEMMA NextInv == Inv /\ [Next]_vars => Inv'
<1> SUFFICES ASSUME Inv, [Next]_vars PROVE Inv'
  OBVIOUS
<1>1. CASE RunAll
  BY <1>1, RunAllInv
<1>2. CASE Join
  BY <1>2, JoinInv
<1>3. ASSUME NEW t \in Task, AddItem(t) PROVE Inv'
  BY <1>3, AddItemInv
<1>4. ASSUME NEW t \in Task, NEW k \in Worker, AddItemTo(t, k) PROVE Inv'
  BY <1>4, AddItemToInv
<1>5. ASSUME NEW w \in Worker, Loop(w) PROVE Inv'
  BY <1>5, PopEmptyInv, PopLockInv, PopTakeInv, PushReadInv, PushGiveInv,
     PushPutInv, FinishInv, SetIdleInv, ReadRunningInv, ReadNonEmptyInv,
     QuitInv, TakeInv DEF Loop
<1>6. ASSUME NEW w \in Worker, NEW t \in Task, PushBegin(w, t) PROVE Inv'
  BY <1>6, PushBeginInv
<1>7. CASE UNCHANGED vars
  BY <1>7, StutterInv
<1> QED BY <1>1, <1>2, <1>3, <1>4, <1>5, <1>6, <1>7 DEF Next

-----------------------------------------------------------------------------
(* The results.                                                            *)

\* The inductive invariant holds in every behaviour of a work queue with any
\* number of threads and any set of tasks, in either mode.
THEOREM Invariance == Spec => []Inv
BY InitInv, NextInv, PTL DEF Spec

\* Type correctness: in particular no counter and no unit of the semaphore
\* is ever taken below zero.
THEOREM TypeCorrect == Spec => []TypeOK
<1>1. Inv => TypeOK
  BY DEF Inv
<1> QED BY <1>1, Invariance, PTL

\* num_running and num_non_empty count what they are meant to count.
THEOREM CountersCorrect == Spec => []CountersExact
<1>1. Inv => CountersExact
  BY DEF Inv
<1> QED BY <1>1, Invariance, PTL

\* No worker leaves run_all() while a queue holds a task or, when tasks may
\* push tasks, while a task is executing.
THEOREM LeaveCorrect == Spec => []LeaveOnlyWhenDone
<1>1. Inv => LeaveOnlyWhenDone
  <2> SUFFICES ASSUME Inv, phase = "running", NEW w \in Worker, pc[w] = "done",
                      NEW k \in Worker
               PROVE  queue[k] = <<>> /\ (CanPush => ~Executing(k))
    BY DEF LeaveOnlyWhenDone
  <2>1. Guarded(w, k)
    BY DEF Inv, SeenInv, Seen, Waiting
  <2>2. CASE CanPush
    <3>1. ~running[k] /\ ~Busy(k)
      BY <2>2 DEF Inv, QuietInv, Leaving
    <3> QED BY <3>1 DEF Inv, PlaceInv, Place, Busy
  <2>3. CASE ~CanPush
    BY <2>1, <2>3 DEF Guarded, Busy
  <2> QED BY <2>2, <2>3
<1> QED BY <1>1, Invariance, PTL

\* While a worker waits for work, the owner of every queue that holds a task
\* runs.
THEOREM NoTaskStranded == Spec => []NoStrandedTask
<1>1. Inv => NoStrandedTask
  <2> SUFFICES ASSUME Inv, NEW w \in Worker, pc[w] = "take",
                      NEW k \in Worker, Busy(k)
               PROVE  running[k]
    BY DEF NoStrandedTask
  <2>1. phase = "running"
    BY AtWork DEF Inv
  <2>2. Guarded(w, k)
    BY <2>1 DEF Inv, SeenInv, Seen, Waiting
  <2> QED BY <2>2 DEF Guarded
<1> QED BY <1>1, Invariance, PTL

-----------------------------------------------------------------------------
(***************************************************************************)
(* Where each task is.                                                     *)
(***************************************************************************)
(* What an addition to a queue and a removal from one do to the positions. *)

LEMMA QueueTyped ==
  ASSUME TypeOK, NEW k \in Worker
  PROVE  /\ queue[k] \in Seq(Task) /\ Len(queue[k]) \in Nat
         /\ DOMAIN queue[k] = 1 .. Len(queue[k])
         /\ \A i \in DOMAIN queue[k] : queue[k][i] \in Task
<1>1. queue[k] \in Seq(Task)
  BY DEF TypeOK
<1> QED
  BY <1>1, LenProperties, ElementOfSeq

LEMMA Enqueued ==
  ASSUME TypeOK, NEW k \in Worker, NEW t \in Task,
         queue'[k] = Append(queue[k], t),
         \A l \in Worker : l # k => queue'[l] = queue[l]
  PROVE  /\ \A l \in Worker : \A i \in DOMAIN queue[l] :
              i \in DOMAIN queue'[l] /\ queue'[l][i] = queue[l][i]
         /\ \A l \in Worker : \A i \in DOMAIN queue'[l] :
              \/ i \in DOMAIN queue[l] /\ queue'[l][i] = queue[l][i]
              \/ l = k /\ i = Len(queue[k]) + 1 /\ queue'[l][i] = t
         /\ \E i \in DOMAIN queue'[k] : queue'[k][i] = t
<1>1. /\ queue[k] \in Seq(Task) /\ Len(queue[k]) \in Nat
      /\ DOMAIN queue[k] = 1 .. Len(queue[k])
  BY QueueTyped
<1> DEFINE s == Append(queue[k], t)
<1>2. /\ s \in Seq(Task) /\ Len(s) = Len(queue[k]) + 1
      /\ \A i \in 1 .. Len(queue[k]) : s[i] = queue[k][i]
      /\ s[Len(queue[k]) + 1] = t
  BY <1>1, AppendProperties
<1>3. DOMAIN s = 1 .. Len(queue[k]) + 1
  BY <1>2, LenProperties
<1>4. /\ queue'[k] = s
      /\ \A l \in Worker : l # k => queue'[l] = queue[l]
  BY DEF TypeOK
<1> HIDE DEF s
<1>5. /\ \A i \in DOMAIN queue[k] : i \in DOMAIN s /\ s[i] = queue[k][i]
      /\ \A i \in DOMAIN s : \/ i \in DOMAIN queue[k] /\ s[i] = queue[k][i]
                             \/ i = Len(queue[k]) + 1 /\ s[i] = t
      /\ Len(queue[k]) + 1 \in DOMAIN s
  BY <1>1, <1>2, <1>3
<1> QED
  BY <1>2, <1>4, <1>5

LEMMA Dequeued ==
  ASSUME TypeOK, NEW k \in Worker, queue[k] # <<>>,
         queue'[k] = Tail(queue[k]),
         \A l \in Worker : l # k => queue'[l] = queue[l]
  PROVE  /\ \A l \in Worker : l # k => queue'[l] = queue[l]
         /\ \A i \in DOMAIN queue'[k] :
              i \in Int /\ i + 1 \in DOMAIN queue[k] /\ i + 1 # 1
              /\ queue'[k][i] = queue[k][i + 1]
         /\ \A i \in DOMAIN queue[k] :
              i = 1 \/ \E j \in DOMAIN queue'[k] : queue'[k][j] = queue[k][i]
         /\ 1 \in DOMAIN queue[k] /\ Head(queue[k]) = queue[k][1]
<1>1. /\ queue[k] \in Seq(Task) /\ Len(queue[k]) \in Nat
      /\ DOMAIN queue[k] = 1 .. Len(queue[k])
  BY QueueTyped
<1> DEFINE s == Tail(queue[k])
<1>2. /\ s \in Seq(Task) /\ Len(s) = Len(queue[k]) - 1
      /\ \A i \in 1 .. Len(s) : s[i] = queue[k][i + 1]
      /\ Len(queue[k]) \in Nat \ {0}
  BY <1>1, HeadTailProperties, EmptySeq
<1>3. DOMAIN s = 1 .. Len(queue[k]) - 1
  BY <1>2, LenProperties
<1>4. /\ queue'[k] = s
      /\ \A l \in Worker : l # k => queue'[l] = queue[l]
  BY DEF TypeOK
<1>5. Head(queue[k]) = queue[k][1]
  BY <1>1
<1> HIDE DEF s
<1>6. \A i \in DOMAIN s : /\ i \in Int /\ i + 1 \in DOMAIN queue[k] /\ i + 1 # 1
                          /\ s[i] = queue[k][i + 1]
  BY <1>1, <1>2, <1>3
<1>7. \A i \in DOMAIN queue[k] : i = 1 \/ \E j \in DOMAIN s : s[j] = queue[k][i]
  <2> SUFFICES ASSUME NEW i \in DOMAIN queue[k], i # 1
               PROVE  \E j \in DOMAIN s : s[j] = queue[k][i]
    OBVIOUS
  <2>1. i \in Int /\ i - 1 \in DOMAIN s
    BY <1>1, <1>3
  <2>2. s[i - 1] = queue[k][i - 1 + 1] /\ i - 1 + 1 = i
    BY <1>6, <2>1
  <2> QED
    BY <2>1, <2>2
<1>8. 1 \in DOMAIN queue[k]
  BY <1>1, <1>2
<1> QED
  BY <1>4, <1>5, <1>6, <1>7, <1>8

-----------------------------------------------------------------------------
(* Where the tasks are.                                                    *)

LEMMA TasksInit == Init => TasksInv
<1> SUFFICES ASSUME Init PROVE TasksInv
  OBVIOUS
<1>1. HandsInv /\ HandsDistinct
  BY DEF Init, HandsInv, HandsDistinct, Executing, Pushing
<1>2. QueuesDistinct
  BY DEF Init, QueuesDistinct
<1>3. PlacedInv /\ FoundInv
  BY DEF Init, PlacedInv, FoundInv, Unfinished
<1> QED
  BY <1>1, <1>2, <1>3 DEF TasksInv

LEMMA UnfinishedIsTask ==
  ASSUME TypeOK
  PROVE  \A t \in Unfinished : t \in Task /\ t # NoTask
BY DEF TypeOK, Unfinished

\* The hands of the workers that do not step.
LEMMA HandsFrame ==
  ASSUME HandsInv, NEW w \in Worker, Local(w),
         task'[w] # NoTask <=> Executing(w)', fresh'[w] # NoTask <=> Pushing(w)'
  PROVE  HandsInv'
BY DEF HandsInv, Local, Executing, Pushing

\* A step that moves no task.
LEMMA NothingMoves ==
  ASSUME TasksInv, HandsInv', UNCHANGED <<queue, task, fresh, created, executed>>
  PROVE  TasksInv'
<1>1. QueuesDistinct' /\ HandsDistinct'
  BY DEF TasksInv, QueuesDistinct, HandsDistinct
<1>2. PlacedInv' /\ FoundInv'
  BY DEF TasksInv, PlacedInv, FoundInv, Unfinished
<1> QED
  BY <1>1, <1>2 DEF TasksInv

\* A step of a worker that neither pops, pushes nor finishes a task.
Other(w) == \/ PopEmpty(w) \/ PopLock(w) \/ PushRead(w) \/ PushGive(w)
            \/ SetIdle(w) \/ ReadRunning(w) \/ ReadNonEmpty(w)
            \/ Quit(w) \/ Take(w)

LEMMA OtherTasks ==
  ASSUME TypeOK, TasksInv, NEW w \in Worker, Other(w)
  PROVE  TasksInv'
<1>1. UNCHANGED <<queue, task, fresh, created, executed>>
  BY DEF Other, PopEmpty, PopLock, PushRead, PushGive, SetIdle, ReadRunning,
         ReadNonEmpty, Quit, Take, counters, history
<1>2. (Executing(w)' <=> Executing(w)) /\ (Pushing(w)' <=> Pushing(w))
  BY DEF Other, PopEmpty, PopLock, PushRead, PushGive, SetIdle, ReadRunning,
         ReadNonEmpty, Quit, Take, Goto, Executing, Pushing, TypeOK
<1>3. Local(w)
  BY StepIsLocal DEF Other, Loop
<1>4. HandsInv'
  BY <1>1, <1>2, <1>3, HandsFrame DEF TasksInv, HandsInv
<1> QED
  BY <1>1, <1>4, NothingMoves

\* A caller adds a task to a queue.
LEMMA AddTasks ==
  ASSUME TypeOK, TasksInv, NEW k \in Worker, NEW t \in Task \ created,
         queue' = [queue EXCEPT ![k] = Append(@, t)],
         created' = created \cup {t}, UNCHANGED <<pc, task, fresh, executed>>
  PROVE  TasksInv'
<1> USE DEF TasksInv
<1>1. /\ \A l \in Worker : \A i \in DOMAIN queue[l] :
           i \in DOMAIN queue'[l] /\ queue'[l][i] = queue[l][i]
      /\ \A l \in Worker : \A i \in DOMAIN queue'[l] :
           \/ i \in DOMAIN queue[l] /\ queue'[l][i] = queue[l][i]
           \/ l = k /\ i = Len(queue[k]) + 1 /\ queue'[l][i] = t
      /\ \E i \in DOMAIN queue'[k] : queue'[k][i] = t
  <2>1. /\ t \in Task /\ queue'[k] = Append(queue[k], t)
        /\ \A l \in Worker : l # k => queue'[l] = queue[l]
    BY DEF TypeOK
  <2> QED
    BY <2>1, Enqueued
<1>2. /\ t # NoTask /\ t \notin executed
      /\ \A w \in Worker : t # task[w] /\ t # fresh[w]
      /\ \A l \in Worker : \A i \in DOMAIN queue[l] : queue[l][i] # t
  BY DEF PlacedInv, Unfinished
<1>3. HandsInv' /\ HandsDistinct'
  BY DEF HandsInv, HandsDistinct, Executing, Pushing
<1>4. QueuesDistinct'
  BY <1>1, <1>2 DEF QueuesDistinct
<1>5. PlacedInv'
  BY <1>1, <1>2 DEF PlacedInv, Unfinished
<1>6. FoundInv'
  BY <1>1 DEF FoundInv, Unfinished
<1> QED
  BY <1>3, <1>4, <1>5, <1>6

LEMMA PushBeginTasks ==
  ASSUME TypeOK, TasksInv, NEW w \in Worker, NEW t \in Task, PushBegin(w, t)
  PROVE  TasksInv'
<1> USE DEF TasksInv
<1>1. /\ t \notin created /\ created' = created \cup {t}
      /\ fresh' = [fresh EXCEPT ![w] = t] /\ fresh \in [Worker -> Task \cup {NoTask}]
      /\ UNCHANGED <<queue, task, executed>>
      /\ pc[w] = "exec" /\ pc'[w] = "pushRead"
  BY DEF PushBegin, Goto, TypeOK
<1>2. /\ t # NoTask /\ t \notin executed
      /\ \A v \in Worker : t # task[v] /\ t # fresh[v]
      /\ \A l \in Worker : \A i \in DOMAIN queue[l] : queue[l][i] # t
  BY <1>1 DEF PlacedInv, Unfinished
<1>3. fresh'[w] = t /\ \A v \in Worker : v # w => fresh'[v] = fresh[v]
  BY <1>1
<1>4. HandsInv'
  <2>1. Local(w)
    BY StepIsLocal
  <2>2. task[w] # NoTask
    BY <1>1 DEF HandsInv, Executing
  <2> QED
    BY <1>1, <1>2, <1>3, <2>1, <2>2, HandsFrame DEF Executing, Pushing
<1>5. fresh[w] = NoTask
  BY <1>1 DEF HandsInv, Pushing
<1>6. QueuesDistinct'
  BY <1>1 DEF QueuesDistinct
<1>7. HandsDistinct'
  BY <1>1, <1>2, <1>3 DEF HandsDistinct
<1>8. PlacedInv'
  BY <1>1, <1>2, <1>3 DEF PlacedInv, Unfinished
<1>9. FoundInv'
  <2> SUFFICES ASSUME NEW u \in Unfinished \cup {t}
               PROVE  \/ \E k \in Worker : \E i \in DOMAIN queue[k] : queue[k][i] = u
                      \/ \E v \in Worker : u \in {task[v], fresh'[v]}
    BY <1>1 DEF FoundInv, Unfinished
  <2>1. CASE u = t
    BY <1>3, <2>1
  <2>2. CASE u \in Unfinished
    BY <1>3, <1>5, <2>2, UnfinishedIsTask DEF FoundInv
  <2> QED
    BY <2>1, <2>2
<1> QED
  BY <1>4, <1>6, <1>7, <1>8, <1>9

LEMMA PushPutTasks ==
  ASSUME TypeOK, TasksInv, NEW w \in Worker, PushPut(w)
  PROVE  TasksInv'
<1> USE DEF TasksInv
<1> DEFINE t == fresh[w]
<1>1. /\ fresh' = [fresh EXCEPT ![w] = NoTask] /\ fresh \in [Worker -> Task \cup {NoTask}]
      /\ UNCHANGED <<created, task, executed>>
      /\ pc[w] = "pushPut" /\ pc'[w] = "exec"
  BY DEF PushPut, Goto, TypeOK, history
<1>2. /\ t # NoTask /\ t \in Task /\ t \in Unfinished
      /\ \A v \in Worker : t # task[v] /\ (v # w => t # fresh[v])
      /\ \A l \in Worker : \A i \in DOMAIN queue[l] : queue[l][i] # t
  <2>1. t # NoTask
    BY <1>1 DEF HandsInv, Pushing
  <2> QED
    BY <1>1, <2>1 DEF PlacedInv, HandsDistinct, Unfinished
<1>3. fresh'[w] = NoTask /\ \A v \in Worker : v # w => fresh'[v] = fresh[v]
  BY <1>1
<1>4. HandsInv'
  <2>1. Local(w)
    BY StepIsLocal DEF Loop
  <2>2. task[w] # NoTask
    BY <1>1 DEF HandsInv, Executing, Pushing
  <2> QED
    BY <1>1, <1>3, <2>1, <2>2, HandsFrame DEF Executing, Pushing
<1>5. /\ \A l \in Worker : \A i \in DOMAIN queue[l] :
           i \in DOMAIN queue'[l] /\ queue'[l][i] = queue[l][i]
      /\ \A l \in Worker : \A i \in DOMAIN queue'[l] :
           \/ i \in DOMAIN queue[l] /\ queue'[l][i] = queue[l][i]
           \/ l = w /\ i = Len(queue[w]) + 1 /\ queue'[l][i] = t
      /\ \E i \in DOMAIN queue'[w] : queue'[w][i] = t
  <2>1. queue'[w] = Append(queue[w], t) /\ \A l \in Worker : l # w => queue'[l] = queue[l]
    BY DEF PushPut, TypeOK
  <2> QED
    BY <1>2, <2>1, Enqueued
<1> HIDE DEF t
<1>6. QueuesDistinct'
  BY <1>2, <1>5 DEF QueuesDistinct
<1>7. HandsDistinct'
  BY <1>1, <1>3 DEF HandsDistinct
<1>8. PlacedInv'
  <2>1. Unfinished' = Unfinished /\ executed' \subseteq created'
    BY <1>1 DEF PlacedInv, Unfinished
  <2>2. \A v \in Worker : {task'[v], fresh'[v]} \subseteq Unfinished \cup {NoTask}
    BY <1>1, <1>3 DEF PlacedInv
  <2>3. ASSUME NEW l \in Worker, NEW i \in DOMAIN queue'[l]
        PROVE  /\ queue'[l][i] \in Unfinished
               /\ \A v \in Worker : queue'[l][i] \notin {task'[v], fresh'[v]}
    <3>1. CASE queue'[l][i] = t
      BY <1>1, <1>2, <1>3, <3>1
    <3>2. CASE i \in DOMAIN queue[l] /\ queue'[l][i] = queue[l][i]
      BY <1>1, <1>3, <3>2, UnfinishedIsTask DEF PlacedInv
    <3> QED
      BY <1>5, <3>1, <3>2
  <2> QED
    BY <2>1, <2>2, <2>3 DEF PlacedInv
<1>9. FoundInv'
  <2> SUFFICES ASSUME NEW u \in Unfinished
               PROVE  \/ \E k \in Worker : \E i \in DOMAIN queue'[k] : queue'[k][i] = u
                      \/ \E v \in Worker : u \in {task[v], fresh'[v]}
    BY <1>1 DEF FoundInv, Unfinished
  <2>1. CASE u = t
    BY <1>5, <2>1
  <2>2. CASE u # t
    BY <1>3, <1>5, <2>2 DEF FoundInv, t
  <2> QED
    BY <2>1, <2>2
<1> QED
  BY <1>4, <1>6, <1>7, <1>8, <1>9

LEMMA PopTakeTasks ==
  ASSUME TypeOK, PlaceInv, TasksInv, NEW w \in Worker, PopTake(w)
  PROVE  TasksInv'
<1> USE DEF TasksInv
<1> DEFINE k == Target(w)
           t == Head(queue[k])
<1>1. /\ task' = [task EXCEPT ![w] = t] /\ task \in [Worker -> Task \cup {NoTask}]
      /\ queue' = [queue EXCEPT ![k] = Tail(@)]
      /\ UNCHANGED <<created, fresh, executed>>
      /\ pc[w] = "pop" /\ pc'[w] = "exec"
  BY DEF PopTake, Goto, TypeOK, history
<1>2. k \in Worker /\ queue[k] # <<>>
  BY <1>1, TargetType DEF PlaceInv, Place
<1>3. /\ \A l \in Worker : l # k => queue'[l] = queue[l]
      /\ \A i \in DOMAIN queue'[k] :
           i \in Int /\ i + 1 \in DOMAIN queue[k] /\ i + 1 # 1
           /\ queue'[k][i] = queue[k][i + 1]
      /\ \A i \in DOMAIN queue[k] :
           i = 1 \/ \E j \in DOMAIN queue'[k] : queue'[k][j] = queue[k][i]
      /\ 1 \in DOMAIN queue[k] /\ t = queue[k][1]
  <2>1. queue'[k] = Tail(queue[k]) /\ \A l \in Worker : l # k => queue'[l] = queue[l]
    BY <1>1, <1>2 DEF TypeOK
  <2> QED
    BY <1>2, <2>1, Dequeued
<1> HIDE DEF k, t
<1>4. /\ t # NoTask /\ t \in Unfinished
      /\ \A v \in Worker : t # task[v] /\ t # fresh[v]
  BY <1>2, <1>3, UnfinishedIsTask DEF PlacedInv
<1>5. task[w] = NoTask /\ task'[w] = t /\ \A v \in Worker : v # w => task'[v] = task[v]
  BY <1>1 DEF HandsInv, Executing, Pushing
<1>6. HandsInv'
  <2>1. Local(w)
    BY StepIsLocal DEF Loop
  <2>2. fresh[w] = NoTask
    BY <1>1 DEF HandsInv, Pushing
  <2> QED
    BY <1>1, <1>4, <1>5, <2>1, <2>2, HandsFrame DEF Executing, Pushing
<1>7. HandsDistinct'
  BY <1>1, <1>4, <1>5 DEF HandsDistinct
<1>8. \A l \in Worker : \A i \in DOMAIN queue'[l] :
        \E j \in DOMAIN queue[l] : /\ queue'[l][i] = queue[l][j]
                                   /\ l = k => j = i + 1 /\ i \in Int
                                   /\ l # k => j = i
  BY <1>3
<1>9. QueuesDistinct'
  <2> SUFFICES ASSUME NEW l \in Worker, NEW m \in Worker,
                      NEW i \in DOMAIN queue'[l], NEW j \in DOMAIN queue'[m],
                      queue'[l][i] = queue'[m][j]
               PROVE  l = m /\ i = j
    BY DEF QueuesDistinct
  <2>1. PICK a \in DOMAIN queue[l] : /\ queue'[l][i] = queue[l][a]
                                     /\ l = k => a = i + 1 /\ i \in Int
                                     /\ l # k => a = i
    BY <1>8
  <2>2. PICK b \in DOMAIN queue[m] : /\ queue'[m][j] = queue[m][b]
                                     /\ m = k => b = j + 1 /\ j \in Int
                                     /\ m # k => b = j
    BY <1>8
  <2>3. l = m /\ a = b
    <3>1. queue[l][a] = queue[m][b]
      BY <2>1, <2>2
    <3> QED
      BY <3>1 DEF QueuesDistinct
  <2> QED
    BY <2>1, <2>2, <2>3
<1>10. \A l \in Worker : \A i \in DOMAIN queue'[l] : queue'[l][i] # t
  <2> SUFFICES ASSUME NEW l \in Worker, NEW i \in DOMAIN queue'[l], queue'[l][i] = t
               PROVE  FALSE
    OBVIOUS
  <2>1. PICK j \in DOMAIN queue[l] : queue'[l][i] = queue[l][j] /\ (l = k => j # 1)
    BY <1>3
  <2>2. l = k /\ j = 1
    BY <1>2, <1>3, <2>1 DEF QueuesDistinct
  <2> QED
    BY <2>1, <2>2
<1>11. PlacedInv'
  <2>1. Unfinished' = Unfinished /\ executed' \subseteq created'
    BY <1>1 DEF PlacedInv, Unfinished
  <2>2. \A v \in Worker : {task'[v], fresh'[v]} \subseteq Unfinished \cup {NoTask}
    BY <1>1, <1>4, <1>5 DEF PlacedInv
  <2>3. ASSUME NEW l \in Worker, NEW i \in DOMAIN queue'[l]
        PROVE  /\ queue'[l][i] \in Unfinished
               /\ \A v \in Worker : queue'[l][i] \notin {task'[v], fresh'[v]}
    <3>1. PICK j \in DOMAIN queue[l] : queue'[l][i] = queue[l][j]
      BY <1>8
    <3> QED
      BY <1>1, <1>5, <1>10, <3>1 DEF PlacedInv
  <2> QED
    BY <2>1, <2>2, <2>3 DEF PlacedInv
<1>12. FoundInv'
  <2> SUFFICES ASSUME NEW u \in Unfinished
               PROVE  \/ \E l \in Worker : \E i \in DOMAIN queue'[l] : queue'[l][i] = u
                      \/ \E v \in Worker : u \in {task'[v], fresh[v]}
    BY <1>1 DEF FoundInv, Unfinished
  <2>1. ASSUME NEW l \in Worker, NEW i \in DOMAIN queue[l], queue[l][i] = u
        PROVE  u = t \/ \E j \in DOMAIN queue'[l] : queue'[l][j] = u
    BY <1>3, <2>1
  <2>2. ASSUME NEW v \in Worker, u \in {task[v], fresh[v]}
        PROVE  u \in {task'[v], fresh[v]}
    BY <1>5, <2>2, UnfinishedIsTask
  <2> QED
    BY <1>5, <2>1, <2>2 DEF FoundInv
<1> QED
  BY <1>6, <1>7, <1>9, <1>11, <1>12

LEMMA FinishTasks ==
  ASSUME TypeOK, TasksInv, NEW w \in Worker, Finish(w)
  PROVE  TasksInv'
<1> USE DEF TasksInv
<1>1. /\ task' = [task EXCEPT ![w] = NoTask] /\ task \in [Worker -> Task \cup {NoTask}]
      /\ executed' = executed \cup {task[w]}
      /\ UNCHANGED <<queue, fresh, created>>
      /\ pc[w] = "exec" /\ pc'[w] = "scan"
  BY DEF Finish, Goto, TypeOK
<1>2. /\ task[w] # NoTask /\ task[w] \in created /\ fresh[w] = NoTask
      /\ \A v \in Worker : (v # w => task[v] # task[w]) /\ fresh[v] # task[w]
  <2>1. task[w] # NoTask
    BY <1>1 DEF HandsInv, Executing
  <2>2. fresh[w] = NoTask
    BY <1>1 DEF HandsInv, Pushing
  <2> QED
    BY <2>1, <2>2 DEF PlacedInv, HandsDistinct, Unfinished
<1>3. task'[w] = NoTask /\ \A v \in Worker : v # w => task'[v] = task[v]
  BY <1>1
<1>4. Unfinished' = Unfinished \ {task[w]}
  BY <1>1 DEF Unfinished
<1>5. HandsInv'
  <2>1. Local(w)
    BY StepIsLocal DEF Loop
  <2> QED
    BY <1>1, <1>2, <1>3, <2>1, HandsFrame DEF Executing, Pushing
<1>6. QueuesDistinct' /\ HandsDistinct'
  BY <1>1, <1>3 DEF QueuesDistinct, HandsDistinct
<1>7. PlacedInv'
  <2>1. executed' \subseteq created'
    BY <1>1, <1>2 DEF PlacedInv
  <2>2. \A v \in Worker : {task'[v], fresh'[v]} \subseteq Unfinished' \cup {NoTask}
    BY <1>1, <1>2, <1>3, <1>4 DEF PlacedInv
  <2>3. \A l \in Worker : \A i \in DOMAIN queue'[l] :
          /\ queue'[l][i] \in Unfinished'
          /\ \A v \in Worker : queue'[l][i] \notin {task'[v], fresh'[v]}
    BY <1>1, <1>3, <1>4, UnfinishedIsTask DEF PlacedInv
  <2> QED
    BY <2>1, <2>2, <2>3 DEF PlacedInv
<1>8. FoundInv'
  BY <1>1, <1>3, <1>4 DEF FoundInv
<1> QED
  BY <1>5, <1>6, <1>7, <1>8

LEMMA TasksNext == Inv /\ TasksInv /\ [Next]_vars => TasksInv'
<1> SUFFICES ASSUME Inv, TasksInv, [Next]_vars PROVE TasksInv'
  OBVIOUS
<1> USE DEF Inv
<1>1. CASE RunAll \/ Join \/ UNCHANGED vars
  <2>1. UNCHANGED <<queue, task, fresh, created, executed>>
    BY <1>1 DEF RunAll, Join, vars, history
  <2>2. \A w \in Worker : ~Executing(w)' <=> ~Executing(w)
    BY <1>1 DEF RunAll, Join, vars, Executing, Pushing, PhaseInv
  <2>3. \A w \in Worker : ~Pushing(w)' <=> ~Pushing(w)
    BY <1>1 DEF RunAll, Join, vars, Pushing, PhaseInv
  <2>4. HandsInv'
    BY <2>1, <2>2, <2>3 DEF HandsInv, TasksInv
  <2> QED
    BY <2>1, <2>4, NothingMoves
<1>2. ASSUME NEW t \in Task, NEW k \in Worker, AddItemTo(t, k)  PROVE TasksInv'
  BY <1>2, AddTasks DEF AddItemTo
<1>3. ASSUME NEW t \in Task, AddItem(t)  PROVE TasksInv'
  <2>1. insertIdx' \in Worker
    BY <1>3, AddItemInv DEF TypeOK
  <2> QED
    BY <1>3, <2>1, AddTasks DEF AddItem
<1>4. ASSUME NEW w \in Worker, Loop(w)  PROVE TasksInv'
  BY <1>4, OtherTasks, PopTakeTasks, PushPutTasks, FinishTasks DEF Loop, Other
<1>5. ASSUME NEW w \in Worker, NEW t \in Task, PushBegin(w, t)  PROVE TasksInv'
  BY <1>5, PushBeginTasks
<1> QED
  BY <1>1, <1>2, <1>3, <1>4, <1>5 DEF Next

THEOREM TasksInvariance == Spec => []TasksInv
BY TasksInit, TasksNext, Invariance, PTL DEF Spec

\* No task is lost and none is in two places, whatever the number of threads
\* and of tasks and however pop_task and push_task interleave.
THEOREM TaskOnce == Spec => []EachTaskOnce
<1>1. TypeOK /\ TasksInv => EachTaskOnce
  <2> SUFFICES ASSUME TypeOK, TasksInv, NEW t \in created
               PROVE  IF t \in executed THEN Places(t) = {}
                      ELSE \E p \in Places(t) : Places(t) = {p}
    BY DEF EachTaskOnce
  <2> USE DEF TasksInv
  <2>0. t # NoTask
    BY DEF TypeOK
  <2>1. ASSUME NEW p
        PROVE  p \in Places(t) <=>
               \/ \E k \in Worker : \E i \in DOMAIN queue[k] :
                    queue[k][i] = t /\ p = <<"queue", k, i>>
               \/ \E w \in Worker : fresh[w] = t /\ p = <<"fresh", w, 0>>
               \/ \E w \in Worker : task[w] = t /\ p = <<"task", w, 0>>
    <3> DEFINE At(k) == {<<"queue", k, i>> : i \in {j \in DOMAIN queue[k] : queue[k][j] = t}}
    <3>1. ASSUME NEW k \in Worker
          PROVE  p \in At(k) <=>
                   \E i \in DOMAIN queue[k] : queue[k][i] = t /\ p = <<"queue", k, i>>
      OBVIOUS
    <3> DEFINE Fresh == {<<"fresh", w, 0>> : w \in {v \in Worker : fresh[v] = t}}
               Tasks == {<<"task", w, 0>> : w \in {v \in Worker : task[v] = t}}
               Queued == UNION {At(k) : k \in Worker}
    <3>2. /\ p \in Fresh <=> \E w \in Worker : fresh[w] = t /\ p = <<"fresh", w, 0>>
          /\ p \in Tasks <=> \E w \in Worker : task[w] = t /\ p = <<"task", w, 0>>
      OBVIOUS
    <3>3. Places(t) = Queued \cup Fresh \cup Tasks
      BY DEF Places
    <3> HIDE DEF At, Fresh, Tasks
    <3>4. p \in Queued <=> \E k \in Worker : p \in At(k)
      BY Zenon
    <3> HIDE DEF Queued
    <3> QED
      BY <3>1, <3>2, <3>3, <3>4
  <2>2. CASE t \in executed
    <3>1. t \notin Unfinished
      BY <2>2 DEF Unfinished
    <3>2. \A p : p \notin Places(t)
      BY <2>0, <2>1, <3>1 DEF PlacedInv
    <3> QED
      BY <2>2, <3>2
  <2>3. CASE t \notin executed
    <3>1. t \in Unfinished
      BY <2>3 DEF Unfinished
    <3>2. PICK p : p \in Places(t)
      BY <2>1, <3>1 DEF FoundInv
    <3>3. ASSUME NEW q \in Places(t)  PROVE q = p
      BY <2>0, <2>1, <3>2, <3>3 DEF QueuesDistinct, HandsDistinct, PlacedInv
    <3> QED
      BY <2>3, <3>2, <3>3
  <2> QED
    BY <2>2, <2>3
<1> QED
  BY <1>1, TypeCorrect, TasksInvariance, PTL

-----------------------------------------------------------------------------
(* Nobody is left asleep.                                                  *)

LEMMA HowManyWorkers == Cardinality(Worker) = NumThreads
<1>1. 0 \in Int /\ NumThreads - 1 \in Int /\ ~(0 > NumThreads - 1)
  OBVIOUS
<1>2. Cardinality(0 .. NumThreads - 1) = NumThreads - 1 - 0 + 1
  BY <1>1, FS_Interval
<1> QED
  BY <1>2 DEF Worker

Sleepers == {w \in Worker : pc[w] = "take"}

\* After the first worker has left nobody goes to sleep any more.
LEMMA NobodyFallsAsleep ==
  ASSUME Inv, CanPush, phase = "running", NEW v \in Worker, pc[v] = "done",
         NEW w \in Worker, Loop(w) \/ \E t \in Task : PushBegin(w, t), pc'[w] = "take"
  PROVE  FALSE
<1> USE DEF Inv
<1>1. \A k \in Worker : ~running[k] /\ ~Busy(k)
  BY DEF QuietInv, Leaving
<1>2. numRunning = 0 /\ nonEmpty = 0
  <2>1. {k \in Worker : running[k]} = {} /\ {k \in Worker : Busy(k)} = {}
    BY <1>1
  <2> QED
    BY <2>1, FS_EmptySet DEF CountersExact
<1>3. \/ ReadRunning(w) /\ numRunning # 0
      \/ ReadNonEmpty(w) /\ nonEmpty # 0
  BY DEF Loop, PopEmpty, PopLock, PopTake, PushRead, PushGive, PushPut, Finish, SetIdle,
         ReadRunning, ReadNonEmpty, Quit, Take, PushBegin, Goto, TypeOK
<1> QED
  BY <1>2, <1>3

LEMMA WokenNext == Inv /\ EveryoneWoken /\ [Next]_vars => EveryoneWoken'
<1> SUFFICES ASSUME Inv, EveryoneWoken, [Next]_vars, phase' = "running", CanPush,
                    NEW v \in Worker, pc'[v] = "done"
             PROVE  sem' >= Cardinality(Sleepers')
  BY DEF EveryoneWoken, Sleepers
<1>1. Sleepers \in SUBSET Worker /\ Sleepers' \in SUBSET Worker /\ sem \in Nat
  BY DEF Sleepers, Inv, TypeOK
<1>2. Cardinality(Sleepers) \in Nat /\ Cardinality(Sleepers') \in Nat
  BY <1>1, CountWorkers
<1>3. pc[v] = "done" /\ phase = "running" => sem >= Cardinality(Sleepers)
  BY DEF EveryoneWoken, Sleepers
<1>4. CASE RunAll \/ Join \/ UNCHANGED vars
                  \/ \E t \in Task : AddItem(t) \/ \E k \in Worker : AddItemTo(t, k)
  BY <1>3, <1>4 DEF RunAll, Join, AddItem, AddItemTo, vars, Sleepers
<1>5. ASSUME NEW w \in Worker, Loop(w) \/ \E t \in Task : PushBegin(w, t)
      PROVE  sem' >= Cardinality(Sleepers')
  <2>1. Local(w) /\ phase = "running"
    BY <1>5, StepIsLocal DEF Inv, Local
  <2>2. CASE Quit(w)
    <3>1. Cardinality(Sleepers') <= NumThreads
      BY <1>1, WorkerFinite, HowManyWorkers, FS_Subset
    <3> QED
      BY <1>1, <1>2, <2>2, <3>1 DEF Quit
  <2>3. CASE ~Quit(w)
    <3>1. pc[v] = "done"
      BY <1>5, <2>1, <2>3 DEF Local, Loop, PopEmpty, PopLock, PopTake, PushRead, PushGive,
           PushPut, Finish, SetIdle, ReadRunning, ReadNonEmpty, Take, PushBegin, Goto, Inv, TypeOK
    <3>2. sem >= Cardinality(Sleepers)
      BY <1>3, <2>1, <3>1
    <3>3. pc'[w] # "take"
      BY <1>5, <2>1, <3>1, NobodyFallsAsleep
    <3>4. CASE Take(w)
      <4>1. Sleepers' = Sleepers \ {w} /\ w \in Sleepers
        BY <2>1, <3>3, <3>4 DEF Local, Sleepers, Take
      <4>2. sem' = sem - 1
        BY <3>4 DEF Take
      <4> QED
        BY <1>1, <1>2, <3>2, <4>1, <4>2, CountOneLess
    <3>5. CASE ~Take(w)
      <4>1. Sleepers' \subseteq Sleepers
        BY <2>1, <3>3 DEF Local, Sleepers
      <4>2. Cardinality(Sleepers') <= Cardinality(Sleepers)
        BY <1>1, <4>1, CountWorkers, FS_Subset
      <4>3. sem' = sem \/ sem' = sem + 1
        BY <1>5, <2>3, <3>5 DEF Loop, PopEmpty, PopLock, PopTake, PushRead, PushGive, PushPut,
             Finish, SetIdle, ReadRunning, ReadNonEmpty, PushBegin
      <4> QED
        BY <1>1, <1>2, <3>2, <4>2, <4>3
    <3> QED
      BY <3>4, <3>5
  <2> QED
    BY <2>2, <2>3
<1> QED
  BY <1>4, <1>5 DEF Next

\* Once one worker has left run_all(), the semaphore holds a unit for every
\* worker that sleeps: the units that Quit gives are never too few.
THEOREM Woken == Spec => []EveryoneWoken
<1>1. Init => EveryoneWoken
  BY DEF Init, EveryoneWoken
<1> QED
  BY <1>1, WokenNext, Invariance, PTL DEF Spec

-----------------------------------------------------------------------------
(* Every step of the queue is a step of the task pool.                     *)

\* The instance has a Cardinality of its own.
LEMMA PoolCardinality == \A S : Pool!Cardinality(S) = Cardinality(S)
BY DEF Pool!Cardinality, Cardinality

LEMMA InFlightIs ==
  ASSUME HandsInv
  PROVE  \A t : t \in InFlight <=> t # NoTask /\ \E w \in Worker : task[w] = t
BY DEF HandsInv, InFlight

\* A worker that executes nothing leaves room for one more task in flight.
LEMMA RoomInFlight ==
  ASSUME NEW w \in Worker, ~Executing(w)
  PROVE  Cardinality(InFlight) < NumThreads
<1> DEFINE S == {v \in Worker : Executing(v)}
           f == [v \in S |-> task[v]]
<1>1. S \in SUBSET (Worker \ {w})
  OBVIOUS
<1>2. /\ IsFiniteSet(Worker \ {w}) /\ Cardinality(Worker \ {w}) = NumThreads - 1
      /\ Cardinality(Worker \ {w}) \in Nat
  BY WorkerFinite, HowManyWorkers, CountWorkers, FS_RemoveElement
<1>3. IsFiniteSet(S) /\ Cardinality(S) <= NumThreads - 1
  BY <1>1, <1>2, FS_Subset
<1>4. f \in Surjection(S, InFlight)
  BY DEF InFlight, Surjection
<1>5. IsFiniteSet(InFlight) /\ Cardinality(InFlight) <= Cardinality(S)
  BY <1>3, <1>4, FS_Surjection
<1>6. Cardinality(InFlight) \in Nat /\ Cardinality(S) \in Nat
  BY <1>3, <1>5, FS_CardinalityType
<1> QED
  BY <1>3, <1>5, <1>6

LEMMA PoolInit == Init => Pool!Init
<1> SUFFICES ASSUME Init PROVE Pool!Init
  OBVIOUS
<1>1. InFlight = {}
  BY DEF Init, InFlight, Executing, Pushing
<1> QED
  BY <1>1 DEF Init, Pool!Init

\* A step that leaves alone who executes what.
LEMMA SameInFlight ==
  ASSUME \A w \in Worker : (Executing(w)' <=> Executing(w)) /\ task'[w] = task[w]
  PROVE  InFlight' = InFlight
BY DEF InFlight

LEMMA LeaveCorrectStep ==
  ASSUME Inv, Join, NEW k \in Worker
  PROVE  pc[k] = "done" /\ queue[k] = <<>>
<1>1. pc[k] = "done" /\ phase = "running"
  BY DEF Join
<1>2. Guarded(k, k)
  BY <1>1 DEF Inv, SeenInv, Seen, Waiting
<1> QED
  BY <1>1, <1>2 DEF Guarded, Busy

\* run_all() returns: nothing waits and nothing is in flight.
LEMMA JoinIsReturn ==
  ASSUME Inv, TasksInv, Join
  PROVE  Pool!Return
<1>1. \A k \in Worker : pc[k] = "done" /\ queue[k] = <<>>
  BY LeaveCorrectStep DEF Join
<1>2. InFlight = {} /\ InFlight' = {}
  BY <1>1 DEF InFlight, Join, Executing, Pushing
<1>3. \A w \in Worker : task[w] = NoTask /\ fresh[w] = NoTask
  BY <1>1 DEF TasksInv, HandsInv, Executing, Pushing
<1>4. Unfinished = {}
  BY <1>1, <1>3, UnfinishedIsTask DEF Inv, TasksInv, FoundInv
<1> QED
  BY <1>2, <1>4 DEF Join, Pool!Return, history, Unfinished

\* pop_task begins a task.
LEMMA PopIsBegin ==
  ASSUME Inv, TasksInv, NEW w \in Worker, PopTake(w)
  PROVE  Pool!Begin(Head(queue[Target(w)]))
<1> USE DEF Inv, TasksInv
<1> DEFINE k == Target(w)
           t == Head(queue[k])
<1>1. /\ task' = [task EXCEPT ![w] = t] /\ task \in [Worker -> Task \cup {NoTask}]
      /\ UNCHANGED <<phase, created, executed>>
      /\ pc[w] = "pop"
  BY DEF PopTake, TypeOK, history
<1>2. k \in Worker /\ queue[k] # <<>>
  BY <1>1, TargetType DEF PlaceInv, Place
<1>3. 1 \in DOMAIN queue[k] /\ t = queue[k][1]
  BY <1>2, QueueTyped, EmptySeq
<1> HIDE DEF k, t
<1>4. t # NoTask /\ t \in Unfinished /\ \A v \in Worker : t # task[v]
  BY <1>2, <1>3, UnfinishedIsTask DEF PlacedInv
<1>5. task[w] = NoTask /\ task'[w] = t /\ \A v \in Worker : v # w => task'[v] = task[v]
  BY <1>1 DEF HandsInv, Executing, Pushing
<1>6. \A u : u \in InFlight' <=> u # NoTask /\ \E v \in Worker : task'[v] = u
  BY PopTakeTasks DEF HandsInv, InFlight
<1>7. t \notin InFlight /\ InFlight' = InFlight \cup {t}
  BY <1>4, <1>5, <1>6, InFlightIs
<1>8. Cardinality(InFlight) < NumThreads
  BY <1>1, RoomInFlight DEF Executing, Pushing
<1>9. phase = "running"
  BY <1>1, AtWork
<1>10. Pool!Begin(t)
  <2>1. t \in created \ (InFlight \cup executed)
    BY <1>4, <1>7 DEF Unfinished
  <2>2. created' \ (InFlight' \cup executed') = (created \ (InFlight \cup executed)) \ {t}
    BY <1>1, <1>7
  <2> QED
    BY <1>1, <1>7, <1>8, <1>9, <2>1, <2>2, PoolCardinality DEF Pool!Begin
<1> QED
  BY <1>10 DEF k, t

\* The end of an execution ends its task.
LEMMA FinishIsEnd ==
  ASSUME Inv, TasksInv, NEW w \in Worker, Finish(w)
  PROVE  Pool!End(task[w])
<1> USE DEF Inv, TasksInv
<1>1. /\ task' = [task EXCEPT ![w] = NoTask] /\ task \in [Worker -> Task \cup {NoTask}]
      /\ executed' = executed \cup {task[w]}
      /\ UNCHANGED <<phase, created>> /\ pc[w] = "exec"
  BY DEF Finish, TypeOK
<1>2. task[w] # NoTask /\ \A v \in Worker : v # w => task[v] # task[w]
  BY <1>1 DEF HandsInv, HandsDistinct, Executing
<1>3. task'[w] = NoTask /\ \A v \in Worker : v # w => task'[v] = task[v]
  BY <1>1
<1>4. \A u : u \in InFlight' <=> u # NoTask /\ \E v \in Worker : task'[v] = u
  BY FinishTasks DEF HandsInv, InFlight
<1>5. task[w] \in InFlight /\ InFlight' = InFlight \ {task[w]}
  BY <1>2, <1>3, <1>4, InFlightIs
<1> QED
  BY <1>1, <1>5 DEF Pool!End

\* A task that is added or pushed is new to the pool and waits there.
LEMMA NewTask ==
  ASSUME TypeOK, TasksInv, NEW t \in Task, t \notin created,
         created' = created \cup {t}, executed' = executed, InFlight' = InFlight
  PROVE  /\ t \notin InFlight \cup executed
         /\ created' \ (InFlight' \cup executed') = (created \ (InFlight \cup executed)) \cup {t}
<1>1. t # NoTask /\ t \notin executed /\ \A w \in Worker : task[w] # t
  BY DEF TasksInv, PlacedInv, Unfinished
<1>2. t \notin InFlight
  BY <1>1, InFlightIs DEF TasksInv
<1> QED
  BY <1>1, <1>2

LEMMA PoolNext == Inv /\ TasksInv /\ [Next]_vars => [Pool!Next]_(Pool!vars)
<1> SUFFICES ASSUME Inv, TasksInv, [Next]_vars PROVE [Pool!Next]_(Pool!vars)
  OBVIOUS
<1> USE DEF Inv
<1>1. CASE RunAll
  <2>1. \A w \in Worker : pc[w] = "done" /\ pc'[w] = "scan" /\ task'[w] = task[w]
    BY <1>1 DEF RunAll, PhaseInv
  <2>2. InFlight' = InFlight
    BY <2>1, SameInFlight DEF Executing, Pushing
  <2>3. Pool!Call
    BY <1>1, <2>2 DEF RunAll, Pool!Call, history
  <2> QED
    BY <2>3 DEF Pool!Next
<1>2. CASE Join
  BY <1>2, JoinIsReturn DEF Pool!Next
<1>3. ASSUME NEW t \in Task, AddItem(t) \/ \E k \in Worker : AddItemTo(t, k)
      PROVE  Pool!Next
  <2>1. /\ phase = "idle" /\ phase' = "idle" /\ t \notin created
        /\ created' = created \cup {t} /\ UNCHANGED <<pc, task, executed>>
    BY <1>3 DEF AddItem, AddItemTo
  <2>2. InFlight' = InFlight
    BY <2>1 DEF InFlight, Executing, Pushing
  <2>3. Pool!Add(t)
    BY <2>1, <2>2, NewTask DEF Pool!Add, Pool!New
  <2> QED
    BY <2>3 DEF Pool!Next
<1>4. ASSUME NEW w \in Worker, NEW t \in Task, PushBegin(w, t)
      PROVE  Pool!Next
  <2>1. /\ CanPush /\ t \notin created /\ created' = created \cup {t}
        /\ UNCHANGED <<phase, task, executed>>
        /\ pc[w] = "exec" /\ pc' = [pc EXCEPT ![w] = "pushRead"]
    BY <1>4 DEF PushBegin, Goto
  <2>2. InFlight' = InFlight /\ InFlight # {}
    <3>1. pc'[w] = "pushRead" /\ \A v \in Worker : v # w => pc'[v] = pc[v]
      BY <2>1 DEF TypeOK
    <3>2. \A v \in Worker : (Executing(v)' <=> Executing(v)) /\ task'[v] = task[v]
      BY <2>1, <3>1 DEF Executing, Pushing
    <3>3. task[w] \in InFlight
      BY <2>1 DEF InFlight, Executing
    <3> QED
      BY <3>2, <3>3, SameInFlight
  <2>3. Pool!Push(t)
    BY <2>1, <2>2, NewTask DEF Pool!Push, Pool!New
  <2> QED
    BY <2>3 DEF Pool!Next
<1>5. ASSUME NEW w \in Worker, PopTake(w)  PROVE Pool!Next
  <2>1. Head(queue[Target(w)]) \in Task
    <3>1. Target(w) \in Worker /\ queue[Target(w)] # <<>>
      BY <1>5, TargetType DEF PopTake, PlaceInv, Place
    <3> QED
      BY <3>1, HeadTailProperties, QueueTyped
  <2> QED
    BY <1>5, <2>1, PopIsBegin DEF Pool!Next
<1>6. ASSUME NEW w \in Worker, Finish(w)  PROVE Pool!Next
  <2>1. task[w] \in Task
    BY <1>6 DEF Finish, PlaceInv, Place, Executing
  <2> QED
    BY <1>6, <2>1, FinishIsEnd DEF Pool!Next
<1>7. ASSUME NEW w \in Worker, Other(w) \/ PushPut(w)  PROVE UNCHANGED Pool!vars
  <2>1. UNCHANGED <<phase, task, created, executed>>
    BY <1>7 DEF Other, PopEmpty, PopLock, PushRead, PushGive, PushPut, SetIdle, ReadRunning,
           ReadNonEmpty, Quit, Take, counters, history
  <2>2. \A v \in Worker : Executing(v)' <=> Executing(v)
    <3>1. Executing(w)' <=> Executing(w)
      BY <1>7 DEF Other, PopEmpty, PopLock, PushRead, PushGive, PushPut, SetIdle, ReadRunning,
             ReadNonEmpty, Quit, Take, Goto, Executing, Pushing, TypeOK
    <3>2. Local(w)
      BY <1>7, StepIsLocal DEF Other, Loop
    <3> QED
      BY <3>1, <3>2 DEF Local, Executing, Pushing
  <2>3. InFlight' = InFlight
    BY <2>1, <2>2, SameInFlight
  <2> QED
    BY <2>1, <2>3 DEF Pool!vars
<1>8. CASE UNCHANGED vars
  BY <1>8 DEF vars, Pool!vars, InFlight, Executing, Pushing
<1> QED
  BY <1>1, <1>2, <1>3, <1>4, <1>5, <1>6, <1>7, <1>8 DEF Next, Loop, Other

\* A work queue with any number of threads is a task pool: whatever the
\* threads do under their own locks, its callers see tasks that wait, of
\* which at most one for each thread is begun, and a run_all() that returns
\* when every task there ever was is finished.
THEOREM Refinement == Spec => Pool!Spec
<1>1. Inv /\ TasksInv /\ [Next]_vars => [Pool!Next]_(Pool!vars)
  BY PoolNext
<1> QED
  BY PoolInit, <1>1, Invariance, TasksInvariance, PTL DEF Spec, Pool!Spec

=============================================================================
