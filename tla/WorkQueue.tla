------------------------------ MODULE WorkQueue ------------------------------
(***************************************************************************)
(* sparta::SpartaWorkQueue (sparta/include/SpartaWorkQueue.h): a pool of   *)
(* worker threads, each with a queue of its own, that drain the queues in  *)
(* run_all(), stealing from each other, and that must agree, without a     *)
(* common lock, on when the last task is finished.                         *)
(*                                                                         *)
(* A step is what one thread does between two accesses to shared state     *)
(* that another thread could see in between: an acquisition of a queue's   *)
(* mutex, an update or a read of one of the two atomic counters, a give or *)
(* a take of the semaphore.  What a thread does to a queue under its mutex *)
(* is visible to nobody before the unlock and is part of the last step     *)
(* under the mutex.                                                        *)
(***************************************************************************)
EXTENDS Integers, Sequences, FiniteSets

CONSTANTS NumThreads,  \* m_num_threads, also StateCounters::num_all
          Task,        \* the Inputs that can be added
          NoTask,      \* boost::none
          CanPush      \* m_can_push_task

ASSUME NumThreadsAssumption == NumThreads \in Nat \ {0}
ASSUME TaskAssumption == NoTask \notin Task
ASSUME CanPushAssumption == CanPush \in BOOLEAN

Worker == 0 .. NumThreads - 1
Free == -1             \* the owner of a mutex nobody holds

VARIABLES
  phase,       \* "idle" between calls of run_all(), "running" inside one
  insertIdx,   \* m_insert_idx
  queue,       \* m_queue of each worker
  mutex,       \* the worker that holds m_queue_mtx of each worker
  running,     \* m_running of each worker
  numRunning,  \* num_running
  nonEmpty,    \* num_non_empty
  sem,         \* m_count of the semaphore waiter
  pc,          \* where each worker is in the loop of run_all()
  attempts,    \* the order in which each worker visits the queues
  idx,         \* the worker's position in attempts
  task,        \* the task the worker executes
  fresh,       \* the task push_task was called with
  created,     \* every task added or pushed so far
  executed     \* every task whose execution is over

counters == <<running, numRunning, nonEmpty>>
history  == <<created, executed>>
vars == <<phase, insertIdx, queue, mutex, running, numRunning, nonEmpty, sem,
          pc, attempts, idx, task, fresh, created, executed>>

-----------------------------------------------------------------------------
\* create_permutation: any order of the queues that begins with one's own.
Order(w) == {p \in [1 .. NumThreads -> Worker] :
               /\ p[1] = w
               /\ \A k \in Worker : \E i \in 1 .. NumThreads : p[i] = k}

Target(w) == attempts[w][idx[w]]

Goto(w, label) == pc' = [pc EXCEPT ![w] = label]

\* SpartaWorkerState::set_running.
SetRunning(w, on) ==
  /\ running' = [running EXCEPT ![w] = on]
  /\ numRunning' = IF running[w] = on THEN numRunning
                   ELSE IF on THEN numRunning + 1 ELSE numRunning - 1

Init ==
  /\ phase = "idle"
  /\ insertIdx = 0
  /\ queue = [w \in Worker |-> <<>>]
  /\ mutex = [w \in Worker |-> Free]
  /\ running = [w \in Worker |-> FALSE]
  /\ numRunning = 0
  /\ nonEmpty = 0
  /\ sem = 0
  /\ pc = [w \in Worker |-> "done"]
  /\ attempts = [w \in Worker |-> [i \in 1 .. NumThreads |-> i - 1]]
  /\ idx = [w \in Worker |-> 1]
  /\ task = [w \in Worker |-> NoTask]
  /\ fresh = [w \in Worker |-> NoTask]
  /\ created = {}
  /\ executed = {}

-----------------------------------------------------------------------------
(* The caller's thread.                                                    *)

\* add_item(task, worker_id): not synchronised, so only between runs.
AddItemTo(t, k) ==
  /\ phase = "idle"
  /\ t \in Task \ created
  /\ created' = created \cup {t}
  /\ queue' = [queue EXCEPT ![k] = Append(@, t)]
  /\ UNCHANGED <<phase, insertIdx, mutex, counters, sem, pc, attempts, idx,
                 task, fresh, executed>>

\* add_item(task): round robin; the first item goes to worker 1 % NumThreads.
AddItem(t) ==
  /\ phase = "idle"
  /\ t \in Task \ created
  /\ created' = created \cup {t}
  /\ insertIdx' = (insertIdx + 1) % NumThreads
  /\ queue' = [queue EXCEPT ![insertIdx'] = Append(@, t)]
  /\ UNCHANGED <<phase, mutex, counters, sem, pc, attempts, idx, task, fresh,
                 executed>>

\* run_all() up to the join: reset the counters, count the queues that hold
\* something, start the threads.  A thread not spawned yet is one that has
\* not taken its first step.
RunAll ==
  /\ phase = "idle"
  /\ phase' = "running"
  /\ numRunning' = 0
  /\ nonEmpty' = Cardinality({w \in Worker : queue[w] # <<>>})
  /\ sem' = 0
  /\ \E p \in [Worker -> UNION {Order(w) : w \in Worker}] :
       /\ \A w \in Worker : p[w] \in Order(w)
       /\ attempts' = p
  /\ idx' = [w \in Worker |-> 1]
  /\ pc' = [w \in Worker |-> "scan"]
  /\ UNCHANGED <<insertIdx, queue, mutex, running, task, fresh, history>>

\* Every thread joined: run_all() returns.
Join ==
  /\ phase = "running"
  /\ \A w \in Worker : pc[w] = "done"
  /\ phase' = "idle"
  /\ UNCHANGED <<insertIdx, queue, mutex, counters, sem, pc, attempts, idx,
                 task, fresh, history>>

-----------------------------------------------------------------------------
(* A worker's loop over the queues: pop_task.                              *)

\* pop_task of an empty queue: boost::none, on to the next attempt.
PopEmpty(w) ==
  /\ pc[w] = "scan"
  /\ idx[w] <= NumThreads
  /\ mutex[Target(w)] = Free
  /\ queue[Target(w)] = <<>>
  /\ idx' = [idx EXCEPT ![w] = @ + 1]
  /\ UNCHANGED <<phase, insertIdx, queue, mutex, counters, sem, pc, attempts,
                 task, fresh, history>>

\* pop_task of a queue that holds something: set_running(true) comes first.
PopLock(w) ==
  /\ pc[w] = "scan"
  /\ idx[w] <= NumThreads
  /\ mutex[Target(w)] = Free
  /\ queue[Target(w)] # <<>>
  /\ mutex' = [mutex EXCEPT ![Target(w)] = w]
  /\ SetRunning(w, TRUE)
  /\ Goto(w, "pop")
  /\ UNCHANGED <<phase, insertIdx, queue, nonEmpty, sem, attempts, idx, task,
                 fresh, history>>

\* Mutant of PopTake: the item stays in the queue.
PopTakeKeeping(w) ==
  /\ pc[w] = "pop"
  /\ nonEmpty' = IF Len(queue[Target(w)]) = 1 THEN nonEmpty - 1 ELSE nonEmpty
  /\ task' = [task EXCEPT ![w] = Head(queue[Target(w)])]
  /\ mutex' = [mutex EXCEPT ![Target(w)] = Free]
  /\ Goto(w, "exec")
  /\ UNCHANGED <<phase, insertIdx, queue, running, numRunning, sem, attempts,
                 idx, fresh, history>>

\* Mutant of PopTake: the queue is no longer counted though it has more items.
PopTakeUncounting(w) ==
  /\ pc[w] = "pop"
  /\ nonEmpty' = nonEmpty - 1
  /\ task' = [task EXCEPT ![w] = Head(queue[Target(w)])]
  /\ queue' = [queue EXCEPT ![Target(w)] = Tail(@)]
  /\ mutex' = [mutex EXCEPT ![Target(w)] = Free]
  /\ Goto(w, "exec")
  /\ UNCHANGED <<phase, insertIdx, running, numRunning, sem, attempts, idx,
                 fresh, history>>

\* The rest of pop_task: the queue's count, its first item, the unlock.
PopTake(w) ==
  /\ pc[w] = "pop"
  /\ nonEmpty' = IF Len(queue[Target(w)]) = 1 THEN nonEmpty - 1 ELSE nonEmpty
  /\ task' = [task EXCEPT ![w] = Head(queue[Target(w)])]
  /\ queue' = [queue EXCEPT ![Target(w)] = Tail(@)]
  /\ mutex' = [mutex EXCEPT ![Target(w)] = Free]
  /\ Goto(w, "exec")
  /\ UNCHANGED <<phase, insertIdx, running, numRunning, sem, attempts, idx,
                 fresh, history>>

-----------------------------------------------------------------------------
(* The executor, and push_task when it calls it.                           *)

\* push_task takes the lock of the worker's own queue and counts the queue.
PushBegin(w, t) ==
  /\ CanPush
  /\ pc[w] = "exec"
  /\ t \in Task \ created
  /\ mutex[w] = Free
  /\ mutex' = [mutex EXCEPT ![w] = w]
  /\ nonEmpty' = IF queue[w] = <<>> THEN nonEmpty + 1 ELSE nonEmpty
  /\ fresh' = [fresh EXCEPT ![w] = t]
  /\ created' = created \cup {t}
  /\ Goto(w, "pushRead")
  /\ UNCHANGED <<phase, insertIdx, queue, running, numRunning, sem, attempts,
                 idx, task, executed>>

\* Is somebody not running?  Then a waiter will be woken.
PushRead(w) ==
  /\ pc[w] = "pushRead"
  /\ Goto(w, IF numRunning < NumThreads THEN "pushGive" ELSE "pushPut")
  /\ UNCHANGED <<phase, insertIdx, queue, mutex, counters, sem, attempts, idx,
                 task, fresh, history>>

PushGive(w) ==
  /\ pc[w] = "pushGive"
  /\ sem' = sem + 1
  /\ Goto(w, "pushPut")
  /\ UNCHANGED <<phase, insertIdx, queue, mutex, counters, attempts, idx,
                 task, fresh, history>>

\* Mutant of PushPut: the pushed task is dropped.
PushPutLosing(w) ==
  /\ pc[w] = "pushPut"
  /\ fresh' = [fresh EXCEPT ![w] = NoTask]
  /\ mutex' = [mutex EXCEPT ![w] = Free]
  /\ Goto(w, "exec")
  /\ UNCHANGED <<phase, insertIdx, queue, counters, sem, attempts, idx, task,
                 history>>

PushPut(w) ==
  /\ pc[w] = "pushPut"
  /\ queue' = [queue EXCEPT ![w] = Append(@, fresh[w])]
  /\ fresh' = [fresh EXCEPT ![w] = NoTask]
  /\ mutex' = [mutex EXCEPT ![w] = Free]
  /\ Goto(w, "exec")
  /\ UNCHANGED <<phase, insertIdx, counters, sem, attempts, idx, task, history>>

\* Mutant of Finish: a worker stops counting as running after each task.
FinishIdling(w) ==
  /\ pc[w] = "exec"
  /\ executed' = executed \cup {task[w]}
  /\ task' = [task EXCEPT ![w] = NoTask]
  /\ idx' = [idx EXCEPT ![w] = 1]
  /\ SetRunning(w, FALSE)
  /\ Goto(w, "scan")
  /\ UNCHANGED <<phase, insertIdx, queue, mutex, nonEmpty, sem, attempts,
                 fresh, created>>

\* consume() returns and the worker goes back to the head of its loop,
\* still counted as running.
Finish(w) ==
  /\ pc[w] = "exec"
  /\ executed' = executed \cup {task[w]}
  /\ task' = [task EXCEPT ![w] = NoTask]
  /\ idx' = [idx EXCEPT ![w] = 1]
  /\ Goto(w, "scan")
  /\ UNCHANGED <<phase, insertIdx, queue, mutex, counters, sem, attempts,
                 fresh, created>>

-----------------------------------------------------------------------------
(* No queue gave a task: wait for one, or leave.                           *)

SetIdle(w) ==
  /\ pc[w] = "scan"
  /\ idx[w] > NumThreads
  /\ SetRunning(w, FALSE)
  /\ Goto(w, IF CanPush THEN "readRunning" ELSE "done")
  /\ UNCHANGED <<phase, insertIdx, queue, mutex, nonEmpty, sem, attempts, idx,
                 task, fresh, history>>

\* Mutant of ReadRunning: the number of running workers is not tested.
ReadRunningHasty(w) ==
  /\ pc[w] = "readRunning"
  /\ Goto(w, "readNonEmpty")
  /\ UNCHANGED <<phase, insertIdx, queue, mutex, counters, sem, attempts, idx,
                 task, fresh, history>>

ReadRunning(w) ==
  /\ pc[w] = "readRunning"
  /\ Goto(w, IF numRunning = 0 THEN "readNonEmpty" ELSE "take")
  /\ UNCHANGED <<phase, insertIdx, queue, mutex, counters, sem, attempts, idx,
                 task, fresh, history>>

ReadNonEmpty(w) ==
  /\ pc[w] = "readNonEmpty"
  /\ Goto(w, IF nonEmpty = 0 THEN "quit" ELSE "take")
  /\ UNCHANGED <<phase, insertIdx, queue, mutex, counters, sem, attempts, idx,
                 task, fresh, history>>

\* Mutants of Quit: only one other worker is woken, or none.
QuitGiving(w, units) ==
  /\ pc[w] = "quit"
  /\ sem' = sem + units
  /\ Goto(w, "done")
  /\ UNCHANGED <<phase, insertIdx, queue, mutex, counters, attempts, idx,
                 task, fresh, history>>
QuitWakingOne(w) == QuitGiving(w, 1)
QuitSilently(w)  == QuitGiving(w, 0)

\* Wake up everyone who might be waiting, and leave.
Quit(w) ==
  /\ pc[w] = "quit"
  /\ sem' = sem + NumThreads
  /\ Goto(w, "done")
  /\ UNCHANGED <<phase, insertIdx, queue, mutex, counters, attempts, idx,
                 task, fresh, history>>

Take(w) ==
  /\ pc[w] = "take"
  /\ sem > 0
  /\ sem' = sem - 1
  /\ idx' = [idx EXCEPT ![w] = 1]
  /\ Goto(w, "scan")
  /\ UNCHANGED <<phase, insertIdx, queue, mutex, counters, attempts, task,
                 fresh, history>>

-----------------------------------------------------------------------------
Loop(w) == \/ PopEmpty(w) \/ PopLock(w) \/ PopTake(w)
           \/ PushRead(w) \/ PushGive(w) \/ PushPut(w) \/ Finish(w)
           \/ SetIdle(w) \/ ReadRunning(w) \/ ReadNonEmpty(w)
           \/ Quit(w) \/ Take(w)

Next == \/ RunAll
        \/ Join
        \/ \E t \in Task : AddItem(t) \/ \E k \in Worker : AddItemTo(t, k)
        \/ \E w \in Worker : Loop(w) \/ \E t \in Task : PushBegin(w, t)

Spec == Init /\ [][Next]_vars

\* The scheduler runs every thread that can go on, and every executor
\* returns; nobody has to push a task or to call run_all() again.
Fairness == WF_vars(Join) /\ \A w \in Worker : WF_vars(Loop(w))
FairSpec == Spec /\ Fairness

-----------------------------------------------------------------------------
Pushing(w)   == pc[w] \in {"pushRead", "pushGive", "pushPut"}
Executing(w) == pc[w] = "exec" \/ Pushing(w)
Busy(k)      == queue[k] # <<>> \/ Pushing(k)

\* Types; num_running, num_non_empty and the semaphore's count are unsigned and
\* must not go below zero.
TypeOK ==
  /\ phase \in {"idle", "running"}
  /\ insertIdx \in Worker
  /\ queue \in [Worker -> Seq(Task)]
  /\ mutex \in [Worker -> Worker \cup {Free}]
  /\ running \in [Worker -> BOOLEAN]
  /\ numRunning \in Nat
  /\ nonEmpty \in Nat
  /\ sem \in Nat
  /\ pc \in [Worker -> {"scan", "pop", "exec", "pushRead", "pushGive",
                        "pushPut", "readRunning", "readNonEmpty", "quit",
                        "take", "done"}]
  /\ attempts \in [Worker -> [1 .. NumThreads -> Worker]]
  /\ idx \in [Worker -> 1 .. NumThreads + 1]
  /\ task \in [Worker -> Task \cup {NoTask}]
  /\ fresh \in [Worker -> Task \cup {NoTask}]
  /\ created \subseteq Task
  /\ executed \subseteq Task

\* A worker leaves run_all() only when every queue is empty, and, when tasks
\* may push tasks, only when no task is executing either: "all threads stay
\* alive until the last task is finished" (SpartaWorkQueue.h:199-200).
LeaveOnlyWhenDone ==
  phase = "running" =>
    \A w \in Worker : pc[w] = "done" =>
      \A k \in Worker : queue[k] = <<>> /\ (CanPush => ~Executing(k))

\* Where a task is: positions in the queues, and hands of workers.
Places(t) ==
  (UNION {{<<"queue", k, i>> : i \in {j \in DOMAIN queue[k] : queue[k][j] = t}} : k \in Worker})
  \cup {<<"fresh", w, 0>> : w \in {v \in Worker : fresh[v] = t}}
  \cup {<<"task", w, 0>> : w \in {v \in Worker : task[v] = t}}

\* Every task added or pushed is in exactly one place: in one queue, once, on
\* its way into a queue, being executed by one worker, or executed.
EachTaskOnce ==
  \A t \in created : IF t \in executed THEN Places(t) = {}
                     ELSE \E p \in Places(t) : Places(t) = {p}

\* num_running counts the workers whose m_running is set, and, while the
\* queue runs, num_non_empty counts the queues that hold a task or are about
\* to: neither counter drifts and neither is decremented below zero (the
\* asserts at SpartaWorkQueue.h:144 and :158).
CountersExact ==
  /\ numRunning = Cardinality({w \in Worker : running[w]})
  /\ phase = "running" => nonEmpty = Cardinality({k \in Worker : Busy(k)})

\* A queue that fills up behind the back of a worker that already gave up on
\* it is never left to nobody: whenever a worker waits for work, the owner of
\* every queue that holds a task is itself running and will come back to it.
NoStrandedTask ==
  (\E w \in Worker : pc[w] = "take") => \A k \in Worker : Busy(k) => running[k]

\* Once one worker has left, the semaphore holds a unit for every worker
\* that waits: "Wake up everyone who might be waiting, so they can quit"
\* (SpartaWorkQueue.h:292).
EveryoneWoken ==
  phase = "running" /\ CanPush /\ (\E w \in Worker : pc[w] = "done") =>
    sem >= Cardinality({w \in Worker : pc[w] = "take"})

\* Every call of run_all() returns.
RunAllReturns == phase = "running" ~> phase = "idle"

-----------------------------------------------------------------------------
(***************************************************************************)
(* Why it works.  A worker's knowledge is the set of queues it has found   *)
(* empty since it last had a task.  A queue it saw empty can only fill up  *)
(* again while the queue's owner is running, so a worker that has seen     *)
(* every queue and then reads num_running = 0 knows that no queue holds    *)
(* anything, although it never looked at two queues at once.               *)
(***************************************************************************)
Waiting == {"readRunning", "readNonEmpty", "quit", "take", "done"}

\* Has worker v found queue k empty since it last had a task?
Seen(v, k) == \/ pc[v] = "scan" /\ \E i \in 1 .. idx[v] - 1 : attempts[v][i] = k
              \/ pc[v] \in Waiting

Holds(v, k) == (pc[v] = "pop" /\ Target(v) = k) \/ (Pushing(v) /\ v = k)

LockInv == \A v, k \in Worker : mutex[k] = v <=> Holds(v, k)

\* Where a worker is tells whether it is counted as running and what it has
\* in its hands.
Place(v) ==
  /\ pc[v] = "pop" \/ Executing(v) => running[v]
  /\ pc[v] \in Waiting => ~running[v]
  /\ pc[v] = "pop" => idx[v] <= NumThreads /\ queue[Target(v)] # <<>>
  /\ Executing(v) => task[v] \in Task
  /\ Pushing(v) => CanPush /\ fresh[v] \in Task

PlaceInv == \A v \in Worker : Place(v)

PhaseInv ==
  /\ phase = "idle" => \A v \in Worker : pc[v] = "done"
  /\ phase = "running" => \A v \in Worker : attempts[v] \in Order(v)

\* A queue seen empty fills up only while its owner runs, and a worker that
\* has looked past its own queue has nothing there.
Guarded(v, k) == Busy(k) => CanPush /\ running[k] /\ k # v

SeenInv ==
  phase = "running" =>
    \A v, k \in Worker : Seen(v, k) => Guarded(v, k)

\* Once a worker is bound to leave, nobody runs and nothing is queued.
Leaving(v) == pc[v] \in {"readNonEmpty", "quit", "done"}

QuietInv ==
  phase = "running" /\ CanPush =>
    \A v, k \in Worker : Leaving(v) => ~running[k] /\ ~Busy(k)

\* The inductive invariant: the counters are exact, a worker's place agrees
\* with what it holds and counts, and what it has learnt about the queues in
\* its walk (SpartaWorkQueue.h:265-274) is still true when it acts on it
\* (:287-295).
Inv == /\ TypeOK
       /\ LockInv
       /\ PlaceInv
       /\ PhaseInv
       /\ SeenInv
       /\ QuietInv
       /\ CountersExact

-----------------------------------------------------------------------------
(***************************************************************************)
(* Where the tasks are.  What makes the queue a pool is that a task has    *)
(* one place at any moment, although pop_task and push_task move it under  *)
(* the lock of one queue only.                                             *)
(***************************************************************************)
\* A worker has a task in its hands exactly while it executes one, and a
\* fresh one exactly while it pushes.
HandsInv ==
  \A w \in Worker : /\ task[w] # NoTask <=> Executing(w)
                    /\ fresh[w] # NoTask <=> Pushing(w)

\* No two positions in the queues hold the same task.
QueuesDistinct ==
  \A k, l \in Worker : \A i \in DOMAIN queue[k], j \in DOMAIN queue[l] :
    queue[k][i] = queue[l][j] => k = l /\ i = j

\* No two hands hold the same task.
HandsDistinct ==
  \A v, w \in Worker :
    /\ task[v] # NoTask /\ task[v] = task[w] => v = w
    /\ fresh[v] # NoTask /\ fresh[v] = fresh[w] => v = w
    /\ task[v] # NoTask => task[v] # fresh[w]

Unfinished == created \ executed

\* What is in the hands or in a queue, and never in both, is unfinished.
PlacedInv ==
  /\ executed \subseteq created
  /\ \A w \in Worker : {task[w], fresh[w]} \subseteq Unfinished \cup {NoTask}
  /\ \A k \in Worker : \A i \in DOMAIN queue[k] :
       /\ queue[k][i] \in Unfinished
       /\ \A w \in Worker : queue[k][i] \notin {task[w], fresh[w]}

\* Nothing unfinished is lost.
FoundInv ==
  \A t \in Unfinished : \/ \E k \in Worker : \E i \in DOMAIN queue[k] : queue[k][i] = t
                        \/ \E w \in Worker : t \in {task[w], fresh[w]}

TasksInv == HandsInv /\ QueuesDistinct /\ HandsDistinct /\ PlacedInv /\ FoundInv

-----------------------------------------------------------------------------
(* The abstract specification this one implements.                         *)
InFlight == {task[w] : w \in {v \in Worker : Executing(v)}}

Pool == INSTANCE TaskPool WITH draining <- (phase = "running"),
                               waiting  <- created \ (InFlight \cup executed),
                               active   <- InFlight,
                               finished <- executed

\* A work queue is a task pool.
ImplementsTaskPool == Pool!FairSpec
=============================================================================
