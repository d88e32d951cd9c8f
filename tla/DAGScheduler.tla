---------------------------- MODULE DAGScheduler ----------------------------
(***************************************************************************)
(* PriorityThreadPoolDAGScheduler (libredex) on its PriorityThreadPool:    *)
(* tasks with dependencies, executed by the threads of the pool.  A count  *)
(* per task, updated under the lock of its slot in a ConcurrentMap, tells  *)
(* when the task may start and, once it started, when it is complete; who  *)
(* brings a count to zero goes on with the task's continuations or with    *)
(* the tasks that wait for it.  A step is one update of a count, or one    *)
(* critical section of the pool.                                           *)
(***************************************************************************)
EXTENDS Integers, Sequences, FiniteSets

CONSTANTS Thread,  \* the threads of the pool
          Owner,   \* the thread that calls run()
          Task,    \* the tasks, all of them passed to run()
          Edges,   \* <<t, d>>: the dependencies that may be added, acyclic
          Added,   \* what augment() may be called with, each one once
          NoWork   \* a thread without work item

ASSUME ThreadAssumption == Thread # {} /\ IsFiniteSet(Thread) /\ Owner \notin Thread
ASSUME TaskAssumption == IsFiniteSet(Task) /\ Edges \subseteq Task \X Task
ASSUME AcyclicAssumption ==
  \E rank \in [Task -> 1 .. Cardinality(Task)] :
    \A t, d \in Task : <<t, d>> \in Edges => rank[d] < rank[t]
ASSUME AddedAssumption == \A a \in Added : a.task \in Task /\ a.name # "body"

\* The work items: the executor's call for each task, and the added ones.
Body == [t \in Task |-> [task |-> t, name |-> "body"]]
Action == {Body[t] : t \in Task} \cup Added

ASSUME NoWorkAssumption == NoWork \notin Action

VARIABLES
  pending, running, shutdown, pc, work, main, call, posted,  \* the pool
  stage,       \* where run() is: "build", "seed", "join", "returned"
  waitingFor,  \* m_waiting_for: the tasks that wait for each task
  counts,      \* m_wait_counts, zero for an absent entry
  priority,    \* m_priorities
  roots,       \* the tasks run() has still to schedule
  waitCount,   \* wait_count of m_concurrent_states
  conts,       \* continuations of m_concurrent_states
  step,        \* where each thread is within a work item
  hand,        \* the actions each thread, or the owner, is about to post
  tell         \* the waiting tasks each thread has still to tell

\* A chain and a count are at most as long as there are tasks.
Priority == {c * 2^16 + n : c, n \in 0 .. Cardinality(Task)}
Pool == INSTANCE PriorityThreadPool WITH Work <- Action

poolVars == <<pending, running, shutdown, pc, work, main, call, posted>>
setup == <<waitingFor, counts, priority>>
vars == <<poolVars, stage, setup, roots, waitCount, conts, step, hand, tell>>

Goto(t, label) == step' = [step EXCEPT ![t] = label]

\* compute_priority: the longest chain of tasks that wait for t.
Chain ==
  LET c[t \in Task] ==
        LET below == {0} \cup {c[u] + 1 : u \in waitingFor[t]}
        IN  CHOOSE n \in below : \A k \in below : k <= n
  IN  c

\* update() of a task's count under the lock of its slot.
AddCount(t, n) == waitCount' = [waitCount EXCEPT ![t] = @ + n]

Init ==
  /\ Pool!Init
  /\ stage = "build"
  /\ waitingFor = [t \in Task |-> {}]
  /\ counts = [t \in Task |-> 0]
  /\ priority = [t \in Task |-> 0]
  /\ roots = {}
  /\ waitCount = [t \in Task |-> 0]
  /\ conts = [t \in Task |-> {}]
  /\ step = [t \in Thread |-> "idle"]
  /\ hand = [t \in Thread \cup {Owner} |-> {}]
  /\ tell = [t \in Thread |-> {}]

-----------------------------------------------------------------------------
(* The owner: set_num_threads, add_dependency and run().                   *)

StartThreads ==
  /\ Pool!SetNumThreads
  /\ UNCHANGED <<stage, setup, roots, waitCount, conts, step, hand, tell>>

\* The callers take the pairs from a map of maps: none comes twice.
AddDependency(t, d) ==
  /\ stage = "build"
  /\ t \notin waitingFor[d]
  /\ waitingFor' = [waitingFor EXCEPT ![d] = @ \cup {t}]
  /\ counts' = [counts EXCEPT ![t] = @ + 1]
  /\ UNCHANGED <<poolVars, stage, priority, roots, waitCount, conts, step, hand, tell>>

\* run() up to the loop over the tasks.
Run ==
  /\ stage = "build"
  /\ main = "open"
  /\ stage' = "seed"
  /\ priority' = [t \in Task |-> Chain[t] * 2^16 + counts[t]]
  /\ waitCount' = counts
  /\ roots' = {t \in Task : counts[t] = 0}
  /\ UNCHANGED <<poolVars, waitingFor, counts, conts, step, hand, tell>>

\* schedule() for a task that waits for nothing: count it, then post it.
Seed(t) ==
  /\ stage = "seed"
  /\ hand[Owner] = {}
  /\ t \in roots
  /\ \A u \in roots : priority[u] <= priority[t]
  /\ roots' = roots \ {t}
  /\ AddCount(t, 1)
  /\ hand' = [hand EXCEPT ![Owner] = {Body[t]}]
  /\ UNCHANGED <<poolVars, stage, setup, conts, step, tell>>

SeedPost ==
  \E a \in hand[Owner] :
    /\ Pool!OwnerPosts(priority[a.task], a)
    /\ hand' = [hand EXCEPT ![Owner] = {}]
    /\ UNCHANGED <<stage, setup, roots, waitCount, conts, step, tell>>

JoinPool ==
  /\ stage = "seed"
  /\ roots = {}
  /\ hand[Owner] = {}
  /\ stage' = "join"
  /\ counts' = [t \in Task |-> 0]
  /\ Pool!Join
  /\ UNCHANGED <<waitingFor, priority, roots, waitCount, conts, step, hand, tell>>

\* join() returned: the tables are dropped, and so does run().
Return ==
  /\ stage = "join"
  /\ main = "closed"
  /\ stage' = "returned"
  /\ waitCount' = [t \in Task |-> 0]
  /\ conts' = [t \in Task |-> {}]
  /\ waitingFor' = [t \in Task |-> {}]
  /\ priority' = [t \in Task |-> 0]
  /\ UNCHANGED <<poolVars, counts, roots, step, hand, tell>>

\* wait() within join().
OwnerInPool ==
  /\ Pool!OwnerNext
  /\ UNCHANGED <<stage, setup, roots, waitCount, conts, step, hand, tell>>

OwnerStep == (\E t \in Task : Seed(t)) \/ SeedPost \/ JoinPool \/ Return \/ OwnerInPool

-----------------------------------------------------------------------------
(* A thread of the pool that executes a work item of a task.               *)

FetchWork(t) ==
  /\ Pool!Fetch(t)
  /\ Goto(t, "work")
  /\ UNCHANGED <<stage, setup, roots, waitCount, conts, hand, tell>>

ThreadInPool(t) ==
  /\ Pool!Sleep(t) \/ Pool!Leave(t)
  /\ UNCHANGED <<stage, setup, roots, waitCount, conts, step, hand, tell>>

\* What can still be added to the task a thread works for.
Unused(t) ==
  {a \in Added : /\ a.task = work[t].task
                 /\ a \notin posted \cup conts[a.task]
                 /\ \A k \in Thread : a \notin hand[k]}

\* Mutant of Augment: the action is posted without being counted.
AugmentUncounted(t) ==
  /\ step[t] = "work"
  /\ \E a \in Unused(t) : hand' = [hand EXCEPT ![t] = {a}]
  /\ Goto(t, "augment")
  /\ UNCHANGED <<poolVars, stage, setup, roots, waitCount, conts, tell>>

\* augment(): count the action, then post it.
Augment(t) ==
  /\ step[t] = "work"
  /\ \E a \in Unused(t) : hand' = [hand EXCEPT ![t] = {a}]
  /\ AddCount(work[t].task, 1)
  /\ Goto(t, "augment")
  /\ UNCHANGED <<poolVars, stage, setup, roots, conts, tell>>

\* Post what the thread holds and go on at label.
PostHand(t, label) ==
  \E a \in hand[t] :
    /\ Pool!WorkPosts(t, priority[a.task], a)
    /\ hand' = [hand EXCEPT ![t] = @ \ {a}]
    /\ Goto(t, label)
    /\ UNCHANGED <<stage, setup, roots, waitCount, conts, tell>>

AugmentPost(t) == step[t] = "augment" /\ PostHand(t, "work")

\* augment() with continuation: it is not counted yet.
Defer(t) ==
  /\ step[t] = "work"
  /\ \E a \in Unused(t) : conts' = [conts EXCEPT ![a.task] = @ \cup {a}]
  /\ UNCHANGED <<poolVars, stage, setup, roots, waitCount, step, hand, tell>>

\* Mutant of Decrement: the continuations are copied, not moved.
DecrementCopies(t) ==
  LET u == work[t].task IN
  /\ step[t] = "work"
  /\ AddCount(u, -1)
  /\ IF waitCount'[u] = 0 /\ conts[u] # {}
     THEN /\ hand' = [hand EXCEPT ![t] = conts[u]]
          /\ Goto(t, "release")
          /\ UNCHANGED tell
     ELSE /\ tell' = [tell EXCEPT ![t] = IF waitCount'[u] = 0 THEN waitingFor[u] ELSE {}]
          /\ Goto(t, "notify")
          /\ UNCHANGED hand
  /\ UNCHANGED <<poolVars, stage, setup, roots, conts>>

\* The action is over: decrement_wait_count, and its continuations if the
\* count is zero, in one update.
Decrement(t) ==
  LET u == work[t].task IN
  /\ step[t] = "work"
  /\ AddCount(u, -1)
  /\ IF waitCount'[u] = 0 /\ conts[u] # {}
     THEN /\ hand' = [hand EXCEPT ![t] = conts[u]]
          /\ conts' = [conts EXCEPT ![u] = {}]
          /\ Goto(t, "release")
          /\ UNCHANGED tell
     ELSE /\ tell' = [tell EXCEPT ![t] = IF waitCount'[u] = 0 THEN waitingFor[u] ELSE {}]
          /\ Goto(t, "notify")
          /\ UNCHANGED <<hand, conts>>
  /\ UNCHANGED <<poolVars, stage, setup, roots>>

\* Mutant of Release: one for all the continuations.
ReleaseByOne(t) ==
  /\ step[t] = "release"
  /\ AddCount(work[t].task, 1)
  /\ Goto(t, "post")
  /\ UNCHANGED <<poolVars, stage, setup, roots, conts, hand, tell>>

\* The continuations are counted together, then posted one by one.
Release(t) ==
  /\ step[t] = "release"
  /\ AddCount(work[t].task, Cardinality(hand[t]))
  /\ Goto(t, "post")
  /\ UNCHANGED <<poolVars, stage, setup, roots, conts, hand, tell>>

PostContinuation(t) == step[t] = "post" /\ PostHand(t, "post")

\* Mutant of Tell: it schedules the first task that waits no longer, and ends.
TellFirst(t) ==
  /\ step[t] = "notify"
  /\ \E u \in tell[t] :
       /\ AddCount(u, -1)
       /\ IF waitCount'[u] = 0
          THEN /\ hand' = [hand EXCEPT ![t] = {Body[u]}]
               /\ tell' = [tell EXCEPT ![t] = {}]
               /\ Goto(t, "schedule")
          ELSE tell' = [tell EXCEPT ![t] = @ \ {u}] /\ UNCHANGED <<hand, step>>
  /\ UNCHANGED <<poolVars, stage, setup, roots, conts>>

\* One of the tasks that wait for the complete one, in any order.
Tell(t) ==
  /\ step[t] = "notify"
  /\ \E u \in tell[t] :
       /\ tell' = [tell EXCEPT ![t] = @ \ {u}]
       /\ AddCount(u, -1)
       /\ IF waitCount'[u] = 0
          THEN hand' = [hand EXCEPT ![t] = {Body[u]}] /\ Goto(t, "schedule")
          ELSE UNCHANGED <<hand, step>>
  /\ UNCHANGED <<poolVars, stage, setup, roots, conts>>

\* schedule() for a task that waits no longer: count it, then post it.
Schedule(t) ==
  /\ step[t] = "schedule"
  /\ \E a \in hand[t] : AddCount(a.task, 1)
  /\ Goto(t, "enqueue")
  /\ UNCHANGED <<poolVars, stage, setup, roots, conts, hand, tell>>

SchedulePost(t) == step[t] = "enqueue" /\ PostHand(t, "notify")

\* Nothing left to post or to tell: the work item returns to the pool.
FinishWork(t) ==
  /\ \/ step[t] = "post" /\ hand[t] = {}
     \/ step[t] = "notify" /\ tell[t] = {}
  /\ Pool!Finish(t)
  /\ Goto(t, "idle")
  /\ UNCHANGED <<stage, setup, roots, waitCount, conts, hand, tell>>

ThreadStep(t) ==
  \/ FetchWork(t) \/ ThreadInPool(t) \/ FinishWork(t)
  \/ Augment(t) \/ AugmentPost(t) \/ Defer(t) \/ Decrement(t)
  \/ Release(t) \/ PostContinuation(t)
  \/ Tell(t) \/ Schedule(t) \/ SchedulePost(t)

SpuriousWakeup ==
  /\ Pool!OwnerWakesSpuriously \/ \E t \in Thread : Pool!WakeSpuriously(t)
  /\ UNCHANGED <<stage, setup, roots, waitCount, conts, step, hand, tell>>

Next ==
  \/ StartThreads \/ Run \/ OwnerStep \/ SpuriousWakeup
  \/ \E e \in Edges : AddDependency(e[1], e[2])
  \/ \E t \in Thread : ThreadStep(t)

Spec == Init /\ [][Next]_vars

\* Each thread goes on, and so does the owner once it called run(): what the
\* operating system and terminating work items provide.
FairSpec == Spec /\ WF_vars(OwnerStep) /\ \A t \in Thread : WF_vars(ThreadStep(t))

-----------------------------------------------------------------------------
PendingWork == {pending[i].work : i \in DOMAIN pending}

\* What is counted for task u: its actions, from the increment before the
\* post to the decrement when they are over ...
Counted(u) ==
  {a \in PendingWork \cup hand[Owner]
         \cup (UNION {hand[t] : t \in {k \in Thread : step[k] \in {"augment", "post", "enqueue"}}})
         \cup {work[t] : t \in {k \in Thread : step[k] \in {"work", "augment"}}} :
     a.task = u}

\* ... while this is what keeps the task from being complete.
Complete(u) ==
  /\ Body[u] \in posted
  /\ conts[u] = {}
  /\ Counted(u) = {}
  /\ \A t \in Thread : step[t] = "release" => work[t].task # u

\* The tasks u depends on that have not told it that they are complete.
Unmet(u) ==
  {d \in Task : /\ u \in waitingFor[d]
                /\ \/ ~Complete(d)
                   \/ \E t \in Thread : step[t] \in {"notify", "schedule", "enqueue"}
                                        /\ work[t].task = d /\ u \in tell[t]}

\* The types of the variables.
TypeOK ==
  /\ stage \in {"build", "seed", "join", "returned"}
  /\ waitingFor \in [Task -> SUBSET Task]
  /\ counts \in [Task -> Nat]
  /\ priority \in [Task -> Nat]
  /\ roots \subseteq Task
  /\ waitCount \in [Task -> Nat]
  /\ conts \in [Task -> SUBSET Added]
  /\ step \in [Thread -> {"idle", "work", "augment", "release", "post",
                          "notify", "schedule", "enqueue"}]
  /\ hand \in [Thread \cup {Owner} -> SUBSET Action]
  /\ tell \in [Thread -> SUBSET Task]
  /\ \A t \in Thread : step[t] = "idle" <=> work[t] = NoWork

\* From run() to the join, a task's count is the number of tasks that have
\* still to tell it that they are complete plus the number of its own actions
\* under way, whatever the threads between an increment and a post do; no count
\* goes below zero, which is a part of TypeOK.
WaitCountExact ==
  /\ TypeOK
  /\ stage \in {"seed", "join"} =>
    \A u \in Task : waitCount[u] = Cardinality(Unmet(u)) + Cardinality(Counted(u))

\* Nobody posts after the shutdown of the pool, which is an assertion, and no
\* action is scheduled twice: who is about to post may do so.
PostsAllowed ==
  \A t \in Thread \cup {Owner} :
    hand[t] # {} => ~shutdown /\ hand[t] \cap posted = {}

\* "wait_count == 0", "continuations.empty()": the pool shuts down when it has
\* no work, of which it knows nothing but what was posted; by then every task
\* is complete, and none is left for which a thread has forgotten to post.
DoneAtShutdown ==
  shutdown /\ stage = "join" => \A u \in Task : Complete(u) /\ waitCount[u] = 0

\* Dependencies, augmentations and continuations are honoured, every action
\* runs exactly once, and run() returns when and only when all is done, under
\* the fairness above.
Dag == INSTANCE DagExecution WITH
  called   <- IF stage = "build" THEN "no" ELSE IF stage = "returned" THEN stage ELSE "running",
  before   <- [t \in Task |-> {d \in Task : t \in waitingFor[d]}],
  asked    <- {Body[t] : t \in {u \in Task : Body[u] \notin posted}} \cup PendingWork
              \cup UNION {hand[t] : t \in Thread \cup {Owner}},
  active   <- {work[t] : t \in {k \in Thread : step[k] \in {"work", "augment"}}},
  deferred <- UNION {conts[t] : t \in Task}

ImplementsDag == Dag!Spec
=============================================================================
