------------------------- MODULE PriorityThreadPool -------------------------
(***************************************************************************)
(* PriorityThreadPool (libredex/PriorityThreadPool.h): threads that take   *)
(* work items, the highest priority first, from a map of queues guarded by *)
(* one mutex.  Idle threads block on m_work_condition, the thread that     *)
(* owns the pool blocks on m_done_condition until nothing is pending or    *)
(* running.  Every access is under the mutex and each step below is one    *)
(* critical section.  A work item is opaque here: what it does is the      *)
(* business of the client, who composes these steps with its own.          *)
(***************************************************************************)
EXTENDS Integers, Sequences, FiniteSets

CONSTANTS Thread,    \* the threads of m_pool
          Work,      \* the work items that may be posted, each one once
          NoWork,    \* what a thread holds when it runs no work item
          Priority   \* the priorities work is posted with

ASSUME ThreadAssumption == Thread # {} /\ IsFiniteSet(Thread)
ASSUME WorkAssumption == NoWork \notin Work
ASSUME PriorityAssumption == Priority \subseteq Int

VARIABLES
  pending,   \* m_pending_work_items from rbegin() on, each queue from its front
  running,   \* m_running_work_items
  shutdown,  \* m_shutdown
  pc,        \* where each thread is in run()
  work,      \* the work item each thread runs
  main,      \* where the owner of the pool is
  call,      \* the call the owner is in
  posted     \* the work items posted so far

poolVars == <<pending, running, shutdown, pc, work, main, call, posted>>

Item == [prio : Priority, work : Work]

At(label) == {t \in Thread : pc[t] = label}

\* Mutant of Idle: what is running is not waited for.
IdlePendingOnly == pending = <<>>

\* The predicate of m_done_condition.
Idle == running = 0 /\ pending = <<>>

\* Mutant of Enqueue: in the order of arrival whatever the priority.
EnqueueFifo(s, e) == Append(s, e)

\* push() on the queue of e's priority: behind all that is as urgent.
Enqueue(s, e) ==
  LET k == Cardinality({j \in DOMAIN s : s[j].prio >= e.prio})
  IN  [j \in 1 .. Len(s) + 1 |->
         IF j <= k THEN s[j] ELSE IF j = k + 1 THEN e ELSE s[j - 1]]

Init ==
  /\ pending = <<>>
  /\ running = 0
  /\ shutdown = FALSE
  /\ pc = [t \in Thread |-> "absent"]
  /\ work = [t \in Thread |-> NoWork]
  /\ main = "new"
  /\ call = "none"
  /\ posted = {}

\* set_num_threads: once, before anything is posted.
SetNumThreads ==
  /\ main = "new"
  /\ main' = "open"
  /\ pc' = [t \in Thread |-> "fetch"]
  /\ UNCHANGED <<pending, running, shutdown, work, call, posted>>

-----------------------------------------------------------------------------
(* post(), by the owner or from within a work item.                        *)

\* Mutant of NotifyWork: nobody is woken while another work item is pending.
NotifyWorkIfFirst ==
  IF At("asleep") = {} \/ pending # <<>> THEN pc' = pc
  ELSE \E t \in At("asleep") : pc' = [pc EXCEPT ![t] = "fetch"]

\* m_work_condition.notify_one().
NotifyWork ==
  IF At("asleep") = {} THEN pc' = pc
  ELSE \E t \in At("asleep") : pc' = [pc EXCEPT ![t] = "fetch"]

\* That nobody posts after the shutdown is asserted.
Post(p, w) ==
  /\ ~shutdown
  /\ w \notin posted
  /\ pending' = Enqueue(pending, [prio |-> p, work |-> w])
  /\ posted' = posted \cup {w}
  /\ NotifyWork
  /\ UNCHANGED <<running, shutdown, work, main, call>>

OwnerPosts(p, w) == main = "open" /\ Post(p, w)

WorkPosts(t, p, w) == pc[t] = "run" /\ Post(p, w)

-----------------------------------------------------------------------------
(* run(): the loop of a thread.                                            *)

\* There is work: the first item of the highest priority.
Fetch(t) ==
  /\ pc[t] = "fetch"
  /\ pending # <<>>
  /\ pending' = Tail(pending)
  /\ work' = [work EXCEPT ![t] = Head(pending).work]
  /\ running' = running + 1
  /\ pc' = [pc EXCEPT ![t] = "run"]
  /\ UNCHANGED <<shutdown, main, call, posted>>

\* The predicate of m_work_condition does not hold.
Sleep(t) ==
  /\ pc[t] = "fetch"
  /\ pending = <<>>
  /\ ~shutdown
  /\ pc' = [pc EXCEPT ![t] = "asleep"]
  /\ UNCHANGED <<pending, running, shutdown, work, main, call, posted>>

WakeSpuriously(t) ==
  /\ pc[t] = "asleep"
  /\ pc' = [pc EXCEPT ![t] = "fetch"]
  /\ UNCHANGED <<pending, running, shutdown, work, main, call, posted>>

\* No work and a shutdown: boost::none, and the thread returns.
Leave(t) ==
  /\ pc[t] = "fetch"
  /\ pending = <<>>
  /\ shutdown
  /\ pc' = [pc EXCEPT ![t] = "exited"]
  /\ UNCHANGED <<pending, running, shutdown, work, main, call, posted>>

\* The work item returned: m_done_condition.notify_one() after the last one.
Finish(t) ==
  /\ pc[t] = "run"
  /\ pc' = [pc EXCEPT ![t] = "fetch"]
  /\ work' = [work EXCEPT ![t] = NoWork]
  /\ running' = running - 1
  /\ main' = IF running = 1 /\ pending = <<>> /\ main = "asleep" THEN "test" ELSE main
  /\ UNCHANGED <<pending, shutdown, call, posted>>

-----------------------------------------------------------------------------
(* wait() and join(), by the owner.                                        *)

\* m_shutdown = true and m_work_condition.notify_all().
ShutDown ==
  /\ shutdown' = TRUE
  /\ pc' = [t \in Thread |-> IF pc[t] = "asleep" THEN "fetch" ELSE pc[t]]

Wait ==
  /\ main = "open"
  /\ main' = "test"
  /\ call' = "wait"
  /\ UNCHANGED <<pending, running, shutdown, pc, work, posted>>

\* join(allow_new_work = true) waits before it shuts down ...
Join ==
  /\ main = "open"
  /\ main' = "test"
  /\ call' = "join"
  /\ UNCHANGED <<pending, running, shutdown, pc, work, posted>>

\* ... join(allow_new_work = false) shuts down before it waits.
JoinNoNewWork ==
  /\ main = "open"
  /\ main' = "test"
  /\ call' = "close"
  /\ ShutDown
  /\ UNCHANGED <<pending, running, work, posted>>

WaitSleep ==
  /\ main = "test"
  /\ ~Idle
  /\ main' = "asleep"
  /\ UNCHANGED <<pending, running, shutdown, pc, work, call, posted>>

OwnerWakesSpuriously ==
  /\ main = "asleep"
  /\ main' = "test"
  /\ UNCHANGED <<pending, running, shutdown, pc, work, call, posted>>

\* Mutant of WaitDone: the shutdown wakes one thread only.
WaitDoneNotifyOne ==
  /\ main = "test"
  /\ Idle
  /\ main' = IF call = "wait" THEN "open" ELSE "threads"
  /\ IF call = "join" THEN shutdown' = TRUE /\ NotifyWork ELSE UNCHANGED <<shutdown, pc>>
  /\ UNCHANGED <<pending, running, work, call, posted>>

\* Everything is done: wait() returns; within join() it first shuts down.
WaitDone ==
  /\ main = "test"
  /\ Idle
  /\ main' = IF call = "wait" THEN "open" ELSE "threads"
  /\ IF call = "join" THEN ShutDown ELSE UNCHANGED <<shutdown, pc>>
  /\ UNCHANGED <<pending, running, work, call, posted>>

\* Every thread is joined: join() returns.
Joined ==
  /\ main = "threads"
  /\ At("exited") = Thread
  /\ main' = "closed"
  /\ UNCHANGED <<pending, running, shutdown, pc, work, call, posted>>

-----------------------------------------------------------------------------
ThreadNext(t) == Fetch(t) \/ Sleep(t) \/ Leave(t) \/ Finish(t)

OwnerNext == WaitSleep \/ WaitDone \/ Joined

Next ==
  \/ SetNumThreads \/ Wait \/ Join \/ JoinNoNewWork \/ OwnerWakesSpuriously
  \/ OwnerNext
  \/ \E t \in Thread : ThreadNext(t) \/ WakeSpuriously(t)
  \/ \E p \in Priority, w \in Work :
       OwnerPosts(p, w) \/ \E t \in Thread : WorkPosts(t, p, w)

Spec == Init /\ [][Next]_poolVars

\* The mutex is granted to whoever keeps asking for it and work items return;
\* nothing is assumed of posts, of calls and of spurious wake-ups.
FairSpec ==
  /\ Spec
  /\ \A t \in Thread : WF_poolVars(ThreadNext(t))
  /\ WF_poolVars(OwnerNext)

-----------------------------------------------------------------------------
\* The types of the variables.
TypeOK ==
  /\ pending \in Seq(Item)
  /\ running \in Nat
  /\ shutdown \in BOOLEAN
  /\ pc \in [Thread -> {"absent", "fetch", "asleep", "run", "exited"}]
  /\ work \in [Thread -> Work \cup {NoWork}]
  /\ main \in {"new", "open", "test", "asleep", "threads", "closed"}
  /\ call \in {"none", "wait", "join", "close"}
  /\ posted \subseteq Work

\* No wake-up is lost: a thread sleeps only while the threads that are awake
\* and about to look for work outnumber the pending items or equal them, and
\* never after the shutdown; the owner sleeps only while something is pending
\* or running.
NoSleeperForgotten ==
  /\ At("asleep") # {} => /\ Len(pending) <= Cardinality(At("fetch"))
                          /\ ~shutdown
  /\ main = "asleep" => ~Idle

\* Once a join() that allows new work shut the pool down, or a thread left,
\* nothing is pending; and once join() joins the threads nothing runs: no
\* work item is left that could still post.
NothingAfterShutdown ==
  /\ shutdown /\ call = "join" => Idle /\ At("run") = {}
  /\ At("exited") # {} => shutdown /\ pending = <<>>
  /\ main \in {"threads", "closed"} => Idle /\ At("run") = {} /\ At("asleep") = {}

\* "Work items with the highest priority are executed first": whatever order
\* work is posted in, nothing that is pending is more urgent than what a
\* thread takes.
UrgentFirst ==
  [][\A t \in Thread : pc[t] = "fetch" /\ pc'[t] = "run" =>
       \A k \in DOMAIN pending : pending[k].prio <= Head(pending).prio]_poolVars

\* A wait() or join() that was called returns, and join() with all threads gone.
CallsReturn == (main \in {"test", "asleep", "threads"}) ~> (main \in {"open", "closed"})
=============================================================================
