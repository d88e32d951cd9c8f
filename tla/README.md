# Verification of the UDF analyser (lambda_tool/redex)

The repository holds the artifact of a study of user-defined functions: the UDFs
(`Public_UDF`), the queries that call them, result tables (`RQ1`-`RQ3`) and the
tool that analyses them, `lambda_tool/redex`. The tool is a build of the Redex
bytecode optimiser with three whole-program analyses added to it: is a method
*deterministic*, what does it do with *null input*, and is it *safe to run in
parallel*. Each analysis is an instance of the same machinery: a monotone fixpoint
over a method's control-flow graph inside a fixpoint over the call graph,
repeated until the method summaries do not change any more. The engine of both
fixpoints is the SPARTA library under `sparta/include`, which schedules the nodes
of a graph by a weak partial ordering and can run them on a pool of threads. The
library around them has a second pool, with priorities, and a scheduler for tasks
with dependencies on top of it, which the method inliner uses.

This directory models that machinery in TLA+, checks it with TLC on small
instances, and proves with TLAPS what matters most for every instance. Paths below
are relative to `src/lambda_tool/redex`.

## 1. Inventory

| component | code | state | operations | modelled in |
|---|---|---|---|---|
| Work queue | `sparta/include/SpartaWorkQueue.h` | a queue and a mutex per worker, `m_running` flags, the atomics `num_running` and `num_non_empty`, a semaphore | `add_item` (2 forms), `run_all`, `pop_task`, `push_task`, `set_running` | `TaskPool`, `WorkQueue`, `WorkQueueProofs` |
| Semaphore | same file | a count, a mutex, a condition variable | `give`, `take`, `take_all` | `CountingSemaphore`, `Semaphore`, `SemaphoreProofs` |
| Weak partial ordering | `sparta/include/WeakPartialOrdering.h` | built once, read-only after | the constructor, the queries | `WeakPartialOrdering`, `WpoConstruction`, `WpoProofs` |
| Parallel fixpoint iterator | `sparta/include/MonotonicFixpointIterator.h` | entry and exit states, iteration counts, a counter per element of the ordering | `run` | `FixpointSchedule`, `ParallelFixpoint`, `ParallelFixpointProofs` |
| Sequential fixpoint iterator | same file | the same, and a queue | `run` | `SequentialFixpoint`, `ParallelFixpointProofs` |
| WTO fixpoint iterator | same file, `WeakTopologicalOrdering.h` | entry and exit states | `run` | - |
| Interprocedural analyzer | `sparta/include/Analyzer.h`, `libredex/SpartaInterprocedural.h` | the summary of each method, `m_has_update` | `run`, `analyze_node`, `get`, `maybe_update`, `materialize_update` | `Interprocedural`, `InterproceduralProofs` |
| Determinism analysis | `determinism_nullinput_analysis/determinism/` | calling contexts, the environment of registers and fields, `tmp_field_name`, `m_reg_field_mapping` | `analyze_edge`, `analyze`, `summarize`, one transfer function per opcode | `Interprocedural`, `DeterminismTransfer`, `AnalysisProofs` |
| Null-input analysis | `determinism_nullinput_analysis/null-input-analysis/` | per block, the registers known to be null after it | `analyze_node`, `get_nullinput_result`; interprocedurally nothing but its own verdicts | `NullInput`, `AnalysisProofs` |
| Parallel-safety analysis | `determinism_nullinput_analysis/parallel-safety-analysis/` | one value per method | as the determinism analysis | - |
| Priority thread pool | `libredex/PriorityThreadPool.h` | a map of queues, the number of running items, `m_shutdown`; a mutex and two condition variables | `set_num_threads`, `post`, `wait`, `join`, the loop of a thread | `PriorityThreadPool`, `PriorityThreadPoolProofs` |
| DAG scheduler | `libredex/PriorityThreadPoolDAGScheduler.h` | who waits for whom, wait counts, priorities, continuations | `add_dependency`, `run`, `augment` | `DagExecution`, `DAGScheduler`, `DAGSchedulerProofs` |
| Call graph | `libredex/CallGraph.*` | nodes, edges, ghost entry and exit | construction | its result is `Interprocedural`'s input |
| Concurrent containers | `libredex/ConcurrentContainers.h` | sharded maps, a lock per slot | `insert`, `update`, `get`, iteration | - |
| Abstract domains, Patricia trees | `sparta/include/*Domain.h`, `PatriciaTree*.h` | pure values | `join`, `meet`, `leq`, `widen` | a chain in the fixpoint modules |
| IR analyzer, optimisation passes, dex and resource I/O | `libredex`, `opt`, `service`, `libresource` | - | - | - |

### How they interact

* A fixpoint iterator builds the ordering of its graph in its constructor. `run()`
  puts the entry into a work queue as the only task. A task is an index of the
  ordering; it analyses a node (or decides whether a loop is stable), then adds to
  the counters of other elements and *pushes* each element whose counter is full.
* The work queue runs the tasks on `num_threads` threads. A task may push more tasks
  into the queue of the thread that executes it; threads with nothing to do take
  tasks from the queues of others or wait on the semaphore. `run_all()` returns when
  all threads agree that nothing is left.
* The interprocedural analyzer runs a fixpoint iterator over the call graph; analysing
  a node of it is a fixpoint over the node's control-flow graph, whose invoke
  instructions read summaries from the registry and whose result is written there.
  It repeats the iteration until a whole one changes no summary or a cap is reached.
* The DAG scheduler owns a priority thread pool. `run()` posts the tasks that wait for nothing and joins the pool; every
  other post is made by a work item: a task augmented while it runs, the continuations of a task whose count reached zero,
  a task whose last dependency is complete.

### What is hard, and what makes each part correct

* **Work queue.** No lock covers the whole state. A worker decides to leave after
  two separate reads of two atomic counters; counters change before the queues they
  describe; a push decides on a stale read whether somebody must be woken. Correct
  when: nobody leaves while a task is queued or may still be pushed; no task is lost
  or executed twice; the counters never drift; a waiting worker is always either
  woken or not needed; `run_all()` returns.
* **Semaphore.** `give(1)` notifies one waiter while late comers may take the unit, and
  threads wake up for no reason. Correct when it counts: no wake-up is lost and the
  count, which is unsigned, does not go below zero.
* **Weak partial ordering.** A one-pass construction with union-find over an arbitrary,
  possibly irreducible, graph. Correct when the schedule is acyclic and complete,
  respects every dependency that is not a back edge, brings every loop from its head
  to its exit, and credits each element of a loop with exactly the predecessors that
  do not run again.
* **Parallel fixpoint.** The tables of states have no lock: the schedule alone must keep
  threads apart. Counters are raised one at a time while the elements started first
  already run. Correct when no element is scheduled twice or early, no two threads touch
  the same state, the result covers all paths, is the sequential one, and `run()` returns.
* **Interprocedural analyzer and the analyses.** Order of analysis inside recursion, summaries
  that are overwritten rather than joined, a flag written by several threads, a cap on the
  number of iterations, contexts that flow against the call edges. Correct when the summaries
  are sound whenever the analysis stops, are a solution when it stops by itself, and
  it does.
* **Transfer functions.** Some fifty opcodes and calls recognised by the names of methods, a field remembered from one
  instruction to another, a result register that some calls do not write, and no objects: what is done to an object concerns at most
  the register it is done through. Correct, as far as the analysis looks, when nothing that varies gets into a value called
  deterministic (section 5 has what it does not look at), when the functions are monotone, as the
  iterator requires, and when no path that is executed is taken for unreachable.
* **Null-input analysis.** Branches of a null check are told apart by the type of an edge, after the states of all edges
  were joined. Correct when a register is held for null only where the check says so, and the verdict does not depend on the order
  in which blocks are analysed.
* **Priority thread pool.** Two condition variables on one mutex, `notify_one` for both; work that posts work; two
  orders of shutdown. Correct when nobody sleeps while there is something for him to do, the most urgent item goes first,
  nothing is left and nothing can be posted after the shutdown, and `wait()` and `join()` return.
* **DAG scheduler.** One count per task stands for the dependencies that are not complete *and* for the actions under
  way; it reaches zero more than once. Correct when it is exact between any two updates, every action runs once and
  not before what it depends on, and `run()` returns when all is done and not earlier.

## 2. Modules

| module | what it is |
|---|---|
| `TaskPool` | abstract: tasks are waiting, active or finished; a run returns when none is left |
| `WorkQueue` | every access of every thread to the queues, flags, counters and semaphore; implements `TaskPool` |
| `MCWorkQueue` | values for TLC |
| `WorkQueueProofs` | its inductive invariants and what follows from them; the proof that the queue implements `TaskPool` |
| `CountingSemaphore` | abstract: a count and the threads that wait for a unit |
| `Semaphore` | mutex and condition variable; implements `CountingSemaphore` |
| `MCSemaphore`, `SemaphoreProofs` | values for TLC; proofs |
| `WeakPartialOrdering` | the steps of `WpoBuilder`, and the ordering they end in |
| `WpoConstruction`, `MCWpoConstruction` | the construction step by step, and what its result must be, by a definition of loops that does not use the algorithm; all graphs over four nodes |
| `WpoProofs` | the construction is correct for every graph, and gives what `FixpointSchedule` asks for |
| `FixpointSchedule` | what the two iterators rely on in an ordering |
| `ParallelFixpoint` | the tasks of `ParallelMonotonicFixpointIterator::run` on a pool of threads |
| `SequentialFixpoint` | `MonotonicFixpointIterator::run` as a function, the reference for the parallel one |
| `MCParallelFixpoint` | the programs that are analysed |
| `ParallelFixpointProofs` | the schedule, the result and that it is the sequential one, for every well-formed program |
| `Interprocedural` | `InterproceduralAnalyzer::run` with the summary registry, as the determinism analysis uses them |
| `MCInterprocedural` | call graphs with the ordering `WeakPartialOrdering` builds of them, and what their methods compute |
| `InterproceduralProofs` | soundness, fixpoint and bound of the iterations for every program |
| `PriorityThreadPool`, `MCPriorityThreadPool` | the pool and its owner: every critical section; values for TLC |
| `PriorityThreadPoolProofs` | its inductive invariant and what follows from it |
| `DagExecution` | abstract: actions of tasks asked for, active, deferred; no counts, threads or priorities |
| `DAGScheduler`, `MCDAGScheduler` | the scheduler composed with `PriorityThreadPool`; implements `DagExecution`; values for TLC |
| `DAGSchedulerProofs` | its inductive invariant, that the pool shuts down when all is complete, and that its steps are those of `DagExecution` |
| `DeterminismTransfer`, `MCDeterminismTransfer` | the transfer functions along any path, beside what is true of the values; values for TLC |
| `NullInput`, `MCNullInput` | the null-input analysis of one method; small methods for TLC |
| `AnalysisProofs` | what the transfer functions keep track of, that they are monotone; what the verdict of the null-input analysis rests on |

`PROJECT.json` maps every definition to the lines it stands for.

### Correspondence with the code

**WorkQueue.** A step is what a thread does between two accesses that another thread could
tell apart. `pc` is the place in the lambda of `run_all()`:
`scan` (the loop over the permutation), `pop` (inside `pop_task`, queue locked, `m_running`
set), `exec` (the executor), `pushRead`/`pushGive`/`pushPut` (inside `push_task`, own queue
locked), `readRunning`/`readNonEmpty` (the two halves of the test at :290), `quit`, `take`, `done`.
`AddItem` and `AddItemTo` are the two `add_item`s; `RunAll` and `Join` are `run_all()` before and after
the threads. `set_running` is one step with `m_running` because only the owner reads its
flag. The semaphore is its count here; `Semaphore` shows why that is right. `Order` is
what `create_permutation` can return: its random source is any choice of the remaining order.
Tasks are distinct values; `created`, `executed` are history variables.

**Semaphore.** Under a mutex nothing in between is visible, so each critical section is a step;
`wait` releases the mutex, so it splits `take` into `Enter`, `TakeUnit`, `Sleep` and the wake-ups.
`ready` are the threads that want the mutex, `sleeping` those that wait for the condition.
`WakeSpuriously` is always allowed and never required.

**WeakPartialOrdering** has the iterations of the code's two loops as operators on their state, and **WpoConstruction** takes
them one by one. `Unsearched`, `Discover`, `Skip`, `Visit` and `Finish` are `construct_auxilary`: its stack is `cur`, the tree above
it and `todo`, the successors each vertex on it has pushed. `Component` is one round of the loop of `construct_wpo`, with
`Restore`, `Nested`, `Closing` and `Entering` its parts, `Connected` is its end, and `Ordering` assembles the nodes as `build` does.
Vertices are depth-first numbers from 1, the exit of the loop of `h` is called `-h`, indices are those of the code (the exit of
a head is one below it, the entry is the last). Union-find is the map `rep` from a vertex to the least of its component, and the
union-find of the search the map `ancestor`. `m_lift` is false, the value both iterators pass. The iterators get a node's successors in
the order of the graph's container: `VisitSuccessor` takes them in any order. `Build` makes all the steps at once, with successors in increasing
order, for the runs that start from an ordering.

**FixpointSchedule.** `IsScheduled` is what the iterators assume of an ordering. It does not know loops of the graph: `Before(i, k)` says that `i` must be
finished when `k` starts, and the loop of an exit is what lies between its head and the exit. Both `WellFormed`s contain it, and
`OrderingFitsGraph` says that the code's construction always provides it.

**ParallelFixpoint.** `elem`, `pc` and `todo` are a thread's place in the lambda of `run()`: reset the counter,
access the states, add to counters one by one (`Notify`), return. Three abstractions matter:

* a thread's access to the entry and exit states is a single step. `NoDataRace`, checked in the same
  runs, says that no other thread accesses the same cells meanwhile, which makes the step
  indivisible for everybody else;
* raising a counter and pushing the element when it is full are one step: only the thread that
  fills a counter pushes, and nobody else looks at the counter of an element before it starts;
* the pool is `TaskPool`'s: any waiting task may be begun by any free thread. `WorkQueue` implements
  that for tasks that are all different; here an element comes back in every iteration of
  its loop, each time as a new task.

**SequentialFixpoint.** A record of the tables, the counters and the queue, and a function that processes the front of the queue until there is none
(`Drain`, a function defined by the equation of the loop). The successors that become full are queued in increasing order (`InOrder`); the code goes through them in
the order of a set, and by the proof the order does not matter.

Abstract values are the chain `0..Top`, transformers are monotone and strict, and widening jumps to the top: enough to
tell a lost, early or repeated analysis from a correct one, and to need widening.

**Interprocedural.** `StartIteration` .. `GiveUp` are the loop of `run()`. Inside an iteration a thread
takes an element of the ordering (`Begin`: entry context, then the copy to the exit context), reads the callees'
summaries one at a time (`Read`), and ends in `Keep` or in `Store` and `Flag`: `maybe_update` writes the
entry under the lock of its slot and `m_has_update` after it, without a lock. `CloseLoop` is the exit of
a loop, `PassExit` the node without a method where the reversed graph begins. With one thread this is the serial iterator the
adaptor uses by default; two threads are the parallel one its comment allows
(`libredex/SpartaInterprocedural.h:27-28`). What is abstract:

* the counters of the iterator are a set of finished elements; `ParallelFixpoint` shows that they amount to that. The order
  of methods that do not depend on each other is free;
* a method's own fixpoint is a function from the values its calls return to its return value, and reads each summary once
  (the code reads it again when a block is repeated, and nobody changes it meanwhile when the iterator is the serial one);
* a calling context says of each invoke instruction whether its arguments are bottom, top or in between; in a context that
  is not bottom the analysis of a method may return anything, written as top;
* the ghost entry, where the iteration ends, is left out: its analysis returns at once and nobody reads its states.

`WellFormed` says what a program is: calls stay inside it, the ordering is one of the reversed call graph (`IsScheduled` of `Reversed`), a method's result is monotone in what its calls return, and whether
a method returns at all does not depend on that, because the analysis follows both branches of every test. In the programs of
`MCInterprocedural` `operation_with_two_domains` is one of the functions.

**PriorityThreadPool.** Everything is done under `m_mutex`, so a step is a critical section, or the part of one before a
`wait` on a condition variable or after it. `pc` is the place of a thread in `run()` (`fetch`: it wants the mutex and will
look for work; `asleep`; `run`: the work item executes), `main` and `call` that of the owner in `wait()` or `join()`.
`pending` is the map of queues in the order in which `rbegin()` and `front()` give its items; `Enqueue` is the push.
Whoever may post is free to: the owner (`OwnerPosts`) and work items (`WorkPosts`). The items are distinct. `post()` after
the shutdown fails an assertion, hence the guard `~shutdown`; that nobody tries is a property of the client,
`PostsAllowed`. An item is counted as running when it is taken and discounted when it returned.

**DAGScheduler** composes the pool (`Pool`, its actions conjoined with the scheduler's) and the scheduler's own state. A
step is one `update()` of a `ConcurrentMap` slot, which is atomic under the slot's lock, or one critical section of
the pool. `step` is a thread's place in `decrement_wait_count`, `augment` or `schedule`; `hand` is what it is about to post,
`tell` the waiting tasks it has still to go through. An action is a record of its task and a name; the executor's call for
a task is its `Body`. A pair is added once by `AddDependency`: the callers take them from a map of maps
(`service/method-inliner/CallSiteSummaries.cpp`, `Inliner.cpp`), and `add_dependency` would count a second time.
`AddCount` can make `waitCount` negative, where the code would wrap around; `WaitCountExact` includes that it does not.

**DeterminismTransfer** follows one path through a method. `env` is the abstract state of the fixpoint iterator at the
current point: what the instructions before made of it, joined at any time with what other paths bring (`JoinPath`).
`real` is a history variable: which places hold a value that is the same in any two executions of *this path* with the same
arguments (`same`) and which hold one that may not be (`varies`); `doubt` is a value that varies, if it does, by something the
analysis has no record of (section 5). That a branch was taken because of a value that varies is no part of it: the
analysis does not follow that either. The value of a reference is the object with everything in it. The
actions are the cases of `analyze_instruction`, grouped by what they do: `Move` is every move and operation with one
operand, `Binary` those with two, `Clobber` and `LoadUnknown` are `default_semantics`. Instructions with a
`move-result-pseudo` are `Load...` and `MovePseudo` (`after = "load"` says that it must come next, as in every method the
optimiser reads). Calls differ by name: `Modify` (`init`, `append`), `SetCall` (`set`), `ResetCall` (the methods of
`m_reset_det_func`), `Invoke` the others. A static call without arguments is `InvokeStatic`, `InvokeStaticInit`, or, with one of the
other names, `AbortStatic`: the code asks for a first register before it looks whether there is one (`DeterminismAnalysisIntra.cpp:1116`, `:1138`,
`:1208`), and `IRInstruction::src` fails its assertion.

A callee is a triple: what its summary says, whether its result varies, and whether what it does to objects does. Of the first two `CalleeAssumption` says
that a summary that is det is as good as this analysis makes it; of the third nothing, as no summary speaks of it. Whoever changes an object, by a put or
by a call whatever its name is, changes it wherever it can be reached from. Which places these are besides the one the instruction
names is any set of `Alias`; `Touched` is what becomes of them, of which the code does nothing. `IGet` may read the field of another object than it was last put into.
Abstract are:

* a wide value is one register; a field is the same place whatever the object, as in the code;
* blocks share `m_reg_field_mapping` and are analysed in an order the path does not know: `OtherBlock` puts any entry into it;
* paths without exceptions only: `OPCODE_MOVE_EXCEPTION` and the domain that tells handlers' blocks from others are left out.

**NullInput.** A state is a set of registers, bottom the empty set, and `Live` marks what is not bottom, so that joining is union. A block
is its first and last instruction and the register the last one reads first, which is all `analyze_node` looks at. `Analyze` is a step of the
iterator on a block that is not up to date; it may take any such block, as `VerdictOfLeastSolution` shows that the order does not
matter. `KeepsRegister` is the switch at :199-213 with what runs from one case into the next. `Abort` is the assertion in
`IRInstruction::src` for a predecessor that ends in an instruction without a source.

## 3. Runs

| run | instance | shows |
|---|---|---|
| `queue` | 3 workers, 2 tasks, pushing, fairness | `LeaveOnlyWhenDone`, `EachTaskOnce`, `CountersExact`, `NoStrandedTask`, `EveryoneWoken`; `run_all()` returns; `ImplementsTaskPool` |
| `semaphore` | 4 threads, gives of 1 and of 4, at most 6 units | no lost wake-up, the code is a counting semaphore |
| `wpo` | every graph over 4 nodes and every order of successors, up to the names of nodes | six properties of the ordering |
| `fixpoint_small` | 2 threads; every connected graph over 3 nodes with 6 choices of transformers and 2 initial values | no double or early start, no race, a post-fixpoint, equal to the sequential result |
| `fixpoint_wide` | 3 threads, 5 graphs of 5 nodes (parallel, nested, irreducible loops) with 2 choices of transformers, fairness | no race and the sequential result where three threads meet in one loop; every call of `run()` returns |
| `interprocedural` | 2 threads; 351 programs of 3 or 4 methods, caps 0, 1, 2 and 5, fairness | `SummariesSound` whoever has read what, `SettledIsSolution`, `IterationsBounded`, `ParametersKnown`; with a cap above the number of methods the analysis ends by itself |
| `entry_context` | 1 thread, the same programs | a finding, section 5 |
| `priority_pool` | 3 threads, 3 items, 2 priorities, fairness | no sleeper forgotten, nothing after the shutdown, the most urgent first, every call returns |
| `dag` | 2 threads, every acyclic graph over 3 tasks, 2 added actions for the middle one, fairness | counts exact, posts allowed, all complete when the pool shuts down (`DoneAtShutdown`), `ImplementsDag` |
| `determinism` | 2 registers, 1 field, callees of 3 kinds, objects found nowhere else or everywhere | what the analysis looks at and varies is not called det, transfer functions are monotone, no path is lost |
| `determinism_result` | the same | a finding, section 5 |
| `null_branch` | every method of 4 blocks and 2 parameters that tests one of them first and returns last | a finding, section 5 |

**Bounds.** Three workers are the least with a giver, a taker and a third who reads the counters between
them; two tasks are what the liveness of three workers allows. A push into a queue that has a task already needs a
third: the five safety properties of the queue and the safety part of its refinement, the only things such a push
could break but liveness, are proved for any number of tasks. 312256 states are reached in `wpo`, from every graph. Four nodes contain the least irreducible loop with a way in and a
way out, two loops that share nodes and a nest of three. Three-node graphs are enumerated completely; the
five graphs of five nodes were picked to have loops whose elements are credited by an exit while other
threads still run elements of the same loop. The programs of the interprocedural runs have chains (one with a call past the next method, whose edge the ordering drops), a call
with two callees, recursion through one, two and three methods, with and without a way out, calls that are labelled or go nowhere or to one method that is known and one that is not; among them
a nest of recursions that needs four iterations, each bringing what is known one method further. Cap 1 stops before the
check that nothing changes, cap 2 in the middle of that nest. `MaxRuns` bounds the calls of `run()` (to one: that a second call gives the sequential result as well is proved, for any number of calls, and not run), `MaxCount` the units in
the semaphore, `Top` the height of the chain (above 2, so that widening differs from joining).
Three threads of the priority pool leave one asleep and one between its wake-up and the mutex while the third works. In
`dag` any pair `d < t` may be a dependency, which is every acyclic graph up to the names of tasks; two actions can both be
continuations, or one be added while the other waits to be released. Two registers and a field let a value move, be
combined, loaded, stored and kept while a stale copy of it stays; one of the callees puts what varies into objects, although its result is det; `Undefined` is what a missing `return` may yield. The
registers are symmetric in `determinism`; no symmetry is used with liveness.

**Deadlock** is checked for the queue and the semaphore. The other systems end: when an ordering is
built, when an assertion of the determinism analysis fails (`AbortStatic`), when `MaxRuns` is reached, when the analysis settles or gives up or reaches its verdict, when the pool is joined and the tasks are done.

**Mutants.** Each property has a change of the modelled code it detects, defined right before the original
(`ReadRunningHasty`: leave without looking at `num_running`; `CreditSetting`: set the counters of a loop's
elements instead of adding, the mistake the comment at `MonotonicFixpointIterator.h:466-473` warns of; ...).

### Fairness

* `WorkQueue`: each thread that can take a step eventually does (an OS scheduler that does not starve
  threads, executors that return). Nothing makes a caller add tasks or call `run_all()`, nor a task push.
  Weak fairness of a worker's whole loop is enough: the mutexes are held for finitely many steps and each
  worker has only one kind of step enabled at a time.
* `Semaphore`: a thread that wants the mutex gets it. Stronger than POSIX promises for a single thread under
  permanent contention, but the queue's workers do not contend forever.
* `ParallelFixpoint`: some thread that can go on does. Per-thread fairness is not needed: the system as a whole
  cannot work forever without `run()` coming to its end.
* `Interprocedural`: the same, and the analysis of a single method ends.
* `PriorityThreadPool`: a thread that wants the mutex gets it, a work item returns. Nothing makes the owner call anything,
  anybody post, or a thread wake up spuriously.
* `DAGScheduler`: the same for the threads and, once `run()` was called, for the owner; nothing makes a task augment
  itself. `ImplementsDag` includes the fairness of `DagExecution`, and so that `run()` returns.

## 4. Proofs

`WorkQueueProofs` proves, for every number of workers, every set of tasks, with and without pushing:

* `Invariance`: `Spec => []Inv`;
* `TypeCorrect`, `CountersCorrect`, `LeaveCorrect`, `NoTaskStranded`: the checked properties of those names
  (`TypeOK`, `CountersExact`, `LeaveOnlyWhenDone`, `NoStrandedTask`).

`LeaveOnlyWhenDone` is far from inductive: a worker reads the queues one after the other and the counters
one after the other, and everything it has read may have changed. `Inv` says what of it
is *still* true. `SeenInv`: a queue a worker has seen empty on its walk is still empty or its owner is
running (only an owner fills its queue, and only while it runs), and a worker's own queue stays empty once it
looked past it. So a worker that then reads `num_running = 0`, when it does not run itself,
knows that no queue it visited has filled up; it visited all. `QuietInv`: from then on nobody runs
and nothing is queued, and this is stable, since nothing can be popped and only running workers push.
`CountersExact`, `LockInv` (who holds which mutex) and `PlaceInv` (what a worker holds
agrees with its place) make the two links between counters, flags and places. One lemma per action shows
that it keeps `Inv`; frame lemmas (`SeenFrame`, `QuietFrame`, ...) treat the workers the action does not move.

A consequence: the second half of the test at `SpartaWorkQueue.h:290-291`, `num_non_empty == 0`, is redundant. A
worker that reads `num_running == 0` there always finds `num_non_empty == 0` too (`QuietInv` holds at
`readNonEmpty` already). It costs nothing and we report no defect.

A second invariant follows the tasks. `TaskOnce` (`EachTaskOnce`) rests on `TasksInv`: a task that was created and not yet
executed is in exactly one place (`Places`: a position of a queue, a worker's hands while it executes, a worker's hands while it pushes),
an executed one in none, and what is in a place was created. Each action moves at most one task, from one place to one other. `Woken`
(`EveryoneWoken`) counts: the units given by whoever leaves are at least as many as the workers who still sleep.
`Refinement` puts both together with `LeaveCorrect`: every behaviour of the queue is one of `TaskPool!Spec`. Tasks begin
when `pop_task` takes them, end with the executor, and `Join` may only happen when the invariants say that no task is
left. The same safety part of `ImplementsTaskPool` on two tasks is in the run `queue`, with the fairness that no proof covers.

`SemaphoreProofs` proves for any finite set of threads: `TypeCorrect` (the count does not go below zero),
`WakeupsKept` (`NoLostWakeup`, which is inductive) and `StepsAreCounting` (every step of the code is a step of the
counting semaphore or a stutter).

`PriorityThreadPoolProofs` proves for any finite set of threads, any work items and integer priorities: `NoWakeupLost`,
`CleanShutdown`, `MostUrgentFirst` (the properties `NoSleeperForgotten`, `NothingAfterShutdown` and `UrgentFirst`) and
`TypeCorrect`. `NoSleeperForgotten` compares numbers: *while* somebody sleeps there are at least as many threads on their
way to the mutex as items. It is kept by `post` (one item more, one sleeper less), by `Fetch` (one each less) and by
`Finish`; a thread goes to sleep only when nothing is pending. The owner's half needs `RunningExact` (the count is the
number of threads that run an item), and `ShutdownKnown` (what the owner's place says of the shutdown) carries it into
`NothingAfterShutdown`. `UrgentFirst` needs `Sorted`, which rests on lemmas about `Enqueue`: the items as urgent as the new
one are a prefix of the queue. As `DAGScheduler` is composed of actions of this specification, all of it holds of its pool too (`SchedulerUsesPool`, a lemma
that says of the code no more than that it calls the pool's functions; that it may call them is `PostsAllowed`).

`DAGSchedulerProofs` proves for any finite sets of threads and tasks, any acyclic dependencies and any actions tasks may be
augmented with: `CountsExact`, `PostsAreAllowed`, `ShutdownIsCompletion` (the properties `WaitCountExact`, `PostsAllowed` and
`DoneAtShutdown`) and `StepsImplementDag`. The last says that the initial states of the scheduler are initial states of
`DagExecution` and that every step is one of its steps or a stutter; the fairness in `ImplementsDag` stays with TLC. The
invariant `IInv` contains the pool's own invariant, taken from `PriorityThreadPoolProofs` for the instance `Pool`: every action of
the scheduler that touches the pool is one of the pool's, so it need not be proved again. To it come

* `PlaceInv`: an action that was asked for is in one place (in the pool, in a thread's hands, executed or a continuation);
* `HandInv`: what a thread holds depends on its `step`, and what it posts for a task is the task's own;
* `BodyInv`: a task has been scheduled if and only if nothing it waits for is unmet, and only scheduled tasks have actions.
  A dependency counts as met by `u` when its task is complete *and* `u` was told;
* `OverInv`: one thread releases a task's continuations or tells those who wait for it. Counts reach zero more than once,
  and this is what keeps two threads from acting on the same zero;
* `CountInv`: a task's count is the number of what is unmet plus the number of its actions under way.

`BodyInv` and `CountInv` need each other: that the decrement that leads to zero is the last says that the task may be
posted, that it is posted only once says that later decrements are its actions'. That priorities are what the pool can
compare is a fact about a recursion, `compute_priority`: `Chain` is defined by an equation that has a solution because
dependencies are acyclic, and `ChainBound` proves that it stays below the number of tasks by taking, among the tasks where it does
not, one that the numbering puts last. In the refinement `Run` is `Call`, `FetchWork` is `Begin`, `Augment` and `Defer` are themselves, `Decrement` is `End`, which lets the
continuations be asked for in the same step, `Return` is `Return`. `Begin` needs that dependencies are complete, which is
`BodyInv`; `Return` that all tasks are, which is `DoneAtShutdown`. The pool shuts down because its queue is empty and nobody works, and knows
nothing of tasks that wait. But if one were not complete, the one with the least number would have to wait for one with a lesser number (`AllDone`).

`ParallelFixpointProofs` proves for every well-formed program, any number of threads and any number of calls of `run()`:
`StartsWithFullCounter`, `ScheduledOnce`, `TablesNeedNoLock`, `NothingLeftOver` and `ResultCovers` (the properties `CounterFullAtStart`,
`NeverScheduledTwice`, `NoDataRace`, `AllCountersSpent` and `ResultIsPostFixpoint`). A counter alone says little: it is raised while
others run, in no fixed order, and set back when its element starts. The invariant says what it counts: there is a set `D` of
elements that are *done*, closed under predecessors, and the counter of an element that is not done is the number of its predecessors in `D`
whose credit has arrived (`Paid`; `Owing` are the credits a thread still has to give, one for each successor, or those of a loop's
elements all at once when the loop is iterated again). An element joins `D` when its states have been written; an exit that finds
its loop unstable takes the loop out of `D`, which keeps `D` closed because nothing outside a loop follows an element of it but its exit. `OnceInv` then says: an element
that is not done and whose predecessors have all paid is waiting once or has one thread, any other is in neither place. `NoDataRace` follows, since
the predecessors of an element that runs are in `D` and it is not, so of two elements that run neither comes before the other, and
between nodes of an edge one does. `ApartInv` keeps two threads from owing the same credit. `ValueInv` adds what the
states of done elements cover, and `IterInv` that only loops under way have an iteration count, so that nothing widens in the next call. In the end `D` is everything.
That `run()` returns remains with TLC.

`ResultIsDeterministic` (`ResultIsSequential`) is the same module's answer to whether the threads can change the result: they cannot, although widening makes it
depend on how often each loop was iterated. Take away threads, queue and counters, and what is left is the set of done elements and the tables, and
any element that is due (not done, all its predecessors done) may take its *turn* (`After`). Two due elements are apart, for the reason that two threads
are: so their turns can be taken in either order (`Diamond`), and neither makes the other any less due (`OtherKept`). Hence, if some turns
lead to where all is done, whatever is due now takes its turn among them, and it may as well take it first: what is then left is one turn less
(`TurnFirst`). The threads take turns: that they are where *some* sequence of turns leads (`TurnsInv`) is a part of the invariant, kept because access to the tables
is a turn and nothing else changes them. The queue takes turns as well: in the sequential run a counter is the number of done predecessors and the queue holds
what is due, each once (`SeqInv`, `ProcessFacts`), which is also why its two asserts on counters hold. So where the threads got in `n` turns,
the queue gets in `n` turns: were there a counterexample, `TurnFirst` would make one with fewer turns (`DrainLeads`). In particular the sequential iterator ends if
the parallel one does. One thing is needed besides: that the function `Drain`, the loop of the code as an equation, exists (`WhileExists`: a loop that never ends has
some value, whatever it is).

`WpoProofs` proves of the construction, for every set of nodes, every graph and every order of successors,
all six properties of the run `wpo` (`ElementsAreLoops`, `EdgesComeFirst`, `ScheduleIsOrdered`, `OuterCountsAreExact`, `LoopsRunFromHeadToExit`,
`OutsideIsExact`) and that the ordering is what the iterators assume (`OrderingFitsGraph`). It has three parts.

* *The search* (`SearchIsCorrect`). The numbers are in preorder and postorder of one tree; the vertices that are not finished are the path to the current
  one; a successor that was not looked at is in `todo`; edges are sorted into back and cross edges and the ancestor kept for a cross edge is the greatest common
  one. What the rest uses of it is `Dfs`: a tree `t` of vertices numbered in preorder and edges `E` of which none leads to a greater number
  outside the subtree. `Comp(t, E, h)` is the loop of `h` seen from the tree; `LoopIn` shows that it is the strongly connected part `WpoConstruction` defines.
* *The merge* (`MergeIsCorrect`). After the heads above `m`, the components are the loops of those heads: each vertex belongs to the outermost of them around it (`RepInv`), each head
  knows its exit, its size and its parent, the edges kept for a component are those that enter it and can be compared already (`OriginInv`: tree edges at once, a cross edge
  when its common ancestor is restored, which is why it is never looked up too early), and the constraints are those of the edges inside
  (`ConstraintInv`). The constraint of an edge comes `From` its source, or from the exit of the outermost loop it leaves. Loops nest, so that exists.
* *The ordering.* That a loop comes before its exit is an induction over the nesting, that an edge is scheduled follows (`EdgesComeFirst`). There is no cycle because
  the source of a tree or cross edge is finished later in the search than its target (`PostOrder`): in a set of elements of which each waits for another, the one finished last could
  only be an exit, and without it the set still is one (`SmallerCycle`). The predecessors counted for an exit
  are those from outside its loop because the heads from the target outward up to the exit are just the loops the constraint enters.

What has to be proved by induction here, over vertices or over a path of parents, is proved by least counterexamples: a set of numbers has a least member.

`AnalysisProofs` proves for any registers, fields, aliases and callees: `TracksDirectFlows` (`DirectFlowsSeen`), `NeverDead`
(`NeverUnreachable`), `Monotone` (`TransfersMonotone`) and `TypeCorrect`. The three invariants are inductive together: that
nothing is bottom keeps `Set` from making an environment bottom and `operation_with_two_domains` away from the operand
for which it returns nothing, whatever the undefined value would be. One lemma per family of instructions reduces
to `WriteKeeps`: a place is written with a value that is det only if what it is seen to be made of does not vary. It is not a theorem that the analysis
is sound, which it is not: section 5 lists what `DirectFlowsSeen` leaves out.

`InterproceduralProofs` proves for every well-formed program with any ordering, any number of threads of the iterator and any cap:
`SummariesAlwaysSound` (`SummariesSound`), `SettledIsAlwaysSolution` (`SettledIsSolution`), `ParametersAlwaysKnown` (`ParametersKnown`),
`IterationsAlwaysBounded` (`IterationsBounded`) and `TypeCorrect`. Summaries are overwritten, in no fixed order, with
results computed from reads that may be out of date, so none of these is inductive. What saves them is that a summary changes at most once:
it starts at top, and what a method's analysis gives either is its summary or comes when that is top (`Refines`). `ReadInv` carries this
across the reads: what a thread has seen of a summary is what it is now or top, and if it read the rest now, its result would still refine
its own summary; `ResultRefines` is the lemma that makes both monotone, and needs of a program what `WellFormed` says. The race on `m_has_update` is
benign because of `QuietInv`: as long as the flag is not set *and no thread is about to set it*, nothing that was read is out of date
and all finished methods are solved; the loop of `run()` looks at the flag only when no thread is busy. `CtxInv` (contexts of methods are
bottom) is why the parameters never matter, and why a loop's exit never has anything new. `CountInv` counts the iteration under way from its first store on.
That one iteration is enough without recursion is a second invariant, `OrderInv`: the set of finished elements contains the predecessors of its members, so
a method begins when all it calls are finished and what it reads is final (`CalleesFirst`, `OthersUnread`), and in the next iteration nothing is left to change.

It proves for any control-flow graph: `SatCorrect`, that a method is SAT only if each parameter is compared with null on
a path to the exit on which there is nothing but tests and gotos and no block of which removes it (`SatIsChecked`; the invariant is that
every register in every state has such a path), and `VerdictOfLeastSolution`, that the verdict is taken from the least solution of the blocks'
equations, so that the schedule of the iterator has no part in it.

Assumptions: `NumThreads > 0`; the task that stands for `boost::none` is no task, nor is the item of an idle thread an item;
the threads of the semaphore and of the pool are finitely many (and some, in the pool); amounts given are naturals,
priorities integers; programs are `WellFormed` and caps naturals; dependencies of tasks are acyclic (a numbering
exists in which each task comes after what it depends on), the owner of the pool is not one of its threads, and the actions a task is augmented with are not executor's calls; registers, fields and the result register are different things; callees' summaries are
not bottom, and det only of a result that does not vary but for what this analysis itself leaves out. TLC evaluates them in every run. For both iterators the
assumption about the ordering (`IsScheduled`) is that predecessors and successors agree, that only the entry has no predecessor, that there is no cycle, that a loop is left
through its exit only and what its exit credits is what the loop's elements have outside of it, and that every edge of the graph goes forward in the order or back to the
head of a loop. This one is proved of what the code constructs (`OrderingFitsGraph`), and in the runs TLC evaluates it for every program with the ordering it constructs. What remains assumed
of a program is that its transformers are monotone, which for the determinism analysis is `TransfersMonotone`, and for the interprocedural iterations that its calls stay inside it.

**Only model-checked:** all liveness and the fairness part of refinements (out of TLAPS's reach): that `run_all()`, `run()`, `wait()` and `join()` return and that the
iterations settle. The safety parts of `ImplementsTaskPool`, `ImplementsCounting` and `ImplementsDag` are proved. Every invariant that a run expects to hold is a theorem. A queue
whose tasks push nothing (`CanPush = FALSE`, where workers leave early) is covered by the proofs alone.

## 5. What the models say about the code

Three comments are not what the code does. The first (run `entry_context`): `DeterminismAnalysis.cpp:69-71` says that at the entry of a method
the calling context binds the null pointer to the input arguments. The analysis runs bottom-up, on the reversed
call graph, where a method that calls nobody comes after the ghost exit; `analyze_edge` returns bottom for that edge, as its callee is null
(:102-104). Reading or updating a bottom environment gives bottom, so all callers of that method are in the bottom context too, and so on up. Every
method is analysed in the bottom context, in which parameters are deterministic. What callers pass never
matters. `ParametersKnown` says the good side of it: the asserts on the context (`DeterminismAnalysisIntra.cpp:238-240`) cannot fail.

The second (run `determinism_result`): a move-result is said to move "the object result of the most recent invoke-kind"
(`DeterminismAnalysisIntra.cpp:479-480`). After a call of a method named `...init...`, `...set...` or `...append...`, or of a
reset method, RESULT_REGISTER is what an earlier instruction left in it. A value that varies can so be called det: the
register a call of `append` returns, for example.

The third (run `null_branch`) is a bug. "Check if the edge takes the reg == null branch. if not, remove reg from the current_state"
(`NullInputAnalysisIntra.cpp:200-201`): the case of `if-eqz` has no break after its test, so that an edge on which the register is *not* null goes on in the
case of `if-nez`, finds what that looks for, and keeps the register. Only the branch of an `if-nez` removes one. `T f(T p) { return p == null ? other : p; }`, compiled
to an `if-eqz` over a goto, is called SAT. `SatCorrect` is what remains true of a SAT: the comparison is there, the branch is not known.

Observations:

* The analysis is not sound, and `DirectFlowsSeen` says how far it goes. A value called det can vary between two executions of a path through
  (1) that move-result;
  (2) an object that a callee changes, its own or one it is given, when the call is none of those recognised by name (`list.add`, a
  `put`): the general branch of `process_virtual_call` (`DeterminismAnalysisIntra.cpp:1148-1162`) writes nothing but the result. The same of fields a
  callee writes, and of what a callee called `init` or `append` adds of its own, when its summary is det;
  (3) an object reached from several places: what is put into it or done to it through one register leaves what is said of the others;
  (4) a field, which is one place for all objects: `iget` of another object than the field was last put into;
  (5) a method named `set`, whose arguments are ignored (its summary alone is the new value), and which, when its object was ever loaded
  from a field, updates the field and not the register, by a mapping that keeps the first field of a register, is never
  cleared and is shared by all blocks;
  (6) `APUT_WIDE`, `APUT_BOOLEAN`, `APUT_SHORT`, `IPUT_BYTE`, `IPUT_CHAR` and `IPUT_SHORT`, which have the default semantics and change nothing;
  (7) the result of a callee that was itself called det for one of these reasons.
  And two executions need not take the same path: which branch is taken may depend on what varies, and no transfer function takes
  note of that. No text of the repository promises more, so only (1) is a finding. What the property and its theorem do say is that
  nothing else goes wrong in the model: moves, operations, elements, listed stores, reset methods and the arguments and summaries of all other calls lose no variation;
* `NeverUnreachable` makes three things harmless: the missing return of `operation_with_two_domains` (:1288-1313), the
  load of an element of a bottom array, which would leave RESULT_REGISTER (:612-617), and `not_reached_log` at :721;
* `tmp_field_name` is not initialised before the first load of a field (:1225). The first move-result-pseudo may put a
  dangling pointer in the mapping, where it is used as a key only (`SetCall`);
* "the given function will only run after all other actions associated with this task have finished running"
  (`PriorityThreadPoolDAGScheduler.h:142-144`) holds of a continuation and the actions before it; the continuations of a
  task run at the same time as each other and as what they augment the task with. `DagExecution` states it so;
* the count of a task with continuations is zero between the update that finds it so and the next
  (`PriorityThreadPoolDAGScheduler.h:75-86`). Nobody can see it: no action of the task runs then, so nobody augments it
  (`WaitCountExact`, `PostsAllowed`);

* a test of null that is entered from a goto (or any block whose last instruction has no source) with a state that is not bottom fails the
  assertion in `IRInstruction::src`: the last instruction's source is read before its opcode is looked at
  (`NullInputAnalysisIntra.cpp:192`). Blocks that return do not look at their edges at all;
* as contexts do not change, a loop of the call graph is stable after one round (`CloseLoop` never takes its second branch):
  recursion is resolved by the iterations of `InterproceduralAnalyzer::run` alone, and where a chain of recursive methods is analysed
  in the wrong order each needs an iteration of its own. No more than one per method, though (`IterationsBounded`, `SettlesUnderCap`);
* stopping at `max_iteration` costs precision, not soundness: summaries start from top, and whatever is written is
  an upper bound of what the analysis would give later (`SummariesSound`). This also makes the overwriting in `summarize()` and the early reads
  in a recursion harmless. It rests on transfer functions that are monotone;
* methods of a recursion that calls nobody outside of it are not reachable from the ghost exit: they are never analysed and count as top;
* `DeterminismAnalysisPass` never sets `m_result`, which `test/unit/DeterminismAnalysisTest.cpp:48-49` gets and dereferences; the
  null-input and parallel-safety passes do set theirs (`NullInputAnalysis.cpp:254`, `ParallelSafetyAnalysis.cpp:392`). This is not modelled;
* a pushed task may lie in its owner's queue while another worker sleeps: `push_task` wakes somebody only if
  `num_running < num_all`, and workers that are scanning in vain count as running. The owner runs and comes back for it
  (`NoStrandedTask`): lost parallelism, no lost task;
* an element of the ordering may be started again before the task that gave the last credit
  returned (a head by its exit): two threads are then in the same loop element's lambda, the first with nothing left to do
  (`Working` in `ParallelFixpoint`);
* a second `run()` on the same iterator starts from counters and iteration counts that are all zero (`AllCountersSpent`).

## 6. Not modelled, and why

* The passes of `opt/` and `service/`, the dex reader and writer, android resources (`libresource` is third-party): most of
  the 230 thousand lines of the repository, and upstream code that the analyses do not run. Each is a long
  sequential transformation of a large input or pure I/O, without a state that several actors share; a model of one would
  restate it. This is why the map covers a small part of the lines.
* The parallel-safety analysis: interprocedurally it is the determinism analysis, which is modelled. Inside a method its state is one value,
  joined with the summaries of what is called and set to not safe by a string constant with `update` in it or by a handler; no text or test
  of the repository says what that promises of an execution.
* In the null-input analysis: the iteration over the call graph. Its edges return bottom and its query of the callees is never called, so
  each method's verdict is its own and the second iteration changes nothing; methods without code.
* In the determinism analysis: exceptions (a handler's `move-exception` leaves its register as it was; the domain that tells
  handlers' blocks is only used with `track_exception`), reading of the label files, reports.
* The WTO iterator (none of the analyses uses it), Patricia trees (sequential data structures; their meaning, environments
  with default top, is what `DeterminismTransfer` and `Interprocedural` use), the construction of the call graph.
* Iteration and size of the concurrent containers: not locked, and used by the modelled code only when no other thread runs.
* `libredex/WorkQueue.h` only wraps the constructor of `SpartaWorkQueue`. The scripts, queries and tables of the study are
  not programs.

## 7. What was planned, and what is left

1. Done: work queue and semaphore with their proofs; the ordering, step by step, with its proofs; both fixpoint iterators, the proofs of the
   parallel one and that it computes what the sequential one does; the global iterations and the registry with their proofs; the transfer functions of the
   determinism analysis with their proofs; the priority thread pool with its proofs, and the DAG scheduler on it with its own; the null-input
   analysis of a method with its proofs; the proof that the work queue implements the task pool.
2. Left to model: handlers of exceptions in the determinism analysis; a method's fixpoint (`DeterminismTransfer`) inside the
   iterations (`Interprocedural`) in one specification, where now `CalleeAssumption` stands for the analysis of the callees;
   the WTO iterator against the WPO one.
3. Left to prove: that the loops end. TLAPS cannot prove the liveness properties, but that each run of the iterator takes a bounded number of turns is an
   invariant that could be stated, with the height of the chain in it. The refinement of a method's fixpoint (point 2) would connect the two halves:
   `AnalysisProofs` with `InterproceduralProofs`.
