-------------------------- MODULE ParallelFixpoint --------------------------
(***************************************************************************)
(* sparta::ParallelMonotonicFixpointIterator (sparta/include/              *)
(* MonotonicFixpointIterator.h): the nodes of a graph analysed by a pool   *)
(* of threads, scheduled by a weak partial ordering.  A task of the pool   *)
(* is an element of the ordering; it is pushed when its counter of         *)
(* finished predecessors is full, and an exit whose loop has not           *)
(* stabilised hands its elements the credit that starts them again.        *)
(*                                                                         *)
(* The pool is what TaskPool specifies and WorkQueue implements: any       *)
(* waiting task may be begun by any free thread.  The entry and exit       *)
(* states and the iteration counts are unprotected: a task's accesses to   *)
(* them are one step here, which is sound because of NoDataRace.  Abstract *)
(* values are a chain 0 .. Top with 0 as bottom, join as maximum and a     *)
(* widening that goes to Top.                                              *)
(***************************************************************************)
EXTENDS FixpointSchedule

CONSTANTS
  Programs,    \* records [edges, root, wpo, transfer]: what may be analysed
  Inits,       \* initial values run() may be called with
  Top,         \* the greatest abstract value
  NumThreads,  \* m_num_thread
  MaxRuns      \* bound on the number of calls of run()

ASSUME ThreadsAssumption == NumThreads \in Nat \ {0} /\ MaxRuns \in Nat
ASSUME ValuesAssumption == Top \in Nat \ {0} /\ Inits \subseteq 0 .. Top

Value  == 0 .. Top
Bottom == 0
Thread == 1 .. NumThreads

\* What the iterator relies on: the ordering fits the graph, as those that are
\* constructed do (WpoProofs), and node transformers are monotone.
WellFormed(p) ==
  LET N == DOMAIN p.transfer
  IN  /\ IsScheduled(p, N)
      /\ \A n \in N : /\ p.transfer[n] \in [Value -> Value]
                      /\ \A a, b \in Value : a <= b => p.transfer[n][a] <= p.transfer[n][b]

ASSUME ProgramsAssumption == \A p \in Programs : WellFormed(p)

VARIABLES
  prog,      \* the program: its graph, ordering and node transformers
  init,      \* the initial value of this call of run()
  runs,      \* how often run() was called
  entry,     \* m_entry_states
  exit,      \* m_exit_states
  iterated,  \* is the local iteration count of a node above zero?
  counter,   \* wpo_counter
  waiting,   \* how often each element is in the pool and not begun
  elem,      \* the element each thread works on
  pc,        \* where each thread is in its task
  todo       \* the counters it still has to increase: <<element, by>>

states == <<entry, exit, iterated>>
fixed  == <<prog, init, runs>>
vars   == <<prog, init, runs, entry, exit, iterated, counter, waiting, elem, pc, todo>>

-----------------------------------------------------------------------------
Wpo         == prog.wpo
Idx         == 0 .. Wpo.size - 1
Node        == DOMAIN prog.transfer
EntryIdx    == Wpo.size - 1
NumPreds(i) == Cardinality(Wpo.preds[i])
IsExit(i)   == Wpo.type[i] = "Exit"
HeadIdx(i)  == IF IsExit(i) THEN i + 1 ELSE i
NodeOf(i)   == Wpo.node[HeadIdx(i)]
Preds(n)    == {e[1] : e \in {f \in prog.edges : f[2] = n}}

Greatest(S) == CHOOSE m \in S : \A x \in S : x <= m
Join(a, b)  == IF a <= b THEN b ELSE a
Widen(a, b) == IF b <= a THEN a ELSE Top

\* compute_entry_state into a state that is bottom.
Incoming(n) ==
  Greatest({Bottom} \cup (IF n = prog.root THEN {init} ELSE {})
                    \cup {exit[m] : m \in Preds(n)})

\* Mutant of Extrapolate: the test of the iteration count inverted.
ExtrapolateEagerly(n, new) ==
  IF iterated[n] THEN Join(entry[n], new) ELSE Widen(entry[n], new)

\* extrapolate: join the first time a loop is iterated, then widen.
Extrapolate(n, new) ==
  IF iterated[n] THEN Widen(entry[n], new) ELSE Join(entry[n], new)

Init ==
  /\ prog \in Programs
  /\ init = Bottom
  /\ runs = 0
  /\ entry = [n \in Node |-> Bottom]
  /\ exit = [n \in Node |-> Bottom]
  /\ iterated = [n \in Node |-> FALSE]
  /\ counter = [i \in Idx |-> 0]
  /\ waiting = [i \in Idx |-> 0]
  /\ elem = [w \in Thread |-> EntryIdx]
  /\ pc = [w \in Thread |-> "joined"]
  /\ todo = [w \in Thread |-> {}]

Idle == \A w \in Thread : pc[w] = "joined"

-----------------------------------------------------------------------------
\* run(init) up to the start of the threads: all states bottom, a new
\* context, all counters zero, the entry in the pool.
Run(v) ==
  /\ Idle
  /\ runs < MaxRuns
  /\ runs' = runs + 1
  /\ init' = v
  /\ entry' = [n \in Node |-> Bottom]
  /\ exit' = [n \in Node |-> Bottom]
  /\ iterated' = [n \in Node |-> FALSE]
  /\ counter' = [i \in Idx |-> 0]
  /\ waiting' = [waiting EXCEPT ![EntryIdx] = @ + 1]
  /\ pc' = [w \in Thread |-> "free"]
  /\ UNCHANGED <<prog, elem, todo>>

\* The pool gives a task to a thread.
Begin(w, i) ==
  /\ pc[w] = "free"
  /\ waiting[i] > 0
  /\ waiting' = [waiting EXCEPT ![i] = @ - 1]
  /\ elem' = [elem EXCEPT ![w] = i]
  /\ pc' = [pc EXCEPT ![w] = "reset"]
  /\ UNCHANGED <<fixed, states, counter, todo>>

\* The element's own counter goes to zero before any other is touched.
ResetCounter(w) ==
  /\ pc[w] = "reset"
  /\ counter' = [counter EXCEPT ![elem[w]] = 0]
  /\ pc' = [pc EXCEPT ![w] = "data"]
  /\ UNCHANGED <<fixed, states, waiting, elem, todo>>

\* What the thread tells others of after its access to the states.
Announce(w, credits) ==
  /\ todo' = [todo EXCEPT ![w] = credits]
  /\ pc' = [pc EXCEPT ![w] = "notify"]

ToSuccessors(i) == {<<j, 1>> : j \in Wpo.succs[i]}
ToLoop(i)       == {<<j, Wpo.outer[i][j]>> : j \in DOMAIN Wpo.outer[i]}

\* Mutant of AnalyzeVertex: the exit state from the entry state of before.
AnalyzeVertexLate(w) ==
  LET n == NodeOf(elem[w]) IN
  /\ pc[w] = "data"
  /\ ~IsExit(elem[w])
  /\ entry' = [entry EXCEPT ![n] = Join(@, Incoming(n))]
  /\ exit' = [exit EXCEPT ![n] = prog.transfer[n][entry[n]]]
  /\ Announce(w, ToSuccessors(elem[w]))
  /\ UNCHANGED <<fixed, iterated, counter, waiting, elem>>

\* A node: analyze_vertex.
AnalyzeVertex(w) ==
  LET n == NodeOf(elem[w]) IN
  /\ pc[w] = "data"
  /\ ~IsExit(elem[w])
  /\ entry' = [entry EXCEPT ![n] = Join(@, Incoming(n))]
  /\ exit' = [exit EXCEPT ![n] = prog.transfer[n][entry'[n]]]
  /\ Announce(w, ToSuccessors(elem[w]))
  /\ UNCHANGED <<fixed, iterated, counter, waiting, elem>>

\* Mutant of Subsumed: a strict comparison.
SubsumedStrictly(h) == Incoming(h) < entry[h]

\* new_state.leq(*current_state) at a head.
Subsumed(h) == Incoming(h) <= entry[h]

\* Mutant of Stabilize: the iteration count is kept.
StabilizeKeeping(w) ==
  LET h == NodeOf(elem[w]) IN
  /\ pc[w] = "data"
  /\ IsExit(elem[w])
  /\ Subsumed(h)
  /\ entry' = [entry EXCEPT ![h] = Incoming(h)]
  /\ Announce(w, ToSuccessors(elem[w]))
  /\ UNCHANGED <<fixed, exit, iterated, counter, waiting, elem>>

\* An exit whose head would get nothing new: the loop has stabilised.
Stabilize(w) ==
  LET h == NodeOf(elem[w]) IN
  /\ pc[w] = "data"
  /\ IsExit(elem[w])
  /\ Subsumed(h)
  /\ entry' = [entry EXCEPT ![h] = Incoming(h)]
  /\ iterated' = [iterated EXCEPT ![h] = FALSE]
  /\ Announce(w, ToSuccessors(elem[w]))
  /\ UNCHANGED <<fixed, exit, counter, waiting, elem>>

\* An exit whose head would get something new: the loop goes round again.
Iterate(w) ==
  LET h == NodeOf(elem[w]) IN
  /\ pc[w] = "data"
  /\ IsExit(elem[w])
  /\ ~Subsumed(h)
  /\ entry' = [entry EXCEPT ![h] = Extrapolate(h, Incoming(h))]
  /\ iterated' = [iterated EXCEPT ![h] = TRUE]
  /\ todo' = [todo EXCEPT ![w] = ToLoop(elem[w])]
  /\ pc' = [pc EXCEPT ![w] = "loop"]
  /\ UNCHANGED <<fixed, exit, counter, waiting, elem>>

\* Mutants of Credit: the first credit starts the element, the last but one
\* does, and a loop's elements have their counters set, not added to.
CreditAt(w, c, full) ==
  /\ counter' = [counter EXCEPT ![c[1]] = @ + c[2]]
  /\ waiting' = IF counter'[c[1]] = full
                THEN [waiting EXCEPT ![c[1]] = @ + 1] ELSE waiting
  /\ todo' = [todo EXCEPT ![w] = @ \ {c}]
CreditFirst(w, c) == CreditAt(w, c, 1)
CreditEarly(w, c) == CreditAt(w, c, NumPreds(c[1]) - 1)
CreditSetting(w, c) ==
  /\ counter' = [counter EXCEPT ![c[1]] = IF pc[w] = "loop" THEN c[2] ELSE @ + c[2]]
  /\ waiting' = IF counter'[c[1]] = NumPreds(c[1])
                THEN [waiting EXCEPT ![c[1]] = @ + 1] ELSE waiting
  /\ todo' = [todo EXCEPT ![w] = @ \ {c}]

\* Add to one counter; who fills it pushes its element.  A node's successors
\* are a std::set and come in order, the elements of a loop in any order.
Credit(w, c) ==
  /\ counter' = [counter EXCEPT ![c[1]] = @ + c[2]]
  /\ waiting' = IF counter'[c[1]] = NumPreds(c[1])
                THEN [waiting EXCEPT ![c[1]] = @ + 1] ELSE waiting
  /\ todo' = [todo EXCEPT ![w] = @ \ {c}]

Notify(w) ==
  /\ pc[w] \in {"notify", "loop"}
  /\ \E c \in todo[w] :
       /\ pc[w] = "notify" => \A d \in todo[w] : c[1] <= d[1]
       /\ Credit(w, c)
  /\ UNCHANGED <<fixed, states, elem, pc>>

\* Mutant of Return: every head is pushed by hand.
ReturnPushing(w) ==
  /\ pc[w] \in {"notify", "loop"}
  /\ todo[w] = {}
  /\ waiting' = IF pc[w] = "loop"
                THEN [waiting EXCEPT ![HeadIdx(elem[w])] = @ + 1] ELSE waiting
  /\ pc' = [pc EXCEPT ![w] = "free"]
  /\ UNCHANGED <<fixed, states, counter, elem, todo>>

\* The task returns.  The entry has no predecessor to be credited with: when
\* it heads the loop it is pushed by hand.
Return(w) ==
  /\ pc[w] \in {"notify", "loop"}
  /\ todo[w] = {}
  /\ waiting' = IF pc[w] = "loop" /\ HeadIdx(elem[w]) = EntryIdx
                THEN [waiting EXCEPT ![EntryIdx] = @ + 1] ELSE waiting
  /\ pc' = [pc EXCEPT ![w] = "free"]
  /\ UNCHANGED <<fixed, states, counter, elem, todo>>

\* The pool is drained: run_all() joins the threads and run() returns.
Drained == /\ \A w \in Thread : pc[w] = "free"
           /\ \A i \in Idx : waiting[i] = 0
RunEnds ==
  /\ Drained
  /\ pc' = [w \in Thread |-> "joined"]
  /\ UNCHANGED <<fixed, states, counter, waiting, elem, todo>>

-----------------------------------------------------------------------------
Step(w) == \/ \E i \in Idx : Begin(w, i)
           \/ ResetCounter(w) \/ AnalyzeVertex(w) \/ Stabilize(w) \/ Iterate(w)
           \/ Notify(w) \/ Return(w)

Next == \/ \E v \in Inits : Run(v)
        \/ RunEnds
        \/ \E w \in Thread : Step(w)

Spec == Init /\ [][Next]_vars

\* Threads that have something to do do it, and the pool gives its tasks out.
FairSpec == /\ Spec
            /\ WF_vars(RunEnds)
            /\ WF_vars(\E w \in Thread : Step(w))

-----------------------------------------------------------------------------
\* Types; wpo_counter is an array of uint32_t that must not go below zero.
TypeOK ==
  /\ init \in Value
  /\ runs \in 0 .. MaxRuns
  /\ entry \in [Node -> Value]
  /\ exit \in [Node -> Value]
  /\ iterated \in [Node -> BOOLEAN]
  /\ counter \in [Idx -> Nat]
  /\ waiting \in [Idx -> Nat]
  /\ elem \in [Thread -> Idx]
  /\ pc \in [Thread -> {"joined", "free", "reset", "data", "notify", "loop"}]
  /\ todo \in [Thread -> SUBSET (Idx \X Nat)]

\* Is there something left to do for the task a thread works on?  A task that
\* has given its last credit is as good as over: its element may be started
\* again before the task has returned.
Working(w) == \/ pc[w] \in {"reset", "data"}
              \/ todo[w] # {}
              \/ pc[w] = "loop" /\ HeadIdx(elem[w]) = EntryIdx

\* An element is in the pool or being worked on at most once: no schedule,
\* and no credit given point by point while others run, starts it twice.
NeverScheduledTwice ==
  \A i \in Idx : waiting[i] + Cardinality({w \in Thread : Working(w) /\ elem[w] = i}) <= 1

\* No counter wraps, which is the part of TypeOK that matters, and a task that
\* begins finds its counter full: the assert at MonotonicFixpointIterator.h:416.
CounterFullAtStart ==
  /\ TypeOK
  /\ \A w \in Thread : pc[w] = "reset" => counter[elem[w]] = NumPreds(elem[w])

Reads(i)  == {<<"exit", m>> : m \in Preds(NodeOf(i))} \cup {<<"entry", NodeOf(i)>>}
Writes(i) == {<<"entry", NodeOf(i)>>}
             \cup IF IsExit(i) THEN {<<"iterated", NodeOf(i)>>} ELSE {<<"exit", NodeOf(i)>>}

\* No thread writes a state or a count that another one accesses: the tables
\* need no lock.
NoDataRace ==
  \A w, v \in Thread :
    w # v /\ pc[w] = "data" /\ pc[v] = "data" =>
      Writes(elem[w]) \cap (Reads(elem[v]) \cup Writes(elem[v])) = {}

\* run() leaves every counter at zero (the assert at
\* MonotonicFixpointIterator.h:494-496) and no iteration count behind.
AllCountersSpent ==
  Idle => \A i \in Idx : counter[i] = 0 /\ waiting[i] = 0 /\ ~iterated[NodeOf(i)]

\* What run() leaves is an invariant of the program: the state at a node's
\* entry covers the initial value and the exits of its predecessors, and the
\* state at its exit covers what the node makes of the state at its entry.
ResultIsPostFixpoint ==
  Idle /\ runs > 0 =>
    \A i \in Idx : LET n == NodeOf(i) IN
      /\ Incoming(n) <= entry[n]
      /\ prog.transfer[n][entry[n]] <= exit[n]

\* Every call of run() returns.
RunReturns == ~Idle ~> Idle
=============================================================================
