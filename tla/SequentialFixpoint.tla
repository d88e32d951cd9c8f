------------------------- MODULE SequentialFixpoint -------------------------
(***************************************************************************)
(* sparta::MonotonicFixpointIterator::run (sparta/include/                 *)
(* MonotonicFixpointIterator.h): the fixpoint algorithm over a weak        *)
(* partial ordering with a queue in place of the pool, as a function from  *)
(* a program and an initial value to the states it leaves.                 *)
(***************************************************************************)
EXTENDS ParallelFixpoint, Sequences

\* The tables, the counters and work_queue.
SeqState(p) ==
  [entry    : [DOMAIN p.transfer -> Value],
   exit     : [DOMAIN p.transfer -> Value],
   iterated : [DOMAIN p.transfer -> BOOLEAN],
   counter  : [Indices(p) -> Nat],
   queue    : Seq(Indices(p))]

\* process_node adds by[j] to the counter of each j, in some order, and
\* queues those whose counter is full, here in increasing order.
InOrder(S) ==
  CHOOSE q \in [1 .. Cardinality(S) -> S] : \A a, b \in DOMAIN q : a < b => q[a] < q[b]
AddCredits(p, s, by) ==
  LET count == [i \in Indices(p) |-> s.counter[i] + IF i \in DOMAIN by THEN by[i] ELSE 0]
      full  == {j \in DOMAIN by : count[j] = Cardinality(p.wpo.preds[j])}
  IN  [s EXCEPT !.counter = count, !.queue = @ \o InOrder(full)]

\* work_queue.front() is taken out and its counter goes to zero.
TakeNext(s) == [s EXCEPT !.queue = Tail(@), !.counter[Head(s.queue)] = 0]

SeqIncoming(p, v, s, n) ==
  Greatest({Bottom} \cup (IF n = p.root THEN {v} ELSE {})
                    \cup {s.exit[e[1]] : e \in {f \in p.edges : f[2] = n}})

CreditSuccessors(p, s, i) == AddCredits(p, s, [j \in p.wpo.succs[i] |-> 1])

\* A node: analyze_vertex.
SeqAnalyze(p, s, i, n, in) ==
  LET state == Join(s.entry[n], in)
  IN  CreditSuccessors(p, [s EXCEPT !.entry[n] = state, !.exit[n] = p.transfer[n][state]], i)

\* An exit: the loop has stabilised, or goes round again.  The entry has no
\* predecessor to be credited with and is queued by hand.
SeqStabilize(p, s, i, n, in) ==
  CreditSuccessors(p, [s EXCEPT !.entry[n] = in, !.iterated[n] = FALSE], i)
SeqIterate(p, s, i, n, in) ==
  LET state == IF s.iterated[n] THEN Widen(s.entry[n], in) ELSE Join(s.entry[n], in)
      t == AddCredits(p, [s EXCEPT !.entry[n] = state, !.iterated[n] = TRUE], p.wpo.outer[i])
  IN  IF i + 1 = p.wpo.size - 1 THEN [t EXCEPT !.queue = Append(@, i + 1)] ELSE t

ProcessNode(p, v, s) ==
  LET i  == Head(s.queue)
      t  == TakeNext(s)
      n  == p.wpo.node[i]
      in == SeqIncoming(p, v, t, n)
  IN  IF i \notin Exits(p) THEN SeqAnalyze(p, t, i, n, in)
      ELSE IF in <= t.entry[n] THEN SeqStabilize(p, t, i, n, in)
      ELSE SeqIterate(p, t, i, n, in)

\* While there is an element in work_queue it is processed.
Drain(p, v) ==
  LET drain[s \in SeqState(p)] == IF s.queue = <<>> THEN s ELSE drain[ProcessNode(p, v, s)]
  IN  drain

SeqStart(p) ==
  [entry    |-> [n \in DOMAIN p.transfer |-> Bottom],
   exit     |-> [n \in DOMAIN p.transfer |-> Bottom],
   iterated |-> [n \in DOMAIN p.transfer |-> FALSE],
   counter  |-> [i \in Indices(p) |-> 0],
   queue    |-> <<p.wpo.size - 1>>]

SequentialRun(p, v) == Drain(p, v)[SeqStart(p)]

-----------------------------------------------------------------------------
\* Whatever the interleaving, the parallel iterator leaves the states the
\* sequential one does: the algorithm is deterministic.
ResultIsSequential ==
  Idle /\ runs > 0 => LET s == SequentialRun(prog, init) IN entry = s.entry /\ exit = s.exit

=============================================================================
