-------------------------- MODULE FixpointSchedule --------------------------
(***************************************************************************)
(* What the parallel fixpoint iterator relies on in the ordering p.wpo of  *)
(* a graph p.edges over the nodes N: each node has one element that is not *)
(* an exit, an edge leads forward or back to the head of a loop, the       *)
(* schedule has no cycle and starts at the entry alone, and a loop runs    *)
(* from its head to its exit, which alone lets anything out of it and      *)
(* knows what its elements get from outside.                               *)
(*                                                                         *)
(* In WpoConstruction loops are those of the graph.  Here they are read    *)
(* off the ordering: Before(p, i, k) if i must be finished when k starts,  *)
(* and the loop of an exit is all between its head and the exit.           *)
(***************************************************************************)
EXTENDS Integers, FiniteSets

Indices(p)       == 0 .. p.wpo.size - 1
Exits(p)         == {i \in Indices(p) : p.wpo.type[i] = "Exit"}
Vertices(p)      == Indices(p) \ Exits(p)
PredClosed(p, D) == \A i \in D : p.wpo.preds[i] \subseteq D
Before(p, i, k) ==
  \A D \in SUBSET Indices(p) : k \in D /\ PredClosed(p, D) => i \in D
LoopOf(p, x) == {i \in Indices(p) : Before(p, x + 1, i) /\ Before(p, i, x)}

IsScheduled(p, N) ==
  LET idx  == Indices(p)
      pred == p.wpo.preds
  IN  /\ p.wpo.size \in Nat \ {0}
      /\ \A i \in idx : /\ pred[i] \subseteq idx
                        /\ p.wpo.succs[i] = {j \in idx : i \in pred[j]}
                        /\ pred[i] = {} <=> i = p.wpo.size - 1
      /\ \A S \in SUBSET idx : S # {} => \E i \in S : pred[i] \cap S = {}
      /\ \A x \in Exits(p) :
           LET loop == LoopOf(p, x)
           IN  /\ x + 1 \in Vertices(p) /\ Before(p, x + 1, x)
               /\ p.wpo.node[x] = p.wpo.node[x + 1]
               /\ \A i \in idx \ loop : pred[i] \cap loop \subseteq {x}
               /\ p.wpo.outer[x] = [i \in {j \in loop : pred[j] \ loop # {}}
                                      |-> Cardinality(pred[i] \ loop)]
      /\ \A i \in Vertices(p) : p.wpo.node[i] \in N
      /\ \A i, k \in Vertices(p) :
           /\ p.wpo.node[i] = p.wpo.node[k] => i = k
           /\ <<p.wpo.node[i], p.wpo.node[k]>> \in p.edges =>
                \/ i # k /\ Before(p, i, k)
                \/ k - 1 \in Exits(p) /\ i \in LoopOf(p, k - 1)
      /\ p.edges \subseteq N \X N
=============================================================================
