--------------------------- MODULE WpoConstruction ---------------------------
(***************************************************************************)
(* The construction of a weak partial ordering step by step, for every     *)
(* graph over Node and every order of the successors of a node, against    *)
(* what the fixpoint iterators need of the result.  A loop is defined here *)
(* from the graph and the numbers of the search alone: the loop of a node  *)
(* x is the strongly connected part around x of what has no lesser number. *)
(***************************************************************************)
EXTENDS WeakPartialOrdering

CONSTANTS Node,    \* a set of nodes
          Graphs,  \* sets of edges between them
          Root     \* GraphInterface::entry

ASSUME GraphsAssumption == Root \in Node /\ Graphs \subseteq SUBSET (Node \X Node)

VARIABLES stage,   \* "search", "merge" or "built"
          edges,   \* the graph
          search,  \* the state of construct_auxilary
          merge,   \* the state of construct_wpo
          wpo,     \* the ordering
          loops    \* the loop of each node, for the properties

vars == <<stage, edges, search, merge, wpo, loops>>

Init == /\ stage = "search" /\ edges \in Graphs
        /\ search = Unsearched(edges, Root) /\ merge = Unmerged(search)
        /\ wpo = [size |-> 0] /\ loops = <<>>

-----------------------------------------------------------------------------
(* What is reachable from S in a part of the graph.                        *)
ReachableIn(rel, S) ==
  {y \in Node : \A T \in SUBSET Node :
     S \subseteq T /\ (\A e \in rel : e[1] \in T => e[2] \in T) => y \in T}

Reached == ReachableIn(edges, {Root})
Within(S) == {e \in edges : e[1] \in S /\ e[2] \in S}

\* Empty unless x heads a loop.
LoopOf(x) ==
  LET rel == Within({y \in Reached : search.dfn[y] >= search.dfn[x]})
  IN  {y \in ReachableIn(rel, Successors(rel, x)) : x \in ReachableIn(rel, {y})}

-----------------------------------------------------------------------------
(* The iterations of the two loops of the constructor, and what is around  *)
(* them.                                                                   *)
StartSearch == /\ stage = "search" /\ search.ref = <<>>
               /\ search' = Discover(edges, search, Root)
               /\ UNCHANGED <<stage, edges, merge, wpo, loops>>

VisitSuccessor == /\ stage = "search" /\ search.cur # 0
                  /\ \E x \in search.todo[search.cur] :
                       search' = IF search.dfn[x] = 0 THEN Visit(edges, search, x) ELSE Skip(search, x)
                  /\ UNCHANGED <<stage, edges, merge, wpo, loops>>

FinishVertex == /\ stage = "search" /\ search.cur # 0 /\ search.todo[search.cur] = {}
                /\ search' = Finish(search)
                /\ UNCHANGED <<stage, edges, merge, wpo, loops>>

StartMerge == /\ stage = "search" /\ IsSearched(search)
              /\ stage' = "merge" /\ merge' = Unmerged(search)
              /\ UNCHANGED <<edges, search, wpo, loops>>

MergeAtHead == /\ stage = "merge" /\ merge.head > 0
               /\ merge' = Component(merge, search)
               /\ UNCHANGED <<stage, edges, search, wpo, loops>>

MakeWpo == /\ stage = "merge" /\ merge.head = 0
           /\ stage' = "built" /\ merge' = Connected(merge)
           /\ wpo' = Ordering(merge', search)
           /\ loops' = [x \in Reached |-> LoopOf(x)]
           /\ UNCHANGED <<edges, search>>

Next == \/ StartSearch \/ VisitSuccessor \/ FinishVertex
        \/ StartMerge \/ MergeAtHead \/ MakeWpo
Spec == Init /\ [][Next]_vars

-----------------------------------------------------------------------------
Idx == 0 .. wpo.size - 1
Exits == {i \in Idx : wpo.type[i] = "Exit"}
IndexOf(x) == CHOOSE i \in Idx : wpo.node[i] = x /\ wpo.type[i] # "Exit"
ElementsOf(x) == {i \in Idx : wpo.node[i] \in loops[wpo.node[x]]}
Built == stage = "built"

\* The sets of elements that have all they wait for in them; i comes before k
\* if it is in each of them that k is in.
Prefixes == {S \in SUBSET Idx : \A i \in S : wpo.preds[i] \subseteq S}
IsBefore(prefixes, i, k) == \A S \in prefixes : k \in S => i \in S

\* Every reachable node is one element, a head and the exit right below it
\* when it has a loop, and the widths count the elements of the loops.
ElementsMatchLoops ==
  Built =>
    /\ {wpo.node[i] : i \in Idx} = Reached
    /\ wpo.size = Cardinality(Reached) + Cardinality({x \in Reached : loops[x] # {}})
    /\ \A i \in Idx :
         LET x == wpo.node[i] IN
         IF loops[x] = {} THEN wpo.type[i] = "Plain" /\ wpo.width[i] = 1
         ELSE /\ wpo.type[i] \in {"Head", "Exit"}
              /\ wpo.width[i] = Cardinality(ElementsOf(i))
              /\ wpo.type[i] = "Exit" => /\ wpo.node[HeadOfExit(wpo, i)] = x
                                         /\ wpo.type[HeadOfExit(wpo, i)] = "Head"

\* Nothing is scheduled before what it depends on: an edge u -> v is a back
\* edge into the loop of v, or v comes after u or, where u is in loops that v
\* is not in, after the exit of the greatest of them.
EdgesAreScheduled ==
  Built =>
    LET prefixes == Prefixes IN
    \A e \in Within(Reached) :
      LET u == e[1]
          v == e[2]
          left == {x \in Reached : u \in loops[x] /\ v \notin loops[x]}
          from == IF left = {} THEN IndexOf(u)
                  ELSE IndexOf(CHOOSE x \in left : left \subseteq loops[x]) - 1
      IN  u \in loops[v] \/ (from # IndexOf(v) /\ IsBefore(prefixes, from, IndexOf(v)))

\* The schedule starts at the entry and nowhere else, and it never goes round:
\* whatever is left to be done, some of it waits for nothing else that is left.
ScheduleIsRootedOrder ==
  Built =>
    /\ wpo.node[Entry(wpo)] = Root
    /\ \A i \in Idx : wpo.preds[i] = {} <=> i = Entry(wpo)
    /\ \A S \in SUBSET Idx : S # {} => \E i \in S : wpo.preds[i] \cap S = {}

\* When the loop of an exit is to be iterated again, each of its elements is
\* credited with exactly the predecessors that will not run again.
OuterCountsExact ==
  Built =>
    \A x \in Exits : \A i \in Idx :
      LET C == ElementsOf(x)
          credit == IF i \in DOMAIN wpo.outer[x] THEN wpo.outer[x][i] ELSE 0
      IN  credit = IF i \in C THEN Cardinality(wpo.preds[i] \ C) ELSE 0

\* An iteration of a loop starts at its head alone, all of it comes before its
\* exit, and nothing outside waits for anything of it but the exit.
LoopRunsFromHeadToExit ==
  Built =>
    LET prefixes == Prefixes IN
    \A x \in Exits :
      LET C == ElementsOf(x)
      IN  /\ {i \in C : wpo.preds[i] \cap C = {}} = {HeadOfExit(wpo, x)}
          /\ \A i \in C : IsBefore(prefixes, i, x)
          /\ \A i \in Idx \ C : wpo.preds[i] \cap C \subseteq {x}

\* is_from_outside tells the edges that enter a loop at its head from the
\* edges that close it.
OutsideExact ==
  Built =>
    \A e \in Within(Reached) :
      loops[e[2]] # {} => (IsFromOutside(wpo, e[2], e[1]) <=> e[1] \notin loops[e[2]])
=============================================================================
