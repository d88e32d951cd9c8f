------------------------- MODULE MCParallelFixpoint -------------------------
(***************************************************************************)
(* Programs for the fixpoint iterators: graphs with their ordering, and    *)
(* for each a choice of node transformers.                                 *)
(***************************************************************************)
EXTENDS SequentialFixpoint

W == INSTANCE WeakPartialOrdering

Identity  == [x \in Value |-> x]
Increment == [x \in Value |-> IF x = Bottom \/ x = Top THEN x ELSE x + 1]
Constant  == [x \in Value |-> IF x = Bottom THEN Bottom ELSE 2]

Program(edges, transfer) ==
  [edges |-> edges, root |-> 1, wpo |-> W!Build(edges, 1), transfer |-> transfer]

\* Which nodes the root reaches in a graph over 1 .. 3.
Reach(edges) ==
  LET one == {e[2] : e \in {f \in edges : f[1] = 1}}
  IN  {1} \cup one \cup {e[2] : e \in {f \in edges : f[1] \in one}}

Transformers == {t \in [1 .. 3 -> {Identity, Increment, Constant}] :
                   Cardinality({n \in 1 .. 3 : t[n] # Identity}) = 1}

\* Every graph over three nodes all of which are reachable.
ThreeNodes == {Program(e, t) : e \in {g \in SUBSET ((1 .. 3) \X (1 .. 3)) : Reach(g) = 1 .. 3},
                               t \in Transformers}

Pairs(s) == {<<s[k], s[k + 1]>> : k \in {j \in DOMAIN s : j % 2 = 1}}

\* Two loops beside each other; two that run in parallel inside a third; a
\* loop entered at two nodes inside another; loops nested three deep; a loop
\* entered at two nodes, one of them by two branches.
Shapes == {Pairs(<<1,2, 2,3, 3,2, 1,4, 4,5, 5,4, 3,5>>),
           Pairs(<<1,2, 2,3, 3,3, 2,4, 4,4, 3,5, 4,5, 5,1>>),
           Pairs(<<1,2, 1,4, 2,3, 3,2, 4,3, 3,5, 5,1>>),
           Pairs(<<1,2, 2,3, 3,4, 4,3, 4,2, 2,5, 5,5, 5,1>>),
           Pairs(<<1,2, 1,3, 1,4, 2,5, 3,5, 4,5, 5,2>>)}
Wide == {Program(e, [[n \in 1 .. 5 |-> Identity] EXCEPT ![k] = Increment]) :
           e \in Shapes, k \in {3, 5}}
=============================================================================
