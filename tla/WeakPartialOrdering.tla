------------------------ MODULE WeakPartialOrdering ------------------------
(***************************************************************************)
(* sparta::WeakPartialOrdering (sparta/include/WeakPartialOrdering.h): the *)
(* schedule of a fixpoint computation over a rooted directed graph, and    *)
(* the steps in which WpoBuilder constructs it.  A graph is a set of edges *)
(* between nodes.  As in WpoBuilder a vertex is its depth-first number     *)
(* (dfn) from 1 on.  The exit of the loop with head h is called -h, and    *)
(* the elements of the schedule have indices from 0 on, of which a head's  *)
(* is one more than its exit's.                                            *)
(***************************************************************************)
EXTENDS Integers, Sequences, FiniteSets, Functions

NodesOf(edges, root)  == {root} \cup {e[1] : e \in edges} \cup {e[2] : e \in edges}
Successors(edges, x)  == {e[2] : e \in {f \in edges : f[1] = x}}

-----------------------------------------------------------------------------
(* construct_auxilary: an iterative depth-first search.  Its state:        *)
(*   dfn, ref   m_dfn and its inverse m_ref; 0 if a node is undiscovered   *)
(*   post, last m_post_dfn, 0 if a node is not finished (black), and the   *)
(*              last number given                                          *)
(*   tree       the predecessor through which a vertex was found, or 0     *)
(*   cur, todo  the stack: the vertices whose search is not finished are   *)
(*              cur and those above it in the tree, and between a vertex   *)
(*              and the next the successors it pushed                      *)
(*   ancestor   the least ancestor of a vertex that is not finished: what  *)
(*              ancestor[dsets.find_set(v)] is in the code                 *)
(*   back, cross  m_back_preds as edges; m_cross_fwds with the ancestor    *)
Unsearched(edges, root) ==
  LET zero == [x \in NodesOf(edges, root) |-> 0]
  IN  [dfn |-> zero, post |-> zero, last |-> 0, ref |-> <<>>, tree |-> <<>>, cur |-> 0,
       todo |-> <<>>, ancestor |-> <<>>, back |-> {}, cross |-> {}]

Pop(d, x) == [d EXCEPT !.todo[d.cur] = @ \ {x}]

\* A new vertex.  Its edges to vertices that are not finished are back edges,
\* those to finished ones cross edges.
Discover(edges, d, x) ==
  LET v     == Len(d.ref) + 1
      dfn   == [d.dfn EXCEPT ![x] = v]
      succ  == Successors(edges, x)
      black == {y \in succ : d.post[y] # 0}
  IN  [d EXCEPT !.dfn = dfn, !.ref = Append(@, x), !.tree = Append(@, d.cur), !.cur = v,
                !.todo = Append(@, {y \in succ : dfn[y] = 0}), !.ancestor = Append(@, v),
                !.back = @ \cup {<<v, dfn[y]>> : y \in {z \in succ \ black : dfn[z] # 0}},
                !.cross = @ \cup {<<v, dfn[y], d.ancestor[dfn[y]]>> : y \in black}]

\* A successor pushed before somebody else discovered it: a forward edge.
Skip(d, x) == Pop(d, x)
Visit(edges, d, x) == Discover(edges, Pop(d, x), x)

Finish(d) ==
  LET v == d.cur
  IN  [d EXCEPT !.post[d.ref[v]] = d.last + 1, !.last = @ + 1, !.cur = d.tree[v],
                !.ancestor = [w \in DOMAIN @ |-> IF @[w] = v THEN d.tree[v] ELSE @[w]]]

IsSearched(d) == d.ref # <<>> /\ d.cur = 0

-----------------------------------------------------------------------------
(* construct_wpo.  The state of the loop over the heads:                   *)
(*   head    the vertices above it have been heads                         *)
(*   rep     the least vertex of the component each vertex is merged into  *)
(*   exit    the exit of each component, by its least vertex               *)
(*   size    the number of elements of each component                      *)
(*   origin  the edges that now target a component, with their original    *)
(*           targets; their sources are m_non_back_preds                   *)
(*   space   the elements in the order add_node gives them their index     *)
(*   succ    the scheduling constraints <<from, to>>                       *)
(*   outer   m_for_outer_preds, with from: <<from, to, exit>>              *)
(*   parent  the head of the least component a vertex is inside of         *)
Unmerged(d) ==
  LET V == 1 .. Len(d.ref)
      self == [v \in V |-> v]
  IN  [head |-> Len(d.ref), rep |-> self, exit |-> self, size |-> [v \in V |-> 0], parent |-> self,
       origin |-> [v \in V |-> {<<u, v>> : u \in {d.tree[v]} \ {0}}],
       space |-> <<>>, succ |-> {}, outer |-> {}]

\* add_successor for each of these <<from, to, exit, outer_pred>>.
AddSuccessors(s, constraints) ==
  LET new == {c \in constraints : <<c[1], c[2]>> \notin s.succ}
  IN  [s EXCEPT !.succ = @ \cup {<<c[1], c[2]>> : c \in new},
                !.outer = @ \cup {<<c[1], c[2], c[3]>> : c \in {b \in new : b[4]}}]

\* The constraints of the edges that enter the component of v from elsewhere.
Entering(s, v) ==
  {<<s.exit[s.rep[e[1]]], e[2], s.exit[v], s.exit[v] # v>> : e \in s.origin[v]}

\* Mutant of Restore: cross edges are never restored.
RestoreNothing(s, h, cross) == s

\* Restore the cross edges which have h as the common ancestor.
Restore(s, h, cross) ==
  LET To(r) == {<<c[1], c[2]>> : c \in {e \in cross : e[3] = h /\ s.rep[e[2]] = r}}
  IN  [s EXCEPT !.origin = [r \in DOMAIN @ |-> @[r] \cup To(r)]]

\* Mutant of Nested: only the sources of the back edges are in the loop.
NestedDirectly(s, h, backpreds) == backpreds

\* The components from which those in backpreds can be reached without
\* passing through h: the least set with backpreds that the worklist leaves.
Nested(s, h, backpreds) ==
  LET Closed(S) == backpreds \subseteq S /\ \A v \in S : \A e \in s.origin[v] : s.rep[e[1]] \in S \cup {h}
  IN  {r \in DOMAIN s.rep : \A S \in SUBSET DOMAIN s.rep : Closed(S) => r \in S}

\* Mutant of Closing: only the head is scheduled before the exit.
ClosingFromHead(s, h, backpreds) == {<<h, -h, -h, FALSE>>}

\* What the exit of the loop of h waits for: the sources of its back edges.
Closing(s, h, backpreds) ==
  {<<s.exit[p], -h, -h, FALSE>> : p \in IF backpreds = {} THEN {h} ELSE backpreds}

Component(s0, d) ==
  LET h         == s0.head
      s         == [Restore(s0, h, d.cross) EXCEPT !.head = h - 1]
      preds     == {b[1] : b \in {e \in d.back : e[2] = h}}
      backpreds == {s.rep[v] : v \in preds \ {h}}
      nested    == Nested(s, h, backpreds)
      inside    == Closing(s, h, backpreds) \cup UNION {Entering(s, v) : v \in nested}
  IN  IF preds = {} THEN [s EXCEPT !.space = Append(@, h), !.size[h] = 1]
      ELSE [AddSuccessors(s, inside) EXCEPT
              !.space  = @ \o <<-h, h>>,
              !.size   = [@ EXCEPT ![h] = 2 + SumFunctionOnSet(s.size, nested)],
              !.rep    = [v \in DOMAIN @ |-> IF @[v] \in nested THEN h ELSE @[v]],
              !.parent = [v \in DOMAIN @ |-> IF v \in nested THEN h ELSE @[v]],
              !.exit   = [@ EXCEPT ![h] = -h]]

\* Mutant of TopLevel: forgets the components that are loops.
TopLevelPlain(s) == {v \in DOMAIN s.rep : s.rep[v] = v /\ s.exit[v] = v}

\* The constraints between the maximal components.
TopLevel(s) == {v \in DOMAIN s.rep : s.rep[v] = v}
Connected(s) == AddSuccessors(s, UNION {Entering(s, v) : v \in TopLevel(s)})

-----------------------------------------------------------------------------
(* build: the components a constraint enters, from the least one around    *)
(* its target up to the one its exit closes, count it as coming from       *)
(* outside (m_num_outer_preds).                                            *)

IsHead(s, v) == s.exit[v] # v

\* Mutant of HeadsUpTo: only the innermost component counts the constraint.
InnermostHead(s, h, x) == {h}

\* The heads from h outward to the one with exit x.
HeadsUpTo(s, h, x) ==
  LET Closed(S) == h \in S /\ \A g \in S : s.exit[g] = x \/ s.parent[g] \in S
  IN  {g \in DOMAIN s.exit : \A S \in SUBSET DOMAIN s.exit : Closed(S) => g \in S}

CountedAt(s, o) == HeadsUpTo(s, IF IsHead(s, o[2]) THEN o[2] ELSE s.parent[o[2]], o[3])

Ordering(s, d) ==
  LET I       == 0 .. Len(s.space) - 1
      At(i)   == s.space[i + 1]
      Of(i) == IF At(i) < 0 THEN -At(i) ELSE At(i)
  IN  [size  |-> Len(s.space),
       node  |-> [i \in I |-> d.ref[Of(i)]],
       type  |-> [i \in I |-> IF At(i) < 0 THEN "Exit" ELSE IF IsHead(s, At(i)) THEN "Head" ELSE "Plain"],
       width |-> [i \in I |-> s.size[Of(i)]],
       succs |-> [i \in I |-> {j \in I : <<At(i), At(j)>> \in s.succ}],
       preds |-> [i \in I |-> {j \in I : <<At(j), At(i)>> \in s.succ}],
       outer |-> [x \in {i \in I : At(i) < 0} |->
                    LET from(i) == {o \in s.outer : o[2] = At(i) /\ Of(x) \in CountedAt(s, o)}
                    IN  [i \in {j \in I : from(j) # {}} |-> Cardinality(from(i))]],
       post  |-> [x \in {d.ref[v] : v \in DOMAIN d.ref} |-> d.post[x]]]

\* Mutant of IsFromOutside: takes an edge from the head itself as outside.
IsFromOutsideOrHead(wpo, head, pred) == wpo.post[head] <= wpo.post[pred]

Entry(wpo)         == wpo.size - 1
HeadOfExit(wpo, x) == x + 1
IsFromOutside(wpo, head, pred) == wpo.post[head] < wpo.post[pred]

-----------------------------------------------------------------------------
(* All the steps, for numbered nodes and successors in increasing order.   *)
LeastOf(S) == CHOOSE m \in S : \A n \in S : m <= n

SearchStep(edges, root, d) ==
  IF d.ref = <<>> THEN Discover(edges, d, root)
  ELSE IF d.cur = 0 THEN d
  ELSE IF d.todo[d.cur] = {} THEN Finish(d)
  ELSE LET x == LeastOf(d.todo[d.cur])
       IN  IF d.dfn[x] = 0 THEN Visit(edges, d, x) ELSE Skip(d, x)

Build(edges, root) ==
  LET n == Cardinality(edges) + 2 * Cardinality(NodesOf(edges, root))
      search[i \in 0 .. n] ==
        IF i = 0 THEN Unsearched(edges, root) ELSE SearchStep(edges, root, search[i - 1])
      d == search[n]
      merge[h \in 1 .. Len(d.ref) + 1] ==
        IF h > Len(d.ref) THEN Unmerged(d) ELSE Component(merge[h + 1], d)
  IN  Ordering(Connected(merge[1]), d)
=============================================================================
