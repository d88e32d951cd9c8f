----------------------------- MODULE WpoProofs -----------------------------
(***************************************************************************)
(* The construction of a weak partial ordering, for every graph and every  *)
(* order of the successors of its nodes.                                   *)
(*                                                                         *)
(* The search is correct at each step, and leaves a tree t and the edges E *)
(* between its vertices.  All that follows is about these: the loops and   *)
(* how they nest, the components while the heads are processed, and the    *)
(* constraints.  From where an edge comes the constraint of it comes: its  *)
(* source, or the exit of the outermost loop that the edge leaves.  At the *)
(* end the ordering is shown to be one that FixpointSchedule describes.    *)
(***************************************************************************)
EXTENDS WpoConstruction, FiniteSetTheorems, TLAPS

-----------------------------------------------------------------------------
(***************************************************************************)
(* The least and the greatest of some numbers.                             *)
(***************************************************************************)
\* A finite set has a member with the least value.
LEMMA LeastValue ==
  ASSUME NEW S, IsFiniteSet(S), S # {}, NEW f, \A s \in S : f[s] \in Int
  PROVE  \E s \in S : \A x \in S : f[s] <= f[x]
<1> DEFINE Below(s) == {x \in S : f[x] < f[s]}
           R == StrictSubsetOrdering(S)
           T == {Below(s) : s \in S}
<1>1. FiniteSubsetsOf(S) = SUBSET S
  BY FS_FiniteSubsetsOfFinite
<1>2. IsWellFoundedOn(R, SUBSET S)
  BY <1>1, FS_StrictSubsetOrderingWellFounded
<1>3. T \subseteq SUBSET S /\ T # {}
  OBVIOUS
<1>4. \E U \in T : \A V \in T : <<V, U>> \notin R
  <2> HIDE DEF T, R
  <2> QED
    BY <1>2, <1>3, WFMin
<1>5. PICK s \in S : \A V \in T : <<V, Below(s)>> \notin R
  BY <1>4
<1>6. ASSUME NEW x \in S, ~(f[s] <= f[x])  PROVE FALSE
  <2>1. f[x] < f[s]
    BY <1>6
  <2>2. x \in Below(s) /\ x \notin Below(x)
    BY <2>1
  <2>3. ASSUME NEW y \in Below(x)  PROVE y \in Below(s)
    <3>1. y \in S /\ f[y] < f[x]
      OBVIOUS
    <3>2. f[y] \in Int /\ f[x] \in Int /\ f[s] \in Int
      BY <3>1
    <3>3. f[y] < f[s]
      BY <2>1, <3>1, <3>2
    <3> QED
      BY <3>1, <3>3
  <2>4. <<Below(x), Below(s)>> \in R
    <3>1. Below(x) \in SUBSET S /\ Below(s) \in SUBSET S
      OBVIOUS
    <3>2. Below(x) \subseteq Below(s) /\ Below(x) # Below(s)
      BY <2>2, <2>3
    <3> HIDE DEF Below
    <3> QED
      BY <3>1, <3>2 DEF StrictSubsetOrdering
  <2> QED
    BY <1>5, <2>4
<1> QED
  BY <1>6

\* And one with the greatest value.
LEMMA GreatestValue ==
  ASSUME NEW S, IsFiniteSet(S), S # {}, NEW f, \A s \in S : f[s] \in Int
  PROVE  \E s \in S : \A x \in S : f[x] <= f[s]
<1> DEFINE g == [s \in S |-> 0 - f[s]]
<1>1. \A s \in S : g[s] = 0 - f[s] /\ g[s] \in Int
  OBVIOUS
<1> HIDE DEF g
<1>2. PICK s \in S : \A x \in S : g[s] <= g[x]
  BY <1>1, LeastValue
<1>3. \A x \in S : f[x] <= f[s]
  BY <1>1, <1>2
<1> QED
  BY <1>3

\* Of some naturals one is the least, and of bounded ones one the greatest.
LEMMA LeastNat ==
  ASSUME NEW S, S \subseteq Nat, S # {}
  PROVE  \E m \in S : \A k \in S : m <= k
<1>1. PICK x \in S : TRUE
  OBVIOUS
<1> DEFINE L == {k \in S : k <= x}
           f == [k \in L |-> k]
<1>2. IsFiniteSet(L)
  <2>1. x \in Nat /\ x \in Int /\ 0 \in Int
    OBVIOUS
  <2>2. L \subseteq 0 .. x
    <3>1. ASSUME NEW k \in L  PROVE k \in 0 .. x
      <4>1. k \in Nat /\ k <= x
        OBVIOUS
      <4> QED
        BY <2>1, <4>1
    <3> QED
      BY <3>1
  <2>3. IsFiniteSet(0 .. x)
    BY <2>1, FS_Interval, Zenon
  <2> QED
    BY <2>3, <2>2, FS_Subset, Zenon
<1>3. L # {} /\ \A k \in L : f[k] = k /\ f[k] \in Int
  OBVIOUS
<1> HIDE DEF f
<1>4. PICK m \in L : \A k \in L : f[m] <= f[k]
  BY <1>2, <1>3, LeastValue, Zenon
<1>5. m \in S /\ m <= x /\ \A k \in L : m <= k
  BY <1>3, <1>4
<1>6. ASSUME NEW k \in S  PROVE m <= k
  BY <1>5
<1> QED
  BY <1>5, <1>6

\* A finite set of natural numbers has a greatest member.
LEMMA GreatestNat ==
  ASSUME NEW n \in Nat, NEW S, S \subseteq 0 .. n, S # {}
  PROVE  \E m \in S : \A k \in S : k <= m
<1> DEFINE f == [k \in S |-> k]
<1>1. IsFiniteSet(S)
  <2>1. n \in Int /\ 0 \in Int
    OBVIOUS
  <2>2. IsFiniteSet(0 .. n)
    BY <2>1, FS_Interval, Zenon
  <2> QED
    BY <2>2, FS_Subset, Zenon
<1>2. \A k \in S : f[k] = k /\ f[k] \in Int
  OBVIOUS
<1> HIDE DEF f
<1>3. PICK m \in S : \A k \in S : f[k] <= f[m]
  BY <1>1, <1>2, GreatestValue, Zenon
<1> QED
  BY <1>2, <1>3
-----------------------------------------------------------------------------
(***************************************************************************)
(* Trees: t[v] is the vertex above v, and 0 is above the root.             *)
(***************************************************************************)
IsTree(t) == /\ Len(t) \in Nat /\ DOMAIN t = 1 .. Len(t)
             /\ \A v \in 1 .. Len(t) : t[v] \in 0 .. v - 1

\* What v descends from, v itself and 0 included.
UpClosed(t, S) == \A w \in S : w \in 1 .. Len(t) => t[w] \in S
Up(t, v) == {a \in 0 .. v : \A S \in SUBSET Nat : v \in S /\ UpClosed(t, S) => a \in S}

\* The numbers are given in preorder.
IsPreorder(t) == \A v \in 1 .. Len(t) : t[v] \in Up(t, v - 1)

\* A vertex descends from itself and from nothing after it.
LEMMA UpSelf ==
  ASSUME NEW t, NEW v \in Nat
  PROVE  v \in Up(t, v) /\ Up(t, v) \subseteq 0 .. v
BY DEF Up

\* What a vertex descends from is the least set it is in that is closed upward,
LEMMA UpIn ==
  ASSUME NEW t, NEW v, NEW S \in SUBSET Nat, v \in S, UpClosed(t, S)
  PROVE  Up(t, v) \subseteq S
BY DEF Up

\* and is closed upward itself.
LEMMA UpIsClosed ==
  ASSUME NEW t, IsTree(t), NEW v \in Nat
  PROVE  UpClosed(t, Up(t, v))
<1> SUFFICES ASSUME NEW w \in Up(t, v), w \in 1 .. Len(t)  PROVE t[w] \in Up(t, v)
  BY DEF UpClosed
<1>1. t[w] \in 0 .. w - 1 /\ w \in 0 .. v
  BY DEF IsTree, Up
<1>2. t[w] \in 0 .. v
  BY <1>1
<1>3. ASSUME NEW S \in SUBSET Nat, v \in S, UpClosed(t, S)  PROVE t[w] \in S
  <2>1. w \in S
    BY <1>3 DEF Up
  <2> QED
    BY <1>3, <2>1 DEF UpClosed
<1> QED
  BY <1>2, <1>3 DEF Up

\* To descend from is transitive.
LEMMA UpTrans ==
  ASSUME NEW t, IsTree(t), NEW v \in Nat, NEW a \in Up(t, v)
  PROVE  Up(t, a) \subseteq Up(t, v)
<1>1. Up(t, v) \in SUBSET Nat
  BY DEF Up
<1> QED
  BY <1>1, UpIsClosed, UpIn

\* Above the root there is nothing but 0,
LEMMA UpOfRoot ==
  ASSUME NEW t
  PROVE  Up(t, 0) = {0}
BY UpSelf

\* and above a vertex there is what is above the vertex it was found from.
LEMMA UpStep ==
  ASSUME NEW t, IsTree(t), NEW v \in 1 .. Len(t)
  PROVE  /\ t[v] \in Nat /\ t[v] < v
         /\ Up(t, v) = {v} \cup Up(t, t[v])
<1>1. t[v] \in 0 .. v - 1 /\ t[v] \in Nat /\ t[v] < v /\ v \in Nat
  BY DEF IsTree
<1> DEFINE S == {v} \cup Up(t, t[v])
<1>2. S \in SUBSET Nat
  BY <1>1, UpSelf
<1>3. UpClosed(t, S)
  <2>1. UpClosed(t, Up(t, t[v]))
    BY <1>1, UpIsClosed
  <2>2. t[v] \in Up(t, t[v])
    BY <1>1, UpSelf
  <2> QED
    BY <2>1, <2>2 DEF UpClosed
<1>4. Up(t, v) \subseteq S
  <2> HIDE DEF S
  <2>1. v \in S
    BY DEF S
  <2> QED
    BY <1>2, <1>3, <2>1, UpIn
<1>5. v \in Up(t, v) /\ t[v] \in Up(t, v)
  BY <1>1, UpSelf, UpIsClosed DEF UpClosed
<1>6. Up(t, t[v]) \subseteq Up(t, v)
  BY <1>1, <1>5, UpTrans
<1> QED
  BY <1>1, <1>4, <1>5, <1>6

\* The ancestors of a vertex form a chain.
LEMMA UpChain ==
  ASSUME NEW t, IsTree(t), NEW v \in 0 .. Len(t), NEW a \in Up(t, v), NEW b \in Up(t, v), a <= b
  PROVE  a \in Up(t, b)
<1> DEFINE Bad == {w \in 0 .. Len(t) : a \in Up(t, w) /\ b \in Up(t, w)}
<1>1. Len(t) \in Nat
  BY DEF IsTree
<1>2. PICK w \in Bad : \A k \in Bad : w <= k
  <2>1. v \in Bad /\ Bad \subseteq Nat
    OBVIOUS
  <2> HIDE DEF Bad
  <2> QED
    BY <2>1, LeastNat, Zenon
<1>3. w \in 0 .. Len(t) /\ a \in Up(t, w) /\ b \in Up(t, w)
  BY <1>2
<1>4. CASE w = 0
  BY <1>3, <1>4, UpOfRoot
<1>5. CASE w # 0
  <2>1. w \in 1 .. Len(t)
    BY <1>3, <1>5, <1>1
  <2>2. t[w] \in Nat /\ t[w] < w /\ Up(t, w) = {w} \cup Up(t, t[w])
    BY <2>1, UpStep
  <2>3. ~(a \in Up(t, t[w]) /\ b \in Up(t, t[w]))
    <3>1. t[w] \in 0 .. Len(t) /\ ~(w <= t[w])
      BY <2>1, <2>2, <1>1
    <3> QED
      BY <1>2, <3>1
  <2>4. CASE b = w
    BY <1>3, <2>4
  <2>5. CASE b # w /\ a = w
    <3>1. b \in Up(t, t[w])
      BY <1>3, <2>2, <2>5
    <3>2. b \in 0 .. t[w]
      BY <2>2, <3>1, UpSelf
    <3> QED
      BY <2>1, <2>2, <2>5, <3>2
  <2> QED
    BY <1>3, <2>2, <2>3, <2>4, <2>5
<1> QED
  BY <1>4, <1>5

\* What descends from a is an interval.
LEMMA Interval ==
  ASSUME NEW t, IsTree(t), IsPreorder(t), NEW v \in 0 .. Len(t), NEW a \in Up(t, v),
         NEW w \in 0 .. Len(t), a <= w, w <= v
  PROVE  a \in Up(t, w)
<1>1. Len(t) \in Nat
  BY DEF IsTree
<1>2. SUFFICES ASSUME a \notin Up(t, w)  PROVE FALSE
  OBVIOUS
<1> DEFINE Bad == {k \in 0 .. Len(t) : k <= v /\ a <= k /\ a \notin Up(t, k)}
<1>3. PICK m \in Bad : \A k \in Bad : k <= m
  <2>1. w \in Bad /\ Bad \subseteq 0 .. Len(t)
    BY <1>2
  <2> HIDE DEF Bad
  <2> QED
    BY <1>1, <2>1, GreatestNat, Zenon
<1>4. m \in 0 .. Len(t) /\ m <= v /\ a <= m /\ a \notin Up(t, m) /\ a \in Nat
  BY <1>3, UpSelf
<1>5. m # v
  BY <1>4
<1>6. m + 1 \in 1 .. Len(t) /\ m + 1 <= v /\ a <= m + 1 /\ ~(m + 1 <= m) /\ a # m + 1
  BY <1>1, <1>4, <1>5
<1>7. a \in Up(t, m + 1)
  BY <1>3, <1>6
<1>8. a \in Up(t, t[m + 1])
  <2>1. Up(t, m + 1) = {m + 1} \cup Up(t, t[m + 1])
    BY <1>6, UpStep
  <2> QED
    BY <1>6, <1>7, <2>1
<1>9. t[m + 1] \in Up(t, m)
  <2>1. (m + 1) - 1 = m
    BY <1>4
  <2> QED
    BY <1>6, <2>1 DEF IsPreorder
<1>10. a \in Up(t, m)
  <2>1. m \in Nat
    BY <1>1, <1>4
  <2>2. Up(t, t[m + 1]) \subseteq Up(t, m)
    BY <1>9, <2>1, UpTrans
  <2> QED
    BY <1>8, <2>2
<1> QED
  BY <1>4, <1>10
-----------------------------------------------------------------------------
\* A tree with one more vertex.
LEMMA UpExtend ==
  ASSUME NEW t, t \in Seq(Nat), IsTree(t), IsPreorder(t), NEW c \in Up(t, Len(t))
  PROVE  LET s == Append(t, c)
             n == Len(t) + 1
         IN  /\ s \in Seq(Nat) /\ IsTree(s) /\ IsPreorder(s) /\ Len(s) = n /\ s[n] = c
             /\ \A v \in 1 .. Len(t) : s[v] = t[v]
             /\ \A v \in 0 .. Len(t) : Up(s, v) = Up(t, v)
             /\ Up(s, n) = {n} \cup Up(t, c)
<1> DEFINE s == Append(t, c)
           n == Len(t) + 1
<1>1. Len(t) \in Nat /\ n \in Nat /\ c \in 0 .. Len(t)
  BY UpSelf DEF IsTree
<1>2. s \in Seq(Nat) /\ Len(s) = n /\ s[n] = c /\ DOMAIN s = 1 .. n /\ \A v \in 1 .. Len(t) : s[v] = t[v]
  BY <1>1
<1> HIDE DEF s
<1>3. IsTree(s)
  <2>1. ASSUME NEW v \in 1 .. n  PROVE s[v] \in 0 .. v - 1
    <3>1. CASE v = n
      BY <1>1, <1>2, <3>1
    <3>2. CASE v # n
      <4>1. v \in 1 .. Len(t)
        BY <1>1, <3>2
      <4> QED
        BY <1>2, <4>1 DEF IsTree
    <3> QED
      BY <3>1, <3>2
  <2> QED
    BY <1>1, <1>2, <2>1 DEF IsTree
<1>4. ASSUME NEW v \in 0 .. Len(t)  PROVE Up(s, v) = Up(t, v)
  <2>1. Up(s, v) \subseteq Up(t, v)
    <3>1. Up(t, v) \in SUBSET (0 .. Len(t)) /\ v \in Up(t, v)
      BY <1>1, UpSelf
    <3>2. UpClosed(t, Up(t, v))
      BY UpIsClosed
    <3>3. UpClosed(s, Up(t, v))
      <4>1. ASSUME NEW w \in Up(t, v), w \in 1 .. Len(s)  PROVE s[w] \in Up(t, v)
        <5>1. w \in 1 .. Len(t)
          BY <3>1, <4>1, <1>1
        <5> QED
          BY <1>2, <3>2, <5>1 DEF UpClosed
      <4> QED
        BY <4>1 DEF UpClosed
    <3>4. Up(t, v) \in SUBSET Nat
      BY <3>1
    <3> QED
      BY <3>1, <3>3, <3>4, UpIn
  <2>2. Up(t, v) \subseteq Up(s, v)
    <3>1. Up(s, v) \in SUBSET Nat /\ v \in Up(s, v)
      BY UpSelf
    <3>2. UpClosed(s, Up(s, v))
      BY <1>3, UpIsClosed
    <3>3. UpClosed(t, Up(s, v))
      <4>1. ASSUME NEW w \in Up(s, v), w \in 1 .. Len(t)  PROVE t[w] \in Up(s, v)
        <5>1. w \in 1 .. Len(s)
          BY <1>1, <1>2, <4>1
        <5> QED
          BY <1>2, <3>2, <4>1, <5>1 DEF UpClosed
      <4> QED
        BY <4>1 DEF UpClosed
    <3> QED
      BY <3>1, <3>3, UpIn
  <2> QED
    BY <2>1, <2>2
<1>5. Up(s, n) = {n} \cup Up(t, c)
  <2>1. n \in 1 .. Len(s)
    BY <1>1, <1>2
  <2> QED
    BY <1>1, <1>2, <1>3, <1>4, <2>1, UpStep
<1>6. IsPreorder(s)
  <2>1. ASSUME NEW v \in 1 .. Len(s)  PROVE s[v] \in Up(s, v - 1)
    <3>1. CASE v = n
      <4>1. v - 1 = Len(t) /\ Len(t) \in 0 .. Len(t)
        BY <1>1, <3>1
      <4>2. Up(s, v - 1) = Up(t, Len(t))
        BY <1>4, <4>1
      <4> QED
        BY <1>2, <3>1, <4>2
    <3>2. CASE v # n
      <4>1. v \in 1 .. Len(t) /\ v - 1 \in 0 .. Len(t)
        BY <1>1, <1>2, <3>2
      <4>2. t[v] \in Up(t, v - 1)
        BY <4>1 DEF IsPreorder
      <4> QED
        BY <1>2, <1>4, <4>1, <4>2
    <3> QED
      BY <3>1, <3>2
  <2> QED
    BY <2>1 DEF IsPreorder
<1> QED
  BY <1>2, <1>3, <1>4, <1>5, <1>6 DEF s
-----------------------------------------------------------------------------
(***************************************************************************)
(* The search.                                                             *)
(***************************************************************************)
Vertices(d) == 1 .. Len(d.ref)
\* The edges between vertices, and the greatest of their common ancestors.
EdgesOf(G, d) == {e \in Vertices(d) \X Vertices(d) : <<d.ref[e[1]], d.ref[e[2]]>> \in G}
IsMeet(t, u, v, a) ==
  a \in Up(t, u) /\ a \in Up(t, v) /\ \A b \in Up(t, u) : b \in Up(t, v) => b <= a

SearchRecord(N) ==
  [dfn : [N -> Nat], post : [N -> Nat], last : Nat, ref : Seq(N), tree : Seq(Nat), cur : Nat,
   todo : Seq(SUBSET N), ancestor : Seq(Nat),
   back : SUBSET (Nat \X Nat), cross : SUBSET (Nat \X Nat \X Nat)]
SearchTypes(G, root, d) ==
  /\ d \in SearchRecord(NodesOf(G, root))
  /\ Len(d.tree) = Len(d.ref) /\ Len(d.todo) = Len(d.ref) /\ Len(d.ancestor) = Len(d.ref)

\* Numbers and nodes correspond.
NumberInv(G, root, d) ==
  /\ \A v \in Vertices(d) : d.ref[v] \in NodesOf(G, root) /\ d.dfn[d.ref[v]] = v
  /\ \A x \in NodesOf(G, root) : d.dfn[x] # 0 => d.dfn[x] \in Vertices(d) /\ d.ref[d.dfn[x]] = x

TreeInv(G, root, d) ==
  /\ IsTree(d.tree) /\ IsPreorder(d.tree)
  /\ d.cur \in Up(d.tree, Len(d.ref))
  /\ \A v \in Vertices(d) : IF v = 1 THEN d.ref[v] = root /\ d.tree[v] = 0
                            ELSE d.tree[v] # 0 /\ <<d.ref[d.tree[v]], d.ref[v]>> \in G

\* The vertices that are not finished are those on the path to cur.
GrayInv(G, root, d) ==
  /\ \A v \in Vertices(d) : d.post[d.ref[v]] = 0 <=> v \in Up(d.tree, d.cur)
  /\ \A x \in NodesOf(G, root) : d.dfn[x] = 0 => d.post[x] = 0

\* No successor is forgotten, but z, which is being visited from cur.
TodoInvBut(G, d, z) ==
  \A v \in Vertices(d) :
    /\ d.todo[v] \subseteq Successors(G, d.ref[v])
    /\ d.post[d.ref[v]] # 0 => d.todo[v] = {}
    /\ \A y \in Successors(G, d.ref[v]) : d.dfn[y] # 0 \/ y \in d.todo[v] \/ (v = d.cur /\ y \in z)

\* What the search makes of the edges.
EdgeInv(G, d) ==
  /\ \A e \in EdgesOf(G, d) :
       /\ e[1] < e[2] => e[1] \in Up(d.tree, e[2])
       /\ e[2] \in Up(d.tree, e[1]) => e \in d.back
       /\ e[2] < e[1] /\ e[2] \notin Up(d.tree, e[1]) => \E a \in Nat : <<e[1], e[2], a>> \in d.cross
  /\ \A e \in d.back : e \in EdgesOf(G, d) /\ e[2] \in Up(d.tree, e[1])
  /\ \A c \in d.cross : /\ <<c[1], c[2]>> \in EdgesOf(G, d) /\ c[2] < c[1]
                        /\ c[2] \notin Up(d.tree, c[1]) /\ IsMeet(d.tree, c[1], c[2], c[3])

AncestorInv(d) == \A v \in Vertices(d) : IsMeet(d.tree, d.cur, v, d.ancestor[v])

\* Finished after those below, and after those before that it is not below.
PostInv(d) ==
  /\ \A v \in Vertices(d) : d.post[d.ref[v]] <= d.last
  /\ \A v, w \in Vertices(d) : v < w /\ d.post[d.ref[v]] # 0 /\ d.post[d.ref[w]] # 0 =>
       IF v \in Up(d.tree, w) THEN d.post[d.ref[w]] < d.post[d.ref[v]]
       ELSE d.post[d.ref[v]] < d.post[d.ref[w]]

SearchInvBut(G, root, d, z) ==
  /\ SearchTypes(G, root, d) /\ NumberInv(G, root, d) /\ TreeInv(G, root, d)
  /\ GrayInv(G, root, d) /\ TodoInvBut(G, d, z) /\ EdgeInv(G, d) /\ AncestorInv(d) /\ PostInv(d)
SearchInv(G, root, d) == SearchInvBut(G, root, d, {})

\* The fields of the state of the search.
LEMMA SearchFields ==
  ASSUME NEW N, NEW d \in SearchRecord(N)
  PROVE  /\ d.dfn \in [N -> Nat] /\ d.post \in [N -> Nat] /\ d.last \in Nat /\ d.ref \in Seq(N)
         /\ d.tree \in Seq(Nat) /\ d.cur \in Nat /\ d.todo \in Seq(SUBSET N) /\ d.ancestor \in Seq(Nat)
         /\ d.back \in SUBSET (Nat \X Nat) /\ d.cross \in SUBSET (Nat \X Nat \X Nat)
BY DEF SearchRecord

\* The search starts correctly.
LEMMA UnsearchedIsSearch ==
  ASSUME NEW G, NEW root
  PROVE  LET d == Unsearched(G, root)
         IN  SearchInvBut(G, root, d, {root}) /\ d.cur = 0 /\ d.ref = <<>> /\ d.dfn[root] = 0
<1> DEFINE d == Unsearched(G, root)
           N == NodesOf(G, root)
<1>1. root \in N
  BY DEF NodesOf
<1>2. /\ d.dfn = [x \in N |-> 0] /\ d.post = [x \in N |-> 0] /\ d.last = 0 /\ d.ref = <<>> /\ d.tree = <<>>
      /\ d.cur = 0 /\ d.todo = <<>> /\ d.ancestor = <<>> /\ d.back = {} /\ d.cross = {}
  BY DEF Unsearched
<1>3. d \in SearchRecord(N)
  BY DEF Unsearched, SearchRecord
<1> HIDE DEF d, N
<1>4. Vertices(d) = {} /\ Len(d.ref) = 0
  BY <1>2 DEF Vertices
<1>5. SearchTypes(G, root, d)
  BY <1>2, <1>3 DEF SearchTypes, N
<1>6. NumberInv(G, root, d) /\ GrayInv(G, root, d)
  BY <1>2, <1>4 DEF NumberInv, GrayInv, N
<1>7. TreeInv(G, root, d)
  <2>1. IsTree(d.tree) /\ IsPreorder(d.tree)
    BY <1>2 DEF IsTree, IsPreorder
  <2>2. d.cur \in Up(d.tree, Len(d.ref))
    BY <1>2, <1>4, UpOfRoot
  <2> QED
    BY <1>4, <2>1, <2>2 DEF TreeInv
<1>8. EdgesOf(G, d) = {}
  BY <1>4 DEF EdgesOf
<1>9. TodoInvBut(G, d, {root}) /\ EdgeInv(G, d) /\ AncestorInv(d) /\ PostInv(d)
  BY <1>2, <1>4, <1>8 DEF TodoInvBut, EdgeInv, AncestorInv, PostInv
<1> QED
  BY <1>1, <1>2, <1>5, <1>6, <1>7, <1>9 DEF SearchInvBut, d, N

\* Taking a successor off the stack forgets nothing but it.
LEMMA PopKeeps ==
  ASSUME NEW G, NEW root, NEW d, SearchInv(G, root, d), d.cur # 0, NEW x \in d.todo[d.cur]
  PROVE  LET p == Pop(d, x)
         IN  /\ SearchInvBut(G, root, p, {x})
             /\ d.dfn[x] # 0 => SearchInv(G, root, p)
             /\ p.cur = d.cur /\ p.dfn = d.dfn /\ p.ref = d.ref
             /\ x \in Successors(G, d.ref[d.cur]) /\ d.cur \in Vertices(d)
<1> DEFINE N == NodesOf(G, root)
           p == Pop(d, x)
<1>1. /\ SearchTypes(G, root, d) /\ NumberInv(G, root, d) /\ TreeInv(G, root, d)
      /\ GrayInv(G, root, d) /\ TodoInvBut(G, d, {}) /\ EdgeInv(G, d) /\ AncestorInv(d) /\ PostInv(d)
  BY DEF SearchInv, SearchInvBut
<1>2. d \in SearchRecord(N) /\ Len(d.tree) = Len(d.ref) /\ Len(d.todo) = Len(d.ref)
      /\ Len(d.ancestor) = Len(d.ref)
  BY <1>1 DEF SearchTypes
<1>3. d.cur \in Vertices(d)
  <2>1. d.cur \in 0 .. Len(d.ref) /\ Len(d.ref) \in Nat
    BY <1>1, <1>2, SearchFields, UpSelf DEF TreeInv
  <2> QED
    BY <2>1 DEF Vertices
<1>4. /\ p.dfn = d.dfn /\ p.post = d.post /\ p.last = d.last /\ p.ref = d.ref /\ p.tree = d.tree
      /\ p.cur = d.cur /\ p.ancestor = d.ancestor /\ p.back = d.back /\ p.cross = d.cross
      /\ p.todo = [d.todo EXCEPT ![d.cur] = @ \ {x}]
  BY <1>2 DEF Pop, SearchRecord
<1>5. p \in SearchRecord(N)
  <2>1. d.todo \in Seq(SUBSET N) /\ d.cur \in 1 .. Len(d.todo)
    BY <1>2, <1>3, SearchFields DEF Vertices
  <2>2. p.todo \in Seq(SUBSET N)
    BY <1>4, <2>1
  <2> QED
    BY <1>2, <2>2 DEF Pop, SearchRecord
<1>6. DOMAIN d.todo = Vertices(d) /\ Len(p.todo) = Len(d.ref)
  BY <1>2, <1>3, <1>4, SearchFields DEF Vertices
<1>7. \A v \in Vertices(d) : p.todo[v] = IF v = d.cur THEN d.todo[v] \ {x} ELSE d.todo[v]
  BY <1>4, <1>6
<1>8. x \in Successors(G, d.ref[d.cur])
  BY <1>1, <1>3 DEF TodoInvBut
<1> HIDE DEF p
<1>9. Vertices(p) = Vertices(d) /\ EdgesOf(G, p) = EdgesOf(G, d)
  BY <1>4 DEF Vertices, EdgesOf
<1>10. SearchTypes(G, root, p)
  BY <1>2, <1>4, <1>5, <1>6 DEF SearchTypes
<1>11. NumberInv(G, root, p)
  BY <1>1, <1>4, <1>9 DEF NumberInv
<1>12. TreeInv(G, root, p)
  BY <1>1, <1>4, <1>9 DEF TreeInv
<1>13. GrayInv(G, root, p)
  BY <1>1, <1>4, <1>9 DEF GrayInv
<1>14. EdgeInv(G, p)
  BY <1>1, <1>4, <1>9 DEF EdgeInv
<1>15. AncestorInv(p) /\ PostInv(p)
  BY <1>1, <1>4, <1>9 DEF AncestorInv, PostInv
<1>16. TodoInvBut(G, p, {x})
  BY <1>1, <1>4, <1>7, <1>9 DEF TodoInvBut
<1>17. ASSUME d.dfn[x] # 0  PROVE TodoInvBut(G, p, {})
  BY <1>1, <1>4, <1>7, <1>9, <1>17 DEF TodoInvBut
<1> QED
  BY <1>3, <1>4, <1>8, <1>10, <1>11, <1>12, <1>13, <1>14, <1>15, <1>16, <1>17 DEF SearchInv, SearchInvBut, p

IsGraph(G) == \A e \in G : e = <<e[1], e[2]>>

\* A new vertex.
LEMMA DiscoverKeeps ==
  ASSUME NEW G, IsGraph(G), NEW root, NEW d, NEW x \in NodesOf(G, root), SearchInvBut(G, root, d, {x}), d.dfn[x] = 0,
         \/ d.cur = 0 /\ Len(d.ref) = 0 /\ x = root
         \/ d.cur # 0 /\ x \in Successors(G, d.ref[d.cur])
  PROVE  SearchInv(G, root, Discover(G, d, x))
<1> DEFINE N == NodesOf(G, root)
           n == Len(d.ref)
           v == n + 1
           succ == Successors(G, x)
           dfn == [d.dfn EXCEPT ![x] = v]
           black == {y \in succ : d.post[y] # 0}
           p == Discover(G, d, x)
           t == d.tree
           s == Append(t, d.cur)
<1>1. /\ SearchTypes(G, root, d) /\ NumberInv(G, root, d) /\ TreeInv(G, root, d)
      /\ GrayInv(G, root, d) /\ TodoInvBut(G, d, {x}) /\ EdgeInv(G, d) /\ AncestorInv(d) /\ PostInv(d)
  BY DEF SearchInvBut
<1>2. d \in SearchRecord(N) /\ Len(d.tree) = n /\ Len(d.todo) = n /\ Len(d.ancestor) = n
  BY <1>1 DEF SearchTypes
<1>3. /\ d.dfn \in [N -> Nat] /\ d.post \in [N -> Nat] /\ d.last \in Nat /\ d.ref \in Seq(N)
      /\ d.tree \in Seq(Nat) /\ d.cur \in Nat /\ d.todo \in Seq(SUBSET N) /\ d.ancestor \in Seq(Nat)
      /\ d.back \in SUBSET (Nat \X Nat) /\ d.cross \in SUBSET (Nat \X Nat \X Nat)
  BY <1>2, SearchFields
<1>4. n \in Nat /\ v \in Nat /\ Vertices(d) = 1 .. n /\ d.cur \in 0 .. n
  BY <1>1, <1>2, <1>3, UpSelf DEF Vertices, TreeInv
<1>5. \A w \in 1 .. n : d.ancestor[w] \in Nat
  <2> DEFINE a == d.ancestor
  <2>1. a \in Seq(Nat) /\ Len(a) = n
    BY <1>2, <1>3
  <2> HIDE DEF a, n
  <2>2. \A w \in 1 .. n : a[w] \in Nat
    BY <2>1
  <2> QED
    BY <2>2 DEF a
<1>6. /\ p.dfn = dfn /\ p.post = d.post /\ p.last = d.last /\ p.ref = Append(d.ref, x) /\ p.tree = s
      /\ p.cur = v /\ p.todo = Append(d.todo, {y \in succ : dfn[y] = 0}) /\ p.ancestor = Append(d.ancestor, v)
      /\ p.back = d.back \cup {<<v, dfn[y]>> : y \in {z \in succ \ black : dfn[z] # 0}}
      /\ p.cross = d.cross \cup {<<v, dfn[y], d.ancestor[dfn[y]]>> : y \in black}
  BY <1>2 DEF Discover, SearchRecord
<1> HIDE DEF p
<1>7. succ \subseteq N
  BY DEF Successors, NodesOf
<1>8. dfn \in [N -> Nat] /\ dfn[x] = v /\ (\A y \in N : y # x => dfn[y] = d.dfn[y]) /\ d.post[x] = 0
  BY <1>1, <1>3, <1>4 DEF GrayInv
<1> HIDE DEF dfn
<1>9. \A w \in 1 .. n : d.ref[w] \in N /\ d.ref[w] # x /\ d.dfn[d.ref[w]] = w /\ dfn[d.ref[w]] = w
  BY <1>1, <1>4, <1>8 DEF NumberInv
<1>10. /\ Len(p.ref) = v /\ p.ref[v] = x /\ p.ref \in Seq(N) /\ \A w \in 1 .. n : p.ref[w] = d.ref[w]
       /\ Vertices(p) = 1 .. v /\ \A w \in 1 .. v : w \in 1 .. n \/ w = v
  <2>1. Len(p.ref) = v /\ p.ref[v] = x /\ p.ref \in Seq(N) /\ \A w \in 1 .. n : p.ref[w] = d.ref[w]
    BY <1>3, <1>4, <1>6, SMTT(30)
  <2>2. \A w \in 1 .. v : w \in 1 .. n \/ w = v
    BY <1>4
  <2> QED
    BY <2>1, <2>2 DEF Vertices
<1>11. NumberInv(G, root, p)
  <2>1. ASSUME NEW w \in Vertices(p)  PROVE p.ref[w] \in N /\ p.dfn[p.ref[w]] = w
    BY <1>6, <1>8, <1>9, <1>10, <2>1
  <2>2. ASSUME NEW y \in N, p.dfn[y] # 0  PROVE p.dfn[y] \in Vertices(p) /\ p.ref[p.dfn[y]] = y
    <3>1. CASE y = x
      BY <1>4, <1>6, <1>8, <1>10, <3>1
    <3>2. CASE y # x
      <4>1. d.dfn[y] # 0 /\ p.dfn[y] = d.dfn[y]
        BY <1>6, <1>8, <2>2, <3>2
      <4>2. d.dfn[y] \in 1 .. n /\ d.ref[d.dfn[y]] = y
        BY <1>1, <1>4, <4>1 DEF NumberInv
      <4>3. d.dfn[y] \in 1 .. v
        BY <1>4, <4>2
      <4> QED
        BY <1>10, <4>1, <4>2, <4>3
    <3> QED
      BY <3>1, <3>2
  <2> QED
    BY <2>1, <2>2 DEF NumberInv
<1>12. IsTree(t) /\ IsPreorder(t) /\ d.cur \in Up(t, n)
  BY <1>1 DEF TreeInv
<1>13. /\ s \in Seq(Nat) /\ IsTree(s) /\ IsPreorder(s) /\ Len(s) = v /\ s[v] = d.cur
       /\ \A w \in 1 .. n : s[w] = t[w]
       /\ \A w \in 0 .. n : Up(s, w) = Up(t, w)
       /\ Up(s, v) = {v} \cup Up(t, d.cur)
  <2>1. t \in Seq(Nat) /\ d.cur \in Up(t, Len(t)) /\ Len(t) = n
    BY <1>2, <1>3, <1>12
  <2> HIDE DEF t, n
  <2> QED
    BY <1>12, <2>1, UpExtend, ZenonT(40) DEF v, s
<1> HIDE DEF s
<1>14. Up(t, d.cur) \subseteq 0 .. n
  BY <1>4, UpSelf
<1>15. \A w \in 1 .. n : w \in Up(s, v) <=> w \in Up(t, d.cur)
  BY <1>4, <1>13
<1>16. \A w \in 1 .. n : d.post[d.ref[w]] = 0 <=> w \in Up(t, d.cur)
  BY <1>1, <1>4 DEF GrayInv
<1>17. TreeInv(G, root, p)
  <2>1. p.cur \in Up(p.tree, Len(p.ref))
    BY <1>4, <1>6, <1>10, UpSelf
  <2>2. ASSUME NEW w \in 1 .. n
        PROVE  IF w = 1 THEN p.ref[w] = root /\ p.tree[w] = 0
               ELSE p.tree[w] # 0 /\ <<p.ref[p.tree[w]], p.ref[w]>> \in G
    <3>1. IF w = 1 THEN d.ref[w] = root /\ t[w] = 0
          ELSE t[w] # 0 /\ <<d.ref[t[w]], d.ref[w]>> \in G
      BY <1>1, <1>4 DEF TreeInv
    <3>2. p.tree[w] = t[w] /\ p.ref[w] = d.ref[w]
      BY <1>6, <1>10, <1>13
    <3>3. t[w] # 0 => t[w] \in 1 .. n
      BY <1>2, <1>4, <1>12 DEF IsTree
    <3> QED
      BY <1>10, <3>1, <3>2, <3>3
  <2>3. IF v = 1 THEN x = root /\ d.cur = 0
        ELSE d.cur # 0 /\ <<p.ref[d.cur], x>> \in G
    <3>1. CASE d.cur = 0 /\ n = 0 /\ x = root
      BY <3>1
    <3>2. CASE d.cur # 0 /\ x \in Successors(G, d.ref[d.cur])
      <4>1. d.cur \in 1 .. n
        BY <1>4, <3>2
      <4>2. \E e \in G : e[1] = d.ref[d.cur] /\ x = e[2]
        BY <3>2, Zenon DEF Successors
      <4>3. v # 1
        BY <1>4, <4>1
      <4> QED
        BY <1>10, <4>1, <4>2, <4>3 DEF IsGraph
    <3> QED
      BY <3>1, <3>2
  <2> QED
    BY <1>6, <1>10, <1>13, <2>1, <2>2, <2>3 DEF TreeInv
<1>18. GrayInv(G, root, p)
  <2>1. ASSUME NEW w \in Vertices(p)  PROVE p.post[p.ref[w]] = 0 <=> w \in Up(p.tree, p.cur)
    <3>1. CASE w = v
      BY <1>4, <1>6, <1>8, <1>10, <3>1, UpSelf
    <3>2. CASE w \in 1 .. n
      BY <1>6, <1>10, <1>15, <1>16, <3>2
    <3> QED
      BY <1>10, <3>1, <3>2
  <2>2. ASSUME NEW y \in N, p.dfn[y] = 0  PROVE p.post[y] = 0
    BY <1>1, <1>4, <1>6, <1>8, <2>2 DEF GrayInv
  <2> QED
    BY <2>1, <2>2 DEF GrayInv
<1>19. /\ p.todo \in Seq(SUBSET N) /\ Len(p.todo) = v /\ p.todo[v] = {y \in succ : dfn[y] = 0}
       /\ \A w \in 1 .. n : p.todo[w] = d.todo[w]
  <2>1. {y \in succ : dfn[y] = 0} \in SUBSET N
    BY <1>7
  <2> HIDE DEF succ, N
  <2> QED
    BY <1>2, <1>3, <1>4, <1>6, <2>1
<1>20. TodoInvBut(G, p, {})
  <2>1. ASSUME NEW w \in Vertices(p)
        PROVE  /\ p.todo[w] \subseteq Successors(G, p.ref[w])
               /\ p.post[p.ref[w]] # 0 => p.todo[w] = {}
               /\ \A y \in Successors(G, p.ref[w]) : p.dfn[y] # 0 \/ y \in p.todo[w]
    <3>1. CASE w = v
      BY <1>6, <1>8, <1>10, <1>19, <3>1
    <3>2. CASE w \in 1 .. n
      <4>1. /\ d.todo[w] \subseteq Successors(G, d.ref[w])
            /\ d.post[d.ref[w]] # 0 => d.todo[w] = {}
            /\ \A y \in Successors(G, d.ref[w]) : d.dfn[y] # 0 \/ y \in d.todo[w] \/ (w = d.cur /\ y = x)
        BY <1>1, <1>4, <3>2 DEF TodoInvBut
      <4>2. p.todo[w] = d.todo[w] /\ p.ref[w] = d.ref[w] /\ p.post = d.post
        BY <1>6, <1>10, <1>19, <3>2
      <4>3. \A y \in N : d.dfn[y] # 0 \/ y = x => p.dfn[y] # 0
        BY <1>4, <1>6, <1>8
      <4>4. Successors(G, d.ref[w]) \subseteq N
        BY DEF Successors, NodesOf
      <4> QED
        BY <4>1, <4>2, <4>3, <4>4
    <3> QED
      BY <1>10, <3>1, <3>2
  <2> QED
    BY <2>1 DEF TodoInvBut
<1>21. p.ancestor \in Seq(Nat) /\ Len(p.ancestor) = v /\ p.ancestor[v] = v
       /\ \A w \in 1 .. n : p.ancestor[w] = d.ancestor[w]
  BY <1>2, <1>3, <1>4, <1>6
<1>22. AncestorInv(p)
  <2>1. ASSUME NEW w \in Vertices(p)  PROVE IsMeet(p.tree, p.cur, w, p.ancestor[w])
    <3>1. CASE w = v
      <4>1. v \in Up(s, v) /\ Up(s, v) \subseteq 0 .. v
        BY <1>4, UpSelf
      <4>2. \A b \in Up(s, v) : b <= v
        BY <1>4, <4>1
      <4> QED
        BY <1>6, <1>21, <3>1, <4>1, <4>2 DEF IsMeet
    <3>2. CASE w \in 1 .. n
      <4>1. IsMeet(t, d.cur, w, d.ancestor[w])
        BY <1>1, <1>4, <3>2 DEF AncestorInv
      <4>2. Up(s, w) = Up(t, w) /\ v \notin Up(s, w)
        <5>1. w \in 0 .. n /\ w \in Nat /\ w < v
          BY <1>4, <3>2
        <5>2. Up(s, w) \subseteq 0 .. w
          BY <5>1, UpSelf
        <5> QED
          BY <1>4, <1>13, <5>1, <5>2, SMTT(30)
      <4> QED
        BY <1>6, <1>13, <1>21, <3>2, <4>1, <4>2 DEF IsMeet
    <3> QED
      BY <1>10, <3>1, <3>2
  <2> QED
    BY <2>1 DEF AncestorInv
<1>23. PostInv(p)
  <2>1. ASSUME NEW w \in Vertices(p)  PROVE p.post[p.ref[w]] <= p.last
    <3>1. CASE w = v
      BY <1>3, <1>6, <1>8, <1>10, <3>1
    <3>2. CASE w \in 1 .. n
      BY <1>1, <1>4, <1>6, <1>10, <3>2 DEF PostInv
    <3> QED
      BY <1>10, <3>1, <3>2
  <2>2. ASSUME NEW a \in Vertices(p), NEW b \in Vertices(p), a < b, p.post[p.ref[a]] # 0, p.post[p.ref[b]] # 0
        PROVE  IF a \in Up(p.tree, b) THEN p.post[p.ref[b]] < p.post[p.ref[a]]
               ELSE p.post[p.ref[a]] < p.post[p.ref[b]]
    <3>1. a \in 1 .. n /\ b \in 1 .. n
      BY <1>6, <1>8, <1>10, <2>2
    <3>2. Up(p.tree, b) = Up(t, b)
      BY <1>6, <1>13, <3>1
    <3> QED
      BY <1>1, <1>4, <1>6, <1>10, <2>2, <3>1, <3>2 DEF PostInv
  <2> QED
    BY <2>1, <2>2 DEF PostInv
\* The edges: those there were, and those of the new vertex.
<1>24. \A e \in EdgesOf(G, p) : \/ e \in EdgesOf(G, d)
                                \/ e[1] = v /\ e[2] \in 1 .. v /\ p.ref[e[2]] \in succ
                                \/ e[1] \in 1 .. n /\ e[2] = v /\ x \in Successors(G, d.ref[e[1]])
  <2>1. SUFFICES ASSUME NEW a \in 1 .. v, NEW b \in 1 .. v, <<p.ref[a], p.ref[b]>> \in G
        PROVE  \/ <<a, b>> \in EdgesOf(G, d)
               \/ a = v /\ p.ref[b] \in succ
               \/ a \in 1 .. n /\ b = v /\ x \in Successors(G, d.ref[a])
    BY <1>10 DEF EdgesOf
  <2>2. p.ref[b] \in Successors(G, p.ref[a])
    BY <2>1 DEF Successors
  <2>3. CASE a = v
    BY <1>10, <2>2, <2>3
  <2>4. CASE a \in 1 .. n /\ b = v
    BY <1>10, <2>2, <2>4
  <2>5. CASE a \in 1 .. n /\ b \in 1 .. n
    BY <1>4, <1>10, <2>1, <2>5 DEF EdgesOf
  <2> QED
    BY <1>10, <2>3, <2>4, <2>5
<1>25. EdgesOf(G, d) \subseteq EdgesOf(G, p)
  <2>1. ASSUME NEW a \in 1 .. n, NEW b \in 1 .. n, <<d.ref[a], d.ref[b]>> \in G
        PROVE  a \in 1 .. v /\ b \in 1 .. v /\ <<p.ref[a], p.ref[b]>> \in G
    BY <1>4, <1>10, <2>1, SMTT(30)
  <2> QED
    BY <1>4, <1>10, <2>1, SMTT(30) DEF EdgesOf
<1>26. \A e \in EdgesOf(G, d) : e[1] \in 1 .. n /\ e[2] \in 1 .. n /\ e = <<e[1], e[2]>>
  BY <1>4 DEF EdgesOf
<1>27. \A y \in succ : y \in N /\ (dfn[y] # 0 => dfn[y] \in 1 .. v /\ p.ref[dfn[y]] = y)
  BY <1>6, <1>7, <1>10, <1>11 DEF NumberInv
<1>28. \A y \in black : dfn[y] \in 1 .. n /\ dfn[y] \notin Up(t, d.cur)
  <2>1. ASSUME NEW y \in black  PROVE dfn[y] \in 1 .. n /\ dfn[y] \notin Up(t, d.cur)
    <3>1. y \in N /\ d.post[y] # 0 /\ y # x
      BY <1>7, <1>8
    <3>2. d.dfn[y] # 0 /\ dfn[y] = d.dfn[y]
      BY <1>1, <1>8, <3>1 DEF GrayInv
    <3>3. d.dfn[y] \in 1 .. n /\ d.ref[d.dfn[y]] = y
      BY <1>1, <1>4, <3>1, <3>2 DEF NumberInv
    <3> QED
      BY <1>16, <3>1, <3>2, <3>3
  <2> QED
    BY <2>1
<1>29. \A y \in succ : y \in black <=> (dfn[y] \in 1 .. n /\ dfn[y] \notin Up(t, d.cur))
  <2>1. ASSUME NEW y \in succ, dfn[y] \in 1 .. n, dfn[y] \notin Up(t, d.cur)  PROVE y \in black
    <3>1. p.ref[dfn[y]] = y /\ d.ref[dfn[y]] = y
      BY <1>4, <1>10, <1>27, <2>1
    <3> QED
      BY <1>16, <2>1, <3>1
  <2> QED
    BY <1>28, <2>1
<1> HIDE DEF succ, black, N
<1>30. \A y \in succ : dfn[y] # 0 => <<v, dfn[y]>> \in EdgesOf(G, p)
  <2>1. ASSUME NEW y \in succ, dfn[y] # 0  PROVE <<v, dfn[y]>> \in EdgesOf(G, p)
    <3>1. dfn[y] \in 1 .. v /\ v \in 1 .. v /\ p.ref[v] = x /\ p.ref[dfn[y]] = y
      BY <1>4, <1>10, <1>27, <2>1
    <3>2. PICK e \in G : e[1] = x /\ y = e[2]
      BY Zenon DEF succ, Successors
    <3>3. <<x, y>> \in G
      BY <3>2 DEF IsGraph
    <3> QED
      BY <1>10, <3>1, <3>3 DEF EdgesOf
  <2> QED
    BY <2>1
<1>31. \A w \in 1 .. n : Up(s, w) = Up(t, w) /\ v \notin Up(s, w)
  <2>1. ASSUME NEW w \in 1 .. n  PROVE Up(s, w) = Up(t, w) /\ v \notin Up(s, w)
    <3>1. w \in 0 .. n /\ w \in Nat /\ w < v
      BY <1>4
    <3>2. Up(s, w) \subseteq 0 .. w
      BY <3>1, UpSelf
    <3> QED
      BY <1>4, <1>13, <3>1, <3>2
  <2> QED
    BY <2>1
<1>32. v \in Up(s, v)
  BY <1>4, UpSelf
<1>33. EdgeInv(G, p)
  <2>1. ASSUME NEW e \in EdgesOf(G, p)
        PROVE  /\ e[1] < e[2] => e[1] \in Up(p.tree, e[2])
               /\ e[2] \in Up(p.tree, e[1]) => e \in p.back
               /\ e[2] < e[1] /\ e[2] \notin Up(p.tree, e[1]) => \E a \in Nat : <<e[1], e[2], a>> \in p.cross
    <3>1. e = <<e[1], e[2]>>
      BY DEF EdgesOf
    <3>2. CASE e \in EdgesOf(G, d)
      <4>1. e[1] \in 1 .. n /\ e[2] \in 1 .. n
        BY <1>26, <3>2
      <4>2. /\ e[1] < e[2] => e[1] \in Up(t, e[2])
            /\ e[2] \in Up(t, e[1]) => e \in d.back
            /\ e[2] < e[1] /\ e[2] \notin Up(t, e[1]) => \E a \in Nat : <<e[1], e[2], a>> \in d.cross
        BY <1>1, <3>2 DEF EdgeInv
      <4>3. Up(p.tree, e[1]) = Up(t, e[1]) /\ Up(p.tree, e[2]) = Up(t, e[2])
        BY <1>6, <1>31, <4>1
      <4>4. d.back \subseteq p.back /\ d.cross \subseteq p.cross
        BY <1>6
      <4> QED
        BY <4>2, <4>3, <4>4
    <3>3. CASE e[1] = v /\ e[2] \in 1 .. v /\ p.ref[e[2]] \in succ
      <4> DEFINE y == p.ref[e[2]]
      <4>1. y \in succ /\ dfn[y] = e[2]
        BY <1>6, <1>10, <1>11, <3>3 DEF NumberInv
      <4>2. ~(e[1] < e[2])
        BY <1>4, <3>3
      <4>3. ASSUME e[2] \in Up(s, v)  PROVE e \in p.back
        <5>1. y \notin black
          BY <1>15, <1>29, <4>1, <4>3
        <5>2. e[2] # 0
          BY <3>3
        <5> QED
          BY <1>6, <3>1, <3>3, <4>1, <5>1, <5>2
      <4>4. ASSUME e[2] < v, e[2] \notin Up(s, v)  PROVE \E a \in Nat : <<v, e[2], a>> \in p.cross
        <5>1. e[2] \in 1 .. n /\ e[2] \notin Up(t, d.cur)
          BY <1>4, <1>15, <3>3, <4>4
        <5>2. y \in black
          BY <1>29, <4>1, <5>1
        <5>3. d.ancestor[e[2]] \in Nat
          BY <1>5, <5>1
        <5>4. <<v, e[2], d.ancestor[e[2]]>> \in p.cross
          BY <1>6, <4>1, <5>2
        <5> QED
          BY <5>3, <5>4
      <4> QED
        BY <1>6, <3>3, <4>2, <4>3, <4>4
    <3>4. CASE e[1] \in 1 .. n /\ e[2] = v /\ x \in Successors(G, d.ref[e[1]])
      <4>1. x \in d.todo[e[1]] \/ e[1] = d.cur
        BY <1>1, <1>4, <3>4 DEF TodoInvBut
      <4>2. e[1] \in Up(t, d.cur)
        <5>1. CASE x \in d.todo[e[1]]
          <6>1. d.post[d.ref[e[1]]] = 0
            BY <1>1, <1>4, <3>4, <5>1 DEF TodoInvBut
          <6> QED
            BY <1>16, <3>4, <6>1
        <5>2. CASE e[1] = d.cur
          BY <1>4, <3>4, <5>2, UpSelf
        <5> QED
          BY <4>1, <5>1, <5>2
      <4>3. e[1] \in Up(s, v) /\ v \notin Up(s, e[1]) /\ ~(v < e[1])
        BY <1>4, <1>15, <1>31, <3>4, <4>2
      <4> QED
        BY <1>6, <3>4, <4>3
    <3> QED
      BY <1>24, <3>2, <3>3, <3>4
  <2>2. ASSUME NEW e \in p.back  PROVE e \in EdgesOf(G, p) /\ e[2] \in Up(p.tree, e[1])
    <3>1. CASE e \in d.back
      <4>1. e \in EdgesOf(G, d) /\ e[2] \in Up(t, e[1])
        BY <1>1, <3>1 DEF EdgeInv
      <4> QED
        BY <1>6, <1>25, <1>26, <1>31, <4>1
    <3>2. ASSUME NEW y \in succ, y \notin black, dfn[y] # 0, e = <<v, dfn[y]>>
          PROVE  e \in EdgesOf(G, p) /\ e[2] \in Up(p.tree, e[1])
      <4>1. dfn[y] \in 1 .. v
        BY <1>27, <3>2
      <4>2. dfn[y] \in Up(s, v)
        BY <1>10, <1>15, <1>29, <1>32, <3>2, <4>1
      <4> QED
        BY <1>6, <1>30, <3>2, <4>2
    <3> QED
      BY <1>6, <2>2, <3>1, <3>2
  <2>3. ASSUME NEW c \in p.cross
        PROVE  /\ <<c[1], c[2]>> \in EdgesOf(G, p) /\ c[2] < c[1]
               /\ c[2] \notin Up(p.tree, c[1]) /\ IsMeet(p.tree, c[1], c[2], c[3])
    <3>1. CASE c \in d.cross
      <4>1. /\ <<c[1], c[2]>> \in EdgesOf(G, d) /\ c[2] < c[1]
            /\ c[2] \notin Up(t, c[1]) /\ IsMeet(t, c[1], c[2], c[3])
        BY <1>1, <3>1 DEF EdgeInv
      <4>2. c[1] \in 1 .. n /\ c[2] \in 1 .. n
        BY <1>26, <4>1
      <4> QED
        BY <1>6, <1>25, <1>31, <4>1, <4>2 DEF IsMeet
    <3>2. ASSUME NEW y \in black, c = <<v, dfn[y], d.ancestor[dfn[y]]>>
          PROVE  /\ <<c[1], c[2]>> \in EdgesOf(G, p) /\ c[2] < c[1]
                 /\ c[2] \notin Up(p.tree, c[1]) /\ IsMeet(p.tree, c[1], c[2], c[3])
      <4>1. y \in succ /\ dfn[y] \in 1 .. n /\ dfn[y] \notin Up(t, d.cur)
        BY <1>28 DEF black
      <4>2. dfn[y] # 0 /\ dfn[y] < v /\ dfn[y] \notin Up(s, v)
        BY <1>4, <1>15, <4>1
      <4>3. IsMeet(t, d.cur, dfn[y], d.ancestor[dfn[y]])
        BY <1>1, <1>4, <4>1 DEF AncestorInv
      <4>4. IsMeet(s, v, dfn[y], d.ancestor[dfn[y]])
        BY <1>13, <1>31, <4>1, <4>3, SMTT(30) DEF IsMeet
      <4>5. <<v, dfn[y]>> \in EdgesOf(G, p)
        BY <1>30, <4>1, <4>2
      <4> QED
        BY <1>6, <3>2, <4>2, <4>4, <4>5
    <3> QED
      BY <1>6, <2>3, <3>1, <3>2
  <2> QED
    BY <2>1, <2>2, <2>3 DEF EdgeInv
<1>34. p \in SearchRecord(N)
  <2>1. v \in Nat /\ p.dfn \in [N -> Nat] /\ p.ref \in Seq(N) /\ p.tree \in Seq(Nat) /\ p.todo \in Seq(SUBSET N)
        /\ p.ancestor \in Seq(Nat) /\ p.post \in [N -> Nat] /\ p.last \in Nat /\ p.cur \in Nat
    BY <1>3, <1>4, <1>6, <1>8, <1>10, <1>13, <1>19, <1>21
  <2>2. p.back \in SUBSET (Nat \X Nat)
    <3>1. \A y \in succ : dfn[y] \in Nat
      BY <1>8, <1>27
    <3> QED
      BY <1>3, <1>4, <1>6, <3>1, SMTT(30)
  <2>3. p.cross \in SUBSET (Nat \X Nat \X Nat)
    <3>1. \A y \in black : dfn[y] \in Nat /\ d.ancestor[dfn[y]] \in Nat
      BY <1>28, <1>5
    <3>2. {<<v, dfn[y], d.ancestor[dfn[y]]>> : y \in black} \in SUBSET (Nat \X Nat \X Nat)
      BY <1>4, <3>1
    <3>3. p.cross = d.cross \cup {<<v, dfn[y], d.ancestor[dfn[y]]>> : y \in black}
      BY <1>6
    <3> QED
      BY <1>3, <3>2, <3>3
  <2> QED
    BY <1>2, <2>1, <2>2, <2>3 DEF Discover, SearchRecord, p
<1>35. SearchTypes(G, root, p)
  BY <1>6, <1>10, <1>13, <1>19, <1>21, <1>34 DEF SearchTypes, N
<1> QED
  BY <1>11, <1>17, <1>18, <1>20, <1>22, <1>23, <1>33, <1>35 DEF SearchInv, SearchInvBut, p

\* Finishing the vertex at the top of the stack keeps the invariant.
LEMMA FinishKeeps ==
  ASSUME NEW G, NEW root, NEW d, SearchInv(G, root, d), d.cur # 0, d.todo[d.cur] = {}
  PROVE  SearchInv(G, root, Finish(d))
<1> DEFINE N == NodesOf(G, root)
           n == Len(d.ref)
           v == d.cur
           t == d.tree
           p == Finish(d)
<1>1. /\ SearchTypes(G, root, d) /\ NumberInv(G, root, d) /\ TreeInv(G, root, d)
      /\ GrayInv(G, root, d) /\ TodoInvBut(G, d, {}) /\ EdgeInv(G, d) /\ AncestorInv(d) /\ PostInv(d)
  BY DEF SearchInv, SearchInvBut
<1>2. d \in SearchRecord(N) /\ Len(d.tree) = n /\ Len(d.todo) = n /\ Len(d.ancestor) = n
  BY <1>1 DEF SearchTypes
<1>3. /\ d.dfn \in [N -> Nat] /\ d.post \in [N -> Nat] /\ d.last \in Nat /\ d.ref \in Seq(N)
      /\ d.tree \in Seq(Nat) /\ d.cur \in Nat /\ d.todo \in Seq(SUBSET N) /\ d.ancestor \in Seq(Nat)
      /\ d.back \in SUBSET (Nat \X Nat) /\ d.cross \in SUBSET (Nat \X Nat \X Nat)
  BY <1>2, SearchFields
<1>4. n \in Nat /\ Vertices(d) = 1 .. n /\ v \in 1 .. n
  <2>1. n \in Nat /\ Vertices(d) = 1 .. n
    BY <1>3 DEF Vertices
  <2>2. v \in 0 .. n
    BY <1>1, <2>1, UpSelf DEF TreeInv
  <2> QED
    BY <2>1, <2>2
<1>5. \A w \in 1 .. n : d.ref[w] \in N /\ d.dfn[d.ref[w]] = w
  BY <1>1, <1>4 DEF NumberInv
<1>6. IsTree(t) /\ IsPreorder(t) /\ v \in Up(t, n)
  BY <1>1 DEF TreeInv
<1>7. t[v] \in Nat /\ t[v] < v /\ Up(t, v) = {v} \cup Up(t, t[v]) /\ v \notin Up(t, t[v])
  <2>1. t[v] \in Nat /\ t[v] < v /\ Up(t, v) = {v} \cup Up(t, t[v])
    BY <1>2, <1>4, <1>6, UpStep
  <2>2. Up(t, t[v]) \subseteq 0 .. t[v]
    BY <2>1, UpSelf
  <2> QED
    BY <1>4, <2>1, <2>2
<1>8. /\ p.dfn = d.dfn /\ p.ref = d.ref /\ p.tree = t /\ p.todo = d.todo /\ p.back = d.back /\ p.cross = d.cross
      /\ p.post = [d.post EXCEPT ![d.ref[v]] = d.last + 1] /\ p.last = d.last + 1 /\ p.cur = t[v]
      /\ p.ancestor = [w \in DOMAIN d.ancestor |-> IF d.ancestor[w] = v THEN t[v] ELSE d.ancestor[w]]
  BY <1>2 DEF Finish, SearchRecord
<1>9. \A w \in 1 .. n : d.ancestor[w] \in Nat
  <2> DEFINE a == d.ancestor
  <2>1. a \in Seq(Nat) /\ Len(a) = n
    BY <1>2, <1>3
  <2> HIDE DEF a, n
  <2>2. \A w \in 1 .. n : a[w] \in Nat
    BY <2>1
  <2> QED
    BY <2>2 DEF a
<1>10. DOMAIN d.ancestor = 1 .. n
  BY <1>2, <1>3
<1>11. /\ p.ancestor \in Seq(Nat) /\ Len(p.ancestor) = n
       /\ \A w \in 1 .. n : p.ancestor[w] = IF d.ancestor[w] = v THEN t[v] ELSE d.ancestor[w]
  <2>1. p.ancestor = [w \in 1 .. n |-> IF d.ancestor[w] = v THEN t[v] ELSE d.ancestor[w]]
    BY <1>8, <1>10
  <2>2. \A w \in 1 .. n : (IF d.ancestor[w] = v THEN t[v] ELSE d.ancestor[w]) \in Nat
    BY <1>7, <1>9
  <2> HIDE DEF p, v, t, n
  <2> QED
    BY <1>4, <2>1, <2>2
<1>12. /\ p.last \in Nat /\ p.last > d.last /\ p.last # 0 /\ p.post \in [N -> Nat]
       /\ \A y \in N : p.post[y] = IF y = d.ref[v] THEN p.last ELSE d.post[y]
  <2>1. p.last = d.last + 1 /\ d.last \in Nat
    BY <1>3, <1>8
  <2>2. p.last \in Nat /\ p.last > d.last /\ p.last # 0
    BY <2>1
  <2>3. p.post = [d.post EXCEPT ![d.ref[v]] = p.last] /\ d.post \in [N -> Nat] /\ d.ref[v] \in N
    BY <1>3, <1>4, <1>5, <1>8, <2>1
  <2> HIDE DEF p, v, N
  <2> QED
    BY <2>2, <2>3
<1>13. p \in SearchRecord(N)
  <2>1. p.post \in [N -> Nat] /\ p.last \in Nat
    BY <1>12
  <2> QED
    BY <1>2, <1>7, <1>11, <2>1 DEF Finish, SearchRecord
<1> HIDE DEF p
<1>14. Vertices(p) = 1 .. n /\ EdgesOf(G, p) = EdgesOf(G, d)
  BY <1>8 DEF Vertices, EdgesOf
<1>15. \A w \in 1 .. n : p.post[p.ref[w]] = IF w = v THEN p.last ELSE d.post[d.ref[w]]
  <2>1. \A w \in 1 .. n : d.ref[w] = d.ref[v] => w = v
    BY <1>4, <1>5
  <2>2. p.ref = d.ref
    BY <1>8
  <2> HIDE DEF v, n, N
  <2> QED
    BY <1>4, <1>5, <1>12, <2>1, <2>2
<1>16. \A w \in 1 .. n : d.post[d.ref[w]] = 0 <=> w \in Up(t, v)
  BY <1>1, <1>4 DEF GrayInv
<1>17. SearchTypes(G, root, p)
  BY <1>2, <1>8, <1>11, <1>13 DEF SearchTypes
<1>18. NumberInv(G, root, p)
  BY <1>1, <1>4, <1>8, <1>14 DEF NumberInv
<1>19. TreeInv(G, root, p)
  <2>1. t[v] \in Up(t, n)
    BY <1>2, <1>4, <1>6, UpIsClosed DEF UpClosed
  <2> QED
    BY <1>1, <1>4, <1>8, <1>14, <2>1 DEF TreeInv
<1>20. GrayInv(G, root, p)
  <2>1. ASSUME NEW w \in 1 .. n  PROVE p.post[p.ref[w]] = 0 <=> w \in Up(p.tree, p.cur)
    <3>1. p.post[p.ref[w]] = 0 <=> w # v /\ w \in Up(t, v)
      BY <1>15, <1>16, <1>12
    <3>2. p.tree = t /\ p.cur = t[v]
      BY <1>8
    <3> HIDE DEF v, t, n
    <3> QED
      BY <1>7, <3>1, <3>2
  <2>2. ASSUME NEW y \in N, p.dfn[y] = 0  PROVE p.post[y] = 0
    <3>1. d.dfn[y] = 0 /\ y # d.ref[v]
      BY <1>4, <1>5, <1>8, <2>2
    <3>2. d.post[y] = 0
      BY <1>1, <3>1 DEF GrayInv
    <3> QED
      BY <1>12, <3>1, <3>2
  <2> QED
    BY <1>14, <2>1, <2>2 DEF GrayInv
<1>21. TodoInvBut(G, p, {})
  <2>1. ASSUME NEW w \in 1 .. n
        PROVE  /\ p.todo[w] \subseteq Successors(G, p.ref[w])
               /\ p.post[p.ref[w]] # 0 => p.todo[w] = {}
               /\ \A y \in Successors(G, p.ref[w]) : p.dfn[y] # 0 \/ y \in p.todo[w]
    BY <1>1, <1>4, <1>8, <1>15 DEF TodoInvBut
  <2> QED
    BY <1>14, <2>1 DEF TodoInvBut
<1>22. EdgeInv(G, p)
  BY <1>1, <1>8, <1>14 DEF EdgeInv
<1>23. AncestorInv(p)
  <2>1. ASSUME NEW w \in 1 .. n  PROVE IsMeet(t, t[v], w, p.ancestor[w])
    <3>1. IsMeet(t, v, w, d.ancestor[w])
      BY <1>1, <1>4 DEF AncestorInv
    <3>2. CASE d.ancestor[w] = v
      <4>1. v \in Up(t, w)
        BY <3>1, <3>2 DEF IsMeet
      <4>2. t[v] \in Up(t, w)
        BY <1>2, <1>4, <1>6, <4>1, UpIsClosed DEF UpClosed
      <4>3. t[v] \in Up(t, t[v]) /\ Up(t, t[v]) \subseteq 0 .. t[v]
        BY <1>7, UpSelf
      <4>4. \A b \in Up(t, t[v]) : b <= t[v]
        BY <1>7, <4>3
      <4> QED
        BY <1>11, <3>2, <4>2, <4>3, <4>4 DEF IsMeet
    <3>3. CASE d.ancestor[w] # v
      BY <1>7, <1>11, <3>1, <3>3 DEF IsMeet
    <3> QED
      BY <3>2, <3>3
  <2> QED
    BY <1>8, <1>14, <2>1 DEF AncestorInv
<1>24. PostInv(p)
  <2>1. \A w \in 1 .. n : d.post[d.ref[w]] \in Nat /\ d.post[d.ref[w]] <= d.last
    BY <1>1, <1>3, <1>4, <1>5 DEF PostInv
  <2>2. ASSUME NEW w \in 1 .. n  PROVE p.post[p.ref[w]] <= p.last
    <3>1. d.post[d.ref[w]] \in Nat /\ d.post[d.ref[w]] <= d.last
      BY <2>1
    <3>2. p.post[p.ref[w]] = IF w = v THEN p.last ELSE d.post[d.ref[w]]
      BY <1>15
    <3>3. d.last < p.last /\ d.last \in Nat /\ p.last \in Nat
      BY <1>3, <1>12
    <3> HIDE DEF v, n, N, t
    <3> QED
      BY <3>1, <3>2, <3>3
  <2>3. ASSUME NEW a \in 1 .. n, NEW b \in 1 .. n, a < b, p.post[p.ref[a]] # 0, p.post[p.ref[b]] # 0
        PROVE  IF a \in Up(t, b) THEN p.post[p.ref[b]] < p.post[p.ref[a]]
               ELSE p.post[p.ref[a]] < p.post[p.ref[b]]
    <3>1. CASE a # v /\ b # v
      BY <1>1, <1>4, <1>15, <2>3, <3>1 DEF PostInv
    <3>2. CASE a = v
      <4>1. v \in Up(t, b)
        <5>1. n \in 0 .. Len(t) /\ b \in 0 .. Len(t) /\ v <= b /\ b <= n
          BY <1>2, <1>4, <2>3, <3>2
        <5> QED
          BY <1>6, <5>1, Interval
      <4>2. b # v /\ p.post[p.ref[a]] = p.last /\ p.post[p.ref[b]] = d.post[d.ref[b]]
        BY <1>4, <1>15, <2>3, <3>2
      <4>3. d.post[d.ref[b]] \in Nat /\ d.post[d.ref[b]] <= d.last
        BY <2>1
      <4> HIDE DEF v, t, n, N
      <4> QED
        BY <1>3, <1>12, <3>2, <4>1, <4>2, <4>3
    <3>3. CASE b = v
      <4>1. a # v /\ p.post[p.ref[b]] = p.last /\ p.post[p.ref[a]] = d.post[d.ref[a]]
        BY <1>4, <1>15, <2>3, <3>3
      <4>2. a \notin Up(t, v)
        BY <1>16, <2>3, <4>1
      <4>3. d.post[d.ref[a]] \in Nat /\ d.post[d.ref[a]] <= d.last
        BY <2>1
      <4> HIDE DEF v, t, n, N
      <4> QED
        BY <1>3, <1>12, <3>3, <4>1, <4>2, <4>3
    <3> QED
      BY <3>1, <3>2, <3>3
  <2> QED
    BY <1>8, <1>14, <2>2, <2>3 DEF PostInv
<1> QED
  BY <1>17, <1>18, <1>19, <1>20, <1>21, <1>22, <1>23, <1>24 DEF SearchInv, SearchInvBut, p
-----------------------------------------------------------------------------
(***************************************************************************)
(* What a search leaves, and the loops.                                    *)
(***************************************************************************)
Dfs(t, E) ==
  /\ IsTree(t) /\ IsPreorder(t) /\ Len(t) >= 1
  /\ E \subseteq (1 .. Len(t)) \X (1 .. Len(t))
  /\ \A v \in 1 .. Len(t) : IF v = 1 THEN t[v] = 0 ELSE t[v] # 0 /\ <<t[v], v>> \in E
  /\ \A e \in E : e[1] < e[2] => e[1] \in Up(t, e[2])

\* The loop of h: what leads to h through vertices below it in the tree.
BackClosed(t, E, h, S) == \A e \in E : e[2] \in S /\ h \in Up(t, e[1]) => e[1] \in S
Comp(t, E, h) ==
  {v \in 1 .. Len(t) : \A S \in SUBSET (1 .. Len(t)) : h \in S /\ BackClosed(t, E, h, S) => v \in S}
HasBack(t, E, h) == \E e \in E : e[2] = h /\ h \in Up(t, e[1])

Searched(G, root, d) == IsGraph(G) /\ SearchInv(G, root, d) /\ IsSearched(d)

\* What is known of the tree and the numbers when the search is over.
LEMMA SearchedFacts ==
  ASSUME NEW G, NEW root, NEW d, Searched(G, root, d)
  PROVE  LET n == Len(d.ref)
         IN  /\ n \in Nat /\ n >= 1 /\ Vertices(d) = 1 .. n /\ Len(d.tree) = n /\ d.ref[1] = root
             /\ Dfs(d.tree, EdgesOf(G, d))
             /\ \A v \in 1 .. n : d.ref[v] \in NodesOf(G, root) /\ d.dfn[d.ref[v]] = v
             /\ \A v, w \in 1 .. n : v < w =>
                  IF v \in Up(d.tree, w) THEN d.post[d.ref[w]] < d.post[d.ref[v]]
                  ELSE d.post[d.ref[v]] < d.post[d.ref[w]]
             /\ \A v \in 1 .. n : d.post[d.ref[v]] \in Nat
             /\ \A v \in 1 .. n : \A y \in Successors(G, d.ref[v]) :
                  \E w \in 1 .. n : y = d.ref[w] /\ <<v, w>> \in EdgesOf(G, d)
<1> DEFINE n == Len(d.ref)
           N == NodesOf(G, root)
           t == d.tree
           E == EdgesOf(G, d)
<1>1. /\ SearchTypes(G, root, d) /\ NumberInv(G, root, d) /\ TreeInv(G, root, d)
      /\ GrayInv(G, root, d) /\ TodoInvBut(G, d, {}) /\ EdgeInv(G, d) /\ AncestorInv(d) /\ PostInv(d)
      /\ d.ref # <<>> /\ d.cur = 0 /\ IsGraph(G)
  BY DEF Searched, SearchInv, SearchInvBut, IsSearched
<1>2. d \in SearchRecord(N) /\ Len(d.tree) = n
  BY <1>1 DEF SearchTypes
<1>3. d.dfn \in [N -> Nat] /\ d.post \in [N -> Nat] /\ d.ref \in Seq(N) /\ d.tree \in Seq(Nat)
  BY <1>2, SearchFields
<1>4. n \in Nat /\ n >= 1 /\ Vertices(d) = 1 .. n /\ 1 \in 1 .. n
  <2>1. n \in Nat /\ n # 0 /\ Vertices(d) = 1 .. n
    BY <1>1, <1>3 DEF Vertices
  <2> QED
    BY <2>1
<1>5. \A v \in 1 .. n : d.ref[v] \in N /\ d.dfn[d.ref[v]] = v
  BY <1>1, <1>4 DEF NumberInv
<1>6. E \subseteq (1 .. n) \X (1 .. n)
  BY <1>4 DEF EdgesOf
<1>7. \A v \in 1 .. n : IF v = 1 THEN d.ref[v] = root /\ t[v] = 0
                         ELSE t[v] # 0 /\ <<d.ref[t[v]], d.ref[v]>> \in G
  BY <1>1, <1>4 DEF TreeInv
<1>8. \A v \in 1 .. n : t[v] # 0 => t[v] \in 1 .. n
  BY <1>1, <1>2, <1>4 DEF TreeInv, IsTree
<1>9. \A v \in 1 .. n : IF v = 1 THEN t[v] = 0 ELSE t[v] # 0 /\ <<t[v], v>> \in E
  BY <1>4, <1>7, <1>8 DEF EdgesOf
<1>10. Dfs(t, E)
  <2>1. \A e \in E : e[1] < e[2] => e[1] \in Up(t, e[2])
    BY <1>1 DEF EdgeInv
  <2>2. IsTree(t) /\ IsPreorder(t)
    BY <1>1 DEF TreeInv
  <2> HIDE DEF t, E, n
  <2> QED
    BY <1>2, <1>4, <1>6, <1>9, <2>1, <2>2 DEF Dfs, t, n
<1>11. \A v \in 1 .. n : d.post[d.ref[v]] \in Nat /\ d.post[d.ref[v]] # 0
  <2>1. ASSUME NEW v \in 1 .. n  PROVE d.post[d.ref[v]] # 0
    <3>1. v \notin Up(t, d.cur)
      BY <1>1, UpOfRoot
    <3> QED
      BY <1>1, <1>4, <3>1 DEF GrayInv
  <2> QED
    BY <1>3, <1>5, <2>1
<1>12. \A v, w \in 1 .. n : v < w =>
         IF v \in Up(d.tree, w) THEN d.post[d.ref[w]] < d.post[d.ref[v]]
         ELSE d.post[d.ref[v]] < d.post[d.ref[w]]
  BY <1>1, <1>4, <1>11 DEF PostInv
<1>13. ASSUME NEW v \in 1 .. n, NEW y \in Successors(G, d.ref[v])
       PROVE  \E w \in 1 .. n : y = d.ref[w] /\ <<v, w>> \in E
  <2>1. d.dfn[y] # 0
    BY <1>1, <1>4, <1>11 DEF TodoInvBut
  <2>2. y \in N
    BY DEF Successors, NodesOf
  <2>3. d.dfn[y] \in 1 .. n /\ d.ref[d.dfn[y]] = y
    BY <1>1, <1>4, <2>1, <2>2 DEF NumberInv
  <2>4. PICK e \in G : e[1] = d.ref[v] /\ y = e[2]
    BY Zenon DEF Successors
  <2>5. <<d.ref[v], y>> \in G
    BY <1>1, <2>4 DEF IsGraph
  <2>6. <<v, d.dfn[y]>> \in E
    BY <1>4, <2>3, <2>5 DEF EdgesOf
  <2> QED
    BY <2>3, <2>6
<1> QED
  BY <1>2, <1>4, <1>5, <1>7, <1>10, <1>11, <1>12, <1>13

\* The loop of h is the least set with h that is closed backward,
LEMMA CompIn ==
  ASSUME NEW t, NEW E, NEW h, NEW S \in SUBSET (1 .. Len(t)), h \in S, BackClosed(t, E, h, S)
  PROVE  Comp(t, E, h) \subseteq S
BY DEF Comp

\* and is closed backward itself; all of it descends from h.
LEMMA CompSelf ==
  ASSUME NEW t, NEW E, Dfs(t, E), NEW h \in 1 .. Len(t)
  PROVE  /\ h \in Comp(t, E, h) /\ BackClosed(t, E, h, Comp(t, E, h))
         /\ Comp(t, E, h) \subseteq {v \in 1 .. Len(t) : h \in Up(t, v)}
<1>1. h \in Comp(t, E, h)
  BY DEF Comp
<1>2. BackClosed(t, E, h, Comp(t, E, h))
  <2>1. SUFFICES ASSUME NEW e \in E, e[2] \in Comp(t, E, h), h \in Up(t, e[1])
                 PROVE  e[1] \in Comp(t, E, h)
    BY DEF BackClosed
  <2>2. e[1] \in 1 .. Len(t)
    BY DEF Dfs
  <2>3. ASSUME NEW S \in SUBSET (1 .. Len(t)), h \in S, BackClosed(t, E, h, S)  PROVE e[1] \in S
    <3>1. e[2] \in S
      BY <2>1, <2>3 DEF Comp
    <3> QED
      BY <2>1, <2>3, <3>1 DEF BackClosed
  <2> QED
    BY <2>2, <2>3 DEF Comp
<1>3. Comp(t, E, h) \subseteq {v \in 1 .. Len(t) : h \in Up(t, v)}
  <2> DEFINE S == {v \in 1 .. Len(t) : h \in Up(t, v)}
  <2>1. h \in S
    BY UpSelf
  <2>2. BackClosed(t, E, h, S)
    BY DEF BackClosed, Dfs
  <2>3. S \in SUBSET (1 .. Len(t))
    OBVIOUS
  <2> HIDE DEF S
  <2>4. Comp(t, E, h) \subseteq S
    BY <2>1, <2>2, <2>3, CompIn
  <2> QED
    BY <2>4 DEF S
<1> QED
  BY <1>1, <1>2, <1>3

\* What descends from h is not left by an edge that leads to h or beyond.
LEMMA BelowIsClosed ==
  ASSUME NEW t, NEW E, Dfs(t, E), NEW h \in 1 .. Len(t), NEW e \in E, h \in Up(t, e[1]), h <= e[2]
  PROVE  h \in Up(t, e[2])
<1>1. /\ IsTree(t) /\ IsPreorder(t) /\ Len(t) \in Nat /\ e[1] \in 1 .. Len(t) /\ e[2] \in 1 .. Len(t)
      /\ e[1] \in 0 .. Len(t) /\ e[2] \in 0 .. Len(t) /\ e[2] \in Nat
  BY DEF Dfs, IsTree
<1>2. CASE e[1] < e[2]
  <2>1. e[1] \in Up(t, e[2])
    BY <1>2 DEF Dfs
  <2>2. Up(t, e[1]) \subseteq Up(t, e[2])
    BY <1>1, <2>1, UpTrans
  <2> QED
    BY <2>2
<1>3. CASE ~(e[1] < e[2])
  <2>1. e[2] <= e[1]
    BY <1>1, <1>3
  <2> QED
    BY <1>1, <2>1, Interval
<1> QED
  BY <1>2, <1>3
-----------------------------------------------------------------------------
\* What is reachable from S is the least set with S that edges do not leave.
LEMMA ReachableBase ==
  ASSUME NEW rel, NEW S, S \subseteq Node
  PROVE  S \subseteq ReachableIn(rel, S) /\ ReachableIn(rel, S) \subseteq Node
BY DEF ReachableIn

\* An edge leads from what is reachable to what is reachable,
LEMMA ReachableStep ==
  ASSUME NEW rel, rel \subseteq Node \X Node, NEW S, NEW e \in rel, e[1] \in ReachableIn(rel, S)
  PROVE  e[2] \in ReachableIn(rel, S)
<1>1. e[2] \in Node
  OBVIOUS
<1>2. ASSUME NEW T \in SUBSET Node, S \subseteq T, \A f \in rel : f[1] \in T => f[2] \in T
      PROVE  e[2] \in T
  <2>1. e[1] \in T
    BY <1>2 DEF ReachableIn
  <2> QED
    BY <1>2, <2>1
<1> QED
  BY <1>1, <1>2 DEF ReachableIn

\* and nothing is reachable that edges do not lead to.
LEMMA ReachableLeast ==
  ASSUME NEW rel, NEW S, NEW T \in SUBSET Node, S \subseteq T, \A e \in rel : e[1] \in T => e[2] \in T
  PROVE  ReachableIn(rel, S) \subseteq T
BY DEF ReachableIn

IsGraphOver(G) == G \subseteq Node \X Node /\ Root \in Node

\* The search reaches what is reachable.
LEMMA ReachedIsRef ==
  ASSUME NEW G, IsGraphOver(G), NEW d, Searched(G, Root, d)
  PROVE  ReachableIn(G, {Root}) = {d.ref[v] : v \in 1 .. Len(d.ref)}
<1> DEFINE n == Len(d.ref)
           t == d.tree
           E == EdgesOf(G, d)
           T == {d.ref[v] : v \in 1 .. n}
           R == ReachableIn(G, {Root})
<1>1. /\ n \in Nat /\ n >= 1 /\ Len(t) = n /\ d.ref[1] = Root /\ Dfs(t, E) /\ Vertices(d) = 1 .. n
      /\ \A v \in 1 .. n : d.ref[v] \in NodesOf(G, Root)
  BY SearchedFacts
<1>2. ASSUME NEW v \in 1 .. n, NEW y \in Successors(G, d.ref[v])
      PROVE  \E w \in 1 .. n : y = d.ref[w] /\ <<v, w>> \in EdgesOf(G, d)
  BY SearchedFacts
<1>3. NodesOf(G, Root) \subseteq Node
  BY DEF NodesOf, IsGraphOver
<1>4. R \subseteq T
  <2>1. T \in SUBSET Node /\ {Root} \subseteq T
    BY <1>1, <1>3
  <2>2. ASSUME NEW e \in G, e[1] \in T  PROVE e[2] \in T
    <3>1. PICK v \in 1 .. n : e[1] = d.ref[v]
      BY <2>2
    <3>2. e[2] \in Successors(G, d.ref[v])
      BY <3>1 DEF Successors
    <3> QED
      BY <1>2, <3>2
  <2> HIDE DEF T
  <2> QED
    BY <2>1, <2>2, ReachableLeast
<1>5. ASSUME NEW u \in 1 .. n, d.ref[u] \notin R  PROVE FALSE
  <2> DEFINE Bad == {v \in 1 .. n : d.ref[v] \notin R}
  <2>1. PICK v \in Bad : \A k \in Bad : v <= k
    <3>1. u \in Bad /\ Bad \subseteq Nat
      BY <1>5
    <3> HIDE DEF Bad
    <3> QED
      BY <3>1, LeastNat, Zenon
  <2>2. v \in 1 .. n /\ d.ref[v] \notin R
    BY <2>1
  <2>3. v # 1
    <3>1. {Root} \subseteq R
      BY ReachableBase DEF IsGraphOver
    <3> QED
      BY <1>1, <2>2, <3>1
  <2>4. t[v] # 0 /\ <<t[v], v>> \in E
    BY <1>1, <2>2, <2>3 DEF Dfs
  <2>5. t[v] \in 1 .. n /\ t[v] < v
    BY <1>1, <2>2, <2>4, UpStep DEF Dfs
  <2>6. d.ref[t[v]] \in R
    <3>1. ~(v <= t[v])
      BY <2>2, <2>5
    <3>2. t[v] \notin Bad
      <4> HIDE DEF Bad
      <4> QED
        BY <2>1, <3>1
    <3> QED
      BY <2>5, <3>2
  <2>7. <<d.ref[t[v]], d.ref[v]>> \in G
    BY <2>4 DEF EdgesOf
  <2>8. G \subseteq Node \X Node
    BY DEF IsGraphOver
  <2>9. d.ref[v] \in R
    BY <2>6, <2>7, <2>8, ReachableStep
  <2> QED
    BY <2>2, <2>9
<1> QED
  BY <1>4, <1>5

\* LoopOf, of any graph and search.
NodesFrom(G, d, x) == {y \in ReachableIn(G, {Root}) : d.dfn[y] >= d.dfn[x]}
EdgesAmong(G, A) == {e \in G : e[1] \in A /\ e[2] \in A}
LoopIn(G, d, x) ==
  LET rel == EdgesAmong(G, NodesFrom(G, d, x))
  IN  {y \in ReachableIn(rel, Successors(rel, x)) : x \in ReachableIn(rel, {y})}

\* e is an edge between vertices from h on.
IsEdgeFrom(G, d, h, e) ==
  \E u, v \in 1 .. Len(d.ref) :
    u >= h /\ v >= h /\ <<u, v>> \in EdgesOf(G, d) /\ e = <<d.ref[u], d.ref[v]>>

\* The edges between what has no lesser number than h are those between the
\* vertices from h on.
LEMMA EdgesFrom ==
  ASSUME NEW G, IsGraphOver(G), NEW d, Searched(G, Root, d), NEW h \in 1 .. Len(d.ref)
  PROVE  /\ EdgesAmong(G, NodesFrom(G, d, d.ref[h])) \subseteq Node \X Node
         /\ \A u, v \in 1 .. Len(d.ref) : u >= h /\ v >= h /\ <<u, v>> \in EdgesOf(G, d) =>
              <<d.ref[u], d.ref[v]>> \in EdgesAmong(G, NodesFrom(G, d, d.ref[h]))
         /\ \A e \in EdgesAmong(G, NodesFrom(G, d, d.ref[h])) : IsEdgeFrom(G, d, h, e)
<1> DEFINE n == Len(d.ref)
           A == NodesFrom(G, d, d.ref[h])
           rel == EdgesAmong(G, A)
<1>1. \A v \in 1 .. n : d.dfn[d.ref[v]] = v
  BY SearchedFacts
<1>2. ReachableIn(G, {Root}) = {d.ref[v] : v \in 1 .. n} /\ Vertices(d) = 1 .. n
  <2>1. ReachableIn(G, {Root}) = {d.ref[v] : v \in 1 .. Len(d.ref)}
    BY ReachedIsRef, ZenonT(40)
  <2>2. Vertices(d) = 1 .. n
    BY SearchedFacts
  <2> QED
    BY <2>1, <2>2
<1>3. \A v \in 1 .. n : d.ref[v] \in A <=> v >= h
  BY <1>1, <1>2 DEF NodesFrom
<1>4. \A y \in A : \E v \in 1 .. n : v >= h /\ y = d.ref[v]
  BY <1>1, <1>2 DEF NodesFrom
<1>5. \A e \in G : e = <<e[1], e[2]>> /\ e \in Node \X Node
  BY DEF IsGraphOver
<1>6. rel = {e \in G : e[1] \in A /\ e[2] \in A}
  BY DEF EdgesAmong
<1> HIDE DEF rel, A
<1>7. ASSUME NEW u \in 1 .. n, NEW v \in 1 .. n, u >= h, v >= h, <<u, v>> \in EdgesOf(G, d)
      PROVE  <<d.ref[u], d.ref[v]>> \in rel
  BY <1>3, <1>7, <1>6 DEF EdgesOf
<1>8. ASSUME NEW e \in rel  PROVE IsEdgeFrom(G, d, h, e)
  <2>1. PICK u \in 1 .. n : u >= h /\ e[1] = d.ref[u]
    BY <1>4, <1>6
  <2>2. PICK v \in 1 .. n : v >= h /\ e[2] = d.ref[v]
    BY <1>4, <1>6
  <2>3. e = <<d.ref[u], d.ref[v]>> /\ e \in G
    BY <1>5, <1>6, <2>1, <2>2
  <2>4. <<u, v>> \in EdgesOf(G, d)
    BY <1>2, <2>3 DEF EdgesOf
  <2> QED
    BY <2>1, <2>2, <2>3, <2>4 DEF IsEdgeFrom
<1>9. rel \subseteq Node \X Node
  BY <1>5, <1>6
<1> QED
  BY <1>7, <1>8, <1>9 DEF rel, A

\* What can be reached from what is reachable is reachable.
LEMMA ReachableTrans ==
  ASSUME NEW rel, rel \subseteq Node \X Node, NEW S, S \subseteq Node, NEW y \in ReachableIn(rel, S)
  PROVE  ReachableIn(rel, {y}) \subseteq ReachableIn(rel, S)
<1> DEFINE T == ReachableIn(rel, S)
<1>1. T \in SUBSET Node /\ {y} \subseteq T
  BY ReachableBase
<1>2. ASSUME NEW e \in rel, e[1] \in T  PROVE e[2] \in T
  BY <1>2, ReachableStep
<1> HIDE DEF T
<1>3. ReachableIn(rel, {y}) \subseteq T
  BY <1>1, <1>2, ReachableLeast
<1> QED
  BY <1>3 DEF T

\* The way down the tree.
LEMMA TreeReaches ==
  ASSUME NEW G, NEW t, NEW E, Dfs(t, E), NEW h \in 1 .. Len(t), NEW R,
         NEW ref, \A w \in 1 .. Len(t) : t[w] = h => ref[w] \in R,
         \A v, w \in 1 .. Len(t) : h \in Up(t, v) /\ t[w] = v /\ ref[v] \in R => ref[w] \in R,
         NEW x \in 1 .. Len(t), h \in Up(t, x), x # h
  PROVE  ref[x] \in R
<1> DEFINE Bad == {v \in 1 .. Len(t) : h \in Up(t, v) /\ v # h /\ ref[v] \notin R}
<1>1. SUFFICES ASSUME ref[x] \notin R  PROVE FALSE
  OBVIOUS
<1>2. PICK v \in Bad : \A k \in Bad : v <= k
  <2>1. x \in Bad /\ Bad \subseteq Nat
    BY <1>1
  <2> HIDE DEF Bad
  <2> QED
    BY <2>1, LeastNat, Zenon
<1>3. v \in 1 .. Len(t) /\ h \in Up(t, v) /\ v # h /\ ref[v] \notin R
  BY <1>2
<1>4. t[v] \in Nat /\ t[v] < v /\ Up(t, v) = {v} \cup Up(t, t[v])
  BY <1>3, UpStep DEF Dfs
<1>5. h \in Up(t, t[v]) /\ Up(t, t[v]) \subseteq 0 .. t[v]
  BY <1>3, <1>4, UpSelf
<1>6. t[v] \in 1 .. Len(t)
  BY <1>3, <1>4, <1>5
<1>7. ~(v <= t[v])
  BY <1>3, <1>4
<1>8. t[v] \notin Bad
  <2> HIDE DEF Bad
  <2> QED
    BY <1>2, <1>7
<1>9. CASE t[v] = h
  BY <1>3, <1>9
<1>10. CASE t[v] # h
  BY <1>3, <1>5, <1>6, <1>8, <1>10
<1> QED
  BY <1>9, <1>10

\* The loop of a node in the graph, which ElementsMatchLoops and its like speak
\* of, is that of its vertex in the tree.
LEMMA LoopIsComp ==
  ASSUME NEW G, IsGraphOver(G), NEW d, Searched(G, Root, d), NEW h \in 1 .. Len(d.ref)
  PROVE  LoopIn(G, d, d.ref[h]) =
           IF HasBack(d.tree, EdgesOf(G, d), h)
           THEN {d.ref[v] : v \in Comp(d.tree, EdgesOf(G, d), h)} ELSE {}
<1> DEFINE n == Len(d.ref)
           t == d.tree
           E == EdgesOf(G, d)
           x == d.ref[h]
           C == Comp(t, E, h)
           rel == EdgesAmong(G, NodesFrom(G, d, x))
           next == Successors(rel, x)
           R == ReachableIn(rel, next)
<1>1. /\ n \in Nat /\ n >= 1 /\ Len(t) = n /\ Dfs(t, E)
      /\ \A v \in 1 .. n : d.ref[v] \in NodesOf(G, Root) /\ d.dfn[d.ref[v]] = v
  BY SearchedFacts
<1>2. /\ rel \subseteq Node \X Node
      /\ \A u, v \in 1 .. n : u >= h /\ v >= h /\ <<u, v>> \in E => <<d.ref[u], d.ref[v]>> \in rel
  BY EdgesFrom
<1>3. ASSUME NEW e \in rel
      PROVE  \E u, v \in 1 .. n : u >= h /\ v >= h /\ <<u, v>> \in E /\ e = <<d.ref[u], d.ref[v]>>
  <2>1. IsEdgeFrom(G, d, h, e)
    BY EdgesFrom
  <2> QED
    BY <2>1 DEF IsEdgeFrom
<1>4. LoopIn(G, d, x) = {y \in R : x \in ReachableIn(rel, {y})}
  BY DEF LoopIn
<1> HIDE DEF rel
<1>5. \A v \in 1 .. n : d.ref[v] \in Node
  BY <1>1 DEF NodesOf, IsGraphOver
<1>6. \A v, w \in 1 .. n : d.ref[v] = d.ref[w] => v = w
  BY <1>1
<1>7. E \subseteq (1 .. n) \X (1 .. n)
  BY <1>1 DEF Dfs
<1>8. next \subseteq Node
  BY <1>2 DEF Successors
<1>9. ASSUME NEW y \in next  PROVE \E w \in 1 .. n : w >= h /\ <<h, w>> \in E /\ y = d.ref[w]
  <2>1. PICK e \in rel : e[1] = x /\ y = e[2]
    BY Zenon DEF Successors
  <2>2. PICK u \in 1 .. n, w \in 1 .. n : w >= h /\ <<u, w>> \in E /\ e = <<d.ref[u], d.ref[w]>>
    BY <1>3
  <2>3. u = h
    BY <1>6, <2>1, <2>2
  <2> QED
    BY <2>1, <2>2, <2>3
<1>10. \A w \in 1 .. n : w >= h /\ <<h, w>> \in E => d.ref[w] \in next
  <2>1. ASSUME NEW w \in 1 .. n, w >= h, <<h, w>> \in E  PROVE d.ref[w] \in next
    <3>1. <<x, d.ref[w]>> \in rel
      BY <1>1, <1>2, <2>1
    <3> QED
      BY <3>1 DEF Successors
  <2> QED
    BY <2>1
<1> HIDE DEF next
<1> DEFINE D == {w \in 1 .. n : h \in Up(t, w)}
<1>11. ASSUME NEW u \in D, NEW w \in 1 .. n, w >= h, <<u, w>> \in E  PROVE w \in D
  <2>1. h \in Up(t, w)
    <3> DEFINE e == <<u, w>>
    <3>1. e \in E /\ h \in Up(t, e[1]) /\ h <= e[2] /\ h \in 1 .. Len(t)
      BY <1>1, <1>11
    <3> HIDE DEF e, t, E, n
    <3>2. h \in Up(t, e[2])
      BY <1>1, <3>1, BelowIsClosed
    <3> QED
      BY <3>2 DEF e
  <2> QED
    BY <2>1
<1>12. h \in D /\ C \subseteq D /\ h \in C /\ BackClosed(t, E, h, C)
  BY <1>1, CompSelf, UpSelf
\* A set of vertices of D that no edge leaves holds what is reached from it.
<1>13. ASSUME NEW S \in SUBSET D, \A u \in S : \A w \in D : <<u, w>> \in E => w \in S,
              NEW B, B \subseteq {d.ref[w] : w \in S}
       PROVE  ReachableIn(rel, B) \subseteq {d.ref[w] : w \in S}
  <2> DEFINE T == {d.ref[w] : w \in S}
  <2>1. T \in SUBSET Node
    BY <1>5, <1>13
  <2>2. ASSUME NEW e \in rel, e[1] \in T  PROVE e[2] \in T
    <3>1. PICK u \in 1 .. n, w \in 1 .. n : w >= h /\ <<u, w>> \in E /\ e = <<d.ref[u], d.ref[w]>>
      BY <1>3
    <3>2. u \in S
      BY <1>6, <1>13, <2>2, <3>1
    <3>3. w \in S
      BY <1>11, <1>13, <3>1, <3>2
    <3> QED
      BY <3>1, <3>3
  <2> HIDE DEF T
  <2>3. ReachableIn(rel, B) \subseteq T
    BY <1>13, <2>1, <2>2, ReachableLeast DEF T
  <2> QED
    BY <2>3 DEF T
<1> HIDE DEF C
<1>14. ASSUME NEW y \in LoopIn(G, d, x)  PROVE \E v \in C : y = d.ref[v]
  <2>1. y \in R /\ x \in ReachableIn(rel, {y})
    BY <1>4
  <2>2. R \subseteq {d.ref[w] : w \in D}
    <3>1. next \subseteq {d.ref[w] : w \in D}
      BY <1>9, <1>11, <1>12
    <3> HIDE DEF D
    <3> QED
      BY <1>11, <1>13, <3>1
  <2>3. PICK v \in D : y = d.ref[v]
    BY <2>1, <2>2
  <2>4. ASSUME v \notin C  PROVE FALSE
    <3> DEFINE S == D \ C
    <3>1. \A u \in S : \A w \in D : <<u, w>> \in E => w \in S
      BY <1>12 DEF BackClosed
    <3>2. {y} \subseteq {d.ref[w] : w \in S}
      BY <2>3, <2>4
    <3>3. ReachableIn(rel, {y}) \subseteq {d.ref[w] : w \in S}
      <4>1. S \in SUBSET D
        OBVIOUS
      <4> HIDE DEF S, D
      <4> QED
        BY <1>13, <3>1, <3>2, <4>1
    <3>4. PICK w \in S : d.ref[h] = d.ref[w]
      BY <2>1, <3>3
    <3> QED
      BY <1>6, <1>12, <3>4
  <2> QED
    BY <2>3, <2>4
<1>15. ASSUME NEW y \in LoopIn(G, d, x), ~HasBack(t, E, h)  PROVE FALSE
  <2>1. y \in R /\ x \in ReachableIn(rel, {y})
    BY <1>4
  <2> DEFINE S == D \ {h}
  <2>2. S \in SUBSET D /\ \A u \in D : \A w \in D : <<u, w>> \in E => w \in S
    BY <1>15 DEF HasBack
  <2>3. next \subseteq {d.ref[w] : w \in S}
    BY <1>9, <1>11, <1>12, <2>2
  <2>4. R \subseteq {d.ref[w] : w \in S}
    <3> HIDE DEF S, D
    <3> QED
      BY <1>13, <2>2, <2>3
  <2>5. {y} \subseteq {d.ref[w] : w \in S}
    BY <2>1, <2>4
  <2>6. ReachableIn(rel, {y}) \subseteq {d.ref[w] : w \in S}
    <3> HIDE DEF S, D
    <3> QED
      BY <1>13, <2>2, <2>5
  <2>7. PICK w \in S : d.ref[h] = d.ref[w]
    BY <2>1, <2>6
  <2> QED
    BY <1>6, <2>7
<1>16. ASSUME HasBack(t, E, h), NEW v \in C  PROVE d.ref[v] \in LoopIn(G, d, x)
  <2>1. x \in ReachableIn(rel, {d.ref[v]})
    <3> DEFINE S == {w \in D : x \in ReachableIn(rel, {d.ref[w]})}
    <3>1. h \in S
      BY <1>5, <1>12, ReachableBase
    <3>2. ASSUME NEW e \in E, e[2] \in S, h \in Up(t, e[1])  PROVE e[1] \in S
      <4>1. e[1] \in D /\ e[2] \in D /\ e = <<e[1], e[2]>>
        BY <1>7, <3>2
      <4>2. e[1] >= h /\ e[2] >= h
        BY <4>1, UpSelf
      <4>3. <<d.ref[e[1]], d.ref[e[2]]>> \in rel
        BY <1>2, <4>1, <4>2
      <4>4. {d.ref[e[1]]} \subseteq Node /\ d.ref[e[1]] \in ReachableIn(rel, {d.ref[e[1]]})
        BY <1>5, <4>1, ReachableBase
      <4>5. d.ref[e[2]] \in ReachableIn(rel, {d.ref[e[1]]})
        BY <1>2, <4>3, <4>4, ReachableStep
      <4>6. x \in ReachableIn(rel, {d.ref[e[1]]})
        BY <1>2, <3>2, <4>4, <4>5, ReachableTrans
      <4> QED
        BY <4>1, <4>6
    <3>3. S \in SUBSET (1 .. n)
      OBVIOUS
    <3> HIDE DEF S
    <3>4. BackClosed(t, E, h, S)
      BY <3>2 DEF BackClosed
    <3>5. C \subseteq S
      BY <1>1, <3>1, <3>3, <3>4, CompIn DEF C
    <3> QED
      BY <3>5 DEF S
  <2>2. \A w \in 1 .. n : t[w] = h => d.ref[w] \in R
    <3>1. ASSUME NEW w \in 1 .. n, t[w] = h  PROVE d.ref[w] \in R
      <4>1. <<h, w>> \in E /\ h < w
        BY <1>1, <3>1, UpStep DEF Dfs
      <4>2. d.ref[w] \in next
        BY <1>10, <4>1
      <4> QED
        BY <1>8, <4>2, ReachableBase
    <3> QED
      BY <3>1
  <2>3. ASSUME NEW u \in 1 .. n, NEW w \in 1 .. n, h \in Up(t, u), t[w] = u, d.ref[u] \in R
        PROVE  d.ref[w] \in R
    <3>1. <<u, w>> \in E /\ u < w /\ u >= h
      BY <1>1, <2>3, UpStep, UpSelf DEF Dfs
    <3>2. <<d.ref[u], d.ref[w]>> \in rel
      BY <1>2, <3>1
    <3> QED
      BY <1>2, <2>3, <3>2, ReachableStep
  <2>4. ASSUME NEW w \in D, w # h  PROVE d.ref[w] \in R
    <3> DEFINE ref == d.ref
    <3>1. w \in 1 .. Len(t) /\ h \in Up(t, w) /\ h \in 1 .. Len(t)
      BY <1>1, <2>4
    <3> HIDE DEF R, t, E, n, ref
    <3>2. ref[w] \in R
      BY <1>1, <2>2, <2>3, <2>4, <3>1, TreeReaches DEF ref
    <3> QED
      BY <3>2 DEF ref
  <2>5. d.ref[h] \in R
    <3>1. PICK e \in E : e[2] = h /\ h \in Up(t, e[1])
      BY <1>16 DEF HasBack
    <3>2. e[1] \in D /\ e = <<e[1], h>>
      BY <1>7, <3>1
    <3>3. CASE e[1] = h
      <4>1. d.ref[h] \in next
        BY <1>10, <3>2, <3>3
      <4> QED
        BY <1>8, <4>1, ReachableBase
    <3>4. CASE e[1] # h
      <4>1. d.ref[e[1]] \in R /\ e[1] >= h
        BY <2>4, <3>2, <3>4, UpSelf
      <4>2. <<d.ref[e[1]], d.ref[h]>> \in rel
        BY <1>2, <3>2, <4>1
      <4> QED
        BY <1>2, <4>1, <4>2, ReachableStep
    <3> QED
      BY <3>3, <3>4
  <2> QED
    BY <1>4, <1>12, <2>1, <2>4, <2>5
<1> QED
  <2>1. CASE HasBack(t, E, h)
    <3>1. LoopIn(G, d, x) = {d.ref[v] : v \in C}
      <4> HIDE DEF x, t, E
      <4> QED
        BY <1>14, <1>16, <2>1
    <3> QED
      BY <2>1, <3>1 DEF C
  <2>2. CASE ~HasBack(t, E, h)
    BY <1>15, <2>2
  <2> QED
    BY <2>1, <2>2 DEF C

\* An edge comes from outside of the loop of its target if its source is finished
\* after the target.
LEMMA OutsideOfLoops ==
  ASSUME NEW G, IsGraphOver(G), NEW d, Searched(G, Root, d),
         NEW u \in 1 .. Len(d.ref), NEW v \in 1 .. Len(d.ref), <<u, v>> \in EdgesOf(G, d)
  PROVE  d.post[d.ref[v]] < d.post[d.ref[u]] <=> d.ref[u] \notin LoopIn(G, d, d.ref[v])
<1> DEFINE n == Len(d.ref)
           t == d.tree
           E == EdgesOf(G, d)
           C == Comp(t, E, v)
<1>1. /\ n \in Nat /\ n >= 1 /\ Len(t) = n /\ Dfs(t, E)
      /\ \A w \in 1 .. n : d.ref[w] \in NodesOf(G, Root) /\ d.dfn[d.ref[w]] = w
      /\ \A w \in 1 .. n : d.post[d.ref[w]] \in Nat
  BY SearchedFacts
<1>2. \A a, b \in 1 .. n : a < b =>
        IF a \in Up(t, b) THEN d.post[d.ref[b]] < d.post[d.ref[a]]
        ELSE d.post[d.ref[a]] < d.post[d.ref[b]]
  BY SearchedFacts
<1>3. d.ref[u] \in LoopIn(G, d, d.ref[v]) <=> v \in Up(t, u)
  <2>1. ASSUME v \in Up(t, u)  PROVE d.ref[u] \in LoopIn(G, d, d.ref[v])
    <3>1. HasBack(t, E, v)
      BY <2>1 DEF HasBack
    <3>2. v \in C /\ BackClosed(t, E, v, C)
      BY <1>1, CompSelf
    <3>3. u \in C
      <4> DEFINE e == <<u, v>>
      <4>1. e \in E /\ e[2] \in C /\ v \in Up(t, e[1])
        BY <2>1, <3>2
      <4> HIDE DEF e, C
      <4>2. e[1] \in C
        BY <3>2, <4>1 DEF BackClosed
      <4> QED
        BY <4>2 DEF e
    <3> QED
      BY <3>1, <3>3, LoopIsComp
  <2>2. ASSUME d.ref[u] \in LoopIn(G, d, d.ref[v])  PROVE v \in Up(t, u)
    <3>1. d.ref[u] \in {d.ref[w] : w \in C}
      BY <2>2, LoopIsComp
    <3>2. PICK w \in C : d.ref[u] = d.ref[w]
      BY <3>1
    <3>3. w \in 1 .. n /\ v \in Up(t, w)
      BY <1>1, CompSelf
    <3>4. u = w
      BY <1>1, <3>2, <3>3
    <3> QED
      BY <3>3, <3>4
  <2> QED
    BY <2>1, <2>2
<1>4. d.post[d.ref[v]] < d.post[d.ref[u]] <=> v \notin Up(t, u)
  <2>1. CASE u = v
    BY <1>1, <2>1, UpSelf
  <2>2. CASE u < v
    <3> DEFINE e == <<u, v>>
    <3>1. u \in Up(t, v)
      BY <1>1, <2>2 DEF Dfs
    <3>2. d.post[d.ref[v]] < d.post[d.ref[u]]
      BY <1>2, <2>2, <3>1
    <3>3. v \notin Up(t, u)
      BY <2>2, UpSelf
    <3> QED
      BY <3>2, <3>3
  <2>3. CASE v < u
    <3>1. IF v \in Up(t, u) THEN d.post[d.ref[u]] < d.post[d.ref[v]]
          ELSE d.post[d.ref[v]] < d.post[d.ref[u]]
      BY <1>2, <2>3
    <3>2. d.post[d.ref[u]] \in Nat /\ d.post[d.ref[v]] \in Nat
      BY <1>1
    <3> HIDE DEF t
    <3> QED
      BY <3>1, <3>2
  <2> QED
    BY <2>1, <2>2, <2>3
<1> QED
  BY <1>3, <1>4
-----------------------------------------------------------------------------
(***************************************************************************)
(* The search is correct.                                                  *)
(***************************************************************************)
SearchCorrect ==
  /\ IsGraphOver(edges) /\ SearchInv(edges, Root, search)
  /\ stage \in {"search", "merge", "built"}
  /\ stage # "search" => IsSearched(search)

\* What a step that starts with a new vertex does to the search.
LEMMA SearchStarts ==
  ASSUME SearchCorrect, StartSearch
  PROVE  SearchCorrect'
<1>1. /\ IsGraphOver(edges) /\ SearchInv(edges, Root, search) /\ stage = "search" /\ stage' = stage
      /\ edges' = edges /\ search.ref = <<>> /\ search' = Discover(edges, search, Root)
  BY DEF SearchCorrect, StartSearch
<1>2. IsGraph(edges) /\ Root \in NodesOf(edges, Root)
  BY <1>1 DEF IsGraphOver, IsGraph, NodesOf
<1>3. /\ SearchTypes(edges, Root, search) /\ NumberInv(edges, Root, search) /\ TreeInv(edges, Root, search)
      /\ GrayInv(edges, Root, search) /\ TodoInvBut(edges, search, {}) /\ EdgeInv(edges, search)
      /\ AncestorInv(search) /\ PostInv(search)
  BY <1>1 DEF SearchInv, SearchInvBut
<1>4. Vertices(search) = {} /\ Len(search.ref) = 0
  BY <1>1 DEF Vertices
<1>5. search.cur = 0
  BY <1>3, <1>4, UpOfRoot DEF TreeInv
<1>6. search.dfn[Root] = 0
  BY <1>2, <1>3, <1>4 DEF NumberInv
<1>7. TodoInvBut(edges, search, {Root})
  BY <1>4 DEF TodoInvBut
<1>8. SearchInvBut(edges, Root, search, {Root})
  BY <1>3, <1>7 DEF SearchInvBut
<1>9. SearchInv(edges, Root, Discover(edges, search, Root))
  BY <1>2, <1>4, <1>5, <1>6, <1>8, DiscoverKeeps
<1> QED
  BY <1>1, <1>9 DEF SearchCorrect

\* A step that pops a successor keeps the search correct, new or not.
LEMMA SearchVisits ==
  ASSUME SearchCorrect, VisitSuccessor
  PROVE  SearchCorrect'
<1>1. /\ IsGraphOver(edges) /\ SearchInv(edges, Root, search) /\ stage = "search" /\ stage' = stage
      /\ edges' = edges /\ search.cur # 0
  BY DEF SearchCorrect, VisitSuccessor
<1>2. PICK x \in search.todo[search.cur] :
        search' = IF search.dfn[x] = 0 THEN Visit(edges, search, x) ELSE Skip(search, x)
  BY DEF VisitSuccessor
<1> DEFINE p == Pop(search, x)
<1>3. /\ SearchInvBut(edges, Root, p, {x}) /\ (search.dfn[x] # 0 => SearchInv(edges, Root, p))
      /\ p.cur = search.cur /\ p.dfn = search.dfn /\ p.ref = search.ref
      /\ x \in Successors(edges, search.ref[search.cur])
  BY <1>1, <1>2, PopKeeps
<1> HIDE DEF p
<1>4. IsGraph(edges) /\ x \in NodesOf(edges, Root)
  BY <1>1, <1>3 DEF IsGraphOver, IsGraph, NodesOf, Successors
<1>5. search.dfn[x] = 0 => SearchInv(edges, Root, Discover(edges, p, x))
  BY <1>1, <1>3, <1>4, DiscoverKeeps
<1>6. SearchInv(edges, Root, search')
  BY <1>2, <1>3, <1>5 DEF Visit, Skip, p
<1> QED
  BY <1>1, <1>6 DEF SearchCorrect

\* At every step of construct_auxilary's search, whatever the graph and the order
\* of the successors, the numbers are in preorder and postorder of one tree, the
\* vertices that are not finished are the path to the current one, no successor
\* is forgotten, back and cross edges are told apart, and the ancestors kept for
\* the cross edges are the greatest common ones.
THEOREM SearchIsCorrect == Spec => []SearchCorrect
<1>1. Init => SearchCorrect
  <2> SUFFICES ASSUME Init  PROVE SearchCorrect
    OBVIOUS
  <2>1. IsGraphOver(edges)
    BY GraphsAssumption DEF Init, IsGraphOver
  <2> DEFINE d == Unsearched(edges, Root)
  <2>2. SearchInvBut(edges, Root, d, {Root}) /\ d.ref = <<>>
    BY UnsearchedIsSearch
  <2>3. SearchInv(edges, Root, d)
    <3>1. Vertices(d) = {}
      BY <2>2 DEF Vertices
    <3> HIDE DEF d
    <3>2. TodoInvBut(edges, d, {})
      BY <3>1 DEF TodoInvBut
    <3> QED
      BY <2>2, <3>2 DEF SearchInv, SearchInvBut
  <2> QED
    BY <2>1, <2>3 DEF Init, SearchCorrect
<1>2. SearchCorrect /\ [Next]_vars => SearchCorrect'
  <2> SUFFICES ASSUME SearchCorrect, [Next]_vars  PROVE SearchCorrect'
    OBVIOUS
  <2>1. CASE StartSearch
    BY <2>1, SearchStarts
  <2>2. CASE VisitSuccessor
    BY <2>2, SearchVisits
  <2>3. CASE FinishVertex
    <3>1. SearchInv(edges, Root, Finish(search))
      BY <2>3, FinishKeeps DEF SearchCorrect, FinishVertex
    <3> QED
      BY <2>3, <3>1 DEF SearchCorrect, FinishVertex
  <2>4. CASE StartMerge
    BY <2>4 DEF SearchCorrect, StartMerge
  <2>5. CASE MergeAtHead
    BY <2>5 DEF SearchCorrect, MergeAtHead
  <2>6. CASE MakeWpo
    BY <2>6 DEF SearchCorrect, MakeWpo
  <2>7. CASE UNCHANGED vars
    BY <2>7 DEF SearchCorrect, vars
  <2> QED
    BY <2>1, <2>2, <2>3, <2>4, <2>5, <2>6, <2>7 DEF Next
<1> QED
  BY <1>1, <1>2, PTL DEF Spec
-----------------------------------------------------------------------------
\* What is known of the numbers and the loops that are recorded.
Recorded ==
  stage = "built" =>
    /\ loops = [x \in Reached |-> LoopOf(x)]
    /\ wpo.post = [x \in {search.ref[v] : v \in DOMAIN search.ref} |-> search.post[x]]

\* What MakeWpo records for the properties is not changed later.
THEOREM IsRecorded == Spec => []Recorded
<1>1. Init => Recorded
  BY DEF Init, Recorded
<1>2. Recorded /\ [Next]_vars => Recorded'
  <2> SUFFICES ASSUME Recorded, [Next]_vars  PROVE Recorded'
    OBVIOUS
  <2>1. CASE StartSearch \/ VisitSuccessor \/ FinishVertex
    BY <2>1 DEF StartSearch, VisitSuccessor, FinishVertex, Recorded
  <2>2. CASE StartMerge \/ MergeAtHead
    BY <2>2 DEF StartMerge, MergeAtHead, Recorded
  <2>3. CASE MakeWpo
    <3>1. /\ stage' = "built" /\ wpo' = Ordering(merge', search) /\ edges' = edges /\ search' = search
          /\ loops' = [x \in Reached |-> LoopOf(x)]
      BY <2>3 DEF MakeWpo
    <3>2. wpo'.post = [x \in {search.ref[v] : v \in DOMAIN search.ref} |-> search.post[x]]
      BY <3>1 DEF Ordering
    <3>3. loops' = [x \in Reached' |-> LoopOf(x)']
      BY <3>1 DEF Reached, LoopOf, Within
    <3> QED
      BY <3>1, <3>2, <3>3 DEF Recorded
  <2>4. CASE UNCHANGED vars
    <3>1. stage' = stage /\ edges' = edges /\ search' = search /\ wpo' = wpo /\ loops' = loops
      BY <2>4 DEF vars
    <3>2. [x \in Reached |-> LoopOf(x)] = [x \in Reached' |-> LoopOf(x)']
      BY <3>1 DEF Reached, LoopOf, Within
    <3> QED
      BY <3>1, <3>2 DEF Recorded
  <2> QED
    BY <2>1, <2>2, <2>3, <2>4 DEF Next
<1> QED
  BY <1>1, <1>2, PTL DEF Spec

\* The recorded loops are those of the graph.
LEMMA LoopsAreLoops ==
  ASSUME SearchCorrect, Recorded, Built
  PROVE  /\ Searched(edges, Root, search) /\ IsGraphOver(edges)
         /\ Reached = {search.ref[v] : v \in 1 .. Len(search.ref)}
         /\ loops = [x \in Reached |-> LoopIn(edges, search, x)]
<1>1. Searched(edges, Root, search) /\ IsGraphOver(edges)
  BY DEF SearchCorrect, Built, Searched, IsGraphOver, IsGraph
<1>2. Reached = {search.ref[v] : v \in 1 .. Len(search.ref)}
  BY <1>1, ReachedIsRef, ZenonT(40) DEF Reached
<1>3. ASSUME NEW x  PROVE LoopOf(x) = LoopIn(edges, search, x)
  BY DEF LoopOf, LoopIn, Within, EdgesAmong, NodesFrom, Reached
<1> QED
  BY <1>1, <1>2, <1>3 DEF Recorded, Built

\* is_from_outside, which compares two postorder numbers, is true of exactly the
\* edges that enter a loop at its head and false of those that close it, whatever
\* the graph.
THEOREM OutsideIsExact == Spec => []OutsideExact
<1>1. ASSUME SearchCorrect, Recorded  PROVE OutsideExact
  <2> SUFFICES ASSUME Built, NEW e \in Within(Reached)
               PROVE  IsFromOutside(wpo, e[2], e[1]) <=> e[1] \notin loops[e[2]]
    BY DEF OutsideExact
  <2>1. /\ Searched(edges, Root, search) /\ IsGraphOver(edges)
        /\ Reached = {search.ref[v] : v \in 1 .. Len(search.ref)}
        /\ loops = [x \in Reached |-> LoopIn(edges, search, x)]
    BY <1>1, LoopsAreLoops
  <2>2. e \in edges /\ e[1] \in Reached /\ e[2] \in Reached
    BY DEF Within
  <2>3. PICK u \in 1 .. Len(search.ref) : e[1] = search.ref[u]
    BY <2>1, <2>2
  <2>4. PICK v \in 1 .. Len(search.ref) : e[2] = search.ref[v]
    BY <2>1, <2>2
  <2>5. <<u, v>> \in EdgesOf(edges, search)
    <3>1. e = <<e[1], e[2]>>
      BY <2>1, <2>2 DEF IsGraphOver
    <3> QED
      BY <2>2, <2>3, <2>4, <3>1 DEF EdgesOf, Vertices
  <2>6. search.post[e[2]] < search.post[e[1]] <=> e[1] \notin LoopIn(edges, search, e[2])
    BY <2>1, <2>3, <2>4, <2>5, OutsideOfLoops
  <2>7. DOMAIN search.ref = 1 .. Len(search.ref)
    BY <2>1, SearchFields DEF Searched, SearchInv, SearchInvBut, SearchTypes
  <2>8. wpo.post[e[1]] = search.post[e[1]] /\ wpo.post[e[2]] = search.post[e[2]]
    BY <1>1, <2>1, <2>2, <2>7 DEF Recorded, Built
  <2> QED
    BY <2>1, <2>2, <2>6, <2>8 DEF IsFromOutside
<1>2. SearchCorrect /\ Recorded => OutsideExact
  BY <1>1
<1> QED
  BY <1>2, SearchIsCorrect, IsRecorded, PTL
-----------------------------------------------------------------------------
(***************************************************************************)
(* How loops nest.                                                         *)
(***************************************************************************)
\* A loop descends from its head.
LEMMA CompFacts ==
  ASSUME NEW t, NEW E, Dfs(t, E), NEW g \in 1 .. Len(t), NEW v \in Comp(t, E, g)
  PROVE  v \in 1 .. Len(t) /\ g \in Up(t, v) /\ g <= v
<1>1. v \in 1 .. Len(t) /\ g \in Up(t, v)
  BY CompSelf
<1>2. Up(t, v) \subseteq 0 .. v
  BY <1>1, UpSelf
<1> QED
  BY <1>1, <1>2

\* What leads to a loop from below its head is in it.
LEMMA CompBack ==
  ASSUME NEW t, NEW E, Dfs(t, E), NEW g \in 1 .. Len(t), NEW u, NEW v \in Comp(t, E, g),
         <<u, v>> \in E, g \in Up(t, u)
  PROVE  u \in Comp(t, E, g)
<1> DEFINE e == <<u, v>>
<1>1. e \in E /\ e[1] = u /\ e[2] = v
  OBVIOUS
<1> HIDE DEF e
<1>2. BackClosed(t, E, g, Comp(t, E, g))
  BY CompSelf
<1> QED
  BY <1>1, <1>2 DEF BackClosed

\* A loop holds the tree path from its head to each of its members.
LEMMA CompUp ==
  ASSUME NEW t, NEW E, Dfs(t, E), NEW g \in 1 .. Len(t), NEW v \in Comp(t, E, g),
         NEW w \in Up(t, v), g <= w
  PROVE  w \in Comp(t, E, g)
<1> DEFINE C == Comp(t, E, g)
           S == C \cup {x \in Nat : x < g}
<1>1. v \in 1 .. Len(t) /\ IsTree(t) /\ C \subseteq 1 .. Len(t)
  BY CompSelf DEF Dfs
<1>2. S \in SUBSET Nat /\ v \in S
  BY <1>1
<1>3. ASSUME NEW x \in S, x \in 1 .. Len(t)  PROVE t[x] \in S
  <2>1. t[x] \in Nat /\ t[x] < x /\ Up(t, x) = {x} \cup Up(t, t[x])
    BY <1>1, <1>3, UpStep
  <2>2. CASE x <= g
    <3>1. t[x] < g
      BY <1>3, <2>1, <2>2
    <3> HIDE DEF C
    <3> QED
      BY <2>1, <3>1
  <2>3. CASE g < x
    <3>1. x \in C
      BY <2>3, <1>3
    <3>2. g \in Up(t, x)
      BY <3>1, CompFacts
    <3>3. g \in Up(t, t[x])
      BY <2>1, <2>3, <3>2
    <3>4. t[x] # 0
      BY <3>3, UpOfRoot
    <3>5. <<t[x], x>> \in E
      BY <1>3, <3>4 DEF Dfs
    <3>6. t[x] \in C
      BY <3>1, <3>3, <3>5, CompBack
    <3> QED
      BY <3>6
  <2> QED
    BY <1>3, <2>2, <2>3
<1>4. Up(t, v) \subseteq S
  <2>1. UpClosed(t, S)
    BY <1>3 DEF UpClosed
  <2> HIDE DEF S
  <2> QED
    BY <1>2, <2>1, UpIn
<1>5. w \in S /\ g \in Nat
  BY <1>4
<1>6. w \in Nat
  BY <1>2, <1>5
<1> QED
  BY <1>5, <1>6

\* A loop with its head in another is inside of it.
LEMMA CompInside ==
  ASSUME NEW t, NEW E, Dfs(t, E), NEW g \in 1 .. Len(t), NEW h \in Comp(t, E, g)
  PROVE  Comp(t, E, h) \subseteq Comp(t, E, g)
<1> DEFINE C == Comp(t, E, g)
<1>1. C \in SUBSET (1 .. Len(t)) /\ BackClosed(t, E, g, C) /\ IsTree(t)
  BY CompSelf DEF Dfs
<1>2. h \in 1 .. Len(t) /\ g \in Up(t, h)
  BY CompFacts
<1>3. ASSUME NEW e \in E, e[2] \in C, h \in Up(t, e[1])  PROVE e[1] \in C
  <2>1. e[1] \in 1 .. Len(t)
    BY DEF Dfs
  <2>2. g \in Up(t, e[1])
    BY <1>1, <1>2, <1>3, <2>1, UpTrans
  <2> HIDE DEF C
  <2> QED
    BY <1>1, <1>3, <2>2 DEF BackClosed
<1>4. BackClosed(t, E, h, C)
  BY <1>3 DEF BackClosed
<1>5. h \in C
  OBVIOUS
<1> HIDE DEF C
<1>6. Comp(t, E, h) \subseteq C
  BY <1>1, <1>2, <1>4, <1>5, CompIn
<1> QED
  BY <1>6 DEF C

\* Of two loops with a common member one is inside the other.
LEMMA CompNested ==
  ASSUME NEW t, NEW E, Dfs(t, E), NEW g \in 1 .. Len(t), NEW h \in 1 .. Len(t), g <= h,
         NEW v, v \in Comp(t, E, g), v \in Comp(t, E, h)
  PROVE  h \in Comp(t, E, g) /\ Comp(t, E, h) \subseteq Comp(t, E, g)
<1>1. h \in Up(t, v)
  BY CompFacts
<1>2. h \in Comp(t, E, g)
  BY <1>1, CompUp
<1> QED
  BY <1>2, CompInside

\* A vertex that no edge leads back to has no loop but itself.
LEMMA CompOfPlain ==
  ASSUME NEW t, NEW E, Dfs(t, E), NEW g \in 1 .. Len(t), ~HasBack(t, E, g)
  PROVE  Comp(t, E, g) = {g}
<1>1. BackClosed(t, E, g, {g})
  BY DEF BackClosed, HasBack
<1>2. Comp(t, E, g) \subseteq {g}
  BY <1>1, CompIn
<1> QED
  BY <1>2, CompSelf
-----------------------------------------------------------------------------
(***************************************************************************)
(* The components while the heads are being processed, and the edges       *)
(* between them.                                                           *)
(***************************************************************************)
\* r is the least vertex of the component that v is in once the vertices above
\* m have been heads.
IsRep(t, E, m, v, r) ==
  /\ r \in 1 .. Len(t) /\ v \in Comp(t, E, r) /\ (r = v \/ m < r)
  /\ \A g \in 1 .. Len(t) : m < g /\ v \in Comp(t, E, g) => r <= g

\* The edge from u to v leaves the loops of these heads, through the exit of
\* the outermost one.
LeftOf(t, E, u, v) == {g \in 1 .. Len(t) : HasBack(t, E, g) /\ u \in Comp(t, E, g) /\ v \notin Comp(t, E, g)}
From(t, E, u, v) == IF LeftOf(t, E, u, v) = {} THEN u ELSE -LeastOf(LeftOf(t, E, u, v))

\* The edges that become constraints, on their targets and on the exits of
\* their targets, and those of them that are inside a loop from m on.
TreeOrCross(t, E) == {e \in E : e[1] = t[e[2]] \/ (e[2] < e[1] /\ e[2] \notin Up(t, e[1]))}
Closings(t, E) ==
  {e \in E : e[2] \in Up(t, e[1]) /\
             (e[1] = e[2] => \A f \in E : f[2] = e[2] /\ e[2] \in Up(t, f[1]) => f[1] = e[2])}
Joined(t, E, m, u, v) == \E g \in 1 .. Len(t) : m < g /\ u \in Comp(t, E, g) /\ v \in Comp(t, E, g)

JoinedEdges(t, E, m) == {e \in TreeOrCross(t, E) : Joined(t, E, m, e[1], e[2])}
ClosedEdges(t, E, m) == {e \in Closings(t, E) : m < e[2]}

\* The constraints of these edges, and those that enter loops.
SuccOf(t, E, F, K) ==
  {<<From(t, E, e[1], e[2]), e[2]>> : e \in F} \cup {<<From(t, E, e[1], e[2]), -e[2]>> : e \in K}
OuterOf(t, E, F) ==
  {<<From(t, E, e[1], e[2]), e[2], From(t, E, e[2], e[1])>> :
     e \in {f \in F : From(t, E, f[2], f[1]) # f[2]}}

\* The elements of the component of h, and all those of the heads above m.
Elements(t, E, h) ==
  Comp(t, E, h) \cup {-w : w \in {v \in Comp(t, E, h) : HasBack(t, E, v)}}
ElementsAbove(t, E, m) ==
  {v \in 1 .. Len(t) : m < v} \cup {-w : w \in {v \in 1 .. Len(t) : m < v /\ HasBack(t, E, v)}}

OriginOf(t, X, m, rep, r) ==
  {<<u, r>> : u \in {t[r]} \ {0}} \cup
  {<<c[1], c[2]>> : c \in {x \in X : m < x[3] /\ x[3] < r /\ rep[x[2]] = r}}

MergeTypes(V, s) ==
  s \in [head : Nat, rep : [V -> V], exit : [V -> Int], size : [V -> Nat], origin : [V -> SUBSET (V \X V)],
         space : Seq(Int), succ : SUBSET (Int \X Int), outer : SUBSET (Int \X Int \X Int), parent : [V -> V]]

RepInv(t, E, s) == \A v \in 1 .. Len(t) : IsRep(t, E, s.head, v, s.rep[v])
ExitInv(t, E, s) ==
  \A v \in 1 .. Len(t) : s.exit[v] = IF s.head < v /\ HasBack(t, E, v) THEN -v ELSE v
OriginInv(t, X, s) ==
  \A r \in 1 .. Len(t) : s.rep[r] = r => s.origin[r] = OriginOf(t, X, s.head, s.rep, r)
ParentInv(t, E, s) ==
  \A v \in 1 .. Len(t) :
    IF s.rep[v] = v THEN s.parent[v] = v
    ELSE /\ s.head < s.parent[v] /\ s.parent[v] < v /\ v \in Comp(t, E, s.parent[v])
         /\ \A g \in 1 .. Len(t) : s.head < g /\ g < v /\ v \in Comp(t, E, g) => g <= s.parent[v]
SizeInv(t, E, s) == \A v \in 1 .. Len(t) : s.head < v => s.size[v] = Cardinality(Elements(t, E, v))
SpaceInv(t, E, m, p) ==
  /\ \A i, j \in 1 .. Len(p) : p[i] = p[j] => i = j
  /\ {p[i] : i \in 1 .. Len(p)} = ElementsAbove(t, E, m)
  /\ \A i \in 1 .. Len(p) : p[i] < 0 => i < Len(p) /\ p[i + 1] = -p[i]
  /\ m < Len(t) => Len(p) >= 1 /\ p[Len(p)] = m + 1
ConstraintInv(t, E, s) ==
  /\ s.succ = SuccOf(t, E, JoinedEdges(t, E, s.head), ClosedEdges(t, E, s.head))
  /\ s.outer = OuterOf(t, E, JoinedEdges(t, E, s.head))

MergeInv(t, E, X, s) ==
  /\ MergeTypes(1 .. Len(t), s) /\ s.head <= Len(t)
  /\ RepInv(t, E, s) /\ ExitInv(t, E, s) /\ OriginInv(t, X, s) /\ ParentInv(t, E, s)
  /\ SizeInv(t, E, s) /\ SpaceInv(t, E, s.head, s.space) /\ ConstraintInv(t, E, s)

\* LeastOf is the least.
LEMMA LeastOfNat ==
  ASSUME NEW S, S \subseteq Nat, S # {}
  PROVE  LeastOf(S) \in S /\ \A k \in S : LeastOf(S) <= k
<1>1. \E m \in S : \A k \in S : m <= k
  BY LeastNat, Zenon
<1> QED
  BY <1>1, Zenon DEF LeastOf

\* Each vertex is in one component.
LEMMA RepExists ==
  ASSUME NEW t, NEW E, Dfs(t, E), NEW m \in Nat, NEW v \in 1 .. Len(t)
  PROVE  \E r \in 1 .. Len(t) : IsRep(t, E, m, v, r)
<1> DEFINE S == {g \in 1 .. Len(t) : m < g /\ v \in Comp(t, E, g)}
<1>1. v \in Comp(t, E, v)
  BY CompSelf
<1>2. CASE S = {}
  BY <1>1, <1>2 DEF IsRep
<1>3. CASE S # {}
  <2>1. PICK r \in S : \A k \in S : r <= k
    <3>1. S \subseteq Nat
      OBVIOUS
    <3> HIDE DEF S
    <3> QED
      BY <1>3, <3>1, LeastNat, Zenon
  <2> QED
    BY <2>1 DEF IsRep
<1> QED
  BY <1>2, <1>3

\* What follows from being the least vertex of a component,
LEMMA RepFacts ==
  ASSUME NEW t, NEW E, Dfs(t, E), NEW m \in Nat, NEW v, NEW r, IsRep(t, E, m, v, r)
  PROVE  /\ r \in 1 .. Len(t) /\ v \in 1 .. Len(t) /\ r <= v /\ v \in Comp(t, E, r) /\ r \in Up(t, v)
         /\ IsRep(t, E, m, r, r)
         /\ r <= m => v = r
         /\ v <= m => v = r
         /\ \A g \in 1 .. Len(t) : m < g /\ v \in Comp(t, E, g) => r <= g
<1>1. /\ r \in 1 .. Len(t) /\ v \in Comp(t, E, r) /\ (r = v \/ m < r)
      /\ \A g \in 1 .. Len(t) : m < g /\ v \in Comp(t, E, g) => r <= g
  BY DEF IsRep
<1>2. v \in 1 .. Len(t) /\ r <= v /\ r \in Up(t, v)
  BY <1>1, CompFacts
<1>3. ASSUME NEW g \in 1 .. Len(t), m < g, r \in Comp(t, E, g)  PROVE r <= g
  <2>1. v \in Comp(t, E, g)
    BY <1>1, <1>3, CompInside
  <2> QED
    BY <1>1, <1>3, <2>1
<1>4. IsRep(t, E, m, r, r)
  BY <1>1, <1>3, CompSelf DEF IsRep
<1> QED
  BY <1>1, <1>2, <1>4

\* The members of a component have the same.
LEMMA RepOfMember ==
  ASSUME NEW t, NEW E, Dfs(t, E), NEW m \in Nat, NEW v, NEW r, IsRep(t, E, m, v, r), m < r,
         NEW u, u \in Comp(t, E, r)
  PROVE  IsRep(t, E, m, u, r)
<1>1. /\ r \in 1 .. Len(t) /\ v \in Comp(t, E, r) /\ IsRep(t, E, m, r, r) /\ (r <= m => v = r)
  BY RepFacts
<1>2. ASSUME NEW g \in 1 .. Len(t), m < g, u \in Comp(t, E, g), ~(r <= g)  PROVE FALSE
  <2>1. g <= r
    BY <1>1, <1>2
  <2>2. r \in Comp(t, E, g)
    BY <1>1, <1>2, <2>1, CompNested
  <2> QED
    BY <1>1, <1>2, <2>2 DEF IsRep
<1> QED
  BY <1>1, <1>2 DEF IsRep

\* which is unique.
LEMMA RepUnique ==
  ASSUME NEW t, NEW E, Dfs(t, E), NEW m \in Nat, NEW v, NEW r, IsRep(t, E, m, v, r),
         NEW s, IsRep(t, E, m, v, s)
  PROVE  r = s
<1>1. r \in 1 .. Len(t) /\ v \in 1 .. Len(t) /\ r <= v /\ (v <= m => v = r)
  BY RepFacts
<1>2. s \in 1 .. Len(t) /\ s <= v /\ (v <= m => v = s)
  BY RepFacts
<1>3. CASE m < v
  <2>1. m < r /\ m < s
    BY <1>3 DEF IsRep
  <2> QED
    BY <1>1, <1>2, <2>1 DEF IsRep
<1>4. CASE v <= m
  BY <1>1, <1>4, <1>2
<1> QED
  BY <1>1, <1>3, <1>4

\* The cross edges with the greatest common ancestors of their ends.
IsCross(t, E, X) ==
  /\ \A u, v \in 1 .. Len(t) : <<u, v>> \in E /\ v < u /\ v \notin Up(t, u) =>
                                 \E a \in 1 .. Len(t) : <<u, v, a>> \in X
  /\ \A c \in X : /\ c = <<c[1], c[2], c[3]>> /\ c[3] \in 1 .. Len(t) /\ <<c[1], c[2]>> \in E
                  /\ c[2] < c[1] /\ c[2] \notin Up(t, c[1]) /\ IsMeet(t, c[1], c[2], c[3])

\* All descends from the root.
LEMMA RootIsAbove ==
  ASSUME NEW t, NEW E, Dfs(t, E), NEW v \in 1 .. Len(t)
  PROVE  1 \in Up(t, v)
<1> SUFFICES ASSUME 1 \notin Up(t, v)  PROVE FALSE
  OBVIOUS
<1> DEFINE Bad == {w \in 1 .. Len(t) : 1 \notin Up(t, w)}
<1>1. PICK w \in Bad : \A k \in Bad : w <= k
  <2>1. v \in Bad /\ Bad \subseteq Nat
    OBVIOUS
  <2> HIDE DEF Bad
  <2> QED
    BY <2>1, LeastNat, Zenon
<1>2. w \in 1 .. Len(t) /\ 1 \notin Up(t, w) /\ IsTree(t)
  BY <1>1 DEF Dfs
<1>3. t[w] \in Nat /\ t[w] < w /\ Up(t, w) = {w} \cup Up(t, t[w])
  BY <1>2, UpStep
<1>4. w # 1
  BY <1>2, UpSelf
<1>5. t[w] \in 1 .. Len(t)
  <2>1. t[w] # 0
    BY <1>2, <1>4 DEF Dfs
  <2> QED
    BY <1>2, <1>3, <2>1
<1>6. 1 \notin Up(t, t[w])
  BY <1>2, <1>3
<1>7. ~(w <= t[w]) /\ t[w] \in Bad
  BY <1>3, <1>5, <1>6
<1> QED
  BY <1>1, <1>7

\* The edges a search classifies.
LEMMA SearchedEdges ==
  ASSUME NEW G, NEW root, NEW d, Searched(G, root, d)
  PROVE  /\ d.back = {e \in EdgesOf(G, d) : e[2] \in Up(d.tree, e[1])}
         /\ IsCross(d.tree, EdgesOf(G, d), d.cross)
<1> DEFINE t == d.tree
           E == EdgesOf(G, d)
           n == Len(d.ref)
<1>1. Dfs(t, E) /\ Len(t) = n /\ n \in Nat /\ Vertices(d) = 1 .. n
  BY SearchedFacts
<1>2. EdgeInv(G, d) /\ d.cross \in SUBSET (Nat \X Nat \X Nat)
  BY SearchFields DEF Searched, SearchInv, SearchInvBut, SearchTypes
<1>3. d.back = {e \in E : e[2] \in Up(t, e[1])}
  BY <1>2 DEF EdgeInv
<1>4. ASSUME NEW c \in d.cross
      PROVE  /\ c = <<c[1], c[2], c[3]>> /\ c[3] \in 1 .. n /\ <<c[1], c[2]>> \in E
             /\ c[2] < c[1] /\ c[2] \notin Up(t, c[1]) /\ IsMeet(t, c[1], c[2], c[3])
  <2>1. /\ c = <<c[1], c[2], c[3]>> /\ <<c[1], c[2]>> \in E
        /\ c[2] < c[1] /\ c[2] \notin Up(t, c[1]) /\ IsMeet(t, c[1], c[2], c[3])
    <3>1. c = <<c[1], c[2], c[3]>>
      BY <1>2
    <3> HIDE DEF t, E
    <3> QED
      BY <1>2, <3>1 DEF EdgeInv, t, E
  <2>2. c[1] \in 1 .. n /\ c[2] \in 1 .. n
    BY <1>1, <2>1 DEF EdgesOf
  <2>3. 1 \in Up(t, c[1]) /\ 1 \in Up(t, c[2])
    BY <1>1, <2>2, RootIsAbove
  <2>4. c[3] \in 0 .. c[1]
    BY <2>1, <2>2, UpSelf DEF IsMeet
  <2>5. 1 <= c[3]
    BY <2>1, <2>3 DEF IsMeet
  <2>6. c[3] \in 1 .. n
    BY <1>1, <2>2, <2>4, <2>5
  <2> QED
    BY <2>1, <2>6
<1>5. ASSUME NEW u \in 1 .. n, NEW v \in 1 .. n, <<u, v>> \in E, v < u, v \notin Up(t, u)
      PROVE  \E a \in 1 .. n : <<u, v, a>> \in d.cross
  <2> DEFINE e == <<u, v>>
  <2>1. e \in E /\ e[1] = u /\ e[2] = v
    BY <1>5
  <2> HIDE DEF e
  <2>2. \E a \in Nat : <<e[1], e[2], a>> \in d.cross
    BY <1>2, <1>5, <2>1 DEF EdgeInv
  <2>3. PICK a \in Nat : <<u, v, a>> \in d.cross
    BY <2>1, <2>2
  <2> DEFINE c == <<u, v, a>>
  <2>4. c[3] \in 1 .. n
    BY <1>4, <2>3
  <2> QED
    BY <2>3, <2>4
<1> QED
  BY <1>1, <1>3, <1>4, <1>5 DEF IsCross

\* What the search makes of an edge.
LEMMA EdgesAreIn ==
  ASSUME NEW t, NEW E, Dfs(t, E), NEW u, NEW v, <<u, v>> \in E
  PROVE  /\ u \in 1 .. Len(t) /\ v \in 1 .. Len(t) /\ Len(t) \in Nat
         /\ u < v => u \in Up(t, v)
         /\ <<u, v>> \in TreeOrCross(t, E) => u # v /\ v \notin Up(t, u)
         /\ \A h \in 1 .. Len(t) : h \in Up(t, u) /\ h <= v => h \in Up(t, v)
<1> DEFINE e == <<u, v>>
<1>1. e[1] = u /\ e[2] = v /\ e \in E
  OBVIOUS
<1>2. u \in 1 .. Len(t) /\ v \in 1 .. Len(t) /\ Len(t) \in Nat
  BY DEF Dfs, IsTree
<1> HIDE DEF e
<1>3. u < v => u \in Up(t, v)
  BY <1>1 DEF Dfs
<1>4. ASSUME e \in TreeOrCross(t, E)  PROVE u # v /\ v \notin Up(t, u)
  <2>1. CASE u = t[v]
    <3>1. u < v /\ Up(t, u) \subseteq 0 .. u
      BY <1>2, <2>1, UpStep, UpSelf DEF Dfs
    <3> QED
      BY <1>2, <3>1
  <2>2. CASE u # t[v]
    BY <1>1, <1>2, <1>4, <2>2 DEF TreeOrCross
  <2> QED
    BY <2>1, <2>2
<1>5. ASSUME NEW h \in 1 .. Len(t), h \in Up(t, u), h <= v  PROVE h \in Up(t, v)
  BY <1>1, <1>5, BelowIsClosed
<1> QED
  BY <1>2, <1>3, <1>4, <1>5 DEF e

\* Where an edge comes from when its ends are in different components.
LEMMA FromIs ==
  ASSUME NEW t, NEW E, Dfs(t, E), NEW m \in Nat, NEW u \in 1 .. Len(t), NEW v \in 1 .. Len(t),
         \A g \in 1 .. Len(t) : g <= m /\ u \in Comp(t, E, g) => v \in Comp(t, E, g),
         NEW r, IsRep(t, E, m, u, r), r <= m \/ v \notin Comp(t, E, r)
  PROVE  From(t, E, u, v) = IF m < r /\ HasBack(t, E, r) THEN -r ELSE r
<1> DEFINE L == LeftOf(t, E, u, v)
<1>1. /\ r \in 1 .. Len(t) /\ r <= u /\ u \in Comp(t, E, r) /\ (r <= m => u = r)
      /\ \A g \in 1 .. Len(t) : m < g /\ u \in Comp(t, E, g) => r <= g
  BY RepFacts
<1>2. ASSUME NEW g \in L  PROVE g \in 1 .. Len(t) /\ m < g /\ r <= g /\ g <= u /\ HasBack(t, E, g)
  <2>1. g \in 1 .. Len(t) /\ HasBack(t, E, g) /\ u \in Comp(t, E, g) /\ v \notin Comp(t, E, g)
    BY DEF LeftOf
  <2>2. m < g /\ g <= u
    BY <2>1, CompFacts
  <2> QED
    BY <1>1, <2>1, <2>2
<1>3. CASE m < r /\ HasBack(t, E, r)
  <2>1. r \in L
    BY <1>1, <1>3 DEF LeftOf
  <2>2. L \subseteq Nat
    BY DEF LeftOf
  <2> HIDE DEF L
  <2>3. LeastOf(L) \in L /\ LeastOf(L) <= r
    BY <2>1, <2>2, LeastOfNat
  <2>4. LeastOf(L) = r
    BY <1>1, <1>2, <2>3
  <2> QED
    BY <1>3, <2>1, <2>4 DEF From, L
<1>4. CASE ~(m < r /\ HasBack(t, E, r))
  <2>1. u = r
    <3>1. CASE m < r
      BY <1>1, <1>4, <3>1, CompOfPlain
    <3>2. CASE r <= m
      BY <1>1, <3>2
    <3> QED
      BY <1>1, <3>1, <3>2
  <2>2. L = {}
    <3> SUFFICES ASSUME NEW g \in L  PROVE FALSE
      OBVIOUS
    <3>1. g = r /\ m < g /\ HasBack(t, E, g)
      BY <1>1, <1>2, <2>1
    <3> QED
      BY <1>4, <3>1
  <2> QED
    BY <1>4, <2>1, <2>2 DEF From
<1> QED
  BY <1>3, <1>4

\* Two vertices are in one component as soon as they are in one loop.
LEMMA JoinedIs ==
  ASSUME NEW t, NEW E, Dfs(t, E), NEW m \in Nat, NEW u, NEW v, NEW r, NEW s,
         IsRep(t, E, m, u, r), IsRep(t, E, m, v, s)
  PROVE  Joined(t, E, m, u, v) <=> r = s /\ m < r
<1>1. /\ r \in 1 .. Len(t) /\ u \in 1 .. Len(t) /\ r <= u /\ u \in Comp(t, E, r) /\ (r <= m => u = r)
      /\ \A g \in 1 .. Len(t) : m < g /\ u \in Comp(t, E, g) => r <= g
  BY RepFacts
<1>2. s \in 1 .. Len(t) /\ v \in Comp(t, E, s)
  BY RepFacts
<1>3. ASSUME Joined(t, E, m, u, v)  PROVE r = s /\ m < r
  <2>1. PICK g \in 1 .. Len(t) : m < g /\ u \in Comp(t, E, g) /\ v \in Comp(t, E, g)
    BY <1>3 DEF Joined
  <2>2. r <= g /\ g <= u
    BY <1>1, <2>1, CompFacts
  <2>3. m < r
    BY <1>1, <2>1, <2>2
  <2>4. v \in Comp(t, E, r)
    BY <1>1, <2>1, <2>2, CompNested
  <2>5. IsRep(t, E, m, v, r)
    BY <2>3, <2>4, RepOfMember
  <2> QED
    BY <2>3, <2>5, RepUnique
<1>4. ASSUME r = s, m < r  PROVE Joined(t, E, m, u, v)
  BY <1>1, <1>2, <1>4 DEF Joined
<1> QED
  BY <1>3, <1>4

\* What is merged at h.
NestedReps(t, E, h, rep) == {r \in 1 .. Len(t) : h < r /\ rep[r] = r /\ r \in Comp(t, E, h)}
BackPreds(t, E, h, rep) == {rep[u] : u \in {w \in 1 .. Len(t) : <<w, h>> \in E /\ h \in Up(t, w)} \ {h}}

IsReps(t, E, m, rep) ==
  rep \in [1 .. Len(t) -> 1 .. Len(t)] /\ \A v \in 1 .. Len(t) : IsRep(t, E, m, v, rep[v])

\* The members of a loop are in the components nested in it.
LEMMA LoopReps ==
  ASSUME NEW t, NEW E, Dfs(t, E), NEW h \in 1 .. Len(t), NEW rep, IsReps(t, E, h, rep)
  PROVE  /\ rep[h] = h
         /\ \A v \in Comp(t, E, h) : v # h => h < v /\ rep[v] \in NestedReps(t, E, h, rep)
<1>1. h \in Nat /\ IsRep(t, E, h, h, rep[h])
  BY DEF IsReps
<1>2. rep[h] = h
  BY <1>1, RepFacts
<1>3. ASSUME NEW v \in Comp(t, E, h), v # h  PROVE h < v /\ rep[v] \in NestedReps(t, E, h, rep)
  <2>1. v \in 1 .. Len(t) /\ h <= v
    BY CompFacts
  <2>2. h < v
    BY <1>3, <2>1
  <2> DEFINE r == rep[v]
  <2>3. IsRep(t, E, h, v, r)
    BY <2>1 DEF IsReps
  <2>4. r \in 1 .. Len(t) /\ r \in Up(t, v) /\ IsRep(t, E, h, r, r) /\ (r <= h => v = r)
    BY <1>1, <2>3, RepFacts
  <2> HIDE DEF r
  <2>5. h < r
    BY <2>1, <2>2, <2>4
  <2>6. r \in Comp(t, E, h)
    BY <2>4, <2>5, CompUp
  <2>7. rep[r] = r
    <3>1. IsRep(t, E, h, r, rep[r])
      BY <2>4 DEF IsReps
    <3> QED
      BY <1>1, <2>4, <3>1, RepUnique
  <2> QED
    BY <2>2, <2>4, <2>5, <2>6, <2>7 DEF NestedReps, r
<1> QED
  BY <1>2, <1>3

\* The edges that enter nested components come from nested components or the head.
LEMMA NestedIsClosed ==
  ASSUME NEW t, NEW E, Dfs(t, E), NEW X, IsCross(t, E, X), NEW h \in 1 .. Len(t),
         NEW rep, IsReps(t, E, h, rep)
  PROVE  /\ BackPreds(t, E, h, rep) \subseteq NestedReps(t, E, h, rep)
         /\ \A r \in NestedReps(t, E, h, rep) : \A e \in OriginOf(t, X, h - 1, rep, r) :
              /\ e = <<e[1], e[2]>> /\ e \in E /\ e[1] \in Comp(t, E, h) /\ e[2] \in Comp(t, E, r)
              /\ rep[e[1]] \in NestedReps(t, E, h, rep) \cup {h}
<1> DEFINE N == NestedReps(t, E, h, rep)
<1>1. ASSUME NEW u \in 1 .. Len(t), <<u, h>> \in E, h \in Up(t, u), u # h
      PROVE  rep[u] \in N
  <2>1. u \in Comp(t, E, h)
    BY <1>1, CompSelf, CompBack
  <2> QED
    BY <1>1, <2>1, LoopReps
<1>2. ASSUME NEW r \in N, NEW e \in OriginOf(t, X, h - 1, rep, r)
      PROVE  e = <<e[1], e[2]>> /\ e \in E /\ e[1] \in Comp(t, E, h) /\ e[2] \in Comp(t, E, r)
  <2>1. r \in 1 .. Len(t) /\ h < r /\ rep[r] = r /\ r \in Comp(t, E, h)
    BY DEF NestedReps
  <2>2. h \in Up(t, r) /\ IsTree(t) /\ h \in 0 .. Len(t)
    <3>1. h \in Up(t, r)
      BY <2>1, CompFacts
    <3>2. IsTree(t) /\ Len(t) \in Nat
      BY DEF Dfs, IsTree
    <3> QED
      BY <3>1, <3>2
  <2>3. CASE e \in {<<u, r>> : u \in {t[r]} \ {0}}
    <3>1. e = <<t[r], r>> /\ t[r] # 0
      BY <2>3
    <3>2. e \in E
      BY <2>1, <3>1 DEF Dfs
    <3>3. h \in Up(t, t[r]) /\ t[r] \in Up(t, r) /\ t[r] \in Nat /\ t[r] < r
      <4>1. t[r] \in Nat /\ t[r] < r /\ Up(t, r) = {r} \cup Up(t, t[r])
        BY <2>1, <2>2, UpStep
      <4>2. h \in Up(t, t[r])
        BY <2>1, <2>2, <4>1
      <4> QED
        BY <4>1, <4>2, UpSelf
    <3>4. h <= t[r]
      BY <3>3, UpSelf
    <3>5. t[r] \in Comp(t, E, h)
      BY <2>1, <3>3, <3>4, CompUp
    <3> QED
      BY <2>1, <3>1, <3>2, <3>5, CompSelf
  <2>4. CASE e \in {<<c[1], c[2]>> : c \in {x \in X : h - 1 < x[3] /\ x[3] < r /\ rep[x[2]] = r}}
    <3>1. PICK c \in X : h - 1 < c[3] /\ c[3] < r /\ rep[c[2]] = r /\ e = <<c[1], c[2]>>
      BY <2>4
    <3>2. /\ c[3] \in 1 .. Len(t) /\ <<c[1], c[2]>> \in E /\ c[2] < c[1]
          /\ c[3] \in Up(t, c[1]) /\ c[3] \in Up(t, c[2])
      BY DEF IsCross, IsMeet
    <3>3. c[1] \in 1 .. Len(t) /\ c[2] \in 1 .. Len(t)
      BY <3>2, EdgesAreIn
    <3>4. c[2] \in Comp(t, E, r)
      BY <3>1, <3>3 DEF IsReps, IsRep
    <3>5. c[2] \in Comp(t, E, h)
      BY <2>1, <3>4, CompInside
    <3>6. h \in Up(t, c[2])
      BY <3>5, CompFacts
    <3>7. h <= c[3]
      BY <3>1, <3>2
    <3>8. h \in Up(t, c[3])
      <4>1. c[2] \in 0 .. Len(t)
        BY <3>3
      <4> QED
        BY <2>2, <3>2, <3>6, <3>7, <4>1, UpChain
    <3>9. h \in Up(t, c[1])
      BY <2>2, <3>2, <3>3, <3>8, UpTrans
    <3>10. c[1] \in Comp(t, E, h)
      BY <3>2, <3>5, <3>9, CompBack
    <3> QED
      BY <3>1, <3>2, <3>4, <3>10
  <2> QED
    BY <2>3, <2>4 DEF OriginOf
<1>3. ASSUME NEW u \in Comp(t, E, h)  PROVE rep[u] \in N \cup {h}
  BY LoopReps
<1> QED
  BY <1>1, <1>2, <1>3 DEF BackPreds

\* From the sources of the back edges the search for nested components finds all.
LEMMA NestedIsLeast ==
  ASSUME NEW t, NEW E, Dfs(t, E), NEW X, IsCross(t, E, X), NEW h \in 1 .. Len(t),
         NEW rep, IsReps(t, E, h, rep),
         NEW S, BackPreds(t, E, h, rep) \subseteq S,
         \A r \in S : rep[r] = r => \A e \in OriginOf(t, X, h - 1, rep, r) : rep[e[1]] \in S \cup {h}
  PROVE  NestedReps(t, E, h, rep) \subseteq S
<1> DEFINE B == {v \in 1 .. Len(t) : h \in Up(t, v) /\ (v = h \/ rep[v] \in S)}
<1>1. IsTree(t) /\ h \in Nat /\ Len(t) \in Nat /\ h \in Up(t, h)
  BY UpSelf DEF Dfs, IsTree
<1>2. ASSUME NEW v \in 1 .. Len(t)
      PROVE  LET r == rep[v]
             IN  /\ IsRep(t, E, h, v, r) /\ r \in 1 .. Len(t) /\ v \in Comp(t, E, r) /\ r <= v
                 /\ r \in Up(t, v) /\ rep[r] = r /\ (r <= h => v = r) /\ (v <= h => v = r)
  <2> DEFINE r == rep[v]
  <2>1. IsRep(t, E, h, v, r)
    BY DEF IsReps
  <2>2. r \in 1 .. Len(t) /\ r \in Up(t, v) /\ IsRep(t, E, h, r, r) /\ (r <= h => v = r)
        /\ (v <= h => v = r) /\ v \in Comp(t, E, r) /\ r <= v
    BY <1>1, <2>1, RepFacts
  <2> HIDE DEF r
  <2>3. IsRep(t, E, h, r, rep[r])
    BY <2>2 DEF IsReps
  <2>4. rep[r] = r
    BY <1>1, <2>2, <2>3, RepUnique
  <2> QED
    BY <2>1, <2>2, <2>4 DEF r
\* The sources of the restored edges.
<1>3. ASSUME NEW v \in B, v # h, NEW u \in 1 .. Len(t), h \in Up(t, u), <<u, v>> \in OriginOf(t, X, h - 1, rep, rep[v])
      PROVE  u \in B
  <2>1. rep[v] \in S /\ rep[rep[v]] = rep[v]
    BY <1>2, <1>3
  <2> DEFINE e == <<u, v>>
  <2>2. e \in OriginOf(t, X, h - 1, rep, rep[v])
    BY <1>3
  <2> HIDE DEF e
  <2>3. rep[e[1]] \in S \cup {h}
    BY <2>1, <2>2
  <2>4. rep[u] \in S \cup {h}
    BY <2>3 DEF e
  <2>5. rep[u] = h => u = h
    BY <1>1, <1>2
  <2> QED
    BY <1>3, <2>4, <2>5
\* The path to h in the tree.
<1>4. ASSUME NEW v \in B, v # h  PROVE t[v] \in B
  <2>1. v \in 1 .. Len(t) /\ h \in Up(t, v) /\ rep[v] \in S
    BY <1>4
  <2>2. t[v] \in Nat /\ t[v] < v /\ Up(t, v) = {v} \cup Up(t, t[v])
    BY <1>1, <2>1, UpStep
  <2>3. h \in Up(t, t[v])
    BY <1>4, <2>1, <2>2
  <2>4. t[v] # 0 /\ t[v] \in 1 .. Len(t)
    <3>1. t[v] # 0
      BY <1>1, <2>3, UpOfRoot
    <3> QED
      BY <1>1, <2>1, <2>2, <3>1
  <2> DEFINE r == rep[v]
  <2>5. /\ IsRep(t, E, h, v, r) /\ r \in 1 .. Len(t) /\ v \in Comp(t, E, r) /\ r <= v
        /\ r \in Up(t, v) /\ rep[r] = r /\ (r <= h => v = r)
    BY <1>2, <2>1
  <2>6. CASE r = v
    <3>1. <<t[v], v>> \in OriginOf(t, X, h - 1, rep, r)
      BY <2>4, <2>6 DEF OriginOf
    <3> HIDE DEF B
    <3> QED
      BY <1>3, <1>4, <2>3, <2>4, <3>1
  <2>7. CASE r # v
    <3> HIDE DEF r
    <3>1. h < r /\ r \in Up(t, t[v])
      BY <2>1, <2>2, <2>5, <2>7, <1>1
    <3>2. r <= t[v] /\ t[v] \in Up(t, v)
      BY <2>2, <3>1, UpSelf
    <3>3. t[v] \in Comp(t, E, r)
      BY <2>5, <3>2, CompUp
    <3>4. IsRep(t, E, h, t[v], r)
      BY <1>1, <2>5, <3>1, <3>3, RepOfMember
    <3>5. rep[t[v]] = r
      BY <1>1, <1>2, <2>4, <3>4, RepUnique
    <3> QED
      BY <2>1, <2>3, <2>4, <3>5 DEF r
  <2> QED
    BY <2>6, <2>7
<1>5. ASSUME NEW v \in B, NEW u \in Up(t, v), h <= u  PROVE u \in B
  <2> DEFINE T == B \cup {x \in Nat : x < h}
  <2>1. T \in SUBSET Nat /\ v \in T
    OBVIOUS
  <2>2. ASSUME NEW x \in T, x \in 1 .. Len(t)  PROVE t[x] \in T
    <3>1. t[x] \in Nat /\ t[x] < x
      BY <1>1, <2>2, UpStep
    <3>2. CASE x <= h
      <4>1. t[x] < h
        BY <1>1, <2>2, <3>1, <3>2
      <4> HIDE DEF B
      <4> QED
        BY <3>1, <4>1
    <3>3. CASE ~(x <= h)
      <4>1. x \in B /\ x # h
        BY <1>1, <2>2, <3>3
      <4> HIDE DEF B
      <4> QED
        BY <1>4, <4>1
    <3> QED
      BY <3>2, <3>3
  <2>3. UpClosed(t, T)
    BY <2>2 DEF UpClosed
  <2>4. Up(t, v) \subseteq T
    <3> HIDE DEF T
    <3> QED
      BY <2>1, <2>3, UpIn
  <2>5. u \in T /\ u \in Nat
    BY <2>1, <2>4
  <2> HIDE DEF B
  <2> QED
    BY <1>1, <1>5, <2>5
<1>6. ASSUME NEW e \in E, e[2] \in B, h \in Up(t, e[1])  PROVE e[1] \in B
  <2> DEFINE u == e[1]
             v == e[2]
  <2>1. e = <<u, v>> /\ <<u, v>> \in E
    BY DEF Dfs
  <2>2. /\ u \in 1 .. Len(t) /\ v \in 1 .. Len(t) /\ (u < v => u \in Up(t, v)) /\ h \in Up(t, u)
    BY <1>6, <2>1, EdgesAreIn
  <2>3. h <= u
    BY <1>6, <2>2, UpSelf
  <2> HIDE DEF u, v
  <2>4. v \in B
    BY <1>6 DEF v
  <2>5. CASE u = h
    BY <1>1, <2>2, <2>5 DEF u
  <2>6. CASE u # h /\ v = h
    <3>1. rep[u] \in BackPreds(t, E, h, rep)
      BY <2>1, <2>2, <2>6 DEF BackPreds
    <3> QED
      BY <2>2, <3>1 DEF u
  <2>7. CASE u # h /\ v # h
    <3>1. h < u /\ h <= v /\ h < v
      <4>1. h <= v
        BY <2>4, UpSelf
      <4> QED
        BY <1>1, <2>2, <2>3, <2>7, <4>1
    <3> DEFINE r == rep[v]
    <3>2. /\ IsRep(t, E, h, v, r) /\ r \in 1 .. Len(t) /\ v \in Comp(t, E, r)
          /\ r \in Up(t, v) /\ (r <= h => v = r)
      BY <1>2, <2>2
    <3>3. r \in S
      BY <2>4, <2>7
    <3> HIDE DEF r
    <3>4. h < r
      BY <1>1, <3>1, <3>2
    <3>5. CASE r \in Up(t, u)
      <4>1. u \in Comp(t, E, r)
        BY <2>1, <3>2, <3>5, CompBack
      <4>2. IsRep(t, E, h, u, r)
        BY <1>1, <3>2, <3>4, <4>1, RepOfMember
      <4>3. rep[u] = r
        BY <1>1, <1>2, <2>2, <4>2, RepUnique
      <4> QED
        BY <2>2, <3>3, <4>3 DEF u
    <3>6. CASE r \notin Up(t, u) /\ u < v
      <4>1. u \in Up(t, v)
        BY <2>2, <3>6
      <4>2. u \in B
        BY <1>5, <2>3, <2>4, <4>1
      <4> QED
        BY <4>2 DEF u
    <3>7. CASE r \notin Up(t, u) /\ ~(u < v)
      <4>1. v \notin Up(t, u)
        <5>1. v \in Up(t, u) => Up(t, v) \subseteq Up(t, u)
          BY <1>1, <2>2, UpTrans
        <5> QED
          BY <3>2, <3>7, <5>1
      <4>2. u # v
        BY <2>2, <4>1, UpSelf
      <4>3. v < u
        BY <2>2, <3>7, <4>2
      <4>4. PICK a \in 1 .. Len(t) : <<u, v, a>> \in X
        BY <2>1, <2>2, <4>1, <4>3 DEF IsCross
      <4> DEFINE c == <<u, v, a>>
      <4>5. c \in X /\ c[1] = u /\ c[2] = v /\ c[3] = a
        BY <4>4
      <4> HIDE DEF c
      <4>6. IsMeet(t, u, v, a)
        BY <4>5 DEF IsCross
      <4>7. h \in Up(t, v)
        BY <2>4
      <4>8. h <= a /\ a \in Up(t, v) /\ a \in Up(t, u)
        BY <2>2, <4>6, <4>7 DEF IsMeet
      <4>9. ~(r <= a)
        <5>1. ASSUME r <= a  PROVE FALSE
          <6>1. v \in 0 .. Len(t)
            BY <2>2
          <6>2. r \in Up(t, a)
            BY <1>1, <3>2, <4>8, <5>1, <6>1, UpChain
          <6>3. Up(t, a) \subseteq Up(t, u)
            BY <1>1, <2>2, <4>8, UpTrans
          <6> QED
            BY <3>7, <6>2, <6>3
        <5> QED
          BY <5>1
      <4>10. h - 1 < a /\ a < r
        BY <1>1, <3>2, <4>8, <4>9
      <4>11. <<c[1], c[2]>> \in OriginOf(t, X, h - 1, rep, r)
        BY <4>5, <4>10 DEF OriginOf, r
      <4>12. u \in B
        <5>1. <<u, v>> \in OriginOf(t, X, h - 1, rep, rep[v])
          BY <4>5, <4>11 DEF r
        <5> HIDE DEF B
        <5> QED
          BY <1>3, <2>2, <2>4, <2>7, <5>1
      <4> QED
        BY <4>12 DEF u
    <3> QED
      BY <3>5, <3>6, <3>7
  <2> QED
    BY <2>5, <2>6, <2>7
<1>7. Comp(t, E, h) \subseteq B
  <2>1. BackClosed(t, E, h, B)
    BY <1>6 DEF BackClosed
  <2>2. h \in B /\ B \in SUBSET (1 .. Len(t))
    BY <1>1
  <2> HIDE DEF B
  <2> QED
    BY <2>1, <2>2, CompIn
<1> QED
  BY <1>7 DEF NestedReps

\* The fields of the state of the merge.
LEMMA MergeFields ==
  ASSUME NEW V, NEW s, MergeTypes(V, s)
  PROVE  /\ s.head \in Nat /\ s.rep \in [V -> V] /\ s.exit \in [V -> Int] /\ s.size \in [V -> Nat]
         /\ s.origin \in [V -> SUBSET (V \X V)] /\ s.space \in Seq(Int) /\ s.succ \in SUBSET (Int \X Int)
         /\ s.outer \in SUBSET (Int \X Int \X Int) /\ s.parent \in [V -> V]
BY DEF MergeTypes

\* The state once the edges of its head are restored.
Restored(s, X) == [Restore(s, s.head, X) EXCEPT !.head = s.head - 1]
ToRestore(s, X, v) == {<<c[1], c[2]>> : c \in {e \in X : e[3] = s.head /\ s.rep[e[2]] = v}}

\* Restoring the cross edges at a head adds them to the origins alone.
LEMMA RestoredIs ==
  ASSUME NEW n \in Nat, NEW s, MergeTypes(1 .. n, s), NEW X, s.head # 0,
         \A c \in X : c[1] \in 1 .. n /\ c[2] \in 1 .. n
  PROVE  LET r == Restored(s, X)
         IN  /\ MergeTypes(1 .. n, r)
             /\ r.head = s.head - 1 /\ r.rep = s.rep /\ r.exit = s.exit /\ r.size = s.size
             /\ r.space = s.space /\ r.succ = s.succ /\ r.outer = s.outer /\ r.parent = s.parent
             /\ r.origin = [v \in 1 .. n |-> s.origin[v] \cup ToRestore(s, X, v)]
<1> DEFINE V == 1 .. n
           o == [v \in DOMAIN s.origin |-> s.origin[v] \cup ToRestore(s, X, v)]
           r == Restored(s, X)
<1>1. s.head - 1 \in Nat /\ DOMAIN s.origin = V
  <2>1. s.head \in Nat /\ s.origin \in [V -> SUBSET (V \X V)]
    BY MergeFields
  <2> QED
    BY <2>1
<1>2. ASSUME NEW v \in V  PROVE s.origin[v] \cup ToRestore(s, X, v) \in SUBSET (V \X V)
  <2>1. s.origin[v] \in SUBSET (V \X V)
    BY MergeFields
  <2>2. ToRestore(s, X, v) \subseteq V \X V
    BY DEF ToRestore
  <2> QED
    BY <2>1, <2>2
<1>3. o \in [V -> SUBSET (V \X V)]
  BY <1>1, <1>2
<1>4. r = [[s EXCEPT !.origin = o] EXCEPT !.head = s.head - 1]
  BY DEF Restored, Restore, ToRestore
<1> HIDE DEF r, o
<1>5. /\ r.head = s.head - 1 /\ r.rep = s.rep /\ r.exit = s.exit /\ r.size = s.size
      /\ r.space = s.space /\ r.succ = s.succ /\ r.outer = s.outer /\ r.parent = s.parent
      /\ r.origin = o
  BY <1>4 DEF MergeTypes
<1>6. MergeTypes(V, r)
  BY <1>1, <1>3, <1>4 DEF MergeTypes
<1> QED
  BY <1>1, <1>5, <1>6 DEF o, r

\* What add_successor adds for the constraints A to those in S.
NewSucc(S, A) == {<<c[1], c[2]>> : c \in {b \in A : <<b[1], b[2]>> \notin S}}
NewOuter(S, A) == {<<c[1], c[2], c[3]>> : c \in {b \in A : <<b[1], b[2]>> \notin S /\ b[4]}}

\* add_successor changes the constraints alone.
LEMMA AddedIs ==
  ASSUME NEW V, NEW s, MergeTypes(V, s), NEW A, A \subseteq Int \X Int \X Int \X BOOLEAN
  PROVE  LET a == AddSuccessors(s, A)
         IN  /\ MergeTypes(V, a)
             /\ a.head = s.head /\ a.rep = s.rep /\ a.exit = s.exit /\ a.size = s.size
             /\ a.space = s.space /\ a.origin = s.origin /\ a.parent = s.parent
             /\ a.succ = s.succ \cup NewSucc(s.succ, A) /\ a.outer = s.outer \cup NewOuter(s.succ, A)
<1> DEFINE a == AddSuccessors(s, A)
           new == {c \in A : <<c[1], c[2]>> \notin s.succ}
           succ == s.succ \cup {<<c[1], c[2]>> : c \in new}
           outer == s.outer \cup {<<c[1], c[2], c[3]>> : c \in {b \in new : b[4]}}
<1>1. a = [s EXCEPT !.succ = succ, !.outer = outer]
  BY DEF AddSuccessors
<1>2. s.succ \in SUBSET (Int \X Int) /\ s.outer \in SUBSET (Int \X Int \X Int)
  BY MergeFields
<1>3. {<<c[1], c[2]>> : c \in new} \subseteq Int \X Int
      /\ {<<c[1], c[2], c[3]>> : c \in {b \in new : b[4]}} \subseteq Int \X Int \X Int
  <2>1. ASSUME NEW c \in A  PROVE c[1] \in Int /\ c[2] \in Int /\ c[3] \in Int
    BY <2>1
  <2>2. new \subseteq A
    OBVIOUS
  <2> HIDE DEF new
  <2>3. {<<c[1], c[2]>> : c \in new} \subseteq Int \X Int
    BY <2>1, <2>2
  <2>4. {<<c[1], c[2], c[3]>> : c \in {b \in new : b[4]}} \subseteq Int \X Int \X Int
    BY <2>1, <2>2
  <2> QED
    BY <2>3, <2>4
<1>4. succ \in SUBSET (Int \X Int) /\ outer \in SUBSET (Int \X Int \X Int)
  BY <1>2, <1>3
<1>5. outer = s.outer \cup NewOuter(s.succ, A) /\ succ = s.succ \cup NewSucc(s.succ, A)
  BY DEF NewOuter, NewSucc
<1> HIDE DEF a, succ, outer
<1>6. /\ a.head = s.head /\ a.rep = s.rep /\ a.exit = s.exit /\ a.size = s.size
      /\ a.space = s.space /\ a.origin = s.origin /\ a.parent = s.parent
      /\ a.succ = succ /\ a.outer = outer
  BY <1>1 DEF MergeTypes
<1>7. MergeTypes(V, a)
  BY <1>1, <1>4 DEF MergeTypes
<1> QED
  BY <1>5, <1>6, <1>7 DEF a

\* The worklist of the code computes the nested components.
LEMMA NestedIs ==
  ASSUME NEW t, NEW E, Dfs(t, E), NEW X, IsCross(t, E, X), NEW h \in 1 .. Len(t),
         NEW s, IsReps(t, E, h, s.rep),
         \A r \in 1 .. Len(t) : s.rep[r] = r => s.origin[r] = OriginOf(t, X, h - 1, s.rep, r),
         NEW P, P = BackPreds(t, E, h, s.rep)
  PROVE  Nested(s, h, P) = NestedReps(t, E, h, s.rep)
<1> DEFINE N == NestedReps(t, E, h, s.rep)
           V == 1 .. Len(t)
           Closed(S) == P \subseteq S /\ \A v \in S : \A e \in s.origin[v] : s.rep[e[1]] \in S \cup {h}
<1>1. DOMAIN s.rep = V
  BY DEF IsReps
<1>2. Nested(s, h, P) = {r \in V : \A S \in SUBSET V : Closed(S) => r \in S}
  BY <1>1 DEF Nested
<1>3. Closed(N) /\ N \in SUBSET V
  <2>1. N \in SUBSET V
    BY DEF NestedReps
  <2>2. P \subseteq N
    BY NestedIsClosed
  <2>3. ASSUME NEW v \in N, NEW e \in s.origin[v]  PROVE s.rep[e[1]] \in N \cup {h}
    <3>1. e \in OriginOf(t, X, h - 1, s.rep, v)
      BY <2>3 DEF NestedReps
    <3> QED
      BY <3>1, NestedIsClosed
  <2> HIDE DEF N
  <2> QED
    BY <2>1, <2>2, <2>3
<1>4. ASSUME NEW S \in SUBSET V, Closed(S)  PROVE N \subseteq S
  <2>1. ASSUME NEW r \in S, s.rep[r] = r, NEW e \in OriginOf(t, X, h - 1, s.rep, r)  PROVE s.rep[e[1]] \in S \cup {h}
    <3>1. s.origin[r] = OriginOf(t, X, h - 1, s.rep, r)
      BY <2>1
    <3> QED
      BY <1>4, <2>1, <3>1
  <2>2. BackPreds(t, E, h, s.rep) \subseteq S
    BY <1>4
  <2> HIDE DEF N, Closed
  <2> QED
    BY <2>1, <2>2, NestedIsLeast DEF N
<1> HIDE DEF N, Closed
<1> QED
  BY <1>2, <1>3, <1>4 DEF N

Merging(t, E, X, s) == Dfs(t, E) /\ IsCross(t, E, X) /\ MergeInv(t, E, X, s)

\* The parts of the invariant.
LEMMA MergingFacts ==
  ASSUME NEW t, NEW E, NEW X, NEW s, Merging(t, E, X, s)
  PROVE  /\ Dfs(t, E) /\ IsCross(t, E, X) /\ Len(t) \in Nat /\ s.head \in 0 .. Len(t)
         /\ IsReps(t, E, s.head, s.rep) /\ MergeTypes(1 .. Len(t), s)
         /\ ExitInv(t, E, s) /\ OriginInv(t, X, s) /\ ParentInv(t, E, s)
         /\ SizeInv(t, E, s) /\ SpaceInv(t, E, s.head, s.space) /\ ConstraintInv(t, E, s)
<1>1. Len(t) \in Nat
  BY DEF Merging, Dfs, IsTree
<1>2. s.head \in Nat /\ s.rep \in [1 .. Len(t) -> 1 .. Len(t)] /\ s.head <= Len(t)
  BY MergeFields DEF Merging, MergeInv
<1>3. s.head \in 0 .. Len(t)
  BY <1>1, <1>2
<1> QED
  BY <1>1, <1>2, <1>3 DEF Merging, MergeInv, RepInv, IsReps

\* With the edges of the head restored the origins are those for the next head.
LEMMA RestoredFacts ==
  ASSUME NEW t, NEW E, NEW X, NEW s, Merging(t, E, X, s), s.head # 0
  PROVE  LET r == Restored(s, X)
             h == s.head
         IN  /\ h \in 1 .. Len(t) /\ MergeTypes(1 .. Len(t), r)
             /\ r.head = h - 1 /\ r.rep = s.rep /\ r.exit = s.exit /\ r.size = s.size
             /\ r.space = s.space /\ r.succ = s.succ /\ r.outer = s.outer /\ r.parent = s.parent
             /\ \A v \in 1 .. Len(t) : s.rep[v] = v => r.origin[v] = OriginOf(t, X, h - 1, s.rep, v)
<1> DEFINE n == Len(t)
           h == s.head
           r == Restored(s, X)
<1>1. /\ Dfs(t, E) /\ IsCross(t, E, X) /\ n \in Nat /\ h \in 0 .. n
      /\ IsReps(t, E, h, s.rep) /\ MergeTypes(1 .. n, s) /\ OriginInv(t, X, s)
  BY MergingFacts
<1>2. h \in 1 .. n
  BY <1>1
<1>3. ASSUME NEW c \in X
      PROVE  c[1] \in 1 .. n /\ c[2] \in 1 .. n /\ c[3] \in 1 .. n /\ c[3] < c[2]
  <2>1. <<c[1], c[2]>> \in E /\ c[3] \in 1 .. n /\ c[2] \notin Up(t, c[1]) /\ IsMeet(t, c[1], c[2], c[3])
    BY <1>1 DEF IsCross
  <2>2. c[1] \in 1 .. n /\ c[2] \in 1 .. n
    BY <1>1, <2>1, EdgesAreIn
  <2>3. c[3] # c[2] /\ c[3] \in 0 .. c[2]
    BY <2>1, <2>2, UpSelf DEF IsMeet
  <2> QED
    BY <2>1, <2>2, <2>3
<1>4. /\ MergeTypes(1 .. n, r)
      /\ r.head = h - 1 /\ r.rep = s.rep /\ r.exit = s.exit /\ r.size = s.size
      /\ r.space = s.space /\ r.succ = s.succ /\ r.outer = s.outer /\ r.parent = s.parent
      /\ r.origin = [v \in 1 .. n |-> s.origin[v] \cup ToRestore(s, X, v)]
  BY <1>1, <1>2, <1>3, RestoredIs
<1>5. ASSUME NEW v \in 1 .. n, s.rep[v] = v  PROVE r.origin[v] = OriginOf(t, X, h - 1, s.rep, v)
  <2>1. r.origin[v] = OriginOf(t, X, h, s.rep, v) \cup ToRestore(s, X, v)
    <3> HIDE DEF r
    <3> QED
      BY <1>1, <1>4, <1>5 DEF OriginInv
  <2>2. ASSUME NEW x \in X, s.rep[x[2]] = v  PROVE h - 1 < x[3] /\ x[3] < v <=> (h < x[3] /\ x[3] < v) \/ x[3] = h
    <3>1. x[3] \in Nat /\ x[3] < x[2] /\ x[2] \in 1 .. n
      BY <1>3
    <3>2. IsRep(t, E, h, x[2], v)
      BY <1>1, <2>2, <3>1 DEF IsReps
    <3>3. v = x[2] \/ h < v
      BY <3>2 DEF IsRep
    <3> QED
      BY <1>2, <3>1, <3>3
  <2>3. {x \in X : h - 1 < x[3] /\ x[3] < v /\ s.rep[x[2]] = v} =
        {x \in X : h < x[3] /\ x[3] < v /\ s.rep[x[2]] = v} \cup {x \in X : x[3] = h /\ s.rep[x[2]] = v}
    <3> HIDE DEF h
    <3> QED
      BY <2>2
  <2> DEFINE A == {x \in X : h < x[3] /\ x[3] < v /\ s.rep[x[2]] = v}
             B == {x \in X : x[3] = h /\ s.rep[x[2]] = v}
  <2>4. OriginOf(t, X, h - 1, s.rep, v) = {<<u, v>> : u \in {t[v]} \ {0}} \cup {<<c[1], c[2]>> : c \in A \cup B}
    BY <2>3 DEF OriginOf
  <2>5. OriginOf(t, X, h, s.rep, v) = {<<u, v>> : u \in {t[v]} \ {0}} \cup {<<c[1], c[2]>> : c \in A}
    BY DEF OriginOf
  <2>6. ToRestore(s, X, v) = {<<c[1], c[2]>> : c \in B}
    BY DEF ToRestore
  <2> HIDE DEF A, B, r
  <2> QED
    BY <2>1, <2>4, <2>5, <2>6
<1> HIDE DEF r
<1> QED
  BY <1>2, <1>4, <1>5 DEF r
-----------------------------------------------------------------------------
\* The edges that become constraints when h is the head.
JoinedAt(t, E, h) ==
  {e \in TreeOrCross(t, E) : Joined(t, E, h - 1, e[1], e[2]) /\ ~Joined(t, E, h, e[1], e[2])}

\* These edges are between different nested components.
LEMMA JoinedAtFacts ==
  ASSUME NEW t, NEW E, Dfs(t, E), NEW h \in 1 .. Len(t), NEW rep, IsReps(t, E, h, rep),
         NEW e \in JoinedAt(t, E, h)
  PROVE  /\ e \in E /\ e = <<e[1], e[2]>> /\ e[1] \in Comp(t, E, h) /\ e[2] \in Comp(t, E, h) /\ e[2] # h
         /\ e[2] \notin Up(t, e[1])
         /\ rep[e[1]] # rep[e[2]] /\ rep[e[2]] \in NestedReps(t, E, h, rep)
<1>1. e \in E /\ e = <<e[1], e[2]>> /\ e \in TreeOrCross(t, E)
  BY DEF JoinedAt, TreeOrCross, Dfs
<1>2. e[1] # e[2] /\ e[2] \notin Up(t, e[1]) /\ e[1] \in 1 .. Len(t) /\ e[2] \in 1 .. Len(t)
  BY <1>1, EdgesAreIn
<1>3. PICK g \in 1 .. Len(t) : h - 1 < g /\ e[1] \in Comp(t, E, g) /\ e[2] \in Comp(t, E, g)
  BY DEF JoinedAt, Joined
<1>4. ~(h < g)
  BY <1>3 DEF JoinedAt, Joined
<1>5. g = h
  BY <1>3, <1>4
<1>6. e[2] # h
  BY <1>2, <1>3, <1>5, CompFacts
<1>7. rep[e[2]] \in NestedReps(t, E, h, rep)
  BY <1>3, <1>5, <1>6, LoopReps
<1>8. IsRep(t, E, h, e[1], rep[e[1]]) /\ IsRep(t, E, h, e[2], rep[e[2]])
  BY <1>2 DEF IsReps
<1>9. rep[e[1]] # rep[e[2]]
  <2>1. h < rep[e[2]]
    BY <1>7 DEF NestedReps
  <2>2. ~Joined(t, E, h, e[1], e[2])
    BY DEF JoinedAt
  <2> QED
    BY <1>8, <2>1, <2>2, JoinedIs
<1> QED
  BY <1>1, <1>2, <1>3, <1>5, <1>6, <1>7, <1>9

\* The origins of the nested components are these edges,
LEMMA OriginIsJoined ==
  ASSUME NEW t, NEW E, Dfs(t, E), NEW X, IsCross(t, E, X), NEW h \in 1 .. Len(t), NEW rep, IsReps(t, E, h, rep),
         NEW r \in NestedReps(t, E, h, rep), NEW e \in OriginOf(t, X, h - 1, rep, r)
  PROVE  e \in JoinedAt(t, E, h) /\ rep[e[2]] = r
<1>1. e = <<e[1], e[2]>> /\ e \in E /\ e[1] \in Comp(t, E, h) /\ e[2] \in Comp(t, E, r)
  BY NestedIsClosed
<1>2. r \in 1 .. Len(t) /\ h < r /\ rep[r] = r /\ r \in Comp(t, E, h) /\ h \in Nat
  BY DEF NestedReps
<1>3. e[2] \in Comp(t, E, h) /\ e[1] \in 1 .. Len(t) /\ e[2] \in 1 .. Len(t) /\ r <= e[2] /\ r \in Up(t, e[2])
  <2>1. e[2] \in Comp(t, E, h)
    BY <1>1, <1>2, CompInside
  <2>2. e[2] \in 1 .. Len(t) /\ r <= e[2] /\ r \in Up(t, e[2])
    BY <1>1, <1>2, CompFacts
  <2> QED
    BY <1>1, <2>1, <2>2, CompFacts
<1>4. IsRep(t, E, h, e[2], r)
  <2>1. IsRep(t, E, h, r, r)
    BY <1>2 DEF IsReps
  <2> QED
    BY <1>1, <1>2, <2>1, RepOfMember
<1>5. rep[e[2]] = r
  <2>1. IsRep(t, E, h, e[2], rep[e[2]])
    BY <1>3 DEF IsReps
  <2> QED
    BY <1>2, <1>4, <2>1, RepUnique
<1>6. IsRep(t, E, h, e[1], rep[e[1]])
  BY <1>3 DEF IsReps
<1>7. e \in TreeOrCross(t, E) /\ rep[e[1]] # r
  <2>1. CASE e \in {<<u, r>> : u \in {t[r]} \ {0}}
    <3>1. e[1] = t[r] /\ e[2] = r
      BY <2>1
    <3>2. e \in TreeOrCross(t, E)
      BY <1>1, <3>1 DEF TreeOrCross
    <3>3. t[r] < r
      BY <1>2, UpStep DEF Dfs
    <3>4. rep[e[1]] <= e[1]
      BY <1>2, <1>6, RepFacts
    <3>5. rep[e[1]] \in Nat /\ t[r] \in Nat
      BY <1>3, <3>1 DEF IsReps
    <3> QED
      BY <1>2, <3>1, <3>2, <3>3, <3>4, <3>5
  <2>2. CASE e \in {<<c[1], c[2]>> : c \in {x \in X : h - 1 < x[3] /\ x[3] < r /\ rep[x[2]] = r}}
    <3>1. PICK c \in X : h - 1 < c[3] /\ c[3] < r /\ rep[c[2]] = r /\ e = <<c[1], c[2]>>
      BY <2>2
    <3>2. e[1] = c[1] /\ e[2] = c[2]
      BY <3>1
    <3>3. c[2] < c[1] /\ c[2] \notin Up(t, c[1]) /\ IsMeet(t, c[1], c[2], c[3]) /\ c[3] \in 1 .. Len(t)
      BY DEF IsCross
    <3>4. e \in TreeOrCross(t, E)
      BY <1>1, <3>2, <3>3 DEF TreeOrCross
    <3>5. r \notin Up(t, e[1])
      <4>1. ASSUME r \in Up(t, e[1])  PROVE r <= c[3]
        BY <1>3, <3>2, <3>3, <4>1 DEF IsMeet
      <4> QED
        BY <1>2, <3>1, <3>3, <4>1
    <3>6. rep[e[1]] \in Up(t, e[1])
      BY <1>2, <1>6, RepFacts
    <3> QED
      BY <3>4, <3>5, <3>6
  <2> QED
    BY <2>1, <2>2 DEF OriginOf
<1>8. Joined(t, E, h - 1, e[1], e[2])
  <2>1. h - 1 < h
    BY <1>2
  <2> QED
    BY <1>1, <1>3, <2>1 DEF Joined
<1>9. ~Joined(t, E, h, e[1], e[2])
  BY <1>2, <1>4, <1>6, <1>7, JoinedIs
<1> QED
  BY <1>5, <1>7, <1>8, <1>9 DEF JoinedAt

\* and each of these edges is one of the origins.
LEMMA JoinedIsOrigin ==
  ASSUME NEW t, NEW E, Dfs(t, E), NEW X, IsCross(t, E, X), NEW h \in 1 .. Len(t), NEW rep, IsReps(t, E, h, rep),
         NEW e \in JoinedAt(t, E, h)
  PROVE  rep[e[2]] \in NestedReps(t, E, h, rep) /\ e \in OriginOf(t, X, h - 1, rep, rep[e[2]])
<1> DEFINE r == rep[e[2]]
           u == e[1]
           v == e[2]
<1>1. /\ e \in E /\ e = <<u, v>> /\ u \in Comp(t, E, h) /\ v \in Comp(t, E, h) /\ v # h
      /\ rep[u] # r /\ r \in NestedReps(t, E, h, rep) /\ v \notin Up(t, u)
  BY JoinedAtFacts
<1>2. u \in 1 .. Len(t) /\ v \in 1 .. Len(t) /\ h \in Up(t, u) /\ h \in Up(t, v) /\ h \in Nat /\ IsTree(t)
  BY <1>1, CompFacts DEF Dfs
<1>3. IsRep(t, E, h, u, rep[u]) /\ IsRep(t, E, h, v, r)
  BY <1>2 DEF IsReps
<1>4. r \in 1 .. Len(t) /\ v \in Comp(t, E, r) /\ r <= v /\ r \in Up(t, v) /\ h < r
  <2>1. r \in 1 .. Len(t) /\ h < r
    BY <1>1 DEF NestedReps
  <2> QED
    BY <1>2, <1>3, <2>1, RepFacts
<1> HIDE DEF r, u, v
<1>5. u \notin Comp(t, E, r)
  <2>1. ASSUME u \in Comp(t, E, r)  PROVE FALSE
    <3>1. IsRep(t, E, h, u, r)
      BY <1>2, <1>3, <1>4, <2>1, RepOfMember
    <3> QED
      BY <1>1, <1>2, <1>3, <3>1, RepUnique
  <2> QED
    BY <2>1
<1>6. r \notin Up(t, u)
  BY <1>1, <1>4, <1>5, CompBack
<1>7. e \in TreeOrCross(t, E)
  BY DEF JoinedAt
<1>8. CASE u = t[v]
  <2>1. t[v] \in Nat /\ t[v] < v /\ Up(t, v) = {v} \cup Up(t, t[v])
    BY <1>2, UpStep
  <2>2. r = v
    BY <1>4, <1>6, <1>8, <2>1
  <2>3. t[v] # 0
    BY <1>2, <1>8
  <2> QED
    BY <1>1, <1>8, <2>2, <2>3 DEF OriginOf, r
<1>9. CASE u # t[v]
  <2>1. v < u
    BY <1>7, <1>9 DEF TreeOrCross, u, v
  <2>2. PICK a \in 1 .. Len(t) : <<u, v, a>> \in X
    BY <1>1, <1>2, <2>1 DEF IsCross
  <2> DEFINE c == <<u, v, a>>
  <2>3. c \in X /\ c[1] = u /\ c[2] = v /\ c[3] = a
    BY <2>2
  <2> HIDE DEF c
  <2>4. IsMeet(t, u, v, a)
    BY <2>3 DEF IsCross
  <2>5. h <= a /\ a \in Up(t, v) /\ a \in Up(t, u)
    BY <1>2, <2>4 DEF IsMeet
  <2>6. ~(r <= a)
    <3>1. ASSUME r <= a  PROVE FALSE
      <4>1. v \in 0 .. Len(t)
        BY <1>2
      <4>2. r \in Up(t, a)
        BY <1>2, <1>4, <2>5, <3>1, <4>1, UpChain
      <4>3. Up(t, a) \subseteq Up(t, u)
        BY <1>2, <2>5, UpTrans
      <4> QED
        BY <1>6, <4>2, <4>3
    <3> QED
      BY <3>1
  <2>7. h - 1 < a /\ a < r
    BY <1>2, <1>4, <2>5, <2>6
  <2>8. <<c[1], c[2]>> \in OriginOf(t, X, h - 1, rep, r)
    BY <2>3, <2>7 DEF OriginOf, r, v
  <2> QED
    BY <1>1, <2>3, <2>8 DEF r, v
<1> QED
  BY <1>1, <1>8, <1>9 DEF r, v

\* The exits at the ends of an edge are where it comes from and what it enters.
LEMMA ExitsOfEdge ==
  ASSUME NEW t, NEW E, Dfs(t, E), NEW m \in Nat, NEW u \in 1 .. Len(t), NEW v \in 1 .. Len(t),
         \A g \in 1 .. Len(t) : g <= m => (u \in Comp(t, E, g) <=> v \in Comp(t, E, g)),
         NEW rep, IsReps(t, E, m, rep), rep[u] # rep[v],
         NEW exit, \A w \in 1 .. Len(t) : exit[w] = IF m < w /\ HasBack(t, E, w) THEN -w ELSE w
  PROVE  /\ exit[rep[u]] = From(t, E, u, v) /\ exit[rep[v]] = From(t, E, v, u)
         /\ exit[rep[v]] # rep[v] <=> From(t, E, v, u) # v
<1>1. IsRep(t, E, m, u, rep[u]) /\ IsRep(t, E, m, v, rep[v])
  BY DEF IsReps
<1>2. /\ rep[u] \in 1 .. Len(t) /\ u \in Comp(t, E, rep[u])
      /\ rep[v] \in 1 .. Len(t) /\ v \in Comp(t, E, rep[v]) /\ (rep[v] <= m => v = rep[v])
  BY <1>1, RepFacts
<1>3. ASSUME NEW a \in 1 .. Len(t), NEW b \in 1 .. Len(t), rep[a] # rep[b], m < rep[a], b \in Comp(t, E, rep[a])
      PROVE  FALSE
  <2>1. IsRep(t, E, m, a, rep[a]) /\ IsRep(t, E, m, b, rep[b])
    BY DEF IsReps
  <2>2. IsRep(t, E, m, b, rep[a])
    BY <1>3, <2>1, RepOfMember
  <2> QED
    BY <1>3, <2>1, <2>2, RepUnique
<1>4. v \notin Comp(t, E, rep[u]) \/ rep[u] <= m
  <2>1. ~(m < rep[u]) => rep[u] <= m
    BY <1>2
  <2> QED
    BY <1>3, <2>1
<1>5. u \notin Comp(t, E, rep[v]) \/ rep[v] <= m
  <2>1. ~(m < rep[v]) => rep[v] <= m
    BY <1>2
  <2> QED
    BY <1>3, <2>1
<1>6. From(t, E, u, v) = IF m < rep[u] /\ HasBack(t, E, rep[u]) THEN -rep[u] ELSE rep[u]
  BY <1>1, <1>4, FromIs
<1>7. From(t, E, v, u) = IF m < rep[v] /\ HasBack(t, E, rep[v]) THEN -rep[v] ELSE rep[v]
  BY <1>1, <1>5, FromIs
<1>8. exit[rep[u]] = From(t, E, u, v) /\ exit[rep[v]] = From(t, E, v, u)
  BY <1>2, <1>6, <1>7
<1>9. CASE m < rep[v] /\ HasBack(t, E, rep[v])
  BY <1>2, <1>7, <1>8, <1>9
<1>10. CASE ~(m < rep[v] /\ HasBack(t, E, rep[v]))
  <2>1. v = rep[v]
    <3>1. CASE m < rep[v]
      BY <1>2, <1>10, <3>1, CompOfPlain
    <3>2. CASE rep[v] <= m
      BY <1>2, <3>2
    <3> QED
      BY <1>2, <3>1, <3>2
  <2> QED
    BY <1>7, <1>8, <1>10, <2>1
<1> QED
  BY <1>8, <1>9, <1>10

\* The constraints that enter a nested component.
LEMMA EnteringIs ==
  ASSUME NEW t, NEW E, NEW X, NEW s, Merging(t, E, X, s), s.head # 0,
         NEW v \in NestedReps(t, E, s.head, s.rep)
  PROVE  Entering(Restored(s, X), v) =
           {<<From(t, E, e[1], e[2]), e[2], From(t, E, e[2], e[1]), From(t, E, e[2], e[1]) # e[2]>> :
              e \in {f \in JoinedAt(t, E, s.head) : s.rep[f[2]] = v}}
<1> DEFINE h == s.head
           r == Restored(s, X)
           rep == s.rep
           O == OriginOf(t, X, h - 1, rep, v)
           J == {f \in JoinedAt(t, E, h) : rep[f[2]] = v}
<1>1. /\ Dfs(t, E) /\ IsCross(t, E, X) /\ IsReps(t, E, h, rep) /\ ExitInv(t, E, s) /\ h \in Nat
  BY MergingFacts
<1>2. h \in 1 .. Len(t) /\ r.rep = s.rep /\ r.exit = s.exit
      /\ \A w \in 1 .. Len(t) : s.rep[w] = w => r.origin[w] = OriginOf(t, X, h - 1, s.rep, w)
  BY RestoredFacts
<1> HIDE DEF r, h, rep
<1>3. v \in 1 .. Len(t) /\ rep[v] = v
  BY DEF NestedReps, rep
<1>4. r.origin[v] = O
  BY <1>2, <1>3 DEF rep
<1>5. O = J
  <2>1. ASSUME NEW e \in O  PROVE e \in J
    <3>1. v \in NestedReps(t, E, h, rep)
      BY DEF h, rep
    <3> QED
      BY <1>1, <1>2, <3>1, OriginIsJoined
  <2>2. ASSUME NEW e \in J  PROVE e \in O
    BY <1>1, <1>2, JoinedIsOrigin
  <2> QED
    BY <2>1, <2>2
<1>6. ASSUME NEW e \in J
      PROVE  /\ s.exit[rep[e[1]]] = From(t, E, e[1], e[2]) /\ s.exit[v] = From(t, E, e[2], e[1])
             /\ (s.exit[v] # v <=> From(t, E, e[2], e[1]) # e[2])
  <2>1. /\ e[1] \in Comp(t, E, h) /\ e[2] \in Comp(t, E, h) /\ rep[e[1]] # rep[e[2]] /\ rep[e[2]] = v
    BY <1>1, <1>2, JoinedAtFacts
  <2>2. e[1] \in 1 .. Len(t) /\ e[2] \in 1 .. Len(t)
    BY <1>1, <1>2, <2>1, CompFacts
  <2>3. ASSUME NEW g \in 1 .. Len(t), g <= h  PROVE e[1] \in Comp(t, E, g) <=> e[2] \in Comp(t, E, g)
    <3>1. (e[1] \in Comp(t, E, g) \/ e[2] \in Comp(t, E, g)) => Comp(t, E, h) \subseteq Comp(t, E, g)
      BY <1>1, <1>2, <2>1, <2>3, CompNested
    <3> QED
      BY <2>1, <3>1
  <2>4. \A w \in 1 .. Len(t) : s.exit[w] = IF h < w /\ HasBack(t, E, w) THEN -w ELSE w
    BY <1>1 DEF ExitInv, h
  <2>5. /\ s.exit[rep[e[1]]] = From(t, E, e[1], e[2]) /\ s.exit[rep[e[2]]] = From(t, E, e[2], e[1])
        /\ s.exit[rep[e[2]]] # rep[e[2]] <=> From(t, E, e[2], e[1]) # e[2]
    <3> DEFINE a == e[1]
               b == e[2]
               exit == s.exit
    <3>1. a \in 1 .. Len(t) /\ b \in 1 .. Len(t) /\ rep[a] # rep[b]
      BY <2>1, <2>2
    <3>2. \A g \in 1 .. Len(t) : g <= h => (a \in Comp(t, E, g) <=> b \in Comp(t, E, g))
      BY <2>3
    <3>3. \A w \in 1 .. Len(t) : exit[w] = IF h < w /\ HasBack(t, E, w) THEN -w ELSE w
      BY <2>4
    <3> HIDE DEF J, a, b, exit
    <3>4. /\ exit[rep[a]] = From(t, E, a, b) /\ exit[rep[b]] = From(t, E, b, a)
          /\ exit[rep[b]] # rep[b] <=> From(t, E, b, a) # b
      BY <1>1, <3>1, <3>2, <3>3, ExitsOfEdge
    <3> QED
      BY <3>4 DEF a, b, exit
  <2> QED
    BY <2>1, <2>5
<1>7. Entering(r, v) = {<<s.exit[rep[e[1]]], e[2], s.exit[v], s.exit[v] # v>> : e \in J}
  BY <1>2, <1>4, <1>5 DEF Entering, rep
<1> HIDE DEF J
<1>8. {<<s.exit[rep[e[1]]], e[2], s.exit[v], s.exit[v] # v>> : e \in J} =
      {<<From(t, E, e[1], e[2]), e[2], From(t, E, e[2], e[1]), From(t, E, e[2], e[1]) # e[2]>> : e \in J}
  BY <1>6
<1> QED
  BY <1>7, <1>8 DEF J, r, h, rep

ClosingsAt(t, E, h) == {f \in Closings(t, E) : f[2] = h}
ClosingsOf(t, E, h) == {<<From(t, E, e[1], e[2]), -h, -h, FALSE>> : e \in ClosingsAt(t, E, h)}

\* What the exit of the loop waits for.
LEMMA ClosingIs ==
  ASSUME NEW t, NEW E, NEW X, NEW s, Merging(t, E, X, s), s.head # 0, HasBack(t, E, s.head)
  PROVE  Closing(Restored(s, X), s.head, BackPreds(t, E, s.head, s.rep)) =
           ClosingsOf(t, E, s.head)
<1> DEFINE h == s.head
           r == Restored(s, X)
           rep == s.rep
           P == BackPreds(t, E, h, rep)
           Q == IF P = {} THEN {h} ELSE P
           K == {f \in Closings(t, E) : f[2] = h}
           U == {w \in 1 .. Len(t) : <<w, h>> \in E /\ h \in Up(t, w)}
<1>1. /\ Dfs(t, E) /\ IsReps(t, E, h, rep) /\ ExitInv(t, E, s) /\ h \in Nat
  BY MergingFacts
<1>2. h \in 1 .. Len(t) /\ r.exit = s.exit
  BY RestoredFacts
<1> HIDE DEF r, h, rep
<1>3. rep[h] = h /\ s.exit[h] = h
  BY <1>1, <1>2, LoopReps DEF ExitInv, h
<1>4. ASSUME NEW u \in U
      PROVE  s.exit[rep[u]] = From(t, E, u, h)
  <2>1. u \in Comp(t, E, h) /\ u \in 1 .. Len(t)
    BY <1>1, <1>2, CompSelf, CompBack
  <2>2. IsRep(t, E, h, u, rep[u])
    BY <1>1, <2>1 DEF IsReps
  <2>3. rep[u] \in 1 .. Len(t) /\ (rep[u] <= h => u = rep[u])
    BY <1>1, <2>2, RepFacts
  <2>4. rep[u] <= h \/ h \notin Comp(t, E, rep[u])
    <3>1. h \in Comp(t, E, rep[u]) => rep[u] <= h
      BY <1>1, <2>3, CompFacts
    <3> QED
      BY <3>1
  <2>5. ASSUME NEW g \in 1 .. Len(t), g <= h, u \in Comp(t, E, g)  PROVE h \in Comp(t, E, g)
    BY <1>1, <1>2, <2>1, <2>5, CompNested
  <2>6. From(t, E, u, h) = IF h < rep[u] /\ HasBack(t, E, rep[u]) THEN -rep[u] ELSE rep[u]
    BY <1>1, <1>2, <2>1, <2>2, <2>4, <2>5, FromIs
  <2> QED
    BY <1>1, <2>3, <2>6 DEF ExitInv, h
<1>5. P = {rep[u] : u \in U \ {h}}
  BY DEF BackPreds
<1>6. U # {} /\ \A e \in E : e[2] = h /\ h \in Up(t, e[1]) <=> e[1] \in U /\ e = <<e[1], h>>
  <2>1. \A e \in E : e = <<e[1], e[2]>> /\ e[1] \in 1 .. Len(t)
    BY <1>1 DEF Dfs
  <2>2. \A e \in E : e[2] = h /\ h \in Up(t, e[1]) <=> e[1] \in U /\ e = <<e[1], h>>
    BY <2>1
  <2>3. PICK e \in E : e[2] = h /\ h \in Up(t, e[1])
    BY DEF HasBack, h
  <2> QED
    BY <2>2, <2>3
<1>7. ASSUME NEW e \in E, e[2] = h
      PROVE  e \in K <=> e[1] \in U /\ (e[1] # h \/ U = {h})
  <2>1. e \in K <=> /\ h \in Up(t, e[1])
                    /\ (e[1] = h => \A f \in E : f[2] = h /\ h \in Up(t, f[1]) => f[1] = h)
    BY <1>7 DEF Closings
  <2>2. (\A f \in E : f[2] = h /\ h \in Up(t, f[1]) => f[1] = h) <=> U \subseteq {h}
    <3>1. ASSUME NEW w \in U  PROVE \E f \in E : f[2] = h /\ h \in Up(t, f[1]) /\ f[1] = w
      <4> DEFINE f == <<w, h>>
      <4>1. f \in E /\ f[2] = h /\ f[1] = w /\ h \in Up(t, f[1])
        OBVIOUS
      <4> QED
        BY <4>1
    <3> HIDE DEF U
    <3> QED
      BY <1>6, <3>1
  <2>3. h \in Up(t, e[1]) <=> e[1] \in U
    <3> HIDE DEF U
    <3>1. e = <<e[1], h>>
      BY <1>1, <1>7 DEF Dfs
    <3> QED
      BY <1>6, <1>7, <3>1
  <2> HIDE DEF U, K
  <2> QED
    BY <1>6, <2>1, <2>2, <2>3
<1>8. K = {<<u, h>> : u \in IF U = {h} THEN {h} ELSE U \ {h}}
  <2>1. ASSUME NEW e \in K  PROVE e \in {<<u, h>> : u \in IF U = {h} THEN {h} ELSE U \ {h}}
    <3>1. e \in E /\ e[2] = h
      BY DEF Closings
    <3>2. e = <<e[1], h>>
      BY <1>1, <3>1 DEF Dfs
    <3>3. e[1] \in U /\ (e[1] # h \/ U = {h})
      BY <1>7, <3>1
    <3> HIDE DEF U
    <3>4. e[1] \in IF U = {h} THEN {h} ELSE U \ {h}
      BY <3>3
    <3> QED
      BY <3>2, <3>4
  <2>2. ASSUME NEW u \in IF U = {h} THEN {h} ELSE U \ {h}  PROVE <<u, h>> \in K
    <3> DEFINE e == <<u, h>>
    <3>1. u \in U
      BY <2>2
    <3>2. e \in E /\ e[1] = u /\ e[2] = h
      BY <3>1
    <3> HIDE DEF e
    <3>3. u # h \/ U = {h}
      BY <2>2
    <3>4. e \in K
      BY <1>7, <3>1, <3>2, <3>3
    <3> QED
      BY <3>4 DEF e
  <2> QED
    BY <2>1, <2>2
<1> DEFINE W == IF U = {h} THEN {h} ELSE U \ {h}
<1>9. Q = {rep[u] : u \in W}
  <2>1. CASE U = {h}
    <3>1. P = {} /\ W = {h}
      BY <1>5, <2>1
    <3> QED
      BY <1>3, <3>1
  <2>2. CASE U # {h}
    <3>1. U \ {h} # {}
      BY <1>6, <2>2
    <3> HIDE DEF U
    <3>2. P # {} /\ W = U \ {h}
      BY <1>5, <2>2, <3>1
    <3> QED
      BY <1>5, <3>2
  <2> QED
    BY <2>1, <2>2
<1>10. W \subseteq U
  BY <1>6
<1>11. Closing(r, h, P) = {<<s.exit[p], -h, -h, FALSE>> : p \in Q}
  BY <1>2 DEF Closing
<1> HIDE DEF P, Q, K, U, W
<1>12. {<<s.exit[p], -h, -h, FALSE>> : p \in Q} = {<<From(t, E, u, h), -h, -h, FALSE>> : u \in W}
  BY <1>4, <1>9, <1>10
<1>13. {<<From(t, E, u, h), -h, -h, FALSE>> : u \in W} = {<<From(t, E, e[1], e[2]), -h, -h, FALSE>> : e \in K}
  <2> DEFINE F(e) == <<From(t, E, e[1], e[2]), -h, -h, FALSE>>
  <2>1. ASSUME NEW u \in W  PROVE F(<<u, h>>) = <<From(t, E, u, h), -h, -h, FALSE>> /\ <<u, h>> \in K
    BY <1>8 DEF W
  <2>2. ASSUME NEW e \in K  PROVE \E u \in W : e = <<u, h>>
    BY <1>8 DEF W
  <2> HIDE DEF F
  <2>3. {<<From(t, E, u, h), -h, -h, FALSE>> : u \in W} = {F(e) : e \in K}
    BY <2>1, <2>2, ZenonT(40)
  <2> QED
    BY <2>3 DEF F
<1> QED
  BY <1>11, <1>12, <1>13 DEF P, K, r, h, rep, ClosingsOf, ClosingsAt

\* Where an edge comes from is an element.
LEMMA FromFacts ==
  ASSUME NEW t, NEW E, Dfs(t, E), NEW u \in 1 .. Len(t), NEW v \in 1 .. Len(t)
  PROVE  LET L == LeftOf(t, E, u, v)
         IN  /\ From(t, E, u, v) \in Int
             /\ IF L = {} THEN From(t, E, u, v) = u
                ELSE \E g \in L : From(t, E, u, v) = -g /\ \A k \in L : g <= k
<1> DEFINE L == LeftOf(t, E, u, v)
<1>1. CASE L = {}
  BY <1>1 DEF From
<1>2. CASE L # {}
  <2>1. L \subseteq Nat
    BY DEF LeftOf
  <2> HIDE DEF L
  <2>2. LeastOf(L) \in L /\ \A k \in L : LeastOf(L) <= k
    BY <1>2, <2>1, LeastOfNat
  <2>3. From(t, E, u, v) = -LeastOf(L)
    BY <1>2 DEF From, L
  <2>4. LeastOf(L) \in Nat
    BY <2>1, <2>2
  <2>5. From(t, E, u, v) \in Int
    BY <2>3, <2>4
  <2>6. \E g \in L : From(t, E, u, v) = -g /\ \A k \in L : g <= k
    BY <2>2, <2>3
  <2> QED
    BY <1>2, <2>5, <2>6 DEF L
<1> QED
  BY <1>1, <1>2

\* Edges with the same constraint enter the same loops.
LEMMA SameConstraint ==
  ASSUME NEW t, NEW E, Dfs(t, E), NEW u \in 1 .. Len(t), NEW w \in 1 .. Len(t), NEW v \in 1 .. Len(t),
         From(t, E, u, v) = From(t, E, w, v)
  PROVE  From(t, E, v, u) = From(t, E, v, w)
<1>1. ASSUME NEW a \in 1 .. Len(t), NEW b \in 1 .. Len(t), From(t, E, a, v) = From(t, E, b, v),
             NEW g \in LeftOf(t, E, v, a)
      PROVE  g \in LeftOf(t, E, v, b)
  <2>1. g \in 1 .. Len(t) /\ HasBack(t, E, g) /\ v \in Comp(t, E, g) /\ a \notin Comp(t, E, g)
    BY DEF LeftOf
  <2>2. SUFFICES ASSUME b \in Comp(t, E, g)  PROVE FALSE
    BY <2>1 DEF LeftOf
  <2>3. CASE LeftOf(t, E, a, v) = {}
    <3>1. From(t, E, b, v) = a
      BY <1>1, <2>3, FromFacts
    <3>2. CASE LeftOf(t, E, b, v) = {}
      <4>1. From(t, E, b, v) = b
        BY <3>2, FromFacts
      <4> QED
        BY <2>1, <2>2, <3>1, <4>1
    <3>3. CASE LeftOf(t, E, b, v) # {}
      <4>1. PICK k \in LeftOf(t, E, b, v) : From(t, E, b, v) = -k
        BY <3>3, FromFacts
      <4>2. k \in 1 .. Len(t)
        BY DEF LeftOf
      <4> QED
        BY <3>1, <4>1, <4>2
    <3> QED
      BY <3>2, <3>3
  <2>4. CASE LeftOf(t, E, a, v) # {}
    <3>1. PICK k \in LeftOf(t, E, a, v) : From(t, E, a, v) = -k
      BY <2>4, FromFacts
    <3>2. k \in 1 .. Len(t) /\ a \in Comp(t, E, k) /\ v \notin Comp(t, E, k)
      BY DEF LeftOf
    <3>3. LeftOf(t, E, b, v) # {}
      <4>1. From(t, E, b, v) # b
        BY <1>1, <3>1, <3>2
      <4> QED
        BY <4>1, FromFacts
    <3>4. PICK j \in LeftOf(t, E, b, v) : From(t, E, b, v) = -j
      BY <3>3, FromFacts
    <3>5. j \in 1 .. Len(t) /\ b \in Comp(t, E, j)
      BY DEF LeftOf
    <3>6. k = j
      <4>1. -k = -j
        BY <1>1, <3>1, <3>4
      <4>2. k \in Int /\ j \in Int
        BY <3>2, <3>5
      <4> QED
        BY <4>1, <4>2
    <3>7. b \in Comp(t, E, k)
      BY <3>5, <3>6
    <3>8. CASE g <= k
      <4>1. Comp(t, E, k) \subseteq Comp(t, E, g)
        BY <2>1, <2>2, <3>2, <3>7, <3>8, CompNested
      <4> QED
        BY <2>1, <3>2, <4>1
    <3>9. CASE k <= g
      <4>1. Comp(t, E, g) \subseteq Comp(t, E, k)
        BY <2>1, <2>2, <3>2, <3>7, <3>9, CompNested
      <4> QED
        BY <2>1, <3>2, <4>1
    <3> QED
      BY <2>1, <3>2, <3>8, <3>9
  <2> QED
    BY <2>3, <2>4
<1>2. LeftOf(t, E, v, u) = LeftOf(t, E, v, w)
  BY <1>1
<1> QED
  BY <1>2 DEF From

ConstraintOf(t, E, e) == <<From(t, E, e[1], e[2]), e[2], From(t, E, e[2], e[1]), From(t, E, e[2], e[1]) # e[2]>>
ClosingOf(t, E, e) == <<From(t, E, e[1], e[2]), -e[2], -e[2], FALSE>>

ConstraintsOf(t, E, M, J) == {ClosingOf(t, E, e) : e \in M} \cup {ConstraintOf(t, E, e) : e \in J}

\* The constraints of J and M added to those of F and K.
Adds(t, E, F, K, J, M) ==
  LET A == ConstraintsOf(t, E, M, J)
      S == SuccOf(t, E, F, K)
  IN  /\ A \subseteq Int \X Int \X Int \X BOOLEAN
      /\ S \cup NewSucc(S, A) = SuccOf(t, E, F \cup J, K \cup M)
      /\ OuterOf(t, E, F) \cup NewOuter(S, A) = OuterOf(t, E, F \cup J)

\* add_successor ignores a constraint that is there: its outer counts are kept,
\* as edges with the same constraint enter the same loops.
LEMMA AddConstraints ==
  ASSUME NEW t, NEW E, Dfs(t, E), NEW F, F \subseteq TreeOrCross(t, E), NEW J, J \subseteq TreeOrCross(t, E),
         NEW K, K \subseteq E, NEW M, M \subseteq E
  PROVE  Adds(t, E, F, K, J, M)
<1> DEFINE S == SuccOf(t, E, F, K)
           A == {ClosingOf(t, E, e) : e \in M} \cup {ConstraintOf(t, E, e) : e \in J}
           new == {b \in A : <<b[1], b[2]>> \notin S}
           P(e) == <<From(t, E, e[1], e[2]), e[2]>>
           Q(e) == <<From(t, E, e[1], e[2]), -e[2]>>
           T(e) == <<From(t, E, e[1], e[2]), e[2], From(t, E, e[2], e[1])>>
<1>1. ASSUME NEW e \in E
      PROVE  /\ e[1] \in 1 .. Len(t) /\ e[2] \in 1 .. Len(t)
             /\ From(t, E, e[1], e[2]) \in Int /\ From(t, E, e[2], e[1]) \in Int
  <2>1. e[1] \in 1 .. Len(t) /\ e[2] \in 1 .. Len(t)
    BY DEF Dfs
  <2> QED
    BY <2>1, FromFacts
<1>2. F \subseteq E /\ J \subseteq E
  BY DEF TreeOrCross
<1>3. ASSUME NEW e \in E
      PROVE  ConstraintOf(t, E, e) \in Int \X Int \X Int \X BOOLEAN /\ ClosingOf(t, E, e) \in Int \X Int \X Int \X BOOLEAN
  <2> DEFINE x == From(t, E, e[1], e[2])
             y == From(t, E, e[2], e[1])
             v == e[2]
  <2>1. x \in Int /\ y \in Int /\ v \in Int /\ -v \in Int
    BY <1>1
  <2> HIDE DEF x, y, v
  <2>2. <<x, v, y, y # v>> \in Int \X Int \X Int \X BOOLEAN /\ <<x, -v, -v, FALSE>> \in Int \X Int \X Int \X BOOLEAN
    BY <2>1
  <2> QED
    BY <2>2 DEF ConstraintOf, ClosingOf, x, y, v
<1>4. A \subseteq Int \X Int \X Int \X BOOLEAN
  BY <1>2, <1>3
<1>5. ASSUME NEW e
      PROVE  LET c == ConstraintOf(t, E, e)
                 b == ClosingOf(t, E, e)
             IN  /\ <<c[1], c[2]>> = P(e) /\ <<c[1], c[2], c[3]>> = T(e) /\ c[4] = (From(t, E, e[2], e[1]) # e[2])
                 /\ <<b[1], b[2]>> = Q(e) /\ b[4] = FALSE
  BY DEF ConstraintOf, ClosingOf
<1>6. S = {P(e) : e \in F} \cup {Q(e) : e \in K}
      /\ SuccOf(t, E, F \cup J, K \cup M) = {P(e) : e \in F \cup J} \cup {Q(e) : e \in K \cup M}
  BY DEF SuccOf
<1>7. S \cup {<<c[1], c[2]>> : c \in new} = SuccOf(t, E, F \cup J, K \cup M)
  <2>1. ASSUME NEW c \in new  PROVE <<c[1], c[2]>> \in {P(e) : e \in J} \cup {Q(e) : e \in M}
    <3>1. CASE c \in {ClosingOf(t, E, e) : e \in M}
      <4>1. PICK e \in M : c = ClosingOf(t, E, e)
        BY <3>1
      <4> QED
        BY <1>5, <4>1
    <3>2. CASE c \in {ConstraintOf(t, E, e) : e \in J}
      <4>1. PICK e \in J : c = ConstraintOf(t, E, e)
        BY <3>2
      <4> QED
        BY <1>5, <4>1
    <3> QED
      BY <3>1, <3>2
  <2>2. ASSUME NEW e \in J  PROVE P(e) \in S \cup {<<c[1], c[2]>> : c \in new}
    <3> DEFINE c == ConstraintOf(t, E, e)
    <3>1. c \in A /\ <<c[1], c[2]>> = P(e)
      BY <1>5
    <3> HIDE DEF c, S, P
    <3> QED
      BY <3>1
  <2>3. ASSUME NEW e \in M  PROVE Q(e) \in S \cup {<<c[1], c[2]>> : c \in new}
    <3> DEFINE c == ClosingOf(t, E, e)
    <3>1. c \in A /\ <<c[1], c[2]>> = Q(e)
      BY <1>5
    <3> HIDE DEF c, S, Q
    <3> QED
      BY <3>1
  <2> DEFINE D == {<<c[1], c[2]>> : c \in new}
  <2>4. D \subseteq {P(e) : e \in J} \cup {Q(e) : e \in M}
    BY <2>1
  <2>5. {P(e) : e \in J} \subseteq S \cup D /\ {Q(e) : e \in M} \subseteq S \cup D
    BY <2>2, <2>3
  <2>6. SuccOf(t, E, F \cup J, K \cup M) = S \cup {P(e) : e \in J} \cup {Q(e) : e \in M}
    BY <1>6
  <2> HIDE DEF D, S, P, Q
  <2>7. S \cup D = SuccOf(t, E, F \cup J, K \cup M)
    BY <2>4, <2>5, <2>6
  <2> QED
    BY <2>7 DEF D
<1>8. OuterOf(t, E, F) \cup {<<c[1], c[2], c[3]>> : c \in {b \in A : <<b[1], b[2]>> \notin S /\ b[4]}}
        = OuterOf(t, E, F \cup J)
  <2> DEFINE D == {<<c[1], c[2], c[3]>> : c \in {b \in A : <<b[1], b[2]>> \notin S /\ b[4]}}
             R(e) == From(t, E, e[2], e[1]) # e[2]
  <2>1. OuterOf(t, E, F \cup J) = {T(e) : e \in {f \in F \cup J : R(f)}}
        /\ OuterOf(t, E, F) = {T(e) : e \in {f \in F : R(f)}}
    BY DEF OuterOf
  <2>2. ASSUME NEW c \in A, c[4]  PROVE \E e \in J : R(e) /\ <<c[1], c[2], c[3]>> = T(e)
    <3>1. CASE c \in {ClosingOf(t, E, e) : e \in M}
      <4>1. PICK e \in M : c = ClosingOf(t, E, e)
        BY <3>1
      <4> QED
        BY <1>5, <2>2, <4>1
    <3>2. CASE c \in {ConstraintOf(t, E, e) : e \in J}
      <4>1. PICK e \in J : c = ConstraintOf(t, E, e)
        BY <3>2
      <4>2. R(e)
        BY <1>5, <2>2, <4>1
      <4> QED
        BY <1>5, <4>1, <4>2
    <3> QED
      BY <3>1, <3>2
  <2>3. ASSUME NEW e \in J, R(e)  PROVE T(e) \in OuterOf(t, E, F) \cup D
    <3> DEFINE c == ConstraintOf(t, E, e)
    <3>1. c \in A /\ <<c[1], c[2]>> = P(e) /\ <<c[1], c[2], c[3]>> = T(e) /\ c[4]
      BY <1>5, <2>3
    <3>2. CASE P(e) \notin S
      <4> HIDE DEF c, S, P, T
      <4> QED
        BY <3>1, <3>2
    <3>3. CASE P(e) \in {P(f) : f \in F}
      <4>1. PICK f \in F : P(e) = P(f)
        BY <3>3
      <4>2. e[2] = f[2] /\ From(t, E, e[1], e[2]) = From(t, E, f[1], e[2])
        BY <4>1
      <4>3. e[1] \in 1 .. Len(t) /\ e[2] \in 1 .. Len(t) /\ f[1] \in 1 .. Len(t)
        BY <1>1, <1>2
      <4>4. From(t, E, e[2], e[1]) = From(t, E, e[2], f[1])
        BY <4>2, <4>3, SameConstraint
      <4>5. T(e) = T(f) /\ R(f)
        BY <2>3, <4>2, <4>4
      <4> HIDE DEF T, R
      <4> QED
        BY <2>1, <4>5
    <3>4. CASE P(e) \in {Q(f) : f \in K}
      <4>1. PICK f \in K : P(e) = Q(f)
        BY <3>4
      <4>2. e[2] = -f[2]
        BY <4>1
      <4>3. e[2] \in 1 .. Len(t) /\ f[2] \in 1 .. Len(t)
        BY <1>1, <1>2
      <4> QED
        BY <4>2, <4>3
    <3> HIDE DEF P, Q, D, T, S
    <3> QED
      BY <1>6, <3>2, <3>3, <3>4
  <2>4. ASSUME NEW x \in D  PROVE x \in {T(e) : e \in {f \in J : R(f)}}
    <3>1. PICK c \in A : c[4] /\ x = <<c[1], c[2], c[3]>>
      BY <2>4
    <3> QED
      BY <2>2, <3>1
  <2> HIDE DEF D, T, R
  <2>5. OuterOf(t, E, F \cup J) = OuterOf(t, E, F) \cup {T(e) : e \in {f \in J : R(f)}}
    BY <2>1
  <2>6. {T(e) : e \in {f \in J : R(f)}} \subseteq OuterOf(t, E, F) \cup D
    BY <2>3
  <2>7. D \subseteq {T(e) : e \in {f \in J : R(f)}}
    BY <2>4
  <2>8. OuterOf(t, E, F) \cup D = OuterOf(t, E, F \cup J)
    BY <2>5, <2>6, <2>7
  <2> QED
    BY <2>8 DEF D
<1>9. A = ConstraintsOf(t, E, M, J)
  BY DEF ConstraintsOf
<1>10. {<<c[1], c[2]>> : c \in new} = NewSucc(S, A) /\
       {<<c[1], c[2], c[3]>> : c \in {b \in A : <<b[1], b[2]>> \notin S /\ b[4]}} = NewOuter(S, A)
  BY DEF NewSucc, NewOuter
<1> HIDE DEF S, A
<1> QED
  BY <1>4, <1>7, <1>8, <1>9, <1>10 DEF S, Adds
-----------------------------------------------------------------------------
(***************************************************************************)
(* Sums over finite sets.                                                  *)
(***************************************************************************)
SumStep(f, g, T) == IF T = {} THEN 0 ELSE LET x == CHOOSE y \in T : TRUE IN f[x] + g[T \ {x}]
IsSum(f, S, g) == g = [T \in SUBSET S |-> SumStep(f, g, T)]

\* The sum is the fold of the community modules, unfolded.
LEMMA SumUnfold ==
  ASSUME NEW f, NEW S
  PROVE  SumFunctionOnSet(f, S) = (CHOOSE g : IsSum(f, S, g))[S]
BY DEF SumFunctionOnSet, FoldFunctionOnSet, MapThenFoldSet, IsSum, SumStep

\* What is chosen of a set is in it.
LEMMA ChosenIn ==
  ASSUME NEW T, T # {}
  PROVE  (CHOOSE y \in T : TRUE) \in T
<1>1. \E y \in T : TRUE
  OBVIOUS
<1> QED
  BY <1>1, Zenon

\* The recursion has a solution on every finite set.
LEMMA SumExists ==
  ASSUME NEW f, NEW S, IsFiniteSet(S)
  PROVE  \E g : IsSum(f, S, g)
<1> DEFINE Upto(g, k) == /\ g = [T \in SUBSET S |-> g[T]]
                         /\ \A T \in SUBSET S : Cardinality(T) <= k => g[T] = SumStep(f, g, T)
           Bad == {k \in Nat : ~ \E g : Upto(g, k)}
<1>1. ASSUME NEW T \in SUBSET S  PROVE IsFiniteSet(T) /\ Cardinality(T) \in Nat
  BY <1>1, FS_Subset, FS_CardinalityType
<1>2. ASSUME Bad # {}  PROVE FALSE
  <2>1. PICK k \in Bad : \A j \in Bad : k <= j
    <3>1. Bad \subseteq Nat
      OBVIOUS
    <3> HIDE DEF Bad
    <3> QED
      BY <1>2, <3>1, LeastNat, Zenon
  <2>2. k \in Nat /\ ~ \E g : Upto(g, k)
    BY <2>1
  <2>3. CASE k = 0
    <3> DEFINE g == [T \in SUBSET S |-> 0]
    <3>1. ASSUME NEW T \in SUBSET S, Cardinality(T) <= k  PROVE g[T] = SumStep(f, g, T)
      <4>1. T = {}
        BY <1>1, <2>3, <3>1, FS_EmptySet
      <4> QED
        BY <4>1 DEF SumStep
    <3>2. Upto(g, k)
      BY <3>1
    <3> HIDE DEF Upto
    <3> QED
      BY <2>2, <3>2
  <2>4. CASE k # 0
    <3> DEFINE j == k - 1
    <3>1. j \in Nat /\ ~(k <= j)
      BY <2>2, <2>4
    <3> HIDE DEF j
    <3>2. j \notin Bad
      BY <2>1, <3>1
    <3>3. PICK g : Upto(g, j)
      BY <3>1, <3>2
    <3> DEFINE q == [T \in SUBSET S |-> IF Cardinality(T) <= j THEN g[T] ELSE SumStep(f, g, T)]
    <3>4. ASSUME NEW T \in SUBSET S, Cardinality(T) <= k  PROVE q[T] = SumStep(f, q, T)
      <4>1. CASE T = {}
        <5>1. Cardinality(T) = 0
          BY <4>1, FS_EmptySet
        <5>2. Cardinality(T) <= j
          BY <3>1, <5>1
        <5>3. g[T] = SumStep(f, g, T)
          BY <3>3, <5>2
        <5> QED
          BY <4>1, <5>2, <5>3 DEF SumStep
      <4>2. CASE T # {}
        <5> DEFINE x == CHOOSE y \in T : TRUE
                   R == T \ {x}
        <5>1. x \in T
          BY <4>2, ChosenIn
        <5>2. SumStep(f, g, T) = f[x] + g[R] /\ SumStep(f, q, T) = f[x] + q[R]
          BY <4>2 DEF SumStep
        <5> HIDE DEF x
        <5>3. IsFiniteSet(T) /\ Cardinality(T) \in Nat
          BY <1>1
        <5>4. R \in SUBSET S /\ Cardinality(R) = Cardinality(T) - 1
          BY <5>1, <5>3, FS_RemoveElement
        <5>5. Cardinality(R) <= j
          BY <2>2, <3>4, <5>3, <5>4 DEF j
        <5> HIDE DEF R
        <5>6. q[R] = g[R]
          BY <5>4, <5>5
        <5>7. q[T] = SumStep(f, g, T)
          <6>1. Cardinality(T) <= j => g[T] = SumStep(f, g, T)
            BY <3>3
          <6> QED
            BY <6>1
        <5> HIDE DEF q
        <5> QED
          BY <5>2, <5>6, <5>7
      <4> QED
        BY <4>1, <4>2
    <3>5. Upto(q, k)
      BY <3>4
    <3> HIDE DEF Upto
    <3> QED
      BY <2>2, <3>5
  <2> QED
    BY <2>3, <2>4
<1> DEFINE n == Cardinality(S)
<1>3. n \in Nat
  BY FS_CardinalityType
<1>4. PICK g : Upto(g, n)
  BY <1>2, <1>3
<1>5. ASSUME NEW T \in SUBSET S  PROVE g[T] = SumStep(f, g, T)
  <2>1. Cardinality(T) <= n
    BY FS_Subset
  <2> HIDE DEF n
  <2> QED
    BY <1>4, <2>1
<1>6. g = [T \in SUBSET S |-> SumStep(f, g, T)]
  BY <1>4, <1>5
<1> QED
  BY <1>6 DEF IsSum

UnionOf(part, S) == UNION {part[x] : x \in S}

\* The sum of the sizes of disjoint sets is the size of their union.
LEMMA SumOfSizes ==
  ASSUME NEW f, NEW S, IsFiniteSet(S), NEW part,
         \A x \in S : IsFiniteSet(part[x]) /\ f[x] = Cardinality(part[x]),
         \A x, y \in S : x # y => part[x] \cap part[y] = {}
  PROVE  IsFiniteSet(UnionOf(part, S)) /\ SumFunctionOnSet(f, S) = Cardinality(UnionOf(part, S))
<1> DEFINE g == CHOOSE q : IsSum(f, S, q)
           U(T) == UNION {part[x] : x \in T}
           Good(T) == IsFiniteSet(U(T)) /\ g[T] = Cardinality(U(T))
           Bad == {k \in Nat : \E T \in SUBSET S : Cardinality(T) = k /\ ~Good(T)}
<1>1. IsSum(f, S, g)
  BY SumExists, Zenon
<1> HIDE DEF g
<1>2. ASSUME NEW T \in SUBSET S  PROVE g[T] = SumStep(f, g, T)
  BY <1>1 DEF IsSum
<1>3. ASSUME NEW T \in SUBSET S  PROVE IsFiniteSet(T) /\ Cardinality(T) \in Nat
  BY <1>3, FS_Subset, FS_CardinalityType
<1>4. ASSUME Bad # {}  PROVE FALSE
  <2>1. PICK k \in Bad : \A j \in Bad : k <= j
    <3>1. Bad \subseteq Nat
      OBVIOUS
    <3> HIDE DEF Bad
    <3> QED
      BY <1>4, <3>1, LeastNat, Zenon
  <2>2. PICK T \in SUBSET S : Cardinality(T) = k /\ ~Good(T)
    BY <2>1
  <2>3. CASE T = {}
    <3>1. g[T] = SumStep(f, g, T)
      BY <1>2
    <3>2. g[T] = 0
      BY <2>3, <3>1 DEF SumStep
    <3>3. U(T) = {}
      BY <2>3
    <3> HIDE DEF U
    <3> QED
      BY <2>2, <3>2, <3>3, FS_EmptySet
  <2>4. CASE T # {}
    <3> DEFINE x == CHOOSE y \in T : TRUE
               R == T \ {x}
    <3>1. x \in T
      BY <2>4, ChosenIn
    <3>2. g[T] = f[x] + g[R]
      BY <1>2, <2>4 DEF SumStep
    <3> HIDE DEF x
    <3>3. IsFiniteSet(T) /\ Cardinality(T) \in Nat
      BY <1>3
    <3>4. R \in SUBSET S /\ Cardinality(R) = Cardinality(T) - 1 /\ Cardinality(R) \in Nat
      BY <1>3, <3>1, <3>3, FS_RemoveElement
    <3>5. ~(k <= Cardinality(R))
      BY <2>2, <3>3, <3>4
    <3>6. Good(R)
      <4>1. Cardinality(R) \notin Bad
        BY <2>1, <3>5
      <4> HIDE DEF Good, R
      <4> QED
        BY <3>4, <4>1
    <3>7. U(T) = part[x] \cup U(R)
      BY <3>1
    <3>8. part[x] \cap U(R) = {}
      <4>1. ASSUME NEW y \in R  PROVE part[x] \cap part[y] = {}
        BY <3>1, <3>4
      <4> HIDE DEF R
      <4> QED
        BY <4>1
    <3>9. IsFiniteSet(part[x]) /\ f[x] = Cardinality(part[x]) /\ IsFiniteSet(U(R)) /\ g[R] = Cardinality(U(R))
      BY <3>1, <3>6
    <3> HIDE DEF U, R
    <3>10. IsFiniteSet(U(T)) /\ Cardinality(U(T)) = Cardinality(part[x]) + Cardinality(U(R))
      <4>1. /\ IsFiniteSet(part[x] \cup U(R))
            /\ Cardinality(part[x] \cup U(R)) = Cardinality(part[x]) + Cardinality(U(R)) - Cardinality(part[x] \cap U(R))
        BY <3>9, FS_Union
      <4>2. Cardinality(part[x] \cap U(R)) = 0 /\ Cardinality(part[x]) \in Nat /\ Cardinality(U(R)) \in Nat
        BY <3>8, <3>9, FS_EmptySet, FS_CardinalityType
      <4> QED
        BY <3>7, <4>1, <4>2
    <3> QED
      BY <2>2, <3>2, <3>9, <3>10
  <2> QED
    BY <2>3, <2>4
<1>5. Good(S)
  <2>1. Cardinality(S) \in Nat
    BY <1>3
  <2> HIDE DEF Good
  <2> QED
    BY <1>4, <2>1
<1> QED
  BY <1>5, SumUnfold DEF g, UnionOf
-----------------------------------------------------------------------------
(***************************************************************************)
(* The elements of the loops.                                              *)
(***************************************************************************)
\* Vertices are positive and exits negative.
LEMMA ElementCases ==
  ASSUME NEW t, NEW E, Dfs(t, E), NEW h \in 1 .. Len(t), NEW x
  PROVE  /\ x \in Elements(t, E, h) <=>
              \/ x \in Comp(t, E, h)
              \/ \E w \in Comp(t, E, h) : HasBack(t, E, w) /\ x = -w
         /\ x \in Elements(t, E, h) => x \in Int
         /\ \A w \in 1 .. Len(t) : w \in Elements(t, E, h) <=> w \in Comp(t, E, h)
         /\ \A w \in 1 .. Len(t) : -w \in Elements(t, E, h) <=> w \in Comp(t, E, h) /\ HasBack(t, E, w)
<1>1. Comp(t, E, h) \subseteq 1 .. Len(t)
  BY CompSelf
<1>2. x \in Elements(t, E, h) <=> \/ x \in Comp(t, E, h)
                                  \/ \E w \in Comp(t, E, h) : HasBack(t, E, w) /\ x = -w
  BY DEF Elements
<1>3. x \in Elements(t, E, h) => x \in Int
  BY <1>1, <1>2
<1>4. ASSUME NEW w \in 1 .. Len(t)
      PROVE  w \in Elements(t, E, h) <=> w \in Comp(t, E, h)
  <2>1. ASSUME NEW y \in Comp(t, E, h)  PROVE w # -y
    BY <1>1
  <2> QED
    BY <2>1 DEF Elements
<1>5. ASSUME NEW w \in 1 .. Len(t)
      PROVE  -w \in Elements(t, E, h) <=> w \in Comp(t, E, h) /\ HasBack(t, E, w)
  <2>1. ASSUME NEW y \in Comp(t, E, h)  PROVE -w # y /\ (-w = -y => w = y)
    BY <1>1
  <2> QED
    BY <2>1 DEF Elements
<1> QED
  BY <1>2, <1>3, <1>4, <1>5

\* A loop has finitely many elements.
LEMMA ElementsAreFinite ==
  ASSUME NEW t, NEW E, Dfs(t, E), NEW h \in 1 .. Len(t)
  PROVE  IsFiniteSet(Elements(t, E, h))
<1> DEFINE n == Len(t)
           C == Comp(t, E, h)
           H == {v \in C : HasBack(t, E, v)}
           P == {-w : w \in H}
           f == [w \in H |-> -w]
<1>1. C \in SUBSET (1 .. n) /\ n \in Nat
  BY CompSelf DEF Dfs, IsTree
<1>2. IsFiniteSet(1 .. n)
  BY <1>1, FS_Interval
<1>3. IsFiniteSet(C) /\ IsFiniteSet(H)
  <2>1. H \in SUBSET (1 .. n)
    BY <1>1
  <2> HIDE DEF H, C
  <2> QED
    BY <1>1, <1>2, <2>1, FS_Subset
<1>4. f \in Surjection(H, P)
  <2> HIDE DEF H
  <2> QED
    BY DEF Surjection
<1>5. IsFiniteSet(P)
  <2> HIDE DEF f, H, P
  <2> QED
    BY <1>3, <1>4, FS_Surjection
<1>6. IsFiniteSet(C \cup P)
  <2> HIDE DEF C, P
  <2> QED
    BY <1>3, <1>5, FS_Union
<1> QED
  BY <1>6 DEF Elements

\* What the elements of a loop are made of.
LEMMA ElementsOfLoop ==
  ASSUME NEW t, NEW E, Dfs(t, E), NEW h \in 1 .. Len(t), HasBack(t, E, h), NEW rep, IsReps(t, E, h, rep)
  PROVE  LET N == NestedReps(t, E, h, rep)
             U == UNION {Elements(t, E, r) : r \in N}
         IN  /\ Elements(t, E, h) = {h, -h} \cup U
             /\ h \notin U /\ -h \notin U
             /\ \A a, b \in N : a # b => Elements(t, E, a) \cap Elements(t, E, b) = {}
<1> DEFINE N == NestedReps(t, E, h, rep)
           El(r) == Elements(t, E, r)
           U == UNION {El(r) : r \in N}
<1>1. ASSUME NEW r \in N
      PROVE  /\ r \in 1 .. Len(t) /\ h < r /\ rep[r] = r /\ r \in Comp(t, E, h) /\ IsRep(t, E, h, r, r)
             /\ Comp(t, E, r) \subseteq Comp(t, E, h) /\ h \notin Comp(t, E, r)
  <2>1. r \in 1 .. Len(t) /\ h < r /\ rep[r] = r /\ r \in Comp(t, E, h)
    BY DEF NestedReps
  <2>2. Comp(t, E, r) \subseteq Comp(t, E, h)
    BY <2>1, CompInside
  <2>3. h \notin Comp(t, E, r)
    BY <2>1, CompFacts
  <2> QED
    BY <2>1, <2>2, <2>3 DEF IsReps
<1>2. ASSUME NEW v \in Comp(t, E, h), v # h  PROVE rep[v] \in N /\ v \in Comp(t, E, rep[v])
  <2>1. v \in 1 .. Len(t)
    BY CompFacts
  <2> QED
    BY <1>2, <2>1, LoopReps DEF IsReps, IsRep
<1>3. ASSUME NEW x \in El(h)  PROVE x \in {h, -h} \cup U
  <2>1. CASE x \in Comp(t, E, h)
    <3>1. CASE x # h
      <4>1. x \in El(rep[x]) /\ rep[x] \in N
        BY <1>2, <2>1, <3>1 DEF Elements
      <4> HIDE DEF El, N
      <4> QED
        BY <4>1
    <3> QED
      BY <3>1
  <2>2. CASE \E w \in Comp(t, E, h) : HasBack(t, E, w) /\ x = -w
    <3>1. PICK w \in Comp(t, E, h) : HasBack(t, E, w) /\ x = -w
      BY <2>2
    <3>2. CASE w # h
      <4>1. x \in El(rep[w]) /\ rep[w] \in N
        BY <1>2, <3>1, <3>2 DEF Elements
      <4> HIDE DEF El, N
      <4> QED
        BY <4>1
    <3> QED
      BY <3>1, <3>2
  <2> QED
    BY <2>1, <2>2 DEF Elements
<1>4. {h, -h} \subseteq El(h)
  BY CompSelf DEF Elements
<1>5. ASSUME NEW r \in N  PROVE El(r) \subseteq El(h) /\ h \notin El(r) /\ -h \notin El(r)
  <2>1. El(r) \subseteq El(h)
    BY <1>1 DEF Elements
  <2>2. h \notin El(r) /\ -h \notin El(r)
    BY <1>1, ElementCases
  <2> QED
    BY <2>1, <2>2
<1>6. ASSUME NEW a \in N, NEW b \in N, NEW v, v \in Comp(t, E, a), v \in Comp(t, E, b)  PROVE a = b
  <2>1. h \in Nat
    OBVIOUS
  <2>2. IsRep(t, E, h, v, a) /\ IsRep(t, E, h, v, b)
    BY <1>1, <1>6, <2>1, RepOfMember
  <2> QED
    BY <2>1, <2>2, RepUnique
<1>7. ASSUME NEW a \in N, NEW b \in N, NEW x \in El(a), x \in El(b)  PROVE a = b
  <2>1. Comp(t, E, a) \subseteq 1 .. Len(t) /\ Comp(t, E, b) \subseteq 1 .. Len(t)
    BY <1>1, CompSelf
  <2>2. CASE x \in Comp(t, E, a)
    <3>1. x \in Comp(t, E, b)
      BY <1>1, <1>7, <2>1, <2>2, ElementCases
    <3> QED
      BY <1>6, <2>2, <3>1
  <2>3. CASE \E w \in Comp(t, E, a) : HasBack(t, E, w) /\ x = -w
    <3>1. PICK w \in Comp(t, E, a) : HasBack(t, E, w) /\ x = -w
      BY <2>3
    <3>2. w \in Comp(t, E, b)
      BY <1>1, <1>7, <2>1, <3>1, ElementCases
    <3> QED
      BY <1>6, <3>1, <3>2
  <2> QED
    BY <2>2, <2>3 DEF Elements
<1> HIDE DEF El, N
<1>8. El(h) = {h, -h} \cup U
  BY <1>3, <1>4, <1>5
<1>9. h \notin U /\ -h \notin U
  BY <1>5
<1>10. \A a, b \in N : a # b => El(a) \cap El(b) = {}
  BY <1>7
<1> QED
  BY <1>8, <1>9, <1>10 DEF El, N

\* The size of a loop is two and the sizes of what is nested in it.
LEMMA SizeOfLoop ==
  ASSUME NEW t, NEW E, Dfs(t, E), NEW h \in 1 .. Len(t), HasBack(t, E, h), NEW rep, IsReps(t, E, h, rep),
         NEW size, \A v \in 1 .. Len(t) : h < v => size[v] = Cardinality(Elements(t, E, v))
  PROVE  2 + SumFunctionOnSet(size, NestedReps(t, E, h, rep)) = Cardinality(Elements(t, E, h))
<1> DEFINE N == NestedReps(t, E, h, rep)
           part == [r \in 1 .. Len(t) |-> Elements(t, E, r)]
           U == UNION {Elements(t, E, r) : r \in N}
<1>1. N \in SUBSET (1 .. Len(t)) /\ Len(t) \in Nat
  BY DEF NestedReps, Dfs, IsTree
<1>2. IsFiniteSet(N)
  <2>1. IsFiniteSet(1 .. Len(t))
    BY <1>1, FS_Interval
  <2> HIDE DEF N
  <2> QED
    BY <1>1, <2>1, FS_Subset
<1>3. ASSUME NEW r \in N  PROVE IsFiniteSet(part[r]) /\ size[r] = Cardinality(part[r]) /\ part[r] = Elements(t, E, r)
  <2>1. r \in 1 .. Len(t) /\ h < r
    BY DEF NestedReps
  <2> QED
    BY <2>1, ElementsAreFinite
<1>4. UNION {part[r] : r \in N} = U
  <2> HIDE DEF N, part
  <2> QED
    BY <1>3
<1>5. /\ Elements(t, E, h) = {h, -h} \cup U /\ h \notin U /\ -h \notin U
      /\ \A a, b \in N : a # b => Elements(t, E, a) \cap Elements(t, E, b) = {}
  BY ElementsOfLoop
<1>6. \A a, b \in N : a # b => part[a] \cap part[b] = {}
  <2> HIDE DEF N, part
  <2> QED
    BY <1>3, <1>5
<1> HIDE DEF N, part
<1>7. IsFiniteSet(U) /\ SumFunctionOnSet(size, N) = Cardinality(U)
  <2> HIDE DEF U
  <2>1. \A x \in N : IsFiniteSet(part[x]) /\ size[x] = Cardinality(part[x])
    BY <1>3
  <2> DEFINE P == UnionOf(part, N)
  <2>2. IsFiniteSet(P) /\ SumFunctionOnSet(size, N) = Cardinality(P)
    BY <1>2, <1>6, <2>1, SumOfSizes
  <2>3. P = U
    BY <1>4 DEF UnionOf
  <2> QED
    BY <2>2, <2>3
<1> HIDE DEF U
<1>8. IsFiniteSet(U \cup {h}) /\ Cardinality(U \cup {h}) = Cardinality(U) + 1
  BY <1>5, <1>7, FS_AddElement
<1>9. Cardinality((U \cup {h}) \cup {-h}) = Cardinality(U) + 2
  <2>1. -h \notin U \cup {h}
    BY <1>5
  <2>2. Cardinality(U) \in Nat
    BY <1>7, FS_CardinalityType
  <2> DEFINE W == U \cup {h}
  <2>3. IsFiniteSet(W) /\ -h \notin W /\ Cardinality(W) = Cardinality(U) + 1
    BY <1>8, <2>1
  <2> HIDE DEF W
  <2>4. Cardinality(W \cup {-h}) = Cardinality(W) + 1
    BY <2>3, FS_AddElement
  <2>5. Cardinality(W \cup {-h}) = Cardinality(U) + 2
    BY <2>2, <2>3, <2>4
  <2> QED
    BY <2>5 DEF W
<1>10. Elements(t, E, h) = (U \cup {h}) \cup {-h}
  BY <1>5
<1>11. Cardinality(U) \in Nat
  BY <1>7, FS_CardinalityType
<1> QED
  BY <1>7, <1>9, <1>10, <1>11 DEF N

\* What is no loop is one element.
LEMMA ElementsOfPlain ==
  ASSUME NEW t, NEW E, Dfs(t, E), NEW h \in 1 .. Len(t), ~HasBack(t, E, h)
  PROVE  Elements(t, E, h) = {h} /\ Cardinality(Elements(t, E, h)) = 1
<1>1. Elements(t, E, h) = {h}
  BY CompOfPlain DEF Elements
<1> QED
  BY <1>1, FS_Singleton

\* The elements that the next head adds.
LEMMA AboveStep ==
  ASSUME NEW t, NEW E, NEW h \in 1 .. Len(t)
  PROVE  /\ ElementsAbove(t, E, h - 1) = ElementsAbove(t, E, h) \cup {h} \cup (IF HasBack(t, E, h) THEN {-h} ELSE {})
         /\ h \notin ElementsAbove(t, E, h) /\ -h \notin ElementsAbove(t, E, h)
<1> DEFINE V == 1 .. Len(t)
           A == {v \in V : h < v}
           B == {v \in V : h < v /\ HasBack(t, E, v)}
<1>1. \A v \in V : h - 1 < v <=> h < v \/ v = h
  OBVIOUS
<1>2. {v \in V : h - 1 < v} = A \cup {h}
  BY <1>1
<1>3. {v \in V : h - 1 < v /\ HasBack(t, E, v)} = B \cup (IF HasBack(t, E, h) THEN {h} ELSE {})
  BY <1>1
<1>4. {-w : w \in B \cup (IF HasBack(t, E, h) THEN {h} ELSE {})} =
      {-w : w \in B} \cup (IF HasBack(t, E, h) THEN {-h} ELSE {})
  <2> HIDE DEF B
  <2>1. CASE HasBack(t, E, h)
    BY <2>1
  <2>2. CASE ~HasBack(t, E, h)
    BY <2>2
  <2> QED
    BY <2>1, <2>2
<1>5. h \notin A \cup {-w : w \in B} /\ -h \notin A \cup {-w : w \in B}
  <2>1. \A w \in B : w \in V /\ h < w
    OBVIOUS
  <2>2. h \notin A /\ -h \notin A
    OBVIOUS
  <2> HIDE DEF A, B
  <2> QED
    BY <2>1, <2>2
<1> HIDE DEF A, B
<1>6. ElementsAbove(t, E, h - 1) = (A \cup {h}) \cup ({-w : w \in B} \cup (IF HasBack(t, E, h) THEN {-h} ELSE {}))
  BY <1>2, <1>3, <1>4 DEF ElementsAbove
<1>7. ElementsAbove(t, E, h) = A \cup {-w : w \in B}
  BY DEF ElementsAbove, A, B
<1> QED
  BY <1>5, <1>6, <1>7

\* The head and the exit get the next indices, in this order.
LEMMA SpaceStep ==
  ASSUME NEW t, NEW E, NEW h \in 1 .. Len(t), Len(t) \in Nat, NEW p, p \in Seq(Int), SpaceInv(t, E, h, p)
  PROVE  IF HasBack(t, E, h) THEN SpaceInv(t, E, h - 1, p \o <<-h, h>>) ELSE SpaceInv(t, E, h - 1, Append(p, h))
<1> DEFINE n == Len(p)
<1>1. n \in Nat /\ h \in Nat /\ h - 1 + 1 = h /\ h # 0
  OBVIOUS
<1>2. /\ \A i, j \in 1 .. n : p[i] = p[j] => i = j
      /\ {p[i] : i \in 1 .. n} = ElementsAbove(t, E, h)
      /\ \A i \in 1 .. n : p[i] < 0 => i < n /\ p[i + 1] = -p[i]
  BY DEF SpaceInv
<1>3. ASSUME NEW i \in 1 .. n  PROVE p[i] # h /\ p[i] # -h /\ p[i] \in Int
  <2>1. p[i] \in {p[j] : j \in 1 .. n}
    OBVIOUS
  <2>2. p[i] \in ElementsAbove(t, E, h)
    BY <1>2, <2>1
  <2> QED
    BY <2>2, AboveStep
<1>4. CASE HasBack(t, E, h)
  <2> DEFINE q == p \o <<-h, h>>
  <2>1. /\ Len(q) = n + 2 /\ q[n + 1] = -h /\ q[n + 2] = h
        /\ \A i \in 1 .. n : q[i] = p[i]
    BY <1>1
  <2> HIDE DEF q, n
  <2>2. 1 .. Len(q) = (1 .. n) \cup {n + 1, n + 2}
    BY <1>1, <2>1, SMTT(30)
  <2>3. \A i, j \in 1 .. Len(q) : q[i] = q[j] => i = j
    <3>1. -h # h
      BY <1>1
    <3> QED
      BY <1>2, <1>3, <2>1, <2>2, <3>1, SMTT(30)
  <2>4. {q[i] : i \in 1 .. Len(q)} = ElementsAbove(t, E, h - 1)
    <3>1. {q[i] : i \in 1 .. Len(q)} = {p[i] : i \in 1 .. n} \cup {-h, h}
      <4>1. ASSUME NEW i \in 1 .. Len(q)  PROVE q[i] \in {p[j] : j \in 1 .. n} \cup {-h, h}
        BY <2>1, <2>2
      <4>2. n + 1 \in 1 .. Len(q) /\ n + 2 \in 1 .. Len(q) /\ 1 .. n \subseteq 1 .. Len(q)
        BY <2>2
      <4>3. -h \in {q[i] : i \in 1 .. Len(q)} /\ h \in {q[i] : i \in 1 .. Len(q)}
        BY <2>1, <4>2
      <4>4. {p[j] : j \in 1 .. n} \subseteq {q[i] : i \in 1 .. Len(q)}
        BY <2>1, <4>2
      <4> QED
        BY <4>1, <4>3, <4>4
    <3>2. ElementsAbove(t, E, h - 1) = ElementsAbove(t, E, h) \cup {h} \cup {-h}
      BY <1>4, AboveStep
    <3> QED
      BY <1>2, <3>1, <3>2
  <2>5. ASSUME NEW i \in 1 .. Len(q), q[i] < 0  PROVE i < Len(q) /\ q[i + 1] = -q[i]
    <3>1. CASE i \in 1 .. n
      <4>1. i < n /\ p[i + 1] = -p[i]
        BY <1>2, <2>1, <2>5, <3>1
      <4>2. i + 1 \in 1 .. n
        BY <1>1, <3>1, <4>1
      <4> QED
        BY <1>1, <2>1, <3>1, <4>1, <4>2
    <3>2. CASE i = n + 1
      BY <1>1, <2>1, <3>2
    <3>3. CASE i = n + 2
      BY <1>1, <2>1, <2>5, <3>3
    <3> QED
      BY <2>2, <3>1, <3>2, <3>3
  <2>6. Len(q) >= 1 /\ q[Len(q)] = h - 1 + 1
    BY <1>1, <2>1
  <2>7. SpaceInv(t, E, h - 1, q)
    BY <2>3, <2>4, <2>5, <2>6 DEF SpaceInv
  <2> QED
    BY <1>4, <2>7 DEF q
<1>5. CASE ~HasBack(t, E, h)
  <2> DEFINE q == Append(p, h)
  <2>1. /\ Len(q) = n + 1 /\ q[n + 1] = h
        /\ \A i \in 1 .. n : q[i] = p[i]
    BY <1>1
  <2> HIDE DEF q, n
  <2>2. 1 .. Len(q) = (1 .. n) \cup {n + 1}
    BY <1>1, <2>1
  <2>3. \A i, j \in 1 .. Len(q) : q[i] = q[j] => i = j
    BY <1>2, <1>3, <2>1, <2>2
  <2>4. {q[i] : i \in 1 .. Len(q)} = ElementsAbove(t, E, h - 1)
    <3>1. {q[i] : i \in 1 .. Len(q)} = {p[i] : i \in 1 .. n} \cup {h}
      BY <2>1, <2>2, SMTT(30)
    <3>2. ElementsAbove(t, E, h - 1) = ElementsAbove(t, E, h) \cup {h} \cup {}
      BY <1>5, AboveStep
    <3> QED
      BY <1>2, <3>1, <3>2
  <2>5. ASSUME NEW i \in 1 .. Len(q), q[i] < 0  PROVE i < Len(q) /\ q[i + 1] = -q[i]
    <3>1. CASE i \in 1 .. n
      <4>1. i < n /\ p[i + 1] = -p[i]
        BY <1>2, <2>1, <2>5, <3>1
      <4>2. i + 1 \in 1 .. n
        BY <1>1, <3>1, <4>1
      <4> QED
        BY <1>1, <2>1, <3>1, <4>1, <4>2
    <3>2. CASE i = n + 1
      BY <1>1, <2>1, <2>5, <3>2
    <3> QED
      BY <2>2, <3>1, <3>2
  <2>6. Len(q) >= 1 /\ q[Len(q)] = h - 1 + 1
    BY <1>1, <2>1
  <2>7. SpaceInv(t, E, h - 1, q)
    BY <2>3, <2>4, <2>5, <2>6 DEF SpaceInv
  <2> QED
    BY <1>5, <2>7 DEF q
<1> QED
  BY <1>4, <1>5

\* The components once those nested in the loop of h are merged.
LEMMA RepsStep ==
  ASSUME NEW t, NEW E, Dfs(t, E), NEW h \in 1 .. Len(t), NEW rep, IsReps(t, E, h, rep)
  PROVE  IsReps(t, E, h - 1, [v \in 1 .. Len(t) |-> IF rep[v] \in NestedReps(t, E, h, rep) THEN h ELSE rep[v]])
<1> DEFINE N == NestedReps(t, E, h, rep)
           V == 1 .. Len(t)
           new == [v \in V |-> IF rep[v] \in N THEN h ELSE rep[v]]
<1>1. new \in [V -> V]
  BY DEF IsReps
<1>2. ASSUME NEW v \in V  PROVE IsRep(t, E, h - 1, v, new[v])
  <2>1. /\ rep[v] \in V /\ v \in Comp(t, E, rep[v]) /\ (rep[v] = v \/ h < rep[v])
        /\ \A g \in V : h < g /\ v \in Comp(t, E, g) => rep[v] <= g
    BY DEF IsReps, IsRep
  <2>2. CASE rep[v] \in N
    <3>1. Comp(t, E, rep[v]) \subseteq Comp(t, E, h)
      BY <2>2, CompInside DEF NestedReps
    <3>2. v \in Comp(t, E, h) /\ new[v] = h
      BY <2>1, <2>2, <3>1
    <3>3. h - 1 < h /\ \A g \in V : h - 1 < g => h <= g
      OBVIOUS
    <3> QED
      BY <3>2, <3>3 DEF IsRep
  <2>3. CASE rep[v] \notin N
    <3>1. v = h \/ v \notin Comp(t, E, h)
      BY <2>3, LoopReps
    <3>2. new[v] = rep[v]
      BY <2>3
    <3> HIDE DEF new, N
    <3>3. CASE v = h
      <4>1. rep[v] = h
        BY <3>3, LoopReps
      <4>2. h - 1 < h /\ \A g \in V : h - 1 < g => h <= g
        OBVIOUS
      <4> QED
        BY <2>1, <3>2, <3>3, <4>1, <4>2 DEF IsRep
    <3>4. CASE v \notin Comp(t, E, h)
      <4>1. ASSUME NEW g \in V, h - 1 < g, v \in Comp(t, E, g)  PROVE rep[v] <= g
        <5>1. h < g
          BY <3>4, <4>1
        <5> QED
          BY <2>1, <4>1, <5>1
      <4>2. h < rep[v] => h - 1 < rep[v]
        BY <2>1
      <4> QED
        BY <2>1, <3>2, <4>1, <4>2 DEF IsRep
    <3> QED
      BY <3>1, <3>3, <3>4
  <2> QED
    BY <2>2, <2>3
<1> HIDE DEF new, N
<1>3. IsReps(t, E, h - 1, new)
  BY <1>1, <1>2 DEF IsReps
<1> QED
  BY <1>3 DEF new, N

\* The edges that become constraints at the next head.
LEMMA EdgesStep ==
  ASSUME NEW t, NEW E, Dfs(t, E), NEW h \in 1 .. Len(t)
  PROVE  /\ JoinedEdges(t, E, h - 1) = JoinedEdges(t, E, h) \cup JoinedAt(t, E, h)
         /\ ClosedEdges(t, E, h - 1) = ClosedEdges(t, E, h) \cup ClosingsAt(t, E, h)
         /\ ~HasBack(t, E, h) => JoinedAt(t, E, h) = {} /\ ClosingsAt(t, E, h) = {}
<1>1. ASSUME NEW u, NEW v, Joined(t, E, h, u, v)  PROVE Joined(t, E, h - 1, u, v)
  <2>1. \A g \in 1 .. Len(t) : h < g => h - 1 < g
    OBVIOUS
  <2> QED
    BY <1>1, <2>1 DEF Joined
<1>2. JoinedEdges(t, E, h - 1) = JoinedEdges(t, E, h) \cup JoinedAt(t, E, h)
  BY <1>1 DEF JoinedEdges, JoinedAt
<1>3. ClosedEdges(t, E, h - 1) = ClosedEdges(t, E, h) \cup ClosingsAt(t, E, h)
  <2>1. ASSUME NEW e \in Closings(t, E)  PROVE h - 1 < e[2] <=> h < e[2] \/ e[2] = h
    <3>1. e[2] \in 1 .. Len(t)
      BY DEF Closings, Dfs
    <3> QED
      BY <3>1
  <2> QED
    BY <2>1 DEF ClosedEdges, ClosingsAt
<1>4. ASSUME ~HasBack(t, E, h)  PROVE JoinedAt(t, E, h) = {} /\ ClosingsAt(t, E, h) = {}
  <2>1. ClosingsAt(t, E, h) = {}
    BY <1>4 DEF ClosingsAt, Closings, HasBack
  <2>2. ASSUME NEW e \in JoinedAt(t, E, h)  PROVE FALSE
    <3>1. PICK g \in 1 .. Len(t) : h - 1 < g /\ e[1] \in Comp(t, E, g) /\ e[2] \in Comp(t, E, g)
      BY DEF JoinedAt, Joined
    <3>2. ~(h < g)
      BY <3>1 DEF JoinedAt, Joined
    <3>3. g = h
      BY <3>1, <3>2
    <3>4. e[1] = h /\ e[2] = h
      BY <1>4, <3>1, <3>3, CompOfPlain
    <3>5. e \in E /\ e = <<e[1], e[2]>> /\ e \in TreeOrCross(t, E)
      BY DEF JoinedAt, TreeOrCross, Dfs
    <3> QED
      BY <3>4, <3>5, EdgesAreIn
  <2> QED
    BY <2>1, <2>2
<1> QED
  BY <1>2, <1>3, <1>4

SearchedInto(t, E, X, d) == d.cross = X /\ d.back = {e \in E : e[2] \in Up(t, e[1])}

\* The recorded back edges into h.
LEMMA BackPredsIs ==
  ASSUME NEW t, NEW E, Dfs(t, E), NEW X, NEW d, SearchedInto(t, E, X, d), NEW h \in 1 .. Len(t)
  PROVE  LET U == {b[1] : b \in {e \in d.back : e[2] = h}}
         IN  /\ U = {w \in 1 .. Len(t) : <<w, h>> \in E /\ h \in Up(t, w)}
             /\ U = {} <=> ~HasBack(t, E, h)
<1> DEFINE U == {b[1] : b \in {e \in d.back : e[2] = h}}
           W == {w \in 1 .. Len(t) : <<w, h>> \in E /\ h \in Up(t, w)}
<1>1. ASSUME NEW u \in U  PROVE u \in W
  <2>1. PICK b \in E : b[2] = h /\ h \in Up(t, b[1]) /\ u = b[1]
    BY DEF SearchedInto
  <2>2. b = <<u, h>> /\ u \in 1 .. Len(t)
    BY <2>1 DEF Dfs
  <2> QED
    BY <2>1, <2>2
<1>2. ASSUME NEW u \in W  PROVE u \in U
  <2> DEFINE b == <<u, h>>
  <2>1. b \in E /\ b[2] = h /\ b[1] = u /\ h \in Up(t, b[1])
    OBVIOUS
  <2> HIDE DEF b
  <2>2. b \in {e \in d.back : e[2] = h}
    BY <2>1 DEF SearchedInto
  <2> QED
    BY <2>1, <2>2
<1>3. U = {} <=> ~HasBack(t, E, h)
  BY DEF HasBack, SearchedInto
<1> QED
  BY <1>1, <1>2, <1>3

\* The constraints inside of a loop that the code adds are those of its edges.
LEMMA InsideIs ==
  ASSUME NEW t, NEW E, NEW X, NEW s, Merging(t, E, X, s), s.head # 0, HasBack(t, E, s.head)
  PROVE  Closing(Restored(s, X), s.head, BackPreds(t, E, s.head, s.rep)) \cup
           UNION {Entering(Restored(s, X), v) : v \in NestedReps(t, E, s.head, s.rep)}
         = {ClosingOf(t, E, e) : e \in ClosingsAt(t, E, s.head)} \cup
             {ConstraintOf(t, E, e) : e \in JoinedAt(t, E, s.head)}
<1> DEFINE h == s.head
           r == Restored(s, X)
           N == NestedReps(t, E, h, s.rep)
           J == JoinedAt(t, E, h)
<1>1. Closing(r, h, BackPreds(t, E, h, s.rep)) = {ClosingOf(t, E, e) : e \in ClosingsAt(t, E, h)}
  <2>1. \A e \in ClosingsAt(t, E, h) : ClosingOf(t, E, e) = <<From(t, E, e[1], e[2]), -h, -h, FALSE>>
    BY DEF ClosingsAt, ClosingOf
  <2>2. {ClosingOf(t, E, e) : e \in ClosingsAt(t, E, h)} =
        {<<From(t, E, e[1], e[2]), -h, -h, FALSE>> : e \in ClosingsAt(t, E, h)}
    BY <2>1
  <2>3. Closing(Restored(s, X), s.head, BackPreds(t, E, s.head, s.rep)) =
        ClosingsOf(t, E, s.head)
    <3> HIDE DEF r, J, N, h
    <3> QED
      BY ClosingIs
  <2> QED
    BY <2>2, <2>3 DEF ClosingsOf
<1>2. ASSUME NEW v \in N  PROVE Entering(r, v) = {ConstraintOf(t, E, e) : e \in {f \in J : s.rep[f[2]] = v}}
  BY EnteringIs DEF ConstraintOf
<1>3. ASSUME NEW e \in J  PROVE s.rep[e[2]] \in N
  <2>1. Dfs(t, E) /\ IsReps(t, E, h, s.rep) /\ h \in 1 .. Len(t)
    BY MergingFacts, RestoredFacts
  <2> QED
    BY <2>1, JoinedAtFacts
<1> DEFINE B == UNION {Entering(r, v) : v \in N}
<1>4. B = {ConstraintOf(t, E, e) : e \in J}
  <2> HIDE DEF N, J, r
  <2>1. ASSUME NEW x \in B  PROVE x \in {ConstraintOf(t, E, e) : e \in J}
    <3>1. PICK v \in N : x \in Entering(r, v)
      BY <2>1
    <3> QED
      BY <1>2, <3>1
  <2>2. ASSUME NEW e \in J  PROVE ConstraintOf(t, E, e) \in B
    <3>1. ConstraintOf(t, E, e) \in Entering(r, s.rep[e[2]])
      BY <1>2, <1>3
    <3> QED
      BY <1>3, <3>1
  <2> HIDE DEF B
  <2> QED
    BY <2>1, <2>2
<1> QED
  BY <1>1, <1>4

\* What becomes of r when h is no head of a loop, and when the components N are
\* merged into that of h.
Single(r, h) == [r EXCEPT !.space = Append(@, h), !.size = [@ EXCEPT ![h] = 1]]
Merged(r, A, N, size, h) ==
  [AddSuccessors(r, A) EXCEPT
     !.space  = @ \o <<-h, h>>,
     !.size   = [@ EXCEPT ![h] = 2 + SumFunctionOnSet(size, N)],
     !.rep    = [v \in DOMAIN @ |-> IF @[v] \in N THEN h ELSE @[v]],
     !.parent = [v \in DOMAIN @ |-> IF v \in N THEN h ELSE @[v]],
     !.exit   = [@ EXCEPT ![h] = -h]]

\* The constraints inside of a loop that are not inside of one in it.
InsideOf(t, E, h) == ConstraintsOf(t, E, ClosingsAt(t, E, h), JoinedAt(t, E, h))

\* What the loop over the heads does at h, in terms of the graph.
ComponentOf(t, E, X, s, h) ==
  IF HasBack(t, E, h) THEN Merged(Restored(s, X), InsideOf(t, E, h), NestedReps(t, E, h, s.rep), s.size, h)
  ELSE Single(Restored(s, X), h)

\* The model of the iteration is this.
LEMMA ComponentIs ==
  ASSUME NEW t, NEW E, NEW X, NEW s, Merging(t, E, X, s), s.head # 0, NEW d, SearchedInto(t, E, X, d)
  PROVE  Component(s, d) = ComponentOf(t, E, X, s, s.head)
<1> DEFINE h == s.head
           r == Restored(s, X)
           N == NestedReps(t, E, h, s.rep)
           U == {b[1] : b \in {e \in d.back : e[2] = h}}
           P == {r.rep[v] : v \in U \ {h}}
           I == Closing(r, h, P) \cup UNION {Entering(r, v) : v \in Nested(r, h, P)}
           A == InsideOf(t, E, h)
<1>1. Dfs(t, E) /\ IsCross(t, E, X) /\ IsReps(t, E, h, s.rep)
  BY MergingFacts
<1>2. /\ h \in 1 .. Len(t) /\ r.rep = s.rep /\ r.size = s.size
      /\ \A v \in 1 .. Len(t) : s.rep[v] = v => r.origin[v] = OriginOf(t, X, h - 1, s.rep, v)
  BY RestoredFacts
<1>3. U = {w \in 1 .. Len(t) : <<w, h>> \in E /\ h \in Up(t, w)} /\ (U = {} <=> ~HasBack(t, E, h))
  BY <1>1, <1>2, BackPredsIs
<1>4. P = BackPreds(t, E, h, s.rep)
  BY <1>2, <1>3 DEF BackPreds
<1>5. r = [Restore(s, h, d.cross) EXCEPT !.head = h - 1]
  BY DEF Restored, SearchedInto
<1>6. Component(s, d) =
        IF U = {} THEN [r EXCEPT !.space = Append(@, h), !.size[h] = 1]
        ELSE Merged(r, I, Nested(r, h, P), r.size, h)
  <2> HIDE DEF r
  <2> QED
    BY <1>5 DEF Component, Merged
<1>7. [r EXCEPT !.space = Append(@, h), !.size[h] = 1] = Single(r, h)
  <2> HIDE DEF r, h
  <2> QED
    BY DEF Single
<1> HIDE DEF r, P, U
<1>8. Nested(r, h, P) = N
  BY <1>1, <1>2, <1>4, NestedIs
<1>9. HasBack(t, E, h) => I = A
  <2> SUFFICES ASSUME HasBack(t, E, h)  PROVE I = A
    OBVIOUS
  <2>1. Closing(r, h, BackPreds(t, E, h, s.rep)) \cup UNION {Entering(r, v) : v \in N} = A
    BY InsideIs DEF r, InsideOf, ConstraintsOf
  <2> HIDE DEF A, N
  <2> QED
    BY <1>4, <1>8, <2>1
<1> HIDE DEF I, A, N, h
<1>10. Component(s, d) = IF HasBack(t, E, h) THEN Merged(r, A, N, s.size, h) ELSE Single(r, h)
  BY <1>2, <1>3, <1>6, <1>7, <1>8, <1>9
<1> QED
  BY <1>10 DEF ComponentOf, r, A, N, h

\* The state after h in terms of that before.
AfterHead(t, E, X, s, c) ==
  LET h == s.head
      n == Len(t)
      N == NestedReps(t, E, h, s.rep)
  IN  /\ MergeTypes(1 .. n, c) /\ c.head = h - 1
      /\ c.rep = [v \in 1 .. n |-> IF s.rep[v] \in N THEN h ELSE s.rep[v]]
      /\ c.parent = [v \in 1 .. n |-> IF v \in N THEN h ELSE s.parent[v]]
      /\ c.exit = [v \in 1 .. n |-> IF v = h /\ HasBack(t, E, h) THEN -h ELSE s.exit[v]]
      /\ c.size = [v \in 1 .. n |-> IF v = h THEN Cardinality(Elements(t, E, h)) ELSE s.size[v]]
      /\ c.space = IF HasBack(t, E, h) THEN s.space \o <<-h, h>> ELSE Append(s.space, h)
      /\ c.succ = SuccOf(t, E, JoinedEdges(t, E, h - 1), ClosedEdges(t, E, h - 1))
      /\ c.outer = OuterOf(t, E, JoinedEdges(t, E, h - 1))
      /\ \A v \in 1 .. n : s.rep[v] = v => c.origin[v] = OriginOf(t, X, h - 1, s.rep, v)

\* The state after a head without a loop.
LEMMA PlainComponent ==
  ASSUME NEW t, NEW E, NEW X, NEW s, Merging(t, E, X, s), s.head # 0, NEW d, SearchedInto(t, E, X, d),
         ~HasBack(t, E, s.head)
  PROVE  AfterHead(t, E, X, s, Component(s, d))
<1> DEFINE h == s.head
           n == Len(t)
           r == Restored(s, X)
           c == Component(s, d)
           N == NestedReps(t, E, h, s.rep)
<1>1. /\ Dfs(t, E) /\ n \in Nat /\ IsReps(t, E, h, s.rep) /\ MergeTypes(1 .. n, s) /\ ConstraintInv(t, E, s)
  BY MergingFacts
<1>2. /\ h \in 1 .. n /\ MergeTypes(1 .. n, r)
      /\ r.head = h - 1 /\ r.rep = s.rep /\ r.exit = s.exit /\ r.size = s.size
      /\ r.space = s.space /\ r.succ = s.succ /\ r.outer = s.outer /\ r.parent = s.parent
      /\ \A v \in 1 .. n : s.rep[v] = v => r.origin[v] = OriginOf(t, X, h - 1, s.rep, v)
  BY RestoredFacts
<1> DEFINE space == Append(r.space, h)
           size == [r.size EXCEPT ![h] = 1]
<1>3. c = Single(r, h)
  BY ComponentIs DEF ComponentOf
<1>4. c = [r EXCEPT !.space = space, !.size = size]
  <2> HIDE DEF r, c, h
  <2> QED
    BY <1>3 DEF Single
<1> HIDE DEF c, r
<1>5. /\ s.rep \in [1 .. n -> 1 .. n] /\ s.exit \in [1 .. n -> Int] /\ s.parent \in [1 .. n -> 1 .. n]
      /\ s.size \in [1 .. n -> Nat] /\ s.space \in Seq(Int)
  BY <1>1, MergeFields
<1>6. space \in Seq(Int) /\ size \in [1 .. n -> Nat] /\ size = [v \in 1 .. n |-> IF v = h THEN 1 ELSE s.size[v]]
      /\ space = Append(s.space, h)
  <2>1. space = Append(s.space, h) /\ size = [s.size EXCEPT ![h] = 1]
    BY <1>2
  <2> HIDE DEF space, size, h
  <2>2. size \in [1 .. n -> Nat] /\ size = [v \in 1 .. n |-> IF v = h THEN 1 ELSE s.size[v]]
    BY <1>5, <2>1
  <2>3. space \in Seq(Int)
    <3>1. h \in Int
      BY <1>2
    <3> QED
      BY <1>5, <2>1, <3>1
  <2> QED
    BY <2>1, <2>2, <2>3
<1> HIDE DEF space, size
<1>7. /\ c.head = h - 1 /\ c.rep = s.rep /\ c.exit = s.exit /\ c.size = size
      /\ c.space = space /\ c.succ = s.succ /\ c.outer = s.outer /\ c.parent = s.parent /\ c.origin = r.origin
  BY <1>2, <1>4 DEF MergeTypes
<1>8. MergeTypes(1 .. n, c)
  BY <1>2, <1>4, <1>6 DEF MergeTypes
<1>9. N = {}
  <2>1. Comp(t, E, h) = {h}
    BY <1>1, <1>2, CompOfPlain
  <2> QED
    BY <2>1 DEF NestedReps
<1>10. /\ JoinedEdges(t, E, h - 1) = JoinedEdges(t, E, h) /\ ClosedEdges(t, E, h - 1) = ClosedEdges(t, E, h)
  <2>1. ~HasBack(t, E, h)
    OBVIOUS
  <2> HIDE DEF h
  <2>2. JoinedAt(t, E, h) = {} /\ ClosingsAt(t, E, h) = {}
    BY <1>1, <1>2, <2>1, EdgesStep
  <2>3. /\ JoinedEdges(t, E, h - 1) = JoinedEdges(t, E, h) \cup JoinedAt(t, E, h)
        /\ ClosedEdges(t, E, h - 1) = ClosedEdges(t, E, h) \cup ClosingsAt(t, E, h)
    BY <1>1, <1>2, EdgesStep
  <2> QED
    BY <2>2, <2>3
<1>11. Cardinality(Elements(t, E, h)) = 1
  BY <1>1, <1>2, ElementsOfPlain
<1> HIDE DEF N
<1>12. /\ c.rep = [v \in 1 .. n |-> IF s.rep[v] \in N THEN h ELSE s.rep[v]]
       /\ c.parent = [v \in 1 .. n |-> IF v \in N THEN h ELSE s.parent[v]]
       /\ c.exit = [v \in 1 .. n |-> IF v = h /\ HasBack(t, E, h) THEN -h ELSE s.exit[v]]
  BY <1>5, <1>7, <1>9
<1>13. /\ c.size = [v \in 1 .. n |-> IF v = h THEN Cardinality(Elements(t, E, h)) ELSE s.size[v]]
       /\ c.space = IF HasBack(t, E, h) THEN s.space \o <<-h, h>> ELSE Append(s.space, h)
  BY <1>6, <1>7, <1>11
<1>14. /\ c.succ = SuccOf(t, E, JoinedEdges(t, E, h - 1), ClosedEdges(t, E, h - 1))
       /\ c.outer = OuterOf(t, E, JoinedEdges(t, E, h - 1))
  BY <1>1, <1>7, <1>10 DEF ConstraintInv
<1>15. \A v \in 1 .. n : s.rep[v] = v => c.origin[v] = OriginOf(t, X, h - 1, s.rep, v)
  BY <1>2, <1>7
<1> HIDE DEF h, n
<1>16. c.head = h - 1
  BY <1>7
<1> QED
  BY <1>8, <1>12, <1>13, <1>14, <1>15, <1>16 DEF AfterHead, N, h, n, c

\* The fields of c, in which the components N of a are merged into that of h.
MergeOf(n, a, h, N, size, c) ==
  /\ MergeTypes(1 .. n, c) /\ c.head = a.head
  /\ c.rep = [v \in 1 .. n |-> IF a.rep[v] \in N THEN h ELSE a.rep[v]]
  /\ c.parent = [v \in 1 .. n |-> IF v \in N THEN h ELSE a.parent[v]]
  /\ c.exit = [v \in 1 .. n |-> IF v = h THEN -h ELSE a.exit[v]]
  /\ c.size = [v \in 1 .. n |-> IF v = h THEN 2 + SumFunctionOnSet(size, N) ELSE a.size[v]]
  /\ c.space = a.space \o <<-h, h>>
  /\ c.succ = a.succ /\ c.outer = a.outer /\ c.origin = a.origin

\* The fields after a merge.
LEMMA MergedFields ==
  ASSUME NEW n \in Nat, NEW r, NEW A, MergeTypes(1 .. n, AddSuccessors(r, A)), NEW h \in 1 .. n, NEW N,
         NEW size, 2 + SumFunctionOnSet(size, N) \in Nat
  PROVE  MergeOf(n, AddSuccessors(r, A), h, N, size, Merged(r, A, N, size, h))
<1> DEFINE V == 1 .. n
           a == AddSuccessors(r, A)
           c == Merged(r, A, N, size, h)
           sum == 2 + SumFunctionOnSet(size, N)
           rep == [v \in V |-> IF a.rep[v] \in N THEN h ELSE a.rep[v]]
           parent == [v \in V |-> IF v \in N THEN h ELSE a.parent[v]]
           exit == [v \in V |-> IF v = h THEN -h ELSE a.exit[v]]
           sizes == [v \in V |-> IF v = h THEN sum ELSE a.size[v]]
           space == a.space \o <<-h, h>>
<1>1. /\ a.head \in Nat /\ a.rep \in [V -> V] /\ a.exit \in [V -> Int] /\ a.size \in [V -> Nat]
      /\ a.space \in Seq(Int) /\ a.parent \in [V -> V]
  BY MergeFields
<1>2. sum \in Nat
  OBVIOUS
<1>3. MergeTypes(V, a)
  OBVIOUS
<1>4. c = [a EXCEPT
             !.space  = @ \o <<-h, h>>,
             !.size   = [@ EXCEPT ![h] = sum],
             !.rep    = [v \in DOMAIN @ |-> IF @[v] \in N THEN h ELSE @[v]],
             !.parent = [v \in DOMAIN @ |-> IF v \in N THEN h ELSE @[v]],
             !.exit   = [@ EXCEPT ![h] = -h]]
  BY DEF Merged
<1> HIDE DEF sum, c, a
<1>5. rep \in [V -> V] /\ parent \in [V -> V] /\ exit \in [V -> Int] /\ sizes \in [V -> Nat] /\ space \in Seq(Int)
  BY <1>1, <1>2
<1>6. /\ [v \in DOMAIN a.rep |-> IF a.rep[v] \in N THEN h ELSE a.rep[v]] = rep
      /\ [v \in DOMAIN a.parent |-> IF v \in N THEN h ELSE a.parent[v]] = parent
      /\ [a.exit EXCEPT ![h] = -h] = exit /\ [a.size EXCEPT ![h] = sum] = sizes
  BY <1>1
<1>7. c = [a EXCEPT !.space = space, !.size = sizes, !.rep = rep, !.parent = parent, !.exit = exit]
  <2> HIDE DEF rep, parent, exit, sizes, space
  <2> QED
    BY <1>4, <1>6 DEF space
<1> HIDE DEF rep, parent, exit, sizes, space
<1>8. /\ c.head = a.head /\ c.rep = rep /\ c.parent = parent /\ c.exit = exit /\ c.size = sizes
      /\ c.space = space /\ c.succ = a.succ /\ c.outer = a.outer /\ c.origin = a.origin
  BY <1>7 DEF MergeTypes
<1>9. MergeTypes(V, c)
  BY <1>5, <1>7, <1>3 DEF MergeTypes
<1> QED
  BY <1>8, <1>9 DEF c, rep, parent, exit, sizes, space, sum, a, MergeOf

\* The state after the head of a loop.
LEMMA LoopComponent ==
  ASSUME NEW t, NEW E, NEW X, NEW s, Merging(t, E, X, s), s.head # 0, NEW d, SearchedInto(t, E, X, d),
         HasBack(t, E, s.head)
  PROVE  AfterHead(t, E, X, s, Component(s, d))
<1> DEFINE h == s.head
           n == Len(t)
           r == Restored(s, X)
           c == Component(s, d)
           N == NestedReps(t, E, h, s.rep)
           A == InsideOf(t, E, h)
           a == AddSuccessors(r, A)
           F == JoinedEdges(t, E, h)
           K == ClosedEdges(t, E, h)
<1>1. /\ Dfs(t, E) /\ n \in Nat /\ IsReps(t, E, h, s.rep) /\ MergeTypes(1 .. n, s) /\ ConstraintInv(t, E, s)
      /\ SizeInv(t, E, s)
  BY MergingFacts
<1>2. /\ h \in 1 .. n /\ MergeTypes(1 .. n, r)
      /\ r.head = h - 1 /\ r.rep = s.rep /\ r.exit = s.exit /\ r.size = s.size
      /\ r.space = s.space /\ r.succ = s.succ /\ r.outer = s.outer /\ r.parent = s.parent
      /\ \A v \in 1 .. n : s.rep[v] = v => r.origin[v] = OriginOf(t, X, h - 1, s.rep, v)
  BY RestoredFacts
<1>3. c = Merged(r, A, N, s.size, h)
  BY ComponentIs DEF ComponentOf
<1>4. /\ F \subseteq TreeOrCross(t, E) /\ JoinedAt(t, E, h) \subseteq TreeOrCross(t, E)
      /\ K \subseteq E /\ ClosingsAt(t, E, h) \subseteq E
  BY DEF JoinedEdges, JoinedAt, ClosedEdges, ClosingsAt, Closings
<1>5. /\ JoinedEdges(t, E, h - 1) = F \cup JoinedAt(t, E, h)
      /\ ClosedEdges(t, E, h - 1) = K \cup ClosingsAt(t, E, h)
  BY <1>1, <1>2, EdgesStep
<1> DEFINE M == ClosingsAt(t, E, h)
           J == JoinedAt(t, E, h)
<1>6. A = ConstraintsOf(t, E, M, J)
  BY DEF InsideOf
<1> HIDE DEF r, c, F, K, N, A, M, J, h
<1>7. F \subseteq TreeOrCross(t, E) /\ J \subseteq TreeOrCross(t, E) /\ K \subseteq E /\ M \subseteq E
  BY <1>4 DEF M, J
<1>8. /\ A \subseteq Int \X Int \X Int \X BOOLEAN
      /\ SuccOf(t, E, F, K) \cup NewSucc(SuccOf(t, E, F, K), A) = SuccOf(t, E, F \cup J, K \cup M)
      /\ OuterOf(t, E, F) \cup NewOuter(SuccOf(t, E, F, K), A) = OuterOf(t, E, F \cup J)
  <2>1. Adds(t, E, F, K, J, M)
    BY <1>1, <1>7, AddConstraints
  <2> QED
    BY <1>6, <2>1 DEF Adds
<1> HIDE DEF a
<1>9. r.succ = SuccOf(t, E, F, K) /\ r.outer = OuterOf(t, E, F)
  BY <1>1, <1>2 DEF ConstraintInv, F, K, h
<1>10. /\ MergeTypes(1 .. n, a)
      /\ a.head = r.head /\ a.rep = r.rep /\ a.exit = r.exit /\ a.size = r.size
      /\ a.space = r.space /\ a.origin = r.origin /\ a.parent = r.parent
      /\ a.succ = r.succ \cup NewSucc(r.succ, A) /\ a.outer = r.outer \cup NewOuter(r.succ, A)
  BY <1>2, <1>8, AddedIs DEF a
<1>11. /\ a.succ = SuccOf(t, E, JoinedEdges(t, E, h - 1), ClosedEdges(t, E, h - 1))
      /\ a.outer = OuterOf(t, E, JoinedEdges(t, E, h - 1))
  BY <1>5, <1>8, <1>9, <1>10 DEF M, J
<1>12. 2 + SumFunctionOnSet(s.size, N) = Cardinality(Elements(t, E, h))
  <2>1. \A v \in 1 .. n : h < v => s.size[v] = Cardinality(Elements(t, E, v))
    BY <1>1 DEF SizeInv, h
  <2> QED
    BY <1>1, <1>2, <2>1, SizeOfLoop DEF N, h
<1>13. 2 + SumFunctionOnSet(s.size, N) \in Nat
  BY <1>1, <1>2, <1>12, ElementsAreFinite, FS_CardinalityType
<1>14. /\ MergeTypes(1 .. n, c) /\ c.head = a.head
       /\ c.rep = [v \in 1 .. n |-> IF a.rep[v] \in N THEN h ELSE a.rep[v]]
       /\ c.parent = [v \in 1 .. n |-> IF v \in N THEN h ELSE a.parent[v]]
       /\ c.exit = [v \in 1 .. n |-> IF v = h THEN -h ELSE a.exit[v]]
       /\ c.size = [v \in 1 .. n |-> IF v = h THEN 2 + SumFunctionOnSet(s.size, N) ELSE a.size[v]]
       /\ c.space = a.space \o <<-h, h>>
       /\ c.succ = a.succ /\ c.outer = a.outer /\ c.origin = a.origin
  <2>1. MergeOf(n, a, h, N, s.size, c)
    <3>1. n \in Nat /\ MergeTypes(1 .. n, AddSuccessors(r, A)) /\ h \in 1 .. n
      BY <1>1, <1>2, <1>10 DEF a
    <3>2. MergeOf(n, AddSuccessors(r, A), h, N, s.size, Merged(r, A, N, s.size, h))
      BY <1>13, <3>1, MergedFields
    <3> QED
      BY <1>3, <3>2 DEF a
  <2> HIDE DEF n
  <2> QED
    BY <2>1 DEF MergeOf
<1>15. HasBack(t, E, h)
  BY DEF h
<1>16. /\ c.head = h - 1
       /\ c.rep = [v \in 1 .. n |-> IF s.rep[v] \in N THEN h ELSE s.rep[v]]
       /\ c.parent = [v \in 1 .. n |-> IF v \in N THEN h ELSE s.parent[v]]
       /\ c.exit = [v \in 1 .. n |-> IF v = h /\ HasBack(t, E, h) THEN -h ELSE s.exit[v]]
       /\ c.size = [v \in 1 .. n |-> IF v = h THEN Cardinality(Elements(t, E, h)) ELSE s.size[v]]
       /\ c.space = IF HasBack(t, E, h) THEN s.space \o <<-h, h>> ELSE Append(s.space, h)
  BY <1>2, <1>10, <1>12, <1>14, <1>15
<1>17. \A v \in 1 .. n : s.rep[v] = v => c.origin[v] = OriginOf(t, X, h - 1, s.rep, v)
  BY <1>2, <1>10, <1>14
<1> QED
  BY <1>11, <1>14, <1>16, <1>17 DEF AfterHead, N, h, c

\* Whether h heads a loop or not.
LEMMA ComponentAfter ==
  ASSUME NEW t, NEW E, NEW X, NEW s, Merging(t, E, X, s), s.head # 0, NEW d, SearchedInto(t, E, X, d)
  PROVE  AfterHead(t, E, X, s, Component(s, d))
BY PlainComponent, LoopComponent

\* An iteration of the loop over the heads keeps what holds of the components.
LEMMA AfterHeadKeeps ==
  ASSUME NEW t, NEW E, NEW X, NEW s, Merging(t, E, X, s), s.head # 0, NEW c, AfterHead(t, E, X, s, c)
  PROVE  Merging(t, E, X, c)
<1> DEFINE h == s.head
           n == Len(t)
           V == 1 .. n
           N == NestedReps(t, E, h, s.rep)
<1>1. /\ Dfs(t, E) /\ IsCross(t, E, X) /\ n \in Nat /\ h \in 0 .. n
      /\ IsReps(t, E, h, s.rep) /\ MergeTypes(V, s)
      /\ ExitInv(t, E, s) /\ OriginInv(t, X, s) /\ ParentInv(t, E, s)
      /\ SizeInv(t, E, s) /\ SpaceInv(t, E, h, s.space)
  BY MergingFacts
<1>2. h \in 1 .. n /\ h \in Nat
  BY <1>1
<1>3. /\ MergeTypes(V, c) /\ c.head = h - 1
      /\ c.rep = [v \in V |-> IF s.rep[v] \in N THEN h ELSE s.rep[v]]
      /\ c.parent = [v \in V |-> IF v \in N THEN h ELSE s.parent[v]]
      /\ c.exit = [v \in V |-> IF v = h /\ HasBack(t, E, h) THEN -h ELSE s.exit[v]]
      /\ c.size = [v \in V |-> IF v = h THEN Cardinality(Elements(t, E, h)) ELSE s.size[v]]
      /\ c.space = IF HasBack(t, E, h) THEN s.space \o <<-h, h>> ELSE Append(s.space, h)
      /\ c.succ = SuccOf(t, E, JoinedEdges(t, E, h - 1), ClosedEdges(t, E, h - 1))
      /\ c.outer = OuterOf(t, E, JoinedEdges(t, E, h - 1))
      /\ \A v \in V : s.rep[v] = v => c.origin[v] = OriginOf(t, X, h - 1, s.rep, v)
  BY DEF AfterHead
<1>4. \A v \in N : v \in V /\ h < v /\ s.rep[v] = v /\ v \in Comp(t, E, h)
  BY DEF NestedReps
<1>5. s.rep \in [V -> V] /\ s.space \in Seq(Int)
  BY <1>1, MergeFields
<1>6. s.rep[h] = h
  BY <1>1, <1>2, LoopReps
<1> HIDE DEF N
<1>7. \A v \in V : c.rep[v] = v <=> s.rep[v] = v /\ v \notin N
  <2>1. ASSUME NEW v \in V  PROVE c.rep[v] = v <=> s.rep[v] = v /\ v \notin N
    <3>1. c.rep[v] = IF s.rep[v] \in N THEN h ELSE s.rep[v]
      BY <1>3
    <3>2. h \notin N
      BY <1>2, <1>4
    <3> HIDE DEF h
    <3> QED
      BY <1>6, <3>1, <3>2
  <2> QED
    BY <2>1
<1>8. RepInv(t, E, c)
  <2>1. IsReps(t, E, h - 1, c.rep)
    <3> DEFINE new == [v \in V |-> IF s.rep[v] \in NestedReps(t, E, h, s.rep) THEN h ELSE s.rep[v]]
    <3>1. IsReps(t, E, h - 1, new)
      BY <1>1, <1>2, RepsStep
    <3>2. c.rep = new
      BY <1>3 DEF N
    <3> HIDE DEF new
    <3> QED
      BY <3>1, <3>2
  <2> QED
    BY <1>3, <2>1 DEF RepInv, IsReps
<1>9. ExitInv(t, E, c)
  <2>1. ASSUME NEW v \in V  PROVE c.exit[v] = IF c.head < v /\ HasBack(t, E, v) THEN -v ELSE v
    <3>1. s.exit[v] = IF h < v /\ HasBack(t, E, v) THEN -v ELSE v
      BY <1>1 DEF ExitInv
    <3>2. c.exit[v] = IF v = h /\ HasBack(t, E, h) THEN -h ELSE s.exit[v]
      BY <1>3
    <3>3. c.head < v <=> h < v \/ v = h
      BY <1>2, <1>3
    <3> HIDE DEF h
    <3> QED
      BY <1>2, <3>1, <3>2, <3>3
  <2> QED
    BY <2>1 DEF ExitInv
<1>10. OriginInv(t, X, c)
  <2>1. ASSUME NEW r \in V, c.rep[r] = r  PROVE c.origin[r] = OriginOf(t, X, c.head, c.rep, r)
    <3>1. s.rep[r] = r /\ r \notin N
      BY <1>7, <2>1
    <3>2. c.origin[r] = OriginOf(t, X, h - 1, s.rep, r)
      BY <1>3, <3>1
    <3>3. ASSUME NEW x \in X, h - 1 < x[3], x[3] < r  PROVE c.rep[x[2]] = r <=> s.rep[x[2]] = r
      <4>1. x[3] \in V /\ <<x[1], x[2]>> \in E
        BY <1>1 DEF IsCross
      <4>2. x[2] \in V
        BY <1>1, <4>1, EdgesAreIn
      <4>3. r # h
        BY <1>2, <3>3, <4>1
      <4>4. c.rep[x[2]] = IF s.rep[x[2]] \in N THEN h ELSE s.rep[x[2]]
        BY <1>3, <4>2
      <4> QED
        BY <3>1, <4>3, <4>4
    <3>4. {x \in X : h - 1 < x[3] /\ x[3] < r /\ c.rep[x[2]] = r} =
          {x \in X : h - 1 < x[3] /\ x[3] < r /\ s.rep[x[2]] = r}
      BY <3>3
    <3>5. OriginOf(t, X, h - 1, c.rep, r) = OriginOf(t, X, h - 1, s.rep, r)
      BY <3>4 DEF OriginOf
    <3> QED
      BY <1>3, <3>2, <3>5
  <2> QED
    BY <2>1 DEF OriginInv
<1>11. ParentInv(t, E, c)
  <2> DEFINE Good(v) == /\ c.head < c.parent[v] /\ c.parent[v] < v /\ v \in Comp(t, E, c.parent[v])
                        /\ \A g \in V : c.head < g /\ g < v /\ v \in Comp(t, E, g) => g <= c.parent[v]
  <2>1. ASSUME NEW v \in V, c.rep[v] = v  PROVE c.parent[v] = v
    <3>1. s.rep[v] = v /\ v \notin N
      BY <1>7, <2>1
    <3>2. s.parent[v] = v
      BY <1>1, <3>1 DEF ParentInv
    <3> QED
      BY <1>3, <3>1, <3>2
  <2>2. ASSUME NEW v \in V, c.rep[v] # v, v \in N  PROVE Good(v)
    <3>1. h < v /\ s.rep[v] = v /\ v \in Comp(t, E, h) /\ c.parent[v] = h /\ c.head = h - 1
      BY <1>3, <1>4, <2>2
    <3>2. \A g \in V : h < g /\ v \in Comp(t, E, g) => v <= g
      BY <1>1, <3>1 DEF IsReps, IsRep
    <3>3. \A g \in V : g < v /\ v \in Comp(t, E, g) => g <= h
      BY <1>2, <3>2
    <3>4. h - 1 < h
      BY <1>2
    <3> QED
      BY <3>1, <3>3, <3>4
  <2>3. ASSUME NEW v \in V, c.rep[v] # v, v \notin N  PROVE Good(v)
    <3>1. s.rep[v] # v /\ c.parent[v] = s.parent[v] /\ c.head = h - 1
      BY <1>3, <1>7, <2>3
    <3>2. /\ h < s.parent[v] /\ s.parent[v] < v /\ v \in Comp(t, E, s.parent[v])
          /\ \A g \in V : h < g /\ g < v /\ v \in Comp(t, E, g) => g <= s.parent[v]
      BY <1>1, <3>1 DEF ParentInv
    <3>3. s.parent[v] \in V
      BY <1>1, MergeFields
    <3>4. ASSUME NEW g \in V, h - 1 < g, g < v, v \in Comp(t, E, g)  PROVE g <= s.parent[v]
      <4>1. h < g \/ g = h
        BY <1>2, <3>4
      <4> QED
        BY <1>2, <3>2, <3>3, <3>4, <4>1
    <3>5. h - 1 < s.parent[v]
      BY <1>2, <3>2, <3>3
    <3> QED
      BY <3>1, <3>2, <3>4, <3>5
  <2> HIDE DEF Good
  <2>4. \A v \in V : IF c.rep[v] = v THEN c.parent[v] = v ELSE Good(v)
    BY <2>1, <2>2, <2>3
  <2> QED
    BY <2>4 DEF ParentInv, Good
<1>12. SizeInv(t, E, c)
  <2>1. ASSUME NEW v \in V, c.head < v  PROVE c.size[v] = Cardinality(Elements(t, E, v))
    <3>1. h < v \/ v = h
      BY <1>2, <1>3, <2>1
    <3>2. c.size[v] = IF v = h THEN Cardinality(Elements(t, E, h)) ELSE s.size[v]
      BY <1>3
    <3>3. h < v => s.size[v] = Cardinality(Elements(t, E, v))
      BY <1>1 DEF SizeInv
    <3> HIDE DEF h
    <3> QED
      BY <3>1, <3>2, <3>3
  <2> QED
    BY <2>1 DEF SizeInv
<1>13. SpaceInv(t, E, c.head, c.space)
  <2>1. IF HasBack(t, E, h) THEN SpaceInv(t, E, h - 1, s.space \o <<-h, h>>)
        ELSE SpaceInv(t, E, h - 1, Append(s.space, h))
    BY <1>1, <1>2, <1>5, SpaceStep
  <2> QED
    BY <1>3, <2>1
<1>14. ConstraintInv(t, E, c)
  BY <1>3 DEF ConstraintInv
<1>15. c.head <= Len(t)
  BY <1>1, <1>2, <1>3
<1> QED
  BY <1>1, <1>3, <1>8, <1>9, <1>10, <1>11, <1>12, <1>13, <1>14, <1>15 DEF Merging, MergeInv

\* What the loop over the heads starts with.
LEMMA UnmergedIsMerging ==
  ASSUME NEW t, NEW E, Dfs(t, E), NEW X, IsCross(t, E, X), NEW d, d.tree = t, Len(d.ref) = Len(t)
  PROVE  Merging(t, E, X, Unmerged(d)) /\ Unmerged(d).head = Len(t)
<1> DEFINE n == Len(t)
           V == 1 .. n
           self == [v \in V |-> v]
           origin == [v \in V |-> {<<u, v>> : u \in {t[v]} \ {0}}]
           zero == [v \in V |-> 0]
           s == Unmerged(d)
<1>1. n \in Nat /\ IsTree(t)
  BY DEF Dfs, IsTree
<1>2. s = [head |-> n, rep |-> self, exit |-> self, size |-> zero, parent |-> self, origin |-> origin,
           space |-> <<>>, succ |-> {}, outer |-> {}]
  BY DEF Unmerged
<1>3. self \in [V -> V] /\ self \in [V -> Int] /\ zero \in [V -> Nat] /\ (\A v \in V : self[v] = v)
  OBVIOUS
<1>4. origin \in [V -> SUBSET (V \X V)] /\ \A v \in V : origin[v] = {<<u, v>> : u \in {t[v]} \ {0}}
  <2>1. ASSUME NEW v \in V  PROVE {<<u, v>> : u \in {t[v]} \ {0}} \in SUBSET (V \X V)
    <3>1. t[v] \in Nat /\ t[v] < v
      BY <1>1, UpStep
    <3>2. t[v] # 0 => t[v] \in V
      BY <1>1, <3>1
    <3> QED
      BY <3>2
  <2> QED
    BY <2>1
<1> HIDE DEF self, origin, zero, s
<1>5. /\ s.head = n /\ s.rep = self /\ s.exit = self /\ s.size = zero /\ s.parent = self /\ s.origin = origin
      /\ s.space = <<>> /\ s.succ = {} /\ s.outer = {}
  BY <1>2
<1>6. MergeTypes(V, s)
  <2>1. <<>> \in Seq(Int) /\ {} \in SUBSET (Int \X Int) /\ {} \in SUBSET (Int \X Int \X Int)
    OBVIOUS
  <2> QED
    BY <1>1, <1>2, <1>3, <1>4, <2>1 DEF MergeTypes
<1>7. \A g \in V : ~(n < g)
  BY <1>1
<1>8. RepInv(t, E, s)
  <2>1. ASSUME NEW v \in V  PROVE IsRep(t, E, n, v, v)
    BY <1>7, CompSelf DEF IsRep
  <2> QED
    BY <1>3, <1>5, <2>1 DEF RepInv
<1>9. ExitInv(t, E, s)
  BY <1>3, <1>5, <1>7 DEF ExitInv
<1>10. OriginInv(t, X, s)
  <2>1. ASSUME NEW r \in V  PROVE s.origin[r] = OriginOf(t, X, s.head, s.rep, r)
    <3>1. {x \in X : n < x[3] /\ x[3] < r /\ s.rep[x[2]] = r} = {}
      BY <1>7 DEF IsCross
    <3>2. {<<c[1], c[2]>> : c \in {x \in X : n < x[3] /\ x[3] < r /\ s.rep[x[2]] = r}} = {}
      BY <3>1
    <3>3. s.origin[r] = {<<u, r>> : u \in {t[r]} \ {0}}
      BY <1>4, <1>5
    <3>4. OriginOf(t, X, n, s.rep, r) = {<<u, r>> : u \in {t[r]} \ {0}}
      BY <3>2 DEF OriginOf
    <3> QED
      BY <1>5, <3>3, <3>4
  <2> QED
    BY <2>1 DEF OriginInv
<1>11. ParentInv(t, E, s)
  BY <1>3, <1>5 DEF ParentInv
<1>12. SizeInv(t, E, s)
  BY <1>5, <1>7 DEF SizeInv
<1>13. SpaceInv(t, E, s.head, s.space)
  <2>1. Len(s.space) = 0 /\ 1 .. Len(s.space) = {}
    BY <1>5
  <2>2. ElementsAbove(t, E, n) = {}
    <3>1. {v \in V : n < v} = {} /\ {v \in V : n < v /\ HasBack(t, E, v)} = {}
      BY <1>7
    <3> QED
      BY <3>1 DEF ElementsAbove
  <2>3. ~(n < Len(t))
    BY <1>1
  <2>4. {s.space[i] : i \in {}} = {}
    OBVIOUS
  <2> QED
    BY <1>5, <2>1, <2>2, <2>3, <2>4 DEF SpaceInv
<1>14. ConstraintInv(t, E, s)
  <2>1. JoinedEdges(t, E, n) = {}
    BY <1>7 DEF JoinedEdges, Joined
  <2>2. ClosedEdges(t, E, n) = {}
    BY <1>7 DEF ClosedEdges, Closings, Dfs
  <2>3. SuccOf(t, E, {}, {}) = {} /\ OuterOf(t, E, {}) = {}
    BY DEF SuccOf, OuterOf
  <2> QED
    BY <1>5, <2>1, <2>2, <2>3 DEF ConstraintInv
<1>15. s.head <= Len(t)
  BY <1>1, <1>5
<1>16. Merging(t, E, X, s)
  BY <1>6, <1>8, <1>9, <1>10, <1>11, <1>12, <1>13, <1>14, <1>15 DEF Merging, MergeInv
<1> QED
  BY <1>5, <1>16 DEF s

\* The edges between the maximal components.
Outermost(t, E) == {e \in TreeOrCross(t, E) : ~Joined(t, E, 0, e[1], e[2])}

\* With no head left the origins are the edges between maximal components.
LEMMA TopOrigin ==
  ASSUME NEW t, NEW E, Dfs(t, E), NEW X, IsCross(t, E, X), NEW rep, IsReps(t, E, 0, rep),
         NEW v \in 1 .. Len(t), rep[v] = v
  PROVE  OriginOf(t, X, 0, rep, v) = {e \in Outermost(t, E) : rep[e[2]] = v}
<1> DEFINE V == 1 .. Len(t)
           O == OriginOf(t, X, 0, rep, v)
           J == Outermost(t, E)
<1>1. Len(t) \in Nat /\ IsTree(t) /\ \A w \in V : IsRep(t, E, 0, w, rep[w])
  BY DEF Dfs, IsTree, IsReps
<1>2. ASSUME NEW a \in V, NEW b \in V  PROVE Joined(t, E, 0, a, b) <=> rep[a] = rep[b]
  <2>1. IsRep(t, E, 0, a, rep[a]) /\ IsRep(t, E, 0, b, rep[b]) /\ 0 < rep[a]
    BY <1>1 DEF IsReps
  <2> QED
    BY <2>1, JoinedIs
<1>3. ASSUME NEW u \in V, u \in Comp(t, E, v)  PROVE rep[u] = v
  <2>1. IsRep(t, E, 0, u, v)
    BY <1>1, <1>3, RepOfMember
  <2> QED
    BY <1>1, <2>1, RepUnique
<1>4. ASSUME NEW u \in V  PROVE rep[u] \in V /\ rep[u] <= u /\ u \in Comp(t, E, rep[u]) /\ rep[u] \in Up(t, u)
  BY <1>1, RepFacts
<1>5. ASSUME NEW e \in O  PROVE e \in J /\ rep[e[2]] = v
  <2>1. CASE e \in {<<u, v>> : u \in {t[v]} \ {0}}
    <3>1. e = <<t[v], v>> /\ t[v] # 0 /\ t[v] \in Nat /\ t[v] < v
      BY <1>1, <2>1, UpStep
    <3>2. e \in E /\ e[1] = t[v] /\ e[2] = v /\ t[v] \in V
      BY <3>1 DEF Dfs
    <3>3. rep[t[v]] # v
      BY <1>4, <3>1, <3>2
    <3>4. ~Joined(t, E, 0, e[1], e[2])
      BY <1>2, <3>2, <3>3
    <3> QED
      BY <3>2, <3>4 DEF Outermost, TreeOrCross
  <2>2. CASE e \in {<<c[1], c[2]>> : c \in {x \in X : 0 < x[3] /\ x[3] < v /\ rep[x[2]] = v}}
    <3>1. PICK c \in X : 0 < c[3] /\ c[3] < v /\ rep[c[2]] = v /\ e = <<c[1], c[2]>>
      BY <2>2
    <3>2. /\ e \in E /\ c[2] < c[1] /\ c[2] \notin Up(t, c[1]) /\ IsMeet(t, c[1], c[2], c[3]) /\ c[3] \in V
          /\ e[1] = c[1] /\ e[2] = c[2]
      BY <3>1 DEF IsCross
    <3>3. c[1] \in V /\ c[2] \in V
      BY <3>1, <3>2, EdgesAreIn
    <3>4. rep[c[1]] # v
      <4>1. ASSUME rep[c[1]] = v  PROVE FALSE
        <5>1. v \in Up(t, c[1]) /\ v \in Up(t, c[2])
          BY <1>4, <3>1, <3>3, <4>1
        <5>2. v <= c[3]
          BY <3>2, <5>1 DEF IsMeet
        <5> QED
          BY <3>1, <3>2, <5>2
      <4> QED
        BY <4>1
    <3>5. ~Joined(t, E, 0, c[1], c[2])
      BY <1>2, <3>1, <3>3, <3>4
    <3> QED
      BY <3>1, <3>2, <3>5 DEF Outermost, TreeOrCross
  <2> QED
    BY <2>1, <2>2 DEF OriginOf
<1>6. ASSUME NEW e \in J, rep[e[2]] = v  PROVE e \in O
  <2> DEFINE u == e[1]
             w == e[2]
  <2>1. e \in E /\ e = <<u, w>> /\ e \in TreeOrCross(t, E) /\ ~Joined(t, E, 0, u, w)
    BY DEF Outermost, TreeOrCross, Dfs
  <2> HIDE DEF u, w
  <2>2. u \in V /\ w \in V
    BY <2>1, EdgesAreIn
  <2>3. rep[w] = v
    BY <1>6 DEF w
  <2>4. rep[u] # v
    BY <1>2, <2>1, <2>2, <2>3
  <2>5. v \in Up(t, w) /\ w \in Comp(t, E, v) /\ v <= w
    BY <1>4, <2>2, <2>3
  <2>6. v \notin Up(t, u)
    BY <1>3, <2>1, <2>2, <2>4, <2>5, CompBack
  <2>7. CASE u = t[w]
    <3>1. Up(t, w) = {w} \cup Up(t, t[w])
      BY <1>1, <2>2, UpStep
    <3>2. w = v
      BY <2>5, <2>6, <2>7, <3>1
    <3>3. t[v] # 0
      BY <2>2, <2>7, <3>2
    <3> QED
      BY <2>1, <2>7, <3>2, <3>3 DEF OriginOf
  <2>8. CASE u # t[w]
    <3>1. w < u /\ w \notin Up(t, u)
      BY <2>1, <2>8 DEF TreeOrCross, u, w
    <3>2. PICK a \in V : <<u, w, a>> \in X
      BY <2>1, <2>2, <3>1 DEF IsCross
    <3> DEFINE c == <<u, w, a>>
    <3>3. c \in X /\ c[1] = u /\ c[2] = w /\ c[3] = a
      BY <3>2
    <3> HIDE DEF c
    <3>4. IsMeet(t, u, w, a)
      BY <3>3 DEF IsCross
    <3>5. a \in Up(t, w) /\ a \in Up(t, u)
      BY <3>4 DEF IsMeet
    <3>6. ~(v <= a)
      <4>1. ASSUME v <= a  PROVE FALSE
        <5>1. w \in 0 .. Len(t) /\ u \in Nat
          BY <2>2
        <5>2. v \in Up(t, a)
          BY <1>1, <2>5, <3>5, <4>1, <5>1, UpChain
        <5>3. Up(t, a) \subseteq Up(t, u)
          BY <1>1, <3>5, <5>1, UpTrans
        <5> QED
          BY <2>6, <5>2, <5>3
      <4> QED
        BY <4>1
    <3>7. 0 < a /\ a < v
      BY <3>6
    <3>8. <<c[1], c[2]>> \in O
      BY <2>3, <3>3, <3>7 DEF OriginOf
    <3> QED
      BY <2>1, <3>3, <3>8
  <2> QED
    BY <2>7, <2>8
<1> HIDE DEF O, J
<1>7. O = {e \in J : rep[e[2]] = v}
  BY <1>5, <1>6
<1> QED
  BY <1>7 DEF O, J

\* The constraints that enter a maximal component.
LEMMA TopEntering ==
  ASSUME NEW t, NEW E, NEW X, NEW s, Merging(t, E, X, s), s.head = 0, NEW v \in TopLevel(s)
  PROVE  Entering(s, v) = {ConstraintOf(t, E, e) : e \in {f \in Outermost(t, E) : s.rep[f[2]] = v}}
<1> DEFINE V == 1 .. Len(t)
           rep == s.rep
           exit == s.exit
           J == {f \in Outermost(t, E) : rep[f[2]] = v}
<1>1. /\ Dfs(t, E) /\ IsCross(t, E, X) /\ IsReps(t, E, 0, rep) /\ ExitInv(t, E, s) /\ OriginInv(t, X, s)
  BY MergingFacts
<1>2. v \in V /\ rep[v] = v
  BY <1>1 DEF TopLevel, IsReps
<1>3. s.origin[v] = J
  <2>1. s.origin[v] = OriginOf(t, X, 0, rep, v)
    BY <1>1, <1>2 DEF OriginInv
  <2> QED
    BY <1>1, <1>2, <2>1, TopOrigin
<1>4. \A w \in V : exit[w] = IF 0 < w /\ HasBack(t, E, w) THEN -w ELSE w
  BY <1>1 DEF ExitInv
<1>5. ASSUME NEW e \in J
      PROVE  /\ exit[rep[e[1]]] = From(t, E, e[1], e[2]) /\ exit[v] = From(t, E, e[2], e[1])
             /\ (exit[v] # v <=> From(t, E, e[2], e[1]) # e[2])
  <2> DEFINE a == e[1]
             b == e[2]
  <2>1. e \in E /\ ~Joined(t, E, 0, a, b) /\ rep[b] = v
    BY DEF Outermost, TreeOrCross
  <2>2. a \in V /\ b \in V
    BY <1>1, <2>1 DEF Dfs
  <2> HIDE DEF a, b
  <2>3. rep[a] # rep[b]
    <3>1. IsRep(t, E, 0, a, rep[a]) /\ IsRep(t, E, 0, b, rep[b]) /\ 0 < rep[a]
      BY <1>1, <2>2 DEF IsReps
    <3> QED
      BY <1>1, <2>1, <3>1, JoinedIs
  <2>4. \A g \in V : g <= 0 => (a \in Comp(t, E, g) <=> b \in Comp(t, E, g))
    OBVIOUS
  <2> HIDE DEF rep, exit
  <2>5. /\ exit[rep[a]] = From(t, E, a, b) /\ exit[rep[b]] = From(t, E, b, a)
        /\ exit[rep[b]] # rep[b] <=> From(t, E, b, a) # b
    BY <1>1, <1>4, <2>2, <2>3, <2>4, ExitsOfEdge
  <2> QED
    BY <2>1, <2>5 DEF a, b
<1>6. Entering(s, v) = {<<exit[rep[e[1]]], e[2], exit[v], exit[v] # v>> : e \in J}
  BY <1>3 DEF Entering
<1> HIDE DEF J
<1>7. {<<exit[rep[e[1]]], e[2], exit[v], exit[v] # v>> : e \in J} = {ConstraintOf(t, E, e) : e \in J}
  BY <1>5 DEF ConstraintOf
<1> QED
  BY <1>6, <1>7 DEF J

\* What is known when the maximal components are connected.
Finished(t, E, s) ==
  /\ Dfs(t, E) /\ MergeTypes(1 .. Len(t), s) /\ s.head = 0
  /\ RepInv(t, E, s) /\ ExitInv(t, E, s) /\ ParentInv(t, E, s) /\ SizeInv(t, E, s) /\ SpaceInv(t, E, 0, s.space)
  /\ s.succ = SuccOf(t, E, TreeOrCross(t, E), Closings(t, E)) /\ s.outer = OuterOf(t, E, TreeOrCross(t, E))

\* Connecting the maximal components completes the constraints.
LEMMA ConnectedIsFinished ==
  ASSUME NEW t, NEW E, NEW X, NEW s, Merging(t, E, X, s), s.head = 0
  PROVE  Finished(t, E, Connected(s))
<1> DEFINE n == Len(t)
           V == 1 .. n
           J == Outermost(t, E)
           F == JoinedEdges(t, E, 0)
           K == ClosedEdges(t, E, 0)
           A == UNION {Entering(s, v) : v \in TopLevel(s)}
           c == Connected(s)
<1>1. /\ Dfs(t, E) /\ IsCross(t, E, X) /\ n \in Nat /\ IsReps(t, E, 0, s.rep) /\ MergeTypes(V, s)
      /\ RepInv(t, E, s) /\ ExitInv(t, E, s) /\ ParentInv(t, E, s)
      /\ SizeInv(t, E, s) /\ SpaceInv(t, E, 0, s.space) /\ s.succ = SuccOf(t, E, F, K) /\ s.outer = OuterOf(t, E, F)
  BY MergingFacts DEF Merging, MergeInv, ConstraintInv
<1>2. ASSUME NEW e \in J  PROVE s.rep[e[2]] \in TopLevel(s)
  <2>1. e[2] \in V
    BY <1>1 DEF Outermost, TreeOrCross, Dfs
  <2> DEFINE r == s.rep[e[2]]
  <2>2. IsRep(t, E, 0, e[2], r) /\ r \in V
    BY <1>1, <2>1 DEF IsReps
  <2> HIDE DEF r
  <2>3. IsRep(t, E, 0, r, r) /\ IsRep(t, E, 0, r, s.rep[r])
    BY <1>1, <2>2, RepFacts DEF IsReps
  <2>4. s.rep[r] = r
    BY <1>1, <2>3, RepUnique
  <2> QED
    BY <1>1, <2>2, <2>4 DEF TopLevel, IsReps, r
<1>3. A = {ConstraintOf(t, E, e) : e \in J}
  <2> HIDE DEF J
  <2>1. ASSUME NEW v \in TopLevel(s)
        PROVE  Entering(s, v) = {ConstraintOf(t, E, e) : e \in {f \in J : s.rep[f[2]] = v}}
    BY TopEntering DEF J
  <2>2. ASSUME NEW x \in A  PROVE x \in {ConstraintOf(t, E, e) : e \in J}
    <3>1. PICK v \in TopLevel(s) : x \in Entering(s, v)
      BY <2>2
    <3> QED
      BY <2>1, <3>1
  <2>3. ASSUME NEW e \in J  PROVE ConstraintOf(t, E, e) \in A
    <3>1. ConstraintOf(t, E, e) \in Entering(s, s.rep[e[2]])
      BY <1>2, <2>1
    <3> QED
      BY <1>2, <3>1
  <2> HIDE DEF A
  <2> QED
    BY <2>2, <2>3
<1>4. A = ConstraintsOf(t, E, {}, J)
  BY <1>3 DEF ConstraintsOf
<1>5. F \cup J = TreeOrCross(t, E) /\ K \cup {} = Closings(t, E)
  <2>1. F \cup J = TreeOrCross(t, E)
    BY DEF JoinedEdges, Outermost
  <2>2. \A e \in Closings(t, E) : 0 < e[2]
    BY <1>1 DEF Closings, Dfs
  <2> QED
    BY <2>1, <2>2 DEF ClosedEdges
<1>6. c = AddSuccessors(s, A)
  BY DEF Connected
<1> HIDE DEF A, c, J, F, K
<1>7. Adds(t, E, F, K, J, {})
  <2>1. F \subseteq TreeOrCross(t, E) /\ J \subseteq TreeOrCross(t, E) /\ K \subseteq E /\ {} \subseteq E
    BY <1>5 DEF Closings
  <2> QED
    BY <1>1, <2>1, AddConstraints
<1>8. A \subseteq Int \X Int \X Int \X BOOLEAN
  BY <1>4, <1>7 DEF Adds
<1>9. /\ MergeTypes(V, c)
      /\ c.head = s.head /\ c.rep = s.rep /\ c.exit = s.exit /\ c.size = s.size
      /\ c.space = s.space /\ c.origin = s.origin /\ c.parent = s.parent
      /\ c.succ = s.succ \cup NewSucc(s.succ, A) /\ c.outer = s.outer \cup NewOuter(s.succ, A)
  BY <1>1, <1>6, <1>8, AddedIs
<1>10. c.succ = SuccOf(t, E, TreeOrCross(t, E), Closings(t, E)) /\ c.outer = OuterOf(t, E, TreeOrCross(t, E))
  BY <1>1, <1>4, <1>5, <1>7, <1>9 DEF Adds
<1>11. RepInv(t, E, c) /\ ExitInv(t, E, c) /\ ParentInv(t, E, c) /\ SizeInv(t, E, c) /\ SpaceInv(t, E, 0, c.space)
  BY <1>1, <1>9 DEF RepInv, ExitInv, ParentInv, SizeInv
<1>12. Finished(t, E, c)
  BY <1>1, <1>9, <1>10, <1>11 DEF Finished
<1> QED
  BY <1>12 DEF c
-----------------------------------------------------------------------------
\* The components while they are merged, and when the ordering is made of them.
MergeCorrect ==
  /\ stage = "merge" => Merging(search.tree, EdgesOf(edges, search), search.cross, merge)
  /\ stage = "built" => Finished(search.tree, EdgesOf(edges, search), merge) /\ wpo = Ordering(merge, search)

\* A step of the construction keeps the components correct.
LEMMA MergeSteps ==
  ASSUME SearchCorrect, MergeCorrect, [Next]_vars
  PROVE  MergeCorrect'
<1> DEFINE t == search.tree
           E == EdgesOf(edges, search)
           X == search.cross
<1>1. ASSUME IsSearched(search)
      PROVE  /\ Dfs(t, E) /\ IsCross(t, E, X) /\ SearchedInto(t, E, X, search) /\ Len(search.ref) = Len(t)
  <2>1. Searched(edges, Root, search)
    BY <1>1 DEF SearchCorrect, Searched, IsGraphOver, IsGraph
  <2> QED
    BY <2>1, SearchedFacts, SearchedEdges DEF SearchedInto
<1>2. CASE StartSearch \/ VisitSuccessor \/ FinishVertex
  BY <1>2 DEF StartSearch, VisitSuccessor, FinishVertex, MergeCorrect
<1>3. CASE StartMerge
  <2>1. /\ IsSearched(search) /\ stage' = "merge" /\ merge' = Unmerged(search) /\ edges' = edges /\ search' = search
    BY <1>3 DEF StartMerge
  <2>2. Merging(t, E, X, Unmerged(search))
    BY <1>1, <2>1, UnmergedIsMerging
  <2>3. EdgesOf(edges, search)' = E
    BY <2>1
  <2> QED
    BY <2>1, <2>2, <2>3 DEF MergeCorrect
<1>4. CASE MergeAtHead
  <2>1. /\ stage = "merge" /\ merge.head > 0 /\ merge' = Component(merge, search) /\ stage' = stage
        /\ edges' = edges /\ search' = search
    BY <1>4 DEF MergeAtHead
  <2>2. IsSearched(search) /\ Merging(t, E, X, merge)
    BY <2>1 DEF SearchCorrect, MergeCorrect
  <2>3. merge.head # 0
    BY <2>1
  <2>4. AfterHead(t, E, X, merge, Component(merge, search))
    BY <1>1, <2>2, <2>3, ComponentAfter
  <2>5. Merging(t, E, X, Component(merge, search))
    BY <2>2, <2>3, <2>4, AfterHeadKeeps
  <2>6. EdgesOf(edges, search)' = E
    BY <2>1
  <2> QED
    BY <2>1, <2>5, <2>6 DEF MergeCorrect
<1>5. CASE MakeWpo
  <2>1. /\ stage = "merge" /\ merge.head = 0 /\ merge' = Connected(merge) /\ stage' = "built"
        /\ edges' = edges /\ search' = search /\ wpo' = Ordering(merge', search)
    BY <1>5 DEF MakeWpo
  <2>2. Merging(t, E, X, merge)
    BY <2>1 DEF MergeCorrect
  <2>3. Finished(t, E, merge')
    BY <2>1, <2>2, ConnectedIsFinished
  <2>4. EdgesOf(edges, search)' = E
    BY <2>1
  <2> QED
    BY <2>1, <2>3, <2>4 DEF MergeCorrect
<1>6. CASE UNCHANGED vars
  <2>1. stage' = stage /\ edges' = edges /\ search' = search /\ merge' = merge /\ wpo' = wpo
    BY <1>6 DEF vars
  <2>2. EdgesOf(edges, search)' = E
    BY <2>1
  <2> QED
    BY <2>1, <2>2 DEF MergeCorrect
<1> QED
  BY <1>2, <1>3, <1>4, <1>5, <1>6 DEF Next

\* At every step of construct_wpo the components are the loops whose heads have
\* been processed: each vertex has the outermost of them, each head its exit, its
\* size and its parent, and the constraints added are exactly those of the edges
\* inside the loops.  The ordering is made when this holds of the whole graph.
THEOREM MergeIsCorrect == Spec => []MergeCorrect
<1>1. Init => MergeCorrect
  BY DEF Init, MergeCorrect
<1>2. SearchCorrect /\ MergeCorrect /\ [Next]_vars => MergeCorrect'
  BY MergeSteps
<1> QED
  BY <1>1, <1>2, SearchIsCorrect, PTL DEF Spec
-----------------------------------------------------------------------------
(***************************************************************************)
(* What the scheduling constraints are.                                    *)
(***************************************************************************)
AllSucc(t, E) == SuccOf(t, E, TreeOrCross(t, E), Closings(t, E))

\* Each constraint on a vertex is that of a tree or cross edge, each on an exit
\* that of a back edge.
LEMMA ConstraintsAre ==
  ASSUME NEW t, NEW E, Dfs(t, E), NEW v \in 1 .. Len(t)
  PROVE  /\ \A u \in 1 .. Len(t) : <<u, v>> \in TreeOrCross(t, E) => <<From(t, E, u, v), v>> \in AllSucc(t, E)
         /\ \A u \in 1 .. Len(t) : <<u, v>> \in Closings(t, E) => <<From(t, E, u, v), -v>> \in AllSucc(t, E)
         /\ \A x : <<x, v>> \in AllSucc(t, E) =>
              \E u \in 1 .. Len(t) : <<u, v>> \in TreeOrCross(t, E) /\ x = From(t, E, u, v)
         /\ \A x : <<x, -v>> \in AllSucc(t, E) =>
              \E u \in 1 .. Len(t) : <<u, v>> \in Closings(t, E) /\ x = From(t, E, u, v)
<1> DEFINE V == 1 .. Len(t)
           P(e) == <<From(t, E, e[1], e[2]), e[2]>>
           Q(e) == <<From(t, E, e[1], e[2]), -e[2]>>
           F == TreeOrCross(t, E)
           K == Closings(t, E)
<1>1. AllSucc(t, E) = {P(e) : e \in F} \cup {Q(e) : e \in K}
  BY DEF AllSucc, SuccOf
<1>2. \A e \in F \cup K : e = <<e[1], e[2]>> /\ e[1] \in V /\ e[2] \in V
  BY DEF TreeOrCross, Closings, Dfs
<1>3. ASSUME NEW u \in V, <<u, v>> \in F  PROVE <<From(t, E, u, v), v>> \in AllSucc(t, E)
  <2> DEFINE e == <<u, v>>
  <2>1. P(e) = <<From(t, E, u, v), v>> /\ e \in F
    BY <1>3
  <2> HIDE DEF P, Q, F, K, e
  <2> QED
    BY <1>1, <2>1
<1>4. ASSUME NEW u \in V, <<u, v>> \in K  PROVE <<From(t, E, u, v), -v>> \in AllSucc(t, E)
  <2> DEFINE e == <<u, v>>
  <2>1. Q(e) = <<From(t, E, u, v), -v>> /\ e \in K
    BY <1>4
  <2> HIDE DEF P, Q, F, K, e
  <2> QED
    BY <1>1, <2>1
<1>5. ASSUME NEW x, <<x, v>> \in AllSucc(t, E)
      PROVE  \E u \in V : <<u, v>> \in F /\ x = From(t, E, u, v)
  <2>1. CASE <<x, v>> \in {P(e) : e \in F}
    <3>1. PICK e \in F : <<x, v>> = P(e)
      BY <2>1
    <3>2. x = From(t, E, e[1], e[2]) /\ v = e[2]
      BY <3>1
    <3> HIDE DEF F, K, P, Q
    <3> QED
      BY <1>2, <3>2
  <2>2. CASE <<x, v>> \in {Q(e) : e \in K}
    <3>1. PICK e \in K : <<x, v>> = Q(e)
      BY <2>2
    <3>2. v = -e[2]
      BY <3>1
    <3>3. e[2] \in V
      BY <1>2
    <3> QED
      BY <3>2, <3>3
  <2> QED
    BY <1>1, <1>5, <2>1, <2>2
<1>6. ASSUME NEW x, <<x, -v>> \in AllSucc(t, E)
      PROVE  \E u \in V : <<u, v>> \in K /\ x = From(t, E, u, v)
  <2>1. CASE <<x, -v>> \in {P(e) : e \in F}
    <3>1. PICK e \in F : <<x, -v>> = P(e)
      BY <2>1
    <3>2. -v = e[2]
      BY <3>1
    <3>3. e[2] \in V
      BY <1>2
    <3> QED
      BY <3>2, <3>3
  <2>2. CASE <<x, -v>> \in {Q(e) : e \in K}
    <3>1. PICK e \in K : <<x, -v>> = Q(e)
      BY <2>2
    <3>2. x = From(t, E, e[1], e[2]) /\ -v = -e[2]
      BY <3>1
    <3>3. e = <<e[1], e[2]>> /\ e[1] \in V /\ e[2] \in V
      BY <1>2
    <3>4. v = e[2]
      BY <3>2, <3>3
    <3> HIDE DEF F, K, P, Q
    <3> QED
      BY <3>2, <3>3, <3>4
  <2> QED
    BY <1>1, <1>6, <2>1, <2>2
<1> QED
  BY <1>3, <1>4, <1>5, <1>6

\* Where an edge comes from: its source or the exit of the outermost loop it
\* leaves.
LEMMA FromCases ==
  ASSUME NEW t, NEW E, Dfs(t, E), NEW u \in 1 .. Len(t), NEW v \in 1 .. Len(t)
  PROVE  \/ LeftOf(t, E, u, v) = {} /\ From(t, E, u, v) = u
         \/ \E g \in LeftOf(t, E, u, v) :
              /\ From(t, E, u, v) = -g /\ g \in 1 .. Len(t) /\ HasBack(t, E, g) /\ g <= u
              /\ g \in Up(t, u) /\ u \in Comp(t, E, g) /\ v \notin Comp(t, E, g)
              /\ \A k \in LeftOf(t, E, u, v) : g <= k
<1>1. ASSUME NEW g \in LeftOf(t, E, u, v)
      PROVE  /\ g \in 1 .. Len(t) /\ HasBack(t, E, g) /\ g <= u
             /\ g \in Up(t, u) /\ u \in Comp(t, E, g) /\ v \notin Comp(t, E, g)
  <2>1. g \in 1 .. Len(t) /\ HasBack(t, E, g) /\ u \in Comp(t, E, g) /\ v \notin Comp(t, E, g)
    BY DEF LeftOf
  <2> QED
    BY <2>1, CompFacts
<1>2. CASE LeftOf(t, E, u, v) = {}
  BY <1>2, FromFacts
<1>3. CASE LeftOf(t, E, u, v) # {}
  <2>1. PICK g \in LeftOf(t, E, u, v) : From(t, E, u, v) = -g /\ \A k \in LeftOf(t, E, u, v) : g <= k
    BY <1>3, FromFacts
  <2> QED
    BY <1>1, <2>1
<1> QED
  BY <1>2, <1>3

\* An edge inside of a loop comes from inside, but not from its exit.
LEMMA FromInside ==
  ASSUME NEW t, NEW E, Dfs(t, E), NEW h \in 1 .. Len(t), NEW u \in Comp(t, E, h), NEW v \in Comp(t, E, h)
  PROVE  From(t, E, u, v) \in Elements(t, E, h) /\ From(t, E, u, v) # -h
<1>1. u \in 1 .. Len(t) /\ v \in 1 .. Len(t)
  BY CompFacts
<1>2. CASE From(t, E, u, v) = u
  <2>1. u # -h
    BY <1>1
  <2> QED
    BY <1>1, <1>2, <2>1, ElementCases
<1>3. CASE From(t, E, u, v) # u
  <2>1. PICK g \in LeftOf(t, E, u, v) :
          /\ From(t, E, u, v) = -g /\ g \in 1 .. Len(t) /\ HasBack(t, E, g)
          /\ u \in Comp(t, E, g) /\ v \notin Comp(t, E, g)
    BY <1>1, <1>3, FromCases
  <2>2. ~(g <= h)
    <3>1. ASSUME g <= h  PROVE FALSE
      <4>1. Comp(t, E, h) \subseteq Comp(t, E, g)
        BY <2>1, <3>1, CompNested
      <4> QED
        BY <2>1, <4>1
    <3> QED
      BY <3>1
  <2>3. h <= g /\ g # h
    BY <2>1, <2>2
  <2>4. g \in Comp(t, E, h)
    BY <2>1, <2>3, CompNested
  <2>5. -g \in Elements(t, E, h)
    BY <2>1, <2>4, ElementCases
  <2>6. -g # -h
    BY <2>1, <2>3
  <2> QED
    BY <2>1, <2>5, <2>6
<1> QED
  BY <1>2, <1>3

\* An edge from outside of a loop does not come from an element of it.
LEMMA FromOutside ==
  ASSUME NEW t, NEW E, Dfs(t, E), NEW h \in 1 .. Len(t), NEW u \in 1 .. Len(t), NEW v \in 1 .. Len(t),
         u \notin Comp(t, E, h)
  PROVE  From(t, E, u, v) \notin Elements(t, E, h)
<1>1. CASE From(t, E, u, v) = u
  BY <1>1, ElementCases
<1>2. CASE From(t, E, u, v) # u
  <2>1. PICK g \in 1 .. Len(t) : From(t, E, u, v) = -g /\ u \in Comp(t, E, g)
    BY <1>2, FromCases
  <2>2. ASSUME g \in Comp(t, E, h)  PROVE FALSE
    BY <2>1, <2>2, CompInside
  <2> QED
    BY <2>1, <2>2, ElementCases
<1> QED
  BY <1>1, <1>2

\* What leaves a loop from an element of it leaves from its exit.
LEMMA FromLeaves ==
  ASSUME NEW t, NEW E, Dfs(t, E), NEW h \in 1 .. Len(t), HasBack(t, E, h), NEW u \in 1 .. Len(t), NEW v \in 1 .. Len(t),
         v \notin Comp(t, E, h), From(t, E, u, v) \in Elements(t, E, h)
  PROVE  From(t, E, u, v) = -h
<1>1. u \in Comp(t, E, h)
  BY FromOutside
<1>2. h \in LeftOf(t, E, u, v)
  BY <1>1 DEF LeftOf
<1>3. PICK g \in LeftOf(t, E, u, v) :
        From(t, E, u, v) = -g /\ g \in 1 .. Len(t) /\ \A k \in LeftOf(t, E, u, v) : g <= k
  BY <1>2, FromCases
<1>4. g <= h
  BY <1>2, <1>3
<1>5. g \in Comp(t, E, h)
  BY <1>3, ElementCases
<1>6. h <= g
  BY <1>5, CompFacts
<1> QED
  BY <1>3, <1>4, <1>6

AllElements(t, E) == ElementsAbove(t, E, 0)

\* Vertices are positive and exits negative.
LEMMA AllElementsAre ==
  ASSUME NEW t, NEW E, NEW x
  PROVE  /\ x \in AllElements(t, E) <=>
              \/ x \in 1 .. Len(t)
              \/ \E w \in 1 .. Len(t) : HasBack(t, E, w) /\ x = -w
         /\ \A w \in 1 .. Len(t) : w \in AllElements(t, E)
         /\ \A w \in 1 .. Len(t) : -w \in AllElements(t, E) <=> HasBack(t, E, w)
<1>1. x \in AllElements(t, E) <=>
              \/ x \in 1 .. Len(t)
              \/ \E w \in 1 .. Len(t) : HasBack(t, E, w) /\ x = -w
  BY DEF AllElements, ElementsAbove
<1>2. \A w \in 1 .. Len(t) : w \in AllElements(t, E)
  BY DEF AllElements, ElementsAbove
<1>3. ASSUME NEW w \in 1 .. Len(t)
      PROVE  -w \in AllElements(t, E) <=> HasBack(t, E, w)
  <2>1. ASSUME NEW y \in 1 .. Len(t)  PROVE -w # y /\ (-w = -y => w = y)
    OBVIOUS
  <2> QED
    BY <2>1 DEF AllElements, ElementsAbove
<1> QED
  BY <1>1, <1>2, <1>3

\* A vertex other than the root is found through an edge.
LEMMA TreeEdge ==
  ASSUME NEW t, NEW E, Dfs(t, E), NEW v \in 1 .. Len(t), v # 1
  PROVE  /\ t[v] \in 1 .. Len(t) /\ t[v] < v /\ <<t[v], v>> \in E /\ <<t[v], v>> \in TreeOrCross(t, E)
         /\ Up(t, v) = {v} \cup Up(t, t[v]) /\ t[v] \in Up(t, v)
<1>1. t[v] # 0 /\ <<t[v], v>> \in E /\ IsTree(t)
  BY DEF Dfs
<1>2. t[v] < v /\ Up(t, v) = {v} \cup Up(t, t[v]) /\ t[v] \in Nat
  BY <1>1, UpStep
<1>3. t[v] \in 1 .. Len(t)
  BY <1>1, EdgesAreIn
<1>4. t[v] \in Up(t, v)
  BY <1>2, UpSelf
<1> DEFINE e == <<t[v], v>>
<1>5. e \in E /\ e[1] = t[v] /\ e[2] = v
  BY <1>1
<1> HIDE DEF e
<1>6. e \in TreeOrCross(t, E)
  BY <1>5 DEF TreeOrCross
<1> QED
  BY <1>1, <1>2, <1>3, <1>4, <1>6 DEF e

\* The exit of a loop waits for something.
LEMMA SomeClosing ==
  ASSUME NEW t, NEW E, Dfs(t, E), NEW h \in 1 .. Len(t), HasBack(t, E, h)
  PROVE  \E u \in Comp(t, E, h) : <<u, h>> \in Closings(t, E)
<1> DEFINE Back(e) == e \in E /\ e[2] = h /\ h \in Up(t, e[1])
<1>1. ASSUME NEW e, Back(e)  PROVE e = <<e[1], h>> /\ e[1] \in Comp(t, E, h)
  <2>1. e = <<e[1], h>> /\ e[1] \in 1 .. Len(t)
    BY <1>1 DEF Dfs
  <2>2. h \in Comp(t, E, h)
    BY CompSelf
  <2> QED
    BY <1>1, <2>1, <2>2, CompBack
<1>2. CASE \E e : Back(e) /\ e[1] # h
  <2>1. PICK e : Back(e) /\ e[1] # h
    BY <1>2
  <2>2. e \in Closings(t, E)
    BY <2>1 DEF Closings
  <2> QED
    BY <1>1, <2>1, <2>2
<1>3. CASE ~ \E e : Back(e) /\ e[1] # h
  <2>1. PICK e : Back(e)
    BY DEF HasBack
  <2>2. e \in Closings(t, E)
    BY <1>3, <2>1 DEF Closings
  <2> QED
    BY <1>1, <2>1, <2>2
<1> QED
  BY <1>2, <1>3

\* Back edges are inside of the loops they close.
LEMMA ClosingIn ==
  ASSUME NEW t, NEW E, Dfs(t, E), NEW u, NEW h, <<u, h>> \in Closings(t, E)
  PROVE  /\ u \in 1 .. Len(t) /\ h \in 1 .. Len(t) /\ <<u, h>> \in E /\ h \in Up(t, u) /\ HasBack(t, E, h)
         /\ u \in Comp(t, E, h)
<1> DEFINE e == <<u, h>>
<1>1. e \in E /\ e[1] = u /\ e[2] = h /\ e[2] \in Up(t, e[1])
  BY DEF Closings
<1>2. u \in 1 .. Len(t) /\ h \in 1 .. Len(t)
  BY <1>1, EdgesAreIn
<1> HIDE DEF e
<1>3. HasBack(t, E, h) /\ h \in Up(t, u)
  BY <1>1 DEF HasBack
<1>4. u \in Comp(t, E, h)
  BY <1>1, <1>2, <1>3, CompSelf, CompBack DEF e
<1> QED
  BY <1>1, <1>2, <1>3, <1>4 DEF e

\* What is waited for is an element.
LEMMA FromIsElement ==
  ASSUME NEW t, NEW E, Dfs(t, E), NEW u \in 1 .. Len(t), NEW v \in 1 .. Len(t)
  PROVE  From(t, E, u, v) \in AllElements(t, E)
<1>1. CASE From(t, E, u, v) = u
  BY <1>1, AllElementsAre
<1>2. CASE From(t, E, u, v) # u
  <2>1. PICK g \in 1 .. Len(t) : From(t, E, u, v) = -g /\ HasBack(t, E, g)
    BY <1>2, FromCases
  <2> QED
    BY <2>1, AllElementsAre
<1> QED
  BY <1>1, <1>2

\* The root waits for nothing and everything else for something.
LEMMA OnlyRootStarts ==
  ASSUME NEW t, NEW E, Dfs(t, E)
  PROVE  /\ 1 \in AllElements(t, E) /\ \A x : <<x, 1>> \notin AllSucc(t, E)
         /\ \A y \in AllElements(t, E) : y # 1 => \E x \in AllElements(t, E) : <<x, y>> \in AllSucc(t, E)
<1>1. 1 \in 1 .. Len(t)
  BY DEF Dfs, IsTree
<1>2. ASSUME NEW x, <<x, 1>> \in AllSucc(t, E)  PROVE FALSE
  <2>1. PICK u \in 1 .. Len(t) : <<u, 1>> \in TreeOrCross(t, E)
    BY <1>1, <1>2, ConstraintsAre
  <2>2. 1 \notin Up(t, u)
    BY <2>1, EdgesAreIn DEF TreeOrCross
  <2> QED
    BY <2>2, RootIsAbove
<1>3. ASSUME NEW y \in AllElements(t, E), y # 1
      PROVE  \E x \in AllElements(t, E) : <<x, y>> \in AllSucc(t, E)
  <2>1. CASE y \in 1 .. Len(t)
    <3>1. t[y] \in 1 .. Len(t) /\ <<t[y], y>> \in TreeOrCross(t, E)
      BY <1>3, <2>1, TreeEdge
    <3>2. <<From(t, E, t[y], y), y>> \in AllSucc(t, E)
      BY <2>1, <3>1, ConstraintsAre
    <3> QED
      BY <2>1, <3>1, <3>2, FromIsElement
  <2>2. CASE \E w \in 1 .. Len(t) : HasBack(t, E, w) /\ y = -w
    <3>1. PICK w \in 1 .. Len(t) : HasBack(t, E, w) /\ y = -w
      BY <2>2
    <3>2. PICK u \in Comp(t, E, w) : <<u, w>> \in Closings(t, E)
      BY <3>1, SomeClosing
    <3>3. u \in 1 .. Len(t)
      BY CompFacts
    <3>4. <<From(t, E, u, w), -w>> \in AllSucc(t, E)
      BY <3>2, <3>3, ConstraintsAre
    <3> QED
      BY <3>1, <3>3, <3>4, FromIsElement
  <2> QED
    BY <2>1, <2>2, AllElementsAre
<1> QED
  BY <1>1, <1>2, <1>3, AllElementsAre

\* The same of the head of a loop and the other elements of it.
LEMMA OnlyHeadStarts ==
  ASSUME NEW t, NEW E, Dfs(t, E), NEW h \in 1 .. Len(t)
  PROVE  /\ h \in Elements(t, E, h) /\ \A x \in Elements(t, E, h) : <<x, h>> \notin AllSucc(t, E)
         /\ \A y \in Elements(t, E, h) : y # h => \E x \in Elements(t, E, h) : <<x, y>> \in AllSucc(t, E)
<1>1. h \in Comp(t, E, h)
  BY CompSelf
<1>2. ASSUME NEW x \in Elements(t, E, h), <<x, h>> \in AllSucc(t, E)  PROVE FALSE
  <2>1. PICK u \in 1 .. Len(t) : <<u, h>> \in TreeOrCross(t, E) /\ x = From(t, E, u, h)
    BY <1>2, ConstraintsAre
  <2>2. h \notin Up(t, u)
    BY <2>1, EdgesAreIn DEF TreeOrCross
  <2>3. u \notin Comp(t, E, h)
    BY <2>2, CompFacts
  <2> QED
    BY <1>2, <2>1, <2>3, FromOutside
<1>3. ASSUME NEW y \in Elements(t, E, h), y # h
      PROVE  \E x \in Elements(t, E, h) : <<x, y>> \in AllSucc(t, E)
  <2>1. CASE y \in Comp(t, E, h)
    <3>1. y \in 1 .. Len(t) /\ h \in Up(t, y) /\ h <= y /\ y # 1
      BY <1>3, <2>1, CompFacts
    <3>2. t[y] \in 1 .. Len(t) /\ <<t[y], y>> \in TreeOrCross(t, E) /\ Up(t, y) = {y} \cup Up(t, t[y]) /\ t[y] \in Up(t, y)
      BY <3>1, TreeEdge
    <3>3. h \in Up(t, t[y])
      BY <1>3, <3>1, <3>2
    <3>4. h <= t[y]
      BY <3>2, <3>3, UpSelf
    <3>5. t[y] \in Comp(t, E, h)
      BY <2>1, <3>2, <3>4, CompUp
    <3>6. <<From(t, E, t[y], y), y>> \in AllSucc(t, E)
      BY <3>1, <3>2, ConstraintsAre
    <3> QED
      BY <2>1, <3>5, <3>6, FromInside
  <2>2. CASE \E w \in Comp(t, E, h) : HasBack(t, E, w) /\ y = -w
    <3>1. PICK w \in Comp(t, E, h) : HasBack(t, E, w) /\ y = -w
      BY <2>2
    <3>2. w \in 1 .. Len(t)
      BY CompFacts
    <3>3. PICK u \in Comp(t, E, w) : <<u, w>> \in Closings(t, E)
      BY <3>1, <3>2, SomeClosing
    <3>4. u \in 1 .. Len(t) /\ u \in Comp(t, E, h)
      BY <3>2, CompFacts, CompInside
    <3>5. <<From(t, E, u, w), -w>> \in AllSucc(t, E)
      BY <3>2, <3>3, <3>4, ConstraintsAre
    <3> QED
      BY <3>1, <3>4, <3>5, FromInside
  <2> QED
    BY <2>1, <2>2, ElementCases
<1> QED
  BY <1>1, <1>2, <1>3, ElementCases

\* Nothing outside of a loop waits for anything in it but the exit.
LEMMA LeftByExit ==
  ASSUME NEW t, NEW E, Dfs(t, E), NEW h \in 1 .. Len(t), HasBack(t, E, h),
         NEW x \in Elements(t, E, h), NEW y \in AllElements(t, E), y \notin Elements(t, E, h), <<x, y>> \in AllSucc(t, E)
  PROVE  x = -h
<1>1. CASE y \in 1 .. Len(t)
  <2>1. PICK u \in 1 .. Len(t) : <<u, y>> \in TreeOrCross(t, E) /\ x = From(t, E, u, y)
    BY <1>1, ConstraintsAre
  <2>2. y \notin Comp(t, E, h)
    BY <1>1, ElementCases
  <2> QED
    BY <1>1, <2>1, <2>2, FromLeaves
<1>2. CASE \E w \in 1 .. Len(t) : HasBack(t, E, w) /\ y = -w
  <2>1. PICK w \in 1 .. Len(t) : HasBack(t, E, w) /\ y = -w
    BY <1>2
  <2>2. PICK u \in 1 .. Len(t) : <<u, w>> \in Closings(t, E) /\ x = From(t, E, u, w)
    BY <2>1, ConstraintsAre
  <2>3. w \notin Comp(t, E, h)
    BY <2>1, ElementCases
  <2> QED
    BY <2>2, <2>3, FromLeaves
<1> QED
  BY <1>1, <1>2, AllElementsAre

\* The elements of a loop are elements.
LEMMA LoopElementsAreElements ==
  ASSUME NEW t, NEW E, Dfs(t, E), NEW h \in 1 .. Len(t)
  PROVE  Elements(t, E, h) \subseteq AllElements(t, E)
<1>1. ASSUME NEW y \in Elements(t, E, h)  PROVE y \in AllElements(t, E)
  <2>1. CASE y \in Comp(t, E, h)
    <3>1. y \in 1 .. Len(t)
      BY <2>1, CompFacts
    <3> QED
      BY <3>1, AllElementsAre
  <2>2. CASE \E w \in Comp(t, E, h) : HasBack(t, E, w) /\ y = -w
    <3>1. PICK w \in Comp(t, E, h) : HasBack(t, E, w) /\ y = -w
      BY <2>2
    <3>2. w \in 1 .. Len(t)
      BY CompFacts
    <3> QED
      BY <3>1, <3>2, AllElementsAre
  <2> QED
    BY <2>1, <2>2, ElementCases
<1> QED
  BY <1>1

\* D has all its members wait for.
Waits(t, E, D) == \A x, y : y \in D /\ <<x, y>> \in AllSucc(t, E) => x \in D

\* The members of the loop of h such that all of each loop around them and
\* inside it is in D.
DoneIn(t, E, h, D) ==
  {h} \cup {b \in Comp(t, E, h) : \A g \in 1 .. Len(t) : h < g /\ b \in Comp(t, E, g) => Elements(t, E, g) \subseteq D}

\* What leads to one by an edge whose constraint is in D is another.
LEMMA DoneStep ==
  ASSUME NEW t, NEW E, Dfs(t, E), NEW h \in 1 .. Len(t), NEW D,
         \A k \in 1 .. Len(t) : h < k /\ HasBack(t, E, k) /\ -k \in D => Elements(t, E, k) \subseteq D,
         NEW b \in DoneIn(t, E, h, D), NEW a \in Comp(t, E, h), From(t, E, a, b) \in D
  PROVE  a \in DoneIn(t, E, h, D)
<1>1. b \in Comp(t, E, h) /\ b \in 1 .. Len(t) /\ a \in 1 .. Len(t) /\ h <= b
  BY CompSelf, CompFacts DEF DoneIn
<1>2. ASSUME NEW g \in 1 .. Len(t), h < g, a \in Comp(t, E, g)  PROVE Elements(t, E, g) \subseteq D
  <2>1. CASE b \in Comp(t, E, g)
    <3>1. g <= b
      BY <2>1, CompFacts
    <3>2. b # h
      BY <1>2, <3>1
    <3> QED
      BY <1>2, <2>1, <3>2 DEF DoneIn
  <2>2. CASE b \notin Comp(t, E, g)
    <3>1. CASE LeftOf(t, E, a, b) = {}
      <4>1. ~HasBack(t, E, g)
        BY <1>2, <2>2, <3>1 DEF LeftOf
      <4>2. a = g /\ Elements(t, E, g) = {g}
        BY <1>2, <4>1, CompOfPlain, ElementsOfPlain
      <4>3. From(t, E, a, b) = a
        BY <3>1 DEF From
      <4> QED
        BY <4>2, <4>3
    <3>2. CASE LeftOf(t, E, a, b) # {}
      <4>1. PICK k \in LeftOf(t, E, a, b) :
              /\ From(t, E, a, b) = -k /\ k \in 1 .. Len(t) /\ HasBack(t, E, k)
              /\ a \in Comp(t, E, k) /\ b \notin Comp(t, E, k)
              /\ \A j \in LeftOf(t, E, a, b) : k <= j
        BY <1>1, <3>2, FromCases
      <4>2. ~(k <= h)
        <5>1. ASSUME k <= h  PROVE FALSE
          <6>1. Comp(t, E, h) \subseteq Comp(t, E, k)
            BY <4>1, <5>1, CompNested
          <6> QED
            BY <1>1, <4>1, <6>1
        <5> QED
          BY <5>1
      <4>3. h < k
        BY <4>1, <4>2
      <4>4. Elements(t, E, k) \subseteq D
        BY <4>1, <4>3
      <4>5. CASE HasBack(t, E, g)
        <5>1. g \in LeftOf(t, E, a, b)
          BY <1>2, <2>2, <4>5 DEF LeftOf
        <5>2. k <= g
          BY <4>1, <5>1
        <5>3. Comp(t, E, g) \subseteq Comp(t, E, k)
          BY <1>2, <4>1, <5>2, CompNested
        <5>4. Elements(t, E, g) \subseteq Elements(t, E, k)
          BY <5>3 DEF Elements
        <5> QED
          BY <4>4, <5>4
      <4>6. CASE ~HasBack(t, E, g)
        <5>1. a = g /\ Elements(t, E, g) = {g}
          BY <1>2, <4>6, CompOfPlain, ElementsOfPlain
        <5>2. a \in Elements(t, E, k)
          BY <4>1 DEF Elements
        <5> QED
          BY <4>4, <5>1, <5>2
      <4> QED
        BY <4>5, <4>6
    <3> QED
      BY <3>1, <3>2
  <2> QED
    BY <2>1, <2>2
<1> QED
  BY <1>2 DEF DoneIn

\* If the exit of h is in D and the exits inside have their loops in D, all of the
\* loop of h is in D: what is done on the way back from the exit is the loop.
LEMMA DoneIsLoop ==
  ASSUME NEW t, NEW E, Dfs(t, E), NEW h \in 1 .. Len(t), HasBack(t, E, h), NEW D, Waits(t, E, D), -h \in D,
         \A k \in 1 .. Len(t) : h < k /\ HasBack(t, E, k) /\ -k \in D => Elements(t, E, k) \subseteq D
  PROVE  Elements(t, E, h) \subseteq D
<1> DEFINE V == 1 .. Len(t)
           C == Comp(t, E, h)
           T == DoneIn(t, E, h, D)
<1>1. T \subseteq C /\ C \in SUBSET V /\ h \in T /\ IsTree(t) /\ Len(t) \in Nat
  BY CompSelf DEF DoneIn, Dfs, IsTree
<1>2. ASSUME NEW b \in T, b # h
      PROVE  /\ h < b /\ b \in D /\ (HasBack(t, E, b) => -b \in D)
  <2>1. b \in V /\ h <= b /\ b \in Comp(t, E, b)
    BY <1>1, CompFacts, CompSelf
  <2>2. h < b
    BY <1>2, <2>1
  <2>3. Elements(t, E, b) \subseteq D
    BY <1>2, <2>1, <2>2 DEF DoneIn
  <2> QED
    BY <2>1, <2>2, <2>3, ElementCases
<1>3. ASSUME NEW b \in T, NEW a \in C, From(t, E, a, b) \in D  PROVE a \in T
  BY <1>3, DoneStep
<1>4. ASSUME NEW b \in T, b # h  PROVE t[b] \in T
  <2>1. b \in C /\ b \in V /\ h < b /\ b \in D
    BY <1>1, <1>2, <1>4
  <2>2. h \in Up(t, b)
    BY <2>1, CompFacts
  <2>3. /\ t[b] \in V /\ <<t[b], b>> \in TreeOrCross(t, E)
        /\ Up(t, b) = {b} \cup Up(t, t[b]) /\ t[b] \in Up(t, b)
    BY <2>1, TreeEdge
  <2>4. h \in Up(t, t[b])
    BY <1>4, <2>2, <2>3
  <2>5. h <= t[b]
    BY <2>3, <2>4, UpSelf
  <2>6. t[b] \in C
    BY <2>1, <2>3, <2>5, CompUp
  <2>7. From(t, E, t[b], b) \in D
    BY <2>1, <2>3, ConstraintsAre DEF Waits
  <2> QED
    BY <1>3, <2>6, <2>7
<1>5. ASSUME NEW b \in T, NEW a \in V, a \in Up(t, b), h <= a  PROVE a \in T
  <2> DEFINE S == T \cup {x \in Nat : x < h}
  <2>1. S \in SUBSET Nat /\ b \in S
    BY <1>1
  <2>2. ASSUME NEW w \in S, w \in V  PROVE t[w] \in S
    <3>1. t[w] \in Nat /\ t[w] < w
      BY <1>1, <2>2, UpStep
    <3>2. CASE w \in T /\ w # h
      BY <1>4, <3>2
    <3>3. CASE ~(w \in T /\ w # h)
      <4>1. w <= h
        BY <2>2, <3>3
      <4>2. t[w] < h
        BY <2>2, <3>1, <4>1
      <4> HIDE DEF T
      <4> QED
        BY <3>1, <4>2
    <3> QED
      BY <3>2, <3>3
  <2>3. UpClosed(t, S)
    BY <2>2 DEF UpClosed
  <2> HIDE DEF S
  <2>4. Up(t, b) \subseteq S
    BY <2>1, <2>3, UpIn
  <2>5. a \in S
    BY <1>5, <2>4
  <2> QED
    BY <1>5, <2>5 DEF S
<1>6. ASSUME NEW e \in E, e[2] \in T, h \in Up(t, e[1])  PROVE e[1] \in T
  <2> DEFINE a == e[1]
             b == e[2]
  <2>1. e = <<a, b>> /\ a \in V /\ b \in V
    BY DEF Dfs
  <2>2. b \in T /\ b \in C /\ h \in Up(t, a)
    BY <1>1, <1>6
  <2>3. e[1] = a
    OBVIOUS
  <2> HIDE DEF a, b, T
  <2>4. a \in C /\ h <= a
    BY <2>1, <2>2, CompBack, CompFacts
  <2>5. CASE a = b \/ a = h
    BY <1>1, <2>2, <2>5, <2>3
  <2>6. CASE a # b /\ a # h /\ b \in Up(t, a)
    <3>1. <<a, b>> \in Closings(t, E)
      BY <2>1, <2>6 DEF Closings, a, b
    <3>2. HasBack(t, E, b)
      BY <3>1, ClosingIn
    <3>3. -b \in D
      BY <1>2, <2>2, <3>2
    <3>4. From(t, E, a, b) \in D
      BY <2>1, <3>1, <3>3, ConstraintsAre DEF Waits
    <3> QED
      BY <1>3, <2>2, <2>4, <2>3, <3>4
  <2>7. CASE a # b /\ b \notin Up(t, a)
    <3>1. b # h
      BY <2>2, <2>7
    <3>2. CASE a < b
      <4>1. a \in Up(t, b)
        BY <2>1, <3>2, EdgesAreIn
      <4> QED
        BY <1>5, <2>1, <2>2, <2>4, <2>3, <4>1
    <3>3. CASE b < a
      <4>1. <<a, b>> \in TreeOrCross(t, E)
        BY <2>1, <2>7, <3>3 DEF TreeOrCross, a, b
      <4>2. From(t, E, a, b) \in D
        BY <1>2, <2>1, <2>2, <3>1, <4>1, ConstraintsAre DEF Waits
      <4> QED
        BY <1>3, <2>2, <2>4, <2>3, <4>2
    <3> QED
      BY <2>1, <2>7, <3>2, <3>3
  <2> QED
    BY <2>5, <2>6, <2>7, <2>3
<1>7. T = C
  <2>1. BackClosed(t, E, h, T)
    BY <1>6 DEF BackClosed
  <2>2. T \in SUBSET (1 .. Len(t)) /\ h \in T
    BY <1>1
  <2> HIDE DEF T
  <2> QED
    BY <1>1, <2>1, <2>2, CompIn
<1>8. h \in D
  <2>1. CASE C = {h}
    <3>1. PICK u \in C : <<u, h>> \in Closings(t, E)
      BY SomeClosing
    <3>2. u = h
      BY <2>1
    <3>3. From(t, E, h, h) \in D
      BY <3>1, <3>2, ConstraintsAre DEF Waits
    <3>4. From(t, E, h, h) = h
      <4>1. LeftOf(t, E, h, h) = {}
        BY DEF LeftOf
      <4> QED
        BY <4>1 DEF From
    <3> QED
      BY <3>3, <3>4
  <2>2. CASE C # {h}
    <3> DEFINE B == C \ {h}
    <3>1. B \subseteq Nat /\ B # {}
      BY <1>1, <1>7, <2>2
    <3> HIDE DEF B
    <3>2. PICK b \in B : \A k \in B : b <= k
      BY <3>1, LeastNat, Zenon
    <3> USE DEF B
    <3>3. b \in T /\ b # h /\ t[b] \in T /\ b \in V /\ b \in D /\ h < b
      BY <1>1, <1>2, <1>4, <1>7, <3>2
    <3>4. t[b] < b /\ t[b] \in V /\ <<t[b], b>> \in TreeOrCross(t, E)
      BY <3>3, TreeEdge
    <3>5. t[b] = h
      BY <1>1, <3>2, <3>3, <3>4
    <3>6. From(t, E, h, b) \in D
      BY <3>3, <3>4, <3>5, ConstraintsAre DEF Waits
    <3>7. LeftOf(t, E, h, b) = {}
      <4>1. ASSUME NEW g \in LeftOf(t, E, h, b)  PROVE FALSE
        <5>1. g \in V /\ h \in Comp(t, E, g) /\ b \notin Comp(t, E, g)
          BY DEF LeftOf
        <5>2. Comp(t, E, h) \subseteq Comp(t, E, g)
          BY <5>1, CompInside
        <5> QED
          BY <1>1, <3>3, <5>1, <5>2
      <4> QED
        BY <4>1
    <3> QED
      BY <3>6, <3>7 DEF From
  <2> QED
    BY <2>1, <2>2
<1>9. ASSUME NEW x \in Elements(t, E, h)  PROVE x \in D
  <2>1. CASE x \in C
    BY <1>2, <1>7, <1>8, <2>1
  <2>2. CASE \E w \in C : HasBack(t, E, w) /\ x = -w
    BY <1>2, <1>7, <2>2
  <2> QED
    BY <2>1, <2>2, ElementCases
<1> QED
  BY <1>9

\* All of a loop comes before its exit.
LEMMA LoopBeforeExit ==
  ASSUME NEW t, NEW E, Dfs(t, E), NEW D, Waits(t, E, D),
         NEW h \in 1 .. Len(t), HasBack(t, E, h), -h \in D
  PROVE  Elements(t, E, h) \subseteq D
<1> SUFFICES ASSUME ~(Elements(t, E, h) \subseteq D)  PROVE FALSE
  OBVIOUS
<1> DEFINE Bad == {k \in 1 .. Len(t) : HasBack(t, E, k) /\ -k \in D /\ ~(Elements(t, E, k) \subseteq D)}
<1>1. Len(t) \in Nat /\ Bad \subseteq 0 .. Len(t) /\ Bad # {}
  <2>1. Len(t) \in Nat
    BY DEF Dfs, IsTree
  <2>2. h \in Bad
    OBVIOUS
  <2>3. \A k \in Bad : k \in 0 .. Len(t)
    BY <2>1
  <2> QED
    BY <2>1, <2>2, <2>3
<1>2. PICK g \in Bad : \A k \in Bad : k <= g
  <2> HIDE DEF Bad
  <2> QED
    BY <1>1, GreatestNat, Zenon
<1>3. ASSUME NEW k \in 1 .. Len(t), g < k, HasBack(t, E, k), -k \in D  PROVE Elements(t, E, k) \subseteq D
  <2>1. ~(k <= g)
    BY <1>3
  <2>2. k \notin Bad
    BY <1>2, <2>1
  <2> QED
    BY <1>3, <2>2
<1>4. Elements(t, E, g) \subseteq D
  BY <1>2, <1>3, DoneIsLoop
<1> QED
  BY <1>2, <1>4

\* An edge down the tree waits for as much as one from further below.
LEMMA ForwardStep ==
  ASSUME NEW t, NEW E, Dfs(t, E), NEW D, Waits(t, E, D), NEW v \in 1 .. Len(t), v \in D,
         NEW w \in 1 .. Len(t), w \in Up(t, v), w # 1, w = v \/ From(t, E, w, v) \in D
  PROVE  From(t, E, t[w], v) \in D
<1> DEFINE p == t[w]
           V == 1 .. Len(t)
<1>1. /\ p \in V /\ p < w /\ <<p, w>> \in TreeOrCross(t, E) /\ Up(t, w) = {w} \cup Up(t, p) /\ p \in Up(t, w)
      /\ IsTree(t)
  BY TreeEdge DEF Dfs
<1>2. w \in D => From(t, E, p, w) \in D
  BY <1>1, ConstraintsAre DEF Waits
<1> HIDE DEF p
<1>3. ASSUME NEW k \in LeftOf(t, E, w, v), k # w
      PROVE  k \in LeftOf(t, E, p, v) /\ k \in V /\ k < w
  <2>1. k \in V /\ HasBack(t, E, k) /\ w \in Comp(t, E, k) /\ v \notin Comp(t, E, k)
    BY DEF LeftOf
  <2>2. k \in Up(t, w) /\ k <= w
    BY <2>1, CompFacts
  <2>3. k \in Up(t, p) /\ k <= p
    BY <1>1, <1>3, <2>2, UpSelf
  <2>4. p \in Comp(t, E, k)
    BY <1>1, <2>1, <2>3, CompUp
  <2> QED
    BY <1>1, <1>3, <2>1, <2>2, <2>4 DEF LeftOf
<1>4. CASE w = v
  BY <1>2, <1>4 DEF p
<1>5. CASE w # v /\ \E k \in LeftOf(t, E, w, v) : k # w
  <2>1. PICK k \in LeftOf(t, E, w, v) : k # w
    BY <1>5
  <2>2. PICK g \in LeftOf(t, E, w, v) :
          /\ From(t, E, w, v) = -g /\ g \in V /\ HasBack(t, E, g)
          /\ w \in Comp(t, E, g) /\ v \notin Comp(t, E, g)
          /\ \A j \in LeftOf(t, E, w, v) : g <= j
    BY <2>1, FromCases
  <2>3. g <= k /\ k \in V /\ k < w
    BY <1>3, <2>1, <2>2
  <2>4. g # w
    BY <2>2, <2>3
  <2>5. g \in LeftOf(t, E, p, v)
    BY <1>3, <2>2, <2>4
  <2>6. p \in Comp(t, E, g)
    BY <2>5 DEF LeftOf
  <2>7. PICK j \in LeftOf(t, E, p, v) :
          /\ From(t, E, p, v) = -j /\ j \in V /\ HasBack(t, E, j)
          /\ p \in Comp(t, E, j) /\ v \notin Comp(t, E, j)
          /\ \A i \in LeftOf(t, E, p, v) : j <= i
    BY <1>1, <2>5, FromCases
  <2>8. j <= g
    BY <2>5, <2>7
  <2>9. Comp(t, E, g) \subseteq Comp(t, E, j)
    BY <2>2, <2>6, <2>7, <2>8, CompNested
  <2>10. j \in LeftOf(t, E, w, v)
    BY <2>2, <2>7, <2>9 DEF LeftOf
  <2>11. g <= j
    BY <2>2, <2>10
  <2>12. g = j
    BY <2>2, <2>7, <2>8, <2>11
  <2> QED
    BY <1>5, <2>2, <2>7, <2>12 DEF p
<1>6. CASE w # v /\ \A k \in LeftOf(t, E, w, v) : k = w
  <2>1. w \in D
    <3>1. CASE LeftOf(t, E, w, v) = {}
      BY <1>6, <3>1 DEF From
    <3>2. CASE LeftOf(t, E, w, v) # {}
      <4>1. PICK g \in LeftOf(t, E, w, v) : From(t, E, w, v) = -g /\ HasBack(t, E, g)
        BY <3>2, FromCases
      <4>2. g = w
        BY <1>6
      <4>3. Elements(t, E, w) \subseteq D
        BY <1>6, <4>1, <4>2, LoopBeforeExit
      <4>4. w \in Elements(t, E, w)
        BY OnlyHeadStarts
      <4> QED
        BY <4>3, <4>4
    <3> QED
      BY <3>1, <3>2
  <2>2. ASSUME NEW g \in V, p \in Comp(t, E, g), HasBack(t, E, g)
        PROVE  v \in Comp(t, E, g) <=> w \in Comp(t, E, g)
    <3>1. g <= p
      BY <2>2, CompFacts
    <3>2. g <= w /\ g # w
      BY <1>1, <3>1
    <3>3. ASSUME v \in Comp(t, E, g)  PROVE w \in Comp(t, E, g)
      BY <3>2, <3>3, CompUp
    <3>4. ASSUME w \in Comp(t, E, g), v \notin Comp(t, E, g)  PROVE FALSE
      <4>1. g \in LeftOf(t, E, w, v)
        BY <2>2, <3>4 DEF LeftOf
      <4> QED
        BY <1>6, <3>2, <4>1
    <3> QED
      BY <3>3, <3>4
  <2>3. \A g : g \in LeftOf(t, E, p, v) <=> g \in LeftOf(t, E, p, w)
    BY <2>2 DEF LeftOf
  <2>4. LeftOf(t, E, p, v) = LeftOf(t, E, p, w)
    <3>1. LeftOf(t, E, p, v) \subseteq V /\ LeftOf(t, E, p, w) \subseteq V
      BY DEF LeftOf
    <3> QED
      BY <2>3
  <2>5. From(t, E, p, v) = From(t, E, p, w)
    BY <2>4 DEF From
  <2> QED
    BY <1>2, <2>1, <2>5 DEF p
<1> QED
  BY <1>4, <1>5, <1>6

\* Nothing is before what it depends on.
LEMMA EdgeIsBefore ==
  ASSUME NEW t, NEW E, Dfs(t, E), NEW D, Waits(t, E, D), NEW u, NEW v, <<u, v>> \in E, v \notin Up(t, u), v \in D
  PROVE  From(t, E, u, v) \in D
<1> DEFINE V == 1 .. Len(t)
<1>1. u \in V /\ v \in V /\ (u < v => u \in Up(t, v)) /\ IsTree(t)
  BY EdgesAreIn DEF Dfs
<1>2. u # v
  BY <1>1, UpSelf
<1>3. CASE v < u
  <2> DEFINE e == <<u, v>>
  <2>1. e \in E /\ e[1] = u /\ e[2] = v
    OBVIOUS
  <2> HIDE DEF e
  <2>2. e \in TreeOrCross(t, E)
    BY <1>3, <2>1 DEF TreeOrCross
  <2>3. <<From(t, E, u, v), v>> \in AllSucc(t, E)
    BY <1>1, <2>2, ConstraintsAre DEF e
  <2> QED
    BY <2>3 DEF Waits
<1>4. CASE u < v
  <2> DEFINE S == {0, v} \cup {w \in V : w \in Up(t, v) /\ From(t, E, w, v) \in D}
  <2>1. S \in SUBSET Nat /\ v \in S /\ 0 \notin V
    BY <1>1
  <2>2. ASSUME NEW w \in S, w \in V  PROVE t[w] \in S
    <3>1. w \in Up(t, v) /\ (w = v \/ From(t, E, w, v) \in D)
      BY <1>1, <2>1, <2>2, UpSelf
    <3>2. CASE w = 1
      <4>1. t[1] = 0
        BY <1>1, <2>2, <3>2 DEF Dfs
      <4> QED
        BY <3>2, <4>1
    <3>3. CASE w # 1
      <4>1. From(t, E, t[w], v) \in D
        BY <1>1, <2>2, <3>1, <3>3, ForwardStep
      <4>2. t[w] \in V /\ t[w] \in Up(t, w)
        BY <2>2, <3>3, TreeEdge
      <4>3. t[w] \in Up(t, v)
        BY <1>1, <3>1, <4>2, UpTrans
      <4> QED
        BY <4>1, <4>2, <4>3
    <3> QED
      BY <3>2, <3>3
  <2>3. UpClosed(t, S)
    BY <2>2 DEF UpClosed
  <2> HIDE DEF S
  <2>4. Up(t, v) \subseteq S
    BY <2>1, <2>3, UpIn
  <2>5. u \in S /\ u # 0
    BY <1>1, <1>4, <2>4
  <2> QED
    BY <1>2, <2>5 DEF S
<1> QED
  BY <1>1, <1>2, <1>3, <1>4
-----------------------------------------------------------------------------
(***************************************************************************)
(* The constraints have no cycle.                                          *)
(***************************************************************************)
\* The order in which a search finishes.
PostOrder(t, q) ==
  /\ \A v \in 1 .. Len(t) : q[v] \in Nat
  /\ \A v, w \in 1 .. Len(t) : v < w => IF v \in Up(t, w) THEN q[w] < q[v] ELSE q[v] < q[w]

\* What a vertex descends from is finished after it.
LEMMA PostOfUp ==
  ASSUME NEW t, IsTree(t), NEW q, PostOrder(t, q), NEW v \in 1 .. Len(t), NEW a \in Up(t, v), a \in 1 .. Len(t)
  PROVE  q[v] <= q[a]
<1>1. a <= v /\ a \in Nat /\ v \in Nat
  BY UpSelf
<1>2. q[v] \in Nat /\ q[a] \in Nat /\ (a < v => q[v] < q[a])
  BY DEF PostOrder
<1>3. CASE a = v
  BY <1>2, <1>3
<1>4. CASE a < v
  BY <1>2, <1>4
<1> QED
  BY <1>1, <1>3, <1>4

\* Where an edge comes from is not finished before its source.
LEMMA PostOfFrom ==
  ASSUME NEW t, NEW E, Dfs(t, E), NEW q, PostOrder(t, q), NEW u \in 1 .. Len(t), NEW v \in 1 .. Len(t)
  PROVE  \E w \in 1 .. Len(t) : (From(t, E, u, v) = w \/ From(t, E, u, v) = -w) /\ q[u] <= q[w]
<1>1. CASE From(t, E, u, v) = u
  BY <1>1 DEF PostOrder
<1>2. CASE From(t, E, u, v) # u
  <2>1. PICK g \in 1 .. Len(t) : From(t, E, u, v) = -g /\ g \in Up(t, u)
    BY <1>2, FromCases
  <2>2. q[u] <= q[g]
    BY <2>1, PostOfUp DEF Dfs
  <2> QED
    BY <2>1, <2>2
<1> QED
  BY <1>1, <1>2

\* What a vertex waits for is finished after it.
LEMMA PostOfSource ==
  ASSUME NEW t, NEW E, Dfs(t, E), NEW q, PostOrder(t, q), NEW u, NEW v, <<u, v>> \in TreeOrCross(t, E)
  PROVE  u \in 1 .. Len(t) /\ v \in 1 .. Len(t) /\ q[v] < q[u]
<1>1. <<u, v>> \in E
  BY DEF TreeOrCross
<1>2. /\ u \in 1 .. Len(t) /\ v \in 1 .. Len(t)
      /\ u < v => u \in Up(t, v)
      /\ u # v /\ v \notin Up(t, u)
  BY <1>1, EdgesAreIn
<1>3. CASE u < v
  BY <1>2, <1>3 DEF PostOrder
<1>4. CASE v < u
  BY <1>2, <1>4 DEF PostOrder
<1> QED
  BY <1>2, <1>3, <1>4

\* An edge that enters a loop other than at its head comes from what is
\* finished after the head.
LEMMA PostOfEntering ==
  ASSUME NEW t, NEW E, Dfs(t, E), NEW q, PostOrder(t, q), NEW h \in 1 .. Len(t), NEW b \in Comp(t, E, h),
         NEW u, u \notin Comp(t, E, h), <<u, b>> \in E
  PROVE  u \in 1 .. Len(t) /\ q[h] < q[u]
<1>1. h \notin Up(t, u)
  BY CompBack
<1>2. /\ u \in 1 .. Len(t) /\ b \in 1 .. Len(t) /\ (u < b => u \in Up(t, b)) /\ IsTree(t)
      /\ h \in Up(t, b) /\ h <= b
  BY EdgesAreIn, CompFacts DEF Dfs
<1>3. CASE h < u
  BY <1>1, <1>2, <1>3 DEF PostOrder
<1>4. CASE u < h
  <2>1. u \in Up(t, b)
    BY <1>2, <1>4
  <2>2. u \in Up(t, h)
    BY <1>2, <1>4, <2>1, UpChain
  <2> QED
    BY <1>2, <1>4, <2>2 DEF PostOrder
<1>5. u # h
  BY CompSelf
<1> QED
  BY <1>2, <1>3, <1>4, <1>5

\* Each of S waits for one of S; and S is of what is finished k-th or before.
Cyclic(t, E, S) == S \subseteq AllElements(t, E) /\ S # {} /\ \A y \in S : \E x \in S : <<x, y>> \in AllSucc(t, E)
FinishedBy(t, q, S, k) == \A w \in 1 .. Len(t) : w \in S \/ -w \in S => q[w] <= k

\* A cycle of constraints has its last vertex only as an exit; without the exit
\* what is left in the loop of it is still a cycle.
LEMMA SmallerCycle ==
  ASSUME NEW t, NEW E, Dfs(t, E), NEW q, PostOrder(t, q), NEW S, Cyclic(t, E, S), NEW k \in Nat, FinishedBy(t, q, S, k)
  PROVE  \E R : \E j \in Nat : j < k /\ Cyclic(t, E, R) /\ FinishedBy(t, q, R, j)
<1> DEFINE V == 1 .. Len(t)
           W == {w \in V : w \in S \/ -w \in S}
<1>1. /\ Len(t) \in Nat /\ IsTree(t) /\ \A w \in V : q[w] \in Nat
  BY DEF Dfs, IsTree, PostOrder
<1>2. \E v \in W : \A w \in W : q[w] <= q[v]
  <2>1. IsFiniteSet(W)
    <3>1. IsFiniteSet(V)
      BY <1>1, FS_Interval
    <3> QED
      BY <3>1, FS_Subset
  <2>2. W # {}
    <3>1. PICK y \in S : y \in AllElements(t, E)
      BY DEF Cyclic
    <3>2. CASE y \in V
      BY <3>2
    <3>3. CASE \E w \in V : HasBack(t, E, w) /\ y = -w
      BY <3>3
    <3> QED
      BY <3>1, <3>2, <3>3, AllElementsAre
  <2>3. \A w \in W : q[w] \in Int
    BY <1>1
  <2> HIDE DEF W
  <2> QED
    BY <2>1, <2>2, <2>3, GreatestValue, Zenon
<1>3. PICK v \in W : \A w \in W : q[w] <= q[v]
  BY <1>2
<1>4. v \in V /\ q[v] \in Nat /\ q[v] <= k
  BY <1>1, <1>3 DEF FinishedBy
<1>5. ASSUME NEW u \in V, NEW b \in V, From(t, E, u, b) \in S, q[v] < q[u]  PROVE FALSE
  <2>1. PICK w \in V : (From(t, E, u, b) = w \/ From(t, E, u, b) = -w) /\ q[u] <= q[w]
    BY <1>5, PostOfFrom
  <2>2. w \in W
    BY <1>5, <2>1
  <2>3. q[w] <= q[v] /\ q[w] \in Nat /\ q[u] \in Nat
    BY <1>1, <1>3, <2>1, <2>2
  <2> QED
    BY <1>4, <1>5, <2>1, <2>3
<1> HIDE DEF W
<1>6. v \notin S
  <2>1. ASSUME v \in S  PROVE FALSE
    <3>1. PICK x \in S : <<x, v>> \in AllSucc(t, E)
      BY <2>1 DEF Cyclic
    <3>2. PICK u \in V : <<u, v>> \in TreeOrCross(t, E) /\ x = From(t, E, u, v)
      BY <1>4, <3>1, ConstraintsAre
    <3>3. q[v] < q[u]
      BY <3>2, PostOfSource
    <3> QED
      BY <1>4, <1>5, <3>2, <3>3
  <2> QED
    BY <2>1
<1>7. -v \in S /\ HasBack(t, E, v)
  <2>1. -v \in S
    BY <1>3, <1>6 DEF W
  <2> QED
    BY <1>4, <2>1, AllElementsAre DEF Cyclic
<1> DEFINE R == {y \in S : y \in Elements(t, E, v) /\ y # -v}
<1>8. R # {}
  <2>1. PICK x \in S : <<x, -v>> \in AllSucc(t, E)
    BY <1>7 DEF Cyclic
  <2>2. PICK u \in V : <<u, v>> \in Closings(t, E) /\ x = From(t, E, u, v)
    BY <1>4, <2>1, ConstraintsAre
  <2>3. u \in Comp(t, E, v) /\ v \in Comp(t, E, v)
    BY <1>4, <2>2, ClosingIn, CompSelf
  <2>4. x \in Elements(t, E, v) /\ x # -v
    BY <1>4, <2>2, <2>3, FromInside
  <2> QED
    BY <2>1, <2>4
<1>9. ASSUME NEW y \in R  PROVE \E x \in R : <<x, y>> \in AllSucc(t, E)
  <2>1. PICK x \in S : <<x, y>> \in AllSucc(t, E)
    BY <1>9 DEF Cyclic
  <2>2. x \in Elements(t, E, v) /\ x # -v
    <3>1. CASE y \in Comp(t, E, v)
      <4>1. y \in V
        BY <1>4, <3>1, CompFacts
      <4>2. PICK u \in V : <<u, y>> \in TreeOrCross(t, E) /\ x = From(t, E, u, y)
        BY <2>1, <4>1, ConstraintsAre
      <4>3. <<u, y>> \in E
        BY <4>2 DEF TreeOrCross
      <4>4. u \in Comp(t, E, v)
        <5>1. ASSUME u \notin Comp(t, E, v)  PROVE FALSE
          <6>1. q[v] < q[u]
            BY <1>4, <3>1, <4>3, <5>1, PostOfEntering
          <6> QED
            BY <1>5, <2>1, <4>1, <4>2, <6>1
        <5> QED
          BY <5>1
      <4> QED
        BY <1>4, <3>1, <4>2, <4>4, FromInside
    <3>2. CASE \E b \in Comp(t, E, v) : HasBack(t, E, b) /\ y = -b
      <4>1. PICK b \in Comp(t, E, v) : y = -b
        BY <3>2
      <4>2. b \in V
        BY <1>4, CompFacts
      <4>3. PICK u \in V : <<u, b>> \in Closings(t, E) /\ x = From(t, E, u, b)
        BY <2>1, <4>1, <4>2, ConstraintsAre
      <4>4. u \in Comp(t, E, v)
        BY <1>4, <4>2, <4>3, ClosingIn, CompInside
      <4> QED
        BY <1>4, <4>1, <4>3, <4>4, FromInside
    <3> QED
      BY <1>4, <1>9, <3>1, <3>2, ElementCases
  <2> QED
    BY <2>1, <2>2
<1>10. ASSUME NEW w \in V, w \in R \/ -w \in R  PROVE q[w] < q[v]
  <2>1. w \in Comp(t, E, v)
    BY <1>4, <1>10, ElementCases
  <2>2. w # v
    <3>1. v \notin R /\ -v \notin R
      BY <1>6
    <3> QED
      BY <1>10, <3>1
  <2>3. v \in Up(t, w) /\ v < w
    BY <1>4, <2>1, <2>2, CompFacts
  <2> QED
    BY <1>4, <2>3 DEF PostOrder
<1>11. Cyclic(t, E, R)
  <2>1. R \subseteq AllElements(t, E)
    BY DEF Cyclic
  <2> HIDE DEF R
  <2> QED
    BY <1>8, <1>9, <2>1 DEF Cyclic
<1>12. q[v] - 1 \in Nat
  <2>1. PICK y \in R : y \in AllElements(t, E)
    BY <1>8 DEF Cyclic
  <2>2. \E w \in V : w \in R \/ -w \in R
    <3>1. CASE y \in V
      BY <3>1
    <3>2. CASE \E w \in V : HasBack(t, E, w) /\ y = -w
      BY <3>2
    <3> QED
      BY <2>1, <3>1, <3>2, AllElementsAre
  <2>3. PICK w \in V : q[w] < q[v]
    BY <1>10, <2>2
  <2> QED
    BY <1>1, <1>4, <2>3
<1>13. FinishedBy(t, q, R, q[v] - 1)
  <2> HIDE DEF R
  <2>1. ASSUME NEW w \in V, w \in R \/ -w \in R  PROVE q[w] <= q[v] - 1
    BY <1>1, <1>4, <1>10, <2>1
  <2> QED
    BY <2>1 DEF FinishedBy
<1>14. q[v] - 1 < k
  BY <1>4, <1>12
<1> HIDE DEF R
<1> QED
  BY <1>11, <1>12, <1>13, <1>14

\* There is always something that waits for nothing that is left.
LEMMA NoCycle ==
  ASSUME NEW t, NEW E, Dfs(t, E), NEW q, PostOrder(t, q), NEW S, S \subseteq AllElements(t, E), S # {}
  PROVE  \E y \in S : \A x \in S : <<x, y>> \notin AllSucc(t, E)
<1> SUFFICES ASSUME ~ \E y \in S : \A x \in S : <<x, y>> \notin AllSucc(t, E)  PROVE FALSE
  OBVIOUS
<1> DEFINE K == {k \in Nat : \E R : Cyclic(t, E, R) /\ FinishedBy(t, q, R, k)}
<1>1. Cyclic(t, E, S)
  BY DEF Cyclic
<1>2. \E k \in Nat : FinishedBy(t, q, S, k)
  <2>1. Len(t) \in Nat /\ Len(t) >= 1 /\ \A w \in 1 .. Len(t) : q[w] \in Nat
    BY DEF Dfs, IsTree, PostOrder
  <2>2. IsFiniteSet(1 .. Len(t)) /\ 1 .. Len(t) # {}
    <3>1. 1 \in 1 .. Len(t)
      BY <2>1
    <3>2. IsFiniteSet(1 .. Len(t))
      BY <2>1, FS_Interval
    <3> QED
      BY <3>1, <3>2
  <2>3. \E v \in 1 .. Len(t) : \A w \in 1 .. Len(t) : q[w] <= q[v]
    <3>1. \A w \in 1 .. Len(t) : q[w] \in Int
      BY <2>1
    <3> QED
      BY <2>2, <3>1, GreatestValue, Zenon
  <2>4. PICK v \in 1 .. Len(t) : \A w \in 1 .. Len(t) : q[w] <= q[v]
    BY <2>3
  <2>5. FinishedBy(t, q, S, q[v])
    BY <2>4 DEF FinishedBy
  <2> QED
    BY <2>1, <2>5
<1>3. K # {} /\ K \subseteq Nat
  BY <1>1, <1>2
<1>4. PICK k \in K : \A j \in K : k <= j
  <2> HIDE DEF K
  <2> QED
    BY <1>3, LeastNat, Zenon
<1>5. k \in Nat
  BY <1>3
<1>6. PICK R : Cyclic(t, E, R) /\ FinishedBy(t, q, R, k)
  BY <1>4
<1>7. \E Q : \E j \in Nat : j < k /\ Cyclic(t, E, Q) /\ FinishedBy(t, q, Q, j)
  BY <1>5, <1>6, SmallerCycle
<1>8. PICK j \in Nat : j < k /\ \E Q : Cyclic(t, E, Q) /\ FinishedBy(t, q, Q, j)
  BY <1>7
<1>9. j \in K
  BY <1>8
<1> QED
  BY <1>4, <1>5, <1>8, <1>9
-----------------------------------------------------------------------------
(***************************************************************************)
(* The predecessors from outside.                                          *)
(***************************************************************************)
\* The head above one that is inside of a loop.
LEMMA ParentIs ==
  ASSUME NEW t, NEW E, NEW s, Finished(t, E, s), NEW m \in 1 .. Len(t), NEW w \in Comp(t, E, m), w # m
  PROVE  LET p == s.parent[w]
         IN  /\ p \in 1 .. Len(t) /\ m <= p /\ p < w /\ w \in Comp(t, E, p) /\ HasBack(t, E, p)
             /\ \A g \in 1 .. Len(t) : g < w /\ w \in Comp(t, E, g) => g <= p
<1> DEFINE V == 1 .. Len(t)
           p == s.parent[w]
<1>1. Dfs(t, E) /\ MergeTypes(V, s) /\ s.head = 0 /\ RepInv(t, E, s) /\ ParentInv(t, E, s)
  BY DEF Finished
<1>2. w \in V /\ m < w
  BY <1>1, CompFacts
<1>3. s.rep \in [V -> V] /\ s.parent \in [V -> V]
  BY <1>1, MergeFields
<1>4. s.rep[w] # w
  <2>1. IsRep(t, E, 0, w, s.rep[w])
    BY <1>1, <1>2 DEF RepInv
  <2>2. s.rep[w] <= m /\ s.rep[w] \in V
    BY <1>2, <1>3, <2>1 DEF IsRep
  <2> QED
    BY <1>2, <2>2
<1>5. /\ p < w /\ w \in Comp(t, E, p)
      /\ \A g \in V : s.head < g /\ g < w /\ w \in Comp(t, E, g) => g <= p
  BY <1>1, <1>2, <1>4 DEF ParentInv
<1>6. p \in V
  BY <1>2, <1>3
<1>7. \A g \in V : g < w /\ w \in Comp(t, E, g) => g <= p
  BY <1>1, <1>5
<1>8. m <= p
  BY <1>2, <1>7
<1>9. HasBack(t, E, p)
  <2>1. ASSUME ~HasBack(t, E, p)  PROVE FALSE
    <3>1. Comp(t, E, p) = {p}
      BY <1>1, <1>6, <2>1, CompOfPlain
    <3> QED
      BY <1>5, <1>6, <3>1
  <2> QED
    BY <2>1
<1> QED
  BY <1>5, <1>6, <1>7, <1>8, <1>9

\* From a loop that holds v and not u, other than the outermost, outward.
LEMMA ParentLeft ==
  ASSUME NEW t, NEW E, NEW s, Finished(t, E, s), NEW u, NEW v \in 1 .. Len(t),
         NEW m \in LeftOf(t, E, v, u), NEW w, w \in Comp(t, E, m), w # m, v \in Comp(t, E, w)
  PROVE  s.parent[w] \in LeftOf(t, E, v, u)
<1>1. m \in 1 .. Len(t) /\ v \in Comp(t, E, m) /\ u \notin Comp(t, E, m) /\ Dfs(t, E)
  BY DEF LeftOf, Finished
<1> DEFINE p == s.parent[w]
<1>2. p \in 1 .. Len(t) /\ m <= p /\ w \in Comp(t, E, p) /\ HasBack(t, E, p)
  BY <1>1, ParentIs
<1> HIDE DEF p
<1>3. v \in Comp(t, E, p)
  BY <1>1, <1>2, CompInside
<1>4. Comp(t, E, p) \subseteq Comp(t, E, m)
  BY <1>1, <1>2, <1>3, CompNested
<1> QED
  BY <1>1, <1>2, <1>3, <1>4 DEF LeftOf, p

\* The heads that count an edge are those of the loops it enters.
LEMMA HeadsAre ==
  ASSUME NEW t, NEW E, NEW s, Finished(t, E, s), NEW u, NEW v, <<u, v>> \in TreeOrCross(t, E),
         LeftOf(t, E, v, u) # {}, NEW o, o[2] = v, o[3] = From(t, E, v, u)
  PROVE  CountedAt(s, o) = LeftOf(t, E, v, u)
<1> DEFINE V == 1 .. Len(t)
           L == LeftOf(t, E, v, u)
           h == IF IsHead(s, v) THEN v ELSE s.parent[v]
           x == From(t, E, v, u)
           Closed(S) == h \in S /\ \A g \in S : s.exit[g] = x \/ s.parent[g] \in S
<1>1. Dfs(t, E) /\ MergeTypes(V, s) /\ s.head = 0 /\ ExitInv(t, E, s) /\ Len(t) \in Nat
  BY DEF Finished, Dfs, IsTree
<1>2. u \in V /\ v \in V /\ v \notin Up(t, u)
  BY <1>1, EdgesAreIn DEF TreeOrCross
<1>3. \A g \in V : s.exit[g] = IF HasBack(t, E, g) THEN -g ELSE g
  BY <1>1 DEF ExitInv
<1>4. DOMAIN s.exit = V
  BY <1>1, MergeFields
<1>5. \A g \in L : g \in V /\ HasBack(t, E, g) /\ v \in Comp(t, E, g) /\ u \notin Comp(t, E, g) /\ g <= v
  <2>1. \A g \in L : g \in V /\ HasBack(t, E, g) /\ v \in Comp(t, E, g) /\ u \notin Comp(t, E, g)
    BY DEF LeftOf
  <2> QED
    BY <1>1, <2>1, CompFacts
<1>6. PICK m \in L : x = -m /\ \A k \in L : m <= k
  <2>1. u \in 1 .. Len(t) /\ v \in 1 .. Len(t)
    BY <1>2
  <2>2. \E m \in LeftOf(t, E, v, u) : From(t, E, v, u) = -m /\ \A k \in LeftOf(t, E, v, u) : m <= k
    BY <1>1, <2>1, FromCases
  <2> QED
    BY <2>2
<1>7. h \in L /\ \A g \in L : g <= h
  <2>1. CASE HasBack(t, E, v)
    <3>1. h = v
      <4>1. s.exit[v] = -v /\ -v # v
        BY <1>2, <1>3, <2>1
      <4> QED
        BY <4>1 DEF IsHead
    <3>2. v \in Comp(t, E, v) /\ u \notin Comp(t, E, v)
      BY <1>1, <1>2, CompSelf, CompFacts
    <3>3. v \in L
      BY <1>2, <2>1, <3>2 DEF LeftOf
    <3> QED
      BY <1>5, <3>1, <3>3
  <2>2. CASE ~HasBack(t, E, v)
    <3>1. h = s.parent[v]
      BY <1>2, <1>3, <2>2 DEF IsHead
    <3>2. v \in Comp(t, E, m) /\ v # m /\ m \in V
      BY <1>5, <2>2
    <3>3. v \in Comp(t, E, v)
      BY <1>1, <1>2, CompSelf
    <3>4. s.parent[v] \in L
      BY <1>2, <3>2, <3>3, ParentLeft
    <3>5. \A g \in V : g < v /\ v \in Comp(t, E, g) => g <= s.parent[v]
      BY <3>2, ParentIs
    <3>6. \A g \in L : g < v
      BY <1>2, <1>5, <2>2
    <3> QED
      BY <1>5, <3>1, <3>4, <3>5, <3>6
  <2> QED
    BY <2>1, <2>2
<1> HIDE DEF h, L, x
<1>8. ASSUME NEW g \in L, g # m
      PROVE  /\ s.exit[g] # x /\ s.parent[g] \in L /\ s.parent[g] < g /\ g \in Comp(t, E, m) /\ m < g
             /\ \A k \in L : k < g => k <= s.parent[g]
  <2>1. g \in V /\ m \in V /\ m < g /\ HasBack(t, E, g) /\ v \in Comp(t, E, g) /\ v \in Comp(t, E, m)
    BY <1>5, <1>6, <1>8
  <2>2. g \in Comp(t, E, m)
    BY <1>1, <2>1, CompNested
  <2>3. s.parent[g] \in L
    BY <1>2, <1>6, <1>8, <2>1, <2>2, ParentLeft DEF L
  <2>4. s.parent[g] < g /\ \A k \in V : k < g /\ g \in Comp(t, E, k) => k <= s.parent[g]
    BY <1>8, <2>1, <2>2, ParentIs
  <2>5. ASSUME NEW k \in L, k < g  PROVE g \in Comp(t, E, k)
    BY <1>1, <1>5, <2>1, <2>5, CompNested
  <2>6. s.exit[g] # x
    <3>1. s.exit[g] = -g /\ x = -m
      BY <1>3, <1>6, <2>1
    <3> QED
      BY <2>1, <3>1
  <2> QED
    BY <1>5, <2>1, <2>2, <2>3, <2>4, <2>5, <2>6
<1>9. L \in SUBSET V /\ Closed(L)
  <2>1. s.exit[m] = x
    BY <1>3, <1>5, <1>6
  <2>2. ASSUME NEW g \in L  PROVE s.exit[g] = x \/ s.parent[g] \in L
    <3>1. CASE g = m
      BY <2>1, <3>1
    <3>2. CASE g # m
      BY <1>8, <3>2
    <3> QED
      BY <3>1, <3>2
  <2>3. \A g \in L : g \in V
    BY <1>5
  <2> QED
    BY <1>7, <2>2, <2>3
<1>10. ASSUME NEW S \in SUBSET V, Closed(S)  PROVE L \subseteq S
  <2> SUFFICES ASSUME NEW q0 \in L, q0 \notin S  PROVE FALSE
    OBVIOUS
  <2> DEFINE Q == {q \in L : q \notin S}
  <2>1. Q \subseteq 0 .. Len(t) /\ Q # {}
    <3>1. \A q \in Q : q \in 0 .. Len(t)
      BY <1>1, <1>5
    <3>2. q0 \in Q
      OBVIOUS
    <3> QED
      BY <3>1, <3>2
  <2>2. PICK q \in Q : \A k \in Q : k <= q
    <3> HIDE DEF Q
    <3> QED
      BY <1>1, <2>1, GreatestNat, Zenon
  <2>3. q \in L /\ q \notin S /\ q \in V
    BY <1>5
  <2> DEFINE A == {g \in L : q < g}
  <2>4. A \subseteq Nat /\ A # {}
    <3>1. \A g \in A : g \in Nat
      BY <1>5
    <3>2. h \in A
      <4>1. h # q /\ q <= h /\ h \in V
        BY <1>5, <1>7, <1>10, <2>3
      <4> QED
        BY <1>7, <2>3, <4>1
    <3> QED
      BY <3>1, <3>2
  <2>5. PICK g \in A : \A k \in A : g <= k
    <3> HIDE DEF A
    <3> QED
      BY <2>4, LeastNat, Zenon
  <2>6. g \in L /\ q < g /\ g \in V
    BY <1>5
  <2>7. g \in S
    <3>1. ASSUME g \in Q  PROVE FALSE
      <4>1. g <= q
        BY <2>2, <3>1
      <4> QED
        BY <2>3, <2>6, <4>1
    <3> QED
      BY <2>6, <3>1
  <2>8. g # m
    BY <1>5, <1>6, <2>3, <2>6
  <2>9. s.parent[g] \in S
    BY <1>8, <1>10, <2>6, <2>7, <2>8
  <2>10. s.parent[g] \in L /\ s.parent[g] < g /\ q <= s.parent[g]
    BY <1>8, <2>3, <2>6, <2>8
  <2>11. s.parent[g] # q
    BY <2>3, <2>9
  <2>12. s.parent[g] \in A
    <3> DEFINE p == s.parent[g]
    <3> HIDE DEF p
    <3>1. p \in L /\ q <= p /\ p # q
      BY <2>10, <2>11 DEF p
    <3>2. p \in V
      BY <1>5, <3>1
    <3>3. q < p
      BY <2>3, <3>1, <3>2
    <3> QED
      BY <3>1, <3>3 DEF p
  <2>13. g <= s.parent[g]
    BY <2>5, <2>12
  <2> QED
    BY <1>5, <2>6, <2>10, <2>13
<1>11. CountedAt(s, o) = {g \in V : \A S \in SUBSET V : Closed(S) => g \in S}
  BY <1>4 DEF CountedAt, HeadsUpTo, h, x
<1> HIDE DEF Closed, V
<1>12. \A g \in CountedAt(s, o) : g \in L
  BY <1>9, <1>11
<1>13. \A g \in L : g \in CountedAt(s, o)
  BY <1>9, <1>10, <1>11
<1> QED
  BY <1>12, <1>13 DEF L

\* The constraints on b that the exit of h counts, and what b waits for that is
\* not an element of the loop of h.
Counted(s, h, b) == {o \in s.outer : o[2] = b /\ h \in CountedAt(s, o)}
Entered(t, E, h, b) == {x \in AllElements(t, E) : <<x, b>> \in AllSucc(t, E) /\ x \notin Elements(t, E, h)}

\* What is in outer.
LEMMA OuterIs ==
  ASSUME NEW t, NEW E, NEW s, Finished(t, E, s)
  PROVE  /\ \A o \in s.outer : \E u, v \in 1 .. Len(t) :
              /\ <<u, v>> \in TreeOrCross(t, E) /\ LeftOf(t, E, v, u) # {}
              /\ o = <<From(t, E, u, v), v, From(t, E, v, u)>>
         /\ \A u, v \in 1 .. Len(t) : <<u, v>> \in TreeOrCross(t, E) /\ LeftOf(t, E, v, u) # {} =>
              <<From(t, E, u, v), v, From(t, E, v, u)>> \in s.outer
<1> DEFINE V == 1 .. Len(t)
           F == {f \in TreeOrCross(t, E) : From(t, E, f[2], f[1]) # f[2]}
           P(e) == <<From(t, E, e[1], e[2]), e[2], From(t, E, e[2], e[1])>>
<1>1. Dfs(t, E) /\ s.outer = {P(e) : e \in F}
  BY DEF Finished, OuterOf
<1>2. \A e \in TreeOrCross(t, E) : e = <<e[1], e[2]>> /\ e[1] \in V /\ e[2] \in V
  BY <1>1 DEF TreeOrCross, Dfs
<1>3. ASSUME NEW u \in V, NEW v \in V
      PROVE  From(t, E, v, u) # v <=> LeftOf(t, E, v, u) # {}
  <2>1. CASE LeftOf(t, E, v, u) = {}
    BY <2>1 DEF From
  <2>2. CASE LeftOf(t, E, v, u) # {}
    <3>1. PICK g \in V : From(t, E, v, u) = -g
      BY <1>1, <2>2, FromCases
    <3> QED
      BY <2>2, <3>1
  <2> QED
    BY <2>1, <2>2
<1>4. ASSUME NEW o \in s.outer
      PROVE  \E u, v \in V : /\ <<u, v>> \in TreeOrCross(t, E) /\ LeftOf(t, E, v, u) # {}
                             /\ o = <<From(t, E, u, v), v, From(t, E, v, u)>>
  <2>1. PICK e \in F : o = P(e)
    BY <1>1
  <2>2. e \in TreeOrCross(t, E) /\ From(t, E, e[2], e[1]) # e[2]
    OBVIOUS
  <2> DEFINE u == e[1]
             v == e[2]
  <2>3. e = <<u, v>> /\ u \in V /\ v \in V
    BY <1>2, <2>2
  <2>4. o = <<From(t, E, u, v), v, From(t, E, v, u)>> /\ From(t, E, v, u) # v
    BY <2>1, <2>2
  <2> HIDE DEF u, v, F, P
  <2>5. LeftOf(t, E, v, u) # {}
    BY <1>3, <2>3, <2>4
  <2>6. <<u, v>> \in TreeOrCross(t, E)
    BY <2>2, <2>3
  <2> QED
    BY <2>3, <2>4, <2>5, <2>6
<1>5. ASSUME NEW u \in V, NEW v \in V, <<u, v>> \in TreeOrCross(t, E), LeftOf(t, E, v, u) # {}
      PROVE  <<From(t, E, u, v), v, From(t, E, v, u)>> \in s.outer
  <2> DEFINE e == <<u, v>>
  <2>1. e[1] = u /\ e[2] = v
    OBVIOUS
  <2>2. From(t, E, v, u) # v
    BY <1>3, <1>5
  <2>3. e \in F
    BY <1>5, <2>1, <2>2
  <2>4. P(e) = <<From(t, E, u, v), v, From(t, E, v, u)>>
    BY <2>1
  <2> HIDE DEF e, F, P
  <2> QED
    BY <1>1, <2>3, <2>4
<1> QED
  BY <1>4, <1>5

\* One from outside of the loop is counted for each element waited for outside.
LEMMA OuterOfInside ==
  ASSUME NEW t, NEW E, NEW s, Finished(t, E, s), NEW h \in 1 .. Len(t), HasBack(t, E, h), NEW v \in Comp(t, E, h)
  PROVE  LET A == Counted(s, h, v)
             B == Entered(t, E, h, v)
         IN  /\ \A o \in A : o[1] \in B
             /\ \A x \in B : \E o \in A : o[1] = x
             /\ \A o, p \in A : o[1] = p[1] => o = p
<1> DEFINE V == 1 .. Len(t)
           A == Counted(s, h, v)
           B == Entered(t, E, h, v)
<1>1. Dfs(t, E) /\ v \in V
  BY CompFacts DEF Finished
<1>2. ASSUME NEW u \in V, <<u, v>> \in TreeOrCross(t, E), LeftOf(t, E, v, u) # {},
             NEW o, o = <<From(t, E, u, v), v, From(t, E, v, u)>>
      PROVE  h \in CountedAt(s, o) <=> u \notin Comp(t, E, h)
  <2>1. o[2] = v /\ o[3] = From(t, E, v, u)
    BY <1>2
  <2>2. CountedAt(s, o) = LeftOf(t, E, v, u)
    BY <1>2, <2>1, HeadsAre
  <2> QED
    BY <2>2 DEF LeftOf
<1>3. ASSUME NEW o \in A
      PROVE  \E u \in V : /\ <<u, v>> \in TreeOrCross(t, E) /\ LeftOf(t, E, v, u) # {} /\ u \notin Comp(t, E, h)
                          /\ o = <<From(t, E, u, v), v, From(t, E, v, u)>>
  <2>1. o \in s.outer /\ o[2] = v /\ h \in CountedAt(s, o)
    BY DEF Counted
  <2>2. PICK u, w \in V : /\ <<u, w>> \in TreeOrCross(t, E) /\ LeftOf(t, E, w, u) # {}
                          /\ o = <<From(t, E, u, w), w, From(t, E, w, u)>>
    BY <2>1, OuterIs
  <2>3. w = v
    BY <2>1, <2>2
  <2> QED
    BY <1>2, <2>1, <2>2, <2>3
<1>4. ASSUME NEW o \in A  PROVE o[1] \in B
  <2>1. PICK u \in V : /\ <<u, v>> \in TreeOrCross(t, E) /\ u \notin Comp(t, E, h)
                       /\ o = <<From(t, E, u, v), v, From(t, E, v, u)>>
    BY <1>3
  <2>2. o[1] = From(t, E, u, v)
    BY <2>1
  <2> DEFINE x == From(t, E, u, v)
  <2>3. x \in AllElements(t, E) /\ x \notin Elements(t, E, h)
    BY <1>1, <2>1, FromIsElement, FromOutside
  <2>4. <<x, v>> \in AllSucc(t, E)
    BY <1>1, <2>1, ConstraintsAre
  <2> QED
    BY <2>2, <2>3, <2>4 DEF Entered
<1>5. ASSUME NEW x \in B  PROVE \E o \in A : o[1] = x
  <2>1. <<x, v>> \in AllSucc(t, E) /\ x \notin Elements(t, E, h)
    BY DEF Entered
  <2>2. PICK u \in V : <<u, v>> \in TreeOrCross(t, E) /\ x = From(t, E, u, v)
    BY <1>1, <2>1, ConstraintsAre
  <2>3. u \notin Comp(t, E, h)
    BY <1>1, <2>1, <2>2, FromInside
  <2>4. LeftOf(t, E, v, u) # {}
    BY <2>3 DEF LeftOf
  <2> DEFINE o == <<From(t, E, u, v), v, From(t, E, v, u)>>
  <2>5. o \in s.outer
    BY <1>1, <2>2, <2>4, OuterIs
  <2>6. h \in CountedAt(s, o)
    BY <1>2, <2>2, <2>3, <2>4
  <2>7. o[1] = x /\ o[2] = v
    BY <2>2
  <2> HIDE DEF o
  <2> QED
    BY <2>5, <2>6, <2>7 DEF Counted
<1>6. ASSUME NEW o \in A, NEW p \in A, o[1] = p[1]  PROVE o = p
  <2>1. PICK u \in V : o = <<From(t, E, u, v), v, From(t, E, v, u)>>
    BY <1>3
  <2>2. PICK w \in V : p = <<From(t, E, w, v), v, From(t, E, v, w)>>
    BY <1>3
  <2>3. From(t, E, u, v) = From(t, E, w, v)
    BY <1>6, <2>1, <2>2
  <2>4. From(t, E, v, u) = From(t, E, v, w)
    BY <1>1, <2>3, SameConstraint
  <2> QED
    BY <2>1, <2>2, <2>3, <2>4
<1> QED
  BY <1>4, <1>5, <1>6

\* Nothing is counted elsewhere, and the exits of the loops inside wait for
\* nothing outside.
LEMMA OuterElsewhere ==
  ASSUME NEW t, NEW E, NEW s, Finished(t, E, s), NEW h \in 1 .. Len(t), HasBack(t, E, h), NEW b, b \notin Comp(t, E, h)
  PROVE  /\ Counted(s, h, b) = {}
         /\ b \in Elements(t, E, h) => Entered(t, E, h, b) = {}
<1> DEFINE V == 1 .. Len(t)
<1>1. Dfs(t, E)
  BY DEF Finished
<1>2. ASSUME NEW o \in Counted(s, h, b)  PROVE FALSE
  <2>1. o \in s.outer /\ o[2] = b /\ h \in CountedAt(s, o)
    BY DEF Counted
  <2>2. PICK u, w \in V : /\ <<u, w>> \in TreeOrCross(t, E) /\ LeftOf(t, E, w, u) # {}
                          /\ o = <<From(t, E, u, w), w, From(t, E, w, u)>>
    <3>1. \E u, w \in 1 .. Len(t) : /\ <<u, w>> \in TreeOrCross(t, E) /\ LeftOf(t, E, w, u) # {}
                                    /\ o = <<From(t, E, u, w), w, From(t, E, w, u)>>
      BY <2>1, OuterIs, SMTT(30)
    <3> QED
      BY <3>1
  <2>3. w = b /\ o[3] = From(t, E, w, u)
    BY <2>1, <2>2
  <2>4. CountedAt(s, o) = LeftOf(t, E, w, u)
    BY <2>1, <2>2, <2>3, HeadsAre
  <2> QED
    BY <2>1, <2>3, <2>4 DEF LeftOf
<1>3. ASSUME b \in Elements(t, E, h), NEW x \in Entered(t, E, h, b)  PROVE FALSE
  <2>1. PICK w \in Comp(t, E, h) : b = -w
    BY <1>1, <1>3, ElementCases
  <2>2. w \in V
    BY <1>1, CompFacts
  <2>3. <<x, -w>> \in AllSucc(t, E) /\ x \notin Elements(t, E, h)
    BY <2>1 DEF Entered
  <2>4. PICK u \in V : <<u, w>> \in Closings(t, E) /\ x = From(t, E, u, w)
    BY <1>1, <2>2, <2>3, ConstraintsAre
  <2>5. u \in Comp(t, E, h)
    BY <1>1, <2>2, <2>4, ClosingIn, CompInside
  <2> QED
    BY <1>1, <2>3, <2>4, <2>5, FromInside
<1> QED
  BY <1>2, <1>3
-----------------------------------------------------------------------------
(***************************************************************************)
(* The ordering that is made of the components.                            *)
(***************************************************************************)
Tree == search.tree
Graph == EdgesOf(edges, search)
Vertex == 1 .. Len(Tree)

\* The element with index i and its vertex.
At(i) == merge.space[i + 1]
VertexOf(x) == IF x < 0 THEN -x ELSE x
VertexAt(i) == VertexOf(At(i))

BuildCorrect == SearchCorrect /\ Recorded /\ MergeCorrect /\ Built

\* What the invariants say of the state when the ordering is made.
LEMMA BuiltFacts ==
  ASSUME BuildCorrect
  PROVE  /\ Finished(Tree, Graph, merge) /\ Dfs(Tree, Graph) /\ Len(Tree) \in Nat /\ Len(Tree) >= 1
         /\ wpo = Ordering(merge, search)
         /\ search.ref[1] = Root
         /\ Reached = {search.ref[v] : v \in Vertex}
         /\ \A v, w \in Vertex : search.ref[v] = search.ref[w] => v = w
         /\ PostOrder(Tree, [v \in Vertex |-> search.post[search.ref[v]]])
<1>1. Searched(edges, Root, search) /\ Reached = {search.ref[v] : v \in 1 .. Len(search.ref)}
  BY LoopsAreLoops DEF BuildCorrect
<1>2. Finished(Tree, Graph, merge) /\ wpo = Ordering(merge, search)
  BY DEF BuildCorrect, MergeCorrect, Built, Tree, Graph
<1>3. /\ Len(search.ref) \in Nat /\ Len(search.ref) >= 1 /\ Len(Tree) = Len(search.ref) /\ search.ref[1] = Root
      /\ Dfs(Tree, Graph)
  BY <1>1, SearchedFacts DEF Tree, Graph
<1>4. Vertex = 1 .. Len(search.ref)
  BY <1>3 DEF Vertex
<1>5. \A v \in Vertex : search.dfn[search.ref[v]] = v
  BY <1>1, <1>4, SearchedFacts
<1>6. \A v, w \in Vertex : search.ref[v] = search.ref[w] => v = w
  BY <1>5
<1>7. \A v, w \in Vertex : v < w =>
                  IF v \in Up(Tree, w) THEN search.post[search.ref[w]] < search.post[search.ref[v]]
                  ELSE search.post[search.ref[v]] < search.post[search.ref[w]]
  BY <1>1, <1>4, SearchedFacts DEF Tree
<1>8. \A v \in Vertex : search.post[search.ref[v]] \in Nat
  BY <1>1, <1>4, SearchedFacts
<1> DEFINE q == [v \in Vertex |-> search.post[search.ref[v]]]
<1>9. \A v \in Vertex : q[v] = search.post[search.ref[v]]
  OBVIOUS
<1> HIDE DEF q
<1>10. PostOrder(Tree, q)
  BY <1>7, <1>8, <1>9 DEF PostOrder, Vertex
<1> QED
  BY <1>1, <1>2, <1>3, <1>4, <1>6, <1>10 DEF q

\* The recorded loops in terms of the tree.
LEMMA LoopsAre ==
  ASSUME BuildCorrect, NEW v \in Vertex
  PROVE  loops[search.ref[v]] = IF HasBack(Tree, Graph, v) THEN {search.ref[w] : w \in Comp(Tree, Graph, v)} ELSE {}
<1>1. /\ Searched(edges, Root, search) /\ IsGraphOver(edges)
      /\ Reached = {search.ref[w] : w \in 1 .. Len(search.ref)}
      /\ loops = [x \in Reached |-> LoopIn(edges, search, x)]
  BY LoopsAreLoops DEF BuildCorrect
<1>2. v \in 1 .. Len(search.ref)
  BY <1>1, SearchedFacts DEF Tree, Vertex
<1>3. loops[search.ref[v]] = LoopIn(edges, search, search.ref[v])
  BY <1>1, <1>2
<1> QED
  BY <1>1, <1>2, <1>3, LoopIsComp DEF Tree, Graph

\* The indices and the elements correspond.
LEMMA IndicesAre ==
  ASSUME BuildCorrect
  PROVE  /\ wpo.size = Len(merge.space) /\ wpo.size \in Nat /\ wpo.size >= 1 /\ Idx = 0 .. Len(merge.space) - 1
         /\ \A i \in Idx : i \in Nat /\ At(i) \in AllElements(Tree, Graph)
         /\ \A x \in AllElements(Tree, Graph) : \E i \in Idx : At(i) = x
         /\ \A i, j \in Idx : At(i) = At(j) => i = j
         /\ \A i \in Idx : At(i) < 0 => i + 1 \in Idx /\ At(i + 1) = -At(i)
         /\ wpo.size - 1 \in Idx /\ At(wpo.size - 1) = 1
<1> DEFINE p == merge.space
           n == Len(p)
<1>1. wpo.size = n
  BY BuiltFacts DEF Ordering
<1>2. SpaceInv(Tree, Graph, 0, p) /\ p \in Seq(Int)
  <2>1. Finished(Tree, Graph, merge)
    BY BuiltFacts
  <2>2. SpaceInv(Tree, Graph, 0, p) /\ MergeTypes(1 .. Len(Tree), merge)
    BY <2>1 DEF Finished
  <2> QED
    BY <2>2, MergeFields
<1>3. n \in Nat
  BY <1>2
<1> HIDE DEF p, n
<1>4. Idx = 0 .. n - 1
  BY <1>1 DEF Idx
<1>5. Len(p) = n /\ \A i \in Idx : i \in Nat /\ i + 1 \in 1 .. n /\ At(i) = p[i + 1]
  BY <1>3, <1>4 DEF At, p, n
<1>6. ASSUME NEW i \in Idx  PROVE At(i) \in AllElements(Tree, Graph)
  BY <1>2, <1>5 DEF SpaceInv, AllElements
<1>7. ASSUME NEW x \in AllElements(Tree, Graph)  PROVE \E i \in Idx : At(i) = x
  <2>1. PICK k \in 1 .. n : p[k] = x
    BY <1>2, <1>5 DEF SpaceInv, AllElements
  <2>2. k - 1 \in Idx /\ (k - 1) + 1 = k
    BY <1>3, <1>4
  <2> QED
    BY <1>5, <2>1, <2>2
<1>8. ASSUME NEW i \in Idx, NEW j \in Idx, At(i) = At(j)  PROVE i = j
  <2>1. i + 1 = j + 1
    BY <1>2, <1>5, <1>8 DEF SpaceInv
  <2> QED
    BY <1>5, <2>1
<1>9. ASSUME NEW i \in Idx, At(i) < 0  PROVE i + 1 \in Idx /\ At(i + 1) = -At(i)
  <2>1. i + 1 < n /\ p[(i + 1) + 1] = -At(i)
    BY <1>2, <1>5, <1>9 DEF SpaceInv
  <2>2. i + 1 \in Idx
    BY <1>3, <1>4, <1>5, <2>1
  <2> QED
    BY <1>5, <2>1, <2>2
<1>10. n >= 1 /\ p[n] = 1
  <2>1. Len(Tree) \in Nat /\ 0 < Len(Tree)
    BY BuiltFacts
  <2> QED
    BY <1>2, <1>5, <2>1 DEF SpaceInv
<1>11. n - 1 \in Idx /\ At(n - 1) = 1
  <2>1. n - 1 \in Idx /\ (n - 1) + 1 = n
    BY <1>3, <1>4, <1>10
  <2> QED
    BY <1>5, <1>10, <2>1
<1> QED
  BY <1>1, <1>3, <1>4, <1>5, <1>6, <1>7, <1>8, <1>9, <1>10, <1>11 DEF n, p

\* An index is that of a vertex or of the exit of a head.
LEMMA VertexIs ==
  ASSUME BuildCorrect, NEW i \in Idx
  PROVE  /\ At(i) \in Int /\ VertexAt(i) \in Vertex
         /\ \/ At(i) = VertexAt(i) /\ ~(At(i) < 0)
            \/ At(i) = -VertexAt(i) /\ At(i) < 0 /\ HasBack(Tree, Graph, VertexAt(i))
<1>1. At(i) \in AllElements(Tree, Graph) /\ Len(Tree) \in Nat
  BY IndicesAre, BuiltFacts
<1>2. CASE At(i) \in 1 .. Len(Tree)
  BY <1>1, <1>2 DEF VertexAt, VertexOf, Vertex
<1>3. CASE \E w \in 1 .. Len(Tree) : HasBack(Tree, Graph, w) /\ At(i) = -w
  <2>1. PICK w \in 1 .. Len(Tree) : HasBack(Tree, Graph, w) /\ At(i) = -w
    BY <1>3
  <2>2. At(i) \in Int /\ At(i) < 0 /\ -At(i) = w
    BY <1>1, <2>1
  <2> QED
    BY <2>1, <2>2 DEF VertexAt, VertexOf, Vertex
<1> QED
  BY <1>1, <1>2, <1>3, AllElementsAre

\* What the ordering says of an element.
LEMMA ElementIs ==
  ASSUME BuildCorrect, NEW i \in Idx
  PROVE  /\ wpo.node[i] = search.ref[VertexAt(i)]
         /\ wpo.type[i] = IF At(i) < 0 THEN "Exit" ELSE IF HasBack(Tree, Graph, VertexAt(i)) THEN "Head" ELSE "Plain"
         /\ wpo.width[i] = Cardinality(Elements(Tree, Graph, VertexAt(i)))
         /\ wpo.preds[i] = {j \in Idx : <<At(j), At(i)>> \in AllSucc(Tree, Graph)}
<1>1. wpo = Ordering(merge, search) /\ Idx = 0 .. Len(merge.space) - 1 /\ Finished(Tree, Graph, merge)
  BY BuiltFacts, IndicesAre
<1>2. wpo.node[i] = search.ref[VertexAt(i)]
  BY <1>1 DEF Ordering, VertexAt, VertexOf, At
<1>3. wpo.type[i] = IF At(i) < 0 THEN "Exit" ELSE IF IsHead(merge, At(i)) THEN "Head" ELSE "Plain"
  BY <1>1 DEF Ordering, At
<1>4. wpo.width[i] = merge.size[VertexAt(i)]
  BY <1>1 DEF Ordering, VertexAt, VertexOf, At
<1>5. wpo.preds[i] = {j \in Idx : <<At(j), At(i)>> \in merge.succ}
  BY <1>1 DEF Ordering, At
<1>6. merge.succ = AllSucc(Tree, Graph) /\ SizeInv(Tree, Graph, merge) /\ ExitInv(Tree, Graph, merge) /\ merge.head = 0
  BY <1>1 DEF Finished, AllSucc
<1>7. VertexAt(i) \in Vertex /\ VertexAt(i) \in 1 .. Len(Tree) /\ 0 < VertexAt(i) /\ (At(i) < 0 \/ At(i) = VertexAt(i))
  BY VertexIs DEF Vertex
<1>8. merge.size[VertexAt(i)] = Cardinality(Elements(Tree, Graph, VertexAt(i)))
  BY <1>6, <1>7 DEF SizeInv
<1>9. ~(At(i) < 0) => (IsHead(merge, At(i)) <=> HasBack(Tree, Graph, VertexAt(i)))
  BY <1>6, <1>7 DEF ExitInv, IsHead
<1> QED
  BY <1>2, <1>3, <1>4, <1>5, <1>6, <1>8, <1>9

\* The indices of the elements of a loop.
LEMMA ElementsOfLoopAre ==
  ASSUME BuildCorrect, NEW x \in Idx, HasBack(Tree, Graph, VertexAt(x))
  PROVE  ElementsOf(x) = {i \in Idx : At(i) \in Elements(Tree, Graph, VertexAt(x))}
<1>1. wpo.node[x] = search.ref[VertexAt(x)] /\ VertexAt(x) \in Vertex
  BY ElementIs, VertexIs
<1>2. loops[wpo.node[x]] = {search.ref[w] : w \in Comp(Tree, Graph, VertexAt(x))}
  BY <1>1, LoopsAre
<1>3. Dfs(Tree, Graph) /\ Vertex = 1 .. Len(Tree) /\ \A v, w \in Vertex : search.ref[v] = search.ref[w] => v = w
  BY BuiltFacts DEF Vertex
<1>4. ASSUME NEW i \in Idx
      PROVE  wpo.node[i] \in loops[wpo.node[x]] <=> At(i) \in Elements(Tree, Graph, VertexAt(x))
  <2>1. wpo.node[i] = search.ref[VertexAt(i)] /\ VertexAt(i) \in Vertex
    BY ElementIs, VertexIs
  <2>2. \A w \in Comp(Tree, Graph, VertexAt(x)) : w \in Vertex
    BY <1>1, <1>3, CompFacts
  <2>3. wpo.node[i] \in loops[wpo.node[x]] <=> VertexAt(i) \in Comp(Tree, Graph, VertexAt(x))
    BY <1>2, <1>3, <2>1, <2>2
  <2>4. /\ \A w \in 1 .. Len(Tree) : w \in Elements(Tree, Graph, VertexAt(x)) <=> w \in Comp(Tree, Graph, VertexAt(x))
        /\ \A w \in 1 .. Len(Tree) : -w \in Elements(Tree, Graph, VertexAt(x)) <=> w \in Comp(Tree, Graph, VertexAt(x)) /\ HasBack(Tree, Graph, w)
    BY <1>1, <1>3, ElementCases
  <2>5. \/ At(i) = VertexAt(i)
        \/ At(i) = -VertexAt(i) /\ HasBack(Tree, Graph, VertexAt(i))
    BY VertexIs
  <2>6. At(i) \in Elements(Tree, Graph, VertexAt(x)) <=> VertexAt(i) \in Comp(Tree, Graph, VertexAt(x))
    <3>1. CASE At(i) = VertexAt(i)
      BY <1>3, <2>1, <2>4, <3>1
    <3>2. CASE At(i) = -VertexAt(i) /\ HasBack(Tree, Graph, VertexAt(i))
      BY <1>3, <2>1, <2>4, <3>2
    <3> QED
      BY <2>5, <3>1, <3>2
  <2> QED
    BY <2>3, <2>6
<1> QED
  BY <1>4 DEF ElementsOf

\* The element of a vertex that is not an exit.
LEMMA IndexOfIs ==
  ASSUME BuildCorrect, NEW v \in Vertex
  PROVE  IndexOf(search.ref[v]) \in Idx /\ At(IndexOf(search.ref[v])) = v
<1> DEFINE Is(i) == wpo.node[i] = search.ref[v] /\ wpo.type[i] # "Exit"
<1>1. \A u, w \in Vertex : search.ref[u] = search.ref[w] => u = w
  BY BuiltFacts
<1>2. \E i \in Idx : Is(i)
  <2>1. v \in AllElements(Tree, Graph) /\ v \in Nat /\ Len(Tree) \in Nat
    BY AllElementsAre, BuiltFacts DEF Vertex
  <2>2. PICK i \in Idx : At(i) = v
    BY <2>1, IndicesAre
  <2>3. ~(At(i) < 0) /\ VertexAt(i) = v
    BY <2>1, <2>2, VertexIs
  <2>4. wpo.node[i] = search.ref[v] /\ wpo.type[i] # "Exit"
    BY <2>3, ElementIs
  <2> QED
    BY <2>4
<1>3. ASSUME NEW i \in Idx, Is(i)  PROVE At(i) = v
  <2>1. wpo.node[i] = search.ref[VertexAt(i)] /\ VertexAt(i) \in Vertex /\ ~(At(i) < 0)
    BY <1>3, ElementIs, VertexIs
  <2>2. VertexAt(i) = v
    BY <1>1, <1>3, <2>1
  <2> QED
    BY <2>1, <2>2, VertexIs
<1>4. IndexOf(search.ref[v]) \in Idx /\ Is(IndexOf(search.ref[v]))
  BY <1>2, Zenon DEF IndexOf
<1> HIDE DEF Is
<1> QED
  BY <1>3, <1>4

\* Of a loop its exit is right below its head.
LEMMA ExitIsBelow ==
  ASSUME BuildCorrect, NEW v \in Vertex, HasBack(Tree, Graph, v)
  PROVE  IndexOf(search.ref[v]) - 1 \in Idx /\ At(IndexOf(search.ref[v]) - 1) = -v
<1> DEFINE k == IndexOf(search.ref[v])
<1>1. k \in Idx /\ At(k) = v
  BY IndexOfIs
<1>2. -v \in AllElements(Tree, Graph) /\ v \in Int /\ 0 < v
  BY AllElementsAre, BuiltFacts DEF Vertex
<1> HIDE DEF k
<1>3. PICK i \in Idx : At(i) = -v
  BY <1>2, IndicesAre
<1>4. i + 1 \in Idx /\ At(i + 1) = v /\ i \in Nat
  <2>1. At(i) < 0 /\ -At(i) = v
    BY <1>2, <1>3
  <2> QED
    BY <2>1, IndicesAre
<1>5. i + 1 = k
  BY <1>1, <1>4, IndicesAre
<1>6. k - 1 = i
  BY <1>4, <1>5
<1> QED
  BY <1>3, <1>6 DEF k

\* What is before an element in the constraints is before its index.
LEMMA BeforeIs ==
  ASSUME BuildCorrect, NEW i \in Idx, NEW k \in Idx,
         \A D : Waits(Tree, Graph, D) /\ At(k) \in D => At(i) \in D
  PROVE  IsBefore(Prefixes, i, k)
<1> SUFFICES ASSUME NEW S \in Prefixes, k \in S  PROVE i \in S
  BY DEF IsBefore
<1>1. S \subseteq Idx /\ \A j \in S : wpo.preds[j] \subseteq S
  BY DEF Prefixes
<1> DEFINE D == {At(j) : j \in S}
<1>2. ASSUME NEW x, NEW y, y \in D, <<x, y>> \in AllSucc(Tree, Graph)  PROVE x \in D
  <2>1. PICK j \in S : y = At(j)
    BY <1>2
  <2>2. j \in Idx /\ y \in AllElements(Tree, Graph)
    BY <1>1, <2>1, IndicesAre
  <2>3. x \in AllElements(Tree, Graph)
    <3>1. Dfs(Tree, Graph)
      BY BuiltFacts
    <3>2. CASE y \in 1 .. Len(Tree)
      <4>1. PICK u \in 1 .. Len(Tree) : <<u, y>> \in TreeOrCross(Tree, Graph) /\ x = From(Tree, Graph, u, y)
        BY <1>2, <3>1, <3>2, ConstraintsAre
      <4> QED
        BY <3>1, <3>2, <4>1, FromIsElement
    <3>3. CASE \E w \in 1 .. Len(Tree) : HasBack(Tree, Graph, w) /\ y = -w
      <4>1. PICK w \in 1 .. Len(Tree) : y = -w
        BY <3>3
      <4>2. PICK u \in 1 .. Len(Tree) : <<u, w>> \in Closings(Tree, Graph) /\ x = From(Tree, Graph, u, w)
        BY <1>2, <3>1, <4>1, ConstraintsAre
      <4> QED
        BY <3>1, <4>2, FromIsElement
    <3> QED
      BY <2>2, <3>2, <3>3, AllElementsAre
  <2>4. PICK l \in Idx : At(l) = x
    BY <2>3, IndicesAre
  <2>5. l \in wpo.preds[j]
    BY <1>2, <2>1, <2>2, <2>4, ElementIs
  <2>6. l \in S
    BY <1>1, <2>1, <2>5
  <2> QED
    BY <2>4, <2>6
<1>3. At(k) \in D
  OBVIOUS
<1> HIDE DEF D
<1>4. Waits(Tree, Graph, D)
  BY <1>2 DEF Waits
<1>5. At(i) \in D
  BY <1>3, <1>4
<1>6. PICK j \in S : At(i) = At(j)
  BY <1>5 DEF D
<1>7. i = j
  BY <1>1, <1>6, IndicesAre
<1> QED
  BY <1>7
-----------------------------------------------------------------------------
\* The schedule starts at the entry alone, and never goes round.
LEMMA RootedOrder ==
  ASSUME BuildCorrect
  PROVE  ScheduleIsRootedOrder
<1>1. Dfs(Tree, Graph) /\ search.ref[1] = Root /\ Len(Tree) \in Nat
  BY BuiltFacts
<1> DEFINE e == wpo.size - 1
<1>2. e \in Idx /\ At(e) = 1 /\ Entry(wpo) = e
  BY IndicesAre DEF Entry
<1>3. wpo.node[e] = Root
  <2>1. VertexAt(e) = 1
    BY <1>2 DEF VertexAt, VertexOf
  <2> QED
    BY <1>1, <1>2, <2>1, ElementIs
<1> HIDE DEF e
<1>4. ASSUME NEW i \in Idx  PROVE wpo.preds[i] = {} <=> i = e
  <2>1. At(i) \in AllElements(Tree, Graph) /\ wpo.preds[i] = {j \in Idx : <<At(j), At(i)>> \in AllSucc(Tree, Graph)}
    BY IndicesAre, ElementIs
  <2>2. CASE i = e
    <3>1. \A j \in Idx : <<At(j), At(i)>> \notin AllSucc(Tree, Graph)
      BY <1>1, <1>2, <2>2, OnlyRootStarts
    <3> QED
      BY <2>1, <2>2, <3>1
  <2>3. CASE i # e
    <3>1. At(i) # 1
      BY <1>2, <2>3, IndicesAre
    <3>2. PICK x \in AllElements(Tree, Graph) : <<x, At(i)>> \in AllSucc(Tree, Graph)
      BY <1>1, <2>1, <3>1, OnlyRootStarts
    <3>3. PICK j \in Idx : At(j) = x
      BY <3>2, IndicesAre
    <3>4. j \in wpo.preds[i]
      BY <2>1, <3>2, <3>3
    <3> QED
      BY <2>3, <3>4
  <2> QED
    BY <2>2, <2>3
<1>5. ASSUME NEW S \in SUBSET Idx, S # {}  PROVE \E i \in S : wpo.preds[i] \cap S = {}
  <2> DEFINE R == {At(i) : i \in S}
  <2>1. R \subseteq AllElements(Tree, Graph) /\ R # {}
    <3>1. \A i \in S : At(i) \in AllElements(Tree, Graph)
      BY <1>5, IndicesAre
    <3> QED
      BY <1>5, <3>1
  <2> HIDE DEF R
  <2>2. PICK y \in R : \A x \in R : <<x, y>> \notin AllSucc(Tree, Graph)
    <3> DEFINE q == [v \in Vertex |-> search.post[search.ref[v]]]
    <3>1. PostOrder(Tree, q)
      BY BuiltFacts
    <3> HIDE DEF q
    <3> QED
      BY <1>1, <2>1, <3>1, NoCycle
  <2>3. PICK i \in S : y = At(i)
    BY DEF R
  <2>4. ASSUME NEW j \in wpo.preds[i], j \in S  PROVE FALSE
    <3>1. <<At(j), At(i)>> \in AllSucc(Tree, Graph)
      BY <1>5, <2>4, ElementIs
    <3>2. At(j) \in R
      BY <2>4 DEF R
    <3> QED
      BY <2>2, <2>3, <3>1, <3>2
  <2> QED
    BY <2>4
<1> QED
  BY <1>2, <1>3, <1>4, <1>5 DEF ScheduleIsRootedOrder

\* An iteration of a loop runs from its head to its exit.
LEMMA RunsFromHeadToExit ==
  ASSUME BuildCorrect
  PROVE  LoopRunsFromHeadToExit
<1>1. Dfs(Tree, Graph) /\ Vertex = 1 .. Len(Tree)
  BY BuiltFacts DEF Vertex
<1> SUFFICES ASSUME NEW x \in Exits
             PROVE  /\ {i \in ElementsOf(x) : wpo.preds[i] \cap ElementsOf(x) = {}} = {HeadOfExit(wpo, x)}
                    /\ \A i \in ElementsOf(x) : IsBefore(Prefixes, i, x)
                    /\ \A i \in Idx \ ElementsOf(x) : wpo.preds[i] \cap ElementsOf(x) \subseteq {x}
  BY DEF LoopRunsFromHeadToExit
<1> DEFINE h == VertexAt(x)
           C == ElementsOf(x)
<1>2. x \in Idx /\ At(x) < 0
  <2>1. x \in Idx /\ wpo.type[x] = "Exit"
    BY DEF Exits
  <2> QED
    BY <2>1, ElementIs
<1>3. At(x) = -h /\ HasBack(Tree, Graph, h) /\ h \in Vertex
  BY <1>2, VertexIs
<1>4. HeadOfExit(wpo, x) \in Idx /\ At(HeadOfExit(wpo, x)) = h
  <2>1. -At(x) = h
    BY <1>2 DEF VertexAt, VertexOf
  <2> QED
    BY <1>2, <2>1, IndicesAre DEF HeadOfExit
<1>5. C = {i \in Idx : At(i) \in Elements(Tree, Graph, h)}
  BY <1>2, <1>3, ElementsOfLoopAre
<1> HIDE DEF h, C
<1>6. \A i \in Idx : At(i) \in AllElements(Tree, Graph) /\ wpo.preds[i] = {j \in Idx : <<At(j), At(i)>> \in AllSucc(Tree, Graph)}
  BY IndicesAre, ElementIs
<1>7. \A y \in Elements(Tree, Graph, h) : y \in AllElements(Tree, Graph)
  BY <1>1, <1>3, LoopElementsAreElements
<1>8. ASSUME NEW i \in C  PROVE wpo.preds[i] \cap C = {} <=> i = HeadOfExit(wpo, x)
  <2>1. i \in Idx /\ At(i) \in Elements(Tree, Graph, h)
    BY <1>5
  <2>2. CASE i = HeadOfExit(wpo, x)
    <3>1. ASSUME NEW j \in wpo.preds[i], j \in C  PROVE FALSE
      <4>1. <<At(j), h>> \in AllSucc(Tree, Graph) /\ At(j) \in Elements(Tree, Graph, h)
        BY <1>4, <1>5, <1>6, <2>1, <2>2, <3>1
      <4> QED
        BY <1>1, <1>3, <4>1, OnlyHeadStarts
    <3> QED
      BY <2>2, <3>1
  <2>3. CASE i # HeadOfExit(wpo, x)
    <3>1. At(i) # h
      BY <1>4, <2>1, <2>3, IndicesAre
    <3>2. PICK y \in Elements(Tree, Graph, h) : <<y, At(i)>> \in AllSucc(Tree, Graph)
      BY <1>1, <1>3, <2>1, <3>1, OnlyHeadStarts
    <3>3. PICK j \in Idx : At(j) = y
      BY <1>7, <3>2, IndicesAre
    <3>4. j \in wpo.preds[i] /\ j \in C
      BY <1>5, <1>6, <2>1, <3>2, <3>3
    <3> QED
      BY <2>3, <3>4
  <2> QED
    BY <2>2, <2>3
<1>9. HeadOfExit(wpo, x) \in C
  BY <1>1, <1>3, <1>4, <1>5, OnlyHeadStarts
<1>10. ASSUME NEW i \in C  PROVE IsBefore(Prefixes, i, x)
  <2>1. i \in Idx /\ At(i) \in Elements(Tree, Graph, h)
    BY <1>5
  <2>2. ASSUME NEW D, Waits(Tree, Graph, D), At(x) \in D  PROVE At(i) \in D
    <3>1. Elements(Tree, Graph, h) \subseteq D
      BY <1>1, <1>3, <2>2, LoopBeforeExit
    <3> QED
      BY <2>1, <3>1
  <2> QED
    BY <1>2, <2>1, <2>2, BeforeIs
<1>11. ASSUME NEW i \in Idx, i \notin C, NEW j \in wpo.preds[i], j \in C  PROVE j = x
  <2>1. /\ At(i) \in AllElements(Tree, Graph) /\ At(i) \notin Elements(Tree, Graph, h) /\ At(j) \in Elements(Tree, Graph, h) /\ j \in Idx
        /\ <<At(j), At(i)>> \in AllSucc(Tree, Graph)
    BY <1>5, <1>6, <1>11
  <2>2. At(j) = -h
    BY <1>1, <1>3, <2>1, LeftByExit
  <2> QED
    BY <1>2, <1>3, <2>1, <2>2, IndicesAre
<1> QED
  BY <1>8, <1>9, <1>10, <1>11 DEF C
-----------------------------------------------------------------------------
\* The vertices an edge between reached nodes connects.
LEMMA EdgeIs ==
  ASSUME BuildCorrect, NEW e \in Within(Reached)
  PROVE  \E u, v \in Vertex : e[1] = search.ref[u] /\ e[2] = search.ref[v] /\ <<u, v>> \in Graph
<1>1. e \in edges /\ e[1] \in Reached /\ e[2] \in Reached
  BY DEF Within
<1>2. Reached = {search.ref[w] : w \in Vertex} /\ Dfs(Tree, Graph)
  BY BuiltFacts
<1>3. PICK u \in Vertex, v \in Vertex : e[1] = search.ref[u] /\ e[2] = search.ref[v]
  BY <1>1, <1>2
<1>4. e = <<search.ref[u], search.ref[v]>>
  <2>1. IsGraphOver(edges)
    BY DEF BuildCorrect, SearchCorrect
  <2> QED
    BY <1>1, <1>3, <2>1 DEF IsGraphOver
<1>5. Vertex = Vertices(search)
  <2>1. Searched(edges, Root, search)
    BY LoopsAreLoops DEF BuildCorrect
  <2> QED
    BY <2>1, SearchedFacts DEF Vertex, Tree
<1>6. <<u, v>> \in Graph
  BY <1>1, <1>4, <1>5 DEF Graph, EdgesOf
<1> QED
  BY <1>3, <1>6

\* The loops that an edge leaves, as nodes.
LeftNodes(x, y) == {z \in Reached : x \in loops[z] /\ y \notin loops[z]}

\* They are those of the vertices,
LEMMA LeftNodesAre ==
  ASSUME BuildCorrect, NEW u \in Vertex, NEW v \in Vertex
  PROVE  LeftNodes(search.ref[u], search.ref[v]) = {search.ref[g] : g \in LeftOf(Tree, Graph, u, v)}
<1>1. /\ Reached = {search.ref[w] : w \in Vertex} /\ Dfs(Tree, Graph) /\ Vertex = 1 .. Len(Tree)
      /\ \A a, b \in Vertex : search.ref[a] = search.ref[b] => a = b
  BY BuiltFacts DEF Vertex
<1>2. ASSUME NEW g \in Vertex
      PROVE  search.ref[g] \in LeftNodes(search.ref[u], search.ref[v]) <=> g \in LeftOf(Tree, Graph, u, v)
  <2>1. search.ref[g] \in Reached
    BY <1>1
  <2>2. \A w \in Comp(Tree, Graph, g) : w \in Vertex
    BY <1>1, CompFacts
  <2>3. CASE HasBack(Tree, Graph, g)
    <3>1. loops[search.ref[g]] = {search.ref[w] : w \in Comp(Tree, Graph, g)}
      BY <2>3, LoopsAre
    <3>2. \A w \in Vertex : search.ref[w] \in loops[search.ref[g]] <=> w \in Comp(Tree, Graph, g)
      BY <1>1, <2>2, <3>1
    <3> QED
      BY <1>1, <2>1, <2>3, <3>2 DEF LeftNodes, LeftOf
  <2>4. CASE ~HasBack(Tree, Graph, g)
    <3>1. loops[search.ref[g]] = {}
      BY <2>4, LoopsAre
    <3> QED
      BY <2>4, <3>1 DEF LeftNodes, LeftOf
  <2> QED
    BY <2>3, <2>4
<1>3. ASSUME NEW z \in LeftNodes(search.ref[u], search.ref[v])
      PROVE  z \in {search.ref[g] : g \in LeftOf(Tree, Graph, u, v)}
  <2>1. PICK g \in Vertex : z = search.ref[g]
    BY <1>1 DEF LeftNodes
  <2> QED
    BY <1>2, <1>3, <2>1
<1>4. ASSUME NEW g \in LeftOf(Tree, Graph, u, v)  PROVE search.ref[g] \in LeftNodes(search.ref[u], search.ref[v])
  <2>1. g \in Vertex
    BY <1>1 DEF LeftOf
  <2> QED
    BY <1>2, <1>4, <2>1
<1> QED
  BY <1>3, <1>4

\* The element an edge comes from.
SourceOf(x, y) ==
  IF LeftNodes(x, y) = {} THEN IndexOf(x)
  ELSE IndexOf(CHOOSE z \in LeftNodes(x, y) : LeftNodes(x, y) \subseteq loops[z]) - 1

\* and the edge comes from the same element.
LEMMA SourceIs ==
  ASSUME BuildCorrect, NEW u \in Vertex, NEW v \in Vertex
  PROVE  LET i == SourceOf(search.ref[u], search.ref[v])
         IN  i \in Idx /\ At(i) = From(Tree, Graph, u, v)
<1> DEFINE x == search.ref[u]
           y == search.ref[v]
           L == LeftOf(Tree, Graph, u, v)
           N == LeftNodes(x, y)
<1>1. /\ Dfs(Tree, Graph) /\ Vertex = 1 .. Len(Tree)
      /\ \A a, b \in Vertex : search.ref[a] = search.ref[b] => a = b
  BY BuiltFacts DEF Vertex
<1>2. N = {search.ref[g] : g \in L}
  BY LeftNodesAre
<1>3. \A g \in L : g \in Vertex /\ HasBack(Tree, Graph, g) /\ u \in Comp(Tree, Graph, g) /\ v \notin Comp(Tree, Graph, g)
  BY <1>1 DEF LeftOf
<1> HIDE DEF N, L
<1>4. CASE L = {}
  <2>1. N = {}
    BY <1>2, <1>4
  <2>2. SourceOf(x, y) = IndexOf(x)
    BY <2>1 DEF SourceOf, N
  <2>3. From(Tree, Graph, u, v) = u
    BY <1>4 DEF From, L
  <2> QED
    BY <2>2, <2>3, IndexOfIs
<1>5. CASE L # {}
  <2>1. PICK g \in L : From(Tree, Graph, u, v) = -g /\ \A k \in L : g <= k
    <3>1. LeftOf(Tree, Graph, u, v) # {}
      BY <1>5 DEF L
    <3>2. \E g \in LeftOf(Tree, Graph, u, v) : From(Tree, Graph, u, v) = -g /\ \A k \in LeftOf(Tree, Graph, u, v) : g <= k
      BY <1>1, <3>1, FromCases
    <3> QED
      BY <3>2 DEF L
  <2>2. N # {} /\ search.ref[g] \in N
    BY <1>2
  <2>3. N \subseteq loops[search.ref[g]]
    <3>1. loops[search.ref[g]] = {search.ref[w] : w \in Comp(Tree, Graph, g)}
      BY <1>3, LoopsAre
    <3>2. \A k \in L : k \in Comp(Tree, Graph, g)
      BY <1>1, <1>3, <2>1, CompNested
    <3> QED
      BY <1>2, <3>1, <3>2
  <2> DEFINE z == CHOOSE z0 \in N : N \subseteq loops[z0]
  <2>4. z \in N /\ N \subseteq loops[z]
    BY <2>2, <2>3, Zenon
  <2>5. SourceOf(x, y) = IndexOf(z) - 1
    BY <2>2 DEF SourceOf, N
  <2> HIDE DEF z
  <2>6. PICK k \in L : z = search.ref[k]
    BY <1>2, <2>4
  <2>7. k = g
    <3>1. search.ref[g] \in loops[search.ref[k]]
      BY <2>2, <2>4, <2>6
    <3>2. loops[search.ref[k]] = {search.ref[w] : w \in Comp(Tree, Graph, k)}
      BY <1>3, LoopsAre
    <3>3. PICK w \in Comp(Tree, Graph, k) : search.ref[g] = search.ref[w]
      BY <3>1, <3>2
    <3>4. w \in Vertex /\ k <= w
      BY <1>1, <1>3, CompFacts
    <3>5. g = w
      BY <1>1, <1>3, <3>3, <3>4
    <3>6. g <= k
      BY <2>1
    <3> QED
      BY <1>1, <1>3, <3>4, <3>5, <3>6
  <2>8. IndexOf(search.ref[g]) - 1 \in Idx /\ At(IndexOf(search.ref[g]) - 1) = -g
    BY <1>3, ExitIsBelow
  <2> QED
    BY <2>1, <2>5, <2>6, <2>7, <2>8
<1> QED
  BY <1>4, <1>5

\* Nothing is scheduled before what it depends on.
LEMMA ScheduledEdges ==
  ASSUME BuildCorrect
  PROVE  EdgesAreScheduled
<1> SUFFICES ASSUME NEW e \in Within(Reached)
             PROVE  \/ e[1] \in loops[e[2]]
                    \/ SourceOf(e[1], e[2]) # IndexOf(e[2]) /\ IsBefore(Prefixes, SourceOf(e[1], e[2]), IndexOf(e[2]))
  BY DEF EdgesAreScheduled, SourceOf, LeftNodes
<1>1. PICK u, v \in Vertex : e[1] = search.ref[u] /\ e[2] = search.ref[v] /\ <<u, v>> \in Graph
  BY EdgeIs
<1>2. Dfs(Tree, Graph) /\ Vertex = 1 .. Len(Tree)
  BY BuiltFacts DEF Vertex
<1>3. CASE v \in Up(Tree, u)
  <2> DEFINE b == <<u, v>>
  <2>1. b \in Graph /\ b[1] = u /\ b[2] = v
    BY <1>1
  <2> HIDE DEF b
  <2>2. HasBack(Tree, Graph, v)
    BY <1>3, <2>1 DEF HasBack
  <2>3. u \in Comp(Tree, Graph, v)
    BY <1>1, <1>2, <1>3, CompSelf, CompBack
  <2>4. loops[e[2]] = {search.ref[w] : w \in Comp(Tree, Graph, v)}
    BY <1>1, <2>2, LoopsAre
  <2> QED
    BY <1>1, <2>3, <2>4
<1>4. CASE v \notin Up(Tree, u)
  <2> DEFINE i == SourceOf(search.ref[u], search.ref[v])
             k == IndexOf(search.ref[v])
  <2>1. i \in Idx /\ At(i) = From(Tree, Graph, u, v)
    BY SourceIs
  <2>2. k \in Idx /\ At(k) = v
    BY IndexOfIs
  <2>3. ASSUME NEW D, Waits(Tree, Graph, D), At(k) \in D  PROVE At(i) \in D
    BY <1>1, <1>2, <1>4, <2>1, <2>2, <2>3, EdgeIsBefore
  <2>4. IsBefore(Prefixes, i, k)
    BY <2>1, <2>2, <2>3, BeforeIs
  <2>5. i # k
    <3>1. From(Tree, Graph, u, v) # v
      <4>1. u # v
        BY <1>2, <1>4, UpSelf
      <4>2. CASE From(Tree, Graph, u, v) = u
        BY <4>1, <4>2
      <4>3. CASE From(Tree, Graph, u, v) # u
        <5>1. PICK g \in 1 .. Len(Tree) : From(Tree, Graph, u, v) = -g
          BY <1>2, <4>3, FromCases
        <5> QED
          BY <1>2, <5>1
      <4> QED
        BY <4>2, <4>3
    <3> QED
      BY <2>1, <2>2, <3>1
  <2> QED
    BY <1>1, <2>4, <2>5
<1> QED
  BY <1>3, <1>4

\* Sets that correspond have as many members.
LEMMA SameSize ==
  ASSUME NEW S, NEW U, IsFiniteSet(S), NEW f,
         \A x \in S : f[x] \in U,
         \A y \in U : \E x \in S : f[x] = y,
         \A x, y \in S : f[x] = f[y] => x = y
  PROVE  IsFiniteSet(U) /\ Cardinality(U) = Cardinality(S)
<1> DEFINE g == [x \in S |-> f[x]]
<1>1. g \in Injection(S, U)
  BY DEF Injection, IsInjective
<1>2. g \in Surjection(S, U)
  BY DEF Surjection
<1>3. ExistsBijection(S, U)
  <2> HIDE DEF g
  <2> QED
    BY <1>1, <1>2 DEF ExistsBijection, Bijection
<1> QED
  BY <1>3, FS_Bijection

\* As many indices as elements.
LEMMA IndicesCount ==
  ASSUME BuildCorrect, NEW X, X \subseteq AllElements(Tree, Graph)
  PROVE  LET J == {i \in Idx : At(i) \in X}
         IN  IsFiniteSet(J) /\ IsFiniteSet(X) /\ Cardinality(J) = Cardinality(X)
<1> DEFINE J == {i \in Idx : At(i) \in X}
           f == [i \in J |-> At(i)]
<1>1. IsFiniteSet(J)
  <2>1. Idx = 0 .. wpo.size - 1 /\ wpo.size \in Nat
    BY IndicesAre
  <2>2. IsFiniteSet(0 .. wpo.size - 1)
    BY <2>1, FS_Interval
  <2> QED
    BY <2>1, <2>2, FS_Subset
<1>2. \A i \in J : f[i] = At(i) /\ f[i] \in X
  OBVIOUS
<1>3. \A x \in X : \E i \in J : f[i] = x
  <2>1. ASSUME NEW x \in X  PROVE \E i \in J : f[i] = x
    <3>1. PICK i \in Idx : At(i) = x
      BY IndicesAre
    <3>2. i \in J
      BY <3>1
    <3> QED
      BY <1>2, <3>1, <3>2
  <2> QED
    BY <2>1
<1>4. \A i, j \in J : f[i] = f[j] => i = j
  <2>1. ASSUME NEW i \in J, NEW j \in J, f[i] = f[j]  PROVE i = j
    <3>1. i \in Idx /\ j \in Idx /\ At(i) = At(j)
      BY <1>2, <2>1
    <3> QED
      BY <3>1, IndicesAre
  <2> QED
    BY <2>1
<1> HIDE DEF J, f
<1>5. IsFiniteSet(X) /\ Cardinality(X) = Cardinality(J)
  BY <1>1, <1>2, <1>3, <1>4, SameSize
<1> QED
  BY <1>1, <1>5 DEF J
-----------------------------------------------------------------------------
\* When a loop is to be iterated again each of its elements is credited with
\* the predecessors that will not run again.
LEMMA CreditIs ==
  ASSUME BuildCorrect, NEW x \in Exits, NEW i \in Idx
  PROVE  (IF i \in DOMAIN wpo.outer[x] THEN wpo.outer[x][i] ELSE 0) = Cardinality(Counted(merge, VertexAt(x), At(i)))
<1>1. wpo = Ordering(merge, search) /\ Idx = 0 .. Len(merge.space) - 1
  BY BuiltFacts, IndicesAre
<1>2. x \in Idx /\ At(x) < 0
  <2>1. x \in Idx /\ wpo.type[x] = "Exit"
    BY DEF Exits
  <2> QED
    BY <2>1, ElementIs
<1> DEFINE from(k) == {o \in merge.outer : o[2] = At(k) /\ VertexAt(x) \in CountedAt(merge, o)}
<1>3. wpo.outer[x] = [k \in {j \in Idx : from(j) # {}} |-> Cardinality(from(k))]
  BY <1>1, <1>2 DEF Ordering, VertexAt, VertexOf, At
<1>4. from(i) = Counted(merge, VertexAt(x), At(i))
  BY DEF Counted
<1> HIDE DEF from
<1>5. CASE from(i) # {}
  BY <1>3, <1>4, <1>5
<1>6. CASE from(i) = {}
  <2>1. i \notin DOMAIN wpo.outer[x]
    BY <1>3, <1>6
  <2> QED
    BY <1>4, <1>6, <2>1, FS_EmptySet
<1> QED
  BY <1>5, <1>6

\* For each element of the loop of x the count is that of its constraints that
\* enter the loop.
LEMMA OuterCounts ==
  ASSUME BuildCorrect
  PROVE  OuterCountsExact
<1>1. Finished(Tree, Graph, merge) /\ Dfs(Tree, Graph) /\ Vertex = 1 .. Len(Tree)
  BY BuiltFacts DEF Vertex
<1> SUFFICES ASSUME NEW x \in Exits, NEW i \in Idx
             PROVE  (IF i \in DOMAIN wpo.outer[x] THEN wpo.outer[x][i] ELSE 0) =
                      IF i \in ElementsOf(x) THEN Cardinality(wpo.preds[i] \ ElementsOf(x)) ELSE 0
  BY DEF OuterCountsExact
<1> DEFINE h == VertexAt(x)
           C == ElementsOf(x)
           b == At(i)
           A == Counted(merge, h, b)
           B == Entered(Tree, Graph, h, b)
<1>2. x \in Idx /\ At(x) < 0
  <2>1. x \in Idx /\ wpo.type[x] = "Exit"
    BY DEF Exits
  <2> QED
    BY <2>1, ElementIs
<1>3. HasBack(Tree, Graph, h) /\ h \in Vertex
  BY <1>2, VertexIs
<1>4. C = {j \in Idx : At(j) \in Elements(Tree, Graph, h)}
  BY <1>2, <1>3, ElementsOfLoopAre
<1>5. (IF i \in DOMAIN wpo.outer[x] THEN wpo.outer[x][i] ELSE 0) = Cardinality(A)
  BY CreditIs
<1> HIDE DEF h, C, A, B
<1>6. B \subseteq AllElements(Tree, Graph)
  BY DEF B, Entered
<1>7. wpo.preds[i] \ C = {j \in Idx : At(j) \in B}
  BY <1>4, ElementIs, IndicesAre DEF B, Entered
<1>8. IsFiniteSet(B) /\ Cardinality(wpo.preds[i] \ C) = Cardinality(B)
  BY <1>6, <1>7, IndicesCount
<1>9. i \in C <=> b \in Elements(Tree, Graph, h)
  BY <1>4
<1> HIDE DEF b
<1>10. CASE b \in Comp(Tree, Graph, h)
  <2>1. b \in Elements(Tree, Graph, h)
    BY <1>1, <1>3, <1>10, ElementCases
  <2>2. /\ \A o \in A : o[1] \in B
        /\ \A y \in B : \E o \in A : o[1] = y
        /\ \A o, p \in A : o[1] = p[1] => o = p
    BY <1>1, <1>3, <1>10, OuterOfInside DEF A, B
  <2>3. IsFiniteSet(A) /\ Cardinality(A) = Cardinality(B)
    <3> DEFINE f == [y \in B |-> CHOOSE o \in A : o[1] = y]
    <3>1. ASSUME NEW y \in B  PROVE f[y] \in A /\ f[y][1] = y
      <4>1. \E o \in A : o[1] = y
        BY <2>2
      <4> QED
        BY <4>1
    <3> HIDE DEF f
    <3>2. \A o \in A : f[o[1]] = o
      BY <2>2, <3>1
    <3>3. \A y \in B : f[y] \in A
      BY <3>1
    <3>4. \A o \in A : \E y \in B : f[y] = o
      BY <2>2, <3>2
    <3>5. \A y, z \in B : f[y] = f[z] => y = z
      BY <3>1
    <3> QED
      BY <1>8, <3>3, <3>4, <3>5, SameSize
  <2> QED
    BY <1>5, <1>8, <1>9, <2>1, <2>3 DEF C
<1>11. CASE b \notin Comp(Tree, Graph, h)
  <2>1. A = {} /\ (b \in Elements(Tree, Graph, h) => B = {})
    BY <1>1, <1>3, <1>11, OuterElsewhere DEF A, B
  <2>2. Cardinality(A) = 0
    BY <2>1, FS_EmptySet
  <2>3. CASE b \in Elements(Tree, Graph, h)
    <3>1. Cardinality(B) = 0
      BY <2>1, <2>3, FS_EmptySet
    <3> QED
      BY <1>5, <1>8, <1>9, <2>2, <2>3, <3>1 DEF C
  <2>4. CASE b \notin Elements(Tree, Graph, h)
    BY <1>5, <1>9, <2>2, <2>4 DEF C
  <2> QED
    BY <2>3, <2>4
<1> QED
  BY <1>10, <1>11

\* One has a loop if it is the head of one.
LEMMA HasLoop ==
  ASSUME BuildCorrect, NEW v \in Vertex
  PROVE  loops[search.ref[v]] = {} <=> ~HasBack(Tree, Graph, v)
<1>1. loops[search.ref[v]] = IF HasBack(Tree, Graph, v) THEN {search.ref[w] : w \in Comp(Tree, Graph, v)} ELSE {}
  BY LoopsAre
<1>2. v \in Comp(Tree, Graph, v)
  BY CompSelf, BuiltFacts DEF Vertex
<1> QED
  BY <1>1, <1>2

\* There is an element for each node and another for each that has a loop.
LEMMA SizeIs ==
  ASSUME BuildCorrect
  PROVE  wpo.size = Cardinality(Reached) + Cardinality({x \in Reached : loops[x] # {}})
<1> DEFINE H == {v \in Vertex : HasBack(Tree, Graph, v)}
           M == {-v : v \in H}
           R == {x \in Reached : loops[x] # {}}
           A == AllElements(Tree, Graph)
           ref == search.ref
<1>1. /\ Reached = {search.ref[v] : v \in Vertex} /\ Len(Tree) \in Nat /\ Vertex = 1 .. Len(Tree)
      /\ \A v, w \in Vertex : search.ref[v] = search.ref[w] => v = w
  BY BuiltFacts DEF Vertex
<1>2. IsFiniteSet(Vertex) /\ IsFiniteSet(H)
  <2>1. IsFiniteSet(Vertex)
    BY <1>1, FS_Interval
  <2> QED
    BY <2>1, FS_Subset
<1>3. IsFiniteSet(Reached) /\ Cardinality(Reached) = Cardinality(Vertex)
  <2>1. /\ \A v \in Vertex : ref[v] \in Reached
        /\ \A x \in Reached : \E v \in Vertex : ref[v] = x
        /\ \A v, w \in Vertex : ref[v] = ref[w] => v = w
    BY <1>1
  <2> HIDE DEF ref
  <2> QED
    BY <1>2, <2>1, SameSize
<1>4. Cardinality(R) = Cardinality(H)
  <2>1. /\ \A v \in H : ref[v] \in R
        /\ \A x \in R : \E v \in H : ref[v] = x
        /\ \A v, w \in H : ref[v] = ref[w] => v = w
    <3>1. \A v \in Vertex : ref[v] \in Reached /\ (loops[ref[v]] = {} <=> ~HasBack(Tree, Graph, v))
      BY <1>1, HasLoop
    <3> QED
      BY <1>1, <3>1
  <2> HIDE DEF ref, R, H
  <2> QED
    BY <1>2, <2>1, SameSize
<1>5. IsFiniteSet(M) /\ Cardinality(M) = Cardinality(H)
  <2> DEFINE neg == [v \in H |-> -v]
  <2>1. \A v \in H : neg[v] = -v /\ v \in Int
    BY <1>1
  <2>2. /\ \A v \in H : neg[v] \in M
        /\ \A x \in M : \E v \in H : neg[v] = x
        /\ \A v, w \in H : neg[v] = neg[w] => v = w
    <3>1. \A v, w \in H : -v = -w => v = w
      BY <2>1
    <3> QED
      BY <2>1, <3>1
  <2> HIDE DEF neg, M, H
  <2> QED
    BY <1>2, <2>2, SameSize
<1>6. A = Vertex \cup M /\ Vertex \cap M = {}
  <2>1. \A x : x \in A <=> x \in Vertex \/ x \in M
    BY <1>1, AllElementsAre
  <2>2. \A x \in M : x \notin Vertex
    BY <1>1
  <2> HIDE DEF M, A
  <2> QED
    BY <2>1, <2>2
<1> HIDE DEF H, M, A, R
<1>7. Cardinality(A) = Cardinality(Vertex) + Cardinality(H)
  <2>1. Cardinality(A) = Cardinality(Vertex) + Cardinality(M) - Cardinality(Vertex \cap M)
    BY <1>2, <1>5, <1>6, FS_Union
  <2>2. Cardinality(Vertex \cap M) = 0
    BY <1>6, FS_EmptySet
  <2>3. Cardinality(Vertex) \in Nat /\ Cardinality(M) \in Nat
    BY <1>2, <1>5, FS_CardinalityType
  <2> QED
    BY <1>5, <2>1, <2>2, <2>3
<1>8. Cardinality(Idx) = Cardinality(A)
  <2>1. {i \in Idx : At(i) \in A} = Idx
    BY IndicesAre DEF A
  <2> QED
    BY <2>1, IndicesCount DEF A
<1>9. Cardinality(Idx) = wpo.size
  <2>1. Idx = 0 .. wpo.size - 1 /\ wpo.size \in Nat /\ wpo.size >= 1
    BY IndicesAre
  <2>2. Cardinality(0 .. wpo.size - 1) = IF 0 > wpo.size - 1 THEN 0 ELSE (wpo.size - 1) - 0 + 1
    BY <2>1, FS_Interval
  <2> QED
    BY <2>1, <2>2
<1> QED
  BY <1>3, <1>4, <1>7, <1>8, <1>9 DEF R

\* The elements are those of the graph and its loops.
LEMMA ElementsMatch ==
  ASSUME BuildCorrect
  PROVE  ElementsMatchLoops
<1>1. Dfs(Tree, Graph) /\ Vertex = 1 .. Len(Tree) /\ Len(Tree) \in Nat /\ Reached = {search.ref[v] : v \in Vertex}
  BY BuiltFacts DEF Vertex
<1>2. {wpo.node[i] : i \in Idx} = Reached
  <2>1. \A i \in Idx : wpo.node[i] = search.ref[VertexAt(i)] /\ VertexAt(i) \in Vertex
    BY ElementIs, VertexIs
  <2>2. ASSUME NEW v \in Vertex  PROVE \E i \in Idx : VertexAt(i) = v
    <3>1. v \in AllElements(Tree, Graph) /\ v \in Nat
      BY <1>1, AllElementsAre
    <3>2. PICK i \in Idx : At(i) = v
      BY <3>1, IndicesAre
    <3>3. VertexAt(i) = v
      BY <3>1, <3>2 DEF VertexAt, VertexOf
    <3> QED
      BY <3>3
  <2>3. ASSUME NEW x \in Reached  PROVE x \in {wpo.node[i] : i \in Idx}
    BY <1>1, <2>1, <2>2
  <2>4. \A i \in Idx : wpo.node[i] \in Reached
    BY <1>1, <2>1
  <2> QED
    BY <2>3, <2>4
<1>3. ASSUME NEW i \in Idx, loops[wpo.node[i]] = {}  PROVE wpo.type[i] = "Plain" /\ wpo.width[i] = 1
  <2>1. wpo.node[i] = search.ref[VertexAt(i)] /\ VertexAt(i) \in Vertex
    BY ElementIs, VertexIs
  <2>2. ~HasBack(Tree, Graph, VertexAt(i))
    BY <1>3, <2>1, HasLoop
  <2>3. ~(At(i) < 0)
    BY <2>2, VertexIs
  <2>4. Cardinality(Elements(Tree, Graph, VertexAt(i))) = 1
    BY <1>1, <2>1, <2>2, ElementsOfPlain
  <2> QED
    BY <2>2, <2>3, <2>4, ElementIs
<1>4. ASSUME NEW i \in Idx, loops[wpo.node[i]] # {}
      PROVE  /\ wpo.type[i] \in {"Head", "Exit"}
             /\ wpo.width[i] = Cardinality(ElementsOf(i))
             /\ wpo.type[i] = "Exit" => /\ wpo.node[HeadOfExit(wpo, i)] = wpo.node[i]
                                        /\ wpo.type[HeadOfExit(wpo, i)] = "Head"
  <2>1. wpo.node[i] = search.ref[VertexAt(i)] /\ VertexAt(i) \in Vertex
    BY ElementIs, VertexIs
  <2>2. HasBack(Tree, Graph, VertexAt(i))
    BY <1>4, <2>1, HasLoop
  <2>3. wpo.type[i] = IF At(i) < 0 THEN "Exit" ELSE "Head"
    BY <2>2, ElementIs
  <2>4. wpo.width[i] = Cardinality(ElementsOf(i))
    <3>1. Elements(Tree, Graph, VertexAt(i)) \subseteq AllElements(Tree, Graph)
      BY <1>1, <2>1, LoopElementsAreElements
    <3>2. ElementsOf(i) = {j \in Idx : At(j) \in Elements(Tree, Graph, VertexAt(i))}
      BY <2>2, ElementsOfLoopAre
    <3>3. Cardinality(ElementsOf(i)) = Cardinality(Elements(Tree, Graph, VertexAt(i)))
      BY <3>1, <3>2, IndicesCount
    <3> QED
      BY <3>3, ElementIs
  <2>5. ASSUME wpo.type[i] = "Exit"
        PROVE  wpo.node[HeadOfExit(wpo, i)] = wpo.node[i] /\ wpo.type[HeadOfExit(wpo, i)] = "Head"
    <3>1. At(i) < 0
      BY <2>3, <2>5
    <3> DEFINE j == i + 1
    <3>2. HeadOfExit(wpo, i) = j /\ j \in Idx /\ At(j) = -At(i) /\ At(i) \in Int
      BY <3>1, IndicesAre, VertexIs DEF HeadOfExit
    <3> HIDE DEF j
    <3>3. ~(At(j) < 0) /\ VertexAt(j) = VertexAt(i)
      <4>1. ~(At(j) < 0)
        BY <3>1, <3>2
      <4> QED
        BY <3>1, <3>2, <4>1 DEF VertexAt, VertexOf
    <3> QED
      BY <2>1, <2>2, <3>2, <3>3, ElementIs
  <2> QED
    BY <2>3, <2>4, <2>5
<1> QED
  BY <1>2, <1>3, <1>4, SizeIs DEF ElementsMatchLoops
-----------------------------------------------------------------------------
\* The ordering of every graph has an element for each reachable node and another,
\* right below it, for each that heads a loop, and get_size of an element is the
\* number of elements of its loop.
THEOREM ElementsAreLoops == Spec => []ElementsMatchLoops
<1>1. SearchCorrect /\ Recorded /\ MergeCorrect => ElementsMatchLoops
  <2>1. CASE Built
    BY <2>1, ElementsMatch DEF BuildCorrect
  <2>2. CASE ~Built
    BY <2>2 DEF ElementsMatchLoops
  <2> QED
    BY <2>1, <2>2
<1> QED
  BY <1>1, SearchIsCorrect, IsRecorded, MergeIsCorrect, PTL

\* Whatever the graph and the order of its successors, nothing is scheduled before
\* what it depends on but along the edges that close a loop, and what is left of a
\* loop is left through the exit of the outermost one.
THEOREM EdgesComeFirst == Spec => []EdgesAreScheduled
<1>1. SearchCorrect /\ Recorded /\ MergeCorrect => EdgesAreScheduled
  <2>1. CASE Built
    BY <2>1, ScheduledEdges DEF BuildCorrect
  <2>2. CASE ~Built
    BY <2>2 DEF EdgesAreScheduled
  <2> QED
    BY <2>1, <2>2
<1> QED
  BY <1>1, SearchIsCorrect, IsRecorded, MergeIsCorrect, PTL

\* The ordering of every graph starts at its entry and nowhere else, and has no
\* cycle: a scheduler that runs what waits for nothing never gets stuck.
THEOREM ScheduleIsOrdered == Spec => []ScheduleIsRootedOrder
<1>1. SearchCorrect /\ Recorded /\ MergeCorrect => ScheduleIsRootedOrder
  <2>1. CASE Built
    BY <2>1, RootedOrder DEF BuildCorrect
  <2>2. CASE ~Built
    BY <2>2 DEF ScheduleIsRootedOrder
  <2> QED
    BY <2>1, <2>2
<1> QED
  BY <1>1, SearchIsCorrect, IsRecorded, MergeIsCorrect, PTL

\* get_num_outer_preds is the number of predecessors that will not run again when
\* the loop is iterated, for every graph, every exit and every element.
THEOREM OuterCountsAreExact == Spec => []OuterCountsExact
<1>1. SearchCorrect /\ Recorded /\ MergeCorrect => OuterCountsExact
  <2>1. CASE Built
    BY <2>1, OuterCounts DEF BuildCorrect
  <2>2. CASE ~Built
    BY <2>2 DEF OuterCountsExact
  <2> QED
    BY <2>1, <2>2
<1> QED
  BY <1>1, SearchIsCorrect, IsRecorded, MergeIsCorrect, PTL

\* In the ordering of every graph an iteration of a loop starts at its head alone,
\* all of it comes before its exit, and nothing waits for it but for its exit.
THEOREM LoopsRunFromHeadToExit == Spec => []LoopRunsFromHeadToExit
<1>1. SearchCorrect /\ Recorded /\ MergeCorrect => LoopRunsFromHeadToExit
  <2>1. CASE Built
    BY <2>1, RunsFromHeadToExit DEF BuildCorrect
  <2>2. CASE ~Built
    BY <2>2 DEF LoopRunsFromHeadToExit
  <2> QED
    BY <2>1, <2>2
<1> QED
  BY <1>1, SearchIsCorrect, IsRecorded, MergeIsCorrect, PTL

-----------------------------------------------------------------------------
(***************************************************************************)
(* The ordering is one that the iterator over it, and the interprocedural  *)
(* analyzer, assume they are given: FixpointSchedule says what that is.    *)
(***************************************************************************)
F == INSTANCE FixpointSchedule

\* A program over the graph, with any node transformers.
Program(f) == [wpo |-> wpo, edges |-> edges, root |-> Root, transfer |-> f]

\* It is used in the order the iterator reads off it.
LEMMA BeforeIsBefore ==
  ASSUME NEW f, NEW i \in Idx, NEW k \in Idx
  PROVE  F!Before(Program(f), i, k) <=> IsBefore(Prefixes, i, k)
<1>1. F!Indices(Program(f)) = Idx
  BY DEF F!Indices, Program, Idx
<1>2. \A D : F!PredClosed(Program(f), D) <=> \A j \in D : wpo.preds[j] \subseteq D
  BY DEF F!PredClosed, Program
<1> QED
  BY <1>1, <1>2 DEF F!Before, IsBefore, Prefixes

\* What is before an element is before what that is before.
LEMMA BeforeTrans ==
  ASSUME NEW i, NEW j, NEW k, IsBefore(Prefixes, i, j), IsBefore(Prefixes, j, k)
  PROVE  IsBefore(Prefixes, i, k)
BY DEF IsBefore

\* What is before an element and not the element is before one it waits for.
LEMMA BeforePred ==
  ASSUME \A l \in Idx : wpo.preds[l] \subseteq Idx,
         NEW i \in Idx, NEW k \in Idx, i # k, IsBefore(Prefixes, i, k)
  PROVE  \E j \in wpo.preds[k] : IsBefore(Prefixes, i, j)
<1> SUFFICES ASSUME \A j \in wpo.preds[k] : ~IsBefore(Prefixes, i, j)  PROVE FALSE
  OBVIOUS
<1> DEFINE D == {j \in Idx : ~IsBefore(Prefixes, i, j)} \cup {k}
<1>1. ASSUME NEW j \in D, NEW l \in wpo.preds[j]  PROVE l \in D
  <2>1. l \in Idx /\ j \in Idx
    BY <1>1
  <2>2. CASE j = k
    BY <1>1, <2>1, <2>2
  <2>3. CASE j # k
    <3>1. IsBefore(Prefixes, l, j)
      BY <1>1, <2>1 DEF IsBefore, Prefixes
    <3>2. ~IsBefore(Prefixes, i, j)
      BY <2>3
    <3> QED
      BY <2>1, <3>1, <3>2, BeforeTrans
  <2> QED
    BY <2>2, <2>3
<1>2. D \subseteq Idx /\ D \in Prefixes
  BY <1>1 DEF Prefixes
<1>3. i \in D
  BY <1>2 DEF IsBefore
<1>4. IsBefore(Prefixes, i, i)
  BY DEF IsBefore
<1> QED
  BY <1>3, <1>4

\* No two elements are before each other.
LEMMA BeforeOneWay ==
  ASSUME \A l \in Idx : wpo.preds[l] \subseteq Idx,
         \A S \in SUBSET Idx : S # {} => \E l \in S : wpo.preds[l] \cap S = {},
         NEW i \in Idx, NEW k \in Idx, IsBefore(Prefixes, i, k), IsBefore(Prefixes, k, i)
  PROVE  i = k
<1> SUFFICES ASSUME i # k  PROVE FALSE
  OBVIOUS
<1> DEFINE S == {j \in Idx : IsBefore(Prefixes, i, j) /\ IsBefore(Prefixes, j, i)}
<1>1. i \in S /\ k \in S
  BY DEF IsBefore
<1>2. PICK m \in S : wpo.preds[m] \cap S = {}
  BY <1>1
<1>3. PICK o \in S : o # m
  BY <1>1
<1>4. IsBefore(Prefixes, o, m)
  BY BeforeTrans
<1>5. PICK j \in wpo.preds[m] : IsBefore(Prefixes, o, j)
  BY <1>3, <1>4, BeforePred
<1>6. j \in Idx /\ IsBefore(Prefixes, j, m)
  BY DEF IsBefore, Prefixes
<1>7. j \in S
  BY <1>5, <1>6, BeforeTrans
<1> QED
  BY <1>2, <1>7

\* The exit of a loop is one of its elements.
LEMMA ExitInLoop ==
  ASSUME BuildCorrect, NEW x \in Exits
  PROVE  x \in ElementsOf(x)
<1>1. x \in Idx /\ wpo.type[x] = "Exit"
  BY DEF Exits
<1>2. At(x) < 0
  BY <1>1, ElementIs
<1>3. VertexAt(x) \in Vertex /\ HasBack(Tree, Graph, VertexAt(x)) /\ wpo.node[x] = search.ref[VertexAt(x)]
  BY <1>1, <1>2, VertexIs, ElementIs
<1>4. loops[wpo.node[x]] = {search.ref[w] : w \in Comp(Tree, Graph, VertexAt(x))}
  BY <1>3, LoopsAre
<1>5. VertexAt(x) \in Comp(Tree, Graph, VertexAt(x))
  BY <1>3, CompSelf, BuiltFacts DEF Vertex
<1> QED
  BY <1>1, <1>3, <1>4, <1>5 DEF ElementsOf

\* The loop of an exit is what is between its head and the exit.
LEMMA LoopIsBetween ==
  ASSUME BuildCorrect, NEW x \in Exits
  PROVE  /\ x \in Idx /\ HeadOfExit(wpo, x) \in Idx /\ IsBefore(Prefixes, HeadOfExit(wpo, x), x)
         /\ ElementsOf(x) = {i \in Idx : IsBefore(Prefixes, HeadOfExit(wpo, x), i) /\ IsBefore(Prefixes, i, x)}
<1> DEFINE C == ElementsOf(x)
           h == HeadOfExit(wpo, x)
<1>1. /\ \A S \in SUBSET Idx : S # {} => \E l \in S : wpo.preds[l] \cap S = {}
      /\ \A l \in Idx : wpo.preds[l] \subseteq Idx
  <2>1. \A S \in SUBSET Idx : S # {} => \E l \in S : wpo.preds[l] \cap S = {}
    BY RootedOrder DEF ScheduleIsRootedOrder, BuildCorrect
  <2>2. ASSUME NEW l \in Idx  PROVE wpo.preds[l] \subseteq Idx
    <3>1. wpo.preds[l] = {j \in Idx : <<At(j), At(l)>> \in AllSucc(Tree, Graph)}
      BY ElementIs
    <3> QED
      BY <3>1
  <2> QED
    BY <2>1, <2>2
<1>2. /\ {i \in C : wpo.preds[i] \cap C = {}} = {h}
      /\ \A i \in C : IsBefore(Prefixes, i, x)
      /\ \A i \in Idx \ C : wpo.preds[i] \cap C \subseteq {x}
  BY RunsFromHeadToExit DEF LoopRunsFromHeadToExit, BuildCorrect
<1>3. x \in Idx /\ C \subseteq Idx
  BY DEF Exits, ElementsOf
<1> HIDE DEF C, h
<1>4. h \in C
  BY <1>2
<1>5. IsBefore(Prefixes, h, x)
  BY <1>2, <1>4
<1>6. ASSUME NEW i \in C  PROVE IsBefore(Prefixes, h, i)
  <2> DEFINE S == {j \in C : ~IsBefore(Prefixes, h, j)}
  <2> SUFFICES ASSUME S # {}  PROVE FALSE
    OBVIOUS
  <2>1. PICK m \in S : wpo.preds[m] \cap S = {}
    BY <1>1, <1>3
  <2>2. m # h
    BY <2>1 DEF IsBefore
  <2>3. PICK j \in wpo.preds[m] : j \in C
    BY <1>2, <2>1, <2>2
  <2>4. IsBefore(Prefixes, h, j)
    BY <2>1, <2>3
  <2>5. IsBefore(Prefixes, j, m)
    BY <2>3 DEF IsBefore, Prefixes
  <2> QED
    BY <2>1, <2>4, <2>5, BeforeTrans
<1>7. ASSUME NEW i \in Idx, i \notin C, IsBefore(Prefixes, h, i), IsBefore(Prefixes, i, x)  PROVE FALSE
  <2> DEFINE D == {j \in Idx : IsBefore(Prefixes, j, i)}
  <2>1. x \notin D
    <3>1. x \in C
      BY ExitInLoop DEF C
    <3> QED
      BY <1>1, <1>3, <1>7, <3>1, BeforeOneWay
  <2>2. ASSUME NEW j \in D \ C, NEW l \in wpo.preds[j]  PROVE l \in D \ C
    <3>1. l \in Idx /\ IsBefore(Prefixes, l, j)
      BY <1>1, <2>2 DEF IsBefore, Prefixes
    <3>2. l \in D
      BY <2>2, <3>1, BeforeTrans
    <3>3. l \notin C
      BY <1>2, <2>1, <2>2, <3>2
    <3> QED
      BY <3>2, <3>3
  <2>3. D \ C \in Prefixes /\ i \in D \ C
    BY <1>7, <2>2 DEF Prefixes, IsBefore
  <2> HIDE DEF D
  <2>4. h \in D \ C
    BY <1>7, <2>3 DEF IsBefore
  <2> QED
    BY <1>4, <2>4
<1>8. C = {i \in Idx : IsBefore(Prefixes, h, i) /\ IsBefore(Prefixes, i, x)}
  BY <1>2, <1>3, <1>6, <1>7
<1> QED
  BY <1>3, <1>4, <1>5, <1>8 DEF C, h

\* The constraints that are kept for the exits are finitely many.
LEMMA OuterIsFinite ==
  ASSUME BuildCorrect
  PROVE  IsFiniteSet(merge.outer)
<1> DEFINE P(e) == <<From(Tree, Graph, e[1], e[2]), e[2], From(Tree, Graph, e[2], e[1])>>
           B == {e \in TreeOrCross(Tree, Graph) : From(Tree, Graph, e[2], e[1]) # e[2]}
           f == [e \in B |-> P(e)]
<1>1. merge.outer = {P(e) : e \in B}
  BY BuiltFacts DEF Finished, OuterOf
<1>2. IsFiniteSet(B)
  <2>1. Dfs(Tree, Graph) /\ Len(Tree) \in Nat
    BY BuiltFacts
  <2>2. B \subseteq (1 .. Len(Tree)) \X (1 .. Len(Tree))
    BY <2>1 DEF Dfs, TreeOrCross
  <2>3. IsFiniteSet(1 .. Len(Tree))
    BY <2>1, FS_Interval
  <2> QED
    BY <2>2, <2>3, FS_Product, FS_Subset
<1>3. \A e \in B : f[e] = P(e)
  OBVIOUS
<1> HIDE DEF P, B
<1>4. f \in Surjection(B, merge.outer)
  BY <1>1 DEF Surjection
<1> QED
  BY <1>2, <1>4, FS_Surjection

\* The exit counts for each element of its loop what it waits for outside.
LEMMA OuterIsOf ==
  ASSUME BuildCorrect, NEW x \in Exits
  PROVE  wpo.outer[x] = [i \in {j \in ElementsOf(x) : wpo.preds[j] \ ElementsOf(x) # {}}
                           |-> Cardinality(wpo.preds[i] \ ElementsOf(x))]
<1> DEFINE C == ElementsOf(x)
           from(k) == {o \in merge.outer : o[2] = At(k) /\ VertexAt(x) \in CountedAt(merge, o)}
<1>1. wpo = Ordering(merge, search) /\ Idx = 0 .. Len(merge.space) - 1
  BY BuiltFacts, IndicesAre
<1>2. x \in Idx /\ At(x) < 0 /\ C \subseteq Idx
  <2>1. x \in Idx /\ wpo.type[x] = "Exit"
    BY DEF Exits
  <2> QED
    BY <2>1, ElementIs DEF ElementsOf
<1>3. wpo.outer[x] = [k \in {j \in Idx : from(j) # {}} |-> Cardinality(from(k))]
  BY <1>1, <1>2 DEF Ordering, VertexAt, VertexOf, At
<1>4. ASSUME NEW i \in Idx
      PROVE  Cardinality(from(i)) = IF i \in C THEN Cardinality(wpo.preds[i] \ C) ELSE 0
  <2>1. (IF i \in DOMAIN wpo.outer[x] THEN wpo.outer[x][i] ELSE 0) = Cardinality(from(i))
    BY CreditIs DEF Counted
  <2>2. (IF i \in DOMAIN wpo.outer[x] THEN wpo.outer[x][i] ELSE 0) = IF i \in C THEN Cardinality(wpo.preds[i] \ C) ELSE 0
    BY OuterCounts DEF OuterCountsExact, BuildCorrect
  <2> QED
    BY <2>1, <2>2
<1>5. ASSUME NEW i \in Idx  PROVE IsFiniteSet(wpo.preds[i] \ C)
  <2>1. IsFiniteSet(Idx)
    BY IndicesAre, FS_Interval DEF Idx
  <2>2. wpo.preds[i] \ C \subseteq Idx
    <3>1. wpo.preds[i] = {j \in Idx : <<At(j), At(i)>> \in AllSucc(Tree, Graph)}
      BY ElementIs
    <3> QED
      BY <3>1
  <2> QED
    BY <2>1, <2>2, FS_Subset
<1>6. ASSUME NEW i \in Idx  PROVE IsFiniteSet(from(i))
  <2>1. IsFiniteSet(merge.outer)
    BY OuterIsFinite
  <2> QED
    BY <2>1, FS_Subset
<1> HIDE DEF C, from
<1>7. ASSUME NEW i \in Idx  PROVE from(i) # {} <=> i \in C /\ wpo.preds[i] \ C # {}
  <2>1. from(i) = {} <=> Cardinality(from(i)) = 0
    BY <1>6, FS_EmptySet
  <2>2. wpo.preds[i] \ C = {} <=> Cardinality(wpo.preds[i] \ C) = 0
    BY <1>5, FS_EmptySet
  <2> QED
    BY <1>4, <2>1, <2>2
<1>8. {j \in Idx : from(j) # {}} = {j \in C : wpo.preds[j] \ C # {}}
  BY <1>2, <1>7
<1>9. \A i \in {j \in C : wpo.preds[j] \ C # {}} : Cardinality(from(i)) = Cardinality(wpo.preds[i] \ C)
  BY <1>2, <1>4
<1> QED
  BY <1>3, <1>8, <1>9 DEF C

\* An element that is not an exit is a reached node's, and no other's.
LEMMA NodesAre ==
  ASSUME BuildCorrect
  PROVE  /\ \A i \in Idx : wpo.node[i] \in Reached
         /\ \A i \in Idx \ Exits : i = IndexOf(wpo.node[i])
<1>1. ASSUME NEW i \in Idx  PROVE wpo.node[i] \in Reached
  BY ElementIs, VertexIs, BuiltFacts
<1>2. ASSUME NEW i \in Idx \ Exits  PROVE i = IndexOf(wpo.node[i])
  <2>1. wpo.type[i] # "Exit"
    BY DEF Exits
  <2>2. wpo.node[i] = search.ref[VertexAt(i)] /\ VertexAt(i) \in Vertex /\ At(i) = VertexAt(i)
    BY <2>1, ElementIs, VertexIs
  <2>3. IndexOf(wpo.node[i]) \in Idx /\ At(IndexOf(wpo.node[i])) = At(i)
    BY <2>2, IndexOfIs
  <2> QED
    BY <2>3, IndicesAre
<1> QED
  BY <1>1, <1>2

\* The element of an edge that leaves loops is the exit of one of them.
LEMMA SourceFromLeft ==
  ASSUME BuildCorrect, NEW x \in Reached, NEW y \in Reached, LeftNodes(x, y) # {}
  PROVE  \E z \in LeftNodes(x, y) : SourceOf(x, y) = IndexOf(z) - 1
<1>1. Reached = {search.ref[w] : w \in Vertex} /\ Dfs(Tree, Graph) /\ Vertex = 1 .. Len(Tree)
  BY BuiltFacts DEF Vertex
<1>2. PICK u \in Vertex, v \in Vertex : x = search.ref[u] /\ y = search.ref[v]
  BY <1>1
<1>3. LeftNodes(x, y) = {search.ref[g] : g \in LeftOf(Tree, Graph, u, v)}
  BY <1>2, LeftNodesAre
<1>4. PICK g \in LeftOf(Tree, Graph, u, v) : From(Tree, Graph, u, v) = -g
  BY <1>1, <1>3, FromCases
<1>5. SourceOf(x, y) \in Idx /\ At(SourceOf(x, y)) = -g
  BY <1>2, <1>4, SourceIs
<1>6. g \in Vertex /\ HasBack(Tree, Graph, g)
  BY <1>1 DEF LeftOf
<1>7. IndexOf(search.ref[g]) - 1 \in Idx /\ At(IndexOf(search.ref[g]) - 1) = -g
  BY <1>6, ExitIsBelow
<1>8. SourceOf(x, y) = IndexOf(search.ref[g]) - 1
  BY <1>5, <1>7, IndicesAre
<1> QED
  BY <1>3, <1>8

\* An edge leads forward or back to the head of a loop.
LEMMA EdgeForwardOrBack ==
  ASSUME BuildCorrect, NEW i \in Idx \ Exits, NEW k \in Idx \ Exits,
         <<wpo.node[i], wpo.node[k]>> \in Within(Reached)
  PROVE  \/ i # k /\ IsBefore(Prefixes, i, k)
         \/ k - 1 \in Exits /\ i \in ElementsOf(k - 1)
<1> DEFINE u == wpo.node[i]
           v == wpo.node[k]
           left == LeftNodes(u, v)
<1>1. i = IndexOf(u) /\ k = IndexOf(v) /\ u \in Reached /\ v \in Reached
  BY NodesAre
<1>2. Reached = {search.ref[w] : w \in Vertex}
  BY BuiltFacts
<1>3. ASSUME NEW x \in Reached, u \in loops[x]
      PROVE  /\ IndexOf(x) - 1 \in Exits /\ HeadOfExit(wpo, IndexOf(x) - 1) = IndexOf(x)
             /\ i \in ElementsOf(IndexOf(x) - 1)
  <2>1. PICK w \in Vertex : x = search.ref[w]
    BY <1>2
  <2>2. HasBack(Tree, Graph, w)
    BY <1>3, <2>1, HasLoop
  <2>3. IndexOf(x) - 1 \in Idx /\ At(IndexOf(x) - 1) = -w /\ w \in Int /\ 0 < w
    BY <2>1, <2>2, ExitIsBelow, BuiltFacts DEF Vertex
  <2>4. VertexAt(IndexOf(x) - 1) = w /\ At(IndexOf(x) - 1) < 0
    BY <2>3 DEF VertexAt, VertexOf
  <2>5. wpo.type[IndexOf(x) - 1] = "Exit" /\ wpo.node[IndexOf(x) - 1] = x
    BY <2>1, <2>3, <2>4, ElementIs
  <2>6. IndexOf(x) \in Int
    BY <2>1, IndexOfIs, IndicesAre
  <2> QED
    BY <1>3, <2>3, <2>5, <2>6 DEF Exits, ElementsOf, HeadOfExit
<1>4. CASE u \in loops[v]
  BY <1>1, <1>3, <1>4
<1>5. CASE u \notin loops[v]
  <2> DEFINE from == SourceOf(u, v)
  <2>1. from # k /\ IsBefore(Prefixes, from, k)
    <3>1. \A e \in Within(Reached) :
             \/ e[1] \in loops[e[2]]
             \/ SourceOf(e[1], e[2]) # IndexOf(e[2]) /\ IsBefore(Prefixes, SourceOf(e[1], e[2]), IndexOf(e[2]))
      BY ScheduledEdges DEF EdgesAreScheduled, SourceOf, LeftNodes, BuildCorrect
    <3> DEFINE e == <<u, v>>
    <3>2. e \in Within(Reached) /\ e[1] = u /\ e[2] = v
      OBVIOUS
    <3> HIDE DEF e
    <3> QED
      BY <1>1, <1>5, <3>1, <3>2
  <2>2. CASE left = {}
    BY <1>1, <2>1, <2>2 DEF SourceOf
  <2>3. CASE left # {}
    <3>1. from \in Exits /\ i \in ElementsOf(from)
      <4>1. PICK x \in left : from = IndexOf(x) - 1
        BY <1>1, <2>3, SourceFromLeft
      <4> QED
        BY <1>3, <4>1 DEF LeftNodes
    <3>2. IsBefore(Prefixes, i, from)
      BY <3>1, RunsFromHeadToExit DEF LoopRunsFromHeadToExit, BuildCorrect
    <3>3. i # k
      BY <2>3 DEF LeftNodes
    <3> QED
      BY <2>1, <3>2, <3>3, BeforeTrans
  <2> QED
    BY <2>2, <2>3
<1> QED
  BY <1>4, <1>5

\* The instance counts alike.
LEMMA SameCardinality == ASSUME NEW S PROVE F!Cardinality(S) = Cardinality(S)
  BY DEF F!Cardinality, Cardinality

\* The ordering fits the graph.
LEMMA ProgramIsScheduled ==
  ASSUME BuildCorrect, NEW f
  PROVE  F!IsScheduled(Program(f), Node)
<1> DEFINE p == Program(f)
<1>1. /\ p.wpo = wpo /\ p.edges = edges /\ F!Indices(p) = Idx /\ F!Exits(p) = Exits
      /\ F!Vertices(p) = Idx \ Exits
  BY DEF F!Indices, F!Exits, F!Vertices, Program, Idx, Exits
<1>2. \A i, k \in Idx : F!Before(p, i, k) <=> IsBefore(Prefixes, i, k)
  BY BeforeIsBefore
<1>3. ASSUME NEW x \in Exits
      PROVE  /\ x + 1 \in Idx \ Exits /\ F!Before(p, x + 1, x)
             /\ F!LoopOf(p, x) = ElementsOf(x)
             /\ wpo.node[x] = wpo.node[x + 1]
  <2>1. x \in Idx /\ x + 1 \in Idx /\ HeadOfExit(wpo, x) = x + 1 /\ IsBefore(Prefixes, x + 1, x)
    BY LoopIsBetween DEF HeadOfExit
  <2>2. ElementsOf(x) = {i \in Idx : IsBefore(Prefixes, x + 1, i) /\ IsBefore(Prefixes, i, x)}
    BY <2>1, LoopIsBetween
  <2>3. F!LoopOf(p, x) = ElementsOf(x)
    BY <1>1, <1>2, <2>1, <2>2 DEF F!LoopOf
  <2>4. x + 1 \notin Exits
    <3>1. wpo.type[x] = "Exit"
      BY DEF Exits
    <3>2. At(x) < 0 /\ At(x) \in Int
      BY <2>1, <3>1, ElementIs, VertexIs
    <3>3. At(x + 1) = -At(x)
      BY <2>1, <3>2, IndicesAre
    <3>4. ~(At(x + 1) < 0)
      BY <3>2, <3>3
    <3>5. wpo.type[x + 1] # "Exit"
      BY <2>1, <3>4, ElementIs
    <3> QED
      BY <3>5 DEF Exits
  <2>5. wpo.node[x] = wpo.node[x + 1]
    <3>1. ElementsMatchLoops /\ wpo.type[x] = "Exit"
      BY ElementsMatch DEF Exits
    <3> QED
      BY <2>1, <3>1 DEF ElementsMatchLoops, BuildCorrect
  <2> QED
    BY <1>2, <2>1, <2>3, <2>4, <2>5
<1> HIDE DEF p
<1>4. wpo.size \in Nat \ {0}
  BY IndicesAre
<1>5. ASSUME NEW i \in Idx
      PROVE  /\ wpo.preds[i] \subseteq Idx
             /\ wpo.succs[i] = {j \in Idx : i \in wpo.preds[j]}
             /\ wpo.preds[i] = {} <=> i = wpo.size - 1
  <2>1. wpo.preds[i] \subseteq Idx
    <3>1. wpo.preds[i] = {j \in Idx : <<At(j), At(i)>> \in AllSucc(Tree, Graph)}
      BY ElementIs
    <3> QED
      BY <3>1
  <2>2. wpo.succs[i] = {j \in Idx : i \in wpo.preds[j]}
    <3>1. wpo = Ordering(merge, search) /\ Idx = 0 .. Len(merge.space) - 1
      BY BuiltFacts, IndicesAre
    <3>2. wpo.succs[i] = {j \in Idx : <<At(i), At(j)>> \in merge.succ}
      BY <3>1 DEF Ordering, At
    <3>3. \A j \in Idx : wpo.preds[j] = {l \in Idx : <<At(l), At(j)>> \in merge.succ}
      BY <3>1 DEF Ordering, At
    <3> QED
      BY <3>2, <3>3
  <2>3. wpo.preds[i] = {} <=> i = wpo.size - 1
    BY RootedOrder DEF ScheduleIsRootedOrder, BuildCorrect, Entry
  <2> QED
    BY <2>1, <2>2, <2>3
<1>6. \A S \in SUBSET Idx : S # {} => \E i \in S : wpo.preds[i] \cap S = {}
  BY RootedOrder DEF ScheduleIsRootedOrder, BuildCorrect
<1>7. ASSUME NEW x \in Exits
      PROVE  LET loop == F!LoopOf(p, x)
             IN  /\ x + 1 \in F!Vertices(p) /\ F!Before(p, x + 1, x)
                 /\ wpo.node[x] = wpo.node[x + 1]
                 /\ \A i \in Idx \ loop : wpo.preds[i] \cap loop \subseteq {x}
                 /\ wpo.outer[x] = [i \in {j \in loop : wpo.preds[j] \ loop # {}}
                                       |-> Cardinality(wpo.preds[i] \ loop)]
  <2>1. \A i \in Idx \ ElementsOf(x) : wpo.preds[i] \cap ElementsOf(x) \subseteq {x}
    BY RunsFromHeadToExit DEF LoopRunsFromHeadToExit, BuildCorrect
  <2> QED
    BY <1>1, <1>3, <2>1, OuterIsOf
<1>8. \A i \in Idx \ Exits : wpo.node[i] \in Reached /\ wpo.node[i] \in Node
  BY NodesAre DEF Reached, ReachableIn
<1>9. ASSUME NEW i \in Idx \ Exits, NEW k \in Idx \ Exits
      PROVE  /\ wpo.node[i] = wpo.node[k] => i = k
             /\ <<wpo.node[i], wpo.node[k]>> \in edges =>
                  \/ i # k /\ F!Before(p, i, k)
                  \/ k - 1 \in Exits /\ i \in F!LoopOf(p, k - 1)
  <2>1. wpo.node[i] = wpo.node[k] => i = k
    <3>1. i = IndexOf(wpo.node[i]) /\ k = IndexOf(wpo.node[k])
      BY NodesAre
    <3> QED
      BY <3>1
  <2>2. <<wpo.node[i], wpo.node[k]>> \in edges => <<wpo.node[i], wpo.node[k]>> \in Within(Reached)
    BY <1>8 DEF Within
  <2> QED
    BY <1>2, <1>3, <2>1, <2>2, EdgeForwardOrBack
<1>10. edges \subseteq Node \X Node
  BY DEF BuildCorrect, SearchCorrect, IsGraphOver
<1>11. F!Indices(p) = Idx /\ p.wpo = wpo /\ p.edges = edges
  BY <1>1
<1>12. /\ p.wpo.size \in Nat \ {0}
       /\ \A i \in Idx : /\ p.wpo.preds[i] \subseteq Idx
                         /\ p.wpo.succs[i] = {j \in Idx : i \in p.wpo.preds[j]}
                         /\ p.wpo.preds[i] = {} <=> i = p.wpo.size - 1
       /\ \A S \in SUBSET Idx : S # {} => \E i \in S : p.wpo.preds[i] \cap S = {}
  BY <1>4, <1>5, <1>6, <1>11
<1>13. \A x \in F!Exits(p) :
         LET loop == F!LoopOf(p, x)
         IN  /\ x + 1 \in F!Vertices(p) /\ F!Before(p, x + 1, x)
             /\ p.wpo.node[x] = p.wpo.node[x + 1]
             /\ \A i \in Idx \ loop : p.wpo.preds[i] \cap loop \subseteq {x}
             /\ p.wpo.outer[x] = [i \in {j \in loop : p.wpo.preds[j] \ loop # {}}
                                     |-> F!Cardinality(p.wpo.preds[i] \ loop)]
  BY <1>1, <1>7, <1>11, SameCardinality
<1>14. \A i \in F!Vertices(p) : p.wpo.node[i] \in Node
  BY <1>1, <1>8, <1>11
<1>15. \A i, k \in F!Vertices(p) :
         /\ p.wpo.node[i] = p.wpo.node[k] => i = k
         /\ <<p.wpo.node[i], p.wpo.node[k]>> \in p.edges =>
               \/ i # k /\ F!Before(p, i, k)
               \/ k - 1 \in F!Exits(p) /\ i \in F!LoopOf(p, k - 1)
  BY <1>1, <1>9, <1>11
<1>16. p.edges \subseteq Node \X Node
  BY <1>10, <1>11
<1>17. F!IsScheduled(p, Node)
  BY <1>11, <1>12, <1>13, <1>14, <1>15, <1>16, Zenon DEF F!IsScheduled
<1> QED
  BY <1>17 DEF p

\* The ordering that is constructed is what the iterators rely on, whatever
\* the graph and the order in which successors are looked at.
FitsGraph == Built => \A f : F!IsScheduled(Program(f), Node)

THEOREM OrderingFitsGraph == Spec => []FitsGraph
<1>1. SearchCorrect /\ Recorded /\ MergeCorrect => FitsGraph
  <2>1. CASE Built
    BY <2>1, ProgramIsScheduled DEF BuildCorrect, FitsGraph
  <2>2. CASE ~Built
    BY <2>2 DEF FitsGraph
  <2> QED
    BY <2>1, <2>2
<1> QED
  BY <1>1, SearchIsCorrect, IsRecorded, MergeIsCorrect, PTL
=============================================================================
