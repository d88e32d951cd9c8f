----------------------- MODULE ParallelFixpointProofs -----------------------
(***************************************************************************)
(* The parallel fixpoint iterator, for every well-formed program and any   *)
(* number of threads: no element is started twice or early, the tables     *)
(* need no lock, nothing is left over, the result covers what the nodes    *)
(* make of it, and it is the one the sequential iterator computes.         *)
(*                                                                         *)
(* The invariant is about a set D the program does not have: the elements  *)
(* that are done.  A loop that is iterated again is done no longer.  A     *)
(* counter is the number of predecessors that are done and have given      *)
(* their credit, so the credits on their way must be known as well.        *)
(*                                                                         *)
(* The result does not depend on the schedule because the algorithm, with  *)
(* threads, queue and counters left out, lets any element that is due take *)
(* its turn, and two such turns can be taken in either order.  The threads *)
(* take turns, and so does the queue.                                      *)
(***************************************************************************)
EXTENDS SequentialFixpoint, FiniteSetTheorems, TLAPS

\* The definitions of ParallelFixpoint as functions of the program.
PredsOf(p, i) == p.wpo.preds[i]
EntryOf(p)    == p.wpo.size - 1
HeadOf(p, i)  == IF i \in Exits(p) THEN i + 1 ELSE i
NodeAt(p, i)  == p.wpo.node[HeadOf(p, i)]
Edge(p, i, k) == <<NodeAt(p, i), NodeAt(p, k)>> \in p.edges

Follows(p, i)     == {<<j, 1>> : j \in {k \in Indices(p) : i \in PredsOf(p, k)}}
Reentered(p, x)   == {j \in LoopOf(p, x) : PredsOf(p, j) \ LoopOf(p, x) # {}}
Outside(p, x, j)  == PredsOf(p, j) \ LoopOf(p, x)
LoopShares(p, x)  == {<<j, Cardinality(Outside(p, x, j))>> : j \in Reentered(p, x)}
-----------------------------------------------------------------------------
(***************************************************************************)
(* The ordering.                                                           *)
(***************************************************************************)
\* What comes before a member of a closed set is in it, and what comes
\* before an element whose predecessors are in it.
LEMMA BeforeClosed ==
  ASSUME NEW p, NEW D \in SUBSET Indices(p), PredClosed(p, D),
         NEW k \in Indices(p), NEW i, Before(p, i, k)
  PROVE  /\ k \in D => i \in D
         /\ PredsOf(p, k) \subseteq D /\ i # k => i \in D
<1>1. k \in D => i \in D
  BY DEF Before
<1>2. ASSUME PredsOf(p, k) \subseteq D, i # k  PROVE i \in D
  <2> DEFINE E == D \cup {k}
  <2>1. E \in SUBSET Indices(p) /\ k \in E
    OBVIOUS
  <2>2. PredClosed(p, E)
    BY <1>2 DEF PredClosed, PredsOf
  <2>3. i \in E
    BY <2>1, <2>2 DEF Before
  <2> QED
    BY <1>2, <2>3
<1> QED
  BY <1>1, <1>2

LEMMA OrderFacts ==
  ASSUME NEW p \in Programs
  PROVE  /\ IsFiniteSet(Indices(p))
         /\ EntryOf(p) \in Indices(p)
         /\ \A i \in Indices(p) : PredsOf(p, i) \subseteq Indices(p)
         /\ \A i \in Indices(p) : PredsOf(p, i) = {} <=> i = EntryOf(p)
         /\ \A S \in SUBSET Indices(p) : S # {} => \E i \in S : PredsOf(p, i) \cap S = {}
         /\ \A i \in Indices(p) : IsFiniteSet(PredsOf(p, i)) /\ i \notin PredsOf(p, i)
<1>1. WellFormed(p)
  BY ProgramsAssumption
<1>2. p.wpo.size \in Nat \ {0}
  BY <1>1 DEF WellFormed, IsScheduled
<1>3. IsFiniteSet(Indices(p))
  BY <1>2, FS_Interval DEF Indices
<1>4. EntryOf(p) \in Indices(p)
  BY <1>2 DEF Indices, EntryOf
<1>5. \A i \in Indices(p) : PredsOf(p, i) \subseteq Indices(p)
  BY <1>1 DEF WellFormed, IsScheduled, PredsOf
<1>6. \A i \in Indices(p) : PredsOf(p, i) = {} <=> i = EntryOf(p)
  BY <1>1 DEF WellFormed, IsScheduled, PredsOf, EntryOf
<1>7. \A S \in SUBSET Indices(p) : S # {} => \E i \in S : PredsOf(p, i) \cap S = {}
  BY <1>1 DEF WellFormed, IsScheduled, PredsOf
<1>8. ASSUME NEW i \in Indices(p)
      PROVE  IsFiniteSet(PredsOf(p, i)) /\ i \notin PredsOf(p, i)
  <2>1. IsFiniteSet(PredsOf(p, i))
    BY <1>3, <1>5, FS_Subset
  <2>2. {i} \in SUBSET Indices(p) /\ {i} # {}
    OBVIOUS
  <2>3. PredsOf(p, i) \cap {i} = {}
    BY <1>7, <2>2
  <2> QED
    BY <2>1, <2>3
<1> QED
  BY <1>3, <1>4, <1>5, <1>6, <1>7, <1>8

LEMMA LoopFacts ==
  ASSUME NEW p \in Programs, NEW x \in Exits(p)
  PROVE  /\ x \in Indices(p) /\ LoopOf(p, x) \subseteq Indices(p)
         /\ HeadOf(p, x) = x + 1 /\ HeadOf(p, x) \in Vertices(p) /\ HeadOf(p, x) # x
         /\ x \in LoopOf(p, x) /\ HeadOf(p, x) \in LoopOf(p, x)
         /\ \A i \in Indices(p) \ LoopOf(p, x) : PredsOf(p, i) \cap LoopOf(p, x) \subseteq {x}
         /\ {<<j, p.wpo.outer[x][j]>> : j \in DOMAIN p.wpo.outer[x]} = LoopShares(p, x)
<1> DEFINE loop == LoopOf(p, x)
<1>1. WellFormed(p)
  BY ProgramsAssumption
<1>2. x \in Indices(p) /\ loop \subseteq Indices(p)
  BY DEF Exits, LoopOf
<1>3. x + 1 \in Vertices(p) /\ Before(p, x + 1, x)
  BY <1>1 DEF WellFormed, IsScheduled
<1>4. HeadOf(p, x) = x + 1
  BY DEF HeadOf
<1>5. HeadOf(p, x) # x
  BY <1>3, <1>4 DEF Vertices
<1>6. x \in loop
  BY <1>2, <1>3 DEF LoopOf, Before
<1>7. x + 1 \in loop
  BY <1>3 DEF LoopOf, Before, Vertices
<1>8. \A i \in Indices(p) \ loop : PredsOf(p, i) \cap loop \subseteq {x}
  BY <1>1 DEF WellFormed, IsScheduled, PredsOf
<1>9. p.wpo.outer[x] = [i \in Reentered(p, x) |-> Cardinality(Outside(p, x, i))]
  BY <1>1 DEF WellFormed, IsScheduled, Reentered, Outside, PredsOf
<1>10. DOMAIN p.wpo.outer[x] = Reentered(p, x)
  BY <1>9
<1>11. \A j \in Reentered(p, x) : p.wpo.outer[x][j] = Cardinality(Outside(p, x, j))
  BY <1>9
<1>12. {<<j, p.wpo.outer[x][j]>> : j \in DOMAIN p.wpo.outer[x]} = LoopShares(p, x)
  BY <1>10, <1>11 DEF LoopShares
<1> HIDE DEF loop
<1> QED
  BY <1>2, <1>3, <1>4, <1>5, <1>6, <1>7, <1>8, <1>12 DEF loop

\* When all before an exit is done, its whole loop but the exit is; and an
\* element of a loop that is done has its head done.
LEMMA LoopDone ==
  ASSUME NEW p \in Programs, NEW x \in Exits(p),
         NEW D \in SUBSET Indices(p), PredClosed(p, D)
  PROVE  /\ PredsOf(p, x) \subseteq D => LoopOf(p, x) \ {x} \subseteq D
         /\ x \in D => LoopOf(p, x) \subseteq D
         /\ \A i \in LoopOf(p, x) : i \in D => HeadOf(p, x) \in D
         /\ \A i \in LoopOf(p, x) :
              PredsOf(p, i) \subseteq D /\ i # HeadOf(p, x) => HeadOf(p, x) \in D
<1>1. x \in Indices(p) /\ LoopOf(p, x) \subseteq Indices(p) /\ HeadOf(p, x) = x + 1
  BY LoopFacts
<1>2. \A i \in LoopOf(p, x) : Before(p, x + 1, i) /\ Before(p, i, x)
  BY DEF LoopOf
<1> QED
  BY <1>1, <1>2, BeforeClosed

\* The entry can only be the head of a loop, and no exit.
LEMMA EntryFacts ==
  ASSUME NEW p \in Programs, NEW x \in Exits(p)
  PROVE  /\ x # EntryOf(p)
         /\ EntryOf(p) \in LoopOf(p, x) => HeadOf(p, x) = EntryOf(p)
<1> DEFINE n == EntryOf(p)
<1>1. PredsOf(p, n) = {} /\ n \in Indices(p)
  BY OrderFacts
<1>2. PredClosed(p, {}) /\ {} \in SUBSET Indices(p)
  BY DEF PredClosed
<1>3. x # n
  BY <1>1, <1>2, LoopDone, LoopFacts
<1>4. n \in LoopOf(p, x) => HeadOf(p, x) = n
  BY <1>1, <1>2, LoopDone
<1> QED
  BY <1>3, <1>4

LEMMA VertexFacts ==
  ASSUME NEW p \in Programs
  PROVE  /\ Vertices(p) \cup Exits(p) = Indices(p)
         /\ \A i \in Vertices(p) : HeadOf(p, i) = i /\ i \notin Exits(p)
         /\ \A i \in Indices(p) : HeadOf(p, i) \in Vertices(p) /\ NodeAt(p, i) \in DOMAIN p.transfer
         /\ \A i, k \in Indices(p) : NodeAt(p, i) = NodeAt(p, k) => HeadOf(p, i) = HeadOf(p, k)
         /\ \A x, y \in Exits(p) : HeadOf(p, x) = HeadOf(p, y) => x = y
         /\ p.edges \subseteq (DOMAIN p.transfer) \X (DOMAIN p.transfer)
<1>1. WellFormed(p)
  BY ProgramsAssumption
<1>2. Vertices(p) \cup Exits(p) = Indices(p)
  BY DEF Vertices, Exits
<1>3. \A i \in Vertices(p) : HeadOf(p, i) = i /\ i \notin Exits(p)
  BY DEF Vertices, HeadOf
<1>4. \A i \in Indices(p) : HeadOf(p, i) \in Vertices(p)
  BY <1>2, <1>3, LoopFacts
<1>5. \A i \in Vertices(p) : p.wpo.node[i] \in DOMAIN p.transfer
  BY <1>1 DEF WellFormed, IsScheduled
<1>6. \A i \in Indices(p) : NodeAt(p, i) \in DOMAIN p.transfer
  BY <1>4, <1>5 DEF NodeAt
<1>7. \A i, k \in Vertices(p) : p.wpo.node[i] = p.wpo.node[k] => i = k
  BY <1>1 DEF WellFormed, IsScheduled
<1>8. \A i, k \in Indices(p) : NodeAt(p, i) = NodeAt(p, k) => HeadOf(p, i) = HeadOf(p, k)
  BY <1>4, <1>7 DEF NodeAt
<1>9. \A x \in Exits(p) : x \in Int
  BY <1>1 DEF WellFormed, IsScheduled, Exits, Indices
<1>10. \A x, y \in Exits(p) : HeadOf(p, x) = HeadOf(p, y) => x = y
  BY <1>9, LoopFacts
<1>11. p.edges \subseteq (DOMAIN p.transfer) \X (DOMAIN p.transfer)
  BY <1>1 DEF WellFormed, IsScheduled
<1> QED
  BY <1>2, <1>3, <1>4, <1>6, <1>8, <1>10, <1>11

\* An edge leads forward in the ordering, or to the head of a loop around it.
LEMMA EdgeFacts ==
  ASSUME NEW p \in Programs, NEW i \in Vertices(p), NEW k \in Vertices(p), Edge(p, i, k)
  PROVE  \/ i # k /\ Before(p, i, k)
         \/ \E x \in Exits(p) : HeadOf(p, x) = k /\ i \in LoopOf(p, x)
<1>1. WellFormed(p)
  BY ProgramsAssumption
<1>2. HeadOf(p, i) = i /\ HeadOf(p, k) = k
  BY VertexFacts
<1>3. <<p.wpo.node[i], p.wpo.node[k]>> \in p.edges
  BY <1>2 DEF Edge, NodeAt
<1>4. \/ i # k /\ Before(p, i, k)
      \/ k - 1 \in Exits(p) /\ i \in LoopOf(p, k - 1)
  BY <1>1, <1>3 DEF WellFormed, IsScheduled
<1>5. k - 1 \in Exits(p) => HeadOf(p, k - 1) = k
  BY <1>1 DEF HeadOf, Vertices, Indices, WellFormed, IsScheduled
<1> QED
  BY <1>4, <1>5
-----------------------------------------------------------------------------
(***************************************************************************)
(* Numbers and values.                                                     *)
(***************************************************************************)
\* A set of numbers has a least member.
LEMMA LeastNumber ==
  ASSUME NEW S, S \subseteq Nat, S # {}
  PROVE  \E m \in S : \A k \in S : m <= k
<1>1. PICK x \in S : TRUE
  OBVIOUS
<1> DEFINE N == 0 .. x
           Below(k) == {j \in S : j < k}
           T == {Below(k) : k \in {j \in S : j <= x}}
           R == StrictSubsetOrdering(N)
<1>2. IsWellFoundedOn(R, SUBSET N)
  <2>1. IsFiniteSet(N)
    BY <1>1, FS_Interval
  <2>2. FiniteSubsetsOf(N) = SUBSET N
    BY <2>1, FS_FiniteSubsetsOfFinite
  <2> QED
    BY <2>2, FS_StrictSubsetOrderingWellFounded
<1>3. T \subseteq SUBSET N /\ T # {}
  <2>1. ASSUME NEW k \in S, k <= x, NEW j \in Below(k)  PROVE j \in N
    <3>1. j \in Nat /\ k \in Nat /\ j < k /\ x \in Nat
      BY <1>1
    <3> QED
      BY <2>1, <3>1
  <2>2. x <= x
    BY <1>1
  <2> QED
    BY <1>1, <2>1, <2>2
<1>4. \E U \in T : \A V \in T : <<V, U>> \notin R
  <2> HIDE DEF T, R
  <2> QED
    BY <1>2, <1>3, WFMin
<1>5. PICK m \in S : m <= x /\ \A V \in T : <<V, Below(m)>> \notin R
  BY <1>4
<1>6. ASSUME NEW k \in S, ~(m <= k)  PROVE FALSE
  <2>1. k < m /\ k <= x /\ k \in Nat /\ m \in Nat
    BY <1>1, <1>5, <1>6
  <2>2. k \in Below(m) /\ k \notin Below(k)
    BY <2>1
  <2>3. ASSUME NEW j \in Below(k)  PROVE j \in Below(m)
    <3>1. j \in S /\ j \in Nat /\ j < k
      OBVIOUS
    <3>2. j < m
      BY <2>1, <3>1
    <3> QED
      BY <3>1, <3>2
  <2>4. Below(k) \in T /\ Below(m) \in T
    BY <1>5, <2>1
  <2>5. Below(k) \in SUBSET N /\ Below(m) \in SUBSET N
    BY <1>3, <2>4
  <2> HIDE DEF Below, N
  <2>6. <<Below(k), Below(m)>> \in R
    BY <2>2, <2>3, <2>5 DEF StrictSubsetOrdering
  <2> QED
    BY <1>5, <2>4, <2>6
<1> QED
  BY <1>6

\* A finite one has a greatest.
LEMMA GreatestNumber ==
  ASSUME NEW S, S \subseteq Nat, IsFiniteSet(S), S # {}
  PROVE  \E m \in S : \A k \in S : k <= m
<1> DEFINE Above(k) == {j \in S : k < j}
           T == {Above(k) : k \in S}
           R == StrictSubsetOrdering(S)
<1>1. IsWellFoundedOn(R, SUBSET S)
  <2>1. FiniteSubsetsOf(S) = SUBSET S
    BY FS_FiniteSubsetsOfFinite
  <2> QED
    BY <2>1, FS_StrictSubsetOrderingWellFounded
<1>2. T \subseteq SUBSET S /\ T # {}
  OBVIOUS
<1>3. \E U \in T : \A V \in T : <<V, U>> \notin R
  <2> HIDE DEF T, R
  <2> QED
    BY <1>1, <1>2, WFMin
<1>4. PICK m \in S : \A V \in T : <<V, Above(m)>> \notin R
  BY <1>3
<1>5. ASSUME NEW k \in S, ~(k <= m)  PROVE FALSE
  <2>1. m < k /\ k \in Nat /\ m \in Nat
    BY <1>5
  <2>2. k \in Above(m) /\ k \notin Above(k)
    BY <2>1
  <2>3. ASSUME NEW j \in Above(k)  PROVE j \in Above(m)
    <3>1. j \in S /\ j \in Nat /\ k < j
      OBVIOUS
    <3>2. m < j
      BY <2>1, <3>1
    <3> QED
      BY <3>1, <3>2
  <2>4. Above(k) \in T /\ Above(m) \in T /\ Above(k) \in SUBSET S /\ Above(m) \in SUBSET S
    OBVIOUS
  <2> HIDE DEF Above
  <2>5. <<Above(k), Above(m)>> \in R
    BY <2>2, <2>3, <2>4 DEF StrictSubsetOrdering
  <2> QED
    BY <1>4, <2>4, <2>5
<1> QED
  BY <1>5

LEMMA GreatestFacts ==
  ASSUME NEW S \in SUBSET Value, S # {}
  PROVE  Greatest(S) \in S /\ \A x \in S : x <= Greatest(S)
<1>1. IsFiniteSet(S) /\ S \subseteq Nat
  <2>1. S \subseteq 0 .. Top /\ Top \in Nat
    BY ValuesAssumption DEF Value
  <2>2. IsFiniteSet(0 .. Top)
    BY <2>1, FS_Interval
  <2>3. IsFiniteSet(S)
    BY <2>1, <2>2, FS_Subset
  <2>4. S \subseteq Nat
    BY <2>1
  <2> QED
    BY <2>3, <2>4
<1>2. \E m \in S : \A x \in S : x <= m
  BY <1>1, GreatestNumber
<1> QED
  BY <1>2, Zenon DEF Greatest

LEMMA ValueFacts ==
  ASSUME NEW a \in Value, NEW b \in Value
  PROVE  /\ Join(a, b) \in Value /\ a <= Join(a, b) /\ b <= Join(a, b)
         /\ Widen(a, b) \in Value
BY ValuesAssumption DEF Value, Join, Widen

LEMMA TransferFacts ==
  ASSUME NEW p \in Programs, NEW n \in DOMAIN p.transfer, NEW a \in Value
  PROVE  /\ p.transfer[n][a] \in Value
         /\ \A b \in Value : a <= b => p.transfer[n][a] <= p.transfer[n][b]
BY ProgramsAssumption DEF WellFormed, IsScheduled
-----------------------------------------------------------------------------
(***************************************************************************)
(* The algorithm without threads, queue and counters: any element whose    *)
(* predecessors are done takes its turn.                                   *)
(***************************************************************************)
\* What is done, and the tables.
RunState(p) ==
  [done     : SUBSET Indices(p),
   entry    : [DOMAIN p.transfer -> Value],
   exit     : [DOMAIN p.transfer -> Value],
   iterated : [DOMAIN p.transfer -> BOOLEAN]]

Good(p, s) == s \in RunState(p) /\ PredClosed(p, s.done)

Due(p, s, i) == i \in Indices(p) \ s.done /\ PredsOf(p, i) \subseteq s.done

\* What the turn of i makes of what is done and of the tables at its node.
IncomingAt(p, v, s, i) == SeqIncoming(p, v, s, NodeAt(p, i))
EntryAt(p, s, i)       == s.entry[NodeAt(p, i)]
JoinedAt(p, v, s, i)   == Join(EntryAt(p, s, i), IncomingAt(p, v, s, i))
GoesRound(p, v, s, i)  == i \in Exits(p) /\ ~(IncomingAt(p, v, s, i) <= EntryAt(p, s, i))
NewDone(p, v, s, i) ==
  IF GoesRound(p, v, s, i) THEN s.done \ LoopOf(p, i) ELSE s.done \cup {i}
NewEntry(p, v, s, i) ==
  IF i \notin Exits(p) THEN JoinedAt(p, v, s, i)
  ELSE IF ~GoesRound(p, v, s, i) THEN IncomingAt(p, v, s, i)
  ELSE IF s.iterated[NodeAt(p, i)] THEN Widen(EntryAt(p, s, i), IncomingAt(p, v, s, i))
  ELSE JoinedAt(p, v, s, i)
NewExit(p, v, s, i) ==
  IF i \notin Exits(p) THEN p.transfer[NodeAt(p, i)][JoinedAt(p, v, s, i)] ELSE s.exit[NodeAt(p, i)]
NewIterated(p, v, s, i) ==
  IF i \notin Exits(p) THEN s.iterated[NodeAt(p, i)] ELSE GoesRound(p, v, s, i)

After(p, v, s, i) ==
  [done     |-> NewDone(p, v, s, i),
   entry    |-> [s.entry EXCEPT ![NodeAt(p, i)] = NewEntry(p, v, s, i)],
   exit     |-> [s.exit EXCEPT ![NodeAt(p, i)] = NewExit(p, v, s, i)],
   iterated |-> [s.iterated EXCEPT ![NodeAt(p, i)] = NewIterated(p, v, s, i)]]

\* What flows into a node is a value, and depends on its predecessors only.
LEMMA InflowType ==
  ASSUME NEW p \in Programs, NEW v \in Value, NEW s, s.exit \in [DOMAIN p.transfer -> Value], NEW n
  PROVE  SeqIncoming(p, v, s, n) \in Value
<1> DEFINE S == {Bottom} \cup (IF n = p.root THEN {v} ELSE {})
                         \cup {s.exit[e[1]] : e \in {f \in p.edges : f[2] = n}}
<1>1. \A e \in p.edges : e[1] \in DOMAIN p.transfer
  BY VertexFacts
<1>2. S \in SUBSET Value /\ S # {}
  BY <1>1, ValuesAssumption DEF Bottom, Value
<1>3. SeqIncoming(p, v, s, n) = Greatest(S)
  BY DEF SeqIncoming
<1> HIDE DEF S
<1> QED
  BY <1>2, <1>3, GreatestFacts

LEMMA InflowSame ==
  ASSUME NEW p, NEW v, NEW s, NEW t, NEW n,
         \A e \in p.edges : e[2] = n => s.exit[e[1]] = t.exit[e[1]]
  PROVE  SeqIncoming(p, v, s, n) = SeqIncoming(p, v, t, n)
<1>1. {s.exit[e[1]] : e \in {f \in p.edges : f[2] = n}} = {t.exit[e[1]] : e \in {f \in p.edges : f[2] = n}}
  OBVIOUS
<1> QED
  BY <1>1 DEF SeqIncoming

\* Two elements that are due belong to different nodes, and neither's node
\* flows into the other's if it is no exit; nor is one in the loop of another.
LEMMA DueApart ==
  ASSUME NEW p \in Programs, NEW D \in SUBSET Indices(p), PredClosed(p, D),
         NEW e \in Indices(p), NEW f \in Indices(p), e # f,
         e \notin D, f \notin D, PredsOf(p, e) \subseteq D, PredsOf(p, f) \subseteq D
  PROVE  /\ NodeAt(p, e) # NodeAt(p, f)
         /\ e \in Vertices(p) =>
              \A g \in p.edges : g[2] = NodeAt(p, f) => g[1] # NodeAt(p, e)
         /\ e \in Exits(p) => f \notin LoopOf(p, e) /\ PredsOf(p, f) \cap LoopOf(p, e) = {}
<1>1. /\ Vertices(p) \cup Exits(p) = Indices(p)
      /\ \A i \in Vertices(p) : HeadOf(p, i) = i
  BY VertexFacts
<1>2. \A x \in Exits(p) : PredsOf(p, x) \subseteq D => HeadOf(p, x) \in D
  BY LoopDone, LoopFacts
<1>3. NodeAt(p, e) # NodeAt(p, f)
  <2> SUFFICES ASSUME NodeAt(p, e) = NodeAt(p, f)  PROVE FALSE
    OBVIOUS
  <2>1. HeadOf(p, e) = HeadOf(p, f)
    BY <1>1, VertexFacts
  <2>2. ~(e \in Exits(p) /\ f \in Exits(p))
    BY <1>1, <2>1, VertexFacts
  <2> QED
    BY <1>1, <1>2, <2>1, <2>2
<1>4. ASSUME e \in Vertices(p), NEW g \in p.edges, g[2] = NodeAt(p, f), g[1] = NodeAt(p, e)
      PROVE  FALSE
  <2> DEFINE k == HeadOf(p, f)
  <2>1. k \in Vertices(p) /\ NodeAt(p, f) = NodeAt(p, k) /\ HeadOf(p, k) = k
    BY <1>1, VertexFacts DEF NodeAt
  <2>2. Edge(p, e, k)
    <3>1. g = <<g[1], g[2]>>
      BY <1>1, VertexFacts
    <3> QED
      BY <1>4, <2>1, <3>1 DEF Edge
  <2> HIDE DEF k
  <2>3. k \in Indices(p) /\ (f \in Vertices(p) => k = f)
    BY <1>1, <2>1 DEF k
  <2>4. f \in Exits(p) => k \in D
    BY <1>1, <1>2 DEF k
  <2>5. CASE e # k /\ Before(p, e, k)
    BY <1>1, <2>3, <2>4, <2>5, BeforeClosed
  <2>6. ASSUME NEW y \in Exits(p), HeadOf(p, y) = k, e \in LoopOf(p, y)  PROVE FALSE
    <3>1. CASE f \in Exits(p)
      <4>1. y = f
        BY <1>1, <2>6, <3>1, VertexFacts DEF k
      <4> QED
        BY <1>1, <2>6, <4>1, LoopDone
    <3>2. CASE f \in Vertices(p)
      BY <1>1, <2>3, <2>6, <3>2, LoopDone
    <3> QED
      BY <1>1, <3>1, <3>2
  <2> QED
    BY <1>1, <1>4, <2>1, <2>2, <2>5, <2>6, EdgeFacts
<1>5. ASSUME e \in Exits(p)  PROVE f \notin LoopOf(p, e) /\ PredsOf(p, f) \cap LoopOf(p, e) = {}
  <2>1. LoopOf(p, e) \ {e} \subseteq D
    BY <1>5, LoopDone
  <2>2. f \notin LoopOf(p, e)
    BY <2>1
  <2>3. PredsOf(p, f) \cap LoopOf(p, e) \subseteq {e}
    BY <1>5, <2>2, LoopFacts
  <2> QED
    BY <2>2, <2>3
<1> QED
  BY <1>3, <1>4, <1>5

LEMMA GoodFacts ==
  ASSUME NEW p \in Programs, NEW v \in Value, NEW s, Good(p, s), NEW i, Due(p, s, i)
  PROVE  /\ i \in Indices(p) /\ i \notin s.done /\ PredsOf(p, i) \subseteq s.done
         /\ s.done \in SUBSET Indices(p) /\ PredClosed(p, s.done)
         /\ NodeAt(p, i) \in DOMAIN p.transfer
         /\ s.entry \in [DOMAIN p.transfer -> Value] /\ s.exit \in [DOMAIN p.transfer -> Value]
         /\ s.iterated \in [DOMAIN p.transfer -> BOOLEAN]
         /\ IncomingAt(p, v, s, i) \in Value /\ EntryAt(p, s, i) \in Value
         /\ JoinedAt(p, v, s, i) \in Value
         /\ i \in Exits(p) => LoopOf(p, i) \ {i} \subseteq s.done
<1>1. /\ i \in Indices(p) /\ i \notin s.done /\ PredsOf(p, i) \subseteq s.done
      /\ s.done \in SUBSET Indices(p) /\ PredClosed(p, s.done)
      /\ s.entry \in [DOMAIN p.transfer -> Value] /\ s.exit \in [DOMAIN p.transfer -> Value]
      /\ s.iterated \in [DOMAIN p.transfer -> BOOLEAN]
  BY DEF Due, Good, RunState
<1>2. NodeAt(p, i) \in DOMAIN p.transfer
  BY <1>1, VertexFacts
<1>3. IncomingAt(p, v, s, i) \in Value /\ EntryAt(p, s, i) \in Value
  BY <1>1, <1>2, InflowType DEF IncomingAt, EntryAt
<1>4. JoinedAt(p, v, s, i) \in Value
  BY <1>3, ValueFacts DEF JoinedAt
<1>5. i \in Exits(p) => LoopOf(p, i) \ {i} \subseteq s.done
  BY <1>1, LoopDone
<1> QED
  BY <1>1, <1>2, <1>3, <1>4, <1>5

LEMMA TurnValues ==
  ASSUME NEW p \in Programs, NEW v \in Value, NEW s, NEW i \in Indices(p),
         s.entry \in [DOMAIN p.transfer -> Value], s.exit \in [DOMAIN p.transfer -> Value],
         s.iterated \in [DOMAIN p.transfer -> BOOLEAN]
  PROVE  /\ NewEntry(p, v, s, i) \in Value /\ NewExit(p, v, s, i) \in Value
         /\ NewIterated(p, v, s, i) \in BOOLEAN
<1> DEFINE n == NodeAt(p, i)
<1>1. n \in DOMAIN p.transfer
  BY VertexFacts
<1>2. IncomingAt(p, v, s, i) \in Value /\ EntryAt(p, s, i) \in Value
  BY <1>1, InflowType DEF IncomingAt, EntryAt
<1>3. JoinedAt(p, v, s, i) \in Value /\ Widen(EntryAt(p, s, i), IncomingAt(p, v, s, i)) \in Value
  BY <1>2, ValueFacts DEF JoinedAt
<1>4. NewEntry(p, v, s, i) \in Value
  BY <1>2, <1>3 DEF NewEntry
<1>5. NewExit(p, v, s, i) \in Value
  <2>1. p.transfer[n][JoinedAt(p, v, s, i)] \in Value
    BY <1>1, <1>3, TransferFacts
  <2>2. s.exit[n] \in Value
    BY <1>1
  <2> QED
    BY <2>1, <2>2 DEF NewExit
<1>6. NewIterated(p, v, s, i) \in BOOLEAN
  <2>1. s.iterated[n] \in BOOLEAN
    BY <1>1
  <2> QED
    BY <2>1 DEF NewIterated, GoesRound
<1> QED
  BY <1>4, <1>5, <1>6

\* After a turn the state is good, and the element is not due again at once.
LEMMA AfterGood ==
  ASSUME NEW p \in Programs, NEW v \in Value, NEW s, Good(p, s), NEW i, Due(p, s, i)
  PROVE  Good(p, After(p, v, s, i)) /\ ~Due(p, After(p, v, s, i), i)
<1> DEFINE n == NodeAt(p, i)
           t == After(p, v, s, i)
           D == NewDone(p, v, s, i)
<1>1. /\ i \in Indices(p) /\ i \notin s.done /\ PredsOf(p, i) \subseteq s.done
      /\ s.done \in SUBSET Indices(p) /\ PredClosed(p, s.done)
      /\ n \in DOMAIN p.transfer
      /\ s.entry \in [DOMAIN p.transfer -> Value] /\ s.exit \in [DOMAIN p.transfer -> Value]
      /\ s.iterated \in [DOMAIN p.transfer -> BOOLEAN]
      /\ IncomingAt(p, v, s, i) \in Value /\ EntryAt(p, s, i) \in Value
      /\ JoinedAt(p, v, s, i) \in Value
  BY GoodFacts
<1>2. t.done = D /\ D \in SUBSET Indices(p)
  BY <1>1 DEF After, NewDone
<1>3. PredClosed(p, D)
  <2>1. CASE GoesRound(p, v, s, i)
    <3>1. D = s.done \ LoopOf(p, i) /\ i \in Exits(p)
      BY <2>1 DEF NewDone, GoesRound
    <3>2. ASSUME NEW j \in D, NEW k \in PredsOf(p, j)  PROVE k \in D
      <4>1. k \in s.done /\ j \in Indices(p) \ LoopOf(p, i)
        BY <1>1, <3>1, <3>2 DEF PredClosed, PredsOf
      <4>2. k \in LoopOf(p, i) => k = i
        BY <3>1, <4>1, LoopFacts
      <4> QED
        BY <1>1, <3>1, <4>1, <4>2
    <3> QED
      BY <3>2 DEF PredClosed, PredsOf
  <2>2. CASE ~GoesRound(p, v, s, i)
    BY <1>1, <2>2 DEF NewDone, PredClosed, PredsOf
  <2> QED
    BY <2>1, <2>2
<1>4. /\ NewEntry(p, v, s, i) \in Value /\ NewExit(p, v, s, i) \in Value
      /\ NewIterated(p, v, s, i) \in BOOLEAN
  BY <1>1, TurnValues
<1>5. t \in RunState(p)
  BY <1>1, <1>2, <1>4 DEF After, RunState
<1>6. ~Due(p, t, i)
  <2>1. CASE GoesRound(p, v, s, i)
    <3>1. D = s.done \ LoopOf(p, i) /\ i \in Exits(p)
      BY <2>1 DEF NewDone, GoesRound
    <3>2. PredsOf(p, i) \subseteq D => HeadOf(p, i) \in D
      BY <1>2, <1>3, <3>1, LoopDone, LoopFacts
    <3> QED
      BY <1>2, <3>1, <3>2, LoopFacts DEF Due
  <2>2. CASE ~GoesRound(p, v, s, i)
    BY <1>2, <2>2 DEF NewDone, Due
  <2> QED
    BY <2>1, <2>2
<1> QED
  BY <1>2, <1>3, <1>5, <1>6 DEF Good

\* A turn changes nothing that another element that is due looks at, which
\* stays due.
LEMMA OtherKept ==
  ASSUME NEW p \in Programs, NEW v \in Value, NEW s, Good(p, s),
         NEW a, NEW b, a # b, Due(p, s, a), Due(p, s, b), NEW t, t = After(p, v, s, a)
  PROVE  /\ Due(p, t, b)
         /\ IncomingAt(p, v, t, b) = IncomingAt(p, v, s, b)
         /\ EntryAt(p, t, b) = EntryAt(p, s, b)
         /\ t.exit[NodeAt(p, b)] = s.exit[NodeAt(p, b)]
         /\ t.iterated[NodeAt(p, b)] = s.iterated[NodeAt(p, b)]
<1>1. /\ a \in Indices(p) /\ a \notin s.done /\ PredsOf(p, a) \subseteq s.done
      /\ b \in Indices(p) /\ b \notin s.done /\ PredsOf(p, b) \subseteq s.done
      /\ s.done \in SUBSET Indices(p) /\ PredClosed(p, s.done)
      /\ s.entry \in [DOMAIN p.transfer -> Value] /\ s.exit \in [DOMAIN p.transfer -> Value]
      /\ s.iterated \in [DOMAIN p.transfer -> BOOLEAN]
      /\ NodeAt(p, a) \in DOMAIN p.transfer /\ NodeAt(p, b) \in DOMAIN p.transfer
  BY GoodFacts
<1>2. /\ NodeAt(p, a) # NodeAt(p, b)
      /\ a \in Vertices(p) =>
           \A g \in p.edges : g[2] = NodeAt(p, b) => g[1] # NodeAt(p, a)
      /\ a \in Exits(p) => b \notin LoopOf(p, a) /\ PredsOf(p, b) \cap LoopOf(p, a) = {}
  BY <1>1, DueApart
<1>3. Due(p, t, b)
  <2>1. t.done = NewDone(p, v, s, a)
    BY DEF After
  <2>2. GoesRound(p, v, s, a) => a \in Exits(p)
    BY DEF GoesRound
  <2> QED
    BY <1>1, <1>2, <2>1, <2>2 DEF Due, NewDone
<1>4. /\ EntryAt(p, t, b) = EntryAt(p, s, b)
      /\ t.exit[NodeAt(p, b)] = s.exit[NodeAt(p, b)]
      /\ t.iterated[NodeAt(p, b)] = s.iterated[NodeAt(p, b)]
  BY <1>1, <1>2 DEF After, EntryAt
<1>5. ASSUME NEW e \in p.edges, e[2] = NodeAt(p, b)  PROVE t.exit[e[1]] = s.exit[e[1]]
  <2>1. e[1] \in DOMAIN p.transfer
    BY VertexFacts
  <2>2. t.exit = [s.exit EXCEPT ![NodeAt(p, a)] = NewExit(p, v, s, a)]
    BY DEF After
  <2>3. CASE a \in Exits(p)
    BY <1>1, <2>1, <2>2, <2>3 DEF NewExit
  <2>4. CASE a \in Vertices(p)
    BY <1>1, <1>2, <1>5, <2>1, <2>2, <2>4
  <2> QED
    BY <1>1, <2>3, <2>4, VertexFacts
<1>6. IncomingAt(p, v, t, b) = IncomingAt(p, v, s, b)
  BY <1>5, InflowSame DEF IncomingAt
<1> QED
  BY <1>3, <1>4, <1>6

\* Two turns can be taken in either order.
LEMMA Diamond ==
  ASSUME NEW p \in Programs, NEW v \in Value, NEW s, Good(p, s),
         NEW a, NEW b, a # b, Due(p, s, a), Due(p, s, b)
  PROVE  After(p, v, After(p, v, s, a), b) = After(p, v, After(p, v, s, b), a)
<1> DEFINE ta == After(p, v, s, a)
           tb == After(p, v, s, b)
           n == NodeAt(p, a)
           m == NodeAt(p, b)
<1>1. /\ a \in Indices(p) /\ a \notin s.done /\ PredsOf(p, a) \subseteq s.done
      /\ b \in Indices(p) /\ b \notin s.done /\ PredsOf(p, b) \subseteq s.done
      /\ s.done \in SUBSET Indices(p) /\ PredClosed(p, s.done)
      /\ s.entry \in [DOMAIN p.transfer -> Value] /\ s.exit \in [DOMAIN p.transfer -> Value]
      /\ s.iterated \in [DOMAIN p.transfer -> BOOLEAN]
      /\ n \in DOMAIN p.transfer /\ m \in DOMAIN p.transfer
  BY GoodFacts
<1>2. /\ n # m
      /\ a \in Exits(p) => b \notin LoopOf(p, a)
      /\ b \in Exits(p) => a \notin LoopOf(p, b)
  BY <1>1, DueApart
<1>3. /\ IncomingAt(p, v, ta, b) = IncomingAt(p, v, s, b)
      /\ EntryAt(p, ta, b) = EntryAt(p, s, b)
      /\ ta.exit[m] = s.exit[m] /\ ta.iterated[m] = s.iterated[m]
  BY OtherKept
<1>4. /\ IncomingAt(p, v, tb, a) = IncomingAt(p, v, s, a)
      /\ EntryAt(p, tb, a) = EntryAt(p, s, a)
      /\ tb.exit[n] = s.exit[n] /\ tb.iterated[n] = s.iterated[n]
  BY OtherKept
<1>5. /\ GoesRound(p, v, ta, b) <=> GoesRound(p, v, s, b)
      /\ NewEntry(p, v, ta, b) = NewEntry(p, v, s, b)
      /\ NewExit(p, v, ta, b) = NewExit(p, v, s, b)
      /\ NewIterated(p, v, ta, b) = NewIterated(p, v, s, b)
  BY <1>3, Zenon DEF GoesRound, NewEntry, NewExit, NewIterated, JoinedAt
<1>6. /\ GoesRound(p, v, tb, a) <=> GoesRound(p, v, s, a)
      /\ NewEntry(p, v, tb, a) = NewEntry(p, v, s, a)
      /\ NewExit(p, v, tb, a) = NewExit(p, v, s, a)
      /\ NewIterated(p, v, tb, a) = NewIterated(p, v, s, a)
  BY <1>4, Zenon DEF GoesRound, NewEntry, NewExit, NewIterated, JoinedAt
<1>7. /\ ta.done = NewDone(p, v, s, a) /\ tb.done = NewDone(p, v, s, b)
      /\ ta.entry = [s.entry EXCEPT ![n] = NewEntry(p, v, s, a)]
      /\ tb.entry = [s.entry EXCEPT ![m] = NewEntry(p, v, s, b)]
      /\ ta.exit = [s.exit EXCEPT ![n] = NewExit(p, v, s, a)]
      /\ tb.exit = [s.exit EXCEPT ![m] = NewExit(p, v, s, b)]
      /\ ta.iterated = [s.iterated EXCEPT ![n] = NewIterated(p, v, s, a)]
      /\ tb.iterated = [s.iterated EXCEPT ![m] = NewIterated(p, v, s, b)]
  BY DEF After
<1>8. NewDone(p, v, ta, b) = NewDone(p, v, tb, a)
  <2>1. GoesRound(p, v, s, a) => a \in Exits(p)
    BY DEF GoesRound
  <2>2. GoesRound(p, v, s, b) => b \in Exits(p)
    BY DEF GoesRound
  <2> HIDE DEF ta, tb
  <2> QED
    BY <1>2, <1>5, <1>6, <1>7, <2>1, <2>2 DEF NewDone
<1> HIDE DEF ta, tb, n, m
<1>9. /\ [ta.entry EXCEPT ![m] = NewEntry(p, v, s, b)] = [tb.entry EXCEPT ![n] = NewEntry(p, v, s, a)]
      /\ [ta.exit EXCEPT ![m] = NewExit(p, v, s, b)] = [tb.exit EXCEPT ![n] = NewExit(p, v, s, a)]
      /\ [ta.iterated EXCEPT ![m] = NewIterated(p, v, s, b)]
           = [tb.iterated EXCEPT ![n] = NewIterated(p, v, s, a)]
  BY <1>1, <1>2, <1>7
<1>10. After(p, v, ta, b) = After(p, v, tb, a)
  BY <1>5, <1>6, <1>8, <1>9 DEF After, n, m
<1> QED
  BY <1>10 DEF ta, tb

\* n turns in a row, and what they lead to.
IsPath(p, v, q, n) ==
  \A k \in 0 .. n - 1 :
    \E i \in Indices(p) : Due(p, q[k], i) /\ q[k + 1] = After(p, v, q[k], i)
Leads(p, v, s, z, n) == \E q : q[0] = s /\ q[n] = z /\ IsPath(p, v, q, n)

LEMMA PathGood ==
  ASSUME NEW p \in Programs, NEW v \in Value, NEW n \in Nat, NEW q, IsPath(p, v, q, n), Good(p, q[0])
  PROVE  \A k \in 0 .. n : Good(p, q[k])
<1> SUFFICES ASSUME {k \in 0 .. n : ~Good(p, q[k])} # {}  PROVE FALSE
  OBVIOUS
<1> DEFINE B == {k \in 0 .. n : ~Good(p, q[k])}
<1>1. B \subseteq Nat
  OBVIOUS
<1>2. PICK m \in B : \A k \in B : m <= k
  BY <1>1, LeastNumber, Zenon
<1>3. m \in 0 .. n /\ ~Good(p, q[m]) /\ m # 0
  OBVIOUS
<1>4. m - 1 \in 0 .. n - 1 /\ m - 1 \in 0 .. n /\ (m - 1) + 1 = m /\ ~(m <= m - 1)
  BY <1>3
<1>5. Good(p, q[m - 1])
  BY <1>2, <1>4
<1>6. PICK i \in Indices(p) : Due(p, q[m - 1], i) /\ q[m] = After(p, v, q[m - 1], i)
  BY <1>4 DEF IsPath
<1> QED
  BY <1>3, <1>5, <1>6, AfterGood

\* A turn more.
LEMMA PathLonger ==
  ASSUME NEW p, NEW v, NEW s, NEW z, NEW n \in Nat, Leads(p, v, s, z, n),
         NEW i \in Indices(p), Due(p, z, i)
  PROVE  Leads(p, v, s, After(p, v, z, i), n + 1)
<1>1. PICK q : q[0] = s /\ q[n] = z /\ IsPath(p, v, q, n)
  BY DEF Leads
<1> DEFINE r == [k \in 0 .. n + 1 |-> IF k = n + 1 THEN After(p, v, z, i) ELSE q[k]]
<1>2. r[n + 1] = After(p, v, z, i) /\ \A k \in 0 .. n : r[k] = q[k]
  OBVIOUS
<1>3. r[0] = s /\ r[n] = z
  BY <1>1, <1>2
<1> HIDE DEF r
<1>4. ASSUME NEW k \in 0 .. (n + 1) - 1
      PROVE  \E j \in Indices(p) : Due(p, r[k], j) /\ r[k + 1] = After(p, v, r[k], j)
  <2>1. CASE k = n
    BY <1>2, <1>3, <2>1
  <2>2. CASE k # n
    <3>1. k \in 0 .. n - 1 /\ k \in 0 .. n /\ k + 1 \in 0 .. n
      BY <2>2
    <3>2. PICK j \in Indices(p) : Due(p, q[k], j) /\ q[k + 1] = After(p, v, q[k], j)
      BY <1>1, <3>1 DEF IsPath
    <3> QED
      BY <1>2, <3>1, <3>2
  <2> QED
    BY <2>1, <2>2
<1>5. IsPath(p, v, r, n + 1)
  BY <1>4 DEF IsPath
<1> QED
  BY <1>2, <1>3, <1>5 DEF Leads

\* Whatever is due takes its turn before the end.  It may as well take it
\* first: what the turns led to they still lead to, and one turn less is left.
LEMMA TurnFirst ==
  ASSUME NEW p \in Programs, NEW v \in Value, NEW s, Good(p, s), NEW z, z.done = Indices(p),
         NEW n \in Nat, Leads(p, v, s, z, n), NEW a, Due(p, s, a)
  PROVE  n > 0 /\ Leads(p, v, After(p, v, s, a), z, n - 1)
<1>1. PICK q : q[0] = s /\ q[n] = z /\ IsPath(p, v, q, n)
  BY DEF Leads
<1>2. \A k \in 0 .. n : Good(p, q[k])
  BY <1>1, PathGood
<1> DEFINE B == {k \in 0 .. n : ~Due(p, q[k], a)}
<1>3. n \in B /\ B \subseteq Nat
  BY <1>1 DEF Due
<1>4. PICK m \in B : \A k \in B : m <= k
  BY <1>3, LeastNumber, Zenon
<1>5. m \in 0 .. n /\ ~Due(p, q[m], a) /\ \A k \in 0 .. m - 1 : k \in 0 .. n /\ Due(p, q[k], a)
  BY <1>4
<1> HIDE DEF B
<1>6. m > 0 /\ n > 0
  BY <1>1, <1>5
<1> DEFINE r == [k \in 0 .. n - 1 |-> IF k < m THEN After(p, v, q[k], a) ELSE q[k + 1]]
<1>7. /\ \A k \in 0 .. m - 1 : r[k] = After(p, v, q[k], a)
      /\ \A k \in m .. n - 1 : r[k] = q[k + 1]
  <2>1. \A k \in 0 .. m - 1 : k \in 0 .. n - 1 /\ k < m
    BY <1>5
  <2>2. \A k \in m .. n - 1 : k \in 0 .. n - 1 /\ ~(k < m)
    BY <1>5
  <2> QED
    BY <2>1, <2>2
<1> HIDE DEF r
<1>8. ASSUME NEW k \in 0 .. m - 1
      PROVE  /\ k + 1 = m => q[k + 1] = After(p, v, q[k], a)
             /\ k + 1 < m =>
                  \E j \in Indices(p) : /\ Due(p, After(p, v, q[k], a), j)
                                        /\ After(p, v, q[k + 1], a) = After(p, v, After(p, v, q[k], a), j)
  <2>1. k \in 0 .. n - 1 /\ k \in 0 .. n /\ Due(p, q[k], a) /\ Good(p, q[k])
    BY <1>2, <1>5
  <2>2. PICK j \in Indices(p) : Due(p, q[k], j) /\ q[k + 1] = After(p, v, q[k], j)
    BY <1>1, <2>1 DEF IsPath
  <2>3. CASE j = a
    <3>1. ~Due(p, q[k + 1], a)
      BY <2>1, <2>2, <2>3, AfterGood
    <3>2. ~(k + 1 < m)
      BY <1>5, <3>1
    <3> QED
      BY <2>2, <2>3, <3>2
  <2>4. CASE j # a
    <3>1. Due(p, q[k + 1], a)
      BY <2>1, <2>2, <2>4, OtherKept
    <3>2. k + 1 # m
      BY <1>5, <3>1
    <3>3. Due(p, After(p, v, q[k], a), j)
      BY <2>1, <2>2, <2>4, OtherKept
    <3>4. After(p, v, After(p, v, q[k], a), j) = After(p, v, q[k + 1], a)
      BY <2>1, <2>2, <2>4, Diamond
    <3> QED
      BY <3>2, <3>3, <3>4
  <2> QED
    BY <2>3, <2>4
<1>9. r[0] = After(p, v, s, a)
  <2>1. 0 \in 0 .. m - 1
    BY <1>5, <1>6
  <2> QED
    BY <1>1, <1>7, <2>1
<1>10. r[n - 1] = z
  <2>1. CASE m = n
    <3>1. n - 1 \in 0 .. m - 1 /\ (n - 1) + 1 = n
      BY <1>6, <2>1
    <3> QED
      BY <1>1, <1>7, <1>8, <2>1, <3>1
  <2>2. CASE m # n
    <3>1. n - 1 \in m .. n - 1 /\ (n - 1) + 1 = n
      BY <1>5, <2>2
    <3> QED
      BY <1>1, <1>7, <3>1
  <2> QED
    BY <2>1, <2>2
<1>11. ASSUME NEW k \in 0 .. (n - 1) - 1
       PROVE  \E j \in Indices(p) : Due(p, r[k], j) /\ r[k + 1] = After(p, v, r[k], j)
  <2>1. k + 1 \in 0 .. n - 1 /\ (k + 1) + 1 = k + 2
    OBVIOUS
  <2>2. PICK j \in Indices(p) : Due(p, q[k + 1], j) /\ q[k + 2] = After(p, v, q[k + 1], j)
    BY <1>1, <2>1 DEF IsPath
  <2>3. CASE k + 1 < m
    <3>1. k \in 0 .. m - 1 /\ k + 1 \in 0 .. m - 1
      BY <1>5, <2>3
    <3> QED
      BY <1>7, <1>8, <2>3, <3>1
  <2>4. CASE k + 1 = m
    <3>1. k \in 0 .. m - 1 /\ k + 1 \in m .. n - 1
      BY <1>5, <2>4
    <3>2. r[k] = q[k + 1]
      BY <1>7, <1>8, <2>4, <3>1
    <3>3. r[k + 1] = q[k + 2]
      BY <1>7, <2>1, <3>1
    <3> QED
      BY <2>2, <3>2, <3>3
  <2>5. CASE m < k + 1
    <3>1. k \in m .. n - 1 /\ k + 1 \in m .. n - 1
      BY <1>5, <2>5
    <3>2. r[k] = q[k + 1] /\ r[k + 1] = q[k + 2]
      BY <1>7, <2>1, <3>1
    <3> QED
      BY <2>2, <3>2
  <2> QED
    BY <1>5, <2>3, <2>4, <2>5
<1>12. IsPath(p, v, r, n - 1)
  BY <1>11 DEF IsPath
<1> QED
  BY <1>6, <1>9, <1>10, <1>12 DEF Leads
-----------------------------------------------------------------------------
(***************************************************************************)
(* The invariant, given the set D of the elements that are done.           *)
(***************************************************************************)
Owes(w, j) == \E c \in todo[w] : c[1] = j

\* The predecessors of j whose credit the thread has still to give.
Owing(w, j) ==
  IF ~Owes(w, j) THEN {}
  ELSE IF pc[w] = "loop" THEN Outside(prog, elem[w], j)
  ELSE {elem[w]}

\* The predecessors of j that are done and have given their credit.
Paid(D, j) ==
  {i \in PredsOf(prog, j) \cap D : \A w \in Thread : i \notin Owing(w, j)}

\* It is time for j to run.
Ready(D, j) == j \notin D /\ Paid(D, j) = PredsOf(prog, j)

\* The thread will push the entry by hand.
ByHand(w) == pc[w] = "loop" /\ HeadOf(prog, elem[w]) = EntryOf(prog)

Delivering(w) == todo[w] # {} \/ ByHand(w)

\* The threads that have begun with j, or are about to push it.
RunsOn(w, j) == \/ pc[w] \in {"reset", "data"} /\ elem[w] = j
                \/ ByHand(w) /\ j = EntryOf(prog)
Runners(j) == {w \in Thread : RunsOn(w, j)}

DataOn(j) == \E w \in Thread : pc[w] = "data" /\ elem[w] = j

TypeInv == prog \in Programs /\ TypeOK

\* What is done is done with all before it; between runs all is.
DoneInv(D) == /\ D \subseteq Indices(prog)
              /\ PredClosed(prog, D)
              /\ Idle => D = Indices(prog)

\* Credits go to elements that are not done, from elements that are.
CreditInv(D) ==
  \A w \in Thread :
    /\ pc[w] \notin {"notify", "loop"} => todo[w] = {}
    /\ pc[w] = "notify" => todo[w] \subseteq Follows(prog, elem[w])
    /\ pc[w] = "loop" => /\ elem[w] \in Exits(prog)
                         /\ todo[w] \subseteq LoopShares(prog, elem[w])
    /\ \A c \in todo[w] : c[1] \notin D /\ Owing(w, c[1]) \subseteq D

\* No two threads owe the same credit, or deliver for the same element.
ApartInv ==
  \A w, v \in Thread :
    w # v => /\ \A j \in Indices(prog) : Owing(w, j) \cap Owing(v, j) = {}
             /\ Delivering(w) /\ Delivering(v) => elem[w] # elem[v]

CountInv(D) ==
  \A j \in Indices(prog) :
    counter[j] = IF j \in D \/ DataOn(j) THEN 0 ELSE Cardinality(Paid(D, j))

\* An element that is ready is waiting once or run by one thread; no other is.
OnceInv(D) ==
  \A j \in Indices(prog) :
    /\ Ready(D, j) => \/ waiting[j] = 1 /\ Runners(j) = {}
                      \/ waiting[j] = 0 /\ \E w \in Thread : Runners(j) = {w}
    /\ ~Ready(D, j) => waiting[j] = 0 /\ Runners(j) = {}

\* Only a loop that is not done has an iteration count.
IterInv(D) ==
  \A i \in Indices(prog) :
    iterated[NodeAt(prog, i)] =>
      \E x \in Exits(prog) : x \notin D /\ NodeAt(prog, x) = NodeAt(prog, i)

\* The state at the exit of a node that is done covers what the node makes of
\* the state at its entry, which covers what came before it; the head of a
\* loop that is done covers all that enters it.
Covers(i, k) == exit[NodeAt(prog, i)] <= entry[NodeAt(prog, k)]
ValueInv(D) ==
  /\ \A n \in Node : (\A i \in Vertices(prog) : NodeAt(prog, i) # n) => exit[n] = Bottom
  /\ \A k \in Vertices(prog) : k \in D =>
       LET n == NodeAt(prog, k) IN
       /\ prog.transfer[n][entry[n]] <= exit[n]
       /\ n = prog.root => init <= entry[n]
       /\ \A i \in Vertices(prog) :
            Edge(prog, i, k) /\ i # k /\ Before(prog, i, k) => Covers(i, k)
  /\ \A x \in Exits(prog) : x \in D =>
       \A i \in Vertices(prog) : Edge(prog, i, x) => Covers(i, x)

ControlInv(D) == DoneInv(D) /\ CreditInv(D) /\ ApartInv /\ CountInv(D) /\ OnceInv(D)
DataInv(D) == IterInv(D) /\ (runs > 0 => ValueInv(D))

\* A call of run() starts from here, and has come to this.
Fresh(p) ==
  [done     |-> {},
   entry    |-> [n \in DOMAIN p.transfer |-> Bottom],
   exit     |-> [n \in DOMAIN p.transfer |-> Bottom],
   iterated |-> [n \in DOMAIN p.transfer |-> FALSE]]
Now(D) == [done |-> D, entry |-> entry, exit |-> exit, iterated |-> iterated]

\* Some number of turns, one at a time, has led to where the threads are.
TurnsInv(D) == runs > 0 => \E n \in Nat : Leads(prog, init, Fresh(prog), Now(D), n)

Inv == TypeInv /\ \E D \in SUBSET Indices(prog) : ControlInv(D) /\ DataInv(D) /\ TurnsInv(D)
-----------------------------------------------------------------------------
LEMMA Bridge ==
  ASSUME prog \in Programs
  PROVE  /\ Idx = Indices(prog) /\ EntryIdx = EntryOf(prog)
         /\ EntryIdx \in Idx
         /\ \A i \in Idx : IsExit(i) <=> i \in Exits(prog)
         /\ \A i \in Idx : HeadIdx(i) = HeadOf(prog, i) /\ NodeOf(i) = NodeAt(prog, i)
         /\ \A i : NumPreds(i) = Cardinality(PredsOf(prog, i))
         /\ \A i \in Idx : ToSuccessors(i) = Follows(prog, i)
         /\ \A x \in Exits(prog) : ToLoop(x) = LoopShares(prog, x)
<1>1. Idx = Indices(prog) /\ EntryIdx = EntryOf(prog)
  BY DEF Idx, Indices, EntryIdx, EntryOf, Wpo
<1>2. \A i \in Idx : IsExit(i) <=> i \in Exits(prog)
  BY <1>1 DEF IsExit, Exits, Wpo
<1>3. \A i \in Idx : HeadIdx(i) = HeadOf(prog, i)
  BY <1>2 DEF HeadIdx, HeadOf
<1>4. \A i \in Idx : NodeOf(i) = NodeAt(prog, i)
  BY <1>3 DEF NodeOf, NodeAt, Wpo
<1>5. \A i : NumPreds(i) = Cardinality(PredsOf(prog, i))
  BY DEF NumPreds, PredsOf, Wpo
<1>6. ASSUME NEW i \in Idx  PROVE ToSuccessors(i) = Follows(prog, i)
  <2>1. WellFormed(prog)
    BY ProgramsAssumption
  <2>2. Wpo.succs[i] = {k \in Indices(prog) : i \in PredsOf(prog, k)}
    BY <1>1, <2>1 DEF WellFormed, IsScheduled, PredsOf, Wpo
  <2> QED
    BY <2>2 DEF ToSuccessors, Follows
<1>7. \A x \in Exits(prog) : ToLoop(x) = LoopShares(prog, x)
  BY LoopFacts DEF ToLoop, Wpo
<1> QED
  BY <1>1, <1>2, <1>3, <1>4, <1>5, <1>6, <1>7, OrderFacts

\* What a thread's credits stand for.
LEMMA OwingFacts ==
  ASSUME TypeInv, NEW D, DoneInv(D), CreditInv(D), NEW w \in Thread
  PROVE  /\ elem[w] \in Indices(prog)
         /\ \A c \in todo[w] :
              /\ c[1] \in Indices(prog) /\ c[1] \notin D /\ c[2] \in Nat
              /\ c = <<c[1], Cardinality(Owing(w, c[1]))>>
              /\ Owing(w, c[1]) # {}
              /\ Owing(w, c[1]) \subseteq PredsOf(prog, c[1]) \cap D
              /\ pc[w] = "loop" => c[1] \in LoopOf(prog, elem[w])
              /\ pc[w] # "loop" => Owing(w, c[1]) = {elem[w]}
         /\ \A j : ~Owes(w, j) => Owing(w, j) = {}
<1>1. elem[w] \in Indices(prog)
  BY Bridge DEF TypeInv, TypeOK
<1>2. \A j : ~Owes(w, j) => Owing(w, j) = {}
  BY DEF Owing
<1>3. ASSUME NEW c \in todo[w]
      PROVE  /\ c[1] \in Indices(prog) /\ c[1] \notin D /\ c[2] \in Nat
             /\ c = <<c[1], Cardinality(Owing(w, c[1]))>>
             /\ Owing(w, c[1]) # {}
             /\ Owing(w, c[1]) \subseteq PredsOf(prog, c[1]) \cap D
             /\ pc[w] = "loop" => c[1] \in LoopOf(prog, elem[w])
             /\ pc[w] # "loop" => Owing(w, c[1]) = {elem[w]}
  <2>1. c \in Indices(prog) \X Nat
    BY Bridge DEF TypeInv, TypeOK
  <2>2. Owes(w, c[1]) /\ c[1] \notin D /\ Owing(w, c[1]) \subseteq D
    BY DEF Owes, CreditInv
  <2>3. pc[w] \in {"notify", "loop"}
    BY DEF CreditInv
  <2>4. CASE pc[w] = "notify"
    <3>1. c \in Follows(prog, elem[w])
      BY <2>4 DEF CreditInv
    <3>2. PICK j \in Indices(prog) : elem[w] \in PredsOf(prog, j) /\ c = <<j, 1>>
      BY <3>1 DEF Follows
    <3>3. c[1] = j /\ Owing(w, c[1]) = {elem[w]}
      BY <2>2, <2>4, <3>2 DEF Owing
    <3>4. Cardinality({elem[w]}) = 1
      BY FS_Singleton
    <3> QED
      BY <2>1, <2>2, <2>4, <3>2, <3>3, <3>4
  <2>5. CASE pc[w] = "loop"
    <3>1. c \in LoopShares(prog, elem[w])
      BY <2>5 DEF CreditInv
    <3>2. PICK j \in Reentered(prog, elem[w]) :
                 c = <<j, Cardinality(Outside(prog, elem[w], j))>>
      BY <3>1 DEF LoopShares
    <3>3. c[1] = j /\ Owing(w, c[1]) = Outside(prog, elem[w], j)
      BY <2>2, <2>5, <3>2 DEF Owing
    <3>4. /\ Outside(prog, elem[w], j) # {} /\ Outside(prog, elem[w], j) \subseteq PredsOf(prog, j)
          /\ j \in LoopOf(prog, elem[w])
      BY DEF Reentered, Outside
    <3> QED
      BY <2>1, <2>2, <2>5, <3>2, <3>3, <3>4
  <2> QED
    BY <2>3, <2>4, <2>5
<1> QED
  BY <1>1, <1>2, <1>3

\* The credit of a predecessor of an element that is ready is not on its way.
LEMMA ReadyFacts ==
  ASSUME TypeInv, NEW D, DoneInv(D), CreditInv(D),
         NEW j \in Indices(prog), Ready(D, j)
  PROVE  /\ j \notin D /\ PredsOf(prog, j) \subseteq D
         /\ \A w \in Thread : \A c \in todo[w] : c[1] # j
         /\ \A w \in Thread : Owing(w, j) = {}
<1>1. j \notin D /\ PredsOf(prog, j) \subseteq D
  BY DEF Ready, Paid
<1>2. ASSUME NEW w \in Thread, NEW c \in todo[w], c[1] = j  PROVE FALSE
  <2>1. Owing(w, j) # {} /\ Owing(w, j) \subseteq PredsOf(prog, j)
    BY <1>2, OwingFacts
  <2> QED
    BY <2>1 DEF Ready, Paid
<1>3. \A w \in Thread : Owing(w, j) = {}
  BY <1>2 DEF Owing, Owes
<1> QED
  BY <1>1, <1>2, <1>3

\* A thread that runs an element is the only one that has to do with it.
LEMMA Alone ==
  ASSUME TypeInv, NEW D, ControlInv(D),
         NEW j \in Indices(prog), Ready(D, j)
  PROVE  \A v \in Thread : Delivering(v) => elem[v] # j
<1> USE DEF ControlInv
<1>1. /\ j \notin D /\ PredsOf(prog, j) \subseteq D
      /\ \A v \in Thread : \A c \in todo[v] : c[1] # j
  BY ReadyFacts
<1>2. D \in SUBSET Indices(prog) /\ PredClosed(prog, D) /\ prog \in Programs
  BY DEF DoneInv, TypeInv
<1> SUFFICES ASSUME NEW v \in Thread, Delivering(v), elem[v] = j  PROVE FALSE
  OBVIOUS
<1>3. CASE pc[v] = "loop"
  <2>1. j \in Exits(prog)
    BY <1>3 DEF CreditInv
  <2>2. LoopOf(prog, j) \ {j} \subseteq D
    BY <1>1, <1>2, <2>1, LoopDone
  <2>3. CASE todo[v] # {}
    <3>1. PICK c \in todo[v] : TRUE
      BY <2>3
    <3>2. c[1] \notin D /\ c[1] \in LoopOf(prog, j)
      BY <1>3, OwingFacts
    <3> QED
      BY <1>1, <2>2, <3>2
  <2>4. CASE ByHand(v)
    <3>1. EntryOf(prog) \in LoopOf(prog, j) /\ EntryOf(prog) # j /\ EntryOf(prog) \in Indices(prog)
      BY <1>2, <2>1, <2>4, LoopFacts, OrderFacts DEF ByHand
    <3>2. v \in Runners(EntryOf(prog))
      BY <2>4 DEF Runners, RunsOn
    <3>3. EntryOf(prog) \notin D
      BY <3>1, <3>2 DEF OnceInv, Ready
    <3> QED
      BY <2>2, <3>1, <3>3
  <2> QED
    BY <2>3, <2>4 DEF Delivering
<1>4. CASE pc[v] # "loop"
  <2>1. PICK c \in todo[v] : TRUE
    BY <1>4 DEF Delivering, ByHand
  <2>2. Owing(v, c[1]) = {j} /\ Owing(v, c[1]) \subseteq D
    BY <1>4, OwingFacts
  <2> QED
    BY <1>1, <2>2
<1> QED
  BY <1>3, <1>4

\* Who works on an element finds it ready and is the only one.
LEMMA WorkerFacts ==
  ASSUME TypeInv, NEW D, ControlInv(D),
         NEW w \in Thread, pc[w] \in {"reset", "data"}
  PROVE  /\ elem[w] \in Indices(prog) /\ Ready(D, elem[w])
         /\ waiting[elem[w]] = 0 /\ Runners(elem[w]) = {w}
<1>1. elem[w] \in Indices(prog)
  BY Bridge DEF TypeInv, TypeOK
<1>2. w \in Runners(elem[w])
  BY DEF Runners, RunsOn
<1> QED
  BY <1>1, <1>2 DEF ControlInv, OnceInv
-----------------------------------------------------------------------------
(***************************************************************************)
(* Types.                                                                  *)
(***************************************************************************)
LEMMA IncomingFacts ==
  ASSUME TypeInv, NEW n
  PROVE  /\ Incoming(n) \in Value
         /\ n = prog.root => init <= Incoming(n)
         /\ \A m \in Preds(n) : exit[m] <= Incoming(n)
<1> DEFINE S == {Bottom} \cup (IF n = prog.root THEN {init} ELSE {})
                         \cup {exit[m] : m \in Preds(n)}
<1>1. \A m \in Preds(n) : m \in Node
  BY VertexFacts DEF TypeInv, Preds, Node
<1>2. S \in SUBSET Value /\ S # {}
  BY <1>1, ValuesAssumption DEF TypeInv, TypeOK, Bottom, Value
<1>3. Incoming(n) = Greatest(S)
  BY DEF Incoming
<1>4. (n = prog.root => init \in S) /\ \A m \in Preds(n) : exit[m] \in S
  OBVIOUS
<1> HIDE DEF S
<1> QED
  BY <1>2, <1>3, <1>4, GreatestFacts

LEMMA TypeInit == Init => TypeInv
<1> SUFFICES ASSUME Init  PROVE TypeInv
  OBVIOUS
<1> USE DEF Init
<1>1. prog \in Programs
  OBVIOUS
<1>2. EntryIdx \in Idx
  BY <1>1, Bridge
<1>3. Bottom \in Value /\ 0 \in 0 .. MaxRuns
  BY ValuesAssumption, ThreadsAssumption DEF Bottom, Value
<1> QED
  BY <1>1, <1>2, <1>3 DEF TypeInv, TypeOK

\* Who begins to give credits.
LEMMA CreditTypes ==
  ASSUME TypeInv, NEW w \in Thread
  PROVE  /\ elem[w] \in Indices(prog) /\ NodeOf(elem[w]) \in Node
         /\ IsExit(elem[w]) <=> elem[w] \in Exits(prog)
         /\ ToSuccessors(elem[w]) \in SUBSET (Idx \X Nat)
         /\ IsExit(elem[w]) => ToLoop(elem[w]) \in SUBSET (Idx \X Nat)
<1>1. elem[w] \in Idx /\ prog \in Programs
  BY DEF TypeInv, TypeOK
<1>2. /\ Idx = Indices(prog) /\ NodeOf(elem[w]) = NodeAt(prog, elem[w])
      /\ IsExit(elem[w]) <=> elem[w] \in Exits(prog)
      /\ ToSuccessors(elem[w]) = Follows(prog, elem[w])
      /\ IsExit(elem[w]) => ToLoop(elem[w]) = LoopShares(prog, elem[w])
  BY <1>1, Bridge
<1>3. NodeOf(elem[w]) \in Node
  BY <1>1, <1>2, VertexFacts DEF Node
<1>4. Follows(prog, elem[w]) \in SUBSET (Idx \X Nat)
  BY <1>2 DEF Follows
<1>5. ASSUME IsExit(elem[w])  PROVE LoopShares(prog, elem[w]) \in SUBSET (Idx \X Nat)
  <2>1. ASSUME NEW j \in Reentered(prog, elem[w])
        PROVE  j \in Idx /\ Cardinality(Outside(prog, elem[w], j)) \in Nat
    <3>1. j \in Indices(prog)
      BY DEF Reentered, LoopOf
    <3>2. IsFiniteSet(PredsOf(prog, j))
      BY <1>1, <3>1, OrderFacts
    <3>3. IsFiniteSet(Outside(prog, elem[w], j))
      BY <3>2, FS_Subset DEF Outside
    <3> QED
      BY <1>2, <3>1, <3>3, FS_CardinalityType
  <2> QED
    BY <2>1 DEF LoopShares
<1> QED
  BY <1>1, <1>2, <1>3, <1>4, <1>5

LEMMA TypeNext ==
  ASSUME TypeInv, [Next]_vars
  PROVE  TypeInv'
<1> USE DEF TypeInv, TypeOK
<1>1. ASSUME NEW v \in Inits, Run(v)  PROVE TypeInv'
  <2>1. EntryIdx \in Idx /\ prog' = prog
    BY <1>1, Bridge DEF Run
  <2>2. v \in Value /\ Bottom \in Value /\ runs' \in 0 .. MaxRuns
    BY <1>1, ValuesAssumption, ThreadsAssumption DEF Run, Bottom, Value
  <2>3. Idx' = Idx /\ Node' = Node
    BY <2>1 DEF Idx, Wpo, Node
  <2>4. /\ prog' \in Programs /\ init' \in Value /\ elem' \in [Thread -> Idx'] /\ todo' \in [Thread -> SUBSET (Idx' \X Nat)]
        /\ pc' \in [Thread -> {"joined", "free", "reset", "data", "notify", "loop"}]
    BY <1>1, <2>1, <2>3, ValuesAssumption DEF Run, Value
  <2>5. /\ entry' \in [Node' -> Value] /\ exit' \in [Node' -> Value] /\ iterated' \in [Node' -> BOOLEAN]
        /\ counter' \in [Idx' -> Nat] /\ waiting' \in [Idx' -> Nat]
    BY <1>1, <2>1, <2>2, <2>3 DEF Run
  <2> QED
    BY <2>2, <2>4, <2>5
<1>2. CASE RunEnds
  BY <1>2 DEF RunEnds, fixed, states, Idx, Wpo, Node
<1>3. ASSUME NEW w \in Thread, NEW i \in Idx, Begin(w, i)  PROVE TypeInv'
  <2>1. waiting[i] - 1 \in Nat
    BY <1>3 DEF Begin
  <2> QED
    BY <1>3, <2>1 DEF Begin, fixed, states, Idx, Wpo, Node
<1>4. ASSUME NEW w \in Thread, ResetCounter(w)  PROVE TypeInv'
  BY <1>4 DEF ResetCounter, fixed, states, Idx, Wpo, Node
<1>5. ASSUME NEW w \in Thread, AnalyzeVertex(w)  PROVE TypeInv'
  <2> DEFINE n == NodeOf(elem[w])
  <2>1. n \in Node /\ ToSuccessors(elem[w]) \in SUBSET (Idx \X Nat)
    BY CreditTypes
  <2>2. Join(entry[n], Incoming(n)) \in Value
    BY <2>1, IncomingFacts, ValueFacts
  <2>3. entry' = [entry EXCEPT ![n] = Join(@, Incoming(n))]
    BY <1>5 DEF AnalyzeVertex
  <2>4. entry' \in [Node -> Value] /\ entry'[n] \in Value
    BY <2>1, <2>2, <2>3
  <2>5. prog.transfer[n][entry'[n]] \in Value
    BY <2>1, <2>4, TransferFacts DEF Node
  <2>6. exit' = [exit EXCEPT ![n] = prog.transfer[n][entry'[n]]]
    BY <1>5 DEF AnalyzeVertex
  <2>7. exit' \in [Node -> Value]
    BY <2>1, <2>5, <2>6
  <2> HIDE DEF n
  <2> QED
    BY <1>5, <2>1, <2>4, <2>7 DEF AnalyzeVertex, Announce, fixed, Idx, Wpo, Node
<1>6. ASSUME NEW w \in Thread, Stabilize(w)  PROVE TypeInv'
  <2> DEFINE n == NodeOf(elem[w])
  <2>1. n \in Node /\ ToSuccessors(elem[w]) \in SUBSET (Idx \X Nat)
    BY CreditTypes
  <2>2. Incoming(n) \in Value
    BY IncomingFacts
  <2>3. entry' \in [Node -> Value] /\ iterated' \in [Node -> BOOLEAN]
    BY <1>6, <2>1, <2>2 DEF Stabilize
  <2> HIDE DEF n
  <2> QED
    BY <1>6, <2>1, <2>3 DEF Stabilize, Announce, fixed, Idx, Wpo, Node
<1>7. ASSUME NEW w \in Thread, Iterate(w)  PROVE TypeInv'
  <2> DEFINE n == NodeOf(elem[w])
  <2>1. n \in Node /\ ToLoop(elem[w]) \in SUBSET (Idx \X Nat)
    BY <1>7, CreditTypes DEF Iterate
  <2>2. Incoming(n) \in Value /\ entry[n] \in Value
    BY <2>1, IncomingFacts
  <2>3. Extrapolate(n, Incoming(n)) \in Value
    BY <2>2, ValueFacts DEF Extrapolate
  <2>4. entry' \in [Node -> Value] /\ iterated' \in [Node -> BOOLEAN]
    BY <1>7, <2>1, <2>3 DEF Iterate
  <2> HIDE DEF n
  <2> QED
    BY <1>7, <2>1, <2>4 DEF Iterate, fixed, Idx, Wpo, Node
<1>8. ASSUME NEW w \in Thread, Notify(w)  PROVE TypeInv'
  <2>1. PICK c \in todo[w] : Credit(w, c)
    BY <1>8 DEF Notify
  <2>2. c \in Idx \X Nat
    OBVIOUS
  <2>3. counter[c[1]] + c[2] \in Nat /\ waiting[c[1]] + 1 \in Nat /\ c[1] \in Idx
    BY <2>2
  <2>4. counter' \in [Idx -> Nat] /\ waiting' \in [Idx -> Nat]
    BY <2>1, <2>3 DEF Credit
  <2>5. todo' \in [Thread -> SUBSET (Idx \X Nat)]
    BY <2>1 DEF Credit
  <2> QED
    BY <1>8, <2>4, <2>5 DEF Notify, fixed, states, Idx, Wpo, Node
<1>9. ASSUME NEW w \in Thread, Return(w)  PROVE TypeInv'
  <2>1. EntryIdx \in Idx
    BY Bridge
  <2>2. waiting' \in [Idx -> Nat]
    BY <1>9, <2>1 DEF Return
  <2> QED
    BY <1>9, <2>2 DEF Return, fixed, states, Idx, Wpo, Node
<1>10. CASE UNCHANGED vars
  BY <1>10 DEF vars, Idx, Wpo, Node
<1> QED
  BY <1>1, <1>2, <1>3, <1>4, <1>5, <1>6, <1>7, <1>8, <1>9, <1>10 DEF Next, Step
-----------------------------------------------------------------------------
(***************************************************************************)
(* Control: the steps, one by one.                                         *)
(***************************************************************************)
LEMMA SameThread ==
  ASSUME NEW v, prog' = prog, pc'[v] = pc[v], elem'[v] = elem[v], todo'[v] = todo[v]
  PROVE  /\ \A j : Owing(v, j)' = Owing(v, j)
         /\ \A j : RunsOn(v, j)' <=> RunsOn(v, j)
         /\ Delivering(v)' <=> Delivering(v)
<1>1. \A j : Owing(v, j)' = Owing(v, j)
  BY DEF Owing, Owes, Outside
<1>2. ByHand(v)' <=> ByHand(v)
  BY DEF ByHand
<1> QED
  BY <1>1, <1>2 DEF RunsOn, Delivering

\* A step that changes no credit that is owed.
LEMMA SameCredits ==
  ASSUME prog' = prog, todo' = todo,
         \A v \in Thread : todo[v] # {} => pc'[v] = pc[v] /\ elem'[v] = elem[v]
  PROVE  /\ \A v \in Thread : \A j : Owing(v, j)' = Owing(v, j)
         /\ \A D, j : Paid(D, j)' = Paid(D, j) /\ (Ready(D, j)' <=> Ready(D, j))
<1>1. ASSUME NEW v \in Thread, NEW j  PROVE Owing(v, j)' = Owing(v, j)
  BY DEF Owing, Owes, Outside
<1>2. \A D, j : Paid(D, j)' = Paid(D, j)
  BY <1>1 DEF Paid
<1> QED
  BY <1>1, <1>2 DEF Ready

LEMMA BeginControl ==
  ASSUME TypeInv, NEW D, ControlInv(D),
         NEW w \in Thread, NEW i \in Idx, Begin(w, i)
  PROVE  ControlInv(D)'
<1> USE DEF ControlInv
<1>1. /\ prog' = prog /\ todo' = todo /\ counter' = counter
      /\ pc[w] = "free" /\ pc' = [pc EXCEPT ![w] = "reset"]
      /\ elem' = [elem EXCEPT ![w] = i]
      /\ waiting[i] > 0 /\ waiting' = [waiting EXCEPT ![i] = @ - 1]
  BY DEF Begin, fixed
<1>2. /\ pc'[w] = "reset" /\ elem'[w] = i /\ todo[w] = {}
      /\ \A v \in Thread : v # w => pc'[v] = pc[v] /\ elem'[v] = elem[v]
      /\ i \in Indices(prog)
  BY <1>1, Bridge DEF TypeInv, TypeOK, CreditInv
<1>3. /\ \A v \in Thread : \A j : Owing(v, j)' = Owing(v, j)
      /\ \A j : Paid(D, j)' = Paid(D, j) /\ (Ready(D, j)' <=> Ready(D, j))
  BY <1>1, <1>2, SameCredits
<1>4. ~ByHand(w) /\ ~ByHand(w)' /\ ~Delivering(w)' /\ \A j : ~RunsOn(w, j)
  BY <1>1, <1>2 DEF ByHand, Delivering, RunsOn
<1>5. \A v \in Thread : v # w =>
         /\ \A j : RunsOn(v, j)' <=> RunsOn(v, j)
         /\ Delivering(v)' <=> Delivering(v)
  BY <1>1, <1>2, SameThread
<1>6. DoneInv(D)'
  BY <1>1, <1>2 DEF DoneInv, Idle, PredClosed
<1>7. CreditInv(D)'
  BY <1>1, <1>2, <1>3 DEF CreditInv
<1>8. ApartInv'
  BY <1>1, <1>2, <1>3, <1>4, <1>5 DEF ApartInv
<1>9. CountInv(D)'
  <2>1. \A j : DataOn(j)' <=> DataOn(j)
    BY <1>1, <1>2 DEF DataOn
  <2> QED
    BY <1>1, <1>3, <2>1 DEF CountInv
<1>10. OnceInv(D)'
  <2>1. ASSUME NEW j \in Indices(prog), j # i
        PROVE  Runners(j)' = Runners(j) /\ waiting'[j] = waiting[j]
    <3>1. ~RunsOn(w, j)'
      BY <1>2, <1>4, <2>1 DEF RunsOn
    <3>2. Runners(j)' = Runners(j)
      BY <1>4, <1>5, <3>1 DEF Runners
    <3> QED
      BY <1>1, <2>1, <3>2, Bridge DEF TypeInv, TypeOK
  <2>2. Ready(D, i) /\ waiting[i] = 1 /\ Runners(i) = {}
    BY <1>1, <1>2 DEF OnceInv
  <2>3. waiting'[i] = 0
    BY <1>1, <2>2, Bridge DEF TypeInv, TypeOK
  <2>4. Runners(i)' = {w}
    <3>1. RunsOn(w, i)'
      BY <1>2 DEF RunsOn
    <3>2. \A v \in Thread : ~RunsOn(v, i)
      BY <2>2 DEF Runners
    <3> QED
      BY <1>5, <3>1, <3>2 DEF Runners
  <2> QED
    BY <1>1, <1>2, <1>3, <2>1, <2>2, <2>3, <2>4 DEF OnceInv
<1> QED
  BY <1>6, <1>7, <1>8, <1>9, <1>10

LEMMA ResetControl ==
  ASSUME TypeInv, NEW D, ControlInv(D), NEW w \in Thread, ResetCounter(w)
  PROVE  ControlInv(D)'
<1> USE DEF ControlInv
<1>1. /\ prog' = prog /\ todo' = todo /\ waiting' = waiting /\ elem' = elem
      /\ pc[w] = "reset" /\ pc' = [pc EXCEPT ![w] = "data"]
      /\ counter' = [counter EXCEPT ![elem[w]] = 0]
  BY DEF ResetCounter, fixed
<1>2. /\ pc'[w] = "data" /\ todo[w] = {}
      /\ \A v \in Thread : v # w => pc'[v] = pc[v]
      /\ elem[w] \in Indices(prog)
  BY <1>1, Bridge DEF TypeInv, TypeOK, CreditInv
<1>3. /\ \A v \in Thread : \A j : Owing(v, j)' = Owing(v, j)
      /\ \A j : Paid(D, j)' = Paid(D, j) /\ (Ready(D, j)' <=> Ready(D, j))
  BY <1>1, <1>2, SameCredits
<1>4. \A v \in Thread : /\ \A j : RunsOn(v, j)' <=> RunsOn(v, j)
                        /\ Delivering(v)' <=> Delivering(v)
  <2>1. ASSUME NEW v \in Thread, v # w
        PROVE  /\ \A j : RunsOn(v, j)' <=> RunsOn(v, j)
               /\ Delivering(v)' <=> Delivering(v)
    BY <1>1, <1>2, <2>1, SameThread
  <2>2. /\ \A j : RunsOn(w, j)' <=> RunsOn(w, j)
        /\ Delivering(w)' <=> Delivering(w)
    BY <1>1, <1>2 DEF RunsOn, Delivering, ByHand
  <2> QED
    BY <2>1, <2>2
<1>5. \A j : Runners(j)' = Runners(j)
  BY <1>4 DEF Runners
<1>6. DoneInv(D)'
  BY <1>1, <1>2 DEF DoneInv, Idle, PredClosed
<1>7. CreditInv(D)'
  BY <1>1, <1>2, <1>3 DEF CreditInv
<1>8. ApartInv'
  BY <1>1, <1>3, <1>4 DEF ApartInv
<1>9. CountInv(D)'
  <2>1. \A j : j # elem[w] => (DataOn(j)' <=> DataOn(j))
    BY <1>1, <1>2 DEF DataOn
  <2>2. DataOn(elem[w])'
    BY <1>1, <1>2 DEF DataOn
  <2>3. counter'[elem[w]] = 0 /\ \A j \in Indices(prog) : j # elem[w] => counter'[j] = counter[j]
    BY <1>1, <1>2, Bridge DEF TypeInv, TypeOK
  <2> QED
    BY <1>1, <1>3, <2>1, <2>2, <2>3 DEF CountInv
<1>10. OnceInv(D)'
  BY <1>1, <1>3, <1>5 DEF OnceInv
<1> QED
  BY <1>6, <1>7, <1>8, <1>9, <1>10

LEMMA ReturnControl ==
  ASSUME TypeInv, NEW D, ControlInv(D), NEW w \in Thread, Return(w)
  PROVE  ControlInv(D)'
<1> USE DEF ControlInv
<1>1. /\ prog' = prog /\ todo' = todo /\ counter' = counter /\ elem' = elem
      /\ pc[w] \in {"notify", "loop"} /\ todo[w] = {} /\ pc' = [pc EXCEPT ![w] = "free"]
      /\ elem[w] \in Indices(prog) /\ EntryOf(prog) \in Indices(prog)
  BY Bridge DEF Return, fixed, TypeInv, TypeOK
<1>2. /\ pc'[w] = "free"
      /\ \A v \in Thread : v # w => pc'[v] = pc[v]
  BY <1>1 DEF TypeInv, TypeOK
<1>3. waiting' = IF ByHand(w) THEN [waiting EXCEPT ![EntryOf(prog)] = @ + 1] ELSE waiting
  BY <1>1, Bridge DEF Return, ByHand, TypeInv
<1>4. /\ \A v \in Thread : \A j : Owing(v, j)' = Owing(v, j)
      /\ \A j : Paid(D, j)' = Paid(D, j) /\ (Ready(D, j)' <=> Ready(D, j))
  BY <1>1, <1>2, SameCredits
<1>5. \A v \in Thread : v # w => /\ \A j : RunsOn(v, j)' <=> RunsOn(v, j)
                                 /\ Delivering(v)' <=> Delivering(v)
  BY <1>1, <1>2, SameThread
<1>6. ~ByHand(w)' /\ ~Delivering(w)' /\ \A j : ~RunsOn(w, j)'
  BY <1>1, <1>2 DEF ByHand, Delivering, RunsOn
<1>7. DoneInv(D)'
  BY <1>1, <1>2 DEF DoneInv, Idle, PredClosed
<1>8. CreditInv(D)'
  BY <1>1, <1>2, <1>4 DEF CreditInv
<1>9. ApartInv'
  BY <1>1, <1>4, <1>5, <1>6 DEF ApartInv
<1>10. CountInv(D)'
  <2>1. \A j : DataOn(j)' <=> DataOn(j)
    BY <1>1, <1>2 DEF DataOn
  <2> QED
    BY <1>1, <1>4, <2>1 DEF CountInv
<1>11. OnceInv(D)'
  <2>1. ASSUME NEW j \in Indices(prog), ~RunsOn(w, j)
        PROVE  Runners(j)' = Runners(j) /\ waiting'[j] = waiting[j]
    <3>1. Runners(j)' = Runners(j)
      BY <1>5, <1>6, <2>1 DEF Runners
    <3>2. waiting'[j] = waiting[j]
      BY <1>1, <1>3, <2>1, Bridge DEF RunsOn, TypeInv, TypeOK
    <3> QED
      BY <3>1, <3>2
  <2>2. ASSUME NEW j \in Indices(prog), RunsOn(w, j)
        PROVE  Ready(D, j) /\ waiting'[j] = 1 /\ Runners(j)' = {}
    <3>1. ByHand(w) /\ j = EntryOf(prog)
      BY <1>1, <2>2 DEF RunsOn
    <3>2. w \in Runners(j)
      BY <2>2 DEF Runners
    <3>3. Ready(D, j) /\ waiting[j] = 0 /\ Runners(j) = {w}
      BY <3>2 DEF OnceInv
    <3>4. waiting'[j] = 1
      BY <1>3, <3>1, <3>3, Bridge DEF TypeInv, TypeOK
    <3>5. \A v \in Thread : v # w => ~RunsOn(v, j)
      BY <3>3 DEF Runners
    <3>6. Runners(j)' = {}
      BY <1>5, <1>6, <3>5 DEF Runners
    <3> QED
      BY <3>3, <3>4, <3>6
  <2> QED
    BY <1>1, <1>4, <2>1, <2>2 DEF OnceInv
<1> QED
  BY <1>7, <1>8, <1>9, <1>10, <1>11

LEMMA DisjointUnion ==
  ASSUME NEW S, NEW T, IsFiniteSet(S), IsFiniteSet(T), S \cap T = {}
  PROVE  Cardinality(S \cup T) = Cardinality(S) + Cardinality(T)
<1>1. Cardinality(S \cap T) = 0
  BY FS_EmptySet
<1>2. Cardinality(S) \in Nat /\ Cardinality(T) \in Nat
  BY FS_CardinalityType
<1>3. Cardinality(S \cup T) = Cardinality(S) + Cardinality(T) - Cardinality(S \cap T)
  BY FS_Union
<1> QED
  BY <1>1, <1>2, <1>3

\* A credit is given: what it stands for is now paid.
LEMMA NotifyControl ==
  ASSUME TypeInv, NEW D, ControlInv(D), NEW w \in Thread, Notify(w)
  PROVE  ControlInv(D)'
<1> USE DEF ControlInv
<1>1. PICK c \in todo[w] : Credit(w, c)
  BY DEF Notify
<1> DEFINE k == c[1]
           O == Owing(w, k)
<1>2. /\ prog' = prog /\ elem' = elem /\ pc' = pc /\ prog \in Programs
      /\ todo' = [todo EXCEPT ![w] = @ \ {c}]
      /\ counter' = [counter EXCEPT ![k] = @ + c[2]]
      /\ waiting' = IF counter'[k] = Cardinality(PredsOf(prog, k))
                    THEN [waiting EXCEPT ![k] = @ + 1] ELSE waiting
  BY <1>1, Bridge DEF Notify, fixed, Credit, TypeInv
<1>3. /\ k \in Indices(prog) /\ k \notin D /\ c[2] \in Nat
      /\ c[2] = Cardinality(O) /\ O # {} /\ O \subseteq PredsOf(prog, k) \cap D
      /\ \A d \in todo[w] : d[1] = k => d = c
  <2>1. \A d \in todo[w] : d = <<d[1], Cardinality(Owing(w, d[1]))>>
    BY OwingFacts
  <2>2. \A d \in todo[w] : d[1] = k => d = c
    BY <2>1
  <2>3. c[2] = Cardinality(O)
    BY <2>1
  <2>4. /\ k \in Indices(prog) /\ k \notin D /\ c[2] \in Nat
        /\ O # {} /\ O \subseteq PredsOf(prog, k) \cap D
    BY OwingFacts
  <2> HIDE DEF k, O
  <2> QED
    BY <2>2, <2>3, <2>4
<1>4. /\ todo'[w] = todo[w] \ {c}
      /\ \A v \in Thread : v # w => todo'[v] = todo[v]
  BY <1>2 DEF TypeInv, TypeOK
<1>5. \A v \in Thread : v # w => /\ \A j : Owing(v, j)' = Owing(v, j)
                                 /\ Delivering(v)' <=> Delivering(v)
  BY <1>2, <1>4, SameThread
<1>6. Owing(w, k)' = {}
  BY <1>3, <1>4 DEF Owing, Owes
<1>7. \A j : j # k => Owing(w, j)' = Owing(w, j)
  <2>1. \A j : j # k => (Owes(w, j)' <=> Owes(w, j))
    BY <1>4 DEF Owes
  <2> QED
    BY <1>2, <2>1 DEF Owing, Outside
<1>8. /\ \A j : RunsOn(w, j)' <=> RunsOn(w, j)
      /\ Delivering(w)' => Delivering(w)
  BY <1>2, <1>4 DEF RunsOn, ByHand, Delivering
<1>9. \A j : Runners(j)' = Runners(j)
  BY <1>2 DEF Runners, RunsOn, ByHand
<1> HIDE DEF k, O
<1>10. \A j \in Indices(prog) : j # k =>
          Paid(D, j)' = Paid(D, j) /\ (Ready(D, j)' <=> Ready(D, j))
  <2>1. \A j \in Indices(prog) : j # k => Paid(D, j)' = Paid(D, j)
    BY <1>2, <1>5, <1>7 DEF Paid
  <2> QED
    BY <1>2, <2>1 DEF Ready
<1>11. Paid(D, k)' = Paid(D, k) \cup O /\ Paid(D, k) \cap O = {}
  <2>1. \A v \in Thread : v # w => Owing(v, k) \cap O = {}
    BY <1>3 DEF ApartInv, O
  <2>2. Paid(D, k)' = {i \in PredsOf(prog, k) \cap D : \A v \in Thread : v # w => i \notin Owing(v, k)}
    BY <1>2, <1>5, <1>6 DEF Paid
  <2>3. Paid(D, k) = {i \in PredsOf(prog, k) \cap D :
                        i \notin O /\ \A v \in Thread : v # w => i \notin Owing(v, k)}
    BY DEF Paid, O
  <2> QED
    BY <1>3, <2>1, <2>2, <2>3
<1>12. /\ Paid(D, k) # PredsOf(prog, k) /\ ~Ready(D, k)
       /\ waiting[k] = 0 /\ Runners(k) = {} /\ ~DataOn(k)
  <2>1. Paid(D, k) # PredsOf(prog, k)
    BY <1>3, <1>11
  <2>2. ~Ready(D, k)
    BY <2>1 DEF Ready
  <2>3. waiting[k] = 0 /\ Runners(k) = {}
    BY <1>3, <2>2 DEF OnceInv
  <2>4. ~DataOn(k)
    BY <2>3 DEF DataOn, Runners, RunsOn
  <2> QED
    BY <2>1, <2>2, <2>3, <2>4
<1>13. IsFiniteSet(PredsOf(prog, k)) /\ Paid(D, k)' \subseteq PredsOf(prog, k)
  BY <1>2, <1>3, <1>11, OrderFacts DEF Paid
<1>14. counter'[k] = Cardinality(Paid(D, k)')
  <2>1. IsFiniteSet(Paid(D, k)) /\ IsFiniteSet(O)
    BY <1>11, <1>13, FS_Subset
  <2>2. Cardinality(Paid(D, k) \cup O) = Cardinality(Paid(D, k)) + Cardinality(O)
    BY <1>11, <2>1, DisjointUnion
  <2>3. counter[k] = Cardinality(Paid(D, k))
    BY <1>3, <1>12 DEF CountInv
  <2>4. counter'[k] = counter[k] + c[2]
    BY <1>2, <1>3, Bridge DEF TypeInv, TypeOK
  <2> QED
    BY <1>3, <1>11, <2>2, <2>3, <2>4
<1>15. counter'[k] = Cardinality(PredsOf(prog, k)) <=> Ready(D, k)'
  <2>1. Ready(D, k)' <=> Paid(D, k)' = PredsOf(prog, k)
    BY <1>2, <1>3 DEF Ready
  <2>2. Cardinality(Paid(D, k)') = Cardinality(PredsOf(prog, k)) => Paid(D, k)' = PredsOf(prog, k)
    BY <1>13, FS_Subset
  <2> QED
    BY <1>14, <2>1, <2>2
<1>16. DoneInv(D)'
  BY <1>2 DEF DoneInv, Idle, PredClosed
<1>17. CreditInv(D)'
  <2>1. ASSUME NEW d \in todo'[w]  PROVE d[1] \notin D /\ Owing(w, d[1])' \subseteq D
    <3>1. d \in todo[w] /\ d[1] # k
      BY <1>3, <1>4, <2>1
    <3> QED
      BY <1>7, <3>1 DEF CreditInv
  <2>2. todo'[w] \subseteq todo[w]
    BY <1>4
  <2> QED
    BY <1>2, <1>4, <1>5, <2>1, <2>2 DEF CreditInv
<1>18. ApartInv'
  <2>1. \A v \in Thread : \A j : Owing(v, j)' \subseteq Owing(v, j)
    BY <1>5, <1>6, <1>7
  <2>2. \A v \in Thread : Delivering(v)' => Delivering(v)
    BY <1>5, <1>8
  <2> QED
    BY <1>2, <2>1, <2>2 DEF ApartInv
<1>19. CountInv(D)'
  <2>1. \A j : DataOn(j)' <=> DataOn(j)
    BY <1>2 DEF DataOn
  <2>2. \A j \in Indices(prog) : j # k => counter'[j] = counter[j]
    BY <1>2, <1>3, Bridge DEF TypeInv, TypeOK
  <2> QED
    BY <1>2, <1>3, <1>10, <1>12, <1>14, <2>1, <2>2 DEF CountInv
<1>20. OnceInv(D)'
  <2>1. \A j \in Indices(prog) : j # k => waiting'[j] = waiting[j]
    BY <1>2, <1>3, Bridge DEF TypeInv, TypeOK
  <2>2. waiting'[k] = IF Ready(D, k)' THEN 1 ELSE 0
    <3>1. CASE Ready(D, k)'
      <4>1. waiting' = [waiting EXCEPT ![k] = @ + 1]
        BY <1>2, <1>15, <3>1
      <4>2. waiting \in [Indices(prog) -> Nat]
        BY Bridge DEF TypeInv, TypeOK
      <4>3. waiting'[k] = 1
        BY <1>3, <1>12, <4>1, <4>2
      <4> QED
        BY <3>1, <4>3
    <3>2. CASE ~Ready(D, k)'
      BY <1>2, <1>12, <1>15, <3>2
    <3> QED
      BY <3>1, <3>2
  <2> QED
    BY <1>2, <1>9, <1>10, <1>12, <2>1, <2>2 DEF OnceInv
<1> QED
  BY <1>16, <1>17, <1>18, <1>19, <1>20

LEMMA InitControl ==
  ASSUME Init, TypeInv, NEW D, D = Indices(prog)
  PROVE  ControlInv(D)
<1>1. /\ \A w \in Thread : pc[w] = "joined" /\ todo[w] = {}
      /\ \A j \in Indices(prog) : counter[j] = 0 /\ waiting[j] = 0
  BY Bridge DEF Init, TypeInv
<1>2. \A w \in Thread : \A j : Owing(w, j) = {} /\ ~RunsOn(w, j) /\ ~Delivering(w)
  BY <1>1 DEF Owing, Owes, RunsOn, ByHand, Delivering
<1>3. DoneInv(D)
  BY OrderFacts DEF DoneInv, PredClosed, PredsOf, TypeInv
<1>4. CreditInv(D)
  BY <1>1 DEF CreditInv
<1>5. ApartInv
  BY <1>2 DEF ApartInv
<1>6. CountInv(D)
  BY <1>1 DEF CountInv
<1>7. OnceInv(D)
  BY <1>1, <1>2 DEF OnceInv, Ready, Runners
<1> QED
  BY <1>3, <1>4, <1>5, <1>6, <1>7 DEF ControlInv

LEMMA IdleFacts ==
  ASSUME TypeInv, NEW D, ControlInv(D), Idle
  PROVE  /\ D = Indices(prog)
         /\ \A w \in Thread : todo[w] = {}
         /\ \A j \in Indices(prog) : counter[j] = 0 /\ waiting[j] = 0
<1> USE DEF ControlInv
<1>1. D = Indices(prog)
  BY DEF DoneInv
<1>2. \A w \in Thread : todo[w] = {}
  BY DEF Idle, CreditInv
<1>3. \A j \in Indices(prog) : counter[j] = 0
  BY <1>1 DEF CountInv
<1>4. \A j \in Indices(prog) : waiting[j] = 0
  BY <1>1 DEF OnceInv, Ready
<1> QED
  BY <1>1, <1>2, <1>3, <1>4

\* At the start nothing is done and only the entry is ready.
LEMMA RunControl ==
  ASSUME TypeInv, NEW D, ControlInv(D), NEW v \in Inits, Run(v), NEW E, E = {}
  PROVE  ControlInv(E)'
<1> DEFINE n == EntryOf(prog)
<1>1. /\ prog' = prog /\ todo' = todo /\ prog \in Programs
      /\ pc' = [w \in Thread |-> "free"] /\ counter' = [i \in Idx |-> 0]
      /\ waiting' = [waiting EXCEPT ![EntryIdx] = @ + 1]
  BY DEF Run, TypeInv
<1>2. /\ \A w \in Thread : todo[w] = {}
      /\ \A j \in Indices(prog) : waiting[j] = 0
  BY IdleFacts DEF Run
<1>3. \A w \in Thread : pc'[w] = "free" /\ todo'[w] = {}
  BY <1>1, <1>2
<1>4. \A w \in Thread : \A j : Owing(w, j)' = {} /\ ~RunsOn(w, j)' /\ ~Delivering(w)'
  BY <1>3 DEF Owing, Owes, RunsOn, ByHand, Delivering
<1>5. Thread # {}
  BY ThreadsAssumption DEF Thread
<1>6. n \in Indices(prog) /\ \A j \in Indices(prog) : PredsOf(prog, j) = {} <=> j = n
  BY <1>1, OrderFacts
<1>7. \A j : Paid(E, j)' = {}
  BY DEF Paid
<1>8. \A j \in Indices(prog) : Ready(E, j)' <=> j = n
  BY <1>1, <1>6, <1>7 DEF Ready
<1>9. \A j \in Indices(prog) : waiting'[j] = IF j = n THEN 1 ELSE 0
  BY <1>1, <1>2, <1>6, Bridge DEF TypeInv, TypeOK
<1>10. \A j : Runners(j)' = {}
  BY <1>4 DEF Runners
<1> HIDE DEF n
<1>11. DoneInv(E)'
  BY <1>3, <1>5 DEF DoneInv, PredClosed, Idle
<1>12. CreditInv(E)'
  BY <1>3 DEF CreditInv
<1>13. ApartInv'
  BY <1>4 DEF ApartInv
<1>14. CountInv(E)'
  <2>1. \A j \in Indices(prog) : counter'[j] = 0
    BY <1>1, Bridge
  <2>2. Cardinality({}) = 0
    BY FS_EmptySet
  <2> QED
    BY <1>1, <1>7, <2>1, <2>2 DEF CountInv
<1>15. OnceInv(E)'
  BY <1>1, <1>8, <1>9, <1>10 DEF OnceInv
<1> QED
  BY <1>11, <1>12, <1>13, <1>14, <1>15 DEF ControlInv

\* When nothing is left to do, everything is done: of the elements that are
\* not, one would be ready.
LEMMA EndControl ==
  ASSUME TypeInv, NEW D, ControlInv(D), RunEnds
  PROVE  ControlInv(D)' /\ D = Indices(prog)
<1> USE DEF ControlInv
<1>1. /\ prog' = prog /\ todo' = todo /\ counter' = counter /\ waiting' = waiting
      /\ pc' = [w \in Thread |-> "joined"] /\ prog \in Programs
      /\ \A w \in Thread : pc[w] = "free"
      /\ \A i \in Indices(prog) : waiting[i] = 0
  BY Bridge DEF RunEnds, Drained, fixed, TypeInv
<1>2. \A w \in Thread : todo[w] = {} /\ todo'[w] = {} /\ pc'[w] = "joined"
  BY <1>1 DEF CreditInv
<1>3. \A w \in Thread : \A j : Owing(w, j) = {} /\ ~RunsOn(w, j)
  BY <1>1, <1>2 DEF Owing, Owes, RunsOn, ByHand
<1>4. D = Indices(prog)
  <2> SUFFICES ASSUME Indices(prog) \ D # {}  PROVE FALSE
    BY DEF DoneInv
  <2>1. PICK i \in Indices(prog) \ D : PredsOf(prog, i) \cap (Indices(prog) \ D) = {}
    BY <1>1, OrderFacts
  <2>2. PredsOf(prog, i) \subseteq D
    BY <1>1, <2>1, OrderFacts
  <2>3. Ready(D, i)
    BY <1>3, <2>1, <2>2 DEF Ready, Paid
  <2>4. \A w \in Thread : w \notin Runners(i)
    BY <1>3 DEF Runners
  <2> QED
    BY <1>1, <2>1, <2>3, <2>4 DEF OnceInv
<1>5. \A w \in Thread : \A j : Owing(w, j)' = {} /\ ~RunsOn(w, j)' /\ ~Delivering(w)'
  BY <1>2 DEF Owing, Owes, RunsOn, ByHand, Delivering
<1>6. DoneInv(D)'
  BY <1>1, <1>4 DEF DoneInv, PredClosed
<1>7. CreditInv(D)'
  BY <1>2 DEF CreditInv
<1>8. ApartInv'
  BY <1>5 DEF ApartInv
<1>9. CountInv(D)'
  BY <1>1, <1>4 DEF CountInv
<1>10. OnceInv(D)'
  BY <1>1, <1>4, <1>5 DEF OnceInv, Ready, Runners
<1> QED
  BY <1>4, <1>6, <1>7, <1>8, <1>9, <1>10

\* The elements credits go to.
LEMMA ShareTargets ==
  ASSUME NEW p, NEW i
  PROVE  /\ \A j \in Indices(p) : (\E c \in Follows(p, i) : c[1] = j) <=> i \in PredsOf(p, j)
         /\ \A j : (\E c \in LoopShares(p, i) : c[1] = j) <=> j \in Reentered(p, i)
<1>1. ASSUME NEW j \in Indices(p), i \in PredsOf(p, j)
      PROVE  \E c \in Follows(p, i) : c[1] = j
  <2>1. <<j, 1>> \in Follows(p, i) /\ <<j, 1>>[1] = j
    BY <1>1 DEF Follows
  <2> QED
    BY <2>1
<1>2. ASSUME NEW j, NEW c \in Follows(p, i), c[1] = j
      PROVE  i \in PredsOf(p, j)
  BY <1>2 DEF Follows
<1>3. ASSUME NEW j \in Reentered(p, i)
      PROVE  \E c \in LoopShares(p, i) : c[1] = j
  <2> DEFINE c == <<j, Cardinality(Outside(p, i, j))>>
  <2>1. c \in LoopShares(p, i)
    BY DEF LoopShares
  <2>2. c[1] = j
    OBVIOUS
  <2> HIDE DEF c
  <2> QED
    BY <2>1, <2>2
<1>4. ASSUME NEW j, NEW c \in LoopShares(p, i), c[1] = j
      PROVE  j \in Reentered(p, i)
  BY <1>4 DEF LoopShares
<1> QED
  BY <1>1, <1>2, <1>3, <1>4

\* A node is analysed, or a loop has stabilised: the element is done.
LEMMA CompleteControl ==
  ASSUME TypeInv, NEW D, ControlInv(D), NEW w \in Thread,
         pc[w] = "data", Announce(w, ToSuccessors(elem[w])),
         prog' = prog, elem' = elem, counter' = counter, waiting' = waiting,
         NEW E, E = D \cup {elem[w]}
  PROVE  ControlInv(E)'
<1> USE DEF ControlInv
<1> DEFINE e == elem[w]
<1>1. /\ prog \in Programs /\ e \in Indices(prog)
      /\ pc' = [pc EXCEPT ![w] = "notify"]
      /\ todo' = [todo EXCEPT ![w] = Follows(prog, e)]
  BY Bridge DEF Announce, TypeInv, TypeOK
<1>2. /\ pc'[w] = "notify" /\ todo'[w] = Follows(prog, e) /\ todo[w] = {}
      /\ \A v \in Thread : v # w => pc'[v] = pc[v] /\ todo'[v] = todo[v]
  BY <1>1 DEF TypeInv, TypeOK, CreditInv
<1>3. Ready(D, e) /\ waiting[e] = 0 /\ Runners(e) = {w}
  BY WorkerFacts
<1>4. /\ e \notin D /\ PredsOf(prog, e) \subseteq D
      /\ \A v \in Thread : Owing(v, e) = {} /\ \A c \in todo[v] : c[1] # e
      /\ \A v \in Thread : Delivering(v) => elem[v] # e
  BY <1>1, <1>3, ReadyFacts, Alone
<1>5. \A v \in Thread : v # w => /\ \A j : Owing(v, j)' = Owing(v, j)
                                 /\ \A j : RunsOn(v, j)' <=> RunsOn(v, j)
                                 /\ Delivering(v)' <=> Delivering(v)
  BY <1>2, SameThread
<1>6. /\ \A j : Owing(w, j) = {}
      /\ \A j \in Indices(prog) : Owing(w, j)' = IF e \in PredsOf(prog, j) THEN {e} ELSE {}
      /\ \A j : ~RunsOn(w, j)'
      /\ \A j : RunsOn(w, j) => j = e
  <2>1. \A j \in Indices(prog) : Owes(w, j)' <=> e \in PredsOf(prog, j)
    <3>1. \A j : Owes(w, j)' <=> \E c \in Follows(prog, e) : c[1] = j
      BY <1>2 DEF Owes
    <3>2. \A j \in Indices(prog) : (\E c \in Follows(prog, e) : c[1] = j) <=> e \in PredsOf(prog, j)
      BY ShareTargets
    <3> HIDE DEF e
    <3> QED
      BY <3>1, <3>2
  <2>2. \A j \in Indices(prog) : Owing(w, j)' = IF e \in PredsOf(prog, j) THEN {e} ELSE {}
    <3>1. ASSUME NEW j, Owes(w, j)'  PROVE Owing(w, j)' = {e}
      BY <1>2, <3>1 DEF Owing
    <3>2. ASSUME NEW j, ~Owes(w, j)'  PROVE Owing(w, j)' = {}
      BY <3>2 DEF Owing
    <3> QED
      BY <2>1, <3>1, <3>2
  <2>3. \A j : Owing(w, j) = {}
    BY <1>2 DEF Owing, Owes
  <2>4. (\A j : ~RunsOn(w, j)') /\ (\A j : RunsOn(w, j) => j = e)
    BY <1>2 DEF RunsOn, ByHand
  <2> QED
    BY <2>2, <2>3, <2>4
<1>7. D \in SUBSET Indices(prog) /\ PredClosed(prog, D)
  BY DEF DoneInv
<1>8. \A j \in Indices(prog) : e \in PredsOf(prog, j) => j \notin E
  BY <1>1, <1>4, <1>7, OrderFacts DEF PredClosed, PredsOf
<1> HIDE DEF e
<1>9. \A j \in Indices(prog) : Paid(E, j)' = Paid(D, j)
  <2>1. ASSUME NEW j \in Indices(prog)
        PROVE  /\ \A i \in PredsOf(prog, j) \cap E : (\A v \in Thread : i \notin Owing(v, j)') =>
                     i \in D /\ \A v \in Thread : i \notin Owing(v, j)
               /\ \A i \in PredsOf(prog, j) \cap D : (\A v \in Thread : i \notin Owing(v, j)) =>
                     i \in E /\ \A v \in Thread : i \notin Owing(v, j)'
    BY <1>4, <1>5, <1>6 DEF e
  <2> QED
    BY <2>1 DEF Paid
<1>10. \A j \in Indices(prog) : j # e => (Ready(E, j)' <=> Ready(D, j))
  BY <1>9 DEF Ready, e
<1>11. /\ ~Ready(E, e)' /\ Runners(e)' = {}
       /\ \A j \in Indices(prog) : j # e => Runners(j)' = Runners(j)
  <2>1. ~Ready(E, e)'
    BY DEF Ready, e
  <2>2. \A v \in Thread : v # w => ~RunsOn(v, e)
    BY <1>3 DEF Runners
  <2>3. Runners(e)' = {}
    BY <1>5, <1>6, <2>2 DEF Runners
  <2>4. \A j \in Indices(prog) : j # e => Runners(j)' = Runners(j)
    BY <1>5, <1>6 DEF Runners
  <2> QED
    BY <2>1, <2>3, <2>4
<1>12. DoneInv(E)'
  <2>1. E \subseteq Indices(prog)
    BY <1>1, <1>7 DEF e
  <2>2. PredClosed(prog, E)
    BY <1>4, <1>7 DEF PredClosed, PredsOf, e
  <2>3. ~Idle'
    BY <1>2 DEF Idle
  <2> QED
    BY <2>1, <2>2, <2>3 DEF DoneInv, PredClosed
<1>13. CreditInv(E)'
  <2>1. ASSUME NEW v \in Thread, v # w
        PROVE  /\ pc'[v] \notin {"notify", "loop"} => todo'[v] = {}
               /\ pc'[v] = "notify" => todo'[v] \subseteq Follows(prog, elem[v])
               /\ pc'[v] = "loop" => elem[v] \in Exits(prog) /\ todo'[v] \subseteq LoopShares(prog, elem[v])
               /\ \A c \in todo'[v] : c[1] \notin E /\ Owing(v, c[1])' \subseteq E
    BY <1>2, <1>4, <1>5, <2>1 DEF CreditInv, e
  <2>2. ASSUME NEW c \in todo'[w]  PROVE c[1] \notin E /\ Owing(w, c[1])' \subseteq E
    <3>1. c[1] \in Indices(prog) /\ e \in PredsOf(prog, c[1])
      BY <1>2, <2>2 DEF Follows
    <3>2. Owing(w, c[1])' = {e}
      BY <1>6, <3>1
    <3> QED
      BY <1>8, <3>1, <3>2 DEF e
  <2> QED
    BY <1>2, <2>1, <2>2 DEF CreditInv, e
<1>14. ApartInv'
  <2>1. ASSUME NEW v \in Thread, v # w
        PROVE  /\ \A j \in Indices(prog) : Owing(w, j)' \cap Owing(v, j)' = {}
               /\ Delivering(v)' => elem[v] # e
    <3>1. ASSUME NEW j \in Indices(prog)  PROVE e \notin Owing(v, j)
      <4>1. ASSUME Owes(v, j)  PROVE Owing(v, j) \subseteq D
        BY <4>1, OwingFacts DEF Owes
      <4>2. Owing(v, j) \subseteq D
        BY <4>1 DEF Owing
      <4> QED
        BY <1>4, <4>2 DEF e
    <3> QED
      BY <1>4, <1>5, <1>6, <2>1, <3>1
  <2> QED
    BY <1>5, <2>1 DEF ApartInv, e
<1>15. CountInv(E)'
  <2>1. \A j : j # e => (DataOn(j)' <=> DataOn(j))
    BY <1>2 DEF DataOn, e
  <2>2. DataOn(e)
    BY DEF DataOn, e
  <2>3. counter[e] = 0
    BY <1>1, <2>2 DEF CountInv
  <2>4. ASSUME NEW j \in Indices(prog)
        PROVE  counter'[j] = IF j \in E \/ DataOn(j)' THEN 0 ELSE Cardinality(Paid(E, j)')
    <3>1. CASE j = e
      BY <2>3, <3>1 DEF e
    <3>2. CASE j # e
      <4>1. j \in E <=> j \in D
        BY <3>2 DEF e
      <4> QED
        BY <1>9, <2>1, <3>2, <4>1 DEF CountInv
    <3> QED
      BY <3>1, <3>2
  <2> QED
    BY <2>4 DEF CountInv
<1>16. OnceInv(E)'
  BY <1>3, <1>10, <1>11 DEF OnceInv, e
<1> QED
  BY <1>12, <1>13, <1>14, <1>15, <1>16

\* A loop goes round again: it is done no longer.
LEMMA IterateControl ==
  ASSUME TypeInv, NEW D, ControlInv(D), NEW w \in Thread, Iterate(w),
         NEW E, E = D \ LoopOf(prog, elem[w])
  PROVE  ControlInv(E)'
<1> USE DEF ControlInv
<1> DEFINE x == elem[w]
           loop == LoopOf(prog, x)
           n == EntryOf(prog)
<1>1. /\ prog' = prog /\ elem' = elem /\ counter' = counter /\ waiting' = waiting
      /\ prog \in Programs /\ x \in Exits(prog) /\ pc[w] = "data"
      /\ pc' = [pc EXCEPT ![w] = "loop"]
      /\ todo' = [todo EXCEPT ![w] = LoopShares(prog, x)]
  BY Bridge DEF Iterate, fixed, TypeInv, TypeOK
<1>2. /\ pc'[w] = "loop" /\ todo'[w] = LoopShares(prog, x) /\ todo[w] = {}
      /\ \A v \in Thread : v # w => pc'[v] = pc[v] /\ todo'[v] = todo[v]
  BY <1>1 DEF TypeInv, TypeOK, CreditInv
<1>3. /\ x \in Indices(prog) /\ loop \subseteq Indices(prog) /\ x \in loop
      /\ HeadOf(prog, x) \in loop
      /\ \A i \in Indices(prog) \ loop : PredsOf(prog, i) \cap loop \subseteq {x}
      /\ n \in Indices(prog) /\ x # n /\ (n \in loop => HeadOf(prog, x) = n)
  BY <1>1, LoopFacts, EntryFacts, OrderFacts
<1>4. Ready(D, x) /\ waiting[x] = 0 /\ Runners(x) = {w}
  BY <1>1, WorkerFacts
<1>5. /\ x \notin D /\ PredsOf(prog, x) \subseteq D
      /\ \A v \in Thread : Owing(v, x) = {} /\ \A c \in todo[v] : c[1] # x
      /\ \A v \in Thread : Delivering(v) => elem[v] # x
  BY <1>3, <1>4, ReadyFacts, Alone
<1>6. D \in SUBSET Indices(prog) /\ PredClosed(prog, D) /\ loop \ {x} \subseteq D
  BY <1>1, <1>5, LoopDone DEF DoneInv
<1> HIDE DEF x, loop, n
<1>7. \A v \in Thread : v # w => /\ \A j : Owing(v, j)' = Owing(v, j)
                                 /\ \A j : RunsOn(v, j)' <=> RunsOn(v, j)
                                 /\ Delivering(v)' <=> Delivering(v)
  BY <1>1, <1>2, SameThread
<1>8. /\ \A j : Owing(w, j) = {}
      /\ \A j \in Indices(prog) :
           Owing(w, j)' = IF j \in loop THEN PredsOf(prog, j) \ loop ELSE {}
  <2>1. \A j : Owing(w, j) = {}
    BY <1>2 DEF Owing, Owes
  <2>2. \A j : Owes(w, j)' <=> j \in Reentered(prog, x)
    <3>1. \A j : Owes(w, j)' <=> \E c \in LoopShares(prog, x) : c[1] = j
      BY <1>2 DEF Owes
    <3>2. \A j : (\E c \in LoopShares(prog, x) : c[1] = j) <=> j \in Reentered(prog, x)
      BY ShareTargets
    <3> QED
      BY <3>1, <3>2
  <2>3. \A j : Outside(prog, x, j) = PredsOf(prog, j) \ loop
    BY DEF Outside, loop
  <2>4. \A j : j \in Reentered(prog, x) <=> j \in loop /\ PredsOf(prog, j) \ loop # {}
    BY DEF Reentered, loop
  <2>5. ASSUME NEW j, Owes(w, j)'  PROVE Owing(w, j)' = PredsOf(prog, j) \ loop
    <3>1. Owing(w, j)' = Outside(prog, elem[w], j)'
      BY <1>2, <2>5 DEF Owing
    <3>2. Outside(prog, elem[w], j)' = Outside(prog, x, j)
      BY <1>1 DEF Outside, x
    <3> QED
      BY <2>3, <3>1, <3>2
  <2>6. ASSUME NEW j, ~Owes(w, j)'  PROVE Owing(w, j)' = {}
    BY <2>6 DEF Owing
  <2>7. \A j : Owing(w, j)' = IF j \in loop THEN PredsOf(prog, j) \ loop ELSE {}
    BY <2>2, <2>4, <2>5, <2>6
  <2> QED
    BY <2>1, <2>7
<1>9. \A j : RunsOn(w, j) => j = x
  BY <1>1 DEF RunsOn, ByHand, x
<1>10. \A j : RunsOn(w, j)' <=> j = n /\ n \in loop
  BY <1>1, <1>2, <1>3 DEF RunsOn, ByHand, x, n
<1>11. E = D \ loop
  BY DEF loop, x
<1>12. \A j \in Indices(prog) : j \notin loop => Paid(E, j)' = Paid(D, j)
  <2>1. ASSUME NEW j \in Indices(prog), j \notin loop
        PROVE  PredsOf(prog, j) \cap E = PredsOf(prog, j) \cap D
    BY <1>3, <1>5, <1>11, <2>1
  <2>2. ASSUME NEW j \in Indices(prog), j \notin loop, NEW v \in Thread
        PROVE  Owing(v, j)' = Owing(v, j)
    BY <1>7, <1>8, <2>2
  <2> QED
    BY <1>1, <2>1, <2>2 DEF Paid
<1>13. \A j \in Indices(prog) : j \in loop => Paid(E, j)' = {}
  BY <1>1, <1>8, <1>11 DEF Paid
<1>14. \A j \in Indices(prog) : j \notin loop => (Ready(E, j)' <=> Ready(D, j))
  BY <1>1, <1>11, <1>12 DEF Ready
<1>15. \A j \in Indices(prog) : j \in loop => (Ready(E, j)' <=> j = n)
  <2>1. \A j \in Indices(prog) : PredsOf(prog, j) = {} <=> j = n
    BY <1>1, OrderFacts DEF n
  <2> QED
    BY <1>1, <1>11, <1>13, <2>1 DEF Ready
<1>16. \A v \in Thread : \A c \in todo[v] : c[1] \notin loop
  BY <1>5, <1>6 DEF CreditInv
<1>17. DoneInv(E)'
  <2>1. E \subseteq Indices(prog)
    BY <1>6, <1>11
  <2>2. PredClosed(prog, E)
    <3> SUFFICES ASSUME NEW i \in E  PROVE PredsOf(prog, i) \subseteq E
      BY DEF PredClosed, PredsOf
    <3>1. PredsOf(prog, i) \subseteq D /\ i \in Indices(prog) \ loop
      BY <1>6, <1>11 DEF PredClosed, PredsOf
    <3> QED
      BY <1>3, <1>5, <1>11, <3>1
  <2>3. ~Idle'
    BY <1>2 DEF Idle
  <2> QED
    BY <1>1, <2>1, <2>2, <2>3 DEF DoneInv, PredClosed
<1>18. CreditInv(E)'
  <2>1. ASSUME NEW v \in Thread, v # w
        PROVE  /\ pc'[v] \notin {"notify", "loop"} => todo'[v] = {}
               /\ pc'[v] = "notify" => todo'[v] \subseteq Follows(prog, elem[v])
               /\ pc'[v] = "loop" => elem[v] \in Exits(prog) /\ todo'[v] \subseteq LoopShares(prog, elem[v])
    BY <1>2, <2>1 DEF CreditInv
  <2>2. ASSUME NEW v \in Thread, v # w, NEW c \in todo'[v]
        PROVE  c[1] \notin E /\ Owing(v, c[1])' \subseteq E
    <3>1. c \in todo[v]
      BY <1>2, <2>2
    <3>2. /\ c[1] \in Indices(prog) /\ c[1] \notin D
          /\ Owing(v, c[1]) \subseteq PredsOf(prog, c[1]) \cap D
      BY <3>1, OwingFacts
    <3>3. c[1] \notin loop
      BY <1>16, <3>1
    <3>4. Owing(v, c[1]) \subseteq E
      BY <1>3, <1>5, <1>11, <3>2, <3>3
    <3> QED
      BY <1>7, <1>11, <2>2, <3>2, <3>4
  <2>3. ASSUME NEW c \in todo'[w]  PROVE c[1] \notin E /\ Owing(w, c[1])' \subseteq E
    <3>1. c[1] \in loop
      BY <1>2, <2>3 DEF LoopShares, Reentered, loop
    <3>2. PredsOf(prog, c[1]) \subseteq D
      BY <1>5, <1>6, <3>1 DEF PredClosed, PredsOf
    <3> QED
      BY <1>3, <1>8, <1>11, <3>1, <3>2
  <2>4. elem[w] \in Exits(prog)
    BY <1>1 DEF x
  <2> QED
    BY <1>1, <1>2, <2>1, <2>2, <2>3, <2>4 DEF CreditInv, x
<1>19. ApartInv'
  <2>1. ASSUME NEW v \in Thread, v # w, NEW j \in Indices(prog)
        PROVE  Owing(w, j)' \cap Owing(v, j)' = {}
    <3>1. CASE j \in loop
      <4>1. ~Owes(v, j)
        BY <1>16, <3>1 DEF Owes
      <4>2. Owing(v, j) = {}
        BY <4>1 DEF Owing
      <4> QED
        BY <1>7, <2>1, <4>2
    <3>2. CASE j \notin loop
      BY <1>8, <3>2
    <3> QED
      BY <3>1, <3>2
  <2>2. \A v \in Thread : v # w /\ Delivering(v)' => elem[v] # x
    BY <1>5, <1>7
  <2> QED
    BY <1>1, <1>7, <2>1, <2>2 DEF ApartInv, x
<1>20. CountInv(E)'
  <2>1. \A j : j # x => (DataOn(j)' <=> DataOn(j))
    BY <1>1, <1>2 DEF DataOn, x
  <2>2. DataOn(x)
    BY <1>1 DEF DataOn, x
  <2>3. ASSUME NEW j \in Indices(prog), j \in loop
        PROVE  counter'[j] = 0 /\ Cardinality(Paid(E, j)') = 0
    <3>1. j \in D \/ DataOn(j)
      BY <1>6, <2>2, <2>3
    <3>2. counter[j] = 0
      BY <3>1 DEF CountInv
    <3> QED
      BY <1>1, <1>13, <2>3, <3>2, FS_EmptySet
  <2>4. ASSUME NEW j \in Indices(prog), j \notin loop
        PROVE  counter'[j] = IF j \in E \/ DataOn(j)' THEN 0 ELSE Cardinality(Paid(E, j)')
    <3>1. j # x /\ (j \in E <=> j \in D)
      BY <1>3, <1>11, <2>4
    <3> QED
      BY <1>1, <1>12, <2>1, <2>4, <3>1 DEF CountInv
  <2> QED
    BY <1>1, <2>3, <2>4 DEF CountInv
<1>21. OnceInv(E)'
  <2>1. ASSUME NEW j \in Indices(prog), j \notin loop  PROVE Runners(j)' = Runners(j)
    BY <1>3, <1>7, <1>9, <1>10, <2>1 DEF Runners
  <2>2. ASSUME NEW j \in Indices(prog), j \in loop
        PROVE  waiting[j] = 0 /\ \A v \in Thread : v # w => ~RunsOn(v, j)
    <3>1. CASE j = x
      BY <1>4, <3>1 DEF Runners
    <3>2. CASE j # x
      <4>1. ~Ready(D, j)
        BY <1>6, <2>2, <3>2 DEF Ready
      <4> QED
        BY <4>1 DEF OnceInv, Runners
    <3> QED
      BY <3>1, <3>2
  <2>3. ASSUME NEW j \in Indices(prog), j \in loop, j # n
        PROVE  waiting'[j] = 0 /\ Runners(j)' = {}
    BY <1>1, <1>7, <1>10, <2>2, <2>3 DEF Runners
  <2>4. ASSUME NEW j \in Indices(prog), j \in loop, j = n
        PROVE  waiting'[j] = 0 /\ Runners(j)' = {w}
    BY <1>1, <1>7, <1>10, <2>2, <2>4 DEF Runners
  <2> QED
    BY <1>1, <1>14, <1>15, <2>1, <2>3, <2>4 DEF OnceInv
<1> QED
  BY <1>17, <1>18, <1>19, <1>20, <1>21
-----------------------------------------------------------------------------
(***************************************************************************)
(* Data: the entry and exit states and the iteration counts.               *)
(***************************************************************************)
\* Whose states an element accesses, and how an edge adds to a head's.
LEMMA NodeFacts ==
  ASSUME TypeInv
  PROVE  /\ \A i \in Indices(prog) : NodeAt(prog, i) \in Node
         /\ \A i, k \in Vertices(prog) : NodeAt(prog, i) = NodeAt(prog, k) => i = k
         /\ \A i \in Indices(prog) : \A x \in Exits(prog) :
              NodeAt(prog, i) = NodeAt(prog, x) => HeadOf(prog, i) = HeadOf(prog, x)
         /\ \A x \in Exits(prog) : NodeAt(prog, x) = NodeAt(prog, HeadOf(prog, x))
         /\ \A x, y \in Exits(prog) : NodeAt(prog, x) = NodeAt(prog, y) => x = y
         /\ \A i, k \in Indices(prog) : Edge(prog, i, k) => NodeAt(prog, i) \in Preds(NodeAt(prog, k))
<1>1. prog \in Programs /\ Exits(prog) \subseteq Indices(prog) /\ Vertices(prog) \subseteq Indices(prog)
  BY DEF TypeInv, Exits, Vertices
<1>2. \A i \in Indices(prog) : NodeAt(prog, i) \in Node
  BY <1>1, VertexFacts DEF Node
<1>3. \A i, k \in Vertices(prog) : NodeAt(prog, i) = NodeAt(prog, k) => i = k
  BY <1>1, VertexFacts
<1>4. \A i \in Indices(prog) : \A x \in Exits(prog) :
        NodeAt(prog, i) = NodeAt(prog, x) => HeadOf(prog, i) = HeadOf(prog, x)
  BY <1>1, VertexFacts
<1>5. \A x \in Exits(prog) : HeadOf(prog, HeadOf(prog, x)) = HeadOf(prog, x)
  BY <1>1, VertexFacts
<1>6. \A x \in Exits(prog) : NodeAt(prog, x) = NodeAt(prog, HeadOf(prog, x))
  BY <1>5 DEF NodeAt
<1>7. \A x, y \in Exits(prog) : NodeAt(prog, x) = NodeAt(prog, y) => x = y
  BY <1>1, VertexFacts
<1>8. ASSUME NEW i, NEW k, Edge(prog, i, k)  PROVE NodeAt(prog, i) \in Preds(NodeAt(prog, k))
  <2> DEFINE f == <<NodeAt(prog, i), NodeAt(prog, k)>>
  <2>1. f \in prog.edges /\ f[1] = NodeAt(prog, i) /\ f[2] = NodeAt(prog, k)
    BY <1>8 DEF Edge
  <2> HIDE DEF f
  <2> QED
    BY <2>1 DEF Preds
<1> QED
  BY <1>2, <1>3, <1>4, <1>6, <1>7, <1>8

\* No edge leads from an element that is not done back into a loop that is.
LEMMA ExitsLast ==
  ASSUME TypeInv, NEW D, DoneInv(D), NEW x \in Exits(prog), x \in D,
         NEW i \in Vertices(prog), Edge(prog, i, x)
  PROVE  i \in D
<1>1. /\ prog \in Programs /\ D \in SUBSET Indices(prog) /\ PredClosed(prog, D)
      /\ Vertices(prog) \subseteq Indices(prog)
  BY DEF TypeInv, DoneInv, Vertices
<1> DEFINE h == HeadOf(prog, x)
<1>2. LoopOf(prog, x) \subseteq D /\ h \in LoopOf(prog, x) /\ h \in Vertices(prog)
  BY <1>1, LoopDone, LoopFacts
<1>3. Edge(prog, i, h)
  BY NodeFacts DEF Edge
<1>4. CASE Before(prog, i, h)
  BY <1>1, <1>2, <1>4, BeforeClosed
<1>5. ASSUME NEW y \in Exits(prog), HeadOf(prog, y) = h, i \in LoopOf(prog, y)
      PROVE  i \in D
  <2>1. y = x
    BY <1>1, <1>5, VertexFacts
  <2> QED
    BY <1>2, <1>5, <2>1
<1> HIDE DEF h
<1> QED
  BY <1>1, <1>2, <1>3, <1>4, <1>5, EdgeFacts

LEMMA InitData ==
  ASSUME Init, TypeInv, NEW D  PROVE DataInv(D)
<1>1. \A i \in Indices(prog) : ~iterated[NodeAt(prog, i)]
  BY NodeFacts DEF Init
<1>2. runs = 0
  BY DEF Init
<1> QED
  BY <1>1, <1>2 DEF DataInv, IterInv

LEMMA RunData ==
  ASSUME TypeInv, NEW v \in Inits, Run(v), NEW E, E = {}
  PROVE  DataInv(E)'
<1>1. /\ prog' = prog /\ exit' = [n \in Node |-> Bottom]
      /\ iterated' = [n \in Node |-> FALSE]
  BY DEF Run
<1>2. IterInv(E)'
  BY <1>1, NodeFacts DEF IterInv
<1>3. ValueInv(E)'
  BY <1>1 DEF ValueInv, Node
<1> QED
  BY <1>2, <1>3 DEF DataInv

LEMMA SameData ==
  ASSUME NEW D, DataInv(D), UNCHANGED <<fixed, states>>
  PROVE  DataInv(D)'
<1>1. /\ prog' = prog /\ init' = init /\ runs' = runs
      /\ entry' = entry /\ exit' = exit /\ iterated' = iterated
  BY DEF fixed, states
<1>2. IterInv(D) => IterInv(D)'
  BY <1>1 DEF IterInv
<1>3. ValueInv(D) => ValueInv(D)'
  BY <1>1 DEF ValueInv, Covers, Node
<1> QED
  BY <1>1, <1>2, <1>3 DEF DataInv

\* A node is analysed: its states cover what came before it, and no element
\* that is done reads its exit state.
LEMMA AnalyzeData ==
  ASSUME TypeInv, NEW D, ControlInv(D), DataInv(D), NEW w \in Thread, AnalyzeVertex(w),
         NEW E, E = D \cup {elem[w]}
  PROVE  DataInv(E)'
<1> DEFINE e == elem[w]
           n == NodeAt(prog, e)
<1>1. /\ prog \in Programs /\ e \in Vertices(prog) /\ e \in Indices(prog) /\ n \in Node
      /\ e \notin Exits(prog)
      /\ prog' = prog /\ init' = init /\ runs' = runs /\ iterated' = iterated
      /\ entry' = [entry EXCEPT ![n] = Join(@, Incoming(n))]
      /\ exit' = [exit EXCEPT ![n] = prog.transfer[n][entry'[n]]]
      /\ pc[w] = "data"
  <2>1. prog \in Programs /\ e \in Idx /\ e \in Indices(prog) /\ NodeOf(e) = n
    BY Bridge DEF TypeInv, TypeOK
  <2>2. ~IsExit(e) /\ e \notin Exits(prog)
    BY <2>1, Bridge DEF AnalyzeVertex
  <2>3. e \in Vertices(prog) /\ n \in Node
    BY <2>1, <2>2, NodeFacts DEF Vertices
  <2> QED
    BY <2>1, <2>2, <2>3 DEF AnalyzeVertex, fixed
<1>2. /\ e \notin D /\ D \in SUBSET Indices(prog) /\ PredClosed(prog, D) /\ DoneInv(D)
  BY <1>1, WorkerFacts DEF Ready, DoneInv, ControlInv
<1> HIDE DEF e, n
<1>3. /\ entry[n] \in Value /\ Incoming(n) \in Value
      /\ entry'[n] \in Value /\ Incoming(n) <= entry'[n]
      /\ exit'[n] = prog.transfer[n][entry'[n]] /\ exit'[n] \in Value
      /\ \A m \in Node : m # n => entry'[m] = entry[m] /\ exit'[m] = exit[m]
  <2>1. entry \in [Node -> Value] /\ exit \in [Node -> Value]
    BY DEF TypeInv, TypeOK
  <2>2. entry[n] \in Value /\ Incoming(n) \in Value
    BY <1>1, <2>1, IncomingFacts
  <2>3. entry'[n] = Join(entry[n], Incoming(n))
    BY <1>1, <2>1
  <2>4. entry'[n] \in Value /\ Incoming(n) <= entry'[n]
    BY <2>2, <2>3, ValueFacts
  <2>5. prog.transfer[n][entry'[n]] \in Value
    BY <1>1, <2>4, TransferFacts DEF Node
  <2>6. exit'[n] = prog.transfer[n][entry'[n]]
    BY <1>1, <2>1
  <2> QED
    BY <1>1, <2>1, <2>2, <2>4, <2>5, <2>6
<1>4. \A k \in Vertices(prog) : k # e => NodeAt(prog, k) # n
  BY <1>1, NodeFacts DEF n
<1>5. \A k \in Indices(prog) : NodeAt(prog, k) \in Node
  BY NodeFacts
<1>6. Vertices(prog) \subseteq Indices(prog)
  BY DEF Vertices
<1>7. \A i \in Vertices(prog) : Edge(prog, i, e) /\ i # e => exit'[NodeAt(prog, i)] <= entry'[n]
  <2> SUFFICES ASSUME NEW i \in Vertices(prog), Edge(prog, i, e), i # e
               PROVE  exit'[NodeAt(prog, i)] <= entry'[n]
    OBVIOUS
  <2>1. NodeAt(prog, i) \in Preds(n) /\ NodeAt(prog, i) \in Node
    BY <1>1, <1>6, NodeFacts DEF n
  <2>2. exit[NodeAt(prog, i)] \in Value /\ exit[NodeAt(prog, i)] <= Incoming(n)
    BY <2>1, IncomingFacts DEF TypeInv, TypeOK
  <2>3. exit'[NodeAt(prog, i)] = exit[NodeAt(prog, i)]
    BY <1>3, <1>4, <2>1
  <2> QED
    BY <1>3, <2>2, <2>3, ValuesAssumption DEF Value
<1>8. E = D \cup {e}
  BY DEF e
<1>9. IterInv(E)'
  <2> SUFFICES ASSUME NEW i \in Indices(prog), iterated[NodeAt(prog, i)]
               PROVE  \E x \in Exits(prog) : x \notin E /\ NodeAt(prog, x) = NodeAt(prog, i)
    BY <1>1 DEF IterInv
  <2>1. PICK x \in Exits(prog) : x \notin D /\ NodeAt(prog, x) = NodeAt(prog, i)
    BY DEF DataInv, IterInv
  <2> QED
    BY <1>1, <1>8, <2>1
<1>10. ASSUME ValueInv(D)  PROVE ValueInv(E)'
  <2>1. ASSUME NEW m \in Node, \A i \in Vertices(prog) : NodeAt(prog, i) # m
        PROVE  exit'[m] = Bottom
    <3>1. m # n
      BY <1>1, <2>1 DEF n
    <3>2. exit[m] = Bottom
      BY <1>10, <2>1 DEF ValueInv
    <3> QED
      BY <1>3, <3>1, <3>2
  <2>2. ASSUME NEW k \in Vertices(prog), k = e
        PROVE  /\ prog.transfer[n][entry'[n]] <= exit'[n]
               /\ n = prog.root => init <= entry'[n]
    <3>1. n = prog.root => init <= Incoming(n)
      BY IncomingFacts
    <3>2. init \in Value
      BY DEF TypeInv, TypeOK
    <3> QED
      BY <1>3, <3>1, <3>2, ValuesAssumption DEF Value
  <2>3. ASSUME NEW k \in Vertices(prog), k # e, k \in D
        PROVE  LET m == NodeAt(prog, k) IN
               /\ prog.transfer[m][entry'[m]] <= exit'[m]
               /\ m = prog.root => init <= entry'[m]
               /\ \A i \in Vertices(prog) :
                    Edge(prog, i, k) /\ i # k /\ Before(prog, i, k) =>
                      exit'[NodeAt(prog, i)] <= entry'[m]
    <3> DEFINE m == NodeAt(prog, k)
    <3>1. m # n /\ m \in Node
      BY <1>4, <1>5, <1>6, <2>3
    <3>2. entry'[m] = entry[m] /\ exit'[m] = exit[m]
      BY <1>3, <3>1
    <3>3. /\ prog.transfer[m][entry[m]] <= exit[m]
          /\ m = prog.root => init <= entry[m]
          /\ \A i \in Vertices(prog) : Edge(prog, i, k) /\ i # k /\ Before(prog, i, k) =>
               exit[NodeAt(prog, i)] <= entry[m]
      BY <1>10, <2>3 DEF ValueInv, Covers
    <3> HIDE DEF m
    <3>4. ASSUME NEW i \in Vertices(prog), Before(prog, i, k)
          PROVE  exit'[NodeAt(prog, i)] = exit[NodeAt(prog, i)]
      <4>1. i \in D
        BY <1>2, <2>3, <3>4, BeforeClosed
      <4>2. NodeAt(prog, i) # n
        BY <1>2, <1>4, <4>1
      <4> QED
        BY <1>3, <1>5, <1>6, <4>2
    <3>5. /\ prog.transfer[m][entry'[m]] <= exit'[m]
          /\ m = prog.root => init <= entry'[m]
          /\ \A i \in Vertices(prog) : Edge(prog, i, k) /\ i # k /\ Before(prog, i, k) =>
               exit'[NodeAt(prog, i)] <= entry'[m]
      BY <3>2, <3>3, <3>4
    <3> QED
      BY <3>5 DEF m
  <2>4. ASSUME NEW x \in Exits(prog), x \in E, NEW i \in Vertices(prog), Edge(prog, i, x)
        PROVE  exit'[NodeAt(prog, i)] <= entry'[NodeAt(prog, x)]
    <3>1. x \in D
      BY <1>1, <1>8, <2>4
    <3>2. i \in D /\ HeadOf(prog, x) \in D
      BY <1>1, <1>2, <2>4, <3>1, ExitsLast, LoopDone, LoopFacts
    <3>3. HeadOf(prog, x) \in Vertices(prog) /\ NodeAt(prog, x) = NodeAt(prog, HeadOf(prog, x))
      BY <1>1, LoopFacts, NodeFacts
    <3>4. NodeAt(prog, i) # n /\ NodeAt(prog, x) # n
      BY <1>2, <1>4, <3>2, <3>3
    <3>5. exit[NodeAt(prog, i)] <= entry[NodeAt(prog, x)]
      BY <1>10, <2>4, <3>1 DEF ValueInv, Covers
    <3> QED
      BY <1>3, <1>5, <1>6, <3>3, <3>4, <3>5
  <2>5. Node' = Node
    BY <1>1 DEF Node
  <2> QED
    BY <1>1, <1>7, <1>8, <2>1, <2>2, <2>3, <2>4, <2>5 DEF ValueInv, Covers, n
<1> QED
  BY <1>1, <1>9, <1>10 DEF DataInv

\* What the exit of a loop changes: only the states of its head.
LEMMA ExitStep ==
  ASSUME TypeInv, NEW D, ControlInv(D), NEW w \in Thread, Stabilize(w) \/ Iterate(w)
  PROVE  LET x == elem[w]
             n == NodeAt(prog, x)
         IN  /\ x \in Exits(prog) /\ x \notin D /\ n \in Node /\ NodeOf(x) = n
             /\ HeadOf(prog, x) \in D
             /\ prog' = prog /\ init' = init /\ runs' = runs /\ exit' = exit
             /\ \A m \in Node : m # n => entry'[m] = entry[m] /\ iterated'[m] = iterated[m]
             /\ \A k \in Vertices(prog) : k # HeadOf(prog, x) => NodeAt(prog, k) # n
             /\ \A y \in Exits(prog) : y # x => NodeAt(prog, y) # n
<1> DEFINE x == elem[w]
           n == NodeAt(prog, x)
<1>1. prog \in Programs /\ x \in Idx /\ Idx = Indices(prog) /\ NodeOf(x) = n
  BY Bridge DEF TypeInv, TypeOK
<1>2. x \in Exits(prog) /\ pc[w] = "data" /\ n \in Node
  BY <1>1, Bridge, NodeFacts DEF Stabilize, Iterate
<1>3. /\ x \notin D /\ PredsOf(prog, x) \subseteq D /\ D \in SUBSET Indices(prog)
      /\ PredClosed(prog, D)
  BY <1>2, WorkerFacts DEF Ready, Paid, ControlInv, DoneInv
<1>4. HeadOf(prog, x) \in D /\ HeadOf(prog, x) \in Vertices(prog)
  BY <1>1, <1>2, <1>3, LoopDone, LoopFacts
<1>5. prog' = prog /\ init' = init /\ runs' = runs /\ exit' = exit
  BY DEF Stabilize, Iterate, fixed
<1>6. \A m \in Node : m # n => entry'[m] = entry[m] /\ iterated'[m] = iterated[m]
  BY <1>1 DEF Stabilize, Iterate, TypeInv, TypeOK
<1>7. \A k \in Vertices(prog) : k # HeadOf(prog, x) => NodeAt(prog, k) # n
  BY <1>2, <1>4, NodeFacts
<1>8. \A y \in Exits(prog) : y # x => NodeAt(prog, y) # n
  BY <1>2, NodeFacts
<1> HIDE DEF x, n
<1> QED
  BY <1>1, <1>2, <1>3, <1>4, <1>5, <1>6, <1>7, <1>8 DEF x, n

\* A loop has stabilised: the state at its head shrinks to what enters it,
\* and what the head made of more still covers what it makes of that.
LEMMA StabilizeData ==
  ASSUME TypeInv, NEW D, ControlInv(D), DataInv(D), NEW w \in Thread, Stabilize(w),
         NEW E, E = D \cup {elem[w]}
  PROVE  DataInv(E)'
<1> DEFINE x == elem[w]
           n == NodeAt(prog, x)
<1>1. /\ x \in Exits(prog) /\ x \notin D /\ n \in Node /\ NodeOf(x) = n
      /\ HeadOf(prog, x) \in D
      /\ prog' = prog /\ init' = init /\ runs' = runs /\ exit' = exit
      /\ \A m \in Node : m # n => entry'[m] = entry[m] /\ iterated'[m] = iterated[m]
      /\ \A k \in Vertices(prog) : k # HeadOf(prog, x) => NodeAt(prog, k) # n
      /\ \A y \in Exits(prog) : y # x => NodeAt(prog, y) # n
  BY ExitStep
<1>2. /\ prog \in Programs /\ Exits(prog) \subseteq Indices(prog)
      /\ HeadOf(prog, x) \in Vertices(prog) /\ Vertices(prog) \subseteq Indices(prog)
      /\ n = NodeAt(prog, HeadOf(prog, x))
  BY <1>1, LoopFacts, NodeFacts DEF Exits, Vertices, TypeInv
<1>3. /\ entry'[n] = Incoming(n) /\ ~iterated'[n] /\ Incoming(n) <= entry[n]
      /\ Incoming(n) \in Value /\ entry[n] \in Value /\ exit \in [Node -> Value]
      /\ init \in Value
  BY <1>1, IncomingFacts DEF Stabilize, Subsumed, TypeInv, TypeOK
<1>4. E = D \cup {x}
  BY DEF x
<1>5. \A i \in Indices(prog) : NodeAt(prog, i) \in Node
  BY NodeFacts
<1>6. \A i \in Vertices(prog) : Edge(prog, i, x) \/ Edge(prog, i, HeadOf(prog, x)) =>
        exit[NodeAt(prog, i)] <= entry'[n]
  <2> SUFFICES ASSUME NEW i \in Vertices(prog), Edge(prog, i, x) \/ Edge(prog, i, HeadOf(prog, x))
               PROVE  exit[NodeAt(prog, i)] <= entry'[n]
    OBVIOUS
  <2>1. NodeAt(prog, i) \in Preds(n)
    BY <1>1, <1>2, NodeFacts
  <2> QED
    BY <1>3, <2>1, IncomingFacts
<1> HIDE DEF x, n
<1>7. IterInv(E)'
  <2> SUFFICES ASSUME NEW i \in Indices(prog), iterated'[NodeAt(prog, i)]
               PROVE  \E y \in Exits(prog) : y \notin E /\ NodeAt(prog, y) = NodeAt(prog, i)
    BY <1>1 DEF IterInv
  <2>1. NodeAt(prog, i) # n /\ iterated[NodeAt(prog, i)]
    BY <1>1, <1>3, <1>5
  <2>2. PICK y \in Exits(prog) : y \notin D /\ NodeAt(prog, y) = NodeAt(prog, i)
    BY <2>1 DEF DataInv, IterInv
  <2>3. y # x
    BY <2>1, <2>2 DEF n
  <2> QED
    BY <1>4, <2>2, <2>3
<1>8. ASSUME ValueInv(D)  PROVE ValueInv(E)'
  <2>1. ASSUME NEW k \in Vertices(prog), k = HeadOf(prog, x)
        PROVE  /\ prog.transfer[n][entry'[n]] <= exit[n]
               /\ n = prog.root => init <= entry'[n]
    <3>1. prog.transfer[n][Incoming(n)] <= prog.transfer[n][entry[n]]
      BY <1>1, <1>2, <1>3, TransferFacts DEF Node
    <3>2. prog.transfer[n][entry[n]] <= exit[n]
      BY <1>1, <1>2, <1>8 DEF ValueInv
    <3>3. /\ prog.transfer[n][Incoming(n)] \in Value /\ prog.transfer[n][entry[n]] \in Value
          /\ exit[n] \in Value
      BY <1>1, <1>2, <1>3, TransferFacts DEF Node
    <3>4. prog.transfer[n][entry'[n]] <= exit[n]
      BY <1>3, <3>1, <3>2, <3>3, ValuesAssumption DEF Value
    <3> QED
      BY <1>3, <3>4, IncomingFacts
  <2>2. ASSUME NEW k \in Vertices(prog), k # HeadOf(prog, x), k \in D
        PROVE  LET m == NodeAt(prog, k) IN
               /\ prog.transfer[m][entry'[m]] <= exit[m]
               /\ m = prog.root => init <= entry'[m]
               /\ \A i \in Vertices(prog) :
                    Edge(prog, i, k) /\ i # k /\ Before(prog, i, k) =>
                      exit[NodeAt(prog, i)] <= entry'[m]
    <3>1. entry'[NodeAt(prog, k)] = entry[NodeAt(prog, k)]
      BY <1>1, <1>2, <1>5, <2>2
    <3> QED
      BY <1>8, <2>2, <3>1 DEF ValueInv, Covers
  <2>3. ASSUME NEW y \in Exits(prog), y # x, y \in D, NEW i \in Vertices(prog), Edge(prog, i, y)
        PROVE  exit[NodeAt(prog, i)] <= entry'[NodeAt(prog, y)]
    <3>1. entry'[NodeAt(prog, y)] = entry[NodeAt(prog, y)]
      BY <1>1, <1>2, <1>5, <2>3
    <3> QED
      BY <1>8, <2>3, <3>1 DEF ValueInv, Covers
  <2>4. \A k \in Vertices(prog) : k \in E => k \in D
    BY <1>1, <1>4 DEF Vertices
  <2>5. \A y \in Exits(prog) : y \in E => y \in D \/ y = x
    BY <1>4
  <2>6. \A m \in Node : (\A i \in Vertices(prog) : NodeAt(prog, i) # m) => exit[m] = Bottom
    BY <1>8 DEF ValueInv
  <2>7. Node' = Node
    BY <1>1 DEF Node
  <2> QED
    BY <1>1, <1>2, <1>6, <2>1, <2>2, <2>3, <2>4, <2>5, <2>6, <2>7 DEF ValueInv, Covers, n
<1> QED
  BY <1>1, <1>7, <1>8 DEF DataInv

\* A loop goes round again: what changes belongs to what is done no longer.
LEMMA IterateData ==
  ASSUME TypeInv, NEW D, ControlInv(D), DataInv(D), NEW w \in Thread, Iterate(w),
         NEW E, E = D \ LoopOf(prog, elem[w])
  PROVE  DataInv(E)'
<1> DEFINE x == elem[w]
           n == NodeAt(prog, x)
<1>1. /\ x \in Exits(prog) /\ x \notin D /\ n \in Node /\ NodeOf(x) = n
      /\ HeadOf(prog, x) \in D
      /\ prog' = prog /\ init' = init /\ runs' = runs /\ exit' = exit
      /\ \A m \in Node : m # n => entry'[m] = entry[m] /\ iterated'[m] = iterated[m]
      /\ \A k \in Vertices(prog) : k # HeadOf(prog, x) => NodeAt(prog, k) # n
      /\ \A y \in Exits(prog) : y # x => NodeAt(prog, y) # n
  BY ExitStep
<1>2. /\ Exits(prog) \subseteq Indices(prog) /\ Vertices(prog) \subseteq Indices(prog)
      /\ x \in LoopOf(prog, x) /\ HeadOf(prog, x) \in LoopOf(prog, x)
  BY <1>1, LoopFacts DEF Exits, Vertices, TypeInv
<1>3. E = D \ LoopOf(prog, x)
  BY DEF x
<1>4. \A i \in Indices(prog) : NodeAt(prog, i) \in Node
  BY NodeFacts
<1> HIDE DEF x, n
<1>5. IterInv(E)'
  <2> SUFFICES ASSUME NEW i \in Indices(prog), iterated'[NodeAt(prog, i)]
               PROVE  \E y \in Exits(prog) : y \notin E /\ NodeAt(prog, y) = NodeAt(prog, i)
    BY <1>1 DEF IterInv
  <2>1. CASE NodeAt(prog, i) = n
    BY <1>1, <1>2, <1>3, <2>1 DEF n
  <2>2. CASE NodeAt(prog, i) # n
    <3>1. iterated[NodeAt(prog, i)]
      BY <1>1, <1>4, <2>2
    <3>2. PICK y \in Exits(prog) : y \notin D /\ NodeAt(prog, y) = NodeAt(prog, i)
      BY <3>1 DEF DataInv, IterInv
    <3> QED
      BY <1>3, <3>2
  <2> QED
    BY <2>1, <2>2
<1>6. ASSUME ValueInv(D)  PROVE ValueInv(E)'
  <2>1. \A k \in Vertices(prog) : k \in E => k \in D /\ entry'[NodeAt(prog, k)] = entry[NodeAt(prog, k)]
    BY <1>1, <1>2, <1>3, <1>4
  <2>2. \A y \in Exits(prog) : y \in E => y \in D /\ entry'[NodeAt(prog, y)] = entry[NodeAt(prog, y)]
    BY <1>1, <1>2, <1>3, <1>4
  <2>3. Node' = Node
    BY <1>1 DEF Node
  <2> QED
    BY <1>1, <1>6, <2>1, <2>2, <2>3 DEF ValueInv, Covers
<1> QED
  BY <1>1, <1>5, <1>6 DEF DataInv
-----------------------------------------------------------------------------
(***************************************************************************)
(* The threads take turns.                                                 *)
(***************************************************************************)
LEMMA FreshGood ==
  ASSUME NEW p \in Programs
  PROVE  Good(p, Fresh(p))
BY ValuesAssumption DEF Good, RunState, Fresh, PredClosed, Bottom, Value

LEMMA SameTurns ==
  ASSUME UNCHANGED <<fixed, states>>, NEW D, TurnsInv(D)
  PROVE  TurnsInv(D)'
<1>1. prog' = prog /\ init' = init /\ runs' = runs /\ Now(D)' = Now(D)
  BY DEF fixed, states, Now
<1> QED
  BY <1>1 DEF TurnsInv

\* What flows into a node in the code and in a turn.
LEMMA InflowIs ==
  ASSUME NEW D, NEW n
  PROVE  Incoming(n) = SeqIncoming(prog, init, Now(D), n)
<1>1. {exit[m] : m \in Preds(n)} = {exit[e[1]] : e \in {f \in prog.edges : f[2] = n}}
  BY DEF Preds
<1>2. Now(D).exit = exit
  BY DEF Now
<1> QED
  BY <1>1, <1>2 DEF Incoming, SeqIncoming

\* An access to the tables is the turn of the element.
LEMMA AccessFacts ==
  ASSUME TypeInv, NEW D, ControlInv(D), NEW w \in Thread, pc[w] = "data", NEW i, i = elem[w]
  PROVE  /\ prog \in Programs /\ init \in Value /\ Good(prog, Now(D)) /\ Due(prog, Now(D), i)
         /\ i \in Indices(prog) /\ NodeOf(i) = NodeAt(prog, i) /\ NodeAt(prog, i) \in Node
         /\ IsExit(i) <=> i \in Exits(prog)
         /\ IncomingAt(prog, init, Now(D), i) = Incoming(NodeAt(prog, i))
         /\ EntryAt(prog, Now(D), i) = entry[NodeAt(prog, i)]
<1>1. prog \in Programs /\ init \in Value /\ i \in Indices(prog)
  BY Bridge DEF TypeInv, TypeOK
<1>2. NodeOf(i) = NodeAt(prog, i) /\ (IsExit(i) <=> i \in Exits(prog))
  BY <1>1, Bridge
<1>3. NodeAt(prog, i) \in Node
  BY <1>1, VertexFacts DEF Node
<1>4. Ready(D, i)
  BY WorkerFacts
<1>5. Now(D) \in RunState(prog) /\ PredClosed(prog, D) /\ Now(D).done = D
  BY DEF Now, RunState, ControlInv, DoneInv, TypeInv, TypeOK, Node
<1>6. Due(prog, Now(D), i)
  BY <1>1, <1>4, <1>5 DEF Due, Ready, Paid
<1>7. EntryAt(prog, Now(D), i) = entry[NodeAt(prog, i)]
  BY DEF EntryAt, Now
<1>8. IncomingAt(prog, init, Now(D), i) = Incoming(NodeAt(prog, i))
  BY InflowIs DEF IncomingAt
<1> QED
  BY <1>1, <1>2, <1>3, <1>5, <1>6, <1>7, <1>8 DEF Good

LEMMA TurnTaken ==
  ASSUME TypeInv, NEW D, ControlInv(D), TurnsInv(D), NEW w \in Thread, pc[w] = "data",
         UNCHANGED fixed, NEW E, Now(E)' = After(prog, init, Now(D), elem[w])
  PROVE  TurnsInv(E)'
<1>1. prog' = prog /\ init' = init /\ runs' = runs
  BY DEF fixed
<1>2. Due(prog, Now(D), elem[w]) /\ elem[w] \in Indices(prog)
  BY AccessFacts
<1>3. ASSUME runs > 0  PROVE \E n \in Nat : Leads(prog, init, Fresh(prog), Now(E)', n)
  <2>1. PICK n \in Nat : Leads(prog, init, Fresh(prog), Now(D), n)
    BY <1>3 DEF TurnsInv
  <2>2. Leads(prog, init, Fresh(prog), Now(E)', n + 1)
    BY <1>2, <2>1, PathLonger
  <2> QED
    BY <2>2
<1> QED
  BY <1>1, <1>3 DEF TurnsInv

LEMMA RunTurns ==
  ASSUME TypeInv, NEW v \in Inits, Run(v), NEW E, E = {}
  PROVE  TurnsInv(E)'
<1>1. prog' = prog /\ Now(E)' = Fresh(prog)
  BY DEF Run, Now, Fresh, Node
<1>2. Leads(prog, init', Fresh(prog), Fresh(prog), 0)
  <2> DEFINE q == [k \in {0} |-> Fresh(prog)]
  <2>1. q[0] = Fresh(prog) /\ IsPath(prog, init', q, 0)
    BY DEF IsPath
  <2> QED
    BY <2>1 DEF Leads
<1> QED
  BY <1>1, <1>2 DEF TurnsInv

LEMMA AnalyzeTurns ==
  ASSUME TypeInv, NEW D, ControlInv(D), TurnsInv(D), NEW w \in Thread, AnalyzeVertex(w),
         NEW E, E = D \cup {elem[w]}
  PROVE  TurnsInv(E)'
<1> DEFINE i == elem[w]
           n == NodeAt(prog, i)
           s == Now(D)
<1>1. /\ pc[w] = "data" /\ UNCHANGED fixed /\ ~IsExit(i)
      /\ entry' = [entry EXCEPT ![NodeOf(i)] = Join(@, Incoming(NodeOf(i)))]
      /\ exit' = [exit EXCEPT ![NodeOf(i)] = prog.transfer[NodeOf(i)][entry'[NodeOf(i)]]]
      /\ iterated' = iterated
  BY DEF AnalyzeVertex
<1>2. /\ NodeOf(i) = n /\ n \in Node /\ i \notin Exits(prog)
      /\ IncomingAt(prog, init, s, i) = Incoming(n) /\ EntryAt(prog, s, i) = entry[n]
      /\ entry \in [Node -> Value] /\ iterated \in [Node -> BOOLEAN]
  BY <1>1, AccessFacts DEF TypeInv, TypeOK
<1>3. entry' = [entry EXCEPT ![n] = JoinedAt(prog, init, s, i)]
  BY <1>1, <1>2 DEF JoinedAt
<1>4. exit' = [exit EXCEPT ![n] = prog.transfer[n][JoinedAt(prog, init, s, i)]]
  BY <1>1, <1>2, <1>3
<1>5. iterated' = [iterated EXCEPT ![n] = iterated[n]]
  BY <1>1, <1>2
<1>6. /\ NewDone(prog, init, s, i) = E /\ NewEntry(prog, init, s, i) = JoinedAt(prog, init, s, i)
      /\ NewExit(prog, init, s, i) = prog.transfer[n][JoinedAt(prog, init, s, i)]
      /\ NewIterated(prog, init, s, i) = iterated[n]
  BY <1>2 DEF NewDone, GoesRound, NewEntry, NewExit, NewIterated, Now
<1> HIDE DEF n, i
<1>7. Now(E)' = After(prog, init, s, i)
  BY <1>3, <1>4, <1>5, <1>6 DEF After, Now, n
<1> QED
  BY <1>1, <1>7, TurnTaken DEF i

LEMMA StabilizeTurns ==
  ASSUME TypeInv, NEW D, ControlInv(D), TurnsInv(D), NEW w \in Thread, Stabilize(w),
         NEW E, E = D \cup {elem[w]}
  PROVE  TurnsInv(E)'
<1> DEFINE i == elem[w]
           n == NodeAt(prog, i)
           s == Now(D)
<1>1. /\ pc[w] = "data" /\ UNCHANGED fixed /\ IsExit(i) /\ Subsumed(NodeOf(i))
      /\ entry' = [entry EXCEPT ![NodeOf(i)] = Incoming(NodeOf(i))]
      /\ exit' = exit
      /\ iterated' = [iterated EXCEPT ![NodeOf(i)] = FALSE]
  BY DEF Stabilize
<1>2. /\ NodeOf(i) = n /\ n \in Node /\ i \in Exits(prog)
      /\ IncomingAt(prog, init, s, i) = Incoming(n) /\ EntryAt(prog, s, i) = entry[n]
      /\ exit \in [Node -> Value]
  BY <1>1, AccessFacts DEF TypeInv, TypeOK
<1>3. ~GoesRound(prog, init, s, i)
  BY <1>1, <1>2 DEF GoesRound, Subsumed
<1>4. /\ NewDone(prog, init, s, i) = E /\ NewEntry(prog, init, s, i) = Incoming(n)
      /\ NewExit(prog, init, s, i) = exit[n] /\ NewIterated(prog, init, s, i) = FALSE
  BY <1>2, <1>3 DEF NewDone, NewEntry, NewExit, NewIterated, Now
<1>5. /\ entry' = [entry EXCEPT ![n] = Incoming(n)]
      /\ exit' = [exit EXCEPT ![n] = exit[n]]
      /\ iterated' = [iterated EXCEPT ![n] = FALSE]
  BY <1>1, <1>2
<1> HIDE DEF n, i
<1>6. Now(E)' = After(prog, init, s, i)
  BY <1>4, <1>5 DEF After, Now, n
<1> QED
  BY <1>1, <1>6, TurnTaken DEF i

LEMMA IterateTurns ==
  ASSUME TypeInv, NEW D, ControlInv(D), TurnsInv(D), NEW w \in Thread, Iterate(w),
         NEW E, E = D \ LoopOf(prog, elem[w])
  PROVE  TurnsInv(E)'
<1> DEFINE i == elem[w]
           n == NodeAt(prog, i)
           s == Now(D)
<1>1. /\ pc[w] = "data" /\ UNCHANGED fixed /\ IsExit(i) /\ ~Subsumed(NodeOf(i))
      /\ entry' = [entry EXCEPT ![NodeOf(i)] = Extrapolate(NodeOf(i), Incoming(NodeOf(i)))]
      /\ exit' = exit
      /\ iterated' = [iterated EXCEPT ![NodeOf(i)] = TRUE]
  BY DEF Iterate
<1>2. /\ NodeOf(i) = n /\ n \in Node /\ i \in Exits(prog)
      /\ IncomingAt(prog, init, s, i) = Incoming(n) /\ EntryAt(prog, s, i) = entry[n]
      /\ exit \in [Node -> Value]
  BY <1>1, AccessFacts DEF TypeInv, TypeOK
<1>3. GoesRound(prog, init, s, i)
  BY <1>1, <1>2 DEF GoesRound, Subsumed
<1>4. s.iterated[n] = iterated[n] /\ s.exit[n] = exit[n] /\ s.done = D
  BY DEF Now
<1>5. NewEntry(prog, init, s, i) = Extrapolate(n, Incoming(n))
  <2>1. NewEntry(prog, init, s, i)
          = IF s.iterated[n] THEN Widen(EntryAt(prog, s, i), IncomingAt(prog, init, s, i))
            ELSE JoinedAt(prog, init, s, i)
    BY <1>2, <1>3 DEF NewEntry
  <2> HIDE DEF s, n, i
  <2> QED
    BY <1>2, <1>4, <2>1 DEF Extrapolate, JoinedAt
<1>6. /\ NewDone(prog, init, s, i) = E
      /\ NewExit(prog, init, s, i) = exit[n] /\ NewIterated(prog, init, s, i) = TRUE
  BY <1>2, <1>3, <1>4 DEF NewDone, NewExit, NewIterated
<1>7. /\ entry' = [entry EXCEPT ![n] = Extrapolate(n, Incoming(n))]
      /\ exit' = [exit EXCEPT ![n] = exit[n]]
      /\ iterated' = [iterated EXCEPT ![n] = TRUE]
  BY <1>1, <1>2
<1> HIDE DEF n, i
<1>8. Now(E)' = After(prog, init, s, i)
  BY <1>5, <1>6, <1>7 DEF After, Now, n
<1> QED
  BY <1>1, <1>8, TurnTaken DEF i
-----------------------------------------------------------------------------
(***************************************************************************)
(* The sequential run: the queue takes turns as well.                      *)
(***************************************************************************)
\* A finite set of numbers can be put in order, in a sequence of all of them.
IsInOrder(q, S) ==
  q \in [1 .. Cardinality(S) -> S] /\ \A a, b \in DOMAIN q : a < b => q[a] < q[b]

LEMMA OrderExists ==
  ASSUME NEW S, S \subseteq Nat, IsFiniteSet(S)
  PROVE  \E q : IsInOrder(q, S)
<1> DEFINE B == {m \in Nat : \E T \in SUBSET S : Cardinality(T) = m /\ \A q : ~IsInOrder(q, T)}
<1> SUFFICES ASSUME B # {}  PROVE FALSE
  <2>1. Cardinality(S) \in Nat
    BY FS_CardinalityType
  <2>2. Cardinality(S) \notin B => \E q : IsInOrder(q, S)
    BY <2>1
  <2> QED
    BY <2>2
<1>1. PICK m \in B : \A k \in B : m <= k
  <2>1. B \subseteq Nat
    OBVIOUS
  <2> QED
    BY <2>1, LeastNumber, Zenon
<1>2. PICK T \in SUBSET S : Cardinality(T) = m /\ \A q : ~IsInOrder(q, T)
  OBVIOUS
<1>3. m \in Nat /\ IsFiniteSet(T) /\ T \subseteq Nat
  BY <1>2, FS_Subset
<1>4. CASE m = 0
  <2> DEFINE q == [k \in 1 .. 0 |-> k]
  <2>1. T = {}
    BY <1>2, <1>3, <1>4, FS_EmptySet
  <2>2. 1 .. 0 = {} /\ q \in [1 .. 0 -> {}]
    OBVIOUS
  <2>3. IsInOrder(q, T)
    BY <1>2, <1>4, <2>1, <2>2 DEF IsInOrder
  <2> QED
    BY <1>2, <2>3
<1>5. CASE m # 0
  <2>1. T # {}
    BY <1>2, <1>5, FS_EmptySet
  <2>2. PICK g \in T : \A k \in T : k <= g
    BY <1>3, <2>1, GreatestNumber
  <2> DEFINE U == T \ {g}
  <2>3. Cardinality(U) = m - 1 /\ U \in SUBSET S
    BY <1>2, <1>3, FS_RemoveElement
  <2> HIDE DEF U
  <2>4. m - 1 \in Nat /\ ~(m <= m - 1)
    BY <1>3, <1>5
  <2>5. m - 1 \notin B
    BY <1>1, <2>4
  <2>6. PICK r : IsInOrder(r, U)
    BY <2>3, <2>4, <2>5
  <2>7. r \in [1 .. m - 1 -> U] /\ \A a, b \in 1 .. m - 1 : a < b => r[a] < r[b]
    BY <2>3, <2>6 DEF IsInOrder
  <2> DEFINE q == [k \in 1 .. m |-> IF k = m THEN g ELSE r[k]]
  <2>8. \A k \in 1 .. m - 1 : r[k] \in T /\ r[k] \in Nat /\ r[k] < g
    <3>1. ASSUME NEW k \in 1 .. m - 1  PROVE r[k] \in T /\ r[k] # g /\ r[k] \in Nat /\ g \in Nat
      BY <1>3, <2>2, <2>7 DEF U
    <3> QED
      BY <2>2, <3>1
  <2>9. \A k \in 1 .. m : k # m => k \in 1 .. m - 1
    BY <1>3
  <2>10. q \in [1 .. m -> T]
    BY <2>2, <2>8, <2>9
  <2>11. \A k \in 1 .. m : q[k] = IF k = m THEN g ELSE r[k]
    OBVIOUS
  <2> HIDE DEF q
  <2>12. ASSUME NEW a \in 1 .. m, NEW b \in 1 .. m, a < b  PROVE q[a] < q[b]
    <3>1. a # m /\ a \in 1 .. m - 1
      BY <1>3, <2>9, <2>12
    <3>2. CASE b = m
      BY <2>8, <2>11, <3>1, <3>2
    <3>3. CASE b # m
      BY <2>7, <2>9, <2>11, <2>12, <3>1, <3>3
    <3> QED
      BY <3>2, <3>3
  <2>13. IsInOrder(q, T)
    BY <1>2, <2>10, <2>12 DEF IsInOrder
  <2> QED
    BY <1>2, <2>13
<1> QED
  BY <1>4, <1>5

\* j is in the queue; nothing is in it twice.
Queued(q, j) == \E k \in 1 .. Len(q) : q[k] = j
OnceEach(q)  == \A k, l \in 1 .. Len(q) : q[k] = q[l] => k = l

LEMMA InOrderFacts ==
  ASSUME NEW S, S \subseteq Nat, IsFiniteSet(S)
  PROVE  /\ InOrder(S) \in Seq(S) /\ OnceEach(InOrder(S))
         /\ \A j : Queued(InOrder(S), j) <=> j \in S
<1> DEFINE q == InOrder(S)
           n == Cardinality(S)
<1>1. IsInOrder(q, S)
  BY OrderExists DEF InOrder, IsInOrder
<1>2. n \in Nat
  BY FS_CardinalityType
<1>3. q \in [1 .. n -> S] /\ \A a, b \in 1 .. n : a < b => q[a] < q[b]
  BY <1>1 DEF IsInOrder
<1> HIDE DEF q, n
<1>4. ASSUME NEW a \in 1 .. n, NEW b \in 1 .. n, q[a] = q[b]  PROVE a = b
  <2>1. q[a] \in Nat /\ a \in Nat /\ b \in Nat
    <3>1. q[a] \in S
      BY <1>3
    <3>2. a \in Nat /\ b \in Nat
      BY <1>2
    <3> QED
      BY <3>1, <3>2
  <2>2. ~(a < b)
    <3>1. a < b => q[a] < q[b]
      BY <1>3
    <3> QED
      BY <1>4, <2>1, <3>1
  <2>3. ~(b < a)
    <3>1. b < a => q[b] < q[a]
      BY <1>3
    <3> QED
      BY <1>4, <2>1, <3>1
  <2> QED
    BY <2>1, <2>2, <2>3
<1>5. q \in Seq(S) /\ Len(q) = n
  BY <1>2, <1>3
<1>6. q \in Injection(1 .. n, S)
  BY <1>3, <1>4 DEF Injection, IsInjective
<1>7. IsFiniteSet(1 .. n) /\ Cardinality(1 .. n) = n
  <2>1. 1 \in Int /\ n \in Int
    BY <1>2
  <2>2. IsFiniteSet(1 .. n) /\ Cardinality(1 .. n) = IF 1 > n THEN 0 ELSE n - 1 + 1
    BY <2>1, FS_Interval
  <2> QED
    BY <1>2, <2>2
<1>8. q \in Surjection(1 .. n, S)
  BY <1>6, <1>7, FS_Injection DEF n
<1>9. \A j : Queued(q, j) <=> j \in S
  BY <1>3, <1>5, <1>8 DEF Queued, Surjection
<1>10. OnceEach(q)
  BY <1>4, <1>5 DEF OnceEach
<1> QED
  BY <1>5, <1>9, <1>10 DEF q

\* Both queues, one after the other.
LEMMA JoinedQueues ==
  ASSUME NEW I, NEW q \in Seq(I), NEW r \in Seq(I)
  PROVE  /\ q \o r \in Seq(I)
         /\ \A j : Queued(q \o r, j) <=> Queued(q, j) \/ Queued(r, j)
         /\ OnceEach(q) /\ OnceEach(r) /\ (\A j : ~(Queued(q, j) /\ Queued(r, j))) => OnceEach(q \o r)
<1> DEFINE t == q \o r
           a == Len(q)
           b == Len(r)
<1>1. t \in Seq(I) /\ Len(t) = a + b /\ a \in Nat /\ b \in Nat
  OBVIOUS
<1>2. /\ \A k \in 1 .. a : t[k] = q[k]
      /\ \A k \in 1 .. b : t[a + k] = r[k]
  OBVIOUS
<1>3. \A k \in 1 .. a + b : k \in 1 .. a \/ (k - a \in 1 .. b /\ k = a + (k - a))
  BY <1>1
<1>4. \A k \in 1 .. a : k \in 1 .. a + b
  BY <1>1
<1>5. \A k \in 1 .. b : a + k \in 1 .. a + b
  BY <1>1
<1> HIDE DEF t, a, b
<1>6. ASSUME NEW j  PROVE Queued(t, j) <=> Queued(q, j) \/ Queued(r, j)
  <2>1. ASSUME Queued(t, j)  PROVE Queued(q, j) \/ Queued(r, j)
    <3>1. PICK k \in 1 .. a + b : t[k] = j
      BY <1>1, <2>1 DEF Queued
    <3>2. CASE k \in 1 .. a
      BY <1>2, <3>1, <3>2 DEF Queued, a
    <3>3. CASE k - a \in 1 .. b /\ k = a + (k - a)
      <4>1. r[k - a] = j
        BY <1>2, <3>1, <3>3
      <4> QED
        BY <3>3, <4>1 DEF Queued, b
    <3> QED
      BY <1>3, <3>2, <3>3
  <2>2. ASSUME Queued(q, j)  PROVE Queued(t, j)
    BY <1>1, <1>2, <1>4, <2>2 DEF Queued, a
  <2>3. ASSUME Queued(r, j)  PROVE Queued(t, j)
    BY <1>1, <1>2, <1>5, <2>3 DEF Queued, b
  <2> QED
    BY <2>1, <2>2, <2>3
<1>7. ASSUME OnceEach(q), OnceEach(r), \A j : ~(Queued(q, j) /\ Queued(r, j))  PROVE OnceEach(t)
  <2>1. ASSUME NEW k \in 1 .. a + b, NEW l \in 1 .. a + b, t[k] = t[l]  PROVE k = l
    <3>1. CASE k \in 1 .. a /\ l \in 1 .. a
      BY <1>2, <1>7, <2>1, <3>1 DEF OnceEach, a
    <3>2. CASE k - a \in 1 .. b /\ l - a \in 1 .. b /\ k = a + (k - a) /\ l = a + (l - a)
      <4>1. r[k - a] = r[l - a]
        BY <1>2, <2>1, <3>2
      <4>2. k - a = l - a
        BY <1>7, <3>2, <4>1 DEF OnceEach, b
      <4> QED
        BY <3>2, <4>2
    <3>3. CASE k \in 1 .. a /\ l - a \in 1 .. b /\ l = a + (l - a)
      <4>1. q[k] = t[l] /\ r[l - a] = t[l]
        BY <1>2, <2>1, <3>3
      <4> QED
        BY <1>7, <3>3, <4>1 DEF Queued, a, b
    <3>4. CASE l \in 1 .. a /\ k - a \in 1 .. b /\ k = a + (k - a)
      <4>1. q[l] = t[k] /\ r[k - a] = t[k]
        BY <1>2, <2>1, <3>4
      <4> QED
        BY <1>7, <3>4, <4>1 DEF Queued, a, b
    <3> QED
      BY <1>3, <3>1, <3>2, <3>3, <3>4
  <2> QED
    BY <1>1, <2>1 DEF OnceEach
<1> QED
  BY <1>1, <1>6, <1>7 DEF t

\* The front is taken out.
LEMMA RestOfQueue ==
  ASSUME NEW I, NEW q \in Seq(I), q # <<>>, OnceEach(q)
  PROVE  /\ Head(q) \in I /\ Queued(q, Head(q))
         /\ Tail(q) \in Seq(I) /\ OnceEach(Tail(q))
         /\ \A j : Queued(Tail(q), j) <=> Queued(q, j) /\ j # Head(q)
<1> DEFINE t == Tail(q)
           n == Len(q)
<1>1. /\ n \in Nat /\ n > 0 /\ t \in Seq(I) /\ Len(t) = n - 1 /\ Head(q) = q[1]
      /\ \A k \in 1 .. n - 1 : t[k] = q[k + 1]
  OBVIOUS
<1>2. /\ \A k \in 1 .. n - 1 : k + 1 \in 1 .. n /\ k + 1 # 1
      /\ 1 \in 1 .. n
      /\ \A k \in 1 .. n : k # 1 => k - 1 \in 1 .. n - 1 /\ k = (k - 1) + 1
  BY <1>1
<1>3. q[1] \in I
  BY <1>1, <1>2
<1> HIDE DEF t, n
<1>4. \A k, l \in 1 .. n : q[k] = q[l] => k = l
  BY DEF OnceEach, n
<1>5. Queued(q, Head(q))
  BY <1>1, <1>2 DEF Queued, n
<1>6. ASSUME NEW k \in 1 .. n - 1, NEW l \in 1 .. n - 1, t[k] = t[l]  PROVE k = l
  <2>1. k + 1 = l + 1
    BY <1>1, <1>2, <1>4, <1>6
  <2> QED
    BY <1>1, <2>1
<1>7. ASSUME NEW j  PROVE Queued(t, j) <=> Queued(q, j) /\ j # Head(q)
  <2>1. ASSUME Queued(t, j)  PROVE Queued(q, j) /\ j # Head(q)
    <3>1. PICK k \in 1 .. n - 1 : t[k] = j
      BY <1>1, <2>1 DEF Queued
    <3>2. q[k + 1] = j /\ k + 1 \in 1 .. n /\ k + 1 # 1
      BY <1>1, <1>2, <3>1
    <3> QED
      BY <1>1, <1>2, <1>4, <3>2 DEF Queued, n
  <2>2. ASSUME Queued(q, j), j # Head(q)  PROVE Queued(t, j)
    <3>1. PICK k \in 1 .. n : q[k] = j
      BY <2>2 DEF Queued, n
    <3>2. k - 1 \in 1 .. n - 1 /\ k = (k - 1) + 1
      BY <1>1, <1>2, <2>2, <3>1
    <3>3. t[k - 1] = j
      BY <1>1, <3>1, <3>2
    <3> QED
      BY <1>1, <3>2, <3>3 DEF Queued
  <2> QED
    BY <2>1, <2>2
<1>8. OnceEach(t)
  BY <1>1, <1>6 DEF OnceEach
<1> QED
  BY <1>1, <1>3, <1>5, <1>7, <1>8 DEF t

\* The sequential run, given what is done: counters count what is done
\* before, and the queue holds each element that is due once.
Turn(s, D) == [done |-> D, entry |-> s.entry, exit |-> s.exit, iterated |-> s.iterated]
DoneBefore(p, D, j) == PredsOf(p, j) \cap D
CanRun(p, D, j)     == j \notin D /\ PredsOf(p, j) \subseteq D
SeqInv(p, s, D) ==
  /\ s \in SeqState(p) /\ D \in SUBSET Indices(p) /\ PredClosed(p, D)
  /\ OnceEach(s.queue)
  /\ \A j \in Indices(p) :
       /\ s.counter[j] = IF j \in D THEN 0 ELSE Cardinality(DoneBefore(p, D, j))
       /\ Queued(s.queue, j) <=> CanRun(p, D, j)
\* The same once i has been taken out.
TakenInv(p, s, D, i) ==
  /\ s \in SeqState(p)
  /\ OnceEach(s.queue)
  /\ \A j \in Indices(p) :
       /\ s.counter[j] = IF j \in D \cup {i} THEN 0 ELSE Cardinality(DoneBefore(p, D, j))
       /\ Queued(s.queue, j) <=> CanRun(p, D, j) /\ j # i

LEMMA StateFacts ==
  ASSUME NEW p, NEW s \in SeqState(p)
  PROVE  /\ s.entry \in [DOMAIN p.transfer -> Value] /\ s.exit \in [DOMAIN p.transfer -> Value]
         /\ s.iterated \in [DOMAIN p.transfer -> BOOLEAN]
         /\ s.counter \in [Indices(p) -> Nat] /\ s.queue \in Seq(Indices(p))
BY DEF SeqState

\* A subset of a finite set is all of it when it has as many members.
LEMMA FullFacts ==
  ASSUME NEW S, IsFiniteSet(S), NEW T \in SUBSET S
  PROVE  /\ IsFiniteSet(T) /\ Cardinality(T) \in Nat
         /\ Cardinality(T) = Cardinality(S) <=> T = S
         /\ \A x \in S \ T : Cardinality(T \cup {x}) = Cardinality(T) + 1
<1>1. IsFiniteSet(T) /\ Cardinality(T) \in Nat
  BY FS_Subset, FS_CardinalityType
<1>2. Cardinality(T) = Cardinality(S) => T = S
  BY FS_Subset
<1>3. \A x \in S \ T : Cardinality(T \cup {x}) = Cardinality(T) + 1
  BY <1>1, FS_AddElement
<1> QED
  BY <1>1, <1>2, <1>3

\* t is s with by[j] added to the counter of each j in S.
Credited(p, s, S, by, t) ==
  /\ t \in SeqState(p)
  /\ OnceEach(s.queue) /\ (\A j \in S : ~Queued(s.queue, j)) => OnceEach(t.queue)
  /\ t.entry = s.entry /\ t.exit = s.exit /\ t.iterated = s.iterated
  /\ \A j \in Indices(p) :
       /\ t.counter[j] = s.counter[j] + IF j \in S THEN by[j] ELSE 0
       /\ Queued(t.queue, j) <=>
            \/ Queued(s.queue, j)
            \/ j \in S /\ t.counter[j] = Cardinality(PredsOf(p, j))

LEMMA CreditFacts ==
  ASSUME NEW p \in Programs, NEW s \in SeqState(p),
         NEW S \in SUBSET Indices(p), NEW by \in [S -> Nat],
         NEW t, t = AddCredits(p, s, by)
  PROVE  Credited(p, s, S, by, t)
<1> DEFINE c    == [j \in Indices(p) |-> s.counter[j] + IF j \in S THEN by[j] ELSE 0]
           full == {j \in S : c[j] = Cardinality(PredsOf(p, j))}
<1>1. /\ s.counter \in [Indices(p) -> Nat] /\ s.queue \in Seq(Indices(p))
      /\ IsFiniteSet(Indices(p)) /\ Indices(p) \subseteq Nat
  BY StateFacts, OrderFacts DEF Indices
<1>2. t = [s EXCEPT !.counter = c, !.queue = @ \o InOrder(full)]
  BY DEF AddCredits, PredsOf
<1>3. full \subseteq Nat /\ IsFiniteSet(full) /\ full \subseteq Indices(p)
  BY <1>1, FS_Subset
<1>4. c \in [Indices(p) -> Nat]
  BY <1>1
<1>5. \A j : j \in full <=> j \in S /\ c[j] = Cardinality(PredsOf(p, j))
  OBVIOUS
<1> HIDE DEF full
<1>6. /\ InOrder(full) \in Seq(full) /\ OnceEach(InOrder(full))
      /\ \A j : Queued(InOrder(full), j) <=> j \in full
  BY <1>3, InOrderFacts
<1>7. InOrder(full) \in Seq(Indices(p))
  <2>1. ASSUME NEW T, NEW I, T \subseteq I, NEW r \in Seq(T)  PROVE r \in Seq(I)
    BY <2>1
  <2> QED
    BY <1>3, <1>6, <2>1
<1> DEFINE q == s.queue \o InOrder(full)
<1>8. /\ q \in Seq(Indices(p))
      /\ \A j : Queued(q, j) <=> Queued(s.queue, j) \/ j \in full
  BY <1>1, <1>6, <1>7, JoinedQueues
<1>9. ASSUME OnceEach(s.queue), \A j \in S : ~Queued(s.queue, j)  PROVE OnceEach(q)
  <2>1. \A j \in full : j \in S
    BY <1>5
  <2>2. \A j : ~(Queued(s.queue, j) /\ Queued(InOrder(full), j))
    BY <1>6, <1>9, <2>1
  <2> QED
    BY <1>1, <1>6, <1>7, <1>9, <2>2, JoinedQueues
<1> HIDE DEF q
<1>10. s = [entry |-> s.entry, exit |-> s.exit, iterated |-> s.iterated,
            counter |-> s.counter, queue |-> s.queue]
  BY DEF SeqState
<1>11. /\ t.counter = c /\ t.queue = q
       /\ t.entry = s.entry /\ t.exit = s.exit /\ t.iterated = s.iterated
       /\ t = [entry |-> s.entry, exit |-> s.exit, iterated |-> s.iterated,
               counter |-> c, queue |-> q]
  BY <1>2, <1>10 DEF q
<1>12. t \in SeqState(p)
  BY <1>4, <1>8, <1>11, StateFacts DEF SeqState
<1>13. \A j \in Indices(p) : c[j] = s.counter[j] + IF j \in S THEN by[j] ELSE 0
  OBVIOUS
<1> QED
  BY <1>5, <1>8, <1>9, <1>11, <1>12, <1>13 DEF Credited

LEMMA StartFacts ==
  ASSUME NEW p \in Programs
  PROVE  SeqInv(p, SeqStart(p), {}) /\ Turn(SeqStart(p), {}) = Fresh(p)
<1> DEFINE s == SeqStart(p)
<1>1. /\ EntryOf(p) \in Indices(p)
      /\ \A i \in Indices(p) : PredsOf(p, i) = {} <=> i = EntryOf(p)
  BY OrderFacts
<1>2. s.queue = <<EntryOf(p)>> /\ s.counter = [i \in Indices(p) |-> 0]
  BY DEF SeqStart, EntryOf
<1>3. s.queue \in Seq(Indices(p)) /\ Len(s.queue) = 1 /\ s.queue[1] = EntryOf(p)
  BY <1>1, <1>2
<1>4. \A j : Queued(s.queue, j) <=> j = EntryOf(p)
  BY <1>3 DEF Queued
<1>5. OnceEach(s.queue)
  BY <1>3 DEF OnceEach
<1>6. s \in SeqState(p)
  BY <1>3, ValuesAssumption DEF SeqStart, SeqState, Bottom, Value
<1>7. ASSUME NEW j \in Indices(p)
      PROVE  s.counter[j] = Cardinality(DoneBefore(p, {}, j))
  BY <1>2, FS_EmptySet DEF DoneBefore
<1>8. Turn(s, {}) = Fresh(p)
  BY DEF Turn, Fresh, SeqStart
<1> HIDE DEF s
<1>9. SeqInv(p, s, {})
  BY <1>1, <1>4, <1>5, <1>6, <1>7 DEF SeqInv, CanRun, PredClosed
<1> QED
  BY <1>8, <1>9 DEF s

\* The front is taken out.
LEMMA TakeType ==
  ASSUME NEW p, NEW s \in SeqState(p), s.queue # <<>>,
         NEW i, i = Head(s.queue), NEW t, t = TakeNext(s)
  PROVE  /\ t \in SeqState(p) /\ i \in Indices(p) /\ t.queue = Tail(s.queue)
         /\ t.entry = s.entry /\ t.exit = s.exit /\ t.iterated = s.iterated
         /\ \A j \in Indices(p) : t.counter[j] = IF j = i THEN 0 ELSE s.counter[j]
<1>1. s.counter \in [Indices(p) -> Nat] /\ s.queue \in Seq(Indices(p))
  BY StateFacts
<1>2. i \in Indices(p) /\ Tail(s.queue) \in Seq(Indices(p))
  BY <1>1
<1> DEFINE c == [s.counter EXCEPT ![i] = 0]
<1>3. c \in [Indices(p) -> Nat] /\ \A j \in Indices(p) : c[j] = IF j = i THEN 0 ELSE s.counter[j]
  BY <1>1, <1>2
<1> HIDE DEF c
<1>4. s = [entry |-> s.entry, exit |-> s.exit, iterated |-> s.iterated,
           counter |-> s.counter, queue |-> s.queue]
  BY DEF SeqState
<1>5. t = [s EXCEPT !.queue = Tail(s.queue), !.counter = c]
  BY <1>4 DEF TakeNext, c
<1>6. /\ t.counter = c /\ t.queue = Tail(s.queue)
      /\ t.entry = s.entry /\ t.exit = s.exit /\ t.iterated = s.iterated
      /\ t = [entry |-> s.entry, exit |-> s.exit, iterated |-> s.iterated,
              counter |-> c, queue |-> Tail(s.queue)]
  BY <1>4, <1>5
<1>7. t \in SeqState(p)
  BY <1>2, <1>3, <1>6, StateFacts DEF SeqState
<1> QED
  BY <1>2, <1>3, <1>6, <1>7

LEMMA TakeFacts ==
  ASSUME NEW p \in Programs, NEW s, NEW D, SeqInv(p, s, D), s.queue # <<>>,
         NEW i, i = Head(s.queue), NEW t, t = TakeNext(s)
  PROVE  Good(p, Turn(s, D)) /\ Due(p, Turn(s, D), i) /\ TakenInv(p, t, D, i)
<1>1. /\ s \in SeqState(p) /\ D \in SUBSET Indices(p) /\ PredClosed(p, D)
      /\ OnceEach(s.queue)
      /\ \A j \in Indices(p) :
           /\ s.counter[j] = IF j \in D THEN 0 ELSE Cardinality(DoneBefore(p, D, j))
           /\ Queued(s.queue, j) <=> CanRun(p, D, j)
  BY DEF SeqInv
<1>2. /\ t \in SeqState(p) /\ i \in Indices(p) /\ t.queue = Tail(s.queue)
      /\ \A j \in Indices(p) : t.counter[j] = IF j = i THEN 0 ELSE s.counter[j]
  BY <1>1, TakeType
<1>3. /\ Queued(s.queue, i) /\ OnceEach(t.queue)
      /\ \A j : Queued(t.queue, j) <=> Queued(s.queue, j) /\ j # i
  BY <1>1, <1>2, StateFacts, RestOfQueue
<1>4. Good(p, Turn(s, D)) /\ Due(p, Turn(s, D), i)
  BY <1>1, <1>2, <1>3, StateFacts DEF Good, RunState, Due, Turn, CanRun
<1>5. ASSUME NEW j \in Indices(p)
      PROVE  /\ t.counter[j] = IF j \in D \cup {i} THEN 0 ELSE Cardinality(DoneBefore(p, D, j))
             /\ Queued(t.queue, j) <=> CanRun(p, D, j) /\ j # i
  BY <1>1, <1>2, <1>3
<1>6. TakenInv(p, t, D, i)
  BY <1>2, <1>3, <1>5 DEF TakenInv
<1> QED
  BY <1>4, <1>6

\* t is s with credit given: E is done now, and the tables are the same.
Turned(p, s, t, E) ==
  SeqInv(p, t, E) /\ t.entry = s.entry /\ t.exit = s.exit /\ t.iterated = s.iterated

LEMMA CompleteFacts ==
  ASSUME NEW p \in Programs, NEW D \in SUBSET Indices(p), PredClosed(p, D),
         NEW i \in Indices(p), CanRun(p, D, i), NEW s, TakenInv(p, s, D, i),
         NEW t, t = CreditSuccessors(p, s, i)
  PROVE  Turned(p, s, t, D \cup {i})
<1> DEFINE S  == {j \in Indices(p) : i \in PredsOf(p, j)}
           by == [j \in S |-> 1]
           E  == D \cup {i}
<1>1. /\ s \in SeqState(p) /\ OnceEach(s.queue)
      /\ \A j \in Indices(p) :
           /\ s.counter[j] = IF j \in D \cup {i} THEN 0 ELSE Cardinality(DoneBefore(p, D, j))
           /\ Queued(s.queue, j) <=> CanRun(p, D, j) /\ j # i
  BY DEF TakenInv
<1>2. p.wpo.succs[i] = S
  BY ProgramsAssumption DEF WellFormed, IsScheduled, PredsOf
<1>3. t = AddCredits(p, s, by)
  BY <1>2 DEF CreditSuccessors
<1>4. S \in SUBSET Indices(p) /\ by \in [S -> Nat] /\ \A j \in S : by[j] = 1
  OBVIOUS
<1>5. \A j \in S : ~Queued(s.queue, j) /\ j \notin D /\ j # i
  <2>1. \A j \in S : i \in PredsOf(p, j) /\ i \notin D /\ j \in Indices(p)
    BY DEF CanRun
  <2>2. \A j \in S : j \notin D
    BY <2>1 DEF PredClosed, PredsOf
  <2>3. \A j \in S : j # i
    BY <2>1, OrderFacts
  <2> QED
    BY <1>1, <2>1, <2>2, <2>3 DEF CanRun
<1> HIDE DEF S, by
<1>6. /\ t \in SeqState(p) /\ OnceEach(t.queue)
      /\ t.entry = s.entry /\ t.exit = s.exit /\ t.iterated = s.iterated
      /\ \A j \in Indices(p) :
           /\ t.counter[j] = s.counter[j] + IF j \in S THEN by[j] ELSE 0
           /\ Queued(t.queue, j) <=>
                \/ Queued(s.queue, j)
                \/ j \in S /\ t.counter[j] = Cardinality(PredsOf(p, j))
  <2>1. Credited(p, s, S, by, t)
    BY <1>1, <1>3, <1>4, CreditFacts
  <2> QED
    BY <1>1, <1>5, <2>1 DEF Credited
<1>7. E \in SUBSET Indices(p) /\ PredClosed(p, E)
  BY DEF PredClosed, CanRun, PredsOf
<1>8. ASSUME NEW j \in Indices(p)
      PROVE  /\ t.counter[j] = IF j \in E THEN 0 ELSE Cardinality(DoneBefore(p, E, j))
             /\ Queued(t.queue, j) <=> CanRun(p, E, j)
  <2>1. IsFiniteSet(PredsOf(p, j)) /\ DoneBefore(p, D, j) \in SUBSET PredsOf(p, j)
    BY OrderFacts DEF DoneBefore
  <2>2. CASE j \in S
    <3>1. i \in PredsOf(p, j) /\ j \notin D /\ j # i /\ i \notin D
      BY <1>5, <2>2 DEF S, CanRun
    <3>2. DoneBefore(p, E, j) = DoneBefore(p, D, j) \cup {i} /\ i \notin DoneBefore(p, D, j)
      BY <3>1 DEF DoneBefore
    <3>3. Cardinality(DoneBefore(p, E, j)) = Cardinality(DoneBefore(p, D, j)) + 1
      <4>1. i \in PredsOf(p, j) \ DoneBefore(p, D, j)
        BY <3>1, <3>2
      <4> HIDE DEF E
      <4> QED
        BY <2>1, <3>2, <4>1, FullFacts
    <3>4. Cardinality(DoneBefore(p, E, j)) = Cardinality(PredsOf(p, j))
            <=> PredsOf(p, j) \subseteq E
      <4> HIDE DEF E
      <4>1. DoneBefore(p, E, j) \in SUBSET PredsOf(p, j)
        BY DEF DoneBefore
      <4>2. DoneBefore(p, E, j) = PredsOf(p, j) <=> PredsOf(p, j) \subseteq E
        BY DEF DoneBefore
      <4> QED
        BY <2>1, <4>1, <4>2, FullFacts
    <3>5. t.counter[j] = Cardinality(DoneBefore(p, E, j))
      BY <1>1, <1>4, <1>6, <2>2, <3>1, <3>3
    <3> QED
      BY <1>5, <1>6, <2>2, <3>1, <3>4, <3>5 DEF CanRun
  <2>3. CASE j \notin S
    <3>1. i \notin PredsOf(p, j)
      BY <2>3 DEF S
    <3>2. DoneBefore(p, E, j) = DoneBefore(p, D, j) /\ (CanRun(p, E, j) <=> CanRun(p, D, j) /\ j # i)
      BY <3>1 DEF DoneBefore, CanRun
    <3>3. s.counter[j] \in Nat
      BY <1>1, StateFacts
    <3>4. t.counter[j] = s.counter[j]
      BY <1>6, <2>3, <3>3
    <3> QED
      BY <1>1, <1>6, <2>3, <3>2, <3>4
  <2> QED
    BY <2>2, <2>3
<1> HIDE DEF E
<1>9. SeqInv(p, t, E)
  BY <1>6, <1>7, <1>8 DEF SeqInv
<1> QED
  BY <1>6, <1>9 DEF E, Turned

Round(p, i, D, E, j) ==
  /\ j \notin LoopOf(p, i) =>
       /\ DoneBefore(p, E, j) = DoneBefore(p, D, j)
       /\ CanRun(p, E, j) <=> CanRun(p, D, j)
       /\ j \in E <=> j \in D
       /\ j # i
  /\ j \in LoopOf(p, i) =>
       /\ j \notin E /\ j \in D \cup {i}
       /\ ~(CanRun(p, D, j) /\ j # i)
       /\ DoneBefore(p, E, j) = Outside(p, i, j)
       /\ CanRun(p, E, j) <=> Outside(p, i, j) = PredsOf(p, j)

\* The loop of an exit that is due is done but for the exit.  What its
\* elements have from outside is what they still have when it goes round.
LEMMA RoundFacts ==
  ASSUME NEW p \in Programs, NEW D \in SUBSET Indices(p), PredClosed(p, D),
         NEW i \in Exits(p), CanRun(p, D, i), NEW E, E = D \ LoopOf(p, i), NEW j \in Indices(p)
  PROVE  /\ Round(p, i, D, E, j)
         /\ E \in SUBSET Indices(p) /\ PredClosed(p, E)
<1>1. /\ i \in LoopOf(p, i) /\ i \in Indices(p)
      /\ \A k \in Indices(p) \ LoopOf(p, i) : PredsOf(p, k) \cap LoopOf(p, i) \subseteq {i}
  BY LoopFacts
<1>2. LoopOf(p, i) \ {i} \subseteq D /\ i \notin D /\ PredsOf(p, i) \subseteq D
  BY LoopDone DEF CanRun
<1>3. \A k \in D : PredsOf(p, k) \subseteq D
  BY DEF PredClosed, PredsOf
<1>4. ASSUME j \notin LoopOf(p, i)
      PROVE  /\ DoneBefore(p, E, j) = DoneBefore(p, D, j)
             /\ CanRun(p, E, j) <=> CanRun(p, D, j)
             /\ j \in E <=> j \in D
             /\ j # i
  <2>1. PredsOf(p, j) \cap LoopOf(p, i) \subseteq {i}
    BY <1>1, <1>4
  <2> QED
    BY <1>1, <1>2, <1>4, <2>1 DEF DoneBefore, CanRun
<1>5. ASSUME j \in LoopOf(p, i)
      PROVE  /\ j \notin E /\ j \in D \cup {i}
             /\ ~(CanRun(p, D, j) /\ j # i)
             /\ DoneBefore(p, E, j) = Outside(p, i, j)
             /\ CanRun(p, E, j) <=> Outside(p, i, j) = PredsOf(p, j)
  <2>1. PredsOf(p, j) \subseteq D /\ (j = i \/ j \in D)
    BY <1>2, <1>3, <1>5
  <2> QED
    BY <1>2, <1>5, <2>1 DEF DoneBefore, CanRun, Outside
<1>6. ASSUME NEW k \in E  PROVE PredsOf(p, k) \subseteq E
  <2>1. PredsOf(p, k) \subseteq D /\ k \in Indices(p) \ LoopOf(p, i)
    BY <1>3, <1>6
  <2>2. PredsOf(p, k) \cap LoopOf(p, i) \subseteq {i}
    BY <1>1, <2>1
  <2> QED
    BY <1>2, <2>1, <2>2
<1>7. E \in SUBSET Indices(p) /\ PredClosed(p, E)
  BY <1>6 DEF PredClosed, PredsOf
<1> QED
  BY <1>4, <1>5, <1>7 DEF Round

\* The credit of an exit whose loop goes round again.
GoRound(p, s, i) ==
  LET t == AddCredits(p, s, p.wpo.outer[i])
  IN  IF i + 1 = p.wpo.size - 1 THEN [t EXCEPT !.queue = Append(@, i + 1)] ELSE t

LEMMA RoundAgain ==
  ASSUME NEW p \in Programs, NEW D \in SUBSET Indices(p), PredClosed(p, D),
         NEW i \in Exits(p), CanRun(p, D, i), NEW s, TakenInv(p, s, D, i),
         NEW t, t = GoRound(p, s, i)
  PROVE  Turned(p, s, t, D \ LoopOf(p, i))
<1> DEFINE S  == Reentered(p, i)
           by == [j \in S |-> Cardinality(Outside(p, i, j))]
           E  == D \ LoopOf(p, i)
           u  == AddCredits(p, s, p.wpo.outer[i])
<1>1. t = IF i + 1 = p.wpo.size - 1 THEN [u EXCEPT !.queue = Append(u.queue, i + 1)] ELSE u
  BY DEF GoRound
<1>2. /\ s \in SeqState(p) /\ OnceEach(s.queue)
      /\ \A j \in Indices(p) :
           /\ s.counter[j] = IF j \in D \cup {i} THEN 0 ELSE Cardinality(DoneBefore(p, D, j))
           /\ Queued(s.queue, j) <=> CanRun(p, D, j) /\ j # i
  BY DEF TakenInv
<1>3. p.wpo.outer[i] = by
  BY ProgramsAssumption DEF WellFormed, IsScheduled, Reentered, Outside, PredsOf
<1>4. \A j \in Indices(p) : IsFiniteSet(PredsOf(p, j)) /\ Outside(p, i, j) \in SUBSET PredsOf(p, j)
  BY OrderFacts DEF Outside
<1>5. S \in SUBSET Indices(p) /\ \A j \in S : j \in LoopOf(p, i)
  BY LoopFacts DEF Reentered
<1>6. by \in [S -> Nat] /\ \A j \in S : by[j] = Cardinality(Outside(p, i, j))
  BY <1>4, <1>5, FullFacts
<1>7. (\A j \in Indices(p) : Round(p, i, D, E, j)) /\ E \in SUBSET Indices(p) /\ PredClosed(p, E)
  BY RoundFacts, LoopFacts
<1>8. \A j \in S : ~Queued(s.queue, j)
  BY <1>2, <1>5, <1>7 DEF Round
<1>9. u = AddCredits(p, s, by)
  BY <1>3
<1> HIDE DEF S, by, u
<1>10. /\ u \in SeqState(p) /\ OnceEach(u.queue)
      /\ u.entry = s.entry /\ u.exit = s.exit /\ u.iterated = s.iterated
      /\ \A j \in Indices(p) :
           /\ u.counter[j] = s.counter[j] + IF j \in S THEN by[j] ELSE 0
           /\ Queued(u.queue, j) <=>
                \/ Queued(s.queue, j)
                \/ j \in S /\ u.counter[j] = Cardinality(PredsOf(p, j))
  <2>1. Credited(p, s, S, by, u)
    BY <1>2, <1>5, <1>6, <1>9, CreditFacts
  <2> QED
    BY <1>2, <1>8, <2>1 DEF Credited
<1>11. ASSUME NEW j \in Indices(p)
      PROVE  /\ u.counter[j] = IF j \in E THEN 0 ELSE Cardinality(DoneBefore(p, E, j))
             /\ CanRun(p, E, j) <=> Queued(u.queue, j) \/ (j = EntryOf(p) /\ j = i + 1)
             /\ ~(Queued(u.queue, j) /\ j = EntryOf(p) /\ j = i + 1)
  <2>1. Round(p, i, D, E, j) /\ s.counter[j] \in Nat
    BY <1>2, <1>7, StateFacts
  <2>2. /\ EntryOf(p) \in LoopOf(p, i) => i + 1 = EntryOf(p)
        /\ i + 1 \in LoopOf(p, i)
    BY EntryFacts, LoopFacts
  <2>3. PredsOf(p, j) = {} <=> j = EntryOf(p)
    BY OrderFacts
  <2>4. CASE j \notin LoopOf(p, i)
    <3>1. j \notin S /\ j # i + 1
      BY <1>5, <2>2, <2>4
    <3>2. u.counter[j] = s.counter[j]
      BY <1>10, <2>1, <3>1
    <3> QED
      BY <1>2, <1>10, <2>1, <2>4, <3>1, <3>2 DEF Round
  <2>5. CASE j \in S
    <3>1. j \in LoopOf(p, i) /\ by[j] = Cardinality(Outside(p, i, j)) /\ Outside(p, i, j) # {}
      BY <1>5, <1>6, <2>5 DEF S, Reentered, Outside
    <3>2. s.counter[j] = 0 /\ by[j] \in Nat
      BY <1>2, <1>6, <2>1, <2>5, <3>1 DEF Round
    <3>3. u.counter[j] = Cardinality(Outside(p, i, j))
      BY <1>10, <2>5, <3>1, <3>2
    <3>4. u.counter[j] = Cardinality(PredsOf(p, j)) <=> Outside(p, i, j) = PredsOf(p, j)
      BY <1>4, <3>3, FullFacts
    <3>5. j # EntryOf(p)
      BY <2>3, <3>1 DEF Outside
    <3> QED
      BY <1>8, <1>10, <2>1, <2>5, <3>1, <3>3, <3>4, <3>5 DEF Round
  <2>6. CASE j \in LoopOf(p, i) /\ j \notin S
    <3>1. Outside(p, i, j) = {}
      BY <2>6 DEF S, Reentered, Outside
    <3>2. s.counter[j] = 0
      BY <1>2, <2>1, <2>6 DEF Round
    <3>3. u.counter[j] = 0
      BY <1>10, <2>6, <3>2
    <3>4. ~Queued(u.queue, j)
      BY <1>2, <1>10, <2>1, <2>6 DEF Round
    <3>5. CanRun(p, E, j) <=> j = EntryOf(p) /\ j = i + 1
      BY <2>1, <2>2, <2>3, <2>6, <3>1 DEF Round
    <3> QED
      BY <2>1, <2>6, <3>1, <3>3, <3>4, <3>5, FS_EmptySet DEF Round
  <2> QED
    BY <2>4, <2>5, <2>6
<1>12. E \in SUBSET Indices(p) /\ PredClosed(p, E)
  BY <1>7
<1> HIDE DEF E
<1>13. CASE i + 1 = EntryOf(p)
  <2> DEFINE q == Append(u.queue, i + 1)
             r == <<i + 1>>
  <2>1. u.queue \in Seq(Indices(p)) /\ i + 1 \in Indices(p)
    BY <1>10, <1>13, StateFacts, OrderFacts
  <2>2. r \in Seq(Indices(p)) /\ Len(r) = 1 /\ r[1] = i + 1
    BY <2>1
  <2>3. q = u.queue \o r
    BY <2>1
  <2>4. OnceEach(r) /\ \A j : Queued(r, j) <=> j = i + 1
    BY <2>2 DEF OnceEach, Queued
  <2>5. \A j : ~(Queued(u.queue, j) /\ Queued(r, j))
    BY <1>11, <1>13, <2>1, <2>4
  <2> HIDE DEF q, r
  <2>6. /\ q \in Seq(Indices(p)) /\ OnceEach(q)
        /\ \A j : Queued(q, j) <=> Queued(u.queue, j) \/ j = i + 1
    BY <1>10, <2>1, <2>2, <2>3, <2>4, <2>5, JoinedQueues
  <2>7. u = [entry |-> u.entry, exit |-> u.exit, iterated |-> u.iterated,
             counter |-> u.counter, queue |-> u.queue]
    BY <1>10 DEF SeqState
  <2>8. t = [u EXCEPT !.queue = q]
    BY <1>1, <1>13 DEF q, EntryOf
  <2>9. /\ t.counter = u.counter /\ t.queue = q
        /\ t.entry = u.entry /\ t.exit = u.exit /\ t.iterated = u.iterated
        /\ t = [entry |-> u.entry, exit |-> u.exit, iterated |-> u.iterated,
                counter |-> u.counter, queue |-> q]
    BY <2>7, <2>8
  <2>10. t \in SeqState(p)
    BY <1>10, <2>6, <2>9, StateFacts DEF SeqState
  <2>11. \A j \in Indices(p) :
           /\ t.counter[j] = IF j \in E THEN 0 ELSE Cardinality(DoneBefore(p, E, j))
           /\ Queued(t.queue, j) <=> CanRun(p, E, j)
    BY <1>11, <1>13, <2>6, <2>9
  <2> QED
    BY <1>10, <1>12, <2>6, <2>9, <2>10, <2>11 DEF SeqInv, E, Turned
<1>14. CASE i + 1 # EntryOf(p)
  <2>1. t = u
    BY <1>1, <1>14 DEF EntryOf
  <2> QED
    BY <1>10, <1>11, <1>12, <1>14, <2>1 DEF SeqInv, E, Turned
<1> QED
  BY <1>13, <1>14

\* A function that repeats a step until there is none to take.
Repeats(S, N, step, f) == \A s \in S : f[s] = IF s \in N THEN f[step[s]] ELSE s

LEMMA WhileExists ==
  ASSUME NEW S, NEW N \in SUBSET S, NEW step \in [N -> S]
  PROVE  \E R : \E f \in [S -> R] : Repeats(S, N, step, f)
<1> DEFINE Closed(A) == \A x \in A : x \in N => step[x] \in A
           Reach(s)  == {x \in S : \A A \in SUBSET S : s \in A /\ Closed(A) => x \in A}
           Ends(s)   == Reach(s) \ N
           f         == [s \in S |-> CHOOSE x : x \in Ends(s)]
<1>1. ASSUME NEW s \in S \ N  PROVE Ends(s) = {s}
  <2>1. {s} \in SUBSET S /\ Closed({s})
    OBVIOUS
  <2>2. s \in Reach(s)
    OBVIOUS
  <2>3. \A x \in Reach(s) : x \in {s}
    <3> HIDE DEF Closed
    <3> QED
      BY <2>1
  <2> HIDE DEF Reach
  <2> QED
    BY <2>2, <2>3
<1>2. ASSUME NEW s \in N  PROVE Ends(s) = Ends(step[s])
  <2> DEFINE t == step[s]
  <2>1. s \in S /\ t \in S
    OBVIOUS
  <2>2. ASSUME NEW x \in Ends(s)  PROVE x \in Ends(t)
    <3>1. x \in S /\ x \notin N /\ x # s
      OBVIOUS
    <3>2. ASSUME NEW A \in SUBSET S, t \in A, Closed(A)  PROVE x \in A
      <4> DEFINE B == A \cup {s}
      <4>1. B \in SUBSET S /\ s \in B /\ Closed(B)
        BY <2>1, <3>2
      <4>2. x \in B
        <5> HIDE DEF B, Closed
        <5> QED
          BY <4>1
      <4> QED
        BY <3>1, <4>2
    <3> HIDE DEF Closed
    <3> QED
      BY <3>1, <3>2
  <2>3. ASSUME NEW x \in Ends(t)  PROVE x \in Ends(s)
    <3>1. x \in S /\ x \notin N
      OBVIOUS
    <3>2. ASSUME NEW A \in SUBSET S, s \in A, Closed(A)  PROVE x \in A
      <4>1. t \in A
        BY <3>2
      <4> HIDE DEF Closed
      <4> QED
        BY <3>2, <4>1
    <3> HIDE DEF Closed
    <3> QED
      BY <3>1, <3>2
  <2> HIDE DEF Ends
  <2> QED
    BY <2>2, <2>3
<1> HIDE DEF Ends
<1>3. \A s \in S : f[s] = CHOOSE x : x \in Ends(s)
  OBVIOUS
<1>4. ASSUME NEW s \in S  PROVE f[s] = IF s \in N THEN f[step[s]] ELSE s
  <2>1. CASE s \in N
    BY <1>2, <1>3, <2>1
  <2>2. CASE s \notin N
    <3>1. f[s] = CHOOSE x : x \in {s}
      BY <1>1, <1>3, <2>2
    <3> QED
      BY <2>2, <3>1
  <2> QED
    BY <2>1, <2>2
<1>5. f \in [S -> {CHOOSE x : x \in Ends(s) : s \in S}]
  OBVIOUS
<1> HIDE DEF f
<1>6. Repeats(S, N, step, f)
  BY <1>4 DEF Repeats
<1> QED
  BY <1>5, <1>6

\* The three tables written at n.
Written(s, n, a, b, c) == [s EXCEPT !.entry[n] = a, !.exit[n] = b, !.iterated[n] = c]

LEMMA WrittenFacts ==
  ASSUME NEW p, NEW s \in SeqState(p), NEW n \in DOMAIN p.transfer,
         NEW a \in Value, NEW b \in Value, NEW c \in BOOLEAN, NEW t, t = Written(s, n, a, b, c)
  PROVE  /\ t \in SeqState(p) /\ t.counter = s.counter /\ t.queue = s.queue
         /\ t.entry = [s.entry EXCEPT ![n] = a] /\ t.exit = [s.exit EXCEPT ![n] = b]
         /\ t.iterated = [s.iterated EXCEPT ![n] = c]
<1>1. /\ s.entry \in [DOMAIN p.transfer -> Value] /\ s.exit \in [DOMAIN p.transfer -> Value]
      /\ s.iterated \in [DOMAIN p.transfer -> BOOLEAN]
      /\ s.counter \in [Indices(p) -> Nat] /\ s.queue \in Seq(Indices(p))
      /\ s = [entry |-> s.entry, exit |-> s.exit, iterated |-> s.iterated,
              counter |-> s.counter, queue |-> s.queue]
  BY DEF SeqState
<1>2. /\ t = [entry |-> [s.entry EXCEPT ![n] = a], exit |-> [s.exit EXCEPT ![n] = b],
              iterated |-> [s.iterated EXCEPT ![n] = c], counter |-> s.counter, queue |-> s.queue]
  BY <1>1 DEF Written
<1>3. t \in SeqState(p)
  BY <1>1, <1>2 DEF SeqState
<1>4. /\ t.counter = s.counter /\ t.queue = s.queue
      /\ t.entry = [s.entry EXCEPT ![n] = a] /\ t.exit = [s.exit EXCEPT ![n] = b]
      /\ t.iterated = [s.iterated EXCEPT ![n] = c]
  BY <1>2
<1> QED
  BY <1>3, <1>4

EntryExit(s, n, a, b)  == [s EXCEPT !.entry[n] = a, !.exit[n] = b]
EntryCount(s, n, a, c) == [s EXCEPT !.entry[n] = a, !.iterated[n] = c]

\* A table that is left alone may as well be written with what it holds.
LEMMA LeftAlone ==
  ASSUME NEW p, NEW s \in SeqState(p), NEW n \in DOMAIN p.transfer,
         NEW a, NEW b, NEW c
  PROVE  /\ b = s.exit[n] => EntryCount(s, n, a, c) = Written(s, n, a, b, c)
         /\ c = s.iterated[n] => EntryExit(s, n, a, b) = Written(s, n, a, b, c)
<1>1. /\ s.exit \in [DOMAIN p.transfer -> Value] /\ s.iterated \in [DOMAIN p.transfer -> BOOLEAN]
      /\ s = [entry |-> s.entry, exit |-> s.exit, iterated |-> s.iterated,
              counter |-> s.counter, queue |-> s.queue]
  BY DEF SeqState
<1>2. ASSUME NEW t, t = Written(s, n, a, b, c)
      PROVE  t = [entry |-> [s.entry EXCEPT ![n] = a], exit |-> [s.exit EXCEPT ![n] = b],
                  iterated |-> [s.iterated EXCEPT ![n] = c], counter |-> s.counter, queue |-> s.queue]
  BY <1>1, <1>2 DEF Written
<1>3. ASSUME b = s.exit[n], NEW x, x = EntryCount(s, n, a, c)
      PROVE  x = Written(s, n, a, b, c)
  <2>1. x = [entry |-> [s.entry EXCEPT ![n] = a], exit |-> s.exit,
             iterated |-> [s.iterated EXCEPT ![n] = c], counter |-> s.counter, queue |-> s.queue]
    BY <1>1, <1>3 DEF EntryCount
  <2>2. [s.exit EXCEPT ![n] = b] = s.exit
    BY <1>1, <1>3
  <2> QED
    BY <1>2, <2>1, <2>2
<1>4. ASSUME c = s.iterated[n], NEW x, x = EntryExit(s, n, a, b)
      PROVE  x = Written(s, n, a, b, c)
  <2>1. x = [entry |-> [s.entry EXCEPT ![n] = a], exit |-> [s.exit EXCEPT ![n] = b],
             iterated |-> s.iterated, counter |-> s.counter, queue |-> s.queue]
    BY <1>1, <1>4 DEF EntryExit
  <2>2. [s.iterated EXCEPT ![n] = c] = s.iterated
    BY <1>1, <1>4
  <2> QED
    BY <1>2, <2>1, <2>2
<1> QED
  BY <1>3, <1>4

\* What process_node does: it takes the front, writes the tables as in a turn
\* and gives credit, to the successors or to the loop.
LEMMA TurnShape ==
  ASSUME NEW p \in Programs, NEW v \in Value, NEW t \in SeqState(p), NEW i \in Indices(p), NEW D,
         NEW s, s \in SeqState(p), i = Head(s.queue), t = TakeNext(s),
         t.entry = s.entry, t.exit = s.exit, t.iterated = s.iterated,
         NEW r, r = Turn(s, D), NEW n, n = NodeAt(p, i),
         NEW u, u = Written(t, n, NewEntry(p, v, r, i), NewExit(p, v, r, i), NewIterated(p, v, r, i))
  PROVE  /\ u \in SeqState(p) /\ u.counter = t.counter /\ u.queue = t.queue
         /\ Turn(u, NewDone(p, v, r, i)) = After(p, v, r, i)
         /\ ProcessNode(p, v, s) =
              IF GoesRound(p, v, r, i) THEN GoRound(p, u, i) ELSE CreditSuccessors(p, u, i)
<1> DEFINE a == NewEntry(p, v, r, i)
           b == NewExit(p, v, r, i)
           c == NewIterated(p, v, r, i)
           in == IncomingAt(p, v, r, i)
           old == EntryAt(p, r, i)
<1>1. /\ s.entry \in [DOMAIN p.transfer -> Value] /\ s.exit \in [DOMAIN p.transfer -> Value]
      /\ s.iterated \in [DOMAIN p.transfer -> BOOLEAN]
      /\ r.entry = s.entry /\ r.exit = s.exit /\ r.iterated = s.iterated
  BY StateFacts DEF Turn
<1>2. a \in Value /\ b \in Value /\ c \in BOOLEAN /\ n \in DOMAIN p.transfer
  BY <1>1, TurnValues, VertexFacts
<1>3. p.wpo.node[i] = n
  <2>1. i \in Exits(p) => p.wpo.node[i] = p.wpo.node[i + 1]
    BY ProgramsAssumption DEF WellFormed, IsScheduled
  <2> QED
    BY <2>1 DEF NodeAt, HeadOf
<1>4. SeqIncoming(p, v, t, n) = in /\ t.entry[n] = old /\ t.exit[n] = r.exit[n]
      /\ t.iterated[n] = r.iterated[n]
  BY <1>1, InflowSame DEF IncomingAt, EntryAt
<1>5. ProcessNode(p, v, s) =
        IF i \notin Exits(p) THEN SeqAnalyze(p, t, i, n, in)
        ELSE IF in <= old THEN SeqStabilize(p, t, i, n, in)
        ELSE SeqIterate(p, t, i, n, in)
  <2> HIDE DEF in, old
  <2> QED
    BY <1>3, <1>4 DEF ProcessNode
<1>6. u = Written(t, n, a, b, c)
  OBVIOUS
<1>7. i \notin Exits(p) =>
        /\ a = Join(old, in) /\ b = p.transfer[n][a] /\ c = t.iterated[n]
        /\ ~GoesRound(p, v, r, i)
  BY <1>4 DEF NewEntry, NewExit, NewIterated, GoesRound, JoinedAt
<1>8. i \in Exits(p) /\ in <= old =>
        a = in /\ b = t.exit[n] /\ c = FALSE /\ ~GoesRound(p, v, r, i)
  BY <1>4 DEF NewEntry, NewExit, NewIterated, GoesRound
<1>9. i \in Exits(p) /\ ~(in <= old) =>
        /\ a = IF t.iterated[n] THEN Widen(t.entry[n], in) ELSE Join(t.entry[n], in)
        /\ b = t.exit[n] /\ c = TRUE /\ GoesRound(p, v, r, i)
  BY <1>4 DEF NewEntry, NewExit, NewIterated, GoesRound, JoinedAt
<1> HIDE DEF a, b, c, in, old
<1>10. /\ u \in SeqState(p) /\ u.counter = t.counter /\ u.queue = t.queue
      /\ u.entry = [t.entry EXCEPT ![n] = a] /\ u.exit = [t.exit EXCEPT ![n] = b]
      /\ u.iterated = [t.iterated EXCEPT ![n] = c]
  BY <1>2, <1>6, WrittenFacts
<1>11. ProcessNode(p, v, s) =
        IF GoesRound(p, v, r, i) THEN GoRound(p, u, i) ELSE CreditSuccessors(p, u, i)
  <2>1. CASE i \notin Exits(p)
    <3>1. EntryExit(t, n, a, b) = u
      BY <1>2, <1>6, <1>7, <2>1, LeftAlone
    <3>2. SeqAnalyze(p, t, i, n, in) = CreditSuccessors(p, EntryExit(t, n, a, b), i)
      BY <1>4, <1>7, <2>1 DEF SeqAnalyze, EntryExit
    <3> QED
      BY <1>5, <1>7, <2>1, <3>1, <3>2
  <2>2. CASE i \in Exits(p) /\ in <= old
    <3>1. EntryCount(t, n, a, c) = u
      <4>1. b = t.exit[n]
        BY <1>8, <2>2
      <4> QED
        BY <1>2, <1>6, <4>1, LeftAlone
    <3>2. SeqStabilize(p, t, i, n, in) = CreditSuccessors(p, EntryCount(t, n, in, FALSE), i)
      BY DEF SeqStabilize, EntryCount
    <3> QED
      BY <1>5, <1>8, <2>2, <3>1, <3>2
  <2>3. CASE i \in Exits(p) /\ ~(in <= old)
    <3>1. EntryCount(t, n, a, c) = u
      <4>1. b = t.exit[n]
        BY <1>9, <2>3
      <4> QED
        BY <1>2, <1>6, <4>1, LeftAlone
    <3> DEFINE e == IF t.iterated[n] THEN Widen(t.entry[n], in) ELSE Join(t.entry[n], in)
    <3>2. SeqIterate(p, t, i, n, in) = GoRound(p, EntryCount(t, n, e, TRUE), i)
      BY DEF SeqIterate, GoRound, EntryCount
    <3> HIDE DEF e
    <3>3. a = e /\ c = TRUE /\ GoesRound(p, v, r, i)
      BY <1>9, <2>3 DEF e
    <3> QED
      BY <1>5, <2>3, <3>1, <3>2, <3>3
  <2> QED
    BY <2>1, <2>2, <2>3
<1>12. Turn(u, NewDone(p, v, r, i)) = After(p, v, r, i)
  BY <1>1, <1>10 DEF Turn, After, a, b, c
<1> QED
  BY <1>10, <1>11, <1>12

LEMMA ProcessType ==
  ASSUME NEW p \in Programs, NEW v \in Value, NEW s \in SeqState(p), s.queue # <<>>
  PROVE  ProcessNode(p, v, s) \in SeqState(p)
<1> DEFINE i == Head(s.queue)
           t == TakeNext(s)
           r == Turn(s, {})
           u == Written(t, NodeAt(p, i), NewEntry(p, v, r, i), NewExit(p, v, r, i), NewIterated(p, v, r, i))
<1>1. /\ i = Head(s.queue) /\ t = TakeNext(s) /\ r = Turn(s, {})
      /\ u = Written(t, NodeAt(p, i), NewEntry(p, v, r, i), NewExit(p, v, r, i), NewIterated(p, v, r, i))
  OBVIOUS
<1> HIDE DEF i, t, r, u
<1>2. /\ t \in SeqState(p) /\ i \in Indices(p)
      /\ t.entry = s.entry /\ t.exit = s.exit /\ t.iterated = s.iterated
  BY <1>1, TakeType
<1>3. /\ u \in SeqState(p)
      /\ ProcessNode(p, v, s) =
           IF GoesRound(p, v, r, i) THEN GoRound(p, u, i) ELSE CreditSuccessors(p, u, i)
  BY <1>1, <1>2, TurnShape
<1>4. CreditSuccessors(p, u, i) \in SeqState(p)
  <2> DEFINE S  == {j \in Indices(p) : i \in PredsOf(p, j)}
             by == [j \in S |-> 1]
  <2>1. p.wpo.succs[i] = S
    BY <1>2, ProgramsAssumption DEF WellFormed, IsScheduled, PredsOf
  <2>2. S \in SUBSET Indices(p) /\ by \in [S -> Nat]
    OBVIOUS
  <2>3. CreditSuccessors(p, u, i) = AddCredits(p, u, by)
    BY <2>1 DEF CreditSuccessors
  <2> HIDE DEF S, by
  <2>4. Credited(p, u, S, by, AddCredits(p, u, by))
    BY <1>3, <2>2, CreditFacts
  <2> QED
    BY <2>3, <2>4 DEF Credited
<1>5. ASSUME i \in Exits(p)  PROVE GoRound(p, u, i) \in SeqState(p)
  <2> DEFINE S  == Reentered(p, i)
             by == [j \in S |-> Cardinality(Outside(p, i, j))]
             w  == AddCredits(p, u, by)
  <2>1. p.wpo.outer[i] = by
    BY <1>5, ProgramsAssumption DEF WellFormed, IsScheduled, Reentered, Outside, PredsOf
  <2>2. S \in SUBSET Indices(p)
    BY <1>5, LoopFacts DEF Reentered
  <2>3. \A j \in S : Cardinality(Outside(p, i, j)) \in Nat
    <3>1. \A j \in S : IsFiniteSet(PredsOf(p, j)) /\ Outside(p, i, j) \in SUBSET PredsOf(p, j)
      BY <2>2, OrderFacts DEF Outside
    <3> QED
      BY <3>1, FullFacts
  <2>4. by \in [S -> Nat]
    BY <2>3
  <2>5. GoRound(p, u, i) =
          IF i + 1 = p.wpo.size - 1 THEN [w EXCEPT !.queue = Append(w.queue, i + 1)] ELSE w
    BY <2>1 DEF GoRound
  <2> HIDE DEF S, by
  <2>6. w \in SeqState(p)
    <3>1. Credited(p, u, S, by, w)
      BY <1>3, <2>2, <2>4, CreditFacts
    <3> QED
      BY <3>1 DEF Credited
  <2> HIDE DEF w
  <2>7. CASE i + 1 = EntryOf(p)
    <3> DEFINE q == Append(w.queue, i + 1)
    <3>1. w.queue \in Seq(Indices(p)) /\ i + 1 \in Indices(p)
      BY <2>6, <2>7, StateFacts, OrderFacts
    <3>2. q \in Seq(Indices(p))
      BY <3>1
    <3> HIDE DEF q
    <3>3. w = [entry |-> w.entry, exit |-> w.exit, iterated |-> w.iterated,
               counter |-> w.counter, queue |-> w.queue]
      BY <2>6 DEF SeqState
    <3>4. ASSUME NEW x, x = [w EXCEPT !.queue = q]  PROVE x \in SeqState(p)
      <4>1. x = [entry |-> w.entry, exit |-> w.exit, iterated |-> w.iterated,
                 counter |-> w.counter, queue |-> q]
        BY <3>3, <3>4
      <4> QED
        BY <2>6, <3>2, <4>1, StateFacts DEF SeqState
    <3> QED
      BY <2>5, <2>7, <3>4 DEF q, EntryOf
  <2>8. CASE i + 1 # EntryOf(p)
    BY <2>5, <2>6, <2>8 DEF EntryOf
  <2> QED
    BY <2>7, <2>8
<1> QED
  BY <1>3, <1>4, <1>5 DEF GoesRound

\* A turn of the queue is a turn of the element at its front.
LEMMA ProcessFacts ==
  ASSUME NEW p \in Programs, NEW v \in Value, NEW s, NEW D, SeqInv(p, s, D), s.queue # <<>>,
         NEW i, i = Head(s.queue), NEW E, E = NewDone(p, v, Turn(s, D), i)
  PROVE  /\ SeqInv(p, ProcessNode(p, v, s), E)
         /\ Turn(ProcessNode(p, v, s), E) = After(p, v, Turn(s, D), i)
<1> DEFINE t == TakeNext(s)
           r == Turn(s, D)
           u == Written(t, NodeAt(p, i), NewEntry(p, v, r, i), NewExit(p, v, r, i), NewIterated(p, v, r, i))
           z == ProcessNode(p, v, s)
<1>1. s \in SeqState(p) /\ D \in SUBSET Indices(p) /\ PredClosed(p, D)
  BY DEF SeqInv
<1>2. /\ t \in SeqState(p) /\ i \in Indices(p)
      /\ t.entry = s.entry /\ t.exit = s.exit /\ t.iterated = s.iterated
  BY <1>1, TakeType
<1>3. Due(p, r, i) /\ TakenInv(p, t, D, i) /\ r.done = D
  BY TakeFacts DEF Turn
<1>4. CanRun(p, D, i)
  BY <1>3 DEF Due, CanRun
<1>5. /\ u \in SeqState(p) /\ u.counter = t.counter /\ u.queue = t.queue
      /\ Turn(u, NewDone(p, v, r, i)) = After(p, v, r, i)
      /\ z = IF GoesRound(p, v, r, i) THEN GoRound(p, u, i) ELSE CreditSuccessors(p, u, i)
  BY <1>1, <1>2, TurnShape
<1> HIDE DEF t, r, u, z
<1>6. TakenInv(p, u, D, i)
  BY <1>3, <1>5 DEF TakenInv
<1>7. Turned(p, u, z, E)
  <2>1. CASE GoesRound(p, v, r, i)
    <3>1. i \in Exits(p) /\ E = D \ LoopOf(p, i) /\ z = GoRound(p, u, i)
      BY <1>3, <1>5, <2>1 DEF GoesRound, NewDone, r
    <3> QED
      BY <1>1, <1>4, <1>6, <3>1, RoundAgain
  <2>2. CASE ~GoesRound(p, v, r, i)
    <3>1. E = D \cup {i} /\ z = CreditSuccessors(p, u, i)
      BY <1>3, <1>5, <2>2 DEF NewDone, r
    <3> QED
      BY <1>1, <1>2, <1>4, <1>6, <3>1, CompleteFacts
  <2> QED
    BY <2>1, <2>2
<1>8. Turn(z, E) = Turn(u, E)
  BY <1>7 DEF Turn, Turned
<1> QED
  BY <1>5, <1>7, <1>8 DEF r, z, Turned

\* The loop of the code does what it says, for as long as it takes.
LEMMA DrainFacts ==
  ASSUME NEW p \in Programs, NEW v \in Value, NEW s \in SeqState(p)
  PROVE  Drain(p, v)[s] = IF s.queue = <<>> THEN s ELSE Drain(p, v)[ProcessNode(p, v, s)]
<1> DEFINE S    == SeqState(p)
           N    == {x \in S : x.queue # <<>>}
           step == [x \in N |-> ProcessNode(p, v, x)]
<1>1. step \in [N -> S]
  BY ProcessType
<1>2. PICK R : \E f \in [S -> R] : Repeats(S, N, step, f)
  <2> HIDE DEF S, step
  <2>1. N \in SUBSET S
    OBVIOUS
  <2> HIDE DEF N
  <2> QED
    BY <1>1, <2>1, WhileExists
<1>3. PICK f \in [S -> R] : \A x \in S : f[x] = IF x \in N THEN f[step[x]] ELSE x
  <2> HIDE DEF S, N, step
  <2> QED
    BY <1>2 DEF Repeats
<1>4. f = [x \in S |-> IF x.queue = <<>> THEN x ELSE f[ProcessNode(p, v, x)]]
  <2>1. ASSUME NEW x \in S
        PROVE  f[x] = IF x.queue = <<>> THEN x ELSE f[ProcessNode(p, v, x)]
    <3>1. x \in N <=> x.queue # <<>>
      OBVIOUS
    <3>2. x \in N => step[x] = ProcessNode(p, v, x)
      OBVIOUS
    <3> HIDE DEF S, N, step
    <3> QED
      BY <1>3, <3>1, <3>2
  <2> HIDE DEF S, N, step
  <2> QED
    BY <1>3, <2>1
<1> HIDE DEF S, N, step
<1>5. Drain(p, v) = CHOOSE d : d = [x \in S |-> IF x.queue = <<>> THEN x ELSE d[ProcessNode(p, v, x)]]
  BY DEF Drain, S
<1> DEFINE g == Drain(p, v)
<1>6. g = [x \in S |-> IF x.queue = <<>> THEN x ELSE g[ProcessNode(p, v, x)]]
  <2> HIDE DEF g
  <2> QED
    BY <1>4, <1>5 DEF g
<1> HIDE DEF g
<1>7. g[s] = IF s.queue = <<>> THEN s ELSE g[ProcessNode(p, v, s)]
  BY <1>6 DEF S
<1> QED
  BY <1>7 DEF g

\* Wherever turns lead that leave nothing to do, the queue leads too.
LEMMA DrainLeads ==
  ASSUME NEW p \in Programs, NEW v \in Value, NEW z, z.done = Indices(p), NEW n \in Nat,
         NEW s, NEW D, SeqInv(p, s, D), Leads(p, v, Turn(s, D), z, n)
  PROVE  Drain(p, v)[s].entry = z.entry /\ Drain(p, v)[s].exit = z.exit
<1> DEFINE Agree(x) == Drain(p, v)[x].entry = z.entry /\ Drain(p, v)[x].exit = z.exit
           B == {m \in Nat : \E x \in SeqState(p), C \in SUBSET Indices(p) :
                   SeqInv(p, x, C) /\ Leads(p, v, Turn(x, C), z, m) /\ ~Agree(x)}
<1>1. s \in SeqState(p) /\ D \in SUBSET Indices(p)
  BY DEF SeqInv
<1> SUFFICES ASSUME B # {}  PROVE FALSE
  <2> HIDE DEF Agree
  <2>1. n \notin B => Agree(s)
    BY <1>1
  <2> QED
    BY <2>1 DEF Agree
<1> HIDE DEF Agree
<1>2. PICK m \in B : \A k \in B : m <= k
  <2>1. B \subseteq Nat
    OBVIOUS
  <2> HIDE DEF B
  <2> QED
    BY <2>1, LeastNumber
<1>3. PICK x \in SeqState(p), C \in SUBSET Indices(p) :
        SeqInv(p, x, C) /\ Leads(p, v, Turn(x, C), z, m) /\ ~Agree(x)
  OBVIOUS
<1>4. m \in Nat
  OBVIOUS
<1>5. CASE x.queue = <<>>
  <2>1. PICK q : q[0] = Turn(x, C) /\ q[m] = z /\ IsPath(p, v, q, m)
    BY <1>3 DEF Leads
  <2>2. m = 0
    <3> SUFFICES ASSUME m # 0  PROVE FALSE
      OBVIOUS
    <3>1. 0 \in 0 .. m - 1
      BY <1>4
    <3>2. PICK i \in Indices(p) : Due(p, Turn(x, C), i)
      BY <2>1, <3>1 DEF IsPath
    <3>3. CanRun(p, C, i)
      BY <3>2 DEF Due, CanRun, Turn
    <3>4. Queued(<<>>, i)
      BY <1>3, <1>5, <3>3 DEF SeqInv
    <3> QED
      BY <3>4 DEF Queued
  <2>3. Turn(x, C) = z
    BY <2>1, <2>2
  <2>4. z.entry = x.entry /\ z.exit = x.exit
    BY <2>3 DEF Turn
  <2>5. Drain(p, v)[x] = x
    BY <1>5, DrainFacts
  <2> QED
    BY <1>3, <2>4, <2>5 DEF Agree
<1>6. CASE x.queue # <<>>
  <2> DEFINE i == Head(x.queue)
             r == Turn(x, C)
             E == NewDone(p, v, r, i)
             y == ProcessNode(p, v, x)
  <2>1. Good(p, r) /\ Due(p, r, i)
    BY <1>3, <1>6, TakeFacts
  <2>2. m > 0 /\ Leads(p, v, After(p, v, r, i), z, m - 1)
    BY <1>3, <1>4, <2>1, TurnFirst
  <2>3. SeqInv(p, y, E) /\ Turn(y, E) = After(p, v, r, i)
    BY <1>3, <1>6, ProcessFacts
  <2> HIDE DEF i, r, E, y
  <2>4. y \in SeqState(p) /\ E \in SUBSET Indices(p) /\ Leads(p, v, Turn(y, E), z, m - 1)
    BY <2>2, <2>3 DEF SeqInv
  <2>5. m - 1 \in Nat /\ ~(m <= m - 1)
    BY <1>4, <2>2
  <2>6. m - 1 \notin B
    <3> HIDE DEF B
    <3> QED
      BY <1>2, <2>5
  <2>7. Agree(y)
    BY <2>3, <2>4, <2>5, <2>6
  <2>8. Drain(p, v)[x] = Drain(p, v)[y]
    BY <1>6, DrainFacts DEF y
  <2> QED
    BY <1>3, <2>7, <2>8 DEF Agree
<1> QED
  BY <1>5, <1>6

LEMMA Sequential ==
  ASSUME TypeInv, DoneInv(Indices(prog)), TurnsInv(Indices(prog))
  PROVE  ResultIsSequential
<1> SUFFICES ASSUME Idle, runs > 0
             PROVE  LET s == SequentialRun(prog, init) IN entry = s.entry /\ exit = s.exit
  BY DEF ResultIsSequential
<1> DEFINE z == Now(Indices(prog))
           s == SeqStart(prog)
<1>1. prog \in Programs /\ init \in Value
  BY DEF TypeInv, TypeOK
<1>2. PICK n \in Nat : Leads(prog, init, Fresh(prog), z, n)
  BY DEF TurnsInv
<1>3. SeqInv(prog, s, {}) /\ Turn(s, {}) = Fresh(prog)
  BY <1>1, StartFacts
<1>4. z.done = Indices(prog) /\ z.entry = entry /\ z.exit = exit
  BY DEF Now
<1> HIDE DEF s, z
<1>5. Drain(prog, init)[s].entry = z.entry /\ Drain(prog, init)[s].exit = z.exit
  BY <1>1, <1>2, <1>3, <1>4, DrainLeads
<1> QED
  BY <1>4, <1>5 DEF SequentialRun, s
-----------------------------------------------------------------------------
(***************************************************************************)
(* The invariant and what follows from it.                                 *)
(***************************************************************************)
LEMMA InvInit == Init => Inv
<1> SUFFICES ASSUME Init  PROVE Inv
  OBVIOUS
<1>1. TypeInv
  BY TypeInit
<1>2. PICK D : D = Indices(prog)
  OBVIOUS
<1>3. ControlInv(D) /\ DataInv(D) /\ TurnsInv(D)
  BY <1>1, <1>2, InitControl, InitData DEF TurnsInv, Init
<1> QED
  BY <1>1, <1>2, <1>3 DEF Inv

\* How each step changes what is done.
LEMMA InvNext == Inv /\ [Next]_vars => Inv'
<1> SUFFICES ASSUME Inv, [Next]_vars  PROVE Inv'
  OBVIOUS
<1>1. TypeInv /\ TypeInv'
  BY TypeNext DEF Inv
<1>2. PICK D \in SUBSET Indices(prog) : ControlInv(D) /\ DataInv(D) /\ TurnsInv(D)
  BY DEF Inv
<1>3. ASSUME NEW E, ControlInv(E)', DataInv(E)', TurnsInv(E)'  PROVE Inv'
  <2>1. E \in SUBSET Indices(prog)'
    BY <1>3 DEF ControlInv, DoneInv
  <2> QED
    BY <1>1, <1>3, <2>1 DEF Inv
<1>4. ASSUME NEW v \in Inits, Run(v)  PROVE Inv'
  <2>1. ControlInv({})' /\ DataInv({})' /\ TurnsInv({})'
    BY <1>1, <1>2, <1>4, RunControl, RunData, RunTurns
  <2> QED
    BY <1>3, <2>1
<1>5. CASE RunEnds
  <2>1. UNCHANGED <<fixed, states>>
    BY <1>5 DEF RunEnds
  <2>2. ControlInv(D)' /\ DataInv(D)' /\ TurnsInv(D)'
    BY <1>1, <1>2, <1>5, <2>1, EndControl, SameData, SameTurns
  <2> QED
    BY <1>3, <2>2
<1>6. ASSUME NEW w \in Thread, Step(w)  PROVE Inv'
  <2>1. ASSUME NEW i \in Idx, Begin(w, i)  PROVE Inv'
    <3>1. UNCHANGED <<fixed, states>>
      BY <2>1 DEF Begin
    <3>2. ControlInv(D)' /\ DataInv(D)' /\ TurnsInv(D)'
      BY <1>1, <1>2, <2>1, <3>1, BeginControl, SameData, SameTurns
    <3> QED
      BY <1>3, <3>2
  <2>2. CASE ResetCounter(w)
    <3>1. UNCHANGED <<fixed, states>>
      BY <2>2 DEF ResetCounter
    <3>2. ControlInv(D)' /\ DataInv(D)' /\ TurnsInv(D)'
      BY <1>1, <1>2, <2>2, <3>1, ResetControl, SameData, SameTurns
    <3> QED
      BY <1>3, <3>2
  <2>3. CASE AnalyzeVertex(w)
    <3>1. PICK E : E = D \cup {elem[w]}
      OBVIOUS
    <3>2. /\ pc[w] = "data" /\ Announce(w, ToSuccessors(elem[w]))
          /\ prog' = prog /\ elem' = elem /\ counter' = counter /\ waiting' = waiting
      BY <2>3 DEF AnalyzeVertex, fixed
    <3>3. ControlInv(E)'
      BY <1>1, <1>2, <3>1, <3>2, CompleteControl
    <3>4. DataInv(E)' /\ TurnsInv(E)'
      BY <1>1, <1>2, <2>3, <3>1, AnalyzeData, AnalyzeTurns
    <3> QED
      BY <1>3, <3>3, <3>4
  <2>4. CASE Stabilize(w)
    <3>1. PICK E : E = D \cup {elem[w]}
      OBVIOUS
    <3>2. /\ pc[w] = "data" /\ Announce(w, ToSuccessors(elem[w]))
          /\ prog' = prog /\ elem' = elem /\ counter' = counter /\ waiting' = waiting
      BY <2>4 DEF Stabilize, fixed
    <3>3. ControlInv(E)'
      BY <1>1, <1>2, <3>1, <3>2, CompleteControl
    <3>4. DataInv(E)' /\ TurnsInv(E)'
      BY <1>1, <1>2, <2>4, <3>1, StabilizeData, StabilizeTurns
    <3> QED
      BY <1>3, <3>3, <3>4
  <2>5. CASE Iterate(w)
    <3>1. PICK E : E = D \ LoopOf(prog, elem[w])
      OBVIOUS
    <3>2. ControlInv(E)' /\ DataInv(E)' /\ TurnsInv(E)'
      BY <1>1, <1>2, <2>5, <3>1, IterateControl, IterateData, IterateTurns
    <3> QED
      BY <1>3, <3>2
  <2>6. CASE Notify(w)
    <3>1. UNCHANGED <<fixed, states>>
      BY <2>6 DEF Notify
    <3>2. ControlInv(D)' /\ DataInv(D)' /\ TurnsInv(D)'
      BY <1>1, <1>2, <2>6, <3>1, NotifyControl, SameData, SameTurns
    <3> QED
      BY <1>3, <3>2
  <2>7. CASE Return(w)
    <3>1. UNCHANGED <<fixed, states>>
      BY <2>7 DEF Return
    <3>2. ControlInv(D)' /\ DataInv(D)' /\ TurnsInv(D)'
      BY <1>1, <1>2, <2>7, <3>1, ReturnControl, SameData, SameTurns
    <3> QED
      BY <1>3, <3>2
  <2> QED
    BY <1>6, <2>1, <2>2, <2>3, <2>4, <2>5, <2>6, <2>7 DEF Step
<1>7. CASE UNCHANGED vars
  <2>1. /\ UNCHANGED <<fixed, states>> /\ prog' = prog /\ todo' = todo /\ pc' = pc /\ elem' = elem
        /\ counter' = counter /\ waiting' = waiting
    BY <1>7 DEF vars, fixed, states
  <2>2. /\ \A v \in Thread : \A j : Owing(v, j)' = Owing(v, j)
        /\ \A j : Paid(D, j)' = Paid(D, j) /\ (Ready(D, j)' <=> Ready(D, j))
    BY <2>1, SameCredits
  <2>3. \A v \in Thread : /\ \A j : RunsOn(v, j)' <=> RunsOn(v, j)
                          /\ Delivering(v)' <=> Delivering(v)
    BY <2>1, SameThread
  <2>4. \A j : Runners(j)' = Runners(j) /\ (DataOn(j)' <=> DataOn(j))
    BY <2>1, <2>3 DEF Runners, DataOn
  <2>5. DoneInv(D)' /\ CreditInv(D)'
    BY <1>2, <2>1, <2>2 DEF ControlInv, DoneInv, CreditInv, PredClosed, Idle
  <2>6. ApartInv'
    BY <1>2, <2>1, <2>2, <2>3 DEF ControlInv, ApartInv
  <2>7. CountInv(D)' /\ OnceInv(D)'
    BY <1>2, <2>1, <2>2, <2>4 DEF ControlInv, CountInv, OnceInv
  <2>8. DataInv(D)' /\ TurnsInv(D)'
    BY <1>2, <2>1, SameData, SameTurns
  <2>9. ControlInv(D)'
    BY <2>5, <2>6, <2>7 DEF ControlInv
  <2> QED
    BY <1>3, <2>8, <2>9
<1> QED
  BY <1>4, <1>5, <1>6, <1>7 DEF Next

LEMMA FullAtStart == Inv => CounterFullAtStart
<1> SUFFICES ASSUME Inv, NEW w \in Thread, pc[w] = "reset"
             PROVE  counter[elem[w]] = NumPreds(elem[w])
  BY DEF Inv, TypeInv, CounterFullAtStart
<1>1. TypeInv /\ prog \in Programs
  BY DEF Inv, TypeInv
<1>2. PICK D \in SUBSET Indices(prog) : ControlInv(D)
  BY DEF Inv
<1> DEFINE e == elem[w]
<1>3. e \in Indices(prog) /\ Ready(D, e) /\ Runners(e) = {w}
  BY <1>1, <1>2, WorkerFacts
<1>4. ~DataOn(e)
  <2> SUFFICES ASSUME NEW v \in Thread, pc[v] = "data", elem[v] = e  PROVE FALSE
    BY DEF DataOn
  <2>1. v \in Runners(e)
    BY DEF Runners, RunsOn
  <2> QED
    BY <1>3, <2>1
<1>5. e \notin D /\ Paid(D, e) = PredsOf(prog, e)
  BY <1>3 DEF Ready
<1>6. counter[e] = Cardinality(PredsOf(prog, e))
  BY <1>2, <1>3, <1>4, <1>5 DEF ControlInv, CountInv
<1> QED
  BY <1>1, <1>6, Bridge

LEMMA Once == Inv => NeverScheduledTwice
<1> SUFFICES ASSUME Inv, NEW i \in Idx
             PROVE  waiting[i] + Cardinality({w \in Thread : Working(w) /\ elem[w] = i}) <= 1
  BY DEF NeverScheduledTwice
<1>1. TypeInv /\ prog \in Programs /\ i \in Indices(prog)
  BY Bridge DEF Inv, TypeInv
<1>2. PICK D \in SUBSET Indices(prog) : ControlInv(D)
  BY DEF Inv
<1> DEFINE T == {w \in Thread : Working(w) /\ elem[w] = i}
<1>3. \A w \in Thread : Working(w) <=> pc[w] \in {"reset", "data"} \/ Delivering(w)
  BY <1>1, Bridge DEF Working, Delivering, ByHand, TypeInv, TypeOK
<1>4. ASSUME Ready(D, i)  PROVE T \subseteq Runners(i)
  <2>1. \A v \in Thread : Delivering(v) => elem[v] # i
    BY <1>1, <1>2, <1>4, Alone
  <2> QED
    BY <1>3, <2>1 DEF Runners, RunsOn
<1>5. ASSUME ~Ready(D, i), NEW w \in T, NEW v \in T  PROVE w = v
  <2>1. Runners(i) = {}
    BY <1>1, <1>2, <1>5 DEF ControlInv, OnceInv
  <2>2. Delivering(w) /\ Delivering(v)
    BY <1>3, <2>1 DEF Runners, RunsOn
  <2> QED
    BY <1>2, <2>2 DEF ControlInv, ApartInv
<1>6. T = {} \/ \E w \in Thread : T = {w} /\ waiting[i] = 0
  <2>1. CASE Ready(D, i)
    <3>1. \/ Runners(i) = {}
          \/ waiting[i] = 0 /\ \E w \in Thread : Runners(i) = {w}
      BY <1>1, <1>2, <2>1 DEF ControlInv, OnceInv
    <3> HIDE DEF T
    <3> QED
      BY <1>4, <2>1, <3>1
  <2>2. CASE ~Ready(D, i)
    <3>1. waiting[i] = 0
      BY <1>1, <1>2, <2>2 DEF ControlInv, OnceInv
    <3>2. T \subseteq Thread
      OBVIOUS
    <3> HIDE DEF T
    <3> QED
      BY <1>5, <2>2, <3>1, <3>2
  <2> QED
    BY <2>1, <2>2
<1>7. waiting[i] \in {0, 1}
  BY <1>1, <1>2 DEF ControlInv, OnceInv
<1> HIDE DEF T
<1>8. CASE T = {}
  <2>1. Cardinality(T) = 0
    BY <1>8, FS_EmptySet
  <2> QED
    BY <1>7, <2>1 DEF T
<1>9. ASSUME NEW w, T = {w}, waiting[i] = 0
      PROVE  waiting[i] + Cardinality(T) <= 1
  <2>1. Cardinality(T) = 1
    BY <1>9, FS_Singleton
  <2> QED
    BY <1>9, <2>1
<1> QED
  BY <1>6, <1>8, <1>9 DEF T

\* Two elements that are ready access different nodes, and neither is a node
\* whose exit state the other reads.
LEMMA ReadyApart ==
  ASSUME TypeInv, NEW D, ControlInv(D),
         NEW e \in Indices(prog), NEW f \in Indices(prog), e # f, Ready(D, e), Ready(D, f)
  PROVE  /\ NodeAt(prog, e) # NodeAt(prog, f)
         /\ e \in Vertices(prog) => NodeAt(prog, e) \notin Preds(NodeAt(prog, f))
<1>1. /\ prog \in Programs /\ D \in SUBSET Indices(prog) /\ PredClosed(prog, D)
      /\ e \notin D /\ PredsOf(prog, e) \subseteq D
      /\ f \notin D /\ PredsOf(prog, f) \subseteq D
  BY DEF Ready, Paid, ControlInv, DoneInv, TypeInv
<1> QED
  BY <1>1, DueApart DEF Preds

LEMMA Apart == Inv => NoDataRace
<1> SUFFICES ASSUME Inv, NEW w \in Thread, NEW v \in Thread,
                    w # v, pc[w] = "data", pc[v] = "data"
             PROVE  Writes(elem[w]) \cap (Reads(elem[v]) \cup Writes(elem[v])) = {}
  BY DEF NoDataRace
<1>1. TypeInv /\ prog \in Programs
  BY DEF Inv, TypeInv
<1>2. PICK D \in SUBSET Indices(prog) : ControlInv(D)
  BY DEF Inv
<1>3. /\ elem[w] \in Indices(prog) /\ Ready(D, elem[w]) /\ Runners(elem[w]) = {w}
      /\ elem[v] \in Indices(prog) /\ Ready(D, elem[v]) /\ Runners(elem[v]) = {v}
  BY <1>1, <1>2, WorkerFacts
<1>4. elem[w] # elem[v]
  BY <1>3
<1>5. /\ NodeOf(elem[w]) # NodeOf(elem[v])
      /\ ~IsExit(elem[w]) => NodeOf(elem[w]) \notin Preds(NodeOf(elem[v]))
  BY <1>1, <1>2, <1>3, <1>4, ReadyApart, Bridge DEF Vertices
<1> QED
  BY <1>5 DEF Writes, Reads

LEMMA Spent == Inv => AllCountersSpent
<1> SUFFICES ASSUME Inv, Idle, NEW i \in Idx
             PROVE  counter[i] = 0 /\ waiting[i] = 0 /\ ~iterated[NodeOf(i)]
  BY DEF AllCountersSpent
<1>1. TypeInv /\ prog \in Programs /\ i \in Indices(prog) /\ NodeOf(i) = NodeAt(prog, i)
  BY Bridge DEF Inv, TypeInv
<1>2. PICK D \in SUBSET Indices(prog) : ControlInv(D) /\ DataInv(D)
  BY DEF Inv
<1>3. D = Indices(prog) /\ counter[i] = 0 /\ waiting[i] = 0
  BY <1>1, <1>2, IdleFacts
<1>4. ~iterated[NodeOf(i)]
  BY <1>1, <1>2, <1>3 DEF DataInv, IterInv, Exits
<1> QED
  BY <1>3, <1>4

LEMMA PostFixpoint == Inv => ResultIsPostFixpoint
<1> SUFFICES ASSUME Inv, Idle, runs > 0, NEW i \in Idx
             PROVE  LET n == NodeOf(i) IN /\ Incoming(n) <= entry[n]
                                          /\ prog.transfer[n][entry[n]] <= exit[n]
  BY DEF ResultIsPostFixpoint
<1>1. /\ TypeInv /\ prog \in Programs /\ i \in Indices(prog) /\ NodeOf(i) = NodeAt(prog, i)
      /\ entry \in [Node -> Value] /\ exit \in [Node -> Value] /\ init \in Value
  BY Bridge DEF Inv, TypeInv, TypeOK
<1>2. PICK D \in SUBSET Indices(prog) : ControlInv(D) /\ DataInv(D)
  BY DEF Inv
<1>3. D = Indices(prog) /\ ValueInv(D)
  BY <1>1, <1>2, IdleFacts DEF DataInv
<1> DEFINE n == NodeAt(prog, i)
           k == HeadOf(prog, i)
<1>4. k \in Vertices(prog) /\ k \in Indices(prog) /\ NodeAt(prog, k) = n /\ n \in Node
  <2>1. k \in Vertices(prog) /\ n \in Node
    BY <1>1, VertexFacts DEF Node
  <2>2. HeadOf(prog, k) = k
    BY <1>1, <2>1, VertexFacts
  <2> QED
    BY <2>1, <2>2 DEF NodeAt, Vertices
<1> HIDE DEF n, k
<1>5. prog.transfer[n][entry[n]] <= exit[n] /\ (n = prog.root => init <= entry[n])
  BY <1>3, <1>4 DEF ValueInv
<1>6. ASSUME NEW m \in Preds(n)  PROVE m \in Node /\ exit[m] <= entry[n]
  <2>1. PICK g \in prog.edges : g[2] = n /\ g[1] = m
    BY DEF Preds
  <2>2. g = <<m, n>> /\ m \in Node
    BY <1>1, <2>1, VertexFacts DEF Node
  <2>3. CASE \A j \in Vertices(prog) : NodeAt(prog, j) # m
    <3>1. exit[m] = Bottom
      BY <1>3, <2>2, <2>3 DEF ValueInv
    <3>2. entry[n] \in Value
      BY <1>1, <1>4
    <3> QED
      BY <2>2, <3>1, <3>2, ValuesAssumption DEF Bottom, Value
  <2>4. ASSUME NEW j \in Vertices(prog), NodeAt(prog, j) = m  PROVE exit[m] <= entry[n]
    <3>1. Edge(prog, j, k)
      BY <1>4, <2>1, <2>2, <2>4 DEF Edge
    <3>2. CASE j # k /\ Before(prog, j, k)
      BY <1>3, <1>4, <2>4, <3>1, <3>2 DEF ValueInv, Covers
    <3>3. ASSUME NEW x \in Exits(prog), HeadOf(prog, x) = k  PROVE exit[m] <= entry[n]
      <4>1. NodeAt(prog, x) = n
        BY <1>1, <1>4, <3>3, NodeFacts
      <4>2. Edge(prog, j, x) /\ x \in D
        BY <1>3, <1>4, <3>1, <4>1 DEF Edge, Exits
      <4> QED
        BY <1>3, <2>4, <4>1, <4>2 DEF ValueInv, Covers
    <3> QED
      BY <1>1, <1>4, <3>1, <3>2, <3>3, EdgeFacts
  <2> QED
    BY <2>2, <2>3, <2>4
<1>7. Incoming(n) <= entry[n]
  <2> DEFINE S == {Bottom} \cup (IF n = prog.root THEN {init} ELSE {})
                           \cup {exit[m] : m \in Preds(n)}
  <2>1. S \in SUBSET Value /\ S # {}
    BY <1>1, <1>6, ValuesAssumption DEF Bottom, Value
  <2>2. Incoming(n) = Greatest(S)
    BY DEF Incoming
  <2>3. \A s \in S : s <= entry[n]
    <3>1. Bottom <= entry[n]
      BY <1>1, <1>4, ValuesAssumption DEF Bottom, Value
    <3> QED
      BY <1>5, <1>6, <3>1
  <2> HIDE DEF S
  <2> QED
    BY <2>1, <2>2, <2>3, GreatestFacts
<1> QED
  BY <1>1, <1>5, <1>7 DEF n

\* Between calls every element is done.
LEMMA Determined == Inv => ResultIsSequential
<1> SUFFICES ASSUME Inv, Idle  PROVE ResultIsSequential
  BY DEF ResultIsSequential
<1>1. PICK D \in SUBSET Indices(prog) : ControlInv(D) /\ DataInv(D) /\ TurnsInv(D)
  BY DEF Inv
<1>2. D = Indices(prog) /\ DoneInv(D)
  BY <1>1 DEF ControlInv, DoneInv
<1> QED
  BY <1>1, <1>2, Sequential DEF Inv

\* A task that begins finds its counter full, and no counter goes below zero:
\* the assert on wpo_counter at the start of a task cannot fail, although the
\* counters are raised one by one while other threads already run elements.
THEOREM StartsWithFullCounter == Spec => []CounterFullAtStart
BY InvInit, InvNext, FullAtStart, PTL DEF Spec

\* No element is in the pool twice, or pushed while a thread works on it: of
\* the threads that raise a counter exactly one fills it, and the entry, which
\* has no counter to fill, is pushed by hand once per iteration of its loop.
THEOREM ScheduledOnce == Spec => []NeverScheduledTwice
BY InvInit, InvNext, Once, PTL DEF Spec

\* The entry states, exit states and iteration counts need no lock: two tasks
\* that access them at the same time access different nodes, and neither reads
\* the exit state the other writes.
THEOREM TablesNeedNoLock == Spec => []NoDataRace
BY InvInit, InvNext, Apart, PTL DEF Spec

\* When run() returns all counters are zero, as the assert at its end says, no
\* task is left in the pool and no head has an iteration count, so that the
\* next call starts as the first did.
THEOREM NothingLeftOver == Spec => []AllCountersSpent
BY InvInit, InvNext, Spent, PTL DEF Spec

\* What run() leaves is a post-fixpoint, whatever the schedule, the threads and
\* the order in which loops were iterated: the state at a node's entry covers
\* the initial value and the exit states of all its predecessors, and the state
\* at its exit what the node makes of it.
THEOREM ResultCovers == Spec => []ResultIsPostFixpoint
BY InvInit, InvNext, PostFixpoint, PTL DEF Spec

\* Whatever the number of threads, the interleaving, the order in which the
\* pool hands out tasks and the one in which credits are given, run() leaves
\* at the entry and at the exit of every node the state the sequential
\* iterator leaves there: the parallel algorithm is deterministic, even where
\* widening makes the result depend on how often a loop is iterated.
THEOREM ResultIsDeterministic == Spec => []ResultIsSequential
BY InvInit, InvNext, Determined, PTL DEF Spec
=============================================================================
