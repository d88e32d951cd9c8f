-------------------------- MODULE DAGSchedulerProofs --------------------------
(***************************************************************************)
(* Proofs, for any set of tasks with acyclic dependencies and any number   *)
(* of threads, that the counts of the scheduler are exact, that it uses    *)
(* its pool as the pool allows, so that all that is proved of the pool     *)
(* holds of it, and that every step of it is one that the abstract         *)
(* execution of the tasks allows.                                          *)
(***************************************************************************)
EXTENDS DAGScheduler, FiniteSetTheorems, SequenceTheorems, TLAPS

PP == INSTANCE PriorityThreadPoolProofs WITH Work <- Action
-----------------------------------------------------------------------------
(***************************************************************************)
(* Chains: the recursion of compute_priority ends, within |Task| steps.    *)
(***************************************************************************)
\* A finite set has a member with the least and one with the greatest value.
LEMMA LeastOf ==
  ASSUME NEW S, IsFiniteSet(S), S # {}, NEW f, \A s \in S : f[s] \in Int
  PROVE  \E s \in S : \A x \in S : f[s] <= f[x]
<1> DEFINE Below(s) == {x \in S : f[x] < f[s]}
           R == StrictSubsetOrdering(S)
           T == {Below(s) : s \in S}
<1>1. FiniteSubsetsOf(S) = SUBSET S
  BY FS_FiniteSubsetsOfFinite
<1>2. IsWellFoundedOn(R, SUBSET S)
  BY <1>1, FS_StrictSubsetOrderingWellFounded
<1>3. T \subseteq SUBSET S /\ T # {}
  OBVIOUS
<1>4. \E U \in T : \A V \in T : <<V, U>> \notin R
  <2> HIDE DEF T, R
  <2> QED
    BY <1>2, <1>3, WFMin
<1>5. PICK s \in S : \A V \in T : <<V, Below(s)>> \notin R
  BY <1>4
<1>6. ASSUME NEW x \in S, ~(f[s] <= f[x])  PROVE FALSE
  <2>1. f[x] < f[s]
    BY <1>6
  <2>2. x \in Below(s) /\ x \notin Below(x)
    BY <2>1
  <2>3. ASSUME NEW y \in Below(x)  PROVE y \in Below(s)
    <3>1. y \in S /\ f[y] < f[x]
      OBVIOUS
    <3>2. f[y] \in Int /\ f[x] \in Int /\ f[s] \in Int
      BY <3>1
    <3>3. f[y] < f[s]
      BY <2>1, <3>1, <3>2
    <3> QED
      BY <3>1, <3>3
  <2>4. <<Below(x), Below(s)>> \in R
    <3>1. Below(x) \in SUBSET S /\ Below(s) \in SUBSET S
      OBVIOUS
    <3>2. Below(x) \subseteq Below(s) /\ Below(x) # Below(s)
      BY <2>2, <2>3
    <3> HIDE DEF Below
    <3> QED
      BY <3>1, <3>2 DEF StrictSubsetOrdering
  <2> QED
    BY <1>5, <2>4
<1> QED
  BY <1>6

LEMMA GreatestOf ==
  ASSUME NEW S, IsFiniteSet(S), S # {}, NEW f, \A s \in S : f[s] \in Int
  PROVE  \E s \in S : \A x \in S : f[x] <= f[s]
<1> DEFINE g == [s \in S |-> 0 - f[s]]
<1>1. \A s \in S : g[s] = 0 - f[s] /\ g[s] \in Int
  OBVIOUS
<1> HIDE DEF g
<1>2. PICK s \in S : \A x \in S : g[s] <= g[x]
  BY <1>1, LeastOf
<1>3. \A x \in S : f[x] <= f[s]
  BY <1>1, <1>2
<1> QED
  BY <1>3

\* The recursion equation of Chain.
Longest(B)  == CHOOSE n \in B : \A k \in B : k <= n
Above(c, t) == {0} \cup {c[u] + 1 : u \in waitingFor[t]}

LEMMA LongestIn ==
  ASSUME NEW m \in Nat, NEW B \in SUBSET (0 .. m), B # {}
  PROVE  Longest(B) \in B
<1>1. IsFiniteSet(0 .. m)
  BY FS_Interval
<1>2. IsFiniteSet(B)
  BY <1>1, FS_Subset
<1> DEFINE f == [b \in B |-> b]
<1>3. \A b \in B : f[b] = b /\ f[b] \in Int
  OBVIOUS
<1> HIDE DEF f
<1>4. \E n \in B : \A k \in B : f[k] <= f[n]
  BY <1>2, <1>3, GreatestOf
<1>5. \E n \in B : \A k \in B : k <= n
  BY <1>3, <1>4
<1> QED
  BY <1>5, Zenon DEF Longest

Numbering(rank) == /\ rank \in [Task -> 1 .. Cardinality(Task)]
                   /\ \A t, d \in Task : <<t, d>> \in Edges => rank[d] < rank[t]

WaitEdges == \A d \in Task : \A u \in waitingFor[d] : u \in Task /\ <<u, d>> \in Edges

\* One step of the recursion.
LEMMA ChainStep ==
  ASSUME WaitEdges, NEW rank, Numbering(rank), Cardinality(Task) \in Nat, NEW c, NEW t \in Task,
         \A u \in Task : rank[t] < rank[u] => c[u] \in 0 .. Cardinality(Task) - rank[u]
  PROVE  Longest(Above(c, t)) \in 0 .. Cardinality(Task) - rank[t]
<1> DEFINE m == Cardinality(Task) - rank[t]
<1>1. rank[t] \in 1 .. Cardinality(Task) /\ m \in Nat
  BY DEF Numbering
<1>2. ASSUME NEW u \in waitingFor[t]  PROVE c[u] + 1 \in 0 .. m
  <2>1. u \in Task /\ rank[t] < rank[u] /\ rank[u] \in 1 .. Cardinality(Task)
    BY DEF WaitEdges, Numbering
  <2>2. c[u] \in 0 .. Cardinality(Task) - rank[u]
    BY <2>1
  <2> QED
    BY <1>1, <2>1, <2>2
<1>3. Above(c, t) \in SUBSET (0 .. m) /\ Above(c, t) # {}
  BY <1>1, <1>2 DEF Above
<1> HIDE DEF m
<1>4. Longest(Above(c, t)) \in Above(c, t)
  BY <1>1, <1>3, LongestIn
<1> QED
  BY <1>3, <1>4 DEF m

LEMMA ChainExists ==
  ASSUME WaitEdges, NEW rank, Numbering(rank), Cardinality(Task) \in Nat
  PROVE  \E c : c = [t \in Task |-> Longest(Above(c, t))]
<1> DEFINE N == Cardinality(Task)
           Top(k) == {t \in Task : rank[t] > N - k}
           Solves(c, k) == \A t \in Top(k) : /\ c[t] = Longest(Above(c, t))
                                             /\ c[t] \in 0 .. N - rank[t]
           K == {k \in 0 .. N : \E c \in [Task -> 0 .. N] : Solves(c, k)}
<1>1. \A t \in Task : rank[t] \in 1 .. N
  BY DEF Numbering
<1>2. 0 \in K
  <2>1. Top(0) = {}
    BY <1>1
  <2> DEFINE z == [t \in Task |-> 0]
  <2>2. z \in [Task -> 0 .. N] /\ 0 \in 0 .. N
    OBVIOUS
  <2> HIDE DEF z
  <2>3. Solves(z, 0)
    <3> HIDE DEF Top
    <3> QED
      BY <2>1
  <2> HIDE DEF Solves
  <2> QED
    BY <2>2, <2>3
<1>3. \E k \in K : \A j \in K : j <= k
  <2>1. IsFiniteSet(0 .. N)
    BY FS_Interval
  <2>2. K \subseteq 0 .. N
    OBVIOUS
  <2>3. IsFiniteSet(K)
    BY <2>1, <2>2, FS_Subset
  <2> DEFINE f == [j \in K |-> j]
  <2>4. \A j \in K : f[j] = j /\ f[j] \in Int
    BY <2>2
  <2> HIDE DEF f, K
  <2>5. \E j \in K : \A x \in K : f[x] <= f[j]
    BY <1>2, <2>3, <2>4, GreatestOf
  <2> QED
    BY <2>4, <2>5
<1> HIDE DEF K
<1>8. PICK k \in K : \A j \in K : j <= k
  BY <1>3
<1> USE DEF K
<1>4. PICK c \in [Task -> 0 .. N] : Solves(c, k)
  OBVIOUS
<1>5. k \in 0 .. N
  OBVIOUS
<1>6. CASE k = N
  <2>1. Top(k) = Task
    BY <1>1, <1>6
  <2>2. \A t \in Task : c[t] = Longest(Above(c, t))
    BY <1>4, <2>1
  <2>3. c = [t \in Task |-> Longest(Above(c, t))]
    BY <2>2
  <2> QED
    BY <2>3
<1>7. CASE k # N
  <2> DEFINE b == [t \in Task |-> IF t \in Top(k) THEN c[t] ELSE Longest(Above(c, t))]
             e == [t \in Task |-> IF t \in Top(k + 1) THEN b[t] ELSE 0]
  <2>1. k + 1 \in 0 .. N
    BY <1>5, <1>7
  <2>2. ASSUME NEW t \in Top(k + 1)
        PROVE  /\ \A u \in Task : rank[t] < rank[u] => u \in Top(k)
               /\ Longest(Above(c, t)) \in 0 .. N - rank[t]
               /\ e[t] = Longest(Above(c, t))
    <3>1. t \in Task /\ rank[t] > N - (k + 1)
      OBVIOUS
    <3>2. \A u \in Task : rank[t] < rank[u] => u \in Top(k)
      BY <1>1, <1>5, <3>1
    <3>3. \A u \in Task : rank[t] < rank[u] => c[u] \in 0 .. N - rank[u]
      BY <1>4, <3>2
    <3>4. Longest(Above(c, t)) \in 0 .. N - rank[t]
      BY <3>1, <3>3, ChainStep
    <3>5. t \in Top(k) => c[t] = Longest(Above(c, t))
      BY <1>4
    <3> QED
      BY <3>1, <3>2, <3>4, <3>5
  <2>3. ASSUME NEW t \in Top(k + 1)  PROVE Above(e, t) = Above(c, t)
    <3>1. ASSUME NEW u \in waitingFor[t]  PROVE e[u] = c[u]
      <4>1. u \in Task /\ rank[t] < rank[u]
        BY DEF WaitEdges, Numbering
      <4>2. u \in Top(k)
        BY <2>2, <4>1
      <4>3. u \in Top(k + 1)
        BY <1>1, <1>5, <4>1, <4>2
      <4> QED
        BY <4>1, <4>2, <4>3
    <3>2. {e[u] + 1 : u \in waitingFor[t]} = {c[u] + 1 : u \in waitingFor[t]}
      <4> HIDE DEF e
      <4> QED
        BY <3>1
    <3> HIDE DEF e
    <3> QED
      BY <3>2 DEF Above
  <2>4. ASSUME NEW t \in Task  PROVE e[t] \in 0 .. N
    <3>1. CASE t \in Top(k + 1)
      <4>1. e[t] \in 0 .. N - rank[t]
        BY <2>2, <3>1
      <4> QED
        BY <1>1, <4>1
    <3>2. CASE t \notin Top(k + 1)
      BY <3>2
    <3> QED
      BY <3>1, <3>2
  <2>5. e \in [Task -> 0 .. N]
    BY <2>4
  <2> HIDE DEF b, e
  <2>6. Solves(e, k + 1)
    BY <2>2, <2>3
  <2>7. k + 1 \in K
    BY <2>1, <2>5, <2>6
  <2> QED
    BY <1>8, <1>5, <2>7
<1> QED
  BY <1>6, <1>7

LEMMA ChainBound ==
  ASSUME WaitEdges, NEW t \in Task
  PROVE  Chain[t] \in 0 .. Cardinality(Task)
<1> DEFINE N == Cardinality(Task)
<1>1. N \in Nat
  BY TaskAssumption, FS_CardinalityType
<1>2. PICK rank : Numbering(rank)
  BY AcyclicAssumption DEF Numbering
<1>3. Chain = [u \in Task |-> Longest(Above(Chain, u))]
  <2>1. Chain = CHOOSE c : c = [u \in Task |-> Longest(Above(c, u))]
    BY DEF Chain, Longest, Above
  <2>2. \E c : c = [u \in Task |-> Longest(Above(c, u))]
    BY <1>1, <1>2, ChainExists
  <2> QED
    BY <2>1, <2>2, Zenon
<1> DEFINE B == {u \in Task : Chain[u] \notin 0 .. N - rank[u]}
<1>4. ASSUME B # {}  PROVE FALSE
  <2>1. IsFiniteSet(B)
    BY TaskAssumption, FS_Subset
  <2>2. \A u \in B : rank[u] \in Int
    BY <1>2 DEF Numbering
  <2>3. PICK u \in B : \A x \in B : rank[x] <= rank[u]
    <3> HIDE DEF B
    <3> QED
      BY <1>4, <2>1, <2>2, GreatestOf
  <2>4. \A x \in Task : rank[u] < rank[x] => Chain[x] \in 0 .. N - rank[x]
    BY <1>1, <1>2, <2>3 DEF Numbering
  <2>5. Longest(Above(Chain, u)) \in 0 .. N - rank[u]
    BY <1>1, <1>2, <2>4, ChainStep
  <2>6. Chain[u] = Longest(Above(Chain, u))
    BY <1>3
  <2> QED
    BY <2>5, <2>6
<1>5. Chain[t] \in 0 .. N - rank[t] /\ rank[t] \in 1 .. N
  BY <1>2, <1>4 DEF Numbering
<1> QED
  BY <1>1, <1>5

-----------------------------------------------------------------------------
(***************************************************************************)
(* The pool: its invariant is proved in PriorityThreadPoolProofs.          *)
(***************************************************************************)
LEMMA SameSizes ==
  /\ \A S : PP!IsFiniteSet(S) <=> IsFiniteSet(S)
  /\ \A S : PP!Cardinality(S) = Cardinality(S)
  /\ \A S : Pool!Cardinality(S) = Cardinality(S)
<1>1. \A S : PP!IsFiniteSet(S) <=> IsFiniteSet(S)
  BY DEF PP!IsFiniteSet, IsFiniteSet
<1>2. \A S : PP!Cardinality(S) = Cardinality(S)
  BY DEF PP!Cardinality, Cardinality, PP!IsFiniteSet, IsFiniteSet
<1>3. \A S : Pool!Cardinality(S) = Cardinality(S)
  BY DEF Pool!Cardinality, Cardinality, Pool!IsFiniteSet, IsFiniteSet
<1> QED
  BY <1>1, <1>2, <1>3

LEMMA TaskCount == Cardinality(Task) \in Nat
BY TaskAssumption, FS_CardinalityType

\* The assumptions of the pool hold.
LEMMA PoolAssumptions ==
  /\ Thread # {} /\ PP!IsFiniteSet(Thread) /\ NoWork \notin Action
  /\ Priority \subseteq Nat /\ 0 \in Priority /\ Priority \subseteq Int
<1>1. 2^16 \in Nat
  OBVIOUS
<1>2. \A c, n \in 0 .. Cardinality(Task) : c * 2^16 + n \in Nat
  <2> DEFINE k == 2^16
  <2>1. k \in Nat
    BY <1>1
  <2> HIDE DEF k
  <2>2. \A c, n \in 0 .. Cardinality(Task) : c * k + n \in Nat
    BY <2>1, TaskCount
  <2> QED
    BY <2>2 DEF k
<1>3. Priority \subseteq Nat
  BY <1>2 DEF Priority
<1>4. 0 \in Priority
  <2>1. 0 \in 0 .. Cardinality(Task) /\ 0 * 2^16 + 0 = 0
    BY TaskCount, <1>1
  <2> QED
    BY <2>1 DEF Priority
<1> QED
  BY <1>3, <1>4, ThreadAssumption, NoWorkAssumption, SameSizes

LEMMA PoolInitInv == Pool!Init => PP!Inv
<1>1. Pool!Init => PP!Init
  BY DEF Pool!Init, PP!Init
<1> QED
  BY <1>1, PoolAssumptions, PP!InitInv

LEMMA PoolNextInv == PP!Inv /\ [Pool!Next]_poolVars => PP!Inv'
<1>1. UNCHANGED poolVars => UNCHANGED PP!poolVars
  BY DEF poolVars, PP!poolVars
<1>2. ASSUME Pool!Next  PROVE PP!Next
  <2>1. Pool!SetNumThreads => PP!SetNumThreads
    BY DEF Pool!SetNumThreads, PP!SetNumThreads
  <2>2. Pool!Wait => PP!Wait
    BY DEF Pool!Wait, PP!Wait
  <2>3. Pool!Join => PP!Join
    BY DEF Pool!Join, PP!Join
  <2>4. Pool!JoinNoNewWork => PP!JoinNoNewWork
    BY DEF Pool!JoinNoNewWork, PP!JoinNoNewWork, Pool!ShutDown, PP!ShutDown
  <2>5. Pool!OwnerWakesSpuriously => PP!OwnerWakesSpuriously
    BY DEF Pool!OwnerWakesSpuriously, PP!OwnerWakesSpuriously
  <2>6. Pool!OwnerNext => PP!OwnerNext
    BY DEF Pool!OwnerNext, PP!OwnerNext, Pool!WaitSleep, PP!WaitSleep, Pool!WaitDone,
           PP!WaitDone, Pool!Joined, PP!Joined, Pool!Idle, PP!Idle, Pool!At, PP!At,
           Pool!ShutDown, PP!ShutDown
  <2>7. ASSUME NEW t \in Thread, Pool!ThreadNext(t)  PROVE PP!ThreadNext(t)
    BY <2>7 DEF Pool!ThreadNext, PP!ThreadNext, Pool!Fetch, PP!Fetch, Pool!Sleep, PP!Sleep,
                Pool!Leave, PP!Leave, Pool!Finish, PP!Finish
  <2>8. ASSUME NEW t \in Thread, Pool!WakeSpuriously(t)  PROVE PP!WakeSpuriously(t)
    BY <2>8 DEF Pool!WakeSpuriously, PP!WakeSpuriously
  <2>9. ASSUME NEW p \in Priority, NEW w \in Action, Pool!Post(p, w)  PROVE PP!Post(p, w)
    <3>1. \A s, e : Pool!Enqueue(s, e) = PP!Enqueue(s, e)
      BY SameSizes DEF Pool!Enqueue, PP!Enqueue
    <3>2. Pool!NotifyWork => PP!NotifyWork
      BY DEF Pool!NotifyWork, PP!NotifyWork, Pool!At, PP!At
    <3> QED
      BY <2>9, <3>1, <3>2 DEF Pool!Post, PP!Post
  <2>10. ASSUME NEW p \in Priority, NEW w \in Action,
                Pool!OwnerPosts(p, w) \/ \E t \in Thread : Pool!WorkPosts(t, p, w)
         PROVE  PP!OwnerPosts(p, w) \/ \E t \in Thread : PP!WorkPosts(t, p, w)
    BY <2>9, <2>10 DEF Pool!OwnerPosts, PP!OwnerPosts, Pool!WorkPosts, PP!WorkPosts
  <2> QED
    BY <1>2, <2>1, <2>2, <2>3, <2>4, <2>5, <2>6, <2>7, <2>8, <2>10 DEF Pool!Next, PP!Next
<1>3. PP!Inv /\ [PP!Next]_PP!poolVars => PP!Inv'
  BY PoolAssumptions, PP!NextInv
<1> QED
  BY <1>1, <1>2, <1>3

\* What is used of it here.
Entry == [prio : Priority, work : Action]

PoolInv ==
  /\ pending \in Seq(Entry)
  /\ pc \in [Thread -> {"absent", "fetch", "asleep", "run", "exited"}]
  /\ work \in [Thread -> Action \cup {NoWork}]
  /\ posted \subseteq Action
  /\ main \in {"new", "open"} => ~shutdown
  /\ main \in {"test", "asleep"} => (shutdown <=> call = "close")
  /\ shutdown /\ call = "join" => pending = <<>> /\ \A t \in Thread : pc[t] # "run"
  /\ main = "closed" => pending = <<>> /\ \A t \in Thread : pc[t] # "run"
  /\ main = "new" => \A t \in Thread : pc[t] = "absent"

LEMMA PoolFacts == PP!Inv => PoolInv
BY DEF PP!Inv, PP!TypeOK, PP!NothingAfterShutdown, PP!ShutdownKnown, PP!Idle, PP!At, PP!Item,
       PoolInv, Entry

-----------------------------------------------------------------------------
(***************************************************************************)
(* The queue of the pool as a set of work items.                           *)
(***************************************************************************)
Each == \A i, j \in DOMAIN pending : i # j => pending[i].work # pending[j].work

\* Behind all that is as urgent, wherever that is, is one place.
LEMMA EnqueueAdds ==
  ASSUME pending \in Seq(Entry), NEW e \in Entry, pending' = Pool!Enqueue(pending, e)
  PROVE  /\ PendingWork' = PendingWork \cup {e.work}
         /\ Each /\ e.work \notin PendingWork => Each'
<1> DEFINE n == Len(pending)
           D == {j \in DOMAIN pending : pending[j].prio >= e.prio}
           k == Cardinality(D)
<1>1. n \in Nat /\ DOMAIN pending = 1 .. n
  BY LenProperties
<1>2. k \in 0 .. n
  <2>1. IsFiniteSet(1 .. n) /\ Cardinality(1 .. n) = n
    BY <1>1, FS_Interval
  <2>2. D \subseteq 1 .. n
    BY <1>1
  <2> HIDE DEF D, n
  <2>3. IsFiniteSet(D) /\ Cardinality(D) <= Cardinality(1 .. n) /\ Cardinality(D) \in Nat
    BY <2>1, <2>2, FS_Subset, FS_CardinalityType
  <2>4. Cardinality(D) \in 0 .. n
    BY <1>1, <2>1, <2>3
  <2> QED
    BY <2>4
<1>3. pending' = [j \in 1 .. n + 1 |->
                    IF j <= k THEN pending[j] ELSE IF j = k + 1 THEN e ELSE pending[j - 1]]
  BY SameSizes DEF Pool!Enqueue
<1> HIDE DEF n, k
<1>4. /\ DOMAIN pending' = 1 .. n + 1
      /\ \A j \in 1 .. n + 1 :
           /\ j <= k => j \in 1 .. n /\ pending'[j] = pending[j]
           /\ j = k + 1 => pending'[j] = e
           /\ k + 1 < j => j - 1 \in 1 .. n /\ pending'[j] = pending[j - 1]
  BY <1>1, <1>2, <1>3
<1>5. k + 1 \in 1 .. n + 1 /\ pending'[k + 1] = e
  BY <1>1, <1>2, <1>4
<1>6. \A j \in 1 .. n : \E i \in 1 .. n + 1 : pending'[i] = pending[j]
  <2> SUFFICES ASSUME NEW j \in 1 .. n  PROVE \E i \in 1 .. n + 1 : pending'[i] = pending[j]
    OBVIOUS
  <2>1. CASE j <= k
    BY <1>1, <1>2, <1>4, <2>1
  <2>2. CASE j > k
    <3>1. j + 1 \in 1 .. n + 1 /\ k + 1 < j + 1 /\ j + 1 - 1 = j
      BY <1>1, <1>2, <2>2
    <3> QED
      BY <1>4, <3>1
  <2> QED
    BY <1>1, <1>2, <2>1, <2>2
<1>7. \A j \in 1 .. n + 1 : pending'[j] = e \/ \E i \in 1 .. n : pending'[j] = pending[i]
  BY <1>1, <1>2, <1>4
<1>8. PendingWork' = PendingWork \cup {e.work}
  <2>1. \A w : w \in PendingWork <=> \E j \in 1 .. n : w = pending[j].work
    BY <1>1 DEF PendingWork
  <2>2. \A w : w \in PendingWork' <=> \E j \in 1 .. n + 1 : w = pending'[j].work
    BY <1>4 DEF PendingWork
  <2>3. ASSUME NEW w, w \in PendingWork'  PROVE w \in PendingWork \cup {e.work}
    BY <2>1, <2>2, <2>3, <1>7
  <2>4. ASSUME NEW w, w \in PendingWork \cup {e.work}  PROVE w \in PendingWork'
    BY <2>1, <2>2, <2>4, <1>5, <1>6
  <2> QED
    BY <2>3, <2>4
<1>9. ASSUME Each, e.work \notin PendingWork  PROVE Each'
  <2>1. \A j \in 1 .. n : pending[j].work # e.work
    BY <1>1, <1>9 DEF PendingWork
  <2>2. \A i, j \in 1 .. n : i # j => pending[i].work # pending[j].work
    BY <1>1, <1>9 DEF Each
  <2> DEFINE At(j) == IF j <= k THEN j ELSE j - 1
  <2>3. \A j \in 1 .. n + 1 : j # k + 1 => At(j) \in 1 .. n /\ pending'[j] = pending[At(j)]
    BY <1>1, <1>2, <1>4
  <2>4. \A i, j \in 1 .. n + 1 : i # j /\ i # k + 1 /\ j # k + 1 => At(i) # At(j)
    BY <1>1, <1>2
  <2> HIDE DEF At
  <2>5. \A i, j \in 1 .. n + 1 : i # j => pending'[i].work # pending'[j].work
    BY <1>5, <2>1, <2>2, <2>3, <2>4
  <2> QED
    BY <1>4, <2>5 DEF Each
<1> QED
  BY <1>8, <1>9

LEMMA TailRemoves ==
  ASSUME pending \in Seq(Entry), pending # <<>>, pending' = Tail(pending), Each
  PROVE  /\ Head(pending).work \in PendingWork
         /\ PendingWork' = PendingWork \ {Head(pending).work}
         /\ Each'
<1> DEFINE n == Len(pending)
<1>1. /\ n \in Nat /\ n >= 1 /\ DOMAIN pending = 1 .. n /\ Head(pending) = pending[1]
      /\ pending' \in Seq(Entry) /\ Len(pending') = n - 1
      /\ \A i \in 1 .. n - 1 : pending'[i] = pending[i + 1]
  BY LenProperties, HeadTailProperties, EmptySeq
<1>2. DOMAIN pending' = 1 .. n - 1
  BY <1>1, LenProperties
<1> HIDE DEF n
<1>3. \A i \in 1 .. n - 1 : i + 1 \in 1 .. n /\ i + 1 # 1
  BY <1>1
<1>4. \A j \in 1 .. n : j = 1 \/ (j - 1 \in 1 .. n - 1 /\ j - 1 + 1 = j)
  BY <1>1
<1>5. 1 \in 1 .. n
  BY <1>1
<1>6. Each'
  <2>1. \A i, j \in 1 .. n - 1 : i # j => i + 1 # j + 1
    BY <1>1
  <2> QED
    BY <1>1, <1>2, <1>3, <2>1 DEF Each
<1>7. \A w : w \in PendingWork <=> \E j \in 1 .. n : w = pending[j].work
  BY <1>1 DEF PendingWork
<1>8. \A w : w \in PendingWork' <=> \E j \in 1 .. n - 1 : w = pending'[j].work
  BY <1>2 DEF PendingWork
<1>9. ASSUME NEW w, w \in PendingWork'  PROVE w \in PendingWork /\ w # Head(pending).work
  <2>1. PICK j \in 1 .. n - 1 : w = pending'[j].work
    BY <1>8, <1>9
  <2>2. w = pending[j + 1].work /\ j + 1 \in 1 .. n /\ j + 1 # 1
    BY <1>1, <1>3, <2>1
  <2>3. pending[j + 1].work # pending[1].work
    BY <1>1, <1>5, <2>2 DEF Each
  <2> QED
    BY <1>1, <1>7, <2>2, <2>3
<1>10. ASSUME NEW w, w \in PendingWork, w # Head(pending).work  PROVE w \in PendingWork'
  <2>1. PICK j \in 1 .. n : w = pending[j].work
    BY <1>7, <1>10
  <2>2. j - 1 \in 1 .. n - 1 /\ j - 1 + 1 = j
    BY <1>1, <1>4, <1>10, <2>1
  <2>3. w = pending'[j - 1].work
    BY <1>1, <2>1, <2>2
  <2> QED
    BY <1>8, <2>2, <2>3
<1>11. Head(pending).work \in PendingWork
  BY <1>1, <1>5, <1>7
<1> QED
  BY <1>6, <1>9, <1>10, <1>11

-----------------------------------------------------------------------------
(***************************************************************************)
(* The inductive invariant.                                                *)
(***************************************************************************)
Labels == {"idle", "work", "augment", "release", "post", "notify", "schedule", "enqueue"}
Holder == Thread \cup {Owner}
Held   == UNION {hand[t] : t \in Holder}

\* The actions somebody is to post, or has posted.
Asked == Held \cup posted

\* An action that is counted, and ...
Live(a) ==
  \/ a \in PendingWork
  \/ a \in hand[Owner]
  \/ \E t \in Thread : step[t] \in {"augment", "post", "enqueue"} /\ a \in hand[t]
  \/ \E t \in Thread : step[t] \in {"work", "augment"} /\ a = work[t]

\* ... a task between its last decrement and the increment for its
\* continuations, and a complete task that has still to tell another one.
Releasing(u)  == \E t \in Thread : step[t] = "release" /\ work[t].task = u
Telling(d, u) == \E t \in Thread : /\ step[t] \in {"notify", "schedule", "enqueue"}
                                   /\ work[t].task = d /\ u \in tell[t]

Started == stage \in {"seed", "join"}

TypeInv ==
  /\ stage \in {"build", "seed", "join", "returned"}
  /\ waitingFor \in [Task -> SUBSET Task]
  /\ counts \in [Task -> Nat]
  /\ priority \in [Task -> Priority]
  /\ roots \subseteq Task
  /\ waitCount \in [Task -> Int]
  /\ conts \in [Task -> SUBSET Added]
  /\ step \in [Thread -> Labels]
  /\ hand \in [Holder -> SUBSET Action]
  /\ tell \in [Thread -> SUBSET Task]
  /\ \A t \in Thread : /\ step[t] = "idle" <=> work[t] = NoWork
                       /\ step[t] = "idle" <=> pc[t] # "run"

StageInv ==
  /\ stage = "build" =>
       /\ posted = {} /\ Held = {} /\ \A t \in Thread : step[t] = "idle"
       /\ \A u \in Task : conts[u] = {}
       /\ \A u \in Task : counts[u] = Cardinality({d \in Task : u \in waitingFor[d]})
       /\ main \in {"new", "open"}
  /\ stage = "seed" => main = "open"
  /\ stage # "seed" => roots = {} /\ hand[Owner] = {}
  /\ stage = "join" => call = "join" /\ main \notin {"new", "open"}
  /\ stage = "returned" => main = "closed" /\ \A u \in Task : conts[u] = {}
  /\ WaitEdges

\* Every action is at one place.
PlaceInv ==
  /\ PendingWork \subseteq posted
  /\ Each
  /\ \A t \in Thread : step[t] # "idle" => work[t] \in posted \ PendingWork
  /\ \A t, k \in Thread : t # k /\ step[t] # "idle" => work[t] # work[k]
  /\ \A t \in Holder : hand[t] \cap posted = {}
  /\ \A t, k \in Holder : t # k => hand[t] \cap hand[k] = {}
  /\ \A u \in Task : \A a \in conts[u] : a.task = u /\ a \notin Asked

\* What a thread holds at which place.
HandInv ==
  /\ \A t \in Thread :
       /\ IsFiniteSet(hand[t])
       /\ step[t] \in {"idle", "work", "notify"} => hand[t] = {}
       /\ step[t] = "augment" => \E a \in Added : hand[t] = {a}
       /\ step[t] \in {"augment", "release", "post"} =>
            \A a \in hand[t] : a \in Added /\ a.task = work[t].task
       /\ step[t] \in {"schedule", "enqueue"} => \E u \in Task : hand[t] = {Body[u]}
       /\ step[t] \notin {"notify", "schedule", "enqueue"} => tell[t] = {}
       /\ tell[t] # {} => tell[t] \subseteq waitingFor[work[t].task]
  /\ hand[Owner] # {} => \E u \in Task : hand[Owner] = {Body[u]}
  /\ \A u \in Task : IsFiniteSet(conts[u])

\* A task is scheduled when it waits for nothing, and asked for more only
\* then; a continuation waits for an action of its task.
BodyInv ==
  Started =>
  \A u \in Task :
    /\ Unmet(u) = {} <=> u \in roots \/ Body[u] \in Asked
    /\ u \in roots => Body[u] \notin Asked
    /\ \A a \in Added : a.task = u /\ a \in Asked \cup conts[u] => Body[u] \in posted
    /\ conts[u] # {} => Counted(u) # {}

\* One thread brings a count to zero: it releases the continuations, or it
\* tells the waiting tasks.
OverInv ==
  \A t \in Thread : \A u \in Task :
    work[t].task = u =>
      /\ step[t] = "release" =>
           /\ hand[t] # {} /\ Counted(u) = {}
           /\ \A k \in Thread : k # t /\ step[k] = "release" => work[k].task # u
      /\ tell[t] # {} =>
           /\ Complete(u)
           /\ \A k \in Thread : k # t /\ tell[k] # {} => work[k].task # u

CountInv ==
  /\ Started =>
       \A u \in Task : /\ IsFiniteSet(Counted(u))
                       /\ waitCount[u] = Cardinality(Unmet(u)) + Cardinality(Counted(u))
  /\ ~Started => \A u \in Task : waitCount[u] = 0

IInv == PP!Inv /\ TypeInv /\ StageInv /\ PlaceInv /\ HandInv /\ BodyInv /\ OverInv /\ CountInv

-----------------------------------------------------------------------------
(***************************************************************************)
(* What the invariant says of the actions and of a thread that runs one.   *)
(***************************************************************************)
LEMMA ActionFacts ==
  /\ \A a \in Action : a.task \in Task /\ (a \in Added \/ a = Body[a.task])
  /\ \A u \in Task : Body[u] \in Action /\ Body[u].task = u /\ Body[u] \notin Added
  /\ Added \subseteq Action
  /\ \A a \in Added : a.task \in Task /\ a \in Action
<1>1. \A u \in Task : Body[u].task = u /\ Body[u].name = "body"
  BY DEF Body
<1> QED
  BY <1>1, AddedAssumption DEF Action

LEMMA Members ==
  \A u, a : a \in Counted(u) <=> Live(a) /\ a.task = u
<1> DEFINE Posting == UNION {hand[t] : t \in {k \in Thread : step[k] \in {"augment", "post", "enqueue"}}}
           Running == {work[t] : t \in {k \in Thread : step[k] \in {"work", "augment"}}}
<1>1. \A a : a \in Posting <=>
               \E t \in Thread : step[t] \in {"augment", "post", "enqueue"} /\ a \in hand[t]
  OBVIOUS
<1>2. \A a : a \in Running <=>
               \E t \in Thread : step[t] \in {"work", "augment"} /\ a = work[t]
  OBVIOUS
<1>3. \A u : Counted(u) =
               {a \in PendingWork \cup hand[Owner] \cup Posting \cup Running : a.task = u}
  BY DEF Counted
<1> HIDE DEF Posting, Running
<1>4. \A u, a : a \in Counted(u) <=> /\ a.task = u
                                    /\ \/ a \in PendingWork \/ a \in hand[Owner]
                                       \/ a \in Posting \/ a \in Running
  BY <1>3
<1>5. \A a : Live(a) <=> \/ a \in PendingWork \/ a \in hand[Owner]
                          \/ a \in Posting \/ a \in Running
  BY <1>1, <1>2, Zenon DEF Live
<1> QED
  BY <1>4, <1>5

LEMMA MembersNext ==
  \A u, a : a \in Counted(u)' <=> Live(a)' /\ a.task = u
<1> DEFINE Posting == UNION {hand'[t] : t \in {k \in Thread : step'[k] \in {"augment", "post", "enqueue"}}}
           Running == {work'[t] : t \in {k \in Thread : step'[k] \in {"work", "augment"}}}
<1>1. \A a : a \in Posting <=>
               \E t \in Thread : step'[t] \in {"augment", "post", "enqueue"} /\ a \in hand'[t]
  OBVIOUS
<1>2. \A a : a \in Running <=>
               \E t \in Thread : step'[t] \in {"work", "augment"} /\ a = work'[t]
  OBVIOUS
<1>3. \A u : Counted(u)' =
               {a \in PendingWork' \cup hand'[Owner] \cup Posting \cup Running : a.task = u}
  BY DEF Counted
<1> HIDE DEF Posting, Running
<1>4. \A u, a : a \in Counted(u)' <=> /\ a.task = u
                                    /\ \/ a \in PendingWork' \/ a \in hand'[Owner]
                                       \/ a \in Posting \/ a \in Running
  BY <1>3
<1>5. \A a : Live(a)' <=> \/ a \in PendingWork' \/ a \in hand'[Owner]
                          \/ a \in Posting \/ a \in Running
  BY <1>1, <1>2, Zenon DEF Live
<1> QED
  BY <1>4, <1>5

LEMMA SameCounted ==
  ASSUME \A a : Live(a)' <=> Live(a)
  PROVE  \A u : Counted(u)' = Counted(u)
<1> TAKE u
<1>1. \A a : a \in Counted(u)' <=> a \in Counted(u)
  BY Members, MembersNext
<1> DEFINE C == Counted(u)
           D == Counted(u)'
<1>2. \A a : a \in D <=> a \in C
  BY <1>1
<1> HIDE DEF C, D
<1>3. D = C
  BY <1>2
<1> QED
  BY <1>3 DEF C, D

LEMMA CompleteIs ==
  \A u : Complete(u) <=>
           /\ Body[u] \in posted /\ conts[u] = {} /\ Counted(u) = {}
           /\ ~Releasing(u)
BY DEF Complete, Releasing

LEMMA CompleteNext ==
  \A u : Complete(u)' <=>
           /\ Body[u] \in posted' /\ conts'[u] = {} /\ Counted(u)' = {}
           /\ ~Releasing(u)'
BY DEF Complete, Releasing, Counted

LEMMA UnmetIs ==
  \A u : Unmet(u) = {d \in Task : u \in waitingFor[d] /\ (~Complete(d) \/ Telling(d, u))}
BY DEF Unmet, Telling

LEMMA UnmetNext ==
  \A u : Unmet(u)' = {d \in Task : u \in waitingFor'[d] /\ (~Complete(d)' \/ Telling(d, u)')}
BY DEF Unmet, Telling, Complete, Counted

LEMMA HeldIs ==
  \A a : a \in Held <=> \E t \in Holder : a \in hand[t]
BY DEF Held

LEMMA HeldNext ==
  \A a : a \in Held' <=> \E t \in Holder : a \in hand'[t]
BY DEF Held

\* A live action is of a task, and was asked for.
LEMMA LiveFacts ==
  ASSUME IInv, NEW a, Live(a)
  PROVE  a \in Action /\ a.task \in Task /\ a \in Asked
<1>1. PoolInv /\ TypeInv /\ PlaceInv
  BY PoolFacts DEF IInv
<1>2. a \in Asked
  <2>1. CASE a \in PendingWork
    BY <1>1, <2>1 DEF PlaceInv, Asked
  <2>2. CASE \E t \in Holder : a \in hand[t]
    BY <2>2, HeldIs DEF Asked
  <2>3. CASE \E t \in Thread : step[t] \in {"work", "augment"} /\ a = work[t]
    BY <1>1, <2>3 DEF PlaceInv, Asked
  <2> QED
    BY <2>1, <2>2, <2>3 DEF Live, Holder
<1>3. Asked \subseteq Action
  BY <1>1, HeldIs DEF Asked, PoolInv, TypeInv
<1> QED
  BY <1>2, <1>3, ActionFacts

\* A thread that is within a work item runs in the pool, and so does run().
LEMMA Busy ==
  ASSUME IInv, NEW t \in Thread, step[t] # "idle"
  PROVE  /\ Started /\ pc[t] = "run" /\ ~shutdown
         /\ work[t] \in Action /\ work[t].task \in Task
         /\ work[t] \in posted /\ work[t] \notin PendingWork
         /\ Body[work[t].task] \in posted
<1>1. PoolInv /\ TypeInv /\ StageInv /\ PlaceInv /\ BodyInv
  BY PoolFacts DEF IInv
<1>2. pc[t] = "run" /\ work[t] # NoWork /\ work[t] \in Action
  BY <1>1 DEF PoolInv, TypeInv
<1>3. Started
  BY <1>1, <1>2 DEF PoolInv, TypeInv, StageInv, Started
<1>4. ~shutdown
  BY <1>1, <1>2, <1>3 DEF PoolInv, StageInv, Started
<1>5. work[t] \in posted /\ work[t] \notin PendingWork
  BY <1>1 DEF PlaceInv
<1>6. work[t].task \in Task /\ (work[t] \in Added \/ work[t] = Body[work[t].task])
  BY <1>2, ActionFacts
<1>7. Body[work[t].task] \in posted
  BY <1>1, <1>3, <1>5, <1>6 DEF BodyInv, Asked
<1> QED
  BY <1>2, <1>3, <1>4, <1>5, <1>6, <1>7

\* As long as a task has not been told of all it waits for, none of its
\* actions counts, and the task is not complete.
LEMMA NotYet ==
  ASSUME IInv, Started, NEW u \in Task, Unmet(u) # {}
  PROVE  Body[u] \notin Asked /\ Counted(u) = {} /\ ~Complete(u)
<1>1. BodyInv /\ Body[u] \notin Asked
  BY DEF IInv, BodyInv
<1>2. ASSUME NEW a \in Counted(u)  PROVE FALSE
  <2>1. Live(a) /\ a.task = u
    BY Members
  <2>2. a \in Action /\ a \in Asked
    BY <2>1, LiveFacts
  <2>3. a \in Added
    BY <1>1, <2>1, <2>2, ActionFacts
  <2> QED
    BY <1>1, <2>1, <2>2, <2>3 DEF BodyInv, Asked
<1>3. ~Complete(u)
  BY <1>1, CompleteIs DEF Asked
<1> QED
  BY <1>1, <1>2, <1>3

LEMMA UnmetFinite ==
  ASSUME NEW u
  PROVE  IsFiniteSet(Unmet(u)) /\ Cardinality(Unmet(u)) \in Nat /\
         (Cardinality(Unmet(u)) = 0 <=> Unmet(u) = {})
<1>1. Unmet(u) \subseteq Task
  BY DEF Unmet
<1>2. IsFiniteSet(Unmet(u))
  BY <1>1, TaskAssumption, FS_Subset
<1> QED
  BY <1>2, FS_CardinalityType, FS_EmptySet

\* The tasks that tell and the tasks that are complete decide what is unmet.
LEMMA SameUnmet ==
  ASSUME waitingFor' = waitingFor,
         \A d \in Task : Complete(d)' <=> Complete(d),
         \A d, u \in Task : Telling(d, u)' <=> Telling(d, u)
  PROVE  \A u \in Task : Unmet(u)' = Unmet(u)
BY UnmetIs, UnmetNext

-----------------------------------------------------------------------------
(***************************************************************************)
(* What steps of one kind keep.                                            *)
(***************************************************************************)
LEMMA StageKeep ==
  ASSUME IInv, Started, stage' = stage, waitingFor' = waitingFor, roots' = roots,
         hand'[Owner] = hand[Owner], call' = call,
         main' = main \/ (main = "asleep" /\ main' = "test")
  PROVE  StageInv'
<1>1. WaitEdges'
  BY DEF IInv, StageInv, WaitEdges
<1> QED
  BY <1>1 DEF IInv, StageInv, Started

\* Someone takes new actions in hand, and nothing is posted.
LEMMA PlaceHand ==
  ASSUME IInv, NEW x \in Holder, NEW H, hand[x] = {}, hand' = [hand EXCEPT ![x] = H],
         H \cap Asked = {}, posted' = posted, pending' = pending, work' = work,
         \A k \in Thread : step'[k] # "idle" => step[k] # "idle",
         \A u \in Task : \A a \in conts'[u] : a.task = u /\ a \notin Asked \cup H
  PROVE  PlaceInv' /\ Held' = Held \cup H /\ Asked' = Asked \cup H
<1>1. PlaceInv /\ hand \in [Holder -> SUBSET Action]
  BY DEF IInv, TypeInv
<1>2. \A k \in Holder : hand'[k] = IF k = x THEN H ELSE hand[k]
  BY <1>1
<1>3. Held' = Held \cup H
  BY <1>2, HeldIs, HeldNext
<1>4. Asked' = Asked \cup H
  BY <1>3 DEF Asked
<1>5. PendingWork' = PendingWork /\ (Each => Each')
  BY DEF PendingWork, Each
<1>6. \A k \in Holder : hand[k] \cap H = {}
  BY HeldIs DEF Asked
<1>7. \A k \in Holder : hand'[k] \cap posted' = {}
  BY <1>1, <1>2 DEF PlaceInv, Asked
<1>8. \A j, k \in Holder : j # k => hand'[j] \cap hand'[k] = {}
  BY <1>1, <1>2, <1>6 DEF PlaceInv
<1> QED
  BY <1>1, <1>3, <1>4, <1>5, <1>7, <1>8 DEF PlaceInv

\* Nobody takes or posts anything.
LEMMA PlaceKeep ==
  ASSUME IInv, hand' = hand, posted' = posted, pending' = pending, work' = work,
         \A k \in Thread : step'[k] # "idle" => step[k] # "idle",
         \A u \in Task : \A a \in conts'[u] : a.task = u /\ a \notin Asked
  PROVE  PlaceInv' /\ Held' = Held /\ Asked' = Asked
<1>1. PendingWork' = PendingWork /\ (Each => Each') /\ Held' = Held
  BY DEF PendingWork, Each, Held
<1> QED
  BY <1>1 DEF IInv, PlaceInv, Asked

\* An action goes from the hand of a thread or of the owner to the pool.
LEMMA PlacePost ==
  ASSUME IInv, NEW x \in Holder, NEW a, a \in hand[x], hand' = [hand EXCEPT ![x] = @ \ {a}],
         NEW p \in Priority,
         pending' = Pool!Enqueue(pending, [prio |-> p, work |-> a]),
         posted' = posted \cup {a}, work' = work, conts' = conts,
         \A k \in Thread : step'[k] # "idle" => step[k] # "idle"
  PROVE  PlaceInv' /\ Asked' = Asked /\ PendingWork' = PendingWork \cup {a}
<1>1. PlaceInv /\ TypeInv /\ PoolInv
  BY PoolFacts DEF IInv
<1>2. a \in Action
  BY <1>1 DEF TypeInv
<1>3. [prio |-> p, work |-> a] \in Entry
  BY <1>2 DEF Entry
<1>4. a \notin posted
  BY <1>1 DEF PlaceInv
<1>5. PendingWork' = PendingWork \cup {a} /\ Each'
  <2> DEFINE e == [prio |-> p, work |-> a]
  <2>1. e \in Entry /\ e.work = a /\ pending' = Pool!Enqueue(pending, e)
    BY <1>3
  <2>2. a \notin PendingWork /\ Each /\ pending \in Seq(Entry)
    BY <1>1, <1>4 DEF PlaceInv, PoolInv
  <2> HIDE DEF e
  <2> QED
    BY <2>1, <2>2, EnqueueAdds
<1>6. \A k \in Holder : hand'[k] = IF k = x THEN hand[x] \ {a} ELSE hand[k]
  BY <1>1 DEF TypeInv
<1>7. \A k \in Holder : k # x => a \notin hand[k]
  BY <1>1 DEF PlaceInv
<1>8. Asked' = Asked
  <2>1. \A b : b \in Held' <=> b \in Held /\ b # a
    BY <1>6, <1>7, HeldIs, HeldNext
  <2>2. a \in Held
    BY HeldIs
  <2> QED
    BY <2>1, <2>2 DEF Asked
<1>9. \A k \in Holder : hand'[k] \cap posted' = {}
  BY <1>1, <1>6, <1>7 DEF PlaceInv
<1>10. \A j, k \in Holder : j # k => hand'[j] \cap hand'[k] = {}
  BY <1>1, <1>6 DEF PlaceInv
<1>11. \A t \in Thread : step'[t] # "idle" => work'[t] \in posted' \ PendingWork'
  BY <1>1, <1>4, <1>5 DEF PlaceInv
<1>12. \A t, k \in Thread : t # k /\ step'[t] # "idle" => work'[t] # work'[k]
  BY <1>1 DEF PlaceInv
<1>13. \A u \in Task : \A b \in conts'[u] : b.task = u /\ b \notin Asked'
  BY <1>1, <1>8 DEF PlaceInv
<1>14. PendingWork' \subseteq posted'
  BY <1>1, <1>5 DEF PlaceInv
<1> QED
  BY <1>5, <1>8, <1>9, <1>10, <1>11, <1>12, <1>13, <1>14 DEF PlaceInv

\* Nothing is counted, told or completed.
LEMMA Quiet ==
  ASSUME IInv, Started, Started', roots' = roots, conts' = conts, waitCount' = waitCount,
         waitingFor' = waitingFor, Asked' = Asked, posted \subseteq posted',
         \A u \in Task : Counted(u)' = Counted(u),
         \A u \in Task : Complete(u)' <=> Complete(u),
         \A d, u \in Task : Telling(d, u)' <=> Telling(d, u)
  PROVE  BodyInv' /\ CountInv'
<1>1. \A u \in Task : Unmet(u)' = Unmet(u)
  BY SameUnmet
<1>2. CountInv'
  BY <1>1 DEF IInv, CountInv
<1>3. BodyInv'
  <2> SUFFICES ASSUME NEW u \in Task
               PROVE  /\ Unmet(u)' = {} <=> u \in roots' \/ Body[u] \in Asked'
                      /\ u \in roots' => Body[u] \notin Asked'
                      /\ \A a \in Added : a.task = u /\ a \in Asked' \cup conts'[u]
                                            => Body[u] \in posted'
                      /\ conts'[u] # {} => Counted(u)' # {}
    BY DEF BodyInv
  <2> QED
    BY <1>1 DEF IInv, BodyInv
<1> QED
  BY <1>2, <1>3

\* The threads that release or tell are the same, and so is what they need.
LEMMA QuietOver ==
  ASSUME IInv, tell' = tell,
         \A k \in Thread : step'[k] = "release" =>
           step[k] = "release" /\ hand'[k] = hand[k] /\ work'[k] = work[k],
         \A k \in Thread : tell[k] # {} => work'[k] = work[k],
         \A u \in Task : Counted(u) = {} => Counted(u)' = {},
         \A u \in Task : Complete(u) => Complete(u)'
  PROVE  OverInv'
<1>1. OverInv
  BY DEF IInv
<1> SUFFICES ASSUME NEW t \in Thread, NEW u \in Task, work'[t].task = u
             PROVE  /\ step'[t] = "release" =>
                         /\ hand'[t] # {} /\ Counted(u)' = {}
                         /\ \A k \in Thread : k # t /\ step'[k] = "release" => work'[k].task # u
                    /\ tell'[t] # {} =>
                         /\ Complete(u)'
                         /\ \A k \in Thread : k # t /\ tell'[k] # {} => work'[k].task # u
  BY DEF OverInv
<1> QED
  BY <1>1 DEF OverInv

\* One count changes by as much as the number of actions that are counted.
LEMMA CountShift ==
  ASSUME IInv, Started, Started', NEW v \in Task, NEW n \in Int, AddCount(v, n),
         \A u \in Task : Unmet(u)' = Unmet(u),
         \A u \in Task : u # v => Counted(u)' = Counted(u),
         IsFiniteSet(Counted(v)'),
         Cardinality(Counted(v)') = Cardinality(Counted(v)) + n
  PROVE  CountInv'
<1>1. TypeInv /\ CountInv
  BY DEF IInv
<1>2. \A u \in Task : waitCount'[u] = IF u = v THEN waitCount[u] + n ELSE waitCount[u]
  BY <1>1 DEF AddCount, TypeInv
<1>3. Cardinality(Unmet(v)) \in Nat
  BY UnmetFinite
<1>4. IsFiniteSet(Counted(v)) /\ Cardinality(Counted(v)) \in Nat
  BY <1>1, FS_CardinalityType DEF CountInv
<1>5. waitCount'[v] = Cardinality(Unmet(v)) + Cardinality(Counted(v)')
  BY <1>1, <1>2, <1>3, <1>4 DEF CountInv
<1>6. \A u \in Task : /\ IsFiniteSet(Counted(u)')
                      /\ waitCount'[u] = Cardinality(Unmet(u)') + Cardinality(Counted(u)')
  BY <1>1, <1>2, <1>5 DEF CountInv
<1> QED
  BY <1>6 DEF CountInv

-----------------------------------------------------------------------------
(***************************************************************************)
(* The owner, and the steps within the pool.                               *)
(***************************************************************************)
Rest == TypeInv /\ StageInv /\ PlaceInv /\ HandInv /\ BodyInv /\ OverInv /\ CountInv

\* What only moves threads and the owner about, and what only changes the stage.
LEMMA Unmoved ==
  ASSUME IInv, Started' <=> Started,
         UNCHANGED <<pending, posted, work, waitingFor, roots, waitCount, conts, step, hand, tell>>
  PROVE  PlaceInv' /\ HandInv' /\ BodyInv' /\ OverInv' /\ CountInv' /\ Held' = Held
<1>1. /\ PendingWork' = PendingWork /\ Held' = Held /\ Asked' = Asked /\ Each' = Each
  BY DEF PendingWork, Held, Asked, Each
<1>2. PlaceInv'
  BY <1>1 DEF IInv, PlaceInv
<1>3. HandInv'
  BY DEF IInv, HandInv
<1>4. \A u : Counted(u)' = Counted(u)
  BY <1>1 DEF Counted
<1>5. \A u : /\ Releasing(u)' <=> Releasing(u)
             /\ \A d : Telling(d, u)' <=> Telling(d, u)
  BY DEF Releasing, Telling
<1>6. \A u : Complete(u)' <=> Complete(u)
  BY <1>4, <1>5, CompleteIs, CompleteNext
<1>7. \A u \in Task : Unmet(u)' = Unmet(u)
  BY <1>5, <1>6, SameUnmet
<1>8. BodyInv'
  BY <1>1, <1>4, <1>7 DEF IInv, BodyInv
<1>9. OverInv'
  BY <1>4, <1>6 DEF IInv, OverInv
<1>10. CountInv'
  BY <1>4, <1>7 DEF IInv, CountInv
<1> QED
  BY <1>1, <1>2, <1>3, <1>8, <1>9, <1>10

\* A step of the pool that neither takes nor posts nor ends a work item.
PoolStep ==
  /\ UNCHANGED <<stage, setup, roots, waitCount, conts, step, hand, tell>>
  /\ UNCHANGED <<pending, posted, work>>
  /\ \A t \in Thread : pc'[t] = "run" <=> pc[t] = "run"
  /\ call' = call
  /\ \/ main' = main
     \/ main = "new" /\ main' = "open"
     \/ main = "test" /\ main' = "asleep"
     \/ main = "asleep" /\ main' = "test"
     \/ main = "test" /\ main' = IF call = "wait" THEN "open" ELSE "threads"
     \/ main = "threads" /\ main' = "closed"

LEMMA PoolSteps ==
  ASSUME IInv, StartThreads \/ OwnerInPool \/ SpuriousWakeup \/ \E t \in Thread : ThreadInPool(t)
  PROVE  PoolStep
<1>1. PoolInv
  BY PoolFacts DEF IInv
<1>2. CASE StartThreads
  BY <1>1, <1>2 DEF StartThreads, Pool!SetNumThreads, PoolInv, PoolStep
<1>3. CASE OwnerInPool
  <2>1. CASE Pool!WaitSleep
    BY <1>3, <2>1 DEF OwnerInPool, Pool!WaitSleep, PoolStep
  <2>2. CASE Pool!WaitDone
    <3>1. \A t \in Thread : pc'[t] = "run" <=> pc[t] = "run"
      BY <1>1, <2>2 DEF Pool!WaitDone, Pool!ShutDown, PoolInv
    <3> QED
      BY <1>3, <2>2, <3>1 DEF OwnerInPool, Pool!WaitDone, PoolStep
  <2>3. CASE Pool!Joined
    BY <1>3, <2>3 DEF OwnerInPool, Pool!Joined, PoolStep
  <2> QED
    BY <1>3, <2>1, <2>2, <2>3 DEF OwnerInPool, Pool!OwnerNext
<1>4. CASE SpuriousWakeup
  <2>1. CASE Pool!OwnerWakesSpuriously
    BY <1>4, <2>1 DEF SpuriousWakeup, Pool!OwnerWakesSpuriously, PoolStep
  <2>2. ASSUME NEW t \in Thread, Pool!WakeSpuriously(t)  PROVE PoolStep
    <3>1. \A k \in Thread : pc'[k] = "run" <=> pc[k] = "run"
      BY <1>1, <2>2 DEF Pool!WakeSpuriously, PoolInv
    <3> QED
      BY <1>4, <2>2, <3>1 DEF SpuriousWakeup, Pool!WakeSpuriously, PoolStep
  <2> QED
    BY <1>4, <2>1, <2>2 DEF SpuriousWakeup
<1>5. ASSUME NEW t \in Thread, ThreadInPool(t)  PROVE PoolStep
  <2>1. \A k \in Thread : pc'[k] = "run" <=> pc[k] = "run"
    BY <1>1, <1>5 DEF ThreadInPool, Pool!Sleep, Pool!Leave, PoolInv
  <2> QED
    BY <1>5, <2>1 DEF ThreadInPool, Pool!Sleep, Pool!Leave, PoolStep
<1> QED
  BY <1>2, <1>3, <1>4, <1>5

LEMMA PoolStepInv ==
  ASSUME IInv, PoolStep
  PROVE  Rest'
<1>1. PoolInv /\ TypeInv /\ StageInv
  BY PoolFacts DEF IInv
<1>2. Started' <=> Started
  BY DEF PoolStep, Started
<1>3. PlaceInv' /\ HandInv' /\ BodyInv' /\ OverInv' /\ CountInv' /\ Held' = Held
  BY <1>2, Unmoved DEF PoolStep, setup
<1>4. TypeInv'
  BY <1>1 DEF PoolStep, TypeInv, setup
<1>5. StageInv'
  BY <1>1, <1>3 DEF PoolStep, StageInv, WaitEdges, setup
<1> QED
  BY <1>3, <1>4, <1>5 DEF Rest

\* The graph grows before run() is called.
LEMMA AddDependencyInv ==
  ASSUME IInv, NEW e \in Edges, AddDependency(e[1], e[2])
  PROVE  Rest'
<1> DEFINE t == e[1]
           d == e[2]
<1>1. t \in Task /\ d \in Task /\ <<t, d>> \in Edges
  BY TaskAssumption
<1>2. /\ stage = "build" /\ t \notin waitingFor[d]
      /\ waitingFor' = [waitingFor EXCEPT ![d] = @ \cup {t}]
      /\ counts' = [counts EXCEPT ![t] = @ + 1]
      /\ UNCHANGED <<poolVars, stage, priority, roots, waitCount, conts, step, hand, tell>>
  BY DEF AddDependency
<1> HIDE DEF t, d
<1>3. TypeInv /\ StageInv /\ PlaceInv /\ HandInv /\ OverInv /\ CountInv
  BY DEF IInv
<1>4. /\ PendingWork' = PendingWork /\ Held' = Held /\ Asked' = Asked /\ Each' = Each
  BY <1>2 DEF PendingWork, Held, Asked, Each, poolVars
<1>5. TypeInv'
  BY <1>1, <1>2, <1>3 DEF TypeInv, poolVars
<1>6. StageInv'
  <2>1. WaitEdges'
    BY <1>1, <1>2, <1>3 DEF StageInv, WaitEdges, TypeInv
  <2>2. ASSUME NEW u \in Task
        PROVE  counts'[u] = Cardinality({b \in Task : u \in waitingFor'[b]})
    <3> DEFINE B == {b \in Task : u \in waitingFor[b]}
               C == {b \in Task : u \in waitingFor'[b]}
    <3>1. counts[u] = Cardinality(B)
      BY <1>2, <1>3 DEF StageInv
    <3>2. CASE u = t
      <4>1. C = B \cup {d} /\ d \notin B
        BY <1>1, <1>2, <1>3, <3>2 DEF TypeInv
      <4>2. IsFiniteSet(B)
        BY TaskAssumption, FS_Subset
      <4>3. Cardinality(C) = Cardinality(B) + 1
        <5> HIDE DEF B, C
        <5> QED
          BY <4>1, <4>2, FS_AddElement
      <4> QED
        BY <1>1, <1>2, <1>3, <3>1, <3>2, <4>3 DEF TypeInv
    <3>3. CASE u # t
      <4>1. C = B
        BY <1>1, <1>2, <1>3, <3>3 DEF TypeInv
      <4> QED
        BY <1>1, <1>2, <1>3, <3>1, <3>3, <4>1 DEF TypeInv
    <3> QED
      BY <3>2, <3>3
  <2> QED
    BY <1>2, <1>3, <1>4, <2>1, <2>2 DEF StageInv, poolVars
<1>7. PlaceInv'
  BY <1>2, <1>3, <1>4 DEF PlaceInv, poolVars
<1>8. HandInv' /\ OverInv'
  <2>1. \A k \in Thread : step[k] = "idle" /\ tell[k] = {}
    BY <1>2, <1>3 DEF StageInv, HandInv
  <2>2. HandInv'
    BY <1>2, <1>3, <2>1 DEF HandInv, poolVars
  <2>3. OverInv'
    BY <1>2, <2>1 DEF OverInv
  <2> QED
    BY <2>2, <2>3
<1>9. BodyInv' /\ CountInv'
  BY <1>2, <1>3 DEF BodyInv, CountInv, Started
<1> QED
  BY <1>5, <1>6, <1>7, <1>8, <1>9 DEF Rest

\* run() starts the counts at the number of tasks each task waits for.
LEMMA RunInv ==
  ASSUME IInv, Run
  PROVE  Rest'
<1>1. TypeInv /\ StageInv /\ PlaceInv /\ HandInv /\ OverInv /\ stage = "build"
  BY DEF IInv, Run
<1>2. /\ posted = {} /\ Held = {} /\ PendingWork = {} /\ Asked = {}
      /\ \A t \in Thread : step[t] = "idle" /\ tell[t] = {}
      /\ \A u \in Task : conts[u] = {}
  BY <1>1 DEF StageInv, PlaceInv, HandInv, Asked
<1>3. /\ PendingWork' = PendingWork /\ Held' = Held /\ Asked' = Asked /\ Each' = Each
  BY DEF Run, PendingWork, Held, Asked, Each, poolVars
<1>4. \A u \in Task : counts[u] \in 0 .. Cardinality(Task)
  <2>1. \A u \in Task : Cardinality({d \in Task : u \in waitingFor[d]}) \in 0 .. Cardinality(Task)
    <3> TAKE u \in Task
    <3> DEFINE B == {d \in Task : u \in waitingFor[d]}
    <3>1. B \subseteq Task
      OBVIOUS
    <3> HIDE DEF B
    <3>2. Cardinality(B) \in Nat /\ Cardinality(B) <= Cardinality(Task)
      BY <3>1, TaskAssumption, FS_Subset, FS_CardinalityType
    <3>3. Cardinality(B) \in 0 .. Cardinality(Task)
      BY <3>2, TaskCount
    <3> QED
      BY <3>3 DEF B
  <2> QED
    BY <1>1, <2>1 DEF StageInv
<1>5. TypeInv'
  <2>1. \A u \in Task : Chain[u] \in 0 .. Cardinality(Task)
    BY <1>1, ChainBound DEF StageInv
  <2>2. priority' \in [Task -> Priority]
    <3>1. \A u \in Task : Chain[u] * 2^16 + counts[u] \in Priority
      BY <1>4, <2>1 DEF Priority
    <3>2. priority' = [u \in Task |-> Chain[u] * 2^16 + counts[u]]
      BY DEF Run
    <3> QED
      BY <3>1, <3>2
  <2>3. waitCount' \in [Task -> Int] /\ roots' \subseteq Task
    BY <1>1 DEF Run, TypeInv
  <2> QED
    BY <1>1, <2>2, <2>3 DEF TypeInv, Run, poolVars
<1>6. StageInv'
  BY <1>1 DEF StageInv, Run, WaitEdges, poolVars
<1>7. PlaceInv'
  BY <1>1, <1>3 DEF PlaceInv, Run, poolVars
<1>8. HandInv' /\ OverInv'
  <2>1. HandInv'
    BY <1>1 DEF HandInv, Run, poolVars
  <2>2. OverInv'
    BY <1>2 DEF OverInv, Run
  <2> QED
    BY <2>1, <2>2
<1>9. \A u \in Task : Counted(u)' = {} /\ Cardinality(Counted(u)') = 0 /\ IsFiniteSet(Counted(u)')
  <2>1. \A a : ~Live(a)'
    <3>1. hand'[Owner] = {} /\ \A t \in Thread : hand'[t] = {} /\ step'[t] = "idle"
      BY <1>2, HeldIs DEF Run, Holder
    <3> QED
      BY <1>2, <1>3, <3>1 DEF Live
  <2> QED
    BY <2>1, MembersNext, FS_EmptySet
<1>10. \A u \in Task : /\ ~Complete(u)'
                       /\ Unmet(u)' = {d \in Task : u \in waitingFor[d]}
                       /\ waitCount'[u] = counts[u]
                       /\ counts[u] = Cardinality(Unmet(u)')
  <2>1. \A u \in Task : ~Complete(u)'
    BY <1>2, CompleteNext DEF Run, poolVars
  <2>2. \A u \in Task : Unmet(u)' = {d \in Task : u \in waitingFor[d]}
    BY <2>1, UnmetNext DEF Run
  <2> QED
    BY <1>1, <2>1, <2>2 DEF Run, StageInv
<1>11. \A u \in Task : Unmet(u)' = {} <=> u \in roots'
  <2> TAKE u \in Task
  <2> DEFINE B == {d \in Task : u \in waitingFor[d]}
  <2>1. IsFiniteSet(B) /\ B = Unmet(u)'
    BY <1>10, TaskAssumption, FS_Subset
  <2> HIDE DEF B
  <2>2. counts[u] = Cardinality(B) /\ (Cardinality(B) = 0 <=> B = {})
    BY <1>10, <2>1, FS_EmptySet
  <2> QED
    BY <2>1, <2>2 DEF Run
<1>12. BodyInv'
  BY <1>2, <1>3, <1>11 DEF BodyInv, Run
<1>13. CountInv'
  <2>1. \A u \in Task : waitCount'[u] = Cardinality(Unmet(u)') + Cardinality(Counted(u)')
    <3> TAKE u \in Task
    <3>1. counts[u] \in Nat
      BY <1>1 DEF TypeInv
    <3> QED
      BY <1>9, <1>10, <3>1
  <2> QED
    BY <1>9, <2>1 DEF CountInv, Run, Started
<1> QED
  BY <1>5, <1>6, <1>7, <1>8, <1>12, <1>13 DEF Rest

LEMMA JoinPoolInv ==
  ASSUME IInv, JoinPool
  PROVE  Rest'
<1>1. TypeInv /\ StageInv
  BY DEF IInv
<1>2. /\ Started' <=> Started
      /\ UNCHANGED <<pending, posted, work, waitingFor, roots, waitCount, conts, step, hand, tell>>
      /\ stage = "seed" /\ stage' = "join" /\ call' = "join" /\ main' = "test" /\ pc' = pc
      /\ counts' = [t \in Task |-> 0] /\ priority' = priority
      /\ roots = {} /\ hand[Owner] = {}
  BY DEF JoinPool, Started, Pool!Join
<1>3. PlaceInv' /\ HandInv' /\ BodyInv' /\ OverInv' /\ CountInv' /\ Held' = Held
  BY <1>2, Unmoved
<1>4. TypeInv'
  BY <1>1, <1>2 DEF TypeInv
<1>5. StageInv'
  BY <1>1, <1>2 DEF StageInv, WaitEdges
<1> QED
  BY <1>3, <1>4, <1>5 DEF Rest

\* run() returns after the last thread left: nothing is left to clear up.
LEMMA ReturnInv ==
  ASSUME IInv, Return
  PROVE  Rest'
<1>1. TypeInv /\ StageInv /\ PlaceInv /\ HandInv /\ PoolInv
  BY PoolFacts DEF IInv
<1>2. \A t \in Thread : step[t] = "idle" /\ hand[t] = {} /\ tell[t] = {}
  BY <1>1 DEF Return, PoolInv, TypeInv, HandInv
<1>3. /\ PendingWork' = PendingWork /\ Held' = Held /\ Asked' = Asked /\ Each' = Each
  BY DEF Return, PendingWork, Held, Asked, Each, poolVars
<1>4. TypeInv'
  BY <1>1, PoolAssumptions DEF Return, TypeInv, poolVars
<1>5. StageInv'
  BY <1>1 DEF Return, StageInv, WaitEdges, poolVars
<1>6. PlaceInv'
  BY <1>1, <1>3 DEF Return, PlaceInv, poolVars
<1>7. HandInv' /\ OverInv'
  <2>1. IsFiniteSet({})
    BY FS_EmptySet
  <2>2. HandInv'
    BY <1>1, <1>2, <2>1 DEF Return, HandInv, poolVars, StageInv
  <2>3. OverInv'
    BY <1>2 DEF Return, OverInv
  <2> QED
    BY <2>2, <2>3
<1>8. BodyInv' /\ CountInv'
  BY DEF Return, BodyInv, CountInv, Started
<1> QED
  BY <1>4, <1>5, <1>6, <1>7, <1>8 DEF Rest

-----------------------------------------------------------------------------
(***************************************************************************)
(* Taking, posting and returning a work item: nothing is counted.          *)
(***************************************************************************)
LEMMA FetchWorkInv ==
  ASSUME IInv, NEW t \in Thread, FetchWork(t)
  PROVE  Rest' /\ Started /\ Head(pending).work \in PendingWork
<1> DEFINE w == Head(pending).work
<1>1. PoolInv /\ TypeInv /\ StageInv /\ PlaceInv /\ HandInv
  BY PoolFacts DEF IInv
<1>2. /\ pc[t] = "fetch" /\ pending # <<>> /\ pending' = Tail(pending)
      /\ work' = [work EXCEPT ![t] = w] /\ pc' = [pc EXCEPT ![t] = "run"]
      /\ step' = [step EXCEPT ![t] = "work"]
      /\ UNCHANGED <<main, call, posted>>
      /\ UNCHANGED <<stage, setup, roots, waitCount, conts, hand, tell>>
  BY DEF FetchWork, Pool!Fetch, Goto
<1>3. step[t] = "idle" /\ hand[t] = {} /\ tell[t] = {} /\ work[t] = NoWork
  BY <1>1, <1>2 DEF TypeInv, HandInv
<1>4. /\ w \in PendingWork /\ PendingWork' = PendingWork \ {w} /\ Each'
  BY <1>1, <1>2, TailRemoves DEF PoolInv, PlaceInv
<1> HIDE DEF w
<1>5. w \in posted /\ w \in Action /\ w # NoWork
  BY <1>1, <1>4, NoWorkAssumption DEF PlaceInv, PoolInv
<1>6. Started /\ Started'
  BY <1>1, <1>2, <1>5 DEF StageInv, PoolInv, TypeInv, Started
<1>7. /\ \A k \in Thread : step'[k] = IF k = t THEN "work" ELSE step[k]
      /\ \A k \in Thread : work'[k] = IF k = t THEN w ELSE work[k]
      /\ \A k \in Thread : pc'[k] = IF k = t THEN "run" ELSE pc[k]
  BY <1>1, <1>2 DEF TypeInv, PoolInv
<1>8. TypeInv'
  <2>1. /\ step' \in [Thread -> Labels]
        /\ \A k \in Thread : /\ step'[k] = "idle" <=> work'[k] = NoWork
                             /\ step'[k] = "idle" <=> pc'[k] # "run"
    BY <1>1, <1>2, <1>5, <1>7 DEF TypeInv, Labels
  <2> QED
    BY <1>1, <1>2, <2>1 DEF TypeInv, setup
<1>9. StageInv'
  BY <1>2, <1>6, StageKeep DEF setup
<1>10. PlaceInv' /\ Asked' = Asked
  <2>1. Held' = Held /\ Asked' = Asked
    BY <1>2 DEF Held, Asked
  <2>2. \A k \in Thread : step'[k] # "idle" => work'[k] \in posted' \ PendingWork'
    BY <1>1, <1>2, <1>4, <1>5, <1>7 DEF PlaceInv
  <2>3. \A j, k \in Thread : j # k /\ step'[j] # "idle" => work'[j] # work'[k]
    BY <1>1, <1>3, <1>4, <1>5, <1>7 DEF PlaceInv, TypeInv
  <2>4. PendingWork' \subseteq posted'
    BY <1>1, <1>2, <1>4 DEF PlaceInv
  <2> QED
    BY <1>1, <1>2, <1>4, <2>1, <2>2, <2>3, <2>4 DEF PlaceInv
<1>11. HandInv'
  BY <1>1, <1>2, <1>3, <1>7 DEF HandInv, setup
<1>12. \A a : Live(a)' <=> Live(a)
  BY <1>2, <1>3, <1>4, <1>7 DEF Live
<1>13. \A u : Counted(u)' = Counted(u)
  BY <1>12, SameCounted
<1>14. \A u \in Task : Complete(u)' <=> Complete(u)
  <2>1. \A u \in Task : Releasing(u)' <=> Releasing(u)
    BY <1>3, <1>7 DEF Releasing
  <2> QED
    BY <1>2, <1>13, <2>1, CompleteIs, CompleteNext
<1>15. \A d, u \in Task : Telling(d, u)' <=> Telling(d, u)
  BY <1>2, <1>3, <1>7 DEF Telling
<1>16. BodyInv' /\ CountInv'
  BY <1>2, <1>6, <1>10, <1>13, <1>14, <1>15, Quiet DEF setup
<1>17. OverInv'
  BY <1>2, <1>3, <1>7, <1>13, <1>14, QuietOver
<1> QED
  BY <1>4, <1>6, <1>8, <1>9, <1>10, <1>11, <1>16, <1>17 DEF Rest, w

LEMMA FinishWorkInv ==
  ASSUME IInv, NEW t \in Thread, FinishWork(t)
  PROVE  Rest'
<1>1. PoolInv /\ TypeInv /\ StageInv /\ PlaceInv /\ HandInv
  BY PoolFacts DEF IInv
<1>2. /\ pc[t] = "run" /\ step[t] \in {"post", "notify"} /\ hand[t] = {} /\ tell[t] = {}
      /\ work' = [work EXCEPT ![t] = NoWork] /\ pc' = [pc EXCEPT ![t] = "fetch"]
      /\ step' = [step EXCEPT ![t] = "idle"]
      /\ main' = main \/ (main = "asleep" /\ main' = "test")
      /\ UNCHANGED <<pending, call, posted>>
      /\ UNCHANGED <<stage, setup, roots, waitCount, conts, hand, tell>>
  BY <1>1 DEF FinishWork, Pool!Finish, Goto, HandInv
<1>3. Started /\ Started'
  BY <1>2, Busy DEF Started
<1>4. /\ \A k \in Thread : step'[k] = IF k = t THEN "idle" ELSE step[k]
      /\ \A k \in Thread : work'[k] = IF k = t THEN NoWork ELSE work[k]
      /\ \A k \in Thread : pc'[k] = IF k = t THEN "fetch" ELSE pc[k]
  BY <1>1, <1>2 DEF TypeInv, PoolInv
<1>5. TypeInv'
  <2>1. /\ step' \in [Thread -> Labels]
        /\ \A k \in Thread : /\ step'[k] = "idle" <=> work'[k] = NoWork
                             /\ step'[k] = "idle" <=> pc'[k] # "run"
    BY <1>1, <1>2, <1>4 DEF TypeInv, Labels
  <2> QED
    BY <1>1, <1>2, <2>1 DEF TypeInv, setup
<1>6. StageInv'
  BY <1>2, <1>3, StageKeep DEF setup
<1>7. PlaceInv' /\ Asked' = Asked
  <2>1. Held' = Held /\ Asked' = Asked /\ PendingWork' = PendingWork /\ Each' = Each
    BY <1>2 DEF Held, Asked, PendingWork, Each
  <2>2. \A k \in Thread : step'[k] # "idle" => work'[k] \in posted' \ PendingWork'
    BY <1>1, <1>2, <1>4, <2>1 DEF PlaceInv
  <2>3. \A j, k \in Thread : j # k /\ step'[j] # "idle" => work'[j] # work'[k]
    BY <1>1, <1>4 DEF PlaceInv, TypeInv
  <2> QED
    BY <1>1, <1>2, <2>1, <2>2, <2>3 DEF PlaceInv
<1>8. HandInv'
  BY <1>1, <1>2, <1>4 DEF HandInv, setup
<1>9. \A a : Live(a)' <=> Live(a)
  <2>1. PendingWork' = PendingWork
    BY <1>2 DEF PendingWork
  <2> QED
    BY <1>2, <1>4, <2>1 DEF Live
<1>10. \A u : Counted(u)' = Counted(u)
  BY <1>9, SameCounted
<1>11. \A u \in Task : Complete(u)' <=> Complete(u)
  <2>1. \A u \in Task : Releasing(u)' <=> Releasing(u)
    BY <1>2, <1>4 DEF Releasing
  <2> QED
    BY <1>2, <1>10, <2>1, CompleteIs, CompleteNext
<1>12. \A d, u \in Task : Telling(d, u)' <=> Telling(d, u)
  BY <1>2, <1>4 DEF Telling
<1>13. BodyInv' /\ CountInv'
  BY <1>2, <1>3, <1>7, <1>10, <1>11, <1>12, Quiet DEF setup
<1>14. OverInv'
  BY <1>2, <1>4, <1>10, <1>11, QuietOver
<1> QED
  BY <1>5, <1>6, <1>7, <1>8, <1>13, <1>14 DEF Rest

\* Where a thread goes when it has posted an action.
Posting(x) ==
  \/ x = Owner /\ step' = step
  \/ x \in Thread /\ step[x] = "post" /\ step' = step
  \/ x \in Thread /\ step[x] = "augment" /\ step' = [step EXCEPT ![x] = "work"]
  \/ x \in Thread /\ step[x] = "enqueue" /\ step' = [step EXCEPT ![x] = "notify"]

LEMMA PostingInv ==
  ASSUME IInv, NEW x \in Holder, NEW a, a \in hand[x], Started, Posting(x),
         Pool!Post(priority[a.task], a), hand' = [hand EXCEPT ![x] = @ \ {a}],
         UNCHANGED <<stage, setup, roots, waitCount, conts, tell>>
  PROVE  Rest'
<1>1. PoolInv /\ TypeInv /\ StageInv /\ PlaceInv /\ HandInv
  BY PoolFacts DEF IInv
<1>2. Started'
  BY DEF Started
<1>3. a \in Action /\ a.task \in Task /\ priority[a.task] \in Priority
  BY <1>1, ActionFacts DEF TypeInv
<1>4. /\ pending' = Pool!Enqueue(pending, [prio |-> priority[a.task], work |-> a])
      /\ posted' = posted \cup {a} /\ work' = work /\ main' = main /\ call' = call
      /\ a \notin posted
  BY DEF Pool!Post
<1>5. \A k \in Thread : pc'[k] = "run" <=> pc[k] = "run"
  <2>1. CASE Pool!At("asleep") = {}
    BY <2>1 DEF Pool!Post, Pool!NotifyWork
  <2>2. CASE Pool!At("asleep") # {}
    <3>1. PICK k \in Thread : pc[k] = "asleep" /\ pc' = [pc EXCEPT ![k] = "fetch"]
      BY <2>2 DEF Pool!Post, Pool!NotifyWork, Pool!At
    <3> QED
      BY <1>1, <3>1 DEF PoolInv
  <2> QED
    BY <2>1, <2>2
<1>6. /\ \A k \in Holder : hand'[k] = IF k = x THEN hand[x] \ {a} ELSE hand[k]
      /\ \A k \in Thread : k # x => step'[k] = step[k]
      /\ x \in Thread => \/ step[x] = "post" /\ step'[x] = "post"
                         \/ step[x] = "augment" /\ step'[x] = "work"
                         \/ step[x] = "enqueue" /\ step'[x] = "notify"
      /\ x = Owner => x \notin Thread
      /\ step' \in [Thread -> Labels]
  BY <1>1, ThreadAssumption DEF TypeInv, Posting, Labels
<1>7. x = Owner \/ x \in Thread
  BY DEF Holder
<1>8. TypeInv'
  <2>1. hand' \in [Holder -> SUBSET Action]
    BY <1>1 DEF TypeInv
  <2>2. \A k \in Thread : /\ step'[k] = "idle" <=> work'[k] = NoWork
                          /\ step'[k] = "idle" <=> pc'[k] # "run"
    BY <1>1, <1>4, <1>5, <1>6 DEF TypeInv
  <2> QED
    BY <1>1, <1>6, <2>1, <2>2 DEF TypeInv, setup
<1>9. StageInv'
  <2>1. hand[Owner] = {} => hand'[Owner] = {}
    BY <1>1 DEF TypeInv, Holder
  <2> QED
    BY <1>1, <1>4, <2>1 DEF StageInv, Started, WaitEdges, setup
<1>10. PlaceInv' /\ Asked' = Asked /\ PendingWork' = PendingWork \cup {a}
  BY <1>3, <1>4, <1>6, PlacePost
<1>11. HandInv'
  <2>1. ASSUME NEW k \in Thread
        PROVE  /\ IsFiniteSet(hand'[k])
               /\ step'[k] \in {"idle", "work", "notify"} => hand'[k] = {}
               /\ step'[k] = "augment" => \E b \in Added : hand'[k] = {b}
               /\ step'[k] \in {"augment", "release", "post"} =>
                    \A b \in hand'[k] : b \in Added /\ b.task = work'[k].task
               /\ step'[k] \in {"schedule", "enqueue"} => \E u \in Task : hand'[k] = {Body[u]}
               /\ step'[k] \notin {"notify", "schedule", "enqueue"} => tell'[k] = {}
               /\ tell'[k] # {} => tell'[k] \subseteq waitingFor'[work'[k].task]
    <3>1. CASE k # x
      BY <1>1, <1>4, <1>6, <3>1 DEF HandInv, Holder, setup
    <3>2. CASE k = x
      <4>1. IsFiniteSet(hand'[k])
        BY <1>1, <1>6, <3>2, FS_RemoveElement DEF HandInv
      <4>2. hand'[k] = hand[k] \ {a} /\ a \in hand[k]
        BY <1>6, <3>2
      <4> QED
        BY <1>1, <1>4, <1>6, <3>2, <4>1, <4>2 DEF HandInv, setup
    <3> QED
      BY <3>1, <3>2
  <2>2. hand'[Owner] # {} => \E u \in Task : hand'[Owner] = {Body[u]}
    BY <1>1, <1>6 DEF HandInv, Holder
  <2> QED
    BY <1>1, <2>1, <2>2 DEF HandInv
<1>12. \A b : Live(b)' <=> Live(b)
  <2>1. Live(a)
    BY <1>6, <1>7 DEF Live
  <2>2. Live(a)'
    BY <1>10 DEF Live
  <2>3. ASSUME NEW b, b # a  PROVE Live(b)' <=> Live(b)
    <3>1. b \in PendingWork' <=> b \in PendingWork
      BY <1>10, <2>3
    <3>2. b \in hand'[Owner] <=> b \in hand[Owner]
      BY <1>6, <2>3 DEF Holder
    <3>3. \A k \in Thread : (step'[k] \in {"augment", "post", "enqueue"} /\ b \in hand'[k])
                              <=> (step[k] \in {"augment", "post", "enqueue"} /\ b \in hand[k])
      <4> TAKE k \in Thread
      <4>1. CASE k # x
        BY <1>6, <4>1 DEF Holder
      <4>2. CASE k = x /\ step[k] = "post"
        BY <1>6, <2>3, <4>2
      <4>3. CASE k = x /\ step[k] # "post"
        BY <1>1, <1>6, <2>3, <4>3 DEF HandInv
      <4> QED
        BY <4>1, <4>2, <4>3
    <3>4. \A k \in Thread : (step'[k] \in {"work", "augment"} /\ b = work'[k])
                              <=> (step[k] \in {"work", "augment"} /\ b = work[k])
      <4> TAKE k \in Thread
      <4> QED
        BY <1>4, <1>6
    <3> QED
      BY <3>1, <3>2, <3>3, <3>4 DEF Live
  <2> QED
    BY <2>1, <2>2, <2>3
<1>13. \A u : Counted(u)' = Counted(u)
  BY <1>12, SameCounted
<1>14. \A u \in Task : Complete(u)' <=> Complete(u)
  <2>1. \A u \in Task : Releasing(u)' <=> Releasing(u)
    BY <1>4, <1>6 DEF Releasing
  <2>2. a \in Counted(a.task)
    BY <1>6, <1>7, Members DEF Live
  <2>3. \A u \in Task : Counted(u) = {} => (Body[u] \in posted' <=> Body[u] \in posted)
    BY <1>4, <2>2, ActionFacts
  <2> QED
    BY <1>13, <2>1, <2>3, CompleteIs, CompleteNext
<1>15. \A d, u \in Task : Telling(d, u)' <=> Telling(d, u)
  <2>1. \A k \in Thread : step[k] \in {"notify", "schedule", "enqueue"} /\ tell[k] # {}
                            <=> step'[k] \in {"notify", "schedule", "enqueue"} /\ tell[k] # {}
    BY <1>1, <1>6 DEF HandInv
  <2> QED
    BY <1>4, <2>1 DEF Telling
<1>16. BodyInv' /\ CountInv'
  BY <1>2, <1>4, <1>10, <1>13, <1>14, <1>15, Quiet DEF setup
<1>17. OverInv'
  <2>1. \A k \in Thread : step'[k] = "release" => step[k] = "release" /\ hand'[k] = hand[k]
    BY <1>6 DEF Holder
  <2> QED
    BY <1>4, <1>13, <1>14, <2>1, QuietOver
<1> QED
  BY <1>8, <1>9, <1>10, <1>11, <1>16, <1>17 DEF Rest

LEMMA PostsInv ==
  ASSUME IInv,
         SeedPost \/ \E t \in Thread : AugmentPost(t) \/ PostContinuation(t) \/ SchedulePost(t)
  PROVE  Rest'
<1>1. TypeInv /\ StageInv /\ HandInv
  BY DEF IInv
<1>2. CASE SeedPost
  <2>1. PICK a \in hand[Owner] :
          /\ Pool!OwnerPosts(priority[a.task], a)
          /\ hand' = [hand EXCEPT ![Owner] = {}]
          /\ UNCHANGED <<stage, setup, roots, waitCount, conts, step, tell>>
    BY <1>2 DEF SeedPost
  <2>2. hand[Owner] = {a} /\ Started
    BY <1>1, <2>1 DEF HandInv, StageInv, Started
  <2>3. hand' = [hand EXCEPT ![Owner] = @ \ {a}]
    BY <1>1, <2>1, <2>2 DEF TypeInv, Holder
  <2>4. Owner \in Holder /\ Posting(Owner) /\ Pool!Post(priority[a.task], a)
    BY <2>1 DEF Holder, Posting, Pool!OwnerPosts
  <2> QED
    BY <2>1, <2>2, <2>3, <2>4, PostingInv
<1>3. ASSUME NEW t \in Thread, AugmentPost(t) \/ PostContinuation(t) \/ SchedulePost(t)
      PROVE  Rest'
  <2>1. PICK a \in hand[t] :
          /\ Pool!Post(priority[a.task], a)
          /\ hand' = [hand EXCEPT ![t] = @ \ {a}]
          /\ UNCHANGED <<stage, setup, roots, waitCount, conts, tell>>
    BY <1>3 DEF AugmentPost, PostContinuation, SchedulePost, PostHand, Pool!WorkPosts
  <2>2. Posting(t) /\ step[t] # "idle"
    BY <1>1, <1>3 DEF AugmentPost, PostContinuation, SchedulePost, PostHand, Goto, Posting, TypeInv
  <2>3. t \in Holder /\ Started
    BY <2>2, Busy DEF Holder
  <2> QED
    BY <2>1, <2>2, <2>3, PostingInv
<1> QED
  BY <1>2, <1>3

-----------------------------------------------------------------------------
(***************************************************************************)
(* What changes a count.                                                   *)
(***************************************************************************)
\* Actions of one task that become live are counted with the others.
LEMMA Joins ==
  ASSUME NEW v, NEW H, \A b \in H : b.task = v /\ ~Live(b), IsFiniteSet(H),
         \A b : Live(b)' <=> Live(b) \/ b \in H, IsFiniteSet(Counted(v))
  PROVE  /\ Counted(v)' = Counted(v) \cup H
         /\ IsFiniteSet(Counted(v)')
         /\ Cardinality(Counted(v)') = Cardinality(Counted(v)) + Cardinality(H)
         /\ \A u : u # v => Counted(u)' = Counted(u)
<1> DEFINE C == Counted(v)
           D == Counted(v)'
<1>1. \A b : b \in D <=> b \in C \/ b \in H
  BY Members, MembersNext
<1>2. C \cap H = {} /\ IsFiniteSet(C)
  BY Members
<1>3. ASSUME NEW u, u # v  PROVE Counted(u)' = Counted(u)
  <2> DEFINE E == Counted(u)
             F == Counted(u)'
  <2>1. \A b : b \in F <=> b \in E
    BY <1>3, Members, MembersNext
  <2> HIDE DEF E, F
  <2>2. F = E
    BY <2>1
  <2> QED
    BY <2>2 DEF E, F
<1> HIDE DEF C, D
<1>4. D = C \cup H
  BY <1>1
<1>5. IsFiniteSet(C \cup H) /\ Cardinality(C \cup H) = Cardinality(C) + Cardinality(H)
  <2>1. IsFiniteSet(C \cup H) /\ Cardinality(C \cup H)
          = Cardinality(C) + Cardinality(H) - Cardinality(C \cap H)
    BY <1>2, FS_Union
  <2>2. Cardinality(C \cap H) = 0 /\ Cardinality(C) \in Nat /\ Cardinality(H) \in Nat
    BY <1>2, FS_EmptySet, FS_CardinalityType
  <2> QED
    BY <2>1, <2>2
<1> QED
  BY <1>3, <1>4, <1>5 DEF C, D

\* An action that ends is not counted any more.
LEMMA Leaves ==
  ASSUME NEW v, NEW a, a.task = v, Live(a),
         \A b : Live(b)' <=> Live(b) /\ b # a, IsFiniteSet(Counted(v))
  PROVE  /\ Counted(v)' = Counted(v) \ {a}
         /\ IsFiniteSet(Counted(v)')
         /\ Cardinality(Counted(v)') = Cardinality(Counted(v)) - 1
         /\ \A u : u # v => Counted(u)' = Counted(u)
<1> DEFINE C == Counted(v)
           D == Counted(v)'
<1>1. \A b : b \in D <=> b \in C /\ b # a
  BY Members, MembersNext
<1>2. a \in C /\ IsFiniteSet(C)
  BY Members
<1>3. ASSUME NEW u, u # v  PROVE Counted(u)' = Counted(u)
  <2> DEFINE E == Counted(u)
             F == Counted(u)'
  <2>1. \A b : b \in F <=> b \in E
    BY <1>3, Members, MembersNext
  <2> HIDE DEF E, F
  <2>2. F = E
    BY <2>1
  <2> QED
    BY <2>2 DEF E, F
<1> HIDE DEF C, D
<1>4. D = C \ {a}
  BY <1>1
<1>5. IsFiniteSet(C \ {a}) /\ Cardinality(C \ {a}) = Cardinality(C) - 1
  BY <1>2, FS_RemoveElement
<1> QED
  BY <1>3, <1>4, <1>5 DEF C, D

\* Actions of a task that was not complete are counted, and whoever goes on
\* to release continuations does so for another task.
LEMMA Counts ==
  ASSUME IInv, Started, Started', NEW v \in Task, NEW H, H # {}, IsFiniteSet(H),
         \A b \in H : b.task = v /\ ~Live(b),
         \A b : Live(b)' <=> Live(b) \/ b \in H,
         AddCount(v, Cardinality(H)), ~Complete(v),
         UNCHANGED <<posted, work, waitingFor, conts, tell>>,
         \A k \in Thread : step'[k] = "release" <=> step[k] = "release" /\ work[k].task # v,
         \A k \in Thread : step[k] = "release" => hand'[k] = hand[k],
         \A k \in Thread : step'[k] \in {"notify", "schedule", "enqueue"}
                             <=> step[k] \in {"notify", "schedule", "enqueue"}
  PROVE  /\ CountInv' /\ OverInv'
         /\ \A u \in Task : Unmet(u)' = Unmet(u)
         /\ \A u \in Task : Counted(u) # {} => Counted(u)' # {}
         /\ \A u \in Task : Complete(u)' <=> Complete(u)
<1>1. CountInv /\ OverInv
  BY DEF IInv
<1>2. IsFiniteSet(Counted(v))
  BY <1>1 DEF CountInv
<1>3. /\ Counted(v)' = Counted(v) \cup H
      /\ IsFiniteSet(Counted(v)')
      /\ Cardinality(Counted(v)') = Cardinality(Counted(v)) + Cardinality(H)
      /\ \A u : u # v => Counted(u)' = Counted(u)
  BY <1>2, Joins
<1>4. \A u \in Task : Complete(u)' <=> Complete(u)
  <2>1. ~Complete(v)'
    BY <1>3, CompleteNext
  <2>2. \A u : u # v => (Releasing(u)' <=> Releasing(u))
    BY DEF Releasing
  <2>3. \A u \in Task : u # v => (Complete(u)' <=> Complete(u))
    BY <1>3, <2>2, CompleteIs, CompleteNext
  <2> QED
    BY <2>1, <2>3
<1>5. \A d, u \in Task : Telling(d, u)' <=> Telling(d, u)
  BY DEF Telling
<1>6. \A u \in Task : Unmet(u)' = Unmet(u)
  BY <1>4, <1>5, SameUnmet
<1>7. CountInv'
  <2>1. Cardinality(H) \in Int
    BY FS_CardinalityType
  <2> QED
    BY <1>3, <1>6, <2>1, CountShift
<1>8. OverInv'
  <2> SUFFICES ASSUME NEW t \in Thread, NEW u \in Task, work'[t].task = u
               PROVE  /\ step'[t] = "release" =>
                           /\ hand'[t] # {} /\ Counted(u)' = {}
                           /\ \A k \in Thread : k # t /\ step'[k] = "release"
                                                  => work'[k].task # u
                      /\ tell'[t] # {} =>
                           /\ Complete(u)'
                           /\ \A k \in Thread : k # t /\ tell'[k] # {} => work'[k].task # u
    BY DEF OverInv
  <2>1. work[t].task = u /\ tell' = tell /\ work' = work
    OBVIOUS
  <2>2. ASSUME step'[t] = "release"
        PROVE  /\ hand'[t] # {} /\ Counted(u)' = {}
               /\ \A k \in Thread : k # t /\ step'[k] = "release" => work'[k].task # u
    <3>1. step[t] = "release" /\ u # v /\ hand'[t] = hand[t]
      BY <2>1, <2>2
    <3> QED
      BY <1>1, <1>3, <2>1, <3>1 DEF OverInv
  <2>3. ASSUME tell'[t] # {}
        PROVE  /\ Complete(u)'
               /\ \A k \in Thread : k # t /\ tell'[k] # {} => work'[k].task # u
    BY <1>1, <1>4, <2>1, <2>3 DEF OverInv
  <2> QED
    BY <2>2, <2>3
<1>9. \A u \in Task : Counted(u) # {} => Counted(u)' # {}
  BY <1>3
<1> QED
  BY <1>4, <1>6, <1>7, <1>8, <1>9

\* Whoever runs a work item keeps its task from being complete.
LEMMA Working ==
  ASSUME IInv, NEW t \in Thread, step[t] \in {"work", "augment"}
  PROVE  /\ Live(work[t]) /\ work[t] \in Counted(work[t].task)
         /\ ~Complete(work[t].task) /\ Unmet(work[t].task) = {}
         /\ \A k \in Thread : step[k] = "release" => work[k].task # work[t].task
         /\ \A k \in Thread : tell[k] # {} => work[k].task # work[t].task
<1>1. Live(work[t]) /\ work[t] \in Counted(work[t].task)
  BY Members DEF Live
<1>2. ~Complete(work[t].task)
  BY <1>1, CompleteIs
<1>3. OverInv /\ BodyInv
  BY DEF IInv
<1>4. work[t].task \in Task /\ Started /\ Body[work[t].task] \in posted
  BY Busy
<1> QED
  BY <1>1, <1>2, <1>3, <1>4 DEF OverInv, BodyInv, Asked

LEMMA SingleSet ==
  ASSUME NEW a
  PROVE  IsFiniteSet({a}) /\ Cardinality({a}) = 1
BY FS_Singleton

LEMMA AugmentInv ==
  ASSUME IInv, NEW t \in Thread, Augment(t)
  PROVE  Rest'
<1>1. TypeInv /\ StageInv /\ PlaceInv /\ HandInv /\ BodyInv
  BY DEF IInv
<1>0. PICK u \in Task : u = work[t].task
  BY Busy DEF Augment
<1>2. PICK a \in Unused(t) :
        /\ step[t] = "work" /\ hand' = [hand EXCEPT ![t] = {a}]
        /\ AddCount(u, 1) /\ step' = [step EXCEPT ![t] = "augment"]
        /\ UNCHANGED <<poolVars, stage, setup, roots, conts, tell>>
  BY <1>0 DEF Augment, Goto
<1>3. u \in Task /\ Started /\ Started' /\ Body[u] \in posted
  BY <1>0, <1>2, Busy DEF Started
<1>4. a \in Added /\ a.task = u /\ a \in Action
  BY <1>0, ActionFacts DEF Unused
<1>5. a \notin Asked /\ a \notin conts[u]
  <2>1. \A k \in Thread : a \notin hand[k]
    BY DEF Unused
  <2>2. a \notin hand[Owner]
    BY <1>1, <1>4, ActionFacts DEF HandInv
  <2> QED
    BY <1>4, <2>1, <2>2, HeldIs DEF Unused, Asked, Holder
<1>6. /\ hand[t] = {} /\ tell[t] = {} /\ t # Owner /\ t \in Holder
      /\ ~Complete(u) /\ Live(work[t])
      /\ \A k \in Thread : step[k] = "release" => work[k].task # u
  BY <1>0, <1>1, <1>2, Working, ThreadAssumption DEF HandInv, Holder
<1>7. /\ \A k \in Thread : step'[k] = IF k = t THEN "augment" ELSE step[k]
      /\ \A k \in Holder : hand'[k] = IF k = t THEN {a} ELSE hand[k]
  BY <1>1, <1>2 DEF TypeInv
<1>8. TypeInv'
  <2>1. step' \in [Thread -> Labels] /\ hand' \in [Holder -> SUBSET Action]
    BY <1>1, <1>2, <1>4 DEF TypeInv, Labels
  <2>2. waitCount' \in [Task -> Int]
    BY <1>1, <1>2, <1>3 DEF TypeInv, AddCount
  <2> QED
    BY <1>1, <1>2, <1>7, <2>1, <2>2 DEF TypeInv, setup, poolVars
<1>9. StageInv'
  BY <1>2, <1>3, <1>6, <1>7, StageKeep DEF setup, poolVars, Holder
<1>10. PlaceInv' /\ Asked' = Asked \cup {a}
  <2>1. \A k \in Thread : step'[k] # "idle" => step[k] # "idle"
    BY <1>2, <1>7
  <2>2. \A v \in Task : \A b \in conts'[v] : b.task = v /\ b \notin Asked \cup {a}
    BY <1>1, <1>2, <1>4, <1>5 DEF PlaceInv
  <2> DEFINE H == {a}
  <2>3. H \cap Asked = {} /\ hand' = [hand EXCEPT ![t] = H]
    BY <1>2, <1>5
  <2> HIDE DEF H
  <2>4. \A v \in Task : \A b \in conts'[v] : b.task = v /\ b \notin Asked \cup H
    BY <2>2 DEF H
  <2>5. PlaceInv' /\ Asked' = Asked \cup H
    BY <1>2, <1>6, <2>1, <2>3, <2>4, PlaceHand DEF poolVars
  <2> QED
    BY <2>5 DEF H
<1>11. HandInv'
  <2>1. ASSUME NEW k \in Thread
        PROVE  /\ IsFiniteSet(hand'[k])
               /\ step'[k] \in {"idle", "work", "notify"} => hand'[k] = {}
               /\ step'[k] = "augment" => \E b \in Added : hand'[k] = {b}
               /\ step'[k] \in {"augment", "release", "post"} =>
                    \A b \in hand'[k] : b \in Added /\ b.task = work'[k].task
               /\ step'[k] \in {"schedule", "enqueue"} => \E v \in Task : hand'[k] = {Body[v]}
               /\ step'[k] \notin {"notify", "schedule", "enqueue"} => tell'[k] = {}
               /\ tell'[k] # {} => tell'[k] \subseteq waitingFor'[work'[k].task]
    <3>1. work' = work /\ waitingFor' = waitingFor /\ tell' = tell
      BY <1>2 DEF poolVars, setup
    <3>2. CASE k # t
      BY <1>1, <1>7, <3>1, <3>2 DEF HandInv, Holder
    <3>3. CASE k = t
      <4>1. IsFiniteSet(hand'[t]) /\ hand'[t] = {a} /\ step'[t] = "augment"
        BY <1>6, <1>7, SingleSet
      <4> QED
        BY <1>0, <1>4, <1>6, <3>1, <3>3, <4>1
    <3> QED
      BY <3>2, <3>3
  <2>2. hand'[Owner] = hand[Owner] /\ conts' = conts
    BY <1>2, <1>6, <1>7 DEF Holder
  <2> QED
    BY <1>1, <2>1, <2>2 DEF HandInv
<1>12. ~Live(a)
  BY <1>5, LiveFacts
<1>13. \A b : Live(b)' <=> Live(b) \/ b \in {a}
  <2>1. PendingWork' = PendingWork
    BY <1>2 DEF PendingWork, poolVars
  <2>2. work' = work
    BY <1>2 DEF poolVars
  <2> QED
    BY <1>2, <1>6, <1>7, <2>1, <2>2 DEF Live, Holder
<1>14. /\ CountInv' /\ OverInv'
       /\ \A v \in Task : Unmet(v)' = Unmet(v)
       /\ \A v \in Task : Counted(v) # {} => Counted(v)' # {}
  <2> DEFINE H == {a}
  <2>1. H # {} /\ IsFiniteSet(H) /\ Cardinality(H) = 1 /\ \A b \in H : b.task = u /\ ~Live(b)
    BY <1>4, <1>12, SingleSet
  <2>2. \A b : Live(b)' <=> Live(b) \/ b \in H
    BY <1>13
  <2> HIDE DEF H
  <2>3. AddCount(u, Cardinality(H))
    BY <1>2, <2>1
  <2>4. UNCHANGED <<posted, work, waitingFor, conts, tell>>
    BY <1>2 DEF setup, poolVars
  <2>5. /\ \A k \in Thread : step'[k] = "release" <=> step[k] = "release" /\ work[k].task # u
        /\ \A k \in Thread : step[k] = "release" => hand'[k] = hand[k]
        /\ \A k \in Thread : step'[k] \in {"notify", "schedule", "enqueue"}
                               <=> step[k] \in {"notify", "schedule", "enqueue"}
    BY <1>2, <1>6, <1>7 DEF Holder
  <2> QED
    BY <1>3, <1>6, <2>1, <2>2, <2>3, <2>4, <2>5, Counts
<1>15. BodyInv'
  <2> SUFFICES ASSUME NEW v \in Task
               PROVE  /\ Unmet(v)' = {} <=> v \in roots' \/ Body[v] \in Asked'
                      /\ v \in roots' => Body[v] \notin Asked'
                      /\ \A b \in Added : b.task = v /\ b \in Asked' \cup conts'[v]
                                            => Body[v] \in posted'
                      /\ conts'[v] # {} => Counted(v)' # {}
    BY DEF BodyInv
  <2>1. Body[v] \in Asked' <=> Body[v] \in Asked
    BY <1>4, <1>10, ActionFacts
  <2>2. roots' = roots /\ conts' = conts /\ posted' = posted
    BY <1>2 DEF poolVars
  <2> QED
    BY <1>1, <1>3, <1>4, <1>10, <1>14, <2>1, <2>2 DEF BodyInv
<1> QED
  BY <1>8, <1>9, <1>10, <1>11, <1>14, <1>15 DEF Rest

LEMMA DeferInv ==
  ASSUME IInv, NEW t \in Thread, Defer(t)
  PROVE  Rest'
<1>1. TypeInv /\ StageInv /\ PlaceInv /\ HandInv /\ BodyInv /\ CountInv
  BY DEF IInv
<1>0. PICK u \in Task : u = work[t].task
  BY Busy DEF Defer
<1>2. PICK a \in Unused(t) :
        /\ step[t] = "work" /\ conts' = [conts EXCEPT ![a.task] = @ \cup {a}]
        /\ UNCHANGED <<poolVars, stage, setup, roots, waitCount, step, hand, tell>>
  BY DEF Defer
<1>3. u \in Task /\ Started /\ Started' /\ Body[u] \in posted
  BY <1>0, <1>2, Busy DEF Started
<1>4. a \in Added /\ a.task = u /\ a \in Action
  BY <1>0, ActionFacts DEF Unused
<1>5. a \notin Asked
  <2>1. \A k \in Thread : a \notin hand[k]
    BY DEF Unused
  <2>2. a \notin hand[Owner]
    BY <1>1, <1>4, ActionFacts DEF HandInv
  <2> QED
    BY <1>4, <2>1, <2>2, HeldIs DEF Unused, Asked, Holder
<1>6. ~Complete(u) /\ work[t] \in Counted(u)
  BY <1>0, <1>2, Working
<1>7. \A v \in Task : conts'[v] = IF v = u THEN conts[u] \cup {a} ELSE conts[v]
  BY <1>1, <1>2, <1>3, <1>4 DEF TypeInv
<1>8. TypeInv'
  <2>1. conts' \in [Task -> SUBSET Added]
    BY <1>1, <1>2, <1>4 DEF TypeInv
  <2> QED
    BY <1>1, <1>2, <2>1 DEF TypeInv, setup, poolVars
<1>9. StageInv'
  BY <1>2, <1>3, StageKeep DEF setup, poolVars
<1>10. PlaceInv' /\ Asked' = Asked
  <2>1. \A v \in Task : \A b \in conts'[v] : b.task = v /\ b \notin Asked
    BY <1>1, <1>4, <1>5, <1>7 DEF PlaceInv
  <2> QED
    BY <1>2, <2>1, PlaceKeep DEF poolVars
<1>11. HandInv'
  <2>1. \A v \in Task : IsFiniteSet(conts'[v])
    <3> TAKE v \in Task
    <3>1. IsFiniteSet(conts[v])
      BY <1>1 DEF HandInv
    <3>2. IsFiniteSet(conts[v] \cup {a})
      BY <3>1, FS_AddElement
    <3> QED
      BY <1>7, <3>1, <3>2
  <2> QED
    BY <1>1, <1>2, <2>1 DEF HandInv, setup, poolVars
<1>12. \A v : Counted(v)' = Counted(v)
  BY <1>2 DEF Counted, PendingWork, poolVars
<1>13. \A v \in Task : Complete(v)' <=> Complete(v)
  <2>1. \A v \in Task : Releasing(v)' <=> Releasing(v)
    BY <1>2 DEF Releasing, poolVars
  <2>2. posted' = posted
    BY <1>2 DEF poolVars
  <2>3. ~Complete(u)'
    BY <1>6, <1>12, CompleteNext
  <2> QED
    BY <1>6, <1>7, <1>12, <2>1, <2>2, <2>3, CompleteIs, CompleteNext
<1>14. \A v \in Task : Unmet(v)' = Unmet(v)
  <2>1. \A d, v \in Task : Telling(d, v)' <=> Telling(d, v)
    BY <1>2 DEF Telling, poolVars
  <2>2. waitingFor' = waitingFor
    BY <1>2 DEF setup
  <2> QED
    BY <1>13, <2>1, <2>2, SameUnmet
<1>15. CountInv'
  BY <1>1, <1>2, <1>3, <1>12, <1>14 DEF CountInv
<1>16. BodyInv'
  <2> SUFFICES ASSUME NEW v \in Task
               PROVE  /\ Unmet(v)' = {} <=> v \in roots' \/ Body[v] \in Asked'
                      /\ v \in roots' => Body[v] \notin Asked'
                      /\ \A b \in Added : b.task = v /\ b \in Asked' \cup conts'[v]
                                            => Body[v] \in posted'
                      /\ conts'[v] # {} => Counted(v)' # {}
    BY DEF BodyInv
  <2>1. roots' = roots /\ posted' = posted
    BY <1>2 DEF poolVars
  <2> QED
    BY <1>1, <1>3, <1>6, <1>7, <1>10, <1>12, <1>14, <2>1 DEF BodyInv
<1>17. OverInv'
  <2>1. work' = work
    BY <1>2 DEF poolVars
  <2> QED
    BY <1>2, <1>12, <1>13, <2>1, QuietOver
<1> QED
  BY <1>8, <1>9, <1>10, <1>11, <1>15, <1>16, <1>17 DEF Rest

LEMMA ReleaseInv ==
  ASSUME IInv, NEW t \in Thread, Release(t)
  PROVE  Rest'
<1>1. TypeInv /\ StageInv /\ PlaceInv /\ HandInv /\ BodyInv /\ OverInv
  BY DEF IInv
<1>0. PICK u \in Task, H \in {hand[t]} : u = work[t].task /\ H = hand[t]
  BY Busy DEF Release
<1>2. /\ step[t] = "release" /\ AddCount(u, Cardinality(H))
      /\ step' = [step EXCEPT ![t] = "post"]
      /\ UNCHANGED <<poolVars, stage, setup, roots, conts, hand, tell>>
  BY <1>0 DEF Release, Goto
<1>3. u \in Task /\ Started /\ Started'
  BY <1>0, <1>2, Busy DEF Started
<1>4. /\ H # {} /\ IsFiniteSet(H) /\ \A b \in H : b.task = u
      /\ \A k \in Thread : k # t /\ step[k] = "release" => work[k].task # u
      /\ ~Complete(u) /\ Cardinality(H) \in Nat
  <2>1. IsFiniteSet(H) /\ Cardinality(H) \in Nat
    BY <1>0, <1>1, FS_CardinalityType DEF HandInv
  <2>2. ~Complete(u)
    BY <1>0, <1>2, CompleteIs DEF Releasing
  <2> QED
    BY <1>0, <1>1, <1>2, <1>3, <2>1, <2>2 DEF HandInv, OverInv
<1>5. \A k \in Thread : step'[k] = IF k = t THEN "post" ELSE step[k]
  BY <1>1, <1>2 DEF TypeInv
<1>6. work' = work /\ PendingWork' = PendingWork /\ posted' = posted
  BY <1>2 DEF PendingWork, poolVars
<1>7. TypeInv'
  <2>1. step' \in [Thread -> Labels]
    BY <1>1, <1>2 DEF TypeInv, Labels
  <2>2. waitCount' \in [Task -> Int]
    BY <1>1, <1>2, <1>3, <1>4 DEF TypeInv, AddCount
  <2> QED
    BY <1>1, <1>2, <1>5, <2>1, <2>2 DEF TypeInv, setup, poolVars
<1>8. StageInv'
  BY <1>2, <1>3, StageKeep DEF setup, poolVars
<1>9. PlaceInv' /\ Asked' = Asked
  <2>1. \A v \in Task : \A b \in conts'[v] : b.task = v /\ b \notin Asked
    BY <1>1, <1>2 DEF PlaceInv
  <2>2. \A k \in Thread : step'[k] # "idle" => step[k] # "idle"
    BY <1>2, <1>5
  <2> QED
    BY <1>2, <2>1, <2>2, PlaceKeep DEF poolVars
<1>10. HandInv'
  BY <1>1, <1>2, <1>5, <1>6 DEF HandInv, setup
<1>11. \A b \in H : ~Live(b)
  <2> SUFFICES ASSUME NEW b \in H  PROVE ~Live(b)
    OBVIOUS
  <2>1. t \in Holder /\ Owner \in Holder /\ t # Owner
    BY ThreadAssumption DEF Holder
  <2>2. b \notin posted
    BY <1>0, <1>1, <2>1 DEF PlaceInv
  <2>3. b \notin PendingWork
    BY <1>1, <2>2 DEF PlaceInv
  <2>4. b \notin hand[Owner]
    BY <1>0, <1>1, <2>1 DEF PlaceInv
  <2>5. \A k \in Thread : k # t => b \notin hand[k]
    BY <1>0, <1>1, <2>1 DEF PlaceInv, Holder
  <2>6. \A k \in Thread : step[k] # "idle" => b # work[k]
    BY <1>1, <2>2 DEF PlaceInv
  <2> QED
    BY <1>0, <1>2, <2>3, <2>4, <2>5, <2>6 DEF Live
<1>12. \A b : Live(b)' <=> Live(b) \/ b \in H
  BY <1>0, <1>2, <1>5, <1>6 DEF Live
<1>13. /\ CountInv' /\ OverInv'
       /\ \A v \in Task : Unmet(v)' = Unmet(v)
       /\ \A v \in Task : Counted(v) # {} => Counted(v)' # {}
  <2>1. UNCHANGED <<posted, work, waitingFor, conts, tell>>
    BY <1>2 DEF setup, poolVars
  <2>2. /\ \A k \in Thread : step'[k] = "release" <=> step[k] = "release" /\ work[k].task # u
        /\ \A k \in Thread : step[k] = "release" => hand'[k] = hand[k]
        /\ \A k \in Thread : step'[k] \in {"notify", "schedule", "enqueue"}
                               <=> step[k] \in {"notify", "schedule", "enqueue"}
    BY <1>0, <1>2, <1>4, <1>5
  <2>3. \A b \in H : b.task = u /\ ~Live(b)
    BY <1>4, <1>11
  <2> QED
    BY <1>2, <1>3, <1>4, <1>12, <2>1, <2>2, <2>3, Counts
<1>14. BodyInv'
  <2> SUFFICES ASSUME NEW v \in Task
               PROVE  /\ Unmet(v)' = {} <=> v \in roots' \/ Body[v] \in Asked'
                      /\ v \in roots' => Body[v] \notin Asked'
                      /\ \A b \in Added : b.task = v /\ b \in Asked' \cup conts'[v]
                                            => Body[v] \in posted'
                      /\ conts'[v] # {} => Counted(v)' # {}
    BY DEF BodyInv
  <2> QED
    BY <1>1, <1>2, <1>3, <1>6, <1>9, <1>13 DEF BodyInv
<1> QED
  BY <1>7, <1>8, <1>9, <1>10, <1>13, <1>14 DEF Rest

\* What a thread, or the owner, holds that it has not counted is not live.
LEMMA NotCounted ==
  ASSUME IInv, NEW x \in Holder, NEW b \in hand[x],
         x \in Thread => step[x] \in {"release", "schedule"}, x = Owner => FALSE
  PROVE  ~Live(b)
<1>1. PlaceInv
  BY DEF IInv
<1>2. x \in Thread /\ Owner \in Holder
  BY DEF Holder
<1>3. b \notin posted
  BY <1>1 DEF PlaceInv
<1>4. b \notin PendingWork
  BY <1>1, <1>3 DEF PlaceInv
<1>5. b \notin hand[Owner]
  BY <1>1, <1>2 DEF PlaceInv
<1>6. \A k \in Thread : k # x => b \notin hand[k]
  BY <1>1 DEF PlaceInv, Holder
<1>7. \A k \in Thread : step[k] # "idle" => b # work[k]
  BY <1>1, <1>3 DEF PlaceInv
<1> QED
  BY <1>2, <1>4, <1>5, <1>6, <1>7 DEF Live

LEMMA ScheduleInv ==
  ASSUME IInv, NEW t \in Thread, Schedule(t)
  PROVE  Rest'
<1>1. TypeInv /\ StageInv /\ PlaceInv /\ HandInv /\ BodyInv /\ OverInv
  BY DEF IInv
<1>2. PICK u \in Task : hand[t] = {Body[u]}
  BY <1>1 DEF HandInv, Schedule
<1>3. /\ step[t] = "schedule" /\ AddCount(u, 1)
      /\ step' = [step EXCEPT ![t] = "enqueue"]
      /\ UNCHANGED <<poolVars, stage, setup, roots, conts, hand, tell>>
  BY <1>2, ActionFacts DEF Schedule, Goto
<1>4. Started /\ Started'
  BY <1>3, Busy DEF Started
<1>5. t \in Holder /\ t # Owner
  BY ThreadAssumption DEF Holder
<1>6. ~Live(Body[u]) /\ Body[u] \notin posted
  BY <1>1, <1>2, <1>3, <1>5, NotCounted DEF PlaceInv
<1>7. ~Complete(u) /\ \A k \in Thread : step[k] = "release" => work[k].task # u
  BY <1>6, Busy DEF Complete
<1>8. \A k \in Thread : step'[k] = IF k = t THEN "enqueue" ELSE step[k]
  BY <1>1, <1>3 DEF TypeInv
<1>9. work' = work /\ PendingWork' = PendingWork /\ posted' = posted
  BY <1>3 DEF PendingWork, poolVars
<1>10. TypeInv'
  <2>1. step' \in [Thread -> Labels]
    BY <1>1, <1>3 DEF TypeInv, Labels
  <2>2. waitCount' \in [Task -> Int]
    BY <1>1, <1>3 DEF TypeInv, AddCount
  <2> QED
    BY <1>1, <1>3, <1>8, <2>1, <2>2 DEF TypeInv, setup, poolVars
<1>11. StageInv'
  BY <1>3, <1>4, StageKeep DEF setup, poolVars
<1>12. PlaceInv' /\ Asked' = Asked
  <2>1. \A v \in Task : \A b \in conts'[v] : b.task = v /\ b \notin Asked
    BY <1>1, <1>3 DEF PlaceInv
  <2>2. \A k \in Thread : step'[k] # "idle" => step[k] # "idle"
    BY <1>3, <1>8
  <2> QED
    BY <1>3, <2>1, <2>2, PlaceKeep DEF poolVars
<1>13. HandInv'
  BY <1>1, <1>3, <1>8, <1>9 DEF HandInv, setup
<1>14. /\ CountInv' /\ OverInv'
       /\ \A v \in Task : Unmet(v)' = Unmet(v)
       /\ \A v \in Task : Counted(v) # {} => Counted(v)' # {}
  <2> DEFINE H == {Body[u]}
  <2>1. /\ H # {} /\ IsFiniteSet(H) /\ Cardinality(H) = 1
        /\ \A b \in H : b.task = u /\ ~Live(b)
    BY <1>6, SingleSet, ActionFacts
  <2>2. \A b : Live(b)' <=> Live(b) \/ b \in H
    BY <1>2, <1>3, <1>8, <1>9 DEF Live
  <2> HIDE DEF H
  <2>3. AddCount(u, Cardinality(H))
    BY <1>3, <2>1
  <2>4. UNCHANGED <<posted, work, waitingFor, conts, tell>>
    BY <1>3 DEF setup, poolVars
  <2>5. /\ \A k \in Thread : step'[k] = "release" <=> step[k] = "release" /\ work[k].task # u
        /\ \A k \in Thread : step[k] = "release" => hand'[k] = hand[k]
        /\ \A k \in Thread : step'[k] \in {"notify", "schedule", "enqueue"}
                               <=> step[k] \in {"notify", "schedule", "enqueue"}
    BY <1>3, <1>7, <1>8
  <2> QED
    BY <1>4, <1>7, <2>1, <2>2, <2>3, <2>4, <2>5, Counts
<1>15. BodyInv'
  <2> SUFFICES ASSUME NEW v \in Task
               PROVE  /\ Unmet(v)' = {} <=> v \in roots' \/ Body[v] \in Asked'
                      /\ v \in roots' => Body[v] \notin Asked'
                      /\ \A b \in Added : b.task = v /\ b \in Asked' \cup conts'[v]
                                            => Body[v] \in posted'
                      /\ conts'[v] # {} => Counted(v)' # {}
    BY DEF BodyInv
  <2> QED
    BY <1>1, <1>3, <1>4, <1>9, <1>12, <1>14 DEF BodyInv
<1> QED
  BY <1>10, <1>11, <1>12, <1>13, <1>14, <1>15 DEF Rest

LEMMA SeedInv ==
  ASSUME IInv, NEW u \in Task, Seed(u)
  PROVE  Rest'
<1>1. TypeInv /\ StageInv /\ PlaceInv /\ HandInv /\ BodyInv /\ OverInv
  BY DEF IInv
<1>2. /\ stage = "seed" /\ hand[Owner] = {} /\ u \in roots /\ roots' = roots \ {u}
      /\ AddCount(u, 1) /\ hand' = [hand EXCEPT ![Owner] = {Body[u]}]
      /\ UNCHANGED <<poolVars, stage, setup, conts, step, tell>>
  BY DEF Seed
<1>3. Started /\ Started' /\ Owner \in Holder /\ Owner \notin Thread
  BY <1>2, ThreadAssumption DEF Started, Holder
<1>4. Body[u] \notin Asked /\ Body[u] \notin posted
  BY <1>1, <1>2, <1>3 DEF BodyInv, Asked
<1>5. ~Complete(u) /\ \A k \in Thread : step[k] = "release" => work[k].task # u
  BY <1>4, Busy DEF Complete
<1>6. \A k \in Holder : hand'[k] = IF k = Owner THEN {Body[u]} ELSE hand[k]
  BY <1>1, <1>2 DEF TypeInv
<1>7. work' = work /\ PendingWork' = PendingWork /\ posted' = posted
  BY <1>2 DEF PendingWork, poolVars
<1>8. Body[u] \in Action /\ Body[u].task = u /\ Body[u] \notin Added
  BY ActionFacts
<1>9. TypeInv'
  <2>1. hand' \in [Holder -> SUBSET Action]
    BY <1>1, <1>2, <1>8 DEF TypeInv
  <2>2. waitCount' \in [Task -> Int]
    BY <1>1, <1>2 DEF TypeInv, AddCount
  <2> QED
    BY <1>1, <1>2, <2>1, <2>2 DEF TypeInv, setup, poolVars
<1>10. StageInv'
  BY <1>1, <1>2 DEF StageInv, WaitEdges, setup, poolVars
<1>11. PlaceInv' /\ Asked' = Asked \cup {Body[u]}
  <2>1. \A k \in Thread : step'[k] # "idle" => step[k] # "idle"
    BY <1>2
  <2> DEFINE H == {Body[u]}
  <2>2. H \cap Asked = {} /\ hand' = [hand EXCEPT ![Owner] = H]
    BY <1>2, <1>4
  <2>3. \A v \in Task : \A b \in conts'[v] : b.task = v /\ b \notin Asked \cup H
    BY <1>1, <1>2, <1>8 DEF PlaceInv, TypeInv
  <2> HIDE DEF H
  <2>4. PlaceInv' /\ Asked' = Asked \cup H
    BY <1>2, <1>3, <2>1, <2>2, <2>3, PlaceHand DEF poolVars
  <2> QED
    BY <2>4 DEF H
<1>12. HandInv'
  <2>1. \A k \in Thread : hand'[k] = hand[k]
    BY <1>3, <1>6 DEF Holder
  <2>2. hand'[Owner] = {Body[u]}
    BY <1>3, <1>6
  <2> QED
    BY <1>1, <1>2, <1>7, <2>1, <2>2 DEF HandInv, setup
<1>13. /\ CountInv' /\ OverInv'
       /\ \A v \in Task : Unmet(v)' = Unmet(v)
       /\ \A v \in Task : Counted(v) # {} => Counted(v)' # {}
  <2> DEFINE H == {Body[u]}
  <2>1. /\ H # {} /\ IsFiniteSet(H) /\ Cardinality(H) = 1
        /\ \A b \in H : b.task = u /\ ~Live(b)
    BY <1>4, <1>8, SingleSet, LiveFacts
  <2>2. \A b : Live(b)' <=> Live(b) \/ b \in H
    BY <1>2, <1>3, <1>6, <1>7 DEF Live, Holder
  <2> HIDE DEF H
  <2>3. AddCount(u, Cardinality(H))
    BY <1>2, <2>1
  <2>4. UNCHANGED <<posted, work, waitingFor, conts, tell>>
    BY <1>2 DEF setup, poolVars
  <2>5. /\ \A k \in Thread : step'[k] = "release" <=> step[k] = "release" /\ work[k].task # u
        /\ \A k \in Thread : step[k] = "release" => hand'[k] = hand[k]
        /\ \A k \in Thread : step'[k] \in {"notify", "schedule", "enqueue"}
                               <=> step[k] \in {"notify", "schedule", "enqueue"}
    BY <1>2, <1>3, <1>5, <1>6 DEF Holder
  <2> QED
    BY <1>3, <1>5, <2>1, <2>2, <2>3, <2>4, <2>5, Counts
<1>14. BodyInv'
  <2> SUFFICES ASSUME NEW v \in Task
               PROVE  /\ Unmet(v)' = {} <=> v \in roots' \/ Body[v] \in Asked'
                      /\ v \in roots' => Body[v] \notin Asked'
                      /\ \A b \in Added : b.task = v /\ b \in Asked' \cup conts'[v]
                                            => Body[v] \in posted'
                      /\ conts'[v] # {} => Counted(v)' # {}
    BY DEF BodyInv
  <2>1. v # u => Body[v] # Body[u]
    BY ActionFacts
  <2>2. v \in roots' <=> v \in roots /\ v # u
    BY <1>2
  <2>3. Body[v] \in Asked' <=> Body[v] \in Asked \/ v = u
    BY <1>11, <2>1
  <2>4. \A b \in Added : b \in Asked' <=> b \in Asked
    BY <1>8, <1>11
  <2> QED
    BY <1>1, <1>2, <1>3, <1>7, <1>13, <2>2, <2>3, <2>4 DEF BodyInv
<1> QED
  BY <1>9, <1>10, <1>11, <1>12, <1>13, <1>14 DEF Rest

\* An action ends.  Whoever brings the count to zero leaves the task to be
\* completed by the continuations, or with all the waiting tasks to tell.
LEMMA DecrementInv ==
  ASSUME IInv, NEW t \in Thread, Decrement(t)
  PROVE  Rest'
<1>1. TypeInv /\ StageInv /\ PlaceInv /\ HandInv /\ BodyInv /\ OverInv /\ CountInv
  BY DEF IInv
<1>2. step[t] = "work" /\ AddCount(work[t].task, -1)
  BY DEF Decrement
<1>3. PICK u \in Task, w \in {work[t]} : u = work[t].task /\ w = work[t]
  BY <1>2, Busy
<1>4. /\ UNCHANGED <<poolVars, stage, setup, roots>>
      /\ \/ /\ waitCount'[u] = 0 /\ conts[u] # {}
            /\ hand' = [hand EXCEPT ![t] = conts[u]] /\ conts' = [conts EXCEPT ![u] = {}]
            /\ step' = [step EXCEPT ![t] = "release"] /\ tell' = tell
         \/ /\ waitCount'[u] = 0 /\ conts[u] = {} /\ hand' = hand /\ conts' = conts
            /\ step' = [step EXCEPT ![t] = "notify"]
            /\ tell' = [tell EXCEPT ![t] = waitingFor[u]]
         \/ /\ waitCount'[u] # 0 /\ hand' = hand /\ conts' = conts
            /\ step' = [step EXCEPT ![t] = "notify"] /\ tell' = [tell EXCEPT ![t] = {}]
  BY <1>3 DEF Decrement, Goto
<1>5. /\ Started /\ Started' /\ Body[u] \in posted /\ w \in posted
      /\ t \in Holder /\ t # Owner
  BY <1>2, <1>3, <1>4, Busy, ThreadAssumption DEF Started, Holder
<1>6. /\ Live(w) /\ w.task = u /\ w \in Counted(u) /\ ~Complete(u) /\ Unmet(u) = {}
      /\ \A k \in Thread : step[k] = "release" => work[k].task # u
      /\ \A k \in Thread : tell[k] # {} => work[k].task # u
      /\ hand[t] = {} /\ tell[t] = {}
  BY <1>1, <1>2, <1>3, Working DEF HandInv
<1>7. /\ \A k \in Thread : k # t => step'[k] = step[k] /\ tell'[k] = tell[k] /\ hand'[k] = hand[k]
      /\ hand'[Owner] = hand[Owner]
      /\ \A v \in Task : v # u => conts'[v] = conts[v]
      /\ step' \in [Thread -> Labels] /\ step'[t] \in {"release", "notify"}
      /\ \/ /\ waitCount'[u] = 0 /\ conts[u] # {} /\ hand'[t] = conts[u] /\ conts'[u] = {}
            /\ step'[t] = "release" /\ tell'[t] = {}
         \/ /\ waitCount'[u] = 0 /\ conts[u] = {} /\ hand'[t] = {} /\ conts'[u] = conts[u]
            /\ step'[t] = "notify" /\ tell'[t] = waitingFor[u]
         \/ /\ waitCount'[u] # 0 /\ hand'[t] = {} /\ conts'[u] = conts[u]
            /\ step'[t] = "notify" /\ tell'[t] = {}
  BY <1>1, <1>4, <1>5, <1>6 DEF TypeInv, Labels, Holder
<1>8. /\ work' = work /\ posted' = posted /\ PendingWork' = PendingWork
      /\ waitingFor' = waitingFor
  BY <1>4 DEF PendingWork, poolVars, setup
<1>9. \A b : Live(b)' <=> Live(b) /\ b # w
  <2>1. w \notin PendingWork /\ \A k \in Holder : w \notin hand[k]
    <3>1. w \notin PendingWork
      BY <1>2, <1>3, Busy
    <3>2. \A k \in Holder : w \notin hand[k]
      BY <1>1, <1>5 DEF PlaceInv
    <3> QED
      BY <3>1, <3>2
  <2>2. \A k \in Thread : k # t /\ step[k] # "idle" => work[k] # w
    BY <1>1, <1>3 DEF PlaceInv
  <2>3. ASSUME NEW b  PROVE Live(b)' <=> Live(b) /\ b # w
    <3>1. b \in PendingWork' <=> b \in PendingWork /\ b # w
      BY <1>8, <2>1
    <3>2. b \in hand'[Owner] <=> b \in hand[Owner] /\ b # w
      BY <1>7, <2>1 DEF Holder
    <3>3. \A k \in Thread : (step'[k] \in {"augment", "post", "enqueue"} /\ b \in hand'[k])
                  <=> (step[k] \in {"augment", "post", "enqueue"} /\ b \in hand[k] /\ b # w)
      BY <1>2, <1>7, <2>1 DEF Holder
    <3>4. \A k \in Thread : (step'[k] \in {"work", "augment"} /\ b = work'[k])
                  <=> (step[k] \in {"work", "augment"} /\ b = work[k] /\ b # w)
      BY <1>2, <1>3, <1>7, <1>8, <2>2
    <3> QED
      BY <3>1, <3>2, <3>3, <3>4 DEF Live
  <2> QED
    BY <2>3
<1>10. /\ Counted(u)' = Counted(u) \ {w}
       /\ IsFiniteSet(Counted(u)') /\ Cardinality(Counted(u)') = Cardinality(Counted(u)) - 1
       /\ \A v : v # u => Counted(v)' = Counted(v)
  <2>1. IsFiniteSet(Counted(u))
    BY <1>1, <1>5 DEF CountInv
  <2> QED
    BY <1>6, <1>9, <2>1, Leaves
<1>11. /\ waitCount' \in [Task -> Int]
       /\ waitCount'[u] = Cardinality(Counted(u)')
       /\ waitCount'[u] = 0 <=> Counted(u)' = {}
  <2>1. waitCount' \in [Task -> Int] /\ waitCount'[u] = waitCount[u] - 1
    BY <1>1, <1>2, <1>3 DEF AddCount, TypeInv
  <2>2. waitCount[u] = Cardinality(Counted(u))
    <3>1. /\ Cardinality(Unmet(u)) = 0
          /\ waitCount[u] = Cardinality(Unmet(u)) + Cardinality(Counted(u))
          /\ IsFiniteSet(Counted(u))
      BY <1>1, <1>5, <1>6, FS_EmptySet DEF CountInv
    <3>2. Cardinality(Counted(u)) \in Nat
      BY <3>1, FS_CardinalityType
    <3> QED
      BY <3>1, <3>2
  <2>3. Cardinality(Counted(u)') = 0 <=> Counted(u)' = {}
    BY <1>10, FS_EmptySet
  <2> QED
    BY <1>10, <2>1, <2>2, <2>3
<1>12. TypeInv'
  <2>1. hand' \in [Holder -> SUBSET Action] /\ conts' \in [Task -> SUBSET Added]
    BY <1>1, <1>4, ActionFacts DEF TypeInv
  <2>2. tell' \in [Thread -> SUBSET Task]
    BY <1>1, <1>4 DEF TypeInv
  <2>3. \A k \in Thread : step'[k] = "idle" <=> step[k] = "idle"
    BY <1>2, <1>7
  <2> QED
    BY <1>1, <1>4, <1>7, <1>11, <2>1, <2>2, <2>3 DEF TypeInv, setup, poolVars
<1>13. StageInv'
  BY <1>4, <1>5, <1>7, StageKeep DEF setup, poolVars
<1>14. PlaceInv' /\ \/ Asked' = Asked
                    \/ conts'[u] = {} /\ Asked' = Asked \cup conts[u]
  <2>1. \A k \in Thread : step'[k] # "idle" => step[k] # "idle"
    BY <1>2, <1>7
  <2>2. CASE hand' = hand /\ conts' = conts
    <3>1. \A v \in Task : \A b \in conts'[v] : b.task = v /\ b \notin Asked
      BY <1>1, <2>2 DEF PlaceInv
    <3> QED
      BY <1>4, <2>1, <2>2, <3>1, PlaceKeep DEF poolVars
  <2>3. CASE hand' = [hand EXCEPT ![t] = conts[u]] /\ conts' = [conts EXCEPT ![u] = {}]
    <3>1. PICK H : H = conts[u]
      OBVIOUS
    <3>2. H \cap Asked = {}
      BY <1>1, <3>1 DEF PlaceInv
    <3>3. conts'[u] = {} /\ \A v \in Task : v # u => conts'[v] = conts[v]
      BY <1>1, <2>3 DEF TypeInv
    <3>4. \A v \in Task : \A b \in conts'[v] : b.task = v /\ b \notin Asked \cup H
      BY <1>1, <3>1, <3>3 DEF PlaceInv
    <3>5. hand' = [hand EXCEPT ![t] = H]
      BY <2>3, <3>1
    <3>6. posted' = posted /\ pending' = pending /\ work' = work
      BY <1>4 DEF poolVars
    <3>7. PlaceInv' /\ Asked' = Asked \cup H
      BY <1>5, <1>6, <2>1, <3>2, <3>4, <3>5, <3>6, PlaceHand
    <3> QED
      BY <3>1, <3>3, <3>7
  <2> QED
    BY <1>4, <2>2, <2>3
<1>15. HandInv'
  <2>1. ASSUME NEW k \in Thread
        PROVE  /\ IsFiniteSet(hand'[k])
               /\ step'[k] \in {"idle", "work", "notify"} => hand'[k] = {}
               /\ step'[k] = "augment" => \E b \in Added : hand'[k] = {b}
               /\ step'[k] \in {"augment", "release", "post"} =>
                    \A b \in hand'[k] : b \in Added /\ b.task = work'[k].task
               /\ step'[k] \in {"schedule", "enqueue"} => \E v \in Task : hand'[k] = {Body[v]}
               /\ step'[k] \notin {"notify", "schedule", "enqueue"} => tell'[k] = {}
               /\ tell'[k] # {} => tell'[k] \subseteq waitingFor'[work'[k].task]
    <3>1. CASE k # t
      BY <1>1, <1>7, <1>8, <3>1 DEF HandInv
    <3>2. CASE k = t
      <4>1. IsFiniteSet(conts[u]) /\ IsFiniteSet({})
        BY <1>1, FS_EmptySet DEF HandInv
      <4>2. \A b \in conts[u] : b \in Added /\ b.task = u
        BY <1>1 DEF TypeInv, PlaceInv
      <4> QED
        BY <1>3, <1>7, <1>8, <3>2, <4>1, <4>2
    <3> QED
      BY <3>1, <3>2
  <2>2. \A v \in Task : IsFiniteSet(conts'[v])
    <3>1. \A v \in Task : IsFiniteSet(conts[v])
      BY <1>1 DEF HandInv
    <3>2. \A v \in Task : conts'[v] = conts[v] \/ conts'[v] = {}
      BY <1>7
    <3> QED
      BY <3>1, <3>2, FS_EmptySet
  <2> QED
    BY <1>1, <1>7, <2>1, <2>2 DEF HandInv
<1>16. \A v \in Task : v # u => (Complete(v)' <=> Complete(v))
  <2>1. \A v : v # u => (Releasing(v)' <=> Releasing(v))
    BY <1>2, <1>3, <1>7, <1>8 DEF Releasing
  <2> QED
    BY <1>7, <1>8, <1>10, <2>1, CompleteIs, CompleteNext
<1>17. \A x \in waitingFor[u] : ~Complete(u)' \/ Telling(u, x)'
  <2> SUFFICES ASSUME NEW x \in waitingFor[u], ~Telling(u, x)'  PROVE ~Complete(u)'
    OBVIOUS
  <2>1. tell'[t] = waitingFor[u] => FALSE
    <3>1. step'[t] = "release" => tell'[t] = {}
      BY <1>7
    <3> QED
      BY <1>3, <1>7, <1>8, <3>1 DEF Telling
  <2>2. CASE step'[t] = "release"
    BY <1>3, <1>8, <2>2, CompleteNext DEF Releasing
  <2>3. CASE waitCount'[u] # 0
    BY <1>11, <2>3, CompleteNext
  <2> QED
    BY <1>7, <2>1, <2>2, <2>3
<1>18. \A d, x \in Task : d # u => (Telling(d, x)' <=> Telling(d, x))
  BY <1>2, <1>3, <1>7, <1>8 DEF Telling
<1>19. \A x \in Task : Unmet(x)' = Unmet(x)
  <2> TAKE x \in Task
  <2>1. \A d \in Task : (x \in waitingFor'[d] /\ (~Complete(d)' \/ Telling(d, x)'))
                          <=> (x \in waitingFor[d] /\ (~Complete(d) \/ Telling(d, x)))
    BY <1>6, <1>8, <1>16, <1>17, <1>18
  <2> QED
    BY <2>1, UnmetIs, UnmetNext
<1>20. CountInv'
  <2>1. -1 \in Int /\ AddCount(u, -1) /\ Cardinality(Counted(u)') = Cardinality(Counted(u)) + (-1)
    <3>1. IsFiniteSet(Counted(u))
      BY <1>1, <1>5 DEF CountInv
    <3>2. Cardinality(Counted(u)) \in Nat
      BY <3>1, FS_CardinalityType
    <3> QED
      BY <1>2, <1>3, <1>10, <3>2
  <2> QED
    BY <1>5, <1>10, <1>19, <2>1, CountShift
<1>21. BodyInv'
  <2> SUFFICES ASSUME NEW v \in Task
               PROVE  /\ Unmet(v)' = {} <=> v \in roots' \/ Body[v] \in Asked'
                      /\ v \in roots' => Body[v] \notin Asked'
                      /\ \A b \in Added : b.task = v /\ b \in Asked' \cup conts'[v]
                                            => Body[v] \in posted'
                      /\ conts'[v] # {} => Counted(v)' # {}
    BY DEF BodyInv
  <2>1. Body[v] \in Asked' <=> Body[v] \in Asked
    BY <1>1, <1>14, ActionFacts DEF TypeInv
  <2>2. \A b \in Added : b.task = v /\ b \in Asked' \cup conts'[v] => b \in Asked \cup conts[v]
    BY <1>1, <1>7, <1>14 DEF PlaceInv
  <2>3. conts'[v] # {} => Counted(v)' # {}
    <3>1. CASE v # u
      BY <1>1, <1>5, <1>7, <1>10, <3>1 DEF BodyInv
    <3>2. CASE v = u
      BY <1>7, <1>11, <3>2
    <3> QED
      BY <3>1, <3>2
  <2>4. roots' = roots
    BY <1>4
  <2> QED
    BY <1>1, <1>5, <1>8, <1>19, <2>1, <2>2, <2>3, <2>4 DEF BodyInv
<1>22. OverInv'
  <2> SUFFICES ASSUME NEW k \in Thread, NEW v \in Task, work'[k].task = v
               PROVE  /\ step'[k] = "release" =>
                           /\ hand'[k] # {} /\ Counted(v)' = {}
                           /\ \A j \in Thread : j # k /\ step'[j] = "release"
                                                  => work'[j].task # v
                      /\ tell'[k] # {} =>
                           /\ Complete(v)'
                           /\ \A j \in Thread : j # k /\ tell'[j] # {} => work'[j].task # v
    BY DEF OverInv
  <2>1. CASE k = t
    <3>1. v = u
      BY <1>3, <1>8, <2>1
    <3>2. ASSUME step'[k] = "release"
          PROVE  /\ hand'[k] # {} /\ Counted(v)' = {}
                 /\ \A j \in Thread : j # k /\ step'[j] = "release" => work'[j].task # v
      BY <1>6, <1>7, <1>8, <1>11, <2>1, <3>1, <3>2
    <3>3. ASSUME tell'[k] # {}
          PROVE  /\ Complete(v)'
                 /\ \A j \in Thread : j # k /\ tell'[j] # {} => work'[j].task # v
      <4>1. step'[t] = "notify" /\ conts'[u] = {} /\ Counted(u)' = {}
        BY <1>7, <1>11, <2>1, <3>3
      <4>2. ~Releasing(u)'
        BY <1>6, <1>7, <1>8, <4>1 DEF Releasing
      <4>3. Complete(u)'
        BY <1>5, <1>8, <4>1, <4>2, CompleteNext
      <4> QED
        BY <1>6, <1>7, <1>8, <2>1, <3>1, <4>3
    <3> QED
      BY <3>2, <3>3
  <2>2. CASE k # t
    <3>1. step'[k] = step[k] /\ tell'[k] = tell[k] /\ hand'[k] = hand[k] /\ work[k].task = v
      BY <1>7, <1>8, <2>2
    <3>2. ASSUME step'[k] = "release"
          PROVE  /\ hand'[k] # {} /\ Counted(v)' = {}
                 /\ \A j \in Thread : j # k /\ step'[j] = "release" => work'[j].task # v
      <4>1. v # u
        BY <1>6, <3>1, <3>2
      <4>2. /\ hand[k] # {} /\ Counted(v) = {}
            /\ \A j \in Thread : j # k /\ step[j] = "release" => work[j].task # v
        BY <1>1, <3>1, <3>2 DEF OverInv
      <4>3. hand'[k] # {} /\ Counted(v)' = {}
        BY <1>10, <3>1, <4>1, <4>2
      <4>4. ASSUME NEW j \in Thread, j # k, step'[j] = "release"  PROVE work'[j].task # v
        BY <1>3, <1>7, <1>8, <4>1, <4>2, <4>4
      <4> QED
        BY <4>3, <4>4
    <3>3. ASSUME tell'[k] # {}
          PROVE  /\ Complete(v)'
                 /\ \A j \in Thread : j # k /\ tell'[j] # {} => work'[j].task # v
      <4>1. v # u
        BY <1>6, <3>1, <3>3
      <4> QED
        BY <1>1, <1>3, <1>7, <1>8, <1>16, <3>1, <3>3, <4>1 DEF OverInv
    <3> QED
      BY <3>2, <3>3
  <2> QED
    BY <2>1, <2>2
<1> QED
  BY <1>12, <1>13, <1>14, <1>15, <1>20, <1>21, <1>22 DEF Rest

\* A waiting task is told by one thread, once, that a task it waits for is
\* complete.  If that was the last one, nothing of the task was counted.
LEMMA TellInv ==
  ASSUME IInv, NEW t \in Thread, Tell(t)
  PROVE  Rest'
<1>1. TypeInv /\ StageInv /\ PlaceInv /\ HandInv /\ BodyInv /\ OverInv /\ CountInv
  BY DEF IInv
<1>2. PICK x \in tell[t] :
        /\ step[t] = "notify" /\ tell' = [tell EXCEPT ![t] = @ \ {x}] /\ AddCount(x, -1)
        /\ \/ /\ waitCount'[x] = 0 /\ hand' = [hand EXCEPT ![t] = {Body[x]}]
              /\ step' = [step EXCEPT ![t] = "schedule"]
           \/ waitCount'[x] # 0 /\ hand' = hand /\ step' = step
        /\ UNCHANGED <<poolVars, stage, setup, roots, conts>>
  BY DEF Tell, Goto
<1>3. PICK d \in Task : d = work[t].task
  BY <1>2, Busy
<1>4. /\ x \in Task /\ Started /\ Started' /\ t \in Holder /\ t # Owner
      /\ hand[t] = {} /\ x \in waitingFor[d]
  BY <1>1, <1>2, <1>3, Busy, ThreadAssumption DEF Started, Holder, HandInv, TypeInv
<1>5. /\ Complete(d) /\ Telling(d, x)
      /\ \A k \in Thread : k # t /\ tell[k] # {} => work[k].task # d
  BY <1>1, <1>2, <1>3 DEF OverInv, Telling
<1>6. d \in Unmet(x)
  BY <1>4, <1>5, UnmetIs
<1>7. Body[x] \notin Asked /\ Counted(x) = {} /\ x \notin roots
  BY <1>1, <1>4, <1>6, NotYet DEF BodyInv
<1>8. /\ \A k \in Thread : k # t => step'[k] = step[k] /\ hand'[k] = hand[k] /\ tell'[k] = tell[k]
      /\ hand'[Owner] = hand[Owner]
      /\ tell'[t] = tell[t] \ {x} /\ tell' \in [Thread -> SUBSET Task]
      /\ step' \in [Thread -> Labels] /\ step'[t] \in {"notify", "schedule"}
      /\ \/ waitCount'[x] = 0 /\ hand'[t] = {Body[x]} /\ step'[t] = "schedule"
         \/ waitCount'[x] # 0 /\ hand'[t] = {} /\ step'[t] = "notify"
  BY <1>1, <1>2, <1>4 DEF TypeInv, Labels, Holder
<1>9. /\ work' = work /\ posted' = posted /\ PendingWork' = PendingWork
      /\ waitingFor' = waitingFor /\ conts' = conts /\ roots' = roots
  BY <1>2 DEF PendingWork, poolVars, setup
<1>10. Body[x] \in Action /\ Body[x].task = x /\ Body[x] \notin Added
  BY <1>4, ActionFacts
<1>11. \A b : Live(b)' <=> Live(b)
  BY <1>2, <1>4, <1>8, <1>9 DEF Live
<1>12. \A v : Counted(v)' = Counted(v)
  BY <1>11, SameCounted
<1>13. \A v \in Task : Complete(v)' <=> Complete(v)
  <2>1. \A v : Releasing(v)' <=> Releasing(v)
    BY <1>2, <1>8, <1>9 DEF Releasing
  <2> QED
    BY <1>9, <1>12, <2>1, CompleteIs, CompleteNext
<1>14. \A e, v \in Task : Telling(e, v)' <=> Telling(e, v) /\ ~(e = d /\ v = x)
  <2>1. ASSUME NEW e \in Task, NEW v \in Task, NEW k \in Thread
        PROVE  (step'[k] \in {"notify", "schedule", "enqueue"} /\ work'[k].task = e /\ v \in tell'[k])
                 <=> /\ step[k] \in {"notify", "schedule", "enqueue"} /\ work[k].task = e
                     /\ v \in tell[k] /\ ~(e = d /\ v = x)
    <3>1. CASE k = t
      BY <1>2, <1>3, <1>8, <1>9, <3>1
    <3>2. CASE k # t
      BY <1>5, <1>8, <1>9, <3>2
    <3> QED
      BY <3>1, <3>2
  <2> QED
    BY <2>1 DEF Telling
<1>15. Unmet(x)' = Unmet(x) \ {d} /\ \A v \in Task : v # x => Unmet(v)' = Unmet(v)
  <2>1. Unmet(x)' = Unmet(x) \ {d}
    BY <1>4, <1>5, <1>9, <1>13, <1>14, UnmetIs, UnmetNext
  <2>2. \A v \in Task : v # x => Unmet(v)' = Unmet(v)
    BY <1>9, <1>13, <1>14, UnmetIs, UnmetNext
  <2> QED
    BY <2>1, <2>2
<1>16. /\ \A v \in Task : waitCount'[v] = IF v = x THEN waitCount[v] - 1 ELSE waitCount[v]
       /\ waitCount' \in [Task -> Int]
  BY <1>1, <1>2, <1>4 DEF AddCount, TypeInv
<1>17. /\ waitCount'[x] = Cardinality(Unmet(x)') /\ Cardinality(Counted(x)') = 0
       /\ waitCount'[x] = 0 <=> Unmet(x)' = {}
  <2> DEFINE U == Unmet(x)
             V == Unmet(x)'
  <2>1. IsFiniteSet(U) /\ Cardinality(U) \in Nat /\ d \in U /\ V = U \ {d}
    BY <1>6, <1>15, UnmetFinite
  <2>2. Cardinality(Counted(x)) = 0 /\ waitCount[x] = Cardinality(U) + Cardinality(Counted(x))
    BY <1>1, <1>4, <1>7, FS_EmptySet DEF CountInv
  <2>3. Counted(x)' = {}
    BY <1>7, <1>12
  <2> HIDE DEF U, V
  <2>4. IsFiniteSet(V) /\ Cardinality(V) = Cardinality(U) - 1
    BY <2>1, FS_RemoveElement
  <2>5. Cardinality(V) = 0 <=> V = {}
    BY <2>4, FS_EmptySet
  <2>6. waitCount'[x] = Cardinality(V)
    BY <1>4, <1>16, <2>1, <2>2, <2>4
  <2>7. Cardinality(Counted(x)') = 0
    BY <2>3, FS_EmptySet
  <2> QED
    BY <2>5, <2>6, <2>7 DEF V
<1>18. CountInv'
  <2> SUFFICES ASSUME NEW v \in Task
               PROVE  /\ IsFiniteSet(Counted(v)')
                      /\ waitCount'[v] = Cardinality(Unmet(v)') + Cardinality(Counted(v)')
    BY <1>4 DEF CountInv
  <2>1. IsFiniteSet(Counted(v)')
    BY <1>1, <1>4, <1>12 DEF CountInv
  <2>2. CASE v = x
    BY <1>4, <1>16, <1>17, <2>1, <2>2
  <2>3. CASE v # x
    BY <1>1, <1>4, <1>12, <1>15, <1>16, <2>3 DEF CountInv
  <2> QED
    BY <2>1, <2>2, <2>3
<1>19. TypeInv'
  <2>1. hand' \in [Holder -> SUBSET Action]
    BY <1>1, <1>2, <1>10 DEF TypeInv
  <2>2. \A k \in Thread : step'[k] = "idle" <=> step[k] = "idle"
    BY <1>2, <1>8
  <2> QED
    BY <1>1, <1>2, <1>8, <1>16, <2>1, <2>2 DEF TypeInv, setup, poolVars
<1>20. StageInv'
  BY <1>2, <1>4, <1>8, StageKeep DEF setup, poolVars
<1>21. PlaceInv' /\ Asked' = IF waitCount'[x] = 0 THEN Asked \cup {Body[x]} ELSE Asked
  <2>1. \A k \in Thread : step'[k] # "idle" => step[k] # "idle"
    BY <1>2, <1>8
  <2>2. posted' = posted /\ pending' = pending /\ work' = work
    BY <1>2 DEF poolVars
  <2>3. CASE waitCount'[x] # 0
    <3>1. \A v \in Task : \A b \in conts'[v] : b.task = v /\ b \notin Asked
      BY <1>1, <1>9 DEF PlaceInv
    <3>2. hand' = hand
      BY <1>2, <2>3
    <3> QED
      BY <2>1, <2>2, <2>3, <3>1, <3>2, PlaceKeep
  <2>4. CASE waitCount'[x] = 0
    <3> DEFINE H == {Body[x]}
    <3>1. H \cap Asked = {} /\ hand' = [hand EXCEPT ![t] = H]
      BY <1>2, <1>7, <2>4
    <3>2. \A v \in Task : \A b \in conts'[v] : b.task = v /\ b \notin Asked \cup H
      BY <1>1, <1>9, <1>10 DEF PlaceInv, TypeInv
    <3> HIDE DEF H
    <3>3. PlaceInv' /\ Asked' = Asked \cup H
      BY <1>4, <2>1, <2>2, <3>1, <3>2, PlaceHand
    <3> QED
      BY <2>4, <3>3 DEF H
  <2> QED
    BY <2>3, <2>4
<1>22. HandInv'
  <2>1. ASSUME NEW k \in Thread
        PROVE  /\ IsFiniteSet(hand'[k])
               /\ step'[k] \in {"idle", "work", "notify"} => hand'[k] = {}
               /\ step'[k] = "augment" => \E b \in Added : hand'[k] = {b}
               /\ step'[k] \in {"augment", "release", "post"} =>
                    \A b \in hand'[k] : b \in Added /\ b.task = work'[k].task
               /\ step'[k] \in {"schedule", "enqueue"} => \E v \in Task : hand'[k] = {Body[v]}
               /\ step'[k] \notin {"notify", "schedule", "enqueue"} => tell'[k] = {}
               /\ tell'[k] # {} => tell'[k] \subseteq waitingFor'[work'[k].task]
    <3>1. CASE k # t
      BY <1>1, <1>8, <1>9, <3>1 DEF HandInv
    <3>2. CASE k = t
      <4>1. IsFiniteSet({Body[x]}) /\ IsFiniteSet({})
        BY SingleSet, FS_EmptySet
      <4>2. tell'[t] \subseteq waitingFor'[work'[t].task]
        BY <1>1, <1>2, <1>8, <1>9 DEF HandInv
      <4> QED
        BY <1>4, <1>8, <3>2, <4>1, <4>2
    <3> QED
      BY <3>1, <3>2
  <2> QED
    BY <1>1, <1>8, <1>9, <2>1 DEF HandInv
<1>23. BodyInv'
  <2> SUFFICES ASSUME NEW v \in Task
               PROVE  /\ Unmet(v)' = {} <=> v \in roots' \/ Body[v] \in Asked'
                      /\ v \in roots' => Body[v] \notin Asked'
                      /\ \A b \in Added : b.task = v /\ b \in Asked' \cup conts'[v]
                                            => Body[v] \in posted'
                      /\ conts'[v] # {} => Counted(v)' # {}
    BY DEF BodyInv
  <2>1. v # x => Body[v] # Body[x]
    BY <1>10, ActionFacts
  <2>2. \A b \in Added : b \in Asked' <=> b \in Asked
    BY <1>10, <1>21
  <2>3. /\ \A b \in Added : b.task = v /\ b \in Asked' \cup conts'[v] => Body[v] \in posted'
        /\ conts'[v] # {} => Counted(v)' # {}
    BY <1>1, <1>4, <1>9, <1>12, <2>2 DEF BodyInv
  <2>4. CASE v = x
    BY <1>7, <1>9, <1>17, <1>21, <2>3, <2>4
  <2>5. CASE v # x
    <3>1. Body[v] \in Asked' <=> Body[v] \in Asked
      BY <1>21, <2>1, <2>5
    <3> QED
      BY <1>1, <1>4, <1>9, <1>15, <2>3, <2>5, <3>1 DEF BodyInv
  <2> QED
    BY <2>4, <2>5
<1>24. OverInv'
  <2> SUFFICES ASSUME NEW k \in Thread, NEW v \in Task, work'[k].task = v
               PROVE  /\ step'[k] = "release" =>
                           /\ hand'[k] # {} /\ Counted(v)' = {}
                           /\ \A j \in Thread : j # k /\ step'[j] = "release"
                                                  => work'[j].task # v
                      /\ tell'[k] # {} =>
                           /\ Complete(v)'
                           /\ \A j \in Thread : j # k /\ tell'[j] # {} => work'[j].task # v
    BY DEF OverInv
  <2>1. \A j \in Thread : /\ step'[j] = "release" => step[j] = "release" /\ hand'[j] = hand[j]
                          /\ tell'[j] # {} => tell[j] # {}
    BY <1>8
  <2>2. work[k].task = v /\ work' = work
    BY <1>9
  <2> QED
    BY <1>1, <1>12, <1>13, <2>1, <2>2 DEF OverInv
<1> QED
  BY <1>18, <1>19, <1>20, <1>21, <1>22, <1>23, <1>24 DEF Rest

-----------------------------------------------------------------------------
(***************************************************************************)
(* The steps of the pool, and the theorems.                                *)
(***************************************************************************)
\* Every step is one of the pool or leaves it alone.
LEMMA InPool ==
  ASSUME IInv, [Next]_vars
  PROVE  [Pool!Next]_poolVars
<1>1. TypeInv
  BY DEF IInv
<1>2. \A x \in Holder : \A a \in hand[x] : a \in Action /\ priority[a.task] \in Priority
  BY <1>1, ActionFacts DEF TypeInv
<1>3. CASE UNCHANGED vars
  BY <1>3 DEF vars
<1>4. CASE StartThreads
  BY <1>4 DEF StartThreads, Pool!Next
<1>5. CASE Run
  BY <1>5 DEF Run
<1>6. CASE OwnerStep
  <2>1. CASE \E t \in Task : Seed(t)
    BY <2>1 DEF Seed
  <2>2. CASE SeedPost
    <3>1. PICK a \in hand[Owner] : Pool!OwnerPosts(priority[a.task], a)
      BY <2>2 DEF SeedPost
    <3>2. a \in Action /\ priority[a.task] \in Priority
      BY <1>2 DEF Holder
    <3> QED
      BY <3>1, <3>2 DEF Pool!Next
  <2>3. CASE JoinPool
    BY <2>3 DEF JoinPool, Pool!Next
  <2>4. CASE Return
    BY <2>4 DEF Return
  <2>5. CASE OwnerInPool
    BY <2>5 DEF OwnerInPool, Pool!Next
  <2> QED
    BY <1>6, <2>1, <2>2, <2>3, <2>4, <2>5 DEF OwnerStep
<1>7. CASE SpuriousWakeup
  BY <1>7 DEF SpuriousWakeup, Pool!Next
<1>8. ASSUME NEW e \in Edges, AddDependency(e[1], e[2])  PROVE UNCHANGED poolVars
  BY <1>8 DEF AddDependency
<1>9. ASSUME NEW t \in Thread, ThreadStep(t)  PROVE [Pool!Next]_poolVars
  <2>1. CASE FetchWork(t)
    BY <2>1 DEF FetchWork, Pool!Next, Pool!ThreadNext
  <2>2. CASE ThreadInPool(t)
    BY <2>2 DEF ThreadInPool, Pool!Next, Pool!ThreadNext
  <2>3. CASE FinishWork(t)
    BY <2>3 DEF FinishWork, Pool!Next, Pool!ThreadNext
  <2>4. CASE Augment(t) \/ Defer(t) \/ Decrement(t) \/ Release(t) \/ Tell(t) \/ Schedule(t)
    BY <2>4 DEF Augment, Defer, Decrement, Release, Tell, Schedule
  <2>5. CASE AugmentPost(t) \/ PostContinuation(t) \/ SchedulePost(t)
    <3>1. PICK a \in hand[t] : Pool!WorkPosts(t, priority[a.task], a)
      BY <2>5 DEF AugmentPost, PostContinuation, SchedulePost, PostHand
    <3>2. a \in Action /\ priority[a.task] \in Priority
      BY <1>2 DEF Holder
    <3> QED
      BY <3>1, <3>2 DEF Pool!Next
  <2> QED
    BY <1>9, <2>1, <2>2, <2>3, <2>4, <2>5 DEF ThreadStep
<1> QED
  BY <1>3, <1>4, <1>5, <1>6, <1>7, <1>8, <1>9 DEF Next

LEMMA DagInitInv == Init => IInv
<1> SUFFICES ASSUME Init  PROVE IInv
  OBVIOUS
<1>1. /\ pending = <<>> /\ pc = [t \in Thread |-> "absent"] /\ posted = {} /\ main = "new"
      /\ work = [t \in Thread |-> NoWork] /\ PP!Inv
  BY PoolInitInv DEF Init, Pool!Init
<1>2. TypeInv
  BY <1>1, PoolAssumptions DEF Init, TypeInv, Labels, Holder
<1>3. Held = {} /\ PendingWork = {} /\ Each
  <2>1. \A t \in Holder : hand[t] = {}
    BY DEF Init, Holder
  <2>2. DOMAIN pending = {}
    BY <1>1, LenProperties, EmptySeq
  <2>3. Held = {}
    BY <2>1, HeldIs
  <2> QED
    BY <2>2, <2>3 DEF PendingWork, Each
<1>4. StageInv
  <2>1. \A u \in Task : {d \in Task : u \in waitingFor[d]} = {}
    BY DEF Init
  <2>2. \A u \in Task : counts[u] = Cardinality({d \in Task : u \in waitingFor[d]})
    BY <2>1, FS_EmptySet DEF Init
  <2>3. hand[Owner] = {}
    BY DEF Init
  <2> QED
    BY <1>1, <1>3, <2>2, <2>3 DEF Init, StageInv, WaitEdges
<1>5. PlaceInv
  BY <1>1, <1>3 DEF Init, PlaceInv, Holder
<1>6. HandInv
  BY FS_EmptySet DEF Init, HandInv
<1>7. BodyInv /\ CountInv
  BY DEF Init, BodyInv, CountInv, Started
<1>8. OverInv
  BY DEF Init, OverInv
<1> QED
  BY <1>1, <1>2, <1>4, <1>5, <1>6, <1>7, <1>8 DEF IInv

LEMMA DagNextInv == IInv /\ [Next]_vars => IInv'
<1> SUFFICES ASSUME IInv, [Next]_vars  PROVE IInv'
  OBVIOUS
<1>1. PP!Inv'
  BY InPool, PoolNextInv DEF IInv
<1>2. CASE UNCHANGED vars
  <2>1. TypeInv' /\ StageInv'
    BY <1>2 DEF IInv, TypeInv, StageInv, WaitEdges, Held, vars, poolVars, setup
  <2>2. PlaceInv' /\ HandInv' /\ BodyInv' /\ OverInv' /\ CountInv'
    BY <1>2, Unmoved DEF vars, poolVars, setup, Started
  <2> QED
    BY <1>1, <2>1, <2>2 DEF IInv
<1>3. CASE Next
  <2>1. Rest'
    <3>1. CASE StartThreads \/ SpuriousWakeup
      BY <3>1, PoolSteps, PoolStepInv
    <3>2. CASE Run
      BY <3>2, RunInv
    <3>3. CASE OwnerStep
      BY <3>3, SeedInv, PostsInv, JoinPoolInv, ReturnInv, PoolSteps, PoolStepInv DEF OwnerStep
    <3>4. ASSUME NEW e \in Edges, AddDependency(e[1], e[2])  PROVE Rest'
      BY <3>4, AddDependencyInv
    <3>5. ASSUME NEW t \in Thread, ThreadStep(t)  PROVE Rest'
      <4>1. CASE FetchWork(t)
        BY <4>1, FetchWorkInv
      <4>2. CASE ThreadInPool(t)
        BY <4>2, PoolSteps, PoolStepInv
      <4>3. CASE FinishWork(t)
        BY <4>3, FinishWorkInv
      <4>4. CASE Augment(t)
        BY <4>4, AugmentInv
      <4>5. CASE Defer(t)
        BY <4>5, DeferInv
      <4>6. CASE Decrement(t)
        BY <4>6, DecrementInv
      <4>7. CASE Release(t)
        BY <4>7, ReleaseInv
      <4>8. CASE Tell(t)
        BY <4>8, TellInv
      <4>9. CASE Schedule(t)
        BY <4>9, ScheduleInv
      <4>10. CASE AugmentPost(t) \/ PostContinuation(t) \/ SchedulePost(t)
        BY <4>10, PostsInv
      <4> QED
        BY <3>5, <4>1, <4>2, <4>3, <4>4, <4>5, <4>6, <4>7, <4>8, <4>9, <4>10 DEF ThreadStep
    <3> QED
      BY <1>3, <3>1, <3>2, <3>3, <3>4, <3>5 DEF Next
  <2> QED
    BY <1>1, <2>1 DEF Rest, IInv
<1> QED
  BY <1>2, <1>3

LEMMA CountsAreNat == IInv => WaitCountExact
<1> SUFFICES ASSUME IInv  PROVE WaitCountExact
  OBVIOUS
<1>1. TypeInv /\ CountInv
  BY DEF IInv
<1>2. ASSUME NEW u \in Task  PROVE waitCount[u] \in Nat
  <2>1. CASE Started
    <3>1. Cardinality(Unmet(u)) \in Nat
      BY UnmetFinite
    <3>2. Cardinality(Counted(u)) \in Nat
      BY <1>1, <2>1, FS_CardinalityType DEF CountInv
    <3> QED
      BY <1>1, <2>1, <3>1, <3>2 DEF CountInv
  <2>2. CASE ~Started
    BY <1>1, <2>2 DEF CountInv
  <2> QED
    BY <2>1, <2>2
<1>3. waitCount \in [Task -> Nat] /\ priority \in [Task -> Nat]
  BY <1>1, <1>2, PoolAssumptions DEF TypeInv
<1>4. TypeOK
  BY <1>1, <1>3 DEF TypeInv, TypeOK, Labels, Holder
<1> QED
  BY <1>1, <1>4 DEF WaitCountExact, CountInv, Started

LEMMA HandsMayPost == IInv => PostsAllowed
<1> SUFFICES ASSUME IInv, NEW t \in Holder, hand[t] # {}
             PROVE  ~shutdown /\ hand[t] \cap posted = {}
  BY DEF PostsAllowed, Holder
<1>1. StageInv /\ PlaceInv /\ HandInv /\ PoolInv
  BY PoolFacts DEF IInv
<1>2. CASE t = Owner
  BY <1>1, <1>2 DEF StageInv, PoolInv, PlaceInv
<1>3. CASE t \in Thread
  <2>1. step[t] # "idle"
    BY <1>1, <1>3 DEF HandInv
  <2> QED
    BY <1>1, <1>3, <2>1, Busy DEF PlaceInv
<1> QED
  BY <1>2, <1>3 DEF Holder

\* For any number of threads, any tasks, any acyclic dependencies and any
\* actions added by whom and when: a task's count is what it waits for plus
\* what of it is under way, and never goes below zero.
THEOREM CountsExact == Spec => []WaitCountExact
BY DagInitInv, DagNextInv, CountsAreNat, PTL DEF Spec

\* Nobody posts after the shutdown, and no action is posted twice: the
\* assertion in post(), for every way of augmenting tasks while they run.
THEOREM PostsAreAllowed == Spec => []PostsAllowed
BY DagInitInv, DagNextInv, HandsMayPost, PTL DEF Spec

\* When the pool has no work left every task is complete: otherwise the one that
\* the fewest tasks precede waits for a task that is not complete either.
LEMMA AllDone ==
  ASSUME IInv, stage = "join", pending = <<>>, \A t \in Thread : pc[t] # "run"
  PROVE  /\ \A t \in Thread : step[t] = "idle" /\ hand[t] = {} /\ tell[t] = {}
         /\ \A u \in Task : /\ Complete(u) /\ Counted(u) = {} /\ conts[u] = {}
                            /\ waitCount[u] = 0
<1>1. PoolInv /\ TypeInv /\ StageInv /\ PlaceInv /\ HandInv /\ BodyInv /\ CountInv
  BY PoolFacts DEF IInv
<1>2. pending = <<>> /\ \A t \in Thread : pc[t] # "run"
  OBVIOUS
<1>3. /\ \A t \in Thread : step[t] = "idle" /\ hand[t] = {} /\ tell[t] = {}
      /\ hand[Owner] = {} /\ roots = {} /\ PendingWork = {} /\ Started
  <2>1. \A t \in Thread : step[t] = "idle" /\ hand[t] = {} /\ tell[t] = {}
    BY <1>1, <1>2 DEF TypeInv, HandInv
  <2>2. PendingWork = {}
    <3>1. DOMAIN pending = {}
      BY <1>2, LenProperties, EmptySeq
    <3> QED
      BY <3>1 DEF PendingWork
  <2> QED
    BY <1>1, <2>1, <2>2 DEF StageInv, Started
<1>4. \A a : ~Live(a) /\ a \notin Held
  BY <1>3, HeldIs DEF Live, Holder
<1>5. \A u \in Task : Counted(u) = {} /\ conts[u] = {} /\ ~Releasing(u)
  <2>1. \A u \in Task : Counted(u) = {}
    BY <1>4, Members
  <2> QED
    BY <1>1, <1>3, <2>1 DEF BodyInv, Releasing
<1>6. \A u \in Task : Complete(u) <=> Body[u] \in posted
  BY <1>5, CompleteIs
<1>7. PICK rank : Numbering(rank)
  BY AcyclicAssumption DEF Numbering
<1>8. \A u \in Task : Complete(u)
  <2> DEFINE B == {u \in Task : ~Complete(u)}
  <2> SUFFICES ASSUME B # {}  PROVE FALSE
    OBVIOUS
  <2>1. IsFiniteSet(B)
    BY TaskAssumption, FS_Subset
  <2>2. \A u \in B : rank[u] \in Int
    BY <1>7 DEF Numbering
  <2>3. PICK u \in B : \A x \in B : rank[u] <= rank[x]
    <3> HIDE DEF B
    <3> QED
      BY <2>1, <2>2, LeastOf
  <2>4. Body[u] \notin Asked
    BY <1>4, <1>6 DEF Asked
  <2>5. Unmet(u) # {}
    BY <1>1, <1>3, <2>4 DEF BodyInv
  <2>6. PICK d \in Task : u \in waitingFor[d] /\ (~Complete(d) \/ Telling(d, u))
    BY <2>5, UnmetIs
  <2>7. d \in B
    BY <1>3, <2>6 DEF Telling
  <2>8. rank[d] < rank[u] /\ rank[d] \in Int /\ rank[u] \in Int
    <3>1. u \in Task /\ <<u, d>> \in Edges
      BY <1>1, <2>6 DEF StageInv, WaitEdges
    <3>2. rank[d] < rank[u]
      BY <1>7, <2>6, <3>1 DEF Numbering
    <3> QED
      BY <2>2, <2>3, <2>7, <3>2
  <2> QED
    BY <2>3, <2>7, <2>8
<1>9. \A u \in Task : waitCount[u] = 0
  <2> SUFFICES ASSUME NEW u \in Task  PROVE waitCount[u] = 0
    OBVIOUS
  <2>1. Unmet(u) = {}
    BY <1>3, <1>8, UnmetIs DEF Telling
  <2>2. Cardinality(Unmet(u)) = 0 /\ Cardinality(Counted(u)) = 0
    BY <1>5, <2>1, FS_EmptySet
  <2> QED
    BY <1>1, <1>3, <2>2 DEF CountInv
<1> QED
  BY <1>3, <1>5, <1>8, <1>9

LEMMA ShutdownDone == IInv => DoneAtShutdown
<1> SUFFICES ASSUME IInv, shutdown, stage = "join"
             PROVE \A u \in Task : Complete(u) /\ waitCount[u] = 0
  BY DEF DoneAtShutdown
<1>1. PoolInv /\ StageInv
  BY PoolFacts DEF IInv
<1>2. pending = <<>> /\ \A t \in Thread : pc[t] # "run"
  BY <1>1 DEF PoolInv, StageInv
<1> QED
  BY <1>2, AllDone

\* When the pool finds nothing to do and shuts down, there is nothing to do:
\* every task is complete, with all that was added to it, and the assertions
\* after join() hold.
THEOREM ShutdownIsCompletion == Spec => []DoneAtShutdown
BY DagInitInv, DagNextInv, ShutdownDone, PTL DEF Spec

\* The scheduler is composed of the actions of the pool, so whatever holds of
\* every behaviour of the pool holds of the pool of the scheduler.
LEMMA SchedulerUsesPool == Spec => Pool!Spec
<1>1. Init => Pool!Init
  BY DEF Init
<1>2. IInv /\ [Next]_vars => [Pool!Next]_poolVars
  BY InPool
<1>3. Spec => Pool!Init /\ [][Pool!Next]_poolVars
  BY <1>1, <1>2, DagInitInv, DagNextInv, PTL DEF Spec
<1> QED
  BY <1>3 DEF Pool!Spec, Pool!poolVars, poolVars

-----------------------------------------------------------------------------
(***************************************************************************)
(* The scheduler keeps the promise of DagExecution, step by step.          *)
(***************************************************************************)
DCalled   == IF stage = "build" THEN "no" ELSE IF stage = "returned" THEN stage ELSE "running"
DBefore   == [t \in Task |-> {d \in Task : t \in waitingFor[d]}]
DAsked    == {Body[t] : t \in {u \in Task : Body[u] \notin posted}} \cup PendingWork
             \cup UNION {hand[t] : t \in Thread \cup {Owner}}
DActive   == {work[t] : t \in {k \in Thread : step[k] \in {"work", "augment"}}}
DDeferred == UNION {conts[t] : t \in Task}
Of(u, S)  == {a \in S : a.task = u}

LEMMA DagMembers ==
  /\ \A a : a \in DAsked <=> \/ a \in PendingWork \/ a \in Held
                             \/ \E u \in Task : a = Body[u] /\ a \notin posted
  /\ \A a : a \in DActive <=> \E t \in Thread : step[t] \in {"work", "augment"} /\ a = work[t]
  /\ \A a : a \in DDeferred <=> \E u \in Task : a \in conts[u]
<1>1. \A a : a \in {Body[t] : t \in {u \in Task : Body[u] \notin posted}}
               <=> \E u \in Task : a = Body[u] /\ a \notin posted
  OBVIOUS
<1>2. \A a : a \in DAsked <=> \/ a \in PendingWork \/ a \in Held
                              \/ \E u \in Task : a = Body[u] /\ a \notin posted
  <2> DEFINE B == {Body[t] : t \in {u \in Task : Body[u] \notin posted}}
  <2>1. DAsked = B \cup PendingWork \cup Held
    BY DEF DAsked, Held, Holder
  <2> HIDE DEF B
  <2>2. \A a : a \in DAsked <=> a \in B \/ a \in PendingWork \/ a \in Held
    BY <2>1
  <2> QED
    BY <1>1, <2>2, Zenon DEF B
<1>3. \A a : a \in DActive <=> \E t \in Thread : step[t] \in {"work", "augment"} /\ a = work[t]
  BY DEF DActive
<1>4. \A a : a \in DDeferred <=> \E u \in Task : a \in conts[u]
  BY DEF DDeferred
<1> QED
  BY <1>2, <1>3, <1>4

LEMMA DagMembersNext ==
  /\ \A a : a \in DAsked' <=> \/ a \in PendingWork' \/ a \in Held'
                              \/ \E u \in Task : a = Body[u] /\ a \notin posted'
  /\ \A a : a \in DActive' <=> \E t \in Thread : step'[t] \in {"work", "augment"} /\ a = work'[t]
  /\ \A a : a \in DDeferred' <=> \E u \in Task : a \in conts'[u]
<1>1. \A a : a \in {Body[t] : t \in {u \in Task : Body[u] \notin posted'}}
               <=> \E u \in Task : a = Body[u] /\ a \notin posted'
  OBVIOUS
<1>2. \A a : a \in DAsked' <=> \/ a \in PendingWork' \/ a \in Held'
                               \/ \E u \in Task : a = Body[u] /\ a \notin posted'
  <2> DEFINE B == {Body[t] : t \in {u \in Task : Body[u] \notin posted'}}
  <2>1. DAsked' = B \cup PendingWork' \cup Held'
    BY DEF DAsked, Held, Holder, Body
  <2> HIDE DEF B
  <2>2. \A a : a \in DAsked' <=> a \in B \/ a \in PendingWork' \/ a \in Held'
    BY <2>1
  <2> QED
    BY <1>1, <2>2, Zenon DEF B
<1>3. \A a : a \in DActive' <=> \E t \in Thread : step'[t] \in {"work", "augment"} /\ a = work'[t]
  BY DEF DActive
<1>4. \A a : a \in DDeferred' <=> \E u \in Task : a \in conts'[u]
  BY DEF DDeferred
<1> QED
  BY <1>2, <1>3, <1>4

\* The actions of DagExecution on this state.
LEMMA DagActions ==
  /\ UNCHANGED Dag!vars <=> UNCHANGED <<DCalled, DBefore, DAsked, DActive, DDeferred>>
  /\ \A u : Dag!Complete(u) <=> Of(u, DAsked \cup DActive \cup DDeferred) = {}
  /\ \A t, d : Dag!AddDependency(t, d) <=>
       /\ DCalled = "no" /\ DBefore' = [DBefore EXCEPT ![t] = @ \cup {d}]
       /\ UNCHANGED <<DCalled, DAsked, DActive, DDeferred>>
  /\ Dag!Call <=> /\ DCalled = "no" /\ DCalled' = "running"
                  /\ UNCHANGED <<DBefore, DAsked, DActive, DDeferred>>
  /\ \A a : Dag!Begin(a) <=>
       /\ DCalled = "running" /\ a \in DAsked
       /\ \A d \in DBefore[a.task] : Dag!Complete(d)
       /\ DAsked' = DAsked \ {a} /\ DActive' = DActive \cup {a}
       /\ UNCHANGED <<DCalled, DBefore, DDeferred>>
  /\ \A a : Dag!Augment(a) <=>
       /\ Of(a.task, DActive) # {} /\ DAsked' = DAsked \cup {a}
       /\ UNCHANGED <<DCalled, DBefore, DActive, DDeferred>>
  /\ \A a : Dag!Defer(a) <=>
       /\ Of(a.task, DActive) # {} /\ DDeferred' = DDeferred \cup {a}
       /\ UNCHANGED <<DCalled, DBefore, DAsked, DActive>>
  /\ \A a : Dag!End(a) <=>
       /\ a \in DActive /\ DActive' = DActive \ {a}
       /\ IF Of(a.task, DAsked \cup DActive') = {}
          THEN /\ DAsked' = DAsked \cup Of(a.task, DDeferred)
               /\ DDeferred' = DDeferred \ Of(a.task, DDeferred)
          ELSE UNCHANGED <<DAsked, DDeferred>>
       /\ UNCHANGED <<DCalled, DBefore>>
  /\ Dag!Return <=>
       /\ DCalled = "running" /\ \A t \in Task : Dag!Complete(t)
       /\ DCalled' = "returned" /\ DBefore' = [t \in Task |-> {}]
       /\ UNCHANGED <<DAsked, DActive, DDeferred>>
<1>1. UNCHANGED Dag!vars <=> UNCHANGED <<DCalled, DBefore, DAsked, DActive, DDeferred>>
  BY DEF Dag!vars, DCalled, DBefore, DAsked, DActive, DDeferred
<1>2. \A u : Dag!Complete(u) <=> Of(u, DAsked \cup DActive \cup DDeferred) = {}
  BY DEF Dag!Complete, Dag!Of, Of, DAsked, DActive, DDeferred
<1>3. \A t, d : Dag!AddDependency(t, d) <=>
        /\ DCalled = "no" /\ DBefore' = [DBefore EXCEPT ![t] = @ \cup {d}]
        /\ UNCHANGED <<DCalled, DAsked, DActive, DDeferred>>
  BY DEF Dag!AddDependency, DCalled, DBefore, DAsked, DActive, DDeferred
<1>4. Dag!Call <=> /\ DCalled = "no" /\ DCalled' = "running"
                   /\ UNCHANGED <<DBefore, DAsked, DActive, DDeferred>>
  BY DEF Dag!Call, DCalled, DBefore, DAsked, DActive, DDeferred
<1>5. \A a : Dag!Begin(a) <=>
        /\ DCalled = "running" /\ a \in DAsked
        /\ \A d \in DBefore[a.task] : Dag!Complete(d)
        /\ DAsked' = DAsked \ {a} /\ DActive' = DActive \cup {a}
        /\ UNCHANGED <<DCalled, DBefore, DDeferred>>
  BY DEF Dag!Begin, DCalled, DBefore, DAsked, DActive, DDeferred
<1>6. \A a : Dag!Augment(a) <=>
        /\ Of(a.task, DActive) # {} /\ DAsked' = DAsked \cup {a}
        /\ UNCHANGED <<DCalled, DBefore, DActive, DDeferred>>
  BY DEF Dag!Augment, Dag!Of, Of, DCalled, DBefore, DAsked, DActive, DDeferred
<1>7. \A a : Dag!Defer(a) <=>
        /\ Of(a.task, DActive) # {} /\ DDeferred' = DDeferred \cup {a}
        /\ UNCHANGED <<DCalled, DBefore, DAsked, DActive>>
  BY DEF Dag!Defer, Dag!Of, Of, DCalled, DBefore, DAsked, DActive, DDeferred
<1>8. \A a : Dag!End(a) <=>
        /\ a \in DActive /\ DActive' = DActive \ {a}
        /\ IF Of(a.task, DAsked \cup DActive') = {}
           THEN /\ DAsked' = DAsked \cup Of(a.task, DDeferred)
                /\ DDeferred' = DDeferred \ Of(a.task, DDeferred)
           ELSE UNCHANGED <<DAsked, DDeferred>>
        /\ UNCHANGED <<DCalled, DBefore>>
  BY DEF Dag!End, Dag!Of, Of, DCalled, DBefore, DAsked, DActive, DDeferred
<1>9. Dag!Return <=>
        /\ DCalled = "running" /\ \A t \in Task : Dag!Complete(t)
        /\ DCalled' = "returned" /\ DBefore' = [t \in Task |-> {}]
        /\ UNCHANGED <<DAsked, DActive, DDeferred>>
  BY DEF Dag!Return, DCalled, DBefore, DAsked, DActive, DDeferred
<1> QED
  BY <1>1, <1>2, <1>3, <1>4, <1>5, <1>6, <1>7, <1>8, <1>9

LEMMA SameSet ==
  ASSUME NEW A, NEW B, \A a : a \in A <=> a \in B
  PROVE  A = B
OBVIOUS

\* A task is complete here when it is complete there.
LEMMA SameComplete ==
  ASSUME IInv, NEW u \in Task
  PROVE  Dag!Complete(u) <=> Complete(u)
<1>1. TypeInv /\ PlaceInv /\ HandInv /\ OverInv
  BY DEF IInv
<1>2. Dag!Complete(u) <=> \A a : a.task = u => a \notin DAsked /\ a \notin DActive /\ a \notin DDeferred
  BY DagActions DEF Of
<1>3. ASSUME Dag!Complete(u)  PROVE Complete(u)
  <2>1. Body[u] \in posted
    BY <1>2, <1>3, DagMembers, ActionFacts
  <2>2. conts[u] = {}
    <3>1. \A a \in conts[u] : a.task = u /\ a \in DDeferred
      BY <1>1, DagMembers DEF PlaceInv
    <3> QED
      BY <1>2, <1>3, <3>1
  <2>3. ASSUME NEW a \in Counted(u)  PROVE FALSE
    <3>1. Live(a) /\ a.task = u
      BY Members
    <3>2. a \in PendingWork \/ a \in Held \/ a \in DActive
      BY <3>1, DagMembers, HeldIs DEF Live, Holder
    <3> QED
      BY <1>2, <1>3, <3>1, <3>2, DagMembers
  <2>4. ASSUME NEW t \in Thread, step[t] = "release", work[t].task = u  PROVE FALSE
    <3>1. PICK a \in hand[t] : a.task = u
      BY <1>1, <2>4 DEF OverInv, HandInv
    <3>2. a \in DAsked
      BY <3>1, HeldIs, DagMembers DEF Holder
    <3> QED
      BY <1>2, <1>3, <3>1, <3>2
  <2> QED
    BY <2>1, <2>2, <2>3, <2>4, CompleteIs DEF Releasing
<1>4. ASSUME Complete(u), NEW a, a.task = u, a \in DAsked \/ a \in DActive \/ a \in DDeferred
      PROVE  FALSE
  <2>1. Body[u] \in posted /\ conts[u] = {} /\ ~Live(a) /\ ~Releasing(u)
    BY <1>4, CompleteIs, Members
  <2>2. a \notin PendingWork /\ a \notin DActive
    BY <2>1, DagMembers DEF Live
  <2>3. a \notin DDeferred
    BY <1>1, <1>4, <2>1, DagMembers DEF PlaceInv
  <2>4. ASSUME NEW x \in Task, a = Body[x], a \notin posted  PROVE FALSE
    BY <1>4, <2>1, <2>4, ActionFacts
  <2>5. ASSUME a \in Held  PROVE FALSE
    <3>1. PICK x \in Holder : a \in hand[x]
      BY <2>5, HeldIs
    <3>2. CASE x = Owner
      BY <2>1, <3>1, <3>2 DEF Live
    <3>3. CASE x \in Thread
      <4>1. step[x] \in {"release", "schedule"}
        BY <1>1, <2>1, <3>1, <3>3 DEF Live, HandInv, TypeInv, Labels
      <4>2. CASE step[x] = "release"
        BY <1>1, <1>4, <2>1, <3>1, <3>3, <4>2 DEF HandInv, Releasing
      <4>3. CASE step[x] = "schedule"
        <5>1. PICK y \in Task : hand[x] = {Body[y]}
          BY <1>1, <3>3, <4>3 DEF HandInv
        <5>2. a = Body[y] /\ a \notin posted
          BY <1>1, <3>1, <5>1 DEF PlaceInv
        <5> QED
          BY <2>4, <5>2
      <4> QED
        BY <4>1, <4>2, <4>3
    <3> QED
      BY <3>2, <3>3 DEF Holder
  <2> QED
    BY <1>4, <2>2, <2>3, <2>4, <2>5, DagMembers
<1> QED
  BY <1>2, <1>3, <1>4

\* What is pending, in hand or not yet posted stays so, and what runs.
LEMMA Stutter ==
  ASSUME DCalled' = DCalled, UNCHANGED <<waitingFor, conts>>,
         \A a : a \in DAsked' <=> a \in DAsked,
         \A a : a \in DActive' <=> a \in DActive
  PROVE  UNCHANGED Dag!vars
<1>1. DAsked' = DAsked
  <2> DEFINE A == DAsked'
             B == DAsked
  <2>1. \A a : a \in A <=> a \in B
    OBVIOUS
  <2> HIDE DEF A, B
  <2>2. A = B
    BY <2>1, SameSet
  <2> QED
    BY <2>2 DEF A, B
<1>2. DActive' = DActive
  <2> DEFINE A == DActive'
             B == DActive
  <2>1. \A a : a \in A <=> a \in B
    OBVIOUS
  <2> HIDE DEF A, B
  <2>2. A = B
    BY <2>1, SameSet
  <2> QED
    BY <2>2 DEF A, B
<1>3. DBefore' = DBefore /\ DDeferred' = DDeferred
  BY DEF DBefore, DDeferred
<1> QED
  BY <1>1, <1>2, <1>3, DagActions

DagStep == [Dag!Next]_Dag!vars

\* Nothing is told of what happens in the pool, of counts and of the places
\* of an action that is to run.
LEMMA PoolStutters ==
  ASSUME IInv, PoolStep \/ JoinPool
  PROVE  DagStep
<1>1. /\ UNCHANGED <<pending, posted, work, step, hand, conts, waitingFor>>
      /\ DCalled' = DCalled
  BY DEF PoolStep, JoinPool, Pool!Join, setup, DCalled
<1>2. PendingWork' = PendingWork /\ Held' = Held
  BY <1>1 DEF PendingWork, Held
<1>3. UNCHANGED Dag!vars
  BY <1>1, <1>2, Stutter, DagMembers, DagMembersNext
<1> QED
  BY <1>3 DEF DagStep

LEMMA SeedStutters ==
  ASSUME IInv, NEW u \in Task, Seed(u)
  PROVE  DagStep
<1>1. TypeInv /\ BodyInv
  BY DEF IInv
<1>2. /\ stage = "seed" /\ u \in roots /\ hand[Owner] = {}
      /\ hand' = [hand EXCEPT ![Owner] = {Body[u]}]
      /\ UNCHANGED <<pending, posted, work, step, conts, waitingFor>> /\ DCalled' = DCalled
  BY DEF Seed, setup, poolVars, DCalled
<1>3. Body[u] \notin posted
  BY <1>1, <1>2 DEF BodyInv, Started, Asked
<1>4. PendingWork' = PendingWork /\ \A a : a \in Held' <=> a \in Held \/ a = Body[u]
  <2>1. \A k \in Holder : hand'[k] = IF k = Owner THEN {Body[u]} ELSE hand[k]
    BY <1>1, <1>2 DEF TypeInv
  <2> QED
    BY <1>2, <2>1, HeldIs, HeldNext DEF PendingWork, Holder
<1>5. \A a : a \in DAsked' <=> a \in DAsked
  BY <1>2, <1>3, <1>4, DagMembers, DagMembersNext
<1>6. UNCHANGED Dag!vars
  BY <1>2, <1>5, Stutter, DagMembers, DagMembersNext
<1> QED
  BY <1>6 DEF DagStep

LEMMA PostingStutters ==
  ASSUME IInv, NEW x \in Holder, NEW a, a \in hand[x], Posting(x),
         Pool!Post(priority[a.task], a), hand' = [hand EXCEPT ![x] = @ \ {a}],
         UNCHANGED <<stage, setup, roots, waitCount, conts, tell>>
  PROVE  DagStep
<1>1. TypeInv /\ PlaceInv /\ HandInv
  BY DEF IInv
<1>2. a \in Action /\ a.task \in Task /\ priority[a.task] \in Priority
  BY <1>1, ActionFacts DEF TypeInv
<1>3. /\ pending' = Pool!Enqueue(pending, [prio |-> priority[a.task], work |-> a])
      /\ posted' = posted \cup {a} /\ work' = work
  BY DEF Pool!Post
<1>4. /\ \A k \in Holder : hand'[k] = IF k = x THEN hand[x] \ {a} ELSE hand[k]
      /\ \A k \in Thread : step'[k] \in {"work", "augment"} <=> step[k] \in {"work", "augment"}
      /\ \A k \in Thread : step'[k] # "idle" => step[k] # "idle"
  BY <1>1 DEF TypeInv, Posting
<1>5. PendingWork' = PendingWork \cup {a}
  BY <1>2, <1>3, <1>4, PlacePost
<1>6. \A b : b \in Held' <=> b \in Held /\ b # a
  <2>1. \A k \in Holder : k # x => a \notin hand[k]
    BY <1>1 DEF PlaceInv
  <2> QED
    BY <1>4, <2>1, HeldIs, HeldNext
<1>7. a \in Held /\ a \notin PendingWork
  BY <1>1, HeldIs DEF PlaceInv
<1>8. \A b : b \in DAsked' <=> b \in DAsked
  BY <1>3, <1>5, <1>6, <1>7, DagMembers, DagMembersNext
<1>9. \A b : b \in DActive' <=> b \in DActive
  BY <1>3, <1>4, DagMembers, DagMembersNext
<1>10. DCalled' = DCalled /\ UNCHANGED <<waitingFor, conts>>
  BY DEF DCalled, setup
<1>11. UNCHANGED Dag!vars
  BY <1>8, <1>9, <1>10, Stutter
<1> QED
  BY <1>11 DEF DagStep

LEMMA PostsStutter ==
  ASSUME IInv,
         SeedPost \/ \E t \in Thread : AugmentPost(t) \/ PostContinuation(t) \/ SchedulePost(t)
  PROVE  DagStep
<1>1. TypeInv /\ StageInv /\ HandInv
  BY DEF IInv
<1>2. CASE SeedPost
  <2>1. PICK a \in hand[Owner] :
          /\ Pool!OwnerPosts(priority[a.task], a)
          /\ hand' = [hand EXCEPT ![Owner] = {}]
          /\ UNCHANGED <<stage, setup, roots, waitCount, conts, step, tell>>
    BY <1>2 DEF SeedPost
  <2>2. hand[Owner] = {a}
    BY <1>1, <2>1 DEF HandInv
  <2>3. hand' = [hand EXCEPT ![Owner] = @ \ {a}]
    BY <1>1, <2>1, <2>2 DEF TypeInv, Holder
  <2>4. Owner \in Holder /\ Posting(Owner) /\ Pool!Post(priority[a.task], a)
    BY <2>1 DEF Holder, Posting, Pool!OwnerPosts
  <2> QED
    BY <2>1, <2>2, <2>3, <2>4, PostingStutters
<1>3. ASSUME NEW t \in Thread, AugmentPost(t) \/ PostContinuation(t) \/ SchedulePost(t)
      PROVE  DagStep
  <2>1. PICK a \in hand[t] :
          /\ Pool!Post(priority[a.task], a)
          /\ hand' = [hand EXCEPT ![t] = @ \ {a}]
          /\ UNCHANGED <<stage, setup, roots, waitCount, conts, tell>>
    BY <1>3 DEF AugmentPost, PostContinuation, SchedulePost, PostHand, Pool!WorkPosts
  <2>2. Posting(t) /\ t \in Holder
    BY <1>1, <1>3 DEF AugmentPost, PostContinuation, SchedulePost, PostHand, Goto, Posting, TypeInv,
                      Holder
  <2> QED
    BY <2>1, <2>2, PostingStutters
<1> QED
  BY <1>2, <1>3

LEMMA ThreadStutters ==
  ASSUME IInv, NEW t \in Thread, FinishWork(t) \/ Release(t) \/ Schedule(t) \/ Tell(t)
  PROVE  DagStep
<1>1. TypeInv /\ PlaceInv /\ HandInv
  BY DEF IInv
<1>2. /\ step[t] \in {"post", "notify", "release", "schedule"}
      /\ \A k \in Thread : k # t => step'[k] = step[k] /\ work'[k] = work[k]
      /\ step'[t] \in {"idle", "post", "enqueue", "schedule", "notify"}
      /\ UNCHANGED <<stage, pending, posted, conts, waitingFor>>
  <2>1. CASE FinishWork(t)
    BY <1>1, <2>1 DEF FinishWork, Pool!Finish, Goto, TypeInv, setup
  <2>2. CASE Release(t) \/ Schedule(t)
    BY <1>1, <2>2 DEF Release, Schedule, Goto, TypeInv, setup, poolVars
  <2>3. CASE Tell(t)
    BY <1>1, <2>3 DEF Tell, Goto, TypeInv, setup, poolVars
  <2> QED
    BY <2>1, <2>2, <2>3
<1>3. DCalled' = DCalled /\ PendingWork' = PendingWork
  BY <1>2 DEF DCalled, PendingWork
<1>4. \A a : a \in DActive' <=> a \in DActive
  BY <1>2, DagMembers, DagMembersNext
<1>5. \A a : a \in DAsked' <=> a \in DAsked
  <2>1. CASE hand' = hand
    BY <1>2, <1>3, <2>1, HeldIs, HeldNext, DagMembers, DagMembersNext
  <2>2. CASE hand' # hand
    <3>1. PICK x \in tell[t] : hand' = [hand EXCEPT ![t] = {Body[x]}] /\ step[t] = "notify"
      BY <2>2 DEF FinishWork, Release, Schedule, Tell
    <3>2. PICK d \in Task : d = work[t].task
      BY <3>1, Busy
    <3>3. x \in Task /\ Started /\ x \in waitingFor[d] /\ Telling(d, x) /\ hand[t] = {}
      BY <1>1, <3>1, <3>2, Busy DEF TypeInv, HandInv, Telling
    <3>4. Unmet(x) # {}
      BY <3>3, UnmetIs
    <3>5. Body[x] \notin posted
      BY <3>3, <3>4, NotYet DEF Asked
    <3>6. \A k \in Holder : hand'[k] = IF k = t THEN {Body[x]} ELSE hand[k]
      BY <1>1, <3>1 DEF TypeInv
    <3>7. \A a : a \in Held' <=> a \in Held \/ a = Body[x]
      BY <3>3, <3>6, HeldIs, HeldNext DEF Holder
    <3> QED
      BY <1>2, <1>3, <3>3, <3>5, <3>7, DagMembers, DagMembersNext
  <2> QED
    BY <2>1, <2>2
<1>6. UNCHANGED Dag!vars
  BY <1>2, <1>3, <1>4, <1>5, Stutter
<1> QED
  BY <1>6 DEF DagStep

LEMMA GraphSteps ==
  ASSUME IInv, Run \/ \E e \in Edges : AddDependency(e[1], e[2])
  PROVE  DagStep
<1>1. /\ UNCHANGED <<pending, posted, work, step, hand, conts>>
  BY DEF Run, AddDependency, poolVars
<1>2. PendingWork' = PendingWork /\ Held' = Held
  BY <1>1 DEF PendingWork, Held
<1>3. DAsked' = DAsked /\ DActive' = DActive /\ DDeferred' = DDeferred
  BY <1>1, <1>2 DEF DAsked, DActive, DDeferred
<1>4. CASE Run
  <2>1. DCalled = "no" /\ DCalled' = "running" /\ DBefore' = DBefore
    BY <1>4 DEF Run, DCalled, DBefore
  <2>2. Dag!Call
    BY <1>3, <2>1, DagActions
  <2> QED
    BY <2>2 DEF DagStep, Dag!Next
<1>5. ASSUME NEW e \in Edges, AddDependency(e[1], e[2])  PROVE DagStep
  <2>1. PICK t \in Task, d \in Task : t = e[1] /\ d = e[2]
    BY TaskAssumption
  <2>2. stage = "build" /\ stage' = stage /\ waitingFor' = [waitingFor EXCEPT ![d] = @ \cup {t}]
    BY <1>5, <2>1 DEF AddDependency
  <2>3. waitingFor \in [Task -> SUBSET Task]
    BY DEF IInv, TypeInv
  <2>4. DBefore' = [DBefore EXCEPT ![t] = @ \cup {d}]
    <3>1. \A u, b \in Task : u \in waitingFor'[b] <=> u \in waitingFor[b] \/ (u = t /\ b = d)
      BY <2>1, <2>2, <2>3
    <3>2. \A u \in Task : {b \in Task : u \in waitingFor'[b]} =
                            IF u = t THEN {b \in Task : u \in waitingFor[b]} \cup {d}
                            ELSE {b \in Task : u \in waitingFor[b]}
      BY <2>1, <3>1
    <3>3. DBefore' = [u \in Task |-> {b \in Task : u \in waitingFor'[b]}]
      BY DEF DBefore
    <3>4. DBefore = [u \in Task |-> {b \in Task : u \in waitingFor[b]}]
      BY DEF DBefore
    <3>5. /\ DBefore' = [u \in Task |-> DBefore'[u]] /\ DBefore = [u \in Task |-> DBefore[u]]
          /\ \A u \in Task : DBefore'[u] = {b \in Task : u \in waitingFor'[b]}
          /\ \A u \in Task : DBefore[u] = {b \in Task : u \in waitingFor[b]}
      BY <3>3, <3>4
    <3>6. \A u \in Task : DBefore'[u] = IF u = t THEN DBefore[u] \cup {d} ELSE DBefore[u]
      BY <3>2, <3>5
    <3> QED
      BY <2>1, <3>5, <3>6
  <2>5. DCalled = "no" /\ DCalled' = DCalled
    BY <2>2 DEF DCalled
  <2>6. Dag!AddDependency(t, d)
    BY <1>3, <2>4, <2>5, DagActions
  <2> QED
    BY <2>1, <2>6 DEF DagStep, Dag!Next
<1> QED
  BY <1>4, <1>5

LEMMA FetchBegins ==
  ASSUME IInv, NEW t \in Thread, FetchWork(t)
  PROVE  DagStep
<1> DEFINE h == Head(pending).work
<1>1. PoolInv /\ TypeInv /\ PlaceInv /\ HandInv /\ BodyInv
  BY PoolFacts DEF IInv
<1>2. PICK w : w = Head(pending).work
  OBVIOUS
<1>3. /\ pc[t] = "fetch" /\ pending # <<>> /\ pending' = Tail(pending)
      /\ work' = [work EXCEPT ![t] = w] /\ step' = [step EXCEPT ![t] = "work"]
      /\ UNCHANGED <<stage, posted, conts, waitingFor, hand>>
  BY <1>2 DEF FetchWork, Pool!Fetch, Goto, setup
<1>4. /\ Started /\ w \in PendingWork /\ PendingWork' = PendingWork \ {w} /\ step[t] = "idle"
  BY <1>1, <1>2, <1>3, FetchWorkInv, TailRemoves DEF PoolInv, PlaceInv, TypeInv
<1>5. w \in posted /\ w \in Action /\ w.task \in Task
  BY <1>1, <1>4, ActionFacts DEF PlaceInv, PoolInv
<1>6. DCalled = "running" /\ DCalled' = DCalled /\ DBefore' = DBefore /\ DDeferred' = DDeferred
  BY <1>3, <1>4 DEF Started, DCalled, DBefore, DDeferred
<1>7. w \in DAsked
  BY <1>4, DagMembers
<1>8. \A d \in DBefore[w.task] : Dag!Complete(d)
  <2>1. Body[w.task] \in Asked
    BY <1>1, <1>4, <1>5, ActionFacts DEF BodyInv, Asked
  <2>2. Unmet(w.task) = {}
    BY <1>1, <1>4, <1>5, <2>1 DEF BodyInv
  <2>3. \A d \in DBefore[w.task] : d \in Task /\ w.task \in waitingFor[d]
    BY <1>5 DEF DBefore
  <2>4. \A d \in DBefore[w.task] : Complete(d)
    BY <2>2, <2>3, UnmetIs
  <2> QED
    BY <2>3, <2>4, SameComplete
<1>9. w \notin Held /\ Held' = Held
  BY <1>1, <1>3, <1>5, HeldIs DEF PlaceInv, Held
<1>10. DAsked' = DAsked \ {w}
  <2> DEFINE A == DAsked'
             B == DAsked \ {w}
  <2>1. \A a : a \in A <=> a \in B
    BY <1>3, <1>4, <1>5, <1>9, DagMembers, DagMembersNext
  <2> HIDE DEF A, B
  <2>2. A = B
    BY <2>1, SameSet
  <2> QED
    BY <2>2 DEF A, B
<1>11. DActive' = DActive \cup {w}
  <2> DEFINE A == DActive'
             B == DActive \cup {w}
  <2>1. \A k \in Thread : /\ step'[k] = IF k = t THEN "work" ELSE step[k]
                          /\ work'[k] = IF k = t THEN w ELSE work[k]
    BY <1>1, <1>3 DEF TypeInv, PoolInv
  <2>2. \A a : a \in A <=> a \in B
    BY <1>4, <2>1, DagMembers, DagMembersNext
  <2> HIDE DEF A, B
  <2>3. A = B
    BY <2>2, SameSet
  <2> QED
    BY <2>3 DEF A, B
<1>12. Dag!Begin(w)
  BY <1>6, <1>7, <1>8, <1>10, <1>11, DagActions
<1> QED
  BY <1>5, <1>12 DEF DagStep, Dag!Next

LEMMA AugmentAugments ==
  ASSUME IInv, NEW t \in Thread, Augment(t)
  PROVE  DagStep
<1>1. TypeInv
  BY DEF IInv
<1>2. PICK a \in Unused(t) : hand' = [hand EXCEPT ![t] = {a}]
  BY DEF Augment
<1>3. /\ step[t] = "work" /\ step' = [step EXCEPT ![t] = "augment"]
      /\ UNCHANGED <<pending, posted, work, stage, conts, waitingFor>>
  BY DEF Augment, Goto, setup, poolVars
<1>4. a \in Added /\ a.task = work[t].task /\ a \in Action /\ a \notin posted
  BY ActionFacts DEF Unused
<1>5. hand[t] = {}
  BY <1>3 DEF IInv, HandInv
<1>6. /\ DCalled' = DCalled /\ DBefore' = DBefore /\ DDeferred' = DDeferred
      /\ PendingWork' = PendingWork
  BY <1>3 DEF DCalled, DBefore, DDeferred, PendingWork
<1>7. DActive' = DActive
  <2> DEFINE A == DActive'
             B == DActive
  <2>1. \A k \in Thread : step'[k] = IF k = t THEN "augment" ELSE step[k]
    BY <1>1, <1>3 DEF TypeInv
  <2>2. \A b : b \in A <=> b \in B
    BY <1>3, <2>1, DagMembers, DagMembersNext
  <2> HIDE DEF A, B
  <2>3. A = B
    BY <2>2, SameSet
  <2> QED
    BY <2>3 DEF A, B
<1>8. DAsked' = DAsked \cup {a}
  <2> DEFINE A == DAsked'
             B == DAsked \cup {a}
  <2>1. \A k \in Holder : hand'[k] = IF k = t THEN {a} ELSE hand[k]
    BY <1>1, <1>2 DEF TypeInv
  <2>2. \A b : b \in Held' <=> b \in Held \/ b = a
    BY <1>5, <2>1, HeldIs, HeldNext DEF Holder
  <2>3. \A b : b \in A <=> b \in B
    BY <1>3, <1>6, <2>2, DagMembers, DagMembersNext
  <2> HIDE DEF A, B
  <2>4. A = B
    BY <2>3, SameSet
  <2> QED
    BY <2>4 DEF A, B
<1>9. Of(a.task, DActive) # {}
  BY <1>3, <1>4, DagMembers DEF Of
<1>10. Dag!Augment(a)
  BY <1>6, <1>7, <1>8, <1>9, DagActions
<1> QED
  BY <1>4, <1>10 DEF DagStep, Dag!Next

LEMMA DeferDefers ==
  ASSUME IInv, NEW t \in Thread, Defer(t)
  PROVE  DagStep
<1>1. TypeInv
  BY DEF IInv
<1>2. PICK a \in Unused(t) : conts' = [conts EXCEPT ![a.task] = @ \cup {a}]
  BY DEF Defer
<1>3. step[t] = "work" /\ UNCHANGED <<pending, posted, work, stage, step, hand, waitingFor>>
  BY DEF Defer, setup, poolVars
<1>4. a \in Added /\ a.task = work[t].task /\ a \in Action /\ a.task \in Task
  BY ActionFacts DEF Unused
<1>5. PendingWork' = PendingWork /\ Held' = Held
  BY <1>3 DEF PendingWork, Held
<1>6. DCalled' = DCalled /\ DBefore' = DBefore /\ DActive' = DActive /\ DAsked' = DAsked
  BY <1>3, <1>5 DEF DCalled, DBefore, DActive, DAsked
<1>7. DDeferred' = DDeferred \cup {a}
  <2> DEFINE A == DDeferred'
             B == DDeferred \cup {a}
  <2>1. \A v \in Task : conts'[v] = IF v = a.task THEN conts[v] \cup {a} ELSE conts[v]
    BY <1>1, <1>2, <1>4 DEF TypeInv
  <2>2. ASSUME NEW b  PROVE b \in A <=> b \in B
    <3>1. (\E v \in Task : b \in conts'[v]) <=> (\E v \in Task : b \in conts[v]) \/ b = a
      BY <1>4, <2>1
    <3> QED
      BY <3>1, DagMembers, DagMembersNext
  <2> HIDE DEF A, B
  <2>3. A = B
    BY <2>2, SameSet
  <2> QED
    BY <2>3 DEF A, B
<1>8. Of(a.task, DActive) # {}
  BY <1>3, <1>4, DagMembers DEF Of
<1>9. Dag!Defer(a)
  BY <1>6, <1>7, <1>8, DagActions
<1> QED
  BY <1>4, <1>9 DEF DagStep, Dag!Next

\* The last action of a task lets its continuations begin: the count is zero
\* when nothing else of the task has been asked for or runs.
LEMMA DecrementEnds ==
  ASSUME IInv, IInv', NEW t \in Thread, Decrement(t)
  PROVE  DagStep
<1>1. TypeInv /\ PlaceInv /\ HandInv /\ BodyInv
  BY DEF IInv
<1>2. step[t] = "work"
  BY DEF Decrement
<1>3. PICK u \in Task, w \in {work[t]} : u = work[t].task /\ w = work[t]
  BY <1>2, Busy
<1>4. /\ UNCHANGED <<pending, posted, work, stage, waitingFor>> /\ step'[t] \in {"release", "notify"}
      /\ \A k \in Thread : k # t => step'[k] = step[k]
      /\ \/ /\ waitCount'[u] = 0 /\ conts[u] # {}
            /\ hand' = [hand EXCEPT ![t] = conts[u]] /\ conts' = [conts EXCEPT ![u] = {}]
         \/ /\ waitCount'[u] = 0 /\ conts[u] = {} /\ hand' = hand /\ conts' = conts
         \/ /\ waitCount'[u] # 0 /\ hand' = hand /\ conts' = conts
  BY <1>1, <1>3 DEF Decrement, Goto, setup, poolVars, TypeInv
<1>5. /\ Started /\ Body[u] \in posted /\ w \in posted /\ w \in Action /\ w.task = u
      /\ hand[t] = {} /\ \A k \in Thread : step[k] = "release" => work[k].task # u
  BY <1>1, <1>2, <1>3, Busy, Working DEF HandInv
<1>6. /\ DCalled' = DCalled /\ DBefore' = DBefore /\ PendingWork' = PendingWork
  BY <1>4 DEF DCalled, DBefore, PendingWork
<1>7. w \in DActive
  BY <1>2, <1>3, DagMembers
<1>8. DActive' = DActive \ {w}
  <2> DEFINE A == DActive'
             B == DActive \ {w}
  <2>1. \A k \in Thread : k # t /\ step[k] # "idle" => work[k] # w
    BY <1>1, <1>3 DEF PlaceInv
  <2>2. ASSUME NEW b  PROVE b \in A <=> b \in B
    <3>1. \A k \in Thread : (step'[k] \in {"work", "augment"} /\ b = work'[k])
                              <=> (step[k] \in {"work", "augment"} /\ b = work[k] /\ b # w)
      BY <1>2, <1>3, <1>4, <2>1
    <3> QED
      BY <3>1, DagMembers, DagMembersNext
  <2> HIDE DEF A, B
  <2>3. A = B
    BY <2>2, SameSet
  <2> QED
    BY <2>3 DEF A, B
<1>9. waitCount'[u] = 0 <=> Counted(u)' = {}
  <2>1. CountInv' /\ BodyInv'
    BY DEF IInv
  <2>2. Started'
    BY <1>4, <1>5 DEF Started
  <2>3. Unmet(u)' = {}
    BY <1>4, <1>5, <2>1, <2>2 DEF BodyInv, Asked
  <2>4. /\ IsFiniteSet(Counted(u)')
        /\ waitCount'[u] = Cardinality(Unmet(u)') + Cardinality(Counted(u)')
    BY <2>1, <2>2 DEF CountInv
  <2>5. Cardinality(Unmet(u)') = 0
    BY <2>3, FS_EmptySet
  <2>6. Cardinality(Counted(u)') \in Nat /\ (Cardinality(Counted(u)') = 0 <=> Counted(u)' = {})
    BY <2>4, FS_CardinalityType, FS_EmptySet
  <2> QED
    BY <2>4, <2>5, <2>6
<1>10. Of(u, DAsked \cup DActive') = {} <=> Counted(u)' = {}
  <2>1. ASSUME NEW b, b \in DAsked \/ b \in DActive', b.task = u  PROVE Counted(u)' # {}
    <3>1. CASE b \in DActive'
      BY <2>1, <3>1, DagMembersNext, MembersNext DEF Live
    <3>2. CASE b \in PendingWork
      BY <1>6, <2>1, <3>2, MembersNext DEF Live
    <3>3. ASSUME NEW v \in Task, b = Body[v], b \notin posted  PROVE FALSE
      BY <1>5, <2>1, <3>3, ActionFacts
    <3>4. CASE b \in Held
      <4>1. PICK x \in Holder : b \in hand[x]
        BY <3>4, HeldIs
      <4>2. x # t /\ b \notin posted /\ hand'[x] = hand[x]
        BY <1>1, <1>4, <1>5, <4>1 DEF PlaceInv, TypeInv
      <4>3. CASE x = Owner
        BY <2>1, <4>1, <4>2, <4>3, MembersNext DEF Live
      <4>4. CASE x \in Thread /\ step[x] \in {"augment", "post", "enqueue"}
        <5>1. step'[x] \in {"augment", "post", "enqueue"} /\ b \in hand'[x]
          BY <1>4, <4>1, <4>2, <4>4
        <5> QED
          BY <2>1, <4>4, <5>1, MembersNext DEF Live
      <4>5. CASE x \in Thread /\ step[x] = "schedule"
        <5>1. \E v \in Task : hand[x] = {Body[v]}
          BY <1>1, <4>5 DEF HandInv
        <5> QED
          BY <3>3, <4>1, <4>2, <5>1
      <4>6. CASE x \in Thread /\ step[x] = "release"
        BY <1>1, <1>5, <2>1, <4>1, <4>6 DEF HandInv
      <4>7. CASE x \in Thread /\ step[x] \in {"idle", "work", "notify"}
        BY <1>1, <4>1, <4>7 DEF HandInv
      <4> QED
        BY <1>1, <4>3, <4>4, <4>5, <4>6, <4>7 DEF Holder, TypeInv, Labels
    <3> QED
      BY <2>1, <3>1, <3>2, <3>3, <3>4, DagMembers
  <2>2. ASSUME NEW b \in Counted(u)'  PROVE b.task = u /\ (b \in DAsked \/ b \in DActive')
    <3>1. b.task = u /\ Live(b)'
      BY MembersNext
    <3>2. CASE b \in PendingWork'
      BY <1>6, <3>1, <3>2, DagMembers
    <3>3. CASE \E k \in Thread : step'[k] \in {"work", "augment"} /\ b = work'[k]
      BY <3>1, <3>3, DagMembersNext
    <3>4. CASE \E k \in Holder : k # t /\ b \in hand'[k]
      <4>1. \A k \in Holder : k # t => hand'[k] = hand[k]
        BY <1>1, <1>4 DEF TypeInv
      <4> QED
        BY <3>1, <3>4, <4>1, HeldIs, DagMembers
    <3> QED
      BY <1>4, <3>1, <3>2, <3>3, <3>4, ThreadAssumption DEF Live, Holder
  <2> QED
    BY <2>1, <2>2 DEF Of
<1>11. Of(u, DDeferred) = conts[u]
  <2> DEFINE A == Of(u, DDeferred)
             B == conts[u]
  <2>1. \A b : b \in A <=> b \in B
    BY <1>1, DagMembers DEF Of, PlaceInv
  <2> HIDE DEF A, B
  <2>2. A = B
    BY <2>1, SameSet
  <2> QED
    BY <2>2 DEF A, B
<1>12. CASE hand' = hand /\ conts' = conts
  <2>1. Held' = Held
    BY <1>12 DEF Held
  <2>2. DAsked' = DAsked /\ DDeferred' = DDeferred
    BY <1>4, <1>6, <1>12, <2>1 DEF DAsked, DDeferred
  <2>3. waitCount'[u] = 0 => conts[u] = {}
    BY <1>1, <1>4, <1>12 DEF TypeInv
  <2>4. Dag!End(w)
    BY <1>5, <1>6, <1>7, <1>8, <1>9, <1>10, <1>11, <2>2, <2>3, DagActions
  <2> QED
    BY <1>5, <2>4 DEF DagStep, Dag!Next
<1>13. CASE /\ waitCount'[u] = 0
            /\ hand' = [hand EXCEPT ![t] = conts[u]] /\ conts' = [conts EXCEPT ![u] = {}]
  <2>1. /\ \A k \in Holder : hand'[k] = IF k = t THEN conts[u] ELSE hand[k]
        /\ \A v \in Task : conts'[v] = IF v = u THEN {} ELSE conts[v]
    BY <1>1, <1>13 DEF TypeInv
  <2>2. \A b : b \in Held' <=> b \in Held \/ b \in conts[u]
    BY <1>5, <2>1, HeldIs, HeldNext DEF Holder
  <2>3. DAsked' = DAsked \cup conts[u]
    <3> DEFINE A == DAsked'
               B == DAsked \cup conts[u]
    <3>1. \A b : b \in A <=> b \in B
      BY <1>4, <1>6, <2>2, DagMembers, DagMembersNext
    <3> HIDE DEF A, B
    <3>2. A = B
      BY <3>1, SameSet
    <3> QED
      BY <3>2 DEF A, B
  <2>4. DDeferred' = DDeferred \ conts[u]
    <3> DEFINE A == DDeferred'
               B == DDeferred \ conts[u]
    <3>1. \A v \in Task : \A b \in conts[v] : b.task = v
      BY <1>1 DEF PlaceInv
    <3>2. \A b : b \in A <=> b \in B
      BY <2>1, <3>1, DagMembers, DagMembersNext
    <3> HIDE DEF A, B
    <3>3. A = B
      BY <3>2, SameSet
    <3> QED
      BY <3>3 DEF A, B
  <2>5. Dag!End(w)
    BY <1>5, <1>6, <1>7, <1>8, <1>9, <1>10, <1>11, <1>13, <2>3, <2>4, DagActions
  <2> QED
    BY <1>5, <2>5 DEF DagStep, Dag!Next
<1> QED
  BY <1>4, <1>12, <1>13

\* run() returns when the pool is closed.
LEMMA ReturnReturns ==
  ASSUME IInv, Return
  PROVE  DagStep
<1>1. PoolInv
  BY PoolFacts DEF IInv
<1>2. /\ stage = "join" /\ stage' = "returned" /\ main = "closed"
      /\ waitingFor' = [t \in Task |-> {}] /\ conts' = [t \in Task |-> {}]
      /\ UNCHANGED <<pending, posted, work, step, hand>>
  BY DEF Return, poolVars
<1>3. pending = <<>> /\ \A t \in Thread : pc[t] # "run"
  BY <1>1, <1>2 DEF PoolInv
<1>4. \A u \in Task : conts[u] = {}
  BY <1>2, <1>3, AllDone
<1>5. \A u \in Task : Complete(u)
  BY <1>2, <1>3, AllDone
<1>6. DCalled = "running" /\ DCalled' = "returned"
  BY <1>2 DEF DCalled
<1>7. DBefore' = [t \in Task |-> {}]
  <2>1. \A t \in Task : {d \in Task : t \in waitingFor'[d]} = {}
    BY <1>2
  <2>2. DBefore' = [t \in Task |-> {d \in Task : t \in waitingFor'[d]}]
    BY DEF DBefore
  <2> QED
    BY <2>1, <2>2
<1>8. DAsked' = DAsked /\ DActive' = DActive
  <2>1. PendingWork' = PendingWork
    BY <1>2 DEF PendingWork
  <2> QED
    BY <1>2, <2>1 DEF DAsked, DActive
<1>9. DDeferred' = DDeferred
  <2> DEFINE A == DDeferred'
             B == DDeferred
  <2>1. \A b : b \in A <=> b \in B
    BY <1>2, <1>4, DagMembers, DagMembersNext
  <2> HIDE DEF A, B
  <2>2. A = B
    BY <2>1, SameSet
  <2> QED
    BY <2>2 DEF A, B
<1>10. Dag!Return
  BY <1>5, <1>6, <1>7, <1>8, <1>9, SameComplete, DagActions
<1> QED
  BY <1>10 DEF DagStep, Dag!Next

LEMMA DagInit == Init => Dag!Init
<1> SUFFICES ASSUME Init  PROVE Dag!Init
  OBVIOUS
<1>1. stage = "build" /\ posted = {} /\ PendingWork = {} /\ Held = {}
  <2>1. pending = <<>> /\ posted = {}
    BY DEF Init, Pool!Init
  <2>2. DOMAIN pending = {}
    BY <2>1, LenProperties, EmptySeq
  <2>3. \A a : a \notin Held
    BY HeldIs DEF Init, Holder
  <2> QED
    BY <2>1, <2>2, <2>3 DEF Init, PendingWork
<1>2. DCalled = "no" /\ DBefore = [t \in Task |-> {}]
  BY DEF Init, DCalled, DBefore
<1>3. DAsked = {Body[t] : t \in Task}
  <2> DEFINE A == DAsked
             B == {Body[t] : t \in Task}
  <2>1. \A a : a \in A <=> a \in B
    BY <1>1, DagMembers
  <2> HIDE DEF A, B
  <2>2. A = B
    BY <2>1, SameSet
  <2> QED
    BY <2>2 DEF A, B
<1>4. DActive = {} /\ DDeferred = {}
  <2>1. \A t \in Thread : step[t] = "idle"
    BY DEF Init
  <2>2. \A t \in Task : conts[t] = {}
    BY DEF Init
  <2> QED
    BY <2>1, <2>2 DEF DActive, DDeferred
<1> QED
  BY <1>2, <1>3, <1>4 DEF Dag!Init, DCalled, DBefore, DAsked, DActive, DDeferred

LEMMA DagNext ==
  ASSUME IInv, IInv', [Next]_vars
  PROVE  [Dag!Next]_Dag!vars
<1>1. CASE UNCHANGED vars
  <2>1. /\ UNCHANGED <<pending, posted, work, step, hand, conts, waitingFor>>
        /\ DCalled' = DCalled
    BY <1>1 DEF vars, poolVars, setup, DCalled
  <2>2. PendingWork' = PendingWork /\ Held' = Held
    BY <2>1 DEF PendingWork, Held
  <2> QED
    BY <2>1, <2>2, Stutter, DagMembers, DagMembersNext
<1>2. CASE StartThreads \/ SpuriousWakeup
  BY <1>2, PoolSteps, PoolStutters DEF DagStep
<1>3. CASE Run \/ \E e \in Edges : AddDependency(e[1], e[2])
  BY <1>3, GraphSteps DEF DagStep
<1>4. CASE OwnerStep
  BY <1>4, SeedStutters, PostsStutter, PoolSteps, PoolStutters, ReturnReturns
  DEF OwnerStep, DagStep
<1>5. ASSUME NEW t \in Thread, ThreadStep(t)  PROVE DagStep
  <2>1. CASE FetchWork(t)
    BY <2>1, FetchBegins
  <2>2. CASE ThreadInPool(t)
    BY <2>2, PoolSteps, PoolStutters
  <2>3. CASE FinishWork(t) \/ Release(t) \/ Tell(t) \/ Schedule(t)
    BY <2>3, ThreadStutters
  <2>4. CASE Augment(t)
    BY <2>4, AugmentAugments
  <2>5. CASE Defer(t)
    BY <2>5, DeferDefers
  <2>6. CASE Decrement(t)
    BY <2>6, DecrementEnds
  <2>7. CASE AugmentPost(t) \/ PostContinuation(t) \/ SchedulePost(t)
    BY <2>7, PostsStutter
  <2> QED
    BY <1>5, <2>1, <2>2, <2>3, <2>4, <2>5, <2>6, <2>7 DEF ThreadStep
<1> QED
  BY <1>1, <1>2, <1>3, <1>4, <1>5 DEF Next, DagStep

\* No action of a task begins before the tasks it depends on are complete,
\* none runs twice, continuations begin when all else of the task is over,
\* and run() returns only when every task is complete: the safety part of
\* ImplementsDag, for any threads, tasks, dependencies and added actions.
THEOREM StepsImplementDag == Spec => Dag!Init /\ [][Dag!Next]_Dag!vars
<1>1. IInv /\ IInv' /\ [Next]_vars => [Dag!Next]_Dag!vars
  BY DagNext
<1> QED
  BY <1>1, DagInit, DagInitInv, DagNextInv, PTL DEF Spec
=============================================================================
