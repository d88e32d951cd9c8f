------------------------ MODULE InterproceduralProofs ------------------------
(***************************************************************************)
(* The global iterations, for every well-formed program, any number of     *)
(* threads and any cap: contexts never matter, summaries are sound at any  *)
(* moment and a solution in the end, and iterations are bounded by the     *)
(* number of methods, or by one if there is no recursion.                  *)
(*                                                                         *)
(* The invariant rests on one fact: a summary changes at most once, from   *)
(* top.  What a reader has seen of a summary is what it is now, or top.    *)
(***************************************************************************)
EXTENDS Interprocedural, FiniteSetTheorems, TLAPS

\* A value that may yet be refined is top.
Refines(a, b) == a = b \/ b = "top"

\* The definitions of Interprocedural as functions of the program.
Methods(p) == DOMAIN p.callees
Indices(p) == 0 .. p.wpo.size - 1
Vertex(p)  == {i \in Indices(p) : p.wpo.type[i] # "Exit" /\ p.wpo.node[i] # GhostExit}

ReadsOf(p, m) ==
  {r \in (DOMAIN p.callees[m]) \X Methods(p) :
     p.label[m][r[1]] = "none" /\ r[2] \in p.callees[m][r[1]]}

Returns(p, m, v) ==
  [k \in DOMAIN p.callees[m] |->
     IF p.label[m][k] # "none" THEN p.label[m][k]
     ELSE Query({v[<<k, c>>] : c \in p.callees[m][k]})]

ResultOf(p, m, v) == p.transfer[m][Returns(p, m, v)]

CurrentOf(p, s, m) == [r \in ReadsOf(p, m) |-> s[r[2]]]

\* What a reader would have seen if it read the rest now.
Filled(p, s, m, v) ==
  [r \in ReadsOf(p, m) |-> IF v[r] = "unread" THEN s[r[2]] ELSE v[r]]
-----------------------------------------------------------------------------
(***************************************************************************)
(* The analysis of a method is monotone.                                   *)
(***************************************************************************)
LEMMA QueryReturns == ASSUME NEW S PROVE Query(S) \in Returned
BY DEF Query, Returned, Value

LEMMA QueryRefines ==
  ASSUME NEW S, NEW T, S = T \/ "top" \in T
  PROVE  Leq(Query(S), Query(T))
BY DEF Query, Leq

LEMMA ResultRefines ==
  ASSUME NEW p, WellFormed(p), NEW m \in Methods(p),
         NEW u \in [ReadsOf(p, m) -> Value], NEW v \in [ReadsOf(p, m) -> Value],
         \A r \in ReadsOf(p, m) : Refines(u[r], v[r])
  PROVE  ResultOf(p, m, u) \in Value /\ Refines(ResultOf(p, m, u), ResultOf(p, m, v))
<1> DEFINE K == DOMAIN p.callees[m]
           ru == Returns(p, m, u)
           rv == Returns(p, m, v)
<1>1. ASSUME NEW k \in K
      PROVE  ru[k] \in Returned /\ rv[k] \in Returned /\ Leq(ru[k], rv[k])
  <2>1. CASE p.label[m][k] # "none"
    BY <2>1, <1>1 DEF Returns, WellFormed, Methods, Leq
  <2>2. CASE p.label[m][k] = "none"
    <3> DEFINE C == p.callees[m][k]
               S == {u[<<k, c>>] : c \in C}
               T == {v[<<k, c>>] : c \in C}
    <3>1. ASSUME NEW c \in C  PROVE <<k, c>> \in ReadsOf(p, m)
      BY <1>1, <2>2, <3>1 DEF ReadsOf, WellFormed, Methods
    <3>2. ASSUME \E c \in C : v[<<k, c>>] = "top"  PROVE "top" \in T
      BY <3>2
    <3>3. ASSUME \A c \in C : v[<<k, c>>] # "top"  PROVE S = T
      <4>1. \A c \in C : u[<<k, c>>] = v[<<k, c>>]
        BY <3>1, <3>3 DEF Refines
      <4> QED
        BY <4>1
    <3>4. S = T \/ "top" \in T
      BY <3>2, <3>3
    <3>5. ru[k] = Query(S) /\ rv[k] = Query(T)
      BY <1>1, <2>2 DEF Returns
    <3> HIDE DEF S, T
    <3> QED
      BY <3>4, <3>5, QueryReturns, QueryRefines
  <2> QED
    BY <2>1, <2>2
<1>2. ru \in [K -> Returned] /\ rv \in [K -> Returned]
  BY <1>1 DEF Returns
<1> HIDE DEF ru, rv
<1>3. /\ p.transfer[m][ru] \in Value /\ p.transfer[m][rv] \in Value
      /\ Leq(p.transfer[m][ru], p.transfer[m][rv])
      /\ p.transfer[m][rv] = "bottom" => p.transfer[m][ru] = "bottom"
      /\ p.transfer[m][ru] = "bottom" => p.transfer[m][rv] = "bottom"
  BY <1>1, <1>2 DEF WellFormed, Methods
<1>4. ResultOf(p, m, u) = p.transfer[m][ru] /\ ResultOf(p, m, v) = p.transfer[m][rv]
  BY DEF ResultOf, ru, rv
<1> QED
  BY <1>3, <1>4 DEF Refines, Leq, Value
-----------------------------------------------------------------------------
(***************************************************************************)
(* The invariant.                                                          *)
(***************************************************************************)
TypeInv ==
  /\ prog \in Programs
  /\ cap \in Nat /\ iteration \in Nat /\ iteration <= cap
  /\ mode \in {"between", "running", "settled", "capped"}
  /\ hasUpdate \in BOOLEAN
  /\ summary \in [Methods(prog) -> Value]
  /\ done \subseteq Indices(prog)
  /\ pc \in [Thread -> {"free", "read", "flag"}]
  /\ elem \in [Thread -> Indices(prog)]
  /\ seen = [w \in Thread |-> seen[w]]
  /\ \A w \in Thread :
       /\ pc[w] = "read" =>
            seen[w] \in [ReadsOf(prog, prog.wpo.node[elem[w]]) -> Value \cup {"unread"}]
       /\ pc[w] # "read" => seen[w] = <<>>

\* Who does what when; no two threads analyse the same method.
FlowInv ==
  /\ mode = "running" => iteration < cap
  /\ mode = "between" => ~hasUpdate
  /\ mode # "running" => \A w \in Thread : pc[w] = "free"
  /\ \A w \in Thread : pc[w] # "free" => elem[w] \in Vertex(prog)
  /\ \A w, v \in Thread : w # v /\ pc[w] # "free" /\ pc[v] # "free" => elem[w] # elem[v]

\* No context ever says anything.
CtxInv ==
  /\ entryCtx \in [CGNode -> [Insn -> {"bottom", "args", "top"}]]
  /\ exitCtx \in [CGNode -> [Insn -> {"bottom", "args", "top"}]]
  /\ \A n \in Methods(prog) : entryCtx[n] = BottomCtx /\ exitCtx[n] = BottomCtx

\* The analysis of a method with the present summaries gives its summary, or
\* refines it.
SoundInv ==
  \A m \in Methods(prog) : Refines(ResultOf(prog, m, CurrentOf(prog, summary, m)), summary[m])

\* What was read may only have been refined since, and what the reader is
\* going to store will refine what is there.
ReadInv ==
  \A w \in Thread : pc[w] = "read" =>
     LET m == prog.wpo.node[elem[w]]
     IN  /\ \A r \in ReadsOf(prog, m) :
              seen[w][r] = "unread" \/ Refines(summary[r[2]], seen[w][r])
         /\ Refines(ResultOf(prog, m, Filled(prog, summary, m, seen[w])), summary[m])

\* As long as an iteration has changed nothing, nothing that was read is out of
\* date and the methods it is done with are solved.
Changed == hasUpdate \/ \E w \in Thread : pc[w] = "flag"
AnalysedOf(p) == {p.wpo.node[i] : i \in Vertex(p)}

QuietInv ==
  /\ mode = "running" /\ ~Changed =>
       /\ \A w \in Thread : pc[w] = "read" =>
            \A r \in ReadsOf(prog, prog.wpo.node[elem[w]]) :
               seen[w][r] \in {"unread", summary[r[2]]}
       /\ \A i \in done \cap Vertex(prog) :
            ResultOf(prog, prog.wpo.node[i], CurrentOf(prog, summary, prog.wpo.node[i]))
              = summary[prog.wpo.node[i]]
  /\ mode = "settled" =>
       \A m \in AnalysedOf(prog) : ResultOf(prog, m, CurrentOf(prog, summary, m)) = summary[m]

\* Every iteration that changed something has a summary to show for it.
Lowered(p, s) == {m \in AnalysedOf(p) : s[m] # "top"}

CountInv ==
  iteration + (IF mode = "running" /\ Changed THEN 1 ELSE 0) <= Cardinality(Lowered(prog, summary))

Inv == TypeInv /\ FlowInv /\ CtxInv /\ SoundInv /\ ReadInv /\ QuietInv /\ CountInv
-----------------------------------------------------------------------------
LEMMA Bridge ==
  /\ Method = Methods(prog)
  /\ Idx = Indices(prog)
  /\ \A m : Reads(m) = ReadsOf(prog, m)
  /\ \A m, v : Result(m, v) = ResultOf(prog, m, v)
  /\ \A m : Current(m) = CurrentOf(prog, summary, m)
<1>1. \A m : Reads(m) = ReadsOf(prog, m)
  BY DEF Reads, ReadsOf, Calls, Method, Methods
<1>2. \A m, v : Result(m, v) = ResultOf(prog, m, v)
  BY DEF Result, ResultOf, Returns, Calls
<1> QED
  BY <1>1, <1>2 DEF Method, Methods, Idx, Indices, Wpo, Current, CurrentOf

\* What the ordering of a program gives the proofs: each node has one element
\* that is not an exit, and without loops callees are before their callers.
LEMMA ScheduleFacts ==
  ASSUME NEW p, WellFormed(p)
  PROVE  /\ p.wpo.size \in Nat \ {0}
         /\ \A i \in Indices(p) :
              /\ p.wpo.node[i] \in Methods(p) \cup {GhostExit}
              /\ \E j \in Indices(p) : p.wpo.type[j] # "Exit" /\ p.wpo.node[j] = p.wpo.node[i]
         /\ \A i, j \in Indices(p) :
              /\ p.wpo.type[i] # "Exit" /\ p.wpo.type[j] # "Exit"
              /\ p.wpo.node[i] = p.wpo.node[j]
              => i = j
         /\ (\A i \in Indices(p) : p.wpo.type[i] # "Exit") =>
              \A g, h \in Indices(p) :
                <<p.wpo.node[g], p.wpo.node[h]>> \in Reversed(p.callees) =>
                  /\ g # h
                  /\ \A D \in SUBSET Indices(p) :
                       h \in D /\ (\A d \in D : p.wpo.preds[d] \subseteq D) => g \in D
<1> DEFINE q == [wpo |-> p.wpo, edges |-> Reversed(p.callees)]
<1>1. Schedule!IsScheduled(q, Methods(p) \cup {GhostExit})
  BY DEF WellFormed, Methods
<1>2. /\ q.wpo = p.wpo /\ q.edges = Reversed(p.callees)
      /\ Schedule!Indices(q) = Indices(p)
      /\ Schedule!Exits(q) = {i \in Indices(p) : p.wpo.type[i] = "Exit"}
      /\ Schedule!Vertices(q) = {i \in Indices(p) : p.wpo.type[i] # "Exit"}
  BY DEF Schedule!Indices, Schedule!Exits, Schedule!Vertices, Indices
<1> HIDE DEF q
<1>3. p.wpo.size \in Nat \ {0}
  BY <1>1, <1>2 DEF Schedule!IsScheduled
<1>4. \A i \in Schedule!Vertices(q) : p.wpo.node[i] \in Methods(p) \cup {GhostExit}
  BY <1>1, <1>2 DEF Schedule!IsScheduled
<1>5. ASSUME NEW i \in Schedule!Vertices(q), NEW k \in Schedule!Vertices(q)
      PROVE  /\ p.wpo.node[i] = p.wpo.node[k] => i = k
             /\ <<p.wpo.node[i], p.wpo.node[k]>> \in Reversed(p.callees) =>
                  \/ i # k /\ Schedule!Before(q, i, k)
                  \/ k - 1 \in Schedule!Exits(q)
  <2>1. /\ q.wpo.node[i] = q.wpo.node[k] => i = k
        /\ <<q.wpo.node[i], q.wpo.node[k]>> \in q.edges =>
              \/ i # k /\ Schedule!Before(q, i, k)
              \/ k - 1 \in Schedule!Exits(q) /\ i \in Schedule!LoopOf(q, k - 1)
    BY <1>1, Zenon DEF Schedule!IsScheduled
  <2> QED
    BY <1>2, <2>1
<1>6. \A x \in Schedule!Exits(q) : x + 1 \in Schedule!Vertices(q) /\ p.wpo.node[x] = p.wpo.node[x + 1]
  BY <1>1, <1>2 DEF Schedule!IsScheduled
<1>7. ASSUME NEW i \in Indices(p)
      PROVE  /\ p.wpo.node[i] \in Methods(p) \cup {GhostExit}
             /\ \E j \in Indices(p) : p.wpo.type[j] # "Exit" /\ p.wpo.node[j] = p.wpo.node[i]
  <2>1. CASE p.wpo.type[i] = "Exit"
    BY <1>2, <1>4, <1>6, <2>1
  <2>2. CASE p.wpo.type[i] # "Exit"
    BY <1>2, <1>4, <2>2
  <2> QED
    BY <2>1, <2>2
<1>8. ASSUME \A i \in Indices(p) : p.wpo.type[i] # "Exit", NEW g \in Indices(p), NEW h \in Indices(p),
             <<p.wpo.node[g], p.wpo.node[h]>> \in Reversed(p.callees)
      PROVE  /\ g # h
             /\ \A D \in SUBSET Indices(p) :
                  h \in D /\ (\A d \in D : p.wpo.preds[d] \subseteq D) => g \in D
  <2>1. g # h /\ Schedule!Before(q, g, h)
    BY <1>2, <1>5, <1>8
  <2> QED
    BY <1>2, <2>1 DEF Schedule!Before, Schedule!PredClosed
<1> QED
  BY <1>2, <1>3, <1>5, <1>7, <1>8

\* What is known of the program, and of a thread's method.
LEMMA ProgramFacts ==
  ASSUME prog \in Programs
  PROVE  /\ WellFormed(prog)
         /\ GhostExit \notin Methods(prog)
         /\ \A i \in Indices(prog) : prog.wpo.node[i] \in Methods(prog) \cup {GhostExit}
         /\ \A i \in Vertex(prog) : prog.wpo.node[i] \in Methods(prog)
         /\ \A i, j \in Vertex(prog) : prog.wpo.node[i] = prog.wpo.node[j] => i = j
         /\ \A m : \A r \in ReadsOf(prog, m) : r[2] \in Methods(prog)
         /\ Analysed = AnalysedOf(prog)
         /\ AnalysedOf(prog) \subseteq Methods(prog)
         /\ IsFiniteSet(AnalysedOf(prog))
<1>1. WellFormed(prog)
  BY ProgramsAssumption
<1>2. GhostExit \notin Methods(prog)
  BY <1>1 DEF WellFormed, Methods
<1>3. \A i \in Indices(prog) : prog.wpo.node[i] \in Methods(prog) \cup {GhostExit}
  BY <1>1, ScheduleFacts
<1>4. \A i \in Vertex(prog) : prog.wpo.node[i] \in Methods(prog)
  BY <1>3 DEF Vertex
<1>5. \A i, j \in Vertex(prog) : prog.wpo.node[i] = prog.wpo.node[j] => i = j
  BY <1>1, ScheduleFacts DEF Vertex
<1>6. \A m : \A r \in ReadsOf(prog, m) : r[2] \in Methods(prog)
  BY DEF ReadsOf
<1>7. \A i \in Indices(prog) : \E j \in Indices(prog) :
         prog.wpo.type[j] # "Exit" /\ prog.wpo.node[j] = prog.wpo.node[i]
  BY <1>1, ScheduleFacts
<1>8. Analysed = AnalysedOf(prog)
  BY <1>7, Bridge DEF Analysed, AnalysedOf, Vertex, NodeOf, Wpo
<1>9. AnalysedOf(prog) \subseteq Methods(prog)
  BY <1>4 DEF AnalysedOf
<1>10. IsFiniteSet(AnalysedOf(prog))
  BY <1>1, <1>9, FS_Subset DEF WellFormed, Methods
<1> QED
  BY <1>1, <1>2, <1>3, <1>4, <1>5, <1>6, <1>8, <1>9, <1>10

\* What a thread that is about to summarize will store.
LEMMA OutcomeFacts ==
  ASSUME Inv, NEW w \in Thread, Analyze(w)
  PROVE  LET n == prog.wpo.node[elem[w]]
         IN  /\ n \in Methods(prog)
             /\ elem[w] \in Vertex(prog)
             /\ seen[w] \in [ReadsOf(prog, n) -> Value]
             /\ Outcome(w) = ResultOf(prog, n, seen[w])
             /\ Outcome(w) \in Value
             /\ Refines(Outcome(w), summary[n])
             /\ \A r \in ReadsOf(prog, n) : Refines(summary[r[2]], seen[w][r])
<1> DEFINE n == prog.wpo.node[elem[w]]
<1>1. pc[w] = "read" /\ \A r \in DOMAIN seen[w] : seen[w][r] # "unread"
  BY DEF Analyze
<1>2. elem[w] \in Vertex(prog) /\ n \in Methods(prog)
  BY <1>1, ProgramFacts DEF Inv, TypeInv, FlowInv
<1>3. seen[w] \in [ReadsOf(prog, n) -> Value \cup {"unread"}]
  BY <1>1 DEF Inv, TypeInv
<1>4. seen[w] \in [ReadsOf(prog, n) -> Value]
  BY <1>1, <1>3
<1>5. Filled(prog, summary, n, seen[w]) = seen[w]
  BY <1>1, <1>3 DEF Filled
<1>6. Outcome(w) = ResultOf(prog, n, seen[w])
  BY <1>2, Bridge DEF Outcome, NodeOf, Wpo, Inv, CtxInv
<1>7. Refines(ResultOf(prog, n, seen[w]), summary[n])
  BY <1>1, <1>5 DEF Inv, ReadInv
<1>8. ResultOf(prog, n, seen[w]) \in Value
  BY <1>2, <1>4, ProgramFacts, ResultRefines DEF Inv, TypeInv, Refines
<1>9. \A r \in ReadsOf(prog, n) : Refines(summary[r[2]], seen[w][r])
  BY <1>1, <1>3 DEF Inv, ReadInv
<1> QED
  BY <1>2, <1>4, <1>6, <1>7, <1>8, <1>9
-----------------------------------------------------------------------------
LEMMA TypeNext ==
  ASSUME Inv, [Next]_vars
  PROVE  TypeInv'
<1> USE DEF TypeInv
<1>0. TypeInv
  BY DEF Inv
<1>1. CASE StartIteration
  BY <1>0, <1>1 DEF StartIteration, registry, threads
<1>2. CASE NextIteration
  <2>1. iteration + 1 \in Nat /\ iteration + 1 <= cap
    BY <1>0, <1>2 DEF NextIteration, Over, Inv, FlowInv
  <2> QED
    BY <1>0, <1>2, <2>1 DEF NextIteration, states, threads
<1>3. CASE Settle
  BY <1>0, <1>3 DEF Settle, registry, states, threads
<1>4. CASE GiveUp
  BY <1>0, <1>4 DEF GiveUp, registry, states, threads
<1>5. ASSUME NEW i \in Idx, PassExit(i)  PROVE TypeInv'
  BY <1>0, <1>5, Bridge DEF PassExit, control, registry, threads
<1>6. ASSUME NEW i \in Idx, CloseLoop(i)  PROVE TypeInv'
  BY <1>0, <1>6, Bridge DEF CloseLoop, control, registry, threads
<1>7. ASSUME NEW w \in Thread, NEW i \in Idx, Begin(w, i)  PROVE TypeInv'
  <2>1. prog' = prog
    BY <1>7 DEF Begin, control
  <2>2. seen'[w] = [r \in ReadsOf(prog, prog.wpo.node[i]) |-> "unread"]
    BY <1>0, <1>7, Bridge DEF Begin, NodeOf, Wpo
  <2>3. \A v \in Thread : v # w => pc'[v] = pc[v] /\ elem'[v] = elem[v] /\ seen'[v] = seen[v]
    BY <1>0, <1>7 DEF Begin
  <2>4. pc'[w] = "read" /\ elem'[w] = i
    BY <1>0, <1>7 DEF Begin
  <2>5. \A v \in Thread :
          /\ pc'[v] = "read" =>
               seen'[v] \in [ReadsOf(prog, prog.wpo.node[elem'[v]]) -> Value \cup {"unread"}]
          /\ pc'[v] # "read" => seen'[v] = <<>>
    BY <1>0, <2>2, <2>3, <2>4
  <2> QED
    BY <1>0, <1>7, <2>1, <2>5, Bridge DEF Begin, control, registry
<1>8. ASSUME NEW w \in Thread, Read(w)  PROVE TypeInv'
  <2> DEFINE n == prog.wpo.node[elem[w]]
  <2>1. PICK r \in DOMAIN seen[w] : seen' = [seen EXCEPT ![w][r] = summary[r[2]]]
    BY <1>8 DEF Read
  <2>2. seen[w] \in [ReadsOf(prog, n) -> Value \cup {"unread"}] /\ pc[w] = "read"
    BY <1>0, <1>8 DEF Read
  <2>3. summary[r[2]] \in Value
    BY <1>0, <2>1, <2>2, ProgramFacts
  <2>4. seen'[w] = [seen[w] EXCEPT ![r] = summary[r[2]]]
    BY <1>0, <2>1
  <2>5. seen'[w] \in [ReadsOf(prog, n) -> Value \cup {"unread"}]
    BY <2>1, <2>2, <2>3, <2>4
  <2>6. \A v \in Thread : v # w => seen'[v] = seen[v]
    BY <1>0, <2>1
  <2>7. seen' = [v \in Thread |-> seen'[v]]
    BY <1>0, <2>1
  <2> QED
    BY <1>0, <1>8, <2>2, <2>5, <2>6, <2>7 DEF Read, control, registry, states
<1>9. ASSUME NEW w \in Thread, Analyze(w), UNCHANGED <<control, elem>>,
             summary' \in [Methods(prog) -> Value], hasUpdate' \in BOOLEAN,
             done' \subseteq Indices(prog),
             \E x \in {"free", "flag"} : pc' = [pc EXCEPT ![w] = x]
      PROVE  TypeInv'
  <2>1. seen' = [seen EXCEPT ![w] = <<>>]
    BY <1>9 DEF Analyze
  <2>2. \A v \in Thread : v # w => pc'[v] = pc[v] /\ seen'[v] = seen[v]
    BY <1>0, <1>9, <2>1
  <2>3. pc'[w] \in {"free", "flag"} /\ seen'[w] = <<>>
    BY <1>0, <1>9, <2>1
  <2>4. pc' \in [Thread -> {"free", "read", "flag"}]
    BY <1>0, <1>9
  <2>5. seen' = [v \in Thread |-> seen'[v]]
    BY <1>0, <2>1
  <2> QED
    BY <1>0, <1>9, <2>2, <2>3, <2>4, <2>5 DEF control
<1>10. ASSUME NEW w \in Thread, Keep(w)  PROVE TypeInv'
  <2>1. Analyze(w) /\ UNCHANGED <<control, elem>> /\ UNCHANGED <<summary, hasUpdate>>
    BY <1>10 DEF Keep, registry
  <2>2. done' \subseteq Indices(prog)
    BY <1>0, <1>10 DEF Keep
  <2>3. pc' = [pc EXCEPT ![w] = "free"]
    BY <1>10 DEF Keep
  <2> QED
    BY <1>0, <1>9, <2>1, <2>2, <2>3
<1>11. ASSUME NEW w \in Thread, Store(w)  PROVE TypeInv'
  <2>1. Analyze(w) /\ UNCHANGED <<control, elem>> /\ UNCHANGED <<done, hasUpdate>>
    BY <1>11 DEF Store
  <2>2. summary' = [summary EXCEPT ![prog.wpo.node[elem[w]]] = Outcome(w)]
    BY <1>11 DEF Store, NodeOf, Wpo
  <2>3. summary' \in [Methods(prog) -> Value]
    BY <1>0, <2>1, <2>2, OutcomeFacts
  <2>4. pc' = [pc EXCEPT ![w] = "flag"]
    BY <1>11 DEF Store
  <2> QED
    BY <1>0, <1>9, <2>1, <2>3, <2>4
<1>12. ASSUME NEW w \in Thread, Flag(w)  PROVE TypeInv'
  BY <1>0, <1>12 DEF Flag, control
<1>13. CASE UNCHANGED vars
  BY <1>0, <1>13 DEF vars
<1> QED
  BY <1>1, <1>2, <1>3, <1>4, <1>5, <1>6, <1>7, <1>8, <1>10, <1>11, <1>12, <1>13 DEF Next, Step
-----------------------------------------------------------------------------
LEMMA InitInv == Init => Inv
<1> SUFFICES ASSUME Init PROVE Inv
  OBVIOUS
<1>1. prog \in Programs /\ WellFormed(prog)
  BY ProgramFacts DEF Init
<1>2. TypeInv
  <2>1. prog.wpo.size - 1 \in Indices(prog)
    BY <1>1, ScheduleFacts DEF Indices
  <2>2. cap \in Nat
    BY CapsAssumption DEF Init
  <2>3. summary \in [Methods(prog) -> Value]
    BY DEF Init, Value, Method, Methods
  <2>4. seen = [w \in Thread |-> seen[w]] /\ \A w \in Thread : seen[w] = <<>> /\ pc[w] = "free"
    BY DEF Init
  <2>5. elem \in [Thread -> Indices(prog)]
    BY <2>1 DEF Init, Wpo
  <2>6. pc \in [Thread -> {"free", "read", "flag"}]
    BY DEF Init
  <2>7. iteration = 0 /\ mode = "between" /\ hasUpdate = FALSE /\ done = {}
    BY DEF Init
  <2>8. /\ mode \in {"between", "running", "settled", "capped"}
        /\ iteration \in Nat /\ iteration <= cap /\ done \subseteq Indices(prog)
    BY <2>2, <2>7
  <2>10. hasUpdate \in BOOLEAN
    BY <2>7, Zenon
  <2>9. \A w \in Thread :
          /\ pc[w] = "read" =>
               seen[w] \in [ReadsOf(prog, prog.wpo.node[elem[w]]) -> Value \cup {"unread"}]
          /\ pc[w] # "read" => seen[w] = <<>>
    BY <2>4
  <2> QED
    BY <1>1, <2>2, <2>3, <2>4, <2>5, <2>6, <2>8, <2>9, <2>10, Zenon DEF TypeInv
<1>3. FlowInv
  BY DEF Init, FlowInv
<1>4. CtxInv
  BY DEF Init, CtxInv, BottomCtx, CGNode, Method, Methods
<1>5. SoundInv
  BY DEF Init, SoundInv, Refines, Method, Methods
<1>6. ReadInv
  BY DEF Init, ReadInv
<1>7. QuietInv
  BY DEF Init, QuietInv
<1>8. CountInv
  <2>1. Cardinality(Lowered(prog, summary)) \in Nat
    BY <1>1, ProgramFacts, FS_Subset, FS_CardinalityType DEF Lowered
  <2> QED
    BY <2>1 DEF Init, CountInv
<1> QED
  BY <1>2, <1>3, <1>4, <1>5, <1>6, <1>7, <1>8 DEF Inv
-----------------------------------------------------------------------------
(***************************************************************************)
(* Contexts.                                                               *)
(***************************************************************************)
Args == {"bottom", "args", "top"}

LEMMA ContextTypes ==
  /\ BottomCtx \in [Insn -> Args]
  /\ \A c, d \in [Insn -> Args] : JoinCtx(c, d) \in [Insn -> Args]
  /\ \A n : Incoming(n) \in [Insn -> Args]
  /\ \A n : \A c \in [Insn -> Args] : WithArguments(n, c) \in [Insn -> Args]
  /\ JoinCtx(BottomCtx, BottomCtx) = BottomCtx
  /\ \A n : WithArguments(n, BottomCtx) = BottomCtx
<1>1. BottomCtx \in [Insn -> Args]
  BY DEF BottomCtx, Args
<1>2. \A a, b \in Args : JoinArgs(a, b) \in Args
  BY DEF JoinArgs, Args
<1>3. \A c, d \in [Insn -> Args] : JoinCtx(c, d) \in [Insn -> Args]
  BY <1>2 DEF JoinCtx
<1>4. \A n : Incoming(n) \in [Insn -> Args]
  BY DEF Incoming, Args
<1>5. ASSUME NEW n, NEW c \in [Insn -> Args]  PROVE WithArguments(n, c) \in [Insn -> Args]
  BY <1>2 DEF WithArguments, Args
<1>6. JoinCtx(BottomCtx, BottomCtx) = BottomCtx
  BY DEF JoinCtx, BottomCtx, JoinArgs
<1>7. \A n : WithArguments(n, BottomCtx) = BottomCtx
  BY DEF WithArguments, BottomCtx
<1> QED
  BY <1>1, <1>3, <1>4, <1>5, <1>6, <1>7

\* What flows into a method from methods that have no context is no context.
LEMMA IncomingBottom ==
  ASSUME prog \in Programs, CtxInv, NEW n \in Methods(prog)
  PROVE  Incoming(n) = BottomCtx
<1>1. n # GhostExit
  BY ProgramFacts
<1>2. ASSUME NEW e \in EdgesInto(n)  PROVE AnalyzeEdge(e) = BottomCtx
  <2>1. CASE e[1] = GhostExit
    BY <2>1 DEF AnalyzeEdge
  <2>2. CASE e[1] # GhostExit
    <3>1. PICK c \in Method, k \in Calls(n) : e = <<c, <<n, k>>>>
      BY <1>1, <1>2, <2>2 DEF EdgesInto
    <3>2. <<n, k>> \in Insn
      BY <3>1 DEF Insn, Method, Methods
    <3>3. exitCtx[c] = BottomCtx
      BY <3>1 DEF CtxInv, Method, Methods
    <3>4. exitCtx[e[1]][e[2]] = "bottom"
      BY <3>1, <3>2, <3>3 DEF BottomCtx
    <3> QED
      BY <2>2, <3>4 DEF AnalyzeEdge, Bind
  <2> QED
    BY <2>1, <2>2
<1> DEFINE into == {AnalyzeEdge(e) : e \in EdgesInto(n)} \cup
                   {IF n = GhostExit THEN TopCtx ELSE BottomCtx}
           meet(l) == {c[l] : c \in into}
<1>3. into = {BottomCtx}
  BY <1>1, <1>2
<1>4. \A l \in Insn : meet(l) = {"bottom"}
  BY <1>3 DEF BottomCtx
<1>5. Incoming(n) = [l \in Insn |-> CASE meet(l) = {"bottom"} -> "bottom"
                                      [] "top" \in meet(l)    -> "top"
                                      [] OTHER                -> "args"]
  BY DEF Incoming
<1> HIDE DEF meet
<1> QED
  BY <1>4, <1>5 DEF BottomCtx

LEMMA CtxNext ==
  ASSUME Inv, [Next]_vars
  PROVE  CtxInv'
<1>0. CtxInv /\ TypeInv /\ prog \in Programs
  BY DEF Inv, TypeInv
<1>a. ASSUME prog' = prog
      PROVE  CGNode' = CGNode /\ Insn' = Insn /\ BottomCtx' = BottomCtx /\ Methods(prog)' = Methods(prog)
  <2>1. CGNode' = CGNode /\ Insn' = Insn /\ Methods(prog)' = Methods(prog)
    BY <1>a DEF CGNode, Insn, Method, Methods, Calls
  <2> QED
    BY <2>1 DEF BottomCtx
<1>1. CASE prog' = prog /\ UNCHANGED <<entryCtx, exitCtx>>
  BY <1>0, <1>1, <1>a DEF CtxInv
<1>2. ASSUME prog' = prog,
             entryCtx' \in [CGNode -> [Insn -> Args]], exitCtx' \in [CGNode -> [Insn -> Args]],
             \A n \in Methods(prog) : entryCtx'[n] = BottomCtx /\ exitCtx'[n] = BottomCtx
      PROVE  CtxInv'
  BY <1>2, <1>a DEF CtxInv, Args
<1>3. entryCtx \in [CGNode -> [Insn -> Args]] /\ exitCtx \in [CGNode -> [Insn -> Args]]
  BY <1>0 DEF CtxInv, Args
<1>4. \A n \in Methods(prog) : entryCtx[n] = BottomCtx /\ exitCtx[n] = BottomCtx
  BY <1>0 DEF CtxInv
<1>5. \A n \in Methods(prog) : n \in CGNode /\ n # GhostExit
  BY <1>0, ProgramFacts DEF CGNode, Method, Methods
<1>6. \A i \in Idx : NodeOf(i) \in CGNode
  BY <1>0, ProgramFacts, Bridge DEF CGNode, NodeOf, Wpo
<1>7. \A n \in CGNode : /\ JoinCtx(entryCtx[n], Incoming(n)) \in [Insn -> Args]
                        /\ n \in Methods(prog) => JoinCtx(entryCtx[n], Incoming(n)) = BottomCtx
  BY <1>0, <1>3, <1>4, ContextTypes, IncomingBottom
<1>8. CASE StartIteration
  <2>1. prog' = prog /\ entryCtx' = [n \in CGNode |-> BottomCtx] /\ exitCtx' = entryCtx'
    BY <1>8 DEF StartIteration
  <2> QED
    BY <1>2, <1>5, <2>1, ContextTypes
<1>9. ASSUME NEW i \in Idx, PassExit(i)  PROVE CtxInv'
  <2>1. GhostExit \in CGNode
    BY DEF CGNode
  <2> DEFINE new == JoinCtx(entryCtx[GhostExit], Incoming(GhostExit))
  <2>2. /\ prog' = prog
        /\ entryCtx' = [entryCtx EXCEPT ![GhostExit] = new]
        /\ exitCtx' = [exitCtx EXCEPT ![GhostExit] = entryCtx'[GhostExit]]
    BY <1>9 DEF PassExit, control
  <2>3. new \in [Insn -> Args]
    BY <1>7, <2>1
  <2> HIDE DEF new
  <2> QED
    BY <1>2, <1>3, <1>4, <1>5, <2>1, <2>2, <2>3
<1>10. ASSUME NEW w \in Thread, NEW i \in Idx, Begin(w, i)  PROVE CtxInv'
  <2> DEFINE n == NodeOf(i)
             new == JoinCtx(entryCtx[n], Incoming(n))
  <2>1. /\ prog' = prog
        /\ entryCtx' = [entryCtx EXCEPT ![n] = new]
        /\ exitCtx' = [exitCtx EXCEPT ![n] = entryCtx'[n]]
        /\ n # GhostExit
    BY <1>10 DEF Begin, control
  <2>2. n \in CGNode /\ n \in Methods(prog)
    BY <1>6, <2>1 DEF CGNode, Method, Methods
  <2>3. new \in [Insn -> Args] /\ new = BottomCtx
    BY <1>7, <2>2
  <2> HIDE DEF new, n
  <2> QED
    BY <1>2, <1>3, <1>4, <1>5, <2>1, <2>2, <2>3
<1>11. ASSUME NEW w \in Thread, Analyze(w), UNCHANGED <<prog, entryCtx>>  PROVE CtxInv'
  <2> DEFINE n == NodeOf(elem[w])
             new == WithArguments(n, exitCtx[n])
  <2>1. exitCtx' = [exitCtx EXCEPT ![n] = new]
    BY <1>11 DEF Analyze
  <2>2. n \in Methods(prog)
    BY <1>11, OutcomeFacts DEF NodeOf, Wpo
  <2>3. new \in [Insn -> Args] /\ new = BottomCtx
    BY <1>4, <2>2, ContextTypes
  <2> HIDE DEF new, n
  <2> QED
    BY <1>2, <1>3, <1>4, <1>5, <1>11, <2>1, <2>2, <2>3
<1>12. ASSUME NEW i \in Idx, CloseLoop(i)  PROVE CtxInv'
  <2> DEFINE h == NodeOf(i)
             new == Incoming(h)
             joined == JoinCtx(entryCtx[h], new)
  <2>1. prog' = prog /\ exitCtx' = exitCtx
    BY <1>12 DEF CloseLoop, control
  <2>2. \/ entryCtx' = [entryCtx EXCEPT ![h] = new]
        \/ entryCtx' = [entryCtx EXCEPT ![h] = joined]
    BY <1>12 DEF CloseLoop
  <2>3. h \in CGNode
    BY <1>6
  <2>4. new \in [Insn -> Args] /\ joined \in [Insn -> Args]
    BY <1>7, <2>3, ContextTypes
  <2>5. h \in Methods(prog) => new = BottomCtx /\ joined = BottomCtx
    BY <1>0, <1>7, <2>3, IncomingBottom
  <2> HIDE DEF h, new, joined
  <2> QED
    BY <1>2, <1>3, <1>4, <1>5, <2>1, <2>2, <2>3, <2>4, <2>5
<1>13. CASE NextIteration \/ Settle \/ GiveUp
  BY <1>1, <1>13 DEF NextIteration, Settle, GiveUp, states
<1>14. ASSUME NEW w \in Thread, Read(w) \/ Flag(w)  PROVE CtxInv'
  BY <1>1, <1>14 DEF Read, Flag, states, control
<1>15. ASSUME NEW w \in Thread, Keep(w) \/ Store(w)  PROVE CtxInv'
  BY <1>11, <1>15 DEF Keep, Store, control
<1>16. CASE UNCHANGED vars
  BY <1>1, <1>16 DEF vars
<1> QED
  BY <1>8, <1>9, <1>10, <1>12, <1>13, <1>14, <1>15, <1>16 DEF Next, Step
-----------------------------------------------------------------------------
LEMMA FlowNext ==
  ASSUME Inv, [Next]_vars
  PROVE  FlowInv'
<1> USE DEF FlowInv
<1>0. FlowInv /\ TypeInv /\ prog \in Programs /\ prog' = prog
  BY DEF Inv, TypeInv, Next, Step, StartIteration, NextIteration, Settle, GiveUp,
         PassExit, CloseLoop, Begin, Read, Keep, Store, Flag, control, vars
<1>1. CASE UNCHANGED <<pc, elem, mode, iteration, cap, hasUpdate>>
  BY <1>0, <1>1
<1>2. CASE StartIteration
  BY <1>0, <1>2 DEF StartIteration, threads, registry
<1>3. CASE NextIteration
  BY <1>0, <1>3 DEF NextIteration, Over, threads
<1>4. CASE Settle
  BY <1>0, <1>4 DEF Settle, Over, threads, registry
<1>5. CASE GiveUp
  BY <1>0, <1>5 DEF GiveUp, threads, registry
<1>6. ASSUME NEW w \in Thread, NEW i \in Idx, Begin(w, i)  PROVE FlowInv'
  <2>1. /\ pc' = [pc EXCEPT ![w] = "read"] /\ elem' = [elem EXCEPT ![w] = i]
        /\ UNCHANGED <<mode, iteration, cap, hasUpdate>>
        /\ mode = "running" /\ \A v \in Thread : pc[v] # "free" => elem[v] # i
    BY <1>6 DEF Begin, Ready, control, registry
  <2>2. i \in Vertex(prog)
    BY <1>6, Bridge DEF Begin, Vertex, IsExit, NodeOf, Wpo
  <2>3. pc \in [Thread -> {"free", "read", "flag"}] /\ elem \in [Thread -> Indices(prog)]
    BY <1>0 DEF TypeInv
  <2> QED
    BY <1>0, <2>1, <2>2, <2>3
<1>7. ASSUME NEW w \in Thread, pc[w] # "free", UNCHANGED <<mode, iteration, cap, elem>>,
             mode = "between" => hasUpdate' = hasUpdate,
             \E x \in {"free", "flag"} : pc' = [pc EXCEPT ![w] = x]
      PROVE  FlowInv'
  <2>1. pc \in [Thread -> {"free", "read", "flag"}]
    BY <1>0 DEF TypeInv
  <2>2. \A v \in Thread : pc'[v] # "free" => pc[v] # "free"
    BY <1>7, <2>1
  <2> QED
    BY <1>0, <1>7, <2>1, <2>2
<1>8. ASSUME NEW w \in Thread, Keep(w) \/ Store(w)  PROVE FlowInv'
  BY <1>7, <1>8 DEF Keep, Store, Analyze, control, registry
<1>9. ASSUME NEW w \in Thread, Flag(w)  PROVE FlowInv'
  <2>1. pc[w] # "free" /\ mode # "between"
    BY <1>0, <1>9 DEF Flag
  <2> QED
    BY <1>7, <1>9, <2>1 DEF Flag, control
<1>10. ASSUME NEW w \in Thread, Read(w)  PROVE FlowInv'
  BY <1>1, <1>10 DEF Read, control, registry
<1>11. ASSUME NEW i \in Idx, PassExit(i) \/ CloseLoop(i)  PROVE FlowInv'
  BY <1>1, <1>11 DEF PassExit, CloseLoop, control, registry, threads
<1>12. CASE UNCHANGED vars
  BY <1>1, <1>12 DEF vars
<1> QED
  BY <1>2, <1>3, <1>4, <1>5, <1>6, <1>8, <1>9, <1>10, <1>11, <1>12 DEF Next, Step
-----------------------------------------------------------------------------
(***************************************************************************)
(* Summaries.                                                              *)
(***************************************************************************)
LEMMA RefinesTransitive ==
  ASSUME NEW a, NEW b, NEW c, Refines(a, b), Refines(b, c)
  PROVE  Refines(a, c)
BY DEF Refines

\* When summaries are refined, so is what is made of them and of what was read.
LEMMA RefinedSummaries ==
  ASSUME Inv, NEW s \in [Methods(prog) -> Value],
         \A m \in Methods(prog) : Refines(s[m], summary[m])
  PROVE  /\ \A m \in Methods(prog) : Refines(ResultOf(prog, m, CurrentOf(prog, s, m)), summary[m])
         /\ \A w \in Thread : pc[w] = "read" =>
              LET m == prog.wpo.node[elem[w]]
              IN  /\ \A r \in ReadsOf(prog, m) :
                       seen[w][r] = "unread" \/ Refines(s[r[2]], seen[w][r])
                  /\ Refines(ResultOf(prog, m, Filled(prog, s, m, seen[w])), summary[m])
<1>0. TypeInv /\ FlowInv /\ SoundInv /\ ReadInv /\ prog \in Programs /\ WellFormed(prog)
  BY ProgramFacts DEF Inv, TypeInv
<1>1. summary \in [Methods(prog) -> Value]
  BY <1>0 DEF TypeInv
<1>2. \A m : \A r \in ReadsOf(prog, m) : r[2] \in Methods(prog)
  BY <1>0, ProgramFacts
<1>3. ASSUME NEW m \in Methods(prog)
      PROVE  Refines(ResultOf(prog, m, CurrentOf(prog, s, m)), summary[m])
  <2> DEFINE u == CurrentOf(prog, s, m)
             v == CurrentOf(prog, summary, m)
  <2>1. u \in [ReadsOf(prog, m) -> Value] /\ v \in [ReadsOf(prog, m) -> Value]
    BY <1>1, <1>2 DEF CurrentOf
  <2>2. \A r \in ReadsOf(prog, m) : Refines(u[r], v[r])
    BY <1>2 DEF CurrentOf
  <2>3. Refines(ResultOf(prog, m, v), summary[m])
    BY <1>0 DEF SoundInv
  <2> HIDE DEF u, v
  <2>4. Refines(ResultOf(prog, m, u), ResultOf(prog, m, v))
    BY <1>0, <2>1, <2>2, ResultRefines
  <2>5. Refines(ResultOf(prog, m, u), summary[m])
    BY <2>3, <2>4, RefinesTransitive
  <2> QED
    BY <2>5 DEF u
<1>4. ASSUME NEW w \in Thread, pc[w] = "read"
      PROVE  LET m == prog.wpo.node[elem[w]]
             IN  /\ \A r \in ReadsOf(prog, m) :
                      seen[w][r] = "unread" \/ Refines(s[r[2]], seen[w][r])
                 /\ Refines(ResultOf(prog, m, Filled(prog, s, m, seen[w])), summary[m])
  <2> DEFINE m == prog.wpo.node[elem[w]]
             u == Filled(prog, s, m, seen[w])
             v == Filled(prog, summary, m, seen[w])
  <2>0. m \in Methods(prog)
    BY <1>0, <1>4, ProgramFacts DEF FlowInv
  <2>1. seen[w] \in [ReadsOf(prog, m) -> Value \cup {"unread"}]
    BY <1>0, <1>4 DEF TypeInv
  <2>2. /\ \A r \in ReadsOf(prog, m) : seen[w][r] = "unread" \/ Refines(summary[r[2]], seen[w][r])
        /\ Refines(ResultOf(prog, m, v), summary[m])
    BY <1>0, <1>4 DEF ReadInv
  <2> HIDE DEF m
  <2>3. \A r \in ReadsOf(prog, m) : seen[w][r] = "unread" \/ Refines(s[r[2]], seen[w][r])
    BY <1>2, <2>2, RefinesTransitive
  <2>4. u \in [ReadsOf(prog, m) -> Value] /\ v \in [ReadsOf(prog, m) -> Value]
    BY <1>1, <1>2, <2>1 DEF Filled
  <2>5. \A r \in ReadsOf(prog, m) : Refines(u[r], v[r])
    BY <1>2 DEF Filled, Refines
  <2> HIDE DEF u, v
  <2>6. Refines(ResultOf(prog, m, u), ResultOf(prog, m, v))
    BY <1>0, <2>0, <2>4, <2>5, ResultRefines
  <2>7. Refines(ResultOf(prog, m, u), summary[m])
    BY <2>2, <2>6, RefinesTransitive
  <2> QED
    BY <2>3, <2>7 DEF m, u
<1> QED
  BY <1>3, <1>4

\* A summary that is stored refines top, which was there before.
LEMMA StoreRefines ==
  ASSUME Inv, NEW w \in Thread, Store(w)
  PROVE  LET n == prog.wpo.node[elem[w]]
         IN  /\ n \in Methods(prog) /\ elem[w] \in Vertex(prog) /\ pc[w] = "read"
             /\ prog' = prog /\ elem' = elem /\ mode' = mode /\ hasUpdate' = hasUpdate
             /\ iteration' = iteration /\ done' = done
             /\ pc' = [pc EXCEPT ![w] = "flag"]
             /\ summary' = [summary EXCEPT ![n] = ResultOf(prog, n, seen[w])]
             /\ summary' \in [Methods(prog) -> Value]
             /\ \A m \in Methods(prog) : Refines(summary'[m], summary[m])
             /\ summary[n] = "top" /\ summary'[n] # "top"
             /\ \A v \in Thread : v # w => seen'[v] = seen[v] /\ pc'[v] = pc[v]
<1> DEFINE n == prog.wpo.node[elem[w]]
<1>1. /\ Analyze(w) /\ Outcome(w) # summary[n]
      /\ summary' = [summary EXCEPT ![n] = Outcome(w)]
      /\ pc' = [pc EXCEPT ![w] = "flag"]
      /\ UNCHANGED <<prog, elem, mode, hasUpdate, iteration, done>>
  BY DEF Store, control, NodeOf, Wpo
<1>2. /\ n \in Methods(prog) /\ elem[w] \in Vertex(prog)
      /\ Outcome(w) = ResultOf(prog, n, seen[w])
      /\ Outcome(w) \in Value /\ Refines(Outcome(w), summary[n])
  BY <1>1, OutcomeFacts
<1>3. pc[w] = "read" /\ seen' = [seen EXCEPT ![w] = <<>>]
  BY <1>1 DEF Analyze
<1>4. /\ summary \in [Methods(prog) -> Value]
      /\ seen = [v \in Thread |-> seen[v]]
      /\ pc \in [Thread -> {"free", "read", "flag"}]
  BY DEF Inv, TypeInv
<1>5. \A v \in Thread : v # w => seen'[v] = seen[v] /\ pc'[v] = pc[v]
  BY <1>1, <1>3, <1>4
<1> HIDE DEF n
<1>6. summary[n] = "top" /\ summary'[n] = Outcome(w) /\ Outcome(w) # "top"
  BY <1>1, <1>2, <1>4 DEF Refines
<1>7. summary' \in [Methods(prog) -> Value]
  BY <1>1, <1>2, <1>4
<1>8. \A m \in Methods(prog) : Refines(summary'[m], summary[m])
  BY <1>1, <1>2, <1>4 DEF Refines
<1> QED
  BY <1>1, <1>2, <1>3, <1>5, <1>6, <1>7, <1>8 DEF n

\* Every other step leaves the summaries and the program alone.
LEMMA OtherSteps ==
  ASSUME Inv, [Next]_vars
  PROVE  /\ prog' = prog
         /\ \/ summary' = summary
            \/ \E w \in Thread : Store(w)
BY DEF Next, Step, StartIteration, NextIteration, Settle, GiveUp, PassExit, CloseLoop,
       Begin, Read, Keep, Flag, Store, control, registry, vars

LEMMA SoundNext ==
  ASSUME Inv, [Next]_vars
  PROVE  SoundInv'
<1>0. SoundInv
  BY DEF Inv
<1>1. CASE prog' = prog /\ summary' = summary
  BY <1>0, <1>1 DEF SoundInv
<1>2. ASSUME NEW w \in Thread, Store(w)  PROVE SoundInv'
  <2> DEFINE n == prog.wpo.node[elem[w]]
             cur(m) == CurrentOf(prog, summary', m)
  <2>1. /\ n \in Methods(prog) /\ prog' = prog
        /\ summary' \in [Methods(prog) -> Value]
        /\ summary' = [summary EXCEPT ![n] = ResultOf(prog, n, seen[w])]
        /\ \A m \in Methods(prog) : Refines(summary'[m], summary[m])
    BY <1>2, StoreRefines
  <2>2. /\ seen[w] \in [ReadsOf(prog, n) -> Value]
        /\ \A r \in ReadsOf(prog, n) : Refines(summary[r[2]], seen[w][r])
    BY <1>2, OutcomeFacts DEF Store
  <2>3. WellFormed(prog) /\ \A m : \A r \in ReadsOf(prog, m) : r[2] \in Methods(prog)
    BY ProgramFacts DEF Inv, TypeInv
  <2>4. summary \in [Methods(prog) -> Value]
    BY DEF Inv, TypeInv
  <2> HIDE DEF n
  <2>5. Refines(ResultOf(prog, n, cur(n)), summary'[n])
    <3>1. \A r \in ReadsOf(prog, n) : Refines(summary'[r[2]], seen[w][r])
      BY <2>1, <2>2, <2>3, RefinesTransitive
    <3>2. cur(n) \in [ReadsOf(prog, n) -> Value] /\ \A r \in ReadsOf(prog, n) : Refines(cur(n)[r], seen[w][r])
      BY <2>1, <2>3, <3>1 DEF CurrentOf
    <3> HIDE DEF cur
    <3>3. Refines(ResultOf(prog, n, cur(n)), ResultOf(prog, n, seen[w]))
      BY <2>1, <2>2, <2>3, <3>2, ResultRefines
    <3> QED
      BY <2>1, <2>4, <3>3
  <2>6. \A m \in Methods(prog) : Refines(ResultOf(prog, m, cur(m)), summary[m])
    BY <2>1, RefinedSummaries
  <2>7. \A m \in Methods(prog) : m # n => summary'[m] = summary[m]
    BY <2>1, <2>4
  <2>8. \A m \in Methods(prog) : Refines(ResultOf(prog, m, cur(m)), summary'[m])
    BY <2>5, <2>6, <2>7
  <2> QED
    BY <2>1, <2>8 DEF SoundInv
<1> QED
  BY <1>1, <1>2, OtherSteps

LEMMA ReadNext ==
  ASSUME Inv, [Next]_vars
  PROVE  ReadInv'
<1>0. /\ Inv /\ ReadInv /\ TypeInv /\ FlowInv /\ SoundInv /\ prog \in Programs
      /\ prog' = prog
  BY OtherSteps DEF Inv, TypeInv
<1> DEFINE Fine(s, m, v) ==
      /\ \A r \in ReadsOf(prog, m) : v[r] = "unread" \/ Refines(s[r[2]], v[r])
      /\ Refines(ResultOf(prog, m, Filled(prog, s, m, v)), s[m])
<1>1. \A w \in Thread : pc[w] = "read" => Fine(summary, prog.wpo.node[elem[w]], seen[w])
  BY <1>0 DEF ReadInv
<1>2. SUFFICES \A w \in Thread : pc'[w] = "read" =>
                 Fine(summary', prog.wpo.node[elem'[w]], seen'[w])
  BY <1>0 DEF ReadInv
<1> HIDE DEF Fine
<1>3. CASE UNCHANGED <<summary, pc, elem, seen>>
  BY <1>1, <1>3
<1>4. ASSUME NEW w \in Thread, UNCHANGED <<summary, elem>>,
             \A v \in Thread : v # w => pc'[v] = pc[v] /\ seen'[v] = seen[v],
             pc'[w] # "read"
      PROVE  \A v \in Thread : pc'[v] = "read" => Fine(summary', prog.wpo.node[elem'[v]], seen'[v])
  BY <1>1, <1>4
<1>5. ASSUME NEW w \in Thread, NEW i \in Idx, Begin(w, i)
      PROVE  \A v \in Thread : pc'[v] = "read" => Fine(summary', prog.wpo.node[elem'[v]], seen'[v])
  <2> DEFINE n == prog.wpo.node[i]
  <2>1. /\ summary' = summary /\ pc' = [pc EXCEPT ![w] = "read"]
        /\ elem' = [elem EXCEPT ![w] = i]
        /\ seen' = [seen EXCEPT ![w] = [r \in ReadsOf(prog, n) |-> "unread"]]
    BY <1>5, Bridge DEF Begin, registry, NodeOf, Wpo
  <2>2. n \in Methods(prog)
    BY <1>0, <1>5, ProgramFacts, Bridge DEF Begin, NodeOf, Wpo
  <2>3. /\ pc \in [Thread -> {"free", "read", "flag"}]
        /\ elem \in [Thread -> Indices(prog)] /\ seen = [v \in Thread |-> seen[v]]
    BY <1>0 DEF TypeInv
  <2> HIDE DEF n
  <2>4. seen'[w] = [r \in ReadsOf(prog, n) |-> "unread"] /\ elem'[w] = i
    BY <2>1, <2>3
  <2>5. Filled(prog, summary, n, seen'[w]) = CurrentOf(prog, summary, n)
    BY <2>4 DEF Filled, CurrentOf
  <2>6. Fine(summary, n, seen'[w])
    BY <1>0, <2>2, <2>4, <2>5 DEF Fine, SoundInv
  <2>7. \A v \in Thread : v # w => pc'[v] = pc[v] /\ elem'[v] = elem[v] /\ seen'[v] = seen[v]
    BY <2>1, <2>3
  <2>8. Fine(summary', prog.wpo.node[elem'[w]], seen'[w])
    BY <2>1, <2>4, <2>6 DEF n
  <2> QED
    BY <1>1, <2>1, <2>7, <2>8
<1>6. ASSUME NEW w \in Thread, Read(w)
      PROVE  \A v \in Thread : pc'[v] = "read" => Fine(summary', prog.wpo.node[elem'[v]], seen'[v])
  <2> DEFINE n == prog.wpo.node[elem[w]]
  <2>1. PICK q \in DOMAIN seen[w] :
          seen[w][q] = "unread" /\ seen' = [seen EXCEPT ![w][q] = summary[q[2]]]
    BY <1>6 DEF Read
  <2>2. pc[w] = "read" /\ UNCHANGED <<summary, pc, elem>>
    BY <1>6 DEF Read, registry
  <2>3. /\ seen[w] \in [ReadsOf(prog, n) -> Value \cup {"unread"}]
        /\ seen = [v \in Thread |-> seen[v]]
        /\ summary \in [Methods(prog) -> Value]
    BY <1>0, <2>2 DEF TypeInv
  <2>4. Fine(summary, n, seen[w])
    BY <1>1, <2>2
  <2>5. seen'[w] = [seen[w] EXCEPT ![q] = summary[q[2]]] /\ \A v \in Thread : v # w => seen'[v] = seen[v]
    BY <2>1, <2>3
  <2> HIDE DEF n
  <2>6. Filled(prog, summary, n, seen'[w]) = Filled(prog, summary, n, seen[w])
    <3>1. \A r \in ReadsOf(prog, n) :
             (IF seen'[w][r] = "unread" THEN summary[r[2]] ELSE seen'[w][r])
               = (IF seen[w][r] = "unread" THEN summary[r[2]] ELSE seen[w][r])
      BY <2>1, <2>3, <2>5
    <3> QED
      BY <3>1 DEF Filled
  <2>7. \A r \in ReadsOf(prog, n) : seen'[w][r] = "unread" \/ Refines(summary[r[2]], seen'[w][r])
    BY <2>1, <2>3, <2>4, <2>5 DEF Fine, Refines
  <2>8. Fine(summary, n, seen'[w])
    BY <2>4, <2>6, <2>7 DEF Fine
  <2> QED
    BY <1>1, <2>2, <2>5, <2>8 DEF n
<1>7. ASSUME NEW w \in Thread, Store(w)
      PROVE  \A v \in Thread : pc'[v] = "read" => Fine(summary', prog.wpo.node[elem'[v]], seen'[v])
  <2> DEFINE n == prog.wpo.node[elem[w]]
  <2>1. /\ n \in Methods(prog) /\ elem[w] \in Vertex(prog) /\ elem' = elem /\ pc[w] = "read"
        /\ pc' = [pc EXCEPT ![w] = "flag"]
        /\ summary' \in [Methods(prog) -> Value]
        /\ summary' = [summary EXCEPT ![n] = ResultOf(prog, n, seen[w])]
        /\ \A m \in Methods(prog) : Refines(summary'[m], summary[m])
        /\ \A v \in Thread : v # w => seen'[v] = seen[v] /\ pc'[v] = pc[v]
    BY <1>7, StoreRefines
  <2>2. SUFFICES ASSUME NEW v \in Thread, pc'[v] = "read"
                 PROVE  Fine(summary', prog.wpo.node[elem'[v]], seen'[v])
    OBVIOUS
  <2>3. pc \in [Thread -> {"free", "read", "flag"}] /\ summary \in [Methods(prog) -> Value]
    BY <1>0 DEF TypeInv
  <2>4. v # w /\ pc[v] = "read"
    BY <2>1, <2>2, <2>3
  <2> DEFINE m == prog.wpo.node[elem[v]]
  <2>5. elem[v] \in Vertex(prog) /\ elem[v] # elem[w]
    BY <1>0, <2>1, <2>4 DEF FlowInv
  <2>6. m # n /\ m \in Methods(prog)
    BY <1>0, <2>1, <2>5, ProgramFacts
  <2>7. /\ \A r \in ReadsOf(prog, m) : seen[v][r] = "unread" \/ Refines(summary'[r[2]], seen[v][r])
        /\ Refines(ResultOf(prog, m, Filled(prog, summary', m, seen[v])), summary[m])
    BY <1>0, <2>1, <2>4, RefinedSummaries
  <2>8. summary'[m] = summary[m]
    BY <2>1, <2>3, <2>6
  <2>9. Fine(summary', m, seen[v])
    BY <2>7, <2>8 DEF Fine
  <2> QED
    BY <2>1, <2>4, <2>9
<1>8. ASSUME NEW w \in Thread, Keep(w) \/ Flag(w)
      PROVE  \A v \in Thread : pc'[v] = "read" => Fine(summary', prog.wpo.node[elem'[v]], seen'[v])
  <2>1. /\ pc' = [pc EXCEPT ![w] = "free"] /\ UNCHANGED <<summary, elem>>
        /\ seen' = seen \/ seen' = [seen EXCEPT ![w] = <<>>]
    BY <1>8 DEF Keep, Flag, Analyze, registry
  <2>2. /\ pc \in [Thread -> {"free", "read", "flag"}]
        /\ seen = [v \in Thread |-> seen[v]]
    BY <1>0 DEF TypeInv
  <2>3. pc'[w] # "read" /\ \A v \in Thread : v # w => pc'[v] = pc[v] /\ seen'[v] = seen[v]
    BY <2>1, <2>2
  <2> QED
    BY <1>4, <2>1, <2>3
<1>9. CASE \/ StartIteration \/ NextIteration \/ Settle \/ GiveUp
           \/ \E i \in Idx : PassExit(i) \/ CloseLoop(i)
  BY <1>3, <1>9 DEF StartIteration, NextIteration, Settle, GiveUp, PassExit, CloseLoop,
                    registry, threads
<1>10. CASE UNCHANGED vars
  BY <1>3, <1>10 DEF vars
<1> QED
  BY <1>5, <1>6, <1>7, <1>8, <1>9, <1>10 DEF Next, Step
-----------------------------------------------------------------------------
LEMMA QuietNext ==
  ASSUME Inv, [Next]_vars
  PROVE  QuietInv'
<1> DEFINE Solved(s, m) == ResultOf(prog, m, CurrentOf(prog, s, m)) = s[m]
           Fresh(s, m, v) == \A r \in ReadsOf(prog, m) : v[r] \in {"unread", s[r[2]]}
<1>0. /\ TypeInv /\ FlowInv /\ prog \in Programs /\ prog' = prog
      /\ summary \in [Methods(prog) -> Value]
      /\ pc \in [Thread -> {"free", "read", "flag"}]
      /\ seen = [v \in Thread |-> seen[v]]
  BY OtherSteps DEF Inv, TypeInv
<1>1. /\ mode = "running" /\ ~Changed =>
           /\ \A w \in Thread : pc[w] = "read" => Fresh(summary, prog.wpo.node[elem[w]], seen[w])
           /\ \A i \in done \cap Vertex(prog) : Solved(summary, prog.wpo.node[i])
      /\ mode = "settled" => \A m \in AnalysedOf(prog) : Solved(summary, m)
  BY DEF Inv, QuietInv
<1>2. SUFFICES
      /\ mode' = "running" /\ ~Changed' =>
           /\ \A w \in Thread : pc'[w] = "read" =>
                Fresh(summary', prog.wpo.node[elem'[w]], seen'[w])
           /\ \A i \in done' \cap Vertex(prog) : Solved(summary', prog.wpo.node[i])
      /\ mode' = "settled" => \A m \in AnalysedOf(prog) : Solved(summary', m)
  BY <1>0 DEF QuietInv
<1> DEFINE Goal == /\ mode' = "running" /\ ~Changed' =>
                        /\ \A w \in Thread : pc'[w] = "read" =>
                             Fresh(summary', prog.wpo.node[elem'[w]], seen'[w])
                        /\ \A i \in done' \cap Vertex(prog) : Solved(summary', prog.wpo.node[i])
                   /\ mode' = "settled" => \A m \in AnalysedOf(prog) : Solved(summary', m)
<1>3. SUFFICES Goal
  OBVIOUS
<1> HIDE DEF Solved
<1>4. CASE UNCHANGED vars
  BY <1>1, <1>4 DEF vars, Changed
<1>5. CASE StartIteration
  BY <1>0, <1>5 DEF StartIteration, threads, FlowInv
<1>6. CASE NextIteration \/ GiveUp
  BY <1>6 DEF NextIteration, GiveUp
<1>7. CASE Settle
  <2>1. /\ mode = "running" /\ ~hasUpdate /\ done = Indices(prog)
        /\ \A w \in Thread : pc[w] = "free"
        /\ mode' = "settled" /\ summary' = summary
    BY <1>7, Bridge DEF Settle, Over, registry
  <2>2. ~Changed
    BY <2>1 DEF Changed
  <2>3. \A i \in Vertex(prog) : Solved(summary, prog.wpo.node[i])
    BY <1>1, <2>1, <2>2 DEF Vertex
  <2>4. \A m \in AnalysedOf(prog) : Solved(summary, m)
    BY <2>3 DEF AnalysedOf
  <2> QED
    BY <2>1, <2>4
<1>8. ASSUME NEW i \in Idx, PassExit(i) \/ CloseLoop(i)  PROVE Goal
  <2>1. UNCHANGED <<mode, summary, hasUpdate, pc, elem, seen>>
    BY <1>8 DEF PassExit, CloseLoop, control, registry, threads
  <2>2. done' \subseteq done \cup {i} /\ i \notin Vertex(prog)
    BY <1>8 DEF PassExit, CloseLoop, Vertex, NodeOf, IsExit, Wpo
  <2>3. done' \cap Vertex(prog) \subseteq done \cap Vertex(prog)
    BY <2>2
  <2> QED
    BY <1>1, <2>1, <2>3 DEF Changed
<1>9. ASSUME NEW w \in Thread, NEW i \in Idx, Begin(w, i)  PROVE Goal
  <2> DEFINE n == prog.wpo.node[i]
  <2>1. /\ UNCHANGED <<mode, summary, hasUpdate, done>>
        /\ pc' = [pc EXCEPT ![w] = "read"]
        /\ elem' = [elem EXCEPT ![w] = i]
        /\ seen' = [seen EXCEPT ![w] = [r \in ReadsOf(prog, n) |-> "unread"]]
        /\ pc[w] = "free" /\ mode = "running"
    BY <1>9, Bridge DEF Begin, Ready, registry, control, NodeOf, Wpo
  <2>2. elem \in [Thread -> Indices(prog)]
    BY <1>0 DEF TypeInv
  <2>3. \A v \in Thread : v # w => pc'[v] = pc[v] /\ elem'[v] = elem[v] /\ seen'[v] = seen[v]
    BY <1>0, <2>1, <2>2
  <2>4. Fresh(summary', prog.wpo.node[elem'[w]], seen'[w])
    BY <1>0, <2>1, <2>2
  <2>5. Changed' = Changed
    BY <1>0, <2>1, <2>3 DEF Changed
  <2> HIDE DEF Fresh
  <2> QED
    BY <1>1, <2>1, <2>3, <2>4, <2>5
<1>10. ASSUME NEW w \in Thread, Read(w)  PROVE Goal
  <2> DEFINE n == prog.wpo.node[elem[w]]
  <2>1. PICK q \in DOMAIN seen[w] : seen' = [seen EXCEPT ![w][q] = summary[q[2]]]
    BY <1>10 DEF Read
  <2>2. pc[w] = "read" /\ UNCHANGED <<mode, summary, hasUpdate, done, pc, elem>>
    BY <1>10 DEF Read, registry, control, states
  <2>3. seen[w] \in [ReadsOf(prog, n) -> Value \cup {"unread"}]
    BY <1>0, <2>2 DEF TypeInv
  <2>4. seen'[w] = [seen[w] EXCEPT ![q] = summary[q[2]]] /\ \A v \in Thread : v # w => seen'[v] = seen[v]
    BY <1>0, <2>1
  <2>5. Fresh(summary, n, seen[w]) => Fresh(summary, n, seen'[w])
    BY <2>1, <2>3, <2>4
  <2>6. Changed' = Changed
    BY <2>2 DEF Changed
  <2> HIDE DEF Fresh
  <2> QED
    BY <1>1, <2>2, <2>4, <2>5, <2>6
<1>11. ASSUME NEW w \in Thread, Keep(w)  PROVE Goal
  <2> DEFINE n == prog.wpo.node[elem[w]]
  <2>1. /\ Analyze(w) /\ Outcome(w) = summary[n]
        /\ pc' = [pc EXCEPT ![w] = "free"] /\ done' = done \cup {elem[w]}
        /\ UNCHANGED <<mode, summary, hasUpdate, elem>>
    BY <1>11 DEF Keep, NodeOf, Wpo, registry, control
  <2>2. /\ pc[w] = "read" /\ seen' = [seen EXCEPT ![w] = <<>>]
        /\ \A r \in DOMAIN seen[w] : seen[w][r] # "unread"
    BY <2>1 DEF Analyze
  <2>3. /\ \A v \in Thread : v # w => pc'[v] = pc[v] /\ seen'[v] = seen[v]
        /\ pc'[w] = "free"
    BY <1>0, <2>1, <2>2
  <2>4. /\ seen[w] \in [ReadsOf(prog, n) -> Value]
        /\ Outcome(w) = ResultOf(prog, n, seen[w])
    BY <2>1, OutcomeFacts
  <2>5. Changed' = Changed
    BY <2>1, <2>2, <2>3 DEF Changed
  <2>6. mode = "running" /\ ~Changed => Solved(summary, n)
    <3>1. SUFFICES ASSUME mode = "running", ~Changed  PROVE Solved(summary, n)
      OBVIOUS
    <3>2. \A r \in ReadsOf(prog, n) : seen[w][r] = summary[r[2]]
      BY <1>1, <2>2, <2>4, <3>1
    <3>3. CurrentOf(prog, summary, n) = seen[w]
      BY <2>4, <3>2 DEF CurrentOf
    <3> QED
      BY <2>1, <2>4, <3>3 DEF Solved
  <2> HIDE DEF Fresh
  <2> QED
    BY <1>1, <2>1, <2>3, <2>5, <2>6
<1>12. ASSUME NEW w \in Thread, Store(w)  PROVE Goal
  <2>1. pc' = [pc EXCEPT ![w] = "flag"] /\ pc[w] = "read" /\ mode' = mode
    BY <1>12, StoreRefines
  <2>2. Changed'
    BY <1>0, <2>1 DEF Changed
  <2>3. mode' # "settled"
    BY <1>0, <2>1 DEF FlowInv
  <2> QED
    BY <2>2, <2>3
<1>13. ASSUME NEW w \in Thread, Flag(w)  PROVE Goal
  <2>1. hasUpdate' = TRUE /\ pc[w] = "flag" /\ mode' = mode
    BY <1>13 DEF Flag, control
  <2>2. Changed'
    BY <2>1 DEF Changed
  <2>3. mode' # "settled"
    BY <1>0, <2>1 DEF FlowInv
  <2> QED
    BY <2>2, <2>3
<1> QED
  BY <1>4, <1>5, <1>6, <1>7, <1>8, <1>9, <1>10, <1>11, <1>12, <1>13 DEF Next, Step
-----------------------------------------------------------------------------
LEMMA CountNext ==
  ASSUME Inv, [Next]_vars
  PROVE  CountInv'
<1> DEFINE Pending == IF mode = "running" /\ Changed THEN 1 ELSE 0
           L == Lowered(prog, summary)
<1>0. /\ TypeInv /\ FlowInv /\ prog \in Programs /\ prog' = prog
      /\ summary \in [Methods(prog) -> Value]
      /\ pc \in [Thread -> {"free", "read", "flag"}] /\ iteration \in Nat
      /\ iteration + Pending <= Cardinality(L)
  BY OtherSteps DEF Inv, TypeInv, CountInv
<1>1. IsFiniteSet(L) /\ Cardinality(L) \in Nat
  BY <1>0, ProgramFacts, FS_Subset, FS_CardinalityType DEF Lowered
<1>2. ASSUME UNCHANGED <<summary, iteration>>, mode' = "running" /\ Changed' => mode = "running" /\ Changed
      PROVE  CountInv'
  BY <1>0, <1>1, <1>2 DEF CountInv
<1>3. CASE StartIteration
  <2>1. ~Changed' /\ UNCHANGED <<summary, iteration>>
    BY <1>0, <1>3 DEF StartIteration, registry, threads, FlowInv, Changed
  <2> QED
    BY <1>2, <2>1
<1>4. CASE NextIteration
  <2>1. /\ mode = "running" /\ hasUpdate /\ mode' = "between"
        /\ iteration' = iteration + 1 /\ summary' = summary
    BY <1>4 DEF NextIteration, Over
  <2>2. iteration + 1 <= Cardinality(L)
    BY <1>0, <2>1 DEF Changed
  <2> QED
    BY <1>0, <1>1, <2>1, <2>2 DEF CountInv
<1>5. CASE Settle \/ GiveUp
  BY <1>2, <1>5 DEF Settle, GiveUp, registry
<1>6. ASSUME NEW i \in Idx, PassExit(i) \/ CloseLoop(i)  PROVE CountInv'
  BY <1>2, <1>6 DEF PassExit, CloseLoop, control, registry, threads, Changed
<1>7. ASSUME NEW w \in Thread, \E i \in Idx : Begin(w, i)  PROVE CountInv'
  <2>1. /\ UNCHANGED <<summary, iteration, mode, hasUpdate>>
        /\ pc' = [pc EXCEPT ![w] = "read"]
    BY <1>7 DEF Begin, control, registry
  <2>2. Changed' => Changed
    BY <1>0, <2>1 DEF Changed
  <2> QED
    BY <1>2, <2>1, <2>2
<1>8. ASSUME NEW w \in Thread, Read(w)  PROVE CountInv'
  BY <1>2, <1>8 DEF Read, control, registry, Changed
<1>9. ASSUME NEW w \in Thread, Keep(w)  PROVE CountInv'
  <2>1. /\ UNCHANGED <<summary, iteration, mode, hasUpdate>>
        /\ pc' = [pc EXCEPT ![w] = "free"]
    BY <1>9 DEF Keep, control, registry
  <2>2. Changed' => Changed
    BY <1>0, <2>1 DEF Changed
  <2> QED
    BY <1>2, <2>1, <2>2
<1>10. ASSUME NEW w \in Thread, Store(w)  PROVE CountInv'
  <2> DEFINE n == prog.wpo.node[elem[w]]
  <2>1. /\ n \in Methods(prog) /\ elem[w] \in Vertex(prog) /\ iteration' = iteration
        /\ summary' = [summary EXCEPT ![n] = ResultOf(prog, n, seen[w])]
        /\ summary[n] = "top" /\ summary'[n] # "top"
    BY <1>10, StoreRefines
  <2>2. n \in AnalysedOf(prog) /\ AnalysedOf(prog) \subseteq Methods(prog)
    BY <1>0, <2>1, ProgramFacts DEF AnalysedOf
  <2> HIDE DEF n
  <2>3. Lowered(prog, summary') = L \cup {n} /\ n \notin L
    BY <1>0, <2>1, <2>2 DEF Lowered
  <2>4. Cardinality(Lowered(prog, summary')) = Cardinality(L) + 1
    BY <1>1, <2>3, FS_AddElement
  <2>5. iteration <= Cardinality(L)
    BY <1>0, <1>1
  <2> QED
    BY <1>0, <1>1, <2>1, <2>4, <2>5 DEF CountInv
<1>11. ASSUME NEW w \in Thread, Flag(w)  PROVE CountInv'
  <2>1. UNCHANGED <<summary, iteration, mode>> /\ Changed
    BY <1>11 DEF Flag, control, Changed
  <2> QED
    BY <1>2, <2>1
<1>12. CASE UNCHANGED vars
  BY <1>2, <1>12 DEF vars, Changed
<1> QED
  BY <1>3, <1>4, <1>5, <1>6, <1>7, <1>8, <1>9, <1>10, <1>11, <1>12 DEF Next, Step
-----------------------------------------------------------------------------
(***************************************************************************)
(* Without recursion callees are finished before their callers begin, what *)
(* is read is final, and the first iteration solves every method.          *)
(***************************************************************************)
LoopFree(p) == \A i \in Indices(p) : p.wpo.type[i] # "Exit"

SolvedIn(p, s, m) == ResultOf(p, m, CurrentOf(p, s, m)) = s[m]

OrderInv ==
  LoopFree(prog) =>
    /\ iteration = 0 \/ (iteration = 1 /\ ~Changed)
    /\ iteration = 1 => \A i \in Vertex(prog) : SolvedIn(prog, summary, prog.wpo.node[i])
    /\ \A i \in done : prog.wpo.preds[i] \subseteq done
    /\ mode = "running" =>
         \A i \in done \cap Vertex(prog) : SolvedIn(prog, summary, prog.wpo.node[i])
    /\ \A w \in Thread : pc[w] # "free" => /\ elem[w] \notin done
                                           /\ prog.wpo.preds[elem[w]] \subseteq done
    /\ \A w \in Thread : pc[w] = "flag" => SolvedIn(prog, summary, prog.wpo.node[elem[w]])
    /\ \A w \in Thread : pc[w] = "read" =>
         \A r \in ReadsOf(prog, prog.wpo.node[elem[w]]) : seen[w][r] \in {"unread", summary[r[2]]}

\* In a program without recursion a summary that is read belongs to a method
\* that every iteration has done before the reader.
LEMMA CalleesFirst ==
  ASSUME prog \in Programs, LoopFree(prog), NEW i \in Vertex(prog), NEW j \in Vertex(prog),
         NEW r \in ReadsOf(prog, prog.wpo.node[i]), r[2] = prog.wpo.node[j],
         NEW D \in SUBSET Indices(prog), \A d \in D : prog.wpo.preds[d] \subseteq D,
         prog.wpo.preds[i] \subseteq D
  PROVE  j \in D
<1> DEFINE m == prog.wpo.node[i]
<1>1. WellFormed(prog) /\ m \in Methods(prog) /\ r[2] \in Methods(prog)
  BY ProgramFacts
<1>2. <<prog.wpo.node[j], m>> \in Reversed(prog.callees)
  <2>1. PICK k \in DOMAIN prog.callees[m] : prog.wpo.node[j] \in prog.callees[m][k]
    BY DEF ReadsOf
  <2> QED
    BY <1>1, <2>1 DEF Reversed, Methods
<1>3. i \in Indices(prog) /\ j \in Indices(prog)
  BY DEF Vertex
<1>4. \A h \in Indices(prog) : prog.wpo.type[h] # "Exit"
  BY DEF LoopFree
<1>5. j # i /\ \A E \in SUBSET Indices(prog) :
         i \in E /\ (\A d \in E : prog.wpo.preds[d] \subseteq E) => j \in E
  BY <1>1, <1>2, <1>3, <1>4, ScheduleFacts
<1>6. D \cup {i} \in SUBSET Indices(prog) /\ \A d \in D \cup {i} : prog.wpo.preds[d] \subseteq D \cup {i}
  BY <1>3
<1> QED
  BY <1>5, <1>6

\* Storing the summary of a method leaves alone what was made of the others.
LEMMA OthersUnread ==
  ASSUME Inv, OrderInv, LoopFree(prog), NEW w \in Thread, Store(w),
         NEW i \in Vertex(prog), prog.wpo.preds[i] \subseteq done
  PROVE  /\ \A r \in ReadsOf(prog, prog.wpo.node[i]) : summary'[r[2]] = summary[r[2]]
         /\ CurrentOf(prog, summary', prog.wpo.node[i]) = CurrentOf(prog, summary, prog.wpo.node[i])
<1> DEFINE n == prog.wpo.node[elem[w]]
           m == prog.wpo.node[i]
<1>1. /\ n \in Methods(prog) /\ elem[w] \in Vertex(prog) /\ pc[w] = "read"
      /\ summary' = [summary EXCEPT ![n] = ResultOf(prog, n, seen[w])]
  BY StoreRefines
<1>2. elem[w] \notin done
  BY <1>1 DEF OrderInv
<1>3. prog \in Programs /\ summary \in [Methods(prog) -> Value] /\ done \subseteq Indices(prog)
  BY DEF Inv, TypeInv
<1>4. \A r \in ReadsOf(prog, m) : r[2] # n
  BY <1>1, <1>2, <1>3, CalleesFirst DEF OrderInv
<1>5. \A r \in ReadsOf(prog, m) : r[2] \in Methods(prog)
  BY <1>3, ProgramFacts
<1> HIDE DEF m, n
<1>6. \A r \in ReadsOf(prog, m) : summary'[r[2]] = summary[r[2]]
  BY <1>1, <1>3, <1>4, <1>5
<1>7. CurrentOf(prog, summary', m) = CurrentOf(prog, summary, m)
  BY <1>6 DEF CurrentOf
<1> QED
  BY <1>6, <1>7 DEF m

LEMMA OrderNext ==
  ASSUME Inv, OrderInv, [Next]_vars
  PROVE  OrderInv'
<1>0. /\ TypeInv /\ FlowInv /\ prog \in Programs /\ prog' = prog
      /\ summary \in [Methods(prog) -> Value]
      /\ pc \in [Thread -> {"free", "read", "flag"}] /\ iteration \in Nat
      /\ elem \in [Thread -> Indices(prog)]
      /\ seen = [v \in Thread |-> seen[v]]
  BY OtherSteps DEF Inv, TypeInv
<1>1. SUFFICES ASSUME LoopFree(prog) PROVE OrderInv'
  BY <1>0 DEF OrderInv
<1> DEFINE Solved(s, m) == SolvedIn(prog, s, m)
           Fresh(s, m, v) == \A r \in ReadsOf(prog, m) : v[r] \in {"unread", s[r[2]]}
<1>2. /\ iteration = 0 \/ (iteration = 1 /\ ~Changed)
      /\ iteration = 1 => \A i \in Vertex(prog) : Solved(summary, prog.wpo.node[i])
      /\ \A i \in done : prog.wpo.preds[i] \subseteq done
      /\ mode = "running" => \A i \in done \cap Vertex(prog) : Solved(summary, prog.wpo.node[i])
      /\ \A w \in Thread : pc[w] # "free" => /\ elem[w] \notin done
                                             /\ prog.wpo.preds[elem[w]] \subseteq done
      /\ \A w \in Thread : pc[w] = "flag" => Solved(summary, prog.wpo.node[elem[w]])
      /\ \A w \in Thread : pc[w] = "read" => Fresh(summary, prog.wpo.node[elem[w]], seen[w])
  BY <1>1 DEF OrderInv
<1> DEFINE Goal ==
      /\ iteration' = 0 \/ (iteration' = 1 /\ ~Changed')
      /\ iteration' = 1 => \A i \in Vertex(prog) : Solved(summary', prog.wpo.node[i])
      /\ \A i \in done' : prog.wpo.preds[i] \subseteq done'
      /\ mode' = "running" => \A i \in done' \cap Vertex(prog) : Solved(summary', prog.wpo.node[i])
      /\ \A w \in Thread : pc'[w] # "free" => /\ elem'[w] \notin done'
                                              /\ prog.wpo.preds[elem'[w]] \subseteq done'
      /\ \A w \in Thread : pc'[w] = "flag" => Solved(summary', prog.wpo.node[elem'[w]])
      /\ \A w \in Thread : pc'[w] = "read" => Fresh(summary', prog.wpo.node[elem'[w]], seen'[w])
<1>3. SUFFICES Goal
  BY <1>0, <1>1 DEF OrderInv
<1> HIDE DEF Solved, Fresh
<1>4. CASE UNCHANGED vars
  BY <1>2, <1>4 DEF vars, Changed
<1>5. CASE StartIteration
  <2>1. /\ \A w \in Thread : pc[w] = "free"
        /\ UNCHANGED <<pc, elem, seen, summary, hasUpdate, iteration>> /\ done' = {}
    BY <1>0, <1>5 DEF StartIteration, threads, registry, FlowInv
  <2>2. Changed' = Changed
    BY <2>1 DEF Changed
  <2> QED
    BY <1>2, <2>1, <2>2
<1>6. CASE NextIteration
  <2>1. /\ mode = "running" /\ done = Indices(prog) /\ hasUpdate /\ hasUpdate' = FALSE
        /\ \A w \in Thread : pc[w] = "free"
        /\ iteration' = iteration + 1 /\ mode' = "between"
        /\ UNCHANGED <<summary, pc, elem, seen, done>>
    BY <1>6, Bridge DEF NextIteration, Over, threads, states
  <2>2. Changed
    BY <2>1, Zenon DEF Changed
  <2>3. ~Changed'
    BY <2>1 DEF Changed
  <2>4. \A i \in Vertex(prog) : Solved(summary, prog.wpo.node[i])
    BY <1>2, <2>1 DEF Vertex
  <2>5. iteration' = 1
    BY <1>2, <2>1, <2>2
  <2>6. \A i \in done' : prog.wpo.preds[i] \subseteq done'
    BY <1>2, <2>1
  <2>7. mode' # "running" /\ pc' = pc /\ summary' = summary
    BY <2>1
  <2> QED
    BY <2>1, <2>3, <2>4, <2>5, <2>6, <2>7
<1>7. CASE Settle \/ GiveUp
  <2>1. mode' # "running" /\ UNCHANGED <<summary, pc, elem, seen, done, hasUpdate, iteration>>
    BY <1>7 DEF Settle, GiveUp, threads, states, registry
  <2>2. Changed' = Changed
    BY <2>1 DEF Changed
  <2> QED
    BY <1>2, <2>1, <2>2
<1>8. ASSUME NEW i \in Idx, PassExit(i)  PROVE Goal
  <2>1. /\ UNCHANGED <<mode, summary, hasUpdate, pc, elem, seen, iteration>>
        /\ done' = done \cup {i} /\ i \notin Vertex(prog) /\ prog.wpo.preds[i] \subseteq done
        /\ \A w \in Thread : pc[w] # "free" => elem[w] # i
    BY <1>8 DEF PassExit, Ready, control, registry, threads, Vertex, NodeOf, Wpo
  <2>2. Changed' = Changed
    BY <2>1 DEF Changed
  <2> QED
    BY <1>2, <2>1, <2>2
<1>9. ASSUME NEW i \in Idx, CloseLoop(i)  PROVE Goal
  BY <1>1, <1>9, Bridge DEF CloseLoop, IsExit, LoopFree, Wpo
<1>10. ASSUME NEW w \in Thread, NEW i \in Idx, Begin(w, i)  PROVE Goal
  <2> DEFINE n == prog.wpo.node[i]
  <2>1. /\ UNCHANGED <<mode, summary, hasUpdate, done, iteration>>
        /\ pc' = [pc EXCEPT ![w] = "read"]
        /\ elem' = [elem EXCEPT ![w] = i]
        /\ seen' = [seen EXCEPT ![w] = [r \in ReadsOf(prog, n) |-> "unread"]]
        /\ pc[w] = "free" /\ i \notin done /\ prog.wpo.preds[i] \subseteq done
    BY <1>10, Bridge DEF Begin, Ready, registry, control, NodeOf, Wpo
  <2>2. \A v \in Thread : v # w => pc'[v] = pc[v] /\ elem'[v] = elem[v] /\ seen'[v] = seen[v]
    BY <1>0, <2>1
  <2>3. /\ pc'[w] = "read" /\ elem'[w] = i
        /\ Fresh(summary', prog.wpo.node[elem'[w]], seen'[w])
    BY <1>0, <2>1 DEF Fresh
  <2>4. Changed' = Changed
    BY <1>0, <2>1, <2>2 DEF Changed
  <2> QED
    BY <1>2, <2>1, <2>2, <2>3, <2>4
<1>11. ASSUME NEW w \in Thread, Read(w)  PROVE Goal
  <2> DEFINE n == prog.wpo.node[elem[w]]
  <2>1. PICK q \in DOMAIN seen[w] : seen' = [seen EXCEPT ![w][q] = summary[q[2]]]
    BY <1>11 DEF Read
  <2>2. pc[w] = "read" /\ UNCHANGED <<mode, summary, hasUpdate, done, pc, elem, iteration>>
    BY <1>11 DEF Read, registry, control, states
  <2>3. seen[w] \in [ReadsOf(prog, n) -> Value \cup {"unread"}]
    BY <1>0, <2>2 DEF TypeInv
  <2>4. seen'[w] = [seen[w] EXCEPT ![q] = summary[q[2]]] /\ \A v \in Thread : v # w => seen'[v] = seen[v]
    BY <1>0, <2>1
  <2>5. Fresh(summary, n, seen[w]) => Fresh(summary, n, seen'[w])
    BY <2>1, <2>3, <2>4 DEF Fresh
  <2>6. Changed' = Changed
    BY <2>2 DEF Changed
  <2> QED
    BY <1>2, <2>2, <2>4, <2>5, <2>6
\* A reader that has read everything is up to date.
<1>12. ASSUME NEW w \in Thread, Analyze(w)
       PROVE  LET n == prog.wpo.node[elem[w]]
              IN  /\ CurrentOf(prog, summary, n) = seen[w]
                  /\ Outcome(w) = ResultOf(prog, n, seen[w])
                  /\ pc[w] = "read" /\ elem[w] \in Vertex(prog) /\ n \in Methods(prog)
  <2> DEFINE n == prog.wpo.node[elem[w]]
  <2>1. /\ pc[w] = "read" /\ \A r \in DOMAIN seen[w] : seen[w][r] # "unread"
    BY <1>12 DEF Analyze
  <2>2. /\ seen[w] \in [ReadsOf(prog, n) -> Value]
        /\ Outcome(w) = ResultOf(prog, n, seen[w])
        /\ elem[w] \in Vertex(prog) /\ n \in Methods(prog)
    BY <1>12, OutcomeFacts
  <2>3. \A r \in ReadsOf(prog, n) : seen[w][r] = summary[r[2]]
    BY <1>2, <2>1, <2>2 DEF Fresh
  <2>4. CurrentOf(prog, summary, n) = seen[w]
    BY <2>2, <2>3 DEF CurrentOf
  <2> QED
    BY <2>1, <2>2, <2>4
<1>13. ASSUME NEW w \in Thread, Keep(w)  PROVE Goal
  <2> DEFINE n == prog.wpo.node[elem[w]]
  <2>1. /\ Analyze(w) /\ Outcome(w) = summary[n]
        /\ pc' = [pc EXCEPT ![w] = "free"] /\ done' = done \cup {elem[w]}
        /\ UNCHANGED <<mode, summary, hasUpdate, elem, iteration>>
    BY <1>13 DEF Keep, NodeOf, Wpo, registry, control
  <2>2. /\ pc[w] = "read" /\ elem[w] \in Vertex(prog)
        /\ Solved(summary, n)
    BY <1>12, <2>1 DEF Solved, SolvedIn
  <2>3. seen' = [seen EXCEPT ![w] = <<>>]
    BY <2>1 DEF Analyze
  <2>4. /\ pc'[w] = "free"
        /\ \A v \in Thread : v # w => pc'[v] = pc[v] /\ seen'[v] = seen[v]
    BY <1>0, <2>1, <2>3
  <2>5. \A v \in Thread : v # w /\ pc[v] # "free" => elem[v] # elem[w]
    BY <1>0, <2>2 DEF FlowInv
  <2>6. Changed' = Changed
    BY <2>1, <2>2, <2>4 DEF Changed
  <2> QED
    BY <1>2, <2>1, <2>2, <2>4, <2>5, <2>6
<1>14. ASSUME NEW w \in Thread, Store(w)  PROVE Goal
  <2> DEFINE n == prog.wpo.node[elem[w]]
  <2>1. /\ n \in Methods(prog) /\ elem[w] \in Vertex(prog) /\ pc[w] = "read"
        /\ UNCHANGED <<elem, mode, hasUpdate, iteration, done>>
        /\ pc' = [pc EXCEPT ![w] = "flag"]
        /\ summary' = [summary EXCEPT ![n] = ResultOf(prog, n, seen[w])]
        /\ \A v \in Thread : v # w => seen'[v] = seen[v] /\ pc'[v] = pc[v]
    BY <1>14, StoreRefines
  <2>2. CurrentOf(prog, summary, n) = seen[w] /\ ResultOf(prog, n, seen[w]) # summary[n]
    BY <1>12, <1>14 DEF Store, NodeOf, Wpo
  <2>3. ~Solved(summary, n)
    BY <2>2 DEF Solved, SolvedIn
  <2>4. iteration = 0
    BY <1>2, <2>1, <2>3
  <2>5. ASSUME NEW i \in Vertex(prog), prog.wpo.preds[i] \subseteq done
        PROVE  /\ \A r \in ReadsOf(prog, prog.wpo.node[i]) : summary'[r[2]] = summary[r[2]]
               /\ CurrentOf(prog, summary', prog.wpo.node[i]) = CurrentOf(prog, summary, prog.wpo.node[i])
    BY <1>1, <1>14, <2>5, OthersUnread
  <2>6. elem[w] \notin done /\ prog.wpo.preds[elem[w]] \subseteq done
    BY <1>2, <2>1
  <2>7. Solved(summary', n)
    <3>1. CurrentOf(prog, summary', n) = seen[w]
      BY <2>1, <2>2, <2>5, <2>6
    <3>2. summary'[n] = ResultOf(prog, n, seen[w])
      BY <1>0, <2>1
    <3> QED
      BY <3>1, <3>2 DEF Solved, SolvedIn
  <2>8. ASSUME NEW i \in Vertex(prog), prog.wpo.preds[i] \subseteq done, i # elem[w],
               Solved(summary, prog.wpo.node[i])
        PROVE  Solved(summary', prog.wpo.node[i])
    <3> DEFINE m == prog.wpo.node[i]
    <3>1. CurrentOf(prog, summary', m) = CurrentOf(prog, summary, m)
      BY <2>5, <2>8
    <3>2. m # n /\ m \in Methods(prog)
      BY <1>0, <2>1, <2>8, ProgramFacts
    <3>3. summary'[m] = summary[m]
      BY <1>0, <2>1, <3>2
    <3> QED
      BY <2>8, <3>1, <3>3 DEF Solved, SolvedIn
  <2>9. \A i \in done \cap Vertex(prog) :
           mode = "running" => Solved(summary', prog.wpo.node[i])
    BY <1>2, <2>6, <2>8
  <2>10. ASSUME NEW v \in Thread, v # w, pc[v] # "free"
         PROVE  /\ elem[v] # elem[w] /\ elem[v] \in Vertex(prog)
                /\ elem[v] \notin done /\ prog.wpo.preds[elem[v]] \subseteq done
    BY <1>0, <1>2, <2>1, <2>10 DEF FlowInv
  <2>11. \A v \in Thread : v # w /\ pc[v] = "flag" => Solved(summary', prog.wpo.node[elem[v]])
    BY <1>2, <2>8, <2>10
  <2>12. \A v \in Thread : v # w /\ pc[v] = "read" =>
            Fresh(summary', prog.wpo.node[elem[v]], seen[v])
    BY <1>2, <2>5, <2>10 DEF Fresh
  <2>13. pc'[w] = "flag"
    BY <1>0, <2>1
  <2>14. \A v \in Thread : pc'[v] # "free" => /\ elem'[v] \notin done'
                                               /\ prog.wpo.preds[elem'[v]] \subseteq done'
    BY <2>1, <2>6, <2>10
  <2>15. \A v \in Thread : pc'[v] = "flag" => Solved(summary', prog.wpo.node[elem'[v]])
    BY <2>1, <2>7, <2>11
  <2>16. \A v \in Thread : pc'[v] = "read" => Fresh(summary', prog.wpo.node[elem'[v]], seen'[v])
    BY <2>1, <2>12, <2>13
  <2>17. /\ \A i \in done' : prog.wpo.preds[i] \subseteq done'
         /\ mode' = "running" => \A i \in done' \cap Vertex(prog) : Solved(summary', prog.wpo.node[i])
    BY <1>2, <2>1, <2>9
  <2>18. iteration' = 0 /\ iteration' # 1
    BY <2>1, <2>4
  <2> QED
    BY <2>14, <2>15, <2>16, <2>17, <2>18, Zenon
<1>15. ASSUME NEW w \in Thread, Flag(w)  PROVE Goal
  <2>1. /\ pc[w] = "flag" /\ pc' = [pc EXCEPT ![w] = "free"] /\ done' = done \cup {elem[w]}
        /\ UNCHANGED <<mode, summary, elem, seen, iteration>>
    BY <1>15 DEF Flag, control
  <2>2. pc'[w] = "free" /\ \A v \in Thread : v # w => pc'[v] = pc[v]
    BY <1>0, <2>1
  <2>3. iteration = 0
    BY <1>2, <2>1 DEF Changed
  <2>4. \A v \in Thread : v # w /\ pc[v] # "free" => elem[v] # elem[w]
    BY <1>0, <2>1 DEF FlowInv
  <2> QED
    BY <1>2, <2>1, <2>2, <2>3, <2>4
<1> QED
  BY <1>4, <1>5, <1>6, <1>7, <1>8, <1>9, <1>10, <1>11, <1>13, <1>14, <1>15 DEF Next, Step
-----------------------------------------------------------------------------
(***************************************************************************)
(* The theorems.                                                           *)
(***************************************************************************)
\* The invariant of run() and of the iterator under it holds in every state of
\* every analysis.
THEOREM Invariance == Spec => []Inv
<1>1. Inv /\ [Next]_vars => Inv'
  BY TypeNext, FlowNext, CtxNext, SoundNext, ReadNext, QuietNext, CountNext DEF Inv
<1> QED
  BY InitInv, <1>1, PTL DEF Spec

\* Whatever a method's analysis has read and however the threads interleave, its
\* context is bottom: the asserts at DeterminismAnalysisIntra.cpp:238-240 hold.
THEOREM ParametersAlwaysKnown == Spec => []ParametersKnown
<1>1. Inv => ParametersKnown
  <2> SUFFICES ASSUME Inv, NEW w \in Thread, pc[w] # "free"
               PROVE  entryCtx[NodeOf(elem[w])][NullInsn] # "top"
    BY DEF ParametersKnown
  <2>1. NodeOf(elem[w]) \in Methods(prog)
    BY ProgramFacts DEF Inv, TypeInv, FlowInv, NodeOf, Wpo
  <2>2. NullInsn \in Insn
    BY DEF Insn
  <2> QED
    BY <2>1, <2>2 DEF Inv, CtxInv, BottomCtx
<1> QED
  BY Invariance, <1>1, PTL

\* The registry (SpartaInterprocedural.h) is sound at any moment of run(), also
\* when max_iteration ends it, with any number of threads.
THEOREM SummariesAlwaysSound == Spec => []SummariesSound
<1>1. Inv => SummariesSound
  <2> SUFFICES ASSUME Inv, NEW m \in Analysed
               PROVE  Leq(Result(m, Current(m)), summary[m])
    BY DEF SummariesSound
  <2>1. m \in Methods(prog)
    BY ProgramFacts DEF Inv, TypeInv
  <2>2. Refines(ResultOf(prog, m, CurrentOf(prog, summary, m)), summary[m])
    BY <2>1 DEF Inv, SoundInv
  <2> QED
    BY <2>2, Bridge DEF Refines, Leq
<1> QED
  BY Invariance, <1>1, PTL

\* When run() ends because m_has_update is unset, although several threads set
\* it without a lock, the summaries are a solution.
THEOREM SettledIsAlwaysSolution == Spec => []SettledIsSolution
<1>1. Inv => SettledIsSolution
  <2> SUFFICES ASSUME Inv, mode = "settled", NEW m \in Analysed
               PROVE  summary[m] = Result(m, Current(m))
    BY DEF SettledIsSolution
  <2>1. m \in AnalysedOf(prog)
    BY ProgramFacts DEF Inv, TypeInv
  <2> QED
    BY <2>1, Bridge DEF Inv, QuietInv
<1> QED
  BY Invariance, <1>1, PTL

\* max_iteration is never exceeded and every variable has its type.
THEOREM TypeCorrect == Spec => []TypeOK
<1>1. Inv => TypeOK
  <2> SUFFICES ASSUME Inv PROVE TypeOK
    OBVIOUS
  <2>1. /\ TypeInv /\ CtxInv
        /\ Method = Methods(prog) /\ Idx = Indices(prog)
        /\ \A m : Reads(m) = ReadsOf(prog, m)
    BY Bridge DEF Inv
  <2>2. iteration \in 0 .. cap
    BY <2>1 DEF TypeInv
  <2>3. ASSUME NEW w \in Thread
        PROVE  seen[w] \in IF pc[w] = "read" THEN [Reads(NodeOf(elem[w])) -> Value \cup {"unread"}]
                           ELSE {<<>>}
    BY <2>1 DEF TypeInv, NodeOf, Wpo
  <2> QED
    BY <2>1, <2>2, <2>3, Zenon DEF TypeInv, CtxInv, TypeOK
<1> QED
  BY Invariance, <1>1, PTL

\* max_iteration is never exceeded, every iteration that changed something
\* lowered a summary for good, so that there are no more of them than methods,
\* and without recursion the first one finds all summaries.
THEOREM IterationsAlwaysBounded == Spec => []IterationsBounded
<1>1. Init => OrderInv
  BY DEF Init, OrderInv
<1>2. Inv /\ OrderInv /\ [Next]_vars => OrderInv'
  BY OrderNext
<1>3. Inv /\ OrderInv /\ TypeOK => IterationsBounded
  <2> SUFFICES ASSUME Inv, OrderInv, TypeOK PROVE IterationsBounded
    OBVIOUS
  <2>1. prog \in Programs /\ iteration \in Nat
    BY DEF Inv, TypeInv
  <2>2. Analysed = AnalysedOf(prog)
    BY <2>1, ProgramFacts
  <2>3. Cardinality(Lowered(prog, summary)) \in Nat
    BY <2>1, ProgramFacts, FS_Subset, FS_CardinalityType DEF Lowered
  <2>4. iteration <= Cardinality(Lowered(prog, summary))
    BY <2>1, <2>3 DEF Inv, CountInv
  <2>5. iteration <= Cardinality({m \in Analysed : summary[m] # "top"})
    BY <2>2, <2>4 DEF Lowered
  <2>6. (\A i \in Idx : ~IsExit(i)) => iteration <= 1
    BY <2>1, Bridge DEF OrderInv, LoopFree, IsExit, Wpo
  <2> QED
    BY <2>5, <2>6 DEF IterationsBounded
<1> QED
  BY Invariance, TypeCorrect, <1>1, <1>2, <1>3, PTL DEF Spec
=============================================================================
