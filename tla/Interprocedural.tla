--------------------------- MODULE Interprocedural ---------------------------
(***************************************************************************)
(* The bottom-up analysis of a whole program: InterproceduralAnalyzer      *)
(* (sparta/include/Analyzer.h) with the registry of method summaries       *)
(* (libredex/SpartaInterprocedural.h), as the determinism analysis         *)
(* (determinism_nullinput_analysis/determinism/) instantiates it.          *)
(*                                                                         *)
(* One iteration runs a fixpoint iterator over the reversed call graph,    *)
(* from the ghost exit to the callers; analysing a method reads the        *)
(* summaries of its callees and overwrites its own.  Iterations follow     *)
(* each other until one changes no summary or there were max_iteration.    *)
(*                                                                         *)
(* The iterator is the one of ParallelFixpoint, with a set of the elements *)
(* that are done in place of the counters.  With one thread it is the      *)
(* serial iterator, but for the order of independent methods, which is     *)
(* free.  The ghost entry, where the iterator ends, is left out: its       *)
(* analysis does nothing.  A method's own fixpoint is a function from what *)
(* its calls return to its return value, with each summary read once.      *)
(***************************************************************************)
EXTENDS Integers, Sequences, FiniteSets

CONSTANTS
  Programs,  \* records [callees, label, transfer, wpo, within]; see below
  Thread,    \* threads of the iterator: one, or several if it is the parallel one
  Caps       \* what max_iteration may be

(***************************************************************************)
(* A program: callees[m][k] are the methods the k-th invoke instruction of *)
(* method m may call; label[m][k] its manual label or "none"; transfer[m]  *)
(* the method's return value, as a function of the values its calls return *)
(* when all parameters are deterministic; wpo the ordering of its reversed *)
(* call graph and within[x] the elements of the loop with exit x.          *)
(***************************************************************************)
Value == {"bottom", "det", "notdet", "top"}

Leq(a, b) == a = "bottom" \/ a = b \/ b = "top"

\* Nodes of the call graph are the ghost exit and the methods, numbered from 1.
GhostExit == 0
NullInsn  == <<0, 0>>

(***************************************************************************)
(* Every call goes to methods of the program or has a label.  What a       *)
(* method returns is monotone in what its calls return, and whether it     *)
(* returns at all does not depend on it: the analysis takes every branch.  *)
(* The ordering fits the reversed call graph, as those that are            *)
(* constructed do (WpoProofs).                                             *)
(***************************************************************************)
Returned == Value \ {"bottom"}

Schedule == INSTANCE FixpointSchedule

\* From the ghost exit to the methods that call nobody, from there to callers.
Reversed(calls) ==
  LET M == DOMAIN calls
      callees(m) == UNION {calls[m][k] : k \in DOMAIN calls[m]}
  IN  {<<GhostExit, m>> : m \in {x \in M : callees(x) = {}}} \cup {e \in M \X M : e[1] \in callees(e[2])}

WellFormed(p) ==
  LET M == DOMAIN p.callees
  IN  /\ GhostExit \notin M /\ IsFiniteSet(M)
      /\ \A m \in M :
           /\ \A k \in DOMAIN p.callees[m] :
                p.callees[m][k] \subseteq M /\ p.label[m][k] \in {"none"} \cup Returned
           /\ \A u, v \in [DOMAIN p.callees[m] -> Returned] :
                /\ p.transfer[m][u] \in Value
                /\ (\A k \in DOMAIN p.callees[m] : Leq(u[k], v[k]))
                     => Leq(p.transfer[m][u], p.transfer[m][v])
                /\ p.transfer[m][u] = "bottom" => p.transfer[m][v] = "bottom"
      /\ Schedule!IsScheduled([wpo |-> p.wpo, edges |-> Reversed(p.callees)], M \cup {GhostExit})

ASSUME ProgramsAssumption == \A p \in Programs : WellFormed(p)
ASSUME CapsAssumption == Caps \subseteq Nat

VARIABLES
  prog,       \* the program
  cap,        \* m_max_iteration
  iteration,  \* the number of iterations that changed something
  mode,       \* "between" iterations, in one ("running"), "settled" or "capped"
  hasUpdate,  \* m_has_update
  summary,    \* m_map, with the default of get() for what is not there
  entryCtx,   \* m_entry_states
  exitCtx,    \* m_exit_states
  done,       \* the elements of the ordering this iteration is done with
  pc,         \* where each thread is
  elem,       \* the element each thread works on
  seen        \* the summaries it has read, by call and callee

registry == <<hasUpdate, summary>>
states   == <<entryCtx, exitCtx, done>>
threads  == <<pc, elem, seen>>
control  == <<prog, cap, iteration, mode>>
vars     == <<prog, cap, iteration, mode, hasUpdate, summary, entryCtx, exitCtx,
              done, pc, elem, seen>>

-----------------------------------------------------------------------------
Method   == DOMAIN prog.callees
CGNode   == {GhostExit} \cup Method
Calls(m) == DOMAIN prog.callees[m]
Insn     == {NullInsn} \cup UNION {{<<m, k>> : k \in Calls(m)} : m \in Method}

Wpo       == prog.wpo
Idx       == 0 .. Wpo.size - 1
IsExit(i) == Wpo.type[i] = "Exit"
NodeOf(i) == Wpo.node[i]
Analysed  == {NodeOf(i) : i \in Idx} \ {GhostExit}

-----------------------------------------------------------------------------
(* Calling contexts (Caller::Domain): an environment from invoke           *)
(* instructions to the arguments passed, of which only matters whether     *)
(* they are bottom, top or in between.  An environment with a binding to   *)
(* bottom is bottom as a whole.                                            *)

BottomCtx == [l \in Insn |-> "bottom"]
TopCtx    == [l \in Insn |-> "top"]

JoinArgs(a, b) == CASE a = "bottom" -> b
                    [] b = "bottom" -> a
                    [] a = "args" /\ b = "args" -> "args"
                    [] OTHER -> "top"
JoinCtx(c, d) == [l \in Insn |-> JoinArgs(c[l], d[l])]
LeqCtx(c, d)  == JoinCtx(c, d) = d

\* environment.set on a fresh environment.
Bind(l, a) == IF a = "bottom" THEN BottomCtx ELSE [TopCtx EXCEPT ![l] = a]

\* The edges into a node of the reversed call graph: where each comes from,
\* with its instruction.  A method that calls nobody is called the exit by.
EdgesInto(n) ==
  IF n = GhostExit THEN {}
  ELSE LET calls == {<<c, <<n, k>>>> : c \in Method, k \in Calls(n)}
           found == {e \in calls : e[1] \in prog.callees[n][e[2][2]]}
       IN  IF found = {} THEN {<<GhostExit, NullInsn>>} ELSE found

\* Mutant of AnalyzeEdge: a method that calls nobody starts like an entry point.
AnalyzeEdgeFromExit(e) ==
  Bind(NullInsn, IF e[2] = NullInsn THEN "top" ELSE exitCtx[e[1]][e[2]])

\* Caller::analyze_edge: the context at a caller is what its callee leaves at
\* the instruction that calls it; bottom if the callee is the ghost exit.
AnalyzeEdge(e) ==
  IF e[1] = GhostExit THEN BottomCtx ELSE Bind(NullInsn, exitCtx[e[1]][e[2]])

\* compute_entry_state into a state that is bottom; the initial value is top.
Incoming(n) ==
  LET into == {AnalyzeEdge(e) : e \in EdgesInto(n)} \cup
              {IF n = GhostExit THEN TopCtx ELSE BottomCtx}
      meet(l) == {c[l] : c \in into}
  IN  [l \in Insn |-> CASE meet(l) = {"bottom"} -> "bottom"
                        [] "top" \in meet(l)    -> "top"
                        [] OTHER                -> "args"]

\* analyze(): at each invoke, calling_context.join(original_context).
WithArguments(n, c) ==
  [l \in Insn |-> IF l[1] = n /\ c[l] # "bottom" THEN JoinArgs("args", c[l]) ELSE c[l]]

-----------------------------------------------------------------------------
(* The analysis of a method.                                               *)

\* The summaries read: of the callees of each call that has no label.
Reads(m) == {r \in Calls(m) \X Method :
               prog.label[m][r[1]] = "none" /\ r[2] \in prog.callees[m][r[1]]}

\* Mutant of Query: a callee that is not analysed yet is not counted.
QueryKnown(S) ==
  IF S \ {"top"} \subseteq {"bottom"} \/ {"det", "notdet"} \subseteq S THEN "top"
  ELSE IF "det" \in S THEN "det" ELSE "notdet"

\* query_fn without a label: the join of the summaries of the callees, top if
\* that is bottom (no callee found, or none that returns).
Query(S) ==
  IF S \subseteq {"bottom"} \/ "top" \in S \/ {"det", "notdet"} \subseteq S THEN "top"
  ELSE IF "det" \in S THEN "det" ELSE "notdet"

\* get_return_value() when the summaries v[<<k, c>>] are read.
Result(m, v) ==
  prog.transfer[m][[k \in Calls(m) |->
    IF prog.label[m][k] # "none" THEN prog.label[m][k]
    ELSE Query({v[<<k, c>>] : c \in prog.callees[m][k]})]]

Current(m) == [r \in Reads(m) |-> summary[r[2]]]

Init ==
  /\ prog \in Programs
  /\ cap \in Caps
  /\ iteration = 0
  /\ mode = "between"
  /\ hasUpdate = FALSE
  /\ summary = [m \in Method |-> "top"]
  /\ entryCtx = [n \in CGNode |-> BottomCtx]
  /\ exitCtx = [n \in CGNode |-> BottomCtx]
  /\ done = {}
  /\ pc = [w \in Thread |-> "free"]
  /\ elem = [w \in Thread |-> Wpo.size - 1]
  /\ seen = [w \in Thread |-> <<>>]

-----------------------------------------------------------------------------
(* The iterations: InterproceduralAnalyzer::run.                           *)

\* fp->run(initial_domain()) begins, with all its states cleared.
StartIteration ==
  /\ mode = "between"
  /\ iteration < cap
  /\ mode' = "running"
  /\ entryCtx' = [n \in CGNode |-> BottomCtx]
  /\ exitCtx' = [n \in CGNode |-> BottomCtx]
  /\ done' = {}
  /\ UNCHANGED <<prog, cap, iteration, registry, threads>>

Over == mode = "running" /\ done = Idx /\ \A w \in Thread : pc[w] = "free"

\* A summary changed: materialize_update, and the next iteration.
NextIteration ==
  /\ Over
  /\ hasUpdate
  /\ hasUpdate' = FALSE
  /\ iteration' = iteration + 1
  /\ mode' = "between"
  /\ UNCHANGED <<prog, cap, summary, states, threads>>

\* No summary changed: the global fixpoint is reached.
Settle ==
  /\ Over
  /\ ~hasUpdate
  /\ mode' = "settled"
  /\ UNCHANGED <<prog, cap, iteration, registry, states, threads>>

\* max_iteration is reached.
GiveUp ==
  /\ mode = "between"
  /\ iteration >= cap
  /\ mode' = "capped"
  /\ UNCHANGED <<prog, cap, iteration, registry, states, threads>>

-----------------------------------------------------------------------------
(* One iteration: the fixpoint iterator over the reversed call graph.      *)

Ready(i) == /\ mode = "running"
            /\ i \in Idx \ done
            /\ Wpo.preds[i] \subseteq done
            /\ \A w \in Thread : pc[w] # "free" => elem[w] # i

\* The ghost exit: there is no method to analyse.
PassExit(i) ==
  /\ Ready(i)
  /\ ~IsExit(i)
  /\ NodeOf(i) = GhostExit
  /\ entryCtx' = [entryCtx EXCEPT ![GhostExit] = JoinCtx(@, Incoming(GhostExit))]
  /\ exitCtx' = [exitCtx EXCEPT ![GhostExit] = entryCtx'[GhostExit]]
  /\ done' = done \cup {i}
  /\ UNCHANGED <<control, registry, threads>>

\* analyze_vertex of a method, up to the start of analyze().
Begin(w, i) ==
  LET n == NodeOf(i) IN
  /\ Ready(i)
  /\ ~IsExit(i)
  /\ n # GhostExit
  /\ pc[w] = "free"
  /\ entryCtx' = [entryCtx EXCEPT ![n] = JoinCtx(@, Incoming(n))]
  /\ exitCtx' = [exitCtx EXCEPT ![n] = entryCtx'[n]]
  /\ pc' = [pc EXCEPT ![w] = "read"]
  /\ elem' = [elem EXCEPT ![w] = i]
  /\ seen' = [seen EXCEPT ![w] = [r \in Reads(n) |-> "unread"]]
  /\ UNCHANGED <<control, registry, done>>

\* query_fn: the registry's get() for one callee.
Read(w) ==
  /\ pc[w] = "read"
  /\ \E r \in DOMAIN seen[w] :
       /\ seen[w][r] = "unread"
       /\ seen' = [seen EXCEPT ![w][r] = summary[r[2]]]
  /\ UNCHANGED <<control, registry, states, pc, elem>>

\* m_domain after analyze().  In a context that is not bottom the parameters
\* are no longer deterministic; top stands for what may come of that.
Outcome(w) ==
  LET n == NodeOf(elem[w])
  IN  IF entryCtx[n] = BottomCtx THEN Result(n, seen[w]) ELSE "top"

Analyze(w) ==
  LET n == NodeOf(elem[w]) IN
  /\ pc[w] = "read"
  /\ \A r \in DOMAIN seen[w] : seen[w][r] # "unread"
  /\ exitCtx' = [exitCtx EXCEPT ![n] = WithArguments(n, @)]
  /\ seen' = [seen EXCEPT ![w] = <<>>]

\* Mutant of Keep: writing what was there already counts as a change.
KeepReporting(w) ==
  /\ Analyze(w)
  /\ Outcome(w) = summary[NodeOf(elem[w])]
  /\ pc' = [pc EXCEPT ![w] = "flag"]
  /\ UNCHANGED <<control, registry, entryCtx, done, elem>>

\* summarize() without a change.
Keep(w) ==
  /\ Analyze(w)
  /\ Outcome(w) = summary[NodeOf(elem[w])]
  /\ pc' = [pc EXCEPT ![w] = "free"]
  /\ done' = done \cup {elem[w]}
  /\ UNCHANGED <<control, registry, entryCtx, elem>>

\* Mutant of Store: an entry that did not exist is not reported as changed.
StoreQuietly(w) ==
  LET n == NodeOf(elem[w]) IN
  /\ Analyze(w)
  /\ Outcome(w) # summary[n]
  /\ summary' = [summary EXCEPT ![n] = Outcome(w)]
  /\ IF summary[n] = "top"
     THEN done' = done \cup {elem[w]} /\ pc' = [pc EXCEPT ![w] = "free"]
     ELSE pc' = [pc EXCEPT ![w] = "flag"] /\ done' = done
  /\ UNCHANGED <<control, hasUpdate, entryCtx, elem>>

\* summarize() with a change: maybe_update overwrites the entry ...
Store(w) ==
  /\ Analyze(w)
  /\ Outcome(w) # summary[NodeOf(elem[w])]
  /\ summary' = [summary EXCEPT ![NodeOf(elem[w])] = Outcome(w)]
  /\ pc' = [pc EXCEPT ![w] = "flag"]
  /\ UNCHANGED <<control, hasUpdate, entryCtx, done, elem>>

\* ... and then, without the lock of the entry, sets m_has_update.
Flag(w) ==
  /\ pc[w] = "flag"
  /\ hasUpdate' = TRUE
  /\ pc' = [pc EXCEPT ![w] = "free"]
  /\ done' = done \cup {elem[w]}
  /\ UNCHANGED <<control, summary, entryCtx, exitCtx, elem, seen>>

\* Mutant of CloseLoop: the loop is left only for less than its head had.
CloseLoopStrictly(i) ==
  LET h == NodeOf(i) IN
  /\ Ready(i)
  /\ IsExit(i)
  /\ LET new == Incoming(h) IN
     IF LeqCtx(new, entryCtx[h]) /\ new # entryCtx[h]
     THEN entryCtx' = [entryCtx EXCEPT ![h] = new] /\ done' = done \cup {i}
     ELSE entryCtx' = [entryCtx EXCEPT ![h] = JoinCtx(@, new)] /\ done' = done \ prog.within[i]
  /\ UNCHANGED <<control, registry, exitCtx, threads>>

\* The exit of a loop: go on if its head would get nothing new, or again.
\* There are finitely many contexts, so widening is joining.
CloseLoop(i) ==
  LET h == NodeOf(i) IN
  /\ Ready(i)
  /\ IsExit(i)
  /\ LET new == Incoming(h) IN
     IF LeqCtx(new, entryCtx[h])
     THEN entryCtx' = [entryCtx EXCEPT ![h] = new] /\ done' = done \cup {i}
     ELSE entryCtx' = [entryCtx EXCEPT ![h] = JoinCtx(@, new)] /\ done' = done \ prog.within[i]
  /\ UNCHANGED <<control, registry, exitCtx, threads>>

-----------------------------------------------------------------------------
Step == \/ \E i \in Idx : PassExit(i) \/ CloseLoop(i)
        \/ \E w \in Thread : \/ \E i \in Idx : Begin(w, i)
                             \/ Read(w) \/ Keep(w) \/ Store(w) \/ Flag(w)

Next == StartIteration \/ NextIteration \/ Settle \/ GiveUp \/ Step

Spec == Init /\ [][Next]_vars

\* A thread of the iterator that can go on does, and so does the loop of run().
FairSpec == Spec /\ WF_vars(Next)

-----------------------------------------------------------------------------
\* The types of the variables.
TypeOK ==
  /\ iteration \in 0 .. cap
  /\ mode \in {"between", "running", "settled", "capped"}
  /\ hasUpdate \in BOOLEAN
  /\ summary \in [Method -> Value]
  /\ entryCtx \in [CGNode -> [Insn -> {"bottom", "args", "top"}]]
  /\ exitCtx \in [CGNode -> [Insn -> {"bottom", "args", "top"}]]
  /\ done \subseteq Idx
  /\ pc \in [Thread -> {"free", "read", "flag"}]
  /\ elem \in [Thread -> Idx]
  /\ \A w \in Thread :
       seen[w] \in IF pc[w] = "read" THEN [Reads(NodeOf(elem[w])) -> Value \cup {"unread"}]
                   ELSE {<<>>}

\* A method is only ever analysed in a context that does not contradict the
\* asserts at DeterminismAnalysisIntra.cpp:238-240: bottom, or one with known
\* arguments at the null instruction.
ParametersKnown ==
  \A w \in Thread : pc[w] # "free" => entryCtx[NodeOf(elem[w])][NullInsn] # "top"

\* At any moment, whoever has read what, the analysis of a method with the
\* present summaries gives nothing above its own summary: stopping anywhere,
\* at the cap too, leaves sound summaries.
SummariesSound ==
  \A m \in Analysed : Leq(Result(m, Current(m)), summary[m])

\* When the iterations end by themselves the summaries are a solution: each is
\* what the analysis of its method makes of the others.
SettledIsSolution ==
  mode = "settled" => \A m \in Analysed : summary[m] = Result(m, Current(m))

\* max_iteration is never exceeded, which is a part of TypeOK, an iteration
\* that changes something lowers a summary for good, and without recursion the
\* first one finds them all.
IterationsBounded ==
  /\ TypeOK
  /\ iteration <= Cardinality({m \in Analysed : summary[m] # "top"})
  /\ (\A i \in Idx : ~IsExit(i)) => iteration <= 1

\* With a cap above the number of methods the analysis always settles.
SettlesUnderCap == cap > Cardinality(Analysed) ~> mode = "settled"

\* The comment at DeterminismAnalysis.cpp:69-71: at the entry of a method the
\* context has a binding of the null pointer to the input arguments.
EntryBindsArguments ==
  \A w \in Thread : pc[w] # "free" => entryCtx[NodeOf(elem[w])][NullInsn] # "bottom"
=============================================================================
