----------------------------- MODULE NullInput -----------------------------
(***************************************************************************)
(* The null-input analysis of one method: which parameters are known to be *)
(* null where the method returns                                           *)
(* (null-input-analysis/NullInputAnalysisIntra.cpp).                       *)
(*                                                                         *)
(* A state of the analysis is a set of registers, or bottom; states are    *)
(* joined by union.  Here a state that is not bottom has the mark Live     *)
(* among its elements, bottom is the empty set, and both are joined by \cup. *)
(*                                                                         *)
(* Of a block the analysis looks at the first and the last instruction and *)
(* the first source of the last one.  Its fixpoint iterator analyses the   *)
(* blocks in the order of its schedule; here a block whose exit state is   *)
(* not up to date is analysed in any order, which ends in the same states, *)
(* as the analysis of a block is monotone.                                 *)
(***************************************************************************)
EXTENDS Naturals, Sequences

CONSTANTS
  Block,      \* basic blocks
  Register,
  Live,       \* marks a state that is not bottom
  Methods     \* the control-flow graphs to analyse

VARIABLES
  method,     \* the graph: first and last instruction and the register of each block, edges
  exit,       \* the exit state of each block
  result      \* "none", then "SAT" or "UNSAT", or "abort"

nullVars == <<method, exit, result>>

NullTests == {"if-eqz", "if-nez"}
Sourceless == {"goto", "const"}            \* instructions without a source

First(b) == method.first[b]
Last(b)  == method.last[b]
EdgesInto(b) == {e \in method.edges : e.to = b}

(***************************************************************************)
(* What the control-flow graph of a method is like.  "load" stands for the *)
(* instructions that load parameters but wide ones, "const" as the first   *)
(* instruction for the constant null, "other" for instructions the analysis *)
(* does not know, "empty" for the exit block that collects several returns. *)
(* Tests and gotos end a block, so a block that begins with one has no     *)
(* other instruction.  A block that cannot be reached has no edges and is  *)
(* left out.                                                               *)
(***************************************************************************)
WellFormed(m) ==
  /\ m.entry \in Block /\ m.exit \in Block
  /\ \A b \in Block :
        /\ m.first[b] \in NullTests \cup {"goto", "return", "empty"} => m.last[b] = m.first[b]
        /\ m.last[b] \in NullTests => m.reg[b] \in Register
        /\ m.last[b] \in {"return", "empty"} =>
              \A e \in m.edges : e.from = b => e.kind = "ghost"
  /\ \A e \in m.edges :
        /\ e.from \in Block /\ e.to \in Block
        /\ e.kind \in {"branch", "goto", "throw", "ghost"}
        /\ m.last[e.from] \in NullTests => e.kind \in {"branch", "goto"}
  /\ \A S \in SUBSET Block :
        m.entry \in S /\ (\A e \in m.edges : e.from \in S => e.to \in S) => S = Block
-----------------------------------------------------------------------------
\* The kinds of blocks analyze_node tells apart.
ParameterTest(b) == First(b) = "load" /\ Last(b) \in NullTests
Test(b)          == First(b) \in NullTests \/ ParameterTest(b)
Check(b)         == Test(b) \/ First(b) = "goto"
ReturnOfNull(b)  == Last(b) = "return" /\ First(b) \in {"const", "return"}
Transparent(b)   == First(b) = "empty" \/ ReturnOfNull(b)

(***************************************************************************)
(* The switch over the last instruction of a predecessor: the case of      *)
(* if-eqz has no break after its test and goes on in the case of if-nez.   *)
(***************************************************************************)
KeepsRegister(e) ==
  \/ Last(e.from) = "if-eqz" /\ e.kind = "branch"
  \/ Last(e.from) \in NullTests /\ e.kind = "goto"

Removed(b) == {method.reg[e.from] : e \in {x \in EdgesInto(b) : ~KeepsRegister(x)}}

\* src(0) of the last instruction of a predecessor asserts that there is one.
AnalyzeAborts(b, state) ==
  /\ Check(b)
  /\ state # {}
  /\ \E e \in EdgesInto(b) : Last(e.from) \in Sourceless

AnalyzeNode(b, state) ==
  IF Transparent(b) THEN state
  ELSE IF Check(b)
  THEN (state \ Removed(b)) \cup (IF Test(b) THEN {Live, method.reg[b]} ELSE {})
  ELSE {}

\* The initial state is bottom too, and edges pass states on unchanged.
EntryState(b) == UNION {exit[e.from] : e \in EdgesInto(b)}

UpToDate(b) == exit[b] = AnalyzeNode(b, EntryState(b))
-----------------------------------------------------------------------------
NullInit ==
  /\ method \in Methods
  /\ WellFormed(method)
  /\ exit = [b \in Block |-> {}]
  /\ result = "none"

Analyze(b) ==
  /\ result = "none"
  /\ ~UpToDate(b)
  /\ ~AnalyzeAborts(b, EntryState(b))
  /\ exit' = [exit EXCEPT ![b] = AnalyzeNode(b, EntryState(b))]
  /\ UNCHANGED <<method, result>>

Abort(b) ==
  /\ result = "none"
  /\ AnalyzeAborts(b, EntryState(b))
  /\ result' = "abort"
  /\ UNCHANGED <<method, exit>>

\* get_nullinput_result: no set of parameters is below bottom.
GetNullInputResult ==
  /\ result = "none"
  /\ \A b \in Block : UpToDate(b) /\ ~AnalyzeAborts(b, EntryState(b))
  /\ result' = IF method.params \cup {Live} \subseteq exit[method.exit] THEN "SAT" ELSE "UNSAT"
  /\ UNCHANGED <<method, exit>>

NullNext ==
  \/ \E b \in Block : Analyze(b) \/ Abort(b)
  \/ GetNullInputResult

NullSpec == NullInit /\ [][NullNext]_nullVars
-----------------------------------------------------------------------------
\* The edge on which the register that its source compares is null.
NullEdge(e) ==
  \/ Last(e.from) = "if-eqz" /\ e.kind = "branch"
  \/ Last(e.from) = "if-nez" /\ e.kind = "goto"

\* "check if the edge takes the reg == null branch.  if not, remove reg from
\* the current_state" (NullInputAnalysisIntra.cpp:200-201): after a block that
\* checks and has a single edge into it, a register that the predecessor compared
\* is there only if it is null on that edge, or if the block compares it itself.
OnlyNullBranches ==
  \A b \in Block, e \in method.edges :
     /\ Check(b) /\ EdgesInto(b) = {e}
     /\ Last(e.from) \in NullTests
     /\ method.reg[e.from] \in exit[b]
     => NullEdge(e) \/ (Test(b) /\ method.reg[b] = method.reg[e.from])

\* A path on which register r reaches its last block: it starts with a test of
\* r, has blocks of tests and gotos only but for a return of null or the block
\* of the common exit, and nothing on it removes r.
Carries(p, r) ==
  /\ Len(p) > 0
  /\ Test(p[1])
  /\ method.reg[p[1]] = r
  /\ \A i \in 2..Len(p) :
        /\ \E e \in method.edges : e.from = p[i - 1] /\ e.to = p[i]
        /\ Transparent(p[i]) \/ (Check(p[i]) /\ r \notin Removed(p[i]))

\* A method is SAT only if on some path to its exit each parameter is compared
\* with null and nothing but other comparisons and gotos is done before the
\* return: code that does something with its arguments first never is.
SatIsChecked ==
  result = "SAT" =>
     \A r \in method.params \ {Live} :
        \E p \in Seq(Block) : Carries(p, r) /\ p[Len(p)] = method.exit
=============================================================================
