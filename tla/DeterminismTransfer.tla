------------------------ MODULE DeterminismTransfer ------------------------
(***************************************************************************)
(* The transfer functions of the determinism analysis (analyze_instruction *)
(* in determinism_nullinput_analysis/determinism/                          *)
(* DeterminismAnalysisIntra.cpp) along an execution of a method that       *)
(* throws no exception: env is the abstract state the fixpoint iterator    *)
(* has at each point of the path, and real says which places hold a value  *)
(* that is the same in any two executions of this path with the same       *)
(* arguments.  The value of a reference is the object with all it holds.   *)
(*                                                                         *)
(* The analysis has no objects: whoever changes one changes the value of   *)
(* every place it can be reached from, and the analysis at most one of     *)
(* them.  Which places those are is any of the sets in Alias.  A pair of   *)
(* registers that holds a wide value is one register.                      *)
(***************************************************************************)
CONSTANTS
  Reg,       \* the registers
  Field,     \* the fields the method accesses
  Result,    \* RESULT_REGISTER
  Null,      \* no field
  Dangling,  \* any other pointer: tmp_field_name is not initialised
  Undefined, \* what a function that ends without a return returns
  Alias,     \* sets of places that an object may be reached from
  Callee     \* the callees: what is known of the result, does it vary, and
             \* does what is done to objects vary: [summary, real, effect]

Place == Reg \cup Field \cup {Result}
Det   == {"bottom", "det", "notdet", "top"}
Real  == {"same", "varies", "doubt"}

ASSUME PlaceAssumption == /\ Reg \cap Field = {}
                          /\ {Result, Null, Dangling} \cap (Reg \cup Field) = {}
                          /\ Null # Dangling
ASSUME UndefinedAssumption == Undefined \in Det

ASSUME AliasAssumption == Alias \subseteq SUBSET Place

\* The query of summaries never answers bottom, and its answers are as good as
\* those of the analysis of a method (DirectFlowsSeen).  Nothing is assumed of
\* what callees do to objects.
ASSUME CalleeAssumption ==
  /\ Callee \subseteq [summary : Det \ {"bottom"}, real : Real, effect : {"same", "varies"}]
  /\ \A c \in Callee : c.summary = "det" => c.real # "varies"

VARIABLES
  env,      \* the abstract state: registers, fields and the result register
  mapping,  \* m_reg_field_mapping
  tmp,      \* tmp_field_name
  after,    \* "load": a move-result-pseudo must follow; "call", "varying call":
            \* a move-result may follow; "other"; "aborted"
  real      \* does the value vary?  "doubt": maybe, by what is listed below

vars == <<env, mapping, tmp, after, real>>

-----------------------------------------------------------------------------
(* The lattice, and environments: a place without binding is top, and an   *)
(* environment with a binding to bottom is bottom as a whole.              *)

Leq(a, b) == a = b \/ a = "bottom" \/ b = "top"

\* The join of a set of values.
Join(S) ==
  IF S \subseteq {"bottom"} THEN "bottom"
  ELSE IF S \subseteq {"bottom", "det"} THEN "det"
  ELSE IF S \subseteq {"bottom", "notdet"} THEN "notdet"
  ELSE "top"

Bottom == [p \in Place |-> "bottom"]

Set(e, p, v) == IF e = Bottom \/ v = "bottom" THEN Bottom ELSE [e EXCEPT ![p] = v]

\* What is made of several values: it varies if one of them does.
Mix(S) == IF "varies" \in S THEN "varies" ELSE IF "doubt" \in S THEN "doubt" ELSE "same"

\* What the analysis, which says v of it, sees of a value is seen, but unseen
\* has gone into it too.  That is not held against a v that is det.
Unseen(v, seen, unseen) ==
  IF v = "det" /\ seen # "varies" /\ unseen = "varies" THEN "doubt" ELSE Mix({seen, unseen})

\* operation_with_two_domains, mutant first: only the second operand counts.
OperateSecond(a, b) == IF a \in {"top", "det"} THEN b ELSE a
Operate(a, b) == IF a = "bottom" THEN Undefined ELSE IF a = "det" THEN b ELSE a

-----------------------------------------------------------------------------
\* A place gets an abstract and a real value.
Write(p, v, t) ==
  /\ env' = Set(env, p, v)
  /\ real' = [real EXCEPT ![p] = t]

\* What is in the places of S changes, and u goes into it unseen.
Touched(S, u) == [q \in Place |-> IF q \in S THEN Unseen(env[q], real[q], u) ELSE real[q]]

\* A place gets a value, and the object with u in it is found in those of S.
WriteObject(p, v, t, S, u) ==
  /\ env' = Set(env, p, v)
  /\ real' = [Touched(S, u) EXCEPT ![p] = t]

\* run(): parameters and `this' are det whatever is passed, as the context of
\* every method is bottom; nothing is known of fields.
Init ==
  /\ \E params \in SUBSET Reg :
       /\ env = [p \in Place |-> IF p \in params THEN "det" ELSE "top"]
       /\ real = [p \in Place |-> IF p \in params THEN "same" ELSE "varies"]
  /\ mapping = [r \in Reg |-> Null]
  /\ tmp \in {Null, Dangling}
  /\ after = "other"

\* Any instruction may come next.
Ready == after \notin {"load", "aborted"}

Proceed == Ready /\ after' = "other" /\ UNCHANGED <<mapping, tmp>>

\* The start of a block: the states of other paths are joined ...
JoinPath(p) ==
  /\ Proceed
  /\ env' = Set(env, p, "top")
  /\ UNCHANGED real

\* ... and blocks analysed before have left entries in the mapping.
OtherBlock(r, f) ==
  /\ Ready
  /\ mapping' = [mapping EXCEPT ![r] = f]
  /\ after' = "other"
  /\ UNCHANGED <<env, tmp, real>>

Const(d) == Proceed /\ Write(d, "det", "same")

\* Moves, operations with one operand or a literal.
Move(d, s) == Proceed /\ Write(d, env[s], real[s])

\* Comparisons and operations with two operands.
Binary(d, a, b) ==
  /\ Proceed
  /\ Write(d, Operate(env[a], env[b]), Mix({real[a], real[b]}))

\* default_semantics with a destination.
Clobber(d) == Proceed /\ Write(d, "top", "varies")

\* Instructions that leave a value for the move-result-pseudo after them.
Load(v, t) ==
  /\ Ready
  /\ Write(Result, v, t)
  /\ after' = "load"
  /\ UNCHANGED mapping

\* const-string, const-class, new-instance.
LoadNew == Load("det", "same") /\ UNCHANGED tmp

\* new-array, check-cast, instance-of, array-length.
LoadFrom(s) == Load(env[s], real[s]) /\ UNCHANGED tmp

\* default_semantics: static fields, and elements and fields of other types.
LoadUnknown == Load("top", "varies") /\ UNCHANGED tmp

\* aget: the offset decides in an array that is det, and else the array.
Element(array, offset) == IF array = "det" THEN offset ELSE array

AGet(a, i) ==
  /\ Load(Element(env[a], env[i]), Mix({real[a], real[i]}))
  /\ UNCHANGED tmp

\* iget: of the object the field was last put into, or of another one.
IGet(f) ==
  /\ \E t \in {real[f], Unseen(env[f], "same", "varies")} : Load(env[f], t)
  /\ tmp' = f

\* move-result-pseudo: insert() keeps an entry that is there.
MovePseudo(d) ==
  /\ after = "load"
  /\ mapping' = [mapping EXCEPT ![d] = IF @ = Null THEN tmp ELSE @]
  /\ tmp' = Null
  /\ Write(d, env[Result], real[Result])
  /\ after' = "other"

\* aput of the types that are listed.  Mutant: an array is det for good.
StoredKeeping(source, array, offset) == array
Stored(source, array, offset) ==
  IF array = "det" THEN Join({offset, source}) ELSE array

APut(x, a, i, S) ==
  /\ Proceed
  /\ WriteObject(a, Stored(env[x], env[a], env[i]), Mix({real[x], real[a], real[i]}),
                 S, Mix({real[x], real[i]}))

\* iput: the field is tracked, the object it belongs to is not.
IPut(f, s, S) == Proceed /\ WriteObject(f, env[s], real[s], S, real[s])

\* aput and iput of the other types: default_semantics, which does nothing.
PutUnlisted(s, S) ==
  /\ Proceed
  /\ real' = Touched(S, real[s])
  /\ UNCHANGED env

-----------------------------------------------------------------------------
(* Calls of a method on o with the arguments in A.  The objects of S are   *)
(* those that the callee changes: nothing of it is in a summary.           *)

\* Mutant of Receiver: the arguments only, from the second register on.
ReceiverArguments(e, o, A) == Join({e[r] : r \in A})
Receiver(e, o, A) == Join({e[r] : r \in {o} \cup A})

Outcome(e, o, A, c) ==
  LET v == Receiver(e, o, A) IN IF v = "bottom" THEN v ELSE Operate(v, c.summary)

\* The result of a call with what is in R, and what it leaves in objects.
Truth(R, c) == Mix({real[r] : r \in R} \cup {c.real})
Effect(R, c) == Mix({real[r] : r \in R} \cup {c.effect})

\* A move-result may follow.
Called(t) == /\ Ready
             /\ after' = IF t = "varies" THEN "varying call" ELSE "call"
             /\ UNCHANGED <<mapping, tmp>>

\* process_virtual_call in general, and of a static method without arguments.
Invoke(o, A, c, S) ==
  LET R == {o} \cup A IN
  /\ Called(Truth(R, c))
  /\ WriteObject(Result, Outcome(env, o, A, c), Truth(R, c), S, Effect(R, c))

InvokeStatic(c, S) ==
  /\ Called(c.real)
  /\ WriteObject(Result, c.summary, c.real, S, c.effect)

\* The methods below do not write the result register: t is their result.
Unwritten(truth, t) == [truth EXCEPT ![Result] = Unseen(env[Result], "same", t)]

\* A static method without arguments with "init" in its name ...
InvokeStaticInit(c, S) ==
  /\ Called(c.real)
  /\ real' = Unwritten(Touched(S, c.effect), c.real)
  /\ UNCHANGED env

\* ... with one of the other names, or to be reset: an assertion that there is
\* a first register fails.
AbortStatic ==
  /\ Ready
  /\ after' = "aborted"
  /\ UNCHANGED <<env, mapping, tmp, real>>

\* A method that changes its object: "init" or "append" is in its name.  What
\* the analysis says of the result it says of the object.
Modify(o, A, c, S) ==
  LET R == {o} \cup A
      v == Outcome(env, o, A, c) IN
  /\ Called(Truth(R, c))
  /\ env' = Set(env, o, v)
  /\ real' = Unwritten([Touched(S, Effect(R, c)) EXCEPT
                           ![o] = Unseen(v, Truth(R, c), c.effect)], Truth(R, c))

\* "set" is in its name: the summary alone is the new value of the object, or
\* of the field the object was once loaded from.
SetCall(o, A, c, S) ==
  LET R == {o} \cup A
      p == IF mapping[o] = Null THEN o ELSE mapping[o]
      touched == Touched(S \cup {o}, Effect(R, c)) IN
  /\ Called(Truth(R, c))
  /\ IF p = Dangling
     THEN env' = env /\ real' = Unwritten(touched, Truth(R, c))
     ELSE /\ env' = Set(env, p, c.summary)
          /\ real' = Unwritten([touched EXCEPT
                ![p] = Unseen(c.summary, "same", Mix({real[p], Truth(R, c), Effect(R, c)}))],
                               Truth(R, c))

\* check_reset_func: what the object was before does not matter.
Restored(e, A) == IF Join({e[r] : r \in A}) = "det" THEN "det" ELSE "top"

ResetCall(o, A, S) ==
  LET t == Mix({real[r] : r \in A}) IN
  /\ Called(t)
  /\ env' = Set(env, o, Restored(env, A))
  /\ real' = Unwritten([Touched(S, t) EXCEPT ![o] = t], t)

\* move-result.
MoveResult(d) ==
  /\ after \in {"call", "varying call"}
  /\ Write(d, env[Result], real[Result])
  /\ after' = "other"
  /\ UNCHANGED <<mapping, tmp>>

-----------------------------------------------------------------------------
CallNext(o, A, S) ==
  \/ ResetCall(o, A, S)
  \/ \E c \in Callee : Invoke(o, A, c, S) \/ Modify(o, A, c, S) \/ SetCall(o, A, c, S)

ObjectNext(S) ==
  \/ \E c \in Callee : InvokeStatic(c, S) \/ InvokeStaticInit(c, S)
  \/ \E r \in Reg :
       \/ PutUnlisted(r, S)
       \/ \E f \in Field : IPut(f, r, S)
       \/ \E s, t \in Reg : APut(r, s, t, S)
       \/ \E A \in SUBSET Reg : CallNext(r, A, S)

Next ==
  \/ LoadNew \/ LoadUnknown \/ AbortStatic
  \/ \E p \in Place : JoinPath(p)
  \/ \E f \in Field : IGet(f)
  \/ \E S \in Alias : ObjectNext(S)
  \/ \E r \in Reg :
       \/ Const(r) \/ Clobber(r) \/ LoadFrom(r) \/ MovePseudo(r) \/ MoveResult(r)
       \/ \E f \in Field \cup {Dangling} : OtherBlock(r, f)
       \/ \E s \in Reg : Move(r, s) \/ AGet(r, s)
       \/ \E s, t \in Reg : Binary(r, s, t)

Spec == Init /\ [][Next]_vars

-----------------------------------------------------------------------------
\* The types of the variables.
TypeOK ==
  /\ env \in [Place -> Det]
  /\ mapping \in [Reg -> Field \cup {Null, Dangling}]
  /\ tmp \in Field \cup {Null, Dangling}
  /\ after \in {"load", "call", "varying call", "other", "aborted"}
  /\ real \in [Place -> Real]

\* What the analysis calls det is not made of anything that varies, on any
\* path, as far as instructions and calls hand values on in registers, fields
\* of one object, results and listed arrays.  What it does not see, and what a
\* det value is not reproached with, is what goes by an object: what is put into
\* it or done to it by a callee, whoever else holds it; a field of another
\* object than was put into last; a call of "set"; a result that is not written.
DirectFlowsSeen == \A p \in Place : env[p] = "det" => real[p] # "varies"

\* "Node transformers are required to be monotonic": had another path raised
\* a register, no instruction would leave a lower value.
TransfersMonotone ==
  \A p \in {r \in Reg : env[r] # "top"} :
    LET up == Set(env, p, "top") IN
    \A r \in Reg, A \in SUBSET Reg :
      /\ Leq(Restored(env, A), Restored(up, A))
      /\ \A c \in Callee : Leq(Outcome(env, r, A, c), Outcome(up, r, A, c))
      /\ \A s \in A : /\ Leq(Operate(env[r], env[s]), Operate(up[r], up[s]))
                      /\ Leq(Element(env[r], env[s]), Element(up[r], up[s]))
                      /\ \A x \in A : Leq(Stored(env[x], env[r], env[s]), Stored(up[x], up[r], up[s]))

\* A path that is executed is not taken for unreachable, so that the first
\* operand of operation_with_two_domains, for which it returns nothing when
\* it is bottom, never is.
NeverUnreachable == \A p \in Place : env[p] # "bottom"

\* "Move the object result of the most recent invoke-kind into the indicated
\* register": after a call whose result varies, what a move-result moves is
\* not det.
ResultIsOfLastCall == after = "varying call" => env[Result] # "det"
=============================================================================
