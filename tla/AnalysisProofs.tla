--------------------------- MODULE AnalysisProofs ---------------------------
(***************************************************************************)
(* Proofs about the analyses of a single method.                           *)
(*                                                                         *)
(* DeterminismTransfer: for any registers, fields, aliases and callees the *)
(* transfer functions lose no flow they see, are monotone, and never take  *)
(* a path that is executed for unreachable.  NullInput: what SAT says of a *)
(* method, for any method.                                                 *)
(***************************************************************************)
EXTENDS DeterminismTransfer, NullInput, TLAPS

\* The inductive invariant.
Inv == TypeOK /\ NeverUnreachable /\ DirectFlowsSeen

-----------------------------------------------------------------------------
(* The lattice.                                                            *)

\* Joining values gives a value.
LEMMA JoinType ==
  ASSUME NEW S \in SUBSET Det
  PROVE  Join(S) \in Det
BY DEF Join, Det

\* A join is bottom only of nothing but bottom.
LEMMA JoinNotBottom ==
  ASSUME NEW S \in SUBSET Det, NEW v \in S, v # "bottom"
  PROVE  Join(S) # "bottom"
BY DEF Join

\* A join is det only of values that are.
LEMMA JoinIsDet ==
  ASSUME NEW S \in SUBSET Det, Join(S) = "det", NEW v \in S
  PROVE  v \in {"bottom", "det"}
BY DEF Join

\* Mixing truths gives a truth.
LEMMA MixType ==
  ASSUME NEW S \in SUBSET Real
  PROVE  Mix(S) \in Real
BY DEF Mix, Real

\* What is made of values that do not vary does not vary.
LEMMA MixKeeps ==
  ASSUME NEW S, "varies" \notin S
  PROVE  Mix(S) # "varies"
BY DEF Mix

\* Whatever goes unseen into a value, one the analysis calls det varies only
\* for what it sees.
LEMMA UnseenKeeps ==
  ASSUME NEW v, NEW seen \in Real, NEW unseen \in Real, v = "det" => seen # "varies"
  PROVE  /\ Unseen(v, seen, unseen) \in Real
         /\ v = "det" => Unseen(v, seen, unseen) # "varies"
BY DEF Unseen, Mix, Real

-----------------------------------------------------------------------------
(* What an instruction does to the state.                                  *)

\* Setting a place to a value that is not bottom sets only that place.
LEMMA SetPlace ==
  ASSUME NEW e \in [Place -> Det], \A p \in Place : e[p] # "bottom",
         NEW p \in Place, NEW v \in Det, v # "bottom"
  PROVE  Set(e, p, v) = [e EXCEPT ![p] = v]
<1>1. e[Result] # "bottom"
  BY DEF Place
<1>2. e # Bottom
  BY <1>1 DEF Bottom, Place
<1> QED
  BY <1>2 DEF Set

\* An environment changed in a place, and truths that do not vary elsewhere
\* where the environment is det, keep the invariant of both.
LEMMA WriteKeeps ==
  ASSUME Inv, NEW p \in Place, NEW v \in Det, v # "bottom",
         env' = Set(env, p, v), real' \in [Place -> Real],
         v = "det" => real'[p] # "varies",
         \A q \in Place \ {p} : env[q] = "det" => real'[q] # "varies"
  PROVE  env' \in [Place -> Det] /\ NeverUnreachable' /\ DirectFlowsSeen'
<1>1. env' = [env EXCEPT ![p] = v]
  BY SetPlace DEF Inv, TypeOK, NeverUnreachable
<1> QED
  BY <1>1 DEF Inv, TypeOK, NeverUnreachable, DirectFlowsSeen

\* Objects changed by whom the analysis does not see: no det value varies.
LEMMA TouchedKeeps ==
  ASSUME Inv, NEW S, NEW u \in Real
  PROVE  /\ Touched(S, u) \in [Place -> Real]
         /\ \A q \in Place : env[q] = "det" => Touched(S, u)[q] # "varies"
<1>1. ASSUME NEW q \in Place
      PROVE  /\ Touched(S, u)[q] \in Real
             /\ env[q] = "det" => Touched(S, u)[q] # "varies"
  <2>1. real[q] \in Real /\ (env[q] = "det" => real[q] # "varies")
    BY DEF Inv, TypeOK, DirectFlowsSeen
  <2>2. Touched(S, u)[q] = IF q \in S THEN Unseen(env[q], real[q], u) ELSE real[q]
    BY DEF Touched
  <2> QED
    BY <2>1, <2>2, UnseenKeeps
<1>2. Touched(S, u) = [q \in Place |-> Touched(S, u)[q]]
  BY DEF Touched
<1> QED
  BY <1>1, <1>2

\* The same of a result that is not written.
LEMMA UnwrittenKeeps ==
  ASSUME Inv, NEW f \in [Place -> Real], NEW t \in Real
  PROVE  /\ Unwritten(f, t) \in [Place -> Real]
         /\ \A q \in Place \ {Result} : Unwritten(f, t)[q] = f[q]
         /\ env[Result] = "det" => Unwritten(f, t)[Result] # "varies"
<1>1. Result \in Place /\ "same" \in Real
  BY DEF Place, Real
<1>2. /\ Unseen(env[Result], "same", t) \in Real
      /\ env[Result] = "det" => Unseen(env[Result], "same", t) # "varies"
  BY <1>1, UnseenKeeps
<1> QED
  BY <1>1, <1>2 DEF Unwritten

-----------------------------------------------------------------------------
(* What the operations make of values that are not bottom: no bottom, and  *)
(* det only of values that are det.                                        *)

Known == Det \ {"bottom"}

\* operation_with_two_domains answers det only for two operands that are.
LEMMA OperateKnown ==
  ASSUME NEW a \in Known, NEW b \in Known
  PROVE  Operate(a, b) \in Known /\ (Operate(a, b) = "det" => a = "det" /\ b = "det")
BY DEF Operate, Known, Det

\* An element is det only in a det array at a det offset.
LEMMA ElementKnown ==
  ASSUME NEW a \in Known, NEW i \in Known
  PROVE  Element(a, i) \in Known /\ (Element(a, i) = "det" => a = "det" /\ i = "det")
BY DEF Element, Known, Det

\* An array stays det only while what is stored in it is det.
LEMMA StoredKnown ==
  ASSUME NEW x \in Known, NEW a \in Known, NEW i \in Known
  PROVE  /\ Stored(x, a, i) \in Known
         /\ Stored(x, a, i) = "det" => x = "det" /\ a = "det" /\ i = "det"
<1>1. {i, x} \in SUBSET Det /\ i # "bottom" /\ x # "bottom"
  BY DEF Known
<1>2. Join({i, x}) \in Known
  BY <1>1, JoinType, JoinNotBottom DEF Known
<1>3. Join({i, x}) = "det" => i = "det" /\ x = "det"
  BY <1>1, JoinIsDet
<1> QED
  BY <1>2, <1>3 DEF Stored

\* A call is det only with a det object, det arguments and a det summary.
LEMMA OutcomeKnown ==
  ASSUME Inv, NEW o \in Reg, NEW A \in SUBSET Reg, NEW c \in Callee
  PROVE  /\ Outcome(env, o, A, c) \in Known
         /\ Outcome(env, o, A, c) = "det" =>
              c.real # "varies" /\ \A r \in {o} \cup A : env[r] = "det"
<1> DEFINE S == {env[r] : r \in {o} \cup A}
<1>1. S \in SUBSET Det /\ env[o] \in S /\ \A v \in S : v # "bottom"
  BY DEF Inv, TypeOK, NeverUnreachable, Place
<1>2. Join(S) \in Known
  BY <1>1, JoinType, JoinNotBottom DEF Known
<1>3. Join(S) = "det" => \A r \in {o} \cup A : env[r] = "det"
  <2> SUFFICES ASSUME Join(S) = "det", NEW r \in {o} \cup A  PROVE env[r] = "det"
    OBVIOUS
  <2>1. env[r] \in S
    OBVIOUS
  <2> QED
    BY <2>1, <1>1, JoinIsDet
<1>4. c.summary \in Known /\ (c.summary = "det" => c.real # "varies")
  BY CalleeAssumption DEF Known
<1>5. Outcome(env, o, A, c) = Operate(Join(S), c.summary)
  BY <1>2 DEF Outcome, Receiver, Known
<1> HIDE DEF S
<1> QED
  BY <1>2, <1>3, <1>4, <1>5, OperateKnown

\* The truth about a call whose arguments and callee do not vary.
LEMMA TruthType ==
  ASSUME Inv, NEW R \in SUBSET Reg, NEW c \in Callee
  PROVE  /\ Truth(R, c) \in Real
         /\ c.real # "varies" /\ (\A r \in R : env[r] = "det") => Truth(R, c) # "varies"
<1> DEFINE S == {real[r] : r \in R} \cup {c.real}
<1>1. S \in SUBSET Real
  BY CalleeAssumption DEF Inv, TypeOK, Place, Real
<1>2. ASSUME c.real # "varies", \A r \in R : env[r] = "det"  PROVE "varies" \notin S
  BY <1>2 DEF Inv, DirectFlowsSeen, Place
<1>3. Truth(R, c) = Mix(S)
  BY DEF Truth
<1> HIDE DEF S
<1> QED
  BY <1>1, <1>2, <1>3, MixType, MixKeeps

\* What a callee leaves in objects varies or not.
LEMMA EffectType ==
  ASSUME Inv, NEW R \in SUBSET Reg, NEW c \in Callee
  PROVE  Effect(R, c) \in Real
<1> DEFINE S == {real[r] : r \in R} \cup {c.effect}
<1>1. S \in SUBSET Real
  BY CalleeAssumption DEF Inv, TypeOK, Place, Real
<1>2. Effect(R, c) = Mix(S)
  BY DEF Effect
<1> HIDE DEF S
<1> QED
  BY <1>1, <1>2, MixType

-----------------------------------------------------------------------------
(* One lemma for each kind of instruction.                                 *)

\* The part of the type that instructions outside of loads and calls keep.
Places == /\ mapping \in [Reg -> Field \cup {Null, Dangling}]
          /\ tmp \in Field \cup {Null, Dangling}
          /\ after \in {"load", "call", "varying call", "other", "aborted"}

\* A place written with what it is: the shape of most instructions.
LEMMA Written ==
  ASSUME Inv, Places', NEW p \in Place, NEW v \in Known, NEW t \in Real,
         v = "det" => t # "varies", Write(p, v, t)
  PROVE  Inv'
<1>1. real' = [real EXCEPT ![p] = t] /\ real' \in [Place -> Real]
  BY DEF Write, Inv, TypeOK
<1>2. \A q \in Place \ {p} : env[q] = "det" => real'[q] # "varies"
  BY <1>1 DEF Inv, TypeOK, DirectFlowsSeen
<1>3. env' \in [Place -> Det] /\ NeverUnreachable' /\ DirectFlowsSeen'
  BY <1>1, <1>2, WriteKeeps DEF Write, Known, Inv, TypeOK
<1> QED
  BY <1>1, <1>3 DEF Inv, TypeOK, Places

\* A place written while others change unseen.
LEMMA ObjectWritten ==
  ASSUME Inv, Places', NEW p \in Place, NEW v \in Known, NEW t \in Real,
         v = "det" => t # "varies", NEW S, NEW u \in Real, WriteObject(p, v, t, S, u)
  PROVE  Inv'
<1>1. real' = [Touched(S, u) EXCEPT ![p] = t] /\ env' = Set(env, p, v)
  BY DEF WriteObject
<1>2. /\ real' \in [Place -> Real] /\ real'[p] = t
      /\ \A q \in Place \ {p} : env[q] = "det" => real'[q] # "varies"
  BY <1>1, TouchedKeeps
<1>3. env' \in [Place -> Det] /\ NeverUnreachable' /\ DirectFlowsSeen'
  BY <1>1, <1>2, WriteKeeps DEF Known
<1> QED
  BY <1>2, <1>3 DEF Inv, TypeOK, Places

\* An instruction that leaves the abstract state alone.
LEMMA Untouched ==
  ASSUME Inv, Places', env' = env, real' \in [Place -> Real],
         \A q \in Place : env[q] = "det" => real'[q] # "varies"
  PROVE  Inv'
BY DEF Inv, TypeOK, Places, NeverUnreachable, DirectFlowsSeen

\* What is at a place is known, and does not vary if it is det.
LEMMA AtPlace ==
  ASSUME Inv, NEW p \in Place
  PROVE  env[p] \in Known /\ real[p] \in Real /\ (env[p] = "det" => real[p] # "varies")
BY DEF Inv, TypeOK, NeverUnreachable, DirectFlowsSeen, Known

\* A load of what is known.
LEMMA LoadKeeps ==
  ASSUME Inv, NEW v \in Known, NEW t \in Real, v = "det" => t # "varies",
         Load(v, t), tmp' \in Field \cup {Null, Dangling}
  PROVE  Inv'
<1>1. Places'
  BY DEF Load, Places, Inv, TypeOK
<1>2. Result \in Place /\ Write(Result, v, t)
  BY DEF Place, Load
<1> QED
  BY <1>1, <1>2, Written

\* A copy of one place to another.
LEMMA MoveKeeps ==
  ASSUME Inv, Places', NEW d \in Place, NEW s \in Place, Write(d, env[s], real[s])
  PROVE  Inv'
BY AtPlace, Written

\* All loads.
LEMMA LoadsKeep ==
  ASSUME Inv,
         \/ LoadNew \/ LoadUnknown
         \/ \E f \in Field : IGet(f)
         \/ \E r \in Reg : LoadFrom(r) \/ \E s \in Reg : AGet(r, s)
  PROVE  Inv'
<1>0. "det" \in Known /\ "top" \in Known /\ "same" \in Real /\ "varies" \in Real
      /\ tmp \in Field \cup {Null, Dangling}
  BY DEF Known, Det, Real, Inv, TypeOK
<1>1. CASE LoadNew
  BY <1>0, <1>1, LoadKeeps DEF LoadNew
<1>2. CASE LoadUnknown
  BY <1>0, <1>2, LoadKeeps DEF LoadUnknown
<1>3. ASSUME NEW f \in Field, IGet(f)  PROVE Inv'
  <2>1. PICK t \in {real[f], Unseen(env[f], "same", "varies")} : Load(env[f], t)
    BY <1>3 DEF IGet
  <2>2. env[f] \in Known /\ t \in Real /\ (env[f] = "det" => t # "varies")
    BY <1>0, <2>1, AtPlace, UnseenKeeps DEF Place
  <2>3. tmp' \in Field \cup {Null, Dangling}
    BY <1>3 DEF IGet
  <2> QED
    BY <2>1, <2>2, <2>3, LoadKeeps
<1>4. ASSUME NEW r \in Reg, LoadFrom(r)  PROVE Inv'
  BY <1>0, <1>4, LoadKeeps, AtPlace DEF LoadFrom, Place
<1>5. ASSUME NEW r \in Reg, NEW s \in Reg, AGet(r, s)  PROVE Inv'
  <2>1. /\ env[r] \in Known /\ env[s] \in Known
        /\ Mix({real[r], real[s]}) \in Real
    BY AtPlace, MixType DEF Place
  <2>2. Element(env[r], env[s]) = "det" => Mix({real[r], real[s]}) # "varies"
    BY <2>1, ElementKnown, AtPlace, MixKeeps DEF Place
  <2> QED
    BY <1>0, <1>5, <2>1, <2>2, ElementKnown, LoadKeeps DEF AGet
<1> QED
  BY <1>1, <1>2, <1>3, <1>4, <1>5

\* What Proceed leaves of the type.
LEMMA ProceedPlaces ==
  ASSUME Inv, Proceed
  PROVE  Places'
BY DEF Inv, TypeOK, Proceed, Places

\* Constants, moves and results.
LEMMA MovesKeep ==
  ASSUME Inv,
         \E r \in Reg :
           \/ Const(r) \/ Clobber(r) \/ MovePseudo(r) \/ MoveResult(r)
           \/ \E s \in Reg : Move(r, s)
  PROVE  Inv'
<1>0. "det" \in Known /\ "top" \in Known /\ "same" \in Real /\ "varies" \in Real /\ Result \in Place
  BY DEF Known, Det, Real, Place
<1> SUFFICES ASSUME NEW r \in Reg,
                    \/ Const(r) \/ Clobber(r) \/ MovePseudo(r) \/ MoveResult(r)
                    \/ \E s \in Reg : Move(r, s)
             PROVE  Inv'
  OBVIOUS
<1>p. r \in Place /\ Reg \subseteq Place
  BY DEF Place
<1>1. CASE Const(r)
  BY <1>0, <1>p, <1>1, ProceedPlaces, Written DEF Const
<1>2. CASE Clobber(r)
  BY <1>0, <1>p, <1>2, ProceedPlaces, Written DEF Clobber
<1>3. CASE MovePseudo(r)
  <2>1. Places'
    BY <1>3 DEF MovePseudo, Places, Inv, TypeOK
  <2> QED
    BY <1>0, <1>p, <1>3, <2>1, MoveKeeps DEF MovePseudo
<1>4. CASE MoveResult(r)
  <2>1. Places'
    BY <1>4 DEF MoveResult, Places, Inv, TypeOK
  <2> QED
    BY <1>0, <1>p, <1>4, <2>1, MoveKeeps DEF MoveResult
<1>5. ASSUME NEW s \in Reg, Move(r, s)  PROVE Inv'
  BY <1>p, <1>5, ProceedPlaces, MoveKeeps DEF Move
<1> QED
  BY <1>1, <1>2, <1>3, <1>4, <1>5

\* Operations with two operands.
LEMMA BinaryKeeps ==
  ASSUME Inv, NEW r \in Reg, NEW s \in Reg, NEW t \in Reg, Binary(r, s, t)
  PROVE  Inv'
<1>1. r \in Place /\ s \in Place /\ t \in Place
  BY DEF Place
<1>2. /\ Mix({real[s], real[t]}) \in Real
      /\ Operate(env[s], env[t]) \in Known
      /\ Operate(env[s], env[t]) = "det" => Mix({real[s], real[t]}) # "varies"
  BY <1>1, AtPlace, MixType, MixKeeps, OperateKnown
<1> QED
  BY <1>1, <1>2, ProceedPlaces, Written DEF Binary

\* What is put into an array, a field, or where the analysis does not look.
LEMMA PutsKeep ==
  ASSUME Inv, NEW S, NEW r \in Reg,
         \/ PutUnlisted(r, S)
         \/ \E f \in Field : IPut(f, r, S)
         \/ \E s, t \in Reg : APut(r, s, t, S)
  PROVE  Inv'
<1>0. r \in Place /\ Reg \subseteq Place /\ Field \subseteq Place
  BY DEF Place
<1>1. CASE PutUnlisted(r, S)
  <2>1. real' = Touched(S, real[r]) /\ env' = env /\ Places'
    BY <1>1, ProceedPlaces DEF PutUnlisted
  <2> QED
    BY <1>0, <2>1, AtPlace, TouchedKeeps, Untouched
<1>2. ASSUME NEW f \in Field, IPut(f, r, S)  PROVE Inv'
  <2>1. WriteObject(f, env[r], real[r], S, real[r]) /\ Places'
    BY <1>2, ProceedPlaces DEF IPut
  <2> QED
    BY <1>0, <2>1, AtPlace, ObjectWritten
<1>3. ASSUME NEW s \in Reg, NEW t \in Reg, APut(r, s, t, S)  PROVE Inv'
  <2> DEFINE v == Stored(env[r], env[s], env[t])
             w == Mix({real[r], real[s], real[t]})
             u == Mix({real[r], real[t]})
  <2>1. u \in Real /\ w \in Real /\ v \in Known /\ (v = "det" => w # "varies")
    BY <1>0, AtPlace, MixType, MixKeeps, StoredKnown
  <2>2. WriteObject(s, v, w, S, u) /\ Places'
    BY <1>3, ProceedPlaces DEF APut
  <2> HIDE DEF u, v, w
  <2> QED
    BY <1>0, <2>1, <2>2, ObjectWritten
<1> QED
  BY <1>1, <1>2, <1>3

\* Another path joined, another block's entries in the mapping, an assertion
\* that fails.
LEMMA OthersKeep ==
  ASSUME Inv,
         \/ AbortStatic
         \/ \E p \in Place : JoinPath(p)
         \/ \E r \in Reg, f \in Field \cup {Dangling} : OtherBlock(r, f)
  PROVE  Inv'
<1>1. CASE AbortStatic
  BY <1>1 DEF AbortStatic, Inv, TypeOK, NeverUnreachable, DirectFlowsSeen
<1>2. ASSUME NEW p \in Place, JoinPath(p)  PROVE Inv'
  <2>1. Set(env, p, "top") = [env EXCEPT ![p] = "top"]
    BY SetPlace DEF Inv, TypeOK, NeverUnreachable, Det
  <2> QED
    BY <1>2, <2>1, ProceedPlaces
    DEF JoinPath, Inv, TypeOK, NeverUnreachable, DirectFlowsSeen, Places, Det
<1>3. ASSUME NEW r \in Reg, NEW f \in Field \cup {Dangling}, OtherBlock(r, f)  PROVE Inv'
  BY <1>3 DEF OtherBlock, Inv, TypeOK, NeverUnreachable, DirectFlowsSeen
<1> QED
  BY <1>1, <1>2, <1>3

-----------------------------------------------------------------------------
(* Calls.                                                                  *)

\* What a call leaves of the type.
LEMMA CalledPlaces ==
  ASSUME Inv, NEW t, Called(t)
  PROVE  Places'
BY DEF Inv, TypeOK, Called, Places

\* A callee's summary is not bottom, and det only if its result does not vary.
LEMMA SummaryKnown ==
  ASSUME NEW c \in Callee
  PROVE  /\ c.summary \in Known /\ c.real \in Real /\ c.effect \in Real
         /\ c.summary = "det" => c.real # "varies"
BY CalleeAssumption DEF Known, Real

\* Static methods without arguments.
LEMMA StaticCallsKeep ==
  ASSUME Inv, NEW c \in Callee, NEW S, InvokeStatic(c, S) \/ InvokeStaticInit(c, S)
  PROVE  Inv'
<1>0. Result \in Place
  BY DEF Place
<1>1. CASE InvokeStatic(c, S)
  BY <1>0, <1>1, SummaryKnown, CalledPlaces, ObjectWritten DEF InvokeStatic
<1>2. CASE InvokeStaticInit(c, S)
  <2> DEFINE f == Touched(S, c.effect)
  <2>1. /\ f \in [Place -> Real]
        /\ \A q \in Place : env[q] = "det" => f[q] # "varies"
    BY SummaryKnown, TouchedKeeps
  <2>2. Places' /\ env' = env /\ real' = Unwritten(f, c.real)
    BY <1>2, CalledPlaces DEF InvokeStaticInit
  <2> HIDE DEF f
  <2>3. /\ real' \in [Place -> Real]
        /\ \A q \in Place : env[q] = "det" => real'[q] # "varies"
    BY <2>1, <2>2, SummaryKnown, UnwrittenKeeps
  <2> QED
    BY <2>2, <2>3, Untouched
<1> QED
  BY <1>1, <1>2

\* A call that changes its object, or the field p, to what varies only where
\* the analysis sees it, and leaves the result register.
LEMMA ObjectKeeps ==
  ASSUME Inv, NEW p \in Place, p # Result, NEW v \in Known, NEW w \in Real,
         v = "det" => w # "varies", NEW S, NEW u \in Real, NEW t \in Real,
         Called(t), env' = Set(env, p, v),
         real' = Unwritten([Touched(S, u) EXCEPT ![p] = w], t)
  PROVE  Inv'
<1> DEFINE f == [Touched(S, u) EXCEPT ![p] = w]
<1>1. /\ f \in [Place -> Real] /\ f[p] = w
      /\ \A q \in Place \ {p} : env[q] = "det" => f[q] # "varies"
  BY TouchedKeeps
<1>2. real' = Unwritten(f, t)
  OBVIOUS
<1> HIDE DEF f
<1>3. /\ real' \in [Place -> Real] /\ real'[p] = w
      /\ \A q \in Place \ {p} : env[q] = "det" => real'[q] # "varies"
  <2>1. /\ Unwritten(f, t) \in [Place -> Real]
        /\ \A q \in Place \ {Result} : Unwritten(f, t)[q] = f[q]
        /\ env[Result] = "det" => Unwritten(f, t)[Result] # "varies"
    BY <1>1, UnwrittenKeeps
  <2> QED
    BY <1>1, <1>2, <2>1
<1>4. env' \in [Place -> Det] /\ NeverUnreachable' /\ DirectFlowsSeen'
  BY <1>3, WriteKeeps DEF Known
<1>5. Places'
  BY CalledPlaces
<1> QED
  BY <1>3, <1>4, <1>5 DEF Inv, TypeOK, Places

\* Calls that reset their object.
LEMMA ResetKeeps ==
  ASSUME Inv, NEW o \in Reg, NEW A \in SUBSET Reg, NEW S, ResetCall(o, A, S)
  PROVE  Inv'
<1> DEFINE R == {real[r] : r \in A}
           E == {env[r] : r \in A}
<1>1. R \in SUBSET Real /\ E \in SUBSET Det
  BY DEF Inv, TypeOK, Place
<1>2. Restored(env, A) \in Known
  BY DEF Restored, Known, Det
<1>3. ASSUME Restored(env, A) = "det"  PROVE "varies" \notin R
  <2> SUFFICES ASSUME NEW r \in A  PROVE real[r] # "varies"
    OBVIOUS
  <2>1. Join(E) = "det" /\ env[r] \in E
    BY <1>3 DEF Restored
  <2> HIDE DEF E
  <2>2. env[r] \in {"bottom", "det"} /\ r \in Place
    BY <1>1, <2>1, JoinIsDet DEF Place
  <2> QED
    BY <2>2, AtPlace DEF Known
<1>4. /\ Called(Mix(R)) /\ env' = Set(env, o, Restored(env, A))
      /\ real' = Unwritten([Touched(S, Mix(R)) EXCEPT ![o] = Mix(R)], Mix(R))
  BY DEF ResetCall
<1>5. o \in Place /\ o # Result
  BY PlaceAssumption DEF Place
<1> HIDE DEF R
<1>6. Mix(R) \in Real /\ (Restored(env, A) = "det" => Mix(R) # "varies")
  BY <1>1, <1>3, MixType, MixKeeps
<1> QED
  BY <1>2, <1>4, <1>5, <1>6, ObjectKeeps

\* Calls in general, and of methods that change their object.
LEMMA CallsKeep ==
  ASSUME Inv, NEW o \in Reg, NEW A \in SUBSET Reg, NEW c \in Callee, NEW S,
         Invoke(o, A, c, S) \/ Modify(o, A, c, S)
  PROVE  Inv'
<1> DEFINE R == {o} \cup A
           v == Outcome(env, o, A, c)
           t == Truth(R, c)
           u == Effect(R, c)
           w == Unseen(v, t, c.effect)
<1>1. v \in Known /\ t \in Real /\ (v = "det" => t # "varies") /\ u \in Real
  BY OutcomeKnown, TruthType, EffectType
<1>2. Result \in Place /\ o \in Place /\ o # Result
  BY PlaceAssumption DEF Place
<1>3. CASE Invoke(o, A, c, S)
  <2>1. WriteObject(Result, v, t, S, u) /\ Places'
    BY <1>3, CalledPlaces DEF Invoke
  <2> HIDE DEF v, t, u
  <2> QED
    BY <1>1, <1>2, <2>1, ObjectWritten
<1>4. CASE Modify(o, A, c, S)
  <2>1. /\ Called(t) /\ env' = Set(env, o, v)
        /\ real' = Unwritten([Touched(S, u) EXCEPT ![o] = w], t)
    BY <1>4 DEF Modify
  <2> HIDE DEF v, t, u
  <2>2. w \in Real /\ (v = "det" => w # "varies")
    BY <1>1, SummaryKnown, UnseenKeeps
  <2> HIDE DEF w
  <2> QED
    BY <1>1, <1>2, <2>1, <2>2, ObjectKeeps
<1> QED
  BY <1>3, <1>4

\* Calls of a method named "set", of which the summary alone is seen.
LEMMA SetCallKeeps ==
  ASSUME Inv, NEW o \in Reg, NEW A \in SUBSET Reg, NEW c \in Callee, NEW S,
         SetCall(o, A, c, S)
  PROVE  Inv'
<1> DEFINE R == {o} \cup A
           t == Truth(R, c)
           u == Effect(R, c)
           p == IF mapping[o] = Null THEN o ELSE mapping[o]
           T == S \cup {o}
           w == Unseen(c.summary, "same", Mix({real[p], t, u}))
<1>1. t \in Real /\ u \in Real
  BY TruthType, EffectType
<1>2. p \in Reg \cup Field \cup {Dangling}
  BY DEF Inv, TypeOK
<1>3. /\ Called(t)
      /\ IF p = Dangling
         THEN env' = env /\ real' = Unwritten(Touched(T, u), t)
         ELSE /\ env' = Set(env, p, c.summary)
              /\ real' = Unwritten([Touched(T, u) EXCEPT ![p] = w], t)
  BY DEF SetCall
<1> HIDE DEF t, u, p, T
<1>4. CASE p = Dangling
  <2> DEFINE f == Touched(T, u)
  <2>1. /\ f \in [Place -> Real]
        /\ \A q \in Place : env[q] = "det" => f[q] # "varies"
    BY <1>1, TouchedKeeps
  <2>2. real' = Unwritten(f, t) /\ env' = env /\ Places'
    BY <1>3, <1>4, CalledPlaces
  <2> HIDE DEF f
  <2>3. /\ real' \in [Place -> Real]
        /\ \A q \in Place : env[q] = "det" => real'[q] # "varies"
    BY <1>1, <2>1, <2>2, UnwrittenKeeps
  <2> QED
    BY <2>2, <2>3, Untouched
<1>5. CASE p # Dangling
  <2>1. p \in Place /\ p # Result
    BY <1>2, <1>5, PlaceAssumption DEF Place
  <2>2. Mix({real[p], t, u}) \in Real /\ "same" \in Real
    BY <1>1, <2>1, AtPlace, MixType DEF Real
  <2>3. w \in Real /\ (c.summary = "det" => w # "varies")
    BY <2>2, UnseenKeeps
  <2> HIDE DEF w
  <2> QED
    BY <1>1, <1>3, <1>5, <2>1, <2>3, SummaryKnown, ObjectKeeps
<1> QED
  BY <1>4, <1>5

-----------------------------------------------------------------------------
(* The theorems.                                                           *)

\* A method starts with det parameters and nothing known of the rest.
LEMMA InitInv == Init => Inv
BY PlaceAssumption DEF Init, Inv, TypeOK, NeverUnreachable, DirectFlowsSeen, Det, Real

\* Every instruction keeps the invariant.
LEMMA NextInv == Inv /\ [Next]_vars => Inv'
<1> SUFFICES ASSUME Inv, [Next]_vars  PROVE Inv'
  OBVIOUS
<1>1. CASE UNCHANGED vars
  BY <1>1 DEF vars, Inv, TypeOK, NeverUnreachable, DirectFlowsSeen
<1>2. CASE LoadNew \/ LoadUnknown
  BY <1>2, LoadsKeep
<1>3. CASE AbortStatic
  BY <1>3, OthersKeep
<1>4. ASSUME NEW p \in Place, JoinPath(p)  PROVE Inv'
  BY <1>4, OthersKeep
<1>5. ASSUME NEW f \in Field, IGet(f)  PROVE Inv'
  BY <1>5, LoadsKeep
<1>6. ASSUME NEW S \in Alias, ObjectNext(S)  PROVE Inv'
  <2>1. ASSUME NEW c \in Callee, InvokeStatic(c, S) \/ InvokeStaticInit(c, S)  PROVE Inv'
    BY <2>1, StaticCallsKeep
  <2>2. ASSUME NEW r \in Reg,
               \/ PutUnlisted(r, S)
               \/ \E f \in Field : IPut(f, r, S)
               \/ \E s, t \in Reg : APut(r, s, t, S)
        PROVE  Inv'
    BY <2>2, PutsKeep
  <2>3. ASSUME NEW r \in Reg, NEW A \in SUBSET Reg, CallNext(r, A, S)  PROVE Inv'
    BY <2>3, ResetKeeps, CallsKeep, SetCallKeeps DEF CallNext
  <2> QED
    BY <1>6, <2>1, <2>2, <2>3 DEF ObjectNext
<1>7. ASSUME NEW r \in Reg,
             \/ Const(r) \/ Clobber(r) \/ MovePseudo(r) \/ MoveResult(r)
             \/ \E s \in Reg : Move(r, s)
      PROVE  Inv'
  BY <1>7, MovesKeep
<1>8. ASSUME NEW r \in Reg, LoadFrom(r) \/ \E s \in Reg : AGet(r, s)  PROVE Inv'
  BY <1>8, LoadsKeep
<1>9. ASSUME NEW r \in Reg, NEW f \in Field \cup {Dangling}, OtherBlock(r, f)  PROVE Inv'
  BY <1>9, OthersKeep
<1>10. ASSUME NEW r \in Reg, NEW s \in Reg, NEW t \in Reg, Binary(r, s, t)  PROVE Inv'
  BY <1>10, BinaryKeeps
<1> QED
  BY <1>1, <1>2, <1>3, <1>4, <1>5, <1>6, <1>7, <1>8, <1>9, <1>10 DEF Next

\* For any registers, fields, callees and aliases: as far as instructions and
\* calls hand values on directly, what the analysis calls det is made of nothing
\* that varies between two executions of the same path.  Not so of what goes by
\* an object, of which DirectFlowsSeen says what is excepted.
THEOREM TracksDirectFlows == Spec => []DirectFlowsSeen
BY InitInv, NextInv, PTL DEF Spec, Inv

\* No instruction on a path that is executed makes the state unreachable, so
\* operation_with_two_domains never runs off its end without a return.
THEOREM NeverDead == Spec => []NeverUnreachable
BY InitInv, NextInv, PTL DEF Spec, Inv

\* The environment keeps its type: no instruction writes a place that is not
\* one, or a value that is none, whatever name a method has.
THEOREM TypeCorrect == Spec => []TypeOK
BY InitInv, NextInv, PTL DEF Spec, Inv

-----------------------------------------------------------------------------
(* Monotony.                                                               *)

\* The join of values some of which were raised to top is no less.
LEMMA JoinMonotone ==
  ASSUME NEW F, NEW G,
         \A v \in F : v \in G \/ "top" \in G,
         \A v \in G : v \in F \/ v = "top"
  PROVE  Leq(Join(F), Join(G))
<1>1. CASE "top" \in G
  <2>1. Join(G) = "top"
    BY <1>1 DEF Join
  <2> QED
    BY <2>1 DEF Leq
<1>2. CASE "top" \notin G
  <2>1. F = G
    BY <1>2
  <2> QED
    BY <2>1 DEF Leq
<1> QED
  BY <1>1, <1>2

\* A store joins three values.
LEMMA StoredMonotone ==
  ASSUME NEW x \in Known, NEW a \in Known, NEW i \in Known,
         NEW y \in {x, "top"}, NEW b \in {a, "top"}, NEW j \in {i, "top"}
  PROVE  Leq(Stored(x, a, i), Stored(y, b, j))
<1>1. CASE a = "det" /\ b = "det"
  <2>1. Stored(x, a, i) = Join({i, x}) /\ Stored(y, b, j) = Join({j, y})
    BY <1>1 DEF Stored
  <2>2. CASE y = x /\ j = i
    BY <2>1, <2>2 DEF Leq
  <2>3. CASE ~(y = x /\ j = i)
    <3>1. Join({j, y}) = "top"
      BY <2>3 DEF Join
    <3> QED
      BY <2>1, <3>1 DEF Leq
  <2> QED
    BY <2>2, <2>3
<1>2. CASE a # "det" /\ b # "det"
  BY <1>2 DEF Stored, Leq
<1>3. CASE a = "det" /\ b = "top"
  <2>1. Stored(y, b, j) = "top"
    BY <1>3 DEF Stored
  <2> QED
    BY <2>1 DEF Leq
<1> QED
  BY <1>1, <1>2, <1>3

\* Raising a register to top lowers no result of an operation.
LEMMA InvMonotone == Inv => TransfersMonotone
<1> SUFFICES ASSUME Inv, NEW p \in Reg, NEW r \in Reg, NEW A \in SUBSET Reg
             PROVE LET up == Set(env, p, "top") IN
               /\ Leq(Restored(env, A), Restored(up, A))
               /\ \A c \in Callee : Leq(Outcome(env, r, A, c), Outcome(up, r, A, c))
               /\ \A s \in A : /\ Leq(Operate(env[r], env[s]), Operate(up[r], up[s]))
                               /\ Leq(Element(env[r], env[s]), Element(up[r], up[s]))
                               /\ \A x \in A : Leq(Stored(env[x], env[r], env[s]),
                                                   Stored(up[x], up[r], up[s]))
  BY DEF TransfersMonotone
<1> DEFINE up == Set(env, p, "top")
<1>1. up = [env EXCEPT ![p] = "top"] /\ env \in [Place -> Det]
  BY SetPlace DEF Inv, TypeOK, NeverUnreachable, Det, Place
<1>2. \A q \in Reg : env[q] \in Known /\ up[q] \in {env[q], "top"}
  BY <1>1, AtPlace DEF Place
<1> HIDE DEF up
<1>3. Leq(Restored(env, A), Restored(up, A))
  <2> DEFINE E == {env[q] : q \in A}
             U == {up[q] : q \in A}
  <2>1. Leq(Join(E), Join(U))
    <3>1. \A v \in E : v \in U \/ "top" \in U
      BY <1>2
    <3>2. \A v \in U : v \in E \/ v = "top"
      BY <1>2
    <3> QED
      BY <3>1, <3>2, JoinMonotone
  <2>2. Join(U) = "det" => Join(E) \in {"bottom", "det"}
    BY <2>1 DEF Leq
  <2>3. A # {} => Join(E) # "bottom"
    <3> SUFFICES ASSUME NEW q \in A  PROVE Join(E) # "bottom"
      OBVIOUS
    <3>1. env[q] \in E /\ env[q] # "bottom" /\ E \in SUBSET Det
      BY <1>2 DEF Known
    <3> QED
      BY <3>1, JoinNotBottom
  <2>4. A = {} => E = U
    OBVIOUS
  <2> QED
    BY <2>2, <2>3, <2>4 DEF Restored, Leq
<1>4. ASSUME NEW c \in Callee  PROVE Leq(Outcome(env, r, A, c), Outcome(up, r, A, c))
  <2> DEFINE E == {env[q] : q \in {r} \cup A}
             U == {up[q] : q \in {r} \cup A}
  <2>1. Leq(Join(E), Join(U))
    <3>1. \A v \in E : v \in U \/ "top" \in U
      BY <1>2
    <3>2. \A v \in U : v \in E \/ v = "top"
      BY <1>2
    <3> QED
      BY <3>1, <3>2, JoinMonotone
  <2>2. Join(E) # "bottom"
    <3>1. env[r] \in E /\ env[r] # "bottom" /\ E \in SUBSET Det
      BY <1>2 DEF Known
    <3> QED
      BY <3>1, JoinNotBottom
  <2>3. /\ Outcome(env, r, A, c) = Operate(Join(E), c.summary)
        /\ Outcome(up, r, A, c) = IF Join(U) = "bottom" THEN "bottom"
                                  ELSE Operate(Join(U), c.summary)
    BY <2>2 DEF Outcome, Receiver
  <2> HIDE DEF E, U
  <2> QED
    BY <2>1, <2>2, <2>3 DEF Leq, Operate
<1>5. ASSUME NEW s \in A
      PROVE  /\ Leq(Operate(env[r], env[s]), Operate(up[r], up[s]))
             /\ Leq(Element(env[r], env[s]), Element(up[r], up[s]))
  BY <1>2 DEF Leq, Operate, Element, Known
<1>6. ASSUME NEW s \in A, NEW x \in A
      PROVE  Leq(Stored(env[x], env[r], env[s]), Stored(up[x], up[r], up[s]))
  BY <1>2, StoredMonotone
<1> QED
  BY <1>3, <1>4, <1>5, <1>6 DEF up

\* "Node transformers are required to be monotonic": the transfer functions
\* are, in every state a method without exceptions can reach.
THEOREM Monotone == Spec => []TransfersMonotone
BY InitInv, NextInv, InvMonotone, PTL DEF Spec

-----------------------------------------------------------------------------
(* The null-input analysis.                                                *)

Path(b, r) == \E p \in Seq(Block) : Carries(p, r) /\ p[Len(p)] = b

\* The states that are computed, and the graph they belong to.
ShapeInv ==
  /\ exit \in [Block -> SUBSET (Register \cup {Live})]
  /\ WellFormed(method)

\* Each register in a state was brought there by a path.
CarriedInv == \A b \in Block : \A r \in exit[b] \ {Live} : Path(b, r)

\* The inductive invariant.
NullInv == ShapeInv /\ CarriedInv /\ SatIsChecked

\* A block that tests r is a path of its own.
LEMMA TestCarries ==
  ASSUME NEW b \in Block, Test(b)
  PROVE  Path(b, method.reg[b])
<1> DEFINE p == <<b>>
<1>1. p \in Seq(Block) /\ Len(p) = 1 /\ p[1] = b
  OBVIOUS
<1>2. Carries(p, method.reg[b])
  BY <1>1 DEF Carries
<1> QED
  BY <1>1, <1>2 DEF Path

\* A path goes on along an edge into a block that does not remove r.
LEMMA PathExtends ==
  ASSUME NEW a \in Block, NEW b \in Block, NEW r, Path(a, r),
         NEW e \in method.edges, e.from = a, e.to = b,
         Transparent(b) \/ (Check(b) /\ r \notin Removed(b))
  PROVE  Path(b, r)
<1>1. PICK p \in Seq(Block) : Carries(p, r) /\ p[Len(p)] = a
  BY DEF Path
<1> DEFINE q == Append(p, b)
<1>2. Len(p) \in Nat /\ Len(p) > 0
  BY <1>1 DEF Carries
<1>3. q \in Seq(Block) /\ Len(q) = Len(p) + 1 /\ q[Len(q)] = b
  BY <1>2
<1>4. \A i \in 1..Len(p) : q[i] = p[i]
  BY <1>2
<1>5. ASSUME NEW i \in 2..Len(q)
      PROVE  /\ \E x \in method.edges : x.from = q[i - 1] /\ x.to = q[i]
             /\ Transparent(q[i]) \/ (Check(q[i]) /\ r \notin Removed(q[i]))
  <2>1. CASE i = Len(q)
    <3>1. q[i] = b /\ q[i - 1] = a
      BY <1>1, <1>2, <1>3, <1>4, <2>1
    <3> QED
      BY <3>1
  <2>2. CASE i # Len(q)
    <3>1. i \in 2..Len(p) /\ i - 1 \in 1..Len(p)
      BY <1>2, <1>3, <2>2
    <3>2. q[i] = p[i] /\ q[i - 1] = p[i - 1]
      BY <1>4, <3>1
    <3> QED
      BY <1>1, <3>1, <3>2 DEF Carries
  <2> QED
    BY <2>1, <2>2
<1>6. Test(q[1]) /\ method.reg[q[1]] = r
  BY <1>1, <1>2, <1>4 DEF Carries
<1>7. Carries(q, r)
  BY <1>2, <1>3, <1>5, <1>6 DEF Carries
<1> QED
  BY <1>3, <1>7 DEF Path

\* What analyze_node lets through was in the exit state of a predecessor or is
\* what the block itself compares.
LEMMA NodeCarries ==
  ASSUME NullInv, NEW b \in Block, NEW r \in AnalyzeNode(b, EntryState(b)) \ {Live}
  PROVE  Path(b, r)
<1>1. CASE Test(b) /\ r = method.reg[b]
  BY <1>1, TestCarries
<1>2. CASE ~(Test(b) /\ r = method.reg[b])
  <2>1. r \in EntryState(b) /\ (Transparent(b) \/ (Check(b) /\ r \notin Removed(b)))
    BY <1>2 DEF AnalyzeNode
  <2>2. PICK e \in method.edges : e.to = b /\ r \in exit[e.from]
    BY <2>1 DEF EntryState, EdgesInto
  <2>3. e.from \in Block
    BY DEF NullInv, ShapeInv, WellFormed
  <2>4. Path(e.from, r)
    BY <2>2, <2>3 DEF NullInv, CarriedInv
  <2> QED
    BY <2>1, <2>2, <2>3, <2>4, PathExtends
<1> QED
  BY <1>1, <1>2

\* Paths are a matter of the graph.
LEMMA CarriesFrame ==
  ASSUME UNCHANGED method, NEW p, NEW r, Carries(p, r)
  PROVE  Carries(p, r)'
<1>1. ASSUME NEW b  PROVE Test(b)' = Test(b)
  BY DEF Test, ParameterTest, First, Last
<1>2. ASSUME NEW b  PROVE Check(b)' = Check(b)
  BY <1>1 DEF Check, First
<1>3. ASSUME NEW b  PROVE Transparent(b)' = Transparent(b)
  BY DEF Transparent, ReturnOfNull, First, Last
<1>4. ASSUME NEW b  PROVE Removed(b)' = Removed(b)
  BY DEF Removed, EdgesInto, KeepsRegister, Last
<1> QED
  BY <1>1, <1>2, <1>3, <1>4 DEF Carries

LEMMA PathFrame ==
  ASSUME UNCHANGED method, NEW b, NEW r, Path(b, r)
  PROVE  Path(b, r)'
BY CarriesFrame DEF Path

\* What SAT promises.
AllCarried ==
  \A r \in method.params \ {Live} :
     \E p \in Seq(Block) : Carries(p, r) /\ p[Len(p)] = method.exit

LEMMA AllCarriedFrame ==
  ASSUME UNCHANGED method, AllCarried
  PROVE  AllCarried'
BY CarriesFrame DEF AllCarried

LEMMA NodeType ==
  ASSUME ShapeInv, NEW b \in Block
  PROVE  AnalyzeNode(b, EntryState(b)) \subseteq Register \cup {Live}
<1>1. \A e \in EdgesInto(b) : e.from \in Block
  BY DEF ShapeInv, WellFormed, EdgesInto
<1>2. EntryState(b) \subseteq Register \cup {Live}
  BY <1>1 DEF ShapeInv, EntryState
<1>3. Test(b) => method.reg[b] \in Register
  BY DEF ShapeInv, WellFormed, Test, ParameterTest, NullTests, First, Last
<1> QED
  BY <1>2, <1>3 DEF AnalyzeNode

LEMMA NullInitInv == NullInit => NullInv
BY DEF NullInit, NullInv, ShapeInv, CarriedInv, SatIsChecked

LEMMA NullNextInv ==
  ASSUME NullInv, [NullNext]_nullVars
  PROVE  NullInv'
<1> USE DEF NullInv
<1>0. UNCHANGED method
  BY DEF NullNext, Analyze, Abort, GetNullInputResult, nullVars
<1>1. ASSUME NEW b \in Block, Analyze(b)  PROVE NullInv'
  <2>1. exit' = [exit EXCEPT ![b] = AnalyzeNode(b, EntryState(b))]
    BY <1>1 DEF Analyze
  <2>2. ShapeInv'
    BY <1>0, <2>1, NodeType DEF ShapeInv, WellFormed
  <2>3. ASSUME NEW c \in Block, NEW r \in exit'[c] \ {Live}  PROVE Path(c, r)'
    <3>1. CASE c = b
      <4>1. r \in AnalyzeNode(b, EntryState(b)) \ {Live}
        BY <2>1, <2>3, <3>1 DEF ShapeInv
      <4> QED
        BY <1>0, <3>1, <4>1, NodeCarries, PathFrame
    <3>2. CASE c # b
      <4>1. r \in exit[c] \ {Live}
        BY <2>1, <2>3, <3>2 DEF ShapeInv
      <4> QED
        BY <1>0, <4>1, PathFrame DEF CarriedInv
    <3> QED
      BY <3>1, <3>2
  <2>4. SatIsChecked'
    BY <1>1 DEF Analyze, SatIsChecked
  <2> QED
    BY <2>2, <2>3, <2>4 DEF CarriedInv
<1>2. ASSUME UNCHANGED exit  PROVE (ShapeInv /\ CarriedInv)'
  <2>1. ShapeInv'
    BY <1>0, <1>2 DEF ShapeInv, WellFormed
  <2>2. CarriedInv'
    BY <1>0, <1>2, PathFrame DEF CarriedInv
  <2> QED
    BY <2>1, <2>2
<1>3. ASSUME NEW b \in Block, Abort(b)  PROVE NullInv'
  BY <1>2, <1>3 DEF Abort, SatIsChecked
<1>4. ASSUME GetNullInputResult  PROVE NullInv'
  <2>1. UNCHANGED exit
    BY <1>4 DEF GetNullInputResult
  <2>2. ASSUME result' = "SAT", NEW r \in method.params \ {Live}
        PROVE  Path(method.exit, r)
    <3>1. r \in exit[method.exit]
      BY <1>4, <2>2 DEF GetNullInputResult
    <3>2. method.exit \in Block
      BY DEF ShapeInv, WellFormed
    <3> QED
      BY <3>1, <3>2 DEF CarriedInv
  <2>3. result' = "SAT" => AllCarried
    BY <2>2 DEF AllCarried, Path
  <2>4. SatIsChecked'
    BY <1>0, <2>3, AllCarriedFrame DEF SatIsChecked, AllCarried
  <2> QED
    BY <1>2, <2>1, <2>4
<1>5. CASE UNCHANGED nullVars
  <2>1. SatIsChecked'
    BY <1>0, <1>5, AllCarriedFrame DEF SatIsChecked, AllCarried, nullVars
  <2> QED
    BY <1>2, <1>5, <2>1 DEF nullVars
<1> QED
  BY <1>1, <1>3, <1>4, <1>5 DEF NullNext

\* A method that the analysis calls SAT compares each parameter with null on a
\* path to its exit on which nothing else is done, whatever its graph is like.
\* (Which branch of the comparison the path takes is another matter: see
\* OnlyNullBranches.)
THEOREM SatCorrect == NullSpec => []SatIsChecked
BY NullInitInv, NullNextInv, PTL DEF NullSpec, NullInv
-----------------------------------------------------------------------------
(***************************************************************************)
(* The order in which the blocks are analysed does not matter.             *)
(***************************************************************************)
JoinedFrom(states, b) == UNION {states[e.from] : e \in EdgesInto(b)}

\* States of all blocks that their analysis does not add to.
Solution(states) ==
  \A b \in Block : AnalyzeNode(b, JoinedFrom(states, b)) \subseteq states[b]

Solutions == {states \in [Block -> SUBSET (Register \cup {Live})] : Solution(states)}

BelowSolutions ==
  \A states \in Solutions : \A b \in Block : exit[b] \subseteq states[b]

\* A verdict is given on the least solution.
LeastInv ==
  /\ BelowSolutions
  /\ result \in {"SAT", "UNSAT"} => exit \in Solutions

LEMMA NodeMonotone ==
  ASSUME NEW b, NEW s, NEW t, s \subseteq t
  PROVE  AnalyzeNode(b, s) \subseteq AnalyzeNode(b, t)
BY DEF AnalyzeNode

LEMMA SolutionsFrame == ASSUME UNCHANGED method PROVE Solutions' = Solutions
BY DEF Solutions, Solution, JoinedFrom, AnalyzeNode, Test, ParameterTest, Check, Transparent,
       ReturnOfNull, Removed, EdgesInto, KeepsRegister, First, Last

LEMMA LeastNext ==
  ASSUME ShapeInv, LeastInv, [NullNext]_nullVars
  PROVE  LeastInv'
<1>0. Solutions' = Solutions
  BY SolutionsFrame DEF NullNext, Analyze, Abort, GetNullInputResult, nullVars
<1>1. ASSUME NEW b \in Block, Analyze(b)  PROVE LeastInv'
  <2>1. result' = "none" /\ exit' = [exit EXCEPT ![b] = AnalyzeNode(b, EntryState(b))]
    BY <1>1 DEF Analyze
  <2>2. ASSUME NEW states \in Solutions  PROVE AnalyzeNode(b, EntryState(b)) \subseteq states[b]
    <3>1. \A e \in EdgesInto(b) : e.from \in Block
      BY DEF ShapeInv, WellFormed, EdgesInto
    <3>2. EntryState(b) \subseteq JoinedFrom(states, b)
      BY <2>2, <3>1 DEF EntryState, JoinedFrom, LeastInv, BelowSolutions
    <3>3. AnalyzeNode(b, JoinedFrom(states, b)) \subseteq states[b]
      BY <2>2 DEF Solutions, Solution
    <3> QED
      BY <3>2, <3>3, NodeMonotone
  <2>3. ASSUME NEW states \in Solutions, NEW c \in Block  PROVE exit'[c] \subseteq states[c]
    <3>1. c = b => exit'[c] = AnalyzeNode(b, EntryState(b))
      BY <2>1 DEF ShapeInv
    <3>2. c # b => exit'[c] = exit[c]
      BY <2>1 DEF ShapeInv
    <3> QED
      BY <2>2, <3>1, <3>2 DEF LeastInv, BelowSolutions
  <2> QED
    BY <1>0, <2>1, <2>3 DEF LeastInv, BelowSolutions
<1>2. ASSUME NEW b \in Block, Abort(b)  PROVE LeastInv'
  BY <1>0, <1>2 DEF Abort, LeastInv, BelowSolutions
<1>3. ASSUME GetNullInputResult  PROVE LeastInv'
  <2>1. \A b \in Block : exit[b] = AnalyzeNode(b, JoinedFrom(exit, b))
    BY <1>3 DEF GetNullInputResult, UpToDate, EntryState, JoinedFrom
  <2>2. exit \in Solutions
    BY <2>1 DEF Solutions, Solution, ShapeInv
  <2> QED
    BY <1>0, <1>3, <2>2 DEF GetNullInputResult, LeastInv, BelowSolutions
<1>4. CASE UNCHANGED nullVars
  BY <1>0, <1>4 DEF nullVars, LeastInv, BelowSolutions
<1> QED
  BY <1>1, <1>2, <1>3, <1>4 DEF NullNext

LEMMA LeastInit == NullInit => LeastInv
BY DEF NullInit, LeastInv, BelowSolutions

\* A verdict comes from the least solution of the equations of the blocks, in
\* whatever order they were analysed: the schedule of the iterator is no part of it.
THEOREM VerdictOfLeastSolution == NullSpec => []LeastInv
<1>1. NullInv => ShapeInv
  BY DEF NullInv
<1> QED
  BY <1>1, NullInitInv, NullNextInv, LeastInit, LeastNext, PTL DEF NullSpec
=============================================================================
