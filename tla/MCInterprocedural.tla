-------------------------- MODULE MCInterprocedural --------------------------
(***************************************************************************)
(* Programs for the analyzer: call graphs, and for each method what it     *)
(* makes of the values its calls return.                                   *)
(***************************************************************************)
EXTENDS Interprocedural

W == INSTANCE WeakPartialOrdering

\* The join of values that are not bottom.
Joined(S) == IF Cardinality(S) = 1 THEN CHOOSE x \in S : TRUE ELSE "top"

\* operation_with_two_domains of the values of the calls but the last and the
\* value of the last; one call of a method without arguments counts alone.
Operate(k, v) ==
  IF k = 1 THEN v[1]
  ELSE LET a == Joined({v[j] : j \in 1 .. k - 1}) IN IF a = "det" THEN v[k] ELSE a

\* What a method with k calls may do with their values.
Transfers(k) ==
  IF k = 0 THEN {[v \in {<<>>} |-> x] : x \in {"det", "notdet", "bottom"}}
  ELSE {[v \in [1 .. k -> Returned] |-> Operate(k, v)],
        [v \in [1 .. k -> Returned] |-> Joined({v[j] : j \in 1 .. k})],
        [v \in [1 .. k -> Returned] |-> "bottom"]}

RECURSIVE Reach(_, _)
Reach(rel, S) ==
  LET more == S \cup {e[2] : e \in {f \in rel : f[1] \in S}}
  IN  IF more = S THEN S ELSE Reach(rel, more)

\* The elements of a loop: those between its head and its exit.
Loop(wpo, x) ==
  LET rel == {<<i, j>> \in (0 .. wpo.size - 1) \X (0 .. wpo.size - 1) : j \in wpo.succs[i]}
  IN  {i \in Reach(rel, {x + 1}) : x \in Reach(rel, {i})}

Transformers(calls) ==
  {f \in [DOMAIN calls -> UNION {Transfers(Len(calls[m])) : m \in DOMAIN calls}] :
     \A m \in DOMAIN calls : f[m] \in Transfers(Len(calls[m]))}

\* The programs with these calls; wpo is bound, for TLC to construct it once.
WithTransfers(calls, label) ==
  {[callees |-> calls, label |-> label, transfer |-> t, wpo |-> wpo,
    within |-> [x \in {i \in 0 .. wpo.size - 1 : wpo.type[i] = "Exit"} |-> Loop(wpo, x)]] :
     t \in Transformers(calls), wpo \in {W!Build(Reversed(calls), GhostExit)}}

NoLabels(calls) == [m \in DOMAIN calls |-> [k \in DOMAIN calls[m] |-> "none"]]

\* By method, the callees of each of its calls: a chain, a chain with a call
\* past the next; a call with two possible callees; a method that calls itself;
\* two that call each other; a recursion that never ends beside one that may;
\* three in a ring.
Unlabelled == {<< <<{2}>>, <<{3}>>, <<>> >>,
               << <<>>, <<{1}>>, <<{1}, {2}>> >>,
               << <<{2, 3}, {3}>>, <<>>, <<{}>> >>,
               << <<{2}, {1}>>, <<>>, <<{1}>> >>,
               << <<>>, <<{1}, {3}>>, <<{2}>> >>,
               << <<{1}>>, <<{1, 3}, {2}>>, <<>> >>,
               << <<>>, <<{4}>>, <<{2}>>, <<{1}, {3}>> >>}

\* The program with these calls where the first one of m has label x.
Labelled(calls, m, x) == <<calls, [NoLabels(calls) EXCEPT ![m][1] = x]>>

\* A ring whose first call goes to nobody, or has a label, or the second does;
\* recursions where what is known of the last method, by its label, travels
\* against the order of analysis: one method further in each iteration; a call
\* with one callee that is known and one that is not yet.
Shapes == {<<c, NoLabels(c)>> : c \in Unlabelled}
          \cup {Labelled(<< <<{}>>, <<{3}>>, <<{1}, {2}>> >>, m, x) :
                  m \in {1, 3}, x \in {"none", "det", "top"}}
          \cup {Labelled(<< <<>>, <<{3}, {1}>>, <<{}, {2}>> >>, 3, x) : x \in {"det", "notdet"}}
          \cup {Labelled(<< <<>>, <<{1, 3}>>, <<{}, {2}>> >>, 3, "notdet")}
          \cup {Labelled(<< <<>>, <<{3}, {1}>>, <<{4}, {2}>>, <<{}, {3}>> >>, 4, "notdet")}

All == UNION {WithTransfers(s[1], s[2]) : s \in Shapes}
=============================================================================
