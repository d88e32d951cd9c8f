---------------------------- MODULE MCNullInput ----------------------------
(***************************************************************************)
(* Instances of NullInput for TLC: every method of four blocks and two     *)
(* parameters that loads them and tests one in the first block and returns *)
(* in the last; those between test, go on, or do something else first.     *)
(***************************************************************************)
EXTENDS NullInput

Blocks == 1..4
Registers == {1, 2}

\* A test goes on to the next block, or to any other when it branches.
Tests(b, ops) ==
  {[first |-> f, last |-> l, reg |-> r, jump |-> j, fall |-> b + 1] :
     f \in ops, l \in NullTests, r \in Registers, j \in 2..4}
Plain(op) == {[first |-> op, last |-> "goto", reg |-> 0, jump |-> 0, fall |-> g] : g \in 2..4}

Inner(b) ==
  {x \in Tests(b, NullTests \cup {"other"}) : x.first \in {x.last, "other"}}
  \cup Plain("goto") \cup Plain("other")
Return == {[first |-> f, last |-> "return", reg |-> 1, jump |-> 0, fall |-> 0] :
             f \in {"const", "return", "other"}}

Edges(bs) ==
  {[from |-> b, to |-> bs[b].jump, kind |-> "branch"] : b \in {x \in Blocks : bs[x].jump # 0}}
  \cup {[from |-> b, to |-> bs[b].fall, kind |-> "goto"] : b \in {x \in Blocks : bs[x].fall # 0}}

Graph(bs) ==
  [first |-> [b \in Blocks |-> bs[b].first], last |-> [b \in Blocks |-> bs[b].last],
   reg |-> [b \in Blocks |-> bs[b].reg], edges |-> Edges(bs),
   entry |-> 1, exit |-> 4, params |-> Registers]

MethodsOfFourBlocks ==
  {Graph(<<a, b, c, d>>) : a \in Tests(1, {"load"}), b \in Inner(2), c \in Inner(3), d \in Return}
=============================================================================
