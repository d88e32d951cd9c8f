----------------------- MODULE MCDeterminismTransfer -----------------------
(***************************************************************************)
(* Instances of DeterminismTransfer for TLC.                               *)
(***************************************************************************)
EXTENDS DeterminismTransfer, TLC

CONSTANTS r1, r2, f1

TwoRegs  == {r1, r2}
OneField == {f1}

RegSymmetry == Permutations(TwoRegs)

\* An object is found nowhere else, or everywhere.
Aliases == {{}, Place}

\* A callee that adds to its object what varies, and one for each of the other
\* summaries, which varies if it may.
Callees == {[summary |-> "det", real |-> "same", effect |-> "varies"],
            [summary |-> "notdet", real |-> "varies", effect |-> "same"],
            [summary |-> "top", real |-> "varies", effect |-> "same"]}
=============================================================================
