----------------------------- MODULE MCSession ------------------------------
(* Session for TLC.                                                         *)
EXTENDS Session, TLC

CONSTANTS c1, c2

MCPackIdxs == 0 .. 2
SmallAndLarge == {0, 200}
Small == {0}
Word == [f \in Fields \cup {"packName"} |-> {"kim"}]
Words == [Word EXCEPT !["name"] = {"kim", "overlongname"}]
ZeroOrOne == {"0", "1"}
ZeroOrBad == {"0", "1", "kim"}

FourCmds == [c \in {c1} |-> 4]
TwoCmdsEach == [c \in {c1, c2} |-> 2]

Symmetry == Permutations(Ptr)
SymmetryTwo == Permutations(Ptr) \cup Permutations(Threads)
=============================================================================
