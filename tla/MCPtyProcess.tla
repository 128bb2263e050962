---------------------------- MODULE MCPtyProcess ----------------------------
(* Ids for the TLC run of PtyProcess, and the inputs of PtyJob's algorithms. *)
EXTENDS PtyProcess

CONSTANTS p1, p2, p3

SomePids == {p1, p2, p3}
Symmetric == Permutations(SomePids)

Group4 == 1..4
SomeTimes == 0..2
Lengths(count, longest) == UNION {[1..n -> 0..longest] : n \in 0..count}
SomeArguments == Lengths(3, 3)
SomeEnvironments == Lengths(1, 1)
=============================================================================
