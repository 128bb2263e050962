----------------------------- MODULE MCPtySpawn -----------------------------
(* Sessions and host descriptors for the TLC runs of PtySpawn.             *)
EXTENDS PtySpawn, TLC

CONSTANTS s1, s2

TwoSessions == {s1, s2}
AnyStandard == SUBSET {0, 1, 2}
SymmetricSessions == Permutations(TwoSessions)
=============================================================================
