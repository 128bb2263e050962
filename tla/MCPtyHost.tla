----------------------------- MODULE MCPtyHost -----------------------------
(* Sessions and clients for the TLC run of PtyHost.                        *)
EXTENDS PtyHost, TLC

CONSTANTS s1, s2, c1, c2

TwoSessions == {s1, s2}
TwoClients == {c1, c2}
Symmetric == Permutations(TwoSessions) \cup Permutations(TwoClients)
=============================================================================
