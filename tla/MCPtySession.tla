--------------------------- MODULE MCPtySession ---------------------------
(* Inputs for the TLC runs of PtySession.                                  *)
EXTENDS PtySession

OneByteWrites == {1}
ShortWrites == {1, 2}
Resizes == {"resize"}
Signals == {"signal"}
=============================================================================
