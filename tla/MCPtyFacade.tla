---------------------------- MODULE MCPtyFacade ----------------------------
(* Inputs for the TLC runs of PtyFacade.                                   *)
EXTENDS PtyFacade

OneByteWrites == {1}
Resizes == {"resize"}
=============================================================================
