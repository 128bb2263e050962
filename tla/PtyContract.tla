---------------------------- MODULE PtyContract ----------------------------
(***************************************************************************)
(* What a PTY session promises its client, whatever its reactor does: an   *)
(* ordered byte stream under a credit window, ended by EXIT only when all  *)
(* of it was delivered and acknowledged, or cut short by ERROR.  A stream  *)
(* may be cut without the client being told; what was delivered before is  *)
(* acknowledged nevertheless when EXIT comes, and nothing is delivered     *)
(* behind the cut.                                                         *)
(***************************************************************************)
EXTENDS Naturals

CONSTANT Window  \* bytes that may await acknowledgement

VARIABLES
    phase,      \* "created", "running", "exited" or "failed"
    cut,        \* nothing more of the stream will be delivered
    sent,       \* bytes the child wrote to the terminal
    delivered,  \* bytes handed to the client
    acked       \* bytes the client acknowledged

vars == <<phase, cut, sent, delivered, acked>>

Init ==
    /\ phase = "created" /\ cut = FALSE
    /\ sent = 0 /\ delivered = 0 /\ acked = 0

Start ==
    /\ phase = "created" /\ phase' \in {"running", "failed"}
    /\ UNCHANGED <<cut, sent, delivered, acked>>

\* The child may still write behind a failed session, behind an exit only to a
\* stream that was cut.
Send ==
    /\ phase \in {"running", "failed"} \/ (phase = "exited" /\ cut)
    /\ sent' = sent + 1
    /\ UNCHANGED <<phase, cut, delivered, acked>>

Deliver ==
    /\ phase = "running" /\ ~cut
    /\ delivered' \in (delivered + 1)..sent
    /\ delivered' <= acked + Window
    /\ cut' \in BOOLEAN
    /\ UNCHANGED <<phase, sent, acked>>

Cut ==
    /\ phase \in {"running", "failed"} /\ cut' = TRUE
    /\ UNCHANGED <<phase, sent, delivered, acked>>

Acknowledge ==
    /\ acked' \in (acked + 1)..delivered
    /\ UNCHANGED <<phase, cut, sent, delivered>>

Exit ==
    /\ phase = "running"
    /\ acked = delivered /\ (cut \/ delivered = sent)
    /\ phase' = "exited"
    /\ UNCHANGED <<cut, sent, delivered, acked>>

Fail ==
    /\ phase = "running" /\ phase' = "failed"
    /\ UNCHANGED <<cut, sent, delivered, acked>>

Next == Start \/ Send \/ Deliver \/ Cut \/ Acknowledge \/ Exit \/ Fail

Spec == Init /\ [][Next]_vars
=============================================================================
