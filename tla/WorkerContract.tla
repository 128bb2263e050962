--------------------------- MODULE WorkerContract ---------------------------
(***************************************************************************)
(* What the coordinator of a worker process promises its callers: a        *)
(* request is answered by the live worker, or ends behind the one final    *)
(* classification of its end, or is given up when even a kill brings none. *)
(***************************************************************************)
EXTENDS Naturals

CONSTANTS Call, Termination

VARIABLES
    worker,   \* "absent", "live" or "gone"
    verdict,  \* "none" or how the worker ended
    calls     \* each call "new", "pending", "response", "ended" or "failed"

vars == <<worker, verdict, calls>>

Init ==
    /\ worker = "absent" /\ verdict = "none"
    /\ calls = [c \in Call |-> "new"]

Launch ==
    /\ worker = "absent" /\ verdict = "none"
    /\ worker' = "live"
    /\ UNCHANGED <<verdict, calls>>

Refuse ==
    /\ worker = "absent" /\ verdict = "none"
    /\ verdict' = "startupFailure"
    /\ UNCHANGED <<worker, calls>>

\* The one worker is never launched again.
Die ==
    /\ worker = "live"
    /\ worker' = "gone"
    /\ UNCHANGED <<verdict, calls>>

\* A worker is judged once, when it is gone.
Conclude ==
    /\ worker = "gone" /\ verdict = "none"
    /\ verdict' \in Termination
    /\ UNCHANGED <<worker, calls>>

Settle(c, from, to) ==
    /\ calls[c] = from
    /\ calls' = [calls EXCEPT ![c] = to]
    /\ UNCHANGED <<worker, verdict>>

Request(c) == worker = "live" /\ Settle(c, "new", "pending")
Answer(c) == worker = "live" /\ Settle(c, "pending", "response")
GiveUp(c) == worker = "live" /\ Settle(c, "pending", "failed")
End(c) == verdict # "none" /\ Settle(c, "pending", "ended")

Next ==
    \/ Launch \/ Refuse \/ Die \/ Conclude
    \/ \E c \in Call : Request(c) \/ Answer(c) \/ GiveUp(c) \/ End(c)

Spec == Init /\ [][Next]_vars
=============================================================================
