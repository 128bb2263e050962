-------------------------- MODULE RuntimeLifecycle --------------------------
(***************************************************************************)
(* RuntimeLifecycleCoordinator of lib/src/runtime_lifecycle.dart, its pipes *)
(* and the worker process of lib/src/runtime_worker.dart.                  *)
(*                                                                         *)
(* The coordinator is one isolate.  An action is one of its events (a      *)
(* call, a frame, a stream's end, the exit, a timer) with the awaiting     *)
(* code that runs at once; code that awaits the classification or a write  *)
(* goes on in an action of its own.  A timer is not armed, it may fire     *)
(* whenever its call waits.                                                *)
(***************************************************************************)
EXTENDS Integers, Sequences, FiniteSets

CONSTANTS
    MaxInFlight,  \* maximumInFlightRequests
    MaxRequests,  \* bound: requests accepted
    Large,        \* operations whose frame is more than the stdin pipe holds
    Faults        \* whether the launch fails and the worker writes garbage

ASSUME FlightAssumption == MaxInFlight \in Nat \ {0}
ASSUME RequestAssumption ==
    MaxRequests \in Nat /\ Large \subseteq 1..MaxRequests /\ Faults \in BOOLEAN

VARIABLES
    state,                \* _state
    worker_was_ready,     \* _workerWasReady
    shutdown_requested,   \* _shutdownRequested
    forced_cleanup,       \* _forcedCleanup
    stop_acknowledged,    \* _stopAcknowledged is completed
    protocol_failure,     \* _protocolFailure is set
    responses,            \* _responses: operations registered
    next_operation,       \* _nextOperation
    exit_signal,          \* _exitSignal is completed, the evidence saw the exit
    protocol_drained,     \* _protocolStreamDrained
    diagnostics_drained,  \* _diagnosticsStreamDrained
    saw_error,            \* the evidence saw diagnostics
    verdict,              \* the termination classified, "none" before
    termination,          \* _termination
    start_call,           \* where start() is, or its result
    calls,                \* where requestPayload() of an operation is
    shutdown_call,        \* where _performShutdown() is, or its result
    worker,               \* the worker process, and its exit status
    killed,               \* SIGKILL reached the worker
    outbox,               \* frames of the writer not yet in the pipe
    stdin, stdout,        \* frames in the pipes
    stderr                \* unread diagnostics

evidence == <<exit_signal, protocol_drained, diagnostics_drained, saw_error>>
outcome == <<verdict, termination>>
flags == <<worker_was_ready, shutdown_requested, forced_cleanup,
           stop_acknowledged, protocol_failure>>
registry == <<responses, next_operation>>
process == <<worker, killed, stdin, stdout, stderr>>
vars == <<state, flags, registry, evidence, outcome, start_call, calls,
          shutdown_call, process, outbox>>

Call == 1..MaxRequests
Termination == {"graceful", "startupFailure", "uncaughtError",
                "unexpectedExit", "forcedCleanup"}
State == {"idle", "starting", "running", "stopping", "stopped"}
StartStep == {"none", "spawning", "waiting", "killing", "ending",
              "ready", "startupFailure", "failed"}
CallStep == {"new", "sending", "awaiting", "killing", "ending",
             "response", "uncaughtError", "unexpectedExit", "cancelled",
             "failed"}
ShutdownStep == {"none", "sending", "awaiting_ack", "awaiting_exit",
                 "killing", "ending", "failed"} \cup Termination

\* Steps that _exitSignal ends.
Waiting == {"waiting", "awaiting", "awaiting_ack", "awaiting_exit", "killing"}

Frame == [type : {"ready", "request", "response", "stop", "ack", "invalid",
                  "broken"},
          operation : 0..MaxRequests]
Of(type, operation) == [type |-> type, operation |-> operation]
Plain(type) == Of(type, 0)

Alive == worker \in {"booting", "serving", "leaving"}
Dead == worker \in {"exited", "failed"}

Init ==
    /\ state = "idle"
    /\ worker_was_ready = FALSE /\ shutdown_requested = FALSE
    /\ forced_cleanup = FALSE /\ stop_acknowledged = FALSE
    /\ protocol_failure = FALSE
    /\ responses = {} /\ next_operation = 1
    /\ exit_signal = FALSE /\ protocol_drained = FALSE
    /\ diagnostics_drained = FALSE /\ saw_error = FALSE
    /\ verdict = "none" /\ termination = "none"
    /\ start_call = "none" /\ shutdown_call = "none"
    /\ calls = [c \in Call |-> "new"]
    /\ worker = "none" /\ killed = FALSE
    /\ outbox = <<>> /\ stdin = <<>> /\ stdout = <<>> /\ stderr = FALSE

KillForgotten == UNCHANGED killed

\* _killWorker(): a signal to a process that has gone does nothing.
Kill == killed' = (killed \/ Alive)

-----------------------------------------------------------------------------
(* start().                                                                 *)

Start ==
    /\ state = "idle"
    /\ state' = "starting" /\ start_call' = "spawning"
    /\ UNCHANGED <<flags, registry, evidence, outcome, calls, shutdown_call,
                   process, outbox>>

Launch ==
    /\ start_call = "spawning"
    /\ start_call' = "waiting" /\ worker' = "booting"
    /\ UNCHANGED <<state, flags, registry, evidence, outcome, calls,
                   shutdown_call, killed, stdin, stdout, stderr, outbox>>

LaunchFails ==
    /\ start_call = "spawning" /\ Faults
    /\ start_call' = "startupFailure" /\ state' = "stopped"
    /\ termination' = "startupFailure"
    /\ UNCHANGED <<flags, registry, evidence, verdict, calls, shutdown_call,
                   process, outbox>>

StartupTimeout ==
    /\ start_call = "waiting"
    /\ start_call' = "killing" /\ Kill
    /\ UNCHANGED <<state, flags, registry, evidence, outcome, calls,
                   shutdown_call, worker, stdin, stdout, stderr, outbox>>

StartGivesUp ==
    /\ start_call = "killing" /\ start_call' = "failed"
    /\ UNCHANGED <<state, flags, registry, evidence, outcome, calls,
                   shutdown_call, process, outbox>>

EndKnownAtExit == exit_signal
EndKnown == termination # "none"

StartEnds ==
    /\ start_call = "ending" /\ EndKnown
    /\ start_call' = "startupFailure"
    /\ UNCHANGED <<state, flags, registry, evidence, outcome, calls,
                   shutdown_call, process, outbox>>

-----------------------------------------------------------------------------
(* requestPayload().  A refused request changes nothing and is no step.     *)

Request ==
    /\ state = "running" /\ ~exit_signal
    /\ Cardinality(responses) < MaxInFlight
    /\ next_operation \in Call
    /\ responses' = responses \cup {next_operation}
    /\ next_operation' = next_operation + 1
    /\ outbox' = Append(outbox, Of("request", next_operation))
    /\ calls' = [calls EXCEPT ![next_operation] = "sending"]
    /\ UNCHANGED <<state, flags, evidence, outcome, start_call, shutdown_call,
                   process>>

RequestTimeout(c) ==
    /\ calls[c] = "awaiting"
    /\ calls' = [calls EXCEPT ![c] = "killing"]
    /\ Kill
    /\ UNCHANGED <<state, flags, registry, evidence, outcome, start_call,
                   shutdown_call, worker, stdin, stdout, stderr, outbox>>

RequestGivesUp(c) ==
    /\ calls[c] = "killing"
    /\ calls' = [calls EXCEPT ![c] = "failed"]
    /\ responses' = responses \ {c}
    /\ UNCHANGED <<state, flags, next_operation, evidence, outcome, start_call,
                   shutdown_call, process, outbox>>

EndAsClassified == termination

\* The result of a request that outlived its worker.
EndOfRequest ==
    IF shutdown_call # "none" THEN "cancelled"
    ELSE IF termination = "uncaughtError" THEN "uncaughtError"
    ELSE "unexpectedExit"

RequestEnds(c) ==
    /\ calls[c] = "ending" /\ EndKnown
    /\ calls' = [calls EXCEPT ![c] = EndOfRequest]
    /\ UNCHANGED <<state, flags, registry, evidence, outcome, start_call,
                   shutdown_call, process, outbox>>

-----------------------------------------------------------------------------
(* shutdown(), whose first future every later call returns.                 *)

Shutdown ==
    /\ shutdown_call = "none"
    /\ IF state = "running" /\ ~exit_signal
       THEN /\ state' = "stopping" /\ shutdown_requested' = TRUE
            /\ outbox' = Append(outbox, Plain("stop"))
            /\ shutdown_call' = "sending"
       ELSE /\ state' = IF state = "idle" THEN "stopped" ELSE state
            /\ shutdown_call' = IF state = "idle" THEN "graceful"
                                ELSE IF state = "starting" THEN "failed"
                                ELSE "ending"
            /\ UNCHANGED <<shutdown_requested, outbox>>
    /\ UNCHANGED <<worker_was_ready, forced_cleanup, stop_acknowledged,
                   protocol_failure, registry, evidence, outcome, start_call,
                   calls, process>>

TimedUntilAcknowledged == {"awaiting_ack"}

\* One deadline covers the acknowledgement and the exit behind it.
Timed == {"awaiting_ack", "awaiting_exit"}

ShutdownTimeout ==
    /\ shutdown_call \in Timed
    /\ shutdown_call' = "killing" /\ forced_cleanup' = TRUE /\ Kill
    /\ UNCHANGED <<state, worker_was_ready, shutdown_requested,
                   stop_acknowledged, protocol_failure, registry, evidence,
                   outcome, start_call, calls, worker, stdin, stdout, stderr,
                   outbox>>

ShutdownGivesUp ==
    /\ shutdown_call = "killing" /\ shutdown_call' = "failed"
    /\ UNCHANGED <<state, flags, registry, evidence, outcome, start_call, calls,
                   process, outbox>>

ShutdownEnds ==
    /\ shutdown_call = "ending" /\ EndKnown
    /\ shutdown_call' = termination
    /\ UNCHANGED <<state, flags, registry, evidence, outcome, start_call, calls,
                   process, outbox>>

-----------------------------------------------------------------------------
(* RuntimeWorkerFrameWriter: frames go to the pipe in order, and the sender *)
(* goes on when its frame is there.                                         *)

\* What the sender of the first frame does next.
SenderGoes(request_step, stop_step) ==
    LET c == Head(outbox).operation IN
    IF c \in Call
    THEN /\ calls' = [calls EXCEPT ![c] = IF exit_signal THEN "ending"
                                          ELSE request_step]
         /\ responses' = IF exit_signal THEN responses \ {c} ELSE responses
         /\ UNCHANGED shutdown_call
    ELSE /\ shutdown_call' = IF exit_signal THEN "ending" ELSE stop_step
         /\ UNCHANGED <<calls, responses>>

Write ==
    /\ outbox # <<>>
    /\ outbox' = Tail(outbox)
    /\ stdin' = IF Dead THEN stdin ELSE Append(stdin, Head(outbox))
    /\ SenderGoes("awaiting", "awaiting_ack")
    /\ UNCHANGED <<state, flags, next_operation, evidence, outcome, start_call,
                   worker, killed, stdout, stderr>>

IsLarge == outbox # <<>> /\ Head(outbox).operation \in Large

Flush == Write /\ (Dead \/ ~IsLarge)

\* A large frame is written when the worker has read the rest of it.
Pull == Write /\ IsLarge /\ worker = "serving"

\* A pipe without a reader refuses the write; the sender kills and waits for
\* the exit that is about to be seen.
FlushFails ==
    /\ outbox # <<>> /\ Dead
    /\ outbox' = Tail(outbox)
    /\ SenderGoes("killing", "killing")
    /\ forced_cleanup' =
         (forced_cleanup \/ (Head(outbox).type = "stop" /\ ~exit_signal))
    /\ UNCHANGED <<state, worker_was_ready, shutdown_requested,
                   stop_acknowledged, protocol_failure, next_operation,
                   evidence, outcome, start_call, process>>

-----------------------------------------------------------------------------
(* The handlers of the worker's streams.                                    *)

\* A frame of that type is the next of the open stream.
Takes(type) ==
    /\ ~protocol_drained
    /\ stdout # <<>> /\ Head(stdout).type = type
    /\ stdout' = Tail(stdout)

ReceiveReady ==
    /\ Takes("ready")
    /\ state = "starting"
    /\ worker_was_ready' = TRUE /\ state' = "running"
    /\ start_call' = IF start_call = "waiting" THEN "ready" ELSE start_call
    /\ UNCHANGED <<shutdown_requested, forced_cleanup, stop_acknowledged,
                   protocol_failure, registry, evidence, outcome, calls,
                   shutdown_call, worker, killed, stdin, stderr, outbox>>

\* A response that comes too late for its request is ignored.
ReceiveResponse ==
    LET c == Head(stdout).operation IN
    /\ Takes("response")
    /\ IF state = "running" /\ c \in responses /\ calls[c] = "awaiting"
       THEN /\ calls' = [calls EXCEPT ![c] = "response"]
            /\ responses' = responses \ {c}
       ELSE UNCHANGED <<calls, responses>>
    /\ UNCHANGED <<state, flags, next_operation, evidence, outcome, start_call,
                   shutdown_call, worker, killed, stdin, stderr, outbox>>

ReceiveAck ==
    /\ Takes("ack")
    /\ stop_acknowledged' = (stop_acknowledged \/ state = "stopping")
    /\ shutdown_call' = IF shutdown_call = "awaiting_ack" THEN "awaiting_exit"
                        ELSE shutdown_call
    /\ UNCHANGED <<state, worker_was_ready, shutdown_requested, forced_cleanup,
                   protocol_failure, registry, evidence, outcome, start_call,
                   calls, worker, killed, stdin, stderr, outbox>>

DoneUnlessError(failed) == ~failed

\* onDone comes behind an error as well: the subscription outlives it.
DoneFollows(failed) == TRUE

\* A frame of a wrong type, state or generation, or bytes that are no frame,
\* which end the stream.  The first failure kills the worker.
ReceiveGarbage ==
    /\ \/ Takes("invalid") /\ UNCHANGED protocol_drained
       \/ Takes("broken") /\ protocol_drained' = DoneFollows(TRUE)
    /\ protocol_failure' = TRUE
    /\ IF protocol_failure \/ exit_signal THEN UNCHANGED killed ELSE Kill
    /\ UNCHANGED <<state, worker_was_ready, shutdown_requested, forced_cleanup,
                   stop_acknowledged, registry, exit_signal,
                   diagnostics_drained, saw_error, outcome, start_call, calls,
                   shutdown_call, worker, stdin, stderr, outbox>>

ReceiveDiagnostics ==
    /\ stderr
    /\ saw_error' = TRUE /\ stderr' = FALSE
    /\ UNCHANGED <<state, flags, registry, exit_signal, protocol_drained,
                   diagnostics_drained, outcome, start_call, calls,
                   shutdown_call, worker, killed, stdin, stdout, outbox>>

ProtocolDone ==
    /\ Dead /\ stdout = <<>> /\ ~protocol_drained
    /\ DoneFollows(protocol_failure)
    /\ protocol_drained' = TRUE
    /\ UNCHANGED <<state, flags, registry, exit_signal, diagnostics_drained,
                   saw_error, outcome, start_call, calls, shutdown_call,
                   process, outbox>>

DiagnosticsDone ==
    /\ Dead /\ ~stderr /\ ~diagnostics_drained
    /\ diagnostics_drained' = TRUE
    /\ UNCHANGED <<state, flags, registry, exit_signal, protocol_drained,
                   saw_error, outcome, start_call, calls, shutdown_call,
                   process, outbox>>

-----------------------------------------------------------------------------
(* The exit, its classification and the end of the transport.               *)

Wakes(step) == IF step \in Waiting THEN "ending" ELSE step

HandleExit ==
    /\ Dead /\ ~exit_signal
    /\ exit_signal' = TRUE
    /\ start_call' = Wakes(start_call)
    /\ calls' = [c \in Call |-> Wakes(calls[c])]
    /\ shutdown_call' = Wakes(shutdown_call)
    /\ responses' = {c \in responses : calls[c] \notin Waiting}
    /\ UNCHANGED <<state, flags, next_operation, protocol_drained,
                   diagnostics_drained, saw_error, outcome, process, outbox>>

\* classify()
Classification ==
    IF ~worker_was_ready THEN "startupFailure"
    ELSE IF forced_cleanup THEN "forcedCleanup"
    ELSE IF saw_error THEN "uncaughtError"
    ELSE IF shutdown_requested /\ stop_acknowledged /\ worker = "exited"
    THEN "graceful"
    ELSE "unexpectedExit"

CanReconcileUndrained == exit_signal /\ diagnostics_drained
CanReconcile == exit_signal /\ protocol_drained /\ diagnostics_drained

Reconcile ==
    /\ CanReconcile /\ verdict = "none"
    /\ verdict' = Classification
    /\ state' = "stopped" /\ responses' = {}
    /\ UNCHANGED <<flags, next_operation, evidence, termination, start_call,
                   calls, shutdown_call, process, outbox>>

\* _closeTransport() waits for the writer's queue before the end is known.
CloseTransport ==
    /\ verdict # "none" /\ termination = "none"
    /\ outbox = <<>>
    /\ termination' = verdict
    /\ UNCHANGED <<state, flags, registry, evidence, verdict, start_call, calls,
                   shutdown_call, process, outbox>>

-----------------------------------------------------------------------------
(* The worker process.                                                      *)

Worker ==
    UNCHANGED <<state, flags, registry, evidence, outcome, start_call, calls,
                shutdown_call, killed, outbox>>

Boot ==
    /\ worker = "booting"
    /\ worker' = "serving" /\ stdout' = Append(stdout, Plain("ready"))
    /\ UNCHANGED <<stdin, stderr>> /\ Worker

\* Requests are answered one by one; stop is acknowledged and is the last.
Serve ==
    LET frame == Head(stdin) IN
    /\ worker = "serving" /\ stdin # <<>>
    /\ stdin' = Tail(stdin)
    /\ IF frame.type = "request"
       THEN /\ stdout' = Append(stdout, Of("response", frame.operation))
            /\ UNCHANGED worker
       ELSE /\ stdout' = Append(stdout, Plain("ack"))
            /\ worker' = "leaving"
    /\ UNCHANGED stderr /\ Worker

\* An uncaught error is reported and fails the process.
Crash ==
    /\ Alive
    /\ worker' = "failed" /\ stderr' = TRUE
    /\ UNCHANGED <<stdin, stdout>> /\ Worker

\* The end of main, or exit(0) on the way.
Leave ==
    /\ worker \in {"serving", "leaving"}
    /\ worker' = "exited"
    /\ UNCHANGED <<stdin, stdout, stderr>> /\ Worker

Die ==
    /\ Alive /\ killed
    /\ worker' = "failed"
    /\ UNCHANGED <<stdin, stdout, stderr>> /\ Worker

\* Bound: one piece of garbage.
WriteGarbage ==
    /\ Alive /\ Faults /\ ~protocol_failure
    /\ \A i \in 1..Len(stdout) : stdout[i].type \notin {"invalid", "broken"}
    /\ \E type \in {"invalid", "broken"} : stdout' = Append(stdout, Plain(type))
    /\ UNCHANGED <<worker, stdin, stderr>> /\ Worker

-----------------------------------------------------------------------------
\* The coordinator's own events.
Isolate ==
    \/ Launch \/ LaunchFails \/ StartEnds \/ ShutdownEnds
    \/ Flush \/ FlushFails
    \/ ReceiveReady \/ ReceiveResponse \/ ReceiveAck \/ ReceiveGarbage
    \/ ReceiveDiagnostics \/ ProtocolDone \/ DiagnosticsDone
    \/ HandleExit \/ Reconcile \/ CloseTransport
    \/ \E c \in Call : RequestEnds(c)

Timer ==
    \/ StartupTimeout \/ StartGivesUp \/ ShutdownTimeout \/ ShutdownGivesUp
    \/ \E c \in Call : RequestTimeout(c) \/ RequestGivesUp(c)

Process == Boot \/ Pull \/ Serve \/ Crash \/ Leave \/ Die \/ WriteGarbage

Next == Start \/ Request \/ Shutdown \/ Isolate \/ Timer \/ Process

Spec == Init /\ [][Next]_vars

\* The isolate runs its events and timers, and a killed process dies.  Nothing
\* is assumed of a worker that lives.
FairSpec == Spec /\ WF_vars(Isolate) /\ WF_vars(Timer) /\ WF_vars(Die)

-----------------------------------------------------------------------------
(* Properties.                                                              *)

TypeFlags ==
    /\ worker_was_ready \in BOOLEAN /\ shutdown_requested \in BOOLEAN
    /\ forced_cleanup \in BOOLEAN /\ stop_acknowledged \in BOOLEAN
    /\ protocol_failure \in BOOLEAN
    /\ exit_signal \in BOOLEAN /\ protocol_drained \in BOOLEAN
    /\ diagnostics_drained \in BOOLEAN /\ saw_error \in BOOLEAN
    /\ killed \in BOOLEAN /\ stderr \in BOOLEAN

TypeData ==
    /\ state \in State
    /\ responses \subseteq Call /\ next_operation \in 1..(MaxRequests + 1)
    /\ verdict \in Termination \cup {"none"}
    /\ termination \in Termination \cup {"none"}
    /\ start_call \in StartStep /\ shutdown_call \in ShutdownStep
    /\ calls \in [Call -> CallStep]
    /\ worker \in {"none", "booting", "serving", "leaving", "exited", "failed"}
    /\ outbox \in Seq(Frame) /\ stdin \in Seq(Frame) /\ stdout \in Seq(Frame)

\* Types: every variable keeps its range.
TypeOK == TypeFlags /\ TypeData

\* An end is announced only behind every trace of a launched worker: its exit
\* is seen, its output read to the end unless it was no protocol, its input
\* queue empty, and no call waits on anything but the announcement.
EndIsComplete ==
    termination # "none" /\ worker # "none" =>
        /\ Dead /\ exit_signal /\ state = "stopped"
        /\ ~stderr /\ outbox = <<>>
        /\ stdout = <<>> \/ protocol_failure
        /\ responses = {}
        /\ \A c \in Call : calls[c] \notin Waiting \cup {"sending"}

\* The in-flight limit bounds what a live worker is asked: every request on its
\* way to a worker that is not killed is registered, and no frame follows stop.
WorkIsRegistered ==
    LET frames == stdin \o outbox IN
    Alive /\ ~killed =>
        /\ \A i \in 1..Len(frames) :
             frames[i].type = "request" => frames[i].operation \in responses
        /\ \A i \in 1..(Len(frames) - 1) : frames[i].type # "stop"

\* A start that failed leaves no worker behind, and nothing can be asked of it.
FailedStartIsReaped ==
    start_call = "startupFailure" => ~Alive /\ state = "stopped"

\* The coordinator keeps the contract of its calls.
Contract == INSTANCE WorkerContract WITH
    worker <- IF worker = "none" THEN "absent"
              ELSE IF exit_signal THEN "gone" ELSE "live",
    verdict <- termination,
    calls <- [c \in Call |->
                IF calls[c] \in Waiting \cup {"sending", "ending"}
                THEN "pending"
                ELSE IF calls[c] \in {"cancelled", "uncaughtError",
                                      "unexpectedExit"}
                THEN "ended" ELSE calls[c]]

ImplementsContract == Contract!Spec

Concluded(c) == calls[c] \in {"response", "uncaughtError", "unexpectedExit",
                              "cancelled", "failed"}

\* A live worker that nothing kills leaves a large frame unread.
Stalled == IsLarge /\ Alive /\ ~killed

\* Whatever the worker does or leaves undone, every accepted request gets its
\* one result, unless a large frame stays unread for good.
RequestsConclude ==
    <>[]Stalled \/ \A c \in Call : calls[c] = "sending" ~> Concluded(c)

\* A shutdown has a deadline: it ends, forced if need be.
ShutdownConcludes ==
    shutdown_call # "none" ~> shutdown_call \in Termination \cup {"failed"}

\* The deadline holds once every frame before the stop frame has been read.
ShutdownConcludesIfRead == <>[]Stalled \/ ShutdownConcludes
=============================================================================
