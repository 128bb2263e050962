----------------------------- MODULE PtySession -----------------------------
(***************************************************************************)
(* One native PTY session: the kqueue reactor thread of                    *)
(* packages/dart_pty_macos/native/PtySession.cc, the client calls that     *)
(* share its mutex, the kernel's terminal and the child process.           *)
(*                                                                         *)
(* Terminal output is a stream of byte offsets: byte i is the i-th byte    *)
(* the child wrote.  An OUTPUT batch is an interval of that stream and a   *)
(* queued write an interval of the stream of accepted input bytes.         *)
(*                                                                         *)
(* Wake() only shortens a kevent() that returns after 100 ms anyway, so a  *)
(* turn of the event loop may start at any moment and Wake is not state.   *)
(***************************************************************************)
EXTENDS Integers, Sequences, FiniteSets

CONSTANTS
    HighWater,       \* read_high_water_bytes
    LowWater,        \* read_low_water_bytes
    ReadBatch,       \* read_batch_bytes
    TurnLimit,       \* read_batches_per_event_loop_turn, 0 for none
    WriteCapacity,   \* write_capacity_bytes
    TurnBatches,     \* kMaximumReadBatchesPerTurn, kMaximumWriteBatchesPerTurn
    WriteLengths,    \* lengths of the writes the client offers
    RequestKinds,    \* bound: of "resize" and "signal", those the client makes
    MaxOutput,       \* bound: bytes the child writes
    MaxInput,        \* bound: bytes accepted for the child
    Faults           \* whether system calls may fail

ASSUME WaterAssumption ==
    /\ HighWater \in Nat /\ LowWater \in Nat /\ LowWater < HighWater
ASSUME BatchAssumption == ReadBatch \in Nat \ {0} /\ TurnBatches \in Nat \ {0}
ASSUME WriteAssumption ==
    WriteCapacity \in Nat \ {0} /\ WriteLengths \subseteq Nat \ {0}
ASSUME RequestAssumption == RequestKinds \subseteq {"resize", "signal"}
ASSUME BoundAssumption ==
    /\ MaxOutput \in Nat /\ MaxInput \in Nat
    /\ TurnLimit \in Nat /\ Faults \in BOOLEAN

VARIABLES
    state,                 \* state_
    closing,               \* closing_
    close_started,         \* close_started_
    force_close_requested, \* force_close_requested_
    close_kill_deadline,   \* "none" (time_point::max), "armed" or "due"
    requests,              \* which of pending_resize_, pending_signals_ are set
    outstanding,           \* outstanding_: batches [sequence, from, length]
    next_sequence,         \* next_sequence_
    read_in_flight,        \* read_in_flight_bytes_
    bytes_read,            \* bytes_read_
    read_paused,           \* read_paused_
    read_enabled,          \* read_enabled_: the EVFILT_READ filter is on
    read_retry,            \* read_retry_requested_
    master_eof,            \* master_eof_
    truncated,             \* history: output may lie behind master_eof_
    writes,                \* writes_: requests [from, length]
    write_offset,          \* write_offset_
    write_queued,          \* write_queued_bytes_
    write_enabled,         \* write_enabled_
    accepted,              \* input bytes ever accepted by EnqueueWrite
    child_completed,       \* child_completed_
    exit_observed,         \* process_exit_ready_observed_, with its status
    pc,                    \* where the reactor thread is
    stack,                 \* where it returns to, innermost call first
    batches,               \* loop counter of ReadAvailable and FlushWrites
    fired,                 \* kevents of this turn not dispatched yet
    produced,              \* bytes the child side has written to the terminal
    slave_open,            \* some process holds the slave side
    room,                  \* an open terminal takes at least a byte of input
    read_edge,             \* EVFILT_READ has activated since it was delivered
    proc_edge,             \* EVFILT_PROC has activated since it was delivered
    child,                 \* the child process, as the kernel knows it
    killed,                \* SIGKILL reached the child
    events                 \* every callback made, in order

clientVars == <<state, closing, force_close_requested, requests, accepted>>
readVars == <<outstanding, next_sequence, read_in_flight, bytes_read,
              read_paused, read_enabled, read_retry, master_eof, truncated>>
writeVars == <<writes, write_offset, write_queued, write_enabled>>
closeVars == <<close_started, close_kill_deadline>>
exitVars == <<child_completed, exit_observed>>
flowVars == <<pc, stack, batches, fired>>
kernelVars == <<produced, slave_open, room, read_edge, proc_edge, child, killed>>
vars == <<clientVars, readVars, writeVars, closeVars, exitVars, flowVars,
          kernelVars, events>>

Batch == [sequence : Nat, from : Nat, length : Nat \ {0}]
Request == [from : Nat, length : Nat \ {0}]
Filter == {"READ", "WRITE", "PROC"}
Label == {"idle", "spawn", "exec", "kqueue", "wait", "dispatch", "control",
          "read", "flush", "retry", "reap", "decide", "abort", "done"}
EventType == {"STARTED", "OUTPUT", "EXIT", "ERROR"}
Event == [type : EventType, sequence : Nat, length : Nat]

\* Reading stops after every batch.
TurnMode == TurnLimit # 0

Lesser(a, b) == IF a < b THEN a ELSE b

\* The end of an interval of either stream.
EndOf(interval) == interval.from + interval.length

\* The callback of Emit(): STARTED, EXIT and ERROR carry no bytes.
Lifecycle(type) == [type |-> type, sequence |-> 0, length |-> 0]
Output(batch) == [type |-> "OUTPUT", sequence |-> batch.sequence,
                  length |-> batch.length]

Init ==
    /\ state = "created"
    /\ closing = FALSE /\ close_started = FALSE
    /\ force_close_requested = FALSE /\ close_kill_deadline = "none"
    /\ requests = {}
    /\ outstanding = <<>> /\ next_sequence = 0
    /\ read_in_flight = 0 /\ bytes_read = 0
    /\ read_paused = FALSE /\ read_enabled = TRUE /\ read_retry = FALSE
    /\ master_eof = FALSE /\ truncated = FALSE
    /\ writes = <<>> /\ write_offset = 0 /\ write_queued = 0
    /\ write_enabled = FALSE /\ accepted = 0
    /\ child_completed = FALSE /\ exit_observed = FALSE
    /\ pc = "idle" /\ stack = <<>> /\ batches = 0 /\ fired = {}
    /\ produced = 0 /\ slave_open = FALSE /\ room = TRUE
    /\ read_edge = FALSE /\ proc_edge = FALSE
    /\ child = "none" /\ killed = FALSE
    /\ events = <<>>

-----------------------------------------------------------------------------
(* The client calls.  A rejected call changes nothing and is not a step.    *)

\* Without a thread the session is finished: no callback tells of it, but the
\* status that Start() returns.
Start ==
    /\ state = "created"
    /\ \/ state' = "running" /\ pc' = "spawn"
       \/ Faults /\ state' = "finished" /\ UNCHANGED pc
    /\ UNCHANGED <<closing, force_close_requested, requests, accepted,
                   readVars, writeVars, closeVars, exitVars, stack,
                   batches, fired, kernelVars, events>>

AcceptsRequestsOfTheDead == state = "running" /\ ~closing

\* EnqueueWrite, Resize and SendSignal share this guard.
AcceptsRequests == state = "running" /\ ~closing /\ ~child_completed

EnqueueWrite(length) ==
    /\ AcceptsRequests
    /\ length <= WriteCapacity /\ write_queued <= WriteCapacity - length
    /\ accepted + length <= MaxInput
    /\ writes' = Append(writes, [from |-> accepted, length |-> length])
    /\ write_queued' = write_queued + length
    /\ accepted' = accepted + length
    /\ UNCHANGED <<state, closing, force_close_requested, requests,
                   write_offset, write_enabled, readVars, closeVars, exitVars,
                   flowVars, kernelVars, events>>

AcknowledgeAccepted(sequence, length) ==
    /\ outstanding # <<>>
    /\ Head(outstanding).sequence = sequence
    /\ Head(outstanding).length = length

Acknowledge(sequence, length) ==
    /\ AcknowledgeAccepted(sequence, length)
    /\ outstanding' = Tail(outstanding)
    /\ read_in_flight' = read_in_flight - length
    /\ UNCHANGED <<next_sequence, bytes_read, read_paused, read_enabled,
                   read_retry, master_eof, truncated, clientVars, writeVars,
                   closeVars, exitVars, flowVars, kernelVars, events>>

Post(kind) ==
    /\ AcceptsRequests /\ kind \in RequestKinds \ requests
    /\ requests' = requests \cup {kind}
    /\ UNCHANGED <<state, closing, force_close_requested, accepted, readVars,
                   writeVars, closeVars, exitVars, flowVars, kernelVars, events>>

Resize == Post("resize")
SendSignal == Post("signal")

\* A second Close keeps the grace period of the first.
Close ==
    /\ state = "running" /\ ~closing
    /\ closing' = TRUE
    /\ UNCHANGED <<state, force_close_requested, requests, accepted,
                   readVars, writeVars, closeVars, exitVars, flowVars, kernelVars, events>>

ForceClose ==
    /\ state = "running" /\ ~(closing /\ force_close_requested)
    /\ closing' = TRUE
    /\ force_close_requested' = TRUE
    /\ UNCHANGED <<state, requests, accepted, readVars,
                   writeVars, closeVars, exitVars, flowVars, kernelVars, events>>

CanDestroy == state = "finished" /\ outstanding = <<>>

-----------------------------------------------------------------------------
(* The reactor thread, up to its event loop.                                *)

\* A call pushes where to go on; Return() is every return of the callee.
Call(callee, continuation) ==
    /\ pc' = callee
    /\ stack' = <<continuation>> \o stack
Return ==
    /\ pc' = Head(stack)
    /\ stack' = Tail(stack)
    /\ batches' = 0

KillIsLost == UNCHANGED killed

\* SIGKILL to the process groups of the child.
Kill == killed' = (killed \/ child = "running")

FinishErrorStillRunning ==
    /\ pc' = "done"
    /\ events' = Append(events, Lifecycle("ERROR"))
    /\ UNCHANGED state

FinishError ==
    /\ state' = "finished"
    /\ pc' = "done"
    /\ events' = Append(events, Lifecycle("ERROR"))

Spawn ==
    /\ pc = "spawn"
    /\ \/ /\ child' = "running" /\ slave_open' = TRUE
          /\ pc' = "exec"
          /\ UNCHANGED <<state, events>>
       \/ /\ Faults
          /\ FinishError
          /\ UNCHANGED <<child, slave_open>>
    /\ UNCHANGED <<closing, force_close_requested, requests, accepted,
                   readVars, writeVars, closeVars, exitVars, stack, batches,
                   fired, produced, room, read_edge, proc_edge, killed>>

\* CheckExec or ConfigureKqueue: failing, the thread kills and reaps the child.
Prepare(step, continuation) ==
    /\ pc = step
    /\ \/ pc' = continuation /\ UNCHANGED killed
       \/ Faults /\ pc' = "abort" /\ Kill
    /\ UNCHANGED <<clientVars, readVars, writeVars, closeVars, exitVars, batches,
                   fired, produced, slave_open, room, read_edge, proc_edge, child>>

CheckExec == Prepare("exec", "kqueue") /\ UNCHANGED <<stack, events>>

\* Run() announces STARTED and calls ProcessControl() before EventLoop().
ConfigureKqueue ==
    /\ Prepare("kqueue", "control")
    /\ IF pc' = "control"
       THEN /\ events' = Append(events, Lifecycle("STARTED"))
            /\ stack' = <<"wait">>
       ELSE UNCHANGED <<events, stack>>

\* TerminateAndReap: a blocking waitpid(), which also returns with ECHILD
\* when another waiter of the process has taken the child.
TerminateAndReap ==
    /\ pc = "abort"
    /\ child # "running"
    /\ child' = IF child = "zombie" THEN "reaped" ELSE child
    /\ FinishError
    /\ UNCHANGED <<closing, force_close_requested, requests, accepted,
                   readVars, writeVars, closeVars, exitVars, stack, batches,
                   fired, produced, slave_open, room, read_edge, proc_edge, killed>>

-----------------------------------------------------------------------------
(* The event loop.                                                          *)

Ready == {f \in Filter : \/ f = "READ" /\ read_enabled /\ read_edge
                         \/ f = "WRITE" /\ write_enabled
                         \/ f = "PROC" /\ proc_edge}

\* kevent() delivers everything that is ready, or times out with nothing.
Wait ==
    /\ pc = "wait"
    /\ fired' = Ready
    /\ read_edge' = (read_edge /\ "READ" \notin Ready)
    /\ proc_edge' = (proc_edge /\ "PROC" \notin Ready)
    /\ pc' = "dispatch"
    /\ UNCHANGED <<clientVars, readVars, writeVars, closeVars, exitVars, stack,
                   batches, produced, slave_open, room, child, killed, events>>

WaitFails ==
    /\ pc = "wait" /\ Faults
    /\ pc' = "abort"
    /\ Kill
    /\ UNCHANGED <<clientVars, readVars, writeVars, closeVars, exitVars, stack,
                   batches, fired, produced, slave_open, room, read_edge,
                   proc_edge, child, events>>

CompletesOwnChildOnly(observed) == child = "zombie"

\* waitpid() collects a zombie; it fails with ECHILD on a child another waiter
\* took, whose exit status is known once EVFILT_PROC was observed.
Completes(observed) == child = "zombie" \/ (child = "lost" /\ observed)

\* ReapChild, non-blocking; completion purges the write queue.
ReapChild(observed) ==
    LET taken == child = "zombie" IN
    IF ~child_completed /\ Completes(observed)
    THEN /\ child_completed' = TRUE
         /\ exit_observed' = (observed \/ taken)
         /\ child' = IF taken THEN "reaped" ELSE child
         /\ writes' = <<>> /\ write_offset' = 0 /\ write_queued' = 0
    ELSE /\ exit_observed' = observed
         /\ UNCHANGED <<child_completed, child, writes, write_offset,
                        write_queued>>

Dispatch ==
    /\ pc = "dispatch"
    /\ IF fired = {}
       THEN /\ Call("control", "retry")
            /\ UNCHANGED <<fired, writeVars, exitVars, child>>
       ELSE \E filter \in fired :
            /\ fired' = fired \ {filter}
            /\ UNCHANGED write_enabled
            /\ CASE filter = "READ" ->
                    /\ Call("read", "dispatch")
                    /\ UNCHANGED <<writes, write_offset, write_queued, exitVars,
                                   child>>
                 [] filter = "WRITE" ->
                    /\ Call("flush", "dispatch")
                    /\ UNCHANGED <<writes, write_offset, write_queued, exitVars,
                                   child>>
                 [] filter = "PROC" ->
                    /\ ReapChild(TRUE)
                    /\ UNCHANGED <<pc, stack>>
    /\ UNCHANGED <<clientVars, readVars, closeVars, batches, produced,
                   slave_open, room, read_edge, proc_edge, killed, events>>

ResumesBelowLowWater == read_paused /\ read_in_flight < LowWater
ResumesWithoutCredit == read_paused

ReadResumes == read_paused /\ read_in_flight <= LowWater

\* The locked part of ProcessControl() and the signals it then sends; the
\* deadline may already be over when a grace period of zero is armed.
ProcessControl ==
    LET begin == closing /\ ~close_started /\ ~force_close_requested
        force == force_close_requested /\ ~child_completed
    IN
    /\ pc = "control"
    /\ requests' = {}
    /\ force_close_requested' = FALSE
    /\ close_started' = (close_started \/ begin \/ force_close_requested)
    /\ \E deadline \in IF force THEN {"none"}
                       ELSE IF begin THEN {"armed", "due"}
                       ELSE {close_kill_deadline} :
         LET expired == close_started' /\ ~child_completed /\ deadline = "due" IN
         /\ close_kill_deadline' = IF expired THEN "none" ELSE deadline
         /\ IF force \/ expired THEN Kill ELSE UNCHANGED killed
    /\ IF ReadResumes
       THEN /\ read_enabled' = TRUE
            /\ read_paused' = (read_paused /\ read_enabled)
            /\ Call("read", "flush")
       ELSE /\ pc' = "flush"
            /\ UNCHANGED <<read_enabled, read_paused, stack>>
    /\ UNCHANGED <<state, closing, accepted, outstanding, next_sequence,
                   read_in_flight, bytes_read, read_retry, master_eof, truncated,
                   writeVars, exitVars, batches, fired, produced, slave_open, room,
                   read_edge, proc_edge, child, events>>

Retry ==
    /\ pc = "retry"
    /\ IF read_retry THEN Call("read", "reap")
                     ELSE pc' = "reap" /\ UNCHANGED stack
    /\ UNCHANGED <<clientVars, readVars, writeVars, closeVars, exitVars,
                   batches, fired, kernelVars, events>>

\* Once the child has completed, every turn reads, paused or not.
Reap ==
    /\ pc = "reap"
    /\ ReapChild(exit_observed)
    /\ IF child_completed' THEN Call("read", "decide")
                           ELSE pc' = "wait" /\ UNCHANGED stack
    /\ UNCHANGED <<clientVars, readVars, write_enabled, closeVars, batches,
                   fired, produced, slave_open, room, read_edge, proc_edge, killed,
                   events>>

DrainedBeforeEof == outstanding = <<>>
DrainedUnacknowledged == master_eof \/ read_in_flight >= HighWater

Drained ==
    (master_eof \/ read_in_flight >= HighWater) /\ outstanding = <<>>

\* The end of EventLoop()'s turn, and FinishExit().
Decide ==
    /\ pc = "decide"
    /\ IF Drained
       THEN /\ state' = "finished"
            /\ pc' = "done"
            /\ events' = Append(events, Lifecycle("EXIT"))
       ELSE pc' = "wait" /\ UNCHANGED <<state, events>>
    /\ UNCHANGED <<closing, force_close_requested, requests, accepted,
                   readVars, writeVars, closeVars, exitVars, stack, batches,
                   fired, kernelVars>>

-----------------------------------------------------------------------------
(* ReadAvailable(), one iteration of its loop per step.                     *)

\* The terminal is at end of file already.
ReadAfterEof ==
    /\ pc = "read" /\ master_eof
    /\ read_retry' = FALSE
    /\ Return
    /\ UNCHANGED <<outstanding, next_sequence, read_in_flight, bytes_read,
                   read_paused, read_enabled, master_eof, truncated, clientVars,
                   writeVars, closeVars, exitVars, fired, kernelVars, events>>

PauseUnmarked == read_enabled' = FALSE /\ UNCHANGED read_paused

Pause == read_enabled' = FALSE /\ read_paused' = TRUE

\* No credit is left: pause until the client acknowledges down to LowWater.
ReadPauses ==
    /\ pc = "read" /\ ~master_eof
    /\ read_in_flight >= HighWater
    /\ Pause
    /\ read_retry' = FALSE
    /\ Return
    /\ UNCHANGED <<outstanding, next_sequence, read_in_flight, bytes_read,
                   master_eof, truncated, clientVars, writeVars, closeVars,
                   exitVars, fired, kernelVars, events>>

Unread == produced - bytes_read
AvailableUncapped == ReadBatch
Available == Lesser(ReadBatch, HighWater - read_in_flight)

\* read() finds nothing: EAGAIN, or the end of file once no process holds the
\* slave.
ReadNothing ==
    /\ pc = "read" /\ ~master_eof
    /\ read_in_flight < HighWater
    /\ Unread = 0
    /\ master_eof' = ~slave_open
    /\ read_enabled' = (read_enabled /\ slave_open)
    /\ read_retry' = FALSE
    /\ Return
    /\ UNCHANGED <<outstanding, next_sequence, read_in_flight, bytes_read,
                   read_paused, truncated, clientVars, writeVars, closeVars,
                   exitVars, fired, kernelVars, events>>

\* Any other errno is taken for the end of file, whatever has not been read.
ReadFails ==
    /\ Faults
    /\ pc = "read" /\ ~master_eof
    /\ read_in_flight < HighWater
    /\ master_eof' = TRUE /\ truncated' = TRUE
    /\ read_enabled' = FALSE /\ read_retry' = FALSE
    /\ Return
    /\ UNCHANGED <<outstanding, next_sequence, read_in_flight, bytes_read,
                   read_paused, clientVars, writeVars, closeVars, exitVars,
                   fired, kernelVars, events>>

\* With a turn limit the loop gathers several read() results into one batch, so
\* behind its bytes it may meet the end of file, or an error.
ReadEnds(length) ==
    \/ UNCHANGED <<master_eof, truncated>>
    \/ /\ TurnMode /\ length < Available
       /\ master_eof' = TRUE
       /\ \/ ~slave_open /\ length = Unread /\ UNCHANGED truncated
          \/ Faults /\ truncated' = TRUE

\* One batch of at most Available bytes, after which the loop pauses when there
\* is a turn limit, and else goes on, up to TurnBatches batches.
ReadBatchOf(length) ==
    LET batch == [sequence |-> next_sequence, from |-> bytes_read,
                  length |-> length]
        last == ~TurnMode /\ batches + 1 >= TurnBatches
    IN
    /\ pc = "read" /\ ~master_eof
    /\ read_in_flight < HighWater
    /\ length \in 1..Lesser(Available, Unread)
    /\ ReadEnds(length)
    /\ outstanding' = Append(outstanding, batch)
    /\ next_sequence' = next_sequence + 1
    /\ read_in_flight' = read_in_flight + length
    /\ bytes_read' = bytes_read + length
    /\ IF TurnMode THEN Pause ELSE UNCHANGED <<read_paused, read_enabled>>
    /\ read_retry' = last
    /\ IF TurnMode \/ last
       THEN Return
       ELSE batches' = batches + 1 /\ UNCHANGED <<pc, stack>>
    /\ events' = Append(events, Output(batch))
    /\ UNCHANGED <<clientVars, writeVars, closeVars, exitVars, fired,
                   kernelVars>>

ReadAvailable ==
    \/ ReadAfterEof \/ ReadPauses \/ ReadNothing \/ ReadFails
    \/ \E length \in 1..ReadBatch : ReadBatchOf(length)

-----------------------------------------------------------------------------
(* FlushWrites(), one iteration of its loop per step.                       *)

FlushAwaitsFilter == child_completed \/ writes = <<>> \/ ~write_enabled

NothingToFlush == child_completed \/ writes = <<>>

FlushEnds ==
    /\ pc = "flush" /\ NothingToFlush
    /\ write_enabled' = (write_enabled /\ child_completed)
    /\ Return
    /\ UNCHANGED <<writes, write_offset, write_queued, clientVars, readVars,
                   closeVars, exitVars, fired, kernelVars, events>>

RemainsWhole(request) == request.length

\* What a partial write has left of the first request.
Remains(request) == request.length - write_offset

\* write() accepts some bytes of the first request, as the terminal has room;
\* the turn ends after TurnBatches of them, or early when it has moved 512 KiB.
FlushChunk(length) ==
    LET request == Head(writes)
        complete == length = Remains(request)
    IN
    /\ pc = "flush" /\ ~NothingToFlush
    /\ slave_open /\ room
    /\ room' \in BOOLEAN
    /\ length \in 1..Remains(request)
    /\ writes' = IF complete THEN Tail(writes) ELSE writes
    /\ write_offset' = IF complete THEN 0 ELSE write_offset + length
    /\ write_queued' = write_queued - length
    /\ \/ Return
       \/ /\ batches + 1 < TurnBatches
          /\ batches' = batches + 1
          /\ UNCHANGED <<pc, stack>>
    /\ UNCHANGED <<write_enabled, clientVars, readVars, closeVars, exitVars,
                   fired, produced, slave_open, read_edge, proc_edge, child,
                   killed, events>>

\* EAGAIN asks for EVFILT_WRITE; any other error just ends the turn.
FlushBlocked ==
    /\ pc = "flush" /\ ~NothingToFlush
    /\ \/ ~(slave_open /\ room) /\ write_enabled' = TRUE
       \/ (~slave_open \/ Faults) /\ UNCHANGED write_enabled
    /\ Return
    /\ UNCHANGED <<writes, write_offset, write_queued, clientVars, readVars,
                   closeVars, exitVars, fired, kernelVars, events>>

FlushWrites ==
    \/ FlushEnds \/ FlushBlocked
    \/ \E length \in 1..WriteCapacity : FlushChunk(length)

-----------------------------------------------------------------------------
(* The kernel and the child process.                                        *)

Produce ==
    /\ slave_open /\ produced < MaxOutput
    /\ produced' = produced + 1
    /\ read_edge' = TRUE
    /\ UNCHANGED <<clientVars, readVars, writeVars, closeVars, exitVars,
                   flowVars, slave_open, room, proc_edge, child, killed, events>>

ChildExits ==
    /\ child = "running"
    /\ child' = "zombie"
    /\ proc_edge' = TRUE
    /\ UNCHANGED <<clientVars, readVars, writeVars, closeVars, exitVars,
                   flowVars, produced, slave_open, room, read_edge, killed, events>>

\* Another process-wide waiter takes the zombie.
ExternalReap ==
    /\ child = "zombie"
    /\ child' = "lost"
    /\ UNCHANGED <<clientVars, readVars, writeVars, closeVars, exitVars,
                   flowVars, produced, slave_open, room, read_edge, proc_edge,
                   killed, events>>

\* The last process closes the terminal; the child may live on without one.
SlaveCloses ==
    /\ slave_open
    /\ slave_open' = FALSE
    /\ read_edge' = TRUE
    /\ UNCHANGED <<clientVars, readVars, writeVars, closeVars, exitVars,
                   flowVars, produced, room, proc_edge, child, killed, events>>

\* A process of a living child's session opens the terminal again, perhaps behind
\* the end of file that the reactor has seen.
SlaveReopens ==
    /\ ~slave_open /\ child = "running"
    /\ slave_open' = TRUE
    /\ truncated' = (truncated \/ master_eof)
    /\ UNCHANGED <<clientVars, outstanding, next_sequence, read_in_flight,
                   bytes_read, read_paused, read_enabled, read_retry, master_eof,
                   writeVars, closeVars, exitVars, flowVars, produced, room,
                   read_edge, proc_edge, child, killed, events>>

\* A process reads its terminal.
InputTaken ==
    /\ slave_open /\ ~room
    /\ room' = TRUE
    /\ UNCHANGED <<clientVars, readVars, writeVars, closeVars, exitVars, flowVars,
                   produced, slave_open, read_edge, proc_edge, child, killed,
                   events>>

GraceExpires ==
    /\ close_kill_deadline = "armed"
    /\ close_kill_deadline' = "due"
    /\ UNCHANGED <<clientVars, readVars, writeVars, close_started, exitVars,
                   flowVars, kernelVars, events>>

-----------------------------------------------------------------------------
AcknowledgeNext ==
    \E batch \in {outstanding[i] : i \in 1..Len(outstanding)} :
        Acknowledge(batch.sequence, batch.length)

ClientControl ==
    \/ Start \/ Resize \/ SendSignal \/ Close \/ ForceClose
    \/ \E length \in WriteLengths : EnqueueWrite(length)

Reactor ==
    \/ Spawn \/ CheckExec \/ ConfigureKqueue \/ TerminateAndReap
    \/ Wait \/ Dispatch \/ ProcessControl \/ Retry \/ Reap \/ Decide
    \/ ReadAvailable \/ FlushWrites

Environment ==
    \/ Produce \/ ChildExits \/ ExternalReap \/ GraceExpires
    \/ SlaveCloses \/ SlaveReopens \/ InputTaken

Next ==
    \/ ClientControl \/ AcknowledgeNext
    \/ Reactor \/ WaitFails
    \/ Environment

Spec == Init /\ [][Next]_vars

\* The terminal is revoked after its session leader has exited.
Revoked == child # "running" /\ SlaveCloses

\* Scheduling: the reactor thread runs, the client acknowledges what it was
\* given, a killed child dies, the terminal of a dead leader is revoked and
\* the clock moves.  Nothing is asked of a child that was not killed.
Fairness ==
    /\ WF_vars(Reactor) /\ WF_vars(AcknowledgeNext)
    /\ WF_vars(killed /\ ChildExits) /\ WF_vars(Revoked)
    /\ WF_vars(GraceExpires)

FairSpec == Spec /\ Fairness

-----------------------------------------------------------------------------
(* Properties.                                                              *)

TypeOK ==
    /\ state \in {"created", "running", "finished"}
    /\ closing \in BOOLEAN /\ close_started \in BOOLEAN
    /\ force_close_requested \in BOOLEAN
    /\ close_kill_deadline \in {"none", "armed", "due"}
    /\ requests \subseteq {"resize", "signal"}
    /\ outstanding \in Seq(Batch) /\ next_sequence \in Nat
    /\ read_in_flight \in Nat /\ bytes_read \in Nat
    /\ read_paused \in BOOLEAN /\ read_enabled \in BOOLEAN
    /\ read_retry \in BOOLEAN /\ master_eof \in BOOLEAN /\ truncated \in BOOLEAN
    /\ writes \in Seq(Request) /\ write_offset \in Nat
    /\ write_queued \in Nat /\ write_enabled \in BOOLEAN
    /\ accepted \in Nat
    /\ child_completed \in BOOLEAN /\ exit_observed \in BOOLEAN
    /\ pc \in Label /\ stack \in Seq(Label) /\ batches \in Nat
    /\ fired \subseteq Filter
    /\ produced \in Nat /\ slave_open \in BOOLEAN /\ room \in BOOLEAN
    /\ read_edge \in BOOLEAN /\ proc_edge \in BOOLEAN
    /\ child \in {"none", "running", "zombie", "reaped", "lost"}
    /\ killed \in BOOLEAN
    /\ events \in Seq(Event)

\* Consecutive intervals of one stream that end at the position `end`.
Contiguous(intervals, end) ==
    /\ \A i \in 1..(Len(intervals) - 1) :
           intervals[i + 1].from = EndOf(intervals[i])
    /\ intervals # <<>> => EndOf(intervals[Len(intervals)]) = end

\* The retained batches are one gapless piece of the output stream, numbered
\* without a gap, that ends where reading stopped.
BatchesContiguous ==
    /\ Contiguous(outstanding, bytes_read)
    /\ \A i \in 1..Len(outstanding) :
           outstanding[i].sequence = next_sequence - Len(outstanding) + i - 1

\* Read credit is conserved between the reactor's reads and the client's
\* acknowledgements: read_in_flight_bytes_ is exactly what is retained and
\* never exceeds the high watermark.
CreditConserved ==
    /\ BatchesContiguous
    /\ read_in_flight = IF outstanding = <<>> THEN 0
                        ELSE bytes_read - Head(outstanding).from
    /\ read_in_flight <= HighWater

\* The write queue is exactly the accepted input not yet written, in order and
\* within its capacity, through partial writes and the purge at child exit,
\* after which nothing can be queued again.
WriteQueueConserved ==
    /\ Contiguous(writes, accepted)
    /\ write_queued = IF writes = <<>> THEN 0
                      ELSE accepted - Head(writes).from - write_offset
    /\ writes # <<>> => write_offset < Head(writes).length
    /\ writes = <<>> => write_offset = 0
    /\ write_queued <= WriteCapacity
    /\ child_completed => writes = <<>>

\* A reader whose kqueue filter is off, short of end of file, is marked as
\* paused, so the next acknowledgement down to the low watermark resumes it.
NoLostResume == ~read_enabled /\ ~master_eof => read_paused

\* STARTED comes first, EXIT or ERROR exactly once and last, EXIT only of a
\* session that started; the session is finished exactly when it was told,
\* unless it never had a thread to tell it.
LifecycleOnce ==
    /\ \A i \in 1..Len(events) :
         /\ events[i].type = "STARTED" => i = 1
         /\ events[i].type \in {"EXIT", "ERROR"} => i = Len(events)
         /\ events[i].type \in {"OUTPUT", "EXIT"} => events[1].type = "STARTED"
    /\ state = "finished" /\ pc # "idle" <=>
         \E i \in 1..Len(events) : events[i].type \in {"EXIT", "ERROR"}

Ended(type) == \E i \in 1..Len(events) : events[i].type = type

\* EXIT tells that everything read was acknowledged, so the session can be
\* destroyed at once, and that everything the child wrote was read, unless the
\* end of file was none or the terminal was opened again behind it; and no way
\* of finishing leaves the child running or unreaped.
ExitIsComplete ==
    /\ Ended("EXIT") => /\ CanDestroy /\ master_eof
                        /\ truncated \/ (bytes_read = produced /\ ~slave_open)
    /\ state = "finished" => child \notin {"running", "zombie"}

\* With a turn limit and a low watermark of zero, a session whose child lives
\* has at most one batch awaiting its acknowledgement.
SerialDelivery ==
    TurnMode /\ LowWater = 0 /\ ~child_completed => Len(outstanding) <= 1

\* The session implements its contract: acknowledged bytes are those read and
\* no longer in flight.
Contract == INSTANCE PtyContract WITH
    Window <- HighWater,
    phase <- IF state # "finished" THEN state
             ELSE IF Ended("EXIT") THEN "exited" ELSE "failed",
    cut <- truncated, sent <- produced, delivered <- bytes_read,
    acked <- bytes_read - read_in_flight

ImplementsContract == Contract!Spec

\* A session that was asked to close finishes, whatever the child ignores.
CloseFinishes == closing ~> state = "finished"

\* A child that has exited, reaped here or elsewhere, ends the session.
ExitFinishes == child \in {"zombie", "lost"} ~> state = "finished"

\* Every byte the child wrote is delivered, unless reading ended before it.
OutputDelivered ==
    \A n \in 1..MaxOutput : produced >= n ~> bytes_read >= n \/ truncated

Unplugged == child # "none" /\ ~slave_open

\* If the terminal has room again and again, every accepted byte reaches it,
\* unless the child has gone or the terminal is closed first.
InputDelivered ==
    []<>room => \A n \in 1..MaxInput :
        accepted >= n ~> \/ child_completed \/ Unplugged
                         \/ accepted - write_queued >= n
=============================================================================
