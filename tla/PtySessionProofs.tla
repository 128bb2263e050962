-------------------------- MODULE PtySessionProofs --------------------------
(***************************************************************************)
(* Theorems of PtySession for every value of its constants.  The inductive *)
(* invariant is built in layers: Typed says where the thread may return to *)
(* and types everything but the two byte counters, Credit and Queue then   *)
(* conserve those, and TypeOK follows from the three.                      *)
(***************************************************************************)
EXTENDS PtySession, SequenceTheorems, TLAPS

-----------------------------------------------------------------------------
(* Typed: the types, with the counters as integers, and the return stack.   *)

StackShape ==
    /\ pc \in {"idle", "spawn", "exec", "kqueue", "wait", "dispatch", "retry",
               "reap", "decide", "abort", "done"} => stack = <<>>
    /\ pc = "control" => stack \in {<<"wait">>, <<"retry">>}
    /\ pc = "flush" => stack \in {<<"dispatch">>, <<"wait">>, <<"retry">>}
    /\ pc = "read" => stack \in {<<"dispatch">>, <<"reap">>, <<"decide">>,
                                 <<"flush", "wait">>, <<"flush", "retry">>}

ClientTyped ==
    /\ state \in {"created", "running", "finished"}
    /\ closing \in BOOLEAN /\ force_close_requested \in BOOLEAN
    /\ requests \subseteq {"resize", "signal"} /\ accepted \in Nat
ReadTyped ==
    /\ outstanding \in Seq(Batch) /\ next_sequence \in Nat
    /\ read_in_flight \in Int /\ bytes_read \in Nat
    /\ read_paused \in BOOLEAN /\ read_enabled \in BOOLEAN
    /\ read_retry \in BOOLEAN /\ master_eof \in BOOLEAN
    /\ truncated \in BOOLEAN
WriteTyped ==
    /\ writes \in Seq(Request) /\ write_offset \in Nat
    /\ write_queued \in Int /\ write_enabled \in BOOLEAN
CloseTyped ==
    /\ close_started \in BOOLEAN
    /\ close_kill_deadline \in {"none", "armed", "due"}
ExitTyped == child_completed \in BOOLEAN /\ exit_observed \in BOOLEAN
FlowTyped ==
    /\ pc \in Label /\ batches \in Nat /\ fired \subseteq Filter
    /\ StackShape
KernelTyped ==
    /\ produced \in Nat /\ slave_open \in BOOLEAN /\ room \in BOOLEAN
    /\ read_edge \in BOOLEAN /\ proc_edge \in BOOLEAN
    /\ child \in {"none", "running", "zombie", "reaped", "lost"}
    /\ killed \in BOOLEAN
EventsTyped == events \in Seq(Event)
\* The thread exists while the session runs; it may never come to be.
Threaded ==
    /\ state = "created" => pc = "idle"
    /\ state = "running" <=> pc \notin {"idle", "done"}

Typed ==
    /\ ClientTyped /\ ReadTyped /\ WriteTyped /\ CloseTyped /\ ExitTyped
    /\ FlowTyped /\ KernelTyped /\ EventsTyped /\ Threaded

\* A return leaves a shape of the stack that fits where it goes.
LEMMA ReturnShape ==
    ASSUME StackShape, pc \in {"read", "flush"}, Return
    PROVE  StackShape' /\ pc' \in Label /\ batches' \in Nat
<1>1. ASSUME NEW label \in {"dispatch", "wait", "retry", "reap", "decide"},
             stack = <<label>>
      PROVE  StackShape' /\ pc' \in Label
  <2>1. Head(stack) = label /\ Tail(stack) = <<>>
    BY <1>1
  <2>2. pc' = label /\ stack' = <<>>
    BY <2>1 DEF Return
  <2> QED BY <2>2 DEF StackShape, Label
<1>2. ASSUME NEW label \in {"wait", "retry"}, stack = <<"flush", label>>
      PROVE  StackShape' /\ pc' \in Label
  <2>1. Head(stack) = "flush" /\ Tail(stack) = <<label>>
    BY <1>2
  <2>2. pc' = "flush" /\ stack' = <<label>>
    BY <2>1 DEF Return
  <2> QED BY <2>2 DEF StackShape, Label
<1>3. \/ \E label \in {"dispatch", "wait", "retry", "reap", "decide"} :
             stack = <<label>>
      \/ \E label \in {"wait", "retry"} : stack = <<"flush", label>>
  BY DEF StackShape
<1>4. batches' \in Nat
  BY DEF Return
<1> QED BY <1>1, <1>2, <1>3, <1>4

LEMMA TypedInit == Init => Typed
<1> SUFFICES ASSUME Init PROVE Typed
  OBVIOUS
<1>1. ClientTyped
  BY DEF Init, ClientTyped
<1>0. <<>> \in Seq(Batch) /\ <<>> \in Seq(Request)
  OBVIOUS
<1>2. ReadTyped
  <2>1. outstanding \in Seq(Batch)
    BY <1>0 DEF Init
  <2>2. /\ next_sequence \in Nat /\ read_in_flight \in Int
        /\ bytes_read \in Nat
    BY DEF Init
  <2> QED BY <2>1, <2>2 DEF Init, ReadTyped
<1>3. WriteTyped
  <2>1. writes \in Seq(Request)
    BY <1>0 DEF Init
  <2>2. write_offset \in Nat /\ write_queued \in Int
    BY DEF Init
  <2> QED BY <2>1, <2>2 DEF Init, WriteTyped
<1>4. CloseTyped /\ ExitTyped
  BY DEF Init, CloseTyped, ExitTyped
<1>5. FlowTyped
  BY DEF Init, FlowTyped, StackShape, Label
<1>6. KernelTyped /\ EventsTyped
  BY EmptySeq DEF Init, KernelTyped, EventsTyped
<1>7. Threaded
  BY DEF Init, Threaded
<1> QED BY <1>1, <1>2, <1>3, <1>4, <1>5, <1>6, <1>7 DEF Typed

\* A group of variables a step leaves alone keeps its types.
LEMMA Untouched ==
    ASSUME Typed
    PROVE  /\ UNCHANGED clientVars => ClientTyped'
           /\ UNCHANGED readVars => ReadTyped'
           /\ UNCHANGED writeVars => WriteTyped'
           /\ UNCHANGED closeVars => CloseTyped'
           /\ UNCHANGED exitVars => ExitTyped'
           /\ UNCHANGED flowVars => FlowTyped'
           /\ UNCHANGED kernelVars => KernelTyped'
           /\ UNCHANGED events => EventsTyped'
           /\ UNCHANGED <<state, pc>> => Threaded'
<1>1. UNCHANGED clientVars => ClientTyped'
  BY DEF Typed, ClientTyped, clientVars
<1>2. UNCHANGED readVars => ReadTyped'
  BY DEF Typed, ReadTyped, readVars
<1>3. UNCHANGED writeVars => WriteTyped'
  BY DEF Typed, WriteTyped, writeVars
<1>4. UNCHANGED closeVars => CloseTyped'
  BY DEF Typed, CloseTyped, closeVars
<1>5. UNCHANGED exitVars => ExitTyped'
  BY DEF Typed, ExitTyped, exitVars
<1>6. UNCHANGED flowVars => FlowTyped'
  BY DEF Typed, FlowTyped, flowVars, StackShape
<1>7. UNCHANGED kernelVars => KernelTyped'
  BY DEF Typed, KernelTyped, kernelVars
<1>8. UNCHANGED events => EventsTyped'
  BY DEF Typed, EventsTyped
<1>9. UNCHANGED <<state, pc>> => Threaded'
  BY DEF Typed, Threaded
<1> QED BY <1>1, <1>2, <1>3, <1>4, <1>5, <1>6, <1>7, <1>8, <1>9

LEMMA TypedClient ==
    ASSUME Typed, ClientControl \/ AcknowledgeNext
    PROVE  Typed'
<1>1. CASE Start
  <2>1. ClientTyped'
    BY <1>1 DEF Start, Typed, ClientTyped
  <2>2. FlowTyped'
    BY <1>1 DEF Start, Typed, FlowTyped, StackShape, Label, Threaded
  <2>3. Threaded'
    BY <1>1 DEF Start, Typed, Threaded
  <2> QED BY <1>1, <2>1, <2>2, <2>3, Untouched DEF Start, Typed
<1>2. CASE Resize \/ SendSignal
  <2>1. ClientTyped'
    BY <1>2 DEF Resize, SendSignal, Post, Typed, ClientTyped
  <2> QED BY <1>2, <2>1, Untouched
         DEF Resize, SendSignal, Post, Typed, flowVars
<1>3. CASE Close \/ ForceClose
  <2>1. ClientTyped'
    BY <1>3 DEF Close, ForceClose, Typed, ClientTyped
  <2> QED BY <1>3, <2>1, Untouched DEF Close, ForceClose, Typed, flowVars
<1>4. ASSUME NEW length \in WriteLengths, EnqueueWrite(length)
      PROVE  Typed'
  <2>1. length \in Nat \ {0}
    BY WriteAssumption
  <2>2. ClientTyped'
    BY <1>4, <2>1 DEF EnqueueWrite, Typed, ClientTyped
  <2>3. [from |-> accepted, length |-> length] \in Request
    BY <2>1 DEF Request, Typed, ClientTyped
  <2>4. WriteTyped'
    BY <1>4, <2>1, <2>3 DEF EnqueueWrite, Typed, WriteTyped
  <2> QED BY <1>4, <2>2, <2>4, Untouched DEF EnqueueWrite, Typed, flowVars
<1>5. ASSUME NEW sequence, NEW length, Acknowledge(sequence, length)
      PROVE  Typed'
  <2>1. outstanding # <<>> /\ Head(outstanding) \in Batch
    BY <1>5 DEF Acknowledge, AcknowledgeAccepted, Typed, ReadTyped
  <2>2. length \in Nat
    BY <1>5, <2>1 DEF Acknowledge, AcknowledgeAccepted, Batch
  <2>3. ReadTyped'
    BY <1>5, <2>1, <2>2 DEF Acknowledge, Typed, ReadTyped
  <2> QED BY <1>5, <2>3, Untouched
         DEF Acknowledge, Typed, flowVars, clientVars
<1> QED BY <1>1, <1>2, <1>3, <1>4, <1>5 DEF ClientControl, AcknowledgeNext

-----------------------------------------------------------------------------
(* Typed under the reactor's steps.                                         *)

LEMMA CallShape ==
    ASSUME NEW continuation \in Label
    PROVE  /\ <<continuation>> \o <<>> = <<continuation>>
           /\ \A label \in Label :
                  <<continuation>> \o <<label>> = <<continuation, label>>
<1>1. <<continuation>> \in Seq(Label)
  OBVIOUS
<1>2. <<continuation>> \o <<>> = <<continuation>>
  BY <1>1, ConcatEmptySeq
<1>3. ASSUME NEW label \in Label
      PROVE  <<continuation>> \o <<label>> = <<continuation, label>>
  <2>1. <<label>> \in Seq(Label) /\ <<continuation, label>> \in Seq(Label)
    OBVIOUS
  <2>2. Len(<<continuation>> \o <<label>>) = 2
    BY <1>1, <2>1, ConcatProperties
  <2>3. /\ (<<continuation>> \o <<label>>)[1] = continuation
        /\ (<<continuation>> \o <<label>>)[2] = label
    BY <1>1, <2>1, ConcatProperties
  <2>4. <<continuation>> \o <<label>> \in Seq(Label)
    BY <1>1, <2>1, ConcatProperties
  <2>5. Len(<<continuation, label>>) = 2
    OBVIOUS
  <2>6. \A i \in 1..2 : (<<continuation>> \o <<label>>)[i] =
                         <<continuation, label>>[i]
    BY <2>3
  <2> QED BY <2>1, <2>2, <2>4, <2>5, <2>6, SeqEqual
<1> QED BY <1>2, <1>3

\* Starting the thread: Spawn, CheckExec, ConfigureKqueue and their failures.
LEMMA TypedStartup ==
    ASSUME Typed, Spawn \/ CheckExec \/ ConfigureKqueue \/ TerminateAndReap
    PROVE  Typed'
<1>0. Lifecycle("STARTED") \in Event /\ Lifecycle("ERROR") \in Event
  BY DEF Lifecycle, Event, EventType
<1>1. CASE Spawn
  <2>1. ClientTyped' /\ EventsTyped'
    BY <1>0, <1>1, AppendProperties
    DEF Spawn, FinishError, Typed, ClientTyped, EventsTyped
  <2>2. FlowTyped' /\ Threaded'
    BY <1>1 DEF Spawn, FinishError, Typed, FlowTyped, Threaded, StackShape,
                Label
  <2>3. KernelTyped'
    BY <1>1 DEF Spawn, Typed, KernelTyped
  <2> QED BY <1>1, <2>1, <2>2, <2>3, Untouched DEF Spawn, Typed
<1>2. CASE CheckExec
  <2>1. FlowTyped' /\ Threaded'
    BY <1>2 DEF CheckExec, Prepare, Typed, FlowTyped, Threaded, StackShape,
                Label, clientVars
  <2>2. KernelTyped'
    BY <1>2 DEF CheckExec, Prepare, Kill, Typed, KernelTyped
  <2> QED BY <1>2, <2>1, <2>2, Untouched DEF CheckExec, Prepare, Typed
<1>3. CASE ConfigureKqueue
  <2>1. FlowTyped' /\ Threaded'
    BY <1>3 DEF ConfigureKqueue, Prepare, Typed, FlowTyped, Threaded,
                StackShape, Label, clientVars
  <2>2. KernelTyped'
    BY <1>3 DEF ConfigureKqueue, Prepare, Kill, Typed, KernelTyped
  <2>3. EventsTyped'
    BY <1>0, <1>3, AppendProperties DEF ConfigureKqueue, Typed, EventsTyped
  <2> QED BY <1>3, <2>1, <2>2, <2>3, Untouched
          DEF ConfigureKqueue, Prepare, Typed
<1>4. CASE TerminateAndReap
  <2>1. ClientTyped' /\ EventsTyped'
    BY <1>0, <1>4, AppendProperties
    DEF TerminateAndReap, FinishError, Typed, ClientTyped, EventsTyped
  <2>2. FlowTyped' /\ Threaded'
    BY <1>4 DEF TerminateAndReap, FinishError, Typed, FlowTyped, Threaded,
                StackShape, Label
  <2>3. KernelTyped'
    BY <1>4 DEF TerminateAndReap, Typed, KernelTyped
  <2> QED BY <1>4, <2>1, <2>2, <2>3, Untouched DEF TerminateAndReap, Typed
<1> QED BY <1>1, <1>2, <1>3, <1>4

\* A turn of the event loop outside ReadAvailable and FlushWrites.
LEMMA TypedLoop ==
    ASSUME Typed, Wait \/ WaitFails \/ Dispatch \/ ProcessControl \/ Retry
                  \/ Reap \/ Decide
    PROVE  Typed'
<1>1. CASE Wait
  <2>1. FlowTyped' /\ Threaded'
    BY <1>1 DEF Wait, Ready, Typed, FlowTyped, Threaded, StackShape, Label,
                clientVars
  <2>2. KernelTyped'
    BY <1>1 DEF Wait, Typed, KernelTyped
  <2> QED BY <1>1, <2>1, <2>2, Untouched DEF Wait, Typed
<1>2. CASE WaitFails
  <2>1. FlowTyped' /\ Threaded'
    BY <1>2 DEF WaitFails, Typed, FlowTyped, Threaded, StackShape, Label,
                clientVars
  <2>2. KernelTyped'
    BY <1>2 DEF WaitFails, Kill, Typed, KernelTyped
  <2> QED BY <1>2, <2>1, <2>2, Untouched DEF WaitFails, Typed
<1>3. ASSUME NEW observed \in BOOLEAN, ReapChild(observed),
             UNCHANGED <<produced, slave_open, room, read_edge, proc_edge,
             killed, write_enabled>>
      PROVE  WriteTyped' /\ ExitTyped' /\ KernelTyped'
  <2>1. <<>> \in Seq(Request)
    OBVIOUS
  <2>2. WriteTyped'
    <3>1. CASE writes' = <<>> /\ write_offset' = 0 /\ write_queued' = 0
      <4>1. writes' \in Seq(Request)
        BY <3>1, <2>1
      <4>2. write_offset' \in Nat /\ write_queued' \in Int
        BY <3>1
      <4> QED BY <1>3, <4>1, <4>2 DEF Typed, WriteTyped
    <3>2. CASE UNCHANGED <<writes, write_offset, write_queued>>
      BY <1>3, <3>2 DEF Typed, WriteTyped
    <3> QED BY <1>3, <3>1, <3>2 DEF ReapChild
  <2>3. ExitTyped'
    BY <1>3 DEF ReapChild, Typed, ExitTyped
  <2>4. KernelTyped'
    BY <1>3 DEF ReapChild, Typed, KernelTyped
  <2> QED BY <2>2, <2>3, <2>4
<1>4. CASE Dispatch
  <2>1. pc = "dispatch" /\ stack = <<>>
    BY <1>4 DEF Dispatch, Typed, FlowTyped, StackShape
  <2>2. CASE fired = {} /\ Call("control", "retry")
             /\ UNCHANGED <<fired, writeVars, exitVars, child>>
    <3>1. pc' = "control" /\ stack' = <<"retry">>
      BY <2>1, <2>2, CallShape DEF Call, Label
    <3>2. FlowTyped' /\ Threaded'
      BY <1>4, <2>1, <2>2, <3>1
      DEF Dispatch, Typed, FlowTyped, Threaded, StackShape, Label, clientVars
    <3>3. UNCHANGED kernelVars
      BY <1>4, <2>2 DEF Dispatch, kernelVars
    <3> QED BY <1>4, <2>2, <3>2, <3>3, Untouched DEF Dispatch, Typed
  <2>3. CASE /\ fired' \subseteq fired
             /\ UNCHANGED <<writeVars, exitVars, child>>
             /\ Call("read", "dispatch") \/ Call("flush", "dispatch")
    <3>1. pc' \in {"read", "flush"} /\ stack' = <<"dispatch">>
      BY <2>1, <2>3, CallShape DEF Call, Label
    <3>2. FlowTyped' /\ Threaded'
      BY <1>4, <2>1, <2>3, <3>1
      DEF Dispatch, Typed, FlowTyped, Threaded, StackShape, Label, clientVars
    <3>3. UNCHANGED kernelVars
      BY <1>4, <2>3 DEF Dispatch, kernelVars
    <3> QED BY <1>4, <2>3, <3>2, <3>3, Untouched DEF Dispatch, Typed
  <2>4. CASE /\ fired' \subseteq fired /\ ReapChild(TRUE)
             /\ UNCHANGED <<pc, stack, write_enabled>>
    <3>1. FlowTyped' /\ Threaded'
      BY <1>4, <2>1, <2>4
      DEF Dispatch, Typed, FlowTyped, Threaded, StackShape, Label, clientVars
    <3>2. UNCHANGED <<produced, slave_open, room, read_edge, proc_edge, killed>>
      BY <1>4 DEF Dispatch
    <3> QED BY <1>3, <1>4, <2>4, <3>1, <3>2, Untouched DEF Dispatch, Typed
  <2>5. ASSUME NEW filter \in fired, fired' = fired \ {filter},
               UNCHANGED write_enabled,
               CASE filter = "READ" ->
                    /\ Call("read", "dispatch")
                    /\ UNCHANGED <<writes, write_offset, write_queued, exitVars,
                                   child>>
                 [] filter = "WRITE" ->
                    /\ Call("flush", "dispatch")
                    /\ UNCHANGED <<writes, write_offset, write_queued, exitVars,
                                   child>>
                 [] filter = "PROC" ->
                    /\ ReapChild(TRUE)
                    /\ UNCHANGED <<pc, stack>>
        PROVE  Typed'
    <3>1. filter \in {"READ", "WRITE", "PROC"}
      BY DEF Typed, FlowTyped, Filter
    <3> QED BY <2>3, <2>4, <2>5, <3>1 DEF writeVars
  <2> QED BY <1>4, <2>2, <2>5 DEF Dispatch
<1>5. CASE ProcessControl
  <2>1. pc = "control" /\ stack \in {<<"wait">>, <<"retry">>}
    BY <1>5 DEF ProcessControl, Typed, FlowTyped, StackShape
  <2>2. ClientTyped'
    BY <1>5 DEF ProcessControl, Typed, ClientTyped
  <2>3. ReadTyped'
    BY <1>5 DEF ProcessControl, Typed, ReadTyped
  <2>4. CloseTyped'
    BY <1>5 DEF ProcessControl, Typed, ClientTyped, CloseTyped
  <2>5. killed' \in BOOLEAN
    BY <1>5 DEF ProcessControl, Kill, Typed, KernelTyped
  <2>6. KernelTyped'
    BY <1>5, <2>5 DEF ProcessControl, Typed, KernelTyped
  <2>7. \/ pc' = "read" /\ stack' \in {<<"flush", "wait">>, <<"flush", "retry">>}
        \/ pc' = "flush" /\ stack' = stack
    <3>1. "flush" \in Label /\ "wait" \in Label /\ "retry" \in Label
      BY DEF Label
    <3>2. <<"flush">> \o stack \in {<<"flush", "wait">>, <<"flush", "retry">>}
      BY <2>1, <3>1, CallShape
    <3>3. \/ Call("read", "flush")
          \/ pc' = "flush" /\ UNCHANGED stack
      BY <1>5 DEF ProcessControl
    <3> QED BY <3>2, <3>3 DEF Call
  <2>8. FlowTyped' /\ Threaded'
    BY <1>5, <2>1, <2>7
    DEF ProcessControl, Typed, FlowTyped, Threaded, StackShape, Label
  <2> QED BY <1>5, <2>2, <2>3, <2>4, <2>6, <2>8, Untouched
          DEF ProcessControl, Typed
<1>6. CASE Retry
  <2>1. pc = "retry" /\ stack = <<>>
    BY <1>6 DEF Retry, Typed, FlowTyped, StackShape
  <2>2. \/ pc' = "read" /\ stack' = <<"reap">>
        \/ pc' = "reap" /\ stack' = <<>>
    BY <1>6, <2>1, CallShape DEF Retry, Call, Label
  <2>3. FlowTyped' /\ Threaded'
    BY <1>6, <2>1, <2>2
    DEF Retry, Typed, FlowTyped, Threaded, StackShape, Label, clientVars
  <2> QED BY <1>6, <2>3, Untouched DEF Retry, Typed
<1>7. CASE Reap
  <2>1. pc = "reap" /\ stack = <<>>
    BY <1>7 DEF Reap, Typed, FlowTyped, StackShape
  <2>2. \/ pc' = "read" /\ stack' = <<"decide">>
        \/ pc' = "wait" /\ stack' = <<>>
    BY <1>7, <2>1, CallShape DEF Reap, Call, Label
  <2>3. FlowTyped' /\ Threaded'
    BY <1>7, <2>1, <2>2
    DEF Reap, Typed, FlowTyped, Threaded, StackShape, Label, clientVars
  <2>4. exit_observed \in BOOLEAN
    BY DEF Typed, ExitTyped
  <2> QED BY <1>3, <1>7, <2>3, <2>4, Untouched DEF Reap, Typed
<1>8. CASE Decide
  <2>1. Lifecycle("EXIT") \in Event
    BY DEF Lifecycle, Event, EventType
  <2>2. ClientTyped' /\ EventsTyped'
    BY <1>8, <2>1, AppendProperties DEF Decide, Typed, ClientTyped, EventsTyped
  <2>3. FlowTyped' /\ Threaded'
    BY <1>8 DEF Decide, Typed, FlowTyped, Threaded, StackShape, Label
  <2> QED BY <1>8, <2>2, <2>3, Untouched DEF Decide, Typed
<1> QED BY <1>1, <1>2, <1>4, <1>5, <1>6, <1>7, <1>8

-----------------------------------------------------------------------------
(* Typed under ReadAvailable, FlushWrites and the environment.              *)

LEMMA OutputTyped ==
    ASSUME NEW batch \in Batch
    PROVE  Output(batch) \in Event
BY DEF Output, Event, EventType, Batch

LEMMA TypedRead ==
    ASSUME Typed, ReadAvailable
    PROVE  Typed'
<1>1. ASSUME pc = "read", Return, UNCHANGED <<state, fired>>
      PROVE  FlowTyped' /\ Threaded'
  <2>1. StackShape' /\ pc' \in Label /\ batches' \in Nat
    BY <1>1, ReturnShape DEF Typed, FlowTyped
  <2>2. pc' \notin {"idle", "done"}
    BY <1>1 DEF Return, Typed, FlowTyped, StackShape
  <2> QED BY <1>1, <2>1, <2>2 DEF Typed, FlowTyped, Threaded
<1>2. CASE ReadAfterEof \/ ReadPauses \/ ReadNothing \/ ReadFails
  <2>1. ReadTyped'
    BY <1>2 DEF ReadAfterEof, ReadPauses, ReadNothing, ReadFails, Pause, Typed,
                ReadTyped, KernelTyped
  <2>2. FlowTyped' /\ Threaded'
    BY <1>1, <1>2
    DEF ReadAfterEof, ReadPauses, ReadNothing, ReadFails, clientVars
  <2> QED BY <1>2, <2>1, <2>2, Untouched
          DEF ReadAfterEof, ReadPauses, ReadNothing, ReadFails, Typed
<1>3. ASSUME NEW length \in 1..ReadBatch, ReadBatchOf(length)
      PROVE  Typed'
  <2> DEFINE batch == [sequence |-> next_sequence, from |-> bytes_read,
                       length |-> length]
  <2>1. length \in Nat \ {0}
    BY BatchAssumption
  <2>2. batch \in Batch
    BY <2>1 DEF Batch, Typed, ReadTyped
  <2>3. /\ outstanding' = Append(outstanding, batch)
        /\ events' = Append(events, Output(batch))
    BY <1>3 DEF ReadBatchOf
  <2>4. outstanding' \in Seq(Batch) /\ EventsTyped'
    BY <2>2, <2>3, OutputTyped, AppendProperties
    DEF Typed, ReadTyped, EventsTyped
  <2>5. ReadTyped'
    <3>1. /\ next_sequence' \in Nat /\ read_in_flight' \in Int
          /\ bytes_read' \in Nat
      BY <1>3, <2>1 DEF ReadBatchOf, Typed, ReadTyped
    <3>2. read_paused' \in BOOLEAN /\ read_enabled' \in BOOLEAN
      BY <1>3 DEF ReadBatchOf, Pause, Typed, ReadTyped
    <3>3. /\ read_retry' \in BOOLEAN /\ master_eof' \in BOOLEAN
          /\ truncated' \in BOOLEAN
      BY <1>3 DEF ReadBatchOf, ReadEnds, Typed, ReadTyped
    <3> QED BY <2>4, <3>1, <3>2, <3>3 DEF ReadTyped
  <2>6. FlowTyped' /\ Threaded'
    <3>1. CASE Return
      BY <1>1, <1>3, <3>1 DEF ReadBatchOf, clientVars
    <3>2. CASE batches' = batches + 1 /\ UNCHANGED <<pc, stack>>
      BY <1>3, <3>2
      DEF ReadBatchOf, Typed, FlowTyped, Threaded, StackShape, clientVars
    <3> QED BY <1>3, <3>1, <3>2 DEF ReadBatchOf
  <2> QED BY <1>3, <2>4, <2>5, <2>6, Untouched DEF ReadBatchOf, Typed
<1> QED BY <1>2, <1>3 DEF ReadAvailable

LEMMA TypedFlush ==
    ASSUME Typed, FlushWrites
    PROVE  Typed'
<1>1. ASSUME pc = "flush", Return, UNCHANGED <<state, fired>>
      PROVE  FlowTyped' /\ Threaded'
  <2>1. StackShape' /\ pc' \in Label /\ batches' \in Nat
    BY <1>1, ReturnShape DEF Typed, FlowTyped
  <2>2. pc' \notin {"idle", "done"}
    BY <1>1 DEF Return, Typed, FlowTyped, StackShape
  <2> QED BY <1>1, <2>1, <2>2 DEF Typed, FlowTyped, Threaded
<1>2. CASE FlushEnds \/ FlushBlocked
  <2>1. WriteTyped'
    BY <1>2 DEF FlushEnds, FlushBlocked, Typed, WriteTyped, KernelTyped,
                ExitTyped
  <2>2. FlowTyped' /\ Threaded'
    BY <1>1, <1>2 DEF FlushEnds, FlushBlocked, clientVars
  <2> QED BY <1>2, <2>1, <2>2, Untouched DEF FlushEnds, FlushBlocked, Typed
<1>3. ASSUME NEW length \in 1..WriteCapacity, FlushChunk(length)
      PROVE  Typed'
  <2>1. length \in Nat
    BY WriteAssumption
  <2>2. writes # <<>> /\ Tail(writes) \in Seq(Request)
    BY <1>3, HeadTailProperties
    DEF FlushChunk, NothingToFlush, Typed, WriteTyped
  <2>3. WriteTyped'
    <3>1. writes' \in Seq(Request)
      BY <1>3, <2>2 DEF FlushChunk, Typed, WriteTyped
    <3>2. write_offset' \in Nat /\ write_queued' \in Int
      BY <1>3, <2>1 DEF FlushChunk, Typed, WriteTyped
    <3> QED BY <1>3, <3>1, <3>2 DEF FlushChunk, Typed, WriteTyped
  <2>5. KernelTyped'
    BY <1>3 DEF FlushChunk, Typed, KernelTyped
  <2>4. FlowTyped' /\ Threaded'
    <3>1. CASE Return
      BY <1>1, <1>3, <3>1 DEF FlushChunk, clientVars
    <3>2. CASE batches' = batches + 1 /\ UNCHANGED <<pc, stack>>
      BY <1>3, <3>2
      DEF FlushChunk, Typed, FlowTyped, Threaded, StackShape, clientVars
    <3> QED BY <1>3, <3>1, <3>2 DEF FlushChunk
  <2> QED BY <1>3, <2>3, <2>4, <2>5, Untouched DEF FlushChunk, Typed
<1> QED BY <1>2, <1>3 DEF FlushWrites

LEMMA TypedEnvironment ==
    ASSUME Typed, Environment
    PROVE  Typed'
<1>1. CASE Produce \/ ChildExits \/ ExternalReap \/ SlaveCloses \/ InputTaken
  <2>1. KernelTyped'
    <3>1. CASE Produce
      BY <3>1 DEF Produce, Typed, KernelTyped
    <3>2. CASE ChildExits \/ ExternalReap \/ SlaveCloses \/ InputTaken
      BY <3>2 DEF ChildExits, ExternalReap, SlaveCloses, InputTaken, Typed,
                  KernelTyped
    <3> QED BY <1>1, <3>1, <3>2
  <2>2. /\ UNCHANGED <<clientVars, readVars, writeVars, closeVars, exitVars,
                       flowVars, events>>
        /\ UNCHANGED <<state, pc>>
    BY <1>1 DEF Produce, ChildExits, ExternalReap, SlaveCloses, InputTaken,
                clientVars, flowVars
  <2> QED BY <2>1, <2>2, Untouched DEF Typed
<1>2. CASE GraceExpires
  <2>1. CloseTyped'
    BY <1>2 DEF GraceExpires, Typed, CloseTyped
  <2> QED BY <1>2, <2>1, Untouched
          DEF GraceExpires, Typed, clientVars, flowVars
<1>3. CASE SlaveReopens
  <2>1. ReadTyped' /\ KernelTyped'
    BY <1>3 DEF SlaveReopens, Typed, ReadTyped, KernelTyped
  <2> QED BY <1>3, <2>1, Untouched
          DEF SlaveReopens, Typed, clientVars, flowVars
<1> QED BY <1>1, <1>2, <1>3 DEF Environment

LEMMA TypedStep == Typed /\ [Next]_vars => Typed'
<1> SUFFICES ASSUME Typed, [Next]_vars PROVE Typed'
  OBVIOUS
<1>1. CASE Next
  BY <1>1, TypedClient, TypedStartup, TypedLoop, TypedRead, TypedFlush,
     TypedEnvironment
  DEF Next, Reactor
<1>2. CASE UNCHANGED vars
  BY <1>2, Untouched DEF vars, Typed, clientVars, flowVars
<1> QED BY <1>1, <1>2

-----------------------------------------------------------------------------
(* Intervals: a gapless sequence of them stays one when its first is taken  *)
(* or another is put behind its last.                                       *)

LEMMA ContiguousAppend ==
    ASSUME NEW S, NEW intervals \in Seq(S), NEW end, NEW last \in S,
           Contiguous(intervals, end), last.from = end
    PROVE  Contiguous(Append(intervals, last), EndOf(last))
<1> DEFINE longer == Append(intervals, last)
<1>1. /\ longer # <<>> /\ Len(longer) = Len(intervals) + 1
      /\ Len(intervals) \in Nat
      /\ \A i \in 1..Len(intervals) : longer[i] = intervals[i]
      /\ longer[Len(intervals) + 1] = last
  BY AppendProperties, LenProperties
<1>2. ASSUME NEW i \in 1..Len(intervals)
      PROVE  longer[i + 1].from = EndOf(longer[i])
  <2>1. CASE i < Len(intervals)
    <3>1. i \in 1..(Len(intervals) - 1) /\ i + 1 \in 1..Len(intervals)
      BY <1>1, <2>1
    <3> QED BY <1>1, <3>1 DEF Contiguous
  <2>2. CASE i = Len(intervals)
    <3>1. intervals # <<>>
      BY <1>1, <2>2
    <3> QED BY <1>1, <2>2, <3>1 DEF Contiguous
  <2> QED BY <1>1, <2>1, <2>2
<1>3. Len(longer) - 1 = Len(intervals)
  BY <1>1
<1> QED BY <1>1, <1>2, <1>3 DEF Contiguous

LEMMA ContiguousTail ==
    ASSUME NEW S, NEW intervals \in Seq(S), NEW end, intervals # <<>>,
           Contiguous(intervals, end)
    PROVE  /\ Contiguous(Tail(intervals), end)
           /\ IF Tail(intervals) = <<>> THEN EndOf(Head(intervals)) = end
              ELSE Head(Tail(intervals)).from = EndOf(Head(intervals))
<1> DEFINE rest == Tail(intervals)
<1>1. /\ rest \in Seq(S) /\ Len(rest) = Len(intervals) - 1
      /\ \A i \in 1..Len(rest) : rest[i] = intervals[i + 1]
      /\ Len(intervals) \in Nat \ {0} /\ Len(rest) \in Nat
      /\ Head(intervals) = intervals[1]
  BY HeadTailProperties, EmptySeq, LenProperties
<1>2. ASSUME NEW i \in 1..(Len(rest) - 1)
      PROVE  rest[i + 1].from = EndOf(rest[i])
  <2>1. i + 1 \in 1..(Len(intervals) - 1) /\ i + 1 \in 1..Len(rest)
        /\ i \in 1..Len(rest)
    BY <1>1
  <2>2. intervals[(i + 1) + 1].from = EndOf(intervals[i + 1])
    BY <2>1 DEF Contiguous
  <2>3. rest[i] = intervals[i + 1] /\ rest[i + 1] = intervals[(i + 1) + 1]
    BY <1>1, <2>1
  <2> QED BY <2>2, <2>3
<1>3. CASE rest = <<>>
  <2>1. Len(intervals) = 1
    BY <1>1, <1>3
  <2> QED BY <1>1, <1>2, <1>3, <2>1 DEF Contiguous
<1>4. CASE rest # <<>>
  <2>1. Len(rest) \in 1..Len(rest) /\ 1 \in 1..Len(rest)
        /\ 1 \in 1..(Len(intervals) - 1)
    BY <1>1, <1>4, EmptySeq
  <2>2. rest[Len(rest)] = intervals[Len(intervals)]
    BY <1>1, <2>1
  <2>3. Contiguous(rest, end)
    BY <1>2, <2>2 DEF Contiguous
  <2>4. Head(rest) = intervals[2]
    BY <1>1, <1>4, <2>1
  <2>5. intervals[2].from = EndOf(intervals[1])
    BY <2>1 DEF Contiguous
  <2> QED BY <1>1, <1>4, <2>3, <2>4, <2>5
<1> QED BY <1>3, <1>4

-----------------------------------------------------------------------------
(* Read credit.  That no retained batch reaches beyond bytes_read is what   *)
(* keeps the credit from going below zero.                                  *)

Credit ==
    /\ CreditConserved
    /\ \A i \in 1..Len(outstanding) : EndOf(outstanding[i]) <= bytes_read

creditVars == <<outstanding, next_sequence, read_in_flight, bytes_read>>

\* Only a read and an acknowledgement touch the credit.
LEMMA CreditFrame ==
    ASSUME [Next]_vars
    PROVE  \/ UNCHANGED creditVars
           \/ AcknowledgeNext
           \/ \E length \in 1..ReadBatch : ReadBatchOf(length)
<1>1. CASE ClientControl
  BY <1>1 DEF ClientControl, Start, Resize, SendSignal, Post, Close, ForceClose,
              EnqueueWrite, creditVars, readVars
<1>2. CASE Spawn \/ CheckExec \/ ConfigureKqueue \/ TerminateAndReap \/ WaitFails
  BY <1>2 DEF Spawn, CheckExec, ConfigureKqueue, Prepare, TerminateAndReap,
              WaitFails, creditVars, readVars
<1>3. CASE Wait \/ Dispatch \/ ProcessControl \/ Retry \/ Reap \/ Decide
  BY <1>3 DEF Wait, Dispatch, ProcessControl, Retry, Reap, Decide, creditVars,
              readVars
<1>4. CASE ReadAfterEof \/ ReadPauses \/ ReadNothing \/ ReadFails
  BY <1>4 DEF ReadAfterEof, ReadPauses, ReadNothing, ReadFails, creditVars
<1>5. CASE FlushWrites
  BY <1>5 DEF FlushWrites, FlushEnds, FlushBlocked, FlushChunk, creditVars,
              readVars
<1>6. CASE Environment
  BY <1>6 DEF Environment, Produce, ChildExits, ExternalReap, SlaveCloses,
              SlaveReopens, InputTaken, GraceExpires, creditVars, readVars
<1>7. CASE UNCHANGED vars
  BY <1>7 DEF vars, creditVars, readVars
<1> QED BY <1>1, <1>2, <1>3, <1>4, <1>5, <1>6, <1>7
        DEF Next, Reactor, ReadAvailable

\* An acknowledgement gives back exactly the bytes of the first batch.
LEMMA CreditAcknowledge ==
    ASSUME Typed, Credit, NEW sequence, NEW length,
           Acknowledge(sequence, length)
    PROVE  Credit'
<1> DEFINE rest == Tail(outstanding)
<1>1. /\ outstanding \in Seq(Batch) /\ outstanding # <<>>
      /\ outstanding' = rest /\ bytes_read' = bytes_read
      /\ read_in_flight' = read_in_flight - length
      /\ next_sequence' = next_sequence
      /\ Head(outstanding).length = length
  BY DEF Acknowledge, AcknowledgeAccepted, Typed, ReadTyped
<1>2. /\ rest \in Seq(Batch) /\ Len(rest) = Len(outstanding) - 1
      /\ Head(outstanding) \in Batch
      /\ \A i \in 1..Len(rest) : rest[i] = outstanding[i + 1]
      /\ Len(outstanding) \in Nat \ {0} /\ Len(rest) \in Nat
  BY <1>1, HeadTailProperties, LenProperties, EmptySeq
<1>3. /\ Contiguous(rest, bytes_read)
      /\ IF rest = <<>> THEN EndOf(Head(outstanding)) = bytes_read
         ELSE Head(rest).from = EndOf(Head(outstanding))
  BY <1>1, ContiguousTail DEF Credit, CreditConserved, BatchesContiguous
<1>4. ASSUME NEW i \in 1..Len(rest)
      PROVE  /\ rest[i].sequence = next_sequence - Len(rest) + i - 1
             /\ EndOf(rest[i]) <= bytes_read
  <2>1. i + 1 \in 1..Len(outstanding) /\ rest[i] = outstanding[i + 1]
    BY <1>2
  <2>2. outstanding[i + 1].sequence =
            next_sequence - Len(outstanding) + (i + 1) - 1
    BY <2>1 DEF Credit, CreditConserved, BatchesContiguous
  <2>3. next_sequence \in Int
    BY DEF Typed, ReadTyped
  <2> QED BY <1>2, <2>1, <2>2, <2>3 DEF Credit
<1>5. /\ read_in_flight = bytes_read - Head(outstanding).from
      /\ read_in_flight <= HighWater
      /\ bytes_read \in Nat /\ Head(outstanding).from \in Nat
      /\ length \in Nat \ {0}
  BY <1>1, <1>2 DEF Credit, CreditConserved, Typed, ReadTyped, Batch
<1>6. /\ read_in_flight' = IF rest = <<>> THEN 0
                           ELSE bytes_read - Head(rest).from
      /\ read_in_flight' <= HighWater
  <2>1. /\ EndOf(Head(outstanding)) = Head(outstanding).from + length
        /\ read_in_flight' = read_in_flight - length
    BY <1>1 DEF EndOf
  <2> HIDE DEF rest
  <2>2. CASE rest = <<>>
    BY <1>3, <1>5, <2>1, <2>2, WaterAssumption
  <2>3. CASE rest # <<>>
    BY <1>3, <1>5, <2>1, <2>3, WaterAssumption
  <2> QED BY <2>2, <2>3
<1>7. BatchesContiguous'
  BY <1>1, <1>3, <1>4 DEF BatchesContiguous
<1> QED BY <1>1, <1>4, <1>6, <1>7 DEF Credit, CreditConserved

\* A read takes exactly the bytes of the batch it retains.
LEMMA CreditRead ==
    ASSUME Typed, Credit, NEW length \in 1..ReadBatch, ReadBatchOf(length)
    PROVE  Credit'
<1> DEFINE batch == [sequence |-> next_sequence, from |-> bytes_read,
                     length |-> length]
           longer == Append(outstanding, batch)
<1>1. /\ outstanding' = longer /\ bytes_read' = bytes_read + length
      /\ next_sequence' = next_sequence + 1
      /\ read_in_flight' = read_in_flight + length
      /\ length \in 1..Lesser(Available, Unread)
  BY DEF ReadBatchOf
<1>2. /\ outstanding \in Seq(Batch) /\ bytes_read \in Nat
      /\ next_sequence \in Nat /\ read_in_flight \in Int
      /\ Len(outstanding) \in Nat /\ length \in Nat \ {0}
  BY BatchAssumption, LenProperties DEF Typed, ReadTyped
<1>3. batch \in Batch
  BY <1>2 DEF Batch
<1>4. /\ longer # <<>> /\ Len(longer) = Len(outstanding) + 1
      /\ \A i \in 1..Len(outstanding) : longer[i] = outstanding[i]
      /\ longer[Len(outstanding) + 1] = batch
      /\ Head(longer) = IF outstanding = <<>> THEN batch ELSE Head(outstanding)
  BY <1>2, <1>3, AppendProperties, HeadTailAppend
<1>5. Contiguous(longer, bytes_read')
  <2>1. Contiguous(longer, EndOf(batch))
    BY <1>2, <1>3, ContiguousAppend
    DEF Credit, CreditConserved, BatchesContiguous
  <2> QED BY <1>1, <2>1 DEF EndOf
<1>6. ASSUME NEW i \in 1..Len(longer)
      PROVE  /\ longer[i].sequence = next_sequence' - Len(longer) + i - 1
             /\ EndOf(longer[i]) <= bytes_read'
  <2>1. CASE i \in 1..Len(outstanding)
    <3>1. /\ outstanding[i].sequence = next_sequence - Len(outstanding) + i - 1
          /\ EndOf(outstanding[i]) <= bytes_read
          /\ longer[i] = outstanding[i]
      BY <1>4, <2>1 DEF Credit, CreditConserved, BatchesContiguous
    <3>2. outstanding[i] \in Batch
      BY <1>2, <2>1, ElementOfSeq
    <3>3. outstanding[i].from \in Nat /\ outstanding[i].length \in Nat
      BY <3>2 DEF Batch
    <3>4. longer[i].sequence = next_sequence' - Len(longer) + i - 1
      <4>1. i \in Nat
        BY <2>1
      <4> HIDE DEF longer
      <4> QED BY <1>1, <1>2, <1>4, <3>1, <4>1
    <3>5. EndOf(longer[i]) <= bytes_read'
      <4> HIDE DEF longer
      <4> QED BY <1>1, <1>2, <3>1, <3>3 DEF EndOf
    <3> QED BY <3>4, <3>5
  <2>2. CASE i = Len(outstanding) + 1
    BY <1>1, <1>2, <1>4, <2>2 DEF EndOf
  <2> QED BY <1>2, <1>4, <2>1, <2>2
<1>7. read_in_flight' <= HighWater
  <2>1. length <= HighWater - read_in_flight
    <3>1. Available \in Int /\ Unread \in Int
      BY <1>2, BatchAssumption, WaterAssumption
      DEF Available, Unread, Lesser, Typed, KernelTyped
    <3>2. length <= Available
      <4>1. Lesser(Available, Unread) \in Int
            /\ Lesser(Available, Unread) <= Available
        BY <3>1 DEF Lesser
      <4> QED BY <1>1, <1>2, <3>1, <4>1
    <3> QED BY <1>2, <3>2, BatchAssumption, WaterAssumption DEF Available,
                Lesser
  <2> QED BY <1>1, <1>2, <2>1, WaterAssumption
<1>8. read_in_flight' = bytes_read' - Head(longer).from
  <2>1. CASE outstanding = <<>>
    BY <1>1, <1>2, <1>4, <2>1 DEF Credit, CreditConserved
  <2>2. CASE outstanding # <<>>
    <3>1. Head(outstanding).from \in Nat
      <4>1. Head(outstanding) \in Batch
        BY <1>2, <2>2, HeadTailProperties
      <4> QED BY <4>1 DEF Batch
    <3>2. read_in_flight = bytes_read - Head(outstanding).from
      BY <2>2 DEF Credit, CreditConserved
    <3>3. Head(longer) = Head(outstanding)
      BY <1>4, <2>2
    <3> HIDE DEF longer
    <3> QED BY <1>1, <1>2, <3>1, <3>2, <3>3
  <2> QED BY <2>1, <2>2
<1> QED BY <1>1, <1>4, <1>5, <1>6, <1>7, <1>8
        DEF Credit, CreditConserved, BatchesContiguous

LEMMA CreditInit == Init => Credit
BY EmptySeq, WaterAssumption
DEF Init, Credit, CreditConserved, BatchesContiguous, Contiguous

LEMMA CreditStep == Typed /\ Credit /\ [Next]_vars => Credit'
<1> SUFFICES ASSUME Typed, Credit, [Next]_vars PROVE Credit'
  OBVIOUS
<1>1. CASE UNCHANGED creditVars
  BY <1>1 DEF creditVars, Credit, CreditConserved, BatchesContiguous, Contiguous
<1>2. CASE AcknowledgeNext
  BY <1>2, CreditAcknowledge DEF AcknowledgeNext
<1> QED BY <1>1, <1>2, CreditFrame, CreditRead

-----------------------------------------------------------------------------
(* The write queue.                                                         *)

Queue ==
    /\ WriteQueueConserved
    /\ \A i \in 1..Len(writes) : EndOf(writes[i]) <= accepted

queueVars == <<writes, write_offset, write_queued, accepted, child_completed>>

\* The exit of the child empties the queue for good.
Purge == /\ writes' = <<>> /\ write_offset' = 0 /\ write_queued' = 0
         /\ accepted' = accepted

\* Only a client's write, a partial write and the exit touch the queue.
LEMMA QueueFrame ==
    ASSUME Typed, [Next]_vars
    PROVE  \/ UNCHANGED queueVars
           \/ Purge
           \/ \E length \in WriteLengths : EnqueueWrite(length)
           \/ \E length \in 1..WriteCapacity : FlushChunk(length)
<1>1. CASE Start \/ Resize \/ SendSignal \/ Close \/ ForceClose \/ AcknowledgeNext
  BY <1>1 DEF Start, Resize, SendSignal, Post, Close, ForceClose, Acknowledge,
              AcknowledgeNext, queueVars, clientVars, writeVars, exitVars
<1>2. CASE Spawn \/ CheckExec \/ ConfigureKqueue \/ TerminateAndReap \/ WaitFails
  BY <1>2 DEF Spawn, CheckExec, ConfigureKqueue, Prepare, TerminateAndReap,
              WaitFails, queueVars, clientVars, writeVars, exitVars
<1>3. CASE Wait \/ ProcessControl \/ Retry \/ Decide
  BY <1>3 DEF Wait, ProcessControl, Retry, Decide, queueVars, clientVars,
              writeVars, exitVars
<1>4. ASSUME NEW observed, ReapChild(observed), UNCHANGED accepted
      PROVE  UNCHANGED queueVars \/ Purge
  BY <1>4 DEF ReapChild, queueVars, Purge
<1>5. CASE Reap
  BY <1>4, <1>5 DEF Reap, clientVars
<1>6. CASE Dispatch
  <2>1. CASE UNCHANGED <<writes, write_offset, write_queued, exitVars>>
    BY <1>6, <2>1 DEF Dispatch, queueVars, clientVars, exitVars
  <2>2. CASE ReapChild(TRUE)
    BY <1>4, <1>6, <2>2 DEF Dispatch, clientVars
  <2>3. \A filter \in fired : filter \in {"READ", "WRITE", "PROC"}
    BY DEF Typed, FlowTyped, Filter
  <2> QED BY <1>6, <2>1, <2>2, <2>3 DEF Dispatch, writeVars
<1>7. CASE ReadAvailable
  BY <1>7 DEF ReadAvailable, ReadAfterEof, ReadPauses, ReadNothing, ReadFails,
              ReadBatchOf, queueVars, clientVars, writeVars, exitVars
<1>8. CASE FlushEnds \/ FlushBlocked
  BY <1>8 DEF FlushEnds, FlushBlocked, queueVars, clientVars, exitVars
<1>9. CASE Environment
  BY <1>9 DEF Environment, Produce, ChildExits, ExternalReap, SlaveCloses,
              SlaveReopens, InputTaken, GraceExpires, queueVars, clientVars,
              writeVars, exitVars
<1>10. CASE UNCHANGED vars
  BY <1>10 DEF vars, queueVars, clientVars, writeVars, exitVars
<1> QED BY <1>1, <1>2, <1>3, <1>5, <1>6, <1>7, <1>8, <1>9, <1>10
        DEF Next, Reactor, ClientControl, FlushWrites

\* A write is queued behind what was accepted before it.
LEMMA QueueEnqueue ==
    ASSUME Typed, Queue, NEW length \in WriteLengths, EnqueueWrite(length)
    PROVE  Queue'
<1> DEFINE request == [from |-> accepted, length |-> length]
           longer == Append(writes, request)
<1>1. /\ writes' = longer /\ accepted' = accepted + length
      /\ write_queued' = write_queued + length
      /\ write_offset' = write_offset
      /\ write_queued <= WriteCapacity - length
      /\ child_completed' = child_completed /\ ~child_completed
  BY DEF EnqueueWrite, AcceptsRequests, exitVars
<1>2. /\ writes \in Seq(Request) /\ accepted \in Nat
      /\ write_offset \in Nat /\ write_queued \in Int
      /\ Len(writes) \in Nat /\ length \in Nat \ {0}
  BY WriteAssumption, LenProperties DEF Typed, WriteTyped, ClientTyped
<1>3. request \in Request
  BY <1>2 DEF Request
<1>4. /\ longer # <<>> /\ Len(longer) = Len(writes) + 1
      /\ \A i \in 1..Len(writes) : longer[i] = writes[i]
      /\ longer[Len(writes) + 1] = request
      /\ Head(longer) = IF writes = <<>> THEN request ELSE Head(writes)
  BY <1>2, <1>3, AppendProperties, HeadTailAppend
<1>5. Contiguous(longer, accepted')
  <2>1. Contiguous(longer, EndOf(request))
    BY <1>2, <1>3, ContiguousAppend DEF Queue, WriteQueueConserved
  <2> QED BY <1>1, <2>1 DEF EndOf
<1>6. ASSUME NEW i \in 1..Len(longer)
      PROVE  EndOf(longer[i]) <= accepted'
  <2>1. CASE i \in 1..Len(writes)
    <3>1. EndOf(writes[i]) <= accepted /\ longer[i] = writes[i]
      BY <1>4, <2>1 DEF Queue
    <3>2. writes[i] \in Request
      BY <1>2, <2>1, ElementOfSeq
    <3> QED BY <1>1, <1>2, <3>1, <3>2 DEF EndOf, Request
  <2>2. CASE i = Len(writes) + 1
    BY <1>1, <1>2, <1>4, <2>2 DEF EndOf
  <2> QED BY <1>2, <1>4, <2>1, <2>2
<1>7. write_queued' <= WriteCapacity
  BY <1>1, <1>2, WriteAssumption
<1>8. /\ write_queued' = accepted' - Head(longer).from - write_offset'
      /\ write_offset' < Head(longer).length
  <2>1. CASE writes = <<>>
    BY <1>1, <1>2, <1>4, <2>1 DEF Queue, WriteQueueConserved
  <2>2. CASE writes # <<>>
    <3>1. Head(writes).from \in Nat
      <4>1. Head(writes) \in Request
        BY <1>2, <2>2, HeadTailProperties
      <4> QED BY <4>1 DEF Request
    <3>2. /\ write_queued = accepted - Head(writes).from - write_offset
          /\ write_offset < Head(writes).length
      BY <2>2 DEF Queue, WriteQueueConserved
    <3>3. Head(longer) = Head(writes)
      BY <1>4, <2>2
    <3>4. /\ write_queued' = write_queued + length
          /\ accepted' = accepted + length /\ write_offset' = write_offset
      BY <1>1
    <3> HIDE DEF longer
    <3> QED BY <1>2, <3>1, <3>2, <3>3, <3>4
  <2> QED BY <2>1, <2>2
<1> QED BY <1>1, <1>4, <1>5, <1>6, <1>7, <1>8 DEF Queue, WriteQueueConserved

\* A write of some bytes advances in the first request or ends it.
LEMMA QueueFlush ==
    ASSUME Typed, Queue, NEW length \in 1..WriteCapacity, FlushChunk(length)
    PROVE  Queue'
<1> DEFINE request == Head(writes)
           rest == Tail(writes)
<1>1. /\ ~child_completed /\ child_completed' = child_completed
      /\ writes # <<>> /\ accepted' = accepted
      /\ length \in 1..(request.length - write_offset)
      /\ write_queued' = write_queued - length
  BY DEF FlushChunk, Remains, NothingToFlush, exitVars, clientVars
<1>2. /\ writes \in Seq(Request) /\ accepted \in Nat
      /\ write_offset \in Nat /\ write_queued \in Int /\ length \in Nat
      /\ WriteCapacity \in Nat
  BY WriteAssumption DEF Typed, WriteTyped, ClientTyped
<1>3. /\ rest \in Seq(Request) /\ Len(rest) = Len(writes) - 1
      /\ request \in Request
      /\ \A i \in 1..Len(rest) : rest[i] = writes[i + 1]
      /\ Len(writes) \in Nat \ {0} /\ Len(rest) \in Nat
  BY <1>1, <1>2, HeadTailProperties, LenProperties, EmptySeq
<1>4. request.from \in Nat /\ request.length \in Nat
  BY <1>3 DEF Request
<1>5. /\ write_queued = accepted - request.from - write_offset
      /\ write_queued <= WriteCapacity /\ Contiguous(writes, accepted)
  BY <1>1 DEF Queue, WriteQueueConserved
<1>6. write_queued' <= WriteCapacity
  BY <1>1, <1>2, <1>5
<1>7. CASE write_offset + length = request.length
  <2>1. writes' = rest /\ write_offset' = 0
    <3>1. length = Remains(request)
      BY <1>2, <1>4, <1>7 DEF Remains
    <3> QED BY <3>1 DEF FlushChunk
  <2>2. /\ Contiguous(rest, accepted)
        /\ IF rest = <<>> THEN EndOf(request) = accepted
           ELSE Head(rest).from = EndOf(request)
    BY <1>1, <1>2, <1>5, ContiguousTail
  <2>3. write_queued' = IF rest = <<>> THEN 0
                        ELSE accepted - Head(rest).from - 0
    <3>1. EndOf(request) = request.from + write_offset + length
      BY <1>2, <1>4, <1>7 DEF EndOf
    <3>2. write_queued' = accepted - EndOf(request)
      <4> HIDE DEF request
      <4> QED BY <1>1, <1>2, <1>4, <1>5, <3>1
    <3>3. EndOf(request) \in Int
      BY <1>4 DEF EndOf
    <3> HIDE DEF request, rest
    <3> QED BY <1>2, <2>2, <3>2, <3>3
  <2>4. \A i \in 1..Len(rest) : EndOf(rest[i]) <= accepted
    <3>1. \A i \in 1..Len(rest) : i + 1 \in 1..Len(writes)
      BY <1>3
    <3> QED BY <1>3, <3>1 DEF Queue
  <2>5. rest # <<>> => 0 < Head(rest).length
    <3>1. rest # <<>> => Head(rest) \in Request
      BY <1>3, HeadTailProperties
    <3> QED BY <3>1 DEF Request
  <2> HIDE DEF rest
  <2> QED BY <1>1, <1>6, <2>1, <2>2, <2>3, <2>4, <2>5
          DEF Queue, WriteQueueConserved
<1>8. CASE write_offset + length # request.length
  <2>1. writes' = writes /\ write_offset' = write_offset + length
    <3>1. length # Remains(request)
      BY <1>2, <1>4, <1>8 DEF Remains
    <3> QED BY <3>1 DEF FlushChunk
  <2>2. /\ write_queued' = accepted - request.from - write_offset'
        /\ write_offset' < request.length
    <3>1. length <= request.length - write_offset
      BY <1>1, <1>2, <1>4
    <3>2. /\ write_queued' = write_queued - length
          /\ write_queued = accepted - request.from - write_offset
      BY <1>1, <1>5
    <3>3. write_offset' = write_offset + length
      BY <2>1
    <3> HIDE DEF request
    <3>4. write_queued' = accepted - request.from - write_offset'
      BY <1>2, <1>4, <3>2, <3>3
    <3>5. write_offset' < request.length
      BY <1>2, <1>4, <1>8, <3>1, <3>3
    <3> QED BY <3>4, <3>5
  <2> QED BY <1>1, <1>5, <1>6, <2>1, <2>2 DEF Queue, WriteQueueConserved
<1> QED BY <1>7, <1>8

LEMMA QueueInit == Init => Queue
BY EmptySeq, WriteAssumption DEF Init, Queue, WriteQueueConserved, Contiguous

LEMMA QueueStep == Typed /\ Queue /\ [Next]_vars => Queue'
<1> SUFFICES ASSUME Typed, Queue, [Next]_vars PROVE Queue'
  OBVIOUS
<1>1. CASE UNCHANGED queueVars
  BY <1>1 DEF queueVars, Queue, WriteQueueConserved, Contiguous
<1>2. CASE Purge
  BY <1>2, EmptySeq, WriteAssumption
  DEF Purge, Queue, WriteQueueConserved, Contiguous
<1> QED BY <1>1, <1>2, QueueFrame, QueueEnqueue, QueueFlush

-----------------------------------------------------------------------------
(* The theorems.                                                            *)

Inv == Typed /\ Credit /\ Queue

\* The three layers together are inductive.
THEOREM Inductive == Spec => []Inv
<1>1. Init => Inv
  BY TypedInit, CreditInit, QueueInit DEF Inv
<1>2. Inv /\ [Next]_vars => Inv'
  BY TypedStep, CreditStep, QueueStep DEF Inv
<1> QED BY <1>1, <1>2, PTL DEF Spec

\* Neither byte counter can go below zero: the credit is the length of what
\* lies between the first retained batch and bytes_read, the queue of what
\* lies between the write position and the accepted input.
LEMMA CountersNatural == Inv => read_in_flight \in Nat /\ write_queued \in Nat
<1> SUFFICES ASSUME Inv PROVE read_in_flight \in Nat /\ write_queued \in Nat
  OBVIOUS
<1>1. read_in_flight \in Nat
  <2>1. CASE outstanding = <<>>
    BY <2>1 DEF Inv, Credit, CreditConserved
  <2>2. CASE outstanding # <<>>
    <3>1. /\ Head(outstanding) = outstanding[1] /\ 1 \in 1..Len(outstanding)
          /\ Head(outstanding) \in Batch
      BY <2>2, HeadTailProperties, EmptySeq DEF Inv, Typed, ReadTyped
    <3>2. /\ EndOf(Head(outstanding)) <= bytes_read /\ bytes_read \in Nat
          /\ read_in_flight = bytes_read - Head(outstanding).from
      BY <2>2, <3>1 DEF Inv, Credit, CreditConserved, Typed, ReadTyped
    <3>3. Head(outstanding).from \in Nat /\ Head(outstanding).length \in Nat
      BY <3>1 DEF Batch
    <3> QED BY <3>2, <3>3 DEF EndOf
  <2> QED BY <2>1, <2>2
<1>2. write_queued \in Nat
  <2>1. CASE writes = <<>>
    BY <2>1 DEF Inv, Queue, WriteQueueConserved
  <2>2. CASE writes # <<>>
    <3>1. /\ Head(writes) = writes[1] /\ 1 \in 1..Len(writes)
          /\ Head(writes) \in Request
      BY <2>2, HeadTailProperties, EmptySeq DEF Inv, Typed, WriteTyped
    <3>2. /\ EndOf(Head(writes)) <= accepted
          /\ write_offset < Head(writes).length
          /\ write_queued = accepted - Head(writes).from - write_offset
      BY <2>2, <3>1 DEF Inv, Queue, WriteQueueConserved
    <3>3. /\ Head(writes).from \in Nat /\ Head(writes).length \in Nat
          /\ accepted \in Nat /\ write_offset \in Nat
      BY <3>1 DEF Request, Inv, Typed, ClientTyped, WriteTyped
    <3> QED BY <3>2, <3>3 DEF EndOf
  <2> QED BY <2>1, <2>2
<1> QED BY <1>1, <1>2

\* Every variable keeps its type: no counter runs below zero.
THEOREM TypeCorrect == Spec => []TypeOK
<1>1. Inv => TypeOK
  <2> SUFFICES ASSUME Inv PROVE TypeOK
    OBVIOUS
  <2>1. stack \in Seq(Label)
    <3>1. \A a, b \in Label : <<>> \in Seq(Label) /\ <<a>> \in Seq(Label)
                              /\ <<a, b>> \in Seq(Label)
      OBVIOUS
    <3>2. {"dispatch", "wait", "retry", "reap", "decide", "flush"} \subseteq
    Label
      BY DEF Label
    <3>3. \/ stack = <<>>
          \/ \E a \in Label : stack = <<a>>
          \/ \E a, b \in Label : stack = <<a, b>>
      BY <3>2 DEF Inv, Typed, FlowTyped, StackShape, Label
    <3>4. ASSUME NEW a \in Label, NEW b \in Label,
                 stack \in {<<>>, <<a>>, <<a, b>>}
          PROVE  stack \in Seq(Label)
      <4>1. <<>> \in Seq(Label) /\ <<a>> \in Seq(Label) /\ <<a, b>> \in
      Seq(Label)
        BY <3>1
      <4> QED BY <3>4, <4>1
    <3>5. Label # {}
      BY DEF Label
    <3> QED BY <3>3, <3>4, <3>5
  <2> QED BY <2>1, CountersNatural
          DEF Inv, Typed, ClientTyped, ReadTyped, WriteTyped, CloseTyped,
              ExitTyped, FlowTyped, KernelTyped, EventsTyped, TypeOK
<1> QED BY <1>1, Inductive, PTL

\* Read credit is conserved, whatever the watermarks, the batch size, the
\* turn limit and the order of reads and acknowledgements.
THEOREM CreditSafe == Spec => []CreditConserved
<1>1. Inv => CreditConserved
  BY DEF Inv, Credit
<1> QED BY <1>1, Inductive, PTL

\* The write queue is conserved, whatever lengths are written and however
\* the terminal takes them.
THEOREM QueueSafe == Spec => []WriteQueueConserved
<1>1. Inv => WriteQueueConserved
  BY DEF Inv, Queue
<1> QED BY <1>1, Inductive, PTL
=============================================================================
