--------------------------- MODULE PtyExitProofs ---------------------------
(***************************************************************************)
(* Theorems of PtySession about how a session pauses and ends and in what  *)
(* order it calls back, for every value of its constants, on top of the    *)
(* invariant of PtySessionProofs.                                          *)
(***************************************************************************)
EXTENDS PtySessionProofs

-----------------------------------------------------------------------------
(* A paused reader.  Being marked as paused is inductive as it stands.      *)

pauseVars == <<read_paused, read_enabled, master_eof>>

LEMMA NoLostResumeStep ==
    ASSUME Typed, NoLostResume, [Next]_vars
    PROVE  NoLostResume'
<1> USE DEF NoLostResume
<1>1. CASE UNCHANGED pauseVars
  BY <1>1 DEF pauseVars
<1>2. CASE ProcessControl
  BY <1>2 DEF ProcessControl
<1>3. CASE ReadPauses
  BY <1>3 DEF ReadPauses, Pause
<1>4. CASE ReadNothing \/ ReadFails
  BY <1>4 DEF ReadNothing, ReadFails, Typed, ReadTyped, KernelTyped
<1>5. ASSUME NEW length \in 1..ReadBatch, ReadBatchOf(length)
      PROVE  NoLostResume'
  <2>1. CASE TurnMode
    BY <1>5, <2>1 DEF ReadBatchOf, Pause
  <2>2. CASE ~TurnMode
    BY <1>5, <2>2 DEF ReadBatchOf
  <2> QED BY <2>1, <2>2
<1>6. CASE ClientControl \/ AcknowledgeNext
  <2>1. UNCHANGED pauseVars
    BY <1>6 DEF ClientControl, Start, Resize, SendSignal, Post, Close,
                ForceClose, EnqueueWrite, AcknowledgeNext, Acknowledge,
                pauseVars, readVars
  <2> QED BY <1>1, <2>1
<1>7. CASE \/ Spawn \/ CheckExec \/ ConfigureKqueue \/ TerminateAndReap
           \/ Wait \/ WaitFails \/ Dispatch \/ Retry \/ Reap \/ Decide
           \/ ReadAfterEof \/ FlushWrites
  <2>1. UNCHANGED pauseVars
    BY <1>7 DEF Spawn, CheckExec, ConfigureKqueue, Prepare, TerminateAndReap,
                Wait, WaitFails, Dispatch, Retry, Reap, Decide, ReadAfterEof,
                FlushWrites, FlushEnds, FlushBlocked, FlushChunk, pauseVars,
                readVars
  <2> QED BY <1>1, <2>1
<1>8. CASE Environment
  <2>1. UNCHANGED pauseVars
    BY <1>8 DEF Environment, Produce, ChildExits, ExternalReap, SlaveCloses,
                SlaveReopens, InputTaken, GraceExpires, pauseVars, readVars
  <2> QED BY <1>1, <2>1
<1>9. CASE UNCHANGED vars
  <2>1. UNCHANGED pauseVars
    BY <1>9 DEF vars, pauseVars, readVars
  <2> QED BY <1>1, <2>1
<1> QED BY <1>2, <1>3, <1>4, <1>5, <1>6, <1>7, <1>8, <1>9
        DEF Next, Reactor, ReadAvailable

\* No reader is lost: one whose filter is off before the end of file is
\* marked as paused, so ProcessControl can resume it.
THEOREM ResumeSafe == Spec => []NoLostResume
<1>1. Init => NoLostResume
  BY DEF Init, NoLostResume
<1>2. Typed /\ NoLostResume /\ [Next]_vars => NoLostResume'
  BY NoLostResumeStep
<1>3. Inv => Typed
  BY DEF Inv
<1> QED BY <1>1, <1>2, <1>3, Inductive, PTL DEF Spec

-----------------------------------------------------------------------------
(* The end of a session.                                                    *)

\* Where the thread decides, the child has been collected.
Collected ==
    /\ pc \in {"idle", "spawn"} => child = "none" /\ ~master_eof /\ ~slave_open
    /\ child_completed => child \in {"reaped", "lost"}
    /\ pc = "decide" => child_completed
    /\ pc = "read" /\ stack = <<"decide">> => child_completed

\* End of file is met behind the last byte and nothing is written after it,
\* unless it was none or the terminal was opened again.
EofIsFinal ==
    /\ truncated => master_eof
    /\ master_eof /\ ~truncated => bytes_read = produced /\ ~slave_open

\* Where a return leads.
LEMMA ReturnTarget ==
    ASSUME StackShape, pc \in {"read", "flush"}, Return
    PROVE  \/ pc' \in {"dispatch", "reap", "flush", "wait", "retry"}
           \/ pc = "read" /\ stack = <<"decide">> /\ pc' = "decide"
BY DEF StackShape, Return

LEMMA CollectedStep ==
    ASSUME Typed, Collected, [Next]_vars
    PROVE  Collected'
<1>0. /\ StackShape /\ pc \in Label /\ (state = "created" => pc = "idle")
      /\ child \in {"none", "running", "zombie", "reaped", "lost"}
      /\ child_completed \in BOOLEAN
  BY DEF Typed, FlowTyped, KernelTyped, ExitTyped, Threaded
<1>1. CASE ClientControl \/ AcknowledgeNext
  <2>1. CASE Start
    BY <1>0, <2>1 DEF Start, Collected, readVars, exitVars, kernelVars
  <2>2. CASE Resize \/ SendSignal \/ Close \/ ForceClose \/ AcknowledgeNext
             \/ \E length \in WriteLengths : EnqueueWrite(length)
    <3>1. UNCHANGED <<pc, stack, child, child_completed, master_eof,
    slave_open>>
      BY <2>2 DEF Resize, SendSignal, Post, Close, ForceClose, AcknowledgeNext,
                  Acknowledge, EnqueueWrite, readVars, exitVars, flowVars,
                  kernelVars
    <3> QED BY <3>1 DEF Collected
  <2> QED BY <1>1, <2>1, <2>2 DEF ClientControl
<1>2. CASE Spawn \/ CheckExec \/ ConfigureKqueue \/ TerminateAndReap \/ WaitFails
  <2>1. CASE Spawn
    BY <1>0, <2>1 DEF Spawn, FinishError, Collected, readVars, exitVars
  <2>2. CASE CheckExec \/ ConfigureKqueue
    BY <2>2 DEF CheckExec, ConfigureKqueue, Prepare, Collected, exitVars
  <2>3. CASE TerminateAndReap
    BY <1>0, <2>3 DEF TerminateAndReap, FinishError, Collected, exitVars
  <2>4. CASE WaitFails
    BY <2>4 DEF WaitFails, Collected, exitVars
  <2> QED BY <1>2, <2>1, <2>2, <2>3, <2>4
<1>3. CASE Wait \/ Decide
  BY <1>3 DEF Wait, Decide, Collected, readVars, exitVars, kernelVars
<1>4. ASSUME NEW observed, ReapChild(observed)
      PROVE  child_completed' => child' \in {"reaped", "lost"}
  BY <1>4 DEF ReapChild, Completes, Collected
<1>5. CASE Dispatch
  <2>1. pc = "dispatch" /\ stack = <<>>
    BY <1>0, <1>5 DEF Dispatch, StackShape
  <2>2. child_completed' => child' \in {"reaped", "lost"}
    <3>1. \/ UNCHANGED <<exitVars, child>> \/ ReapChild(TRUE)
      <4>1. \A filter \in fired : filter \in {"READ", "WRITE", "PROC"}
        BY DEF Typed, FlowTyped, Filter
      <4> QED BY <1>5, <4>1 DEF Dispatch
    <3> QED BY <1>4, <3>1 DEF Collected, exitVars
  <2>3. \/ pc' \in {"control", "flush", "dispatch"}
        \/ pc' = "read" /\ stack' = <<"dispatch">>
    <3>1. \A filter \in fired : filter \in {"READ", "WRITE", "PROC"}
      BY DEF Typed, FlowTyped, Filter
    <3>2. "dispatch" \in Label /\ <<"dispatch">> \o <<>> = <<"dispatch">>
      BY CallShape DEF Label
    <3> QED BY <1>5, <2>1, <3>1, <3>2 DEF Dispatch, Call
  <2> QED BY <2>2, <2>3 DEF Collected
<1>6. CASE ProcessControl
  <2>1. \/ pc' = "flush"
        \/ /\ pc' = "read"
           /\ stack' \in {<<"flush", "wait">>, <<"flush", "retry">>}
    <3>1. stack \in {<<"wait">>, <<"retry">>}
      BY <1>0, <1>6 DEF ProcessControl, StackShape
    <3>2. <<"flush">> \o stack \in {<<"flush", "wait">>, <<"flush", "retry">>}
      BY <3>1, CallShape DEF Label
    <3> QED BY <1>6, <3>2 DEF ProcessControl, Call
  <2>2. UNCHANGED <<child_completed, child>>
    BY <1>6 DEF ProcessControl, exitVars
  <2> QED BY <2>1, <2>2 DEF Collected
<1>7. CASE Retry
  <2>1. stack = <<>> /\ <<"reap">> \o <<>> = <<"reap">>
    BY <1>0, <1>7, CallShape DEF Retry, StackShape, Label
  <2> QED BY <1>7, <2>1 DEF Retry, Call, Collected, exitVars, kernelVars
<1>8. CASE Reap
  <2>1. child_completed' => child' \in {"reaped", "lost"}
    BY <1>4, <1>8 DEF Reap
  <2>2. (child_completed' /\ pc' = "read") \/ pc' = "wait"
    BY <1>8 DEF Reap, Call
  <2> QED BY <2>1, <2>2 DEF Collected
<1>9. CASE ReadAvailable \/ FlushWrites
  <2>1. UNCHANGED <<child_completed, child>> /\ pc \in {"read", "flush"}
    BY <1>9 DEF ReadAvailable, ReadAfterEof, ReadPauses, ReadNothing, ReadFails,
                ReadBatchOf, FlushWrites, FlushEnds, FlushBlocked, FlushChunk,
                exitVars, kernelVars
  <2>2. Return \/ UNCHANGED <<pc, stack>>
    BY <1>9 DEF ReadAvailable, ReadAfterEof, ReadPauses, ReadNothing, ReadFails,
                ReadBatchOf, FlushWrites, FlushEnds, FlushBlocked, FlushChunk
  <2>3. CASE Return
    BY <1>0, <2>1, <2>3, ReturnTarget DEF Collected
  <2>4. CASE UNCHANGED <<pc, stack>>
    BY <2>1, <2>4 DEF Collected
  <2> QED BY <2>2, <2>3, <2>4
<1>10. CASE Environment
  BY <1>10 DEF Environment, Produce, ChildExits, ExternalReap, SlaveCloses,
               SlaveReopens, InputTaken, GraceExpires, Collected, readVars,
               exitVars, flowVars, kernelVars
<1>11. CASE UNCHANGED vars
  BY <1>11 DEF vars, Collected, readVars, exitVars, flowVars, kernelVars
<1> QED BY <1>1, <1>2, <1>3, <1>5, <1>6, <1>7, <1>8, <1>9, <1>10, <1>11
        DEF Next, Reactor

eofVars == <<master_eof, truncated, bytes_read, produced, slave_open>>

LEMMA EofIsFinalStep ==
    ASSUME Typed, Collected, EofIsFinal, [Next]_vars
    PROVE  EofIsFinal'
<1>0. /\ produced \in Nat /\ bytes_read \in Nat /\ slave_open \in BOOLEAN
      /\ master_eof \in BOOLEAN /\ truncated \in BOOLEAN
  BY DEF Typed, KernelTyped, ReadTyped
<1>1. CASE UNCHANGED eofVars
  BY <1>1 DEF eofVars, EofIsFinal
<1>2. CASE Spawn
  BY <1>2 DEF Spawn, Collected, EofIsFinal, readVars
<1>3. CASE ReadNothing
  <2>1. /\ Unread = 0 /\ UNCHANGED <<bytes_read, produced, slave_open>>
        /\ ~master_eof /\ UNCHANGED truncated
    BY <1>3 DEF ReadNothing, kernelVars
  <2>2. bytes_read' = produced' /\ ~truncated'
    BY <1>0, <2>1 DEF Unread, EofIsFinal
  <2>3. master_eof' => ~slave_open'
    BY <1>3 DEF ReadNothing, kernelVars
  <2> QED BY <2>2, <2>3 DEF EofIsFinal
<1>4. ASSUME NEW length \in 1..ReadBatch, ReadBatchOf(length)
      PROVE  EofIsFinal'
  <2>1. ~master_eof /\ ReadEnds(length)
    BY <1>4 DEF ReadBatchOf
  <2>2. /\ truncated' => master_eof'
        /\ master_eof' /\ ~truncated' => ~slave_open /\ length = Unread
    BY <1>0, <2>1 DEF ReadEnds, EofIsFinal
  <2>3. bytes_read' = bytes_read + length /\ UNCHANGED <<produced, slave_open>>
    BY <1>4 DEF ReadBatchOf, kernelVars
  <2> QED BY <1>0, <2>2, <2>3 DEF Unread, EofIsFinal
<1>5. CASE Produce \/ SlaveCloses
  BY <1>5 DEF Produce, SlaveCloses, EofIsFinal, readVars
<1>9. CASE ReadFails
  BY <1>9 DEF ReadFails, EofIsFinal
<1>10. CASE SlaveReopens
  BY <1>10 DEF SlaveReopens, EofIsFinal
<1>6. CASE ClientControl \/ AcknowledgeNext
  <2>1. UNCHANGED eofVars
    BY <1>6 DEF ClientControl, Start, Resize, SendSignal, Post, Close,
                ForceClose, EnqueueWrite, AcknowledgeNext, Acknowledge,
                eofVars, readVars, kernelVars
  <2> QED BY <1>1, <2>1
<1>7. CASE \/ CheckExec \/ ConfigureKqueue \/ TerminateAndReap
           \/ Wait \/ WaitFails \/ Dispatch \/ ProcessControl \/ Retry \/ Reap
           \/ Decide \/ ReadAfterEof \/ ReadPauses \/ FlushWrites
  <2>1. UNCHANGED eofVars
    BY <1>7 DEF CheckExec, ConfigureKqueue, Prepare, TerminateAndReap,
                Wait, WaitFails, Dispatch, ProcessControl, Retry, Reap, Decide,
                ReadAfterEof, ReadPauses, FlushWrites, FlushEnds, FlushBlocked,
                FlushChunk, eofVars, readVars, kernelVars
  <2> QED BY <1>1, <2>1
<1>8. CASE \/ ChildExits \/ ExternalReap \/ GraceExpires \/ InputTaken
           \/ UNCHANGED vars
  <2>1. UNCHANGED eofVars
    BY <1>8 DEF ChildExits, ExternalReap, GraceExpires, InputTaken, vars,
                eofVars, readVars, kernelVars
  <2> QED BY <1>1, <2>1
<1> QED BY <1>2, <1>3, <1>4, <1>5, <1>6, <1>7, <1>8, <1>9, <1>10
        DEF Next, Reactor, ReadAvailable, Environment

\* A finished session has no child left, and EXIT was told with all output
\* acknowledged at end of file.
Settled ==
    /\ state = "finished" => child \notin {"running", "zombie"}
    /\ Ended("EXIT") => state = "finished" /\ outstanding = <<>> /\ master_eof

settledVars == <<state, child, outstanding, master_eof, events>>

\* A callback appended to the others ends the session if it is an EXIT.
LEMMA EndedAppend ==
    ASSUME NEW event \in Event, events \in Seq(Event),
           events' = Append(events, event), event.type # "EXIT"
    PROVE  Ended("EXIT")' => Ended("EXIT")
<1>1. /\ Len(events') = Len(events) + 1 /\ Len(events) \in Nat
      /\ \A i \in 1..Len(events) : events'[i] = events[i]
      /\ events'[Len(events) + 1] = event
  BY AppendProperties, LenProperties
<1>2. ASSUME NEW i \in 1..Len(events'), events'[i].type = "EXIT"
      PROVE  Ended("EXIT")
  <2>1. i # Len(events) + 1
    BY <1>1, <1>2
  <2>2. i \in 1..Len(events)
    BY <1>1, <2>1
  <2> QED BY <1>1, <1>2, <2>2 DEF Ended
<1> QED BY <1>2 DEF Ended

LEMMA SettledStep ==
    ASSUME Typed, Credit, Collected, Settled, [Next]_vars
    PROVE  Settled'
<1>0. /\ events \in Seq(Event) /\ outstanding \in Seq(Batch)
      /\ (pc \notin {"idle", "done"} => state = "running")
      /\ state \in {"created", "running", "finished"}
      /\ child \in {"none", "running", "zombie", "reaped", "lost"}
  BY DEF Typed, EventsTyped, ReadTyped, Threaded, ClientTyped, KernelTyped
<1>1. CASE UNCHANGED settledVars
  BY <1>1 DEF settledVars, Settled, Ended
<1>2. CASE Start
  <2>1. child = "none" /\ state = "created" /\ pc = "idle"
    BY <1>2 DEF Start, Typed, Threaded, Collected
  <2>2. ~Ended("EXIT")
    BY <2>1 DEF Settled
  <2> QED BY <1>2, <2>1, <2>2 DEF Start, Settled, Ended, kernelVars
<1>3. CASE AcknowledgeNext
  BY <1>3 DEF AcknowledgeNext, Acknowledge, AcknowledgeAccepted, Settled, Ended,
              clientVars, kernelVars
<1>4. ASSUME NEW event \in Event, events' = Append(events, event),
             event.type # "EXIT", state # "finished",
             state' = "finished" => child' \notin {"running", "zombie"}
      PROVE  Settled'
  <2>1. ~Ended("EXIT")
    BY <1>4 DEF Settled
  <2>2. ~Ended("EXIT")'
    BY <1>0, <1>4, <2>1, EndedAppend
  <2> QED BY <1>4, <2>2 DEF Settled
<1>5. ASSUME NEW type \in {"STARTED", "ERROR"}
      PROVE  Lifecycle(type) \in Event /\ Lifecycle(type).type # "EXIT"
  BY DEF Lifecycle, Event, EventType
<1>6. ASSUME events' = events, state # "finished",
             state' = "finished" => child' \notin {"running", "zombie"}
      PROVE  Settled'
  BY <1>6 DEF Settled, Ended
<1>7. CASE Spawn
  <2>1. child = "none" /\ pc = "spawn"
    BY <1>7 DEF Spawn, Collected
  <2> QED BY <1>0, <1>4, <1>5, <1>6, <1>7, <2>1 DEF Spawn, FinishError
<1>8. CASE CheckExec \/ ConfigureKqueue \/ WaitFails
  <2>1. state' = state /\ pc \in {"exec", "kqueue", "wait"}
    BY <1>8 DEF CheckExec, ConfigureKqueue, WaitFails, Prepare, clientVars
  <2>2. events' = events \/ events' = Append(events, Lifecycle("STARTED"))
    BY <1>8 DEF CheckExec, ConfigureKqueue, WaitFails
  <2> QED BY <1>0, <1>4, <1>5, <1>6, <2>1, <2>2
<1>9. CASE TerminateAndReap
  <2>1. /\ pc = "abort" /\ child' \notin {"running", "zombie"}
        /\ events' = Append(events, Lifecycle("ERROR"))
    BY <1>0, <1>9 DEF TerminateAndReap, FinishError
  <2> QED BY <1>0, <1>4, <1>5, <2>1
<1>10. CASE Wait \/ Dispatch \/ ProcessControl \/ Retry \/ Reap \/ FlushWrites
  <2>1. /\ state' = state /\ events' = events
        /\ pc \in {"wait", "dispatch", "control", "retry", "reap", "flush"}
    BY <1>10 DEF Wait, Dispatch, ProcessControl, Retry, Reap, FlushWrites,
                 FlushEnds, FlushBlocked, FlushChunk, clientVars
  <2> QED BY <1>0, <1>6, <2>1
<1>11. CASE ReadAfterEof \/ ReadPauses \/ ReadNothing \/ ReadFails
  <2>1. state' = state /\ events' = events /\ pc = "read"
    BY <1>11 DEF ReadAfterEof, ReadPauses, ReadNothing, ReadFails, clientVars
  <2> QED BY <1>0, <1>6, <2>1
<1>12. ASSUME NEW length \in 1..ReadBatch, ReadBatchOf(length)
       PROVE  Settled'
  <2> DEFINE batch == [sequence |-> next_sequence, from |-> bytes_read,
                       length |-> length]
  <2>1. /\ state' = state /\ pc = "read"
        /\ events' = Append(events, Output(batch))
    BY <1>12 DEF ReadBatchOf, clientVars
  <2>2. batch \in Batch
    BY BatchAssumption DEF Batch, Typed, ReadTyped
  <2>3. Output(batch) \in Event /\ Output(batch).type # "EXIT"
    BY <2>2, OutputTyped DEF Output
  <2> QED BY <1>0, <1>4, <2>1, <2>3
<1>13. CASE Decide
  <2>1. CASE Drained
    <3>1. outstanding = <<>> /\ read_in_flight = 0
      BY <2>1 DEF Drained, Credit, CreditConserved
    <3>2. master_eof
      BY <2>1, <3>1, WaterAssumption DEF Drained
    <3>3. child \in {"reaped", "lost"}
      BY <1>13 DEF Decide, Collected
    <3> QED BY <1>13, <2>1, <3>1, <3>2, <3>3
            DEF Decide, Settled, readVars, kernelVars
  <2>2. CASE ~Drained
    BY <1>0, <1>6, <1>13, <2>2 DEF Decide
  <2> QED BY <2>1, <2>2
<1>14. CASE Resize \/ SendSignal \/ Close \/ ForceClose
            \/ (\E length \in WriteLengths : EnqueueWrite(length))
            \/ Produce \/ SlaveCloses \/ SlaveReopens \/ InputTaken
            \/ GraceExpires \/ UNCHANGED vars
  <2>1. UNCHANGED settledVars
    BY <1>14 DEF Resize, SendSignal, Post, Close, ForceClose, EnqueueWrite,
                 Produce, SlaveCloses, SlaveReopens, InputTaken, GraceExpires,
                 vars, settledVars, clientVars, readVars, kernelVars
  <2> QED BY <1>1, <2>1
<1>15. CASE ChildExits \/ ExternalReap
  BY <1>15 DEF ChildExits, ExternalReap, Settled, Ended, clientVars, readVars
<1> QED BY <1>2, <1>3, <1>7, <1>8, <1>9, <1>10, <1>11, <1>12, <1>13, <1>14,
<1>15
        DEF Next, Reactor, ReadAvailable, ClientControl, Environment

ExitInv == Inv /\ Collected /\ EofIsFinal /\ Settled

\* The layers of the end of a session are inductive over those of Inv.
THEOREM ExitInductive == Spec => []ExitInv
<1>1. Init => Collected /\ EofIsFinal /\ Settled
  BY DEF Init, Collected, EofIsFinal, Settled, Ended
<1>2. Inv /\ Collected /\ EofIsFinal /\ Settled /\ [Next]_vars
      => Collected' /\ EofIsFinal' /\ Settled'
  BY CollectedStep, EofIsFinalStep, SettledStep DEF Inv
<1> QED BY <1>1, <1>2, Inductive, PTL DEF Spec, ExitInv

\* EXIT tells the truth: the child is collected, all that was read is
\* acknowledged, the session can be destroyed, and all the child wrote was read
\* unless an error, or a terminal opened again, cut the stream.
THEOREM ExitSafe == Spec => []ExitIsComplete
<1>1. ExitInv => ExitIsComplete
  BY DEF ExitInv, EofIsFinal, Settled, ExitIsComplete, CanDestroy
<1> QED BY <1>1, ExitInductive, PTL

-----------------------------------------------------------------------------
(* The session implements its contract.                                     *)

phase == IF state # "finished" THEN state
         ELSE IF Ended("EXIT") THEN "exited" ELSE "failed"
acked == bytes_read - read_in_flight

\* A step that neither ends the session nor moves a byte stutters.
LEMMA PhaseKept ==
    ASSUME state' = state,
           events' = events \/ state # "finished"
    PROVE  phase' = phase
BY DEF phase, Ended

LEMMA CreditNaturalNext == Inv' => (read_in_flight \in Nat)'
<1>1. Inv => read_in_flight \in Nat
  BY CountersNatural
<1> QED BY <1>1, PTL

LEMMA ContractStep ==
    ASSUME ExitInv, ExitInv', [Next]_vars
    PROVE  [Contract!Next]_(Contract!vars)
<1> USE DEF Contract!vars
<1>0. /\ state \in {"created", "running", "finished"}
      /\ (state = "created" => pc = "idle")
      /\ (pc \notin {"idle", "done"} => state = "running")
      /\ events \in Seq(Event)
      /\ truncated \in BOOLEAN /\ truncated' \in BOOLEAN
      /\ (truncated => master_eof)
      /\ produced \in Nat /\ bytes_read \in Nat /\ read_in_flight \in Nat
      /\ read_in_flight' \in Nat /\ bytes_read' \in Nat
      /\ read_in_flight <= HighWater /\ read_in_flight' <= HighWater
      /\ HighWater \in Nat
  <2>1. read_in_flight \in Nat /\ read_in_flight <= HighWater
    BY CountersNatural DEF ExitInv, Inv, Credit, CreditConserved
  <2>2. read_in_flight' \in Nat /\ read_in_flight' <= HighWater
    BY CreditNaturalNext DEF ExitInv, Inv, Credit, CreditConserved
  <2>3. /\ produced \in Nat /\ bytes_read \in Nat /\ bytes_read' \in Nat
        /\ truncated \in BOOLEAN /\ truncated' \in BOOLEAN
    BY DEF ExitInv, Inv, Typed, KernelTyped, ReadTyped
  <2> QED BY <2>1, <2>2, <2>3, WaterAssumption
          DEF ExitInv, Inv, Typed, ClientTyped, Threaded, EventsTyped,
              EofIsFinal
<1>1. ASSUME phase' = phase, produced' = produced, bytes_read' = bytes_read,
             read_in_flight' = read_in_flight, truncated' = truncated
      PROVE  UNCHANGED Contract!vars
  BY <1>1 DEF phase
<1>2. CASE Start
  <2>1. /\ state = "created" /\ state' \in {"running", "finished"}
        /\ UNCHANGED <<produced, bytes_read, read_in_flight, truncated, events>>
    BY <1>2 DEF Start, readVars, kernelVars
  <2>2. ~Ended("EXIT") /\ ~Ended("EXIT")'
    BY <2>1 DEF ExitInv, Settled, Ended
  <2>3. phase = "created" /\ phase' \in {"running", "failed"}
    BY <2>1, <2>2 DEF phase
  <2>4. Contract!Start
    BY <2>1, <2>3 DEF Contract!Start, phase
  <2> QED BY <2>4 DEF Contract!Next
<1>3. CASE Produce
  <2>1. /\ slave_open /\ produced' = produced + 1
        /\ UNCHANGED <<state, events, bytes_read, read_in_flight, truncated>>
    BY <1>3 DEF Produce, clientVars, readVars
  <2>2. /\ phase \in {"running", "failed"} \/ (phase = "exited" /\ truncated)
        /\ phase' = phase
    <3>1. state # "created"
      BY <1>0, <2>1 DEF ExitInv, Collected
    <3>2. Ended("EXIT") => truncated
      BY <2>1 DEF ExitInv, Settled, EofIsFinal
    <3> QED BY <1>0, <2>1, <3>1, <3>2, PhaseKept DEF phase
  <2>3. Contract!Send
    BY <2>1, <2>2 DEF Contract!Send, phase
  <2> QED BY <2>3 DEF Contract!Next
<1>4. ASSUME NEW length \in 1..ReadBatch, ReadBatchOf(length)
      PROVE  Contract!Next
  <2>1. /\ pc = "read" /\ bytes_read' = bytes_read + length
        /\ read_in_flight' = read_in_flight + length
        /\ UNCHANGED <<state, produced>>
        /\ length \in 1..Lesser(Available, Unread) /\ ~master_eof
    BY <1>4 DEF ReadBatchOf, clientVars, kernelVars
  <2>2. state = "running" /\ phase = "running" /\ phase' = "running"
    BY <1>0, <2>1 DEF phase
  <2>3. length \in Nat \ {0} /\ length <= produced - bytes_read
    <3>1. Unread \in Int /\ Available \in Int
      BY <1>0, BatchAssumption, WaterAssumption DEF Unread, Available, Lesser
    <3>2. /\ Lesser(Available, Unread) \in Int
          /\ Lesser(Available, Unread) <= Unread
      BY <3>1 DEF Lesser
    <3> QED BY <2>1, <3>1, <3>2, BatchAssumption DEF Unread
  <2>4. /\ bytes_read' \in (bytes_read + 1)..produced
        /\ bytes_read' <= acked + HighWater
        /\ acked' = acked
    BY <1>0, <2>1, <2>3 DEF acked
  <2>5. Contract!Deliver
    BY <1>0, <2>1, <2>2, <2>4 DEF Contract!Deliver, phase, acked
  <2> QED BY <2>5 DEF Contract!Next
<1>5. ASSUME NEW batch \in {outstanding[i] : i \in 1..Len(outstanding)},
             Acknowledge(batch.sequence, batch.length)
      PROVE  Contract!Next
  <2>1. /\ Head(outstanding).length = batch.length /\ outstanding # <<>>
        /\ read_in_flight' = read_in_flight - batch.length
        /\ UNCHANGED <<state, events, bytes_read, produced, truncated>>
    BY <1>5 DEF Acknowledge, AcknowledgeAccepted, clientVars, kernelVars
  <2>2. batch.length \in Nat \ {0}
    <3>1. Head(outstanding) \in Batch
      BY <2>1, HeadTailProperties DEF ExitInv, Inv, Typed, ReadTyped
    <3> QED BY <2>1, <3>1 DEF Batch
  <2>3. acked' \in (acked + 1)..bytes_read
    BY <1>0, <2>1, <2>2 DEF acked
  <2>4. phase' = phase
    BY <2>1, PhaseKept
  <2>5. Contract!Acknowledge
    BY <2>1, <2>3, <2>4 DEF Contract!Acknowledge, phase, acked
  <2> QED BY <2>5 DEF Contract!Next
<1>6. CASE Decide
  <2>1. CASE Drained
    <3>1. /\ pc = "decide" /\ state' = "finished"
          /\ events' = Append(events, Lifecycle("EXIT"))
          /\ UNCHANGED <<produced, bytes_read, read_in_flight, truncated>>
      BY <1>6, <2>1 DEF Decide, readVars, kernelVars
    <3>2. phase = "running"
      BY <1>0, <3>1 DEF phase
    <3>3. phase' = "exited"
      <4>1. Lifecycle("EXIT") \in Event /\ Lifecycle("EXIT").type = "EXIT"
        BY DEF Lifecycle, Event, EventType
      <4>2. /\ Len(events) + 1 \in 1..Len(events')
            /\ events'[Len(events) + 1].type = "EXIT"
        BY <1>0, <3>1, <4>1, AppendProperties, LenProperties
      <4> QED BY <3>1, <4>2 DEF phase, Ended
    <3>4. read_in_flight = 0 /\ master_eof
      BY <2>1, WaterAssumption DEF Drained, ExitInv, Inv, Credit,
                CreditConserved
    <3>5. (truncated \/ bytes_read = produced) /\ acked = bytes_read
      BY <1>0, <3>4 DEF acked, ExitInv, EofIsFinal
    <3>6. Contract!Exit
      BY <3>1, <3>2, <3>3, <3>5 DEF Contract!Exit, phase, acked
    <3> QED BY <3>6 DEF Contract!Next
  <2>2. CASE ~Drained
    <3>1. /\ UNCHANGED <<state, events, produced, bytes_read, read_in_flight>>
          /\ UNCHANGED truncated
      BY <1>6, <2>2 DEF Decide, readVars, kernelVars
    <3> QED BY <1>1, <3>1, PhaseKept
  <2> QED BY <2>1, <2>2
<1>7. ASSUME FinishError, pc \in {"spawn", "abort"},
             UNCHANGED <<produced, bytes_read, read_in_flight, truncated>>
      PROVE  Contract!Next
  <2>1. state = "running" /\ state' = "finished" /\ phase = "running"
    BY <1>0, <1>7 DEF FinishError, phase
  <2>2. phase' = "failed"
    <3>1. ~Ended("EXIT")
      BY <2>1 DEF ExitInv, Settled
    <3>2. Lifecycle("ERROR") \in Event /\ Lifecycle("ERROR").type # "EXIT"
      BY DEF Lifecycle, Event, EventType
    <3>3. ~Ended("EXIT")'
      BY <1>0, <1>7, <3>1, <3>2, EndedAppend DEF FinishError
    <3> QED BY <2>1, <3>3 DEF phase
  <2>3. Contract!Fail
    BY <1>7, <2>1, <2>2 DEF Contract!Fail, phase
  <2> QED BY <2>3 DEF Contract!Next
<1>8. CASE Spawn \/ TerminateAndReap
  <2>1. UNCHANGED <<produced, bytes_read, read_in_flight, truncated>>
    BY <1>8 DEF Spawn, TerminateAndReap, readVars
  <2>2. \/ FinishError /\ pc \in {"spawn", "abort"}
        \/ UNCHANGED <<state, events>>
    BY <1>8 DEF Spawn, TerminateAndReap
  <2> QED BY <1>1, <1>7, <2>1, <2>2, PhaseKept
<1>9. CASE \/ CheckExec \/ ConfigureKqueue \/ Wait \/ WaitFails \/ Dispatch
           \/ ProcessControl \/ Retry \/ Reap \/ FlushWrites
  <2>1. /\ UNCHANGED <<state, produced, bytes_read, read_in_flight, truncated>>
        /\ pc \notin {"idle", "done"}
    BY <1>9 DEF CheckExec, ConfigureKqueue, Prepare, Wait, WaitFails, Dispatch,
                ProcessControl, Retry, Reap, FlushWrites, FlushEnds,
                FlushBlocked, FlushChunk, clientVars, readVars, kernelVars
  <2> QED BY <1>0, <1>1, <2>1, PhaseKept
<1>10. CASE ReadAfterEof \/ ReadPauses \/ ReadNothing
  <2>1. /\ UNCHANGED <<state, events, produced, bytes_read, read_in_flight>>
        /\ UNCHANGED truncated
    BY <1>10 DEF ReadAfterEof, ReadPauses, ReadNothing, clientVars, kernelVars
  <2> QED BY <1>1, <2>1, PhaseKept
<1>11. CASE \/ Resize \/ SendSignal \/ Close \/ ForceClose
            \/ \E length \in WriteLengths : EnqueueWrite(length)
            \/ ChildExits \/ ExternalReap \/ SlaveCloses \/ InputTaken
            \/ GraceExpires \/ UNCHANGED vars
  <2>1. /\ UNCHANGED <<state, events, produced, bytes_read, read_in_flight>>
        /\ UNCHANGED truncated
    BY <1>11 DEF Resize, SendSignal, Post, Close, ForceClose, EnqueueWrite,
                 ChildExits, ExternalReap, SlaveCloses, InputTaken,
                 GraceExpires, vars, clientVars, readVars, kernelVars
  <2> QED BY <1>1, <2>1, PhaseKept
<1>12. ASSUME state = "running", truncated',
              UNCHANGED <<state, events, produced, bytes_read, read_in_flight>>
       PROVE  Contract!Next
  <2>1. phase = "running" /\ phase' = phase
    BY <1>12 DEF phase
  <2>2. Contract!Cut
    BY <1>0, <1>12, <2>1 DEF Contract!Cut, phase
  <2> QED BY <2>2 DEF Contract!Next
<1>13. CASE ReadFails
  <2>1. state = "running"
    BY <1>0, <1>13 DEF ReadFails
  <2> QED BY <1>12, <1>13, <2>1 DEF ReadFails, clientVars, kernelVars
<1>14. CASE SlaveReopens
  <2>1. UNCHANGED <<state, events, produced, bytes_read, read_in_flight>>
    BY <1>14 DEF SlaveReopens, clientVars
  <2>2. CASE truncated'
    <3>1. child = "running"
      BY <1>14 DEF SlaveReopens
    <3>2. state = "running"
      BY <1>0, <3>1 DEF ExitInv, Collected, Settled
    <3> QED BY <1>12, <2>1, <2>2, <3>2
  <2>3. CASE ~truncated'
    <3>1. truncated' = truncated
      BY <1>0, <1>14, <2>3 DEF SlaveReopens
    <3> QED BY <1>1, <2>1, <3>1, PhaseKept
  <2> QED BY <1>0, <2>2, <2>3
<1> QED BY <1>2, <1>3, <1>4, <1>5, <1>6, <1>8, <1>9, <1>10, <1>11, <1>13, <1>14
        DEF Next, Reactor, ReadAvailable, ClientControl, AcknowledgeNext,
            Environment

\* Every behaviour of the reactor is one of the credit-window stream that
\* PtyContract promises.
THEOREM Refines == Spec => ImplementsContract
<1>1. Init => Contract!Init
  BY DEF Init, Contract!Init, Ended
<1>2. ExitInv /\ ExitInv' /\ [Next]_vars => [Contract!Next]_(Contract!vars)
  BY ContractStep
<1> QED BY <1>1, <1>2, ExitInductive, PTL DEF Spec, ImplementsContract,
                Contract!Spec

-----------------------------------------------------------------------------
(* The lifecycle callbacks.                                                 *)

Starting == {"idle", "spawn", "exec", "kqueue"}
Ends(event) == event.type \in {"EXIT", "ERROR"}

Announced ==
    /\ pc \in Starting => events = <<>>
    /\ pc \notin Starting \cup {"abort", "done"} =>
           events # <<>> /\ events[1].type = "STARTED"
StartedFirst ==
    \A i \in 1..Len(events) :
        /\ events[i].type = "STARTED" => i = 1
        /\ events[i].type \in {"OUTPUT", "EXIT"} => events[1].type = "STARTED"
EndsLast ==
    /\ state # "finished" => \A i \in 1..Len(events) : ~Ends(events[i])
    /\ state = "finished" /\ pc # "idle" =>
           /\ events # <<>> /\ Ends(events[Len(events)])
           /\ \A i \in 1..(Len(events) - 1) : ~Ends(events[i])
Ordered == Announced /\ StartedFirst /\ EndsLast

LEMMA EventsAppended ==
    ASSUME events \in Seq(Event), NEW event \in Event,
           events' = Append(events, event)
    PROVE  /\ Len(events') = Len(events) + 1 /\ Len(events) \in Nat
           /\ \A i \in 1..Len(events) : events'[i] = events[i]
           /\ events'[Len(events) + 1] = event
           /\ events' # <<>>
BY AppendProperties, LenProperties

\* A callback that ends the session, made while none has.
LEMMA OrderedEnd ==
    ASSUME Typed, Ordered, state # "finished", state' = "finished",
           pc' = "done", NEW type \in {"EXIT", "ERROR"},
           events' = Append(events, Lifecycle(type)),
           type = "EXIT" => events # <<>> /\ events[1].type = "STARTED"
    PROVE  Ordered'
<1>1. Lifecycle(type) \in Event /\ Lifecycle(type).type = type
  BY DEF Lifecycle, Event, EventType
<1>2. events \in Seq(Event)
  BY DEF Typed, EventsTyped
<1>3. /\ Len(events') = Len(events) + 1 /\ Len(events) \in Nat
      /\ \A i \in 1..Len(events) : events'[i] = events[i]
      /\ events'[Len(events) + 1] = Lifecycle(type)
      /\ events' # <<>>
  BY <1>1, <1>2, EventsAppended
<1>4. events # <<>> => Len(events) >= 1
  BY <1>2, <1>3, EmptySeq
<1>5. Announced'
  BY DEF Announced, Starting
<1>6. StartedFirst'
  <2>1. ASSUME NEW i \in 1..Len(events')
        PROVE  /\ events'[i].type = "STARTED" => i = 1
               /\ events'[i].type \in {"OUTPUT", "EXIT"} =>
                      events'[1].type = "STARTED"
    <3>1. CASE i = Len(events) + 1
      BY <1>1, <1>3, <1>4, <3>1
    <3>2. CASE i \in 1..Len(events)
      BY <1>3, <3>2 DEF Ordered, StartedFirst
    <3> QED BY <1>3, <3>1, <3>2
  <2> QED BY <2>1 DEF StartedFirst
<1>7. EndsLast'
  BY <1>1, <1>3 DEF Ordered, EndsLast, Ends
<1> QED BY <1>5, <1>6, <1>7 DEF Ordered

\* STARTED or OUTPUT, made while the session runs.
LEMMA OrderedMore ==
    ASSUME Typed, Ordered, state # "finished", state' = state,
           NEW event \in Event, events' = Append(events, event),
           \/ event.type = "STARTED" /\ events = <<>>
           \/ /\ event.type = "OUTPUT"
              /\ events # <<>> /\ events[1].type = "STARTED",
           pc' \notin Starting
    PROVE  Ordered'
<1>2. events \in Seq(Event)
  BY DEF Typed, EventsTyped
<1>3. /\ Len(events') = Len(events) + 1 /\ Len(events) \in Nat
      /\ \A i \in 1..Len(events) : events'[i] = events[i]
      /\ events'[Len(events) + 1] = event
      /\ events' # <<>>
  BY <1>2, EventsAppended
<1>4. /\ events # <<>> => Len(events) >= 1
      /\ events = <<>> => Len(events) = 0
  BY <1>2, <1>3, EmptySeq
<1>5. events'[1].type = "STARTED"
  BY <1>3, <1>4
<1>6. Announced'
  BY <1>3, <1>5 DEF Announced
<1>7. StartedFirst'
  <2>1. ASSUME NEW i \in 1..Len(events')
        PROVE  events'[i].type = "STARTED" => i = 1
    <3>1. CASE i = Len(events) + 1
      BY <1>3, <1>4, <3>1
    <3>2. CASE i \in 1..Len(events)
      BY <1>3, <3>2 DEF Ordered, StartedFirst
    <3> QED BY <1>3, <3>1, <3>2
  <2> QED BY <1>5, <2>1 DEF StartedFirst
<1>8. EndsLast'
  BY <1>3 DEF Ordered, EndsLast, Ends
<1> QED BY <1>6, <1>7, <1>8 DEF Ordered

\* A step that makes no callback.
LEMMA OrderedKept ==
    ASSUME Ordered, UNCHANGED <<state, events>>,
           \/ pc' = pc
           \/ pc \in Starting \ {"idle"} /\ pc' \in Starting \cup {"abort"}
           \/ pc \notin Starting \cup {"abort", "done"} /\ pc' \notin Starting
    PROVE  Ordered'
<1>1. Announced'
  BY DEF Ordered, Announced, Starting
<1> QED BY <1>1 DEF Ordered, StartedFirst, EndsLast, Starting

LEMMA OrderedStep ==
    ASSUME Typed, Collected, Ordered, [Next]_vars
    PROVE  Ordered'
<1>0. /\ state \in {"created", "running", "finished"}
      /\ (state = "created" => pc = "idle")
      /\ (pc \notin {"idle", "done"} => state = "running")
      /\ StackShape /\ events \in Seq(Event)
  BY DEF Typed, ClientTyped, Threaded, FlowTyped, EventsTyped
<1>1. CASE Start
  <2>1. /\ UNCHANGED events /\ pc = "idle" /\ state = "created"
        /\ \/ pc' = "spawn" /\ state' = "running"
           \/ pc' = "idle" /\ state' = "finished"
    BY <1>0, <1>1 DEF Start
  <2> QED BY <2>1 DEF Ordered, Announced, Starting, StartedFirst, EndsLast
<1>2. CASE \/ Resize \/ SendSignal \/ Close \/ ForceClose \/ AcknowledgeNext
           \/ (\E length \in WriteLengths : EnqueueWrite(length))
           \/ Environment \/ UNCHANGED vars
  <2>1. UNCHANGED <<state, events, pc>>
    BY <1>2 DEF Resize, SendSignal, Post, Close, ForceClose, EnqueueWrite,
                AcknowledgeNext, Acknowledge, Environment, Produce, ChildExits,
                ExternalReap, SlaveCloses, SlaveReopens, InputTaken,
                GraceExpires, vars, clientVars, flowVars
  <2> QED BY <2>1, OrderedKept
<1>3. CASE Spawn
  <2>1. pc = "spawn"
    BY <1>3 DEF Spawn
  <2>2. \/ UNCHANGED <<state, events>> /\ pc' = "exec"
        \/ FinishError
    BY <1>3 DEF Spawn
  <2>3. CASE UNCHANGED <<state, events>> /\ pc' = "exec"
    BY <2>1, <2>3, OrderedKept DEF Starting
  <2>4. CASE FinishError
    BY <1>0, <2>1, <2>4, OrderedEnd DEF FinishError
  <2> QED BY <2>2, <2>3, <2>4
<1>4. CASE CheckExec
  <2>1. /\ UNCHANGED <<state, events>> /\ pc = "exec"
        /\ pc' \in {"kqueue", "abort"}
    BY <1>4 DEF CheckExec, Prepare, clientVars
  <2> QED BY <2>1, OrderedKept DEF Starting
<1>5. CASE ConfigureKqueue
  <2>1. /\ state' = state /\ pc = "kqueue"
        /\ \/ pc' = "control" /\ events' = Append(events, Lifecycle("STARTED"))
           \/ pc' = "abort" /\ events' = events
    BY <1>5 DEF ConfigureKqueue, Prepare, clientVars
  <2>2. Lifecycle("STARTED") \in Event /\ Lifecycle("STARTED").type = "STARTED"
    BY DEF Lifecycle, Event, EventType
  <2>3. events = <<>>
    BY <2>1 DEF Ordered, Announced, Starting
  <2>4. CASE pc' = "control"
    BY <1>0, <2>1, <2>2, <2>3, <2>4, OrderedMore DEF Starting
  <2>5. CASE pc' = "abort"
    BY <2>1, <2>5, OrderedKept DEF Starting
  <2> QED BY <2>1, <2>4, <2>5
<1>6. CASE TerminateAndReap
  <2>1. pc = "abort" /\ FinishError
    BY <1>6 DEF TerminateAndReap
  <2> QED BY <1>0, <2>1, OrderedEnd DEF FinishError
<1>7. CASE Wait \/ WaitFails \/ Dispatch \/ ProcessControl \/ Retry \/ Reap
  <2>1. /\ UNCHANGED <<state, events>>
        /\ pc \in {"wait", "dispatch", "control", "retry", "reap"}
    BY <1>7 DEF Wait, WaitFails, Dispatch, ProcessControl, Retry, Reap,
                clientVars
  <2>2. pc' \in {"dispatch", "abort", "control", "read", "flush", "reap",
                 "wait"}
    <3>1. \A filter \in fired : filter \in {"READ", "WRITE", "PROC"}
      BY DEF Typed, FlowTyped, Filter
    <3> QED BY <1>7, <3>1 DEF Wait, WaitFails, Dispatch, ProcessControl, Retry,
                              Reap, Call
  <2> QED BY <2>1, <2>2, OrderedKept DEF Starting
<1>8. CASE ReadAfterEof \/ ReadPauses \/ ReadNothing \/ ReadFails \/ FlushWrites
  <2>1. UNCHANGED <<state, events>> /\ pc \in {"read", "flush"}
    BY <1>8 DEF ReadAfterEof, ReadPauses, ReadNothing, ReadFails, FlushWrites,
                FlushEnds, FlushBlocked, FlushChunk, clientVars
  <2>2. Return \/ UNCHANGED pc
    BY <1>8 DEF ReadAfterEof, ReadPauses, ReadNothing, ReadFails, FlushWrites,
                FlushEnds, FlushBlocked, FlushChunk
  <2>3. pc' = pc \/ pc' \notin Starting
    BY <1>0, <2>1, <2>2, ReturnTarget DEF Starting
  <2> QED BY <2>1, <2>3, OrderedKept DEF Starting
<1>9. ASSUME NEW length \in 1..ReadBatch, ReadBatchOf(length)
      PROVE  Ordered'
  <2> DEFINE batch == [sequence |-> next_sequence, from |-> bytes_read,
                       length |-> length]
  <2>1. /\ state' = state /\ pc = "read"
        /\ events' = Append(events, Output(batch))
    BY <1>9 DEF ReadBatchOf, clientVars
  <2>2. batch \in Batch
    BY BatchAssumption DEF Batch, Typed, ReadTyped
  <2>3. Output(batch) \in Event /\ Output(batch).type = "OUTPUT"
    BY <2>2, OutputTyped DEF Output
  <2>4. Return \/ UNCHANGED pc
    BY <1>9 DEF ReadBatchOf
  <2>5. pc' \notin Starting
    BY <1>0, <2>1, <2>4, ReturnTarget DEF Starting
  <2>6. events # <<>> /\ events[1].type = "STARTED"
    BY <2>1 DEF Ordered, Announced, Starting
  <2> QED BY <1>0, <2>1, <2>3, <2>5, <2>6, OrderedMore
<1>10. CASE Decide
  <2>1. pc = "decide"
    BY <1>10 DEF Decide
  <2>2. events # <<>> /\ events[1].type = "STARTED"
    BY <2>1 DEF Ordered, Announced, Starting
  <2>3. CASE Drained
    BY <1>0, <1>10, <2>1, <2>2, <2>3, OrderedEnd DEF Decide
  <2>4. CASE ~Drained
    BY <1>10, <2>1, <2>4, OrderedKept DEF Decide, Starting
  <2> QED BY <2>3, <2>4
<1> QED BY <1>1, <1>2, <1>3, <1>4, <1>5, <1>6, <1>7, <1>8, <1>9, <1>10
        DEF Next, Reactor, ReadAvailable, ClientControl

\* STARTED comes first, the end once and last, neither output nor EXIT comes of
\* a session that never started, and a session is finished exactly when its end
\* was told or no thread could be made to run it.
THEOREM OrderSafe == Spec => []LifecycleOnce
<1>1. Init => Ordered
  BY DEF Init, Ordered, Announced, StartedFirst, EndsLast, Starting
<1>2. ExitInv /\ Ordered /\ [Next]_vars => Ordered'
  BY OrderedStep DEF ExitInv, Inv
<1>3. ExitInv /\ Ordered => LifecycleOnce
  <2> SUFFICES ASSUME ExitInv, Ordered PROVE LifecycleOnce
    OBVIOUS
  <2>1. events \in Seq(Event) /\ Len(events) \in Nat
    BY LenProperties DEF ExitInv, Inv, Typed, EventsTyped
  <2>2. events # <<>> => Len(events) \in 1..Len(events)
    BY <2>1, EmptySeq
  <2>3. pc = "idle" => events = <<>>
    BY DEF Ordered, Announced, Starting
  <2>4. events = <<>> => Len(events) = 0
    BY EmptySeq
  <2>5. \A i \in 1..Len(events) :
           /\ events[i].type = "STARTED" => i = 1
           /\ events[i].type \in {"EXIT", "ERROR"} => i = Len(events)
           /\ events[i].type \in {"OUTPUT", "EXIT"} =>
                  events[1].type = "STARTED"
    BY <2>1, <2>3, <2>4 DEF Ordered, StartedFirst, EndsLast, Ends
  <2>6. state = "finished" /\ pc # "idle" <=>
          \E i \in 1..Len(events) : events[i].type \in {"EXIT", "ERROR"}
    BY <2>1, <2>2, <2>3, <2>4 DEF Ordered, EndsLast, Ends
  <2> QED BY <2>5, <2>6 DEF LifecycleOnce
<1> QED BY <1>1, <1>2, <1>3, ExitInductive, PTL DEF Spec

-----------------------------------------------------------------------------
(* One batch at a time.                                                     *)

\* Whatever could make the reactor read finds nothing retained, until the
\* child is collected.
Serial ==
    /\ ~read_retry
    /\ pc \in Starting \cup {"control"} => fired = {}
    /\ ~child_completed =>
           /\ Len(outstanding) <= 1
           /\ pc = "read" => "READ" \notin fired /\ outstanding = <<>>
           /\ "READ" \in fired => outstanding = <<>>
           /\ read_enabled => outstanding = <<>>

serialVars == <<read_retry, read_enabled, outstanding, child_completed>>

LEMMA SerialKept ==
    ASSUME Serial, UNCHANGED serialVars, fired' = fired,
           pc' = "read" => pc = "read" \/ child_completed,
           pc' \in Starting \cup {"control"} => pc \in Starting \cup {"control"}
    PROVE  Serial'
BY DEF Serial, serialVars

LEMMA NothingInFlight ==
    ASSUME Inv, read_in_flight <= 0
    PROVE  outstanding = <<>>
<1> SUFFICES ASSUME outstanding # <<>> PROVE FALSE
  OBVIOUS
<1>1. /\ Head(outstanding) = outstanding[1] /\ 1 \in 1..Len(outstanding)
      /\ Head(outstanding) \in Batch
  BY HeadTailProperties, EmptySeq DEF Inv, Typed, ReadTyped
<1>2. /\ EndOf(Head(outstanding)) <= bytes_read /\ bytes_read \in Nat
      /\ read_in_flight = bytes_read - Head(outstanding).from
  BY <1>1 DEF Inv, Credit, CreditConserved, Typed, ReadTyped
<1>3. Head(outstanding).from \in Nat /\ Head(outstanding).length \in Nat \ {0}
  BY <1>1 DEF Batch
<1> QED BY <1>2, <1>3 DEF EndOf

LEMMA SerialStep ==
    ASSUME TurnMode, LowWater = 0, Inv, Collected, Serial, [Next]_vars
    PROVE  Serial'
<1>0. /\ (state = "created" => pc = "idle")
      /\ StackShape /\ outstanding \in Seq(Batch) /\ fired \subseteq Filter
      /\ child_completed \in BOOLEAN /\ read_enabled \in BOOLEAN
      /\ pc \in Label
  BY DEF Inv, Typed, Threaded, FlowTyped, ReadTyped, ExitTyped
<1>1. CASE ClientControl
  <2>1. UNCHANGED serialVars /\ fired' = fired
        /\ (pc' = pc \/ (pc = "idle" /\ pc' = "spawn"))
    <3>1. CASE Start
      BY <1>0, <3>1 DEF Start, serialVars, readVars, exitVars
    <3>2. CASE ClientControl /\ ~Start
      BY <3>2 DEF ClientControl, Resize, SendSignal, Post, Close, ForceClose,
         EnqueueWrite, serialVars, readVars, exitVars, flowVars
    <3> QED BY <1>1, <3>1, <3>2
  <2> QED BY <2>1, SerialKept DEF Starting
<1>2. CASE AcknowledgeNext
  <2>1. /\ outstanding # <<>> /\ outstanding' = Tail(outstanding)
        /\ UNCHANGED <<read_retry, read_enabled, child_completed, pc, fired>>
    BY <1>2 DEF AcknowledgeNext, Acknowledge, AcknowledgeAccepted, exitVars,
       flowVars
  <2>2. /\ Len(outstanding') = Len(outstanding) - 1 /\ Len(outstanding) \in Nat
        /\ outstanding' \in Seq(Batch)
    BY <1>0, <2>1, HeadTailProperties, LenProperties
  <2> QED BY <2>1, <2>2 DEF Serial
<1>3. CASE Spawn \/ CheckExec \/ ConfigureKqueue \/ TerminateAndReap \/ WaitFails
  <2>1. UNCHANGED serialVars /\ fired' = fired /\ pc' # "read"
        /\ (pc' \in Starting \cup {"control"} => pc \in Starting)
    BY <1>3 DEF Spawn, CheckExec, ConfigureKqueue, Prepare, TerminateAndReap,
       FinishError, WaitFails, serialVars, readVars, exitVars, Starting
  <2> QED BY <2>1, SerialKept
<1>4. CASE Wait
  <2>1. UNCHANGED serialVars /\ pc' = "dispatch" /\ fired' = Ready
    BY <1>4 DEF Wait, serialVars, readVars, exitVars
  <2>2. "READ" \in Ready => read_enabled
    BY DEF Ready
  <2> QED BY <2>1, <2>2 DEF Serial, serialVars, Starting
<1>5. CASE Dispatch
  <2>1. UNCHANGED <<read_retry, read_enabled, outstanding>>
    BY <1>5 DEF Dispatch, readVars
  <2>2. CASE fired = {}
    BY <1>5, <2>1, <2>2 DEF Dispatch, Call, Serial, exitVars, Starting
  <2>3. ASSUME NEW filter \in fired, fired' = fired \ {filter},
               filter # "READ" => pc' # "read",
               pc' \in {"read", "flush", "dispatch"},
               ~child_completed' => ~child_completed
        PROVE  Serial'
    BY <2>1, <2>3 DEF Serial, Starting
  <2>4. CASE fired # {}
    <3>1. PICK filter \in fired :
             /\ fired' = fired \ {filter}
             /\ \/ /\ filter = "READ" /\ Call("read", "dispatch")
                   /\ UNCHANGED exitVars
                \/ /\ filter = "WRITE" /\ Call("flush", "dispatch")
                   /\ UNCHANGED exitVars
                \/ filter = "PROC" /\ ReapChild(TRUE) /\ pc' = pc
      BY <1>0, <1>5, <2>4 DEF Dispatch, Filter
    <3>2. pc = "dispatch"
      BY <1>5 DEF Dispatch
    <3>3. ~child_completed' => ~child_completed
      BY <1>0, <3>1 DEF ReapChild, exitVars
    <3> QED BY <2>3, <3>1, <3>2, <3>3 DEF Call
  <2> QED BY <2>2, <2>4
<1>6. CASE ProcessControl
  <2>1. /\ pc = "control" /\ fired' = fired
        /\ UNCHANGED <<read_retry, outstanding, child_completed>>
    BY <1>6 DEF ProcessControl, exitVars
  <2>2. fired = {}
    BY <2>1 DEF Serial
  <2>3. CASE ReadResumes
    <3>1. pc' = "read"
      BY <1>6, <2>3 DEF ProcessControl, Call
    <3>2. outstanding = <<>>
      <4>1. read_in_flight <= 0
        BY <2>3 DEF ReadResumes
      <4> QED BY <4>1, NothingInFlight
    <3> QED BY <2>1, <2>2, <3>1, <3>2 DEF Serial, Starting
  <2>4. CASE ~ReadResumes
    <3>1. pc' = "flush" /\ read_enabled' = read_enabled
      BY <1>6, <2>4 DEF ProcessControl
    <3> QED BY <2>1, <2>2, <3>1 DEF Serial, Starting
  <2> QED BY <2>3, <2>4
<1>7. CASE Retry
  <2>1. UNCHANGED serialVars /\ fired' = fired /\ pc' = "reap"
    BY <1>7 DEF Retry, Serial, serialVars, readVars, exitVars, flowVars
  <2> QED BY <2>1, SerialKept DEF Starting
<1>8. CASE Reap
  <2>1. /\ UNCHANGED <<read_retry, read_enabled, outstanding, fired>>
        /\ (~child_completed' => ~child_completed /\ pc' = "wait")
        /\ pc' \in {"read", "wait"}
    BY <1>0, <1>8 DEF Reap, ReapChild, Call, readVars
  <2> QED BY <2>1 DEF Serial, Starting
<1>9. CASE ReadAfterEof \/ ReadPauses \/ ReadNothing \/ ReadFails \/ Decide \/ FlushWrites
  <2>1. pc \in {"read", "flush", "decide"}
        /\ UNCHANGED <<outstanding, child_completed, fired>>
    BY <1>9 DEF ReadAfterEof, ReadPauses, ReadNothing, ReadFails, Decide,
                FlushWrites, FlushEnds, FlushBlocked, FlushChunk, readVars,
                exitVars, flowVars
  <2>2. (read_retry' => read_retry) /\ (read_enabled' => read_enabled)
    <3>1. CASE ReadAfterEof
      BY <3>1 DEF ReadAfterEof
    <3>2. CASE ReadPauses
      BY <3>2 DEF ReadPauses, Pause
    <3>3. CASE ReadNothing \/ ReadFails
      BY <1>0, <3>3 DEF ReadNothing, ReadFails
    <3>4. CASE Decide \/ FlushWrites
      BY <3>4 DEF Decide, FlushWrites, FlushEnds, FlushBlocked, FlushChunk,
         readVars
    <3> QED BY <1>9, <3>1, <3>2, <3>3, <3>4
  <2>3. \/ Return \/ pc' = pc \/ pc' \in {"wait", "done"}
    BY <1>9 DEF ReadAfterEof, ReadPauses, ReadNothing, ReadFails, Decide,
                FlushWrites, FlushEnds, FlushBlocked, FlushChunk
  <2>4. pc' \notin Starting \cup {"control"} /\ (pc' = "read" => pc = "read")
    <3>1. pc = "decide" => pc' \in {"wait", "done"}
      BY <1>9 DEF ReadAfterEof, ReadPauses, ReadNothing, ReadFails, Decide,
                  FlushWrites, FlushEnds, FlushBlocked, FlushChunk
    <3> QED BY <1>0, <2>1, <2>3, <3>1, ReturnTarget DEF Starting
  <2> QED BY <2>1, <2>2, <2>4 DEF Serial
<1>10. ASSUME NEW length \in 1..ReadBatch, ReadBatchOf(length)
       PROVE  Serial'
  <2> DEFINE batch == [sequence |-> next_sequence, from |-> bytes_read,
                       length |-> length]
  <2>1. /\ pc = "read" /\ Return /\ Pause /\ ~read_retry'
        /\ outstanding' = Append(outstanding, batch)
        /\ UNCHANGED <<fired, child_completed>>
    BY <1>10 DEF ReadBatchOf, exitVars
  <2>2. ~read_enabled'
    BY <2>1 DEF Pause
  <2>3. pc' \notin Starting \cup {"control", "read"}
    BY <1>0, <2>1, ReturnTarget DEF Starting
  <2>4. batch \in Batch
    BY BatchAssumption DEF Batch, Inv, Typed, ReadTyped
  <2>5. ~child_completed => outstanding = <<>> /\ "READ" \notin fired
    BY <2>1 DEF Serial
  <2>6. ~child_completed => Len(outstanding') = 1
    BY <1>0, <2>1, <2>4, <2>5, AppendProperties, LenProperties
  <2> QED BY <2>1, <2>2, <2>3, <2>5, <2>6 DEF Serial
<1>11. CASE Environment \/ UNCHANGED vars
  <2>1. UNCHANGED serialVars /\ fired' = fired /\ pc' = pc
    BY <1>11 DEF Environment, Produce, ChildExits, ExternalReap, SlaveCloses,
                 SlaveReopens, InputTaken, GraceExpires, vars, serialVars,
                 readVars, exitVars, flowVars
  <2> QED BY <2>1, SerialKept
<1> QED BY <1>1, <1>2, <1>3, <1>4, <1>5, <1>6, <1>7, <1>8, <1>9, <1>10, <1>11
        DEF Next, Reactor, ReadAvailable

\* With a turn limit and a low watermark of zero, nothing is read while a batch
\* awaits its acknowledgement, as long as the child lives.
THEOREM SerialSafe == Spec => []SerialDelivery
<1>1. CASE TurnMode /\ LowWater = 0
  <2>1. Init => Serial
    BY DEF Init, Serial, Starting
  <2>2. ExitInv /\ Serial /\ [Next]_vars => Serial'
    BY <1>1, SerialStep DEF ExitInv
  <2>3. Serial => SerialDelivery
    BY DEF Serial, SerialDelivery
  <2> QED BY <2>1, <2>2, <2>3, ExitInductive, PTL DEF Spec
<1>2. CASE ~(TurnMode /\ LowWater = 0)
  <2>1. SerialDelivery
    BY <1>2 DEF SerialDelivery
  <2> QED BY <2>1, PTL
<1> QED BY <1>1, <1>2
=============================================================================
