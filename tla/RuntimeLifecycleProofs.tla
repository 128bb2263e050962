----------------------- MODULE RuntimeLifecycleProofs -----------------------
(***************************************************************************)
(* Proofs about RuntimeLifecycle: types, what an announced end means, what *)
(* a failed start leaves, and that the coordinator keeps WorkerContract.   *)
(***************************************************************************)
EXTENDS RuntimeLifecycle, SequenceTheorems, TLAPS

(* The inductive invariant.                                                 *)

\* Before a launch, and behind one that failed, there is nothing to end.
Unlaunched ==
    /\ start_call \in {"none", "spawning"} =>
           worker = "none" /\ termination = "none"
    /\ state = "idle" => start_call = "none"
    /\ worker = "none" =>
           /\ state \in {"idle", "starting", "stopped"}
           /\ start_call \in {"none", "spawning", "startupFailure"}
           /\ ~exit_signal /\ verdict = "none"
           /\ outbox = <<>> /\ stdout = <<>>
           /\ \A c \in Call : calls[c] = "new"

\* Nothing waits for an exit that was seen.
Exited ==
    exit_signal => /\ Dead
                   /\ start_call \notin Waiting /\ shutdown_call \notin Waiting
                   /\ \A c \in Call : calls[c] \notin Waiting

\* What the barriers and the classification have established.
Drained ==
    /\ protocol_drained => protocol_failure \/ (Dead /\ stdout = <<>>)
    /\ diagnostics_drained => Dead /\ ~stderr
    /\ verdict # "none" => CanReconcile /\ state = "stopped" /\ responses = {}
    /\ termination # "none" /\ worker # "none" =>
           verdict # "none" /\ outbox = <<>>

\* The writer's queue holds each sending request once, and later operations
\* are unused.
Queued ==
    /\ \A i \in 1..Len(outbox) : outbox[i].operation \in Call =>
           /\ calls[outbox[i].operation] = "sending"
           /\ outbox[i].operation < next_operation
    /\ \A i, j \in 1..Len(outbox) : outbox[i].operation \in Call /\ i # j =>
           outbox[i].operation # outbox[j].operation
    /\ \A c \in Call : calls[c] = "sending" =>
           \E i \in 1..Len(outbox) : outbox[i].operation = c
    /\ \A c \in Call : c >= next_operation => calls[c] = "new"

\* How far a failing start has come.
StartKnown ==
    /\ start_call = "ending" => exit_signal
    /\ start_call = "startupFailure" =>
           termination # "none" /\ ~Alive /\ state = "stopped"

IInv ==
    TypeOK /\ Unlaunched /\ Exited /\ Drained /\ Queued /\ StartKnown

-----------------------------------------------------------------------------
(* Lemmas about the writer's queue and the frames.                          *)

\* Every frame the coordinator or the worker builds is a frame.
LEMMA Frames ==
    /\ \A type \in {"ready", "stop", "ack", "invalid", "broken"} :
           Plain(type) \in Frame
    /\ \A c \in Call : Of("request", c) \in Frame /\ Of("response", c) \in Frame
    /\ \A type \in {"ready", "stop", "ack", "invalid", "broken"} :
           Plain(type).operation \notin Call
  BY RequestAssumption DEF Frame, Plain, Of, Call

\* The rest of a queue, element by element.
LEMMA TailOf ==
    ASSUME NEW q \in Seq(Frame), q # <<>>
    PROVE  /\ Tail(q) \in Seq(Frame) /\ Head(q) \in Frame /\ Head(q) = q[1]
           /\ Len(q) \in Nat \ {0} /\ Len(Tail(q)) = Len(q) - 1
           /\ \A i \in 1..Len(Tail(q)) : Tail(q)[i] = q[i + 1]
  OBVIOUS

\* A queue with one more frame, element by element.
LEMMA AppendOf ==
    ASSUME NEW q \in Seq(Frame), NEW frame \in Frame
    PROVE  /\ Append(q, frame) \in Seq(Frame)
           /\ Len(q) \in Nat /\ Len(Append(q, frame)) = Len(q) + 1
           /\ \A i \in 1..Len(q) : Append(q, frame)[i] = q[i]
           /\ Append(q, frame)[Len(q) + 1] = frame
  OBVIOUS

-----------------------------------------------------------------------------
THEOREM InitIInv == Init => IInv
  <1> SUFFICES ASSUME Init PROVE IInv
    OBVIOUS
  <1>1. TypeOK
    <2>1. TypeFlags
      BY DEF Init, TypeFlags
    <2>2. TypeData
      BY RequestAssumption DEF Init, TypeData, State, Termination, StartStep,
         ShutdownStep, CallStep, Call
    <2> QED BY <2>1, <2>2 DEF TypeOK
  <1>2. Unlaunched /\ Exited /\ Drained /\ Queued /\ StartKnown
    BY RequestAssumption DEF Init, Unlaunched, Exited, Drained, Queued,
       StartKnown, Call
  <1> QED BY <1>1, <1>2 DEF IInv

\* Types: the flags stay Boolean.
LEMMA FlagsStep == ASSUME TypeFlags, [Next]_vars PROVE TypeFlags'
  <1> USE DEF TypeFlags, flags, registry, evidence, outcome, process
  <1>1. CASE Start
    BY <1>1 DEF Start
  <1>2. CASE Request
    BY <1>2 DEF Request
  <1>3. CASE Shutdown
    <2>1. shutdown_requested' \in BOOLEAN
      BY <1>3 DEF Shutdown
    <2> QED BY <1>3, <2>1 DEF Shutdown
  <1>4. CASE Launch \/ LaunchFails
    <2>1. CASE Launch
      BY <2>1 DEF Launch
    <2>2. CASE LaunchFails
      BY <2>2 DEF LaunchFails
    <2> QED BY <1>4, <2>1, <2>2
  <1>5. CASE StartEnds \/ ShutdownEnds
    <2>1. CASE StartEnds
      BY <2>1 DEF StartEnds
    <2>2. CASE ShutdownEnds
      BY <2>2 DEF ShutdownEnds
    <2> QED BY <1>5, <2>1, <2>2
  <1>6. CASE Write
    BY <1>6 DEF Write
  <1>7. CASE FlushFails
    <2>1. forced_cleanup' \in BOOLEAN
      BY <1>7 DEF FlushFails
    <2> QED BY <1>7, <2>1 DEF FlushFails
  <1>8. CASE ReceiveReady
    BY <1>8 DEF ReceiveReady
  <1>9. CASE ReceiveResponse
    BY <1>9 DEF ReceiveResponse
  <1>10. CASE ReceiveAck
    <2>1. stop_acknowledged' \in BOOLEAN
      BY <1>10 DEF ReceiveAck
    <2> QED BY <1>10, <2>1 DEF ReceiveAck
  <1>11. CASE ReceiveGarbage
    <2>1. protocol_drained' \in BOOLEAN /\ killed' \in BOOLEAN
      BY <1>11 DEF ReceiveGarbage, Kill, DoneFollows
    <2> QED BY <1>11, <2>1 DEF ReceiveGarbage
  <1>12. CASE ReceiveDiagnostics
    BY <1>12 DEF ReceiveDiagnostics
  <1>13. CASE ProtocolDone
    BY <1>13 DEF ProtocolDone
  <1>14. CASE DiagnosticsDone
    BY <1>14 DEF DiagnosticsDone
  <1>15. CASE HandleExit
    BY <1>15 DEF HandleExit
  <1>16. CASE Reconcile
    BY <1>16 DEF Reconcile
  <1>17. CASE CloseTransport
    BY <1>17 DEF CloseTransport
  <1>18. ASSUME NEW c \in Call, RequestEnds(c) PROVE TypeFlags'
    BY <1>18 DEF RequestEnds
  <1>19. CASE StartupTimeout \/ ShutdownTimeout
    <2>1. CASE StartupTimeout
      BY <2>1 DEF StartupTimeout, Kill
    <2>2. CASE ShutdownTimeout
      BY <2>2 DEF ShutdownTimeout, Kill
    <2> QED BY <1>19, <2>1, <2>2
  <1>20. CASE StartGivesUp \/ ShutdownGivesUp
    <2>1. CASE StartGivesUp
      BY <2>1 DEF StartGivesUp
    <2>2. CASE ShutdownGivesUp
      BY <2>2 DEF ShutdownGivesUp
    <2> QED BY <1>20, <2>1, <2>2
  <1>21. ASSUME NEW c \in Call, RequestTimeout(c) PROVE TypeFlags'
    BY <1>21 DEF RequestTimeout, Kill
  <1>22. ASSUME NEW c \in Call, RequestGivesUp(c) PROVE TypeFlags'
    BY <1>22 DEF RequestGivesUp
  <1>23. CASE Boot \/ Serve
    <2>1. CASE Boot
      BY <2>1 DEF Boot, Worker
    <2>2. CASE Serve
      BY <2>2 DEF Serve, Worker
    <2> QED BY <1>23, <2>1, <2>2
  <1>24. CASE Crash \/ Leave \/ Die
    <2>1. CASE Crash
      BY <2>1 DEF Crash, Worker
    <2>2. CASE Leave
      BY <2>2 DEF Leave, Worker
    <2>3. CASE Die
      BY <2>3 DEF Die, Worker
    <2> QED BY <1>24, <2>1, <2>2, <2>3
  <1>25. CASE WriteGarbage
    BY <1>25 DEF WriteGarbage, Worker
  <1>26. CASE UNCHANGED vars
    BY <1>26 DEF vars
  <1> HIDE DEF TypeFlags
  <1> QED
    BY <1>1, <1>2, <1>3, <1>4, <1>5, <1>6, <1>7, <1>8, <1>9, <1>10, <1>11,
       <1>12, <1>13, <1>14, <1>15, <1>16, <1>17, <1>18, <1>19, <1>20, <1>21,
       <1>22, <1>23, <1>24, <1>25, <1>26
    DEF Next, Isolate, Timer, Process, Flush, Pull

\* What the writer does with its first frame, and to whom.
LEMMA TypeWrite ==
    ASSUME TypeOK, Write \/ FlushFails
    PROVE  TypeData'
  <1> USE RequestAssumption DEF TypeOK, TypeData, flags, registry, evidence, outcome,
          process
  <1>1. /\ outbox # <<>> /\ outbox' = Tail(outbox) /\ Head(outbox) \in Frame
        /\ outbox' \in Seq(Frame)
    BY TailOf DEF Write, FlushFails
  <1>2. stdin' \in Seq(Frame)
    <2>1. stdin \in Seq(Frame)
      OBVIOUS
    <2>2. \/ stdin' = stdin
          \/ stdin' = Append(stdin, Head(outbox))
      BY DEF Write, FlushFails
    <2> HIDE DEF TypeOK, TypeData, flags, registry, evidence, outcome, process
    <2> QED BY <1>1, <2>1, <2>2, AppendOf
  <1>3. calls' \in [Call -> CallStep] /\ responses' \subseteq Call
        /\ shutdown_call' \in ShutdownStep
    <2>1. /\ calls \in [Call -> CallStep] /\ responses \subseteq Call
          /\ shutdown_call \in ShutdownStep
      OBVIOUS
    <2>2. \/ SenderGoes("awaiting", "awaiting_ack")
          \/ SenderGoes("killing", "killing")
      BY DEF Write, FlushFails
    <2> HIDE DEF TypeOK, TypeData, flags, registry, evidence, outcome, process
    <2>3. CASE Head(outbox).operation \in Call
      BY <2>1, <2>2, <2>3 DEF SenderGoes, CallStep
    <2>4. CASE Head(outbox).operation \notin Call
      BY <2>1, <2>2, <2>4 DEF SenderGoes, ShutdownStep
    <2> QED BY <2>3, <2>4
  <1>4. CASE Write
    BY <1>4, <1>1, <1>2, <1>3 DEF Write
  <1>5. CASE FlushFails
    BY <1>5, <1>1, <1>2, <1>3 DEF FlushFails
  <1> QED BY <1>4, <1>5

\* Types: what each action of the coordinator's calls assigns is in range.
LEMMA TypeCalls ==
    ASSUME TypeOK,
           \/ Start \/ Request \/ Shutdown \/ Timer
           \/ Launch \/ LaunchFails \/ StartEnds \/ ShutdownEnds
           \/ \E c \in Call : RequestEnds(c)
    PROVE  TypeData'
  <1> USE RequestAssumption DEF TypeOK, TypeData, flags, registry, evidence, outcome,
          process
  <1>1. CASE Start \/ Launch \/ StartEnds
    BY <1>1 DEF Start, Launch, StartEnds, State, StartStep
  <1>2. CASE LaunchFails
    BY <1>2 DEF LaunchFails, State, StartStep, Termination
  <1>3. CASE ShutdownEnds
    BY <1>3 DEF ShutdownEnds, EndKnown, ShutdownStep
  <1>4. CASE Request
    <2>1. Of("request", next_operation) \in Frame
      BY <1>4, Frames DEF Request
    <2>2. outbox' \in Seq(Frame)
      BY <1>4, <2>1, AppendOf DEF Request
    <2>3. /\ next_operation' \in 1..(MaxRequests + 1) /\ responses' \subseteq Call
          /\ calls' \in [Call -> CallStep]
      BY <1>4 DEF Request, Call, CallStep
    <2> QED BY <1>4, <2>2, <2>3 DEF Request
  <1>5. CASE Shutdown
    <2>1. outbox' \in Seq(Frame)
      <3>1. Plain("stop") \in Frame
        BY Frames
      <3>2. outbox' = outbox \/ outbox' = Append(outbox, Plain("stop"))
        BY <1>5 DEF Shutdown
      <3> QED BY <3>1, <3>2, AppendOf
    <2>2. state' \in State /\ shutdown_call' \in ShutdownStep
      <3>1. /\ state' \in {state, "stopping", "stopped"}
            /\ shutdown_call' \in {"sending", "graceful", "failed", "ending"}
        BY <1>5 DEF Shutdown
      <3> QED BY <3>1 DEF State, ShutdownStep, Termination
    <2> QED BY <1>5, <2>1, <2>2 DEF Shutdown
  <1>6. CASE Timer
    <2>1. CASE StartupTimeout \/ StartGivesUp
      BY <2>1 DEF StartupTimeout, StartGivesUp, StartStep, Kill, Alive
    <2>2. CASE ShutdownTimeout \/ ShutdownGivesUp
      BY <2>2 DEF ShutdownTimeout, ShutdownGivesUp, ShutdownStep, Kill, Alive
    <2>3. ASSUME NEW c \in Call, RequestTimeout(c) \/ RequestGivesUp(c)
          PROVE  TypeData'
      BY <2>3 DEF RequestTimeout, RequestGivesUp, CallStep, Kill, Alive
    <2> QED BY <1>6, <2>1, <2>2, <2>3 DEF Timer
  <1>7. ASSUME NEW c \in Call, RequestEnds(c) PROVE TypeData'
    BY <1>7 DEF RequestEnds, EndOfRequest, CallStep
  <1> QED BY <1>1, <1>2, <1>3, <1>4, <1>5, <1>6, <1>7

\* Types: what the handlers of the worker's streams and its exit assign.
LEMMA TypeHandlers ==
    ASSUME TypeOK,
           \/ ReceiveReady \/ ReceiveResponse \/ ReceiveAck \/ ReceiveGarbage
           \/ ReceiveDiagnostics \/ ProtocolDone \/ DiagnosticsDone
           \/ HandleExit \/ Reconcile \/ CloseTransport
    PROVE  TypeData'
  <1> USE RequestAssumption DEF TypeOK, TypeData, flags, registry, evidence, outcome,
          process
  <1>1. ASSUME NEW type, Takes(type)
        PROVE  stdout' \in Seq(Frame) /\ Head(stdout) \in Frame
    BY <1>1, TailOf DEF Takes
  <1>2. CASE ReceiveReady
    BY <1>2, <1>1 DEF ReceiveReady, State, StartStep
  <1>3. CASE ReceiveResponse
    BY <1>3, <1>1 DEF ReceiveResponse, CallStep
  <1>4. CASE ReceiveAck
    BY <1>4, <1>1 DEF ReceiveAck, ShutdownStep
  <1>5. CASE ReceiveGarbage
    <2>1. stdout' \in Seq(Frame)
      BY <1>5, <1>1 DEF ReceiveGarbage
    <2> QED BY <1>5, <2>1 DEF ReceiveGarbage
  <1>6. CASE ReceiveDiagnostics \/ ProtocolDone \/ DiagnosticsDone
    BY <1>6 DEF ReceiveDiagnostics, ProtocolDone, DiagnosticsDone
  <1>7. CASE HandleExit
    <2>1. /\ \A step \in CallStep : Wakes(step) \in CallStep
          /\ Wakes(start_call) \in StartStep
          /\ Wakes(shutdown_call) \in ShutdownStep
      BY DEF Wakes, CallStep, StartStep, ShutdownStep
    <2> QED BY <1>7, <2>1 DEF HandleExit
  <1>8. CASE Reconcile
    BY <1>8 DEF Reconcile, Classification, Termination, State
  <1>9. CASE CloseTransport
    BY <1>9 DEF CloseTransport
  <1> QED BY <1>2, <1>3, <1>4, <1>5, <1>6, <1>7, <1>8, <1>9

\* Types: what the worker process assigns.
LEMMA TypeProcess ==
    ASSUME TypeOK,
           Boot \/ Serve \/ Crash \/ Leave \/ Die \/ WriteGarbage
    PROVE  TypeData'
  <1> USE RequestAssumption DEF TypeOK, TypeData, flags, registry, evidence, outcome,
          process, Worker
  <1>1. CASE Boot
    BY <1>1, Frames, AppendOf DEF Boot
  <1>2. CASE Serve
    <2>1. stdin' \in Seq(Frame) /\ Head(stdin) \in Frame
      BY <1>2, TailOf DEF Serve
    <2>2. Of("response", Head(stdin).operation) \in Frame
      BY <2>1 DEF Of, Frame
    <2>3. Plain("ack") \in Frame
      BY Frames
    <2>4. stdout' \in Seq(Frame)
      <3>1. /\ stdout \in Seq(Frame)
            /\ \/ stdout' = Append(stdout, Of("response", Head(stdin).operation))
               \/ stdout' = Append(stdout, Plain("ack"))
        BY <1>2 DEF Serve
      <3> HIDE DEF TypeOK, TypeData, flags, registry, evidence, outcome, process
      <3> QED BY <2>2, <2>3, <3>1, AppendOf
    <2>5. worker' \in {worker, "leaving"}
      BY <1>2 DEF Serve
    <2>7. UNCHANGED <<next_operation, responses, calls, start_call,
                      shutdown_call, verdict, termination>>
      BY <1>2 DEF Serve
    <2>8. state' = state /\ outbox' = outbox
      BY <1>2 DEF Serve
    <2>9. TypeData
      OBVIOUS
    <2> HIDE DEF TypeOK, flags, registry, evidence, outcome, process, Worker
    <2>10. worker' \in {"none", "booting", "serving", "leaving", "exited", "failed"}
      BY <2>5, <2>9
    <2> QED BY <2>1, <2>4, <2>7, <2>8, <2>9, <2>10
  <1>3. CASE Crash \/ Leave \/ Die
    <2>1. CASE Crash
      BY <2>1 DEF Crash
    <2>2. CASE Leave
      BY <2>2 DEF Leave
    <2>3. CASE Die
      BY <2>3 DEF Die
    <2> QED BY <1>3, <2>1, <2>2, <2>3
  <1>4. CASE WriteGarbage
    <2>1. stdout' \in Seq(Frame)
      BY <1>4, Frames, AppendOf DEF WriteGarbage
    <2> QED BY <1>4, <2>1 DEF WriteGarbage
  <1> QED BY <1>1, <1>2, <1>3, <1>4

\* Types: every step keeps them.
LEMMA TypeStep == ASSUME TypeOK, [Next]_vars PROVE TypeOK'
  <1>1. TypeFlags'
    BY FlagsStep DEF TypeOK
  <1>2. CASE UNCHANGED vars
    BY <1>1, <1>2 DEF TypeOK, vars, TypeData, registry, outcome, process
  <1>3. CASE Next
    BY <1>1, <1>3, TypeWrite, TypeCalls, TypeHandlers, TypeProcess
    DEF TypeOK, Next, Isolate, Process, Flush, Pull
  <1> QED BY <1>2, <1>3

-----------------------------------------------------------------------------
(* The coordinator's protocol.                                              *)

\* Every step that is none of the worker's leaves a process that has gone;
\* every step of the worker is one of a worker that lives.
LEMMA DeadStays ==
    ASSUME TypeOK, Unlaunched, [Next]_vars
    PROVE  /\ Dead => worker' = worker
           /\ worker # "none" => worker' # "none"
           /\ worker = "none" /\ worker' # "none" => Launch
  <1> USE DEF Dead, Alive, flags, registry, evidence, outcome, process
  <1>1. CASE Start \/ Request \/ Shutdown
    BY <1>1 DEF Start, Request, Shutdown
  <1>2. CASE Launch
    BY <1>2 DEF Launch, Unlaunched
  <1>3. CASE LaunchFails \/ StartEnds \/ ShutdownEnds \/ Write \/ FlushFails
    BY <1>3 DEF LaunchFails, StartEnds, ShutdownEnds, Write, FlushFails
  <1>4. CASE ReceiveReady \/ ReceiveResponse \/ ReceiveAck \/ ReceiveGarbage
    BY <1>4 DEF ReceiveReady, ReceiveResponse, ReceiveAck, ReceiveGarbage
  <1>5. CASE ReceiveDiagnostics \/ ProtocolDone \/ DiagnosticsDone
    BY <1>5 DEF ReceiveDiagnostics, ProtocolDone, DiagnosticsDone
  <1>6. CASE HandleExit \/ Reconcile \/ CloseTransport
    BY <1>6 DEF HandleExit, Reconcile, CloseTransport
  <1>7. CASE \E c \in Call : RequestEnds(c)
    BY <1>7 DEF RequestEnds
  <1>8. CASE Timer
    BY <1>8 DEF Timer, StartupTimeout, StartGivesUp, ShutdownTimeout,
       ShutdownGivesUp, RequestTimeout, RequestGivesUp
  <1>9. CASE Boot \/ Serve \/ Crash \/ Leave \/ Die \/ WriteGarbage
    BY <1>9 DEF Boot, Serve, Crash, Leave, Die, WriteGarbage
  <1>10. CASE UNCHANGED vars
    BY <1>10 DEF vars
  <1> QED
    BY <1>1, <1>2, <1>3, <1>4, <1>5, <1>6, <1>7, <1>8, <1>9, <1>10
    DEF Next, Isolate, Process, Flush, Pull

\* Nothing comes to wait for an exit that was seen.
LEMMA ExitedStep ==
    ASSUME TypeOK, Unlaunched, Exited, [Next]_vars
    PROVE  Exited'
  <1> USE DEF Exited, Waiting, flags, registry, evidence, outcome, process
  <1>0. Dead => Dead'
    BY DeadStays DEF Dead
  <1>1. CASE Start \/ Request \/ Shutdown
    BY <1>1, <1>0 DEF Start, Request, Shutdown, TypeOK, TypeData
  <1>2. CASE Launch
    BY <1>2 DEF Launch, Unlaunched
  <1>3. CASE LaunchFails \/ StartEnds
    BY <1>3, <1>0 DEF LaunchFails, StartEnds
  <1>4. CASE ShutdownEnds
    BY <1>4, <1>0 DEF ShutdownEnds, TypeOK, TypeData, Termination, EndKnown
  <1>5. CASE Write \/ FlushFails
    <2>1. CASE Write
      BY <2>1, <1>0 DEF Write, SenderGoes, TypeOK, TypeData
    <2>2. CASE FlushFails
      BY <2>2, <1>0 DEF FlushFails, SenderGoes, TypeOK, TypeData
    <2> QED BY <1>5, <2>1, <2>2
  <1>6. CASE ReceiveReady
    BY <1>6, <1>0 DEF ReceiveReady
  <1>7. CASE ReceiveResponse
    BY <1>7, <1>0 DEF ReceiveResponse, TypeOK, TypeData
  <1>8. CASE ReceiveAck \/ ReceiveGarbage
    BY <1>8, <1>0 DEF ReceiveAck, ReceiveGarbage
  <1>9. CASE ReceiveDiagnostics \/ ProtocolDone \/ DiagnosticsDone
    BY <1>9, <1>0 DEF ReceiveDiagnostics, ProtocolDone, DiagnosticsDone
  <1>10. CASE HandleExit
    BY <1>10, <1>0 DEF HandleExit, Wakes
  <1>11. CASE Reconcile \/ CloseTransport
    BY <1>11, <1>0 DEF Reconcile, CloseTransport
  <1>12. ASSUME NEW c \in Call, RequestEnds(c) PROVE Exited'
    BY <1>12, <1>0 DEF RequestEnds, EndOfRequest, TypeOK, TypeData
  <1>13. CASE StartupTimeout \/ StartGivesUp \/ ShutdownTimeout \/ ShutdownGivesUp
    BY <1>13, <1>0 DEF StartupTimeout, StartGivesUp, ShutdownTimeout, Timed,
       ShutdownGivesUp
  <1>14. ASSUME NEW c \in Call, RequestTimeout(c) \/ RequestGivesUp(c)
         PROVE  Exited'
    BY <1>14, <1>0 DEF RequestTimeout, RequestGivesUp, TypeOK, TypeData
  <1>15. CASE Boot \/ Serve \/ Crash \/ Leave \/ Die \/ WriteGarbage
    BY <1>15, <1>0 DEF Boot, Serve, Crash, Leave, Die, WriteGarbage, Worker
  <1>16. CASE UNCHANGED vars
    BY <1>16, <1>0 DEF vars
  <1> QED
    BY <1>1, <1>2, <1>3, <1>4, <1>5, <1>6, <1>7, <1>8, <1>9, <1>10, <1>11,
       <1>12, <1>13, <1>14, <1>15, <1>16
    DEF Next, Isolate, Timer, Process, Flush, Pull

\* Where there is no worker yet, nothing but a start and a shutdown happens.
LEMMA UnlaunchedStep ==
    ASSUME TypeOK, Unlaunched, Exited, [Next]_vars
    PROVE  Unlaunched'
  <1> USE DEF Unlaunched, flags, registry, evidence, outcome, process
  <1>1. CASE Start
    BY <1>1 DEF Start
  <1>2. CASE Request
    BY <1>2 DEF Request
  <1>3. CASE Shutdown
    BY <1>3 DEF Shutdown
  <1>4. CASE Launch \/ LaunchFails
    BY <1>4 DEF Launch, LaunchFails
  <1>5. CASE StartEnds \/ ShutdownEnds
    BY <1>5 DEF StartEnds, ShutdownEnds
  <1>6. CASE Write \/ FlushFails
    BY <1>6 DEF Write, FlushFails
  <1>7. CASE ReceiveReady
    BY <1>7 DEF ReceiveReady, Takes
  <1>8. CASE ReceiveResponse \/ ReceiveAck \/ ReceiveGarbage
    BY <1>8 DEF ReceiveResponse, ReceiveAck, ReceiveGarbage, Takes
  <1>9. CASE ReceiveDiagnostics \/ ProtocolDone \/ DiagnosticsDone
    BY <1>9 DEF ReceiveDiagnostics, ProtocolDone, DiagnosticsDone
  <1>10. CASE HandleExit
    BY <1>10 DEF HandleExit, Wakes, Waiting, Dead
  <1>11. CASE Reconcile \/ CloseTransport
    BY <1>11 DEF Reconcile, CanReconcile, CloseTransport
  <1>12. ASSUME NEW c \in Call, RequestEnds(c) PROVE Unlaunched'
    BY <1>12 DEF RequestEnds
  <1>13. CASE StartupTimeout \/ StartGivesUp \/ ShutdownTimeout \/ ShutdownGivesUp
    BY <1>13 DEF StartupTimeout, StartGivesUp, ShutdownTimeout, ShutdownGivesUp
  <1>14. ASSUME NEW c \in Call, RequestTimeout(c) \/ RequestGivesUp(c)
         PROVE  Unlaunched'
    BY <1>14 DEF RequestTimeout, RequestGivesUp
  <1>15. CASE Boot \/ Serve \/ Crash \/ Leave \/ Die \/ WriteGarbage
    BY <1>15 DEF Boot, Serve, Crash, Leave, Die, WriteGarbage, Worker, Alive
  <1>16. CASE UNCHANGED vars
    BY <1>16 DEF vars
  <1> QED
    BY <1>1, <1>2, <1>3, <1>4, <1>5, <1>6, <1>7, <1>8, <1>9, <1>10, <1>11,
       <1>12, <1>13, <1>14, <1>15, <1>16
    DEF Next, Isolate, Timer, Process, Flush, Pull

\* The barriers that were passed stay passed.
LEMMA DrainedStep ==
    ASSUME TypeOK, Unlaunched, Drained, [Next]_vars
    PROVE  Drained'
  <1> USE DEF Drained, CanReconcile, flags, registry, evidence, outcome, process
  <1>0. Dead => Dead'
    BY DeadStays DEF Dead
  <1>1. CASE Start \/ Request
    BY <1>1, <1>0 DEF Start, Request
  <1>2. CASE Shutdown
    BY <1>2, <1>0 DEF Shutdown
  <1>3. CASE Launch
    BY <1>3, <1>0 DEF Launch, Unlaunched, Dead
  <1>4. CASE LaunchFails
    BY <1>4, <1>0 DEF LaunchFails, Unlaunched
  <1>5. CASE StartEnds \/ ShutdownEnds
    BY <1>5, <1>0 DEF StartEnds, ShutdownEnds
  <1>6. CASE Write \/ FlushFails
    BY <1>6, <1>0 DEF Write, FlushFails, SenderGoes
  <1>7. CASE ReceiveReady
    BY <1>7, <1>0 DEF ReceiveReady, Takes
  <1>8. CASE ReceiveResponse \/ ReceiveAck
    BY <1>8, <1>0 DEF ReceiveResponse, ReceiveAck, Takes
  <1>9. CASE ReceiveGarbage
    BY <1>9, <1>0 DEF ReceiveGarbage, Takes, DoneFollows
  <1>10. CASE ReceiveDiagnostics
    BY <1>10, <1>0 DEF ReceiveDiagnostics
  <1>11. CASE ProtocolDone \/ DiagnosticsDone
    BY <1>11, <1>0 DEF ProtocolDone, DiagnosticsDone
  <1>12. CASE HandleExit
    BY <1>12, <1>0 DEF HandleExit
  <1>13. CASE Reconcile \/ CloseTransport
    BY <1>13, <1>0 DEF Reconcile, CloseTransport
  <1>14. ASSUME NEW c \in Call, RequestEnds(c) PROVE Drained'
    BY <1>14, <1>0 DEF RequestEnds
  <1>15. CASE StartupTimeout \/ StartGivesUp \/ ShutdownTimeout \/ ShutdownGivesUp
    BY <1>15, <1>0 DEF StartupTimeout, StartGivesUp, ShutdownTimeout,
       ShutdownGivesUp
  <1>16. ASSUME NEW c \in Call, RequestTimeout(c) \/ RequestGivesUp(c)
         PROVE  Drained'
    BY <1>16, <1>0 DEF RequestTimeout, RequestGivesUp
  <1>17. CASE Boot \/ Serve \/ Crash \/ Leave \/ Die \/ WriteGarbage
    BY <1>17, <1>0 DEF Boot, Serve, Crash, Leave, Die, WriteGarbage, Worker,
       Alive, Dead
  <1>18. CASE UNCHANGED vars
    BY <1>18, <1>0 DEF vars
  <1> QED
    BY <1>1, <1>2, <1>3, <1>4, <1>5, <1>6, <1>7, <1>8, <1>9, <1>10, <1>11,
       <1>12, <1>13, <1>14, <1>15, <1>16, <1>17, <1>18
    DEF Next, Isolate, Timer, Process, Flush, Pull

\* A failed start had a reason, and its worker is not launched again.
LEMMA StartKnownStep ==
    ASSUME TypeOK, Unlaunched, Exited, Drained, StartKnown, [Next]_vars
    PROVE  StartKnown'
  <1> USE DEF StartKnown, flags, registry, evidence, outcome, process
  <1>0. start_call = "startupFailure" => ~Alive'
    BY DeadStays DEF Alive, Dead, StartKnown, TypeOK, TypeData, Launch
  <1>1. CASE Start \/ Request
    BY <1>1, <1>0 DEF Start, Request
  <1>2. CASE Shutdown
    BY <1>2, <1>0 DEF Shutdown
  <1>3. CASE Launch
    BY <1>3 DEF Launch
  <1>4. CASE LaunchFails
    BY <1>4 DEF LaunchFails, Unlaunched, Alive
  <1>5. CASE StartEnds
    BY <1>5 DEF StartEnds, EndKnown, Exited, Drained, Dead, Alive
  <1>6. CASE ShutdownEnds
    BY <1>6, <1>0 DEF ShutdownEnds
  <1>7. CASE Write \/ FlushFails
    BY <1>7, <1>0 DEF Write, FlushFails, SenderGoes
  <1>8. CASE ReceiveReady
    BY <1>8, <1>0 DEF ReceiveReady, Takes
  <1>9. CASE ReceiveResponse \/ ReceiveAck \/ ReceiveGarbage
    BY <1>9, <1>0 DEF ReceiveResponse, ReceiveAck, ReceiveGarbage
  <1>10. CASE ReceiveDiagnostics \/ ProtocolDone \/ DiagnosticsDone
    BY <1>10, <1>0 DEF ReceiveDiagnostics, ProtocolDone, DiagnosticsDone
  <1>11. CASE HandleExit
    BY <1>11, <1>0 DEF HandleExit, Wakes, Waiting
  <1>12. CASE Reconcile \/ CloseTransport
    BY <1>12, <1>0 DEF Reconcile, CloseTransport
  <1>13. ASSUME NEW c \in Call, RequestEnds(c) PROVE StartKnown'
    BY <1>13, <1>0 DEF RequestEnds
  <1>14. CASE StartupTimeout \/ StartGivesUp \/ ShutdownTimeout \/ ShutdownGivesUp
    BY <1>14, <1>0 DEF StartupTimeout, StartGivesUp, ShutdownTimeout,
       ShutdownGivesUp
  <1>15. ASSUME NEW c \in Call, RequestTimeout(c) \/ RequestGivesUp(c)
         PROVE  StartKnown'
    BY <1>15, <1>0 DEF RequestTimeout, RequestGivesUp
  <1>16. CASE Boot \/ Serve \/ Crash \/ Leave \/ Die \/ WriteGarbage
    BY <1>16, <1>0 DEF Boot, Serve, Crash, Leave, Die, WriteGarbage, Worker
  <1>17. CASE UNCHANGED vars
    BY <1>17, <1>0 DEF vars
  <1> QED
    BY <1>1, <1>2, <1>3, <1>4, <1>5, <1>6, <1>7, <1>8, <1>9, <1>10, <1>11,
       <1>12, <1>13, <1>14, <1>15, <1>16, <1>17
    DEF Next, Isolate, Timer, Process, Flush, Pull

\* The steps that append no frame, write none and move no sending request
\* leave the queue as it is.
LEMMA QueueKept ==
    ASSUME TypeOK, Queued, calls' \in [Call -> CallStep],
           outbox' = outbox, next_operation' = next_operation,
           \A c \in Call : \/ calls'[c] = calls[c]
                           \/ /\ calls[c] \notin {"new", "sending"}
                              /\ calls'[c] # "sending"
    PROVE  Queued'
  <1>1. \A c \in Call : /\ calls'[c] = "sending" <=> calls[c] = "sending"
                        /\ calls[c] = "new" => calls'[c] = "new"
    OBVIOUS
  <1> QED BY <1>1 DEF Queued

\* The writer's queue holds the requests that are being sent, each once.
LEMMA QueuedStep ==
    ASSUME TypeOK, Unlaunched, Queued, [Next]_vars
    PROVE  Queued'
  <1> USE DEF flags, registry, evidence, outcome, process
  <1>0. TypeOK' /\ calls' \in [Call -> CallStep]
    BY TypeStep DEF TypeOK, TypeData
  <1>1. CASE Request
    <2> DEFINE c0 == next_operation
    <2>1. /\ c0 \in Call /\ Of("request", c0) \in Frame
          /\ Of("request", c0).operation = c0
      BY <1>1, Frames DEF Request, Of
    <2>2. /\ outbox' = Append(outbox, Of("request", c0))
          /\ next_operation' = c0 + 1
          /\ calls' = [calls EXCEPT ![c0] = "sending"]
      BY <1>1 DEF Request
    <2>3. /\ Len(outbox) \in Nat /\ Len(outbox') = Len(outbox) + 1
          /\ \A i \in 1..Len(outbox) : outbox'[i] = outbox[i]
          /\ outbox'[Len(outbox) + 1].operation = c0
      BY <2>1, <2>2, AppendOf DEF TypeOK, TypeData
    <2>4. /\ calls'[c0] = "sending"
          /\ \A c \in Call \ {c0} : calls'[c] = calls[c]
          /\ calls[c0] = "new"
      BY <2>1, <2>2 DEF TypeOK, TypeData, Queued, Call
    <2>5. \A i \in 1..Len(outbox) : outbox[i].operation # c0
      BY <2>1, <2>4 DEF Queued
    <2>6. \A i \in 1..Len(outbox') : outbox'[i].operation \in Call =>
             /\ calls'[outbox'[i].operation] = "sending"
             /\ outbox'[i].operation < next_operation'
      BY <2>1, <2>2, <2>3, <2>4, <2>5 DEF Queued, Call, TypeOK, TypeData
    <2>7. \A i, j \in 1..Len(outbox') : outbox'[i].operation \in Call /\ i # j =>
             outbox'[i].operation # outbox'[j].operation
      BY <2>3, <2>5 DEF Queued
    <2>8. \A c \in Call : calls'[c] = "sending" =>
             \E i \in 1..Len(outbox') : outbox'[i].operation = c
      BY <2>3, <2>4 DEF Queued
    <2>9. \A c \in Call : c >= next_operation' => calls'[c] = "new"
      BY <2>1, <2>2, <2>4 DEF Queued, Call, TypeOK, TypeData
    <2> QED BY <2>6, <2>7, <2>8, <2>9 DEF Queued
  <1>2. CASE Shutdown
    <2>1. CASE UNCHANGED outbox
      BY <1>2, <2>1, <1>0, QueueKept DEF Shutdown
    <2>2. CASE outbox' = Append(outbox, Plain("stop"))
      <3>1. Plain("stop") \in Frame /\ Plain("stop").operation \notin Call
        BY Frames
      <3>2. /\ Len(outbox) \in Nat /\ Len(outbox') = Len(outbox) + 1
            /\ \A i \in 1..Len(outbox) : outbox'[i] = outbox[i]
            /\ outbox'[Len(outbox) + 1].operation \notin Call
        BY <2>2, <3>1, AppendOf DEF TypeOK, TypeData
      <3>3. calls' = calls /\ next_operation' = next_operation
        BY <1>2 DEF Shutdown
      <3> QED BY <3>2, <3>3 DEF Queued
    <2> QED BY <1>2, <2>1, <2>2 DEF Shutdown
  <1>3. CASE Write \/ FlushFails
    <2> DEFINE c0 == Head(outbox).operation
    <2>1. /\ outbox # <<>> /\ outbox' = Tail(outbox)
          /\ next_operation' = next_operation
      BY <1>3 DEF Write, FlushFails
    <2>2. /\ Len(outbox) \in Nat \ {0} /\ Len(outbox') = Len(outbox) - 1
          /\ \A i \in 1..Len(outbox') : outbox'[i] = outbox[i + 1]
          /\ c0 = outbox[1].operation
      BY <2>1, TailOf DEF TypeOK, TypeData
    <2>3. /\ \A c \in Call \ {c0} : calls'[c] = calls[c]
          /\ c0 \in Call => calls'[c0] # "sending"
      <3>1. CASE Write
        BY <3>1 DEF Write, SenderGoes, TypeOK, TypeData
      <3>2. CASE FlushFails
        BY <3>2 DEF FlushFails, SenderGoes, TypeOK, TypeData
      <3> QED BY <1>3, <3>1, <3>2
    <2>4. \A i \in 1..Len(outbox') :
             /\ i + 1 \in 1..Len(outbox) /\ i + 1 # 1
             /\ c0 \in Call => outbox'[i].operation # c0
      BY <2>2 DEF Queued
    <2>5. ASSUME NEW i \in 1..Len(outbox'), outbox'[i].operation \in Call
          PROVE  /\ calls'[outbox'[i].operation] = "sending"
                 /\ outbox'[i].operation < next_operation'
      <3>1. i + 1 \in 1..Len(outbox) /\ outbox'[i] = outbox[i + 1]
        BY <2>2, <2>4
      <3>2. /\ calls[outbox'[i].operation] = "sending"
            /\ outbox'[i].operation < next_operation
        BY <2>5, <3>1 DEF Queued
      <3>3. outbox'[i].operation # c0
        BY <2>4, <2>5
      <3>4. calls'[outbox'[i].operation] = calls[outbox'[i].operation]
        BY <2>3, <2>5, <3>3
      <3> QED BY <2>1, <3>2, <3>4
    <2>6. \A i, j \in 1..Len(outbox') : outbox'[i].operation \in Call /\ i # j =>
             outbox'[i].operation # outbox'[j].operation
      BY <2>2, <2>4 DEF Queued
    <2>7. ASSUME NEW c \in Call, calls'[c] = "sending"
          PROVE  \E i \in 1..Len(outbox') : outbox'[i].operation = c
      <3>1. c # c0 /\ calls[c] = "sending"
        BY <2>3, <2>7
      <3>2. PICK i \in 1..Len(outbox) : outbox[i].operation = c
        BY <3>1 DEF Queued
      <3>3. i - 1 \in 1..Len(outbox') /\ outbox'[i - 1] = outbox[i]
        BY <2>2, <3>1, <3>2
      <3> QED BY <3>2, <3>3
    <2>8. \A c \in Call : c >= next_operation' => calls'[c] = "new"
      <3>1. c0 \in Call => c0 < next_operation
        BY <2>2 DEF Queued
      <3> QED BY <2>1, <2>3, <3>1 DEF Queued, Call, TypeOK, TypeData
    <2> QED BY <2>5, <2>6, <2>7, <2>8 DEF Queued
  <1>4. CASE Start \/ Launch \/ LaunchFails \/ StartEnds \/ ShutdownEnds
    BY <1>4, <1>0, QueueKept DEF Start, Launch, LaunchFails, StartEnds,
       ShutdownEnds
  <1>5. CASE ReceiveResponse
    BY <1>5, <1>0, QueueKept DEF ReceiveResponse, TypeOK, TypeData
  <1>6. CASE ReceiveReady \/ ReceiveAck \/ ReceiveGarbage
    BY <1>6, <1>0, QueueKept DEF ReceiveReady, ReceiveAck, ReceiveGarbage
  <1>7. CASE ReceiveDiagnostics \/ ProtocolDone \/ DiagnosticsDone
    BY <1>7, <1>0, QueueKept DEF ReceiveDiagnostics, ProtocolDone,
       DiagnosticsDone
  <1>8. CASE HandleExit
    BY <1>8, <1>0, QueueKept DEF HandleExit, Wakes, Waiting
  <1>9. CASE Reconcile \/ CloseTransport
    BY <1>9, <1>0, QueueKept DEF Reconcile, CloseTransport
  <1>10. ASSUME NEW c \in Call, RequestEnds(c) PROVE Queued'
    BY <1>10, <1>0, QueueKept DEF RequestEnds, EndOfRequest, TypeOK, TypeData
  <1>11. CASE StartupTimeout \/ StartGivesUp \/ ShutdownTimeout \/ ShutdownGivesUp
    BY <1>11, <1>0, QueueKept DEF StartupTimeout, StartGivesUp,
       ShutdownTimeout, ShutdownGivesUp
  <1>12. ASSUME NEW c \in Call, RequestTimeout(c) \/ RequestGivesUp(c)
         PROVE  Queued'
    BY <1>12, <1>0, QueueKept DEF RequestTimeout, RequestGivesUp, TypeOK,
       TypeData
  <1>13. CASE Boot \/ Serve \/ Crash \/ Leave \/ Die \/ WriteGarbage
    BY <1>13, <1>0, QueueKept DEF Boot, Serve, Crash, Leave, Die,
       WriteGarbage, Worker
  <1>14. CASE UNCHANGED vars
    BY <1>14, <1>0, QueueKept DEF vars
  <1> QED
    BY <1>1, <1>2, <1>3, <1>4, <1>5, <1>6, <1>7, <1>8, <1>9, <1>10, <1>11,
       <1>12, <1>13, <1>14
    DEF Next, Isolate, Timer, Process, Flush, Pull

-----------------------------------------------------------------------------
(* The theorems.                                                            *)

\* The inductive invariant is kept by every step.
THEOREM NextIInv == IInv /\ [Next]_vars => IInv'
  BY TypeStep, UnlaunchedStep, ExitedStep, DrainedStep, QueuedStep,
     StartKnownStep DEF IInv

\* The inductive invariant holds in every behaviour of the coordinator, its
\* pipes and its worker.
THEOREM RuntimeInductive == Spec => []IInv
  BY InitIInv, NextIInv, PTL DEF Spec

\* Every variable of the coordinator, the pipes and the worker keeps its range.
THEOREM RuntimeTypeCorrect == Spec => []TypeOK
  <1>1. IInv => TypeOK
    BY DEF IInv
  <1> QED BY <1>1, RuntimeInductive, PTL

\* An end that is announced is behind every trace of the worker: behind its
\* exit, its output and the calls that wait on it (_reconcileWorkerTermination,
\* _closeTransport).
THEOREM EndSafe == Spec => []EndIsComplete
  <1>1. IInv => EndIsComplete
    <2> SUFFICES ASSUME IInv, termination # "none", worker # "none"
                 PROVE  /\ Dead /\ exit_signal /\ state = "stopped"
                        /\ ~stderr /\ outbox = <<>>
                        /\ stdout = <<>> \/ protocol_failure
                        /\ responses = {}
                        /\ \A c \in Call :
                              calls[c] \notin Waiting \cup {"sending"}
      BY DEF EndIsComplete
    <2>1. verdict # "none" /\ outbox = <<>>
      BY DEF IInv, Drained
    <2>2. CanReconcile /\ state = "stopped" /\ responses = {}
      BY <2>1 DEF IInv, Drained
    <2>3. Dead /\ ~stderr /\ (stdout = <<>> \/ protocol_failure)
      BY <2>2 DEF IInv, Drained, CanReconcile
    <2>4. \A c \in Call : calls[c] \notin Waiting
      BY <2>2 DEF IInv, Exited, CanReconcile
    <2>5. \A c \in Call : calls[c] # "sending"
      BY <2>1 DEF IInv, Queued
    <2> QED BY <2>1, <2>2, <2>3, <2>4, <2>5 DEF CanReconcile
  <1> QED BY <1>1, RuntimeInductive, PTL

\* A start that ended in a startup failure leaves no worker that lives and no
\* coordinator that can be asked (start, lines 403 to 436).
THEOREM FailedStartSafe == Spec => []FailedStartIsReaped
  <1>1. IInv => FailedStartIsReaped
    BY DEF IInv, StartKnown, FailedStartIsReaped
  <1> QED BY <1>1, RuntimeInductive, PTL

-----------------------------------------------------------------------------
(* The coordinator keeps WorkerContract.                                    *)

\* What the contract sees of the worker and of the calls.
Seen == IF worker = "none" THEN "absent"
        ELSE IF exit_signal THEN "gone" ELSE "live"
Result(step) ==
    IF step \in Waiting \cup {"sending", "ending"} THEN "pending"
    ELSE IF step \in {"cancelled", "uncaughtError", "unexpectedExit"}
    THEN "ended" ELSE step
Results == [c \in Call |-> Result(calls[c])]

\* The contract's variables under the refinement mapping.
LEMMA Mapping ==
    /\ Contract!Init <=> /\ Seen = "absent" /\ termination = "none"
                         /\ Results = [c \in Call |-> "new"]
    /\ Contract!vars = <<Seen, termination, Results>>
  BY DEF Contract!Init, Contract!vars, Seen, Results, Result

\* A step that moves one call at most settles it, or shows nothing.
LEMMA OneCall ==
    ASSUME TypeOK, NEW c \in Call, NEW step,
           calls' = [calls EXCEPT ![c] = step]
    PROVE  Results' = [Results EXCEPT ![c] = Result(step)]
  <1>1. \A d \in Call : Results[d] = Result(calls[d])
    BY DEF Results
  <1>2. \A d \in Call : calls'[d] = IF d = c THEN step ELSE calls[d]
    BY DEF TypeOK, TypeData
  <1>3. Results' = [d \in Call |-> IF d = c THEN Result(step) ELSE Results[d]]
    BY <1>1, <1>2 DEF Results, Result, Waiting
  <1>4. DOMAIN Results = Call
    BY DEF Results
  <1> HIDE DEF Results, Result
  <1> QED BY <1>3, <1>4

\* A call that moves between two steps its caller cannot tell apart.
LEMMA UnseenMove ==
    ASSUME TypeOK, NEW c \in Call, NEW step, Result(calls[c]) = Result(step),
           calls' = [calls EXCEPT ![c] = step]
    PROVE  Results' = Results
  <1>1. Results' = [Results EXCEPT ![c] = Result(step)]
    BY OneCall
  <1>2. Results[c] = Result(step)
    BY DEF Results
  <1>3. DOMAIN Results = Call /\ Results = [d \in DOMAIN Results |-> Results[d]]
    BY DEF Results
  <1> HIDE DEF Results, Result
  <1> QED BY <1>1, <1>2, <1>3

\* Every step of the coordinator is one of the contract's, or hidden from it.
LEMMA ContractStep ==
    ASSUME IInv, [Next]_vars
    PROVE  [Contract!Next]_(Contract!vars)
  <1> USE DEF flags, registry, evidence, outcome, process
  <1>t. TypeOK /\ TypeOK'
    BY TypeStep DEF IInv
  <1>s. ASSUME Seen' = Seen, termination' = termination, Results' = Results
        PROVE  UNCHANGED Contract!vars
    BY <1>s DEF Contract!vars, Seen, Results, Result
  <1>w. ASSUME worker' = worker, exit_signal' = exit_signal,
               termination' = termination, Results' = Results
        PROVE  UNCHANGED Contract!vars
    BY <1>w, <1>s DEF Seen
  <1>1. CASE Launch
    <2>1. /\ Seen = "absent" /\ termination = "none" /\ Seen' = "live"
          /\ termination' = termination /\ calls' = calls
      BY <1>1 DEF Launch, IInv, Unlaunched, Seen
    <2>2. Contract!Launch
      BY <2>1 DEF Contract!Launch, Seen
    <2> QED BY <2>2 DEF Contract!Next
  <1>2. CASE LaunchFails
    <2>1. /\ Seen = "absent" /\ termination = "none" /\ Seen' = Seen
          /\ termination' = "startupFailure" /\ calls' = calls
      BY <1>2 DEF LaunchFails, IInv, Unlaunched, Seen
    <2>2. Contract!Refuse
      BY <2>1 DEF Contract!Refuse, Seen
    <2> QED BY <2>2 DEF Contract!Next
  <1>3. CASE HandleExit
    <2>1. /\ Seen = "live" /\ Seen' = "gone" /\ termination' = termination
      BY <1>3 DEF HandleExit, Seen, Dead
    <2>2. Results' = Results
      <3>1. \A c \in Call : Result(Wakes(calls[c])) = Result(calls[c])
        BY DEF Result, Wakes, Waiting
      <3>2. \A c \in Call : calls'[c] = Wakes(calls[c])
        BY <1>3 DEF HandleExit
      <3> QED BY <3>1, <3>2 DEF Results, Result, Wakes, Waiting
    <2>3. Contract!Die
      BY <2>1, <2>2 DEF Contract!Die, Seen, Results, Result
    <2> QED BY <2>3 DEF Contract!Next
  <1>4. CASE CloseTransport
    <2>1. /\ Seen = "gone" /\ termination = "none" /\ Seen' = Seen
          /\ termination' \in Termination /\ calls' = calls
      BY <1>4, <1>t DEF CloseTransport, IInv, Unlaunched, Drained, CanReconcile,
         Seen, TypeOK, TypeData
    <2>2. Contract!Conclude
      BY <2>1 DEF Contract!Conclude, Seen
    <2> QED BY <2>2 DEF Contract!Next
  <1>5. CASE Request
    <2>0. PICK c0 \in Call : c0 = next_operation
      BY <1>5 DEF Request
    <2>1. /\ calls' = [calls EXCEPT ![c0] = "sending"]
          /\ calls[c0] = "new" /\ Seen = "live" /\ Seen' = Seen
          /\ termination' = termination
      BY <1>5, <2>0 DEF Request, IInv, Queued, Unlaunched, Seen, Call, TypeOK,
         TypeData
    <2>2. Results[c0] = "new" /\ Results' = [Results EXCEPT ![c0] = "pending"]
      BY <2>1, <1>t, OneCall DEF Results, Result, Waiting
    <2>3. Contract!Request(c0)
      BY <2>1, <2>2 DEF Contract!Request, Contract!Settle, Seen, Results, Result
    <2> QED BY <2>3 DEF Contract!Next
  <1>6. CASE ReceiveResponse
    <2>1. CASE calls' = calls
      BY <1>6, <2>1, <1>w DEF ReceiveResponse, Results, Result
    <2>2. ASSUME NEW c0 \in Call, calls[c0] = "awaiting",
                 calls' = [calls EXCEPT ![c0] = "response"]
          PROVE  Contract!Next
      <3>1. ~exit_signal /\ worker # "none"
        BY <2>2 DEF IInv, Exited, Waiting, Unlaunched
      <3>2. Seen = "live" /\ Seen' = Seen /\ termination' = termination
        BY <1>6, <3>1 DEF ReceiveResponse, Seen
      <3>3. /\ Results[c0] = "pending"
            /\ Results' = [Results EXCEPT ![c0] = "response"]
        BY <2>2, <3>1, <1>t, OneCall DEF Results, Result, Waiting
      <3>4. Contract!Answer(c0)
        BY <3>2, <3>3 DEF Contract!Answer, Contract!Settle, Seen, Results,
           Result
      <3> QED BY <3>4 DEF Contract!Next
    <2>3. \/ calls' = calls
          \/ \E c0 \in Call : /\ calls[c0] = "awaiting"
                             /\ calls' = [calls EXCEPT ![c0] = "response"]
      BY <1>6, <1>t DEF ReceiveResponse, TypeOK, TypeData
    <2> QED BY <2>1, <2>2, <2>3
  <1>7. ASSUME NEW c \in Call, RequestGivesUp(c) PROVE Contract!Next
    <2>1. /\ calls[c] = "killing" /\ calls' = [calls EXCEPT ![c] = "failed"]
          /\ ~exit_signal /\ worker # "none" /\ termination' = termination
          /\ Seen' = Seen
      BY <1>7 DEF RequestGivesUp, IInv, Exited, Waiting, Unlaunched, Seen
    <2>2. /\ Results[c] = "pending"
          /\ Results' = [Results EXCEPT ![c] = "failed"]
      BY <2>1, <1>t, OneCall DEF Results, Result, Waiting
    <2>3. Contract!GiveUp(c)
      BY <2>1, <2>2 DEF Contract!GiveUp, Contract!Settle, Seen, Results, Result
    <2> QED BY <2>3 DEF Contract!Next
  <1>8. ASSUME NEW c \in Call, RequestEnds(c) PROVE Contract!Next
    <2>1. /\ calls[c] = "ending" /\ calls' = [calls EXCEPT ![c] = EndOfRequest]
          /\ termination # "none" /\ termination' = termination /\ Seen' = Seen
      BY <1>8 DEF RequestEnds, EndKnown, Seen
    <2>2. Results[c] = "pending" /\ Results' = [Results EXCEPT ![c] = "ended"]
      BY <2>1, <1>t, OneCall DEF Results, Result, Waiting, EndOfRequest
    <2>3. Contract!End(c)
      BY <2>1, <2>2 DEF Contract!End, Contract!Settle, Seen, Results, Result
    <2> QED BY <2>3 DEF Contract!Next
  <1>9. CASE Write \/ FlushFails
    <2> DEFINE c0 == Head(outbox).operation
    <2>1. /\ worker' = worker /\ exit_signal' = exit_signal
          /\ termination' = termination
      BY <1>9 DEF Write, FlushFails
    <2>2. \/ calls' = calls
          \/ /\ c0 \in Call
             /\ \E step \in {"awaiting", "killing", "ending"} :
                   calls' = [calls EXCEPT ![c0] = step]
      <3>1. CASE Write
        BY <3>1 DEF Write, SenderGoes
      <3>2. CASE FlushFails
        BY <3>2 DEF FlushFails, SenderGoes
      <3> QED BY <1>9, <3>1, <3>2
    <2>3. c0 \in Call => calls[c0] = "sending"
      BY <1>9, <1>t, TailOf DEF IInv, Queued, TypeOK, TypeData, Write,
         FlushFails
    <2>4. CASE calls' = calls
      BY <2>1, <2>4, <1>w DEF Results, Result
    <2>5. ASSUME c0 \in Call, NEW step \in {"awaiting", "killing", "ending"},
                 calls' = [calls EXCEPT ![c0] = step]
          PROVE  UNCHANGED Contract!vars
      <3>1. Result(calls[c0]) = Result(step)
        BY <2>3, <2>5 DEF Result, Waiting
      <3>2. Results' = Results
        BY <2>5, <3>1, <1>t, UnseenMove
      <3> QED BY <2>1, <3>2, <1>w
    <2> QED BY <2>2, <2>4, <2>5
  <1>10. ASSUME NEW c \in Call, RequestTimeout(c)
         PROVE  UNCHANGED Contract!vars
    <2>1. Result(calls[c]) = Result("killing")
      BY <1>10 DEF RequestTimeout, Result, Waiting
    <2>2. Results' = Results
      BY <1>10, <2>1, <1>t, UnseenMove DEF RequestTimeout
    <2> QED BY <1>10, <2>2, <1>w DEF RequestTimeout
  <1>11. CASE \/ Start \/ Shutdown \/ StartEnds \/ ShutdownEnds
              \/ StartupTimeout \/ StartGivesUp
              \/ ShutdownTimeout \/ ShutdownGivesUp
    <2>1. /\ worker' = worker /\ exit_signal' = exit_signal
          /\ termination' = termination /\ calls' = calls
      BY <1>11 DEF Start, Shutdown, StartEnds, ShutdownEnds, StartupTimeout,
         StartGivesUp, ShutdownTimeout, ShutdownGivesUp
    <2> QED BY <2>1, <1>w DEF Results, Result
  <1>12. CASE \/ ReceiveReady \/ ReceiveAck \/ ReceiveGarbage
              \/ ReceiveDiagnostics \/ ProtocolDone \/ DiagnosticsDone
              \/ Reconcile
    <2>1. /\ worker' = worker /\ exit_signal' = exit_signal
          /\ termination' = termination /\ calls' = calls
      BY <1>12 DEF ReceiveReady, ReceiveAck, ReceiveGarbage,
         ReceiveDiagnostics, ProtocolDone, DiagnosticsDone, Reconcile
    <2> QED BY <2>1, <1>w DEF Results, Result
  <1>13. CASE Boot \/ Serve \/ Crash \/ Leave \/ Die \/ WriteGarbage
    <2>1. /\ worker # "none" /\ worker' # "none" /\ exit_signal' = exit_signal
          /\ termination' = termination /\ calls' = calls
      BY <1>13 DEF Boot, Serve, Crash, Leave, Die, WriteGarbage, Worker, Alive
    <2> QED BY <2>1, <1>s DEF Seen, Results, Result
  <1>14. CASE UNCHANGED vars
    BY <1>14, <1>w DEF vars, Results, Result
  <1> QED
    BY <1>1, <1>2, <1>3, <1>4, <1>5, <1>6, <1>7, <1>8, <1>9, <1>10, <1>11,
       <1>12, <1>13, <1>14
    DEF Next, Isolate, Timer, Process, Flush, Pull

\* The coordinator implements the contract: a worker is launched once and
\* judged once, when it is gone, and each request has one result.
THEOREM RuntimeRefines == Spec => ImplementsContract
  <1>1. Init => Contract!Init
    BY DEF Init, Contract!Init, Waiting
  <1>2. IInv /\ [Next]_vars => [Contract!Next]_(Contract!vars)
    BY ContractStep
  <1> QED
    BY <1>1, <1>2, RuntimeInductive, PTL
    DEF Spec, ImplementsContract, Contract!Spec

-----------------------------------------------------------------------------
(* The in-flight limit.                                                     *)

\* All that a live worker has still to read.
Line == stdin \o outbox

\* Requests and the one stop behind them are on the way, each request once,
\* and none whose response was written; the registry knows them, unless they
\* were given up with a kill.
Registered ==
    /\ worker = "none" => stdin = <<>>
    /\ \A c \in Call : calls[c] = "killing" => killed \/ ~Alive
    /\ Alive =>
       /\ \A i \in 1..Len(Line) :
             \/ /\ Line[i].type = "request" /\ Line[i].operation \in Call
                /\ Line[i].operation < next_operation
                /\ Line[i].operation \in responses \/ killed
             \/ /\ Line[i].type = "stop" /\ Line[i].operation = 0
                /\ i = Len(Line) /\ state \in {"stopping", "stopped"}
       /\ \A i, j \in 1..Len(Line) :
             i # j => Line[i].operation # Line[j].operation
       /\ \A i \in 1..Len(Line), k \in 1..Len(stdout) :
             Line[i].operation \in Call =>
                stdout[k].operation # Line[i].operation
       /\ \A k \in 1..Len(stdout) : stdout[k].operation < next_operation

\* The frames of two queues laid end to end.
LEMMA JoinedAppend ==
    ASSUME NEW p \in Seq(Frame), NEW q \in Seq(Frame), NEW frame \in Frame
    PROVE  p \o Append(q, frame) = Append(p \o q, frame)
  <1>1. p \o Append(q, frame) \in Seq(Frame)
    BY AppendOf, ConcatProperties
  <1>2. Append(p \o q, frame) \in Seq(Frame)
    BY AppendOf, ConcatProperties
  <1>3. /\ Len(p \o Append(q, frame)) = Len(p) + Len(q) + 1
        /\ Len(Append(p \o q, frame)) = Len(p) + Len(q) + 1
        /\ Len(p) \in Nat /\ Len(q) \in Nat
    BY AppendOf, ConcatProperties
  <1>4. ASSUME NEW i \in 1..(Len(p) + Len(q) + 1)
        PROVE  (p \o Append(q, frame))[i] = Append(p \o q, frame)[i]
    <2>1. CASE i <= Len(p)
      BY <1>3, <2>1, AppendOf, ConcatProperties
    <2>2. CASE i > Len(p)
      <3>1. i - Len(p) \in 1..(Len(q) + 1)
        BY <1>3, <2>2
      <3>2. /\ Append(q, frame) \in Seq(Frame) /\ p \o q \in Seq(Frame)
            /\ Len(Append(q, frame)) = Len(q) + 1
            /\ Len(p \o q) = Len(p) + Len(q)
        BY AppendOf, ConcatProperties
      <3>3. (p \o Append(q, frame))[i] = Append(q, frame)[i - Len(p)]
        <4>1. i \in 1..(Len(p) + Len(Append(q, frame))) /\ ~(i <= Len(p))
          BY <1>3, <2>2, <3>2
        <4> QED BY <3>2, <4>1, ConcatProperties
      <3>4. CASE i <= Len(p) + Len(q)
        <4>1. Append(q, frame)[i - Len(p)] = q[i - Len(p)]
          BY <1>3, <2>2, <3>4, AppendOf
        <4>2. Append(p \o q, frame)[i] = (p \o q)[i]
          BY <1>3, <3>2, <3>4, AppendOf
        <4>3. (p \o q)[i] = q[i - Len(p)]
          BY <1>3, <2>2, <3>4, ConcatProperties
        <4> QED BY <3>3, <4>1, <4>2, <4>3
      <3>5. CASE i = Len(p) + Len(q) + 1
        <4>1. Append(q, frame)[i - Len(p)] = frame
          BY <1>3, <3>5, AppendOf
        <4>2. Append(p \o q, frame)[i] = frame
          BY <1>3, <3>2, <3>5, AppendOf
        <4> QED BY <3>3, <4>1, <4>2
      <3> QED BY <1>3, <3>4, <3>5
    <2> QED BY <1>3, <2>1, <2>2
  <1> QED BY <1>1, <1>2, <1>3, <1>4, SeqEqual

\* A frame that goes from one queue to the other keeps its place.
LEMMA JoinedMove ==
    ASSUME NEW p \in Seq(Frame), NEW q \in Seq(Frame), q # <<>>
    PROVE  Append(p, Head(q)) \o Tail(q) = p \o q
  <1>1. /\ Head(q) \in Frame /\ Tail(q) \in Seq(Frame)
        /\ Append(p, Head(q)) \in Seq(Frame)
    BY TailOf, AppendOf
  <1>2. /\ Append(p, Head(q)) \o Tail(q) \in Seq(Frame)
        /\ p \o q \in Seq(Frame)
    BY <1>1, ConcatProperties
  <1>3. /\ Len(Append(p, Head(q)) \o Tail(q)) = Len(p) + Len(q)
        /\ Len(p \o q) = Len(p) + Len(q)
        /\ Len(p) \in Nat /\ Len(q) \in Nat
    BY <1>1, TailOf, AppendOf, ConcatProperties
  <1>4. ASSUME NEW i \in 1..(Len(p) + Len(q))
        PROVE  (Append(p, Head(q)) \o Tail(q))[i] = (p \o q)[i]
    <2>1. CASE i <= Len(p)
      BY <1>1, <1>3, <2>1, AppendOf, ConcatProperties
    <2>2. CASE i = Len(p) + 1
      BY <1>1, <1>3, <2>2, AppendOf, TailOf, ConcatProperties
    <2>3. CASE i > Len(p) + 1
      <3>1. /\ i - Len(p) - 1 \in 1..Len(Tail(q))
            /\ Len(Append(p, Head(q))) = Len(p) + 1
        BY <1>1, <1>3, <2>3, AppendOf, TailOf
      <3>2. (Append(p, Head(q)) \o Tail(q))[i] = Tail(q)[i - (Len(p) + 1)]
        BY <1>1, <1>3, <2>3, <3>1, TailOf, ConcatProperties
      <3>3. Tail(q)[i - (Len(p) + 1)] = q[i - Len(p)]
        BY <1>3, <3>1, TailOf
      <3>4. (p \o q)[i] = q[i - Len(p)]
        BY <1>3, <2>3, ConcatProperties
      <3> QED BY <3>2, <3>3, <3>4
    <2> QED BY <1>3, <2>1, <2>2, <2>3
  <1> QED BY <1>2, <1>3, <1>4, SeqEqual

\* What is read from the first queue is the first of the whole.
LEMMA JoinedTail ==
    ASSUME NEW p \in Seq(Frame), NEW q \in Seq(Frame), p # <<>>
    PROVE  /\ Tail(p) \o q \in Seq(Frame)
           /\ Len(p \o q) \in Nat \ {0} /\ Len(Tail(p) \o q) = Len(p \o q) - 1
           /\ \A i \in 1..Len(Tail(p) \o q) : (Tail(p) \o q)[i] = (p \o q)[i + 1]
           /\ Head(p) = (p \o q)[1]
  <1>1. /\ Tail(p) \in Seq(Frame) /\ Len(p) \in Nat \ {0} /\ Len(q) \in Nat
        /\ Len(Tail(p)) = Len(p) - 1 /\ Head(p) = p[1]
    BY TailOf
  <1>2. /\ Len(p \o q) = Len(p) + Len(q)
        /\ Len(Tail(p) \o q) = Len(p) + Len(q) - 1
        /\ Tail(p) \o q \in Seq(Frame) /\ (p \o q)[1] = p[1]
    BY <1>1, ConcatProperties
  <1>3. ASSUME NEW i \in 1..(Len(p) + Len(q) - 1)
        PROVE  (Tail(p) \o q)[i] = (p \o q)[i + 1]
    <2>1. CASE i <= Len(p) - 1
      BY <1>1, <1>2, <2>1, TailOf, ConcatProperties
    <2>2. CASE i > Len(p) - 1
      BY <1>1, <1>2, <2>2, ConcatProperties
    <2> QED BY <1>1, <2>1, <2>2
  <1> QED BY <1>1, <1>2, <1>3

\* A step that keeps what is on the way, writes no response and drops no
\* request of a live worker from the registry.
LEMMA LineKept ==
    ASSUME TypeOK, Registered,
           Line' = Line, next_operation' = next_operation,
           Alive' => Alive, worker' = "none" => stdin' = <<>>,
           \A c \in Call : calls'[c] = "killing" => killed' \/ ~Alive',
           killed => killed',
           \A i \in 1..Len(Line) :
              /\ Alive' /\ ~killed' /\ Line[i].operation \in Call
              /\ Line[i].operation \in responses
              => Line[i].operation \in responses',
           state \in {"stopping", "stopped"} => state' \in {"stopping", "stopped"},
           \A k \in 1..Len(stdout') :
              \/ stdout'[k].operation = 0
              \/ \E m \in 1..Len(stdout) :
                    stdout[m].operation = stdout'[k].operation
    PROVE  Registered'
  <1>1. ASSUME Alive'
        PROVE  /\ \A i \in 1..Len(Line) :
                     \/ /\ Line[i].type = "request" /\ Line[i].operation \in Call
                        /\ Line[i].operation < next_operation
                        /\ Line[i].operation \in responses' \/ killed'
                     \/ /\ Line[i].type = "stop" /\ Line[i].operation = 0
                        /\ i = Len(Line) /\ state' \in {"stopping", "stopped"}
               /\ \A i, j \in 1..Len(Line) :
                     i # j => Line[i].operation # Line[j].operation
    BY <1>1 DEF Registered
  <1>2. ASSUME Alive'
        PROVE  /\ \A i \in 1..Len(Line), k \in 1..Len(stdout') :
                     Line[i].operation \in Call =>
                        stdout'[k].operation # Line[i].operation
               /\ \A k \in 1..Len(stdout') :
                     stdout'[k].operation < next_operation
    <2>1. ASSUME NEW k \in 1..Len(stdout')
          PROVE  /\ stdout'[k].operation < next_operation
                 /\ \A i \in 1..Len(Line) : Line[i].operation \in Call =>
                       stdout'[k].operation # Line[i].operation
      <3>1. CASE stdout'[k].operation = 0
        BY <3>1 DEF TypeOK, TypeData, Call
      <3>2. ASSUME NEW m \in 1..Len(stdout),
                   stdout[m].operation = stdout'[k].operation
            PROVE  /\ stdout'[k].operation < next_operation
                   /\ \A i \in 1..Len(Line) : Line[i].operation \in Call =>
                         stdout'[k].operation # Line[i].operation
        BY <1>2, <3>2 DEF Registered
      <3> QED BY <3>1, <3>2
    <2> QED BY <2>1
  <1> QED BY <1>1, <1>2 DEF Registered

\* Requests stay registered while a live worker has still to answer them.
LEMMA RegisteredStep ==
    ASSUME IInv, Registered, [Next]_vars
    PROVE  Registered'
  <1> USE RequestAssumption DEF flags, registry, evidence, outcome, process
  <1>t. TypeOK /\ TypeOK' /\ Unlaunched /\ Exited /\ Drained /\ Queued /\ Queued'
    BY NextIInv DEF IInv
  <1>l. Line \in Seq(Frame)
    BY <1>t, ConcatProperties DEF TypeOK, TypeData, Line
  <1>k. \A k \in 1..Len(stdout) : stdout[k].operation \in Nat
    <2>1. \A k \in 1..Len(stdout) : stdout[k] \in Frame
      BY <1>t, ElementOfSeq DEF TypeOK, TypeData
    <2>2. \A frame \in Frame : frame.operation \in Nat
      BY DEF Frame
    <2> QED BY <2>1, <2>2
  <1>1. CASE Request
    <2> DEFINE c0 == next_operation
    <2>1. /\ c0 \in Call /\ Of("request", c0) \in Frame
          /\ Of("request", c0).operation = c0
          /\ Of("request", c0).type = "request"
      BY <1>1, Frames DEF Request, Of
    <2>2. Line' = Append(Line, Of("request", c0))
      BY <1>1, <1>t, <2>1, JoinedAppend DEF Request, Line, TypeOK, TypeData
    <2>3. /\ Len(Line) \in Nat /\ Len(Line') = Len(Line) + 1
          /\ \A i \in 1..Len(Line) : Line'[i] = Line[i]
          /\ Line'[Len(Line) + 1] = Of("request", c0)
      BY <1>l, <2>1, <2>2, AppendOf
    <2>4. /\ responses' = responses \cup {c0} /\ next_operation' = c0 + 1
          /\ calls' = [calls EXCEPT ![c0] = "sending"] /\ state = "running"
          /\ UNCHANGED <<state, worker, killed, stdin, stdout>>
      BY <1>1 DEF Request
    <2>5. \A c \in Call : calls'[c] = "killing" => calls[c] = "killing"
      BY <1>t, <2>4 DEF TypeOK, TypeData
    <2>6. c0 \in Nat
      BY <2>1 DEF Call
    <2>7. ASSUME Alive, NEW i \in 1..Len(Line)
          PROVE  /\ Line[i].type = "request" /\ Line[i].operation \in Call
                 /\ Line[i].operation < c0
                 /\ Line[i].operation \in responses \/ killed
      BY <2>4, <2>7 DEF Registered
    <2>8. ASSUME Alive
          PROVE  /\ \A i \in 1..Len(Line') :
                       /\ Line'[i].type = "request"
                       /\ Line'[i].operation \in Call
                       /\ Line'[i].operation < next_operation'
                       /\ Line'[i].operation \in responses' \/ killed'
                 /\ \A i, j \in 1..Len(Line') :
                       i # j => Line'[i].operation # Line'[j].operation
      <3>1. \A i \in 1..Len(Line') : i \in 1..Len(Line) \/ i = Len(Line) + 1
        BY <2>3
      <3>2. ASSUME NEW i \in 1..Len(Line')
            PROVE  /\ Line'[i].type = "request" /\ Line'[i].operation \in Call
                   /\ Line'[i].operation < next_operation'
                   /\ Line'[i].operation \in responses' \/ killed'
        <4>1. CASE i \in 1..Len(Line)
          BY <2>3, <2>4, <2>6, <2>7, <2>8, <4>1 DEF Call
        <4>2. CASE i = Len(Line) + 1
          BY <2>1, <2>3, <2>4, <2>6, <4>2
        <4> QED BY <3>1, <4>1, <4>2
      <3>3. ASSUME NEW i \in 1..Len(Line'), NEW j \in 1..Len(Line'), i # j
            PROVE  Line'[i].operation # Line'[j].operation
        <4>1. CASE i \in 1..Len(Line) /\ j \in 1..Len(Line)
          BY <2>3, <2>8, <3>3, <4>1 DEF Registered
        <4>2. CASE i \in 1..Len(Line) /\ j = Len(Line) + 1
          BY <2>1, <2>3, <2>6, <2>7, <2>8, <4>2 DEF Call
        <4>3. CASE i = Len(Line) + 1 /\ j \in 1..Len(Line)
          BY <2>1, <2>3, <2>6, <2>7, <2>8, <4>3 DEF Call
        <4> QED BY <3>1, <3>3, <4>1, <4>2, <4>3
      <3> QED BY <3>2, <3>3
    <2>9. ASSUME Alive
          PROVE  /\ \A i \in 1..Len(Line'), k \in 1..Len(stdout') :
                       Line'[i].operation \in Call =>
                          stdout'[k].operation # Line'[i].operation
                 /\ \A k \in 1..Len(stdout') :
                       stdout'[k].operation < next_operation'
      <3>1. \A k \in 1..Len(stdout) :
               stdout[k].operation < c0 /\ stdout[k].operation \in Nat
        BY <1>k, <2>9 DEF Registered
      <3>2. ASSUME NEW i \in 1..Len(Line'), NEW k \in 1..Len(stdout),
                   Line'[i].operation \in Call
            PROVE  stdout[k].operation # Line'[i].operation
        <4>1. CASE i \in 1..Len(Line)
          BY <2>3, <2>9, <3>2, <4>1 DEF Registered
        <4>2. CASE i = Len(Line) + 1
          BY <2>1, <2>3, <2>6, <3>1, <4>2
        <4> QED BY <2>3, <4>1, <4>2
      <3> QED BY <2>4, <2>6, <3>1, <3>2
    <2> QED BY <2>4, <2>5, <2>8, <2>9 DEF Registered, Alive
  <1>2. CASE Shutdown
    <2>1. CASE UNCHANGED outbox
      <3>1. Line' = Line
        BY <1>2, <2>1 DEF Shutdown, Line
      <3>2. state \in {"stopping", "stopped"} =>
               state' \in {"stopping", "stopped"}
        BY <1>2 DEF Shutdown
      <3>3. UNCHANGED <<registry, calls, process>>
        BY <1>2 DEF Shutdown
      <3> QED BY <1>t, <3>1, <3>2, <3>3, LineKept DEF Registered, Alive
    <2>2. CASE /\ state = "running" /\ state' = "stopping"
               /\ outbox' = Append(outbox, Plain("stop"))
      <3>1. /\ Plain("stop") \in Frame
            /\ Plain("stop").type = "stop" /\ Plain("stop").operation = 0
        BY Frames DEF Plain, Of
      <3>2. UNCHANGED <<registry, calls, process>>
        BY <1>2 DEF Shutdown
      <3>3. Line' = Append(Line, Plain("stop"))
        BY <1>t, <2>2, <3>1, <3>2, JoinedAppend DEF Line, TypeOK, TypeData
      <3>4. /\ Len(Line) \in Nat /\ Len(Line') = Len(Line) + 1
            /\ \A i \in 1..Len(Line) : Line'[i] = Line[i]
            /\ Line'[Len(Line) + 1] = Plain("stop")
        BY <1>l, <3>1, <3>3, AppendOf
      <3>5. ASSUME Alive, NEW i \in 1..Len(Line)
            PROVE  /\ Line[i].type = "request" /\ Line[i].operation \in Call
                   /\ Line[i].operation < next_operation
                   /\ Line[i].operation \in responses \/ killed
        <4>1. ~(state \in {"stopping", "stopped"})
          BY <2>2
        <4> QED BY <3>5, <4>1 DEF Registered
      <3>6. 0 \notin Call
        BY DEF Call
      <3>7. UNCHANGED <<next_operation, responses, worker, killed, stdout>>
        BY <3>2 DEF registry, process
      <3> QED
        BY <2>2, <3>1, <3>2, <3>4, <3>5, <3>6, <3>7, SMTT(30)
        DEF Registered, Alive
    <2> QED BY <1>2, <2>1, <2>2 DEF Shutdown
  <1>3. CASE Write
    <2>1. Alive => Line' = Line
      BY <1>3, <1>t, JoinedMove DEF Write, Line, TypeOK, TypeData, Alive, Dead
    <2>2. /\ UNCHANGED <<state, next_operation, worker, killed, stdout>>
          /\ worker # "none"
      BY <1>3, <1>t DEF Write, Unlaunched
    <2>3. \A c \in Call : calls'[c] = "killing" => calls[c] = "killing"
      BY <1>3, <1>t DEF Write, SenderGoes, TypeOK, TypeData
    <2>4. Alive => responses' = responses
      BY <1>3, <1>t DEF Write, SenderGoes, Exited, Dead, Alive
    <2>5. CASE Alive
      BY <1>t, <2>1, <2>2, <2>3, <2>4, <2>5, LineKept DEF Registered, Alive
    <2>6. CASE ~Alive
      BY <2>2, <2>6 DEF Registered, Alive
    <2> QED BY <2>5, <2>6
  <1>4. CASE FlushFails
    BY <1>4 DEF FlushFails, Registered, Dead, Alive
  <1>5. CASE Serve
    <2>1. /\ stdin # <<>> /\ stdin' = Tail(stdin) /\ worker = "serving"
          /\ UNCHANGED <<state, registry, calls, killed, outbox>>
      BY <1>5 DEF Serve, Worker
    <2>2. /\ Line' \in Seq(Frame)
          /\ Len(Line) \in Nat \ {0} /\ Len(Line') = Len(Line) - 1
          /\ \A i \in 1..Len(Line') : Line'[i] = Line[i + 1]
          /\ Head(stdin) = Line[1]
      BY <1>t, <2>1, JoinedTail DEF Line, TypeOK, TypeData
    <2>3. Alive /\ Alive' /\ worker' # "none"
      BY <1>5, <2>1 DEF Serve, Alive
    <2>4. \A i \in 1..Len(Line') : i + 1 \in 1..Len(Line) /\ i + 1 # 1
      BY <2>2
    <2>5. /\ \A i \in 1..Len(Line') :
                \/ /\ Line'[i].type = "request" /\ Line'[i].operation \in Call
                   /\ Line'[i].operation < next_operation'
                   /\ Line'[i].operation \in responses' \/ killed'
                \/ /\ Line'[i].type = "stop" /\ Line'[i].operation = 0
                   /\ i = Len(Line') /\ state' \in {"stopping", "stopped"}
          /\ \A i, j \in 1..Len(Line') :
                i # j => Line'[i].operation # Line'[j].operation
          /\ \A i \in 1..Len(Line') :
                Line'[i].operation # Head(stdin).operation
      <3>1. ASSUME NEW i \in 1..Len(Line')
            PROVE  /\ Line'[i] = Line[i + 1] /\ i + 1 \in 1..Len(Line)
                   /\ i + 1 = Len(Line) => i = Len(Line')
                   /\ Line'[i].operation # Head(stdin).operation
        BY <2>2, <2>3, <2>4 DEF Registered
      <3>2. ASSUME NEW i \in 1..Len(Line'), NEW j \in 1..Len(Line'), i # j
            PROVE  Line'[i].operation # Line'[j].operation
        BY <2>2, <2>3, <3>1, <3>2 DEF Registered
      <3>3. ASSUME NEW i \in 1..Len(Line')
            PROVE  \/ /\ Line'[i].type = "request" /\ Line'[i].operation \in Call
                      /\ Line'[i].operation < next_operation'
                      /\ Line'[i].operation \in responses' \/ killed'
                   \/ /\ Line'[i].type = "stop" /\ Line'[i].operation = 0
                      /\ i = Len(Line') /\ state' \in {"stopping", "stopped"}
        BY <2>1, <2>3, <3>1 DEF Registered
      <3> QED BY <3>1, <3>2, <3>3
    <2>6. PICK frame \in Frame : /\ stdout' = Append(stdout, frame)
                                 /\ \/ frame.operation = Head(stdin).operation
                                    \/ frame.operation = 0
      <3>1. Head(stdin) \in Frame
        BY <1>t, <2>1, TailOf DEF TypeOK, TypeData
      <3>2. /\ Of("response", Head(stdin).operation) \in Frame
            /\ Of("response", Head(stdin).operation).operation =
                  Head(stdin).operation
            /\ Plain("ack") \in Frame /\ Plain("ack").operation = 0
        BY <3>1, Frames DEF Of, Plain, Frame
      <3> QED BY <1>5, <3>2 DEF Serve
    <2>7. /\ Len(stdout) \in Nat /\ Len(stdout') = Len(stdout) + 1
          /\ \A k \in 1..Len(stdout) : stdout'[k] = stdout[k]
          /\ stdout'[Len(stdout) + 1] = frame
      BY <1>t, <2>6, AppendOf DEF TypeOK, TypeData
    <2>8. frame.operation < next_operation
      BY <1>t, <2>2, <2>3, <2>6 DEF Registered, TypeOK, TypeData
    <2>9. /\ \A i \in 1..Len(Line'), k \in 1..Len(stdout') :
                Line'[i].operation \in Call =>
                   stdout'[k].operation # Line'[i].operation
          /\ \A k \in 1..Len(stdout') : stdout'[k].operation < next_operation'
      <3>1. 0 \notin Call
        BY DEF Call
      <3>2. \A k \in 1..Len(stdout') : k \in 1..Len(stdout) \/ k = Len(stdout) + 1
        BY <2>7
      <3>3. ASSUME NEW i \in 1..Len(Line'), NEW k \in 1..Len(stdout'),
                   Line'[i].operation \in Call
            PROVE  stdout'[k].operation # Line'[i].operation
        <4>1. CASE k \in 1..Len(stdout)
          BY <2>2, <2>3, <2>4, <2>7, <3>3, <4>1 DEF Registered
        <4>2. CASE k = Len(stdout) + 1
          BY <2>5, <2>6, <2>7, <3>1, <3>3, <4>2
        <4> QED BY <3>2, <4>1, <4>2
      <3>4. ASSUME NEW k \in 1..Len(stdout')
            PROVE  stdout'[k].operation < next_operation'
        <4>1. CASE k \in 1..Len(stdout)
          BY <2>1, <2>3, <2>7, <4>1 DEF Registered
        <4>2. CASE k = Len(stdout) + 1
          BY <2>1, <2>7, <2>8, <4>2
        <4> QED BY <3>2, <4>1, <4>2
      <3> QED BY <3>3, <3>4
    <2> QED BY <2>1, <2>3, <2>5, <2>9 DEF Registered
  <1>6. CASE ReceiveResponse
    <2>1. /\ stdout # <<>> /\ stdout' = Tail(stdout)
          /\ UNCHANGED <<state, next_operation, worker, killed, stdin, outbox>>
      BY <1>6 DEF ReceiveResponse, Takes
    <2>2. /\ Head(stdout) = stdout[1] /\ 1 \in 1..Len(stdout)
          /\ \A k \in 1..Len(stdout') : /\ k + 1 \in 1..Len(stdout)
                                        /\ stdout'[k] = stdout[k + 1]
      BY <1>t, <2>1, TailOf DEF TypeOK, TypeData
    <2>3. \A c \in Call : /\ calls'[c] = "killing" => calls[c] = "killing"
                          /\ c \in responses /\ c # Head(stdout).operation =>
                                c \in responses'
      BY <1>6, <1>t DEF ReceiveResponse, TypeOK, TypeData
    <2>4. Line' = Line
      BY <2>1 DEF Line
    <2>5. \A i \in 1..Len(Line) :
             /\ Alive /\ Line[i].operation \in Call
             /\ Line[i].operation \in responses
             => Line[i].operation \in responses'
      BY <2>2, <2>3 DEF Registered
    <2> QED BY <1>t, <2>1, <2>2, <2>3, <2>4, <2>5, LineKept DEF Registered, Alive
  <1>7. ASSUME NEW c \in Call, RequestGivesUp(c) PROVE Registered'
    <2>1. killed \/ ~Alive
      BY <1>7 DEF RequestGivesUp, Registered
    <2>2. /\ UNCHANGED <<state, next_operation, process, outbox>>
          /\ \A d \in Call : calls'[d] = "killing" => calls[d] = "killing"
      BY <1>7, <1>t DEF RequestGivesUp, TypeOK, TypeData
    <2>3. Line' = Line
      BY <2>2 DEF Line
    <2> QED BY <1>t, <2>1, <2>2, <2>3, LineKept DEF Registered, Alive
  <1>8. ASSUME NEW c \in Call, RequestTimeout(c) PROVE Registered'
    <2>1. /\ UNCHANGED <<state, registry, worker, stdin, stdout, outbox>>
          /\ killed' = (killed \/ Alive)
      BY <1>8 DEF RequestTimeout, Kill
    <2>2. Line' = Line
      BY <2>1 DEF Line
    <2> QED BY <1>t, <2>1, <2>2, LineKept DEF Registered, Alive
  <1>9. CASE Launch
    <2>1. Line' = <<>> /\ stdout' = <<>> /\ killed' = killed
      BY <1>9, <1>t, ConcatEmptySeq DEF Launch, Unlaunched, Registered, Line,
         TypeOK, TypeData
    <2>2. calls' = calls /\ \A c \in Call : calls[c] = "new"
      BY <1>9, <1>t DEF Launch, Unlaunched
    <2>3. worker' = "booting"
      BY <1>9 DEF Launch
    <2> QED BY <2>1, <2>2, <2>3 DEF Registered
  <1>10. CASE ReceiveReady \/ ReceiveAck \/ ReceiveGarbage
    <2>1. /\ stdout # <<>> /\ stdout' = Tail(stdout)
          /\ UNCHANGED <<registry, calls, worker, stdin, outbox>>
          /\ killed' = killed \/ killed' = (killed \/ Alive)
      BY <1>10 DEF ReceiveReady, ReceiveAck, ReceiveGarbage, Takes, Kill
    <2>2. \A k \in 1..Len(stdout') : /\ k + 1 \in 1..Len(stdout)
                                     /\ stdout'[k] = stdout[k + 1]
      BY <1>t, <2>1, TailOf DEF TypeOK, TypeData
    <2>3. state \in {"stopping", "stopped"} => state' \in {"stopping", "stopped"}
      BY <1>10 DEF ReceiveReady, ReceiveAck, ReceiveGarbage
    <2>4. Line' = Line
      BY <2>1 DEF Line
    <2>5. killed => killed'
      BY <2>1
    <2> QED BY <1>t, <2>1, <2>2, <2>3, <2>4, <2>5, LineKept DEF Registered, Alive
  <1>11. CASE HandleExit \/ Reconcile
    <2>1. Dead
      BY <1>11, <1>t DEF HandleExit, Reconcile, CanReconcile, Exited
    <2>2. UNCHANGED process
      BY <1>11 DEF HandleExit, Reconcile
    <2> QED BY <2>1, <2>2 DEF Registered, Dead, Alive
  <1>12. CASE StartupTimeout \/ ShutdownTimeout
    <2>1. /\ UNCHANGED <<state, registry, calls, worker, stdin, stdout, outbox>>
          /\ killed' = (killed \/ Alive)
      BY <1>12 DEF StartupTimeout, ShutdownTimeout, Kill
    <2>2. Line' = Line
      BY <2>1 DEF Line
    <2> QED BY <1>t, <2>1, <2>2, LineKept DEF Registered, Alive
  <1>13. CASE \/ Start \/ LaunchFails \/ StartEnds \/ ShutdownEnds
              \/ StartGivesUp \/ ShutdownGivesUp
              \/ ReceiveDiagnostics \/ ProtocolDone \/ DiagnosticsDone
              \/ CloseTransport
    <2>1. /\ UNCHANGED <<registry, calls, worker, killed, stdin, stdout, outbox>>
          /\ state \in {"stopping", "stopped"} =>
                state' \in {"stopping", "stopped"}
      <3>1. CASE Start \/ LaunchFails \/ StartEnds \/ ShutdownEnds
        BY <3>1 DEF Start, LaunchFails, StartEnds, ShutdownEnds
      <3>2. CASE \/ StartGivesUp \/ ShutdownGivesUp \/ CloseTransport
                 \/ ReceiveDiagnostics \/ ProtocolDone \/ DiagnosticsDone
        BY <3>2 DEF StartGivesUp, ShutdownGivesUp, CloseTransport,
           ReceiveDiagnostics, ProtocolDone, DiagnosticsDone
      <3> QED BY <1>13, <3>1, <3>2
    <2>2. Line' = Line
      BY <2>1 DEF Line
    <2> QED BY <1>t, <2>1, <2>2, LineKept DEF Registered, Alive
  <1>14. ASSUME NEW c \in Call, RequestEnds(c) PROVE Registered'
    <2>1. /\ UNCHANGED <<state, registry, process, outbox>>
          /\ \A d \in Call : calls'[d] = "killing" => calls[d] = "killing"
      BY <1>14, <1>t DEF RequestEnds, EndOfRequest, TypeOK, TypeData
    <2>2. Line' = Line
      BY <2>1 DEF Line
    <2> QED BY <1>t, <2>1, <2>2, LineKept DEF Registered, Alive
  <1>15. CASE Boot \/ WriteGarbage
    <2>1. /\ Alive /\ worker' # "none"
          /\ UNCHANGED <<state, registry, calls, killed, stdin, outbox>>
      BY <1>15 DEF Boot, WriteGarbage, Worker, Alive
    <2>2. PICK frame \in Frame : /\ stdout' = Append(stdout, frame)
                                 /\ frame.operation = 0
      <3>1. \A type \in {"ready", "invalid", "broken"} :
               Plain(type) \in Frame /\ Plain(type).operation = 0
        BY Frames DEF Plain, Of
      <3> QED BY <1>15, <3>1 DEF Boot, WriteGarbage
    <2>3. /\ Len(stdout) \in Nat /\ Len(stdout') = Len(stdout) + 1
          /\ \A k \in 1..Len(stdout) : stdout'[k] = stdout[k]
          /\ stdout'[Len(stdout) + 1].operation = 0
      BY <1>t, <2>2, AppendOf DEF TypeOK, TypeData
    <2>4. \A k \in 1..Len(stdout') :
             \/ stdout'[k].operation = 0
             \/ k \in 1..Len(stdout) /\ stdout'[k] = stdout[k]
      BY <2>3
    <2>5. Line' = Line
      BY <2>1 DEF Line
    <2> QED BY <1>t, <2>1, <2>4, <2>5, LineKept DEF Registered, Alive
  <1>16. CASE Crash \/ Leave \/ Die
    <2>1. /\ worker' \in {"exited", "failed"}
          /\ UNCHANGED <<state, registry, calls, killed, stdin, stdout, outbox>>
      BY <1>16 DEF Crash, Leave, Die, Worker
    <2> QED BY <2>1 DEF Registered, Alive
  <1>17. CASE UNCHANGED vars
    <2>1. Line' = Line
      BY <1>17 DEF vars, Line
    <2> QED BY <1>t, <1>17, <2>1, LineKept DEF vars, Registered, Alive
  <1> QED
    BY <1>1, <1>2, <1>3, <1>4, <1>5, <1>6, <1>7, <1>8, <1>9, <1>10, <1>11,
       <1>12, <1>13, <1>14, <1>15, <1>16, <1>17
    DEF Next, Isolate, Timer, Process, Flush, Pull

\* The in-flight limit bounds what a live worker is asked: each request on its
\* way to a worker that is not killed is in the registry that requestPayload
\* counts, and nothing follows the stop frame.
THEOREM InFlightBounded == Spec => []WorkIsRegistered
  <1>1. Init => Registered
    BY DEF Init, Registered, Alive
  <1>2. IInv /\ Registered /\ [Next]_vars => Registered'
    BY RegisteredStep
  <1>3. IInv /\ Registered => WorkIsRegistered
    <2> SUFFICES ASSUME IInv, Registered, Alive, ~killed
                 PROVE  /\ \A i \in 1..Len(Line) : Line[i].type = "request" =>
                              Line[i].operation \in responses
                        /\ \A i \in 1..(Len(Line) - 1) : Line[i].type # "stop"
      BY DEF WorkIsRegistered, Line
    <2>1. Len(Line) \in Nat
      BY ConcatProperties DEF IInv, TypeOK, TypeData, Line
    <2> QED BY <2>1 DEF Registered
  <1> QED BY <1>1, <1>2, <1>3, RuntimeInductive, PTL DEF Spec
=============================================================================
