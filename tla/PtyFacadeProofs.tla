-------------------------- MODULE PtyFacadeProofs --------------------------
(***************************************************************************)
(* Theorems of PtyFacade for every value of its constants: the facade uses *)
(* the native session only as the session allows, so that the theorems of  *)
(* PtyExitProofs hold below it, and on top of them who acknowledges which  *)
(* batch, what an exit value promises and what a failure comes from.       *)
(***************************************************************************)
EXTENDS PtyFacade, PtyExitProofs

-----------------------------------------------------------------------------
(* Lemmas about Owns.  Retained batches are numbered upwards.               *)

Ascending(retained) ==
    \A i, j \in 1..Len(retained) :
        i < j => retained[i].sequence < retained[j].sequence

\* Owns, with the two halves of its set equality apart.
Queued(taken, callbacks) ==
    {n \in (taken + 1)..Len(callbacks) : callbacks[n].type = "OUTPUT"}
Unclaimed(waiting, retained) == (Len(waiting) + 1)..Len(retained)

TimersOwn(waiting, retained) ==
    /\ Len(waiting) <= Len(retained)
    /\ \A i \in 1..Len(waiting) : waiting[i] = Output(retained[i])
CallbacksOwn(waiting, taken, callbacks, retained) ==
    \A n \in Queued(taken, callbacks) :
        \E i \in Unclaimed(waiting, retained) : callbacks[n] = Output(retained[i])
BatchesOwned(waiting, taken, callbacks, retained) ==
    \A i \in Unclaimed(waiting, retained) :
        \E n \in Queued(taken, callbacks) : callbacks[n] = Output(retained[i])
QueueAscends(taken, callbacks) ==
    \A m, n \in Queued(taken, callbacks) :
        m < n => callbacks[m].sequence < callbacks[n].sequence

LEMMA OwnsParts ==
    ASSUME NEW waiting, NEW taken, NEW callbacks, NEW retained
    PROVE  Owns(waiting, taken, callbacks, retained) <=>
             /\ TimersOwn(waiting, retained)
             /\ CallbacksOwn(waiting, taken, callbacks, retained)
             /\ BatchesOwned(waiting, taken, callbacks, retained)
             /\ QueueAscends(taken, callbacks)
<1> DEFINE queued == Queued(taken, callbacks)
           unclaimed == Unclaimed(waiting, retained)
<1>1. {callbacks[n] : n \in queued} = {Output(retained[i]) : i \in unclaimed} <=>
          /\ \A n \in queued :
                \E i \in unclaimed : callbacks[n] = Output(retained[i])
          /\ \A i \in unclaimed :
                \E n \in queued : callbacks[n] = Output(retained[i])
  <2> DEFINE left == {callbacks[n] : n \in queued}
             right == {Output(retained[i]) : i \in unclaimed}
  <2> HIDE DEF queued, unclaimed
  <2>1. left \subseteq right <=>
            \A n \in queued :
                \E i \in unclaimed : callbacks[n] = Output(retained[i])
    OBVIOUS
  <2>2. right \subseteq left <=>
            \A i \in unclaimed :
                \E n \in queued : callbacks[n] = Output(retained[i])
    OBVIOUS
  <2>3. left = right <=> left \subseteq right /\ right \subseteq left
    <3> HIDE DEF left, right
    <3> QED OBVIOUS
  <2> QED BY <2>1, <2>2, <2>3
<1> QED BY <1>1 DEF Owns, TimersOwn, CallbacksOwn, BatchesOwned, QueueAscends,
                    Queued, Unclaimed

\* A callback without output changes no owner, before it is taken and after.
LEMMA OwnsAnnounced ==
    ASSUME NEW waiting, NEW taken \in Nat, NEW callbacks \in Seq(Event),
           NEW retained, NEW event \in Event, event.type # "OUTPUT",
           Owns(waiting, taken, callbacks, retained)
    PROVE  Owns(waiting, taken, Append(callbacks, event), retained)
<1> DEFINE more == Append(callbacks, event)
<1>1. /\ Len(callbacks) \in Nat /\ Len(more) = Len(callbacks) + 1
      /\ \A n \in 1..Len(callbacks) : more[n] = callbacks[n]
      /\ more[Len(callbacks) + 1] = event
  BY AppendProperties, LenProperties
<1> HIDE DEF more
<1>2. Queued(taken, more) = Queued(taken, callbacks)
  BY <1>1 DEF Queued
<1>3. \A n \in Queued(taken, callbacks) : more[n] = callbacks[n]
  BY <1>1 DEF Queued
<1>4. Owns(waiting, taken, more, retained)
  BY <1>2, <1>3, OwnsParts DEF CallbacksOwn, BatchesOwned, QueueAscends
<1> QED BY <1>4 DEF more

LEMMA OwnsSkipped ==
    ASSUME NEW waiting, NEW taken \in Nat, NEW callbacks \in Seq(Event),
           NEW retained, taken < Len(callbacks),
           callbacks[taken + 1].type # "OUTPUT",
           Owns(waiting, taken, callbacks, retained)
    PROVE  Owns(waiting, taken + 1, callbacks, retained)
<1>1. Len(callbacks) \in Nat
  BY LenProperties
<1>2. Queued(taken + 1, callbacks) = Queued(taken, callbacks)
  BY <1>1 DEF Queued
<1> QED BY <1>2, OwnsParts DEF CallbacksOwn, BatchesOwned, QueueAscends

\* A batch that is delivered is owned by its callback, the last of the queue.
LEMMA OwnsDelivered ==
    ASSUME NEW waiting \in Seq(Event), NEW taken \in Nat,
           NEW callbacks \in Seq(Event), taken <= Len(callbacks),
           NEW retained \in Seq(Batch), NEW batch \in Batch,
           \A i \in 1..Len(retained) : retained[i].sequence < batch.sequence,
           Owns(waiting, taken, callbacks, retained)
    PROVE  Owns(waiting, taken, Append(callbacks, Output(batch)),
                Append(retained, batch))
<1> DEFINE more == Append(callbacks, Output(batch))
           longer == Append(retained, batch)
           last == Len(callbacks) + 1
           new == Len(retained) + 1
<1>1. Output(batch) \in Event /\ Output(batch).type = "OUTPUT"
      /\ Output(batch).sequence = batch.sequence
  BY OutputTyped DEF Output
<1>2. /\ Len(callbacks) \in Nat /\ Len(more) = last
      /\ \A n \in 1..Len(callbacks) : more[n] = callbacks[n]
      /\ more[last] = Output(batch)
  BY <1>1, AppendProperties, LenProperties
<1>3. /\ Len(retained) \in Nat /\ Len(longer) = new /\ Len(waiting) \in Nat
      /\ \A i \in 1..Len(retained) : longer[i] = retained[i]
      /\ longer[new] = batch
  BY AppendProperties, LenProperties
<1> HIDE DEF more, longer
<1>4. /\ Queued(taken, more) = Queued(taken, callbacks) \cup {last}
      /\ \A n \in Queued(taken, callbacks) : more[n] = callbacks[n] /\ n < last
  BY <1>1, <1>2 DEF Queued
<1>5. Len(waiting) <= Len(retained)
  BY OwnsParts DEF TimersOwn
<1>6. /\ Unclaimed(waiting, longer) = Unclaimed(waiting, retained) \cup {new}
      /\ \A i \in Unclaimed(waiting, retained) : longer[i] = retained[i]
  BY <1>3, <1>5 DEF Unclaimed
<1>7. TimersOwn(waiting, longer)
  BY <1>3, OwnsParts DEF TimersOwn
<1>8. CallbacksOwn(waiting, taken, more, longer)
  BY <1>2, <1>3, <1>4, <1>6, OwnsParts DEF CallbacksOwn
<1>9. BatchesOwned(waiting, taken, more, longer)
  BY <1>2, <1>3, <1>4, <1>6, OwnsParts DEF BatchesOwned
<1>10. QueueAscends(taken, more)
  <2>1. ASSUME NEW n \in Queued(taken, callbacks)
        PROVE  more[n].sequence < batch.sequence
    <3>1. PICK i \in Unclaimed(waiting, retained) :
              callbacks[n] = Output(retained[i])
      BY OwnsParts DEF CallbacksOwn
    <3>2. i \in 1..Len(retained)
      BY <1>3 DEF Unclaimed
    <3>3. more[n].sequence = retained[i].sequence
      BY <1>4, <3>1 DEF Output
    <3> QED BY <3>2, <3>3
  <2>2. ASSUME NEW m \in Queued(taken, more), NEW n \in Queued(taken, more), m < n
        PROVE  more[m].sequence < more[n].sequence
    <3>1. m # last
      BY <1>2, <2>2 DEF Queued
    <3>2. m \in Queued(taken, callbacks)
      BY <1>4, <3>1
    <3>3. CASE n = last
      BY <1>1, <1>2, <2>1, <3>2, <3>3
    <3>4. CASE n \in Queued(taken, callbacks)
      <4>1. callbacks[m].sequence < callbacks[n].sequence
        BY <2>2, <3>2, <3>4, OwnsParts DEF QueueAscends
      <4> QED BY <1>4, <3>2, <3>4, <4>1
    <3> QED BY <1>4, <3>3, <3>4
  <2> QED BY <2>2 DEF QueueAscends
<1>11. Owns(waiting, taken, more, longer)
  BY <1>7, <1>8, <1>9, <1>10, OwnsParts
<1> QED BY <1>11 DEF more, longer

\* The next output callback carries the first batch that no timer acknowledges,
\* and taking it makes one more wait.
LEMMA OwnsClaimed ==
    ASSUME NEW waiting \in Seq(Event), NEW taken \in Nat,
           NEW callbacks \in Seq(Event), taken < Len(callbacks),
           NEW retained \in Seq(Batch), Ascending(retained),
           callbacks[taken + 1].type = "OUTPUT",
           Owns(waiting, taken, callbacks, retained)
    PROVE  /\ Len(waiting) < Len(retained)
           /\ callbacks[taken + 1] = Output(retained[Len(waiting) + 1])
           /\ Owns(Append(waiting, callbacks[taken + 1]), taken + 1, callbacks,
                   retained)
<1> DEFINE next == taken + 1
           first == Len(waiting) + 1
           more == Append(waiting, callbacks[next])
<1>1. /\ Len(callbacks) \in Nat /\ Len(retained) \in Nat /\ Len(waiting) \in Nat
      /\ next \in 1..Len(callbacks)
  BY LenProperties
<1>2. callbacks[next] \in Event
  BY <1>1, ElementOfSeq
<1>3. /\ Len(more) = first
      /\ \A i \in 1..Len(waiting) : more[i] = waiting[i]
      /\ more[first] = callbacks[next]
  BY <1>2, AppendProperties
<1> HIDE DEF more
<1>4. /\ Queued(taken, callbacks) = Queued(next, callbacks) \cup {next}
      /\ \A n \in Queued(next, callbacks) : next < n
  BY <1>1 DEF Queued
<1>5. PICK i \in Unclaimed(waiting, retained) :
          callbacks[next] = Output(retained[i])
  BY <1>4, OwnsParts DEF CallbacksOwn
<1>6. /\ i \in 1..Len(retained) /\ first \in 1..Len(retained)
      /\ first \in Unclaimed(waiting, retained) /\ first <= i
  BY <1>1, <1>5 DEF Unclaimed
<1>7. i = first
  <2> SUFFICES ASSUME first < i PROVE FALSE
    BY <1>1, <1>6
  <2>1. PICK n \in Queued(taken, callbacks) :
            callbacks[n] = Output(retained[first])
    BY <1>6, OwnsParts DEF BatchesOwned
  <2>2. retained[first].sequence < retained[i].sequence
    BY <1>6 DEF Ascending
  <2>3. /\ callbacks[n].sequence = retained[first].sequence
        /\ callbacks[next].sequence = retained[i].sequence
    BY <1>5, <2>1 DEF Output
  <2>4. /\ retained[first].sequence \in Nat /\ retained[i].sequence \in Nat
    <3>1. retained[first] \in Batch /\ retained[i] \in Batch
      BY <1>6, ElementOfSeq
    <3> QED BY <3>1 DEF Batch
  <2>5. n # next
    BY <2>2, <2>3, <2>4
  <2>6. callbacks[next].sequence < callbacks[n].sequence
    BY <1>4, <2>5, OwnsParts DEF QueueAscends
  <2> QED BY <2>2, <2>3, <2>4, <2>6
<1>8. callbacks[next] = Output(retained[first])
  BY <1>5, <1>7
<1>9. Unclaimed(waiting, retained) = Unclaimed(more, retained) \cup {first}
  BY <1>1, <1>3, <1>6 DEF Unclaimed
<1>10. TimersOwn(more, retained)
  BY <1>1, <1>3, <1>6, <1>8, OwnsParts DEF TimersOwn
<1>11. /\ \A n \in Queued(next, callbacks) :
             callbacks[n].sequence # callbacks[next].sequence
       /\ QueueAscends(next, callbacks)
  <2>1. ASSUME NEW n \in Queued(next, callbacks)
        PROVE  callbacks[n].sequence # callbacks[next].sequence
    <3>1. callbacks[next].sequence < callbacks[n].sequence
      BY <1>4, OwnsParts DEF QueueAscends
    <3>2. callbacks[next].sequence \in Nat
      BY <1>2 DEF Event
    <3> QED BY <3>1, <3>2
  <2> QED BY <1>4, <2>1, OwnsParts DEF QueueAscends
<1>12. CallbacksOwn(more, next, callbacks, retained)
  <2>1. ASSUME NEW n \in Queued(next, callbacks)
        PROVE  \E j \in Unclaimed(more, retained) :
                   callbacks[n] = Output(retained[j])
    <3>1. PICK j \in Unclaimed(waiting, retained) :
              callbacks[n] = Output(retained[j])
      BY <1>4, OwnsParts DEF CallbacksOwn
    <3>2. j # first
      BY <1>8, <1>11, <3>1
    <3> QED BY <1>9, <3>1, <3>2
  <2> QED BY <2>1 DEF CallbacksOwn
<1>13. BatchesOwned(more, next, callbacks, retained)
  <2>1. ASSUME NEW j \in Unclaimed(more, retained)
        PROVE  \E n \in Queued(next, callbacks) :
                   callbacks[n] = Output(retained[j])
    <3>1. PICK n \in Queued(taken, callbacks) :
              callbacks[n] = Output(retained[j])
      BY <1>9, OwnsParts DEF BatchesOwned
    <3>2. retained[first].sequence < retained[j].sequence
      <4>1. j \in 1..Len(retained) /\ first < j
        BY <1>1, <1>3 DEF Unclaimed
      <4> QED BY <1>6, <4>1 DEF Ascending
    <3>3. retained[first].sequence \in Nat
      <4>1. retained[first] \in Batch
        BY <1>6, ElementOfSeq
      <4> QED BY <4>1 DEF Batch
    <3>4. n # next
      BY <1>8, <3>1, <3>2, <3>3 DEF Output
    <3> QED BY <1>4, <3>1, <3>4
  <2> QED BY <2>1 DEF BatchesOwned
<1>14. Owns(more, next, callbacks, retained)
  BY <1>10, <1>11, <1>12, <1>13, OwnsParts
<1>15. Len(waiting) < Len(retained)
  BY <1>1, <1>6
<1> QED BY <1>8, <1>14, <1>15 DEF more

\* The first timer acknowledges the first batch, and both go.
LEMMA OwnsReturned ==
    ASSUME NEW waiting \in Seq(Event), waiting # <<>>,
           NEW taken \in Nat, NEW callbacks \in Seq(Event),
           NEW retained \in Seq(Batch),
           Owns(waiting, taken, callbacks, retained)
    PROVE  /\ retained # <<>> /\ Head(waiting) = Output(Head(retained))
           /\ Owns(Tail(waiting), taken, callbacks, Tail(retained))
<1> DEFINE fewer == Tail(waiting)
           shorter == Tail(retained)
<1>1. /\ Len(waiting) \in Nat \ {0} /\ Len(fewer) = Len(waiting) - 1
      /\ Head(waiting) = waiting[1]
      /\ \A i \in 1..Len(fewer) : fewer[i] = waiting[i + 1]
  BY HeadTailProperties, EmptySeq
<1>2. Len(waiting) <= Len(retained) /\ Len(retained) \in Nat
  BY LenProperties, OwnsParts DEF TimersOwn
<1>3. retained # <<>>
  BY <1>1, <1>2
<1>4. /\ Len(shorter) = Len(retained) - 1 /\ Head(retained) = retained[1]
      /\ \A i \in 1..Len(shorter) : shorter[i] = retained[i + 1]
  BY <1>3, HeadTailProperties
<1> HIDE DEF fewer, shorter
<1>5. Head(waiting) = Output(Head(retained))
  BY <1>1, <1>4, OwnsParts DEF TimersOwn
<1>6. TimersOwn(fewer, shorter)
  <2>1. ASSUME NEW i \in 1..Len(fewer)
        PROVE  fewer[i] = Output(shorter[i])
    <3>1. i + 1 \in 1..Len(waiting) /\ i \in 1..Len(shorter)
      BY <1>1, <1>2, <1>4
    <3>2. waiting[i + 1] = Output(retained[i + 1])
      BY <3>1, OwnsParts DEF TimersOwn
    <3> QED BY <1>1, <1>4, <3>1, <3>2
  <2> QED BY <1>1, <1>2, <1>4, <2>1 DEF TimersOwn
<1>7. CallbacksOwn(fewer, taken, callbacks, shorter)
  <2>1. ASSUME NEW n \in Queued(taken, callbacks)
        PROVE  \E i \in Unclaimed(fewer, shorter) :
                   callbacks[n] = Output(shorter[i])
    <3>1. PICK i \in Unclaimed(waiting, retained) :
              callbacks[n] = Output(retained[i])
      BY OwnsParts DEF CallbacksOwn
    <3>2. i - 1 \in Unclaimed(fewer, shorter) /\ i - 1 \in 1..Len(shorter)
      BY <1>1, <1>2, <1>4, <3>1 DEF Unclaimed
    <3>3. shorter[i - 1] = retained[i]
      BY <1>1, <1>4, <3>1, <3>2 DEF Unclaimed
    <3> QED BY <3>1, <3>2, <3>3
  <2> QED BY <2>1 DEF CallbacksOwn
<1>8. BatchesOwned(fewer, taken, callbacks, shorter)
  <2>1. ASSUME NEW i \in Unclaimed(fewer, shorter)
        PROVE  \E n \in Queued(taken, callbacks) :
                   callbacks[n] = Output(shorter[i])
    <3>1. /\ i + 1 \in Unclaimed(waiting, retained) /\ i \in 1..Len(shorter)
      BY <1>1, <1>2, <1>4 DEF Unclaimed
    <3>2. \E n \in Queued(taken, callbacks) :
              callbacks[n] = Output(retained[i + 1])
      BY <3>1, OwnsParts DEF BatchesOwned
    <3> QED BY <1>4, <3>1, <3>2
  <2> QED BY <2>1 DEF BatchesOwned
<1>9. Owns(fewer, taken, callbacks, shorter)
  BY <1>6, <1>7, <1>8, OwnsParts
<1> QED BY <1>3, <1>5, <1>9 DEF fewer, shorter

-----------------------------------------------------------------------------
(* The facade uses the native session only as the session allows.           *)

\* A step of the session that acknowledges nothing.
Unacknowledging ==
    ClientControl \/ Reactor \/ WaitFails \/ Environment \/ UNCHANGED vars

\* What the facade's callbacks and timers change.
bookVars == <<cursor, started, exit, finished, since_yield, timers, received>>

Beneath == StartProcess \/ Operate \/ Dispose \/ Native

LEMMA BeneathStep ==
    ASSUME Beneath \/ UNCHANGED allVars
    PROVE  /\ Unacknowledging /\ UNCHANGED bookVars
           /\ disposing' \in {disposing, TRUE}
           /\ handle_live' \in {handle_live, FALSE}
<1>1. CASE StartProcess
  BY <1>1 DEF StartProcess, Unacknowledging, ClientControl, facadeVars, bookVars
<1>2. CASE Operate
  BY <1>2 DEF Operate, Unacknowledging, ClientControl, facadeVars, bookVars
<1>3. CASE Dispose
  BY <1>3 DEF Dispose, Unacknowledging, ClientControl, bookVars
<1>4. CASE Native
  BY <1>4 DEF Native, Unacknowledging, facadeVars, bookVars
<1>5. CASE UNCHANGED allVars
  BY <1>5 DEF allVars, facadeVars, bookVars, Unacknowledging
<1> QED BY <1>1, <1>2, <1>3, <1>4, <1>5 DEF Beneath

\* An accepted acknowledgement is one the session counts on.
LEMMA AcknowledgeUse ==
    ASSUME Typed, NEW sequence, NEW length, Acknowledge(sequence, length)
    PROVE  AcknowledgeNext
<1>1. /\ outstanding \in Seq(Batch) /\ outstanding # <<>>
      /\ Head(outstanding).sequence = sequence
      /\ Head(outstanding).length = length
  BY DEF Acknowledge, AcknowledgeAccepted, Typed, ReadTyped
<1>2. 1 \in 1..Len(outstanding) /\ Head(outstanding) = outstanding[1]
  BY <1>1, EmptySeq
<1>3. outstanding[1] \in {outstanding[i] : i \in 1..Len(outstanding)}
  BY <1>2
<1>4. Acknowledge(outstanding[1].sequence, outstanding[1].length)
  BY <1>1, <1>2
<1> HIDE DEF Acknowledge
<1> QED BY <1>3, <1>4 DEF AcknowledgeNext

LEMMA SessionStep ==
    ASSUME Typed, [FacadeNext]_allVars
    PROVE  [Next]_vars
<1>1. CASE Beneath \/ UNCHANGED allVars
  BY <1>1, BeneathStep DEF Unacknowledging, Next
<1>2. ASSUME NEW batch, AcknowledgeOutput(batch)
      PROVE  [Next]_vars
  <2>1. \/ Acknowledge(batch.sequence, batch.length)
        \/ UNCHANGED vars
    BY <1>2 DEF AcknowledgeOutput
  <2> QED BY <2>1, AcknowledgeUse DEF Next
<1>3. CASE DropCallback \/ DidStart \/ DidExit \/ DidError
  BY <1>3 DEF DropCallback, DidStart, DidExit, DidError
<1>4. CASE DidOutput
  BY <1>2, <1>4 DEF DidOutput
<1>5. CASE RunTimer
  BY <1>2, <1>5 DEF RunTimer
<1> QED BY <1>1, <1>3, <1>4, <1>5 DEF FacadeNext, Isolate, Beneath

\* Whatever callbacks, timers and methods do, the session below is one of
\* PtySession, so every theorem about Spec holds under the facade.
THEOREM UsesSession == FacadeSpec => Spec
<1>1. FacadeInit => Init /\ Typed
  BY TypedInit DEF FacadeInit
<1>2. Typed /\ [FacadeNext]_allVars => Typed' /\ [Next]_vars
  BY SessionStep, TypedStep
<1> QED BY <1>1, <1>2, PTL DEF FacadeSpec, Spec

\* The callbacks and the retained batches grow together.
Announces ==
    /\ \E event \in Event : /\ event.type # "OUTPUT"
                            /\ events' = Append(events, event)
    /\ UNCHANGED <<outstanding, bytes_read>>
Delivers ==
    \E batch \in Batch :
        /\ batch.sequence = next_sequence /\ batch.from = bytes_read
        /\ bytes_read' = bytes_read + batch.length
        /\ events' = Append(events, Output(batch))
        /\ outstanding' = Append(outstanding, batch)

LEMMA StreamStep ==
    ASSUME Typed, Unacknowledging
    PROVE  \/ UNCHANGED <<events, outstanding, bytes_read>>
           \/ Announces
           \/ Delivers
<1>1. ASSUME NEW type \in {"STARTED", "EXIT", "ERROR"}
      PROVE  Lifecycle(type) \in Event /\ Lifecycle(type).type # "OUTPUT"
  BY DEF Lifecycle, Event, EventType
<1>2. CASE ClientControl \/ Environment \/ UNCHANGED vars
  BY <1>2 DEF ClientControl, Start, Resize, SendSignal, Post, Close, ForceClose,
              EnqueueWrite, Environment, Produce, ChildExits, ExternalReap,
              SlaveCloses, SlaveReopens, InputTaken, GraceExpires, vars, readVars
<1>3. CASE Spawn \/ TerminateAndReap
  <2>1. UNCHANGED <<outstanding, bytes_read>>
        /\ (events' = events \/ events' = Append(events, Lifecycle("ERROR")))
    BY <1>3 DEF Spawn, TerminateAndReap, FinishError, readVars
  <2> QED BY <1>1, <2>1 DEF Announces
<1>4. CASE CheckExec \/ ConfigureKqueue
  <2>1. UNCHANGED <<outstanding, bytes_read>>
        /\ (events' = events \/ events' = Append(events, Lifecycle("STARTED")))
    BY <1>4 DEF CheckExec, ConfigureKqueue, Prepare, readVars
  <2> QED BY <1>1, <2>1 DEF Announces
<1>5. CASE Decide
  <2>1. UNCHANGED <<outstanding, bytes_read>>
        /\ (events' = events \/ events' = Append(events, Lifecycle("EXIT")))
    BY <1>5 DEF Decide, readVars
  <2> QED BY <1>1, <2>1 DEF Announces
<1>6. CASE \/ Wait \/ WaitFails \/ Dispatch \/ ProcessControl \/ Retry \/ Reap
           \/ FlushWrites \/ ReadAfterEof \/ ReadPauses \/ ReadNothing \/ ReadFails
  BY <1>6 DEF Wait, WaitFails, Dispatch, ProcessControl, Retry, Reap,
              FlushWrites, FlushEnds, FlushBlocked, FlushChunk, ReadAfterEof,
              ReadPauses, ReadNothing, ReadFails, readVars
<1>7. ASSUME NEW length \in 1..ReadBatch, ReadBatchOf(length)
      PROVE  Delivers
  <2> DEFINE batch == [sequence |-> next_sequence, from |-> bytes_read,
                       length |-> length]
  <2>1. batch \in Batch
    BY BatchAssumption DEF Batch, Typed, ReadTyped
  <2>2. /\ events' = Append(events, Output(batch))
        /\ outstanding' = Append(outstanding, batch)
        /\ bytes_read' = bytes_read + length
    BY <1>7 DEF ReadBatchOf
  <2> QED BY <2>1, <2>2 DEF Delivers
<1> QED BY <1>2, <1>3, <1>4, <1>5, <1>6, <1>7
        DEF Unacknowledging, Reactor, ReadAvailable

-----------------------------------------------------------------------------
(* What was handed to the output stream, as a position of that stream: where *)
(* the first batch begins that no timer acknowledges.                       *)

Position(end, waiting, retained) ==
    IF Len(waiting) = Len(retained) THEN end
    ELSE retained[Len(waiting) + 1].from

LEMMA PositionDelivered ==
    ASSUME NEW waiting \in Seq(Event), NEW retained \in Seq(Batch),
           NEW batch \in Batch, Len(waiting) <= Len(retained), NEW end
    PROVE  Position(end, waiting, Append(retained, batch)) =
               IF Len(waiting) = Len(retained) THEN batch.from
               ELSE Position(end, waiting, retained)
<1> DEFINE longer == Append(retained, batch)
<1>1. /\ Len(retained) \in Nat /\ Len(longer) = Len(retained) + 1
      /\ \A i \in 1..Len(retained) : longer[i] = retained[i]
      /\ longer[Len(retained) + 1] = batch /\ Len(waiting) \in Nat
  BY AppendProperties, LenProperties
<1> HIDE DEF longer
<1>2. Position(end, waiting, longer) =
          IF Len(waiting) = Len(retained) THEN batch.from
          ELSE Position(end, waiting, retained)
  BY <1>1 DEF Position
<1> QED BY <1>2 DEF longer

LEMMA PositionClaimed ==
    ASSUME NEW waiting \in Seq(Event), NEW retained \in Seq(Batch),
           NEW event \in Event, Len(waiting) < Len(retained),
           NEW end, Contiguous(retained, end)
    PROVE  Position(end, Append(waiting, event), retained) =
               Position(end, waiting, retained) + retained[Len(waiting) + 1].length
<1> DEFINE more == Append(waiting, event)
           first == Len(waiting) + 1
<1>1. /\ Len(waiting) \in Nat /\ Len(retained) \in Nat /\ Len(more) = first
  BY AppendProperties, LenProperties
<1> HIDE DEF more
<1>2. Position(end, waiting, retained) = retained[first].from
  BY <1>1 DEF Position
<1>3. retained # <<>>
  BY <1>1, EmptySeq
<1>4. CASE first = Len(retained)
  <2>1. EndOf(retained[first]) = end
    BY <1>3, <1>4 DEF Contiguous
  <2> QED BY <1>1, <1>2, <1>4, <2>1 DEF Position, EndOf, more
<1>5. CASE first # Len(retained)
  <2>1. retained[first + 1].from = EndOf(retained[first])
    BY <1>1, <1>5 DEF Contiguous
  <2> QED BY <1>1, <1>2, <1>5, <2>1 DEF Position, EndOf, more
<1> QED BY <1>4, <1>5

LEMMA PositionReturned ==
    ASSUME NEW waiting \in Seq(Event), NEW retained \in Seq(Batch),
           waiting # <<>>, retained # <<>>, Len(waiting) <= Len(retained), NEW end
    PROVE  Position(end, Tail(waiting), Tail(retained)) =
               Position(end, waiting, retained)
<1>1. /\ Len(waiting) \in Nat \ {0} /\ Len(Tail(waiting)) = Len(waiting) - 1
      /\ Len(retained) \in Nat \ {0} /\ Len(Tail(retained)) = Len(retained) - 1
      /\ \A i \in 1..Len(Tail(retained)) : Tail(retained)[i] = retained[i + 1]
  BY HeadTailProperties, EmptySeq
<1>2. CASE Len(waiting) = Len(retained)
  BY <1>1, <1>2 DEF Position
<1>3. CASE Len(waiting) < Len(retained)
  <2>1. Len(waiting) \in 1..Len(Tail(retained))
    BY <1>1, <1>3
  <2> QED BY <1>1, <1>3, <2>1 DEF Position
<1>4. Len(waiting) = Len(retained) \/ Len(waiting) < Len(retained)
  <2>1. Len(waiting) \in Int /\ Len(retained) \in Int
    BY LenProperties
  <2> QED BY <2>1
<1> QED BY <1>2, <1>3, <1>4

-----------------------------------------------------------------------------
(* The types of the facade's own variables.                                 *)

FacadeTyped ==
    /\ cursor \in 0..Len(events)
    /\ started \in {"pending", "value", "error"}
    /\ exit \in {"pending", "value", "error"}
    /\ finished \in BOOLEAN /\ disposing \in BOOLEAN
    /\ since_yield \in Nat /\ (TurnMode => since_yield < TurnLimit)
    /\ timers \in Seq(Event)
    /\ received \in Nat /\ handle_live \in BOOLEAN

\* The futures of a step that may fail the process.
endVars == <<started, exit, finished, handle_live>>

\* What _didFail() does to a live process.
Fails ==
    /\ finished' = TRUE
    /\ handle_live' \in BOOLEAN /\ (handle_live' => handle_live)
    /\ started' = IF started = "pending" THEN "error" ELSE started
    /\ exit' = IF started # "pending" /\ exit = "pending" THEN "error" ELSE exit

LEMMA DidFailEffect ==
    ASSUME FacadeTyped, ~finished, DidFail
    PROVE  Fails
<1>1. handle_live' = (handle_live /\ ~CanDestroy)
  BY DEF DidFail, Destroy
<1>2. handle_live' \in BOOLEAN /\ (handle_live' => handle_live)
  BY <1>1
<1>3. /\ finished' = TRUE
      /\ started' = IF started = "pending" THEN "error" ELSE started
      /\ exit' = IF started # "pending" /\ exit = "pending" THEN "error" ELSE exit
  BY DEF DidFail
<1> QED BY <1>2, <1>3 DEF Fails

\* An acknowledgement of a live process is accepted or ends it.
LEMMA AcknowledgeEffect ==
    ASSUME FacadeTyped, NEW batch, ~finished, AcknowledgeOutput(batch)
    PROVE  \/ /\ Acknowledge(batch.sequence, batch.length)
              /\ UNCHANGED endVars
           \/ /\ ~AcknowledgeAccepted(batch.sequence, batch.length)
              /\ Fails /\ UNCHANGED vars
<1>1. CASE AcknowledgeAccepted(batch.sequence, batch.length)
  BY <1>1 DEF AcknowledgeOutput, endVars
<1>2. CASE ~AcknowledgeAccepted(batch.sequence, batch.length)
  BY <1>2, DidFailEffect DEF AcknowledgeOutput
<1> QED BY <1>1, <1>2

LEMMA AcknowledgeTyped ==
    ASSUME FacadeTyped, NEW batch, AcknowledgeOutput(batch)
    PROVE  /\ events' = events
           /\ started' \in {"pending", "value", "error"}
           /\ exit' \in {"pending", "value", "error"}
           /\ finished' \in BOOLEAN /\ handle_live' \in BOOLEAN
<1>1. CASE finished
  BY <1>1 DEF AcknowledgeOutput, FacadeTyped, vars
<1>2. CASE ~finished
  <2>1. events' = events
    BY <1>2, AcknowledgeEffect DEF Acknowledge, vars
  <2>2. UNCHANGED endVars \/ Fails
    BY <1>2, AcknowledgeEffect
  <2> QED BY <2>1, <2>2 DEF FacadeTyped, Fails, endVars
<1> QED BY <1>1, <1>2

\* The callback that _dispatchEvent() takes.
LEMMA CallbackTyped ==
    ASSUME Typed, FacadeTyped, cursor < Len(events)
    PROVE  /\ Callback \in Event /\ Callback.length \in Nat
           /\ Len(events) \in Nat /\ cursor \in Nat
           /\ cursor + 1 \in 1..Len(events)
<1>1. events \in Seq(Event) /\ Len(events) \in Nat
  BY LenProperties DEF Typed, EventsTyped
<1>2. cursor \in Nat /\ cursor + 1 \in 1..Len(events)
  BY <1>1 DEF FacadeTyped
<1>3. Callback \in Event
  BY <1>1, <1>2, ElementOfSeq DEF Callback
<1>4. Callback.length \in Nat
  BY <1>3 DEF Event
<1> QED BY <1>1, <1>2, <1>3, <1>4

LEMMA FacadeTypedStep ==
    ASSUME Typed, FacadeTyped, [FacadeNext]_allVars
    PROVE  FacadeTyped'
<1>1. events \in Seq(Event) /\ Len(events) \in Nat
  BY LenProperties DEF Typed, EventsTyped
<1>2. CASE Beneath \/ UNCHANGED allVars
  <2>1. /\ UNCHANGED bookVars /\ disposing' \in BOOLEAN
        /\ handle_live' \in BOOLEAN
    BY <1>2, BeneathStep DEF FacadeTyped
  <2>2. cursor' \in 0..Len(events')
    <3>1. events' = events \/ \E event \in Event : events' = Append(events, event)
      <4>1. \A batch \in Batch : Output(batch) \in Event
        BY OutputTyped
      <4> QED BY <1>2, <4>1, BeneathStep, StreamStep DEF Announces, Delivers
    <3>2. Len(events') = Len(events) \/ Len(events') = Len(events) + 1
      BY <1>1, <3>1, AppendProperties
    <3> QED BY <1>1, <2>1, <3>2 DEF FacadeTyped, bookVars
  <2> QED BY <2>1, <2>2 DEF FacadeTyped, bookVars
<1>3. CASE DropCallback
  BY <1>1, <1>3 DEF DropCallback, TakeCallback, FacadeTyped, vars
<1>4. CASE DidStart
  BY <1>1, <1>4 DEF DidStart, TakeCallback, FacadeTyped, vars
<1>5. CASE DidOutput
  <2>1. /\ cursor < Len(events) /\ cursor' = cursor + 1 /\ ~finished
        /\ received' = received + Callback.length /\ disposing' = disposing
    BY <1>5 DEF DidOutput, TakeCallback
  <2>2. Callback \in Event /\ Callback.length \in Nat
    BY <2>1, CallbackTyped
  <2>3. since_yield' \in Nat /\ (TurnMode => since_yield' < TurnLimit)
    <3>1. since_yield' = IF TurnMode /\ ~TurnIsFull THEN since_yield + 1 ELSE 0
      BY <1>5 DEF DidOutput
    <3> QED BY <3>1, BoundAssumption DEF FacadeTyped, TurnIsFull, TurnMode
  <2>4. timers' \in Seq(Event)
    <3>1. timers' = timers \/ timers' = Append(timers, Callback)
      BY <1>5 DEF DidOutput
    <3> QED BY <2>2, <3>1, AppendProperties DEF FacadeTyped
  <2>5. /\ events' = events
        /\ started' \in {"pending", "value", "error"}
        /\ exit' \in {"pending", "value", "error"}
        /\ finished' \in BOOLEAN /\ handle_live' \in BOOLEAN
    <3>1. AcknowledgeOutput(Callback) \/ UNCHANGED <<vars, finished, started, exit,
                                                    handle_live>>
      BY <1>5 DEF DidOutput
    <3>2. CASE AcknowledgeOutput(Callback)
      BY <3>2, AcknowledgeTyped
    <3>3. CASE UNCHANGED <<vars, finished, started, exit, handle_live>>
      BY <3>3 DEF vars, FacadeTyped
    <3> QED BY <3>1, <3>2, <3>3
  <2> QED BY <1>1, <2>1, <2>2, <2>3, <2>4, <2>5 DEF FacadeTyped
<1>6. CASE DidExit
  <2>1. /\ cursor < Len(events) /\ cursor' = cursor + 1 /\ ~finished
        /\ UNCHANGED <<events, disposing, since_yield, timers, received>>
    BY <1>6 DEF DidExit, TakeCallback, vars
  <2>2. /\ started' \in {"pending", "value", "error"}
        /\ exit' \in {"pending", "value", "error"}
        /\ finished' \in BOOLEAN /\ handle_live' \in BOOLEAN
    <3>1. CASE CanDestroy
      BY <1>6, <3>1 DEF DidExit, FacadeTyped
    <3>2. CASE ~CanDestroy
      <4>1. Fails
        BY <1>6, <2>1, <3>2, DidFailEffect DEF DidExit
      <4> QED BY <4>1 DEF Fails, FacadeTyped
    <3> QED BY <3>1, <3>2
  <2> QED BY <1>1, <2>1, <2>2 DEF FacadeTyped
<1>7. CASE DidError
  <2>1. /\ cursor < Len(events) /\ cursor' = cursor + 1 /\ ~finished /\ DidFail
        /\ UNCHANGED <<events, disposing, since_yield, timers, received>>
    BY <1>7 DEF DidError, TakeCallback, vars
  <2>2. Fails
    BY <2>1, DidFailEffect
  <2> QED BY <1>1, <2>1, <2>2 DEF FacadeTyped, Fails
<1>8. CASE RunTimer
  <2>1. /\ timers # <<>> /\ timers' = Tail(timers)
        /\ AcknowledgeOutput(Head(timers))
        /\ UNCHANGED <<cursor, disposing, since_yield, received>>
    BY <1>8 DEF RunTimer
  <2>2. timers' \in Seq(Event)
    BY <2>1, HeadTailProperties DEF FacadeTyped
  <2> QED BY <2>1, <2>2, AcknowledgeTyped DEF FacadeTyped
<1> QED BY <1>2, <1>3, <1>4, <1>5, <1>6, <1>7, <1>8
        DEF FacadeNext, Isolate, Beneath

-----------------------------------------------------------------------------
(* Who acknowledges what, and how much was received.                        *)

Accounted ==
    ~finished => /\ Owns(timers, cursor, events, outstanding)
                 /\ received = Position(bytes_read, timers, outstanding)

LEMMA Numbered ==
    ASSUME Inv
    PROVE  /\ outstanding \in Seq(Batch) /\ bytes_read \in Nat
           /\ Ascending(outstanding) /\ Contiguous(outstanding, bytes_read)
           /\ \A i \in 1..Len(outstanding) :
                 outstanding[i].sequence < next_sequence
<1>1. /\ outstanding \in Seq(Batch) /\ next_sequence \in Nat
      /\ bytes_read \in Nat /\ Len(outstanding) \in Nat
  BY LenProperties DEF Inv, Typed, ReadTyped
<1>2. /\ Contiguous(outstanding, bytes_read)
      /\ \A i \in 1..Len(outstanding) :
            outstanding[i].sequence = next_sequence - Len(outstanding) + i - 1
  BY DEF Inv, Credit, CreditConserved, BatchesContiguous
<1>3. \A i \in 1..Len(outstanding) : outstanding[i].sequence < next_sequence
  BY <1>1, <1>2
<1>4. Ascending(outstanding)
  BY <1>1, <1>2 DEF Ascending
<1> QED BY <1>1, <1>2, <1>3, <1>4

\* The bytes of the callback taken next are those behind what was received.
LEMMA TakeOutput ==
    ASSUME Inv, FacadeTyped, Accounted, ~finished, cursor < Len(events),
           Callback.type = "OUTPUT"
    PROVE  /\ Len(timers) < Len(outstanding)
           /\ Callback = Output(outstanding[Len(timers) + 1])
           /\ Owns(Append(timers, Callback), cursor + 1, events, outstanding)
           /\ received + Callback.length =
                 Position(bytes_read, Append(timers, Callback), outstanding)
<1>1. /\ timers \in Seq(Event) /\ cursor \in Nat /\ events \in Seq(Event)
      /\ Callback \in Event
  BY CallbackTyped DEF Inv, FacadeTyped, Typed, EventsTyped
<1>2. /\ outstanding \in Seq(Batch) /\ Ascending(outstanding)
      /\ Contiguous(outstanding, bytes_read)
  BY Numbered
<1>3. /\ Owns(timers, cursor, events, outstanding)
      /\ received = Position(bytes_read, timers, outstanding)
  BY DEF Accounted
<1>4. /\ Len(timers) < Len(outstanding)
      /\ Callback = Output(outstanding[Len(timers) + 1])
      /\ Owns(Append(timers, Callback), cursor + 1, events, outstanding)
  BY <1>1, <1>2, <1>3, OwnsClaimed DEF Callback
<1>5. Callback.length = outstanding[Len(timers) + 1].length
  BY <1>4 DEF Output
<1>6. Position(bytes_read, Append(timers, Callback), outstanding) =
          Position(bytes_read, timers, outstanding)
              + outstanding[Len(timers) + 1].length
  BY <1>1, <1>2, <1>4, PositionClaimed
<1> QED BY <1>3, <1>4, <1>5, <1>6

\* The acknowledgement of the first of `waiting`.
LEMMA ReturnCredit ==
    ASSUME Inv, NEW waiting \in Seq(Event), waiting # <<>>, NEW taken \in Nat,
           NEW sequence, NEW length, Acknowledge(sequence, length),
           Owns(waiting, taken, events, outstanding)
    PROVE  /\ Owns(Tail(waiting), taken, events', outstanding')
           /\ Position(bytes_read', Tail(waiting), outstanding') =
                 Position(bytes_read, waiting, outstanding)
<1>1. /\ outstanding \in Seq(Batch) /\ events \in Seq(Event)
  BY Numbered DEF Inv, Typed, EventsTyped
<1>2. /\ outstanding' = Tail(outstanding) /\ events' = events
      /\ bytes_read' = bytes_read
  BY DEF Acknowledge
<1>3. outstanding # <<>> /\ Owns(Tail(waiting), taken, events, Tail(outstanding))
  BY <1>1, OwnsReturned
<1>4. Len(waiting) <= Len(outstanding)
  BY OwnsParts DEF TimersOwn
<1> QED BY <1>1, <1>2, <1>3, <1>4, PositionReturned

LEMMA AccountedStep ==
    ASSUME Inv, FacadeTyped, Accounted, [FacadeNext]_allVars
    PROVE  Accounted'
<1>1. /\ timers \in Seq(Event) /\ cursor \in Nat /\ events \in Seq(Event)
      /\ outstanding \in Seq(Batch) /\ cursor <= Len(events)
      /\ finished \in BOOLEAN
  <2>1. Len(events) \in Nat
    BY LenProperties DEF Inv, Typed, EventsTyped
  <2> QED BY <2>1, Numbered DEF Inv, FacadeTyped, Typed, EventsTyped
<1>2. CASE finished
  <2>1. finished'
    <3>1. CASE Beneath \/ UNCHANGED allVars
      BY <1>2, <3>1, BeneathStep DEF bookVars
    <3>2. CASE DropCallback
      BY <1>2, <3>2 DEF DropCallback
    <3>3. CASE RunTimer
      BY <1>2, <3>3 DEF RunTimer, AcknowledgeOutput
    <3>4. CASE DidStart \/ DidOutput \/ DidExit \/ DidError
      BY <1>2, <3>4 DEF DidStart, DidOutput, DidExit, DidError
    <3> QED BY <3>1, <3>2, <3>3, <3>4 DEF FacadeNext, Isolate, Beneath
  <2> QED BY <2>1 DEF Accounted
<1>3. CASE ~finished
  <2>0. /\ Owns(timers, cursor, events, outstanding)
        /\ received = Position(bytes_read, timers, outstanding)
    BY <1>3 DEF Accounted
  <2>1. CASE Beneath \/ UNCHANGED allVars
    <3>1. Unacknowledging /\ UNCHANGED bookVars
      BY <2>1, BeneathStep
    <3>2. CASE UNCHANGED <<events, outstanding, bytes_read>>
      BY <2>0, <3>1, <3>2 DEF Accounted, bookVars
    <3>3. CASE Announces
      <4>1. Owns(timers, cursor, events', outstanding')
        BY <1>1, <2>0, <3>3, OwnsAnnounced DEF Announces
      <4> QED BY <2>0, <3>1, <3>3, <4>1 DEF Accounted, bookVars, Announces
    <3>4. CASE Delivers
      <4>1. PICK batch \in Batch :
               /\ batch.sequence = next_sequence /\ batch.from = bytes_read
               /\ bytes_read' = bytes_read + batch.length
               /\ events' = Append(events, Output(batch))
               /\ outstanding' = Append(outstanding, batch)
        BY <3>4 DEF Delivers
      <4>2. \A i \in 1..Len(outstanding) :
                outstanding[i].sequence < batch.sequence
        BY <4>1, Numbered
      <4>3. Owns(timers, cursor, events', outstanding')
        BY <1>1, <2>0, <4>1, <4>2, OwnsDelivered
      <4>4. Position(bytes_read', timers, outstanding') =
                Position(bytes_read, timers, outstanding)
        <5>1. Len(timers) <= Len(outstanding)
          BY <2>0, OwnsParts DEF TimersOwn
        <5>2. Len(timers) = Len(outstanding) =>
                  Position(bytes_read, timers, outstanding) = batch.from
          BY <4>1 DEF Position
        <5>3. Len(timers) # Len(outstanding) =>
                  Position(bytes_read', timers, outstanding) =
                      Position(bytes_read, timers, outstanding)
          BY DEF Position
        <5> QED BY <1>1, <4>1, <5>1, <5>2, <5>3, PositionDelivered
      <4> QED BY <2>0, <3>1, <4>3, <4>4 DEF Accounted, bookVars
    <3> QED BY <3>1, <3>2, <3>3, <3>4, StreamStep DEF Inv
  <2>2. CASE DropCallback
    BY <1>3, <2>2 DEF DropCallback
  <2>3. CASE DidStart
    <3>1. /\ cursor < Len(events) /\ events[cursor + 1].type # "OUTPUT"
          /\ cursor' = cursor + 1
          /\ UNCHANGED <<events, outstanding, bytes_read, finished, timers, received>>
      BY <2>3 DEF DidStart, TakeCallback, Callback, vars, readVars
    <3>2. Owns(timers, cursor + 1, events, outstanding)
      BY <1>1, <2>0, <3>1, OwnsSkipped
    <3> QED BY <2>0, <3>1, <3>2 DEF Accounted
  <2>4. CASE DidExit \/ DidError
    <3>1. finished'
      BY <1>3, <2>4, DidFailEffect DEF DidExit, DidError, Fails
    <3> QED BY <3>1 DEF Accounted
  <2>5. CASE DidOutput
    <3>1. /\ cursor < Len(events) /\ Callback.type = "OUTPUT"
          /\ cursor' = cursor + 1 /\ received' = received + Callback.length
      BY <2>5 DEF DidOutput, TakeCallback
    <3>2. /\ Callback = Output(outstanding[Len(timers) + 1])
          /\ Owns(Append(timers, Callback), cursor + 1, events, outstanding)
          /\ received' = Position(bytes_read, Append(timers, Callback), outstanding)
          /\ Len(timers) < Len(outstanding)
      BY <1>3, <3>1, TakeOutput
    <3>3. CASE TurnIsFull
      <4>1. timers' = Append(timers, Callback)
            /\ UNCHANGED <<events, outstanding, bytes_read>>
        BY <2>5, <3>3 DEF DidOutput, vars, readVars
      <4> QED BY <3>1, <3>2, <4>1 DEF Accounted
    <3>4. CASE ~TurnIsFull
      <4>1. timers' = timers /\ AcknowledgeOutput(Callback)
        BY <2>5, <3>4 DEF DidOutput
      <4>2. CASE Fails
        BY <4>2 DEF Fails, Accounted
      <4>3. CASE Acknowledge(Callback.sequence, Callback.length)
        <5>1. /\ Len(timers) \in Nat /\ Len(outstanding) \in Nat
              /\ Callback \in Event
          BY <1>1, <3>1, CallbackTyped, LenProperties DEF Inv
        <5>2. timers = <<>>
          <6> SUFFICES ASSUME timers # <<>> PROVE FALSE
            OBVIOUS
          <6>1. /\ 1 \in 1..Len(outstanding)
                /\ Len(timers) + 1 \in 1..Len(outstanding)
                /\ 1 < Len(timers) + 1
            BY <1>1, <3>2, <5>1, EmptySeq
          <6>2. outstanding[1].sequence < outstanding[Len(timers) + 1].sequence
            BY <6>1, Numbered DEF Ascending
          <6>3. outstanding[1].sequence = Callback.sequence
            BY <1>1, <4>3, <6>1 DEF Acknowledge, AcknowledgeAccepted
          <6>4. Callback.sequence = outstanding[Len(timers) + 1].sequence
            BY <3>2 DEF Output
          <6>5. Callback.sequence \in Nat
            BY <5>1 DEF Event
          <6> QED BY <6>2, <6>3, <6>4, <6>5
        <5>3. /\ Append(timers, Callback) \in Seq(Event)
              /\ Append(timers, Callback) # <<>>
              /\ Tail(Append(timers, Callback)) = timers
          BY <1>1, <5>1, <5>2, AppendProperties, HeadTailAppend
        <5>4. cursor + 1 \in Nat
          BY <1>1
        <5> QED BY <3>1, <3>2, <4>1, <4>3, <5>3, <5>4, ReturnCredit DEF
                Accounted
      <4> QED BY <1>3, <4>1, <4>2, <4>3, AcknowledgeEffect
    <3> QED BY <3>3, <3>4
  <2>6. CASE RunTimer
    <3>1. /\ timers # <<>> /\ timers' = Tail(timers)
          /\ AcknowledgeOutput(Head(timers)) /\ UNCHANGED <<cursor, received>>
      BY <2>6 DEF RunTimer
    <3>2. CASE Fails
      BY <3>2 DEF Fails, Accounted
    <3>3. CASE Acknowledge(Head(timers).sequence, Head(timers).length)
      <4> HIDE DEF Acknowledge
      <4> QED BY <1>1, <2>0, <3>1, <3>3, ReturnCredit DEF Accounted
    <3> QED BY <1>3, <3>1, <3>2, <3>3, AcknowledgeEffect
  <2> QED BY <2>1, <2>2, <2>3, <2>4, <2>5, <2>6
          DEF FacadeNext, Isolate, Beneath
<1> QED BY <1>1, <1>2, <1>3

-----------------------------------------------------------------------------
(* What an exit value promises, and what a failure comes from.              *)

ValueIsComplete ==
    exit = "value" => /\ finished /\ Ended("EXIT")
                      /\ received = bytes_read /\ timers = <<>> /\ ~handle_live
                      /\ truncated \/ received = produced

\* A callback that was made stays made.
LEMMA EndedKept ==
    ASSUME Typed, [Next]_vars, NEW type, Ended(type)
    PROVE  Ended(type)'
<1>1. events \in Seq(Event)
  BY DEF Typed, EventsTyped
<1>2. \/ events' = events
      \/ \E event \in Event : events' = Append(events, event)
  <2>1. CASE AcknowledgeNext
    BY <2>1 DEF AcknowledgeNext, Acknowledge
  <2>2. CASE Unacknowledging
    <3>1. \A batch \in Batch : Output(batch) \in Event
      BY OutputTyped
    <3> QED BY <2>2, <3>1, StreamStep DEF Announces, Delivers
  <2> QED BY <2>1, <2>2 DEF Next, Unacknowledging
<1>3. PICK i \in 1..Len(events) : events[i].type = type
  BY DEF Ended
<1>4. i \in 1..Len(events') /\ events'[i] = events[i]
  BY <1>1, <1>2, AppendProperties, LenProperties
<1> QED BY <1>3, <1>4 DEF Ended

\* Nothing is read behind the end of file, nothing is written to a terminal that
\* is closed, and a stream that was cut stays so.
LEMMA StreamOver ==
    ASSUME Typed, master_eof, Unacknowledging
    PROVE  /\ bytes_read' = bytes_read
           /\ ~slave_open => produced' = produced
           /\ truncated => truncated'
<1>0. truncated \in BOOLEAN /\ slave_open \in BOOLEAN
  BY DEF Typed, ReadTyped, KernelTyped
<1> DEFINE still == UNCHANGED <<bytes_read, produced, truncated>>
<1>1. CASE ClientControl
  <2>1. still
    BY <1>1 DEF ClientControl, Start, Resize, SendSignal, Post, Close, ForceClose,
                EnqueueWrite, readVars, kernelVars
  <2> QED BY <2>1
<1>2. CASE Environment
  <2>1. CASE Produce
    BY <2>1 DEF Produce, readVars
  <2>2. CASE SlaveReopens
    BY <1>0, <2>2 DEF SlaveReopens
  <2>3. CASE \/ ChildExits \/ ExternalReap \/ GraceExpires \/ SlaveCloses
             \/ InputTaken
    <3>1. still
      BY <2>3 DEF ChildExits, ExternalReap, GraceExpires, SlaveCloses, InputTaken,
                  readVars, kernelVars
    <3> QED BY <3>1
  <2> QED BY <1>2, <2>1, <2>2, <2>3 DEF Environment
<1>3. CASE ReadAvailable \/ FlushWrites
  <2>1. ReadAfterEof \/ FlushWrites
    BY <1>3 DEF ReadAvailable, ReadPauses, ReadNothing, ReadFails, ReadBatchOf
  <2>2. still
    BY <2>1 DEF ReadAfterEof, FlushWrites, FlushEnds, FlushBlocked, FlushChunk,
                readVars, kernelVars
  <2> QED BY <2>2
<1>4. CASE Reactor \/ WaitFails
  <2>1. CASE ReadAvailable \/ FlushWrites
    BY <1>3, <2>1
  <2>2. CASE \/ Spawn \/ CheckExec \/ ConfigureKqueue \/ TerminateAndReap
             \/ Wait \/ WaitFails \/ Dispatch \/ ProcessControl \/ Retry
             \/ Reap \/ Decide
    <3>1. still
      BY <2>2 DEF Spawn, CheckExec, ConfigureKqueue, Prepare, TerminateAndReap,
                  Wait, WaitFails, Dispatch, ProcessControl, Retry, Reap, Decide,
                  readVars, kernelVars
    <3> QED BY <3>1
  <2> QED BY <1>4, <2>1, <2>2 DEF Reactor
<1>5. CASE UNCHANGED vars
  BY <1>5 DEF vars, readVars, kernelVars
<1> QED BY <1>1, <1>2, <1>4, <1>5 DEF Unacknowledging

\* The callback of an exit finds a session that can be destroyed.
LEMMA ExitCallback ==
    ASSUME ExitInv, FacadeTyped, cursor < Len(events), Callback.type = "EXIT"
    PROVE  Ended("EXIT") /\ CanDestroy /\ (truncated \/ bytes_read = produced)
<1>1. Ended("EXIT")
  BY CallbackTyped DEF ExitInv, Inv, Ended, Callback
<1> QED BY <1>1 DEF ExitInv, Settled, EofIsFinal, CanDestroy

\* An exit value appears at an EXIT callback only, and then nothing moves.
LEMMA ValueStep ==
    ASSUME ExitInv, FacadeTyped, Accounted, ValueIsComplete, [FacadeNext]_allVars
    PROVE  ValueIsComplete'
<1>1. Typed /\ Inv /\ [Next]_vars
  BY SessionStep DEF ExitInv, Inv
<1>2. CASE exit = "value"
  <2>1. /\ finished /\ Ended("EXIT") /\ received = bytes_read /\ timers = <<>>
        /\ ~handle_live /\ (truncated \/ received = produced)
    BY <1>2 DEF ValueIsComplete
  <2>2. Ended("EXIT")'
    BY <1>1, <2>1, EndedKept
  <2>3. CASE Beneath \/ UNCHANGED allVars
    <3>1. master_eof /\ (truncated \/ ~slave_open)
      BY <2>1 DEF ExitInv, Settled, EofIsFinal
    <3>2. Unacknowledging /\ UNCHANGED bookVars /\ ~handle_live'
      <4>1. handle_live = FALSE
        BY <2>1 DEF FacadeTyped
      <4> QED BY <2>3, <4>1, BeneathStep
    <3>3. bytes_read' = bytes_read /\ (truncated' \/ received = produced')
      BY <1>1, <2>1, <3>1, <3>2, StreamOver
    <3> QED BY <2>1, <2>2, <3>2, <3>3 DEF bookVars, ValueIsComplete
  <2>4. CASE DropCallback
    BY <2>1, <2>2, <2>4
       DEF DropCallback, ValueIsComplete, vars, readVars, kernelVars
  <2>5. ~(DidStart \/ DidOutput \/ DidExit \/ DidError \/ RunTimer)
    BY <2>1 DEF DidStart, DidOutput, DidExit, DidError, RunTimer
  <2> QED BY <2>3, <2>4, <2>5 DEF FacadeNext, Isolate, Beneath
<1>3. CASE exit # "value"
  <2>1. ASSUME UNCHANGED endVars \/ Fails PROVE ValueIsComplete'
    BY <1>3, <2>1 DEF endVars, Fails, ValueIsComplete
  <2>2. CASE Beneath \/ UNCHANGED allVars
    BY <1>3, <2>2, BeneathStep DEF bookVars, ValueIsComplete
  <2>3. CASE DropCallback
    BY <2>1, <2>3 DEF DropCallback, endVars
  <2>4. CASE DidStart
    BY <1>3, <2>4 DEF DidStart, ValueIsComplete
  <2>5. ASSUME NEW batch, AcknowledgeOutput(batch) PROVE ValueIsComplete'
    <3>1. CASE finished
      BY <2>1, <2>5, <3>1 DEF AcknowledgeOutput, endVars
    <3>2. CASE ~finished
      BY <2>1, <2>5, <3>2, AcknowledgeEffect
    <3> QED BY <3>1, <3>2 DEF FacadeTyped
  <2>6. CASE DidOutput
    BY <2>1, <2>5, <2>6 DEF DidOutput, endVars
  <2>7. CASE RunTimer
    BY <2>5, <2>7 DEF RunTimer
  <2>8. CASE DidError
    BY <2>1, <2>8, DidFailEffect DEF DidError
  <2>9. CASE DidExit
    <3>1. /\ cursor < Len(events) /\ ~finished /\ Callback.type = "EXIT"
          /\ UNCHANGED <<vars, timers, received>>
      BY <2>9 DEF DidExit, TakeCallback
    <3>2. Ended("EXIT") /\ CanDestroy /\ (truncated \/ bytes_read = produced)
      BY <3>1, ExitCallback
    <3>3. finished' = TRUE /\ handle_live' = FALSE
      BY <2>9, <3>2 DEF DidExit
    <3>4. /\ Owns(timers, cursor, events, outstanding) /\ outstanding = <<>>
          /\ received = Position(bytes_read, timers, outstanding)
      BY <3>1, <3>2 DEF Accounted, CanDestroy
    <3>5. timers = <<>> /\ Len(timers) = Len(outstanding)
      <4>1. Len(timers) <= 0 /\ Len(timers) \in Nat /\ timers \in Seq(Event)
        BY <3>4, OwnsParts, EmptySeq, LenProperties DEF TimersOwn, FacadeTyped
      <4> QED BY <3>4, <4>1, EmptySeq
    <3>6. received = bytes_read /\ (truncated \/ received = produced)
      BY <3>2, <3>4, <3>5 DEF Position
    <3>7. Ended("EXIT")'
      BY <1>1, <3>2, EndedKept
    <3>8. UNCHANGED <<produced, bytes_read, truncated>>
      BY <3>1 DEF vars, readVars, kernelVars
    <3> QED BY <3>1, <3>3, <3>5, <3>6, <3>7, <3>8 DEF ValueIsComplete
  <2> QED BY <2>2, <2>3, <2>4, <2>6, <2>7, <2>8, <2>9
          DEF FacadeNext, Isolate, Beneath
<1> QED BY <1>2, <1>3

FacadeInv == ExitInv /\ FacadeTyped /\ Accounted /\ ValueIsComplete

\* The types, the owners of the credit and the promise of an exit value are
\* inductive over the invariant of the session.
THEOREM FacadeInductive == FacadeSpec => []FacadeInv
<1>1. FacadeInit => FacadeTyped /\ Accounted /\ ValueIsComplete
  <2> SUFFICES ASSUME FacadeInit
               PROVE  FacadeTyped /\ Accounted /\ ValueIsComplete
    OBVIOUS
  <2>1. FacadeTyped
    <3>1. /\ events = <<>> /\ timers = <<>> /\ cursor = 0 /\ since_yield = 0
          /\ started = "pending" /\ exit = "pending" /\ received = 0
          /\ finished = FALSE /\ disposing = FALSE /\ handle_live = TRUE
      BY DEF FacadeInit, Init
    <3>2. timers \in Seq(Event) /\ Len(events) = 0
      BY <3>1, EmptySeq
    <3>3. TurnMode => 0 < TurnLimit
      BY BoundAssumption DEF TurnMode
    <3>4. cursor \in 0..Len(events)
      BY <3>1, <3>2
    <3>5. since_yield \in Nat /\ (TurnMode => since_yield < TurnLimit)
      BY <3>1, <3>3
    <3>6. /\ started \in {"pending", "value", "error"}
          /\ exit \in {"pending", "value", "error"} /\ received \in Nat
          /\ finished \in BOOLEAN /\ disposing \in BOOLEAN
          /\ handle_live \in BOOLEAN
      BY <3>1
    <3> QED BY <3>2, <3>4, <3>5, <3>6 DEF FacadeTyped
  <2>2. Accounted
    BY EmptySeq DEF FacadeInit, Init, Accounted, Owns, Position
  <2>3. ValueIsComplete
    BY DEF FacadeInit, ValueIsComplete
  <2> QED BY <2>1, <2>2, <2>3
<1>2. /\ ExitInv /\ FacadeTyped /\ Accounted /\ ValueIsComplete
      /\ [FacadeNext]_allVars
      => FacadeTyped' /\ Accounted' /\ ValueIsComplete'
  BY FacadeTypedStep, AccountedStep, ValueStep DEF ExitInv, Inv
<1> QED BY <1>1, <1>2, UsesSession, ExitInductive, PTL DEF FacadeSpec, FacadeInv

\* Every reachable state of the process and its session is well typed; the batch
\* counter of an event turn stays below its limit.
THEOREM FacadeTypeCorrect == FacadeSpec => []FacadeTypeOK
<1>1. FacadeInv /\ TypeOK => FacadeTypeOK
  BY DEF FacadeInv, FacadeTyped, FacadeTypeOK
<1> QED BY <1>1, FacadeInductive, UsesSession, TypeCorrect, PTL

\* No credit is lost and none is returned twice, across timers, queued callbacks
\* and whatever the reactor reads meanwhile.
THEOREM OwnerSafe == FacadeSpec => []CreditHasOwner
<1>1. FacadeInv => CreditHasOwner
  BY DEF FacadeInv, Accounted, CreditHasOwner
<1> QED BY <1>1, FacadeInductive, PTL

\* An exit value is behind all output that was read and the release of the
\* native session, and nothing is left unread unless the stream was cut.
THEOREM DeliverySafe == FacadeSpec => []ExitDeliversAll
<1>1. FacadeInv => ExitDeliversAll
  BY DEF FacadeInv, ValueIsComplete, ExitDeliversAll
<1> QED BY <1>1, FacadeInductive, PTL

-----------------------------------------------------------------------------
(* What a failure comes from.                                               *)

\* The one cause of a failure beside an ERROR callback: a batch acknowledged at
\* once while an earlier one still waits in a timer.
Overtakes ==
    /\ DidOutput /\ ~TurnIsFull /\ timers # <<>>
    /\ Len(timers) < Len(outstanding)

\* Acknowledging the first retained batch is accepted.
LEMMA FirstAccepted ==
    ASSUME NEW retained \in Seq(Batch), retained # <<>>, outstanding = retained,
           NEW batch, batch = Output(Head(retained))
    PROVE  AcknowledgeAccepted(batch.sequence, batch.length)
<1>1. /\ batch.sequence = Head(outstanding).sequence
      /\ batch.length = Head(outstanding).length
  BY DEF Output
<1> QED BY <1>1 DEF AcknowledgeAccepted

\* A timer's acknowledgement is always accepted.
LEMMA TimerAccepted ==
    ASSUME FacadeInv, ~finished, timers # <<>>
    PROVE  AcknowledgeAccepted(Head(timers).sequence, Head(timers).length)
<1>1. /\ timers \in Seq(Event) /\ cursor \in Nat /\ events \in Seq(Event)
      /\ outstanding \in Seq(Batch)
  <2>1. cursor \in 0..Len(events) /\ timers \in Seq(Event)
    BY DEF FacadeInv, FacadeTyped
  <2>2. events \in Seq(Event) /\ outstanding \in Seq(Batch)
    BY DEF FacadeInv, ExitInv, Inv, Typed, EventsTyped, ReadTyped
  <2> QED BY <2>1, <2>2, LenProperties
<1>2. Owns(timers, cursor, events, outstanding)
  BY DEF FacadeInv, Accounted
<1>3. outstanding # <<>> /\ Head(timers) = Output(Head(outstanding))
  BY <1>1, <1>2, OwnsReturned
<1> QED BY <1>1, <1>3, FirstAccepted

\* Without a waiting timer, so is that of a callback.
LEMMA CallbackAccepted ==
    ASSUME FacadeInv, ~finished, cursor < Len(events),
           Callback.type = "OUTPUT", timers = <<>>
    PROVE  AcknowledgeAccepted(Callback.sequence, Callback.length)
<1>1. Inv /\ FacadeTyped /\ Accounted
  BY DEF FacadeInv, ExitInv
<1>2. /\ Len(timers) < Len(outstanding)
      /\ Callback = Output(outstanding[Len(timers) + 1])
  BY <1>1, TakeOutput
<1>3. Len(timers) = 0 /\ outstanding \in Seq(Batch)
  BY <1>1, Numbered
<1>4. outstanding # <<>> /\ Head(outstanding) = outstanding[1]
  BY <1>2, <1>3, HeadTailProperties, EmptySeq
<1>5. Callback = Output(Head(outstanding))
  BY <1>2, <1>3, <1>4
<1> QED BY <1>3, <1>4, <1>5, FirstAccepted

LEMMA FailureCause ==
    ASSUME FacadeInv, [FacadeNext]_allVars, exit # "error", exit' = "error"
    PROVE  Ended("ERROR") \/ Overtakes
<1>1. FacadeTyped /\ Inv /\ Typed /\ Accounted
  BY DEF FacadeInv, ExitInv, Inv
<1>2. ~(Beneath \/ UNCHANGED allVars)
  BY BeneathStep DEF bookVars
<1>3. ~(DropCallback \/ DidStart)
  BY DEF DropCallback, DidStart
<1>4. ASSUME NEW batch, AcknowledgeOutput(batch)
      PROVE  ~finished /\ ~AcknowledgeAccepted(batch.sequence, batch.length)
  BY <1>4 DEF AcknowledgeOutput
<1>5. CASE DidError
  <2>1. cursor + 1 \in 1..Len(events) /\ events[cursor + 1].type = "ERROR"
    BY <1>1, <1>5, CallbackTyped DEF DidError, TakeCallback, Callback
  <2> QED BY <2>1 DEF Ended
<1>6. CASE DidExit
  <2>1. CanDestroy
    BY <1>1, <1>6, ExitCallback DEF DidExit, TakeCallback, FacadeInv
  <2> QED BY <1>6, <2>1 DEF DidExit
<1>7. CASE RunTimer
  <2>1. timers # <<>> /\ AcknowledgeOutput(Head(timers))
    BY <1>7 DEF RunTimer
  <2> QED BY <1>4, <2>1, TimerAccepted
<1>8. CASE DidOutput
  <2>1. ~TurnIsFull /\ AcknowledgeOutput(Callback)
    BY <1>8 DEF DidOutput
  <2>2. cursor < Len(events) /\ ~finished /\ Callback.type = "OUTPUT"
    BY <1>8 DEF DidOutput, TakeCallback
  <2>3. timers # <<>>
    BY <1>4, <2>1, <2>2, CallbackAccepted
  <2>4. Len(timers) < Len(outstanding)
    BY <1>1, <2>2, TakeOutput
  <2> QED BY <1>8, <2>1, <2>3, <2>4 DEF Overtakes
<1> QED BY <1>2, <1>3, <1>5, <1>6, <1>7, <1>8 DEF FacadeNext, Isolate, Beneath

\* Only a turn limit makes an acknowledgement wait.
NoTimers == ~TurnMode => timers = <<>>

LEMMA NoTimersStep ==
    ASSUME NoTimers, [FacadeNext]_allVars
    PROVE  NoTimers'
<1> SUFFICES ASSUME ~TurnMode PROVE timers' = <<>>
  BY DEF NoTimers, TurnMode
<1>1. timers = <<>>
  BY DEF NoTimers
<1>2. CASE Beneath \/ UNCHANGED allVars
  BY <1>1, <1>2, BeneathStep DEF bookVars
<1>3. CASE Isolate
  BY <1>1, <1>3 DEF Isolate, DropCallback, DidStart, DidOutput, DidExit,
                    DidError, RunTimer, TurnIsFull
<1> QED BY <1>2, <1>3 DEF FacadeNext, Beneath

LEMMA CompletedKept ==
    ASSUME Typed, child_completed, [Next]_vars
    PROVE  child_completed'
<1>1. CASE Dispatch \/ Reap
  <2>1. ASSUME NEW observed, ReapChild(observed)
        PROVE  child_completed'
    BY <2>1 DEF ReapChild
  <2>2. CASE Dispatch
    <3>1. CASE UNCHANGED exitVars
      BY <3>1 DEF exitVars
    <3>2. \A filter \in fired : filter \in {"READ", "WRITE", "PROC"}
      BY DEF Typed, FlowTyped, Filter
    <3> QED BY <2>1, <2>2, <3>1, <3>2 DEF Dispatch
  <2> QED BY <1>1, <2>1, <2>2 DEF Reap
<1>2. CASE AcknowledgeNext
  BY <1>2 DEF AcknowledgeNext, Acknowledge, exitVars
<1>3. CASE ClientControl \/ Environment \/ UNCHANGED vars
  BY <1>3 DEF ClientControl, Start, Resize, SendSignal, Post, Close, ForceClose,
              EnqueueWrite, Environment, Produce, ChildExits, ExternalReap,
              SlaveCloses, SlaveReopens, InputTaken, GraceExpires, vars, exitVars
<1>4. CASE \/ Spawn \/ CheckExec \/ ConfigureKqueue \/ TerminateAndReap
           \/ Wait \/ WaitFails \/ ProcessControl \/ Retry \/ Decide
  BY <1>4 DEF Spawn, CheckExec, ConfigureKqueue, Prepare, TerminateAndReap,
              Wait, WaitFails, ProcessControl, Retry, Decide, exitVars
<1>5. CASE ReadAvailable \/ FlushWrites
  BY <1>5 DEF ReadAvailable, ReadAfterEof, ReadPauses, ReadNothing, ReadFails,
              ReadBatchOf, FlushWrites, FlushEnds, FlushBlocked, FlushChunk,
              exitVars
<1> QED BY <1>1, <1>2, <1>3, <1>4, <1>5 DEF Next, Reactor

\* With a turn limit of none or one, a process fails only of its native session.
THEOREM NativeFailureSafe ==
    ASSUME TurnLimit <= 1
    PROVE  FacadeSpec => []FailureIsNative
<1>1. FacadeInit => NoTimers /\ FailureIsNative
  BY DEF FacadeInit, NoTimers, FailureIsNative
<1>2. FacadeInv /\ NoTimers /\ [FacadeNext]_allVars => NoTimers'
  BY NoTimersStep
<1>3. ASSUME FacadeInv, NoTimers, FailureIsNative, [FacadeNext]_allVars
      PROVE  FailureIsNative'
  <2>1. FacadeTyped /\ Typed /\ [Next]_vars
    BY <1>3, SessionStep DEF FacadeInv, ExitInv, Inv
  <2>2. ~Overtakes
    <3>1. since_yield \in Nat
      BY <2>1 DEF FacadeTyped
    <3>2. TurnMode => TurnIsFull
      BY <3>1, BoundAssumption DEF TurnMode, TurnIsFull
    <3> QED BY <1>3, <3>2 DEF Overtakes, NoTimers
  <2>3. exit' = "error" => Ended("ERROR")
    BY <1>3, <2>2, FailureCause DEF FailureIsNative
  <2>4. exit' = "error" => Ended("ERROR")'
    BY <2>1, <2>3, EndedKept
  <2> QED BY <2>4 DEF FailureIsNative
<1> QED BY <1>1, <1>2, <1>3, FacadeInductive, PTL DEF FacadeSpec

\* Until the child has been collected, the same holds of every turn limit when
\* reading resumes only at zero: then no batch can overtake an acknowledgement
\* that waits in a timer.
THEOREM FailureSafe ==
    ASSUME TurnLimit <= 1 \/ LowWater = 0
    PROVE  FacadeSpec => []FailureIsNativeWhileChildLives
<1>1. FacadeInit => NoTimers /\ FailureIsNativeWhileChildLives
  BY DEF FacadeInit, NoTimers, FailureIsNativeWhileChildLives
<1>2. FacadeInv /\ NoTimers /\ [FacadeNext]_allVars => NoTimers'
  BY NoTimersStep
<1>3. ASSUME FacadeInv, NoTimers, SerialDelivery, [FacadeNext]_allVars,
             FailureIsNativeWhileChildLives
      PROVE  FailureIsNativeWhileChildLives'
  <2>1. FacadeTyped /\ Typed /\ Inv /\ [Next]_vars
    BY <1>3, SessionStep DEF FacadeInv, ExitInv, Inv
  <2>2. Overtakes => child_completed
    <3> SUFFICES ASSUME Overtakes PROVE child_completed
      OBVIOUS
    <3>1. since_yield \in Nat /\ timers \in Seq(Event) /\ outstanding \in Seq(Batch)
      BY <2>1, Numbered DEF FacadeTyped
    <3>2. TurnMode
      BY <1>3 DEF Overtakes, NoTimers
    <3>3. LowWater = 0
      BY <3>1, <3>2, BoundAssumption DEF Overtakes, TurnMode, TurnIsFull
    <3>4. Len(timers) \in Nat \ {0} /\ Len(outstanding) \in Nat
      BY <3>1, EmptySeq, LenProperties DEF Overtakes
    <3>5. ~(Len(outstanding) <= 1)
      BY <3>4 DEF Overtakes
    <3> QED BY <1>3, <3>2, <3>3, <3>5 DEF SerialDelivery
  <2>3. exit' = "error" => Ended("ERROR") \/ child_completed
    BY <1>3, <2>2, FailureCause DEF FailureIsNativeWhileChildLives
  <2>4. exit' = "error" => (Ended("ERROR") \/ child_completed)'
    BY <2>1, <2>3, EndedKept, CompletedKept
  <2> QED BY <2>4 DEF FailureIsNativeWhileChildLives
<1> QED BY <1>1, <1>2, <1>3, FacadeInductive, UsesSession, SerialSafe, PTL
        DEF FacadeSpec

-----------------------------------------------------------------------------
(* The two futures.                                                         *)

\* A process that is not finished has a start that is pending until the first
\* callback; a finished one has failed to start or has an exit.
Futures ==
    IF finished
    THEN \/ started = "error" /\ exit = "pending"
         \/ started = "value" /\ exit # "pending"
    ELSE exit = "pending" /\ started = IF cursor = 0 THEN "pending" ELSE "value"

\* The futures of start() and of the exit complete once; the exit only of a
\* process that has started, and behind it no output is received.
FuturesOnce ==
    [][/\ started # "pending" => started' = started
       /\ exit # "pending" => exit' = exit /\ received' = received
       /\ exit' # "pending" => started' = "value"]_allVars

\* What the first callback was is known at every later one.
LEMMA CallbackPlace ==
    ASSUME FacadeInv, LifecycleOnce, cursor < Len(events)
    PROVE  /\ Callback.type = "STARTED" => cursor = 0
           /\ Callback.type \in {"OUTPUT", "EXIT"} => cursor # 0
           /\ cursor' = cursor + 1 => cursor' # 0
<1>1. /\ cursor \in Nat /\ cursor + 1 \in 1..Len(events)
      /\ Callback = events[cursor + 1]
  BY CallbackTyped DEF FacadeInv, ExitInv, Inv, Callback
<1>2. /\ Callback.type = "STARTED" => cursor + 1 = 1
      /\ Callback.type \in {"OUTPUT", "EXIT"} => events[1].type = "STARTED"
  BY <1>1 DEF LifecycleOnce
<1> QED BY <1>1, <1>2

\* Each step of the isolate completes what is pending, or nothing.
LEMMA FuturesStep ==
    ASSUME FacadeInv, LifecycleOnce, Futures, [FacadeNext]_allVars
    PROVE  /\ Futures'
           /\ started # "pending" => started' = started
           /\ exit # "pending" => exit' = exit /\ received' = received
           /\ exit' # "pending" => started' = "value"
<1> DEFINE Once == /\ started # "pending" => started' = started
                   /\ exit # "pending" => exit' = exit /\ received' = received
                   /\ exit' # "pending" => started' = "value"
<1>1. FacadeTyped
  BY DEF FacadeInv
<1>2. CASE Beneath \/ UNCHANGED allVars
  <2>1. UNCHANGED bookVars
    BY <1>2, BeneathStep
  <2> QED BY <2>1 DEF bookVars, Futures
<1>3. CASE DropCallback
  BY <1>3 DEF DropCallback, Futures
<1>4. ASSUME cursor < Len(events), cursor' = cursor + 1, ~finished,
             Callback.type \in {"OUTPUT", "EXIT", "ERROR"}, Fails
      PROVE  Futures' /\ Once
  BY <1>4 DEF Fails, Futures
<1>5. CASE DidStart
  <2>1. cursor = 0 /\ cursor' # 0
    BY <1>5, CallbackPlace DEF DidStart, TakeCallback
  <2> QED BY <1>5, <2>1 DEF DidStart, Futures
<1>6. CASE DidError
  BY <1>1, <1>4, <1>6, DidFailEffect DEF DidError, TakeCallback
<1>7. CASE DidExit
  <2>1. /\ cursor < Len(events) /\ cursor' = cursor + 1 /\ ~finished
        /\ Callback.type = "EXIT"
    BY <1>7 DEF DidExit, TakeCallback
  <2>2. cursor # 0
    BY <2>1, CallbackPlace
  <2>3. CASE CanDestroy
    BY <1>7, <2>1, <2>2, <2>3 DEF DidExit, Futures
  <2>4. CASE ~CanDestroy
    BY <1>1, <1>4, <1>7, <2>1, <2>4, DidFailEffect DEF DidExit
  <2> QED BY <2>3, <2>4
<1>8. CASE DidOutput
  <2>1. /\ cursor < Len(events) /\ cursor' = cursor + 1 /\ ~finished
        /\ Callback.type = "OUTPUT"
    BY <1>8 DEF DidOutput, TakeCallback
  <2>2. cursor # 0 /\ cursor' # 0
    BY <2>1, CallbackPlace
  <2>3. UNCHANGED endVars \/ Fails
    BY <1>1, <1>8, <2>1, AcknowledgeEffect DEF DidOutput, endVars
  <2>4. CASE UNCHANGED endVars
    BY <2>1, <2>2, <2>4 DEF endVars, Futures
  <2> QED BY <1>4, <2>1, <2>3, <2>4
<1>9. CASE RunTimer
  <2>1. timers # <<>> /\ AcknowledgeOutput(Head(timers))
        /\ UNCHANGED <<cursor, received>>
    BY <1>9 DEF RunTimer
  <2>2. UNCHANGED <<started, exit, finished>>
    BY <2>1, TimerAccepted DEF AcknowledgeOutput
  <2> QED BY <2>1, <2>2 DEF Futures
<1> QED BY <1>2, <1>3, <1>5, <1>6, <1>7, <1>8, <1>9
        DEF FacadeNext, Isolate, Beneath

\* Neither completer is completed twice, whatever the order of callbacks, timers
\* and failures, and nothing is added to the output behind the exit.
THEOREM FuturesSafe == FacadeSpec => FuturesOnce
<1>1. FacadeInit => Futures
  BY DEF FacadeInit, Futures
<1>2. FacadeInv /\ LifecycleOnce /\ Futures /\ [FacadeNext]_allVars
      => /\ Futures'
         /\ [/\ started # "pending" => started' = started
             /\ exit # "pending" => exit' = exit /\ received' = received
             /\ exit' # "pending" => started' = "value"]_allVars
  BY FuturesStep
<1> QED BY <1>1, <1>2, FacadeInductive, UsesSession, OrderSafe, PTL
        DEF FacadeSpec, FuturesOnce

\* The contract of the session holds under the facade.
THEOREM FacadeKeepsContract == FacadeSpec => ImplementsContract
BY UsesSession, Refines, PTL
=============================================================================
