----------------------------- MODULE PtyFacade -----------------------------
(***************************************************************************)
(* _MacosPtyProcess of packages/dart_pty_macos/lib/src/native_backend.dart *)
(* on top of the native session it owns.  Native callbacks are messages to *)
(* the Dart isolate: `events` of PtySession is that queue and `cursor` how *)
(* far _dispatchEvent() has come.  Every action here runs to completion on *)
(* the isolate while the reactor thread interleaves with it.               *)
(***************************************************************************)
EXTENDS PtySession

VARIABLES
    cursor,            \* callbacks taken from the queue
    started,           \* _started: "pending", "value" or "error"
    exit,              \* _exit: "pending", "value" or "error"
    finished,          \* _finished
    disposing,         \* dispose() has been called
    since_yield,       \* _readBatchesSinceEventLoopYield
    timers,            \* batches whose acknowledgement waits in a Timer.run
    received,          \* bytes added to the output stream
    handle_live        \* the native registry still holds the session

facadeVars == <<cursor, started, exit, finished, disposing, since_yield,
                timers, received, handle_live>>
allVars == <<vars, facadeVars>>

FacadeInit ==
    /\ Init
    /\ cursor = 0
    /\ started = "pending" /\ exit = "pending"
    /\ finished = FALSE /\ disposing = FALSE
    /\ since_yield = 0 /\ timers = <<>>
    /\ received = 0
    /\ handle_live = TRUE

\* sessionDestroy(): refused while the session runs or retains output.
Destroy == handle_live' = (handle_live /\ ~CanDestroy)

\* _didFail(): `unstarted` completes start() instead of exit.
DidFail ==
    IF finished /\ exit # "pending"
    THEN UNCHANGED <<finished, started, exit, handle_live>>
    ELSE /\ finished' = TRUE
         /\ Destroy
         /\ started' = IF started = "pending" THEN "error" ELSE started
         /\ exit' = IF started # "pending" /\ exit = "pending" THEN "error"
                    ELSE exit

\* _acknowledgeOutput(): a refused acknowledgement fails the session.
AcknowledgeOutput(batch) ==
    IF finished
    THEN UNCHANGED <<vars, finished, started, exit, handle_live>>
    ELSE IF AcknowledgeAccepted(batch.sequence, batch.length)
    THEN /\ Acknowledge(batch.sequence, batch.length)
         /\ UNCHANGED <<finished, started, exit, handle_live>>
    ELSE DidFail /\ UNCHANGED vars

-----------------------------------------------------------------------------
(* _dispatchEvent(), one callback per step.  A finished process is no        *)
(* longer in _sessions, so its callbacks are dropped.                       *)

Callback == events[cursor + 1]

TakeCallbackCoalesced ==
    /\ cursor < Len(events)
    /\ cursor' \in {cursor + 1, Len(events)}

TakeCallback ==
    /\ cursor < Len(events)
    /\ cursor' = cursor + 1

DropCallback ==
    /\ TakeCallback /\ finished
    /\ UNCHANGED <<vars, started, exit, finished, disposing, since_yield, timers,
                   received, handle_live>>

DidStart ==
    /\ TakeCallback /\ ~finished /\ Callback.type = "STARTED"
    /\ started' = "value"
    /\ UNCHANGED <<vars, exit, finished, disposing, since_yield, timers,
                   received, handle_live>>

TurnOverflows == TurnMode /\ since_yield + 1 > TurnLimit
TurnIsFull == TurnMode /\ since_yield + 1 >= TurnLimit

\* The batch that fills a turn is acknowledged from a timer, the others at
\* once.
DidOutput ==
    /\ TakeCallback /\ ~finished /\ Callback.type = "OUTPUT"
    /\ received' = received + Callback.length
    /\ since_yield' = IF TurnMode /\ ~TurnIsFull THEN since_yield + 1 ELSE 0
    /\ IF TurnIsFull
       THEN /\ timers' = Append(timers, Callback)
            /\ UNCHANGED <<vars, finished, started, exit, handle_live>>
       ELSE AcknowledgeOutput(Callback) /\ UNCHANGED timers
    /\ UNCHANGED disposing

\* A refused destroy would turn the exit into a failure.
DidExit ==
    /\ TakeCallback /\ ~finished /\ Callback.type = "EXIT"
    /\ IF CanDestroy
       THEN /\ finished' = TRUE /\ handle_live' = FALSE
            /\ started' = IF started = "pending" THEN "error" ELSE started
            /\ exit' = "value"
       ELSE DidFail
    /\ UNCHANGED <<vars, disposing, since_yield, timers, received>>

DidError ==
    /\ TakeCallback /\ ~finished /\ Callback.type = "ERROR"
    /\ DidFail
    /\ UNCHANGED <<vars, disposing, since_yield, timers, received>>

RunTimer ==
    /\ timers # <<>>
    /\ timers' = Tail(timers)
    /\ AcknowledgeOutput(Head(timers))
    /\ UNCHANGED <<cursor, disposing, since_yield, received>>

-----------------------------------------------------------------------------
(* The methods of the process, which exist once start() has returned.       *)

\* Without a thread start() destroys the session and throws.
StartProcess ==
    /\ Start
    /\ handle_live' = (handle_live /\ state' # "finished")
    /\ UNCHANGED <<cursor, started, exit, finished, disposing, since_yield, timers,
                   received>>

\* write, resize and sendSignal are refused by _requireRunning().
Operate ==
    /\ started = "value" /\ ~finished
    /\ \/ Resize \/ SendSignal \/ Close \/ ForceClose
       \/ \E length \in WriteLengths : EnqueueWrite(length)
    /\ UNCHANGED facadeVars

\* dispose() closes a live process and awaits its exit.
Dispose ==
    /\ started = "value" /\ ~disposing
    /\ disposing' = TRUE
    /\ IF ~finished /\ state = "running" /\ ~closing
       THEN Close
       ELSE UNCHANGED vars
    /\ UNCHANGED <<cursor, started, exit, finished, since_yield, timers,
                   received, handle_live>>

Isolate ==
    \/ DropCallback \/ DidStart \/ DidOutput \/ DidExit \/ DidError \/ RunTimer

\* The native side moves on its own.
Native == (Reactor \/ WaitFails \/ Environment) /\ UNCHANGED facadeVars

FacadeNext == StartProcess \/ Operate \/ Dispose \/ Isolate \/ Native

FacadeSpec == FacadeInit /\ [][FacadeNext]_allVars

FacadeFairness ==
    /\ WF_allVars(Isolate)
    /\ WF_allVars(Reactor /\ UNCHANGED facadeVars)
    /\ WF_allVars(killed /\ ChildExits /\ UNCHANGED facadeVars)
    /\ WF_allVars((Revoked \/ GraceExpires) /\ UNCHANGED facadeVars)

FairFacadeSpec == FacadeSpec /\ FacadeFairness

-----------------------------------------------------------------------------
(* Properties.                                                              *)

FacadeTypeOK ==
    /\ TypeOK
    /\ cursor \in 0..Len(events)
    /\ started \in {"pending", "value", "error"}
    /\ exit \in {"pending", "value", "error"}
    /\ finished \in BOOLEAN /\ disposing \in BOOLEAN
    /\ since_yield \in Nat /\ (TurnMode => since_yield < TurnLimit)
    /\ timers \in Seq(Event)
    /\ received \in Nat /\ handle_live \in BOOLEAN

\* Each retained batch has one pending acknowledgement, in order: the first ones
\* are waiting in timers, the others in the output callbacks behind `taken`.
Owns(waiting, taken, callbacks, retained) ==
    LET queued == {n \in (taken + 1)..Len(callbacks) :
                      callbacks[n].type = "OUTPUT"}
    IN  /\ Len(waiting) <= Len(retained)
        /\ \A i \in 1..Len(waiting) : waiting[i] = Output(retained[i])
        /\ {callbacks[n] : n \in queued} =
               {Output(retained[i]) : i \in (Len(waiting) + 1)..Len(retained)}
        /\ \A m, n \in queued :
               m < n => callbacks[m].sequence < callbacks[n].sequence

\* While the process is live, each batch the native session retains is owned
\* by exactly one pending acknowledgement.  No credit is lost and none is
\* returned twice.
CreditHasOwner == ~finished => Owns(timers, cursor, events, outstanding)

\* A normal exit comes after every byte that the session read, its batches all
\* acknowledged, and with the native session released; these are all bytes of the
\* child unless the session stopped reading before the end.
ExitDeliversAll ==
    exit = "value" => /\ received = bytes_read /\ timers = <<>>
                      /\ truncated \/ received = produced
                      /\ ~handle_live

\* The process fails only when its native session reported an error: the
\* facade's own acknowledgements are always in order.
FailureIsNative == exit = "error" => Ended("ERROR")

\* Until the child has been collected, with a low watermark of zero: its output
\* is acknowledged in order across timers and callbacks, so nothing but the
\* native session makes the process fail, whatever the turn limit.
FailureIsNativeWhileChildLives ==
    exit = "error" => Ended("ERROR") \/ child_completed

\* A failed process has released its native session.
FailureReleases == exit = "error" => ~handle_live

\* dispose() completes: the exit it awaits arrives.
DisposeCompletes == disposing ~> exit # "pending"

\* A started process hears of every end of its session.
EndIsHeard == started = "value" /\ state = "finished" ~> exit # "pending"
=============================================================================
