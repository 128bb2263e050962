------------------------------ MODULE PtyHost ------------------------------
(***************************************************************************)
(* The C interface of dart_pty_macos.h over the sessions of one process:   *)
(* the handle registry, the shared ownership of a session by the registry, *)
(* its reactor thread and the calls in progress, and Wake().  A call holds *)
(* one lock at a time and does the rest without any; each of these parts   *)
(* is a step.  A reactor is here what the calls can notice of it: modules  *)
(* PtySpawn and PtySession have its system calls.                          *)
(***************************************************************************)
EXTENDS Integers, Sequences, FiniteSets

CONSTANTS
    Sessions,          \* sessions the process may create
    Clients,           \* threads that call the interface
    Generations,       \* bound: a slot's generation runs over 1..Generations
    HighWater,         \* read_high_water_bytes, in batches of one size
    LowWater,          \* read_low_water_bytes, in batches
    TurnMode,          \* read_batches_per_event_loop_turn is not 0
    Faults             \* a thread, a spawn, kqueue and kevent may fail

\* No slot is reused so often that its generation comes round (2^32 times).
ASSUME HostAssumption ==
    /\ Generations \in Nat /\ IsFiniteSet(Sessions)
    /\ Cardinality(Sessions) < Generations
    /\ Faults \in BOOLEAN /\ TurnMode \in BOOLEAN
    /\ "none" \notin Sessions
    /\ HighWater \in Nat /\ LowWater \in Nat /\ LowWater < HighWater
    /\ "registry" \notin Clients /\ "thread" \notin Clients

VARIABLES
    slots,             \* SessionRegistry::slots_
    free_indices,      \* SessionRegistry::free_indices_
    live_count,        \* SessionRegistry::live_count_
    handle,            \* handle_, as the client got it
    owners,            \* who holds a shared_ptr of the session
    state,             \* state_: "created", "running" or "finished"
    pending,           \* a request lies there for ProcessControl()
    paused,            \* read_paused_
    retained,          \* how many batches outstanding_ holds
    reactor,           \* where the thread stands
    kqueue,            \* kqueue_fd_ names the open kqueue
    triggered,         \* the user event of the kqueue is set
    call               \* what each client is doing

registryVars == <<slots, free_indices, live_count, handle>>
requestVars == <<pending, paused, retained>>
vars == <<registryVars, owners, state, requestVars, reactor, kqueue, triggered, call>>

NoHandle == [index |-> 0, generation |-> 0]
Idle == [step |-> "idle", session |-> "none"]
Ops == {"start", "post", "acknowledge", "canDestroy"}

Init ==
    /\ slots = <<>> /\ free_indices = <<>> /\ live_count = 0
    /\ handle = [s \in Sessions |-> NoHandle]
    /\ owners = [s \in Sessions |-> {}]
    /\ state = [s \in Sessions |-> "created"]
    /\ pending = [s \in Sessions |-> FALSE]
    /\ paused = [s \in Sessions |-> FALSE]
    /\ retained = [s \in Sessions |-> 0]
    /\ reactor = [s \in Sessions |-> "none"]
    /\ kqueue = [s \in Sessions |-> FALSE]
    /\ triggered = [s \in Sessions |-> FALSE]
    /\ call = [c \in Clients |-> Idle]

-----------------------------------------------------------------------------
(* SessionRegistry.                                                         *)

\* Lookup(): the session a handle reaches, or "none".
Reaches(h) ==
    IF h.index \in DOMAIN slots /\ slots[h.index].generation = h.generation
    THEN slots[h.index].session ELSE "none"

Insert(s) ==
    LET reused == free_indices # <<>>
        i == IF reused THEN free_indices[Len(free_indices)] ELSE Len(slots) + 1
    IN
    /\ slots' = IF reused THEN [slots EXCEPT ![i].session = s]
                ELSE Append(slots, [generation |-> 1, session |-> s])
    /\ free_indices' = IF reused
                       THEN SubSeq(free_indices, 1, Len(free_indices) - 1)
                       ELSE free_indices
    /\ live_count' = live_count + 1
    /\ handle' = [handle EXCEPT ![s] =
                     [index |-> i, generation |-> slots'[i].generation]]

SameGeneration(g) == g

\* 0 is no generation: the one after the last is 1.
NextGeneration(g) == IF g = Generations THEN 1 ELSE g + 1

Remove(s) ==
    LET i == handle[s].index IN
    /\ slots' = [slots EXCEPT
                    ![i] = [generation |-> NextGeneration(@.generation),
                            session |-> "none"]]
    /\ free_indices' = Append(free_indices, i)
    /\ live_count' = live_count - 1
    /\ UNCHANGED handle

-----------------------------------------------------------------------------
(* The calls.                                                               *)

Step(c, from, to) ==
    call[c].step = from /\ call' = [call EXCEPT ![c].step = to]

\* dpty_session_create(): the session is new, and no one else has its handle.
Create(c) ==
    \E s \in Sessions :
        /\ call[c] = Idle
        /\ handle[s] = NoHandle
        /\ Insert(s)
        /\ owners' = [owners EXCEPT ![s] = {"registry"}]
        /\ UNCHANGED <<state, requestVars, reactor, kqueue, triggered, call>>

\* LookupSession(), with any handle ever returned.  A stale one is refused.
Lookup(c) ==
    \E s \in Sessions, op \in Ops :
        LET found == Reaches(handle[s]) IN
        /\ call[c] = Idle
        /\ found # "none"
        /\ call' = [call EXCEPT ![c].step = op, ![c].session = found]
        /\ owners' = [owners EXCEPT ![found] = @ \cup {c}]
        /\ UNCHANGED <<registryVars, state, requestVars, reactor, kqueue, triggered>>

\* Session::Start(): the thread owns the session; it may fail to start.
StartSession(c) ==
    LET s == call[c].session IN
    /\ Step(c, "start", "return")
    /\ \/ /\ state[s] = "created"
          /\ state' = [state EXCEPT ![s] = "running"]
          /\ reactor' = [reactor EXCEPT ![s] = "spawn"]
          /\ owners' = [owners EXCEPT ![s] = @ \cup {"thread"}]
       \/ /\ Faults /\ state[s] = "created"
          /\ state' = [state EXCEPT ![s] = "finished"]
          /\ UNCHANGED <<reactor, owners>>
       \/ state[s] # "created" /\ UNCHANGED <<state, reactor, owners>>
    /\ UNCHANGED <<registryVars, requestVars, kqueue, triggered>>

\* Write(), Resize(), SendSignal(), Close(), ForceClose(): a running session
\* takes the request under the lock, or refuses it for what module PtySession
\* knows of: it closes, its child has completed, the queue is full.
Post(c) ==
    LET s == call[c].session IN
    /\ \/ /\ Step(c, "post", "wake")
          /\ state[s] = "running"
          /\ pending' = [pending EXCEPT ![s] = TRUE]
       \/ Step(c, "post", "return") /\ UNCHANGED pending
    /\ UNCHANGED <<registryVars, owners, state, paused, retained, reactor, kqueue,
                   triggered>>

\* The credit in hand lets a paused reader go on.
MayResume(s, in_flight) == paused[s] /\ in_flight <= LowWater

\* Acknowledge(), of the first batch or out of order, in any state: it wakes the
\* reactor only when a paused reader may resume.
Acknowledge(c) ==
    LET s == call[c].session
        wakes == MayResume(s, retained[s] - 1)
    IN
    /\ \/ /\ Step(c, "acknowledge", IF wakes THEN "wake" ELSE "return")
          /\ retained[s] > 0
          /\ retained' = [retained EXCEPT ![s] = @ - 1]
       \/ Step(c, "acknowledge", "return") /\ UNCHANGED retained
    /\ UNCHANGED <<registryVars, owners, state, pending, paused, reactor, kqueue,
                   triggered>>

\* Wake() loads the descriptor, then triggers what it names by then: the own
\* kqueue or, when that has been closed, another's or nothing.
LoadKqueue(c) ==
    /\ \/ Step(c, "wake", "trigger") /\ kqueue[call[c].session]
       \/ Step(c, "wake", "return") /\ ~kqueue[call[c].session]
    /\ UNCHANGED <<registryVars, owners, state, requestVars, reactor, kqueue,
                   triggered>>

Trigger(c) ==
    LET s == call[c].session IN
    /\ Step(c, "trigger", "return")
    /\ \/ kqueue[s] /\ triggered' = [triggered EXCEPT ![s] = TRUE]
       \/ /\ ~kqueue[s]
          /\ \E t \in Sessions :
                triggered' = [triggered EXCEPT ![t] = @ \/ kqueue[t]]
       \/ ~kqueue[s] /\ UNCHANGED triggered
    /\ UNCHANGED <<registryVars, owners, state, requestVars, reactor, kqueue>>

CanDestroy(s) == state[s] = "finished" /\ retained[s] = 0

Destroy(c) ==
    /\ \/ Step(c, "canDestroy", "remove") /\ CanDestroy(call[c].session)
       \/ Step(c, "canDestroy", "return") /\ ~CanDestroy(call[c].session)
    /\ UNCHANGED <<registryVars, owners, state, requestVars, reactor, kqueue,
                   triggered>>

AlwaysRegistered(s) == TRUE
StillRegistered(s) == Reaches(handle[s]) = s

NeverJoins == "return"
AfterRemove == "join"

\* Remove() by the handle: another client may have been faster.
RemoveSession(c) ==
    LET s == call[c].session IN
    /\ \/ /\ Step(c, "remove", AfterRemove)
          /\ StillRegistered(s)
          /\ Remove(s)
          /\ owners' = [owners EXCEPT ![s] = @ \ {"registry"}]
       \/ /\ Step(c, "remove", "return")
          /\ ~StillRegistered(s)
          /\ UNCHANGED <<registryVars, owners>>
    /\ UNCHANGED <<state, requestVars, reactor, kqueue, triggered>>

Join(c) ==
    /\ Step(c, "join", "return")
    /\ "thread" \notin owners[call[c].session]
    /\ UNCHANGED <<registryVars, owners, state, requestVars, reactor, kqueue,
                   triggered>>

Return(c) ==
    /\ call[c].step = "return"
    /\ owners' = [owners EXCEPT ![call[c].session] = @ \ {c}]
    /\ call' = [call EXCEPT ![c] = Idle]
    /\ UNCHANGED <<registryVars, state, requestVars, reactor, kqueue, triggered>>

-----------------------------------------------------------------------------
(* The reactor threads.                                                     *)

Goto(s, from, to) == reactor[s] = from /\ reactor' = [reactor EXCEPT ![s] = to]
OnlyReactor == UNCHANGED <<registryVars, owners, call>>

StraightToWait == "wait"
AfterStarted == "prepare"

\* ConfigureKqueue() publishes the kqueue; STARTED is emitted, and Run() calls
\* ProcessControl() once before EventLoop().
Configure(s) ==
    /\ Goto(s, "spawn", AfterStarted)
    /\ kqueue' = [kqueue EXCEPT ![s] = TRUE]
    /\ triggered' = [triggered EXCEPT ![s] = FALSE]
    /\ UNCHANGED <<state, requestVars>> /\ OnlyReactor

\* Spawn, exec or kqueue fails: FinishError(), with no kqueue published.
SpawnFails(s) ==
    /\ Faults
    /\ Goto(s, "spawn", "ended")
    /\ state' = [state EXCEPT ![s] = "finished"]
    /\ UNCHANGED <<requestVars, kqueue, triggered>> /\ OnlyReactor

\* kevent() returns, for the trigger, another event or its 100 ms.
KeventReturns(s) ==
    /\ Goto(s, "wait", "control")
    /\ triggered' = [triggered EXCEPT ![s] = FALSE]
    /\ UNCHANGED <<state, requestVars, kqueue>> /\ OnlyReactor

\* ReadAvailable(), for an event of the filter that a pause turns off, or behind
\* ProcessControl(): a batch, or a pause with no credit left.
Read(s) ==
    /\ \/ reactor[s] = "control" /\ ~paused[s]
       \/ reactor[s] = "turn"
    /\ \/ /\ retained[s] < HighWater
          /\ retained' = [retained EXCEPT ![s] = @ + 1]
          /\ paused' = [paused EXCEPT ![s] = @ \/ TurnMode]
       \/ /\ retained[s] >= HighWater
          /\ paused' = [paused EXCEPT ![s] = TRUE]
          /\ UNCHANGED retained
    /\ UNCHANGED <<state, pending, reactor, kqueue, triggered>> /\ OnlyReactor

ProcessControl(s) ==
    /\ Goto(s, "prepare", "wait") \/ Goto(s, "control", "turn")
    /\ pending' = [pending EXCEPT ![s] = FALSE]
    /\ paused' = [paused EXCEPT ![s] = @ /\ ~MayResume(s, retained[s])]
    /\ UNCHANGED <<state, retained, kqueue, triggered>> /\ OnlyReactor

TurnEnds(s) ==
    /\ Goto(s, "turn", "wait")
    /\ UNCHANGED <<state, requestVars, kqueue, triggered>> /\ OnlyReactor

\* FinishExit() when nothing is retained, or FinishError() when kevent() fails.
Finish(s) ==
    /\ \/ Goto(s, "turn", "close") /\ retained[s] = 0
       \/ Goto(s, "wait", "close") /\ Faults
    /\ state' = [state EXCEPT ![s] = "finished"]
    /\ UNCHANGED <<requestVars, kqueue, triggered>> /\ OnlyReactor

CloseDescriptors(s) ==
    /\ Goto(s, "close", "ended")
    /\ kqueue' = [kqueue EXCEPT ![s] = FALSE]
    /\ UNCHANGED <<state, requestVars, triggered>> /\ OnlyReactor

\* The thread function returns and drops its reference.
ThreadEnds(s) ==
    /\ reactor[s] = "ended" /\ "thread" \in owners[s]
    /\ owners' = [owners EXCEPT ![s] = @ \ {"thread"}]
    /\ UNCHANGED <<registryVars, state, requestVars, reactor, kqueue, triggered, call>>

-----------------------------------------------------------------------------
ClientNext(c) ==
    \/ Create(c) \/ Lookup(c) \/ StartSession(c) \/ Post(c)
    \/ Acknowledge(c) \/ LoadKqueue(c) \/ Trigger(c) \/ Destroy(c)
    \/ RemoveSession(c) \/ Join(c) \/ Return(c)
SessionNext(s) ==
    \/ Configure(s) \/ SpawnFails(s) \/ KeventReturns(s) \/ Read(s)
    \/ ProcessControl(s) \/ TurnEnds(s) \/ Finish(s) \/ CloseDescriptors(s)
    \/ ThreadEnds(s)

Next ==
    \/ \E c \in Clients : ClientNext(c)
    \/ \E s \in Sessions : SessionNext(s)
Spec == Init /\ [][Next]_vars

-----------------------------------------------------------------------------
Slots == [generation : 1..Generations, session : Sessions \cup {"none"}]
Handles == [index : Nat, generation : Nat]
Steps == Ops \cup {"idle", "wake", "trigger", "remove", "join", "return"}
Owners == Clients \cup {"registry", "thread"}

\* Types: every variable keeps its range.
TypeOK ==
    /\ slots \in Seq(Slots) /\ free_indices \in Seq(Nat \ {0})
    /\ live_count \in Int
    /\ handle \in [Sessions -> Handles]
    /\ owners \in [Sessions -> SUBSET Owners]
    /\ state \in [Sessions -> {"created", "running", "finished"}]
    /\ pending \in [Sessions -> BOOLEAN] /\ paused \in [Sessions -> BOOLEAN]
    /\ retained \in [Sessions -> 0..HighWater]
    /\ reactor \in [Sessions -> {"none", "spawn", "prepare", "wait", "control",
                                 "turn", "close", "ended"}]
    /\ kqueue \in [Sessions -> BOOLEAN] /\ triggered \in [Sessions -> BOOLEAN]
    /\ call \in [Clients -> [step : Steps, session : Sessions \cup {"none"}]]

\* A handle reaches the session it was returned for or none, whatever slots
\* have been freed and reused since.
HandleExact == \A s \in Sessions : Reaches(handle[s]) \in {s, "none"}

\* However many clients destroy one session at a time, its slot is freed once:
\* the free list names every empty slot and none twice, and live_count_ counts
\* the others.
SlotsAccounted ==
    /\ \A n \in 1..Len(free_indices) :
          /\ free_indices[n] \in 1..Len(slots)
          /\ slots[free_indices[n]].session = "none"
    /\ \A n, m \in 1..Len(free_indices) :
          free_indices[n] = free_indices[m] => n = m
    /\ \A i \in 1..Len(slots) : slots[i].session = "none" =>
          \E n \in 1..Len(free_indices) : free_indices[n] = i
    /\ live_count + Len(free_indices) = Len(slots)

\* The reactor thread never drops the last reference: the destructor would
\* join the thread it runs on.
NoSelfJoin == \A s \in Sessions : owners[s] # {"thread"}

\* A reader that acknowledgements have brought down to where it may go on.  The
\* pause behind a batch of a turn comes with the credit still there: it ends with
\* the last acknowledgement.
Resumable(s) ==
    paused[s] /\ retained[s] <= IF TurnMode THEN 0 ELSE LowWater

\* A request, and a paused reader that may go on, is never left to the 100 ms
\* time-out: while the reactor waits, its trigger is set or a client is still in
\* Wake().  Other acknowledgements wake nobody, the last one that EXIT waits for
\* among them.
NoLostWake ==
    \A s \in Sessions : reactor[s] = "wait" /\ (pending[s] \/ Resumable(s)) =>
        \/ triggered[s]
        \/ \E c \in Clients :
              call[c].session = s /\ call[c].step \in {"wake", "trigger"}
=============================================================================
