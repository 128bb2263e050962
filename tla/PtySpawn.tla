------------------------------ MODULE PtySpawn ------------------------------
(***************************************************************************)
(* The reactor threads of every session of one process, seen from the      *)
(* process's descriptor table: PtySpawn.c, PtyExecChild.c, and Run(),       *)
(* CheckExec(), ConfigureKqueue(), CloseDescriptors() of PtySession.cc.     *)
(* One system call is one step, forkpty() (openpty and fork) included.     *)
(* What the event loop does with the bytes is module PtySession.           *)
(***************************************************************************)
EXTENDS Integers, FiniteSets

CONSTANTS
    Sessions,          \* sessions of the process
    MaxFd,             \* bound: the descriptor limit of the process
    HostOpen,          \* the sets of standard descriptors a host may start with
    Faults             \* calls fail for other reasons than a full table

Fd == 0..MaxFd
Std == 0..2

ASSUME SpawnAssumption ==
    /\ MaxFd \in Nat /\ MaxFd >= 2
    /\ HostOpen \subseteq SUBSET Std
    /\ Faults \in BOOLEAN /\ "none" \notin Sessions

VARIABLES
    pc,                \* where the reactor of a session stands
    state,             \* state_: "created", "running" or "finished"
    error,             \* what the session failed with, or "none"
    started,           \* STARTED has been emitted
    files,             \* the host's descriptor table
    close_on_exec,     \* descriptors of the host with FD_CLOEXEC
    number,            \* the descriptors of a session, by kind; -1 is none
    master_fd,         \* master_fd_, what other threads read under the lock
    kqueue_fd,         \* kqueue_fd_
    child,             \* the forked process of a session
    report             \* an errno lies in the exec error pipe

spawnVars == <<pc, state, error, started, files, close_on_exec, number,
               master_fd, kqueue_fd, child, report>>

\* What an entry of a descriptor table refers to.
File(kind, session) == [kind |-> kind, of |-> session]
Closed == File("closed", "none")
HostFile == File("host", "none")
Kinds == {"read", "write", "master", "queue"}
NoFiles == [f \in Fd |-> Closed]

NoChild == [status |-> "none", files |-> NoFiles, close_on_exec |-> {},
            read |-> -1, write |-> -1]

SpawnInit ==
    /\ pc = [s \in Sessions |-> "idle"]
    /\ state = [s \in Sessions |-> "created"]
    /\ error = [s \in Sessions |-> "none"]
    /\ started = [s \in Sessions |-> FALSE]
    /\ \E open \in HostOpen :
          files = [f \in Fd |-> IF f \in open THEN HostFile ELSE Closed]
    /\ close_on_exec = {}
    /\ number = [s \in Sessions |-> [k \in Kinds |-> -1]]
    /\ master_fd = [s \in Sessions |-> -1]
    /\ kqueue_fd = [s \in Sessions |-> -1]
    /\ child = [s \in Sessions |-> NoChild]
    /\ report = [s \in Sessions |-> FALSE]

-----------------------------------------------------------------------------
(* The kernel gives out the lowest free descriptor.                         *)

Free(from) == {f \in Fd : f >= from /\ files[f] = Closed}
Lowest(from) == CHOOSE f \in Free(from) : \A g \in Free(from) : f <= g
Second == CHOOSE f \in Free(0) :
              /\ f # Lowest(0)
              /\ \A g \in Free(0) : g # Lowest(0) => f <= g
HasTwo == \E f, g \in Free(0) : f # g

\* The reactor of s goes from one step to the next.
Goto(s, from, to) == pc[s] = from /\ pc' = [pc EXCEPT ![s] = to]

Open(s, kind, f) ==
    /\ files' = [files EXCEPT ![f] = File(kind, s)]
    /\ number' = [number EXCEPT ![s][kind] = f]

\* close() of the named descriptors of s; -1 is not closed.
Close(s, kinds) ==
    LET gone == {number[s][k] : k \in kinds} IN
    /\ files' = [f \in Fd |-> IF f \in gone THEN Closed ELSE files[f]]
    /\ close_on_exec' = close_on_exec \ gone
    /\ number' = [number EXCEPT ![s] =
                     [k \in Kinds |-> IF k \in kinds THEN -1 ELSE @[k]]]

FailsWith(s, what) == error' = [error EXCEPT ![s] = what]
Kill(s) == child' = [child EXCEPT ![s] = [NoChild EXCEPT !.status = "reaped"]]

FilesUnchanged == UNCHANGED <<files, close_on_exec, number>>
SharedUnchanged == UNCHANGED <<master_fd, kqueue_fd>>
AnnouncedUnchanged == UNCHANGED <<state, started>>

-----------------------------------------------------------------------------
\* Start(): the thread runs.
Begin(s) ==
    /\ state[s] = "created"
    /\ state' = [state EXCEPT ![s] = "running"]
    /\ Goto(s, "idle", "pipe")
    /\ UNCHANGED <<error, started, child, report>>
    /\ FilesUnchanged /\ SharedUnchanged

-----------------------------------------------------------------------------
(* dpty_spawn_prepared(), on the reactor thread.                            *)

MakePipe(s) ==
    /\ HasTwo
    /\ Goto(s, "pipe", "moveRead")
    /\ files' = [files EXCEPT ![Lowest(0)] = File("read", s),
                              ![Second] = File("write", s)]
    /\ number' = [number EXCEPT ![s]["read"] = Lowest(0),
                                ![s]["write"] = Second]
    /\ UNCHANGED <<close_on_exec, error, child, report>>
    /\ SharedUnchanged /\ AnnouncedUnchanged

PipeFails(s) ==
    /\ Faults \/ ~HasTwo
    /\ Goto(s, "pipe", "fail")
    /\ FailsWith(s, "system")
    /\ FilesUnchanged /\ SharedUnchanged /\ AnnouncedUnchanged
    /\ UNCHANGED <<child, report>>

AbandonReadEnd(s) ==
    /\ pc' = [pc EXCEPT ![s] = "fail"]
    /\ FailsWith(s, "system")
    /\ Close(s, {"read"})
    /\ SharedUnchanged /\ AnnouncedUnchanged
    /\ UNCHANGED <<child, report>>

\* A failure behind pipe() closes both ends.
AbandonPipe(s) ==
    /\ pc' = [pc EXCEPT ![s] = "fail"]
    /\ FailsWith(s, "system")
    /\ Close(s, {"read", "write"})
    /\ SharedUnchanged /\ AnnouncedUnchanged
    /\ UNCHANGED <<child, report>>

NeverMoves(f) == FALSE

\* forkpty() gives 0..2 of the child to the terminal, so neither end of the
\* pipe may have such a number.
NeedsMove(f) == f \in Std

Move(s, end, from, to) ==
    LET old == number[s][end] new == Lowest(3) IN
    \/ /\ ~NeedsMove(old)
       /\ Goto(s, from, to)
       /\ FilesUnchanged /\ SharedUnchanged /\ AnnouncedUnchanged
       /\ UNCHANGED <<error, child, report>>
    \/ /\ NeedsMove(old) /\ Free(3) # {}
       /\ Goto(s, from, to)
       /\ files' = [files EXCEPT ![new] = File(end, s), ![old] = Closed]
       /\ close_on_exec' = (close_on_exec \ {old}) \cup {new}
       /\ number' = [number EXCEPT ![s][end] = new]
       /\ SharedUnchanged /\ AnnouncedUnchanged
       /\ UNCHANGED <<error, child, report>>
    \/ /\ NeedsMove(old) /\ Free(3) = {}
       /\ pc[s] = from
       /\ AbandonPipe(s)

SetCloseOnExec(s, end, from, to) ==
    /\ Goto(s, from, to)
    /\ close_on_exec' = close_on_exec \cup {number[s][end]}
    /\ UNCHANGED <<files, number, error, child, report>>
    /\ SharedUnchanged /\ AnnouncedUnchanged

PrepareMoveRead(s) == Move(s, "read", "moveRead", "moveWrite")
PrepareMoveWrite(s) == Move(s, "write", "moveWrite", "protectRead")
PrepareProtectRead(s) ==
    SetCloseOnExec(s, "read", "protectRead", "protectWrite")
PrepareProtectWrite(s) ==
    SetCloseOnExec(s, "write", "protectWrite", "forkpty")
PrepareFails(s) ==
    /\ Faults /\ pc[s] \in {"protectRead", "protectWrite"}
    /\ AbandonPipe(s)

\* forkpty(): the child has the terminal on 0..2 and a copy of every other
\* descriptor of the host but kqueues, which are not inherited.
Inherited(s, f) ==
    IF f \in Std THEN File("slave", s)
    ELSE IF files[f].kind = "queue" THEN Closed ELSE files[f]

Forkpty(s) ==
    /\ HasTwo
    /\ Goto(s, "forkpty", "release")
    /\ Open(s, "master", Lowest(0))
    /\ child' = [child EXCEPT ![s] =
                    [status |-> "forked",
                     files |-> [f \in Fd |-> Inherited(s, f)],
                     close_on_exec |-> close_on_exec \ Std,
                     read |-> number[s]["read"],
                     write |-> number[s]["write"]]]
    /\ UNCHANGED <<close_on_exec, error, report>>
    /\ SharedUnchanged /\ AnnouncedUnchanged

ForkptyFails(s) ==
    /\ pc[s] = "forkpty" /\ (Faults \/ ~HasTwo)
    /\ AbandonPipe(s)

Release(s) ==
    /\ Goto(s, "release", "protectMaster")
    /\ Close(s, {"write"})
    /\ UNCHANGED <<error, child, report>>
    /\ SharedUnchanged /\ AnnouncedUnchanged

ProtectMaster(s) ==
    SetCloseOnExec(s, "master", "protectMaster", "publish")

ProtectMasterFails(s) ==
    /\ Faults
    /\ Goto(s, "protectMaster", "fail")
    /\ FailsWith(s, "system")
    /\ Kill(s)
    /\ Close(s, {"master", "read"})
    /\ UNCHANGED report
    /\ SharedUnchanged /\ AnnouncedUnchanged

-----------------------------------------------------------------------------
(* Run() and CheckExec().                                                   *)

Publish(s) ==
    /\ Goto(s, "publish", "checkExec")
    /\ master_fd' = [master_fd EXCEPT ![s] = number[s]["master"]]
    /\ UNCHANGED <<kqueue_fd, error, child, report>>
    /\ FilesUnchanged /\ AnnouncedUnchanged

\* The processes whose table still has the write end of the pipe of s.
Holds(table, s) == \E f \in Fd : table[f] = File("write", s)
WriteEndOpen(s) ==
    Holds(files, s) \/ \E t \in Sessions : Holds(child[t].files, s)

ExecReports(s) ==
    /\ report[s]
    /\ Goto(s, "checkExec", "terminate")
    /\ FailsWith(s, "child")
    /\ Close(s, {"read"})
    /\ UNCHANGED <<child, report>>
    /\ SharedUnchanged /\ AnnouncedUnchanged

\* End of file: every copy of the write end is gone, so exec has succeeded.
ExecSucceeds(s) ==
    /\ ~report[s] /\ ~WriteEndOpen(s)
    /\ Goto(s, "checkExec", "kqueue")
    /\ Close(s, {"read"})
    /\ UNCHANGED <<error, child, report>>
    /\ SharedUnchanged /\ AnnouncedUnchanged

\* poll() answers nothing for five seconds, or fails.  The pipe stays open.
ExecTimesOut(s) ==
    /\ ~report[s] /\ WriteEndOpen(s)
    /\ Goto(s, "checkExec", "terminate")
    /\ FailsWith(s, "timeout")
    /\ UNCHANGED <<child, report>>
    /\ FilesUnchanged /\ SharedUnchanged /\ AnnouncedUnchanged

CheckExecFails(s) ==
    /\ Faults
    /\ Goto(s, "checkExec", "terminate")
    /\ FailsWith(s, "system")
    /\ UNCHANGED <<child, report>>
    /\ FilesUnchanged /\ SharedUnchanged /\ AnnouncedUnchanged

TerminateAndReap(s) ==
    /\ Goto(s, "terminate", "takeQueue")
    /\ Kill(s)
    /\ UNCHANGED <<error, report>>
    /\ FilesUnchanged /\ SharedUnchanged /\ AnnouncedUnchanged

-----------------------------------------------------------------------------
(* ConfigureKqueue(): the descriptor is published when it is ready.         *)

OpenKqueue(s) ==
    /\ Free(0) # {}
    /\ Goto(s, "kqueue", "register")
    /\ Open(s, "queue", Lowest(0))
    /\ UNCHANGED <<close_on_exec, error, child, report>>
    /\ SharedUnchanged /\ AnnouncedUnchanged

KqueueFails(s) ==
    /\ Faults \/ Free(0) = {}
    /\ Goto(s, "kqueue", "terminate")
    /\ FailsWith(s, "system")
    /\ UNCHANGED <<child, report>>
    /\ FilesUnchanged /\ SharedUnchanged /\ AnnouncedUnchanged

Register(s) ==
    /\ Goto(s, "register", "announce")
    /\ kqueue_fd' = [kqueue_fd EXCEPT ![s] = number[s]["queue"]]
    /\ UNCHANGED <<master_fd, error, child, report>>
    /\ FilesUnchanged /\ AnnouncedUnchanged

\* The child has exited and is not reaped; EVFILT_PROC refuses it.
Gone(s) == child[s].status \in {"failed", "dead"}

RegisterFails(s) ==
    /\ Faults \/ Gone(s)
    /\ Goto(s, "register", "terminate")
    /\ FailsWith(s, "system")
    /\ Close(s, {"queue"})
    /\ UNCHANGED <<child, report>>
    /\ SharedUnchanged /\ AnnouncedUnchanged

Announce(s) ==
    /\ Goto(s, "announce", "control")
    /\ started' = [started EXCEPT ![s] = TRUE]
    /\ UNCHANGED <<state, error, child, report>>
    /\ FilesUnchanged /\ SharedUnchanged

\* ProcessControl() once, then EventLoop().
EnterLoop(s) ==
    /\ Goto(s, "control", "wait")
    /\ UNCHANGED <<error, child, report>>
    /\ FilesUnchanged /\ SharedUnchanged /\ AnnouncedUnchanged

-----------------------------------------------------------------------------
(* The end: EventLoop() returns, CloseDescriptors(), FinishError().         *)

ExitIsReaped(s) ==
    /\ Gone(s)
    /\ Goto(s, "wait", "takeQueue")
    /\ state' = [state EXCEPT ![s] = "finished"]
    /\ Kill(s)
    /\ UNCHANGED <<error, started, report>>
    /\ FilesUnchanged /\ SharedUnchanged

LoopFails(s) ==
    /\ Faults
    /\ Goto(s, "wait", "takeQueue")
    /\ state' = [state EXCEPT ![s] = "finished"]
    /\ FailsWith(s, "system")
    /\ Kill(s)
    /\ UNCHANGED <<started, report>>
    /\ FilesUnchanged /\ SharedUnchanged

StillPublished(s) ==
    /\ Goto(s, "takeQueue", "closeQueue")
    /\ UNCHANGED <<master_fd, kqueue_fd, error, child, report>>
    /\ FilesUnchanged /\ AnnouncedUnchanged

TakeQueue(s) ==
    /\ Goto(s, "takeQueue", "closeQueue")
    /\ kqueue_fd' = [kqueue_fd EXCEPT ![s] = -1]
    /\ UNCHANGED <<master_fd, error, child, report>>
    /\ FilesUnchanged /\ AnnouncedUnchanged

\* The kqueue and, when CheckExec() left it open, the error pipe.
CloseQueue(s) ==
    /\ Goto(s, "closeQueue", "takeMaster")
    /\ Close(s, {"queue", "read"})
    /\ UNCHANGED <<error, child, report>>
    /\ SharedUnchanged /\ AnnouncedUnchanged

TakeMaster(s) ==
    /\ Goto(s, "takeMaster", "closeMaster")
    /\ master_fd' = [master_fd EXCEPT ![s] = -1]
    /\ UNCHANGED <<kqueue_fd, error, child, report>>
    /\ FilesUnchanged /\ AnnouncedUnchanged

\* A session that failed before its event loop reports it only now.
CloseMaster(s) ==
    /\ Goto(s, "closeMaster",
            IF state[s] = "finished" THEN "ended" ELSE "fail")
    /\ Close(s, {"master"})
    /\ UNCHANGED <<error, child, report>>
    /\ SharedUnchanged /\ AnnouncedUnchanged

FinishError(s) ==
    /\ Goto(s, "fail", "ended")
    /\ state' = [state EXCEPT ![s] = "finished"]
    /\ UNCHANGED <<error, started, child, report>>
    /\ FilesUnchanged /\ SharedUnchanged

-----------------------------------------------------------------------------
(* dpty_exec_child(), in the forked process.                                *)

ReactorUnchanged == UNCHANGED <<pc, error>> /\ FilesUnchanged
                    /\ SharedUnchanged /\ AnnouncedUnchanged

\* The child closes the read end by its number; exec drops the close-on-exec
\* descriptors.
ChildExecs(s) ==
    LET gone == child[s].close_on_exec \cup {child[s].read} IN
    /\ child[s].status = "forked"
    /\ child' = [child EXCEPT
                    ![s].status = "execed",
                    ![s].close_on_exec = {},
                    ![s].files = [f \in Fd |->
                                     IF f \in gone THEN Closed ELSE @[f]]]
    /\ UNCHANGED report
    /\ ReactorUnchanged

\* chdir() or execve() fails: errno goes to the write end, by its number.
ChildFails(s) ==
    /\ child[s].status = "forked"
    /\ report' = [report EXCEPT ![s] =
                     @ \/ child[s].files[child[s].write] = File("write", s)]
    /\ child' = [child EXCEPT ![s] = [NoChild EXCEPT !.status = "failed"]]
    /\ ReactorUnchanged

ChildEnds(s) ==
    /\ child[s].status = "execed"
    /\ child' = [child EXCEPT ![s] = [NoChild EXCEPT !.status = "dead"]]
    /\ UNCHANGED report
    /\ ReactorUnchanged

-----------------------------------------------------------------------------
Prepared(s) ==
    \/ MakePipe(s) \/ PipeFails(s) \/ PrepareMoveRead(s)
    \/ PrepareMoveWrite(s) \/ PrepareProtectRead(s) \/ PrepareProtectWrite(s)
    \/ PrepareFails(s) \/ Forkpty(s) \/ ForkptyFails(s) \/ Release(s)
    \/ ProtectMaster(s) \/ ProtectMasterFails(s)
Executed(s) ==
    \/ Publish(s) \/ ExecReports(s) \/ ExecSucceeds(s) \/ ExecTimesOut(s)
    \/ CheckExecFails(s) \/ TerminateAndReap(s)
Configured(s) ==
    \/ OpenKqueue(s) \/ KqueueFails(s) \/ Register(s) \/ RegisterFails(s)
    \/ Announce(s)
Ended(s) ==
    \/ ExitIsReaped(s) \/ LoopFails(s) \/ TakeQueue(s) \/ CloseQueue(s)
    \/ TakeMaster(s) \/ CloseMaster(s) \/ FinishError(s)
ChildSteps(s) == ChildExecs(s) \/ ChildFails(s) \/ ChildEnds(s)

Reactor(s) == Prepared(s) \/ Executed(s) \/ Configured(s) \/ Ended(s)
SpawnNext ==
    \E s \in Sessions : Begin(s) \/ Reactor(s) \/ EnterLoop(s) \/ ChildSteps(s)
SpawnSpec == SpawnInit /\ [][SpawnNext]_spawnVars

-----------------------------------------------------------------------------
Numbers == Fd \cup {-1}
Places == {"idle", "pipe", "moveRead", "moveWrite", "protectRead",
           "protectWrite", "forkpty", "release", "protectMaster", "publish",
           "checkExec", "terminate", "kqueue", "register", "announce",
           "control", "wait", "takeQueue", "closeQueue", "takeMaster",
           "closeMaster", "fail", "ended"}
Files == [kind : Kinds, of : Sessions] \cup {Closed, HostFile}
ChildFiles == Files \cup [kind : {"slave"}, of : Sessions]
ChildStates == [status : {"none", "forked", "execed", "failed", "dead", "reaped"},
                files : [Fd -> ChildFiles], close_on_exec : SUBSET Fd,
                read : Numbers, write : Numbers]

\* Types: every descriptor, table entry and thread position keeps its range.
SpawnTypeOK ==
    /\ pc \in [Sessions -> Places]
    /\ state \in [Sessions -> {"created", "running", "finished"}]
    /\ error \in [Sessions -> {"none", "system", "timeout", "child"}]
    /\ started \in [Sessions -> BOOLEAN]
    /\ files \in [Fd -> Files]
    /\ close_on_exec \subseteq Fd
    /\ number \in [Sessions -> [Kinds -> Numbers]]
    /\ master_fd \in [Sessions -> Numbers]
    /\ kqueue_fd \in [Sessions -> Numbers]
    /\ child \in [Sessions -> ChildStates]
    /\ report \in [Sessions -> BOOLEAN]

\* A descriptor that other threads may read from the session is open and is
\* the session's own, whatever the other sessions open, close and reuse: the
\* member is cleared before the descriptor is closed.
PublishedIsOwn ==
    \A s \in Sessions :
        /\ master_fd[s] # -1 => files[master_fd[s]] = File("master", s)
        /\ kqueue_fd[s] # -1 => files[kqueue_fd[s]] = File("queue", s)

\* Whichever call failed, an ended session leaves no descriptor in the host
\* and no child that runs or waits to be reaped.
NothingLeaks ==
    \A s \in Sessions : pc[s] = "ended" =>
        /\ \A f \in Fd : files[f].of # s
        /\ child[s].status \in {"none", "reaped"}

\* STARTED is only emitted for a child that is running the program, with its
\* own terminal as its three standard descriptors, and never for one whose
\* exec failed, whatever standard descriptors the host itself has.
StartedIsTrue ==
    \A s \in Sessions : started[s] =>
        /\ child[s].status \in {"execed", "dead", "reaped"}
        /\ child[s].status = "execed" =>
               \A f \in Std : child[s].files[f] = File("slave", s)
=============================================================================
