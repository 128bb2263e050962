----------------------------- MODULE PtyProcess -----------------------------
(***************************************************************************)
(* One session and the processes of the system: the child and its jobs,    *)
(* what the reactor signals and reaps by a process id, and what a snapshot *)
(* call reads by one.  The kernel may give an id out again as soon as its  *)
(* process has been reaped.  Every process here leads its own group; what  *)
(* the scan of a snapshot makes of a larger group is module PtyJob, and    *)
(* the bytes, the credit and the descriptors are modules PtySession and    *)
(* PtySpawn.                                                               *)
(***************************************************************************)
EXTENDS PtyJob

CONSTANTS
    Pids,              \* process ids
    Faults             \* exec, kqueue and kevent may fail; others may reap

ASSUME ProcessAssumption == 0 \notin Pids /\ Faults \in BOOLEAN

VARIABLES
    process,           \* what the kernel has under an id
    foreground,        \* the terminal's foreground group, 0 when it has none
    notified,          \* the kernel has told of the child's exit
    lost,              \* another waiter of the process reaped the child
    state,             \* state_
    child_pid,         \* child_pid_, 0 for none
    child_completed,   \* child_completed_
    requested,         \* pending_signals_, closing_, force_close_requested_
    taken,             \* what ProcessControl() found requested
    close_started,     \* close_started_
    deadline,          \* close_kill_deadline_ is set
    reactor,           \* where the thread stands
    aim,               \* locals of the function that is sending a signal, and
                       \* whether the foreground number has passed on by now
    strays,            \* signals that met someone else, and under whose number
    call               \* the snapshot call of the client

kernelVars == <<process, foreground, lost>>
requestVars == <<requested, taken, close_started, deadline>>
signalVars == <<aim, strays>>
vars == <<kernelVars, notified, state, child_pid, child_completed, requestVars,
          reactor, signalVars, call>>

NoAim == [signal |-> "none", then |-> "none", foreground |-> 0, group |-> 0,
          signaled |-> FALSE, passed |-> FALSE]
NoCall == [step |-> "idle", child |-> 0, owning |-> 0, foreground |-> 0,
           described |-> "nothing"]

Init ==
    /\ process = [p \in Pids |-> "free"]
    /\ foreground = 0 /\ notified = FALSE /\ lost = FALSE
    /\ state = "created" /\ child_pid = 0 /\ child_completed = FALSE
    /\ requested = {} /\ taken = {} /\ close_started = FALSE /\ deadline = FALSE
    /\ reactor = "none" /\ aim = NoAim /\ strays = {} /\ call = NoCall

-----------------------------------------------------------------------------
(* The kernel and the other processes.                                      *)

Is(p, kinds) == p \in Pids /\ process[p] \in kinds
Becomes(p, kind) == process' = [process EXCEPT ![p] = kind]

\* An id does not come back within one snapshot call: ids go round.
Available(p) == Is(p, {"free"}) /\ p \notin {call.child, call.foreground}

NoSignal == UNCHANGED <<notified, state, child_pid, child_completed, requestVars,
                        reactor, strays, call>>
OnlyKernel == NoSignal /\ UNCHANGED aim

\* The child leads the session of its terminal: its end revokes it.
ChildExits ==
    /\ \E p \in Pids : process[p] = "child" /\ Becomes(p, "zombie")
    /\ foreground' = 0
    /\ UNCHANGED lost /\ OnlyKernel

ExternalReap ==
    /\ Faults
    /\ \E p \in Pids : process[p] = "zombie" /\ Becomes(p, "free")
    /\ lost' = TRUE
    /\ UNCHANGED foreground /\ OnlyKernel

JobStarts ==
    /\ \E p \in Pids : process[p] = "child"
    /\ \E p \in Pids : Available(p) /\ Becomes(p, "job")
    /\ UNCHANGED <<foreground, lost>> /\ OnlyKernel

\* The child or one of its jobs gets the terminal.
TakesTerminal ==
    /\ \E p \in Pids : process[p] = "child"
    /\ \E p \in Pids : process[p] \in {"child", "job"} /\ foreground' = p
    /\ UNCHANGED <<process, lost>> /\ OnlyKernel

\* A job ends, and is reaped by its parent.
JobEnds ==
    /\ \E p \in Pids : process[p] = "job" /\ Becomes(p, "over")
    /\ UNCHANGED <<foreground, lost>> /\ OnlyKernel

JobReaped ==
    /\ \E p \in Pids : /\ process[p] = "over" /\ Becomes(p, "free")
                       /\ foreground' = IF foreground = p THEN 0 ELSE foreground
                       /\ aim' = [aim EXCEPT !.passed = @ \/ aim.foreground = p]
    /\ UNCHANGED lost /\ NoSignal

StrangerStarts ==
    /\ \E p \in Pids : Available(p) /\ Becomes(p, "stranger")
    /\ UNCHANGED <<foreground, lost>> /\ OnlyKernel

StrangerEnds ==
    /\ \E p \in Pids : process[p] = "stranger" /\ Becomes(p, "free")
    /\ UNCHANGED <<foreground, lost>> /\ OnlyKernel

Kernel ==
    \/ ChildExits \/ ExternalReap \/ JobStarts \/ TakesTerminal \/ JobEnds
    \/ JobReaped \/ StrangerStarts \/ StrangerEnds

-----------------------------------------------------------------------------
(* SendToForeground() and SendToProcessGroups(), a kernel call per step: what *)
(* one has told may have changed when the next one is made.                  *)

Goto(from, to) == reactor = from /\ reactor' = to
SameRequests == UNCHANGED <<requestVars, call>>
SameChild == UNCHANGED <<state, child_pid, child_completed>>
SameKernel == UNCHANGED <<kernelVars, notified>>

\* Calls one of them; the reactor goes on at `then`.
Send(signal, then) ==
    /\ reactor' = "terminal"
    /\ aim' = [NoAim EXCEPT !.signal = signal, !.then = then]
    /\ UNCHANGED strays

\* getpgid() and the members of a group: a zombie is in neither.
Group(p) == IF Is(p, {"child", "job", "stranger"}) THEN p ELSE 0

\* Whose number it is, to the reactor.
Number(p) == IF p = child_pid THEN "child" ELSE IF aim.passed THEN "passed" ELSE "job"

\* kill(): it may be refused.  What a signal does to its taker is the kernel's
\* later step, if any.
Deliver(p, sent) ==
    /\ sent => Group(p) # 0
    /\ strays' = IF sent /\ Is(p, {"stranger"})
                 THEN strays \cup {<<aim.signal, Number(p)>>} ELSE strays

OnlySignals == SameKernel /\ SameChild /\ SameRequests

\* tcgetpgrp(); SendToForeground() asks for no group.
AimTerminal ==
    /\ reactor = "terminal"
    /\ reactor' = IF aim.signal = "signal" THEN "killForeground" ELSE "getGroup"
    /\ aim' = [aim EXCEPT !.foreground = foreground]
    /\ UNCHANGED strays /\ OnlySignals

AimGroup ==
    /\ Goto("getGroup", "killForeground")
    /\ aim' = [aim EXCEPT !.group = Group(child_pid)]
    /\ UNCHANGED strays /\ OnlySignals

KillForeground ==
    /\ Goto("killForeground", "killGroup")
    /\ \E sent \in BOOLEAN :
          /\ Deliver(aim.foreground, sent)
          /\ aim' = [aim EXCEPT !.signaled =
                        sent /\ (aim.signal = "signal" \/ aim.group = aim.foreground)]
    /\ OnlySignals

KillGroup ==
    /\ Goto("killGroup", "killChild")
    /\ IF aim.group \notin {0, aim.foreground}
       THEN \E sent \in BOOLEAN : /\ Deliver(aim.group, sent)
                                  /\ aim' = [aim EXCEPT !.signaled = sent]
       ELSE UNCHANGED <<aim, strays>>
    /\ OnlySignals

KillChild ==
    /\ Goto("killChild", aim.then)
    /\ IF child_pid # 0 /\ ~aim.signaled
       THEN \E sent \in BOOLEAN : Deliver(child_pid, sent)
       ELSE UNCHANGED strays
    /\ aim' = NoAim
    /\ OnlySignals

Signals == AimTerminal \/ AimGroup \/ KillForeground \/ KillGroup \/ KillChild

-----------------------------------------------------------------------------
(* The requests.                                                            *)

Request(what) ==
    /\ state = "running"
    /\ requested' = requested \cup {what}
    /\ UNCHANGED <<kernelVars, notified, state, child_pid, child_completed,
                   taken, close_started, deadline, reactor, signalVars, call>>

Closing == close_started \/ requested \cap {"close", "force"} # {}
SendSignal == ~child_completed /\ ~Closing /\ Request("signal")
Close == ~Closing /\ Request("close")
ForceClose == Request("force")

-----------------------------------------------------------------------------
(* The reactor.                                                             *)

Start ==
    /\ state = "created"
    /\ state' = "running" /\ Goto("none", "spawn")
    /\ UNCHANGED <<child_pid, child_completed, signalVars>>
    /\ SameKernel /\ SameRequests

Spawn ==
    /\ Goto("spawn", "configure")
    /\ \E p \in Pids : /\ Available(p) /\ Becomes(p, "child")
                       /\ child_pid' = p /\ foreground' = p
    /\ UNCHANGED <<lost, notified, state, child_completed, signalVars>>
    /\ SameRequests

\* CheckExec() and ConfigureKqueue().
Configure ==
    /\ Goto("configure", "control")
    /\ UNCHANGED signalVars /\ SameKernel /\ SameChild /\ SameRequests

\* kevent() tells of the child's exit once, whoever reaps it.
KeventReturns ==
    /\ \/ /\ Goto("wait", "reapFirst")
          /\ ~notified /\ ~Is(child_pid, {"child"})
          /\ notified' = TRUE
       \/ Goto("wait", "control") /\ UNCHANGED notified
    /\ UNCHANGED <<kernelVars, signalVars>> /\ SameChild /\ SameRequests

\* ProcessControl() takes the requests; a forced close is no begun one.
ProcessControl ==
    /\ Goto("control", "signal")
    /\ taken' = IF close_started \/ "force" \in requested
                THEN requested \ {"close"} ELSE requested
    /\ requested' = {}
    /\ close_started' = Closing
    /\ UNCHANGED <<deadline, signalVars, call>> /\ SameKernel /\ SameChild

DeliverSignals ==
    /\ reactor = "signal"
    /\ IF "signal" \in taken THEN Send("signal", "close")
       ELSE reactor' = "close" /\ UNCHANGED signalVars
    /\ SameKernel /\ SameChild /\ SameRequests

CloseBegins ==
    /\ reactor = "close"
    /\ \/ /\ "force" \in taken /\ ~child_completed
          /\ Send("kill", "grace")
          /\ deadline' = FALSE
       \/ /\ "close" \in taken
          /\ Send("hangup", "grace")
          /\ deadline' = TRUE
       \/ /\ "close" \notin taken /\ ("force" \in taken => child_completed)
          /\ reactor' = "grace"
          /\ UNCHANGED <<signalVars, deadline>>
    /\ taken' = {}
    /\ UNCHANGED <<requested, close_started, call>> /\ SameKernel /\ SameChild

MayKillTheReaped == close_started /\ deadline

\* The grace period may be over.
MayKill == close_started /\ ~child_completed /\ deadline

GraceExpires ==
    /\ reactor = "grace"
    /\ \/ MayKill /\ Send("kill", "reap") /\ deadline' = FALSE
       \/ reactor' = "reap" /\ UNCHANGED <<signalVars, deadline>>
    /\ UNCHANGED <<requested, taken, close_started, call>>
    /\ SameKernel /\ SameChild

\* waitpid() with WNOHANG: the zombie is reaped or, when another waiter has
\* been faster, the kernel's notice completes the child.
Reap(from, to) ==
    /\ Goto(from, to)
    /\ \/ /\ ~child_completed /\ Is(child_pid, {"zombie"})
          /\ Becomes(child_pid, "free") /\ child_completed' = TRUE
       \/ /\ ~child_completed /\ ~Is(child_pid, {"child", "zombie"})
          /\ child_completed' = notified /\ UNCHANGED process
       \/ /\ child_completed \/ Is(child_pid, {"child"})
          /\ UNCHANGED <<process, child_completed>>
    /\ UNCHANGED <<foreground, lost, notified, state, child_pid, signalVars>>
    /\ SameRequests

ReapFirst == Reap("reapFirst", "control")
ReapChild == Reap("reap", "wait")

\* FinishExit(), once the output has been read and acknowledged.
FinishExit ==
    /\ child_completed
    /\ Goto("wait", "ended")
    /\ state' = "finished"
    /\ UNCHANGED <<child_pid, child_completed, signalVars>>
    /\ SameKernel /\ SameRequests

\* TerminateAndReap(), whatever is known of the child by then.
Terminate ==
    /\ Faults
    /\ reactor \in {"configure", "wait"}
    /\ Send("terminate", "collect")
    /\ SameKernel /\ SameChild /\ SameRequests

\* Its waitpid() returns when the child has exited; then FinishError().
Collect ==
    /\ Goto("collect", "ended")
    /\ ~Is(child_pid, {"child"})
    /\ process' = [p \in Pids |-> IF p = child_pid /\ process[p] = "zombie"
                                  THEN "free" ELSE process[p]]
    /\ state' = "finished" /\ child_pid' = 0
    /\ UNCHANGED <<foreground, lost, notified, child_completed, signalVars>>
    /\ SameRequests

Reactor ==
    \/ Spawn \/ Configure \/ KeventReturns \/ ProcessControl \/ DeliverSignals
    \/ CloseBegins \/ GraceExpires \/ ReapFirst \/ ReapChild \/ FinishExit
    \/ Terminate \/ Signals \/ Collect

-----------------------------------------------------------------------------
(* GetForegroundJobSnapshot(): two parts under the lock, the scan between.  *)

Calls(new) ==
    /\ call' = new
    /\ UNCHANGED <<requestVars, reactor, signalVars>> /\ SameKernel /\ SameChild

\* Everything but a distinct foreground group is answered at once.
Observe ==
    /\ call.step = "idle" /\ state = "running" /\ child_pid # 0
    /\ Group(child_pid) # 0 /\ foreground \notin {0, Group(child_pid)}
    /\ Calls([step |-> "scan", child |-> child_pid, owning |-> Group(child_pid),
              foreground |-> foreground, described |-> "nothing"])

\* The members, the path and the arguments are those of the id by then.
ScanGroup ==
    /\ call.step = "scan"
    /\ Calls([call EXCEPT
                 !.step = "revalidate",
                 !.described = IF Group(call.foreground) = 0 THEN "nothing"
                               ELSE process[call.foreground]])

BelievesTheFirst == state = "running"

StillForeground ==
    /\ state = "running" /\ child_pid = call.child
    /\ Group(child_pid) = call.owning /\ foreground = call.foreground

\* AVAILABLE, or everything is cleared.
Revalidate ==
    /\ call.step = "revalidate"
    /\ Calls(IF StillForeground /\ call.described # "nothing"
             THEN [call EXCEPT !.step = "available"] ELSE NoCall)

Answer == call.step = "available" /\ Calls(NoCall)

-----------------------------------------------------------------------------
Client ==
    \/ Start \/ SendSignal \/ Close \/ ForceClose
    \/ Observe \/ ScanGroup \/ Revalidate \/ Answer
Next == Kernel \/ Client \/ Reactor
Spec == Init /\ [][Next]_vars

-----------------------------------------------------------------------------
Signal == {"signal", "hangup", "kill", "terminate"}

\* Types: every variable keeps its range.
TypeOK ==
    /\ process \in [Pids -> {"free", "child", "zombie", "job", "over", "stranger"}]
    /\ foreground \in Pids \cup {0} /\ child_pid \in Pids \cup {0}
    /\ notified \in BOOLEAN /\ lost \in BOOLEAN /\ child_completed \in BOOLEAN
    /\ close_started \in BOOLEAN /\ deadline \in BOOLEAN
    /\ state \in {"created", "running", "finished"}
    /\ requested \subseteq {"signal", "close", "force"}
    /\ taken \subseteq {"signal", "close", "force"}
    /\ strays \subseteq Signal \X {"child", "job", "passed"}
    /\ aim \in [signal : Signal \cup {"none"},
                then : {"none", "close", "grace", "reap", "collect"},
                foreground : Pids \cup {0}, group : Pids \cup {0},
                signaled : BOOLEAN, passed : BOOLEAN]
    /\ reactor \in {"none", "spawn", "configure", "control", "signal", "close",
                    "grace", "reapFirst", "reap", "wait", "collect", "ended",
                    "terminal", "getGroup", "killForeground", "killGroup",
                    "killChild"}
    /\ call \in [step : {"idle", "scan", "revalidate", "available"},
                 child : Pids \cup {0}, owning : Pids \cup {0},
                 foreground : Pids \cup {0},
                 described : {"nothing", "child", "job", "stranger"}]

\* The SIGKILL of a forced close or an expired grace period never meets a
\* process of someone else under the child's number, although the session keeps
\* the number of a child it has reaped; only another waiter of the process can
\* take it away unnoticed.  The kill behind a failed kevent() is only safe before
\* the reap.  Under the number of the foreground job no signal meets anyone else,
\* unless it has passed on since tcgetpgrp() told it to the very sender.
KillIsAimed ==
    /\ <<"kill", "child">> \in strays => lost
    /\ <<"terminate", "child">> \in strays => lost \/ child_completed
    /\ \A signal \in Signal : <<signal, "job">> \notin strays

\* A snapshot that claims a foreground job describes the very job that has the
\* terminal when it returns, of a shell that lives, whatever jobs have come,
\* gone and changed places since the call began.
JobIsCurrent ==
    [][call'.step = "available" /\ call.step # "available" =>
          /\ call.described = "job"
          /\ process[call.foreground] \in {"job", "over"}
          /\ foreground = call.foreground
          /\ process[call.child] = "child"]_vars

\* A snapshot that found a job describes it exactly: whatever the kernel
\* answered, the members, their count and order, the primary and its arguments
\* are the documented ones.
SnapshotExact == call.described = "job" => JobExact
=============================================================================
