-------------------------- MODULE PtyProcessProofs --------------------------
(***************************************************************************)
(* Signals are aimed and snapshots current, for any number of process ids, *)
(* jobs and strangers; and what a snapshot computes is exact, for groups,  *)
(* start times, arguments and limits of any size.                          *)
(***************************************************************************)
EXTENDS PtyProcess, SequenceTheorems, FiniteSetTheorems, WellFoundedInduction,
        TLAPS

USE ProcessAssumption

-----------------------------------------------------------------------------
KernelTyped ==
    /\ process \in [Pids -> {"free", "child", "zombie", "job", "over", "stranger"}]
    /\ foreground \in Pids \cup {0} /\ child_pid \in Pids \cup {0}

\* Only child_pid names the child, and before the spawn there is none.
ChildKnown ==
    /\ \A p \in Pids : process[p] \in {"child", "zombie"} => p = child_pid
    /\ reactor \in {"none", "spawn"} => child_pid = 0
\* The terminal belongs to the living child or one of its jobs.
TerminalOwned ==
    foreground # 0 => /\ process[foreground] \in {"child", "job", "over"}
                      /\ child_pid # 0 /\ process[child_pid] = "child"
\* A child that was neither completed nor lost has its id.
ChildHeld ==
    reactor \notin {"none", "spawn", "ended"} =>
        /\ child_pid \in Pids
        /\ ~lost /\ ~child_completed => process[child_pid] \in {"child", "zombie"}

\* What a snapshot call has seen: its group is still that of its job, or of
\* no one.
CallHolds ==
    /\ call \in [step : {"idle", "scan", "revalidate", "available"},
                 child : Pids \cup {0}, owning : Pids \cup {0},
                 foreground : Pids \cup {0}, described : {"nothing", "job"}]
    /\ call.step # "idle" => /\ call.foreground \in Pids
                             /\ process[call.foreground] \in {"job", "over", "free"}

Aiming == {"terminal", "getGroup", "killForeground", "killGroup", "killChild"}
AimTyped ==
    aim \in [signal : Signal \cup {"none"},
            then : {"none", "close", "grace", "reap", "collect"},
            foreground : Pids \cup {0}, group : Pids \cup {0},
            signaled : BOOLEAN, passed : BOOLEAN]
\* What the reactor knows while it sends a signal: the foreground number is that
\* of the job it was told of until it passes on, a group is only ever the child's,
\* and a SIGKILL is under way only before the child has been collected.
AimHolds ==
    /\ AimTyped
    /\ reactor \in Aiming => aim.signal # "none" /\ aim.then # "none"
    /\ reactor \notin Aiming => aim = NoAim
    /\ aim.signal = "kill" => ~child_completed
    /\ aim.group \in {0, child_pid}
    /\ \/ aim.foreground \in {0, child_pid} \/ aim.passed
       \/ process[aim.foreground] \in {"job", "over"}

IInv == KernelTyped /\ ChildKnown /\ TerminalOwned /\ ChildHeld /\ CallHolds
        /\ AimHolds /\ KillIsAimed

-----------------------------------------------------------------------------
\* What the steps of the kernel leave alone.
LEMMA KernelOnly ==
    ASSUME Kernel
    PROVE  /\ child_pid' = child_pid /\ child_completed' = child_completed
           /\ reactor' = reactor /\ strays' = strays /\ call' = call
           /\ lost => lost'
           /\ ~JobReaped => aim' = aim
BY DEF Kernel, ChildExits, ExternalReap, JobStarts, TakesTerminal, JobEnds,
   JobReaped, StrangerStarts, StrangerEnds, OnlyKernel, NoSignal

\* Each of its steps keeps what is known of the processes.
LEMMA KernelKeepsOthers ==
    ASSUME IInv, Kernel
    PROVE  /\ KernelTyped' /\ ChildKnown' /\ TerminalOwned' /\ ChildHeld'
           /\ CallHolds' /\ KillIsAimed'
<1> USE DEF IInv, KernelTyped, ChildKnown, TerminalOwned, ChildHeld, CallHolds,
        KillIsAimed, Becomes
<1>1. CASE ChildExits
  BY <1>1, KernelOnly DEF ChildExits
<1>2. CASE ExternalReap
  BY <1>2, KernelOnly DEF ExternalReap
<1>3. CASE JobStarts
  BY <1>3, KernelOnly DEF JobStarts, Available, Is
<1>4. CASE TakesTerminal
  BY <1>4, KernelOnly DEF TakesTerminal
<1>5. CASE JobEnds
  BY <1>5, KernelOnly DEF JobEnds
<1>6. CASE JobReaped
  BY <1>6, KernelOnly DEF JobReaped
<1>7. CASE StrangerStarts
  BY <1>7, KernelOnly DEF StrangerStarts, Available, Is
<1>8. CASE StrangerEnds
  BY <1>8, KernelOnly DEF StrangerEnds
<1> QED BY <1>1, <1>2, <1>3, <1>4, <1>5, <1>6, <1>7, <1>8 DEF Kernel

\* The number of a foreground job that is reaped passes on.
LEMMA ReapedPasses ==
    ASSUME IInv, JobReaped
    PROVE  AimHolds'
<1> USE DEF IInv, KernelTyped, AimHolds, AimTyped
<1>1. PICK p \in Pids :
         /\ process[p] = "over" /\ process' = [process EXCEPT ![p] = "free"]
         /\ foreground' = IF foreground = p THEN 0 ELSE foreground
         /\ aim' = [aim EXCEPT !.passed = @ \/ aim.foreground = p]
  BY DEF JobReaped, Becomes
<1>2. /\ child_pid' = child_pid /\ child_completed' = child_completed
      /\ reactor' = reactor /\ strays' = strays /\ call' = call /\ lost' = lost
  BY KernelOnly DEF JobReaped, Kernel
<1>3. /\ AimTyped' /\ aim'.signal = aim.signal /\ aim'.then = aim.then
      /\ aim'.group = aim.group /\ aim'.foreground = aim.foreground
      /\ aim.passed => aim'.passed
      /\ aim.foreground = p => aim'.passed
      /\ aim.foreground # p => aim' = aim
  <2> DEFINE b == aim.passed \/ aim.foreground = p
  <2>1. b \in BOOLEAN /\ aim' = [aim EXCEPT !.passed = b]
    BY <1>1
  <2> HIDE DEF b
  <2>2. /\ AimTyped' /\ aim'.signal = aim.signal /\ aim'.then = aim.then
        /\ aim'.group = aim.group /\ aim'.foreground = aim.foreground
        /\ aim'.passed = b
        /\ b = aim.passed => aim' = aim
    BY <2>1
  <2>3. /\ aim.passed => b
        /\ aim.foreground = p => b
        /\ aim.foreground # p => b = aim.passed
    BY DEF b
  <2> QED BY <2>2, <2>3, Zenon
<1>4. reactor \notin Aiming => aim.foreground # p
  BY DEF NoAim
<1> QED BY <1>1, <1>2, <1>3, <1>4

LEMMA KernelKeeps ==
    ASSUME IInv, Kernel
    PROVE  IInv'
<1>1. ASSUME ~JobReaped PROVE AimHolds'
  <2>1. /\ aim' = aim /\ child_pid' = child_pid /\ reactor' = reactor
        /\ child_completed' = child_completed
    BY <1>1, KernelOnly
  <2>2. \A p \in Pids : process[p] \in {"job", "over"} => process'[p] \in {"job", "over"}
    BY <1>1 DEF Kernel, ChildExits, ExternalReap, JobStarts, TakesTerminal, JobEnds,
       StrangerStarts, StrangerEnds, Available, Is, Becomes, IInv, KernelTyped
  <2> QED BY <2>1, <2>2 DEF IInv, AimHolds, AimTyped
<1> QED BY <1>1, ReapedPasses, KernelKeepsOthers DEF IInv

\* What a signal can meet under the number it is sent to: not the child, while
\* no one else has collected it, and no job but one whose number has passed on.
LEMMA DeliverKeeps ==
    ASSUME IInv, reactor \in Aiming, NEW p \in {aim.foreground, child_pid},
           NEW sent, Deliver(p, sent), lost' = lost,
           child_completed' = child_completed
    PROVE  KillIsAimed' /\ strays \subseteq strays'
           /\ strays' \subseteq strays \cup Signal \X {"child", "job", "passed"}
<1> DEFINE w == <<aim.signal, Number(p)>>
<1>1. aim.signal \in Signal /\ Number(p) \in {"child", "job", "passed"}
  BY DEF IInv, AimHolds, AimTyped, Number
<1>2. strays' = strays \/ (strays' = strays \cup {w} /\ Is(p, {"stranger"}))
  BY DEF Deliver
<1>3. CASE strays' = strays
  BY <1>3 DEF IInv, KillIsAimed
<1>4. CASE strays' = strays \cup {w} /\ Is(p, {"stranger"})
  <2>1. p \in Pids /\ process[p] = "stranger"
    BY <1>4 DEF Is
  <2>2. p = child_pid => lost \/ child_completed
    BY <2>1 DEF IInv, ChildHeld, Aiming
  <2>3. Number(p) # "job"
    <3>1. p # child_pid => p = aim.foreground
      OBVIOUS
    <3>2. p # child_pid => aim.passed
      BY <2>1, <3>1, ProcessAssumption DEF IInv, AimHolds
    <3> QED BY <3>2 DEF Number
  <2>4. Number(p) = "child" => p = child_pid
    BY DEF Number
  <2>5. w = <<"kill", "child">> => lost
    BY <2>2, <2>4 DEF IInv, AimHolds
  <2>6. w = <<"terminate", "child">> => lost \/ child_completed
    BY <2>2, <2>4
  <2>7. \A signal \in Signal : w # <<signal, "job">>
    BY <2>3
  <2>8. strays \subseteq strays'
        /\ \A v : v \in strays' => v \in strays \/ v = w
    BY <1>4
  <2>9. w \in Signal \X {"child", "job", "passed"}
    BY <1>1
  <2> HIDE DEF w
  <2>10. KillIsAimed'
    BY <2>5, <2>6, <2>7, <2>8 DEF IInv, KillIsAimed
  <2> QED BY <2>8, <2>9, <2>10
<1> QED BY <1>2, <1>3, <1>4

\* The kernel calls that send a signal.
LEMMA SignalsKeep ==
    ASSUME IInv, Signals
    PROVE  IInv' /\ strays' \subseteq strays \cup Signal \X {"child", "job", "passed"}
<1>1. /\ process' = process /\ foreground' = foreground /\ lost' = lost
      /\ child_pid' = child_pid /\ child_completed' = child_completed
      /\ call' = call
  BY DEF Signals, AimTerminal, AimGroup, KillForeground, KillGroup, KillChild,
     OnlySignals, SameKernel, SameRequests, SameChild, kernelVars
<1>2. /\ reactor \in Aiming
      /\ reactor' \in Aiming \/ (reactor' = aim.then /\ aim' = NoAim)
  BY DEF Signals, AimTerminal, AimGroup, KillForeground, KillGroup, KillChild,
     Goto, Aiming
<1>3. reactor' \notin {"none", "spawn", "ended"}
  BY <1>2 DEF Aiming, IInv, AimHolds, AimTyped
<1>4. /\ KillIsAimed'
      /\ strays' \subseteq strays \cup Signal \X {"child", "job", "passed"}
  <2>1. CASE strays' = strays
    BY <1>1, <2>1 DEF IInv, KillIsAimed
  <2>2. CASE \E p \in {aim.foreground, child_pid}, sent \in BOOLEAN : Deliver(p, sent)
    BY <1>1, <1>2, <2>2, DeliverKeeps
  <2>3. KillGroup => strays' = strays \/ \E sent \in BOOLEAN : Deliver(child_pid, sent)
    BY DEF KillGroup, IInv, AimHolds
  <2> QED BY <2>1, <2>2, <2>3 DEF Signals, AimTerminal, AimGroup, KillForeground,
          KillChild
<1>5. AimHolds'
  <2> USE DEF IInv, AimHolds, AimTyped
  <2>1. CASE AimTerminal
    <3>1. /\ aim' = [aim EXCEPT !.foreground = foreground]
          /\ reactor' \in Aiming
      BY <2>1 DEF AimTerminal, Aiming
    <3>2. \/ foreground \in {0, child_pid} \/ process[foreground] \in {"job", "over"}
      BY DEF TerminalOwned, ChildKnown, KernelTyped
    <3>3. foreground \in Pids \cup {0}
      BY DEF KernelTyped
    <3> QED BY <1>1, <1>2, <3>1, <3>2, <3>3
  <2>2. CASE AimGroup
    <3>1. /\ aim' = [aim EXCEPT !.group = Group(child_pid)]
          /\ reactor' \in Aiming
      BY <2>2 DEF AimGroup, Aiming, Goto
    <3>2. Group(child_pid) \in {0, child_pid} /\ Group(child_pid) \in Pids \cup {0}
      BY DEF Group, KernelTyped
    <3> QED BY <1>1, <1>2, <3>1, <3>2
  <2>3. CASE KillForeground \/ KillGroup
    <3>1. reactor' \in Aiming
      BY <2>3 DEF KillForeground, KillGroup, Goto, Aiming
    <3>2. \/ aim' = aim
          \/ \E b \in BOOLEAN : aim' = [aim EXCEPT !.signaled = b]
      <4>1. CASE KillForeground
        <5>1. PICK sent \in BOOLEAN :
                 aim' = [aim EXCEPT !.signaled =
                            sent /\ (aim.signal = "signal" \/ aim.group = aim.foreground)]
          BY <4>1 DEF KillForeground
        <5>2. (sent /\ (aim.signal = "signal" \/ aim.group = aim.foreground)) \in BOOLEAN
          OBVIOUS
        <5> QED BY <5>1, <5>2, Zenon
      <4>2. CASE KillGroup
        BY <4>2 DEF KillGroup
      <4> QED BY <2>3, <4>1, <4>2
    <3> QED BY <1>1, <1>2, <3>1, <3>2
  <2>4. CASE KillChild
    <3>1. aim' = NoAim /\ reactor' = aim.then
      BY <2>4 DEF KillChild, Goto
    <3>2. reactor' \notin Aiming
      BY <1>2, <3>1 DEF Aiming
    <3> QED BY <3>1, <3>2 DEF NoAim
  <2> QED BY <2>1, <2>2, <2>3, <2>4 DEF Signals
<1> QED BY <1>1, <1>2, <1>3, <1>4, <1>5 DEF IInv, KernelTyped, ChildKnown,
           TerminalOwned, ChildHeld, CallHolds, Aiming

\* Steps of the reactor that signal no process and reap none.
LEMMA QuietKeeps ==
    ASSUME IInv,
           \/ Start \/ SendSignal \/ Close \/ ForceClose \/ Configure
           \/ KeventReturns \/ ProcessControl \/ FinishExit
    PROVE  IInv'
<1>1. /\ process' = process /\ foreground' = foreground /\ lost' = lost
      /\ child_pid' = child_pid /\ child_completed' = child_completed
      /\ strays' = strays /\ aim' = aim /\ call' = call
  BY DEF Start, SendSignal, Close, ForceClose, Request, Configure,
     KeventReturns, ProcessControl, FinishExit, SameKernel, SameRequests,
     SameChild, kernelVars, requestVars, signalVars
<1>2. \/ reactor' = reactor \/ reactor' = "ended"
      \/ reactor = "none" /\ reactor' = "spawn"
      \/ reactor \in {"configure", "wait", "control"} /\ reactor' \notin {"none", "spawn"}
  BY DEF Start, SendSignal, Close, ForceClose, Request, Configure,
     KeventReturns, ProcessControl, FinishExit, Goto
<1>3. AimHolds'
  <2>1. reactor' # reactor => reactor \notin Aiming /\ reactor' \notin Aiming
    BY DEF Start, SendSignal, Close, ForceClose, Request, Configure,
       KeventReturns, ProcessControl, FinishExit, Goto, Aiming
  <2> QED BY <1>1, <2>1 DEF IInv, AimHolds, AimTyped
<1> QED BY <1>1, <1>2, <1>3 DEF IInv, KernelTyped, ChildKnown, TerminalOwned,
           ChildHeld, CallHolds, KillIsAimed

\* Steps that may go on to send a signal.
LEMMA SendsKeep ==
    ASSUME IInv, DeliverSignals \/ CloseBegins \/ GraceExpires \/ Terminate
    PROVE  IInv'
<1>1. /\ process' = process /\ foreground' = foreground /\ lost' = lost
      /\ child_pid' = child_pid /\ child_completed' = child_completed
      /\ call' = call /\ strays' = strays
  BY DEF DeliverSignals, CloseBegins, GraceExpires, Terminate, SameKernel,
     SameRequests, SameChild, kernelVars, requestVars, signalVars, Send
<1>2. /\ reactor \in {"signal", "close", "grace", "configure", "wait"}
      /\ \/ reactor' \in {"close", "grace", "reap"} /\ aim' = aim
         \/ \E signal \in Signal, then \in {"close", "grace", "reap", "collect"} :
               /\ Send(signal, then)
               /\ signal = "kill" => ~child_completed
  BY DEF DeliverSignals, CloseBegins, GraceExpires, Terminate, MayKill, Signal,
     signalVars
<1>3. AimHolds'
  <2>1. aim = NoAim
    BY <1>2 DEF IInv, AimHolds, Aiming
  <2>2. CASE reactor' \in {"close", "grace", "reap"} /\ aim' = aim
    BY <1>1, <2>1, <2>2 DEF IInv, AimHolds, AimTyped, NoAim, Aiming
  <2>3. ASSUME NEW signal \in Signal,
               NEW then \in {"close", "grace", "reap", "collect"},
               Send(signal, then), signal = "kill" => ~child_completed
        PROVE  AimHolds'
    <3>1. /\ reactor' = "terminal"
          /\ aim' = [signal |-> signal, then |-> then, foreground |-> 0, group |-> 0,
                     signaled |-> FALSE, passed |-> FALSE]
      BY <2>3 DEF Send, NoAim
    <3> QED BY <1>1, <2>3, <3>1 DEF AimHolds, AimTyped, Aiming, Signal
  <2> QED BY <1>2, <2>2, <2>3
<1>4. reactor' \notin {"none", "spawn", "ended"}
  BY <1>2 DEF Send
<1> QED BY <1>1, <1>2, <1>3, <1>4 DEF IInv, KernelTyped, ChildKnown, TerminalOwned,
           ChildHeld, CallHolds, KillIsAimed

\* The spawn and the reaping.
LEMMA ReapKeepsOthers ==
    ASSUME IInv, Spawn \/ ReapFirst \/ ReapChild \/ Collect
    PROVE  /\ KernelTyped' /\ ChildKnown' /\ TerminalOwned' /\ ChildHeld'
           /\ CallHolds' /\ KillIsAimed'
<1> USE DEF IInv, KernelTyped, ChildKnown, TerminalOwned, ChildHeld, CallHolds,
        KillIsAimed, Becomes, Goto, SameRequests, signalVars
<1>1. CASE Spawn
  BY <1>1 DEF Spawn, Available, Is
<1>2. ASSUME NEW from, NEW to, Reap(from, to),
             from \in {"reapFirst", "reap"}, to \in {"control", "wait"}
      PROVE  /\ KernelTyped' /\ ChildKnown' /\ TerminalOwned' /\ ChildHeld'
             /\ CallHolds' /\ KillIsAimed'
  <2>1. /\ reactor \notin {"none", "spawn", "ended"} /\ reactor' = to
        /\ foreground' = foreground /\ lost' = lost /\ child_pid' = child_pid
        /\ strays' = strays /\ aim' = aim /\ call' = call
    BY <1>2 DEF Reap, requestVars
  <2>2. child_completed => child_completed'
    BY <1>2 DEF Reap
  <2>3. \/ process' = process
        \/ /\ process[child_pid] = "zombie" /\ child_pid \in Pids
           /\ child_completed'
           /\ process' = [process EXCEPT ![child_pid] = "free"]
    BY <1>2 DEF Reap, Is
  <2>4. CASE process' = process
    BY <1>2, <2>1, <2>2, <2>4
  <2>5. CASE /\ process[child_pid] = "zombie" /\ child_pid \in Pids
             /\ child_completed'
             /\ process' = [process EXCEPT ![child_pid] = "free"]
    BY <1>2, <2>1, <2>2, <2>5
  <2> QED BY <2>3, <2>4, <2>5
<1>3. CASE Collect
  BY <1>3 DEF Collect, Is
<1> QED BY <1>1, <1>2, <1>3 DEF ReapFirst, ReapChild

LEMMA ReapKeeps ==
    ASSUME IInv, Spawn \/ ReapFirst \/ ReapChild \/ Collect
    PROVE  IInv'
<1>1. /\ aim' = aim /\ reactor \notin Aiming /\ reactor' \notin Aiming
  BY DEF Spawn, ReapFirst, ReapChild, Reap, Collect, Goto, Aiming, signalVars
<1>2. aim' = NoAim
  BY <1>1 DEF IInv, AimHolds
<1>3. AimHolds'
  BY <1>1, <1>2 DEF AimHolds, AimTyped, NoAim
<1> QED BY <1>3, ReapKeepsOthers DEF IInv

\* The parts of a snapshot call.
LEMMA CallKeeps ==
    ASSUME IInv, Observe \/ ScanGroup \/ Revalidate \/ Answer
    PROVE  IInv'
<1>1. /\ process' = process /\ foreground' = foreground /\ lost' = lost
      /\ child_pid' = child_pid /\ child_completed' = child_completed
      /\ strays' = strays /\ aim' = aim /\ reactor' = reactor
  BY DEF Observe, ScanGroup, Revalidate, Answer, Calls, SameKernel, SameChild,
     kernelVars, signalVars
<1>2. CallHolds'
  <2>1. CASE Observe
    <3>1. /\ foreground # 0 /\ child_pid # 0 /\ foreground # Group(child_pid)
          /\ call' = [step |-> "scan", child |-> child_pid,
                      owning |-> Group(child_pid), foreground |-> foreground,
                      described |-> "nothing"]
      BY <2>1 DEF Observe, Calls
    <3>2. /\ foreground \in Pids /\ child_pid \in Pids
          /\ process[child_pid] = "child"
          /\ process[foreground] \in {"child", "job", "over"}
      BY <3>1 DEF IInv, KernelTyped, TerminalOwned
    <3>3. Group(child_pid) = child_pid
      BY <3>2 DEF Group, Is
    <3>4. process[foreground] # "child"
      BY <3>1, <3>2, <3>3 DEF IInv, ChildKnown
    <3> QED BY <1>1, <3>1, <3>2, <3>3, <3>4 DEF CallHolds
  <2>2. CASE ScanGroup
    <3>1. /\ call.step = "scan"
          /\ call' = [call EXCEPT
                         !.step = "revalidate",
                         !.described = IF Group(call.foreground) = 0 THEN "nothing"
                                       ELSE process[call.foreground]]
      BY <2>2 DEF ScanGroup, Calls
    <3>2. /\ call.foreground \in Pids
          /\ process[call.foreground] \in {"job", "over", "free"}
      BY <3>1 DEF IInv, CallHolds
    <3>3. Group(call.foreground) # 0 => process[call.foreground] = "job"
      BY <3>2 DEF Group, Is
    <3> QED BY <1>1, <3>1, <3>2, <3>3 DEF IInv, CallHolds
  <2>3. CASE Revalidate \/ Answer
    BY <1>1, <2>3 DEF Revalidate, Answer, Calls, IInv, CallHolds, NoCall
  <2> QED BY <2>1, <2>2, <2>3
<1> QED BY <1>1, <1>2 DEF IInv, KernelTyped, ChildKnown, TerminalOwned,
           ChildHeld, AimHolds, AimTyped, KillIsAimed

-----------------------------------------------------------------------------
\* What is known of the child, the terminal and the snapshot call is inductive,
\* however ids are given out again.
THEOREM ProcessInductive == Spec => []IInv
<1>1. Init => IInv
  BY DEF Init, IInv, KernelTyped, ChildKnown, TerminalOwned, ChildHeld,
     CallHolds, AimHolds, AimTyped, KillIsAimed, NoCall, NoAim, Aiming
<1>2. IInv /\ [Next]_vars => IInv'
  <2> SUFFICES ASSUME IInv, [Next]_vars PROVE IInv'
    OBVIOUS
  <2>1. CASE UNCHANGED vars
    BY <2>1 DEF IInv, KernelTyped, ChildKnown, TerminalOwned, ChildHeld,
       CallHolds, AimHolds, AimTyped, KillIsAimed, vars, kernelVars, signalVars
  <2> QED BY <2>1, KernelKeeps, QuietKeeps, SendsKeep, SignalsKeep, ReapKeeps, CallKeeps
          DEF Next, Client, Reactor
<1> QED BY <1>1, <1>2, PTL DEF Spec

\* The rest of the types.
ThreadTyped ==
    /\ notified \in BOOLEAN /\ lost \in BOOLEAN /\ child_completed \in BOOLEAN
    /\ close_started \in BOOLEAN /\ deadline \in BOOLEAN
    /\ state \in {"created", "running", "finished"}
    /\ requested \subseteq {"signal", "close", "force"}
    /\ taken \subseteq {"signal", "close", "force"}
    /\ strays \subseteq Signal \X {"child", "job", "passed"}
    /\ reactor \in {"none", "spawn", "configure", "control", "signal", "close",
                    "grace", "reapFirst", "reap", "wait", "collect", "ended",
                    "terminal", "getGroup", "killForeground", "killGroup",
                    "killChild"}

LEMMA ThreadKeeps ==
    ASSUME IInv, ThreadTyped, [Next]_vars
    PROVE  ThreadTyped'
<1> USE DEF ThreadTyped
<1>1. CASE Kernel
  <2>1. NoSignal /\ lost' \in {lost, TRUE}
    BY <1>1 DEF Kernel, ChildExits, ExternalReap, JobStarts, TakesTerminal,
                JobEnds, JobReaped, StrangerStarts, StrangerEnds, OnlyKernel
  <2>2. /\ UNCHANGED <<notified, state, child_completed, requested, taken>>
        /\ UNCHANGED <<close_started, deadline, reactor, strays>>
    BY <2>1 DEF NoSignal, requestVars
  <2>3. lost' \in BOOLEAN
    BY <2>1
  <2> QED BY <2>2, <2>3, Zenon
<1>2. CASE SendSignal \/ Close \/ ForceClose
  <2>1. /\ requested' \subseteq {"signal", "close", "force"}
        /\ close_started' \in BOOLEAN
    BY <1>2 DEF SendSignal, Close, ForceClose, Request
  <2>2. /\ UNCHANGED <<notified, lost, child_completed, deadline>>
        /\ UNCHANGED <<state, taken, strays, reactor>>
    BY <1>2 DEF SendSignal, Close, ForceClose, Request, kernelVars, signalVars
  <2> QED BY <2>1, <2>2
<1>3. CASE Observe \/ ScanGroup \/ Revalidate \/ Answer
  BY <1>3 DEF Observe, ScanGroup, Revalidate, Answer, Calls, SameKernel,
              SameChild, kernelVars, requestVars, signalVars
<1>4. CASE Start \/ Spawn \/ Configure \/ KeventReturns \/ FinishExit
  BY <1>4 DEF Start, Spawn, Configure, KeventReturns, FinishExit, Goto,
              SameKernel, SameChild, SameRequests, kernelVars, requestVars, signalVars
<1>5. CASE ProcessControl
  <2>1. Closing \in BOOLEAN
    BY DEF Closing
  <2>2. taken' \subseteq {"signal", "close", "force"}
    BY <1>5 DEF ProcessControl
  <2> QED BY <1>5, <2>1, <2>2
          DEF ProcessControl, Goto, SameKernel, SameChild, kernelVars, signalVars
<1>6. CASE DeliverSignals
  BY <1>6 DEF DeliverSignals, Send, SameKernel, SameChild, SameRequests, kernelVars,
              requestVars, signalVars
<1>7. CASE CloseBegins
  BY <1>7 DEF CloseBegins, Send, SameKernel, SameChild, kernelVars, signalVars
<1>8. CASE GraceExpires
  BY <1>8 DEF GraceExpires, Send, SameKernel, SameChild, kernelVars, signalVars
<1>9. CASE Terminate
  BY <1>9 DEF Terminate, Send, SameKernel, SameChild, SameRequests, kernelVars,
              requestVars
<1>10. CASE Signals
  <2>1. strays' \subseteq Signal \X {"child", "job", "passed"}
    BY <1>10, SignalsKeep
  <2>2. OnlySignals
    BY <1>10 DEF Signals, AimTerminal, AimGroup, KillForeground, KillGroup, KillChild
  <2>3. reactor' \in {"terminal", "getGroup", "killForeground", "killGroup",
                      "killChild", "close", "grace", "reap", "collect"}
    <3>1. reactor = "killChild" => aim.then \in {"close", "grace", "reap", "collect"}
      BY DEF IInv, AimHolds, AimTyped, Aiming
    <3> QED BY <1>10, <3>1 DEF Signals, AimTerminal, AimGroup, KillForeground,
            KillGroup, KillChild, Goto
  <2> QED BY <2>1, <2>2, <2>3 DEF OnlySignals, SameKernel, SameChild, SameRequests,
          kernelVars, requestVars
<1>11. CASE ReapFirst \/ ReapChild \/ Collect
  BY <1>11 DEF ReapFirst, ReapChild, Reap, Collect, Goto, SameRequests, requestVars,
               signalVars
<1>12. CASE UNCHANGED vars
  BY <1>12 DEF vars, kernelVars, requestVars, signalVars
<1> QED BY <1>1, <1>2, <1>3, <1>4, <1>5, <1>6, <1>7, <1>8, <1>9, <1>10, <1>11, <1>12
        DEF Next, Client, Reactor

\* Every reachable state of the session and of the processes is well typed; a
\* snapshot never describes the child or a stranger.
THEOREM ProcessTypeCorrect == Spec => []TypeOK
<1>1. Init => ThreadTyped
  BY DEF Init, ThreadTyped
<1>2. IInv /\ ThreadTyped => TypeOK
  <2> SUFFICES ASSUME IInv, ThreadTyped PROVE TypeOK
    OBVIOUS
  <2>1. call \in [step : {"idle", "scan", "revalidate", "available"},
                  child : Pids \cup {0}, owning : Pids \cup {0},
                  foreground : Pids \cup {0},
                  described : {"nothing", "child", "job", "stranger"}]
    BY DEF IInv, CallHolds
  <2> QED BY <2>1 DEF IInv, KernelTyped, AimHolds, AimTyped, ThreadTyped, TypeOK
<1> QED BY <1>1, <1>2, ThreadKeeps, ProcessInductive, PTL DEF Spec

\* The SIGKILL of a close never meets a process of someone else under the number
\* of a child that no other waiter took, and no signal does under that of the
\* foreground job before it has passed on behind tcgetpgrp().
THEOREM KillSafe == Spec => []KillIsAimed
<1>1. IInv => KillIsAimed
  BY DEF IInv
<1> QED BY <1>1, ProcessInductive, PTL

\* An available snapshot describes the job that has the terminal.
THEOREM JobSafe == Spec => JobIsCurrent
<1>1. IInv /\ [Next]_vars =>
        [call'.step = "available" /\ call.step # "available" =>
            /\ call.described = "job"
            /\ process[call.foreground] \in {"job", "over"}
            /\ foreground = call.foreground
            /\ process[call.child] = "child"]_vars
  <2> SUFFICES ASSUME IInv, Next, call'.step = "available", call.step # "available"
               PROVE  /\ call.described = "job"
                      /\ process[call.foreground] \in {"job", "over"}
                      /\ foreground = call.foreground
                      /\ process[call.child] = "child"
    OBVIOUS
  <2>1. ~Kernel
    BY KernelOnly
  <2>2. call' # call
    OBVIOUS
  <2>3. Observe \/ ScanGroup \/ Revalidate \/ Answer
    BY <2>1, <2>2 DEF Next, Client, Reactor, Start, SendSignal, Close, ForceClose,
       Request, Spawn, Configure, KeventReturns, ProcessControl, DeliverSignals,
       CloseBegins, GraceExpires, ReapFirst, ReapChild, Reap, FinishExit,
       Terminate, Signals, AimTerminal, AimGroup, KillForeground, KillGroup,
       KillChild, OnlySignals, Collect, SameRequests
  <2>4. Revalidate
    <3>1. ~Observe
      BY DEF Observe, Calls
    <3>2. ~ScanGroup
      BY DEF ScanGroup, Calls, IInv, CallHolds
    <3>3. ~Answer
      BY DEF Answer, Calls, NoCall
    <3> QED BY <2>3, <3>1, <3>2, <3>3
  <2>5. /\ call.step = "revalidate" /\ call.described # "nothing"
        /\ child_pid = call.child /\ foreground = call.foreground
    BY <2>4 DEF Revalidate, Calls, StillForeground, NoCall
  <2> QED BY <2>5 DEF IInv, KernelTyped, CallHolds, TerminalOwned
<1> QED BY <1>1, ProcessInductive, PTL DEF Spec, JobIsCurrent

-----------------------------------------------------------------------------
(* Loops.  A fold takes the largest index of a set of indices last, so on   *)
(* 1..n it is the n-th value of the code's loop.                            *)

HIDE ProcessAssumption

Less == {ss \in Nat \X Nat : ss[1] < ss[2]}
LEMMA LessIsWellFounded == IsWellFoundedOn(Less, Nat)
BY NatLessThanWellFounded DEF OpToRel, Less

\* What holds of 0, and of every number it holds of the one before, holds of all.
LEMMA Counting ==
    ASSUME NEW N \in Nat, NEW T \in SUBSET (0..N), 0 \in T,
           \A n \in 1..N : n - 1 \in T => n \in T
    PROVE  T = 0..N
<1> DEFINE D == (0..N) \ T
<1>1. SUFFICES ASSUME D # {} PROVE FALSE
  OBVIOUS
<1>2. D \in SUBSET Nat
  OBVIOUS
<1> HIDE DEF D
<1>3. PICK f \in D : \A g \in D : ~(<<g, f>> \in Less)
  BY <1>1, <1>2, LessIsWellFounded, WFMin
<1>4. f \in 1..N
  BY DEF D
<1>5. \A g \in D : ~(g < f)
  BY <1>2, <1>3 DEF Less
<1>6. f - 1 \in T
  BY <1>4, <1>5 DEF D
<1> QED BY <1>4, <1>6 DEF D

LEMMA LargestOf ==
    ASSUME NEW N \in Nat, NEW s \in SUBSET (1..N), s # {}
    PROVE  Max(s) \in s /\ \A y \in s : y <= Max(s)
<1> DEFINE T == {n \in 0..N : \A y \in s : y <= N - n}
<1>1. CASE \A n \in 1..N : n - 1 \in T => n \in T
  <2>1. T = 0..N
    <3>1. 0 \in T /\ T \in SUBSET (0..N)
      OBVIOUS
    <3> HIDE DEF T
    <3> QED BY <1>1, <3>1, Counting
  <2> HIDE DEF T
  <2>2. N \in T
    BY <2>1
  <2>3. \A y \in s : y <= N - N
    BY <2>2 DEF T
  <2>4. PICK y \in s : TRUE
    OBVIOUS
  <2> QED BY <2>3, <2>4
<1>2. CASE \E n \in 1..N : n - 1 \in T /\ n \notin T
  <2>1. PICK n \in 1..N : n - 1 \in T /\ n \notin T
    BY <1>2
  <2>2. PICK y \in s : ~(y <= N - n)
    BY <2>1
  <2>3. \A z \in s : z <= N - (n - 1)
    BY <2>1
  <2>4. \A z \in s : z <= y
    BY <2>2, <2>3
  <2> QED BY <2>2, <2>4 DEF Max
<1> QED BY <1>1, <1>2

LEMMA LargestOfInterval ==
    ASSUME NEW n \in Nat \ {0}
    PROVE  Max(1..n) = n /\ (1..n) \ {n} = 1..(n - 1)
<1>1. 1..n \in SUBSET (1..n) /\ 1..n # {} /\ n \in 1..n
  OBVIOUS
<1>2. Max(1..n) \in 1..n /\ \A y \in 1..n : y <= Max(1..n)
  BY <1>1, LargestOf
<1>3. Max(1..n) = n
  BY <1>2
<1> QED BY <1>3

\* g is a fold over every set of indices: the library's definition of it.
Iterated(g, N, base, step) ==
    \A s \in SUBSET (1..N) :
       g[s] = IF s = {} THEN base ELSE step[Max(s)][g[s \ {Max(s)}]]

\* There is such a function: one index after the other is added to its domain.
LEMMA Iterates ==
    ASSUME NEW S, NEW N \in Nat, NEW base \in S,
           NEW step \in [1..N -> [S -> S]]
    PROVE  \E g \in [SUBSET (1..N) -> S] : Iterated(g, N, base, step)
<1> USE DEF Iterated
<1> DEFINE Rec(g, n) == Iterated(g, n, base, step)
           T == {n \in 0..N : \E g \in [SUBSET (1..n) -> S] : Rec(g, n)}
<1>1. 0 \in T
  <2> DEFINE g == [s \in SUBSET (1..0) |-> base]
  <2>1. g \in [SUBSET (1..0) -> S] /\ Rec(g, 0)
    OBVIOUS
  <2>2. \E f \in [SUBSET (1..0) -> S] : Rec(f, 0)
    BY <2>1
  <2>3. 0 \in 0..N
    OBVIOUS
  <2> HIDE DEF Rec
  <2> QED BY <2>2, <2>3, Zenon
<1>2. ASSUME NEW n \in 1..N, n - 1 \in T PROVE n \in T
  <2>1. PICK g \in [SUBSET (1..(n - 1)) -> S] : Rec(g, n - 1)
    BY <1>2
  <2> DEFINE h == [s \in SUBSET (1..n) |->
                     IF n \in s THEN step[n][g[s \ {n}]] ELSE g[s]]
  <2>2. \A s \in SUBSET (1..n) : s \ {n} \in SUBSET (1..(n - 1))
    OBVIOUS
  <2>3. h \in [SUBSET (1..n) -> S]
    <3> SUFFICES ASSUME NEW s \in SUBSET (1..n)
                 PROVE  (IF n \in s THEN step[n][g[s \ {n}]] ELSE g[s]) \in S
      OBVIOUS
    <3>1. CASE n \in s
      BY <2>2, <3>1
    <3>2. CASE n \notin s
      <4>1. s \in SUBSET (1..(n - 1))
        BY <2>2, <3>2
      <4> QED BY <3>2, <4>1
    <3> QED BY <3>1, <3>2
  <2>4. ASSUME NEW s \in SUBSET (1..n)
        PROVE  h[s] = IF s = {} THEN base
                      ELSE step[Max(s)][h[s \ {Max(s)}]]
    <3>1. CASE n \in s
      <4>1. Max(s) = n
        <5>1. n \in Nat /\ s # {}
          BY <3>1
        <5>2. Max(s) \in s /\ \A y \in s : y <= Max(s)
          BY <5>1, LargestOf
        <5>3. Max(s) \in 1..n /\ n <= Max(s)
          BY <3>1, <5>2
        <5> HIDE DEF h
        <5> QED BY <5>3
      <4>2. h[s \ {n}] = g[s \ {n}]
        BY <2>2
      <4> QED BY <3>1, <4>1, <4>2
    <3>2. CASE n \notin s
      <4>1. s \in SUBSET (1..(n - 1)) /\ h[s] = g[s]
        BY <2>2, <3>2
      <4>2. CASE s = {}
        BY <2>1, <4>1, <4>2
      <4>3. CASE s # {}
        <5>1. s \ {Max(s)} \in SUBSET (1..n) /\ n \notin s \ {Max(s)}
          BY <3>2
        <5>2. h[s \ {Max(s)}] = g[s \ {Max(s)}]
          BY <5>1
        <5>3. g[s] = step[Max(s)][g[s \ {Max(s)}]]
          BY <2>1, <4>1, <4>3
        <5> QED BY <4>1, <4>3, <5>2, <5>3
      <4> QED BY <4>2, <4>3
    <3> QED BY <3>1, <3>2
  <2>5. Rec(h, n)
    <3> HIDE DEF h
    <3> QED BY <2>4
  <2> HIDE DEF h, Rec
  <2> QED BY <2>3, <2>5
<1>3. T = 0..N
  <2>1. T \in SUBSET (0..N)
    OBVIOUS
  <2> HIDE DEF T
  <2> QED BY <1>1, <1>2, <2>1, Counting
<1> HIDE DEF T
<1>4. N \in T
  BY <1>3
<1> QED BY <1>4 DEF T

-----------------------------------------------------------------------------
(* The members.                                                             *)

Nothing == [members |-> <<>>, issues |-> 0]
Scans == [members : Seq(Members), issues : Nat]

LEMMA AppendTyped ==
    ASSUME NEW start \in [Members -> Int], NEW scan \in Scans, NEW pid \in Members
    PROVE  AppendMember(start, scan, pid) \in Scans
<1>1. PICK members \in Seq(Members), issues \in Nat :
         scan = [members |-> members, issues |-> issues]
  BY DEF Scans
<1>2. Append(members, pid) \in Seq(Members)
  OBVIOUS
<1>3. AppendMember(start, scan, pid) \in
         {[members |-> members, issues |-> issues],
          [members |-> members, issues |-> issues + 1],
          [members |-> Append(members, pid), issues |-> issues]}
  BY <1>1 DEF AppendMember
<1>4. /\ [members |-> members, issues |-> issues] \in Scans
      /\ [members |-> members, issues |-> issues + 1] \in Scans
      /\ [members |-> Append(members, pid), issues |-> issues] \in Scans
  BY <1>2 DEF Scans
<1> QED BY <1>3, <1>4

LEMMA ScanLoop ==
    ASSUME NEW group \in Members, NEW listed \in Seq(Members),
           NEW start \in [Members -> Int]
    PROVE  \E loop :
              /\ loop[0] = AppendMember(start, Nothing, group)
              /\ \A n \in 1..Len(listed) :
                    loop[n] = IF listed[n] = group THEN loop[n - 1]
                              ELSE AppendMember(start, loop[n - 1], listed[n])
              /\ Scan(group, listed, start) = loop[Len(listed)]
<1> DEFINE N == Len(listed)
           first == AppendMember(start, Nothing, group)
           Add(scan, pid) ==
              IF pid = group THEN scan ELSE AppendMember(start, scan, pid)
           F(g) == [s \in SUBSET (1..N) |->
                      IF s = {} THEN first
                      ELSE Add(g[s \ {Max(s)}], listed[Max(s)])]
           C == CHOOSE g : g = F(g)
           step == [n \in 1..N |-> [scan \in Scans |-> Add(scan, listed[n])]]
<1>1. N \in Nat /\ DOMAIN listed = 1..N /\ \A n \in 1..N : listed[n] \in Members
  OBVIOUS
<1>2. Scan(group, listed, start) = C[1..N]
  BY <1>1 DEF Scan, FoldLeft, MapThenFoldSet, Nothing
<1>3. C = F(C)
  <2>1. first \in Scans
    <3>1. Nothing \in Scans
      BY DEF Scans, Nothing
    <3> QED BY <3>1, AppendTyped
  <2>2. step \in [1..N -> [Scans -> Scans]]
    BY <1>1, AppendTyped
  <2>3. PICK g \in [SUBSET (1..N) -> Scans] : Iterated(g, N, first, step)
    <3>1. N \in Nat
      OBVIOUS
    <3> HIDE DEF first, step, N, C, F, Add
    <3> QED BY <3>1, <2>1, <2>2, Iterates, ZenonT(60)
  <2>4. ASSUME NEW s \in SUBSET (1..N)
        PROVE  g[s] = IF s = {} THEN first
                      ELSE Add(g[s \ {Max(s)}], listed[Max(s)])
    <3>1. CASE s = {}
      BY <2>3, <3>1 DEF Iterated
    <3>2. CASE s # {}
      <4> HIDE DEF N, Add
      <4>1. Max(s) \in 1..N
        BY <1>1, <3>2, LargestOf
      <4>2. g[s \ {Max(s)}] \in Scans
        OBVIOUS
      <4> QED BY <2>3, <3>2, <4>1, <4>2 DEF Iterated
    <3> QED BY <3>1, <3>2
  <2>5. g = F(g)
    <3> HIDE DEF Add, N, first
    <3> QED BY <2>4
  <2> HIDE DEF F
  <2> QED BY <2>5
<1> HIDE DEF C
<1>4. C[{}] = first
  BY <1>3
<1>5. ASSUME NEW n \in 1..N
      PROVE  C[1..n] = Add(C[1..(n - 1)], listed[n])
  <2> HIDE DEF N
  <2>1. n \in Nat \ {0} /\ 1..n \in SUBSET (1..N) /\ n \in 1..n
    BY <1>1
  <2>2. Max(1..n) = n /\ (1..n) \ {n} = 1..(n - 1)
    BY <2>1, LargestOfInterval
  <2> HIDE DEF Add, first, N
  <2>3. C[1..n] = Add(C[(1..n) \ {Max(1..n)}], listed[Max(1..n)])
    BY <1>3, <2>1
  <2> QED BY <2>2, <2>3
<1> DEFINE loop == [n \in 0..N |-> C[1..n]]
<1>6. loop[0] = first
  <2>1. 1..0 = {} /\ 0 \in 0..N
    BY <1>1
  <2> QED BY <1>4, <2>1
<1>7. \A n \in 1..N : loop[n] = Add(loop[n - 1], listed[n])
  <2> HIDE DEF Add, N
  <2> QED BY <1>1, <1>5
<1>8. Scan(group, listed, start) = loop[N]
  BY <1>1, <1>2
<1> HIDE DEF loop, N
<1> QED BY <1>6, <1>7, <1>8 DEF N

\* The invariant of the scan: after n listed processes the distinct living ones
\* are kept until the limit, the leader first, and each of those seen is kept or
\* counted at most once.
ScanHolds(group, listed, start, n, scan) ==
    /\ scan \in Scans /\ Len(scan.members) <= MemberLimit
    /\ \A i, j \in 1..Len(scan.members) :
          scan.members[i] = scan.members[j] => i = j
    /\ \A i \in 1..Len(scan.members) :
          /\ start[scan.members[i]] # Gone
          /\ scan.members[i] = group
             \/ \E k \in 1..n : scan.members[i] = listed[k]
    /\ Len(scan.members) < MemberLimit =>
          \A k \in 1..n : start[listed[k]] # Gone =>
             \E i \in 1..Len(scan.members) : scan.members[i] = listed[k]
    /\ Len(scan.members) + scan.issues <= n + 1
    /\ (\E k \in 1..n : listed[k] = group) =>
          Len(scan.members) + scan.issues <= n
    /\ start[group] # Gone =>
          1 <= Len(scan.members) /\ scan.members[1] = group

LEMMA ScanStart ==
    ASSUME NEW group \in Members, NEW listed \in Seq(Members),
           NEW start \in [Members -> Int]
    PROVE  ScanHolds(group, listed, start, 0, AppendMember(start, Nothing, group))
<1>1. Len(<<>>) = 0 /\ ToSet(<<>>) = {}
  BY DEF ToSet
<1>2. AppendMember(start, Nothing, group) =
         IF start[group] = Gone THEN [members |-> <<>>, issues |-> 1]
         ELSE [members |-> <<group>>, issues |-> 0]
  <2>1. Append(<<>>, group) = <<group>>
    OBVIOUS
  <2> QED BY JobAssumption, <1>1, <2>1 DEF AppendMember, Nothing
<1>3. CASE start[group] = Gone
  BY JobAssumption, <1>2, <1>3 DEF ScanHolds, Scans
<1>4. CASE start[group] # Gone
  BY JobAssumption, <1>2, <1>4 DEF ScanHolds, Scans
<1> QED BY <1>3, <1>4

LEMMA ScanGoesOn ==
    ASSUME NEW group \in Members, NEW listed \in Seq(Members),
           NEW start \in [Members -> Int], NEW n \in 1..Len(listed), NEW scan,
           ScanHolds(group, listed, start, n - 1, scan)
    PROVE  ScanHolds(group, listed, start, n,
                     IF listed[n] = group THEN scan
                     ELSE AppendMember(start, scan, listed[n]))
<1> DEFINE pid == listed[n]
<1>1. PICK members \in Seq(Members), issues \in Nat :
         scan = [members |-> members, issues |-> issues]
  BY DEF ScanHolds, Scans
<1>2. pid \in Members /\ \A k \in 1..n : k = n \/ k \in 1..(n - 1)
  OBVIOUS
<1>3. CASE pid = group
  <2>1. start[group] # Gone => \E i \in 1..Len(members) : members[i] = group
    BY <1>1 DEF ScanHolds
  <2>2. Len(members) < MemberLimit =>
           \A k \in 1..n : start[listed[k]] # Gone =>
              \E i \in 1..Len(members) : members[i] = listed[k]
    <3> SUFFICES ASSUME Len(members) < MemberLimit,
                        NEW k \in 1..n, start[listed[k]] # Gone
                 PROVE  \E i \in 1..Len(members) : members[i] = listed[k]
      OBVIOUS
    <3>1. CASE k = n
      BY <1>3, <2>1, <3>1
    <3>2. CASE k \in 1..(n - 1)
      BY <1>1, <3>2 DEF ScanHolds
    <3> QED BY <1>2, <3>1, <3>2
  <2>3. Len(members) \in Nat /\ Len(members) + issues <= n
    BY <1>1 DEF ScanHolds
  <2>4. \A i \in 1..Len(members) :
           /\ start[members[i]] # Gone
           /\ members[i] = group \/ \E k \in 1..n : members[i] = listed[k]
    BY <1>1 DEF ScanHolds
  <2>5. ScanHolds(group, listed, start, n, scan)
    <3>1. /\ scan \in Scans /\ Len(members) <= MemberLimit
          /\ \A i, j \in 1..Len(members) : members[i] = members[j] => i = j
          /\ start[group] # Gone => 1 <= Len(members) /\ members[1] = group
      BY <1>1 DEF ScanHolds
    <3>2. Len(members) + issues <= n + 1
      BY <2>3
    <3>3. (\E k \in 1..n : listed[k] = group) => Len(members) + issues <= n
      BY <2>3
    <3>4. scan.members = members /\ scan.issues = issues
      BY <1>1
    <3> HIDE DEF pid
    <3> QED BY <2>2, <2>4, <3>1, <3>2, <3>3, <3>4 DEF ScanHolds
  <2> QED BY <1>3, <2>5
<1>4. CASE pid # group /\ (Len(members) >= MemberLimit \/ pid \in ToSet(members))
  <2>1. AppendMember(start, scan, pid) = scan
    BY <1>1, <1>4 DEF AppendMember
  <2>2. Len(members) < MemberLimit =>
           \E i \in 1..Len(members) : members[i] = pid
    <3> HIDE DEF pid
    <3>1. Len(members) \in Nat /\ DOMAIN members = 1..Len(members)
      OBVIOUS
    <3>2. Len(members) < MemberLimit => pid \in ToSet(members)
      BY JobAssumption, <1>4, <3>1
    <3> QED BY <3>1, <3>2 DEF ToSet
  <2>3. Len(members) < MemberLimit =>
           \A k \in 1..n : start[listed[k]] # Gone =>
              \E i \in 1..Len(members) : members[i] = listed[k]
    <3> SUFFICES ASSUME Len(members) < MemberLimit,
                        NEW k \in 1..n, start[listed[k]] # Gone
                 PROVE  \E i \in 1..Len(members) : members[i] = listed[k]
      OBVIOUS
    <3>1. CASE k = n
      BY <2>2, <3>1
    <3>2. CASE k \in 1..(n - 1)
      BY <1>1, <3>2 DEF ScanHolds
    <3> QED BY <1>2, <3>1, <3>2
  <2>4. (\E k \in 1..n : listed[k] = group) => Len(members) + issues <= n
    BY <1>1, <1>2, <1>4 DEF ScanHolds
  <2>5. ScanHolds(group, listed, start, n, scan)
    BY <1>1, <1>2, <2>3, <2>4 DEF ScanHolds
  <2> QED BY <1>4, <2>1, <2>5
<1>5. CASE /\ pid # group /\ Len(members) < MemberLimit
           /\ pid \notin ToSet(members) /\ start[pid] = Gone
  <2>1. AppendMember(start, scan, pid) = [members |-> members, issues |-> issues + 1]
    BY JobAssumption, <1>1, <1>5 DEF AppendMember
  <2>2. [members |-> members, issues |-> issues + 1] \in Scans
    BY <1>1 DEF Scans
  <2>3. ScanHolds(group, listed, start, n,
                  [members |-> members, issues |-> issues + 1])
    BY JobAssumption, <1>1, <1>2, <1>5, <2>2 DEF ScanHolds
  <2> QED BY <1>5, <2>1, <2>3
<1>6. CASE /\ pid # group /\ Len(members) < MemberLimit
           /\ pid \notin ToSet(members) /\ start[pid] # Gone
  <2> DEFINE longer == Append(members, pid)
  <2>1. AppendMember(start, scan, pid) = [members |-> longer, issues |-> issues]
    BY JobAssumption, <1>1, <1>6 DEF AppendMember
  <2>2. /\ longer \in Seq(Members) /\ Len(longer) = Len(members) + 1
        /\ longer[Len(longer)] = pid
        /\ \A i \in 1..Len(members) : longer[i] = members[i] /\ members[i] # pid
    BY <1>2, <1>6 DEF ToSet
  <2> HIDE DEF longer, pid
  <2>3. [members |-> longer, issues |-> issues] \in Scans
    BY <2>2 DEF Scans
  <2>4. ScanHolds(group, listed, start, n, [members |-> longer, issues |-> issues])
    <3>1. \A i \in 1..Len(longer) : i = Len(longer) \/ i \in 1..Len(members)
      BY <2>2
    <3>2. /\ Len(longer) \in 1..Len(longer)
          /\ \A i \in 1..Len(members) : i \in 1..Len(longer) /\ longer[i] = members[i]
      BY <2>2
    <3>3. \A i, j \in 1..Len(longer) : longer[i] = longer[j] => i = j
      <4>1. \A i, j \in 1..Len(members) : members[i] = members[j] => i = j
        BY <1>1 DEF ScanHolds
      <4> QED BY <2>2, <3>1, <4>1
    <3>4. \A i \in 1..Len(longer) :
             /\ start[longer[i]] # Gone
             /\ longer[i] = group \/ \E k \in 1..n : longer[i] = listed[k]
      <4>1. ASSUME NEW i \in 1..Len(members)
            PROVE  /\ start[members[i]] # Gone
                   /\ members[i] = group \/ \E k \in 1..n : members[i] = listed[k]
        BY <1>1 DEF ScanHolds
      <4>2. n \in 1..n /\ longer[Len(longer)] = listed[n] /\ start[listed[n]] # Gone
        BY <1>6, <2>2 DEF pid
      <4>3. ASSUME NEW i \in 1..Len(members)
            PROVE  /\ start[longer[i]] # Gone
                   /\ longer[i] = group \/ \E k \in 1..n : longer[i] = listed[k]
        <5>1. longer[i] = members[i]
          BY <3>2
        <5> QED BY <4>1, <5>1
      <4>4. /\ start[longer[Len(longer)]] # Gone
            /\ \E k \in 1..n : longer[Len(longer)] = listed[k]
        BY <4>2
      <4> QED BY <3>1, <4>3, <4>4
    <3>5. \A k \in 1..n : start[listed[k]] # Gone =>
             \E i \in 1..Len(longer) : longer[i] = listed[k]
      <4>1. ASSUME NEW k \in 1..(n - 1), start[listed[k]] # Gone
            PROVE  \E i \in 1..Len(longer) : longer[i] = listed[k]
        <5>1. \E i \in 1..Len(members) : members[i] = listed[k]
          <6>1. scan.members = members
            BY <1>1
          <6> QED BY <1>6, <4>1, <6>1 DEF ScanHolds
        <5>2. PICK i \in 1..Len(members) : members[i] = listed[k]
          BY <5>1
        <5>3. i \in 1..Len(longer) /\ longer[i] = listed[k]
          BY <3>2, <5>2
        <5> QED BY <5>3
      <4>2. longer[Len(longer)] = listed[n]
        BY <2>2 DEF pid
      <4> QED BY <1>2, <3>2, <4>1, <4>2
    <3>6. Len(longer) + issues <= n + 1 /\ Len(longer) <= MemberLimit
      BY JobAssumption, <1>1, <1>6, <2>2 DEF ScanHolds
    <3>7. (\E k \in 1..n : listed[k] = group) => Len(longer) + issues <= n
      <4> SUFFICES ASSUME NEW k \in 1..n, listed[k] = group
                   PROVE  Len(longer) + issues <= n
        OBVIOUS
      <4>1. k \in 1..(n - 1)
        BY <1>2, <1>6 DEF pid
      <4>2. Len(members) + issues <= n - 1
        BY <1>1, <4>1 DEF ScanHolds
      <4> QED BY <2>2, <4>2
    <3>8. start[group] # Gone => 1 <= Len(longer) /\ longer[1] = group
      BY <1>1, <2>2 DEF ScanHolds
    <3> QED BY <2>3, <3>3, <3>4, <3>5, <3>6, <3>7, <3>8 DEF ScanHolds
  <2> QED BY <1>6, <2>1, <2>4 DEF pid
<1>7. start[pid] # Gone \/ start[pid] = Gone
  OBVIOUS
<1> QED BY JobAssumption, <1>1, <1>3, <1>4, <1>5, <1>6

LEMMA Scanned ==
    ASSUME NEW group \in Members, NEW listed \in Seq(Members),
           NEW start \in [Members -> Int]
    PROVE  ScanHolds(group, listed, start, Len(listed), Scan(group, listed, start))
<1> DEFINE N == Len(listed)
<1>1. PICK loop :
         /\ loop[0] = AppendMember(start, Nothing, group)
         /\ \A n \in 1..N :
               loop[n] = IF listed[n] = group THEN loop[n - 1]
                         ELSE AppendMember(start, loop[n - 1], listed[n])
         /\ Scan(group, listed, start) = loop[N]
  BY ScanLoop
<1> DEFINE T == {n \in 0..N : ScanHolds(group, listed, start, n, loop[n])}
<1>2. N \in Nat /\ T \in SUBSET (0..N)
  OBVIOUS
<1>3. 0 \in T
  BY <1>1, <1>2, ScanStart
<1>4. ASSUME NEW n \in 1..N, n - 1 \in T PROVE n \in T
  <2>1. ScanHolds(group, listed, start, n - 1, loop[n - 1])
    BY <1>4
  <2>2. ScanHolds(group, listed, start, n, loop[n])
    BY <1>1, <2>1, ScanGoesOn
  <2> QED BY <1>2, <2>2
<1> HIDE DEF N, T
<1>5. T = 0..N
  BY <1>2, <1>3, <1>4, Counting
<1>6. N \in T
  BY <1>2, <1>5
<1> QED BY <1>1, <1>6 DEF N, T

-----------------------------------------------------------------------------
(* The primary and the order of the others.                                 *)

Selects(group, start, selected, p) ==
    IF selected # group /\ (p = group \/ Better(start, p, selected))
    THEN p ELSE selected

LEMMA PrimaryLoop ==
    ASSUME NEW group \in Members, NEW members \in Seq(Members), members # <<>>,
           NEW start \in [Members -> Int]
    PROVE  \E loop :
              /\ loop[0] = members[1]
              /\ \A n \in 1..Len(members) :
                    loop[n] = Selects(group, start, loop[n - 1], members[n])
              /\ Primary(group, members, start) = loop[Len(members)]
<1> DEFINE N == Len(members)
           F(g) == [s \in SUBSET (1..N) |->
                      IF s = {} THEN members[1]
                      ELSE Selects(group, start, g[s \ {Max(s)}], members[Max(s)])]
           C == CHOOSE g : g = F(g)
           step == [n \in 1..N |->
                      [p \in Members |-> Selects(group, start, p, members[n])]]
<1>1. /\ N \in Nat \ {0} /\ DOMAIN members = 1..N
      /\ \A n \in 1..N : members[n] \in Members
  OBVIOUS
<1>2. Primary(group, members, start) = C[1..N]
  BY <1>1 DEF Primary, FoldLeft, MapThenFoldSet, Selects
<1>3. C = F(C)
  <2>1. members[1] \in Members
    BY <1>1
  <2>2. step \in [1..N -> [Members -> Members]]
    BY <1>1 DEF Selects
  <2>3. PICK g \in [SUBSET (1..N) -> Members] : Iterated(g, N, members[1], step)
    <3>1. N \in Nat
      OBVIOUS
    <3> HIDE DEF step, N, C, F
    <3> QED BY <3>1, <2>1, <2>2, Iterates, ZenonT(60)
  <2>4. ASSUME NEW s \in SUBSET (1..N)
        PROVE  g[s] = IF s = {} THEN members[1]
                      ELSE Selects(group, start, g[s \ {Max(s)}], members[Max(s)])
    <3>1. CASE s = {}
      BY <2>3, <3>1 DEF Iterated
    <3>2. CASE s # {}
      <4> HIDE DEF N
      <4>1. Max(s) \in 1..N
        BY <1>1, <3>2, LargestOf
      <4>2. g[s \ {Max(s)}] \in Members
        OBVIOUS
      <4> QED BY <2>3, <3>2, <4>1, <4>2 DEF Iterated
    <3> QED BY <3>1, <3>2
  <2>5. g = F(g)
    <3> HIDE DEF N
    <3> QED BY <2>4
  <2> HIDE DEF F
  <2> QED BY <2>5
<1> HIDE DEF C
<1>4. C[{}] = members[1]
  BY <1>3
<1>5. ASSUME NEW n \in 1..N
      PROVE  C[1..n] = Selects(group, start, C[1..(n - 1)], members[n])
  <2> HIDE DEF N
  <2>1. n \in Nat \ {0} /\ 1..n \in SUBSET (1..N) /\ n \in 1..n
    BY <1>1
  <2>2. Max(1..n) = n /\ (1..n) \ {n} = 1..(n - 1)
    BY <2>1, LargestOfInterval
  <2>3. C[1..n] = Selects(group, start, C[(1..n) \ {Max(1..n)}], members[Max(1..n)])
    BY <1>3, <2>1
  <2> QED BY <2>2, <2>3
<1> DEFINE loop == [n \in 0..N |-> C[1..n]]
<1>6. loop[0] = members[1]
  <2>1. 1..0 = {} /\ 0 \in 0..N
    BY <1>1
  <2> QED BY <1>4, <2>1
<1>7. \A n \in 1..N : loop[n] = Selects(group, start, loop[n - 1], members[n])
  <2> HIDE DEF N
  <2> QED BY <1>1, <1>5
<1>8. Primary(group, members, start) = loop[N]
  BY <1>1, <1>2
<1> HIDE DEF loop, N
<1> QED BY <1>6, <1>7, <1>8 DEF N

\* The comparison of the sort is a strict total order; the selection of the
\* primary agrees with it, and so does the documented rank.
LEMMA BeforeIsStrictTotal ==
    ASSUME NEW start \in [Members -> Int]
    PROVE  /\ \A p \in Members : ~Before(start, p, p)
           /\ \A p, q \in Members :
                 p = q \/ Before(start, p, q) \/ Before(start, q, p)
           /\ \A p, q, r \in Members :
                 Before(start, p, q) /\ Before(start, q, r) => Before(start, p, r)
BY JobAssumption DEF Before

LEMMA BetterIsBefore ==
    ASSUME NEW start \in [Members -> Int], NEW p \in Members, NEW q \in Members
    PROVE  Better(start, p, q) <=> Before(start, p, q)
BY DEF Better, Before

LEMMA EarlierIsBefore ==
    ASSUME NEW start \in [Members -> Int], NEW p \in Members, NEW q \in Members
    PROVE  Earlier(Rank(start, p), Rank(start, q)) <=> Before(start, p, q)
<1>1. \A a, b, c, d, e, f \in Int :
         Earlier(<<a, b, c>>, <<d, e, f>>) <=>
            a < d \/ (a = d /\ b < e) \/ (a = d /\ b = e /\ c < f)
  <2> TAKE a, b, c, d, e, f \in Int
  <2>1. Earlier(<<a, b, c>>, <<d, e, f>>) <=>
           \/ a < d
           \/ b < e /\ \A j \in 1..1 : <<a, b, c>>[j] = <<d, e, f>>[j]
           \/ c < f /\ \A j \in 1..2 : <<a, b, c>>[j] = <<d, e, f>>[j]
    BY DEF Earlier
  <2> QED BY <2>1
<1> QED BY JobAssumption, <1>1 DEF Rank, Before

\* The invariant of the selection: the leader once it was met, else the first
\* of those met.
SelectHolds(group, members, start, n, selected) ==
    /\ \E i \in 1..Len(members) : selected = members[i]
    /\ (\E i \in 1..n : members[i] = group) => selected = group
    /\ \/ selected = group
       \/ \A i \in 1..n : members[i] = selected \/ Before(start, selected, members[i])

LEMMA PrimarySelected ==
    ASSUME NEW group \in Members, NEW members \in Seq(Members), members # <<>>,
           NEW start \in [Members -> Int]
    PROVE  SelectHolds(group, members, start, Len(members),
                       Primary(group, members, start))
<1> DEFINE N == Len(members)
<1>1. PICK loop :
         /\ loop[0] = members[1]
         /\ \A n \in 1..N : loop[n] = Selects(group, start, loop[n - 1], members[n])
         /\ Primary(group, members, start) = loop[N]
  BY PrimaryLoop
<1> DEFINE T == {n \in 0..N : SelectHolds(group, members, start, n, loop[n])}
<1>2. N \in Nat \ {0} /\ T \in SUBSET (0..N)
  OBVIOUS
<1>3. 0 \in T
  BY <1>1, <1>2 DEF SelectHolds
<1>4. ASSUME NEW n \in 1..N, n - 1 \in T PROVE n \in T
  <2> DEFINE p == members[n]  q == loop[n - 1]
  <2>1. SelectHolds(group, members, start, n - 1, q)
    BY <1>4
  <2>2. p \in Members /\ q \in Members /\ \A i \in 1..n : i = n \/ i \in 1..(n - 1)
    BY <2>1 DEF SelectHolds
  <2>3. loop[n] = Selects(group, start, q, p)
    BY <1>1
  <2> HIDE DEF q
  <2>4. SelectHolds(group, members, start, n, Selects(group, start, q, p))
    <3>1. CASE q = group
      BY <2>1, <3>1 DEF SelectHolds, Selects
    <3>2. CASE q # group /\ p = group
      BY <2>1, <3>2 DEF SelectHolds, Selects
    <3>3. CASE q # group /\ p # group /\ Better(start, p, q)
      <4>1. Selects(group, start, q, p) = p /\ Before(start, p, q)
        BY <2>2, <3>3, BetterIsBefore DEF Selects
      <4>2. \A i \in 1..n : members[i] = p \/ Before(start, p, members[i])
        <5> SUFFICES ASSUME NEW i \in 1..(n - 1)
                     PROVE  Before(start, p, members[i])
          BY <2>2
        <5>1. members[i] = q \/ Before(start, q, members[i])
          BY <2>1, <3>3 DEF SelectHolds
        <5>2. members[i] \in Members
          OBVIOUS
        <5> HIDE DEF p
        <5> QED BY <2>2, <4>1, <5>1, <5>2, BeforeIsStrictTotal
      <4>3. \A i \in 1..n : members[i] # group
        BY <2>1, <2>2, <3>3 DEF SelectHolds
      <4> QED BY <4>1, <4>2, <4>3 DEF SelectHolds
    <3>4. CASE q # group /\ p # group /\ ~Better(start, p, q)
      <4>1. Selects(group, start, q, p) = q /\ (p = q \/ Before(start, q, p))
        BY <2>2, <3>4, BetterIsBefore, BeforeIsStrictTotal DEF Selects
      <4>2. \A i \in 1..n : members[i] = q \/ Before(start, q, members[i])
        BY <2>1, <2>2, <3>4, <4>1 DEF SelectHolds
      <4>3. \A i \in 1..n : members[i] # group
        BY <2>1, <2>2, <3>4 DEF SelectHolds
      <4> QED BY <2>1, <4>1, <4>2, <4>3 DEF SelectHolds
    <3> QED BY <3>1, <3>2, <3>3, <3>4
  <2> QED BY <1>2, <2>3, <2>4
<1> HIDE DEF N, T
<1>5. T = 0..N
  BY <1>2, <1>3, <1>4, Counting
<1>6. N \in T
  BY <1>2, <1>5
<1> QED BY <1>1, <1>6 DEF N, T

\* How many come before each is a bijection onto the positions, so every position
\* has its process and the sorted ones are all, in order.
LEMMA SortedExact ==
    ASSUME NEW start \in [Members -> Int], NEW S \in SUBSET Members
    PROVE  /\ Cardinality(S) \in Nat
           /\ Sorted(start, S) \in [1..Cardinality(S) -> S]
           /\ \A i, j \in 1..Cardinality(S) : i < j =>
                 Before(start, Sorted(start, S)[i], Sorted(start, S)[j])
           /\ \A p \in S : \E i \in 1..Cardinality(S) : Sorted(start, S)[i] = p
<1> DEFINE N == Cardinality(S)
           Below(p) == {q \in S : Before(start, q, p)}
           rank == [p \in S |-> Cardinality(Below(p)) + 1]
           seq == Sorted(start, S)
<1>1. IsFiniteSet(S) /\ N \in Nat
  BY JobAssumption, FS_Subset, FS_CardinalityType
<1>2. ASSUME NEW p \in S
      PROVE  IsFiniteSet(Below(p)) /\ Cardinality(Below(p)) \in Nat
  BY <1>1, FS_Subset, FS_CardinalityType
<1>3. ASSUME NEW p \in S, NEW q \in S, Before(start, p, q)
      PROVE  rank[p] < rank[q]
  <2>1. Below(p) \cup {p} \in SUBSET Below(q)
    BY <1>3, BeforeIsStrictTotal
  <2>2. p \notin Below(p)
    BY BeforeIsStrictTotal
  <2> HIDE DEF Below
  <2>3. Cardinality(Below(p) \cup {p}) = Cardinality(Below(p)) + 1
    BY <1>2, <2>2, FS_AddElement
  <2>4. Cardinality(Below(p) \cup {p}) <= Cardinality(Below(q))
    BY <1>2, <2>1, FS_Subset
  <2> QED BY <1>2, <2>3, <2>4
<1>4. ASSUME NEW p \in S PROVE rank[p] \in 1..N
  <2>1. Below(p) \cup {p} \in SUBSET S
    OBVIOUS
  <2>2. p \notin Below(p)
    BY BeforeIsStrictTotal
  <2> HIDE DEF Below
  <2>3. Cardinality(Below(p) \cup {p}) = Cardinality(Below(p)) + 1
    BY <1>2, <2>2, FS_AddElement
  <2>4. Cardinality(Below(p) \cup {p}) <= N
    BY <1>1, <2>1, FS_Subset
  <2> QED BY <1>1, <1>2, <2>3, <2>4
<1>5. \A p, q \in S : rank[p] = rank[q] => p = q
  <2> SUFFICES ASSUME NEW p \in S, NEW q \in S, rank[p] = rank[q], p # q
               PROVE  FALSE
    OBVIOUS
  <2>1. Before(start, p, q) \/ Before(start, q, p)
    BY BeforeIsStrictTotal
  <2>2. rank[p] \in Int /\ rank[q] \in Int
    BY <1>4
  <2> HIDE DEF rank
  <2> QED BY <1>3, <2>1, <2>2
<1> HIDE DEF rank
<1>6. rank \in Injection(S, 1..N)
  <2>1. rank \in [S -> 1..N]
    BY <1>4 DEF rank
  <2> QED BY <1>5, <2>1 DEF Injection, IsInjective
<1>7. \A i \in 1..N : \E p \in S : rank[p] = i
  <2>1. IsFiniteSet(1..N) /\ Cardinality(1..N) = N
    BY <1>1, FS_Interval
  <2>2. rank \in Surjection(S, 1..N)
    BY <1>6, <2>1, FS_Injection
  <2> QED BY <2>2 DEF Surjection
<1>8. \A i \in 1..N : seq[i] \in S /\ rank[seq[i]] = i
  <2> SUFFICES ASSUME NEW i \in 1..N
               PROVE  seq[i] \in S /\ rank[seq[i]] = i
    OBVIOUS
  <2>1. \A p \in S : Cardinality(Below(p)) = i - 1 <=> rank[p] = i
    <3> TAKE p \in S
    <3>1. rank[p] = Cardinality(Below(p)) + 1 /\ Cardinality(Below(p)) \in Nat
      BY <1>2 DEF rank
    <3> HIDE DEF Below, seq
    <3> QED BY <1>1, <3>1
  <2>2. seq[i] = CHOOSE p \in S : Cardinality(Below(p)) = i - 1
    BY DEF Sorted
  <2>3. \E p \in S : Cardinality(Below(p)) = i - 1
    BY <1>7, <2>1
  <2> HIDE DEF Below, seq
  <2>4. seq[i] \in S /\ Cardinality(Below(seq[i])) = i - 1
    BY <2>2, <2>3
  <2> QED BY <2>1, <2>4
<1>9. seq \in [1..N -> S]
  <2>1. DOMAIN seq = 1..N /\ seq = [i \in DOMAIN seq |-> seq[i]]
    BY DEF Sorted
  <2> HIDE DEF seq
  <2> QED BY <1>8, <2>1
<1> HIDE DEF seq, Below
<1>10. ASSUME NEW i \in 1..N, NEW j \in 1..N, i < j
       PROVE  Before(start, seq[i], seq[j])
  <2>1. seq[i] # seq[j]
    BY <1>8, <1>10
  <2>2. ~Before(start, seq[j], seq[i])
    <3> SUFFICES ASSUME Before(start, seq[j], seq[i]) PROVE FALSE
      OBVIOUS
    <3>1. seq[i] \in S /\ seq[j] \in S /\ rank[seq[i]] = i /\ rank[seq[j]] = j
      BY <1>8
    <3>2. rank[seq[j]] < rank[seq[i]]
      BY <1>3, <3>1
    <3> QED BY <1>1, <1>10, <3>1, <3>2
  <2> QED BY <1>8, <2>1, <2>2, BeforeIsStrictTotal
<1>11. \A p \in S : \E i \in 1..N : seq[i] = p
  BY <1>4, <1>5, <1>8
<1> QED BY <1>1, <1>9, <1>10, <1>11 DEF seq

LEMMA DistinctAreCounted ==
    ASSUME NEW members \in Seq(Members),
           \A i, j \in 1..Len(members) : members[i] = members[j] => i = j
    PROVE  IsFiniteSet(ToSet(members)) /\ Cardinality(ToSet(members)) = Len(members)
<1>1. Len(members) \in Nat /\ DOMAIN members = 1..Len(members)
  OBVIOUS
<1>2. members \in Bijection(1..Len(members), ToSet(members))
  <2>1. members \in [1..Len(members) -> ToSet(members)]
    BY <1>1 DEF ToSet
  <2>2. \A p \in ToSet(members) : \E i \in 1..Len(members) : members[i] = p
    BY <1>1 DEF ToSet
  <2> QED BY <2>1, <2>2 DEF Bijection, Injection, IsInjective, Surjection
<1>3. ExistsBijection(1..Len(members), ToSet(members))
  BY <1>2 DEF ExistsBijection
<1> QED BY <1>1, <1>3, FS_CountingElements, FS_NatBijection

\* The members of every snapshot are the documented ones, also of a list that
\* names a process twice.
LEMMA MembersProved ==
    ASSUME NEW group \in Members, NEW listed \in Seq(Members),
           NEW start \in [Members -> Nat \cup {Gone}],
           \A p \in Members \ ToSet(listed) : start[p] = Gone
    PROVE  MembersExact(group, listed, start)
<1> DEFINE live == {p \in ToSet(listed) : start[p] # Gone}
           scan == Scan(group, listed, start)
           members == scan.members
           kept == ToSet(members)
           primary == Primary(group, members, start)
           rest == kept \ {primary}
           order == Ordered(group, members, start)
<1>1. start \in [Members -> Int] /\ ToSet(listed) \subseteq Members
  BY DEF ToSet, Gone
<1>2. ScanHolds(group, listed, start, Len(listed), scan)
  BY <1>1, Scanned
<1>3. /\ members \in Seq(Members) /\ Len(members) \in Nat /\ scan.issues \in Nat
      /\ \A i, j \in 1..Len(members) : members[i] = members[j] => i = j
      /\ \A p : p \in kept <=> \E i \in 1..Len(members) : members[i] = p
  <2> HIDE DEF scan
  <2> QED BY <1>2 DEF ScanHolds, Scans, ToSet
<1> HIDE DEF scan
<1>4. IsFiniteSet(kept) /\ Cardinality(kept) = Len(members)
  BY <1>3, DistinctAreCounted
<1>5. \A p : p \in ToSet(listed) <=> \E k \in 1..Len(listed) : listed[k] = p
  BY DEF ToSet
<1>6. kept \subseteq live
  <2> SUFFICES ASSUME NEW i \in 1..Len(members) PROVE members[i] \in live
    BY <1>3
  <2>1. start[members[i]] # Gone /\ members[i] \in Members
    BY <1>2, <1>3 DEF ScanHolds
  <2> QED BY <2>1
<1>7. IsFiniteSet(live)
  <2>1. live \in SUBSET Members
    BY <1>1
  <2> HIDE DEF live
  <2> QED BY JobAssumption, <2>1, FS_Subset
<1>8. Len(members) = Smaller(MemberLimit, Cardinality(live))
  <2> HIDE DEF live, kept, members
  <2>1. Len(members) <= Cardinality(live) /\ Cardinality(live) \in Nat
    BY <1>4, <1>6, <1>7, FS_Subset, FS_CardinalityType
  <2>2. CASE Len(members) < MemberLimit
    <3>1. live \subseteq kept
      <4> SUFFICES ASSUME NEW p \in live PROVE p \in kept
        OBVIOUS
      <4>1. PICK k \in 1..Len(listed) : listed[k] = p
        BY <1>5 DEF live
      <4>2. start[p] # Gone
        BY DEF live
      <4>3. \E i \in 1..Len(members) : members[i] = p
        BY <1>2, <2>2, <4>1, <4>2 DEF ScanHolds, members
      <4> QED BY <1>3, <4>3
    <3>2. live = kept
      BY <1>6, <3>1
    <3> QED BY JobAssumption, <1>3, <1>4, <2>2, <3>2 DEF Smaller
  <2>3. CASE Len(members) = MemberLimit
    BY <2>1, <2>3 DEF Smaller
  <2>4. Len(members) <= MemberLimit
    BY <1>2 DEF ScanHolds, members
  <2> QED BY JobAssumption, <1>3, <2>2, <2>3, <2>4
<1>9. Omitted(listed, scan) - (Len(listed) - Cardinality(kept))
         \in IF group \in live THEN {0} ELSE {0, 1}
  <2>1. /\ Len(members) + scan.issues <= Len(listed) + 1
        /\ group \in live => Len(members) + scan.issues <= Len(listed)
    BY <1>2, <1>5 DEF ScanHolds
  <2>2. Len(listed) \in Nat
    OBVIOUS
  <2>3. Omitted(listed, scan) =
           (IF Len(listed) >= Len(members) + scan.issues THEN Len(listed)
            ELSE Len(members) + scan.issues) - Len(members)
    BY DEF Omitted, Total, Larger
  <2> HIDE DEF live, kept, members
  <2> QED BY <1>3, <1>4, <2>1, <2>2, <2>3
<1>10. ASSUME live # {}
       PROVE  /\ ToSet(order) = kept /\ Len(order) = Cardinality(kept)
              /\ IF group \in live THEN order[1] = group
                 ELSE \A i \in 2..Len(order) :
                         Earlier(Rank(start, order[1]), Rank(start, order[i]))
              /\ \A i, j \in 2..Len(order) : i < j =>
                    Earlier(Rank(start, order[i]), Rank(start, order[j]))
  <2> DEFINE N == Cardinality(rest)
             sorted == Sorted(start, rest)
  <2>1. Len(members) \in Nat \ {0} /\ members # <<>>
    <3>1. Cardinality(live) \in Nat \ {0}
      <4> HIDE DEF live
      <4> QED BY <1>7, <1>10, FS_EmptySet, FS_CardinalityType
    <3> HIDE DEF members, live
    <3> QED BY JobAssumption, <1>3, <1>8, <3>1 DEF Smaller
  <2>2. SelectHolds(group, members, start, Len(members), primary)
    <3> HIDE DEF members
    <3> QED BY <1>1, <1>3, <2>1, PrimarySelected DEF primary
  <2>3. primary \in kept
    <3> HIDE DEF kept, members, primary
    <3> QED BY <1>3, <2>2 DEF SelectHolds
  <2>4. kept \subseteq Members
    BY <1>1, <1>6
  <2> HIDE DEF live, kept, members, primary
  <2>5. rest \in SUBSET Members /\ N = Cardinality(kept) - 1
    BY <1>4, <2>3, <2>4, FS_RemoveElement
  <2>6. /\ N \in Nat /\ sorted \in [1..N -> rest]
        /\ \A i, j \in 1..N : i < j => Before(start, sorted[i], sorted[j])
        /\ \A p \in rest : \E i \in 1..N : sorted[i] = p
    <3> HIDE DEF rest
    <3> QED BY <1>1, <2>5, SortedExact
  <2>7. order = <<primary>> \o sorted
    BY DEF Ordered, primary, kept, rest
  <2>8. sorted \in Seq(Members) /\ Len(sorted) = N
    <3> HIDE DEF sorted, N, rest
    <3>1. sorted \in [1..N -> Members] /\ N \in Nat
      BY <2>5, <2>6
    <3> QED BY <3>1
  <2> HIDE DEF sorted, order, rest, N
  <2>9. /\ Len(order) = N + 1 /\ order[1] = primary
        /\ \A i \in 2..Len(order) : order[i] = sorted[i - 1] /\ i - 1 \in 1..N
        /\ \A i \in 1..N : sorted[i] = order[i + 1]
        /\ DOMAIN order = 1..(N + 1)
    <3>1. primary \in Members
      BY <2>3, <2>4
    <3> QED BY <2>6, <2>7, <2>8, <3>1
  <2>10. Len(order) = Cardinality(kept)
    BY <1>3, <1>4, <2>5, <2>9
  <2>11. ToSet(order) = kept
    <3>1. ASSUME NEW p \in ToSet(order) PROVE p \in kept
      <4>1. PICK i \in 1..(N + 1) : order[i] = p
        BY <2>9 DEF ToSet
      <4>2. CASE i = 1
        BY <2>3, <2>9, <4>1, <4>2
      <4>3. CASE i # 1
        <5>1. i \in 2..Len(order)
          BY <2>6, <2>9, <4>3
        <5>2. p \in rest
          BY <2>6, <2>9, <4>1, <5>1
        <5> QED BY <5>2 DEF rest
      <4> QED BY <4>2, <4>3
    <3>2. ASSUME NEW p \in kept PROVE p \in ToSet(order)
      <4>1. \E i \in 1..(N + 1) : order[i] = p
        <5>1. CASE p = primary
          BY <2>6, <2>9, <5>1
        <5>2. CASE p # primary
          <6>1. PICK i \in 1..N : sorted[i] = p
            BY <2>6, <5>2 DEF rest
          <6> QED BY <2>6, <2>9, <6>1
        <5> QED BY <5>1, <5>2
      <4> QED BY <2>9, <4>1 DEF ToSet
    <3> QED BY <3>1, <3>2
  <2>12. \A i \in 2..Len(order) : order[i] \in rest /\ order[i] \in Members
    BY <2>5, <2>6, <2>9
  <2>13. ASSUME group \in live PROVE order[1] = group
    <3>1. 1 \in 1..Len(members) /\ members[1] = group
      BY <1>2, <2>1, <2>13 DEF ScanHolds, live, members
    <3> QED BY <2>2, <2>9, <3>1 DEF SelectHolds
  <2>14. ASSUME group \notin live, NEW i \in 2..Len(order)
         PROVE  Earlier(Rank(start, order[1]), Rank(start, order[i]))
    <3>1. primary # group
      BY <1>6, <2>3, <2>14
    <3>2. PICK k \in 1..Len(members) : members[k] = order[i]
      BY <1>3, <2>12 DEF rest
    <3>3. Before(start, primary, order[i])
      BY <2>2, <2>12, <3>1, <3>2 DEF SelectHolds, rest
    <3> QED BY <1>1, <2>3, <2>4, <2>9, <2>12, <3>3, EarlierIsBefore
  <2>15. ASSUME NEW i \in 2..Len(order), NEW j \in 2..Len(order), i < j
         PROVE  Earlier(Rank(start, order[i]), Rank(start, order[j]))
    <3>1. i - 1 < j - 1
      BY <2>15
    <3>2. Before(start, order[i], order[j])
      BY <2>6, <2>9, <3>1
    <3> QED BY <1>1, <2>12, <3>2, EarlierIsBefore
  <2> QED BY <2>10, <2>11, <2>13, <2>14, <2>15
<1> QED BY <1>6, <1>8, <1>9, <1>10 DEF MembersExact, scan

-----------------------------------------------------------------------------
(* The arguments.                                                           *)

Strings == [of : Nat, length : Nat]
Readings == [arguments : Seq(Strings), bytes : Int, error : BOOLEAN,
             truncated : BOOLEAN, stopped : BOOLEAN]
NothingRead == Reading(<<>>, 0, FALSE, FALSE, FALSE)
Shortened(string) ==
    [of |-> string.of, length |-> Smaller(string.length, SingleLimit)]

\* What one turn of the loop does: nothing, an error, the end or one more.
LEMMA TakeNone ==
    ASSUME NEW strings \in Seq(Strings), NEW read \in Readings, NEW i \in Nat \ {0}
    PROVE  /\ read.stopped => TakeArgument(strings, read, i) = read
           /\ ~read.stopped /\ i > Len(strings) =>
                 TakeArgument(strings, read, i) =
                    Reading(read.arguments, read.bytes, TRUE, read.truncated, TRUE)
<1>1. ASSUME read.stopped PROVE TakeArgument(strings, read, i) = read
  BY <1>1, Zenon DEF TakeArgument
<1>2. ASSUME ~read.stopped, i > Len(strings)
      PROVE  TakeArgument(strings, read, i) =
                Reading(read.arguments, read.bytes, TRUE, read.truncated, TRUE)
  BY <1>2, Zenon DEF TakeArgument
<1> QED BY <1>1, <1>2

LEMMA TakeNext ==
    ASSUME NEW strings \in Seq(Strings), NEW read \in Readings,
           NEW i \in Nat \ {0}, ~read.stopped, i <= Len(strings)
    PROVE  LET piece == Shortened(strings[i]) IN
           /\ piece \in Strings /\ strings[i] \in Strings
           /\ read.bytes > Capacity - piece.length - 1 =>
                 TakeArgument(strings, read, i) =
                    Reading(read.arguments, read.bytes, read.error, TRUE, TRUE)
           /\ ~(read.bytes > Capacity - piece.length - 1) =>
                 TakeArgument(strings, read, i) =
                    Reading(Append(read.arguments, piece),
                            read.bytes + piece.length + 1, read.error,
                            read.truncated \/ piece.length # strings[i].length,
                            FALSE)
<1> DEFINE piece == Shortened(strings[i])
<1>1. strings[i] \in Strings /\ ~(i > Len(strings))
  OBVIOUS
<1>2. /\ piece.length = Smaller(strings[i].length, SingleLimit)
      /\ piece = [of |-> strings[i].of, length |-> piece.length]
  BY DEF Shortened
<1>3. piece \in Strings
  BY JobAssumption, <1>1 DEF Shortened, Smaller, Strings
<1> HIDE DEF piece
<1>4. ASSUME read.bytes > Capacity - piece.length - 1
      PROVE  TakeArgument(strings, read, i) =
                Reading(read.arguments, read.bytes, read.error, TRUE, TRUE)
  BY <1>1, <1>2, <1>4, Zenon DEF TakeArgument
<1>5. ASSUME ~(read.bytes > Capacity - piece.length - 1)
      PROVE  TakeArgument(strings, read, i) =
                Reading(Append(read.arguments, piece),
                        read.bytes + piece.length + 1, read.error,
                        read.truncated \/ piece.length # strings[i].length, FALSE)
  BY <1>1, <1>2, <1>5, Zenon DEF TakeArgument
<1> QED BY <1>1, <1>3, <1>4, <1>5 DEF piece

LEMMA TakeTyped ==
    ASSUME NEW strings \in Seq(Strings), NEW read \in Readings, NEW i \in Nat \ {0}
    PROVE  TakeArgument(strings, read, i) \in Readings
<1>1. CASE read.stopped
  BY <1>1, TakeNone
<1>2. CASE ~read.stopped /\ i > Len(strings)
  <2>1. Reading(read.arguments, read.bytes, TRUE, read.truncated, TRUE) \in Readings
    BY DEF Readings, Reading
  <2> QED BY <1>2, <2>1, TakeNone
<1>3. CASE ~read.stopped /\ i <= Len(strings)
  <2> DEFINE piece == Shortened(strings[i])
  <2>1. piece \in Strings /\ strings[i] \in Strings
    BY <1>3, TakeNext
  <2>2. piece.length \in Nat /\ strings[i].length \in Nat
    BY <2>1 DEF Strings
  <2>3. Append(read.arguments, piece) \in Seq(Strings)
    BY <2>1 DEF Readings
  <2> HIDE DEF piece
  <2>4. /\ Reading(read.arguments, read.bytes, read.error, TRUE, TRUE) \in Readings
        /\ Reading(Append(read.arguments, piece), read.bytes + piece.length + 1,
                   read.error, read.truncated \/ piece.length # strings[i].length,
                   FALSE) \in Readings
    BY <2>2, <2>3 DEF Readings, Reading
  <2> QED BY <1>3, <2>4, TakeNext DEF piece
<1>4. Len(strings) \in Nat
  OBVIOUS
<1> QED BY <1>1, <1>2, <1>3, <1>4

LEMMA ReadLoop ==
    ASSUME NEW strings, Arguments(strings) \in Seq(Strings), NEW argc \in Nat
    PROVE  \E loop :
              LET last == loop[Smaller(argc, ArgumentLimit)] IN
              /\ loop[0] = NothingRead
              /\ \A n \in 1..Smaller(argc, ArgumentLimit) :
                    loop[n] = TakeArgument(Arguments(strings), loop[n - 1], n)
              /\ ReadArguments(argc, strings) =
                    Reading(last.arguments, last.bytes, last.error,
                            last.truncated \/ Len(last.arguments) < argc,
                            last.stopped)
<1> DEFINE N == Smaller(argc, ArgumentLimit)
           seq == [i \in 1..N |-> i]
           own == Arguments(strings)
           F(g) == [s \in SUBSET (1..N) |->
                      IF s = {} THEN NothingRead
                      ELSE TakeArgument(own, g[s \ {Max(s)}], seq[Max(s)])]
           C == CHOOSE g : g = F(g)
           step == [n \in 1..N |-> [read \in Readings |-> TakeArgument(own, read, n)]]
           last == C[1..N]
<1>1. N \in Nat /\ DOMAIN seq = 1..N /\ \A n \in 1..N : n \in Nat \ {0} /\ seq[n] = n
  BY JobAssumption DEF Smaller
<1>2. ReadArguments(argc, strings) =
         Reading(last.arguments, last.bytes, last.error,
                 last.truncated \/ Len(last.arguments) < argc, last.stopped)
  BY <1>1 DEF ReadArguments, FoldLeft, MapThenFoldSet, NothingRead
<1> HIDE DEF N
<1>3. C = F(C)
  <2>1. NothingRead \in Readings
    BY DEF NothingRead, Reading, Readings
  <2>2. step \in [1..N -> [Readings -> Readings]]
    BY <1>1, TakeTyped
  <2>3. PICK g \in [SUBSET (1..N) -> Readings] : Iterated(g, N, NothingRead, step)
    <3> HIDE DEF step, C, F
    <3> QED BY <1>1, <2>1, <2>2, Iterates, ZenonT(60)
  <2>4. ASSUME NEW s \in SUBSET (1..N)
        PROVE  g[s] = IF s = {} THEN NothingRead
                      ELSE TakeArgument(own, g[s \ {Max(s)}], seq[Max(s)])
    <3>1. CASE s = {}
      BY <2>3, <3>1 DEF Iterated
    <3>2. CASE s # {}
      <4>1. Max(s) \in 1..N
        BY <1>1, <3>2, LargestOf
      <4>2. g[s \ {Max(s)}] \in Readings
        OBVIOUS
      <4> HIDE DEF own
      <4> QED BY <1>1, <2>3, <3>2, <4>1, <4>2 DEF Iterated
    <3> QED BY <3>1, <3>2
  <2>5. g = F(g)
    <3> HIDE DEF own, seq
    <3> QED BY <2>4
  <2> HIDE DEF F
  <2> QED BY <2>5
<1> HIDE DEF C, own, seq
<1>4. C[{}] = NothingRead
  BY <1>3
<1>5. ASSUME NEW n \in 1..N
      PROVE  C[1..n] = TakeArgument(own, C[1..(n - 1)], n)
  <2>1. n \in Nat \ {0} /\ 1..n \in SUBSET (1..N) /\ n \in 1..n
    BY <1>1
  <2>2. Max(1..n) = n /\ (1..n) \ {n} = 1..(n - 1)
    BY <2>1, LargestOfInterval
  <2>3. C[1..n] = TakeArgument(own, C[(1..n) \ {Max(1..n)}], seq[Max(1..n)])
    BY <1>3, <2>1
  <2> QED BY <1>1, <2>2, <2>3
<1> DEFINE loop == [n \in 0..N |-> C[1..n]]
<1>6. loop[0] = NothingRead
  <2>1. 1..0 = {} /\ 0 \in 0..N
    BY <1>1
  <2> QED BY <1>4, <2>1
<1>7. \A n \in 1..N : loop[n] = TakeArgument(own, loop[n - 1], n)
  BY <1>1, <1>5
<1>8. loop[N] = last
  BY <1>1
<1> HIDE DEF loop, last
<1> QED BY <1>2, <1>6, <1>7, <1>8 DEF N, own

\* The invariant of the loop: after i turns the first i strings have been read,
\* each cut to the limit, or the loop has stopped before them.
ReadHolds(strings, i, read) ==
    /\ read \in Readings /\ read.bytes <= Capacity
    /\ Len(read.arguments) <= Len(strings)
    /\ IF read.stopped THEN Len(read.arguments) < i ELSE Len(read.arguments) = i
    /\ \A j \in 1..Len(read.arguments) : read.arguments[j] = Shortened(strings[j])
    /\ read.truncated =>
          \/ read.stopped
          \/ \E j \in 1..Len(read.arguments) :
                Shortened(strings[j]).length # strings[j].length
    /\ (\E j \in 1..Len(read.arguments) :
           Shortened(strings[j]).length # strings[j].length) => read.truncated
    /\ read.error => Len(strings) < i

LEMMA ReadGoesOn ==
    ASSUME NEW strings \in Seq(Strings), NEW i \in Nat \ {0}, NEW read,
           ReadHolds(strings, i - 1, read)
    PROVE  ReadHolds(strings, i, TakeArgument(strings, read, i))
<1>1. /\ read \in Readings /\ Len(strings) \in Nat
      /\ read.arguments \in Seq(Strings) /\ Len(read.arguments) \in Nat
      /\ read.bytes \in Int /\ read.error \in BOOLEAN
      /\ read.truncated \in BOOLEAN /\ read.stopped \in BOOLEAN
  BY DEF ReadHolds, Readings
<1>2. TakeArgument(strings, read, i) \in Readings
  BY <1>1, TakeTyped
<1>3. CASE read.stopped
  <2>1. TakeArgument(strings, read, i) = read
    BY <1>1, <1>3, TakeNone
  <2> QED BY <1>1, <1>3, <2>1 DEF ReadHolds
<1>4. CASE ~read.stopped /\ i > Len(strings)
  <2>1. TakeArgument(strings, read, i) =
           Reading(read.arguments, read.bytes, TRUE, read.truncated, TRUE)
    BY <1>1, <1>4, TakeNone
  <2> QED BY <1>1, <1>2, <1>4, <2>1 DEF ReadHolds, Reading
<1>5. CASE ~read.stopped /\ i <= Len(strings)
  <2> DEFINE piece == Shortened(strings[i])
  <2>1. /\ piece \in Strings /\ strings[i] \in Strings
        /\ read.bytes > Capacity - piece.length - 1 =>
              TakeArgument(strings, read, i) =
                 Reading(read.arguments, read.bytes, read.error, TRUE, TRUE)
        /\ ~(read.bytes > Capacity - piece.length - 1) =>
              TakeArgument(strings, read, i) =
                 Reading(Append(read.arguments, piece),
                         read.bytes + piece.length + 1, read.error,
                         read.truncated \/ piece.length # strings[i].length,
                         FALSE)
    BY <1>1, <1>5, TakeNext
  <2>2. piece.length \in Nat /\ strings[i].length \in Nat
    BY <2>1 DEF Strings
  <2>3. CASE read.bytes > Capacity - piece.length - 1
    <3>1. TakeArgument(strings, read, i) =
             Reading(read.arguments, read.bytes, read.error, TRUE, TRUE)
      BY <2>1, <2>3
    <3> QED BY <1>1, <1>2, <1>5, <3>1 DEF ReadHolds, Reading
  <2>4. CASE ~(read.bytes > Capacity - piece.length - 1)
    <3> DEFINE longer == Append(read.arguments, piece)
               total == read.bytes + piece.length + 1
               cut == read.truncated \/ piece.length # strings[i].length
    <3>1. TakeArgument(strings, read, i) =
             Reading(longer, total, read.error, cut, FALSE)
      BY <2>1, <2>4
    <3>2. /\ Len(longer) = i /\ longer[i] = piece
          /\ \A j \in 1..(i - 1) : longer[j] = read.arguments[j]
          /\ Len(read.arguments) = i - 1
      BY <1>1, <1>5, <2>1 DEF ReadHolds
    <3>3. total <= Capacity
      BY JobAssumption, <1>1, <2>2, <2>4
    <3> HIDE DEF longer, total
    <3>4. \A j \in 1..i : j = i \/ j \in 1..(i - 1)
      OBVIOUS
    <3>5. \A j \in 1..Len(longer) : longer[j] = Shortened(strings[j])
      BY <3>2, <3>4 DEF ReadHolds
    <3>6. cut <=> \E j \in 1..Len(longer) :
                     Shortened(strings[j]).length # strings[j].length
      <4>1. read.truncated <=> \E j \in 1..(i - 1) :
                     Shortened(strings[j]).length # strings[j].length
        BY <1>5, <3>2 DEF ReadHolds
      <4> QED BY <3>2, <3>4, <4>1
    <3>7. ~read.error
      BY <1>1, <1>5 DEF ReadHolds
    <3> HIDE DEF cut, piece
    <3>8. ReadHolds(strings, i, Reading(longer, total, read.error, cut, FALSE))
      <4>1. Reading(longer, total, read.error, cut, FALSE) \in Readings
        BY <1>2, <3>1
      <4> QED BY <1>5, <3>2, <3>3, <3>5, <3>6, <3>7, <4>1 DEF ReadHolds, Reading
    <3> QED BY <3>1, <3>8
  <2> QED BY <2>3, <2>4
<1> QED BY <1>1, <1>3, <1>4, <1>5

\* What is read of any memory: its first strings, within every limit, with a
\* truncation told exactly.
LEMMA ReadExact ==
    ASSUME NEW strings, Arguments(strings) \in Seq(Strings), NEW argc \in Nat
    PROVE  LET read == ReadArguments(argc, strings)
               own == Arguments(strings) IN
           /\ Len(read.arguments) \in Nat
           /\ Len(read.arguments) <= Len(own) /\ Len(read.arguments) <= argc
           /\ \A j \in 1..Len(read.arguments) :
                 read.arguments[j] = Shortened(own[j])
           /\ read.bytes <= Capacity
           /\ read.truncated <=>
                 \/ Len(read.arguments) < argc
                 \/ \E j \in 1..Len(read.arguments) :
                       Shortened(own[j]).length # own[j].length
           /\ read.error => Len(own) < Smaller(argc, ArgumentLimit)
<1> DEFINE N == Smaller(argc, ArgumentLimit)
           own == Arguments(strings)
<1>1. N \in Nat /\ N <= argc
  BY JobAssumption DEF Smaller
<1>2. PICK loop :
         /\ loop[0] = NothingRead
         /\ \A n \in 1..N : loop[n] = TakeArgument(own, loop[n - 1], n)
         /\ ReadArguments(argc, strings) =
               Reading(loop[N].arguments, loop[N].bytes, loop[N].error,
                       loop[N].truncated \/ Len(loop[N].arguments) < argc,
                       loop[N].stopped)
  BY ReadLoop
<1> DEFINE T == {n \in 0..N : ReadHolds(own, n, loop[n])}
<1> HIDE DEF N, own
<1>3. T \in SUBSET (0..N)
  OBVIOUS
<1>4. 0 \in T
  <2>1. ReadHolds(own, 0, NothingRead)
    <3>1. NothingRead \in Readings /\ Len(<<>>) = 0
      BY DEF NothingRead, Reading, Readings
    <3>2. Len(own) \in Nat
      BY DEF own
    <3> QED BY JobAssumption, <3>1, <3>2 DEF ReadHolds, NothingRead, Reading
  <2> QED BY <1>1, <1>2, <2>1
<1>5. ASSUME NEW n \in 1..N, n - 1 \in T PROVE n \in T
  <2>1. ReadHolds(own, n - 1, loop[n - 1]) /\ n \in Nat \ {0}
    BY <1>1, <1>5
  <2>2. ReadHolds(own, n, TakeArgument(own, loop[n - 1], n))
    BY <2>1, ReadGoesOn DEF own
  <2> QED BY <1>1, <1>2, <2>2
<1> HIDE DEF T
<1>6. T = 0..N
  BY <1>1, <1>3, <1>4, <1>5, Counting
<1>7. N \in T
  BY <1>1, <1>6
<1> DEFINE read == loop[N]
<1>8. ReadHolds(own, N, read)
  BY <1>7 DEF T
<1> HIDE DEF read
<1>9. Len(read.arguments) \in Nat /\ read.truncated \in BOOLEAN
      /\ read.stopped \in BOOLEAN /\ Len(own) \in Nat
  BY <1>8 DEF ReadHolds, Readings, own
<1>10. read.stopped => Len(read.arguments) < argc
  BY <1>1, <1>8, <1>9 DEF ReadHolds
<1>11. ReadArguments(argc, strings) =
          Reading(read.arguments, read.bytes, read.error,
                  read.truncated \/ Len(read.arguments) < argc, read.stopped)
  BY <1>2 DEF read
<1>12. Len(read.arguments) <= N
  BY <1>1, <1>8, <1>9 DEF ReadHolds
<1>13. /\ Len(read.arguments) <= Len(own)
       /\ Len(read.arguments) <= argc
       /\ \A j \in 1..Len(read.arguments) : read.arguments[j] = Shortened(own[j])
       /\ read.bytes <= Capacity
       /\ read.error => Len(own) < N
  BY <1>1, <1>8, <1>9, <1>12 DEF ReadHolds
<1>14. (read.truncated \/ Len(read.arguments) < argc) <=>
          \/ Len(read.arguments) < argc
          \/ \E j \in 1..Len(read.arguments) :
                Shortened(own[j]).length # own[j].length
  BY <1>8, <1>9, <1>10 DEF ReadHolds
<1> DEFINE result == ReadArguments(argc, strings)
<1>15. /\ result.arguments = read.arguments /\ result.bytes = read.bytes
       /\ result.error = read.error
       /\ result.truncated = (read.truncated \/ Len(read.arguments) < argc)
  BY <1>11 DEF Reading
<1> HIDE DEF result
<1>16. /\ Len(result.arguments) \in Nat
       /\ Len(result.arguments) <= Len(own) /\ Len(result.arguments) <= argc
       /\ \A j \in 1..Len(result.arguments) :
             result.arguments[j] = Shortened(own[j])
       /\ result.bytes <= Capacity
       /\ result.truncated <=>
             \/ Len(result.arguments) < argc
             \/ \E j \in 1..Len(result.arguments) :
                   Shortened(own[j]).length # own[j].length
       /\ result.error => Len(own) < N
  BY <1>9, <1>13, <1>14, <1>15
<1> QED BY <1>16 DEF result, N, own

\* With a first argument that is not empty the strings are the arguments.
LEMMA ArgumentsProved ==
    ASSUME NEW argv \in Seq(Nat), NEW environment \in Seq(Nat),
           argv # <<>>, argv[1] # 0,
           NEW whole \in 0..(Len(argv) + Len(environment))
    PROVE  ArgumentsExact(argv, environment, whole)
<1> DEFINE memory == [i \in 1..(Len(argv) + Len(environment)) |->
                         IF i <= Len(argv) THEN [of |-> i, length |-> argv[i]]
                         ELSE [of |-> 0, length |-> environment[i - Len(argv)]]]
           strings == SubSeq(memory, 1, whole)
           read == ReadArguments(Len(argv), strings)
<1>1. Len(argv) \in Nat \ {0} /\ Len(environment) \in Nat
  OBVIOUS
<1>2. memory \in Seq(Strings) /\ Len(memory) = Len(argv) + Len(environment)
  <2> DEFINE N == Len(argv) + Len(environment)
  <2>1. \A i \in 1..N : memory[i] \in Strings
    BY <1>1 DEF Strings
  <2>2. memory \in [1..N -> Strings] /\ N \in Nat
    BY <1>1, <2>1
  <2> HIDE DEF memory, N
  <2>3. memory \in Seq(Strings) /\ Len(memory) = N
    BY <2>2
  <2> QED BY <2>3 DEF N
<1>3. \A i \in 1..Len(argv) : memory[i] = [of |-> i, length |-> argv[i]]
  BY <1>1
<1> HIDE DEF memory
<1>4. /\ strings \in Seq(Strings) /\ Len(strings) = whole
      /\ \A i \in 1..whole : strings[i] = memory[i]
  BY <1>1, <1>2
<1> HIDE DEF strings
<1>5. Arguments(strings) = strings
  <2> DEFINE full == {i \in 1..Len(strings) : strings[i].length # 0}
             first == CHOOSE i \in full : \A j \in full : i <= j
  <2>1. CASE whole = 0
    <3>1. full = {} /\ strings = <<>>
      BY <1>4, <2>1
    <3> QED BY <3>1 DEF Arguments
  <2>2. CASE whole # 0
    <3>1. 1 \in full /\ \A j \in full : 1 <= j
      <4>1. 1 \in 1..Len(strings) /\ strings[1] = [of |-> 1, length |-> argv[1]]
        BY <1>1, <1>3, <1>4, <2>2
      <4>2. strings[1].length # 0
        BY <4>1
      <4> QED BY <4>1, <4>2
    <3>2. first = 1
      <4> HIDE DEF full
      <4> QED BY <3>1
    <3>3. SubSeq(strings, 1, Len(strings)) = strings
      BY <1>4, SubSeqFull
    <3> QED BY <3>1, <3>2, <3>3 DEF Arguments
  <2> QED BY <2>1, <2>2
<1>6. /\ Len(read.arguments) \in Nat
      /\ Len(read.arguments) <= whole /\ Len(read.arguments) <= Len(argv)
      /\ \A j \in 1..Len(read.arguments) :
            read.arguments[j] = Shortened(strings[j])
      /\ read.bytes <= Capacity
      /\ read.truncated <=>
            \/ Len(read.arguments) < Len(argv)
            \/ \E j \in 1..Len(read.arguments) :
                  Shortened(strings[j]).length # strings[j].length
      /\ read.error => whole < Smaller(Len(argv), ArgumentLimit)
  <2>1. Arguments(strings) \in Seq(Strings) /\ Len(argv) \in Nat
    BY <1>1, <1>4, <1>5
  <2>2. /\ Len(read.arguments) \in Nat
        /\ Len(read.arguments) <= Len(Arguments(strings))
        /\ Len(read.arguments) <= Len(argv)
        /\ \A j \in 1..Len(read.arguments) :
              read.arguments[j] = Shortened(Arguments(strings)[j])
        /\ read.bytes <= Capacity
        /\ read.truncated <=>
              \/ Len(read.arguments) < Len(argv)
              \/ \E j \in 1..Len(read.arguments) :
                    Shortened(Arguments(strings)[j]).length
                       # Arguments(strings)[j].length
        /\ read.error =>
              Len(Arguments(strings)) < Smaller(Len(argv), ArgumentLimit)
    BY <2>1, ReadExact
  <2> HIDE DEF read
  <2> QED BY <1>4, <1>5, <2>2
<1>7. \A j \in 1..Len(read.arguments) :
         strings[j] = [of |-> j, length |-> argv[j]]
  <2> TAKE j \in 1..Len(read.arguments)
  <2> HIDE DEF read
  <2>1. j \in 1..whole /\ j \in 1..Len(argv)
    BY <1>1, <1>6
  <2> QED BY <1>3, <1>4, <2>1
<1> HIDE DEF read
<1>8. \A j \in 1..Len(read.arguments) :
         /\ read.arguments[j].of = j
         /\ read.arguments[j].length = Smaller(argv[j], SingleLimit)
         /\ Shortened(strings[j]).length # strings[j].length <=>
               Smaller(argv[j], SingleLimit) # argv[j]
  <2> TAKE j \in 1..Len(read.arguments)
  <2>1. strings[j].of = j /\ strings[j].length = argv[j]
    <3>1. strings[j] = [of |-> j, length |-> argv[j]]
      BY <1>7
    <3> QED BY <3>1
  <2>2. /\ Shortened(strings[j]).of = j
        /\ Shortened(strings[j]).length = Smaller(argv[j], SingleLimit)
    BY <2>1 DEF Shortened
  <2> QED BY <1>6, <2>1, <2>2
<1>9. read.truncated <=>
         \/ Len(read.arguments) < Len(argv)
         \/ \E j \in 1..Len(read.arguments) :
               Smaller(argv[j], SingleLimit) # argv[j]
  BY <1>6, <1>8
<1> QED BY <1>6, <1>8, <1>9 DEF ArgumentsExact, memory, strings, read

\* For any group, list, start times, arguments and limits, a snapshot's members,
\* counts, order and arguments are the documented ones.
THEOREM JobIsExact == JobExact
<1>1. ASSUME NEW group \in Members, NEW listed \in Lists,
             NEW start \in Starts(listed)
      PROVE  MembersExact(group, listed, start)
  <2>1. listed \in Seq(Members)
    <3>1. Cardinality(Members) \in Nat
      BY JobAssumption, FS_CardinalityType
    <3> QED BY <3>1 DEF Lists
  <2>2. start \in [Members -> Nat \cup {Gone}]
        /\ \A p \in Members \ ToSet(listed) : start[p] = Gone
    BY JobAssumption DEF Starts
  <2> QED BY <2>1, <2>2, MembersProved
<1>2. ASSUME NEW argv \in ArgumentLists, NEW environment \in Environments,
             argv # <<>>, argv[1] # 0,
             NEW whole \in 0..(Len(argv) + Len(environment))
      PROVE  ArgumentsExact(argv, environment, whole)
  <2>1. argv \in Seq(Nat) /\ environment \in Seq(Nat)
    BY JobAssumption
  <2> QED BY <1>2, <2>1, ArgumentsProved
<1> QED BY <1>1, <1>2 DEF JobExact

\* A snapshot that found a job describes it exactly.
THEOREM SnapshotSafe == Spec => []SnapshotExact
<1>1. SnapshotExact
  BY JobIsExact DEF SnapshotExact
<1> QED BY <1>1, PTL
=============================================================================
