# A TLA+ model of dart_terminal

dart_terminal is a macOS terminal application written in Dart with native
plug-ins: a PTY session in C++, a Metal renderer in Objective-C and a worker
process for image decoding. This directory holds TLA+ modules translated from
that source, the TLC configurations that check them on small instances, and
theorems about them with proofs for TLAPS. Paths below are relative to the root
of the repository; `PROJECT.json` maps every definition to the lines it models
and lists components, hazards, runs, findings and theorems.

## 1. Inventory

### 1.1 Components

| Component | State it keeps | Operations | Talks to |
|---|---|---|---|
| **PTY native session** `packages/dart_pty_macos/native/PtySession.cc` | lifecycle (`state_`, `closing_`), read credit (`read_in_flight_bytes_`, `outstanding_`), kqueue filters and their shadows, write queue, exit evidence, close deadline | `Start`, `EnqueueWrite`, `AcknowledgeOutput`, `Resize`, `SendSignal`, `Close`, `ForceClose`, destroy; one reactor thread per session | kernel (kqueue, terminal, process ids, `waitpid`); callbacks to the facade |
| **PTY handle registry and C interface** `PtySession.cc:1784-2124`, `dart_pty_macos.h` | slots with generations, free list, live count, shared ownership of each session, the wake-up of its kqueue | create, look up, start, post, `CanDestroy`, destroy and join | client threads; native sessions |
| **PTY Dart facade** `packages/dart_pty_macos/lib/src/native_backend.dart` | `_started`, `_exit`, `_finished`, batches per event turn | start, write, resize, signal, close, dispose; `_dispatchEvent` | native session; terminal session |
| PTY public interface, fake backend | value types | validation | facade |
| **PTY spawn helpers** `PtySpawn.c`, `PtyExecChild.c` | none of their own: the descriptor table of the process, the exec error pipe, the forked child | pipe, move and protect, `forkpty`, exec or report, undo on failure | native session; kernel |
| **Update transaction** `lib/src/terminal_update_transaction.dart` | three fixed application directories and a durable journal | prepare, install, acknowledge health, rollback, recover | file system, bundle verifier |
| Update feed and controller | one operation token, the offer | check, install | update transaction |
| Terminal session `lib/src/terminal_session.dart` | screen set, paste in progress, tracked writes, shutdown future | input, paste, resize, shutdown | facade; terminal core |
| Pane model and close coordinator | pane states, pending confirmation | close request, confirm, cancel, remove | sessions; application state |
| Application state and native hierarchy | windows, tabs, splits and their AppKit projection | open, split, move, close | AppKit |
| Application quit coordinator | pending native request, shutdown future | request, confirm, shutdown, reply | panes; AppKit |
| Worker process lifecycle `lib/src/runtime_lifecycle.dart` | process, pending requests, drain barriers, evidence | start, request, shutdown, forced cleanup | worker process over pipes |
| Image worker | transfer state | decode request | worker protocol |
| Restoration `terminal_restoration*.dart` | active generation, suspend, reopen and persist futures | suspend, reopen, persist, shutdown | file system; application state |
| Frame scheduler | newest frame, one awaiting completion, retry timer | request, submit, completion, invalidate | Metal renderer |
| Metal recovery and resource rebuild | renderer generation, attempts | failure, rebuild | scheduler; renderer |
| Damage, glyph atlas, compositor | dirty rows, atlas pages and pins | damage, pack, compose | scheduler |
| Native Metal renderer | three frame slots | submit, complete on the GPU's thread | scheduler |
| Kitty graphics | chunked transfers, image store under a byte budget, decode queue | transmit, place, delete | image worker |
| Terminal core | parser state, screens, scrollback, selection | consume bytes, resize, reflow | terminal session |
| Input encoding | none | event to bytes | terminal session |
| Context dock | generation tokens, snapshots | refresh | PTY snapshots, file system |
| Configuration, settings | an immutable value | reload | files |
| Incident reports | one operation | copy, sample | files, subprocesses |
| Secure keyboard entry | a lease | acquire, release | system |
| Application composition `lib/src/terminal_application.dart` | all of the above | wiring | AppKit |

### 1.2 What is hard, and what makes each part correct

* **PTY native session.** Three parties share a session: the reactor thread, any
  client thread behind `mutex_`, and the kernel with the child. The callbacks
  are posted without waiting, the acknowledgements come back later, and the end
  of a child is seen by four unordered signs: `EVFILT_PROC`, `waitpid`, the
  terminal's EIO and another waiter of the same process. Edge-triggered
  filters are switched off to pause reading, so a forgotten mark is a reader
  that never resumes. Correct means: credit conserved and bounded, no lost
  resume, the write queue conserved through partial writes and its purge, one
  `STARTED` and one end, an `EXIT` only behind the last acknowledged byte, no
  child left unreaped, and every close and exit finishing. The session also
  keeps numbers that the system gives out again: a process id after the child
  was reaped, and the foreground group of a snapshot that is scanned without
  the lock. Correct means: no SIGKILL for a stranger, no snapshot of a job that
  has left the terminal or of a process that took over its id.
* **Spawning.** Every session of the process forks from one descriptor table,
  and each of a dozen system calls may fail alone. A child inherits what another
  session has not protected yet; a host may start with its standard descriptors
  closed, and `forkpty` overwrites 0..2 in the child; other threads read
  `master_fd_` and `kqueue_fd_` while the reactor closes them. Correct means: a
  published descriptor is open and the session's own, an ended session leaves no
  descriptor and no child, and `STARTED` is true.
* **Registry.** Calls look a handle up, release the lock and go on with a shared
  session; two may destroy it at once; slots are reused; the reactor holds a
  reference of its own session whose destructor joins the reactor. Correct means:
  a handle never reaches another session, no slot is freed twice, no thread joins
  itself, and neither a posted request nor a reader that acknowledgements have
  brought down to its low water sleeps beside a lost wake-up.
* **PTY facade.** Acknowledgements deferred to a timer mix with those made at
  once, while callbacks queue up and the process may already have failed.
  Correct means: every retained batch has exactly one acknowledgement to come,
  in order; an exit value implies complete output; nothing fails that did not
  fail below; futures complete; the native session is released.
* **Update transaction.** A crash or an error between any two of about fifteen
  storage operations, recoveries that crash in turn, and a verifier that may
  time out on an intact bundle. Correct means: an intact last good application
  at every instant, only proven applications restored, a feed sequence
  installed once, a finished recovery that really resolved the transaction.
* **Worker lifecycle.** A request timeout kills the worker while its answer,
  its exit and a shutdown are under way; exit must be classified after both
  pipes drained. Correct means: one result per request, one exit event, the
  process reaped, shutdown callable at any time.
* **Close and quit.** Confirmations answered after the pane changed, shutdowns
  awaited while new requests arrive. Correct means: one reply per native
  termination request, no confirmation applied to another pane.
* **Restoration.** Suspend, reopen, persist and shutdown await each other's
  futures. Correct means: no cycle of waiting, one active generation, the file
  on disk never older than the last finished save.
* **Frames.** A renderer that accepts, delays, refuses or is lost. Correct
  means: the newest frame is eventually shown, at most one is in flight per
  surface, nothing of an old generation is presented.
* **Terminal core and encoders.** Sequential and data heavy. Correct means: the
  result does not depend on how the input was cut into chunks.

The hazards, each at the line where it bites and with the properties that cover
it, are in `PROJECT.json`.

## 2. Modules

```
PtyContract            abstract: a byte stream under a credit window
   ^  (refinement)
PtySession             one native session: bytes, credit, lifecycle
   ^   ^   ^
   |   |   +-- PtySessionProofs <-- PtyExitProofs <-- PtyFacadeProofs
   |   +------ MCPtySession                              |
PtyFacade <-- MCPtyFacade   <----------------------------+
                                   composes the Dart process with PtySession

PtySpawn   <-- MCPtySpawn, PtySpawnProofs      every session's descriptors
PtyHost    <-- MCPtyHost, PtyHostProofs        registry, ownership, wake-up
PtyJob                                         the snapshot's pure algorithms
   ^
PtyProcess <-- MCPtyProcess, PtyProcessProofs  process ids, signals, snapshot

UpdateTransaction <-- UpdateTransactionProofs

WorkerContract         abstract: one worker, one verdict, one result per request
   ^  (refinement)
RuntimeLifecycle <-- RuntimeLifecycleProofs
```

A native session is four models because four things about it can go wrong
independently: what its bytes and callbacks are (`PtySession`), which
descriptors it holds (`PtySpawn`), who holds the session itself (`PtyHost`) and
which process an id means (`PtyProcess`). Each has the whole of the code that
touches its subject and treats the rest as choices the others can make: the
event loop is one step in `PtySpawn`, a spawn one step in `PtySession`, and the
reactor is in `PtyHost` what a caller can notice of it. All four run the reactor
through the same order of start, spawn, exec check, kqueue, loop and end.

### 2.1 PtySession

The variables are the members of the class `PtySession`, under the source's
names without the trailing underscore, plus the reactor's position (`pc`, a
return stack `stack`, the loop counter `batches`, the undispatched kevents
`fired`), the kernel's side (`produced`, `slave_open`, `room`, `child`, `killed`
and the edges of the two edge-triggered filters), `events`, every callback made,
and `truncated`, a history variable: output may lie behind the end of file that
the reactor has noted.

* *Client calls* are one action each, atomic because the source holds `mutex_`.
  A refused call changes nothing and is no step. `Start` may fail to create its
  thread; the session is then finished without any callback, and only the status
  of the call tells of it (`PtySession.cc:391-394`).
* *The reactor* is a sequence of steps between which it holds no lock or makes
  a system call: `Spawn`, `CheckExec`, `ConfigureKqueue`, then the event loop
  `Wait` - `Dispatch` - `ProcessControl` - `Retry` - `Reap` - `Decide`.
  `ReadAvailable` and `FlushWrites` are called from several places, hence the
  return stack; each iteration of their loops is a step, so that client calls,
  the child and the kernel interleave between two batches.
* *Failures*: spawn, exec, kqueue set-up and `kevent` may fail (`Faults`), after
  which the thread kills and reaps the child in `TerminateAndReap`. The child may
  exit at any time and be reaped by another waiter (`ExternalReap`).
* *The terminal* may be closed while the child lives (`SlaveCloses`), be opened
  again by a process of its session (`SlaveReopens`), also behind the end of file
  that the reactor has seen, and stay open behind the child. A `read()` that
  fails with any other errno is taken for the end of file (`ReadFails`, or
  `ReadEnds` behind the first bytes of a batch). While there is `room` an open
  terminal takes a whole request or part of it (`FlushChunk`), and who reads it
  makes room again (`InputTaken`) or never does (`FlushBlocked`).

*Abstractions.* Output byte *i* is its offset, a batch an interval of offsets, a
queued write an interval of the accepted input. `Wake()` only shortens a
`kevent` that returns after 100 ms, so a turn may begin at any time and there is
no wake state. The grace period is "none", "armed" or "due". Of pending
resizes and signals the model keeps whether one is posted. The 512 KiB limit of
`FlushWrites` is the choice to end the turn after any chunk. Where a signal goes
and what a snapshot reads is `PtyProcess`; statistics, diagnostics and the
process and directory snapshots change nothing and are left out.

*Named bounds.* `MaxOutput` and `MaxInput` end the two streams, and
`RequestKinds` says which of a resize and a signal the clients of a run make;
they are bounds of the checked instances: the proofs hold for any values.

### 2.2 PtyContract

The abstract specification: `sent`, `delivered` and `acked` positions of one
ordered stream; delivery stays within `Window` of what was acknowledged; `Exit`
is allowed only when all three agree, after which nothing is sent; `Fail` ends a
running session at any point. `Cut` is the weak point of the code, stated: the
end of a stream may be noted although more of it is there or will come, without
the client being told. Then nothing is delivered any more, and `Exit` still
means that everything delivered was acknowledged, not that it was everything.
The mapping is `Window <- HighWater`, `cut <- truncated`, `sent <- produced`,
`delivered <- bytes_read`, `acked <- bytes_read - read_in_flight`, with the phase
from `state` and the last callback.

### 2.3 PtyFacade

`_MacosPtyProcess` above one `PtySession`. The isolate's message queue is
`events` from `cursor` on; each action is one callback, timer or method that runs
to completion on the isolate, while every action of the native side interleaves.
Kept are `_started`, `_exit`, `_finished`, the batch counter of the event turn,
the `Timer.run` acknowledgements in order, and whether the native registry still
holds the session. `PtySession`'s own client actions are reached only through
the facade's guards (`Operate`, `Dispose`, `AcknowledgeOutput`). When
`sessionStart` answers that there is no thread, `StartProcess` gives the native
session back and `start()` throws: there is no process object.

### 2.4 PtySpawn

The reactors of all sessions on one descriptor table `files`, one system call to
a step: `pipe`, the moves above 2, `FD_CLOEXEC` on each end, `forkpty`, the
release of the write end, the protection of the master, its publication, the
exec check, `kqueue`, the registration of the filters, `STARTED`, and on the way
out the two members taken under the lock and closed behind it. The kernel gives
out the lowest free number, so a number is reused at once, and a full table
fails the calls that need one; with `Faults` calls fail for other reasons as
well. `child` is the forked process with its copy of the table and of the
close-on-exec set: `ChildExecs` drops the marked ones, `ChildFails` reports
through the pipe if the number still names it. The pipe's end of file is what it
is in the kernel: every copy of the write end in any process is gone.

*Abstractions.* A descriptor is which object it names; `O_NONBLOCK`, terminal
attributes and `errno` values are left out; a `poll` and a `read` of the
exec check that fail are one way to fail, since the code treats both alike;
`TerminateAndReap` is one step, since a killed child only dies. A kqueue is not inherited by `fork`.

### 2.5 PtyHost

`SessionRegistry` with its vector of slots and free list, and the calls of the C
interface as clients make them: look up under the registry's lock, then act on
the session under its own, then let the reference go; each part is a step.
`owners` is the set of holders of the shared pointer (the registry, the thread,
each call), and `Wake` the unlocked load of `kqueue_fd_` with the trigger behind
it. The reactor is what the calls notice: it publishes and takes away its
kqueue, runs `ProcessControl` once before its first wait (`prepare`) and then in
every turn (`control`, `turn`), reads, pauses, sleeps, wakes on the user event or
the time-out, and ends.

What a wake-up is for is state: `pending`, a request that waits for
`ProcessControl`, and the credit, `paused` and `retained`. `Post` is the five
requests, which need a running session and always wake. `Acknowledge` is
different: it is taken in any state, and it wakes only when reading is paused
and what remains in flight is at or below the low watermark. `NoLostWake` is
about exactly these two causes. Other acknowledgements wake nobody, also the
last one before `EXIT` when it finds reading no longer paused; the event loop
notices it when `kevent` times out (§5).

*Assumed:* a slot's generation does not come round (`HostAssumption`; in the code
after 2^32 reuses of one slot). *Left out:* argument checks, the thread-local
last error, record layouts.

### 2.6 PtyProcess and PtyJob

`process` says for each id what the kernel has under it: the child, a zombie, a
job of the child, a job that ended but is not reaped, a stranger. The session's
signals, `waitpid`s and snapshot go by the numbers it copied. `strays` records
each signal that met a stranger and whose number the reactor took it for. A
signal is one kernel call to a step: `tcgetpgrp` (`AimTerminal`), `getpgid`
(`AimGroup`), the `kill` of the foreground group, of the child's group and, when
neither took it, of the child (`KillForeground`, `KillGroup`, `KillChild`); each
may be refused. Between any two of them processes end, are reaped, change
places, and ids are given out again. `aim` holds the locals of the function under
way and whether the foreground group it was told has been reaped since
(`passed`). A snapshot call is three steps: the ids read under the lock, the scan
without it, the second look that decides whether the result still describes the
terminal's job. A turn of the reactor is the exit notice with its reap,
`ProcessControl` with the signals it sends and the reap at the end; the first turn's reap behind `ProcessControl`, which the
code does not make, equals a `kevent` that returned with nothing.

`PtyJob`, which `PtyProcess` extends, has the pure part of the snapshot: which
members are kept and counted, which is the primary one, the order of the others,
and what is read of the primary's arguments under four limits. `JobExact`
compares it with the definitions of
`docs/phase7/context-dock-foreground-process-inspector.md` for every list that
the kernel may return, every start time and every argument list;
`SnapshotExact` says that a call that answered "job" was computed exactly. The
loops of the code are folds; `std::sort` is `Sorted`, which puts each member
behind the ones its comparator calls smaller.

*Assumed:* an id does not come back within one snapshot call, so what the call
would say of a group whose id was reused meanwhile is not covered; every modelled
process leads a group of its own (larger groups are `PtyJob`'s); the first
argument is not empty (§5); one argument's limit lies below the capacity of the
buffer (`JobAssumption`; the source subtracts the two as `size_t`).

### 2.7 UpdateTransaction

`app`, `backup` and `candidate` are the three fixed directory names, `journal`
the durable file and `pc` the storage operation the running call does next; one
operation is one step. A directory holds a build, nothing, or something that
verifies as no build. `install`'s checks are one step with its first write since
they change nothing. `Crash` may replace any operation; `StorageFails` (when
`Faults`) throws from it, and then `install` recovers as its `catch` does while
the other calls end. A recursive remove that is cut short leaves a damaged
directory. `Verdicts` lets a verifier answer no on an intact bundle when
`Unreliable` (a command that timed out), never yes on a wrong one.
`proven` is a history variable: the first build and the acknowledged ones.

*Abstractions.* The transaction id is one to one with its feed sequence and is
represented by it; signatures, archive and identity policies and the journal's
JSON are data; the journal write is atomic because the source writes a
temporary file and renames it.

### 2.8 RuntimeLifecycle and WorkerContract

The coordinator of a worker process, the two pipes and diagnostics stream, and
the worker. The members of `RuntimeLifecycleCoordinator` keep their names; where
`start()`, each `requestPayload()` and `_performShutdown()` are is `start_call`,
`calls` and `shutdown_call`. The coordinator is one isolate: an action is one
event with the awaiting code that runs at once, so `HandleExit` also takes every
call that awaits `_exitSignal` to its next wait, and code behind the barriers,
the writer or `_termination` goes on in actions of its own (`Reconcile`,
`CloseTransport`, `StartEnds`, `RequestEnds`, `ShutdownEnds`). Time-outs are not
measured: one may fire whenever its call waits, and a second one covers the exit
of a killed worker.

`outbox` is the queue of `RuntimeWorkerFrameWriter`: `Flush` writes its first
frame, `Pull` is the end of a frame larger than the pipe, which needs a worker
that reads, and `FlushFails` a pipe whose reader has gone. The worker boots,
answers one frame at a time, acknowledges `stop` and leaves; at any moment it
may fail with diagnostics, exit, or write a frame that is invalid or breaks the
stream (once, when `Faults`).

`WorkerContract` is what callers may rely on: the worker is launched once and
judged once, when it is gone; a request is answered while the worker lives, ended
behind the verdict, or given up when even the kill brings no exit.

*Abstractions.* Payloads, observations and the text of diagnostics are left out;
the generation is one since a coordinator starts once. A frame reaches the pipe
and its sender goes on in one step, so an answer never overtakes the completion
of its own write. `MaxRequests` bounds the accepted requests.

## 3. Runs

| Run | Asks | Bounds | Result |
|---|---|---|---|
| `pty_output` | types, credit, lost resumes, callback order, complete exits, the write queue, the contract | high 2, low 1, batch 2, two batches per turn, no turn limit, 3 output bytes; writes of 1 and 2 bytes, capacity 2, 2 input bytes; signals; all faults | holds, 4.5 M states |
| `pty_progress` | closes and exits finish, output and input arrive | high 1, 2 output and 1 input byte, resizes, fairness | holds, 325 k states |
| `pty_facade` | credit ownership, exit completeness, one batch at a time, causes of failure, futures complete | the product's turn limit 2; high 2, batch 1, low 0; 3 output bytes, no input, resizes, faults, fairness | holds, 263 k states |
| `pty_facade_turn` | is every failure native, with a turn of two | turn limit 2, high 2 = batch, 3 output bytes, no faults | violated: finding 1 |
| `pty_facade_failure` | does a failed process release its session | same, with faults | violated: finding 2 |
| `pty_spawn` | published descriptors, leaks, what `STARTED` tells | two sessions, seven descriptors, any of the host's standard ones open, all faults | holds, 453 k states |
| `pty_host` | handles, slots, joins, wake-ups | two sessions, two clients, three generations, high 2, low 1, no turn limit, all faults | holds, 2.6 M states |
| `pty_process` | at whom a kill is aimed, whose job a snapshot shows, its exact contents | three ids (a symmetric set), all faults; groups of up to 4 of limit 3, start times up to 2, up to 3 arguments of length up to 3 against limits 2, 2 and 5 | holds, 1.3 M states |
| `update` | last good kept, only proven restored, sequences, recovery resolves | four builds, three sequences, faults, unreliable verifier | holds, 49 k states |
| `update_backup` | is the older backup kept until acknowledgement | three builds, two sequences, nothing fails | violated: finding 3 |
| `runtime` | complete ends, the in-flight limit, failed starts, the contract, every call ends | two requests in flight, the second larger than the pipe, all faults, fairness | holds, 353 k states |
| `runtime_pipe` | does a shutdown always end | one large request, no faults, fairness | violated: finding 4 |

*Why the bounds suffice.* The high watermark of 2 over batches of 2 makes a full
batch, a batch cut by credit, a pause, a resume between the watermarks and a
turn that ends with `read_retry` all occur with 3 bytes. Resizes and signals
share their guard and their place, so a run that makes one kind has the other's
interleavings. Capacity 2 with writes
of 1 and 2 bytes has a full queue, a refused write, a partial write and a queue
of two requests. The product runs with high watermark = batch and low watermark
0, the shape of the two violated facade runs; `pty_facade` halves the batch to
keep its liveness checks small, and its three bytes are three batches: one
acknowledged at once, one in a timer and one behind it. What these runs leave to
the size, the theorems of §4 settle for every value.

Seven descriptors hold two running sessions beside a closed host and one and a
half beside a full one, so `pipe`, `forkpty` and the second move of a pipe end
meet a full table while the other session holds the rest; a third session would
repeat the second. Two sessions and one slot make a handle outlive its slot;
two clients destroy one session at a time, or one destroys what the other still
uses and the next session gets the slot meanwhile. Two batches over a low
watermark of one make an acknowledgement that wakes and one that does not. Three
ids are the child, a job and a stranger, or a stranger under either's id.

Four builds and three sequences allow an update over an
acknowledged update over an acknowledged update, a rollback of the second, and
sequences that are skipped or offered again; a fourth would repeat the second.
Two requests put one in front of and one behind the large frame, the stop frame
behind both, and let one time out while the other is answered, sent or waiting;
their operations are never reused, so a third repeats the second.

*Deadlock* is not checked: a session that finished, and whose client
acknowledged everything, has nothing more to do, nor have sessions that ended
and were destroyed; in `UpdateTransaction` the
bounds of builds and sequences are reached, and a candidate that was staged but
is not newer than the current application blocks further preparation; a
coordinator starts one worker, and when that has ended nothing follows.

*Fairness.* `FairSpec` states what the code's scheduling gives: the reactor
thread runs whenever it can (a thread with a 100 ms time-out); the client
acknowledges what it was given; a child that got SIGKILL dies; the terminal of a
dead session leader is revoked; the clock moves. Nothing is assumed of a child that was not killed nor of who
reads the terminal, and client calls are never fair: that the terminal has room
again and again is the hypothesis of `InputDelivered` (`[]<>room`), which
otherwise promises nothing, and a child that closes its terminal ends the
promise.
`FairFacadeSpec` asks the same of the native side and that the isolate runs its
messages and timers; there the acknowledgements are not assumed but follow.
`FairSpec` of `RuntimeLifecycle` asks that the isolate runs its events, that a
time-out fires on a call that waits on and on, and that a killed worker dies.
Nothing is asked of a worker that lives: it may hang, and `RequestsConclude` and
`ShutdownConcludesIfRead` hold all the same, except that a large frame must not
stay unread for good. Without that exception the property is false (finding 4).

## 4. Proofs

Every safety invariant and every action property that a passing run checks is
also a theorem. `PtySessionProofs` and `PtyExitProofs` prove about `Spec` of
`PtySession`, for all watermarks, batch sizes, turn limits, capacities and write
lengths that satisfy `WaterAssumption`, `BatchAssumption`, `WriteAssumption`,
`RequestAssumption` and `BoundAssumption`:

1. *Layer one.* `TypeOK` is not inductive: `Return` takes the head of the stack,
   and `write_queued` and `read_in_flight` are decreased. The strengthening says
   where each label may return to, that the credit is conserved
   (`CreditConserved`) and that the queue is (`WriteQueueConserved`).
   `Inductive` proves them together, one step per action and under it one per
   part the action can disturb; `TypeCorrect`, `CreditSafe` and `QueueSafe`
   follow. Lemmas on contiguous intervals under `Append` and `Tail` carry the
   data part.
2. *Layer two*, on top of the first: a filter that is off before the end of file
   belongs to a marked pause (`ResumeSafe`); the child is collected or lost
   once `child_completed`; an end of file that was not cut short (`truncated`)
   means the terminal is closed and read to its end, and stays so, because only a
   living child's session opens it again; the last callback tells the state. `ExitInductive` proves these,
   `ExitSafe` gives `ExitIsComplete`. The interesting case is `Decide`: the code
   may leave on "credit exhausted" as well as on end of file, but with nothing
   outstanding the credit cannot be exhausted, since the high watermark is
   positive.
3. *Refinement.* `Refines`: `Init` maps to the contract's `Init`, and each step to
   one of its steps or a stutter, from the invariants of both layers.
4. *Order.* `OrderSafe` adds what each position of the reactor says of the
   callbacks made (`Ordered`), on top of layer two; a session without a thread
   stays at `idle` and has made none. `SerialSafe` adds `Serial`:
   with a low watermark of zero a reader that is on has nothing outstanding, no
   undispatched kevent or retry can start it again, and a batch switches it off,
   until the child is collected. Finding 1 is what happens from there on.

`PtyFacadeProofs` proves every safety property of `PtyFacade` on top of these.

* `UsesSession` (`FacadeSpec => Spec`): a callback, timer or method of the
  facade does to the session nothing that a client of `PtySession` may not do,
  so every theorem above holds under the facade as well, the contract among them
  (`FacadeKeepsContract`).
* `OwnerSafe`. `Owns` says that the first retained batches wait in timers, in
  order, and that the others are exactly the outputs among the callbacks not yet
  taken. One lemma for each thing that can happen to it - a callback appended, a
  batch delivered, an output taken, a batch given back - carries the whole; they
  speak of sets of indices, so no filtered sequence is needed. `Accounted` adds
  how much was received: up to the first batch that no timer acknowledges
  (`Position`).
* `DeliverySafe`. `ValueIsComplete` is the inductive form: behind an exit value
  the session has made its last callback, so that nothing is produced any more,
  and with an owner for every batch the exit callback was taken with none left.
  Both hold for a stream that was cut as well; that the value is behind *all*
  output is claimed of one that was not.
* `NativeFailureSafe` and `FailureSafe` have a hypothesis, and it is the point of
  finding 1: without a turn limit every acknowledgement is made at once, with
  a limit of one each waits in a timer, so none overtakes another and every
  failure is native. With a larger limit the same holds until the child is
  collected, *provided reading resumes only at a low watermark of zero* (the
  product's default, `defaultReadLowWaterBytes`): then `Serial` leaves no second
  batch that could overtake the first. With a positive low watermark it fails:
  TLC finds the counterexample in `pty_facade`'s instance with a low watermark of 1.
* `FuturesSafe`: neither completer is completed twice.

`PtySpawnProofs` proves the types (`SpawnTypeCorrect`) and all three properties
of `PtySpawn` from `SpawnAssumption`, for any number of sessions, any descriptor
limit and any host. `SpawnInv` says that the table and the members name each other
(`NumbersOpen`, `FilesNumbered`) and, for every position of a reactor, exactly
which kinds of descriptor its session holds and what is published and forked
(`InPlace`); `PublishedSafe` and `LeakSafe` follow. `StartedSafe` needs a second
layer, `ExecInv`: both ends of the pipe lie above the standard descriptors, so
the forked child still has its write end under the number it knows (`Told`), an
end of file therefore means that it ran `execve`, and a session that announced
itself has such a child.

`PtyHostProofs` proves every property of `PtyHost` from `HostAssumption`. The
registry's invariant says that the free list is the set of empty slots, each
once (`SlotsAccounted`), and that a slot's generation is that of the handle of
the session in it and larger than that of any handle it had before
(`HandlesOrdered`); it never comes round because it exceeds the number of the
slot's former sessions by at most one (`GenerationsCounted`). The ownership part says who holds what at
each step of a call: a session that a call uses is held by it, so its thread's own reference is
never the last one while it runs. `NoLostWake` speaks of a reactor that waits,
but the cause and the wake-up may come just before the wait begins; the inductive
form (`WakePending`) covers the part of the turn behind `ProcessControl` as well.
`AcknowledgeKeepsWake` is the interesting lemma: the only acknowledgement that
makes a reader resumable is the one that passes the low watermark, and it wakes.

`PtyProcessProofs` proves `KillSafe`, `JobSafe` and `ProcessTypeCorrect` from
`ProcessAssumption`. The invariant: the session's id is the child's until the
reap (`ChildKnown`), the terminal belongs to a process of its session (`TerminalOwned`), a child whose
exit was not collected still holds its id unless another waiter took it
(`ChildHeld`), what the call copied can only have ended since (`CallHolds`), and
so can the foreground group that a signal under way was told of: its number is
a job's until it is reaped, which `aim` then knows, a group is only ever the
child's, and a SIGKILL is under way only before the child was collected
(`AimHolds`).

Its second half proves `JobIsExact` from `JobAssumption`, for groups, lists,
times and limits of any size, and with it `SnapshotSafe`. Each fold is first
shown to be a loop: a sequence of values of which each comes from the one before
(`ScanLoop`, `PrimaryLoop`, `ReadLoop`). A loop invariant (`ScanHolds`,
`SelectHolds`, `ReadHolds`) then holds at every index: `Counting` gets that from
the well-foundedness of the naturals for a *set* of indices, which needs no
theorem with an operator as its parameter. What remains is about sets: the
comparator is a strict total order (`BeforeIsStrictTotal`) that agrees with the
choice of the primary (`BetterIsBefore`) and with the documented rank
(`EarlierIsBefore`), so the number of smaller members is a place of its own for
each (`SortedExact`); and the scan keeps and counts each listed process once,
also where the kernel names one twice (`MembersProved`).

`UpdateTransactionProofs` proves, from `ContentAssumption`,
`UpdateBoundAssumption` and `JournalAssumption`, for any number of builds and
sequences, under crashes, faults and an unreliable verifier, `LastGoodSafe`,
`PreviousSafe`, `RecoverySafe`, `SequenceSafe` and `UpdateTypeCorrect`. The
inductive invariant (`UpdateInductive`) adds to `TypeOK` and `LastGoodKept`:
`Places`, where the three applications may be in each journal phase; `Installs`,
what a running install has established before each operation; `Restores`, the
same of a recovery: a directory is cleared only after the backup was verified.

`RuntimeLifecycleProofs` proves every safety property of `RuntimeLifecycle`, from
`RequestAssumption`, for any number of requests and any set of large ones. The
invariant of `RuntimeInductive` adds to `TypeOK`: `Unlaunched`, what cannot have
happened before there is a worker; `Exited`, nothing waits for an exit that was
seen; `Drained`, what each passed barrier says of the streams and the verdict;
`Queued`, the writer's queue is the set of requests being sent, each once;
`StartKnown`, how far a failing start has come. `EndSafe` and `FailedStartSafe`
follow, and `RuntimeRefines` maps each step to one of the contract or a stutter.
`InFlightBounded` needs one more layer, `Registered`, over the concatenation
`Line` of pipe and queue: its operations are distinct and none of them was
answered, so an answer never unregisters a request still on its way; and a
request that was given up implies a kill.

*Only model-checked*: the liveness properties (`CloseFinishes`, `ExitFinishes`,
`OutputDelivered`, `InputDelivered`, `DisposeCompletes`, `EndIsHeard`,
`RequestsConclude`, `ShutdownConcludesIfRead`), because fairness and `ENABLED` are
beyond the proof system. The four properties that the code violates (§5) are
false and have counterexamples instead.
*Trusted*: that the actions are the code, which the map lets a reader verify.

## 5. Findings

1. `pty_facade_turn`. `packages/dart_pty_macos/README.md:46-49` promises at most
   one unacknowledged batch with a turn limit. Once the child has completed the
   reactor reads on every turn, paused or not; with a limit of two, the second
   batch's acknowledgement sits in `Timer.run` when the third is acknowledged
   at once, out of order. The native side refuses it and a child that exited
   normally is reported as a failure. As long as the child has not been
   collected, and with a low watermark of zero, the acknowledgements stay in
   order: `FailureIsNativeWhileChildLives`, which `pty_facade` checks and
   `FailureSafe` proves. With a positive low watermark reading resumes before the
   first acknowledgement has been made, and the same failure is possible while
   the child lives.
2. `pty_facade_failure`. `_didFail` ignores the answer of `sessionDestroy`, which
   refuses a session that retains output; a `kevent` failure while a batch waits
   in a timer leaves the finished session registered for good, against the
   comment at `native_backend.dart:1290`.
3. `update_backup`. `docs/phase11/signed-update-feed-rollback.md:175-176` says the
   older backup is pruned only after the next acknowledgement; `install` prunes it
   right after its first journal write.
4. `runtime_pipe`. `docs/phase1/vm-isolate-lifecycle-contract.md:114-116` gives the
   graceful shutdown an explicit deadline. `_performShutdown` awaits the write
   of its stop frame before it applies the deadline, and so does a request with
   its time-out; frames of up to 1 MiB are flushed one behind the other, so a
   worker that hangs with a frame larger than the pipe unread is never killed and
   neither future completes.

*Limits of the code that no property asserts.* They are behaviour the models
contain, found while writing the properties; most of them are hazards in
`PROJECT.json`.

* Between `pipe()` and `FD_CLOEXEC` (`PtySpawn.c:52-57`) another session may fork:
  its program keeps the write end, and this session's exec check times out after
  five seconds although its own program runs. `StartedIsTrue` is one-sided.
* The SIGHUP of a close, and a user's signal, go to `child_pid_` without a look at
  `child_completed_` (`PtySession.cc:1332`): while the last output of a reaped child
  awaits its acknowledgement they may meet a process that took its id over.
  `KillIsAimed` promises nothing of these two under the child's number, and of the
  SIGKILL behind a failed `kevent` only before the reap.
* `SendToProcessGroups` asks the terminal for its foreground group and signals it
  in separate calls (`PtySession.cc:1611-1615`). A job reaped in between may leave
  its id to someone else, whom the signal, a SIGKILL among them, then meets.
  `strays` names this case `"passed"`; `KillIsAimed` excludes every other.
* A `read()` that fails with an unexpected errno is taken for the end of file
  (`PtySession.cc:1402-1403`). The session then ends with a normal `EXIT` although
  output was lost. A process of the child's session that opens the terminal again
  behind a true end of file writes to no one in the same way. Both set
  `truncated`, and `ExitIsComplete`, `ExitDeliversAll` and `OutputDelivered`
  except it by name.
* The acknowledgement that `EXIT` waits for wakes the reactor only when reading is
  paused (`PtySession.cc:471-476`); otherwise the end of a drained session is
  noticed when `kevent` times out after 100 ms. `NoLostWake` does not cover it.
* A session whose thread could not be created is finished without a callback
  (`PtySession.cc:391-394`): a client that waits for `ERROR` instead of looking at
  the status of the call waits for good. The facade looks at the status.
* An empty first argument is skipped with the NULs behind the executable's path
  (`PtySession.cc:174`), and the last one read is then an environment string.
  `SnapshotExact` excludes it by name.
* The working-directory snapshot copies `child_pid_` under the lock and asks the
  kernel by it afterwards: between reap and `EXIT` it may describe another process.

## 6. Plan

What remains, in this order.

1. `RestorationLifecycle` (`terminal_restoration_lifecycle.dart:305-447`):
   suspend, reopen, persist and shutdown as processes that await each other;
   deadlock freedom and the order of the saved files.
2. `CloseAndQuit` (`terminal_pane_close_coordinator.dart`,
   `terminal_application_quit_coordinator.dart`): one reply per native request,
   confirmations that outlive their pane, failed shutdowns.
3. `FrameScheduler` with `MetalFailureRecovery`
   (`terminal_renderer/frame_scheduler.dart:574-1030`,
   `metal_failure_recovery.dart:150-235`), the native renderer's three slots as
   its environment; abstractly a register of which the newest value is shown.
4. `PasteTransport` (`terminal_session.dart:761-860`) over `PtyContract`.

Abstract specifications worth stating: a single-writer register for 1 and 3, a
one-shot reply per native request for 2.

## 7. Not modelled

Sequential data structures and pure tables (terminal core, input encoding,
compositor, codecs) whose correctness is data and is tested by corpora; the
Metal renderer and the other plug-ins, of which the repository's portable part is
headers that declare records and functions; the application's wiring; dialogs and
settings that hold one operation at a time. The close, quit, restoration and
frame coordinators are protocols worth modelling and are listed in §6.
`PROJECT.json` gives the reason for each component.

Within the modelled parts: statistics, diagnostics and the process and
working-directory snapshots of a session, each a read under its lock or of the
kernel that changes nothing; argument checks and record layouts of the C
interface; the facade's snapshots and keep-alive counting; what a bundle
verification inspects, archive policies and the journal's JSON; the frames' bytes
and observations of the worker protocol.
