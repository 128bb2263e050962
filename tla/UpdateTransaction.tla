-------------------------- MODULE UpdateTransaction --------------------------
(***************************************************************************)
(* The update transaction of lib/src/terminal_update_transaction.dart: the *)
(* three fixed application names of an install directory, the durable      *)
(* journal, and the calls of the coordinator, which crash or fail between  *)
(* any two storage operations.                                             *)
(*                                                                         *)
(* An application's identity is its build number; the journal's random     *)
(* transaction id is one to one with its strictly increasing feed sequence *)
(* and stands for it.  A coordinator call runs alone: the updater runs     *)
(* outside the application or after its exit.                              *)
(***************************************************************************)
EXTENDS Integers

CONSTANTS
    MaxBuild,     \* bound: newest build offered
    MaxSequence,  \* bound: highest feed sequence
    Absent,       \* no directory of that name
    Damaged,      \* a directory that verifies as no build
    NoJournal,    \* no journal file
    Faults,       \* whether storage operations may throw
    Unreliable    \* whether the verifier may time out on an intact bundle

ASSUME ContentAssumption ==
    /\ Absent \notin Nat /\ Damaged \notin Nat /\ Absent # Damaged
ASSUME UpdateBoundAssumption ==
    /\ MaxBuild \in Nat \ {0} /\ MaxSequence \in Nat
    /\ Faults \in BOOLEAN /\ Unreliable \in BOOLEAN

Build == 1..MaxBuild
Content == Build \cup {Absent, Damaged}
Active == {"prepared", "backupMoved", "candidateInstalled", "awaitingHealth"}
Phase == Active \cup {"committed", "rolledBack"}
Journal == {entry \in [phase : Phase, sequence : 1..MaxSequence,
                       previous : Build, candidate : Build] :
                entry.candidate > entry.previous}
ASSUME JournalAssumption == NoJournal \notin Journal

VARIABLES
    app,         \* DartTerminal.app
    backup,      \* .DartTerminal.last-good.app
    candidate,   \* .DartTerminal.candidate.app
    extracting,  \* .DartTerminal.extracting exists
    journal,     \* .dart-terminal-update-journal.json
    pc,          \* the storage operation the running call does next
    proven       \* history: the first build and the acknowledged ones

vars == <<app, backup, candidate, extracting, journal, pc, proven>>
contents == <<app, backup, candidate, extracting>>

\* The steps of install after its first journal write: failing, they recover.
Installing == {"drop_backup", "move_current", "journal_moved", "move_candidate",
               "journal_installed", "journal_health"}
Restoring == {"recover", "sweep", "restore", "clear_current", "move_backup",
              "clear_backup", "clear_candidate", "journal_restored"}
Label == {"idle", "extract", "unstage"} \cup Installing \cup Restoring

Init ==
    /\ app = 1 /\ backup = Absent /\ candidate = Absent
    /\ extracting = FALSE /\ journal = NoJournal /\ pc = "idle"
    /\ proven = {1}

Goto(from, to) == pc = from /\ pc' = to

\* What isVerifiedApplication() may answer; a verifier command that times out
\* answers like a bundle that differs.
Verdicts(content, build) ==
    {content = build} \cup (IF Unreliable THEN {FALSE} ELSE {})

-----------------------------------------------------------------------------
(* Preparing a candidate: it is extracted aside, verified and moved.        *)

Prepare ==
    /\ Goto("idle", "extract")
    /\ candidate = Absent /\ ~extracting
    /\ extracting' = TRUE
    /\ UNCHANGED <<app, backup, candidate, journal, proven>>

StageCandidate ==
    /\ Goto("extract", "unstage")
    /\ candidate' \in Build
    /\ UNCHANGED <<app, backup, extracting, journal, proven>>

DropExtraction ==
    /\ Goto("unstage", "idle")
    /\ extracting' = FALSE
    /\ UNCHANGED <<app, backup, candidate, journal, proven>>

-----------------------------------------------------------------------------
(* install().                                                               *)

BeginsOverActive(sequence) ==
    journal # NoJournal => sequence > journal.sequence
ReplaysSequence(sequence) ==
    journal # NoJournal => /\ journal.phase \notin Active
                           /\ sequence >= journal.sequence

MayBegin(sequence) ==
    journal # NoJournal => /\ journal.phase \notin Active
                           /\ sequence > journal.sequence

NotOlder(build, current) == build >= current
Newer(build, current) == build > current


\* Its checks change nothing, so they are one step with the first write.
Install(sequence) ==
    /\ Goto("idle", "drop_backup")
    /\ MayBegin(sequence)
    /\ app \in Build /\ candidate \in Build /\ Newer(candidate, app)
    /\ journal' = [phase |-> "prepared", sequence |-> sequence,
                   previous |-> app, candidate |-> candidate]
    /\ UNCHANGED <<contents, proven>>

DropBackup ==
    /\ Goto("drop_backup", "move_current")
    /\ backup' = Absent
    /\ UNCHANGED <<app, candidate, extracting, journal, proven>>

MoveCurrent ==
    /\ Goto("move_current", "journal_moved")
    /\ app' = Absent /\ backup' = app
    /\ UNCHANGED <<candidate, extracting, journal, proven>>

MoveCandidate ==
    /\ Goto("move_candidate", "journal_installed")
    /\ app' = candidate /\ candidate' = Absent
    /\ UNCHANGED <<backup, extracting, journal, proven>>

Write(from, phase, to) ==
    /\ Goto(from, to)
    /\ journal' = [journal EXCEPT !.phase = phase]
    /\ UNCHANGED <<contents, proven>>

JournalMoved == Write("journal_moved", "backupMoved", "move_candidate")
JournalInstalled ==
    Write("journal_installed", "candidateInstalled", "journal_health")
JournalHealth == Write("journal_health", "awaitingHealth", "idle")

-----------------------------------------------------------------------------
(* acknowledgeHealth(), rollback() and recover().                           *)

AcknowledgeHealth(token) ==
    /\ journal # NoJournal
    /\ journal.phase = "awaitingHealth" /\ journal.sequence = token
    /\ app = journal.candidate
    /\ Goto("idle", "idle")
    /\ journal' = [journal EXCEPT !.phase = "committed"]
    /\ proven' = proven \cup {journal.candidate}
    /\ UNCHANGED contents

Rollback(token) ==
    /\ Goto("idle", "restore")
    /\ journal # NoJournal /\ journal.sequence = token
    /\ journal.phase \in {"awaitingHealth", "committed"}
    /\ UNCHANGED <<contents, journal, proven>>

Recover ==
    /\ Goto("idle", "recover")
    /\ journal # NoJournal
    /\ UNCHANGED <<contents, journal, proven>>

\* An ended transaction whose outcome is in place only sweeps the candidate.
Examine ==
    /\ pc = "recover"
    /\ \E intact \in Verdicts(app, IF journal.phase = "committed"
                                   THEN journal.candidate ELSE journal.previous) :
         pc' = IF journal.phase \notin Active /\ intact THEN "sweep" ELSE "restore"
    /\ UNCHANGED <<contents, journal, proven>>

Sweep ==
    /\ Goto("sweep", "idle")
    /\ candidate' = Absent
    /\ UNCHANGED <<app, backup, extracting, journal, proven>>

RestoresUnverified(backup_verified) == TRUE
RestoresFrom(backup_verified) == backup_verified

\* _restore(): without a verified backup or current application it throws.
Restore ==
    /\ pc = "restore"
    /\ \E backup_verified \in Verdicts(backup, journal.previous),
          current_is_previous \in Verdicts(app, journal.previous) :
         pc' = IF current_is_previous THEN "clear_backup"
               ELSE IF RestoresFrom(backup_verified) THEN "clear_current"
               ELSE "idle"
    /\ UNCHANGED <<contents, journal, proven>>

ClearCurrent ==
    /\ Goto("clear_current", "move_backup")
    /\ app' = Absent
    /\ UNCHANGED <<backup, candidate, extracting, journal, proven>>

MoveBackup ==
    /\ Goto("move_backup", "clear_candidate")
    /\ app' = backup /\ backup' = Absent
    /\ UNCHANGED <<candidate, extracting, journal, proven>>

ClearBackup ==
    /\ Goto("clear_backup", "clear_candidate")
    /\ backup' = Absent
    /\ UNCHANGED <<app, candidate, extracting, journal, proven>>

KeepsCandidate ==
    /\ Goto("clear_candidate", "journal_restored")
    /\ UNCHANGED <<contents, journal, proven>>

ClearCandidate ==
    /\ Goto("clear_candidate", "journal_restored")
    /\ candidate' = Absent
    /\ UNCHANGED <<app, backup, extracting, journal, proven>>

JournalRestored == Write("journal_restored", "rolledBack", "idle")

-----------------------------------------------------------------------------
(* Failures.                                                                *)

\* A recursive remove that is cut short leaves a directory that verifies as
\* nothing; every other operation happens or does not.
PartialRemove ==
    \/ UNCHANGED <<app, backup, candidate>>
    \/ /\ pc = "clear_current" /\ app # Absent /\ app' = Damaged
       /\ UNCHANGED <<backup, candidate>>
    \/ /\ pc \in {"drop_backup", "clear_backup"} /\ backup # Absent
       /\ backup' = Damaged
       /\ UNCHANGED <<app, candidate>>
    \/ /\ pc \in {"sweep", "clear_candidate"} /\ candidate # Absent
       /\ candidate' = Damaged
       /\ UNCHANGED <<app, backup>>

\* A storage operation throws, or prepare() refuses what it extracted.
\* install() then recovers, swallowing what recovery throws, prepare() deletes
\* its extraction, and the other calls end.
StorageFails ==
    /\ Faults /\ pc # "idle"
    /\ PartialRemove
    /\ pc' = CASE pc \in Installing -> "recover"
               [] pc = "extract" -> "unstage"
               [] OTHER -> "idle"
    /\ UNCHANGED <<extracting, journal, proven>>

Crash ==
    /\ pc # "idle"
    /\ PartialRemove
    /\ pc' = "idle"
    /\ UNCHANGED <<extracting, journal, proven>>

-----------------------------------------------------------------------------
Next ==
    \/ Prepare \/ StageCandidate \/ DropExtraction
    \/ \E sequence \in 1..MaxSequence : Install(sequence)
    \/ DropBackup \/ MoveCurrent \/ JournalMoved \/ MoveCandidate
    \/ JournalInstalled \/ JournalHealth
    \/ \E token \in 1..MaxSequence : AcknowledgeHealth(token) \/ Rollback(token)
    \/ Recover \/ Examine \/ Sweep \/ Restore \/ ClearCurrent \/ MoveBackup
    \/ ClearBackup \/ ClearCandidate \/ JournalRestored
    \/ StorageFails \/ Crash

Spec == Init /\ [][Next]_vars

-----------------------------------------------------------------------------
(* Properties.                                                              *)

\* The journal, where there is one, names a newer candidate than the previous
\* build, and only a journalled transaction is installed or restored.
TypeOK ==
    /\ app \in Content /\ backup \in Content /\ candidate \in Content
    /\ extracting \in BOOLEAN /\ pc \in Label /\ proven \subseteq Build
    /\ journal \in Journal \cup {NoJournal}
    /\ pc \in Installing \cup Restoring => journal # NoJournal

\* At every instant, so behind every crash and failure, an intact copy of the
\* application the transaction would restore is there to be restored, unless
\* the acknowledged candidate is in place.
LastGoodKept ==
    IF journal = NoJournal THEN app = 1
    ELSE \/ journal.previous \in {app, backup}
         \/ journal.phase = "committed" /\ app = journal.candidate

\* What a transaction would restore is an application that was proven: the
\* first one, or one whose health was acknowledged.
PreviousIsProven == journal # NoJournal => journal.previous \in proven

\* A feed sequence is installed once: sequences only grow, and the transaction
\* of one that has ended is never taken up again.
StaysEnded == journal.phase \notin Active => journal'.phase \notin Active
MovesOn ==
    \/ journal'.sequence > journal.sequence
    \/ journal'.sequence = journal.sequence /\ StaysEnded
SequenceOnce == [][journal # NoJournal => MovesOn]_vars

\* "exactly one current app plus at most one bounded last-good backup"
Resolved ==
    /\ candidate = Absent
    /\ \/ /\ journal.phase = "committed" /\ app = journal.candidate
          /\ backup \in {journal.previous, Absent, Damaged}
       \/ journal.phase = "rolledBack" /\ app = journal.previous /\ backup = Absent

\* A recovery that returns has resolved the transaction, whatever crashes and
\* failed recoveries came before it.
RecoveryResolves == [][Sweep \/ JournalRestored => Resolved']_vars

\* The backup an earlier update left is pruned only once the next update has
\* been acknowledged.
PrunesOlder ==
    journal # NoJournal /\ backup \in Build \ {journal.previous} /\ backup' # backup
OlderBackupKept == [][PrunesOlder => (journal.phase = "committed")]_vars
=============================================================================
