----------------------- MODULE UpdateTransactionProofs -----------------------
(***************************************************************************)
(* The update transaction keeps a last good application, restores only     *)
(* proven ones and ends once, for any number of builds and sequences.      *)
(*                                                                         *)
(* The inductive invariant says what is where: Places relates the          *)
(* directories to the journal whatever the coordinator is doing, Progress  *)
(* adds what the running call has established before its next operation.   *)
(***************************************************************************)
EXTENDS UpdateTransaction, TLAPS

Gone == {Absent, Damaged}

\* With no journal nothing was ever installed.  With one, only its two builds
\* can be the application, and a rolled back transaction left nothing behind.
Places ==
    IF journal = NoJournal THEN app = 1 /\ 1 \in proven
    ELSE /\ app \in {journal.previous, journal.candidate} \cup Gone
         /\ journal.previous \in proven
         /\ journal.phase # "prepared" => backup \in {journal.previous} \cup Gone
         /\ journal.phase = "committed" => journal.candidate \in proven
         /\ journal.phase = "rolledBack" =>
                app = journal.previous /\ backup = Absent

\* What an installation has done so far.
Installs ==
    /\ pc \in Installing => journal.phase \in Active
    /\ pc \in {"drop_backup", "move_current"} => app = journal.previous
    /\ pc = "move_current" => backup = Absent
    /\ pc \in Installing \ {"drop_backup", "move_current"} =>
           backup = journal.previous
    /\ pc \in {"drop_backup", "move_current", "journal_moved",
               "move_candidate"} => candidate = journal.candidate

\* What a recovery has established so far.
Restores ==
    /\ pc = "sweep" =>
           \/ journal.phase = "committed" /\ app = journal.candidate
           \/ journal.phase = "rolledBack" /\ app = journal.previous
    /\ pc \in {"clear_current", "move_backup"} => backup = journal.previous
    /\ pc \in {"clear_backup", "clear_candidate", "journal_restored"} =>
           app = journal.previous
    /\ pc \in {"clear_candidate", "journal_restored"} => backup = Absent
    /\ pc = "journal_restored" => candidate = Absent

Inv == TypeOK /\ LastGoodKept /\ Places /\ Installs /\ Restores

-----------------------------------------------------------------------------
(* Facts about the journal.                                                 *)

\* Builds are never mistaken for a missing or a damaged directory.
LEMMA BuildIsPresent == Build \cap Gone = {} /\ 1 \in Build
BY ContentAssumption, UpdateBoundAssumption DEF Build, Gone

\* A journal entry's fields, and what writing another phase makes of them.
LEMMA JournalFields ==
    ASSUME NEW entry \in Journal
    PROVE  /\ entry \in [phase : Phase, sequence : 1..MaxSequence,
                         previous : Build, candidate : Build]
           /\ entry # NoJournal
           /\ entry.candidate > entry.previous
           /\ \A phase \in Phase : [entry EXCEPT !.phase = phase] \in Journal
BY JournalAssumption DEF Journal

\* A write of the journal keeps all but the phase.
LEMMA WriteKeeps ==
    ASSUME TypeOK, journal # NoJournal, NEW phase \in Phase,
           journal' = [journal EXCEPT !.phase = phase]
    PROVE  /\ journal' \in Journal /\ journal' # NoJournal
           /\ journal'.phase = phase
           /\ journal'.sequence = journal.sequence
           /\ journal'.previous = journal.previous
           /\ journal'.candidate = journal.candidate
BY JournalFields DEF TypeOK

-----------------------------------------------------------------------------
(* The invariant is inductive.                                              *)

LEMMA InitInv == Init => Inv
BY BuildIsPresent
   DEF Init, Inv, TypeOK, LastGoodKept, Places, Installs, Restores, Label,
       Content, Installing, Restoring, Gone

\* A candidate being prepared is no part of any transaction.
LEMMA PreparingInv ==
    ASSUME Inv, Prepare \/ StageCandidate \/ DropExtraction
    PROVE  Inv'
BY DEF Prepare, StageCandidate, DropExtraction, Goto, Inv, TypeOK,
       LastGoodKept, Places, Installs, Restores, Label, Content, Installing,
       Restoring

\* A transaction begins with the installed application as its previous one,
\* which the transaction before it left proven.
LEMMA InstallInv ==
    ASSUME Inv, NEW sequence \in 1..MaxSequence, Install(sequence)
    PROVE  Inv'
<1>1. app \in Build /\ candidate \in Build /\ candidate > app
  BY DEF Install, Newer
<1>2. /\ journal' \in Journal /\ journal' # NoJournal
      /\ journal'.phase = "prepared"
      /\ journal'.previous = app /\ journal'.candidate = candidate
  <2>1. journal' = [phase |-> "prepared", sequence |-> sequence,
                    previous |-> app, candidate |-> candidate]
    BY DEF Install
  <2>2. journal' \in Journal
    BY <1>1, <2>1 DEF Journal, Phase, Active
  <2>. QED BY <2>1, <2>2, JournalAssumption
<1>3. pc' = "drop_backup"
      /\ UNCHANGED <<app, backup, candidate, extracting, proven>>
  BY DEF Install, Goto, contents
<1>4. app \in proven
  <2>1. CASE journal = NoJournal
    BY <2>1 DEF Inv, Places
  <2>2. CASE journal # NoJournal
    <3>1. journal.phase \in {"committed", "rolledBack"}
      BY <2>2, JournalFields DEF Install, MayBegin, Inv, TypeOK, Phase
    <3>. QED BY <1>1, <2>2, <3>1, BuildIsPresent DEF Inv, Places, Gone
  <2>. QED BY <2>1, <2>2
<1>. QED
  BY <1>1, <1>2, <1>3, <1>4
     DEF Inv, TypeOK, LastGoodKept, Places, Installs, Restores, Label, Content,
         Installing, Restoring, Active

\* The moves of an installation keep the previous application in one of the
\* two places, and put the journalled candidate in its own.
LEMMA InstallingInv ==
    ASSUME Inv, DropBackup \/ MoveCurrent \/ MoveCandidate
    PROVE  Inv'
<1>0. journal \in Journal /\ journal # NoJournal
  BY DEF DropBackup, MoveCurrent, MoveCandidate, Goto, Inv, TypeOK, Installing
<1>1. journal.phase # "rolledBack" /\ journal.phase # "committed"
  BY DEF DropBackup, MoveCurrent, MoveCandidate, Goto, Inv, Installs,
         Installing, Active
<1>2. journal.previous \in Build /\ journal.candidate \in Build
  BY <1>0, JournalFields
<1>3. CASE DropBackup
  BY <1>0, <1>1, <1>2, <1>3
     DEF DropBackup, Goto, Inv, TypeOK, LastGoodKept, Places, Installs,
         Restores, Label, Content, Installing, Restoring, Gone
<1>4. CASE MoveCurrent
  BY <1>0, <1>1, <1>2, <1>4
     DEF MoveCurrent, Goto, Inv, TypeOK, LastGoodKept, Places, Installs,
         Restores, Label, Content, Installing, Restoring, Gone
<1>5. CASE MoveCandidate
  BY <1>0, <1>1, <1>2, <1>5
     DEF MoveCandidate, Goto, Inv, TypeOK, LastGoodKept, Places, Installs,
         Restores, Label, Content, Installing, Restoring, Gone
<1>. QED BY <1>3, <1>4, <1>5

\* An installation's journal writes come after the current application became
\* the backup.
LEMMA JournallingInv ==
    ASSUME Inv, JournalMoved \/ JournalInstalled \/ JournalHealth
    PROVE  Inv'
<1>1. PICK phase \in Active \ {"prepared"} :
          journal' = [journal EXCEPT !.phase = phase]
  BY DEF JournalMoved, JournalInstalled, JournalHealth, Write, Active
<1>2. /\ journal # NoJournal
      /\ backup = journal.previous
      /\ UNCHANGED <<app, backup, candidate, extracting, proven>>
      /\ \/ pc = "journal_moved" /\ pc' = "move_candidate"
         \/ pc = "journal_installed" /\ pc' = "journal_health"
         \/ pc = "journal_health" /\ pc' = "idle"
  BY DEF JournalMoved, JournalInstalled, JournalHealth, Write, Goto, contents,
         Inv, TypeOK, Installs, Installing
<1>3. /\ journal' \in Journal /\ journal' # NoJournal
      /\ journal'.phase = phase
      /\ journal'.previous = journal.previous
      /\ journal'.candidate = journal.candidate
  <2>1. phase \in Phase
    BY <1>1 DEF Phase
  <2>. QED BY <1>1, <1>2, <2>1, WriteKeeps DEF Inv
<1>. QED
  BY <1>1, <1>2, <1>3
     DEF Inv, TypeOK, LastGoodKept, Places, Installs, Restores, Label,
         Installing, Restoring, Active

\* A health acknowledgement makes the candidate that is in place a proven one.
LEMMA AcknowledgeInv ==
    ASSUME Inv, NEW token \in 1..MaxSequence, AcknowledgeHealth(token)
    PROVE  Inv'
<1>1. /\ journal # NoJournal /\ journal.phase = "awaitingHealth"
      /\ app = journal.candidate
      /\ proven' = proven \cup {journal.candidate}
      /\ pc = "idle" /\ pc' = "idle"
      /\ UNCHANGED <<app, backup, candidate, extracting>>
  BY DEF AcknowledgeHealth, Goto, contents
<1>2. /\ journal' \in Journal /\ journal' # NoJournal
      /\ journal'.phase = "committed"
      /\ journal'.previous = journal.previous
      /\ journal'.candidate = journal.candidate
  BY <1>1, WriteKeeps DEF AcknowledgeHealth, Inv, Phase
<1>3. journal.candidate \in Build
  BY <1>1, JournalFields DEF Inv, TypeOK
<1>. QED
  BY <1>1, <1>2, <1>3
     DEF Inv, TypeOK, LastGoodKept, Places, Installs, Restores, Label,
         Installing, Restoring, Active

\* What the calls that only look establish: a positive verdict is true.
LEMMA ExaminingInv ==
    ASSUME Inv, (\E token \in 1..MaxSequence : Rollback(token)) \/ Recover
                \/ Examine \/ Restore
    PROVE  Inv'
<1>1. /\ journal # NoJournal
      /\ UNCHANGED <<app, backup, candidate, extracting, journal, proven>>
  BY DEF Rollback, Recover, Examine, Restore, contents, Inv, TypeOK, Restoring
<1>2. \A content, build : TRUE \in Verdicts(content, build) => content = build
  BY DEF Verdicts
<1>3. CASE (\E token \in 1..MaxSequence : Rollback(token)) \/ Recover
  BY <1>1, <1>3
     DEF Rollback, Recover, Goto, Inv, TypeOK, LastGoodKept, Places, Installs,
         Restores, Label, Installing, Restoring
<1>4. CASE Examine
  <2>1. /\ pc' \in {"sweep", "restore"}
        /\ pc' = "sweep" =>
             /\ journal.phase \notin Active
             /\ app = IF journal.phase = "committed" THEN journal.candidate
                                                     ELSE journal.previous
    BY <1>2, <1>4 DEF Examine, Verdicts
  <2>2. journal.phase \in Phase
    BY <1>1, JournalFields DEF Inv, TypeOK
  <2>. QED
    BY <1>1, <2>1, <2>2
       DEF Inv, TypeOK, LastGoodKept, Places, Installs, Restores, Label,
           Installing, Restoring, Phase, Active
<1>5. CASE Restore
  <2>1. /\ pc' \in {"clear_backup", "clear_current", "idle"}
        /\ pc' = "clear_backup" => app = journal.previous
        /\ pc' = "clear_current" => backup = journal.previous
    BY <1>2, <1>5 DEF Restore, RestoresFrom, Verdicts
  <2>. QED
    BY <1>1, <2>1
       DEF Inv, TypeOK, LastGoodKept, Places, Installs, Restores, Label,
           Installing, Restoring
<1>. QED BY <1>3, <1>4, <1>5

\* A restoration clears the current application only where the backup is the
\* previous one, and moves that in its place.
LEMMA RestoringInv ==
    ASSUME Inv, Sweep \/ ClearCurrent \/ MoveBackup \/ ClearBackup
                \/ ClearCandidate
    PROVE  Inv'
<1>0. journal \in Journal /\ journal # NoJournal
  BY DEF Sweep, ClearCurrent, MoveBackup, ClearBackup, ClearCandidate, Goto,
         Inv, TypeOK, Restoring
<1>1. journal.previous \in Build /\ journal.previous \notin Gone
  BY <1>0, JournalFields, BuildIsPresent
<1>2. CASE Sweep \/ ClearCandidate
  BY <1>0, <1>2
     DEF Sweep, ClearCandidate, Goto, Inv, TypeOK, LastGoodKept, Places,
         Installs, Restores, Label, Content, Installing, Restoring
<1>3. CASE ClearCurrent
  BY <1>0, <1>1, <1>3
     DEF ClearCurrent, Goto, Inv, TypeOK, LastGoodKept, Places, Installs,
         Restores, Label, Content, Installing, Restoring, Gone
<1>4. CASE MoveBackup
  BY <1>0, <1>1, <1>4
     DEF MoveBackup, Goto, Inv, TypeOK, LastGoodKept, Places, Installs,
         Restores, Label, Content, Installing, Restoring, Gone
<1>5. CASE ClearBackup
  BY <1>0, <1>1, <1>5
     DEF ClearBackup, Goto, Inv, TypeOK, LastGoodKept, Places, Installs,
         Restores, Label, Content, Installing, Restoring, Gone
<1>. QED BY <1>2, <1>3, <1>4, <1>5

LEMMA JournalRestoredInv ==
    ASSUME Inv, JournalRestored
    PROVE  Inv'
<1>1. /\ journal # NoJournal
      /\ journal' = [journal EXCEPT !.phase = "rolledBack"]
      /\ app = journal.previous /\ backup = Absent
      /\ pc' = "idle" /\ UNCHANGED <<app, backup, candidate, extracting, proven>>
  BY DEF JournalRestored, Write, Goto, contents, Inv, TypeOK, Restores,
         Restoring
<1>2. /\ journal' \in Journal /\ journal' # NoJournal
      /\ journal'.phase = "rolledBack"
      /\ journal'.previous = journal.previous
      /\ journal'.candidate = journal.candidate
  BY <1>1, WriteKeeps DEF Inv, Phase
<1>. QED
  BY <1>1, <1>2
     DEF Inv, TypeOK, LastGoodKept, Places, Installs, Restores, Label,
         Installing, Restoring, Gone

\* A crash or a failure between two operations, or in the middle of a removal,
\* damages only a directory that can be lost.
LEMMA FailureInv ==
    ASSUME Inv, StorageFails \/ Crash
    PROVE  Inv'
<1>1. /\ pc # "idle" /\ pc' \in {"idle", "unstage", "recover"}
      /\ pc' = "recover" => pc \in Installing
      /\ PartialRemove /\ UNCHANGED <<journal, proven>>
      /\ extracting' \in BOOLEAN
  BY DEF StorageFails, Crash, Inv, TypeOK
<1>2. CASE UNCHANGED <<app, backup, candidate>>
  BY <1>1, <1>2
     DEF Inv, TypeOK, LastGoodKept, Places, Installs, Restores, Label,
         Installing, Restoring
<1>3. CASE ~UNCHANGED <<app, backup, candidate>>
  <2>0. pc \in Installing \cup Restoring
    BY <1>1, <1>3 DEF PartialRemove, Installing, Restoring
  <2>1. journal \in Journal /\ journal # NoJournal
    BY <2>0 DEF Inv, TypeOK
  <2>2. journal.previous \in Build /\ journal.previous \notin Gone
    BY <2>1, JournalFields, BuildIsPresent
  <2>3. CASE pc = "clear_current" /\ app # Absent /\ app' = Damaged
             /\ UNCHANGED <<backup, candidate>>
    BY <1>1, <2>1, <2>2, <2>3
       DEF Inv, TypeOK, LastGoodKept, Places, Installs, Restores, Label,
           Content, Installing, Restoring, Gone
  <2>4. CASE pc \in {"drop_backup", "clear_backup"} /\ backup # Absent
             /\ backup' = Damaged /\ UNCHANGED <<app, candidate>>
    BY <1>1, <2>1, <2>2, <2>4
       DEF Inv, TypeOK, LastGoodKept, Places, Installs, Restores, Label,
           Content, Installing, Restoring, Active, Gone
  <2>5. CASE pc \in {"sweep", "clear_candidate"} /\ candidate # Absent
             /\ candidate' = Damaged /\ UNCHANGED <<app, backup>>
    BY <1>1, <2>1, <2>5
       DEF Inv, TypeOK, LastGoodKept, Places, Installs, Restores, Label,
           Content, Installing, Restoring
  <2>. QED BY <1>1, <1>3, <2>3, <2>4, <2>5 DEF PartialRemove
<1>. QED BY <1>2, <1>3

LEMMA NextInv == Inv /\ [Next]_vars => Inv'
<1>. SUFFICES ASSUME Inv, [Next]_vars
              PROVE  Inv'
  OBVIOUS
<1>1. CASE UNCHANGED vars
  BY <1>1 DEF vars, Inv, TypeOK, LastGoodKept, Places, Installs, Restores
<1>2. CASE Next
  BY <1>2, PreparingInv, InstallInv, InstallingInv, JournallingInv,
     AcknowledgeInv, ExaminingInv, RestoringInv, JournalRestoredInv, FailureInv
     DEF Next
<1>. QED BY <1>1, <1>2

\* The invariant holds whatever crashes, failures and calls follow each other.
THEOREM UpdateInductive == Spec => []Inv
BY InitInv, NextInv, PTL DEF Spec

-----------------------------------------------------------------------------
(* What it gives.                                                           *)

\* The states the coordinator and its directories reach are well typed.
THEOREM UpdateTypeCorrect == Spec => []TypeOK
BY UpdateInductive, PTL DEF Inv

\* The application a transaction would restore is intact in one of its two
\* places at every instant, unless the acknowledged candidate is installed.
THEOREM LastGoodSafe == Spec => []LastGoodKept
BY UpdateInductive, PTL DEF Inv

\* A transaction only ever restores the first application or an acknowledged
\* one.
THEOREM PreviousSafe == Spec => []PreviousIsProven
<1>1. Inv => PreviousIsProven
  BY DEF Inv, Places, PreviousIsProven
<1>. QED BY <1>1, UpdateInductive, PTL

\* A recovery or rollback that returns leaves exactly the outcome its journal
\* names, and no candidate.
THEOREM RecoverySafe == Spec => RecoveryResolves
<1>1. Inv /\ [Next]_vars => [Sweep \/ JournalRestored => Resolved']_vars
  <2>. SUFFICES ASSUME Inv, Sweep \/ JournalRestored
                PROVE  Resolved'
    OBVIOUS
  <2>0. journal # NoJournal
    BY DEF Inv, TypeOK, Sweep, JournalRestored, Write, Goto, Restoring
  <2>1. CASE Sweep
    BY <2>0, <2>1
       DEF Sweep, Goto, Inv, Places, Restores, Resolved, Gone
  <2>2. CASE JournalRestored
    <3>1. /\ journal'.phase = "rolledBack"
          /\ journal'.previous = journal.previous
      BY <2>0, <2>2, WriteKeeps DEF JournalRestored, Write, Inv, Phase
    <3>. QED
      BY <2>0, <2>2, <3>1
         DEF JournalRestored, Write, Goto, contents, Inv, Restores, Resolved
  <2>. QED BY <2>1, <2>2
<1>. QED BY <1>1, UpdateInductive, PTL DEF Spec, RecoveryResolves

-----------------------------------------------------------------------------
(* Sequences.                                                               *)

\* A feed sequence is installed once, and an ended transaction stays ended.
THEOREM SequenceSafe == Spec => SequenceOnce
<1>1. Inv /\ [Next]_vars => [journal # NoJournal => MovesOn]_vars
  <2>. SUFFICES ASSUME Inv, Next, journal # NoJournal
                PROVE  MovesOn
    BY DEF vars
  <2>0. TypeOK
    BY DEF Inv
  <2>1. CASE \E sequence \in 1..MaxSequence : Install(sequence)
    BY <2>1 DEF Install, MayBegin, MovesOn
  <2>2. CASE \E phase \in Phase :
               /\ journal' = [journal EXCEPT !.phase = phase]
               /\ journal.phase \in Active \/ phase \notin Active
    BY <2>0, <2>2, WriteKeeps DEF MovesOn, StaysEnded
  <2>3. CASE JournalMoved \/ JournalInstalled \/ JournalHealth
             \/ (\E token \in 1..MaxSequence : AcknowledgeHealth(token))
             \/ JournalRestored
    <3>1. JournalMoved \/ JournalInstalled \/ JournalHealth =>
              journal.phase \in Active
      BY DEF JournalMoved, JournalInstalled, JournalHealth, Write, Goto, Inv,
             Installs, Installing
    <3>. QED
      BY <2>2, <2>3, <3>1
         DEF JournalMoved, JournalInstalled, JournalHealth, AcknowledgeHealth,
             JournalRestored, Write, Active, Phase
  <2>4. CASE UNCHANGED journal
    BY <2>4 DEF MovesOn, StaysEnded
  <2>. QED
    BY <2>1, <2>3, <2>4
       DEF Next, Prepare, StageCandidate, DropExtraction, DropBackup,
           MoveCurrent, MoveCandidate, Rollback, Recover, Examine, Sweep,
           Restore, ClearCurrent, MoveBackup, ClearBackup, ClearCandidate,
           StorageFails, Crash
<1>. QED BY <1>1, UpdateInductive, PTL DEF Spec, SequenceOnce
==============================================================================
