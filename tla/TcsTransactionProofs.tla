------------------------ MODULE TcsTransactionProofs ------------------------
(***************************************************************************)
(* The safety of the launcher's session override for every number of       *)
(* launchers, games, edits and faults.  The argument has two halves.  The  *)
(* lock file decides who may touch the journal, whatever crashes, and so   *)
(* which journal a launcher meets at each of its labels (Ownership).       *)
(* Given that, the target only differs from the journal's two contents by  *)
(* edits made since, whoever makes them and when; and every content that   *)
(* an override or a restore is about to write has the edits that the       *)
(* launcher has read and undoes what a launcher did to the setting (Undo). *)
(***************************************************************************)
EXTENDS TcsTransaction, TLAPS

\* The labels between the opening and the closing of the lock file.
Locked ==
    {"recover locked", "recovered", "resolve", "read", "backup", "journal", "override",
     "session", "playing", "restore", "dispose", "restored", "disposed", "rolled back",
     "restore read", "restore write", "restore delete", "restore clean"}

\* Labels at which a launcher has found or made sure that there is no journal,
\* at which the journal is its own, and at which it restores one.
WithoutJournal ==
    {"recovered", "read", "backup", "journal", "restored", "disposed", "rolled back",
     "restore clean"}
WithOwnJournal == {"override", "session", "playing", "restore", "dispose"}
Restoring      == {"restore read", "restore write", "restore delete"}

\* Where a restore may go on, and the ones of them that restore an own journal.
OwnReturns    == {"restored", "disposed", "rolled back"}
RestoreReturns == OwnReturns \cup {"recovered", "read"}

LockIsHeld == \A p \in Launchers : pc[p] \in Locked <=> lock = p

JournalFits(p) ==
    /\ pc[p] \in WithoutJournal => journal = None
    /\ pc[p] \in WithOwnJournal => journal # None /\ journal.owner = p
    /\ pc[p] \in Restoring => journal # None
    /\ pc[p] \in Restoring /\ after[p] \in OwnReturns => journal.owner = p
    /\ pc[p] \in Restoring \cup {"restore clean"} => after[p] \in RestoreReturns

JournalAtLabel == \A p \in Launchers : JournalFits(p)

Ownership == TypeOK /\ LockIsHeld /\ JournalAtLabel

\* The content that a restore goes back to has not been lost.
JournalIsBacked ==
    journal # None =>
        /\ backup[journal.owner] = journal.original
        /\ journal.overridden = Override(journal.original)

\* A setting that a launcher left in the target is one that its journal undoes.
StandingIsJournaled ==
    standing =>
        /\ journal # None /\ journal.original.setting # "session"
        /\ target.setting = "session"

\* A content has all edits of another one, and is the same unless it has more.
Follows(content, earlier) ==
    /\ content.edits >= earlier.edits
    /\ content.edits = earlier.edits => content = earlier

\* The target is one of the journal's contents, or has been edited since.
TargetFollowsJournal ==
    journal # None =>
        Follows(target, journal.original) \/ Follows(target, journal.overridden)

\* A content with the edits that the launcher has read, which takes the session's
\* setting back unless the file had it before.
Restores(content) ==
    /\ content.edits = known /\ Follows(content, journal.original)
    /\ content.setting = "session" => journal.original.setting = "session"

ContentFits(p) ==
    /\ pc[p] \in {"backup", "journal", "override"} =>
          original[p].edits = known /\ Follows(target, original[p])
    /\ pc[p] = "journal" => backup[p] = original[p]
    /\ pc[p] = "override" => journal = NewJournal(p)
    /\ pc[p] = "restore write" => Restores(restored[p])
    /\ pc[p] = "restore delete" => ~standing /\ Follows(target, journal.original)

ContentAtLabel == \A p \in Launchers : ContentFits(p)

Undo ==
    /\ Ownership
    /\ JournalIsBacked /\ StandingIsJournaled /\ TargetFollowsJournal
    /\ ContentAtLabel /\ EditsSurvive

-----------------------------------------------------------------------------
(* Types *)

\* What a restore writes is a content, and so is an override.
LEMMA ContentTypes ==
  ASSUME TypeOK
  PROVE  /\ Authored \in Contents
         /\ \A content \in Contents : Override(content) \in Contents
         /\ \A p \in Launchers : NewJournal(p) \in Journals
         /\ \A p \in Launchers : journal # None => RestoredContent(p) \in Contents
  BY BoundsAssumption
     DEF TypeOK, Authored, Contents, Settings, Override, NewJournal, Journals, RestoredContent

\* A count below its bound may go up by one.
LEMMA NextCount ==
  \A bound \in Nat : \A n \in 0 .. bound : n < bound => n + 1 \in 0 .. bound
  OBVIOUS

\* A fault is counted up to its bound.
LEMMA FaultType ==
  ASSUME TypeOK, Fault \/ UNCHANGED faults
  PROVE  faults' \in 0 .. MaxFaults
  BY BoundsAssumption DEF TypeOK, Fault

\* The steps of a recovery keep the types.
LEMMA RecoverType == ASSUME TypeOK, NEW p \in Launchers, Recover(p) PROVE TypeOK'
<1> USE DEF TypeOK, Labels, Goto, Refuse, files, locals, history
<1>1. CASE RecoverRead(p)
  BY <1>1 DEF RecoverRead, Journals
<1>2. CASE RecoverLock(p)
  BY <1>2 DEF RecoverLock
<1>3. CASE RecoverLocked(p)
  BY <1>3 DEF RecoverLocked
<1>4. CASE Recovered(p)
  BY <1>4 DEF Recovered
<1>5. QED
  BY <1>1, <1>2, <1>3, <1>4 DEF Recover

\* The steps of Begin keep the types.
LEMMA BeginType == ASSUME TypeOK, NEW p \in Launchers, Begin(p) PROVE TypeOK'
<1> USE DEF TypeOK, Labels, Goto, Refuse, files, locals, history
<1>1. CASE BeginCheck(p)
  BY <1>1 DEF BeginCheck
<1>2. CASE BeginLock(p)
  BY <1>2 DEF BeginLock
<1>3. CASE BeginResolve(p)
  BY <1>3 DEF BeginResolve
<1>4. CASE BeginRead(p)
  <2>1. original' \in [Launchers -> Contents]
    BY <1>4 DEF BeginRead
  <2>2. pc' \in [Launchers -> Labels] /\ lock' \in Launchers \cup {None}
    BY <1>4 DEF BeginRead
  <2>3. faults' \in 0 .. MaxFaults
    BY <1>4, FaultType DEF BeginRead
  <2>4. UNCHANGED <<merges, target, journal, backup, seen, restored, after, loaded, standing>>
    BY <1>4 DEF BeginRead
  <2>5. known' \in 0 .. MaxEdits
    BY <1>4 DEF BeginRead, Contents
  <2>6. QED
    BY <2>1, <2>2, <2>3, <2>4, <2>5
<1>5. CASE BeginBackup(p)
  BY <1>5, FaultType DEF BeginBackup
<1>6. CASE BeginJournal(p)
  BY <1>6, FaultType, ContentTypes DEF BeginJournal
<1>7. CASE BeginOverride(p)
  <2>1. target' \in Contents
    <3>1. target' \in {Override(original[p]), target}
      BY <1>7 DEF BeginOverride, WriteTarget
    <3>2. original[p] \in Contents /\ target \in Contents
      OBVIOUS
    <3>3. Override(original[p]) \in Contents
      BY <3>2, ContentTypes
    <3>4. QED
      BY <3>1, <3>2, <3>3
  <2>2. pc' \in [Launchers -> Labels] /\ after' \in [Launchers -> Labels]
    BY <1>7 DEF BeginOverride
  <2>3. faults' \in 0 .. MaxFaults
    BY <1>7, FaultType DEF BeginOverride
  <2>4. UNCHANGED <<merges, journal, backup, lock, seen, original, restored, loaded, known>>
    BY <1>7 DEF BeginOverride
  <2>5. standing' \in BOOLEAN
    BY <1>7 DEF BeginOverride, WriteTarget
  <2>6. QED
    BY <2>1, <2>2, <2>3, <2>4, <2>5
<1>8. QED
  BY <1>1, <1>2, <1>3, <1>4, <1>5, <1>6, <1>7 DEF Begin

\* The steps of RestoreJournal keep the types.
LEMMA RestoreType ==
  ASSUME TypeOK, NEW p \in Launchers, Restore(p), pc[p] \in Restoring => journal # None
  PROVE  TypeOK'
<1> USE DEF TypeOK, Labels, Goto, Refuse, Throw, files, locals, history, Restoring
<1>1. CASE RestoreRead(p)
  <2>1. journal # None
    BY <1>1 DEF RestoreRead
  <2>2. restored' \in [Launchers -> Contents]
    BY <1>1, <2>1, ContentTypes DEF RestoreRead
  <2>3. pc' \in [Launchers -> Labels] /\ lock' \in Launchers \cup {None}
    BY <1>1 DEF RestoreRead
  <2>4. known' \in 0 .. MaxEdits
    BY <1>1 DEF RestoreRead, Contents
  <2>5. UNCHANGED <<merges, target, journal, backup, seen, original, after, loaded, faults,
                    standing>>
    BY <1>1 DEF RestoreRead
  <2>6. QED
    BY <2>2, <2>3, <2>4, <2>5
<1>2. CASE RestoreWrite(p)
  <2>1. target' \in Contents
    <3>1. target' \in {restored[p], target}
      BY <1>2 DEF RestoreWrite, WriteTarget
    <3>2. restored[p] \in Contents /\ target \in Contents
      OBVIOUS
    <3>3. QED
      BY <3>1, <3>2
  <2>2. lock' \in Launchers \cup {None}
    BY <1>2 DEF RestoreWrite
  <2>3. pc' \in [Launchers -> Labels]
    BY <1>2 DEF RestoreWrite
  <2>4. standing' \in BOOLEAN
    BY <1>2 DEF RestoreWrite, WriteTarget
  <2>5. QED
    BY <1>2, <2>1, <2>2, <2>3, <2>4, FaultType DEF RestoreWrite
<1>3. CASE RestoreDelete(p)
  BY <1>3, FaultType DEF RestoreDelete, Journals
<1>4. CASE RestoreClean(p)
  BY <1>4, FaultType DEF RestoreClean
<1>5. QED
  BY <1>1, <1>2, <1>3, <1>4 DEF Restore

\* The steps of the session, of the game and of a crash keep the types.
LEMMA SessionType ==
  ASSUME TypeOK, NEW p \in Launchers,
         Start(p) \/ StartGame(p) \/ SessionRestore(p) \/ Finish(p) \/ Crash(p)
  PROVE  TypeOK'
<1> USE DEF TypeOK, Labels, Goto, Refuse, files, locals, history
<1>1. CASE Start(p)
  BY <1>1 DEF Start
<1>2. CASE StartGame(p)
  BY <1>2 DEF StartGame, Contents, Starters
<1>3. CASE SessionRestore(p)
  BY <1>3 DEF SessionRestore
<1>4. CASE Finish(p)
  BY <1>4 DEF Finish
<1>5. CASE Crash(p)
  BY <1>5, FaultType DEF Crash
<1>6. QED
  BY <1>1, <1>2, <1>3, <1>4, <1>5

\* A step of somebody else than the launchers.
Others(g) == StartOutside(g) \/ GameWrites(g) \/ GameExits(g)

\* An edit is a content with one edit more.
LEMMA EditType ==
  ASSUME TypeOK, NEW setting \in Settings, Edit(setting)
  PROVE  target' \in Contents /\ standing' \in BOOLEAN
<1>1. target.edits + 1 \in 0 .. MaxEdits
  <2>1. target.edits \in 0 .. MaxEdits
    BY DEF TypeOK, Contents
  <2>2. QED
    BY <2>1, NextCount, BoundsAssumption DEF Edit
<1>2. QED
  BY <1>1 DEF Edit, Contents, TypeOK

\* What a game or the user writes is an edit.
LEMMA Edits ==
  ASSUME TypeOK, UserWrites \/ (\E g \in Starters : GameWrites(g))
  PROVE  /\ \E setting \in Settings : Edit(setting)
         /\ loaded' \in [Starters -> Settings \cup {None}]
<1>1. CASE UserWrites
  BY <1>1 DEF UserWrites, TypeOK, Contents, Settings
<1>2. ASSUME NEW g \in Starters, GameWrites(g)
      PROVE  /\ \E setting \in Settings : Edit(setting)
             /\ loaded' \in [Starters -> Settings \cup {None}]
  <2>1. PICK setting \in {loaded[g], "user"} :
          Edit(setting) /\ loaded' = [loaded EXCEPT ![g] = setting]
    BY <1>2 DEF GameWrites
  <2>2. setting \in Settings
    BY <1>2, <2>1 DEF GameWrites, TypeOK, Settings
  <2>3. QED
    BY <2>1, <2>2 DEF TypeOK
<1>3. QED
  BY <1>1, <1>2

\* The steps of the games and of the user keep the types.
LEMMA OthersType ==
  ASSUME TypeOK, UserWrites \/ (\E g \in Starters : Others(g))
  PROVE  TypeOK'
<1>1. CASE UserWrites \/ (\E g \in Starters : GameWrites(g))
  <2>1. PICK setting \in Settings : Edit(setting)
    BY <1>1, Edits
  <2>2. target' \in Contents /\ standing' \in BOOLEAN
    BY <2>1, EditType
  <2>3. loaded' \in [Starters -> Settings \cup {None}]
    BY <1>1, Edits
  <2>4. QED
    BY <2>1, <2>2, <2>3 DEF Edit, TypeOK, locals
<1>2. CASE \E g \in Starters : StartOutside(g)
  BY <1>2 DEF StartOutside, TypeOK, files, locals, history, Contents
<1>3. ASSUME NEW g \in Starters, GameExits(g) PROVE TypeOK'
  <2>1. pc' \in [Launchers -> Labels]
    BY <1>3 DEF GameExits, TypeOK, Labels
  <2>2. QED
    BY <1>3, <2>1 DEF GameExits, TypeOK, files, locals, history
<1>4. QED
  BY <1>1, <1>2, <1>3 DEF Others

-----------------------------------------------------------------------------
(* Who owns the journal *)

\* A fresh machine: no launcher runs, nobody has the lock, there is no journal.
LEMMA InitOwnership == Init => Ownership
<1> SUFFICES ASSUME Init PROVE Ownership
  OBVIOUS
<1>1. TypeOK
  <2>1. loaded \in [Starters -> Settings \cup {None}]
    BY DEF Init
  <2>2. Authored \in Contents /\ known \in 0 .. MaxEdits /\ faults \in 0 .. MaxFaults
    BY BoundsAssumption DEF Init, Authored, Contents, Settings
  <2>3. "off" \in Labels
    BY DEF Labels
  <2>4. QED
    BY <2>1, <2>2, <2>3 DEF Init, TypeOK
<1>2. LockIsHeld /\ JournalAtLabel
  BY NoneAssumption
     DEF Init, LockIsHeld, JournalAtLabel, JournalFits, Locked, WithoutJournal, WithOwnJournal, Restoring
<1>3. QED
  BY <1>1, <1>2 DEF Ownership

\* What a step of a launcher may do to its label and the lock: stay on its side
\* of the lock, take the free lock, or close its lock file.
Moves(p, label) == pc' = [pc EXCEPT ![p] = label]

LockMove(p) ==
    \E label \in Labels :
        /\ Moves(p, label)
        /\ \/ (label \in Locked <=> pc[p] \in Locked) /\ lock' = lock
           \/ label \in Locked /\ lock = None /\ lock' = p
           \/ label \notin Locked /\ lock' = IF lock = p THEN None ELSE lock

\* Such a step leaves the lock with the launcher whose label says so.
LEMMA LockMoveKeeps ==
  ASSUME Ownership, NEW p \in Launchers, LockMove(p)
  PROVE  LockIsHeld'
<1> SUFFICES ASSUME NEW q \in Launchers PROVE (pc[q] \in Locked <=> lock = q)'
  BY DEF LockIsHeld
<1>1. PICK label \in Labels :
        /\ Moves(p, label)
        /\ \/ (label \in Locked <=> pc[p] \in Locked) /\ lock' = lock
           \/ label \in Locked /\ lock = None /\ lock' = p
           \/ label \notin Locked /\ lock' = IF lock = p THEN None ELSE lock
  BY DEF LockMove
<1>2. pc'[p] = label /\ (q # p => pc'[q] = pc[q])
  BY <1>1 DEF Moves, Ownership, TypeOK
<1>3. (pc[q] \in Locked <=> lock = q) /\ (pc[p] \in Locked <=> lock = p)
  BY DEF Ownership, LockIsHeld
<1>4. QED
  BY <1>1, <1>2, <1>3, NoneAssumption

\* Every step of a launcher moves so.
LEMMA LauncherLockMove ==
  ASSUME Ownership, NEW p \in Launchers, Launcher(p)
  PROVE  LockMove(p)
<1> USE DEF LockMove, Moves, Goto, Refuse, Throw, Labels, Locked
<1>1. CASE Start(p)
  BY <1>1 DEF Start
<1>2. CASE RecoverRead(p)
  BY <1>2 DEF RecoverRead
<1>3. CASE RecoverLock(p)
  BY <1>3 DEF RecoverLock, MayLock
<1>4. CASE RecoverLocked(p)
  BY <1>4 DEF RecoverLocked
<1>5. CASE Recovered(p)
  BY <1>5 DEF Recovered, Ownership, LockIsHeld
<1>6. CASE BeginCheck(p)
  BY <1>6 DEF BeginCheck
<1>7. CASE BeginLock(p)
  BY <1>7 DEF BeginLock, MayLock
<1>8. CASE BeginResolve(p)
  BY <1>8 DEF BeginResolve
<1>9. CASE BeginRead(p)
  BY <1>9 DEF BeginRead
<1>10. CASE BeginBackup(p)
  BY <1>10 DEF BeginBackup
<1>11. CASE BeginJournal(p)
  BY <1>11 DEF BeginJournal
<1>12. CASE BeginOverride(p)
  BY <1>12 DEF BeginOverride
<1>13. CASE StartGame(p)
  BY <1>13 DEF StartGame
<1>14. CASE SessionRestore(p)
  BY <1>14 DEF SessionRestore
<1>15. CASE Finish(p)
  BY <1>15 DEF Finish
<1>16. CASE RestoreRead(p)
  BY <1>16 DEF RestoreRead
<1>17. CASE RestoreWrite(p)
  BY <1>17 DEF RestoreWrite
<1>18. CASE RestoreDelete(p)
  BY <1>18 DEF RestoreDelete
<1>19. CASE RestoreClean(p)
  BY <1>19 DEF RestoreClean, Ownership, JournalAtLabel, JournalFits, RestoreReturns, OwnReturns
<1>20. CASE Crash(p)
  BY <1>20 DEF Crash
<1>21. QED
  BY <1>1, <1>2, <1>3, <1>4, <1>5, <1>6, <1>7, <1>8, <1>9, <1>10, <1>11, <1>12, <1>13,
     <1>14, <1>15, <1>16, <1>17, <1>18, <1>19, <1>20
     DEF Launcher, Recover, Begin, Restore

\* What a step of a launcher leaves alone: the other launchers' labels and local
\* variables, and the files except at the labels that write them.
Footprint(p) ==
    /\ \A q \in Launchers \ {p} :
         /\ pc'[q] = pc[q] /\ after'[q] = after[q]
         /\ original'[q] = original[q] /\ restored'[q] = restored[q]
    /\ pc[p] \in {"journal", "restore delete"} \/ journal' = journal
    /\ pc[p] \in {"override", "restore write"} \/ target' = target
    /\ pc[p] \in {"backup", "journal", "restore clean"} \/ backup' = backup
    /\ known' = known \/ (pc[p] \in {"read", "restore read"} /\ known' = target.edits)

\* Every step of a launcher keeps to it.
LEMMA LauncherFootprint ==
  ASSUME TypeOK, NEW p \in Launchers, Launcher(p)
  PROVE  Footprint(p)
<1> USE DEF Footprint, TypeOK, Goto, Refuse, Throw, files, locals, history
<1>1. CASE Start(p)
  BY <1>1 DEF Start
<1>2. CASE RecoverRead(p)
  BY <1>2 DEF RecoverRead
<1>3. CASE RecoverLock(p)
  BY <1>3 DEF RecoverLock
<1>4. CASE RecoverLocked(p)
  BY <1>4 DEF RecoverLocked
<1>5. CASE Recovered(p)
  BY <1>5 DEF Recovered
<1>6. CASE BeginCheck(p)
  BY <1>6 DEF BeginCheck
<1>7. CASE BeginLock(p)
  BY <1>7 DEF BeginLock
<1>8. CASE BeginResolve(p)
  BY <1>8 DEF BeginResolve
<1>9. CASE BeginRead(p)
  BY <1>9 DEF BeginRead
<1>10. CASE BeginBackup(p)
  BY <1>10 DEF BeginBackup
<1>11. CASE BeginJournal(p)
  BY <1>11 DEF BeginJournal
<1>12. CASE BeginOverride(p)
  BY <1>12 DEF BeginOverride
<1>13. CASE StartGame(p)
  BY <1>13 DEF StartGame
<1>14. CASE SessionRestore(p)
  BY <1>14 DEF SessionRestore
<1>15. CASE Finish(p)
  BY <1>15 DEF Finish
<1>16. CASE RestoreRead(p)
  BY <1>16 DEF RestoreRead
<1>17. CASE RestoreWrite(p)
  BY <1>17 DEF RestoreWrite
<1>18. CASE RestoreDelete(p)
  BY <1>18 DEF RestoreDelete
<1>19. CASE RestoreClean(p)
  BY <1>19 DEF RestoreClean
<1>20. CASE Crash(p)
  BY <1>20 DEF Crash
<1>21. QED
  BY <1>1, <1>2, <1>3, <1>4, <1>5, <1>6, <1>7, <1>8, <1>9, <1>10, <1>11, <1>12, <1>13,
     <1>14, <1>15, <1>16, <1>17, <1>18, <1>19, <1>20
     DEF Launcher, Recover, Begin, Restore

\* The journal of the other launchers is left alone: who writes it has the lock,
\* and who relies on it has the lock too.
LEMMA OthersJournal ==
  ASSUME Ownership, NEW p \in Launchers, Launcher(p), NEW q \in Launchers \ {p}
  PROVE  JournalFits(q)'
<1>1. pc'[q] = pc[q] /\ after'[q] = after[q]
  BY LauncherFootprint DEF Ownership, Footprint
<1>2. CASE journal' = journal
  BY <1>1, <1>2 DEF Ownership, JournalAtLabel, JournalFits
<1>3. CASE pc[p] \in {"journal", "restore delete"}
  <2>1. pc[q] \notin Locked
    BY <1>3 DEF Ownership, LockIsHeld, Locked
  <2>2. QED
    BY <1>1, <2>1
       DEF JournalFits, Locked, WithoutJournal, WithOwnJournal, Restoring
<1>4. QED
  BY <1>2, <1>3, LauncherFootprint DEF Ownership, Footprint

\* A restore that gives up goes on without a claim to the journal, or to Dispose
\* with the session's own one.
LEMMA ThrowFits ==
  ASSUME Ownership, NEW p \in Launchers, pc[p] \in Restoring, Throw(p),
         UNCHANGED <<journal, after>>
  PROVE  JournalFits(p)'
<1>1. JournalFits(p) /\ pc \in [Launchers -> Labels]
  BY DEF Ownership, JournalAtLabel, TypeOK
<1>2. CASE after[p] = "restored"
  <2>1. pc'[p] = "dispose"
    BY <1>1, <1>2 DEF Throw, Goto
  <2>2. journal # None /\ journal.owner = p
    <3>1. after[p] \in OwnReturns
      BY <1>2 DEF OwnReturns
    <3>2. QED
      BY <1>1, <3>1 DEF JournalFits
  <2>3. QED
    BY <2>1, <2>2
       DEF JournalFits, WithoutJournal, WithOwnJournal, Restoring
<1>3. CASE after[p] # "restored"
  <2>1. pc'[p] = "done"
    BY <1>1, <1>3 DEF Throw, Refuse, Goto
  <2>2. QED
    BY <2>1 DEF JournalFits, WithoutJournal, WithOwnJournal, Restoring
<1>4. QED
  BY <1>2, <1>3

\* A launcher only goes to a label at which the journal is as it says.
LEMMA OwnJournal ==
  ASSUME Ownership, NEW p \in Launchers, Launcher(p)
  PROVE  JournalFits(p)'
<1>0. JournalFits(p) /\ TypeOK
  BY DEF Ownership, JournalAtLabel
<1> USE <1>0 DEF JournalFits, TypeOK, Goto, Refuse, files, locals,
        WithoutJournal, WithOwnJournal, Restoring, RestoreReturns, OwnReturns
<1>1. CASE Start(p)
  BY <1>1 DEF Start
<1>2. CASE RecoverRead(p)
  BY <1>2 DEF RecoverRead
<1>3. CASE RecoverLock(p)
  BY <1>3 DEF RecoverLock
<1>4. CASE RecoverLocked(p)
  BY <1>4 DEF RecoverLocked
<1>5. CASE Recovered(p)
  BY <1>5 DEF Recovered
<1>6. CASE BeginCheck(p)
  BY <1>6 DEF BeginCheck
<1>7. CASE BeginLock(p)
  BY <1>7 DEF BeginLock
<1>8. CASE BeginResolve(p)
  BY <1>8 DEF BeginResolve
<1>9. CASE BeginRead(p)
  BY <1>9 DEF BeginRead
<1>10. CASE BeginBackup(p)
  BY <1>10 DEF BeginBackup
<1>11. CASE BeginJournal(p)
  <2>1. CASE Refuse(p)
    BY <1>11, <2>1 DEF BeginJournal
  <2>2. CASE journal' = NewJournal(p) /\ Goto(p, "override")
    <3>0. NewJournal(p) \in Journals
      BY <1>0, ContentTypes
    <3>1. NewJournal(p) # None /\ NewJournal(p).owner = p
      BY <3>0, NoneAssumption DEF NewJournal
    <3>2. pc'[p] = "override"
      BY <2>2
    <3>3. QED
      BY <2>2, <3>1, <3>2
  <2>3. QED
    BY <1>11, <2>1, <2>2 DEF BeginJournal
<1>12. CASE BeginOverride(p)
  BY <1>12 DEF BeginOverride
<1>13. CASE StartGame(p)
  BY <1>13 DEF StartGame
<1>14. CASE SessionRestore(p)
  BY <1>14 DEF SessionRestore
<1>15. CASE Finish(p)
  BY <1>15 DEF Finish
<1>16. CASE RestoreRead(p)
  <2>1. CASE Throw(p)
    BY <1>16, <2>1, ThrowFits DEF RestoreRead
  <2>2. CASE Goto(p, IF MustWrite THEN "restore write" ELSE "restore delete")
    BY <1>16, <2>2 DEF RestoreRead
  <2>3. QED
    BY <1>16, <2>1, <2>2 DEF RestoreRead
<1>17. CASE RestoreWrite(p)
  <2>1. CASE Throw(p)
    BY <1>17, <2>1, ThrowFits DEF RestoreWrite
  <2>2. CASE Goto(p, "restore delete")
    BY <1>17, <2>2 DEF RestoreWrite
  <2>3. QED
    BY <1>17, <2>1, <2>2 DEF RestoreWrite
<1>18. CASE RestoreDelete(p)
  <2>1. CASE Throw(p) /\ UNCHANGED journal
    BY <1>18, <2>1, ThrowFits DEF RestoreDelete
  <2>2. CASE Goto(p, "restore clean") /\ journal' = None
    BY <1>18, <2>2 DEF RestoreDelete
  <2>3. QED
    BY <1>18, <2>1, <2>2 DEF RestoreDelete
<1>19. CASE RestoreClean(p)
  BY <1>19 DEF RestoreClean
<1>20. CASE Crash(p)
  BY <1>20 DEF Crash
<1>21. QED
  BY <1>1, <1>2, <1>3, <1>4, <1>5, <1>6, <1>7, <1>8, <1>9, <1>10, <1>11, <1>12, <1>13,
     <1>14, <1>15, <1>16, <1>17, <1>18, <1>19, <1>20
     DEF Launcher, Recover, Begin, Restore

\* The steps of the games and of the user touch neither the lock nor the journal.
LEMMA OthersOwnership ==
  ASSUME Ownership, UserWrites \/ (\E g \in Starters : Others(g))
  PROVE  LockIsHeld' /\ JournalAtLabel'
<1> USE DEF Ownership, LockIsHeld, JournalAtLabel, JournalFits
<1>1. CASE UserWrites \/ (\E g \in Starters : GameWrites(g))
  <2>1. \E setting \in Settings : Edit(setting)
    BY <1>1, Edits
  <2>2. UNCHANGED <<journal, lock, pc, after>>
    BY <2>1 DEF Edit, locals
  <2>3. QED
    BY <2>2
<1>2. CASE \E g \in Starters : StartOutside(g)
  BY <1>2 DEF StartOutside, files, locals
<1>3. ASSUME NEW g \in Starters, GameExits(g)
      PROVE  LockIsHeld' /\ JournalAtLabel'
  <2>1. UNCHANGED <<journal, lock, after>>
    BY <1>3 DEF GameExits, files, locals
  <2>2. ASSUME NEW q \in Launchers, pc'[q] = pc[q]
        PROVE  (pc[q] \in Locked <=> lock = q)' /\ JournalFits(q)'
    BY <2>1, <2>2
  <2>3. ASSUME NEW q \in Launchers, pc[q] = "playing", pc'[q] = "restore"
        PROVE  (pc[q] \in Locked <=> lock = q)' /\ JournalFits(q)'
    <3>1. lock = q /\ journal # None /\ journal.owner = q
      BY <2>3 DEF Locked, WithOwnJournal
    <3>2. QED
      BY <2>1, <2>3, <3>1 DEF Locked, WithoutJournal, WithOwnJournal, Restoring
  <2>4. QED
    BY <1>3, <2>2, <2>3 DEF GameExits
<1>4. QED
  BY <1>1, <1>2, <1>3 DEF Others

\* Ownership is inductive.
LEMMA OwnershipStep == ASSUME Ownership, [Next]_vars PROVE Ownership'
<1>0. TypeOK
  BY DEF Ownership
<1>1. ASSUME NEW p \in Launchers, Launcher(p)
      PROVE  Ownership'
  <2>1. pc[p] \in Restoring => journal # None
    <3>1. JournalFits(p)
      BY DEF Ownership, JournalAtLabel
    <3>2. QED
      BY <3>1 DEF JournalFits
  <2>2. TypeOK'
    BY <1>0, <1>1, <2>1, RecoverType, BeginType, RestoreType, SessionType DEF Launcher
  <2>3. LockIsHeld'
    BY <1>1, LauncherLockMove, LockMoveKeeps
  <2>4. JournalAtLabel'
    BY <1>1, OwnJournal, OthersJournal DEF JournalAtLabel
  <2>5. QED
    BY <2>2, <2>3, <2>4 DEF Ownership
<1>2. CASE UserWrites \/ (\E g \in Starters : Others(g))
  BY <1>0, <1>2, OthersType, OthersOwnership DEF Ownership
<1>3. CASE UNCHANGED vars
  BY <1>3 DEF Ownership, TypeOK, LockIsHeld, JournalAtLabel, JournalFits, vars, files, locals, history
<1>4. QED
  BY <1>1, <1>2, <1>3 DEF Next, Others

\* The state has its type, one launcher has the lock, and the journal is what
\* every launcher's label says, also when launchers crash and their games live on.
THEOREM OwnershipInvariant == Spec => []Ownership
<1>1. QED
  BY InitOwnership, OwnershipStep, PTL DEF Spec

\* TcsOverrideTransaction keeps the types of its files and of its launchers.
THEOREM TypeCorrect == Spec => []TypeOK
<1>1. Ownership => TypeOK
  BY DEF Ownership
<1>2. QED
  BY <1>1, OwnershipInvariant, PTL

\* A running session owns the lock and the journal of its target: nobody
\* recovers it, and nobody begins a second session on top of it.
THEOREM SessionsOwnTheirTarget == Spec => []SessionOwnsTarget
<1>1. Ownership => SessionOwnsTarget
  BY DEF Ownership, LockIsHeld, JournalAtLabel, JournalFits, SessionOwnsTarget,
         Locked, WithOwnJournal
<1>2. QED
  BY <1>1, OwnershipInvariant, PTL

-----------------------------------------------------------------------------
(* What the target holds *)

\* The file as the game's installation has it carries no session setting.
LEMMA InitUndo == Init => Undo
<1> SUFFICES ASSUME Init PROVE Undo
  OBVIOUS
<1>1. JournalIsBacked /\ StandingIsJournaled /\ TargetFollowsJournal
  BY DEF Init, JournalIsBacked, StandingIsJournaled, TargetFollowsJournal
<1>2. ContentAtLabel
  BY DEF Init, ContentAtLabel, ContentFits
<1>3. EditsSurvive
  BY DEF Init, EditsSurvive, Authored
<1>4. QED
  BY <1>1, <1>2, <1>3, InitOwnership DEF Undo

\* The files only change at the labels that write them.
LEMMA Writers ==
  ASSUME TypeOK, NEW p \in Launchers, Launcher(p)
  PROVE  \/ UNCHANGED files /\ UNCHANGED standing
         \/ BeginBackup(p) \/ BeginJournal(p) \/ BeginOverride(p)
         \/ RestoreWrite(p) \/ RestoreDelete(p) \/ RestoreClean(p)
  BY DEF Launcher, Start, Recover, RecoverRead, RecoverLock, RecoverLocked, Recovered,
         Begin, BeginCheck, BeginLock, BeginResolve, BeginRead, StartGame, SessionRestore,
         Restore, RestoreRead, Finish, Crash, files, history

\* The contents the other launchers go by are left alone, as their journals are.
LEMMA OthersContent ==
  ASSUME Undo, NEW p \in Launchers, Launcher(p), NEW q \in Launchers \ {p}
  PROVE  ContentFits(q)'
<1>0. /\ Footprint(p)
      /\ pc'[q] = pc[q] /\ original'[q] = original[q] /\ restored'[q] = restored[q]
  BY LauncherFootprint DEF Undo, Ownership, Footprint
<1>1. CASE pc[q] \in Locked
  <2>1. pc[p] \notin Locked
    BY <1>1 DEF Undo, Ownership, LockIsHeld
  <2>2. UNCHANGED <<target, journal, backup, known, standing>>
    <3>1. known' = known
      BY <1>0, <2>1 DEF Footprint, Locked
    <3>2. UNCHANGED files /\ UNCHANGED standing
      BY <2>1, Writers
         DEF Undo, Ownership, Locked, BeginBackup, BeginJournal, BeginOverride,
             RestoreWrite, RestoreDelete, RestoreClean
    <3>3. QED
      BY <3>1, <3>2 DEF files
  <2>3. ContentFits(q)
    BY DEF Undo, ContentAtLabel
  <2>4. QED
    BY <1>0, <2>2, <2>3 DEF ContentFits, Restores, Follows, NewJournal
<1>2. CASE pc[q] \notin Locked
  BY <1>0, <1>2 DEF ContentFits, Locked
<1>3. QED
  BY <1>1, <1>2

\* The content that a restore writes takes the override back and keeps the edits,
\* and so does a target that it need not write.
LEMMA RestoredUndoes ==
  ASSUME Undo, NEW p \in Launchers, journal # None
  PROVE  /\ RestoredContent(p).edits = target.edits
         /\ Follows(RestoredContent(p), journal.original)
         /\ RestoredContent(p).setting = "session" => journal.original.setting = "session"
         /\ ~MustWrite => ~standing /\ Follows(target, journal.original)
<1>1. /\ target \in Contents
      /\ journal.original \in Contents /\ journal.overridden \in Contents
      /\ journal.overridden = Override(journal.original)
  BY DEF Undo, Ownership, TypeOK, Journals, JournalIsBacked
<1>2. /\ target.edits \in Nat /\ journal.original.edits \in Nat
      /\ journal.overridden.edits = journal.original.edits
  BY <1>1, BoundsAssumption DEF Contents, Override
<1>3. target.edits >= journal.original.edits
  BY <1>2 DEF Undo, TargetFollowsJournal, Follows
<1>4. target.edits = journal.original.edits => ~Edited
  BY <1>2 DEF Undo, TargetFollowsJournal, Follows, Edited
<1>5. ~Edited => target.edits = journal.original.edits
  BY <1>2 DEF Edited
<1>6. ~MustWrite => ~standing /\ Follows(target, journal.original)
  BY <1>2 DEF Undo, StandingIsJournaled, MustWrite, Follows
<1>7. CASE Edited
  BY <1>1, <1>2, <1>3, <1>4, <1>6, <1>7 DEF RestoredContent, Follows, Contents
<1>8. CASE ~Edited
  BY <1>2, <1>5, <1>6, <1>8 DEF RestoredContent, Follows
<1>9. QED
  BY <1>7, <1>8

\* A launcher only goes to a label at which the contents are as it says.
LEMMA OwnContent ==
  ASSUME Undo, NEW p \in Launchers, Launcher(p)
  PROVE  ContentFits(p)'
<1>0. /\ TypeOK /\ ContentFits(p) /\ JournalFits(p)
  BY DEF Undo, Ownership, ContentAtLabel, JournalAtLabel
<1>q. ASSUME pc'[p] \notin {"backup", "journal", "override", "restore write", "restore delete"}
      PROVE  ContentFits(p)'
  BY <1>q DEF ContentFits
<1> USE <1>0 DEF TypeOK, Goto, Refuse, files, locals, history
<1>1. CASE Start(p)
  BY <1>1, <1>q DEF Start
<1>2. CASE RecoverRead(p)
  BY <1>2, <1>q DEF RecoverRead
<1>3. CASE RecoverLock(p)
  BY <1>3, <1>q DEF RecoverLock
<1>4. CASE RecoverLocked(p)
  BY <1>4, <1>q DEF RecoverLocked
<1>5. CASE Recovered(p)
  BY <1>5, <1>q DEF Recovered
<1>6. CASE BeginCheck(p)
  BY <1>6, <1>q DEF BeginCheck
<1>7. CASE BeginLock(p)
  BY <1>7, <1>q DEF BeginLock
<1>8. CASE BeginResolve(p)
  BY <1>8, <1>q DEF BeginResolve
<1>9. CASE BeginRead(p)
  <2>1. CASE original' = [original EXCEPT ![p] = target] /\ Goto(p, "backup")
    <3>1. target.edits \in Nat /\ target' = target
      BY <1>9, BoundsAssumption DEF BeginRead, Contents
    <3>2. pc'[p] = "backup" /\ original'[p] = target /\ known' = target.edits
      BY <1>9, <2>1 DEF BeginRead
    <3>3. original'[p].edits = known' /\ Follows(target, original[p])'
      BY <3>1, <3>2 DEF Follows
    <3>4. QED
      BY <3>2, <3>3 DEF ContentFits
  <2>2. CASE Refuse(p)
    BY <1>9, <2>2, <1>q DEF BeginRead
  <2>3. QED
    BY <1>9, <2>1, <2>2 DEF BeginRead
<1>10. CASE BeginBackup(p)
  <2>1. CASE backup' = [backup EXCEPT ![p] = original[p]] /\ Goto(p, "journal")
    BY <1>10, <2>1 DEF BeginBackup, ContentFits, Follows
  <2>2. CASE Refuse(p)
    BY <1>10, <2>2, <1>q DEF BeginBackup
  <2>3. QED
    BY <1>10, <2>1, <2>2 DEF BeginBackup
<1>11. CASE BeginJournal(p)
  <2>1. CASE journal' = NewJournal(p) /\ Goto(p, "override")
    BY <1>11, <2>1 DEF BeginJournal, ContentFits, NewJournal, Follows
  <2>2. CASE Refuse(p)
    BY <1>11, <2>2, <1>q DEF BeginJournal
  <2>3. QED
    BY <1>11, <2>1, <2>2 DEF BeginJournal
<1>12. CASE BeginOverride(p)
  BY <1>12, <1>q DEF BeginOverride
<1>13. CASE StartGame(p)
  BY <1>13, <1>q DEF StartGame
<1>14. CASE SessionRestore(p)
  BY <1>14, <1>q DEF SessionRestore
<1>15. CASE Finish(p)
  BY <1>15, <1>q DEF Finish
<1>16. CASE RestoreRead(p)
  <2>0. journal # None
    BY <1>16 DEF RestoreRead, JournalFits, Restoring
  <2>1. CASE Throw(p)
    BY <1>16, <2>1, <1>q DEF RestoreRead, Throw
  <2>2. CASE /\ restored' = [restored EXCEPT ![p] = RestoredContent(p)]
             /\ Goto(p, IF MustWrite THEN "restore write" ELSE "restore delete")
    <3>0. /\ UNCHANGED <<target, journal, standing>> /\ known' = target.edits
          /\ restored'[p] = RestoredContent(p)
      BY <1>16, <2>2 DEF RestoreRead
    <3>1. CASE MustWrite
      <4>1. pc'[p] = "restore write"
        BY <2>2, <3>1
      <4>2. Restores(restored[p])'
        BY <2>0, <3>0, RestoredUndoes DEF Restores, Follows
      <4>3. QED
        BY <4>1, <4>2 DEF ContentFits
    <3>2. CASE ~MustWrite
      <4>1. pc'[p] = "restore delete"
        BY <2>2, <3>2
      <4>2. ~standing' /\ Follows(target, journal.original)'
        BY <2>0, <3>0, <3>2, RestoredUndoes DEF Follows
      <4>3. QED
        BY <4>1, <4>2 DEF ContentFits
    <3>3. QED
      BY <3>1, <3>2
  <2>3. QED
    BY <1>16, <2>1, <2>2 DEF RestoreRead
<1>17. CASE RestoreWrite(p)
  <2>1. CASE Throw(p)
    BY <1>17, <2>1, <1>q DEF RestoreWrite, Throw
  <2>2. CASE WriteTarget(restored[p]) /\ Goto(p, "restore delete")
    <3>0. journal' = journal /\ journal # None
      BY <1>17 DEF RestoreWrite, JournalFits, Restoring
    <3>1. Restores(restored[p])
      BY <1>17 DEF RestoreWrite, ContentFits
    <3>2. ~standing' /\ target' = restored[p] /\ pc'[p] = "restore delete"
      BY <2>2, <3>0, <3>1 DEF WriteTarget, Restores
    <3>3. QED
      BY <3>0, <3>1, <3>2 DEF ContentFits, Restores, Follows
  <2>3. QED
    BY <1>17, <2>1, <2>2 DEF RestoreWrite
<1>18. CASE RestoreDelete(p)
  BY <1>18, <1>q DEF RestoreDelete, Throw
<1>19. CASE RestoreClean(p)
  BY <1>19, <1>q DEF RestoreClean, JournalFits, Restoring, RestoreReturns, OwnReturns
<1>20. CASE Crash(p)
  BY <1>20, <1>q DEF Crash
<1>21. QED
  BY <1>1, <1>2, <1>3, <1>4, <1>5, <1>6, <1>7, <1>8, <1>9, <1>10, <1>11, <1>12, <1>13,
     <1>14, <1>15, <1>16, <1>17, <1>18, <1>19, <1>20
     DEF Launcher, Recover, Begin, Restore

\* Each of these writes keeps the journal's contents recoverable, the target at
\* one of them or edited, and the edits that the launcher has read.
Kept == JournalIsBacked /\ StandingIsJournaled /\ TargetFollowsJournal /\ EditsSurvive

LEMMA WritesAreBacked ==
  ASSUME Undo, NEW p \in Launchers, Launcher(p)
  PROVE  Kept'
<1>0. /\ TypeOK /\ Kept /\ ContentFits(p) /\ JournalFits(p)
      /\ target \in Contents /\ target.edits \in Nat
  BY BoundsAssumption
     DEF Undo, Kept, Ownership, ContentAtLabel, JournalAtLabel, TypeOK, Contents
<1>1. CASE UNCHANGED files /\ UNCHANGED standing
  <2>1. known' \in {known, target.edits}
    BY LauncherFootprint DEF Undo, Ownership, Footprint
  <2>2. QED
    BY <1>0, <1>1, <2>1
       DEF Kept, JournalIsBacked, StandingIsJournaled, TargetFollowsJournal, Follows,
           EditsSurvive, files
<1>2. CASE BeginBackup(p)
  <2>1. journal = None /\ UNCHANGED <<target, journal, known, standing>>
    BY <1>0, <1>2 DEF BeginBackup, JournalFits, WithoutJournal, history
  <2>2. QED
    BY <1>0, <2>1
       DEF Kept, JournalIsBacked, StandingIsJournaled, TargetFollowsJournal, EditsSurvive
<1>3. CASE BeginJournal(p)
  <2>0. /\ journal = None /\ backup[p] = original[p] /\ Follows(target, original[p])
        /\ UNCHANGED <<target, known, standing>>
    BY <1>0, <1>3 DEF BeginJournal, JournalFits, WithoutJournal, ContentFits, history
  <2>1. ~standing
    BY <1>0, <2>0 DEF Kept, StandingIsJournaled
  <2>2. CASE journal' = NewJournal(p) /\ backup' = backup
    BY <1>0, <2>0, <2>1, <2>2
       DEF Kept, JournalIsBacked, StandingIsJournaled, TargetFollowsJournal, Follows,
           EditsSurvive, NewJournal
  <2>3. CASE journal' = journal
    BY <1>0, <2>0, <2>1, <2>3
       DEF Kept, JournalIsBacked, StandingIsJournaled, TargetFollowsJournal, EditsSurvive
  <2>4. QED
    BY <1>3, <2>2, <2>3 DEF BeginJournal
<1>4. CASE BeginOverride(p)
  <2>0. /\ journal = NewJournal(p) /\ journal # None /\ original[p] \in Contents
        /\ original[p].edits = known
    BY <1>0, <1>4 DEF BeginOverride, ContentFits, JournalFits, WithOwnJournal, TypeOK
  <2>1. UNCHANGED <<journal, backup, known>>
    BY <1>4 DEF BeginOverride
  <2>2. CASE UNCHANGED <<target, standing>>
    BY <1>0, <2>1, <2>2
       DEF Kept, JournalIsBacked, StandingIsJournaled, TargetFollowsJournal, Follows,
           EditsSurvive
  <2>3. CASE WriteTarget(Override(original[p]))
    <3>1. /\ target' = journal.overridden /\ target'.setting = "session"
          /\ target'.edits = known /\ known \in Nat
      BY <1>0, <2>0, <2>3, BoundsAssumption
         DEF WriteTarget, NewJournal, Override, Contents, TypeOK
    <3>2. JournalIsBacked'
      BY <1>0, <2>1 DEF Kept, JournalIsBacked
    <3>3. StandingIsJournaled'
      BY <2>0, <2>1, <2>3, <3>1 DEF WriteTarget, StandingIsJournaled
    <3>4. TargetFollowsJournal' /\ EditsSurvive'
      BY <2>0, <2>1, <3>1 DEF TargetFollowsJournal, Follows, EditsSurvive
    <3>5. QED
      BY <3>2, <3>3, <3>4 DEF Kept
  <2>4. QED
    BY <1>4, <2>2, <2>3 DEF BeginOverride
<1>5. CASE RestoreWrite(p)
  <2>0. journal # None /\ Restores(restored[p])
    BY <1>0, <1>5 DEF RestoreWrite, ContentFits, JournalFits, Restoring
  <2>1. UNCHANGED <<journal, backup, known>>
    BY <1>5 DEF RestoreWrite
  <2>2. CASE UNCHANGED <<target, standing>>
    BY <1>0, <2>1, <2>2
       DEF Kept, JournalIsBacked, StandingIsJournaled, TargetFollowsJournal, Follows,
           EditsSurvive
  <2>3. CASE WriteTarget(restored[p])
    <3>1. target' = restored[p] /\ ~standing'
      BY <2>0, <2>3 DEF WriteTarget, Restores
    <3>2. JournalIsBacked' /\ StandingIsJournaled'
      BY <1>0, <2>1, <3>1 DEF Kept, JournalIsBacked, StandingIsJournaled
    <3>3. TargetFollowsJournal'
      BY <2>0, <2>1, <3>1 DEF TargetFollowsJournal, Follows, Restores
    <3>4. EditsSurvive'
      <4>1. known \in Nat
        BY <1>0, BoundsAssumption DEF TypeOK
      <4>2. QED
        BY <2>0, <2>1, <3>1, <4>1 DEF Restores, EditsSurvive
    <3>5. QED
      BY <3>2, <3>3, <3>4 DEF Kept
  <2>4. QED
    BY <1>5, <2>2, <2>3 DEF RestoreWrite
<1>6. CASE RestoreDelete(p)
  <2>1. ~standing
    BY <1>0, <1>6 DEF RestoreDelete, ContentFits
  <2>2. UNCHANGED <<target, backup, known, standing>> /\ journal' \in {journal, None}
    BY <1>6 DEF RestoreDelete, history
  <2>3. QED
    BY <1>0, <2>1, <2>2
       DEF Kept, JournalIsBacked, StandingIsJournaled, TargetFollowsJournal, Follows,
           EditsSurvive
<1>7. CASE RestoreClean(p)
  <2>1. journal = None /\ UNCHANGED <<target, journal, known, standing>>
    BY <1>0, <1>7 DEF RestoreClean, JournalFits, WithoutJournal, history
  <2>2. QED
    BY <1>0, <2>1
       DEF Kept, JournalIsBacked, StandingIsJournaled, TargetFollowsJournal, EditsSurvive
<1>8. QED
  BY <1>1, <1>2, <1>3, <1>4, <1>5, <1>6, <1>7, Writers DEF Undo, Ownership

\* An edit at any moment, also between a launcher's read and its write, leaves
\* everything as it should be: the target only has more edits.
LEMMA EditUndo ==
  ASSUME Undo, Ownership', NEW setting \in Settings, Edit(setting)
  PROVE  Undo'
<1>1. /\ target' = [setting |-> setting, edits |-> target.edits + 1]
      /\ standing' = (standing /\ setting = "session")
      /\ UNCHANGED <<journal, backup, pc, original, restored, known>>
  BY DEF Edit, locals
<1>2. target.edits \in Nat /\ known \in Nat
  BY BoundsAssumption DEF Undo, Ownership, TypeOK, Contents
<1>3. target'.edits = target.edits + 1 /\ target'.setting = setting
  BY <1>1
<1>4. ASSUME NEW content \in Contents, Follows(target, content)
      PROVE  Follows(target', content) /\ target'.edits # content.edits
  <2>1. content.edits \in Nat
    BY BoundsAssumption DEF Contents
  <2>2. QED
    BY <1>2, <1>3, <1>4, <2>1 DEF Follows
<1>5. JournalIsBacked' /\ StandingIsJournaled'
  BY <1>1, <1>3 DEF Undo, JournalIsBacked, StandingIsJournaled
<1>6. TargetFollowsJournal'
  <2> SUFFICES ASSUME journal # None
               PROVE  Follows(target', journal.original) \/ Follows(target', journal.overridden)
    BY <1>1 DEF TargetFollowsJournal, Follows
  <2>1. journal.original \in Contents /\ journal.overridden \in Contents
    BY DEF Undo, Ownership, TypeOK, Journals
  <2>2. QED
    BY <1>4, <2>1 DEF Undo, TargetFollowsJournal
<1>7. EditsSurvive'
  BY <1>1, <1>2, <1>3 DEF Undo, EditsSurvive
<1>8. ASSUME NEW p \in Launchers PROVE ContentFits(p)'
  <2>0. ContentFits(p) /\ JournalFits(p) /\ original[p] \in Contents
    BY DEF Undo, Ownership, ContentAtLabel, JournalAtLabel, TypeOK
  <2>1. (pc[p] \in {"backup", "journal", "override"} =>
           original[p].edits = known /\ Follows(target, original[p]))'
    <3> SUFFICES ASSUME pc[p] \in {"backup", "journal", "override"}
                 PROVE  original[p].edits = known /\ Follows(target', original[p])
      BY <1>1 DEF Follows
    <3>1. QED
      BY <1>4, <2>0 DEF ContentFits
  <2>2. (pc[p] = "restore delete" => ~standing /\ Follows(target, journal.original))'
    <3> SUFFICES ASSUME pc[p] = "restore delete"
                 PROVE  ~standing' /\ Follows(target', journal.original)
      BY <1>1 DEF Follows
    <3>1. journal # None /\ ~standing /\ Follows(target, journal.original)
      BY <2>0 DEF ContentFits, JournalFits, Restoring
    <3>2. journal.original \in Contents
      BY <3>1 DEF Undo, Ownership, TypeOK, Journals
    <3>3. QED
      BY <1>1, <1>4, <3>1, <3>2
  <2>3. (pc[p] = "restore write" => Restores(restored[p]))'
    BY <1>1, <2>0 DEF ContentFits, Restores, Follows
  <2>4. /\ (pc[p] = "journal" => backup[p] = original[p])'
        /\ (pc[p] = "override" => journal = NewJournal(p))'
    BY <1>1, <2>0 DEF ContentFits, NewJournal
  <2>5. QED
    BY <2>1, <2>2, <2>3, <2>4 DEF ContentFits
<1>9. QED
  BY <1>5, <1>6, <1>7, <1>8 DEF Undo, ContentAtLabel

\* The other steps of the games change no file, and move at most a launcher that
\* waits for its game.
LEMMA OthersUndo ==
  ASSUME Undo, Ownership', NEW g \in Starters, StartOutside(g) \/ GameExits(g)
  PROVE  Undo'
<1>1. UNCHANGED <<target, journal, backup, original, restored, known, standing>>
  BY DEF StartOutside, GameExits, files, locals, history
<1>2. ASSUME NEW p \in Launchers
      PROVE  pc'[p] = pc[p] \/ pc'[p] = "restore"
  BY DEF StartOutside, GameExits
<1>3. ASSUME NEW p \in Launchers PROVE ContentFits(p)'
  <2>1. CASE pc'[p] = pc[p]
    BY <1>1, <2>1 DEF Undo, ContentAtLabel, ContentFits, Restores, Follows, NewJournal
  <2>2. CASE pc'[p] = "restore"
    BY <2>2 DEF ContentFits
  <2>3. QED
    BY <1>2, <2>1, <2>2
<1>4. QED
  BY <1>1, <1>3
     DEF Undo, JournalIsBacked, StandingIsJournaled, TargetFollowsJournal, Follows,
         ContentAtLabel, EditsSurvive

\* Undo is inductive.
LEMMA UndoStep == ASSUME Undo, [Next]_vars PROVE Undo'
<1>1. Ownership'
  BY OwnershipStep DEF Undo
<1>2. ASSUME NEW p \in Launchers, Launcher(p)
      PROVE  Undo'
  <2>1. ContentAtLabel'
    BY <1>2, OwnContent, OthersContent DEF ContentAtLabel
  <2>2. QED
    BY <1>1, <1>2, <2>1, WritesAreBacked DEF Undo, Kept
<1>3. CASE UserWrites \/ (\E g \in Starters : GameWrites(g))
  <2>1. \E setting \in Settings : Edit(setting)
    BY <1>3, Edits DEF Undo, Ownership
  <2>2. QED
    BY <1>1, <2>1, EditUndo
<1>4. CASE \E g \in Starters : StartOutside(g) \/ GameExits(g)
  BY <1>1, <1>4, OthersUndo
<1>5. CASE UNCHANGED vars
  BY <1>1, <1>5
     DEF Undo, JournalIsBacked, StandingIsJournaled, TargetFollowsJournal, Follows,
         ContentAtLabel, ContentFits, Restores, NewJournal, EditsSurvive, vars, files,
         locals, history
<1>6. QED
  BY <1>2, <1>3, <1>4, <1>5 DEF Next

\* At every crash and after every failed write, whoever else writes the file, the
\* journal leads back to what the override replaced.
THEOREM UndoInvariant == Spec => []Undo
<1>1. Undo /\ [Next]_vars => Undo'
  BY UndoStep
<1>2. QED
  BY <1>1, InitUndo, PTL DEF Spec

\* A journal has its backup, and a file that a launcher has left with the session's
\* setting has a journal.
THEOREM OverridesAreUndoable == Spec => []OverrideIsUndoable
<1>1. Undo => OverrideIsUndoable
  BY DEF Undo, JournalIsBacked, StandingIsJournaled, OverrideIsUndoable
<1>2. QED
  BY <1>1, UndoInvariant, PTL

\* No override and no restore, not even one repeated after a crash, takes back what
\* was written before the launcher read the file.
THEOREM SeenEditsSurvive == Spec => []EditsSurvive
<1>1. Undo => EditsSurvive
  BY DEF Undo
<1>2. QED
  BY <1>1, UndoInvariant, PTL

\* A journal is deleted only when its override is undone, exactly so unless the
\* file was edited.
THEOREM JournalsOutliveOverrides == Spec => UndoneBeforeForgotten
<1> DEFINE Forgotten ==
      journal # None /\ journal' = None =>
        /\ ~standing
        /\ target.edits = journal.original.edits => target = journal.original
<1>1. Undo /\ [Next]_vars => [Forgotten]_vars
  <2> SUFFICES ASSUME Undo, Next, journal # None, journal' = None
               PROVE  ~standing /\ Follows(target, journal.original)
    BY DEF Follows
  <2>1. ASSUME NEW p \in Launchers, Launcher(p)
        PROVE  ~standing /\ Follows(target, journal.original)
    <3>0. ContentFits(p) /\ JournalFits(p)
      BY DEF Undo, Ownership, ContentAtLabel, JournalAtLabel
    <3>1. RestoreDelete(p) \/ BeginJournal(p)
      BY <2>1, Writers
         DEF Undo, Ownership, files, BeginBackup, BeginOverride, RestoreWrite, RestoreClean
    <3>2. ~BeginJournal(p)
      BY <3>0 DEF BeginJournal, JournalFits, WithoutJournal
    <3>3. QED
      BY <3>0, <3>1, <3>2 DEF RestoreDelete, ContentFits
  <2>2. \A setting \in Settings : ~Edit(setting)
    BY DEF Edit
  <2>3. ~UserWrites /\ \A g \in Starters : ~GameWrites(g)
    BY <2>2, Edits DEF Undo, Ownership
  <2>4. \A g \in Starters : ~StartOutside(g) /\ ~GameExits(g)
    BY DEF StartOutside, GameExits, files
  <2>5. QED
    BY <2>1, <2>3, <2>4 DEF Next
<1>2. QED
  BY <1>1, UndoInvariant, PTL DEF Spec, UndoneBeforeForgotten

=============================================================================
