---------------------------- MODULE TcsTransaction ----------------------------
(***************************************************************************)
(* The launcher's session override of launcher/TcsOverrideTransaction.cs,  *)
(* as Program.cs drives it: one setting of a configuration file of the     *)
(* game is switched for the time of a VR session and put back afterwards,  *)
(* by the launcher itself or, when it crashed, by the next one.            *)
(*                                                                         *)
(* The model follows one target file and everything that belongs to its    *)
(* key: the lock, the journal, the backups.  A file write is one step:     *)
(* AtomicWrite and DurableCreate write a temporary file through and move   *)
(* it.  A content is the setting and the number of edits that it has; the  *)
(* checksums of the journal compare contents.  A launcher is one process,  *)
(* so it stands for its own session nonce too.                             *)
(*                                                                         *)
(* Nothing in the code stops anybody else: a game lives on when its        *)
(* launcher dies, the other commands of the launcher and the user start    *)
(* games without a session, and games and user rewrite the file whenever   *)
(* they like.                                                              *)
(***************************************************************************)
EXTENDS Integers, FiniteSets, TLC

CONSTANTS
    Launchers,      \* the launcher processes, each started at most once
    None,
    Outsiders,      \* who start a game without a session: the commands probe,
                    \* trace-render, bridge-smoke, portable-stereo, or the user
    MaxEdits,       \* bound on the edits that the file has
    MaxFaults       \* bound on crashes and failed file operations

ASSUME BoundsAssumption == MaxEdits \in Nat /\ MaxFaults \in Nat

VARIABLES
    merges,     \* a reversible key of an INI (MSAA, ReShade), or the legacy config
    target,     \* the configuration file
    journal,    \* the journal file of the target, or None
    backup,     \* per launcher: its session's backup file, or None
    lock,       \* who has the lock file open
    pc,
    seen,       \* per launcher: the owner it read in the journal
    original,   \* per launcher: the content it read before its override
    restored,   \* per launcher: the content it is about to restore
    after,      \* per launcher: where it goes on after RestoreJournal
    loaded,     \* per starter of a game: the setting as its game has it, or None
    faults,
    known,      \* history: the edits a launcher found when it last read the target
    standing    \* history: the session's setting in the target is a launcher's doing

files  == <<target, journal, backup>>
locals == <<seen, original, restored, after>>
history == <<known, standing>>
vars   == <<merges, files, lock, pc, locals, loaded, faults, history>>

Settings == {"flat", "session", "user"}
Starters == Launchers \cup Outsiders
Contents == [setting : Settings, edits : 0 .. MaxEdits]
Journals == [owner : Launchers, original : Contents, overridden : Contents]

ASSUME NoneAssumption ==
    /\ None \notin Launchers /\ None \notin Journals /\ None \notin Settings
    /\ Launchers \cap Outsiders = {}

Authored == [setting |-> "flat", edits |-> 0]
Override(content) == [content EXCEPT !.setting = "session"]

Init ==
    /\ merges \in BOOLEAN
    /\ target = Authored /\ journal = None /\ backup = [p \in Launchers |-> None]
    /\ lock = None /\ pc = [p \in Launchers |-> "off"]
    /\ seen = [p \in Launchers |-> None]
    /\ original = [p \in Launchers |-> Authored]
    /\ restored = [p \in Launchers |-> Authored]
    /\ after = [p \in Launchers |-> "off"]
    /\ loaded = [g \in Starters |-> None] /\ faults = 0
    /\ known = 0 /\ standing = FALSE

Goto(p, label) == pc' = [pc EXCEPT ![p] = label]

Fault == faults < MaxFaults /\ faults' = faults + 1

\* Inspect: only the owner of a process that is gone may be proven dead.
Gone(p) == pc[p] \in {"done", "dead"}

\* A launcher writes the target, and leaves the session's setting in it or not.
WriteTarget(content) ==
    /\ target' = content
    /\ standing' = (/\ content.setting = "session"
                    /\ journal = None \/ journal.original.setting # "session")

\* The launcher refuses to go on: it closes the lock file and exits.
Refuse(p) ==
    /\ lock' = (IF lock = p THEN None ELSE lock) /\ Goto(p, "done")

-----------------------------------------------------------------------------
(* RecoverAbandonedTransactions, before anything else *)

Start(p) ==
    /\ pc[p] = "off" /\ Goto(p, "recover")
    /\ UNCHANGED <<merges, files, lock, locals, loaded, faults, history>>

RecoverRead(p) ==
    /\ pc[p] = "recover"
    /\ IF journal = None
       THEN Goto(p, "begin") /\ seen' = seen
       ELSE Goto(p, "recover lock") /\ seen' = [seen EXCEPT ![p] = journal.owner]
    /\ UNCHANGED <<merges, files, lock, original, restored, after, loaded, faults, history>>

\* TryAcquireLock.  Variant: the lock file may be shared.
MayLockShared == TRUE

MayLock == lock = None

RecoverLock(p) ==
    /\ pc[p] = "recover lock"
    /\ IF MayLock
       THEN lock' = p /\ Goto(p, "recover locked")
       ELSE Refuse(p)                                          \* still owned
    /\ UNCHANGED <<merges, files, locals, loaded, faults, history>>

\* The journal is read again under the lock and its owner inspected.
RecoverLocked(p) ==
    /\ pc[p] = "recover locked"
    /\ \/ /\ journal # None /\ journal.owner = seen[p] /\ Gone(journal.owner)
          /\ Goto(p, "restore read") /\ after' = [after EXCEPT ![p] = "recovered"]
          /\ lock' = lock
       \/ Refuse(p) /\ after' = after          \* changed, alive, or not proven dead
    /\ UNCHANGED <<merges, files, seen, original, restored, loaded, faults, history>>

Recovered(p) ==
    /\ pc[p] = "recovered"
    /\ lock' = None /\ Goto(p, "begin")
    /\ UNCHANGED <<merges, files, locals, loaded, faults, history>>

-----------------------------------------------------------------------------
(* Begin *)

\* EnsureGameIsNotAlreadyRunning, once; a game may start right after it.  The
\* commands that override nothing end here.
BeginCheck(p) ==
    /\ pc[p] = "begin"
    /\ \/ (\A g \in Starters : loaded[g] = None) /\ Goto(p, "lock")
       \/ Goto(p, "done")
    /\ UNCHANGED <<merges, files, lock, locals, loaded, faults, history>>

BeginLock(p) ==
    /\ pc[p] = "lock"
    /\ IF MayLock THEN lock' = p /\ Goto(p, "resolve") ELSE Refuse(p)
    /\ UNCHANGED <<merges, files, locals, loaded, faults, history>>

\* ResolveExistingJournalBeforeBegin
BeginResolve(p) ==
    /\ pc[p] = "resolve"
    /\ \/ journal = None /\ Goto(p, "read") /\ UNCHANGED <<lock, after>>
       \/ /\ journal # None /\ Gone(journal.owner)
          /\ Goto(p, "restore read") /\ after' = [after EXCEPT ![p] = "read"]
          /\ lock' = lock
       \/ journal # None /\ Refuse(p) /\ after' = after
    /\ UNCHANGED <<merges, files, seen, original, restored, loaded, faults, history>>

\* A content that is not understood is refused.
BeginRead(p) ==
    /\ pc[p] = "read"
    /\ \/ /\ original' = [original EXCEPT ![p] = target]
          /\ Goto(p, "backup") /\ UNCHANGED <<lock, faults>>
       \/ Fault /\ Refuse(p) /\ original' = original
    /\ known' = target.edits
    /\ UNCHANGED <<merges, files, seen, restored, after, loaded, standing>>

BeginBackup(p) ==
    /\ pc[p] = "backup"
    /\ \/ /\ backup' = [backup EXCEPT ![p] = original[p]]
          /\ Goto(p, "journal") /\ UNCHANGED <<lock, faults>>
       \/ Fault /\ Refuse(p) /\ backup' = backup
    /\ UNCHANGED <<merges, target, journal, locals, loaded, history>>

\* Variant: the journal does not reach the disk.
JournalOfNothing(p) == None

NewJournal(p) ==
    [owner |-> p, original |-> original[p], overridden |-> Override(original[p])]

BeginJournal(p) ==
    /\ pc[p] = "journal"
    /\ \/ /\ journal' = NewJournal(p) /\ backup' = backup
          /\ Goto(p, "override") /\ UNCHANGED <<lock, faults>>
       \/ /\ Fault /\ Refuse(p) /\ journal' = journal
          /\ backup' = [backup EXCEPT ![p] = None]
    /\ UNCHANGED <<merges, target, locals, loaded, history>>

\* A target that cannot be written is rolled back.
BeginOverride(p) ==
    /\ pc[p] = "override"
    /\ \/ /\ WriteTarget(Override(original[p])) /\ Goto(p, "session")
          /\ UNCHANGED <<after, faults>>
       \/ /\ Fault /\ UNCHANGED <<target, standing>>
          /\ Goto(p, "restore read") /\ after' = [after EXCEPT ![p] = "rolled back"]
    /\ UNCHANGED <<merges, journal, backup, lock, seen, original, restored, loaded, known>>

-----------------------------------------------------------------------------
(* The session *)

StartGame(p) ==
    /\ pc[p] = "session"
    /\ \/ loaded' = [loaded EXCEPT ![p] = target.setting] /\ Goto(p, "playing")
       \/ Goto(p, "restore") /\ UNCHANGED loaded       \* host or injection failed
    /\ UNCHANGED <<merges, files, lock, locals, faults, history>>

\* A game without a session: the check and the start of another command, or the
\* user, at any time.
StartOutside(g) ==
    /\ g \in Outsiders /\ loaded[g] = None
    /\ loaded' = [loaded EXCEPT ![g] = target.setting]
    /\ UNCHANGED <<merges, files, lock, pc, locals, faults, history>>

Edit(setting) ==
    /\ target.edits < MaxEdits
    /\ target' = [setting |-> setting, edits |-> target.edits + 1]
    /\ standing' = (standing /\ setting = "session")
    /\ UNCHANGED <<merges, journal, backup, lock, pc, locals, faults, known>>

\* The game and ReShade rewrite their files, with the settings they hold.
GameWrites(g) ==
    /\ loaded[g] # None
    /\ \E setting \in {loaded[g], "user"} :
           Edit(setting) /\ loaded' = [loaded EXCEPT ![g] = setting]

\* The user edits the file, its setting or something else.
UserWrites ==
    /\ \E setting \in {target.setting, "user"} : Edit(setting)
    /\ UNCHANGED loaded

GameExits(g) ==
    /\ loaded[g] # None /\ loaded' = [loaded EXCEPT ![g] = None]
    /\ pc' = [p \in Launchers |->
                 IF p = g /\ pc[p] = "playing" THEN "restore" ELSE pc[p]]
    /\ UNCHANGED <<merges, files, lock, locals, faults, history>>

\* Restore, and Restore again from Dispose when it threw: the journal has to
\* be the session's own.
SessionRestore(p) ==
    /\ pc[p] \in {"restore", "dispose"}
    /\ IF journal # None /\ journal.owner = p
       THEN /\ Goto(p, "restore read") /\ lock' = lock
            /\ after' = [after EXCEPT ![p] = IF pc[p] = "restore" THEN "restored" ELSE "disposed"]
       ELSE Refuse(p) /\ after' = after
    /\ UNCHANGED <<merges, files, seen, original, restored, loaded, faults, history>>

\* ReleaseOwnership, and the launcher exits.
Finish(p) ==
    /\ pc[p] \in {"restored", "disposed", "rolled back"} /\ Refuse(p)
    /\ UNCHANGED <<merges, files, locals, loaded, faults, history>>

-----------------------------------------------------------------------------
(* RestoreJournal, as a subroutine *)

\* It throws: a recovery and a Begin give up, Restore is tried again by Dispose.
Throw(p) ==
    IF after[p] = "restored" THEN Goto(p, "dispose") /\ lock' = lock ELSE Refuse(p)

Edited == target \notin {journal.original, journal.overridden}

\* The content to put back.  An INI whose content changed keeps its edits.
\* Variants: the whole backup is put back, or that of the launcher's own
\* session instead of the journal's.
WholeBackup(p) == journal.original

OwnBackup(p) == backup[p]

RestoredContent(p) ==
    IF Edited
    THEN [target EXCEPT !.setting = IF @ = "session" THEN journal.original.setting ELSE @]
    ELSE journal.original

\* Variant: an edited file is left alone and taken for restored.
MustWriteUnedited == target = journal.overridden

MustWrite == target # journal.original

RestoreRead(p) ==
    /\ pc[p] = "restore read"
    /\ IF backup[journal.owner] # journal.original \/ (Edited /\ ~merges)
       THEN Throw(p) /\ restored' = restored       \* conflict: a copy is kept aside
       ELSE /\ restored' = [restored EXCEPT ![p] = RestoredContent(p)]
            /\ Goto(p, IF MustWrite THEN "restore write" ELSE "restore delete")
            /\ lock' = lock
    /\ known' = target.edits
    /\ UNCHANGED <<merges, files, seen, original, after, loaded, faults, standing>>

RestoreWrite(p) ==
    /\ pc[p] = "restore write"
    /\ \/ WriteTarget(restored[p]) /\ Goto(p, "restore delete") /\ UNCHANGED <<lock, faults>>
       \/ Fault /\ Throw(p) /\ UNCHANGED <<target, standing>>
    /\ UNCHANGED <<merges, journal, backup, locals, loaded, known>>

RestoreDelete(p) ==
    /\ pc[p] = "restore delete"
    /\ \/ /\ seen' = [seen EXCEPT ![p] = journal.owner]
          /\ journal' = None /\ Goto(p, "restore clean") /\ UNCHANGED <<lock, faults>>
       \/ Fault /\ Throw(p) /\ UNCHANGED <<journal, seen>>
    /\ UNCHANGED <<merges, target, backup, original, restored, after, loaded, history>>

\* TryDelete of the backup: a failure is ignored.
RestoreClean(p) ==
    /\ pc[p] = "restore clean" /\ Goto(p, after[p])
    /\ \/ backup' = [backup EXCEPT ![seen[p]] = None] /\ faults' = faults
       \/ backup' = backup /\ Fault
    /\ UNCHANGED <<merges, target, journal, lock, locals, loaded, history>>

-----------------------------------------------------------------------------
\* The launcher is killed; the system closes its lock file, and its game lives on.
Crash(p) ==
    /\ pc[p] # "off" /\ ~Gone(p) /\ Fault
    /\ Goto(p, "dead") /\ lock' = (IF lock = p THEN None ELSE lock)
    /\ UNCHANGED <<merges, files, locals, loaded, history>>

Recover(p) == RecoverRead(p) \/ RecoverLock(p) \/ RecoverLocked(p) \/ Recovered(p)
Begin(p) ==
    \/ BeginCheck(p) \/ BeginLock(p) \/ BeginResolve(p) \/ BeginRead(p)
    \/ BeginBackup(p) \/ BeginJournal(p) \/ BeginOverride(p)
Restore(p) == RestoreRead(p) \/ RestoreWrite(p) \/ RestoreDelete(p) \/ RestoreClean(p)

Launcher(p) ==
    \/ Start(p) \/ Recover(p) \/ Begin(p) \/ StartGame(p)
    \/ SessionRestore(p) \/ Restore(p) \/ Finish(p) \/ Crash(p)

Next ==
    \/ \E p \in Launchers : Launcher(p)
    \/ \E g \in Starters : StartOutside(g) \/ GameWrites(g) \/ GameExits(g)
    \/ UserWrites

Spec == Init /\ [][Next]_vars

\* What a launcher that is not running has read is gone with its process.
OfRunning(f) ==
    [p \in Launchers |-> IF pc[p] \in {"off", "done", "dead"} THEN None ELSE f[p]]

View == <<merges, files, lock, pc, OfRunning(seen), OfRunning(original),
          OfRunning(restored), OfRunning(after), loaded, faults, history>>

\* The launchers are interchangeable.
LauncherSymmetry == Permutations(Launchers)

-----------------------------------------------------------------------------
(* Properties *)

Labels ==
    {"off", "recover", "recover lock", "recover locked", "recovered", "begin", "lock",
     "resolve", "read", "backup", "journal", "override", "session", "playing", "restore",
     "dispose", "restored", "disposed", "rolled back", "restore read", "restore write",
     "restore delete", "restore clean", "done", "dead"}

\* Every variable keeps its type.
TypeOK ==
    /\ merges \in BOOLEAN /\ target \in Contents /\ journal \in Journals \cup {None}
    /\ backup \in [Launchers -> Contents \cup {None}] /\ lock \in Launchers \cup {None}
    /\ pc \in [Launchers -> Labels] /\ seen \in [Launchers -> Launchers \cup {None}]
    /\ original \in [Launchers -> Contents] /\ restored \in [Launchers -> Contents]
    /\ after \in [Launchers -> Labels]
    /\ loaded \in [Starters -> Settings \cup {None}] /\ faults \in 0 .. MaxFaults
    /\ known \in 0 .. MaxEdits /\ standing \in BOOLEAN

\* Whatever crashes or fails, in whatever step, and whoever edits the file
\* meanwhile: a journal has its backup, and a file that a launcher has left with
\* the session's setting has a journal.
OverrideIsUndoable ==
    /\ journal # None => backup[journal.owner] = journal.original
    /\ standing => journal # None

\* A running session owns the journal and the lock of its target: no other
\* launcher recovers it, or begins a second session on top of it.
SessionOwnsTarget ==
    \A p \in Launchers :
        pc[p] \in {"session", "playing"} =>
            lock = p /\ journal # None /\ journal.owner = p

\* What game and user wrote before a launcher read the file is never taken back:
\* no override and no restore, also not one that is repeated after a failure or a
\* crash, puts the file behind the edits that the launcher has seen.  What it can
\* take back are the edits between its read and its write.
EditsSurvive == target.edits >= known

\* "Completed monitor MSAA session restore (preserving game/user edits)": the
\* restore of an INI loses no edit at all, also none that falls between its read
\* and its write.
RestorePreservesEdits ==
    [][merges /\ (\E p \in Launchers : RestoreWrite(p)) => target'.edits >= target.edits]_vars

\* A journal goes only once a launcher has undone its override, exactly if nobody
\* edited the file meanwhile.
UndoneBeforeForgotten ==
    [][journal # None /\ journal' = None =>
         /\ ~standing
         /\ target.edits = journal.original.edits => target = journal.original]_vars

\* "The previous AA setting returns on exit unless changed during the session":
\* without a game, a session or a journal the file has no session setting.
SettingReturns ==
    (\A g \in Starters : loaded[g] = None) /\ journal = None =>
        target.setting # "session"

=============================================================================
