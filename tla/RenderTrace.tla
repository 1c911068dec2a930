----------------------------- MODULE RenderTrace -----------------------------
(***************************************************************************)
(* The engine hooks of the game process and their bounded trace            *)
(* (game32/render_trace.cpp): the bootstrap that patches virtual table     *)
(* cells, the wrappers the render threads then run through, the            *)
(* multi-producer ring they write into, the thread that writes the ring to *)
(* a file, and the thread that takes everything down again, on request or  *)
(* after ten minutes.                                                      *)
(*                                                                         *)
(* A wrapper is entered through a pointer read from the cell, so a thread  *)
(* may fetch the pointer and run the wrapper after the cell was restored.  *)
(* A foreign mod may patch the same cells at any moment.                   *)
(***************************************************************************)
EXTENDS Naturals, Integers, Sequences, FiniteSets

CONSTANTS
    RenderThreads,  \* engine threads that call the hooked methods
    HookCount,      \* virtual table cells that are patched
    RingSize,       \* slots of the trace ring (kRingCapacity)
    MaxDepth,       \* bound: nested wrapper calls of a thread
    MaxCalls,       \* bound: wrapper calls in all
    MaxTraceFaults  \* bound: failing system calls

\* With one slot the sequence of a filled slot would be that of the free one a
\* lap later; kRingCapacity is a larger power of two.
ASSUME TraceAssumption ==
    /\ HookCount \in Nat \ {0} /\ RingSize \in Nat /\ RingSize > 1
    /\ MaxDepth \in Nat /\ MaxCalls \in Nat /\ MaxTraceFaults \in Nat

VARIABLES
    trace,       \* g_trace_state
    boot,        \* where the one bootstrap that claimed the trace is
    stopper,     \* where TimeoutAndStopThread is
    todo,        \* hooks still to be patched by whoever patches now
    decided,     \* MutateCell has looked at the cell and is about to exchange
    undone,      \* RestoreInstalledHooks: every hook so far came off
    cells,       \* what each virtual table cell holds
    installed,   \* candidate.installed
    originals,   \* g_original_* are set
    accepting,   \* g_accepting_records
    doublePass,  \* g_double_pass_enabled
    extraClaim,  \* g_double_pass_claimed
    active,      \* g_active_wrappers
    ring,        \* the slots: sequence number and record
    enqueue,     \* g_enqueue_position
    dequeue,     \* g_dequeue_position
    claims,      \* history: the records in the order their slots were claimed
    file,        \* the records the writer thread has taken out of the ring
    writer,      \* where WriterThread is
    writerStop,  \* g_writer_stop_event
    stopRequest, \* g_stop_request_event
    at,          \* where each render thread is inside the wrapper
    mark,        \* what the thread's record is about
    stack,       \* the thread's open scopes: is each recorded?
    place,       \* the ring position the thread has claimed
    calls,       \* wrapper calls so far
    traceFaults  \* failing system calls so far

control  == <<trace, boot, stopper, stopRequest>>
patching == <<todo, decided, undone, cells, installed, originals>>
flags    == <<accepting, doublePass, extraClaim>>
queue    == <<ring, enqueue, dequeue, claims, file>>
writing  == <<writer, writerStop>>
threads  == <<active, at, mark, stack, place, calls>>
traceVars == <<control, patching, flags, queue, writing, threads, traceFaults>>

Hooks == 1..HookCount
NoRecord == <<>>
EmptyRing == [p \in 0..RingSize - 1 |-> [seq |-> p, record |-> NoRecord]]

TraceInit ==
    /\ trace = "Idle" /\ boot = "none" /\ stopper = "none" /\ stopRequest = FALSE
    /\ todo = {} /\ decided = FALSE /\ undone = TRUE
    /\ cells = [h \in Hooks |-> "original"]
    /\ installed = [h \in Hooks |-> FALSE] /\ originals = FALSE
    /\ accepting = FALSE /\ doublePass = FALSE /\ extraClaim = FALSE
    /\ ring = EmptyRing /\ enqueue = 0 /\ dequeue = 0 /\ claims = <<>> /\ file = <<>>
    /\ writer = "none" /\ writerStop = FALSE
    /\ active = 0 /\ calls = 0 /\ traceFaults = 0
    /\ at = [t \in RenderThreads |-> "engine"]
    /\ mark = [t \in RenderThreads |-> "entry"]
    /\ stack = [t \in RenderThreads |-> <<>>]
    /\ place = [t \in RenderThreads |-> 0]

TraceFault == traceFaults < MaxTraceFaults /\ traceFaults' = traceFaults + 1
TraceFine  == UNCHANGED traceFaults

-----------------------------------------------------------------------------
(* One cell: MutateCell reads it, decides, and exchanges.                  *)

\* The order the cells are patched in is the array's; the way back reverses it.
NextToInstall == CHOOSE h \in todo : \A g \in todo : h <= g
NextToRestore == CHOOSE h \in todo : \A g \in todo : h >= g

\* The exchange is a compare-and-swap.
Exchange(h, expected, value) ==
    cells' = [cells EXCEPT ![h] = IF @ = expected THEN value ELSE @]

\* The hook counts as installed once the exchange took place, even when the
\* page protection does not come back.
InstalledIfExchanged(h) ==
    installed' = [installed EXCEPT ![h] = cells[h] = "original"]

\* Install: the cell is read, and refused unless it holds the original.
DecideInstall ==
    /\ boot = "install" /\ todo # {} /\ ~decided
    /\ cells[NextToInstall] = "original" /\ TraceFine
    /\ decided' = TRUE
    /\ UNCHANGED <<control, todo, undone, cells, installed, originals,
                   flags, queue, writing, threads>>

ExchangeInstall ==
    LET h == NextToInstall
    IN  /\ boot = "install" /\ todo # {} /\ decided
        /\ decided' = FALSE
        /\ Exchange(h, "original", "wrapper")
        /\ \E protectionBack \in BOOLEAN :
             /\ IF protectionBack THEN TraceFine ELSE TraceFault
             /\ InstalledIfExchanged(h)
             /\ IF cells[h] = "original" /\ protectionBack
                THEN todo' = todo \ {h} /\ UNCHANGED boot
                ELSE todo' = {} /\ boot' = "cleanup"
        /\ UNCHANGED <<trace, stopper, stopRequest, undone, originals,
                       flags, queue, writing, threads>>

\* The cell cannot be read or unprotected, or somebody else owns it.
InstallFails ==
    /\ boot = "install" /\ todo # {}
    /\ \/ ~decided /\ cells[NextToInstall] # "original" /\ TraceFine
       \/ TraceFault
    /\ boot' = "cleanup" /\ todo' = {} /\ decided' = FALSE
    /\ UNCHANGED <<trace, stopper, stopRequest, undone, cells, installed,
                   originals, flags, queue, writing, threads>>

\* Restore: a cell that no longer holds the wrapper is left to its owner.
Restoring == boot = "restore" \/ stopper = "restore"

DecideRestore ==
    LET h == NextToRestore
    IN  /\ Restoring /\ todo # {} /\ ~decided
        /\ IF cells[h] = "wrapper"
           THEN decided' = TRUE /\ UNCHANGED <<todo, installed>>
           ELSE /\ UNCHANGED decided
                /\ todo' = todo \ {h}
                /\ installed' = [installed EXCEPT ![h] = FALSE]
        /\ TraceFine
        /\ UNCHANGED <<control, undone, cells, originals,
                       flags, queue, writing, threads>>

ExchangeRestore ==
    LET h == NextToRestore
    IN  /\ Restoring /\ todo # {} /\ decided
        /\ decided' = FALSE /\ todo' = todo \ {h}
        /\ Exchange(h, "wrapper", "original")
        /\ installed' = [installed EXCEPT ![h] = @ /\ cells[h] # "wrapper"]
        /\ \E protectionBack \in BOOLEAN :
             /\ IF protectionBack THEN TraceFine ELSE TraceFault
             /\ undone' = (undone /\ cells[h] = "wrapper" /\ protectionBack)
        /\ UNCHANGED <<control, originals, flags, queue, writing, threads>>

\* The cell could not be read or unprotected: the wrapper stays.
RestoreFails ==
    /\ Restoring /\ todo # {} /\ TraceFault
    /\ todo' = todo \ {NextToRestore} /\ decided' = FALSE /\ undone' = FALSE
    /\ UNCHANGED <<control, cells, installed, originals,
                   flags, queue, writing, threads>>

\* Another mod patches a cell and chains to whatever it found there: over the
\* wrapper, the engine still comes through it, for good.
ForeignPatch(h) ==
    /\ cells[h] \in {"original", "wrapper"}
    /\ TraceFault
    /\ cells' = [cells EXCEPT ![h] = IF @ = "wrapper" THEN "chained" ELSE "foreign"]
    /\ UNCHANGED <<control, todo, decided, undone, installed, originals,
                   flags, queue, writing, threads>>

-----------------------------------------------------------------------------
(* BootstrapRenderTrace.                                                   *)

\* The compare-and-swap from Idle elects one caller; it takes its flag along.
ClaimTrace(double) ==
    /\ trace = "Idle"
    /\ trace' = "Installing" /\ boot' = "prepare" /\ doublePass' = double
    /\ UNCHANGED <<stopper, stopRequest, patching, accepting, extraClaim,
                   queue, writing, threads, traceFaults>>

\* A caller that is refused has still written its flag, except when it finds
\* the trace active.  Later states refuse too, but the flag is dead by then:
\* records are no longer accepted.
RefusedBootstrap(double) ==
    /\ trace = "Installing"
    /\ doublePass' = double
    /\ UNCHANGED <<control, patching, accepting, extraClaim, queue, writing,
                   threads, traceFaults>>

\* The log, the module pin, the executable's hash, the three candidates and the
\* trace file: any of them may fail, and nothing has been touched yet.
\* ValidateCandidates: nobody has patched one of the cells yet.
ValidCandidates == \A h \in Hooks : cells[h] = "original"

PrepareFails ==
    /\ boot = "prepare"
    /\ \/ TraceFine /\ ~ValidCandidates
       \/ TraceFault
    /\ trace' = "Failed" /\ boot' = "done"
    /\ UNCHANGED <<stopper, stopRequest, patching, flags, queue, writing, threads>>

Prepare ==
    /\ boot = "prepare" /\ ValidCandidates
    /\ boot' = "writer"
    /\ UNCHANGED <<trace, stopper, stopRequest, patching, flags, queue, writing,
                   threads, traceFaults>>

\* InitializeQueue and the writer thread, which may be created and only be too
\* slow to say that it is ready.
StartWriter ==
    /\ boot = "writer"
    /\ ring' = EmptyRing /\ enqueue' = 0 /\ dequeue' = 0
    /\ extraClaim' = FALSE
    /\ \/ TraceFine /\ writer' = "drain" /\ boot' = "originals"
       \/ TraceFault /\ writer' \in {"none", "drain", "done"} /\ boot' = "cleanup"
    /\ UNCHANGED <<trace, stopper, stopRequest, patching, accepting, doublePass,
                   claims, file, writerStop, threads>>

\* The originals are known before the first cell changes.
SetOriginals ==
    /\ boot = "originals"
    /\ originals' = TRUE /\ accepting' = TRUE
    /\ boot' = "install" /\ todo' = Hooks
    /\ UNCHANGED <<trace, stopper, stopRequest, decided, undone, cells, installed,
                   doublePass, extraClaim, queue, writing, threads, traceFaults>>

Activate ==
    /\ boot = "install" /\ todo = {}
    /\ \/ /\ TraceFine
          /\ stopper' = "wait" /\ trace' = "Active" /\ boot' = "report"
       \/ /\ TraceFault
          /\ boot' = "cleanup" /\ UNCHANGED <<trace, stopper>>
    /\ UNCHANGED <<stopRequest, patching, flags, queue, writing, threads>>

\* The last log line: without it the trace is taken down again.
Report ==
    /\ boot = "report"
    /\ \/ TraceFine /\ boot' = "done" /\ UNCHANGED stopRequest
       \/ TraceFault /\ boot' = "awaitStop" /\ stopRequest' = TRUE
    /\ UNCHANGED <<trace, stopper, patching, flags, queue, writing, threads>>

ReportFailed ==
    /\ boot = "awaitStop" /\ stopper = "done"
    /\ trace' = "Failed" /\ boot' = "done"
    /\ UNCHANGED <<stopper, stopRequest, patching, flags, queue, writing, threads,
                   traceFaults>>

\* StopWriterAfterFailedInstall: the installed hooks come off, the wrappers in
\* flight get three seconds, the writer is told to stop either way.
Cleanup ==
    /\ boot = "cleanup"
    /\ accepting' = FALSE
    /\ todo' = {h \in Hooks : installed[h]} /\ undone' = TRUE
    /\ boot' = "restore"
    /\ UNCHANGED <<trace, stopper, stopRequest, decided, cells, installed, originals,
                   doublePass, extraClaim, queue, writing, threads, traceFaults>>

CleanupEnds ==
    /\ boot = "restore" /\ todo = {}
    /\ IF active = 0 THEN TraceFine ELSE TraceFault
    /\ writerStop' = TRUE
    /\ trace' = "Failed" /\ boot' = "done"
    /\ UNCHANGED <<stopper, stopRequest, patching, flags, queue, writer, threads>>

-----------------------------------------------------------------------------
(* StopRenderTrace and TimeoutAndStopThread.                               *)

StopRenderTrace ==
    /\ trace \in {"Active", "Stopping"} /\ ~stopRequest
    /\ stopRequest' = TRUE
    /\ UNCHANGED <<trace, boot, stopper, patching, flags, queue, writing, threads,
                   traceFaults>>

\* Ten minutes are over.  With persistent camera hooks only the file is bounded.
TraceExpires ==
    /\ stopper = "wait" /\ trace = "Active" /\ boot = "done"
    /\ accepting' = FALSE
    /\ stopper' = "hooksStay"
    /\ UNCHANGED <<trace, boot, stopRequest, patching, doublePass, extraClaim, queue,
                   writing, threads, traceFaults>>

BeginStop ==
    /\ \/ stopper \in {"wait", "hooksStay"} /\ stopRequest
       \/ stopper = "wait" /\ trace = "Active" /\ boot = "done"
    /\ trace' = "Stopping" /\ accepting' = FALSE
    /\ stopper' = "restore"
    /\ todo' = {h \in Hooks : installed[h]} /\ undone' = TRUE
    /\ UNCHANGED <<boot, stopRequest, decided, cells, installed, originals,
                   doublePass, extraClaim, queue, writing, threads, traceFaults>>

\* The writer is released only when no wrapper is left inside.  Variant: as soon
\* as the cells are restored.
QuietAtOnce == undone
QuietWhenEmpty == undone /\ active = 0

WrappersGone ==
    /\ stopper = "restore" /\ todo = {}
    /\ QuietWhenEmpty
    /\ writerStop' = TRUE /\ stopper' = "join"
    /\ UNCHANGED <<trace, boot, stopRequest, patching, flags, queue, writer, threads,
                   traceFaults>>

\* A hook would not come off, a wrapper did not return within 30 seconds, or the
\* writer did not end within five.
StopTimesOut ==
    /\ \/ stopper = "restore" /\ todo = {} /\ ~undone /\ TraceFine
       \/ stopper = "restore" /\ todo = {} /\ active # 0 /\ TraceFault
       \/ stopper = "join" /\ writer # "done" /\ TraceFault
    /\ stopper' = "done" /\ trace' = "Failed"
    /\ UNCHANGED <<boot, stopRequest, patching, flags, queue, writing, threads>>

StopCompletes ==
    /\ stopper = "join" /\ writer = "done"
    /\ stopper' = "done" /\ trace' = "Stopped"
    /\ UNCHANGED <<boot, stopRequest, patching, flags, queue, writing, threads,
                   traceFaults>>

-----------------------------------------------------------------------------
(* A wrapper on a render thread: TraceScope around the original method.    *)

\* The engine reads the cell and jumps to the wrapper, or to a mod's that chains to it.
Fetch(t) ==
    /\ at[t] = "engine" /\ Len(stack[t]) < MaxDepth /\ calls < MaxCalls
    /\ \E h \in Hooks : cells[h] \in {"wrapper", "chained"}
    /\ calls' = calls + 1
    /\ at' = [at EXCEPT ![t] = "jumping"]
    /\ UNCHANGED <<control, patching, flags, queue, writing, active, mark, stack,
                   place, traceFaults>>

\* A thread is counted before it looks whether records are accepted.
Count(t) ==
    /\ at[t] = "jumping"
    /\ active' = active + 1
    /\ at' = [at EXCEPT ![t] = "counted"]
    /\ UNCHANGED <<control, patching, flags, queue, writing, mark, stack, place, calls,
                   traceFaults>>

\* recorded: while records are accepted, or inside a scope that is recorded.
Look(t) ==
    LET recorded == accepting \/ \E i \in DOMAIN stack[t] : stack[t][i]
    IN  /\ at[t] = "counted"
        /\ stack' = [stack EXCEPT ![t] = Append(@, recorded)]
        /\ mark' = [mark EXCEPT ![t] = "entry"]
        /\ at' = [at EXCEPT ![t] = IF recorded THEN "claim" ELSE "engine"]
        /\ UNCHANGED <<control, patching, flags, queue, writing, active, place, calls,
                       traceFaults>>

\* The single-pass wrapper on an F8 edge: one extra pass in a session.  Its three
\* events (attempt, begin, end) are one record here.
ExtraPass(t) ==
    /\ at[t] = "engine" /\ stack[t] # <<>>
    /\ doublePass /\ accepting /\ ~extraClaim
    /\ extraClaim' = TRUE
    /\ mark' = [mark EXCEPT ![t] = "extra"]
    /\ at' = [at EXCEPT ![t] = "claim"]
    /\ UNCHANGED <<control, patching, accepting, doublePass, queue, writing, active,
                   stack, place, calls, traceFaults>>

\* The scope closes: the thread is no longer counted and runs the engine again.
CloseScope(t) ==
    /\ stack' = [stack EXCEPT ![t] = SubSeq(@, 1, Len(@) - 1)]
    /\ active' = active - 1
    /\ at' = [at EXCEPT ![t] = "engine"]
    /\ mark' = [mark EXCEPT ![t] = "entry"]

\* The original method returns to the wrapper; a recorded scope records that.
Return(t) ==
    /\ at[t] = "engine" /\ stack[t] # <<>>
    /\ IF stack[t][Len(stack[t])]
       THEN /\ at' = [at EXCEPT ![t] = "claim"] /\ mark' = [mark EXCEPT ![t] = "exit"]
            /\ UNCHANGED <<active, stack>>
       ELSE CloseScope(t)
    /\ UNCHANGED <<control, patching, flags, queue, writing, place, calls, traceFaults>>

-----------------------------------------------------------------------------
(* The ring: EnqueueRecord and DequeueRecord.                              *)

RingSlot(position) == position % RingSize

\* The slot is free for this position.
RingFree(position) ==
    ring[RingSlot(position)].seq = position

\* After its record an entry or an extra pass is in the engine, an exit is over.
AfterRecord(t) ==
    IF mark[t] = "exit" THEN CloseScope(t)
    ELSE /\ at' = [at EXCEPT ![t] = "engine"]
         /\ mark' = [mark EXCEPT ![t] = "entry"]
         /\ UNCHANGED <<active, stack>>

\* The compare-and-swap on the enqueue position gives the slot to one thread.
ClaimSlot(t) ==
    /\ at[t] = "claim" /\ RingFree(enqueue)
    /\ place' = [place EXCEPT ![t] = enqueue]
    /\ enqueue' = enqueue + 1
    /\ claims' = Append(claims, <<t, mark[t], Len(stack[t])>>)
    /\ at' = [at EXCEPT ![t] = "fill"]
    /\ UNCHANGED <<control, patching, flags, ring, dequeue, file, writing, active, mark,
                   stack, calls, traceFaults>>

\* The ring is full, or eight attempts met another thread's claim.
DropRecord(t) ==
    /\ at[t] = "claim"
    /\ \/ ring[RingSlot(enqueue)].seq < enqueue
       \/ \E u \in RenderThreads \ {t} : at[u] = "fill"
    /\ AfterRecord(t)
    /\ UNCHANGED <<control, patching, flags, queue, writing, place, calls, traceFaults>>

\* The record, the barrier, and the sequence that hands it to the writer.
FillSlot(t) ==
    /\ at[t] = "fill"
    /\ ring' = [ring EXCEPT ![RingSlot(place[t])] =
                  [seq |-> place[t] + 1, record |-> <<t, mark[t], Len(stack[t])>>]]
    /\ place' = [place EXCEPT ![t] = 0]
    /\ AfterRecord(t)
    /\ UNCHANGED <<control, patching, flags, enqueue, dequeue, claims, file, writing,
                   calls, traceFaults>>

\* The slot's own sequence says that its record is there: the enqueue position
\* passes it while its producer is still writing.
Filled == ring[RingSlot(dequeue)].seq = dequeue + 1

WriteRecord(record) == file' = Append(file, record)

\* The slot is handed to the producers' next lap.
Dequeue ==
    /\ WriteRecord(ring[RingSlot(dequeue)].record)
    /\ ring' = [ring EXCEPT ![RingSlot(dequeue)].seq = dequeue + RingSize]
    /\ dequeue' = dequeue + 1
    /\ UNCHANGED <<enqueue, claims>>

\* WriterThread drains the ring; when it finds the stop event set it looks once
\* more before it ends.
WriterStep ==
    /\ \/ writer \in {"drain", "last"} /\ Filled /\ Dequeue /\ writer' = "drain"
       \/ writer = "drain" /\ ~Filled /\ writerStop /\ writer' = "last" /\ UNCHANGED queue
       \/ writer = "last" /\ ~Filled /\ writer' = "done" /\ UNCHANGED queue
    /\ UNCHANGED <<control, patching, flags, writerStop, threads, traceFaults>>

-----------------------------------------------------------------------------

TraceNext ==
    \/ \E double \in BOOLEAN : ClaimTrace(double) \/ RefusedBootstrap(double)
    \/ Prepare \/ PrepareFails \/ StartWriter \/ SetOriginals
    \/ DecideInstall \/ ExchangeInstall \/ InstallFails
    \/ Activate \/ Report \/ ReportFailed \/ Cleanup \/ CleanupEnds
    \/ StopRenderTrace \/ TraceExpires \/ BeginStop
    \/ DecideRestore \/ ExchangeRestore \/ RestoreFails
    \/ WrappersGone \/ StopTimesOut \/ StopCompletes
    \/ \E h \in Hooks : ForeignPatch(h)
    \/ \E t \in RenderThreads :
         \/ Fetch(t) \/ Count(t) \/ Look(t) \/ ExtraPass(t) \/ Return(t)
         \/ ClaimSlot(t) \/ DropRecord(t) \/ FillSlot(t)
    \/ WriterStep

TraceSpec == TraceInit /\ [][TraceNext]_traceVars

-----------------------------------------------------------------------------

TraceTypeOK ==
    /\ trace \in {"Idle", "Installing", "Active", "Stopping", "Stopped", "Failed"}
    /\ cells \in [Hooks -> {"original", "wrapper", "chained", "foreign"}]
    /\ installed \in [Hooks -> BOOLEAN] /\ todo \subseteq Hooks
    /\ active \in Nat /\ enqueue \in Nat /\ dequeue \in Nat
    /\ at \in [RenderThreads -> {"engine", "jumping", "counted", "claim",
                                 "fill"}]
    /\ \A t \in RenderThreads : stack[t] \in Seq(BOOLEAN)

\* Records leave the ring whole and in the order their slots were claimed,
\* whatever the producers' interleaving and however often the ring wraps
\* (EnqueueRecord, DequeueRecord).
RecordsArriveWhole ==
    /\ Len(file) <= Len(claims)
    /\ \A i \in DOMAIN file : file[i] = claims[i]

\* A trace that reports itself stopped has every claimed record in its file: no
\* wrapper can still be inside when the writer ends (TimeoutAndStopThread's wait
\* for g_active_wrappers against TraceScope's order).
StoppedTraceIsComplete ==
    trace = "Stopped" => Len(file) = Len(claims)

\* A thread inside a wrapper can always call the original method.
WrapperHasOriginal ==
    \A t \in RenderThreads : at[t] # "engine" \/ stack[t] # <<>> => originals

\* An installation that fails leaves no cell on a wrapper, as long as taking the
\* hooks off succeeds; and a stopped trace has left every cell.
HooksComeOff ==
    /\ (boot = "done" /\ trace = "Failed" /\ stopper = "none" /\ undone)
          => \A h \in Hooks : cells[h] # "wrapper"
    /\ trace = "Stopped" => \A h \in Hooks : cells[h] # "wrapper"
=============================================================================
