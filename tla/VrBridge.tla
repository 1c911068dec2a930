------------------------------- MODULE VrBridge -------------------------------
(***************************************************************************)
(* The bridge of game32/vr_bridge.cpp, inside the game: a worker thread    *)
(* polls the host's render requests and hands the newest one to the render *)
(* thread through a local seqlock, and remote threads of the injector call *)
(* K2VR_VrBridgeBootstrap and K2VR_VrBridgeStop.                           *)
(*                                                                         *)
(* A render request is its frame id, which BuildRenderRequest also makes   *)
(* its header sequence; 0 is the invalid snapshot.  The read of the shared *)
(* region is one step, as SharedMemoryChannel shows it may be.  The event  *)
(* and thread handles, the channel and the log are one resource: they are  *)
(* created and closed together.  Health messages are left out; only the    *)
(* first one's outcome decides anything.                                   *)
(***************************************************************************)
EXTENDS Integers, FiniteSets, TLC

CONSTANTS
    Callers,        \* threads that call Bootstrap or Stop
    Worker, Render, \* BridgeWorker and the game's render thread
    RequestWords,   \* words of a snapshot
    RequestModulus, \* numbers of the sequence, 2^32 in the code
    ReadAttempts,   \* attempts of TryRead, 64 in the code
    MaxFrame,       \* bound on the host's frame ids
    MaxCalls        \* bound on the calls of Bootstrap and Stop

ASSUME ThreadsAssumption ==
    Worker \notin Callers /\ Render \notin Callers \cup {Worker}
ASSUME RequestWordsAssumption == RequestWords \in Nat \ {0}
ASSUME RequestModulusAssumption ==
    RequestModulus \in Nat /\ RequestModulus > 4 /\ RequestModulus % 2 = 0
ASSUME ReadAttemptsAssumption == ReadAttempts \in Nat \ {0}
ASSUME BridgeBoundsAssumption == MaxFrame \in Nat /\ MaxCalls \in Nat

VARIABLES
    bridge,     \* g_bridge_state
    opened,     \* the handles, the channel and the log
    stopEvent, readyEvent,
    startStatus,\* g_worker_start_status
    at,         \* per thread
    after,      \* per writer: where it goes on when its seqlock write is done
    requestSequence, words,
    writing,    \* per writer: the odd sequence of its write
    value,      \* per writer: the frame id it writes
    position,   \* per thread: the word it copies next
    lastFrame,  \* the worker's last_frame_id
    before, tries, copied,  \* the render thread's read
    accepted,   \* the last request that a read returned
    request,    \* the newest request in the shared region
    calls

control    == <<bridge, opened, stopEvent, readyEvent, startStatus>>
seqlock    == <<requestSequence, words>>
writers    == <<writing, value, position>>
reader     == <<before, tries, copied, accepted>>
bridgeVars == <<control, at, after, seqlock, writers, lastFrame, reader, request, calls>>

Writers == Callers \cup {Worker}
Threads == Writers \cup {Render}

IsWriting(n) == n % 2 = 1
Invalid == [k \in 1 .. RequestWords |-> 0]

BridgeInit ==
    /\ bridge = "idle" /\ opened = FALSE /\ stopEvent = FALSE /\ readyEvent = FALSE
    /\ startStatus = "not open"
    /\ at = [t \in Threads |-> IF t = Worker THEN "none" ELSE "out"]
    /\ after = [t \in Writers |-> "out"]
    /\ requestSequence = 0 /\ words = Invalid
    /\ writing = [t \in Writers |-> 0] /\ value = [t \in Writers |-> 0]
    /\ position = [t \in Threads |-> 1]
    /\ lastFrame = 0
    /\ before = 0 /\ tries = 0 /\ copied = Invalid /\ accepted = 0
    /\ request = 0 /\ calls = 0

MoveTo(t, label) == at' = [at EXCEPT ![t] = label]

-----------------------------------------------------------------------------
(* VrBridgeRenderRequestSeqlock.Publish, as a subroutine of every writer. *)

CallPublish(t, frame, return) ==
    /\ MoveTo(t, "load")
    /\ value' = [value EXCEPT ![t] = frame]
    /\ after' = [after EXCEPT ![t] = return]

\* The odd sequence of the next write; it wraps to 1 before it overflows.
Writing(stable) ==
    IF stable >= RequestModulus - 4 THEN 1 ELSE (IF IsWriting(stable) THEN stable ELSE stable + 1)

PublishLoad(t) ==
    /\ at[t] = "load"
    /\ writing' = [writing EXCEPT ![t] = Writing(requestSequence)]
    /\ MoveTo(t, "exchange")
    /\ UNCHANGED <<control, after, seqlock, value, position, lastFrame, reader, request, calls>>

PublishExchange(t) ==
    /\ at[t] = "exchange"
    /\ requestSequence' = writing[t] /\ position' = [position EXCEPT ![t] = 1]
    /\ MoveTo(t, "store")
    /\ UNCHANGED <<control, after, words, writing, value, lastFrame, reader, request, calls>>

PublishStore(t) ==
    /\ at[t] = "store"
    /\ words' = [words EXCEPT ![position[t]] = value[t]]
    /\ IF position[t] < RequestWords
       THEN position' = [position EXCEPT ![t] = @ + 1] /\ at' = at
       ELSE position' = position /\ MoveTo(t, "release")
    /\ UNCHANGED <<control, after, requestSequence, writing, value, lastFrame, reader, request, calls>>

\* Variant: the release store leaves the sequence odd.
ReleasedStaysOdd(t) == writing[t]

Released(t) == writing[t] + 1

PublishRelease(t) ==
    /\ at[t] = "release"
    /\ requestSequence' = Released(t)
    /\ MoveTo(t, after[t])
    /\ UNCHANGED <<control, after, words, writers, lastFrame, reader, request, calls>>

PublishRequest(t) == PublishLoad(t) \/ PublishExchange(t) \/ PublishStore(t) \/ PublishRelease(t)

-----------------------------------------------------------------------------
(* BootstrapBridge *)

\* The compare-and-swap that claims the bridge, once per process.  Variant: a
\* bridge that failed or is still starting may be claimed again.
MayClaimUnlessRunning == bridge \notin {"running", "stopping"}

MayClaim == bridge = "idle"

BootstrapBegin(c) ==
    /\ calls < MaxCalls /\ calls' = calls + 1
    /\ at[c] = "out"
    /\ IF MayClaim
       THEN bridge' = "starting" /\ CallPublish(c, 0, "open")      \* Invalidate
       ELSE UNCHANGED <<bridge, at, value, after>>                 \* AlreadyRunning, Busy
    /\ UNCHANGED <<opened, stopEvent, readyEvent, startStatus, seqlock, writing, position>>
    /\ UNCHANGED <<lastFrame, reader, request>>

\* Module pin, log, or OpenGame fails: nothing to undo but the log.
BootstrapFails(c) ==
    /\ at[c] = "open"
    /\ bridge' = "failed" /\ MoveTo(c, "out")
    /\ UNCHANGED <<opened, stopEvent, readyEvent, startStatus, after, seqlock, writers>>
    /\ UNCHANGED <<lastFrame, reader, request, calls>>

\* An event or the thread cannot be created: CloseStoppedResources, no worker.
BootstrapUndone(c) ==
    /\ at[c] = "open"
    /\ opened' = TRUE
    /\ CallPublish(c, 0, "close failed")
    /\ UNCHANGED <<bridge, stopEvent, readyEvent, startStatus, seqlock, writing, position>>
    /\ UNCHANGED <<lastFrame, reader, request, calls>>

BootstrapCreatesWorker(c) ==
    /\ at[c] = "open"
    /\ opened' = TRUE /\ stopEvent' = FALSE /\ readyEvent' = FALSE
    /\ startStatus' = "not open"
    /\ at' = [at EXCEPT ![c] = "wait ready", ![Worker] = "start"]
    /\ UNCHANGED <<bridge, after, seqlock, writers, lastFrame, reader, request, calls>>

\* The ready event, or kWorkerReadyWaitMs passes.
BootstrapReady(c) ==
    /\ at[c] = "wait ready"
    /\ \/ readyEvent /\ startStatus = "ok" /\ MoveTo(c, "complete")
       \/ readyEvent /\ startStatus # "ok" /\ MoveTo(c, "set stop")
       \/ MoveTo(c, "set stop")
    /\ UNCHANGED <<control, after, seqlock, writers, lastFrame, reader, request, calls>>

\* The last log line may fail too.
BootstrapComplete(c) ==
    /\ at[c] = "complete"
    /\ \/ bridge' = "running" /\ MoveTo(c, "out")
       \/ bridge' = bridge /\ MoveTo(c, "set stop")
    /\ UNCHANGED <<opened, stopEvent, readyEvent, startStatus, after, seqlock, writers>>
    /\ UNCHANGED <<lastFrame, reader, request, calls>>

-----------------------------------------------------------------------------
(* StopBridge, FailStartupAfterWorkerCreation and CloseStoppedResources *)

StopBegin(c) ==
    /\ calls < MaxCalls /\ calls' = calls + 1
    /\ at[c] = "out"
    /\ IF bridge = "running"
       THEN bridge' = "stopping" /\ MoveTo(c, "set stop")
       ELSE UNCHANGED <<bridge, at>>               \* AlreadyStopped, Busy
    /\ UNCHANGED <<opened, stopEvent, readyEvent, startStatus, after, seqlock, writers>>
    /\ UNCHANGED <<lastFrame, reader, request>>

SetStop(c) ==
    /\ at[c] = "set stop"
    /\ stopEvent' = TRUE /\ MoveTo(c, "join")
    /\ UNCHANGED <<bridge, opened, readyEvent, startStatus, after, seqlock, writers>>
    /\ UNCHANGED <<lastFrame, reader, request, calls>>

\* VrBridgeWorkerStopWasObserved.  Variant: any result of the wait will do.
StopWasObservedAnyway == TRUE

StopWasObserved == at[Worker] = "ended"

Joined(c) ==
    /\ at[c] = "join" /\ StopWasObserved
    /\ CallPublish(c, 0, IF bridge = "stopping" THEN "close stopped" ELSE "close failed")
    /\ UNCHANGED <<control, seqlock, writing, position, lastFrame, reader, request, calls>>

\* kWorkerStopWaitMs passes: everything is retained for the worker.
JoinTimesOut(c) ==
    /\ at[c] = "join" /\ ~StopWasObserved
    /\ bridge' = "failed" /\ MoveTo(c, "out")
    /\ UNCHANGED <<opened, stopEvent, readyEvent, startStatus, after, seqlock, writers>>
    /\ UNCHANGED <<lastFrame, reader, request, calls>>

CloseResources(c) ==
    /\ at[c] \in {"close stopped", "close failed"}
    /\ opened' = FALSE
    /\ bridge' = IF at[c] = "close stopped" THEN "stopped" ELSE "failed"
    /\ MoveTo(c, "out")
    /\ UNCHANGED <<stopEvent, readyEvent, startStatus, after, seqlock, writers>>
    /\ UNCHANGED <<lastFrame, reader, request, calls>>

-----------------------------------------------------------------------------
(* BridgeWorker *)

\* The first health message is published, or is refused and the worker ends.
WorkerStart ==
    /\ at[Worker] = "start"
    /\ \/ startStatus' = "ok" /\ MoveTo(Worker, "ready")
       \/ startStatus' = "failed" /\ MoveTo(Worker, "ready")
    /\ UNCHANGED <<bridge, opened, stopEvent, readyEvent, after, seqlock, writers>>
    /\ UNCHANGED <<lastFrame, reader, request, calls>>

WorkerReady ==
    /\ at[Worker] = "ready"
    /\ readyEvent' = TRUE
    /\ MoveTo(Worker, IF startStatus = "ok" THEN "poll" ELSE "ended")
    /\ UNCHANGED <<bridge, opened, stopEvent, startStatus, after, seqlock, writers>>
    /\ UNCHANGED <<lastFrame, reader, request, calls>>

\* ShouldPublishVrBridgeRenderRequest
ShouldPublish(frame) == frame > lastFrame

\* The wait for the stop event timed out: poll.  A read that is unavailable or
\* contended, and a request that is not new, change nothing.
WorkerPoll ==
    /\ at[Worker] = "poll" /\ ~stopEvent
    /\ ShouldPublish(request)
    /\ lastFrame' = request
    /\ CallPublish(Worker, request, "poll")
    /\ UNCHANGED <<control, seqlock, writing, position, reader, request, calls>>

WorkerStop ==
    /\ at[Worker] = "poll" /\ stopEvent
    /\ CallPublish(Worker, 0, "ended")              \* Invalidate
    /\ UNCHANGED <<control, seqlock, writing, position, lastFrame, reader, request, calls>>

-----------------------------------------------------------------------------
(* TryReadLatestRenderRequest on the render thread *)

TryRead ==
    /\ at[Render] = "out" /\ bridge = "running"
    /\ tries' = 0 /\ MoveTo(Render, "before")
    /\ UNCHANGED <<control, after, seqlock, writers, lastFrame, before, copied, accepted>>
    /\ UNCHANGED <<request, calls>>

\* The next attempt, unless it was the last.  Variant: one attempt too many.
RetryOnceMore ==
    /\ tries' = tries + 1
    /\ MoveTo(Render, IF tries <= ReadAttempts THEN "before" ELSE "out")

TryAgain ==
    /\ tries' = tries + 1
    /\ MoveTo(Render, IF tries + 1 < ReadAttempts THEN "before" ELSE "out")

TryReadBefore ==
    /\ at[Render] = "before"
    /\ \/ requestSequence = 0 /\ MoveTo(Render, "out") /\ UNCHANGED <<before, tries, position>>
       \/ IsWriting(requestSequence) /\ TryAgain /\ UNCHANGED <<before, position>>
       \/ /\ requestSequence # 0 /\ ~IsWriting(requestSequence)
          /\ before' = requestSequence /\ position' = [position EXCEPT ![Render] = 1]
          /\ MoveTo(Render, "copy") /\ UNCHANGED tries
    /\ UNCHANGED <<control, after, seqlock, writing, value, lastFrame, copied, accepted>>
    /\ UNCHANGED <<request, calls>>

TryReadWord ==
    /\ at[Render] = "copy"
    /\ copied' = [copied EXCEPT ![position[Render]] = words[position[Render]]]
    /\ IF position[Render] < RequestWords
       THEN position' = [position EXCEPT ![Render] = @ + 1] /\ at' = at
       ELSE position' = position /\ MoveTo(Render, "after")
    /\ UNCHANGED <<control, after, seqlock, writing, value, lastFrame, before, tries>>
    /\ UNCHANGED <<accepted, request, calls>>

\* The sequence has not moved.  Variant: it is not compared again.
UnmovedUnchecked == TRUE

RequestUnmoved == requestSequence = before

\* Valid and fresh snapshots go on; one that is older than max_age_ms, or
\* invalid, is refused.  The valid flag is in the last word.
TryReadAfter ==
    /\ at[Render] = "after"
    /\ \/ ~RequestUnmoved /\ TryAgain
       \/ RequestUnmoved /\ copied[RequestWords] # 0 /\ MoveTo(Render, "recheck") /\ tries' = tries
       \/ RequestUnmoved /\ MoveTo(Render, "out") /\ tries' = tries
    /\ UNCHANGED <<control, after, seqlock, writers, lastFrame, before, copied, accepted>>
    /\ UNCHANGED <<request, calls>>

\* The state is read again after the copy.
StillRunning == bridge = "running"

TryReadRecheck ==
    /\ at[Render] = "recheck"
    /\ accepted' = IF StillRunning THEN copied[1] ELSE accepted
    /\ MoveTo(Render, "out")
    /\ UNCHANGED <<control, after, seqlock, writers, lastFrame, before, tries, copied>>
    /\ UNCHANGED <<request, calls>>

-----------------------------------------------------------------------------
\* The host publishes a newer request; ids may be skipped.
HostPublishes ==
    /\ \E frame \in request + 1 .. MaxFrame : request' = frame
    /\ UNCHANGED <<control, at, after, seqlock, writers, lastFrame, reader, calls>>

Bootstrap(c) ==
    \/ BootstrapFails(c) \/ BootstrapUndone(c) \/ BootstrapCreatesWorker(c)
    \/ BootstrapReady(c) \/ BootstrapComplete(c)
Stop(c) == SetStop(c) \/ Joined(c) \/ JoinTimesOut(c) \/ CloseResources(c)
Caller(c) == Bootstrap(c) \/ Stop(c) \/ PublishRequest(c)
WorkerStep == WorkerStart \/ WorkerReady \/ WorkerPoll \/ WorkerStop \/ PublishRequest(Worker)
RenderStep == TryRead \/ TryReadBefore \/ TryReadWord \/ TryReadAfter \/ TryReadRecheck

BridgeNext ==
    \/ \E c \in Callers : BootstrapBegin(c) \/ StopBegin(c) \/ Caller(c)
    \/ WorkerStep \/ RenderStep \/ HostPublishes

BridgeSpec == BridgeInit /\ [][BridgeNext]_bridgeVars

\* A call that was entered goes on and the worker is scheduled; nobody has to
\* call, to read or to publish.
BridgeFairness ==
    WF_bridgeVars(WorkerStep) /\ \A c \in Callers : WF_bridgeVars(Caller(c))

-----------------------------------------------------------------------------
(* Properties *)

BridgeStates == {"idle", "starting", "running", "stopping", "stopped", "failed"}
InPublish == {"load", "exchange", "store", "release"}
CallerLabels ==
    InPublish \cup {"out", "open", "wait ready", "complete", "set stop", "join",
                    "close stopped", "close failed"}
WorkerLabels == InPublish \cup {"none", "start", "ready", "poll", "ended"}
RenderLabels == {"out", "before", "copy", "after", "recheck"}

\* Every variable keeps its type; the sequence never overflows its width.
BridgeTypeOK ==
    /\ bridge \in BridgeStates /\ opened \in BOOLEAN
    /\ stopEvent \in BOOLEAN /\ readyEvent \in BOOLEAN
    /\ startStatus \in {"not open", "ok", "failed"}
    /\ \A c \in Callers : at[c] \in CallerLabels
    /\ at[Worker] \in WorkerLabels /\ at[Render] \in RenderLabels
    /\ after \in [Writers -> CallerLabels \cup WorkerLabels]
    /\ requestSequence \in 0 .. RequestModulus - 1 /\ words \in [1 .. RequestWords -> 0 .. MaxFrame]
    /\ writing \in [Writers -> 0 .. RequestModulus - 1] /\ value \in [Writers -> 0 .. MaxFrame]
    /\ position \in [Threads -> 1 .. RequestWords] /\ lastFrame \in 0 .. MaxFrame
    /\ before \in 0 .. RequestModulus - 1 /\ tries \in 0 .. ReadAttempts
    /\ copied \in [1 .. RequestWords -> 0 .. MaxFrame] /\ accepted \in 0 .. MaxFrame
    /\ request \in 0 .. MaxFrame /\ calls \in 0 .. MaxCalls

\* The seqlock has no lock against a second writer: whoever calls Bootstrap and
\* Stop, and however slowly the worker ends, there is never one.
OneWriter == \A s, t \in Writers : at[s] \in InPublish /\ at[t] \in InPublish => s = t

WorkerAlive == at[Worker] \notin {"none", "ended"}

\* The worker uses the events, the channel and the log until it ends: they are
\* never closed under it, also when a wait for it times out.
ResourcesOutliveWorker == WorkerAlive => opened

\* After a successful stop the worker is gone and its last request with it.
StoppedIsSilent ==
    bridge = "stopped" => /\ ~WorkerAlive /\ ~opened
                          /\ words = Invalid /\ ~IsWriting(requestSequence)

\* A request the render thread accepts is whole, valid, not older than the one
\* it accepted before, and accepted while the bridge is running.
ReadsAreCoherent ==
    [][accepted' # accepted =>
         /\ bridge = "running"
         /\ \A k \in 1 .. RequestWords : copied[k] = copied[1]
         /\ accepted' > accepted /\ accepted' <= request]_bridgeVars

\* While the bridge runs, the host's newest request reaches the seqlock.
NewestIsRelayed ==
    <>[](bridge = "running") =>
        <>[](~IsWriting(requestSequence) /\ \A k \in 1 .. RequestWords : words[k] = request)

=============================================================================
