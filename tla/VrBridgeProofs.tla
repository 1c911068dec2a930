---------------------------- MODULE VrBridgeProofs ----------------------------
(***************************************************************************)
(* The safety of the game's bridge for every number of calling threads and *)
(* words.  The compare-and-swaps on the bridge state leave at most one     *)
(* caller inside Bootstrap or Stop, and what it may assume of the worker   *)
(* follows from where it is: that the worker does not exist yet, that it   *)
(* runs, or that its end was observed.  So the local seqlock, which has no *)
(* lock, never has two writers, and nothing is closed under the worker.    *)
(* While the bridge runs the frames in the seqlock only grow.              *)
(***************************************************************************)
EXTENDS VrBridge, TLAPS

\* A writer that is at a label, or in the publication that returns to it.
At(t, label) == at[t] = label \/ (at[t] \in InPublish /\ after[t] = label)

CallerInv(c) ==
    /\ at[c] # "out" => bridge \in {"starting", "stopping"}
    /\ \A d \in Callers : at[c] # "out" /\ at[d] # "out" => c = d
    /\ at[c] \in InPublish =>
          after[c] \in {"open", "close failed", "close stopped"} /\ value[c] = 0
    /\ At(c, "open") => bridge = "starting" /\ at[Worker] = "none"
    /\ At(c, "close failed") \/ At(c, "close stopped") => ~WorkerAlive
    /\ At(c, "close stopped") => at[Worker] = "ended"
    /\ at[c] \in {"wait ready", "complete", "set stop", "join"} =>
          at[Worker] # "none"
    /\ at[c] \in {"wait ready", "complete"} => bridge = "starting" /\ ~stopEvent
    /\ at[c] = "complete" => At(Worker, "poll")
    /\ at[c] = "close stopped" => words = Invalid

WorkerInv ==
    /\ at[Worker] \in InPublish => after[Worker] \in {"poll", "ended"}
    /\ At(Worker, "ended") => stopEvent \/ startStatus = "failed"
    /\ at[Worker] \in InPublish \cup {"poll"} => startStatus = "ok"
    /\ at[Worker] \in {"none", "start", "ready"} => ~readyEvent
    /\ at[Worker] = "ready" => startStatus \in {"ok", "failed"}
    /\ WorkerAlive => opened

BridgeInv ==
    /\ bridge = "idle" => at[Worker] = "none"
    /\ bridge = "running" => At(Worker, "poll") /\ ~stopEvent
    /\ bridge = "stopped" => at[Worker] = "ended" /\ ~opened /\ words = Invalid

Uniform == \A k \in 1 .. RequestWords : words[k] = words[1]

\* How far a writer has got.
WriterInv(t) ==
    /\ at[t] \in {"exchange", "store", "release"} =>
          IsWriting(writing[t]) /\ writing[t] \in 1 .. RequestModulus - 2
    /\ at[t] \in {"store", "release"} => requestSequence = writing[t]
    /\ at[t] = "store" => \A k \in 1 .. position[t] - 1 : words[k] = value[t]
    /\ at[t] = "release" => \A k \in 1 .. RequestWords : words[k] = value[t]

SlotInv ==
    /\ \A t \in Writers : WriterInv(t)
    /\ (\A t \in Writers : at[t] \notin {"store", "release"}) => ~IsWriting(requestSequence) /\ Uniform

FrameInv ==
    /\ lastFrame <= request
    /\ \A k \in 1 .. RequestWords : words[k] <= lastFrame
    /\ \A t \in Writers : at[t] \in InPublish => value[t] <= lastFrame
    /\ At(Worker, "poll") /\ at[Worker] # "poll" => value[Worker] = lastFrame

\* The types that TypeOK leaves open.
Labels == CallerLabels \cup WorkerLabels \cup RenderLabels

Domains ==
    /\ at \in [Threads -> Labels]
    /\ at[Render] \in {"before", "copy", "after"} => tries < ReadAttempts

BridgeSafe ==
    /\ BridgeTypeOK /\ Domains
    /\ (\A c \in Callers : CallerInv(c)) /\ WorkerInv /\ BridgeInv
    /\ SlotInv /\ FrameInv

\* The sequence grows with the frames until the worker is told to stop.
SequenceInv ==
    /\ bridge = "idle" => requestSequence = 0
    /\ \A c \in Callers :
          /\ At(c, "open") /\ at[c] \in {"load", "exchange"} => requestSequence = 0
          /\ At(c, "open") /\ at[c] \in {"store", "release"} => requestSequence = 1
          /\ at[c] = "open" => requestSequence <= 2
          /\ At(c, "open") /\ at[c] = "exchange" => writing[c] = 1
    /\ at[Worker] \in {"start", "ready", "poll"} => requestSequence <= 2 * (lastFrame + 1)
    /\ At(Worker, "poll") /\ at[Worker] # "poll" =>
          /\ requestSequence <= 2 * lastFrame + 1
          /\ at[Worker] \in {"load", "exchange"} => requestSequence <= 2 * lastFrame
          /\ at[Worker] = "exchange" => writing[Worker] = requestSequence + 1

\* What the render thread has read while the bridge runs.
ReaderInv ==
    /\ bridge \in {"idle", "starting"} => at[Render] = "out" /\ accepted = 0
    /\ bridge = "running" =>
          /\ \A k \in 1 .. RequestWords : accepted <= words[k]
          /\ at[Render] \in {"copy", "after"} => ~IsWriting(before) /\ before <= requestSequence
          /\ at[Render] = "copy" /\ requestSequence = before =>
                \A k \in 1 .. position[Render] - 1 : copied[k] = words[k]
          /\ at[Render] = "after" /\ requestSequence = before =>
                \A k \in 1 .. RequestWords : copied[k] = words[k]
          /\ at[Render] = "recheck" =>
                /\ \A k \in 1 .. RequestWords : copied[k] = copied[1]
                /\ accepted <= copied[1] /\ \A k \in 1 .. RequestWords : copied[1] <= words[k]

-----------------------------------------------------------------------------
(* Helpers *)

\* The threads are told apart.
LEMMA ThreadNames ==
  /\ \A c \in Callers : c # Worker /\ c # Render /\ c \in Writers /\ c \in Threads
  /\ Worker # Render /\ Worker \in Writers /\ Worker \in Threads
  /\ Render \in Threads /\ Render \notin Writers
  /\ \A t \in Writers : t \in Threads /\ t # Render /\ (t = Worker \/ t \in Callers)
  BY ThreadsAssumption DEF Writers, Threads

\* Bounds at which counters start and go on.
LEMMA Counters ==
  /\ 1 \in 1 .. RequestWords /\ 0 \in 0 .. RequestModulus - 1 /\ 0 \in 0 .. ReadAttempts /\ 0 < ReadAttempts
  /\ 0 \in 0 .. MaxFrame /\ 0 \in 0 .. MaxCalls
  /\ \A n \in 1 .. RequestWords : n < RequestWords => n + 1 \in 1 .. RequestWords
  /\ \A n \in 0 .. MaxCalls : n < MaxCalls => n + 1 \in 0 .. MaxCalls
  /\ \A n \in 0 .. ReadAttempts : n < ReadAttempts => n + 1 \in 0 .. ReadAttempts
  BY RequestWordsAssumption, RequestModulusAssumption, ReadAttemptsAssumption, BridgeBoundsAssumption

\* The odd sequence of a write leaves room for the release.
LEMMA WritingFacts ==
  ASSUME NEW s \in 0 .. RequestModulus - 1
  PROVE  /\ IsWriting(Writing(s)) /\ Writing(s) \in 1 .. RequestModulus - 2 /\ Writing(s) \in 0 .. RequestModulus - 1
         /\ ~IsWriting(s) /\ s < RequestModulus - 4 => Writing(s) = s + 1
<1>1. CASE s >= RequestModulus - 4
  BY <1>1, RequestModulusAssumption DEF Writing, IsWriting
<1>2. CASE s < RequestModulus - 4 /\ IsWriting(s)
  <2>1. Writing(s) = s
    BY <1>2, RequestModulusAssumption DEF Writing
  <2>2. s # 0
    BY <1>2 DEF IsWriting
  <2>3. QED
    BY <1>2, <2>1, <2>2, RequestModulusAssumption
<1>3. CASE s < RequestModulus - 4 /\ ~IsWriting(s)
  <2>1. Writing(s) = s + 1
    BY <1>3, RequestModulusAssumption DEF Writing
  <2>2. IsWriting(s + 1)
    BY <1>3 DEF IsWriting
  <2>3. QED
    BY <1>3, <2>1, <2>2, RequestModulusAssumption
<1>4. QED
  BY <1>1, <1>2, <1>3, RequestModulusAssumption

\* Parity of the numbers around a write.
LEMMA Parity == \A n \in Nat : (IsWriting(n) => ~IsWriting(n + 1)) /\ ~IsWriting(0) /\ IsWriting(1)
  BY DEF IsWriting

\* Nobody writes the seqlock while somebody else does.
LEMMA AtMostOneWriter == BridgeSafe => OneWriter
<1> SUFFICES ASSUME BridgeSafe, NEW s \in Writers, NEW t \in Writers,
                    at[s] \in InPublish, at[t] \in InPublish
             PROVE  s = t
  BY DEF OneWriter
<1>1. ASSUME NEW c \in Callers, at[c] \in InPublish PROVE at[Worker] \notin InPublish
  <2>1. ~WorkerAlive \/ at[Worker] = "none"
    BY <1>1 DEF BridgeSafe, CallerInv, At
  <2>2. QED
    BY <2>1 DEF WorkerAlive, InPublish
<1>2. ASSUME NEW c \in Callers, NEW d \in Callers, at[c] \in InPublish, at[d] \in InPublish
      PROVE  c = d
  BY <1>2 DEF BridgeSafe, CallerInv, InPublish
<1>3. QED
  BY <1>1, <1>2, ThreadNames

-----------------------------------------------------------------------------
(* Types *)

PcType ==
    /\ at \in [Threads -> Labels]
    /\ \A c \in Callers : at[c] \in CallerLabels
    /\ at[Worker] \in WorkerLabels /\ at[Render] \in RenderLabels

\* A thread that goes to a label of its kind keeps the types.
LEMMA GotoType ==
  ASSUME PcType, NEW t \in Threads, NEW l, MoveTo(t, l),
         \/ t \in Callers /\ l \in CallerLabels
         \/ t = Worker /\ l \in WorkerLabels
         \/ t = Render /\ l \in RenderLabels
  PROVE  PcType' /\ at'[t] = l /\ \A u \in Threads : u # t => at'[u] = at[u]
<1>1. l \in Labels
  BY DEF Labels
<1>2. at'[t] = l /\ (\A u \in Threads : u # t => at'[u] = at[u]) /\ at' \in [Threads -> Labels]
  BY <1>1 DEF PcType, MoveTo
<1>3. \A c \in Callers : at'[c] \in CallerLabels
  BY <1>2, ThreadNames DEF PcType
<1>4. at'[Worker] \in WorkerLabels /\ at'[Render] \in RenderLabels
  BY <1>2, ThreadNames DEF PcType
<1>5. QED
  BY <1>2, <1>3, <1>4 DEF PcType

\* The types, without those of the program counters.
DataType ==
    /\ bridge \in BridgeStates /\ opened \in BOOLEAN
    /\ stopEvent \in BOOLEAN /\ readyEvent \in BOOLEAN
    /\ startStatus \in {"not open", "ok", "failed"}
    /\ after \in [Writers -> CallerLabels \cup WorkerLabels]
    /\ requestSequence \in 0 .. RequestModulus - 1 /\ words \in [1 .. RequestWords -> 0 .. MaxFrame]
    /\ writing \in [Writers -> 0 .. RequestModulus - 1] /\ value \in [Writers -> 0 .. MaxFrame]
    /\ position \in [Threads -> 1 .. RequestWords] /\ lastFrame \in 0 .. MaxFrame
    /\ before \in 0 .. RequestModulus - 1 /\ tries \in 0 .. ReadAttempts
    /\ copied \in [1 .. RequestWords -> 0 .. MaxFrame] /\ accepted \in 0 .. MaxFrame
    /\ request \in 0 .. MaxFrame /\ calls \in 0 .. MaxCalls

AttemptsLeft == at[Render] \in {"before", "copy", "after"} => tries < ReadAttempts

\* The parts of the types.
LEMMA TypeParts == BridgeTypeOK /\ Domains <=> DataType /\ PcType /\ AttemptsLeft
  BY DEF BridgeTypeOK, Domains, DataType, PcType, AttemptsLeft

\* Every thread is outside, and the worker does not exist.
LEMMA InitType == BridgeInit => DataType /\ PcType /\ AttemptsLeft
<1> SUFFICES ASSUME BridgeInit PROVE DataType /\ PcType /\ AttemptsLeft
  OBVIOUS
<1> USE DEF BridgeInit
<1>1. Invalid \in [1 .. RequestWords -> 0 .. MaxFrame]
  BY Counters DEF Invalid
<1>2. /\ bridge \in BridgeStates /\ opened \in BOOLEAN /\ stopEvent \in BOOLEAN
      /\ readyEvent \in BOOLEAN /\ startStatus \in {"not open", "ok", "failed"}
      /\ after \in [Writers -> CallerLabels \cup WorkerLabels]
  BY DEF BridgeStates, CallerLabels
<1>3. /\ requestSequence \in 0 .. RequestModulus - 1 /\ writing \in [Writers -> 0 .. RequestModulus - 1]
      /\ value \in [Writers -> 0 .. MaxFrame] /\ position \in [Threads -> 1 .. RequestWords]
      /\ lastFrame \in 0 .. MaxFrame /\ before \in 0 .. RequestModulus - 1
      /\ tries \in 0 .. ReadAttempts /\ accepted \in 0 .. MaxFrame
      /\ request \in 0 .. MaxFrame /\ calls \in 0 .. MaxCalls
  BY Counters
<1>4. words \in [1 .. RequestWords -> 0 .. MaxFrame] /\ copied \in [1 .. RequestWords -> 0 .. MaxFrame]
  BY <1>1
<1>5. DataType
  BY <1>2, <1>3, <1>4 DEF DataType
<1>6. PcType
  BY ThreadNames DEF PcType, Labels, CallerLabels, WorkerLabels, RenderLabels
<1>7. AttemptsLeft
  BY ThreadNames DEF AttemptsLeft
<1>8. QED
  BY <1>5, <1>6, <1>7

\* Calling the publication of a frame, and what the caller then remembers.
LEMMA CallPublishType ==
  ASSUME DataType, PcType, NEW t \in Writers, NEW frame \in 0 .. MaxFrame,
         NEW return \in CallerLabels \cup WorkerLabels, CallPublish(t, frame, return)
  PROVE  /\ PcType' /\ value' \in [Writers -> 0 .. MaxFrame]
         /\ after' \in [Writers -> CallerLabels \cup WorkerLabels]
         /\ at'[t] = "load" /\ (\A u \in Threads : u # t => at'[u] = at[u])
         /\ value'[t] = frame /\ (\A u \in Writers : u # t => value'[u] = value[u])
         /\ after'[t] = return /\ (\A u \in Writers : u # t => after'[u] = after[u])
<1>1. /\ PcType' /\ at'[t] = "load" /\ (\A u \in Threads : u # t => at'[u] = at[u])
  BY GotoType, ThreadNames DEF CallPublish, CallerLabels, WorkerLabels, InPublish
<1>2. /\ value' = [value EXCEPT ![t] = frame] /\ after' = [after EXCEPT ![t] = return]
      /\ value \in [Writers -> 0 .. MaxFrame]
      /\ after \in [Writers -> CallerLabels \cup WorkerLabels]
  BY DEF CallPublish, DataType
<1>3. QED
  BY <1>1, <1>2

Types == DataType /\ PcType /\ AttemptsLeft

\* The callers' own steps, without the publications.
CallerOwn(c) == BootstrapBegin(c) \/ StopBegin(c) \/ Bootstrap(c) \/ Stop(c)
WorkerOwn == WorkerStart \/ WorkerReady \/ WorkerPoll \/ WorkerStop

\* The callers' steps keep the types of the data.
LEMMA CallerType == ASSUME Types, NEW c \in Callers, CallerOwn(c) PROVE Types'
<1>0. DataType /\ PcType /\ c \in Writers /\ c \in Threads /\ c # Render /\ Worker # Render
      /\ 0 \in 0 .. MaxFrame /\ Worker \in Threads /\ Render \in Threads
  BY ThreadNames, Counters DEF Types
<1> USE <1>0 DEF control, seqlock, writers, reader
<1>1. ASSUME NEW l \in CallerLabels, MoveTo(c, l)
      PROVE  PcType' /\ at'[Render] = at[Render]
  BY <1>1, GotoType
<1>2. ASSUME NEW l \in CallerLabels, CallPublish(c, 0, l)
      PROVE  /\ PcType' /\ value' \in [Writers -> 0 .. MaxFrame] /\ at'[Render] = at[Render]
             /\ after' \in [Writers -> CallerLabels \cup WorkerLabels]
  BY <1>2, CallPublishType
<1>3. PcType' /\ at'[Render] = at[Render]
      /\ value' \in [Writers -> 0 .. MaxFrame]
      /\ after' \in [Writers -> CallerLabels \cup WorkerLabels]
  <2> USE DEF CallerLabels, InPublish
  <2>0. value \in [Writers -> 0 .. MaxFrame] /\ after \in [Writers -> CallerLabels \cup WorkerLabels]
    BY DEF DataType
  <2>1. CASE BootstrapBegin(c)
    BY <1>2, <2>0, <2>1 DEF BootstrapBegin, PcType
  <2>2. CASE StopBegin(c)
    BY <1>1, <2>0, <2>2 DEF StopBegin, PcType
  <2>3. CASE BootstrapFails(c)
    BY <1>1, <2>0, <2>3 DEF BootstrapFails
  <2>4. CASE BootstrapUndone(c)
    BY <1>2, <2>0, <2>4 DEF BootstrapUndone
  <2>5. CASE BootstrapCreatesWorker(c)
    <3>1. at' = [at EXCEPT ![c] = "wait ready", ![Worker] = "start"]
      BY <2>5 DEF BootstrapCreatesWorker
    <3>2. "wait ready" \in CallerLabels /\ "start" \in WorkerLabels
      BY DEF WorkerLabels
    <3>3. PcType' /\ at'[Render] = at[Render]
      BY <3>1, <3>2, ThreadNames DEF PcType, Labels
    <3>4. QED
      BY <2>0, <2>5, <3>3 DEF BootstrapCreatesWorker
  <2>6. CASE BootstrapReady(c)
    BY <1>1, <2>0, <2>6 DEF BootstrapReady
  <2>7. CASE BootstrapComplete(c)
    BY <1>1, <2>0, <2>7 DEF BootstrapComplete
  <2>8. CASE SetStop(c)
    BY <1>1, <2>0, <2>8 DEF SetStop
  <2>9. CASE Joined(c)
    BY <1>2, <2>0, <2>9 DEF Joined
  <2>10. CASE JoinTimesOut(c)
    BY <1>1, <2>0, <2>10 DEF JoinTimesOut
  <2>11. CASE CloseResources(c)
    BY <1>1, <2>0, <2>11 DEF CloseResources
  <2>12. QED
    BY <2>1, <2>2, <2>3, <2>4, <2>5, <2>6, <2>7, <2>8, <2>9, <2>10, <2>11
       DEF CallerOwn, Bootstrap, Stop
<1>4. /\ bridge' \in BridgeStates /\ opened' \in BOOLEAN /\ stopEvent' \in BOOLEAN
      /\ readyEvent' = readyEvent \/ readyEvent' = FALSE
      /\ startStatus' = startStatus \/ startStatus' = "not open"
  BY DEF CallerOwn, Bootstrap, Stop, BootstrapBegin, StopBegin, BootstrapFails, BootstrapUndone,
         BootstrapCreatesWorker, BootstrapReady, BootstrapComplete, SetStop, Joined,
         JoinTimesOut, CloseResources, BridgeStates, DataType
<1>5. calls' = calls \/ (calls < MaxCalls /\ calls' = calls + 1)
  BY DEF CallerOwn, Bootstrap, Stop, BootstrapBegin, StopBegin, BootstrapFails, BootstrapUndone,
         BootstrapCreatesWorker, BootstrapReady, BootstrapComplete, SetStop, Joined,
         JoinTimesOut, CloseResources
<1>6. UNCHANGED <<seqlock, writing, position, lastFrame, reader, request>>
  BY DEF CallerOwn, Bootstrap, Stop, BootstrapBegin, StopBegin, BootstrapFails, BootstrapUndone,
         BootstrapCreatesWorker, BootstrapReady, BootstrapComplete, SetStop, Joined,
         JoinTimesOut, CloseResources
<1>7. calls' \in 0 .. MaxCalls
  BY <1>5, Counters DEF DataType
<1>8. DataType'
  BY <1>3, <1>4, <1>6, <1>7 DEF DataType
<1>9. AttemptsLeft'
  BY <1>3, <1>6 DEF Types, AttemptsLeft
<1>10. QED
  BY <1>3, <1>8, <1>9 DEF Types

\* The worker's own steps keep the types.
LEMMA WorkerType == ASSUME Types, WorkerOwn PROVE Types'
<1>0. DataType /\ PcType /\ Worker \in Writers /\ Worker \in Threads /\ Worker # Render
      /\ 0 \in 0 .. MaxFrame /\ request \in 0 .. MaxFrame /\ Render \in Threads
  BY ThreadNames, Counters DEF Types, DataType
<1> USE <1>0 DEF control, seqlock, writers, reader
<1>1. ASSUME NEW l \in WorkerLabels, MoveTo(Worker, l)
      PROVE  PcType' /\ at'[Render] = at[Render]
  BY <1>1, GotoType
<1>2. ASSUME NEW f \in 0 .. MaxFrame, NEW l \in WorkerLabels, CallPublish(Worker, f, l)
      PROVE  /\ PcType' /\ value' \in [Writers -> 0 .. MaxFrame] /\ at'[Render] = at[Render]
             /\ after' \in [Writers -> CallerLabels \cup WorkerLabels]
  BY <1>2, CallPublishType
<1>3. CASE WorkerStart
  <2>1. PcType' /\ at'[Render] = at[Render]
    BY <1>1, <1>3 DEF WorkerStart, WorkerLabels
  <2>2. QED
    BY <1>3, <2>1 DEF WorkerStart, Types, DataType, AttemptsLeft
<1>4. CASE WorkerReady
  <2>1. PcType' /\ at'[Render] = at[Render]
    BY <1>1, <1>4 DEF WorkerReady, WorkerLabels
  <2>2. QED
    BY <1>4, <2>1 DEF WorkerReady, Types, DataType, AttemptsLeft
<1>5. CASE WorkerPoll
  <2>1. CallPublish(Worker, request, "poll")
    BY <1>5 DEF WorkerPoll
  <2>2. QED
    BY <1>2, <1>5, <2>1 DEF WorkerPoll, Types, DataType, AttemptsLeft, WorkerLabels
<1>6. CASE WorkerStop
  BY <1>2, <1>6 DEF WorkerStop, Types, DataType, AttemptsLeft, WorkerLabels
<1>7. QED
  BY <1>3, <1>4, <1>5, <1>6 DEF WorkerOwn

\* Where a publication returns to.
LEMMA Returns ==
  ASSUME BridgeSafe, NEW t \in Writers, at[t] \in InPublish
  PROVE  \/ t \in Callers /\ after[t] \in {"open", "close failed", "close stopped"}
         \/ t = Worker /\ after[t] \in {"poll", "ended"}
  BY ThreadNames DEF BridgeSafe, CallerInv, WorkerInv

\* What a step of a publication does, and leaves alone.
LEMMA PublishMoves ==
  ASSUME BridgeSafe, PcType, NEW t \in Writers, PublishRequest(t)
  PROVE  /\ at[t] \in InPublish
         /\ \/ at'[t] \in InPublish
            \/ at[t] = "release" /\ at'[t] = after[t]
         /\ PcType' /\ (\A u \in Threads : u # t => at'[u] = at[u])
         /\ UNCHANGED <<control, after, value, lastFrame, reader, request, calls>>
<1>0. t \in Threads /\ \/ t \in Callers
                       \/ t = Worker
  BY ThreadNames
<1>1. at[t] \in InPublish
  BY DEF PublishRequest, PublishLoad, PublishExchange, PublishStore, PublishRelease, InPublish
<1>2. UNCHANGED <<control, after, value, lastFrame, reader, request, calls>>
  BY DEF PublishRequest, PublishLoad, PublishExchange, PublishStore, PublishRelease, writers
<1>3. ASSUME NEW l \in InPublish, MoveTo(t, l)
      PROVE  PcType' /\ at'[t] = l /\ (\A u \in Threads : u # t => at'[u] = at[u])
  BY <1>0, <1>3, GotoType DEF CallerLabels, WorkerLabels
<1>4. CASE PublishLoad(t)
  BY <1>1, <1>2, <1>3, <1>4 DEF PublishLoad, InPublish
<1>5. CASE PublishExchange(t)
  BY <1>1, <1>2, <1>3, <1>5 DEF PublishExchange, InPublish
<1>6. CASE PublishStore(t)
  <2>1. MoveTo(t, "release") \/ at' = at
    BY <1>6 DEF PublishStore
  <2>2. QED
    BY <1>1, <1>2, <1>3, <2>1 DEF InPublish, PcType
<1>7. CASE PublishRelease(t)
  <2>1. MoveTo(t, after[t]) /\ at[t] = "release"
    BY <1>7 DEF PublishRelease
  <2>2. \/ t \in Callers /\ after[t] \in CallerLabels
        \/ t = Worker /\ after[t] \in WorkerLabels
    BY <1>1, Returns DEF CallerLabels, WorkerLabels
  <2>3. PcType' /\ at'[t] = after[t] /\ (\A u \in Threads : u # t => at'[u] = at[u])
    BY <1>0, <2>1, <2>2, GotoType
  <2>4. QED
    BY <1>1, <1>2, <2>1, <2>3
<1>8. QED
  BY <1>4, <1>5, <1>6, <1>7 DEF PublishRequest

\* A publication keeps the types; its sequence never overflows.
LEMMA PublishType == ASSUME BridgeSafe, NEW t \in Writers, PublishRequest(t) PROVE Types'
<1>0. DataType /\ PcType /\ AttemptsLeft /\ WriterInv(t) /\ t \in Threads /\ t # Render
      /\ Render \in Threads
  BY TypeParts, ThreadNames DEF BridgeSafe, SlotInv
<1>1. PcType' /\ at'[Render] = at[Render]
      /\ UNCHANGED <<control, after, value, lastFrame, reader, request, calls>>
  BY <1>0, PublishMoves
<1>2. requestSequence' \in 0 .. RequestModulus - 1
  <2>1. writing[t] \in 0 .. RequestModulus - 1 /\ requestSequence \in 0 .. RequestModulus - 1
    BY <1>0 DEF DataType
  <2>2. CASE PublishRelease(t)
    <3>1. writing[t] \in 1 .. RequestModulus - 2
      BY <1>0, <2>2 DEF PublishRelease, WriterInv
    <3>2. QED
      BY <2>2, <3>1, RequestModulusAssumption DEF PublishRelease, Released
  <2>3. CASE PublishExchange(t)
    BY <2>1, <2>3 DEF PublishExchange
  <2>4. CASE PublishLoad(t) \/ PublishStore(t)
    BY <2>1, <2>4 DEF PublishLoad, PublishStore, seqlock
  <2>5. QED
    BY <2>2, <2>3, <2>4 DEF PublishRequest
<1>3. words' \in [1 .. RequestWords -> 0 .. MaxFrame]
  <2>1. words \in [1 .. RequestWords -> 0 .. MaxFrame] /\ value[t] \in 0 .. MaxFrame
    BY <1>0 DEF DataType
  <2>2. words' = words \/ words' = [words EXCEPT ![position[t]] = value[t]]
    BY DEF PublishRequest, PublishLoad, PublishExchange, PublishStore, PublishRelease, seqlock
  <2>3. QED
    BY <2>1, <2>2
<1>4. writing' \in [Writers -> 0 .. RequestModulus - 1]
  <2>1. writing \in [Writers -> 0 .. RequestModulus - 1] /\ Writing(requestSequence) \in 0 .. RequestModulus - 1
    BY <1>0, WritingFacts DEF DataType
  <2>2. writing' = writing \/ writing' = [writing EXCEPT ![t] = Writing(requestSequence)]
    BY DEF PublishRequest, PublishLoad, PublishExchange, PublishStore, PublishRelease, writers
  <2>3. QED
    BY <2>1, <2>2
<1>5. position' \in [Threads -> 1 .. RequestWords]
  <2>1. position \in [Threads -> 1 .. RequestWords]
    BY <1>0 DEF DataType
  <2>2. \/ position' = position
        \/ position' = [position EXCEPT ![t] = 1]
        \/ position[t] < RequestWords /\ position' = [position EXCEPT ![t] = position[t] + 1]
    BY DEF PublishRequest, PublishLoad, PublishExchange, PublishStore, PublishRelease, writers
  <2>3. 1 \in 1 .. RequestWords /\ (position[t] < RequestWords => position[t] + 1 \in 1 .. RequestWords)
    BY <1>0, <2>1, Counters
  <2>4. QED
    BY <2>1, <2>2, <2>3
<1>6. DataType'
  BY <1>0, <1>1, <1>2, <1>3, <1>4, <1>5 DEF DataType, control, reader
<1>7. AttemptsLeft'
  BY <1>0, <1>1 DEF AttemptsLeft, reader
<1>8. QED
  BY <1>1, <1>6, <1>7 DEF Types

\* The steps of the render thread leave the writers alone.
LEMMA RenderMoves ==
  ASSUME PcType, DataType, RenderStep
  PROVE  /\ PcType' /\ \A t \in Writers : at'[t] = at[t] /\ position'[t] = position[t]
         /\ UNCHANGED <<control, after, seqlock, writing, value, lastFrame, request, calls>>
<1>0. Render \in Threads /\ (\A t \in Writers : t \in Threads /\ t # Render)
      /\ position \in [Threads -> 1 .. RequestWords]
  BY ThreadNames DEF DataType
<1>1. \A t \in Writers : position'[t] = position[t]
  BY <1>0 DEF RenderStep, TryRead, TryReadBefore, TryReadWord, TryReadAfter, TryReadRecheck, writers
<1>2. UNCHANGED <<control, after, seqlock, writing, value, lastFrame, request, calls>>
  BY DEF RenderStep, TryRead, TryReadBefore, TryReadWord, TryReadAfter, TryReadRecheck, writers
<1>3. at' = at \/ \E l \in RenderLabels : MoveTo(Render, l)
  BY DEF RenderStep, TryRead, TryReadBefore, TryReadWord, TryReadAfter, TryReadRecheck, TryAgain, RenderLabels
<1>4. ASSUME NEW l \in RenderLabels, MoveTo(Render, l)
      PROVE  PcType' /\ \A u \in Threads : u # Render => at'[u] = at[u]
  BY <1>0, <1>4, GotoType
<1>5. PcType' /\ \A u \in Writers : at'[u] = at[u]
  BY <1>0, <1>3, <1>4 DEF PcType
<1>6. QED
  BY <1>1, <1>2, <1>5

\* The render thread keeps the types.
LEMMA RenderType == ASSUME Types, RenderStep PROVE Types'
<1>0. DataType /\ PcType /\ AttemptsLeft /\ Render \in Threads /\ at \in [Threads -> Labels]
  BY ThreadNames DEF Types, PcType
<1>1. PcType' /\ UNCHANGED <<control, after, seqlock, writing, value, lastFrame, request, calls>>
  BY <1>0, RenderMoves
<1>2. ASSUME TryAgain, tries < ReadAttempts
      PROVE  tries' \in 0 .. ReadAttempts /\ AttemptsLeft'
  <2>1. tries' = tries + 1 /\ tries + 1 \in 0 .. ReadAttempts
    BY <1>0, <1>2, Counters DEF TryAgain, DataType
  <2>2. at'[Render] \in {"before", "out"} /\ (at'[Render] = "before" => tries + 1 < ReadAttempts)
    BY <1>0, <1>2 DEF TryAgain, MoveTo
  <2>3. QED
    BY <2>1, <2>2 DEF AttemptsLeft
<1>3. tries' \in 0 .. ReadAttempts /\ AttemptsLeft'
  <2>0. tries \in 0 .. ReadAttempts
    BY <1>0 DEF DataType
  <2>1. CASE TryRead
    BY <2>1, Counters DEF TryRead, AttemptsLeft
  <2>2. CASE TryReadBefore
    BY <1>0, <1>2, <2>0, <2>2 DEF TryReadBefore, AttemptsLeft, MoveTo
  <2>3. CASE TryReadWord
    BY <1>0, <2>0, <2>3 DEF TryReadWord, AttemptsLeft, MoveTo
  <2>4. CASE TryReadAfter
    BY <1>0, <1>2, <2>0, <2>4 DEF TryReadAfter, AttemptsLeft, MoveTo
  <2>5. CASE TryReadRecheck
    BY <1>0, <2>0, <2>5 DEF TryReadRecheck, AttemptsLeft, MoveTo
  <2>6. QED
    BY <2>1, <2>2, <2>3, <2>4, <2>5 DEF RenderStep
<1>4. position' \in [Threads -> 1 .. RequestWords]
  <2>1. position \in [Threads -> 1 .. RequestWords]
    BY <1>0 DEF DataType
  <2>2. \/ position' = position
        \/ position' = [position EXCEPT ![Render] = 1]
        \/ position[Render] < RequestWords /\ position' = [position EXCEPT ![Render] = position[Render] + 1]
    BY DEF RenderStep, TryRead, TryReadBefore, TryReadWord, TryReadAfter, TryReadRecheck, writers
  <2>3. 1 \in 1 .. RequestWords /\ (position[Render] < RequestWords => position[Render] + 1 \in 1 .. RequestWords)
    BY <1>0, <2>1, Counters
  <2>4. QED
    BY <2>1, <2>2, <2>3
<1>5. copied' \in [1 .. RequestWords -> 0 .. MaxFrame] /\ before' \in 0 .. RequestModulus - 1
      /\ accepted' \in 0 .. MaxFrame
  <2>1. /\ copied \in [1 .. RequestWords -> 0 .. MaxFrame] /\ words \in [1 .. RequestWords -> 0 .. MaxFrame]
        /\ position[Render] \in 1 .. RequestWords /\ 1 \in 1 .. RequestWords /\ accepted \in 0 .. MaxFrame
        /\ requestSequence \in 0 .. RequestModulus - 1 /\ before \in 0 .. RequestModulus - 1
    BY <1>0, Counters DEF DataType
  <2>2. copied' = copied \/ copied' = [copied EXCEPT ![position[Render]] = words[position[Render]]]
    BY DEF RenderStep, TryRead, TryReadBefore, TryReadWord, TryReadAfter, TryReadRecheck, reader
  <2>3. before' = before \/ before' = requestSequence
    BY DEF RenderStep, TryRead, TryReadBefore, TryReadWord, TryReadAfter, TryReadRecheck
  <2>4. accepted' = accepted \/ accepted' = copied[1]
    BY DEF RenderStep, TryRead, TryReadBefore, TryReadWord, TryReadAfter, TryReadRecheck
  <2>5. QED
    BY <2>1, <2>2, <2>3, <2>4
<1>6. DataType'
  BY <1>0, <1>1, <1>3, <1>4, <1>5 DEF DataType, control, seqlock
<1>7. QED
  BY <1>1, <1>3, <1>6 DEF Types

\* So does the host.
LEMMA HostType == ASSUME Types, HostPublishes PROVE Types'
<1>1. request' \in 0 .. MaxFrame
  <2>1. request \in 0 .. MaxFrame
    BY DEF Types, DataType
  <2>2. QED
    BY <2>1, BridgeBoundsAssumption DEF HostPublishes
<1>2. QED
  BY <1>1 DEF HostPublishes, Types, DataType, PcType, AttemptsLeft, control, seqlock, writers, reader

-----------------------------------------------------------------------------
(* The seqlock *)

\* A step that writes no word keeps the seqlock, if no writer enters or leaves
\* the middle of a write.
LEMMA SlotKept ==
  ASSUME SlotInv, UNCHANGED <<requestSequence, words>>,
         \A t \in Writers :
            \/ /\ at[t] \notin {"store", "release"}
               /\ at'[t] \notin {"exchange", "store", "release"}
            \/ /\ at'[t] = at[t] /\ writing'[t] = writing[t]
               /\ value'[t] = value[t] /\ position'[t] = position[t]
  PROVE  SlotInv'
<1>1. ASSUME NEW t \in Writers PROVE WriterInv(t)'
  <2>1. WriterInv(t)
    BY DEF SlotInv
  <2>2. QED
    BY <2>1 DEF WriterInv
<1>2. (\A t \in Writers : at'[t] \notin {"store", "release"}) => ~IsWriting(requestSequence') /\ Uniform'
  BY DEF SlotInv, Uniform
<1>3. QED
  BY <1>1, <1>2 DEF SlotInv

\* A publication writes one value into every word before the sequence is even
\* again, for there is no other writer.
LEMMA PublishSlot == ASSUME BridgeSafe, NEW t \in Writers, PublishRequest(t) PROVE SlotInv'
<1>0. /\ DataType /\ PcType /\ SlotInv /\ WriterInv(t) /\ t \in Threads
      /\ position[t] \in 1 .. RequestWords /\ position \in [Threads -> 1 .. RequestWords]
      /\ writing \in [Writers -> 0 .. RequestModulus - 1] /\ requestSequence \in 0 .. RequestModulus - 1
      /\ words \in [1 .. RequestWords -> 0 .. MaxFrame]
  BY TypeParts, ThreadNames DEF BridgeSafe, SlotInv, DataType
<1>1. /\ at[t] \in InPublish /\ (\A u \in Threads : u # t => at'[u] = at[u])
      /\ at \in [Threads -> Labels] /\ at' \in [Threads -> Labels]
  BY <1>0, PublishMoves DEF PcType
<1>2. \A u \in Writers : u # t => at[u] \notin InPublish /\ at'[u] = at[u]
  BY <1>1, AtMostOneWriter, ThreadNames DEF OneWriter
<1>3. \A u \in Writers : u # t => WriterInv(u)'
  BY <1>2 DEF WriterInv, InPublish
<1>4. SUFFICES /\ WriterInv(t)'
               /\ at'[t] \notin {"store", "release"} => ~IsWriting(requestSequence') /\ Uniform'
  BY <1>3, <1>4 DEF SlotInv
<1>5. CASE PublishLoad(t)
  <2>1. at'[t] = "exchange" /\ writing'[t] = Writing(requestSequence) /\ UNCHANGED <<requestSequence, words>>
    BY <1>0, <1>1, <1>5 DEF PublishLoad, MoveTo, seqlock
  <2>2. ~IsWriting(requestSequence) /\ Uniform
    BY <1>0, <1>2, <1>5 DEF SlotInv, PublishLoad, InPublish
  <2>3. IsWriting(Writing(requestSequence)) /\ Writing(requestSequence) \in 1 .. RequestModulus - 2
    BY <1>0, WritingFacts
  <2>4. QED
    BY <2>1, <2>2, <2>3 DEF WriterInv, Uniform
<1>6. CASE PublishExchange(t)
  <2>1. at'[t] = "store" /\ UNCHANGED <<writing, value>> /\ requestSequence' = writing[t] /\ position'[t] = 1
    BY <1>0, <1>1, <1>6 DEF PublishExchange, MoveTo
  <2>2. IsWriting(writing[t]) /\ writing[t] \in 1 .. RequestModulus - 2
    BY <1>0, <1>6 DEF PublishExchange, WriterInv
  <2>3. QED
    BY <2>1, <2>2 DEF WriterInv
<1>7. CASE PublishStore(t)
  <2>0. /\ UNCHANGED <<writing, value, requestSequence>>
        /\ \A k \in 1 .. RequestWords : words'[k] = IF k = position[t] THEN value[t] ELSE words[k]
    BY <1>0, <1>7 DEF PublishStore
  <2>1. /\ IsWriting(writing[t]) /\ writing[t] \in 1 .. RequestModulus - 2 /\ requestSequence = writing[t]
        /\ \A k \in 1 .. position[t] - 1 : words[k] = value[t]
    BY <1>0, <1>7 DEF PublishStore, WriterInv
  <2>2. CASE position[t] < RequestWords
    <3>1. position'[t] = position[t] + 1 /\ at'[t] = "store"
      BY <1>0, <1>7, <2>2 DEF PublishStore
    <3>2. \A k \in 1 .. position'[t] - 1 : words'[k] = value[t]
      BY <1>0, <2>0, <2>1, <2>2, <3>1, RequestWordsAssumption
    <3>3. QED
      BY <2>0, <2>1, <3>1, <3>2 DEF WriterInv
  <2>3. CASE ~(position[t] < RequestWords)
    <3>1. at'[t] = "release"
      BY <1>0, <1>1, <1>7, <2>3 DEF PublishStore, MoveTo
    <3>2. \A k \in 1 .. RequestWords : words'[k] = value[t]
      BY <1>0, <2>0, <2>1, <2>3, RequestWordsAssumption
    <3>3. QED
      BY <2>0, <2>1, <3>1, <3>2 DEF WriterInv
  <2>4. QED
    BY <2>2, <2>3
<1>8. CASE PublishRelease(t)
  <2>1. at'[t] = after[t] /\ at[t] = "release" /\ UNCHANGED words /\ requestSequence' = writing[t] + 1
    BY <1>0, <1>1, <1>8 DEF PublishRelease, MoveTo, Released
  <2>2. at'[t] \notin InPublish
    BY <1>1, <2>1, Returns DEF InPublish
  <2>3. ~IsWriting(requestSequence')
    <3>1. IsWriting(writing[t]) /\ writing[t] \in 1 .. RequestModulus - 2
      BY <1>0, <2>1 DEF WriterInv
    <3>2. writing[t] \in Nat
      BY <3>1
    <3>3. QED
      BY <2>1, <3>1, <3>2, Parity
  <2>4. Uniform'
    <3>1. \A k \in 1 .. RequestWords : words[k] = value[t]
      BY <1>0, <2>1 DEF WriterInv
    <3>2. QED
      BY <2>1, <3>1, Counters DEF Uniform
  <2>5. QED
    BY <2>2, <2>3, <2>4 DEF WriterInv, InPublish
<1>9. QED
  BY <1>5, <1>6, <1>7, <1>8 DEF PublishRequest

-----------------------------------------------------------------------------
(* What a caller may assume of the worker *)

\* The callers that are outside have no claim.
LEMMA OutsideInv ==
  ASSUME NEW d \in Callers, at'[d] = "out"
  PROVE  CallerInv(d)'
  BY DEF CallerInv, At, InPublish

\* A step that leaves the writers' places, the bridge, its events and the zero
\* words of a stopped bridge alone keeps the control.
LEMMA ControlKept ==
  ASSUME (\A c \in Callers : CallerInv(c)) /\ WorkerInv /\ BridgeInv,
         UNCHANGED <<control, after, value>>, \A t \in Writers : at'[t] = at[t],
         words' = words
  PROVE  (\A c \in Callers : CallerInv(c)') /\ WorkerInv' /\ BridgeInv'
<1> USE ThreadNames DEF control
<1>1. ASSUME NEW c \in Callers PROVE CallerInv(c)'
  <2>1. CallerInv(c) /\ \A d \in Callers : at'[d] = at[d]
    OBVIOUS
  <2>2. at'[c] = at[c] /\ at'[Worker] = at[Worker]
    OBVIOUS
  <2>3. QED
    BY <2>1, <2>2 DEF CallerInv, At, WorkerAlive
<1>2. WorkerInv' /\ BridgeInv'
  BY DEF WorkerInv, BridgeInv, At, WorkerAlive
<1>3. QED
  BY <1>1, <1>2

\* A busy caller is the only one.
LEMMA Alone ==
  ASSUME BridgeSafe, NEW c \in Callers, CallerOwn(c)
  PROVE  \A d \in Callers : d # c => at[d] = "out" \/ (at[c] = "out" /\ UNCHANGED <<control, at, after, value>>)
<1>1. CASE at[c] # "out"
  BY <1>1 DEF BridgeSafe, CallerInv
<1>2. CASE at[c] = "out"
  <2>1. BootstrapBegin(c) \/ StopBegin(c)
    BY <1>2 DEF CallerOwn, Bootstrap, Stop, BootstrapFails, BootstrapUndone,
         BootstrapCreatesWorker, BootstrapReady, BootstrapComplete, SetStop, Joined,
         JoinTimesOut, CloseResources
  <2>2. bridge \in {"idle", "running"} \/ UNCHANGED <<control, at, after, value>>
    BY <2>1 DEF BootstrapBegin, StopBegin, MayClaim, control, writers
  <2>3. bridge \in {"idle", "running"} => \A d \in Callers : at[d] = "out"
    BY DEF BridgeSafe, CallerInv
  <2>4. QED
    BY <1>2, <2>2, <2>3
<1>3. QED
  BY <1>1, <1>2

Control == (\A c \in Callers : CallerInv(c)) /\ WorkerInv /\ BridgeInv

\* A caller moves only itself; the worker, when it creates it.
LEMMA CallerMoves ==
  ASSUME DataType, PcType, NEW c \in Callers, CallerOwn(c)
  PROVE  /\ \A d \in Callers : d # c => at'[d] = at[d]
         /\ ~BootstrapCreatesWorker(c) => at'[Worker] = at[Worker]
         /\ UNCHANGED <<after, value>> \/ at'[c] = "load"
         /\ after'[Worker] = after[Worker] /\ value'[Worker] = value[Worker]
         /\ at[c] \notin InPublish /\ at'[c] \notin {"exchange", "store", "release"}
         /\ UNCHANGED <<requestSequence, words, writing, position, lastFrame, request, reader>>
<1>0. at \in [Threads -> Labels] /\ c \in Threads /\ c # Worker /\ Worker \in Writers
      /\ (\A d \in Callers : d \in Threads /\ d # Worker) /\ Worker \in Threads
      /\ after = [t \in Writers |-> after[t]] /\ value = [t \in Writers |-> value[t]]
  BY ThreadNames DEF PcType, DataType
<1> USE <1>0 DEF CallPublish, MoveTo, InPublish, seqlock, writers
<1>1. CASE BootstrapBegin(c)
  BY <1>1 DEF BootstrapBegin
<1>2. CASE StopBegin(c)
  BY <1>2 DEF StopBegin
<1>3. CASE BootstrapFails(c)
  BY <1>3 DEF BootstrapFails
<1>4. CASE BootstrapUndone(c)
  BY <1>4 DEF BootstrapUndone
<1>5. CASE BootstrapCreatesWorker(c)
  BY <1>5 DEF BootstrapCreatesWorker
<1>6. CASE BootstrapReady(c)
  BY <1>6 DEF BootstrapReady
<1>7. CASE BootstrapComplete(c)
  BY <1>7 DEF BootstrapComplete
<1>8. CASE SetStop(c)
  BY <1>8 DEF SetStop
<1>9. CASE Joined(c)
  BY <1>9 DEF Joined
<1>10. CASE JoinTimesOut(c)
  BY <1>10 DEF JoinTimesOut
<1>11. CASE CloseResources(c)
  BY <1>11 DEF CloseResources
<1>12. QED
  BY <1>1, <1>2, <1>3, <1>4, <1>5, <1>6, <1>7, <1>8, <1>9, <1>10, <1>11
     DEF CallerOwn, Bootstrap, Stop

\* What a caller does keeps everybody's claims.
LEMMA CallerControl ==
  ASSUME BridgeSafe, NEW c \in Callers, CallerOwn(c) PROVE Control'
<1>0. /\ DataType /\ PcType /\ CallerInv(c) /\ WorkerInv /\ BridgeInv
      /\ c \in Threads /\ c # Worker /\ Worker \in Threads /\ c \in Writers /\ Worker \in Writers
      /\ at \in [Threads -> Labels]
      /\ after = [t \in Writers |-> after[t]] /\ value = [t \in Writers |-> value[t]]
  BY TypeParts, ThreadNames DEF BridgeSafe, PcType, DataType
<1>1. CASE UNCHANGED <<control, at, after, value>>
  BY <1>0, <1>1, ControlKept, CallerMoves DEF Control, BridgeSafe
<1>2. CASE ~UNCHANGED <<control, at, after, value>>
  <2>1. \A d \in Callers : d # c => at'[d] = "out"
    BY <1>0, <1>2, Alone, CallerMoves
  <2>2. \A d \in Callers : d # c => CallerInv(d)'
    BY <2>1, OutsideInv
  <2>3. SUFFICES CallerInv(c)' /\ WorkerInv' /\ BridgeInv'
    BY <2>2, <2>3 DEF Control
  <2>4. \A d \in Callers : at'[c] # "out" /\ at'[d] # "out" => c = d
    BY <2>1
  <2>5. /\ UNCHANGED words /\ after'[Worker] = after[Worker]
        /\ ~BootstrapCreatesWorker(c) => at'[Worker] = at[Worker]
    BY <1>0, CallerMoves
  <2> USE <1>0, <2>4, <2>5 DEF CallerInv, WorkerInv, BridgeInv, At, WorkerAlive, InPublish, control
  <2>6. CASE BootstrapBegin(c)
    <3>1. bridge = "idle" /\ bridge' = "starting" /\ at'[c] = "load" /\ after'[c] = "open"
          /\ value'[c] = 0 /\ UNCHANGED <<opened, stopEvent, readyEvent, startStatus>>
      BY <1>2, <2>6 DEF BootstrapBegin, MayClaim, CallPublish, MoveTo
    <3>2. at'[Worker] = "none"
      BY <2>6, <3>1 DEF BootstrapBegin, BootstrapCreatesWorker
    <3>3. QED
      BY <3>1, <3>2
  <2>7. CASE StopBegin(c)
    <3>1. bridge = "running" /\ bridge' = "stopping" /\ at'[c] = "set stop"
          /\ UNCHANGED <<opened, stopEvent, readyEvent, startStatus>>
      BY <1>2, <2>7 DEF StopBegin, MoveTo, writers
    <3>2. at'[Worker] = at[Worker]
      BY <2>7, <2>5 DEF StopBegin, BootstrapCreatesWorker
    <3>3. QED
      BY <3>1, <3>2
  <2>8. CASE BootstrapFails(c)
    <3>1. bridge' = "failed" /\ at'[c] = "out" /\ at'[Worker] = at[Worker]
          /\ UNCHANGED <<opened, stopEvent, readyEvent, startStatus>>
      BY <2>8 DEF BootstrapFails, MoveTo
    <3>2. QED
      BY <3>1
  <2>9. CASE BootstrapUndone(c)
    <3>1. at[c] = "open" /\ bridge' = bridge /\ at'[c] = "load" /\ after'[c] = "close failed"
          /\ value'[c] = 0 /\ at'[Worker] = at[Worker] /\ opened'
          /\ UNCHANGED <<stopEvent, readyEvent, startStatus>>
      BY <2>9 DEF BootstrapUndone, CallPublish, MoveTo
    <3>2. QED
      BY <3>1
  <2>10. CASE BootstrapCreatesWorker(c)
    <3>1. at[c] = "open" /\ bridge' = bridge /\ at'[c] = "wait ready" /\ at'[Worker] = "start"
          /\ opened' /\ ~stopEvent' /\ ~readyEvent' /\ startStatus' = "not open"
      BY <2>10 DEF BootstrapCreatesWorker
    <3>2. QED
      BY <3>1
  <2>11. CASE BootstrapReady(c)
    <3>1. at[c] = "wait ready" /\ UNCHANGED control /\ at'[Worker] = at[Worker]
          /\ (at'[c] = "set stop" \/ (at'[c] = "complete" /\ readyEvent /\ startStatus = "ok"))
      BY <2>11 DEF BootstrapReady, MoveTo
    <3>2. readyEvent /\ startStatus = "ok" => At(Worker, "poll")
      <4>1. at[Worker] \in {"none", "start", "ready", "poll", "ended", "load", "exchange",
                            "store", "release"}
        BY DEF PcType, WorkerLabels
      <4>2. QED
        BY <3>1, <4>1
    <3>3. QED
      BY <3>1, <3>2
  <2>12. CASE BootstrapComplete(c)
    <3>1. at[c] = "complete" /\ UNCHANGED <<opened, stopEvent, readyEvent, startStatus>>
          /\ at'[Worker] = at[Worker]
          /\ \/ bridge' = "running" /\ at'[c] = "out"
             \/ bridge' = bridge /\ at'[c] = "set stop"
      BY <2>12 DEF BootstrapComplete, MoveTo
    <3>2. QED
      BY <3>1
  <2>13. CASE SetStop(c)
    <3>1. at[c] = "set stop" /\ UNCHANGED <<bridge, opened, readyEvent, startStatus>>
          /\ stopEvent' /\ at'[c] = "join" /\ at'[Worker] = at[Worker]
      BY <2>13 DEF SetStop, MoveTo
    <3>2. QED
      BY <3>1
  <2>14. CASE Joined(c)
    <3>1. at[c] = "join" /\ at[Worker] = "ended" /\ UNCHANGED control /\ at'[c] = "load"
          /\ value'[c] = 0 /\ at'[Worker] = at[Worker]
          /\ after'[c] \in {"close stopped", "close failed"}
      BY <2>14 DEF Joined, CallPublish, MoveTo, StopWasObserved
    <3>2. QED
      BY <3>1
  <2>15. CASE JoinTimesOut(c)
    <3>1. bridge' = "failed" /\ at'[c] = "out" /\ at'[Worker] = at[Worker]
          /\ UNCHANGED <<opened, stopEvent, readyEvent, startStatus>>
      BY <2>15 DEF JoinTimesOut, MoveTo
    <3>2. QED
      BY <3>1
  <2>16. CASE CloseResources(c)
    <3>1. at[c] \in {"close stopped", "close failed"} /\ ~opened' /\ at'[c] = "out"
          /\ bridge' = (IF at[c] = "close stopped" THEN "stopped" ELSE "failed")
          /\ at'[Worker] = at[Worker] /\ UNCHANGED <<stopEvent, readyEvent, startStatus>>
      BY <2>16 DEF CloseResources, MoveTo
    <3>2. QED
      BY <3>1
  <2>17. QED
    BY <2>6, <2>7, <2>8, <2>9, <2>10, <2>11, <2>12, <2>13, <2>14, <2>15, <2>16
       DEF CallerOwn, Bootstrap, Stop
<1>3. QED
  BY <1>1, <1>2

\* A publication returns where its caller's claims hold.
LEMMA PublishControl ==
  ASSUME BridgeSafe, NEW t \in Writers, PublishRequest(t) PROVE Control'
<1>0. /\ DataType /\ PcType /\ (\A c \in Callers : CallerInv(c)) /\ WorkerInv /\ BridgeInv
      /\ WriterInv(t) /\ words \in [1 .. RequestWords -> 0 .. MaxFrame]
  BY TypeParts DEF BridgeSafe, SlotInv, DataType
<1>1. /\ at[t] \in InPublish
      /\ at'[t] \in InPublish \/ (at[t] = "release" /\ at'[t] = after[t])
      /\ \A u \in Threads : u # t => at'[u] = at[u]
      /\ UNCHANGED <<control, after, value>>
  BY <1>0, PublishMoves
<1>2. words' = words \/ at'[t] \in InPublish
  BY <1>0 DEF PublishRequest, PublishLoad, PublishExchange, PublishStore, PublishRelease, seqlock,
              MoveTo, InPublish, PcType
<1> USE DEF control
<1>3. CASE t = Worker
  <2>1. \A c \in Callers : at'[c] = at[c] /\ at[c] \notin InPublish
    BY <1>1, <1>3, AtMostOneWriter, ThreadNames DEF OneWriter
  <2>2. after[Worker] \in {"poll", "ended"}
    BY <1>0, <1>1, <1>3 DEF WorkerInv
  <2>3. at[Worker] # "ended"
    BY <1>1, <1>3 DEF InPublish
  <2>4. /\ at'[Worker] \in InPublish \cup {"poll", "ended"}
        /\ At(Worker, "poll") => At(Worker, "poll")'
        /\ At(Worker, "ended")' => At(Worker, "ended")
    BY <1>1, <1>3, <2>2 DEF At, InPublish
  <2>5. ASSUME NEW c \in Callers PROVE CallerInv(c)'
    <3>1. CallerInv(c) /\ at'[c] = at[c] /\ at[c] \notin InPublish
          /\ \A d \in Callers : at'[d] = at[d]
      BY <1>0, <2>1
    <3>2. ~At(c, "open") /\ ~At(c, "close failed") /\ ~At(c, "close stopped")
      BY <1>1, <1>3, <2>3, <3>1 DEF CallerInv, WorkerAlive, InPublish
    <3>3. ~At(c, "open")' /\ ~At(c, "close failed")' /\ ~At(c, "close stopped")'
          /\ at'[c] # "close stopped"
      BY <1>1, <3>1, <3>2 DEF At
    <3>4. at'[Worker] # "none"
      BY <2>4 DEF InPublish
    <3>5. QED
      BY <1>1, <2>4, <3>1, <3>3, <3>4 DEF CallerInv
  <2>6. WorkerInv'
    <3>1. startStatus = "ok" /\ opened
      BY <1>0, <1>1, <1>3, <2>3 DEF WorkerInv, WorkerAlive, InPublish
    <3>2. at'[Worker] \notin {"none", "start", "ready"}
      BY <2>4 DEF InPublish
    <3>3. At(Worker, "ended")' => stopEvent
      BY <1>0, <2>4, <3>1 DEF WorkerInv
    <3>4. QED
      BY <1>1, <2>2, <3>1, <3>2, <3>3 DEF WorkerInv
  <2>7. BridgeInv'
    BY <1>0, <1>1, <1>2, <1>3, <2>3, <2>4 DEF BridgeInv, InPublish
  <2>8. QED
    BY <2>5, <2>6, <2>7 DEF Control
<1>4. CASE t \in Callers
  <2>0. CallerInv(t) /\ at[t] # "out" /\ t # Worker /\ at'[Worker] = at[Worker]
        /\ after[t] \in {"open", "close failed", "close stopped"} /\ value[t] = 0
    BY <1>0, <1>1, <1>4, ThreadNames DEF CallerInv, InPublish
  <2>1. \A d \in Callers : d # t => at'[d] = "out"
    BY <1>0, <1>1, <1>4, <2>0, ThreadNames DEF CallerInv
  <2>2. \A d \in Callers : d # t => CallerInv(d)'
    BY <2>1, OutsideInv
  <2>3. CallerInv(t)'
    <3>1. \A label \in {"open", "close failed", "close stopped"} :
            At(t, label)' => At(t, label)
      <4>1. after'[t] = after[t] /\ (at'[t] \in InPublish \/ at'[t] = after[t])
        BY <1>1
      <4>2. after[t] \notin InPublish
        BY <2>0 DEF InPublish
      <4>3. ASSUME NEW label \in {"open", "close failed", "close stopped"}, At(t, label)'
            PROVE  after[t] = label
        <5>1. label \notin InPublish
          BY DEF InPublish
        <5>2. QED
          BY <4>1, <4>2, <4>3, <5>1 DEF At
      <4>4. QED
        BY <1>1, <4>3 DEF At
    <3>2. at'[t] \notin {"wait ready", "complete", "set stop", "join"}
      BY <1>1, <2>0 DEF InPublish
    <3>3. at'[t] = "close stopped" => words' = Invalid
      <4>1. at'[t] = "close stopped" => at[t] = "release" /\ words' = words
        BY <1>1, <1>2 DEF InPublish
      <4>2. at[t] = "release" => words = Invalid
        BY <1>0, <2>0 DEF WriterInv, Invalid
      <4>3. QED
        BY <4>1, <4>2
    <3>4. \A d \in Callers : at'[t] # "out" /\ at'[d] # "out" => t = d
      BY <2>1
    <3>5. At(t, "open")' => bridge = "starting" /\ at[Worker] = "none"
      BY <2>0, <3>1 DEF CallerInv
    <3>6. /\ At(t, "close failed")' \/ At(t, "close stopped")' => ~WorkerAlive
          /\ At(t, "close stopped")' => at[Worker] = "ended"
      BY <2>0, <3>1 DEF CallerInv
    <3>7. WorkerAlive' <=> WorkerAlive
      BY <2>0 DEF WorkerAlive
    <3>8. bridge \in {"starting", "stopping"}
      BY <2>0 DEF CallerInv
    <3>9. QED
      BY <1>1, <2>0, <3>2, <3>3, <3>4, <3>5, <3>6, <3>7, <3>8 DEF CallerInv
  <2>4. WorkerInv'
    BY <1>0, <1>1, <2>0 DEF WorkerInv, At, WorkerAlive
  <2>5. BridgeInv'
    <3>1. bridge \in {"starting", "stopping"}
      BY <2>0 DEF CallerInv
    <3>2. QED
      BY <1>1, <3>1 DEF BridgeInv
  <2>6. QED
    BY <2>2, <2>3, <2>4, <2>5 DEF Control
<1>5. QED
  BY <1>3, <1>4, ThreadNames

\* What the worker does keeps everybody's claims.
LEMMA WorkerControl == ASSUME BridgeSafe, WorkerOwn PROVE Control'
<1>0. /\ DataType /\ PcType /\ (\A c \in Callers : CallerInv(c)) /\ WorkerInv /\ BridgeInv
      /\ Worker \in Threads /\ Worker \in Writers /\ at \in [Threads -> Labels]
      /\ (\A c \in Callers : c # Worker /\ c \in Threads /\ c \in Writers)
      /\ after = [t \in Writers |-> after[t]] /\ value = [t \in Writers |-> value[t]]
  BY TypeParts, ThreadNames DEF BridgeSafe, PcType, DataType
<1>1. /\ at[Worker] \in {"start", "ready", "poll"}
      /\ at'[Worker] \in {"ready", "poll", "ended", "load"}
      /\ \A c \in Callers : at'[c] = at[c] /\ after'[c] = after[c] /\ value'[c] = value[c]
      /\ UNCHANGED <<bridge, opened, stopEvent, words>>
  <2> USE <1>0 DEF MoveTo, CallPublish, control, seqlock, writers
  <2>1. CASE WorkerStart
    BY <2>1 DEF WorkerStart
  <2>2. CASE WorkerReady
    BY <2>2 DEF WorkerReady
  <2>3. CASE WorkerPoll
    BY <2>3 DEF WorkerPoll
  <2>4. CASE WorkerStop
    BY <2>4 DEF WorkerStop
  <2>5. QED
    BY <2>1, <2>2, <2>3, <2>4 DEF WorkerOwn
<1>2. At(Worker, "poll") => At(Worker, "poll")' \/ stopEvent
  BY <1>0, <1>1 DEF WorkerOwn, WorkerStart, WorkerReady, WorkerPoll, WorkerStop, CallPublish,
                    MoveTo, At, InPublish
<1>3. ASSUME NEW c \in Callers PROVE CallerInv(c)'
  <2>1. CallerInv(c) /\ \A d \in Callers : at'[d] = at[d]
    BY <1>0, <1>1
  <2>2. /\ ~At(c, "open") /\ ~At(c, "close failed") /\ ~At(c, "close stopped")
        /\ at[c] \notin InPublish
    BY <1>1, <2>1 DEF CallerInv, WorkerAlive, At
  <2>3. ~At(c, "open")' /\ ~At(c, "close failed")' /\ ~At(c, "close stopped")'
        /\ at'[c] # "close stopped" /\ at'[c] \notin InPublish
    BY <1>1, <2>2 DEF At
  <2>4. at'[c] = "complete" => At(Worker, "poll")'
    BY <1>1, <1>2, <2>1 DEF CallerInv
  <2>5. QED
    BY <1>1, <2>1, <2>3, <2>4 DEF CallerInv
<1>4. WorkerInv'
  <2> USE <1>0 DEF WorkerInv, At, InPublish, WorkerAlive, MoveTo, CallPublish, control, writers
  <2>1. CASE WorkerStart
    BY <2>1 DEF WorkerStart
  <2>2. CASE WorkerReady
    BY <2>2 DEF WorkerReady
  <2>3. CASE WorkerPoll
    BY <2>3 DEF WorkerPoll
  <2>4. CASE WorkerStop
    BY <2>4 DEF WorkerStop
  <2>5. QED
    BY <2>1, <2>2, <2>3, <2>4 DEF WorkerOwn
<1>5. BridgeInv'
  BY <1>0, <1>1, <1>2 DEF BridgeInv
<1>6. QED
  BY <1>3, <1>4, <1>5 DEF Control

-----------------------------------------------------------------------------
(* The frames *)

\* The numbers of frames and of the sequence, without their bounds.
LEMMA FrameNumbers ==
  ASSUME DataType
  PROVE  /\ lastFrame \in Nat /\ request \in Nat /\ accepted \in Nat
         /\ \A k \in 1 .. RequestWords : words[k] \in Nat /\ copied[k] \in Nat
         /\ \A t \in Writers : value[t] \in Nat
         /\ requestSequence \in Nat /\ before \in Nat
<1>1. 0 .. MaxFrame \subseteq Nat
  BY BridgeBoundsAssumption
<1>2a. requestSequence \in Nat /\ before \in Nat
  <2>1. requestSequence \in 0 .. RequestModulus - 1 /\ before \in 0 .. RequestModulus - 1
    BY DEF DataType
  <2>2. 0 .. RequestModulus - 1 \subseteq Nat
    BY RequestModulusAssumption
  <2>3. QED
    BY <2>1, <2>2
<1>2. lastFrame \in 0 .. MaxFrame /\ request \in 0 .. MaxFrame /\ accepted \in 0 .. MaxFrame
  BY DEF DataType
<1>3. words \in [1 .. RequestWords -> 0 .. MaxFrame] /\ copied \in [1 .. RequestWords -> 0 .. MaxFrame]
      /\ value \in [Writers -> 0 .. MaxFrame]
  BY DEF DataType
<1>4. QED
  BY <1>1, <1>2, <1>2a, <1>3

\* A step that hands over no new frame and writes no word keeps the frames.
LEMMA FrameKept ==
  ASSUME DataType, FrameInv, UNCHANGED <<lastFrame, words>>,
         request' \in Nat, request' >= request,
         \A t \in Writers :
            \/ at'[t] \notin InPublish
            \/ at'[t] = at[t] /\ value'[t] = value[t] /\ after'[t] = after[t]
            \/ at[t] \in InPublish /\ value'[t] = value[t] /\ after'[t] = after[t]
            \/ value'[t] = 0 /\ t # Worker
            \/ value'[t] = 0 /\ after'[t] # "poll"
  PROVE  FrameInv'
<1>0. lastFrame \in Nat /\ request \in Nat /\ Worker \in Writers
  BY FrameNumbers, ThreadNames
<1>1. lastFrame' <= request' /\ \A k \in 1 .. RequestWords : words'[k] <= lastFrame'
  BY <1>0 DEF FrameInv
<1>2. \A t \in Writers : at'[t] \in InPublish => value'[t] <= lastFrame'
  BY <1>0 DEF FrameInv
<1>3. At(Worker, "poll")' /\ at'[Worker] # "poll" => value'[Worker] = lastFrame'
  BY <1>0 DEF FrameInv, At, InPublish
<1>4. QED
  BY <1>1, <1>2, <1>3 DEF FrameInv

\* The callers only invalidate.
LEMMA CallerFrame ==
  ASSUME BridgeSafe, NEW c \in Callers, CallerOwn(c) PROVE FrameInv'
<1>0. /\ DataType /\ PcType /\ FrameInv /\ c \in Writers /\ c # Worker /\ request \in Nat
      /\ after = [t \in Writers |-> after[t]] /\ value = [t \in Writers |-> value[t]]
  BY TypeParts, ThreadNames, FrameNumbers DEF BridgeSafe, DataType
<1>1. /\ \A d \in Callers : d # c => at'[d] = at[d]
      /\ ~BootstrapCreatesWorker(c) => at'[Worker] = at[Worker]
      /\ after'[Worker] = after[Worker] /\ value'[Worker] = value[Worker]
      /\ UNCHANGED <<words, lastFrame, request>>
      /\ at[c] \notin InPublish /\ (UNCHANGED <<after, value>> \/ at'[c] = "load")
  BY <1>0, CallerMoves
<1>2. BootstrapCreatesWorker(c) => at'[Worker] = "start"
  BY <1>0, ThreadNames DEF BootstrapCreatesWorker, PcType
<1>3. \A t \in Writers : t # c => value'[t] = value[t] /\ after'[t] = after[t]
  BY <1>0 DEF CallerOwn, Bootstrap, Stop, BootstrapBegin, StopBegin, BootstrapFails,
         BootstrapUndone, BootstrapCreatesWorker, BootstrapReady, BootstrapComplete, SetStop,
         Joined, JoinTimesOut, CloseResources, CallPublish, writers
<1>4. at'[c] \notin InPublish \/ value'[c] = 0
  <2>1. CASE BootstrapBegin(c) \/ BootstrapUndone(c) \/ Joined(c)
    BY <1>0, <1>1, <2>1 DEF BootstrapBegin, BootstrapUndone, Joined, CallPublish
  <2>2. CASE StopBegin(c) \/ BootstrapFails(c) \/ BootstrapCreatesWorker(c)
             \/ BootstrapReady(c) \/ BootstrapComplete(c) \/ SetStop(c)
             \/ JoinTimesOut(c) \/ CloseResources(c)
    <3>1. at \in [Threads -> Labels] /\ c \in Threads /\ c # Worker
      BY <1>0, ThreadNames DEF PcType
    <3>2. QED
      BY <1>1, <2>2, <3>1 DEF StopBegin, BootstrapFails, BootstrapCreatesWorker, BootstrapReady,
         BootstrapComplete, SetStop, JoinTimesOut, CloseResources, MoveTo, InPublish
  <2>3. QED
    BY <2>1, <2>2 DEF CallerOwn, Bootstrap, Stop
<1>5. ASSUME NEW t \in Writers
      PROVE  \/ at'[t] \notin InPublish
             \/ at'[t] = at[t] /\ value'[t] = value[t] /\ after'[t] = after[t]
             \/ value'[t] = 0 /\ t # Worker
  <2>1. CASE t = c
    BY <1>0, <1>4, <2>1
  <2>2. CASE t = Worker
    BY <1>0, <1>1, <1>2, <2>2 DEF InPublish
  <2>3. CASE t # c /\ t \in Callers
    BY <1>1, <1>3, <2>3
  <2>4. QED
    BY <2>1, <2>2, <2>3, ThreadNames
<1>6. request' \in Nat /\ request' >= request
  BY <1>0, <1>1
<1>7. QED
  BY <1>0, <1>1, <1>5, <1>6, FrameKept

\* A word that is written is not newer than the worker's last frame.
LEMMA PublishFrame ==
  ASSUME BridgeSafe, NEW t \in Writers, PublishRequest(t) PROVE FrameInv'
<1>0. /\ DataType /\ PcType /\ FrameInv
  BY TypeParts DEF BridgeSafe
<1>1. /\ at[t] \in InPublish /\ (\A u \in Threads : u # t => at'[u] = at[u])
      /\ UNCHANGED <<control, after, value, lastFrame, reader, request, calls>>
      /\ at'[t] \in InPublish \/ (at[t] = "release" /\ at'[t] = after[t])
  BY <1>0, PublishMoves
<1>2. \A k \in 1 .. RequestWords : words'[k] <= lastFrame
  <2>1. value[t] <= lastFrame /\ \A k \in 1 .. RequestWords : words[k] <= lastFrame
    BY <1>0, <1>1 DEF FrameInv
  <2>2. words = [k \in 1 .. RequestWords |-> words[k]]
    BY <1>0 DEF DataType
  <2>3. words' = words \/ words' = [words EXCEPT ![position[t]] = value[t]]
    BY DEF PublishRequest, PublishLoad, PublishExchange, PublishStore, PublishRelease, seqlock
  <2>4. QED
    BY <2>1, <2>2, <2>3
<1>3. \A u \in Writers : at'[u] \in InPublish => at[u] \in InPublish
  BY <1>1, ThreadNames
<1>4. At(Worker, "poll")' /\ at'[Worker] # "poll" => value[Worker] = lastFrame
  <2>1. At(Worker, "poll")' /\ at'[Worker] # "poll" => At(Worker, "poll") /\ at[Worker] # "poll"
    BY <1>1, <1>3, ThreadNames DEF At, InPublish
  <2>2. QED
    BY <1>0, <2>1 DEF FrameInv
<1>5. QED
  BY <1>0, <1>1, <1>2, <1>3, <1>4 DEF FrameInv

\* The worker hands over only newer frames.
LEMMA WorkerFrame == ASSUME BridgeSafe, WorkerOwn PROVE FrameInv'
<1>0. /\ DataType /\ PcType /\ FrameInv /\ Worker \in Writers /\ Worker \in Threads
      /\ lastFrame \in Nat /\ request \in Nat /\ at \in [Threads -> Labels]
      /\ (\A t \in Writers : t \in Threads)
      /\ (\A k \in 1 .. RequestWords : words[k] \in Nat) /\ (\A t \in Writers : value[t] \in Nat)
      /\ after = [t \in Writers |-> after[t]] /\ value = [t \in Writers |-> value[t]]
  BY TypeParts, ThreadNames, FrameNumbers DEF BridgeSafe, PcType, DataType
<1>1. CASE WorkerStart \/ WorkerReady
  <2>1. /\ at'[Worker] \in {"ready", "poll", "ended"} /\ UNCHANGED <<lastFrame, words, request>>
        /\ \A t \in Writers : /\ value'[t] = value[t] /\ after'[t] = after[t]
                              /\ t # Worker => at'[t] = at[t]
    BY <1>0, <1>1 DEF WorkerStart, WorkerReady, MoveTo, seqlock, writers
  <2>2. at'[Worker] \notin InPublish
    BY <2>1 DEF InPublish
  <2>3. request' \in Nat /\ request' >= request
    BY <1>0, <2>1
  <2>4. QED
    BY <1>0, <2>1, <2>2, <2>3, FrameKept
<1>2. CASE WorkerStop
  <2>1. /\ at'[Worker] = "load" /\ UNCHANGED <<lastFrame, words, request>>
        /\ value'[Worker] = 0 /\ after'[Worker] = "ended"
        /\ \A t \in Writers : t # Worker =>
              value'[t] = value[t] /\ after'[t] = after[t] /\ at'[t] = at[t]
    BY <1>0, <1>2 DEF WorkerStop, CallPublish, MoveTo, seqlock
  <2>2. request' \in Nat /\ request' >= request
    BY <1>0, <2>1
  <2>3. QED
    BY <1>0, <2>1, <2>2, FrameKept
<1>3. CASE WorkerPoll
  <2>1. /\ lastFrame' = request /\ lastFrame < request /\ UNCHANGED <<words, request>>
        /\ value'[Worker] = request
        /\ \A t \in Writers : t # Worker => value'[t] = value[t] /\ at'[t] = at[t]
    BY <1>0, <1>3 DEF WorkerPoll, ShouldPublish, CallPublish, MoveTo, seqlock
  <2>2. \A k \in 1 .. RequestWords : words[k] <= request
    BY <1>0, <2>1 DEF FrameInv
  <2>3. \A t \in Writers : at'[t] \in InPublish => value'[t] <= request
    BY <1>0, <2>1 DEF FrameInv
  <2>4. QED
    BY <1>0, <2>1, <2>2, <2>3 DEF FrameInv
<1>4. QED
  BY <1>1, <1>2, <1>3 DEF WorkerOwn

-----------------------------------------------------------------------------
(* The invariant of the bridge *)

\* The parts of the invariant.
LEMMA BridgeParts == BridgeSafe <=> Types /\ Control /\ SlotInv /\ FrameInv
  BY TypeParts DEF BridgeSafe, Types, Control

\* Nothing is claimed, and nothing is published.
LEMMA InitSafe == BridgeInit => BridgeSafe
<1> SUFFICES ASSUME BridgeInit PROVE BridgeSafe
  OBVIOUS
<1>1. Types
  BY InitType DEF Types
<1>2. /\ \A c \in Callers : at[c] = "out"
      /\ at[Worker] = "none" /\ bridge = "idle" /\ ~readyEvent
      /\ \A t \in Writers : at[t] \in {"out", "none"}
  BY ThreadNames DEF BridgeInit
<1>3. Control
  BY <1>2 DEF Control, CallerInv, WorkerInv, BridgeInv, At, InPublish, WorkerAlive
<1>4. SlotInv
  <2>1. requestSequence = 0 /\ words = Invalid
    BY DEF BridgeInit
  <2>2. ~IsWriting(requestSequence)
    BY <2>1, Parity
  <2>3. Uniform
    BY <2>1, Counters DEF Uniform, Invalid
  <2>4. \A t \in Writers : WriterInv(t)
    BY <1>2 DEF WriterInv
  <2>5. QED
    BY <2>2, <2>3, <2>4 DEF SlotInv
<1>5. FrameInv
  <2>1. lastFrame = 0 /\ request = 0 /\ \A k \in 1 .. RequestWords : words[k] = 0
    BY DEF BridgeInit, Invalid
  <2>2. (\A t \in Writers : at[t] \notin InPublish) /\ ~At(Worker, "poll")
    BY <1>2 DEF At, InPublish
  <2>3. QED
    BY <2>1, <2>2 DEF FrameInv
<1>6. QED
  BY <1>1, <1>3, <1>4, <1>5, BridgeParts

\* The steps of the render thread and of the host.
LEMMA ReadersKeep ==
  ASSUME BridgeSafe, RenderStep \/ HostPublishes
  PROVE  Control' /\ SlotInv' /\ FrameInv'
<1>0. /\ Types /\ Control /\ SlotInv /\ FrameInv /\ DataType /\ PcType /\ request \in Nat
  BY BridgeParts, FrameNumbers DEF Types
<1>1. /\ \A t \in Writers : at'[t] = at[t] /\ position'[t] = position[t]
      /\ UNCHANGED <<control, after, requestSequence, words, writing, value, lastFrame>>
  BY <1>0, RenderMoves DEF HostPublishes, seqlock, writers
<1>2. request' \in Nat /\ request' >= request
  BY <1>0, RenderMoves, BridgeBoundsAssumption DEF HostPublishes
<1>3. Control'
  BY <1>0, <1>1, ControlKept DEF Control
<1>4. SlotInv'
  BY <1>0, <1>1, SlotKept
<1>5. FrameInv'
  BY <1>0, <1>1, <1>2, FrameKept
<1>6. QED
  BY <1>3, <1>4, <1>5

\* The seqlock under the steps that write no word.
LEMMA OwnSlot ==
  ASSUME BridgeSafe, WorkerOwn \/ \E c \in Callers : CallerOwn(c)
  PROVE  SlotInv'
<1>0. /\ DataType /\ PcType /\ SlotInv /\ at \in [Threads -> Labels]
      /\ after = [t \in Writers |-> after[t]] /\ value = [t \in Writers |-> value[t]]
  BY BridgeParts DEF Types, PcType, DataType
<1>1. CASE WorkerOwn
  <2>1. /\ at[Worker] \in {"start", "ready", "poll"}
        /\ at'[Worker] \in {"ready", "poll", "ended", "load"}
        /\ \A t \in Writers : t # Worker => at'[t] = at[t] /\ value'[t] = value[t]
        /\ UNCHANGED <<requestSequence, words, writing, position>>
    <3>0. Worker \in Threads /\ \A t \in Writers : t \in Threads
      BY ThreadNames
    <3> USE <1>0, <3>0 DEF MoveTo, CallPublish, seqlock, writers
    <3>1. CASE WorkerStart \/ WorkerReady
      BY <3>1 DEF WorkerStart, WorkerReady
    <3>2. CASE WorkerPoll \/ WorkerStop
      BY <3>2 DEF WorkerPoll, WorkerStop
    <3>3. QED
      BY <1>1, <3>1, <3>2 DEF WorkerOwn
  <2>2. QED
    BY <1>0, <2>1, SlotKept
<1>2. ASSUME NEW c \in Callers, CallerOwn(c) PROVE SlotInv'
  <2>1. /\ \A d \in Callers : d # c => at'[d] = at[d]
        /\ at[c] \notin InPublish /\ at'[c] \notin {"exchange", "store", "release"}
        /\ UNCHANGED <<requestSequence, words, writing, position>>
        /\ ~BootstrapCreatesWorker(c) => at'[Worker] = at[Worker]
    BY <1>0, <1>2, CallerMoves
  <2>2. \A t \in Writers : t # c => value'[t] = value[t]
    BY <1>0, <1>2 DEF CallerOwn, Bootstrap, Stop, BootstrapBegin, StopBegin, BootstrapFails,
         BootstrapUndone, BootstrapCreatesWorker, BootstrapReady, BootstrapComplete, SetStop,
         Joined, JoinTimesOut, CloseResources, CallPublish, writers
  <2>3. BootstrapCreatesWorker(c) => at'[Worker] = "start" /\ at[Worker] = "none"
    BY <1>0, ThreadNames DEF BootstrapCreatesWorker, BridgeSafe, CallerInv, At
  <2>4. \A t \in Writers :
            \/ /\ at[t] \notin {"store", "release"}
               /\ at'[t] \notin {"exchange", "store", "release"}
            \/ /\ at'[t] = at[t] /\ writing'[t] = writing[t]
               /\ value'[t] = value[t] /\ position'[t] = position[t]
    BY <2>1, <2>2, <2>3, ThreadNames DEF InPublish
  <2>5. QED
    BY <1>0, <2>1, <2>4, SlotKept
<1>3. QED
  BY <1>1, <1>2

\* The invariant is inductive.
LEMMA BridgeStep == BridgeSafe /\ [BridgeNext]_bridgeVars => BridgeSafe'
<1> SUFFICES ASSUME BridgeSafe, [BridgeNext]_bridgeVars PROVE BridgeSafe'
  OBVIOUS
<1>0. Types
  BY BridgeParts
<1>1. ASSUME NEW c \in Callers, CallerOwn(c) PROVE BridgeSafe'
  BY <1>0, <1>1, CallerType, CallerControl, OwnSlot, CallerFrame, BridgeParts
     DEF BridgeSafe, Types, Control, BridgeTypeOK, Domains, DataType, PcType, AttemptsLeft
<1>2. ASSUME NEW t \in Writers, PublishRequest(t) PROVE BridgeSafe'
  BY <1>2, PublishType, PublishControl, PublishSlot, PublishFrame
     DEF BridgeSafe, Types, Control, BridgeTypeOK, Domains, DataType, PcType, AttemptsLeft
<1>3. CASE WorkerOwn
  BY <1>0, <1>3, WorkerType, WorkerControl, OwnSlot, WorkerFrame
     DEF BridgeSafe, Types, Control, BridgeTypeOK, Domains, DataType, PcType, AttemptsLeft
<1>4. CASE RenderStep \/ HostPublishes
  BY <1>0, <1>4, RenderType, HostType, ReadersKeep
     DEF BridgeSafe, Types, Control, BridgeTypeOK, Domains, DataType, PcType, AttemptsLeft
<1>5. CASE UNCHANGED bridgeVars
  <2>1. Types'
    BY <1>0, <1>5 DEF bridgeVars, Types, DataType, PcType, AttemptsLeft, control, seqlock, writers, reader
  <2>2. Control'
    BY <1>5, ControlKept DEF bridgeVars, control, seqlock, writers, BridgeSafe, Control
  <2>3. SlotInv'
    BY <1>5 DEF bridgeVars, seqlock, writers, BridgeSafe, SlotInv, WriterInv, Uniform
  <2>4. FrameInv'
    BY <1>5 DEF bridgeVars, seqlock, writers, BridgeSafe, FrameInv, At
  <2>5. QED
    BY <2>1, <2>2, <2>3, <2>4
       DEF BridgeSafe, Types, Control, BridgeTypeOK, Domains, DataType, PcType, AttemptsLeft
<1>6. QED
  BY <1>1, <1>2, <1>3, <1>4, <1>5, ThreadNames DEF BridgeNext, Caller, CallerOwn, WorkerStep, WorkerOwn

\* In every reachable state the claims of the callers and the worker hold.
THEOREM BridgeInvariant == BridgeSpec => []BridgeSafe
<1>1. QED
  BY InitSafe, BridgeStep, PTL DEF BridgeSpec

\* Every variable keeps its type; the local sequence never overflows its width.
THEOREM TypeCorrect == BridgeSpec => []BridgeTypeOK
<1>1. BridgeSafe => BridgeTypeOK
  BY DEF BridgeSafe
<1>2. QED
  BY <1>1, BridgeInvariant, PTL

\* The local seqlock has no lock against a second writer and needs none, however
\* many threads call Bootstrap and Stop and however late the worker ends.
THEOREM SeqlockHasOneWriter == BridgeSpec => []OneWriter
<1>1. QED
  BY AtMostOneWriter, BridgeInvariant, PTL

\* The events, the channel and the log are never closed under the worker, also
\* when a wait for it times out (CloseStoppedResources).
THEOREM NothingIsClosedUnderTheWorker == BridgeSpec => []ResourcesOutliveWorker
<1>1. BridgeSafe => ResourcesOutliveWorker
  BY DEF BridgeSafe, WorkerInv, ResourcesOutliveWorker
<1>2. QED
  BY <1>1, BridgeInvariant, PTL

\* A successful stop leaves no worker, no resource and no request behind.
THEOREM StopsAreSilent == BridgeSpec => []StoppedIsSilent
<1>1. ASSUME BridgeSafe, bridge = "stopped"
      PROVE  ~WorkerAlive /\ ~opened /\ words = Invalid /\ ~IsWriting(requestSequence)
  <2>1. at[Worker] = "ended" /\ ~opened /\ words = Invalid
    BY <1>1 DEF BridgeSafe, BridgeInv
  <2>2. \A c \in Callers : at[c] = "out"
    BY <1>1 DEF BridgeSafe, CallerInv
  <2>3. \A t \in Writers : at[t] \notin {"store", "release"}
    BY <2>1, <2>2, ThreadNames
  <2>4. QED
    BY <1>1, <2>1, <2>3 DEF BridgeSafe, SlotInv, WorkerAlive
<1>2. BridgeSafe => StoppedIsSilent
  BY <1>1 DEF StoppedIsSilent
<1>3. QED
  BY <1>2, BridgeInvariant, PTL

-----------------------------------------------------------------------------
(* The sequence while the bridge runs *)

\* The sequence does not come round: the host's frames are fewer than half the
\* numbers of the sequence (2^31 in the code, months of frames).
NoWrap == 2 * MaxFrame < RequestModulus - 4

\* The next odd sequence while the worker relays, and at the first invalidation.
LEMMA NextWriting ==
  ASSUME NoWrap, BridgeSafe, ~IsWriting(requestSequence), requestSequence <= 2 * lastFrame \/ requestSequence = 0
  PROVE  Writing(requestSequence) = requestSequence + 1
<1>1. requestSequence \in 0 .. RequestModulus - 1 /\ lastFrame \in 0 .. MaxFrame
  BY DEF BridgeSafe, BridgeTypeOK
<1>2. requestSequence < RequestModulus - 4
  BY <1>1, RequestModulusAssumption, BridgeBoundsAssumption DEF NoWrap
<1>3. QED
  BY <1>1, <1>2, WritingFacts

\* A step that moves no writer and no sequence keeps its bounds.
LEMMA SequenceKept ==
  ASSUME SequenceInv, UNCHANGED <<bridge, after, requestSequence, writing, lastFrame>>,
         \A t \in Writers : at'[t] = at[t]
  PROVE  SequenceInv'
  BY ThreadNames DEF SequenceInv, At

\* The callers.
LEMMA CallerSequence ==
  ASSUME BridgeSafe, SequenceInv, NEW c \in Callers, CallerOwn(c)
  PROVE  SequenceInv'
<1>0. /\ DataType /\ PcType /\ CallerInv(c) /\ lastFrame \in Nat /\ requestSequence \in Nat
      /\ c \in Writers /\ Worker \in Writers /\ c # Worker
      /\ after = [t \in Writers |-> after[t]]
  BY BridgeParts, ThreadNames, FrameNumbers DEF BridgeSafe, Types, DataType
<1>1. /\ \A d \in Callers : d # c => at'[d] = at[d]
      /\ ~BootstrapCreatesWorker(c) => at'[Worker] = at[Worker]
      /\ after'[Worker] = after[Worker]
      /\ UNCHANGED <<after, value>> \/ at'[c] = "load"
      /\ at[c] \notin InPublish /\ at'[c] \notin {"exchange", "store", "release"}
      /\ UNCHANGED <<requestSequence, words, writing, position, lastFrame, request, reader>>
  BY <1>0, CallerMoves
<1>2. CASE UNCHANGED <<control, at, after, value>>
  BY <1>1, <1>2, SequenceKept DEF control
<1>3. CASE ~UNCHANGED <<control, at, after, value>>
  <2>1. \A d \in Callers : d # c => ~At(d, "open")' /\ at'[d] # "open"
    <3>1. \A d \in Callers : d # c => at'[d] = "out"
      BY <1>1, <1>3, Alone
    <3>2. QED
      BY <3>1 DEF At, InPublish
  <2>2. at'[c] # "open" /\ (At(c, "open")' => at'[c] = "load" /\ requestSequence = 0)
    <3>1. CASE BootstrapBegin(c)
      <4>1. bridge = "idle" /\ at'[c] = "load"
        BY <1>3, <3>1 DEF BootstrapBegin, MayClaim, CallPublish, MoveTo, control, BridgeSafe, Domains,
                          Threads, Writers
      <4>2. QED
        BY <4>1 DEF SequenceInv
    <3>2. CASE BootstrapUndone(c) \/ Joined(c)
      <4>1. at'[c] = "load" /\ after'[c] \in {"close failed", "close stopped"}
        BY <1>0, <3>2, ThreadNames DEF BootstrapUndone, Joined, CallPublish, MoveTo, PcType
      <4>2. QED
        BY <4>1 DEF At
    <3>3. CASE StopBegin(c) \/ BootstrapFails(c) \/ BootstrapCreatesWorker(c)
               \/ BootstrapReady(c) \/ BootstrapComplete(c) \/ SetStop(c)
               \/ JoinTimesOut(c) \/ CloseResources(c)
      <4>1. at \in [Threads -> Labels] /\ c \in Threads /\ c # Worker /\ (at[c] = "out" => ~At(c, "open"))
        BY <1>0, ThreadNames DEF PcType, At, InPublish
      <4>2. at'[c] \in {"out", "wait ready", "complete", "set stop", "join"}
        BY <3>3, <4>1 DEF StopBegin, BootstrapFails, BootstrapCreatesWorker, BootstrapReady,
                     BootstrapComplete, SetStop, JoinTimesOut, CloseResources, MoveTo
      <4>3. QED
        BY <4>2 DEF At, InPublish
    <3>4. QED
      BY <3>1, <3>2, <3>3 DEF CallerOwn, Bootstrap, Stop
  <2>3. bridge' # "idle"
    <3>1. bridge # "idle" \/ BootstrapBegin(c)
      BY <1>0, <1>3 DEF CallerInv, CallerOwn, Bootstrap, Stop, StopBegin, BootstrapFails,
         BootstrapUndone, BootstrapCreatesWorker, BootstrapReady, BootstrapComplete, SetStop,
         Joined, JoinTimesOut, CloseResources, control, writers
    <3>2. QED
      BY <1>3, <3>1 DEF CallerOwn, Bootstrap, Stop, BootstrapBegin, StopBegin, BootstrapFails,
         BootstrapUndone, BootstrapCreatesWorker, BootstrapReady, BootstrapComplete, SetStop,
         Joined, JoinTimesOut, CloseResources, control, writers
  <2>4. CASE BootstrapCreatesWorker(c)
    <3>1. at'[Worker] = "start" /\ at[c] = "open"
      BY <1>0, <2>4, ThreadNames DEF BootstrapCreatesWorker, PcType
    <3>2. requestSequence <= 2 * (lastFrame + 1)
      BY <1>0, <3>1 DEF SequenceInv
    <3>3. ~At(Worker, "poll")'
      BY <3>1 DEF At, InPublish
    <3>4. \A d \in Callers : /\ At(d, "open")' => at'[d] = "load" /\ requestSequence = 0
                             /\ at'[d] # "open"
      BY <2>1, <2>2
    <3>5. QED
      BY <1>1, <2>3, <3>1, <3>2, <3>3, <3>4 DEF SequenceInv
  <2>5. CASE ~BootstrapCreatesWorker(c)
    <3>1. \A d \in Callers : /\ At(d, "open")' => at'[d] = "load" /\ requestSequence = 0
                             /\ at'[d] # "open"
      BY <2>1, <2>2
    <3>2. at'[Worker] = at[Worker] /\ (At(Worker, "poll")' <=> At(Worker, "poll"))
      BY <1>1, <2>5 DEF At
    <3>3. QED
      BY <1>1, <2>3, <3>1, <3>2 DEF SequenceInv
  <2>6. QED
    BY <2>4, <2>5
<1>4. QED
  BY <1>2, <1>3

\* The worker: the next frame makes room for the next write.
LEMMA WorkerSequence ==
  ASSUME BridgeSafe, SequenceInv, WorkerOwn PROVE SequenceInv'
<1>0. /\ DataType /\ PcType /\ lastFrame \in Nat /\ request \in Nat /\ requestSequence \in Nat
      /\ Worker \in Writers /\ Worker \in Threads /\ at \in [Threads -> Labels]
      /\ (\A c \in Callers : c \in Writers /\ c # Worker /\ c \in Threads)
      /\ after = [t \in Writers |-> after[t]]
  BY BridgeParts, ThreadNames, FrameNumbers DEF Types, DataType, PcType
<1>1. /\ \A c \in Callers : at'[c] = at[c] /\ after'[c] = after[c]
      /\ UNCHANGED <<bridge, requestSequence, writing>>
  <2> USE <1>0 DEF MoveTo, CallPublish, control, seqlock, writers
  <2>1. CASE WorkerStart \/ WorkerReady
    BY <2>1 DEF WorkerStart, WorkerReady
  <2>2. CASE WorkerPoll \/ WorkerStop
    BY <2>2 DEF WorkerPoll, WorkerStop
  <2>3. QED
    BY <2>1, <2>2 DEF WorkerOwn
<1>2. /\ bridge' = "idle" => requestSequence' = 0
      /\ \A c \in Callers :
          /\ At(c, "open")' /\ at'[c] \in {"load", "exchange"} => requestSequence' = 0
          /\ At(c, "open")' /\ at'[c] \in {"store", "release"} => requestSequence' = 1
          /\ at'[c] = "open" => requestSequence' <= 2
          /\ At(c, "open")' /\ at'[c] = "exchange" => writing'[c] = 1
  BY <1>1 DEF SequenceInv, At
<1>3. CASE WorkerStart \/ WorkerReady
  <2>1. /\ at'[Worker] \in {"ready", "poll", "ended"} /\ lastFrame' = lastFrame
        /\ at[Worker] \in {"start", "ready"}
    BY <1>0, <1>3 DEF WorkerStart, WorkerReady, MoveTo
  <2>2. requestSequence <= 2 * (lastFrame + 1)
    BY <2>1 DEF SequenceInv
  <2>3. ~(At(Worker, "poll")' /\ at'[Worker] # "poll")
    BY <2>1 DEF At, InPublish
  <2>4. QED
    BY <1>1, <1>2, <2>1, <2>2, <2>3 DEF SequenceInv
<1>4. CASE WorkerPoll
  <2>1. /\ at[Worker] = "poll" /\ at'[Worker] = "load"
        /\ lastFrame' = request /\ lastFrame < request
    BY <1>0, <1>4 DEF WorkerPoll, CallPublish, MoveTo, ShouldPublish
  <2>2. requestSequence <= 2 * (lastFrame + 1)
    BY <2>1 DEF SequenceInv
  <2>3. requestSequence <= 2 * lastFrame'
    BY <1>0, <2>1, <2>2
  <2>4. requestSequence <= 2 * lastFrame' + 1
    BY <1>0, <2>1, <2>3
  <2>5. QED
    BY <1>1, <1>2, <2>1, <2>3, <2>4 DEF SequenceInv
<1>5. CASE WorkerStop
  <2>1. at'[Worker] = "load" /\ after'[Worker] = "ended"
    BY <1>0, <1>5 DEF WorkerStop, CallPublish, MoveTo
  <2>2. ~At(Worker, "poll")'
    BY <2>1 DEF At
  <2>3. QED
    BY <1>2, <2>1, <2>2 DEF SequenceInv
<1>6. QED
  BY <1>3, <1>4, <1>5 DEF WorkerOwn

\* What each step of a publication does to the sequence and the number it holds.
LEMMA PublishNumbers ==
  ASSUME BridgeSafe, NEW t \in Writers, PublishRequest(t)
  PROVE  \/ /\ at[t] = "load" /\ at'[t] = "exchange" /\ requestSequence' = requestSequence
            /\ writing'[t] = Writing(requestSequence)
         \/ /\ at[t] = "exchange" /\ at'[t] = "store" /\ requestSequence' = writing[t]
         \/ /\ at[t] = "store" /\ at'[t] \in {"store", "release"} /\ requestSequence' = requestSequence
         \/ /\ at[t] = "release" /\ at'[t] = after[t] /\ requestSequence' = requestSequence + 1
<1>0. /\ DataType /\ PcType /\ WriterInv(t) /\ t \in Threads
      /\ at \in [Threads -> Labels] /\ writing = [u \in Writers |-> writing[u]]
  BY BridgeParts, ThreadNames DEF Types, DataType, PcType, SlotInv
<1>1. CASE PublishLoad(t)
  BY <1>0, <1>1 DEF PublishLoad, MoveTo, seqlock
<1>2. CASE PublishExchange(t)
  BY <1>0, <1>2 DEF PublishExchange, MoveTo
<1>3. CASE PublishStore(t)
  BY <1>0, <1>3 DEF PublishStore, MoveTo
<1>4. CASE PublishRelease(t)
  <2>1. at[t] = "release" /\ requestSequence = writing[t]
    BY <1>0, <1>4 DEF PublishRelease, WriterInv
  <2>2. QED
    BY <1>0, <1>4, <2>1 DEF PublishRelease, MoveTo, Released
<1>5. QED
  BY <1>1, <1>2, <1>3, <1>4 DEF PublishRequest

\* The publications: at most two numbers for each frame.
LEMMA PublishSequence ==
  ASSUME NoWrap, BridgeSafe, SequenceInv, NEW t \in Writers, PublishRequest(t)
  PROVE  SequenceInv'
<1>0. /\ DataType /\ PcType /\ SlotInv /\ lastFrame \in Nat /\ requestSequence \in Nat /\ t \in Threads
  BY BridgeParts, ThreadNames, FrameNumbers DEF Types, DataType
<1>1. /\ at[t] \in InPublish /\ (\A u \in Threads : u # t => at'[u] = at[u])
      /\ UNCHANGED <<bridge, after, lastFrame>>
      /\ at'[t] \in InPublish \/ at'[t] = after[t]
  BY <1>0, PublishMoves DEF control
<1>2. at[t] \in {"load", "exchange"} => ~IsWriting(requestSequence)
  <2>1. \A u \in Writers : u # t => at[u] \notin InPublish
    BY <1>1, AtMostOneWriter DEF OneWriter
  <2>2. QED
    BY <1>0, <2>1 DEF SlotInv, InPublish
<1>3. CASE t \in Callers
  <2>0. /\ at'[Worker] = at[Worker] /\ t # Worker
        /\ after[t] \in {"open", "close failed", "close stopped"} /\ at[t] # "out"
        /\ bridge \in {"starting", "stopping"}
    BY <1>1, <1>3, ThreadNames DEF BridgeSafe, CallerInv, InPublish
  <2>1. \A d \in Callers : d # t => at'[d] = "out"
    BY <1>1, <1>3, <2>0, ThreadNames DEF BridgeSafe, CallerInv
  <2>2. \A d \in Callers : d # t => ~At(d, "open")' /\ at'[d] # "open"
    BY <2>1 DEF At, InPublish
  <2>3. at[Worker] \in {"none", "ended"}
    BY <1>1, <1>3, <2>0 DEF BridgeSafe, CallerInv, At, WorkerAlive
  <2>4. ~At(Worker, "poll")' /\ at'[Worker] \notin {"start", "ready", "poll"}
    BY <2>0, <2>3 DEF At, InPublish
  <2>5. CASE after[t] = "open"
    <3>1. At(t, "open")
      BY <1>1, <2>5 DEF At
    <3>2. CASE at[t] = "load" /\ at'[t] = "exchange" /\ requestSequence' = requestSequence
               /\ writing'[t] = Writing(requestSequence)
      <4>1. requestSequence = 0
        BY <3>1, <3>2, <1>3 DEF SequenceInv
      <4>2. writing'[t] = 1
        BY <1>2, <3>2, <4>1, NextWriting
      <4>3. QED
        BY <1>1, <2>0, <2>2, <2>4, <3>2, <4>1, <4>2 DEF SequenceInv
    <3>3. CASE at[t] = "exchange" /\ at'[t] = "store" /\ requestSequence' = writing[t]
      <4>1. writing[t] = 1
        BY <1>3, <3>1, <3>3 DEF SequenceInv
      <4>2. QED
        BY <1>1, <2>0, <2>2, <2>4, <3>3, <4>1 DEF SequenceInv
    <3>4. CASE at[t] = "store" /\ at'[t] \in {"store", "release"} /\ requestSequence' = requestSequence
      <4>1. requestSequence = 1
        BY <1>3, <3>1, <3>4 DEF SequenceInv
      <4>2. QED
        BY <1>1, <2>0, <2>2, <2>4, <3>4, <4>1 DEF SequenceInv
    <3>5. CASE at[t] = "release" /\ at'[t] = after[t] /\ requestSequence' = requestSequence + 1
      <4>1. requestSequence = 1
        BY <1>3, <3>1, <3>5 DEF SequenceInv
      <4>2. QED
        BY <1>1, <2>0, <2>2, <2>4, <2>5, <3>5, <4>1 DEF SequenceInv
    <3>6. QED
      BY <3>2, <3>3, <3>4, <3>5, PublishNumbers
  <2>6. CASE after[t] # "open"
    <3>1. ~At(t, "open")'
      BY <1>1, <2>6 DEF At, InPublish
    <3>2. at'[t] # "open"
      BY <3>1 DEF At
    <3>3. \A d \in Callers : ~At(d, "open")' /\ at'[d] # "open"
      BY <2>2, <3>1, <3>2
    <3>4. bridge' # "idle"
      BY <1>1, <2>0
    <3>5. QED
      BY <2>4, <3>3, <3>4 DEF SequenceInv
  <2>7. QED
    BY <2>5, <2>6
<1>4. CASE t = Worker
  <2>0. /\ after[Worker] \in {"poll", "ended"} /\ \A c \in Callers : at'[c] = at[c]
        /\ at[Worker] \notin {"none", "poll"}
    BY <1>1, <1>4, ThreadNames DEF BridgeSafe, WorkerInv, InPublish
  <2>1. \A c \in Callers : ~At(c, "open") /\ at[c] # "open"
    BY <2>0 DEF BridgeSafe, CallerInv, At
  <2>2. \A c \in Callers : ~At(c, "open")' /\ at'[c] # "open"
    BY <1>1, <2>0, <2>1 DEF At
  <2>3. bridge' # "idle"
    BY <1>1, <2>0 DEF BridgeSafe, BridgeInv
  <2>4. CASE after[Worker] = "ended"
    <3>1. ~At(Worker, "poll")' /\ at'[Worker] \notin {"start", "ready", "poll"}
      BY <1>1, <1>4, <2>4 DEF At, InPublish
    <3>2. QED
      BY <2>2, <2>3, <3>1 DEF SequenceInv
  <2>5. CASE after[Worker] = "poll"
    <3>1. At(Worker, "poll") /\ requestSequence <= 2 * lastFrame + 1
      BY <1>1, <1>4, <2>0, <2>5 DEF At, SequenceInv
    <3>2. CASE at[Worker] = "load" /\ at'[Worker] = "exchange" /\ requestSequence' = requestSequence
               /\ writing'[Worker] = Writing(requestSequence)
      <4>1. requestSequence <= 2 * lastFrame
        BY <3>1, <3>2 DEF SequenceInv
      <4>2. writing'[Worker] = requestSequence + 1
        BY <1>2, <1>4, <3>2, <4>1, NextWriting
      <4>3. QED
        BY <1>1, <2>2, <2>3, <3>1, <3>2, <4>1, <4>2 DEF SequenceInv
    <3>3. CASE at[Worker] = "exchange" /\ at'[Worker] = "store" /\ requestSequence' = writing[Worker]
      <4>1. writing[Worker] = requestSequence + 1 /\ requestSequence <= 2 * lastFrame
        BY <3>1, <3>3 DEF SequenceInv
      <4>2. requestSequence' <= 2 * lastFrame + 1
        BY <1>0, <3>3, <4>1
      <4>3. QED
        BY <1>1, <2>2, <2>3, <3>3, <4>2 DEF SequenceInv
    <3>4. CASE at[Worker] = "store" /\ at'[Worker] \in {"store", "release"} /\ requestSequence' = requestSequence
      BY <1>1, <2>2, <2>3, <3>1, <3>4 DEF SequenceInv
    <3>5. CASE at[Worker] = "release" /\ at'[Worker] = after[Worker] /\ requestSequence' = requestSequence + 1
      <4>1. requestSequence' <= 2 * (lastFrame + 1)
        BY <1>0, <3>1, <3>5
      <4>2. QED
        BY <1>1, <2>2, <2>3, <2>5, <3>5, <4>1 DEF SequenceInv
    <3>6. QED
      BY <1>4, <3>2, <3>3, <3>4, <3>5, PublishNumbers
  <2>6. QED
    BY <2>0, <2>4, <2>5
<1>5. QED
  BY <1>3, <1>4, ThreadNames

\* The bounds of the sequence are kept.
LEMMA SequenceStep ==
  ASSUME NoWrap, BridgeSafe, SequenceInv, [BridgeNext]_bridgeVars PROVE SequenceInv'
<1>1. CASE RenderStep \/ HostPublishes \/ UNCHANGED bridgeVars
  <2>1. UNCHANGED <<bridge, after, requestSequence, writing, lastFrame>> /\ \A t \in Writers : at'[t] = at[t]
    BY <1>1, RenderMoves, BridgeParts
       DEF HostPublishes, bridgeVars, control, seqlock, writers, Types
  <2>2. QED
    BY <2>1, SequenceKept
<1>2. QED
  BY <1>1, CallerSequence, WorkerSequence, PublishSequence, ThreadNames
     DEF BridgeNext, Caller, CallerOwn, WorkerStep, WorkerOwn

-----------------------------------------------------------------------------
(* The render thread's reads *)

\* While the bridge runs only the worker writes, and only frames.
LEMMA RunningWriter ==
  ASSUME BridgeSafe, bridge = "running"
  PROVE  /\ \A c \in Callers : at[c] = "out"
         /\ At(Worker, "poll")
  BY DEF BridgeSafe, CallerInv, BridgeInv

\* An even sequence covers equal words.
LEMMA EvenIsWhole == ASSUME BridgeSafe, ~IsWriting(requestSequence) PROVE Uniform
<1>1. \A t \in Writers : at[t] \notin {"store", "release"}
  BY DEF BridgeSafe, SlotInv, WriterInv
<1>2. QED
  BY <1>1 DEF BridgeSafe, SlotInv

\* Before the bridge runs nobody reads, and nothing begins before it again.
LEMMA BeforeRunning ==
  ASSUME BridgeSafe, ReaderInv, [BridgeNext]_bridgeVars, bridge' \in {"idle", "starting"}
  PROVE  bridge \in {"idle", "starting"} /\ at'[Render] = "out" /\ accepted' = accepted
<1>0. Types /\ DataType /\ PcType /\ at \in [Threads -> Labels]
  BY BridgeParts DEF Types, PcType
<1>1. ASSUME bridge' = bridge PROVE at[Render] = "out"
  BY <1>1 DEF ReaderInv
<1>2. ASSUME NEW c \in Callers, CallerOwn(c)
      PROVE  bridge \in {"idle", "starting"} /\ at'[Render] = at[Render] /\ accepted' = accepted
  <2>1. bridge \in {"idle", "starting"}
    BY <1>2 DEF CallerOwn, Bootstrap, Stop, BootstrapBegin, StopBegin, BootstrapFails,
         BootstrapUndone, BootstrapCreatesWorker, BootstrapReady, BootstrapComplete, SetStop,
         Joined, JoinTimesOut, CloseResources, control, writers, MayClaim
  <2>2. accepted' = accepted
    BY <1>0, <1>2, CallerMoves DEF reader
  <2>3. c \in Threads /\ c # Render /\ Worker # Render /\ Render \in Threads
    BY ThreadNames
  <2>4. at'[Render] = at[Render]
    BY <1>0, <1>2, <2>3 DEF CallerOwn, Bootstrap, Stop, BootstrapBegin, StopBegin, BootstrapFails,
         BootstrapUndone, BootstrapCreatesWorker, BootstrapReady, BootstrapComplete, SetStop,
         Joined, JoinTimesOut, CloseResources, CallPublish, MoveTo
  <2>5. QED
    BY <2>1, <2>2, <2>4
<1>3. ASSUME NEW t \in Writers, PublishRequest(t)
      PROVE  bridge' = bridge /\ at'[Render] = at[Render] /\ accepted' = accepted
  BY <1>0, <1>3, PublishMoves, ThreadNames DEF control, reader
<1>4. ASSUME WorkerOwn
      PROVE  bridge' = bridge /\ at'[Render] = at[Render] /\ accepted' = accepted
  BY <1>0, <1>4, ThreadNames DEF WorkerOwn, WorkerStart, WorkerReady, WorkerPoll, WorkerStop,
         CallPublish, MoveTo, control, reader
<1>5. ASSUME RenderStep
      PROVE  FALSE
  <2>1. bridge' = bridge
    BY <1>0, <1>5, RenderMoves DEF control
  <2>2. at[Render] = "out"
    BY <1>1, <2>1
  <2>3. bridge = "running"
    BY <1>5, <2>2 DEF RenderStep, TryRead, TryReadBefore, TryReadWord, TryReadAfter, TryReadRecheck
  <2>4. QED
    BY <2>1, <2>3
<1>6. HostPublishes \/ UNCHANGED bridgeVars =>
         bridge' = bridge /\ at'[Render] = at[Render] /\ accepted' = accepted
  BY DEF HostPublishes, bridgeVars, control, reader
<1>7. bridge \in {"idle", "starting"} /\ at'[Render] = at[Render] /\ accepted' = accepted
  BY <1>2, <1>3, <1>4, <1>5, <1>6, ThreadNames
     DEF BridgeNext, Caller, CallerOwn, WorkerStep, WorkerOwn
<1>8. at[Render] = "out"
  BY <1>7 DEF ReaderInv
<1>9. QED
  BY <1>7, <1>8

\* The part of the reader's claims that holds while the bridge runs.
RunningReader ==
    /\ \A k \in 1 .. RequestWords : accepted <= words[k]
    /\ at[Render] \in {"copy", "after"} => ~IsWriting(before) /\ before <= requestSequence
    /\ at[Render] = "copy" /\ requestSequence = before =>
          \A k \in 1 .. position[Render] - 1 : copied[k] = words[k]
    /\ at[Render] = "after" /\ requestSequence = before =>
          \A k \in 1 .. RequestWords : copied[k] = words[k]
    /\ at[Render] = "recheck" =>
          /\ \A k \in 1 .. RequestWords : copied[k] = copied[1]
          /\ accepted <= copied[1] /\ \A k \in 1 .. RequestWords : copied[1] <= words[k]

\* A step that leaves the seqlock and the reader alone keeps its claims.
LEMMA ReaderKept ==
  ASSUME RunningReader, UNCHANGED <<requestSequence, words, before, copied, accepted>>,
         at'[Render] = at[Render], position'[Render] = position[Render]
  PROVE  RunningReader'
  BY DEF RunningReader

\* A write moves the sequence past every number a reader may hold, and only
\* brings newer frames.
LEMMA PublishReader ==
  ASSUME NoWrap, BridgeSafe, SequenceInv, RunningReader, bridge = "running",
         NEW t \in Writers, PublishRequest(t)
  PROVE  RunningReader'
<1>0. /\ DataType /\ PcType /\ SlotInv /\ FrameInv /\ lastFrame \in Nat /\ requestSequence \in Nat
      /\ before \in Nat /\ accepted \in Nat
      /\ (\A k \in 1 .. RequestWords : words[k] \in Nat /\ copied[k] \in Nat)
  BY BridgeParts, FrameNumbers DEF Types
<1>1. /\ at[t] \in InPublish /\ at'[Render] = at[Render]
      /\ UNCHANGED <<before, copied, accepted>>
  BY <1>0, PublishMoves, ThreadNames DEF reader
<1>2. t = Worker /\ At(Worker, "poll") /\ at[Worker] # "poll" /\ value[Worker] = lastFrame
  <2>1. t = Worker /\ At(Worker, "poll")
    BY <1>1, RunningWriter, ThreadNames DEF InPublish
  <2>2. at[Worker] # "poll"
    BY <1>1, <2>1 DEF InPublish
  <2>3. QED
    BY <1>0, <2>1, <2>2 DEF FrameInv
<1>3. position'[Render] = position[Render]
  <2>1. position = [u \in Threads |-> position[u]] /\ t # Render /\ Render \in Threads
    BY <1>0, ThreadNames DEF DataType
  <2>2. QED
    BY <2>1 DEF PublishRequest, PublishLoad, PublishExchange, PublishStore, PublishRelease, writers
<1>4. CASE PublishLoad(t)
  BY <1>1, <1>3, <1>4, ReaderKept DEF PublishLoad, seqlock
<1>5. CASE PublishExchange(t) \/ PublishRelease(t)
  <2>1. requestSequence' = requestSequence + 1 /\ words' = words
    <3>1. CASE PublishExchange(t)
      <4>1. writing[Worker] = requestSequence + 1
        BY <1>2, <3>1 DEF PublishExchange, SequenceInv
      <4>2. QED
        BY <1>2, <3>1, <4>1 DEF PublishExchange
    <3>2. CASE PublishRelease(t)
      BY <1>0, <3>2 DEF PublishRelease, Released, SlotInv, WriterInv
    <3>3. QED
      BY <1>5, <3>1, <3>2
  <2>2. at[Render] \in {"copy", "after"} => before <= requestSequence' /\ requestSequence' # before
    BY <1>0, <2>1 DEF RunningReader
  <2>3. QED
    BY <1>1, <2>1, <2>2 DEF RunningReader
<1>6. CASE PublishStore(t)
  <2>1. /\ at[t] = "store" /\ requestSequence' = requestSequence
        /\ words' = [words EXCEPT ![position[t]] = lastFrame]
    BY <1>2, <1>6 DEF PublishStore
  <2>2. IsWriting(requestSequence)
    BY <1>0, <2>1 DEF SlotInv, WriterInv
  <2>3. \A k \in 1 .. RequestWords : words'[k] \in {words[k], lastFrame} /\ words[k] <= lastFrame
    BY <1>0, <2>1 DEF DataType, FrameInv
  <2>4. \A k \in 1 .. RequestWords : words'[k] \in Nat /\ words'[k] >= words[k]
    BY <1>0, <2>3
  <2>5. at[Render] \in {"copy", "after"} => requestSequence # before
    BY <2>2 DEF RunningReader
  <2>6. \A k \in 1 .. RequestWords : accepted <= words'[k]
    BY <1>0, <2>4 DEF RunningReader
  <2>7. at[Render] = "recheck" => \A k \in 1 .. RequestWords : copied[1] <= words'[k]
    BY <1>0, <2>4, Counters DEF RunningReader
  <2>8. QED
    BY <1>1, <2>1, <2>5, <2>6, <2>7 DEF RunningReader
<1>7. QED
  BY <1>4, <1>5, <1>6 DEF PublishRequest

\* The reader's own steps: what it has copied under an even sequence that has not
\* moved is one frame.
LEMMA RenderReader ==
  ASSUME BridgeSafe, RunningReader, bridge = "running", RenderStep
  PROVE  RunningReader'
<1>0. /\ DataType /\ PcType /\ requestSequence \in Nat /\ before \in Nat /\ accepted \in Nat
      /\ (\A k \in 1 .. RequestWords : words[k] \in Nat /\ copied[k] \in Nat)
      /\ at \in [Threads -> Labels] /\ Render \in Threads /\ position[Render] \in 1 .. RequestWords
      /\ position \in [Threads -> 1 .. RequestWords] /\ copied = [k \in 1 .. RequestWords |-> copied[k]]
  BY BridgeParts, FrameNumbers, ThreadNames DEF Types, PcType, DataType
<1>1. UNCHANGED <<requestSequence, words>>
  BY <1>0, RenderMoves DEF seqlock
<1>2. ASSUME accepted' = accepted, at'[Render] \in {"out", "before"}
      PROVE  RunningReader'
  BY <1>1, <1>2 DEF RunningReader
<1>3. CASE TryRead
  BY <1>0, <1>2, <1>3 DEF TryRead, MoveTo
<1>4. ASSUME TryAgain, accepted' = accepted PROVE RunningReader'
  BY <1>0, <1>2, <1>4 DEF TryAgain, MoveTo
<1>5. CASE TryReadBefore
  <2>1. accepted' = accepted
    BY <1>5 DEF TryReadBefore
  <2>2. CASE MoveTo(Render, "out")
    BY <1>0, <1>2, <2>1, <2>2 DEF MoveTo
  <2>3. CASE TryAgain
    BY <1>4, <2>1, <2>3
  <2>4. CASE /\ ~IsWriting(requestSequence) /\ before' = requestSequence
             /\ position' = [position EXCEPT ![Render] = 1] /\ MoveTo(Render, "copy")
    <3>1. at'[Render] = "copy" /\ position'[Render] = 1
      BY <1>0, <2>4 DEF MoveTo
    <3>2. before' <= requestSequence'
      BY <1>0, <1>1, <2>4
    <3>3. QED
      BY <1>1, <2>1, <2>4, <3>1, <3>2 DEF RunningReader
  <2>5. QED
    BY <1>5, <2>2, <2>3, <2>4 DEF TryReadBefore
<1>6. CASE TryReadWord
  <2>1. /\ at[Render] = "copy" /\ UNCHANGED <<before, accepted>>
        /\ \A k \in 1 .. RequestWords : copied'[k] = IF k = position[Render] THEN words[k] ELSE copied[k]
    BY <1>0, <1>6 DEF TryReadWord
  <2> DEFINE n == position[Render]
  <2>a. \A k \in 1 .. n : k \in 1 .. RequestWords /\ (k # n => k \in 1 .. n - 1)
    BY <1>0, RequestWordsAssumption
  <2>b. requestSequence = before => \A k \in 1 .. n : copied'[k] = words[k]
    <3>1. requestSequence = before => \A k \in 1 .. n - 1 : copied[k] = words[k]
      BY <2>1 DEF RunningReader
    <3> HIDE DEF n
    <3>2. QED
      BY <2>1, <2>a, <3>1 DEF n
  <2>2. CASE position[Render] < RequestWords
    <3>1. position'[Render] = position[Render] + 1 /\ at'[Render] = "copy"
      BY <1>0, <1>6, <2>2 DEF TryReadWord
    <3>2. position'[Render] - 1 = n
      BY <1>0, <3>1
    <3>3. QED
      BY <1>1, <2>1, <2>b, <3>1, <3>2 DEF RunningReader
  <2>3. CASE ~(position[Render] < RequestWords)
    <3>1. at'[Render] = "after" /\ position[Render] = RequestWords
      BY <1>0, <1>6, <2>3, RequestWordsAssumption DEF TryReadWord, MoveTo
    <3>2. requestSequence = before => \A k \in 1 .. RequestWords : copied'[k] = words[k]
      BY <2>b, <3>1
    <3>3. QED
      BY <1>1, <2>1, <3>1, <3>2 DEF RunningReader
  <2>4. QED
    BY <2>2, <2>3
<1>7. CASE TryReadAfter
  <2>1. at[Render] = "after" /\ UNCHANGED <<before, copied, accepted>>
    BY <1>7 DEF TryReadAfter
  <2>2. CASE TryAgain
    BY <1>4, <2>1, <2>2
  <2>3. CASE MoveTo(Render, "out")
    BY <1>0, <1>2, <2>1, <2>3 DEF MoveTo
  <2>4. CASE RequestUnmoved /\ MoveTo(Render, "recheck")
    <3>1. at'[Render] = "recheck"
      BY <1>0, <2>4 DEF MoveTo
    <3>2. ~IsWriting(requestSequence) /\ \A k \in 1 .. RequestWords : copied[k] = words[k]
      BY <2>1, <2>4 DEF RunningReader, RequestUnmoved
    <3>3. Uniform
      BY <3>2, EvenIsWhole
    <3>4. \A k \in 1 .. RequestWords : copied[k] = copied[1] /\ copied[1] = words[k] /\ accepted <= words[k]
      BY <3>2, <3>3, Counters DEF Uniform, RunningReader
    <3>5. accepted <= copied[1] /\ \A k \in 1 .. RequestWords : copied[1] <= words[k]
      BY <1>0, <3>4, Counters
    <3>6. QED
      BY <1>1, <2>1, <3>1, <3>4, <3>5 DEF RunningReader
  <2>5. QED
    BY <1>7, <2>2, <2>3, <2>4 DEF TryReadAfter
<1>8. CASE TryReadRecheck
  <2>1. at[Render] = "recheck" /\ at'[Render] = "out" /\ accepted' = copied[1]
    BY <1>0, <1>8 DEF TryReadRecheck, StillRunning, MoveTo
  <2>2. \A k \in 1 .. RequestWords : accepted' <= words'[k]
    BY <1>1, <2>1 DEF RunningReader
  <2>3. QED
    BY <2>1, <2>2 DEF RunningReader
<1>9. QED
  BY <1>3, <1>5, <1>6, <1>7, <1>8 DEF RenderStep

\* The reader's claims are kept.
LEMMA ReaderStep ==
  ASSUME NoWrap, BridgeSafe, SequenceInv, ReaderInv, [BridgeNext]_bridgeVars
  PROVE  ReaderInv'
<1>0. Types /\ DataType /\ PcType /\ at \in [Threads -> Labels] /\ BridgeSafe'
      /\ (\A k \in 1 .. RequestWords : words[k] \in Nat)
  BY BridgeParts, BridgeStep, FrameNumbers DEF Types, PcType
<1>1. bridge' \in {"idle", "starting"} => at'[Render] = "out" /\ accepted' = 0
  <2>1. bridge' \in {"idle", "starting"} => bridge \in {"idle", "starting"}
                                            /\ at'[Render] = "out" /\ accepted' = accepted
    BY BeforeRunning
  <2>2. QED
    BY <2>1 DEF ReaderInv
<1>2. SUFFICES ASSUME bridge' = "running" PROVE RunningReader'
  BY <1>1 DEF ReaderInv, RunningReader
<1>3. CASE bridge = "running"
  <2>0. RunningReader
    BY <1>3 DEF ReaderInv, RunningReader
  <2>1. ASSUME NEW c \in Callers, CallerOwn(c) PROVE RunningReader'
    <3>1. UNCHANGED at
      BY <1>2, <1>3, <2>1, RunningWriter DEF CallerOwn, Bootstrap, Stop, BootstrapBegin,
         StopBegin, BootstrapFails, BootstrapUndone, BootstrapCreatesWorker, BootstrapReady,
         BootstrapComplete, SetStop, Joined, JoinTimesOut, CloseResources, MayClaim
    <3>2. UNCHANGED <<requestSequence, words, position, before, copied, accepted>>
      BY <1>0, <2>1, CallerMoves DEF reader
    <3>3. QED
      BY <2>0, <3>1, <3>2, ReaderKept
  <2>2. ASSUME NEW t \in Writers, PublishRequest(t) PROVE RunningReader'
    BY <1>3, <2>0, <2>2, PublishReader
  <2>3. CASE WorkerOwn
    <3>1. at'[Render] = at[Render] /\ UNCHANGED <<requestSequence, words, position, before, copied, accepted>>
      BY <1>0, <2>3, ThreadNames DEF WorkerOwn, WorkerStart, WorkerReady, WorkerPoll, WorkerStop,
         CallPublish, MoveTo, seqlock, writers, reader
    <3>2. QED
      BY <2>0, <3>1, ReaderKept
  <2>4. CASE RenderStep
    BY <1>3, <2>0, <2>4, RenderReader
  <2>5. CASE HostPublishes \/ UNCHANGED bridgeVars
    BY <2>0, <2>5, ReaderKept DEF HostPublishes, bridgeVars, seqlock, writers, reader
  <2>6. QED
    BY <2>1, <2>2, <2>3, <2>4, <2>5, ThreadNames
       DEF BridgeNext, Caller, CallerOwn, WorkerStep, WorkerOwn
<1>4. CASE bridge # "running"
  <2>1. PICK c \in Callers : CallerOwn(c) /\ bridge' # bridge
    <3>1. ~(RenderStep \/ HostPublishes \/ UNCHANGED bridgeVars \/ WorkerOwn)
      BY <1>0, <1>2, <1>4, RenderMoves DEF HostPublishes, bridgeVars, control, WorkerOwn, WorkerStart,
         WorkerReady, WorkerPoll, WorkerStop
    <3>2. ASSUME NEW t \in Writers PROVE ~PublishRequest(t)
      BY <1>0, <1>2, <1>4, PublishMoves DEF control
    <3>3. QED
      BY <1>2, <1>4, <3>1, <3>2, ThreadNames DEF BridgeNext, Caller, CallerOwn, WorkerStep, WorkerOwn
  <2>2. BootstrapComplete(c)
    BY <1>2, <1>4, <2>1 DEF CallerOwn, Bootstrap, Stop, BootstrapBegin,
         StopBegin, BootstrapFails, BootstrapUndone, BootstrapCreatesWorker, BootstrapReady,
         SetStop, Joined, JoinTimesOut, CloseResources, control
  <2>3. at[c] = "complete" /\ bridge = "starting"
    BY <2>2 DEF BootstrapComplete, BridgeSafe, CallerInv
  <2>4. at[Render] = "out" /\ accepted = 0
    BY <2>3 DEF ReaderInv
  <2>5. at'[Render] = at[Render] /\ UNCHANGED <<words, accepted>>
    BY <1>0, <2>2, ThreadNames DEF BootstrapComplete, MoveTo, seqlock, reader
  <2>6. QED
    BY <1>0, <2>4, <2>5 DEF RunningReader
<1>5. QED
  BY <1>3, <1>4

\* Together, and from the start.
LEMMA RelayInvariant ==
  ASSUME NoWrap PROVE BridgeSpec => [](BridgeSafe /\ SequenceInv /\ ReaderInv)
<1>1. BridgeInit => SequenceInv /\ ReaderInv
  <2> SUFFICES ASSUME BridgeInit PROVE SequenceInv /\ ReaderInv
    OBVIOUS
  <2>1. /\ (\A c \in Callers : at[c] = "out") /\ at[Worker] = "none" /\ at[Render] = "out"
        /\ bridge = "idle" /\ requestSequence = 0 /\ accepted = 0
    BY ThreadNames DEF BridgeInit
  <2>2. QED
    BY <2>1 DEF SequenceInv, ReaderInv, At, InPublish
<1>2. BridgeSafe /\ SequenceInv /\ ReaderInv /\ [BridgeNext]_bridgeVars => (SequenceInv /\ ReaderInv)'
  BY SequenceStep, ReaderStep
<1>3. QED
  BY <1>1, <1>2, InitSafe, BridgeStep, PTL DEF BridgeSpec

\* A request that the render thread accepts is whole, newer than the one before
\* and accepted while the bridge is running, for every number of callers and
\* words, as long as the sequence does not come round between two reads of it.
THEOREM AcceptedRequestsAreCoherent == ASSUME NoWrap PROVE BridgeSpec => ReadsAreCoherent
<1> DEFINE Coherent ==
      accepted' # accepted =>
         /\ bridge = "running"
         /\ \A k \in 1 .. RequestWords : copied[k] = copied[1]
         /\ accepted' > accepted /\ accepted' <= request
<1>1. BridgeSafe /\ ReaderInv /\ [BridgeNext]_bridgeVars => [Coherent]_bridgeVars
  <2> SUFFICES ASSUME BridgeSafe, ReaderInv, [BridgeNext]_bridgeVars, accepted' # accepted
               PROVE  /\ bridge = "running"
                      /\ \A k \in 1 .. RequestWords : copied[k] = copied[1]
                      /\ accepted' > accepted /\ accepted' <= request
    OBVIOUS
  <2>0. /\ DataType /\ PcType /\ FrameInv /\ accepted \in Nat /\ lastFrame \in Nat
        /\ request \in Nat /\ (\A k \in 1 .. RequestWords : words[k] \in Nat /\ copied[k] \in Nat)
    BY BridgeParts, FrameNumbers DEF Types
  <2>1. RenderStep
    <3>1. \A c \in Callers : ~CallerOwn(c)
      BY <2>0, CallerMoves DEF reader
    <3>2. \A t \in Writers : ~PublishRequest(t)
      BY <2>0, PublishMoves DEF reader
    <3>3. ~WorkerOwn /\ ~HostPublishes /\ ~UNCHANGED bridgeVars
      BY DEF WorkerOwn, WorkerStart, WorkerReady, WorkerPoll, WorkerStop, HostPublishes, bridgeVars, reader
    <3>4. QED
      BY <3>1, <3>2, <3>3, ThreadNames DEF BridgeNext, Caller, CallerOwn, WorkerStep, WorkerOwn
  <2>2. at[Render] = "recheck" /\ bridge = "running" /\ accepted' = copied[1]
    BY <2>1 DEF RenderStep, TryRead, TryReadBefore, TryReadWord, TryReadAfter, TryReadRecheck, StillRunning
  <2>3. /\ \A k \in 1 .. RequestWords : copied[k] = copied[1]
        /\ accepted <= copied[1] /\ \A k \in 1 .. RequestWords : copied[1] <= words[k]
    BY <2>2 DEF ReaderInv
  <2>4. copied[1] <= words[1] /\ words[1] <= lastFrame /\ lastFrame <= request
    BY <2>0, <2>3, Counters DEF FrameInv
  <2>5. copied[1] \in Nat /\ words[1] \in Nat
    BY <2>0, Counters
  <2>6. QED
    BY <2>0, <2>2, <2>3, <2>4, <2>5
<1>2. QED
  BY <1>1, RelayInvariant, PTL DEF BridgeSpec, ReadsAreCoherent

=============================================================================
