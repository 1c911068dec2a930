---------------------------- MODULE MCHostProofs ----------------------------
(***************************************************************************)
(* Proofs about the host's frame loop: its OpenXR session, the composition *)
(* of one frame and the neural pipeline, for all bounds on events, frames, *)
(* inputs and failures.  Each part has an inductive invariant of its own;  *)
(* the run's properties follow from the one of the part in focus.          *)
(***************************************************************************)
EXTENDS MCHost, SequenceTheorems, TLAPS

-----------------------------------------------------------------------------
(* The session: what the runtime sent and what the host has heard of it *)

\* The runtime moves from one state to the next, whether a session is begun or not.
Follows(before, after) ==
    <<before, after>> \in {<<"unknown", "idle">>, <<"idle", "ready">>, <<"idle", "exiting">>,
        <<"ready", "synchronized">>, <<"synchronized", "visible">>, <<"synchronized", "stopping">>,
        <<"visible", "focused">>, <<"visible", "synchronized">>, <<"focused", "visible">>,
        <<"stopping", "idle">>}
    \/ after = "loss_pending"

\* The queued events lead from the state polled last to the runtime's own.
Path(h) ==
    /\ h[0] = delivered /\ h[Len(events)] = rtState
    /\ \A i \in 1 .. Len(events) :
         IF events[i] \in RuntimeStates THEN h[i] = events[i] /\ Follows(h[i - 1], h[i])
                                        ELSE h[i] = h[i - 1]

EventsLead == exitRequested \/ \E h \in [0 .. Len(events) -> RuntimeStates] : Path(h)

\* A "ready" or "stopping" the host has not polled is the only one, and the runtime
\* waits for the call it asks for.
QueuedOnce(s) == \A i, j \in 1 .. Len(events) : events[i] = s /\ events[j] = s => i = j

SessionCalls ==
    at # "stopped" =>
      /\ running = rtBegun
      /\ rtState \in {"unknown", "idle", "exiting"} => ~rtBegun
      /\ rtState \in {"synchronized", "visible", "focused"} => rtBegun
      /\ QueuedOnce("ready") /\ QueuedOnce("stopping")
      /\ \A i \in 1 .. Len(events) :
           /\ events[i] = "ready" => ~rtBegun /\ rtState \in {"ready", "loss_pending"}
           /\ events[i] = "stopping" => rtBegun /\ rtState \in {"stopping", "loss_pending"}

FrameCalls ==
    /\ at \in {"wait", "begin"} => running
    /\ at = "begin" => rtFrame = "waited"
    /\ at \in {"locate", "publish", "end"} => rtFrame = "begun"
    /\ at \in StartStages \cup {"poll", "wait"} => rtFrame = "none"
    /\ at \in {"top", "health"} => rtFrame = "none" \/ exitRequested

\* What happened since the last request is noted, in the poll's result or already
\* among the pending reasons.
OwedIsNoted ==
    /\ at = "poll" => owed \subseteq ReasonsOfPoll
    /\ at \notin {"poll", "shutdown", "stopped"} => owed \subseteq pendingReasons

SessionInv ==
    /\ SessionTypeOK /\ RuntimeCallsInOrder /\ (exitRequested \/ state = delivered)
    /\ EventsLead /\ SessionCalls /\ FrameCalls /\ OwedIsNoted

-----------------------------------------------------------------------------
(* The frame: what is built, leased and in flight *)

Holding   == {"reset", "stream", "neural", "depth", "close", "execute", "wait", "release"}
InSetup   == {"setup", "build"}
Recorded  == {"neural", "depth", "close", "execute", "wait", "release", "submit"}
Submitted == {"wait", "release", "submit"}
InFrame   == {"poll", "acquire", "submit"} \cup Holding

Flight ==
    /\ gpuRemoved => inFlight = {}
    /\ xrPc \in InFrame \cup InSetup => ~xrFailed
    /\ inFlight # {} => xrPc = "wait" \/ xrFailed
    /\ <<"eyes", "depth">> \in inFlight => depthPending

Built ==
    /\ xrPc \in {"idle", "end empty"} \cup InFrame => AllStages \subseteq built[panel]
    /\ xrPc = "idle" => panel = "eyes"
    /\ native /\ xrPc \in {"idle", "end empty"} \cup InFrame =>
         \A p \in Panels : AllStages \subseteq built[p]
    /\ panel = "theater" => native
    /\ \A p \in Panels : hasCache[p] => "cache" \in built[p]
    /\ depthOn => "depth" \in built["eyes"]
    /\ xrPc \in InSetup /\ panel = "eyes" => ~depthOn
    /\ xrPc \in InSetup /\ panel = "theater" => AllStages \subseteq built["eyes"]
    /\ xrPc \in InSetup => \A p \in Panels : ~hasCache[p]

Leases ==
    ~xrFailed => \A p \in Panels :
        colour[p] = IF xrPc \in Holding /\ p = panel THEN "waited" ELSE "runtime"

\* What the command list records, and the label it is given.
PassInv ==
    /\ xrPc \notin Recorded \cup {"end empty"} => pass = NoPass
    /\ pass.stream # "none" => hasCache[panel]
    /\ pass.copied => pass.stream # "none"
    /\ pass.depth /\ xrPc \in {"close", "execute"} =>
         DrawsEyes /\ pass.copied /\ depthLease = "waited" /\ "depth" \in built["eyes"]
    /\ pass.depth => xrPc \in {"close", "execute", "wait", "release", "submit", "end empty"}
    /\ xrPc \in {"close", "execute"} /\ DrawsEyes /\ pass.copied =>
         pass.label = Displayed(pass.neural, pass.warped, Raw)

LabelInv ==
    /\ native => rawLabel = cache["eyes"]
    /\ xrPc \in Submitted =>
         /\ picture # Unwritten
         /\ DrawsEyes /\ pass.copied => picture = pass.label /\ (pass.depth => depthOf = pass.label)

FrameInv ==
    /\ XrTypeOK /\ GpuUsesOnlyWhatIsHeld /\ LabelsMatchPixels
    /\ Flight /\ Built /\ Leases /\ PassInv /\ LabelInv

-----------------------------------------------------------------------------
(* The neural pipeline: who may still write or read a slot *)

Copy == [op : {"input", "display"}, slot : {0, 1}, frame : Numbers]

OncePerOp(list) == \A a, b \in 1 .. Len(list) : list[a].op = list[b].op => a = b

CopiesOfType ==
    /\ hostList \in Seq(Copy) /\ OncePerOp(hostList)
    /\ hostQueue \in Seq(Seq(Copy))
    /\ \A k \in 1 .. Len(hostQueue) : OncePerOp(hostQueue[k])
    /\ \A i \in InputSlots : inputs[i].ready <= Len(hostQueue)

Waiting == {"recording", "queued"}

\* One input is offered at a time, and it is the newest.
OneWaiting ==
    /\ \A i, j \in InputSlots : inputs[i].state \in Waiting /\ inputs[j].state \in Waiting => i = j
    /\ \A i \in InputSlots : inputs[i].state = "recording" <=> i = recorded
    /\ \A i \in InputSlots : inputs[i].state \in {"queued", "working"} => inputs[i].frame <= lastInput
    /\ \A i \in InputSlots : inputs[i].state = "queued" => inputs[i].frame = lastInput
    /\ recorded # None => lastInput < inputs[recorded].frame

InProgress == {"guides", "evaluate", "pick", "compose"}

WorkerInv ==
    /\ workerPc \in InProgress => current # None /\ inputs[current].state = "working"
    /\ workerPc = "compose" => target # None /\ outputs[target].state = "working"
    /\ workerPc \in SetupStages => phase = "starting"
    /\ fate # "alive" => workerPc = "over" /\ stopping
    /\ DestroyedWhenRetired

\* Every reset that no evaluation has served waits in the input that is offered, in the
\* resets of the dropped ones, or in the evaluation that begins.
ResetsAreKept ==
    /\ \A n \in unserved : n <= IF recorded = None THEN lastInput ELSE inputs[recorded].frame
    /\ \A n \in unserved :
         \/ deferred
         \/ \E i \in InputSlots : inputs[i].state \in Waiting /\ inputs[i].reset
         \/ workerPc = "guides" /\ resetNow /\ n <= inputs[current].frame
         \/ workerPc = "over"
    /\ HistoryCoversAdmitted

Whole(texture, n) == texture.left = n /\ texture.right = n /\ texture.hud = n

\* Inputs that are evaluated, or may still be: a failed pipeline takes no more.
Taken(i) == inputs[i].state = "working" \/ (inputs[i].state = "queued" /\ phase # "failed")

\* The host's copies into input slots, in its list and in its queue.
InputCopies ==
    /\ \A c \in ToSet(hostList) : c.op = "input" =>
         c.slot \in InputSlots /\ c.slot = recorded /\ c.frame = inputs[c.slot].frame
    /\ recorded # None =>
         \/ \E c \in ToSet(hostList) : c.op = "input"
         \/ hostList = <<>> /\ phase = "failed"
    /\ \A k \in 1 .. Len(hostQueue) : \A c \in ToSet(hostQueue[k]) : c.op = "input" =>
         c.slot \in InputSlots /\ (inputs[c.slot].state = "recording" \/ k <= inputs[c.slot].ready)
    /\ \A i \in InputSlots : Taken(i) =>
         IF inputs[i].ready = 0 THEN inputs[i].texture = inputs[i].frame
         ELSE \E c \in ToSet(hostQueue[inputs[i].ready]) :
                c.op = "input" /\ c.slot = i /\ c.frame = inputs[i].frame

\* What the two worker processes hold belongs to the input in progress.
EyesInv ==
    /\ workerPc \in {"evaluate", "pick", "compose"} => inputs[current].ready = 0
    /\ workerPc = "evaluate" => \A e \in Eyes :
         /\ eye[e].in = inputs[current].frame
         /\ eye[e].done => eye[e].out = inputs[current].frame
    /\ workerPc \in {"pick", "compose"} => \A e \in Eyes : eye[e].out = inputs[current].frame
    /\ workerPc \notin {"evaluate", "over"} => \A e \in Eyes : ~eye[e].submitted /\ ~eye[e].done

\* The copies out of output slots find the pair they were recorded for.
OutputCopies ==
    /\ \A o \in OutputSlots : outputs[o].state = "displaying" <=> o = display
    /\ \A o \in OutputSlots : outputs[o].state \in {"complete", "displaying", "retiring"} =>
         Whole(outputs[o].texture, outputs[o].frame)
    /\ \A c \in ToSet(hostList) : c.op = "display" =>
         /\ displayRecorded /\ c.slot = display /\ Whole(outputs[c.slot].texture, c.frame)
    /\ \A k \in 1 .. Len(hostQueue) : \A c \in ToSet(hostQueue[k]) : c.op = "display" =>
         /\ Whole(outputs[c.slot].texture, c.frame)
         /\ outputs[c.slot].state \in {"displaying", "retiring"} \/ k <= outputs[c.slot].retired

PipelineInv ==
    /\ NeuralTypeOK /\ CopiesOfType /\ OneWaiting /\ WorkerInv /\ ResetsAreKept
    /\ InputCopies /\ EyesInv /\ OutputCopies /\ PairsAreWhole

HostInv ==
    /\ focus = "session" => SessionInv
    /\ focus = "frame"   => FrameInv
    /\ focus = "neural"  => PipelineInv

-----------------------------------------------------------------------------
(* The session *)

EventNames == RuntimeStates \cup {"recenter", "instance loss"}

HostOnly == <<rtState, rtBegun, events, sent, delivered>>

\* The host's steps that poll no event leave the runtime's queue alone.
Quiet ==
    \/ StartRuntime \/ TopOfLoop \/ StopRequested \/ PollFails \/ PollReturns \/ WaitFrame
    \/ BeginFrame \/ LocateViews \/ PublishFrame \/ EndFrame \/ HealthAndHeartbeat

Takes ==
    \/ RejectTransition \/ ApplyTransition \/ BeginSession \/ EndSession
    \/ ReferenceSpaceChangePending \/ InstanceLossPending

\* The steps of run_openxr_host by what they do to the queue of events.
LEMMA SessionSteps == SessionNext <=> RuntimeSends \/ ShutdownRuntime \/ Quiet \/ Takes
BY DEF SessionNext, Host, PollEvents, Quiet, Takes

\* A start stage advances to the next one or to the shutdown.
LEMMA StartSteps ==
    ASSUME StartRuntime
    PROVE  /\ at \in StartStages /\ at' \in StartStages \cup {"top", "shutdown"}
           /\ created' \in {created, created \cup {"instance"}, created \cup {"device"},
                            created \cup {"session"}, created \cup {"local space"},
                            created \cup {"view space"}}
           /\ UNCHANGED <<external, machine, poll, shouldRender, framesSeen, reasons, failures>>
BY DEF StartRuntime, CreateInstance, SelectSystem, SelectBlendMode, CreateDevice, CreateSession,
       CreateLocalSpace, CreateViewSpace, InitializeSmoke, StartFails, Advance, StartStages

\* Quiet steps in one place.
LEMMA QuietSteps ==
    ASSUME Quiet
    PROVE  UNCHANGED HostOnly
<1>1. CASE StartRuntime
  BY <1>1, StartSteps DEF HostOnly, external
<1>2. CASE ~StartRuntime
  BY <1>2 DEF Quiet, HostOnly, external, TopOfLoop, StopRequested, PollFails, PollReturns, WaitFrame,
              BeginFrame, LocateViews, PublishFrame, EndFrame, HealthAndHeartbeat
<1>3. QED
  BY <1>1, <1>2

\* The event that is polled is the first, and the others move up.
LEMMA TakenEvents ==
    ASSUME SessionTypeOK, Takes
    PROVE  /\ at = "poll" /\ at' = "poll" /\ Len(events) \in Nat \ {0} /\ Len(events') = Len(events) - 1
           /\ Event = events[1] /\ Event \in EventNames
           /\ \A i \in 1 .. Len(events') : events'[i] = events[i + 1]
           /\ events' \in Seq(EventNames)
           /\ UNCHANGED <<rtState, rtFrame, sent, created, shouldRender, framesSeen, pendingReasons>>
<1>1. events \in Seq(EventNames)
  BY DEF SessionTypeOK, EventNames
<1>2. /\ at = "poll" /\ events # <<>> /\ events' = Tail(events)
      /\ UNCHANGED <<rtState, rtFrame, sent, created, at, shouldRender, framesSeen, pendingReasons>>
  BY DEF Takes, TakeEvent, Rest, RejectTransition, ApplyTransition, BeginSession, EndSession,
         ReferenceSpaceChangePending, InstanceLossPending
<1>3. /\ Head(events) \in EventNames /\ Tail(events) \in Seq(EventNames) /\ Len(events) \in Nat
      /\ Len(events) # 0 /\ Len(Tail(events)) = Len(events) - 1
      /\ \A i \in 1 .. Len(Tail(events)) : Tail(events)[i] = events[i + 1]
  BY <1>1, <1>2, HeadTailProperties, EmptySeq, LenProperties
<1>4. Head(events) = events[1]
  BY <1>1, <1>2, HeadTailProperties
<1>5. /\ Len(events') = Len(events) - 1 /\ Len(events) \in Nat \ {0}
      /\ \A i \in 1 .. Len(events') : events'[i] = events[i + 1]
      /\ events' \in Seq(EventNames)
  BY <1>2, <1>3
<1>6. Event = events[1] /\ Event \in EventNames
  BY <1>3, <1>4 DEF Event
<1>7. /\ at = "poll" /\ at' = "poll"
      /\ UNCHANGED <<rtState, rtFrame, sent, created, shouldRender, framesSeen, pendingReasons>>
  BY <1>2
<1>8. QED
  BY <1>5, <1>6, <1>7

\* What the runtime sends is queued last.
LEMMA SentEvents ==
    ASSUME SessionTypeOK, RuntimeSends
    PROVE  \E s \in EventNames :
             /\ Len(events) \in Nat /\ Len(events') = Len(events) + 1 /\ events' = Append(events, s)
             /\ events'[Len(events) + 1] = s
             /\ \A i \in 1 .. Len(events) : events'[i] = events[i]
             /\ events' \in Seq(EventNames)
             /\ \/ s \in RuntimeStates /\ s \in SessionSuccessors /\ rtState' = s
                \/ s \notin RuntimeStates /\ rtState' = rtState
             /\ UNCHANGED <<rtBegun, rtFrame, delivered, refused, machine, created, at, poll,
                            shouldRender, framesSeen, reasons, failures>>
<1>1. events \in Seq(EventNames) /\ rtState \in RuntimeStates
  BY DEF SessionTypeOK, EventNames
<1>2. SessionSuccessors \subseteq RuntimeStates
  BY <1>1 DEF SessionSuccessors, RuntimeStates
<1>3. PICK s \in EventNames : events' = Append(events, s)
                     /\ \/ s \in SessionSuccessors /\ rtState' = s
                        \/ s \in {"recenter", "instance loss"} /\ rtState' = rtState
  BY <1>2 DEF RuntimeSends, EventNames
<1>4. s \in {"recenter", "instance loss"} => s \notin RuntimeStates
  BY DEF RuntimeStates
<1>5. /\ Len(events) \in Nat /\ Len(events') = Len(events) + 1 /\ events'[Len(events) + 1] = s
      /\ \A i \in 1 .. Len(events) : events'[i] = events[i]
      /\ events' \in Seq(EventNames)
  <2>1. events' = Append(events, s) /\ s \in EventNames
    BY <1>3
  <2>2. Len(events) \in Nat
    BY <1>1, LenProperties
  <2>3. /\ Append(events, s) \in Seq(EventNames) /\ Len(Append(events, s)) = Len(events) + 1
        /\ Append(events, s)[Len(events) + 1] = s
        /\ \A i \in 1 .. Len(events) : Append(events, s)[i] = events[i]
    <3>1. events \in Seq(EventNames) /\ s \in EventNames
      BY <1>1, <2>1
    <3>2. QED
      BY <3>1, AppendProperties
  <2>4. QED
    BY <2>1, <2>2, <2>3
<1>6. QED
  BY <1>2, <1>3, <1>4, <1>5 DEF RuntimeSends

\* SessionStateMachine::allowed accepts every step of the runtime, and only "ready"
\* from a state before it.
LEMMA FollowsIsAllowed ==
    ASSUME NEW a \in RuntimeStates, NEW b \in RuntimeStates, Follows(a, b)
    PROVE  Allowed(a, b)
BY DEF Follows, Allowed, RuntimeStates

\* The runtime's next state follows its present one.
LEMMA SuccessorsFollow ==
    ASSUME rtState \in RuntimeStates, NEW s \in SessionSuccessors
    PROVE  s \in RuntimeStates /\ Follows(rtState, s)
BY DEF SessionSuccessors, Follows, RuntimeStates

\* A failing call is counted up to the bound.
LEMMA FailuresBounded ==
    ASSUME failures \in 0 .. MaxFailures, Works \/ Fails \/ UNCHANGED failures
    PROVE  failures' \in 0 .. MaxFailures
BY EventsAssumption DEF Works, Fails

PollResults == [history : BOOLEAN, tracking : BOOLEAN, exit : BOOLEAN]

\* Note adds flags to the poll's result.
LEMMA NoteTypes ==
    ASSUME poll \in PollResults, NEW h \in BOOLEAN, NEW t \in BOOLEAN, NEW x \in BOOLEAN, Note(h, t, x)
    PROVE  poll' \in PollResults
BY DEF Note, PollResults

\* A flag that is noted stays noted.
LEMMA NoteAdds ==
    ASSUME poll \in PollResults, NEW h \in BOOLEAN, NEW t \in BOOLEAN, NEW x \in BOOLEAN, Note(h, t, x)
    PROVE  /\ poll.history \/ h => poll'.history
           /\ poll.tracking \/ t => poll'.tracking
BY DEF Note, PollResults

\* The host's step by step types: what an event does.
LEMMA TakesTypes ==
    ASSUME SessionTypeOK, Takes
    PROVE  SessionTypeOK'
<1>1. /\ at' = "poll" /\ events' \in Seq(EventNames)
      /\ UNCHANGED <<rtState, rtFrame, sent, created, shouldRender, framesSeen, pendingReasons>>
  BY TakenEvents
<1>2. /\ rtBegun' \in BOOLEAN /\ refused' \in BOOLEAN /\ running' \in BOOLEAN
      /\ exitRequested' \in BOOLEAN /\ sessionFailed' \in BOOLEAN
  BY DEF SessionTypeOK, Takes, RejectTransition, ApplyTransition, BeginSession, EndSession,
         ReferenceSpaceChangePending, InstanceLossPending, machine, MarkFailed
<1>3. delivered' \in RuntimeStates /\ state' \in RuntimeStates
  BY DEF SessionTypeOK, Takes, RejectTransition, ApplyTransition, BeginSession, EndSession,
         ReferenceSpaceChangePending, InstanceLossPending, machine, IsSessionState, RuntimeStates
<1>4. poll' \in PollResults
  <2>1. poll \in PollResults
    BY DEF SessionTypeOK, PollResults
  <2>2. \/ UNCHANGED poll
        \/ \E h, t, x \in BOOLEAN : Note(h, t, x)
    <3>1. ASSUME ApplyTransition
          PROVE  \E h, x \in BOOLEAN : Note(h, FALSE, x)
      <4>1. Note(TRUE, FALSE, TRUE) \/ Note(FALSE, FALSE, FALSE)
        BY <3>1 DEF ApplyTransition, Note
      <4>2. QED
        BY <4>1
    <3>2. QED
      BY <3>1 DEF Takes, RejectTransition, BeginSession, EndSession,
                  ReferenceSpaceChangePending, InstanceLossPending
  <2>3. QED
    BY <2>1, <2>2, NoteTypes
<1>5. owed' \subseteq {"startup", "restart", "recenter"}
  BY DEF SessionTypeOK, Takes, RejectTransition, ApplyTransition, BeginSession, EndSession,
         ReferenceSpaceChangePending, InstanceLossPending
<1>6. failures' \in 0 .. MaxFailures
  <2>1. Works \/ Fails \/ UNCHANGED failures
    BY DEF Takes, RejectTransition, ApplyTransition, BeginSession, EndSession,
           ReferenceSpaceChangePending, InstanceLossPending
  <2>2. QED
    BY <2>1, FailuresBounded DEF SessionTypeOK
<1>7. QED
  BY <1>1, <1>2, <1>3, <1>4, <1>5, <1>6 DEF SessionTypeOK, EventNames, PollResults

\* The loop's other steps keep the types.
LEMMA QuietTypes ==
    ASSUME SessionTypeOK, Quiet
    PROVE  SessionTypeOK'
<1>1. UNCHANGED HostOnly
  BY QuietSteps
<1>2. CASE StartRuntime
  <2>1. created' \subseteq RuntimeObjects
    BY <1>2, StartSteps DEF SessionTypeOK, RuntimeObjects
  <2>2. at' \in StartStages \cup {"top", "poll", "wait", "begin", "locate", "publish", "end",
                                "health", "shutdown", "stopped"}
    BY <1>2, StartSteps
  <2>3. UNCHANGED <<rtState, rtBegun, rtFrame, events, sent, delivered, refused, state, running,
                    exitRequested, sessionFailed, poll, shouldRender, framesSeen, pendingReasons,
                    owed, failures>>
    BY <1>2, StartSteps DEF external, machine, reasons
  <2>4. /\ rtState' \in RuntimeStates /\ rtBegun' \in BOOLEAN
        /\ rtFrame' \in {"none", "waited", "begun"}
        /\ events' \in Seq(RuntimeStates \cup {"recenter", "instance loss"})
        /\ sent' \in 0 .. MaxEvents /\ delivered' \in RuntimeStates /\ refused' \in BOOLEAN
    BY <2>3 DEF SessionTypeOK
  <2>5. /\ state' \in RuntimeStates /\ running' \in BOOLEAN
        /\ exitRequested' \in BOOLEAN /\ sessionFailed' \in BOOLEAN
        /\ poll' \in [history : BOOLEAN, tracking : BOOLEAN, exit : BOOLEAN]
        /\ shouldRender' \in BOOLEAN /\ framesSeen' \in BOOLEAN
    BY <2>3 DEF SessionTypeOK
  <2>6. /\ pendingReasons' \subseteq {"startup", "restart", "recenter"}
        /\ owed' \subseteq {"startup", "restart", "recenter"} /\ failures' \in 0 .. MaxFailures
    BY <2>3 DEF SessionTypeOK
  <2>7. QED
    BY <2>1, <2>2, <2>4, <2>5, <2>6 DEF SessionTypeOK
<1>3. CASE ~StartRuntime
  <2>1. /\ refused' \in BOOLEAN /\ UNCHANGED <<state, running>>
        /\ exitRequested' \in BOOLEAN /\ sessionFailed' \in BOOLEAN
    BY <1>3 DEF SessionTypeOK, Quiet, TopOfLoop, StopRequested, PollFails, PollReturns, WaitFrame,
                BeginFrame, LocateViews, PublishFrame, EndFrame, HealthAndHeartbeat, machine,
                MarkFailed, external
  <2>2. failures' \in 0 .. MaxFailures
    <3>1. Works \/ Fails \/ UNCHANGED failures
      BY <1>3 DEF Quiet, TopOfLoop, StopRequested, PollFails, PollReturns, WaitFrame, BeginFrame,
                  LocateViews, PublishFrame, EndFrame, HealthAndHeartbeat
    <3>2. QED
      BY <3>1, FailuresBounded DEF SessionTypeOK
  <2>3. /\ at' \in {"top", "poll", "wait", "begin", "locate", "publish", "end", "health",
                    "shutdown"}
        /\ rtFrame' \in {"none", "waited", "begun"} /\ UNCHANGED created
    BY <1>3 DEF SessionTypeOK, Quiet, TopOfLoop, StopRequested, PollFails, PollReturns, WaitFrame,
                BeginFrame, LocateViews, PublishFrame, EndFrame, HealthAndHeartbeat, external
  <2>4. /\ poll' \in PollResults
        /\ shouldRender' \in BOOLEAN /\ framesSeen' \in BOOLEAN
    <3>1. poll' \in {poll, NoResult} /\ poll \in PollResults /\ NoResult \in PollResults
      BY <1>3 DEF SessionTypeOK, Quiet, TopOfLoop, StopRequested, PollFails, PollReturns, WaitFrame,
                  BeginFrame, LocateViews, PublishFrame, EndFrame, HealthAndHeartbeat, NoResult,
                  PollResults
    <3>2. shouldRender' \in BOOLEAN /\ framesSeen' \in BOOLEAN
      BY <1>3 DEF SessionTypeOK, Quiet, TopOfLoop, StopRequested, PollFails, PollReturns, WaitFrame,
                  BeginFrame, LocateViews, PublishFrame, EndFrame, HealthAndHeartbeat
    <3>3. QED
      BY <3>1, <3>2
  <2>5. /\ pendingReasons' \subseteq {"startup", "restart", "recenter"}
        /\ owed' \subseteq {"startup", "restart", "recenter"}
    BY <1>3 DEF SessionTypeOK, Quiet, TopOfLoop, StopRequested, PollFails, PollReturns, WaitFrame,
                BeginFrame, LocateViews, PublishFrame, EndFrame, HealthAndHeartbeat, reasons,
                ReasonsOfPoll
  <2>6. QED
    BY <1>1, <2>1, <2>2, <2>3, <2>4, <2>5 DEF SessionTypeOK, HostOnly, PollResults
<1>4. QED
  BY <1>2, <1>3

\* Every variable of the session keeps its type.
LEMMA SessionTypes ==
    ASSUME SessionTypeOK, SessionNext
    PROVE  SessionTypeOK'
<1>1. CASE RuntimeSends
  <2>1. events' \in Seq(EventNames) /\ rtState' \in RuntimeStates
        /\ UNCHANGED <<rtBegun, rtFrame, delivered, refused, machine, created, at, poll,
                       shouldRender, framesSeen, reasons, failures>>
    BY <1>1, SentEvents DEF SessionTypeOK
  <2>2. sent' \in 0 .. MaxEvents
    <3>1. sent < MaxEvents /\ sent' = sent + 1 /\ sent \in 0 .. MaxEvents
      BY <1>1 DEF RuntimeSends, SessionTypeOK
    <3>2. QED
      BY <3>1, EventsAssumption
  <2>3. events' \in Seq(RuntimeStates \cup {"recenter", "instance loss"})
    BY <2>1 DEF EventNames
  <2>4. UNCHANGED <<rtBegun, rtFrame, delivered, refused, state, running, exitRequested,
                    sessionFailed, created, at, poll, shouldRender, framesSeen, pendingReasons,
                    owed, failures>>
    BY <2>1 DEF machine, reasons
  <2>5. rtState' \in RuntimeStates
    BY <2>1
  <2>6. /\ rtBegun' \in BOOLEAN /\ rtFrame' \in {"none", "waited", "begun"}
        /\ delivered' \in RuntimeStates /\ refused' \in BOOLEAN
        /\ state' \in RuntimeStates /\ running' \in BOOLEAN
        /\ exitRequested' \in BOOLEAN /\ sessionFailed' \in BOOLEAN
        /\ created' \subseteq RuntimeObjects
        /\ shouldRender' \in BOOLEAN /\ framesSeen' \in BOOLEAN
        /\ failures' \in 0 .. MaxFailures
    BY <2>4 DEF SessionTypeOK
  <2>7. /\ at' = at /\ poll' = poll /\ pendingReasons' = pendingReasons /\ owed' = owed
    BY <2>4
  <2>8. QED
    BY <2>2, <2>3, <2>5, <2>6, <2>7 DEF SessionTypeOK
<1>2. CASE ShutdownRuntime
  <2>1. created' \subseteq RuntimeObjects /\ rtBegun' \in BOOLEAN
        /\ rtFrame' \in {"none", "waited", "begun"} /\ at' = "stopped"
    BY <1>2 DEF ShutdownRuntime, SessionTypeOK
  <2>2. UNCHANGED <<rtState, events, sent, delivered, refused, machine, poll, shouldRender,
                    framesSeen, reasons, failures>>
    BY <1>2 DEF ShutdownRuntime
  <2>3. QED
    BY <2>1, <2>2 DEF SessionTypeOK, machine, reasons
<1>3. CASE Quiet
  BY <1>3, QuietTypes
<1>4. CASE Takes
  BY <1>4, TakesTypes
<1>5. QED
  BY <1>1, <1>2, <1>3, <1>4, SessionSteps

\* What a poll step does to the machine's books: it begins, ends or changes neither.
LEMMA TakesEffect ==
    ASSUME SessionTypeOK, Takes, Event = events[1]
    PROVE  \/ BeginSession
           \/ EndSession
           \/ /\ UNCHANGED <<rtBegun, running, refused>>
              /\ \/ ~(Event \in RuntimeStates)
                 \/ ~Allowed(state, Event)
                 \/ ~BeginsSession(Event) /\ ~EndsSession(Event)
BY DEF Takes, RejectTransition, ApplyTransition, ReferenceSpaceChangePending, InstanceLossPending,
       machine, IsSessionState, RuntimeStates

\* The runtime is only asked to begin or end what it waits for, and the two books of
\* "begun" change together.
LEMMA CallsStep ==
    ASSUME SessionTypeOK, SessionTypeOK', SessionCalls, RuntimeCallsInOrder, FrameCalls, SessionNext
    PROVE  SessionCalls' /\ RuntimeCallsInOrder'
<1>1. CASE RuntimeSends
  <2>1. PICK s \in EventNames :
             /\ Len(events) \in Nat /\ Len(events') = Len(events) + 1 /\ events' = Append(events, s)
             /\ events'[Len(events) + 1] = s
             /\ \A i \in 1 .. Len(events) : events'[i] = events[i]
             /\ \/ s \in RuntimeStates /\ s \in SessionSuccessors /\ rtState' = s
                \/ s \notin RuntimeStates /\ rtState' = rtState
             /\ UNCHANGED <<rtBegun, rtFrame, delivered, refused, machine, created, at, poll,
                            shouldRender, framesSeen, reasons, failures>>
    BY <1>1, SentEvents
  <2>2. UNCHANGED <<rtBegun, refused, running, at>>
    BY <2>1 DEF machine
  <2>3. RuntimeCallsInOrder'
    BY <2>2 DEF RuntimeCallsInOrder
  <2>4. SUFFICES ASSUME at # "stopped"
                 PROVE  /\ rtState' \in {"unknown", "idle", "exiting"} => ~rtBegun
                        /\ rtState' \in {"synchronized", "visible", "focused"} => rtBegun
                        /\ QueuedOnce("ready")' /\ QueuedOnce("stopping")'
                        /\ \A i \in 1 .. Len(events') :
                             /\ events'[i] = "ready" => ~rtBegun /\ rtState' \in {"ready", "loss_pending"}
                             /\ events'[i] = "stopping" =>
                                  rtBegun /\ rtState' \in {"stopping", "loss_pending"}
    BY <2>2, <2>3 DEF SessionCalls
  <2>5. /\ rtState \in {"unknown", "idle", "exiting"} => ~rtBegun
        /\ rtState \in {"synchronized", "visible", "focused"} => rtBegun
        /\ QueuedOnce("ready") /\ QueuedOnce("stopping")
        /\ \A i \in 1 .. Len(events) :
             /\ events[i] = "ready" => ~rtBegun /\ rtState \in {"ready", "loss_pending"}
             /\ events[i] = "stopping" => rtBegun /\ rtState \in {"stopping", "loss_pending"}
    BY <2>4 DEF SessionCalls
  <2>6. \A i \in 1 .. Len(events') : i \in 1 .. Len(events) \/ i = Len(events) + 1
    BY <2>1
  <2>7. CASE s \notin RuntimeStates
    <3>1. s # "ready" /\ s # "stopping" /\ rtState' = rtState
      BY <2>1, <2>7 DEF RuntimeStates
    <3>2. \A i \in 1 .. Len(events') :
            events'[i] \in {"ready", "stopping"} => i \in 1 .. Len(events) /\ events[i] = events'[i]
      BY <2>1, <2>6, <3>1
    <3>3. QED
      BY <2>5, <3>1, <3>2 DEF QueuedOnce
  <2>8. CASE s \in RuntimeStates
    <3>1. s \in SessionSuccessors /\ rtState' = s /\ rtState \in RuntimeStates
      BY <2>1, <2>8 DEF SessionTypeOK
    <3>2. /\ s = "ready" => rtState = "idle"
          /\ s = "stopping" => rtState = "synchronized"
          /\ s \in {"unknown", "idle", "exiting"} => ~rtBegun
          /\ s \in {"synchronized", "visible", "focused"} => rtBegun
      BY <2>5, <3>1 DEF SessionSuccessors, RuntimeStates
    <3>3. s \notin {"ready", "stopping", "loss_pending"} =>
            \A i \in 1 .. Len(events) : events[i] \notin {"ready", "stopping"}
      BY <2>5, <3>1 DEF SessionSuccessors, RuntimeStates
    <3>4. s \in {"ready", "stopping"} =>
            \A i \in 1 .. Len(events) : events[i] \notin {"ready", "stopping"}
      BY <2>5, <3>2
    <3>5. \A i \in 1 .. Len(events') : events'[i] \in {"ready", "stopping"} =>
            \/ i \in 1 .. Len(events) /\ events[i] = events'[i] /\ s \notin {"ready", "stopping"}
            \/ i = Len(events) + 1 /\ events'[i] = s
      BY <2>1, <2>6, <3>4
    <3>6. QueuedOnce("ready")' /\ QueuedOnce("stopping")'
      BY <2>5, <3>5 DEF QueuedOnce
    <3>7. \A i \in 1 .. Len(events') :
            /\ events'[i] = "ready" => ~rtBegun /\ rtState' \in {"ready", "loss_pending"}
            /\ events'[i] = "stopping" => rtBegun /\ rtState' \in {"stopping", "loss_pending"}
      BY <2>5, <3>1, <3>2, <3>3, <3>5
    <3>8. QED
      BY <3>1, <3>2, <3>6, <3>7
  <2>9. QED
    BY <2>7, <2>8
<1>2. CASE ShutdownRuntime
  BY <1>2 DEF ShutdownRuntime, SessionCalls, RuntimeCallsInOrder
<1>3. CASE Quiet
  <2>1. UNCHANGED <<rtState, rtBegun, events>> /\ running' = running /\ at # "stopped"
    <3>1. CASE StartRuntime
      BY <3>1, StartSteps DEF external, machine, StartStages
    <3>2. CASE ~StartRuntime
      BY <1>3, <3>2 DEF Quiet, external, machine, TopOfLoop, StopRequested, PollFails, PollReturns,
                        WaitFrame, BeginFrame, LocateViews, PublishFrame, EndFrame,
                        HealthAndHeartbeat
    <3>3. QED
      BY <3>1, <3>2
  <2>2. SessionCalls'
    BY <2>1 DEF SessionCalls, QueuedOnce
  <2>3. running = rtBegun
    BY <2>1 DEF SessionCalls
  <2>4. RuntimeCallsInOrder'
    <3>1. CASE StartRuntime
      BY <3>1, StartSteps DEF external, RuntimeCallsInOrder
    <3>2. CASE ~StartRuntime
      BY <1>3, <2>3, <3>2 DEF RuntimeCallsInOrder, FrameCalls, Quiet, external, TopOfLoop,
            StopRequested, PollFails, PollReturns, WaitFrame, BeginFrame, LocateViews, PublishFrame,
            EndFrame, HealthAndHeartbeat
    <3>3. QED
      BY <3>1, <3>2
  <2>5. QED
    BY <2>2, <2>4
<1>4. CASE Takes
  <2>1. /\ at = "poll" /\ at' = "poll" /\ Len(events) \in Nat \ {0} /\ Len(events') = Len(events) - 1
        /\ Event = events[1]
        /\ \A i \in 1 .. Len(events') : events'[i] = events[i + 1]
        /\ rtState' = rtState
    BY <1>4, TakenEvents
  <2>2. /\ running = rtBegun
        /\ rtState \in {"unknown", "idle", "exiting"} => ~rtBegun
        /\ rtState \in {"synchronized", "visible", "focused"} => rtBegun
        /\ QueuedOnce("ready") /\ QueuedOnce("stopping")
        /\ \A i \in 1 .. Len(events) :
             /\ events[i] = "ready" => ~rtBegun /\ rtState \in {"ready", "loss_pending"}
             /\ events[i] = "stopping" => rtBegun /\ rtState \in {"stopping", "loss_pending"}
    BY <2>1 DEF SessionCalls
  <2>3. \A i \in 1 .. Len(events') : i + 1 \in 1 .. Len(events) /\ i + 1 # 1
    BY <2>1
  <2>4. 1 \in 1 .. Len(events)
    BY <2>1
  <2>5. QueuedOnce("ready")' /\ QueuedOnce("stopping")'
    <3>1. \A i, j \in 1 .. Len(events') : i + 1 = j + 1 => i = j
      BY <2>1
    <3>2. QED
      BY <2>1, <2>2, <2>3, <3>1 DEF QueuedOnce
  <2>6. CASE BeginSession
    <3>1. Event = "ready" /\ refused' = (refused \/ rtBegun \/ rtState \notin {"ready", "loss_pending"})
          /\ \/ rtBegun' = TRUE /\ running' = TRUE
             \/ UNCHANGED <<rtBegun, running>>
      BY <2>6 DEF BeginSession, BeginsSession
    <3>2. ~rtBegun /\ rtState \in {"ready", "loss_pending"}
      BY <2>1, <2>2, <2>4, <3>1
    <3>3. \A i \in 1 .. Len(events') : events'[i] # "ready" /\ events'[i] # "stopping"
      BY <2>1, <2>2, <2>3, <2>4, <3>1, <3>2 DEF QueuedOnce
    <3>4. QED
      BY <2>1, <2>2, <2>5, <3>1, <3>2, <3>3 DEF SessionCalls, RuntimeCallsInOrder
  <2>7. CASE EndSession
    <3>1. Event = "stopping" /\ running
          /\ refused' = (refused \/ ~rtBegun \/ rtState \notin {"stopping", "loss_pending"})
          /\ \/ rtBegun' = FALSE /\ running' = FALSE
             \/ UNCHANGED <<rtBegun, running>>
      BY <2>7 DEF EndSession, EndsSession
    <3>2. rtBegun /\ rtState \in {"stopping", "loss_pending"}
      BY <2>1, <2>2, <2>4, <3>1
    <3>3. \A i \in 1 .. Len(events') : events'[i] # "ready" /\ events'[i] # "stopping"
      <4>1. TAKE i \in 1 .. Len(events')
      <4>2. events'[i] = events[i + 1] /\ i + 1 \in 1 .. Len(events) /\ i + 1 # 1
        BY <2>1, <2>3
      <4>3. events'[i] # "ready"
        BY <2>2, <3>2, <4>2
      <4>4. events[1] = "stopping"
        BY <2>1, <3>1
      <4>5. events'[i] # "stopping"
        BY <2>2, <2>4, <4>2, <4>4 DEF QueuedOnce
      <4>6. QED
        BY <4>3, <4>5
    <3>4. QED
      BY <2>1, <2>2, <2>5, <3>1, <3>2, <3>3 DEF SessionCalls, RuntimeCallsInOrder
  <2>8. CASE UNCHANGED <<rtBegun, running, refused>>
    BY <2>1, <2>2, <2>3, <2>5, <2>8 DEF SessionCalls, RuntimeCallsInOrder
  <2>9. QED
    BY <1>4, <2>1, <2>6, <2>7, <2>8, TakesEffect
<1>5. QED
  BY <1>1, <1>2, <1>3, <1>4, SessionSteps

\* Frames are waited for, begun and ended in turn; a frame that could not be begun is
\* the last.
LEMMA FrameCallsStep ==
    ASSUME SessionTypeOK, SessionCalls, FrameCalls, SessionNext
    PROVE  FrameCalls'
<1>1. CASE RuntimeSends
  BY <1>1 DEF RuntimeSends, FrameCalls, machine
<1>2. CASE ShutdownRuntime
  BY <1>2 DEF ShutdownRuntime, FrameCalls, StartStages
<1>3. CASE StartRuntime
  BY <1>3, StartSteps DEF FrameCalls, StartStages, external, machine
<1>4. CASE Quiet /\ ~StartRuntime
  <2>1. CASE TopOfLoop \/ StopRequested \/ PollFails \/ PollReturns
    BY <2>1 DEF TopOfLoop, StopRequested, PollFails, PollReturns, FrameCalls, StartStages, external,
                machine, ShouldDriveFrames, SessionTypeOK
  <2>2. CASE WaitFrame \/ BeginFrame
    BY <2>2 DEF WaitFrame, BeginFrame, FrameCalls, StartStages, machine, MarkFailed
  <2>3. CASE LocateViews \/ PublishFrame \/ EndFrame \/ HealthAndHeartbeat
    BY <2>3 DEF LocateViews, PublishFrame, EndFrame, HealthAndHeartbeat, FrameCalls, StartStages,
                external, machine, MarkFailed
  <2>4. QED
    BY <1>4, <2>1, <2>2, <2>3 DEF Quiet
<1>5. CASE Takes
  <2>1. at = "poll" /\ at' = "poll" /\ rtFrame' = rtFrame
    BY <1>5, TakenEvents
  <2>2. QED
    BY <2>1 DEF FrameCalls, StartStages
<1>6. QED
  BY <1>1, <1>2, <1>3, <1>4, <1>5, SessionSteps

\* A reset is noted where it happens, and forgotten only when it is published.
LEMMA OwedStep ==
    ASSUME SessionTypeOK, OwedIsNoted, SessionNext
    PROVE  OwedIsNoted'
<1>1. CASE RuntimeSends
  BY <1>1 DEF RuntimeSends, OwedIsNoted, ReasonsOfPoll, reasons
<1>2. CASE ShutdownRuntime
  BY <1>2 DEF ShutdownRuntime, OwedIsNoted
<1>3. CASE StartRuntime
  BY <1>3, StartSteps DEF OwedIsNoted, StartStages, reasons
<1>4. CASE Quiet /\ ~StartRuntime
  <2>1. CASE TopOfLoop \/ StopRequested \/ PollFails \/ PollReturns
    BY <2>1 DEF TopOfLoop, StopRequested, PollFails, PollReturns, OwedIsNoted, ReasonsOfPoll,
                reasons
  <2>2. CASE WaitFrame \/ BeginFrame
    BY <2>2 DEF WaitFrame, BeginFrame, OwedIsNoted, reasons
  <2>3. CASE LocateViews \/ PublishFrame \/ EndFrame \/ HealthAndHeartbeat
    BY <2>3 DEF LocateViews, PublishFrame, EndFrame, HealthAndHeartbeat, OwedIsNoted, reasons
  <2>4. QED
    BY <1>4, <2>1, <2>2, <2>3 DEF Quiet
<1>5. CASE Takes
  <2>1. at = "poll" /\ at' = "poll" /\ UNCHANGED <<pendingReasons, framesSeen>>
    BY <1>5, TakenEvents
  <2>2. poll \in PollResults
    BY DEF SessionTypeOK, PollResults
  <2>3. CASE RejectTransition \/ ApplyTransition \/ InstanceLossPending \/ EndSession
    <3>1. owed' = owed
      BY <2>3 DEF RejectTransition, ApplyTransition, InstanceLossPending, EndSession
    <3>2. /\ poll.history => poll'.history
          /\ poll.tracking => poll'.tracking
      <4>1. CASE ApplyTransition
        <5>1. Note(TRUE, FALSE, TRUE) \/ Note(FALSE, FALSE, FALSE)
          BY <4>1 DEF ApplyTransition, Note
        <5>2. QED
          BY <2>2, <5>1, NoteAdds
      <4>2. CASE ~ApplyTransition
        <5>1. UNCHANGED poll \/ Note(FALSE, FALSE, TRUE) \/ Note(TRUE, FALSE, TRUE)
          BY <2>3, <4>2 DEF RejectTransition, InstanceLossPending, EndSession
        <5>2. QED
          BY <2>2, <5>1, NoteAdds
      <4>3. QED
        BY <4>1, <4>2
    <3>3. QED
      BY <2>1, <3>1, <3>2 DEF OwedIsNoted, ReasonsOfPoll
  <2>4. CASE BeginSession
    <3>1. owed' = IF framesSeen THEN owed \cup {"restart"} ELSE owed
      BY <2>4 DEF BeginSession
    <3>2. poll'.history /\ (poll.tracking => poll'.tracking)
      <4>1. Note(TRUE, FALSE, FALSE) \/ Note(TRUE, FALSE, TRUE)
        BY <2>4 DEF BeginSession
      <4>2. QED
        BY <2>2, <4>1, NoteAdds
    <3>3. QED
      BY <2>1, <3>1, <3>2 DEF OwedIsNoted, ReasonsOfPoll
  <2>5. CASE ReferenceSpaceChangePending
    <3>1. owed' = owed \cup {"recenter"}
      BY <2>5 DEF ReferenceSpaceChangePending
    <3>2. poll'.history /\ poll'.tracking
      <4>1. Note(TRUE, TRUE, FALSE)
        BY <2>5 DEF ReferenceSpaceChangePending
      <4>2. QED
        BY <2>2, <4>1, NoteAdds
    <3>3. QED
      BY <2>1, <3>1, <3>2 DEF OwedIsNoted, ReasonsOfPoll
  <2>6. QED
    BY <1>5, <2>3, <2>4, <2>5 DEF Takes
<1>6. QED
  BY <1>1, <1>2, <1>3, <1>4, <1>5, SessionSteps

\* The machine accepts every state the runtime sends, until the host leaves.
LEMMA FollowsStep ==
    ASSUME SessionTypeOK, SessionTypeOK', EventsLead, exitRequested \/ state = delivered, SessionNext
    PROVE  EventsLead' /\ (exitRequested' \/ state' = delivered')
<1>1. CASE RuntimeSends
  <2>1. PICK s \in EventNames :
             /\ Len(events) \in Nat /\ Len(events') = Len(events) + 1 /\ events' = Append(events, s)
             /\ events'[Len(events) + 1] = s
             /\ \A i \in 1 .. Len(events) : events'[i] = events[i]
             /\ \/ s \in RuntimeStates /\ s \in SessionSuccessors /\ rtState' = s
                \/ s \notin RuntimeStates /\ rtState' = rtState
             /\ UNCHANGED <<rtBegun, rtFrame, delivered, refused, machine, created, at, poll,
                            shouldRender, framesSeen, reasons, failures>>
    BY <1>1, SentEvents
  <2>2. UNCHANGED <<delivered, state, exitRequested>>
    BY <2>1 DEF machine
  <2>3. CASE exitRequested
    BY <2>2, <2>3 DEF EventsLead
  <2>4. CASE ~exitRequested
    <3>1. PICK h \in [0 .. Len(events) -> RuntimeStates] : Path(h)
      BY <2>4 DEF EventsLead
    <3>2. PICK n \in Nat : n = Len(events)
      BY <2>1
    <3>3. PICK r \in RuntimeStates : r = rtState'
      BY DEF SessionTypeOK
    <3> DEFINE g == [i \in 0 .. n + 1 |-> IF i = n + 1 THEN r ELSE h[i]]
    <3>4. g \in [0 .. n + 1 -> RuntimeStates]
      BY <3>1, <3>2, <3>3
    <3>5. /\ h[0] = delivered /\ h[n] = rtState
          /\ \A i \in 1 .. n :
               IF events[i] \in RuntimeStates THEN h[i] = events[i] /\ Follows(h[i - 1], h[i])
                                              ELSE h[i] = h[i - 1]
      BY <3>1, <3>2 DEF Path
    <3>6. g[0] = h[0] /\ g[n + 1] = r
      BY <3>2
    <3>7. \A i \in 1 .. n : g[i] = h[i] /\ g[i - 1] = h[i - 1]
      BY <3>2
    <3>8. g[n] = h[n]
      BY <3>2
    <3> HIDE DEF g
    <3>9. \A i \in 1 .. n :
            IF events'[i] \in RuntimeStates THEN g[i] = events'[i] /\ Follows(g[i - 1], g[i])
                                            ELSE g[i] = g[i - 1]
      BY <2>1, <3>2, <3>5, <3>7
    <3>10. IF s \in RuntimeStates THEN g[n + 1] = s /\ Follows(g[n], g[n + 1])
                                  ELSE g[n + 1] = g[n]
      <4>1. g[n] = rtState /\ g[n + 1] = rtState'
        BY <3>3, <3>5, <3>6, <3>8
      <4>2. CASE s \in RuntimeStates
        BY <2>1, <4>1, <4>2, SuccessorsFollow DEF SessionTypeOK
      <4>3. CASE s \notin RuntimeStates
        BY <2>1, <4>1, <4>3
      <4>4. QED
        BY <4>2, <4>3
    <3>11. \A i \in 1 .. n + 1 :
             IF events'[i] \in RuntimeStates THEN g[i] = events'[i] /\ Follows(g[i - 1], g[i])
                                             ELSE g[i] = g[i - 1]
      <4>1. \A i \in 1 .. n + 1 : i \in 1 .. n \/ (i = n + 1 /\ i - 1 = n)
        BY <3>2
      <4>2. events'[n + 1] = s
        BY <2>1, <3>2
      <4>3. QED
        BY <3>9, <3>10, <4>1, <4>2
    <3>12. Len(events') = n + 1
      BY <2>1, <3>2
    <3>13. g[0] = delivered' /\ g[n + 1] = rtState'
      BY <2>2, <3>3, <3>5, <3>6
    <3>14. EventsLead'
      BY <3>4, <3>11, <3>12, <3>13 DEF EventsLead, Path
    <3>15. QED
      BY <2>2, <3>14
  <2>5. QED
    BY <2>3, <2>4
<1>2. CASE ShutdownRuntime
  BY <1>2 DEF ShutdownRuntime, EventsLead, Path, machine
<1>3. CASE Quiet
  <2>1. UNCHANGED HostOnly
    BY <1>3, QuietSteps
  <2>2. state' = state /\ (exitRequested => exitRequested')
    <3>1. CASE StartRuntime
      <4>1. UNCHANGED machine
        BY <3>1, StartSteps
      <4>2. QED
        BY <4>1 DEF machine
    <3>2. CASE ~StartRuntime
      BY <1>3, <3>2 DEF Quiet, machine, MarkFailed, TopOfLoop, StopRequested, PollFails, PollReturns,
                        WaitFrame, BeginFrame, LocateViews, PublishFrame, EndFrame,
                        HealthAndHeartbeat
    <3>3. QED
      BY <3>1, <3>2
  <2>3. QED
    BY <2>1, <2>2 DEF EventsLead, Path, HostOnly
<1>4. CASE Takes
  <2>1. /\ Len(events) \in Nat \ {0} /\ Len(events') = Len(events) - 1
        /\ Event = events[1] /\ Event \in EventNames
        /\ \A i \in 1 .. Len(events') : events'[i] = events[i + 1]
        /\ rtState' = rtState
    BY <1>4, TakenEvents
  <2>2. exitRequested => exitRequested'
    BY <1>4 DEF Takes, RejectTransition, ApplyTransition, BeginSession, EndSession, MarkFailed,
                ReferenceSpaceChangePending, InstanceLossPending, machine
  <2>3. CASE exitRequested \/ exitRequested'
    BY <2>2, <2>3 DEF EventsLead
  <2>4. CASE ~exitRequested /\ ~exitRequested'
    <3>1. PICK h \in [0 .. Len(events) -> RuntimeStates] : Path(h)
      BY <2>4 DEF EventsLead
    <3>2. PICK n \in Nat : Len(events) = n + 1 /\ Len(events') = n
      <4>1. Len(events) - 1 \in Nat
        BY <2>1
      <4>2. QED
        BY <2>1, <4>1
    <3>3. /\ h[0] = delivered /\ h[n + 1] = rtState
          /\ \A i \in 1 .. n + 1 :
               IF events[i] \in RuntimeStates THEN h[i] = events[i] /\ Follows(h[i - 1], h[i])
                                              ELSE h[i] = h[i - 1]
      BY <3>1, <3>2 DEF Path
    <3>4. IF Event \in RuntimeStates THEN h[1] = Event /\ Follows(delivered, Event)
                                     ELSE h[1] = delivered
      <4>1. 1 \in 1 .. n + 1 /\ 1 - 1 = 0
        BY <3>2
      <4>2. QED
        BY <2>1, <3>3, <4>1
    <3>5. state' = h[1] /\ delivered' = h[1]
      <4>1. CASE Event \in RuntimeStates
        <5>1. Allowed(state, Event)
          BY <2>4, <3>4, <4>1, FollowsIsAllowed DEF SessionTypeOK
        <5>2. Event \notin {"recenter", "instance loss"}
          BY <4>1 DEF RuntimeStates
        <5>3. state' = Event /\ delivered' = Event
          BY <1>4, <5>1, <5>2 DEF Takes, RejectTransition, ApplyTransition, BeginSession, EndSession,
                                  ReferenceSpaceChangePending, InstanceLossPending
        <5>4. QED
          BY <3>4, <4>1, <5>3
      <4>2. CASE Event \notin RuntimeStates
        <5>1. UNCHANGED <<state, delivered>>
          BY <1>4, <2>4, <4>2 DEF Takes, RejectTransition, ApplyTransition, BeginSession, EndSession,
                      ReferenceSpaceChangePending, InstanceLossPending, IsSessionState, machine
        <5>2. QED
          BY <2>4, <3>4, <4>2, <5>1
      <4>3. QED
        BY <4>1, <4>2
    <3> DEFINE g == [i \in 0 .. n |-> h[i + 1]]
    <3>6. g \in [0 .. n -> RuntimeStates]
      <4>1. \A i \in 0 .. n : i + 1 \in 0 .. n + 1
        BY <3>2
      <4>2. QED
        BY <3>1, <3>2, <4>1
    <3>7. /\ g[0] = h[1] /\ g[n] = h[n + 1]
          /\ \A i \in 1 .. n : g[i] = h[i + 1] /\ g[i - 1] = h[i]
      BY <3>2
    <3> HIDE DEF g
    <3>8. \A i \in 1 .. n :
            IF events'[i] \in RuntimeStates THEN g[i] = events'[i] /\ Follows(g[i - 1], g[i])
                                            ELSE g[i] = g[i - 1]
      <4>1. TAKE i \in 1 .. n
      <4>2. PICK k \in 1 .. n + 1 : k = i + 1 /\ k - 1 = i /\ events'[i] = events[k]
        BY <2>1, <3>2
      <4>3. g[i] = h[k] /\ g[i - 1] = h[k - 1]
        BY <3>7, <4>2
      <4>4. QED
        BY <3>3, <4>2, <4>3
    <3>9. g[0] = delivered' /\ g[n] = rtState'
      BY <2>1, <3>3, <3>5, <3>7
    <3>10. EventsLead'
      BY <3>2, <3>6, <3>8, <3>9 DEF EventsLead, Path
    <3>11. QED
      BY <3>5, <3>10
  <2>5. QED
    BY <2>3, <2>4
<1>5. QED
  BY <1>1, <1>2, <1>3, <1>4, SessionSteps

\* The session starts in its invariant: nothing is queued, and the start-up reset is owed.
LEMMA SessionStart == SessionInit => SessionInv
<1> SUFFICES ASSUME SessionInit PROVE SessionInv
  OBVIOUS
<1>1. /\ rtState = "unknown" /\ rtBegun = FALSE /\ rtFrame = "none"
      /\ events = <<>> /\ sent = 0 /\ delivered = "unknown" /\ refused = FALSE
      /\ state = "unknown" /\ running = FALSE /\ exitRequested = FALSE /\ sessionFailed = FALSE
      /\ created = {} /\ at = "start" /\ poll = NoResult /\ shouldRender = FALSE
      /\ framesSeen = FALSE /\ pendingReasons = {"startup"} /\ owed = {"startup"} /\ failures = 0
  BY DEF SessionInit
<1>2. SessionTypeOK
  <2>1. events \in Seq(EventNames) /\ failures \in 0 .. MaxFailures /\ sent \in 0 .. MaxEvents
    BY <1>1, EventsAssumption, EmptySeq
  <2>2. poll \in PollResults
    BY <1>1 DEF NoResult, PollResults
  <2>3. QED
    BY <1>1, <2>1, <2>2 DEF SessionTypeOK, EventNames, PollResults, RuntimeStates, StartStages
<1>3. Len(events) = 0
  BY <1>1, EmptySeq
<1>4. EventsLead
  <2> DEFINE h == [i \in 0 .. 0 |-> "unknown"]
  <2>1. h \in [0 .. Len(events) -> RuntimeStates] /\ Path(h)
    BY <1>1, <1>3 DEF Path, RuntimeStates
  <2>2. QED
    BY <2>1 DEF EventsLead
<1>5. SessionCalls
  <2>1. 1 .. Len(events) = {}
    BY <1>3
  <2>2. QED
    BY <1>1, <2>1 DEF SessionCalls, QueuedOnce
<1>6. QED
  BY <1>1, <1>2, <1>4, <1>5 DEF SessionInv, RuntimeCallsInOrder, FrameCalls, OwedIsNoted, StartStages

\* Every step of the runtime and the host keeps the session's invariant.
LEMMA SessionStep == SessionInv /\ SessionNext => SessionInv'
<1> SUFFICES ASSUME SessionInv, SessionNext PROVE SessionInv'
  OBVIOUS
<1>1. SessionTypeOK'
  BY SessionTypes DEF SessionInv
<1>2. SessionCalls' /\ RuntimeCallsInOrder'
  BY <1>1, CallsStep DEF SessionInv
<1>3. FrameCalls'
  BY FrameCallsStep DEF SessionInv
<1>4. OwedIsNoted'
  BY OwedStep DEF SessionInv
<1>5. EventsLead' /\ (exitRequested' \/ state' = delivered')
  BY <1>1, FollowsStep DEF SessionInv
<1>6. QED
  BY <1>1, <1>2, <1>3, <1>4, <1>5 DEF SessionInv

\* A step of another part leaves the session as it is.
LEMMA SessionQuiet == SessionInv /\ UNCHANGED sessionVars => SessionInv'
<1> SUFFICES ASSUME SessionInv, UNCHANGED sessionVars PROVE SessionInv'
  OBVIOUS
<1>1. UNCHANGED <<rtState, rtBegun, rtFrame, events, sent, delivered, refused, state, running,
                  exitRequested, sessionFailed, created, at, poll, shouldRender, framesSeen,
                  pendingReasons, owed, failures>>
  BY DEF sessionVars, external, machine, reasons
<1>2. SessionTypeOK' /\ RuntimeCallsInOrder' /\ (exitRequested' \/ state' = delivered')
  <2>1. SessionTypeOK /\ RuntimeCallsInOrder /\ (exitRequested \/ state = delivered)
    BY DEF SessionInv
  <2>2. SessionTypeOK'
    <3>1. SessionTypeOK' = SessionTypeOK
      BY <1>1 DEF SessionTypeOK
    <3>2. QED
      BY <2>1, <3>1
  <2>3. QED
    BY <1>1, <2>1, <2>2 DEF RuntimeCallsInOrder
<1>3. EventsLead'
  BY <1>1 DEF SessionInv, EventsLead, Path
<1>4. SessionCalls'
  BY <1>1 DEF SessionInv, SessionCalls, QueuedOnce
<1>5. FrameCalls' /\ OwedIsNoted'
  BY <1>1 DEF SessionInv, FrameCalls, OwedIsNoted, ReasonsOfPoll
<1>6. QED
  BY <1>2, <1>3, <1>4, <1>5 DEF SessionInv

-----------------------------------------------------------------------------
(* The frame: types *)

Parts         == AllStages \cup {"depth", "cache"}
Places        == InFrame \cup InSetup \cup {"idle", "end empty", "shutdown", "stopped"}
Leased        == {"runtime", "acquired", "waited"}
FrameNumbers  == 0 .. MaxFrames
PictureNumbers == Unwritten .. MaxFrames
FlightType    == SUBSET (Panels \X Parts)
BuiltType     == [Panels -> SUBSET Parts]
ColourType    == [Panels -> Leased]
StreamFlags   == [Panels -> BOOLEAN]
StreamFrames  == [Panels -> FrameNumbers]
PassType      == [stream : {"none", "fresh", "cached"}, neural : FrameNumbers, warped : BOOLEAN,
                  copied : BOOLEAN, depth : BOOLEAN, label : FrameNumbers]
ShownType     == [layer : {"none", "quad", "projection"}, label : FrameNumbers,
                  picture : PictureNumbers, depth : FrameNumbers]
FaultCounts   == 0 .. MaxXrFaults

\* The type of the frame's variables, each with its set by name.
XrTyped ==
    /\ native \in BOOLEAN /\ quarantined \in BOOLEAN /\ gpuRemoved \in BOOLEAN
    /\ xrPc \in Places /\ built \in BuiltType /\ inFlight \in FlightType
    /\ colour \in ColourType /\ depthOn \in BOOLEAN /\ depthLease \in Leased
    /\ depthPending \in BOOLEAN /\ misused \in BOOLEAN
    /\ streamOpen \in StreamFlags /\ hasCache \in StreamFlags
    /\ cache \in StreamFrames /\ seen \in StreamFrames
    /\ rawLabel \in FrameNumbers /\ neuralOn \in BOOLEAN
    /\ neuralIn \in FrameNumbers /\ neuralPair \in FrameNumbers
    /\ panel \in Panels /\ render \in BOOLEAN /\ movie \in BOOLEAN /\ candidate \in FrameNumbers
    /\ pass \in PassType /\ picture \in PictureNumbers /\ depthOf \in FrameNumbers
    /\ shown \in ShownType /\ xrFailed \in BOOLEAN /\ xrFaults \in FaultCounts

\* Both ways of writing the type agree.
LEMMA XrTypesNamed == XrTyped <=> XrTypeOK
<1>1. Places = {"setup", "build", "idle", "poll", "acquire", "reset", "stream",
                "neural", "depth", "close", "execute", "wait", "release", "submit", "end empty",
                "shutdown", "stopped"}
  BY DEF Places, InFrame, InSetup, Holding
<1>2. inFlight \in FlightType <=> inFlight \subseteq Panels \X Parts
  BY DEF FlightType
<1>3. QED
  BY <1>1, <1>2 DEF XrTyped, XrTypeOK, Parts, Leased, FrameNumbers, PictureNumbers, BuiltType,
                    ColourType, StreamFlags, StreamFrames, PassType, ShownType, FaultCounts

\* A failing call is counted up to the bound.
LEMMA FaultsBounded ==
    ASSUME xrFaults \in FaultCounts, XrFine \/ XrFault \/ UNCHANGED xrFaults
    PROVE  xrFaults' \in FaultCounts
BY XrAssumption DEF XrFine, XrFault, FaultCounts

\* Updates of the panels' records stay in their types.
LEMMA PanelUpdates ==
    ASSUME NEW p \in Panels
    PROVE  /\ \A f \in BuiltType, s \in SUBSET Parts : [f EXCEPT ![p] = s] \in BuiltType
           /\ \A f \in ColourType, s \in Leased : [f EXCEPT ![p] = s] \in ColourType
           /\ \A f \in StreamFlags, s \in BOOLEAN : [f EXCEPT ![p] = s] \in StreamFlags
           /\ \A f \in StreamFrames, s \in FrameNumbers : [f EXCEPT ![p] = s] \in StreamFrames
BY DEF BuiltType, ColourType, StreamFlags, StreamFrames

\* Frame numbers and pictures.
LEMMA FrameNumberTypes ==
    /\ 0 \in FrameNumbers /\ 0 \in PictureNumbers /\ Unwritten \in PictureNumbers
    /\ FrameNumbers \subseteq PictureNumbers /\ FrameNumbers \subseteq Int
    /\ \A n \in FrameNumbers : n + 1 .. MaxFrames \subseteq FrameNumbers
    /\ \A m, n \in FrameNumbers : m + 1 .. n \subseteq FrameNumbers
    /\ Unwritten \notin FrameNumbers
BY XrAssumption DEF FrameNumbers, PictureNumbers, Unwritten

\* The command list's record and what is shown, at their starts.
LEMMA EmptyTypes == NoPass \in PassType /\ Empty \in ShownType
BY FrameNumberTypes DEF NoPass, Empty, PassType, ShownType

\* The same for the next state.
LEMMA XrTypesPrimed == XrTyped' <=> XrTypeOK'
BY XrTypesNamed, PTL

\* Every step of a frame keeps the types.
LEMMA XrTypesStep ==
    ASSUME XrTypeOK, XrNext
    PROVE  XrTypeOK'
<1> SUFFICES ASSUME XrTyped, XrNext PROVE XrTyped'
  BY XrTypesNamed, XrTypesPrimed
<1> USE DEF xrLife, gpu, depthImg, streams, neural, choice, pixels
<1>1. CASE Setup
  <2>1. xrPc' \in Places /\ quarantined' \in BOOLEAN /\ panel' \in Panels /\ depthOn' \in BOOLEAN
    BY <1>1 DEF XrTyped, Setup, BeginSetup, ResetPanel, CreateSwapchain, CreateViews, CreateCommands, CreateFence, CreateUpload, Build, BuildFails, FinishSetup, InitializeDepth, Quarantine, RetireUnresolved, RetireGpuWork, Places, InFrame, InSetup, Holding, Panels
  <2>2. built' \in BuiltType
    <3>1. built[panel] \in SUBSET Parts
      BY DEF XrTyped, BuiltType
    <3>2. \/ UNCHANGED built
          \/ built' = [built EXCEPT ![panel] = {}]
          \/ \E part \in Parts : built' = [built EXCEPT ![panel] = built[panel] \cup {part}]
      BY <1>1 DEF Setup, BeginSetup, ResetPanel, CreateSwapchain, CreateViews, CreateCommands,
                  CreateFence, CreateUpload, Build, BuildFails, FinishSetup, InitializeDepth,
                  Quarantine, Parts, AllStages
    <3>3. \A part \in Parts : built[panel] \cup {part} \in SUBSET Parts
      BY <3>1
    <3>4. {} \in SUBSET Parts
      OBVIOUS
    <3>5. QED
      BY <3>2, <3>3, <3>4, PanelUpdates DEF XrTyped
  <2>3. xrFaults' \in FaultCounts
    BY <1>1, FaultsBounded DEF XrTyped, Setup, BeginSetup, ResetPanel, CreateSwapchain, CreateViews, CreateCommands, CreateFence, CreateUpload, Build, BuildFails, FinishSetup, InitializeDepth, Quarantine, RetireUnresolved, RetireGpuWork
  <2>4. UNCHANGED <<native, gpuRemoved, inFlight, colour, depthLease, depthPending, misused,
                      streamOpen, hasCache, cache, seen, rawLabel, neuralOn, neuralIn, neuralPair,
                      render, movie, candidate, pass, picture, depthOf, shown, xrFailed>>
    BY <1>1 DEF Setup, BeginSetup, ResetPanel, CreateSwapchain, CreateViews, CreateCommands, CreateFence, CreateUpload, Build, BuildFails, FinishSetup, InitializeDepth, Quarantine, RetireUnresolved, RetireGpuWork
  <2>5. QED
    BY <2>1, <2>2, <2>3, <2>4 DEF XrTyped
<1>2. CASE Leave
  <2>1. xrPc' \in Places
    BY <1>2 DEF XrTyped, Leave, Places, InFrame, InSetup, Holding
  <2>2. UNCHANGED <<native, quarantined, gpuRemoved, built, inFlight, colour, depthOn, depthLease,
                      depthPending, misused, streamOpen, hasCache, cache, seen, rawLabel, neuralOn,
                      neuralIn, neuralPair, panel, render, movie, candidate, pass, picture, depthOf,
                      shown, xrFailed, xrFaults>>
    BY <1>2 DEF Leave
  <2>3. QED
    BY <2>1, <2>2 DEF XrTyped
<1>3. CASE XrShutdown
  <2>1. xrPc' \in Places /\ quarantined' \in BOOLEAN /\ depthOn' \in BOOLEAN /\ depthLease' \in Leased /\ depthPending' \in BOOLEAN /\ neuralOn' \in BOOLEAN
    BY <1>3 DEF XrTyped, XrShutdown, Quarantine, RetireUnresolved, RetireGpuWork, Places, InFrame, InSetup, Holding, Leased
  <2>2. built' \in BuiltType /\ streamOpen' \in StreamFlags /\ hasCache' \in StreamFlags
    BY <1>3 DEF XrTyped, XrShutdown, Quarantine, RetireUnresolved, RetireGpuWork, BuiltType, StreamFlags
  <2>3. xrFaults' \in FaultCounts
    BY <1>3, FaultsBounded DEF XrTyped, XrShutdown, Quarantine, RetireUnresolved, RetireGpuWork
  <2>4. UNCHANGED <<native, gpuRemoved, inFlight, colour, misused, cache, seen, rawLabel, neuralIn,
                      neuralPair, panel, render, movie, candidate, pass, picture, depthOf, shown,
                      xrFailed>>
    BY <1>3 DEF XrShutdown, Quarantine, RetireUnresolved, RetireGpuWork
  <2>5. QED
    BY <2>1, <2>2, <2>3, <2>4 DEF XrTyped
<1>4. CASE GpuFinishes
  <2>1. inFlight' \in FlightType
    BY <1>4 DEF XrTyped, GpuFinishes, FlightType
  <2>2. UNCHANGED <<native, quarantined, gpuRemoved, xrPc, built, colour, depthOn, depthLease,
                      depthPending, misused, streamOpen, hasCache, cache, seen, rawLabel, neuralOn,
                      neuralIn, neuralPair, panel, render, movie, candidate, pass, picture, depthOf,
                      shown, xrFailed, xrFaults>>
    BY <1>4 DEF GpuFinishes
  <2>3. QED
    BY <2>1, <2>2 DEF XrTyped
<1>5. CASE DeviceRemoved
  <2>1. inFlight' \in FlightType /\ gpuRemoved' \in BOOLEAN
    BY <1>5 DEF XrTyped, DeviceRemoved, FlightType
  <2>2. xrFaults' \in FaultCounts
    BY <1>5, FaultsBounded DEF XrTyped, DeviceRemoved
  <2>3. UNCHANGED <<native, quarantined, xrPc, built, colour, depthOn, depthLease, depthPending,
                      misused, streamOpen, hasCache, cache, seen, rawLabel, neuralOn, neuralIn,
                      neuralPair, panel, render, movie, candidate, pass, picture, depthOf, shown,
                      xrFailed>>
    BY <1>5 DEF DeviceRemoved
  <2>4. QED
    BY <2>1, <2>2, <2>3 DEF XrTyped
<1>6. CASE ChoosePanel
  <2>1. xrPc' \in Places /\ render' \in BOOLEAN /\ movie' \in BOOLEAN /\ panel' \in Panels
    BY <1>6 DEF XrTyped, ChoosePanel, Places, InFrame, InSetup, Holding, Panels
  <2>2. shown' \in ShownType
    BY <1>6, EmptyTypes DEF XrTyped, ChoosePanel
  <2>3. UNCHANGED <<native, quarantined, gpuRemoved, built, inFlight, colour, depthOn, depthLease,
                      depthPending, misused, streamOpen, hasCache, cache, seen, rawLabel, neuralOn,
                      neuralIn, neuralPair, candidate, pass, picture, depthOf, xrFailed, xrFaults>>
    BY <1>6 DEF ChoosePanel
  <2>4. QED
    BY <2>1, <2>2, <2>3 DEF XrTyped
<1>7. CASE PollStream
  <2>1. xrPc' \in Places
    BY <1>7 DEF XrTyped, PollStream, Places, InFrame, InSetup, Holding
  <2>2. streamOpen' \in StreamFlags
    BY <1>7, PanelUpdates DEF XrTyped, PollStream
  <2>3. candidate' \in FrameNumbers
    BY <1>7, FrameNumberTypes DEF XrTyped, PollStream, StreamFrames
  <2>4. xrFaults' \in FaultCounts
    BY <1>7, FaultsBounded DEF XrTyped, PollStream
  <2>5. UNCHANGED <<native, quarantined, gpuRemoved, built, inFlight, colour, depthOn, depthLease,
                      depthPending, misused, hasCache, cache, seen, rawLabel, neuralOn, neuralIn,
                      neuralPair, panel, render, movie, pass, picture, depthOf, shown, xrFailed>>
    BY <1>7 DEF PollStream
  <2>6. QED
    BY <2>1, <2>2, <2>3, <2>4, <2>5 DEF XrTyped
<1>8. CASE CloseStream
  <2>1. xrPc' \in Places
    BY <1>8 DEF XrTyped, CloseStream, Places, InFrame, InSetup, Holding
  <2>2. streamOpen' \in StreamFlags /\ hasCache' \in StreamFlags
    BY <1>8, PanelUpdates DEF XrTyped, CloseStream
  <2>3. built' \in BuiltType
    BY <1>8, PanelUpdates DEF XrTyped, CloseStream, BuiltType
  <2>4. xrFaults' \in FaultCounts
    BY <1>8, FaultsBounded DEF XrTyped, CloseStream
  <2>5. UNCHANGED <<native, quarantined, gpuRemoved, inFlight, colour, depthOn, depthLease,
                      depthPending, misused, cache, seen, rawLabel, neuralOn, neuralIn, neuralPair,
                      panel, render, movie, candidate, pass, picture, depthOf, shown, xrFailed>>
    BY <1>8 DEF CloseStream
  <2>6. QED
    BY <2>1, <2>2, <2>3, <2>4, <2>5 DEF XrTyped
<1>9. CASE EndEmpty
  <2>1. xrPc' \in Places /\ depthOn' \in BOOLEAN /\ depthLease' \in Leased
    BY <1>9 DEF XrTyped, EndEmpty, ReleaseReady, DisableDepth, Forget, Places, InFrame, InSetup, Holding, Leased
  <2>2. shown' \in ShownType /\ pass' \in PassType /\ picture' \in PictureNumbers /\ depthOf' \in FrameNumbers
    BY <1>9, EmptyTypes, FrameNumberTypes DEF XrTyped, EndEmpty, ReleaseReady, DisableDepth, Forget
  <2>3. panel' \in Panels /\ render' \in BOOLEAN /\ movie' \in BOOLEAN /\ candidate' \in FrameNumbers
    BY <1>9, FrameNumberTypes DEF XrTyped, EndEmpty, ReleaseReady, DisableDepth, Forget, Panels
  <2>4. xrFaults' \in FaultCounts
    BY <1>9, FaultsBounded DEF XrTyped, EndEmpty, ReleaseReady, DisableDepth, Forget
  <2>5. UNCHANGED <<native, quarantined, gpuRemoved, built, inFlight, colour, depthPending, misused,
                      streamOpen, hasCache, cache, seen, rawLabel, neuralOn, neuralIn, neuralPair,
                      xrFailed>>
    BY <1>9 DEF EndEmpty, ReleaseReady, DisableDepth, Forget
  <2>6. QED
    BY <2>1, <2>2, <2>3, <2>4, <2>5 DEF XrTyped
<1>10. CASE AcquireColour
  <2>1. xrPc' \in Places /\ misused' \in BOOLEAN /\ xrFailed' \in BOOLEAN
    BY <1>10 DEF XrTyped, AcquireColour, FrameFails, Places, InFrame, InSetup, Holding
  <2>2. colour' \in ColourType
    BY <1>10, PanelUpdates DEF XrTyped, AcquireColour, FrameFails, Leased
  <2>3. xrFaults' \in FaultCounts
    BY <1>10, FaultsBounded DEF XrTyped, AcquireColour, FrameFails
  <2>4. UNCHANGED <<native, quarantined, gpuRemoved, built, inFlight, depthOn, depthLease,
                      depthPending, streamOpen, hasCache, cache, seen, rawLabel, neuralOn, neuralIn,
                      neuralPair, panel, render, movie, candidate, pass, picture, depthOf, shown>>
    BY <1>10 DEF AcquireColour, FrameFails
  <2>5. QED
    BY <2>1, <2>2, <2>3, <2>4 DEF XrTyped
<1>11. CASE ResetCommands
  <2>1. xrPc' \in Places /\ misused' \in BOOLEAN /\ xrFailed' \in BOOLEAN
    BY <1>11 DEF XrTyped, ResetCommands, FrameFails, ReleaseColour, Places, InFrame, InSetup, Holding
  <2>2. colour' \in ColourType
    BY <1>11, PanelUpdates DEF XrTyped, ResetCommands, FrameFails, ReleaseColour, Leased
  <2>3. xrFaults' \in FaultCounts
    BY <1>11, FaultsBounded DEF XrTyped, ResetCommands, FrameFails, ReleaseColour
  <2>4. UNCHANGED <<native, quarantined, gpuRemoved, built, inFlight, depthOn, depthLease,
                      depthPending, streamOpen, hasCache, cache, seen, rawLabel, neuralOn, neuralIn,
                      neuralPair, panel, render, movie, candidate, pass, picture, depthOf, shown>>
    BY <1>11 DEF ResetCommands, FrameFails, ReleaseColour
  <2>5. QED
    BY <2>1, <2>2, <2>3, <2>4 DEF XrTyped
<1>12. CASE RecordStream
  <2>1. xrPc' \in Places
    BY <1>12 DEF XrTyped, RecordStream, Places, InFrame, InSetup, Holding
  <2>2. pass' \in PassType
    BY <1>12 DEF XrTyped, RecordStream, PassType
  <2>3. hasCache' \in StreamFlags
    BY <1>12, PanelUpdates DEF XrTyped, RecordStream
  <2>4. built' \in BuiltType
    BY <1>12, PanelUpdates DEF XrTyped, RecordStream, BuiltType, Parts
  <2>5. xrFaults' \in FaultCounts
    BY <1>12, FaultsBounded DEF XrTyped, RecordStream
  <2>6. UNCHANGED <<native, quarantined, gpuRemoved, inFlight, colour, depthOn, depthLease,
                      depthPending, misused, streamOpen, cache, seen, rawLabel, neuralOn, neuralIn,
                      neuralPair, panel, render, movie, candidate, picture, depthOf, shown, xrFailed>>
    BY <1>12 DEF RecordStream
  <2>7. QED
    BY <2>1, <2>2, <2>3, <2>4, <2>5, <2>6 DEF XrTyped
<1>13. CASE RecordNeural
  <2>1. xrPc' \in Places /\ neuralOn' \in BOOLEAN
    BY <1>13 DEF XrTyped, RecordNeural, Places, InFrame, InSetup, Holding
  <2>2. neuralPair' \in FrameNumbers
    BY <1>13, FrameNumberTypes DEF XrTyped, RecordNeural
  <2>3. pass' \in PassType
    <3>1. CASE UNCHANGED pass
      BY <3>1 DEF XrTyped
    <3>2. CASE \E n \in FrameNumbers, w \in BOOLEAN :
                 pass' = [pass EXCEPT !.neural = n, !.warped = (w /\ n # 0)]
      <4>1. PICK n \in FrameNumbers, w \in BOOLEAN :
              pass' = [pass EXCEPT !.neural = n, !.warped = (w /\ n # 0)]
        BY <3>2
      <4>2. (w /\ n # 0) \in BOOLEAN
        OBVIOUS
      <4>3. QED
        BY <4>1, <4>2 DEF XrTyped, PassType
    <3>3. QED
      <4>1. \A n \in {0, neuralPair} \cup neuralPair + 1 .. neuralIn : n \in FrameNumbers
        BY FrameNumberTypes DEF XrTyped
      <4>2. QED
        BY <1>13, <3>1, <3>2, <4>1 DEF RecordNeural
  <2>4. UNCHANGED <<native, quarantined, gpuRemoved, built, inFlight, colour, depthOn, depthLease,
                      depthPending, misused, streamOpen, hasCache, cache, seen, rawLabel, neuralIn,
                      panel, render, movie, candidate, picture, depthOf, shown, xrFailed, xrFaults>>
    BY <1>13 DEF RecordNeural
  <2>5. QED
    BY <2>1, <2>2, <2>3, <2>4 DEF XrTyped
<1>14. CASE RecordDepth
  <2>1. xrPc' \in Places /\ depthOn' \in BOOLEAN /\ depthLease' \in Leased
    BY <1>14 DEF XrTyped, RecordDepth, AcquireReady, DisableDepth, Places, InFrame, InSetup, Holding, Leased
  <2>2. pass' \in PassType
    BY <1>14 DEF XrTyped, RecordDepth, AcquireReady, DisableDepth, PassType, Displayed, Raw
  <2>3. xrFaults' \in FaultCounts
    BY <1>14, FaultsBounded DEF XrTyped, RecordDepth, AcquireReady, DisableDepth
  <2>4. UNCHANGED <<native, quarantined, gpuRemoved, built, inFlight, colour, depthPending, misused,
                      streamOpen, hasCache, cache, seen, rawLabel, neuralOn, neuralIn, neuralPair, panel,
                      render, movie, candidate, picture, depthOf, shown, xrFailed>>
    BY <1>14 DEF RecordDepth, AcquireReady, DisableDepth
  <2>5. QED
    BY <2>1, <2>2, <2>3, <2>4 DEF XrTyped
<1>15. CASE RecordDepthFails
  <2>1. xrPc' \in Places /\ depthOn' \in BOOLEAN /\ depthLease' \in Leased
    BY <1>15 DEF XrTyped, RecordDepthFails, DisableDepth, Places, InFrame, InSetup, Holding, Leased
  <2>2. pass' \in PassType
    BY <1>15 DEF XrTyped, RecordDepthFails, DisableDepth, PassType, Displayed, Raw
  <2>3. xrFaults' \in FaultCounts
    BY <1>15, FaultsBounded DEF XrTyped, RecordDepthFails, DisableDepth
  <2>4. UNCHANGED <<native, quarantined, gpuRemoved, built, inFlight, colour, depthPending, misused,
                      streamOpen, hasCache, cache, seen, rawLabel, neuralOn, neuralIn, neuralPair, panel,
                      render, movie, candidate, picture, depthOf, shown, xrFailed>>
    BY <1>15 DEF RecordDepthFails, DisableDepth
  <2>5. QED
    BY <2>1, <2>2, <2>3, <2>4 DEF XrTyped
<1>16. CASE CloseCommands
  <2>1. xrPc' \in Places /\ misused' \in BOOLEAN /\ xrFailed' \in BOOLEAN
    BY <1>16 DEF XrTyped, CloseCommands, FrameFails, ReleaseColour, Places, InFrame, InSetup, Holding
  <2>2. colour' \in ColourType
    BY <1>16, PanelUpdates DEF XrTyped, CloseCommands, FrameFails, ReleaseColour, Leased
  <2>3. xrFaults' \in FaultCounts
    BY <1>16, FaultsBounded DEF XrTyped, CloseCommands, FrameFails, ReleaseColour
  <2>4. UNCHANGED <<native, quarantined, gpuRemoved, built, inFlight, depthOn, depthLease,
                      depthPending, streamOpen, hasCache, cache, seen, rawLabel, neuralOn, neuralIn,
                      neuralPair, panel, render, movie, candidate, pass, picture, depthOf, shown>>
    BY <1>16 DEF CloseCommands, FrameFails, ReleaseColour
  <2>5. QED
    BY <2>1, <2>2, <2>3, <2>4 DEF XrTyped
<1>17. CASE Execute
  <2>1. xrPc' \in Places /\ depthPending' \in BOOLEAN
    BY <1>17 DEF XrTyped, Execute, Places, InFrame, InSetup, Holding, PassType
  <2>2. inFlight' \in FlightType
    BY <1>17 DEF XrTyped, Execute, FlightType, Parts, AllStages
  <2>3. cache' \in StreamFrames /\ seen' \in StreamFrames
    BY <1>17, PanelUpdates DEF XrTyped, Execute
  <2>4. rawLabel' \in FrameNumbers
    BY <1>17 DEF XrTyped, Execute
  <2>5. xrFaults' \in FaultCounts
    BY <1>17, FaultsBounded DEF XrTyped, Execute
  <2>6. picture' \in PictureNumbers /\ depthOf' \in FrameNumbers /\ neuralIn' \in FrameNumbers
    BY <1>17, <2>3, FrameNumberTypes DEF XrTyped, Execute, PassType, StreamFrames
  <2>7. UNCHANGED <<native, quarantined, gpuRemoved, built, colour, depthOn, depthLease, misused,
                      streamOpen, hasCache, neuralOn, neuralPair, panel, render, movie, candidate, pass,
                      shown, xrFailed>>
    BY <1>17 DEF Execute
  <2>8. QED
    BY <2>1, <2>2, <2>3, <2>4, <2>5, <2>6, <2>7 DEF XrTyped
<1>18. CASE WaitForGpu
  <2>1. xrPc' \in Places /\ depthPending' \in BOOLEAN /\ xrFailed' \in BOOLEAN
    BY <1>18 DEF XrTyped, WaitForGpu, FrameFails, Places, InFrame, InSetup, Holding
  <2>2. xrFaults' \in FaultCounts
    BY <1>18, FaultsBounded DEF XrTyped, WaitForGpu, FrameFails
  <2>3. UNCHANGED <<native, quarantined, gpuRemoved, built, inFlight, colour, depthOn, depthLease,
                      misused, streamOpen, hasCache, cache, seen, rawLabel, neuralOn, neuralIn,
                      neuralPair, panel, render, movie, candidate, pass, picture, depthOf, shown>>
    BY <1>18 DEF WaitForGpu, FrameFails
  <2>4. QED
    BY <2>1, <2>2, <2>3 DEF XrTyped
<1>19. CASE ReleaseImages
  <2>1. xrPc' \in Places /\ misused' \in BOOLEAN /\ xrFailed' \in BOOLEAN /\ depthOn' \in BOOLEAN /\ depthLease' \in Leased
    BY <1>19 DEF XrTyped, ReleaseImages, ReleaseReady, DisableDepth, FrameFails, ReleaseColour, Places, InFrame, InSetup, Holding, Leased
  <2>2. colour' \in ColourType
    BY <1>19, PanelUpdates DEF XrTyped, ReleaseImages, ReleaseReady, DisableDepth, FrameFails, ReleaseColour, Leased
  <2>3. pass' \in PassType
    BY <1>19 DEF XrTyped, ReleaseImages, ReleaseReady, DisableDepth, FrameFails, ReleaseColour, PassType
  <2>4. xrFaults' \in FaultCounts
    BY <1>19, FaultsBounded DEF XrTyped, ReleaseImages, ReleaseReady, DisableDepth, FrameFails, ReleaseColour
  <2>5. UNCHANGED <<native, quarantined, gpuRemoved, built, inFlight, depthPending, streamOpen,
                      hasCache, cache, seen, rawLabel, neuralOn, neuralIn, neuralPair, panel, render,
                      movie, candidate, picture, depthOf, shown>>
    BY <1>19 DEF ReleaseImages, ReleaseReady, DisableDepth, FrameFails, ReleaseColour
  <2>6. QED
    BY <2>1, <2>2, <2>3, <2>4, <2>5 DEF XrTyped
<1>20. CASE SubmitLayers
  <2>1. xrPc' \in Places /\ xrFailed' \in BOOLEAN
    BY <1>20 DEF XrTyped, SubmitLayers, Forget, Places, InFrame, InSetup, Holding
  <2>2. pass' \in PassType /\ picture' \in PictureNumbers /\ depthOf' \in FrameNumbers
    BY <1>20, EmptyTypes, FrameNumberTypes DEF XrTyped, SubmitLayers, Forget
  <2>3. panel' \in Panels /\ render' \in BOOLEAN /\ movie' \in BOOLEAN /\ candidate' \in FrameNumbers
    BY <1>20, FrameNumberTypes DEF XrTyped, SubmitLayers, Forget, Panels
  <2>4. shown' \in ShownType
    BY <1>20, FrameNumberTypes DEF XrTyped, SubmitLayers, Forget, PassType, ShownType
  <2>5. xrFaults' \in FaultCounts
    BY <1>20, FaultsBounded DEF XrTyped, SubmitLayers, Forget
  <2>6. UNCHANGED <<native, quarantined, gpuRemoved, built, inFlight, colour, depthOn, depthLease,
                      depthPending, misused, streamOpen, hasCache, cache, seen, rawLabel, neuralOn,
                      neuralIn, neuralPair>>
    BY <1>20 DEF SubmitLayers, Forget
  <2>7. QED
    BY <2>1, <2>2, <2>3, <2>4, <2>5, <2>6 DEF XrTyped
<1>21. QED
  BY <1>1, <1>2, <1>3, <1>4, <1>5, <1>6, <1>7, <1>8, <1>9, <1>10, <1>11, <1>12, <1>13, <1>14, <1>15, <1>16, <1>17, <1>18, <1>19, <1>20 DEF XrNext, XrFrameSteps

-----------------------------------------------------------------------------
(* The frame: every step keeps its invariant *)

\* An empty command list.
LEMMA NoPassIsEmpty == NoPass.stream = "none" /\ NoPass.copied = FALSE /\ NoPass.depth = FALSE
BY DEF NoPass

\* A command list that is still empty satisfies what is said of one.
LEMMA EmptyPass == pass' = NoPass => PassInv'
BY NoPassIsEmpty DEF PassInv

\* Nothing is shown between two frames.
LEMMA EmptyShown == Empty.layer = "none" /\ Empty.picture = 0
BY DEF Empty

\* initialize_visible_smoke for either panel keeps the frame's invariant.
LEMMA XrSetupStep ==
    ASSUME FrameInv, Setup
    PROVE  FrameInv'
<1> USE DEF xrLife, gpu, depthImg, streams, neural, choice, pixels, FrameInv
<1> XrTyped
  BY XrTypesNamed
<1>1. CASE BeginSetup
  <2>1. XrTypeOK'
    BY <1>1, XrTypesStep DEF XrNext, XrFrameSteps, Setup
  <2>2. GpuUsesOnlyWhatIsHeld' /\ Flight'
    BY <1>1 DEF XrTyped, GpuUsesOnlyWhatIsHeld, Flight, Built, Leases, PassInv, InFrame, InSetup, Holding, BeginSetup, Quarantine, RetireUnresolved, RetireGpuWork, XrFine, XrFault, ResetPanel
  <2>3. Built'
    <3>1. CASE Quarantine
      BY <1>1, <3>1 DEF Quarantine, Built, InFrame, InSetup, Holding
    <3>2. CASE xrPc' = "build" /\ ResetPanel(panel)
      <4>1. /\ xrPc = "setup" /\ built' = [built EXCEPT ![panel] = {}]
            /\ UNCHANGED <<native, panel, depthOn, hasCache>>
        BY <1>1, <3>2 DEF BeginSetup, Quarantine, ResetPanel
      <4>2. panel = "theater" => built'["eyes"] = built["eyes"]
        BY <4>1 DEF XrTyped, BuiltType, Panels
      <4>3. panel \in {"eyes", "theater"}
        BY DEF XrTyped, Panels
      <4>4. QED
        BY <3>2, <4>1, <4>2, <4>3 DEF Built, InFrame, InSetup, Holding
    <3>3. QED
      BY <1>1, <3>1, <3>2 DEF BeginSetup
  <2>4. Leases'
    BY <1>1 DEF XrTyped, Flight, Leases, InFrame, InSetup, Holding, BeginSetup, Quarantine, RetireUnresolved, RetireGpuWork, XrFine, XrFault, ResetPanel
  <2>5. PassInv'
    BY <1>1 DEF XrTyped, PassInv, Built, Recorded, DrawsEyes, Raw, NoPass, BeginSetup, Quarantine, RetireUnresolved, RetireGpuWork, XrFine, XrFault, ResetPanel
  <2>6. LabelInv' /\ LabelsMatchPixels'
    BY <1>1 DEF XrTyped, LabelInv, LabelsMatchPixels, Submitted, DrawsEyes, BeginSetup, Quarantine, RetireUnresolved, RetireGpuWork, XrFine, XrFault, ResetPanel
  <2>7. QED
    BY <2>1, <2>2, <2>3, <2>4, <2>5, <2>6
<1>2. CASE CreateSwapchain
  <2>1. XrTypeOK'
    BY <1>2, XrTypesStep DEF XrNext, XrFrameSteps, Setup
  <2>2. GpuUsesOnlyWhatIsHeld' /\ Flight'
    BY <1>2 DEF XrTyped, GpuUsesOnlyWhatIsHeld, Flight, Built, Leases, PassInv, InFrame, InSetup, Holding, CreateSwapchain, Build
  <2>3. Built'
    BY <1>2 DEF XrTyped, Flight, Built, PassInv, InFrame, InSetup, Holding, CreateSwapchain, Build
  <2>4. Leases'
    BY <1>2 DEF XrTyped, Flight, Leases, InFrame, InSetup, Holding, CreateSwapchain, Build
  <2>5. PassInv'
    BY <1>2 DEF XrTyped, PassInv, Built, Recorded, DrawsEyes, Raw, NoPass, CreateSwapchain, Build
  <2>6. LabelInv' /\ LabelsMatchPixels'
    BY <1>2 DEF XrTyped, LabelInv, LabelsMatchPixels, Submitted, DrawsEyes, CreateSwapchain, Build
  <2>7. QED
    BY <2>1, <2>2, <2>3, <2>4, <2>5, <2>6
<1>3. CASE CreateViews
  <2>1. XrTypeOK'
    BY <1>3, XrTypesStep DEF XrNext, XrFrameSteps, Setup
  <2>2. GpuUsesOnlyWhatIsHeld' /\ Flight'
    BY <1>3 DEF XrTyped, GpuUsesOnlyWhatIsHeld, Flight, Built, Leases, PassInv, InFrame, InSetup, Holding, CreateViews, Build
  <2>3. Built'
    BY <1>3 DEF XrTyped, Flight, Built, PassInv, InFrame, InSetup, Holding, CreateViews, Build
  <2>4. Leases'
    BY <1>3 DEF XrTyped, Flight, Leases, InFrame, InSetup, Holding, CreateViews, Build
  <2>5. PassInv'
    BY <1>3 DEF XrTyped, PassInv, Built, Recorded, DrawsEyes, Raw, NoPass, CreateViews, Build
  <2>6. LabelInv' /\ LabelsMatchPixels'
    BY <1>3 DEF XrTyped, LabelInv, LabelsMatchPixels, Submitted, DrawsEyes, CreateViews, Build
  <2>7. QED
    BY <2>1, <2>2, <2>3, <2>4, <2>5, <2>6
<1>4. CASE CreateCommands
  <2>1. XrTypeOK'
    BY <1>4, XrTypesStep DEF XrNext, XrFrameSteps, Setup
  <2>2. GpuUsesOnlyWhatIsHeld' /\ Flight'
    BY <1>4 DEF XrTyped, GpuUsesOnlyWhatIsHeld, Flight, Built, Leases, PassInv, InFrame, InSetup, Holding, CreateCommands, Build
  <2>3. Built'
    BY <1>4 DEF XrTyped, Flight, Built, PassInv, InFrame, InSetup, Holding, CreateCommands, Build
  <2>4. Leases'
    BY <1>4 DEF XrTyped, Flight, Leases, InFrame, InSetup, Holding, CreateCommands, Build
  <2>5. PassInv'
    BY <1>4 DEF XrTyped, PassInv, Built, Recorded, DrawsEyes, Raw, NoPass, CreateCommands, Build
  <2>6. LabelInv' /\ LabelsMatchPixels'
    BY <1>4 DEF XrTyped, LabelInv, LabelsMatchPixels, Submitted, DrawsEyes, CreateCommands, Build
  <2>7. QED
    BY <2>1, <2>2, <2>3, <2>4, <2>5, <2>6
<1>5. CASE CreateFence
  <2>1. XrTypeOK'
    BY <1>5, XrTypesStep DEF XrNext, XrFrameSteps, Setup
  <2>2. GpuUsesOnlyWhatIsHeld' /\ Flight'
    BY <1>5 DEF XrTyped, GpuUsesOnlyWhatIsHeld, Flight, Built, Leases, PassInv, InFrame, InSetup, Holding, CreateFence, Build
  <2>3. Built'
    BY <1>5 DEF XrTyped, Flight, Built, PassInv, InFrame, InSetup, Holding, CreateFence, Build
  <2>4. Leases'
    BY <1>5 DEF XrTyped, Flight, Leases, InFrame, InSetup, Holding, CreateFence, Build
  <2>5. PassInv'
    BY <1>5 DEF XrTyped, PassInv, Built, Recorded, DrawsEyes, Raw, NoPass, CreateFence, Build
  <2>6. LabelInv' /\ LabelsMatchPixels'
    BY <1>5 DEF XrTyped, LabelInv, LabelsMatchPixels, Submitted, DrawsEyes, CreateFence, Build
  <2>7. QED
    BY <2>1, <2>2, <2>3, <2>4, <2>5, <2>6
<1>6. CASE CreateUpload
  <2>1. XrTypeOK'
    BY <1>6, XrTypesStep DEF XrNext, XrFrameSteps, Setup
  <2>2. GpuUsesOnlyWhatIsHeld' /\ Flight'
    BY <1>6 DEF XrTyped, GpuUsesOnlyWhatIsHeld, Flight, Built, Leases, PassInv, InFrame, InSetup, Holding, CreateUpload, Build
  <2>3. Built'
    BY <1>6 DEF XrTyped, Flight, Built, PassInv, InFrame, InSetup, Holding, CreateUpload, Build
  <2>4. Leases'
    BY <1>6 DEF XrTyped, Flight, Leases, InFrame, InSetup, Holding, CreateUpload, Build
  <2>5. PassInv'
    BY <1>6 DEF XrTyped, PassInv, Built, Recorded, DrawsEyes, Raw, NoPass, CreateUpload, Build
  <2>6. LabelInv' /\ LabelsMatchPixels'
    BY <1>6 DEF XrTyped, LabelInv, LabelsMatchPixels, Submitted, DrawsEyes, CreateUpload, Build
  <2>7. QED
    BY <2>1, <2>2, <2>3, <2>4, <2>5, <2>6
<1>7. CASE BuildFails
  <2>1. XrTypeOK'
    BY <1>7, XrTypesStep DEF XrNext, XrFrameSteps, Setup
  <2>2. GpuUsesOnlyWhatIsHeld' /\ Flight'
    BY <1>7 DEF XrTyped, GpuUsesOnlyWhatIsHeld, Flight, Built, Leases, PassInv, InFrame, InSetup, Holding, BuildFails, ResetPanel
  <2>3. Built'
    BY <1>7 DEF XrTyped, Flight, Built, PassInv, InFrame, InSetup, Holding, BuildFails, ResetPanel
  <2>4. Leases'
    BY <1>7 DEF XrTyped, Flight, Leases, InFrame, InSetup, Holding, BuildFails, ResetPanel
  <2>5. PassInv'
    BY <1>7 DEF XrTyped, PassInv, Built, Recorded, DrawsEyes, Raw, NoPass, BuildFails, ResetPanel
  <2>6. LabelInv' /\ LabelsMatchPixels'
    BY <1>7 DEF XrTyped, LabelInv, LabelsMatchPixels, Submitted, DrawsEyes, BuildFails, ResetPanel
  <2>7. QED
    BY <2>1, <2>2, <2>3, <2>4, <2>5, <2>6
<1>8. CASE FinishSetup
  <2>1. XrTypeOK'
    BY <1>8, XrTypesStep DEF XrNext, XrFrameSteps, Setup
  <2>2. GpuUsesOnlyWhatIsHeld' /\ Flight'
    BY <1>8 DEF XrTyped, GpuUsesOnlyWhatIsHeld, Flight, Built, Leases, PassInv, InFrame, InSetup, Holding, FinishSetup, InitializeDepth
  <2>3. Built'
    <3>1. /\ xrPc = "build" /\ built[panel] = AllStages
          /\ UNCHANGED <<native, hasCache>>
          /\ depthOn' \in IF native /\ panel = "eyes" THEN BOOLEAN ELSE {depthOn}
          /\ built' = IF depthOn' /\ panel = "eyes" THEN [built EXCEPT ![panel] = built[panel] \cup {"depth"}]
                                                    ELSE built
          /\ IF native /\ panel = "eyes" THEN panel' = "theater" /\ xrPc' = "setup"
                                         ELSE panel' = "eyes" /\ xrPc' = "idle"
      BY <1>8 DEF FinishSetup, InitializeDepth
    <3>2. panel \in {"eyes", "theater"} /\ Panels = {"eyes", "theater"}
      BY DEF XrTyped, Panels
    <3>3. /\ \A p \in Panels : built[p] \subseteq built'[p]
          /\ depthOn' /\ panel = "eyes" => "depth" \in built'["eyes"]
      BY <3>1, <3>2 DEF XrTyped, BuiltType
    <3>4. /\ panel = "eyes" => ~depthOn
          /\ panel = "theater" => native /\ AllStages \subseteq built["eyes"]
          /\ depthOn => "depth" \in built["eyes"]
          /\ \A p \in Panels : ~hasCache[p]
      BY <3>1 DEF Built, InSetup
    <3>5. QED
      BY <3>1, <3>2, <3>3, <3>4 DEF Built, InFrame, InSetup, Holding
  <2>4. Leases'
    BY <1>8 DEF XrTyped, Flight, Leases, InFrame, InSetup, Holding, FinishSetup, InitializeDepth
  <2>5. PassInv'
    BY <1>8, EmptyPass DEF PassInv, Recorded, FinishSetup
  <2>6. LabelInv' /\ LabelsMatchPixels'
    BY <1>8 DEF XrTyped, LabelInv, LabelsMatchPixels, Submitted, DrawsEyes, FinishSetup, InitializeDepth
  <2>7. QED
    BY <2>1, <2>2, <2>3, <2>4, <2>5, <2>6
<1>9. QED
  BY <1>1, <1>2, <1>3, <1>4, <1>5, <1>6, <1>7, <1>8 DEF Setup

\* The end of the loop, the shutdown and the GPU in its own time.
LEMMA XrOutsideStep ==
    ASSUME FrameInv, Leave \/ XrShutdown \/ GpuFinishes \/ DeviceRemoved
    PROVE  FrameInv'
<1> USE DEF xrLife, gpu, depthImg, streams, neural, choice, pixels, FrameInv
<1> XrTyped
  BY XrTypesNamed
<1>1. CASE Leave
  <2>1. XrTypeOK'
    BY <1>1, XrTypesStep DEF XrNext, XrFrameSteps
  <2>2. GpuUsesOnlyWhatIsHeld' /\ Flight'
    BY <1>1 DEF XrTyped, GpuUsesOnlyWhatIsHeld, Flight, Built, Leases, PassInv, InFrame, InSetup, Holding, Leave
  <2>3. Built'
    BY <1>1 DEF XrTyped, Flight, Built, PassInv, InFrame, InSetup, Holding, Leave
  <2>4. Leases'
    BY <1>1 DEF XrTyped, Flight, Leases, InFrame, InSetup, Holding, Leave
  <2>5. PassInv'
    BY <1>1 DEF XrTyped, PassInv, Built, Recorded, DrawsEyes, Raw, NoPass, Leave
  <2>6. LabelInv' /\ LabelsMatchPixels'
    BY <1>1 DEF XrTyped, LabelInv, LabelsMatchPixels, Submitted, DrawsEyes, Leave
  <2>7. QED
    BY <2>1, <2>2, <2>3, <2>4, <2>5, <2>6
<1>2. CASE XrShutdown
  <2>1. XrTypeOK'
    BY <1>2, XrTypesStep DEF XrNext, XrFrameSteps
  <2>2. GpuUsesOnlyWhatIsHeld' /\ Flight'
    BY <1>2 DEF XrTyped, GpuUsesOnlyWhatIsHeld, Flight, Built, Leases, PassInv, InFrame, InSetup, Holding, XrShutdown, Quarantine, RetireUnresolved, RetireGpuWork, XrFine, XrFault
  <2>3. Built'
    <3>1. CASE Quarantine
      BY <1>2, <3>1 DEF Quarantine, Built, InFrame, InSetup, Holding
    <3>2. CASE ~Quarantine
      <4>1. /\ xrPc' = "stopped" /\ ~depthOn' /\ UNCHANGED <<native, panel>>
            /\ \A p \in Panels : ~hasCache'[p]
        BY <1>2, <3>2 DEF XrShutdown
      <4>2. QED
        BY <4>1 DEF Built, InFrame, InSetup, Holding
    <3>3. QED
      BY <3>1, <3>2
  <2>4. Leases'
    BY <1>2 DEF XrTyped, Flight, Leases, InFrame, InSetup, Holding, XrShutdown, Quarantine, RetireUnresolved, RetireGpuWork, XrFine, XrFault
  <2>5. PassInv'
    BY <1>2, EmptyPass DEF PassInv, Recorded, XrShutdown, Quarantine
  <2>6. LabelInv' /\ LabelsMatchPixels'
    BY <1>2 DEF XrTyped, LabelInv, LabelsMatchPixels, Submitted, DrawsEyes, XrShutdown, Quarantine, RetireUnresolved, RetireGpuWork, XrFine, XrFault
  <2>7. QED
    BY <2>1, <2>2, <2>3, <2>4, <2>5, <2>6
<1>3. CASE GpuFinishes
  <2>1. XrTypeOK'
    BY <1>3, XrTypesStep DEF XrNext, XrFrameSteps
  <2>2. GpuUsesOnlyWhatIsHeld' /\ Flight'
    BY <1>3 DEF XrTyped, GpuUsesOnlyWhatIsHeld, Flight, Built, Leases, PassInv, InFrame, InSetup, Holding, GpuFinishes
  <2>3. Built'
    BY <1>3 DEF XrTyped, Flight, Built, PassInv, InFrame, InSetup, Holding, GpuFinishes
  <2>4. Leases'
    BY <1>3 DEF XrTyped, Flight, Leases, InFrame, InSetup, Holding, GpuFinishes
  <2>5. PassInv'
    BY <1>3 DEF XrTyped, PassInv, Built, Recorded, DrawsEyes, Raw, NoPass, GpuFinishes
  <2>6. LabelInv' /\ LabelsMatchPixels'
    BY <1>3 DEF XrTyped, LabelInv, LabelsMatchPixels, Submitted, DrawsEyes, GpuFinishes
  <2>7. QED
    BY <2>1, <2>2, <2>3, <2>4, <2>5, <2>6
<1>4. CASE DeviceRemoved
  <2>1. XrTypeOK'
    BY <1>4, XrTypesStep DEF XrNext, XrFrameSteps
  <2>2. GpuUsesOnlyWhatIsHeld' /\ Flight'
    BY <1>4 DEF XrTyped, GpuUsesOnlyWhatIsHeld, Flight, Built, Leases, PassInv, InFrame, InSetup, Holding, DeviceRemoved, XrFault
  <2>3. Built'
    BY <1>4 DEF XrTyped, Flight, Built, PassInv, InFrame, InSetup, Holding, DeviceRemoved, XrFault
  <2>4. Leases'
    BY <1>4 DEF XrTyped, Flight, Leases, InFrame, InSetup, Holding, DeviceRemoved, XrFault
  <2>5. PassInv'
    BY <1>4 DEF XrTyped, PassInv, Built, Recorded, DrawsEyes, Raw, NoPass, DeviceRemoved, XrFault
  <2>6. LabelInv' /\ LabelsMatchPixels'
    BY <1>4 DEF XrTyped, LabelInv, LabelsMatchPixels, Submitted, DrawsEyes, DeviceRemoved, XrFault
  <2>7. QED
    BY <2>1, <2>2, <2>3, <2>4, <2>5, <2>6
<1>5. QED
  BY <1>1, <1>2, <1>3, <1>4

\* A frame before anything is recorded, and the frame that ends empty.
LEMMA XrBeginStep ==
    ASSUME FrameInv, ChoosePanel \/ PollStream \/ CloseStream \/ EndEmpty \/ AcquireColour \/ ResetCommands
    PROVE  FrameInv'
<1> USE DEF xrLife, gpu, depthImg, streams, neural, choice, pixels, FrameInv
<1> XrTyped
  BY XrTypesNamed
<1>1. CASE ChoosePanel
  <2>1. XrTypeOK'
    BY <1>1, XrTypesStep DEF XrNext, XrFrameSteps
  <2>2. GpuUsesOnlyWhatIsHeld' /\ Flight'
    BY <1>1 DEF XrTyped, GpuUsesOnlyWhatIsHeld, Flight, Built, Leases, PassInv, InFrame, InSetup, Holding, ChoosePanel
  <2>3. Built'
    BY <1>1 DEF XrTyped, Flight, Built, PassInv, InFrame, InSetup, Holding, ChoosePanel
  <2>4. Leases'
    BY <1>1 DEF XrTyped, Flight, Leases, InFrame, InSetup, Holding, ChoosePanel
  <2>5. PassInv'
    BY <1>1 DEF XrTyped, PassInv, Built, Recorded, DrawsEyes, Raw, NoPass, ChoosePanel
  <2>6. LabelInv' /\ LabelsMatchPixels'
    <3>1. /\ shown' = Empty /\ xrPc' = "poll"
          /\ UNCHANGED <<native, rawLabel, cache>>
      BY <1>1 DEF ChoosePanel
    <3>2. QED
      BY <3>1, EmptyShown DEF LabelInv, LabelsMatchPixels, Submitted
  <2>7. QED
    BY <2>1, <2>2, <2>3, <2>4, <2>5, <2>6
<1>2. CASE PollStream
  <2>1. XrTypeOK'
    BY <1>2, XrTypesStep DEF XrNext, XrFrameSteps
  <2>2. GpuUsesOnlyWhatIsHeld' /\ Flight'
    BY <1>2 DEF XrTyped, GpuUsesOnlyWhatIsHeld, Flight, Built, Leases, PassInv, InFrame, InSetup, Holding, PollStream, XrFine
  <2>3. Built'
    BY <1>2 DEF XrTyped, Flight, Built, PassInv, InFrame, InSetup, Holding, PollStream, XrFine
  <2>4. Leases'
    BY <1>2 DEF XrTyped, Flight, Leases, InFrame, InSetup, Holding, PollStream, XrFine
  <2>5. PassInv'
    BY <1>2 DEF XrTyped, PassInv, Built, Recorded, DrawsEyes, Raw, NoPass, PollStream, XrFine
  <2>6. LabelInv' /\ LabelsMatchPixels'
    BY <1>2 DEF XrTyped, LabelInv, LabelsMatchPixels, Submitted, DrawsEyes, PollStream, XrFine
  <2>7. QED
    BY <2>1, <2>2, <2>3, <2>4, <2>5, <2>6
<1>3. CASE CloseStream
  <2>1. XrTypeOK'
    BY <1>3, XrTypesStep DEF XrNext, XrFrameSteps
  <2>2. GpuUsesOnlyWhatIsHeld' /\ Flight'
    BY <1>3 DEF XrTyped, GpuUsesOnlyWhatIsHeld, Flight, Built, Leases, PassInv, InFrame, InSetup, Holding, CloseStream, XrFault
  <2>3. Built'
    <3>1. /\ xrPc = "poll" /\ xrPc' \in {"acquire", "end empty"}
          /\ hasCache' = [hasCache EXCEPT ![panel] = FALSE]
          /\ built' = [built EXCEPT ![panel] = built[panel] \ {"cache"}]
          /\ UNCHANGED <<native, panel, depthOn>>
      BY <1>3 DEF CloseStream
    <3>2. \A p \in Panels : /\ built'[p] = IF p = panel THEN built[p] \ {"cache"} ELSE built[p]
                            /\ hasCache'[p] = IF p = panel THEN FALSE ELSE hasCache[p]
      BY <3>1 DEF XrTyped, BuiltType, StreamFlags
    <3>3. panel \in Panels /\ "eyes" \in Panels
      BY DEF XrTyped, Panels
    <3>4. \A p \in Panels : /\ AllStages \subseteq built[p] => AllStages \subseteq built'[p]
                            /\ "depth" \in built[p] => "depth" \in built'[p]
                            /\ hasCache'[p] => hasCache[p] /\ p # panel
      BY <3>2 DEF AllStages
    <3>5. QED
      BY <3>1, <3>2, <3>3, <3>4 DEF Built, InFrame, InSetup, Holding
  <2>4. Leases'
    BY <1>3 DEF XrTyped, Flight, Leases, InFrame, InSetup, Holding, CloseStream, XrFault
  <2>5. PassInv'
    BY <1>3, EmptyPass DEF PassInv, Recorded, CloseStream
  <2>6. LabelInv' /\ LabelsMatchPixels'
    BY <1>3 DEF XrTyped, LabelInv, LabelsMatchPixels, Submitted, DrawsEyes, CloseStream, XrFault
  <2>7. QED
    BY <2>1, <2>2, <2>3, <2>4, <2>5, <2>6
<1>4. CASE EndEmpty
  <2>1. XrTypeOK'
    BY <1>4, XrTypesStep DEF XrNext, XrFrameSteps
  <2>2. GpuUsesOnlyWhatIsHeld' /\ Flight'
    BY <1>4 DEF XrTyped, GpuUsesOnlyWhatIsHeld, Flight, Built, Leases, PassInv, InFrame, InSetup, Holding, EndEmpty, ReleaseReady, Releasable, DisableDepth, XrFine, XrFault, Forget
  <2>3. Built'
    <3>1. /\ xrPc = "end empty" /\ xrPc' = "idle" /\ panel' = "eyes"
          /\ UNCHANGED <<native, built, hasCache>> /\ (depthOn' => depthOn)
      BY <1>4 DEF EndEmpty, ReleaseReady, DisableDepth, Forget
    <3>2. panel \in {"eyes", "theater"} /\ Panels = {"eyes", "theater"}
      BY DEF XrTyped, Panels
    <3>3. AllStages \subseteq built["eyes"]
      BY <3>1, <3>2 DEF Built
    <3>4. QED
      BY <3>1, <3>2, <3>3 DEF Built, InFrame, InSetup, Holding
  <2>4. Leases'
    BY <1>4 DEF XrTyped, Flight, Leases, InFrame, InSetup, Holding, EndEmpty, ReleaseReady, Releasable, DisableDepth, XrFine, XrFault, Forget
  <2>5. PassInv'
    BY <1>4 DEF XrTyped, PassInv, Built, Recorded, DrawsEyes, Raw, NoPass, EndEmpty, ReleaseReady, Releasable, DisableDepth, XrFine, XrFault, Forget
  <2>6. LabelInv' /\ LabelsMatchPixels'
    <3>1. /\ shown' = Empty /\ xrPc' = "idle"
          /\ UNCHANGED <<native, rawLabel, cache>>
      BY <1>4 DEF EndEmpty
    <3>2. QED
      BY <3>1, EmptyShown DEF LabelInv, LabelsMatchPixels, Submitted
  <2>7. QED
    BY <2>1, <2>2, <2>3, <2>4, <2>5, <2>6
<1>5. CASE AcquireColour
  <2>1. XrTypeOK'
    BY <1>5, XrTypesStep DEF XrNext, XrFrameSteps
  <2>2. GpuUsesOnlyWhatIsHeld' /\ Flight'
    <3>1. /\ xrPc = "acquire" /\ UNCHANGED <<inFlight, gpuRemoved, panel>>
          /\ misused' = misused \/ misused' = (misused \/ colour[panel] # "runtime")
          /\ \/ xrPc' = "reset" /\ xrFailed' = xrFailed
             \/ xrPc' = "end empty" /\ xrFailed' = TRUE
      BY <1>5 DEF AcquireColour, FrameFails
    <3>2. ~xrFailed /\ inFlight = {} /\ ~misused /\ colour[panel] = "runtime"
      BY <3>1 DEF Flight, Leases, GpuUsesOnlyWhatIsHeld, InFrame, Holding, XrTyped
    <3>3. ~misused'
      BY <3>1, <3>2, Zenon
    <3>4. inFlight' = {}
      BY <3>1, <3>2
    <3>5. xrPc' \in InFrame \cup InSetup => ~xrFailed'
      <4>1. CASE xrPc' = "reset" /\ xrFailed' = xrFailed
        BY <4>1, <3>2, Zenon
      <4>2. CASE xrPc' = "end empty"
        BY <4>2 DEF InFrame, InSetup, Holding
      <4>3. QED
        BY <3>1, <4>1, <4>2
    <3>6. Flight'
      BY <3>4, <3>5 DEF Flight
    <3>7. QED
      BY <3>3, <3>4, <3>6 DEF GpuUsesOnlyWhatIsHeld
  <2>3. Built'
    BY <1>5 DEF XrTyped, Flight, Built, PassInv, InFrame, InSetup, Holding, AcquireColour, XrFine, XrFault, FrameFails
  <2>4. Leases'
    <3>1. /\ xrPc = "acquire" /\ panel' = panel /\ panel \in Panels
          /\ \/ xrPc' = "reset" /\ xrFailed' = xrFailed /\ colour' = [colour EXCEPT ![panel] = "waited"]
             \/ xrFailed' = TRUE
      BY <1>5 DEF AcquireColour, FrameFails, XrTyped
    <3>2. CASE xrFailed' = TRUE
      BY <3>2 DEF Leases
    <3>3. CASE /\ xrPc' = "reset" /\ xrFailed' = xrFailed
               /\ colour' = [colour EXCEPT ![panel] = "waited"]
      <4>1. ~xrFailed
        BY <3>1 DEF Flight, InFrame, Holding
      <4>2. \A p \in Panels : colour'[p] = IF p = panel THEN "waited" ELSE colour[p]
        BY <3>3 DEF XrTyped, ColourType
      <4>3. \A p \in Panels : p # panel => colour[p] = "runtime"
        BY <4>1 DEF Leases
      <4>4. QED
        BY <3>1, <3>3, <4>2, <4>3 DEF Leases, Holding
    <3>4. QED
      BY <3>1, <3>2, <3>3
  <2>5. PassInv'
    BY <1>5 DEF XrTyped, PassInv, Built, Recorded, DrawsEyes, Raw, NoPass, AcquireColour, XrFine, XrFault, FrameFails
  <2>6. LabelInv' /\ LabelsMatchPixels'
    BY <1>5 DEF XrTyped, LabelInv, LabelsMatchPixels, Submitted, DrawsEyes, AcquireColour, XrFine, XrFault, FrameFails
  <2>7. QED
    BY <2>1, <2>2, <2>3, <2>4, <2>5, <2>6
<1>6. CASE ResetCommands
  <2>1. XrTypeOK'
    BY <1>6, XrTypesStep DEF XrNext, XrFrameSteps
  <2>2. GpuUsesOnlyWhatIsHeld' /\ Flight'
    <3>1. /\ xrPc = "reset" /\ UNCHANGED <<inFlight, gpuRemoved, panel>>
          /\ misused' = misused \/ misused' = (misused \/ colour[panel] # "waited")
          /\ \/ xrPc' = "stream" /\ xrFailed' = xrFailed
             \/ xrPc' = "end empty" /\ xrFailed' = TRUE
      BY <1>6 DEF ResetCommands, FrameFails, ReleaseColour
    <3>2. ~xrFailed /\ inFlight = {} /\ ~misused /\ colour[panel] = "waited"
      BY <3>1 DEF Flight, Leases, GpuUsesOnlyWhatIsHeld, InFrame, Holding, XrTyped
    <3>3. ~misused'
      BY <3>1, <3>2, Zenon
    <3>4. inFlight' = {}
      BY <3>1, <3>2
    <3>5. xrPc' \in InFrame \cup InSetup => ~xrFailed'
      <4>1. CASE xrPc' = "stream" /\ xrFailed' = xrFailed
        BY <4>1, <3>2, Zenon
      <4>2. CASE xrPc' = "end empty"
        BY <4>2 DEF InFrame, InSetup, Holding
      <4>3. QED
        BY <3>1, <4>1, <4>2
    <3>6. Flight'
      BY <3>4, <3>5 DEF Flight
    <3>7. QED
      BY <3>3, <3>4, <3>6 DEF GpuUsesOnlyWhatIsHeld
  <2>3. Built'
    BY <1>6 DEF XrTyped, Flight, Built, PassInv, InFrame, InSetup, Holding, ResetCommands, XrFine, XrFault, FrameFails, ReleaseColour
  <2>4. Leases'
    BY <1>6 DEF XrTyped, Flight, Leases, InFrame, InSetup, Holding, ResetCommands, XrFine, XrFault, FrameFails, ReleaseColour
  <2>5. PassInv'
    BY <1>6 DEF XrTyped, PassInv, Built, Recorded, DrawsEyes, Raw, NoPass, ResetCommands, XrFine, XrFault, FrameFails, ReleaseColour
  <2>6. LabelInv' /\ LabelsMatchPixels'
    BY <1>6 DEF XrTyped, LabelInv, LabelsMatchPixels, Submitted, DrawsEyes, ResetCommands, XrFine, XrFault, FrameFails, ReleaseColour
  <2>7. QED
    BY <2>1, <2>2, <2>3, <2>4, <2>5, <2>6
<1>7. QED
  BY <1>1, <1>2, <1>3, <1>4, <1>5, <1>6

\* What the command list records.
LEMMA XrRecordStep ==
    ASSUME FrameInv, RecordStream \/ RecordNeural \/ RecordDepth \/ RecordDepthFails \/ CloseCommands
    PROVE  FrameInv'
<1> USE DEF xrLife, gpu, depthImg, streams, neural, choice, pixels, FrameInv
<1> XrTyped
  BY XrTypesNamed
<1>1. CASE RecordStream
  <2>1. XrTypeOK'
    BY <1>1, XrTypesStep DEF XrNext, XrFrameSteps
  <2>2. GpuUsesOnlyWhatIsHeld' /\ Flight'
    BY <1>1 DEF XrTyped, GpuUsesOnlyWhatIsHeld, Flight, Built, Leases, PassInv, InFrame, InSetup, Holding, RecordStream, XrFine, XrFault, DrawsEyes
  <2>3. Built'
    <3>1. /\ xrPc = "stream" /\ xrPc' \in {"neural", "depth"} /\ UNCHANGED <<native, panel, depthOn>>
      BY <1>1 DEF RecordStream
    <3>2. \/ UNCHANGED <<built, hasCache>>
          \/ UNCHANGED built /\ UNCHANGED hasCache
          \/ /\ hasCache' = [hasCache EXCEPT ![panel] = TRUE]
             /\ built' = [built EXCEPT ![panel] = built[panel] \cup {"cache"}]
      BY <1>1 DEF RecordStream
    <3>3. \A p \in Panels : /\ built[p] \subseteq built'[p]
                            /\ hasCache'[p] => hasCache[p] \/ "cache" \in built'[p]
      BY <3>2 DEF XrTyped, BuiltType, StreamFlags
    <3>4. panel \in Panels /\ "eyes" \in Panels
      BY DEF XrTyped, Panels
    <3>5. \A p \in Panels : hasCache[p] => "cache" \in built'[p]
      BY <3>3 DEF Built
    <3>6. QED
      BY <3>1, <3>3, <3>4, <3>5 DEF Built, InFrame, InSetup, Holding
  <2>4. Leases'
    BY <1>1 DEF XrTyped, Flight, Leases, InFrame, InSetup, Holding, RecordStream, XrFine, XrFault, DrawsEyes
  <2>5. PassInv'
    <3>1. /\ xrPc = "stream" /\ xrPc' \in {"neural", "depth"} /\ pass = NoPass
          /\ UNCHANGED <<native, panel>>
      BY <1>1 DEF RecordStream, PassInv, Recorded
    <3>2. \/ pass' = NoPass
          \/ /\ hasCache' = [hasCache EXCEPT ![panel] = TRUE]
             /\ pass' = [NoPass EXCEPT !.stream = "fresh", !.copied = TRUE]
          \/ /\ hasCache[panel] /\ hasCache' = hasCache
             /\ pass' = [NoPass EXCEPT !.stream = "cached", !.copied = TRUE]
      BY <1>1, <3>1 DEF RecordStream
    <3>3. pass' # NoPass => hasCache'[panel]
      BY <3>2 DEF XrTyped, StreamFlags
    <3>4. /\ pass'.stream # "none" => hasCache'[panel]
          /\ pass'.copied => pass'.stream # "none"
          /\ ~pass'.depth
      BY <3>2, <3>3, NoPassIsEmpty DEF NoPass
    <3>5. QED
      BY <3>1, <3>4 DEF PassInv, Recorded
  <2>6. LabelInv' /\ LabelsMatchPixels'
    BY <1>1 DEF XrTyped, LabelInv, LabelsMatchPixels, Submitted, DrawsEyes, RecordStream, XrFine, XrFault, DrawsEyes
  <2>7. QED
    BY <2>1, <2>2, <2>3, <2>4, <2>5, <2>6
<1>2. CASE RecordNeural
  <2>1. XrTypeOK'
    BY <1>2, XrTypesStep DEF XrNext, XrFrameSteps
  <2>2. GpuUsesOnlyWhatIsHeld' /\ Flight'
    BY <1>2 DEF XrTyped, GpuUsesOnlyWhatIsHeld, Flight, Built, Leases, PassInv, InFrame, InSetup, Holding, RecordNeural
  <2>3. Built'
    BY <1>2 DEF XrTyped, Flight, Built, PassInv, InFrame, InSetup, Holding, RecordNeural
  <2>4. Leases'
    BY <1>2 DEF XrTyped, Flight, Leases, InFrame, InSetup, Holding, RecordNeural
  <2>5. PassInv'
    <3>1. xrPc = "neural" /\ xrPc' = "depth" /\ UNCHANGED <<native, panel, hasCache>>
      BY <1>2 DEF RecordNeural
    <3>2. \/ pass' = pass
          \/ \E n, w : pass' = [pass EXCEPT !.neural = n, !.warped = w]
      BY <1>2 DEF RecordNeural
    <3>3. pass'.stream = pass.stream /\ pass'.copied = pass.copied /\ pass'.depth = pass.depth
      BY <3>2 DEF XrTyped, PassType
    <3>4. ~pass.depth
      BY <3>1 DEF PassInv
    <3>5. QED
      BY <3>1, <3>3, <3>4 DEF PassInv, Recorded
  <2>6. LabelInv' /\ LabelsMatchPixels'
    BY <1>2 DEF XrTyped, LabelInv, LabelsMatchPixels, Submitted, DrawsEyes, RecordNeural
  <2>7. QED
    BY <2>1, <2>2, <2>3, <2>4, <2>5, <2>6
<1>3. CASE RecordDepth
  <2>1. XrTypeOK'
    BY <1>3, XrTypesStep DEF XrNext, XrFrameSteps
  <2>2. GpuUsesOnlyWhatIsHeld' /\ Flight'
    BY <1>3 DEF XrTyped, GpuUsesOnlyWhatIsHeld, Flight, Built, Leases, PassInv, InFrame, InSetup, Holding, RecordDepth, XrFine, XrFault, DrawsEyes, AcquireReady, DisableDepth
  <2>3. Built'
    <3>1. /\ xrPc = "depth" /\ xrPc' = "close" /\ UNCHANGED <<native, panel, built, hasCache>>
      BY <1>3 DEF RecordDepth
    <3>2. depthOn' => depthOn
      BY <1>3 DEF RecordDepth, AcquireReady, DisableDepth
    <3>3. QED
      BY <3>1, <3>2 DEF Built, InFrame, InSetup, Holding
  <2>4. Leases'
    BY <1>3 DEF XrTyped, Flight, Leases, InFrame, InSetup, Holding, RecordDepth, XrFine, XrFault, DrawsEyes, AcquireReady, DisableDepth
  <2>5. PassInv'
    <3>1. /\ xrPc = "depth" /\ xrPc' = "close"
          /\ UNCHANGED <<native, panel, built, hasCache, candidate, rawLabel>>
      BY <1>3 DEF RecordDepth
    <3>2. ~pass.depth
      BY <3>1 DEF PassInv
    <3> DEFINE Label == Displayed(pass.neural, pass.warped, Raw)
    <3>3. \/ pass' = [pass EXCEPT !.label = Label]
          \/ pass' = [pass EXCEPT !.copied = FALSE]
          \/ /\ DrawsEyes /\ pass.copied
             /\ \E usable \in BOOLEAN :
                  /\ pass' = [pass EXCEPT !.label = Label, !.depth = usable]
                  /\ usable => depthOn /\ depthLease' = "waited"
      BY <1>3 DEF RecordDepth, AcquireReady
    <3> HIDE DEF Label
    <3>4. /\ pass'.stream = pass.stream /\ pass'.neural = pass.neural /\ pass'.warped = pass.warped
          /\ pass'.copied => pass.copied /\ pass'.label = Label
          /\ pass'.depth => DrawsEyes /\ pass'.copied /\ depthLease' = "waited" /\ depthOn
      BY <3>2, <3>3 DEF XrTyped, PassType
    <3>5. Displayed(pass.neural, pass.warped, Raw)' = Label
      BY <3>1, <3>4 DEF Label, Displayed, Raw
    <3>6. depthOn => "depth" \in built["eyes"]
      BY DEF Built
    <3>7. DrawsEyes' <=> DrawsEyes
      BY <3>1 DEF DrawsEyes
    <3>8. QED
      BY <3>1, <3>4, <3>5, <3>6, <3>7 DEF PassInv, Recorded
  <2>6. LabelInv' /\ LabelsMatchPixels'
    BY <1>3 DEF XrTyped, LabelInv, LabelsMatchPixels, Submitted, DrawsEyes, RecordDepth, XrFine, XrFault, DrawsEyes, AcquireReady, DisableDepth
  <2>7. QED
    BY <2>1, <2>2, <2>3, <2>4, <2>5, <2>6
<1>4. CASE RecordDepthFails
  <2>1. XrTypeOK'
    BY <1>4, XrTypesStep DEF XrNext, XrFrameSteps
  <2>2. GpuUsesOnlyWhatIsHeld' /\ Flight'
    BY <1>4 DEF XrTyped, GpuUsesOnlyWhatIsHeld, Flight, Built, Leases, PassInv, InFrame, InSetup, Holding, RecordDepthFails, XrFault, DrawsEyes, DisableDepth
  <2>3. Built'
    BY <1>4 DEF XrTyped, Flight, Built, PassInv, InFrame, InSetup, Holding, RecordDepthFails, XrFault, DrawsEyes, DisableDepth
  <2>4. Leases'
    BY <1>4 DEF XrTyped, Flight, Leases, InFrame, InSetup, Holding, RecordDepthFails, XrFault, DrawsEyes, DisableDepth
  <2>5. PassInv'
    BY <1>4 DEF XrTyped, PassInv, Built, Recorded, DrawsEyes, Raw, NoPass, RecordDepthFails, XrFault, DrawsEyes, DisableDepth
  <2>6. LabelInv' /\ LabelsMatchPixels'
    BY <1>4 DEF XrTyped, LabelInv, LabelsMatchPixels, Submitted, DrawsEyes, RecordDepthFails, XrFault, DrawsEyes, DisableDepth
  <2>7. QED
    BY <2>1, <2>2, <2>3, <2>4, <2>5, <2>6
<1>5. CASE CloseCommands
  <2>1. XrTypeOK'
    BY <1>5, XrTypesStep DEF XrNext, XrFrameSteps
  <2>2. GpuUsesOnlyWhatIsHeld' /\ Flight'
    <3>1. /\ xrPc = "close" /\ UNCHANGED <<inFlight, gpuRemoved, panel>>
          /\ misused' = misused \/ misused' = (misused \/ colour[panel] # "waited")
          /\ \/ xrPc' = "execute" /\ xrFailed' = xrFailed
             \/ xrPc' = "end empty" /\ xrFailed' = TRUE
      BY <1>5 DEF CloseCommands, FrameFails, ReleaseColour
    <3>2. ~xrFailed /\ inFlight = {} /\ ~misused /\ colour[panel] = "waited"
      BY <3>1 DEF Flight, Leases, GpuUsesOnlyWhatIsHeld, InFrame, Holding, XrTyped
    <3>3. ~misused'
      BY <3>1, <3>2, Zenon
    <3>4. inFlight' = {}
      BY <3>1, <3>2
    <3>5. xrPc' \in InFrame \cup InSetup => ~xrFailed'
      <4>1. CASE xrPc' = "execute" /\ xrFailed' = xrFailed
        BY <4>1, <3>2, Zenon
      <4>2. CASE xrPc' = "end empty"
        BY <4>2 DEF InFrame, InSetup, Holding
      <4>3. QED
        BY <3>1, <4>1, <4>2
    <3>6. Flight'
      BY <3>4, <3>5 DEF Flight
    <3>7. QED
      BY <3>3, <3>4, <3>6 DEF GpuUsesOnlyWhatIsHeld
  <2>3. Built'
    BY <1>5 DEF XrTyped, Flight, Built, PassInv, InFrame, InSetup, Holding, CloseCommands, XrFine, XrFault, FrameFails, ReleaseColour
  <2>4. Leases'
    BY <1>5 DEF XrTyped, Flight, Leases, InFrame, InSetup, Holding, CloseCommands, XrFine, XrFault, FrameFails, ReleaseColour
  <2>5. PassInv'
    BY <1>5 DEF XrTyped, PassInv, Built, Recorded, DrawsEyes, Raw, NoPass, CloseCommands, XrFine, XrFault, FrameFails, ReleaseColour
  <2>6. LabelInv' /\ LabelsMatchPixels'
    BY <1>5 DEF XrTyped, LabelInv, LabelsMatchPixels, Submitted, DrawsEyes, CloseCommands, XrFine, XrFault, FrameFails, ReleaseColour
  <2>7. QED
    BY <2>1, <2>2, <2>3, <2>4, <2>5, <2>6
<1>6. QED
  BY <1>1, <1>2, <1>3, <1>4, <1>5

\* The submission, the wait, and what is handed to the runtime.
LEMMA XrSubmitStep ==
    ASSUME FrameInv, Execute \/ WaitForGpu \/ ReleaseImages \/ SubmitLayers
    PROVE  FrameInv'
<1> USE DEF xrLife, gpu, depthImg, streams, neural, choice, pixels, FrameInv
<1> XrTyped
  BY XrTypesNamed
<1>1. CASE Execute
  <2>1. XrTypeOK'
    BY <1>1, XrTypesStep DEF XrNext, XrFrameSteps
  <2>2. GpuUsesOnlyWhatIsHeld' /\ Flight'
    <3> DEFINE Used == {"swapchain", "commands"} \cup (IF pass.stream # "none" THEN {"cache"} ELSE {})
                         \cup (IF pass.copied THEN {} ELSE {"upload"})
                         \cup (IF pass.depth THEN {"depth"} ELSE {})
    <3>1. /\ xrPc = "execute" /\ xrPc' = "wait" /\ depthPending' = (depthPending \/ pass.depth)
          /\ inFlight' = IF gpuRemoved THEN {} ELSE {<<panel, r>> : r \in Used}
          /\ UNCHANGED <<built, gpuRemoved, colour, depthLease, misused, xrFailed>>
      BY <1>1 DEF Execute
    <3>2. /\ ~xrFailed /\ ~misused /\ colour[panel] = "waited" /\ AllStages \subseteq built[panel]
          /\ pass.stream # "none" => "cache" \in built[panel]
          /\ pass.depth => panel = "eyes" /\ depthLease = "waited" /\ "depth" \in built["eyes"]
      BY <3>1 DEF Flight, GpuUsesOnlyWhatIsHeld, Leases, Built, PassInv, InFrame, Holding, XrTyped,
                  DrawsEyes
    <3>3. Used \subseteq built[panel] /\ ("depth" \in Used => pass.depth)
      BY <3>2 DEF AllStages
    <3> HIDE DEF Used
    <3>4. \A u \in inFlight' : \E r \in Used : u = <<panel, r>>
      BY <3>1
    <3>5. \A u \in inFlight' : u[2] \in built'[u[1]]
      BY <3>1, <3>3, <3>4
    <3>6. \A p \in Panels : <<p, "swapchain">> \in inFlight' => colour'[p] = "waited"
      BY <3>1, <3>2, <3>4
    <3>7. <<"eyes", "depth">> \in inFlight' => pass.depth
      BY <3>3, <3>4
    <3>8. /\ ~misused' /\ ~xrFailed'
          /\ <<"eyes", "depth">> \in inFlight' => depthLease' = "waited" /\ depthPending'
          /\ gpuRemoved' => inFlight' = {}
      BY <3>1, <3>2, <3>7
    <3>9. QED
      BY <3>1, <3>5, <3>6, <3>8 DEF Flight, GpuUsesOnlyWhatIsHeld, InSetup, InFrame
  <2>3. Built'
    BY <1>1 DEF XrTyped, Flight, Built, PassInv, InFrame, InSetup, Holding, Execute, XrFine, XrFault
  <2>4. Leases'
    BY <1>1 DEF XrTyped, Flight, Leases, InFrame, InSetup, Holding, Execute, XrFine, XrFault
  <2>5. PassInv'
    BY <1>1 DEF XrTyped, PassInv, Built, Recorded, DrawsEyes, Raw, NoPass, Execute, XrFine, XrFault
  <2>6. LabelInv' /\ LabelsMatchPixels'
    <3>1. /\ xrPc = "execute" /\ xrPc' = "wait"
          /\ UNCHANGED <<native, panel, candidate, pass, shown>>
          /\ cache' = IF pass.stream = "fresh" THEN [cache EXCEPT ![panel] = candidate] ELSE cache
          /\ rawLabel' = IF pass.stream = "fresh" /\ DrawsEyes THEN candidate ELSE rawLabel
          /\ picture' = IF pass.copied THEN (IF pass.neural # 0 /\ ~pass.warped THEN pass.neural
                                                                                ELSE cache'[panel])
                                       ELSE 0
          /\ depthOf' = IF ~pass.depth THEN 0
                        ELSE IF pass.neural # 0 /\ ~pass.warped THEN pass.neural ELSE cache'[panel]
      BY <1>1 DEF Execute
    <3>2. /\ cache'[panel] = IF pass.stream = "fresh" THEN candidate ELSE cache[panel]
          /\ panel # "eyes" => cache'["eyes"] = cache["eyes"]
          /\ panel \in Panels
      BY <3>1 DEF XrTyped, StreamFrames, Panels
    <3>3. native' => rawLabel' = cache'["eyes"]
      BY <3>1, <3>2 DEF LabelInv, DrawsEyes
    <3>4. picture' # Unwritten
      <4>1. cache'[panel] \in FrameNumbers /\ pass.neural \in FrameNumbers
        BY <3>2 DEF XrTyped, StreamFrames, PassType
      <4>2. QED
        BY <3>1, <4>1, FrameNumberTypes
    <3>5. ASSUME DrawsEyes, pass.copied
          PROVE  picture' = pass.label /\ (pass.depth => depthOf' = pass.label)
      <4>1. native /\ panel = "eyes" /\ rawLabel = cache["eyes"]
        BY <3>5 DEF DrawsEyes, LabelInv
      <4>2. cache'[panel] = Raw
        BY <3>2, <4>1 DEF Raw
      <4>3. pass.label = Displayed(pass.neural, pass.warped, Raw)
        BY <3>1, <3>5 DEF PassInv
      <4>4. QED
        BY <3>1, <3>5, <4>2, <4>3 DEF Displayed
    <3>6. LabelInv'
      BY <3>1, <3>3, <3>4, <3>5 DEF LabelInv, DrawsEyes
    <3>7. QED
      BY <3>1, <3>6 DEF LabelsMatchPixels
  <2>7. QED
    BY <2>1, <2>2, <2>3, <2>4, <2>5, <2>6
<1>2. CASE WaitForGpu
  <2>1. XrTypeOK'
    BY <1>2, XrTypesStep DEF XrNext, XrFrameSteps
  <2>2. GpuUsesOnlyWhatIsHeld' /\ Flight'
    <3>1. /\ xrPc = "wait"
          /\ UNCHANGED <<built, inFlight, gpuRemoved, colour, depthLease, misused>>
          /\ \/ inFlight = {} /\ xrPc' = "release" /\ xrFailed' = xrFailed
             \/ xrPc' = "end empty" /\ xrFailed' = TRUE /\ depthPending' = depthPending
      BY <1>2 DEF WaitForGpu, FrameFails
    <3>2. ~xrFailed
      BY <3>1 DEF Flight, InFrame, Holding
    <3>3. Flight'
      <4>1. CASE inFlight = {} /\ xrPc' = "release" /\ xrFailed' = xrFailed
        <5>1. ~xrFailed' /\ inFlight' = {}
          BY <4>1, <3>1, <3>2, Zenon
        <5>2. QED
          BY <5>1 DEF Flight
      <4>2. CASE xrPc' = "end empty" /\ xrFailed' = TRUE /\ depthPending' = depthPending
        <5>1. xrPc' \notin InFrame \cup InSetup
          BY <4>2 DEF InFrame, InSetup, Holding
        <5>2. QED
          BY <3>1, <4>2, <5>1 DEF Flight
      <4>3. QED
        BY <3>1, <4>1, <4>2
    <3>4. QED
      BY <3>1, <3>3 DEF GpuUsesOnlyWhatIsHeld
  <2>3. Built'
    BY <1>2 DEF XrTyped, Flight, Built, PassInv, InFrame, InSetup, Holding, WaitForGpu, XrFine, XrFault, FrameFails
  <2>4. Leases'
    BY <1>2 DEF XrTyped, Flight, Leases, InFrame, InSetup, Holding, WaitForGpu, XrFine, XrFault, FrameFails
  <2>5. PassInv'
    BY <1>2 DEF XrTyped, PassInv, Built, Recorded, DrawsEyes, Raw, NoPass, WaitForGpu, XrFine, XrFault, FrameFails
  <2>6. LabelInv' /\ LabelsMatchPixels'
    BY <1>2 DEF XrTyped, LabelInv, LabelsMatchPixels, Submitted, DrawsEyes, WaitForGpu, XrFine, XrFault, FrameFails
  <2>7. QED
    BY <2>1, <2>2, <2>3, <2>4, <2>5, <2>6
<1>3. CASE ReleaseImages
  <2>1. XrTypeOK'
    BY <1>3, XrTypesStep DEF XrNext, XrFrameSteps
  <2>2. GpuUsesOnlyWhatIsHeld' /\ Flight'
    <3>1. /\ xrPc = "release" /\ UNCHANGED <<inFlight, gpuRemoved, panel>>
          /\ misused' = misused \/ misused' = (misused \/ colour[panel] # "waited")
          /\ \/ xrPc' = "submit" /\ xrFailed' = xrFailed
             \/ xrPc' = "end empty" /\ xrFailed' = TRUE
      BY <1>3 DEF ReleaseImages, FrameFails, ReleaseColour
    <3>2. ~xrFailed /\ inFlight = {} /\ ~misused /\ colour[panel] = "waited"
      BY <3>1 DEF Flight, Leases, GpuUsesOnlyWhatIsHeld, InFrame, Holding, XrTyped
    <3>3. ~misused'
      BY <3>1, <3>2, Zenon
    <3>4. inFlight' = {}
      BY <3>1, <3>2
    <3>5. xrPc' \in InFrame \cup InSetup => ~xrFailed'
      <4>1. CASE xrPc' = "submit" /\ xrFailed' = xrFailed
        BY <4>1, <3>2, Zenon
      <4>2. CASE xrPc' = "end empty"
        BY <4>2 DEF InFrame, InSetup, Holding
      <4>3. QED
        BY <3>1, <4>1, <4>2
    <3>6. Flight'
      BY <3>4, <3>5 DEF Flight
    <3>7. QED
      BY <3>3, <3>4, <3>6 DEF GpuUsesOnlyWhatIsHeld
  <2>3. Built'
    <3>1. /\ xrPc = "release" /\ xrPc' \in {"submit", "end empty"}
          /\ UNCHANGED <<native, panel, built, hasCache>>
      BY <1>3 DEF ReleaseImages, FrameFails
    <3>2. depthOn' => depthOn
      BY <1>3 DEF ReleaseImages, ReleaseReady, DisableDepth
    <3>3. QED
      BY <3>1, <3>2 DEF Built, InFrame, InSetup, Holding
  <2>4. Leases'
    <3>1. /\ xrPc = "release" /\ panel' = panel /\ panel \in Panels
          /\ \/ xrPc' = "submit" /\ xrFailed' = xrFailed /\ colour' = [colour EXCEPT ![panel] = "runtime"]
             \/ xrFailed' = TRUE
      BY <1>3 DEF ReleaseImages, FrameFails, ReleaseColour, XrTyped
    <3>2. CASE xrFailed' = TRUE
      BY <3>2 DEF Leases
    <3>3. CASE /\ xrPc' = "submit" /\ xrFailed' = xrFailed
               /\ colour' = [colour EXCEPT ![panel] = "runtime"]
      <4>1. ~xrFailed
        BY <3>1 DEF Flight, InFrame, Holding
      <4>2. \A p \in Panels : colour'[p] = IF p = panel THEN "runtime" ELSE colour[p]
        BY <3>3 DEF XrTyped, ColourType
      <4>3. \A p \in Panels : p # panel => colour[p] = "runtime"
        BY <4>1 DEF Leases
      <4>4. QED
        BY <3>1, <3>3, <4>2, <4>3 DEF Leases, Holding
    <3>4. QED
      BY <3>1, <3>2, <3>3
  <2>5. PassInv'
    <3>1. /\ xrPc = "release" /\ xrPc' \in {"submit", "end empty"}
          /\ UNCHANGED <<native, panel, built, hasCache, picture, depthOf, shown, rawLabel, cache>>
      BY <1>3 DEF ReleaseImages, FrameFails
    <3>2. \/ pass' = pass
          \/ \E d : pass' = [pass EXCEPT !.depth = pass.depth /\ d]
      BY <1>3 DEF ReleaseImages
    <3>3. /\ pass'.stream = pass.stream /\ pass'.copied = pass.copied /\ pass'.label = pass.label
          /\ pass'.depth => pass.depth
      BY <3>2 DEF XrTyped, PassType
    <3>4. QED
      BY <3>1, <3>3 DEF PassInv, Recorded
  <2>6. LabelInv' /\ LabelsMatchPixels'
    <3>1. /\ xrPc = "release" /\ xrPc' \in {"submit", "end empty"}
          /\ UNCHANGED <<native, panel, built, hasCache, picture, depthOf, shown, rawLabel, cache>>
      BY <1>3 DEF ReleaseImages, FrameFails
    <3>2. \/ pass' = pass
          \/ \E d : pass' = [pass EXCEPT !.depth = pass.depth /\ d]
      BY <1>3 DEF ReleaseImages
    <3>3. /\ pass'.stream = pass.stream /\ pass'.copied = pass.copied /\ pass'.label = pass.label
          /\ pass'.depth => pass.depth
      BY <3>2 DEF XrTyped, PassType
    <3>4. QED
      BY <3>1, <3>3 DEF LabelInv, LabelsMatchPixels, Submitted, DrawsEyes
  <2>7. QED
    BY <2>1, <2>2, <2>3, <2>4, <2>5, <2>6
<1>4. CASE SubmitLayers
  <2>1. XrTypeOK'
    BY <1>4, XrTypesStep DEF XrNext, XrFrameSteps
  <2>2. GpuUsesOnlyWhatIsHeld' /\ Flight'
    BY <1>4 DEF XrTyped, GpuUsesOnlyWhatIsHeld, Flight, Built, Leases, PassInv, InFrame, InSetup, Holding, SubmitLayers, XrFine, XrFault, Forget, DrawsEyes
  <2>3. Built'
    <3>1. /\ xrPc = "submit" /\ xrPc' = "idle" /\ panel' = "eyes"
          /\ UNCHANGED <<native, built, hasCache, depthOn>>
      BY <1>4 DEF SubmitLayers, Forget
    <3>2. panel \in {"eyes", "theater"} /\ Panels = {"eyes", "theater"}
      BY DEF XrTyped, Panels
    <3>3. AllStages \subseteq built["eyes"]
      BY <3>1, <3>2 DEF Built, InFrame
    <3>4. QED
      BY <3>1, <3>2, <3>3 DEF Built, InFrame, InSetup, Holding
  <2>4. Leases'
    BY <1>4 DEF XrTyped, Flight, Leases, InFrame, InSetup, Holding, SubmitLayers, XrFine, XrFault, Forget, DrawsEyes
  <2>5. PassInv'
    BY <1>4 DEF XrTyped, PassInv, Built, Recorded, DrawsEyes, Raw, NoPass, SubmitLayers, XrFine, XrFault, Forget, DrawsEyes
  <2>6. LabelInv' /\ LabelsMatchPixels'
    BY <1>4 DEF XrTyped, LabelInv, LabelsMatchPixels, Submitted, DrawsEyes, SubmitLayers, XrFine, XrFault, Forget, DrawsEyes
  <2>7. QED
    BY <2>1, <2>2, <2>3, <2>4, <2>5, <2>6
<1>5. QED
  BY <1>1, <1>2, <1>3, <1>4

\* The frame's parts are in order at the start.
LEMMA XrStart == XrInit => FrameInv
<1> SUFFICES ASSUME XrInit PROVE FrameInv
  OBVIOUS
<1> USE DEF XrInit
<1>1. XrTypeOK
  <2>1. pass \in PassType /\ shown \in ShownType
    BY EmptyTypes
  <2>2. /\ rawLabel \in FrameNumbers /\ neuralIn \in FrameNumbers /\ neuralPair \in FrameNumbers
        /\ candidate \in FrameNumbers /\ depthOf \in FrameNumbers /\ picture \in PictureNumbers
        /\ cache \in StreamFrames /\ seen \in StreamFrames /\ xrFaults \in FaultCounts
    BY XrAssumption DEF FrameNumbers, PictureNumbers, StreamFrames, FaultCounts, Unwritten
  <2>3. /\ built \in BuiltType /\ inFlight \in FlightType /\ colour \in ColourType
        /\ streamOpen \in StreamFlags /\ hasCache \in StreamFlags /\ depthLease \in Leased
    BY DEF BuiltType, FlightType, ColourType, StreamFlags, Leased
  <2>4. xrPc \in Places /\ panel \in Panels
    BY DEF Places, InSetup, Panels
  <2>5. XrTyped
    BY <2>1, <2>2, <2>3, <2>4 DEF XrTyped
  <2>6. QED
    BY <2>5, XrTypesNamed
<1>2. GpuUsesOnlyWhatIsHeld /\ LabelsMatchPixels
  BY EmptyShown DEF GpuUsesOnlyWhatIsHeld, LabelsMatchPixels, Empty
<1>3. Flight /\ Leases
  BY DEF Flight, Leases, Holding
<1>4. Built
  BY DEF Built, InFrame, InSetup, Holding
<1>5. PassInv
  BY NoPassIsEmpty DEF PassInv, Recorded
<1>6. LabelInv
  BY DEF LabelInv, Submitted, Panels
<1>7. QED
  BY <1>1, <1>2, <1>3, <1>4, <1>5, <1>6 DEF FrameInv

\* Every step of the frame keeps its invariant.
LEMMA XrStep == FrameInv /\ XrNext => FrameInv'
BY XrSetupStep, XrOutsideStep, XrBeginStep, XrRecordStep, XrSubmitStep DEF XrNext, XrFrameSteps

\* A step of another part leaves the frame as it is.
LEMMA XrQuiet == FrameInv /\ UNCHANGED xrVars => FrameInv'
<1> SUFFICES ASSUME FrameInv, UNCHANGED xrVars PROVE FrameInv'
  OBVIOUS
<1>1. UNCHANGED <<native, built, quarantined, xrPc, inFlight, gpuRemoved, colour, depthOn, depthLease,
                  depthPending, misused, streamOpen, hasCache, cache, seen, rawLabel, neuralOn,
                  neuralIn, neuralPair, panel, render, movie, candidate, pass, picture, depthOf,
                  shown, xrFailed, xrFaults>>
  BY DEF xrVars, xrLife, gpu, depthImg, streams, neural, choice, pixels
<1>2. XrTypeOK' = XrTypeOK
  BY <1>1 DEF XrTypeOK
<1>3. GpuUsesOnlyWhatIsHeld' = GpuUsesOnlyWhatIsHeld /\ LabelsMatchPixels' = LabelsMatchPixels
  BY <1>1 DEF GpuUsesOnlyWhatIsHeld, LabelsMatchPixels
<1>4. Flight' = Flight /\ Built' = Built /\ Leases' = Leases
  BY <1>1 DEF Flight, Built, Leases
<1>5. PassInv' = PassInv /\ LabelInv' = LabelInv
  BY <1>1 DEF PassInv, LabelInv, DrawsEyes, Raw
<1>6. QED
  BY <1>2, <1>3, <1>4, <1>5 DEF FrameInv

-----------------------------------------------------------------------------
(* The neural pipeline: its lists of copies and its types *)

Lists == Seq(Copy)
OneOfEach(list) == \A c, d \in ToSet(list) : c.op = d.op => c = d

\* The members of a list are its elements.
LEMMA Members ==
    ASSUME NEW list \in Lists
    PROVE  /\ Len(list) \in Nat
           /\ \A i \in 1 .. Len(list) : list[i] \in Copy /\ list[i] \in ToSet(list)
           /\ \A c \in ToSet(list) : c \in Copy /\ \E i \in 1 .. Len(list) : list[i] = c
<1>1. Len(list) \in Nat /\ DOMAIN list = 1 .. Len(list) /\ \A i \in 1 .. Len(list) : list[i] \in Copy
  BY LenProperties, ElementOfSeq DEF Lists
<1>2. QED
  BY <1>1 DEF ToSet

\* A list with one copy of each kind has at most two.
LEMMA AtMostTwo ==
    ASSUME NEW list \in Lists, OncePerOp(list)
    PROVE  Len(list) <= 2 /\ OneOfEach(list)
<1>1. /\ Len(list) \in Nat
      /\ \A i \in 1 .. Len(list) : list[i].op \in {"input", "display"}
  BY Members DEF Copy
<1>2. Len(list) <= 2
  <2> SUFFICES ASSUME Len(list) >= 3 PROVE FALSE
    BY <1>1
  <2>1. 1 \in 1 .. Len(list) /\ 2 \in 1 .. Len(list) /\ 3 \in 1 .. Len(list)
    BY <1>1
  <2>2. list[1].op # list[2].op /\ list[1].op # list[3].op /\ list[2].op # list[3].op
    BY <2>1 DEF OncePerOp
  <2>3. QED
    BY <1>1, <2>1, <2>2
<1>3. OneOfEach(list)
  BY Members DEF OneOfEach, OncePerOp
<1>4. QED
  BY <1>2, <1>3

\* A copy that is recorded joins the list, and is the only one of its kind when no
\* other was.
LEMMA RecordedCopy ==
    ASSUME NEW list \in Lists, NEW c \in Copy
    PROVE  /\ Append(list, c) \in Lists /\ Append(list, c) # <<>>
           /\ ToSet(Append(list, c)) = ToSet(list) \cup {c}
           /\ OncePerOp(list) /\ (\A d \in ToSet(list) : d.op # c.op) => OncePerOp(Append(list, c))
<1>1. /\ Len(list) \in Nat /\ Append(list, c) \in Lists /\ Len(Append(list, c)) = Len(list) + 1
      /\ \A i \in 1 .. Len(list) : Append(list, c)[i] = list[i]
      /\ Append(list, c)[Len(list) + 1] = c
  BY AppendProperties, LenProperties DEF Lists
<1>2. \A i \in 1 .. Len(list) + 1 : i \in 1 .. Len(list) \/ i = Len(list) + 1
  BY <1>1
<1>3. /\ \A i \in 1 .. Len(list) : i \in 1 .. Len(list) + 1
      /\ Len(list) + 1 \in 1 .. Len(list) + 1
  BY <1>1
<1>4. ToSet(Append(list, c)) = ToSet(list) \cup {c}
  <2>1. ASSUME NEW d \in ToSet(Append(list, c)) PROVE d \in ToSet(list) \cup {c}
    <3>1. PICK i \in 1 .. Len(list) + 1 : Append(list, c)[i] = d
      BY <1>1, <2>1, Members
    <3>2. QED
      BY <1>1, <1>2, <3>1, Members
  <2>2. ASSUME NEW d \in ToSet(list) \cup {c} PROVE d \in ToSet(Append(list, c))
    <3>1. \A i \in 1 .. Len(list) + 1 : Append(list, c)[i] \in ToSet(Append(list, c))
      BY <1>1, Members
    <3>2. CASE d = c
      BY <1>1, <1>3, <3>1, <3>2
    <3>3. CASE d \in ToSet(list)
      <4>1. PICK i \in 1 .. Len(list) : list[i] = d
        BY <3>3, Members
      <4>2. QED
        BY <1>1, <1>3, <3>1, <4>1
    <3>4. QED
      BY <3>2, <3>3
  <2>3. QED
    BY <2>1, <2>2
<1>5. ASSUME OncePerOp(list), \A d \in ToSet(list) : d.op # c.op PROVE OncePerOp(Append(list, c))
  <2>1. \A i \in 1 .. Len(list) : list[i].op # c.op
    BY <1>5, Members
  <2>2. \A i, j \in 1 .. Len(list) : list[i].op = list[j].op => i = j
    BY <1>5 DEF OncePerOp
  <2>3. ASSUME NEW i \in 1 .. Len(list) + 1, NEW j \in 1 .. Len(list) + 1,
               Append(list, c)[i].op = Append(list, c)[j].op
        PROVE  i = j
    BY <1>1, <1>2, <2>1, <2>2, <2>3
  <2>4. QED
    BY <1>1, <2>3 DEF OncePerOp
<1>6. Append(list, c) # <<>>
  BY <1>1, EmptySeq
<1>7. QED
  BY <1>1, <1>4, <1>5, <1>6

\* The empty list.
LEMMA NoCopies == <<>> \in Lists /\ ToSet(<<>>) = {} /\ OncePerOp(<<>>) /\ Len(<<>>) = 0
<1>1. <<>> \in Lists /\ Len(<<>>) = 0
  BY EmptySeq DEF Lists
<1>2. 1 .. 0 = {}
  OBVIOUS
<1>3. ToSet(<<>>) = {}
  BY <1>1, <1>2, Members
<1>4. QED
  BY <1>1, <1>2, <1>3 DEF OncePerOp

\* A submission is queued last.
LEMMA Queued ==
    ASSUME NEW queue \in Seq(Lists), NEW list \in Lists
    PROVE  /\ Append(queue, list) \in Seq(Lists) /\ Len(queue) \in Nat
           /\ Len(Append(queue, list)) = Len(queue) + 1
           /\ \A k \in 1 .. Len(queue) : Append(queue, list)[k] = queue[k]
           /\ Append(queue, list)[Len(queue) + 1] = list
           /\ \A k \in 1 .. Len(queue) + 1 : k \in 1 .. Len(queue) \/ k = Len(queue) + 1
BY AppendProperties, LenProperties

\* The oldest submission is the one that runs, and the others move up.
LEMMA Dequeued ==
    ASSUME NEW queue \in Seq(Lists), queue # <<>>
    PROVE  /\ Head(queue) = queue[1] /\ Head(queue) \in Lists /\ Tail(queue) \in Seq(Lists)
           /\ Len(queue) \in Nat \ {0} /\ Len(Tail(queue)) = Len(queue) - 1
           /\ 1 \in 1 .. Len(queue)
           /\ \A k \in 1 .. Len(queue) : queue[k] \in Lists
           /\ \A k \in 1 .. Len(Tail(queue)) : Tail(queue)[k] = queue[k + 1] /\ k + 1 \in 1 .. Len(queue)
<1>1. /\ Len(queue) \in Nat /\ Len(queue) # 0
      /\ \A k \in 1 .. Len(queue) : queue[k] \in Lists
  BY LenProperties, EmptySeq, ElementOfSeq
<1>2. /\ Head(queue) \in Lists /\ Tail(queue) \in Seq(Lists) /\ Head(queue) = queue[1]
      /\ Len(Tail(queue)) = Len(queue) - 1
      /\ \A k \in 1 .. Len(Tail(queue)) : Tail(queue)[k] = queue[k + 1]
  BY HeadTailProperties
<1>3. QED
  BY <1>1, <1>2

InputStates  == {"empty", "recording", "queued", "working"}
OutputStates == {"empty", "working", "complete", "displaying", "retiring"}
Distances == 0 .. MaxOutstanding
InputType  == [state : InputStates, frame : Numbers, ready : Distances, reset : BOOLEAN,
               texture : Numbers]
OutputType == [state : OutputStates, frame : Numbers, retired : Distances, texture : Picture]
InputsType  == [InputSlots -> InputType]
OutputsType == [OutputSlots -> OutputType]
EyeType == [in : Numbers, out : Numbers, submitted : BOOLEAN, done : BOOLEAN]
EyesType == [Eyes -> EyeType]
ShownPair == [label : Numbers, texture : Picture]
WorkerPlaces == SetupStages \cup {"idle", "guides", "evaluate", "pick", "compose", "over"}
NeuralFaults == 0 .. MaxNeuralFaults

NeuralFlags ==
    /\ prefetch \in BOOLEAN /\ ageLimit \in BOOLEAN /\ stopping \in BOOLEAN
    /\ displayRecorded \in BOOLEAN /\ resetNow \in BOOLEAN /\ deferred \in BOOLEAN
    /\ ownBusy \in BOOLEAN /\ signalLost \in BOOLEAN
    /\ phase \in {"starting", "running", "failed"} /\ fate \in {"alive", "destroyed", "quarantined"}
    /\ neuralFaults \in NeuralFaults

SlotTypes ==
    /\ inputs \in InputsType /\ outputs \in OutputsType
    /\ recorded \in InputSlots \cup {None} /\ display \in OutputSlots \cup {None}
    /\ lastInput \in Numbers

WorkerTypes ==
    /\ workerPc \in WorkerPlaces
    /\ current \in InputSlots \cup {None} /\ target \in OutputSlots \cup {None}
    /\ previous \in Numbers /\ unserved \in SUBSET Numbers /\ eye \in EyesType
    /\ displayed \in ShownPair

ListTypes ==
    /\ hostList \in Lists /\ OncePerOp(hostList)
    /\ hostQueue \in Seq(Lists) /\ Len(hostQueue) <= MaxOutstanding
    /\ \A k \in 1 .. Len(hostQueue) : OncePerOp(hostQueue[k])
    /\ \A i \in InputSlots : inputs[i].ready <= Len(hostQueue)

NeuralTyped == NeuralFlags /\ SlotTypes /\ WorkerTypes /\ ListTypes

\* Both ways of writing the types agree.
LEMMA NeuralTypesNamed == NeuralTyped <=> NeuralTypeOK /\ CopiesOfType
<1>1. NeuralFlags <=> /\ {prefetch, ageLimit, stopping, displayRecorded, resetNow, deferred, ownBusy,
                          signalLost} \subseteq BOOLEAN
                      /\ phase \in {"starting", "running", "failed"}
                      /\ fate \in {"alive", "destroyed", "quarantined"}
                      /\ neuralFaults \in 0 .. MaxNeuralFaults
  BY DEF NeuralFlags, NeuralFaults
<1>2. InputsType = [InputSlots -> [state : {"empty", "recording", "queued", "working"},
          frame : Numbers, ready : 0 .. MaxOutstanding, reset : BOOLEAN, texture : Numbers]]
  BY DEF InputsType, InputType, InputStates, Distances
<1>3. OutputsType = [OutputSlots -> [state : {"empty", "working", "complete", "displaying", "retiring"},
          frame : Numbers, retired : 0 .. MaxOutstanding, texture : Picture]]
  BY DEF OutputsType, OutputType, OutputStates, Distances
<1>4. EyesType = [Eyes -> [in : Numbers, out : Numbers, submitted : BOOLEAN, done : BOOLEAN]]
  BY DEF EyesType, EyeType
<1>5. WorkerTypes <=>
        /\ workerPc \in SetupStages \cup {"idle", "guides", "evaluate", "pick", "compose", "over"}
        /\ current \in InputSlots \cup {None} /\ target \in OutputSlots \cup {None}
        /\ previous \in Numbers /\ unserved \subseteq Numbers /\ eye \in EyesType
        /\ displayed \in [label : Numbers, texture : Picture]
  BY DEF WorkerTypes, WorkerPlaces, ShownPair
<1>6. ListTypes <=> CopiesOfType /\ Len(hostQueue) <= MaxOutstanding
  BY DEF ListTypes, CopiesOfType, Lists
<1>7. ListTypes => Len(hostList) <= 2
  BY AtMostTwo DEF ListTypes
<1>8. ASSUME NeuralTyped PROVE NeuralTypeOK /\ CopiesOfType
  <2>1. /\ {prefetch, ageLimit, stopping, displayRecorded, resetNow, deferred, ownBusy,
            signalLost} \subseteq BOOLEAN
        /\ phase \in {"starting", "running", "failed"}
        /\ fate \in {"alive", "destroyed", "quarantined"}
        /\ neuralFaults \in 0 .. MaxNeuralFaults
    BY <1>1, <1>8 DEF NeuralTyped
  <2>2. /\ CopiesOfType /\ Len(hostQueue) <= MaxOutstanding /\ Len(hostList) <= 2
    BY <1>6, <1>7, <1>8 DEF NeuralTyped
  <2>3. QED
    BY <1>2, <1>3, <1>4, <1>5, <1>8, <2>1, <2>2 DEF NeuralTyped, SlotTypes, NeuralTypeOK
<1>9. ASSUME NeuralTypeOK, CopiesOfType PROVE NeuralTyped
  <2>1. NeuralFlags /\ WorkerTypes
    BY <1>1, <1>4, <1>5, <1>9 DEF NeuralTypeOK
  <2>2. SlotTypes /\ ListTypes
    BY <1>2, <1>3, <1>6, <1>9 DEF NeuralTypeOK, SlotTypes
  <2>3. QED
    BY <2>1, <2>2 DEF NeuralTyped
<1>10. QED
  BY <1>8, <1>9

\* Both agree in the next state too.
LEMMA NeuralTypesPrimed == NeuralTyped' <=> NeuralTypeOK' /\ CopiesOfType'
BY NeuralTypesNamed, PTL

\* What one record of a slot holds.
LEMMA SlotRecords ==
    ASSUME SlotTypes
    PROVE  /\ \A i \in InputSlots : /\ inputs[i].state \in InputStates /\ inputs[i].frame \in Numbers
                                    /\ inputs[i].ready \in Distances /\ inputs[i].reset \in BOOLEAN
                                    /\ inputs[i].texture \in Numbers /\ inputs[i] \in InputType
           /\ \A o \in OutputSlots : /\ outputs[o].state \in OutputStates /\ outputs[o].frame \in Numbers
                                     /\ outputs[o].retired \in Distances
                                     /\ outputs[o].texture \in Picture /\ outputs[o] \in OutputType
<1>1. \A i \in InputSlots : inputs[i] \in InputType
  BY DEF SlotTypes, InputsType
<1>2. \A o \in OutputSlots : outputs[o] \in OutputType
  BY DEF SlotTypes, OutputsType
<1>3. QED
  BY <1>1, <1>2 DEF InputType, OutputType

\* Updates of a slot stay in its type.
LEMMA InputUpdates ==
    ASSUME NEW r \in InputType
    PROVE  /\ \A s \in InputStates : [r EXCEPT !.state = s] \in InputType
           /\ \A s \in InputStates, d \in Distances :
                [r EXCEPT !.state = s, !.ready = d] \in InputType
           /\ \A s \in InputStates, n \in Numbers, b \in BOOLEAN :
                [r EXCEPT !.state = s, !.frame = n, !.reset = b] \in InputType
           /\ \A d \in Distances, n \in Numbers : [r EXCEPT !.ready = d, !.texture = n] \in InputType
BY DEF InputType

\* The same for the pairs.
LEMMA OutputUpdates ==
    ASSUME NEW r \in OutputType
    PROVE  /\ \A s \in OutputStates : [r EXCEPT !.state = s] \in OutputType
           /\ \A s \in OutputStates, d \in Distances :
                [r EXCEPT !.state = s, !.retired = d] \in OutputType
           /\ \A d \in Distances : [r EXCEPT !.retired = d] \in OutputType
           /\ \A s \in OutputStates, n \in Numbers, t \in Picture :
                [r EXCEPT !.texture = t, !.frame = n, !.state = s] \in OutputType
BY DEF OutputType

-----------------------------------------------------------------------------
(* The neural pipeline: the steps of the thread and its owner that leave the slots alone *)

Starting == StartWorkers \/ RunFails \/ OwnWaitFails \/ RunEnds
OfEyes == RecordGuides \/ EyesComplete \/ \E e \in Eyes : SubmitEye(e) \/ WorkerProcess(e)
Ending == Stop \/ OwnGpuFinishes \/ Destroy
Aside == Starting \/ OfEyes \/ Ending

\* The steps of the pipeline by what they do to the slots.
LEMMA NeuralSteps ==
    NeuralNext <=>
        \/ RecordDisplay \/ RecordInput \/ SubmitRecordedInput \/ HostGpuRuns \/ Aside
        \/ \E i \in InputSlots : DropOldInput(i) \/ TakeInput(i)
        \/ \E o \in OutputSlots : PickOutput(o)
        \/ Compose
BY DEF NeuralNext, Worker, Aside, Starting, OfEyes, Ending

\* Slots are numbered from zero, and None is no slot.
LEMMA SlotNumbers ==
    /\ InputSlots \subseteq {0, 1} /\ OutputSlots = {0, 1} /\ 0 \in InputSlots
    /\ None \notin InputSlots /\ None \notin OutputSlots /\ None \notin {0, 1}
BY DEF InputSlots, OutputSlots, None

\* What these steps leave alone.
LEMMA AsideKeeps ==
    ASSUME Aside
    PROVE  /\ UNCHANGED <<prefetch, ageLimit, inputs, outputs, recorded, display, displayRecorded>>
           /\ UNCHANGED <<lastInput, hostList, hostQueue, signalLost, displayed>>
           /\ phase' = phase \/ phase' = "failed" \/ (phase' = "running" /\ workerPc = "right worker")
<1> USE DEF options, slotVars, hostGpu, worker, HostSide, Steady
<1>1. CASE Starting
  BY <1>1 DEF Starting, StartWorkers, CreateOwnQueue, CreateAtlases, StartEyes, StartStep, RunFails,
              OwnWaitFails, RunEnds
<1>2. CASE OfEyes
  BY <1>2 DEF OfEyes, RecordGuides, EyesComplete, SubmitEye, WorkerProcess
<1>3. CASE Ending
  BY <1>3 DEF Ending, Stop, OwnGpuFinishes, Destroy
<1>4. QED
  BY <1>1, <1>2, <1>3 DEF Aside

\* The copies and the slots they name stay as they are.
LEMMA AsideSlots ==
    ASSUME PipelineInv, Aside
    PROVE  /\ SlotTypes' /\ ListTypes' /\ OneWaiting' /\ InputCopies' /\ OutputCopies'
           /\ PairsAreWhole'
<1>1. /\ UNCHANGED <<prefetch, inputs, outputs, recorded, display, displayRecorded, lastInput>>
      /\ UNCHANGED <<hostList, hostQueue, displayed>>
      /\ phase' = phase \/ phase' = "failed" \/ (phase' = "running" /\ workerPc = "right worker")
  BY AsideKeeps
<1>2. InputSlots' = InputSlots
  BY <1>1 DEF InputSlots
<1>3. SlotTypes' = SlotTypes /\ ListTypes' = ListTypes
  BY <1>1, <1>2 DEF SlotTypes, ListTypes, InputsType
<1>4. OneWaiting' = OneWaiting /\ OutputCopies' = OutputCopies /\ PairsAreWhole' = PairsAreWhole
  BY <1>1, <1>2 DEF OneWaiting, OutputCopies, PairsAreWhole
<1>5. SlotTypes /\ ListTypes /\ OneWaiting /\ InputCopies /\ OutputCopies /\ PairsAreWhole
  BY NeuralTypesNamed DEF PipelineInv, NeuralTyped
<1>6. phase = "failed" => phase' = "failed"
  BY <1>1 DEF PipelineInv, WorkerInv, SetupStages
<1>7. InputCopies'
  BY <1>1, <1>2, <1>5, <1>6 DEF InputCopies, Taken
<1>8. QED
  BY <1>3, <1>4, <1>5, <1>7

\* A failure is counted up to the bound.
LEMMA NeuralFaultsBounded ==
    ASSUME neuralFaults \in NeuralFaults, NeuralFault \/ UNCHANGED neuralFaults
    PROVE  neuralFaults' \in NeuralFaults
BY NeuralAssumption DEF NeuralFault, NeuralFaults

\* What a worker process holds stays in its type.
LEMMA EyeUpdates ==
    ASSUME eye \in EyesType, NEW e \in Eyes
    PROVE  /\ eye[e] \in EyeType /\ eye[e].in \in Numbers
           /\ [eye EXCEPT ![e].submitted = TRUE] \in EyesType
           /\ [eye EXCEPT ![e].done = TRUE, ![e].out = eye[e].in] \in EyesType
<1>1. eye[e] \in EyeType /\ eye[e].in \in Numbers
  BY DEF EyesType, EyeType
<1>2. /\ [eye[e] EXCEPT !.submitted = TRUE] \in EyeType
      /\ [eye[e] EXCEPT !.done = TRUE, !.out = eye[e].in] \in EyeType
  BY <1>1 DEF EyeType
<1>3. \A r \in EyeType : [eye EXCEPT ![e] = r] \in EyesType
  BY DEF EyesType
<1>4. [eye EXCEPT ![e].submitted = TRUE] = [eye EXCEPT ![e] = [eye[e] EXCEPT !.submitted = TRUE]]
  OBVIOUS
<1>5. [eye EXCEPT ![e].done = TRUE, ![e].out = eye[e].in]
        = [eye EXCEPT ![e] = [eye[e] EXCEPT !.done = TRUE, !.out = eye[e].in]]
  BY DEF EyesType
<1>6. QED
  BY <1>1, <1>2, <1>3, <1>4, <1>5

\* Their flags and the thread's variables keep their types.
LEMMA AsideTypes ==
    ASSUME PipelineInv, Aside
    PROVE  NeuralFlags' /\ WorkerTypes'
<1> USE DEF options, slotVars, hostGpu, worker, HostSide, Steady
<1>1. NeuralFlags /\ WorkerTypes /\ SlotTypes
  BY NeuralTypesNamed DEF PipelineInv, NeuralTyped
<1>2. CASE Starting
  <2>1. NeuralFlags'
    <3>1. neuralFaults' \in NeuralFaults
      <4>1. NeuralFault \/ UNCHANGED neuralFaults
        BY <1>2 DEF Starting, StartWorkers, CreateOwnQueue, CreateAtlases, StartEyes, StartStep,
                    RunFails, OwnWaitFails, RunEnds
      <4>2. QED
        BY <1>1, <4>1, NeuralFaultsBounded DEF NeuralFlags
    <3>2. /\ UNCHANGED <<prefetch, ageLimit, stopping, displayRecorded, resetNow, deferred, ownBusy>>
          /\ UNCHANGED <<signalLost, fate>> /\ phase' \in {phase, "running", "failed"}
      BY <1>2 DEF Starting, StartWorkers, CreateOwnQueue, CreateAtlases, StartEyes, StartStep, RunFails,
                  OwnWaitFails, RunEnds
    <3>3. QED
      BY <1>1, <3>1, <3>2 DEF NeuralFlags
  <2>2. WorkerTypes'
    <3>1. /\ UNCHANGED <<prefetch, current, target, previous, unserved, eye, displayed>>
          /\ workerPc' \in SetupStages \cup {"idle", "over"}
      BY <1>2 DEF Starting, StartWorkers, CreateOwnQueue, CreateAtlases, StartEyes, StartStep, RunFails,
                  OwnWaitFails, RunEnds, SetupStages
    <3>2. InputSlots' = InputSlots
      BY <3>1 DEF InputSlots
    <3>3. QED
      BY <1>1, <3>1, <3>2 DEF WorkerTypes, WorkerPlaces
  <2>3. QED
    BY <2>1, <2>2
<1>3. CASE OfEyes
  <2>1. /\ UNCHANGED <<prefetch, ageLimit, stopping, displayRecorded, deferred, signalLost, fate>>
        /\ UNCHANGED <<phase, neuralFaults, current, target, previous, displayed>>
    BY <1>3 DEF OfEyes, RecordGuides, EyesComplete, SubmitEye, WorkerProcess
  <2>2. ownBusy' \in BOOLEAN /\ resetNow' \in BOOLEAN
    BY <1>1, <1>3 DEF OfEyes, RecordGuides, EyesComplete, SubmitEye, WorkerProcess, NeuralFlags
  <2>3. workerPc' \in WorkerPlaces /\ unserved' \in SUBSET Numbers
    BY <1>1, <1>3 DEF OfEyes, RecordGuides, EyesComplete, SubmitEye, WorkerProcess, WorkerTypes, WorkerPlaces
  <2>4. eye' \in EyesType
    <3>1. CASE RecordGuides
      <4>1. eye' = [e \in Eyes |-> [eye[e] EXCEPT !.in = inputs[current].texture]]
            /\ workerPc = "guides"
        BY <3>1 DEF RecordGuides
      <4>2. inputs[current].texture \in Numbers
        BY <1>1, <4>1, SlotRecords DEF PipelineInv, WorkerInv, InProgress, WorkerTypes
      <4>3. QED
        BY <1>1, <4>1, <4>2 DEF WorkerTypes, EyesType, EyeType
    <3>2. CASE EyesComplete
      <4>1. eye' = [e \in Eyes |-> [eye[e] EXCEPT !.in = 0, !.submitted = FALSE, !.done = FALSE]]
        BY <3>2 DEF EyesComplete
      <4>2. 0 \in Numbers
        BY NeuralAssumption DEF Numbers
      <4>3. QED
        BY <1>1, <4>1, <4>2 DEF WorkerTypes, EyesType, EyeType
    <3>3. CASE \E e \in Eyes : SubmitEye(e)
      BY <1>1, <3>3, EyeUpdates DEF SubmitEye, WorkerTypes
    <3>4. CASE \E e \in Eyes : WorkerProcess(e)
      BY <1>1, <3>4, EyeUpdates DEF WorkerProcess, WorkerTypes
    <3>5. QED
      BY <1>3, <3>1, <3>2, <3>3, <3>4 DEF OfEyes
  <2>5. InputSlots' = InputSlots
    BY <2>1 DEF InputSlots
  <2>6. NeuralFlags'
    BY <1>1, <2>1, <2>2 DEF NeuralFlags
  <2>7. QED
    BY <1>1, <2>1, <2>3, <2>4, <2>5, <2>6 DEF WorkerTypes
<1>4. CASE Ending
  <2>1. /\ UNCHANGED <<prefetch, ageLimit, displayRecorded, resetNow, deferred, signalLost>>
        /\ UNCHANGED <<phase, neuralFaults, workerPc, current, target, previous, unserved, eye, displayed>>
        /\ stopping' \in {stopping, TRUE} /\ ownBusy' \in {ownBusy, FALSE}
        /\ fate' \in {fate, "destroyed", "quarantined"}
    BY <1>4 DEF Ending, Stop, OwnGpuFinishes, Destroy
  <2>2. InputSlots' = InputSlots
    BY <2>1 DEF InputSlots
  <2>3. stopping' \in BOOLEAN /\ ownBusy' \in BOOLEAN
    BY <1>1, <2>1 DEF NeuralFlags
  <2>4. NeuralFlags'
    BY <1>1, <2>1, <2>3 DEF NeuralFlags
  <2>5. QED
    BY <1>1, <2>1, <2>2, <2>4 DEF WorkerTypes
<1>5. QED
  BY <1>2, <1>3, <1>4 DEF Aside

\* The thread's progress, the resets and the eyes through these steps.
LEMMA AsideProgress ==
    ASSUME PipelineInv, Aside
    PROVE  WorkerInv' /\ ResetsAreKept' /\ EyesInv'
<1> USE DEF options, slotVars, hostGpu, worker, HostSide, Steady
<1>1. /\ NeuralFlags /\ WorkerTypes /\ SlotTypes /\ ListTypes
      /\ WorkerInv /\ ResetsAreKept /\ EyesInv /\ InputCopies
  BY NeuralTypesNamed DEF PipelineInv, NeuralTyped
<1>2. /\ UNCHANGED <<prefetch, inputs, outputs, recorded, display, lastInput, hostList, hostQueue>>
      /\ phase' = phase \/ phase' = "failed" \/ (phase' = "running" /\ workerPc = "right worker")
  BY AsideKeeps
<1>3. InputSlots' = InputSlots
  BY <1>2 DEF InputSlots
<1>4. CASE Starting
  <2>1. /\ UNCHANGED <<current, target, resetNow, unserved, eye, deferred, stopping, fate, ownBusy>>
        /\ \/ workerPc \in SetupStages /\ workerPc' \in SetupStages /\ phase' = phase
           \/ workerPc = "right worker" /\ workerPc' = "idle"
           \/ workerPc' = "over" /\ workerPc # "over"
    BY <1>4 DEF Starting, StartWorkers, CreateOwnQueue, CreateAtlases, StartEyes, StartStep, RunFails,
                OwnWaitFails, RunEnds, SetupStages
  <2>2. WorkerInv'
    BY <1>1, <1>2, <2>1 DEF WorkerInv, InProgress, SetupStages, DestroyedWhenRetired
  <2>3. ResetsAreKept'
    <3>1. workerPc' # "guides"
      BY <2>1 DEF SetupStages
    <3>2. HistoryCoversAdmitted'
      BY <3>1 DEF HistoryCoversAdmitted
    <3>3. \A n \in unserved' : \/ deferred'
                               \/ \E i \in InputSlots' : inputs'[i].state \in Waiting /\ inputs'[i].reset
                               \/ workerPc' = "guides" /\ resetNow' /\ n <= inputs'[current'].frame
                               \/ workerPc' = "over"
      BY <1>1, <1>2, <1>3, <2>1 DEF ResetsAreKept, SetupStages
    <3>4. \A n \in unserved' : n <= IF recorded' = None THEN lastInput' ELSE inputs'[recorded'].frame
      BY <1>1, <1>2, <2>1 DEF ResetsAreKept
    <3>5. QED
      BY <3>2, <3>3, <3>4 DEF ResetsAreKept, Waiting
  <2>4. EyesInv'
    BY <1>1, <1>2, <2>1 DEF EyesInv, SetupStages
  <2>5. QED
    BY <2>2, <2>3, <2>4
<1>5. CASE RecordGuides
  <2>1. /\ workerPc = "guides" /\ workerPc' = "evaluate" /\ inputs[current].ready = 0
        /\ UNCHANGED <<current, target, resetNow, deferred, stopping, fate, phase>> /\ ownBusy' = FALSE
        /\ unserved' = IF resetNow THEN {n \in unserved : n > inputs[current].frame} ELSE unserved
        /\ eye' = [e \in Eyes |-> [eye[e] EXCEPT !.in = inputs[current].texture]]
    BY <1>5 DEF RecordGuides, WaitHostSubmitted
  <2>2. current \in InputSlots /\ inputs[current].state = "working"
    BY <1>1, <2>1 DEF WorkerInv, InProgress, WorkerTypes
  <2>3. WorkerInv'
    BY <1>1, <1>2, <2>1, <2>2 DEF WorkerInv, InProgress, SetupStages, DestroyedWhenRetired
  <2>4. ResetsAreKept'
    <3>1. /\ \A n \in unserved' : n \in unserved /\ (resetNow => n > inputs[current].frame)
          /\ HistoryCoversAdmitted'
      BY <2>1 DEF HistoryCoversAdmitted
    <3>2. inputs[current].frame \in Int /\ \A n \in unserved : n \in Int
      BY <1>1, <2>2, SlotRecords DEF WorkerTypes, Numbers
    <3>3. ASSUME NEW n \in unserved', resetNow, n <= inputs[current].frame PROVE FALSE
      BY <3>1, <3>2, <3>3
    <3>4. \A n \in unserved' : \/ deferred'
                               \/ \E i \in InputSlots' : inputs'[i].state \in Waiting /\ inputs'[i].reset
      BY <1>1, <1>2, <1>3, <2>1, <3>1, <3>3 DEF ResetsAreKept
    <3>5. \A n \in unserved' : n <= IF recorded' = None THEN lastInput' ELSE inputs'[recorded'].frame
      BY <1>1, <1>2, <3>1 DEF ResetsAreKept
    <3>6. QED
      BY <3>1, <3>4, <3>5 DEF ResetsAreKept, Waiting
  <2>5. EyesInv'
    <3>1. inputs[current].texture = inputs[current].frame
      BY <1>1, <2>1, <2>2 DEF InputCopies, Taken
    <3>2. \A e \in Eyes : eye'[e].in = inputs[current].frame /\ eye'[e].done = eye[e].done
      BY <1>1, <2>1, <3>1 DEF WorkerTypes, EyesType, EyeType
    <3>3. \A e \in Eyes : ~eye[e].done
      BY <1>1, <2>1 DEF EyesInv
    <3>4. QED
      BY <1>2, <2>1, <3>2, <3>3 DEF EyesInv
  <2>6. QED
    BY <2>3, <2>4, <2>5
<1>6. CASE EyesComplete \/ \E e \in Eyes : SubmitEye(e) \/ WorkerProcess(e)
  <2>1. /\ UNCHANGED <<current, target, deferred, stopping, fate, phase, ownBusy, unserved>>
        /\ \/ workerPc = "evaluate" /\ workerPc' = "pick"
           \/ workerPc' = workerPc /\ resetNow' = resetNow
    BY <1>6 DEF EyesComplete, SubmitEye, WorkerProcess
  <2>2. WorkerInv'
    BY <1>1, <1>2, <2>1 DEF WorkerInv, InProgress, SetupStages, DestroyedWhenRetired
  <2>3. ResetsAreKept'
    <3>1. /\ workerPc' = "guides" => workerPc = "guides" /\ resetNow' = resetNow
          /\ workerPc = "guides" => workerPc' = "guides" /\ resetNow' = resetNow
          /\ workerPc = "over" => workerPc' = "over"
      BY <2>1
    <3>2. HistoryCoversAdmitted'
      BY <1>1, <1>2, <2>1, <3>1 DEF ResetsAreKept, HistoryCoversAdmitted
    <3>3. \A n \in unserved' : \/ deferred'
                               \/ \E i \in InputSlots' : inputs'[i].state \in Waiting /\ inputs'[i].reset
                               \/ workerPc' = "guides" /\ resetNow' /\ n <= inputs'[current'].frame
                               \/ workerPc' = "over"
      BY <1>1, <1>2, <1>3, <2>1, <3>1 DEF ResetsAreKept
    <3>4. \A n \in unserved' : n <= IF recorded' = None THEN lastInput' ELSE inputs'[recorded'].frame
      BY <1>1, <1>2, <2>1 DEF ResetsAreKept
    <3>5. QED
      BY <3>2, <3>3, <3>4 DEF ResetsAreKept, Waiting
  <2>4. EyesInv'
    <3>1. CASE EyesComplete
      <4>1. /\ workerPc = "evaluate" /\ workerPc' = "pick" /\ \A e \in Eyes : eye[e].done
            /\ eye' = [e \in Eyes |-> [eye[e] EXCEPT !.in = 0, !.submitted = FALSE, !.done = FALSE]]
        BY <3>1 DEF EyesComplete
      <4>2. \A e \in Eyes : eye[e].out = inputs[current].frame
        BY <1>1, <4>1 DEF EyesInv
      <4>3. \A e \in Eyes : eye'[e].out = eye[e].out /\ ~eye'[e].submitted /\ ~eye'[e].done
        BY <1>1, <4>1 DEF WorkerTypes, EyesType, EyeType
      <4>4. QED
        BY <1>1, <1>2, <2>1, <4>1, <4>2, <4>3 DEF EyesInv
    <3>2. ASSUME NEW e \in Eyes, SubmitEye(e) PROVE EyesInv'
      <4>1. /\ workerPc = "evaluate" /\ workerPc' = "evaluate"
            /\ eye' = [eye EXCEPT ![e].submitted = TRUE]
        BY <3>2 DEF SubmitEye
      <4>2. \A d \in Eyes : eye'[d].in = eye[d].in /\ eye'[d].out = eye[d].out /\ eye'[d].done = eye[d].done
        BY <1>1, <4>1 DEF WorkerTypes, EyesType, EyeType
      <4>3. QED
        BY <1>1, <1>2, <2>1, <4>1, <4>2 DEF EyesInv
    <3>3. ASSUME NEW e \in Eyes, WorkerProcess(e) PROVE EyesInv'
      <4>1. /\ eye[e].submitted /\ workerPc' = workerPc
            /\ eye' = [eye EXCEPT ![e].done = TRUE, ![e].out = eye[e].in]
        BY <3>3 DEF WorkerProcess
      <4>2. workerPc \in {"evaluate", "over"}
        BY <1>1, <4>1 DEF EyesInv
      <4>3. \A d \in Eyes : /\ eye'[d].in = eye[d].in
                            /\ d = e => eye'[d].out = eye[d].in
                            /\ d # e => eye'[d].out = eye[d].out /\ eye'[d].done = eye[d].done
        BY <1>1, <4>1 DEF WorkerTypes, EyesType, EyeType
      <4>4. QED
        BY <1>1, <1>2, <2>1, <4>1, <4>2, <4>3 DEF EyesInv
    <3>4. QED
      BY <1>6, <3>1, <3>2, <3>3
  <2>5. QED
    BY <2>2, <2>3, <2>4
<1>7. CASE Ending
  <2>1. /\ UNCHANGED <<workerPc, current, target, resetNow, unserved, eye, deferred, phase>>
        /\ stopping => stopping'
        /\ ownBusy' => ownBusy
        /\ \/ fate' = fate
           \/ /\ stopping /\ workerPc = "over"
              /\ fate' = "destroyed" => ~ownBusy /\ hostQueue = <<>>
    BY <1>7 DEF Ending, Stop, OwnGpuFinishes, Destroy
  <2>2. WorkerInv'
    <3>1. WorkerInv
      BY <1>1
    <3>2. /\ (workerPc' \in InProgress => current' # None /\ inputs'[current'].state = "working")
          /\ (workerPc' = "compose" => target' # None /\ outputs'[target'].state = "working")
          /\ (workerPc' \in SetupStages => phase' = "starting")
      BY <1>2, <2>1, <3>1 DEF WorkerInv
    <3>3. fate' # "alive" => workerPc' = "over" /\ stopping'
      BY <1>2, <2>1, <3>1 DEF WorkerInv
    <3>4. DestroyedWhenRetired'
      BY <1>2, <2>1, <3>1 DEF WorkerInv, DestroyedWhenRetired
    <3>5. QED
      BY <3>2, <3>3, <3>4 DEF WorkerInv, InProgress
  <2>3. ResetsAreKept' = ResetsAreKept
    BY <1>2, <1>3, <2>1 DEF ResetsAreKept, HistoryCoversAdmitted
  <2>4. EyesInv' = EyesInv
    BY <1>2, <2>1 DEF EyesInv
  <2>5. QED
    BY <1>1, <2>2, <2>3, <2>4
<1>8. QED
  BY <1>4, <1>5, <1>6, <1>7 DEF Aside, OfEyes

\* These steps keep the pipeline's invariant.
LEMMA AsideStep == PipelineInv /\ Aside => PipelineInv'
BY AsideSlots, AsideTypes, AsideProgress, NeuralTypesPrimed DEF PipelineInv, NeuralTyped

-----------------------------------------------------------------------------
(* The neural pipeline: the thread takes an input and publishes a pair *)

\* Only the state of one input changes.
LEMMA InputStateSet ==
    ASSUME inputs \in InputsType, NEW i \in InputSlots, NEW s \in InputStates,
           InputSlots' = InputSlots, inputs' = [inputs EXCEPT ![i].state = s]
    PROVE  /\ inputs' \in InputsType
           /\ \A j \in InputSlots :
                /\ inputs'[j].state = IF j = i THEN s ELSE inputs[j].state
                /\ inputs'[j].frame = inputs[j].frame /\ inputs'[j].ready = inputs[j].ready
                /\ inputs'[j].reset = inputs[j].reset /\ inputs'[j].texture = inputs[j].texture
<1>1. inputs[i] \in InputType
  BY DEF InputsType
<1>2. [inputs[i] EXCEPT !.state = s] \in InputType
  BY <1>1, InputUpdates
<1>3. inputs' = [inputs EXCEPT ![i] = [inputs[i] EXCEPT !.state = s]]
  OBVIOUS
<1>4. inputs' \in InputsType
  BY <1>2, <1>3 DEF InputsType
<1>5. QED
  BY <1>1, <1>3, <1>4 DEF InputsType, InputType

\* Only the state of one output changes.
LEMMA OutputStateSet ==
    ASSUME outputs \in OutputsType, NEW o \in OutputSlots, NEW s \in OutputStates,
           outputs' = [outputs EXCEPT ![o].state = s]
    PROVE  /\ outputs' \in OutputsType
           /\ \A p \in OutputSlots :
                /\ outputs'[p].state = IF p = o THEN s ELSE outputs[p].state
                /\ outputs'[p].frame = outputs[p].frame /\ outputs'[p].retired = outputs[p].retired
                /\ outputs'[p].texture = outputs[p].texture
<1>1. outputs[o] \in OutputType
  BY DEF OutputsType
<1>2. [outputs[o] EXCEPT !.state = s] \in OutputType
  BY <1>1, OutputUpdates
<1>3. outputs' = [outputs EXCEPT ![o] = [outputs[o] EXCEPT !.state = s]]
  OBVIOUS
<1>4. outputs' \in OutputsType
  BY <1>2, <1>3 DEF OutputsType
<1>5. QED
  BY <1>1, <1>3, <1>4 DEF OutputsType, OutputType

\* An input that is queued is the only one that waits, and the newest.
LEMMA QueuedIsNewest ==
    ASSUME PipelineInv, NEW i \in InputSlots, inputs[i].state = "queued"
    PROVE  /\ recorded = None /\ inputs[i].frame = lastInput
           /\ \A j \in InputSlots : inputs[j].state \in Waiting => j = i
<1>1. SlotTypes /\ OneWaiting
  BY NeuralTypesNamed DEF PipelineInv, NeuralTyped
<1>2. recorded # None => recorded \in InputSlots /\ inputs[recorded].state = "recording"
  BY <1>1 DEF SlotTypes, OneWaiting
<1>3. \A j \in InputSlots : inputs[j].state \in Waiting => j = i
  BY <1>1 DEF OneWaiting, Waiting
<1>4. QED
  BY <1>1, <1>2, <1>3 DEF OneWaiting, Waiting

\* An input that is dropped or taken while the thread is idle: what does not depend
\* on the resets.
LEMMA InputLeavesQueue ==
    ASSUME PipelineInv, NEW i \in InputSlots, inputs[i].state = "queued", phase # "failed",
           workerPc = "idle", NEW s \in {"empty", "working"}, inputs' = [inputs EXCEPT ![i].state = s],
           UNCHANGED <<prefetch, ageLimit, HostSide, outputs, neuralFaults, target, previous, eye,
                       unserved>>,
           ownBusy' \in BOOLEAN, resetNow' \in BOOLEAN, deferred' \in BOOLEAN,
           \/ s = "empty" /\ workerPc' = "idle" /\ current' = current /\ ownBusy' = ownBusy
           \/ s = "working" /\ workerPc' = "guides" /\ current' = i
    PROVE  /\ NeuralFlags' /\ SlotTypes' /\ WorkerTypes' /\ ListTypes'
           /\ OneWaiting' /\ WorkerInv' /\ InputCopies' /\ EyesInv' /\ OutputCopies' /\ PairsAreWhole'
<1>1. /\ NeuralFlags /\ WorkerTypes /\ SlotTypes /\ ListTypes
      /\ OneWaiting /\ WorkerInv /\ EyesInv /\ InputCopies /\ OutputCopies /\ PairsAreWhole
  BY NeuralTypesNamed DEF PipelineInv, NeuralTyped
<1>2. UNCHANGED <<phase, stopping, fate, recorded, display, displayRecorded, lastInput, hostList,
                  hostQueue, signalLost, displayed>>
  BY DEF HostSide, hostGpu
<1>3. InputSlots' = InputSlots /\ InputsType' = InputsType
  BY DEF InputSlots, InputsType
<1>4. /\ inputs' \in InputsType
      /\ \A j \in InputSlots :
           /\ inputs'[j].state = IF j = i THEN s ELSE inputs[j].state
           /\ inputs'[j].frame = inputs[j].frame /\ inputs'[j].ready = inputs[j].ready
           /\ inputs'[j].reset = inputs[j].reset /\ inputs'[j].texture = inputs[j].texture
  <2>1. s \in InputStates /\ inputs \in InputsType
    BY <1>1 DEF SlotTypes, InputStates
  <2>2. QED
    BY <1>3, <2>1, InputStateSet
<1>5. /\ recorded = None /\ inputs[i].frame = lastInput
      /\ \A j \in InputSlots : inputs[j].state \in Waiting => j = i
  BY QueuedIsNewest
<1>6. NeuralFlags'
  BY <1>1, <1>2 DEF NeuralFlags
<1>7. SlotTypes'
  BY <1>1, <1>2, <1>3, <1>4 DEF SlotTypes
<1>8. WorkerTypes'
  BY <1>1, <1>2, <1>3 DEF WorkerTypes, WorkerPlaces
<1>9. ListTypes'
  BY <1>1, <1>2, <1>3, <1>4 DEF ListTypes
<1>10. OneWaiting'
  <2>1. \A j \in InputSlots : inputs'[j].state \in Waiting => FALSE
    BY <1>4, <1>5 DEF Waiting
  <2>2. \A j \in InputSlots : j # recorded
    BY <1>5, SlotNumbers
  <2>3. \A j \in InputSlots : inputs'[j].state \in {"queued", "working"} => inputs'[j].frame <= lastInput
    <3>1. lastInput <= lastInput
      BY <1>1 DEF SlotTypes, Numbers
    <3>2. QED
      BY <1>1, <1>4, <1>5, <3>1 DEF OneWaiting
  <2>4. QED
    BY <1>2, <1>3, <1>5, <2>1, <2>2, <2>3 DEF OneWaiting, Waiting
<1>11. WorkerInv'
  <2>1. fate = "alive" /\ workerPc' \notin SetupStages /\ workerPc' # "compose"
    BY <1>1 DEF WorkerInv, SetupStages
  <2>2. workerPc' \in InProgress => current' # None /\ inputs'[current'].state = "working"
    BY <1>4, SlotNumbers DEF InProgress
  <2>3. QED
    BY <1>2, <2>1, <2>2 DEF WorkerInv, DestroyedWhenRetired
<1>12. InputCopies'
  <2>1. /\ \A c \in ToSet(hostList) : c.op # "input"
        /\ \A k \in 1 .. Len(hostQueue) : \A c \in ToSet(hostQueue[k]) : c.op = "input" =>
             c.slot \in InputSlots /\ (inputs'[c.slot].state = "recording" \/ k <= inputs'[c.slot].ready)
    BY <1>1, <1>4, <1>5, SlotNumbers DEF InputCopies
  <2>2. ASSUME NEW j \in InputSlots, Taken(j)'
        PROVE  IF inputs'[j].ready = 0 THEN inputs'[j].texture = inputs'[j].frame
               ELSE \E c \in ToSet(hostQueue[inputs'[j].ready]) :
                      c.op = "input" /\ c.slot = j /\ c.frame = inputs'[j].frame
    <3>1. Taken(j)
      <4>1. phase' = phase /\ (Taken(j)' <=> inputs'[j].state = "working"
                                    \/ (inputs'[j].state = "queued" /\ phase' # "failed"))
        BY <1>2 DEF Taken
      <4>2. j = i => Taken(j)
        BY DEF Taken
      <4>3. j # i => inputs'[j].state = inputs[j].state
        BY <1>4
      <4>4. QED
        BY <2>2, <4>1, <4>2, <4>3 DEF Taken
    <3>2. QED
      BY <1>1, <1>4, <3>1 DEF InputCopies
  <2>3. QED
    BY <1>2, <1>3, <1>5, <2>1, <2>2 DEF InputCopies
<1>13. EyesInv'
  BY <1>1 DEF EyesInv
<1>14. OutputCopies' = OutputCopies /\ PairsAreWhole' = PairsAreWhole
  BY <1>2 DEF OutputCopies, PairsAreWhole
<1>15. QED
  BY <1>1, <1>6, <1>7, <1>8, <1>9, <1>10, <1>11, <1>12, <1>13, <1>14

\* PrefetchAgePolicy::TryBegin and the evaluation that begins keep every reset.
LEMMA TakeStep ==
    ASSUME PipelineInv, NEW i \in InputSlots, DropOldInput(i) \/ TakeInput(i)
    PROVE  PipelineInv'
<1>1. /\ NeuralFlags /\ WorkerTypes /\ SlotTypes /\ ListTypes /\ ResetsAreKept
  BY NeuralTypesNamed DEF PipelineInv, NeuralTyped
<1>2. /\ workerPc = "idle" /\ inputs[i].state = "queued" /\ phase # "failed"
      /\ UNCHANGED <<prefetch, ageLimit, HostSide, outputs, neuralFaults, target, previous, eye, unserved>>
  BY DEF DropOldInput, TakeInput, Steady, options, Ended
<1>3. InputSlots' = InputSlots /\ UNCHANGED <<recorded, lastInput>>
  BY <1>2 DEF InputSlots, HostSide
<1>4. /\ recorded = None /\ inputs[i].frame = lastInput
      /\ \A j \in InputSlots : inputs[j].state \in Waiting => j = i
  BY <1>2, QueuedIsNewest
<1>5. inputs[i].reset \in BOOLEAN /\ deferred \in BOOLEAN
  BY <1>1, SlotRecords DEF NeuralFlags
<1>6. \A n \in unserved : n <= lastInput /\ (deferred \/ inputs[i].reset)
  BY <1>1, <1>2, <1>4 DEF ResetsAreKept
<1>7. CASE DropOldInput(i)
  <2>1. /\ inputs' = [inputs EXCEPT ![i].state = "empty"] /\ deferred' = (deferred \/ inputs[i].reset)
        /\ UNCHANGED <<workerPc, current, ownBusy, resetNow>>
    BY <1>7 DEF DropOldInput, DeferredByDrop, HostSide, options, Steady
  <2>2. deferred' \in BOOLEAN /\ resetNow' \in BOOLEAN /\ ownBusy' \in BOOLEAN
    BY <1>1, <2>1 DEF NeuralFlags
  <2>3. /\ NeuralFlags' /\ SlotTypes' /\ WorkerTypes' /\ ListTypes'
        /\ OneWaiting' /\ WorkerInv' /\ InputCopies' /\ EyesInv' /\ OutputCopies' /\ PairsAreWhole'
    BY <1>2, <2>1, <2>2, InputLeavesQueue
  <2>4. ResetsAreKept'
    BY <1>2, <1>3, <1>4, <1>6, <2>1 DEF ResetsAreKept, HistoryCoversAdmitted
  <2>5. QED
    BY <2>3, <2>4, NeuralTypesPrimed DEF PipelineInv, NeuralTyped
<1>8. CASE TakeInput(i)
  <2>1. /\ inputs' = [inputs EXCEPT ![i].state = "working"] /\ deferred' = FALSE /\ current' = i
        /\ workerPc' = "guides" /\ ownBusy' = TRUE
        /\ resetNow' \in {inputs[i].reset \/ deferred \/ previous = 0, TRUE}
    BY <1>8 DEF TakeInput
  <2>2. /\ deferred' \in BOOLEAN /\ resetNow' \in BOOLEAN /\ ownBusy' \in BOOLEAN
        /\ deferred \/ inputs[i].reset => resetNow'
    BY <1>5, <2>1
  <2>3. /\ NeuralFlags' /\ SlotTypes' /\ WorkerTypes' /\ ListTypes'
        /\ OneWaiting' /\ WorkerInv' /\ InputCopies' /\ EyesInv' /\ OutputCopies' /\ PairsAreWhole'
    BY <1>2, <2>1, <2>2, InputLeavesQueue
  <2>4. inputs'[i].frame = lastInput
    BY <1>1, <1>3, <1>4, <2>1, InputStateSet DEF SlotTypes, InputStates
  <2>5. ResetsAreKept'
    BY <1>2, <1>3, <1>4, <1>6, <2>1, <2>2, <2>4 DEF ResetsAreKept, HistoryCoversAdmitted
  <2>6. QED
    BY <2>3, <2>5, NeuralTypesPrimed DEF PipelineInv, NeuralTyped
<1>9. QED
  BY <1>7, <1>8

\* An output slot is taken for a pair only when no copy out of it can be recorded.
LEMMA PickStep ==
    ASSUME PipelineInv, NEW o \in OutputSlots, PickOutput(o)
    PROVE  PipelineInv'
<1>1. /\ NeuralFlags /\ WorkerTypes /\ SlotTypes /\ ListTypes
      /\ OneWaiting /\ WorkerInv /\ EyesInv /\ InputCopies /\ OutputCopies /\ PairsAreWhole
      /\ ResetsAreKept
  BY NeuralTypesNamed DEF PipelineInv, NeuralTyped
<1>2. /\ workerPc = "pick" /\ outputs[o].state \in {"empty", "complete"}
      /\ outputs' = [outputs EXCEPT ![o].state = "working"] /\ target' = o /\ workerPc' = "compose"
      /\ ownBusy' = TRUE
      /\ UNCHANGED <<prefetch, ageLimit, neuralFaults, inputs, current, resetNow, previous, deferred>>
      /\ UNCHANGED <<eye, unserved, phase, stopping, fate, recorded, display, displayRecorded>>
      /\ UNCHANGED <<lastInput, hostList, hostQueue, signalLost, displayed>>
  BY DEF PickOutput, Steady, options, HostSide, hostGpu
<1>3. InputSlots' = InputSlots /\ InputsType' = InputsType
  BY <1>2 DEF InputSlots, InputsType
<1>4. /\ outputs' \in OutputsType
      /\ \A p \in OutputSlots :
           /\ outputs'[p].state = IF p = o THEN "working" ELSE outputs[p].state
           /\ outputs'[p].frame = outputs[p].frame /\ outputs'[p].retired = outputs[p].retired
           /\ outputs'[p].texture = outputs[p].texture
  <2>1. outputs \in OutputsType /\ "working" \in OutputStates
    BY <1>1 DEF SlotTypes, OutputStates
  <2>2. QED
    BY <1>2, <2>1, OutputStateSet
<1>5. NeuralFlags'
  BY <1>1, <1>2 DEF NeuralFlags
<1>6. SlotTypes'
  BY <1>1, <1>2, <1>3, <1>4 DEF SlotTypes
<1>7. WorkerTypes'
  BY <1>1, <1>2, <1>3 DEF WorkerTypes, WorkerPlaces
<1>8. ListTypes' = ListTypes /\ OneWaiting' = OneWaiting /\ InputCopies' = InputCopies
      /\ PairsAreWhole' = PairsAreWhole
  BY <1>2, <1>3 DEF ListTypes, OneWaiting, InputCopies, Taken, PairsAreWhole
<1>9. WorkerInv'
  <2>1. workerPc \in InProgress /\ fate = "alive" /\ workerPc' \notin SetupStages
    BY <1>1, <1>2 DEF WorkerInv, InProgress, SetupStages
  <2>2. current # None /\ inputs[current].state = "working"
    BY <1>1, <2>1 DEF WorkerInv
  <2>3. target' # None /\ outputs'[target'].state = "working"
    BY <1>2, <1>4, SlotNumbers
  <2>4. QED
    BY <1>2, <2>1, <2>2, <2>3 DEF WorkerInv, DestroyedWhenRetired
<1>10. ResetsAreKept'
  <2>1. HistoryCoversAdmitted'
    BY <1>2 DEF HistoryCoversAdmitted
  <2>2. \A n \in unserved : deferred \/ \E i \in InputSlots : inputs[i].state \in Waiting /\ inputs[i].reset
    BY <1>1, <1>2 DEF ResetsAreKept
  <2>3. QED
    BY <1>1, <1>2, <1>3, <2>1, <2>2 DEF ResetsAreKept
<1>11. EyesInv'
  BY <1>1, <1>2 DEF EyesInv
<1>12. OutputCopies'
  <2>1. \A p \in OutputSlots : outputs'[p].state = "displaying" <=> p = display
    BY <1>1, <1>2, <1>4 DEF OutputCopies
  <2>2. \A p \in OutputSlots : outputs'[p].state \in {"complete", "displaying", "retiring"} =>
           Whole(outputs'[p].texture, outputs'[p].frame)
    BY <1>1, <1>4 DEF OutputCopies
  <2>3. \A c \in ToSet(hostList) : c.op = "display" =>
           displayRecorded /\ c.slot = display /\ Whole(outputs'[c.slot].texture, c.frame)
    <3>1. \A c \in ToSet(hostList) : c.slot \in OutputSlots
      BY <1>1, Members, SlotNumbers DEF ListTypes, Copy
    <3>2. QED
      BY <1>1, <1>4, <3>1 DEF OutputCopies
  <2>4. ASSUME NEW k \in 1 .. Len(hostQueue), NEW c \in ToSet(hostQueue[k]), c.op = "display"
        PROVE  /\ Whole(outputs'[c.slot].texture, c.frame)
               /\ outputs'[c.slot].state \in {"displaying", "retiring"} \/ k <= outputs'[c.slot].retired
    <3>1. hostQueue[k] \in Lists
      BY <1>1, ElementOfSeq DEF ListTypes
    <3>2. c.slot \in OutputSlots
      BY <2>4, <3>1, Members, SlotNumbers DEF Copy
    <3>3. /\ Whole(outputs[c.slot].texture, c.frame)
          /\ outputs[c.slot].state \in {"displaying", "retiring"} \/ k <= outputs[c.slot].retired
      BY <1>1, <2>4 DEF OutputCopies
    <3>4. QED
      BY <1>2, <1>4, <3>2, <3>3
  <2>5. QED
    BY <1>2, <2>1, <2>2, <2>3, <2>4 DEF OutputCopies
<1>13. QED
  BY <1>1, <1>5, <1>6, <1>7, <1>8, <1>9, <1>10, <1>11, <1>12, NeuralTypesPrimed DEF PipelineInv, NeuralTyped

\* The pair is composed after the last copy out of its slot, from both eyes and the HUD
\* of one input.
LEMMA ComposeStep ==
    ASSUME PipelineInv, Compose
    PROVE  PipelineInv'
<1>1. /\ NeuralFlags /\ WorkerTypes /\ SlotTypes /\ ListTypes
      /\ OneWaiting /\ WorkerInv /\ EyesInv /\ InputCopies /\ OutputCopies /\ PairsAreWhole
      /\ ResetsAreKept
  BY NeuralTypesNamed DEF PipelineInv, NeuralTyped
<1>2. /\ workerPc = "compose" /\ outputs[target].retired = 0
      /\ outputs' = [outputs EXCEPT ![target].texture = [left |-> eye[0].out, right |-> eye[1].out,
                                                         hud |-> inputs[current].texture],
                                    ![target].frame = inputs[current].frame,
                                    ![target].state = "complete"]
      /\ inputs' = [inputs EXCEPT ![current].state = "empty"]
      /\ previous' = inputs[current].frame /\ eye' = [e \in Eyes |-> IdleEye]
      /\ workerPc' = "idle" /\ current' = None /\ target' = None /\ ownBusy' = FALSE
      /\ UNCHANGED <<prefetch, ageLimit, neuralFaults, resetNow, deferred>>
      /\ UNCHANGED <<unserved, phase, stopping, fate, recorded, display, displayRecorded>>
      /\ UNCHANGED <<lastInput, hostList, hostQueue, signalLost, displayed>>
  BY DEF Compose, WaitHostSubmitted, Steady, options, HostSide, hostGpu
<1>3. InputSlots' = InputSlots /\ InputsType' = InputsType
  BY <1>2 DEF InputSlots, InputsType
<1>4. /\ current \in InputSlots /\ inputs[current].state = "working"
      /\ target \in OutputSlots /\ outputs[target].state = "working"
      /\ fate = "alive"
  BY <1>1, <1>2 DEF WorkerTypes, WorkerInv, InProgress
<1>5. /\ inputs[current].ready = 0 /\ \A e \in Eyes : eye[e].out = inputs[current].frame
      /\ inputs[current].texture = inputs[current].frame
  BY <1>1, <1>2, <1>4 DEF EyesInv, InputCopies, Taken
<1>6. inputs[current].frame \in Numbers /\ outputs[target] \in OutputType
  BY <1>1, <1>4, SlotRecords
<1> DEFINE pair == [left |-> eye[0].out, right |-> eye[1].out, hud |-> inputs[current].texture]
<1>7. pair \in Picture /\ Whole(pair, inputs[current].frame)
  BY <1>5, <1>6 DEF Eyes, Picture, Whole
<1>8. /\ inputs' \in InputsType
      /\ \A j \in InputSlots :
           /\ inputs'[j].state = IF j = current THEN "empty" ELSE inputs[j].state
           /\ inputs'[j].frame = inputs[j].frame /\ inputs'[j].ready = inputs[j].ready
           /\ inputs'[j].reset = inputs[j].reset /\ inputs'[j].texture = inputs[j].texture
  <2>1. inputs \in InputsType /\ "empty" \in InputStates
    BY <1>1 DEF SlotTypes, InputStates
  <2>2. QED
    BY <1>2, <1>3, <1>4, <2>1, InputStateSet
<1>9. /\ outputs' \in OutputsType
      /\ \A p \in OutputSlots : p # target => outputs'[p] = outputs[p]
      /\ outputs'[target].state = "complete" /\ outputs'[target].frame = inputs[current].frame
      /\ outputs'[target].texture = pair
  <2>1. outputs' = [outputs EXCEPT ![target] =
            [outputs[target] EXCEPT !.texture = pair, !.frame = inputs[current].frame, !.state = "complete"]]
    BY <1>1, <1>2, <1>4 DEF SlotTypes, OutputsType
  <2>2. outputs \in OutputsType
    BY <1>1 DEF SlotTypes
  <2> HIDE DEF pair
  <2>3. [outputs[target] EXCEPT !.texture = pair, !.frame = inputs[current].frame, !.state = "complete"]
          \in OutputType
    <3>1. "complete" \in OutputStates
      BY DEF OutputStates
    <3>2. QED
      BY <1>6, <1>7, <3>1, OutputUpdates
  <2>4. QED
    BY <1>4, <1>6, <2>1, <2>2, <2>3 DEF OutputsType, OutputType
<1> HIDE DEF pair
<1>10. NeuralFlags'
  BY <1>1, <1>2 DEF NeuralFlags
<1>11. SlotTypes'
  BY <1>1, <1>2, <1>3, <1>8, <1>9 DEF SlotTypes
<1>12. WorkerTypes'
  <2>1. eye' \in EyesType
    BY <1>2, NeuralAssumption DEF EyesType, EyeType, IdleEye, Numbers
  <2>2. QED
    BY <1>1, <1>2, <1>3, <1>6, <2>1 DEF WorkerTypes, WorkerPlaces
<1>13. ListTypes'
  BY <1>1, <1>2, <1>3, <1>8 DEF ListTypes
<1>14. current # recorded
  BY <1>1, <1>4 DEF OneWaiting
<1>15. OneWaiting'
  <2>1. \A j \in InputSlots : inputs'[j].state \in {"recording", "queued", "working"} =>
            inputs'[j].state = inputs[j].state
    BY <1>8
  <2>2. \A j \in InputSlots : inputs'[j].state = "recording" <=> j = recorded
    BY <1>1, <1>8, <1>14 DEF OneWaiting
  <2>3. recorded # None => lastInput < inputs'[recorded].frame
    BY <1>1, <1>8 DEF OneWaiting, SlotTypes
  <2>4. \A i, j \in InputSlots : inputs'[i].state \in Waiting /\ inputs'[j].state \in Waiting => i = j
    BY <1>1, <2>1 DEF OneWaiting, Waiting
  <2>5. QED
    BY <1>1, <1>2, <1>3, <1>8, <2>1, <2>2, <2>3, <2>4 DEF OneWaiting
<1>16. WorkerInv'
  BY <1>2, <1>4 DEF WorkerInv, InProgress, SetupStages, DestroyedWhenRetired
<1>17. ResetsAreKept'
  <2>1. HistoryCoversAdmitted'
    BY <1>2 DEF HistoryCoversAdmitted
  <2>2. \A n \in unserved : deferred \/ \E i \in InputSlots : inputs[i].state \in Waiting /\ inputs[i].reset
    BY <1>1, <1>2 DEF ResetsAreKept
  <2>3. \A i \in InputSlots : inputs[i].state \in Waiting => inputs'[i].state \in Waiting
    BY <1>4, <1>8 DEF Waiting
  <2>4. \A n \in unserved : n <= IF recorded = None THEN lastInput ELSE inputs'[recorded].frame
    BY <1>1, <1>8 DEF ResetsAreKept, SlotTypes
  <2>5. QED
    BY <1>2, <1>3, <1>8, <2>1, <2>2, <2>3, <2>4 DEF ResetsAreKept
<1>18. InputCopies'
  <2>1. \A c \in ToSet(hostList) : c.op = "input" =>
           c.slot \in InputSlots /\ c.slot = recorded /\ c.frame = inputs'[c.slot].frame
    BY <1>1, <1>8 DEF InputCopies
  <2>2. \A k \in 1 .. Len(hostQueue) : \A c \in ToSet(hostQueue[k]) : c.op = "input" =>
           c.slot \in InputSlots /\ (inputs'[c.slot].state = "recording" \/ k <= inputs'[c.slot].ready)
    BY <1>1, <1>4, <1>8 DEF InputCopies
  <2>3. ASSUME NEW j \in InputSlots, Taken(j)'
        PROVE  IF inputs'[j].ready = 0 THEN inputs'[j].texture = inputs'[j].frame
               ELSE \E c \in ToSet(hostQueue[inputs'[j].ready]) :
                      c.op = "input" /\ c.slot = j /\ c.frame = inputs'[j].frame
    <3>1. Taken(j)
      BY <1>2, <1>8, <2>3 DEF Taken
    <3>2. QED
      BY <1>1, <1>8, <3>1 DEF InputCopies
  <2>4. recorded # None => \/ \E c \in ToSet(hostList) : c.op = "input"
                           \/ hostList = <<>> /\ phase = "failed"
    BY <1>1 DEF InputCopies
  <2>5. QED
    BY <1>2, <1>3, <2>1, <2>2, <2>3, <2>4 DEF InputCopies
<1>19. EyesInv'
  BY <1>2 DEF EyesInv, IdleEye
<1>20. OutputCopies'
  <2>1. target # display /\ \A p \in OutputSlots : outputs'[p].state = "displaying" <=> p = display
    BY <1>1, <1>4, <1>9 DEF OutputCopies
  <2>2. \A p \in OutputSlots : outputs'[p].state \in {"complete", "displaying", "retiring"} =>
           Whole(outputs'[p].texture, outputs'[p].frame)
    BY <1>1, <1>7, <1>9 DEF OutputCopies
  <2>3. \A c \in ToSet(hostList) : c.op = "display" =>
           displayRecorded /\ c.slot = display /\ Whole(outputs'[c.slot].texture, c.frame)
    <3>1. \A c \in ToSet(hostList) : c.slot \in OutputSlots
      BY <1>1, Members, SlotNumbers DEF ListTypes, Copy
    <3>2. QED
      BY <1>1, <1>9, <2>1, <3>1 DEF OutputCopies
  <2>4. ASSUME NEW k \in 1 .. Len(hostQueue), NEW c \in ToSet(hostQueue[k]), c.op = "display"
        PROVE  /\ Whole(outputs'[c.slot].texture, c.frame)
               /\ outputs'[c.slot].state \in {"displaying", "retiring"} \/ k <= outputs'[c.slot].retired
    <3>1. hostQueue[k] \in Lists
      BY <1>1, ElementOfSeq DEF ListTypes
    <3>2. c.slot \in OutputSlots
      BY <2>4, <3>1, Members, SlotNumbers DEF Copy
    <3>3. /\ Whole(outputs[c.slot].texture, c.frame)
          /\ outputs[c.slot].state \in {"displaying", "retiring"} \/ k <= outputs[c.slot].retired
      BY <1>1, <2>4 DEF OutputCopies
    <3>4. ~(k <= 0)
      BY <1>1, LenProperties DEF ListTypes
    <3>5. c.slot # target
      BY <1>2, <1>4, <3>3, <3>4
    <3>6. QED
      BY <1>9, <3>2, <3>3, <3>5
  <2>5. QED
    BY <1>2, <2>1, <2>2, <2>3, <2>4 DEF OutputCopies
<1>21. PairsAreWhole' = PairsAreWhole
  BY <1>2 DEF PairsAreWhole
<1>22. QED
  BY <1>1, <1>10, <1>11, <1>12, <1>13, <1>15, <1>16, <1>17, <1>18, <1>19, <1>20, <1>21,
     NeuralTypesPrimed DEF PipelineInv, NeuralTyped

-----------------------------------------------------------------------------
(* The neural pipeline: the render loop *)

\* The copies that are queued name slots.
LEMMA QueuedCopies ==
    ASSUME ListTypes, NEW k \in 1 .. Len(hostQueue), NEW c \in ToSet(hostQueue[k])
    PROVE  /\ c \in Copy /\ c.slot \in OutputSlots /\ hostQueue[k] \in Lists /\ k \in Int /\ k >= 1
           /\ Len(hostQueue) \in Nat
<1>1. hostQueue[k] \in Lists /\ Len(hostQueue) \in Nat
  BY ElementOfSeq, LenProperties DEF ListTypes
<1>2. QED
  BY <1>1, Members, SlotNumbers DEF Copy

\* RecordInput: the new frame is the newest, and takes over what a replaced input
\* still owed.
LEMMA RecordInputStep ==
    ASSUME PipelineInv, RecordInput
    PROVE  PipelineInv'
<1>1. /\ NeuralFlags /\ WorkerTypes /\ SlotTypes /\ ListTypes
      /\ OneWaiting /\ WorkerInv /\ EyesInv /\ InputCopies /\ OutputCopies /\ PairsAreWhole
      /\ ResetsAreKept
  BY NeuralTypesNamed DEF PipelineInv, NeuralTyped
<1>2. PICK n \in lastInput + 1 .. MaxInputs, mustReset \in BOOLEAN, i \in InputSlots :
        /\ SlotForInput(i)
        /\ inputs' = [inputs EXCEPT ![i].state = "recording", ![i].frame = n,
                        ![i].reset = (inputs[i].state = "queued" /\ inputs[i].reset) \/ mustReset]
        /\ recorded' = i /\ hostList' = Append(hostList, [op |-> "input", slot |-> i, frame |-> n])
        /\ unserved' = IF mustReset THEN unserved \cup {n} ELSE unserved
  BY DEF RecordInput, AdmissionResetReasons
<1>3. /\ fate = "alive" /\ phase = "running" /\ recorded = None
      /\ UNCHANGED <<prefetch, ageLimit, neuralFaults, phase, stopping, fate, outputs, display>>
      /\ UNCHANGED <<displayRecorded, lastInput, hostQueue, signalLost, displayed>>
      /\ UNCHANGED <<workerPc, current, target, resetNow, previous, deferred, eye, ownBusy>>
  BY DEF RecordInput, Steady, options, worker
<1>4. InputSlots' = InputSlots /\ InputsType' = InputsType
  BY <1>3 DEF InputSlots, InputsType
<1>5. /\ n \in Numbers /\ lastInput \in Int /\ n \in Int /\ lastInput < n /\ ~(n <= lastInput)
      /\ \A m \in Int : m <= lastInput => m < n /\ m <= n
  BY <1>1, NeuralAssumption DEF SlotTypes, Numbers
<1>6. inputs[i] \in InputType /\ inputs[i].state \in {"queued", "empty"}
  BY <1>1, <1>2, SlotRecords DEF SlotForInput
<1> DEFINE reset == (inputs[i].state = "queued" /\ inputs[i].reset) \/ mustReset
<1>7. reset \in BOOLEAN
  OBVIOUS
<1>8. mustReset => reset
  OBVIOUS
<1>9. inputs[i].state = "queued" /\ inputs[i].reset => reset
  OBVIOUS
<1>10. /\ inputs' \in InputsType
       /\ \A j \in InputSlots : j # i => inputs'[j] = inputs[j]
       /\ inputs'[i].state = "recording" /\ inputs'[i].frame = n /\ inputs'[i].reset = reset
       /\ inputs'[i].ready = inputs[i].ready /\ inputs'[i].texture = inputs[i].texture
  <2>1. inputs' = [inputs EXCEPT ![i] =
                     [inputs[i] EXCEPT !.state = "recording", !.frame = n, !.reset = reset]]
    BY <1>1, <1>2 DEF SlotTypes, InputsType
  <2>2. inputs \in InputsType
    BY <1>1 DEF SlotTypes
  <2> HIDE DEF reset
  <2>3. [inputs[i] EXCEPT !.state = "recording", !.frame = n, !.reset = reset] \in InputType
    <3>1. "recording" \in InputStates
      BY DEF InputStates
    <3>2. QED
      BY <1>5, <1>6, <1>7, <3>1, InputUpdates
  <2>4. QED
    BY <1>6, <2>1, <2>2, <2>3 DEF InputsType, InputType
<1> HIDE DEF reset
<1>11. /\ \A j \in InputSlots : inputs[j].state # "recording"
       /\ \A j \in InputSlots : inputs[j].state \in Waiting => j = i
  <2>1. \A j \in InputSlots : inputs[j].state # "recording"
    BY <1>1, <1>3, SlotNumbers DEF OneWaiting
  <2>2. CASE inputs[i].state = "queued"
    BY <1>1, <2>1, <2>2 DEF OneWaiting, Waiting
  <2>3. CASE inputs[i].state # "queued"
    BY <1>2, <2>1, <2>3 DEF SlotForInput, Waiting
  <2>4. QED
    BY <2>1, <2>2, <2>3
<1> DEFINE copy == [op |-> "input", slot |-> i, frame |-> n]
<1>12. /\ copy \in Copy /\ copy.op = "input" /\ copy.slot = i /\ copy.frame = n
       /\ hostList' = Append(hostList, copy)
  BY <1>2, <1>5, SlotNumbers DEF Copy
<1> HIDE DEF copy
<1>13. \A c \in ToSet(hostList) : c.op # "input"
  BY <1>1, <1>3, SlotNumbers DEF InputCopies
<1>14. /\ hostList' \in Lists /\ OncePerOp(hostList') /\ hostList' # <<>>
       /\ ToSet(hostList') = ToSet(hostList) \cup {copy}
  <2>1. hostList \in Lists /\ OncePerOp(hostList) /\ \A c \in ToSet(hostList) : c.op # copy.op
    BY <1>1, <1>12, <1>13 DEF ListTypes
  <2>2. QED
    BY <1>12, <2>1, RecordedCopy
<1>15. NeuralFlags'
  BY <1>1, <1>3 DEF NeuralFlags
<1>16. SlotTypes'
  BY <1>1, <1>2, <1>3, <1>4, <1>10 DEF SlotTypes
<1>17. WorkerTypes'
  <2>1. unserved' \in SUBSET Numbers
    BY <1>1, <1>2, <1>5 DEF WorkerTypes
  <2>2. QED
    BY <1>1, <1>3, <1>4, <2>1 DEF WorkerTypes
<1>18. ListTypes'
  <2>1. \A j \in InputSlots : inputs'[j].ready = inputs[j].ready
    BY <1>10
  <2>2. QED
    BY <1>1, <1>3, <1>4, <1>14, <2>1 DEF ListTypes
<1>19. OneWaiting'
  <2>1. \A j \in InputSlots : inputs'[j].state \in Waiting => j = i
    BY <1>10, <1>11
  <2>2. \A j \in InputSlots : inputs'[j].state = "recording" <=> j = i
    BY <1>10, <1>11
  <2>3. \A j \in InputSlots : inputs'[j].state = "queued" => FALSE
    BY <1>10, <2>1 DEF Waiting
  <2>4. \A j \in InputSlots : inputs'[j].state = "working" => inputs'[j].frame <= lastInput
    BY <1>1, <1>10 DEF OneWaiting
  <2>5. lastInput < inputs'[i].frame
    BY <1>5, <1>10
  <2>6. QED
    BY <1>2, <1>3, <1>4, <2>1, <2>2, <2>3, <2>4, <2>5 DEF OneWaiting
<1>20. current # None /\ inputs[current].state = "working" =>
          current \in InputSlots /\ current # i /\ inputs'[current] = inputs[current]
  BY <1>1, <1>6, <1>10 DEF WorkerTypes
<1>21. WorkerInv'
  BY <1>1, <1>3, <1>20 DEF WorkerInv, DestroyedWhenRetired
<1>22. ResetsAreKept'
  <2>1. \A m \in unserved : m \in Int /\ m <= lastInput
    BY <1>1, <1>3 DEF ResetsAreKept, WorkerTypes, Numbers
  <2>2. \A m \in unserved' : m <= IF recorded' = None THEN lastInput' ELSE inputs'[recorded'].frame
    <3>1. \A m \in unserved' : m <= n
      BY <1>2, <1>5, <2>1
    <3>2. recorded' # None /\ inputs'[recorded'].frame = n
      BY <1>2, <1>10, SlotNumbers
    <3>3. QED
      BY <3>1, <3>2
  <2>3. \A m \in unserved' : \/ m \in unserved
                             \/ m = n /\ reset
    BY <1>2, <1>8
  <2>4. reset => \E j \in InputSlots' : inputs'[j].state \in Waiting /\ inputs'[j].reset
    BY <1>4, <1>10 DEF Waiting
  <2>5. ASSUME NEW j \in InputSlots, inputs[j].state \in Waiting, inputs[j].reset PROVE reset
    <3>1. j = i
      BY <1>11, <2>5
    <3>2. inputs[i].state = "queued"
      BY <1>6, <2>5, <3>1 DEF Waiting
    <3>3. QED
      BY <1>9, <2>5, <3>1, <3>2
  <2>6. workerPc = "guides" => inputs'[current] = inputs[current] /\ inputs[current].frame <= lastInput
    BY <1>1, <1>20 DEF WorkerInv, InProgress, OneWaiting
  <2>7. ASSUME NEW m \in unserved
        PROVE  \/ deferred' \/ reset
               \/ workerPc' = "guides" /\ resetNow' /\ m <= inputs'[current'].frame
               \/ workerPc' = "over"
    <3>1. \/ deferred
          \/ \E j \in InputSlots : inputs[j].state \in Waiting /\ inputs[j].reset
          \/ workerPc = "guides" /\ resetNow /\ m <= inputs[current].frame
          \/ workerPc = "over"
      BY <1>1 DEF ResetsAreKept
    <3>2. QED
      BY <1>3, <2>5, <2>6, <3>1
  <2>8. HistoryCoversAdmitted'
    <3>1. ASSUME workerPc' = "guides", ~resetNow', NEW m \in unserved' PROVE m > inputs'[current'].frame
      <4>1. inputs'[current'] = inputs[current] /\ inputs[current].frame <= lastInput
        BY <1>3, <2>6, <3>1
      <4>2. CASE m \in unserved
        BY <1>1, <1>3, <3>1, <4>1, <4>2 DEF ResetsAreKept, HistoryCoversAdmitted
      <4>3. CASE m = n
        <5>1. inputs[current].frame \in Int
          BY <1>1, <1>3, <3>1, SlotRecords DEF WorkerInv, InProgress, WorkerTypes, Numbers
        <5>2. QED
          BY <1>5, <4>1, <4>3, <5>1
      <4>4. QED
        BY <2>3, <3>1, <4>2, <4>3
    <3>2. QED
      BY <3>1 DEF HistoryCoversAdmitted
  <2>9. \A m \in unserved' : \/ deferred'
                             \/ \E j \in InputSlots' : inputs'[j].state \in Waiting /\ inputs'[j].reset
                             \/ workerPc' = "guides" /\ resetNow' /\ m <= inputs'[current'].frame
                             \/ workerPc' = "over"
    BY <2>3, <2>4, <2>7
  <2>10. QED
    BY <2>2, <2>8, <2>9 DEF ResetsAreKept, Waiting
<1>23. InputCopies'
  <2>1. \A c \in ToSet(hostList') : c.op = "input" => c = copy
    BY <1>13, <1>14
  <2>2. copy \in ToSet(hostList')
    BY <1>14
  <2>3. \A k \in 1 .. Len(hostQueue) : \A c \in ToSet(hostQueue[k]) : c.op = "input" =>
           c.slot \in InputSlots /\ (inputs'[c.slot].state = "recording" \/ k <= inputs'[c.slot].ready)
    BY <1>1, <1>10, <1>11 DEF InputCopies
  <2>4. ASSUME NEW j \in InputSlots, Taken(j)'
        PROVE  IF inputs'[j].ready = 0 THEN inputs'[j].texture = inputs'[j].frame
               ELSE \E c \in ToSet(hostQueue[inputs'[j].ready]) :
                      c.op = "input" /\ c.slot = j /\ c.frame = inputs'[j].frame
    <3>1. phase' = phase /\ inputs'[j].state \in {"queued", "working"}
      BY <1>3, <2>4 DEF Taken
    <3>2. inputs'[j] = inputs[j]
      BY <1>10, <3>1
    <3>3. Taken(j)
      BY <2>4, <3>1, <3>2 DEF Taken
    <3>4. QED
      BY <1>1, <3>2, <3>3 DEF InputCopies
  <2>5. QED
    BY <1>2, <1>3, <1>4, <1>10, <1>12, <2>1, <2>2, <2>3, <2>4 DEF InputCopies
<1>24. EyesInv'
  <2>1. workerPc \in {"evaluate", "pick", "compose"} => inputs'[current] = inputs[current]
    BY <1>1, <1>20 DEF WorkerInv, InProgress
  <2>2. QED
    BY <1>1, <1>3, <2>1 DEF EyesInv
<1>25. OutputCopies'
  <2>1. \A c \in ToSet(hostList') : c.op = "display" => c \in ToSet(hostList)
    BY <1>12, <1>14
  <2>2. QED
    BY <1>1, <1>3, <2>1 DEF OutputCopies
<1>26. PairsAreWhole' = PairsAreWhole
  BY <1>3 DEF PairsAreWhole
<1>27. QED
  BY <1>1, <1>15, <1>16, <1>17, <1>18, <1>19, <1>21, <1>22, <1>23, <1>24, <1>25, <1>26,
     NeuralTypesPrimed DEF PipelineInv, NeuralTyped

Displays(o) ==
    [p \in OutputSlots |->
        CASE p = o -> [outputs[p] EXCEPT !.state = "displaying"]
          [] p # o /\ outputs[p].state = "complete" -> [outputs[p] EXCEPT !.state = "empty"]
          [] p # o /\ p = display -> [outputs[p] EXCEPT !.state = "retiring"]
          [] OTHER -> outputs[p]]

\* What becomes of the pairs when one is displayed.
Redisplays ==
    /\ outputs' \in OutputsType /\ display' \in OutputSlots
    /\ \A p \in OutputSlots :
         /\ outputs'[p].frame = outputs[p].frame /\ outputs'[p].retired = outputs[p].retired
         /\ outputs'[p].texture = outputs[p].texture
         /\ outputs'[p].state = "displaying" <=> p = display'
         /\ outputs'[p].state = "displaying" => outputs[p].state \in {"complete", "displaying"}
         /\ outputs'[p].state = "complete" => outputs[p].state = "complete"
         /\ outputs'[p].state = "retiring" => outputs[p].state \in {"retiring", "displaying"}
         /\ outputs[p].state = "working" => outputs'[p].state = "working"
         /\ outputs[p].state \in {"displaying", "retiring"} =>
              outputs'[p].state \in {"displaying", "retiring"}

\* RecordDisplay: at most one copy of a pair a submission; the pair displayed until now
\* retires with it.
LEMMA RecordDisplayStep ==
    ASSUME PipelineInv, RecordDisplay
    PROVE  PipelineInv'
<1>1. /\ NeuralFlags /\ WorkerTypes /\ SlotTypes /\ ListTypes
      /\ OneWaiting /\ WorkerInv /\ EyesInv /\ InputCopies /\ OutputCopies /\ PairsAreWhole
      /\ ResetsAreKept
  BY NeuralTypesNamed DEF PipelineInv, NeuralTyped
<1>2. /\ fate = "alive" /\ phase = "running" /\ ~displayRecorded
      /\ UNCHANGED <<prefetch, ageLimit, neuralFaults, phase, stopping, fate, inputs, recorded>>
      /\ UNCHANGED <<lastInput, hostQueue, signalLost, unserved, displayed>>
      /\ UNCHANGED <<workerPc, current, target, resetNow, previous, deferred, eye, ownBusy>>
  BY DEF RecordDisplay, MayRecordDisplay, Steady, options, worker
<1>3. InputSlots' = InputSlots /\ InputsType' = InputsType
  BY <1>2 DEF InputSlots, InputsType
<1>4. \A o \in OutputSlots : outputs[o] \in OutputType /\ outputs[o].state \in OutputStates
  BY <1>1, SlotRecords
<1>5. Redisplays
  <2>1. CASE display # None /\ UNCHANGED <<display, outputs>>
    BY <1>1, <2>1 DEF SlotTypes, OutputCopies, Redisplays
  <2>2. ASSUME NEW o \in OutputSlots, NewestComplete(o), display' = o,
               outputs' = Displays(o)
        PROVE  Redisplays
    <3>1. outputs[o].state = "complete"
      BY <2>2 DEF NewestComplete
    <3>2. \A p \in OutputSlots : outputs[p].state = "displaying" <=> p = display
      BY <1>1 DEF OutputCopies
    <3>3. ASSUME NEW p \in OutputSlots
          PROVE  \E s \in OutputStates :
                   /\ outputs'[p] = [outputs[p] EXCEPT !.state = s]
                   /\ p = o => s = "displaying"
                   /\ p # o /\ outputs[p].state = "complete" => s = "empty"
                   /\ p # o /\ outputs[p].state = "displaying" => s = "retiring"
                   /\ p # o /\ outputs[p].state \notin {"complete", "displaying"} => s = outputs[p].state
      <4>1. CASE p = o
        BY <2>2, <4>1 DEF OutputStates, Displays
      <4>2. CASE p # o /\ outputs[p].state = "complete"
        BY <2>2, <3>2, <4>2 DEF OutputStates, Displays
      <4>3. CASE p # o /\ outputs[p].state = "displaying"
        BY <2>2, <3>2, <4>3 DEF OutputStates, Displays
      <4>4. CASE p # o /\ outputs[p].state \notin {"complete", "displaying"}
        <5>1. outputs'[p] = outputs[p]
          BY <2>2, <3>2, <4>4 DEF Displays
        <5>2. outputs[p] = [outputs[p] EXCEPT !.state = outputs[p].state]
          BY <1>4 DEF OutputType
        <5>3. QED
          BY <1>4, <4>4, <5>1, <5>2
      <4>5. QED
        BY <4>1, <4>2, <4>3, <4>4
    <3>4. ASSUME NEW p \in OutputSlots, NEW s \in OutputStates,
                 outputs'[p] = [outputs[p] EXCEPT !.state = s]
          PROVE  /\ outputs'[p] \in OutputType /\ outputs'[p].state = s
                 /\ outputs'[p].frame = outputs[p].frame /\ outputs'[p].retired = outputs[p].retired
                 /\ outputs'[p].texture = outputs[p].texture
      BY <1>4, <3>4 DEF OutputType
    <3>5. \A p \in OutputSlots : outputs'[p] \in OutputType
      <4>1. TAKE p \in OutputSlots
      <4>2. PICK s \in OutputStates : outputs'[p] = [outputs[p] EXCEPT !.state = s]
        BY <3>3
      <4>3. QED
        BY <3>4, <4>2
    <3>6. outputs' \in OutputsType
      <4>1. outputs' = [p \in OutputSlots |-> outputs'[p]]
        BY <2>2 DEF Displays
      <4>2. QED
        BY <3>5, <4>1 DEF OutputsType
    <3>7. ASSUME NEW p \in OutputSlots
          PROVE  /\ outputs'[p].frame = outputs[p].frame /\ outputs'[p].retired = outputs[p].retired
                 /\ outputs'[p].texture = outputs[p].texture
                 /\ outputs'[p].state = "displaying" <=> p = display'
                 /\ outputs'[p].state = "displaying" => outputs[p].state \in {"complete", "displaying"}
                 /\ outputs'[p].state = "complete" => outputs[p].state = "complete"
                 /\ outputs'[p].state = "retiring" => outputs[p].state \in {"retiring", "displaying"}
                 /\ outputs[p].state = "working" => outputs'[p].state = "working"
                 /\ outputs[p].state \in {"displaying", "retiring"} =>
                      outputs'[p].state \in {"displaying", "retiring"}
      <4>1. PICK s \in OutputStates :
                   /\ outputs'[p] = [outputs[p] EXCEPT !.state = s]
                   /\ p = o => s = "displaying"
                   /\ p # o /\ outputs[p].state = "complete" => s = "empty"
                   /\ p # o /\ outputs[p].state = "displaying" => s = "retiring"
                   /\ p # o /\ outputs[p].state \notin {"complete", "displaying"} => s = outputs[p].state
        BY <3>3
      <4>2. /\ outputs'[p].state = s
            /\ outputs'[p].frame = outputs[p].frame /\ outputs'[p].retired = outputs[p].retired
            /\ outputs'[p].texture = outputs[p].texture
        BY <3>4, <4>1
      <4>3. QED
        BY <2>2, <3>1, <4>1, <4>2
    <3>8. QED
      BY <2>2, <3>6, <3>7 DEF Redisplays
  <2>3. \/ display # None /\ UNCHANGED <<display, outputs>>
        \/ \E o \in OutputSlots :
             /\ NewestComplete(o) /\ display' = o
             /\ outputs' = Displays(o)
    BY DEF RecordDisplay, Displays
  <2>4. QED
    BY <2>1, <2>2, <2>3
<1> USE DEF Redisplays
<1> DEFINE copy == [op |-> "display", slot |-> display', frame |-> outputs[display'].frame]
<1>6. \/ displayRecorded' = TRUE /\ hostList' = Append(hostList, copy)
      \/ displayRecorded' = displayRecorded /\ hostList' = hostList
  BY DEF RecordDisplay
<1>7. /\ copy \in Copy /\ copy.op = "display" /\ copy.slot = display'
      /\ copy.frame = outputs[display'].frame
  BY <1>1, <1>5, SlotNumbers, SlotRecords DEF Copy
<1> HIDE DEF copy
<1>8. \A c \in ToSet(hostList) : c.op # "display"
  BY <1>1, <1>2 DEF OutputCopies
<1>9. /\ hostList' \in Lists /\ OncePerOp(hostList')
      /\ \/ ToSet(hostList') = ToSet(hostList) /\ hostList' = hostList
         \/ ToSet(hostList') = ToSet(hostList) \cup {copy} /\ displayRecorded'
  <2>1. hostList \in Lists /\ OncePerOp(hostList) /\ \A c \in ToSet(hostList) : c.op # copy.op
    BY <1>1, <1>7, <1>8 DEF ListTypes
  <2>2. QED
    BY <1>6, <1>7, <2>1, RecordedCopy
<1>10. displayRecorded' \in BOOLEAN
  BY <1>1, <1>6 DEF NeuralFlags
<1>11. NeuralFlags'
  BY <1>1, <1>2, <1>10 DEF NeuralFlags
<1>12. SlotTypes'
  BY <1>1, <1>2, <1>3, <1>5 DEF SlotTypes
<1>13. WorkerTypes'
  BY <1>1, <1>2, <1>3 DEF WorkerTypes
<1>14. ListTypes'
  BY <1>1, <1>2, <1>3, <1>9 DEF ListTypes
<1>15. OneWaiting' = OneWaiting /\ ResetsAreKept' = ResetsAreKept /\ PairsAreWhole' = PairsAreWhole
       /\ EyesInv' = EyesInv
  BY <1>2, <1>3 DEF OneWaiting, ResetsAreKept, HistoryCoversAdmitted, PairsAreWhole, EyesInv
<1>16. WorkerInv'
  <2>1. workerPc = "compose" => target \in OutputSlots /\ outputs'[target].state = "working"
    BY <1>1, <1>5 DEF WorkerInv, WorkerTypes
  <2>2. QED
    BY <1>1, <1>2, <2>1 DEF WorkerInv, DestroyedWhenRetired
<1>17. InputCopies'
  <2>1. /\ \A c \in ToSet(hostList') : c.op = "input" => c \in ToSet(hostList)
        /\ \A c \in ToSet(hostList) : c \in ToSet(hostList')
    BY <1>7, <1>9
  <2>2. recorded # None => \E c \in ToSet(hostList') : c.op = "input"
    BY <1>1, <1>2, <2>1 DEF InputCopies
  <2>3. QED
    BY <1>1, <1>2, <1>3, <2>1, <2>2 DEF InputCopies, Taken
<1>18. OutputCopies'
  <2>1. \A p \in OutputSlots : outputs'[p].state \in {"complete", "displaying", "retiring"} =>
           Whole(outputs'[p].texture, outputs'[p].frame)
    BY <1>1, <1>5 DEF OutputCopies
  <2>2. ASSUME NEW c \in ToSet(hostList'), c.op = "display"
        PROVE  displayRecorded' /\ c.slot = display' /\ Whole(outputs'[c.slot].texture, c.frame)
    <3>1. c = copy /\ displayRecorded'
      BY <1>8, <1>9, <2>2
    <3>2. outputs'[display'].state = "displaying" /\ outputs'[display'].frame = outputs[display'].frame
      BY <1>5
    <3>3. QED
      BY <1>5, <1>7, <2>1, <3>1, <3>2
  <2>3. ASSUME NEW k \in 1 .. Len(hostQueue), NEW c \in ToSet(hostQueue[k]), c.op = "display"
        PROVE  /\ Whole(outputs'[c.slot].texture, c.frame)
               /\ outputs'[c.slot].state \in {"displaying", "retiring"} \/ k <= outputs'[c.slot].retired
    <3>1. c.slot \in OutputSlots
      BY <1>1, QueuedCopies
    <3>2. /\ Whole(outputs[c.slot].texture, c.frame)
          /\ outputs[c.slot].state \in {"displaying", "retiring"} \/ k <= outputs[c.slot].retired
      BY <1>1, <2>3 DEF OutputCopies
    <3>3. QED
      BY <1>5, <3>1, <3>2
  <2>4. \A p \in OutputSlots : outputs'[p].state = "displaying" <=> p = display'
    BY <1>5
  <2>5. QED
    BY <1>2, <2>1, <2>2, <2>3, <2>4 DEF OutputCopies
<1>19. QED
  BY <1>1, <1>11, <1>12, <1>13, <1>14, <1>15, <1>16, <1>17, <1>18, NeuralTypesPrimed
  DEF PipelineInv, NeuralTyped

\* What a successful SubmitRecordedInput writes into its books.
LEMMA SubmittedSlots ==
    ASSUME SlotTypes, InputSlots' = InputSlots, NEW d \in Distances,
           inputs' = [i \in InputSlots |-> IF i = recorded
              THEN [inputs[i] EXCEPT !.state = "queued", !.ready = d] ELSE inputs[i]],
           outputs' = [o \in OutputSlots |-> IF outputs[o].state = "retiring"
              THEN [outputs[o] EXCEPT !.state = "empty", !.retired = d] ELSE outputs[o]]
    PROVE  /\ inputs' \in InputsType /\ outputs' \in OutputsType
           /\ \A i \in InputSlots : i # recorded => inputs'[i] = inputs[i]
           /\ recorded # None =>
                /\ inputs'[recorded].state = "queued" /\ inputs'[recorded].ready = d
                /\ inputs'[recorded].frame = inputs[recorded].frame
                /\ inputs'[recorded].reset = inputs[recorded].reset
           /\ \A o \in OutputSlots :
                /\ outputs[o].state # "retiring" => outputs'[o] = outputs[o]
                /\ outputs[o].state = "retiring" =>
                     /\ outputs'[o].state = "empty" /\ outputs'[o].retired = d
                     /\ outputs'[o].texture = outputs[o].texture
<1>1. /\ \A i \in InputSlots : inputs[i] \in InputType
      /\ \A o \in OutputSlots : outputs[o] \in OutputType
  BY SlotRecords
<1>2. "queued" \in InputStates /\ "empty" \in OutputStates
  BY DEF InputStates, OutputStates
<1>3. \A i \in InputSlots : inputs'[i] =
        IF i = recorded THEN [inputs[i] EXCEPT !.state = "queued", !.ready = d] ELSE inputs[i]
  OBVIOUS
<1>4. \A o \in OutputSlots : outputs'[o] =
        IF outputs[o].state = "retiring" THEN [outputs[o] EXCEPT !.state = "empty", !.retired = d]
                                         ELSE outputs[o]
  OBVIOUS
<1>5. \A i \in InputSlots : inputs'[i] \in InputType
  BY <1>1, <1>2, <1>3, InputUpdates
<1>6. \A o \in OutputSlots : outputs'[o] \in OutputType
  BY <1>1, <1>2, <1>4, OutputUpdates
<1>7. inputs' = [i \in InputSlots |-> inputs'[i]] /\ outputs' = [o \in OutputSlots |-> outputs'[o]]
  OBVIOUS
<1>8. inputs' \in InputsType /\ outputs' \in OutputsType
  <2>1. inputs' \in [InputSlots -> InputType]
    BY <1>5, <1>7
  <2>2. outputs' \in [OutputSlots -> OutputType]
    BY <1>6, <1>7
  <2>3. QED
    BY <2>1, <2>2 DEF InputsType, OutputsType
<1>9. recorded # None => recorded \in InputSlots
  BY DEF SlotTypes
<1>10. recorded # None =>
         /\ inputs'[recorded].state = "queued" /\ inputs'[recorded].ready = d
         /\ inputs'[recorded].frame = inputs[recorded].frame
         /\ inputs'[recorded].reset = inputs[recorded].reset
  BY <1>1, <1>3, <1>9 DEF InputType
<1>11. \A o \in OutputSlots :
         /\ outputs[o].state # "retiring" => outputs'[o] = outputs[o]
         /\ outputs[o].state = "retiring" =>
              /\ outputs'[o].state = "empty" /\ outputs'[o].retired = d
              /\ outputs'[o].texture = outputs[o].texture
  BY <1>1, <1>4 DEF OutputType
<1>12. QED
  BY <1>3, <1>8, <1>10, <1>11

\* ExecuteCommandLists and SubmitRecordedInput: the copies are queued, and the slots
\* they name are theirs until the fence passes.
LEMMA SubmitStep ==
    ASSUME PipelineInv, SubmitRecordedInput
    PROVE  PipelineInv'
<1>1. /\ NeuralFlags /\ WorkerTypes /\ SlotTypes /\ ListTypes
      /\ OneWaiting /\ WorkerInv /\ EyesInv /\ InputCopies /\ OutputCopies /\ PairsAreWhole
      /\ ResetsAreKept
  BY NeuralTypesNamed DEF PipelineInv, NeuralTyped
<1>2. /\ fate = "alive" /\ phase # "starting" /\ Len(hostQueue) < MaxOutstanding
      /\ hostQueue' = Append(hostQueue, hostList) /\ hostList' = <<>>
      /\ UNCHANGED <<prefetch, ageLimit, stopping, fate, display, unserved, displayed>>
      /\ UNCHANGED <<workerPc, current, target, resetNow, previous, deferred, eye, ownBusy>>
  BY DEF SubmitRecordedInput, options, worker
<1>3. InputSlots' = InputSlots /\ InputsType' = InputsType
  BY <1>2 DEF InputSlots, InputsType
<1> DEFINE d == Len(hostQueue) + 1
<1>4. /\ Len(hostQueue) \in Nat /\ Len(hostQueue') = d /\ d \in Distances /\ d # 0
      /\ hostQueue' \in Seq(Lists)
      /\ \A k \in 1 .. Len(hostQueue) : hostQueue'[k] = hostQueue[k] /\ k <= d
      /\ hostQueue'[d] = hostList
      /\ \A k \in 1 .. Len(hostQueue') : k \in 1 .. Len(hostQueue) \/ k = d
      /\ d <= MaxOutstanding
  <2>1. /\ hostQueue \in Seq(Lists) /\ hostList \in Lists
    BY <1>1 DEF ListTypes
  <2>2. /\ Append(hostQueue, hostList) \in Seq(Lists) /\ Len(hostQueue) \in Nat
        /\ Len(Append(hostQueue, hostList)) = Len(hostQueue) + 1
        /\ \A k \in 1 .. Len(hostQueue) : Append(hostQueue, hostList)[k] = hostQueue[k]
        /\ Append(hostQueue, hostList)[Len(hostQueue) + 1] = hostList
        /\ \A k \in 1 .. Len(hostQueue) + 1 : k \in 1 .. Len(hostQueue) \/ k = Len(hostQueue) + 1
    BY <2>1, Queued
  <2>3. d \in Distances /\ d # 0 /\ d <= MaxOutstanding /\ \A k \in 1 .. Len(hostQueue) : k <= d
    BY <1>2, <2>2, NeuralAssumption DEF Distances
  <2>4. QED
    BY <1>2, <2>2, <2>3
<1> HIDE DEF d
<1>5. \A i \in InputSlots : inputs[i].ready <= Len(hostQueue) /\ inputs[i].ready \in Nat
                            /\ inputs[i].ready <= d
  <2>1. \A i \in InputSlots : inputs[i].ready <= Len(hostQueue) /\ inputs[i].ready \in Nat
    BY <1>1, SlotRecords DEF ListTypes, Distances
  <2>2. QED
    BY <1>4, <2>1 DEF d
<1>6. recorded # None =>
        /\ recorded \in InputSlots /\ inputs[recorded].state = "recording"
        /\ phase # "failed" => \E c \in ToSet(hostList) : c.op = "input"
  BY <1>1, <1>2 DEF SlotTypes, OneWaiting, InputCopies
<1>7. ListTypes'
  <2>1. \A i \in InputSlots : inputs'[i].ready <= d
    <3>1. CASE inputs' = inputs
      BY <1>5, <3>1
    <3>2. CASE inputs' = [i \in InputSlots |-> IF i = recorded
              THEN [inputs[i] EXCEPT !.state = "queued", !.ready = d] ELSE inputs[i]]
      <4>1. \A i \in InputSlots : inputs[i] \in InputType /\ d <= d
        BY <1>1, <1>4, SlotRecords DEF Distances
      <4>2. QED
        BY <1>5, <3>2, <4>1 DEF InputType
    <3>3. QED
      BY <1>4, <3>1, <3>2 DEF SubmitRecordedInput
  <2>2. \A k \in 1 .. Len(hostQueue') : OncePerOp(hostQueue'[k])
    BY <1>1, <1>4 DEF ListTypes
  <2>3. hostList' \in Lists /\ OncePerOp(hostList')
    BY <1>2, NoCopies
  <2>4. QED
    BY <1>3, <1>4, <2>1, <2>2, <2>3 DEF ListTypes
<1>8. WorkerTypes' = WorkerTypes /\ PairsAreWhole' = PairsAreWhole
  BY <1>2, <1>3 DEF WorkerTypes, PairsAreWhole
<1>9. \A c \in ToSet(hostList') : FALSE
  BY <1>2, NoCopies
<1>10. \A k \in 1 .. Len(hostQueue') : \A c \in ToSet(hostQueue'[k]) :
          \/ k \in 1 .. Len(hostQueue) /\ c \in ToSet(hostQueue[k])
          \/ k = d /\ c \in ToSet(hostList)
  BY <1>4
<1>11. \A k \in 1 .. Len(hostQueue) : \A c \in ToSet(hostQueue[k]) : c.slot \in OutputSlots /\ k <= d
  BY <1>1, <1>4, QueuedCopies
<1>12. \A c \in ToSet(hostList) : c.slot \in OutputSlots /\ d <= d
  BY <1>1, <1>4, Members, SlotNumbers DEF ListTypes, Copy, Distances
<1>13. CASE /\ NeuralFault /\ phase' = "failed" /\ signalLost' = TRUE
            /\ UNCHANGED <<inputs, outputs, recorded, displayRecorded, lastInput>>
  <2>1. NeuralFlags'
    <3>1. neuralFaults' \in NeuralFaults
      BY <1>1, <1>13, NeuralFaultsBounded DEF NeuralFlags
    <3>2. QED
      BY <1>1, <1>2, <1>13, <3>1 DEF NeuralFlags
  <2>2. SlotTypes'
    BY <1>1, <1>2, <1>3, <1>13 DEF SlotTypes
  <2>3. OneWaiting' = OneWaiting /\ ResetsAreKept' = ResetsAreKept /\ EyesInv' = EyesInv
    BY <1>2, <1>3, <1>13 DEF OneWaiting, ResetsAreKept, HistoryCoversAdmitted, EyesInv
  <2>4. WorkerInv'
    BY <1>1, <1>2, <1>13 DEF WorkerInv, DestroyedWhenRetired
  <2>5. InputCopies'
    <3>1. recorded' # None => hostList' = <<>> /\ phase' = "failed"
      BY <1>2, <1>13
    <3>2. \A k \in 1 .. Len(hostQueue') : \A c \in ToSet(hostQueue'[k]) : c.op = "input" =>
             c.slot \in InputSlots /\ (inputs[c.slot].state = "recording" \/ k <= inputs[c.slot].ready)
      BY <1>1, <1>6, <1>10, SlotNumbers DEF InputCopies
    <3>3. ASSUME NEW i \in InputSlots, Taken(i)'
          PROVE  IF inputs[i].ready = 0 THEN inputs[i].texture = inputs[i].frame
                 ELSE \E c \in ToSet(hostQueue'[inputs[i].ready]) :
                        c.op = "input" /\ c.slot = i /\ c.frame = inputs[i].frame
      <4>1. inputs[i].ready # 0 => inputs[i].ready \in 1 .. Len(hostQueue)
        BY <1>4, <1>5
      <4>2. inputs[i].ready # 0 => hostQueue'[inputs[i].ready] = hostQueue[inputs[i].ready]
        BY <1>4, <4>1
      <4>3. QED
        BY <1>1, <1>13, <3>3, <4>2 DEF InputCopies, Taken
    <3>4. QED
      BY <1>3, <1>9, <1>13, <3>1, <3>2, <3>3 DEF InputCopies
  <2>6. OutputCopies'
    <3>1. \A k \in 1 .. Len(hostQueue') : \A c \in ToSet(hostQueue'[k]) : c.op = "display" =>
             /\ Whole(outputs[c.slot].texture, c.frame)
             /\ outputs[c.slot].state \in {"displaying", "retiring"} \/ k <= outputs[c.slot].retired
      BY <1>1, <1>10, <1>12 DEF OutputCopies
    <3>2. QED
      BY <1>1, <1>2, <1>9, <1>13, <3>1 DEF OutputCopies
  <2>7. QED
    BY <1>1, <1>7, <1>8, <2>1, <2>2, <2>3, <2>4, <2>5, <2>6, NeuralTypesPrimed
    DEF PipelineInv, NeuralTyped
<1>14. CASE /\ inputs' = [i \in InputSlots |-> IF i = recorded
                 THEN [inputs[i] EXCEPT !.state = "queued", !.ready = d] ELSE inputs[i]]
            /\ lastInput' = IF recorded = None THEN lastInput ELSE inputs[recorded].frame
            /\ outputs' = [o \in OutputSlots |-> IF outputs[o].state = "retiring"
                 THEN [outputs[o] EXCEPT !.state = "empty", !.retired = d] ELSE outputs[o]]
            /\ recorded' = None /\ displayRecorded' = FALSE
            /\ UNCHANGED <<phase, signalLost, neuralFaults>>
  <2>1. /\ inputs' \in InputsType /\ outputs' \in OutputsType
        /\ \A i \in InputSlots : i # recorded => inputs'[i] = inputs[i]
        /\ recorded # None =>
             /\ inputs'[recorded].state = "queued" /\ inputs'[recorded].ready = d
             /\ inputs'[recorded].frame = inputs[recorded].frame
             /\ inputs'[recorded].reset = inputs[recorded].reset
        /\ \A o \in OutputSlots :
             /\ outputs[o].state # "retiring" => outputs'[o] = outputs[o]
             /\ outputs[o].state = "retiring" =>
                  /\ outputs'[o].state = "empty" /\ outputs'[o].retired = d
                  /\ outputs'[o].texture = outputs[o].texture
    BY <1>1, <1>3, <1>4, <1>14, SubmittedSlots
  <2>2. \A i \in InputSlots : inputs'[i].frame = inputs[i].frame /\ inputs'[i].reset = inputs[i].reset
    BY <2>1, SlotNumbers
  <2>3. /\ lastInput' \in Numbers /\ recorded' = None /\ recorded' \notin InputSlots
        /\ recorded # None => lastInput < lastInput'
        /\ recorded = None => lastInput' = lastInput
    BY <1>1, <1>6, <1>14, SlotRecords, SlotNumbers DEF SlotTypes, OneWaiting
  <2>4. NeuralFlags'
    BY <1>1, <1>2, <1>14 DEF NeuralFlags
  <2>5. SlotTypes'
    BY <1>1, <1>2, <1>3, <2>1, <2>3 DEF SlotTypes
  <2>6. /\ \A i \in InputSlots : inputs'[i].state \in Waiting <=> inputs[i].state \in Waiting
        /\ \A i \in InputSlots : inputs'[i].state # "recording"
    <3>1. ASSUME NEW i \in InputSlots, i = recorded
          PROVE  inputs[i].state = "recording" /\ inputs'[i].state = "queued"
      BY <1>6, <2>1, <3>1, SlotNumbers
    <3>2. ASSUME NEW i \in InputSlots, i # recorded
          PROVE  inputs[i].state # "recording" /\ inputs'[i] = inputs[i]
      BY <1>1, <2>1, <3>2 DEF OneWaiting
    <3>3. QED
      BY <3>1, <3>2 DEF Waiting
  <2>7. OneWaiting'
    <3>1. \A i \in InputSlots : inputs[i].frame \in Int /\ lastInput \in Int /\ lastInput' \in Int
      BY <1>1, <2>3, SlotRecords DEF SlotTypes, Numbers
    <3>2. \A i \in InputSlots : inputs'[i].state \in {"queued", "working"} => inputs'[i].frame <= lastInput'
      <4>1. ASSUME NEW i \in InputSlots, inputs'[i].state \in {"queued", "working"}, i # recorded
            PROVE  inputs[i].frame <= lastInput'
        <5>1. inputs[i].frame <= lastInput
          BY <1>1, <2>1, <4>1 DEF OneWaiting
        <5>2. lastInput <= lastInput'
          BY <2>3, <3>1
        <5>3. QED
          BY <3>1, <5>1, <5>2
      <4>2. recorded # None => inputs[recorded].frame <= lastInput'
        <5>1. recorded # None => inputs[recorded].frame = lastInput' /\ recorded \in InputSlots
          BY <1>6, <1>14
        <5>2. QED
          BY <3>1, <5>1
      <4>3. QED
        <5>1. ASSUME NEW i \in InputSlots, inputs'[i].state \in {"queued", "working"}
              PROVE  inputs[i].frame <= lastInput'
          <6>1. i = recorded => recorded # None
            BY SlotNumbers
          <6>2. QED
            BY <4>1, <4>2, <5>1, <6>1
        <5>2. QED
          BY <2>2, <5>1
    <3>3. ASSUME NEW i \in InputSlots, inputs'[i].state = "queued" PROVE inputs'[i].frame = lastInput'
      <4>1. inputs[i].state \in Waiting
        BY <2>6, <3>3 DEF Waiting
      <4>2. CASE recorded = None
        <5>1. inputs'[i] = inputs[i]
          BY <2>1, <4>2, SlotNumbers
        <5>2. QED
          BY <1>1, <2>3, <3>3, <4>2, <5>1 DEF OneWaiting
      <4>3. CASE recorded # None
        <5>1. i = recorded
          BY <1>1, <1>6, <4>1, <4>3 DEF OneWaiting, Waiting
        <5>2. QED
          BY <1>14, <2>2, <4>3, <5>1
      <4>4. QED
        BY <4>2, <4>3
    <3>4. \A i, j \in InputSlots : inputs'[i].state \in Waiting /\ inputs'[j].state \in Waiting => i = j
      BY <1>1, <2>6 DEF OneWaiting
    <3>5. \A i \in InputSlots : inputs'[i].state = "recording" <=> i = recorded'
      BY <2>3, <2>6
    <3>6. QED
      BY <1>3, <2>3, <3>2, <3>3, <3>4, <3>5 DEF OneWaiting
  <2>8. \A i \in InputSlots : inputs[i].state = "working" => inputs'[i] = inputs[i]
    <3>1. \A i \in InputSlots : i = recorded => inputs[i].state = "recording"
      BY <1>1 DEF OneWaiting
    <3>2. QED
      BY <2>1, <3>1
  <2>9. current # None => current \in InputSlots
    BY <1>1 DEF WorkerTypes
  <2>10. WorkerInv'
    <3>1. workerPc \in InProgress => current # None /\ inputs'[current].state = "working"
      BY <1>1, <2>8, <2>9 DEF WorkerInv
    <3>2. workerPc = "compose" => target # None /\ outputs'[target].state = "working"
      BY <1>1, <2>1 DEF WorkerInv, WorkerTypes
    <3>3. QED
      BY <1>1, <1>2, <1>14, <3>1, <3>2 DEF WorkerInv, DestroyedWhenRetired
  <2>11. ResetsAreKept'
    <3>1. \A n \in unserved : n <= lastInput'
      BY <1>1, <1>14 DEF ResetsAreKept
    <3>2. workerPc = "guides" => inputs'[current] = inputs[current]
      BY <1>1, <2>8, <2>9 DEF WorkerInv, InProgress
    <3>3. HistoryCoversAdmitted'
      BY <1>1, <1>2, <3>2 DEF ResetsAreKept, HistoryCoversAdmitted
    <3>4. \A n \in unserved : \/ deferred
                              \/ \E i \in InputSlots : inputs'[i].state \in Waiting /\ inputs'[i].reset
                              \/ workerPc = "guides" /\ resetNow /\ n <= inputs'[current].frame
                              \/ workerPc = "over"
      BY <1>1, <2>2, <2>6, <3>2 DEF ResetsAreKept
    <3>5. QED
      BY <1>2, <1>3, <2>3, <3>1, <3>3, <3>4 DEF ResetsAreKept, Waiting
  <2>12. EyesInv'
    <3>1. workerPc \in {"evaluate", "pick", "compose"} => inputs'[current] = inputs[current]
      BY <1>1, <2>8, <2>9 DEF WorkerInv, InProgress
    <3>2. QED
      BY <1>1, <1>2, <3>1 DEF EyesInv
  <2>13. InputCopies'
    <3>1. ASSUME NEW k \in 1 .. Len(hostQueue'), NEW c \in ToSet(hostQueue'[k]), c.op = "input"
          PROVE  c.slot \in InputSlots /\ k <= inputs'[c.slot].ready
      <4>1. CASE k \in 1 .. Len(hostQueue) /\ c \in ToSet(hostQueue[k])
        <5>1. /\ c.slot \in InputSlots
              /\ inputs[c.slot].state = "recording" \/ k <= inputs[c.slot].ready
          BY <1>1, <3>1, <4>1 DEF InputCopies
        <5>2. CASE c.slot = recorded
          BY <1>11, <2>1, <4>1, <5>1, <5>2, SlotNumbers
        <5>3. CASE c.slot # recorded
          BY <1>1, <2>1, <5>1, <5>3 DEF OneWaiting
        <5>4. QED
          BY <5>2, <5>3
      <4>2. CASE k = d /\ c \in ToSet(hostList)
        <5>1. c.slot \in InputSlots /\ c.slot = recorded
          BY <1>1, <3>1, <4>2 DEF InputCopies
        <5>2. QED
          BY <1>12, <2>1, <4>2, <5>1, SlotNumbers
      <4>3. QED
        BY <1>10, <3>1, <4>1, <4>2
    <3>2. ASSUME NEW i \in InputSlots, Taken(i)'
          PROVE  IF inputs'[i].ready = 0 THEN inputs'[i].texture = inputs'[i].frame
                 ELSE \E c \in ToSet(hostQueue'[inputs'[i].ready]) :
                        c.op = "input" /\ c.slot = i /\ c.frame = inputs'[i].frame
      <4>1. CASE i = recorded
        <5>1. recorded # None
          BY <4>1, SlotNumbers
        <5>2. PICK c \in ToSet(hostList) : c.op = "input"
          <6>1. inputs'[i].state = "queued"
            BY <2>1, <4>1, <5>1
          <6>2. phase # "failed"
            BY <1>14, <3>2, <6>1 DEF Taken
          <6>3. QED
            BY <1>6, <5>1, <6>2
        <5>3. c.slot = i /\ c.frame = inputs'[i].frame
          BY <1>1, <2>2, <4>1, <5>2 DEF InputCopies
        <5>4. inputs'[i].ready = d
          BY <2>1, <4>1, <5>1
        <5>5. QED
          BY <1>4, <5>2, <5>3, <5>4
      <4>2. CASE i # recorded
        <5>1. inputs'[i] = inputs[i]
          BY <2>1, <4>2
        <5>2. inputs[i].ready # 0 => inputs[i].ready \in 1 .. Len(hostQueue)
          BY <1>4, <1>5
        <5>3. inputs[i].ready # 0 => hostQueue'[inputs[i].ready] = hostQueue[inputs[i].ready]
          BY <1>4, <5>2
        <5>4. Taken(i)
          <6>1. phase' = phase
            BY <1>14
          <6>2. QED
            BY <3>2, <5>1, <6>1 DEF Taken
        <5>5. QED
          BY <1>1, <5>1, <5>3, <5>4 DEF InputCopies
      <4>3. QED
        BY <4>1, <4>2
    <3>3. QED
      BY <1>3, <1>9, <1>14, <3>1, <3>2 DEF InputCopies
  <2>14. OutputCopies'
    <3>1. \A o \in OutputSlots : outputs'[o].state = "displaying" <=> o = display
      BY <1>1, <2>1 DEF OutputCopies
    <3>2. \A o \in OutputSlots : outputs'[o].state \in {"complete", "displaying", "retiring"} =>
             Whole(outputs'[o].texture, outputs'[o].frame)
      BY <1>1, <2>1 DEF OutputCopies
    <3>3. ASSUME NEW k \in 1 .. Len(hostQueue'), NEW c \in ToSet(hostQueue'[k]), c.op = "display"
          PROVE  /\ Whole(outputs'[c.slot].texture, c.frame)
                 /\ outputs'[c.slot].state \in {"displaying", "retiring"} \/ k <= outputs'[c.slot].retired
      <4>1. /\ c.slot \in OutputSlots /\ Whole(outputs[c.slot].texture, c.frame) /\ k <= d
            /\ outputs[c.slot].state \in {"displaying", "retiring"} \/ k <= outputs[c.slot].retired
        BY <1>1, <1>10, <1>11, <1>12, <3>3 DEF OutputCopies
      <4>2. QED
        BY <2>1, <4>1
    <3>4. QED
      BY <1>2, <1>9, <3>1, <3>2, <3>3 DEF OutputCopies
  <2>15. QED
    BY <1>1, <1>7, <1>8, <2>4, <2>5, <2>7, <2>10, <2>11, <2>12, <2>13, <2>14, NeuralTypesPrimed
    DEF PipelineInv, NeuralTyped
<1>15. QED
  <2>1. Len(hostQueue') = d
    BY <1>4
  <2>2. QED
    BY <1>13, <1>14, <2>1 DEF SubmitRecordedInput

Ran(op) == CHOOSE c \in Copies(op) : TRUE

\* A submission holds at most one copy of each kind, so the one that runs is known.
LEMMA TheOneThatRuns ==
    ASSUME OneOfEach(Head(hostQueue)), NEW op, NEW c \in Copies(op)
    PROVE  Ran(op) = c
<1>1. Ran(op) \in Copies(op)
  BY DEF Ran
<1>2. Ran(op) \in ToSet(Head(hostQueue)) /\ c \in ToSet(Head(hostQueue)) /\ Ran(op).op = c.op
  BY <1>1 DEF Copies
<1>3. QED
  BY <1>2 DEF OneOfEach

\* A value of the fence is one submission nearer.
LEMMA NearerValues ==
    ASSUME NEW value \in Distances
    PROVE  /\ Nearer(value) \in Distances /\ Nearer(value) \in Nat /\ value \in Nat
           /\ \A k \in Nat : k + 1 <= value => k <= Nearer(value)
           /\ \A m \in Nat \ {0} : value <= m => Nearer(value) <= m - 1
           /\ value # 0 => value = Nearer(value) + 1
           /\ value = 0 => Nearer(value) = 0
BY NeuralAssumption DEF Nearer, Distances

\* What running the oldest submission does to the slots.
LEMMA RunSlots ==
    ASSUME SlotTypes, InputSlots' = InputSlots, OneOfEach(Head(hostQueue)), Head(hostQueue) \in Lists,
           HostGpuRuns
    PROVE  /\ inputs' \in InputsType /\ outputs' \in OutputsType
           /\ \A i \in InputSlots :
                /\ inputs'[i].state = inputs[i].state /\ inputs'[i].frame = inputs[i].frame
                /\ inputs'[i].reset = inputs[i].reset /\ inputs'[i].ready = Nearer(inputs[i].ready)
                /\ \A c \in Copies("input") : c.slot = i => inputs'[i].texture = c.frame
                /\ (\A c \in Copies("input") : c.slot # i) => inputs'[i].texture = inputs[i].texture
           /\ \A o \in OutputSlots :
                /\ outputs'[o].state = outputs[o].state /\ outputs'[o].frame = outputs[o].frame
                /\ outputs'[o].texture = outputs[o].texture
                /\ outputs'[o].retired = Nearer(outputs[o].retired)
<1>1. /\ \A i \in InputSlots : /\ inputs[i] \in InputType /\ inputs[i].texture \in Numbers
                               /\ inputs[i].ready \in Distances
      /\ \A o \in OutputSlots : outputs[o] \in OutputType /\ outputs[o].retired \in Distances
  BY SlotRecords
<1>2. \A i \in InputSlots : inputs'[i] =
        [inputs[i] EXCEPT !.ready = Nearer(inputs[i].ready),
            !.texture = IF \E c \in Copies("input") : c.slot = i THEN Ran("input").frame
                                                                ELSE inputs[i].texture]
  BY DEF HostGpuRuns, Ran
<1>3. \A o \in OutputSlots : outputs'[o] = [outputs[o] EXCEPT !.retired = Nearer(outputs[o].retired)]
  BY DEF HostGpuRuns
<1>4. inputs' = [i \in InputSlots |-> inputs'[i]] /\ outputs' = [o \in OutputSlots |-> outputs'[o]]
  BY DEF HostGpuRuns
<1>5. \A c \in Copies("input") : Ran("input") = c /\ c.frame \in Numbers
  BY TheOneThatRuns, Members DEF Copies, Copy
<1>6. ASSUME NEW i \in InputSlots
      PROVE  \E n \in Numbers :
               /\ inputs'[i] = [inputs[i] EXCEPT !.ready = Nearer(inputs[i].ready), !.texture = n]
               /\ \A c \in Copies("input") : c.slot = i => n = c.frame
               /\ (\A c \in Copies("input") : c.slot # i) => n = inputs[i].texture
  <2>1. CASE \E c \in Copies("input") : c.slot = i
    <3>1. PICK c \in Copies("input") : c.slot = i
      BY <2>1
    <3>2. Ran("input") = c /\ c.frame \in Numbers
      BY <1>5
    <3>3. inputs'[i] = [inputs[i] EXCEPT !.ready = Nearer(inputs[i].ready), !.texture = c.frame]
      BY <1>2, <2>1, <3>2
    <3>4. \A x \in Copies("input") : x = c
      BY <1>5, <3>2
    <3>5. QED
      BY <3>1, <3>2, <3>3, <3>4
  <2>2. CASE \A c \in Copies("input") : c.slot # i
    BY <1>1, <1>2, <2>2
  <2>3. QED
    BY <2>1, <2>2
<1>7. ASSUME NEW i \in InputSlots
      PROVE  /\ inputs'[i] \in InputType
             /\ inputs'[i].state = inputs[i].state /\ inputs'[i].frame = inputs[i].frame
             /\ inputs'[i].reset = inputs[i].reset /\ inputs'[i].ready = Nearer(inputs[i].ready)
             /\ \A c \in Copies("input") : c.slot = i => inputs'[i].texture = c.frame
             /\ (\A c \in Copies("input") : c.slot # i) => inputs'[i].texture = inputs[i].texture
  <2>1. PICK n \in Numbers :
               /\ inputs'[i] = [inputs[i] EXCEPT !.ready = Nearer(inputs[i].ready), !.texture = n]
               /\ \A c \in Copies("input") : c.slot = i => n = c.frame
               /\ (\A c \in Copies("input") : c.slot # i) => n = inputs[i].texture
    BY <1>6
  <2>2. Nearer(inputs[i].ready) \in Distances /\ inputs[i] \in InputType
    BY <1>1, NearerValues
  <2>3. /\ inputs'[i] \in InputType /\ inputs'[i].texture = n
        /\ inputs'[i].state = inputs[i].state /\ inputs'[i].frame = inputs[i].frame
        /\ inputs'[i].reset = inputs[i].reset /\ inputs'[i].ready = Nearer(inputs[i].ready)
    BY <2>1, <2>2 DEF InputType
  <2>4. QED
    BY <2>1, <2>3
<1>8. ASSUME NEW o \in OutputSlots
      PROVE  /\ outputs'[o] \in OutputType
             /\ outputs'[o].state = outputs[o].state /\ outputs'[o].frame = outputs[o].frame
             /\ outputs'[o].texture = outputs[o].texture
             /\ outputs'[o].retired = Nearer(outputs[o].retired)
  <2>1. Nearer(outputs[o].retired) \in Distances /\ outputs[o] \in OutputType
    BY <1>1, NearerValues
  <2>2. QED
    BY <1>3, <2>1 DEF OutputType
<1>9. inputs' \in [InputSlots -> InputType] /\ outputs' \in [OutputSlots -> OutputType]
  BY <1>4, <1>7, <1>8
<1>10. inputs' \in InputsType /\ outputs' \in OutputsType
  BY <1>9 DEF InputsType, OutputsType
<1>11. QED
  BY <1>7, <1>8, <1>10

\* The host's GPU runs the oldest submission: an input's copy arrives whole, and the
\* pair that is displayed is the one the copy was recorded for.
LEMMA HostGpuStep ==
    ASSUME PipelineInv, HostGpuRuns
    PROVE  PipelineInv'
<1>1. /\ NeuralFlags /\ WorkerTypes /\ SlotTypes /\ ListTypes
      /\ OneWaiting /\ WorkerInv /\ EyesInv /\ InputCopies /\ OutputCopies /\ PairsAreWhole
      /\ ResetsAreKept
  BY NeuralTypesNamed DEF PipelineInv, NeuralTyped
<1>2. /\ hostQueue # <<>> /\ hostQueue' = Tail(hostQueue)
      /\ UNCHANGED <<prefetch, ageLimit, neuralFaults, phase, stopping, fate, recorded, display>>
      /\ UNCHANGED <<displayRecorded, lastInput, hostList, signalLost, unserved>>
      /\ UNCHANGED <<workerPc, current, target, resetNow, previous, deferred, eye, ownBusy>>
  BY DEF HostGpuRuns, Steady, options, worker
<1>3. InputSlots' = InputSlots /\ InputsType' = InputsType
  BY <1>2 DEF InputSlots, InputsType
<1>4. /\ Head(hostQueue) = hostQueue[1] /\ Head(hostQueue) \in Lists /\ hostQueue' \in Seq(Lists)
      /\ Len(hostQueue) \in Nat \ {0} /\ Len(hostQueue') = Len(hostQueue) - 1
      /\ 1 \in 1 .. Len(hostQueue)
      /\ \A k \in 1 .. Len(hostQueue') : hostQueue'[k] = hostQueue[k + 1] /\ k + 1 \in 1 .. Len(hostQueue)
  BY <1>1, <1>2, Dequeued DEF ListTypes
<1>5. OneOfEach(Head(hostQueue))
  BY <1>1, <1>4, AtMostTwo DEF ListTypes
<1>6. /\ inputs' \in InputsType /\ outputs' \in OutputsType
      /\ \A i \in InputSlots :
           /\ inputs'[i].state = inputs[i].state /\ inputs'[i].frame = inputs[i].frame
           /\ inputs'[i].reset = inputs[i].reset /\ inputs'[i].ready = Nearer(inputs[i].ready)
           /\ \A c \in Copies("input") : c.slot = i => inputs'[i].texture = c.frame
           /\ (\A c \in Copies("input") : c.slot # i) => inputs'[i].texture = inputs[i].texture
      /\ \A o \in OutputSlots :
           /\ outputs'[o].state = outputs[o].state /\ outputs'[o].frame = outputs[o].frame
           /\ outputs'[o].texture = outputs[o].texture
           /\ outputs'[o].retired = Nearer(outputs[o].retired)
  BY <1>1, <1>3, <1>4, <1>5, RunSlots
<1>7. /\ \A i \in InputSlots : inputs[i].ready \in Distances /\ inputs[i].ready <= Len(hostQueue)
      /\ \A o \in OutputSlots : outputs[o].retired \in Distances
  BY <1>1, SlotRecords DEF ListTypes
<1>8. recorded # None => recorded \in InputSlots
  BY <1>1 DEF SlotTypes
<1>9. current # None => current \in InputSlots
  BY <1>1 DEF WorkerTypes
<1>10. \A k \in 1 .. Len(hostQueue') : k \in Nat /\ k >= 1
  BY <1>4
<1>11. NeuralFlags'
  BY <1>1, <1>2 DEF NeuralFlags
<1>12. SlotTypes'
  BY <1>1, <1>2, <1>3, <1>6 DEF SlotTypes
<1>13. /\ displayed' \in ShownPair /\ PairsAreWhole'
  <2>1. CASE Copies("display") = {}
    BY <1>1, <2>1 DEF HostGpuRuns, PairsAreWhole, WorkerTypes
  <2>2. CASE Copies("display") # {}
    <3>1. PICK c \in Copies("display") : TRUE
      BY <2>2
    <3>2. Ran("display") = c
      BY <1>5, TheOneThatRuns
    <3>3. displayed' = [label |-> c.frame, texture |-> outputs[c.slot].texture]
      BY <2>2, <3>2 DEF HostGpuRuns, Ran
    <3>4. c \in ToSet(hostQueue[1]) /\ c.op = "display"
      BY <1>4 DEF Copies
    <3>5. Whole(outputs[c.slot].texture, c.frame)
      BY <1>1, <1>4, <3>4 DEF OutputCopies
    <3>6. c.slot \in OutputSlots /\ c.frame \in Numbers
      BY <1>1, <1>4, <3>4, QueuedCopies DEF Copy
    <3>7. outputs[c.slot].texture \in Picture
      BY <1>1, <3>6, SlotRecords
    <3>8. displayed' \in ShownPair
      BY <3>3, <3>6, <3>7 DEF ShownPair
    <3>9. PairsAreWhole'
      BY <3>3, <3>5 DEF PairsAreWhole, Whole
    <3>10. QED
      BY <3>8, <3>9
  <2>3. QED
    BY <2>1, <2>2
<1>14. WorkerTypes'
  BY <1>1, <1>2, <1>3, <1>13 DEF WorkerTypes
<1>15. ListTypes'
  <2>1. \A k \in 1 .. Len(hostQueue') : OncePerOp(hostQueue'[k])
    BY <1>1, <1>4 DEF ListTypes
  <2>2. Len(hostQueue') <= MaxOutstanding
    BY <1>1, <1>4, NeuralAssumption DEF ListTypes
  <2>3. \A i \in InputSlots : inputs'[i].ready <= Len(hostQueue')
    BY <1>4, <1>6, <1>7, NearerValues
  <2>4. QED
    BY <1>1, <1>2, <1>3, <1>4, <2>1, <2>2, <2>3 DEF ListTypes
<1>16. OneWaiting'
  <2>1. recorded # None => lastInput < inputs'[recorded].frame
    BY <1>1, <1>6, <1>8 DEF OneWaiting
  <2>2. QED
    BY <1>1, <1>2, <1>3, <1>6, <2>1 DEF OneWaiting
<1>17. WorkerInv'
  <2>1. workerPc \in InProgress => current # None /\ inputs'[current].state = "working"
    BY <1>1, <1>6, <1>9 DEF WorkerInv
  <2>2. workerPc = "compose" => target # None /\ outputs'[target].state = "working"
    BY <1>1, <1>6 DEF WorkerInv, WorkerTypes
  <2>3. fate' # "destroyed"
    BY <1>1, <1>2 DEF WorkerInv, DestroyedWhenRetired
  <2>4. QED
    BY <1>1, <1>2, <2>1, <2>2, <2>3 DEF WorkerInv, DestroyedWhenRetired
<1>18. ResetsAreKept'
  <2>1. \A n \in unserved : n <= IF recorded = None THEN lastInput ELSE inputs'[recorded].frame
    BY <1>1, <1>6, <1>8 DEF ResetsAreKept
  <2>2. workerPc = "guides" => inputs'[current].frame = inputs[current].frame
    BY <1>1, <1>6, <1>9 DEF WorkerInv, InProgress
  <2>3. HistoryCoversAdmitted'
    BY <1>1, <1>2, <2>2 DEF ResetsAreKept, HistoryCoversAdmitted
  <2>4. \A n \in unserved : \/ deferred
                            \/ \E i \in InputSlots : inputs'[i].state \in Waiting /\ inputs'[i].reset
                            \/ workerPc = "guides" /\ resetNow /\ n <= inputs'[current].frame
                            \/ workerPc = "over"
    BY <1>1, <1>6, <2>2 DEF ResetsAreKept
  <2>5. QED
    BY <1>2, <1>3, <2>1, <2>3, <2>4 DEF ResetsAreKept, Waiting
<1>19. EyesInv'
  <2>1. workerPc \in {"evaluate", "pick", "compose"} => current \in InputSlots
    BY <1>1, <1>9 DEF WorkerInv, InProgress
  <2>2. workerPc \in {"evaluate", "pick", "compose"} =>
          inputs'[current].ready = 0 /\ inputs'[current].frame = inputs[current].frame
    BY <1>1, <1>6, <1>7, <2>1, NearerValues DEF EyesInv
  <2>3. QED
    BY <1>1, <1>2, <2>2 DEF EyesInv
<1>20. InputCopies'
  <2>1. \A c \in ToSet(hostList) : c.op = "input" =>
           c.slot \in InputSlots /\ c.slot = recorded /\ c.frame = inputs'[c.slot].frame
    BY <1>1, <1>6 DEF InputCopies
  <2>2. ASSUME NEW k \in 1 .. Len(hostQueue'), NEW c \in ToSet(hostQueue'[k]), c.op = "input"
        PROVE  c.slot \in InputSlots /\ (inputs'[c.slot].state = "recording" \/ k <= inputs'[c.slot].ready)
    <3>1. /\ c.slot \in InputSlots
          /\ inputs[c.slot].state = "recording" \/ k + 1 <= inputs[c.slot].ready
      BY <1>1, <1>4, <2>2 DEF InputCopies
    <3>2. k + 1 <= inputs[c.slot].ready => k <= inputs'[c.slot].ready
      BY <1>6, <1>7, <1>10, <3>1, NearerValues
    <3>3. QED
      BY <1>6, <3>1, <3>2
  <2>3. ASSUME NEW i \in InputSlots, Taken(i)'
        PROVE  IF inputs'[i].ready = 0 THEN inputs'[i].texture = inputs'[i].frame
               ELSE \E c \in ToSet(hostQueue'[inputs'[i].ready]) :
                      c.op = "input" /\ c.slot = i /\ c.frame = inputs'[i].frame
    <3>1. /\ inputs[i].state \in {"queued", "working"} /\ inputs'[i].frame = inputs[i].frame
          /\ Taken(i)
      <4>1. phase' = phase /\ inputs'[i].state = inputs[i].state
        BY <1>2, <1>6
      <4>2. Taken(i)
        BY <2>3, <4>1 DEF Taken
      <4>3. QED
        BY <1>6, <4>2 DEF Taken
    <3>2. IF inputs[i].ready = 0 THEN inputs[i].texture = inputs[i].frame
          ELSE \E c \in ToSet(hostQueue[inputs[i].ready]) :
                 c.op = "input" /\ c.slot = i /\ c.frame = inputs[i].frame
      BY <1>1, <3>1 DEF InputCopies
    <3>3. inputs'[i].ready = Nearer(inputs[i].ready) /\ inputs[i].ready \in Nat
      BY <1>6, <1>7, NearerValues
    <3>4. CASE inputs[i].ready = 0
      <4>1. \A c \in Copies("input") : c.slot # i
        <5>1. \A c \in Copies("input") : c \in ToSet(hostQueue[1]) /\ c.op = "input"
          BY <1>4 DEF Copies
        <5>2. \A c \in Copies("input") : inputs[c.slot].state = "recording" \/ 1 <= inputs[c.slot].ready
          BY <1>1, <1>4, <5>1 DEF InputCopies
        <5>3. QED
          BY <3>1, <3>4, <5>2
      <4>2. inputs'[i].ready = 0
        BY <1>7, <3>3, <3>4, NearerValues
      <4>3. QED
        BY <1>6, <3>1, <3>2, <3>4, <4>1, <4>2
    <3>5. CASE inputs[i].ready # 0
      <4>1. inputs[i].ready = inputs'[i].ready + 1 /\ inputs'[i].ready \in Nat
        BY <1>7, <3>3, <3>5, NearerValues
      <4>2. PICK c \in ToSet(hostQueue[inputs[i].ready]) :
                 c.op = "input" /\ c.slot = i /\ c.frame = inputs[i].frame
        BY <3>2, <3>5
      <4>3. CASE inputs'[i].ready = 0
        <5>1. inputs[i].ready = 1
          BY <4>1, <4>3
        <5>2. c \in Copies("input")
          BY <1>4, <4>2, <5>1 DEF Copies
        <5>3. QED
          BY <1>6, <3>1, <4>2, <4>3, <5>2
      <4>4. CASE inputs'[i].ready # 0
        <5>1. inputs'[i].ready \in 1 .. Len(hostQueue')
          BY <1>4, <1>7, <4>1, <4>4
        <5>2. hostQueue'[inputs'[i].ready] = hostQueue[inputs[i].ready]
          BY <1>4, <4>1, <5>1
        <5>3. QED
          BY <3>1, <4>2, <4>4, <5>2
      <4>5. QED
        BY <4>3, <4>4
    <3>6. QED
      BY <3>4, <3>5
  <2>4. recorded # None => \/ \E c \in ToSet(hostList) : c.op = "input"
                           \/ hostList = <<>> /\ phase = "failed"
    BY <1>1 DEF InputCopies
  <2>5. QED
    BY <1>2, <1>3, <2>1, <2>2, <2>3, <2>4 DEF InputCopies
<1>21. OutputCopies'
  <2>1. \A o \in OutputSlots : outputs'[o].state = "displaying" <=> o = display
    BY <1>1, <1>6 DEF OutputCopies
  <2>2. \A o \in OutputSlots : outputs'[o].state \in {"complete", "displaying", "retiring"} =>
           Whole(outputs'[o].texture, outputs'[o].frame)
    BY <1>1, <1>6 DEF OutputCopies
  <2>3. \A c \in ToSet(hostList) : c.op = "display" =>
           displayRecorded /\ c.slot = display /\ Whole(outputs'[c.slot].texture, c.frame)
    <3>1. \A c \in ToSet(hostList) : c.slot \in OutputSlots
      BY <1>1, Members, SlotNumbers DEF ListTypes, Copy
    <3>2. QED
      BY <1>1, <1>6, <3>1 DEF OutputCopies
  <2>4. ASSUME NEW k \in 1 .. Len(hostQueue'), NEW c \in ToSet(hostQueue'[k]), c.op = "display"
        PROVE  /\ Whole(outputs'[c.slot].texture, c.frame)
               /\ outputs'[c.slot].state \in {"displaying", "retiring"} \/ k <= outputs'[c.slot].retired
    <3>1. c \in ToSet(hostQueue[k + 1]) /\ k + 1 \in 1 .. Len(hostQueue)
      BY <1>4
    <3>2. c.slot \in OutputSlots
      BY <1>1, <3>1, QueuedCopies
    <3>3. /\ Whole(outputs[c.slot].texture, c.frame)
          /\ outputs[c.slot].state \in {"displaying", "retiring"} \/ k + 1 <= outputs[c.slot].retired
      BY <1>1, <2>4, <3>1 DEF OutputCopies
    <3>4. k + 1 <= outputs[c.slot].retired => k <= outputs'[c.slot].retired
      BY <1>6, <1>7, <1>10, <3>2, NearerValues
    <3>5. QED
      BY <1>6, <3>2, <3>3, <3>4
  <2>5. QED
    BY <1>2, <2>1, <2>2, <2>3, <2>4 DEF OutputCopies
<1>22. QED
  BY <1>1, <1>11, <1>12, <1>13, <1>14, <1>15, <1>16, <1>17, <1>18, <1>19, <1>20, <1>21,
     NeuralTypesPrimed DEF PipelineInv, NeuralTyped

-----------------------------------------------------------------------------
(* The neural pipeline: its invariant *)

\* The pipeline starts with empty slots and nothing recorded.
LEMMA NeuralStart == NeuralInit => PipelineInv
<1> SUFFICES ASSUME NeuralInit PROVE PipelineInv
  OBVIOUS
<1>1. /\ prefetch \in BOOLEAN /\ ageLimit \in BOOLEAN
      /\ phase = "starting" /\ stopping = FALSE /\ fate = "alive"
      /\ inputs = [i \in InputSlots |-> [state |-> "empty", frame |-> 0, ready |-> 0, reset |-> FALSE,
                                         texture |-> 0]]
      /\ outputs = [o \in OutputSlots |-> [state |-> "empty", frame |-> 0, retired |-> 0,
                                           texture |-> Blank]]
      /\ recorded = None /\ display = None /\ displayRecorded = FALSE /\ lastInput = 0
      /\ hostList = <<>> /\ hostQueue = <<>> /\ signalLost = FALSE
      /\ workerPc = "start" /\ current = None /\ target = None /\ resetNow = FALSE
      /\ previous = 0 /\ deferred = FALSE /\ ownBusy = FALSE
      /\ eye = [e \in Eyes |-> IdleEye]
      /\ unserved = {} /\ displayed = [label |-> 0, texture |-> Blank] /\ neuralFaults = 0
  BY DEF NeuralInit
<1>2. 0 \in Numbers /\ 0 \in Distances /\ Blank \in Picture /\ 0 \in NeuralFaults
  BY NeuralAssumption DEF Numbers, Distances, Blank, Picture, NeuralFaults
<1>3. NeuralFlags
  BY <1>1, <1>2 DEF NeuralFlags
<1>4. /\ \A i \in InputSlots : inputs[i].state = "empty" /\ inputs[i].ready = 0
      /\ \A o \in OutputSlots : outputs[o].state = "empty"
  BY <1>1
<1>5. SlotTypes
  <2>1. [state |-> "empty", frame |-> 0, ready |-> 0, reset |-> FALSE, texture |-> 0] \in InputType
    BY <1>2 DEF InputType, InputStates
  <2>2. [state |-> "empty", frame |-> 0, retired |-> 0, texture |-> Blank] \in OutputType
    BY <1>2 DEF OutputType, OutputStates
  <2>3. inputs \in InputsType /\ outputs \in OutputsType
    BY <1>1, <2>1, <2>2 DEF InputsType, OutputsType
  <2>4. QED
    BY <1>1, <1>2, <2>3 DEF SlotTypes
<1>6. WorkerTypes
  <2>1. IdleEye \in EyeType
    BY <1>2 DEF IdleEye, EyeType
  <2>2. eye \in EyesType /\ displayed \in ShownPair
    BY <1>1, <1>2, <2>1 DEF EyesType, ShownPair
  <2>3. QED
    BY <1>1, <1>2, <2>2 DEF WorkerTypes, WorkerPlaces, SetupStages
<1>7. ListTypes /\ Len(hostQueue) = 0 /\ 1 .. Len(hostQueue) = {} /\ ToSet(hostList) = {}
  <2>1. hostQueue \in Seq(Lists) /\ Len(hostQueue) = 0 /\ 1 .. 0 = {} /\ 0 <= 0 /\ 0 <= MaxOutstanding
    BY <1>1, EmptySeq, NeuralAssumption
  <2>2. hostList \in Lists /\ OncePerOp(hostList) /\ ToSet(hostList) = {}
    BY <1>1, NoCopies
  <2>3. QED
    BY <1>4, <2>1, <2>2 DEF ListTypes
<1>8. OneWaiting
  BY <1>1, <1>4, SlotNumbers DEF OneWaiting, Waiting
<1>9. WorkerInv
  BY <1>1 DEF WorkerInv, InProgress, DestroyedWhenRetired
<1>10. ResetsAreKept
  BY <1>1 DEF ResetsAreKept, HistoryCoversAdmitted
<1>11. InputCopies
  BY <1>1, <1>4, <1>7 DEF InputCopies
<1>12. EyesInv
  BY <1>1 DEF EyesInv, IdleEye
<1>13. OutputCopies
  BY <1>1, <1>4, <1>7, SlotNumbers DEF OutputCopies
<1>14. PairsAreWhole
  BY <1>1 DEF PairsAreWhole, Blank
<1>15. QED
  BY <1>3, <1>5, <1>6, <1>7, <1>8, <1>9, <1>10, <1>11, <1>12, <1>13, <1>14, NeuralTypesNamed
  DEF PipelineInv, NeuralTyped

\* Every step of the pipeline keeps its invariant.
LEMMA NeuralStep == PipelineInv /\ NeuralNext => PipelineInv'
BY NeuralSteps, AsideStep, TakeStep, PickStep, ComposeStep, RecordInputStep, RecordDisplayStep,
   SubmitStep, HostGpuStep

\* A step of another part leaves the pipeline as it is.
LEMMA NeuralQuiet == PipelineInv /\ UNCHANGED neuralVars => PipelineInv'
<1> SUFFICES ASSUME PipelineInv, UNCHANGED neuralVars PROVE PipelineInv'
  OBVIOUS
<1>1. /\ UNCHANGED <<prefetch, ageLimit, phase, stopping, fate, inputs, outputs, recorded, display>>
      /\ UNCHANGED <<displayRecorded, lastInput, hostList, hostQueue, signalLost, workerPc, current>>
      /\ UNCHANGED <<target, resetNow, previous, deferred, eye, ownBusy, unserved, displayed, neuralFaults>>
  BY DEF neuralVars, options, slotVars, hostGpu, worker
<1>2. InputSlots' = InputSlots /\ InputsType' = InputsType
  BY <1>1 DEF InputSlots, InputsType
<1>3. NeuralFlags' = NeuralFlags /\ SlotTypes' = SlotTypes
  BY <1>1, <1>2 DEF NeuralFlags, SlotTypes
<1>4. WorkerTypes' = WorkerTypes /\ ListTypes' = ListTypes
  BY <1>1, <1>2 DEF WorkerTypes, ListTypes
<1>5. NeuralTyped'
  <2>1. NeuralTyped
    BY NeuralTypesNamed DEF PipelineInv
  <2>2. QED
    BY <1>3, <1>4, <2>1 DEF NeuralTyped
<1>6. OneWaiting' = OneWaiting /\ WorkerInv' = WorkerInv /\ ResetsAreKept' = ResetsAreKept
  BY <1>1, <1>2 DEF OneWaiting, WorkerInv, DestroyedWhenRetired, ResetsAreKept, HistoryCoversAdmitted
<1>7. InputCopies' = InputCopies /\ EyesInv' = EyesInv
  BY <1>1, <1>2 DEF InputCopies, Taken, EyesInv
<1>8. OutputCopies' = OutputCopies /\ PairsAreWhole' = PairsAreWhole
  BY <1>1 DEF OutputCopies, PairsAreWhole
<1>9. QED
  BY <1>5, <1>6, <1>7, <1>8, NeuralTypesPrimed DEF PipelineInv

-----------------------------------------------------------------------------
(* The parts together *)

hostVars == <<focus, sessionVars, xrVars, neuralVars, ringVars>>

\* Each part starts in its invariant.
LEMMA HostStart == Init => HostInv
BY SessionStart, XrStart, NeuralStart DEF Init, HostInv

\* A step moves the part in focus and leaves the others.
LEMMA HostStep == HostInv /\ [Next]_hostVars => HostInv'
<1> SUFFICES ASSUME HostInv, [Next]_hostVars PROVE HostInv'
  OBVIOUS
<1>1. CASE focus = "session" /\ SessionNext /\ UNCHANGED <<focus, xrVars, neuralVars, ringVars>>
  BY <1>1, SessionStep DEF HostInv
<1>2. CASE focus = "frame" /\ XrNext /\ UNCHANGED <<focus, sessionVars, neuralVars, ringVars>>
  BY <1>2, XrStep DEF HostInv
<1>3. CASE focus = "neural" /\ NeuralNext /\ UNCHANGED <<focus, sessionVars, xrVars, ringVars>>
  BY <1>3, NeuralStep DEF HostInv
<1>4. CASE focus = "ring" /\ RingNext /\ UNCHANGED <<focus, sessionVars, xrVars, neuralVars>>
  BY <1>4, SessionQuiet, XrQuiet, NeuralQuiet DEF HostInv
<1>5. CASE UNCHANGED hostVars
  BY <1>5, SessionQuiet, XrQuiet, NeuralQuiet DEF HostInv, hostVars
<1>6. QED
  BY <1>1, <1>2, <1>3, <1>4, <1>5 DEF Next

\* The inductive invariant of the part in focus holds in every state: the session, the
\* frame and the neural pipeline never leave it, whatever the bounds and the failures.
THEOREM HostInvariant == Spec => []HostInv
BY HostStart, HostStep, PTL DEF Spec, hostVars

\* Every variable keeps its type.
THEOREM HostTypes == Spec => []HostTypeOK
<1>1. HostInv => HostTypeOK
  BY DEF HostInv, HostTypeOK, SessionInv, FrameInv, PipelineInv
<1>2. QED
  BY <1>1, HostInvariant, PTL

\* An event the host has polled leaves its session in the runtime's state.
LEMMA SessionFollows == SessionInv => FollowsRuntime
BY DEF SessionInv, SessionCalls, FollowsRuntime

\* run_openxr_host makes every call of the OpenXR runtime in the order the runtime
\* accepts, and SessionStateMachine is in the state the runtime reported last.
THEOREM SessionOrder == Spec => []SessionKeepsOrder
<1>1. HostInv => SessionKeepsOrder
  BY SessionFollows DEF HostInv, SessionKeepsOrder, SessionInv
<1>2. QED
  BY <1>1, HostInvariant, PTL

\* Every event that must reset the game's history is in a request it has not read yet.
LEMMA SessionResets == SessionInv => ResetReachesRequest
BY DEF SessionInv, OwedIsNoted, ResetReachesRequest

\* No reset of the history is lost: neither between an event of the runtime and the
\* request the game reads, nor between an input that is replaced or dropped and the
\* evaluation that must start without history.
THEOREM ResetsSurvive == Spec => []NoResetIsLost
<1>1. HostInv => NoResetIsLost
  BY SessionResets DEF HostInv, NoResetIsLost, PipelineInv, ResetsAreKept
<1>2. QED
  BY <1>1, HostInvariant, PTL

\* The GPU never works with what the host has given back or destroyed: no failing frame
\* releases an image in flight, a shutdown that cannot prove the GPU idle keeps
\* everything, and the neural pipeline is destroyed only when both queues are idle.
THEOREM GpuSafety == Spec => []GpuWorkIsSafe
<1>1. HostInv => GpuWorkIsSafe
  BY DEF HostInv, GpuWorkIsSafe, FrameInv, PipelineInv, WorkerInv
<1>2. QED
  BY <1>1, HostInvariant, PTL

\* Every projection carries the pose and the depth of the frame whose pixels it shows,
\* and a neural pair on the headset is one frame's in both eyes and the HUD.
THEOREM PicturesMatch == Spec => []PicturesMatchTheirFrame
<1>1. HostInv => PicturesMatchTheirFrame
  BY DEF HostInv, PicturesMatchTheirFrame, FrameInv, PipelineInv
<1>2. QED
  BY <1>1, HostInvariant, PTL

=============================================================================
