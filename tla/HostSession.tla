----------------------------- MODULE HostSession -----------------------------
(***************************************************************************)
(* The OpenXR session of the host: the main loop of main.cpp               *)
(* (run_openxr_host), the calls of openxr_runtime.cpp that begin and end   *)
(* the session and its frames, and session_state_machine.cpp.  The runtime *)
(* is external: it queues the session states of the OpenXR specification,  *)
(* and refuses a call made out of order.  What a frame draws is XrFrame.   *)
(***************************************************************************)
EXTENDS Integers, Sequences

CONSTANTS
    MaxEvents,      \* bound on the runtime's events
    MaxQueued,      \* bound on the events waiting to be polled
    MaxFailures     \* bound on failing calls

ASSUME EventsAssumption ==
    MaxEvents \in Nat /\ MaxQueued \in Nat \ {0} /\ MaxFailures \in Nat

VARIABLES
    rtState, rtBegun, rtFrame,  \* the runtime's session and frame
    events, sent,               \* its queue of events, and how many it sent
    delivered,                  \* the last session state that was polled
    refused,                    \* it refused a call for its order
    state, running,             \* SessionStateMachine.state_, session_running_
    exitRequested, sessionFailed,
    created,                    \* OpenXR objects of the runtime class
    at,                         \* where run_openxr_host is
    poll,                       \* RuntimePollResult
    shouldRender,
    framesSeen,                 \* health.frames_seen # 0
    pendingReasons,             \* pending_reset_reasons
    owed,                       \* resets since the last published request
    failures

external  == <<rtState, rtBegun, rtFrame, events, sent, delivered, refused>>
machine   == <<state, running, exitRequested, sessionFailed>>
reasons   == <<pendingReasons, owed>>
sessionVars == <<external, machine, created, at, poll, shouldRender, framesSeen, reasons, failures>>

RuntimeStates == {"unknown", "idle", "ready", "synchronized", "visible", "focused",
                  "stopping", "loss_pending", "exiting"}
NoResult == [history |-> FALSE, tracking |-> FALSE, exit |-> FALSE]

RuntimeObjects == {"instance", "device", "session", "local space", "view space"}

SessionInit ==
    /\ rtState = "unknown" /\ rtBegun = FALSE /\ rtFrame = "none"
    /\ events = <<>> /\ sent = 0 /\ delivered = "unknown" /\ refused = FALSE
    /\ state = "unknown" /\ running = FALSE /\ exitRequested = FALSE /\ sessionFailed = FALSE
    /\ created = {} /\ at = "start" /\ poll = NoResult /\ shouldRender = FALSE
    /\ framesSeen = FALSE /\ pendingReasons = {"startup"} /\ owed = {"startup"} /\ failures = 0

-----------------------------------------------------------------------------
(* The runtime. *)

SessionSuccessors ==
    CASE rtState = "unknown"      -> {"idle"}
      [] rtState = "idle"         -> {"ready", "exiting", "loss_pending"}
      [] rtState = "ready"        -> {"loss_pending"} \cup IF rtBegun THEN {"synchronized"} ELSE {}
      [] rtState = "synchronized" -> {"visible", "stopping", "loss_pending"}
      [] rtState = "visible"      -> {"focused", "synchronized", "loss_pending"}
      [] rtState = "focused"      -> {"visible", "loss_pending"}
      [] rtState = "stopping"     -> {"loss_pending"} \cup IF rtBegun THEN {} ELSE {"idle"}
      [] OTHER                    -> {}

RuntimeSends ==
    /\ "session" \in created /\ sent < MaxEvents /\ Len(events) < MaxQueued /\ sent' = sent + 1
    /\ \/ \E s \in SessionSuccessors : rtState' = s /\ events' = Append(events, s)
       \/ \E e \in {"recenter", "instance loss"} : rtState' = rtState /\ events' = Append(events, e)
    /\ UNCHANGED <<rtBegun, rtFrame, delivered, refused, machine, created, at, poll, shouldRender>>
    /\ UNCHANGED <<framesSeen, reasons, failures>>

Fails == failures < MaxFailures /\ failures' = failures + 1
Works == failures' = failures

-----------------------------------------------------------------------------
(* OpenXrRuntime::start, and shutdown. *)

StartStages == {"start", "system", "blend mode", "device", "session", "local space",
                "view space", "smoke"}

\* The runtime may send events as soon as there is a session.
Advance(from, to, objects) ==
    /\ at = from /\ at' = to /\ created' = created \cup objects
    /\ UNCHANGED <<external, machine, poll, shouldRender, framesSeen, reasons, failures>>

CreateInstance   == Advance("start", "system", {"instance"})
SelectSystem     == Advance("system", "blend mode", {})
SelectBlendMode  == Advance("blend mode", "device", {})
CreateDevice     == Advance("device", "session", {"device"})
CreateSession    == Advance("session", "local space", {"session"})
CreateLocalSpace == Advance("local space", "view space", {"local space"})
CreateViewSpace  == Advance("view space", "smoke", {"view space"})
InitializeSmoke  == Advance("smoke", "top", {})

\* A failed start is shut down by the caller; so is a failed smoke setup.
StartFails == at \in StartStages /\ Advance(at, "shutdown", {})

StartRuntime ==
    \/ CreateInstance \/ SelectSystem \/ SelectBlendMode \/ CreateDevice \/ CreateSession
    \/ CreateLocalSpace \/ CreateViewSpace \/ InitializeSmoke \/ StartFails

\* shutdown() of the runtime after the loop.  When the GPU cannot be shown to be
\* idle the whole ownership graph stays until the process exits (see XrFrame).
ShutdownRuntime ==
    /\ at = "shutdown" /\ at' = "stopped"
    /\ \/ created' = {} /\ rtBegun' = FALSE /\ rtFrame' = "none"
       \/ "device" \in created /\ UNCHANGED <<created, rtBegun, rtFrame>>
    /\ UNCHANGED <<rtState, events, sent, delivered, refused, machine, poll, shouldRender>>
    /\ UNCHANGED <<framesSeen, reasons, failures>>

-----------------------------------------------------------------------------
(* SessionStateMachine. *)

\* SessionStateMachine::allowed.  Variant: a stopped session cannot become idle.
AllowedWithoutIdle(from, to) ==
    from = to \/ <<from, to>> \in {<<"unknown", "idle">>, <<"idle", "ready">>,
        <<"ready", "synchronized">>, <<"synchronized", "visible">>, <<"synchronized", "stopping">>,
        <<"visible", "focused">>, <<"visible", "synchronized">>, <<"focused", "visible">>}
    \/ to \in {"loss_pending", "exiting"}

Allowed(from, to) ==
    \/ from = to \/ to \in {"loss_pending", "exiting"}
    \/ from = "unknown" /\ to \in {"idle", "ready"}
    \/ from = "idle" /\ to = "ready"
    \/ from = "ready" /\ to \in {"synchronized", "stopping"}
    \/ from = "synchronized" /\ to \in {"visible", "stopping", "idle"}
    \/ from = "visible" /\ to \in {"focused", "synchronized", "stopping"}
    \/ from = "focused" /\ to \in {"visible", "stopping"}
    \/ from = "stopping" /\ to = "idle"

BeginsSession(next) == next = "ready" /\ ~running
EndsSession(next)   == next = "stopping" /\ running

MarkFailed == sessionFailed' = TRUE /\ exitRequested' = TRUE

ShouldDriveFrames == running /\ state \in {"ready", "synchronized", "visible", "focused"}

-----------------------------------------------------------------------------
(* OpenXrRuntime::poll_events, one event a step. *)

Note(history, tracking, exit) ==
    poll' = [history |-> poll.history \/ history, tracking |-> poll.tracking \/ tracking,
             exit |-> poll.exit \/ exit]

Event == Head(events)
TakeEvent == at = "poll" /\ events # <<>> /\ events' = Tail(events)
IsSessionState == Event \in RuntimeStates
Rest == UNCHANGED <<sent, created, at, shouldRender, framesSeen, pendingReasons>>

\* A transition that is not allowed is only logged.
RejectTransition ==
    /\ TakeEvent /\ IsSessionState /\ ~Allowed(state, Event)
    /\ delivered' = Event
    /\ UNCHANGED <<rtState, rtBegun, rtFrame, refused, machine, poll, owed, failures>> /\ Rest

ApplyTransition ==
    /\ TakeEvent /\ IsSessionState /\ Allowed(state, Event)
    /\ ~BeginsSession(Event) /\ ~EndsSession(Event)
    /\ state' = Event /\ delivered' = Event
    /\ LET leaves == Event \in {"loss_pending", "exiting"} IN
         /\ Note(leaves, FALSE, leaves)
         /\ exitRequested' = (exitRequested \/ leaves)
    /\ UNCHANGED <<rtState, rtBegun, rtFrame, refused, running, sessionFailed, owed, failures>> /\ Rest

BeginSession ==
    /\ TakeEvent /\ IsSessionState /\ Allowed(state, Event) /\ BeginsSession(Event)
    /\ state' = Event /\ delivered' = Event
    /\ refused' = (refused \/ rtBegun \/ rtState \notin {"ready", "loss_pending"})
    /\ owed' = IF framesSeen THEN owed \cup {"restart"} ELSE owed
    /\ \/ /\ Works /\ rtBegun' = TRUE /\ running' = TRUE /\ Note(TRUE, FALSE, FALSE)
          /\ UNCHANGED <<exitRequested, sessionFailed>>
       \/ Fails /\ MarkFailed /\ Note(TRUE, FALSE, TRUE) /\ UNCHANGED <<rtBegun, running>>
    /\ UNCHANGED <<rtState, rtFrame>> /\ Rest

EndSession ==
    /\ TakeEvent /\ IsSessionState /\ Allowed(state, Event) /\ EndsSession(Event)
    /\ state' = Event /\ delivered' = Event
    /\ refused' = (refused \/ ~rtBegun \/ rtState \notin {"stopping", "loss_pending"})
    /\ \/ /\ Works /\ rtBegun' = FALSE /\ running' = FALSE
          /\ UNCHANGED <<exitRequested, sessionFailed, poll>>
       \/ Fails /\ MarkFailed /\ Note(FALSE, FALSE, TRUE) /\ UNCHANGED <<rtBegun, running>>
    /\ UNCHANGED <<rtState, rtFrame, owed>> /\ Rest

\* The local reference space will change: a recenter.
ReferenceSpaceChangePending ==
    /\ TakeEvent /\ Event = "recenter"
    /\ Note(TRUE, TRUE, FALSE) /\ owed' = owed \cup {"recenter"}
    /\ UNCHANGED <<rtState, rtBegun, rtFrame, delivered, refused, machine, failures>> /\ Rest

InstanceLossPending ==
    /\ TakeEvent /\ Event = "instance loss"
    /\ state' = "loss_pending" /\ delivered' = "loss_pending"
    /\ exitRequested' = TRUE /\ Note(TRUE, FALSE, TRUE)
    /\ UNCHANGED <<rtState, rtBegun, rtFrame, refused, running, sessionFailed, owed, failures>> /\ Rest

PollFails ==
    /\ at = "poll" /\ Fails /\ MarkFailed /\ at' = "shutdown"
    /\ UNCHANGED <<external, state, running, created, poll, shouldRender, framesSeen, reasons>>

-----------------------------------------------------------------------------
(* run_openxr_host. *)

TopOfLoop ==
    /\ at = "top" /\ poll' = NoResult
    /\ IF exitRequested THEN at' = "shutdown" ELSE at' = "poll"
    /\ UNCHANGED <<external, machine, created, shouldRender, framesSeen, reasons, failures>>

\* Ctrl-C, or the frame limit of the options.
StopRequested ==
    /\ at = "top" /\ at' = "shutdown"
    /\ UNCHANGED <<external, machine, created, poll, shouldRender, framesSeen, reasons, failures>>

ReasonsOfPoll ==
    pendingReasons \cup (IF poll.history /\ framesSeen THEN {"restart"} ELSE {})
                   \cup (IF poll.tracking THEN {"recenter"} ELSE {})

PollReturns ==
    /\ at = "poll" /\ events = <<>>
    /\ IF poll.exit
       THEN at' = "shutdown" /\ UNCHANGED pendingReasons
       ELSE /\ pendingReasons' = ReasonsOfPoll
            /\ at' = IF ShouldDriveFrames THEN "wait" ELSE "health"
    /\ UNCHANGED <<external, machine, created, poll, shouldRender, framesSeen, owed, failures>>

\* wait_begin_frame, two calls.
WaitFrame ==
    /\ at = "wait"
    /\ refused' = (refused \/ ~rtBegun \/ rtFrame # "none")
    /\ \/ Works /\ rtFrame' = "waited" /\ at' = "begin" /\ UNCHANGED machine
       \/ Fails /\ MarkFailed /\ at' = "health" /\ UNCHANGED <<rtFrame, state, running>>
    /\ UNCHANGED <<rtState, rtBegun, events, sent, delivered, created, poll, shouldRender>>
    /\ UNCHANGED <<framesSeen, reasons>>

BeginFrame ==
    /\ at = "begin"
    /\ refused' = (refused \/ ~rtBegun \/ rtFrame # "waited")
    /\ \/ /\ Works /\ rtFrame' = "begun" /\ framesSeen' = TRUE /\ shouldRender' \in BOOLEAN
          /\ at' = "locate" /\ UNCHANGED machine
       \/ /\ Fails /\ MarkFailed /\ at' = "health"
          /\ UNCHANGED <<rtFrame, framesSeen, shouldRender, state, running>>
    /\ UNCHANGED <<rtState, rtBegun, events, sent, delivered, created, poll, reasons>>

\* locate_views: a frame that is not rendered, or has no valid pose, is ended
\* without a request.
LocateViews ==
    /\ at = "locate"
    /\ at' \in IF shouldRender THEN {"publish", "end"} ELSE {"end"}
    /\ UNCHANGED <<external, machine, created, poll, shouldRender, framesSeen, reasons, failures>>

\* A request that was not published fails the session; the frame is ended all the same.
PublishFrame ==
    /\ at = "publish" /\ at' = "end"
    /\ \/ Works /\ pendingReasons' = {} /\ owed' = {} /\ UNCHANGED machine
       \/ Fails /\ MarkFailed /\ UNCHANGED <<reasons, state, running>>
    /\ UNCHANGED <<external, created, poll, shouldRender, framesSeen>>

\* end_frame, or end_frame_visible_smoke on any of its paths.
EndFrame ==
    /\ at = "end" /\ at' = "health"
    /\ refused' = (refused \/ rtFrame # "begun") /\ rtFrame' = "none"
    /\ \/ Works /\ UNCHANGED machine
       \/ Fails /\ MarkFailed /\ UNCHANGED <<state, running>>
    /\ UNCHANGED <<rtState, rtBegun, events, sent, delivered, created, poll, shouldRender>>
    /\ UNCHANGED <<framesSeen, reasons>>

\* PublishHostHealth or Heartbeat, when one is due.
HealthAndHeartbeat ==
    /\ at = "health" /\ at' = "top"
    /\ \/ Works /\ UNCHANGED machine
       \/ Fails /\ MarkFailed /\ UNCHANGED <<state, running>>
    /\ UNCHANGED <<external, created, poll, shouldRender, framesSeen, reasons>>

PollEvents ==
    \/ RejectTransition \/ ApplyTransition \/ BeginSession \/ EndSession
    \/ ReferenceSpaceChangePending \/ InstanceLossPending \/ PollFails \/ PollReturns

Host ==
    \/ StartRuntime \/ ShutdownRuntime \/ TopOfLoop \/ PollEvents \/ WaitFrame \/ BeginFrame
    \/ LocateViews \/ PublishFrame \/ EndFrame \/ HealthAndHeartbeat

SessionNext == RuntimeSends \/ StopRequested \/ Host

SessionSpec == SessionInit /\ [][SessionNext]_sessionVars

-----------------------------------------------------------------------------
(* Properties *)

\* Every variable keeps its type.
SessionTypeOK ==
    /\ rtState \in RuntimeStates /\ rtBegun \in BOOLEAN /\ rtFrame \in {"none", "waited", "begun"}
    /\ events \in Seq(RuntimeStates \cup {"recenter", "instance loss"}) /\ sent \in 0 .. MaxEvents
    /\ delivered \in RuntimeStates /\ refused \in BOOLEAN
    /\ state \in RuntimeStates /\ running \in BOOLEAN
    /\ exitRequested \in BOOLEAN /\ sessionFailed \in BOOLEAN
    /\ created \subseteq RuntimeObjects
    /\ at \in StartStages \cup {"top", "poll", "wait", "begin", "locate", "publish", "end",
                                "health", "shutdown", "stopped"}
    /\ poll \in [history : BOOLEAN, tracking : BOOLEAN, exit : BOOLEAN]
    /\ shouldRender \in BOOLEAN /\ framesSeen \in BOOLEAN
    /\ pendingReasons \subseteq {"startup", "restart", "recenter"}
    /\ owed \subseteq {"startup", "restart", "recenter"} /\ failures \in 0 .. MaxFailures

\* The runtime never has to refuse a call for its order: sessions and frames are
\* begun and ended in pairs through every restart, loss and failing call.
RuntimeCallsInOrder == ~refused

\* The state machine never loses the runtime: each state it was sent was accepted,
\* unless the host is leaving, and both agree whether a session is begun.
FollowsRuntime ==
    /\ exitRequested \/ state = delivered
    /\ at \notin {"shutdown", "stopped"} => running = rtBegun

\* A request that is published carries every reset that happened since the last one
\* that was, across frames that were not rendered or had no pose.
ResetReachesRequest == at = "publish" => owed \subseteq pendingReasons

=============================================================================
