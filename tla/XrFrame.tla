------------------------------- MODULE XrFrame -------------------------------
(***************************************************************************)
(* What a frame of the headset draws and hands to the OpenXR runtime:      *)
(* initialize_visible_smoke, end_frame_visible_smoke and shutdown of       *)
(* openxr_runtime.cpp, its optional depth swapchain                        *)
(* (CompositorDepthResources) and its proof that the GPU is idle           *)
(* (RetireGpuWork).  A picture is the number of the stream frame whose     *)
(* camera it shows.  The GPU finishes submitted work in its own time, or   *)
(* never; the streams and the neural pipeline are external here.           *)
(***************************************************************************)
EXTENDS Integers

CONSTANTS
    MaxFrames,      \* bound on the frames of a stream
    MaxXrFaults     \* bound on failing calls

ASSUME XrAssumption == MaxFrames \in Nat \ {0} /\ MaxXrFaults \in Nat

VARIABLES
    native,         \* smoke.native_stereo: projection layers and the theater panel
    xrPc,           \* where the runtime object is
    built,          \* GPU resources of each panel (visible_smoke, theater_smoke)
    quarantined,    \* impl_ was released without being destroyed
    inFlight,       \* resources that submitted GPU work still uses
    gpuRemoved,     \* GetDeviceRemovedReason fails
    colour,         \* lease of each panel's colour image
    depthOn, depthLease, depthPending,   \* enabled; acquired, waited; gpu_pending
    misused,        \* the runtime refused an image call for its order
    streamOpen, hasCache, cache, seen,   \* gpu_stream of each panel
    rawLabel,       \* cached_raw_stereo_frame
    neuralOn, neuralIn, neuralPair,      \* pipeline; newest input; displayed pair
    panel, render, movie, candidate,     \* locals of the frame
    pass,           \* what the command list records
    picture,        \* pixels of the acquired colour image, Unwritten at first
    depthOf,        \* frame whose geometry is in the acquired depth image
    shown,          \* the last frame handed to xrEndFrame
    xrFailed, xrFaults

xrLife   == <<native, built, quarantined>>
gpu      == <<inFlight, gpuRemoved>>
depthImg == <<depthOn, depthLease, depthPending>>
streams  == <<streamOpen, hasCache, cache, seen, rawLabel>>
neural   == <<neuralOn, neuralIn, neuralPair>>
choice   == <<panel, render, movie, candidate>>
pixels   == <<picture, depthOf>>
xrVars == <<xrLife, xrPc, gpu, colour, depthImg, misused, streams, neural, choice, pass, pixels,
            shown, xrFailed, xrFaults>>

Panels == {"eyes", "theater"}
Frames == 1 .. MaxFrames
Unwritten == -1
NoPass == [stream |-> "none", neural |-> 0, warped |-> FALSE, copied |-> FALSE, depth |-> FALSE,
           label |-> 0]
Empty == [layer |-> "none", label |-> 0, picture |-> 0, depth |-> 0]

\* What initialize_visible_smoke creates for a panel, or none of it.
AllStages == {"swapchain", "views", "commands", "fence", "upload"}

XrInit ==
    /\ native \in BOOLEAN /\ built = [p \in Panels |-> {}] /\ quarantined = FALSE /\ xrPc = "setup"
    /\ inFlight = {} /\ gpuRemoved = FALSE /\ colour = [p \in Panels |-> "runtime"]
    /\ depthOn = FALSE /\ depthLease = "runtime" /\ depthPending = FALSE /\ misused = FALSE
    /\ streamOpen = [p \in Panels |-> FALSE] /\ hasCache = streamOpen
    /\ cache = [p \in Panels |-> 0] /\ seen = cache /\ rawLabel = 0
    /\ neuralOn = FALSE /\ neuralIn = 0 /\ neuralPair = 0
    /\ panel = "eyes" /\ render = FALSE /\ movie = FALSE /\ candidate = 0
    /\ pass = NoPass /\ picture = Unwritten /\ depthOf = 0 /\ shown = Empty
    /\ xrFailed = FALSE /\ xrFaults = 0

XrFault == xrFaults < MaxXrFaults /\ xrFaults' = xrFaults + 1
XrFine  == xrFaults' = xrFaults

-----------------------------------------------------------------------------
(* The GPU. *)

GpuFinishes ==
    /\ inFlight # {} /\ inFlight' = {}
    /\ UNCHANGED <<xrLife, xrPc, gpuRemoved, colour, depthImg, misused, streams, neural, choice>>
    /\ UNCHANGED <<pass, pixels, shown, xrFailed, xrFaults>>

\* Removal cancels the pending work.
DeviceRemoved ==
    /\ XrFault /\ ~gpuRemoved /\ gpuRemoved' = TRUE /\ inFlight' = {}
    /\ UNCHANGED <<xrLife, xrPc, colour, depthImg, misused, streams, neural, choice, pass, pixels>>
    /\ UNCHANGED <<shown, xrFailed>>

\* RetireGpuWork: a fence of its own is signalled behind all work and waited for.
RetireGpuWork == (gpuRemoved \/ inFlight = {}) /\ XrFine

RetireUnresolved ==
    /\ ~gpuRemoved
    /\ \/ inFlight # {} /\ XrFine
       \/ inFlight = {} /\ XrFault

-----------------------------------------------------------------------------
(* initialize_visible_smoke for the eyes, and for the theater when native, and *)
(* shutdown.                                                                   *)

Quarantine ==
    /\ RetireUnresolved /\ quarantined' = TRUE /\ xrPc' = "stopped"
    /\ UNCHANGED <<native, built, gpu, colour, depthImg, misused, streams, neural, choice, pass>>
    /\ UNCHANGED <<pixels, shown, xrFailed>>

\* reset_smoke, the resources of one panel.
ResetPanel(p) == built' = [built EXCEPT ![p] = {}]

\* Nothing is reset before the GPU is known to be idle.
BeginSetup ==
    /\ xrPc = "setup"
    /\ \/ Quarantine
       \/ /\ RetireGpuWork /\ ResetPanel(panel) /\ xrPc' = "build"
          /\ UNCHANGED <<native, quarantined, gpu, colour, depthImg, misused, streams, neural>>
          /\ UNCHANGED <<choice, pass, pixels, shown, xrFailed>>

Build(old, part) ==
    /\ xrPc = "build" /\ built[panel] = old /\ built' = [built EXCEPT ![panel] = old \cup {part}]
    /\ UNCHANGED <<native, quarantined, xrPc, gpu, colour, depthImg, misused, streams, neural>>
    /\ UNCHANGED <<choice, pass, pixels, shown, xrFailed, xrFaults>>

CreateSwapchain == Build({}, "swapchain")
CreateViews     == Build({"swapchain"}, "views")
CreateCommands  == Build({"swapchain", "views"}, "commands")
CreateFence     == Build({"swapchain", "views", "commands"}, "fence")
CreateUpload    == Build(AllStages \ {"upload"}, "upload")

BuildFails ==
    /\ xrPc = "build" /\ ResetPanel(panel) /\ xrPc' = "shutdown"
    /\ UNCHANGED <<native, quarantined, gpu, colour, depthImg, misused, streams, neural, choice>>
    /\ UNCHANGED <<pass, pixels, shown, xrFailed, xrFaults>>

\* CompositorDepthResources::Initialize: the depth image is optional.
InitializeDepth ==
    /\ depthOn' \in IF native /\ panel = "eyes" THEN BOOLEAN ELSE {depthOn}
    /\ built' = IF depthOn' /\ panel = "eyes" THEN [built EXCEPT ![panel] = @ \cup {"depth"}] ELSE built

\* The eyes of native stereo are ready; the theater is built after them.
FinishSetup ==
    /\ xrPc = "build" /\ built[panel] = AllStages /\ InitializeDepth
    /\ IF native /\ panel = "eyes" THEN panel' = "theater" /\ xrPc' = "setup"
                                   ELSE panel' = "eyes" /\ xrPc' = "idle"
    /\ UNCHANGED <<native, quarantined, gpu, colour, depthLease, depthPending, misused, streams>>
    /\ UNCHANGED <<neural, render, movie, candidate, pass, pixels, shown, xrFailed, xrFaults>>

Setup ==
    \/ BeginSetup \/ CreateSwapchain \/ CreateViews \/ CreateCommands \/ CreateFence
    \/ CreateUpload \/ BuildFails \/ FinishSetup

\* The loop ends between two frames: on a failure, an event of the session or Ctrl-C.
Leave ==
    /\ xrPc = "idle" /\ xrPc' = "shutdown"
    /\ UNCHANGED <<xrLife, gpu, colour, depthImg, misused, streams, neural, choice, pass, pixels>>
    /\ UNCHANGED <<shown, xrFailed, xrFaults>>

XrShutdown ==
    /\ xrPc = "shutdown"
    /\ \/ Quarantine
       \/ /\ RetireGpuWork /\ xrPc' = "stopped" /\ built' = [p \in Panels |-> {}]
          /\ depthOn' = FALSE /\ depthLease' = "runtime" /\ depthPending' = FALSE
          /\ streamOpen' = [p \in Panels |-> FALSE] /\ hasCache' = streamOpen'
          /\ neuralOn' = FALSE
          /\ UNCHANGED <<native, quarantined, gpu, colour, misused, cache, seen, rawLabel, neuralIn>>
          /\ UNCHANGED <<neuralPair, choice, pass, pixels, shown, xrFailed>>

-----------------------------------------------------------------------------
(* The depth image: acquired in its own order, waited for with no timeout. *)

DisableDepth == depthOn' = FALSE

\* ReleaseReady.  Variant: the failure guard gives the image back although the
\* GPU may still write it.
ReleasableInFlight == depthLease = "waited"
Releasable == depthLease = "waited" /\ ~depthPending

ReleaseReady ==
    IF Releasable
    THEN depthLease' = "runtime" /\ ((XrFine /\ UNCHANGED depthOn) \/ (XrFault /\ DisableDepth))
    ELSE XrFine /\ UNCHANGED <<depthLease, depthOn>>

\* AcquireReady, with the outcome of the calls: an acquire that times out is kept.
AcquireReady(ready) ==
    /\ depthOn /\ ~depthPending
    /\ \/ depthLease = "runtime" /\ ~ready /\ XrFault /\ DisableDepth /\ UNCHANGED depthLease
       \/ depthLease # "waited" /\ ~ready /\ XrFine /\ depthLease' = "acquired" /\ UNCHANGED depthOn
       \/ depthLease # "waited" /\ ~ready /\ XrFault /\ DisableDepth /\ depthLease' = "acquired"
       \/ ready /\ XrFine /\ depthLease' = "waited" /\ UNCHANGED depthOn

-----------------------------------------------------------------------------
(* A frame, before anything is acquired. *)

\* The panel: the theater for a movie, when forced, and away from the 3D world.
ChoosePanel ==
    /\ xrPc = "idle" /\ ~xrFailed /\ xrPc' = "poll"
    /\ render' \in BOOLEAN /\ movie' \in BOOLEAN
    /\ panel' \in IF native THEN Panels ELSE {"eyes"}
    /\ movie' => panel' = "theater"
    /\ shown' = Empty
    /\ UNCHANGED <<xrLife, gpu, colour, depthImg, misused, streams, neural, candidate, pass, pixels>>
    /\ UNCHANGED <<xrFailed, xrFaults>>

\* TryOpen when closed, then PollLatest: with native stereo the frame counts only
\* when its metadata can be read (candidate_stereo_frame) and fits the atlas.
PollStream ==
    /\ xrPc = "poll" /\ xrPc' = IF render THEN "acquire" ELSE "end empty"
    /\ \/ movie /\ UNCHANGED <<streamOpen, candidate>>
       \/ ~movie /\ ~streamOpen[panel] /\ UNCHANGED <<streamOpen, candidate>>
       \/ /\ ~movie /\ streamOpen' = [streamOpen EXCEPT ![panel] = TRUE]
          /\ candidate' \in {0} \cup seen[panel] + 1 .. MaxFrames
    /\ XrFine
    /\ UNCHANGED <<xrLife, gpu, colour, depthImg, misused, hasCache, cache, seen, rawLabel, neural>>
    /\ UNCHANGED <<panel, render, movie, pass, pixels, shown, xrFailed>>

\* FenceQueryFailed: the stream and its cache texture are closed.
CloseStream ==
    /\ xrPc = "poll" /\ ~movie /\ streamOpen[panel] /\ XrFault
    /\ xrPc' = IF render THEN "acquire" ELSE "end empty"
    /\ streamOpen' = [streamOpen EXCEPT ![panel] = FALSE]
    /\ hasCache' = [hasCache EXCEPT ![panel] = FALSE]
    /\ built' = [built EXCEPT ![panel] = @ \ {"cache"}]
    /\ UNCHANGED <<native, quarantined, gpu, colour, depthImg, misused, cache, seen, rawLabel>>
    /\ UNCHANGED <<neural, choice, pass, pixels, shown, xrFailed>>

-----------------------------------------------------------------------------
(* The end of a frame without layers. *)

\* The frame's locals and its command list are gone.
Forget ==
    /\ pass' = NoPass /\ picture' = Unwritten /\ depthOf' = 0
    /\ panel' = "eyes" /\ render' = FALSE /\ movie' = FALSE /\ candidate' = 0

FrameFails == xrFailed' = TRUE /\ xrPc' = "end empty"

\* end_empty_after_failure, the frame that is not rendered, and the destructor of
\* DepthImageReleaseGuard.
EndEmpty ==
    /\ xrPc = "end empty" /\ xrPc' = "idle" /\ shown' = Empty /\ ReleaseReady /\ Forget
    /\ UNCHANGED <<xrLife, gpu, colour, depthPending, misused, streams, neural, xrFailed>>

-----------------------------------------------------------------------------
(* A rendered frame. *)

AcquireColour ==
    /\ xrPc = "acquire" /\ misused' = (misused \/ colour[panel] # "runtime")
    /\ \/ XrFine /\ colour' = [colour EXCEPT ![panel] = "waited"] /\ xrPc' = "reset" /\ UNCHANGED xrFailed
       \/ XrFault /\ FrameFails /\ colour' \in {colour, [colour EXCEPT ![panel] = "acquired"]}
    /\ UNCHANGED <<xrLife, gpu, depthImg, streams, neural, choice, pass, pixels, shown>>

ReleaseColour ==
    /\ colour' = [colour EXCEPT ![panel] = "runtime"]
    /\ misused' = (misused \/ colour[panel] # "waited")

ResetCommands ==
    /\ xrPc = "reset"
    /\ \/ XrFine /\ xrPc' = "stream" /\ UNCHANGED <<colour, misused, xrFailed>>
       \/ XrFault /\ FrameFails /\ ReleaseColour
    /\ UNCHANGED <<xrLife, gpu, depthImg, streams, neural, choice, pass, pixels, shown>>

DrawsEyes == native /\ panel = "eyes"

\* QueueWait and RecordCopy of the fresh frame into the cache, or the cached one.
RecordStream ==
    /\ xrPc = "stream" /\ xrPc' = IF DrawsEyes THEN "neural" ELSE "depth"
    /\ \/ /\ candidate # 0 /\ XrFine
          /\ pass' = [pass EXCEPT !.stream = "fresh", !.copied = TRUE]
          /\ hasCache' = [hasCache EXCEPT ![panel] = TRUE]
          /\ built' = [built EXCEPT ![panel] = @ \cup {"cache"}]
       \/ /\ candidate # 0 \/ (~DrawsEyes /\ ~movie /\ hasCache[panel])
          /\ XrFault /\ UNCHANGED <<pass, hasCache, built>>
       \/ /\ candidate = 0 /\ ~movie /\ hasCache[panel] /\ XrFine
          /\ pass' = [pass EXCEPT !.stream = "cached", !.copied = TRUE]
          /\ UNCHANGED <<hasCache, built>>
       \/ candidate = 0 /\ (movie \/ ~hasCache[panel]) /\ XrFine /\ UNCHANGED <<pass, hasCache, built>>
    /\ UNCHANGED <<native, quarantined, gpu, colour, depthImg, misused, streamOpen, cache, seen>>
    /\ UNCHANGED <<rawLabel, neural, choice, pixels, shown, xrFailed>>

Raw == IF pass.stream = "fresh" THEN candidate ELSE rawLabel

\* The neural pipeline starts with the first frame that has its guides, may be
\* toggled off, and displays a finished pair or none; that pair is warped to the
\* camera of the raw frame when reprojection works.
RecordNeural ==
    /\ xrPc = "neural" /\ xrPc' = "depth" /\ neuralOn' \in BOOLEAN
    /\ IF pass.copied /\ neuralOn'
       THEN \E n \in {0, neuralPair} \cup neuralPair + 1 .. neuralIn, w \in BOOLEAN :
              /\ pass' = [pass EXCEPT !.neural = n, !.warped = (w /\ n # 0)]
              /\ neuralPair' = IF n = 0 THEN neuralPair ELSE n
       ELSE UNCHANGED <<pass, neuralPair>>
    /\ UNCHANGED <<xrLife, gpu, colour, depthImg, misused, streams, neuralIn, choice, pixels, shown>>
    /\ UNCHANGED <<xrFailed, xrFaults>>

\* displayed_frame.  Variant: the label of the pair even when its pixels were warped.
DisplayedAsPair(n, warped, raw) == IF n # 0 THEN n ELSE raw
Displayed(n, warped, raw) == IF n # 0 /\ ~warped THEN n ELSE raw

\* The raw copy when no pair is displayed, and the optional depth of the frame
\* that is displayed.
RecordDepth ==
    /\ xrPc = "depth" /\ xrPc' = "close"
    /\ LET label == Displayed(pass.neural, pass.warped, Raw) IN
       \/ /\ XrFine /\ pass' = [pass EXCEPT !.label = label] /\ UNCHANGED depthImg
       \/ /\ DrawsEyes /\ pass.copied /\ pass.neural = 0 /\ XrFault
          /\ pass' = [pass EXCEPT !.copied = FALSE] /\ UNCHANGED depthImg
       \/ /\ DrawsEyes /\ pass.copied
          /\ \E usable \in BOOLEAN :
               /\ pass' = [pass EXCEPT !.label = label, !.depth = usable]
               /\ AcquireReady(usable) /\ UNCHANGED depthPending
    /\ UNCHANGED <<xrLife, gpu, colour, misused, streams, neural, choice, pixels, shown, xrFailed>>

\* Recording the depth unpack fails: the depth is given up, the image released later.
RecordDepthFails ==
    /\ xrPc = "depth" /\ xrPc' = "close" /\ DrawsEyes /\ pass.copied
    /\ depthOn /\ ~depthPending /\ XrFault /\ DisableDepth /\ depthLease' = "waited"
    /\ pass' = [pass EXCEPT !.label = Displayed(pass.neural, pass.warped, Raw)]
    /\ UNCHANGED <<xrLife, gpu, colour, depthPending, misused, streams, neural, choice, pixels, shown>>
    /\ UNCHANGED xrFailed

CloseCommands ==
    /\ xrPc = "close"
    /\ \/ XrFine /\ xrPc' = "execute" /\ UNCHANGED <<colour, misused, xrFailed>>
       \/ XrFault /\ FrameFails /\ ReleaseColour
    /\ UNCHANGED <<xrLife, gpu, depthImg, streams, neural, choice, pass, pixels, shown>>

\* ExecuteCommandLists, the neural input, and the label of the cache: metadata
\* follows the queued copy even when the acknowledgement to the producer fails.
Execute ==
    /\ xrPc = "execute" /\ xrPc' = "wait"
    /\ inFlight' = IF gpuRemoved THEN {} ELSE
         {<<panel, r>> : r \in {"swapchain", "commands"}
                              \cup (IF pass.stream # "none" THEN {"cache"} ELSE {})
                              \cup (IF pass.copied THEN {} ELSE {"upload"})
                              \cup (IF pass.depth THEN {"depth"} ELSE {})}
    /\ depthPending' = (depthPending \/ pass.depth)
    /\ cache' = IF pass.stream = "fresh" THEN [cache EXCEPT ![panel] = candidate] ELSE cache
    /\ picture' = IF pass.copied THEN (IF pass.neural # 0 /\ ~pass.warped THEN pass.neural
                                                                          ELSE cache'[panel])
                                 ELSE 0
    /\ depthOf' = IF ~pass.depth THEN 0
                  ELSE IF pass.neural # 0 /\ ~pass.warped THEN pass.neural ELSE cache'[panel]
    /\ rawLabel' = IF pass.stream = "fresh" /\ DrawsEyes THEN candidate ELSE rawLabel
    /\ neuralIn' = IF neuralOn /\ DrawsEyes /\ pass.stream # "none" THEN cache'[panel] ELSE neuralIn
    /\ \/ XrFine /\ seen' = IF pass.stream = "fresh" THEN [seen EXCEPT ![panel] = candidate] ELSE seen
       \/ pass.stream = "fresh" /\ XrFault /\ UNCHANGED seen
    /\ UNCHANGED <<xrLife, gpuRemoved, colour, depthOn, depthLease, misused, streamOpen, hasCache>>
    /\ UNCHANGED <<neuralOn, neuralPair, choice, pass, shown, xrFailed>>

\* The frame's own fence: signalled, waited for at most five seconds, and read again.
WaitForGpu ==
    /\ xrPc = "wait"
    /\ \/ /\ inFlight = {} /\ ~gpuRemoved /\ XrFine /\ xrPc' = "release" /\ depthPending' = FALSE
          /\ UNCHANGED xrFailed
       \/ XrFault /\ FrameFails /\ UNCHANGED depthPending
       \/ gpuRemoved /\ XrFine /\ FrameFails /\ UNCHANGED depthPending
    /\ UNCHANGED <<xrLife, gpu, colour, depthOn, depthLease, misused, streams, neural, choice, pass>>
    /\ UNCHANGED <<pixels, shown>>

\* Depth is submitted only when it was drawn and its image could be released.
ReleaseImages ==
    /\ xrPc = "release"
    /\ \/ /\ ReleaseReady /\ ReleaseColour /\ xrPc' = "submit"
          /\ pass' = [pass EXCEPT !.depth = @ /\ Releasable /\ depthOn']
          /\ UNCHANGED xrFailed
       \/ /\ XrFault /\ FrameFails /\ UNCHANGED <<depthOn, pass, colour, misused>>
          /\ depthLease' = IF Releasable THEN "runtime" ELSE depthLease
    /\ UNCHANGED <<xrLife, gpu, depthPending, streams, neural, choice, pixels, shown>>

\* cached_stereo_frame labels the projection; anything else is a quad.
SubmitLayers ==
    /\ xrPc = "submit" /\ xrPc' = "idle" /\ Forget
    /\ shown' = IF DrawsEyes /\ pass.copied /\ pass.label # 0
                THEN [layer |-> "projection", label |-> pass.label, picture |-> picture,
                      depth |-> IF pass.depth THEN depthOf ELSE 0]
                ELSE [layer |-> "quad", label |-> 0, picture |-> picture, depth |-> 0]
    /\ \/ XrFine /\ UNCHANGED xrFailed
       \/ XrFault /\ xrFailed' = TRUE
    /\ UNCHANGED <<xrLife, gpu, colour, depthImg, misused, streams, neural>>

XrFrameSteps ==
    \/ ChoosePanel \/ PollStream \/ CloseStream \/ EndEmpty \/ AcquireColour \/ ResetCommands
    \/ RecordStream \/ RecordNeural \/ RecordDepth \/ RecordDepthFails \/ CloseCommands
    \/ Execute \/ WaitForGpu \/ ReleaseImages \/ SubmitLayers

XrNext == Setup \/ Leave \/ XrShutdown \/ XrFrameSteps \/ GpuFinishes \/ DeviceRemoved

XrSpec == XrInit /\ [][XrNext]_xrVars

-----------------------------------------------------------------------------
(* Properties *)

\* Every variable keeps its type.
XrTypeOK ==
    /\ native \in BOOLEAN /\ quarantined \in BOOLEAN /\ gpuRemoved \in BOOLEAN
    /\ xrPc \in {"setup", "build", "idle", "poll", "acquire", "reset", "stream",
                 "neural", "depth", "close", "execute", "wait", "release", "submit", "end empty",
                 "shutdown", "stopped"}
    /\ LET parts == AllStages \cup {"depth", "cache"} IN
         built \in [Panels -> SUBSET parts] /\ inFlight \subseteq Panels \X parts
    /\ colour \in [Panels -> {"runtime", "acquired", "waited"}]
    /\ depthOn \in BOOLEAN /\ depthLease \in {"runtime", "acquired", "waited"}
    /\ depthPending \in BOOLEAN /\ misused \in BOOLEAN
    /\ streamOpen \in [Panels -> BOOLEAN] /\ hasCache \in [Panels -> BOOLEAN]
    /\ cache \in [Panels -> 0 .. MaxFrames] /\ seen \in [Panels -> 0 .. MaxFrames]
    /\ rawLabel \in 0 .. MaxFrames /\ neuralOn \in BOOLEAN
    /\ neuralIn \in 0 .. MaxFrames /\ neuralPair \in 0 .. MaxFrames
    /\ panel \in Panels /\ render \in BOOLEAN /\ movie \in BOOLEAN /\ candidate \in 0 .. MaxFrames
    /\ pass \in [stream : {"none", "fresh", "cached"}, neural : 0 .. MaxFrames, warped : BOOLEAN,
                 copied : BOOLEAN, depth : BOOLEAN, label : 0 .. MaxFrames]
    /\ picture \in Unwritten .. MaxFrames /\ depthOf \in 0 .. MaxFrames
    /\ shown \in [layer : {"none", "quad", "projection"}, label : 0 .. MaxFrames,
                  picture : Unwritten .. MaxFrames, depth : 0 .. MaxFrames]
    /\ xrFailed \in BOOLEAN /\ xrFaults \in 0 .. MaxXrFaults

\* What the GPU may still touch is alive, and the images among it are still leased
\* from the runtime: no path of a failing frame gives one back, and a shutdown that
\* cannot prove the GPU idle keeps everything.  The runtime never refuses a colour
\* image for its order.
GpuUsesOnlyWhatIsHeld ==
    /\ \A u \in inFlight : u[2] \in built[u[1]]
    /\ \A p \in Panels : <<p, "swapchain">> \in inFlight => colour[p] = "waited"
    /\ <<"eyes", "depth">> \in inFlight => depthLease = "waited"
    /\ ~misused

\* A projection is labelled with the camera whose pixels it shows, and its depth is
\* the geometry of that camera, whether the pixels are raw, neural, warped or
\* cached; no layer shows an image nothing was drawn into.
LabelsMatchPixels ==
    /\ shown.layer = "projection" => shown.label = shown.picture /\ shown.depth \in {0, shown.label}
    /\ shown.layer # "none" => shown.picture # Unwritten

=============================================================================
