---------------------------- MODULE GameCapture ----------------------------
(***************************************************************************)
(* The smoke bootstrap of the game library, the one-shot image capture it  *)
(* arms and the host's reader of the captured image (game_image_capture,   *)
(* K2VR_GameImageSmokeBootstrap, game_image_snapshot).                     *)
(*                                                                         *)
(* The bootstrap thread arms the capture, starts the bridge, installs the  *)
(* scene hooks and patches two import cells; whatever fails, it undoes the *)
(* earlier parts.  From the moment the scene hooks are in, render threads  *)
(* pass through GameImageCaptureAfterScenePass and the first one that is   *)
(* triggered captures, publishes the image in a mapping guarded by a       *)
(* sequence number, and starts the stream.  The host may open and read the *)
(* mapping at any moment.                                                  *)
(*                                                                         *)
(* An image is two rows, each 0 before and 1 after it is copied; the       *)
(* header's fields and the two words of the diagnostic likewise.  The 32   *)
(* attempts of a read keep nothing from one to the next, so an attempt     *)
(* that fails is a read that starts again.                                 *)
(***************************************************************************)
EXTENDS Integers, FiniteSets

CONSTANTS CaptureThreads,  \* threads that run the hooked scene pass
          MaxPasses,       \* bound: scene passes explored
          MaxReads         \* bound: reads of the host that reach the rows

ASSUME CaptureAssumption ==
    MaxPasses \in Nat /\ MaxReads \in Nat /\ "nobody" \notin CaptureThreads

VARIABLES smoke,         \* where the bootstrap stands
          bridgeUp,      \* K2VR_VrBridgeBootstrap succeeded, not stopped since
          hooked,        \* the scene hooks are installed
          drainTimedOut, \* StopRenderTrace gave up on a wrapper in flight
          imports,       \* import cell -> who it points to
          saved,         \* cells whose original function is remembered
          capture,       \* g_capture_state
          shot,          \* where each thread is in its pass
          published,     \* CaptureAndPublish succeeded
          atPresent,     \* g_capture_at_present
          streamOwner,   \* the thread whose context the stream runs in
          sceneFed,      \* the scene pass fed the frame not yet presented
          passes,
          snap,          \* the mapping, NoMapping before it exists
          reader,        \* the host's GameImageSnapshotReader
          latestShot,    \* its accepted image
          reads

bootVars == <<smoke, bridgeUp, hooked, drainTimedOut, imports, saved>>
passVars == <<capture, shot, published, atPresent, streamOwner, sceneFed, passes>>
readVars == <<reader, latestShot, reads>>
captureVars == <<bootVars, passVars, snap, readVars>>

ImportCells == {"SwapBuffers", "wglDeleteContext"}
Nobody == "nobody"
NoMapping == [seq |-> -1, fields |-> 0, rows |-> <<0, 0>>, words |-> <<0, 0>>]
FreshMapping == [NoMapping EXCEPT !.seq = 0]
Closed == [at |-> "closed", before |-> -1, copy |-> NoMapping]

\* The thread is between its claim of the capture and the end of it.
CapturingStages == {"readback", "header", "row", "row2", "publish", "start",
                    "diagnose", "word", "word2", "even", "finish"}

CaptureInit ==
    /\ smoke = "idle" /\ bridgeUp = FALSE /\ hooked = FALSE /\ drainTimedOut = FALSE
    /\ imports = [c \in ImportCells |-> "original"] /\ saved = {}
    /\ capture = "Idle" /\ shot = [t \in CaptureThreads |-> "out"]
    /\ published = FALSE /\ atPresent = FALSE /\ streamOwner = Nobody
    /\ sceneFed = FALSE /\ passes = 0
    /\ snap = NoMapping
    /\ reader = Closed /\ latestShot = NoMapping /\ reads = 0

----------------------------------------------------------------------------
(* The bootstrap thread.                                                   *)

Boot(from, to) == smoke = from /\ smoke' = to

\* ArmGameImageCapture claims Idle; only one caller ever gets past this.
Arm ==
    /\ Boot("idle", "arming") /\ capture = "Idle" /\ capture' = "Arming"
    /\ UNCHANGED <<bridgeUp, hooked, drainTimedOut, imports, saved, shot, published,
                   atPresent, streamOwner, sceneFed, passes, snap, readVars>>

\* The mapping name or the log line fails: nothing was armed.
ArmFails ==
    /\ Boot("arming", "failed") /\ capture' = "Failed"
    /\ UNCHANGED <<bridgeUp, hooked, drainTimedOut, imports, saved, shot, published,
                   atPresent, streamOwner, sceneFed, passes, snap, readVars>>

Armed ==
    /\ Boot("arming", "bridge") /\ capture' = "Armed"
    /\ UNCHANGED <<bridgeUp, hooked, drainTimedOut, imports, saved, shot, published,
                   atPresent, streamOwner, sceneFed, passes, snap, readVars>>

StartBridge ==
    /\ Boot("bridge", "hooks") /\ bridgeUp' = TRUE
    /\ UNCHANGED <<hooked, drainTimedOut, imports, saved, passVars, snap, readVars>>

InstallHooks ==
    /\ Boot("hooks", "report") /\ hooked' = TRUE
    /\ UNCHANGED <<bridgeUp, drainTimedOut, imports, saved, passVars, snap, readVars>>

ReportHooks ==
    /\ Boot("report", "install")
    /\ UNCHANGED <<bridgeUp, hooked, drainTimedOut, imports, saved, passVars, snap, readVars>>

\* A part failed: the bridge, the hooks, the log line, an import cell that
\* is not the original's or cannot be unprotected, or the movie hooks.
PartFails ==
    /\ smoke \in {"bridge", "hooks", "report", "install"} /\ smoke' = "cancel"
    /\ UNCHANGED <<bridgeUp, hooked, drainTimedOut, imports, saved, passVars, snap, readVars>>

\* The original is remembered before the cell is exchanged.
RememberOriginal(c) == saved' = saved \cup {c}

\* InstallGameImagePresentCapture: check the cell, unprotect it, remember.
PrepareCell(c) ==
    /\ Boot("install", c)
    /\ imports[c] = "original"
    /\ RememberOriginal(c)
    /\ UNCHANGED <<bridgeUp, hooked, drainTimedOut, imports, passVars, snap, readVars>>

\* Exchange it; the page's protection may fail to come back either way.
ExchangeCell(c) ==
    /\ smoke = c
    /\ \/ /\ imports[c] = "original" /\ imports' = [imports EXCEPT ![c] = "ours"]
          /\ smoke' \in {"install", "cancel"} /\ UNCHANGED saved
       \/ /\ imports[c] = "foreign" /\ saved' = saved \ {c}
          /\ smoke' = "cancel" /\ UNCHANGED imports
    /\ UNCHANGED <<bridgeUp, hooked, drainTimedOut, passVars, snap, readVars>>

\* Another library patches an import cell that is still the original.
ForeignCell(c) ==
    /\ smoke \notin {"ready", "failed"} /\ imports[c] = "original"
    /\ imports' = [imports EXCEPT ![c] = "foreign"]
    /\ UNCHANGED <<smoke, bridgeUp, hooked, drainTimedOut, saved, passVars, snap, readVars>>

BootReady ==
    /\ Boot("install", "ready") /\ \A c \in ImportCells : imports[c] = "ours"
    /\ UNCHANGED <<bridgeUp, hooked, drainTimedOut, imports, saved, passVars, snap, readVars>>

\* CancelGameImageCaptureArm: an armed capture fails, one that runs goes on.
CancelArm ==
    /\ smoke = "cancel" /\ atPresent' = FALSE
    /\ capture' = IF capture = "Armed" THEN "Failed" ELSE capture

CancelBoot ==
    /\ CancelArm
    /\ smoke' = IF hooked THEN "drain" ELSE "unbridge"
    /\ hooked' = FALSE
    /\ UNCHANGED <<bridgeUp, drainTimedOut, imports, saved, shot, published, streamOwner,
                   sceneFed, passes, snap, readVars>>

\* StopRenderTrace waits for the wrappers in flight, for so long.
Drain ==
    /\ Boot("drain", "unbridge")
    /\ drainTimedOut' = (\E t \in CaptureThreads : shot[t] # "out")
    /\ UNCHANGED <<bridgeUp, hooked, imports, saved, passVars, snap, readVars>>

StopBridge ==
    /\ Boot("unbridge", "failed") /\ bridgeUp' = FALSE
    /\ UNCHANGED <<hooked, drainTimedOut, imports, saved, passVars, snap, readVars>>

----------------------------------------------------------------------------
(* The render threads in GameImageCaptureAfterScenePass.                   *)

Move(t, from, to) == shot[t] = from /\ shot' = [shot EXCEPT ![t] = to]

EnterPass(t) ==
    /\ hooked /\ passes < MaxPasses /\ passes' = passes + 1
    /\ \/ capture = "Armed" /\ Move(t, "out", "armed")
       \/ capture # "Armed" /\ streamOwner # Nobody /\ Move(t, "out", "feed")
    /\ UNCHANGED <<bootVars, capture, published, atPresent, streamOwner, sceneFed, snap,
                   readVars>>

\* A claim needs the state to be Armed still.
Claimable == capture = "Armed"

\* The key or the automatic start triggers, and this thread's exchange wins.
ClaimCapture(t) ==
    /\ Claimable /\ Move(t, "armed", "readback") /\ capture' = "Capturing"
    /\ UNCHANGED <<bootVars, published, atPresent, streamOwner, sceneFed, passes, snap,
                   readVars>>

\* Not triggered, or another thread or the cancellation was first.
DeclineCapture(t) ==
    /\ Move(t, "armed", "feed")
    /\ UNCHANGED <<bootVars, capture, published, atPresent, streamOwner, sceneFed, passes,
                   snap, readVars>>

\* CaptureAndPublish fails: no context, viewport, layout, memory, read-back,
\* or a mapping of that name exists already or cannot be viewed.
CaptureFails(t) ==
    /\ Move(t, "readback", "start")
    /\ UNCHANGED <<bootVars, capture, published, atPresent, streamOwner, sceneFed, passes,
                   snap, readVars>>

\* The fields and the rows are written under sequence 1, which becomes 2
\* after the last row; the mapping is kept for good.
PublishImage(t) == Move(t, "publish", "start") /\ snap' = [snap EXCEPT !.seq = 2]

WriteImage(t) ==
    /\ \/ Move(t, "readback", "header") /\ snap' = FreshMapping
       \/ Move(t, "header", "row") /\ snap' = [snap EXCEPT !.seq = 1, !.fields = 1]
       \/ Move(t, "row", "row2") /\ snap' = [snap EXCEPT !.rows[1] = 1]
       \/ Move(t, "row2", "publish") /\ snap' = [snap EXCEPT !.rows[2] = 1]
       \/ PublishImage(t)
    /\ published' = (published \/ snap'.seq = 2)
    /\ UNCHANGED <<bootVars, capture, atPresent, streamOwner, sceneFed, passes, readVars>>

\* The stream starts whether or not the image was published, fed from the
\* present when the request is third person, from the scene pass otherwise.
StartStream(t) ==
    /\ Move(t, "start", IF published THEN "diagnose" ELSE "finish")
    /\ atPresent' \in BOOLEAN /\ streamOwner' \in {t, Nobody}
    /\ UNCHANGED <<bootVars, capture, published, sceneFed, passes, snap, readVars>>

\* PublishGpuStreamDiagnostic: odd, the two words, even.
WriteDiagnostic(t) ==
    /\ \/ Move(t, "diagnose", "word") /\ snap' = [snap EXCEPT !.seq = @ + 1]
       \/ Move(t, "word", "word2") /\ snap' = [snap EXCEPT !.words[1] = 1]
       \/ Move(t, "word2", "even") /\ snap' = [snap EXCEPT !.words[2] = 1]
       \/ Move(t, "even", "finish") /\ snap' = [snap EXCEPT !.seq = @ + 1]
    /\ UNCHANGED <<bootVars, capture, published, atPresent, streamOwner, sceneFed, passes,
                   readVars>>

FinishCapture(t) ==
    /\ Move(t, "finish", "feed")
    /\ capture' = IF published THEN "Published" ELSE "Failed"
    /\ UNCHANGED <<bootVars, published, atPresent, streamOwner, sceneFed, passes, snap,
                   readVars>>

\* Who feeds the stream is asked at the end of the pass, after the capture.
SceneFeeds(t) == ~atPresent /\ streamOwner = t

LeavePass(t) ==
    /\ Move(t, "feed", "out")
    /\ sceneFed' = (sceneFed \/ SceneFeeds(t))
    /\ UNCHANGED <<bootVars, capture, published, atPresent, streamOwner, passes, snap,
                   readVars>>

PresentFeeds(t) == imports["SwapBuffers"] = "ours" /\ atPresent /\ streamOwner = t

\* CaptureSwapBuffers, or the original when the cell is not ours.
Present(t) ==
    /\ shot[t] = "out" /\ sceneFed /\ streamOwner = t
    /\ sceneFed' = FALSE
    /\ UNCHANGED <<bootVars, capture, shot, published, atPresent, streamOwner, passes, snap,
                   readVars>>

----------------------------------------------------------------------------
(* The host: TryOpen, ReadLatest, Close.                                   *)

OpenSnapshot ==
    /\ reader.at = "closed" /\ snap # NoMapping
    /\ reader' = [Closed EXCEPT !.at = "open"]
    /\ UNCHANGED <<bootVars, passVars, snap, latestShot, reads>>

\* An even, nonzero sequence number starts an attempt; others return.
BeginSnapshot ==
    /\ reader.at = "open" /\ snap.seq > 0 /\ snap.seq % 2 = 0 /\ reads < MaxReads
    /\ reader' = [reader EXCEPT !.at = "header", !.before = snap.seq,
                                !.copy = [snap EXCEPT !.rows = <<0, 0>>, !.words[2] = 0]]
    /\ reads' = reads + 1
    /\ UNCHANGED <<bootVars, passVars, snap, latestShot>>

\* The rest of the header's copy, which is then validated.
CopyHeader ==
    /\ reader.at = "header"
    /\ reader' = [reader EXCEPT !.at = "validate", !.copy.words[2] = snap.words[2]]
    /\ UNCHANGED <<bootVars, passVars, snap, latestShot, reads>>

\* A header that does not validate ends the read; an unchanged one too.
ReturnsEarly == reader.copy.fields = 0 \/ reader.before = latestShot.seq

CopyRow ==
    /\ \/ /\ reader.at = "validate"
          /\ reader' = IF ReturnsEarly THEN [reader EXCEPT !.at = "open"]
                       ELSE [reader EXCEPT !.at = "row", !.copy.rows[1] = snap.rows[1]]
       \/ /\ reader.at = "row"
          /\ reader' = [reader EXCEPT !.at = "again", !.copy.rows[2] = snap.rows[2]]
    /\ UNCHANGED <<bootVars, passVars, snap, latestShot, reads>>

\* The copy counts when the sequence number has not moved.
Unmoved == snap.seq = reader.before

AcceptSnapshot ==
    /\ reader.at = "again" /\ reader' = [reader EXCEPT !.at = "open"]
    /\ latestShot' = IF Unmoved THEN [reader.copy EXCEPT !.seq = reader.before] ELSE latestShot
    /\ UNCHANGED <<bootVars, passVars, snap, reads>>

CloseSnapshot ==
    /\ reader.at = "open" /\ reader' = Closed /\ latestShot' = NoMapping
    /\ UNCHANGED <<bootVars, passVars, snap, reads>>

----------------------------------------------------------------------------

CaptureNext ==
    \/ Arm \/ ArmFails \/ Armed \/ StartBridge \/ InstallHooks \/ ReportHooks
    \/ PartFails \/ BootReady \/ CancelBoot \/ Drain \/ StopBridge
    \/ \E c \in ImportCells : PrepareCell(c) \/ ExchangeCell(c) \/ ForeignCell(c)
    \/ \E t \in CaptureThreads :
          \/ EnterPass(t) \/ ClaimCapture(t) \/ DeclineCapture(t) \/ CaptureFails(t)
          \/ WriteImage(t) \/ StartStream(t) \/ WriteDiagnostic(t) \/ FinishCapture(t)
          \/ LeavePass(t) \/ Present(t)
    \/ OpenSnapshot \/ BeginSnapshot \/ CopyHeader \/ CopyRow \/ AcceptSnapshot
    \/ CloseSnapshot

CaptureSpec == CaptureInit /\ [][CaptureNext]_captureVars

----------------------------------------------------------------------------

\* Every variable of the bootstrap, the capture and the reader has its type.
CaptureTypeOK ==
    /\ smoke \in {"idle", "arming", "bridge", "hooks", "report", "install", "cancel",
                  "drain", "unbridge", "failed", "ready"} \cup ImportCells
    /\ {bridgeUp, hooked, drainTimedOut, published, atPresent, sceneFed} \subseteq BOOLEAN
    /\ imports \in [ImportCells -> {"original", "ours", "foreign"}]
    /\ saved \subseteq ImportCells
    /\ capture \in {"Idle", "Arming", "Armed", "Capturing", "Published", "Failed"}
    /\ shot \in [CaptureThreads -> CapturingStages \cup {"out", "armed", "feed"}]
    /\ streamOwner \in CaptureThreads \cup {Nobody}
    /\ passes \in 0..MaxPasses /\ reads \in 0..MaxReads
    /\ snap.seq \in -1..4

\* An image the host accepted is one publication: every row, the fields and
\* either no word or both words of the diagnostic, as its sequence number
\* says.  And although the header is validated before the sequence number is
\* looked at again, no header the host validates is unfinished.
SnapshotWhole ==
    /\ latestShot # NoMapping =>
          /\ latestShot.fields = 1 /\ latestShot.rows = <<1, 1>>
          /\ latestShot.words = IF latestShot.seq = 2 THEN <<0, 0>> ELSE <<1, 1>>
    /\ reader.at = "validate" => reader.copy.fields = 1

\* One thread at most captures, and only while the state says so; a frame
\* the scene pass fed to the stream is not fed again by the present.
CapturedOnce ==
    /\ \A t \in CaptureThreads : shot[t] \in CapturingStages =>
          capture = "Capturing" /\ \A u \in CaptureThreads \ {t} : shot[u] \notin CapturingStages
    /\ sceneFed => \A t \in CaptureThreads : ~PresentFeeds(t)

\* A bootstrap that failed leaves nothing armed, no bridge, no scene hooks
\* and, unless the wait for the wrappers in flight ran out, no capture in
\* flight; a patched import cell always has its original remembered.
FailedBootstrapDisarms ==
    /\ smoke = "failed" =>
          /\ ~bridgeUp /\ ~hooked /\ capture # "Armed"
          /\ ~drainTimedOut => capture \in {"Failed", "Published"}
    /\ \A c \in ImportCells : imports[c] = "ours" => c \in saved
============================================================================
