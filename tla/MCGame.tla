------------------------------- MODULE MCGame -------------------------------
(***************************************************************************)
(* Model checking of the game library's parts around the stereo producer:  *)
(* the mono stream, the render trace, the smoke bootstrap with its image   *)
(* capture, the movie channel, the camera pass and the probe.              *)
(*                                                                         *)
(* They share no state with one another, so a behaviour of all of them is  *)
(* a shuffle of behaviours of each.  A run therefore follows one of them,  *)
(* the focus, and leaves the others at their start.                        *)
(***************************************************************************)
EXTENDS MonoStream, RenderTrace, GameCapture, MovieChannel, CameraPass, Probe, TLC

VARIABLE focus

monoRest    == <<focus, traceVars, captureVars, movieVars, cameraVars, probeVars>>
traceRest   == <<focus, monoVars, captureVars, movieVars, cameraVars, probeVars>>
captureRest == <<focus, monoVars, traceVars, movieVars, cameraVars, probeVars>>
movieRest   == <<focus, monoVars, traceVars, captureVars, cameraVars, probeVars>>
cameraRest  == <<focus, monoVars, traceVars, captureVars, movieVars, probeVars>>
probeRest   == <<focus, monoVars, traceVars, captureVars, movieVars, cameraVars>>

Init ==
    /\ focus \in {"mono", "trace", "capture", "movie", "camera", "probe"}
    /\ MonoInit /\ TraceInit /\ CaptureInit /\ MovieInit /\ CameraInit /\ ProbeInit

Next ==
    \/ focus = "mono"    /\ MonoNext    /\ UNCHANGED monoRest
    \/ focus = "trace"   /\ TraceNext   /\ UNCHANGED traceRest
    \/ focus = "capture" /\ CaptureNext /\ UNCHANGED captureRest
    \/ focus = "movie"   /\ MovieNext   /\ UNCHANGED movieRest
    \/ focus = "camera"  /\ CameraNext  /\ UNCHANGED cameraRest
    \/ focus = "probe"   /\ ProbeNext   /\ UNCHANGED probeRest

Spec == Init /\ [][Next]_<<focus, monoVars, traceVars, captureVars, movieVars, cameraVars, probeVars>>

\* The render threads and the movies are interchangeable.
Symmetry == Permutations(RenderThreads) \cup Permutations(Movies)

----------------------------------------------------------------------------

\* Every variable of the part in focus has its type.
GameTypeOK ==
    /\ focus = "mono"    => MonoTypeOK
    /\ focus = "trace"   => TraceTypeOK
    /\ focus = "capture" => CaptureTypeOK
    /\ focus = "movie"   => MovieTypeOK
    /\ focus = "camera"  => CameraTypeOK
    /\ focus = "probe"   => ProbeTypeOK

\* No GL name or display list is used in another context than its own, a
\* context that took over a deleted one's handle included.
GlNamesAreLive ==
    /\ focus = "mono"   => DrawsWithLiveNames
    /\ focus = "camera" => ReplaysOwnList

\* What the host shows of the game is whole: a mono frame, the captured
\* image with its diagnostic, and a movie frame.
HostSeesWholePictures ==
    /\ focus = "mono"    => BridgeNeverRefuses /\ HostCopiesWholeFrame
    /\ focus = "capture" => SnapshotWhole
    /\ focus = "movie"   => MovieShownWhole

\* Every installation either stands or is undone: the mono stream's start,
\* the trace's hooks with their wrappers' originals and their records, the
\* smoke bootstrap with its one capture, the movie's cells, and the probe
\* with its one sampler.
InstallationsAreAllOrNothing ==
    /\ focus = "mono"    => StartIsAllOrNothing
    /\ focus = "trace"   => /\ WrapperHasOriginal /\ HooksComeOff
                            /\ StoppedTraceIsComplete /\ RecordsArriveWhole
    /\ focus = "capture" => FailedBootstrapDisarms /\ CapturedOnce
    /\ focus = "movie"   => BinkAllOrNothing
    /\ focus = "probe"   => OneSampler

\* A camera pass leaves the engine as it found it and runs its scene once, up
\* to the scene's second evaluation and the one level of the attribute stack
\* that a raise in the engine's own code may cost.
CameraPassIsTransparent ==
    focus = "camera" => EngineRestored /\ SceneEvaluatedOnce
=============================================================================
