------------------------------- MODULE MCHost -------------------------------
(***************************************************************************)
(* Model checking of the host: the OpenXR session and main loop, the       *)
(* composition of one frame with its GPU work, the neural pipeline, and    *)
(* the per-eye frame ring.                                                 *)
(*                                                                         *)
(* The loop drives frame and pipeline through calls that each of them      *)
(* models as its own actions, the ring is driven by the host's self-test,  *)
(* and no two of them share state, so a run follows one of them, the       *)
(* focus, and leaves the others at one of their starts.                    *)
(***************************************************************************)
EXTENDS HostSession, XrFrame, NeuralPipeline, FrameRing

VARIABLE focus

Init ==
    /\ focus \in {"session", "frame", "neural", "ring"}
    /\ SessionInit /\ XrInit /\ NeuralInit /\ RingInit
    /\ focus # "frame" => ~native
    /\ focus # "neural" => ~prefetch

Next ==
    \/ focus = "session" /\ SessionNext /\ UNCHANGED <<focus, xrVars, neuralVars, ringVars>>
    \/ focus = "frame"   /\ XrNext      /\ UNCHANGED <<focus, sessionVars, neuralVars, ringVars>>
    \/ focus = "neural"  /\ NeuralNext  /\ UNCHANGED <<focus, sessionVars, xrVars, ringVars>>
    \/ focus = "ring"    /\ RingNext    /\ UNCHANGED <<focus, sessionVars, xrVars, neuralVars>>

Spec == Init /\ [][Next]_<<focus, sessionVars, xrVars, neuralVars, ringVars>>

\* The layouts of the eye textures are interchangeable.
Symmetry == Permutations(Layouts)

----------------------------------------------------------------------------

\* Every variable of the part in focus has its type; the ring's are in RingTypeOK.
HostTypeOK ==
    /\ focus = "session" => SessionTypeOK
    /\ focus = "frame"   => XrTypeOK
    /\ focus = "neural"  => NeuralTypeOK

\* The host keeps to the runtime's order of calls and its session's state is
\* the one the runtime reported last.
SessionKeepsOrder == focus = "session" => RuntimeCallsInOrder /\ FollowsRuntime

\* No reset of the history is lost between the place that notices it and
\* the one that must act on it: from a runtime event to the request the game
\* reads, and from an input that was replaced or dropped to the one taken.
NoResetIsLost ==
    /\ focus = "session" => ResetReachesRequest
    /\ focus = "neural"  => HistoryCoversAdmitted

\* The GPU never works with what the host has given back or destroyed.
GpuWorkIsSafe ==
    /\ focus = "frame"  => GpuUsesOnlyWhatIsHeld
    /\ focus = "neural" => DestroyedWhenRetired

\* Each shown picture is one frame's and carries that frame's pose: through
\* the cache and the warp, and through the two eyes of a neural pair.
PicturesMatchTheirFrame ==
    /\ focus = "frame"  => LabelsMatchPixels
    /\ focus = "neural" => PairsAreWhole
=============================================================================
