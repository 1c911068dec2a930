----------------------------- MODULE CameraPass -----------------------------
(***************************************************************************)
(* One camera pass of the game under the scene hooks: the wrappers of      *)
(* render_trace and the scene replay they use (scene_replay), on the       *)
(* game's render thread.                                                   *)
(*                                                                         *)
(* A stereo pass draws two eyes and then the monitor with the engine's own *)
(* camera method.  The first call of the scene is recorded in a display    *)
(* list and the other two replay it, so that the engine's scene code runs  *)
(* once.  The engine method may raise at any point of an eye.  The pair    *)
(* itself is module StereoStream's; here it is asked to open and may say   *)
(* no at each step.  The engine calls the scene at most once a pass.       *)
(***************************************************************************)
EXTENDS Integers, Sequences

CONSTANTS GlHandles,      \* values of HGLRC, which the driver may use again
          MaxGenerations, \* bound: contexts created
          MaxCameraPasses \* bound: camera passes

ASSUME CameraAssumption ==
    MaxGenerations \in Nat \ {0} /\ MaxCameraPasses \in Nat /\ GlHandles # {}

VARIABLES phase,      \* where the pass stands
          eyeNo,      \* the eye being drawn
          engine,     \* [pose, projection, effects] as the engine sees them
          policy,     \* GetGameImageCapturePolicy
          reentry,    \* g_hmd_camera_reentry
          hmdEnabled, \* g_hmd_camera_enabled
          baseline,   \* g_hmd_baseline_valid
          pairOpen,   \* a native pair is open; the eye with it
          raised,     \* the engine raised in this pass
          interrupted,\* contexts in which it raised inside a hidden draw
          replay,     \* scene_replay's thread-local state
          visibility, \* what list + 1 does: hide or show
          attribs,    \* context -> levels the hooks left on its attribute stack
          recording,  \* a display list is open
          generation, \* handle -> its context's number, 0 when deleted
          bound,      \* the current context's handle
          made,       \* contexts created
          evals,      \* times the engine's scene code ran in this pass
          cameraPasses

hookVars == <<policy, reentry, hmdEnabled, baseline, pairOpen, raised, interrupted>>
glVars == <<visibility, attribs, recording>>
contextVars == <<generation, bound, made>>
cameraVars == <<phase, eyeNo, engine, hookVars, replay, glVars, contextVars, evals, cameraPasses>>

Authored == [pose |-> "authored", projection |-> "authored", effects |-> "authored"]
NoReplay == [context |-> "none", list |-> 0, active |-> FALSE, ready |-> FALSE,
             saved |-> FALSE, final |-> FALSE, hides |-> FALSE]

CameraInit ==
    /\ phase = "idle" /\ eyeNo = 1 /\ engine = Authored
    /\ policy = "Normal" /\ reentry = FALSE /\ hmdEnabled = TRUE /\ baseline = FALSE
    /\ pairOpen = FALSE /\ raised = FALSE /\ interrupted = {}
    /\ replay = NoReplay /\ visibility = "hide" /\ recording = FALSE
    /\ attribs = [h \in GlHandles |-> <<>>]
    /\ bound = (CHOOSE h \in GlHandles : TRUE)
    /\ generation = [h \in GlHandles |-> IF h = bound THEN 1 ELSE 0]
    /\ made = 1 /\ evals = 0 /\ cameraPasses = 0

\* glPushAttrib and glPopAttrib, on the stack of the context that is current.
Popped(s) == IF s = <<>> THEN s ELSE SubSeq(s, 1, Len(s) - 1)
Push(level) == attribs' = [attribs EXCEPT ![bound] = Append(@, level)]
Pop == attribs' = [attribs EXCEPT ![bound] = Popped(@)]

----------------------------------------------------------------------------
(* Contexts, between passes.                                               *)

\* A context that is deleted takes its stack along; the state kept for it is
\* forgotten, list names and all.
ForgetContext(h) == replay' = IF replay.context = h THEN NoReplay ELSE replay

DeleteGlContext(h) ==
    /\ phase = "idle" /\ generation[h] # 0
    /\ generation' = [generation EXCEPT ![h] = 0]
    /\ ForgetContext(h) /\ attribs' = [attribs EXCEPT ![h] = <<>>]
    /\ interrupted' = interrupted \ {h}
    /\ UNCHANGED <<phase, eyeNo, engine, policy, reentry, hmdEnabled, baseline, pairOpen, raised,
                   visibility, recording, bound, made, evals, cameraPasses>>

BindContext(h) ==
    /\ phase = "idle"
    /\ IF generation[h] = 0
         THEN /\ made < MaxGenerations /\ made' = made + 1
              /\ generation' = [generation EXCEPT ![h] = made + 1]
         ELSE h # bound /\ UNCHANGED <<generation, made>>
    /\ bound' = h
    /\ UNCHANGED <<phase, eyeNo, engine, hookVars, replay, glVars, evals, cameraPasses>>

----------------------------------------------------------------------------
(* CameraRenderSceneWrapper: the choice of the pass.                       *)

\* No request can be read: the baseline is dropped, the camera is the engine's.
NoRequest ==
    /\ phase = "idle" /\ hmdEnabled /\ baseline /\ baseline' = FALSE
    /\ UNCHANGED <<phase, eyeNo, engine, policy, reentry, hmdEnabled, pairOpen, raised,
                   interrupted, replay, glVars, contextVars, evals, cameraPasses>>

BeginPass ==
    /\ phase = "idle" /\ hmdEnabled /\ generation[bound] # 0
    /\ cameraPasses < MaxCameraPasses /\ cameraPasses' = cameraPasses + 1
    /\ phase' \in {"stereo", "mono", "monitor"}   \* "monitor": no valid eye pose
    /\ policy' = IF phase' = "monitor" THEN "Suppressed" ELSE policy
    /\ baseline' = TRUE /\ raised' = FALSE /\ evals' = 0
    /\ UNCHANGED <<eyeNo, engine, reentry, hmdEnabled, pairOpen, interrupted, replay, glVars,
                   contextVars>>

----------------------------------------------------------------------------
(* InvokeStereoCameraSeh.                                                  *)

\* BeginSceneReplayFrame: another context's state is dropped, never deleted,
\* and the lists made anew; GL may refuse them for good.
ReplayInContext(ok) ==
    IF replay.context = bound THEN replay
    ELSE [NoReplay EXCEPT !.context = bound, !.list = IF ok THEN generation[bound] ELSE 0]

BeginReplayFrame(r) == [r EXCEPT !.active = TRUE, !.ready = FALSE, !.final = FALSE,
                                 !.hides = FALSE]

\* The pair opens only when the replay frame did, and may refuse.
BeginPair ==
    /\ phase = "stereo" /\ ~replay.active
    /\ \E ok \in BOOLEAN : LET r == ReplayInContext(ok) IN
         /\ replay' = IF r.list = 0 THEN r ELSE BeginReplayFrame(r)
         /\ visibility' = IF r.list = 0 THEN visibility ELSE "hide"
         /\ \/ r.list # 0 /\ phase' = "eye" /\ pairOpen' = TRUE
               /\ engine' = [engine EXCEPT !.effects = "off"]
            \/ phase' = "restore" /\ UNCHANGED <<pairOpen, engine>>
    /\ reentry' = TRUE /\ eyeNo' = 1
    /\ UNCHANGED <<policy, hmdEnabled, baseline, raised, interrupted, attribs, recording,
                   contextVars, evals, cameraPasses>>

BeginEye ==
    /\ phase = "eye" /\ phase' \in {"draw", "restore"}
    /\ engine' = [engine EXCEPT !.pose = "eye", !.projection = "eye"]
    /\ UNCHANGED <<eyeNo, hookVars, replay, glVars, contextVars, evals, cameraPasses>>

\* The scene's first call is recorded; the attributes are saved before.
RecordScene ==
    /\ phase = "draw" /\ ~replay.ready /\ phase' = "scene"
    /\ Push("frame") /\ recording' = TRUE /\ evals' = evals + 1
    /\ replay' = [replay EXCEPT !.saved = TRUE]
    /\ UNCHANGED <<eyeNo, engine, hookVars, visibility, contextVars, cameraPasses>>

\* A mesh near the eye is drawn through list + 1, in the first eye only.
BeginHiddenDraw ==
    /\ phase = "scene" /\ eyeNo = 1 /\ phase' = "hidden"
    /\ Push("hidden") /\ replay' = [replay EXCEPT !.hides = TRUE]
    /\ UNCHANGED <<eyeNo, engine, hookVars, visibility, recording, contextVars, evals,
                   cameraPasses>>

EndHiddenDraw ==
    /\ phase = "hidden" /\ phase' = "scene" /\ Pop
    /\ UNCHANGED <<eyeNo, engine, hookVars, replay, visibility, recording, contextVars, evals,
                   cameraPasses>>

SceneRecorded ==
    /\ phase = "scene" /\ phase' = "drawn" /\ recording' = FALSE
    /\ replay' = [replay EXCEPT !.ready = TRUE]
    /\ UNCHANGED <<eyeNo, engine, hookVars, visibility, attribs, contextVars, evals,
                   cameraPasses>>

\* A replay restores the attributes of the recording; unless it is the last
\* one it saves them again.  Variant: it never does.
KeepsNothing == FALSE

Keeps == ~replay.final

ReplayScene(to) ==
    /\ replay.active /\ replay.ready /\ replay.saved /\ phase' = to
    /\ IF Keeps THEN UNCHANGED attribs ELSE Pop
    /\ replay' = [replay EXCEPT !.saved = Keeps]
    /\ UNCHANGED evals

\* Not to be replayed: the engine draws the scene itself.
DrawScene(to) ==
    /\ ~(replay.active /\ replay.ready /\ replay.saved) /\ phase' = to
    /\ evals' = evals + 1
    /\ UNCHANGED <<attribs, replay>>

DrawEyeAgain ==
    /\ phase = "draw" /\ replay.ready
    /\ ReplayScene("drawn") \/ DrawScene("drawn")
    /\ UNCHANGED <<eyeNo, engine, hookVars, visibility, recording, contextVars, cameraPasses>>

NoSceneInPass ==
    /\ phase = "draw" /\ phase' = "drawn"
    /\ UNCHANGED <<eyeNo, engine, hookVars, replay, glVars, contextVars, evals, cameraPasses>>

EndEye ==
    /\ phase = "drawn"
    /\ IF eyeNo = 1 THEN phase' = "eye" /\ eyeNo' = 2 ELSE phase' = "restore" /\ UNCHANGED eyeNo
    /\ UNCHANGED <<engine, hookVars, replay, glVars, contextVars, evals, cameraPasses>>

\* The engine raises; an open recording is closed on the way out, but nothing
\* ends a hidden draw that was begun.
EyeRaises ==
    /\ phase \in {"draw", "scene", "hidden", "drawn"} /\ phase' = "restore"
    /\ raised' = TRUE /\ recording' = FALSE
    /\ interrupted' = IF phase = "hidden" THEN interrupted \cup {bound} ELSE interrupted
    /\ UNCHANGED <<eyeNo, engine, policy, reentry, hmdEnabled, baseline, pairOpen, replay,
                   visibility, attribs, contextVars, evals, cameraPasses>>

\* The pair ends, the engine's values come back, the monitor is next.
RestoreEngine ==
    /\ phase = "restore" /\ phase' = "monitor"
    /\ pairOpen' = FALSE /\ engine' = Authored /\ reentry' = FALSE
    /\ hmdEnabled' = (hmdEnabled /\ ~raised)
    /\ policy' = "Suppressed"
    /\ UNCHANGED <<eyeNo, baseline, raised, interrupted, replay, glVars, contextVars, evals,
                   cameraPasses>>

----------------------------------------------------------------------------
(* InvokeMonitorReplaySeh.                                                 *)

\* The last pass shows what the eyes hid.
SetFinalPass ==
    /\ phase = "monitor" /\ phase' = "last"
    /\ replay' = [replay EXCEPT !.final = TRUE]
    /\ visibility' = IF replay.active /\ replay.hides THEN "show" ELSE visibility
    /\ UNCHANGED <<eyeNo, engine, hookVars, attribs, recording, contextVars, evals,
                   cameraPasses>>

DrawMonitor ==
    /\ phase = "last"
    /\ \/ ReplayScene("finish") \/ DrawScene("finish")
       \/ phase' = "finish" /\ UNCHANGED <<attribs, replay, evals>>
    /\ UNCHANGED <<eyeNo, engine, hookVars, visibility, recording, contextVars, cameraPasses>>

\* A frame whose saved attributes nobody consumed pops one level.
FinishPops == replay.saved

FinishReplay ==
    /\ phase = "finish" /\ phase' = "idle"
    /\ IF replay.active
         THEN /\ IF FinishPops THEN Pop ELSE UNCHANGED attribs
              /\ visibility' = IF replay.hides THEN "show" ELSE visibility
              /\ replay' = [replay EXCEPT !.active = FALSE, !.ready = FALSE, !.saved = FALSE]
         ELSE UNCHANGED <<attribs, visibility, replay>>
    /\ policy' = "Normal"
    /\ UNCHANGED <<eyeNo, engine, reentry, hmdEnabled, baseline, pairOpen, raised, interrupted,
                   recording, contextVars, evals, cameraPasses>>

----------------------------------------------------------------------------
(* InvokeHmdCameraSeh and the monitor pass after it.                       *)

BeginMono ==
    /\ phase = "mono" /\ phase' = "monoDraw"
    /\ reentry' = TRUE /\ engine' = [engine EXCEPT !.pose = "hmd"] /\ policy' = "VrCapture"
    /\ UNCHANGED <<eyeNo, hmdEnabled, baseline, pairOpen, raised, interrupted, replay, glVars,
                   contextVars, evals, cameraPasses>>

\* The engine returns or raises; the authored camera is drawn next, plain.
EndMono ==
    /\ phase = "monoDraw" /\ phase' = "monoMonitor"
    /\ raised' \in BOOLEAN /\ hmdEnabled' = ~raised'
    /\ engine' = Authored /\ reentry' = FALSE /\ policy' = "Suppressed"
    /\ evals' = evals + 1
    /\ UNCHANGED <<eyeNo, baseline, pairOpen, interrupted, replay, glVars, contextVars,
                   cameraPasses>>

MonoMonitor ==
    /\ phase = "monoMonitor" /\ phase' = "idle"
    /\ evals' = evals + 1 /\ policy' = "Normal"
    /\ UNCHANGED <<eyeNo, engine, reentry, hmdEnabled, baseline, pairOpen, raised, interrupted,
                   replay, glVars, contextVars, cameraPasses>>

----------------------------------------------------------------------------

CameraNext ==
    \/ \E h \in GlHandles : DeleteGlContext(h) \/ BindContext(h)
    \/ NoRequest \/ BeginPass \/ BeginPair \/ BeginEye \/ RecordScene \/ BeginHiddenDraw
    \/ EndHiddenDraw \/ SceneRecorded \/ DrawEyeAgain \/ NoSceneInPass \/ EndEye \/ EyeRaises
    \/ RestoreEngine \/ SetFinalPass \/ DrawMonitor \/ FinishReplay
    \/ BeginMono \/ EndMono \/ MonoMonitor

CameraSpec == CameraInit /\ [][CameraNext]_cameraVars

----------------------------------------------------------------------------

\* Every variable of the camera pass and the scene replay has its type.
CameraTypeOK ==
    /\ phase \in {"idle", "stereo", "eye", "draw", "scene", "hidden", "drawn", "restore",
                  "monitor", "last", "finish", "mono", "monoDraw", "monoMonitor"}
    /\ eyeNo \in 1..2 /\ policy \in {"Normal", "VrCapture", "Suppressed"}
    /\ {reentry, hmdEnabled, baseline, pairOpen, raised, recording} \subseteq BOOLEAN
    /\ interrupted \subseteq GlHandles
    /\ replay.context \in GlHandles \cup {"none"} /\ replay.list \in 0..MaxGenerations
    /\ visibility \in {"hide", "show"} /\ attribs \in [GlHandles -> Seq({"frame", "hidden"})]
    /\ generation \in [GlHandles -> 0..MaxGenerations] /\ bound \in GlHandles
    /\ evals \in 0..3

\* However the engine's method ends, the monitor is drawn with the engine's
\* own camera, projection and effects, outside the re-entry and the pair; and
\* after the pass the policy, the replay frame and the open recording are as
\* before it.  So is the attribute stack of every context, but for one case:
\* a context in which the engine raised inside a hidden draw keeps the level
\* of the scene's recording, that one and no other, until it is deleted.  The
\* comments at scene_replay.cpp:169-170 ("replay once to balance the stack")
\* and render_trace.cpp:686-687 do not make that exception; the code does.
EngineRestored ==
    /\ phase \in {"idle", "monitor", "last", "finish", "monoMonitor"} =>
          engine = Authored /\ ~reentry /\ ~pairOpen /\ ~recording
    /\ phase = "idle" =>
          /\ policy = "Normal" /\ ~replay.active /\ ~replay.saved
          /\ \A h \in GlHandles : attribs[h] = IF h \in interrupted THEN <<"frame">> ELSE <<>>

\* In a stereo pass the engine's scene code runs once: the second eye and the
\* monitor replay it.  It runs again for the monitor only if it raised before
\* its recording was finished.  The monitor's replay shows the meshes that
\* the eyes hid.
SceneEvaluatedOnce ==
    /\ phase \in {"eye", "draw", "drawn", "restore", "monitor", "last", "finish"} =>
          evals <= IF raised /\ ~replay.ready THEN 2 ELSE 1
    /\ phase = "last" /\ replay.active /\ replay.hides => visibility = "show"

\* A list is only ever recorded or called in the context it was made in, a
\* deleted context's handle used again included.
ReplaysOwnList ==
    phase \notin {"idle", "mono", "monoDraw", "monoMonitor"} /\ replay.active =>
        replay.context = bound /\ replay.list = generation[bound]
=============================================================================
