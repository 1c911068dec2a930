---------------------------- MODULE MCGameProofs ----------------------------
(***************************************************************************)
(* Proofs about the game library's parts around the stereo producer, for   *)
(* all bounds on threads, passes, movies, records and failures.  Each part *)
(* has an inductive invariant of its own: the camera pass, the probe, the  *)
(* movie channel and the image capture here, the mono stream and the       *)
(* render trace in GameStreamProofs.  The properties of the run follow     *)
(* from the invariant of the part in focus.                                *)
(***************************************************************************)
EXTENDS MCGame, GameStreamProofs

-----------------------------------------------------------------------------
(* The camera pass: what the hooks have borrowed, at each place of a pass *)

InEye      == {"eye", "draw", "scene", "hidden", "drawn"}
AfterEyes  == {"restore", "monitor", "last"}

Unborrowed == {"idle", "stereo", "mono", "monitor", "last", "finish", "monoMonitor"}

ReplayStates ==
    [context : GlHandles \cup {"none"}, list : 0 .. MaxGenerations, active : BOOLEAN,
     ready : BOOLEAN, saved : BOOLEAN, final : BOOLEAN, hides : BOOLEAN]

FlagTypes ==
    /\ phase \in InEye \cup AfterEyes
                 \cup {"idle", "stereo", "finish", "mono", "monoDraw", "monoMonitor"}
    /\ eyeNo \in 1 .. 2 /\ policy \in {"Normal", "VrCapture", "Suppressed"}
    /\ reentry \in BOOLEAN /\ hmdEnabled \in BOOLEAN /\ baseline \in BOOLEAN
    /\ pairOpen \in BOOLEAN /\ raised \in BOOLEAN /\ recording \in BOOLEAN
    /\ visibility \in {"hide", "show"}

CameraContextTypes ==
    /\ generation \in [GlHandles -> 0 .. MaxGenerations] /\ bound \in GlHandles
    /\ made \in 0 .. MaxGenerations

StackTypes ==
    attribs \in [GlHandles -> Seq({"frame", "hidden"})] /\ interrupted \subseteq GlHandles

CameraTypes ==
    /\ FlagTypes /\ CameraContextTypes /\ StackTypes /\ replay \in ReplayStates
    /\ evals \in 0 .. 2

\* Lists are named by the context they were made in, and a pass uses those of its own.
ListsAreLive ==
    /\ replay.list # 0 =>
          replay.context \in GlHandles /\ replay.list = generation[replay.context]
    /\ replay.active => replay.list # 0 /\ replay.context = bound

\* How far the recording of the scene has got.
ReplayFollowsPass ==
    /\ replay.ready \/ replay.saved => replay.active
    /\ phase \in {"idle", "stereo", "mono", "monoDraw", "monoMonitor"} => ~replay.active
    /\ phase \in InEye => replay.active /\ ~replay.final
    /\ phase \in InEye \cup {"stereo"} => ~raised
    /\ phase \in {"scene", "hidden"} => replay.saved /\ ~replay.ready
    /\ phase \in {"eye", "draw", "drawn"} => replay.saved = replay.ready
    /\ phase \in AfterEyes =>
          (replay.ready => replay.saved) /\ (~raised => replay.saved = replay.ready)

EngineIsBorrowed ==
    /\ phase \in Unborrowed => engine = Authored /\ ~reentry /\ ~pairOpen
    /\ phase = "monoDraw" => ~pairOpen
    /\ recording => phase \in {"scene", "hidden"}
    /\ phase = "idle" => policy = "Normal"

\* The levels that the hooks have on a context's attribute stack: the recording's and the
\* hidden draw's in a pass, and one level of a hidden draw that was never ended.
OneLevel  == Append(<<>>, "frame")

TwoLevels == Append(OneLevel, "hidden")
Recorded(h) == h = bound /\ replay.saved
Levels(h) == IF h = bound /\ phase = "hidden" THEN TwoLevels
             ELSE IF h \in interrupted THEN (IF Recorded(h) THEN TwoLevels ELSE OneLevel)
             ELSE IF Recorded(h) THEN OneLevel ELSE <<>>

StackIsKnown == \A h \in GlHandles : attribs[h] = Levels(h)

\* After a raise in a hidden draw this pass finishes without its recording and no other begins.
RaiseIsFinal ==
    interrupted # {} =>
        \/ phase = "idle" /\ ~hmdEnabled
        \/ phase = "restore" /\ raised /\ ~replay.ready
        \/ phase \in {"monitor", "last", "finish"} /\ ~hmdEnabled /\ ~replay.ready

\* The scene has been evaluated exactly if it was recorded.
EvaluationsAreCounted ==
    /\ phase \in {"stereo", "mono", "monoDraw"} => evals = 0
    /\ phase = "monoMonitor" => evals = 1
    /\ phase \in InEye \cup AfterEyes => evals = IF replay.saved THEN 1 ELSE 0
    /\ phase = "finish" => evals <= IF raised /\ ~replay.ready THEN 2 ELSE 1
    /\ phase = "last" /\ replay.active /\ replay.hides => visibility = "show"

CameraInv ==
    /\ CameraTypes /\ ListsAreLive /\ ReplayFollowsPass /\ EngineIsBorrowed
    /\ StackIsKnown /\ RaiseIsFinal /\ EvaluationsAreCounted

\* What is pushed on the attribute stack is popped again.
LEMMA StackOperations ==
    ASSUME NEW s \in Seq({"frame", "hidden"}), NEW level \in {"frame", "hidden"}
    PROVE  /\ Append(s, level) \in Seq({"frame", "hidden"})
           /\ Popped(s) \in Seq({"frame", "hidden"})
           /\ Popped(Append(s, level)) = s
           /\ Popped(<<>>) = <<>>
<1>1. Append(s, level) \in Seq({"frame", "hidden"}) /\ Popped(<<>>) = <<>>
  BY DEF Popped
<1>2. Popped(s) \in Seq({"frame", "hidden"})
  BY DEF Popped
<1>3. Append(s, level) # <<>> /\ Len(Append(s, level)) = Len(s) + 1
  OBVIOUS
<1>4. SubSeq(Append(s, level), 1, Len(s)) = s
  OBVIOUS
<1>5. Popped(Append(s, level)) = s
  <2>1. Len(s) \in Nat
    OBVIOUS
  <2>2. Len(Append(s, level)) - 1 = Len(s)
    BY <1>3, <2>1
  <2>3. QED
    BY <1>3, <1>4, <2>2 DEF Popped
<1>6. QED
  BY <1>1, <1>2, <1>5

\* The stack of a recording, and of a hidden draw in it.
LEMMA LevelsArePushed ==
    /\ Popped(OneLevel) = <<>> /\ Popped(TwoLevels) = OneLevel
    /\ OneLevel = Append(<<>>, "frame") /\ TwoLevels = Append(OneLevel, "hidden")
<1>1. <<>> \in Seq({"frame", "hidden"})
  OBVIOUS
<1>2. OneLevel \in Seq({"frame", "hidden"}) /\ Popped(OneLevel) = <<>>
  BY <1>1, StackOperations DEF OneLevel
<1>3. Popped(TwoLevels) = OneLevel
  BY <1>2, StackOperations DEF TwoLevels
<1>4. QED
  BY <1>2, <1>3 DEF OneLevel, TwoLevels

\* What a pass borrows of the engine it has given back by the monitor pass.
LEMMA EngineStep ==
    ASSUME CameraInv, CameraNext
    PROVE  EngineIsBorrowed'
<1> USE DEF CameraInv, CameraTypes, FlagTypes, EngineIsBorrowed, InEye, AfterEyes, Unborrowed,
      Authored, hookVars, glVars, contextVars
<1>1. ASSUME NEW h \in GlHandles, DeleteGlContext(h) PROVE EngineIsBorrowed'
  BY <1>1 DEF DeleteGlContext, ForgetContext, NoReplay
<1>2. ASSUME NEW h \in GlHandles, BindContext(h) PROVE EngineIsBorrowed'
  BY <1>2 DEF BindContext
<1>3. CASE NoRequest
  BY <1>3 DEF NoRequest
<1>4. CASE BeginPass
  BY <1>4 DEF BeginPass
<1>5. CASE BeginPair
  <2>1. phase = "stereo" /\ phase' \in {"eye", "restore"} /\ recording' = recording
    BY <1>5 DEF BeginPair
  <2>2. QED
    BY <2>1
<1>6. CASE BeginEye
  BY <1>6 DEF BeginEye
<1>7. CASE RecordScene
  BY <1>7 DEF RecordScene, Push
<1>8. CASE BeginHiddenDraw
  BY <1>8 DEF BeginHiddenDraw, Push
<1>9. CASE EndHiddenDraw
  BY <1>9 DEF EndHiddenDraw
<1>10. CASE SceneRecorded
  BY <1>10 DEF SceneRecorded
<1>11. CASE DrawEyeAgain
  BY <1>11 DEF DrawEyeAgain, ReplayScene, DrawScene, Keeps
<1>12. CASE NoSceneInPass
  BY <1>12 DEF NoSceneInPass
<1>13. CASE EndEye
  BY <1>13 DEF EndEye
<1>14. CASE EyeRaises
  BY <1>14 DEF EyeRaises
<1>15. CASE RestoreEngine
  BY <1>15 DEF RestoreEngine
<1>16. CASE SetFinalPass
  BY <1>16 DEF SetFinalPass
<1>17. CASE DrawMonitor
  BY <1>17 DEF DrawMonitor, ReplayScene, DrawScene, Keeps
<1>18. CASE FinishReplay
  BY <1>18 DEF FinishReplay, FinishPops
<1>19. CASE BeginMono
  BY <1>19 DEF BeginMono
<1>20. CASE EndMono
  BY <1>20 DEF EndMono
<1>21. CASE MonoMonitor
  BY <1>21 DEF MonoMonitor
<1>22. QED
  BY <1>1, <1>2, <1>3, <1>4, <1>5, <1>6, <1>7, <1>8, <1>9, <1>10, <1>11, <1>12, <1>13, <1>14,
      <1>15, <1>16, <1>17, <1>18, <1>19, <1>20, <1>21 DEF CameraNext

\* The steps of a pass keep the types of its flags.
LEMMA FlagStep ==
    ASSUME CameraInv, CameraNext
    PROVE  FlagTypes'
<1> USE DEF CameraInv, CameraTypes, FlagTypes, InEye, AfterEyes, hookVars, glVars, contextVars
<1>1. ASSUME NEW h \in GlHandles, DeleteGlContext(h) PROVE FlagTypes'
  BY <1>1 DEF DeleteGlContext
<1>2. ASSUME NEW h \in GlHandles, BindContext(h) PROVE FlagTypes'
  BY <1>2 DEF BindContext
<1>3. CASE NoRequest
  BY <1>3 DEF NoRequest
<1>4. CASE BeginPass
  BY <1>4 DEF BeginPass
<1>5. CASE BeginPair
  <2>1. phase' \in {"eye", "restore"} /\ eyeNo' = 1 /\ reentry' = TRUE
        /\ visibility' \in {visibility, "hide"} /\ (pairOpen' = TRUE \/ pairOpen' = pairOpen)
    BY <1>5 DEF BeginPair
  <2>2. UNCHANGED <<policy, hmdEnabled, baseline, raised, recording>>
    BY <1>5 DEF BeginPair
  <2>3. phase' \in InEye \cup AfterEyes /\ eyeNo' \in 1 .. 2 /\ visibility' \in {"hide", "show"}
    BY <2>1
  <2>4. pairOpen' \in BOOLEAN /\ reentry' \in BOOLEAN
    BY <2>1
  <2>5. QED
    BY <2>2, <2>3, <2>4
<1>6. CASE BeginEye
  BY <1>6 DEF BeginEye
<1>7. CASE RecordScene
  BY <1>7 DEF RecordScene, Push
<1>8. CASE BeginHiddenDraw
  BY <1>8 DEF BeginHiddenDraw, Push
<1>9. CASE EndHiddenDraw
  BY <1>9 DEF EndHiddenDraw
<1>10. CASE SceneRecorded
  BY <1>10 DEF SceneRecorded
<1>11. CASE DrawEyeAgain
  BY <1>11 DEF DrawEyeAgain, ReplayScene, DrawScene
<1>12. CASE NoSceneInPass
  BY <1>12 DEF NoSceneInPass
<1>13. CASE EndEye
  BY <1>13 DEF EndEye
<1>14. CASE EyeRaises
  BY <1>14 DEF EyeRaises
<1>15. CASE RestoreEngine
  BY <1>15 DEF RestoreEngine
<1>16. CASE SetFinalPass
  BY <1>16 DEF SetFinalPass
<1>17. CASE DrawMonitor
  BY <1>17 DEF DrawMonitor, ReplayScene, DrawScene
<1>18. CASE FinishReplay
  BY <1>18 DEF FinishReplay, FinishPops
<1>19. CASE BeginMono
  BY <1>19 DEF BeginMono
<1>20. CASE EndMono
  BY <1>20 DEF EndMono
<1>21. CASE MonoMonitor
  BY <1>21 DEF MonoMonitor
<1>22. QED
  BY <1>1, <1>2, <1>3, <1>4, <1>5, <1>6, <1>7, <1>8, <1>9, <1>10, <1>11, <1>12, <1>13, <1>14,
      <1>15, <1>16, <1>17, <1>18, <1>19, <1>20, <1>21 DEF CameraNext

\* The state a pair begins with is one of the replay's.
LEMMA PairReplays ==
    ASSUME CameraTypes, NEW ok \in BOOLEAN
    PROVE  ReplayInContext(ok) \in ReplayStates
<1> USE DEF CameraTypes, CameraContextTypes
<1>1. NoReplay \in ReplayStates /\ 0 \in 0 .. MaxGenerations
  BY CameraAssumption DEF NoReplay, ReplayStates
<1>2. generation[bound] \in 0 .. MaxGenerations /\ bound \in GlHandles
  OBVIOUS
<1>3. \A list \in 0 .. MaxGenerations :
        [NoReplay EXCEPT !.context = bound, !.list = list] \in ReplayStates
  BY <1>1, <1>2 DEF ReplayStates
<1>4. QED
  BY <1>1, <1>2, <1>3 DEF ReplayInContext

\* The replay's state keeps its type.
LEMMA ReplayTypeStep ==
    ASSUME CameraInv, CameraNext
    PROVE  replay' \in ReplayStates
<1> USE DEF CameraInv, CameraTypes, CameraContextTypes, ReplayStates, hookVars, glVars, contextVars
<1>1. ASSUME NEW h \in GlHandles, DeleteGlContext(h) PROVE replay' \in ReplayStates
  <2>1. NoReplay \in ReplayStates
    BY CameraAssumption DEF NoReplay
  <2>2. replay' \in {replay, NoReplay}
    BY <1>1 DEF DeleteGlContext, ForgetContext
  <2>3. QED
    BY <2>1, <2>2
<1>2. ASSUME NEW h \in GlHandles, BindContext(h) PROVE replay' \in ReplayStates
  BY <1>2 DEF BindContext
<1>3. CASE NoRequest
  BY <1>3 DEF NoRequest
<1>4. CASE BeginPass
  BY <1>4 DEF BeginPass
<1>5. CASE BeginPair
  <2>1. PICK ok \in BOOLEAN :
          replay' \in {ReplayInContext(ok), BeginReplayFrame(ReplayInContext(ok))}
    BY <1>5 DEF BeginPair
  <2>2. ReplayInContext(ok) \in ReplayStates
    BY PairReplays
  <2>3. BeginReplayFrame(ReplayInContext(ok)) \in ReplayStates
    BY <2>2 DEF BeginReplayFrame
  <2>4. QED
    BY <2>1, <2>2, <2>3
<1>6. CASE BeginEye
  BY <1>6 DEF BeginEye
<1>7. CASE RecordScene
  BY <1>7 DEF RecordScene, Push
<1>8. CASE BeginHiddenDraw
  BY <1>8 DEF BeginHiddenDraw, Push
<1>9. CASE EndHiddenDraw
  BY <1>9 DEF EndHiddenDraw
<1>10. CASE SceneRecorded
  BY <1>10 DEF SceneRecorded
<1>11. CASE DrawEyeAgain
  BY <1>11 DEF DrawEyeAgain, ReplayScene, DrawScene, Keeps
<1>12. CASE NoSceneInPass
  BY <1>12 DEF NoSceneInPass
<1>13. CASE EndEye
  BY <1>13 DEF EndEye
<1>14. CASE EyeRaises
  BY <1>14 DEF EyeRaises
<1>15. CASE RestoreEngine
  BY <1>15 DEF RestoreEngine
<1>16. CASE SetFinalPass
  BY <1>16 DEF SetFinalPass
<1>17. CASE DrawMonitor
  BY <1>17 DEF DrawMonitor, ReplayScene, DrawScene, Keeps
<1>18. CASE FinishReplay
  BY <1>18 DEF FinishReplay, FinishPops
<1>19. CASE BeginMono
  BY <1>19 DEF BeginMono
<1>20. CASE EndMono
  BY <1>20 DEF EndMono
<1>21. CASE MonoMonitor
  BY <1>21 DEF MonoMonitor
<1>22. QED
  BY <1>1, <1>2, <1>3, <1>4, <1>5, <1>6, <1>7, <1>8, <1>9, <1>10, <1>11, <1>12, <1>13, <1>14,
      <1>15, <1>16, <1>17, <1>18, <1>19, <1>20, <1>21 DEF CameraNext

\* Contexts keep their types.
LEMMA ContextTypeStep ==
    ASSUME CameraInv, CameraNext
    PROVE  CameraContextTypes'
<1> USE DEF CameraInv, CameraTypes, CameraContextTypes, hookVars, glVars, contextVars
<1>1. ASSUME NEW h \in GlHandles, DeleteGlContext(h) PROVE CameraContextTypes'
  BY <1>1, CameraAssumption DEF DeleteGlContext
<1>2. ASSUME NEW h \in GlHandles, BindContext(h) PROVE CameraContextTypes'
  <2>1. made' \in 0 .. MaxGenerations
    BY <1>2, CameraAssumption DEF BindContext
  <2>2. generation' \in [GlHandles -> 0 .. MaxGenerations]
    <3>1. generation' = generation \/ generation' = [generation EXCEPT ![h] = made']
      BY <1>2 DEF BindContext
    <3>2. QED
      BY <2>1, <3>1
  <2>3. QED
    BY <1>2, <2>1, <2>2 DEF BindContext
<1>3. CASE NoRequest
  BY <1>3 DEF NoRequest
<1>4. CASE BeginPass
  BY <1>4 DEF BeginPass
<1>5. CASE BeginPair
  BY <1>5 DEF BeginPair, ReplayInContext, BeginReplayFrame, NoReplay
<1>6. CASE BeginEye
  BY <1>6 DEF BeginEye
<1>7. CASE RecordScene
  BY <1>7 DEF RecordScene, Push
<1>8. CASE BeginHiddenDraw
  BY <1>8 DEF BeginHiddenDraw, Push
<1>9. CASE EndHiddenDraw
  BY <1>9 DEF EndHiddenDraw
<1>10. CASE SceneRecorded
  BY <1>10 DEF SceneRecorded
<1>11. CASE DrawEyeAgain
  BY <1>11 DEF DrawEyeAgain, ReplayScene, DrawScene, Keeps
<1>12. CASE NoSceneInPass
  BY <1>12 DEF NoSceneInPass
<1>13. CASE EndEye
  BY <1>13 DEF EndEye
<1>14. CASE EyeRaises
  BY <1>14 DEF EyeRaises
<1>15. CASE RestoreEngine
  BY <1>15 DEF RestoreEngine
<1>16. CASE SetFinalPass
  BY <1>16 DEF SetFinalPass
<1>17. CASE DrawMonitor
  BY <1>17 DEF DrawMonitor, ReplayScene, DrawScene, Keeps
<1>18. CASE FinishReplay
  BY <1>18 DEF FinishReplay, FinishPops
<1>19. CASE BeginMono
  BY <1>19 DEF BeginMono
<1>20. CASE EndMono
  BY <1>20 DEF EndMono
<1>21. CASE MonoMonitor
  BY <1>21 DEF MonoMonitor
<1>22. QED
  BY <1>1, <1>2, <1>3, <1>4, <1>5, <1>6, <1>7, <1>8, <1>9, <1>10, <1>11, <1>12, <1>13, <1>14,
      <1>15, <1>16, <1>17, <1>18, <1>19, <1>20, <1>21 DEF CameraNext

\* Nothing is evaluated more than twice in a pass.
LEMMA EvalTypeStep ==
    ASSUME CameraInv, CameraNext
    PROVE  evals' \in 0 .. 2
<1> USE DEF CameraInv, CameraTypes, EvaluationsAreCounted, InEye, AfterEyes, hookVars, glVars,
      contextVars
<1>1. ASSUME NEW h \in GlHandles, DeleteGlContext(h) PROVE evals' \in 0 .. 2
  BY <1>1 DEF DeleteGlContext, ForgetContext, NoReplay
<1>2. ASSUME NEW h \in GlHandles, BindContext(h) PROVE evals' \in 0 .. 2
  BY <1>2 DEF BindContext
<1>3. CASE NoRequest
  BY <1>3 DEF NoRequest
<1>4. CASE BeginPass
  BY <1>4 DEF BeginPass
<1>5. CASE BeginPair
  BY <1>5 DEF BeginPair, ReplayInContext, BeginReplayFrame, NoReplay
<1>6. CASE BeginEye
  BY <1>6 DEF BeginEye
<1>7. CASE RecordScene
  BY <1>7 DEF RecordScene, Push
<1>8. CASE BeginHiddenDraw
  BY <1>8 DEF BeginHiddenDraw, Push
<1>9. CASE EndHiddenDraw
  BY <1>9 DEF EndHiddenDraw
<1>10. CASE SceneRecorded
  BY <1>10 DEF SceneRecorded
<1>11. CASE DrawEyeAgain
  BY <1>11 DEF DrawEyeAgain, ReplayScene, DrawScene, Keeps
<1>12. CASE NoSceneInPass
  BY <1>12 DEF NoSceneInPass
<1>13. CASE EndEye
  BY <1>13 DEF EndEye
<1>14. CASE EyeRaises
  BY <1>14 DEF EyeRaises
<1>15. CASE RestoreEngine
  BY <1>15 DEF RestoreEngine
<1>16. CASE SetFinalPass
  BY <1>16 DEF SetFinalPass
<1>17. CASE DrawMonitor
  BY <1>17 DEF DrawMonitor, ReplayScene, DrawScene, Keeps
<1>18. CASE FinishReplay
  BY <1>18 DEF FinishReplay, FinishPops
<1>19. CASE BeginMono
  BY <1>19 DEF BeginMono
<1>20. CASE EndMono
  BY <1>20 DEF EndMono
<1>21. CASE MonoMonitor
  BY <1>21 DEF MonoMonitor
<1>22. QED
  BY <1>1, <1>2, <1>3, <1>4, <1>5, <1>6, <1>7, <1>8, <1>9, <1>10, <1>11, <1>12, <1>13, <1>14,
      <1>15, <1>16, <1>17, <1>18, <1>19, <1>20, <1>21 DEF CameraNext

\* Every attribute stack keeps its type.
LEMMA StackTypeStep ==
    ASSUME CameraInv, CameraNext
    PROVE  StackTypes'
<1> USE DEF CameraInv, CameraTypes, CameraContextTypes, StackTypes, hookVars, glVars, contextVars
<1>0. /\ \A level \in {"frame", "hidden"} :
            Push(level) => attribs' \in [GlHandles -> Seq({"frame", "hidden"})]
      /\ Pop => attribs' \in [GlHandles -> Seq({"frame", "hidden"})]
  <2>1. attribs[bound] \in Seq({"frame", "hidden"})
    OBVIOUS
  <2>2. /\ \A level \in {"frame", "hidden"} :
              Append(attribs[bound], level) \in Seq({"frame", "hidden"})
        /\ Popped(attribs[bound]) \in Seq({"frame", "hidden"})
    BY <2>1, StackOperations
  <2>3. QED
    BY <2>2 DEF Push, Pop
<1>1. ASSUME NEW h \in GlHandles, DeleteGlContext(h) PROVE StackTypes'
  BY <1>1 DEF DeleteGlContext
<1>2. ASSUME NEW h \in GlHandles, BindContext(h) PROVE StackTypes'
  BY <1>2 DEF BindContext
<1>3. CASE NoRequest
  BY <1>3 DEF NoRequest
<1>4. CASE BeginPass
  BY <1>4 DEF BeginPass
<1>5. CASE BeginPair
  BY <1>5 DEF BeginPair
<1>6. CASE BeginEye
  BY <1>6 DEF BeginEye
<1>7. CASE RecordScene
  BY <1>7, <1>0 DEF RecordScene
<1>8. CASE BeginHiddenDraw
  BY <1>8, <1>0 DEF BeginHiddenDraw
<1>9. CASE EndHiddenDraw
  BY <1>9, <1>0 DEF EndHiddenDraw
<1>10. CASE SceneRecorded
  BY <1>10 DEF SceneRecorded
<1>11. CASE DrawEyeAgain
  BY <1>11, <1>0 DEF DrawEyeAgain, ReplayScene, DrawScene
<1>12. CASE NoSceneInPass
  BY <1>12 DEF NoSceneInPass
<1>13. CASE EndEye
  BY <1>13 DEF EndEye
<1>14. CASE EyeRaises
  BY <1>14 DEF EyeRaises
<1>15. CASE RestoreEngine
  BY <1>15 DEF RestoreEngine
<1>16. CASE SetFinalPass
  BY <1>16 DEF SetFinalPass
<1>17. CASE DrawMonitor
  BY <1>17, <1>0 DEF DrawMonitor, ReplayScene, DrawScene
<1>18. CASE FinishReplay
  BY <1>18, <1>0 DEF FinishReplay
<1>19. CASE BeginMono
  BY <1>19 DEF BeginMono
<1>20. CASE EndMono
  BY <1>20 DEF EndMono
<1>21. CASE MonoMonitor
  BY <1>21 DEF MonoMonitor
<1>22. QED
  BY <1>1, <1>2, <1>3, <1>4, <1>5, <1>6, <1>7, <1>8, <1>9, <1>10, <1>11, <1>12, <1>13, <1>14,
      <1>15, <1>16, <1>17, <1>18, <1>19, <1>20, <1>21 DEF CameraNext

\* After a raise in a hidden draw nothing is recorded any more.
LEMMA RaiseStep ==
    ASSUME CameraInv, CameraNext
    PROVE  RaiseIsFinal'
<1> USE DEF CameraInv, RaiseIsFinal, ReplayFollowsPass, InEye, AfterEyes, hookVars, glVars,
      contextVars
<1>1. ASSUME NEW h \in GlHandles, DeleteGlContext(h) PROVE RaiseIsFinal'
  BY <1>1 DEF DeleteGlContext
<1>2. ASSUME NEW h \in GlHandles, BindContext(h) PROVE RaiseIsFinal'
  BY <1>2 DEF BindContext
<1>3. CASE NoRequest
  BY <1>3 DEF NoRequest
<1>4. CASE BeginPass
  BY <1>4 DEF BeginPass
<1>5. CASE BeginPair
  BY <1>5 DEF BeginPair
<1>6. CASE BeginEye
  BY <1>6 DEF BeginEye
<1>7. CASE RecordScene
  BY <1>7 DEF RecordScene
<1>8. CASE BeginHiddenDraw
  BY <1>8 DEF BeginHiddenDraw
<1>9. CASE EndHiddenDraw
  BY <1>9 DEF EndHiddenDraw
<1>10. CASE SceneRecorded
  BY <1>10 DEF SceneRecorded
<1>11. CASE DrawEyeAgain
  BY <1>11 DEF DrawEyeAgain, ReplayScene, DrawScene, Keeps
<1>12. CASE NoSceneInPass
  BY <1>12 DEF NoSceneInPass
<1>13. CASE EndEye
  BY <1>13 DEF EndEye
<1>14. CASE EyeRaises
  BY <1>14 DEF EyeRaises
<1>15. CASE RestoreEngine
  BY <1>15 DEF RestoreEngine
<1>16. CASE SetFinalPass
  BY <1>16 DEF SetFinalPass, CameraTypes, ReplayStates
<1>17. CASE DrawMonitor
  BY <1>17 DEF DrawMonitor, ReplayScene, DrawScene, Keeps
<1>18. CASE FinishReplay
  BY <1>18 DEF FinishReplay, CameraTypes, ReplayStates
<1>19. CASE BeginMono
  BY <1>19 DEF BeginMono
<1>20. CASE EndMono
  BY <1>20 DEF EndMono
<1>21. CASE MonoMonitor
  BY <1>21 DEF MonoMonitor
<1>22. QED
  BY <1>1, <1>2, <1>3, <1>4, <1>5, <1>6, <1>7, <1>8, <1>9, <1>10, <1>11, <1>12, <1>13, <1>14,
      <1>15, <1>16, <1>17, <1>18, <1>19, <1>20, <1>21 DEF CameraNext

\* The hooks know the levels they have pushed.
LEMMA StackStep ==
    ASSUME CameraInv, CameraNext
    PROVE  StackIsKnown'
<1> USE DEF CameraInv, CameraTypes, FlagTypes, CameraContextTypes, StackTypes, StackIsKnown,
      RaiseIsFinal, Levels, Recorded, ReplayFollowsPass, InEye, AfterEyes, ReplayStates, hookVars,
      glVars, contextVars
<1>1. ASSUME NEW h \in GlHandles, DeleteGlContext(h) PROVE StackIsKnown'
  BY <1>1 DEF DeleteGlContext, ForgetContext, NoReplay
<1>2. ASSUME NEW h \in GlHandles, BindContext(h) PROVE StackIsKnown'
  BY <1>2 DEF BindContext
<1>3. CASE NoRequest
  BY <1>3 DEF NoRequest
<1>4. CASE BeginPass
  BY <1>4 DEF BeginPass
<1>5. CASE BeginPair
  BY <1>5 DEF BeginPair, ReplayInContext, BeginReplayFrame, NoReplay
<1>6. CASE BeginEye
  BY <1>6 DEF BeginEye
<1>7. CASE RecordScene
  BY <1>7, LevelsArePushed DEF RecordScene, Push
<1>8. CASE BeginHiddenDraw
  BY <1>8, LevelsArePushed DEF BeginHiddenDraw, Push
<1>9. CASE EndHiddenDraw
  BY <1>9, LevelsArePushed DEF EndHiddenDraw, Pop
<1>10. CASE SceneRecorded
  BY <1>10 DEF SceneRecorded
<1>11. CASE DrawEyeAgain
  BY <1>11, LevelsArePushed DEF DrawEyeAgain, Pop, ReplayScene, DrawScene, Keeps
<1>12. CASE NoSceneInPass
  BY <1>12 DEF NoSceneInPass
<1>13. CASE EndEye
  BY <1>13 DEF EndEye
<1>14. CASE EyeRaises
  BY <1>14 DEF EyeRaises
<1>15. CASE RestoreEngine
  BY <1>15 DEF RestoreEngine
<1>16. CASE SetFinalPass
  BY <1>16 DEF SetFinalPass
<1>17. CASE DrawMonitor
  <2>1. /\ phase = "last" /\ phase' = "finish" /\ bound' = bound /\ interrupted' = interrupted
        /\ \/ UNCHANGED <<attribs, replay>>
           \/ /\ replay.ready /\ replay.saved
              /\ IF Keeps THEN UNCHANGED attribs ELSE Pop
              /\ replay' = [replay EXCEPT !.saved = Keeps]
    BY <1>17 DEF DrawMonitor, ReplayScene, DrawScene
  <2>2. CASE UNCHANGED <<attribs, replay>>
    BY <2>1, <2>2
  <2>3. CASE /\ replay.ready /\ replay.saved /\ replay' = [replay EXCEPT !.saved = Keeps]
             /\ IF Keeps THEN UNCHANGED attribs ELSE Pop
    <3>1. interrupted = {}
      BY <2>1, <2>3
    <3>2. \A h \in GlHandles : attribs[h] = IF h = bound THEN OneLevel ELSE <<>>
      BY <2>1, <2>3, <3>1
    <3>3. replay'.saved = Keeps /\ Keeps \in BOOLEAN
      BY <2>3 DEF Keeps
    <3>4. CASE Keeps
      BY <2>1, <2>3, <3>1, <3>2, <3>3, <3>4
    <3>5. CASE ~Keeps
      <4>1. \A h \in GlHandles : attribs'[h] = <<>>
        BY <2>3, <3>2, <3>5, LevelsArePushed DEF Pop
      <4>2. QED
        BY <2>1, <3>1, <3>3, <3>5, <4>1
    <3>6. QED
      BY <3>4, <3>5
  <2>4. QED
    BY <2>1, <2>2, <2>3
<1>18. CASE FinishReplay
  <2>1. /\ phase = "finish" /\ phase' = "idle" /\ bound' = bound /\ interrupted' = interrupted
        /\ replay'.saved = FALSE
    BY <1>18 DEF FinishReplay
  <2>2. IF replay.saved THEN Pop ELSE UNCHANGED attribs
    BY <1>18 DEF FinishReplay, FinishPops
  <2>3. \A h \in GlHandles : h # bound => attribs'[h] = attribs[h]
    BY <2>2 DEF Pop
  <2>4. CASE replay.saved
    <3>1. attribs[bound] = IF bound \in interrupted THEN TwoLevels ELSE OneLevel
      BY <2>1, <2>4
    <3>2. attribs'[bound] = IF bound \in interrupted THEN OneLevel ELSE <<>>
      BY <2>2, <2>4, <3>1, LevelsArePushed DEF Pop
    <3>3. QED
      BY <2>1, <2>3, <3>2
  <2>5. CASE ~replay.saved
    BY <2>1, <2>2, <2>5
  <2>6. QED
    BY <2>4, <2>5
<1>19. CASE BeginMono
  BY <1>19 DEF BeginMono
<1>20. CASE EndMono
  BY <1>20 DEF EndMono
<1>21. CASE MonoMonitor
  BY <1>21 DEF MonoMonitor
<1>22. QED
  BY <1>1, <1>2, <1>3, <1>4, <1>5, <1>6, <1>7, <1>8, <1>9, <1>10, <1>11, <1>12, <1>13, <1>14,
      <1>15, <1>16, <1>17, <1>18, <1>19, <1>20, <1>21 DEF CameraNext

\* The replay's flags follow the place of the pass.
LEMMA PassStep ==
    ASSUME CameraInv, CameraNext
    PROVE  ReplayFollowsPass'
<1> USE DEF CameraInv, CameraTypes, FlagTypes, ReplayFollowsPass, InEye, AfterEyes, ReplayStates,
      hookVars, glVars, contextVars
<1>1. ASSUME NEW h \in GlHandles, DeleteGlContext(h) PROVE ReplayFollowsPass'
  BY <1>1 DEF DeleteGlContext, ForgetContext, NoReplay
<1>2. ASSUME NEW h \in GlHandles, BindContext(h) PROVE ReplayFollowsPass'
  BY <1>2 DEF BindContext
<1>3. CASE NoRequest
  BY <1>3 DEF NoRequest
<1>4. CASE BeginPass
  BY <1>4 DEF BeginPass
<1>5. CASE BeginPair
  <2>1. PICK ok \in BOOLEAN :
          /\ replay' = IF ReplayInContext(ok).list = 0 THEN ReplayInContext(ok)
                       ELSE BeginReplayFrame(ReplayInContext(ok))
          /\ phase' = "restore" \/ (phase' = "eye" /\ ReplayInContext(ok).list # 0)
    BY <1>5 DEF BeginPair
  <2>2. ~replay.active /\ ~replay.ready /\ ~replay.saved /\ ~raised /\ raised' = raised
    BY <1>5 DEF BeginPair
  <2>3. ReplayInContext(ok) \in ReplayStates
    BY <1>5, PairReplays
  <2>4. ~ReplayInContext(ok).ready /\ ~ReplayInContext(ok).saved
    BY <2>2 DEF ReplayInContext, NoReplay
  <2>5. ~replay'.ready /\ ~replay'.saved
    BY <2>1, <2>3, <2>4 DEF BeginReplayFrame
  <2>6. phase' = "eye" => replay'.active /\ ~replay'.final
    BY <2>1, <2>3 DEF BeginReplayFrame
  <2>7. replay'.saved = FALSE /\ replay'.ready = FALSE
    BY <2>5, ReplayTypeStep
  <2>8. CASE phase' = "restore"
    BY <2>2, <2>7, <2>8
  <2>9. CASE phase' = "eye"
    BY <2>2, <2>6, <2>7, <2>9
  <2>10. QED
    BY <2>1, <2>8, <2>9
<1>6. CASE BeginEye
  BY <1>6 DEF BeginEye
<1>7. CASE RecordScene
  BY <1>7 DEF RecordScene, Push
<1>8. CASE BeginHiddenDraw
  BY <1>8 DEF BeginHiddenDraw, Push
<1>9. CASE EndHiddenDraw
  BY <1>9 DEF EndHiddenDraw
<1>10. CASE SceneRecorded
  BY <1>10 DEF SceneRecorded
<1>11. CASE DrawEyeAgain
  BY <1>11 DEF DrawEyeAgain, ReplayScene, DrawScene, Keeps
<1>12. CASE NoSceneInPass
  BY <1>12 DEF NoSceneInPass
<1>13. CASE EndEye
  BY <1>13 DEF EndEye
<1>14. CASE EyeRaises
  BY <1>14 DEF EyeRaises
<1>15. CASE RestoreEngine
  BY <1>15 DEF RestoreEngine
<1>16. CASE SetFinalPass
  BY <1>16 DEF SetFinalPass
<1>17. CASE DrawMonitor
  BY <1>17 DEF DrawMonitor, ReplayScene, DrawScene, Keeps
<1>18. CASE FinishReplay
  BY <1>18 DEF FinishReplay, FinishPops
<1>19. CASE BeginMono
  BY <1>19 DEF BeginMono
<1>20. CASE EndMono
  BY <1>20 DEF EndMono
<1>21. CASE MonoMonitor
  BY <1>21 DEF MonoMonitor
<1>22. QED
  BY <1>1, <1>2, <1>3, <1>4, <1>5, <1>6, <1>7, <1>8, <1>9, <1>10, <1>11, <1>12, <1>13, <1>14,
      <1>15, <1>16, <1>17, <1>18, <1>19, <1>20, <1>21 DEF CameraNext

\* The lists stay those of a living context, and in a pass those of the bound one.
LEMMA ListStep ==
    ASSUME CameraInv, CameraNext
    PROVE  ListsAreLive'
<1> USE DEF CameraInv, CameraTypes, FlagTypes, CameraContextTypes, ListsAreLive,
      ReplayFollowsPass, InEye, AfterEyes, ReplayStates, hookVars, glVars, contextVars
<1>1. ASSUME NEW h \in GlHandles, DeleteGlContext(h) PROVE ListsAreLive'
  BY <1>1 DEF DeleteGlContext, ForgetContext, NoReplay
<1>2. ASSUME NEW h \in GlHandles, BindContext(h) PROVE ListsAreLive'
  BY <1>2 DEF BindContext
<1>3. CASE NoRequest
  BY <1>3 DEF NoRequest
<1>4. CASE BeginPass
  BY <1>4 DEF BeginPass
<1>5. CASE BeginPair
  <2>1. PICK ok \in BOOLEAN :
          replay' = IF ReplayInContext(ok).list = 0 THEN ReplayInContext(ok)
                    ELSE BeginReplayFrame(ReplayInContext(ok))
    BY <1>5 DEF BeginPair
  <2>2. ~replay.active /\ UNCHANGED <<generation, bound>>
    BY <1>5 DEF BeginPair
  <2>3. /\ ~ReplayInContext(ok).active
        /\ ReplayInContext(ok).list # 0 =>
              ReplayInContext(ok).context = bound /\ ReplayInContext(ok).list = generation[bound]
    BY <2>2 DEF ReplayInContext, NoReplay
  <2>4. replay'.context = ReplayInContext(ok).context /\ replay'.list = ReplayInContext(ok).list
    BY <2>1 DEF BeginReplayFrame, ReplayInContext, NoReplay
  <2>5. ReplayInContext(ok).list = 0 => ~replay'.active
    BY <2>1, <2>3
  <2>6. QED
    BY <2>2, <2>3, <2>4, <2>5
<1>6. CASE BeginEye
  BY <1>6 DEF BeginEye
<1>7. CASE RecordScene
  BY <1>7 DEF RecordScene, Push
<1>8. CASE BeginHiddenDraw
  BY <1>8 DEF BeginHiddenDraw, Push
<1>9. CASE EndHiddenDraw
  BY <1>9 DEF EndHiddenDraw
<1>10. CASE SceneRecorded
  BY <1>10 DEF SceneRecorded
<1>11. CASE DrawEyeAgain
  BY <1>11 DEF DrawEyeAgain, ReplayScene, DrawScene, Keeps
<1>12. CASE NoSceneInPass
  BY <1>12 DEF NoSceneInPass
<1>13. CASE EndEye
  BY <1>13 DEF EndEye
<1>14. CASE EyeRaises
  BY <1>14 DEF EyeRaises
<1>15. CASE RestoreEngine
  BY <1>15 DEF RestoreEngine
<1>16. CASE SetFinalPass
  BY <1>16 DEF SetFinalPass
<1>17. CASE DrawMonitor
  BY <1>17 DEF DrawMonitor, ReplayScene, DrawScene, Keeps
<1>18. CASE FinishReplay
  BY <1>18 DEF FinishReplay, FinishPops
<1>19. CASE BeginMono
  BY <1>19 DEF BeginMono
<1>20. CASE EndMono
  BY <1>20 DEF EndMono
<1>21. CASE MonoMonitor
  BY <1>21 DEF MonoMonitor
<1>22. QED
  BY <1>1, <1>2, <1>3, <1>4, <1>5, <1>6, <1>7, <1>8, <1>9, <1>10, <1>11, <1>12, <1>13, <1>14,
      <1>15, <1>16, <1>17, <1>18, <1>19, <1>20, <1>21 DEF CameraNext

\* Evaluations are counted by the recording.
LEMMA EvalStep ==
    ASSUME CameraInv, CameraNext
    PROVE  EvaluationsAreCounted'
<1> USE DEF CameraInv, CameraTypes, FlagTypes, EvaluationsAreCounted, ReplayFollowsPass, InEye,
      AfterEyes, ReplayStates, hookVars, glVars, contextVars
<1>1. ASSUME NEW h \in GlHandles, DeleteGlContext(h) PROVE EvaluationsAreCounted'
  BY <1>1 DEF DeleteGlContext, ForgetContext, NoReplay
<1>2. ASSUME NEW h \in GlHandles, BindContext(h) PROVE EvaluationsAreCounted'
  BY <1>2 DEF BindContext
<1>3. CASE NoRequest
  BY <1>3 DEF NoRequest
<1>4. CASE BeginPass
  BY <1>4 DEF BeginPass
<1>5. CASE BeginPair
  BY <1>5 DEF BeginPair, ReplayInContext, BeginReplayFrame, NoReplay
<1>6. CASE BeginEye
  BY <1>6 DEF BeginEye
<1>7. CASE RecordScene
  BY <1>7 DEF RecordScene, Push
<1>8. CASE BeginHiddenDraw
  BY <1>8 DEF BeginHiddenDraw, Push
<1>9. CASE EndHiddenDraw
  BY <1>9 DEF EndHiddenDraw
<1>10. CASE SceneRecorded
  BY <1>10 DEF SceneRecorded
<1>11. CASE DrawEyeAgain
  BY <1>11 DEF DrawEyeAgain, ReplayScene, DrawScene, Keeps
<1>12. CASE NoSceneInPass
  BY <1>12 DEF NoSceneInPass
<1>13. CASE EndEye
  BY <1>13 DEF EndEye
<1>14. CASE EyeRaises
  BY <1>14 DEF EyeRaises
<1>15. CASE RestoreEngine
  BY <1>15 DEF RestoreEngine
<1>16. CASE SetFinalPass
  BY <1>16 DEF SetFinalPass
<1>17. CASE DrawMonitor
  BY <1>17 DEF DrawMonitor, ReplayScene, DrawScene, Keeps
<1>18. CASE FinishReplay
  BY <1>18 DEF FinishReplay, FinishPops
<1>19. CASE BeginMono
  BY <1>19 DEF BeginMono
<1>20. CASE EndMono
  BY <1>20 DEF EndMono
<1>21. CASE MonoMonitor
  BY <1>21 DEF MonoMonitor
<1>22. QED
  BY <1>1, <1>2, <1>3, <1>4, <1>5, <1>6, <1>7, <1>8, <1>9, <1>10, <1>11, <1>12, <1>13, <1>14,
      <1>15, <1>16, <1>17, <1>18, <1>19, <1>20, <1>21 DEF CameraNext

\* The camera pass starts in its invariant.
LEMMA CameraStart == CameraInit => CameraInv
<1> SUFFICES ASSUME CameraInit PROVE CameraInv
  OBVIOUS
<1>1. bound \in GlHandles
  BY CameraAssumption DEF CameraInit
<1>2. CameraTypes
  <2>0. 0 \in 0 .. MaxGenerations /\ 1 \in 0 .. MaxGenerations
    BY CameraAssumption
  <2>1. CameraContextTypes
    BY <1>1, <2>0 DEF CameraInit, CameraContextTypes
  <2>2. replay \in ReplayStates
    <3>1. NoReplay \in ReplayStates
      BY <2>0 DEF NoReplay, ReplayStates
    <3>2. QED
      BY <3>1 DEF CameraInit
  <2>3. FlagTypes
    <3>1. phase = "idle" /\ eyeNo = 1 /\ policy = "Normal" /\ visibility = "hide"
      BY DEF CameraInit
    <3>2. /\ reentry = FALSE /\ hmdEnabled = TRUE /\ baseline = FALSE /\ pairOpen = FALSE
          /\ raised = FALSE /\ recording = FALSE
      BY DEF CameraInit
    <3>3. /\ reentry \in BOOLEAN /\ hmdEnabled \in BOOLEAN /\ baseline \in BOOLEAN
          /\ pairOpen \in BOOLEAN /\ raised \in BOOLEAN /\ recording \in BOOLEAN
      BY <3>2
    <3>4. QED
      BY <3>1, <3>3 DEF FlagTypes
  <2>4. StackTypes /\ evals \in 0 .. 2
    <3>1. attribs = [h \in GlHandles |-> <<>>] /\ interrupted = {} /\ evals = 0
      BY DEF CameraInit
    <3>2. QED
      BY <3>1 DEF StackTypes
  <2>5. QED
    BY <2>1, <2>2, <2>3, <2>4 DEF CameraTypes
<1>3. QED
  BY <1>2 DEF CameraInit, CameraInv, ListsAreLive, ReplayFollowsPass, EngineIsBorrowed,
      StackIsKnown, Levels, Recorded, RaiseIsFinal, EvaluationsAreCounted, NoReplay, InEye,
      AfterEyes, Unborrowed

\* Every step of a camera pass keeps the invariant.
LEMMA CameraStep == CameraInv /\ CameraNext => CameraInv'
<1> SUFFICES ASSUME CameraInv, CameraNext PROVE CameraInv'
  OBVIOUS
<1>1. CameraTypes'
  BY FlagStep, ContextTypeStep, ReplayTypeStep, StackTypeStep, EvalTypeStep DEF CameraTypes
<1>2. QED
  BY <1>1, ListStep, PassStep, EngineStep, StackStep, RaiseStep, EvalStep DEF CameraInv

\* Nothing changes in the invariant while nothing of the pass does.
LEMMA CameraQuiet == CameraInv /\ UNCHANGED cameraVars => CameraInv'
<1> SUFFICES ASSUME CameraInv, UNCHANGED cameraVars PROVE CameraInv'
  OBVIOUS
<1>0. /\ UNCHANGED <<phase, eyeNo, engine, policy, reentry, hmdEnabled, baseline, pairOpen, raised,
                    interrupted>>
      /\ UNCHANGED <<replay, visibility, attribs, recording, generation, bound, made, evals>>
  BY DEF cameraVars, hookVars, glVars, contextVars
<1>1. CameraTypes'
  BY <1>0 DEF CameraInv, CameraTypes, FlagTypes, CameraContextTypes, StackTypes
<1>2. ListsAreLive' /\ ReplayFollowsPass'
  BY <1>0 DEF CameraInv, ListsAreLive, ReplayFollowsPass
<1>3. EngineIsBorrowed' /\ StackIsKnown' /\ RaiseIsFinal'
  BY <1>0 DEF CameraInv, EngineIsBorrowed, StackIsKnown, Levels, Recorded, RaiseIsFinal
<1>4. EvaluationsAreCounted'
  BY <1>0 DEF CameraInv, EvaluationsAreCounted
<1>5. QED
  BY <1>1, <1>2, <1>3, <1>4 DEF CameraInv

\* What the invariant says of the checked properties.
LEMMA CameraShows ==
    CameraInv => CameraTypeOK /\ EngineRestored /\ SceneEvaluatedOnce /\ ReplaysOwnList
<1> SUFFICES ASSUME CameraInv
             PROVE  CameraTypeOK /\ EngineRestored /\ SceneEvaluatedOnce /\ ReplaysOwnList
  OBVIOUS
<1>1. CameraTypeOK
  BY DEF CameraInv, CameraTypes, FlagTypes, CameraContextTypes, StackTypes, ReplayStates,
      CameraTypeOK, InEye, AfterEyes
<1>2. EngineRestored
  <2>1. OneLevel = <<"frame">>
    BY DEF OneLevel
  <2>2. QED
    BY <2>1 DEF CameraInv, EngineIsBorrowed, EngineRestored, Unborrowed, StackIsKnown, Levels,
        Recorded, ReplayFollowsPass, CameraTypes, FlagTypes, ReplayStates
<1>3. SceneEvaluatedOnce
  BY DEF CameraInv, SceneEvaluatedOnce, EvaluationsAreCounted, InEye, AfterEyes, CameraTypes
<1>4. ReplaysOwnList
  BY DEF CameraInv, ReplaysOwnList, ListsAreLive
<1>5. QED
  BY <1>1, <1>2, <1>3, <1>4

-----------------------------------------------------------------------------
(* The probe: the bootstrap lock and the one sampler *)

BootStarting == {"initialise", "snapshot", "create", "report"}

BootStopping == {"closeLog", "reset", "release"}

SamplerRecords == [of : 1 .. MaxSessions, samples : 0 .. MaxSamples]

ProbeTypes ==
    /\ initState \in {"none", "done", "down"}
    /\ initResult \in InitResults \cup {"NotInitialized", "SamplerStopTimeout"}
    /\ verified \in BOOLEAN /\ complete \in BOOLEAN /\ logOpen \in BOOLEAN
    /\ session \in 0 .. MaxSessions /\ samplerOf \in 0 .. MaxSessions
    /\ lockedBy \in ProbeCallers \cup {FreeLock}
    /\ caller \in [ProbeCallers -> BootStarting \cup BootStopping \cup {"out", "wait"}]
    /\ samplers \subseteq SamplerRecords

LockIsCallers == \A c \in ProbeCallers : caller[c] # "out" <=> lockedBy = c

\* The handle is that of the last initialisation's sampler, if there is one.
SamplerIsKnown ==
    /\ \A s, r \in samplers : s = r
    /\ \A s \in samplers : s.of = samplerOf /\ s.of = session /\ initState # "none"
    /\ initState = "done" => session >= 1

\* A sampler and its handle exist between the bootstrap's creation of them and
\* the shutdown that saw the sampler's end.
SamplerIsBootstraps ==
    /\ samplers # {} \/ samplerOf # 0 => complete \/ \E c \in ProbeCallers : caller[c] = "report"
    /\ \A c \in ProbeCallers :
         /\ caller[c] \in BootStopping => samplers = {} /\ samplerOf = 0
         /\ caller[c] \in BootStarting => ~complete
         /\ caller[c] = "create" => initState = "done"

ProbeInv == ProbeTypes /\ LockIsCallers /\ SamplerIsKnown /\ SamplerIsBootstraps

\* The lock is held by the caller that is inside.
LEMMA LockStep ==
    ASSUME ProbeInv, ProbeNext
    PROVE  LockIsCallers'
<1> USE DEF ProbeInv, ProbeTypes, LockIsCallers, BootStarting, BootStopping, FreeLock, initVars,
      bootstrapVars, samplerVars
<1>1. ASSUME NEW c \in ProbeCallers, InitializeByHand(c) PROVE LockIsCallers'
  BY <1>1, ProbeAssumption DEF InitializeByHand, Initialises
<1>2. ASSUME NEW c \in ProbeCallers, BeginBootstrap(c) PROVE LockIsCallers'
  BY <1>2, ProbeAssumption DEF BeginBootstrap, Caller
<1>3. ASSUME NEW c \in ProbeCallers, BootstrapInitialises(c) PROVE LockIsCallers'
  BY <1>3, ProbeAssumption DEF BootstrapInitialises, Initialises, Caller, Concludes
<1>4. ASSUME NEW c \in ProbeCallers, TakeSnapshot(c) PROVE LockIsCallers'
  BY <1>4, ProbeAssumption DEF TakeSnapshot, Caller, Concludes
<1>5. ASSUME NEW c \in ProbeCallers, CreateSampler(c) PROVE LockIsCallers'
  BY <1>5, ProbeAssumption DEF CreateSampler, Caller, Concludes
<1>6. ASSUME NEW c \in ProbeCallers, ReportBootstrap(c) PROVE LockIsCallers'
  BY <1>6, ProbeAssumption DEF ReportBootstrap, Caller, Concludes
<1>7. ASSUME NEW c \in ProbeCallers, BeginShutdown(c) PROVE LockIsCallers'
  BY <1>7, ProbeAssumption DEF BeginShutdown, Caller
<1>8. ASSUME NEW c \in ProbeCallers, SamplerStopped(c) PROVE LockIsCallers'
  BY <1>8, ProbeAssumption DEF SamplerStopped, Caller
<1>9. ASSUME NEW c \in ProbeCallers, SamplerStopTimesOut(c) PROVE LockIsCallers'
  BY <1>9, ProbeAssumption DEF SamplerStopTimesOut, Caller, Concludes
<1>10. ASSUME NEW c \in ProbeCallers, CloseLog(c) PROVE LockIsCallers'
  BY <1>10, ProbeAssumption DEF CloseLog, Caller
<1>11. ASSUME NEW c \in ProbeCallers, ResetState(c) PROVE LockIsCallers'
  BY <1>11, ProbeAssumption DEF ResetState, Caller
<1>12. ASSUME NEW c \in ProbeCallers, EndShutdown(c) PROVE LockIsCallers'
  BY <1>12, ProbeAssumption DEF EndShutdown, Caller
<1>13. CASE SampleCamera
  BY <1>13, ProbeAssumption DEF SampleCamera
<1>14. CASE SamplerEnds
  BY <1>14, ProbeAssumption DEF SamplerEnds
<1>15. CASE AppendLine
  BY <1>15, ProbeAssumption DEF AppendLine
<1>16. QED
  BY <1>1, <1>2, <1>3, <1>4, <1>5, <1>6, <1>7, <1>8, <1>9, <1>10, <1>11, <1>12, <1>13, <1>14,
      <1>15 DEF ProbeNext

\* The sampler stays the last initialisation's.
LEMMA SamplerStep ==
    ASSUME ProbeInv, ProbeNext
    PROVE  SamplerIsKnown'
<1> USE DEF ProbeInv, ProbeTypes, LockIsCallers, SamplerIsKnown, SamplerIsBootstraps,
      BootStarting, BootStopping, SamplerRecords, initVars, bootstrapVars, samplerVars
<1>1. ASSUME NEW c \in ProbeCallers, InitializeByHand(c) PROVE SamplerIsKnown'
  BY <1>1 DEF InitializeByHand, Initialises
<1>2. ASSUME NEW c \in ProbeCallers, BeginBootstrap(c) PROVE SamplerIsKnown'
  BY <1>2 DEF BeginBootstrap, Caller
<1>3. ASSUME NEW c \in ProbeCallers, BootstrapInitialises(c) PROVE SamplerIsKnown'
  BY <1>3 DEF BootstrapInitialises, Initialises, Caller, Concludes
<1>4. ASSUME NEW c \in ProbeCallers, TakeSnapshot(c) PROVE SamplerIsKnown'
  BY <1>4 DEF TakeSnapshot, Caller, Concludes
<1>5. ASSUME NEW c \in ProbeCallers, CreateSampler(c) PROVE SamplerIsKnown'
  BY <1>5 DEF CreateSampler, Caller, Concludes
<1>6. ASSUME NEW c \in ProbeCallers, ReportBootstrap(c) PROVE SamplerIsKnown'
  BY <1>6 DEF ReportBootstrap, Caller, Concludes
<1>7. ASSUME NEW c \in ProbeCallers, BeginShutdown(c) PROVE SamplerIsKnown'
  BY <1>7 DEF BeginShutdown, Caller
<1>8. ASSUME NEW c \in ProbeCallers, SamplerStopped(c) PROVE SamplerIsKnown'
  <2>1. samplers = {}
    BY <1>8 DEF SamplerStopped, StopObserved, Running
  <2>2. QED
    BY <1>8, <2>1 DEF SamplerStopped, Caller
<1>9. ASSUME NEW c \in ProbeCallers, SamplerStopTimesOut(c) PROVE SamplerIsKnown'
  BY <1>9 DEF SamplerStopTimesOut, Caller, Concludes
<1>10. ASSUME NEW c \in ProbeCallers, CloseLog(c) PROVE SamplerIsKnown'
  BY <1>10 DEF CloseLog, Caller
<1>11. ASSUME NEW c \in ProbeCallers, ResetState(c) PROVE SamplerIsKnown'
  BY <1>11 DEF ResetState, Caller
<1>12. ASSUME NEW c \in ProbeCallers, EndShutdown(c) PROVE SamplerIsKnown'
  BY <1>12 DEF EndShutdown, Caller
<1>13. CASE SampleCamera
  BY <1>13 DEF SampleCamera
<1>14. CASE SamplerEnds
  BY <1>14 DEF SamplerEnds
<1>15. CASE AppendLine
  BY <1>15 DEF AppendLine
<1>16. QED
  BY <1>1, <1>2, <1>3, <1>4, <1>5, <1>6, <1>7, <1>8, <1>9, <1>10, <1>11, <1>12, <1>13, <1>14,
      <1>15 DEF ProbeNext

\* The sampler and its handle are the bootstrap's.
LEMMA ProbeHandleStep ==
    ASSUME ProbeInv, ProbeNext
    PROVE  SamplerIsBootstraps'
<1> USE DEF ProbeInv, ProbeTypes, LockIsCallers, SamplerIsKnown, SamplerIsBootstraps,
      BootStarting, BootStopping, SamplerRecords, initVars, bootstrapVars, samplerVars
<1>1. ASSUME NEW c \in ProbeCallers, InitializeByHand(c) PROVE SamplerIsBootstraps'
  BY <1>1 DEF InitializeByHand, Initialises
<1>2. ASSUME NEW c \in ProbeCallers, BeginBootstrap(c) PROVE SamplerIsBootstraps'
  BY <1>2 DEF BeginBootstrap, Caller
<1>3. ASSUME NEW c \in ProbeCallers, BootstrapInitialises(c) PROVE SamplerIsBootstraps'
  BY <1>3 DEF BootstrapInitialises, Initialises, Caller, Concludes
<1>4. ASSUME NEW c \in ProbeCallers, TakeSnapshot(c) PROVE SamplerIsBootstraps'
  BY <1>4 DEF TakeSnapshot, Caller, Concludes
<1>5. ASSUME NEW c \in ProbeCallers, CreateSampler(c) PROVE SamplerIsBootstraps'
  BY <1>5 DEF CreateSampler, Caller, Concludes
<1>6. ASSUME NEW c \in ProbeCallers, ReportBootstrap(c) PROVE SamplerIsBootstraps'
  BY <1>6 DEF ReportBootstrap, Caller, Concludes
<1>7. ASSUME NEW c \in ProbeCallers, BeginShutdown(c) PROVE SamplerIsBootstraps'
  <2>1. \A s \in samplers : samplerOf # 0
    OBVIOUS
  <2>2. samplerOf = 0 => samplers = {}
    BY <2>1
  <2>3. \A d \in ProbeCallers : caller[d] = "out"
    BY <1>7, ProbeAssumption DEF BeginShutdown, FreeLock
  <2>4. QED
    BY <1>7, <2>2, <2>3 DEF BeginShutdown, Caller
<1>8. ASSUME NEW c \in ProbeCallers, SamplerStopped(c) PROVE SamplerIsBootstraps'
  <2>1. samplers = {}
    BY <1>8 DEF SamplerStopped, StopObserved, Running
  <2>2. QED
    BY <1>8, <2>1 DEF SamplerStopped, Caller
<1>9. ASSUME NEW c \in ProbeCallers, SamplerStopTimesOut(c) PROVE SamplerIsBootstraps'
  BY <1>9 DEF SamplerStopTimesOut, Caller, Concludes
<1>10. ASSUME NEW c \in ProbeCallers, CloseLog(c) PROVE SamplerIsBootstraps'
  BY <1>10 DEF CloseLog, Caller
<1>11. ASSUME NEW c \in ProbeCallers, ResetState(c) PROVE SamplerIsBootstraps'
  BY <1>11 DEF ResetState, Caller
<1>12. ASSUME NEW c \in ProbeCallers, EndShutdown(c) PROVE SamplerIsBootstraps'
  BY <1>12 DEF EndShutdown, Caller
<1>13. CASE SampleCamera
  BY <1>13 DEF SampleCamera
<1>14. CASE SamplerEnds
  BY <1>14 DEF SamplerEnds
<1>15. CASE AppendLine
  BY <1>15 DEF AppendLine
<1>16. QED
  BY <1>1, <1>2, <1>3, <1>4, <1>5, <1>6, <1>7, <1>8, <1>9, <1>10, <1>11, <1>12, <1>13, <1>14,
      <1>15 DEF ProbeNext

\* The steps of the probe keep its types.
LEMMA ProbeTypeStep ==
    ASSUME ProbeInv, ProbeNext
    PROVE  ProbeTypes'
<1> USE DEF ProbeInv, ProbeTypes, LockIsCallers, SamplerIsKnown, SamplerIsBootstraps,
      BootStarting, BootStopping, SamplerRecords, InitResults, FreeLock, initVars, bootstrapVars,
      samplerVars
<1>1. ASSUME NEW c \in ProbeCallers, InitializeByHand(c) PROVE ProbeTypes'
  BY <1>1, ProbeAssumption DEF InitializeByHand, Initialises
<1>2. ASSUME NEW c \in ProbeCallers, BeginBootstrap(c) PROVE ProbeTypes'
  BY <1>2, ProbeAssumption DEF BeginBootstrap, Caller
<1>3. ASSUME NEW c \in ProbeCallers, BootstrapInitialises(c) PROVE ProbeTypes'
  <2>1. session' \in 0 .. MaxSessions
    BY <1>3, ProbeAssumption DEF BootstrapInitialises, Initialises
  <2>2. /\ initState' \in {"none", "done", "down"}
        /\ initResult' \in InitResults \cup {"NotInitialized", "SamplerStopTimeout"}
    BY <1>3 DEF BootstrapInitialises, Initialises
  <2>3. verified' \in BOOLEAN /\ logOpen' \in BOOLEAN
    BY <1>3 DEF BootstrapInitialises, Initialises
  <2>4. /\ caller' \in [ProbeCallers -> BootStarting \cup BootStopping \cup {"out", "wait"}]
        /\ lockedBy' \in ProbeCallers \cup {FreeLock} /\ complete' \in BOOLEAN
    BY <1>3 DEF BootstrapInitialises, Caller, Concludes
  <2>5. UNCHANGED <<samplers, samplerOf>>
    BY <1>3 DEF BootstrapInitialises
  <2>6. QED
    BY <2>1, <2>2, <2>3, <2>4, <2>5
<1>4. ASSUME NEW c \in ProbeCallers, TakeSnapshot(c) PROVE ProbeTypes'
  BY <1>4, ProbeAssumption DEF TakeSnapshot, Caller, Concludes
<1>5. ASSUME NEW c \in ProbeCallers, CreateSampler(c) PROVE ProbeTypes'
  <2>1. session \in 1 .. MaxSessions
    BY <1>5 DEF CreateSampler, Caller, Concludes
  <2>2. [of |-> session, samples |-> 0] \in SamplerRecords
    BY <2>1, ProbeAssumption
  <2>3. samplers' = samplers \/ samplers' = samplers \cup {[of |-> session, samples |-> 0]}
    BY <1>5 DEF CreateSampler
  <2>4. samplers' \subseteq SamplerRecords
    BY <2>2, <2>3
  <2>5. samplerOf' \in 0 .. MaxSessions
    BY <1>5 DEF CreateSampler
  <2>6. /\ caller' \in [ProbeCallers -> BootStarting \cup BootStopping \cup {"out", "wait"}]
        /\ lockedBy' \in ProbeCallers \cup {FreeLock} /\ complete' \in BOOLEAN
    BY <1>5 DEF CreateSampler, Caller, Concludes
  <2>7. UNCHANGED <<initState, initResult, verified, session, logOpen>>
    BY <1>5 DEF CreateSampler
  <2>8. QED
    BY <2>4, <2>5, <2>6, <2>7
<1>6. ASSUME NEW c \in ProbeCallers, ReportBootstrap(c) PROVE ProbeTypes'
  BY <1>6, ProbeAssumption DEF ReportBootstrap, Caller, Concludes
<1>7. ASSUME NEW c \in ProbeCallers, BeginShutdown(c) PROVE ProbeTypes'
  BY <1>7, ProbeAssumption DEF BeginShutdown, Caller
<1>8. ASSUME NEW c \in ProbeCallers, SamplerStopped(c) PROVE ProbeTypes'
  BY <1>8, ProbeAssumption DEF SamplerStopped, Caller
<1>9. ASSUME NEW c \in ProbeCallers, SamplerStopTimesOut(c) PROVE ProbeTypes'
  BY <1>9, ProbeAssumption DEF SamplerStopTimesOut, Caller, Concludes
<1>10. ASSUME NEW c \in ProbeCallers, CloseLog(c) PROVE ProbeTypes'
  BY <1>10, ProbeAssumption DEF CloseLog, Caller
<1>11. ASSUME NEW c \in ProbeCallers, ResetState(c) PROVE ProbeTypes'
  BY <1>11, ProbeAssumption DEF ResetState, Caller
<1>12. ASSUME NEW c \in ProbeCallers, EndShutdown(c) PROVE ProbeTypes'
  BY <1>12, ProbeAssumption DEF EndShutdown, Caller
<1>13. CASE SampleCamera
  <2>1. PICK s \in samplers :
          MaySample(s) /\ samplers' = (samplers \ {s}) \cup {[s EXCEPT !.samples = @ + 1]}
    BY <1>13 DEF SampleCamera
  <2>2. s \in SamplerRecords /\ s.samples + 1 \in 0 .. MaxSamples
    BY <2>1, ProbeAssumption DEF MaySample
  <2>3. [s EXCEPT !.samples = @ + 1] \in SamplerRecords
    BY <2>2
  <2>4. samplers' \subseteq SamplerRecords
    BY <2>1, <2>3
  <2>5. QED
    BY <1>13, <2>4 DEF SampleCamera
<1>14. CASE SamplerEnds
  BY <1>14, ProbeAssumption DEF SamplerEnds
<1>15. CASE AppendLine
  BY <1>15, ProbeAssumption DEF AppendLine
<1>16. QED
  BY <1>1, <1>2, <1>3, <1>4, <1>5, <1>6, <1>7, <1>8, <1>9, <1>10, <1>11, <1>12, <1>13, <1>14,
      <1>15 DEF ProbeNext

\* The probe starts in its invariant.
LEMMA ProbeStart == ProbeInit => ProbeInv
<1> SUFFICES ASSUME ProbeInit PROVE ProbeInv
  OBVIOUS
<1>1. ProbeTypes
  <2>1. verified \in BOOLEAN /\ complete \in BOOLEAN /\ logOpen \in BOOLEAN
    BY DEF ProbeInit
  <2>2. session \in 0 .. MaxSessions /\ samplerOf \in 0 .. MaxSessions
    BY ProbeAssumption DEF ProbeInit
  <2>3. /\ caller \in [ProbeCallers -> BootStarting \cup BootStopping \cup {"out", "wait"}]
        /\ samplers \subseteq SamplerRecords
    BY DEF ProbeInit
  <2>4. QED
    BY <2>1, <2>2, <2>3 DEF ProbeInit, ProbeTypes
<1>2. LockIsCallers
  BY ProbeAssumption DEF ProbeInit, LockIsCallers, FreeLock
<1>3. QED
  BY <1>1, <1>2 DEF ProbeInit, ProbeInv, SamplerIsKnown, SamplerIsBootstraps, BootStarting,
      BootStopping

\* Every step of the probe keeps the invariant.
LEMMA ProbeStep == ProbeInv /\ ProbeNext => ProbeInv'
BY ProbeTypeStep, LockStep, SamplerStep, ProbeHandleStep DEF ProbeInv

\* The invariant stays while nothing of the probe changes.
LEMMA ProbeQuiet == ProbeInv /\ UNCHANGED probeVars => ProbeInv'
<1> SUFFICES ASSUME ProbeInv, UNCHANGED probeVars PROVE ProbeInv'
  OBVIOUS
<1>1. UNCHANGED <<initState, initResult, verified, session, complete, bootResult, lockedBy, caller,
                  samplers, samplerOf, logOpen>>
  BY DEF probeVars, initVars, bootstrapVars, samplerVars
<1>2. ProbeTypes' /\ LockIsCallers'
  BY <1>1 DEF ProbeInv, ProbeTypes, LockIsCallers
<1>3. SamplerIsKnown' /\ SamplerIsBootstraps'
  BY <1>1 DEF ProbeInv, SamplerIsKnown, SamplerIsBootstraps
<1>4. QED
  BY <1>2, <1>3 DEF ProbeInv

\* A set whose members are all the same has at most one.
LEMMA AtMostOne ==
    ASSUME NEW S, \A s, r \in S : s = r
    PROVE  Cardinality(S) <= 1
<1>1. CASE S = {}
  BY <1>1, FS_EmptySet
<1>2. CASE S # {}
  <2>1. PICK s \in S : S = {s}
    BY <1>2
  <2>2. Cardinality({s}) = 1
    BY FS_Singleton
  <2>3. QED
    BY <2>1, <2>2
<1>3. QED
  BY <1>1, <1>2

\* What the invariant says of the checked properties.
LEMMA ProbeShows == ProbeInv => ProbeTypeOK /\ OneSampler
<1> SUFFICES ASSUME ProbeInv PROVE ProbeTypeOK /\ OneSampler
  OBVIOUS
<1>1. ProbeTypeOK
  BY DEF ProbeInv, ProbeTypes, ProbeTypeOK, SamplerRecords
<1>2. Cardinality(samplers) <= 1
  BY AtMostOne DEF ProbeInv, SamplerIsKnown
<1>3. Cardinality({c \in ProbeCallers : caller[c] # "out"}) <= 1
  <2>1. \A c, d \in {b \in ProbeCallers : caller[b] # "out"} : c = d
    BY DEF ProbeInv, LockIsCallers
  <2>2. QED
    BY <2>1, AtMostOne
<1>4. QED
  BY <1>1, <1>2, <1>3 DEF OneSampler, ProbeInv, SamplerIsKnown

-----------------------------------------------------------------------------
(* The movie channel: the cells, the mutex and what may be read under it *)

HookStages == {"mapped", "protect", "undo", "failed", "installed", "idle", "mutex"}

InstallTypes ==
    /\ bink \in BinkHooks \cup HookStages
    /\ binkCells \in [BinkHooks -> {"original", "ours", "foreign"}]
    /\ chained \in BOOLEAN /\ mutex \in {"none", "free", "game", "host", "abandoned"}

DecoderTypes ==
    /\ capturing \in BOOLEAN /\ gameAlive \in BOOLEAN
    /\ copyCall \in [Movies -> Publishing \cup {"out", "reading", "published"}]
    /\ ending \subseteq Movies /\ activeMovie \in Movies \cup {NoMovie}

Regions == [magic : {0, 1}, active : {0, 1}, seq : Nat, tick : Nat, halves : Nat \X Nat]
Images  == [seq : Nat, halves : Nat \X Nat]

TheatreTypes ==
    /\ hostOpen \in BOOLEAN /\ kept \in [seq : Nat, tick : Nat] /\ image \in Images
    /\ theatre \in [on : BOOLEAN, at : Nat] /\ clock \in 0 .. MaxClock

MovieTypes == InstallTypes /\ DecoderTypes /\ TheatreTypes /\ region \in Regions

\* No cell is ours before the exchanges and after their undoing.
CellsFollowInstall ==
    /\ bink \in {"idle", "mutex", "mapped", "Copy", "failed"} =>
          \A i \in BinkHooks : binkCells[i] # "ours"
    /\ bink \in BinkHooks \cup {"protect", "undo", "installed"} => chained /\ region.magic = 1
    /\ bink = "idle" => mutex = "none"

OneCopy ==
    /\ \A m \in Movies : copyCall[m] # "out" => capturing
    /\ \A m, n \in Movies : copyCall[m] # "out" /\ copyCall[n] # "out" => m = n

MutexIsPublishers ==
    /\ gameAlive => (mutex = "game" <=> \E m \in Movies : copyCall[m] \in Publishing)
    /\ mutex = "abandoned" => ~gameAlive

\* An active frame is whole, and so is one about to become active.
Painted(n) == region.halves[1] = n /\ region.halves[2] = n

FrameIsWritten ==
    /\ region.active = 1 => Painted(region.seq)
    /\ \A m \in Movies :
         /\ copyCall[m] \in {"blanked", "half", "painted", "stamped"} => region.active = 0
         /\ copyCall[m] = "half" => region.halves[1] = region.seq + 1
         /\ copyCall[m] = "painted" => Painted(region.seq + 1)
         /\ copyCall[m] = "stamped" => Painted(region.seq)

\* The kept picture is whole, and its time stamp is its publication's.
KeptIsWhole ==
    /\ image.halves[1] = image.seq /\ image.halves[2] = image.seq
    /\ kept.seq <= region.seq
    /\ kept.seq = region.seq /\ kept.seq # 0 => kept.tick = region.tick
    /\ theatre.on => theatre.at - kept.tick \in 0 .. MovieTimeout

MovieInv ==
    /\ MovieTypes /\ CellsFollowInstall /\ OneCopy /\ MutexIsPublishers
    /\ FrameIsWritten /\ KeptIsWhole

\* After its own cell the installation exchanges another one, or protects the page.
LEMMA HookOrder == \A i \in BinkHooks : AfterHook[i] \in {"Close", "Pause", "Summary", "protect"}
  BY DEF BinkHooks, AfterHook

\* The five writes of a publication, by the copy call's place.
LEMMA PublicationWrites ==
    ASSUME MovieInv, region \in Regions, NEW m \in Movies, PublishMovie(m)
    PROVE  /\ region' \in Regions /\ region'.magic = region.magic
           /\ \/ /\ Copying(m, "locked", "blanked") /\ region'.active = 0
                 /\ region'.seq = region.seq /\ region'.tick = region.tick
              \/ /\ Copying(m, "blanked", "half") /\ region'.active = region.active
                 /\ region'.halves[1] = region.seq + 1
                 /\ region'.seq = region.seq /\ region'.tick = region.tick
              \/ /\ Copying(m, "half", "painted") /\ region'.active = region.active
                 /\ region'.halves[1] = region.halves[1] /\ region'.halves[2] = region.seq + 1
                 /\ region'.seq = region.seq /\ region'.tick = region.tick
              \/ /\ Copying(m, "painted", "stamped") /\ region'.active = region.active
                 /\ region'.halves = region.halves /\ region'.seq = region.seq + 1
              \/ /\ Copying(m, "stamped", "active") /\ region'.active = 1
                 /\ region'.halves = region.halves
                 /\ region'.seq = region.seq /\ region'.tick = region.tick
<1> USE DEF Regions
<1>0. clock \in Nat
  BY DEF MovieInv, MovieTypes, TheatreTypes
<1>1. CASE Copying(m, "locked", "blanked") /\ Blank
  BY <1>1 DEF Blank
<1>2. CASE Copying(m, "blanked", "half") /\ region' = [region EXCEPT !.halves[1] = region.seq + 1]
  <2>1. [region.halves EXCEPT ![1] = region.seq + 1] \in Nat \X Nat
    OBVIOUS
  <2>2. region' = [region EXCEPT !.halves = [region.halves EXCEPT ![1] = region.seq + 1]]
    BY <1>2
  <2>3. region'.halves[1] = region.seq + 1
    BY <2>2
  <2>4. QED
    BY <1>2, <2>1, <2>2, <2>3
<1>3. CASE Copying(m, "half", "painted") /\ region' = [region EXCEPT !.halves[2] = region.seq + 1]
  <2>1. [region.halves EXCEPT ![2] = region.seq + 1] \in Nat \X Nat
    OBVIOUS
  <2>2. region' = [region EXCEPT !.halves = [region.halves EXCEPT ![2] = region.seq + 1]]
    BY <1>3
  <2>3. region'.halves[1] = region.halves[1] /\ region'.halves[2] = region.seq + 1
    BY <2>2
  <2>4. QED
    BY <1>3, <2>1, <2>2, <2>3
<1>4. CASE Copying(m, "painted", "stamped")
           /\ region' = [region EXCEPT !.tick = clock, !.seq = @ + 1]
  <2>1. region' = [[region EXCEPT !.tick = clock] EXCEPT !.seq = region.seq + 1]
    BY <1>4
  <2>2. region.seq + 1 \in Nat
    OBVIOUS
  <2>3. [region EXCEPT !.tick = clock] \in Regions
    BY <1>0
  <2>4. region' \in Regions /\ region'.magic = region.magic /\ region'.active = region.active
        /\ region'.halves = region.halves /\ region'.seq = region.seq + 1
    BY <2>1, <2>2, <2>3
  <2>5. QED
    BY <1>4, <2>4
<1>5. CASE Copying(m, "stamped", "active") /\ region' = [region EXCEPT !.active = 1]
  BY <1>5
<1>6. QED
  BY <1>1, <1>2, <1>3, <1>4, <1>5 DEF PublishMovie

\* The steps keep the types of the installation.
LEMMA InstallTypeStep ==
    ASSUME MovieInv, MovieNext
    PROVE  InstallTypes'
<1> USE DEF MovieInv, MovieTypes, InstallTypes, HookStages, installVars, decoderVars, theatreVars
<1>1. CASE CreateMutex
  BY <1>1 DEF CreateMutex, Installing
<1>2. CASE CreateRegion
  BY <1>2 DEF CreateRegion, Installing
<1>3. CASE OpenWriter
  <2>1. bink' \in {"Copy", "failed"} /\ (chained' = TRUE \/ chained' = chained)
        /\ UNCHANGED <<binkCells, mutex>>
    BY <1>3 DEF OpenWriter, Installing
  <2>2. chained' \in BOOLEAN
    BY <2>1
  <2>3. bink' \in BinkHooks \cup HookStages
    BY <2>1 DEF BinkHooks
  <2>4. QED
    BY <2>1, <2>2, <2>3
<1>4. CASE InstallRefused
  BY <1>4 DEF InstallRefused
<1>5. CASE ProtectCells
  BY <1>5 DEF ProtectCells
<1>6. CASE UndoInstall
  BY <1>6 DEF UndoInstall, Installing, UndoCells
<1>7. CASE GameDies
  BY <1>7 DEF GameDies
<1>8. CASE OpenReader
  BY <1>8 DEF OpenReader
<1>9. CASE ReadUnavailable
  BY <1>9 DEF ReadUnavailable
<1>10. CASE ReadAbandoned
  BY <1>10 DEF ReadAbandoned
<1>11. CASE LockReader
  BY <1>11 DEF LockReader
<1>12. CASE ReadMovie
  BY <1>12 DEF ReadMovie
<1>13. CASE CloseReader
  BY <1>13 DEF CloseReader
<1>14. CASE Tick
  BY <1>14 DEF Tick
<1>15. ASSUME NEW i \in BinkHooks, ExchangeBinkCell(i) PROVE InstallTypes'
  <2>1. bink' \in {"Close", "Pause", "Summary", "protect", "undo"}
    BY <1>15, HookOrder DEF ExchangeBinkCell
  <2>2. bink' \in BinkHooks \cup HookStages
    BY <2>1 DEF BinkHooks
  <2>3. QED
    BY <1>15, <2>2 DEF ExchangeBinkCell
<1>16. ASSUME NEW i \in BinkHooks, ForeignBinkCell(i) PROVE InstallTypes'
  BY <1>16 DEF ForeignBinkCell
<1>17. ASSUME NEW m \in Movies, BeginCopy(m) PROVE InstallTypes'
  BY <1>17 DEF BeginCopy, Copying
<1>18. ASSUME NEW m \in Movies, CopyGivesUp(m) PROVE InstallTypes'
  BY <1>18 DEF CopyGivesUp, Copying
<1>19. ASSUME NEW m \in Movies, LockRegion(m) PROVE InstallTypes'
  BY <1>19 DEF LockRegion, Copying
<1>20. ASSUME NEW m \in Movies, PublishMovie(m) PROVE InstallTypes'
  BY <1>20 DEF PublishMovie, Copying
<1>21. ASSUME NEW m \in Movies, UnlockRegion(m) PROVE InstallTypes'
  BY <1>21 DEF UnlockRegion, Copying
<1>22. ASSUME NEW m \in Movies, CopyReturns(m) PROVE InstallTypes'
  BY <1>22 DEF CopyReturns, Copying
<1>23. ASSUME NEW m \in Movies, BeginEnd(m) PROVE InstallTypes'
  BY <1>23 DEF BeginEnd
<1>24. ASSUME NEW m \in Movies, EndMovie(m) PROVE InstallTypes'
  BY <1>24 DEF EndMovie
<1>25. QED
  BY <1>1, <1>2, <1>3, <1>4, <1>5, <1>6, <1>7, <1>8, <1>9, <1>10, <1>11, <1>12, <1>13, <1>14,
      <1>15, <1>16, <1>17, <1>18, <1>19, <1>20, <1>21, <1>22, <1>23, <1>24 DEF MovieNext

\* The steps keep the types of the decoder's calls.
LEMMA DecoderTypeStep ==
    ASSUME MovieInv, MovieNext
    PROVE  DecoderTypes'
<1> USE DEF MovieInv, MovieTypes, DecoderTypes, Publishing, installVars, decoderVars, theatreVars
<1>1. CASE CreateMutex
  BY <1>1 DEF CreateMutex, Installing
<1>2. CASE CreateRegion
  BY <1>2 DEF CreateRegion, Installing
<1>3. CASE OpenWriter
  BY <1>3 DEF OpenWriter, Installing
<1>4. CASE InstallRefused
  BY <1>4 DEF InstallRefused
<1>5. CASE ProtectCells
  BY <1>5 DEF ProtectCells
<1>6. CASE UndoInstall
  BY <1>6 DEF UndoInstall, Installing, UndoCells
<1>7. CASE GameDies
  BY <1>7 DEF GameDies
<1>8. CASE OpenReader
  BY <1>8 DEF OpenReader
<1>9. CASE ReadUnavailable
  BY <1>9 DEF ReadUnavailable
<1>10. CASE ReadAbandoned
  BY <1>10 DEF ReadAbandoned
<1>11. CASE LockReader
  BY <1>11 DEF LockReader
<1>12. CASE ReadMovie
  BY <1>12 DEF ReadMovie
<1>13. CASE CloseReader
  BY <1>13 DEF CloseReader
<1>14. CASE Tick
  BY <1>14 DEF Tick
<1>15. ASSUME NEW i \in BinkHooks, ExchangeBinkCell(i) PROVE DecoderTypes'
  BY <1>15 DEF ExchangeBinkCell
<1>16. ASSUME NEW i \in BinkHooks, ForeignBinkCell(i) PROVE DecoderTypes'
  BY <1>16 DEF ForeignBinkCell
<1>17. ASSUME NEW m \in Movies, BeginCopy(m) PROVE DecoderTypes'
  BY <1>17 DEF BeginCopy, Copying
<1>18. ASSUME NEW m \in Movies, CopyGivesUp(m) PROVE DecoderTypes'
  BY <1>18 DEF CopyGivesUp, Copying
<1>19. ASSUME NEW m \in Movies, LockRegion(m) PROVE DecoderTypes'
  BY <1>19 DEF LockRegion, Copying
<1>20. ASSUME NEW m \in Movies, PublishMovie(m) PROVE DecoderTypes'
  BY <1>20 DEF PublishMovie, Copying
<1>21. ASSUME NEW m \in Movies, UnlockRegion(m) PROVE DecoderTypes'
  BY <1>21 DEF UnlockRegion, Copying
<1>22. ASSUME NEW m \in Movies, CopyReturns(m) PROVE DecoderTypes'
  BY <1>22 DEF CopyReturns, Copying
<1>23. ASSUME NEW m \in Movies, BeginEnd(m) PROVE DecoderTypes'
  BY <1>23 DEF BeginEnd
<1>24. ASSUME NEW m \in Movies, EndMovie(m) PROVE DecoderTypes'
  BY <1>24 DEF EndMovie
<1>25. QED
  BY <1>1, <1>2, <1>3, <1>4, <1>5, <1>6, <1>7, <1>8, <1>9, <1>10, <1>11, <1>12, <1>13, <1>14,
      <1>15, <1>16, <1>17, <1>18, <1>19, <1>20, <1>21, <1>22, <1>23, <1>24 DEF MovieNext

\* The steps keep the types of the host's side.
LEMMA TheatreTypeStep ==
    ASSUME MovieInv, MovieNext
    PROVE  TheatreTypes'
<1> USE DEF MovieInv, MovieTypes, TheatreTypes, Images, Regions, installVars, decoderVars,
      theatreVars
<1>1. CASE CreateMutex
  BY <1>1 DEF CreateMutex, Installing
<1>2. CASE CreateRegion
  BY <1>2 DEF CreateRegion, Installing
<1>3. CASE OpenWriter
  BY <1>3 DEF OpenWriter, Installing
<1>4. CASE InstallRefused
  BY <1>4 DEF InstallRefused
<1>5. CASE ProtectCells
  BY <1>5 DEF ProtectCells
<1>6. CASE UndoInstall
  BY <1>6 DEF UndoInstall, Installing, UndoCells
<1>7. CASE GameDies
  BY <1>7 DEF GameDies
<1>8. CASE OpenReader
  BY <1>8 DEF OpenReader
<1>9. CASE ReadUnavailable
  BY <1>9 DEF ReadUnavailable, Decide, Shows, Dark
<1>10. CASE ReadAbandoned
  BY <1>10 DEF ReadAbandoned, Decide, Shows, Dark
<1>11. CASE LockReader
  BY <1>11 DEF LockReader
<1>12. CASE ReadMovie
  <2>1. kept' \in [seq : Nat, tick : Nat]
    BY <1>12 DEF ReadMovie, Decide
  <2>2. image' \in Images
    BY <1>12 DEF ReadMovie, Decide
  <2>3. theatre' \in {[on |-> TRUE, at |-> clock], Dark}
    BY <1>12 DEF ReadMovie, Decide
  <2>4. theatre' \in [on : BOOLEAN, at : Nat]
    <3>1. [on |-> TRUE, at |-> clock] \in [on : BOOLEAN, at : Nat]
      OBVIOUS
    <3>2. Dark \in [on : BOOLEAN, at : Nat]
      BY DEF Dark
    <3>3. QED
      BY <2>3, <3>1, <3>2
  <2>5. QED
    BY <1>12, <2>1, <2>2, <2>4 DEF ReadMovie
<1>13. CASE CloseReader
  BY <1>13 DEF CloseReader, Dark
<1>14. CASE Tick
  <2>1. clock' \in 0 .. MaxClock
    BY <1>14, MovieAssumption DEF Tick
  <2>2. QED
    BY <1>14, <2>1 DEF Tick
<1>15. ASSUME NEW i \in BinkHooks, ExchangeBinkCell(i) PROVE TheatreTypes'
  BY <1>15 DEF ExchangeBinkCell
<1>16. ASSUME NEW i \in BinkHooks, ForeignBinkCell(i) PROVE TheatreTypes'
  BY <1>16 DEF ForeignBinkCell
<1>17. ASSUME NEW m \in Movies, BeginCopy(m) PROVE TheatreTypes'
  BY <1>17 DEF BeginCopy, Copying
<1>18. ASSUME NEW m \in Movies, CopyGivesUp(m) PROVE TheatreTypes'
  BY <1>18 DEF CopyGivesUp, Copying
<1>19. ASSUME NEW m \in Movies, LockRegion(m) PROVE TheatreTypes'
  BY <1>19 DEF LockRegion, Copying
<1>20. ASSUME NEW m \in Movies, PublishMovie(m) PROVE TheatreTypes'
  BY <1>20 DEF PublishMovie, Copying
<1>21. ASSUME NEW m \in Movies, UnlockRegion(m) PROVE TheatreTypes'
  BY <1>21 DEF UnlockRegion, Copying
<1>22. ASSUME NEW m \in Movies, CopyReturns(m) PROVE TheatreTypes'
  BY <1>22 DEF CopyReturns, Copying
<1>23. ASSUME NEW m \in Movies, BeginEnd(m) PROVE TheatreTypes'
  BY <1>23 DEF BeginEnd
<1>24. ASSUME NEW m \in Movies, EndMovie(m) PROVE TheatreTypes'
  BY <1>24 DEF EndMovie
<1>25. QED
  BY <1>1, <1>2, <1>3, <1>4, <1>5, <1>6, <1>7, <1>8, <1>9, <1>10, <1>11, <1>12, <1>13, <1>14,
      <1>15, <1>16, <1>17, <1>18, <1>19, <1>20, <1>21, <1>22, <1>23, <1>24 DEF MovieNext

\* The shared frame keeps its type.
LEMMA RegionTypeStep ==
    ASSUME MovieInv, MovieNext
    PROVE  region' \in Regions
<1> USE DEF MovieInv, MovieTypes, TheatreTypes, Regions, installVars, decoderVars, theatreVars
<1>1. CASE CreateMutex
  BY <1>1 DEF CreateMutex, Installing
<1>2. CASE CreateRegion
  BY <1>2 DEF CreateRegion, Installing
<1>3. CASE OpenWriter
  BY <1>3 DEF OpenWriter, Installing
<1>4. CASE InstallRefused
  BY <1>4 DEF InstallRefused
<1>5. CASE ProtectCells
  BY <1>5 DEF ProtectCells
<1>6. CASE UndoInstall
  BY <1>6 DEF UndoInstall, Installing, UndoCells
<1>7. CASE GameDies
  BY <1>7 DEF GameDies
<1>8. CASE OpenReader
  BY <1>8 DEF OpenReader
<1>9. CASE ReadUnavailable
  BY <1>9 DEF ReadUnavailable
<1>10. CASE ReadAbandoned
  BY <1>10 DEF ReadAbandoned
<1>11. CASE LockReader
  BY <1>11 DEF LockReader
<1>12. CASE ReadMovie
  BY <1>12 DEF ReadMovie
<1>13. CASE CloseReader
  BY <1>13 DEF CloseReader
<1>14. CASE Tick
  BY <1>14 DEF Tick
<1>15. ASSUME NEW i \in BinkHooks, ExchangeBinkCell(i) PROVE region' \in Regions
  BY <1>15 DEF ExchangeBinkCell
<1>16. ASSUME NEW i \in BinkHooks, ForeignBinkCell(i) PROVE region' \in Regions
  BY <1>16 DEF ForeignBinkCell
<1>17. ASSUME NEW m \in Movies, BeginCopy(m) PROVE region' \in Regions
  BY <1>17 DEF BeginCopy, Copying
<1>18. ASSUME NEW m \in Movies, CopyGivesUp(m) PROVE region' \in Regions
  BY <1>18 DEF CopyGivesUp, Copying
<1>19. ASSUME NEW m \in Movies, LockRegion(m) PROVE region' \in Regions
  BY <1>19 DEF LockRegion, Copying
<1>20. ASSUME NEW m \in Movies, PublishMovie(m) PROVE region' \in Regions
  <2>1. region \in Regions
    OBVIOUS
  <2>2. QED
    BY <1>20, <2>1, PublicationWrites DEF Copying
<1>21. ASSUME NEW m \in Movies, UnlockRegion(m) PROVE region' \in Regions
  BY <1>21 DEF UnlockRegion, Copying
<1>22. ASSUME NEW m \in Movies, CopyReturns(m) PROVE region' \in Regions
  BY <1>22 DEF CopyReturns, Copying
<1>23. ASSUME NEW m \in Movies, BeginEnd(m) PROVE region' \in Regions
  BY <1>23 DEF BeginEnd
<1>24. ASSUME NEW m \in Movies, EndMovie(m) PROVE region' \in Regions
  BY <1>24 DEF EndMovie, Blank
<1>25. QED
  BY <1>1, <1>2, <1>3, <1>4, <1>5, <1>6, <1>7, <1>8, <1>9, <1>10, <1>11, <1>12, <1>13, <1>14,
      <1>15, <1>16, <1>17, <1>18, <1>19, <1>20, <1>21, <1>22, <1>23, <1>24 DEF MovieNext

\* The cells follow the installation.
LEMMA MovieCellsStep ==
    ASSUME MovieInv, MovieNext
    PROVE  CellsFollowInstall'
<1> USE DEF MovieInv, MovieTypes, InstallTypes, CellsFollowInstall, HookStages, BinkHooks,
      Regions, installVars, decoderVars, theatreVars
<1>1. CASE CreateMutex
  BY <1>1 DEF CreateMutex, Installing
<1>2. CASE CreateRegion
  BY <1>2 DEF CreateRegion, Installing
<1>3. CASE OpenWriter
  BY <1>3 DEF OpenWriter, Installing
<1>4. CASE InstallRefused
  BY <1>4 DEF InstallRefused
<1>5. CASE ProtectCells
  BY <1>5 DEF ProtectCells
<1>6. CASE UndoInstall
  BY <1>6 DEF UndoInstall, Installing, UndoCells
<1>7. CASE GameDies
  BY <1>7 DEF GameDies
<1>8. CASE OpenReader
  BY <1>8 DEF OpenReader
<1>9. CASE ReadUnavailable
  BY <1>9 DEF ReadUnavailable
<1>10. CASE ReadAbandoned
  BY <1>10 DEF ReadAbandoned
<1>11. CASE LockReader
  BY <1>11 DEF LockReader
<1>12. CASE ReadMovie
  BY <1>12 DEF ReadMovie
<1>13. CASE CloseReader
  BY <1>13 DEF CloseReader
<1>14. CASE Tick
  BY <1>14 DEF Tick
<1>15. ASSUME NEW i \in BinkHooks, ExchangeBinkCell(i) PROVE CellsFollowInstall'
  <2>1. bink' \in {"Close", "Pause", "Summary", "protect", "undo"} /\ bink \in BinkHooks
    BY <1>15, HookOrder DEF ExchangeBinkCell
  <2>2. UNCHANGED <<chained, region>>
    BY <1>15 DEF ExchangeBinkCell
  <2>3. QED
    BY <2>1, <2>2
<1>16. ASSUME NEW i \in BinkHooks, ForeignBinkCell(i) PROVE CellsFollowInstall'
  BY <1>16 DEF ForeignBinkCell
<1>17. ASSUME NEW m \in Movies, BeginCopy(m) PROVE CellsFollowInstall'
  BY <1>17 DEF BeginCopy, Copying
<1>18. ASSUME NEW m \in Movies, CopyGivesUp(m) PROVE CellsFollowInstall'
  BY <1>18 DEF CopyGivesUp, Copying
<1>19. ASSUME NEW m \in Movies, LockRegion(m) PROVE CellsFollowInstall'
  BY <1>19 DEF LockRegion, Copying
<1>20. ASSUME NEW m \in Movies, PublishMovie(m) PROVE CellsFollowInstall'
  BY <1>20 DEF PublishMovie, Copying, Blank
<1>21. ASSUME NEW m \in Movies, UnlockRegion(m) PROVE CellsFollowInstall'
  <2>1. gameAlive /\ copyCall[m] \in Publishing /\ UNCHANGED <<installVars, region>>
    BY <1>21 DEF UnlockRegion, Copying, Publishing
  <2>2. bink # "idle"
    BY <2>1 DEF MutexIsPublishers
  <2>3. QED
    BY <2>1, <2>2
<1>22. ASSUME NEW m \in Movies, CopyReturns(m) PROVE CellsFollowInstall'
  BY <1>22 DEF CopyReturns, Copying
<1>23. ASSUME NEW m \in Movies, BeginEnd(m) PROVE CellsFollowInstall'
  BY <1>23 DEF BeginEnd
<1>24. ASSUME NEW m \in Movies, EndMovie(m) PROVE CellsFollowInstall'
  BY <1>24 DEF EndMovie, Blank
<1>25. QED
  BY <1>1, <1>2, <1>3, <1>4, <1>5, <1>6, <1>7, <1>8, <1>9, <1>10, <1>11, <1>12, <1>13, <1>14,
      <1>15, <1>16, <1>17, <1>18, <1>19, <1>20, <1>21, <1>22, <1>23, <1>24 DEF MovieNext

\* One copy call is in the wrapper at most.
LEMMA CopyStep ==
    ASSUME MovieInv, MovieNext
    PROVE  OneCopy'
<1> USE DEF MovieInv, MovieTypes, DecoderTypes, OneCopy, installVars, decoderVars, theatreVars
<1>1. CASE CreateMutex
  BY <1>1 DEF CreateMutex, Installing
<1>2. CASE CreateRegion
  BY <1>2 DEF CreateRegion, Installing
<1>3. CASE OpenWriter
  BY <1>3 DEF OpenWriter, Installing
<1>4. CASE InstallRefused
  BY <1>4 DEF InstallRefused
<1>5. CASE ProtectCells
  BY <1>5 DEF ProtectCells
<1>6. CASE UndoInstall
  BY <1>6 DEF UndoInstall, Installing, UndoCells
<1>7. CASE GameDies
  BY <1>7 DEF GameDies
<1>8. CASE OpenReader
  BY <1>8 DEF OpenReader
<1>9. CASE ReadUnavailable
  BY <1>9 DEF ReadUnavailable
<1>10. CASE ReadAbandoned
  BY <1>10 DEF ReadAbandoned
<1>11. CASE LockReader
  BY <1>11 DEF LockReader
<1>12. CASE ReadMovie
  BY <1>12 DEF ReadMovie
<1>13. CASE CloseReader
  BY <1>13 DEF CloseReader
<1>14. CASE Tick
  BY <1>14 DEF Tick
<1>15. ASSUME NEW i \in BinkHooks, ExchangeBinkCell(i) PROVE OneCopy'
  BY <1>15 DEF ExchangeBinkCell
<1>16. ASSUME NEW i \in BinkHooks, ForeignBinkCell(i) PROVE OneCopy'
  BY <1>16 DEF ForeignBinkCell
<1>17. ASSUME NEW m \in Movies, BeginCopy(m) PROVE OneCopy'
  BY <1>17 DEF BeginCopy, Copying
<1>18. ASSUME NEW m \in Movies, CopyGivesUp(m) PROVE OneCopy'
  BY <1>18 DEF CopyGivesUp, Copying
<1>19. ASSUME NEW m \in Movies, LockRegion(m) PROVE OneCopy'
  BY <1>19 DEF LockRegion, Copying
<1>20. ASSUME NEW m \in Movies, PublishMovie(m) PROVE OneCopy'
  BY <1>20 DEF PublishMovie, Copying
<1>21. ASSUME NEW m \in Movies, UnlockRegion(m) PROVE OneCopy'
  BY <1>21 DEF UnlockRegion, Copying
<1>22. ASSUME NEW m \in Movies, CopyReturns(m) PROVE OneCopy'
  BY <1>22 DEF CopyReturns, Copying
<1>23. ASSUME NEW m \in Movies, BeginEnd(m) PROVE OneCopy'
  BY <1>23 DEF BeginEnd
<1>24. ASSUME NEW m \in Movies, EndMovie(m) PROVE OneCopy'
  BY <1>24 DEF EndMovie
<1>25. QED
  BY <1>1, <1>2, <1>3, <1>4, <1>5, <1>6, <1>7, <1>8, <1>9, <1>10, <1>11, <1>12, <1>13, <1>14,
      <1>15, <1>16, <1>17, <1>18, <1>19, <1>20, <1>21, <1>22, <1>23, <1>24 DEF MovieNext

\* The mutex is the game's while it publishes.
LEMMA MutexStep ==
    ASSUME MovieInv, MovieNext
    PROVE  MutexIsPublishers'
<1> USE DEF MovieInv, MovieTypes, DecoderTypes, InstallTypes, CellsFollowInstall, OneCopy,
      MutexIsPublishers, Publishing, installVars, decoderVars, theatreVars
<1>1. CASE CreateMutex
  BY <1>1 DEF CreateMutex, Installing
<1>2. CASE CreateRegion
  BY <1>2 DEF CreateRegion, Installing
<1>3. CASE OpenWriter
  BY <1>3 DEF OpenWriter, Installing
<1>4. CASE InstallRefused
  BY <1>4 DEF InstallRefused
<1>5. CASE ProtectCells
  BY <1>5 DEF ProtectCells
<1>6. CASE UndoInstall
  BY <1>6 DEF UndoInstall, Installing, UndoCells
<1>7. CASE GameDies
  BY <1>7 DEF GameDies
<1>8. CASE OpenReader
  BY <1>8 DEF OpenReader
<1>9. CASE ReadUnavailable
  BY <1>9 DEF ReadUnavailable
<1>10. CASE ReadAbandoned
  BY <1>10 DEF ReadAbandoned
<1>11. CASE LockReader
  BY <1>11 DEF LockReader
<1>12. CASE ReadMovie
  BY <1>12 DEF ReadMovie
<1>13. CASE CloseReader
  BY <1>13 DEF CloseReader
<1>14. CASE Tick
  BY <1>14 DEF Tick
<1>15. ASSUME NEW i \in BinkHooks, ExchangeBinkCell(i) PROVE MutexIsPublishers'
  BY <1>15 DEF ExchangeBinkCell
<1>16. ASSUME NEW i \in BinkHooks, ForeignBinkCell(i) PROVE MutexIsPublishers'
  BY <1>16 DEF ForeignBinkCell
<1>17. ASSUME NEW m \in Movies, BeginCopy(m) PROVE MutexIsPublishers'
  BY <1>17 DEF BeginCopy, Copying
<1>18. ASSUME NEW m \in Movies, CopyGivesUp(m) PROVE MutexIsPublishers'
  BY <1>18 DEF CopyGivesUp, Copying
<1>19. ASSUME NEW m \in Movies, LockRegion(m) PROVE MutexIsPublishers'
  BY <1>19 DEF LockRegion, Copying
<1>20. ASSUME NEW m \in Movies, PublishMovie(m) PROVE MutexIsPublishers'
  BY <1>20 DEF PublishMovie, Copying
<1>21. ASSUME NEW m \in Movies, UnlockRegion(m) PROVE MutexIsPublishers'
  <2>1. copyCall[m] = "active" /\ mutex' = "free" /\ gameAlive' = gameAlive
        /\ copyCall' = [copyCall EXCEPT ![m] = "published"]
    BY <1>21 DEF UnlockRegion, Copying
  <2>2. \A n \in Movies : n # m => copyCall[n] = "out"
    BY <2>1
  <2>3. \A n \in Movies : copyCall'[n] \notin Publishing
    BY <2>1, <2>2
  <2>4. QED
    BY <2>1, <2>3
<1>22. ASSUME NEW m \in Movies, CopyReturns(m) PROVE MutexIsPublishers'
  BY <1>22 DEF CopyReturns, Copying
<1>23. ASSUME NEW m \in Movies, BeginEnd(m) PROVE MutexIsPublishers'
  BY <1>23 DEF BeginEnd
<1>24. ASSUME NEW m \in Movies, EndMovie(m) PROVE MutexIsPublishers'
  BY <1>24 DEF EndMovie
<1>25. QED
  BY <1>1, <1>2, <1>3, <1>4, <1>5, <1>6, <1>7, <1>8, <1>9, <1>10, <1>11, <1>12, <1>13, <1>14,
      <1>15, <1>16, <1>17, <1>18, <1>19, <1>20, <1>21, <1>22, <1>23, <1>24 DEF MovieNext

\* An active frame is whole.
LEMMA FrameStep ==
    ASSUME MovieInv, MovieNext
    PROVE  FrameIsWritten'
<1> USE DEF MovieInv, MovieTypes, DecoderTypes, Regions, OneCopy, MutexIsPublishers,
      FrameIsWritten, Painted, Publishing, installVars, decoderVars, theatreVars
<1>1. CASE CreateMutex
  BY <1>1 DEF CreateMutex, Installing
<1>2. CASE CreateRegion
  BY <1>2 DEF CreateRegion, Installing
<1>3. CASE OpenWriter
  BY <1>3 DEF OpenWriter, Installing
<1>4. CASE InstallRefused
  BY <1>4 DEF InstallRefused
<1>5. CASE ProtectCells
  BY <1>5 DEF ProtectCells
<1>6. CASE UndoInstall
  BY <1>6 DEF UndoInstall, Installing, UndoCells
<1>7. CASE GameDies
  BY <1>7 DEF GameDies
<1>8. CASE OpenReader
  BY <1>8 DEF OpenReader
<1>9. CASE ReadUnavailable
  BY <1>9 DEF ReadUnavailable
<1>10. CASE ReadAbandoned
  BY <1>10 DEF ReadAbandoned
<1>11. CASE LockReader
  BY <1>11 DEF LockReader
<1>12. CASE ReadMovie
  BY <1>12 DEF ReadMovie
<1>13. CASE CloseReader
  BY <1>13 DEF CloseReader
<1>14. CASE Tick
  BY <1>14 DEF Tick
<1>15. ASSUME NEW i \in BinkHooks, ExchangeBinkCell(i) PROVE FrameIsWritten'
  BY <1>15 DEF ExchangeBinkCell
<1>16. ASSUME NEW i \in BinkHooks, ForeignBinkCell(i) PROVE FrameIsWritten'
  BY <1>16 DEF ForeignBinkCell
<1>17. ASSUME NEW m \in Movies, BeginCopy(m) PROVE FrameIsWritten'
  BY <1>17 DEF BeginCopy, Copying
<1>18. ASSUME NEW m \in Movies, CopyGivesUp(m) PROVE FrameIsWritten'
  BY <1>18 DEF CopyGivesUp, Copying
<1>19. ASSUME NEW m \in Movies, LockRegion(m) PROVE FrameIsWritten'
  BY <1>19 DEF LockRegion, Copying
<1>20. ASSUME NEW m \in Movies, PublishMovie(m) PROVE FrameIsWritten'
  <2>1. \A n \in Movies : n # m => copyCall[n] = "out" /\ copyCall'[n] = "out"
    BY <1>20 DEF PublishMovie, Copying
  <2>2. region \in Regions /\ region' \in Regions
    BY <1>20, PublicationWrites
  <2>3. CASE Copying(m, "locked", "blanked") /\ region'.active = 0
    BY <2>1, <2>3 DEF Copying
  <2>4. CASE Copying(m, "blanked", "half") /\ region'.active = region.active
             /\ region'.halves[1] = region.seq + 1 /\ region'.seq = region.seq
    BY <2>1, <2>4 DEF Copying
  <2>5. CASE Copying(m, "half", "painted") /\ region'.active = region.active
             /\ region'.halves[1] = region.halves[1] /\ region'.halves[2] = region.seq + 1
             /\ region'.seq = region.seq
    BY <2>1, <2>5 DEF Copying
  <2>6. CASE Copying(m, "painted", "stamped") /\ region'.active = region.active
             /\ region'.halves = region.halves /\ region'.seq = region.seq + 1
    BY <2>1, <2>6 DEF Copying
  <2>7. CASE Copying(m, "stamped", "active") /\ region'.active = 1
             /\ region'.halves = region.halves /\ region'.seq = region.seq
    BY <2>1, <2>7 DEF Copying
  <2>8. QED
    BY <1>20, <2>2, <2>3, <2>4, <2>5, <2>6, <2>7, PublicationWrites
<1>21. ASSUME NEW m \in Movies, UnlockRegion(m) PROVE FrameIsWritten'
  <2>1. region' = region /\ copyCall' = [copyCall EXCEPT ![m] = "published"]
    BY <1>21 DEF UnlockRegion, Copying
  <2>2. \A n \in Movies : copyCall'[n] = copyCall[n] \/ copyCall'[n] = "published"
    BY <2>1
  <2>3. QED
    BY <2>1, <2>2
<1>22. ASSUME NEW m \in Movies, CopyReturns(m) PROVE FrameIsWritten'
  BY <1>22 DEF CopyReturns, Copying
<1>23. ASSUME NEW m \in Movies, BeginEnd(m) PROVE FrameIsWritten'
  BY <1>23 DEF BeginEnd
<1>24. ASSUME NEW m \in Movies, EndMovie(m) PROVE FrameIsWritten'
  BY <1>24 DEF EndMovie, Blank
<1>25. QED
  BY <1>1, <1>2, <1>3, <1>4, <1>5, <1>6, <1>7, <1>8, <1>9, <1>10, <1>11, <1>12, <1>13, <1>14,
      <1>15, <1>16, <1>17, <1>18, <1>19, <1>20, <1>21, <1>22, <1>23, <1>24 DEF MovieNext

\* What the host kept is whole and in time.
LEMMA KeptStep ==
    ASSUME MovieInv, MovieNext
    PROVE  KeptIsWhole'
<1> USE DEF MovieInv, MovieTypes, TheatreTypes, Regions, Images, FrameIsWritten, Painted,
      KeptIsWhole, installVars, decoderVars, theatreVars
<1>1. CASE CreateMutex
  BY <1>1 DEF CreateMutex, Installing
<1>2. CASE CreateRegion
  BY <1>2 DEF CreateRegion, Installing
<1>3. CASE OpenWriter
  BY <1>3 DEF OpenWriter, Installing
<1>4. CASE InstallRefused
  BY <1>4 DEF InstallRefused
<1>5. CASE ProtectCells
  BY <1>5 DEF ProtectCells
<1>6. CASE UndoInstall
  BY <1>6 DEF UndoInstall, Installing, UndoCells
<1>7. CASE GameDies
  BY <1>7 DEF GameDies
<1>8. CASE OpenReader
  BY <1>8 DEF OpenReader
<1>9. CASE ReadUnavailable
  BY <1>9 DEF ReadUnavailable, Decide, Shows, Dark
<1>10. CASE ReadAbandoned
  BY <1>10 DEF ReadAbandoned, Decide, Shows, Dark
<1>11. CASE LockReader
  BY <1>11 DEF LockReader
<1>12. CASE ReadMovie
  BY <1>12 DEF ReadMovie, Decide, Shows, Dark, Fresh
<1>13. CASE CloseReader
  BY <1>13 DEF CloseReader, Dark
<1>14. CASE Tick
  BY <1>14 DEF Tick
<1>15. ASSUME NEW i \in BinkHooks, ExchangeBinkCell(i) PROVE KeptIsWhole'
  BY <1>15 DEF ExchangeBinkCell
<1>16. ASSUME NEW i \in BinkHooks, ForeignBinkCell(i) PROVE KeptIsWhole'
  BY <1>16 DEF ForeignBinkCell
<1>17. ASSUME NEW m \in Movies, BeginCopy(m) PROVE KeptIsWhole'
  BY <1>17 DEF BeginCopy, Copying
<1>18. ASSUME NEW m \in Movies, CopyGivesUp(m) PROVE KeptIsWhole'
  BY <1>18 DEF CopyGivesUp, Copying
<1>19. ASSUME NEW m \in Movies, LockRegion(m) PROVE KeptIsWhole'
  BY <1>19 DEF LockRegion, Copying
<1>20. ASSUME NEW m \in Movies, PublishMovie(m) PROVE KeptIsWhole'
  <2>1. UNCHANGED <<kept, image, theatre>>
    BY <1>20 DEF PublishMovie
  <2>2. \/ region'.seq = region.seq /\ region'.tick = region.tick
        \/ region'.seq = region.seq + 1
    BY <1>20, PublicationWrites
  <2>3. region.seq \in Nat /\ kept.seq \in Nat
    OBVIOUS
  <2>4. QED
    BY <2>1, <2>2, <2>3
<1>21. ASSUME NEW m \in Movies, UnlockRegion(m) PROVE KeptIsWhole'
  BY <1>21 DEF UnlockRegion, Copying
<1>22. ASSUME NEW m \in Movies, CopyReturns(m) PROVE KeptIsWhole'
  BY <1>22 DEF CopyReturns, Copying
<1>23. ASSUME NEW m \in Movies, BeginEnd(m) PROVE KeptIsWhole'
  BY <1>23 DEF BeginEnd
<1>24. ASSUME NEW m \in Movies, EndMovie(m) PROVE KeptIsWhole'
  BY <1>24 DEF EndMovie, Blank
<1>25. QED
  BY <1>1, <1>2, <1>3, <1>4, <1>5, <1>6, <1>7, <1>8, <1>9, <1>10, <1>11, <1>12, <1>13, <1>14,
      <1>15, <1>16, <1>17, <1>18, <1>19, <1>20, <1>21, <1>22, <1>23, <1>24 DEF MovieNext

\* The movie channel starts in its invariant.
LEMMA MovieStart == MovieInit => MovieInv
<1> SUFFICES ASSUME MovieInit PROVE MovieInv
  OBVIOUS
<1>1. InstallTypes
  BY DEF MovieInit, InstallTypes, HookStages
<1>2. DecoderTypes
  BY DEF MovieInit, DecoderTypes
<1>3. <<0, 0>> \in Nat \X Nat
  OBVIOUS
<1>4. region \in Regions /\ image \in Images
  BY <1>3 DEF MovieInit, NoRegion, Regions, Images
<1>5. TheatreTypes
  <2>1. 0 \in 0 .. MaxClock
    BY MovieAssumption
  <2>2. [on |-> FALSE, at |-> 0] \in [on : BOOLEAN, at : Nat]
    OBVIOUS
  <2>3. [seq |-> 0, tick |-> 0] \in [seq : Nat, tick : Nat]
    OBVIOUS
  <2>4. QED
    BY <1>4, <2>1, <2>2, <2>3 DEF MovieInit, TheatreTypes
<1>6. CellsFollowInstall /\ OneCopy
  BY DEF MovieInit, CellsFollowInstall, OneCopy, BinkHooks
<1>7. MutexIsPublishers /\ FrameIsWritten
  BY DEF MovieInit, MutexIsPublishers, FrameIsWritten, Publishing, NoRegion
<1>8. KeptIsWhole
  BY DEF MovieInit, KeptIsWhole, NoRegion
<1>9. QED
  BY <1>1, <1>2, <1>4, <1>5, <1>6, <1>7, <1>8 DEF MovieInv, MovieTypes

\* Every step of the movie channel keeps the invariant.
LEMMA MovieStep == MovieInv /\ MovieNext => MovieInv'
<1> SUFFICES ASSUME MovieInv, MovieNext PROVE MovieInv'
  OBVIOUS
<1>1. MovieTypes'
  BY InstallTypeStep, DecoderTypeStep, TheatreTypeStep, RegionTypeStep DEF MovieTypes
<1>2. QED
  BY <1>1, MovieCellsStep, CopyStep, MutexStep, FrameStep, KeptStep DEF MovieInv

\* The invariant stays while nothing of the channel changes.
LEMMA MovieQuiet == MovieInv /\ UNCHANGED movieVars => MovieInv'
<1> SUFFICES ASSUME MovieInv, UNCHANGED movieVars PROVE MovieInv'
  OBVIOUS
<1>1. /\ UNCHANGED <<bink, binkCells, chained, mutex, region, copyCall, capturing, ending,
              activeMovie>>
      /\ UNCHANGED <<gameAlive, hostOpen, kept, image, theatre, clock>>
  BY DEF movieVars, installVars, decoderVars, theatreVars
<1>2. MovieTypes'
  BY <1>1 DEF MovieInv, MovieTypes, InstallTypes, DecoderTypes, TheatreTypes
<1>3. CellsFollowInstall' /\ OneCopy'
  BY <1>1 DEF MovieInv, CellsFollowInstall, OneCopy
<1>4. MutexIsPublishers' /\ FrameIsWritten'
  BY <1>1 DEF MovieInv, MutexIsPublishers, FrameIsWritten, Painted
<1>5. KeptIsWhole'
  BY <1>1 DEF MovieInv, KeptIsWhole
<1>6. QED
  BY <1>2, <1>3, <1>4, <1>5 DEF MovieInv

\* What the invariant says of the checked properties.
LEMMA MovieShows == MovieInv => MovieTypeOK /\ MovieShownWhole /\ BinkAllOrNothing
<1> SUFFICES ASSUME MovieInv PROVE MovieTypeOK /\ MovieShownWhole /\ BinkAllOrNothing
  OBVIOUS
<1>1. MovieTypeOK
  BY DEF MovieInv, MovieTypes, InstallTypes, DecoderTypes, TheatreTypes, MovieTypeOK, HookStages
<1>2. image.halves = <<image.seq, image.seq>>
  <2>1. image.halves \in Nat \X Nat /\ image.halves[1] = image.seq /\ image.halves[2] = image.seq
    BY DEF MovieInv, MovieTypes, TheatreTypes, Images, KeptIsWhole
  <2>2. QED
    BY <2>1
<1>3. MovieShownWhole
  BY <1>2 DEF MovieInv, KeptIsWhole, MovieShownWhole
<1>4. bink = "failed" => \A i \in BinkHooks : binkCells[i] # "ours"
  BY DEF MovieInv, CellsFollowInstall
<1>5. (\E i \in BinkHooks : binkCells[i] = "ours") => chained /\ region.magic = 1
  BY DEF MovieInv, CellsFollowInstall, MovieTypes, InstallTypes, HookStages
<1>6. Cardinality({m \in Movies : copyCall[m] # "out"}) <= 1
  <2>1. \A m, n \in {movie \in Movies : copyCall[movie] # "out"} : m = n
    BY DEF MovieInv, OneCopy
  <2>2. QED
    BY <2>1, AtMostOne
<1>7. QED
  BY <1>1, <1>3, <1>4, <1>5, <1>6 DEF BinkAllOrNothing, MovieInv, MutexIsPublishers

-----------------------------------------------------------------------------
(* The smoke bootstrap and the capture: one capture, seen whole            *)

BootTypes ==
    /\ smoke \in {"idle", "arming", "bridge", "hooks", "report", "install", "cancel",
                  "drain", "unbridge", "failed", "ready"} \cup ImportCells
    /\ bridgeUp \in BOOLEAN /\ hooked \in BOOLEAN /\ drainTimedOut \in BOOLEAN
    /\ imports \in [ImportCells -> {"original", "ours", "foreign"}]
    /\ saved \subseteq ImportCells

PassTypes ==
    /\ capture \in {"Idle", "Arming", "Armed", "Capturing", "Published", "Failed"}
    /\ shot \in [CaptureThreads -> CapturingStages \cup {"out", "armed", "feed"}]
    /\ published \in BOOLEAN /\ atPresent \in BOOLEAN /\ sceneFed \in BOOLEAN
    /\ streamOwner \in CaptureThreads \cup {Nobody}
    /\ passes \in 0 .. MaxPasses

Mappings == [seq : -1 .. 4, fields : {0, 1}, rows : {0, 1} \X {0, 1}, words : {0, 1} \X {0, 1}]

ReadTypes ==
    /\ snap \in Mappings /\ latestShot \in Mappings /\ reads \in 0 .. MaxReads
    /\ reader \in [at : {"closed", "open", "header", "validate", "row", "again"},
                   before : -1 .. 4, copy : Mappings]

\* What the bootstrap has done by the place where it stands.
BootAdvances ==
    /\ smoke = "idle" <=> capture = "Idle"
    /\ smoke = "arming" <=> capture = "Arming"
    /\ capture = "Armed" => smoke \notin {"drain", "unbridge", "failed"}
    /\ bridgeUp => smoke \notin {"idle", "arming", "bridge", "failed"}
    /\ hooked => smoke \in {"report", "install", "cancel", "ready"} \cup ImportCells
    /\ \A c \in ImportCells :
         /\ smoke = c => c \in saved /\ imports[c] # "ours"
         /\ imports[c] = "ours" => c \in saved

\* No thread is in the scene pass before its hooks, nor after their removal
\* when the wait for them has not run out.
PassesAreDrained ==
    \/ \A t \in CaptureThreads : shot[t] = "out"
    \/ hooked
    \/ smoke = "drain"
    \/ smoke \in {"unbridge", "failed"} /\ drainTimedOut

\* One thread at most captures, and only while the state says so.
OneCapturer ==
    /\ \A t \in CaptureThreads : shot[t] \in CapturingStages => capture = "Capturing"
    /\ capture = "Capturing" => \E t \in CaptureThreads : shot[t] \in CapturingStages
    /\ \A t, u \in CaptureThreads :
          shot[t] \in CapturingStages /\ shot[u] \in CapturingStages => t = u

\* The mapping, by the number of its writes.
Untouched == snap = NoMapping /\ ~published

Written(n, f, a, b, v, w) ==
    /\ snap.seq = n /\ snap.fields = f /\ snap.rows[1] = a /\ snap.rows[2] = b
    /\ snap.words[1] = v /\ snap.words[2] = w

\* What the capturing thread has written by the place where it stands.
WrittenAt(step) ==
    /\ step = "readback" => Untouched
    /\ step = "header" => Written(0, 0, 0, 0, 0, 0) /\ ~published
    /\ step = "row"  => Written(1, 1, 0, 0, 0, 0) /\ ~published
    /\ step = "row2" => Written(1, 1, 1, 0, 0, 0) /\ ~published
    /\ step = "publish" => Written(1, 1, 1, 1, 0, 0) /\ ~published
    /\ step = "start" => Untouched \/ (Written(2, 1, 1, 1, 0, 0) /\ published)
    /\ step = "diagnose" => Written(2, 1, 1, 1, 0, 0) /\ published
    /\ step = "word"  => Written(3, 1, 1, 1, 0, 0) /\ published
    /\ step = "word2" => Written(3, 1, 1, 1, 1, 0) /\ published
    /\ step = "even"  => Written(3, 1, 1, 1, 1, 1) /\ published
    /\ step = "finish" => Untouched \/ (Written(4, 1, 1, 1, 1, 1) /\ published)

ImageIsWritten ==
    /\ \A t \in CaptureThreads : WrittenAt(shot[t])
    /\ capture \in {"Idle", "Arming", "Armed"} => Untouched
    /\ capture \in {"Published", "Failed"} => Untouched \/ Written(4, 1, 1, 1, 1, 1)

\* The stream has its owner only once the capture starts it, and the scene
\* pass feeds it only when the present does not.
StreamStarts ==
    /\ capture \in {"Idle", "Arming", "Armed"} => streamOwner = Nobody
    /\ \A t \in CaptureThreads :
          shot[t] \in {"readback", "header", "row", "row2", "publish", "start"} =>
             streamOwner = Nobody
    /\ streamOwner = Nobody => ~sceneFed
    /\ sceneFed => ~atPresent

\* The reader's copy is of the rows and of the words its number stands for.
CopyIsOfPublication ==
    reader.at \in {"header", "validate", "row", "again"} =>
       /\ reader.before \in {2, 4} /\ reader.before <= snap.seq
       /\ reader.copy.fields = 1
       /\ reader.before = 4 => reader.copy.words[1] = 1
       /\ reader.before = 2 => reader.copy.words[1] = 0
       /\ reader.at # "header" /\ reader.before = 4 => reader.copy.words[2] = 1
       /\ reader.at # "header" /\ reader.before = 2 /\ snap.seq = 2 => reader.copy.words[2] = 0
       /\ reader.at \in {"row", "again"} => reader.copy.rows[1] = 1
       /\ reader.at = "again" => reader.copy.rows[2] = 1

LatestIsWhole ==
    \/ latestShot = NoMapping
    \/ /\ latestShot.seq \in {2, 4} /\ latestShot.fields = 1
       /\ latestShot.rows[1] = 1 /\ latestShot.rows[2] = 1
       /\ latestShot.words[1] = (IF latestShot.seq = 2 THEN 0 ELSE 1)
       /\ latestShot.words[2] = (IF latestShot.seq = 2 THEN 0 ELSE 1)

CaptureTypes == BootTypes /\ PassTypes /\ ReadTypes

CaptureInv ==
    /\ CaptureTypes /\ BootAdvances /\ PassesAreDrained /\ OneCapturer
    /\ ImageIsWritten /\ StreamStarts /\ CopyIsOfPublication /\ LatestIsWhole

\* The steps keep the types of the bootstrap.
LEMMA BootTypeStep ==
    ASSUME CaptureInv, CaptureNext
    PROVE  BootTypes'
<1> USE DEF CaptureInv, CaptureTypes, BootTypes, bootVars, passVars, readVars
<1>1. CASE Arm
  BY <1>1 DEF Arm, Boot
<1>2. CASE ArmFails
  BY <1>2 DEF ArmFails, Boot
<1>3. CASE Armed
  BY <1>3 DEF Armed, Boot
<1>4. CASE StartBridge
  BY <1>4 DEF StartBridge, Boot
<1>5. CASE InstallHooks
  BY <1>5 DEF InstallHooks, Boot
<1>6. CASE ReportHooks
  BY <1>6 DEF ReportHooks, Boot
<1>7. CASE PartFails
  BY <1>7 DEF PartFails
<1>8. CASE BootReady
  BY <1>8 DEF BootReady, Boot
<1>9. CASE CancelBoot
  BY <1>9 DEF CancelBoot, CancelArm
<1>10. CASE Drain
  BY <1>10 DEF Drain, Boot
<1>11. CASE StopBridge
  BY <1>11 DEF StopBridge, Boot
<1>12. ASSUME NEW c \in ImportCells, PrepareCell(c) PROVE BootTypes'
  BY <1>12 DEF PrepareCell, Boot, RememberOriginal
<1>13. ASSUME NEW c \in ImportCells, ExchangeCell(c) PROVE BootTypes'
  BY <1>13 DEF ExchangeCell
<1>14. ASSUME NEW c \in ImportCells, ForeignCell(c) PROVE BootTypes'
  BY <1>14 DEF ForeignCell
<1>15. ASSUME NEW t \in CaptureThreads, EnterPass(t) PROVE BootTypes'
  BY <1>15 DEF EnterPass, Move
<1>16. ASSUME NEW t \in CaptureThreads, ClaimCapture(t) PROVE BootTypes'
  BY <1>16 DEF ClaimCapture, Move, Claimable
<1>17. ASSUME NEW t \in CaptureThreads, DeclineCapture(t) PROVE BootTypes'
  BY <1>17 DEF DeclineCapture, Move
<1>18. ASSUME NEW t \in CaptureThreads, CaptureFails(t) PROVE BootTypes'
  BY <1>18 DEF CaptureFails, Move
<1>19. ASSUME NEW t \in CaptureThreads, WriteImage(t) PROVE BootTypes'
  BY <1>19 DEF WriteImage, Move, PublishImage
<1>20. ASSUME NEW t \in CaptureThreads, StartStream(t) PROVE BootTypes'
  BY <1>20 DEF StartStream, Move
<1>21. ASSUME NEW t \in CaptureThreads, WriteDiagnostic(t) PROVE BootTypes'
  BY <1>21 DEF WriteDiagnostic, Move
<1>22. ASSUME NEW t \in CaptureThreads, FinishCapture(t) PROVE BootTypes'
  BY <1>22 DEF FinishCapture, Move
<1>23. ASSUME NEW t \in CaptureThreads, LeavePass(t) PROVE BootTypes'
  BY <1>23 DEF LeavePass, Move, SceneFeeds
<1>24. ASSUME NEW t \in CaptureThreads, Present(t) PROVE BootTypes'
  BY <1>24 DEF Present
<1>25. CASE OpenSnapshot
  BY <1>25 DEF OpenSnapshot, Closed
<1>26. CASE BeginSnapshot
  BY <1>26 DEF BeginSnapshot
<1>27. CASE CopyHeader
  BY <1>27 DEF CopyHeader
<1>28. CASE CopyRow
  BY <1>28 DEF CopyRow, ReturnsEarly
<1>29. CASE AcceptSnapshot
  BY <1>29 DEF AcceptSnapshot, Unmoved
<1>30. CASE CloseSnapshot
  BY <1>30 DEF CloseSnapshot, Closed
<1>31. QED
  BY <1>1, <1>2, <1>3, <1>4, <1>5, <1>6, <1>7, <1>8, <1>9, <1>10, <1>11, <1>12, <1>13, <1>14,
      <1>15, <1>16, <1>17, <1>18, <1>19, <1>20, <1>21, <1>22, <1>23, <1>24, <1>25, <1>26, <1>27,
      <1>28, <1>29, <1>30 DEF CaptureNext

\* The steps keep the types of the scene passes.
LEMMA PassTypeStep ==
    ASSUME CaptureInv, CaptureNext
    PROVE  PassTypes'
<1> USE DEF CaptureInv, CaptureTypes, PassTypes, CapturingStages, bootVars, passVars, readVars
<1>1. CASE Arm
  BY <1>1 DEF Arm, Boot
<1>2. CASE ArmFails
  BY <1>2 DEF ArmFails, Boot
<1>3. CASE Armed
  BY <1>3 DEF Armed, Boot
<1>4. CASE StartBridge
  BY <1>4 DEF StartBridge, Boot
<1>5. CASE InstallHooks
  BY <1>5 DEF InstallHooks, Boot
<1>6. CASE ReportHooks
  BY <1>6 DEF ReportHooks, Boot
<1>7. CASE PartFails
  BY <1>7 DEF PartFails
<1>8. CASE BootReady
  BY <1>8 DEF BootReady, Boot
<1>9. CASE CancelBoot
  BY <1>9 DEF CancelBoot, CancelArm
<1>10. CASE Drain
  BY <1>10 DEF Drain, Boot
<1>11. CASE StopBridge
  BY <1>11 DEF StopBridge, Boot
<1>12. ASSUME NEW c \in ImportCells, PrepareCell(c) PROVE PassTypes'
  BY <1>12 DEF PrepareCell, Boot, RememberOriginal
<1>13. ASSUME NEW c \in ImportCells, ExchangeCell(c) PROVE PassTypes'
  BY <1>13 DEF ExchangeCell
<1>14. ASSUME NEW c \in ImportCells, ForeignCell(c) PROVE PassTypes'
  BY <1>14 DEF ForeignCell
<1>15. ASSUME NEW t \in CaptureThreads, EnterPass(t) PROVE PassTypes'
  <2>1. passes' \in 0 .. MaxPasses
    BY <1>15, CaptureAssumption DEF EnterPass
  <2>2. shot' \in [CaptureThreads -> CapturingStages \cup {"out", "armed", "feed"}]
    BY <1>15 DEF EnterPass, Move
  <2>3. QED
    BY <1>15, <2>1, <2>2 DEF EnterPass
<1>16. ASSUME NEW t \in CaptureThreads, ClaimCapture(t) PROVE PassTypes'
  BY <1>16 DEF ClaimCapture, Move, Claimable
<1>17. ASSUME NEW t \in CaptureThreads, DeclineCapture(t) PROVE PassTypes'
  BY <1>17 DEF DeclineCapture, Move
<1>18. ASSUME NEW t \in CaptureThreads, CaptureFails(t) PROVE PassTypes'
  BY <1>18 DEF CaptureFails, Move
<1>19. ASSUME NEW t \in CaptureThreads, WriteImage(t) PROVE PassTypes'
  BY <1>19 DEF WriteImage, Move, PublishImage
<1>20. ASSUME NEW t \in CaptureThreads, StartStream(t) PROVE PassTypes'
  BY <1>20 DEF StartStream, Move
<1>21. ASSUME NEW t \in CaptureThreads, WriteDiagnostic(t) PROVE PassTypes'
  BY <1>21 DEF WriteDiagnostic, Move
<1>22. ASSUME NEW t \in CaptureThreads, FinishCapture(t) PROVE PassTypes'
  BY <1>22 DEF FinishCapture, Move
<1>23. ASSUME NEW t \in CaptureThreads, LeavePass(t) PROVE PassTypes'
  BY <1>23 DEF LeavePass, Move, SceneFeeds
<1>24. ASSUME NEW t \in CaptureThreads, Present(t) PROVE PassTypes'
  BY <1>24 DEF Present
<1>25. CASE OpenSnapshot
  BY <1>25 DEF OpenSnapshot, Closed
<1>26. CASE BeginSnapshot
  BY <1>26 DEF BeginSnapshot
<1>27. CASE CopyHeader
  BY <1>27 DEF CopyHeader
<1>28. CASE CopyRow
  BY <1>28 DEF CopyRow, ReturnsEarly
<1>29. CASE AcceptSnapshot
  BY <1>29 DEF AcceptSnapshot, Unmoved
<1>30. CASE CloseSnapshot
  BY <1>30 DEF CloseSnapshot, Closed
<1>31. QED
  BY <1>1, <1>2, <1>3, <1>4, <1>5, <1>6, <1>7, <1>8, <1>9, <1>10, <1>11, <1>12, <1>13, <1>14,
      <1>15, <1>16, <1>17, <1>18, <1>19, <1>20, <1>21, <1>22, <1>23, <1>24, <1>25, <1>26, <1>27,
      <1>28, <1>29, <1>30 DEF CaptureNext

\* The bootstrap's flags follow its place.
LEMMA BootStep ==
    ASSUME CaptureInv, CaptureNext
    PROVE  BootAdvances'
<1> USE DEF CaptureInv, CaptureTypes, BootTypes, PassTypes, BootAdvances, OneCapturer,
      ImportCells, bootVars, passVars, readVars
<1>1. CASE Arm
  BY <1>1 DEF Arm, Boot
<1>2. CASE ArmFails
  BY <1>2 DEF ArmFails, Boot
<1>3. CASE Armed
  BY <1>3 DEF Armed, Boot
<1>4. CASE StartBridge
  BY <1>4 DEF StartBridge, Boot
<1>5. CASE InstallHooks
  BY <1>5 DEF InstallHooks, Boot
<1>6. CASE ReportHooks
  BY <1>6 DEF ReportHooks, Boot
<1>7. CASE PartFails
  BY <1>7 DEF PartFails
<1>8. CASE BootReady
  BY <1>8 DEF BootReady, Boot
<1>9. CASE CancelBoot
  BY <1>9 DEF CancelBoot, CancelArm
<1>10. CASE Drain
  BY <1>10 DEF Drain, Boot
<1>11. CASE StopBridge
  BY <1>11 DEF StopBridge, Boot
<1>12. ASSUME NEW c \in ImportCells, PrepareCell(c) PROVE BootAdvances'
  BY <1>12 DEF PrepareCell, Boot, RememberOriginal
<1>13. ASSUME NEW c \in ImportCells, ExchangeCell(c) PROVE BootAdvances'
  BY <1>13 DEF ExchangeCell
<1>14. ASSUME NEW c \in ImportCells, ForeignCell(c) PROVE BootAdvances'
  BY <1>14 DEF ForeignCell
<1>15. ASSUME NEW t \in CaptureThreads, EnterPass(t) PROVE BootAdvances'
  BY <1>15 DEF EnterPass, Move
<1>16. ASSUME NEW t \in CaptureThreads, ClaimCapture(t) PROVE BootAdvances'
  BY <1>16 DEF ClaimCapture, Move, Claimable
<1>17. ASSUME NEW t \in CaptureThreads, DeclineCapture(t) PROVE BootAdvances'
  BY <1>17 DEF DeclineCapture, Move
<1>18. ASSUME NEW t \in CaptureThreads, CaptureFails(t) PROVE BootAdvances'
  BY <1>18 DEF CaptureFails, Move
<1>19. ASSUME NEW t \in CaptureThreads, WriteImage(t) PROVE BootAdvances'
  BY <1>19 DEF WriteImage, Move, PublishImage
<1>20. ASSUME NEW t \in CaptureThreads, StartStream(t) PROVE BootAdvances'
  BY <1>20 DEF StartStream, Move
<1>21. ASSUME NEW t \in CaptureThreads, WriteDiagnostic(t) PROVE BootAdvances'
  BY <1>21 DEF WriteDiagnostic, Move
<1>22. ASSUME NEW t \in CaptureThreads, FinishCapture(t) PROVE BootAdvances'
  BY <1>22 DEF FinishCapture, Move
<1>23. ASSUME NEW t \in CaptureThreads, LeavePass(t) PROVE BootAdvances'
  BY <1>23 DEF LeavePass, Move, SceneFeeds
<1>24. ASSUME NEW t \in CaptureThreads, Present(t) PROVE BootAdvances'
  BY <1>24 DEF Present
<1>25. CASE OpenSnapshot
  BY <1>25 DEF OpenSnapshot, Closed
<1>26. CASE BeginSnapshot
  BY <1>26 DEF BeginSnapshot
<1>27. CASE CopyHeader
  BY <1>27 DEF CopyHeader
<1>28. CASE CopyRow
  BY <1>28 DEF CopyRow, ReturnsEarly
<1>29. CASE AcceptSnapshot
  BY <1>29 DEF AcceptSnapshot, Unmoved
<1>30. CASE CloseSnapshot
  BY <1>30 DEF CloseSnapshot, Closed
<1>31. QED
  BY <1>1, <1>2, <1>3, <1>4, <1>5, <1>6, <1>7, <1>8, <1>9, <1>10, <1>11, <1>12, <1>13, <1>14,
      <1>15, <1>16, <1>17, <1>18, <1>19, <1>20, <1>21, <1>22, <1>23, <1>24, <1>25, <1>26, <1>27,
      <1>28, <1>29, <1>30 DEF CaptureNext

\* The removal of the hooks drains the passes.
LEMMA DrainStep ==
    ASSUME CaptureInv, CaptureNext
    PROVE  PassesAreDrained'
<1> USE DEF CaptureInv, CaptureTypes, BootTypes, PassTypes, BootAdvances, PassesAreDrained,
      bootVars, passVars, readVars
<1>1. CASE Arm
  BY <1>1 DEF Arm, Boot
<1>2. CASE ArmFails
  BY <1>2 DEF ArmFails, Boot
<1>3. CASE Armed
  BY <1>3 DEF Armed, Boot
<1>4. CASE StartBridge
  BY <1>4 DEF StartBridge, Boot
<1>5. CASE InstallHooks
  BY <1>5 DEF InstallHooks, Boot
<1>6. CASE ReportHooks
  BY <1>6 DEF ReportHooks, Boot
<1>7. CASE PartFails
  BY <1>7 DEF PartFails
<1>8. CASE BootReady
  BY <1>8 DEF BootReady, Boot
<1>9. CASE CancelBoot
  BY <1>9 DEF CancelBoot, CancelArm
<1>10. CASE Drain
  BY <1>10 DEF Drain, Boot
<1>11. CASE StopBridge
  BY <1>11 DEF StopBridge, Boot
<1>12. ASSUME NEW c \in ImportCells, PrepareCell(c) PROVE PassesAreDrained'
  BY <1>12 DEF PrepareCell, Boot, RememberOriginal
<1>13. ASSUME NEW c \in ImportCells, ExchangeCell(c) PROVE PassesAreDrained'
  <2>1. smoke \in ImportCells /\ UNCHANGED <<shot, hooked>>
    BY <1>13 DEF ExchangeCell
  <2>2. smoke \notin {"drain", "unbridge", "failed"}
    BY <2>1 DEF ImportCells
  <2>3. QED
    BY <2>1, <2>2
<1>14. ASSUME NEW c \in ImportCells, ForeignCell(c) PROVE PassesAreDrained'
  BY <1>14 DEF ForeignCell
<1>15. ASSUME NEW t \in CaptureThreads, EnterPass(t) PROVE PassesAreDrained'
  BY <1>15 DEF EnterPass, Move
<1>16. ASSUME NEW t \in CaptureThreads, ClaimCapture(t) PROVE PassesAreDrained'
  BY <1>16 DEF ClaimCapture, Move, Claimable
<1>17. ASSUME NEW t \in CaptureThreads, DeclineCapture(t) PROVE PassesAreDrained'
  BY <1>17 DEF DeclineCapture, Move
<1>18. ASSUME NEW t \in CaptureThreads, CaptureFails(t) PROVE PassesAreDrained'
  BY <1>18 DEF CaptureFails, Move
<1>19. ASSUME NEW t \in CaptureThreads, WriteImage(t) PROVE PassesAreDrained'
  BY <1>19 DEF WriteImage, Move, PublishImage
<1>20. ASSUME NEW t \in CaptureThreads, StartStream(t) PROVE PassesAreDrained'
  BY <1>20 DEF StartStream, Move
<1>21. ASSUME NEW t \in CaptureThreads, WriteDiagnostic(t) PROVE PassesAreDrained'
  BY <1>21 DEF WriteDiagnostic, Move
<1>22. ASSUME NEW t \in CaptureThreads, FinishCapture(t) PROVE PassesAreDrained'
  BY <1>22 DEF FinishCapture, Move
<1>23. ASSUME NEW t \in CaptureThreads, LeavePass(t) PROVE PassesAreDrained'
  BY <1>23 DEF LeavePass, Move, SceneFeeds
<1>24. ASSUME NEW t \in CaptureThreads, Present(t) PROVE PassesAreDrained'
  BY <1>24 DEF Present
<1>25. CASE OpenSnapshot
  BY <1>25 DEF OpenSnapshot, Closed
<1>26. CASE BeginSnapshot
  BY <1>26 DEF BeginSnapshot
<1>27. CASE CopyHeader
  BY <1>27 DEF CopyHeader
<1>28. CASE CopyRow
  BY <1>28 DEF CopyRow, ReturnsEarly
<1>29. CASE AcceptSnapshot
  BY <1>29 DEF AcceptSnapshot, Unmoved
<1>30. CASE CloseSnapshot
  BY <1>30 DEF CloseSnapshot, Closed
<1>31. QED
  BY <1>1, <1>2, <1>3, <1>4, <1>5, <1>6, <1>7, <1>8, <1>9, <1>10, <1>11, <1>12, <1>13, <1>14,
      <1>15, <1>16, <1>17, <1>18, <1>19, <1>20, <1>21, <1>22, <1>23, <1>24, <1>25, <1>26, <1>27,
      <1>28, <1>29, <1>30 DEF CaptureNext

\* One thread captures.
LEMMA CapturerStep ==
    ASSUME CaptureInv, CaptureNext
    PROVE  OneCapturer'
<1> USE DEF CaptureInv, CaptureTypes, PassTypes, OneCapturer, BootAdvances, CapturingStages,
      bootVars, passVars, readVars
<1>1. CASE Arm
  BY <1>1 DEF Arm, Boot
<1>2. CASE ArmFails
  BY <1>2 DEF ArmFails, Boot
<1>3. CASE Armed
  BY <1>3 DEF Armed, Boot
<1>4. CASE StartBridge
  BY <1>4 DEF StartBridge, Boot
<1>5. CASE InstallHooks
  BY <1>5 DEF InstallHooks, Boot
<1>6. CASE ReportHooks
  BY <1>6 DEF ReportHooks, Boot
<1>7. CASE PartFails
  BY <1>7 DEF PartFails
<1>8. CASE BootReady
  BY <1>8 DEF BootReady, Boot
<1>9. CASE CancelBoot
  BY <1>9 DEF CancelBoot, CancelArm
<1>10. CASE Drain
  BY <1>10 DEF Drain, Boot
<1>11. CASE StopBridge
  BY <1>11 DEF StopBridge, Boot
<1>12. ASSUME NEW c \in ImportCells, PrepareCell(c) PROVE OneCapturer'
  BY <1>12 DEF PrepareCell, Boot, RememberOriginal
<1>13. ASSUME NEW c \in ImportCells, ExchangeCell(c) PROVE OneCapturer'
  BY <1>13 DEF ExchangeCell
<1>14. ASSUME NEW c \in ImportCells, ForeignCell(c) PROVE OneCapturer'
  BY <1>14 DEF ForeignCell
<1>15. ASSUME NEW t \in CaptureThreads, EnterPass(t) PROVE OneCapturer'
  BY <1>15 DEF EnterPass, Move
<1>16. ASSUME NEW t \in CaptureThreads, ClaimCapture(t) PROVE OneCapturer'
  BY <1>16 DEF ClaimCapture, Move, Claimable
<1>17. ASSUME NEW t \in CaptureThreads, DeclineCapture(t) PROVE OneCapturer'
  BY <1>17 DEF DeclineCapture, Move
<1>18. ASSUME NEW t \in CaptureThreads, CaptureFails(t) PROVE OneCapturer'
  BY <1>18 DEF CaptureFails, Move
<1>19. ASSUME NEW t \in CaptureThreads, WriteImage(t) PROVE OneCapturer'
  BY <1>19 DEF WriteImage, Move, PublishImage
<1>20. ASSUME NEW t \in CaptureThreads, StartStream(t) PROVE OneCapturer'
  BY <1>20 DEF StartStream, Move
<1>21. ASSUME NEW t \in CaptureThreads, WriteDiagnostic(t) PROVE OneCapturer'
  BY <1>21 DEF WriteDiagnostic, Move
<1>22. ASSUME NEW t \in CaptureThreads, FinishCapture(t) PROVE OneCapturer'
  BY <1>22 DEF FinishCapture, Move
<1>23. ASSUME NEW t \in CaptureThreads, LeavePass(t) PROVE OneCapturer'
  BY <1>23 DEF LeavePass, Move, SceneFeeds
<1>24. ASSUME NEW t \in CaptureThreads, Present(t) PROVE OneCapturer'
  BY <1>24 DEF Present
<1>25. CASE OpenSnapshot
  BY <1>25 DEF OpenSnapshot, Closed
<1>26. CASE BeginSnapshot
  BY <1>26 DEF BeginSnapshot
<1>27. CASE CopyHeader
  BY <1>27 DEF CopyHeader
<1>28. CASE CopyRow
  BY <1>28 DEF CopyRow, ReturnsEarly
<1>29. CASE AcceptSnapshot
  BY <1>29 DEF AcceptSnapshot, Unmoved
<1>30. CASE CloseSnapshot
  BY <1>30 DEF CloseSnapshot, Closed
<1>31. QED
  BY <1>1, <1>2, <1>3, <1>4, <1>5, <1>6, <1>7, <1>8, <1>9, <1>10, <1>11, <1>12, <1>13, <1>14,
      <1>15, <1>16, <1>17, <1>18, <1>19, <1>20, <1>21, <1>22, <1>23, <1>24, <1>25, <1>26, <1>27,
      <1>28, <1>29, <1>30 DEF CaptureNext

\* The stream starts once and is fed from one side.
LEMMA StreamStep ==
    ASSUME CaptureInv, CaptureNext
    PROVE  StreamStarts'
<1> USE DEF CaptureInv, CaptureTypes, PassTypes, StreamStarts, BootAdvances, OneCapturer,
      CapturingStages, bootVars, passVars, readVars
<1>1. CASE Arm
  BY <1>1 DEF Arm, Boot
<1>2. CASE ArmFails
  BY <1>2 DEF ArmFails, Boot
<1>3. CASE Armed
  BY <1>3 DEF Armed, Boot
<1>4. CASE StartBridge
  BY <1>4 DEF StartBridge, Boot
<1>5. CASE InstallHooks
  BY <1>5 DEF InstallHooks, Boot
<1>6. CASE ReportHooks
  BY <1>6 DEF ReportHooks, Boot
<1>7. CASE PartFails
  BY <1>7 DEF PartFails
<1>8. CASE BootReady
  BY <1>8 DEF BootReady, Boot
<1>9. CASE CancelBoot
  BY <1>9 DEF CancelBoot, CancelArm
<1>10. CASE Drain
  BY <1>10 DEF Drain, Boot
<1>11. CASE StopBridge
  BY <1>11 DEF StopBridge, Boot
<1>12. ASSUME NEW c \in ImportCells, PrepareCell(c) PROVE StreamStarts'
  BY <1>12 DEF PrepareCell, Boot, RememberOriginal
<1>13. ASSUME NEW c \in ImportCells, ExchangeCell(c) PROVE StreamStarts'
  BY <1>13 DEF ExchangeCell
<1>14. ASSUME NEW c \in ImportCells, ForeignCell(c) PROVE StreamStarts'
  BY <1>14 DEF ForeignCell
<1>15. ASSUME NEW t \in CaptureThreads, EnterPass(t) PROVE StreamStarts'
  BY <1>15 DEF EnterPass, Move
<1>16. ASSUME NEW t \in CaptureThreads, ClaimCapture(t) PROVE StreamStarts'
  BY <1>16 DEF ClaimCapture, Move, Claimable
<1>17. ASSUME NEW t \in CaptureThreads, DeclineCapture(t) PROVE StreamStarts'
  BY <1>17 DEF DeclineCapture, Move
<1>18. ASSUME NEW t \in CaptureThreads, CaptureFails(t) PROVE StreamStarts'
  BY <1>18 DEF CaptureFails, Move
<1>19. ASSUME NEW t \in CaptureThreads, WriteImage(t) PROVE StreamStarts'
  BY <1>19 DEF WriteImage, Move, PublishImage
<1>20. ASSUME NEW t \in CaptureThreads, StartStream(t) PROVE StreamStarts'
  BY <1>20 DEF StartStream, Move
<1>21. ASSUME NEW t \in CaptureThreads, WriteDiagnostic(t) PROVE StreamStarts'
  BY <1>21 DEF WriteDiagnostic, Move
<1>22. ASSUME NEW t \in CaptureThreads, FinishCapture(t) PROVE StreamStarts'
  BY <1>22 DEF FinishCapture, Move
<1>23. ASSUME NEW t \in CaptureThreads, LeavePass(t) PROVE StreamStarts'
  <2>1. t # Nobody
    BY CaptureAssumption DEF Nobody
  <2>2. QED
    BY <1>23, <2>1 DEF LeavePass, Move, SceneFeeds
<1>24. ASSUME NEW t \in CaptureThreads, Present(t) PROVE StreamStarts'
  BY <1>24 DEF Present
<1>25. CASE OpenSnapshot
  BY <1>25 DEF OpenSnapshot, Closed
<1>26. CASE BeginSnapshot
  BY <1>26 DEF BeginSnapshot
<1>27. CASE CopyHeader
  BY <1>27 DEF CopyHeader
<1>28. CASE CopyRow
  BY <1>28 DEF CopyRow, ReturnsEarly
<1>29. CASE AcceptSnapshot
  BY <1>29 DEF AcceptSnapshot, Unmoved
<1>30. CASE CloseSnapshot
  BY <1>30 DEF CloseSnapshot, Closed
<1>31. QED
  BY <1>1, <1>2, <1>3, <1>4, <1>5, <1>6, <1>7, <1>8, <1>9, <1>10, <1>11, <1>12, <1>13, <1>14,
      <1>15, <1>16, <1>17, <1>18, <1>19, <1>20, <1>21, <1>22, <1>23, <1>24, <1>25, <1>26, <1>27,
      <1>28, <1>29, <1>30 DEF CaptureNext

\* What a write of the image leaves in the mapping.
LEMMA ImageWrites ==
    ASSUME CaptureInv, NEW t \in CaptureThreads, WriteImage(t)
    PROVE  /\ snap' \in Mappings /\ WrittenAt(shot[t])'
           /\ snap.seq <= 1 /\ snap.seq <= snap'.seq
           /\ shot[t] \in CapturingStages /\ shot'[t] \in CapturingStages
           /\ \A u \in CaptureThreads \ {t} : shot'[u] = shot[u]
<1> USE DEF CaptureInv, CaptureTypes, PassTypes, ReadTypes, Mappings
<1>1. /\ WrittenAt(shot[t]) /\ published' = (published \/ snap'.seq = 2)
      /\ shot'[t] \in CapturingStages /\ shot[t] \in CapturingStages
      /\ \A u \in CaptureThreads \ {t} : shot'[u] = shot[u]
  BY DEF ImageIsWritten, WriteImage, PublishImage, Move, CapturingStages
<1>2. CASE Move(t, "readback", "header") /\ snap' = FreshMapping
  <2>1. shot[t] = "readback" /\ shot'[t] = "header"
    BY <1>2 DEF Move
  <2>2. snap = NoMapping /\ ~published
    BY <1>1, <2>1 DEF WrittenAt, Untouched
  <2>3. snap' = [seq |-> 0, fields |-> 0, rows |-> <<0, 0>>, words |-> <<0, 0>>]
    BY <1>2 DEF FreshMapping, NoMapping
  <2>4. <<0, 0>> \in {0, 1} \X {0, 1}
    OBVIOUS
  <2>5. snap' \in Mappings /\ Written(0, 0, 0, 0, 0, 0)' /\ snap.seq = -1
    BY <2>2, <2>3, <2>4 DEF Written, NoMapping
  <2>6. ~published'
    BY <1>1, <2>2, <2>3
  <2>7. QED
    BY <1>1, <2>1, <2>5, <2>6 DEF WrittenAt, Written
<1>3. CASE Move(t, "header", "row") /\ snap' = [snap EXCEPT !.seq = 1, !.fields = 1]
  <2>1. shot[t] = "header" /\ shot'[t] = "row"
    BY <1>3 DEF Move
  <2>2. Written(0, 0, 0, 0, 0, 0) /\ ~published
    BY <1>1, <2>1 DEF WrittenAt
  <2>3. snap' \in Mappings /\ Written(1, 1, 0, 0, 0, 0)'
    <3>1. snap' = [[snap EXCEPT !.seq = 1] EXCEPT !.fields = 1]
      BY <1>3
    <3>2. [snap EXCEPT !.seq = 1] \in Mappings
      OBVIOUS
    <3>3. QED
      BY <2>2, <3>1, <3>2 DEF Written
  <2>4. ~published'
    BY <1>1, <2>2, <2>3 DEF Written
  <2>5. QED
    BY <1>1, <2>1, <2>2, <2>3, <2>4 DEF WrittenAt, Written
<1>4. CASE Move(t, "row", "row2") /\ snap' = [snap EXCEPT !.rows[1] = 1]
  <2>1. shot[t] = "row" /\ shot'[t] = "row2"
    BY <1>4 DEF Move
  <2>2. Written(1, 1, 0, 0, 0, 0) /\ ~published
    BY <1>1, <2>1 DEF WrittenAt
  <2>3. [snap.rows EXCEPT ![1] = 1] \in {0, 1} \X {0, 1}
    OBVIOUS
  <2>4. snap' = [snap EXCEPT !.rows = [snap.rows EXCEPT ![1] = 1]]
    BY <1>4
  <2>5. snap' \in Mappings /\ Written(1, 1, 1, 0, 0, 0)'
    BY <2>2, <2>3, <2>4 DEF Written
  <2>6. ~published'
    BY <1>1, <2>2, <2>5 DEF Written
  <2>7. QED
    BY <1>1, <2>1, <2>2, <2>5, <2>6 DEF WrittenAt, Written
<1>5. CASE Move(t, "row2", "publish") /\ snap' = [snap EXCEPT !.rows[2] = 1]
  <2>1. shot[t] = "row2" /\ shot'[t] = "publish"
    BY <1>5 DEF Move
  <2>2. Written(1, 1, 1, 0, 0, 0) /\ ~published
    BY <1>1, <2>1 DEF WrittenAt
  <2>3. [snap.rows EXCEPT ![2] = 1] \in {0, 1} \X {0, 1}
    OBVIOUS
  <2>4. snap' = [snap EXCEPT !.rows = [snap.rows EXCEPT ![2] = 1]]
    BY <1>5
  <2>5. snap' \in Mappings /\ Written(1, 1, 1, 1, 0, 0)'
    BY <2>2, <2>3, <2>4 DEF Written
  <2>6. ~published'
    BY <1>1, <2>2, <2>5 DEF Written
  <2>7. QED
    BY <1>1, <2>1, <2>2, <2>5, <2>6 DEF WrittenAt, Written
<1>6. CASE PublishImage(t)
  <2>1. shot[t] = "publish" /\ shot'[t] = "start" /\ snap' = [snap EXCEPT !.seq = 2]
    BY <1>6 DEF PublishImage, Move
  <2>2. Written(1, 1, 1, 1, 0, 0) /\ ~published
    BY <1>1, <2>1 DEF WrittenAt
  <2>3. snap' \in Mappings /\ Written(2, 1, 1, 1, 0, 0)'
    BY <2>1, <2>2 DEF Written
  <2>4. published'
    BY <1>1, <2>2, <2>3 DEF Written
  <2>5. QED
    BY <1>1, <2>1, <2>2, <2>3, <2>4 DEF WrittenAt, Written
<1>7. QED
  BY <1>2, <1>3, <1>4, <1>5, <1>6 DEF WriteImage

\* What a write of the diagnostic leaves in the mapping.
LEMMA DiagnosticWrites ==
    ASSUME CaptureInv, NEW t \in CaptureThreads, WriteDiagnostic(t)
    PROVE  /\ snap' \in Mappings /\ WrittenAt(shot[t])'
           /\ snap.seq <= snap'.seq /\ snap'.seq > 2
           /\ shot[t] \in CapturingStages /\ shot'[t] \in CapturingStages
           /\ \A u \in CaptureThreads \ {t} : shot'[u] = shot[u]
<1> USE DEF CaptureInv, CaptureTypes, PassTypes, ReadTypes, Mappings
<1>1. /\ WrittenAt(shot[t]) /\ published' = published
      /\ shot'[t] \in CapturingStages /\ shot[t] \in CapturingStages
      /\ \A u \in CaptureThreads \ {t} : shot'[u] = shot[u]
  BY DEF ImageIsWritten, WriteDiagnostic, Move, CapturingStages
<1>2. CASE Move(t, "diagnose", "word") /\ snap' = [snap EXCEPT !.seq = @ + 1]
  <2>1. shot[t] = "diagnose" /\ shot'[t] = "word"
    BY <1>2 DEF Move
  <2>2. Written(2, 1, 1, 1, 0, 0) /\ published
    BY <1>1, <2>1 DEF WrittenAt
  <2>3. snap' \in Mappings /\ Written(3, 1, 1, 1, 0, 0)'
    BY <1>2, <2>2 DEF Written
  <2>4. QED
    BY <1>1, <2>1, <2>2, <2>3 DEF WrittenAt, Written
<1>3. CASE Move(t, "word", "word2") /\ snap' = [snap EXCEPT !.words[1] = 1]
  <2>1. shot[t] = "word" /\ shot'[t] = "word2"
    BY <1>3 DEF Move
  <2>2. Written(3, 1, 1, 1, 0, 0) /\ published
    BY <1>1, <2>1 DEF WrittenAt
  <2>3. [snap.words EXCEPT ![1] = 1] \in {0, 1} \X {0, 1}
    OBVIOUS
  <2>4. snap' = [snap EXCEPT !.words = [snap.words EXCEPT ![1] = 1]]
    BY <1>3
  <2>5. snap' \in Mappings /\ Written(3, 1, 1, 1, 1, 0)'
    BY <2>2, <2>3, <2>4 DEF Written
  <2>6. QED
    BY <1>1, <2>1, <2>2, <2>5 DEF WrittenAt, Written
<1>4. CASE Move(t, "word2", "even") /\ snap' = [snap EXCEPT !.words[2] = 1]
  <2>1. shot[t] = "word2" /\ shot'[t] = "even"
    BY <1>4 DEF Move
  <2>2. Written(3, 1, 1, 1, 1, 0) /\ published
    BY <1>1, <2>1 DEF WrittenAt
  <2>3. [snap.words EXCEPT ![2] = 1] \in {0, 1} \X {0, 1}
    OBVIOUS
  <2>4. snap' = [snap EXCEPT !.words = [snap.words EXCEPT ![2] = 1]]
    BY <1>4
  <2>5. snap' \in Mappings /\ Written(3, 1, 1, 1, 1, 1)'
    BY <2>2, <2>3, <2>4 DEF Written
  <2>6. QED
    BY <1>1, <2>1, <2>2, <2>5 DEF WrittenAt, Written
<1>5. CASE Move(t, "even", "finish") /\ snap' = [snap EXCEPT !.seq = @ + 1]
  <2>1. shot[t] = "even" /\ shot'[t] = "finish"
    BY <1>5 DEF Move
  <2>2. Written(3, 1, 1, 1, 1, 1) /\ published
    BY <1>1, <2>1 DEF WrittenAt
  <2>3. snap' \in Mappings /\ Written(4, 1, 1, 1, 1, 1)'
    BY <1>5, <2>2 DEF Written
  <2>4. QED
    BY <1>1, <2>1, <2>2, <2>3 DEF WrittenAt, Written
<1>6. QED
  BY <1>2, <1>3, <1>4, <1>5 DEF WriteDiagnostic

\* Outside the writes a mapping with an even number is whole.
LEMMA EvenIsWhole ==
    ASSUME CaptureInv
    PROVE  /\ snap.seq = 2 => Written(2, 1, 1, 1, 0, 0)
           /\ snap.seq = 4 => Written(4, 1, 1, 1, 1, 1)
           /\ snap.seq >= 2 => snap.fields = 1 /\ snap.rows[1] = 1 /\ snap.rows[2] = 1
<1> USE DEF CaptureInv, CaptureTypes, PassTypes, ImageIsWritten
<1>1. CASE capture # "Capturing"
  BY <1>1 DEF Untouched, Written, NoMapping
<1>2. CASE capture = "Capturing"
  <2>1. PICK t \in CaptureThreads : shot[t] \in CapturingStages
    BY <1>2 DEF OneCapturer
  <2>2. QED
    BY <2>1 DEF WrittenAt, Untouched, Written, NoMapping, CapturingStages
<1>3. QED
  BY <1>1, <1>2

\* The steps keep the types of the mapping and the reader.
LEMMA ReadTypeStep ==
    ASSUME CaptureInv, CaptureNext
    PROVE  ReadTypes'
<1> USE DEF CaptureInv, CaptureTypes, ReadTypes, bootVars, passVars, readVars
<1>1. CASE Arm
  BY <1>1 DEF Arm, Boot
<1>2. CASE ArmFails
  BY <1>2 DEF ArmFails, Boot
<1>3. CASE Armed
  BY <1>3 DEF Armed, Boot
<1>4. CASE StartBridge
  BY <1>4 DEF StartBridge, Boot
<1>5. CASE InstallHooks
  BY <1>5 DEF InstallHooks, Boot
<1>6. CASE ReportHooks
  BY <1>6 DEF ReportHooks, Boot
<1>7. CASE PartFails
  BY <1>7 DEF PartFails
<1>8. CASE BootReady
  BY <1>8 DEF BootReady, Boot
<1>9. CASE CancelBoot
  BY <1>9 DEF CancelBoot, CancelArm
<1>10. CASE Drain
  BY <1>10 DEF Drain, Boot
<1>11. CASE StopBridge
  BY <1>11 DEF StopBridge, Boot
<1>12. ASSUME NEW c \in ImportCells, PrepareCell(c) PROVE ReadTypes'
  BY <1>12 DEF PrepareCell, Boot, RememberOriginal
<1>13. ASSUME NEW c \in ImportCells, ExchangeCell(c) PROVE ReadTypes'
  BY <1>13 DEF ExchangeCell
<1>14. ASSUME NEW c \in ImportCells, ForeignCell(c) PROVE ReadTypes'
  BY <1>14 DEF ForeignCell
<1>15. ASSUME NEW t \in CaptureThreads, EnterPass(t) PROVE ReadTypes'
  BY <1>15 DEF EnterPass, Move
<1>16. ASSUME NEW t \in CaptureThreads, ClaimCapture(t) PROVE ReadTypes'
  BY <1>16 DEF ClaimCapture, Move, Claimable
<1>17. ASSUME NEW t \in CaptureThreads, DeclineCapture(t) PROVE ReadTypes'
  BY <1>17 DEF DeclineCapture, Move
<1>18. ASSUME NEW t \in CaptureThreads, CaptureFails(t) PROVE ReadTypes'
  BY <1>18 DEF CaptureFails, Move
<1>19. ASSUME NEW t \in CaptureThreads, WriteImage(t) PROVE ReadTypes'
  BY <1>19, ImageWrites DEF WriteImage
<1>20. ASSUME NEW t \in CaptureThreads, StartStream(t) PROVE ReadTypes'
  BY <1>20 DEF StartStream, Move
<1>21. ASSUME NEW t \in CaptureThreads, WriteDiagnostic(t) PROVE ReadTypes'
  BY <1>21, DiagnosticWrites DEF WriteDiagnostic
<1>22. ASSUME NEW t \in CaptureThreads, FinishCapture(t) PROVE ReadTypes'
  BY <1>22 DEF FinishCapture, Move
<1>23. ASSUME NEW t \in CaptureThreads, LeavePass(t) PROVE ReadTypes'
  BY <1>23 DEF LeavePass, Move, SceneFeeds
<1>24. ASSUME NEW t \in CaptureThreads, Present(t) PROVE ReadTypes'
  BY <1>24 DEF Present
<1>25. CASE OpenSnapshot
  <2>1. <<0, 0>> \in {0, 1} \X {0, 1}
    OBVIOUS
  <2>2. NoMapping \in Mappings
    BY <2>1 DEF NoMapping, Mappings
  <2>3. QED
    BY <1>25, <2>2 DEF OpenSnapshot, Closed
<1>26. CASE BeginSnapshot
  <2>1. [snap.words EXCEPT ![2] = 0] \in {0, 1} \X {0, 1}
    BY DEF Mappings
  <2>2. <<0, 0>> \in {0, 1} \X {0, 1}
    OBVIOUS
  <2> DEFINE header == [snap EXCEPT !.rows = <<0, 0>>, !.words = [snap.words EXCEPT ![2] = 0]]
  <2>3. header \in Mappings
    BY <2>1, <2>2 DEF Mappings
  <2>4. reader' = [reader EXCEPT !.at = "header", !.before = snap.seq, !.copy = header]
    BY <1>26 DEF BeginSnapshot
  <2>5. reader' \in [at : {"closed", "open", "header", "validate", "row", "again"},
                     before : -1 .. 4, copy : Mappings]
    <3> HIDE DEF header
    <3>1. snap.seq \in -1 .. 4
      BY DEF Mappings
    <3>2. QED
      BY <2>3, <2>4, <3>1
  <2>6. reads' \in 0 .. MaxReads
    BY <1>26, CaptureAssumption DEF BeginSnapshot
  <2>7. QED
    BY <1>26, <2>5, <2>6 DEF BeginSnapshot
<1>27. CASE CopyHeader
  <2> DEFINE copied == [reader.copy EXCEPT !.words = [reader.copy.words EXCEPT ![2] = snap.words[2]]]
  <2>1. [reader.copy.words EXCEPT ![2] = snap.words[2]] \in {0, 1} \X {0, 1}
    BY DEF Mappings
  <2>2. copied \in Mappings
    BY <2>1 DEF Mappings
  <2>3. reader' = [reader EXCEPT !.at = "validate", !.copy = copied]
    BY <1>27 DEF CopyHeader
  <2>4. QED
    <3> HIDE DEF copied
    <3>1. QED
      BY <1>27, <2>2, <2>3 DEF CopyHeader
<1>28. CASE CopyRow
  <2>1. CASE reader.at = "validate" /\ ReturnsEarly
    BY <1>28, <2>1 DEF CopyRow
  <2>2. CASE reader.at = "validate" /\ ~ReturnsEarly
    <3> DEFINE copied == [reader.copy EXCEPT !.rows = [reader.copy.rows EXCEPT ![1] = snap.rows[1]]]
    <3>1. [reader.copy.rows EXCEPT ![1] = snap.rows[1]] \in {0, 1} \X {0, 1}
      BY DEF Mappings
    <3>2. copied \in Mappings
      BY <3>1 DEF Mappings
    <3>3. reader' = [reader EXCEPT !.at = "row", !.copy = copied]
      BY <1>28, <2>2 DEF CopyRow
    <3> HIDE DEF copied
    <3>4. QED
      BY <1>28, <3>2, <3>3 DEF CopyRow
  <2>3. CASE reader.at = "row"
    <3> DEFINE copied == [reader.copy EXCEPT !.rows = [reader.copy.rows EXCEPT ![2] = snap.rows[2]]]
    <3>1. [reader.copy.rows EXCEPT ![2] = snap.rows[2]] \in {0, 1} \X {0, 1}
      BY DEF Mappings
    <3>2. copied \in Mappings
      BY <3>1 DEF Mappings
    <3>3. reader' = [reader EXCEPT !.at = "again", !.copy = copied]
      BY <1>28, <2>3 DEF CopyRow
    <3> HIDE DEF copied
    <3>4. QED
      BY <1>28, <3>2, <3>3 DEF CopyRow
  <2>4. QED
    BY <1>28, <2>1, <2>2, <2>3 DEF CopyRow
<1>29. CASE AcceptSnapshot
  <2>1. [reader.copy EXCEPT !.seq = reader.before] \in Mappings
    BY DEF Mappings
  <2>2. latestShot' \in Mappings
    BY <1>29, <2>1 DEF AcceptSnapshot
  <2>3. QED
    BY <1>29, <2>2 DEF AcceptSnapshot
<1>30. CASE CloseSnapshot
  <2>1. <<0, 0>> \in {0, 1} \X {0, 1}
    OBVIOUS
  <2>2. NoMapping \in Mappings
    BY <2>1 DEF NoMapping, Mappings
  <2>3. QED
    BY <1>30, <2>2 DEF CloseSnapshot, Closed
<1>31. QED
  BY <1>1, <1>2, <1>3, <1>4, <1>5, <1>6, <1>7, <1>8, <1>9, <1>10, <1>11, <1>12, <1>13, <1>14,
      <1>15, <1>16, <1>17, <1>18, <1>19, <1>20, <1>21, <1>22, <1>23, <1>24, <1>25, <1>26, <1>27,
      <1>28, <1>29, <1>30 DEF CaptureNext

\* The mapping is written in the order of the capture's stages.
LEMMA ImageStep ==
    ASSUME CaptureInv, CaptureNext
    PROVE  ImageIsWritten'
<1> USE DEF CaptureInv, CaptureTypes, PassTypes, ImageIsWritten, bootVars, passVars, readVars
<1>1. CASE Arm
  BY <1>1 DEF Arm, Boot, WrittenAt, Written, Untouched, OneCapturer, CapturingStages, BootAdvances
<1>2. CASE ArmFails
  BY <1>2 DEF ArmFails, Boot, WrittenAt, Written, Untouched, OneCapturer, CapturingStages,
      BootAdvances
<1>3. CASE Armed
  BY <1>3 DEF Armed, Boot, WrittenAt, Written, Untouched, OneCapturer, CapturingStages, BootAdvances
<1>4. CASE StartBridge
  BY <1>4 DEF StartBridge, Boot, WrittenAt, Written, Untouched, OneCapturer, CapturingStages,
      BootAdvances
<1>5. CASE InstallHooks
  BY <1>5 DEF InstallHooks, Boot, WrittenAt, Written, Untouched, OneCapturer, CapturingStages,
      BootAdvances
<1>6. CASE ReportHooks
  BY <1>6 DEF ReportHooks, Boot, WrittenAt, Written, Untouched, OneCapturer, CapturingStages,
      BootAdvances
<1>7. CASE PartFails
  BY <1>7 DEF PartFails, WrittenAt, Written, Untouched, OneCapturer, CapturingStages, BootAdvances
<1>8. CASE BootReady
  BY <1>8 DEF BootReady, Boot, WrittenAt, Written, Untouched, OneCapturer, CapturingStages,
      BootAdvances
<1>9. CASE CancelBoot
  BY <1>9 DEF CancelBoot, CancelArm, WrittenAt, Written, Untouched, OneCapturer, CapturingStages,
      BootAdvances
<1>10. CASE Drain
  BY <1>10 DEF Drain, Boot, WrittenAt, Written, Untouched, OneCapturer, CapturingStages,
      BootAdvances
<1>11. CASE StopBridge
  BY <1>11 DEF StopBridge, Boot, WrittenAt, Written, Untouched, OneCapturer, CapturingStages,
      BootAdvances
<1>12. ASSUME NEW c \in ImportCells, PrepareCell(c) PROVE ImageIsWritten'
  BY <1>12 DEF PrepareCell, Boot, RememberOriginal, WrittenAt, Written, Untouched, OneCapturer,
      CapturingStages, BootAdvances
<1>13. ASSUME NEW c \in ImportCells, ExchangeCell(c) PROVE ImageIsWritten'
  BY <1>13 DEF ExchangeCell, WrittenAt, Written, Untouched, OneCapturer, CapturingStages,
      BootAdvances
<1>14. ASSUME NEW c \in ImportCells, ForeignCell(c) PROVE ImageIsWritten'
  BY <1>14 DEF ForeignCell, WrittenAt, Written, Untouched, OneCapturer, CapturingStages,
      BootAdvances
<1>15. ASSUME NEW t \in CaptureThreads, EnterPass(t) PROVE ImageIsWritten'
  BY <1>15 DEF EnterPass, Move, WrittenAt, Written, Untouched, OneCapturer, CapturingStages,
      BootAdvances
<1>16. ASSUME NEW t \in CaptureThreads, ClaimCapture(t) PROVE ImageIsWritten'
  BY <1>16 DEF ClaimCapture, Move, Claimable, WrittenAt, Written, Untouched, OneCapturer,
      CapturingStages, BootAdvances
<1>17. ASSUME NEW t \in CaptureThreads, DeclineCapture(t) PROVE ImageIsWritten'
  BY <1>17 DEF DeclineCapture, Move, WrittenAt, Written, Untouched, OneCapturer, CapturingStages,
      BootAdvances
<1>18. ASSUME NEW t \in CaptureThreads, CaptureFails(t) PROVE ImageIsWritten'
  BY <1>18 DEF CaptureFails, Move, WrittenAt, Written, Untouched, OneCapturer, CapturingStages,
      BootAdvances
<1>19. ASSUME NEW t \in CaptureThreads, WriteImage(t) PROVE ImageIsWritten'
  <2>1. /\ WrittenAt(shot[t])' /\ capture' = capture /\ capture = "Capturing"
        /\ \A u \in CaptureThreads \ {t} : shot'[u] = shot[u]
    BY <1>19, ImageWrites DEF WriteImage, OneCapturer
  <2>2. \A u \in CaptureThreads \ {t} : shot[u] \notin CapturingStages
    BY <1>19, ImageWrites DEF OneCapturer
  <2>3. \A u \in CaptureThreads \ {t} : WrittenAt(shot[u])'
    BY <2>1, <2>2 DEF WrittenAt, CapturingStages
  <2>4. QED
    BY <2>1, <2>3
<1>20. ASSUME NEW t \in CaptureThreads, StartStream(t) PROVE ImageIsWritten'
  BY <1>20 DEF StartStream, Move, WrittenAt, Written, Untouched, OneCapturer, CapturingStages,
      BootAdvances
<1>21. ASSUME NEW t \in CaptureThreads, WriteDiagnostic(t) PROVE ImageIsWritten'
  <2>1. /\ WrittenAt(shot[t])' /\ capture' = capture /\ capture = "Capturing"
        /\ \A u \in CaptureThreads \ {t} : shot'[u] = shot[u]
    BY <1>21, DiagnosticWrites DEF WriteDiagnostic, OneCapturer
  <2>2. \A u \in CaptureThreads \ {t} : shot[u] \notin CapturingStages
    BY <1>21, DiagnosticWrites DEF OneCapturer
  <2>3. \A u \in CaptureThreads \ {t} : WrittenAt(shot[u])'
    BY <2>1, <2>2 DEF WrittenAt, CapturingStages
  <2>4. QED
    BY <2>1, <2>3
<1>22. ASSUME NEW t \in CaptureThreads, FinishCapture(t) PROVE ImageIsWritten'
  BY <1>22 DEF FinishCapture, Move, WrittenAt, Written, Untouched, OneCapturer, CapturingStages,
      BootAdvances
<1>23. ASSUME NEW t \in CaptureThreads, LeavePass(t) PROVE ImageIsWritten'
  BY <1>23 DEF LeavePass, Move, SceneFeeds, WrittenAt, Written, Untouched, OneCapturer,
      CapturingStages, BootAdvances
<1>24. ASSUME NEW t \in CaptureThreads, Present(t) PROVE ImageIsWritten'
  BY <1>24 DEF Present, WrittenAt, Written, Untouched, OneCapturer, CapturingStages, BootAdvances
<1>25. CASE OpenSnapshot
  BY <1>25 DEF OpenSnapshot, Closed, WrittenAt, Written, Untouched, OneCapturer, CapturingStages,
      BootAdvances
<1>26. CASE BeginSnapshot
  BY <1>26 DEF BeginSnapshot, WrittenAt, Written, Untouched, OneCapturer, CapturingStages,
      BootAdvances
<1>27. CASE CopyHeader
  BY <1>27 DEF CopyHeader, WrittenAt, Written, Untouched, OneCapturer, CapturingStages, BootAdvances
<1>28. CASE CopyRow
  BY <1>28 DEF CopyRow, ReturnsEarly, WrittenAt, Written, Untouched, OneCapturer,
      CapturingStages, BootAdvances
<1>29. CASE AcceptSnapshot
  BY <1>29 DEF AcceptSnapshot, Unmoved, WrittenAt, Written, Untouched, OneCapturer,
      CapturingStages, BootAdvances
<1>30. CASE CloseSnapshot
  BY <1>30 DEF CloseSnapshot, Closed, WrittenAt, Written, Untouched, OneCapturer,
      CapturingStages, BootAdvances
<1>31. QED
  BY <1>1, <1>2, <1>3, <1>4, <1>5, <1>6, <1>7, <1>8, <1>9, <1>10, <1>11, <1>12, <1>13, <1>14,
      <1>15, <1>16, <1>17, <1>18, <1>19, <1>20, <1>21, <1>22, <1>23, <1>24, <1>25, <1>26, <1>27,
      <1>28, <1>29, <1>30 DEF CaptureNext

\* The reader copies what its number stands for.
LEMMA CopyOfStep ==
    ASSUME CaptureInv, CaptureNext
    PROVE  CopyIsOfPublication'
<1> USE DEF CaptureInv, CaptureTypes, ReadTypes, CopyIsOfPublication, bootVars, passVars, readVars
<1>1. CASE Arm
  BY <1>1 DEF Arm, Boot
<1>2. CASE ArmFails
  BY <1>2 DEF ArmFails, Boot
<1>3. CASE Armed
  BY <1>3 DEF Armed, Boot
<1>4. CASE StartBridge
  BY <1>4 DEF StartBridge, Boot
<1>5. CASE InstallHooks
  BY <1>5 DEF InstallHooks, Boot
<1>6. CASE ReportHooks
  BY <1>6 DEF ReportHooks, Boot
<1>7. CASE PartFails
  BY <1>7 DEF PartFails
<1>8. CASE BootReady
  BY <1>8 DEF BootReady, Boot
<1>9. CASE CancelBoot
  BY <1>9 DEF CancelBoot, CancelArm
<1>10. CASE Drain
  BY <1>10 DEF Drain, Boot
<1>11. CASE StopBridge
  BY <1>11 DEF StopBridge, Boot
<1>12. ASSUME NEW c \in ImportCells, PrepareCell(c) PROVE CopyIsOfPublication'
  BY <1>12 DEF PrepareCell, Boot, RememberOriginal
<1>13. ASSUME NEW c \in ImportCells, ExchangeCell(c) PROVE CopyIsOfPublication'
  BY <1>13 DEF ExchangeCell
<1>14. ASSUME NEW c \in ImportCells, ForeignCell(c) PROVE CopyIsOfPublication'
  BY <1>14 DEF ForeignCell
<1>15. ASSUME NEW t \in CaptureThreads, EnterPass(t) PROVE CopyIsOfPublication'
  BY <1>15 DEF EnterPass, Move
<1>16. ASSUME NEW t \in CaptureThreads, ClaimCapture(t) PROVE CopyIsOfPublication'
  BY <1>16 DEF ClaimCapture, Move, Claimable
<1>17. ASSUME NEW t \in CaptureThreads, DeclineCapture(t) PROVE CopyIsOfPublication'
  BY <1>17 DEF DeclineCapture, Move
<1>18. ASSUME NEW t \in CaptureThreads, CaptureFails(t) PROVE CopyIsOfPublication'
  BY <1>18 DEF CaptureFails, Move
<1>19. ASSUME NEW t \in CaptureThreads, WriteImage(t) PROVE CopyIsOfPublication'
  <2>1. UNCHANGED reader /\ snap' \in Mappings /\ snap.seq <= snap'.seq
        /\ (snap.seq <= 1)
    BY <1>19, ImageWrites DEF WriteImage
  <2>2. QED
    BY <2>1 DEF Mappings
<1>20. ASSUME NEW t \in CaptureThreads, StartStream(t) PROVE CopyIsOfPublication'
  BY <1>20 DEF StartStream, Move
<1>21. ASSUME NEW t \in CaptureThreads, WriteDiagnostic(t) PROVE CopyIsOfPublication'
  <2>1. UNCHANGED reader /\ snap' \in Mappings /\ snap.seq <= snap'.seq
        /\ (snap'.seq > 2)
    BY <1>21, DiagnosticWrites DEF WriteDiagnostic
  <2>2. QED
    BY <2>1 DEF Mappings
<1>22. ASSUME NEW t \in CaptureThreads, FinishCapture(t) PROVE CopyIsOfPublication'
  BY <1>22 DEF FinishCapture, Move
<1>23. ASSUME NEW t \in CaptureThreads, LeavePass(t) PROVE CopyIsOfPublication'
  BY <1>23 DEF LeavePass, Move, SceneFeeds
<1>24. ASSUME NEW t \in CaptureThreads, Present(t) PROVE CopyIsOfPublication'
  BY <1>24 DEF Present
<1>25. CASE OpenSnapshot
  BY <1>25 DEF OpenSnapshot, Closed
<1>26. CASE BeginSnapshot
  <2>1. reader'.at = "header" /\ reader'.before = snap.seq /\ snap' = snap
    BY <1>26 DEF BeginSnapshot
  <2>2. reader'.copy = [snap EXCEPT !.rows = <<0, 0>>, !.words = [snap.words EXCEPT ![2] = 0]]
    BY <1>26 DEF BeginSnapshot
  <2>3. reader'.copy.fields = snap.fields /\ reader'.copy.words[1] = snap.words[1]
    BY <2>2 DEF Mappings
  <2>4. snap.seq = 2 \/ snap.seq = 4
    BY <1>26 DEF BeginSnapshot, Mappings
  <2>5. QED
    BY <2>1, <2>3, <2>4, EvenIsWhole DEF Mappings, Written
<1>27. CASE CopyHeader
  <2>1. reader.at = "header" /\ snap' = snap
    BY <1>27 DEF CopyHeader
  <2>2. reader' = [reader EXCEPT !.at = "validate",
                                 !.copy = [reader.copy EXCEPT !.words = [reader.copy.words EXCEPT ![2] = snap.words[2]]]]
    BY <1>27 DEF CopyHeader
  <2>3. reader'.at = "validate" /\ reader'.before = reader.before
    BY <2>2
  <2>4. reader'.copy = [reader.copy EXCEPT !.words = [reader.copy.words EXCEPT ![2] = snap.words[2]]]
    BY <2>2
  <2>5. reader'.copy.fields = reader.copy.fields /\ reader'.copy.words[1] = reader.copy.words[1]
        /\ reader'.copy.words[2] = snap.words[2]
    BY <2>4 DEF Mappings
  <2>6. /\ reader.before = 4 => snap.words[2] = 1
        /\ reader.before = 2 /\ snap.seq = 2 => snap.words[2] = 0
    BY <2>1, EvenIsWhole DEF Mappings, Written
  <2>7. QED
    BY <2>1, <2>3, <2>5, <2>6
<1>28. CASE CopyRow
  <2>1. snap' = snap
    BY <1>28 DEF CopyRow
  <2>2. CASE reader.at = "validate" /\ ReturnsEarly
    <3>1. reader'.at = "open"
      BY <1>28, <2>2 DEF CopyRow
    <3>2. QED
      BY <3>1
  <2>3. CASE reader.at = "validate" /\ ~ReturnsEarly
    <3>1. reader' = [reader EXCEPT !.at = "row",
                                   !.copy = [reader.copy EXCEPT !.rows = [reader.copy.rows EXCEPT ![1] = snap.rows[1]]]]
      BY <1>28, <2>3 DEF CopyRow
    <3>2. reader'.at = "row" /\ reader'.before = reader.before
      BY <3>1
    <3>3. reader'.copy = [reader.copy EXCEPT !.rows = [reader.copy.rows EXCEPT ![1] = snap.rows[1]]]
      BY <3>1
    <3>4. reader'.copy.fields = reader.copy.fields /\ reader'.copy.words = reader.copy.words
          /\ reader'.copy.rows[1] = snap.rows[1]
      BY <3>3 DEF Mappings
    <3>5. snap.rows[1] = 1
      BY <2>3, EvenIsWhole DEF Mappings
    <3>6. QED
      BY <2>1, <2>3, <3>2, <3>4, <3>5
  <2>4. CASE reader.at = "row"
    <3>1. reader' = [reader EXCEPT !.at = "again",
                                   !.copy = [reader.copy EXCEPT !.rows = [reader.copy.rows EXCEPT ![2] = snap.rows[2]]]]
      BY <1>28, <2>4 DEF CopyRow
    <3>2. reader'.at = "again" /\ reader'.before = reader.before
      BY <3>1
    <3>3. reader'.copy = [reader.copy EXCEPT !.rows = [reader.copy.rows EXCEPT ![2] = snap.rows[2]]]
      BY <3>1
    <3>4. reader'.copy.fields = reader.copy.fields /\ reader'.copy.words = reader.copy.words
          /\ reader'.copy.rows[1] = reader.copy.rows[1] /\ reader'.copy.rows[2] = snap.rows[2]
      BY <3>3 DEF Mappings
    <3>5. snap.rows[2] = 1
      BY <2>4, EvenIsWhole DEF Mappings
    <3>6. QED
      BY <2>1, <2>4, <3>2, <3>4, <3>5
  <2>5. QED
    BY <1>28, <2>2, <2>3, <2>4 DEF CopyRow
<1>29. CASE AcceptSnapshot
  BY <1>29 DEF AcceptSnapshot, Unmoved
<1>30. CASE CloseSnapshot
  BY <1>30 DEF CloseSnapshot, Closed
<1>31. QED
  BY <1>1, <1>2, <1>3, <1>4, <1>5, <1>6, <1>7, <1>8, <1>9, <1>10, <1>11, <1>12, <1>13, <1>14,
      <1>15, <1>16, <1>17, <1>18, <1>19, <1>20, <1>21, <1>22, <1>23, <1>24, <1>25, <1>26, <1>27,
      <1>28, <1>29, <1>30 DEF CaptureNext

\* What the reader accepts is whole.
LEMMA LatestStep ==
    ASSUME CaptureInv, CaptureNext
    PROVE  LatestIsWhole'
<1> USE DEF CaptureInv, CaptureTypes, ReadTypes, LatestIsWhole, bootVars, passVars, readVars
<1>1. CASE Arm
  BY <1>1 DEF Arm, Boot
<1>2. CASE ArmFails
  BY <1>2 DEF ArmFails, Boot
<1>3. CASE Armed
  BY <1>3 DEF Armed, Boot
<1>4. CASE StartBridge
  BY <1>4 DEF StartBridge, Boot
<1>5. CASE InstallHooks
  BY <1>5 DEF InstallHooks, Boot
<1>6. CASE ReportHooks
  BY <1>6 DEF ReportHooks, Boot
<1>7. CASE PartFails
  BY <1>7 DEF PartFails
<1>8. CASE BootReady
  BY <1>8 DEF BootReady, Boot
<1>9. CASE CancelBoot
  BY <1>9 DEF CancelBoot, CancelArm
<1>10. CASE Drain
  BY <1>10 DEF Drain, Boot
<1>11. CASE StopBridge
  BY <1>11 DEF StopBridge, Boot
<1>12. ASSUME NEW c \in ImportCells, PrepareCell(c) PROVE LatestIsWhole'
  BY <1>12 DEF PrepareCell, Boot, RememberOriginal
<1>13. ASSUME NEW c \in ImportCells, ExchangeCell(c) PROVE LatestIsWhole'
  BY <1>13 DEF ExchangeCell
<1>14. ASSUME NEW c \in ImportCells, ForeignCell(c) PROVE LatestIsWhole'
  BY <1>14 DEF ForeignCell
<1>15. ASSUME NEW t \in CaptureThreads, EnterPass(t) PROVE LatestIsWhole'
  BY <1>15 DEF EnterPass, Move
<1>16. ASSUME NEW t \in CaptureThreads, ClaimCapture(t) PROVE LatestIsWhole'
  BY <1>16 DEF ClaimCapture, Move, Claimable
<1>17. ASSUME NEW t \in CaptureThreads, DeclineCapture(t) PROVE LatestIsWhole'
  BY <1>17 DEF DeclineCapture, Move
<1>18. ASSUME NEW t \in CaptureThreads, CaptureFails(t) PROVE LatestIsWhole'
  BY <1>18 DEF CaptureFails, Move
<1>19. ASSUME NEW t \in CaptureThreads, WriteImage(t) PROVE LatestIsWhole'
  BY <1>19 DEF WriteImage, Move, PublishImage
<1>20. ASSUME NEW t \in CaptureThreads, StartStream(t) PROVE LatestIsWhole'
  BY <1>20 DEF StartStream, Move
<1>21. ASSUME NEW t \in CaptureThreads, WriteDiagnostic(t) PROVE LatestIsWhole'
  BY <1>21 DEF WriteDiagnostic, Move
<1>22. ASSUME NEW t \in CaptureThreads, FinishCapture(t) PROVE LatestIsWhole'
  BY <1>22 DEF FinishCapture, Move
<1>23. ASSUME NEW t \in CaptureThreads, LeavePass(t) PROVE LatestIsWhole'
  BY <1>23 DEF LeavePass, Move, SceneFeeds
<1>24. ASSUME NEW t \in CaptureThreads, Present(t) PROVE LatestIsWhole'
  BY <1>24 DEF Present
<1>25. CASE OpenSnapshot
  BY <1>25 DEF OpenSnapshot, Closed
<1>26. CASE BeginSnapshot
  BY <1>26 DEF BeginSnapshot
<1>27. CASE CopyHeader
  BY <1>27 DEF CopyHeader
<1>28. CASE CopyRow
  BY <1>28 DEF CopyRow, ReturnsEarly
<1>29. CASE AcceptSnapshot
  <2>1. CASE ~Unmoved
    BY <1>29, <2>1 DEF AcceptSnapshot
  <2>2. CASE Unmoved
    <3>1. latestShot' = [reader.copy EXCEPT !.seq = reader.before] /\ reader.at = "again"
          /\ snap.seq = reader.before
      BY <1>29, <2>2 DEF AcceptSnapshot, Unmoved
    <3>2. latestShot'.seq = reader.before /\ latestShot'.fields = reader.copy.fields
          /\ latestShot'.rows = reader.copy.rows /\ latestShot'.words = reader.copy.words
      BY <3>1 DEF Mappings
    <3>3. QED
      BY <3>1, <3>2 DEF CopyIsOfPublication
  <2>3. QED
    BY <2>1, <2>2
<1>30. CASE CloseSnapshot
  BY <1>30 DEF CloseSnapshot, Closed
<1>31. QED
  BY <1>1, <1>2, <1>3, <1>4, <1>5, <1>6, <1>7, <1>8, <1>9, <1>10, <1>11, <1>12, <1>13, <1>14,
      <1>15, <1>16, <1>17, <1>18, <1>19, <1>20, <1>21, <1>22, <1>23, <1>24, <1>25, <1>26, <1>27,
      <1>28, <1>29, <1>30 DEF CaptureNext

\* The capture starts in its invariant.
LEMMA CaptureStart == CaptureInit => CaptureInv
<1> SUFFICES ASSUME CaptureInit PROVE CaptureInv
  OBVIOUS
<1> USE DEF CaptureInit
<1>1. <<0, 0>> \in {0, 1} \X {0, 1}
  OBVIOUS
<1>2. NoMapping \in Mappings
  BY <1>1 DEF NoMapping, Mappings
<1>3. 0 \in 0 .. MaxPasses /\ 0 \in 0 .. MaxReads
  BY CaptureAssumption
<1>4. BootTypes
  BY DEF BootTypes
<1>5. PassTypes
  BY <1>3 DEF PassTypes
<1>6. ReadTypes
  <2>1. Closed \in [at : {"closed", "open", "header", "validate", "row", "again"},
                    before : -1 .. 4, copy : Mappings]
    BY <1>2 DEF Closed
  <2>2. QED
    BY <1>2, <1>3, <2>1 DEF ReadTypes
<1>7. BootAdvances /\ PassesAreDrained
  BY DEF BootAdvances, PassesAreDrained, ImportCells
<1>8. OneCapturer /\ StreamStarts
  BY DEF OneCapturer, StreamStarts, CapturingStages
<1>9. ImageIsWritten
  BY DEF ImageIsWritten, WrittenAt, Untouched
<1>10. CopyIsOfPublication /\ LatestIsWhole
  BY DEF CopyIsOfPublication, LatestIsWhole, Closed
<1>11. QED
  BY <1>4, <1>5, <1>6, <1>7, <1>8, <1>9, <1>10 DEF CaptureInv, CaptureTypes

\* Every step of the bootstrap, the capture and the reader keeps the invariant.
LEMMA CaptureStep == CaptureInv /\ CaptureNext => CaptureInv'
<1> SUFFICES ASSUME CaptureInv, CaptureNext PROVE CaptureInv'
  OBVIOUS
<1>1. CaptureTypes'
  BY BootTypeStep, PassTypeStep, ReadTypeStep DEF CaptureTypes
<1>2. QED
  BY <1>1, BootStep, DrainStep, CapturerStep, ImageStep, StreamStep, CopyOfStep, LatestStep
     DEF CaptureInv

\* The invariant stays while nothing of the capture changes.
LEMMA CaptureQuiet == CaptureInv /\ UNCHANGED captureVars => CaptureInv'
<1> SUFFICES ASSUME CaptureInv, UNCHANGED captureVars PROVE CaptureInv'
  OBVIOUS
<1>1. /\ UNCHANGED <<smoke, bridgeUp, hooked, drainTimedOut, imports, saved>>
      /\ UNCHANGED <<capture, shot, published, atPresent, streamOwner, sceneFed, passes>>
      /\ UNCHANGED <<snap, reader, latestShot, reads>>
  BY DEF captureVars, bootVars, passVars, readVars
<1>2. CaptureTypes'
  BY <1>1 DEF CaptureInv, CaptureTypes, BootTypes, PassTypes, ReadTypes
<1>3. BootAdvances' /\ PassesAreDrained' /\ OneCapturer'
  BY <1>1 DEF CaptureInv, BootAdvances, PassesAreDrained, OneCapturer
<1>4. ImageIsWritten'
  BY <1>1 DEF CaptureInv, ImageIsWritten, WrittenAt, Untouched, Written
<1>5. StreamStarts' /\ CopyIsOfPublication' /\ LatestIsWhole'
  BY <1>1 DEF CaptureInv, StreamStarts, CopyIsOfPublication, LatestIsWhole
<1>6. QED
  BY <1>2, <1>3, <1>4, <1>5 DEF CaptureInv

\* What the invariant says of the checked properties.
LEMMA CaptureShows ==
    CaptureInv => /\ CaptureTypeOK /\ SnapshotWhole
                  /\ FailedBootstrapDisarms /\ CapturedOnce
<1> SUFFICES ASSUME CaptureInv
             PROVE  CaptureTypeOK /\ SnapshotWhole /\ FailedBootstrapDisarms /\ CapturedOnce
  OBVIOUS
<1> USE DEF CaptureInv, CaptureTypes
<1>1. CaptureTypeOK
  <2>1. snap.seq \in -1 .. 4
    BY DEF ReadTypes, Mappings
  <2>2. reads \in 0 .. MaxReads
    BY DEF ReadTypes
  <2>3. QED
    BY <2>1, <2>2 DEF BootTypes, PassTypes, CaptureTypeOK
<1>2. SnapshotWhole
  <2>1. ASSUME latestShot # NoMapping
        PROVE  /\ latestShot.fields = 1 /\ latestShot.rows = <<1, 1>>
               /\ latestShot.words = IF latestShot.seq = 2 THEN <<0, 0>> ELSE <<1, 1>>
    <3>1. latestShot.rows \in {0, 1} \X {0, 1} /\ latestShot.words \in {0, 1} \X {0, 1}
      BY DEF ReadTypes, Mappings
    <3>2. latestShot.rows[1] = 1 /\ latestShot.rows[2] = 1 /\ latestShot.fields = 1
      BY <2>1 DEF LatestIsWhole
    <3>3. latestShot.rows = <<1, 1>>
      BY <3>1, <3>2
    <3>4. CASE latestShot.seq = 2
      <4>1. latestShot.words[1] = 0 /\ latestShot.words[2] = 0
        BY <2>1, <3>4 DEF LatestIsWhole
      <4>2. latestShot.words = <<0, 0>>
        BY <3>1, <4>1
      <4>3. QED
        BY <3>2, <3>3, <3>4, <4>2
    <3>5. CASE latestShot.seq # 2
      <4>1. latestShot.words[1] = 1 /\ latestShot.words[2] = 1
        BY <2>1, <3>5 DEF LatestIsWhole
      <4>2. latestShot.words = <<1, 1>>
        BY <3>1, <4>1
      <4>3. QED
        BY <3>2, <3>3, <3>5, <4>2
    <3>6. QED
      BY <3>4, <3>5
  <2>2. reader.at = "validate" => reader.copy.fields = 1
    BY DEF CopyIsOfPublication
  <2>3. QED
    BY <2>1, <2>2 DEF SnapshotWhole
<1>3. FailedBootstrapDisarms
  <2>1. ASSUME smoke = "failed"
        PROVE  /\ ~bridgeUp /\ ~hooked /\ capture # "Armed"
               /\ ~drainTimedOut => capture \in {"Failed", "Published"}
    <3>1. ~bridgeUp /\ ~hooked /\ capture \notin {"Idle", "Arming", "Armed"}
      BY <2>1 DEF BootAdvances, ImportCells
    <3>2. ~drainTimedOut => capture # "Capturing"
      BY <2>1, <3>1 DEF PassesAreDrained, OneCapturer, CapturingStages
    <3>3. QED
      BY <3>1, <3>2 DEF PassTypes
  <2>2. \A c \in ImportCells : imports[c] = "ours" => c \in saved
    BY DEF BootAdvances
  <2>3. QED
    BY <2>1, <2>2 DEF FailedBootstrapDisarms
<1>4. CapturedOnce
  BY DEF CapturedOnce, OneCapturer, StreamStarts, PresentFeeds
<1>5. QED
  BY <1>1, <1>2, <1>3, <1>4

-----------------------------------------------------------------------------
(* The parts together *)

gameVars == <<focus, monoVars, traceVars, captureVars, movieVars, cameraVars, probeVars>>

\* The part in focus is in its invariant.
GameInv ==
    /\ focus \in {"mono", "trace", "capture", "movie", "camera", "probe"}
    /\ MonoInv /\ TraceInv /\ CaptureInv /\ MovieInv /\ CameraInv /\ ProbeInv

\* Each part starts in its invariant.
LEMMA GameStart == Init => GameInv
  BY MonoStart, TraceStart, CaptureStart, MovieStart, CameraStart, ProbeStart DEF Init, GameInv

\* A step moves the part in focus and leaves the others.
LEMMA GameStep == GameInv /\ [Next]_gameVars => GameInv'
<1> SUFFICES ASSUME GameInv, [Next]_gameVars PROVE GameInv'
  OBVIOUS
<1>1. /\ MonoNext \/ UNCHANGED monoVars
      /\ TraceNext \/ UNCHANGED traceVars
      /\ CaptureNext \/ UNCHANGED captureVars
      /\ MovieNext \/ UNCHANGED movieVars
      /\ CameraNext \/ UNCHANGED cameraVars
      /\ ProbeNext \/ UNCHANGED probeVars
      /\ focus' = focus
  BY DEF Next, gameVars, monoRest, traceRest, captureRest, movieRest, cameraRest, probeRest
<1>2. MonoInv' /\ TraceInv'
  BY <1>1, MonoStep, MonoQuiet, TraceStep, TraceQuiet DEF GameInv
<1>3. CaptureInv' /\ MovieInv'
  BY <1>1, CaptureStep, CaptureQuiet, MovieStep, MovieQuiet DEF GameInv
<1>4. CameraInv' /\ ProbeInv'
  BY <1>1, CameraStep, CameraQuiet, ProbeStep, ProbeQuiet DEF GameInv
<1>5. QED
  BY <1>1, <1>2, <1>3, <1>4 DEF GameInv

\* The inductive invariants of the game library's parts hold in every state, whatever the
\* interleaving, the bounds and the failures.
THEOREM GameInvariant == Spec => []GameInv
  BY GameStart, GameStep, PTL DEF Spec, gameVars

\* Every variable of the part in focus keeps its type.
THEOREM GameTypes == Spec => []GameTypeOK
<1>1. GameInv => GameTypeOK
  BY MonoShows, TraceShows, CaptureShows, MovieShows, CameraShows, ProbeShows
  DEF GameInv, GameTypeOK
<1>2. QED
  BY <1>1, GameInvariant, PTL

\* The mono stream binds and deletes its textures and framebuffers only in the context they
\* were made in, also when a new context gets a deleted one's handle; the camera pass replays
\* a display list only in the context that recorded it.
THEOREM NamesAreLive == Spec => []GlNamesAreLive
<1>1. GameInv => GlNamesAreLive
  BY MonoShows, CameraShows DEF GameInv, GlNamesAreLive
<1>2. QED
  BY <1>1, GameInvariant, PTL

\* What the host shows of the game is whole: the mono frame it copies, for every number of
\* slots and contexts; the captured image with its diagnostic, read under a sequence lock;
\* and the decoded movie frame with its header.
THEOREM PicturesAreWhole == Spec => []HostSeesWholePictures
<1>1. GameInv => HostSeesWholePictures
  BY MonoShows, CaptureShows, MovieShows DEF GameInv, HostSeesWholePictures
<1>2. QED
  BY <1>1, GameInvariant, PTL

\* Every installation either stands or is undone: the mono stream's objects of one bridge,
\* the trace's virtual table cells as long as taking them off succeeds, the smoke bootstrap
\* with its one capture, the movie's import cells and the probe's one sampler.  Whoever is
\* inside a wrapper has an original to call, and a stopped trace has every record that was
\* claimed in its file, whole and in order.
THEOREM InstallationsStandOrFall == Spec => []InstallationsAreAllOrNothing
<1>1. GameInv => InstallationsAreAllOrNothing
  BY MonoShows, TraceShows, CaptureShows, MovieShows, ProbeShows
  DEF GameInv, InstallationsAreAllOrNothing
<1>2. QED
  BY <1>1, GameInvariant, PTL

\* A camera pass gives the engine back its camera, projection, effects and policy and leaves
\* no recording open, in whichever context it runs and wherever the engine raises.  A raise
\* costs at most two things: the scene runs a second time, if it raised before its recording
\* was finished, and the recording's one level stays on the attribute stack of the context,
\* if it raised inside a hidden draw.
THEOREM CameraPassesAreTransparent == Spec => []CameraPassIsTransparent
<1>1. GameInv => CameraPassIsTransparent
  BY CameraShows DEF GameInv, CameraPassIsTransparent
<1>2. QED
  BY <1>1, GameInvariant, PTL

=============================================================================
