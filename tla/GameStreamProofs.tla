-------------------------- MODULE GameStreamProofs --------------------------
(***************************************************************************)
(* Proofs about the two parts of the game library that feed a ring: the    *)
(* mono stream, whose slots the host copies from, and the render trace,    *)
(* whose slots the writer thread takes.  Each has an inductive invariant;  *)
(* MCGameProofs draws the runs' properties from them.                      *)
(***************************************************************************)
EXTENDS MonoStream, RenderTrace, SequenceTheorems, FiniteSetTheorems, TLAPS

-----------------------------------------------------------------------------
(* The mono stream: its start, its names through a replaced context, its   *)
(* books and the frames behind them                                        *)

ContextTypes ==
    /\ born \in Contexts /\ alive \subseteq 1 .. born /\ window \subseteq Contexts
    /\ handle \in [Contexts -> Handles \cup {NoHandle}] /\ current \in alive \cup {0}

PrimaryStages == {"load", "adapter", "device", "create", "colors", "fences", "handles",
                  "memories", "textures", "semaphores", "primary ready", "primary failed"}

FallbackStages == {"nv load", "nv adapter", "nv device", "nv texture", "nv create",
                   "nv register", "nv again", "nv fences", "fallback ready"}

LastStages == {"fbo", "run", "fail"}

StartTypes ==
    /\ lifecycle \in {"dormant", "starting", "running", "failed"}
    /\ stage \in {"idle"} \cup PrimaryStages \cup FallbackStages \cup LastStages
    /\ held \subseteq Objects /\ backend \in {"none", "ext", "nv"}
    /\ deleted \in BOOLEAN /\ imported \in BOOLEAN /\ cooling \in BOOLEAN

NameTypes ==
    /\ owner \in Handles \cup {NoHandle} /\ bridgeOwner \in Handles \cup {NoHandle}
    /\ fbo \in 0 .. MaxContexts /\ resolve \in 0 .. MaxContexts /\ names \in 0 .. MaxContexts

FenceValues == 0 .. FenceMax - 1

BookTypes ==
    /\ lastProduced \in FenceValues /\ lastSignal \in FenceValues
    /\ slotUse \in [Slots -> FenceValues] /\ slotSignalled \in [Slots -> FenceValues]
    /\ slotWaited \in [Slots -> FenceValues]

PixelTypes ==
    /\ locked \in BOOLEAN /\ content \in [Slots -> FenceValues]
    /\ queued \in FenceValues /\ ready \in 0 .. queued
    /\ copying \in 0 .. ready /\ consumed \in 0 .. ready
    /\ removed \in BOOLEAN /\ faults \in 0 .. MaxFaults

MonoTypes == ContextTypes /\ StartTypes /\ NameTypes /\ BookTypes /\ PixelTypes

\* Living contexts have handles, and no two the same.
HandlesTellContexts ==
    /\ \A c \in alive : handle[c] \in Handles
    /\ \A c, d \in alive : handle[c] = handle[d] => c = d

\* What the start has created by the place where it stands.
NvDevices == {"d3d11 device", "interop device"}

HeldByPrimary ==
    /\ stage \in {"load", "adapter", "device"} => held = {}
    /\ stage \in {"create", "colors"} => held = {"d3d12 device"}
    /\ stage = "fences" => held = {"d3d12 device", "colors"}
    /\ stage = "handles" => held = {"d3d12 device", "colors", "d3d12 fences"}
    /\ stage = "memories" => held = {"d3d12 device"} \cup D3D12Stream
    /\ stage = "textures" => held = {"d3d12 device", "gl memories"} \cup D3D12Stream
    /\ stage = "semaphores" =>
          held = {"d3d12 device", "gl memories", "gl textures"} \cup D3D12Stream
    /\ stage = "primary ready" => held = Primary

HeldByFallback ==
    /\ stage = "primary failed" => held \subseteq {"d3d12 device"}
    /\ stage \in {"nv load", "nv adapter", "nv device"} => held = {}
    /\ stage \in {"nv texture", "nv create", "nv again"} => held = NvDevices
    /\ stage = "nv register" => held = NvDevices \cup {"shared texture"}
    /\ stage = "nv fences" => held = NvDevices \cup RegisteredTexture
    /\ stage = "fallback ready" => held = FallbackObjects

Streaming == IF backend = "ext" THEN Primary ELSE FallbackObjects

HeldAtTheEnd ==
    /\ stage = "fbo" => held = Streaming
    /\ stage = "fail" =>
          \/ held \subseteq FallbackObjects \cup {"output fbo"}
          \/ Primary \subseteq held /\ held \subseteq Primary \cup {"output fbo"}
    /\ stage = "run" \/ lifecycle = "running" => held = {"output fbo"} \cup Streaming

HeldAt == HeldByPrimary /\ HeldByFallback /\ HeldAtTheEnd

\* The lifecycle, the start's place and the stream's owner.
LifecycleAdvances ==
    /\ lifecycle = "starting" <=> stage # "idle"
    /\ lifecycle = "starting" => current # 0
    /\ lifecycle = "dormant" => held = {}
    /\ lifecycle = "failed" => held = {} \/ owner # NoHandle
    /\ lifecycle = "running" => owner # NoHandle /\ backend # "none"
    /\ owner # NoHandle => lifecycle \in {"running", "failed"}
    /\ stage \in {"fbo", "run"} => backend # "none"

\* Before it runs, the stream owns no names of its own and has drawn nothing.
NothingBeforeTheRun ==
    owner = NoHandle =>
       /\ ~deleted /\ ~imported /\ fbo = 0 /\ resolve = 0
       /\ stage \in {"fbo", "run"} => names = current /\ bridgeOwner = handle[current]
       /\ lastProduced = 0 /\ slotUse = Zeros
       /\ lastSignal = 0 /\ slotSignalled = Zeros /\ slotWaited = Zeros
       /\ queued = 0

\* The stream's names were created in the living context its owner handle is of.
BoundTo(c) ==
    /\ c \in alive /\ handle[c] = owner /\ bridgeOwner = owner
    /\ fbo \in {0, c} /\ resolve \in {0, c}

NamesFollowContext ==
    /\ owner # NoHandle /\ (~deleted \/ imported) => BoundTo(names)
    /\ owner # NoHandle /\ ~deleted => fbo = names
    /\ deleted /\ ~imported => fbo = 0 /\ resolve = 0

\* The producer's books and the bridge's are the same.
BooksAgree ==
    lifecycle = "running" =>
       /\ queued = lastProduced /\ slotSignalled = slotUse
       /\ backend = "nv" => slotUse = Zeros /\ lastSignal = 0
       /\ backend = "ext" =>
             /\ lastSignal = lastProduced
             /\ \A v \in 1 .. lastProduced : v <= slotUse[SlotOf(v)]
       /\ \A s \in Slots : IF slotUse[s] = 0 THEN slotWaited[s] = 0 ELSE slotWaited[s] < slotUse[s]
       /\ \A s \in Slots : slotUse[s] <= lastProduced

\* Every frame the host may still copy is whole in its slot.
PendingAreWhole ==
    /\ \A v \in 1 .. queued : v > consumed => content[SlotOf(v)] = v
    /\ copying # 0 => copying > consumed

MonoInv ==
    /\ MonoTypes /\ HandlesTellContexts /\ HeldAt /\ LifecycleAdvances /\ NothingBeforeTheRun
    /\ NamesFollowContext /\ BooksAgree /\ PendingAreWhole

\* The context of the game, and its handle.
LEMMA CurrentContext ==
    ASSUME MonoInv
    PROVE  /\ current \in 0 .. MaxContexts /\ 0 \in 0 .. MaxContexts
           /\ \A c \in alive : /\ c \in Contexts /\ c <= born /\ c # 0
                               /\ handle[c] \in Handles /\ handle[c] # NoHandle
           /\ current # 0 => current \in alive
           /\ born \in Nat
<1> USE DEF MonoInv, MonoTypes, ContextTypes, Contexts, HandlesTellContexts
<1>1. current # 0 => current \in alive
  OBVIOUS
<1>2. \A c \in alive : c \in 1 .. born
  OBVIOUS
<1>3. QED
  BY <1>1, <1>2, BoundsAssumption, HandleAssumption

\* A new context is another number, and its handle is no living one's.
LEMMA NewContext ==
    ASSUME MonoInv, CreateContext
    PROVE  /\ born + 1 \in Contexts /\ born + 1 \notin alive
           /\ born' = born + 1 /\ alive' = alive \cup {born + 1}
           /\ handle' \in [Contexts -> Handles \cup {NoHandle}]
           /\ handle'[born + 1] \in Handles /\ \A c \in alive : handle'[born + 1] # handle[c]
           /\ \A c \in alive : handle'[c] = handle[c]
           /\ UNCHANGED <<current, lifecycle, start, rec, glNames, books, pixels, host, faults>>
<1> USE DEF MonoInv, MonoTypes, ContextTypes, Contexts
<1>1. PICK h \in Handles : /\ \A c \in alive : handle[c] # h
                           /\ handle' = [handle EXCEPT ![born + 1] = h]
  BY Zenon DEF CreateContext
<1>2. born + 1 \in 1 .. MaxContexts /\ born + 1 \notin 1 .. born /\ alive \subseteq 1 .. born
  BY BoundsAssumption DEF CreateContext
<1>3. born' = born + 1 /\ alive' = alive \cup {born + 1}
      /\ UNCHANGED <<current, lifecycle, start, rec, glNames, books, pixels, host, faults>>
  BY DEF CreateContext
<1>4. handle' \in [Contexts -> Handles \cup {NoHandle}] /\ handle'[born + 1] = h
  BY <1>1, <1>2
<1>5. \A c \in alive : handle'[c] = handle[c]
  BY <1>1, <1>2
<1>6. QED
  BY <1>1, <1>2, <1>3, <1>4, <1>5

\* The steps keep the types of the contexts.
LEMMA MonoContextTypeStep ==
    ASSUME MonoInv, MonoNext
    PROVE  ContextTypes'
<1> USE DEF MonoInv, MonoTypes, ContextTypes, Contexts, game, start, rec, glNames, books, pixels,
      host
<1>1. CASE LoadGlFunctions
  BY <1>1 DEF LoadGlFunctions, Step
<1>2. CASE QueryGlAdapterLuid
  BY <1>2 DEF QueryGlAdapterLuid, Step
<1>3. CASE CreateDeviceForGlAdapter
  BY <1>3 DEF CreateDeviceForGlAdapter, Step
<1>4. CASE CheckNamedStreams
  BY <1>4 DEF CheckNamedStreams, Step
<1>5. CASE CreateColors
  BY <1>5 DEF CreateColors, Step
<1>6. CASE CreateFences
  BY <1>6 DEF CreateFences, Step
<1>7. CASE CreateSharedHandles
  BY <1>7 DEF CreateSharedHandles, Step
<1>8. CASE ImportMemories
  BY <1>8 DEF ImportMemories, Step
<1>9. CASE ImportTextures
  BY <1>9 DEF ImportTextures, Step
<1>10. CASE ImportSemaphores
  BY <1>10 DEF ImportSemaphores, Step
<1>11. CASE ResolveInteropFunctions
  BY <1>11 DEF ResolveInteropFunctions, Step
<1>12. CASE SelectNvidiaAdapter
  BY <1>12 DEF SelectNvidiaAdapter, Step
<1>13. CASE OpenInteropDevice
  BY <1>13 DEF OpenInteropDevice, Step
<1>14. CASE CheckTextureFormat
  BY <1>14 DEF CheckTextureFormat, Step
<1>15. CASE CreateAttempt
  BY <1>15 DEF CreateAttempt, Step
<1>16. CASE RegisterDirectly
  BY <1>16 DEF RegisterDirectly, Step
<1>17. CASE RegisterAgain
  BY <1>17 DEF RegisterAgain, Step
<1>18. CASE CreateFallbackFences
  BY <1>18 DEF CreateFallbackFences, Step
<1>19. CASE CreateOutputFramebuffer
  BY <1>19 DEF CreateOutputFramebuffer, Step
<1>20. CASE StartGpuStreamProducer
  BY <1>20 DEF StartGpuStreamProducer
<1>21. CASE SelectPrimary
  BY <1>21 DEF SelectPrimary
<1>22. CASE ShutdownPrimary
  BY <1>22 DEF ShutdownPrimary, ShutdownExt
<1>23. CASE SelectFallback
  BY <1>23 DEF SelectFallback
<1>24. CASE StartSucceeds
  BY <1>24 DEF StartSucceeds
<1>25. CASE FailStart
  BY <1>25 DEF FailStart
<1>26. CASE CreateContext
  <2>1. window' \subseteq Contexts
    BY <1>26, NewContext DEF CreateContext
  <2>2. alive' \subseteq 1 .. born'
    <3>1. alive' = alive \cup {born + 1} /\ born' = born + 1
      BY <1>26, NewContext
    <3>2. born + 1 \in 1 .. born' /\ \A c \in 1 .. born : c \in 1 .. born'
      BY <3>1
    <3>3. QED
      BY <3>1, <3>2
  <2>3. current' \in alive' \cup {0}
    BY <1>26, NewContext
  <2>4. QED
    BY <1>26, <2>1, <2>2, <2>3, NewContext
<1>27. CASE MakeCurrent
  BY <1>27 DEF MakeCurrent, Quiet
<1>28. CASE DeleteContext
  BY <1>28 DEF DeleteContext, Quiet, NotifyGpuStreamContextDeleted, ForgetNames
<1>29. CASE RecoverNotReady
  BY <1>29 DEF RecoverNotReady, Recovering, Eligible, BeginAttempt, OwningGlContextIsCurrent,
      Rebind, RetainedSignals, RecreateFramebuffer, Fault
<1>30. CASE RecoverImportFails
  BY <1>30 DEF RecoverImportFails, Recovering, Eligible, BeginAttempt, OwningGlContextIsCurrent,
      Rebind, RetainedSignals, RecreateFramebuffer, Fault
<1>31. CASE RecoverGpuStreamContext
  BY <1>31 DEF RecoverGpuStreamContext, Recovering, Eligible, BeginAttempt,
      OwningGlContextIsCurrent, Rebind, RetainedSignals, RecreateFramebuffer, Fault
<1>32. CASE RetryDue
  BY <1>32 DEF RetryDue
<1>33. CASE ProduceStops
  BY <1>33 DEF ProduceStops, Producing, MayProduce, OwningGlContextIsCurrent,
      DisableAfterRuntimeFailure, Fault
<1>34. CASE ProduceWaitFails
  BY <1>34 DEF ProduceWaitFails, Producing, MayProduce, OwningGlContextIsCurrent,
      DisableAfterRuntimeFailure, Fault
<1>35. CASE ProduceBlitFails
  BY <1>35 DEF ProduceBlitFails, Producing, MayProduce, OwningGlContextIsCurrent,
      DisableAfterRuntimeFailure, Fault, AfterUnlock
<1>36. CASE ProduceSignalFails
  BY <1>36 DEF ProduceSignalFails, Producing, MayProduce, OwningGlContextIsCurrent,
      DisableAfterRuntimeFailure, Fault, EnsureResolveTarget
<1>37. CASE ProduceFrame
  BY <1>37 DEF ProduceFrame, Producing, MayProduce, OwningGlContextIsCurrent,
      DisableAfterRuntimeFailure, Fault, EnsureResolveTarget
<1>38. CASE GpuSignal
  BY <1>38 DEF GpuSignal
<1>39. CASE HostCopy
  BY <1>39 DEF HostCopy
<1>40. CASE HostAcknowledge
  BY <1>40 DEF HostAcknowledge
<1>41. CASE RemoveDevice
  BY <1>41 DEF RemoveDevice, Fault
<1>42. QED
  BY <1>1, <1>2, <1>3, <1>4, <1>5, <1>6, <1>7, <1>8, <1>9, <1>10, <1>11, <1>12, <1>13, <1>14,
      <1>15, <1>16, <1>17, <1>18, <1>19, <1>20, <1>21, <1>22, <1>23, <1>24, <1>25, <1>26, <1>27,
      <1>28, <1>29, <1>30, <1>31, <1>32, <1>33, <1>34, <1>35, <1>36, <1>37, <1>38, <1>39, <1>40,
      <1>41 DEF MonoNext, Starting, Recover, Produce

\* Living contexts have different handles.
LEMMA MonoHandleStep ==
    ASSUME MonoInv, MonoNext
    PROVE  HandlesTellContexts'
<1> USE DEF MonoInv, MonoTypes, ContextTypes, Contexts, HandlesTellContexts, game, start, rec,
      glNames, books, pixels, host
<1>1. CASE LoadGlFunctions
  BY <1>1 DEF LoadGlFunctions, Step
<1>2. CASE QueryGlAdapterLuid
  BY <1>2 DEF QueryGlAdapterLuid, Step
<1>3. CASE CreateDeviceForGlAdapter
  BY <1>3 DEF CreateDeviceForGlAdapter, Step
<1>4. CASE CheckNamedStreams
  BY <1>4 DEF CheckNamedStreams, Step
<1>5. CASE CreateColors
  BY <1>5 DEF CreateColors, Step
<1>6. CASE CreateFences
  BY <1>6 DEF CreateFences, Step
<1>7. CASE CreateSharedHandles
  BY <1>7 DEF CreateSharedHandles, Step
<1>8. CASE ImportMemories
  BY <1>8 DEF ImportMemories, Step
<1>9. CASE ImportTextures
  BY <1>9 DEF ImportTextures, Step
<1>10. CASE ImportSemaphores
  BY <1>10 DEF ImportSemaphores, Step
<1>11. CASE ResolveInteropFunctions
  BY <1>11 DEF ResolveInteropFunctions, Step
<1>12. CASE SelectNvidiaAdapter
  BY <1>12 DEF SelectNvidiaAdapter, Step
<1>13. CASE OpenInteropDevice
  BY <1>13 DEF OpenInteropDevice, Step
<1>14. CASE CheckTextureFormat
  BY <1>14 DEF CheckTextureFormat, Step
<1>15. CASE CreateAttempt
  BY <1>15 DEF CreateAttempt, Step
<1>16. CASE RegisterDirectly
  BY <1>16 DEF RegisterDirectly, Step
<1>17. CASE RegisterAgain
  BY <1>17 DEF RegisterAgain, Step
<1>18. CASE CreateFallbackFences
  BY <1>18 DEF CreateFallbackFences, Step
<1>19. CASE CreateOutputFramebuffer
  BY <1>19 DEF CreateOutputFramebuffer, Step
<1>20. CASE StartGpuStreamProducer
  BY <1>20 DEF StartGpuStreamProducer
<1>21. CASE SelectPrimary
  BY <1>21 DEF SelectPrimary
<1>22. CASE ShutdownPrimary
  BY <1>22 DEF ShutdownPrimary, ShutdownExt
<1>23. CASE SelectFallback
  BY <1>23 DEF SelectFallback
<1>24. CASE StartSucceeds
  BY <1>24 DEF StartSucceeds
<1>25. CASE FailStart
  BY <1>25 DEF FailStart
<1>26. CASE CreateContext
  BY <1>26, NewContext
<1>27. CASE MakeCurrent
  BY <1>27 DEF MakeCurrent, Quiet
<1>28. CASE DeleteContext
  BY <1>28 DEF DeleteContext, Quiet, NotifyGpuStreamContextDeleted, ForgetNames
<1>29. CASE RecoverNotReady
  BY <1>29 DEF RecoverNotReady, Recovering, Eligible, BeginAttempt, OwningGlContextIsCurrent,
      Rebind, RetainedSignals, RecreateFramebuffer, Fault
<1>30. CASE RecoverImportFails
  BY <1>30 DEF RecoverImportFails, Recovering, Eligible, BeginAttempt, OwningGlContextIsCurrent,
      Rebind, RetainedSignals, RecreateFramebuffer, Fault
<1>31. CASE RecoverGpuStreamContext
  BY <1>31 DEF RecoverGpuStreamContext, Recovering, Eligible, BeginAttempt,
      OwningGlContextIsCurrent, Rebind, RetainedSignals, RecreateFramebuffer, Fault
<1>32. CASE RetryDue
  BY <1>32 DEF RetryDue
<1>33. CASE ProduceStops
  BY <1>33 DEF ProduceStops, Producing, MayProduce, OwningGlContextIsCurrent,
      DisableAfterRuntimeFailure, Fault
<1>34. CASE ProduceWaitFails
  BY <1>34 DEF ProduceWaitFails, Producing, MayProduce, OwningGlContextIsCurrent,
      DisableAfterRuntimeFailure, Fault
<1>35. CASE ProduceBlitFails
  BY <1>35 DEF ProduceBlitFails, Producing, MayProduce, OwningGlContextIsCurrent,
      DisableAfterRuntimeFailure, Fault, AfterUnlock
<1>36. CASE ProduceSignalFails
  BY <1>36 DEF ProduceSignalFails, Producing, MayProduce, OwningGlContextIsCurrent,
      DisableAfterRuntimeFailure, Fault, EnsureResolveTarget
<1>37. CASE ProduceFrame
  BY <1>37 DEF ProduceFrame, Producing, MayProduce, OwningGlContextIsCurrent,
      DisableAfterRuntimeFailure, Fault, EnsureResolveTarget
<1>38. CASE GpuSignal
  BY <1>38 DEF GpuSignal
<1>39. CASE HostCopy
  BY <1>39 DEF HostCopy
<1>40. CASE HostAcknowledge
  BY <1>40 DEF HostAcknowledge
<1>41. CASE RemoveDevice
  BY <1>41 DEF RemoveDevice, Fault
<1>42. QED
  BY <1>1, <1>2, <1>3, <1>4, <1>5, <1>6, <1>7, <1>8, <1>9, <1>10, <1>11, <1>12, <1>13, <1>14,
      <1>15, <1>16, <1>17, <1>18, <1>19, <1>20, <1>21, <1>22, <1>23, <1>24, <1>25, <1>26, <1>27,
      <1>28, <1>29, <1>30, <1>31, <1>32, <1>33, <1>34, <1>35, <1>36, <1>37, <1>38, <1>39, <1>40,
      <1>41 DEF MonoNext, Starting, Recover, Produce

\* The steps keep the types of the start.
LEMMA StartTypeStep ==
    ASSUME MonoInv, MonoNext
    PROVE  StartTypes'
<1> USE DEF MonoInv, MonoTypes, StartTypes, PrimaryStages, FallbackStages, LastStages, game,
      start, rec, glNames, books, pixels, host
<1>1. CASE LoadGlFunctions
  BY <1>1 DEF LoadGlFunctions, Step, Objects, Primary, D3D12Stream, GlStream, FallbackObjects,
      FallbackFences, RegisteredTexture
<1>2. CASE QueryGlAdapterLuid
  BY <1>2 DEF QueryGlAdapterLuid, Step, Objects, Primary, D3D12Stream, GlStream, FallbackObjects,
      FallbackFences, RegisteredTexture
<1>3. CASE CreateDeviceForGlAdapter
  BY <1>3 DEF CreateDeviceForGlAdapter, Step, Objects, Primary, D3D12Stream, GlStream,
      FallbackObjects, FallbackFences, RegisteredTexture
<1>4. CASE CheckNamedStreams
  BY <1>4 DEF CheckNamedStreams, Step, Objects, Primary, D3D12Stream, GlStream, FallbackObjects,
      FallbackFences, RegisteredTexture
<1>5. CASE CreateColors
  BY <1>5 DEF CreateColors, Step, Objects, Primary, D3D12Stream, GlStream, FallbackObjects,
      FallbackFences, RegisteredTexture
<1>6. CASE CreateFences
  BY <1>6 DEF CreateFences, Step, Objects, Primary, D3D12Stream, GlStream, FallbackObjects,
      FallbackFences, RegisteredTexture
<1>7. CASE CreateSharedHandles
  BY <1>7 DEF CreateSharedHandles, Step, Objects, Primary, D3D12Stream, GlStream,
      FallbackObjects, FallbackFences, RegisteredTexture
<1>8. CASE ImportMemories
  BY <1>8 DEF ImportMemories, Step, Objects, Primary, D3D12Stream, GlStream, FallbackObjects,
      FallbackFences, RegisteredTexture
<1>9. CASE ImportTextures
  BY <1>9 DEF ImportTextures, Step, Objects, Primary, D3D12Stream, GlStream, FallbackObjects,
      FallbackFences, RegisteredTexture
<1>10. CASE ImportSemaphores
  BY <1>10 DEF ImportSemaphores, Step, Objects, Primary, D3D12Stream, GlStream, FallbackObjects,
      FallbackFences, RegisteredTexture
<1>11. CASE ResolveInteropFunctions
  BY <1>11 DEF ResolveInteropFunctions, Step, Objects, Primary, D3D12Stream, GlStream,
      FallbackObjects, FallbackFences, RegisteredTexture
<1>12. CASE SelectNvidiaAdapter
  BY <1>12 DEF SelectNvidiaAdapter, Step, Objects, Primary, D3D12Stream, GlStream,
      FallbackObjects, FallbackFences, RegisteredTexture
<1>13. CASE OpenInteropDevice
  BY <1>13 DEF OpenInteropDevice, Step, Objects, Primary, D3D12Stream, GlStream, FallbackObjects,
      FallbackFences, RegisteredTexture
<1>14. CASE CheckTextureFormat
  BY <1>14 DEF CheckTextureFormat, Step, Objects, Primary, D3D12Stream, GlStream,
      FallbackObjects, FallbackFences, RegisteredTexture
<1>15. CASE CreateAttempt
  BY <1>15 DEF CreateAttempt, Step, Objects, Primary, D3D12Stream, GlStream, FallbackObjects,
      FallbackFences, RegisteredTexture
<1>16. CASE RegisterDirectly
  BY <1>16 DEF RegisterDirectly, Step, Objects, Primary, D3D12Stream, GlStream, FallbackObjects,
      FallbackFences, RegisteredTexture
<1>17. CASE RegisterAgain
  BY <1>17 DEF RegisterAgain, Step, Objects, Primary, D3D12Stream, GlStream, FallbackObjects,
      FallbackFences, RegisteredTexture
<1>18. CASE CreateFallbackFences
  BY <1>18 DEF CreateFallbackFences, Step, Objects, Primary, D3D12Stream, GlStream,
      FallbackObjects, FallbackFences, RegisteredTexture
<1>19. CASE CreateOutputFramebuffer
  BY <1>19 DEF CreateOutputFramebuffer, Step, Objects, Primary, D3D12Stream, GlStream,
      FallbackObjects, FallbackFences, RegisteredTexture
<1>20. CASE StartGpuStreamProducer
  BY <1>20 DEF StartGpuStreamProducer
<1>21. CASE SelectPrimary
  BY <1>21 DEF SelectPrimary
<1>22. CASE ShutdownPrimary
  BY <1>22 DEF ShutdownPrimary, ShutdownExt
<1>23. CASE SelectFallback
  BY <1>23 DEF SelectFallback
<1>24. CASE StartSucceeds
  BY <1>24 DEF StartSucceeds
<1>25. CASE FailStart
  BY <1>25 DEF FailStart
<1>26. CASE CreateContext
  BY <1>26 DEF CreateContext, Quiet
<1>27. CASE MakeCurrent
  BY <1>27 DEF MakeCurrent, Quiet
<1>28. CASE DeleteContext
  BY <1>28 DEF DeleteContext, Quiet, NotifyGpuStreamContextDeleted, ForgetNames
<1>29. CASE RecoverNotReady
  BY <1>29 DEF RecoverNotReady, Recovering, Eligible, BeginAttempt, OwningGlContextIsCurrent,
      Rebind, RetainedSignals, RecreateFramebuffer, Fault
<1>30. CASE RecoverImportFails
  BY <1>30 DEF RecoverImportFails, Recovering, Eligible, BeginAttempt, OwningGlContextIsCurrent,
      Rebind, RetainedSignals, RecreateFramebuffer, Fault
<1>31. CASE RecoverGpuStreamContext
  BY <1>31 DEF RecoverGpuStreamContext, Recovering, Eligible, BeginAttempt,
      OwningGlContextIsCurrent, Rebind, RetainedSignals, RecreateFramebuffer, Fault
<1>32. CASE RetryDue
  BY <1>32 DEF RetryDue
<1>33. CASE ProduceStops
  BY <1>33 DEF ProduceStops, Producing, MayProduce, OwningGlContextIsCurrent,
      DisableAfterRuntimeFailure, Fault
<1>34. CASE ProduceWaitFails
  BY <1>34 DEF ProduceWaitFails, Producing, MayProduce, OwningGlContextIsCurrent,
      DisableAfterRuntimeFailure, Fault
<1>35. CASE ProduceBlitFails
  BY <1>35 DEF ProduceBlitFails, Producing, MayProduce, OwningGlContextIsCurrent,
      DisableAfterRuntimeFailure, Fault, AfterUnlock
<1>36. CASE ProduceSignalFails
  BY <1>36 DEF ProduceSignalFails, Producing, MayProduce, OwningGlContextIsCurrent,
      DisableAfterRuntimeFailure, Fault, EnsureResolveTarget
<1>37. CASE ProduceFrame
  BY <1>37 DEF ProduceFrame, Producing, MayProduce, OwningGlContextIsCurrent,
      DisableAfterRuntimeFailure, Fault, EnsureResolveTarget
<1>38. CASE GpuSignal
  BY <1>38 DEF GpuSignal
<1>39. CASE HostCopy
  BY <1>39 DEF HostCopy
<1>40. CASE HostAcknowledge
  BY <1>40 DEF HostAcknowledge
<1>41. CASE RemoveDevice
  BY <1>41 DEF RemoveDevice, Fault
<1>42. QED
  BY <1>1, <1>2, <1>3, <1>4, <1>5, <1>6, <1>7, <1>8, <1>9, <1>10, <1>11, <1>12, <1>13, <1>14,
      <1>15, <1>16, <1>17, <1>18, <1>19, <1>20, <1>21, <1>22, <1>23, <1>24, <1>25, <1>26, <1>27,
      <1>28, <1>29, <1>30, <1>31, <1>32, <1>33, <1>34, <1>35, <1>36, <1>37, <1>38, <1>39, <1>40,
      <1>41 DEF MonoNext, Starting, Recover, Produce

\* The lifecycle follows the start.
LEMMA LifecycleStep ==
    ASSUME MonoInv, MonoNext
    PROVE  LifecycleAdvances'
<1> USE DEF MonoInv, MonoTypes, ContextTypes, StartTypes, LifecycleAdvances, PrimaryStages,
      FallbackStages, LastStages, game, start, rec, glNames, books, pixels, host
<1>1. CASE LoadGlFunctions
  BY <1>1 DEF LoadGlFunctions, Step
<1>2. CASE QueryGlAdapterLuid
  BY <1>2 DEF QueryGlAdapterLuid, Step
<1>3. CASE CreateDeviceForGlAdapter
  BY <1>3 DEF CreateDeviceForGlAdapter, Step
<1>4. CASE CheckNamedStreams
  BY <1>4 DEF CheckNamedStreams, Step
<1>5. CASE CreateColors
  BY <1>5 DEF CreateColors, Step
<1>6. CASE CreateFences
  BY <1>6 DEF CreateFences, Step
<1>7. CASE CreateSharedHandles
  BY <1>7 DEF CreateSharedHandles, Step
<1>8. CASE ImportMemories
  BY <1>8 DEF ImportMemories, Step
<1>9. CASE ImportTextures
  BY <1>9 DEF ImportTextures, Step
<1>10. CASE ImportSemaphores
  BY <1>10 DEF ImportSemaphores, Step
<1>11. CASE ResolveInteropFunctions
  BY <1>11 DEF ResolveInteropFunctions, Step
<1>12. CASE SelectNvidiaAdapter
  BY <1>12 DEF SelectNvidiaAdapter, Step
<1>13. CASE OpenInteropDevice
  BY <1>13 DEF OpenInteropDevice, Step
<1>14. CASE CheckTextureFormat
  BY <1>14 DEF CheckTextureFormat, Step
<1>15. CASE CreateAttempt
  BY <1>15 DEF CreateAttempt, Step
<1>16. CASE RegisterDirectly
  BY <1>16 DEF RegisterDirectly, Step
<1>17. CASE RegisterAgain
  BY <1>17 DEF RegisterAgain, Step
<1>18. CASE CreateFallbackFences
  BY <1>18 DEF CreateFallbackFences, Step
<1>19. CASE CreateOutputFramebuffer
  BY <1>19 DEF CreateOutputFramebuffer, Step
<1>20. CASE StartGpuStreamProducer
  BY <1>20 DEF StartGpuStreamProducer
<1>21. CASE SelectPrimary
  BY <1>21 DEF SelectPrimary
<1>22. CASE ShutdownPrimary
  BY <1>22 DEF ShutdownPrimary, ShutdownExt
<1>23. CASE SelectFallback
  BY <1>23 DEF SelectFallback
<1>24. CASE StartSucceeds
  BY <1>24, CurrentContext DEF StartSucceeds
<1>25. CASE FailStart
  <2>1. held' = {}
    <3>1. \/ held \subseteq FallbackObjects \cup {"output fbo"}
          \/ Primary \subseteq held /\ held \subseteq Primary \cup {"output fbo"}
      BY <1>25 DEF FailStart, HeldAt, HeldAtTheEnd
    <3>2. held' = held \ CleanupProducer
      BY <1>25 DEF FailStart
    <3>3. FallbackObjects \cup {"output fbo"} \subseteq CleanupProducer
      BY DEF CleanupProducer, ShutdownNv, FallbackObjects
    <3>4. CASE held \subseteq FallbackObjects \cup {"output fbo"}
      BY <3>2, <3>3, <3>4
    <3>5. CASE Primary \subseteq held /\ held \subseteq Primary \cup {"output fbo"}
      <4>1. "colors" \in held
        BY <3>5 DEF Primary, D3D12Stream
      <4>2. Primary \subseteq CleanupProducer
        BY <4>1 DEF CleanupProducer, ShutdownExt
      <4>3. QED
        BY <3>2, <3>3, <3>5, <4>2
    <3>6. QED
      BY <3>1, <3>4, <3>5
  <2>2. QED
    BY <1>25, <2>1 DEF FailStart
<1>26. CASE CreateContext
  BY <1>26 DEF CreateContext, Quiet
<1>27. CASE MakeCurrent
  BY <1>27 DEF MakeCurrent, Quiet
<1>28. CASE DeleteContext
  BY <1>28 DEF DeleteContext, Quiet, NotifyGpuStreamContextDeleted, ForgetNames
<1>29. CASE RecoverNotReady
  BY <1>29 DEF RecoverNotReady, Recovering, Eligible, BeginAttempt, OwningGlContextIsCurrent,
      Rebind, RetainedSignals, RecreateFramebuffer, Fault
<1>30. CASE RecoverImportFails
  BY <1>30 DEF RecoverImportFails, Recovering, Eligible, BeginAttempt, OwningGlContextIsCurrent,
      Rebind, RetainedSignals, RecreateFramebuffer, Fault
<1>31. CASE RecoverGpuStreamContext
  <2>1. owner' = owner \/ owner' = handle[current]
    BY <1>31 DEF RecoverGpuStreamContext, Rebind
  <2>2. owner' # NoHandle /\ owner # NoHandle
    BY <1>31, <2>1, CurrentContext DEF RecoverGpuStreamContext, Recovering, Eligible
  <2>3. QED
    BY <1>31, <2>2 DEF RecoverGpuStreamContext
<1>32. CASE RetryDue
  BY <1>32 DEF RetryDue
<1>33. CASE ProduceStops
  BY <1>33 DEF ProduceStops, Producing, MayProduce, OwningGlContextIsCurrent,
      DisableAfterRuntimeFailure, Fault
<1>34. CASE ProduceWaitFails
  BY <1>34 DEF ProduceWaitFails, Producing, MayProduce, OwningGlContextIsCurrent,
      DisableAfterRuntimeFailure, Fault
<1>35. CASE ProduceBlitFails
  BY <1>35 DEF ProduceBlitFails, Producing, MayProduce, OwningGlContextIsCurrent,
      DisableAfterRuntimeFailure, Fault, AfterUnlock
<1>36. CASE ProduceSignalFails
  BY <1>36 DEF ProduceSignalFails, Producing, MayProduce, OwningGlContextIsCurrent,
      DisableAfterRuntimeFailure, Fault, EnsureResolveTarget
<1>37. CASE ProduceFrame
  BY <1>37 DEF ProduceFrame, Producing, MayProduce, OwningGlContextIsCurrent,
      DisableAfterRuntimeFailure, Fault, EnsureResolveTarget
<1>38. CASE GpuSignal
  BY <1>38 DEF GpuSignal
<1>39. CASE HostCopy
  BY <1>39 DEF HostCopy
<1>40. CASE HostAcknowledge
  BY <1>40 DEF HostAcknowledge
<1>41. CASE RemoveDevice
  BY <1>41 DEF RemoveDevice, Fault
<1>42. QED
  BY <1>1, <1>2, <1>3, <1>4, <1>5, <1>6, <1>7, <1>8, <1>9, <1>10, <1>11, <1>12, <1>13, <1>14,
      <1>15, <1>16, <1>17, <1>18, <1>19, <1>20, <1>21, <1>22, <1>23, <1>24, <1>25, <1>26, <1>27,
      <1>28, <1>29, <1>30, <1>31, <1>32, <1>33, <1>34, <1>35, <1>36, <1>37, <1>38, <1>39, <1>40,
      <1>41 DEF MonoNext, Starting, Recover, Produce

\* What the start holds depends on its place and on the bridge only.
LEMMA HeldQuiet ==
    ASSUME HeldAt, UNCHANGED <<lifecycle, stage, held, backend>>
    PROVE  HeldAt'
<1>1. lifecycle' = lifecycle /\ stage' = stage /\ held' = held /\ backend' = backend
  OBVIOUS
<1>2. HeldByPrimary'
  BY <1>1, Zenon DEF HeldAt, HeldByPrimary
<1>3. HeldByFallback'
  BY <1>1, Zenon DEF HeldAt, HeldByFallback
<1>4. HeldAtTheEnd'
  BY <1>1, Zenon DEF HeldAt, HeldAtTheEnd, Streaming
<1>5. QED
  BY <1>2, <1>3, <1>4 DEF HeldAt

\* The start holds what its place says.
LEMMA HeldStep ==
    ASSUME MonoInv, MonoNext
    PROVE  HeldAt'
<1> USE DEF MonoInv, MonoTypes, LifecycleAdvances, HeldAt, HeldByPrimary, HeldByFallback,
      HeldAtTheEnd, Streaming, game, start, rec, glNames, books, pixels, host
<1>1. CASE LoadGlFunctions
  BY <1>1 DEF LoadGlFunctions, Step, ReleasedByFailure, NvDevices, Objects, Primary, D3D12Stream,
      GlStream, FallbackObjects, FallbackFences, RegisteredTexture
<1>2. CASE QueryGlAdapterLuid
  BY <1>2 DEF QueryGlAdapterLuid, Step, ReleasedByFailure, NvDevices, Objects, Primary,
      D3D12Stream, GlStream, FallbackObjects, FallbackFences, RegisteredTexture
<1>3. CASE CreateDeviceForGlAdapter
  BY <1>3 DEF CreateDeviceForGlAdapter, Step, ReleasedByFailure, NvDevices, Objects, Primary,
      D3D12Stream, GlStream, FallbackObjects, FallbackFences, RegisteredTexture
<1>4. CASE CheckNamedStreams
  BY <1>4 DEF CheckNamedStreams, Step, ReleasedByFailure, NvDevices, Objects, Primary,
      D3D12Stream, GlStream, FallbackObjects, FallbackFences, RegisteredTexture
<1>5. CASE CreateColors
  BY <1>5 DEF CreateColors, Step, ReleasedByFailure, NvDevices, Objects, Primary, D3D12Stream,
      GlStream, FallbackObjects, FallbackFences, RegisteredTexture
<1>6. CASE CreateFences
  BY <1>6 DEF CreateFences, Step, ReleasedByFailure, NvDevices, Objects, Primary, D3D12Stream,
      GlStream, FallbackObjects, FallbackFences, RegisteredTexture
<1>7. CASE CreateSharedHandles
  BY <1>7 DEF CreateSharedHandles, Step, ReleasedByFailure, NvDevices, Objects, Primary,
      D3D12Stream, GlStream, FallbackObjects, FallbackFences, RegisteredTexture
<1>8. CASE ImportMemories
  BY <1>8 DEF ImportMemories, Step, ReleasedByFailure, NvDevices, Objects, Primary, D3D12Stream,
      GlStream, FallbackObjects, FallbackFences, RegisteredTexture
<1>9. CASE ImportTextures
  BY <1>9 DEF ImportTextures, Step, ReleasedByFailure, NvDevices, Objects, Primary, D3D12Stream,
      GlStream, FallbackObjects, FallbackFences, RegisteredTexture
<1>10. CASE ImportSemaphores
  BY <1>10 DEF ImportSemaphores, Step, ReleasedByFailure, NvDevices, Objects, Primary,
      D3D12Stream, GlStream, FallbackObjects, FallbackFences, RegisteredTexture
<1>11. CASE ResolveInteropFunctions
  BY <1>11 DEF ResolveInteropFunctions, Step, ReleasedByFailure, NvDevices, Objects, Primary,
      D3D12Stream, GlStream, FallbackObjects, FallbackFences, RegisteredTexture
<1>12. CASE SelectNvidiaAdapter
  BY <1>12 DEF SelectNvidiaAdapter, Step, ReleasedByFailure, NvDevices, Objects, Primary,
      D3D12Stream, GlStream, FallbackObjects, FallbackFences, RegisteredTexture
<1>13. CASE OpenInteropDevice
  BY <1>13 DEF OpenInteropDevice, Step, ReleasedByFailure, NvDevices, Objects, Primary,
      D3D12Stream, GlStream, FallbackObjects, FallbackFences, RegisteredTexture
<1>14. CASE CheckTextureFormat
  BY <1>14 DEF CheckTextureFormat, Step, ReleasedByFailure, NvDevices, Objects, Primary,
      D3D12Stream, GlStream, FallbackObjects, FallbackFences, RegisteredTexture
<1>15. CASE CreateAttempt
  BY <1>15 DEF CreateAttempt, Step, ReleasedByFailure, NvDevices, Objects, Primary, D3D12Stream,
      GlStream, FallbackObjects, FallbackFences, RegisteredTexture
<1>16. CASE RegisterDirectly
  BY <1>16 DEF RegisterDirectly, Step, ReleasedByFailure, NvDevices, Objects, Primary,
      D3D12Stream, GlStream, FallbackObjects, FallbackFences, RegisteredTexture
<1>17. CASE RegisterAgain
  BY <1>17 DEF RegisterAgain, Step, ReleasedByFailure, NvDevices, Objects, Primary, D3D12Stream,
      GlStream, FallbackObjects, FallbackFences, RegisteredTexture
<1>18. CASE CreateFallbackFences
  BY <1>18 DEF CreateFallbackFences, Step, ReleasedByFailure, NvDevices, Objects, Primary,
      D3D12Stream, GlStream, FallbackObjects, FallbackFences, RegisteredTexture
<1>19. CASE CreateOutputFramebuffer
  BY <1>19 DEF CreateOutputFramebuffer, Step, ReleasedByFailure, NvDevices, Objects, Primary,
      D3D12Stream, GlStream, FallbackObjects, FallbackFences, RegisteredTexture
<1>20. CASE StartGpuStreamProducer
  BY <1>20 DEF StartGpuStreamProducer
<1>21. CASE SelectPrimary
  BY <1>21 DEF SelectPrimary
<1>22. CASE ShutdownPrimary
  BY <1>22 DEF ShutdownPrimary, ShutdownExt
<1>23. CASE SelectFallback
  BY <1>23 DEF SelectFallback
<1>24. CASE StartSucceeds
  BY <1>24 DEF StartSucceeds
<1>25. CASE FailStart
  BY <1>25 DEF FailStart
<1>26. CASE CreateContext
  <2>1. UNCHANGED <<lifecycle, stage, held, backend>>
    BY <1>26 DEF CreateContext
  <2>2. QED
    BY <2>1, HeldQuiet
<1>27. CASE MakeCurrent
  <2>1. UNCHANGED <<lifecycle, stage, held, backend>>
    BY <1>27 DEF MakeCurrent
  <2>2. QED
    BY <2>1, HeldQuiet
<1>28. CASE DeleteContext
  <2>1. UNCHANGED <<lifecycle, stage, held, backend>>
    BY <1>28 DEF DeleteContext
  <2>2. QED
    BY <2>1, HeldQuiet
<1>29. CASE RecoverNotReady
  <2>1. UNCHANGED <<lifecycle, stage, held, backend>>
    BY <1>29 DEF RecoverNotReady
  <2>2. QED
    BY <2>1, HeldQuiet
<1>30. CASE RecoverImportFails
  <2>1. UNCHANGED <<lifecycle, stage, held, backend>>
    BY <1>30 DEF RecoverImportFails
  <2>2. QED
    BY <2>1, HeldQuiet
<1>31. CASE RecoverGpuStreamContext
  <2>1. UNCHANGED <<lifecycle, stage, held, backend>>
    BY <1>31 DEF RecoverGpuStreamContext
  <2>2. QED
    BY <2>1, HeldQuiet
<1>32. CASE RetryDue
  <2>1. UNCHANGED <<lifecycle, stage, held, backend>>
    BY <1>32 DEF RetryDue
  <2>2. QED
    BY <2>1, HeldQuiet
<1>33. CASE ProduceStops
  BY <1>33 DEF ProduceStops, Producing, MayProduce, OwningGlContextIsCurrent,
      DisableAfterRuntimeFailure, Fault
<1>34. CASE ProduceWaitFails
  BY <1>34 DEF ProduceWaitFails, Producing, MayProduce, OwningGlContextIsCurrent,
      DisableAfterRuntimeFailure, Fault
<1>35. CASE ProduceBlitFails
  BY <1>35 DEF ProduceBlitFails, Producing, MayProduce, OwningGlContextIsCurrent,
      DisableAfterRuntimeFailure, Fault, AfterUnlock
<1>36. CASE ProduceSignalFails
  BY <1>36 DEF ProduceSignalFails, Producing, MayProduce, OwningGlContextIsCurrent,
      DisableAfterRuntimeFailure, Fault, EnsureResolveTarget
<1>37. CASE ProduceFrame
  <2>1. UNCHANGED <<lifecycle, stage, held, backend>>
    BY <1>37 DEF ProduceFrame
  <2>2. QED
    BY <2>1, HeldQuiet
<1>38. CASE GpuSignal
  <2>1. UNCHANGED <<lifecycle, stage, held, backend>>
    BY <1>38 DEF GpuSignal
  <2>2. QED
    BY <2>1, HeldQuiet
<1>39. CASE HostCopy
  <2>1. UNCHANGED <<lifecycle, stage, held, backend>>
    BY <1>39 DEF HostCopy
  <2>2. QED
    BY <2>1, HeldQuiet
<1>40. CASE HostAcknowledge
  <2>1. UNCHANGED <<lifecycle, stage, held, backend>>
    BY <1>40 DEF HostAcknowledge
  <2>2. QED
    BY <2>1, HeldQuiet
<1>41. CASE RemoveDevice
  <2>1. UNCHANGED <<lifecycle, stage, held, backend>>
    BY <1>41 DEF RemoveDevice
  <2>2. QED
    BY <2>1, HeldQuiet
<1>42. QED
  BY <1>1, <1>2, <1>3, <1>4, <1>5, <1>6, <1>7, <1>8, <1>9, <1>10, <1>11, <1>12, <1>13, <1>14,
      <1>15, <1>16, <1>17, <1>18, <1>19, <1>20, <1>21, <1>22, <1>23, <1>24, <1>25, <1>26, <1>27,
      <1>28, <1>29, <1>30, <1>31, <1>32, <1>33, <1>34, <1>35, <1>36, <1>37, <1>38, <1>39, <1>40,
      <1>41 DEF MonoNext, Starting, Recover, Produce

\* The steps keep the types of the names.
LEMMA NameTypeStep ==
    ASSUME MonoInv, MonoNext
    PROVE  NameTypes'
<1> USE DEF MonoInv, MonoTypes, NameTypes, game, start, rec, glNames, books, pixels, host
<1>1. CASE LoadGlFunctions
  BY <1>1 DEF LoadGlFunctions, Step
<1>2. CASE QueryGlAdapterLuid
  BY <1>2 DEF QueryGlAdapterLuid, Step
<1>3. CASE CreateDeviceForGlAdapter
  BY <1>3 DEF CreateDeviceForGlAdapter, Step
<1>4. CASE CheckNamedStreams
  BY <1>4 DEF CheckNamedStreams, Step
<1>5. CASE CreateColors
  BY <1>5 DEF CreateColors, Step
<1>6. CASE CreateFences
  BY <1>6 DEF CreateFences, Step
<1>7. CASE CreateSharedHandles
  BY <1>7 DEF CreateSharedHandles, Step
<1>8. CASE ImportMemories
  BY <1>8 DEF ImportMemories, Step
<1>9. CASE ImportTextures
  BY <1>9 DEF ImportTextures, Step
<1>10. CASE ImportSemaphores
  BY <1>10 DEF ImportSemaphores, Step
<1>11. CASE ResolveInteropFunctions
  BY <1>11 DEF ResolveInteropFunctions, Step
<1>12. CASE SelectNvidiaAdapter
  BY <1>12 DEF SelectNvidiaAdapter, Step
<1>13. CASE OpenInteropDevice
  BY <1>13 DEF OpenInteropDevice, Step
<1>14. CASE CheckTextureFormat
  BY <1>14 DEF CheckTextureFormat, Step
<1>15. CASE CreateAttempt
  BY <1>15 DEF CreateAttempt, Step
<1>16. CASE RegisterDirectly
  BY <1>16 DEF RegisterDirectly, Step
<1>17. CASE RegisterAgain
  BY <1>17 DEF RegisterAgain, Step
<1>18. CASE CreateFallbackFences
  BY <1>18 DEF CreateFallbackFences, Step
<1>19. CASE CreateOutputFramebuffer
  BY <1>19 DEF CreateOutputFramebuffer, Step
<1>20. CASE StartGpuStreamProducer
  BY <1>20 DEF StartGpuStreamProducer
<1>21. CASE SelectPrimary
  <2>1. names' \in 0 .. MaxContexts /\ bridgeOwner' \in Handles \cup {NoHandle}
    BY <1>21, CurrentContext DEF SelectPrimary, LifecycleAdvances
  <2>2. QED
    BY <1>21, <2>1 DEF SelectPrimary
<1>22. CASE ShutdownPrimary
  BY <1>22 DEF ShutdownPrimary, ShutdownExt
<1>23. CASE SelectFallback
  <2>1. names' \in 0 .. MaxContexts /\ bridgeOwner' \in Handles \cup {NoHandle}
    BY <1>23, CurrentContext DEF SelectFallback, LifecycleAdvances
  <2>2. QED
    BY <1>23, <2>1 DEF SelectFallback
<1>24. CASE StartSucceeds
  <2>1. fbo' \in 0 .. MaxContexts /\ owner' \in Handles \cup {NoHandle}
    BY <1>24, CurrentContext DEF StartSucceeds, LifecycleAdvances
  <2>2. QED
    BY <1>24, <2>1 DEF StartSucceeds
<1>25. CASE FailStart
  BY <1>25, CurrentContext DEF FailStart
<1>26. CASE CreateContext
  BY <1>26 DEF CreateContext, Quiet
<1>27. CASE MakeCurrent
  BY <1>27 DEF MakeCurrent, Quiet
<1>28. CASE DeleteContext
  BY <1>28, CurrentContext DEF DeleteContext, NotifyGpuStreamContextDeleted, ForgetNames
<1>29. CASE RecoverNotReady
  BY <1>29 DEF RecoverNotReady, Recovering, Eligible, BeginAttempt, OwningGlContextIsCurrent,
      Rebind, RetainedSignals, RecreateFramebuffer, Fault
<1>30. CASE RecoverImportFails
  BY <1>30, CurrentContext DEF RecoverImportFails, Rebind
<1>31. CASE RecoverGpuStreamContext
  <2>1. current \in 0 .. MaxContexts /\ handle[current] \in Handles
    BY <1>31, CurrentContext DEF RecoverGpuStreamContext, Recovering, Eligible
  <2>2. fbo' \in 0 .. MaxContexts
    BY <1>31, <2>1 DEF RecoverGpuStreamContext, RecreateFramebuffer
  <2>3. QED
    BY <1>31, <2>1, <2>2 DEF RecoverGpuStreamContext, Rebind
<1>32. CASE RetryDue
  BY <1>32 DEF RetryDue
<1>33. CASE ProduceStops
  BY <1>33 DEF ProduceStops, Producing, MayProduce, OwningGlContextIsCurrent,
      DisableAfterRuntimeFailure, Fault
<1>34. CASE ProduceWaitFails
  BY <1>34 DEF ProduceWaitFails, Producing, MayProduce, OwningGlContextIsCurrent,
      DisableAfterRuntimeFailure, Fault
<1>35. CASE ProduceBlitFails
  <2>1. resolve' \in 0 .. MaxContexts
    BY <1>35, CurrentContext DEF ProduceBlitFails
  <2>2. QED
    BY <1>35, <2>1 DEF ProduceBlitFails
<1>36. CASE ProduceSignalFails
  <2>1. resolve' \in 0 .. MaxContexts
    BY <1>36, CurrentContext DEF ProduceSignalFails, EnsureResolveTarget
  <2>2. QED
    BY <1>36, <2>1 DEF ProduceSignalFails
<1>37. CASE ProduceFrame
  <2>1. resolve' \in 0 .. MaxContexts
    BY <1>37, CurrentContext DEF ProduceFrame, EnsureResolveTarget
  <2>2. QED
    BY <1>37, <2>1 DEF ProduceFrame
<1>38. CASE GpuSignal
  BY <1>38 DEF GpuSignal
<1>39. CASE HostCopy
  BY <1>39 DEF HostCopy
<1>40. CASE HostAcknowledge
  BY <1>40 DEF HostAcknowledge
<1>41. CASE RemoveDevice
  BY <1>41 DEF RemoveDevice, Fault
<1>42. QED
  BY <1>1, <1>2, <1>3, <1>4, <1>5, <1>6, <1>7, <1>8, <1>9, <1>10, <1>11, <1>12, <1>13, <1>14,
      <1>15, <1>16, <1>17, <1>18, <1>19, <1>20, <1>21, <1>22, <1>23, <1>24, <1>25, <1>26, <1>27,
      <1>28, <1>29, <1>30, <1>31, <1>32, <1>33, <1>34, <1>35, <1>36, <1>37, <1>38, <1>39, <1>40,
      <1>41 DEF MonoNext, Starting, Recover, Produce

\* Nothing is owned before the run.
LEMMA NothingStep ==
    ASSUME MonoInv, MonoNext
    PROVE  NothingBeforeTheRun'
<1> USE DEF MonoInv, MonoTypes, LifecycleAdvances, NothingBeforeTheRun, game, start, rec,
      glNames, books, pixels, host
<1>1. CASE LoadGlFunctions
  BY <1>1 DEF LoadGlFunctions, Step
<1>2. CASE QueryGlAdapterLuid
  BY <1>2 DEF QueryGlAdapterLuid, Step
<1>3. CASE CreateDeviceForGlAdapter
  BY <1>3 DEF CreateDeviceForGlAdapter, Step
<1>4. CASE CheckNamedStreams
  BY <1>4 DEF CheckNamedStreams, Step
<1>5. CASE CreateColors
  BY <1>5 DEF CreateColors, Step
<1>6. CASE CreateFences
  BY <1>6 DEF CreateFences, Step
<1>7. CASE CreateSharedHandles
  BY <1>7 DEF CreateSharedHandles, Step
<1>8. CASE ImportMemories
  BY <1>8 DEF ImportMemories, Step
<1>9. CASE ImportTextures
  BY <1>9 DEF ImportTextures, Step
<1>10. CASE ImportSemaphores
  BY <1>10 DEF ImportSemaphores, Step
<1>11. CASE ResolveInteropFunctions
  BY <1>11 DEF ResolveInteropFunctions, Step
<1>12. CASE SelectNvidiaAdapter
  BY <1>12 DEF SelectNvidiaAdapter, Step
<1>13. CASE OpenInteropDevice
  BY <1>13 DEF OpenInteropDevice, Step
<1>14. CASE CheckTextureFormat
  BY <1>14 DEF CheckTextureFormat, Step
<1>15. CASE CreateAttempt
  BY <1>15 DEF CreateAttempt, Step
<1>16. CASE RegisterDirectly
  BY <1>16 DEF RegisterDirectly, Step
<1>17. CASE RegisterAgain
  BY <1>17 DEF RegisterAgain, Step
<1>18. CASE CreateFallbackFences
  BY <1>18 DEF CreateFallbackFences, Step
<1>19. CASE CreateOutputFramebuffer
  BY <1>19 DEF CreateOutputFramebuffer, Step
<1>20. CASE StartGpuStreamProducer
  BY <1>20 DEF StartGpuStreamProducer
<1>21. CASE SelectPrimary
  BY <1>21 DEF SelectPrimary
<1>22. CASE ShutdownPrimary
  BY <1>22 DEF ShutdownPrimary, ShutdownExt
<1>23. CASE SelectFallback
  BY <1>23 DEF SelectFallback
<1>24. CASE StartSucceeds
  <2>1. owner' # NoHandle
    BY <1>24, CurrentContext DEF StartSucceeds
  <2>2. QED
    BY <2>1
<1>25. CASE FailStart
  BY <1>25 DEF FailStart
<1>26. CASE CreateContext
  BY <1>26 DEF CreateContext, Quiet
<1>27. CASE MakeCurrent
  BY <1>27 DEF MakeCurrent, Quiet
<1>28. CASE DeleteContext
  <2>1. PICK c \in alive : NotifyGpuStreamContextDeleted(c)
    BY <1>28 DEF DeleteContext
  <2>2. owner' = owner /\ UNCHANGED <<stage, held, backend, books, queued, names, bridgeOwner>>
    BY <1>28, <2>1 DEF DeleteContext, NotifyGpuStreamContextDeleted
  <2>3. stage = "idle"
    BY <1>28 DEF DeleteContext, Quiet, StartTypes
  <2>4. owner = NoHandle => owner # handle[c]
    BY CurrentContext
  <2>5. owner = NoHandle => ~deleted' /\ ~imported' /\ fbo' = fbo /\ resolve' = resolve
    BY <2>1, <2>4 DEF NotifyGpuStreamContextDeleted, ForgetNames
  <2>6. QED
    BY <2>2, <2>3, <2>5
<1>29. CASE RecoverNotReady
  BY <1>29 DEF RecoverNotReady, Recovering, Eligible, BeginAttempt, OwningGlContextIsCurrent,
      Rebind, RetainedSignals, RecreateFramebuffer, Fault
<1>30. CASE RecoverImportFails
  BY <1>30 DEF RecoverImportFails, Recovering, Eligible, BeginAttempt, OwningGlContextIsCurrent,
      Rebind, RetainedSignals, RecreateFramebuffer, Fault
<1>31. CASE RecoverGpuStreamContext
  <2>1. owner' = owner \/ owner' = handle[current]
    BY <1>31 DEF RecoverGpuStreamContext, Rebind
  <2>2. owner' # NoHandle
    BY <1>31, <2>1, CurrentContext DEF RecoverGpuStreamContext, Recovering, Eligible
  <2>3. QED
    BY <2>2
<1>32. CASE RetryDue
  BY <1>32 DEF RetryDue
<1>33. CASE ProduceStops
  BY <1>33 DEF ProduceStops, Producing, MayProduce, OwningGlContextIsCurrent,
      DisableAfterRuntimeFailure, Fault
<1>34. CASE ProduceWaitFails
  BY <1>34 DEF ProduceWaitFails, Producing, MayProduce, OwningGlContextIsCurrent,
      DisableAfterRuntimeFailure, Fault
<1>35. CASE ProduceBlitFails
  BY <1>35 DEF ProduceBlitFails, Producing, MayProduce, OwningGlContextIsCurrent,
      DisableAfterRuntimeFailure, Fault, AfterUnlock
<1>36. CASE ProduceSignalFails
  BY <1>36 DEF ProduceSignalFails, Producing, MayProduce, OwningGlContextIsCurrent,
      DisableAfterRuntimeFailure, Fault, EnsureResolveTarget
<1>37. CASE ProduceFrame
  BY <1>37 DEF ProduceFrame, Producing, MayProduce, OwningGlContextIsCurrent,
      DisableAfterRuntimeFailure, Fault, EnsureResolveTarget
<1>38. CASE GpuSignal
  BY <1>38 DEF GpuSignal
<1>39. CASE HostCopy
  BY <1>39 DEF HostCopy
<1>40. CASE HostAcknowledge
  BY <1>40 DEF HostAcknowledge
<1>41. CASE RemoveDevice
  BY <1>41 DEF RemoveDevice, Fault
<1>42. QED
  BY <1>1, <1>2, <1>3, <1>4, <1>5, <1>6, <1>7, <1>8, <1>9, <1>10, <1>11, <1>12, <1>13, <1>14,
      <1>15, <1>16, <1>17, <1>18, <1>19, <1>20, <1>21, <1>22, <1>23, <1>24, <1>25, <1>26, <1>27,
      <1>28, <1>29, <1>30, <1>31, <1>32, <1>33, <1>34, <1>35, <1>36, <1>37, <1>38, <1>39, <1>40,
      <1>41 DEF MonoNext, Starting, Recover, Produce

\* The names follow their context.
LEMMA NamesStep ==
    ASSUME MonoInv, MonoNext
    PROVE  NamesFollowContext'
<1> USE DEF MonoInv, MonoTypes, ContextTypes, LifecycleAdvances, NameTypes, HandlesTellContexts,
      NothingBeforeTheRun, NamesFollowContext, BoundTo, game, start, rec, glNames, books, pixels,
      host
<1>1. CASE LoadGlFunctions
  BY <1>1 DEF LoadGlFunctions, Step
<1>2. CASE QueryGlAdapterLuid
  BY <1>2 DEF QueryGlAdapterLuid, Step
<1>3. CASE CreateDeviceForGlAdapter
  BY <1>3 DEF CreateDeviceForGlAdapter, Step
<1>4. CASE CheckNamedStreams
  BY <1>4 DEF CheckNamedStreams, Step
<1>5. CASE CreateColors
  BY <1>5 DEF CreateColors, Step
<1>6. CASE CreateFences
  BY <1>6 DEF CreateFences, Step
<1>7. CASE CreateSharedHandles
  BY <1>7 DEF CreateSharedHandles, Step
<1>8. CASE ImportMemories
  BY <1>8 DEF ImportMemories, Step
<1>9. CASE ImportTextures
  BY <1>9 DEF ImportTextures, Step
<1>10. CASE ImportSemaphores
  BY <1>10 DEF ImportSemaphores, Step
<1>11. CASE ResolveInteropFunctions
  BY <1>11 DEF ResolveInteropFunctions, Step
<1>12. CASE SelectNvidiaAdapter
  BY <1>12 DEF SelectNvidiaAdapter, Step
<1>13. CASE OpenInteropDevice
  BY <1>13 DEF OpenInteropDevice, Step
<1>14. CASE CheckTextureFormat
  BY <1>14 DEF CheckTextureFormat, Step
<1>15. CASE CreateAttempt
  BY <1>15 DEF CreateAttempt, Step
<1>16. CASE RegisterDirectly
  BY <1>16 DEF RegisterDirectly, Step
<1>17. CASE RegisterAgain
  BY <1>17 DEF RegisterAgain, Step
<1>18. CASE CreateFallbackFences
  BY <1>18 DEF CreateFallbackFences, Step
<1>19. CASE CreateOutputFramebuffer
  BY <1>19 DEF CreateOutputFramebuffer, Step
<1>20. CASE StartGpuStreamProducer
  BY <1>20 DEF StartGpuStreamProducer
<1>21. CASE SelectPrimary
  BY <1>21 DEF SelectPrimary
<1>22. CASE ShutdownPrimary
  BY <1>22 DEF ShutdownPrimary, ShutdownExt
<1>23. CASE SelectFallback
  BY <1>23 DEF SelectFallback
<1>24. CASE StartSucceeds
  BY <1>24 DEF StartSucceeds
<1>25. CASE FailStart
  BY <1>25 DEF FailStart
<1>26. CASE CreateContext
  <2>1. \A c \in alive : c \in alive' /\ handle'[c] = handle[c]
    BY <1>26, NewContext
  <2>2. UNCHANGED <<deleted, imported, owner, names, bridgeOwner, fbo, resolve>>
    BY <1>26 DEF CreateContext
  <2>3. QED
    BY <2>1, <2>2
<1>27. CASE MakeCurrent
  BY <1>27 DEF MakeCurrent, Quiet
<1>28. CASE DeleteContext
  BY <1>28 DEF DeleteContext, Quiet, NotifyGpuStreamContextDeleted, ForgetNames
<1>29. CASE RecoverNotReady
  BY <1>29 DEF RecoverNotReady, Recovering, Eligible, BeginAttempt, OwningGlContextIsCurrent,
      Rebind, RetainedSignals, RecreateFramebuffer, Fault
<1>30. CASE RecoverImportFails
  BY <1>30 DEF RecoverImportFails, Recovering, Eligible, BeginAttempt, OwningGlContextIsCurrent,
      Rebind, RetainedSignals, RecreateFramebuffer, Fault
<1>31. CASE RecoverGpuStreamContext
  BY <1>31 DEF RecoverGpuStreamContext, Recovering, Eligible, BeginAttempt,
      OwningGlContextIsCurrent, Rebind, RetainedSignals, RecreateFramebuffer, Fault
<1>32. CASE RetryDue
  BY <1>32 DEF RetryDue
<1>33. CASE ProduceStops
  BY <1>33 DEF ProduceStops, Producing, MayProduce, OwningGlContextIsCurrent,
      DisableAfterRuntimeFailure, Fault
<1>34. CASE ProduceWaitFails
  BY <1>34 DEF ProduceWaitFails, Producing, MayProduce, OwningGlContextIsCurrent,
      DisableAfterRuntimeFailure, Fault
<1>35. CASE ProduceBlitFails
  BY <1>35 DEF ProduceBlitFails, Producing, MayProduce, OwningGlContextIsCurrent,
      DisableAfterRuntimeFailure, Fault, AfterUnlock
<1>36. CASE ProduceSignalFails
  BY <1>36 DEF ProduceSignalFails, Producing, MayProduce, OwningGlContextIsCurrent,
      DisableAfterRuntimeFailure, Fault, EnsureResolveTarget
<1>37. CASE ProduceFrame
  BY <1>37 DEF ProduceFrame, Producing, MayProduce, OwningGlContextIsCurrent,
      DisableAfterRuntimeFailure, Fault, EnsureResolveTarget
<1>38. CASE GpuSignal
  BY <1>38 DEF GpuSignal
<1>39. CASE HostCopy
  BY <1>39 DEF HostCopy
<1>40. CASE HostAcknowledge
  BY <1>40 DEF HostAcknowledge
<1>41. CASE RemoveDevice
  BY <1>41 DEF RemoveDevice, Fault
<1>42. QED
  BY <1>1, <1>2, <1>3, <1>4, <1>5, <1>6, <1>7, <1>8, <1>9, <1>10, <1>11, <1>12, <1>13, <1>14,
      <1>15, <1>16, <1>17, <1>18, <1>19, <1>20, <1>21, <1>22, <1>23, <1>24, <1>25, <1>26, <1>27,
      <1>28, <1>29, <1>30, <1>31, <1>32, <1>33, <1>34, <1>35, <1>36, <1>37, <1>38, <1>39, <1>40,
      <1>41 DEF MonoNext, Starting, Recover, Produce

\* A frame is mapped to a slot of the ring.
LEMMA MonoSlot == \A v \in Nat \ {0} : SlotOf(v) \in Slots
<1> SUFFICES ASSUME NEW v \in Nat \ {0} PROVE SlotOf(v) \in Slots
  OBVIOUS
<1>1. SlotCount \in Nat \ {0} /\ v - 1 \in Nat
  BY SlotAssumption
<1>2. (v - 1) % SlotCount \in 0 .. SlotCount - 1
  BY <1>1
<1>3. ((v - 1) % SlotCount) + 1 \in Slots /\ 1 \in Slots
  BY <1>1, <1>2 DEF Slots
<1>4. QED
  BY <1>3 DEF SlotOf

\* When the producer finds its slot free, the bridge's books say the same, and
\* no frame the host may still copy is in it.
LEMMA SlotIsGivenBack ==
    ASSUME MonoInv, Producing
    PROVE  /\ lifecycle = "running" /\ current # 0 /\ bridgeOwner = handle[current] /\ ~deleted
           /\ Next1 \in Nat \ {0} /\ Next1 \in FenceValues /\ Next1 = lastProduced + 1
           /\ Slot \in Slots /\ queued = lastProduced
           /\ Reacquires => WaitAccepted
           /\ SignalAccepted(Waited)
           /\ \A v \in 1 .. queued : v > consumed => SlotOf(v) # Slot
<1> USE DEF MonoInv, MonoTypes
<1>1. /\ lifecycle = "running" /\ current # 0 /\ bridgeOwner = handle[current] /\ ~deleted
      /\ ~Exhausted /\ SlotFree
  BY DEF Producing, MayProduce, OwningGlContextIsCurrent
<1>2. Next1 \in Nat \ {0} /\ Next1 \in FenceValues /\ Next1 = lastProduced + 1
      /\ lastProduced \in Nat /\ consumed \in Nat /\ lastSignal \in Nat
  BY <1>1, FenceAssumption DEF Exhausted, Next1, BookTypes, PixelTypes, FenceValues
<1>3. Slot \in Slots
  BY <1>2, MonoSlot DEF Slot
<1>4. /\ slotUse[Slot] \in Nat /\ slotSignalled[Slot] \in Nat /\ slotWaited[Slot] \in Nat
      /\ slotUse[Slot] <= lastProduced /\ slotSignalled = slotUse /\ queued = lastProduced
  BY <1>1, <1>3 DEF BookTypes, FenceValues, BooksAgree
<1>5. CASE backend = "ext"
  <2>1. lastSignal = lastProduced /\ \A v \in 1 .. lastProduced : v <= slotUse[SlotOf(v)]
    BY <1>1, <1>5 DEF BooksAgree
  <2>2. slotUse[Slot] = 0 \/ consumed >= slotUse[Slot]
    BY <1>1, <1>5 DEF SlotFree
  <2>3. IF slotUse[Slot] = 0 THEN slotWaited[Slot] = 0 ELSE slotWaited[Slot] < slotUse[Slot]
    BY <1>1, <1>3 DEF BooksAgree
  <2>4. Reacquires => WaitAccepted
    BY <1>4, <2>2, <2>3 DEF Reacquires, WaitAccepted
  <2>5. SignalAccepted(Waited)
    <3>1. CASE slotUse[Slot] = 0
      BY <1>2, <1>4, <2>1, <3>1 DEF SignalAccepted
    <3>2. CASE slotUse[Slot] # 0
      <4>1. Waited = [slotWaited EXCEPT ![Slot] = slotUse[Slot]]
        BY <1>5, <3>2 DEF Waited, Reacquires
      <4>2. Waited[Slot] = slotUse[Slot]
        BY <1>3, <4>1 DEF BookTypes
      <4>3. QED
        BY <1>2, <1>4, <2>1, <4>2 DEF SignalAccepted
    <3>3. QED
      BY <3>1, <3>2
  <2>6. ASSUME NEW v \in 1 .. queued, v > consumed PROVE SlotOf(v) # Slot
    <3>1. v <= slotUse[SlotOf(v)]
      BY <1>4, <2>1
    <3>2. QED
      BY <1>2, <1>4, <2>2, <2>6, <3>1
  <2>7. QED
    BY <1>1, <1>2, <1>3, <1>4, <2>4, <2>5, <2>6
<1>6. CASE backend = "nv"
  <2>1. slotUse = Zeros /\ lastSignal = 0
    BY <1>1, <1>6 DEF BooksAgree
  <2>2. slotUse[Slot] = 0
    BY <1>3, <2>1 DEF Zeros
  <2>3. lastProduced = 0 \/ consumed >= lastProduced
    BY <1>1, <1>6 DEF SlotFree
  <2>4. ~Reacquires /\ SignalAccepted(Waited)
    BY <1>2, <1>4, <2>1, <2>2 DEF Reacquires, SignalAccepted
  <2>5. \A v \in 1 .. queued : ~(v > consumed)
    BY <1>2, <1>4, <2>3
  <2>6. QED
    BY <1>1, <1>2, <1>3, <1>4, <2>4, <2>5
<1>7. QED
  BY <1>1, <1>5, <1>6 DEF LifecycleAdvances, StartTypes

\* What the wait for a slot leaves in the bridge's books.
LEMMA WaitedType ==
    ASSUME MonoInv, Producing
    PROVE  /\ Waited \in [Slots -> FenceValues]
           /\ \A s \in Slots : s # Slot => Waited[s] = slotWaited[s]
           /\ Waited[Slot] <= lastProduced
<1> USE DEF MonoInv, MonoTypes, BookTypes
<1>1. Slot \in Slots /\ lifecycle = "running"
  BY SlotIsGivenBack
<1>2. Waited = slotWaited \/ Waited = [slotWaited EXCEPT ![Slot] = slotUse[Slot]]
  BY DEF Waited
<1>3. Waited \in [Slots -> FenceValues] /\ \A s \in Slots : s # Slot => Waited[s] = slotWaited[s]
  BY <1>1, <1>2
<1>4. slotUse[Slot] <= lastProduced /\ slotUse[Slot] \in Nat /\ slotWaited[Slot] \in Nat
      /\ lastProduced \in Nat
  BY <1>1 DEF BooksAgree, FenceValues
<1>5. slotWaited[Slot] <= lastProduced
  BY <1>1, <1>4 DEF BooksAgree
<1>6. QED
  BY <1>1, <1>2, <1>3, <1>4, <1>5

\* The steps keep the types of the books.
LEMMA BookTypeStep ==
    ASSUME MonoInv, MonoNext
    PROVE  BookTypes'
<1> USE DEF MonoInv, MonoTypes, BookTypes, game, start, rec, glNames, books, pixels, host
<1>1. CASE LoadGlFunctions
  BY <1>1 DEF LoadGlFunctions, Step
<1>2. CASE QueryGlAdapterLuid
  BY <1>2 DEF QueryGlAdapterLuid, Step
<1>3. CASE CreateDeviceForGlAdapter
  BY <1>3 DEF CreateDeviceForGlAdapter, Step
<1>4. CASE CheckNamedStreams
  BY <1>4 DEF CheckNamedStreams, Step
<1>5. CASE CreateColors
  BY <1>5 DEF CreateColors, Step
<1>6. CASE CreateFences
  BY <1>6 DEF CreateFences, Step
<1>7. CASE CreateSharedHandles
  BY <1>7 DEF CreateSharedHandles, Step
<1>8. CASE ImportMemories
  BY <1>8 DEF ImportMemories, Step
<1>9. CASE ImportTextures
  BY <1>9 DEF ImportTextures, Step
<1>10. CASE ImportSemaphores
  BY <1>10 DEF ImportSemaphores, Step
<1>11. CASE ResolveInteropFunctions
  BY <1>11 DEF ResolveInteropFunctions, Step
<1>12. CASE SelectNvidiaAdapter
  BY <1>12 DEF SelectNvidiaAdapter, Step
<1>13. CASE OpenInteropDevice
  BY <1>13 DEF OpenInteropDevice, Step
<1>14. CASE CheckTextureFormat
  BY <1>14 DEF CheckTextureFormat, Step
<1>15. CASE CreateAttempt
  BY <1>15 DEF CreateAttempt, Step
<1>16. CASE RegisterDirectly
  BY <1>16 DEF RegisterDirectly, Step
<1>17. CASE RegisterAgain
  BY <1>17 DEF RegisterAgain, Step
<1>18. CASE CreateFallbackFences
  BY <1>18 DEF CreateFallbackFences, Step
<1>19. CASE CreateOutputFramebuffer
  BY <1>19 DEF CreateOutputFramebuffer, Step
<1>20. CASE StartGpuStreamProducer
  BY <1>20 DEF StartGpuStreamProducer
<1>21. CASE SelectPrimary
  BY <1>21 DEF SelectPrimary
<1>22. CASE ShutdownPrimary
  BY <1>22 DEF ShutdownPrimary, ShutdownExt
<1>23. CASE SelectFallback
  BY <1>23 DEF SelectFallback
<1>24. CASE StartSucceeds
  BY <1>24 DEF StartSucceeds
<1>25. CASE FailStart
  BY <1>25 DEF FailStart
<1>26. CASE CreateContext
  BY <1>26 DEF CreateContext, Quiet
<1>27. CASE MakeCurrent
  BY <1>27 DEF MakeCurrent, Quiet
<1>28. CASE DeleteContext
  BY <1>28 DEF DeleteContext, Quiet, NotifyGpuStreamContextDeleted, ForgetNames
<1>29. CASE RecoverNotReady
  BY <1>29 DEF RecoverNotReady, Recovering, Eligible, BeginAttempt, OwningGlContextIsCurrent,
      Rebind, RetainedSignals, RecreateFramebuffer, Fault
<1>30. CASE RecoverImportFails
  <2>1. slotWaited' \in [Slots -> FenceValues]
    BY <1>30, FenceAssumption DEF RecoverImportFails, Rebind, Zeros, FenceValues
  <2>2. slotSignalled' = slotSignalled
    BY <1>30 DEF RecoverImportFails, Rebind, RetainedSignals
  <2>3. QED
    BY <1>30, <2>1, <2>2 DEF RecoverImportFails
<1>31. CASE RecoverGpuStreamContext
  <2>1. slotWaited' \in [Slots -> FenceValues]
    BY <1>31, FenceAssumption DEF RecoverGpuStreamContext, Rebind, Zeros, FenceValues
  <2>2. slotSignalled' = slotSignalled
    BY <1>31 DEF RecoverGpuStreamContext, Rebind, RetainedSignals
  <2>3. QED
    BY <1>31, <2>1, <2>2 DEF RecoverGpuStreamContext
<1>32. CASE RetryDue
  BY <1>32 DEF RetryDue
<1>33. CASE ProduceStops
  BY <1>33 DEF ProduceStops, Producing, MayProduce, OwningGlContextIsCurrent,
      DisableAfterRuntimeFailure, Fault
<1>34. CASE ProduceWaitFails
  BY <1>34 DEF ProduceWaitFails, Producing, MayProduce, OwningGlContextIsCurrent,
      DisableAfterRuntimeFailure, Fault
<1>35. CASE ProduceBlitFails
  <2>1. slotWaited' = Waited /\ slotWaited' \in [Slots -> FenceValues]
    BY <1>35, WaitedType DEF ProduceBlitFails
  <2>2. QED
    BY <1>35, <2>1 DEF ProduceBlitFails
<1>36. CASE ProduceSignalFails
  <2>1. slotWaited' = Waited /\ slotWaited' \in [Slots -> FenceValues]
    BY <1>36, WaitedType DEF ProduceSignalFails
  <2>2. QED
    BY <1>36, <2>1 DEF ProduceSignalFails
<1>37. CASE ProduceFrame
  <2>1. slotWaited' = Waited /\ slotWaited' \in [Slots -> FenceValues]
    BY <1>37, WaitedType DEF ProduceFrame
  <2>2. Next1 \in FenceValues /\ Slot \in Slots
    BY <1>37, SlotIsGivenBack DEF ProduceFrame
  <2>3. CASE backend = "ext"
    BY <1>37, <2>1, <2>2, <2>3 DEF ProduceFrame
  <2>4. CASE backend # "ext"
    BY <1>37, <2>1, <2>2, <2>4 DEF ProduceFrame
  <2>5. QED
    BY <2>3, <2>4
<1>38. CASE GpuSignal
  BY <1>38 DEF GpuSignal
<1>39. CASE HostCopy
  BY <1>39 DEF HostCopy
<1>40. CASE HostAcknowledge
  BY <1>40 DEF HostAcknowledge
<1>41. CASE RemoveDevice
  BY <1>41 DEF RemoveDevice, Fault
<1>42. QED
  BY <1>1, <1>2, <1>3, <1>4, <1>5, <1>6, <1>7, <1>8, <1>9, <1>10, <1>11, <1>12, <1>13, <1>14,
      <1>15, <1>16, <1>17, <1>18, <1>19, <1>20, <1>21, <1>22, <1>23, <1>24, <1>25, <1>26, <1>27,
      <1>28, <1>29, <1>30, <1>31, <1>32, <1>33, <1>34, <1>35, <1>36, <1>37, <1>38, <1>39, <1>40,
      <1>41 DEF MonoNext, Starting, Recover, Produce

\* The steps keep the types of the frames and of the host.
LEMMA PixelTypeStep ==
    ASSUME MonoInv, MonoNext
    PROVE  PixelTypes'
<1> USE DEF MonoInv, MonoTypes, PixelTypes, game, start, rec, glNames, books, pixels, host
<1>1. CASE LoadGlFunctions
  BY <1>1 DEF LoadGlFunctions, Step
<1>2. CASE QueryGlAdapterLuid
  BY <1>2 DEF QueryGlAdapterLuid, Step
<1>3. CASE CreateDeviceForGlAdapter
  BY <1>3 DEF CreateDeviceForGlAdapter, Step
<1>4. CASE CheckNamedStreams
  BY <1>4 DEF CheckNamedStreams, Step
<1>5. CASE CreateColors
  BY <1>5 DEF CreateColors, Step
<1>6. CASE CreateFences
  BY <1>6 DEF CreateFences, Step
<1>7. CASE CreateSharedHandles
  BY <1>7 DEF CreateSharedHandles, Step
<1>8. CASE ImportMemories
  BY <1>8 DEF ImportMemories, Step
<1>9. CASE ImportTextures
  BY <1>9 DEF ImportTextures, Step
<1>10. CASE ImportSemaphores
  BY <1>10 DEF ImportSemaphores, Step
<1>11. CASE ResolveInteropFunctions
  BY <1>11 DEF ResolveInteropFunctions, Step
<1>12. CASE SelectNvidiaAdapter
  BY <1>12 DEF SelectNvidiaAdapter, Step
<1>13. CASE OpenInteropDevice
  BY <1>13 DEF OpenInteropDevice, Step
<1>14. CASE CheckTextureFormat
  BY <1>14 DEF CheckTextureFormat, Step
<1>15. CASE CreateAttempt
  BY <1>15 DEF CreateAttempt, Step
<1>16. CASE RegisterDirectly
  BY <1>16 DEF RegisterDirectly, Step
<1>17. CASE RegisterAgain
  BY <1>17 DEF RegisterAgain, Step
<1>18. CASE CreateFallbackFences
  BY <1>18 DEF CreateFallbackFences, Step
<1>19. CASE CreateOutputFramebuffer
  BY <1>19 DEF CreateOutputFramebuffer, Step
<1>20. CASE StartGpuStreamProducer
  BY <1>20 DEF StartGpuStreamProducer
<1>21. CASE SelectPrimary
  BY <1>21 DEF SelectPrimary
<1>22. CASE ShutdownPrimary
  BY <1>22 DEF ShutdownPrimary, ShutdownExt
<1>23. CASE SelectFallback
  BY <1>23 DEF SelectFallback
<1>24. CASE StartSucceeds
  BY <1>24 DEF StartSucceeds
<1>25. CASE FailStart
  BY <1>25 DEF FailStart
<1>26. CASE CreateContext
  BY <1>26 DEF CreateContext, Quiet
<1>27. CASE MakeCurrent
  BY <1>27 DEF MakeCurrent, Quiet
<1>28. CASE DeleteContext
  BY <1>28 DEF DeleteContext, Quiet, NotifyGpuStreamContextDeleted, ForgetNames
<1>29. CASE RecoverNotReady
  <2>1. backend \in {"ext", "nv"}
    BY <1>29 DEF RecoverNotReady, Recovering, LifecycleAdvances, StartTypes
  <2>2. faults' \in 0 .. MaxFaults
    BY <1>29, <2>1, BoundsAssumption DEF RecoverNotReady, Fault
  <2>3. QED
    BY <1>29, <2>2 DEF RecoverNotReady
<1>30. CASE RecoverImportFails
  <2>1. faults' \in 0 .. MaxFaults
    BY <1>30, BoundsAssumption DEF RecoverImportFails, Fault
  <2>2. QED
    BY <1>30, <2>1 DEF RecoverImportFails
<1>31. CASE RecoverGpuStreamContext
  <2>1. faults' \in 0 .. MaxFaults
    BY <1>31, BoundsAssumption DEF RecoverGpuStreamContext, Fault
  <2>2. QED
    BY <1>31, <2>1 DEF RecoverGpuStreamContext
<1>32. CASE RetryDue
  BY <1>32 DEF RetryDue
<1>33. CASE ProduceStops
  BY <1>33 DEF ProduceStops, Producing, MayProduce, OwningGlContextIsCurrent,
      DisableAfterRuntimeFailure, Fault
<1>34. CASE ProduceWaitFails
  <2>1. faults' \in 0 .. MaxFaults
    BY <1>34, BoundsAssumption DEF ProduceWaitFails, Fault
  <2>2. QED
    BY <1>34, <2>1 DEF ProduceWaitFails
<1>35. CASE ProduceBlitFails
  <2>1. Slot \in Slots /\ 0 \in FenceValues
    BY <1>35, SlotIsGivenBack, FenceAssumption DEF ProduceBlitFails, FenceValues
  <2>2. content' \in [Slots -> FenceValues] /\ locked' \in BOOLEAN
    BY <1>35, <2>1 DEF ProduceBlitFails, AfterUnlock
  <2>3. faults' \in 0 .. MaxFaults
    BY <1>35, BoundsAssumption DEF ProduceBlitFails, Fault
  <2>4. QED
    BY <1>35, <2>2, <2>3 DEF ProduceBlitFails
<1>36. CASE ProduceSignalFails
  <2>1. Slot \in Slots /\ Next1 \in FenceValues /\ Next1 = queued + 1
    BY <1>36, SlotIsGivenBack DEF ProduceSignalFails
  <2>2. content' \in [Slots -> FenceValues]
    BY <1>36, <2>1 DEF ProduceSignalFails
  <2>3. faults' \in 0 .. MaxFaults
    BY <1>36, BoundsAssumption DEF ProduceSignalFails, Fault
  <2>4. queued' \in {queued, Next1}
    BY <1>36 DEF ProduceSignalFails
  <2>5. queued' \in FenceValues /\ ready \in 0 .. queued'
    BY <2>1, <2>4 DEF FenceValues
  <2>6. QED
    BY <1>36, <2>2, <2>3, <2>5 DEF ProduceSignalFails
<1>37. CASE ProduceFrame
  <2>1. Slot \in Slots /\ Next1 \in FenceValues /\ Next1 = queued + 1
    BY <1>37, SlotIsGivenBack DEF ProduceFrame
  <2>2. content' \in [Slots -> FenceValues]
    BY <1>37, <2>1 DEF ProduceFrame
  <2>3. queued' = Next1 /\ queued' \in FenceValues /\ ready \in 0 .. queued'
    BY <1>37, <2>1 DEF ProduceFrame, FenceValues
  <2>4. QED
    BY <1>37, <2>2, <2>3 DEF ProduceFrame
<1>38. CASE GpuSignal
  BY <1>38 DEF GpuSignal, FenceValues
<1>39. CASE HostCopy
  BY <1>39 DEF HostCopy, FenceValues
<1>40. CASE HostAcknowledge
  BY <1>40 DEF HostAcknowledge, FenceValues
<1>41. CASE RemoveDevice
  <2>1. faults' \in 0 .. MaxFaults
    BY <1>41, BoundsAssumption DEF RemoveDevice, Fault
  <2>2. QED
    BY <1>41, <2>1 DEF RemoveDevice
<1>42. QED
  BY <1>1, <1>2, <1>3, <1>4, <1>5, <1>6, <1>7, <1>8, <1>9, <1>10, <1>11, <1>12, <1>13, <1>14,
      <1>15, <1>16, <1>17, <1>18, <1>19, <1>20, <1>21, <1>22, <1>23, <1>24, <1>25, <1>26, <1>27,
      <1>28, <1>29, <1>30, <1>31, <1>32, <1>33, <1>34, <1>35, <1>36, <1>37, <1>38, <1>39, <1>40,
      <1>41 DEF MonoNext, Starting, Recover, Produce

\* While both sides' books stand still they agree.
LEMMA BooksQuiet ==
    ASSUME BooksAgree, UNCHANGED <<lifecycle, backend, books, queued>>
    PROVE  BooksAgree'
<1>1. /\ UNCHANGED <<lifecycle, backend, queued, lastProduced, slotUse, lastSignal, slotSignalled>>
      /\ UNCHANGED slotWaited /\ \A v : SlotOf(v)' = SlotOf(v)
  BY DEF books, SlotOf
<1>2. QED
  BY <1>1 DEF BooksAgree, Zeros, Slots

\* The books agree.
LEMMA BooksStep ==
    ASSUME MonoInv, MonoNext
    PROVE  BooksAgree'
<1> USE DEF MonoInv, MonoTypes, BooksAgree, LifecycleAdvances, game, start, rec, glNames, books,
      pixels, host
<1>1. CASE LoadGlFunctions
  BY <1>1 DEF LoadGlFunctions, Step
<1>2. CASE QueryGlAdapterLuid
  BY <1>2 DEF QueryGlAdapterLuid, Step
<1>3. CASE CreateDeviceForGlAdapter
  BY <1>3 DEF CreateDeviceForGlAdapter, Step
<1>4. CASE CheckNamedStreams
  BY <1>4 DEF CheckNamedStreams, Step
<1>5. CASE CreateColors
  BY <1>5 DEF CreateColors, Step
<1>6. CASE CreateFences
  BY <1>6 DEF CreateFences, Step
<1>7. CASE CreateSharedHandles
  BY <1>7 DEF CreateSharedHandles, Step
<1>8. CASE ImportMemories
  BY <1>8 DEF ImportMemories, Step
<1>9. CASE ImportTextures
  BY <1>9 DEF ImportTextures, Step
<1>10. CASE ImportSemaphores
  BY <1>10 DEF ImportSemaphores, Step
<1>11. CASE ResolveInteropFunctions
  BY <1>11 DEF ResolveInteropFunctions, Step
<1>12. CASE SelectNvidiaAdapter
  BY <1>12 DEF SelectNvidiaAdapter, Step
<1>13. CASE OpenInteropDevice
  BY <1>13 DEF OpenInteropDevice, Step
<1>14. CASE CheckTextureFormat
  BY <1>14 DEF CheckTextureFormat, Step
<1>15. CASE CreateAttempt
  BY <1>15 DEF CreateAttempt, Step
<1>16. CASE RegisterDirectly
  BY <1>16 DEF RegisterDirectly, Step
<1>17. CASE RegisterAgain
  BY <1>17 DEF RegisterAgain, Step
<1>18. CASE CreateFallbackFences
  BY <1>18 DEF CreateFallbackFences, Step
<1>19. CASE CreateOutputFramebuffer
  BY <1>19 DEF CreateOutputFramebuffer, Step
<1>20. CASE StartGpuStreamProducer
  BY <1>20 DEF StartGpuStreamProducer
<1>21. CASE SelectPrimary
  BY <1>21 DEF SelectPrimary
<1>22. CASE ShutdownPrimary
  BY <1>22 DEF ShutdownPrimary, ShutdownExt
<1>23. CASE SelectFallback
  BY <1>23 DEF SelectFallback
<1>24. CASE StartSucceeds
  <2>1. UNCHANGED <<books, queued>> /\ owner = NoHandle
    BY <1>24 DEF StartSucceeds
  <2>2. /\ lastProduced = 0 /\ slotUse = Zeros /\ lastSignal = 0 /\ slotSignalled = Zeros
        /\ slotWaited = Zeros /\ queued = 0
    BY <2>1 DEF NothingBeforeTheRun
  <2>3. \A s \in Slots : slotUse[s] = 0 /\ slotWaited[s] = 0
    BY <2>2 DEF Zeros
  <2>4. QED
    BY <2>1, <2>2, <2>3
<1>25. CASE FailStart
  BY <1>25 DEF FailStart
<1>26. CASE CreateContext
  <2>1. UNCHANGED <<lifecycle, backend, books, queued>>
    BY <1>26 DEF CreateContext
  <2>2. QED
    BY <2>1, BooksQuiet
<1>27. CASE MakeCurrent
  <2>1. UNCHANGED <<lifecycle, backend, books, queued>>
    BY <1>27 DEF MakeCurrent
  <2>2. QED
    BY <2>1, BooksQuiet
<1>28. CASE DeleteContext
  <2>1. UNCHANGED <<lifecycle, backend, books, queued>>
    BY <1>28 DEF DeleteContext
  <2>2. QED
    BY <2>1, BooksQuiet
<1>29. CASE RecoverNotReady
  <2>1. UNCHANGED <<lifecycle, backend, books, queued>>
    BY <1>29 DEF RecoverNotReady
  <2>2. QED
    BY <2>1, BooksQuiet
<1>30. CASE RecoverImportFails
  <2>1. UNCHANGED <<queued, lastProduced, slotUse, lastSignal, slotSignalled, backend>>
        /\ slotWaited' = Zeros
    BY <1>30 DEF RecoverImportFails, Rebind, RetainedSignals
  <2>2. \A s \in Slots : slotUse[s] \in Nat /\ slotWaited'[s] = 0
    BY <2>1 DEF Zeros, BookTypes, FenceValues
  <2>3. \A v : SlotOf(v)' = SlotOf(v)
    BY <2>1 DEF SlotOf
  <2>4. lifecycle' = lifecycle
    BY <1>30 DEF RecoverImportFails
  <2>5. QED
    BY <2>1, <2>2, <2>3, <2>4
<1>31. CASE RecoverGpuStreamContext
  <2>1. UNCHANGED <<queued, lastProduced, slotUse, lastSignal, slotSignalled, backend>>
        /\ (slotWaited' = Zeros \/ slotWaited' = slotWaited)
    BY <1>31 DEF RecoverGpuStreamContext, Rebind, RetainedSignals
  <2>2. \A s \in Slots : slotUse[s] \in Nat /\ (slotWaited'[s] = 0 \/ slotWaited'[s] = slotWaited[s])
    BY <2>1 DEF Zeros, BookTypes, FenceValues
  <2>3. \A v : SlotOf(v)' = SlotOf(v)
    BY <2>1 DEF SlotOf
  <2>4. lifecycle' = lifecycle
    BY <1>31 DEF RecoverGpuStreamContext
  <2>5. QED
    BY <2>1, <2>2, <2>3, <2>4
<1>32. CASE RetryDue
  <2>1. UNCHANGED <<lifecycle, backend, books, queued>>
    BY <1>32 DEF RetryDue
  <2>2. QED
    BY <2>1, BooksQuiet
<1>33. CASE ProduceStops
  <2>1. lifecycle' = "failed"
    BY <1>33 DEF ProduceStops, DisableAfterRuntimeFailure
  <2>2. QED
    BY <2>1
<1>34. CASE ProduceWaitFails
  <2>1. lifecycle' = "failed"
    BY <1>34 DEF ProduceWaitFails, DisableAfterRuntimeFailure
  <2>2. QED
    BY <2>1
<1>35. CASE ProduceBlitFails
  <2>1. lifecycle' = "failed"
    BY <1>35 DEF ProduceBlitFails, DisableAfterRuntimeFailure
  <2>2. QED
    BY <2>1
<1>36. CASE ProduceSignalFails
  <2>1. lifecycle' = "failed"
    BY <1>36 DEF ProduceSignalFails, DisableAfterRuntimeFailure
  <2>2. QED
    BY <2>1
<1>37. CASE ProduceFrame
  <2>1. /\ Next1 = lastProduced + 1 /\ Slot \in Slots /\ Next1 \in Nat \ {0}
        /\ slotSignalled = slotUse /\ lastProduced \in Nat /\ lifecycle = "running"
        /\ slotUse \in [Slots -> FenceValues]
    BY <1>37, SlotIsGivenBack DEF ProduceFrame, BookTypes, FenceValues
  <2>2. queued' = Next1 /\ lastProduced' = Next1 /\ slotWaited' = Waited /\ UNCHANGED backend
    BY <1>37 DEF ProduceFrame
  <2>3. \A v : SlotOf(v)' = SlotOf(v)
    BY <2>2 DEF SlotOf
  <2>4. CASE backend = "ext"
    <3>1. slotUse' = [slotUse EXCEPT ![Slot] = Next1] /\ slotSignalled' = slotUse' /\ lastSignal' = Next1
      BY <1>37, <2>1, <2>4 DEF ProduceFrame
    <3>2. \A s \in Slots : slotUse'[s] = (IF s = Slot THEN Next1 ELSE slotUse[s])
      BY <2>1, <3>1
    <3>3. \A s \in Slots : slotUse[s] \in Nat /\ slotUse[s] <= lastProduced
      BY <2>1 DEF FenceValues
    <3>4. \A v \in 1 .. Next1 : v <= slotUse'[SlotOf(v)]
      <4>1. SUFFICES ASSUME NEW v \in 1 .. Next1 PROVE v <= slotUse'[SlotOf(v)]
        OBVIOUS
      <4>2. SlotOf(v) \in Slots
        BY <2>1, MonoSlot
      <4>3. CASE SlotOf(v) = Slot
        BY <2>1, <3>2, <4>3
      <4>4. CASE SlotOf(v) # Slot
        <5>1. v # Next1
          BY <4>4 DEF Slot
        <5>2. v \in 1 .. lastProduced
          BY <2>1, <5>1
        <5>3. QED
          BY <2>1, <2>4, <3>2, <4>2, <4>4, <5>2
      <4>5. QED
        BY <4>3, <4>4
    <3>5. ASSUME NEW s \in Slots
          PROVE  /\ slotUse'[s] <= Next1
                 /\ IF slotUse'[s] = 0 THEN slotWaited'[s] = 0 ELSE slotWaited'[s] < slotUse'[s]
      <4>1. CASE s = Slot
        <5>1. slotUse'[s] = Next1 /\ Waited[Slot] <= lastProduced /\ Waited[Slot] \in Nat
          BY <1>37, <2>1, <3>2, <4>1, WaitedType DEF ProduceFrame, FenceValues
        <5>2. QED
          BY <2>1, <2>2, <4>1, <5>1
      <4>2. CASE s # Slot
        <5>1. slotUse'[s] = slotUse[s] /\ slotWaited'[s] = slotWaited[s]
          BY <1>37, <2>2, <3>2, <4>2, WaitedType DEF ProduceFrame
        <5>2. QED
          BY <2>1, <3>3, <5>1
      <4>3. QED
        BY <4>1, <4>2
    <3>6. QED
      BY <2>2, <2>3, <2>4, <3>1, <3>4, <3>5
  <2>5. CASE backend # "ext"
    <3>1. UNCHANGED <<slotUse, lastSignal, slotSignalled>> /\ backend = "nv"
      BY <1>37, <2>1, <2>5 DEF ProduceFrame, StartTypes
    <3>2. Waited = slotWaited
      BY <2>5 DEF Waited, Reacquires
    <3>3. \A s \in Slots : slotUse[s] \in Nat /\ slotUse[s] <= lastProduced
      BY <2>1 DEF FenceValues
    <3>4. QED
      BY <2>1, <2>2, <3>1, <3>2, <3>3
  <2>6. QED
    BY <2>4, <2>5
<1>38. CASE GpuSignal
  <2>1. UNCHANGED <<lifecycle, backend, books, queued>>
    BY <1>38 DEF GpuSignal
  <2>2. QED
    BY <2>1, BooksQuiet
<1>39. CASE HostCopy
  <2>1. UNCHANGED <<lifecycle, backend, books, queued>>
    BY <1>39 DEF HostCopy
  <2>2. QED
    BY <2>1, BooksQuiet
<1>40. CASE HostAcknowledge
  <2>1. UNCHANGED <<lifecycle, backend, books, queued>>
    BY <1>40 DEF HostAcknowledge
  <2>2. QED
    BY <2>1, BooksQuiet
<1>41. CASE RemoveDevice
  <2>1. UNCHANGED <<lifecycle, backend, books, queued>>
    BY <1>41 DEF RemoveDevice
  <2>2. QED
    BY <2>1, BooksQuiet
<1>42. QED
  BY <1>1, <1>2, <1>3, <1>4, <1>5, <1>6, <1>7, <1>8, <1>9, <1>10, <1>11, <1>12, <1>13, <1>14,
      <1>15, <1>16, <1>17, <1>18, <1>19, <1>20, <1>21, <1>22, <1>23, <1>24, <1>25, <1>26, <1>27,
      <1>28, <1>29, <1>30, <1>31, <1>32, <1>33, <1>34, <1>35, <1>36, <1>37, <1>38, <1>39, <1>40,
      <1>41 DEF MonoNext, Starting, Recover, Produce

\* While the frames and the host stand still, what may be copied stays whole.
LEMMA PendingQuiet ==
    ASSUME PendingAreWhole, UNCHANGED <<queued, consumed, copying, content>>,
           backend' = backend \/ queued = 0
    PROVE  PendingAreWhole'
<1>1. CASE backend' = backend
  <2>1. \A v : SlotOf(v)' = SlotOf(v)
    BY <1>1 DEF SlotOf
  <2>2. QED
    BY <2>1 DEF PendingAreWhole
<1>2. CASE queued = 0
  BY <1>2 DEF PendingAreWhole
<1>3. QED
  BY <1>1, <1>2

\* What the host may copy is whole.
LEMMA PendingStep ==
    ASSUME MonoInv, MonoNext
    PROVE  PendingAreWhole'
<1> USE DEF MonoInv, MonoTypes, PixelTypes, PendingAreWhole, game, start, rec, glNames, books,
      pixels, host
<1>1. CASE LoadGlFunctions
  <2>1. UNCHANGED <<queued, consumed, copying, content>> /\ backend' = backend
    BY <1>1 DEF LoadGlFunctions, Step, FenceValues
  <2>2. QED
    BY <2>1, PendingQuiet
<1>2. CASE QueryGlAdapterLuid
  <2>1. UNCHANGED <<queued, consumed, copying, content>> /\ backend' = backend
    BY <1>2 DEF QueryGlAdapterLuid, Step, FenceValues
  <2>2. QED
    BY <2>1, PendingQuiet
<1>3. CASE CreateDeviceForGlAdapter
  <2>1. UNCHANGED <<queued, consumed, copying, content>> /\ backend' = backend
    BY <1>3 DEF CreateDeviceForGlAdapter, Step, FenceValues
  <2>2. QED
    BY <2>1, PendingQuiet
<1>4. CASE CheckNamedStreams
  <2>1. UNCHANGED <<queued, consumed, copying, content>> /\ backend' = backend
    BY <1>4 DEF CheckNamedStreams, Step, FenceValues
  <2>2. QED
    BY <2>1, PendingQuiet
<1>5. CASE CreateColors
  <2>1. UNCHANGED <<queued, consumed, copying, content>> /\ backend' = backend
    BY <1>5 DEF CreateColors, Step, FenceValues
  <2>2. QED
    BY <2>1, PendingQuiet
<1>6. CASE CreateFences
  <2>1. UNCHANGED <<queued, consumed, copying, content>> /\ backend' = backend
    BY <1>6 DEF CreateFences, Step, FenceValues
  <2>2. QED
    BY <2>1, PendingQuiet
<1>7. CASE CreateSharedHandles
  <2>1. UNCHANGED <<queued, consumed, copying, content>> /\ backend' = backend
    BY <1>7 DEF CreateSharedHandles, Step, FenceValues
  <2>2. QED
    BY <2>1, PendingQuiet
<1>8. CASE ImportMemories
  <2>1. UNCHANGED <<queued, consumed, copying, content>> /\ backend' = backend
    BY <1>8 DEF ImportMemories, Step, FenceValues
  <2>2. QED
    BY <2>1, PendingQuiet
<1>9. CASE ImportTextures
  <2>1. UNCHANGED <<queued, consumed, copying, content>> /\ backend' = backend
    BY <1>9 DEF ImportTextures, Step, FenceValues
  <2>2. QED
    BY <2>1, PendingQuiet
<1>10. CASE ImportSemaphores
  <2>1. UNCHANGED <<queued, consumed, copying, content>> /\ backend' = backend
    BY <1>10 DEF ImportSemaphores, Step, FenceValues
  <2>2. QED
    BY <2>1, PendingQuiet
<1>11. CASE ResolveInteropFunctions
  <2>1. UNCHANGED <<queued, consumed, copying, content>> /\ backend' = backend
    BY <1>11 DEF ResolveInteropFunctions, Step, FenceValues
  <2>2. QED
    BY <2>1, PendingQuiet
<1>12. CASE SelectNvidiaAdapter
  <2>1. UNCHANGED <<queued, consumed, copying, content>> /\ backend' = backend
    BY <1>12 DEF SelectNvidiaAdapter, Step, FenceValues
  <2>2. QED
    BY <2>1, PendingQuiet
<1>13. CASE OpenInteropDevice
  <2>1. UNCHANGED <<queued, consumed, copying, content>> /\ backend' = backend
    BY <1>13 DEF OpenInteropDevice, Step, FenceValues
  <2>2. QED
    BY <2>1, PendingQuiet
<1>14. CASE CheckTextureFormat
  <2>1. UNCHANGED <<queued, consumed, copying, content>> /\ backend' = backend
    BY <1>14 DEF CheckTextureFormat, Step, FenceValues
  <2>2. QED
    BY <2>1, PendingQuiet
<1>15. CASE CreateAttempt
  <2>1. UNCHANGED <<queued, consumed, copying, content>> /\ backend' = backend
    BY <1>15 DEF CreateAttempt, Step, FenceValues
  <2>2. QED
    BY <2>1, PendingQuiet
<1>16. CASE RegisterDirectly
  <2>1. UNCHANGED <<queued, consumed, copying, content>> /\ backend' = backend
    BY <1>16 DEF RegisterDirectly, Step, FenceValues
  <2>2. QED
    BY <2>1, PendingQuiet
<1>17. CASE RegisterAgain
  <2>1. UNCHANGED <<queued, consumed, copying, content>> /\ backend' = backend
    BY <1>17 DEF RegisterAgain, Step, FenceValues
  <2>2. QED
    BY <2>1, PendingQuiet
<1>18. CASE CreateFallbackFences
  <2>1. UNCHANGED <<queued, consumed, copying, content>> /\ backend' = backend
    BY <1>18 DEF CreateFallbackFences, Step, FenceValues
  <2>2. QED
    BY <2>1, PendingQuiet
<1>19. CASE CreateOutputFramebuffer
  <2>1. UNCHANGED <<queued, consumed, copying, content>> /\ backend' = backend
    BY <1>19 DEF CreateOutputFramebuffer, Step, FenceValues
  <2>2. QED
    BY <2>1, PendingQuiet
<1>20. CASE StartGpuStreamProducer
  <2>1. UNCHANGED <<queued, consumed, copying, content>> /\ backend' = backend
    BY <1>20 DEF StartGpuStreamProducer, FenceValues
  <2>2. QED
    BY <2>1, PendingQuiet
<1>21. CASE SelectPrimary
  <2>1. UNCHANGED <<queued, consumed, copying, content>> /\ queued = 0
    BY <1>21 DEF SelectPrimary, NothingBeforeTheRun, LifecycleAdvances
  <2>2. QED
    BY <2>1, PendingQuiet
<1>22. CASE ShutdownPrimary
  <2>1. UNCHANGED <<queued, consumed, copying, content>> /\ backend' = backend
    BY <1>22 DEF ShutdownPrimary, FenceValues
  <2>2. QED
    BY <2>1, PendingQuiet
<1>23. CASE SelectFallback
  <2>1. UNCHANGED <<queued, consumed, copying, content>> /\ queued = 0
    BY <1>23 DEF SelectFallback, NothingBeforeTheRun, LifecycleAdvances
  <2>2. QED
    BY <2>1, PendingQuiet
<1>24. CASE StartSucceeds
  <2>1. UNCHANGED <<queued, consumed, copying, content>> /\ backend' = backend
    BY <1>24 DEF StartSucceeds, FenceValues
  <2>2. QED
    BY <2>1, PendingQuiet
<1>25. CASE FailStart
  <2>1. UNCHANGED <<queued, consumed, copying, content>> /\ queued = 0
    BY <1>25 DEF FailStart, NothingBeforeTheRun, LifecycleAdvances
  <2>2. QED
    BY <2>1, PendingQuiet
<1>26. CASE CreateContext
  <2>1. UNCHANGED <<queued, consumed, copying, content>> /\ backend' = backend
    BY <1>26 DEF CreateContext, FenceValues
  <2>2. QED
    BY <2>1, PendingQuiet
<1>27. CASE MakeCurrent
  <2>1. UNCHANGED <<queued, consumed, copying, content>> /\ backend' = backend
    BY <1>27 DEF MakeCurrent, FenceValues
  <2>2. QED
    BY <2>1, PendingQuiet
<1>28. CASE DeleteContext
  <2>1. UNCHANGED <<queued, consumed, copying, content>> /\ backend' = backend
    BY <1>28 DEF DeleteContext, FenceValues
  <2>2. QED
    BY <2>1, PendingQuiet
<1>29. CASE RecoverNotReady
  <2>1. UNCHANGED <<queued, consumed, copying, content>> /\ backend' = backend
    BY <1>29 DEF RecoverNotReady, FenceValues
  <2>2. QED
    BY <2>1, PendingQuiet
<1>30. CASE RecoverImportFails
  <2>1. UNCHANGED <<queued, consumed, copying, content>> /\ backend' = backend
    BY <1>30 DEF RecoverImportFails, FenceValues
  <2>2. QED
    BY <2>1, PendingQuiet
<1>31. CASE RecoverGpuStreamContext
  <2>1. UNCHANGED <<queued, consumed, copying, content>> /\ backend' = backend
    BY <1>31 DEF RecoverGpuStreamContext, FenceValues
  <2>2. QED
    BY <2>1, PendingQuiet
<1>32. CASE RetryDue
  <2>1. UNCHANGED <<queued, consumed, copying, content>> /\ backend' = backend
    BY <1>32 DEF RetryDue, FenceValues
  <2>2. QED
    BY <2>1, PendingQuiet
<1>33. CASE ProduceStops
  <2>1. UNCHANGED <<queued, consumed, copying, content>> /\ backend' = backend
    BY <1>33 DEF ProduceStops, FenceValues
  <2>2. QED
    BY <2>1, PendingQuiet
<1>34. CASE ProduceWaitFails
  <2>1. UNCHANGED <<queued, consumed, copying, content>> /\ backend' = backend
    BY <1>34 DEF ProduceWaitFails, FenceValues
  <2>2. QED
    BY <2>1, PendingQuiet
<1>35. CASE ProduceBlitFails
  <2>1. Slot \in Slots /\ \A v \in 1 .. queued : v > consumed => SlotOf(v) # Slot
    BY <1>35, SlotIsGivenBack DEF ProduceBlitFails
  <2>2. /\ content' = content \/ content' = [content EXCEPT ![Slot] = 0]
        /\ UNCHANGED <<queued, consumed, copying, backend>>
    BY <1>35 DEF ProduceBlitFails
  <2>3. \A v : SlotOf(v)' = SlotOf(v)
    BY <2>2 DEF SlotOf
  <2>4. ASSUME NEW v \in 1 .. queued, v > consumed PROVE content'[SlotOf(v)] = v
    <3>1. SlotOf(v) \in Slots /\ SlotOf(v) # Slot /\ content[SlotOf(v)] = v
      BY <2>1, <2>4, MonoSlot
    <3>2. QED
      BY <2>2, <3>1
  <2>5. QED
    BY <2>2, <2>3, <2>4
<1>36. CASE ProduceSignalFails
  <2>1. /\ Slot \in Slots /\ \A v \in 1 .. queued : v > consumed => SlotOf(v) # Slot
        /\ Next1 = queued + 1
    BY <1>36, SlotIsGivenBack DEF ProduceSignalFails
  <2>2. /\ content' = [content EXCEPT ![Slot] = Next1] /\ UNCHANGED <<consumed, copying, backend>>
        /\ queued' \in {queued, Next1}
    BY <1>36 DEF ProduceSignalFails
  <2>3. \A v : SlotOf(v)' = SlotOf(v)
    BY <2>2 DEF SlotOf
  <2>4. SlotOf(Next1) = Slot
    BY DEF Slot
  <2>5. ASSUME NEW v \in 1 .. queued', v > consumed PROVE content'[SlotOf(v)] = v
    <3>1. CASE v = Next1
      BY <2>1, <2>2, <2>4, <3>1
    <3>2. CASE v # Next1
      <4>1. v \in 1 .. queued
        BY <2>1, <2>2, <3>2 DEF FenceValues
      <4>2. SlotOf(v) \in Slots /\ SlotOf(v) # Slot /\ content[SlotOf(v)] = v
        BY <2>1, <2>5, <4>1, MonoSlot
      <4>3. QED
        BY <2>2, <4>2
    <3>3. QED
      BY <3>1, <3>2
  <2>6. QED
    BY <2>2, <2>3, <2>5
<1>37. CASE ProduceFrame
  <2>1. /\ Slot \in Slots /\ \A v \in 1 .. queued : v > consumed => SlotOf(v) # Slot
        /\ Next1 = queued + 1
    BY <1>37, SlotIsGivenBack DEF ProduceFrame
  <2>2. /\ content' = [content EXCEPT ![Slot] = Next1] /\ UNCHANGED <<consumed, copying, backend>>
        /\ queued' \in {queued, Next1}
    BY <1>37 DEF ProduceFrame
  <2>3. \A v : SlotOf(v)' = SlotOf(v)
    BY <2>2 DEF SlotOf
  <2>4. SlotOf(Next1) = Slot
    BY DEF Slot
  <2>5. ASSUME NEW v \in 1 .. queued', v > consumed PROVE content'[SlotOf(v)] = v
    <3>1. CASE v = Next1
      BY <2>1, <2>2, <2>4, <3>1
    <3>2. CASE v # Next1
      <4>1. v \in 1 .. queued
        BY <2>1, <2>2, <3>2 DEF FenceValues
      <4>2. SlotOf(v) \in Slots /\ SlotOf(v) # Slot /\ content[SlotOf(v)] = v
        BY <2>1, <2>5, <4>1, MonoSlot
      <4>3. QED
        BY <2>2, <4>2
    <3>3. QED
      BY <3>1, <3>2
  <2>6. QED
    BY <2>2, <2>3, <2>5
<1>38. CASE GpuSignal
  <2>1. UNCHANGED <<queued, content, backend>>
    BY <1>38 DEF GpuSignal
  <2>2. \A v : SlotOf(v)' = SlotOf(v)
    BY <2>1 DEF SlotOf
  <2>3. consumed \in Nat /\ copying \in Nat /\ ready \in Nat /\ queued \in Nat
    BY DEF FenceValues
  <2>4. consumed' >= consumed /\ (copying' # 0 => copying' > consumed')
    BY <1>38, <2>3 DEF GpuSignal
  <2>5. consumed' \in Nat
    BY <1>38, <2>3 DEF GpuSignal
  <2>6. QED
    BY <2>1, <2>2, <2>3, <2>4, <2>5
<1>39. CASE HostCopy
  <2>1. UNCHANGED <<queued, content, backend>>
    BY <1>39 DEF HostCopy
  <2>2. \A v : SlotOf(v)' = SlotOf(v)
    BY <2>1 DEF SlotOf
  <2>3. consumed \in Nat /\ copying \in Nat /\ ready \in Nat /\ queued \in Nat
    BY DEF FenceValues
  <2>4. consumed' >= consumed /\ (copying' # 0 => copying' > consumed')
    BY <1>39, <2>3 DEF HostCopy
  <2>5. consumed' \in Nat
    BY <1>39, <2>3 DEF HostCopy
  <2>6. QED
    BY <2>1, <2>2, <2>3, <2>4, <2>5
<1>40. CASE HostAcknowledge
  <2>1. UNCHANGED <<queued, content, backend>>
    BY <1>40 DEF HostAcknowledge
  <2>2. \A v : SlotOf(v)' = SlotOf(v)
    BY <2>1 DEF SlotOf
  <2>3. consumed \in Nat /\ copying \in Nat /\ ready \in Nat /\ queued \in Nat
    BY DEF FenceValues
  <2>4. consumed' >= consumed /\ (copying' # 0 => copying' > consumed')
    BY <1>40, <2>3 DEF HostAcknowledge
  <2>5. consumed' \in Nat
    BY <1>40, <2>3 DEF HostAcknowledge
  <2>6. QED
    BY <2>1, <2>2, <2>3, <2>4, <2>5
<1>41. CASE RemoveDevice
  <2>1. UNCHANGED <<queued, consumed, copying, content>> /\ backend' = backend
    BY <1>41 DEF RemoveDevice, FenceValues
  <2>2. QED
    BY <2>1, PendingQuiet
<1>42. QED
  BY <1>1, <1>2, <1>3, <1>4, <1>5, <1>6, <1>7, <1>8, <1>9, <1>10, <1>11, <1>12, <1>13, <1>14,
      <1>15, <1>16, <1>17, <1>18, <1>19, <1>20, <1>21, <1>22, <1>23, <1>24, <1>25, <1>26, <1>27,
      <1>28, <1>29, <1>30, <1>31, <1>32, <1>33, <1>34, <1>35, <1>36, <1>37, <1>38, <1>39, <1>40,
      <1>41 DEF MonoNext, Starting, Recover, Produce

\* The mono stream starts in its invariant.
LEMMA MonoStart == MonoInit => MonoInv
<1> SUFFICES ASSUME MonoInit PROVE MonoInv
  OBVIOUS
<1>1. 1 \in Contexts /\ 0 \in FenceValues /\ 0 \in 0 .. MaxContexts /\ 0 \in 0 .. MaxFaults
  BY BoundsAssumption, FenceAssumption DEF Contexts, FenceValues
<1>2. PICK h \in Handles : h = CHOOSE g \in Handles : TRUE
  BY HandleAssumption
<1>3. handle = [c \in Contexts |-> IF c = 1 THEN h ELSE NoHandle]
  BY <1>2 DEF MonoInit
<1>4. handle[1] \in Handles /\ handle[1] # NoHandle
  BY <1>1, <1>2, <1>3, HandleAssumption
<1>5. ContextTypes
  <2>1. handle \in [Contexts -> Handles \cup {NoHandle}]
    BY <1>2, <1>3
  <2>2. QED
    BY <1>1, <2>1 DEF MonoInit, ContextTypes
<1>6. StartTypes
  BY DEF MonoInit, StartTypes
<1>7. NameTypes
  BY <1>1 DEF MonoInit, NameTypes
<1>8. Zeros \in [Slots -> FenceValues]
  BY <1>1 DEF Zeros
<1>9. BookTypes
  BY <1>1, <1>8 DEF MonoInit, BookTypes
<1>10. PixelTypes
  <2>1. 0 \in 0 .. 0
    OBVIOUS
  <2>2. content \in [Slots -> FenceValues]
    BY <1>8 DEF MonoInit
  <2>3. QED
    BY <1>1, <2>1, <2>2 DEF MonoInit, PixelTypes
<1>11. HandlesTellContexts
  BY <1>4 DEF MonoInit, HandlesTellContexts
<1>12. HeldAt
  BY DEF MonoInit, HeldAt, HeldByPrimary, HeldByFallback, HeldAtTheEnd
<1>13. LifecycleAdvances
  BY DEF MonoInit, LifecycleAdvances
<1>14. NothingBeforeTheRun
  BY DEF MonoInit, NothingBeforeTheRun
<1>15. NamesFollowContext /\ BooksAgree /\ PendingAreWhole
  BY DEF MonoInit, NamesFollowContext, BooksAgree, PendingAreWhole
<1>16. QED
  BY <1>5, <1>6, <1>7, <1>9, <1>10, <1>11, <1>12, <1>13, <1>14, <1>15 DEF MonoInv, MonoTypes

\* Every step of the mono stream keeps the invariant.
LEMMA MonoStep == MonoInv /\ MonoNext => MonoInv'
<1> SUFFICES ASSUME MonoInv, MonoNext PROVE MonoInv'
  OBVIOUS
<1>1. MonoTypes'
  BY MonoContextTypeStep, StartTypeStep, NameTypeStep, BookTypeStep, PixelTypeStep DEF MonoTypes
<1>2. QED
  BY <1>1, MonoHandleStep, HeldStep, LifecycleStep, NothingStep, NamesStep, BooksStep, PendingStep
     DEF MonoInv

\* The invariant stays while nothing of the mono stream changes.
LEMMA MonoQuiet == MonoInv /\ UNCHANGED monoVars => MonoInv'
<1> SUFFICES ASSUME MonoInv, UNCHANGED monoVars PROVE MonoInv'
  OBVIOUS
<1>1. /\ UNCHANGED <<born, alive, handle, current, window, lifecycle, stage, held, backend>>
      /\ UNCHANGED <<deleted, imported, cooling, owner, fbo, resolve, bridgeOwner, names>>
      /\ UNCHANGED <<lastProduced, slotUse, lastSignal, slotSignalled, slotWaited>>
      /\ UNCHANGED <<locked, content, queued, ready, copying, consumed, removed, faults>>
      /\ UNCHANGED books
  BY DEF monoVars, game, start, rec, glNames, books, pixels, host
<1>2. ContextTypes' /\ StartTypes' /\ NameTypes'
  BY <1>1 DEF MonoInv, MonoTypes, ContextTypes, Contexts, StartTypes, NameTypes
<1>3. BookTypes' /\ PixelTypes'
  BY <1>1 DEF MonoInv, MonoTypes, BookTypes, PixelTypes, Slots, FenceValues
<1>4. HandlesTellContexts' /\ LifecycleAdvances'
  BY <1>1 DEF MonoInv, HandlesTellContexts, LifecycleAdvances
<1>5. NothingBeforeTheRun' /\ NamesFollowContext'
  BY <1>1 DEF MonoInv, NothingBeforeTheRun, NamesFollowContext, BoundTo, Zeros, Slots
<1>6. HeldAt' /\ BooksAgree' /\ PendingAreWhole'
  BY <1>1, HeldQuiet, BooksQuiet, PendingQuiet DEF MonoInv
<1>7. QED
  BY <1>2, <1>3, <1>4, <1>5, <1>6 DEF MonoInv, MonoTypes

\* What the invariant says of the checked properties.
LEMMA MonoShows ==
    MonoInv => /\ MonoTypeOK /\ DrawsWithLiveNames /\ BridgeNeverRefuses
               /\ HostCopiesWholeFrame /\ StartIsAllOrNothing
<1> SUFFICES ASSUME MonoInv
             PROVE  /\ MonoTypeOK /\ DrawsWithLiveNames /\ BridgeNeverRefuses
                    /\ HostCopiesWholeFrame /\ StartIsAllOrNothing
  OBVIOUS
<1>1. MonoTypeOK
  <2>1. alive \subseteq Contexts
    BY CurrentContext
  <2>2. StartTypes
    BY DEF MonoInv, MonoTypes
  <2>3. stage \in {"idle", "load", "adapter", "device", "create", "colors", "fences", "handles",
                  "memories", "textures", "semaphores", "primary ready", "primary failed",
                  "nv load", "nv adapter", "nv device", "nv texture", "nv create", "nv register",
                  "nv again", "nv fences", "fallback ready", "fbo", "run", "fail"}
    BY <2>2 DEF StartTypes, PrimaryStages, FallbackStages, LastStages
  <2>4. ContextTypes /\ NameTypes /\ BookTypes /\ PixelTypes
    BY DEF MonoInv, MonoTypes
  <2>5. QED
    BY <2>1, <2>2, <2>3, <2>4
       DEF MonoTypeOK, ContextTypes, StartTypes, NameTypes, BookTypes, PixelTypes, FenceValues
<1>2. DrawsWithLiveNames
  <2>1. ASSUME MayProduce
        PROVE  current \in alive /\ names = current /\ fbo = current /\ resolve \in {0, current}
    <3>1. current # 0 /\ bridgeOwner = handle[current] /\ ~deleted /\ lifecycle = "running"
      BY <2>1 DEF MayProduce, OwningGlContextIsCurrent
    <3>2. current \in alive /\ BoundTo(names) /\ fbo = names
      BY <3>1, CurrentContext DEF MonoInv, NamesFollowContext, LifecycleAdvances
    <3>3. names = current
      BY <3>1, <3>2 DEF MonoInv, HandlesTellContexts, BoundTo
    <3>4. QED
      BY <3>2, <3>3 DEF BoundTo
  <2>2. QED
    BY <2>1 DEF DrawsWithLiveNames
<1>3. BridgeNeverRefuses
  BY SlotIsGivenBack DEF BridgeNeverRefuses
<1>4. HostCopiesWholeFrame
  <2>1. copying \in Nat /\ copying <= queued /\ queued \in Nat
    BY FenceAssumption DEF MonoInv, MonoTypes, PixelTypes, FenceValues
  <2>2. copying # 0 => copying \in 1 .. queued /\ copying > consumed
    BY <2>1 DEF MonoInv, PendingAreWhole
  <2>3. QED
    BY <2>2 DEF MonoInv, PendingAreWhole, HostCopiesWholeFrame
<1>5. StartIsAllOrNothing
  <2>1. lifecycle = "failed" => held = {} \/ fbo # 0 \/ owner # NoHandle
    BY DEF MonoInv, LifecycleAdvances
  <2>2. stage \in {"nv load", "nv create", "nv fences", "fallback ready"} => held \cap Primary = {}
    BY DEF MonoInv, HeldAt, HeldByFallback, NvDevices, Primary, D3D12Stream, GlStream,
        FallbackObjects, RegisteredTexture, FallbackFences
  <2>3. lifecycle = "running" =>
          held = {"output fbo"} \cup IF backend = "ext" THEN Primary ELSE FallbackObjects
    BY DEF MonoInv, HeldAt, HeldAtTheEnd, Streaming
  <2>4. QED
    BY <2>1, <2>2, <2>3 DEF StartIsAllOrNothing
<1>6. QED
  BY <1>1, <1>2, <1>3, <1>4, <1>5

-----------------------------------------------------------------------------
(* The render trace: the cells, the wrappers in flight and the ring        *)

ControlTypes ==
    /\ trace \in {"Idle", "Installing", "Active", "Stopping", "Stopped", "Failed"}
    /\ boot \in {"none", "prepare", "writer", "originals", "install", "cleanup", "restore",
                 "report", "awaitStop", "done"}
    /\ stopper \in {"none", "wait", "hooksStay", "restore", "join", "done"}
    /\ writer \in {"none", "drain", "last", "done"} /\ writerStop \in BOOLEAN

PatchTypes ==
    /\ cells \in [Hooks -> {"original", "wrapper", "chained", "foreign"}]
    /\ installed \in [Hooks -> BOOLEAN] /\ todo \subseteq Hooks
    /\ undone \in BOOLEAN /\ originals \in BOOLEAN /\ accepting \in BOOLEAN

Marks == {"entry", "exit", "extra"}

Traced == RenderThreads \X Marks \X Nat

RingSlots == 0 .. RingSize - 1

QueueTypes ==
    /\ ring \in [RingSlots -> [seq : Nat, record : Traced \cup {NoRecord}]]
    /\ enqueue \in Nat /\ dequeue \in Nat
    /\ claims \in Seq(Traced) /\ file \in Seq(Traced \cup {NoRecord})

ThreadTypes ==
    /\ active \in Nat /\ mark \in [RenderThreads -> Marks] /\ place \in [RenderThreads -> Nat]
    /\ at \in [RenderThreads -> {"engine", "jumping", "counted", "claim", "fill"}]
    /\ stack \in [RenderThreads -> Seq(BOOLEAN)]

TraceTypes == ControlTypes /\ PatchTypes /\ QueueTypes /\ ThreadTypes

\* Where the bootstrap and the stopping thread may stand together.
TraceStages ==
    /\ trace = "Idle" <=> boot = "none"
    /\ trace = "Installing" <=>
          boot \in {"prepare", "writer", "originals", "install", "cleanup", "restore"}
    /\ stopper # "none" => boot \in {"report", "awaitStop", "done"}
    /\ boot \in {"report", "awaitStop"} => stopper # "none"
    /\ trace \in {"Active", "Stopping", "Stopped"} => stopper # "none"
    /\ trace = "Stopped" => stopper = "done"
    /\ stopper \in {"restore", "join", "done"} => ~accepting
    /\ boot \in {"none", "prepare", "writer"} => ~accepting
    /\ boot = "install" => originals
    /\ boot \in {"none", "prepare", "writer", "originals"} => ~originals /\ undone
    /\ writer = "done" /\ stopper # "none" => stopper \in {"join", "done"}
    /\ writer = "last" => writerStop
    /\ writerStop /\ stopper # "none" => stopper \in {"join", "done"}
    /\ writerStop => stopper # "none" \/ boot = "done"
    /\ boot = "done" /\ stopper = "none" => trace = "Failed"
    /\ boot \in {"none", "prepare", "writer"} => writer = "none" /\ ~writerStop
    /\ boot \in {"originals", "install"} => writer = "drain" /\ ~writerStop

\* The next hook to be patched still holds the original or belongs to a mod.
HookIsFree ==
    \A h \in Hooks : h = NextToInstall => cells[h] \in {"original", "foreign"}

\* A wrapper in a cell is known to be installed, and its original is set; while
\* every hook came off so far, a wrapper is still to be taken off.
CellsAreKnown ==
    /\ \A h \in Hooks : /\ cells[h] = "wrapper" => installed[h]
                        /\ cells[h] \in {"wrapper", "chained"} => originals
    /\ undone /\ (boot = "restore" \/ stopper = "restore") =>
          \A h \in Hooks : cells[h] = "wrapper" => h \in todo
    /\ undone /\ boot = "done" /\ stopper = "none" => \A h \in Hooks : cells[h] # "wrapper"
    /\ stopper = "join" \/ trace = "Stopped" => \A h \in Hooks : cells[h] # "wrapper"
    /\ stopper = "join" => undone

\* Whoever decided to patch a cell saw the original in it; only a foreign patch
\* can have come in between.
DecisionHolds ==
    /\ decided \in BOOLEAN
    /\ boot \in {"none", "prepare", "writer", "originals"} => ~decided
    /\ boot = "install" /\ decided => HookIsFree

\* The scopes that are open, one for each wrapper a thread is counted in.
OpenScopes ==
    {s \in RenderThreads \X (Nat \ {0}) :
        \/ s[2] <= Len(stack[s[1]])
        \/ at[s[1]] = "counted" /\ s[2] = Len(stack[s[1]]) + 1}

ActiveCounts ==
    /\ IsFiniteSet(OpenScopes) /\ active = Cardinality(OpenScopes)
    /\ \A t \in RenderThreads : at[t] \in {"claim", "fill"} => stack[t] # <<>>

InsideHasOriginal ==
    \A t \in RenderThreads : at[t] # "engine" \/ stack[t] # <<>> => originals

\* Nothing more is recorded.
Silent ==
    \A t \in RenderThreads :
       at[t] \notin {"claim", "fill"} /\ \A i \in 1 .. Len(stack[t]) : ~stack[t][i]

StopIsSilent ==
    /\ stopper = "join" \/ trace = "Stopped" => Silent
    /\ (stopper = "join" /\ writer = "done") \/ trace = "Stopped" => enqueue = dequeue

\* The ring: from the dequeue to the enqueue position a slot is filled or being
\* filled, from there on it waits for its position.
FilledAt(p) == ring[RingSlot(p)].seq = p + 1 /\ ring[RingSlot(p)].record = claims[p + 1]

FillingAt(p) ==
    /\ ring[RingSlot(p)].seq = p
    /\ \E t \in RenderThreads : at[t] = "fill" /\ place[t] = p

RingHolds ==
    /\ dequeue <= enqueue /\ enqueue <= dequeue + RingSize
    /\ \A p \in Nat : dequeue <= p /\ p < enqueue => FilledAt(p) \/ FillingAt(p)
    /\ \A p \in Nat : enqueue <= p /\ p < dequeue + RingSize => ring[RingSlot(p)].seq = p

FillersHold ==
    /\ \A t \in RenderThreads : at[t] = "fill" =>
          /\ dequeue <= place[t] /\ place[t] < enqueue
          /\ ring[RingSlot(place[t])].seq = place[t]
          /\ claims[place[t] + 1] = <<t, mark[t], Len(stack[t])>>
    /\ \A t, u \in RenderThreads :
          at[t] = "fill" /\ at[u] = "fill" /\ place[t] = place[u] => t = u

FileFollowsClaims ==
    /\ Len(claims) = enqueue /\ Len(file) = dequeue
    /\ \A i \in 1 .. Len(file) : file[i] = claims[i]
    /\ boot \in {"none", "prepare", "writer"} => enqueue = 0 /\ dequeue = 0

TraceInv ==
    /\ TraceTypes /\ TraceStages /\ CellsAreKnown /\ DecisionHolds /\ ActiveCounts
    /\ InsideHasOriginal
    /\ StopIsSilent /\ RingHolds /\ FillersHold /\ FileFollowsClaims

\* The steps keep the types of the control.
LEMMA ControlTypeStep ==
    ASSUME TraceInv, TraceNext
    PROVE  ControlTypes'
<1> USE DEF TraceInv, TraceTypes, ControlTypes, control, patching, flags, queue, writing, threads
<1>1. ASSUME NEW double \in BOOLEAN, ClaimTrace(double) PROVE ControlTypes'
  BY <1>1 DEF ClaimTrace
<1>2. ASSUME NEW double \in BOOLEAN, RefusedBootstrap(double) PROVE ControlTypes'
  BY <1>2 DEF RefusedBootstrap
<1>3. CASE Prepare
  BY <1>3 DEF Prepare
<1>4. CASE PrepareFails
  BY <1>4 DEF PrepareFails
<1>5. CASE StartWriter
  BY <1>5 DEF StartWriter
<1>6. CASE SetOriginals
  BY <1>6 DEF SetOriginals
<1>7. CASE DecideInstall
  BY <1>7 DEF DecideInstall
<1>8. CASE ExchangeInstall
  BY <1>8 DEF ExchangeInstall, Exchange, InstalledIfExchanged
<1>9. CASE InstallFails
  BY <1>9 DEF InstallFails
<1>10. CASE Activate
  BY <1>10 DEF Activate
<1>11. CASE Report
  BY <1>11 DEF Report
<1>12. CASE ReportFailed
  BY <1>12 DEF ReportFailed
<1>13. CASE Cleanup
  BY <1>13 DEF Cleanup
<1>14. CASE CleanupEnds
  BY <1>14 DEF CleanupEnds
<1>15. CASE StopRenderTrace
  BY <1>15 DEF StopRenderTrace
<1>16. CASE TraceExpires
  BY <1>16 DEF TraceExpires
<1>17. CASE BeginStop
  BY <1>17 DEF BeginStop
<1>18. CASE DecideRestore
  BY <1>18 DEF DecideRestore, Restoring
<1>19. CASE ExchangeRestore
  BY <1>19 DEF ExchangeRestore, Restoring, Exchange
<1>20. CASE RestoreFails
  BY <1>20 DEF RestoreFails, Restoring
<1>21. CASE WrappersGone
  BY <1>21 DEF WrappersGone, QuietWhenEmpty
<1>22. CASE StopTimesOut
  BY <1>22 DEF StopTimesOut
<1>23. CASE StopCompletes
  BY <1>23 DEF StopCompletes
<1>24. ASSUME NEW h \in Hooks, ForeignPatch(h) PROVE ControlTypes'
  BY <1>24 DEF ForeignPatch
<1>25. ASSUME NEW t \in RenderThreads, Fetch(t) PROVE ControlTypes'
  BY <1>25 DEF Fetch
<1>26. ASSUME NEW t \in RenderThreads, Count(t) PROVE ControlTypes'
  BY <1>26 DEF Count
<1>27. ASSUME NEW t \in RenderThreads, Look(t) PROVE ControlTypes'
  BY <1>27 DEF Look
<1>28. ASSUME NEW t \in RenderThreads, ExtraPass(t) PROVE ControlTypes'
  BY <1>28 DEF ExtraPass
<1>29. ASSUME NEW t \in RenderThreads, Return(t) PROVE ControlTypes'
  BY <1>29 DEF Return, CloseScope
<1>30. ASSUME NEW t \in RenderThreads, ClaimSlot(t) PROVE ControlTypes'
  BY <1>30 DEF ClaimSlot
<1>31. ASSUME NEW t \in RenderThreads, DropRecord(t) PROVE ControlTypes'
  BY <1>31 DEF DropRecord, AfterRecord, CloseScope
<1>32. ASSUME NEW t \in RenderThreads, FillSlot(t) PROVE ControlTypes'
  BY <1>32 DEF FillSlot, AfterRecord, CloseScope
<1>33. CASE WriterStep
  BY <1>33 DEF WriterStep, Dequeue, WriteRecord
<1>34. QED
  BY <1>1, <1>2, <1>3, <1>4, <1>5, <1>6, <1>7, <1>8, <1>9, <1>10, <1>11, <1>12, <1>13, <1>14,
      <1>15, <1>16, <1>17, <1>18, <1>19, <1>20, <1>21, <1>22, <1>23, <1>24, <1>25, <1>26, <1>27,
      <1>28, <1>29, <1>30, <1>31, <1>32, <1>33 DEF TraceNext

\* The bootstrap, the stopping thread and the writer keep in step.
LEMMA StagesStep ==
    ASSUME TraceInv, TraceNext
    PROVE  TraceStages'
<1> USE DEF TraceInv, TraceTypes, ControlTypes, PatchTypes, TraceStages, CellsAreKnown,
      InsideHasOriginal, control, patching, flags, queue, writing, threads
<1>1. ASSUME NEW double \in BOOLEAN, ClaimTrace(double) PROVE TraceStages'
  BY <1>1 DEF ClaimTrace
<1>2. ASSUME NEW double \in BOOLEAN, RefusedBootstrap(double) PROVE TraceStages'
  BY <1>2 DEF RefusedBootstrap
<1>3. CASE Prepare
  BY <1>3 DEF Prepare
<1>4. CASE PrepareFails
  BY <1>4 DEF PrepareFails
<1>5. CASE StartWriter
  BY <1>5 DEF StartWriter
<1>6. CASE SetOriginals
  BY <1>6 DEF SetOriginals
<1>7. CASE DecideInstall
  BY <1>7 DEF DecideInstall
<1>8. CASE ExchangeInstall
  BY <1>8 DEF ExchangeInstall, Exchange, InstalledIfExchanged
<1>9. CASE InstallFails
  BY <1>9 DEF InstallFails
<1>10. CASE Activate
  BY <1>10 DEF Activate
<1>11. CASE Report
  BY <1>11 DEF Report
<1>12. CASE ReportFailed
  BY <1>12 DEF ReportFailed
<1>13. CASE Cleanup
  BY <1>13 DEF Cleanup
<1>14. CASE CleanupEnds
  BY <1>14 DEF CleanupEnds
<1>15. CASE StopRenderTrace
  BY <1>15 DEF StopRenderTrace
<1>16. CASE TraceExpires
  BY <1>16 DEF TraceExpires
<1>17. CASE BeginStop
  BY <1>17 DEF BeginStop
<1>18. CASE DecideRestore
  BY <1>18 DEF DecideRestore, Restoring
<1>19. CASE ExchangeRestore
  BY <1>19 DEF ExchangeRestore, Restoring, Exchange
<1>20. CASE RestoreFails
  BY <1>20 DEF RestoreFails, Restoring
<1>21. CASE WrappersGone
  BY <1>21 DEF WrappersGone, QuietWhenEmpty
<1>22. CASE StopTimesOut
  BY <1>22 DEF StopTimesOut
<1>23. CASE StopCompletes
  BY <1>23 DEF StopCompletes
<1>24. ASSUME NEW h \in Hooks, ForeignPatch(h) PROVE TraceStages'
  BY <1>24 DEF ForeignPatch
<1>25. ASSUME NEW t \in RenderThreads, Fetch(t) PROVE TraceStages'
  BY <1>25 DEF Fetch
<1>26. ASSUME NEW t \in RenderThreads, Count(t) PROVE TraceStages'
  BY <1>26 DEF Count
<1>27. ASSUME NEW t \in RenderThreads, Look(t) PROVE TraceStages'
  BY <1>27 DEF Look
<1>28. ASSUME NEW t \in RenderThreads, ExtraPass(t) PROVE TraceStages'
  BY <1>28 DEF ExtraPass
<1>29. ASSUME NEW t \in RenderThreads, Return(t) PROVE TraceStages'
  BY <1>29 DEF Return, CloseScope
<1>30. ASSUME NEW t \in RenderThreads, ClaimSlot(t) PROVE TraceStages'
  BY <1>30 DEF ClaimSlot
<1>31. ASSUME NEW t \in RenderThreads, DropRecord(t) PROVE TraceStages'
  BY <1>31 DEF DropRecord, AfterRecord, CloseScope
<1>32. ASSUME NEW t \in RenderThreads, FillSlot(t) PROVE TraceStages'
  BY <1>32 DEF FillSlot, AfterRecord, CloseScope
<1>33. CASE WriterStep
  BY <1>33 DEF WriterStep, Dequeue, WriteRecord
<1>34. QED
  BY <1>1, <1>2, <1>3, <1>4, <1>5, <1>6, <1>7, <1>8, <1>9, <1>10, <1>11, <1>12, <1>13, <1>14,
      <1>15, <1>16, <1>17, <1>18, <1>19, <1>20, <1>21, <1>22, <1>23, <1>24, <1>25, <1>26, <1>27,
      <1>28, <1>29, <1>30, <1>31, <1>32, <1>33 DEF TraceNext

\* The steps keep the types of what is patched.
LEMMA PatchTypeStep ==
    ASSUME TraceInv, TraceNext
    PROVE  PatchTypes'
<1> USE DEF TraceInv, TraceTypes, ControlTypes, PatchTypes, control, patching, flags, queue,
      writing, threads
<1>1. ASSUME NEW double \in BOOLEAN, ClaimTrace(double) PROVE PatchTypes'
  BY <1>1 DEF ClaimTrace
<1>2. ASSUME NEW double \in BOOLEAN, RefusedBootstrap(double) PROVE PatchTypes'
  BY <1>2 DEF RefusedBootstrap
<1>3. CASE Prepare
  BY <1>3 DEF Prepare
<1>4. CASE PrepareFails
  BY <1>4 DEF PrepareFails
<1>5. CASE StartWriter
  BY <1>5 DEF StartWriter
<1>6. CASE SetOriginals
  BY <1>6 DEF SetOriginals
<1>7. CASE DecideInstall
  BY <1>7 DEF DecideInstall
<1>8. CASE ExchangeInstall
  BY <1>8 DEF ExchangeInstall, Exchange, InstalledIfExchanged
<1>9. CASE InstallFails
  BY <1>9 DEF InstallFails
<1>10. CASE Activate
  BY <1>10 DEF Activate
<1>11. CASE Report
  BY <1>11 DEF Report
<1>12. CASE ReportFailed
  BY <1>12 DEF ReportFailed
<1>13. CASE Cleanup
  BY <1>13 DEF Cleanup
<1>14. CASE CleanupEnds
  BY <1>14 DEF CleanupEnds
<1>15. CASE StopRenderTrace
  BY <1>15 DEF StopRenderTrace
<1>16. CASE TraceExpires
  BY <1>16 DEF TraceExpires
<1>17. CASE BeginStop
  BY <1>17 DEF BeginStop
<1>18. CASE DecideRestore
  BY <1>18 DEF DecideRestore, Restoring
<1>19. CASE ExchangeRestore
  BY <1>19 DEF ExchangeRestore, Restoring, Exchange
<1>20. CASE RestoreFails
  BY <1>20 DEF RestoreFails, Restoring
<1>21. CASE WrappersGone
  BY <1>21 DEF WrappersGone, QuietWhenEmpty
<1>22. CASE StopTimesOut
  BY <1>22 DEF StopTimesOut
<1>23. CASE StopCompletes
  BY <1>23 DEF StopCompletes
<1>24. ASSUME NEW h \in Hooks, ForeignPatch(h) PROVE PatchTypes'
  BY <1>24 DEF ForeignPatch
<1>25. ASSUME NEW t \in RenderThreads, Fetch(t) PROVE PatchTypes'
  BY <1>25 DEF Fetch
<1>26. ASSUME NEW t \in RenderThreads, Count(t) PROVE PatchTypes'
  BY <1>26 DEF Count
<1>27. ASSUME NEW t \in RenderThreads, Look(t) PROVE PatchTypes'
  BY <1>27 DEF Look
<1>28. ASSUME NEW t \in RenderThreads, ExtraPass(t) PROVE PatchTypes'
  BY <1>28 DEF ExtraPass
<1>29. ASSUME NEW t \in RenderThreads, Return(t) PROVE PatchTypes'
  BY <1>29 DEF Return, CloseScope
<1>30. ASSUME NEW t \in RenderThreads, ClaimSlot(t) PROVE PatchTypes'
  BY <1>30 DEF ClaimSlot
<1>31. ASSUME NEW t \in RenderThreads, DropRecord(t) PROVE PatchTypes'
  BY <1>31 DEF DropRecord, AfterRecord, CloseScope
<1>32. ASSUME NEW t \in RenderThreads, FillSlot(t) PROVE PatchTypes'
  BY <1>32 DEF FillSlot, AfterRecord, CloseScope
<1>33. CASE WriterStep
  BY <1>33 DEF WriterStep, Dequeue, WriteRecord
<1>34. QED
  BY <1>1, <1>2, <1>3, <1>4, <1>5, <1>6, <1>7, <1>8, <1>9, <1>10, <1>11, <1>12, <1>13, <1>14,
      <1>15, <1>16, <1>17, <1>18, <1>19, <1>20, <1>21, <1>22, <1>23, <1>24, <1>25, <1>26, <1>27,
      <1>28, <1>29, <1>30, <1>31, <1>32, <1>33 DEF TraceNext

\* The hook that is next stays the same while no hook is done.
LEMMA NextStays ==
    ASSUME todo' = todo, HookIsFree, cells' = cells
    PROVE  HookIsFree'
  BY Zenon DEF HookIsFree, NextToInstall, Hooks

\* A mod that patches a cell takes the original only for itself.
LEMMA NextStaysPatched ==
    ASSUME PatchTypes, todo' = todo, HookIsFree, NEW h \in Hooks,
           cells' = [cells EXCEPT ![h] = IF @ = "wrapper" THEN "chained" ELSE "foreign"]
    PROVE  HookIsFree'
<1>1. NextToInstall' = NextToInstall
  BY Zenon DEF NextToInstall
<1>2. Hooks' = Hooks
  BY Zenon DEF Hooks
<1>3. ASSUME NEW g \in Hooks, g = NextToInstall PROVE cells'[g] \in {"original", "foreign"}
  <2>1. cells[g] \in {"original", "foreign"}
    BY <1>3 DEF HookIsFree
  <2>2. QED
    BY <2>1, <1>3 DEF PatchTypes
<1>4. QED
  BY Zenon, <1>1, <1>2, <1>3 DEF HookIsFree

\* A decision to patch a cell holds until the exchange.
LEMMA DecisionStep ==
    ASSUME TraceInv, TraceNext
    PROVE  DecisionHolds'
<1> USE DEF TraceInv, TraceTypes, ControlTypes, TraceStages, DecisionHolds, control, patching,
      flags, queue, writing, threads
<1>1. ASSUME NEW double \in BOOLEAN, ClaimTrace(double) PROVE DecisionHolds'
  BY <1>1 DEF ClaimTrace
<1>2. ASSUME NEW double \in BOOLEAN, RefusedBootstrap(double) PROVE DecisionHolds'
  BY <1>2, NextStays DEF RefusedBootstrap, Restoring, CloseScope, AfterRecord
<1>3. CASE Prepare
  BY <1>3 DEF Prepare
<1>4. CASE PrepareFails
  BY <1>4 DEF PrepareFails
<1>5. CASE StartWriter
  BY <1>5 DEF StartWriter
<1>6. CASE SetOriginals
  BY <1>6 DEF SetOriginals
<1>7. CASE DecideInstall
  <2>1. todo' = todo /\ cells' = cells /\ boot' = boot /\ decided' \in BOOLEAN /\ boot = "install"
    BY <1>7 DEF DecideInstall
  <2>2. HookIsFree
    BY <1>7 DEF DecideInstall, HookIsFree
  <2>3. HookIsFree'
    BY <2>1, <2>2, NextStays
  <2>4. QED
    BY <2>1, <2>3
<1>8. CASE ExchangeInstall
  BY <1>8 DEF ExchangeInstall, Exchange, InstalledIfExchanged
<1>9. CASE InstallFails
  BY <1>9 DEF InstallFails
<1>10. CASE Activate
  BY <1>10, NextStays DEF Activate, Restoring, CloseScope, AfterRecord
<1>11. CASE Report
  BY <1>11, NextStays DEF Report, Restoring, CloseScope, AfterRecord
<1>12. CASE ReportFailed
  BY <1>12 DEF ReportFailed
<1>13. CASE Cleanup
  BY <1>13 DEF Cleanup
<1>14. CASE CleanupEnds
  BY <1>14, NextStays DEF CleanupEnds, Restoring, CloseScope, AfterRecord
<1>15. CASE StopRenderTrace
  BY <1>15, NextStays DEF StopRenderTrace, Restoring, CloseScope, AfterRecord
<1>16. CASE TraceExpires
  BY <1>16, NextStays DEF TraceExpires, Restoring, CloseScope, AfterRecord
<1>17. CASE BeginStop
  BY <1>17 DEF BeginStop
<1>18. CASE DecideRestore
  BY <1>18 DEF DecideRestore, Restoring
<1>19. CASE ExchangeRestore
  BY <1>19 DEF ExchangeRestore, Restoring, Exchange
<1>20. CASE RestoreFails
  BY <1>20 DEF RestoreFails, Restoring
<1>21. CASE WrappersGone
  BY <1>21, NextStays DEF WrappersGone, Restoring, CloseScope, AfterRecord
<1>22. CASE StopTimesOut
  BY <1>22, NextStays DEF StopTimesOut, Restoring, CloseScope, AfterRecord
<1>23. CASE StopCompletes
  BY <1>23, NextStays DEF StopCompletes, Restoring, CloseScope, AfterRecord
<1>24. ASSUME NEW h \in Hooks, ForeignPatch(h) PROVE DecisionHolds'
  BY <1>24, NextStaysPatched DEF ForeignPatch, PatchTypes
<1>25. ASSUME NEW t \in RenderThreads, Fetch(t) PROVE DecisionHolds'
  BY <1>25, NextStays DEF Fetch, Restoring, CloseScope, AfterRecord
<1>26. ASSUME NEW t \in RenderThreads, Count(t) PROVE DecisionHolds'
  BY <1>26, NextStays DEF Count, Restoring, CloseScope, AfterRecord
<1>27. ASSUME NEW t \in RenderThreads, Look(t) PROVE DecisionHolds'
  BY <1>27, NextStays DEF Look, Restoring, CloseScope, AfterRecord
<1>28. ASSUME NEW t \in RenderThreads, ExtraPass(t) PROVE DecisionHolds'
  BY <1>28, NextStays DEF ExtraPass, Restoring, CloseScope, AfterRecord
<1>29. ASSUME NEW t \in RenderThreads, Return(t) PROVE DecisionHolds'
  BY <1>29, NextStays DEF Return, Restoring, CloseScope, AfterRecord
<1>30. ASSUME NEW t \in RenderThreads, ClaimSlot(t) PROVE DecisionHolds'
  BY <1>30, NextStays DEF ClaimSlot, Restoring, CloseScope, AfterRecord
<1>31. ASSUME NEW t \in RenderThreads, DropRecord(t) PROVE DecisionHolds'
  BY <1>31, NextStays DEF DropRecord, Restoring, CloseScope, AfterRecord
<1>32. ASSUME NEW t \in RenderThreads, FillSlot(t) PROVE DecisionHolds'
  BY <1>32, NextStays DEF FillSlot, Restoring, CloseScope, AfterRecord
<1>33. CASE WriterStep
  BY <1>33, NextStays DEF WriterStep, Restoring, CloseScope, AfterRecord
<1>34. QED
  BY <1>1, <1>2, <1>3, <1>4, <1>5, <1>6, <1>7, <1>8, <1>9, <1>10, <1>11, <1>12, <1>13, <1>14,
      <1>15, <1>16, <1>17, <1>18, <1>19, <1>20, <1>21, <1>22, <1>23, <1>24, <1>25, <1>26, <1>27,
      <1>28, <1>29, <1>30, <1>31, <1>32, <1>33 DEF TraceNext

\* A wrapper in a cell stays known.
LEMMA CellsStep ==
    ASSUME TraceInv, TraceNext
    PROVE  CellsAreKnown'
<1> USE DEF TraceInv, TraceTypes, ControlTypes, PatchTypes, TraceStages, CellsAreKnown,
      DecisionHolds, HookIsFree, control, patching, flags, queue, writing, threads
<1>1. ASSUME NEW double \in BOOLEAN, ClaimTrace(double) PROVE CellsAreKnown'
  BY <1>1 DEF ClaimTrace
<1>2. ASSUME NEW double \in BOOLEAN, RefusedBootstrap(double) PROVE CellsAreKnown'
  BY <1>2 DEF RefusedBootstrap
<1>3. CASE Prepare
  BY <1>3 DEF Prepare
<1>4. CASE PrepareFails
  BY <1>4 DEF PrepareFails
<1>5. CASE StartWriter
  BY <1>5 DEF StartWriter
<1>6. CASE SetOriginals
  BY <1>6 DEF SetOriginals
<1>7. CASE DecideInstall
  BY <1>7 DEF DecideInstall
<1>8. CASE ExchangeInstall
  BY <1>8 DEF ExchangeInstall, Exchange, InstalledIfExchanged
<1>9. CASE InstallFails
  BY <1>9 DEF InstallFails
<1>10. CASE Activate
  BY <1>10 DEF Activate
<1>11. CASE Report
  BY <1>11 DEF Report
<1>12. CASE ReportFailed
  BY <1>12 DEF ReportFailed
<1>13. CASE Cleanup
  BY <1>13 DEF Cleanup
<1>14. CASE CleanupEnds
  BY <1>14 DEF CleanupEnds
<1>15. CASE StopRenderTrace
  BY <1>15 DEF StopRenderTrace
<1>16. CASE TraceExpires
  BY <1>16 DEF TraceExpires
<1>17. CASE BeginStop
  BY <1>17 DEF BeginStop
<1>18. CASE DecideRestore
  BY <1>18 DEF DecideRestore, Restoring
<1>19. CASE ExchangeRestore
  BY <1>19 DEF ExchangeRestore, Restoring, Exchange
<1>20. CASE RestoreFails
  BY <1>20 DEF RestoreFails, Restoring
<1>21. CASE WrappersGone
  BY <1>21 DEF WrappersGone, QuietWhenEmpty
<1>22. CASE StopTimesOut
  BY <1>22 DEF StopTimesOut
<1>23. CASE StopCompletes
  BY <1>23 DEF StopCompletes
<1>24. ASSUME NEW h \in Hooks, ForeignPatch(h) PROVE CellsAreKnown'
  BY <1>24 DEF ForeignPatch
<1>25. ASSUME NEW t \in RenderThreads, Fetch(t) PROVE CellsAreKnown'
  BY <1>25 DEF Fetch
<1>26. ASSUME NEW t \in RenderThreads, Count(t) PROVE CellsAreKnown'
  BY <1>26 DEF Count
<1>27. ASSUME NEW t \in RenderThreads, Look(t) PROVE CellsAreKnown'
  BY <1>27 DEF Look
<1>28. ASSUME NEW t \in RenderThreads, ExtraPass(t) PROVE CellsAreKnown'
  BY <1>28 DEF ExtraPass
<1>29. ASSUME NEW t \in RenderThreads, Return(t) PROVE CellsAreKnown'
  BY <1>29 DEF Return, CloseScope
<1>30. ASSUME NEW t \in RenderThreads, ClaimSlot(t) PROVE CellsAreKnown'
  BY <1>30 DEF ClaimSlot
<1>31. ASSUME NEW t \in RenderThreads, DropRecord(t) PROVE CellsAreKnown'
  BY <1>31 DEF DropRecord, AfterRecord, CloseScope
<1>32. ASSUME NEW t \in RenderThreads, FillSlot(t) PROVE CellsAreKnown'
  BY <1>32 DEF FillSlot, AfterRecord, CloseScope
<1>33. CASE WriterStep
  BY <1>33 DEF WriterStep, Dequeue, WriteRecord
<1>34. QED
  BY <1>1, <1>2, <1>3, <1>4, <1>5, <1>6, <1>7, <1>8, <1>9, <1>10, <1>11, <1>12, <1>13, <1>14,
      <1>15, <1>16, <1>17, <1>18, <1>19, <1>20, <1>21, <1>22, <1>23, <1>24, <1>25, <1>26, <1>27,
      <1>28, <1>29, <1>30, <1>31, <1>32, <1>33 DEF TraceNext

\* What is left of a stack without its last scope.
LEMMA LastDropped ==
    ASSUME NEW s \in Seq(BOOLEAN), s # <<>>
    PROVE  /\ Len(s) \in Nat \ {0} /\ SubSeq(s, 1, Len(s) - 1) \in Seq(BOOLEAN)
           /\ Len(SubSeq(s, 1, Len(s) - 1)) = Len(s) - 1
           /\ \A i \in 1 .. Len(s) - 1 : SubSeq(s, 1, Len(s) - 1)[i] = s[i]
<1>1. Len(s) \in Nat \ {0}
  BY EmptySeq, LenProperties
<1>2. \A i \in 1 .. Len(s) - 1 : s[i] \in BOOLEAN
  BY <1>1, ElementOfSeq
<1>3. 1 \in Int /\ Len(s) - 1 \in Int
  BY <1>1
<1>4. /\ SubSeq(s, 1, Len(s) - 1) \in Seq(BOOLEAN)
      /\ Len(SubSeq(s, 1, Len(s) - 1)) = IF 1 <= Len(s) - 1 THEN Len(s) - 1 - 1 + 1 ELSE 0
      /\ \A i \in 1 .. Len(s) - 1 - 1 + 1 : SubSeq(s, 1, Len(s) - 1)[i] = s[1 + i - 1]
  BY <1>2, <1>3, SubSeqProperties
<1>5. ASSUME NEW i \in 1 .. Len(s) - 1 PROVE SubSeq(s, 1, Len(s) - 1)[i] = s[i]
  <2>1. i \in 1 .. Len(s) - 1 - 1 + 1 /\ 1 + i - 1 = i
    BY <1>1
  <2>2. SubSeq(s, 1, Len(s) - 1)[i] = s[1 + i - 1]
    BY <1>4, <2>1
  <2>3. QED
    BY <2>1, <2>2
<1> DEFINE rest == SubSeq(s, 1, Len(s) - 1)
           n == Len(s)
<1>6. Len(rest) = n - 1
  <2>1. n \in Nat \ {0} /\ Len(rest) = IF 1 <= n - 1 THEN n - 1 - 1 + 1 ELSE 0
    BY <1>1, <1>4
  <2> HIDE DEF rest, n
  <2>2. QED
    BY <2>1
<1>7. QED
  BY <1>1, <1>4, <1>5, <1>6

\* What a scope that closes leaves.
LEMMA CloseScopeFacts ==
    ASSUME ThreadTypes, NEW t \in RenderThreads, stack[t] # <<>>, CloseScope(t)
    PROVE  /\ stack' \in [RenderThreads -> Seq(BOOLEAN)]
           /\ at' \in [RenderThreads -> {"engine", "jumping", "counted", "claim", "fill"}]
           /\ mark' \in [RenderThreads -> Marks]
           /\ Len(stack[t]) \in Nat \ {0} /\ Len(stack'[t]) = Len(stack[t]) - 1
           /\ \A i \in 1 .. Len(stack'[t]) : stack'[t][i] = stack[t][i]
           /\ at'[t] = "engine"
           /\ \A u \in RenderThreads \ {t} :
                 stack'[u] = stack[u] /\ at'[u] = at[u] /\ mark'[u] = mark[u]
<1>1. /\ stack[t] \in Seq(BOOLEAN) /\ stack \in [RenderThreads -> Seq(BOOLEAN)]
      /\ at \in [RenderThreads -> {"engine", "jumping", "counted", "claim", "fill"}]
      /\ mark \in [RenderThreads -> Marks]
  BY DEF ThreadTypes
<1> DEFINE rest == SubSeq(stack[t], 1, Len(stack[t]) - 1)
<1>2. /\ Len(stack[t]) \in Nat \ {0} /\ rest \in Seq(BOOLEAN)
      /\ Len(rest) = Len(stack[t]) - 1
      /\ \A i \in 1 .. Len(stack[t]) - 1 : rest[i] = stack[t][i]
  BY <1>1, LastDropped
<1>3. /\ stack' = [stack EXCEPT ![t] = rest]
      /\ at' = [at EXCEPT ![t] = "engine"] /\ mark' = [mark EXCEPT ![t] = "entry"]
  BY DEF CloseScope
<1>4. "entry" \in Marks
  BY DEF Marks
<1> HIDE DEF rest
<1>5. stack' \in [RenderThreads -> Seq(BOOLEAN)] /\ stack'[t] = rest
      /\ \A u \in RenderThreads \ {t} : stack'[u] = stack[u]
  BY <1>1, <1>2, <1>3
<1>6. /\ at' \in [RenderThreads -> {"engine", "jumping", "counted", "claim", "fill"}]
      /\ mark' \in [RenderThreads -> Marks] /\ at'[t] = "engine"
      /\ \A u \in RenderThreads \ {t} : at'[u] = at[u] /\ mark'[u] = mark[u]
  BY <1>1, <1>3, <1>4
<1>7. QED
  BY <1>2, <1>5, <1>6

\* Scopes that stay open are counted as before.
LEMMA ScopesStay ==
    ASSUME TraceInv, active' = active, stack' = stack,
           \A t \in RenderThreads : at'[t] = "counted" <=> at[t] = "counted",
           \A t \in RenderThreads : at'[t] \in {"claim", "fill"} => stack[t] # <<>>
    PROVE  ActiveCounts'
<1>1. OpenScopes' = OpenScopes
  BY DEF OpenScopes
<1>2. QED
  BY <1>1 DEF TraceInv, ActiveCounts

\* A scope that closes is no longer counted.
LEMMA ScopeCloses ==
    ASSUME TraceInv, NEW t \in RenderThreads, stack[t] # <<>>, at[t] # "counted", CloseScope(t)
    PROVE  ActiveCounts' /\ active' \in Nat
<1>1. ThreadTypes /\ ActiveCounts
  BY DEF TraceInv, TraceTypes
<1> DEFINE s == <<t, Len(stack[t])>>
<1>2. /\ Len(stack[t]) \in Nat \ {0} /\ Len(stack'[t]) = Len(stack[t]) - 1
      /\ at'[t] = "engine"
      /\ \A u \in RenderThreads \ {t} : stack'[u] = stack[u] /\ at'[u] = at[u]
  BY <1>1, CloseScopeFacts
<1>3. s \in OpenScopes
  BY <1>2 DEF OpenScopes
<1>4. OpenScopes' = OpenScopes \ {s}
  <2>1. ASSUME NEW u \in RenderThreads, NEW n \in Nat \ {0}
        PROVE  <<u, n>> \in OpenScopes' <=> <<u, n>> \in OpenScopes \ {s}
    <3>1. CASE u = t
      BY <1>2, <3>1 DEF OpenScopes
    <3>2. CASE u # t
      BY <1>2, <3>2 DEF OpenScopes
    <3>3. QED
      BY <3>1, <3>2
  <2>2. OpenScopes \subseteq RenderThreads \X (Nat \ {0})
        /\ OpenScopes' \subseteq RenderThreads \X (Nat \ {0})
    BY DEF OpenScopes
  <2> HIDE DEF s
  <2>3. QED
    BY <2>1, <2>2
<1>5. /\ IsFiniteSet(OpenScopes) /\ active = Cardinality(OpenScopes)
      /\ Cardinality(OpenScopes \ {s}) = Cardinality(OpenScopes) - 1
      /\ IsFiniteSet(OpenScopes \ {s}) /\ Cardinality(OpenScopes \ {s}) \in Nat
  BY <1>1, <1>3, FS_RemoveElement, FS_CardinalityType DEF ActiveCounts
<1>6. active' = active - 1
  BY DEF CloseScope
<1>7. active' = Cardinality(OpenScopes') /\ IsFiniteSet(OpenScopes') /\ active' \in Nat
  BY <1>4, <1>5, <1>6
<1>8. \A u \in RenderThreads : at'[u] \in {"claim", "fill"} => stack'[u] # <<>>
  BY <1>1, <1>2 DEF ActiveCounts
<1>9. QED
  BY <1>7, <1>8 DEF ActiveCounts


\* The stack of a thread after it looked.
LEMMA LookFacts ==
    ASSUME ThreadTypes, NEW t \in RenderThreads, Look(t)
    PROVE  \E recorded \in BOOLEAN :
             /\ recorded = (accepting \/ \E i \in 1 .. Len(stack[t]) : stack[t][i])
             /\ at[t] = "counted" /\ at'[t] = IF recorded THEN "claim" ELSE "engine"
             /\ Len(stack[t]) \in Nat /\ Len(stack'[t]) = Len(stack[t]) + 1
             /\ stack'[t][Len(stack[t]) + 1] = recorded
             /\ \A i \in 1 .. Len(stack[t]) : stack'[t][i] = stack[t][i]
             /\ stack' \in [RenderThreads -> Seq(BOOLEAN)]
             /\ at' \in [RenderThreads -> {"engine", "jumping", "counted", "claim", "fill"}]
             /\ mark' \in [RenderThreads -> Marks]
             /\ \A u \in RenderThreads \ {t} :
                   stack'[u] = stack[u] /\ at'[u] = at[u] /\ mark'[u] = mark[u]
<1>1. /\ stack[t] \in Seq(BOOLEAN) /\ stack \in [RenderThreads -> Seq(BOOLEAN)]
      /\ at \in [RenderThreads -> {"engine", "jumping", "counted", "claim", "fill"}]
      /\ mark \in [RenderThreads -> Marks]
  BY DEF ThreadTypes
<1>2. Len(stack[t]) \in Nat /\ DOMAIN stack[t] = 1 .. Len(stack[t])
  BY <1>1, LenProperties
<1> DEFINE r == accepting \/ \E i \in DOMAIN stack[t] : stack[t][i]
           more == Append(stack[t], r)
<1>3. /\ stack' = [stack EXCEPT ![t] = more]
      /\ at' = [at EXCEPT ![t] = IF r THEN "claim" ELSE "engine"]
      /\ mark' = [mark EXCEPT ![t] = "entry"] /\ at[t] = "counted"
  BY DEF Look
<1>4. r \in BOOLEAN /\ r = (accepting \/ \E i \in 1 .. Len(stack[t]) : stack[t][i])
  BY <1>2
<1>5. /\ more \in Seq(BOOLEAN) /\ Len(more) = Len(stack[t]) + 1 /\ more[Len(stack[t]) + 1] = r
      /\ \A i \in 1 .. Len(stack[t]) : more[i] = stack[t][i]
  BY <1>1, <1>4, AppendProperties
<1>6. "entry" \in Marks
  BY DEF Marks
<1> HIDE DEF more, r
<1>7. /\ stack' \in [RenderThreads -> Seq(BOOLEAN)] /\ stack'[t] = more
      /\ \A u \in RenderThreads \ {t} : stack'[u] = stack[u]
  BY <1>1, <1>3, <1>5
<1>8. /\ at' \in [RenderThreads -> {"engine", "jumping", "counted", "claim", "fill"}]
      /\ at'[t] = IF r THEN "claim" ELSE "engine"
      /\ mark' \in [RenderThreads -> Marks]
      /\ \A u \in RenderThreads \ {t} : at'[u] = at[u] /\ mark'[u] = mark[u]
  BY <1>1, <1>3, <1>6
<1>9. QED
  BY <1>2, <1>3, <1>4, <1>5, <1>7, <1>8

\* A thread that looks was counted already.
LEMMA LookCounts ==
    ASSUME TraceInv, NEW t \in RenderThreads, Look(t)
    PROVE  ActiveCounts'
<1>1. ThreadTypes /\ ActiveCounts /\ active' = active
  BY DEF TraceInv, TraceTypes, Look
<1>2. /\ at[t] = "counted" /\ at'[t] # "counted"
      /\ Len(stack[t]) \in Nat /\ Len(stack'[t]) = Len(stack[t]) + 1
      /\ \A u \in RenderThreads \ {t} : stack'[u] = stack[u] /\ at'[u] = at[u]
  BY <1>1, LookFacts
<1>3. OpenScopes' = OpenScopes
  <2>1. ASSUME NEW u \in RenderThreads, NEW n \in Nat \ {0}
        PROVE  <<u, n>> \in OpenScopes' <=> <<u, n>> \in OpenScopes
    <3>1. CASE u = t
      BY <1>2, <3>1 DEF OpenScopes
    <3>2. CASE u # t
      BY <1>2, <3>2 DEF OpenScopes
    <3>3. QED
      BY <3>1, <3>2
  <2>2. OpenScopes \subseteq RenderThreads \X (Nat \ {0})
        /\ OpenScopes' \subseteq RenderThreads \X (Nat \ {0})
    BY DEF OpenScopes
  <2>3. QED
    BY <2>1, <2>2
<1>4. stack'[t] # <<>>
  BY <1>2, EmptySeq
<1>5. \A u \in RenderThreads : at'[u] \in {"claim", "fill"} => stack'[u] # <<>>
  BY <1>1, <1>2, <1>4 DEF ActiveCounts
<1>6. QED
  BY <1>1, <1>3, <1>5 DEF ActiveCounts

\* A thread is counted when it enters.
LEMMA CountCounts ==
    ASSUME TraceInv, NEW t \in RenderThreads, Count(t)
    PROVE  ActiveCounts' /\ active' \in Nat
<1>1. ThreadTypes /\ ActiveCounts /\ stack' = stack /\ active' = active + 1
      /\ at[t] = "jumping" /\ at' = [at EXCEPT ![t] = "counted"]
  BY DEF TraceInv, TraceTypes, Count
<1>2. /\ at'[t] = "counted" /\ \A u \in RenderThreads \ {t} : at'[u] = at[u]
      /\ stack[t] \in Seq(BOOLEAN)
  BY <1>1 DEF ThreadTypes
<1>3. Len(stack[t]) \in Nat
  BY <1>2, LenProperties
<1> DEFINE s == <<t, Len(stack[t]) + 1>>
<1>4. s \notin OpenScopes
  BY <1>1, <1>3 DEF OpenScopes
<1>5. OpenScopes' = OpenScopes \cup {s}
  <2>1. ASSUME NEW u \in RenderThreads, NEW n \in Nat \ {0}
        PROVE  <<u, n>> \in OpenScopes' <=> <<u, n>> \in OpenScopes \cup {s}
    <3>1. CASE u = t
      BY <1>1, <1>2, <1>3, <3>1 DEF OpenScopes
    <3>2. CASE u # t
      BY <1>1, <1>2, <3>2 DEF OpenScopes
    <3>3. QED
      BY <3>1, <3>2
  <2>2. OpenScopes \subseteq RenderThreads \X (Nat \ {0})
        /\ OpenScopes' \subseteq RenderThreads \X (Nat \ {0})
        /\ s \in RenderThreads \X (Nat \ {0})
    BY <1>3 DEF OpenScopes
  <2> HIDE DEF s
  <2>3. QED
    BY <2>1, <2>2
<1>6. /\ IsFiniteSet(OpenScopes) /\ active = Cardinality(OpenScopes)
      /\ Cardinality(OpenScopes \cup {s}) = Cardinality(OpenScopes) + 1
      /\ IsFiniteSet(OpenScopes \cup {s}) /\ Cardinality(OpenScopes) \in Nat
  BY <1>1, <1>4, FS_AddElement, FS_CardinalityType DEF ActiveCounts
<1>7. active' = Cardinality(OpenScopes') /\ IsFiniteSet(OpenScopes') /\ active' \in Nat
  BY <1>1, <1>5, <1>6
<1>8. \A u \in RenderThreads : at'[u] \in {"claim", "fill"} => stack'[u] # <<>>
  BY <1>1, <1>2 DEF ActiveCounts
<1>9. QED
  BY <1>7, <1>8 DEF ActiveCounts


\* A position of the ring is mapped to one of its slots.
LEMMA RingSlotType == \A p \in Nat : RingSlot(p) \in RingSlots
<1> SUFFICES ASSUME NEW p \in Nat PROVE RingSlot(p) \in RingSlots
  OBVIOUS
<1>1. RingSize \in Nat \ {0}
  BY TraceAssumption
<1>2. p % RingSize \in 0 .. RingSize - 1
  BY <1>1
<1>3. QED
  BY <1>2 DEF RingSlot, RingSlots

\* A slot that carries its record was claimed, and carries the claimed record.
LEMMA FilledWasClaimed ==
    ASSUME TraceInv, Filled
    PROVE  /\ dequeue < enqueue /\ dequeue + 1 \in 1 .. Len(claims)
           /\ ring[RingSlot(dequeue)].record = claims[dequeue + 1]
<1>1. dequeue \in Nat /\ enqueue \in Nat /\ RingSize \in Nat \ {0} /\ dequeue <= enqueue
      /\ Len(claims) = enqueue
  BY TraceAssumption DEF TraceInv, TraceTypes, QueueTypes, RingHolds, FileFollowsClaims
<1>2. ring[RingSlot(dequeue)].seq = dequeue + 1
  BY DEF Filled
<1>3. dequeue # enqueue
  <2>1. enqueue <= dequeue /\ dequeue < dequeue + RingSize =>
           ring[RingSlot(dequeue)].seq = dequeue
    BY <1>1 DEF TraceInv, RingHolds
  <2>2. QED
    BY <1>1, <1>2, <2>1
<1>4. FilledAt(dequeue) \/ FillingAt(dequeue)
  BY <1>1, <1>3 DEF TraceInv, RingHolds
<1>5. ~FillingAt(dequeue)
  BY <1>1, <1>2 DEF FillingAt
<1>6. QED
  BY <1>1, <1>3, <1>4, <1>5 DEF FilledAt

\* When nobody is filling a slot, an unfilled slot means that the ring is empty.
LEMMA SilentRingIsDrained ==
    ASSUME TraceInv, Silent, ~Filled
    PROVE  enqueue = dequeue
<1>1. dequeue \in Nat /\ enqueue \in Nat /\ dequeue <= enqueue
  BY DEF TraceInv, TraceTypes, QueueTypes, RingHolds
<1>2. SUFFICES ASSUME dequeue < enqueue PROVE FALSE
  BY <1>1
<1>3. FilledAt(dequeue) \/ FillingAt(dequeue)
  BY <1>1, <1>2 DEF TraceInv, RingHolds
<1>4. ~FillingAt(dequeue)
  BY DEF Silent, FillingAt
<1>5. QED
  BY <1>3, <1>4 DEF FilledAt, Filled

\* When no wrapper is counted, nothing more will be recorded.
LEMMA NobodyInside ==
    ASSUME TraceInv, active = 0
    PROVE  Silent
<1>1. ThreadTypes /\ ActiveCounts
  BY DEF TraceInv, TraceTypes
<1>2. OpenScopes = {}
  BY <1>1, FS_EmptySet DEF ActiveCounts
<1>3. ASSUME NEW t \in RenderThreads PROVE stack[t] = <<>>
  <2>1. stack[t] \in Seq(BOOLEAN)
    BY <1>1 DEF ThreadTypes
  <2>2. Len(stack[t]) \in Nat
    BY <2>1, LenProperties
  <2>3. CASE Len(stack[t]) = 0
    BY <2>1, <2>3, EmptySeq
  <2>4. CASE Len(stack[t]) # 0
    <3>1. <<t, Len(stack[t])>> \in OpenScopes
      BY <2>2, <2>4 DEF OpenScopes
    <3>2. QED
      BY <1>2, <3>1
  <2>5. QED
    BY <2>3, <2>4
<1>4. \A t \in RenderThreads : at[t] \notin {"claim", "fill"} /\ Len(stack[t]) = 0
  BY <1>1, <1>3, EmptySeq DEF ActiveCounts
<1>5. QED
  BY <1>4 DEF Silent

\* What a finished record leaves.
LEMMA AfterRecordFacts ==
    ASSUME TraceInv, NEW t \in RenderThreads, at[t] \in {"claim", "fill"}, AfterRecord(t)
    PROVE  /\ stack' \in [RenderThreads -> Seq(BOOLEAN)]
           /\ at' \in [RenderThreads -> {"engine", "jumping", "counted", "claim", "fill"}]
           /\ mark' \in [RenderThreads -> Marks]
           /\ ActiveCounts' /\ active' \in Nat
           /\ at'[t] = "engine"
           /\ \A i \in 1 .. Len(stack'[t]) : stack'[t][i] = stack[t][i]
           /\ \A u \in RenderThreads \ {t} :
                 stack'[u] = stack[u] /\ at'[u] = at[u] /\ mark'[u] = mark[u]
<1>1. ThreadTypes /\ stack[t] # <<>> /\ at[t] # "counted"
  BY DEF TraceInv, TraceTypes, ActiveCounts
<1>2. CASE mark[t] = "exit"
  <2>1. CloseScope(t)
    BY <1>2 DEF AfterRecord
  <2>2. QED
    BY <1>1, <2>1, CloseScopeFacts, ScopeCloses
<1>3. CASE mark[t] # "exit"
  <2>1. /\ at' = [at EXCEPT ![t] = "engine"] /\ mark' = [mark EXCEPT ![t] = "entry"]
        /\ active' = active /\ stack' = stack
    BY <1>3 DEF AfterRecord
  <2>2. "entry" \in Marks
    BY DEF Marks
  <2>3. /\ at' \in [RenderThreads -> {"engine", "jumping", "counted", "claim", "fill"}]
        /\ at'[t] = "engine" /\ \A u \in RenderThreads \ {t} : at'[u] = at[u]
    BY <1>1, <2>1 DEF ThreadTypes
  <2>4. mark' \in [RenderThreads -> Marks] /\ \A u \in RenderThreads \ {t} : mark'[u] = mark[u]
    BY <1>1, <2>1, <2>2 DEF ThreadTypes
  <2>5. ActiveCounts'
    <3>1. \A u \in RenderThreads : at'[u] = "counted" <=> at[u] = "counted"
      BY <1>1, <2>3
    <3>2. \A u \in RenderThreads : at'[u] \in {"claim", "fill"} => stack[u] # <<>>
      BY <1>1, <2>3 DEF TraceInv, ActiveCounts
    <3>3. QED
      BY <2>1, <3>1, <3>2, ScopesStay
  <2>6. QED
    BY <1>1, <2>1, <2>3, <2>4, <2>5 DEF ThreadTypes
<1>4. QED
  BY <1>2, <1>3

\* The steps keep the types of the render threads.
LEMMA ThreadTypeStep ==
    ASSUME TraceInv, TraceNext
    PROVE  ThreadTypes'
<1> USE DEF TraceInv, TraceTypes, ThreadTypes, control, patching, flags, queue, writing, threads
<1>1. ASSUME NEW double \in BOOLEAN, ClaimTrace(double) PROVE ThreadTypes'
  BY <1>1 DEF ClaimTrace
<1>2. ASSUME NEW double \in BOOLEAN, RefusedBootstrap(double) PROVE ThreadTypes'
  BY <1>2 DEF RefusedBootstrap
<1>3. CASE Prepare
  BY <1>3 DEF Prepare
<1>4. CASE PrepareFails
  BY <1>4 DEF PrepareFails
<1>5. CASE StartWriter
  BY <1>5 DEF StartWriter
<1>6. CASE SetOriginals
  BY <1>6 DEF SetOriginals
<1>7. CASE DecideInstall
  BY <1>7 DEF DecideInstall
<1>8. CASE ExchangeInstall
  BY <1>8 DEF ExchangeInstall, Exchange, InstalledIfExchanged
<1>9. CASE InstallFails
  BY <1>9 DEF InstallFails
<1>10. CASE Activate
  BY <1>10 DEF Activate
<1>11. CASE Report
  BY <1>11 DEF Report
<1>12. CASE ReportFailed
  BY <1>12 DEF ReportFailed
<1>13. CASE Cleanup
  BY <1>13 DEF Cleanup
<1>14. CASE CleanupEnds
  BY <1>14 DEF CleanupEnds
<1>15. CASE StopRenderTrace
  BY <1>15 DEF StopRenderTrace
<1>16. CASE TraceExpires
  BY <1>16 DEF TraceExpires
<1>17. CASE BeginStop
  BY <1>17 DEF BeginStop
<1>18. CASE DecideRestore
  BY <1>18 DEF DecideRestore, Restoring
<1>19. CASE ExchangeRestore
  BY <1>19 DEF ExchangeRestore, Restoring, Exchange
<1>20. CASE RestoreFails
  BY <1>20 DEF RestoreFails, Restoring
<1>21. CASE WrappersGone
  BY <1>21 DEF WrappersGone, QuietWhenEmpty
<1>22. CASE StopTimesOut
  BY <1>22 DEF StopTimesOut
<1>23. CASE StopCompletes
  BY <1>23 DEF StopCompletes
<1>24. ASSUME NEW h \in Hooks, ForeignPatch(h) PROVE ThreadTypes'
  BY <1>24 DEF ForeignPatch
<1>25. ASSUME NEW t \in RenderThreads, Fetch(t) PROVE ThreadTypes'
  BY <1>25 DEF Fetch
<1>26. ASSUME NEW t \in RenderThreads, Count(t) PROVE ThreadTypes'
  BY <1>26, CountCounts DEF Count
<1>27. ASSUME NEW t \in RenderThreads, Look(t) PROVE ThreadTypes'
  <2>1. ThreadTypes
    BY <1>27
  <2>2. active' = active /\ place' = place
    BY <1>27 DEF Look
  <2>3. /\ stack' \in [RenderThreads -> Seq(BOOLEAN)] /\ mark' \in [RenderThreads -> Marks]
        /\ at' \in [RenderThreads -> {"engine", "jumping", "counted", "claim", "fill"}]
    BY <1>27, <2>1, LookFacts
  <2>4. QED
    BY <2>2, <2>3
<1>28. ASSUME NEW t \in RenderThreads, ExtraPass(t) PROVE ThreadTypes'
  BY <1>28 DEF ExtraPass, Marks
<1>29. ASSUME NEW t \in RenderThreads, Return(t) PROVE ThreadTypes'
  <2>1. stack[t] # <<>> /\ at[t] # "counted" /\ place' = place /\ ThreadTypes
    BY <1>29 DEF Return
  <2>2. CASE CloseScope(t)
    BY <2>1, <2>2, CloseScopeFacts, ScopeCloses
  <2>3. CASE ~CloseScope(t)
    <3>1. /\ at' = [at EXCEPT ![t] = "claim"] /\ mark' = [mark EXCEPT ![t] = "exit"]
          /\ active' = active /\ stack' = stack
      BY <1>29, <2>3 DEF Return
    <3>2. QED
      BY <2>1, <3>1 DEF Marks
  <2>4. QED
    BY <2>2, <2>3
<1>30. ASSUME NEW t \in RenderThreads, ClaimSlot(t) PROVE ThreadTypes'
  <2>1. ThreadTypes /\ QueueTypes
    BY <1>30
  <2>2. QED
    BY <1>30, <2>1 DEF ClaimSlot, QueueTypes
<1>31. ASSUME NEW t \in RenderThreads, DropRecord(t) PROVE ThreadTypes'
  <2>1. at[t] \in {"claim", "fill"} /\ AfterRecord(t) /\ place' = place
    BY <1>31 DEF DropRecord
  <2>2. QED
    BY <2>1, AfterRecordFacts
<1>32. ASSUME NEW t \in RenderThreads, FillSlot(t) PROVE ThreadTypes'
  <2>1. at[t] \in {"claim", "fill"} /\ AfterRecord(t) /\ place' = [place EXCEPT ![t] = 0]
    BY <1>32 DEF FillSlot
  <2>2. place' \in [RenderThreads -> Nat]
    BY <2>1
  <2>3. QED
    BY <2>1, <2>2, AfterRecordFacts
<1>33. CASE WriterStep
  BY <1>33 DEF WriterStep, Dequeue, WriteRecord
<1>34. QED
  BY <1>1, <1>2, <1>3, <1>4, <1>5, <1>6, <1>7, <1>8, <1>9, <1>10, <1>11, <1>12, <1>13, <1>14,
      <1>15, <1>16, <1>17, <1>18, <1>19, <1>20, <1>21, <1>22, <1>23, <1>24, <1>25, <1>26, <1>27,
      <1>28, <1>29, <1>30, <1>31, <1>32, <1>33 DEF TraceNext

\* While no thread moves, the scopes stay open.
LEMMA ScopesQuiet ==
    ASSUME TraceInv, UNCHANGED threads
    PROVE  ActiveCounts'
<1>1. active' = active /\ stack' = stack /\ at' = at
  BY DEF threads
<1>2. OpenScopes' = OpenScopes
  BY <1>1 DEF OpenScopes
<1>3. QED
  BY <1>1, <1>2 DEF TraceInv, ActiveCounts

\* The steps count the wrappers in flight.
LEMMA ActiveStep ==
    ASSUME TraceInv, TraceNext
    PROVE  ActiveCounts'
<1>1. ASSUME NEW double \in BOOLEAN, ClaimTrace(double) PROVE ActiveCounts'
  BY <1>1, ScopesQuiet DEF ClaimTrace
<1>2. ASSUME NEW double \in BOOLEAN, RefusedBootstrap(double) PROVE ActiveCounts'
  BY <1>2, ScopesQuiet DEF RefusedBootstrap
<1>3. CASE Prepare
  BY <1>3, ScopesQuiet DEF Prepare
<1>4. CASE PrepareFails
  BY <1>4, ScopesQuiet DEF PrepareFails
<1>5. CASE StartWriter
  BY <1>5, ScopesQuiet DEF StartWriter
<1>6. CASE SetOriginals
  BY <1>6, ScopesQuiet DEF SetOriginals
<1>7. CASE DecideInstall
  BY <1>7, ScopesQuiet DEF DecideInstall
<1>8. CASE ExchangeInstall
  BY <1>8, ScopesQuiet DEF ExchangeInstall, Exchange, InstalledIfExchanged
<1>9. CASE InstallFails
  BY <1>9, ScopesQuiet DEF InstallFails
<1>10. CASE Activate
  BY <1>10, ScopesQuiet DEF Activate
<1>11. CASE Report
  BY <1>11, ScopesQuiet DEF Report
<1>12. CASE ReportFailed
  BY <1>12, ScopesQuiet DEF ReportFailed
<1>13. CASE Cleanup
  BY <1>13, ScopesQuiet DEF Cleanup
<1>14. CASE CleanupEnds
  BY <1>14, ScopesQuiet DEF CleanupEnds
<1>15. CASE StopRenderTrace
  BY <1>15, ScopesQuiet DEF StopRenderTrace
<1>16. CASE TraceExpires
  BY <1>16, ScopesQuiet DEF TraceExpires
<1>17. CASE BeginStop
  BY <1>17, ScopesQuiet DEF BeginStop
<1>18. CASE DecideRestore
  BY <1>18, ScopesQuiet DEF DecideRestore, Restoring
<1>19. CASE ExchangeRestore
  BY <1>19, ScopesQuiet DEF ExchangeRestore, Restoring, Exchange
<1>20. CASE RestoreFails
  BY <1>20, ScopesQuiet DEF RestoreFails, Restoring
<1>21. CASE WrappersGone
  BY <1>21, ScopesQuiet DEF WrappersGone, QuietWhenEmpty
<1>22. CASE StopTimesOut
  BY <1>22, ScopesQuiet DEF StopTimesOut
<1>23. CASE StopCompletes
  BY <1>23, ScopesQuiet DEF StopCompletes
<1>24. ASSUME NEW h \in Hooks, ForeignPatch(h) PROVE ActiveCounts'
  BY <1>24, ScopesQuiet DEF ForeignPatch
<1>25. ASSUME NEW t \in RenderThreads, Fetch(t) PROVE ActiveCounts'
  <2>1. /\ at' = [at EXCEPT ![t] = "jumping"] /\ at[t] = "engine" /\ active' = active
        /\ stack' = stack
        /\ ThreadTypes /\ ActiveCounts
    BY <1>25 DEF Fetch, TraceInv, TraceTypes
  <2>2. \A u \in RenderThreads : at'[u] = IF u = t THEN "jumping" ELSE at[u]
    BY <2>1 DEF ThreadTypes
  <2>3. QED
    BY <2>1, <2>2, ScopesStay DEF ActiveCounts
<1>26. ASSUME NEW t \in RenderThreads, Count(t) PROVE ActiveCounts'
  BY <1>26, CountCounts
<1>27. ASSUME NEW t \in RenderThreads, Look(t) PROVE ActiveCounts'
  BY <1>27, LookCounts
<1>28. ASSUME NEW t \in RenderThreads, ExtraPass(t) PROVE ActiveCounts'
  <2>1. /\ at' = [at EXCEPT ![t] = "claim"] /\ at[t] = "engine" /\ active' = active
        /\ stack' = stack
        /\ ThreadTypes /\ ActiveCounts /\ stack[t] # <<>>
    BY <1>28 DEF ExtraPass, TraceInv, TraceTypes
  <2>2. \A u \in RenderThreads : at'[u] = IF u = t THEN "claim" ELSE at[u]
    BY <2>1 DEF ThreadTypes
  <2>3. QED
    BY <2>1, <2>2, ScopesStay DEF ActiveCounts
<1>29. ASSUME NEW t \in RenderThreads, Return(t) PROVE ActiveCounts'
  <2>1. stack[t] # <<>> /\ at[t] = "engine" /\ ThreadTypes /\ ActiveCounts
    BY <1>29 DEF Return, TraceInv, TraceTypes
  <2>2. CASE CloseScope(t)
    BY <2>1, <2>2, ScopeCloses
  <2>3. CASE ~CloseScope(t)
    <3>1. at' = [at EXCEPT ![t] = "claim"] /\ active' = active /\ stack' = stack
      BY <1>29, <2>3 DEF Return
    <3>2. \A u \in RenderThreads : at'[u] = IF u = t THEN "claim" ELSE at[u]
      BY <2>1, <3>1 DEF ThreadTypes
    <3>3. QED
      BY <2>1, <3>1, <3>2, ScopesStay DEF ActiveCounts
  <2>4. QED
    BY <2>2, <2>3
<1>30. ASSUME NEW t \in RenderThreads, ClaimSlot(t) PROVE ActiveCounts'
  <2>1. /\ at' = [at EXCEPT ![t] = "fill"] /\ at[t] = "claim" /\ active' = active /\ stack' = stack
        /\ ThreadTypes /\ ActiveCounts
    BY <1>30 DEF ClaimSlot, TraceInv, TraceTypes
  <2>2. \A u \in RenderThreads : at'[u] = IF u = t THEN "fill" ELSE at[u]
    BY <2>1 DEF ThreadTypes
  <2>3. QED
    BY <2>1, <2>2, ScopesStay DEF ActiveCounts
<1>31. ASSUME NEW t \in RenderThreads, DropRecord(t) PROVE ActiveCounts'
  <2>1. at[t] \in {"claim", "fill"} /\ AfterRecord(t)
    BY <1>31 DEF DropRecord
  <2>2. QED
    BY <2>1, AfterRecordFacts
<1>32. ASSUME NEW t \in RenderThreads, FillSlot(t) PROVE ActiveCounts'
  <2>1. at[t] \in {"claim", "fill"} /\ AfterRecord(t)
    BY <1>32 DEF FillSlot
  <2>2. QED
    BY <2>1, AfterRecordFacts
<1>33. CASE WriterStep
  BY <1>33, ScopesQuiet DEF WriterStep, Dequeue, WriteRecord
<1>34. QED
  BY <1>1, <1>2, <1>3, <1>4, <1>5, <1>6, <1>7, <1>8, <1>9, <1>10, <1>11, <1>12, <1>13, <1>14,
      <1>15, <1>16, <1>17, <1>18, <1>19, <1>20, <1>21, <1>22, <1>23, <1>24, <1>25, <1>26, <1>27,
      <1>28, <1>29, <1>30, <1>31, <1>32, <1>33 DEF TraceNext

\* The steps keep the types of the ring.
LEMMA QueueTypeStep ==
    ASSUME TraceInv, TraceNext
    PROVE  QueueTypes'
<1> USE DEF TraceInv, TraceTypes, QueueTypes, control, patching, flags, queue, writing, threads
<1>1. ASSUME NEW double \in BOOLEAN, ClaimTrace(double) PROVE QueueTypes'
  BY <1>1 DEF ClaimTrace
<1>2. ASSUME NEW double \in BOOLEAN, RefusedBootstrap(double) PROVE QueueTypes'
  BY <1>2 DEF RefusedBootstrap
<1>3. CASE Prepare
  BY <1>3 DEF Prepare
<1>4. CASE PrepareFails
  BY <1>4 DEF PrepareFails
<1>5. CASE StartWriter
  <2>1. /\ ring' = EmptyRing /\ enqueue' = 0 /\ dequeue' = 0 /\ claims' = claims /\ file' = file
    BY <1>5 DEF StartWriter
  <2>2. EmptyRing \in [RingSlots -> [seq : Nat, record : Traced \cup {NoRecord}]]
    BY TraceAssumption DEF EmptyRing, RingSlots
  <2>3. QED
    BY <2>1, <2>2
<1>6. CASE SetOriginals
  BY <1>6 DEF SetOriginals
<1>7. CASE DecideInstall
  BY <1>7 DEF DecideInstall
<1>8. CASE ExchangeInstall
  BY <1>8 DEF ExchangeInstall, Exchange, InstalledIfExchanged
<1>9. CASE InstallFails
  BY <1>9 DEF InstallFails
<1>10. CASE Activate
  BY <1>10 DEF Activate
<1>11. CASE Report
  BY <1>11 DEF Report
<1>12. CASE ReportFailed
  BY <1>12 DEF ReportFailed
<1>13. CASE Cleanup
  BY <1>13 DEF Cleanup
<1>14. CASE CleanupEnds
  BY <1>14 DEF CleanupEnds
<1>15. CASE StopRenderTrace
  BY <1>15 DEF StopRenderTrace
<1>16. CASE TraceExpires
  BY <1>16 DEF TraceExpires
<1>17. CASE BeginStop
  BY <1>17 DEF BeginStop
<1>18. CASE DecideRestore
  BY <1>18 DEF DecideRestore, Restoring
<1>19. CASE ExchangeRestore
  BY <1>19 DEF ExchangeRestore, Restoring, Exchange
<1>20. CASE RestoreFails
  BY <1>20 DEF RestoreFails, Restoring
<1>21. CASE WrappersGone
  BY <1>21 DEF WrappersGone, QuietWhenEmpty
<1>22. CASE StopTimesOut
  BY <1>22 DEF StopTimesOut
<1>23. CASE StopCompletes
  BY <1>23 DEF StopCompletes
<1>24. ASSUME NEW h \in Hooks, ForeignPatch(h) PROVE QueueTypes'
  BY <1>24 DEF ForeignPatch
<1>25. ASSUME NEW t \in RenderThreads, Fetch(t) PROVE QueueTypes'
  BY <1>25 DEF Fetch
<1>26. ASSUME NEW t \in RenderThreads, Count(t) PROVE QueueTypes'
  BY <1>26 DEF Count
<1>27. ASSUME NEW t \in RenderThreads, Look(t) PROVE QueueTypes'
  BY <1>27 DEF Look
<1>28. ASSUME NEW t \in RenderThreads, ExtraPass(t) PROVE QueueTypes'
  BY <1>28 DEF ExtraPass
<1>29. ASSUME NEW t \in RenderThreads, Return(t) PROVE QueueTypes'
  BY <1>29 DEF Return, CloseScope
<1>30. ASSUME NEW t \in RenderThreads, ClaimSlot(t) PROVE QueueTypes'
  <2>1. /\ claims' = Append(claims, <<t, mark[t], Len(stack[t])>>) /\ enqueue' = enqueue + 1
        /\ ring' = ring /\ dequeue' = dequeue /\ file' = file
    BY <1>30 DEF ClaimSlot
  <2>2. <<t, mark[t], Len(stack[t])>> \in Traced
    BY DEF ThreadTypes, Traced
  <2> HIDE DEF Traced
  <2>3. QED
    BY <2>1, <2>2
<1>31. ASSUME NEW t \in RenderThreads, DropRecord(t) PROVE QueueTypes'
  BY <1>31 DEF DropRecord, AfterRecord, CloseScope
<1>32. ASSUME NEW t \in RenderThreads, FillSlot(t) PROVE QueueTypes'
  <2>1. /\ ring' = [ring EXCEPT ![RingSlot(place[t])] =
                     [seq |-> place[t] + 1, record |-> <<t, mark[t], Len(stack[t])>>]]
        /\ claims' = claims /\ enqueue' = enqueue /\ dequeue' = dequeue /\ file' = file
    BY <1>32 DEF FillSlot
  <2>2. <<t, mark[t], Len(stack[t])>> \in Traced /\ place[t] + 1 \in Nat
    BY DEF ThreadTypes, Traced
  <2> HIDE DEF Traced
  <2>3. [seq |-> place[t] + 1, record |-> <<t, mark[t], Len(stack[t])>>]
           \in [seq : Nat, record : Traced \cup {NoRecord}]
    BY <2>2
  <2>4. QED
    BY <2>1, <2>3
<1>33. CASE WriterStep
  <2>1. CASE UNCHANGED queue
    BY <2>1
  <2>2. CASE Filled /\ Dequeue
    <3>1. /\ file' = Append(file, ring[RingSlot(dequeue)].record)
          /\ ring' = [ring EXCEPT ![RingSlot(dequeue)] =
                        [ring[RingSlot(dequeue)] EXCEPT !.seq = dequeue + RingSize]]
          /\ dequeue' = dequeue + 1 /\ enqueue' = enqueue /\ claims' = claims
      BY <2>2 DEF Dequeue, WriteRecord
    <3>2. dequeue + RingSize \in Nat /\ RingSlot(dequeue) \in RingSlots
      BY RingSlotType, TraceAssumption
    <3>3. [ring[RingSlot(dequeue)] EXCEPT !.seq = dequeue + RingSize]
             \in [seq : Nat, record : Traced \cup {NoRecord}]
      BY <3>2
    <3>4. file' \in Seq(Traced \cup {NoRecord})
      BY <3>1, <3>2
    <3>5. ring' \in [RingSlots -> [seq : Nat, record : Traced \cup {NoRecord}]]
      BY <3>1, <3>3
    <3>6. QED
      BY <3>1, <3>4, <3>5
  <2>3. QED
    BY <1>33, <2>1, <2>2 DEF WriterStep
<1>34. QED
  BY <1>1, <1>2, <1>3, <1>4, <1>5, <1>6, <1>7, <1>8, <1>9, <1>10, <1>11, <1>12, <1>13, <1>14,
      <1>15, <1>16, <1>17, <1>18, <1>19, <1>20, <1>21, <1>22, <1>23, <1>24, <1>25, <1>26, <1>27,
      <1>28, <1>29, <1>30, <1>31, <1>32, <1>33 DEF TraceNext

\* Nobody comes to be inside a wrapper who was not, as long as no cell is read.
LEMMA InsideStays ==
    ASSUME InsideHasOriginal, originals' \in BOOLEAN, originals => originals',
           \A t \in RenderThreads :
              (at'[t] # "engine" \/ stack'[t] # <<>>) => (at[t] # "engine" \/ stack[t] # <<>>)
    PROVE  InsideHasOriginal'
  BY DEF InsideHasOriginal

\* While no thread moves, nobody comes to be inside.
LEMMA InsideQuiet ==
    ASSUME TraceInv, UNCHANGED threads, originals' \in BOOLEAN, originals => originals'
    PROVE  InsideHasOriginal'
<1>1. stack' = stack /\ at' = at
  BY DEF threads
<1>2. QED
  BY <1>1, InsideStays DEF TraceInv

\* Whoever is inside a wrapper has an original to call.
LEMMA InsideStep ==
    ASSUME TraceInv, TraceNext
    PROVE  InsideHasOriginal'
<1>1. ASSUME NEW double \in BOOLEAN, ClaimTrace(double) PROVE InsideHasOriginal'
  BY <1>1, InsideQuiet DEF patching, TraceInv, TraceTypes, PatchTypes, ClaimTrace
<1>2. ASSUME NEW double \in BOOLEAN, RefusedBootstrap(double) PROVE InsideHasOriginal'
  BY <1>2, InsideQuiet DEF patching, TraceInv, TraceTypes, PatchTypes, RefusedBootstrap
<1>3. CASE Prepare
  BY <1>3, InsideQuiet DEF patching, TraceInv, TraceTypes, PatchTypes, Prepare
<1>4. CASE PrepareFails
  BY <1>4, InsideQuiet DEF patching, TraceInv, TraceTypes, PatchTypes, PrepareFails
<1>5. CASE StartWriter
  BY <1>5, InsideQuiet DEF patching, TraceInv, TraceTypes, PatchTypes, StartWriter
<1>6. CASE SetOriginals
  BY <1>6 DEF SetOriginals, InsideHasOriginal
<1>7. CASE DecideInstall
  BY <1>7, InsideQuiet DEF patching, TraceInv, TraceTypes, PatchTypes, DecideInstall
<1>8. CASE ExchangeInstall
  BY <1>8, InsideQuiet DEF patching, TraceInv, TraceTypes, PatchTypes, ExchangeInstall, Exchange,
      InstalledIfExchanged
<1>9. CASE InstallFails
  BY <1>9, InsideQuiet DEF patching, TraceInv, TraceTypes, PatchTypes, InstallFails
<1>10. CASE Activate
  BY <1>10, InsideQuiet DEF patching, TraceInv, TraceTypes, PatchTypes, Activate
<1>11. CASE Report
  BY <1>11, InsideQuiet DEF patching, TraceInv, TraceTypes, PatchTypes, Report
<1>12. CASE ReportFailed
  BY <1>12, InsideQuiet DEF patching, TraceInv, TraceTypes, PatchTypes, ReportFailed
<1>13. CASE Cleanup
  BY <1>13, InsideQuiet DEF patching, TraceInv, TraceTypes, PatchTypes, Cleanup
<1>14. CASE CleanupEnds
  BY <1>14, InsideQuiet DEF patching, TraceInv, TraceTypes, PatchTypes, CleanupEnds
<1>15. CASE StopRenderTrace
  BY <1>15, InsideQuiet DEF patching, TraceInv, TraceTypes, PatchTypes, StopRenderTrace
<1>16. CASE TraceExpires
  BY <1>16, InsideQuiet DEF patching, TraceInv, TraceTypes, PatchTypes, TraceExpires
<1>17. CASE BeginStop
  BY <1>17, InsideQuiet DEF patching, TraceInv, TraceTypes, PatchTypes, BeginStop
<1>18. CASE DecideRestore
  BY <1>18, InsideQuiet DEF patching, TraceInv, TraceTypes, PatchTypes, DecideRestore, Restoring
<1>19. CASE ExchangeRestore
  BY <1>19, InsideQuiet DEF patching, TraceInv, TraceTypes, PatchTypes, ExchangeRestore,
      Restoring, Exchange
<1>20. CASE RestoreFails
  BY <1>20, InsideQuiet DEF patching, TraceInv, TraceTypes, PatchTypes, RestoreFails, Restoring
<1>21. CASE WrappersGone
  BY <1>21, InsideQuiet DEF patching, TraceInv, TraceTypes, PatchTypes, WrappersGone, QuietWhenEmpty
<1>22. CASE StopTimesOut
  BY <1>22, InsideQuiet DEF patching, TraceInv, TraceTypes, PatchTypes, StopTimesOut
<1>23. CASE StopCompletes
  BY <1>23, InsideQuiet DEF patching, TraceInv, TraceTypes, PatchTypes, StopCompletes
<1>24. ASSUME NEW h \in Hooks, ForeignPatch(h) PROVE InsideHasOriginal'
  BY <1>24, InsideQuiet DEF patching, TraceInv, TraceTypes, PatchTypes, ForeignPatch
<1>25. ASSUME NEW t \in RenderThreads, Fetch(t) PROVE InsideHasOriginal'
  <2>1. InsideHasOriginal /\ ThreadTypes /\ ActiveCounts /\ originals' = originals /\ originals \in BOOLEAN
    BY <1>25 DEF Fetch, patching, TraceInv, TraceTypes, PatchTypes
  <2>2. originals
    BY <1>25 DEF Fetch, TraceInv, CellsAreKnown
  <2>3. QED
    BY <2>1, <2>2 DEF InsideHasOriginal
<1>26. ASSUME NEW t \in RenderThreads, Count(t) PROVE InsideHasOriginal'
  <2>1. InsideHasOriginal /\ ThreadTypes /\ ActiveCounts /\ originals' = originals /\ originals \in BOOLEAN
    BY <1>26 DEF Count, patching, TraceInv, TraceTypes, PatchTypes
  <2>2. at[t] = "jumping" /\ at' = [at EXCEPT ![t] = "counted"] /\ stack' = stack
    BY <1>26 DEF Count
  <2>3. \A u \in RenderThreads : u # t => at'[u] = at[u]
    BY <2>1, <2>2 DEF ThreadTypes
  <2>4. QED
    BY <2>1, <2>2, <2>3 DEF InsideHasOriginal
<1>27. ASSUME NEW t \in RenderThreads, Look(t) PROVE InsideHasOriginal'
  <2>1. InsideHasOriginal /\ ThreadTypes /\ ActiveCounts /\ originals' = originals /\ originals \in BOOLEAN
    BY <1>27 DEF Look, patching, TraceInv, TraceTypes, PatchTypes
  <2>2. at[t] = "counted" /\ \A u \in RenderThreads \ {t} : at'[u] = at[u] /\ stack'[u] = stack[u]
    BY <1>27, <2>1, LookFacts
  <2>3. QED
    BY <2>1, <2>2 DEF InsideHasOriginal
<1>28. ASSUME NEW t \in RenderThreads, ExtraPass(t) PROVE InsideHasOriginal'
  <2>1. InsideHasOriginal /\ ThreadTypes /\ ActiveCounts /\ originals' = originals /\ originals \in BOOLEAN
    BY <1>28 DEF ExtraPass, patching, TraceInv, TraceTypes, PatchTypes
  <2>2. stack[t] # <<>> /\ stack' = stack /\ at' = [at EXCEPT ![t] = "claim"]
    BY <1>28 DEF ExtraPass
  <2>3. \A u \in RenderThreads : u # t => at'[u] = at[u]
    BY <2>1, <2>2 DEF ThreadTypes
  <2>4. QED
    BY <2>1, <2>2, <2>3 DEF InsideHasOriginal
<1>29. ASSUME NEW t \in RenderThreads, Return(t) PROVE InsideHasOriginal'
  <2>1. InsideHasOriginal /\ ThreadTypes /\ ActiveCounts /\ originals' = originals /\ originals \in BOOLEAN
    BY <1>29 DEF Return, patching, TraceInv, TraceTypes, PatchTypes
  <2>2. stack[t] # <<>>
    BY <1>29 DEF Return
  <2>3. originals
    BY <2>1, <2>2 DEF InsideHasOriginal
  <2>4. QED
    BY <2>1, <2>3 DEF InsideHasOriginal
<1>30. ASSUME NEW t \in RenderThreads, ClaimSlot(t) PROVE InsideHasOriginal'
  <2>1. InsideHasOriginal /\ ThreadTypes /\ ActiveCounts /\ originals' = originals /\ originals \in BOOLEAN
    BY <1>30 DEF ClaimSlot, patching, TraceInv, TraceTypes, PatchTypes
  <2>2. at[t] = "claim" /\ stack' = stack /\ at' = [at EXCEPT ![t] = "fill"]
    BY <1>30 DEF ClaimSlot
  <2>3. \A u \in RenderThreads : u # t => at'[u] = at[u]
    BY <2>1, <2>2 DEF ThreadTypes
  <2>4. QED
    BY <2>1, <2>2, <2>3 DEF InsideHasOriginal
<1>31. ASSUME NEW t \in RenderThreads, DropRecord(t) PROVE InsideHasOriginal'
  <2>1. InsideHasOriginal /\ ThreadTypes /\ ActiveCounts /\ originals' = originals /\ originals \in BOOLEAN
    BY <1>31 DEF DropRecord, patching, TraceInv, TraceTypes, PatchTypes
  <2>2. at[t] = "claim"
    BY <1>31 DEF DropRecord
  <2>3. originals
    BY <2>1, <2>2 DEF InsideHasOriginal
  <2>4. QED
    BY <2>1, <2>3 DEF InsideHasOriginal
<1>32. ASSUME NEW t \in RenderThreads, FillSlot(t) PROVE InsideHasOriginal'
  <2>1. InsideHasOriginal /\ ThreadTypes /\ ActiveCounts /\ originals' = originals /\ originals \in BOOLEAN
    BY <1>32 DEF FillSlot, patching, TraceInv, TraceTypes, PatchTypes
  <2>2. at[t] = "fill"
    BY <1>32 DEF FillSlot
  <2>3. originals
    BY <2>1, <2>2 DEF InsideHasOriginal
  <2>4. QED
    BY <2>1, <2>3 DEF InsideHasOriginal
<1>33. CASE WriterStep
  BY <1>33, InsideQuiet DEF patching, TraceInv, TraceTypes, PatchTypes, WriterStep, Dequeue,
      WriteRecord
<1>34. QED
  BY <1>1, <1>2, <1>3, <1>4, <1>5, <1>6, <1>7, <1>8, <1>9, <1>10, <1>11, <1>12, <1>13, <1>14,
      <1>15, <1>16, <1>17, <1>18, <1>19, <1>20, <1>21, <1>22, <1>23, <1>24, <1>25, <1>26, <1>27,
      <1>28, <1>29, <1>30, <1>31, <1>32, <1>33 DEF TraceNext

\* While no thread moves, silence lasts.
LEMMA SilenceLasts == UNCHANGED threads => (Silent' <=> Silent)
  BY DEF threads, Silent

\* While nothing is recorded, a wrapper that is entered or left is not recorded.
LEMMA SilenceSpreads ==
    ASSUME TraceInv, Silent, ~accepting, NEW t \in RenderThreads,
           Fetch(t) \/ Count(t) \/ Look(t) \/ ExtraPass(t) \/ Return(t)
              \/ ClaimSlot(t) \/ DropRecord(t) \/ FillSlot(t)
    PROVE  Silent' /\ UNCHANGED <<enqueue, dequeue>>
<1>1. /\ ThreadTypes /\ at[t] \notin {"claim", "fill"}
      /\ \A i \in 1 .. Len(stack[t]) : ~stack[t][i]
  BY DEF TraceInv, TraceTypes, Silent
<1>2. stack[t] \in Seq(BOOLEAN)
  BY <1>1 DEF ThreadTypes
<1>3. ~ExtraPass(t) /\ ~ClaimSlot(t) /\ ~DropRecord(t) /\ ~FillSlot(t)
  BY <1>1 DEF ExtraPass, ClaimSlot, DropRecord, FillSlot
<1>4. CASE Fetch(t)
  <2>1. stack' = stack /\ at' = [at EXCEPT ![t] = "jumping"]
    BY <1>4 DEF Fetch
  <2>2. \A u \in RenderThreads : at'[u] = IF u = t THEN "jumping" ELSE at[u]
    BY <1>1, <2>1 DEF ThreadTypes
  <2>3. QED
    BY <1>4, <2>1, <2>2 DEF Fetch, Silent, queue
<1>5. CASE Count(t)
  <2>1. stack' = stack /\ at' = [at EXCEPT ![t] = "counted"]
    BY <1>5 DEF Count
  <2>2. \A u \in RenderThreads : at'[u] = IF u = t THEN "counted" ELSE at[u]
    BY <1>1, <2>1 DEF ThreadTypes
  <2>3. QED
    BY <1>5, <2>1, <2>2 DEF Count, Silent, queue
<1>6. CASE Look(t)
  <2>1. PICK recorded \in BOOLEAN :
             /\ recorded = (accepting \/ \E i \in 1 .. Len(stack[t]) : stack[t][i])
             /\ at'[t] = IF recorded THEN "claim" ELSE "engine"
             /\ Len(stack[t]) \in Nat /\ Len(stack'[t]) = Len(stack[t]) + 1
             /\ stack'[t][Len(stack[t]) + 1] = recorded
             /\ \A i \in 1 .. Len(stack[t]) : stack'[t][i] = stack[t][i]
             /\ \A u \in RenderThreads \ {t} : stack'[u] = stack[u] /\ at'[u] = at[u]
    BY <1>1, <1>6, LookFacts
  <2>2. ~recorded
    BY <1>1, <2>1
  <2>3. ASSUME NEW i \in 1 .. Len(stack'[t]) PROVE ~stack'[t][i]
    <3>1. i \in 1 .. Len(stack[t]) \/ i = Len(stack[t]) + 1
      BY <2>1
    <3>2. QED
      BY <1>1, <2>1, <2>2, <3>1
  <2>4. at'[t] = "engine"
    BY <2>1, <2>2
  <2>5. enqueue' = enqueue /\ dequeue' = dequeue
    BY <1>6 DEF Look, queue
  <2>6. QED
    BY <2>1, <2>3, <2>4, <2>5 DEF Silent
<1>7. CASE Return(t)
  <2>1. stack[t] # <<>> /\ enqueue' = enqueue /\ dequeue' = dequeue
    BY <1>7 DEF Return, queue
  <2>2. Len(stack[t]) \in 1 .. Len(stack[t])
    BY <1>2, <2>1, EmptySeq, LenProperties
  <2>3. ~stack[t][Len(stack[t])]
    BY <1>1, <2>2
  <2>4. CloseScope(t)
    BY <1>7, <2>3 DEF Return
  <2>5. /\ Len(stack[t]) \in Nat /\ Len(stack'[t]) = Len(stack[t]) - 1 /\ at'[t] = "engine"
        /\ \A i \in 1 .. Len(stack'[t]) : stack'[t][i] = stack[t][i]
        /\ \A u \in RenderThreads \ {t} : stack'[u] = stack[u] /\ at'[u] = at[u]
    BY <1>1, <2>1, <2>4, CloseScopeFacts
  <2>6. \A i \in 1 .. Len(stack'[t]) : ~stack'[t][i]
    BY <1>1, <2>5
  <2>7. QED
    BY <2>1, <2>5, <2>6 DEF Silent
<1>8. QED
  BY <1>3, <1>4, <1>5, <1>6, <1>7

\* A step of a thread while the trace stops.
LEMMA StoppedThreads ==
    ASSUME TraceInv, NEW t \in RenderThreads,
           stopper' = stopper, trace' = trace, writer' = writer,
           Fetch(t) \/ Count(t) \/ Look(t) \/ ExtraPass(t) \/ Return(t)
              \/ ClaimSlot(t) \/ DropRecord(t) \/ FillSlot(t)
    PROVE  StopIsSilent'
<1>1. CASE stopper = "join" \/ trace = "Stopped"
  <2>1. Silent /\ ~accepting
    BY <1>1 DEF TraceInv, TraceStages, StopIsSilent
  <2>2. Silent' /\ enqueue' = enqueue /\ dequeue' = dequeue
    BY <2>1, SilenceSpreads
  <2>3. QED
    BY <2>2 DEF TraceInv, StopIsSilent
<1>2. CASE ~(stopper = "join" \/ trace = "Stopped")
  BY <1>2 DEF StopIsSilent
<1>3. QED
  BY <1>1, <1>2

\* Once the stopping thread saw every wrapper leave, nothing is recorded.
LEMMA SilentStep ==
    ASSUME TraceInv, TraceNext
    PROVE  StopIsSilent'
<1>1. ASSUME NEW double \in BOOLEAN, ClaimTrace(double) PROVE StopIsSilent'
  BY <1>1, SilenceLasts DEF TraceInv, TraceTypes, ControlTypes, TraceStages, StopIsSilent,
      control, queue, writing, ClaimTrace
<1>2. ASSUME NEW double \in BOOLEAN, RefusedBootstrap(double) PROVE StopIsSilent'
  BY <1>2, SilenceLasts DEF TraceInv, TraceTypes, ControlTypes, TraceStages, StopIsSilent,
      control, queue, writing, RefusedBootstrap
<1>3. CASE Prepare
  BY <1>3, SilenceLasts DEF TraceInv, TraceTypes, ControlTypes, TraceStages, StopIsSilent,
      control, queue, writing, Prepare
<1>4. CASE PrepareFails
  BY <1>4, SilenceLasts DEF TraceInv, TraceTypes, ControlTypes, TraceStages, StopIsSilent,
      control, queue, writing, PrepareFails
<1>5. CASE StartWriter
  BY <1>5, SilenceLasts DEF TraceInv, TraceTypes, ControlTypes, TraceStages, StopIsSilent,
      control, queue, writing, StartWriter
<1>6. CASE SetOriginals
  BY <1>6, SilenceLasts DEF TraceInv, TraceTypes, ControlTypes, TraceStages, StopIsSilent,
      control, queue, writing, SetOriginals
<1>7. CASE DecideInstall
  BY <1>7, SilenceLasts DEF TraceInv, TraceTypes, ControlTypes, TraceStages, StopIsSilent,
      control, queue, writing, DecideInstall
<1>8. CASE ExchangeInstall
  BY <1>8, SilenceLasts DEF TraceInv, TraceTypes, ControlTypes, TraceStages, StopIsSilent,
      control, queue, writing, ExchangeInstall, Exchange, InstalledIfExchanged
<1>9. CASE InstallFails
  BY <1>9, SilenceLasts DEF TraceInv, TraceTypes, ControlTypes, TraceStages, StopIsSilent,
      control, queue, writing, InstallFails
<1>10. CASE Activate
  BY <1>10, SilenceLasts DEF TraceInv, TraceTypes, ControlTypes, TraceStages, StopIsSilent,
      control, queue, writing, Activate
<1>11. CASE Report
  BY <1>11, SilenceLasts DEF TraceInv, TraceTypes, ControlTypes, TraceStages, StopIsSilent,
      control, queue, writing, Report
<1>12. CASE ReportFailed
  BY <1>12, SilenceLasts DEF TraceInv, TraceTypes, ControlTypes, TraceStages, StopIsSilent,
      control, queue, writing, ReportFailed
<1>13. CASE Cleanup
  BY <1>13, SilenceLasts DEF TraceInv, TraceTypes, ControlTypes, TraceStages, StopIsSilent,
      control, queue, writing, Cleanup
<1>14. CASE CleanupEnds
  BY <1>14, SilenceLasts DEF TraceInv, TraceTypes, ControlTypes, TraceStages, StopIsSilent,
      control, queue, writing, CleanupEnds
<1>15. CASE StopRenderTrace
  BY <1>15, SilenceLasts DEF TraceInv, TraceTypes, ControlTypes, TraceStages, StopIsSilent,
      control, queue, writing, StopRenderTrace
<1>16. CASE TraceExpires
  BY <1>16, SilenceLasts DEF TraceInv, TraceTypes, ControlTypes, TraceStages, StopIsSilent,
      control, queue, writing, TraceExpires
<1>17. CASE BeginStop
  BY <1>17, SilenceLasts DEF TraceInv, TraceTypes, ControlTypes, TraceStages, StopIsSilent,
      control, queue, writing, BeginStop
<1>18. CASE DecideRestore
  BY <1>18, SilenceLasts DEF TraceInv, TraceTypes, ControlTypes, TraceStages, StopIsSilent,
      control, queue, writing, DecideRestore, Restoring
<1>19. CASE ExchangeRestore
  BY <1>19, SilenceLasts DEF TraceInv, TraceTypes, ControlTypes, TraceStages, StopIsSilent,
      control, queue, writing, ExchangeRestore, Restoring, Exchange
<1>20. CASE RestoreFails
  BY <1>20, SilenceLasts DEF TraceInv, TraceTypes, ControlTypes, TraceStages, StopIsSilent,
      control, queue, writing, RestoreFails, Restoring
<1>21. CASE WrappersGone
  <2>1. Silent
    BY <1>21, NobodyInside DEF WrappersGone, QuietWhenEmpty
  <2>2. Silent'
    BY <1>21, <2>1, SilenceLasts DEF WrappersGone
  <2>3. QED
    BY <1>21, <2>2 DEF WrappersGone, TraceInv, TraceTypes, ControlTypes, TraceStages,
        StopIsSilent, writing
<1>22. CASE StopTimesOut
  BY <1>22, SilenceLasts DEF TraceInv, TraceTypes, ControlTypes, TraceStages, StopIsSilent,
      control, queue, writing, StopTimesOut
<1>23. CASE StopCompletes
  BY <1>23, SilenceLasts DEF TraceInv, TraceTypes, ControlTypes, TraceStages, StopIsSilent,
      control, queue, writing, StopCompletes
<1>24. ASSUME NEW h \in Hooks, ForeignPatch(h) PROVE StopIsSilent'
  BY <1>24, SilenceLasts DEF TraceInv, TraceTypes, ControlTypes, TraceStages, StopIsSilent,
      control, queue, writing, ForeignPatch
<1>25. ASSUME NEW t \in RenderThreads, Fetch(t) PROVE StopIsSilent'
  BY <1>25, StoppedThreads DEF Fetch, control, writing
<1>26. ASSUME NEW t \in RenderThreads, Count(t) PROVE StopIsSilent'
  BY <1>26, StoppedThreads DEF Count, control, writing
<1>27. ASSUME NEW t \in RenderThreads, Look(t) PROVE StopIsSilent'
  BY <1>27, StoppedThreads DEF Look, control, writing
<1>28. ASSUME NEW t \in RenderThreads, ExtraPass(t) PROVE StopIsSilent'
  BY <1>28, StoppedThreads DEF ExtraPass, control, writing
<1>29. ASSUME NEW t \in RenderThreads, Return(t) PROVE StopIsSilent'
  BY <1>29, StoppedThreads DEF Return, control, writing
<1>30. ASSUME NEW t \in RenderThreads, ClaimSlot(t) PROVE StopIsSilent'
  BY <1>30, StoppedThreads DEF ClaimSlot, control, writing
<1>31. ASSUME NEW t \in RenderThreads, DropRecord(t) PROVE StopIsSilent'
  BY <1>31, StoppedThreads DEF DropRecord, control, writing
<1>32. ASSUME NEW t \in RenderThreads, FillSlot(t) PROVE StopIsSilent'
  BY <1>32, StoppedThreads DEF FillSlot, control, writing
<1>33. CASE WriterStep
  <2>1. (Silent' <=> Silent) /\ stopper' = stopper /\ trace' = trace /\ writer # "done"
    BY <1>33, SilenceLasts DEF WriterStep, control
  <2>2. CASE Silent
    <3>1. CASE Filled /\ Dequeue /\ writer' = "drain"
      <4>1. enqueue # dequeue
        BY <3>1, FilledWasClaimed DEF TraceInv, TraceTypes, QueueTypes
      <4>2. QED
        BY <2>1, <2>2, <3>1, <4>1 DEF TraceInv, StopIsSilent
    <3>2. CASE ~Filled /\ UNCHANGED queue
      BY <2>1, <2>2, <3>2, SilentRingIsDrained DEF StopIsSilent, queue
    <3>3. QED
      BY <1>33, <3>1, <3>2 DEF WriterStep
  <2>3. CASE ~Silent
    BY <2>1, <2>3 DEF TraceInv, StopIsSilent
  <2>4. QED
    BY <2>2, <2>3
<1>34. QED
  BY <1>1, <1>2, <1>3, <1>4, <1>5, <1>6, <1>7, <1>8, <1>9, <1>10, <1>11, <1>12, <1>13, <1>14,
      <1>15, <1>16, <1>17, <1>18, <1>19, <1>20, <1>21, <1>22, <1>23, <1>24, <1>25, <1>26, <1>27,
      <1>28, <1>29, <1>30, <1>31, <1>32, <1>33 DEF TraceNext

\* Division with remainder.
LEMMA RingDivision ==
  ASSUME NEW S \in Nat \ {0}, NEW x \in Nat
  PROVE  /\ x = S * (x \div S) + (x % S)
         /\ x % S \in 0 .. S - 1 /\ x \div S \in Nat
  OBVIOUS

\* Two positions of one lap of the ring have slots of their own.
LEMMA SlotsApart ==
  ASSUME NEW p \in Nat, NEW q \in Nat, p < q, q < p + RingSize
  PROVE  p % RingSize # q % RingSize
<1>1. RingSize \in Nat \ {0}
  BY TraceAssumption
<1> DEFINE S == RingSize
           a == p \div S
           b == q \div S
           r == p % S
           s == q % S
<1>2. p = S * a + r /\ r \in 0 .. S - 1 /\ a \in Nat
  BY <1>1, RingDivision
<1>3. q = S * b + s /\ s \in 0 .. S - 1 /\ b \in Nat
  BY <1>1, RingDivision
<1>4. SUFFICES ASSUME r = s PROVE FALSE
  OBVIOUS
<1>5. S \in Nat \ {0}
  BY <1>1
<1>6. p < q /\ q < p + S
  OBVIOUS
<1> HIDE DEF S, a, b, r, s
<1>7. S * (b - a) = S * b - S * a /\ S * a \in Int /\ S * b \in Int
  BY <1>2, <1>3, <1>5
<1>8. S * (b - a) = q - p
  BY <1>2, <1>3, <1>4, <1>7
<1>9. 0 < S * (b - a) /\ S * (b - a) < S
  BY <1>6, <1>8, <1>5
<1>10. b - a = 0
  <2>1. CASE b - a >= 1
    <3>1. S * (b - a) >= S
      BY <1>2, <1>3, <1>5, <2>1
    <3>2. QED
      BY <1>9, <3>1, <1>5, <1>2, <1>3
  <2>2. CASE b - a <= -1
    <3>1. S * (b - a) <= -S
      BY <1>2, <1>3, <1>5, <2>2
    <3>2. QED
      BY <1>9, <3>1, <1>5, <1>2, <1>3
  <2>3. QED
    BY <2>1, <2>2, <1>2, <1>3
<1>11. QED
  BY <1>5, <1>9, <1>10

\* Nor have any two that are less than a lap apart the same slot.
LEMMA SlotsDiffer ==
  ASSUME NEW p \in Nat, NEW q \in Nat, p # q, p < q + RingSize, q < p + RingSize
  PROVE  p % RingSize # q % RingSize
<1>1. p < q \/ q < p
  OBVIOUS
<1>2. CASE p < q
  BY Zenon, <1>2, SlotsApart
<1>3. CASE q < p
  BY Zenon, <1>3, SlotsApart
<1>4. QED
  BY Zenon, <1>1, <1>2, <1>3

\* A position takes the same slot a lap later.
LEMMA SlotAgain ==
  ASSUME NEW p \in Nat
  PROVE  (p + RingSize) % RingSize = p % RingSize
<1>1. RingSize \in Nat \ {0} /\ RingSize > 1
  BY TraceAssumption
<1> DEFINE S == RingSize
           a == p \div S
           b == (p + S) \div S
           r == p % S
           s == (p + S) % S
<1>2. p = S * a + r /\ r \in 0 .. S - 1 /\ a \in Nat
  BY <1>1, RingDivision
<1>3. p + S = S * b + s /\ s \in 0 .. S - 1 /\ b \in Nat
  BY <1>1, RingDivision, p + S \in Nat
<1>4. S \in Nat \ {0}
  BY <1>1
<1> HIDE DEF S, a, b, r, s
<1>5. S * (b - a - 1) = S * b - S * a - S /\ S * a \in Int /\ S * b \in Int
  BY <1>2, <1>3, <1>4
<1>6. S * (b - a - 1) = r - s
  BY <1>2, <1>3, <1>4, <1>5
<1>7. -S < S * (b - a - 1) /\ S * (b - a - 1) < S
  BY <1>2, <1>3, <1>4, <1>6
<1>8. b - a - 1 = 0
  <2>1. CASE b - a - 1 >= 1
    <3>1. S * (b - a - 1) >= S
      BY <1>2, <1>3, <1>4, <2>1
    <3>2. QED
      BY <1>7, <3>1, <1>4, <1>2, <1>3
  <2>2. CASE b - a - 1 <= -1
    <3>1. S * (b - a - 1) <= -S
      BY <1>2, <1>3, <1>4, <2>2
    <3>2. QED
      BY <1>7, <3>1, <1>4, <1>2, <1>3
  <2>3. QED
    BY <2>1, <2>2, <1>2, <1>3
<1>9. r = s
  BY <1>2, <1>3, <1>4, <1>6, <1>8
<1>10. QED
  BY <1>9 DEF r, s, S

\* A position of the first lap is its own slot.
LEMMA FirstLap == ASSUME NEW p \in Nat, p < RingSize PROVE p % RingSize = p
<1>1. RingSize \in Nat \ {0}
  BY TraceAssumption
<1>2. QED
  BY <1>1

\* A step that claims, fills and takes no slot keeps the ring.
LEMMA RingQuiet ==
    ASSUME TraceInv, UNCHANGED <<ring, enqueue, dequeue, claims, place>>,
           \A t \in RenderThreads : at'[t] = "fill" <=> at[t] = "fill",
           \A t \in RenderThreads : at[t] = "fill" => mark'[t] = mark[t] /\ stack'[t] = stack[t]
    PROVE  RingHolds' /\ FillersHold'
<1>1. RingHolds /\ FillersHold
  BY DEF TraceInv
<1>2. RingHolds'
  BY <1>1 DEF RingHolds, FilledAt, FillingAt, RingSlot
<1>3. FillersHold'
  BY <1>1 DEF FillersHold, RingSlot
<1>4. QED
  BY <1>2, <1>3

\* While no thread moves and the ring stays, so does what it holds.
LEMMA RingStays ==
    ASSUME TraceInv, UNCHANGED <<ring, enqueue, dequeue, claims>>, UNCHANGED threads
    PROVE  RingHolds' /\ FillersHold'
<1>1. at' = at /\ mark' = mark /\ stack' = stack /\ place' = place
  BY DEF threads
<1>2. QED
  BY <1>1, RingQuiet

\* The slot of a position that is claimed and not taken is what the ring says.
LEMMA RingReads ==
    ASSUME TraceInv
    PROVE  /\ dequeue \in Nat /\ enqueue \in Nat /\ RingSize \in Nat /\ RingSize > 1
           /\ dequeue <= enqueue /\ enqueue <= dequeue + RingSize
           /\ Len(claims) = enqueue
           /\ claims \in Seq(Traced)
           /\ \A p \in Nat : dequeue <= p /\ p < enqueue =>
                 \/ /\ ring[p % RingSize].seq = p + 1
                    /\ ring[p % RingSize].record = claims[p + 1]
                 \/ /\ ring[p % RingSize].seq = p
                    /\ \E t \in RenderThreads : at[t] = "fill" /\ place[t] = p
           /\ \A p \in Nat : enqueue <= p /\ p < dequeue + RingSize =>
                 ring[p % RingSize].seq = p
           /\ \A t \in RenderThreads : at[t] = "fill" =>
                 /\ place[t] \in Nat /\ dequeue <= place[t] /\ place[t] < enqueue
                 /\ ring[place[t] % RingSize].seq = place[t]
                 /\ claims[place[t] + 1] = <<t, mark[t], Len(stack[t])>>
           /\ \A t, u \in RenderThreads :
                 at[t] = "fill" /\ at[u] = "fill" /\ place[t] = place[u] => t = u
           /\ \A p \in Nat : p % RingSize \in RingSlots
           /\ ring \in [RingSlots -> [seq : Nat, record : Traced \cup {NoRecord}]]
<1>1. \A p \in Nat : p % RingSize \in RingSlots
  BY RingSlotType DEF RingSlot
<1>2. RingSize \in Nat /\ RingSize > 1
  BY TraceAssumption
<1>3. QueueTypes /\ ThreadTypes /\ RingHolds /\ FillersHold /\ FileFollowsClaims
  BY DEF TraceInv, TraceTypes
<1>4. \A t \in RenderThreads : place[t] \in Nat
  BY <1>3 DEF ThreadTypes
<1>5. QED
  BY <1>1, <1>2, <1>3, <1>4
  DEF QueueTypes, RingHolds, FillersHold, FileFollowsClaims, FilledAt, FillingAt, RingSlot

\* The slot a thread claims becomes its own, and nobody else's.
LEMMA ClaimKeepsRing ==
    ASSUME TraceInv, NEW t \in RenderThreads, ClaimSlot(t)
    PROVE  RingHolds' /\ FillersHold' /\ FileFollowsClaims'
<1> DEFINE record == <<t, mark[t], Len(stack[t])>>
<1>1. /\ at[t] = "claim" /\ ring[enqueue % RingSize].seq = enqueue
      /\ place' = [place EXCEPT ![t] = enqueue] /\ enqueue' = enqueue + 1
      /\ claims' = Append(claims, record) /\ at' = [at EXCEPT ![t] = "fill"]
      /\ ring' = ring /\ dequeue' = dequeue /\ file' = file /\ mark' = mark /\ stack' = stack
      /\ boot' = boot
  BY DEF ClaimSlot, RingFree, RingSlot, control
<1>2. ThreadTypes /\ QueueTypes /\ FileFollowsClaims
  BY DEF TraceInv, TraceTypes
<1>3. record \in Traced
  BY <1>2 DEF ThreadTypes, Traced
<1>4. /\ dequeue \in Nat /\ enqueue \in Nat /\ RingSize \in Nat /\ RingSize > 1
      /\ dequeue <= enqueue /\ enqueue <= dequeue + RingSize
      /\ Len(claims) = enqueue /\ claims \in Seq(Traced)
  BY RingReads
<1> HIDE DEF record
<1>5. /\ Len(claims') = enqueue + 1 /\ claims'[enqueue + 1] = record
      /\ \A p \in Nat : p < enqueue => claims'[p + 1] = claims[p + 1]
  <2>1. /\ Len(claims') = enqueue + 1 /\ claims'[enqueue + 1] = record
        /\ \A i \in 1 .. enqueue : claims'[i] = claims[i]
    BY <1>1, <1>3, <1>4, AppendProperties
  <2>2. \A p \in Nat : p < enqueue => p + 1 \in 1 .. enqueue
    BY <1>4
  <2>3. QED
    BY <2>1, <2>2
<1>6. /\ at'[t] = "fill" /\ place'[t] = enqueue
      /\ \A u \in RenderThreads \ {t} : at'[u] = at[u] /\ place'[u] = place[u]
  BY <1>1, <1>2 DEF ThreadTypes
<1>7. enqueue # dequeue + RingSize
  <2>1. SUFFICES ASSUME enqueue = dequeue + RingSize PROVE FALSE
    OBVIOUS
  <2>2. enqueue % RingSize = dequeue % RingSize
    BY <1>4, <2>1, SlotAgain
  <2>3. ring[dequeue % RingSize].seq \in {dequeue, dequeue + 1}
    <3>1. dequeue <= dequeue /\ dequeue < enqueue
      BY <1>4, <2>1
    <3>2. QED
      BY <1>4, <3>1, RingReads
  <2>4. ring[dequeue % RingSize].seq = dequeue + RingSize
    BY <1>1, <2>1, <2>2
  <2>5. dequeue + RingSize \notin {dequeue, dequeue + 1}
    BY <1>4
  <2>6. QED
    BY <2>3, <2>4, <2>5
<1>8. enqueue' \in Nat /\ dequeue' <= enqueue' /\ enqueue' <= dequeue' + RingSize
  <2>1. /\ dequeue \in Nat /\ enqueue \in Nat /\ RingSize \in Nat
        /\ dequeue <= enqueue /\ enqueue <= dequeue + RingSize /\ enqueue # dequeue + RingSize
    BY <1>4, <1>7
  <2>2. enqueue' = enqueue + 1 /\ dequeue' = dequeue
    BY <1>1
  <2>3. QED
    BY <2>1, <2>2
<1>9. ASSUME NEW p \in Nat, dequeue <= p, p < enqueue + 1
      PROVE  \/ /\ ring[p % RingSize].seq = p + 1
                /\ ring[p % RingSize].record = claims'[p + 1]
             \/ /\ ring[p % RingSize].seq = p
                /\ \E u \in RenderThreads : at'[u] = "fill" /\ place'[u] = p
  <2>1. CASE p = enqueue
    BY <1>1, <1>6, <2>1
  <2>2. CASE p < enqueue
    <3>1. CASE /\ ring[p % RingSize].seq = p + 1
               /\ ring[p % RingSize].record = claims[p + 1]
      BY <1>5, <2>2, <3>1
    <3>2. CASE /\ ring[p % RingSize].seq = p
               /\ \E u \in RenderThreads : at[u] = "fill" /\ place[u] = p
      <4>1. PICK u \in RenderThreads : at[u] = "fill" /\ place[u] = p
        BY <3>2
      <4>2. u # t
        BY <1>1, <4>1
      <4>3. QED
        BY <1>6, <3>2, <4>1, <4>2
    <3>3. QED
      BY <1>9, <2>2, <3>1, <3>2, RingReads
  <2>3. QED
    BY <1>4, <1>9, <2>1, <2>2
<1>10. ASSUME NEW p \in Nat, enqueue + 1 <= p, p < dequeue + RingSize
       PROVE  ring[p % RingSize].seq = p
  <2>1. enqueue <= p
    BY <1>4, <1>10
  <2>2. QED
    BY <1>10, <2>1, RingReads
<1>11. RingHolds'
  BY <1>1, <1>8, <1>9, <1>10 DEF RingHolds, FilledAt, FillingAt, RingSlot
<1>12. ASSUME NEW u \in RenderThreads, at'[u] = "fill"
       PROVE  /\ dequeue <= place'[u] /\ place'[u] < enqueue + 1
              /\ ring[place'[u] % RingSize].seq = place'[u]
              /\ claims'[place'[u] + 1] = <<u, mark[u], Len(stack[u])>>
  <2>1. CASE u = t
    BY <1>1, <1>4, <1>5, <1>6, <2>1 DEF record
  <2>2. CASE u # t
    <3>1. /\ at[u] = "fill" /\ place'[u] = place[u]
      BY <1>6, <1>12, <2>2
    <3>2. /\ place[u] \in Nat /\ dequeue <= place[u] /\ place[u] < enqueue
          /\ ring[place[u] % RingSize].seq = place[u]
          /\ claims[place[u] + 1] = <<u, mark[u], Len(stack[u])>>
      BY <3>1, RingReads
    <3>3. QED
      BY <1>4, <1>5, <3>1, <3>2
  <2>3. QED
    BY <2>1, <2>2
<1>13. ASSUME NEW u \in RenderThreads, NEW v \in RenderThreads, at'[u] = "fill", at'[v] = "fill",
              place'[u] = place'[v]
       PROVE  u = v
  <2>1. \A w \in RenderThreads \ {t} : at'[w] = "fill" =>
           at[w] = "fill" /\ place'[w] = place[w] /\ place[w] < enqueue /\ place[w] \in Nat
    BY <1>6, RingReads
  <2>2. CASE u # t /\ v # t
    <3>1. at[u] = "fill" /\ at[v] = "fill" /\ place[u] = place[v]
      BY <1>13, <2>1, <2>2
    <3>2. QED
      BY <3>1 DEF TraceInv, FillersHold
  <2>3. CASE u = t \/ v = t
    BY <1>4, <1>6, <1>13, <2>1, <2>3
  <2>4. QED
    BY <2>2, <2>3
<1>14. FillersHold'
  BY <1>1, <1>12, <1>13 DEF FillersHold, RingSlot
<1>15. FileFollowsClaims'
  <2>1. Len(file) = dequeue /\ \A i \in 1 .. Len(file) : file[i] = claims[i]
    BY <1>2 DEF FileFollowsClaims
  <2>2. \A i \in 1 .. dequeue : claims'[i] = claims[i]
    <3>1. \A i \in 1 .. dequeue : i - 1 \in Nat /\ i - 1 < enqueue /\ i - 1 + 1 = i
      BY <1>4
    <3>2. QED
      BY <1>5, <3>1
  <2>3. boot \notin {"none", "prepare", "writer"}
    BY <1>1 DEF TraceInv, TraceStages, InsideHasOriginal
  <2>4. QED
    BY <1>1, <1>5, <2>1, <2>2, <2>3 DEF FileFollowsClaims
<1>16. QED
  BY <1>11, <1>14, <1>15

\* A record is written into the slot of the thread that claimed it, and into no other.
LEMMA FillKeepsRing ==
    ASSUME TraceInv, NEW t \in RenderThreads, FillSlot(t)
    PROVE  RingHolds' /\ FillersHold'
<1> DEFINE record == <<t, mark[t], Len(stack[t])>>
           filled == [seq |-> place[t] + 1, record |-> record]
           slot == place[t] % RingSize
<1>1. /\ at[t] = "fill" /\ ring' = [ring EXCEPT ![slot] = filled]
      /\ place' = [place EXCEPT ![t] = 0] /\ AfterRecord(t)
      /\ enqueue' = enqueue /\ dequeue' = dequeue /\ claims' = claims
  BY DEF FillSlot, RingSlot
<1>2. /\ at'[t] = "engine"
      /\ \A u \in RenderThreads \ {t} :
            stack'[u] = stack[u] /\ at'[u] = at[u] /\ mark'[u] = mark[u]
  BY <1>1, AfterRecordFacts
<1>3. /\ dequeue \in Nat /\ enqueue \in Nat /\ RingSize \in Nat /\ RingSize > 1
      /\ dequeue <= enqueue /\ enqueue <= dequeue + RingSize
      /\ place[t] \in Nat /\ dequeue <= place[t] /\ place[t] < enqueue
      /\ claims[place[t] + 1] = record
  BY <1>1, RingReads
<1>4. slot \in RingSlots /\ filled.seq = place[t] + 1 /\ filled.record = record
  BY <1>3, RingReads
<1>5. \A u \in RenderThreads \ {t} : place'[u] = place[u]
  BY <1>1 DEF TraceInv, TraceTypes, ThreadTypes
<1>6. ring'[slot] = filled /\ \A s \in RingSlots : s # slot => ring'[s] = ring[s]
  BY <1>1, <1>4, RingReads
<1>7. ASSUME NEW p \in Nat, dequeue <= p, p < dequeue + RingSize, p # place[t]
      PROVE  ring'[p % RingSize] = ring[p % RingSize]
  <2>1. p % RingSize # slot
    <3>1. place[t] \in Nat /\ p < place[t] + RingSize /\ place[t] < p + RingSize
      BY <1>3, <1>7
    <3>2. QED
      BY Zenon, <1>7, <3>1, SlotsDiffer
  <2>2. p % RingSize \in RingSlots
    BY RingReads
  <2>3. QED
    BY <1>6, <2>1, <2>2
<1> HIDE DEF record, filled, slot
<1>8. ASSUME NEW p \in Nat, dequeue <= p, p < enqueue
      PROVE  \/ /\ ring'[p % RingSize].seq = p + 1
                /\ ring'[p % RingSize].record = claims[p + 1]
             \/ /\ ring'[p % RingSize].seq = p
                /\ \E u \in RenderThreads : at'[u] = "fill" /\ place'[u] = p
  <2>1. CASE p = place[t]
    BY <1>3, <1>4, <1>6, <2>1 DEF slot
  <2>2. CASE p # place[t]
    <3>1. ring'[p % RingSize] = ring[p % RingSize]
      BY <1>3, <1>7, <1>8, <2>2
    <3>2. CASE /\ ring[p % RingSize].seq = p + 1
               /\ ring[p % RingSize].record = claims[p + 1]
      BY <3>1, <3>2
    <3>3. CASE /\ ring[p % RingSize].seq = p
               /\ \E u \in RenderThreads : at[u] = "fill" /\ place[u] = p
      <4>1. PICK u \in RenderThreads : at[u] = "fill" /\ place[u] = p
        BY <3>3
      <4>2. QED
        BY <1>2, <1>5, <2>2, <3>1, <3>3, <4>1
    <3>4. QED
      BY <1>8, <3>2, <3>3, RingReads
  <2>3. QED
    BY <2>1, <2>2
<1>9. ASSUME NEW p \in Nat, enqueue <= p, p < dequeue + RingSize
      PROVE  ring'[p % RingSize].seq = p
  <2>1. dequeue <= p /\ p # place[t]
    BY <1>3, <1>9
  <2>2. QED
    BY <1>7, <1>9, <2>1, RingReads
<1>10. RingHolds'
  BY <1>1, <1>3, <1>8, <1>9 DEF RingHolds, FilledAt, FillingAt, RingSlot
<1>11. ASSUME NEW u \in RenderThreads, at'[u] = "fill"
       PROVE  /\ u # t /\ at[u] = "fill" /\ place'[u] = place[u]
              /\ dequeue <= place[u] /\ place[u] < enqueue
              /\ ring'[place[u] % RingSize].seq = place[u]
              /\ claims[place[u] + 1] = <<u, mark'[u], Len(stack'[u])>>
  <2>1. u # t
    BY <1>2, <1>11
  <2>2. at[u] = "fill" /\ place'[u] = place[u] /\ mark'[u] = mark[u] /\ stack'[u] = stack[u]
    BY <1>2, <1>5, <1>11, <2>1
  <2>3. /\ place[u] \in Nat /\ dequeue <= place[u] /\ place[u] < enqueue
        /\ ring[place[u] % RingSize].seq = place[u]
        /\ claims[place[u] + 1] = <<u, mark[u], Len(stack[u])>>
        /\ place[u] # place[t]
    BY <1>1, <2>1, <2>2, RingReads
  <2>4. ring'[place[u] % RingSize] = ring[place[u] % RingSize]
    BY <1>3, <1>7, <2>3
  <2>5. QED
    BY <2>1, <2>2, <2>3, <2>4
<1>12. \A u, v \in RenderThreads :
          at'[u] = "fill" /\ at'[v] = "fill" /\ place'[u] = place'[v] => u = v
  <2>1. SUFFICES ASSUME NEW u \in RenderThreads, NEW v \in RenderThreads,
                        at'[u] = "fill", at'[v] = "fill", place'[u] = place'[v]
                 PROVE  u = v
    OBVIOUS
  <2>2. at[u] = "fill" /\ at[v] = "fill" /\ place[u] = place[v]
    BY <1>11, <2>1
  <2>3. QED
    BY <2>2 DEF TraceInv, FillersHold
<1>13. FillersHold'
  BY <1>1, <1>11, <1>12 DEF FillersHold, RingSlot
<1>14. QED
  BY <1>10, <1>13

\* The writer takes the record of the oldest position, as it was claimed.
LEMMA DequeueKeepsRing ==
    ASSUME TraceInv, Filled, Dequeue, UNCHANGED threads, boot' = boot
    PROVE  RingHolds' /\ FillersHold' /\ FileFollowsClaims'
<1> DEFINE slot == dequeue % RingSize
           freed == [ring[slot] EXCEPT !.seq = dequeue + RingSize]
<1>1. /\ ring[slot].seq = dequeue + 1
      /\ file' = Append(file, ring[slot].record) /\ ring' = [ring EXCEPT ![slot] = freed]
      /\ dequeue' = dequeue + 1 /\ enqueue' = enqueue /\ claims' = claims
      /\ at' = at /\ mark' = mark /\ stack' = stack /\ place' = place
  BY DEF Filled, Dequeue, WriteRecord, RingSlot, threads
<1>2. /\ dequeue < enqueue /\ ring[slot].record = claims[dequeue + 1]
  BY FilledWasClaimed DEF RingSlot
<1>3. /\ dequeue \in Nat /\ enqueue \in Nat /\ RingSize \in Nat /\ RingSize > 1
      /\ dequeue <= enqueue /\ enqueue <= dequeue + RingSize /\ slot \in RingSlots
      /\ Len(claims) = enqueue
  BY RingReads
<1>4. freed.seq = dequeue + RingSize
  BY <1>3, RingReads
<1>5. ring'[slot] = freed /\ \A s \in RingSlots : s # slot => ring'[s] = ring[s]
  BY <1>1, <1>3, RingReads
<1>6. ASSUME NEW p \in Nat, dequeue < p, p < dequeue + RingSize
      PROVE  ring'[p % RingSize] = ring[p % RingSize]
  <2>1. dequeue \in Nat
    BY <1>3
  <2>2. p % RingSize # slot
    BY Zenon, <1>6, <2>1, SlotsApart
  <2>3. p % RingSize \in RingSlots
    BY RingReads
  <2>4. QED
    BY <1>5, <2>2, <2>3
<1>7. ring'[(dequeue + RingSize) % RingSize].seq = dequeue + RingSize
  BY <1>3, <1>4, <1>5, SlotAgain
<1>8. ASSUME NEW p \in Nat, dequeue + 1 <= p, p < enqueue
      PROVE  \/ /\ ring'[p % RingSize].seq = p + 1
                /\ ring'[p % RingSize].record = claims[p + 1]
             \/ /\ ring'[p % RingSize].seq = p
                /\ \E u \in RenderThreads : at[u] = "fill" /\ place[u] = p
  <2>1. dequeue <= p /\ dequeue < p /\ p < dequeue + RingSize
    BY <1>3, <1>8
  <2>2. ring'[p % RingSize] = ring[p % RingSize]
    BY <1>6, <2>1
  <2>3. QED
    BY <1>8, <2>1, <2>2, RingReads
<1>9. ASSUME NEW p \in Nat, enqueue <= p, p < dequeue + 1 + RingSize
      PROVE  ring'[p % RingSize].seq = p
  <2>1. CASE p = dequeue + RingSize
    BY <1>7, <2>1
  <2>2. CASE p # dequeue + RingSize
    <3>1. dequeue < p /\ p < dequeue + RingSize
      BY <1>2, <1>3, <1>9, <2>2
    <3>2. ring'[p % RingSize] = ring[p % RingSize]
      BY <1>6, <3>1
    <3>3. QED
      BY <1>9, <3>1, <3>2, RingReads
  <2>3. QED
    BY <2>1, <2>2
<1>10. dequeue' <= enqueue' /\ enqueue' <= dequeue' + RingSize
  <2>1. dequeue + 1 <= enqueue /\ enqueue <= dequeue + 1 + RingSize
    BY <1>2, <1>3
  <2>2. QED
    BY <1>1, <2>1
<1> HIDE DEF slot, freed
<1>11. RingHolds'
  BY <1>1, <1>8, <1>9, <1>10 DEF RingHolds, FilledAt, FillingAt, RingSlot
<1>12. ASSUME NEW u \in RenderThreads, at[u] = "fill"
       PROVE  /\ dequeue + 1 <= place[u] /\ place[u] < enqueue
              /\ ring'[place[u] % RingSize].seq = place[u]
              /\ claims[place[u] + 1] = <<u, mark[u], Len(stack[u])>>
  <2>1. /\ place[u] \in Nat /\ dequeue <= place[u] /\ place[u] < enqueue
        /\ ring[place[u] % RingSize].seq = place[u]
        /\ claims[place[u] + 1] = <<u, mark[u], Len(stack[u])>>
    BY <1>12, RingReads
  <2>2. place[u] # dequeue
    BY <1>1, <1>3, <2>1 DEF slot
  <2>3. dequeue < place[u] /\ place[u] < dequeue + RingSize /\ dequeue + 1 <= place[u]
    BY <1>3, <2>1, <2>2
  <2>4. ring'[place[u] % RingSize] = ring[place[u] % RingSize]
    BY <1>6, <2>1, <2>3
  <2>5. QED
    BY <2>1, <2>3, <2>4
<1>13. \A u, v \in RenderThreads :
          at[u] = "fill" /\ at[v] = "fill" /\ place[u] = place[v] => u = v
  BY DEF TraceInv, FillersHold
<1>14. FillersHold'
  BY <1>1, <1>12, <1>13 DEF FillersHold, RingSlot
<1>15. FileFollowsClaims'
  <2>1. /\ Len(file) = dequeue /\ \A i \in 1 .. Len(file) : file[i] = claims[i]
        /\ file \in Seq(Traced \cup {NoRecord})
        /\ boot \in {"none", "prepare", "writer"} => enqueue = 0 /\ dequeue = 0
    BY DEF TraceInv, TraceTypes, QueueTypes, FileFollowsClaims
  <2>2. ring[slot].record \in Traced \cup {NoRecord}
    BY <1>3, RingReads
  <2>3. /\ Len(file') = dequeue + 1 /\ file'[dequeue + 1] = claims[dequeue + 1]
        /\ \A i \in 1 .. dequeue : file'[i] = claims[i]
    BY <1>1, <1>2, <2>1, <2>2, AppendProperties
  <2>4. \A i \in 1 .. dequeue + 1 : file'[i] = claims[i]
    <3>1. \A i \in 1 .. dequeue + 1 : i \in 1 .. dequeue \/ i = dequeue + 1
      BY <1>3
    <3>2. QED
      BY <2>3, <3>1
  <2>5. boot \notin {"none", "prepare", "writer"}
    BY <1>2, <1>3, <2>1
  <2>6. QED
    BY <1>1, <1>3, <2>3, <2>4, <2>5 DEF FileFollowsClaims
<1>16. QED
  BY <1>11, <1>14, <1>15

\* Before the writer starts, nothing was claimed, and no thread is inside.
LEMMA NothingClaimedYet ==
    ASSUME TraceInv, boot \in {"none", "prepare", "writer"}
    PROVE  /\ enqueue = 0 /\ dequeue = 0 /\ \A t \in RenderThreads : at[t] = "engine"
  BY DEF TraceInv, TraceStages, InsideHasOriginal, FileFollowsClaims

\* The ring starts empty, every slot waiting for its own position.
LEMMA StartKeepsRing ==
    ASSUME TraceInv, StartWriter
    PROVE  RingHolds' /\ FillersHold' /\ FileFollowsClaims'
<1>1. /\ ring' = EmptyRing /\ enqueue' = 0 /\ dequeue' = 0
      /\ claims' = claims /\ file' = file /\ boot = "writer" /\ at' = at
  BY DEF StartWriter, threads
<1>2. enqueue = 0 /\ dequeue = 0 /\ \A t \in RenderThreads : at[t] = "engine"
  BY <1>1, NothingClaimedYet
<1>3. RingSize \in Nat /\ RingSize > 1
  BY TraceAssumption
<1>4. ASSUME NEW p \in Nat, p < RingSize PROVE EmptyRing[p % RingSize].seq = p
  <2>1. p % RingSize = p /\ p \in 0 .. RingSize - 1
    BY <1>3, <1>4, FirstLap
  <2>2. QED
    BY <2>1 DEF EmptyRing
<1>5. RingHolds'
  <2>1. \A p \in Nat : ~(0 <= p /\ p < 0)
    OBVIOUS
  <2>2. \A p \in Nat : 0 <= p /\ p < 0 + RingSize => EmptyRing[p % RingSize].seq = p
    BY <1>3, <1>4
  <2>3. 0 <= 0 + RingSize /\ 0 <= 0
    BY <1>3
  <2> HIDE DEF EmptyRing
  <2>4. QED
    BY <1>1, <2>1, <2>2, <2>3 DEF RingHolds, RingSlot
<1>6. FillersHold'
  BY <1>1, <1>2 DEF FillersHold
<1>7. FileFollowsClaims'
  BY <1>1, <1>2 DEF TraceInv, FileFollowsClaims
<1>8. QED
  BY <1>5, <1>6, <1>7

\* Every step keeps the ring between its two positions.
LEMMA RingStep ==
    ASSUME TraceInv, TraceNext
    PROVE  RingHolds' /\ FillersHold'
<1>1. ASSUME NEW double \in BOOLEAN, ClaimTrace(double) PROVE RingHolds' /\ FillersHold'
  BY <1>1, RingStays DEF queue, ClaimTrace
<1>2. ASSUME NEW double \in BOOLEAN, RefusedBootstrap(double) PROVE RingHolds' /\ FillersHold'
  BY <1>2, RingStays DEF queue, RefusedBootstrap
<1>3. CASE Prepare
  BY <1>3, RingStays DEF queue, Prepare
<1>4. CASE PrepareFails
  BY <1>4, RingStays DEF queue, PrepareFails
<1>5. CASE StartWriter
  BY <1>5, StartKeepsRing
<1>6. CASE SetOriginals
  BY <1>6, RingStays DEF queue, SetOriginals
<1>7. CASE DecideInstall
  BY <1>7, RingStays DEF queue, DecideInstall
<1>8. CASE ExchangeInstall
  BY <1>8, RingStays DEF queue, ExchangeInstall, Exchange, InstalledIfExchanged
<1>9. CASE InstallFails
  BY <1>9, RingStays DEF queue, InstallFails
<1>10. CASE Activate
  BY <1>10, RingStays DEF queue, Activate
<1>11. CASE Report
  BY <1>11, RingStays DEF queue, Report
<1>12. CASE ReportFailed
  BY <1>12, RingStays DEF queue, ReportFailed
<1>13. CASE Cleanup
  BY <1>13, RingStays DEF queue, Cleanup
<1>14. CASE CleanupEnds
  BY <1>14, RingStays DEF queue, CleanupEnds
<1>15. CASE StopRenderTrace
  BY <1>15, RingStays DEF queue, StopRenderTrace
<1>16. CASE TraceExpires
  BY <1>16, RingStays DEF queue, TraceExpires
<1>17. CASE BeginStop
  BY <1>17, RingStays DEF queue, BeginStop
<1>18. CASE DecideRestore
  BY <1>18, RingStays DEF queue, DecideRestore, Restoring
<1>19. CASE ExchangeRestore
  BY <1>19, RingStays DEF queue, ExchangeRestore, Restoring, Exchange
<1>20. CASE RestoreFails
  BY <1>20, RingStays DEF queue, RestoreFails, Restoring
<1>21. CASE WrappersGone
  BY <1>21, RingStays DEF queue, WrappersGone, QuietWhenEmpty
<1>22. CASE StopTimesOut
  BY <1>22, RingStays DEF queue, StopTimesOut
<1>23. CASE StopCompletes
  BY <1>23, RingStays DEF queue, StopCompletes
<1>24. ASSUME NEW h \in Hooks, ForeignPatch(h) PROVE RingHolds' /\ FillersHold'
  BY <1>24, RingStays DEF queue, ForeignPatch
<1>25. ASSUME NEW t \in RenderThreads, Fetch(t) PROVE RingHolds' /\ FillersHold'
  <2>1. UNCHANGED <<ring, enqueue, dequeue, claims, place>>
    BY <1>25 DEF Fetch, queue
  <2>2. ThreadTypes
    BY DEF TraceInv, TraceTypes
  <2>3. /\ at[t] = "engine" /\ at' = [at EXCEPT ![t] = "jumping"] /\ stack' = stack
        /\ mark' = mark
    BY <1>25 DEF Fetch
  <2>4. /\ \A u \in RenderThreads : at'[u] = IF u = t THEN "jumping" ELSE at[u]
        /\ \A u \in RenderThreads \ {t} : mark'[u] = mark[u]
    BY <2>2, <2>3 DEF ThreadTypes
  <2>5. QED
    BY <2>1, <2>3, <2>4, RingQuiet
<1>26. ASSUME NEW t \in RenderThreads, Count(t) PROVE RingHolds' /\ FillersHold'
  <2>1. UNCHANGED <<ring, enqueue, dequeue, claims, place>>
    BY <1>26 DEF Count, queue
  <2>2. ThreadTypes
    BY DEF TraceInv, TraceTypes
  <2>3. /\ at[t] = "jumping" /\ at' = [at EXCEPT ![t] = "counted"] /\ stack' = stack
        /\ mark' = mark
    BY <1>26 DEF Count
  <2>4. /\ \A u \in RenderThreads : at'[u] = IF u = t THEN "counted" ELSE at[u]
        /\ \A u \in RenderThreads \ {t} : mark'[u] = mark[u]
    BY <2>2, <2>3 DEF ThreadTypes
  <2>5. QED
    BY <2>1, <2>3, <2>4, RingQuiet
<1>27. ASSUME NEW t \in RenderThreads, Look(t) PROVE RingHolds' /\ FillersHold'
  <2>1. UNCHANGED <<ring, enqueue, dequeue, claims, place>>
    BY <1>27 DEF Look, queue
  <2>2. ThreadTypes
    BY DEF TraceInv, TraceTypes
  <2>3. /\ at[t] = "counted" /\ at'[t] # "fill"
        /\ \A u \in RenderThreads \ {t} : stack'[u] = stack[u] /\ at'[u] = at[u] /\ mark'[u] = mark[u]
    BY <1>27, <2>2, LookFacts
  <2>4. QED
    BY <2>1, <2>3, RingQuiet
<1>28. ASSUME NEW t \in RenderThreads, ExtraPass(t) PROVE RingHolds' /\ FillersHold'
  <2>1. UNCHANGED <<ring, enqueue, dequeue, claims, place>>
    BY <1>28 DEF ExtraPass, queue
  <2>2. ThreadTypes
    BY DEF TraceInv, TraceTypes
  <2>3. /\ at[t] = "engine" /\ at' = [at EXCEPT ![t] = "claim"] /\ stack' = stack
        /\ mark' = [mark EXCEPT ![t] = "extra"]
    BY <1>28 DEF ExtraPass
  <2>4. /\ \A u \in RenderThreads : at'[u] = IF u = t THEN "claim" ELSE at[u]
        /\ \A u \in RenderThreads \ {t} : mark'[u] = mark[u]
    BY <2>2, <2>3 DEF ThreadTypes
  <2>5. QED
    BY <2>1, <2>3, <2>4, RingQuiet
<1>29. ASSUME NEW t \in RenderThreads, Return(t) PROVE RingHolds' /\ FillersHold'
  <2>1. UNCHANGED <<ring, enqueue, dequeue, claims, place>>
    BY <1>29 DEF Return, queue
  <2>2. ThreadTypes
    BY DEF TraceInv, TraceTypes
  <2>3. at[t] = "engine" /\ stack[t] # <<>>
    BY <1>29 DEF Return
  <2>4. /\ at'[t] # "fill"
        /\ \A u \in RenderThreads \ {t} : stack'[u] = stack[u] /\ at'[u] = at[u] /\ mark'[u] = mark[u]
    <3>1. CASE CloseScope(t)
      BY <2>2, <2>3, <3>1, CloseScopeFacts
    <3>2. CASE ~CloseScope(t)
      <4>1. /\ at' = [at EXCEPT ![t] = "claim"] /\ mark' = [mark EXCEPT ![t] = "exit"]
            /\ stack' = stack
        BY <1>29, <3>2 DEF Return
      <4>2. QED
        BY <2>2, <4>1 DEF ThreadTypes
    <3>3. QED
      BY <3>1, <3>2
  <2>5. QED
    BY <2>1, <2>3, <2>4, RingQuiet
<1>30. ASSUME NEW t \in RenderThreads, ClaimSlot(t) PROVE RingHolds' /\ FillersHold'
  BY <1>30, ClaimKeepsRing
<1>31. ASSUME NEW t \in RenderThreads, DropRecord(t) PROVE RingHolds' /\ FillersHold'
  <2>1. UNCHANGED <<ring, enqueue, dequeue, claims, place>>
    BY <1>31 DEF DropRecord, queue
  <2>2. ThreadTypes
    BY DEF TraceInv, TraceTypes
  <2>3. at[t] = "claim" /\ AfterRecord(t)
    BY <1>31 DEF DropRecord
  <2>4. /\ at'[t] = "engine"
        /\ \A u \in RenderThreads \ {t} : stack'[u] = stack[u] /\ at'[u] = at[u] /\ mark'[u] = mark[u]
    BY <2>3, AfterRecordFacts
  <2>5. QED
    BY <2>1, <2>3, <2>4, RingQuiet
<1>32. ASSUME NEW t \in RenderThreads, FillSlot(t) PROVE RingHolds' /\ FillersHold'
  BY <1>32, FillKeepsRing
<1>33. CASE WriterStep
  <2>1. UNCHANGED threads /\ boot' = boot
    BY <1>33 DEF WriterStep, control
  <2>2. CASE Filled /\ Dequeue
    BY <2>1, <2>2, DequeueKeepsRing
  <2>3. CASE UNCHANGED queue
    BY <2>1, <2>3, RingStays DEF queue
  <2>4. QED
    BY <1>33, <2>2, <2>3 DEF WriterStep
<1>34. QED
  BY <1>1, <1>2, <1>3, <1>4, <1>5, <1>6, <1>7, <1>8, <1>9, <1>10, <1>11, <1>12, <1>13, <1>14,
      <1>15, <1>16, <1>17, <1>18, <1>19, <1>20, <1>21, <1>22, <1>23, <1>24, <1>25, <1>26, <1>27,
      <1>28, <1>29, <1>30, <1>31, <1>32, <1>33 DEF TraceNext

\* The file stays a beginning of the claimed records.
LEMMA FileStep ==
    ASSUME TraceInv, TraceNext
    PROVE  FileFollowsClaims'
<1>1. ASSUME NEW double \in BOOLEAN, ClaimTrace(double) PROVE FileFollowsClaims'
  BY <1>1 DEF ClaimTrace, TraceInv, TraceStages, FileFollowsClaims, control, queue
<1>2. ASSUME NEW double \in BOOLEAN, RefusedBootstrap(double) PROVE FileFollowsClaims'
  BY <1>2 DEF RefusedBootstrap, TraceInv, FileFollowsClaims, control, queue
<1>3. CASE Prepare
  BY <1>3 DEF Prepare, TraceInv, FileFollowsClaims, control, queue
<1>4. CASE PrepareFails
  BY <1>4 DEF PrepareFails, TraceInv, FileFollowsClaims, control, queue
<1>5. CASE StartWriter
  BY <1>5, StartKeepsRing
<1>6. CASE SetOriginals
  BY <1>6 DEF SetOriginals, TraceInv, FileFollowsClaims, control, queue
<1>7. CASE DecideInstall
  BY <1>7 DEF DecideInstall, TraceInv, FileFollowsClaims, control, queue
<1>8. CASE ExchangeInstall
  BY <1>8 DEF ExchangeInstall, TraceInv, FileFollowsClaims, control, queue, Exchange,
      InstalledIfExchanged
<1>9. CASE InstallFails
  BY <1>9 DEF InstallFails, TraceInv, FileFollowsClaims, control, queue
<1>10. CASE Activate
  BY <1>10 DEF Activate, TraceInv, FileFollowsClaims, control, queue
<1>11. CASE Report
  BY <1>11 DEF Report, TraceInv, FileFollowsClaims, control, queue
<1>12. CASE ReportFailed
  BY <1>12 DEF ReportFailed, TraceInv, FileFollowsClaims, control, queue
<1>13. CASE Cleanup
  BY <1>13 DEF Cleanup, TraceInv, FileFollowsClaims, control, queue
<1>14. CASE CleanupEnds
  BY <1>14 DEF CleanupEnds, TraceInv, FileFollowsClaims, control, queue
<1>15. CASE StopRenderTrace
  BY <1>15 DEF StopRenderTrace, TraceInv, FileFollowsClaims, control, queue
<1>16. CASE TraceExpires
  BY <1>16 DEF TraceExpires, TraceInv, FileFollowsClaims, control, queue
<1>17. CASE BeginStop
  BY <1>17 DEF BeginStop, TraceInv, FileFollowsClaims, control, queue
<1>18. CASE DecideRestore
  BY <1>18 DEF DecideRestore, TraceInv, FileFollowsClaims, control, queue, Restoring
<1>19. CASE ExchangeRestore
  BY <1>19 DEF ExchangeRestore, TraceInv, FileFollowsClaims, control, queue, Restoring, Exchange
<1>20. CASE RestoreFails
  BY <1>20 DEF RestoreFails, TraceInv, FileFollowsClaims, control, queue, Restoring
<1>21. CASE WrappersGone
  BY <1>21 DEF WrappersGone, TraceInv, FileFollowsClaims, control, queue, QuietWhenEmpty
<1>22. CASE StopTimesOut
  BY <1>22 DEF StopTimesOut, TraceInv, FileFollowsClaims, control, queue
<1>23. CASE StopCompletes
  BY <1>23 DEF StopCompletes, TraceInv, FileFollowsClaims, control, queue
<1>24. ASSUME NEW h \in Hooks, ForeignPatch(h) PROVE FileFollowsClaims'
  BY <1>24 DEF ForeignPatch, TraceInv, FileFollowsClaims, control, queue
<1>25. ASSUME NEW t \in RenderThreads, Fetch(t) PROVE FileFollowsClaims'
  BY <1>25 DEF Fetch, TraceInv, FileFollowsClaims, control, queue
<1>26. ASSUME NEW t \in RenderThreads, Count(t) PROVE FileFollowsClaims'
  BY <1>26 DEF Count, TraceInv, FileFollowsClaims, control, queue
<1>27. ASSUME NEW t \in RenderThreads, Look(t) PROVE FileFollowsClaims'
  BY <1>27 DEF Look, TraceInv, FileFollowsClaims, control, queue
<1>28. ASSUME NEW t \in RenderThreads, ExtraPass(t) PROVE FileFollowsClaims'
  BY <1>28 DEF ExtraPass, TraceInv, FileFollowsClaims, control, queue
<1>29. ASSUME NEW t \in RenderThreads, Return(t) PROVE FileFollowsClaims'
  BY <1>29 DEF Return, TraceInv, FileFollowsClaims, control, queue, CloseScope
<1>30. ASSUME NEW t \in RenderThreads, ClaimSlot(t) PROVE FileFollowsClaims'
  BY <1>30, ClaimKeepsRing
<1>31. ASSUME NEW t \in RenderThreads, DropRecord(t) PROVE FileFollowsClaims'
  BY <1>31 DEF DropRecord, TraceInv, FileFollowsClaims, control, queue, AfterRecord, CloseScope
<1>32. ASSUME NEW t \in RenderThreads, FillSlot(t) PROVE FileFollowsClaims'
  BY <1>32 DEF FillSlot, TraceInv, FileFollowsClaims, control, queue, AfterRecord, CloseScope
<1>33. CASE WriterStep
  <2>1. UNCHANGED threads /\ boot' = boot
    BY <1>33 DEF WriterStep, control
  <2>2. CASE Filled /\ Dequeue
    BY <2>1, <2>2, DequeueKeepsRing
  <2>3. CASE UNCHANGED queue
    BY <2>1, <2>3 DEF queue, TraceInv, FileFollowsClaims
  <2>4. QED
    BY <1>33, <2>2, <2>3 DEF WriterStep
<1>34. QED
  BY <1>1, <1>2, <1>3, <1>4, <1>5, <1>6, <1>7, <1>8, <1>9, <1>10, <1>11, <1>12, <1>13, <1>14,
      <1>15, <1>16, <1>17, <1>18, <1>19, <1>20, <1>21, <1>22, <1>23, <1>24, <1>25, <1>26, <1>27,
      <1>28, <1>29, <1>30, <1>31, <1>32, <1>33 DEF TraceNext

\* Every step of the trace keeps its invariant.
LEMMA TraceStep ==
    ASSUME TraceInv, TraceNext
    PROVE  TraceInv'
<1>1. TraceTypes'
  BY ControlTypeStep, PatchTypeStep, QueueTypeStep, ThreadTypeStep DEF TraceTypes
<1>2. TraceStages' /\ CellsAreKnown' /\ DecisionHolds'
  BY StagesStep, CellsStep, DecisionStep
<1>3. ActiveCounts' /\ InsideHasOriginal' /\ StopIsSilent'
  BY ActiveStep, InsideStep, SilentStep
<1>4. RingHolds' /\ FillersHold' /\ FileFollowsClaims'
  BY RingStep, FileStep
<1>5. QED
  BY <1>1, <1>2, <1>3, <1>4 DEF TraceInv

\* While nothing of the trace changes, its invariant stays.
LEMMA TraceQuiet ==
    ASSUME TraceInv, UNCHANGED traceVars
    PROVE  TraceInv'
<1>1. /\ UNCHANGED <<trace, boot, stopper, stopRequest, writer, writerStop>>
      /\ UNCHANGED <<todo, decided, undone, cells, installed, originals, accepting>>
      /\ UNCHANGED <<ring, enqueue, dequeue, claims, file>>
      /\ UNCHANGED <<active, at, mark, stack, place, calls>> /\ UNCHANGED threads
  BY DEF traceVars, control, patching, flags, queue, writing, threads
<1>2. TraceTypes'
  <2>1. ControlTypes' /\ PatchTypes'
    BY <1>1 DEF TraceInv, TraceTypes, ControlTypes, PatchTypes
  <2>2. QueueTypes'
    BY <1>1 DEF TraceInv, TraceTypes, QueueTypes
  <2>3. ThreadTypes'
    BY <1>1 DEF TraceInv, TraceTypes, ThreadTypes
  <2>4. QED
    BY <2>1, <2>2, <2>3 DEF TraceTypes
<1>3. TraceStages' /\ CellsAreKnown'
  BY <1>1 DEF TraceInv, TraceStages, CellsAreKnown
<1>4. DecisionHolds'
  BY <1>1, NextStays DEF TraceInv, DecisionHolds
<1>5. ActiveCounts' /\ InsideHasOriginal'
  BY <1>1, ScopesQuiet DEF TraceInv, InsideHasOriginal
<1>6. StopIsSilent'
  BY <1>1, SilenceLasts DEF TraceInv, StopIsSilent
<1>7. RingHolds' /\ FillersHold'
  BY <1>1, RingStays
<1>8. FileFollowsClaims'
  BY <1>1 DEF TraceInv, FileFollowsClaims
<1>9. QED
  BY <1>2, <1>3, <1>4, <1>5, <1>6, <1>7, <1>8 DEF TraceInv

\* The trace starts in its invariant.
LEMMA TraceStart == TraceInit => TraceInv
<1> SUFFICES ASSUME TraceInit PROVE TraceInv
  OBVIOUS
<1>1. RingSize \in Nat /\ RingSize > 1
  BY TraceAssumption
<1>2. ControlTypes /\ PatchTypes
  BY DEF TraceInit, ControlTypes, PatchTypes
<1>3. QueueTypes
  <2>1. EmptyRing \in [RingSlots -> [seq : Nat, record : Traced \cup {NoRecord}]]
    BY <1>1 DEF EmptyRing, RingSlots
  <2>2. claims \in Seq(Traced) /\ file \in Seq(Traced \cup {NoRecord})
    BY EmptySeq DEF TraceInit
  <2>3. QED
    BY <2>1, <2>2 DEF TraceInit, QueueTypes
<1>4. \A t \in RenderThreads : at[t] = "engine" /\ stack[t] = <<>> /\ place[t] = 0
  BY DEF TraceInit
<1>5. ThreadTypes
  <2>1. <<>> \in Seq(BOOLEAN) /\ "entry" \in Marks
    BY EmptySeq DEF Marks
  <2>2. QED
    BY <2>1 DEF TraceInit, ThreadTypes
<1>6. TraceStages /\ DecisionHolds /\ CellsAreKnown
  BY DEF TraceInit, TraceStages, DecisionHolds, CellsAreKnown
<1>7. Len(<<>>) = 0
  BY EmptySeq
<1>8. OpenScopes = {}
  BY <1>4, <1>7 DEF OpenScopes
<1>9. ActiveCounts
  BY <1>4, <1>8, FS_EmptySet DEF TraceInit, ActiveCounts
<1>10. InsideHasOriginal /\ StopIsSilent
  BY <1>4 DEF TraceInit, InsideHasOriginal, StopIsSilent
<1>11. RingHolds
  <2>1. ASSUME NEW p \in Nat, p < RingSize PROVE EmptyRing[p % RingSize].seq = p
    <3>1. p % RingSize = p /\ p \in 0 .. RingSize - 1
      BY <1>1, <2>1, FirstLap
    <3>2. QED
      BY <3>1 DEF EmptyRing
  <2>2. \A p \in Nat : ~(0 <= p /\ p < 0)
    OBVIOUS
  <2>3. \A p \in Nat : 0 <= p /\ p < 0 + RingSize => EmptyRing[p % RingSize].seq = p
    BY <1>1, <2>1
  <2>4. 0 <= 0 + RingSize /\ 0 <= 0
    BY <1>1
  <2>5. ring = EmptyRing /\ enqueue = 0 /\ dequeue = 0
    BY DEF TraceInit
  <2> HIDE DEF EmptyRing
  <2>6. QED
    BY <2>2, <2>3, <2>4, <2>5 DEF RingHolds, RingSlot
<1>12. FillersHold
  BY <1>4 DEF FillersHold
<1>13. FileFollowsClaims
  BY <1>7 DEF TraceInit, FileFollowsClaims
<1>14. QED
  BY <1>2, <1>3, <1>5, <1>6, <1>9, <1>10, <1>11, <1>12, <1>13 DEF TraceInv, TraceTypes

\* The invariant says what the runs check.
LEMMA TraceShows ==
    ASSUME TraceInv
    PROVE  /\ TraceTypeOK /\ WrapperHasOriginal /\ HooksComeOff
           /\ StoppedTraceIsComplete /\ RecordsArriveWhole
<1>1. TraceTypeOK
  BY DEF TraceInv, TraceTypes, ControlTypes, PatchTypes, QueueTypes, ThreadTypes, TraceTypeOK
<1>2. WrapperHasOriginal
  BY DEF TraceInv, InsideHasOriginal, WrapperHasOriginal
<1>3. HooksComeOff
  BY DEF TraceInv, CellsAreKnown, HooksComeOff
<1>4. /\ Len(claims) = enqueue /\ Len(file) = dequeue /\ dequeue <= enqueue
      /\ file \in Seq(Traced \cup {NoRecord})
      /\ \A i \in 1 .. Len(file) : file[i] = claims[i]
  BY DEF TraceInv, TraceTypes, QueueTypes, RingHolds, FileFollowsClaims
<1>5. StoppedTraceIsComplete
  BY <1>4 DEF TraceInv, StopIsSilent, StoppedTraceIsComplete
<1>6. RecordsArriveWhole
  BY <1>4, LenProperties DEF RecordsArriveWhole
<1>7. QED
  BY <1>1, <1>2, <1>3, <1>5, <1>6
=============================================================================
