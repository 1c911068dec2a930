------------------------------ MODULE MonoStream ------------------------------
(***************************************************************************)
(* The mono picture stream of game32/gpu_stream_producer.cpp with the two  *)
(* interop bridges under it: GL external objects shared with D3D12         *)
(* (gl_ext_d3d12_bridge.cpp) and, when those cannot be set up, WGL_NV_DX   *)
(* (nv_dx_interop_bridge.cpp).  Everything runs on the game's render       *)
(* thread; the game replaces its GL context, the GPU signals and the host  *)
(* consumes in between.                                                    *)
(*                                                                         *)
(* An HGLRC is a handle that Windows may give out again, and so is a GL    *)
(* name.  A context is therefore an instance, a name is the instance that  *)
(* it was created in, and only the code's comparisons see handles.         *)
(* ShutdownGpuStreamProducer has no caller and is left out.                *)
(***************************************************************************)
EXTENDS Integers, FiniteSets

CONSTANTS
    SlotCount,      \* colour slots of the primary bridge, 3 in the code
    FenceMax,       \* the fence value of a removed device, UINT64_MAX
    Handles,        \* values of an HGLRC
    NoHandle,
    MaxContexts,    \* bound on the contexts the game creates
    MaxFaults       \* bound on failing driver calls after the start

ASSUME SlotAssumption    == SlotCount \in Nat \ {0}
ASSUME FenceAssumption   == FenceMax \in Nat /\ FenceMax > 1
ASSUME HandleAssumption  == NoHandle \notin Handles /\ Handles # {}
ASSUME BoundsAssumption  == MaxContexts \in Nat \ {0} /\ MaxFaults \in Nat

VARIABLES
    born, alive, handle, current,   \* the game's GL contexts
    window,         \* contexts whose surface is the game's visible window
    lifecycle,      \* g_lifecycle
    stage,          \* where StartGpuStreamProducer is
    held,           \* objects the start has created
    backend,
    owner,          \* state.owner_context
    deleted,        \* state.context_deleted
    imported,       \* context_recovery.imported_
    cooling,        \* the next recovery attempt is not due
    fbo, resolve,   \* instance of output_fbo, of the resolve target; 0 is none
    bridgeOwner,    \* owner_context of the bridge in use
    names,          \* instance of the bridge's textures and semaphores
    lastProduced, slotUse,                      \* the producer's books
    lastSignal, slotSignalled, slotWaited,      \* the bridge's books
    locked,         \* object_locked of the NV bridge
    content,        \* per slot, the frame drawn into it, 0 when torn
    queued, ready,  \* signals given to the GPU, and executed by it
    copying, consumed, removed,                 \* the host, the device
    faults

game   == <<born, alive, handle, current, window>>
start  == <<stage, held, backend>>
rec    == <<deleted, imported, cooling>>
glNames == <<owner, fbo, resolve, bridgeOwner, names>>
books  == <<lastProduced, slotUse, lastSignal, slotSignalled, slotWaited>>
pixels == <<locked, content, queued>>
host   == <<ready, copying, consumed, removed>>
monoVars == <<game, lifecycle, start, rec, glNames, books, pixels, host, faults>>

Contexts == 1 .. MaxContexts
Slots == 1 .. SlotCount
Zeros == [s \in Slots |-> 0]

MonoInit ==
    /\ born = 1 /\ alive = {1} /\ current = 1 /\ window = {1}
    /\ handle = [c \in Contexts |-> IF c = 1 THEN CHOOSE h \in Handles : TRUE ELSE NoHandle]
    /\ lifecycle = "dormant" /\ stage = "idle" /\ held = {} /\ backend = "none"
    /\ deleted = FALSE /\ imported = FALSE /\ cooling = FALSE
    /\ owner = NoHandle /\ fbo = 0 /\ resolve = 0 /\ bridgeOwner = NoHandle /\ names = 0
    /\ lastProduced = 0 /\ slotUse = Zeros
    /\ lastSignal = 0 /\ slotSignalled = Zeros /\ slotWaited = Zeros
    /\ locked = FALSE /\ content = Zeros /\ queued = 0 /\ ready = 0
    /\ copying = 0 /\ consumed = 0 /\ removed = FALSE /\ faults = 0

Fault == faults < MaxFaults /\ faults' = faults + 1

-----------------------------------------------------------------------------
(* StartGpuStreamProducer: the primary bridge, the fallback, the framebuffer. *)

D3D12Stream == {"colors", "d3d12 fences", "named d3d12 objects"}
GlStream    == {"gl memories", "gl textures", "gl semaphores"}
Primary     == D3D12Stream \cup GlStream \cup {"d3d12 device"}
RegisteredTexture == {"shared texture", "interop object"}
FallbackFences  == {"d3d11 fences", "named d3d11 objects"}
FallbackObjects == {"d3d11 device", "interop device"} \cup RegisteredTexture \cup FallbackFences
Objects == Primary \cup FallbackObjects \cup {"output fbo"}

\* The claim, and what can fail before any object exists.
StartGpuStreamProducer ==
    /\ lifecycle = "dormant"
    /\ \/ current # 0 /\ lifecycle' = "starting" /\ stage' = "load"
       \/ lifecycle' = "failed" /\ stage' = stage
    /\ UNCHANGED <<game, held, backend, rec, glNames, books, pixels, host, faults>>

\* One step of the start creates its objects, or creates some of them, fails,
\* releases what its own error path releases and goes on at the handler.
Step(from, objects, next, releases, handler) ==
    /\ lifecycle = "starting" /\ stage = from
    /\ \/ held' = held \cup objects /\ stage' = next
       \/ \E part \in SUBSET objects : held' = (held \cup part) \ releases /\ stage' = handler
    /\ UNCHANGED <<game, lifecycle, backend, rec, glNames, books, pixels, host, faults>>

\* GlExtD3D12Bridge::Initialize abandons its candidate.
LoadGlFunctions    == Step("load", {}, "adapter", Primary, "primary failed")
QueryGlAdapterLuid == Step("adapter", {}, "device", Primary, "primary failed")
CreateDeviceForGlAdapter ==
    Step("device", {"d3d12 device"}, "create", Primary, "primary failed")

\* Shutdown of either bridge, its stream or its texture released first: a stream
\* that left no colour, texture or fence counts as none.
ShutdownExt ==
    IF held \cap {"colors", "gl textures", "d3d12 fences"} = {} THEN {"d3d12 device"} ELSE Primary
ShutdownNv  == FallbackObjects \ FallbackFences

\* FailStreamCreation keeps the device and nothing else.
ReleasedByFailure == GlStream \cup D3D12Stream

\* CreateNamedStreamsImpl.
CheckNamedStreams == Step("create", {}, "colors", {}, "primary failed")
CreateColors ==
    Step("colors", {"colors"}, "fences", ReleasedByFailure, "primary failed")
CreateFences ==
    Step("fences", {"d3d12 fences"}, "handles", ReleasedByFailure, "primary failed")
CreateSharedHandles ==
    Step("handles", {"named d3d12 objects"}, "memories", ReleasedByFailure, "primary failed")

\* ImportD3D12StreamIntoGl: a failed import releases its GL names, and its caller
\* the rest.
ImportMemories ==
    Step("memories", {"gl memories"}, "textures", ReleasedByFailure, "primary failed")
ImportTextures ==
    Step("textures", {"gl textures"}, "semaphores", ReleasedByFailure, "primary failed")
ImportSemaphores ==
    Step("semaphores", {"gl semaphores"}, "primary ready", ReleasedByFailure, "primary failed")

SelectPrimary ==
    /\ lifecycle = "starting" /\ stage = "primary ready"
    /\ backend' = "ext" /\ stage' = "fbo"
    /\ bridgeOwner' = handle[current] /\ names' = current
    /\ UNCHANGED <<game, lifecycle, held, rec, owner, fbo, resolve, books, pixels, host, faults>>

\* The primary is shut down before the fallback takes the same object names.
ShutdownPrimary ==
    /\ lifecycle = "starting" /\ stage = "primary failed"
    /\ held' = held \ ShutdownExt /\ stage' = "nv load"
    /\ UNCHANGED <<game, lifecycle, backend, rec, glNames, books, pixels, host, faults>>

\* NvDxInteropBridge::Initialize.
ResolveInteropFunctions == Step("nv load", {}, "nv adapter", {}, "fail")
SelectNvidiaAdapter     == Step("nv adapter", {}, "nv device", {}, "fail")
OpenInteropDevice ==
    Step("nv device", {"d3d11 device", "interop device"}, "nv texture", FallbackObjects, "fail")

\* RegisterSharedTexture: registered directly or, once more and with a fresh
\* texture, after an explicit association; a failed attempt leaves nothing.
CheckTextureFormat == Step("nv texture", {}, "nv create", {}, "fail")
CreateAttempt ==
    Step("nv create", {"shared texture"}, "nv register", RegisteredTexture, "fail")
RegisterDirectly ==
    Step("nv register", {"interop object"}, "nv fences", RegisteredTexture, "nv again")
RegisterAgain ==
    Step("nv again", RegisteredTexture, "nv fences", RegisteredTexture, "fail")

CreateFallbackFences ==
    Step("nv fences", FallbackFences, "fallback ready", {}, "fail")

SelectFallback ==
    /\ lifecycle = "starting" /\ stage = "fallback ready"
    /\ backend' = "nv" /\ stage' = "fbo"
    /\ bridgeOwner' = handle[current] /\ names' = current
    /\ UNCHANGED <<game, lifecycle, held, rec, owner, fbo, resolve, books, pixels, host, faults>>

CreateOutputFramebuffer == Step("fbo", {"output fbo"}, "run", {}, "fail")

StartSucceeds ==
    /\ lifecycle = "starting" /\ stage = "run"
    /\ owner' = handle[current] /\ fbo' = current
    /\ lifecycle' = "running" /\ stage' = "idle"
    /\ UNCHANGED <<game, held, backend, rec, resolve, bridgeOwner, names, books, pixels, host, faults>>

\* CleanupProducer, then the destructors, which abandon what a bridge could
\* not shut down.  The context is still the one of the start.
CleanupProducer == ShutdownExt \cup ShutdownNv \cup FallbackFences \cup {"output fbo"}

FailStart ==
    /\ lifecycle = "starting" /\ stage = "fail"
    /\ held' = held \ CleanupProducer
    /\ backend' = "none" /\ bridgeOwner' = NoHandle /\ names' = 0
    /\ lifecycle' = "failed" /\ stage' = "idle"
    /\ UNCHANGED <<game, rec, owner, fbo, resolve, books, pixels, host, faults>>

-----------------------------------------------------------------------------
(* The game's contexts; CaptureDeleteContext sees each deletion. *)

Quiet == lifecycle # "starting"

CreateContext ==
    /\ Quiet /\ born < MaxContexts
    /\ born' = born + 1 /\ alive' = alive \cup {born + 1}
    /\ \E h \in Handles : /\ \A c \in alive : handle[c] # h
                          /\ handle' = [handle EXCEPT ![born + 1] = h]
    /\ window' \in {window, window \cup {born + 1}}
    /\ UNCHANGED <<current, lifecycle, start, rec, glNames, books, pixels, host, faults>>

MakeCurrent ==
    /\ Quiet /\ current' \in alive \cup {0}
    /\ UNCHANGED <<born, alive, handle, window>>
    /\ UNCHANGED <<lifecycle, start, rec, glNames, books, pixels, host, faults>>

ForgetNames(c) == IF owner = handle[c] THEN fbo' = 0 /\ resolve' = 0 ELSE UNCHANGED <<fbo, resolve>>

\* NotifyGpuStreamContextDeleted; g_producer exists from the start on.
NotifyGpuStreamContextDeleted(c) ==
    /\ deleted'  = (deleted \/ owner = handle[c])
    /\ imported' = (imported /\ owner # handle[c])
    /\ cooling'  = (cooling /\ owner # handle[c])
    /\ ForgetNames(c)
    /\ UNCHANGED <<owner, bridgeOwner, names>>

DeleteContext ==
    /\ Quiet
    /\ \E c \in alive :
         /\ alive' = alive \ {c} /\ current' = IF current = c THEN 0 ELSE current
         /\ NotifyGpuStreamContextDeleted(c)
    /\ UNCHANGED <<born, handle, window>>
    /\ UNCHANGED <<lifecycle, start, books, pixels, host, faults>>

-----------------------------------------------------------------------------
(* RecoverGpuStreamContext. *)

OwningGlContextIsCurrent == current # 0 /\ bridgeOwner = handle[current]

\* RecoverContextsForWindow: presents of the game's visible window only.
Eligible == current # 0 /\ current \in window

BeginAttempt == ~cooling /\ (imported => OwningGlContextIsCurrent)

\* RebindAfterContextReplacement forgets the old names and waits even when it
\* fails; the D3D12 side and the ready sequence stay.  Variant: the sequence
\* of every slot is forgotten as well.
RetainedSignalsNot == Zeros

RetainedSignals == slotSignalled

Rebind(ok) ==
    /\ slotSignalled' = RetainedSignals /\ slotWaited' = Zeros
    /\ names' = IF ok THEN current ELSE 0
    /\ bridgeOwner' = IF ok THEN handle[current] ELSE NoHandle
    /\ imported' = ok
    /\ owner' = IF ok THEN handle[current] ELSE owner

\* The framebuffer, generated unless an earlier attempt did; ok is the absence
\* of a GL error.
RecreateFramebuffer(ok) ==
    /\ \/ fbo' = IF fbo = 0 THEN current ELSE fbo
       \/ ~ok /\ fbo' = fbo
    /\ deleted' = ~ok

Recovering ==
    /\ lifecycle = "running" /\ deleted /\ Eligible /\ BeginAttempt
    /\ cooling' = TRUE

\* The attempt ends before anything is imported: a missing entry point, or the
\* fallback, which cannot be rebound.
RecoverNotReady ==
    /\ Recovering /\ ~imported
    /\ backend = "ext" => Fault
    /\ backend = "nv" => faults' = faults
    /\ UNCHANGED <<game, lifecycle, start, deleted, imported, glNames, books, pixels, host>>

RecoverImportFails ==
    /\ Recovering /\ ~imported /\ backend = "ext" /\ Fault /\ Rebind(FALSE)
    /\ UNCHANGED <<lastProduced, slotUse, lastSignal>>
    /\ UNCHANGED <<game, lifecycle, start, deleted, fbo, resolve, pixels, host>>

RecoverGpuStreamContext ==
    /\ Recovering
    /\ IF imported THEN UNCHANGED <<imported, owner, bridgeOwner, names, slotSignalled, slotWaited>>
       ELSE backend = "ext" /\ Rebind(TRUE)
    /\ \E ok \in BOOLEAN :
         /\ RecreateFramebuffer(ok)
         /\ IF ok THEN faults' = faults ELSE Fault
    /\ UNCHANGED <<lastProduced, slotUse, lastSignal>>
    /\ UNCHANGED <<game, lifecycle, start, resolve, pixels, host>>

RetryDue ==
    /\ cooling /\ deleted /\ cooling' = FALSE
    /\ UNCHANGED <<game, lifecycle, start, deleted, imported, glNames, books, pixels, host, faults>>

-----------------------------------------------------------------------------
(* ProduceGpuStreamAfterScenePass. *)

\* Variant: a deleted context is only noticed through its handle.
MayProduceByHandle == lifecycle = "running" /\ OwningGlContextIsCurrent

MayProduce == lifecycle = "running" /\ ~deleted /\ OwningGlContextIsCurrent

Next1 == lastProduced + 1
SlotOf(v) == IF backend = "ext" THEN ((v - 1) % SlotCount) + 1 ELSE 1
Slot == SlotOf(Next1)

Exhausted == lastProduced >= FenceMax - 1

\* DecideGpuStreamRingFrame and DecideGpuStreamFrame.
SlotFree == IF backend = "ext" THEN slotUse[Slot] = 0 \/ consumed >= slotUse[Slot]
                               ELSE lastProduced = 0 \/ consumed >= lastProduced

Producing == MayProduce /\ ~removed /\ ~Exhausted /\ SlotFree

Reacquires == backend = "ext" /\ slotUse[Slot] # 0
WaitAccepted ==
    /\ slotUse[Slot] > slotWaited[Slot] /\ slotUse[Slot] = slotSignalled[Slot]
    /\ consumed >= slotUse[Slot]
Waited == IF Reacquires THEN [slotWaited EXCEPT ![Slot] = slotUse[Slot]] ELSE slotWaited
SignalAccepted(waited) ==
    /\ Next1 > lastSignal
    /\ slotSignalled[Slot] = 0 \/ waited[Slot] >= slotSignalled[Slot]

DisableAfterRuntimeFailure == lifecycle' = "failed"

ProduceStops ==
    /\ MayProduce /\ (removed \/ Exhausted)
    /\ DisableAfterRuntimeFailure
    /\ UNCHANGED <<game, start, rec, glNames, books, pixels, host, faults>>

ProduceWaitFails ==
    /\ Producing /\ Reacquires
    /\ IF WaitAccepted THEN Fault ELSE faults' = faults
    /\ DisableAfterRuntimeFailure
    /\ UNCHANGED <<game, start, rec, glNames, books, pixels, host>>

\* EnsureResolveTarget keeps the target or replaces it for a new size.
EnsureResolveTarget == resolve' \in IF resolve = 0 THEN {current} ELSE {resolve, current}

\* Unlock of the fallback's object may fail and leave it locked.
AfterUnlock == {FALSE, backend = "nv"}

\* BlitBackBuffer fails before it draws, after it drew, or, with the fallback,
\* because the object could not be given back.
ProduceBlitFails ==
    /\ Producing /\ (Reacquires => WaitAccepted) /\ Fault
    /\ slotWaited' = Waited
    /\ resolve' \in {resolve, 0, current}
    /\ \/ UNCHANGED <<content, locked>>
       \/ content' = [content EXCEPT ![Slot] = 0] /\ locked' \in AfterUnlock
    /\ DisableAfterRuntimeFailure
    /\ UNCHANGED <<lastProduced, slotUse, lastSignal, slotSignalled>>
    /\ UNCHANGED <<game, start, rec, owner, fbo, bridgeOwner, names, queued, host>>

\* A GL error drained after the call is reported as a failure of the signal,
\* queued or not.
ProduceSignalFails ==
    /\ Producing /\ (Reacquires => WaitAccepted)
    /\ slotWaited' = Waited /\ EnsureResolveTarget
    /\ content' = [content EXCEPT ![Slot] = Next1]
    /\ IF SignalAccepted(Waited)
       THEN Fault /\ queued' \in {queued, IF backend = "ext" THEN Next1 ELSE queued}
       ELSE UNCHANGED <<faults, queued>>
    /\ DisableAfterRuntimeFailure
    /\ UNCHANGED <<lastProduced, slotUse, lastSignal, slotSignalled>>
    /\ UNCHANGED <<game, start, rec, owner, fbo, bridgeOwner, names, locked, host>>

ProduceFrame ==
    /\ Producing /\ (Reacquires => WaitAccepted) /\ SignalAccepted(Waited)
    /\ slotWaited' = Waited /\ EnsureResolveTarget
    /\ content' = [content EXCEPT ![Slot] = Next1]
    /\ queued' = Next1 /\ lastProduced' = Next1
    /\ IF backend = "ext"
       THEN /\ slotUse' = [slotUse EXCEPT ![Slot] = Next1]
            /\ lastSignal' = Next1 /\ slotSignalled' = [slotSignalled EXCEPT ![Slot] = Next1]
       ELSE UNCHANGED <<slotUse, lastSignal, slotSignalled>>
    /\ UNCHANGED <<game, lifecycle, start, rec, owner, fbo, bridgeOwner, names, locked>>
    /\ UNCHANGED <<host, faults>>

-----------------------------------------------------------------------------
(* The GPU and the host. *)

GpuSignal ==
    /\ ready < queued /\ ~removed /\ ready' = ready + 1
    /\ UNCHANGED <<game, lifecycle, start, rec, glNames, books, pixels, copying, consumed, removed, faults>>

HostCopy ==
    /\ copying = 0 /\ ready > consumed /\ ~removed /\ copying' = ready
    /\ UNCHANGED <<game, lifecycle, start, rec, glNames, books, pixels, ready, consumed, removed, faults>>

HostAcknowledge ==
    /\ copying # 0 /\ ~removed /\ consumed' = copying /\ copying' = 0
    /\ UNCHANGED <<game, lifecycle, start, rec, glNames, books, pixels, ready, removed, faults>>

RemoveDevice ==
    /\ lifecycle = "running" /\ ~removed /\ Fault /\ removed' = TRUE
    /\ UNCHANGED <<game, lifecycle, start, rec, glNames, books, pixels, ready, copying, consumed>>

-----------------------------------------------------------------------------
Starting ==
    \/ StartGpuStreamProducer \/ LoadGlFunctions \/ QueryGlAdapterLuid \/ CreateDeviceForGlAdapter
    \/ CheckNamedStreams \/ CreateColors \/ CreateFences \/ CreateSharedHandles
    \/ ImportMemories \/ ImportTextures \/ ImportSemaphores \/ SelectPrimary \/ ShutdownPrimary
    \/ ResolveInteropFunctions \/ SelectNvidiaAdapter \/ OpenInteropDevice
    \/ CheckTextureFormat \/ CreateAttempt \/ RegisterDirectly \/ RegisterAgain
    \/ CreateFallbackFences \/ SelectFallback
    \/ CreateOutputFramebuffer \/ StartSucceeds \/ FailStart

Recover == RecoverNotReady \/ RecoverImportFails \/ RecoverGpuStreamContext \/ RetryDue

Produce ==
    ProduceStops \/ ProduceWaitFails \/ ProduceBlitFails \/ ProduceSignalFails \/ ProduceFrame

MonoNext ==
    \/ Starting \/ CreateContext \/ MakeCurrent \/ DeleteContext
    \/ Recover \/ Produce \/ GpuSignal \/ HostCopy \/ HostAcknowledge \/ RemoveDevice

MonoSpec == MonoInit /\ [][MonoNext]_monoVars

-----------------------------------------------------------------------------
(* Properties *)

\* Every variable keeps its type.
MonoTypeOK ==
    /\ born \in Contexts /\ alive \subseteq Contexts /\ window \subseteq Contexts
    /\ handle \in [Contexts -> Handles \cup {NoHandle}] /\ current \in alive \cup {0}
    /\ lifecycle \in {"dormant", "starting", "running", "failed"}
    /\ stage \in {"idle", "load", "adapter", "device", "create", "colors", "fences", "handles",
                  "memories", "textures", "semaphores", "primary ready", "primary failed",
                  "nv load", "nv adapter", "nv device", "nv texture", "nv create", "nv register",
                  "nv again", "nv fences", "fallback ready", "fbo", "run", "fail"}
    /\ held \subseteq Objects /\ backend \in {"none", "ext", "nv"}
    /\ deleted \in BOOLEAN /\ imported \in BOOLEAN /\ cooling \in BOOLEAN
    /\ owner \in Handles \cup {NoHandle} /\ bridgeOwner \in Handles \cup {NoHandle}
    /\ fbo \in 0 .. MaxContexts /\ resolve \in 0 .. MaxContexts /\ names \in 0 .. MaxContexts
    /\ lastProduced \in 0 .. FenceMax - 1 /\ lastSignal \in 0 .. FenceMax - 1
    /\ slotUse \in [Slots -> 0 .. FenceMax - 1]
    /\ slotSignalled \in [Slots -> 0 .. FenceMax - 1] /\ slotWaited \in [Slots -> 0 .. FenceMax - 1]
    /\ locked \in BOOLEAN /\ content \in [Slots -> 0 .. FenceMax - 1]
    /\ queued \in 0 .. FenceMax - 1 /\ ready \in 0 .. queued
    /\ copying \in 0 .. ready /\ consumed \in 0 .. ready
    /\ removed \in BOOLEAN /\ faults \in 0 .. MaxFaults

\* Whenever the producer would draw, delete or signal, each GL name it holds was
\* created in the very context that is current, not in a dead one whose handle
\* Windows has given out again.
DrawsWithLiveNames ==
    MayProduce => /\ current \in alive /\ names = current /\ fbo = current
                  /\ resolve \in {0, current}

\* A start that fails half way, in either bridge, leaves no object behind, the
\* fallback never meets the primary's objects of the same name, and a running
\* producer has every object of exactly one bridge.
StartIsAllOrNothing ==
    /\ lifecycle = "failed" => held = {} \/ fbo # 0 \/ owner # NoHandle
    /\ stage \in {"nv load", "nv create", "nv fences", "fallback ready"} => held \cap Primary = {}
    /\ lifecycle = "running" =>
         held = {"output fbo"} \cup IF backend = "ext" THEN Primary ELSE FallbackObjects

\* The books of producer and bridge agree through every recovery, so that the
\* bridge refuses no wait and no signal for a slot the producer found free.
BridgeNeverRefuses ==
    Producing => (Reacquires => WaitAccepted) /\ SignalAccepted(Waited)

\* What the host copies is whole and is the frame the fence named, also after a
\* signal that was queued and then reported as failed.
HostCopiesWholeFrame == copying # 0 => content[SlotOf(copying)] = copying

=============================================================================
