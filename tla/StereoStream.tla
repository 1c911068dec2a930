---------------------------- MODULE StereoStream ----------------------------
(***************************************************************************)
(* The native stereo stream of KOTOR2VR: the path of one picture (two eyes *)
(* and the HUD) from the game's render thread to the headset.              *)
(*                                                                         *)
(*   game32/native_stereo.cpp          the producer, on the render thread  *)
(*   game32/gl_ext_d3d12_bridge.cpp    its GL side of the shared textures  *)
(*   common/stereo_stream.cpp          the metadata slots in shared memory *)
(*   common/gpu_stream_contract.hpp    the slot and fence arithmetic       *)
(*   host64/src/gpu_stream_consumer.cpp, openxr_runtime.cpp  the consumer  *)
(*                                                                         *)
(* Three asynchronous parties share the ring of SlotCount textures: the    *)
(* game's CPU, which only queues GL commands; the game's GPU, which runs   *)
(* the queue later and in order; the host, which polls the ready fence,    *)
(* copies a texture on its own GPU queue and signals the consumed fence.   *)
(* The model starts where Initialize has created the ring.                 *)
(***************************************************************************)
EXTENDS Integers, Sequences, FiniteSets, TLC

CONSTANTS
    SlotCount,    \* kGpuStreamSlotCount
    FenceMax,     \* UINT64_MAX, scaled down: what a fence of a lost device reads
    MaxCamera,    \* bound on the camera frames handed to the producer
    MaxFaults,    \* bound on GL errors, context deletions and device losses
    AllowAbort    \* whether a pair may end incomplete

ASSUME SlotCountAssumption == SlotCount \in Nat \ {0}
ASSUME FenceMaxAssumption  == FenceMax \in Nat /\ FenceMax > 1
ASSUME BoundsAssumption    == MaxCamera \in Nat /\ MaxFaults \in Nat
ASSUME AllowAbortAssumption == AllowAbort \in BOOLEAN

VARIABLES
    (* StereoState of native_stereo.cpp, touched by the render thread only *)
    pair,           \* the pair being rendered, or NoPair
    lastReady,      \* last_ready
    slotReady,      \* slot_ready
    resetHistory,   \* reset_history
    failed,         \* failed
    context,        \* "live", "deleted" (context_deleted) or "imported" (and re-imported)
    (* GlExtD3D12BridgeNativeState *)
    lastSignal,     \* last_ready_signal
    slotSignalled,  \* slot_last_ready_signals
    slotWaited,     \* slot_last_consumed_waits
    unrecorded,     \* history: numbers signalled by a call that reported failure
    (* shared between the processes and their GPUs *)
    glq,            \* the game's GL commands that its GPU has not run yet
    readyFence,     \* completed value of the ready fence
    consumedFence,  \* completed value of the consumed fence
    removed,        \* the device is lost: both fences read FenceMax
    atlas,          \* per slot and part, the camera frame whose pixels it holds
    metadata,       \* per slot, the seqlocked metadata
    worldRecent,    \* WorldRecentlyRendered(): world_tick is younger than 500 ms
    (* the host's frame loop and its GpuStreamConsumer *)
    host,           \* where the frame loop is
    token,          \* gpu_stream_frame, the polled ready value; 0 outside a frame
    candidate,      \* candidate_stereo_frame; NoFrame outside a frame
    signalOk,       \* SignalConsumed queued the signal of this frame's copy
    lastConsumed,   \* last_consumed
    cached,         \* cached_color: its pixels and the frame they came from
    label,          \* cached_raw_stereo_frame
    (* bounds *)
    camera, faults

gameVars   == <<pair, lastReady, slotReady, resetHistory, failed, context>>
bridgeVars == <<lastSignal, slotSignalled, slotWaited, unrecorded>>
gpuVars    == <<glq, readyFence, consumedFence, removed, atlas>>
hostVars   == <<host, token, candidate, signalOk, lastConsumed, cached, label>>
boundVars  == <<camera, faults>>
vars == <<gameVars, bridgeVars, gpuVars, metadata, worldRecent, hostVars, boundVars>>

-----------------------------------------------------------------------------
Slots == 0 .. SlotCount - 1
Eyes  == {0, 1}
Hud   == 2
Parts == Eyes \cup {Hud}    \* the regions of the atlas a frame is blitted into

\* The ring slot that carries publication number ready.
SlotOf(ready) == IF ready = 0 THEN 0 ELSE (ready - 1) % SlotCount

\* GetCompletedValue(): a lost device reads as the greatest value.
Completed(fence) == IF removed THEN FenceMax ELSE fence

IsUsable(value) == value # 0 /\ value # FenceMax

HasNew(ready, last) == IsUsable(ready) /\ ready > last

CanReuse(lastUse, consumed) == lastUse = 0 \/ consumed >= lastUse

\* DecideGlExtD3D12SemaphoreOperation, for a live stream in its own context.
CanOperate(value, previous) == value # 0 /\ value > previous /\ value # FenceMax

\* What WaitConsumed tests before it queues the GL wait.
WaitAccepted(slot, value) ==
    /\ CanOperate(value, slotWaited[slot])
    /\ value = slotSignalled[slot]
    /\ consumedFence >= value /\ ~removed

\* What SignalReady tests before it queues the GL signal.
SignalAccepted(slot, value) ==
    /\ CanOperate(value, lastSignal)
    /\ slotSignalled[slot] = 0 \/ slotWaited[slot] >= slotSignalled[slot]

NoFrame == [ready |-> 0, camera |-> 0, reset |-> FALSE, hud |-> FALSE]
NoImage == [valid |-> FALSE, ready |-> 0, image |-> [p \in Parts |-> 0]]

\* No pair is rendered.  captured_mask and pending keep their last values in
\* the code, but BeginNativeStereoPair resets them before the next use.
NoPair == [phase |-> "idle", eye |-> 0, captured |-> {}, hud |-> FALSE, frame |-> NoFrame]

Blit(part) == [kind |-> "blit", ready |-> pair.frame.ready, part |-> part,
               camera |-> pair.frame.camera]
Signal     == [kind |-> "signal", ready |-> pair.frame.ready, part |-> Hud,
               camera |-> pair.frame.camera]

IsSignal(command) == command.kind = "signal"

Init ==
    /\ pair = NoPair /\ lastReady = 0 /\ slotReady = [s \in Slots |-> 0]
    /\ resetHistory = FALSE /\ failed = FALSE /\ context = "live"
    /\ lastSignal = 0 /\ unrecorded = {}
    /\ slotSignalled = [s \in Slots |-> 0] /\ slotWaited = [s \in Slots |-> 0]
    /\ glq = <<>> /\ readyFence = 0 /\ consumedFence = 0 /\ removed = FALSE
    /\ atlas = [s \in Slots |-> [p \in Parts |-> 0]]
    /\ metadata = [s \in Slots |-> [odd |-> FALSE, frame |-> NoFrame]]
    /\ worldRecent = FALSE
    /\ host = "closed" /\ token = 0 /\ candidate = NoFrame /\ signalOk = FALSE
    /\ lastConsumed = 0 /\ cached = NoImage /\ label = NoFrame
    /\ camera = 0 /\ faults = 0

-----------------------------------------------------------------------------
(* The producer: BeginNativeStereoPair.  Every call that passes the first   *)
(* guards marks the world as rendered, whatever it then decides.            *)

NextReady == lastReady + 1
NextSlot  == SlotOf(NextReady)
Exhausted == Completed(consumedFence) = FenceMax \/ lastReady >= FenceMax - 1
SlotFree  == CanReuse(slotReady[NextSlot], consumedFence)

\* Variant: the world is marked only once the slot is known to be free.
WorldCallMarksLate ==
    /\ ~failed /\ context = "live" /\ pair = NoPair
    /\ worldRecent' = (worldRecent \/ SlotFree)

WorldCall ==
    /\ ~failed /\ context = "live" /\ pair = NoPair
    /\ worldRecent' = TRUE

\* The device is lost or the sequence is used up: the stream fails for good.
BeginPairExhausted ==
    /\ WorldCall /\ Exhausted
    /\ failed' = TRUE
    /\ UNCHANGED <<pair, lastReady, slotReady, resetHistory, context>>
    /\ UNCHANGED <<bridgeVars, gpuVars, metadata, hostVars, boundVars>>

\* The request gate recognises the request of the last published pair, or the
\* slot is still the host's: no slot, fence or pending state changes.
BeginPairSkipped ==
    /\ WorldCall /\ ~Exhausted
    /\ (~resetHistory /\ lastReady # 0) \/ ~SlotFree
    /\ UNCHANGED <<gameVars, bridgeVars, gpuVars, metadata, hostVars, boundVars>>

\* WaitConsumed refuses the slot (or, a fault, GL reports an error).
BeginPairWaitFails ==
    /\ WorldCall /\ ~Exhausted /\ SlotFree /\ slotReady[NextSlot] # 0
    /\ IF WaitAccepted(NextSlot, slotReady[NextSlot])
       THEN faults < MaxFaults /\ faults' = faults + 1
       ELSE faults' = faults
    /\ failed' = TRUE
    /\ UNCHANGED <<pair, lastReady, slotReady, resetHistory, context, camera>>
    /\ UNCHANGED <<bridgeVars, gpuVars, metadata, hostVars>>

\* A successful WaitConsumed, which a slot never used needs not.
\* Variant: the wait is queued but not recorded.
ReacquireUnrecorded(slot) ==
    /\ slotReady[slot] # 0 => WaitAccepted(slot, slotReady[slot])
    /\ slotWaited' = slotWaited

Reacquire(slot) ==
    /\ slotReady[slot] # 0 => WaitAccepted(slot, slotReady[slot])
    /\ slotWaited' = [slotWaited EXCEPT ![slot] =
                         IF slotReady[slot] = 0 THEN @ ELSE slotReady[slot]]

\* The pending metadata.  Variant: the DeviceReset reason is not merged in.
NewFrameWithoutReset ==
    [ready |-> NextReady, camera |-> camera + 1, reset |-> FALSE, hud |-> FALSE]

NewFrame ==
    [ready |-> NextReady, camera |-> camera + 1, reset |-> resetHistory, hud |-> FALSE]

BeginPair ==
    /\ WorldCall /\ ~Exhausted /\ SlotFree
    /\ camera < MaxCamera /\ camera' = camera + 1
    /\ Reacquire(NextSlot)
    /\ pair' = [NoPair EXCEPT !.phase = "active", !.frame = NewFrame]
    /\ UNCHANGED <<lastReady, slotReady, resetHistory, failed, context>>
    /\ UNCHANGED <<lastSignal, slotSignalled, unrecorded, gpuVars, metadata, hostVars, faults>>

\* The camera loop has turns left.  Variant: one too many.
EyesLeftInclusive == pair.eye <= 2

EyesLeft == pair.eye < 2

\* One turn of the camera loop: BeginNativeStereoEye, the engine's pass,
\* CaptureNativeStereoEye, EndNativeStereoEye.  A capture that fails may or
\* may not have reached its blit.
RenderEye ==
    /\ pair.phase = "active" /\ EyesLeft
    /\ \E blitted, ok \in BOOLEAN :
         /\ ok => blitted
         /\ ok \/ AllowAbort
         /\ glq' = IF blitted THEN Append(glq, Blit(pair.eye)) ELSE glq
         /\ pair' = [pair EXCEPT !.eye = pair.eye + 1,
                        !.captured = IF ok THEN @ \cup {pair.eye} ELSE @]
    /\ UNCHANGED <<lastReady, slotReady, resetHistory, failed, context>>
    /\ UNCHANGED <<readyFence, consumedFence, removed, atlas>>
    /\ UNCHANGED <<bridgeVars, metadata, worldRecent, hostVars, boundVars>>

\* Variant: both eyes were tried, not captured.
CompleteOnceRendered == ~EyesLeft

Complete == pair.captured = Eyes

\* EndNativeStereoPair: complete pairs wait for the buffer swap; the others
\* (an eye missing, an exception in the engine's pass) are dropped.
EndPair ==
    /\ pair.phase = "active"
    /\ ~EyesLeft \/ AllowAbort
    /\ pair' = IF Complete THEN [pair EXCEPT !.phase = "awaiting"] ELSE NoPair
    /\ UNCHANGED <<lastReady, slotReady, resetHistory, failed, context>>
    /\ UNCHANGED <<bridgeVars, gpuVars, metadata, worldRecent, hostVars, boundVars>>

BeginHud ==
    /\ pair.phase = "awaiting" /\ ~pair.hud
    /\ pair' = [pair EXCEPT !.hud = TRUE]
    /\ UNCHANGED <<lastReady, slotReady, resetHistory, failed, context>>
    /\ UNCHANGED <<bridgeVars, gpuVars, metadata, worldRecent, hostVars, boundVars>>

\* FinishNativeStereoPresent, at the buffer swap: the HUD is blitted, and then
\* metadata.Write makes the slot's sequence odd, or refuses the frame (a HUD
\* or a guide out of range) and the pair is dropped.
BeginPresent ==
    /\ pair.phase = "awaiting"
    /\ glq' = IF pair.hud THEN Append(glq, Blit(Hud)) ELSE glq
    /\ \/ /\ \E drawn \in BOOLEAN :
               /\ drawn => pair.hud
               /\ pair' = [pair EXCEPT !.phase = "writing", !.frame.hud = drawn]
          /\ metadata' = [metadata EXCEPT ![SlotOf(pair.frame.ready)].odd = TRUE]
       \/ AllowAbort /\ pair' = NoPair /\ metadata' = metadata
    /\ UNCHANGED <<lastReady, slotReady, resetHistory, failed, context>>
    /\ UNCHANGED <<readyFence, consumedFence, removed, atlas>>
    /\ UNCHANGED <<bridgeVars, worldRecent, hostVars, boundVars>>

\* The second half of metadata.Write.  Variant: the sequence stays odd.
EndWriteStaysOdd ==
    /\ pair.phase = "writing" /\ pair' = NoPair
    /\ metadata' = [metadata EXCEPT ![SlotOf(pair.frame.ready)].frame = pair.frame]

EndWrite ==
    /\ pair.phase = "writing" /\ pair' = NoPair
    /\ metadata' = [metadata EXCEPT ![SlotOf(pair.frame.ready)] =
                      [odd |-> FALSE, frame |-> pair.frame]]

\* The rest of it: the metadata is complete, SignalReady queues the fence
\* signal behind the blits, and both sets of books record the publication.
FinishPresent ==
    LET ready == pair.frame.ready
        slot  == SlotOf(ready)
    IN /\ EndWrite
       /\ SignalAccepted(slot, ready)
       /\ glq' = Append(glq, Signal)
       /\ lastSignal' = ready /\ slotSignalled' = [slotSignalled EXCEPT ![slot] = ready]
       /\ lastReady' = ready  /\ slotReady' = [slotReady EXCEPT ![slot] = ready]
       /\ resetHistory' = FALSE
       /\ UNCHANGED <<failed, context, slotWaited, unrecorded>>
       /\ UNCHANGED <<readyFence, consumedFence, removed, atlas, worldRecent>>
       /\ UNCHANGED <<hostVars, boundVars>>

\* SignalReady refuses and queues nothing; or it issues the signal, flushes,
\* and only then asks GL for errors.  The error it finds need not be the
\* signal's: the signal may be queued all the same.  Neither set of books
\* records the publication.
FinishPresentFails ==
    LET ready    == pair.frame.ready
        accepted == SignalAccepted(SlotOf(ready), ready)
    IN /\ EndWrite
       /\ accepted => faults < MaxFaults
       /\ faults' = IF accepted THEN faults + 1 ELSE faults
       /\ \/ UNCHANGED <<glq, unrecorded>>
          \/ accepted /\ glq' = Append(glq, Signal) /\ unrecorded' = unrecorded \cup {ready}
       /\ failed' = TRUE
       /\ UNCHANGED <<lastReady, slotReady, resetHistory, context, camera>>
       /\ UNCHANGED <<lastSignal, slotSignalled, slotWaited>>
       /\ UNCHANGED <<readyFence, consumedFence, removed, atlas, worldRecent, hostVars>>

-----------------------------------------------------------------------------
(* Loss and replacement of the GL context the ring is imported into.        *)

\* Commands up to the last signal were flushed with it; what was queued after
\* it is lost with the context or still runs.
Survivors(q) == {k \in 0 .. Len(q) : \A j \in k + 1 .. Len(q) : ~IsSignal(q[j])}

\* NotifyNativeStereoContextDeleted.  The context is deleted on the render
\* thread, so never inside FinishNativeStereoPresent.
DeleteContext ==
    /\ context \in {"live", "imported"} /\ context' = "deleted"
    /\ pair.phase # "writing" /\ pair' = NoPair
    /\ \E k \in Survivors(glq) : glq' = SubSeq(glq, 1, k)
    /\ faults < MaxFaults /\ faults' = faults + 1
    /\ UNCHANGED <<lastReady, slotReady, resetHistory, failed, camera>>
    /\ UNCHANGED <<readyFence, consumedFence, removed, atlas>>
    /\ UNCHANGED <<bridgeVars, metadata, worldRecent, hostVars>>

\* One attempt of RecoverNativeStereoContext.  RebindAfterContextReplacement
\* forgets the slots' waits even when it fails; a successful import is kept
\* while the GL targets are retried.
RecoverContext ==
    /\ context # "live"
    /\ slotWaited' = IF context = "imported" THEN slotWaited ELSE [s \in Slots |-> 0]
    /\ \/ context' \in {context, "imported"} /\ UNCHANGED <<failed, resetHistory>>
       \/ context' = "live" /\ failed' = FALSE /\ resetHistory' = TRUE
    /\ UNCHANGED <<pair, lastReady, slotReady, lastSignal, slotSignalled, unrecorded>>
    /\ UNCHANGED <<gpuVars, metadata, worldRecent, hostVars, boundVars>>

\* The adapter is reset: every fence of the device reads FenceMax from now on.
RemoveDevice ==
    /\ ~removed /\ removed' = TRUE
    /\ faults < MaxFaults /\ faults' = faults + 1
    /\ UNCHANGED <<glq, readyFence, consumedFence, atlas, metadata, worldRecent, camera>>
    /\ UNCHANGED <<gameVars, bridgeVars, hostVars>>

\* No world camera for 500 ms.
WorldTimeout ==
    /\ worldRecent /\ worldRecent' = FALSE
    /\ UNCHANGED <<gameVars, bridgeVars, gpuVars, metadata, hostVars, boundVars>>

\* The game's GPU runs the oldest queued command.
GpuExecute ==
    /\ glq # <<>> /\ ~removed
    /\ LET command == Head(glq) IN
         IF IsSignal(command)
         THEN readyFence' = command.ready /\ atlas' = atlas
         ELSE /\ readyFence' = readyFence
              /\ atlas' = [atlas EXCEPT ![SlotOf(command.ready)][command.part] = command.camera]
    /\ glq' = Tail(glq)
    /\ UNCHANGED <<consumedFence, removed, metadata, worldRecent>>
    /\ UNCHANGED <<gameVars, bridgeVars, hostVars, boundVars>>

-----------------------------------------------------------------------------
(* The host's frame loop: end_frame_visible_smoke of openxr_runtime.cpp.    *)
(* token, candidate and signalOk are locals of one call of it.              *)

othersThanHost == <<gameVars, bridgeVars, gpuVars, metadata, worldRecent, boundVars>>

EndFrame == host' = "idle" /\ token' = 0 /\ candidate' = NoFrame /\ signalOk' = FALSE

\* TryOpen: the consumer resumes behind the consumed fence, without a cache.
HostOpen ==
    /\ host = "closed" /\ ~removed
    /\ host' = "idle" /\ lastConsumed' = consumedFence
    /\ cached' = [cached EXCEPT !.valid = FALSE]
    /\ UNCHANGED <<token, candidate, signalOk, label, othersThanHost>>

\* PollLatest finds a new frame.  In theater mode (no recent world) the
\* native stream is not polled.
HostPoll ==
    /\ host = "idle" /\ worldRecent
    /\ HasNew(Completed(readyFence), lastConsumed)
    /\ host' = "polled" /\ token' = Completed(readyFence)
    /\ UNCHANGED <<candidate, signalOk, lastConsumed, cached, label, othersThanHost>>

\* PollLatest reads the lost device's value: FenceQueryFailed, Close.
HostPollFails ==
    /\ host = "idle" /\ worldRecent /\ Completed(readyFence) = FenceMax
    /\ host' = "closed" /\ lastConsumed' = 0
    /\ cached' = [cached EXCEPT !.valid = FALSE]
    /\ UNCHANGED <<token, candidate, signalOk, label, othersThanHost>>

\* StereoFrameMapping::Read of the polled value.
Readable == ~metadata[SlotOf(token)].odd /\ metadata[SlotOf(token)].frame.ready = token

HostReadMetadata ==
    /\ host = "polled"
    /\ IF Readable
       THEN /\ host' = "candidate" /\ candidate' = metadata[SlotOf(token)].frame
            /\ UNCHANGED <<token, signalOk>>
       ELSE EndFrame
    /\ UNCHANGED <<lastConsumed, cached, label, othersThanHost>>

\* should_render is false, or QueueWait or RecordCopy fails: nothing is
\* submitted and the value is polled again in a later frame.
HostSkipFrame ==
    /\ host = "candidate" /\ EndFrame
    /\ UNCHANGED <<lastConsumed, cached, label, othersThanHost>>

\* Variant: the consumed fence is signalled before the copy is executed.
HostSubmitSignalsFirst ==
    /\ host = "candidate" /\ host' = "copying"
    /\ label' = candidate
    /\ signalOk' \in BOOLEAN
    /\ lastConsumed' = IF signalOk' THEN token ELSE lastConsumed
    /\ consumedFence' = lastConsumed'
    /\ UNCHANGED <<token, candidate, cached, glq, readyFence, removed, atlas>>
    /\ UNCHANGED <<gameVars, bridgeVars, metadata, worldRecent, boundVars>>

\* ExecuteCommandLists with the copy to the cache, the label that follows it,
\* SignalConsumed; the frame loop then waits for its GPU.
HostSubmit ==
    /\ host = "candidate" /\ host' = "copying"
    /\ label' = candidate
    /\ signalOk' \in BOOLEAN
    /\ lastConsumed' = IF signalOk' THEN token ELSE lastConsumed
    /\ UNCHANGED <<token, candidate, cached, othersThanHost>>

\* The host's GPU has read the whole texture.
HostCopy ==
    /\ host = "copying" /\ ~removed /\ host' = "copied"
    /\ cached' = [valid |-> TRUE, ready |-> token, image |-> atlas[SlotOf(token)]]
    /\ UNCHANGED <<token, candidate, signalOk, lastConsumed, label, othersThanHost>>

\* The queued signal of the consumed fence.  Variants: one that ignores that
\* SignalConsumed failed, and one that signals the slot instead of the value.
AcknowledgeAlways == consumedFence' = token

AcknowledgeSlot == consumedFence' = IF signalOk THEN SlotOf(token) + 1 ELSE consumedFence

Acknowledge == consumedFence' = IF signalOk THEN token ELSE consumedFence

\* The queued consumed signal runs and the frame's own fence retires it.
HostRetire ==
    /\ host = "copied" /\ ~removed /\ EndFrame
    /\ Acknowledge
    /\ UNCHANGED <<lastConsumed, cached, label, glq, readyFence, removed, atlas>>
    /\ UNCHANGED <<gameVars, bridgeVars, metadata, worldRecent, boundVars>>

\* The frame's fence is lost with the device: mark_failed ends the loop.
HostFails ==
    /\ host \in {"copying", "copied"} /\ removed
    /\ host' = "dead"
    /\ UNCHANGED <<token, candidate, signalOk, lastConsumed, cached, label, othersThanHost>>

-----------------------------------------------------------------------------
Game ==
    \/ BeginPairExhausted \/ BeginPairSkipped \/ BeginPairWaitFails \/ BeginPair
    \/ RenderEye \/ EndPair \/ BeginHud
    \/ BeginPresent \/ FinishPresent \/ FinishPresentFails
    \/ RecoverContext

Host ==
    \/ HostOpen \/ HostPoll \/ HostPollFails \/ HostReadMetadata \/ HostSkipFrame
    \/ HostSubmit \/ HostCopy \/ HostRetire \/ HostFails

Environment == DeleteContext \/ RemoveDevice \/ WorldTimeout \/ GpuExecute

Next == Game \/ Host \/ Environment

Spec == Init /\ [][Next]_vars

\* The game renders frame after frame, its GPU makes progress, and the host's
\* loop runs.  Strong fairness where another step may close the window for a
\* while: the host polls every display period, well inside the 500 ms for
\* which the world counts as recent, it is not for ever told not to render,
\* the gate lets a repeated request through after at most 100 ms, and the
\* consumed signal does not fail for ever.
Fairness ==
    /\ WF_vars(BeginPairExhausted) /\ WF_vars(BeginPairSkipped) /\ SF_vars(BeginPair)
    /\ WF_vars(RenderEye) /\ WF_vars(EndPair)
    /\ WF_vars(BeginPresent) /\ WF_vars(FinishPresent)
    /\ WF_vars(GpuExecute)
    /\ WF_vars(HostOpen) /\ SF_vars(HostPoll) /\ WF_vars(HostReadMetadata)
    /\ SF_vars(HostSubmit /\ signalOk') /\ WF_vars(HostCopy) /\ WF_vars(HostRetire)

FairSpec == Spec /\ Fairness

-----------------------------------------------------------------------------
(* Properties *)

Frames   == [ready : Nat, camera : Nat, reset : BOOLEAN, hud : BOOLEAN]
Pairs    == [phase : {"idle", "active", "awaiting", "writing"}, eye : 0 .. 2,
             captured : SUBSET Eyes, hud : BOOLEAN, frame : Frames]
Commands == [kind : {"blit", "signal"}, ready : Nat, part : Parts, camera : Nat]

\* Every variable keeps its type.
TypeOK ==
    /\ pair \in Pairs /\ lastReady \in Nat /\ slotReady \in [Slots -> Nat]
    /\ resetHistory \in BOOLEAN /\ failed \in BOOLEAN
    /\ context \in {"live", "deleted", "imported"}
    /\ lastSignal \in Nat
    /\ slotSignalled \in [Slots -> Nat] /\ slotWaited \in [Slots -> Nat]
    /\ unrecorded \subseteq Nat
    /\ glq \in Seq(Commands)
    /\ readyFence \in Nat /\ consumedFence \in Nat /\ removed \in BOOLEAN
    /\ atlas \in [Slots -> [Parts -> Nat]]
    /\ metadata \in [Slots -> [odd : BOOLEAN, frame : Frames]]
    /\ worldRecent \in BOOLEAN
    /\ host \in {"closed", "idle", "polled", "candidate", "copying", "copied", "dead"}
    /\ token \in Nat /\ candidate \in Frames /\ signalOk \in BOOLEAN
    /\ lastConsumed \in Nat /\ label \in Frames
    /\ cached \in [valid : BOOLEAN, ready : Nat, image : [Parts -> Nat]]
    /\ camera \in Nat /\ faults \in Nat

\* The host holds the slot of the frame it polled until its copy has been read.
Holding == host \in {"polled", "candidate", "copying"}

\* The commands and the pair that reissue a number whose first signal was
\* queued by a call that reported failure.
Reissues(ready) == ready = token /\ ready \in unrecorded

\* Slot exclusion: while the host reads the metadata or the pixels of a slot,
\* no GL command that writes that slot is queued on the game's GPU, and the
\* render thread is not preparing one.  The one exception is the pair that
\* publishes the same number again after SignalReady reported a failure.
SlotExclusion ==
    Holding =>
        /\ \A i \in 1 .. Len(glq) :
              ~IsSignal(glq[i]) =>
                 SlotOf(glq[i].ready) # SlotOf(token) \/ Reissues(glq[i].ready)
        /\ pair # NoPair =>
              SlotOf(pair.frame.ready) # SlotOf(token) \/ Reissues(pair.frame.ready)

\* What the comment over awaiting_present promises: until the pair is
\* committed at the buffer swap its slot cannot be read by the host.
UncommittedUnread ==
    Holding /\ pair # NoPair => SlotOf(pair.frame.ready) # SlotOf(token)

\* A frame the ready fence announces has its metadata in place: the read that
\* follows a successful poll finds it torn or of another frame only while the
\* same number is being written again after a failed SignalReady.
PolledFrameReadable ==
    host = "polled" =>
        \/ Readable
        \/ pair.phase = "writing" /\ Reissues(pair.frame.ready)

\* What the host shows is one picture: the number its label carries is the one
\* it copied, and both eyes (and the HUD, if the label announces one) come
\* from the camera frame the label names, unless that number was published
\* twice.
CachedMatchesLabel ==
    cached.valid /\ host \in {"copied", "idle", "polled", "candidate"} =>
        /\ label.ready = cached.ready
        /\ cached.ready \notin unrecorded =>
              /\ \A e \in Eyes : cached.image[e] = label.camera
              /\ label.hud => cached.image[Hud] = label.camera

\* The newest number whose signal may have been queued.
Announced == IF NextReady \in unrecorded THEN NextReady ELSE lastReady

\* The ring is never overrun: at most SlotCount publications are unconsumed,
\* the one the producer does not know of included, no fence runs ahead of the
\* party that feeds it, and the host's own counter is where the producer reads
\* it whenever the host decides what is new.
RingBounded ==
    /\ consumedFence <= readyFence /\ readyFence <= Announced
    /\ Announced <= consumedFence + SlotCount
    /\ Announced < FenceMax
    /\ host \in {"idle", "polled", "candidate"} => lastConsumed = consumedFence

\* A slot that is free for the producer is never refused by WaitConsumed, also
\* when an earlier pair in it was begun and given up: until a pair is committed
\* at the buffer swap the slot is meant to stay the producer's own.
FreeSlotAccepted ==
    /\ pair = NoPair /\ ~failed /\ context = "live"
    /\ ~Exhausted /\ SlotFree /\ slotReady[NextSlot] # 0
    => WaitAccepted(NextSlot, slotReady[NextSlot])

\* Without faults the producer disables itself only when the sequence numbers
\* are used up: its own bookkeeping always satisfies the bridge's checks.
FailsOnlyForCause ==
    failed => faults > 0 \/ lastReady >= FenceMax - 1

\* A fence signal never moves a fence backwards.
FencesMonotone ==
    [][readyFence' >= readyFence /\ consumedFence' >= consumedFence]_vars

\* After a recovery the flag that makes the host drop its temporal histories
\* survives skipped, aborted and failed pairs until a frame that carries it
\* has been published.
ResetPublished ==
    [][resetHistory /\ ~resetHistory' =>
         /\ lastReady' = lastReady + 1
         /\ metadata'[SlotOf(lastReady')].frame.reset]_vars

\* A recovery resets the host's temporal histories: the first frame the host
\* takes once a flagged frame has been published carries the flag.
ResetReachesHost ==
    [][/\ label' # label
       /\ \E s \in Slots : /\ metadata[s].frame.reset
                         /\ metadata[s].frame.ready \in label.ready + 1 .. label'.ready
       => label'.reset]_vars

\* Without faults and aborts every sequence number is eventually published
\* (which takes the consumption of all but the last SlotCount): theater mode,
\* the busy ring and the request gate never block one another for good.
StreamCompletes == <>(lastReady = FenceMax - 1)

\* Seen from outside, the stream publishes numbered pictures and shows, in
\* order and possibly with gaps, pictures that are whole, but for those whose
\* numbers a failing SignalReady gave away.
Pictures == INSTANCE PictureStream WITH
    Depth     <- SlotCount,
    spoiled   <- unrecorded,
    published <- readyFence,
    consumed  <- consumedFence,
    shown     <- [ready |-> cached.ready,
                  left  |-> cached.image[0], right |-> cached.image[1]]

ImplementsPictures == Pictures!Spec

=============================================================================
