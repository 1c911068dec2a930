---------------------------- MODULE NeuralPipeline ----------------------------
(***************************************************************************)
(* The neural stereo pipeline: neural_stereo_pipeline.cpp, a thread with a *)
(* GPU queue of its own between the host's render loop and two worker      *)
(* processes, one per eye (neural_worker_client.cpp).  The render loop     *)
(* records a copy of the newest stereo frame into an input slot and a copy *)
(* of the newest finished pair out of an output slot; both run later, on   *)
(* its queue.  A texture holds the number of the frame whose picture it    *)
(* shows.  The guides, the evaluation and the timing trace are data.       *)
(***************************************************************************)
EXTENDS Integers, SequencesExt

CONSTANTS
    MaxInputs,          \* bound on the frames offered
    MaxOutstanding,     \* bound on submissions of the host the GPU has not run
    MaxNeuralFaults     \* bound on failures

ASSUME NeuralAssumption ==
    MaxInputs \in Nat /\ MaxOutstanding \in Nat \ {0} /\ MaxNeuralFaults \in Nat

VARIABLES
    prefetch, ageLimit,             \* options: prefetch_enabled, max_age_ms # 0
    phase, stopping, fate,          \* of the pipeline, and of its Impl
    inputs, outputs,                \* the slots
    recorded,                       \* recorded_input
    display, displayRecorded,       \* display_index, display_recorded
    lastInput,                      \* last_input_ready
    hostList, hostQueue,            \* copies recorded now; submitted and not run
    signalLost,                     \* a value of host_sequence that is never reached
    workerPc, current, target,      \* of the thread: place, input slot, output slot
    resetNow, previous, deferred,   \* reset; previous; the policy's pending resets
    eye,                            \* what the two worker processes hold
    ownBusy,                        \* the pipeline's queue has work in flight
    unserved,                       \* admitted frames whose reset is not evaluated yet
    displayed,                      \* the last pair copied to the headset, and its label
    neuralFaults

options == <<prefetch, ageLimit>>
slotVars   == <<inputs, outputs, recorded, display, displayRecorded, lastInput>>
hostGpu == <<hostList, hostQueue, signalLost>>
worker  == <<workerPc, current, target, resetNow, previous, deferred, eye, ownBusy>>
neuralVars == <<options, phase, stopping, fate, slotVars, hostGpu, worker, unserved, displayed,
                neuralFaults>>

InputSlots  == 0 .. IF prefetch THEN 1 ELSE 0
OutputSlots == {0, 1}
Eyes == {0, 1}
None == -1
Numbers == 0 .. MaxInputs
Picture == [left : Numbers, right : Numbers, hud : Numbers]
Blank == [left |-> 0, right |-> 0, hud |-> 0]

IdleEye == [in |-> 0, out |-> 0, submitted |-> FALSE, done |-> FALSE]

NeuralInit ==
    /\ prefetch \in BOOLEAN /\ ageLimit \in BOOLEAN /\ (ageLimit => prefetch)
    /\ phase = "starting" /\ stopping = FALSE /\ fate = "alive"
    /\ inputs = [i \in InputSlots |-> [state |-> "empty", frame |-> 0, ready |-> 0, reset |-> FALSE,
                                       texture |-> 0]]
    /\ outputs = [o \in OutputSlots |-> [state |-> "empty", frame |-> 0, retired |-> 0,
                                         texture |-> Blank]]
    /\ recorded = None /\ display = None /\ displayRecorded = FALSE /\ lastInput = 0
    /\ hostList = <<>> /\ hostQueue = <<>> /\ signalLost = FALSE
    /\ workerPc = "start" /\ current = None /\ target = None /\ resetNow = FALSE
    /\ previous = 0 /\ deferred = FALSE /\ ownBusy = FALSE
    /\ eye = [e \in Eyes |-> IdleEye]
    /\ unserved = {} /\ displayed = [label |-> 0, texture |-> Blank] /\ neuralFaults = 0

NeuralFault == neuralFaults < MaxNeuralFaults /\ neuralFaults' = neuralFaults + 1
Steady == UNCHANGED <<options, neuralFaults>>
Ended == stopping \/ phase = "failed"

-----------------------------------------------------------------------------
(* The render loop. *)

\* One copy of a pair a submission.  Variant: any number of them.
MayRecordDisplayAgain == TRUE
MayRecordDisplay == ~displayRecorded

\* RecordDisplay: the newest complete pair; older ones are dropped, the one displayed
\* until now retires with the next submission.  A stale pair (500 ms) is not copied.
NewestComplete(o) ==
    /\ outputs[o].state = "complete"
    /\ \A p \in OutputSlots : outputs[p].state = "complete" => outputs[p].frame <= outputs[o].frame

RecordDisplay ==
    /\ fate = "alive" /\ ~stopping /\ phase = "running" /\ MayRecordDisplay
    /\ \/ \E o \in OutputSlots :
            /\ NewestComplete(o) /\ display' = o
            /\ outputs' = [p \in OutputSlots |->
                 CASE p = o -> [outputs[p] EXCEPT !.state = "displaying"]
                   [] p # o /\ outputs[p].state = "complete" -> [outputs[p] EXCEPT !.state = "empty"]
                   [] p # o /\ p = display -> [outputs[p] EXCEPT !.state = "retiring"]
                   [] OTHER -> outputs[p]]
       \/ /\ \A o \in OutputSlots : outputs[o].state # "complete"
          /\ display # None /\ UNCHANGED <<display, outputs>>
    /\ \/ displayRecorded' = TRUE
          /\ hostList' = Append(hostList, [op |-> "display", slot |-> display',
                                           frame |-> outputs[display'].frame])
       \/ UNCHANGED <<displayRecorded, hostList>>
    /\ Steady /\ UNCHANGED <<phase, stopping, fate, inputs, recorded, lastInput, hostQueue>>
    /\ UNCHANGED <<signalLost, worker, unserved, displayed>>

\* PrefetchAgePolicy::AdmissionResetReasons.  Variant: the resets of a replaced
\* input are lost.
OnlyItsOwnReset(replaced, old, new) == new
AdmissionResetReasons(replaced, old, new) == (replaced /\ old) \/ new

\* The slot of a new input: a queued one is replaced, else an empty one.
SlotForInput(i) ==
    \/ inputs[i].state = "queued"
    \/ /\ inputs[i].state = "empty"
       /\ \A j \in InputSlots : inputs[j].state # "queued" /\ (inputs[j].state = "empty" => i <= j)

Admits ==
    prefetch \/ /\ \A i \in InputSlots : inputs[i].state = "empty"
                /\ \A o \in OutputSlots : outputs[o].state # "complete"

\* RecordInput of a frame newer than the last one submitted.  A frame that is not
\* admitted changes nothing.
RecordInput ==
    /\ fate = "alive" /\ ~stopping /\ phase = "running" /\ recorded = None /\ Admits
    /\ \E n \in lastInput + 1 .. MaxInputs, reasons \in BOOLEAN, i \in InputSlots :
         /\ SlotForInput(i)
         /\ LET replaced == inputs[i].state = "queued" IN
            inputs' = [inputs EXCEPT ![i].state = "recording", ![i].frame = n,
                         ![i].reset = AdmissionResetReasons(replaced, @, reasons)]
         /\ recorded' = i
         /\ hostList' = Append(hostList, [op |-> "input", slot |-> i, frame |-> n])
         /\ unserved' = IF reasons THEN unserved \cup {n} ELSE unserved
    /\ Steady /\ UNCHANGED <<phase, stopping, fate, outputs, display, displayRecorded, lastInput>>
    /\ UNCHANGED <<hostQueue, signalLost, worker, displayed>>

\* ExecuteCommandLists and SubmitRecordedInput, of a list with or without copies of the
\* pipeline: its signal, then its books.  A value of the fence is the number of
\* submissions the GPU has still to run to reach it.
SubmitRecordedInput ==
    /\ fate = "alive" /\ ~stopping /\ phase # "starting" /\ Len(hostQueue) < MaxOutstanding
    /\ hostQueue' = Append(hostQueue, hostList) /\ hostList' = <<>>
    /\ \/ /\ inputs' = [i \in InputSlots |-> IF i = recorded
              THEN [inputs[i] EXCEPT !.state = "queued", !.ready = Len(hostQueue')] ELSE inputs[i]]
          /\ lastInput' = IF recorded = None THEN lastInput ELSE inputs[recorded].frame
          /\ outputs' = [o \in OutputSlots |-> IF outputs[o].state = "retiring"
              THEN [outputs[o] EXCEPT !.state = "empty", !.retired = Len(hostQueue')] ELSE outputs[o]]
          /\ recorded' = None /\ displayRecorded' = FALSE /\ UNCHANGED <<phase, signalLost, neuralFaults>>
       \/ /\ NeuralFault /\ phase' = "failed" /\ signalLost' = TRUE
          /\ UNCHANGED <<inputs, outputs, recorded, displayRecorded, lastInput>>
    /\ UNCHANGED <<options, stopping, fate, display, worker, unserved, displayed>>

\* The host's GPU runs the oldest submission.
Copies(op) == {c \in ToSet(Head(hostQueue)) : c.op = op}
Nearer(value) == IF value = 0 THEN 0 ELSE value - 1

HostGpuRuns ==
    /\ hostQueue # <<>> /\ hostQueue' = Tail(hostQueue)
    /\ inputs' = [i \in InputSlots |->
         [inputs[i] EXCEPT !.ready = Nearer(@),
            !.texture = IF \E c \in Copies("input") : c.slot = i
                        THEN (CHOOSE c \in Copies("input") : TRUE).frame ELSE @]]
    /\ outputs' = [o \in OutputSlots |-> [outputs[o] EXCEPT !.retired = Nearer(@)]]
    /\ displayed' = IF Copies("display") = {} THEN displayed
         ELSE LET c == CHOOSE c \in Copies("display") : TRUE IN
              [label |-> c.frame, texture |-> outputs[c.slot].texture]
    /\ Steady /\ UNCHANGED <<phase, stopping, fate, recorded, display, displayRecorded>>
    /\ UNCHANGED <<lastInput, hostList, signalLost, worker, unserved>>

-----------------------------------------------------------------------------
(* The pipeline's thread: Run. *)

HostSide == <<phase, stopping, fate, recorded, display, displayRecorded, lastInput, hostGpu, displayed>>

SetupStages == {"start", "atlases", "left worker", "right worker"}

StartStep(from, to) ==
    /\ workerPc = from /\ workerPc' = to
    /\ Steady /\ UNCHANGED <<stopping, fate, slotVars, hostGpu, current, target, resetNow, previous>>
    /\ UNCHANGED <<deferred, eye, ownBusy, unserved, displayed>>

CreateOwnQueue == StartStep("start", "atlases") /\ UNCHANGED phase
CreateAtlases  == StartStep("atlases", "left worker") /\ UNCHANGED phase

\* NeuralWorkerClient::Start, unless the owner has already stopped the pipeline.
StartEyes ==
    /\ ~stopping
    /\ \/ StartStep("left worker", "right worker") /\ UNCHANGED phase
       \/ StartStep("right worker", "idle") /\ phase' = "running"

StartWorkers == CreateOwnQueue \/ CreateAtlases \/ StartEyes

\* An exception on the thread: a failed call, a dead worker process, a timeout.
RunFails ==
    /\ workerPc \in SetupStages \cup {"evaluate"} /\ NeuralFault
    /\ phase' = "failed" /\ workerPc' = "over"
    /\ UNCHANGED <<options, stopping, fate, slotVars, hostGpu, current, target, resetNow, previous>>
    /\ UNCHANGED <<deferred, eye, ownBusy, unserved, displayed>>

\* The GPU wait of Execute gives up although the work is still in flight.
OwnWaitFails ==
    /\ ownBusy /\ workerPc # "over" /\ NeuralFault /\ phase' = "failed" /\ workerPc' = "over"
    /\ UNCHANGED <<options, stopping, fate, slotVars, hostGpu, current, target, resetNow, previous>>
    /\ UNCHANGED <<deferred, eye, ownBusy, unserved, displayed>>

RunEnds ==
    /\ workerPc \in {"left worker", "right worker", "idle", "pick"} /\ Ended /\ workerPc' = "over"
    /\ Steady /\ UNCHANGED <<HostSide, inputs, outputs, current, target, resetNow, previous, deferred>>
    /\ UNCHANGED <<eye, ownBusy, unserved>>

\* PrefetchAgePolicy::TryBegin drops an input that is too old, keeping its resets.
DeferredByDrop(i) == deferred \/ inputs[i].reset

DropOldInput(i) ==
    /\ workerPc = "idle" /\ ~Ended /\ inputs[i].state = "queued" /\ ageLimit
    /\ inputs' = [inputs EXCEPT ![i].state = "empty"] /\ deferred' = DeferredByDrop(i)
    /\ Steady /\ UNCHANGED <<HostSide, outputs, workerPc, current, target, resetNow, previous, eye>>
    /\ UNCHANGED <<ownBusy, unserved>>

\* Take a queued input; its evaluation is without history after a reset, at the
\* first frame, and after a change of generation, presentation, time or camera.
TakeInput(i) ==
    /\ workerPc = "idle" /\ ~Ended /\ inputs[i].state = "queued"
    /\ inputs' = [inputs EXCEPT ![i].state = "working"] /\ current' = i
    /\ LET reset == inputs[i].reset \/ deferred \/ previous = 0 IN
       resetNow' \in {reset, TRUE}
    /\ deferred' = FALSE /\ workerPc' = "guides" /\ ownBusy' = TRUE
    /\ Steady /\ UNCHANGED <<HostSide, outputs, target, previous, eye, unserved>>

\* The queue waits for the host's copy; the guides of both eyes are drawn, and
\* Execute waits for that.
WaitHostSubmitted(value) == value = 0

RecordGuides ==
    /\ workerPc = "guides" /\ WaitHostSubmitted(inputs[current].ready)
    /\ ownBusy' = FALSE /\ workerPc' = "evaluate"
    /\ eye' = [e \in Eyes |-> [eye[e] EXCEPT !.in = inputs[current].texture]]
    /\ unserved' = IF resetNow THEN {n \in unserved : n > inputs[current].frame} ELSE unserved
    /\ Steady /\ UNCHANGED <<HostSide, inputs, outputs, current, target, resetNow, previous, deferred>>

\* RunEyeSchedule and NeuralWorkerClient::Submit; in serial mode the second eye also
\* waits for the first.
SubmitEye(e) ==
    /\ workerPc = "evaluate" /\ ~eye[e].submitted
    /\ e = 1 => eye[0].submitted
    /\ eye' = [eye EXCEPT ![e].submitted = TRUE]
    /\ Steady /\ UNCHANGED <<HostSide, inputs, outputs, workerPc, current, target, resetNow, previous>>
    /\ UNCHANGED <<deferred, ownBusy, unserved>>

\* A worker process has evaluated the frame and acknowledged it.
WorkerProcess(e) ==
    /\ eye[e].submitted /\ ~eye[e].done
    /\ eye' = [eye EXCEPT ![e].done = TRUE, ![e].out = eye[e].in]
    /\ Steady /\ UNCHANGED <<HostSide, inputs, outputs, workerPc, current, target, resetNow, previous>>
    /\ UNCHANGED <<deferred, ownBusy, unserved>>

\* Poll of both eyes is complete.
EyesComplete ==
    /\ workerPc = "evaluate" /\ \A e \in Eyes : eye[e].done
    /\ workerPc' = "pick" /\ resetNow' = FALSE
    /\ eye' = [e \in Eyes |-> [eye[e] EXCEPT !.in = 0, !.submitted = FALSE, !.done = FALSE]]
    /\ Steady /\ UNCHANGED <<HostSide, inputs, outputs, current, target, previous, deferred>>
    /\ UNCHANGED <<ownBusy, unserved>>

\* An output slot for the pair: an empty one, else a complete pair nobody displayed.
PickOutput(o) ==
    /\ workerPc = "pick" /\ ~Ended
    /\ \/ outputs[o].state = "empty"
       \/ outputs[o].state = "complete" /\ \A p \in OutputSlots : outputs[p].state # "empty"
    /\ outputs' = [outputs EXCEPT ![o].state = "working"] /\ target' = o /\ workerPc' = "compose"
    /\ ownBusy' = TRUE
    /\ Steady /\ UNCHANGED <<HostSide, inputs, current, resetNow, previous, deferred, eye, unserved>>

\* The composition, after the host's last copy out of the slot: both eyes, and the
\* HUD of the same input; then the pair is published and the input free.
Compose ==
    /\ workerPc = "compose" /\ WaitHostSubmitted(outputs[target].retired)
    /\ ownBusy' = FALSE
    /\ outputs' = [outputs EXCEPT ![target].texture = [left |-> eye[0].out, right |-> eye[1].out,
                                                       hud |-> inputs[current].texture],
                                  ![target].frame = inputs[current].frame,
                                  ![target].state = "complete"]
    /\ inputs' = [inputs EXCEPT ![current].state = "empty"]
    /\ previous' = inputs[current].frame
    /\ workerPc' = "idle" /\ current' = None /\ target' = None
    /\ eye' = [e \in Eyes |-> IdleEye]
    /\ Steady /\ UNCHANGED <<HostSide, resetNow, deferred, unserved>>

-----------------------------------------------------------------------------
(* The owner destroys the pipeline: StopAndRetire. *)

Stop ==
    /\ fate = "alive" /\ ~stopping /\ stopping' = TRUE
    /\ Steady /\ UNCHANGED <<phase, fate, slotVars, hostGpu, worker, unserved, displayed>>

\* Work of its own that timed out finishes late.
OwnGpuFinishes ==
    /\ ownBusy /\ workerPc = "over" /\ ownBusy' = FALSE
    /\ Steady /\ UNCHANGED <<HostSide, inputs, outputs, workerPc, current, target, resetNow, previous>>
    /\ UNCHANGED <<deferred, eye, unserved>>

\* After the thread has ended: destroyed once both queues are proved idle, else kept.
Destroy ==
    /\ stopping /\ workerPc = "over" /\ fate = "alive"
    /\ fate' \in IF ~ownBusy /\ hostQueue = <<>> /\ ~signalLost THEN {"destroyed", "quarantined"}
                                                        ELSE {"quarantined"}
    /\ Steady /\ UNCHANGED <<phase, stopping, slotVars, hostGpu, worker, unserved, displayed>>

Worker ==
    \/ StartWorkers \/ RunFails \/ OwnWaitFails \/ RunEnds \/ RecordGuides
    \/ EyesComplete \/ Compose
    \/ \E i \in InputSlots : DropOldInput(i) \/ TakeInput(i)
    \/ \E e \in Eyes : SubmitEye(e) \/ WorkerProcess(e)
    \/ \E o \in OutputSlots : PickOutput(o)

NeuralNext ==
    \/ RecordDisplay \/ RecordInput \/ SubmitRecordedInput \/ HostGpuRuns
    \/ Worker \/ Stop \/ OwnGpuFinishes \/ Destroy

NeuralSpec == NeuralInit /\ [][NeuralNext]_neuralVars

-----------------------------------------------------------------------------
(* Properties *)

\* Every variable keeps its type.
NeuralTypeOK ==
    /\ {prefetch, ageLimit, stopping, displayRecorded, resetNow, deferred, ownBusy, signalLost}
         \subseteq BOOLEAN
    /\ phase \in {"starting", "running", "failed"} /\ fate \in {"alive", "destroyed", "quarantined"}
    /\ inputs \in [InputSlots -> [state : {"empty", "recording", "queued", "working"},
                                  frame : Numbers, ready : 0 .. MaxOutstanding, reset : BOOLEAN, texture : Numbers]]
    /\ outputs \in [OutputSlots -> [state : {"empty", "working", "complete", "displaying", "retiring"},
                                    frame : Numbers, retired : 0 .. MaxOutstanding, texture : Picture]]
    /\ recorded \in InputSlots \cup {None} /\ display \in OutputSlots \cup {None}
    /\ lastInput \in Numbers
    /\ Len(hostList) <= 2 /\ Len(hostQueue) <= MaxOutstanding
    /\ workerPc \in SetupStages \cup {"idle", "guides", "evaluate", "pick", "compose", "over"}
    /\ current \in InputSlots \cup {None} /\ target \in OutputSlots \cup {None}
    /\ previous \in Numbers /\ unserved \subseteq Numbers
    /\ eye \in [Eyes -> [in : Numbers, out : Numbers, submitted : BOOLEAN, done : BOOLEAN]]
    /\ displayed \in [label : Numbers, texture : Picture] /\ neuralFaults \in 0 .. MaxNeuralFaults

\* A frame is evaluated with the history only if no input admitted up to it asked
\* for a reset that no evaluation has served, whether that input was replaced by a
\* newer one, dropped by its age or taken.
HistoryCoversAdmitted ==
    workerPc = "guides" /\ ~resetNow => \A n \in unserved : n > inputs[current].frame

\* A pair that reaches the headset shows both eyes and the HUD of the frame it is
\* labelled with, although inputs are overwritten and outputs reused while copies
\* out of them are queued on another GPU queue.
PairsAreWhole ==
    \A part \in {"left", "right", "hud"} : displayed.texture[part] = displayed.label

\* The textures outlive every copy that names them.
DestroyedWhenRetired == fate = "destroyed" => hostQueue = <<>> /\ ~ownBusy

=============================================================================
