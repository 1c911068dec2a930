# A TLA+ model of KOTOR2VR

KOTOR2VR puts Knights of the Old Republic II into a headset. A 32-bit DLL inside the
game renders every camera frame twice and shares the pictures, a 64-bit OpenXR host
copies them to the headset, and a launcher starts both and switches one setting of the
game's configuration for the time of a session. The parts are separate processes,
threads and GPU queues that agree through fences, sequence locks, files and locks.
These modules model that agreement.

Paths are relative to the repository, written `src/...` as the sources are laid out
(so `src/src/game32/...` is the repository's `src/game32/...`).

## 1. Inventory

| component | state it keeps | operations | talks to |
|---|---|---|---|
| Native stereo producer `game32/native_stereo.cpp`, called from `render_trace.cpp` | pending pair, last ready value, ready value per slot, reset flag, failed, context state | begin/end pair, begin/capture/end eye, HUD, swap-buffers, context deleted/recovered | bridge (calls), GL queue, metadata mapping |
| GL to D3D12 bridge `game32/gl_ext_d3d12_bridge.cpp` | last signals and waits per slot, imported objects, owner context | initialize, SignalReady, WaitConsumed, rebind | fences shared with the host |
| Stereo metadata `common/stereo_stream.cpp`, `gpu_stream_contract.hpp` | one sequence-locked record per slot, the tick of the last world frame | Write, Read, MarkWorldRendered, WorldRecentlyRendered | shared memory between game and host |
| GPU stream consumer and frame loop `host64/src/gpu_stream_consumer.cpp`, `openxr_runtime.cpp` | last consumed value, polled frame, cached picture and its label | TryOpen, PollLatest, QueueWait, RecordCopy, SignalConsumed, Close, end frame | fences, OpenXR |
| Per-eye frame ring `host64/src/frame_ring.cpp` | slots per eye, leases, generation, last acquired id | begin, publish, cancel, acquire pair, release, retire, reset | producers, consumer, consumer fence |
| Shared-memory channel `common/shared_memory_channel.cpp` | named region: header, three snapshot slots | create, open, close, publish, read | host and game process |
| Game VR bridge `game32/vr_bridge.cpp` | bridge state, worker, events, published request | bootstrap, stop, worker loop, read by the render thread | channel, render thread, injector |
| Host IPC publisher `host64/src/host_ipc_publisher.cpp` | channel, frame id, health deadlines | initialize, publish, read health | channel |
| TCS override transaction `launcher/TcsOverrideTransaction.cs` | lock, journal, backup, target file | recover, begin, restore, dispose | file system, other launchers, the game |
| Launcher flow `launcher/Program.cs` | the processes it started | recover, check, begin, start host and game, wait, dispose; start a game without a session | all of the above |
| Mono stream and NV_DX interop `game32/gpu_stream_producer.cpp`, `nv_dx_interop_bridge.cpp`, `gl_context_recovery.hpp` | lifecycle word, objects of either bridge, last frame and frame per slot, owner context, recovery's retry | start, produce after the scene pass, context deleted/recovered, fail | fences, GL contexts of the game |
| Session state and main loop `host64/src/session_state_machine.cpp`, `main.cpp`, `openxr_runtime.cpp` | session state, running, exit, frame in progress, pending reset reasons | poll events, begin/end session, wait/begin/locate/end frame | OpenXR runtime, publisher |
| Frame composition `host64/src/openxr_runtime.cpp` | swapchain images and their leases, command list, fence, cached picture and its label, depth | set up, choose panel, record, execute, wait, release, submit, shut down | streams, neural pipeline, D3D12 queue, runtime |
| Neural pipeline `host64/src/neural_stereo_pipeline.cpp`, `neural_worker_client.cpp` | two inputs, two outputs, deferred resets, two GPU queues | record and submit input, record display, worker loop, stop, destroy | frame loop, worker processes |
| Image capture and snapshot `game32/game_image_capture.cpp`, `host64/src/game_image_snapshot.cpp` | capture state, two import cells, sequence-locked header and rows | arm, capture, publish, present; open, read | render threads, bootstrap, host |
| Movie channel `common/movie_frame.cpp`, `game32/bink_movie.cpp` | four import cells, mutex, one frame | install, publish, end; open, read | game's decoder, host's theatre |
| Render hooks and trace `game32/render_trace.cpp` | virtual table cells, trace state, wrappers in flight, ring, writer | bootstrap, wrappers, write, stop | engine threads, a file |
| Camera pass and scene replay `render_trace.cpp`, `scene_replay.cpp` | borrowed camera, flags, replay list, GL attributes | begin pass, eyes, record, replay, hide, monitor, restore | engine, stereo producer |
| Probe `game32/probe.cpp` | initialisation state, lock, sampler thread | initialise, bootstrap, sample, shut down | injector, engine memory |
| Controller, mathematics, logging, upload helpers | little or none | | |

What is hard here:

* **Three clocks on one ring.** The game's CPU only queues GL commands, the game's GPU
  runs them later, and the host reads on its own GPU. "Free" is decided from a value
  read earlier than the commands it allows.
* **Two sets of books.** Producer and bridge both record what was signalled and waited
  for. Aborted pairs and context replacement update them differently.
* **Sequence locks** between processes (channel, metadata) and between threads
  (published request), with writers that stop or die half way.
* **Time-outs.** Starting and stopping the worker gives up after a while, and the worker
  does not.
* **Crashes.** The launcher may be killed between any two file operations, and another
  launcher, or the still running game, goes on from there. Nothing ends the game with its
  launcher, and nothing keeps games and users from saving the file meanwhile.
* **Failures that are not.** GL reports errors late: a call that has done its work may
  return a failure that belongs to another.
* **Latest wins.** Host and game both skip messages by design, so anything attached to
  one message only can get lost.
* **Names that come back.** Windows gives out the handle of a deleted GL context again,
  and a texture name or display list of the dead context means something else in it.
* **Many steps, each may fail.** Starting a stream, patching cells, creating the runtime's
  objects: what earlier steps left has to be undone, or kept when the GPU may still use it.
* **Code the engine runs.** Wrappers are entered through pointers fetched before a hook
  was taken off, and the engine may raise inside them, between a push and its pop.

What makes each component correct: no slot is written while it is read and the pictures
shown are whole (stream); a pair is two eyes of one frame and no slot is lost (ring);
a read returns one publication (channel, published request); one writer, and nothing
freed under the worker (bridge); the setting can always be put back and no edit a launcher
has seen is taken back (transaction); no dead GL name is used, an installation stands or is
undone, and the engine gets back what was borrowed (game library); calls reach the runtime in its
order, a reset reason is carried on to the next published request and, from an input the neural
pipeline has admitted, to the next evaluation, nothing is released while the GPU uses it and every
shown picture carries its own frame's pose (host). An input that `RecordInput` refuses
(`neural_stereo_pipeline.cpp:658-661`) loses its reasons: nobody keeps them.
`PROJECT.json` lists the hazards line by line.

## 2. The modules

### StereoStream, PictureStream

`StereoStream` composes producer, bridge, metadata, the game's GPU and the host's frame
loop. `StereoState` becomes `pair`, `lastReady`, `slotReady`, `resetHistory`, `failed` and
`context`; the bridge's books are `lastSignal`, `slotSignalled` and `slotWaited`. GL
commands are a queue `glq` that `GpuExecute` empties in order. A texture is the camera
frame number its two eyes and HUD hold, so "the left eye is of another picture" is
visible. `BeginNativeStereoPair` is one action per outcome (`BeginPair`,
`BeginPairSkipped`, `BeginPairExhausted`, `BeginPairWaitFails`). `FinishNativeStereoPresent`
is split where another process can look: between the two increments of the metadata
sequence. Its end has two outcomes, `FinishPresent` and `FinishPresentFails`. A failure is a refusal of
`SignalReady`'s admission checks, which queues nothing and which the runs never meet (without
faults and aborts `ProducerFailsForCause` rules it out), or a GL error found after `signal_semaphore` and `glFlush`
(`gl_ext_d3d12_bridge.cpp:1086-1103`). That error need not be the signal's, so the signal is queued
or not; neither set of books records the publication in either case. A number that went out this way is kept in the history variable `unrecorded`. The host
may poll it, and after a context recovery the producer issues it again, in the same
slot, with other pixels. The host's `end_frame_visible_smoke` is `HostPoll` ... `HostRetire`.

`SlotExclusion`, `PolledFrameReadable`, `RingBounded` and `CachedMatchesLabel` name that case
(`Reissues`, `Announced`) and say all of what still holds in it: the only writer the host can meet
in its slot is the pair that issues the very number the host holds, and the fence is ahead of the
producer's books by that one number. `UncommittedUnread` makes no exception and fails (finding 5).

`PictureStream` is the abstract specification: numbered pictures, at most `Depth` ahead of
the acknowledgement, shown in order, both eyes of one camera frame. `Spoil` gives up a number
before it is published: under it the eyes need not belong together and it may be shown twice, yet
neither eye goes back in time. `ImplementsPictures` states that the detailed module implements it.

Simplifications. The model starts after `Initialize` succeeded. A CPU that calls `WaitConsumed`
has already seen the fence value, so the GPU wait never blocks. At most one host copy is in
flight, because the host waits for its frame's fence on the CPU (`openxr_runtime.cpp:1850-1869`);
that wait timing out after 5 s is treated as a lost device. Theatre and movie mode appear as the
host not polling. The request gate is a nondeterministic skip. Deleting the context may drop
queued commands behind the last signal (a signal flushes) and never reorders them. The metadata's
`Interlocked` operations order its accesses, so the seqlock is modelled with sequentially
consistent memory.

### FrameRing

All of `StereoFrameRing`. Every method holds the mutex and is one action. The model adds
what callers hold (leases, pairs, also stale ones they may still use) and the
consumer's fence. Refused calls change only statistics and are stuttering steps. In this commit
the ring is used by the host's self-test (`host64/src/main.cpp:195` and `354`) and not by
the frame loop: the model shows what it would guarantee with concurrent producers.

### SharedMemoryChannel

Creation, validation, publication and reading, with the payload copied word by word and processes
that close or die at any step. One slot per direction stands for the three of the region. The
sequence counts modulo `Modulus`, 2^32 in the code (`RequestModulus` in VrBridge), and the limit of `PublishSnapshot` is kept
relative to it. A session's nonce names the region, so a crashed process does not come back to it.

### VrBridge

`BootstrapBridge`, `StopBridge`, `BridgeWorker` and the render thread's
`TryReadLatestRenderRequest`. Two callers may overlap with calls of either kind. Waits
with a time-out may always time out. The sequence lock is written by the worker and, for
`Invalidate`, by callers. The read of the shared region is one step, which
`SharedMemoryChannel` justifies. Handles, channel and log are created and closed together
and are one variable. Health messages are left out.

### TcsTransaction

Launchers that recover, begin, play and restore, with a crash between any two steps and
any file operation failing. A content is a setting and a number of edits, so an edit taken
back is visible. Durable file writes (write through, then move) are one step. `merges`
tells the INI targets, whose edits are kept on restore, from the legacy one, which
is refused when edited.

Nothing in the code stops anybody else, so nothing in the model does. A game lives on when its
launcher dies. The check for a running game (`Program.cs:399`) is made once, long before the start
(`434`), and the launcher's other commands start games without lock or journal: the `Outsiders`
start one at any time. Games save the file with the settings they hold, and the user edits it, at
any moment: between a restore's read and its write, and between a failed restore and its
repetition. So the plain statements are about what launchers do: the history variable `standing`
says that the session's setting in the file is a launcher's doing, and `known` how many edits the
launcher that last read the file has seen. `RestorePreservesEdits` and `SettingReturns` are the
statements without these histories, and fail (findings 6 and 4).

### MonoStream

`gpu_stream_producer.cpp` over its two bridges. `g_lifecycle` is `lifecycle`, the place in
`StartGpuStreamProducer` is `stage`, and `held` is the set of objects the start has created, so
that what a failing step leaves behind is visible. A GL context is an instance with a handle
that may be given out again; a name is the instance it was created in, and only the code's own
comparisons look at handles. `ProduceGpuStreamAfterScenePass` is one action per outcome
(`ProduceFrame`, `ProduceStops`, `ProduceWaitFails`, `ProduceBlitFails`, `ProduceSignalFails`).
A failing signal may have been queued or not: both happen here. `ShutdownGpuStreamProducer` has
no caller in the repository and is left out.

### RenderTrace

The hooks of `render_trace.cpp`: `BootstrapRenderTrace`, `MutateCell` (split where a foreign
patch can slip in between looking and exchanging), the wrappers' `TraceScope` with nested
calls and the optional extra pass, the ring's claim and fill, the writer thread, and
`TimeoutAndStopThread`. A wrapper's entry and its counting are two steps, because the pointer is
fetched from the cell before the wrapper can count itself.

### CameraPass

One camera pass on the render thread: `CameraRenderSceneWrapper`, `InvokeStereoCameraSeh`,
`InvokeMonitorReplaySeh` and `scene_replay.cpp`. The engine's camera, projection and effects are
one record, each GL context has its attribute stack, the open display list is kept, and the engine
may raise at any point of an eye, inside the draw of a hidden mesh too. There the pop of
`EndSceneReplayHiddenDraw` is skipped, because its callers do not guard the draw, and the context
goes to `interrupted`; what is left on the stack is computed and not assumed. `EngineRestored`
states it exactly: nothing, except the scene's own level in those contexts (see the deviation after
the findings). The draws of the letterbox (`HideLetterboxDraw`,
`native_stereo.cpp:282-297`) act only while the HUD is drawn, outside the camera pass, and are
left out. The pair's own state is StereoStream's.

### GameCapture, MovieChannel, Probe

`GameCapture` is `K2VR_GameImageSmokeBootstrap` with everything it undoes on failure, the capture
in `GameImageCaptureAfterScenePass`, the two patched import cells, and the host's
`GameImageSnapshotReader`, with header, rows and diagnostic copied one by one. `MovieChannel` is
the four decoder cells, the publication under the mutex in its several writes, a game that dies
between any two, and the host's choice of the theatre. `Probe` is initialisation by hand or by
the bootstrap, the sampler thread and a shutdown that waits two seconds for it.

### HostSession

`run_openxr_host` around `SessionStateMachine`, with the runtime as the other side: it moves
through the session states of the OpenXR specification, queues them as events and refuses a
call out of order (`refused`). The creation of instance, system, device, session and spaces is
one action per step. `owed` collects the resets that happened since the last published request.

### XrFrame

`initialize_visible_smoke`, `end_frame_visible_smoke`, `CompositorDepthResources` and
`shutdown` with `RetireGpuWork`. A picture is the number of the frame whose camera it shows;
`inFlight` is what submitted work may still touch. Work finishes in its own time or never, the
wait for it may run out, and the device may be removed. In smoke mode the upload is always
built: the model assumes the game image's nonce was given.

### NeuralPipeline

Inputs and outputs under the pipeline's mutex, the frame loop's copies that run later on its
own queue, the pipeline's thread with its queue, the two worker processes, the age policy with
its deferred resets, and `StopAndRetire`. A texture holds a frame number, per eye and HUD for
an output. `unserved` is the history of admitted resets no evaluation has served. The short cut
that `StopAndRetire` takes when the device is removed is left out.

### MCGame, MCHost, MCIpc

The parts of the game library share no variable with one another, nor do the four host
modules (session, frame, neural pipeline, ring), nor channel and bridge. A behaviour of all of them is then a shuffle of behaviours of each, and a property of one
part holds in all shuffles exactly if it holds of that part alone. These
modules therefore choose a part (`focus`) in the initial state and explore it with the others at
rest; the sum of the state spaces is explored instead of their product. The properties of the game
and of the host's first three parts are conjunctions of the parts' named properties, by hazard;
those of ring, channel and bridge are the parts' own. Variables and actions of the bridge have
names of their own (`TryReadWord` and `PublishStore` where the channel has `ReadWord` and
`PublishWord`), because both are sequence locks and `MCIpc` extends both modules.

## 3. Runs

| run | question | result |
|---|---|---|
| `stereo_stream` | 2 slots, 3 camera frames, aborts, two faults of any kind | all eight properties hold |
| `stereo_stream_live` | 3 slots, 5 frames, no faults or aborts, fairness | never disables itself, completes |
| `stereo_stream_abort` | is a free slot always accepted? | no, finding 1 |
| `stereo_stream_reset` | does a history reset reach the host? | no, finding 2 |
| `stereo_stream_late` | does the host stay out of a slot until its pair is committed? | no, finding 5 |
| `frame_ring_order` | are pairs acquired in order? | no, finding 3 |
| `ipc` | channel: 2 words, 3-bit sequence, 2 attempts, 2 faults; bridge: 2 callers and 2 calls, 4-bit sequence, 4 requests | holds |
| `tcs_transaction` | 3 launchers, a game without a session, 2 edits by games or user, 2 faults | holds |
| `tcs_transaction_orphan` | does the setting return, with games of sessions only? | no, finding 4 |
| `tcs_transaction_edit` | does a restore keep every edit? | no, finding 6 |
| `game_parts` | mono: 2 slots, 3 contexts with 2 handles, 5 fence values, 1 fault; trace: 2 hooks, 2 threads, 2 calls, ring of 2; capture: 2 threads, 2 passes, 2 reads; movie: 2 movies, 2 publications; camera: 3 passes, 3 contexts with 2 handles; probe: 2 callers, 3 sessions | holds |
| `host_loop` | session: 8 events, 1 failing call; frame: 2 stream frames, 1 failing call; neural: 3 inputs, 2 submissions in flight, 1 failure; ring: 2 slots per eye, 2 generations, 2 ids and layouts, 5 leases | holds |

Properties, by what they are about:

* *Stream.* `SlotExclusion` (nothing queued on the game's GPU writes the slot the host
  holds), `PolledFrameReadable`, `CachedMatchesLabel` (pixels, HUD and pose are of one camera
  frame), `RingBounded`, `FencesMonotone`, `ResetPublished`, `FailsOnlyForCause`,
  `StreamCompletes`, and the refinement. Expected to fail: `FreeSlotAccepted`, `ResetReachesHost`,
  `UncommittedUnread`.
* *Ring.* `OwnershipAccounted`, `ConsumerProtected`, `PairsWhole`. Expected to fail:
  `AcquiredInOrder`.
* *Channel.* `AttachedToReadyRegion`, `ReadsAreSnapshots` (whole, and not older than the newest
  when the read began), `RegionNeverRewinds`, `NewestArrives`.
* *Bridge.* `OneWriter`, `ResourcesOutliveWorker`, `StoppedIsSilent`, `ReadsAreCoherent`,
  `NewestIsRelayed`.
* *Transaction.* `OverrideIsUndoable`, `SessionOwnsTarget`, `EditsSurvive` (no edit the launcher
  has seen is taken back), `UndoneBeforeForgotten`. Expected to fail: `SettingReturns`,
  `RestorePreservesEdits`.
* *Game library.* `GlNamesAreLive` (mono names, replayed lists), `HostSeesWholePictures` (mono
  frame, captured image, movie; and the mono bridge refuses no wait of a free slot),
  `InstallationsAreAllOrNothing` (mono start, hooks and their trace records, bootstrap and
  capture, decoder cells, sampler), `CameraPassIsTransparent` (engine state as found and scene code
  run once, up to a second evaluation after a raise before the recording was finished and one level
  of the attribute stack after a raise inside a hidden draw).
* *Host.* `SessionKeepsOrder` (no call out of the runtime's order, the machine never loses the
  runtime's state), `NoResetIsLost` (a published request carries every reset owed; a neural
  evaluation with history means no admitted reset is unserved), `GpuWorkIsSafe`,
  `PicturesMatchTheirFrame` (label, pixels and depth of one camera, through cache, warp and
  neural pair).

**Bounds.** Two slots and three frames make every slot be reused with the other occupied; the
liveness run reuses all three. `FenceMax` is small enough for the end of the sequence to be
reached. Two faults give each kind at every step and each pair of them, such as a late GL error
followed by the loss of the context, which is what it takes to issue a number twice; longer
combinations are covered by the proofs. Two words suffice for a torn copy. The channel's sequence
reaches its limit; the request's wraps, and `MaxFrame` is chosen so that it wraps without coming
round to the same value within one read. In the code that would take about 2^31 publications
during one copy, and it is the one way a torn read could pass. Five leases cover both eyes of two
frames and one stale lease. Two handles for three contexts make a handle come back in another
context, after one or after two replacements. Two hooks make a half-done installation, two threads
and a ring of two make producers overtake each other and the ring wrap. Three launchers are one
that dies, one that recovers, and one that comes between; two edits are one on either side of a
read. The launchers are interchangeable (`LauncherSymmetry`), and so are the ring's two
layouts (`Symmetry` in MCHost); what a launcher that is not running had read does not matter
(`View`). Eight session events cover a start, a stop and a second
start. Three neural inputs give one evaluated, one replaced and one replacing. In the runs of the
game library and the host one fault hits every fallible step once.

**Fairness.** In `StereoStream` the game keeps rendering, GPUs make progress and the host's
loop runs: weak fairness of the steps nobody can disable. Polling, submitting and
beginning a pair are strongly fair: the host polls each display period, far more often
than the 500 ms after which the world counts as not rendered; the request gate lets a
repeated view through after at most 100 ms; `should_render` is not false for ever. The last is
an assumption about the runtime, not about the code. In the channel only steps of calls already
entered are fair: nobody is assumed to read or to publish. The game's worker polls
(`vr_bridge.cpp:189` and `229`) and the host's main loop never reads, so `NewestArrives` is stated
for each process by itself and for one that calls its read again and again. In the bridge
the steps of calls already entered and the worker's loop are fair; nobody has to call, to read or
to publish.

**Deadlock** is not checked: every system here stops for good when its numbers are
used up, its device is lost, or its launchers have run.

## 4. Findings

1. **An aborted pair disables stereo.** `BeginNativeStereoPair` waits for the slot before the
   eyes are rendered. When the pair is then dropped (an eye fails, metadata is refused), the next
   pair takes the same slot and repeats the same `WaitConsumed`, which the bridge refuses
   as not increasing, and `failed` is set until the GL context is replaced. It needs a
   slot that was used before, so it shows only some frames into a session.
2. **A history reset can be lost.** The reset reason of a recovery travels with one pair.
   The host takes the latest frame, and when it skips that one it never sees the reason.
3. **Pairs can be acquired out of order.** Frame ids are compared when a slot is begun and
   not again when it is published, so a late publication follows a newer pair.
4. **The setting does not return when the game outlives its launcher.** The next launcher
   restores the file and forgets the journal while the game still holds the session's
   setting and writes it again on exit.
5. **A failed present can be seen by the host.** When GL reports an error after the ready signal went
   out, the present counts as failed and nobody records its number. The host may
   poll it, and after a context recovery the same number and slot are used for another picture while the
   host may be reading the first.
6. **A restore can overwrite an edit.** It reads the file, merges, and replaces the file without
   looking again. What game or user saved in between is lost, against the log line's
   "preserving game/user edits".

A deviation that `EngineRestored` states and no run refutes: a raise inside a hidden draw leaves a
level on GL's attribute stack. The hidden draw pushes a second level on the scene's own and its pop
is skipped (`native_stereo.cpp:401-414`, `scene_replay.cpp:158-162`); the clean-up pops one of the
two. The comments promise more: `scene_replay.cpp:169-170` that the partial frame is replayed "to
balance the stack", `render_trace.cpp:686-687` that "All temporary engine writes and TLS routing
are undone even if the original engine method raises an SEH exception".

## 5. Proofs

TLC explores the instances of section 3. The theorems below hold for every value of the
constants that satisfies the modules' named assumptions, which only say what the code's own
constants satisfy: a ring has a slot, a fence more than one value, a payload a word, a sequence
an even number of values above 4, bounds are naturals, thread names differ from each other and from
the words for no thread, GL has some context handle. The trace's ring has more than one
slot (`kRingCapacity` is 16384): with a single one the number that marks a slot filled is the one
that marks it free a lap later, and TLC finds `InstallationsAreAllOrNothing` violated. The bounds that
keep TLC's instances finite (frames, faults, events, calls) are constants as well, so a proof
speaks of any number of faults or frames. The theorems of ring, channel and bridge
are about `RingSpec`, `ChannelSpec` and `BridgeSpec`, which `MCHost` and `MCIpc` follow when that
part is in focus. None of the invariants is inductive as it is checked.
Each module states the invariant that is, and TLC has checked that one too. (For TLC
`TraceInv` quantifies over 13 positions of the ring, and nesting up to 8, instead of `Nat`.)

Two hypotheses are added, each only where it is needed:

* `~AllowAbort` in `ProducerFailsForCause`: with aborted pairs the property is false (finding 1).
* `NoWrap`, `2 * MaxFrame < RequestModulus - 4`, in `AcceptedRequestsAreCoherent`: the theorem counts
  publications by the sequence. TLC's run has it wrap; see the bounds in section 3.

### StereoStreamProofs: numbers

`SlotExclusion` is not inductive: that no queued command writes the held slot depends on what the
producer knew when it queued it. The argument follows publication numbers instead of slots.
`RingInv` consists of

* `LateInv`: a number that went out with a failed call is at most one ahead of the last
  ready one, and its slot is clear;
* `FenceInv`: consumed <= ready <= announced, where announced is that number, or else the last ready one;
  last ready <= consumed + slots;
* `HostInv`: what the host holds is announced and not yet consumed, and its own counter is
  the fence's;
* `SlotInv`: `slotReady` is at least every publication of its slot;
* `PairInv` and `QueueInv`: the pair being rendered is the next number, queued commands are newer
  than the ready fence, or issue its number once more (`Follows`), and both go to slots that are
  *clear* - every earlier publication there has been consumed;
* `OrderInv`: nothing behind a signal belongs to it or to an older publication, but for the same exception;
* `MetadataInv`: the metadata of every unconsumed publication is in place, and that of the number given
  away until it is written again.

Held numbers lie above the consumed fence and up to the ready fence; queued ones lie above the
ready fence and in clear slots, or are the held number itself, issued once more. If both were in
one slot and different, the held one would be an earlier publication of a clear slot and so
consumed, a contradiction. From `RingInv` follow `TypeCorrect`, `SlotsExclusive`, `RingIsBounded`,
`PolledFramesReadable` and the action property `FencesNeverRetreat`. `ResetIsPublished` needs
`ResetInv` besides: a pair being rendered or written carries the reset while it is pending.
`ProducerFailsForCause` needs that the two sets of books agree, so that the bridge refuses nothing
the producer asks of it.

### StereoStreamProofs: pixels and the refinement

Blits of pairs that were given up are queued under the same number as those of the pair that
replaces them. `PictureInv` therefore says of a published part not what the texture holds but
what it will hold once the game's GPU has run the queue (`Arrives`), and that a
publication's signal is queued behind its blits and outlives the loss of the context.
Nothing of the kind holds for a number that was given away, whose pixels may be of two pictures.
What holds for it too is that eyes do not go back in time (`AgeInv`): the camera numbers in the queue
grow, so a blit makes its eye the newest of all slots, and when a signal has run each eye of
its publication was drawn since or nothing else was (`Drawn`).
`LabelsAreTrue` is `CachedMatchesLabel`. `StreamShowsPictures` is the refinement: every step of
the stream is a step of `PictureStream` or a stutter.

### FrameRingProofs

`RingInv` adds to ownership what nobody holds yet: every lease given out is below the next one, a
slot that may still become half of a pair carries a lease no other such slot and no earlier pair
has, and both slots of a released pair are protected until its fence value has completed. The
scans of the ring choose a least element, and that there is one is proved as well
(`SmallestNumber`). The counts in `OwnershipAccounted` compare cardinalities through an injection.

### SharedMemoryChannelProofs

`Attachment` says who may still touch the named region. `Counts` is the sequence lock: an even
sequence is twice the number of publications and every word is from the last one; an odd one
belongs to a writer that is between two words; what a reader has copied is of one publication as
long as the sequence stays where it was. `ReadsReturnPublications` and `RegionsOnlyAdvance` follow.

### VrBridgeProofs

`CallerInv` says that at most one caller is inside a start or a stop, and what it may assume
of the worker at each label; `WorkerInv` and `BridgeInv` say the same from the other two sides.
With these the local sequence lock has one writer although it has no lock, and nothing is
closed under the worker. `SlotInv` is the sequence lock, with frames that only grow while the
bridge runs (`FrameInv`).

### TcsTransactionProofs

`Ownership`: who is between opening and closing the lock file holds the lock, and which journal it
meets at each label. `Undo`: the journal is backed up; a file that stands with the session's
setting by a launcher's doing has a journal (`StandingIsJournaled`); the target, read at whatever
moment, differs from the journal's two contents only by edits (`TargetFollowsJournal`); and what a
launcher is about to write undoes the override and is not behind the edits it has read
(`ContentAtLabel`). None of this assumes anything of games or users: they may save the file
between any two steps. What it cannot say is that no edit is lost and that the setting returns;
those are findings 6 and 4.

### MCHostProofs

`HostInv` is one invariant per part (but for the ring), and as the parts share no variable a step of one is a
stutter of the others.

* *Session* (`SessionInv`): the queued events lead from the state the host knows to the
  runtime's (`EventsLead`); calls and frame calls are in their order at each label; a reset that is
  owed is among the reasons already noted, or in an event that is still queued.
* *Frame* (`FrameInv`): what is in flight is still held, what is leased is at which stage
  (`Leases`), which images exist (`Built`), and what the pass has recorded determines the
  label that is going to be submitted (`PassInv`, `LabelInv`).
* *Neural* (`PipelineInv`): at most one input waits and it is the newest; a copy still to run on a
  queue finds its slot in the state it was recorded in, or the pipeline has failed and takes none
  (`InputCopies`, `OutputCopies`); the two eyes of the running evaluation are of its input; a
  reset no evaluation has served is in the offered input, among the deferred ones, or in the
  evaluation that begins (`ResetsAreKept`).

The five theorems are those of the run's first five properties; the ring's are in
`FrameRingProofs`.

### GameStreamProofs and MCGameProofs

The six parts of the game library share no variable either. `GameInv` is the conjunction of their
invariants, a step moves the part in focus, and the run's five properties follow. The first
module has the two parts that feed a ring, the second the other four and the theorems.

* *Mono stream* (`MonoInv`): a handle tells the living contexts apart; each stage of the start
  holds exactly what it has created so far (`HeldAt`), and before the run there are no names
  of the stream's own; the names are of the context whose handle the stream remembers, and after they
  were deleted none is left (`NamesFollowContext`); the books of producer and bridge are the same, so
  a slot is waited for until its last use is consumed (`BooksAgree`); every published frame the
  host has not consumed is whole in its slot (`PendingAreWhole`).
* *Render trace* (`TraceInv`): bootstrap, stopper and writer are at matching stages; a wrapper in
  a cell is known to be installed and its original is set, and whoever decided to patch saw the
  original there (`CellsAreKnown`, `DecisionHolds`); `active` is the number of open scopes
  (`ActiveCounts`), so when the stopper reads zero nobody can fill a slot any more
  (`StopIsSilent`); from the dequeue to the enqueue position every slot is filled or being filled
  by exactly one thread, from there on it waits for its position (`RingHolds`, `FillersHold`); the
  file is the beginning of what was claimed (`FileFollowsClaims`). The step that needs care is
  that two positions less than a lap apart have different slots.
* *Camera pass* (`CameraInv`): at each phase of a pass what is borrowed from the engine and what
  is on each context's attribute stack is known (`EngineIsBorrowed`, `StackIsKnown`), display
  lists are of the context they are called in (`ListsAreLive`), and evaluations are counted. After
  a raise inside a hidden draw the pass ends without its recording and the hooks begin no other
  (`RaiseIsFinal`): it costs the scene's level exactly in the contexts of `interrupted`. A second
  evaluation needs a raise before the recording was finished.
* *Probe* (`ProbeInv`): whoever is inside holds the lock, and there is at most one sampler, the one
  whose handle the bootstrap has.
* *Movie* (`MovieInv`): the cells that are exchanged follow the installation's place, at most one copy
  is under way and the mutex is its publisher's, the frame in the region is determined by the
  stage of the write, and what the host keeps is one whole frame.
* *Capture* (`CaptureInv`): after the hook is gone a thread is still in the scene pass only while it is
  waited for, or when the wait has run out; there is one capturer, the
  image is determined by the stage of the write, and what a reader has copied under an unchanged
  sequence is of one publication.

### Only model-checked

* Liveness: `StreamCompletes`, `NewestArrives`, `NewestIsRelayed`. Fairness and `ENABLED` are
  outside what the prover can do.
* The six expected violations, which are counterexamples and need no proof.

No module uses recursive operators; the recursion of `Arrives` over the queue is a quantification
over positions.

## 6. Plan

Done: the modules above, their runs, and the proofs of every safety invariant and action property the
passing runs check. What is left is the composition of HostSession with the channel and the bridge. It
would follow a reset reason into the game, where the next request may overwrite it before the
render thread reads it; `NoResetIsLost` ends at the published request.

Not modelled:

* controller input, view mathematics and UI mapping: pure functions, mostly of floating-point values;
* the neural network, its guides, the direct evaluation in the host's process and the
  reprojection: numeric GPU work;
* D3D12 helpers, shaders, layout of the layers, logging, statistics: no state the properties look at;
* launcher configuration, text parsing and self-tests;
* the byte patterns that identify the game's executable, the guard around one instruction of its movie
  decoder and the read of the first-person target under structured exception handling: they depend
  on the game's binary.

Known limits of what is modelled: the engine raises only inside an eye's draw, where the code
catches it; the host's health messages and counters are nowhere; durable file writes are atomic.
