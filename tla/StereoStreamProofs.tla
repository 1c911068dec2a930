------------------------- MODULE StereoStreamProofs -------------------------
(***************************************************************************)
(* The safety of the native stereo stream for every ring size, fence width *)
(* and bound.  The argument follows the numbers, not the slots: a slot is  *)
(* handed to a new pair only after every earlier publication in it has     *)
(* been consumed (SlotClear), what is queued on the game's GPU is newer    *)
(* than what its ready fence announces, and what the host holds is not     *)
(* newer than the ready fence and not yet consumed.  So the two meet only  *)
(* at a number that is announced and queued again: the one SignalReady     *)
(* signalled although it reported a failure (unrecorded).                  *)
(***************************************************************************)
EXTENDS StereoStream, SequenceTheorems, TLAPS

\* A publication number is mapped to a slot of the ring.
LEMMA SlotOfType == \A n \in Nat : SlotOf(n) \in Slots
  BY SlotCountAssumption DEF SlotOf, Slots

\* What the render thread queues is a command.
LEMMA CommandType ==
  ASSUME TypeOK
  PROVE  /\ \A part \in Parts : Blit(part) \in Commands
         /\ Signal \in Commands
  BY DEF TypeOK, Pairs, Frames, Commands, Blit, Signal, Parts, Eyes, Hud

\* The absent pair is a pair record.
LEMMA NoPairType == NoPair \in Pairs
  BY DEF NoPair, Pairs, NoFrame, Frames, Eyes

\* The ring Initialize creates is well typed.
LEMMA InitType == Init => TypeOK
<1> SUFFICES ASSUME Init PROVE TypeOK
  OBVIOUS
<1>1. glq \in Seq(Commands)
  BY DEF Init
<1>2. pair \in Pairs
  BY NoPairType DEF Init
<1>3. QED
  BY <1>1, <1>2 DEF Init, TypeOK, NoFrame, NoImage, Frames

\* The steps of the render thread keep the types.
LEMMA GameType == ASSUME TypeOK, Game PROVE TypeOK'
<1> USE DEF TypeOK
<1>1. CASE BeginPairExhausted
  BY <1>1 DEF BeginPairExhausted, WorldCall, bridgeVars, gpuVars, hostVars, boundVars
<1>2. CASE BeginPairSkipped
  BY <1>2 DEF BeginPairSkipped, WorldCall, gameVars, bridgeVars, gpuVars, hostVars, boundVars
<1>3. CASE BeginPairWaitFails
  BY <1>3 DEF BeginPairWaitFails, WorldCall, bridgeVars, gpuVars, hostVars
<1>4. CASE BeginPair
  <2>0. NewFrame \in Frames
    <3>1. lastReady + 1 \in Nat /\ camera + 1 \in Nat
      OBVIOUS
    <3>2. QED
      BY <3>1 DEF NewFrame, NextReady, Frames
  <2>1. pair' \in Pairs
    <3>1. pair' = [phase |-> "active", eye |-> 0, captured |-> {}, hud |-> FALSE,
                   frame |-> NewFrame]
      BY <1>4 DEF BeginPair, NoPair
    <3>2. QED
      BY <2>0, <3>1 DEF Pairs
  <2>2. slotWaited' \in [Slots -> Nat]
    BY <1>4 DEF BeginPair, Reacquire
  <2>3. QED
    BY <1>4, <2>1, <2>2 DEF BeginPair, WorldCall, gpuVars, hostVars
<1>5. CASE RenderEye
  <2>0. pair.eye \in {0, 1}
    BY <1>5 DEF RenderEye, EyesLeft, Pairs
  <2>1. pair' \in Pairs
    <3>1. PICK ok \in BOOLEAN :
            pair' = [pair EXCEPT !.eye = pair.eye + 1,
                        !.captured = IF ok THEN @ \cup {pair.eye} ELSE @]
      BY <1>5 DEF RenderEye
    <3>2. pair.captured \cup {pair.eye} \in SUBSET Eyes /\ pair.captured \in SUBSET Eyes
      BY <2>0 DEF Pairs, Eyes
    <3>3. pair.eye + 1 \in 0 .. 2
      BY <2>0
    <3>4. QED
      BY <3>1, <3>2, <3>3 DEF Pairs
  <2>2. glq' \in Seq(Commands)
    <3>1. glq' = Append(glq, Blit(pair.eye)) \/ glq' = glq
      BY <1>5 DEF RenderEye
    <3>2. Blit(pair.eye) \in Commands
      BY <2>0, CommandType DEF Parts, Eyes
    <3>3. Append(glq, Blit(pair.eye)) \in Seq(Commands)
      BY <3>2, AppendProperties
    <3>4. QED
      BY <3>1, <3>3
  <2>3. QED
    BY <1>5, <2>1, <2>2 DEF RenderEye, bridgeVars, hostVars, boundVars
<1>6. CASE EndPair
  <2>1. pair' \in Pairs
    BY <1>6, NoPairType DEF EndPair, Pairs
  <2>2. QED
    BY <1>6, <2>1 DEF EndPair, bridgeVars, gpuVars, hostVars, boundVars
<1>7. CASE BeginHud
  <2>1. pair' \in Pairs
    BY <1>7 DEF BeginHud, Pairs
  <2>2. QED
    BY <1>7, <2>1 DEF BeginHud, bridgeVars, gpuVars, hostVars, boundVars
<1>8. CASE BeginPresent
  <2>1. pair' \in Pairs
    <3>1. \/ pair' = NoPair
          \/ \E drawn \in BOOLEAN :
               pair' = [pair EXCEPT !.phase = "writing", !.frame.hud = drawn]
      BY <1>8 DEF BeginPresent
    <3>2. CASE pair' = NoPair
      BY <3>2, NoPairType
    <3>3. ASSUME NEW drawn \in BOOLEAN,
                 pair' = [pair EXCEPT !.phase = "writing", !.frame.hud = drawn]
          PROVE  pair' \in Pairs
      BY <3>3 DEF Pairs, Frames
    <3>4. QED
      BY <3>1, <3>2, <3>3
  <2>2. glq' \in Seq(Commands)
    <3>1. glq' = Append(glq, Blit(Hud)) \/ glq' = glq
      BY <1>8 DEF BeginPresent
    <3>2. Blit(Hud) \in Commands
      BY CommandType DEF Parts
    <3>3. Append(glq, Blit(Hud)) \in Seq(Commands)
      BY <3>2, AppendProperties
    <3>4. QED
      BY <3>1, <3>3
  <2>3. metadata' \in [Slots -> [odd : BOOLEAN, frame : Frames]]
    <3>1. \/ metadata' = metadata
          \/ metadata' = [metadata EXCEPT ![SlotOf(pair.frame.ready)].odd = TRUE]
      BY <1>8 DEF BeginPresent
    <3>2. SlotOf(pair.frame.ready) \in Slots
      BY SlotOfType DEF Pairs, Frames
    <3>3. metadata[SlotOf(pair.frame.ready)] \in [odd : BOOLEAN, frame : Frames]
      BY <3>2
    <3>4. [metadata[SlotOf(pair.frame.ready)] EXCEPT !.odd = TRUE]
            \in [odd : BOOLEAN, frame : Frames]
      BY <3>3
    <3>5. QED
      BY <3>1, <3>2, <3>4
  <2>4. UNCHANGED <<lastReady, slotReady, resetHistory, failed, context, readyFence, consumedFence,
                    removed, atlas, bridgeVars, worldRecent, hostVars, boundVars>>
    BY <1>8 DEF BeginPresent
  <2>5. QED
    BY <2>1, <2>2, <2>3, <2>4 DEF bridgeVars, hostVars, boundVars
<1>9. CASE FinishPresent
  <2>1. pair' \in Pairs
    BY <1>9, NoPairType DEF FinishPresent, EndWrite
  <2>2. glq' \in Seq(Commands)
    BY <1>9, CommandType DEF FinishPresent
  <2>3. metadata' \in [Slots -> [odd : BOOLEAN, frame : Frames]]
    BY <1>9 DEF FinishPresent, EndWrite, Pairs
  <2>4. pair.frame.ready \in Nat
    BY DEF Pairs, Frames
  <2>5. QED
    BY <1>9, <2>1, <2>2, <2>3, <2>4 DEF FinishPresent, hostVars, boundVars
<1>10. CASE FinishPresentFails
  <2>0. EndWrite
    BY <1>10 DEF FinishPresentFails
  <2>1. pair' \in Pairs
    BY <2>0, NoPairType DEF EndWrite
  <2>2. metadata' \in [Slots -> [odd : BOOLEAN, frame : Frames]]
    BY <2>0 DEF EndWrite, Pairs
  <2>3. glq' \in Seq(Commands) /\ unrecorded' \subseteq Nat
    <3>1. Append(glq, Signal) \in Seq(Commands)
      BY CommandType
    <3>2. pair.frame.ready \in Nat
      BY DEF Pairs, Frames
    <3>3. QED
      BY <1>10, <3>1, <3>2 DEF FinishPresentFails
  <2>4. faults' \in Nat /\ failed' \in BOOLEAN
    BY <1>10 DEF FinishPresentFails
  <2>5. UNCHANGED <<lastReady, slotReady, resetHistory, context, camera, lastSignal,
                    slotSignalled, slotWaited, readyFence, consumedFence, removed, atlas,
                    worldRecent, hostVars>>
    BY <1>10 DEF FinishPresentFails
  <2>6. QED
    BY <2>1, <2>2, <2>3, <2>4, <2>5 DEF hostVars
<1>11. CASE RecoverContext
  <2>1. slotWaited' \in [Slots -> Nat]
    BY <1>11 DEF RecoverContext
  <2>2. context' \in {"live", "deleted", "imported"}
    BY <1>11 DEF RecoverContext
  <2>3. failed' \in BOOLEAN /\ resetHistory' \in BOOLEAN
    BY <1>11 DEF RecoverContext
  <2>4. UNCHANGED <<pair, lastReady, slotReady, lastSignal, slotSignalled, unrecorded, gpuVars,
                    metadata, worldRecent, hostVars, boundVars>>
    BY <1>11 DEF RecoverContext
  <2>5. QED
    BY <2>1, <2>2, <2>3, <2>4 DEF gpuVars, hostVars, boundVars
<1>12. QED
  BY <1>1, <1>2, <1>3, <1>4, <1>5, <1>6, <1>7, <1>8, <1>9, <1>10, <1>11 DEF Game

\* The steps of the host's frame loop keep the types.
LEMMA HostType == ASSUME TypeOK, Host PROVE TypeOK'
<1> USE DEF TypeOK, othersThanHost, gameVars, bridgeVars, gpuVars, boundVars
<1>0. FenceMax \in Nat /\ NoFrame \in Frames
  BY FenceMaxAssumption DEF NoFrame, Frames
<1>1. CASE HostOpen
  BY <1>1 DEF HostOpen
<1>2. CASE HostPoll
  BY <1>0, <1>2 DEF HostPoll, Completed
<1>3. CASE HostPollFails
  BY <1>3 DEF HostPollFails
<1>4. CASE HostReadMetadata
  <2>1. SlotOf(token) \in Slots
    BY SlotOfType
  <2>2. metadata[SlotOf(token)].frame \in Frames
    BY <2>1
  <2>3. CASE Readable
    BY <1>4, <2>2, <2>3 DEF HostReadMetadata
  <2>4. CASE ~Readable
    <3>1. EndFrame /\ UNCHANGED <<lastConsumed, cached, label, othersThanHost>>
      BY <1>4, <2>4 DEF HostReadMetadata
    <3>2. QED
      BY <1>0, <3>1 DEF EndFrame
  <2>5. QED
    BY <2>3, <2>4
<1>5. CASE HostSkipFrame
  BY <1>0, <1>5 DEF HostSkipFrame, EndFrame
<1>6. CASE HostSubmit
  BY <1>6 DEF HostSubmit
<1>7. CASE HostCopy
  <2>1. SlotOf(token) \in Slots
    BY SlotOfType
  <2>2. QED
    BY <1>7, <2>1 DEF HostCopy
<1>8. CASE HostRetire
  BY <1>0, <1>8 DEF HostRetire, EndFrame, Acknowledge
<1>9. CASE HostFails
  BY <1>9 DEF HostFails
<1>10. QED
  BY <1>1, <1>2, <1>3, <1>4, <1>5, <1>6, <1>7, <1>8, <1>9 DEF Host

\* The steps of the GPU, the driver and the clock keep the types.
LEMMA EnvironmentType == ASSUME TypeOK, Environment PROVE TypeOK'
<1> USE DEF TypeOK
<1>1. CASE DeleteContext
  <2>1. PICK k \in Survivors(glq) : glq' = SubSeq(glq, 1, k)
    BY <1>1 DEF DeleteContext
  <2>2. glq' \in Seq(Commands)
    BY <2>1, SubSeqProperties DEF Survivors
  <2>3. QED
    BY <1>1, <2>2, NoPairType DEF DeleteContext, bridgeVars, hostVars
<1>2. CASE RemoveDevice
  BY <1>2 DEF RemoveDevice, gameVars, bridgeVars, hostVars
<1>3. CASE WorldTimeout
  BY <1>3 DEF WorldTimeout, gameVars, bridgeVars, gpuVars, hostVars, boundVars
<1>4. CASE GpuExecute
  <2>1. Head(glq) \in Commands /\ Tail(glq) \in Seq(Commands)
    BY <1>4 DEF GpuExecute
  <2>2. readyFence' \in Nat
    BY <1>4, <2>1 DEF GpuExecute, Commands
  <2>3. atlas' \in [Slots -> [Parts -> Nat]]
    <3>1. CASE IsSignal(Head(glq))
      BY <1>4, <3>1 DEF GpuExecute
    <3>2. CASE ~IsSignal(Head(glq))
      <4>1. /\ SlotOf(Head(glq).ready) \in Slots
            /\ Head(glq).part \in Parts /\ Head(glq).camera \in Nat
        BY <2>1, SlotOfType DEF Commands
      <4>2. atlas' = [atlas EXCEPT ![SlotOf(Head(glq).ready)][Head(glq).part] =
                                      Head(glq).camera]
        BY <1>4, <3>2 DEF GpuExecute
      <4>3. QED
        BY <4>1, <4>2
    <3>3. QED
      BY <3>1, <3>2
  <2>4. QED
    BY <1>4, <2>1, <2>2, <2>3 DEF GpuExecute, gameVars, bridgeVars, hostVars, boundVars
<1>5. QED
  BY <1>1, <1>2, <1>3, <1>4 DEF Environment

\* Every variable keeps its type, for every ring size and bound.
THEOREM TypeCorrect == Spec => []TypeOK
<1>1. Init => TypeOK
  BY InitType
<1>2. TypeOK /\ [Next]_vars => TypeOK'
  <2> SUFFICES ASSUME TypeOK, [Next]_vars PROVE TypeOK'
    OBVIOUS
  <2>1. CASE Next
    BY <2>1, GameType, HostType, EnvironmentType DEF Next
  <2>2. CASE UNCHANGED vars
    BY <2>2 DEF vars, gameVars, bridgeVars, gpuVars, hostVars, boundVars, TypeOK
  <2>3. QED
    BY <2>1, <2>2
<1>3. QED
  BY <1>1, <1>2, PTL DEF Spec

-----------------------------------------------------------------------------
(* The inductive invariant. *)

\* Every earlier publication in the slot of publication n has been consumed.
SlotClear(n) == \A r \in 1 .. n - 1 : SlotOf(r) = SlotOf(n) => r <= consumedFence

\* A number signalled and not recorded is at most the next one, whose slot is clear.
LateInv ==
    /\ \A n \in unrecorded : 1 <= n /\ n <= lastReady + 1
    /\ lastReady + 1 \in unrecorded => lastReady + 1 < FenceMax /\ SlotClear(lastReady + 1)

FenceInv ==
    /\ consumedFence <= readyFence /\ readyFence <= Announced
    /\ lastReady < FenceMax
    /\ lastReady <= consumedFence + SlotCount

HostInv ==
    /\ host \in {"idle", "polled", "candidate"} => lastConsumed = consumedFence
    /\ host \in {"polled", "candidate", "copying", "copied"} =>
          consumedFence < token /\ token <= readyFence
    /\ host \in {"copying", "copied"} =>
          lastConsumed = IF signalOk THEN token ELSE consumedFence

\* slotReady holds the newest publication of each slot.
SlotInv == \A r \in 1 .. lastReady : r <= slotReady[SlotOf(r)]

PairInv ==
    pair # NoPair =>
        /\ pair.frame.ready = lastReady + 1
        /\ lastReady + 1 < FenceMax
        /\ SlotClear(lastReady + 1)

\* The second number follows the first, or is the first issued once more.
Follows(m, n) == m < n \/ (m = n /\ m \in unrecorded)

\* What is queued follows the ready fence, and goes to a cleared slot.
QueueInv ==
    \A i \in 1 .. Len(glq) :
        /\ Follows(readyFence, glq[i].ready) /\ glq[i].ready <= lastReady + 1
        /\ IsSignal(glq[i]) => glq[i].ready <= Announced
        /\ SlotClear(glq[i].ready)

\* What is queued behind a signal follows its number.
OrderInv ==
    \A i, j \in 1 .. Len(glq) :
        i < j /\ IsSignal(glq[i]) => Follows(glq[i].ready, glq[j].ready)

\* The metadata of every unconsumed publication is in place; that of a number
\* signalled and not recorded is, too, until it is written again.
MetadataInv ==
    /\ \A r \in consumedFence + 1 .. lastReady :
          ~metadata[SlotOf(r)].odd /\ metadata[SlotOf(r)].frame.ready = r
    /\ lastReady + 1 \in unrecorded =>
          /\ metadata[SlotOf(lastReady + 1)].frame.ready = lastReady + 1
          /\ pair.phase # "writing" => ~metadata[SlotOf(lastReady + 1)].odd

RingInv ==
    /\ TypeOK /\ LateInv /\ FenceInv /\ HostInv /\ SlotInv
    /\ PairInv /\ QueueInv /\ OrderInv /\ MetadataInv

\* RingInv without the types; the variables it speaks of.
Core ==
    /\ LateInv /\ FenceInv /\ HostInv /\ SlotInv
    /\ PairInv /\ QueueInv /\ OrderInv /\ MetadataInv

coreVars == <<pair, lastReady, slotReady, unrecorded, glq, readyFence, consumedFence, metadata,
              host, token, signalOk, lastConsumed>>

\* The ring Initialize creates satisfies the core of the invariant.
LEMMA InitCore == Init => Core
  BY FenceMaxAssumption, SlotCountAssumption
  DEF Init, Core, LateInv, Announced, NextReady, FenceInv, HostInv, SlotInv, PairInv, QueueInv, OrderInv, MetadataInv

\* A step that leaves the ring's numbers alone keeps the core.
LEMMA QuietStep == ASSUME Core, UNCHANGED coreVars PROVE Core'
  BY DEF coreVars, Core, LateInv, Announced, NextReady, FenceInv, HostInv, SlotInv, PairInv,
         QueueInv, OrderInv, Follows, MetadataInv, SlotClear

\* What is announced is published, or the next number.
LEMMA AnnouncedNext ==
  ASSUME TypeOK
  PROVE  /\ Announced \in Nat /\ lastReady <= Announced /\ Announced <= lastReady + 1
         /\ lastReady \in Nat /\ lastReady + 1 \in Nat
         /\ lastReady + 1 \in unrecorded => Announced = lastReady + 1
         /\ lastReady + 1 \notin unrecorded => Announced = lastReady
  BY DEF TypeOK, Announced, NextReady

-----------------------------------------------------------------------------
(* Division by the ring size, which the provers do not know. *)

\* Division with remainder, with a unique quotient.
LEMMA Division ==
  ASSUME NEW S \in Nat \ {0}, NEW x \in Nat
  PROVE  /\ x = S * (x \div S) + (x % S)
         /\ x % S \in 0 .. S - 1 /\ x \div S \in Nat
  OBVIOUS

\* The only multiple of the ring size that is smaller than it is 0.
LEMMA SmallMultiple ==
  ASSUME NEW S \in Nat \ {0}, NEW d \in Int, S * d < S, -S < S * d
  PROVE  d = 0
<1>1. CASE d >= 1
  <2>1. S * d >= S
    BY <1>1
  <2>2. QED
    BY <2>1
<1>2. CASE d <= -1
  <2>1. S * d <= -S
    BY <1>2
  <2>2. QED
    BY <2>1
<1>3. QED
  BY <1>1, <1>2

\* The remainder is the same exactly at multiples of the ring size.
LEMMA ModuloPeriod ==
  ASSUME NEW S \in Nat \ {0}, NEW x \in Nat
  PROVE  (x + S) % S = x % S
<1> DEFINE q == x \div S
           r == x % S
           p == (x + S) \div S
           t == (x + S) % S
<1>1. x = S * q + r /\ r \in 0 .. S - 1 /\ q \in Nat
  BY Division
<1>2. x + S = S * p + t /\ t \in 0 .. S - 1 /\ p \in Nat
  BY Division, x + S \in Nat
<1> HIDE DEF q, r, p, t
<1>3. S * (p - q - 1) = S * p - S * q - S
  BY <1>1, <1>2
<1>4. S * p \in Int /\ S * q \in Int
  BY <1>1, <1>2
<1>5. S * (p - q - 1) = r - t
  BY <1>1, <1>2, <1>3, <1>4
<1>6. p - q - 1 = 0
  BY <1>1, <1>2, <1>5, SmallMultiple
<1>7. r = t
  BY <1>1, <1>2, <1>5, <1>6
<1>8. QED
  BY <1>7 DEF r, t

\* The slot of a publication is taken again SlotCount publications later.
LEMMA SlotPeriod ==
  ASSUME NEW n \in Nat, n > SlotCount
  PROVE  SlotOf(n - SlotCount) = SlotOf(n)
<1>1. SlotCount \in Nat \ {0} /\ n - SlotCount - 1 \in Nat
  BY SlotCountAssumption
<1>2. (n - SlotCount - 1) + SlotCount = n - 1
  BY <1>1
<1>3. (n - 1) % SlotCount = (n - SlotCount - 1) % SlotCount
  BY <1>1, <1>2, ModuloPeriod
<1>4. n # 0 /\ n - SlotCount # 0
  BY <1>1
<1>5. QED
  BY <1>3, <1>4 DEF SlotOf

\* A number whose slot is clear is at most SlotCount ahead of the consumed fence.
LEMMA ClearFits ==
  ASSUME NEW n \in Nat, consumedFence \in Nat, SlotClear(n)
  PROVE  n <= consumedFence + SlotCount
<1>0. SlotCount \in Nat \ {0}
  BY SlotCountAssumption
<1>1. CASE n > SlotCount
  <2>1. n - SlotCount \in 1 .. n - 1
    BY <1>0, <1>1
  <2>2. SlotOf(n - SlotCount) = SlotOf(n)
    BY <1>1, SlotPeriod
  <2>3. n - SlotCount <= consumedFence
    BY <2>1, <2>2 DEF SlotClear
  <2>4. QED
    BY <1>0, <2>3
<1>2. CASE ~(n > SlotCount)
  BY <1>0, <1>2
<1>3. QED
  BY <1>1, <1>2

-----------------------------------------------------------------------------
(* What each step does to the invariant. *)

\* The steps of the render thread that touch only the pair.
LEMMA PairStep ==
  ASSUME RingInv, TypeOK', pair.phase # "writing",
         UNCHANGED <<lastReady, slotReady, unrecorded, glq, readyFence, consumedFence, metadata,
                     host, token, signalOk, lastConsumed>>,
         pair' = NoPair \/ (pair # NoPair /\ pair'.frame.ready = pair.frame.ready)
  PROVE  Core'
<1> USE DEF RingInv
<1>1. PairInv'
  BY DEF PairInv, SlotClear
<1>2. MetadataInv'
  BY DEF MetadataInv
<1>3. QED
  BY <1>1, <1>2 DEF Core, LateInv, Announced, NextReady, FenceInv, HostInv, SlotInv, QueueInv,
                    OrderInv, Follows, SlotClear

\* BeginPair takes a slot whose last publication, and so every earlier one,
\* has been consumed.
LEMMA BeginPairStep == ASSUME RingInv, TypeOK', BeginPair PROVE Core'
<1> USE DEF RingInv
<1>0. lastReady \in Nat /\ consumedFence \in Nat /\ slotReady \in [Slots -> Nat]
  BY DEF TypeOK
<1>1. UNCHANGED <<lastReady, slotReady, unrecorded, glq, readyFence, consumedFence, metadata,
                  host, token, signalOk, lastConsumed>>
  BY DEF BeginPair, gpuVars, hostVars
<1>2. pair'.frame.ready = lastReady + 1
  BY DEF BeginPair, NewFrame, NextReady, NoPair
<1>3. lastReady + 1 < FenceMax
  <2>1. ~(lastReady >= FenceMax - 1)
    BY DEF BeginPair, Exhausted
  <2>2. QED
    BY <1>0, <2>1, FenceMaxAssumption
<1>4. SlotClear(lastReady + 1)
  <2>1. SUFFICES ASSUME NEW r \in 1 .. lastReady, SlotOf(r) = SlotOf(lastReady + 1)
                 PROVE  r <= consumedFence
    BY <1>0 DEF SlotClear
  <2>2. r <= slotReady[SlotOf(r)] /\ slotReady[SlotOf(r)] \in Nat
    BY <1>0, SlotOfType DEF SlotInv
  <2>3. slotReady[SlotOf(r)] = 0 \/ consumedFence >= slotReady[SlotOf(r)]
    BY <2>1 DEF BeginPair, SlotFree, CanReuse, NextSlot, NextReady
  <2>4. QED
    BY <1>0, <2>2, <2>3
<1>5. PairInv'
  BY <1>1, <1>2, <1>3, <1>4 DEF PairInv, SlotClear
<1>6. MetadataInv'
  <2>1. pair = NoPair /\ NoPair.phase = "idle"
    BY DEF BeginPair, WorldCall, NoPair
  <2>2. QED
    BY <1>1, <2>1 DEF MetadataInv
<1>7. QED
  BY <1>1, <1>5, <1>6 DEF Core, LateInv, Announced, NextReady, FenceInv, HostInv, SlotInv,
                          QueueInv, OrderInv, Follows, SlotClear

\* A command of the pair is queued.
LEMMA EnqueueStep ==
  ASSUME RingInv, TypeOK', NEW command \in Commands,
         command.ready = lastReady + 1, SlotClear(lastReady + 1),
         glq' = Append(glq, command),
         UNCHANGED <<readyFence, consumedFence>>,
         \/ ~IsSignal(command) /\ UNCHANGED <<lastReady, unrecorded>>
         \/ lastReady' = lastReady + 1 /\ UNCHANGED unrecorded
         \/ lastReady' = lastReady /\ unrecorded' = unrecorded \cup {lastReady + 1}
  PROVE  QueueInv' /\ OrderInv'
<1>0. /\ lastReady \in Nat /\ readyFence \in Nat /\ glq \in Seq(Commands)
      /\ QueueInv /\ OrderInv /\ readyFence <= Announced
  BY DEF RingInv, TypeOK, FenceInv
<1>1. /\ Len(glq') = Len(glq) + 1 /\ Len(glq) \in Nat
      /\ \A i \in 1 .. Len(glq) : glq'[i] = glq[i]
      /\ glq'[Len(glq) + 1] = command
  BY <1>0, AppendProperties
<1>2. \A i \in 1 .. Len(glq) : glq[i] \in Commands
  BY <1>0
<1>3. \A c \in Commands : c.ready \in Nat
  BY DEF Commands
<1>4. /\ Announced \in Nat /\ Announced <= Announced' /\ Announced' \in Nat
      /\ Announced <= lastReady + 1 /\ lastReady <= lastReady' /\ lastReady' \in Nat
      /\ IsSignal(command) => lastReady + 1 <= Announced'
      /\ Announced = lastReady + 1 => lastReady + 1 \in unrecorded
      /\ unrecorded \subseteq unrecorded'
  <2>1. TypeOK
    BY DEF RingInv
  <2>2. /\ Announced' \in Nat /\ lastReady' <= Announced' /\ lastReady' \in Nat
        /\ lastReady' + 1 \in unrecorded' => Announced' = lastReady' + 1
        /\ lastReady' + 1 \notin unrecorded' => Announced' = lastReady'
    <3>1. lastReady' \in Nat
      BY DEF TypeOK
    <3>2. lastReady' + 1 \in unrecorded' => Announced' = lastReady' + 1
      BY DEF Announced, NextReady
    <3>3. lastReady' + 1 \notin unrecorded' => Announced' = lastReady'
      BY DEF Announced, NextReady
    <3>4. PICK m \in Nat : m = lastReady'
      BY <3>1
    <3>5. Announced' = m + 1 \/ Announced' = m
      BY <3>2, <3>3, <3>4
    <3>6. Announced' \in Nat /\ lastReady' <= Announced'
      BY <3>4, <3>5
    <3>7. QED
      BY <3>1, <3>2, <3>3, <3>6
  <2>3. /\ Announced \in Nat /\ lastReady <= Announced /\ Announced <= lastReady + 1
        /\ lastReady + 1 \in unrecorded => Announced = lastReady + 1
        /\ lastReady + 1 \notin unrecorded => Announced = lastReady
    BY <2>1, AnnouncedNext
  <2>4. CASE ~IsSignal(command) /\ UNCHANGED <<lastReady, unrecorded>>
    BY <1>0, <2>2, <2>3, <2>4
  <2>5. CASE lastReady' = lastReady + 1 /\ UNCHANGED unrecorded
    BY <1>0, <2>2, <2>3, <2>5
  <2>6. CASE lastReady' = lastReady /\ unrecorded' = unrecorded \cup {lastReady + 1}
    BY <1>0, <2>2, <2>3, <2>6
  <2>7. QED
    BY <2>4, <2>5, <2>6
<1>5. PICK number \in Nat : number = lastReady + 1
  BY <1>0
<1>6. ASSUME NEW n \in Nat, n <= Announced
      PROVE  n < number \/ (n = number /\ n \in unrecorded')
  BY <1>0, <1>4, <1>5, <1>6
<1>7. QueueInv'
  <2>1. SUFFICES ASSUME NEW i \in 1 .. Len(glq')
                 PROVE  /\ Follows(readyFence, glq[i].ready)'
                        /\ glq'[i].ready <= lastReady' + 1
                        /\ IsSignal(glq'[i]) => glq'[i].ready <= Announced'
                        /\ SlotClear(glq'[i].ready)
    BY DEF QueueInv, SlotClear
  <2>2. CASE i = Len(glq) + 1
    <3>1. glq'[i].ready = number
      BY <1>1, <1>5, <2>2
    <3>2. Follows(readyFence, glq[i].ready)'
      BY <1>0, <1>6, <3>1 DEF Follows
    <3>3. QED
      BY <1>0, <1>1, <1>4, <2>2, <3>2
  <2>3. CASE i \in 1 .. Len(glq)
    <3>1. glq'[i] = glq[i] /\ glq[i].ready \in Nat
      BY <1>1, <1>2, <1>3, <2>3
    <3>2. /\ Follows(readyFence, glq[i].ready) /\ glq[i].ready <= lastReady + 1
          /\ IsSignal(glq[i]) => glq[i].ready <= Announced
          /\ SlotClear(glq[i].ready)
      BY <1>0, <2>3 DEF QueueInv
    <3>3. Follows(readyFence, glq[i].ready)'
      BY <1>4, <3>1, <3>2 DEF Follows
    <3>4. QED
      BY <1>0, <1>4, <3>1, <3>2, <3>3
  <2>4. QED
    BY <1>1, <2>2, <2>3
<1>8. OrderInv'
  <2>1. SUFFICES ASSUME NEW i \in 1 .. Len(glq'), NEW j \in 1 .. Len(glq'),
                        i < j, IsSignal(glq'[i])
                 PROVE  Follows(glq[i].ready, glq[j].ready)'
    BY DEF OrderInv
  <2>2. i \in 1 .. Len(glq) /\ glq'[i] = glq[i] /\ glq[i].ready \in Nat
    <3>1. i \in 1 .. Len(glq)
      BY <1>1, <2>1
    <3>2. QED
      BY <1>1, <1>2, <1>3, <3>1
  <2>3. CASE j = Len(glq) + 1
    <3>1. glq[i].ready <= Announced /\ glq'[j].ready = number
      BY <1>0, <1>1, <1>5, <2>1, <2>2, <2>3 DEF QueueInv
    <3>2. QED
      BY <1>6, <2>2, <3>1 DEF Follows
  <2>4. CASE j \in 1 .. Len(glq)
    <3>1. Follows(glq[i].ready, glq[j].ready) /\ glq'[j] = glq[j]
      BY <1>0, <1>1, <2>1, <2>2, <2>4 DEF OrderInv
    <3>2. QED
      BY <1>4, <2>2, <3>1 DEF Follows
  <2>5. QED
    BY <1>1, <2>3, <2>4
<1>9. QED
  BY <1>7, <1>8

\* What RenderEye and BeginPresent queue belongs to the pair.
LEMMA PairCommands ==
  ASSUME RingInv, pair # NoPair
  PROVE  /\ \A part \in Parts :
               /\ Blit(part) \in Commands /\ Blit(part).ready = lastReady + 1
               /\ ~IsSignal(Blit(part))
         /\ Signal \in Commands /\ Signal.ready = lastReady + 1
         /\ pair.frame.ready = lastReady + 1 /\ SlotClear(lastReady + 1)
         /\ lastReady + 1 < FenceMax
<1>1. pair.frame.ready = lastReady + 1 /\ SlotClear(lastReady + 1) /\ lastReady + 1 < FenceMax
  BY DEF RingInv, PairInv
<1>2. QED
  BY <1>1, CommandType DEF RingInv, Blit, Signal, IsSignal

\* A turn of the camera loop queues at most one blit into the pair's slot.
LEMMA RenderEyeStep == ASSUME RingInv, TypeOK', RenderEye PROVE Core'
<1>1. pair # NoPair /\ pair.eye \in Parts
  <2>1. pair # NoPair
    BY DEF RenderEye, NoPair
  <2>2. pair.eye \in 0 .. 2 /\ pair.eye < 2
    BY DEF RenderEye, EyesLeft, RingInv, TypeOK, Pairs
  <2>3. QED
    BY <2>1, <2>2 DEF Parts, Eyes
<1>2. UNCHANGED <<lastReady, slotReady, unrecorded, readyFence, consumedFence, metadata,
                  host, token, signalOk, lastConsumed>>
  BY DEF RenderEye, bridgeVars, hostVars
<1>3. pair'.frame = pair.frame
  BY DEF RenderEye, RingInv, TypeOK, Pairs
<1>4. glq' = glq \/ glq' = Append(glq, Blit(pair.eye))
  BY DEF RenderEye
<1>5. QueueInv' /\ OrderInv'
  <2>1. CASE glq' = glq
    BY <1>2, <2>1 DEF RingInv, QueueInv, OrderInv, Follows, SlotClear, Announced, NextReady
  <2>2. CASE glq' = Append(glq, Blit(pair.eye))
    BY <1>1, <1>2, <2>2, PairCommands, EnqueueStep
  <2>3. QED
    BY <1>4, <2>1, <2>2
<1>6. PairInv'
  BY <1>1, <1>2, <1>3, PairCommands DEF PairInv, SlotClear
<1>7. MetadataInv'
  <2>1. pair.phase = "active"
    BY DEF RenderEye
  <2>2. QED
    BY <1>2, <2>1 DEF RingInv, MetadataInv
<1>8. QED
  BY <1>2, <1>5, <1>6, <1>7 DEF RingInv, Core, LateInv, SlotClear, Announced, NextReady,
                                FenceInv, HostInv, SlotInv

\* metadata.Write touches the slot of the next publication only, whose earlier
\* frames have all been consumed.
LEMMA OtherMetadata ==
  ASSUME RingInv, pair # NoPair, NEW r \in consumedFence + 1 .. lastReady
  PROVE  SlotOf(r) # SlotOf(pair.frame.ready)
<1>1. lastReady \in Nat /\ consumedFence \in Nat
  BY DEF RingInv, TypeOK
<1>2. QED
  BY <1>1, PairCommands DEF SlotClear

\* The first half of the buffer swap: the HUD's blit and the odd sequence.
LEMMA BeginPresentStep == ASSUME RingInv, TypeOK', BeginPresent PROVE Core'
<1>1. pair # NoPair /\ Hud \in Parts
  <2>1. pair.phase = "awaiting" /\ NoPair.phase = "idle"
    BY DEF BeginPresent, NoPair
  <2>2. QED
    BY <2>1 DEF Parts
<1>2. UNCHANGED <<lastReady, slotReady, unrecorded, readyFence, consumedFence,
                  host, token, signalOk, lastConsumed>>
  BY DEF BeginPresent, bridgeVars, hostVars
<1>3. pair' = NoPair \/ pair'.frame.ready = pair.frame.ready
  <2>1. \/ pair' = NoPair
        \/ \E drawn \in BOOLEAN :
             pair' = [pair EXCEPT !.phase = "writing", !.frame.hud = drawn]
    BY DEF BeginPresent
  <2>2. pair \in Pairs /\ pair.frame \in Frames
    BY DEF RingInv, TypeOK, Pairs
  <2>3. ASSUME NEW drawn \in BOOLEAN,
               pair' = [pair EXCEPT !.phase = "writing", !.frame.hud = drawn]
        PROVE  pair'.frame.ready = pair.frame.ready
    <3>1. pair'.frame = [pair.frame EXCEPT !.hud = drawn]
      BY <2>2, <2>3 DEF Pairs
    <3>2. QED
      BY <2>2, <3>1 DEF Frames
  <2>4. QED
    BY <2>1, <2>3
<1>4. glq' = glq \/ glq' = Append(glq, Blit(Hud))
  BY DEF BeginPresent
<1>5. QueueInv' /\ OrderInv'
  <2>1. CASE glq' = glq
    BY <1>2, <2>1 DEF RingInv, QueueInv, OrderInv, Follows, SlotClear, Announced, NextReady
  <2>2. CASE glq' = Append(glq, Blit(Hud))
    BY <1>1, <1>2, <2>2, PairCommands, EnqueueStep
  <2>3. QED
    BY <1>4, <2>1, <2>2
<1>6. PairInv'
  BY <1>1, <1>2, <1>3, PairCommands DEF PairInv, SlotClear
<1>7. MetadataInv'
  <2>1. \A r \in consumedFence + 1 .. lastReady : metadata'[SlotOf(r)] = metadata[SlotOf(r)]
    <3>1. TAKE r \in consumedFence + 1 .. lastReady
    <3>2. SlotOf(r) # SlotOf(pair.frame.ready)
      BY <1>1, OtherMetadata
    <3>3. \/ metadata' = metadata
          \/ metadata' = [metadata EXCEPT ![SlotOf(pair.frame.ready)].odd = TRUE]
      BY DEF BeginPresent
    <3>4. consumedFence \in Nat /\ lastReady \in Nat
      BY DEF RingInv, TypeOK
    <3>5. r \in Nat
      BY <3>4
    <3>6. SlotOf(r) \in Slots
      BY <3>5, SlotOfType
    <3>7. DOMAIN metadata = Slots
      BY DEF RingInv, TypeOK
    <3>8. QED
      BY <3>2, <3>3, <3>6, <3>7
  <2>2. ASSUME lastReady + 1 \in unrecorded
        PROVE  /\ metadata'[SlotOf(lastReady + 1)].frame.ready = lastReady + 1
               /\ pair'.phase # "writing" => ~metadata'[SlotOf(lastReady + 1)].odd
    <3>1. /\ metadata[SlotOf(lastReady + 1)].frame.ready = lastReady + 1
          /\ ~metadata[SlotOf(lastReady + 1)].odd
      <4>1. pair.phase = "awaiting"
        BY DEF BeginPresent
      <4>2. QED
        BY <2>2, <4>1 DEF RingInv, MetadataInv
    <3>2. \/ metadata' = metadata
          \/ /\ pair'.phase = "writing"
             /\ metadata' = [metadata EXCEPT ![SlotOf(pair.frame.ready)].odd = TRUE]
      <4>1. \/ metadata' = metadata
            \/ /\ \E drawn \in BOOLEAN :
                     pair' = [pair EXCEPT !.phase = "writing", !.frame.hud = drawn]
               /\ metadata' = [metadata EXCEPT ![SlotOf(pair.frame.ready)].odd = TRUE]
        BY DEF BeginPresent
      <4>2. \A drawn \in BOOLEAN :
               pair' = [pair EXCEPT !.phase = "writing", !.frame.hud = drawn]
                  => pair'.phase = "writing"
        BY DEF RingInv, TypeOK, Pairs
      <4>3. QED
        BY <4>1, <4>2
    <3>3. SlotOf(pair.frame.ready) \in Slots /\ metadata \in [Slots -> [odd : BOOLEAN, frame : Frames]]
          /\ SlotOf(lastReady + 1) \in Slots
      <4>1. pair.frame.ready \in Nat /\ lastReady + 1 \in Nat
        BY DEF RingInv, TypeOK, Pairs, Frames
      <4>2. QED
        BY <4>1, SlotOfType DEF RingInv, TypeOK
    <3>4. metadata'[SlotOf(lastReady + 1)].frame = metadata[SlotOf(lastReady + 1)].frame
      BY <3>2, <3>3
    <3>5. QED
      BY <3>1, <3>2, <3>4
  <2>3. QED
    BY <1>2, <2>1, <2>2 DEF RingInv, MetadataInv
<1>8. QED
  BY <1>2, <1>5, <1>6, <1>7 DEF RingInv, Core, LateInv, SlotClear, Announced, NextReady,
                                FenceInv, HostInv, SlotInv

\* The same for the second half of metadata.Write; the frame it writes is the
\* metadata of the next publication.
LEMMA EndWriteStep ==
  ASSUME RingInv, EndWrite
  PROVE  /\ pair # NoPair /\ pair' = NoPair
         /\ \A r \in (consumedFence + 1 .. lastReady) \cup {lastReady + 1} :
              ~metadata'[SlotOf(r)].odd /\ metadata'[SlotOf(r)].frame.ready = r
<1>1. pair # NoPair /\ pair' = NoPair
  BY DEF EndWrite, NoPair
<1>2. ASSUME NEW r \in (consumedFence + 1 .. lastReady) \cup {lastReady + 1}
      PROVE  ~metadata'[SlotOf(r)].odd /\ metadata'[SlotOf(r)].frame.ready = r
  <2>1. lastReady \in Nat /\ consumedFence \in Nat /\ r \in Nat
    BY DEF RingInv, TypeOK
  <2>2. SlotOf(r) \in Slots /\ DOMAIN metadata = Slots
    BY <2>1, SlotOfType DEF RingInv, TypeOK
  <2>3. pair.frame.ready = lastReady + 1
    BY <1>1, PairCommands
  <2>4. metadata' = [metadata EXCEPT ![SlotOf(pair.frame.ready)] =
                       [odd |-> FALSE, frame |-> pair.frame]]
    BY DEF EndWrite
  <2>5. CASE r = lastReady + 1
    BY <2>2, <2>3, <2>4, <2>5
  <2>6. CASE r \in consumedFence + 1 .. lastReady
    <3>1. SlotOf(r) # SlotOf(pair.frame.ready)
      BY <1>1, <2>6, OtherMetadata
    <3>2. metadata'[SlotOf(r)] = metadata[SlotOf(r)]
      BY <2>2, <2>4, <3>1
    <3>3. QED
      BY <2>6, <3>2 DEF RingInv, MetadataInv
  <2>7. QED
    BY <2>1, <2>5, <2>6
<1>3. QED
  BY <1>1, <1>2

\* A failure reported after the signal was issued leaves the books as they were;
\* the signal that may be queued carries the next number, into a cleared slot.
LEMMA FinishPresentFailsStep == ASSUME RingInv, TypeOK', FinishPresentFails PROVE Core'
<1>1. UNCHANGED <<lastReady, slotReady, readyFence, consumedFence,
                  host, token, signalOk, lastConsumed>>
  BY DEF FinishPresentFails, hostVars
<1>2. EndWrite
  BY DEF FinishPresentFails
<1>3. lastReady \in Nat /\ consumedFence \in Nat /\ unrecorded \subseteq Nat
  BY DEF RingInv, TypeOK
<1>4. /\ pair # NoPair /\ pair' = NoPair /\ pair.frame.ready = lastReady + 1
      /\ SlotClear(lastReady + 1) /\ lastReady + 1 < FenceMax
      /\ Signal \in Commands /\ Signal.ready = lastReady + 1
      /\ \A r \in consumedFence + 1 .. lastReady :
            ~metadata'[SlotOf(r)].odd /\ metadata'[SlotOf(r)].frame.ready = r
      /\ metadata'[SlotOf(lastReady + 1)].frame.ready = lastReady + 1
      /\ ~metadata'[SlotOf(lastReady + 1)].odd
  <2>1. \A r \in consumedFence + 1 .. lastReady : r \in consumedFence + 1 .. lastReady + 1
    BY <1>3
  <2>2. QED
    BY <1>2, <2>1, EndWriteStep, PairCommands
<1>5. PairInv' /\ MetadataInv'
  BY <1>1, <1>4 DEF PairInv, MetadataInv
<1>6. \/ UNCHANGED <<glq, unrecorded>>
      \/ glq' = Append(glq, Signal) /\ unrecorded' = unrecorded \cup {lastReady + 1}
  BY <1>4 DEF FinishPresentFails
<1>7. QueueInv' /\ OrderInv'
  <2>1. CASE UNCHANGED <<glq, unrecorded>>
    BY <1>1, <2>1 DEF RingInv, QueueInv, OrderInv, Follows, SlotClear, Announced, NextReady
  <2>2. CASE glq' = Append(glq, Signal) /\ unrecorded' = unrecorded \cup {lastReady + 1}
    BY <1>1, <1>4, <2>2, EnqueueStep
  <2>3. QED
    BY <1>6, <2>1, <2>2
<1>8. LateInv'
  <2>1. \A n \in unrecorded' : n \in unrecorded \/ n = lastReady + 1
    BY <1>6
  <2>2. \A n \in unrecorded' : 1 <= n /\ n <= lastReady + 1
    <3>1. \A n \in unrecorded : 1 <= n /\ n <= lastReady + 1
      BY DEF RingInv, LateInv
    <3>2. 1 <= lastReady + 1 /\ lastReady + 1 <= lastReady + 1
      BY <1>3
    <3>3. QED
      BY <2>1, <3>1, <3>2
  <2>3. SlotClear(lastReady + 1)'
    BY <1>1, <1>4 DEF SlotClear
  <2>4. QED
    BY <1>1, <1>4, <2>2, <2>3 DEF LateInv
<1>9. FenceInv'
  <2>1. Announced <= Announced' /\ Announced \in Nat /\ Announced' \in Nat
    BY <1>1, <1>3, <1>6 DEF Announced, NextReady
  <2>2. readyFence \in Nat
    BY DEF RingInv, TypeOK
  <2>3. QED
    BY <1>1, <2>1, <2>2 DEF RingInv, FenceInv
<1>10. QED
  BY <1>1, <1>5, <1>7, <1>8, <1>9 DEF RingInv, Core, HostInv, SlotInv

\* A publication: its number is one more than the last, its slot was cleared,
\* and at most SlotCount publications are then unconsumed.
LEMMA FinishPresentStep == ASSUME RingInv, TypeOK', FinishPresent PROVE Core'
<1>0. /\ lastReady \in Nat /\ consumedFence \in Nat /\ readyFence \in Nat
      /\ slotReady \in [Slots -> Nat] /\ SlotCount \in Nat \ {0}
  BY SlotCountAssumption DEF RingInv, TypeOK
<1>1. EndWrite /\ UNCHANGED <<unrecorded, readyFence, consumedFence, host, token, signalOk,
                             lastConsumed>>
  BY DEF FinishPresent, hostVars
<1>2. /\ pair # NoPair /\ pair' = NoPair /\ pair.frame.ready = lastReady + 1
      /\ SlotClear(lastReady + 1) /\ lastReady + 1 < FenceMax
      /\ Signal \in Commands /\ Signal.ready = lastReady + 1
  BY <1>1, EndWriteStep, PairCommands
<1>3. /\ lastReady' = lastReady + 1 /\ glq' = Append(glq, Signal)
      /\ slotReady' = [slotReady EXCEPT ![SlotOf(lastReady + 1)] = lastReady + 1]
  BY <1>2 DEF FinishPresent
<1>4. QueueInv' /\ OrderInv'
  BY <1>1, <1>2, <1>3, EnqueueStep
<1>5. LateInv' /\ FenceInv'
  <2>1. lastReady + 1 <= consumedFence + SlotCount
    BY <1>0, <1>2, ClearFits
  <2>2. \A n \in unrecorded : n \in Nat /\ 1 <= n /\ n <= lastReady + 1
    BY DEF RingInv, LateInv, TypeOK
  <2>3. lastReady' + 1 \notin unrecorded'
    BY <1>0, <1>1, <1>3, <2>2
  <2>4. Announced' = lastReady + 1
    BY <1>3, <2>3 DEF Announced, NextReady
  <2>5. readyFence <= lastReady + 1
    BY <1>0, AnnouncedNext DEF RingInv, FenceInv
  <2>6. FenceInv'
    BY <1>0, <1>1, <1>2, <1>3, <2>1, <2>4, <2>5 DEF RingInv, FenceInv
  <2>7. \A n \in unrecorded' : 1 <= n /\ n <= lastReady' + 1
    BY <1>0, <1>1, <1>3, <2>2
  <2>8. QED
    BY <2>3, <2>6, <2>7 DEF LateInv
<1>6. HostInv'
  BY <1>1 DEF RingInv, HostInv
<1>7. SlotInv'
  <2>1. SUFFICES ASSUME NEW r \in 1 .. lastReady + 1
                 PROVE  r <= slotReady'[SlotOf(r)]
    BY <1>3 DEF SlotInv
  <2>2. SlotOf(r) \in Slots /\ slotReady[SlotOf(r)] \in Nat
    BY <1>0, SlotOfType
  <2>3. CASE SlotOf(r) = SlotOf(lastReady + 1)
    BY <1>0, <1>3, <2>2, <2>3
  <2>4. CASE SlotOf(r) # SlotOf(lastReady + 1)
    <3>1. r \in 1 .. lastReady
      BY <1>0, <2>4
    <3>2. QED
      BY <1>3, <2>2, <2>4, <3>1 DEF RingInv, SlotInv
  <2>5. QED
    BY <2>3, <2>4
<1>8. PairInv'
  BY <1>2 DEF PairInv
<1>9. MetadataInv'
  <2>1. \A n \in unrecorded : n \in Nat /\ n <= lastReady + 1
    BY DEF RingInv, LateInv, TypeOK
  <2>2. lastReady' + 1 \notin unrecorded'
    BY <1>0, <1>1, <1>3, <2>1
  <2>3. \A r \in consumedFence' + 1 .. lastReady' :
           r \in (consumedFence + 1 .. lastReady) \cup {lastReady + 1}
    BY <1>0, <1>1, <1>3
  <2>4. \A r \in consumedFence' + 1 .. lastReady' :
           ~metadata'[SlotOf(r)].odd /\ metadata'[SlotOf(r)].frame.ready = r
    BY <1>1, <2>3, EndWriteStep
  <2>5. QED
    BY <2>2, <2>4 DEF MetadataInv
<1>10. QED
  BY <1>4, <1>5, <1>6, <1>7, <1>8, <1>9 DEF Core

\* What the context takes with it are commands from the end of the queue.
LEMMA DeleteContextStep == ASSUME RingInv, TypeOK', DeleteContext PROVE Core'
<1>1. /\ UNCHANGED <<lastReady, slotReady, unrecorded, readyFence, consumedFence, metadata,
                     host, token, signalOk, lastConsumed>>
      /\ pair' = NoPair /\ pair.phase # "writing"
  BY DEF DeleteContext, bridgeVars, hostVars
<1>2. PICK k \in 0 .. Len(glq) : glq' = SubSeq(glq, 1, k)
  BY DEF DeleteContext, Survivors
<1>3. glq \in Seq(Commands)
  BY DEF RingInv, TypeOK
<1>4. Len(glq') = k /\ k <= Len(glq) /\ \A i \in 1 .. k : glq'[i] = glq[i]
  BY <1>2, <1>3, SubSeqProperties
<1>5. QueueInv' /\ OrderInv'
  BY <1>1, <1>3, <1>4 DEF RingInv, QueueInv, OrderInv, Follows, SlotClear, Announced, NextReady
<1>6. PairInv' /\ MetadataInv'
  BY <1>1 DEF RingInv, PairInv, MetadataInv
<1>7. QED
  BY <1>1, <1>5, <1>6 DEF RingInv, Core, LateInv, SlotClear, Announced, NextReady, FenceInv,
                          HostInv, SlotInv

\* The ready fence moves up to a publication that everything still queued
\* follows.
LEMMA GpuExecuteStep == ASSUME RingInv, TypeOK', GpuExecute PROVE Core'
<1>1. UNCHANGED <<pair, lastReady, slotReady, unrecorded, consumedFence, metadata,
                  host, token, signalOk, lastConsumed>>
  BY DEF GpuExecute, gameVars, bridgeVars, hostVars
<1>2. glq \in Seq(Commands) /\ glq # <<>> /\ glq' = Tail(glq)
  BY DEF RingInv, TypeOK, GpuExecute
<1>3. /\ Len(glq) \in Nat \ {0} /\ Len(glq') = Len(glq) - 1
      /\ \A i \in 1 .. Len(glq') : glq'[i] = glq[i + 1]
      /\ \A i \in 1 .. Len(glq) : glq[i] \in Commands /\ glq[i].ready \in Nat
      /\ Head(glq) = glq[1]
  <2>1. /\ Len(glq) \in Nat \ {0} /\ Head(glq) = glq[1]
        /\ \A i \in 1 .. Len(glq) : glq[i] \in Commands
    BY <1>2
  <2>2. /\ Len(glq') = Len(glq) - 1
        /\ \A i \in 1 .. Len(glq') : glq'[i] = glq[i + 1]
    BY <1>2, HeadTailProperties
  <2>3. \A c \in Commands : c.ready \in Nat
    BY DEF Commands
  <2>4. QED
    BY <2>1, <2>2, <2>3
<1>4. readyFence' = IF IsSignal(glq[1]) THEN glq[1].ready ELSE readyFence
  BY <1>3 DEF GpuExecute
<1>5. readyFence \in Nat /\ lastReady \in Nat /\ consumedFence \in Nat /\ token \in Nat
  BY DEF RingInv, TypeOK
<1>6. readyFence <= readyFence' /\ readyFence' <= Announced /\ readyFence' \in Nat
  <2>1. Follows(readyFence, glq[1].ready) /\ (IsSignal(glq[1]) => glq[1].ready <= Announced)
    BY <1>3 DEF RingInv, QueueInv
  <2>2. readyFence <= glq[1].ready /\ glq[1].ready \in Nat
    BY <1>3, <1>5, <2>1 DEF Follows
  <2>3. QED
    BY <1>4, <1>5, <2>1, <2>2 DEF RingInv, FenceInv
<1>7. FenceInv' /\ HostInv'
  <2>1. Announced' = Announced
    BY <1>1 DEF Announced, NextReady
  <2>2. QED
    BY <1>1, <1>5, <1>6, <2>1 DEF RingInv, FenceInv, HostInv
<1>8. OrderInv'
  <2>1. SUFFICES ASSUME NEW i \in 1 .. Len(glq'), NEW j \in 1 .. Len(glq'),
                        i < j, IsSignal(glq'[i])
                 PROVE  Follows(glq[i].ready, glq[j].ready)'
    BY DEF OrderInv
  <2>2. /\ i + 1 \in 1 .. Len(glq) /\ glq'[i] = glq[i + 1]
        /\ j + 1 \in 1 .. Len(glq) /\ glq'[j] = glq[j + 1]
        /\ i + 1 < j + 1
    BY <1>3, <2>1
  <2>3. QED
    BY <1>1, <2>1, <2>2 DEF RingInv, OrderInv, Follows
<1>9. QueueInv'
  <2>1. SUFFICES ASSUME NEW i \in 1 .. Len(glq')
                 PROVE  /\ Follows(readyFence, glq[i].ready)' /\ glq'[i].ready <= lastReady + 1
                        /\ IsSignal(glq'[i]) => glq'[i].ready <= Announced
                        /\ SlotClear(glq'[i].ready)
    BY <1>1 DEF QueueInv, SlotClear, Announced, NextReady
  <2>2. i + 1 \in 1 .. Len(glq) /\ glq'[i] = glq[i + 1]
    BY <1>3
  <2>3. CASE IsSignal(glq[1])
    <3>1. Follows(glq[1].ready, glq[i + 1].ready)
      BY <1>3, <2>2, <2>3 DEF RingInv, OrderInv
    <3>2. Follows(readyFence, glq[i].ready)'
      BY <1>1, <1>4, <2>2, <2>3, <3>1 DEF Follows
    <3>3. QED
      BY <2>2, <3>2 DEF RingInv, QueueInv
  <2>4. CASE ~IsSignal(glq[1])
    <3>1. Follows(readyFence, glq[i].ready)'
      BY <1>1, <1>4, <2>2, <2>4 DEF RingInv, QueueInv, Follows
    <3>2. QED
      BY <2>2, <3>1 DEF RingInv, QueueInv
  <2>5. QED
    BY <2>3, <2>4
<1>10. QED
  BY <1>1, <1>7, <1>8, <1>9 DEF RingInv, Core, LateInv, SlotInv, PairInv, MetadataInv, SlotClear

-----------------------------------------------------------------------------
(* The host's steps. *)

\* The steps that do not consume: the fences and the game's side stay.
LEMMA HostStep ==
  ASSUME RingInv, HostInv',
         UNCHANGED <<pair, lastReady, slotReady, unrecorded, glq, readyFence, consumedFence,
                     metadata>>
  PROVE  Core'
  BY DEF RingInv, Core, LateInv, Announced, NextReady, FenceInv, SlotInv, PairInv, QueueInv,
         OrderInv, Follows, MetadataInv, SlotClear

\* The acknowledgement moves the consumed fence forward, to a published value.
LEMMA HostRetireStep == ASSUME RingInv, TypeOK', HostRetire PROVE Core'
<1>1. UNCHANGED <<pair, lastReady, slotReady, unrecorded, glq, readyFence, metadata,
                  lastConsumed>>
  BY DEF HostRetire, gameVars, bridgeVars
<1>2. /\ consumedFence \in Nat /\ readyFence \in Nat /\ token \in Nat
      /\ lastReady \in Nat /\ SlotCount \in Nat
  BY SlotCountAssumption DEF RingInv, TypeOK
<1>3. /\ consumedFence' = IF signalOk THEN token ELSE consumedFence
      /\ host = "copied" /\ host' = "idle"
  BY DEF HostRetire, Acknowledge, EndFrame
<1>4. consumedFence < token /\ token <= readyFence
      /\ lastConsumed = IF signalOk THEN token ELSE consumedFence
  BY <1>3 DEF RingInv, HostInv
<1>5. consumedFence' \in Nat /\ consumedFence <= consumedFence'
  BY <1>2, <1>3, <1>4
<1>6. \A n \in Nat : SlotClear(n) => SlotClear(n)'
  BY <1>2, <1>5 DEF SlotClear
<1>7. LateInv' /\ FenceInv'
  <2>1. Announced' = Announced /\ lastReady + 1 \in Nat
    BY <1>1, <1>2 DEF Announced, NextReady
  <2>2. FenceInv'
    BY <1>1, <1>2, <1>3, <1>4, <1>5, <2>1 DEF RingInv, FenceInv
  <2>3. LateInv'
    BY <1>1, <1>6, <2>1 DEF RingInv, LateInv
  <2>4. QED
    BY <2>2, <2>3
<1>8. HostInv'
  BY <1>1, <1>3, <1>4 DEF HostInv
<1>9. PairInv'
  BY <1>1, <1>2, <1>6 DEF RingInv, PairInv
<1>10. QueueInv'
  <2>1. \A i \in 1 .. Len(glq) : glq[i] \in Commands
    BY ElementOfSeq DEF RingInv, TypeOK
  <2>2. \A c \in Commands : c.ready \in Nat
    BY DEF Commands
  <2>3. QED
    BY <1>1, <1>6, <2>1, <2>2 DEF RingInv, QueueInv, Follows, Announced, NextReady
<1>11. MetadataInv'
  <2>1. SUFFICES ASSUME NEW r \in consumedFence' + 1 .. lastReady
                 PROVE  ~metadata[SlotOf(r)].odd /\ metadata[SlotOf(r)].frame.ready = r
    BY <1>1 DEF RingInv, MetadataInv
  <2>2. \A n \in Nat : consumedFence <= n /\ r \in n + 1 .. lastReady
                         => r \in consumedFence + 1 .. lastReady
    BY <1>2
  <2>3. r \in consumedFence + 1 .. lastReady
    BY <1>5, <2>2
  <2>4. QED
    BY <2>3 DEF RingInv, MetadataInv
<1>12. QED
  BY <1>1, <1>7, <1>8, <1>9, <1>10, <1>11 DEF RingInv, Core, SlotInv, OrderInv, Follows

\* Every step of the host's frame loop keeps the core.
LEMMA HostCore == ASSUME RingInv, TypeOK', Host PROVE Core'
<1> USE DEF othersThanHost, gameVars, bridgeVars, gpuVars
<1>0. /\ consumedFence \in Nat /\ readyFence \in Nat
      /\ lastReady \in Nat /\ FenceMax \in Nat
  BY FenceMaxAssumption DEF RingInv, TypeOK
<1>1. CASE HostOpen
  BY <1>1, HostStep DEF HostOpen, HostInv
<1>2. CASE HostPoll
  <2>1. token' = readyFence /\ lastConsumed < token'
    BY <1>0, <1>2 DEF HostPoll, HasNew, IsUsable, Completed, RingInv, TypeOK
  <2>2. HostInv'
    BY <1>0, <1>2, <2>1 DEF HostPoll, HostInv, RingInv
  <2>3. QED
    BY <1>2, <2>2, HostStep DEF HostPoll
<1>3. CASE HostPollFails
  BY <1>3, HostStep DEF HostPollFails, HostInv
<1>4. CASE HostReadMetadata
  <2>1. HostInv'
    BY <1>4 DEF HostReadMetadata, EndFrame, HostInv, RingInv
  <2>2. QED
    BY <1>4, <2>1, HostStep DEF HostReadMetadata
<1>5. CASE HostSkipFrame
  <2>1. HostInv'
    BY <1>5 DEF HostSkipFrame, EndFrame, HostInv, RingInv
  <2>2. QED
    BY <1>5, <2>1, HostStep DEF HostSkipFrame
<1>6. CASE HostSubmit
  <2>1. HostInv'
    BY <1>6 DEF HostSubmit, HostInv, RingInv
  <2>2. QED
    BY <1>6, <2>1, HostStep DEF HostSubmit
<1>7. CASE HostCopy
  <2>1. HostInv'
    BY <1>7 DEF HostCopy, HostInv, RingInv
  <2>2. QED
    BY <1>7, <2>1, HostStep DEF HostCopy
<1>8. CASE HostRetire
  BY <1>8, HostRetireStep
<1>9. CASE HostFails
  <2>1. HostInv'
    BY <1>9 DEF HostFails, HostInv, RingInv
  <2>2. QED
    BY <1>9, <2>1, HostStep DEF HostFails
<1>10. QED
  BY <1>1, <1>2, <1>3, <1>4, <1>5, <1>6, <1>7, <1>8, <1>9 DEF Host

\* Every step of the render thread keeps the core.
LEMMA GameCore == ASSUME RingInv, TypeOK', Game PROVE Core'
<1>0. Core
  BY DEF RingInv, Core
<1> USE DEF coreVars, gameVars, bridgeVars, gpuVars, hostVars
<1>1. CASE BeginPairExhausted
  BY <1>0, <1>1, QuietStep DEF BeginPairExhausted
<1>2. CASE BeginPairSkipped
  BY <1>0, <1>2, QuietStep DEF BeginPairSkipped
<1>3. CASE BeginPairWaitFails
  BY <1>0, <1>3, QuietStep DEF BeginPairWaitFails
<1>4. CASE BeginPair
  BY <1>4, BeginPairStep
<1>5. CASE RenderEye
  BY <1>5, RenderEyeStep
<1>6. CASE EndPair
  <2>1. /\ pair' = NoPair \/ (pair # NoPair /\ pair'.frame.ready = pair.frame.ready)
        /\ pair.phase # "writing"
    BY <1>6 DEF EndPair, NoPair, RingInv, TypeOK, Pairs
  <2>2. QED
    BY <1>6, <2>1, PairStep DEF EndPair
<1>7. CASE BeginHud
  <2>1. pair # NoPair /\ pair'.frame.ready = pair.frame.ready /\ pair.phase # "writing"
    BY <1>7 DEF BeginHud, NoPair, RingInv, TypeOK, Pairs
  <2>2. QED
    BY <1>7, <2>1, PairStep DEF BeginHud
<1>8. CASE BeginPresent
  BY <1>8, BeginPresentStep
<1>9. CASE FinishPresent
  BY <1>9, FinishPresentStep
<1>10. CASE FinishPresentFails
  BY <1>10, FinishPresentFailsStep
<1>11. CASE RecoverContext
  BY <1>0, <1>11, QuietStep DEF RecoverContext
<1>12. QED
  BY <1>1, <1>2, <1>3, <1>4, <1>5, <1>6, <1>7, <1>8, <1>9, <1>10, <1>11 DEF Game

\* Every step of the GPU, the driver and the clock keeps the core.
LEMMA EnvironmentCore == ASSUME RingInv, TypeOK', Environment PROVE Core'
<1>0. Core
  BY DEF RingInv, Core
<1> USE DEF coreVars, gameVars, bridgeVars, gpuVars, hostVars
<1>1. CASE DeleteContext
  BY <1>1, DeleteContextStep
<1>2. CASE RemoveDevice
  BY <1>0, <1>2, QuietStep DEF RemoveDevice
<1>3. CASE WorldTimeout
  BY <1>0, <1>3, QuietStep DEF WorldTimeout
<1>4. CASE GpuExecute
  BY <1>4, GpuExecuteStep
<1>5. QED
  BY <1>1, <1>2, <1>3, <1>4 DEF Environment

-----------------------------------------------------------------------------
(* The theorems. *)

\* Every step keeps the core.
LEMMA NextCore == ASSUME RingInv, TypeOK', [Next]_vars PROVE Core'
<1>1. CASE Next
  BY <1>1, GameCore, HostCore, EnvironmentCore DEF Next
<1>2. CASE UNCHANGED vars
  BY <1>2, QuietStep DEF vars, gameVars, bridgeVars, gpuVars, hostVars, coreVars, RingInv, Core
<1>3. QED
  BY <1>1, <1>2

\* The inductive invariant holds in every reachable state.
THEOREM RingInvariant == Spec => []RingInv
<1>1. RingInv <=> TypeOK /\ Core
  BY DEF RingInv, Core
<1>2. Init => RingInv
  BY <1>1, InitType, InitCore
<1>3. RingInv /\ TypeOK' /\ [Next]_vars => RingInv'
  BY NextCore DEF RingInv, Core
<1>4. QED
  BY <1>2, <1>3, TypeCorrect, PTL DEF Spec

\* What the host holds is announced and not consumed.
LEMMA TokenAnnounced ==
  ASSUME RingInv, host \in {"polled", "candidate", "copying", "copied"}
  PROVE  /\ consumedFence < token /\ token <= readyFence
         /\ \/ token \in consumedFence + 1 .. lastReady
            \/ token = lastReady + 1 /\ token \in unrecorded
<1>1. /\ consumedFence < token /\ token <= readyFence /\ readyFence <= Announced
      /\ token \in Nat /\ consumedFence \in Nat /\ readyFence \in Nat
  BY DEF RingInv, TypeOK, HostInv, FenceInv
<1>2. TypeOK
  BY DEF RingInv
<1>3. QED
  BY <1>1, <1>2, AnnouncedNext

\* The producer touches the slot whose metadata or pixels the host reads only to
\* issue the same number again.
THEOREM SlotsExclusive == Spec => []SlotExclusion
<1>1. RingInv => SlotExclusion
  <2> SUFFICES ASSUME RingInv, Holding PROVE SlotExclusion
    BY DEF SlotExclusion
  <2>1. /\ consumedFence < token /\ token <= readyFence
        /\ token \in Nat /\ consumedFence \in Nat /\ readyFence \in Nat /\ lastReady \in Nat
    BY TokenAnnounced DEF RingInv, TypeOK, Holding
  <2>2. ASSUME NEW n \in Nat, Follows(readyFence, n), SlotClear(n)
        PROVE  SlotOf(n) # SlotOf(token) \/ Reissues(n)
    <3>1. CASE token < n
      BY <2>1, <2>2, <3>1 DEF SlotClear
    <3>2. CASE token = n
      BY <2>1, <2>2, <3>2 DEF Follows, Reissues
    <3>3. QED
      BY <2>1, <2>2, <3>1, <3>2 DEF Follows
  <2>3. ASSUME NEW i \in 1 .. Len(glq)
        PROVE  SlotOf(glq[i].ready) # SlotOf(token) \/ Reissues(glq[i].ready)
    <3>1. glq[i] \in Commands
      BY ElementOfSeq DEF RingInv, TypeOK
    <3>2. glq[i].ready \in Nat /\ Follows(readyFence, glq[i].ready) /\ SlotClear(glq[i].ready)
      BY <3>1 DEF RingInv, QueueInv, Commands
    <3>3. QED
      BY <2>2, <3>2
  <2>4. ASSUME pair # NoPair
        PROVE  SlotOf(pair.frame.ready) # SlotOf(token) \/ Reissues(pair.frame.ready)
    <3>1. pair.frame.ready = lastReady + 1 /\ SlotClear(lastReady + 1)
      BY <2>4, PairCommands
    <3>2. Follows(readyFence, lastReady + 1)
      BY <2>1, AnnouncedNext DEF RingInv, FenceInv, Follows
    <3>3. QED
      BY <2>1, <2>2, <3>1, <3>2
  <2>5. QED
    BY <2>3, <2>4 DEF SlotExclusion
<1>2. QED
  BY <1>1, RingInvariant, PTL

\* The bounds follow from the invariant, the slot of a number signalled and not
\* recorded being clear.
LEMMA RingFits == ASSUME RingInv PROVE RingBounded
<1>1. /\ TypeOK /\ consumedFence \in Nat /\ lastReady \in Nat /\ SlotCount \in Nat
      /\ lastReady < FenceMax /\ lastReady <= consumedFence + SlotCount
  BY SlotCountAssumption DEF RingInv, TypeOK, FenceInv
<1>2. Announced < FenceMax /\ Announced <= consumedFence + SlotCount
  <2>1. CASE lastReady + 1 \in unrecorded
    <3>1. lastReady + 1 < FenceMax /\ SlotClear(lastReady + 1) /\ lastReady + 1 \in Nat
      BY <1>1, <2>1 DEF RingInv, LateInv
    <3>2. QED
      BY <1>1, <2>1, <3>1, ClearFits, AnnouncedNext
  <2>2. CASE lastReady + 1 \notin unrecorded
    BY <1>1, <2>2, AnnouncedNext
  <2>3. QED
    BY <2>1, <2>2
<1>3. QED
  BY <1>2 DEF RingInv, FenceInv, HostInv, RingBounded

\* The ring is never overrun, not even by what the producer does not know it has
\* announced, and the two sides agree on what is consumed.
THEOREM RingIsBounded == Spec => []RingBounded
  BY RingFits, RingInvariant, PTL

\* The metadata of a frame is complete before its number can be polled, and stays
\* so unless the same number is being written again.
THEOREM PolledFramesReadable == Spec => []PolledFrameReadable
<1>1. RingInv => PolledFrameReadable
  <2> SUFFICES ASSUME RingInv, host = "polled", ~Readable
               PROVE  pair.phase = "writing" /\ Reissues(pair.frame.ready)
    BY DEF PolledFrameReadable
  <2>1. token = lastReady + 1 /\ token \in unrecorded
    <3>1. CASE token \in consumedFence + 1 .. lastReady
      BY <3>1 DEF RingInv, MetadataInv, Readable
    <3>2. QED
      BY <3>1, TokenAnnounced
  <2>2. pair.phase = "writing"
    BY <2>1 DEF RingInv, MetadataInv, Readable
  <2>3. pair # NoPair
    BY <2>2 DEF NoPair
  <2>4. QED
    BY <2>1, <2>2, <2>3, PairCommands DEF Reissues
<1>2. QED
  BY <1>1, RingInvariant, PTL

\* No signal moves a fence backwards: the game's GPU signals in the order of
\* publication and the host acknowledges only what is newer.
THEOREM FencesNeverRetreat == Spec => FencesMonotone
<1> DEFINE Advance == readyFence' >= readyFence /\ consumedFence' >= consumedFence
<1>1. ASSUME RingInv, [Next]_vars PROVE [Advance]_vars
  <2>0. readyFence \in Nat /\ consumedFence \in Nat /\ token \in Nat
    BY <1>1 DEF RingInv, TypeOK
  <2>1. CASE GpuExecute
    <3>1. glq \in Seq(Commands) /\ glq # <<>> /\ Head(glq) = glq[1]
      BY <1>1, <2>1 DEF RingInv, TypeOK, GpuExecute
    <3>2. readyFence <= Head(glq).ready /\ Head(glq).ready \in Nat
      <4>1. glq[1] \in Commands /\ 1 \in 1 .. Len(glq)
        BY <3>1
      <4>2. QED
        BY <1>1, <2>0, <3>1, <4>1 DEF RingInv, QueueInv, Follows, Commands
    <3>3. QED
      BY <2>0, <2>1, <3>2 DEF GpuExecute
  <2>2. CASE HostRetire
    BY <1>1, <2>0, <2>2 DEF HostRetire, Acknowledge, RingInv, HostInv
  <2>3. CASE Next /\ ~GpuExecute /\ ~HostRetire
    <3>1. UNCHANGED <<readyFence, consumedFence>>
      <4> USE DEF gpuVars, othersThanHost
      <4>1. CASE Game
        BY <4>1 DEF Game, BeginPairExhausted, BeginPairSkipped, BeginPairWaitFails,
                    BeginPair, RenderEye, EndPair, BeginHud, BeginPresent, FinishPresent,
                    FinishPresentFails, RecoverContext
      <4>2. CASE Host
        BY <2>3, <4>2 DEF Host, HostOpen, HostPoll, HostPollFails, HostReadMetadata,
                    HostSkipFrame, HostSubmit, HostCopy, HostFails
      <4>3. CASE Environment
        BY <2>3, <4>3 DEF Environment, DeleteContext, RemoveDevice, WorldTimeout
      <4>4. QED
        BY <2>3, <4>1, <4>2, <4>3 DEF Next
    <3>2. QED
      BY <2>0, <3>1
  <2>4. QED
    BY <1>1, <2>1, <2>2, <2>3
<1>2. QED
  BY <1>1, RingInvariant, PTL DEF Spec, FencesMonotone

-----------------------------------------------------------------------------
(* The reset flag on the producer's side. *)

\* No pair outlives its context, and a pair begun after a recovery carries the
\* flag.
ResetInv ==
    /\ context # "live" => pair = NoPair
    /\ pair # NoPair /\ resetHistory => pair.frame.reset

\* No step loses the reset flag: a pair begun under it carries it.
LEMMA ResetStep == ASSUME RingInv, ResetInv, [Next]_vars PROVE ResetInv'
<1> USE DEF ResetInv
<1>0. pair \in Pairs /\ pair.frame \in Frames /\ resetHistory \in BOOLEAN
  BY DEF RingInv, TypeOK, Pairs
<1>1. CASE BeginPair
  <2>1. pair'.frame = NewFrame /\ context = "live" /\ UNCHANGED <<context, resetHistory>>
    BY <1>1 DEF BeginPair, WorldCall, NoPair
  <2>2. QED
    BY <2>1 DEF NewFrame
<1>2. CASE RenderEye \/ BeginHud
  <2>1. pair # NoPair /\ UNCHANGED <<context, resetHistory>>
    <3>1. pair.phase # "idle" /\ UNCHANGED <<context, resetHistory>>
      BY <1>2 DEF RenderEye, BeginHud
    <3>2. QED
      BY <3>1 DEF NoPair
  <2>2. pair'.frame = pair.frame
    BY <1>0, <1>2 DEF RenderEye, BeginHud, Pairs
  <2>3. QED
    BY <2>1, <2>2
<1>3. CASE EndPair
  <2>1. pair # NoPair /\ UNCHANGED <<context, resetHistory>>
    BY <1>3 DEF EndPair, NoPair
  <2>2. pair' = NoPair \/ pair'.frame = pair.frame
    BY <1>0, <1>3 DEF EndPair, Pairs
  <2>3. QED
    BY <2>1, <2>2
<1>4. CASE BeginPresent
  <2>1. pair.phase = "awaiting" /\ UNCHANGED <<context, resetHistory>>
    BY <1>4 DEF BeginPresent
  <2>2. pair # NoPair
    BY <2>1 DEF NoPair
  <2>3. pair' = NoPair \/ pair'.frame.reset = pair.frame.reset
    <3>1. \/ pair' = NoPair
          \/ \E drawn \in BOOLEAN :
               pair' = [pair EXCEPT !.phase = "writing", !.frame.hud = drawn]
      BY <1>4 DEF BeginPresent
    <3>2. ASSUME NEW drawn \in BOOLEAN,
                 pair' = [pair EXCEPT !.phase = "writing", !.frame.hud = drawn]
          PROVE  pair'.frame.reset = pair.frame.reset
      <4>1. pair'.frame = [pair.frame EXCEPT !.hud = drawn]
        BY <1>0, <3>2 DEF Pairs
      <4>2. QED
        BY <1>0, <4>1 DEF Frames
    <3>3. QED
      BY <3>1, <3>2
  <2>4. QED
    BY <2>1, <2>2, <2>3
<1>5. CASE FinishPresent \/ FinishPresentFails \/ DeleteContext
  <2>1. pair' = NoPair
    BY <1>5 DEF FinishPresent, FinishPresentFails, EndWrite, DeleteContext
  <2>2. QED
    BY <2>1
<1>6. CASE RecoverContext
  BY <1>6 DEF RecoverContext
<1>7. CASE BeginPairExhausted \/ BeginPairSkipped \/ BeginPairWaitFails
  <2>1. UNCHANGED <<pair, resetHistory, context>>
    BY <1>7 DEF BeginPairExhausted, BeginPairSkipped, BeginPairWaitFails, gameVars
  <2>2. QED
    BY <2>1
<1>8. CASE Host \/ RemoveDevice \/ WorldTimeout \/ GpuExecute \/ UNCHANGED vars
  <2>1. UNCHANGED gameVars
    BY <1>8 DEF Host, HostOpen, HostPoll, HostPollFails, HostReadMetadata, HostSkipFrame,
                HostSubmit, HostCopy, HostRetire, HostFails, othersThanHost,
                RemoveDevice, WorldTimeout, GpuExecute, vars
  <2>2. QED
    BY <2>1 DEF gameVars
<1>9. QED
  BY <1>1, <1>2, <1>3, <1>4, <1>5, <1>6, <1>7, <1>8 DEF Next, Game, Environment

\* After a recovery the flag survives skipped, aborted and failed pairs until
\* a frame that carries it is published.
THEOREM ResetIsPublished == Spec => ResetPublished
<1> DEFINE Published ==
      resetHistory /\ ~resetHistory' =>
         /\ lastReady' = lastReady + 1
         /\ metadata'[SlotOf(lastReady')].frame.reset
<1>1. Init => ResetInv
  BY DEF Init, ResetInv
<1>2. ASSUME RingInv, ResetInv, [Next]_vars PROVE [Published]_vars
  <2>1. CASE FinishPresent
    <3>1. pair # NoPair
      BY <2>1 DEF FinishPresent, EndWrite, NoPair
    <3>2. pair.frame.ready = lastReady + 1
      BY <1>2, <3>1, PairCommands
    <3>3. /\ lastReady' = lastReady + 1
          /\ metadata' = [metadata EXCEPT ![SlotOf(lastReady')] =
                            [odd |-> FALSE, frame |-> pair.frame]]
      BY <2>1, <3>2 DEF FinishPresent, EndWrite
    <3>4. SlotOf(lastReady') \in DOMAIN metadata
      BY <1>2, <3>3, SlotOfType DEF RingInv, TypeOK
    <3>5. QED
      BY <1>2, <3>1, <3>3, <3>4 DEF ResetInv
  <2>2. CASE RecoverContext
    BY <2>2 DEF RecoverContext
  <2>3. CASE Game /\ ~FinishPresent /\ ~RecoverContext
    BY <2>3 DEF Game, BeginPairExhausted, BeginPairSkipped, BeginPairWaitFails, gameVars,
                BeginPair, RenderEye, EndPair, BeginHud, BeginPresent, FinishPresentFails
  <2>4. CASE Host \/ Environment \/ UNCHANGED vars
    <3>1. UNCHANGED resetHistory
      BY <2>4 DEF Host, HostOpen, HostPoll, HostPollFails, HostReadMetadata, HostSkipFrame,
                HostSubmit, HostCopy, HostRetire, HostFails, othersThanHost, gameVars,
                Environment, DeleteContext, RemoveDevice, WorldTimeout, GpuExecute, vars
    <3>2. QED
      BY <3>1
  <2>5. QED
    BY <1>2, <2>1, <2>2, <2>3, <2>4 DEF Next
<1>3. RingInv /\ ResetInv /\ [Next]_vars => ResetInv'
  BY ResetStep
<1>4. QED
  BY <1>1, <1>2, <1>3, RingInvariant, PTL DEF Spec, ResetPublished

-----------------------------------------------------------------------------
(* The producer's bookkeeping and the checks of the bridge. *)

\* Without faults the producer's books agree with the bridge's, and a slot that has been
\* published and is not the pair's has not been waited for since.
BooksAgree ==
    /\ context = "live" /\ ~removed
    /\ slotSignalled = slotReady /\ lastSignal = lastReady
    /\ \A s \in Slots : slotWaited[s] <= slotReady[s] /\ slotReady[s] <= lastReady
    /\ \A s \in Slots : slotReady[s] # 0 =>
          IF pair # NoPair /\ s = SlotOf(pair.frame.ready)
          THEN slotWaited[s] = slotReady[s]
          ELSE slotWaited[s] < slotReady[s]

\* Without aborts every eye that was rendered was captured.
AllCaptured == pair # NoPair => pair.captured = {e \in Eyes : e < pair.eye}

CauseInv ==
    /\ AllCaptured
    /\ faults = 0 => BooksAgree
    /\ FailsOnlyForCause

bookVars == <<pair, context, removed, slotSignalled, slotReady, slotWaited, lastSignal,
              lastReady, failed, faults>>

\* A step that touches no book keeps the invariant.
LEMMA CauseQuiet == ASSUME CauseInv, UNCHANGED bookVars PROVE CauseInv'
  BY DEF bookVars, CauseInv, AllCaptured, BooksAgree, FailsOnlyForCause

\* With the books in order, WaitConsumed accepts a slot that is free for the producer.
LEMMA WaitIsAccepted ==
  ASSUME RingInv, BooksAgree, pair = NoPair, SlotFree, slotReady[NextSlot] # 0
  PROVE  WaitAccepted(NextSlot, slotReady[NextSlot])
<1> DEFINE value == slotReady[NextSlot]
<1>1. NextSlot \in Slots
  BY SlotOfType DEF NextSlot, NextReady, RingInv, TypeOK
<1>2. /\ value \in Nat /\ consumedFence \in Nat /\ lastReady \in Nat /\ FenceMax \in Nat
      /\ slotWaited[NextSlot] \in Nat
  BY <1>1, FenceMaxAssumption DEF RingInv, TypeOK
<1>3. value <= lastReady /\ lastReady < FenceMax /\ slotWaited[NextSlot] < value
  BY <1>1 DEF RingInv, FenceInv, BooksAgree
<1>4. value = slotSignalled[NextSlot] /\ consumedFence >= value /\ ~removed
  BY DEF BooksAgree, SlotFree, CanReuse
<1>5. QED
  BY <1>2, <1>3, <1>4 DEF WaitAccepted, CanOperate

\* With the books in order, SignalReady accepts the pair's publication.
LEMMA SignalIsAccepted ==
  ASSUME RingInv, BooksAgree, pair # NoPair
  PROVE  SignalAccepted(SlotOf(pair.frame.ready), pair.frame.ready)
<1> DEFINE slot == SlotOf(pair.frame.ready)
<1>1. pair.frame.ready = lastReady + 1 /\ lastReady + 1 < FenceMax
  BY PairCommands
<1>2. lastReady \in Nat /\ FenceMax \in Nat
  BY FenceMaxAssumption DEF RingInv, TypeOK
<1>3. slot \in Slots
  BY <1>1, <1>2, SlotOfType
<1>4. slotReady[slot] \in Nat /\ slotWaited[slot] \in Nat /\ slotSignalled[slot] = slotReady[slot]
  BY <1>3 DEF RingInv, TypeOK, BooksAgree
<1>5. slotReady[slot] # 0 => slotWaited[slot] = slotReady[slot]
  BY <1>3 DEF BooksAgree
<1>6. lastSignal = lastReady
  BY DEF BooksAgree
<1>7. QED
  BY <1>1, <1>2, <1>4, <1>5, <1>6 DEF SignalAccepted, CanOperate

\* A step that publishes nothing and keeps the pair's number leaves the books in order.
LEMMA PairKeepsBooks ==
  ASSUME BooksAgree, pair # NoPair, pair' # NoPair, pair'.frame.ready = pair.frame.ready,
         UNCHANGED <<context, removed, slotSignalled, slotReady, slotWaited, lastSignal,
                     lastReady>>
  PROVE  BooksAgree'
  BY DEF BooksAgree

\* The steps of the render thread keep the invariant as long as no pair is aborted.
LEMMA GameCause ==
  ASSUME ~AllowAbort, RingInv, CauseInv, TypeOK', Game
  PROVE  CauseInv'
<1>0. /\ pair \in Pairs /\ pair.frame \in Frames /\ faults \in Nat /\ lastReady \in Nat
      /\ slotReady \in [Slots -> Nat] /\ slotWaited \in [Slots -> Nat]
      /\ slotSignalled \in [Slots -> Nat] /\ consumedFence \in Nat
  BY DEF RingInv, TypeOK, Pairs
<1>1. CASE BeginPairExhausted
  <2>1. /\ UNCHANGED <<pair, context, removed, slotSignalled, slotReady, slotWaited,
                       lastSignal, lastReady, faults>>
        /\ Exhausted
    BY <1>1 DEF BeginPairExhausted, bridgeVars, gpuVars, boundVars
  <2>2. faults > 0 \/ lastReady >= FenceMax - 1
    <3>1. CASE faults = 0
      <4>1. ~removed /\ consumedFence < FenceMax
        <5>1. ~removed
          BY <3>1 DEF CauseInv, BooksAgree
        <5>2. /\ consumedFence <= readyFence /\ readyFence <= Announced /\ Announced < FenceMax
              /\ readyFence \in Nat /\ TypeOK
          BY RingFits DEF RingBounded, RingInv, TypeOK
        <5>3. QED
          BY <1>0, <5>1, <5>2, AnnouncedNext, FenceMaxAssumption
      <4>2. Completed(consumedFence) # FenceMax
        BY <1>0, <4>1, FenceMaxAssumption DEF Completed
      <4>3. QED
        BY <2>1, <4>2 DEF Exhausted
    <3>2. QED
      BY <1>0, <3>1
  <2>3. FailsOnlyForCause'
    BY <2>1, <2>2 DEF FailsOnlyForCause
  <2>4. QED
    BY <2>1, <2>3 DEF CauseInv, AllCaptured, BooksAgree
<1>2. CASE BeginPairSkipped
  BY <1>2, CauseQuiet DEF BeginPairSkipped, bookVars, gameVars, bridgeVars, gpuVars, boundVars
<1>3. CASE BeginPairWaitFails
  <2>1. UNCHANGED pair /\ pair = NoPair /\ SlotFree /\ slotReady[NextSlot] # 0
    BY <1>3 DEF BeginPairWaitFails, WorldCall
  <2>2. faults' > 0
    <3>1. CASE WaitAccepted(NextSlot, slotReady[NextSlot])
      BY <1>0, <1>3, <3>1 DEF BeginPairWaitFails
    <3>2. CASE ~WaitAccepted(NextSlot, slotReady[NextSlot])
      <4>1. faults' = faults /\ faults # 0
        BY <1>3, <2>1, <3>2, WaitIsAccepted DEF BeginPairWaitFails, CauseInv
      <4>2. QED
        BY <1>0, <4>1
    <3>3. QED
      BY <3>1, <3>2
  <2>3. QED
    BY <2>1, <2>2 DEF CauseInv, AllCaptured, FailsOnlyForCause
<1>4. CASE BeginPair
  <2>1. /\ UNCHANGED <<context, removed, slotSignalled, slotReady, lastSignal, lastReady,
                       failed, faults>>
        /\ pair = NoPair /\ Reacquire(NextSlot)
    BY <1>4 DEF BeginPair, WorldCall, gpuVars
  <2>2. pair'.frame.ready = NextReady /\ pair'.eye = 0 /\ pair'.captured = {} /\ pair' # NoPair
    BY <1>4 DEF BeginPair, NewFrame, NoPair
  <2>3. AllCaptured'
    BY <2>2 DEF AllCaptured, Eyes
  <2>4. ASSUME faults = 0  PROVE BooksAgree'
    <3>1. NextSlot \in Slots
      BY <1>0, SlotOfType DEF NextSlot, NextReady
    <3>2. \A s \in Slots : slotWaited'[s] =
             IF s = NextSlot /\ slotReady[s] # 0 THEN slotReady[s] ELSE slotWaited[s]
      BY <1>0, <2>1, <3>1 DEF Reacquire
    <3>3. \A s \in Slots : slotWaited'[s] <= slotReady[s]
      BY <1>0, <2>4, <3>2 DEF CauseInv, BooksAgree
    <3>4. \A s \in Slots : slotReady[s] # 0 =>
             IF s = NextSlot THEN slotWaited'[s] = slotReady[s] ELSE slotWaited'[s] < slotReady[s]
      BY <2>1, <2>4, <3>2 DEF CauseInv, BooksAgree
    <3>5. SlotOf(pair'.frame.ready) = NextSlot
      BY <2>2 DEF NextSlot
    <3>6. QED
      BY <2>1, <2>2, <2>4, <3>3, <3>4, <3>5 DEF CauseInv, BooksAgree
  <2>5. QED
    BY <2>1, <2>3, <2>4 DEF CauseInv, FailsOnlyForCause
<1>5. CASE RenderEye
  <2>1. /\ UNCHANGED <<context, removed, slotSignalled, slotReady, slotWaited, lastSignal,
                       lastReady, failed, faults>>
        /\ pair.phase = "active" /\ pair.eye < 2
        /\ pair' = [pair EXCEPT !.eye = pair.eye + 1, !.captured = @ \cup {pair.eye}]
    BY <1>5 DEF RenderEye, EyesLeft, bridgeVars, boundVars
  <2>2. pair # NoPair /\ pair' # NoPair /\ pair'.frame = pair.frame
    <3>1. pair'.phase = "active" /\ pair'.frame = pair.frame
      BY <1>0, <2>1 DEF Pairs
    <3>2. NoPair.phase = "idle"
      BY DEF NoPair
    <3>3. QED
      BY <2>1, <3>1, <3>2
  <2>3. AllCaptured'
    <3>1. pair.eye \in {0, 1} /\ pair'.eye = pair.eye + 1
          /\ pair'.captured = pair.captured \cup {pair.eye}
      BY <1>0, <2>1 DEF Pairs
    <3>2. pair.captured = {e \in Eyes : e < pair.eye}
      BY <2>2 DEF CauseInv, AllCaptured
    <3>3. {e \in Eyes : e < pair.eye} \cup {pair.eye} = {e \in Eyes : e < pair.eye + 1}
      BY <3>1 DEF Eyes
    <3>4. QED
      BY <3>1, <3>2, <3>3 DEF AllCaptured
  <2>4. QED
    BY <2>1, <2>2, <2>3, PairKeepsBooks DEF CauseInv, FailsOnlyForCause
<1>6. CASE EndPair \/ BeginHud
  <2>1. UNCHANGED <<context, removed, slotSignalled, slotReady, slotWaited, lastSignal,
                    lastReady, failed, faults>>
    BY <1>6 DEF EndPair, BeginHud, bridgeVars, gpuVars, boundVars
  <2>2. pair # NoPair
    BY <1>6 DEF EndPair, BeginHud, NoPair
  <2>3. /\ pair'.phase = "awaiting" /\ pair'.frame = pair.frame
        /\ pair'.captured = pair.captured /\ pair'.eye = pair.eye
    <3>1. CASE EndPair
      <4>1. ~(pair.eye < 2) /\ pair.eye \in 0 .. 2
        BY <1>0, <3>1 DEF EndPair, EyesLeft, Pairs
      <4>2. pair.captured = {e \in Eyes : e < pair.eye}
        BY <2>2 DEF CauseInv, AllCaptured
      <4>3. Complete
        BY <4>1, <4>2 DEF Complete, Eyes
      <4>4. pair' = [pair EXCEPT !.phase = "awaiting"]
        BY <3>1, <4>3 DEF EndPair
      <4>5. QED
        BY <1>0, <4>4 DEF Pairs
    <3>2. CASE BeginHud
      BY <1>0, <3>2 DEF BeginHud, Pairs
    <3>3. QED
      BY <1>6, <3>1, <3>2
  <2>4. pair' # NoPair
    BY <2>3 DEF NoPair
  <2>5. AllCaptured'
    BY <2>2, <2>3 DEF CauseInv, AllCaptured
  <2>6. QED
    BY <2>1, <2>2, <2>3, <2>4, <2>5, PairKeepsBooks DEF CauseInv, FailsOnlyForCause
<1>7. CASE BeginPresent
  <2>1. UNCHANGED <<context, removed, slotSignalled, slotReady, slotWaited, lastSignal,
                    lastReady, failed, faults>>
    BY <1>7 DEF BeginPresent, bridgeVars, boundVars
  <2>2. pair.phase = "awaiting"
    BY <1>7 DEF BeginPresent
  <2>3. pair # NoPair
    BY <2>2 DEF NoPair
  <2>4. PICK drawn \in BOOLEAN :
          pair' = [pair EXCEPT !.phase = "writing", !.frame.hud = drawn]
    BY <1>7 DEF BeginPresent
  <2>5. /\ pair'.phase = "writing" /\ pair'.frame = [pair.frame EXCEPT !.hud = drawn]
        /\ pair'.captured = pair.captured /\ pair'.eye = pair.eye
    BY <1>0, <2>4 DEF Pairs
  <2>6. pair'.frame.ready = pair.frame.ready
    BY <1>0, <2>5 DEF Frames
  <2>7. pair' # NoPair
    BY <2>5 DEF NoPair
  <2>8. AllCaptured'
    BY <2>3, <2>5 DEF CauseInv, AllCaptured
  <2>9. QED
    BY <2>1, <2>3, <2>6, <2>7, <2>8, PairKeepsBooks DEF CauseInv, FailsOnlyForCause
<1>8. CASE FinishPresent
  <2> DEFINE slot == SlotOf(pair.frame.ready)
  <2>1. pair # NoPair /\ pair' = NoPair
    BY <1>8 DEF FinishPresent, EndWrite, NoPair
  <2>2. pair.frame.ready = lastReady + 1 /\ slot \in Slots
    BY <1>0, <2>1, PairCommands, SlotOfType
  <2>3. /\ UNCHANGED <<context, removed, slotWaited, failed, faults>>
        /\ lastReady' = lastReady + 1 /\ lastSignal' = lastReady + 1
        /\ slotReady' = [slotReady EXCEPT ![slot] = lastReady + 1]
        /\ slotSignalled' = [slotSignalled EXCEPT ![slot] = lastReady + 1]
    BY <1>8, <2>2 DEF FinishPresent, boundVars
  <2>4. ASSUME faults = 0  PROVE BooksAgree'
    <3>1. BooksAgree
      BY <2>4 DEF CauseInv
    <3>2. ASSUME NEW s \in Slots, s # slot, slotReady[s] # 0
          PROVE  slotWaited[s] < slotReady[s]
      BY <3>1, <3>2 DEF BooksAgree
    <3>3. \A s \in Slots : /\ slotReady'[s] = IF s = slot THEN lastReady + 1 ELSE slotReady[s]
                           /\ slotReady[s] <= lastReady /\ slotWaited[s] <= slotReady[s]
                           /\ slotReady[s] \in Nat /\ slotWaited[s] \in Nat
      BY <1>0, <2>2, <2>3, <3>1 DEF BooksAgree
    <3>4. \A s \in Slots : /\ slotWaited[s] <= slotReady'[s] /\ slotReady'[s] <= lastReady + 1
                           /\ slotReady'[s] # 0 => slotWaited[s] < slotReady'[s]
      BY <1>0, <3>2, <3>3
    <3>5. slotSignalled' = slotReady' /\ context = "live" /\ ~removed
      BY <2>3, <3>1 DEF BooksAgree
    <3>6. QED
      BY <2>1, <2>3, <3>4, <3>5 DEF BooksAgree
  <2>5. lastReady >= FenceMax - 1 => lastReady' >= FenceMax - 1
    BY <1>0, <2>3, FenceMaxAssumption
  <2>6. QED
    BY <2>1, <2>3, <2>4, <2>5 DEF CauseInv, AllCaptured, FailsOnlyForCause
<1>9. CASE FinishPresentFails
  <2>1. pair # NoPair /\ pair' = NoPair
    BY <1>9 DEF FinishPresentFails, EndWrite, NoPair
  <2>2. faults' > 0
    <3>1. CASE SignalAccepted(SlotOf(pair.frame.ready), pair.frame.ready)
      BY <1>0, <1>9, <3>1 DEF FinishPresentFails
    <3>2. CASE ~SignalAccepted(SlotOf(pair.frame.ready), pair.frame.ready)
      <4>1. faults' = faults /\ faults # 0
        BY <1>9, <2>1, <3>2, SignalIsAccepted DEF FinishPresentFails, CauseInv
      <4>2. QED
        BY <1>0, <4>1
    <3>3. QED
      BY <3>1, <3>2
  <2>3. QED
    BY <2>1, <2>2 DEF CauseInv, AllCaptured, FailsOnlyForCause
<1>10. CASE RecoverContext
  <2>1. faults # 0 /\ UNCHANGED <<pair, faults>>
    BY <1>10 DEF RecoverContext, CauseInv, BooksAgree, boundVars
  <2>2. faults' > 0
    BY <1>0, <2>1
  <2>3. QED
    BY <2>1, <2>2 DEF CauseInv, AllCaptured, FailsOnlyForCause
<1>11. QED
  BY <1>1, <1>2, <1>3, <1>4, <1>5, <1>6, <1>7, <1>8, <1>9, <1>10 DEF Game

\* Every step keeps the invariant as long as no pair is aborted.
LEMMA CauseStep ==
  ASSUME ~AllowAbort, RingInv, CauseInv, TypeOK', [Next]_vars
  PROVE  CauseInv'
<1>1. CASE DeleteContext \/ RemoveDevice
  <2>1. faults' = faults + 1 /\ faults \in Nat /\ (pair' = NoPair \/ pair' = pair)
    BY <1>1 DEF DeleteContext, RemoveDevice, gameVars, RingInv, TypeOK
  <2>2. faults' > 0
    BY <2>1
  <2>3. QED
    BY <2>1, <2>2 DEF CauseInv, AllCaptured, FailsOnlyForCause
<1>2. CASE Host \/ WorldTimeout \/ GpuExecute \/ UNCHANGED vars
  <2>1. UNCHANGED bookVars
    BY <1>2 DEF Host, HostOpen, HostPoll, HostPollFails, HostReadMetadata, HostSkipFrame,
                HostSubmit, HostCopy, HostRetire, HostFails, othersThanHost, gameVars,
                bridgeVars, gpuVars, boundVars, WorldTimeout, GpuExecute, vars, bookVars
  <2>2. QED
    BY <2>1, CauseQuiet
<1>3. QED
  BY <1>1, <1>2, GameCause DEF Next, Environment

\* Without faults and aborts WaitConsumed and SignalReady never refuse the producer: it
\* fails only when the sequence numbers are used up.
THEOREM ProducerFailsForCause ==
  ASSUME ~AllowAbort
  PROVE  Spec => []FailsOnlyForCause
<1>1. Init => CauseInv
  <2> SUFFICES ASSUME Init PROVE CauseInv
    OBVIOUS
  <2>1. BooksAgree
    BY DEF Init, BooksAgree
  <2>2. QED
    BY <2>1 DEF Init, CauseInv, AllCaptured, FailsOnlyForCause
<1>2. RingInv /\ TypeOK' /\ CauseInv /\ [Next]_vars => CauseInv'
  BY CauseStep
<1>3. CauseInv => FailsOnlyForCause
  BY DEF CauseInv
<1>4. QED
  BY <1>1, <1>2, <1>3, RingInvariant, TypeCorrect, PTL DEF Spec

-----------------------------------------------------------------------------
(* The stream shows whole pictures: what the host copies is, in every part *)
(* its label announces, the camera frame the label names, and the detailed *)
(* stream implements the abstract one of PictureStream.                    *)
(*                                                                         *)
(* So far the argument was about numbers; from here it follows pixels.     *)
(* The game's CPU only queues blits, some of which belong to pairs that    *)
(* were given up and never published, under the same publication number    *)
(* as the pair that replaced them.  So the invariant says of a published   *)
(* part not what the texture holds but what it will hold when the game's   *)
(* GPU has run the queue (Arrives), and that the signal of a publication   *)
(* is queued behind its blits and survives the loss of the context.  It    *)
(* says nothing of a number that SignalReady signalled and reported as     *)
(* failed: of those only the ages of the eyes are known (AgeInv).          *)

\* The command writes this part of this publication's slot.
Touches(c, r, part) == ~IsSignal(c) /\ SlotOf(c.ready) = SlotOf(r) /\ c.part = part

\* Once the queue has run, the part of the publication shows this camera frame.
Arrives(queue, image, r, part, shot) ==
    \/ \E i \in 1 .. Len(queue) :
         /\ Touches(queue[i], r, part) /\ queue[i].camera = shot
         /\ \A j \in i + 1 .. Len(queue) : ~Touches(queue[j], r, part)
    \/ /\ \A i \in 1 .. Len(queue) : ~Touches(queue[i], r, part)
       /\ image[SlotOf(r)][part] = shot

Unconsumed == consumedFence + 1 .. lastReady

\* The frame published under a number, and the parts it promises.
Content(r)     == metadata[SlotOf(r)].frame
PartsOf(frame) == Eyes \cup (IF frame.hud THEN {Hud} ELSE {})

\* No two unconsumed publications share a slot.
SlotsApart == \A r \in Unconsumed : SlotClear(r)

\* The signal of a publication that is not announced yet is queued.
SignalsQueued ==
    \A r \in readyFence + 1 .. lastReady :
        \E i \in 1 .. Len(glq) : IsSignal(glq[i]) /\ glq[i].ready = r

\* A signal is queued behind every command of what is published.
BlitsFollowed ==
    \A i \in 1 .. Len(glq) :
        glq[i].ready <= lastReady => \E j \in i .. Len(glq) : IsSignal(glq[j])

\* The pixels of what is published and not consumed are there or will be.
Pixels ==
    \A r \in Unconsumed : \A part \in PartsOf(Content(r)) :
        Arrives(glq, atlas, r, part, Content(r).camera)

\* So are those of the pair under way.
PairPixels ==
    pair # NoPair =>
        /\ \A part \in pair.captured : Arrives(glq, atlas, lastReady + 1, part, pair.frame.camera)
        /\ pair.phase \in {"awaiting", "writing"} => pair.captured = Eyes
        /\ pair.phase = "writing" /\ pair.frame.hud =>
              Arrives(glq, atlas, lastReady + 1, Hud, pair.frame.camera)

\* A later publication shows a later camera frame.
CamerasGrow ==
    /\ \A r \in Unconsumed : Content(r).camera <= camera
    /\ \A r, q \in Unconsumed : r < q => Content(r).camera < Content(q).camera
    /\ pair # NoPair =>
          /\ pair.frame.camera <= camera
          /\ \A r \in Unconsumed : Content(r).camera < pair.frame.camera

\* What the host holds is what was published under the number it polled.
HostHolds ==
    /\ host \in {"candidate", "copying"} =>
          candidate.ready = token /\ (token \notin unrecorded => candidate = Content(token))
    /\ host = "copying" => label = candidate
    /\ host = "copied" => cached.ready = token
    /\ host \in {"polled", "candidate", "copying"} => cached.ready <= token
    /\ cached.ready <= readyFence

\* The picture shown is whole and older than every newer publication.
ShownInOrder ==
    cached.ready \notin unrecorded =>
        /\ cached.image[0] = cached.image[1]
        /\ cached.image[0] <= camera
        /\ pair # NoPair => cached.image[0] < pair.frame.camera
        /\ \A r \in Unconsumed :
              /\ r > cached.ready => cached.image[0] < Content(r).camera
              /\ r = cached.ready => cached.image[0] = Content(r).camera

PictureInv ==
    /\ SlotsApart /\ SignalsQueued /\ BlitsFollowed /\ Pixels /\ PairPixels /\ CamerasGrow
    /\ HostHolds /\ ShownInOrder /\ CachedMatchesLabel

-----------------------------------------------------------------------------
(* What the queue does to the parts *)

\* A command queued behind the others decides its own part and no other.
LEMMA ArrivesAppend ==
    ASSUME NEW q \in Seq(Commands), NEW c \in Commands, NEW image,
           NEW r, NEW part, NEW shot,
           \/ Touches(c, r, part) /\ c.camera = shot
           \/ ~Touches(c, r, part) /\ Arrives(q, image, r, part, shot)
    PROVE  Arrives(Append(q, c), image, r, part, shot)
<1>. DEFINE n == Len(q)
            w == Append(q, c)
<1>1. /\ Len(w) = n + 1 /\ n \in Nat /\ w[n + 1] = c
      /\ \A i \in 1 .. n : w[i] = q[i]
    BY AppendProperties
<1>. HIDE DEF n, w
<1>2. CASE Touches(c, r, part) /\ c.camera = shot
    <2>1. n + 1 \in 1 .. Len(w) /\ \A j \in n + 1 + 1 .. Len(w) : FALSE
        BY <1>1
    <2>. QED  BY <1>1, <1>2, <2>1 DEF Arrives, w
<1>3. ASSUME ~Touches(c, r, part), NEW i \in 1 .. n,
             Touches(q[i], r, part), q[i].camera = shot,
             \A j \in i + 1 .. n : ~Touches(q[j], r, part)
      PROVE  Arrives(w, image, r, part, shot)
    <2>1. i \in 1 .. Len(w) /\ \A j \in i + 1 .. Len(w) : j \in i + 1 .. n \/ j = n + 1
        BY <1>1
    <2>2. \A j \in i + 1 .. Len(w) : ~Touches(w[j], r, part)
        BY <1>1, <1>3, <2>1
    <2>. QED  BY <1>1, <1>3, <2>1, <2>2 DEF Arrives
<1>4. ASSUME ~Touches(c, r, part), \A i \in 1 .. n : ~Touches(q[i], r, part),
             image[SlotOf(r)][part] = shot
      PROVE  Arrives(w, image, r, part, shot)
    <2>1. \A i \in 1 .. Len(w) : i \in 1 .. n \/ i = n + 1
        BY <1>1
    <2>. QED  BY <1>1, <1>4, <2>1 DEF Arrives
<1>. QED  BY <1>2, <1>3, <1>4 DEF Arrives, n, w

\* Running the oldest command leaves what the queue will make of a part.
LEMMA ArrivesTail ==
    ASSUME NEW q \in Seq(Commands), q # <<>>, NEW image, NEW after,
           NEW r, NEW part, NEW shot,
           Arrives(q, image, r, part, shot),
           after[SlotOf(r)][part] =
               IF Touches(Head(q), r, part) THEN Head(q).camera ELSE image[SlotOf(r)][part]
    PROVE  Arrives(Tail(q), after, r, part, shot)
<1>. DEFINE w == Tail(q)
            n == Len(w)
<1>1. /\ Len(q) = n + 1 /\ n \in Nat /\ Head(q) = q[1]
      /\ \A i \in 1 .. n : w[i] = q[i + 1]
    BY HeadTailProperties
<1>. HIDE DEF n, w
<1>2. ASSUME NEW i \in 2 .. Len(q), Touches(q[i], r, part), q[i].camera = shot,
             \A j \in i + 1 .. Len(q) : ~Touches(q[j], r, part)
      PROVE  Arrives(w, after, r, part, shot)
    <2>1. i - 1 \in 1 .. n /\ w[i - 1] = q[i]
        BY <1>1
    <2>2. \A j \in i .. n : w[j] = q[j + 1] /\ j + 1 \in i + 1 .. Len(q)
        BY <1>1
    <2>3. \A j \in (i - 1) + 1 .. n : ~Touches(w[j], r, part)
        BY <1>2, <2>2
    <2>. QED  BY <1>2, <2>1, <2>3 DEF Arrives, n
<1>3. ASSUME \A j \in 2 .. Len(q) : ~Touches(q[j], r, part), after[SlotOf(r)][part] = shot
      PROVE  Arrives(w, after, r, part, shot)
    <2>1. \A j \in 1 .. n : w[j] = q[j + 1] /\ j + 1 \in 2 .. Len(q)
        BY <1>1
    <2>. QED  BY <1>3, <2>1 DEF Arrives, n
<1>4. CASE \E i \in 1 .. Len(q) :
             /\ Touches(q[i], r, part) /\ q[i].camera = shot
             /\ \A j \in i + 1 .. Len(q) : ~Touches(q[j], r, part)
    <2>1. PICK i \in 1 .. Len(q) :
             /\ Touches(q[i], r, part) /\ q[i].camera = shot
             /\ \A j \in i + 1 .. Len(q) : ~Touches(q[j], r, part)
        BY <1>4
    <2>2. CASE i = 1
        BY <1>1, <1>3, <2>1, <2>2 DEF w
    <2>3. CASE i \in 2 .. Len(q)
        BY <1>2, <2>1, <2>3 DEF w
    <2>. QED  BY <1>1, <2>2, <2>3
<1>5. CASE (\A i \in 1 .. Len(q) : ~Touches(q[i], r, part)) /\ image[SlotOf(r)][part] = shot
    <2>1. 1 \in 1 .. Len(q) /\ \A j \in 2 .. Len(q) : j \in 1 .. Len(q)
        BY <1>1
    <2>. QED  BY <1>1, <1>3, <1>5, <2>1 DEF w
<1>. QED  BY <1>4, <1>5 DEF Arrives

\* Losing the end of the queue loses nothing of a part drawn before it.
LEMMA ArrivesCut ==
    ASSUME NEW q \in Seq(Commands), NEW k \in 0 .. Len(q), NEW image,
           NEW r, NEW part, NEW shot,
           Arrives(q, image, r, part, shot),
           \A j \in k + 1 .. Len(q) : ~Touches(q[j], r, part)
    PROVE  Arrives(SubSeq(q, 1, k), image, r, part, shot)
<1>. DEFINE w == SubSeq(q, 1, k)
<1>1. Len(w) = k /\ k \in Nat /\ Len(q) \in Nat /\ \A i \in 1 .. k : w[i] = q[i]
    BY SubSeqProperties
<1>. HIDE DEF w
<1>2. \A i \in 1 .. Len(q) : i \in 1 .. k \/ i \in k + 1 .. Len(q)
    BY <1>1
<1>3. \A i \in 1 .. k : i \in 1 .. Len(q) /\ \A j \in i + 1 .. k : j \in i + 1 .. Len(q)
    BY <1>1
<1>. QED  BY <1>1, <1>2, <1>3 DEF Arrives, w

-----------------------------------------------------------------------------
(* Numbers and slots *)

\* The number types the arguments below need.
LEMMA Numbers ==
    ASSUME TypeOK
    PROVE  /\ consumedFence \in Nat /\ readyFence \in Nat /\ lastReady \in Nat
           /\ token \in Nat /\ camera \in Nat /\ cached.ready \in Nat
           /\ pair.frame.ready \in Nat /\ pair.frame.camera \in Nat
           /\ pair.frame \in Frames /\ glq \in Seq(Commands)
           /\ \A part \in Parts : cached.image[part] \in Nat
           /\ Unconsumed \subseteq Nat
           /\ \A r \in Nat : SlotOf(r) \in Slots /\ Content(r) \in Frames
           /\ \A f \in Frames : f.ready \in Nat /\ f.camera \in Nat
           /\ \A c \in Commands : c.ready \in Nat
           /\ \A i \in 1 .. Len(glq) : glq[i] \in Commands
<1>1. \A r \in Nat : SlotOf(r) \in Slots /\ Content(r) \in Frames
    BY SlotOfType DEF TypeOK, Content
<1>2. pair.frame \in Frames
    BY DEF TypeOK, Pairs
<1>3. consumedFence \in Nat /\ lastReady \in Nat
    BY DEF TypeOK
<1>4. Unconsumed \subseteq Nat
    BY <1>3 DEF Unconsumed
<1>5. glq \in Seq(Commands) /\ \A i \in 1 .. Len(glq) : glq[i] \in Commands
    BY ElementOfSeq DEF TypeOK
<1>6. \A c \in Commands : c.ready \in Nat
    BY DEF Commands
<1>7. /\ readyFence \in Nat /\ token \in Nat /\ camera \in Nat /\ cached.ready \in Nat
      /\ \A part \in Parts : cached.image[part] \in Nat
    BY DEF TypeOK
<1>8. \A f \in Frames : f.ready \in Nat /\ f.camera \in Nat
    BY DEF Frames
<1>. QED  BY <1>1, <1>2, <1>3, <1>4, <1>5, <1>6, <1>7, <1>8

\* What the host holds is published and not consumed, unless its number was given away.
LEMMA TokenUnconsumed ==
    ASSUME RingInv, host \in {"polled", "candidate", "copying", "copied"},
           token \notin unrecorded
    PROVE  token \in Unconsumed /\ token <= readyFence
    BY TokenAnnounced DEF Unconsumed

-----------------------------------------------------------------------------
(* The steps of the game *)

pictureVars == <<pair, lastReady, unrecorded, glq, readyFence, consumedFence, atlas, metadata,
                 host, token, candidate, label, cached, camera>>

\* A step that leaves pictures and numbers alone keeps the invariant.
LEMMA PictureQuiet == ASSUME PictureInv, UNCHANGED pictureVars PROVE PictureInv'
    BY DEF pictureVars, PictureInv, SlotsApart, SlotClear, SignalsQueued, BlitsFollowed, Pixels, PairPixels,
           CamerasGrow, HostHolds, ShownInOrder, CachedMatchesLabel, Unconsumed, Content,
           PartsOf

\* A step of the game that publishes nothing: it may change the pair, the queue and the
\* metadata of slots that hold nothing unconsumed.
LEMMA UnpublishedStep ==
    ASSUME RingInv, PictureInv, TypeOK',
           UNCHANGED <<consumedFence, readyFence, lastReady, host, token, candidate, label,
                       cached, atlas>>,
           camera <= camera', unrecorded \subseteq unrecorded',
           \A r \in Unconsumed : metadata'[SlotOf(r)].frame = metadata[SlotOf(r)].frame,
           \A r \in Unconsumed, part \in Parts, shot \in Nat :
              Arrives(glq, atlas, r, part, shot) => Arrives(glq', atlas, r, part, shot),
           SignalsQueued', BlitsFollowed', PairPixels',
           pair' # NoPair =>
              /\ pair'.frame.camera <= camera'
              /\ cached.ready \notin unrecorded => cached.image[0] < pair'.frame.camera
              /\ \A r \in Unconsumed : Content(r).camera < pair'.frame.camera
    PROVE  PictureInv'
<1>0. TypeOK /\ Unconsumed' = Unconsumed
    BY DEF RingInv, Unconsumed
<1>1. \A r \in Unconsumed : Content(r)' = Content(r) /\ Content(r) \in Frames
                            /\ Content(r).camera \in Nat
    BY <1>0, Numbers DEF Content
<1>2. SlotsApart'
    BY <1>0 DEF PictureInv, SlotsApart, SlotClear
<1>3. Pixels'
    <2>1. ASSUME NEW r \in Unconsumed, NEW part \in PartsOf(Content(r))
          PROVE  Arrives(glq', atlas, r, part, Content(r).camera)
        <3>1. part \in Parts
            BY DEF PartsOf, Parts
        <3>2. Arrives(glq, atlas, r, part, Content(r).camera)
            BY DEF PictureInv, Pixels
        <3>. QED  BY <1>1, <3>1, <3>2
    <2>. QED  BY <1>0, <1>1, <2>1 DEF Pixels
<1>4. CamerasGrow'
    <2>1. camera \in Nat /\ camera' \in Nat
        BY <1>0 DEF TypeOK
    <2>. QED  BY <1>0, <1>1, <2>1 DEF PictureInv, CamerasGrow
<1>5. HostHolds'
    <2>1. host \in {"candidate", "copying"} /\ token \notin unrecorded
             => Content(token)' = Content(token)
        BY <1>1, TokenUnconsumed
    <2>. QED  BY <2>1 DEF PictureInv, HostHolds
<1>6. ShownInOrder'
    <2>1. camera \in Nat /\ camera' \in Nat /\ cached.image[0] \in Nat
        BY <1>0 DEF TypeOK, Parts, Eyes
    <2>. QED  BY <1>0, <1>1, <2>1 DEF PictureInv, ShownInOrder
<1>7. CachedMatchesLabel'
    BY DEF PictureInv, CachedMatchesLabel
<1>. QED  BY <1>2, <1>3, <1>4, <1>5, <1>6, <1>7 DEF PictureInv

\* BeginPair numbers a new camera frame and has drawn nothing yet.
LEMMA BeginPairPicture == ASSUME RingInv, PictureInv, TypeOK', BeginPair PROVE PictureInv'
<1>0. /\ UNCHANGED <<consumedFence, readyFence, lastReady, unrecorded, host, token, candidate, label,
                     cached, atlas, glq, metadata>>
      /\ camera' = camera + 1
    BY DEF BeginPair, gpuVars, hostVars
<1>1. /\ pair'.frame.camera = camera + 1 /\ pair'.captured = {} /\ pair'.phase = "active"
    BY DEF BeginPair, NewFrame, NoPair
<1>2. camera \in Nat /\ \A r \in Unconsumed : Content(r).camera \in Nat
    BY Numbers DEF RingInv
<1>3. cached.image[0] \in Nat
    BY DEF RingInv, TypeOK, Parts, Eyes
<1>4. \A r \in Unconsumed : Content(r).camera < camera + 1
    BY <1>2 DEF PictureInv, CamerasGrow
<1>5. cached.ready \notin unrecorded => cached.image[0] < camera + 1
    BY <1>2, <1>3 DEF PictureInv, ShownInOrder
<1>6. PairPixels'
    BY <1>1 DEF PairPixels
<1>7. SignalsQueued' /\ BlitsFollowed'
    BY <1>0 DEF PictureInv, SignalsQueued, BlitsFollowed
<1>. QED  BY <1>0, <1>1, <1>2, <1>4, <1>5, <1>6, <1>7, UnpublishedStep

\* The pair under way has its camera frame and a cleared slot.
LEMMA PairKnown ==
    ASSUME RingInv, PictureInv, pair # NoPair
    PROVE  /\ pair.frame.camera <= camera
           /\ cached.ready \notin unrecorded => cached.image[0] < pair.frame.camera
           /\ \A r \in Unconsumed : Content(r).camera < pair.frame.camera
           /\ pair.frame.camera \in Nat
           /\ \A part \in Parts : /\ Blit(part) \in Commands
                                  /\ Blit(part).camera = pair.frame.camera
                                  /\ Blit(part).part = part
                                  /\ Touches(Blit(part), lastReady + 1, part)
                                  /\ \A r \in Unconsumed : \A p : ~Touches(Blit(part), r, p)
<1>1. \A r \in Unconsumed : SlotOf(r) # SlotOf(lastReady + 1)
    BY OtherMetadata, PairCommands DEF Unconsumed
<1>2. pair.frame.camera \in Nat
    BY Numbers DEF RingInv
<1>3. \A part \in Parts : /\ Blit(part) \in Commands /\ Blit(part).ready = lastReady + 1
                          /\ ~IsSignal(Blit(part)) /\ Blit(part).part = part
                          /\ Blit(part).camera = pair.frame.camera
    BY PairCommands DEF Blit
<1>. QED  BY <1>1, <1>2, <1>3 DEF PictureInv, CamerasGrow, ShownInOrder, Touches

\* A blit of the pair queued behind the others touches none of the published parts.
LEMMA BlitStep ==
    ASSUME RingInv, PictureInv, pair # NoPair, NEW part \in Parts,
           glq' = Append(glq, Blit(part)), UNCHANGED <<readyFence, lastReady>>
    PROVE  /\ \A r \in Unconsumed, p \in Parts, shot \in Nat :
                 Arrives(glq, atlas, r, p, shot) => Arrives(glq', atlas, r, p, shot)
           /\ \A p \in Parts :
                 p = part \/ Arrives(glq, atlas, lastReady + 1, p, pair.frame.camera)
                    => Arrives(glq', atlas, lastReady + 1, p, pair.frame.camera)
           /\ SignalsQueued' /\ BlitsFollowed'
<1>1. glq \in Seq(Commands) /\ Blit(part) \in Commands
    BY PairKnown DEF RingInv, TypeOK
<1>2. ASSUME NEW r \in Unconsumed, NEW p \in Parts, NEW shot \in Nat,
             Arrives(glq, atlas, r, p, shot)
      PROVE  Arrives(glq', atlas, r, p, shot)
    BY <1>1, <1>2, PairKnown, ArrivesAppend
<1>3. ASSUME NEW p \in Parts,
             \/ p = part
             \/ Arrives(glq, atlas, lastReady + 1, p, pair.frame.camera)
      PROVE  Arrives(glq', atlas, lastReady + 1, p, pair.frame.camera)
    <2>1. CASE p = part
        BY <1>1, <2>1, PairKnown, ArrivesAppend
    <2>2. CASE p # part
        <3>1. ~Touches(Blit(part), lastReady + 1, p)
            BY <2>2, PairKnown DEF Touches
        <3>. QED  BY <1>1, <1>3, <2>2, <3>1, ArrivesAppend
    <2>. QED  BY <2>1, <2>2
<1>4. SignalsQueued'
    <2>1. Len(glq') = Len(glq) + 1 /\ Len(glq) \in Nat
          /\ \A i \in 1 .. Len(glq) : glq'[i] = glq[i]
        BY <1>1, AppendProperties
    <2>2. ASSUME NEW r \in readyFence + 1 .. lastReady
          PROVE  \E i \in 1 .. Len(glq') : IsSignal(glq'[i]) /\ glq'[i].ready = r
        <3>1. PICK i \in 1 .. Len(glq) : IsSignal(glq[i]) /\ glq[i].ready = r
            BY DEF PictureInv, SignalsQueued
        <3>2. i \in 1 .. Len(glq') /\ glq'[i] = glq[i]
            BY <2>1
        <3>. QED  BY <3>1, <3>2
    <2>. QED  BY <2>2 DEF SignalsQueued
<1>5. BlitsFollowed'
    <2>1. /\ Len(glq') = Len(glq) + 1 /\ Len(glq) \in Nat /\ glq'[Len(glq) + 1] = Blit(part)
          /\ \A i \in 1 .. Len(glq) : glq'[i] = glq[i]
        BY <1>1, AppendProperties
    <2>2. ASSUME NEW i \in 1 .. Len(glq'), glq'[i].ready <= lastReady
          PROVE  \E j \in i .. Len(glq') : IsSignal(glq'[j])
        <3>1. Blit(part).ready = lastReady + 1 /\ lastReady \in Nat
            BY PairCommands DEF RingInv, TypeOK
        <3>2. i \in 1 .. Len(glq)
            BY <2>1, <2>2, <3>1
        <3>3. PICK j \in i .. Len(glq) : IsSignal(glq[j])
            BY <2>1, <2>2, <3>2 DEF PictureInv, BlitsFollowed
        <3>4. j \in i .. Len(glq') /\ j \in 1 .. Len(glq)
            BY <2>1, <3>2
        <3>. QED  BY <2>1, <3>3, <3>4
    <2>. QED  BY <2>2 DEF BlitsFollowed
<1>. QED  BY <1>2, <1>3, <1>4, <1>5

\* A turn of the camera loop draws the eye it captures.
LEMMA RenderEyePicture == ASSUME RingInv, PictureInv, TypeOK', RenderEye PROVE PictureInv'
<1>1. pair # NoPair /\ pair.phase = "active" /\ pair.eye \in Eyes
    <2>1. pair # NoPair /\ pair.phase = "active"
        BY DEF RenderEye, NoPair
    <2>2. pair.eye \in 0 .. 2 /\ pair.eye < 2
        BY DEF RenderEye, EyesLeft, RingInv, TypeOK, Pairs
    <2>. QED  BY <2>1, <2>2 DEF Eyes
<1>2. UNCHANGED <<lastReady, unrecorded, readyFence, consumedFence, metadata, atlas, camera,
                  host, token, candidate, label, cached>>
    BY DEF RenderEye, bridgeVars, hostVars, boundVars
<1>3. PICK blitted \in BOOLEAN, ok \in BOOLEAN :
        /\ ok => blitted
        /\ glq' = IF blitted THEN Append(glq, Blit(pair.eye)) ELSE glq
        /\ pair' = [pair EXCEPT !.eye = pair.eye + 1,
                        !.captured = IF ok THEN @ \cup {pair.eye} ELSE @]
    BY DEF RenderEye
<1>4. /\ pair'.frame = pair.frame /\ pair'.phase = "active"
      /\ pair'.captured \subseteq pair.captured \cup {pair.eye}
      /\ ~blitted => pair'.captured = pair.captured
    BY <1>1, <1>3 DEF RingInv, TypeOK, Pairs
<1>5. pair.captured \subseteq Parts /\ pair.eye \in Parts
    BY <1>1 DEF RingInv, TypeOK, Pairs, Parts
<1>6. /\ \A r \in Unconsumed, part \in Parts, shot \in Nat :
            Arrives(glq, atlas, r, part, shot) => Arrives(glq', atlas, r, part, shot)
      /\ SignalsQueued' /\ BlitsFollowed'
      /\ \A part \in pair'.captured : Arrives(glq', atlas, lastReady + 1, part, pair.frame.camera)
    <2>1. CASE blitted
        BY <1>1, <1>2, <1>3, <1>4, <1>5, <2>1, BlitStep DEF PictureInv, PairPixels
    <2>2. CASE ~blitted
        BY <1>1, <1>2, <1>3, <1>4, <2>2
           DEF PictureInv, PairPixels, SignalsQueued, BlitsFollowed
    <2>. QED  BY <2>1, <2>2
<1>7. PairPixels'
    BY <1>2, <1>4, <1>6 DEF PairPixels
<1>8. camera <= camera'
    BY <1>2, Numbers DEF RingInv
<1>. QED  BY <1>1, <1>2, <1>4, <1>6, <1>7, <1>8, PairKnown, UnpublishedStep

\* The end of a pair and the HUD's bind draw nothing; only a complete pair waits on.
LEMMA EndPairPicture ==
    ASSUME RingInv, PictureInv, TypeOK', EndPair \/ BeginHud
    PROVE  PictureInv'
<1>1. pair # NoPair
    BY DEF EndPair, BeginHud, NoPair
<1>2. UNCHANGED <<lastReady, unrecorded, readyFence, consumedFence, metadata, atlas, camera, glq,
                  host, token, candidate, label, cached>>
    BY DEF EndPair, BeginHud, bridgeVars, gpuVars, hostVars, boundVars
<1>3. \/ pair' = NoPair
      \/ /\ pair'.frame = pair.frame /\ pair'.captured = pair.captured
         /\ pair'.phase = "awaiting" /\ pair.captured = Eyes
    <2>1. CASE EndPair
        BY <2>1 DEF EndPair, Complete, RingInv, TypeOK, Pairs
    <2>2. CASE BeginHud
        <3>1. pair.captured = Eyes /\ pair.phase = "awaiting"
            BY <1>1, <2>2 DEF BeginHud, PictureInv, PairPixels
        <3>. QED  BY <2>2, <3>1 DEF BeginHud, RingInv, TypeOK, Pairs
    <2>. QED  BY <2>1, <2>2
<1>4. PairPixels'
    BY <1>1, <1>2, <1>3 DEF PictureInv, PairPixels
<1>5. SignalsQueued' /\ BlitsFollowed'
    BY <1>2 DEF PictureInv, SignalsQueued, BlitsFollowed
<1>6. camera <= camera'
    BY <1>2, Numbers DEF RingInv
<1>. QED  BY <1>1, <1>2, <1>3, <1>4, <1>5, <1>6, PairKnown, UnpublishedStep

\* The buffer swap draws the HUD before the metadata announces it.
LEMMA BeginPresentPicture ==
    ASSUME RingInv, PictureInv, TypeOK', BeginPresent
    PROVE  PictureInv'
<1>1. pair # NoPair /\ pair.phase = "awaiting" /\ Hud \in Parts
    <2>1. pair.phase = "awaiting"
        BY DEF BeginPresent
    <2>2. NoPair.phase = "idle" /\ Hud \in Parts
        BY DEF NoPair, Parts
    <2>. QED  BY <2>1, <2>2
<1>2. UNCHANGED <<lastReady, unrecorded, readyFence, consumedFence, atlas, camera,
                  host, token, candidate, label, cached>>
    BY DEF BeginPresent, bridgeVars, hostVars, boundVars
<1>3. pair.captured = Eyes
    BY <1>1 DEF PictureInv, PairPixels
<1>4. /\ \A r \in Unconsumed, part \in Parts, shot \in Nat :
            Arrives(glq, atlas, r, part, shot) => Arrives(glq', atlas, r, part, shot)
      /\ SignalsQueued' /\ BlitsFollowed'
      /\ \A part \in Eyes : Arrives(glq', atlas, lastReady + 1, part, pair.frame.camera)
      /\ pair.hud => Arrives(glq', atlas, lastReady + 1, Hud, pair.frame.camera)
    <2>1. \A part \in Eyes : Arrives(glq, atlas, lastReady + 1, part, pair.frame.camera)
                             /\ part \in Parts
        BY <1>1, <1>3 DEF PictureInv, PairPixels, Parts
    <2>2. CASE pair.hud
        <3>1. glq' = Append(glq, Blit(Hud))
            BY <2>2 DEF BeginPresent
        <3>. QED  BY <1>1, <1>2, <2>1, <2>2, <3>1, BlitStep
    <2>3. CASE ~pair.hud
        <3>1. glq' = glq
            BY <2>3 DEF BeginPresent
        <3>. QED  BY <1>2, <2>1, <2>3, <3>1 DEF PictureInv, SignalsQueued, BlitsFollowed
    <2>. QED  BY <2>2, <2>3
<1>5. \/ pair' = NoPair
      \/ /\ pair'.frame.camera = pair.frame.camera /\ pair'.captured = Eyes
         /\ pair'.phase = "writing" /\ pair'.frame.hud => pair.hud
    <2>1. \/ pair' = NoPair
          \/ \E drawn \in BOOLEAN :
               /\ drawn => pair.hud
               /\ pair' = [pair EXCEPT !.phase = "writing", !.frame.hud = drawn]
        BY DEF BeginPresent
    <2>2. pair \in Pairs /\ pair.frame \in Frames
        BY DEF RingInv, TypeOK, Pairs
    <2>3. ASSUME NEW drawn \in BOOLEAN, drawn => pair.hud,
                 pair' = [pair EXCEPT !.phase = "writing", !.frame.hud = drawn]
          PROVE  /\ pair'.frame.camera = pair.frame.camera /\ pair'.captured = Eyes
                 /\ pair'.phase = "writing" /\ pair'.frame.hud => pair.hud
        <3>1. /\ pair'.frame = [pair.frame EXCEPT !.hud = drawn]
              /\ pair'.captured = pair.captured
            BY <2>2, <2>3 DEF Pairs
        <3>. QED  BY <1>3, <2>2, <2>3, <3>1 DEF Frames
    <2>. QED  BY <2>1, <2>3
<1>6. PairPixels'
    BY <1>2, <1>4, <1>5 DEF PairPixels
<1>7. \A r \in Unconsumed : metadata'[SlotOf(r)].frame = metadata[SlotOf(r)].frame
    <2>1. TAKE r \in Unconsumed
    <2>2. SlotOf(r) # SlotOf(pair.frame.ready)
        BY <1>1, OtherMetadata DEF Unconsumed
    <2>3. \/ metadata' = metadata
          \/ metadata' = [metadata EXCEPT ![SlotOf(pair.frame.ready)].odd = TRUE]
        BY DEF BeginPresent
    <2>4. SlotOf(r) \in Slots /\ DOMAIN metadata = Slots
        BY Numbers DEF RingInv, TypeOK
    <2>. QED  BY <2>2, <2>3, <2>4
<1>8. camera <= camera'
    BY <1>2, Numbers DEF RingInv
<1>. QED  BY <1>1, <1>2, <1>4, <1>5, <1>6, <1>7, <1>8, PairKnown, UnpublishedStep

\* The metadata write touches the slot of the next publication only.
LEMMA EndWriteContent ==
    ASSUME RingInv, EndWrite
    PROVE  /\ pair # NoPair /\ pair.phase = "writing" /\ pair' = NoPair
           /\ \A r \in Unconsumed : metadata'[SlotOf(r)].frame = metadata[SlotOf(r)].frame
           /\ metadata'[SlotOf(lastReady + 1)].frame = pair.frame
<1>1. pair # NoPair /\ pair.phase = "writing" /\ pair' = NoPair
    BY DEF EndWrite, NoPair
<1>2. metadata' = [metadata EXCEPT ![SlotOf(pair.frame.ready)] =
                       [odd |-> FALSE, frame |-> pair.frame]]
    BY DEF EndWrite
<1>3. /\ DOMAIN metadata = Slots /\ lastReady + 1 \in Nat
      /\ \A r \in Unconsumed : SlotOf(r) \in Slots
      /\ SlotOf(lastReady + 1) \in Slots
    <2>1. lastReady + 1 \in Nat /\ DOMAIN metadata = Slots
        BY DEF RingInv, TypeOK
    <2>. QED  BY <2>1, Numbers DEF RingInv
<1>4. pair.frame.ready = lastReady + 1
    BY <1>1, PairCommands
<1>5. \A r \in Unconsumed : SlotOf(r) # SlotOf(lastReady + 1)
    BY <1>1, <1>4, OtherMetadata DEF Unconsumed
<1>. QED  BY <1>1, <1>2, <1>3, <1>4, <1>5

\* The signal of a present leaves what the queue makes of the parts, and is behind them.
LEMMA SignalStep ==
    ASSUME RingInv, PictureInv, pair # NoPair, glq' = Append(glq, Signal),
           UNCHANGED readyFence, lastReady' \in {lastReady, lastReady + 1}
    PROVE  /\ \A r, p, shot : Arrives(glq, atlas, r, p, shot) => Arrives(glq', atlas, r, p, shot)
           /\ SignalsQueued' /\ BlitsFollowed'
<1>1. /\ glq \in Seq(Commands) /\ Signal \in Commands /\ IsSignal(Signal)
      /\ Signal.ready = lastReady + 1 /\ readyFence \in Nat /\ lastReady \in Nat
    BY PairCommands DEF RingInv, TypeOK, Signal, IsSignal
<1>2. /\ Len(glq') = Len(glq) + 1 /\ Len(glq) \in Nat /\ glq'[Len(glq) + 1] = Signal
      /\ \A i \in 1 .. Len(glq) : glq'[i] = glq[i]
    BY <1>1, AppendProperties
<1>3. \A r, p : ~Touches(Signal, r, p)
    BY <1>1 DEF Touches
<1>4. \A r, p, shot : Arrives(glq, atlas, r, p, shot) => Arrives(glq', atlas, r, p, shot)
    BY <1>1, <1>3, ArrivesAppend
<1>5. ASSUME NEW r \in readyFence + 1 .. lastReady + 1
      PROVE  \E i \in 1 .. Len(glq') : IsSignal(glq'[i]) /\ glq'[i].ready = r
    <2>1. CASE r = lastReady + 1
        <3>1. Len(glq) + 1 \in 1 .. Len(glq')
            BY <1>2
        <3>. QED  BY <1>1, <1>2, <2>1, <3>1
    <2>2. CASE r \in readyFence + 1 .. lastReady
        <3>1. PICK i \in 1 .. Len(glq) : IsSignal(glq[i]) /\ glq[i].ready = r
            BY <2>2 DEF PictureInv, SignalsQueued
        <3>2. i \in 1 .. Len(glq') /\ glq'[i] = glq[i]
            BY <1>2
        <3>. QED  BY <3>1, <3>2
    <2>. QED  BY <1>1, <2>1, <2>2
<1>6. SignalsQueued'
    <2>1. readyFence + 1 .. lastReady \subseteq readyFence + 1 .. lastReady + 1
        BY <1>1
    <2>2. CASE lastReady' = lastReady
        BY <1>5, <2>1, <2>2 DEF SignalsQueued
    <2>3. CASE lastReady' = lastReady + 1
        BY <1>5, <2>3 DEF SignalsQueued
    <2>. QED  BY <2>2, <2>3
<1>7. BlitsFollowed'
    <2>1. \A i \in 1 .. Len(glq') : Len(glq') \in i .. Len(glq') /\ IsSignal(glq'[Len(glq')])
        BY <1>1, <1>2
    <2>. QED  BY <2>1 DEF BlitsFollowed
<1>. QED  BY <1>4, <1>6, <1>7

\* A failing SignalReady publishes nothing the producer knows of: it queues no signal, or
\* one whose number counts as given away from now on.
LEMMA FinishPresentFailsPicture ==
    ASSUME RingInv, PictureInv, TypeOK', FinishPresentFails PROVE PictureInv'
<1>1. /\ UNCHANGED <<lastReady, readyFence, consumedFence, atlas, camera,
                     host, token, candidate, label, cached>>
      /\ EndWrite /\ unrecorded \subseteq unrecorded'
      /\ glq' = glq \/ glq' = Append(glq, Signal)
    BY DEF FinishPresentFails, hostVars
<1>2. /\ pair # NoPair /\ pair' = NoPair
      /\ \A r \in Unconsumed : metadata'[SlotOf(r)].frame = metadata[SlotOf(r)].frame
    BY <1>1, EndWriteContent
<1>3. /\ \A r \in Unconsumed, part \in Parts, shot \in Nat :
            Arrives(glq, atlas, r, part, shot) => Arrives(glq', atlas, r, part, shot)
      /\ SignalsQueued' /\ BlitsFollowed'
    <2>1. CASE glq' = glq
        BY <1>1, <2>1 DEF PictureInv, SignalsQueued, BlitsFollowed
    <2>2. CASE glq' = Append(glq, Signal)
        BY <1>1, <1>2, <2>2, SignalStep
    <2>. QED  BY <1>1, <2>1, <2>2
<1>4. PairPixels'
    BY <1>2 DEF PairPixels
<1>5. camera <= camera'
    BY <1>1, Numbers DEF RingInv
<1>. QED  BY <1>1, <1>2, <1>3, <1>4, <1>5, UnpublishedStep

\* The commands lost with the context belong to no publication.
LEMMA DeleteContextPicture ==
    ASSUME RingInv, PictureInv, TypeOK', DeleteContext
    PROVE  PictureInv'
<1>1. /\ UNCHANGED <<lastReady, unrecorded, readyFence, consumedFence, atlas, metadata, camera,
                     host, token, candidate, label, cached>>
      /\ pair' = NoPair
    BY DEF DeleteContext, bridgeVars, hostVars
<1>2. PICK k \in 0 .. Len(glq) :
        /\ glq' = SubSeq(glq, 1, k)
        /\ \A j \in k + 1 .. Len(glq) : ~IsSignal(glq[j])
    BY DEF DeleteContext, Survivors
<1>3. glq \in Seq(Commands) /\ Len(glq) \in Nat
    BY DEF RingInv, TypeOK
<1>4. ASSUME NEW r \in readyFence + 1 .. lastReady
      PROVE  \E i \in 1 .. k : IsSignal(glq[i]) /\ glq[i].ready = r
    <2>1. PICK i \in 1 .. Len(glq) : IsSignal(glq[i]) /\ glq[i].ready = r
        BY DEF PictureInv, SignalsQueued
    <2>2. i \in 1 .. k
        BY <1>2, <1>3, <2>1
    <2>. QED  BY <2>1, <2>2
<1>5. ASSUME NEW r \in Unconsumed, NEW part \in Parts, NEW j \in k + 1 .. Len(glq)
      PROVE  ~Touches(glq[j], r, part)
    <2>1. j \in 1 .. Len(glq) /\ \A i \in j .. Len(glq) : i \in k + 1 .. Len(glq)
        BY <1>3
    <2>2. ~(glq[j].ready <= lastReady)
        BY <1>2, <2>1 DEF PictureInv, BlitsFollowed
    <2>3. glq[j].ready = lastReady + 1 /\ SlotClear(lastReady + 1)
        <3>1. /\ glq[j].ready \in Nat /\ lastReady \in Nat /\ glq[j].ready <= lastReady + 1
              /\ SlotClear(glq[j].ready)
            BY <2>1, Numbers DEF RingInv, QueueInv
        <3>2. glq[j].ready = lastReady + 1
            BY <2>2, <3>1
        <3>. QED  BY <3>1, <3>2
    <2>4. SlotOf(r) # SlotOf(lastReady + 1)
        BY <2>3, Numbers DEF RingInv, Unconsumed, SlotClear
    <2>. QED  BY <2>3, <2>4 DEF Touches
<1>6. \A r \in Unconsumed, part \in Parts, shot \in Nat :
         Arrives(glq, atlas, r, part, shot) => Arrives(glq', atlas, r, part, shot)
    BY <1>2, <1>3, <1>5, ArrivesCut
<1>7. SignalsQueued'
    <2>1. Len(glq') = k /\ k \in Nat /\ \A i \in 1 .. k : glq'[i] = glq[i]
        BY <1>2, <1>3, SubSeqProperties
    <2>. QED  BY <1>1, <1>4, <2>1 DEF SignalsQueued
<1>8. BlitsFollowed'
    <2>1. Len(glq') = k /\ k \in Nat /\ \A i \in 1 .. k : glq'[i] = glq[i]
        BY <1>2, <1>3, SubSeqProperties
    <2>2. ASSUME NEW i \in 1 .. k, glq[i].ready <= lastReady
          PROVE  \E j \in i .. k : IsSignal(glq[j])
        <3>1. PICK j \in i .. Len(glq) : IsSignal(glq[j])
            BY <1>3, <2>2 DEF PictureInv, BlitsFollowed
        <3>2. j \in i .. k
            BY <1>2, <1>3, <3>1
        <3>. QED  BY <3>1, <3>2
    <2>3. \A i \in 1 .. k : \A j \in i .. k : j \in 1 .. k
        BY <2>1
    <2>. QED  BY <1>1, <2>1, <2>2, <2>3 DEF BlitsFollowed
<1>9. PairPixels' /\ camera <= camera'
    BY <1>1, Numbers DEF RingInv, PairPixels
<1>. QED  BY <1>1, <1>6, <1>7, <1>8, <1>9, UnpublishedStep

\* A publication: its parts are drawn, its signal is queued behind them, and its camera
\* frame is later than any published before.
LEMMA FinishPresentPicture ==
    ASSUME RingInv, PictureInv, TypeOK', FinishPresent
    PROVE  PictureInv'
<1>. PICK n \in Nat : n = lastReady + 1
    BY DEF RingInv, TypeOK
<1>1. /\ UNCHANGED <<unrecorded, readyFence, consumedFence, atlas, camera, host, token,
                     candidate, label, cached>>
      /\ EndWrite
    BY DEF FinishPresent, hostVars, boundVars
<1>2. /\ pair # NoPair /\ pair.phase = "writing" /\ pair' = NoPair
      /\ \A r \in Unconsumed : metadata'[SlotOf(r)].frame = metadata[SlotOf(r)].frame
      /\ metadata'[SlotOf(n)].frame = pair.frame
    BY <1>1, EndWriteContent
<1>3. /\ lastReady' = n /\ glq' = Append(glq, Signal)
      /\ Signal \in Commands /\ IsSignal(Signal) /\ Signal.ready = n
    BY <1>2, PairCommands DEF FinishPresent, Signal, IsSignal
<1>4. consumedFence \in Nat /\ readyFence \in Nat /\ lastReady \in Nat
    BY DEF RingInv, TypeOK
<1>5. /\ Unconsumed' \subseteq Unconsumed \cup {n} /\ \A r \in Unconsumed : r < n
      /\ Unconsumed \subseteq Nat
    BY <1>1, <1>3, <1>4 DEF Unconsumed
<1>6. /\ \A r \in Unconsumed : Content(r)' = Content(r) /\ Content(r).camera \in Nat
      /\ Content(n)' = pair.frame
    <2>1. \A r \in Unconsumed : Content(r) \in Frames
        BY <1>5, Numbers DEF RingInv
    <2>2. \A f \in Frames : f.camera \in Nat
        BY DEF Frames
    <2>. QED  BY <1>2, <2>1, <2>2 DEF Content
<1>7. SlotsApart'
    <2>1. SlotClear(n)
        BY <1>2, PairCommands
    <2>. QED  BY <1>1, <1>5, <2>1 DEF PictureInv, SlotsApart, SlotClear
<1>8. /\ SignalsQueued' /\ BlitsFollowed'
      /\ \A r, p, shot : Arrives(glq, atlas, r, p, shot) => Arrives(glq', atlas, r, p, shot)
    BY <1>1, <1>2, <1>3, SignalStep
<1>9. Pixels'
    <2>1. ASSUME NEW r \in Unconsumed, NEW part \in PartsOf(Content(r))
          PROVE  Arrives(glq', atlas, r, part, Content(r).camera)
        BY <1>8 DEF PictureInv, Pixels
    <2>2. ASSUME NEW part \in PartsOf(pair.frame)
          PROVE  Arrives(glq', atlas, n, part, pair.frame.camera)
        BY <1>2, <1>8 DEF PictureInv, PairPixels, PartsOf
    <2>. QED  BY <1>1, <1>5, <1>6, <2>1, <2>2 DEF Pixels
<1>10. PairPixels'
    BY <1>2 DEF PairPixels
<1>11. CamerasGrow'
    <2>1. /\ pair.frame.camera <= camera
          /\ \A r \in Unconsumed : Content(r).camera < pair.frame.camera
        BY <1>2, PairKnown
    <2>. QED  BY <1>1, <1>2, <1>5, <1>6, <2>1 DEF PictureInv, CamerasGrow
<1>12. HostHolds'
    <2>1. host \in {"candidate", "copying"} /\ token \notin unrecorded
             => Content(token)' = Content(token)
        BY <1>1, <1>6, TokenUnconsumed
    <2>. QED  BY <1>1, <2>1 DEF PictureInv, HostHolds
<1>13. ShownInOrder'
    <2>1. cached.ready \notin unrecorded => cached.image[0] < pair.frame.camera
        BY <1>2, PairKnown
    <2>2. cached.ready \notin unrecorded => cached.ready < n
        <3>1. /\ cached.ready \in Nat /\ cached.ready <= readyFence
              /\ readyFence <= Announced /\ TypeOK
            BY Numbers DEF RingInv, FenceInv, PictureInv, HostHolds
        <3>. QED  BY <1>4, <3>1, AnnouncedNext
    <2>. QED  BY <1>1, <1>2, <1>5, <1>6, <2>1, <2>2 DEF PictureInv, ShownInOrder
<1>14. CachedMatchesLabel'
    BY <1>1 DEF PictureInv, CachedMatchesLabel
<1>. QED  BY <1>7, <1>8, <1>9, <1>10, <1>11, <1>12, <1>13, <1>14 DEF PictureInv

-----------------------------------------------------------------------------
(* The game's GPU *)

\* The signal the GPU runs announces the number after the last announced, or again the
\* number SignalReady gave away.
LEMMA NextSignal ==
    ASSUME RingInv, PictureInv, glq # <<>>, IsSignal(Head(glq))
    PROVE  /\ \/ Head(glq).ready = readyFence + 1
              \/ Head(glq).ready = readyFence /\ readyFence \in unrecorded
           /\ Head(glq).ready <= Announced /\ Head(glq).ready \in Nat
<1>1. glq \in Seq(Commands) /\ Head(glq) = glq[1] /\ 1 \in 1 .. Len(glq)
    BY DEF RingInv, TypeOK
<1>2. /\ Follows(readyFence, glq[1].ready) /\ glq[1].ready <= lastReady + 1
      /\ glq[1].ready <= Announced
      /\ readyFence \in Nat /\ lastReady \in Nat /\ glq[1].ready \in Nat
    BY <1>1, Numbers DEF RingInv, QueueInv
<1>3. CASE readyFence + 1 < glq[1].ready
    <2>1. readyFence + 1 \in readyFence + 1 .. lastReady
        BY <1>2, <1>3
    <2>2. PICK i \in 1 .. Len(glq) : IsSignal(glq[i]) /\ glq[i].ready = readyFence + 1
        BY <2>1 DEF PictureInv, SignalsQueued
    <2>3. 1 < i
        <3>1. i # 1
            BY <1>2, <1>3, <2>2
        <3>. QED  BY <1>1, <3>1
    <2>4. Follows(glq[1].ready, glq[i].ready)
        BY <1>1, <2>3 DEF RingInv, OrderInv
    <2>. QED  BY <1>2, <1>3, <2>2, <2>4 DEF Follows
<1>. QED  BY <1>1, <1>2, <1>3 DEF Follows

\* Running a command leaves every part as it was to be.
LEMMA ExecuteKeepsPart ==
    ASSUME RingInv, GpuExecute, NEW r \in Nat,
           NEW part \in Parts, NEW shot, Arrives(glq, atlas, r, part, shot)
    PROVE  Arrives(glq', atlas', r, part, shot)
<1>. DEFINE c == Head(glq)
<1>1. /\ glq \in Seq(Commands) /\ glq # <<>> /\ c = glq[1] /\ 1 \in 1 .. Len(glq)
      /\ glq' = Tail(glq)
    BY DEF RingInv, TypeOK, GpuExecute
<1>2. c \in Commands /\ c.ready \in Nat /\ c.part \in Parts
    <2>1. c \in Commands
        BY <1>1, Numbers DEF RingInv
    <2>. QED  BY <2>1 DEF Commands
<1>3. atlas \in [Slots -> [Parts -> Nat]]
    BY DEF RingInv, TypeOK
<1>4. SlotOf(r) \in Slots /\ SlotOf(c.ready) \in Slots
    BY <1>2, SlotOfType
<1>5. atlas'[SlotOf(r)][part] =
          IF Touches(c, r, part) THEN c.camera ELSE atlas[SlotOf(r)][part]
    <2>1. CASE IsSignal(c)
        BY <2>1 DEF GpuExecute, Touches
    <2>2. CASE ~IsSignal(c)
        <3>1. atlas' = [atlas EXCEPT ![SlotOf(c.ready)][c.part] = c.camera]
            BY <2>2 DEF GpuExecute
        <3>. QED  BY <1>2, <1>3, <1>4, <2>2, <3>1 DEF Touches
    <2>. QED  BY <2>1, <2>2
<1>. QED  BY <1>1, <1>5, ArrivesTail

\* Running the queue keeps the invariant.
LEMMA GpuExecutePicture ==
    ASSUME RingInv, PictureInv, TypeOK', GpuExecute
    PROVE  PictureInv'
<1>1. UNCHANGED <<pair, lastReady, unrecorded, consumedFence, metadata, camera, host, token,
                  candidate, label, cached>>
    BY DEF GpuExecute, gameVars, bridgeVars, hostVars, boundVars
<1>2. /\ glq \in Seq(Commands) /\ glq # <<>> /\ glq' = Tail(glq)
      /\ readyFence' = IF IsSignal(Head(glq)) THEN Head(glq).ready ELSE readyFence
    BY DEF RingInv, TypeOK, GpuExecute
<1>3. /\ consumedFence \in Nat /\ readyFence \in Nat /\ lastReady \in Nat
      /\ cached.ready \in Nat
    BY DEF RingInv, TypeOK
<1>4. readyFence' \in Nat /\ readyFence <= readyFence'
    BY <1>2, <1>3, NextSignal
<1>5. Unconsumed' = Unconsumed /\ \A r : Content(r)' = Content(r)
    BY <1>1 DEF Unconsumed, Content
<1>6. SlotsApart' /\ CamerasGrow' /\ ShownInOrder' /\ CachedMatchesLabel'
    BY <1>1, <1>5 DEF PictureInv, SlotsApart, SlotClear, CamerasGrow, ShownInOrder,
                      CachedMatchesLabel
<1>7. HostHolds'
    BY <1>1, <1>3, <1>4, <1>5 DEF PictureInv, HostHolds
<1>8. Pixels'
    <2>1. ASSUME NEW r \in Unconsumed, NEW part \in PartsOf(Content(r))
          PROVE  Arrives(glq', atlas', r, part, Content(r).camera)
        <3>1. r \in Nat /\ part \in Parts
            BY <1>3 DEF Unconsumed, PartsOf, Parts
        <3>2. Arrives(glq, atlas, r, part, Content(r).camera)
            BY DEF PictureInv, Pixels
        <3>. QED  BY <3>1, <3>2, ExecuteKeepsPart
    <2>. QED  BY <1>5, <2>1 DEF Pixels
<1>9. PairPixels'
    <2>1. ASSUME pair # NoPair, NEW part \in Parts,
                 Arrives(glq, atlas, lastReady + 1, part, pair.frame.camera)
          PROVE  Arrives(glq', atlas', lastReady + 1, part, pair.frame.camera)
        <3>1. lastReady + 1 \in Nat
            BY <1>3
        <3>. QED  BY <2>1, <3>1, ExecuteKeepsPart
    <2>2. pair.captured \subseteq Parts /\ Hud \in Parts
        BY DEF RingInv, TypeOK, Pairs, Parts
    <2>. QED  BY <1>1, <2>1, <2>2 DEF PictureInv, PairPixels
<1>10. SignalsQueued'
    <2>0. PICK fence \in Nat : fence = readyFence'
        BY <1>4
    <2>1. ASSUME NEW r \in fence + 1 .. lastReady
          PROVE  \E i \in 1 .. Len(glq') : IsSignal(glq'[i]) /\ glq'[i].ready = r
        <3>1. r \in readyFence + 1 .. lastReady
            <4>1. /\ readyFence \in Int /\ fence \in Int /\ lastReady \in Int
                  /\ readyFence <= fence
                BY <1>3, <1>4, <2>0
            <4>. QED  BY <4>1
        <3>2. PICK i \in 1 .. Len(glq) : IsSignal(glq[i]) /\ glq[i].ready = r
            BY <3>1 DEF PictureInv, SignalsQueued
        <3>3. Head(glq) = glq[1] /\ Len(glq) \in Nat
            BY <1>2
        <3>4. i # 1
            BY <1>2, <2>0, <3>2, <3>3
        <3>5. Len(glq') = Len(glq) - 1 /\ \A j \in 1 .. Len(glq') : glq'[j] = glq[j + 1]
            BY <1>2, HeadTailProperties
        <3>6. i - 1 \in 1 .. Len(glq') /\ glq'[i - 1] = glq[i]
            BY <3>3, <3>4, <3>5
        <3>. QED  BY <3>2, <3>6
    <2>. QED  BY <1>1, <2>0, <2>1 DEF SignalsQueued
<1>11. BlitsFollowed'
    <2>1. Len(glq') = Len(glq) - 1 /\ \A i \in 1 .. Len(glq') : glq'[i] = glq[i + 1]
        BY <1>2, HeadTailProperties
    <2>2. Len(glq) \in Nat
        BY <1>2
    <2>3. ASSUME NEW i \in 1 .. Len(glq'), glq'[i].ready <= lastReady
          PROVE  \E j \in i .. Len(glq') : IsSignal(glq'[j])
        <3>1. i + 1 \in 1 .. Len(glq) /\ glq[i + 1].ready <= lastReady
            BY <2>1, <2>2, <2>3
        <3>2. PICK j \in i + 1 .. Len(glq) : IsSignal(glq[j])
            BY <3>1 DEF PictureInv, BlitsFollowed
        <3>3. j - 1 \in i .. Len(glq') /\ j - 1 \in 1 .. Len(glq') /\ (j - 1) + 1 = j
            BY <2>1, <2>2, <3>1
        <3>. QED  BY <2>1, <3>2, <3>3
    <2>. QED  BY <1>1, <2>3 DEF BlitsFollowed
<1>. QED  BY <1>6, <1>7, <1>8, <1>9, <1>10, <1>11 DEF PictureInv

-----------------------------------------------------------------------------
(* The steps of the host *)

\* Every step of the host but the acknowledgement leaves the stream alone.
LEMMA HostPicture ==
    ASSUME RingInv, PictureInv,
           UNCHANGED <<pair, lastReady, unrecorded, glq, readyFence, consumedFence, atlas,
                       metadata, camera>>,
           HostHolds', ShownInOrder', CachedMatchesLabel'
    PROVE  PictureInv'
    BY DEF PictureInv, SlotsApart, SlotClear, SignalsQueued, BlitsFollowed, Pixels, PairPixels, CamerasGrow,
           Unconsumed, Content, PartsOf

\* Such a step keeps the order of what is shown while it keeps the cache's picture.
LEMMA SamePicture ==
    ASSUME PictureInv, cached'.ready = cached.ready, cached'.image = cached.image,
           UNCHANGED <<pair, lastReady, unrecorded, consumedFence, metadata, camera>>
    PROVE  ShownInOrder'
    BY DEF PictureInv, ShownInOrder, Unconsumed, Content

\* The texture of a polled publication holds what its metadata promises.
LEMMA TextureWhole ==
    ASSUME RingInv, PictureInv, host \in {"polled", "candidate", "copying"},
           token \notin unrecorded
    PROVE  \A part \in PartsOf(Content(token)) :
              atlas[SlotOf(token)][part] = Content(token).camera
<1>1. token \in Unconsumed /\ token <= readyFence /\ consumedFence < token
    BY TokenUnconsumed, TokenAnnounced
<1>2. /\ token \in Nat /\ readyFence \in Nat
      /\ \A i \in 1 .. Len(glq) : /\ glq[i].ready \in Nat /\ SlotClear(glq[i].ready)
                                  /\ Follows(readyFence, glq[i].ready)
    BY Numbers DEF RingInv, QueueInv
<1>3. \A i \in 1 .. Len(glq) : token < glq[i].ready
    BY <1>1, <1>2 DEF Follows
<1>4. \A i \in 1 .. Len(glq) : SlotOf(glq[i].ready) # SlotOf(token)
    <2>1. TAKE i \in 1 .. Len(glq)
    <2>2. consumedFence \in Nat
        BY Numbers DEF RingInv
    <2>3. token \in 1 .. glq[i].ready - 1 /\ ~(token <= consumedFence)
        BY <1>1, <1>2, <1>3, <2>2
    <2>. QED  BY <1>2, <2>3 DEF SlotClear
<1>5. \A i \in 1 .. Len(glq), part \in Parts : ~Touches(glq[i], token, part)
    BY <1>4 DEF Touches
<1>6. ASSUME NEW part \in PartsOf(Content(token))
      PROVE  atlas[SlotOf(token)][part] = Content(token).camera
    <2>1. part \in Parts /\ Arrives(glq, atlas, token, part, Content(token).camera)
        BY <1>1 DEF PictureInv, Pixels, PartsOf, Parts
    <2>. QED  BY <1>5, <2>1 DEF Arrives
<1>. QED  BY <1>6

\* HostCopy copies what was polled under its label; the picture is whole, and not older
\* than the one it replaces, unless one of the two numbers was given away.
LEMMA CopyShows ==
    ASSUME RingInv, PictureInv, HostCopy
    PROVE  /\ token <= readyFence /\ cached.ready <= token /\ label.ready = token
           /\ cached' = [valid |-> TRUE, ready |-> token, image |-> atlas[SlotOf(token)]]
           /\ token \notin unrecorded =>
                 /\ token \in Unconsumed /\ label = Content(token)
                 /\ cached'.image[0] = label.camera /\ cached'.image[1] = label.camera
                 /\ label.hud => cached'.image[Hud] = label.camera
                 /\ token > cached.ready /\ cached.ready \notin unrecorded =>
                       cached.image[0] < label.camera
                 /\ token = cached.ready =>
                       cached.image[0] = label.camera /\ cached.image[1] = label.camera
<1>1. host = "copying" /\ token <= readyFence
    BY TokenAnnounced DEF HostCopy
<1>2. /\ label.ready = token /\ cached.ready <= token
      /\ token \notin unrecorded => label = Content(token)
    BY <1>1 DEF PictureInv, HostHolds
<1>3. cached' = [valid |-> TRUE, ready |-> token, image |-> atlas[SlotOf(token)]]
    BY DEF HostCopy
<1>4. ASSUME token \notin unrecorded
      PROVE  /\ token \in Unconsumed /\ label = Content(token)
             /\ cached'.image[0] = label.camera /\ cached'.image[1] = label.camera
             /\ label.hud => cached'.image[Hud] = label.camera
             /\ token > cached.ready /\ cached.ready \notin unrecorded =>
                   cached.image[0] < label.camera
             /\ token = cached.ready =>
                   cached.image[0] = label.camera /\ cached.image[1] = label.camera
    <2>1. token \in Unconsumed /\ label = Content(token)
        BY <1>1, <1>2, <1>4, TokenUnconsumed
    <2>2. \A part \in PartsOf(label) : cached'.image[part] = label.camera
        BY <1>1, <1>3, <1>4, <2>1, TextureWhole
    <2>3. 0 \in PartsOf(label) /\ 1 \in PartsOf(label) /\ (label.hud => Hud \in PartsOf(label))
        BY DEF PartsOf, Eyes
    <2>. QED  BY <1>4, <2>1, <2>2, <2>3 DEF PictureInv, ShownInOrder
<1>. QED  BY <1>1, <1>2, <1>3, <1>4

\* The copy keeps the invariant.
LEMMA HostCopyPicture == ASSUME RingInv, PictureInv, TypeOK', HostCopy PROVE PictureInv'
<1>1. /\ UNCHANGED <<pair, lastReady, unrecorded, glq, readyFence, consumedFence, atlas,
                     metadata, camera, token, candidate, label>>
      /\ host' = "copied"
    BY DEF HostCopy, othersThanHost, gameVars, bridgeVars, gpuVars, boundVars
<1>2. cached'.ready = token /\ label.ready = token /\ token <= readyFence
    BY CopyShows
<1>3. HostHolds'
    BY <1>1, <1>2 DEF HostHolds
<1>4. CachedMatchesLabel'
    BY <1>1, <1>2, CopyShows DEF CachedMatchesLabel, Eyes
<1>5. ASSUME token \notin unrecorded PROVE ShownInOrder'
    <2>1. /\ token \in Unconsumed /\ label = Content(token)
          /\ cached'.image[0] = label.camera /\ cached'.image[1] = label.camera
          /\ Unconsumed' = Unconsumed /\ Unconsumed \subseteq Nat /\ token \in Nat
          /\ \A r \in Unconsumed : Content(r)' = Content(r)
        BY <1>1, <1>5, CopyShows, Numbers DEF RingInv, Unconsumed, Content
    <2>2. label.camera <= camera /\ (pair # NoPair => label.camera < pair.frame.camera)
        BY <2>1 DEF PictureInv, CamerasGrow
    <2>3. \A r \in Unconsumed : /\ r > token => label.camera < Content(r).camera
                                /\ r = token => label.camera = Content(r).camera
        BY <2>1 DEF PictureInv, CamerasGrow
    <2>. QED  BY <1>1, <1>2, <2>1, <2>2, <2>3 DEF ShownInOrder
<1>6. ShownInOrder'
    BY <1>1, <1>2, <1>5 DEF ShownInOrder
<1>. QED  BY <1>1, <1>3, <1>4, <1>6, HostPicture

\* The acknowledgement keeps the invariant: what it consumes is what is shown.
LEMMA HostRetirePicture == ASSUME RingInv, PictureInv, TypeOK', HostRetire PROVE PictureInv'
<1>1. /\ UNCHANGED <<pair, lastReady, unrecorded, glq, readyFence, atlas, metadata, camera, cached,
                     label>>
      /\ host = "copied" /\ host' = "idle"
      /\ consumedFence' = IF signalOk THEN token ELSE consumedFence
    BY DEF HostRetire, Acknowledge, EndFrame, gameVars, bridgeVars, boundVars
<1>2. /\ consumedFence \in Nat /\ consumedFence' \in Nat /\ lastReady \in Nat
      /\ consumedFence <= consumedFence'
    BY <1>1, Numbers DEF RingInv, HostInv, TypeOK
<1>3. Unconsumed' \subseteq Unconsumed
    <2>1. \A m, n \in Nat : m <= n => n + 1 .. lastReady \subseteq m + 1 .. lastReady
        BY <1>2
    <2>. QED  BY <1>1, <1>2, <2>1 DEF Unconsumed
<1>4. \A r : Content(r)' = Content(r)
    BY <1>1 DEF Content
<1>5. SlotsApart'
    <2>1. \A r \in Unconsumed : SlotClear(r) => SlotClear(r)'
        BY <1>2, Numbers DEF SlotClear, RingInv
    <2>. QED  BY <1>3, <2>1 DEF PictureInv, SlotsApart
<1>6. SignalsQueued' /\ BlitsFollowed' /\ PairPixels'
    BY <1>1 DEF PictureInv, SignalsQueued, BlitsFollowed, PairPixels
<1>7. Pixels'
    BY <1>1, <1>3, <1>4 DEF PictureInv, Pixels
<1>8. CamerasGrow' /\ ShownInOrder'
    BY <1>1, <1>3, <1>4 DEF PictureInv, CamerasGrow, ShownInOrder
<1>9. HostHolds' /\ CachedMatchesLabel'
    BY <1>1 DEF PictureInv, HostHolds, CachedMatchesLabel
<1>. QED  BY <1>5, <1>6, <1>7, <1>8, <1>9 DEF PictureInv

\* Every step of the host's frame loop keeps the invariant.
LEMMA HostKeepsPicture == ASSUME RingInv, PictureInv, TypeOK', Host PROVE PictureInv'
<1>. DEFINE Same == UNCHANGED <<pair, lastReady, unrecorded, glq, readyFence, consumedFence,
                                atlas, metadata, camera>>
<1>0. /\ UNCHANGED othersThanHost => Same
      /\ readyFence \in Nat /\ cached.ready \in Nat
    BY Numbers DEF othersThanHost, gameVars, bridgeVars, gpuVars, boundVars, RingInv
<1>1. CASE HostOpen \/ HostPollFails
    <2>1. /\ Same /\ host' \in {"idle", "closed"} /\ ~cached'.valid
          /\ cached'.ready = cached.ready /\ cached'.image = cached.image
        BY <1>0, <1>1 DEF HostOpen, HostPollFails, RingInv, TypeOK
    <2>2. HostHolds' /\ CachedMatchesLabel'
        BY <2>1 DEF PictureInv, HostHolds, CachedMatchesLabel
    <2>. QED  BY <2>1, <2>2, SamePicture, HostPicture
<1>2. CASE HostPoll
    <2>1. Same /\ UNCHANGED <<cached, label>> /\ host = "idle" /\ host' = "polled"
        BY <1>0, <1>2 DEF HostPoll
    <2>2. token' = readyFence
        BY <1>2 DEF HostPoll, HasNew, IsUsable, Completed
    <2>3. HostHolds' /\ CachedMatchesLabel'
        BY <2>1, <2>2 DEF PictureInv, HostHolds, CachedMatchesLabel
    <2>. QED  BY <2>1, <2>3, SamePicture, HostPicture
<1>3. CASE HostReadMetadata \/ HostSkipFrame
    <2>1. Same /\ UNCHANGED <<cached, label>> /\ host \in {"polled", "candidate"}
        BY <1>0, <1>3 DEF HostReadMetadata, HostSkipFrame
    <2>2. \/ host' = "idle"
          \/ /\ host = "polled" /\ host' = "candidate" /\ candidate' = Content(token)
             /\ token' = token /\ candidate'.ready = token
        BY <1>3 DEF HostReadMetadata, HostSkipFrame, EndFrame, Content, Readable
    <2>3. HostHolds' /\ CachedMatchesLabel'
        BY <2>1, <2>2 DEF PictureInv, HostHolds, CachedMatchesLabel, Content
    <2>. QED  BY <2>1, <2>3, SamePicture, HostPicture
<1>4. CASE HostSubmit \/ HostFails
    <2>1. /\ Same /\ UNCHANGED <<cached, token, candidate>>
          /\ \/ host = "candidate" /\ host' = "copying" /\ label' = candidate
             \/ host' = "dead"
        BY <1>0, <1>4 DEF HostSubmit, HostFails
    <2>2. HostHolds' /\ CachedMatchesLabel'
        BY <2>1 DEF PictureInv, HostHolds, CachedMatchesLabel, Content
    <2>. QED  BY <2>1, <2>2, SamePicture, HostPicture
<1>. QED  BY <1>1, <1>2, <1>3, <1>4, HostCopyPicture, HostRetirePicture DEF Host

-----------------------------------------------------------------------------
(* The theorems *)

\* Every step keeps the invariant.
LEMMA NextPicture == ASSUME RingInv, PictureInv, TypeOK', [Next]_vars PROVE PictureInv'
<1>1. CASE Game
    <2>1. CASE \/ BeginPairExhausted \/ BeginPairSkipped \/ BeginPairWaitFails
               \/ RecoverContext
        BY <2>1, PictureQuiet
        DEF BeginPairExhausted, BeginPairSkipped, BeginPairWaitFails, RecoverContext,
            pictureVars, gameVars, bridgeVars, gpuVars, hostVars, boundVars
    <2>. QED  BY <1>1, <2>1, BeginPairPicture, RenderEyePicture, EndPairPicture,
                 BeginPresentPicture, FinishPresentPicture, FinishPresentFailsPicture
              DEF Game
<1>2. CASE Environment
    <2>1. CASE RemoveDevice \/ WorldTimeout
        BY <2>1, PictureQuiet
        DEF RemoveDevice, WorldTimeout, pictureVars, gameVars, bridgeVars, gpuVars, hostVars,
            boundVars
    <2>. QED  BY <1>2, <2>1, DeleteContextPicture, GpuExecutePicture DEF Environment
<1>3. CASE UNCHANGED vars
    BY <1>3, PictureQuiet DEF vars, pictureVars, gameVars, bridgeVars, gpuVars, hostVars, boundVars
<1>. QED  BY <1>1, <1>2, <1>3, HostKeepsPicture DEF Next

\* The inductive invariant holds in every reachable state.
THEOREM PictureInvariant == Spec => []PictureInv
<1>1. Init => PictureInv
    <2>. SUFFICES ASSUME Init PROVE PictureInv
        OBVIOUS
    <2>1. Unconsumed = {}
        BY DEF Init, Unconsumed
    <2>2. NoImage.valid = FALSE /\ NoImage.ready = 0 /\ NoImage.image[0] = 0
          /\ NoImage.image[1] = 0
        BY DEF NoImage, Parts, Eyes
    <2>3. SlotsApart /\ Pixels /\ CamerasGrow /\ PairPixels
        BY <2>1 DEF Init, SlotsApart, Pixels, CamerasGrow, PairPixels
    <2>4. SignalsQueued /\ BlitsFollowed
        BY DEF Init, SignalsQueued, BlitsFollowed
    <2>5. HostHolds /\ ShownInOrder /\ CachedMatchesLabel
        BY <2>1, <2>2 DEF Init, HostHolds, ShownInOrder, CachedMatchesLabel
    <2>. QED  BY <2>3, <2>4, <2>5 DEF PictureInv
<1>2. RingInv /\ TypeOK' /\ PictureInv /\ [Next]_vars => PictureInv'
    BY NextPicture
<1>. QED  BY <1>1, <1>2, RingInvariant, TypeCorrect, PTL DEF Spec

\* What the host shows is one picture: both eyes, and the HUD if the label announces one,
\* come from the camera frame the label of end_frame_visible_smoke names, but for numbers
\* that a failing SignalReady gave away.
THEOREM LabelsAreTrue == Spec => []CachedMatchesLabel
<1>1. PictureInv => CachedMatchesLabel
    BY DEF PictureInv
<1>. QED  BY <1>1, PictureInvariant, PTL

-----------------------------------------------------------------------------
(* The eyes never go back, not even under a number that was given away.    *)
(*                                                                         *)
(* The camera numbers of what is queued grow, so a blit makes its eye the  *)
(* newest of all slots, and what a signal announces is, eye by eye, at     *)
(* least as new as everything announced before: either the eyes were       *)
(* drawn for this number since, or nothing else was drawn (Drawn).         *)

\* No slot holds a newer picture of this eye than the slot of publication r.
Newest(image, r, e) == \A s \in Slots : image[s][e] <= image[SlotOf(r)][e]

\* When the first n commands have run, the eye of publication r is the newest of all slots.
Drawn(queue, image, n, r, e) ==
    \/ \E j \in 1 .. n : ~IsSignal(queue[j]) /\ queue[j].ready = r /\ queue[j].part = e
    \/ Newest(image, r, e) /\ \A j \in 1 .. n : queue[j].ready = r

\* What is queued later is not older.
QueueSorted ==
    \A i, j \in 1 .. Len(glq) :
        i < j => glq[i].ready <= glq[j].ready /\ glq[i].camera <= glq[j].camera

\* What is drawn is not newer than what is queued, and that not newer than the pair.
CamerasPass ==
    /\ \A i \in 1 .. Len(glq) :
          /\ glq[i].camera <= camera
          /\ \A s \in Slots, e \in Eyes : atlas[s][e] <= glq[i].camera
    /\ \A s \in Slots, e \in Eyes : atlas[s][e] <= camera
    /\ pair # NoPair => pair.frame.camera = camera

\* What a signal will announce, and what the pair has captured, is newest by then.
SignalsDrawn ==
    /\ \A i \in 1 .. Len(glq) : IsSignal(glq[i]) =>
          \A e \in Eyes : Drawn(glq, atlas, i - 1, glq[i].ready, e)
    /\ pair # NoPair =>
          \A e \in pair.captured : Drawn(glq, atlas, Len(glq), lastReady + 1, e)

\* What is announced later is not older, nor is it older than what is shown.
ShownAges ==
    /\ \A r, q \in consumedFence + 1 .. readyFence :
          r <= q => \A e \in Eyes : atlas[SlotOf(r)][e] <= atlas[SlotOf(q)][e]
    /\ \A e \in Eyes : cached.image[e] <= atlas[SlotOf(cached.ready)][e]
    /\ \A r \in consumedFence + 1 .. readyFence :
          cached.ready <= r => \A e \in Eyes : cached.image[e] <= atlas[SlotOf(r)][e]

AgeInv == QueueSorted /\ CamerasPass /\ SignalsDrawn /\ ShownAges

ageVars == <<pair, lastReady, glq, readyFence, consumedFence, atlas, cached, camera>>

\* A step that leaves these variables alone keeps the ages.
LEMMA AgeQuiet == ASSUME AgeInv, UNCHANGED ageVars PROVE AgeInv'
    BY DEF ageVars, AgeInv, QueueSorted, CamerasPass, SignalsDrawn, ShownAges

\* The types of what is drawn, queued and shown.
LEMMA AgeNumbers ==
    ASSUME TypeOK
    PROVE  /\ \A s \in Slots, e \in Eyes : atlas[s][e] \in Nat
           /\ \A e \in Eyes : cached.image[e] \in Nat
           /\ \A i \in 1 .. Len(glq) : /\ glq[i] \in Commands /\ glq[i].ready \in Nat
                                       /\ glq[i].camera \in Nat /\ glq[i].part \in Parts
           /\ consumedFence \in Nat /\ readyFence \in Nat /\ lastReady \in Nat
           /\ camera \in Nat /\ cached.ready \in Nat /\ glq \in Seq(Commands)
           /\ SlotOf(cached.ready) \in Slots /\ SlotOf(lastReady + 1) \in Slots
           /\ Eyes \subseteq Parts
<1>1. Eyes \subseteq Parts
    BY DEF Parts
<1>2. /\ consumedFence \in Nat /\ readyFence \in Nat /\ lastReady \in Nat
      /\ camera \in Nat /\ cached.ready \in Nat /\ glq \in Seq(Commands)
    BY DEF TypeOK
<1>3. SlotOf(cached.ready) \in Slots /\ SlotOf(lastReady + 1) \in Slots
    BY <1>2, SlotOfType
<1>4. \A i \in 1 .. Len(glq) : glq[i] \in Commands
    BY <1>2, ElementOfSeq
<1>5. \A c \in Commands : c.ready \in Nat /\ c.camera \in Nat /\ c.part \in Parts
    BY DEF Commands
<1>6. /\ \A s \in Slots, e \in Eyes : atlas[s][e] \in Nat
      /\ \A e \in Eyes : cached.image[e] \in Nat
    BY <1>1 DEF TypeOK
<1>. QED  BY <1>1, <1>2, <1>3, <1>4, <1>5, <1>6

\* A command of the pair is queued: it is the newest, and draws its part.
LEMMA AgeAppend ==
    ASSUME RingInv, AgeInv, NEW c \in Commands, c.ready = lastReady + 1, c.camera = camera,
           IsSignal(c) => \A e \in Eyes : Drawn(glq, atlas, Len(glq), lastReady + 1, e),
           glq' = Append(glq, c), UNCHANGED <<atlas, camera>>
    PROVE  /\ QueueSorted'
           /\ \A i \in 1 .. Len(glq') :
                 /\ glq'[i].camera <= camera
                 /\ \A s \in Slots, e \in Eyes : atlas[s][e] <= glq'[i].camera
                 /\ IsSignal(glq'[i]) =>
                       \A e \in Eyes : Drawn(glq', atlas, i - 1, glq'[i].ready, e)
           /\ \A e \in Eyes :
                 \/ Drawn(glq, atlas, Len(glq), lastReady + 1, e)
                 \/ ~IsSignal(c) /\ c.part = e
                 => Drawn(glq', atlas, Len(glq'), lastReady + 1, e)
<1>0. TypeOK /\ glq \in Seq(Commands) /\ lastReady \in Nat /\ camera \in Nat
    BY AgeNumbers DEF RingInv
<1>1. /\ Len(glq') = Len(glq) + 1 /\ Len(glq) \in Nat /\ glq'[Len(glq) + 1] = c
      /\ \A i \in 1 .. Len(glq) : glq'[i] = glq[i]
    BY <1>0, AppendProperties
<1>2. \A i \in 1 .. Len(glq') : i \in 1 .. Len(glq) \/ i = Len(glq) + 1
    BY <1>1
<1>3. \A i \in 1 .. Len(glq) : glq[i].ready <= lastReady + 1 /\ glq[i].camera <= camera
    BY DEF RingInv, QueueInv, AgeInv, CamerasPass
<1>4. QueueSorted'
    <2>1. ASSUME NEW i \in 1 .. Len(glq'), NEW j \in 1 .. Len(glq'), i < j
          PROVE  glq'[i].ready <= glq'[j].ready /\ glq'[i].camera <= glq'[j].camera
        <3>1. i \in 1 .. Len(glq)
            BY <1>1, <2>1
        <3>2. CASE j \in 1 .. Len(glq)
            BY <1>1, <2>1, <3>1, <3>2 DEF AgeInv, QueueSorted
        <3>3. CASE j = Len(glq) + 1
            BY <1>1, <1>3, <3>1, <3>3
        <3>. QED  BY <1>2, <3>2, <3>3
    <2>. QED  BY <2>1 DEF QueueSorted
<1>5. ASSUME NEW n \in 0 .. Len(glq), NEW r, NEW e
      PROVE  Drawn(glq, atlas, n, r, e) <=> Drawn(glq', atlas, n, r, e)
    <2>1. \A j \in 1 .. n : glq'[j] = glq[j]
        BY <1>1
    <2>. QED  BY <2>1 DEF Drawn
<1>6. ASSUME NEW i \in 1 .. Len(glq')
      PROVE  /\ glq'[i].camera <= camera
             /\ \A s \in Slots, e \in Eyes : atlas[s][e] <= glq'[i].camera
             /\ IsSignal(glq'[i]) =>
                   \A e \in Eyes : Drawn(glq', atlas, i - 1, glq'[i].ready, e)
    <2>1. CASE i \in 1 .. Len(glq)
        <3>1. glq'[i] = glq[i] /\ i - 1 \in 0 .. Len(glq)
            BY <1>1, <2>1
        <3>. QED  BY <1>5, <2>1, <3>1 DEF AgeInv, CamerasPass, SignalsDrawn
    <2>2. CASE i = Len(glq) + 1
        <3>1. glq'[i] = c /\ i - 1 = Len(glq) /\ Len(glq) \in 0 .. Len(glq)
            BY <1>1, <2>2
        <3>. QED  BY <1>0, <1>5, <3>1 DEF AgeInv, CamerasPass
    <2>. QED  BY <1>2, <2>1, <2>2
<1>7. ASSUME NEW e \in Eyes,
             \/ Drawn(glq, atlas, Len(glq), lastReady + 1, e)
             \/ ~IsSignal(c) /\ c.part = e
      PROVE  Drawn(glq', atlas, Len(glq'), lastReady + 1, e)
    <2>1. Len(glq) + 1 \in 1 .. Len(glq') /\ \A j \in 1 .. Len(glq) : j \in 1 .. Len(glq')
        BY <1>1
    <2>. QED  BY <1>1, <1>2, <1>7, <2>1 DEF Drawn
<1>. QED  BY <1>4, <1>6, <1>7

\* The steps of the game's CPU leave what is drawn and shown alone.
LEMMA AgeGame ==
    ASSUME AgeInv, UNCHANGED <<readyFence, consumedFence, atlas, cached>>, camera' \in Nat,
           camera \in Nat, TypeOK, camera <= camera', QueueSorted',
           \A i \in 1 .. Len(glq') :
              /\ glq'[i].camera <= camera
              /\ \A s \in Slots, e \in Eyes : atlas[s][e] <= glq'[i].camera
              /\ IsSignal(glq'[i]) =>
                    \A e \in Eyes : Drawn(glq', atlas, i - 1, glq'[i].ready, e),
           pair' # NoPair =>
              /\ pair'.frame.camera = camera'
              /\ \A e \in pair'.captured : Drawn(glq', atlas, Len(glq'), lastReady' + 1, e),
           \A i \in 1 .. Len(glq') : glq'[i].camera \in Nat
    PROVE  AgeInv'
<1>1. \A s \in Slots, e \in Eyes : atlas[s][e] <= camera'
    BY AgeNumbers DEF AgeInv, CamerasPass
<1>2. CamerasPass'
    BY <1>1 DEF CamerasPass
<1>3. SignalsDrawn'
    BY DEF SignalsDrawn
<1>4. ShownAges'
    BY DEF AgeInv, ShownAges
<1>. QED  BY <1>2, <1>3, <1>4 DEF AgeInv

\* The steps of the game's CPU keep the ages.
LEMMA GameAges == ASSUME RingInv, PictureInv, AgeInv, TypeOK', Game PROVE AgeInv'
<1>0. TypeOK /\ camera \in Nat /\ camera' \in Nat /\ lastReady \in Nat
    BY DEF RingInv, TypeOK
<1>1. /\ QueueSorted
      /\ \A i \in 1 .. Len(glq) :
            /\ glq[i].camera <= camera /\ glq[i].camera \in Nat
            /\ \A s \in Slots, e \in Eyes : atlas[s][e] <= glq[i].camera
            /\ IsSignal(glq[i]) => \A e \in Eyes : Drawn(glq, atlas, i - 1, glq[i].ready, e)
    BY <1>0, AgeNumbers DEF AgeInv, CamerasPass, SignalsDrawn
<1>2. pair # NoPair =>
         /\ pair.frame.camera = camera
         /\ \A e \in pair.captured : Drawn(glq, atlas, Len(glq), lastReady + 1, e)
    BY DEF AgeInv, CamerasPass, SignalsDrawn
<1>3. \A i \in 1 .. Len(glq') : glq'[i].camera \in Nat
    <2>1. glq' \in Seq(Commands)
        BY DEF TypeOK
    <2>2. \A i \in 1 .. Len(glq') : glq'[i] \in Commands
        BY <2>1, ElementOfSeq
    <2>. QED  BY <2>2 DEF Commands
<1>4. CASE \/ BeginPairExhausted \/ BeginPairSkipped \/ BeginPairWaitFails
           \/ RecoverContext
    BY <1>4, AgeQuiet
    DEF BeginPairExhausted, BeginPairSkipped, BeginPairWaitFails, RecoverContext,
        ageVars, gameVars, gpuVars, hostVars, boundVars
<1>5. CASE BeginPair
    <2>1. /\ UNCHANGED <<readyFence, consumedFence, atlas, cached, glq, lastReady>>
          /\ camera' = camera + 1
          /\ pair'.frame.camera = camera + 1 /\ pair'.captured = {}
        BY <1>5 DEF BeginPair, NewFrame, NoPair, gpuVars, hostVars
    <2>2. QueueSorted'
        BY <1>1, <2>1 DEF QueueSorted
    <2>. QED  BY <1>0, <1>1, <1>3, <2>1, <2>2, AgeGame
<1>6. CASE RenderEye
    <2>1. /\ UNCHANGED <<readyFence, consumedFence, atlas, cached, lastReady, camera>>
          /\ pair # NoPair
        BY <1>6 DEF RenderEye, NoPair, hostVars, boundVars
    <2>2. PICK blitted \in BOOLEAN, ok \in BOOLEAN :
            /\ ok => blitted
            /\ glq' = IF blitted THEN Append(glq, Blit(pair.eye)) ELSE glq
            /\ pair' = [pair EXCEPT !.eye = pair.eye + 1,
                            !.captured = IF ok THEN @ \cup {pair.eye} ELSE @]
        BY <1>6 DEF RenderEye
    <2>3. /\ pair'.frame = pair.frame /\ pair.captured \subseteq Eyes
          /\ pair'.captured = IF ok THEN pair.captured \cup {pair.eye} ELSE pair.captured
        BY <2>2 DEF RingInv, TypeOK, Pairs
    <2>4. pair.eye \in Eyes
        <3>1. pair.eye \in 0 .. 2 /\ pair.eye < 2
            BY <1>6 DEF RenderEye, EyesLeft, RingInv, TypeOK, Pairs
        <3>. QED  BY <3>1 DEF Eyes
    <2>5. CASE blitted
        <3>1. /\ Blit(pair.eye) \in Commands /\ Blit(pair.eye).ready = lastReady + 1
              /\ Blit(pair.eye).camera = camera /\ Blit(pair.eye).part = pair.eye
              /\ ~IsSignal(Blit(pair.eye))
            BY <1>2, <2>1, <2>4, PairCommands DEF Blit, Parts
        <3>2. glq' = Append(glq, Blit(pair.eye))
            BY <2>2, <2>5
        <3>3. /\ QueueSorted'
              /\ \A i \in 1 .. Len(glq') :
                    /\ glq'[i].camera <= camera
                    /\ \A s \in Slots, e \in Eyes : atlas[s][e] <= glq'[i].camera
                    /\ IsSignal(glq'[i]) =>
                          \A e \in Eyes : Drawn(glq', atlas, i - 1, glq'[i].ready, e)
              /\ \A e \in Eyes :
                    Drawn(glq, atlas, Len(glq), lastReady + 1, e) \/ pair.eye = e
                    => Drawn(glq', atlas, Len(glq'), lastReady + 1, e)
            BY <2>1, <3>1, <3>2, AgeAppend
        <3>4. \A e \in pair'.captured : Drawn(glq', atlas, Len(glq'), lastReady + 1, e)
            BY <1>2, <2>1, <2>3, <2>4, <3>3
        <3>. QED  BY <1>0, <1>2, <1>3, <2>1, <2>3, <3>3, <3>4, AgeGame
    <2>6. CASE ~blitted
        <3>1. glq' = glq /\ pair'.captured = pair.captured
            BY <2>2, <2>3, <2>6
        <3>2. QueueSorted'
            BY <1>1, <3>1 DEF QueueSorted
        <3>. QED  BY <1>0, <1>1, <1>2, <1>3, <2>1, <2>3, <3>1, <3>2, AgeGame
    <2>. QED  BY <2>5, <2>6
<1>7. CASE EndPair \/ BeginHud
    <2>1. /\ UNCHANGED <<readyFence, consumedFence, atlas, cached, lastReady, camera, glq>>
          /\ pair # NoPair
        BY <1>7 DEF EndPair, BeginHud, NoPair, gpuVars, hostVars, boundVars
    <2>2. \/ pair' = NoPair
          \/ pair'.frame = pair.frame /\ pair'.captured = pair.captured
        BY <1>7 DEF EndPair, BeginHud, RingInv, TypeOK, Pairs
    <2>3. QueueSorted'
        BY <1>1, <2>1 DEF QueueSorted
    <2>. QED  BY <1>0, <1>1, <1>2, <1>3, <2>1, <2>2, <2>3, AgeGame
<1>8. CASE BeginPresent
    <2>1. /\ UNCHANGED <<readyFence, consumedFence, atlas, cached, lastReady, camera>>
          /\ pair # NoPair
        <3>1. pair.phase = "awaiting" /\ NoPair.phase = "idle"
            BY <1>8 DEF BeginPresent, NoPair
        <3>. QED  BY <1>8, <3>1 DEF BeginPresent, hostVars, boundVars
    <2>2. \/ pair' = NoPair
          \/ pair'.frame.camera = pair.frame.camera /\ pair'.captured = pair.captured
        <3>1. \/ pair' = NoPair
              \/ \E drawn \in BOOLEAN :
                    pair' = [pair EXCEPT !.phase = "writing", !.frame.hud = drawn]
            BY <1>8 DEF BeginPresent
        <3>2. pair \in Pairs /\ pair.frame \in Frames
            BY DEF RingInv, TypeOK, Pairs
        <3>3. ASSUME NEW drawn \in BOOLEAN,
                     pair' = [pair EXCEPT !.phase = "writing", !.frame.hud = drawn]
              PROVE  pair'.frame.camera = pair.frame.camera /\ pair'.captured = pair.captured
            <4>1. /\ pair'.frame = [pair.frame EXCEPT !.hud = drawn]
                  /\ pair'.captured = pair.captured
                BY <3>2, <3>3 DEF Pairs
            <4>. QED  BY <3>2, <4>1 DEF Frames
        <3>. QED  BY <3>1, <3>3
    <2>3. CASE pair.hud
        <3>1. /\ Blit(Hud) \in Commands /\ Blit(Hud).ready = lastReady + 1
              /\ Blit(Hud).camera = camera /\ ~IsSignal(Blit(Hud))
            BY <1>2, <2>1, PairCommands DEF Blit, Parts
        <3>2. glq' = Append(glq, Blit(Hud))
            BY <1>8, <2>3 DEF BeginPresent
        <3>3. /\ QueueSorted'
              /\ \A i \in 1 .. Len(glq') :
                    /\ glq'[i].camera <= camera
                    /\ \A s \in Slots, e \in Eyes : atlas[s][e] <= glq'[i].camera
                    /\ IsSignal(glq'[i]) =>
                          \A e \in Eyes : Drawn(glq', atlas, i - 1, glq'[i].ready, e)
              /\ \A e \in Eyes :
                    Drawn(glq, atlas, Len(glq), lastReady + 1, e)
                    => Drawn(glq', atlas, Len(glq'), lastReady + 1, e)
            BY <2>1, <3>1, <3>2, AgeAppend
        <3>4. pair.captured \subseteq Eyes
            BY DEF RingInv, TypeOK, Pairs
        <3>. QED  BY <1>0, <1>2, <1>3, <2>1, <2>2, <3>3, <3>4, AgeGame
    <2>4. CASE ~pair.hud
        <3>1. glq' = glq
            BY <1>8, <2>4 DEF BeginPresent
        <3>2. QueueSorted'
            BY <1>1, <3>1 DEF QueueSorted
        <3>. QED  BY <1>0, <1>1, <1>2, <1>3, <2>1, <2>2, <3>1, <3>2, AgeGame
    <2>. QED  BY <2>3, <2>4
<1>9. CASE FinishPresent \/ FinishPresentFails
    <2>1. /\ UNCHANGED <<readyFence, consumedFence, atlas, cached, camera>>
          /\ EndWrite
          /\ glq' = glq \/ glq' = Append(glq, Signal)
        BY <1>9 DEF FinishPresent, FinishPresentFails, gpuVars, hostVars,
                    boundVars
    <2>2. pair # NoPair /\ pair.phase = "writing" /\ pair' = NoPair
        BY <2>1 DEF EndWrite, NoPair
    <2>3. CASE glq' = glq
        <3>1. QueueSorted'
            BY <1>1, <2>3 DEF QueueSorted
        <3>. QED  BY <1>0, <1>1, <1>3, <2>1, <2>2, <2>3, <3>1, AgeGame
    <2>4. CASE glq' = Append(glq, Signal)
        <3>1. /\ Signal \in Commands /\ Signal.ready = lastReady + 1 /\ Signal.camera = camera
            BY <1>2, <2>2, PairCommands DEF Signal
        <3>2. \A e \in Eyes : Drawn(glq, atlas, Len(glq), lastReady + 1, e)
            BY <1>2, <2>2 DEF PictureInv, PairPixels
        <3>3. /\ QueueSorted'
              /\ \A i \in 1 .. Len(glq') :
                    /\ glq'[i].camera <= camera
                    /\ \A s \in Slots, e \in Eyes : atlas[s][e] <= glq'[i].camera
                    /\ IsSignal(glq'[i]) =>
                          \A e \in Eyes : Drawn(glq', atlas, i - 1, glq'[i].ready, e)
            BY <2>1, <2>4, <3>1, <3>2, AgeAppend
        <3>. QED  BY <1>0, <1>3, <2>1, <2>2, <3>3, AgeGame
    <2>. QED  BY <2>1, <2>3, <2>4
<1>. QED  BY <1>4, <1>5, <1>6, <1>7, <1>8, <1>9 DEF Game

\* What survives the loss of the context keeps its order.
LEMMA DeleteContextAges ==
    ASSUME RingInv, PictureInv, AgeInv, TypeOK', DeleteContext
    PROVE  AgeInv'
<1>1. /\ UNCHANGED <<lastReady, readyFence, consumedFence, atlas, camera, cached>>
      /\ pair' = NoPair
    BY DEF DeleteContext, hostVars
<1>2. PICK k \in 0 .. Len(glq) : glq' = SubSeq(glq, 1, k)
    BY DEF DeleteContext, Survivors
<1>3. glq \in Seq(Commands) /\ Len(glq) \in Nat
    BY DEF RingInv, TypeOK
<1>4. Len(glq') = k /\ k \in Nat /\ \A i \in 1 .. k : glq'[i] = glq[i] /\ i \in 1 .. Len(glq)
    BY <1>2, <1>3, SubSeqProperties
<1>5. QueueSorted'
    BY <1>4 DEF AgeInv, QueueSorted
<1>6. CamerasPass'
    BY <1>1, <1>4 DEF AgeInv, CamerasPass
<1>7. SignalsDrawn'
    <2>1. ASSUME NEW i \in 1 .. k, NEW r, NEW e, Drawn(glq, atlas, i - 1, r, e)
          PROVE  Drawn(glq', atlas, i - 1, r, e)
        <3>1. \A j \in 1 .. i - 1 : glq'[j] = glq[j]
            BY <1>4
        <3>. QED  BY <2>1, <3>1 DEF Drawn
    <2>. QED  BY <1>1, <1>4, <2>1 DEF AgeInv, SignalsDrawn
<1>8. ShownAges'
    BY <1>1 DEF AgeInv, ShownAges
<1>. QED  BY <1>5, <1>6, <1>7, <1>8 DEF AgeInv

\* Running the oldest command leaves what a later signal will find drawn.
LEMMA DrawnTail ==
    ASSUME RingInv, AgeInv, GpuExecute, NEW n \in 1 .. Len(glq), NEW r \in Nat, NEW e \in Eyes,
           \A j \in 1 .. n : glq[j].ready <= r,
           \A s \in Slots : atlas'[s][e] \in Nat,
           Drawn(glq, atlas, n, r, e)
    PROVE  Drawn(glq', atlas', n - 1, r, e)
<1>. DEFINE c == Head(glq)
<1>0. TypeOK /\ glq \in Seq(Commands) /\ glq # <<>> /\ glq' = Tail(glq)
    BY AgeNumbers DEF RingInv, GpuExecute
<1>1. /\ c = glq[1] /\ Len(glq) \in Nat /\ 1 \in 1 .. n /\ 1 \in 1 .. Len(glq)
      /\ Len(glq') = Len(glq) - 1 /\ \A j \in 1 .. Len(glq) - 1 : glq'[j] = glq[j + 1]
    BY <1>0, HeadTailProperties
<1>2. \A j \in 1 .. n - 1 : j + 1 \in 1 .. n /\ glq'[j] = glq[j + 1] /\ 1 < j + 1
                            /\ j + 1 \in 1 .. Len(glq)
    BY <1>1
<1>3. /\ c \in Commands /\ c.ready \in Nat /\ c.camera \in Nat /\ c.part \in Parts
      /\ SlotOf(c.ready) \in Slots /\ SlotOf(r) \in Slots /\ e \in Parts
    BY <1>0, <1>1, AgeNumbers, SlotOfType
<1>4. /\ \A s \in Slots : atlas[s][e] \in Nat /\ atlas[s][e] <= c.camera
      /\ atlas \in [Slots -> [Parts -> Nat]]
    BY <1>0, <1>1, AgeNumbers DEF AgeInv, CamerasPass, TypeOK
<1>5. CASE \E j \in 2 .. n : ~IsSignal(glq[j]) /\ glq[j].ready = r /\ glq[j].part = e
    <2>1. PICK j \in 2 .. n : ~IsSignal(glq[j]) /\ glq[j].ready = r /\ glq[j].part = e
        BY <1>5
    <2>2. j - 1 \in 1 .. n - 1 /\ glq'[j - 1] = glq[j]
        BY <1>1
    <2>. QED  BY <2>1, <2>2 DEF Drawn
<1>6. ASSUME c.ready = r, ~IsSignal(c), c.part = e
      PROVE  Drawn(glq', atlas', n - 1, r, e)
    <2>1. atlas' = [atlas EXCEPT ![SlotOf(c.ready)][c.part] = c.camera]
        BY <1>6 DEF GpuExecute
    <2>2. atlas'[SlotOf(r)][e] = c.camera
        BY <1>3, <1>4, <1>6, <2>1
    <2>3. \A s \in Slots : atlas'[s][e] = atlas[s][e] \/ atlas'[s][e] = c.camera
        BY <1>3, <1>4, <1>6, <2>1
    <2>4. Newest(atlas', r, e)
        <3>1. ASSUME NEW s \in Slots PROVE atlas'[s][e] <= c.camera
            <4>1. /\ atlas[s][e] \in Nat /\ atlas[s][e] <= c.camera /\ c.camera \in Nat
                  /\ atlas'[s][e] = atlas[s][e] \/ atlas'[s][e] = c.camera
                BY <1>3, <1>4, <2>3
            <4>. QED  BY <4>1
        <3>. QED  BY <2>2, <3>1 DEF Newest
    <2>5. ASSUME NEW j \in 1 .. n - 1
          PROVE  glq'[j].ready = r
        <3>1. glq[1].ready <= glq[j + 1].ready /\ glq[j + 1].ready <= r
            BY <1>1, <1>2 DEF AgeInv, QueueSorted
        <3>2. glq[j + 1].ready \in Nat
            BY <1>0, <1>2, AgeNumbers
        <3>. QED  BY <1>1, <1>2, <1>3, <1>6, <3>1, <3>2
    <2>. QED  BY <2>4, <2>5 DEF Drawn
<1>7. ASSUME Newest(atlas, r, e), \A j \in 1 .. n : glq[j].ready = r
      PROVE  Drawn(glq', atlas', n - 1, r, e)
    <2>1. c.ready = r
        BY <1>1, <1>7
    <2>2. CASE ~IsSignal(c) /\ c.part = e
        BY <1>6, <2>1, <2>2
    <2>3. CASE IsSignal(c)
        <3>1. atlas' = atlas
            BY <2>3 DEF GpuExecute
        <3>. QED  BY <1>2, <1>7, <3>1 DEF Drawn, Newest
    <2>4. CASE ~IsSignal(c) /\ c.part # e
        <3>1. atlas' = [atlas EXCEPT ![SlotOf(c.ready)][c.part] = c.camera]
            BY <2>4 DEF GpuExecute
        <3>2. \A s \in Slots : atlas'[s][e] = atlas[s][e]
            BY <1>3, <1>4, <2>4, <3>1
        <3>3. Newest(atlas', r, e)
            BY <1>3, <1>7, <3>2 DEF Newest
        <3>. QED  BY <1>2, <1>7, <3>3 DEF Drawn
    <2>. QED  BY <2>2, <2>3, <2>4
<1>8. \A j \in 1 .. n : j = 1 \/ j \in 2 .. n
    BY <1>1
<1>. QED  BY <1>1, <1>5, <1>6, <1>7, <1>8 DEF Drawn

\* What the blit the GPU runs draws is newer than what every slot held, and leaves alone
\* what is announced under an earlier number than the ready fence's.
LEMMA BlitAges ==
    ASSUME RingInv, AgeInv, GpuExecute, ~IsSignal(Head(glq))
    PROVE  /\ \A s \in Slots, e \in Eyes :
                 /\ atlas'[s][e] \in Nat /\ atlas[s][e] <= atlas'[s][e]
                 /\ atlas'[s][e] = atlas[s][e] \/ atlas'[s][e] = Head(glq).camera
           /\ \A r \in consumedFence + 1 .. readyFence - 1 : atlas'[SlotOf(r)] = atlas[SlotOf(r)]
<1>. DEFINE c == Head(glq)
<1>1. /\ TypeOK /\ glq \in Seq(Commands) /\ c = glq[1] /\ 1 \in 1 .. Len(glq)
      /\ atlas' = [atlas EXCEPT ![SlotOf(c.ready)][c.part] = c.camera]
    BY AgeNumbers DEF RingInv, GpuExecute
<1>2. /\ c.ready \in Nat /\ c.camera \in Nat /\ c.part \in Parts /\ SlotOf(c.ready) \in Slots
      /\ \A s \in Slots, e \in Eyes : atlas[s][e] \in Nat
      /\ consumedFence \in Nat /\ readyFence \in Nat
    BY <1>1, AgeNumbers, SlotOfType
<1>3. \A s \in Slots, e \in Eyes : atlas[s][e] <= c.camera
    BY <1>1 DEF AgeInv, CamerasPass
<1>4. atlas \in [Slots -> [Parts -> Nat]]
    BY <1>1 DEF TypeOK
<1>5. \A s \in Slots, e \in Eyes : atlas'[s][e] = atlas[s][e] \/ atlas'[s][e] = c.camera
    BY <1>1, <1>2, <1>4, AgeNumbers
<1>6. ASSUME NEW r \in consumedFence + 1 .. readyFence - 1
      PROVE  atlas'[SlotOf(r)] = atlas[SlotOf(r)]
    <2>1. Follows(readyFence, c.ready) /\ SlotClear(c.ready)
        BY <1>1 DEF RingInv, QueueInv
    <2>2. r \in Nat /\ r \in 1 .. c.ready - 1 /\ ~(r <= consumedFence)
        BY <1>2, <2>1 DEF Follows
    <2>3. SlotOf(r) # SlotOf(c.ready) /\ SlotOf(r) \in Slots
        BY <2>1, <2>2, SlotOfType DEF SlotClear
    <2>. QED  BY <1>1, <1>4, <2>3
<1>. QED  BY <1>2, <1>3, <1>5, <1>6

\* Running the queue keeps the ages.
LEMMA GpuExecuteAges ==
    ASSUME RingInv, PictureInv, AgeInv, TypeOK', GpuExecute
    PROVE  AgeInv'
<1>. DEFINE c == Head(glq)
<1>0. /\ TypeOK /\ UNCHANGED <<pair, lastReady, consumedFence, camera, cached>>
      /\ glq \in Seq(Commands) /\ glq # <<>> /\ glq' = Tail(glq)
    BY AgeNumbers DEF RingInv, GpuExecute, gameVars, hostVars, boundVars
<1>1. /\ c = glq[1] /\ Len(glq) \in Nat /\ 1 \in 1 .. Len(glq)
      /\ Len(glq') = Len(glq) - 1
      /\ \A j \in 1 .. Len(glq') : glq'[j] = glq[j + 1] /\ j + 1 \in 1 .. Len(glq) /\ 1 < j + 1
    BY <1>0, HeadTailProperties
<1>2. IsSignal(c) => atlas' = atlas
    BY DEF GpuExecute
<1>3. \A s \in Slots, e \in Eyes :
         /\ atlas[s][e] \in Nat /\ atlas'[s][e] \in Nat /\ atlas[s][e] <= atlas'[s][e]
         /\ atlas'[s][e] = atlas[s][e] \/ atlas'[s][e] = c.camera
    BY <1>0, <1>2, AgeNumbers, BlitAges
<1>4. /\ c.camera \in Nat /\ camera \in Nat /\ c.camera <= camera /\ lastReady \in Nat
      /\ consumedFence \in Nat /\ readyFence \in Nat /\ cached.ready \in Nat
      /\ SlotOf(cached.ready) \in Slots /\ \A e \in Eyes : cached.image[e] \in Nat
      /\ \A i \in 1 .. Len(glq) : glq[i].ready \in Nat /\ glq[i].camera \in Nat
    BY <1>0, <1>1, AgeNumbers DEF AgeInv, CamerasPass
<1>5. QueueSorted'
    <2>1. ASSUME NEW i \in 1 .. Len(glq'), NEW j \in 1 .. Len(glq'), i < j
          PROVE  glq'[i].ready <= glq'[j].ready /\ glq'[i].camera <= glq'[j].camera
        <3>1. i + 1 < j + 1 /\ glq'[i] = glq[i + 1] /\ glq'[j] = glq[j + 1]
            BY <1>1, <2>1
        <3>. QED  BY <1>1, <3>1 DEF AgeInv, QueueSorted
    <2>. QED  BY <2>1 DEF QueueSorted
<1>6. CamerasPass'
    <2>1. ASSUME NEW s \in Slots, NEW e \in Eyes
          PROVE  atlas'[s][e] <= camera
        BY <1>3, <1>4, <2>1 DEF AgeInv, CamerasPass
    <2>2. ASSUME NEW i \in 1 .. Len(glq'), NEW s \in Slots, NEW e \in Eyes
          PROVE  atlas'[s][e] <= glq'[i].camera
        <3>1. glq[1].camera <= glq[i + 1].camera /\ atlas[s][e] <= glq[i + 1].camera
            BY <1>1 DEF AgeInv, QueueSorted, CamerasPass
        <3>. QED  BY <1>1, <1>3, <3>1
    <2>. QED  BY <1>0, <1>1, <2>1, <2>2 DEF AgeInv, CamerasPass
<1>7. SignalsDrawn'
    <2>1. ASSUME NEW i \in 1 .. Len(glq'), IsSignal(glq'[i]), NEW e \in Eyes
          PROVE  Drawn(glq', atlas', i - 1, glq'[i].ready, e)
        <3>1. /\ glq'[i] = glq[i + 1] /\ i + 1 \in 1 .. Len(glq) /\ i \in 1 .. Len(glq)
              /\ (i + 1) - 1 = i /\ glq[i + 1].ready \in Nat
            BY <1>1, <1>4
        <3>2. Drawn(glq, atlas, i, glq[i + 1].ready, e)
            BY <2>1, <3>1 DEF AgeInv, SignalsDrawn
        <3>3. \A j \in 1 .. i : glq[j].ready <= glq[i + 1].ready
            BY <1>1, <3>1 DEF AgeInv, QueueSorted
        <3>. QED  BY <1>3, <3>1, <3>2, <3>3, DrawnTail
    <2>2. ASSUME pair # NoPair, NEW e \in pair.captured
          PROVE  Drawn(glq', atlas', Len(glq'), lastReady + 1, e)
        <3>1. e \in Eyes /\ Len(glq) \in 1 .. Len(glq) /\ lastReady + 1 \in Nat
            BY <1>1, <1>4, <2>2 DEF RingInv, TypeOK, Pairs
        <3>2. Drawn(glq, atlas, Len(glq), lastReady + 1, e)
            BY <2>2 DEF AgeInv, SignalsDrawn
        <3>3. \A j \in 1 .. Len(glq) : glq[j].ready <= lastReady + 1
            BY DEF RingInv, QueueInv
        <3>. QED  BY <1>1, <1>3, <3>1, <3>2, <3>3, DrawnTail
    <2>. QED  BY <1>0, <2>1, <2>2 DEF SignalsDrawn
<1>8. ShownAges'
    <2>0. \A r \in consumedFence + 1 .. readyFence' : r \in Nat /\ SlotOf(r) \in Slots
        BY <1>4, SlotOfType
    <2>1. CASE ~IsSignal(c)
        <3>1. readyFence' = readyFence
            BY <2>1 DEF GpuExecute
        <3>2. ASSUME NEW r \in consumedFence + 1 .. readyFence,
                     NEW q \in consumedFence + 1 .. readyFence, r <= q, NEW e \in Eyes
              PROVE  atlas'[SlotOf(r)][e] <= atlas'[SlotOf(q)][e]
            <4>1. CASE r = q
                BY <1>3, <2>0, <3>1, <4>1
            <4>2. CASE r # q
                <5>1. r \in consumedFence + 1 .. readyFence - 1
                    BY <1>4, <3>2, <4>2
                <5>2. atlas'[SlotOf(r)] = atlas[SlotOf(r)]
                    BY <2>1, <5>1, BlitAges
                <5>3. atlas[SlotOf(r)][e] <= atlas[SlotOf(q)][e]
                    BY <3>2 DEF AgeInv, ShownAges
                <5>. QED  BY <1>3, <2>0, <3>1, <5>2, <5>3
            <4>. QED  BY <4>1, <4>2
        <3>3. ASSUME NEW s \in Slots, NEW e \in Eyes, cached.image[e] <= atlas[s][e]
              PROVE  cached.image[e] <= atlas'[s][e]
            BY <1>3, <1>4, <3>3
        <3>. QED  BY <1>0, <1>4, <2>0, <3>1, <3>2, <3>3 DEF AgeInv, ShownAges
    <2>2. CASE IsSignal(c) /\ c.ready = readyFence
        <3>1. readyFence' = readyFence /\ atlas' = atlas
            BY <1>2, <2>2 DEF GpuExecute
        <3>. QED  BY <1>0, <3>1 DEF AgeInv, ShownAges
    <2>3. CASE IsSignal(c) /\ c.ready = readyFence + 1
        <3>1. readyFence' = readyFence + 1 /\ atlas' = atlas
            BY <1>2, <2>3 DEF GpuExecute
        <3>2. \A e \in Eyes : Newest(atlas, readyFence + 1, e)
            BY <1>1, <2>3 DEF AgeInv, SignalsDrawn, Drawn
        <3>3. \A r \in consumedFence + 1 .. readyFence + 1 :
                 r \in consumedFence + 1 .. readyFence \/ r = readyFence + 1
            BY <1>4
        <3>4. ASSUME NEW r \in consumedFence + 1 .. readyFence + 1,
                     NEW q \in consumedFence + 1 .. readyFence + 1, r <= q, NEW e \in Eyes
              PROVE  atlas[SlotOf(r)][e] <= atlas[SlotOf(q)][e]
            <4>1. CASE q = readyFence + 1
                BY <2>0, <3>1, <3>2, <4>1 DEF Newest
            <4>2. CASE q \in consumedFence + 1 .. readyFence
                <5>1. r \in consumedFence + 1 .. readyFence
                    BY <1>4, <3>4, <4>2
                <5>. QED  BY <3>4, <4>2, <5>1 DEF AgeInv, ShownAges
            <4>. QED  BY <3>3, <4>1, <4>2
        <3>5. ASSUME NEW r \in consumedFence + 1 .. readyFence + 1, cached.ready <= r,
                     NEW e \in Eyes
              PROVE  cached.image[e] <= atlas[SlotOf(r)][e]
            <4>1. CASE r = readyFence + 1
                <5>1. /\ cached.image[e] <= atlas[SlotOf(cached.ready)][e]
                      /\ atlas[SlotOf(cached.ready)][e] <= atlas[SlotOf(r)][e]
                    BY <1>4, <3>2, <4>1 DEF AgeInv, ShownAges, Newest
                <5>. QED  BY <1>3, <1>4, <2>0, <3>1, <5>1
            <4>2. CASE r \in consumedFence + 1 .. readyFence
                BY <3>5, <4>2 DEF AgeInv, ShownAges
            <4>. QED  BY <3>3, <4>1, <4>2
        <3>. QED  BY <1>0, <3>1, <3>4, <3>5 DEF AgeInv, ShownAges
    <2>. QED  BY <1>0, <2>1, <2>2, <2>3, NextSignal
<1>. QED  BY <1>5, <1>6, <1>7, <1>8 DEF AgeInv

\* The steps of the host's frame loop keep the ages: a copy shows an announced eye.
LEMMA HostAges == ASSUME RingInv, PictureInv, AgeInv, TypeOK', Host PROVE AgeInv'
<1>0. TypeOK /\ consumedFence \in Nat /\ readyFence \in Nat /\ token \in Nat
    BY DEF RingInv, TypeOK
<1>1. CASE \/ HostPoll \/ HostReadMetadata \/ HostSkipFrame \/ HostSubmit \/ HostFails
    BY <1>1, AgeQuiet
    DEF HostPoll, HostReadMetadata, HostSkipFrame, HostSubmit, HostFails, ageVars,
        othersThanHost, gameVars, gpuVars, boundVars
<1>2. CASE HostOpen \/ HostPollFails
    <2>1. /\ cached'.ready = cached.ready /\ cached'.image = cached.image
          /\ UNCHANGED <<pair, lastReady, glq, readyFence, consumedFence, atlas, camera>>
        BY <1>2 DEF HostOpen, HostPollFails, othersThanHost, gameVars, gpuVars, boundVars,
                    RingInv, TypeOK
    <2>. QED  BY <2>1 DEF AgeInv, QueueSorted, CamerasPass, SignalsDrawn, ShownAges
<1>3. CASE HostCopy
    <2>1. /\ UNCHANGED <<pair, lastReady, glq, readyFence, consumedFence, atlas, camera>>
          /\ cached' = [valid |-> TRUE, ready |-> token, image |-> atlas[SlotOf(token)]]
          /\ host = "copying"
        BY <1>3 DEF HostCopy, othersThanHost, gameVars, gpuVars, boundVars
    <2>2. consumedFence < token /\ token <= readyFence
        BY <2>1, TokenAnnounced
    <2>3. token \in consumedFence + 1 .. readyFence /\ SlotOf(token) \in Slots
        BY <1>0, <2>2, SlotOfType
    <2>4. \A e \in Eyes : atlas[SlotOf(token)][e] <= atlas[SlotOf(token)][e]
        BY <1>0, <2>3, AgeNumbers
    <2>5. ShownAges'
        BY <2>1, <2>3, <2>4 DEF AgeInv, ShownAges
    <2>. QED  BY <2>1, <2>5 DEF AgeInv, QueueSorted, CamerasPass, SignalsDrawn
<1>4. CASE HostRetire
    <2>1. /\ UNCHANGED <<pair, lastReady, glq, readyFence, atlas, camera, cached>>
          /\ host = "copied"
          /\ consumedFence' = IF signalOk THEN token ELSE consumedFence
        BY <1>4 DEF HostRetire, Acknowledge, gameVars, boundVars
    <2>2. consumedFence' \in Nat /\ consumedFence <= consumedFence'
        BY <1>0, <2>1, TokenAnnounced
    <2>3. \A r \in consumedFence' + 1 .. readyFence : r \in consumedFence + 1 .. readyFence
        <3>1. PICK m \in Nat : m = consumedFence'
            BY <2>2
        <3>2. consumedFence <= m
            BY <2>2, <3>1
        <3>3. \A r \in m + 1 .. readyFence : r \in consumedFence + 1 .. readyFence
            BY <1>0, <3>2
        <3>. QED  BY <3>1, <3>3
    <2>4. ShownAges'
        BY <2>1, <2>3 DEF AgeInv, ShownAges
    <2>. QED  BY <2>1, <2>4 DEF AgeInv, QueueSorted, CamerasPass, SignalsDrawn
<1>. QED  BY <1>1, <1>2, <1>3, <1>4 DEF Host

\* Every step keeps the ages.
LEMMA NextAges == ASSUME RingInv, PictureInv, AgeInv, TypeOK', [Next]_vars PROVE AgeInv'
<1>1. CASE RemoveDevice \/ WorldTimeout \/ UNCHANGED vars
    BY <1>1, AgeQuiet
    DEF RemoveDevice, WorldTimeout, vars, ageVars, gameVars, gpuVars, hostVars, boundVars
<1>. QED  BY <1>1, GameAges, HostAges, DeleteContextAges, GpuExecuteAges DEF Next, Environment

\* In every reachable state what is announced later is not older, eye by eye.
THEOREM AgeInvariant == Spec => []AgeInv
<1>1. Init => AgeInv
    <2>. SUFFICES ASSUME Init PROVE AgeInv
        OBVIOUS
    <2>1. /\ glq = <<>> /\ pair = NoPair /\ camera = 0 /\ readyFence = 0 /\ consumedFence = 0
          /\ cached = NoImage /\ \A s \in Slots, e \in Eyes : atlas[s][e] = 0
        BY DEF Init, Parts
    <2>2. SlotOf(0) \in Slots /\ \A e \in Eyes : NoImage.image[e] = 0
        BY SlotOfType DEF NoImage, Parts
    <2>3. QueueSorted /\ CamerasPass /\ SignalsDrawn
        BY <2>1 DEF QueueSorted, CamerasPass, SignalsDrawn
    <2>4. ShownAges
        BY <2>1, <2>2 DEF ShownAges, NoImage
    <2>. QED  BY <2>3, <2>4 DEF AgeInv
<1>2. RingInv /\ PictureInv /\ TypeOK' /\ AgeInv /\ [Next]_vars => AgeInv'
    BY NextAges
<1>. QED  BY <1>1, <1>2, RingInvariant, PictureInvariant, TypeCorrect, PTL DEF Spec

-----------------------------------------------------------------------------
(* The refinement *)

\* The stream with its fences, slots, queues and processes does what PictureStream says:
\* a signal the game's GPU runs publishes, one that a failing SignalReady leaves queued
\* spoils its number, a copy shows, an acknowledgement consumes.
THEOREM StreamShowsPictures == Spec => ImplementsPictures
<1>1. Init => Pictures!Init
    BY DEF Init, Pictures!Init, NoImage, Parts, Eyes
<1>2. ASSUME RingInv, PictureInv, AgeInv, [Next]_vars
      PROVE  [Pictures!Next]_(Pictures!vars)
    <2>0. /\ readyFence \in Nat /\ lastReady \in Nat /\ consumedFence \in Nat /\ TypeOK
          /\ readyFence <= Announced /\ Announced <= consumedFence + SlotCount
          /\ SlotCount \in Nat
        BY <1>2, RingFits, SlotCountAssumption DEF RingBounded, RingInv, TypeOK
    <2>1. CASE GpuExecute
        <3>1. glq # <<>> /\ UNCHANGED <<consumedFence, cached, unrecorded>>
              /\ readyFence' = IF IsSignal(Head(glq)) THEN Head(glq).ready ELSE readyFence
            BY <2>1 DEF GpuExecute, bridgeVars, hostVars
        <3>2. CASE IsSignal(Head(glq)) /\ readyFence' # readyFence
            <4>1. readyFence' = readyFence + 1 /\ readyFence + 1 <= Announced
                BY <1>2, <3>1, <3>2, NextSignal
            <4>2. readyFence < consumedFence + SlotCount
                BY <2>0, <4>1, AnnouncedNext
            <4>. QED  BY <3>1, <4>1, <4>2 DEF Pictures!Next, Pictures!Publish
        <3>3. CASE readyFence' = readyFence
            BY <3>1, <3>3 DEF Pictures!vars
        <3>. QED  BY <3>1, <3>2, <3>3
    <2>2. CASE HostCopy
        <3>1. UNCHANGED <<readyFence, consumedFence, unrecorded>>
            BY <2>2 DEF HostCopy, othersThanHost, bridgeVars, gpuVars
        <3>2. consumedFence < token /\ token \in consumedFence + 1 .. readyFence
            BY <1>2, <2>0, <2>2, TokenAnnounced DEF HostCopy, TypeOK
        <3>3. /\ cached'.ready = token /\ cached.ready <= token /\ token <= readyFence
              /\ cached'.image = atlas[SlotOf(token)]
            BY <1>2, <2>2, CopyShows
        <3>4. cached.image[0] <= cached'.image[0] /\ cached.image[1] <= cached'.image[1]
            BY <1>2, <3>2, <3>3 DEF AgeInv, ShownAges, Eyes
        <3>5. token \notin unrecorded =>
                 /\ cached'.image[0] = cached'.image[1]
                 /\ token = cached.ready => cached'.image[0] = cached.image[0]
                 /\ token > cached.ready /\ cached.ready \notin unrecorded =>
                       cached'.image[0] > cached.image[0]
            BY <1>2, <2>2, CopyShows
        <3>. QED  BY <3>1, <3>2, <3>3, <3>4, <3>5 DEF Pictures!Next, Pictures!Show
    <2>3. CASE HostRetire
        <3>1. /\ UNCHANGED <<readyFence, cached, unrecorded>> /\ host = "copied"
              /\ consumedFence' = IF signalOk THEN token ELSE consumedFence
            BY <2>3 DEF HostRetire, Acknowledge, bridgeVars
        <3>2. cached.ready = token /\ token > consumedFence
            BY <1>2, <3>1, Numbers DEF PictureInv, HostHolds, RingInv, HostInv
        <3>. QED  BY <3>1, <3>2 DEF Pictures!Next, Pictures!Consume, Pictures!vars
    <2>4. CASE HostOpen \/ HostPollFails
        <3>1. /\ UNCHANGED <<readyFence, consumedFence, unrecorded>>
              /\ cached'.ready = cached.ready /\ cached'.image = cached.image
            BY <2>0, <2>4
            DEF HostOpen, HostPollFails, othersThanHost, bridgeVars, gpuVars, TypeOK
        <3>. QED  BY <3>1 DEF Pictures!vars
    <2>5. CASE FinishPresentFails
        <3>1. /\ UNCHANGED <<readyFence, consumedFence, cached>> /\ EndWrite
              /\ unrecorded' = unrecorded \/ unrecorded' = unrecorded \cup {pair.frame.ready}
            BY <2>5 DEF FinishPresentFails, hostVars
        <3>2. pair.frame.ready = lastReady + 1 /\ SlotClear(lastReady + 1)
            BY <1>2, <3>1, EndWriteContent, PairCommands
        <3>3. CASE unrecorded' # unrecorded
            <4>1. lastReady + 1 \notin unrecorded
                BY <3>1, <3>2, <3>3
            <4>2. lastReady + 1 \in readyFence + 1 .. consumedFence + SlotCount
                BY <2>0, <3>2, <4>1, AnnouncedNext, ClearFits
            <4>. QED  BY <3>1, <3>2, <3>3, <4>2 DEF Pictures!Next, Pictures!Spoil
        <3>4. CASE unrecorded' = unrecorded
            BY <3>1, <3>4 DEF Pictures!vars
        <3>. QED  BY <3>3, <3>4
    <2>6. CASE \/ Game /\ ~FinishPresentFails
               \/ HostPoll \/ HostReadMetadata \/ HostSkipFrame \/ HostSubmit \/ HostFails
               \/ DeleteContext \/ RemoveDevice \/ WorldTimeout \/ UNCHANGED vars
        <3>1. UNCHANGED <<readyFence, consumedFence, cached, unrecorded>>
            <4>. USE DEF bridgeVars, gpuVars, hostVars, othersThanHost
            <4>1. CASE Game /\ ~FinishPresentFails
                BY <4>1 DEF Game, BeginPairExhausted, BeginPairSkipped, BeginPairWaitFails,
                    BeginPair, RenderEye, EndPair, BeginHud, BeginPresent, FinishPresent,
                    RecoverContext
            <4>2. CASE HostPoll \/ HostReadMetadata \/ HostSkipFrame \/ HostSubmit \/ HostFails
                BY <4>2 DEF HostPoll, HostReadMetadata, HostSkipFrame, HostSubmit, HostFails
            <4>3. CASE DeleteContext \/ RemoveDevice \/ WorldTimeout \/ UNCHANGED vars
                BY <4>3 DEF DeleteContext, RemoveDevice, WorldTimeout, vars
            <4>. QED  BY <2>6, <4>1, <4>2, <4>3
        <3>. QED  BY <3>1 DEF Pictures!vars
    <2>. QED  BY <1>2, <2>1, <2>2, <2>3, <2>4, <2>5, <2>6 DEF Next, Host, Environment
<1>. QED  BY <1>1, <1>2, RingInvariant, PictureInvariant, AgeInvariant, PTL
          DEF Spec, ImplementsPictures, Pictures!Spec

=============================================================================
