---------------------- MODULE SharedMemoryChannelProofs ----------------------
(***************************************************************************)
(* The safety of the control channel for every payload size, sequence      *)
(* width, number of attempts and faults.  Attachment says which process    *)
(* may still touch the named region, and so that nobody zeroes it under    *)
(* the other.  Within one region the sequence counts a slot's              *)
(* publications: even it is twice their number and every word is from the  *)
(* last one, odd it belongs to a writer that is between two words.  A      *)
(* reader that meets its even sequence again has therefore copied one      *)
(* publication.                                                            *)
(***************************************************************************)
EXTENDS SharedMemoryChannel, TLAPS

Creating == {"fill header", "publish magic"}
Writing  == {"swap", "write", "commit"}
Copying  == {"read", "after"}
Reading  == {"before"} \cup Copying

\* The processes that have the region mapped.
Attached(p) == channel[p] = "open" \/ pc[p] \in Creating \cup {"validate"}

Attachment ==
    /\ pc["host"] # "validate" /\ pc["game"] \notin Creating
    /\ \A p \in Procs : Attached(p) => mapping
    /\ \A p \in Procs : pc[p] \in Writing \cup Reading => channel[p] = "open"
    /\ pc["host"] \in Creating => ~magic
    /\ \A p \in Procs : pc[p] \in Creating \cup {"validate", "dead"} => channel[p] = "closed"
    /\ \A p \in Procs : channel[p] = "open" => magic
    /\ channel["game"] = "open" => generation = Expected

\* The sequence and the words of a slot, and how far its writer has got.
SlotCounts(s) ==
    /\ sequence[s] \in {2 * published[s], 2 * published[s] + 1}
    /\ sequence[s] = 2 * published[s] => \A k \in 1 .. Words : payload[s][k] = published[s]

WriterCounts(p) ==
    /\ pc[p] \in Writing => stable[p] = 2 * published[p] /\ stable[p] < Modulus - 4
    /\ pc[p] = "swap" => sequence[p] = stable[p]
    /\ pc[p] \in {"write", "commit"} => sequence[p] = stable[p] + 1
    /\ pc[p] = "write" => \A k \in 1 .. word[p] - 1 : payload[p][k] = published[p] + 1
    /\ pc[p] = "commit" => \A k \in 1 .. Words : payload[p][k] = published[p] + 1

\* The words a reader has copied, as long as the sequence has not moved.
CopiedTo(p, n) ==
    sequence[Peer(p)] = stable[p] => \A k \in 1 .. n : copy[p][k] = published[Peer(p)]

ReaderCounts(p) ==
    /\ pc[p] \in Reading => floor[p] <= published[Peer(p)] /\ attempt[p] < MaxAttempts
    /\ pc[p] \in Copying =>
          ~IsOdd(stable[p]) /\ 2 * floor[p] <= stable[p] /\ stable[p] <= sequence[Peer(p)]
    /\ pc[p] = "read" => CopiedTo(p, word[p] - 1)
    /\ pc[p] = "after" => CopiedTo(p, Words)

Counts == \A p \in Procs : SlotCounts(p) /\ WriterCounts(p) /\ ReaderCounts(p)

ChannelInv == ChannelTypeOK /\ Attachment /\ Counts

-----------------------------------------------------------------------------
(* Arithmetic of the sequence *)

\* A number below the modulus is its own remainder.
LEMMA SmallRemainder ==
  ASSUME NEW S \in Nat \ {0}, NEW x \in 0 .. S - 1
  PROVE  x % S = x
  OBVIOUS

\* The two numbers that belong to a publication differ in parity.
LEMMA Parity == \A n \in Nat : ~IsOdd(2 * n) /\ IsOdd(2 * n + 1)
  BY DEF IsOdd

\* The peer is the other process.
LEMMA PeerFacts ==
  \A p \in Procs : Peer(p) \in Procs /\ Peer(p) # p /\ Peer(Peer(p)) = p
  BY DEF Procs, Peer

-----------------------------------------------------------------------------
(* Types *)

\* Where counters start and that they may go on below their bounds.
LEMMA Counters ==
  /\ 1 \in 1 .. Words /\ 0 \in 0 .. MaxAttempts /\ 0 \in 0 .. Modulus - 1 /\ 0 \in 0 .. MaxFaults
  /\ \A n \in 1 .. Words : n < Words => n + 1 \in 1 .. Words
  /\ \A n \in 0 .. MaxFaults : n < MaxFaults => n + 1 \in 0 .. MaxFaults
  /\ \A n \in Nat : n + 1 \in Nat
  /\ 0 \in Nat
  BY WordsAssumption, ModulusAssumption, AttemptsAssumption, FaultsAssumption

\* Fresh memory and two processes outside every call.
LEMMA InitType == ChannelInit => ChannelTypeOK
<1> SUFFICES ASSUME ChannelInit PROVE ChannelTypeOK
  OBVIOUS
<1> USE DEF ChannelInit
<1>1. NoWords \in [1 .. Words -> Nat]
  BY Counters DEF NoWords
<1>2. /\ mapping \in BOOLEAN /\ magic \in BOOLEAN /\ generation \in Generations \cup {0}
      /\ channel \in [Procs -> {"closed", "open"}] /\ pc \in [Procs -> Labels]
  BY DEF Labels
<1>3. /\ payload \in [Slots -> [1 .. Words -> Nat]]
      /\ copy \in [Procs -> [1 .. Words -> Nat]] /\ output \in [Procs -> [1 .. Words -> Nat]]
  BY <1>1
<1>4. /\ sequence \in [Slots -> 0 .. Modulus - 1] /\ stable \in [Procs -> 0 .. Modulus - 1]
      /\ word \in [Procs -> 1 .. Words] /\ attempt \in [Procs -> 0 .. MaxAttempts]
      /\ published \in [Slots -> Nat] /\ floor \in [Procs -> Nat] /\ faults \in 0 .. MaxFaults
  BY Counters
<1>5. QED
  BY <1>2, <1>3, <1>4 DEF ChannelTypeOK

\* A publisher advances the sequence without wrapping.
LEMMA NextSequence ==
  ASSUME ChannelInv, NEW p \in Procs, pc[p] \in Writing
  PROVE  /\ (stable[p] + 1) % Modulus = stable[p] + 1
         /\ Committed(p) = stable[p] + 2
         /\ (stable[p] + 1) % Modulus \in 0 .. Modulus - 1 /\ Committed(p) \in 0 .. Modulus - 1
<1>1. stable[p] \in 0 .. Modulus - 1 /\ stable[p] < Modulus - 4
  BY DEF ChannelInv, ChannelTypeOK, Counts, WriterCounts
<1>2. stable[p] + 1 \in 0 .. Modulus - 1 /\ stable[p] + 2 \in 0 .. Modulus - 1
  BY <1>1, ModulusAssumption
<1>3. QED
  BY <1>2, SmallRemainder, ModulusAssumption DEF Committed

\* What the type invariant says of one process.
LEMMA ProcessTypes ==
  ASSUME ChannelTypeOK, NEW p \in Procs
  PROVE  /\ sequence[p] \in Nat /\ published[p] \in Nat /\ stable[p] \in Nat /\ floor[p] \in Nat
         /\ attempt[p] \in Nat /\ word[p] \in 1 .. Words
<1>1. Procs = Slots /\ 0 .. Modulus - 1 \subseteq Nat /\ 0 .. MaxAttempts \subseteq Nat
  BY DEF Slots
<1>2. sequence[p] \in 0 .. Modulus - 1 /\ stable[p] \in 0 .. Modulus - 1
  BY <1>1 DEF ChannelTypeOK
<1>3. published[p] \in Nat /\ floor[p] \in Nat
  BY <1>1 DEF ChannelTypeOK
<1>4. attempt[p] \in 0 .. MaxAttempts /\ word[p] \in 1 .. Words
  BY DEF ChannelTypeOK
<1>5. QED
  BY <1>1, <1>2, <1>3, <1>4

\* The functions of the state and their domains.
LEMMA ProcessDomains ==
  ASSUME ChannelTypeOK
  PROVE  /\ pc = [q \in Procs |-> pc[q]] /\ stable = [q \in Procs |-> stable[q]]
         /\ word = [q \in Procs |-> word[q]] /\ attempt = [q \in Procs |-> attempt[q]]
         /\ floor = [q \in Procs |-> floor[q]] /\ copy = [q \in Procs |-> copy[q]]
         /\ sequence = [q \in Procs |-> sequence[q]] /\ payload = [q \in Procs |-> payload[q]]
         /\ published = [q \in Procs |-> published[q]] /\ output = [q \in Procs |-> output[q]]
  BY DEF ChannelTypeOK, Slots

\* Creating and opening keep the types.
LEMMA AttachType == ASSUME ChannelTypeOK, Attach PROVE ChannelTypeOK'
<1> USE DEF ChannelTypeOK, Goto, Labels, Procs, Slots, localVars, regionVars
<1>1. CASE HostMap
  BY <1>1, Counters DEF HostMap, NoWords
<1>2. CASE HostFillHeader
  BY <1>2 DEF HostFillHeader
<1>3. CASE HostPublishMagic
  BY <1>3 DEF HostPublishMagic
<1>4. CASE GameMap
  BY <1>4 DEF GameMap
<1>5. CASE GameValidate
  BY <1>5 DEF GameValidate, Unmap
<1>6. QED
  BY <1>1, <1>2, <1>3, <1>4, <1>5 DEF Attach

\* Publishing keeps the types.
LEMMA PublishType ==
  ASSUME ChannelInv, NEW p \in Procs, Publish(p) PROVE ChannelTypeOK'
<1>0. ChannelTypeOK
  BY DEF ChannelInv
<1> USE <1>0 DEF ChannelTypeOK, Goto, Labels, Slots, localVars, regionVars
<1>1. CASE PublishBegin(p)
  BY <1>1 DEF PublishBegin
<1>2. CASE PublishSwap(p)
  <2>1. (stable[p] + 1) % Modulus \in 0 .. Modulus - 1
    BY <1>2, NextSequence DEF PublishSwap, Writing
  <2>2. sequence' \in [Slots -> 0 .. Modulus - 1]
    <3> DEFINE next == (stable[p] + 1) % Modulus
    <3>1. next \in 0 .. Modulus - 1
      BY <2>1
    <3>2. sequence' = sequence \/ sequence' = [sequence EXCEPT ![p] = next]
      BY <1>2 DEF PublishSwap
    <3> HIDE DEF next
    <3>3. QED
      BY <3>1, <3>2
  <2>3. word' \in [Procs -> 1 .. Words]
    BY <1>2, Counters DEF PublishSwap
  <2>4. pc' \in [Procs -> Labels]
    BY <1>2 DEF PublishSwap
  <2>5. /\ UNCHANGED <<mapping, magic, generation, payload, channel, stable>>
        /\ UNCHANGED <<attempt, copy, output, published, floor, faults>>
    BY <1>2 DEF PublishSwap
  <2>6. QED
    BY <2>2, <2>3, <2>4, <2>5
<1>3. CASE PublishWord(p)
  <2>1. payload' \in [Slots -> [1 .. Words -> Nat]]
    <3>1. published[p] + 1 \in Nat
      BY Counters
    <3>2. payload' = [payload EXCEPT ![p] = [payload[p] EXCEPT ![word[p]] = published[p] + 1]]
      BY <1>3 DEF PublishWord
    <3>3. [payload[p] EXCEPT ![word[p]] = published[p] + 1] \in [1 .. Words -> Nat]
      BY <3>1
    <3>4. QED
      BY <3>2, <3>3
  <2>2. word' \in [Procs -> 1 .. Words]
    <3>1. word' = word \/ (word[p] < Words /\ word' = [word EXCEPT ![p] = word[p] + 1])
      BY <1>3 DEF PublishWord
    <3>2. word[p] < Words => word[p] + 1 \in 1 .. Words
      BY Counters
    <3>3. QED
      BY <3>1, <3>2
  <2>3. pc' \in [Procs -> Labels]
    BY <1>3 DEF PublishWord
  <2>4. UNCHANGED <<mapping, magic, generation, sequence, channel, stable, attempt, copy, output,
                    published, floor, faults>>
    BY <1>3 DEF PublishWord
  <2>5. QED
    BY <2>1, <2>2, <2>3, <2>4
<1>4. CASE PublishCommit(p)
  <2>1. Committed(p) \in 0 .. Modulus - 1
    <3>1. pc[p] \in Writing
      BY <1>4 DEF PublishCommit, Writing
    <3>2. QED
      BY <3>1, NextSequence
  <2>2. published' \in [Slots -> Nat]
    BY <1>4, Counters DEF PublishCommit
  <2>3. sequence' \in [Slots -> 0 .. Modulus - 1] /\ pc' \in [Procs -> Labels]
    BY <1>4, <2>1 DEF PublishCommit
  <2>4. UNCHANGED <<mapping, magic, generation, payload, channel, word, stable, attempt, copy,
                    output, floor, faults>>
    BY <1>4 DEF PublishCommit
  <2>5. QED
    BY <2>2, <2>3, <2>4
<1>5. QED
  BY <1>1, <1>2, <1>3, <1>4 DEF Publish

\* An attempt is counted up to MaxAttempts.
LEMMA RetryType ==
  ASSUME ChannelInv, NEW p \in Procs, pc[p] \in Reading, Retry(p)
  PROVE  attempt' \in [Procs -> 0 .. MaxAttempts] /\ pc' \in [Procs -> Labels]
<1>1. attempt[p] < MaxAttempts /\ attempt \in [Procs -> 0 .. MaxAttempts]
      /\ pc \in [Procs -> Labels]
  BY DEF ChannelInv, ChannelTypeOK, Counts, ReaderCounts
<1>2. attempt[p] + 1 \in 0 .. MaxAttempts
  BY <1>1, AttemptsAssumption
<1>3. QED
  BY <1>1, <1>2 DEF Retry, Goto, Labels

\* Reading keeps the types.
LEMMA ReadType ==
  ASSUME ChannelInv, NEW p \in Procs, Read(p) PROVE ChannelTypeOK'
<1>0. ChannelTypeOK /\ Peer(p) \in Procs
  BY PeerFacts DEF ChannelInv
<1> USE <1>0 DEF ChannelTypeOK, Goto, Labels, Slots, localVars, regionVars
<1>1. CASE ReadBegin(p)
  BY <1>1, Counters DEF ReadBegin
<1>2. CASE ReadBefore(p)
  <2>1. attempt' \in [Procs -> 0 .. MaxAttempts] /\ pc' \in [Procs -> Labels]
    BY <1>2, RetryType DEF ReadBefore, Reading
  <2>2. stable' \in [Procs -> 0 .. Modulus - 1] /\ word' \in [Procs -> 1 .. Words]
    BY <1>2, Counters DEF ReadBefore
  <2>3. UNCHANGED <<mapping, magic, generation, sequence, payload, channel, copy, output,
                    published, floor, faults>>
    BY <1>2 DEF ReadBefore
  <2>4. QED
    BY <2>1, <2>2, <2>3
<1>3. CASE ReadWord(p)
  <2>1. copy' \in [Procs -> [1 .. Words -> Nat]]
    <3>1. payload[Peer(p)] \in [1 .. Words -> Nat] /\ word[p] \in 1 .. Words
      OBVIOUS
    <3>2. [copy[p] EXCEPT ![word[p]] = payload[Peer(p)][word[p]]] \in [1 .. Words -> Nat]
      BY <3>1
    <3>3. copy' = [copy EXCEPT ![p] = [copy[p] EXCEPT ![word[p]] = payload[Peer(p)][word[p]]]]
      BY <1>3 DEF ReadWord
    <3>4. QED
      BY <3>2, <3>3
  <2>2. word' \in [Procs -> 1 .. Words]
    <3>1. word' = word \/ (word[p] < Words /\ word' = [word EXCEPT ![p] = word[p] + 1])
      BY <1>3 DEF ReadWord
    <3>2. word[p] < Words => word[p] + 1 \in 1 .. Words
      BY Counters
    <3>3. QED
      BY <3>1, <3>2
  <2>3. pc' \in [Procs -> Labels]
    BY <1>3 DEF ReadWord
  <2>4. /\ UNCHANGED <<mapping, magic, generation, sequence, payload, channel>>
        /\ UNCHANGED <<stable, attempt, output, published, floor, faults>>
    BY <1>3 DEF ReadWord
  <2>5. QED
    BY <2>1, <2>2, <2>3, <2>4
<1>4. CASE ReadAfter(p)
  <2>1. attempt' \in [Procs -> 0 .. MaxAttempts] /\ pc' \in [Procs -> Labels]
    BY <1>4, RetryType DEF ReadAfter, Reading, Copying
  <2>2. output' \in [Procs -> [1 .. Words -> Nat]]
    <3>1. output' = output \/ output' = [output EXCEPT ![p] = copy[p]]
      BY <1>4 DEF ReadAfter
    <3>2. copy[p] \in [1 .. Words -> Nat] /\ output \in [Procs -> [1 .. Words -> Nat]]
      OBVIOUS
    <3>3. QED
      BY <3>1, <3>2
  <2>3. /\ UNCHANGED <<mapping, magic, generation, sequence, payload, channel>>
        /\ UNCHANGED <<word, stable, copy, published, floor, faults>>
    BY <1>4 DEF ReadAfter
  <2>4. QED
    BY <2>1, <2>2, <2>3
<1>5. QED
  BY <1>1, <1>2, <1>3, <1>4 DEF Read

\* Closing and crashing keep the types.
LEMMA EndType ==
  ASSUME ChannelTypeOK, NEW p \in Procs, Close(p) \/ Crash(p) PROVE ChannelTypeOK'
<1> USE DEF ChannelTypeOK, Goto, Labels, Slots, localVars
<1>1. faults' \in 0 .. MaxFaults
  <2>1. faults < MaxFaults /\ faults' = faults + 1
    BY DEF Close, Crash
  <2>2. QED
    BY <2>1, Counters
<1>2. CASE Close(p)
  BY <1>1, <1>2 DEF Close, Unmap, NoWords
<1>3. CASE Crash(p)
  BY <1>1, <1>3 DEF Crash, Unmap
<1>4. QED
  BY <1>2, <1>3

-----------------------------------------------------------------------------
(* Who has the region mapped *)

\* Nobody is attached to a region that does not exist yet.
LEMMA InitAttachment == ChannelInit => Attachment
  BY DEF ChannelInit, Attachment, Attached, Creating, Writing, Reading, Copying, Procs

\* A call moves its process between the labels of a call and leaves the rest of
\* the attachment alone.
CallMove(p) ==
    /\ channel[p] = "open" /\ UNCHANGED <<mapping, magic, generation, channel>>
    /\ \E label \in Writing \cup Reading \cup {"idle"} : pc' = [pc EXCEPT ![p] = label]

\* Publishing and reading are such calls.
LEMMA CallsMove ==
  ASSUME ChannelInv, NEW p \in Procs, Publish(p) \/ Read(p)
  PROVE  CallMove(p)
<1> USE DEF CallMove, Writing, Reading, Copying, Goto, Retry, regionVars, localVars
<1>0. pc[p] \in Writing \cup Reading => channel[p] = "open"
  BY DEF ChannelInv, Attachment
<1>1. CASE PublishBegin(p)
  BY <1>1 DEF PublishBegin
<1>2. CASE PublishSwap(p)
  BY <1>0, <1>2 DEF PublishSwap
<1>3. CASE PublishWord(p)
  <2>1. pc' = pc \/ pc' = [pc EXCEPT ![p] = "commit"]
    BY <1>3 DEF PublishWord
  <2>2. pc' = pc => pc' = [pc EXCEPT ![p] = "write"]
    BY <1>3 DEF PublishWord, ChannelInv, ChannelTypeOK
  <2>3. QED
    BY <1>0, <1>3, <2>1, <2>2 DEF PublishWord
<1>4. CASE PublishCommit(p)
  BY <1>0, <1>4 DEF PublishCommit
<1>5. CASE ReadBegin(p)
  BY <1>5 DEF ReadBegin
<1>6. CASE ReadBefore(p)
  BY <1>0, <1>6 DEF ReadBefore
<1>7. CASE ReadWord(p)
  <2>1. pc' = pc \/ pc' = [pc EXCEPT ![p] = "after"]
    BY <1>7 DEF ReadWord
  <2>2. pc' = pc => pc' = [pc EXCEPT ![p] = "read"]
    BY <1>7 DEF ReadWord, ChannelInv, ChannelTypeOK
  <2>3. QED
    BY <1>0, <1>7, <2>1, <2>2 DEF ReadWord
<1>8. CASE ReadAfter(p)
  BY <1>0, <1>8 DEF ReadAfter
<1>9. QED
  BY <1>1, <1>2, <1>3, <1>4, <1>5, <1>6, <1>7, <1>8 DEF Publish, Read

\* Calls keep who is attached.
LEMMA CallAttachment ==
  ASSUME ChannelInv, NEW p \in Procs, CallMove(p)
  PROVE  Attachment'
<1>1. PICK label \in Writing \cup Reading \cup {"idle"} : pc' = [pc EXCEPT ![p] = label]
  BY DEF CallMove
<1>2. label \notin Creating \cup {"validate", "dead"}
  BY DEF Writing, Reading, Copying, Creating
<1>3. /\ pc \in [Procs -> Labels] /\ channel[p] = "open"
      /\ UNCHANGED <<mapping, magic, generation, channel>> /\ Attachment
  BY DEF CallMove, ChannelInv, ChannelTypeOK
<1>4. pc'[p] = label /\ \A q \in Procs : q # p => pc'[q] = pc[q]
  BY <1>1, <1>3
<1>5. "host" \in Procs /\ "game" \in Procs
  BY DEF Procs
<1>6. QED
  BY <1>2, <1>3, <1>4, <1>5 DEF Attachment, Attached, Creating

\* A process that stays attached keeps the mapping.
LEMMA UnmapKeeps ==
  ASSUME mapping, Unmap, NEW p \in Procs, Attached(p)'
  PROVE  mapping'
<1>1. Mapped(p)
  BY DEF Mapped, Attached, Creating
<1>2. QED
  BY <1>1 DEF Unmap

\* Creating and opening: the host zeroes and fills only a region that nobody has
\* opened, and the game opens only a complete one.
LEMMA AttachAttachment == ASSUME ChannelInv, Attach PROVE Attachment'
<1>0. /\ Attachment /\ pc \in [Procs -> Labels] /\ channel \in [Procs -> {"closed", "open"}]
      /\ mapping \in BOOLEAN /\ magic \in BOOLEAN
      /\ "host" \in Procs /\ "game" \in Procs /\ \A p \in Procs : p = "host" \/ p = "game"
  BY DEF ChannelInv, ChannelTypeOK, Procs
<1> USE <1>0 DEF Attachment, Attached, Creating, Writing, Reading, Copying, Goto
<1>1. CASE HostMap
  BY <1>1 DEF HostMap, MayCreate
<1>2. CASE HostFillHeader
  BY <1>2 DEF HostFillHeader
<1>3. CASE HostPublishMagic
  BY <1>3 DEF HostPublishMagic
<1>4. CASE GameMap
  BY <1>4 DEF GameMap, regionVars
<1>5. CASE GameValidate
  <2>1. \A p \in Procs : Attached(p)' => mapping'
    <3>1. mapping
      BY <1>5 DEF GameValidate
    <3>2. QED
      BY <1>5, <3>1, UnmapKeeps DEF GameValidate
  <2>2. QED
    BY <1>5, <2>1 DEF GameValidate, RegionValid
<1>6. QED
  BY <1>1, <1>2, <1>3, <1>4, <1>5 DEF Attach

\* Closing and crashing only let go of the region.
LEMMA EndAttachment ==
  ASSUME ChannelInv, NEW p \in Procs, Close(p) \/ Crash(p)
  PROVE  Attachment'
<1>0. /\ Attachment /\ pc \in [Procs -> Labels] /\ channel \in [Procs -> {"closed", "open"}]
      /\ "host" \in Procs /\ "game" \in Procs
  BY DEF ChannelInv, ChannelTypeOK, Procs
<1>1. /\ channel' = [channel EXCEPT ![p] = "closed"] /\ Unmap /\ UNCHANGED <<magic, generation>>
      /\ pc' = [pc EXCEPT ![p] = pc'[p]]
      /\ pc'[p] = "dead" \/ pc'[p] = "idle"
  BY <1>0 DEF Close, Crash, Goto
<1>2. channel'[p] = "closed" /\ ~Attached(p)'
  BY <1>0, <1>1 DEF Attached, Creating
<1>3. \A q \in Procs : q # p => pc'[q] = pc[q] /\ channel'[q] = channel[q]
  BY <1>0, <1>1
<1>4. \A q \in Procs : Attached(q)' => mapping'
  <2>1. SUFFICES ASSUME NEW q \in Procs, Attached(q)' PROVE mapping'
    OBVIOUS
  <2>2. Attached(q)
    BY <1>2, <1>3, <2>1 DEF Attached
  <2>3. QED
    BY <1>0, <1>1, <2>1, <2>2, UnmapKeeps DEF Attachment
<1>5. QED
  BY <1>0, <1>1, <1>2, <1>3, <1>4 DEF Attachment, Creating, Writing, Reading, Copying

-----------------------------------------------------------------------------
(* What the sequences count *)

counting == <<sequence, payload, published, stable, word, attempt, copy, floor>>

\* Fresh slots have no publication, and nobody writes or reads them.
LEMMA InitCounts == ChannelInit => Counts
<1> SUFFICES ASSUME ChannelInit, NEW p \in Procs
             PROVE  SlotCounts(p) /\ WriterCounts(p) /\ ReaderCounts(p)
  BY DEF Counts
<1>1. pc[p] = "idle" /\ sequence[p] = 0 /\ published[p] = 0 /\ payload[p] = NoWords
  BY DEF ChannelInit, Slots
<1>2. SlotCounts(p)
  BY <1>1 DEF SlotCounts, NoWords
<1>3. WriterCounts(p) /\ ReaderCounts(p)
  BY <1>1 DEF WriterCounts, ReaderCounts, Writing, Reading, Copying
<1>4. QED
  BY <1>2, <1>3

\* A step that touches no slot and no copy, and begins no call, keeps the counts.
LEMMA QuietCounts ==
  ASSUME Counts, UNCHANGED counting,
         \A q \in Procs : pc'[q] = pc[q] \/ pc'[q] \notin Writing \cup Reading
  PROVE  Counts'
<1> SUFFICES ASSUME NEW q \in Procs
             PROVE  (SlotCounts(q) /\ WriterCounts(q) /\ ReaderCounts(q))'
  BY DEF Counts
<1>1. SlotCounts(q) /\ WriterCounts(q) /\ ReaderCounts(q)
  BY DEF Counts
<1>2. SlotCounts(q)'
  BY <1>1 DEF SlotCounts, counting
<1>3. CASE pc'[q] = pc[q]
  BY <1>1, <1>2, <1>3 DEF WriterCounts, ReaderCounts, CopiedTo, counting
<1>4. CASE pc'[q] \notin Writing \cup Reading
  BY <1>2, <1>4 DEF WriterCounts, ReaderCounts, Writing, Reading, Copying
<1>5. QED
  BY <1>3, <1>4

\* Creating starts the slots of a region that nobody uses, opening does not touch them.
LEMMA AttachCounts == ASSUME ChannelInv, Attach PROVE Counts'
<1>0. Counts /\ pc \in [Procs -> Labels]
  BY DEF ChannelInv, ChannelTypeOK
<1>1. CASE HostMap
  <2>1. ASSUME NEW q \in Procs PROVE pc'[q] \notin Writing \cup Reading
    <3>1. CASE q = "host"
      BY <1>0, <1>1, <3>1 DEF HostMap, Goto, Writing, Reading, Copying
    <3>2. CASE q # "host"
      <4>1. channel[q] # "open"
        BY <1>1 DEF HostMap, MayCreate, ChannelInv, Attachment, Attached
      <4>2. pc'[q] = pc[q]
        BY <1>0, <1>1, <3>2 DEF HostMap, Goto
      <4>3. QED
        BY <4>1, <4>2 DEF ChannelInv, Attachment
    <3>3. QED
      BY <3>1, <3>2
  <2>2. ASSUME NEW q \in Procs PROVE SlotCounts(q)'
    <3>1. sequence'[q] = 0 /\ published'[q] = 0 /\ payload'[q] = NoWords
      BY <1>1 DEF HostMap, Slots
    <3>2. QED
      BY <3>1 DEF SlotCounts, NoWords
  <2>3. QED
    BY <2>1, <2>2 DEF Counts, WriterCounts, ReaderCounts, Writing, Reading, Copying
<1>2. CASE HostFillHeader \/ HostPublishMagic \/ GameMap \/ GameValidate
  <2>1. UNCHANGED counting
    BY <1>2 DEF HostFillHeader, HostPublishMagic, GameMap, GameValidate, counting,
                regionVars, localVars
  <2>2. \A q \in Procs : pc'[q] = pc[q] \/ pc'[q] \notin Writing \cup Reading
    BY <1>0, <1>2 DEF HostFillHeader, HostPublishMagic, GameMap, GameValidate, Goto,
                      Writing, Reading, Copying
  <2>3. QED
    BY <1>0, <2>1, <2>2, QuietCounts
<1>3. QED
  BY <1>1, <1>2 DEF Attach

\* A process that closes or dies leaves its slot as it is, odd or even.
LEMMA EndCounts ==
  ASSUME ChannelInv, NEW p \in Procs, Close(p) \/ Crash(p)
  PROVE  Counts'
<1>0. Counts /\ pc \in [Procs -> Labels]
  BY DEF ChannelInv, ChannelTypeOK
<1>1. UNCHANGED counting
  BY DEF Close, Crash, counting, localVars
<1>2. \A q \in Procs : pc'[q] = pc[q] \/ pc'[q] \notin Writing \cup Reading
  BY <1>0 DEF Close, Crash, Goto, Writing, Reading, Copying
<1>3. QED
  BY <1>0, <1>1, <1>2, QuietCounts

\* A reader keeps its claim when the peer's slot is left alone, and loses nothing
\* when the peer's sequence moves on.
LEMMA ReaderKeeps ==
  ASSUME ChannelInv, ChannelTypeOK', NEW q \in Procs,
         pc'[q] = pc[q], stable'[q] = stable[q], attempt'[q] = attempt[q],
         floor'[q] = floor[q], copy'[q] = copy[q], word'[q] = word[q],
         published'[Peer(q)] >= published[Peer(q)],
         \/ sequence'[Peer(q)] > sequence[Peer(q)]
         \/ /\ sequence'[Peer(q)] = sequence[Peer(q)]
            /\ published'[Peer(q)] = published[Peer(q)]
  PROVE  ReaderCounts(q)'
<1>1. ReaderCounts(q) /\ Peer(q) \in Procs
  BY PeerFacts DEF ChannelInv, Counts
<1>2. /\ sequence[Peer(q)] \in Nat /\ sequence'[Peer(q)] \in Nat
      /\ published[Peer(q)] \in Nat /\ published'[Peer(q)] \in Nat
      /\ stable[q] \in Nat /\ floor[q] \in Nat
  BY <1>1 DEF ChannelInv, ChannelTypeOK, Slots
<1>3. pc[q] \in Reading => floor[q] <= published'[Peer(q)]
  BY <1>1, <1>2 DEF ReaderCounts
<1>4. pc[q] \in Copying => stable[q] <= sequence'[Peer(q)]
  BY <1>1, <1>2 DEF ReaderCounts
<1>5. ASSUME NEW n, CopiedTo(q, n), stable[q] <= sequence[Peer(q)]
      PROVE  CopiedTo(q, n)'
  BY <1>2, <1>5 DEF CopiedTo
<1>6. QED
  BY <1>1, <1>3, <1>4, <1>5 DEF ReaderCounts, Copying, CopiedTo

\* A publisher leaves the other process and its slot alone.
LEMMA PublishFootprint ==
  ASSUME ChannelTypeOK, NEW p \in Procs, Publish(p)
  PROVE  /\ \A q \in Procs : q # p =>
              /\ pc'[q] = pc[q] /\ stable'[q] = stable[q] /\ word'[q] = word[q]
              /\ sequence'[q] = sequence[q] /\ published'[q] = published[q]
              /\ payload'[q] = payload[q]
         /\ UNCHANGED <<attempt, copy, floor>>
<1> USE ProcessDomains DEF Goto, regionVars, localVars
<1>1. CASE PublishBegin(p)
  BY <1>1 DEF PublishBegin
<1>2. CASE PublishSwap(p)
  BY <1>2 DEF PublishSwap
<1>3. CASE PublishWord(p)
  BY <1>3 DEF PublishWord
<1>4. CASE PublishCommit(p)
  BY <1>4 DEF PublishCommit
<1>5. QED
  BY <1>1, <1>2, <1>3, <1>4 DEF Publish

\* Publishing: between the two increments the sequence is odd, and the words are
\* written one by one from the old publication to the new.
LEMMA PublishCounts ==
  ASSUME ChannelInv, ChannelTypeOK', NEW p \in Procs, Publish(p)
  PROVE  Counts'
<1>a. ChannelTypeOK /\ SlotCounts(p) /\ WriterCounts(p)
  BY DEF ChannelInv, Counts
<1>b. /\ sequence[p] \in Nat /\ published[p] \in Nat /\ stable[p] \in Nat /\ word[p] \in 1 .. Words
  BY <1>a, ProcessTypes
<1>c. pc \in [Procs -> Labels] /\ pc' \in [Procs -> Labels] /\ word \in [Procs -> 1 .. Words]
  BY <1>a DEF ChannelTypeOK
<1>d. /\ Peer(p) \in Procs /\ Peer(p) # p /\ \A q \in Procs : q # p => q = Peer(p) /\ Peer(q) = p
  BY DEF Procs, Peer
<1>0. /\ ChannelTypeOK /\ SlotCounts(p) /\ WriterCounts(p)
      /\ pc \in [Procs -> Labels] /\ pc' \in [Procs -> Labels]
      /\ sequence[p] \in Nat /\ published[p] \in Nat /\ stable[p] \in Nat
      /\ word[p] \in 1 .. Words /\ word \in [Procs -> 1 .. Words]
      /\ Peer(p) \in Procs /\ Peer(p) # p /\ \A q \in Procs : q # p => q = Peer(p) /\ Peer(q) = p
  BY <1>a, <1>b, <1>c, <1>d
<1>1. SUFFICES /\ SlotCounts(p)' /\ WriterCounts(p)'
               /\ pc'[p] \notin Reading
               /\ published'[p] >= published[p]
               /\ \/ sequence'[p] > sequence[p]
                  \/ /\ sequence'[p] = sequence[p]
                     /\ published'[p] = published[p]
  <2>1. /\ \A q \in Procs : q # p =>
              /\ pc'[q] = pc[q] /\ stable'[q] = stable[q] /\ word'[q] = word[q]
              /\ sequence'[q] = sequence[q] /\ published'[q] = published[q]
              /\ payload'[q] = payload[q]
        /\ UNCHANGED <<attempt, copy, floor>>
    BY PublishFootprint, <1>0
  <2>a. PICK r \in Procs : r # p /\ Peer(r) = p /\ \A q \in Procs : q = p \/ q = r
    BY <1>0
  <2>b. /\ pc'[r] = pc[r] /\ stable'[r] = stable[r] /\ word'[r] = word[r]
        /\ sequence'[r] = sequence[r] /\ published'[r] = published[r] /\ payload'[r] = payload[r]
        /\ attempt'[r] = attempt[r] /\ floor'[r] = floor[r] /\ copy'[r] = copy[r]
    BY <2>1, <2>a
  <2>c. SlotCounts(r)' /\ WriterCounts(r)'
    BY <2>a, <2>b DEF SlotCounts, WriterCounts, ChannelInv, Counts
  <2>d. /\ published'[Peer(r)] >= published[Peer(r)]
        /\ \/ sequence'[Peer(r)] > sequence[Peer(r)]
           \/ /\ sequence'[Peer(r)] = sequence[Peer(r)]
              /\ published'[Peer(r)] = published[Peer(r)]
    BY <1>1, <2>a
  <2>e. ReaderCounts(r)'
    BY <2>a, <2>b, <2>d, ReaderKeeps
  <2>3. ReaderCounts(p)'
    BY <1>1 DEF ReaderCounts, Reading, Copying
  <2>4. QED
    BY <1>1, <2>a, <2>c, <2>e, <2>3 DEF Counts
<1>2. CASE PublishBegin(p)
  <2>1. /\ pc'[p] = "swap" /\ UNCHANGED <<sequence, payload, published, word>>
        /\ stable'[p] = sequence[p] /\ sequence[p] < Modulus - 4 /\ ~IsOdd(sequence[p])
    BY <1>0, <1>2 DEF PublishBegin, MayPublish, Goto, ChannelTypeOK, regionVars
  <2>2. sequence[p] = 2 * published[p]
    BY <1>0, <2>1, Parity DEF SlotCounts
  <2>3. SlotCounts(p)'
    BY <1>0, <2>1 DEF SlotCounts
  <2>4. WriterCounts(p)'
    BY <2>1, <2>2 DEF WriterCounts
  <2>5. QED
    BY <1>0, <2>1, <2>3, <2>4 DEF Reading, Copying
<1>3. CASE PublishSwap(p)
  <2>0. UNCHANGED <<payload, published, stable>>
    BY <1>3 DEF PublishSwap
  <2>1. /\ sequence[p] = stable[p] /\ stable[p] = 2 * published[p] /\ stable[p] < Modulus - 4
    BY <1>0, <1>3 DEF PublishSwap, WriterCounts, Writing
  <2>2. sequence'[p] = stable[p] + 1 /\ pc'[p] = "write" /\ word'[p] = 1
    <3>1. (stable[p] + 1) % Modulus = stable[p] + 1
      BY <1>3, NextSequence DEF PublishSwap, Writing
    <3>2. QED
      BY <1>0, <1>3, <2>1, <3>1 DEF PublishSwap, Goto, ChannelTypeOK, Slots
  <2>3. SlotCounts(p)'
    BY <1>0, <2>0, <2>1, <2>2 DEF SlotCounts
  <2>4. WriterCounts(p)'
    BY <2>0, <2>1, <2>2 DEF WriterCounts
  <2>5. QED
    BY <1>0, <2>0, <2>1, <2>2, <2>3, <2>4 DEF Reading, Copying
<1>4. CASE PublishWord(p)
  <2>0. /\ UNCHANGED <<sequence, published, stable>>
        /\ \A k \in 1 .. Words :
             payload'[p][k] = IF k = word[p] THEN published[p] + 1 ELSE payload[p][k]
    BY <1>0, <1>4 DEF PublishWord, ChannelTypeOK, Slots
  <2>1. /\ stable[p] = 2 * published[p] /\ stable[p] < Modulus - 4
        /\ sequence[p] = stable[p] + 1
        /\ \A k \in 1 .. word[p] - 1 : payload[p][k] = published[p] + 1
    BY <1>0, <1>4 DEF PublishWord, WriterCounts, Writing
  <2>2. SlotCounts(p)'
    BY <1>0, <2>0, <2>1 DEF SlotCounts
  <2>3. CASE word[p] < Words
    <3>1. word'[p] = word[p] + 1 /\ pc'[p] = "write"
      BY <1>0, <1>4, <2>3 DEF PublishWord
    <3>2. \A k \in 1 .. word'[p] - 1 : payload'[p][k] = published[p] + 1
      BY <1>0, <2>0, <2>1, <2>3, <3>1, WordsAssumption
    <3>3. WriterCounts(p)'
      BY <2>0, <2>1, <3>1, <3>2 DEF WriterCounts
    <3>4. QED
      BY <1>0, <2>0, <2>2, <3>1, <3>3 DEF Reading, Copying
  <2>4. CASE ~(word[p] < Words)
    <3>1. pc'[p] = "commit"
      BY <1>0, <1>4, <2>4 DEF PublishWord, Goto
    <3>2. \A k \in 1 .. Words : payload'[p][k] = published[p] + 1
      BY <1>0, <2>0, <2>1, <2>4, WordsAssumption
    <3>3. WriterCounts(p)'
      BY <2>0, <2>1, <3>1, <3>2 DEF WriterCounts
    <3>4. QED
      BY <1>0, <2>0, <2>2, <3>1, <3>3 DEF Reading, Copying
  <2>5. QED
    BY <2>3, <2>4
<1>5. CASE PublishCommit(p)
  <2>0. UNCHANGED payload /\ pc'[p] = "idle" /\ published'[p] = published[p] + 1
    BY <1>0, <1>5 DEF PublishCommit, Goto, ChannelTypeOK, Slots
  <2>1. /\ stable[p] = 2 * published[p] /\ sequence[p] = stable[p] + 1
        /\ \A k \in 1 .. Words : payload[p][k] = published[p] + 1
    BY <1>0, <1>5 DEF PublishCommit, WriterCounts, Writing
  <2>2. sequence'[p] = stable[p] + 2
    <3>1. Committed(p) = stable[p] + 2
      BY <1>5, NextSequence DEF PublishCommit, Writing
    <3>2. QED
      BY <1>0, <1>5, <3>1 DEF PublishCommit, ChannelTypeOK, Slots
  <2>3. SlotCounts(p)'
    BY <1>0, <2>0, <2>1, <2>2 DEF SlotCounts
  <2>4. WriterCounts(p)'
    BY <2>0 DEF WriterCounts, Writing
  <2>5. QED
    BY <1>0, <2>0, <2>1, <2>2, <2>3, <2>4 DEF Reading, Copying
<1>6. QED
  BY <1>2, <1>3, <1>4, <1>5 DEF Publish

\* Reading: as long as the sequence has not moved, the words copied so far are
\* those of the publication it counts.
LEMMA ReadCounts ==
  ASSUME ChannelInv, ChannelTypeOK', NEW p \in Procs, Read(p)
  PROVE  Counts'
<1>0. /\ ChannelTypeOK /\ ReaderCounts(p) /\ SlotCounts(Peer(p))
      /\ pc \in [Procs -> Labels] /\ pc' \in [Procs -> Labels]
      /\ Peer(p) \in Procs /\ Peer(p) # p
      /\ sequence[Peer(p)] \in Nat /\ published[Peer(p)] \in Nat
      /\ stable[p] \in Nat /\ floor[p] \in Nat /\ attempt[p] \in Nat
      /\ word[p] \in 1 .. Words
  <2>1. ChannelTypeOK /\ Counts /\ Peer(p) \in Procs /\ Peer(p) # p
    BY PeerFacts DEF ChannelInv
  <2>2. /\ sequence[Peer(p)] \in Nat /\ published[Peer(p)] \in Nat
    BY <2>1, ProcessTypes
  <2>3. stable[p] \in Nat /\ floor[p] \in Nat /\ attempt[p] \in Nat /\ word[p] \in 1 .. Words
    BY <2>1, ProcessTypes
  <2>4. pc \in [Procs -> Labels] /\ pc' \in [Procs -> Labels]
    BY <2>1 DEF ChannelTypeOK
  <2>5. QED
    BY <2>1, <2>2, <2>3, <2>4 DEF Counts
<1>1. UNCHANGED <<sequence, payload, published>>
  BY DEF Read, ReadBegin, ReadBefore, ReadWord, ReadAfter, regionVars
<1>2. SUFFICES pc'[p] \notin Writing /\ ReaderCounts(p)'
  <2>1. \A q \in Procs : q # p =>
          /\ pc'[q] = pc[q] /\ stable'[q] = stable[q] /\ word'[q] = word[q]
          /\ attempt'[q] = attempt[q] /\ copy'[q] = copy[q] /\ floor'[q] = floor[q]
    <3> USE <1>0 DEF Goto, ChannelTypeOK
    <3>1. CASE ReadBegin(p)
      BY <3>1 DEF ReadBegin
    <3>2. CASE ReadBefore(p)
      BY <3>2 DEF ReadBefore, Retry
    <3>3. CASE ReadWord(p)
      BY <3>3 DEF ReadWord
    <3>4. CASE ReadAfter(p)
      BY <3>4 DEF ReadAfter, Retry
    <3>5. QED
      BY <3>1, <3>2, <3>3, <3>4 DEF Read
  <2>2. ASSUME NEW q \in Procs
        PROVE  SlotCounts(q)'
    BY <1>1, <2>2 DEF SlotCounts, ChannelInv, Counts
  <2>3. ASSUME NEW q \in Procs, q # p
        PROVE  (WriterCounts(q) /\ ReaderCounts(q))'
    BY <1>1, <2>1, <2>3 DEF WriterCounts, ReaderCounts, CopiedTo, ChannelInv, Counts
  <2>4. WriterCounts(p)'
    BY <1>2 DEF WriterCounts, Writing
  <2>5. QED
    BY <1>2, <2>2, <2>3, <2>4 DEF Counts
<1>3. CASE ReadBegin(p)
  <2>1. pc'[p] = "before" /\ attempt'[p] = 0 /\ floor'[p] = published[Peer(p)]
    BY <1>0, <1>3 DEF ReadBegin, Goto, ChannelTypeOK
  <2>2. QED
    BY <1>0, <1>1, <2>1, AttemptsAssumption DEF ReaderCounts, Reading, Copying, Writing
<1>r. ASSUME pc[p] \in Reading, Retry(p), UNCHANGED <<floor>>
      PROVE  pc'[p] \notin Writing /\ ReaderCounts(p)'
  <2>1. /\ attempt'[p] = attempt[p] + 1 /\ pc'[p] \in {"before", "idle"}
        /\ pc'[p] = "before" => attempt[p] + 1 < MaxAttempts
    BY <1>0, <1>r DEF Retry, Goto, ChannelTypeOK
  <2>2. floor'[p] <= published'[Peer(p)]
    BY <1>0, <1>1, <1>r DEF ReaderCounts
  <2>3. pc'[p] \notin Writing /\ pc'[p] \notin Copying /\ pc'[p] # "read" /\ pc'[p] # "after"
    BY <2>1 DEF Copying, Writing
  <2>4. pc'[p] \in Reading => attempt'[p] < MaxAttempts
    BY <2>1, <2>3 DEF Reading
  <2>5. QED
    BY <2>2, <2>3, <2>4 DEF ReaderCounts
<1>4. CASE ReadBefore(p)
  <2>0. pc[p] \in Reading /\ floor' = floor
    BY <1>4 DEF ReadBefore, Reading
  <2>1. CASE Goto(p, "idle")
    BY <1>0, <2>1 DEF Goto, ReaderCounts, Reading, Copying, Writing
  <2>2. CASE Retry(p)
    BY <2>0, <2>2, <1>r
  <2>3. CASE /\ ~IsOdd(sequence[Peer(p)]) /\ Goto(p, "read") /\ attempt' = attempt
             /\ stable' = [stable EXCEPT ![p] = sequence[Peer(p)]]
             /\ word' = [word EXCEPT ![p] = 1]
    <3>1. /\ pc'[p] = "read" /\ stable'[p] = sequence[Peer(p)] /\ word'[p] = 1
      BY <1>0, <2>3 DEF Goto, ChannelTypeOK
    <3>2. floor[p] <= published[Peer(p)] /\ attempt[p] < MaxAttempts
      BY <1>0, <2>0 DEF ReaderCounts
    <3>3. sequence[Peer(p)] = 2 * published[Peer(p)]
      BY <1>0, <2>3, Parity DEF SlotCounts
    <3>4. CopiedTo(p, word[p] - 1)'
      BY <3>1 DEF CopiedTo
    <3>5. QED
      BY <1>0, <1>1, <2>0, <2>3, <3>1, <3>2, <3>3, <3>4
         DEF ReaderCounts, Reading, Copying, Writing
  <2>4. QED
    BY <1>4, <2>1, <2>2, <2>3 DEF ReadBefore
<1>5. CASE ReadWord(p)
  <2>0. /\ UNCHANGED <<floor, stable, attempt>>
        /\ \A k \in 1 .. Words :
             copy'[p][k] = IF k = word[p] THEN payload[Peer(p)][k] ELSE copy[p][k]
    BY <1>0, <1>5 DEF ReadWord, ChannelTypeOK
  <2>1. /\ floor[p] <= published[Peer(p)] /\ attempt[p] < MaxAttempts
        /\ ~IsOdd(stable[p]) /\ 2 * floor[p] <= stable[p] /\ stable[p] <= sequence[Peer(p)]
        /\ CopiedTo(p, word[p] - 1)
    BY <1>0, <1>5 DEF ReadWord, ReaderCounts, Reading, Copying
  <2>2. CopiedTo(p, word[p] - 1) => \A k \in 1 .. word[p] :
          sequence[Peer(p)] = stable[p] => copy'[p][k] = published[Peer(p)]
    <3>1. sequence[Peer(p)] = stable[p] =>
             \A k \in 1 .. Words : payload[Peer(p)][k] = published[Peer(p)]
      BY <1>0, <2>1, Parity DEF SlotCounts
    <3>2. QED
      BY <1>0, <2>0, <3>1, WordsAssumption DEF CopiedTo
  <2>3. CASE word[p] < Words
    <3>1. word'[p] = word[p] + 1 /\ pc'[p] = "read"
      BY <1>0, <1>5, <2>3 DEF ReadWord, ChannelTypeOK
    <3>2. CopiedTo(p, word[p] - 1)'
      BY <1>0, <1>1, <2>0, <2>1, <2>2, <3>1 DEF CopiedTo
    <3>3. QED
      BY <1>1, <2>0, <2>1, <3>1, <3>2 DEF ReaderCounts, Reading, Copying, Writing
  <2>4. CASE ~(word[p] < Words)
    <3>1. pc'[p] = "after" /\ word[p] = Words
      BY <1>0, <1>5, <2>4, WordsAssumption DEF ReadWord, Goto
    <3>2. CopiedTo(p, Words)'
      BY <1>0, <1>1, <2>0, <2>1, <2>2, <3>1 DEF CopiedTo
    <3>3. QED
      BY <1>1, <2>0, <2>1, <3>1, <3>2 DEF ReaderCounts, Reading, Copying, Writing
  <2>5. QED
    BY <2>3, <2>4
<1>6. CASE ReadAfter(p)
  <2>1. CASE Goto(p, "idle")
    BY <1>0, <2>1 DEF Goto, ReaderCounts, Reading, Copying, Writing
  <2>2. CASE Retry(p)
    BY <1>6, <2>2, <1>r DEF ReadAfter, Reading, Copying
  <2>3. QED
    BY <1>6, <2>1, <2>2 DEF ReadAfter
<1>7. QED
  BY <1>3, <1>4, <1>5, <1>6 DEF Read

-----------------------------------------------------------------------------
(* The invariant and what follows from it *)

\* A step that changes nothing keeps what holds.
LEMMA StutterKeeps == ASSUME ChannelInv, UNCHANGED channelVars PROVE ChannelInv'
<1> USE DEF channelVars, regionVars, localVars
<1>1. ChannelTypeOK'
  BY DEF ChannelInv, ChannelTypeOK
<1>2. Attachment'
  BY DEF ChannelInv, Attachment, Attached
<1>3. Counts'
  BY QuietCounts DEF ChannelInv, counting
<1>4. QED
  BY <1>1, <1>2, <1>3 DEF ChannelInv

\* The invariant is inductive.
LEMMA ChannelStep == ChannelInv /\ [ChannelNext]_channelVars => ChannelInv'
<1> SUFFICES ASSUME ChannelInv, [ChannelNext]_channelVars PROVE ChannelInv'
  OBVIOUS
<1>1. CASE Attach
  BY <1>1, AttachType, AttachAttachment, AttachCounts DEF ChannelInv
<1>2. ASSUME NEW p \in Procs, Publish(p) PROVE ChannelInv'
  BY <1>2, PublishType, CallsMove, CallAttachment, PublishCounts DEF ChannelInv
<1>3. ASSUME NEW p \in Procs, Read(p) PROVE ChannelInv'
  BY <1>3, ReadType, CallsMove, CallAttachment, ReadCounts DEF ChannelInv
<1>4. ASSUME NEW p \in Procs, Close(p) \/ Crash(p) PROVE ChannelInv'
  BY <1>4, EndType, EndAttachment, EndCounts DEF ChannelInv
<1>5. CASE UNCHANGED channelVars
  BY <1>5, StutterKeeps
<1>6. QED
  BY <1>1, <1>2, <1>3, <1>4, <1>5 DEF ChannelNext

\* In every reachable state the types, the attachment and the counts hold.
THEOREM ChannelInvariant == ChannelSpec => []ChannelInv
<1>1. ChannelInit => ChannelInv
  BY InitType, InitAttachment, InitCounts DEF ChannelInv
<1>2. QED
  BY <1>1, ChannelStep, PTL DEF ChannelSpec

\* Every variable keeps its type; no sequence ever wraps.
THEOREM TypeCorrect == ChannelSpec => []ChannelTypeOK
<1>1. ChannelInv => ChannelTypeOK
  BY DEF ChannelInv
<1>2. QED
  BY <1>1, ChannelInvariant, PTL

\* Whoever has the channel open sees a mapped region with a complete header of
\* the generation it was started for (CreateHost, OpenGame, ValidateRegion).
THEOREM OpenMeansReady == ChannelSpec => []AttachedToReadyRegion
<1>1. ChannelInv => AttachedToReadyRegion
  BY DEF ChannelInv, Attachment, Attached, AttachedToReadyRegion
<1>2. QED
  BY <1>1, ChannelInvariant, PTL

\* A read that returns: its words are the peer's newest publication.
LEMMA ReadReturns ==
  ASSUME ChannelInv, NEW p \in Procs, ReadAfter(p), Unmoved(p)
  PROVE  /\ output' = [output EXCEPT ![p] = copy[p]]
         /\ \A k \in 1 .. Words : copy[p][k] = published[Peer(p)]
         /\ floor[p] <= published[Peer(p)]
<1>1. pc[p] = "after" /\ ReaderCounts(p)
  BY DEF ReadAfter, ChannelInv, Counts
<1>2. QED
  BY <1>1 DEF ReadAfter, Unmoved, ReaderCounts, CopiedTo, Reading, Copying

\* What a step may do to the output of a process.
LEMMA OutputMoves ==
  ASSUME ChannelInv, [ChannelNext]_channelVars, NEW p \in Procs,
         output'[p] # output[p], channel'[p] = "open"
  PROVE  ReadAfter(p) /\ Unmoved(p)
<1>0. output = [q \in Procs |-> output[q]] /\ channel \in [Procs -> {"closed", "open"}]
  BY ProcessDomains DEF ChannelInv, ChannelTypeOK
<1>1. ~UNCHANGED output
  OBVIOUS
<1>2. ~Attach
  BY <1>1 DEF Attach, HostMap, HostFillHeader, HostPublishMagic, GameMap, GameValidate, localVars
<1>3. PICK q \in Procs : Publish(q) \/ Read(q) \/ Close(q) \/ Crash(q)
  BY <1>1, <1>2 DEF ChannelNext, channelVars, localVars
<1>4. ~Publish(q)
  BY <1>1 DEF Publish, PublishBegin, PublishSwap, PublishWord, PublishCommit, localVars
<1>5. ~Crash(q)
  BY <1>1 DEF Crash, localVars
<1>6. ~Close(q)
  BY <1>0 DEF Close
<1>7. ReadAfter(q) /\ Unmoved(q)
  BY <1>1, <1>3, <1>4, <1>5, <1>6 DEF Read, ReadBegin, ReadBefore, ReadWord, ReadAfter
<1>8. q = p
  BY <1>0, <1>7 DEF ReadAfter
<1>9. QED
  BY <1>7, <1>8

\* A read returns one publication, whole and not older than what the peer had
\* published when the read began, for every payload size and whatever the writer
\* does or wherever it dies in the meantime (ReadSnapshot's seqlock).
THEOREM ReadsReturnPublications == ChannelSpec => ReadsAreSnapshots
<1> DEFINE Returned(p) ==
      /\ \A k \in 1 .. Words : output'[p][k] = output'[p][1]
      /\ output'[p][1] \in floor[p] .. published[Peer(p)]
    Snapshots ==
      \A p \in Procs : output'[p] # output[p] /\ channel'[p] = "open" => Returned(p)
<1>1. ChannelInv /\ [ChannelNext]_channelVars => [Snapshots]_channelVars
  <2> SUFFICES ASSUME ChannelInv, [ChannelNext]_channelVars, NEW p \in Procs,
                      output'[p] # output[p], channel'[p] = "open"
               PROVE  Returned(p)
    OBVIOUS
  <2>1. /\ output' = [output EXCEPT ![p] = copy[p]]
        /\ \A k \in 1 .. Words : copy[p][k] = published[Peer(p)]
        /\ floor[p] <= published[Peer(p)]
    BY OutputMoves, ReadReturns
  <2>2. output'[p] = copy[p]
    BY <2>1, ProcessDomains DEF ChannelInv
  <2>3. 1 \in 1 .. Words /\ floor[p] \in Nat /\ published[Peer(p)] \in Nat
    BY Counters, ProcessTypes, PeerFacts DEF ChannelInv
  <2>4. QED
    BY <2>1, <2>2, <2>3
<1>2. QED
  BY <1>1, ChannelInvariant, PTL DEF ChannelSpec, ReadsAreSnapshots

\* What publishing does to the sequences.
LEMMA PublishAdvances ==
  ASSUME ChannelInv, NEW p \in Procs, Publish(p)
  PROVE  \A s \in Slots : sequence'[s] >= sequence[s]
<1>1. WriterCounts(p) /\ sequence = [s \in Slots |-> sequence[s]]
      /\ sequence[p] \in Nat /\ stable[p] \in Nat /\ \A s \in Slots : sequence[s] \in Nat
  BY ProcessDomains, ProcessTypes DEF ChannelInv, Counts, Slots
<1>2. CASE UNCHANGED sequence
  BY <1>1, <1>2
<1>3. CASE sequence' = [sequence EXCEPT ![p] = (stable[p] + 1) % Modulus] /\ PublishSwap(p)
  <2>1. (stable[p] + 1) % Modulus = stable[p] + 1 /\ sequence[p] = stable[p]
    BY <1>1, <1>3, NextSequence DEF PublishSwap, Writing, WriterCounts
  <2>2. QED
    BY <1>1, <1>3, <2>1 DEF Slots
<1>4. CASE PublishCommit(p)
  <2>1. Committed(p) = stable[p] + 2 /\ sequence[p] = stable[p] + 1
    BY <1>1, <1>4, NextSequence DEF PublishCommit, Writing, WriterCounts
  <2>2. sequence' = [sequence EXCEPT ![p] = Committed(p)]
    BY <1>4 DEF PublishCommit
  <2>3. QED
    BY <1>1, <2>1, <2>2 DEF Slots
<1>5. QED
  BY <1>2, <1>3, <1>4
     DEF Publish, PublishBegin, PublishSwap, PublishWord, regionVars

\* While a process has the channel open, neither a second host nor a wrapping
\* sequence rewinds the region under it (CREATE_NEW semantics of CreateHost, the
\* bound in PublishSnapshot).
THEOREM RegionsOnlyAdvance == ChannelSpec => RegionNeverRewinds
<1> DEFINE Kept == /\ generation' = generation /\ magic'
                   /\ \A s \in Slots : sequence'[s] >= sequence[s]
    Advances ==
      \A p \in Procs : channel[p] = "open" /\ channel'[p] = "open" => Kept
<1>1. ChannelInv /\ [ChannelNext]_channelVars => [Advances]_channelVars
  <2> SUFFICES ASSUME ChannelInv, [ChannelNext]_channelVars, NEW p \in Procs, channel[p] = "open"
               PROVE  Kept
    OBVIOUS
  <2>1. magic /\ mapping /\ pc["host"] \notin Creating /\ \A s \in Slots : sequence[s] \in Nat
    BY ProcessTypes DEF ChannelInv, Attachment, Attached, Slots
  <2>2. ~HostMap /\ ~HostFillHeader /\ ~HostPublishMagic
    BY <2>1 DEF HostMap, HostFillHeader, HostPublishMagic, MayCreate, Creating
  <2>3. CASE UNCHANGED <<magic, generation, sequence>>
    BY <2>1, <2>3
  <2>4. ASSUME NEW q \in Procs, Publish(q) PROVE Kept
    <3>1. UNCHANGED <<magic, generation>>
      BY <2>4 DEF Publish, PublishBegin, PublishSwap, PublishWord, PublishCommit, regionVars
    <3>2. QED
      BY <2>1, <2>4, <3>1, PublishAdvances
  <2>5. ASSUME NEW q \in Procs, Read(q) \/ Close(q) \/ Crash(q)
        PROVE  UNCHANGED <<magic, generation, sequence>>
    BY <2>5 DEF Read, ReadBegin, ReadBefore, ReadWord, ReadAfter, Close, Crash, regionVars
  <2>6. GameMap \/ GameValidate \/ UNCHANGED channelVars => UNCHANGED <<magic, generation, sequence>>
    BY DEF GameMap, GameValidate, channelVars, regionVars
  <2>7. QED
    BY <2>2, <2>3, <2>4, <2>5, <2>6 DEF ChannelNext, Attach
<1>2. QED
  BY <1>1, ChannelInvariant, PTL DEF ChannelSpec, RegionNeverRewinds

=============================================================================
