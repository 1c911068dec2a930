------------------------- MODULE SharedMemoryChannel -------------------------
(***************************************************************************)
(* The control channel of common/shared_memory_channel.cpp: a named region *)
(* the host creates and the game opens, with a header and one snapshot     *)
(* slot per kind of message.  A slot is a seqlock: the writer makes the    *)
(* sequence odd, copies the payload word by word and makes it even again;  *)
(* a reader copies, re-reads the sequence and retries when it has moved.   *)
(*                                                                         *)
(* Each process uses the channel from one thread: the host's frame loop    *)
(* and the game's BridgeWorker.  The model keeps one slot per direction;   *)
(* host_health is written and read exactly as render_request is.  The name *)
(* of the region is made from a nonce the launcher draws for every session, *)
(* so a process that crashed does not come back to the region it left.      *)
(***************************************************************************)
EXTENDS Integers, FiniteSets, TLC

CONSTANTS
    Words,          \* words of a payload
    Modulus,        \* numbers of a slot's sequence, 2^32 in the code
    MaxAttempts,    \* the reader's attempts, 64 in the code
    Generations,    \* stream generations the host may be started with
    Expected,       \* the one the game was bootstrapped with
    MaxFaults       \* bound on closed channels and crashed processes

ASSUME WordsAssumption    == Words \in Nat \ {0}
ASSUME ModulusAssumption  == Modulus \in Nat /\ Modulus > 4
ASSUME AttemptsAssumption == MaxAttempts \in Nat \ {0}
ASSUME GenerationAssumption ==
    Generations \subseteq Nat \ {0} /\ Expected \in Generations
ASSUME FaultsAssumption   == MaxFaults \in Nat

VARIABLES
    mapping,    \* the named mapping exists
    magic,      \* region.header.magic has been published
    generation, \* region.header.generation, 0 in fresh memory
    sequence,   \* per slot
    payload,    \* per slot and word, the publication the word comes from
    channel,    \* per process: "closed" or "open"
    pc,         \* per process: where it is in a call, "idle" outside, or "dead"
    word,       \* per process: the word it copies next
    stable,     \* per process: the sequence read before the copy
    attempt,    \* per process: attempts of the current read
    copy,       \* per process: the candidate of the current read
    output,     \* per process: the last snapshot that a read returned
    published,  \* per slot: publications so far
    floor,      \* per process: publications of the peer when the read began
    faults

regionVars  == <<mapping, magic, generation, sequence, payload>>
localVars   == <<word, stable, attempt, copy, output>>
channelVars == <<regionVars, channel, pc, localVars, published, floor, faults>>

Procs == {"host", "game"}
Slots == Procs      \* a slot is named for the process that writes it
Peer(p) == IF p = "host" THEN "game" ELSE "host"

IsOdd(n) == n % 2 = 1

NoWords == [k \in 1 .. Words |-> 0]

ChannelInit ==
    /\ mapping = FALSE /\ magic = FALSE /\ generation = 0
    /\ sequence = [s \in Slots |-> 0] /\ payload = [s \in Slots |-> NoWords]
    /\ channel = [p \in Procs |-> "closed"] /\ pc = [p \in Procs |-> "idle"]
    /\ word = [p \in Procs |-> 1] /\ stable = [p \in Procs |-> 0]
    /\ attempt = [p \in Procs |-> 0]
    /\ copy = [p \in Procs |-> NoWords] /\ output = [p \in Procs |-> NoWords]
    /\ published = [s \in Slots |-> 0] /\ floor = [p \in Procs |-> 0]
    /\ faults = 0

Goto(p, label) == pc' = [pc EXCEPT ![p] = label]

-----------------------------------------------------------------------------
(* Creating, opening and closing. *)

\* CreateHost maps fresh, zeroed memory; a mapping of that name that already
\* exists is refused.
MayCreate == ~mapping

HostMap ==
    /\ channel["host"] = "closed" /\ pc["host"] = "idle" /\ MayCreate
    /\ mapping' = TRUE /\ magic' = FALSE /\ generation' = 0
    /\ sequence' = [s \in Slots |-> 0] /\ payload' = [s \in Slots |-> NoWords]
    /\ published' = [s \in Slots |-> 0]
    /\ Goto("host", "fill header")
    /\ UNCHANGED <<channel, localVars, floor, faults>>

HostFillHeader ==
    /\ pc["host"] = "fill header"
    /\ generation' \in Generations
    /\ Goto("host", "publish magic")
    /\ UNCHANGED <<mapping, magic, sequence, payload, channel>>
    /\ UNCHANGED <<localVars, published, floor, faults>>

HostPublishMagic ==
    /\ pc["host"] = "publish magic"
    /\ magic' = TRUE
    /\ channel' = [channel EXCEPT !["host"] = "open"] /\ Goto("host", "idle")
    /\ UNCHANGED <<mapping, generation, sequence, payload>>
    /\ UNCHANGED <<localVars, published, floor, faults>>

GameMap ==
    /\ channel["game"] = "closed" /\ pc["game"] = "idle" /\ mapping
    /\ Goto("game", "validate")
    /\ UNCHANGED <<regionVars, channel, localVars, published, floor, faults>>

\* ValidateRegion.  Variant: a header that is not ready is not told apart.
RegionValidWithoutMagic == generation \in {0, Expected}

RegionValid == magic /\ generation = Expected

\* The mapping disappears with the last process that has it mapped.
Mapped(p) == channel'[p] = "open" \/ pc'[p] \in {"fill header", "publish magic", "validate"}

Unmap == mapping' = (mapping /\ \E p \in Procs : Mapped(p))

GameValidate ==
    /\ pc["game"] = "validate"
    /\ Goto("game", "idle")
    /\ channel' = IF RegionValid THEN [channel EXCEPT !["game"] = "open"] ELSE channel
    /\ Unmap
    /\ UNCHANGED <<magic, generation, sequence, payload>>
    /\ UNCHANGED <<localVars, published, floor, faults>>

Close(p) ==
    /\ faults < MaxFaults /\ faults' = faults + 1
    /\ channel[p] = "open" /\ pc[p] = "idle"
    /\ channel' = [channel EXCEPT ![p] = "closed"] /\ pc' = pc
    /\ output' = [output EXCEPT ![p] = NoWords]
    /\ Unmap
    /\ UNCHANGED <<magic, generation, sequence, payload>>
    /\ UNCHANGED <<word, stable, attempt, copy, published, floor>>

\* The process ends, anywhere, also between two words.
Crash(p) ==
    /\ faults < MaxFaults /\ faults' = faults + 1
    /\ pc[p] # "dead"
    /\ channel' = [channel EXCEPT ![p] = "closed"] /\ Goto(p, "dead")
    /\ Unmap
    /\ UNCHANGED <<magic, generation, sequence, payload, localVars, published, floor>>

-----------------------------------------------------------------------------
(* PublishSnapshot into the process's own slot. *)

\* Variant: without the test that keeps the sequence from wrapping.
MayPublishUnbounded(s) == ~IsOdd(sequence[s])

MayPublish(s) == ~IsOdd(sequence[s]) /\ sequence[s] < Modulus - 4

PublishBegin(p) ==
    /\ channel[p] = "open" /\ pc[p] = "idle" /\ MayPublish(p)
    /\ stable' = [stable EXCEPT ![p] = sequence[p]]
    /\ Goto(p, "swap")
    /\ UNCHANGED <<regionVars, channel, word, attempt, copy, output, published, floor, faults>>

\* The compare-and-swap; a slot that has moved is refused (WriterContended).
PublishSwap(p) ==
    /\ pc[p] = "swap"
    /\ IF sequence[p] = stable[p]
       THEN /\ sequence' = [sequence EXCEPT ![p] = (stable[p] + 1) % Modulus]
            /\ word' = [word EXCEPT ![p] = 1] /\ Goto(p, "write")
       ELSE UNCHANGED <<sequence, word>> /\ Goto(p, "idle")
    /\ UNCHANGED <<mapping, magic, generation, payload, channel>>
    /\ UNCHANGED <<stable, attempt, copy, output, published, floor, faults>>

PublishWord(p) ==
    /\ pc[p] = "write"
    /\ payload' = [payload EXCEPT ![p][word[p]] = published[p] + 1]
    /\ IF word[p] < Words
       THEN word' = [word EXCEPT ![p] = @ + 1] /\ pc' = pc
       ELSE word' = word /\ Goto(p, "commit")
    /\ UNCHANGED <<mapping, magic, generation, sequence, channel>>
    /\ UNCHANGED <<stable, attempt, copy, output, published, floor, faults>>

\* Variant: the second increment is forgotten.
CommittedStaysOdd(p) == sequence[p]

Committed(p) == (stable[p] + 2) % Modulus

PublishCommit(p) ==
    /\ pc[p] = "commit"
    /\ sequence' = [sequence EXCEPT ![p] = Committed(p)]
    /\ published' = [published EXCEPT ![p] = @ + 1]
    /\ Goto(p, "idle")
    /\ UNCHANGED <<mapping, magic, generation, payload, channel, localVars, floor, faults>>

-----------------------------------------------------------------------------
(* ReadSnapshot of the peer's slot. *)

ReadBegin(p) ==
    /\ channel[p] = "open" /\ pc[p] = "idle"
    /\ attempt' = [attempt EXCEPT ![p] = 0]
    /\ floor' = [floor EXCEPT ![p] = published[Peer(p)]]
    /\ Goto(p, "before")
    /\ UNCHANGED <<regionVars, channel, word, stable, copy, output, published, faults>>

\* The end of an attempt: the next one, or SnapshotContended.  Variant: the
\* reader spins until the writer is done.
RetryForever(p) == attempt' = [attempt EXCEPT ![p] = @ + 1] /\ Goto(p, "before")

Retry(p) ==
    /\ attempt' = [attempt EXCEPT ![p] = @ + 1]
    /\ Goto(p, IF attempt[p] + 1 < MaxAttempts THEN "before" ELSE "idle")

ReadBefore(p) ==
    LET before == sequence[Peer(p)] IN
    /\ pc[p] = "before"
    /\ \/ /\ before = 0 /\ Goto(p, "idle")      \* SnapshotUnavailable
          /\ UNCHANGED <<attempt, stable, word>>
       \/ IsOdd(before) /\ Retry(p) /\ UNCHANGED <<stable, word>>
       \/ /\ before # 0 /\ ~IsOdd(before)
          /\ stable' = [stable EXCEPT ![p] = before] /\ word' = [word EXCEPT ![p] = 1]
          /\ Goto(p, "read") /\ UNCHANGED attempt
    /\ UNCHANGED <<regionVars, channel, copy, output, published, floor, faults>>

ReadWord(p) ==
    /\ pc[p] = "read"
    /\ copy' = [copy EXCEPT ![p][word[p]] = payload[Peer(p)][word[p]]]
    /\ IF word[p] < Words
       THEN word' = [word EXCEPT ![p] = @ + 1] /\ pc' = pc
       ELSE word' = word /\ Goto(p, "after")
    /\ UNCHANGED <<regionVars, channel, stable, attempt, output, published, floor, faults>>

\* The sequence has not moved.  Variant: it only has to be even again.
UnmovedIfEven(p) == ~IsOdd(sequence[Peer(p)])

Unmoved(p) == sequence[Peer(p)] = stable[p]

ReadAfter(p) ==
    /\ pc[p] = "after"
    /\ IF Unmoved(p)
       THEN output' = [output EXCEPT ![p] = copy[p]] /\ Goto(p, "idle") /\ attempt' = attempt
       ELSE Retry(p) /\ output' = output
    /\ UNCHANGED <<regionVars, channel, word, stable, copy, published, floor, faults>>

-----------------------------------------------------------------------------
Publish(p) == PublishBegin(p) \/ PublishSwap(p) \/ PublishWord(p) \/ PublishCommit(p)
Read(p)    == ReadBegin(p) \/ ReadBefore(p) \/ ReadWord(p) \/ ReadAfter(p)
Attach     == HostMap \/ HostFillHeader \/ HostPublishMagic \/ GameMap \/ GameValidate

ChannelNext ==
    \/ Attach
    \/ \E p \in Procs : Publish(p) \/ Read(p) \/ Close(p) \/ Crash(p)

ChannelSpec == ChannelInit /\ [][ChannelNext]_channelVars

\* A thread that has entered a call goes on in it.  Nobody has to enter one:
\* the game's worker polls, the host's frame loop never reads.
ChannelFairness ==
    \A p \in Procs :
        /\ WF_channelVars(PublishSwap(p) \/ PublishWord(p) \/ PublishCommit(p))
        /\ WF_channelVars(ReadBefore(p) \/ ReadWord(p) \/ ReadAfter(p))

-----------------------------------------------------------------------------
(* Properties *)

Labels == {"idle", "dead", "fill header", "publish magic", "validate", "swap", "write", "commit",
           "before", "read", "after"}

\* Every variable keeps its type; a sequence fits its width.
ChannelTypeOK ==
    /\ mapping \in BOOLEAN /\ magic \in BOOLEAN /\ generation \in Generations \cup {0}
    /\ sequence \in [Slots -> 0 .. Modulus - 1]
    /\ payload \in [Slots -> [1 .. Words -> Nat]]
    /\ channel \in [Procs -> {"closed", "open"}] /\ pc \in [Procs -> Labels]
    /\ word \in [Procs -> 1 .. Words] /\ stable \in [Procs -> 0 .. Modulus - 1]
    /\ attempt \in [Procs -> 0 .. MaxAttempts]
    /\ copy \in [Procs -> [1 .. Words -> Nat]] /\ output \in [Procs -> [1 .. Words -> Nat]]
    /\ published \in [Slots -> Nat] /\ floor \in [Procs -> Nat] /\ faults \in 0 .. MaxFaults

\* Whoever has the channel open sees a complete header of the generation it
\* was started for, and a mapping that is really there.
AttachedToReadyRegion ==
    /\ \A p \in Procs : channel[p] = "open" => mapping /\ magic
    /\ channel["game"] = "open" => generation = Expected

\* What a read returns is one publication, whole, not older than what the peer
\* had already published when the read began, whatever the peer writes or how
\* it dies in the meantime.
ReadsAreSnapshots ==
    [][\A p \in Procs : output'[p] # output[p] /\ channel'[p] = "open" =>
         /\ \A k \in 1 .. Words : output'[p][k] = output'[p][1]
         /\ output'[p][1] \in floor[p] .. published[Peer(p)]]_channelVars

\* While a process has the channel open nobody zeroes or rewinds the region
\* under it: neither a second host nor a sequence that wraps.
RegionNeverRewinds ==
    [][\A p \in Procs : channel[p] = "open" /\ channel'[p] = "open" =>
         /\ generation' = generation /\ magic'
         /\ \A s \in Slots : sequence'[s] >= sequence[s]]_channelVars

BothOpen == \A p \in Procs : channel[p] = "open"

\* To a process that keeps reading while both ends stay attached, the peer's
\* newest message gets through once the sender pauses (the sequence bound makes
\* it pause), although a read gives up after MaxAttempts.
NewestArrives ==
    \A p \in Procs :
        <>[]BothOpen /\ []<>(pc[p] = "before")
        => <>[](output[p][1] = published[Peer(p)])

=============================================================================
