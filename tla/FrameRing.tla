------------------------------ MODULE FrameRing ------------------------------
(***************************************************************************)
(* StereoFrameRing of host64/src/frame_ring.cpp: one ring of slots per eye *)
(* between the producer of eye frames and the consumer of stereo pairs.    *)
(* Every method runs under the ring's mutex and is one action; the model   *)
(* adds what its callers hold (leases, pairs) and the consumer's GPU,      *)
(* whose fence says when a released pair has been read.                    *)
(*                                                                         *)
(* A method that refuses its arguments only counts the refusal in stats_   *)
(* and is a stuttering step, unless it gives a slot up (PublishRejected).  *)
(***************************************************************************)
EXTENDS Integers, FiniteSets, TLC

CONSTANTS
    SlotCount,      \* ring_slot_count
    Layouts,        \* display times, extents and formats of the eye textures
    MaxFrame,       \* bound on frame ids
    MaxGeneration,  \* bound on stream generations
    MaxLease        \* bound on the leases handed out

ASSUME SlotCountAssumption == SlotCount \in Nat \ {0}
ASSUME BoundsAssumption ==
    MaxFrame \in Nat /\ MaxGeneration \in Nat /\ MaxLease \in Nat

VARIABLES
    slots,          \* slots_, per eye and index
    nextSlot,       \* next_slot_
    nextLease,      \* next_lease_id_
    generation,     \* stream_generation_
    lastAcquired,   \* last_acquired_frame_id_, 0 while has_acquired_frame_ is false
    leases,         \* every lease begin_produce has handed out
    open,           \* those not yet published, cancelled or refused
    pairs,          \* every pair the consumer has acquired
    held,           \* those not yet released
    released,       \* the others, each with its consumer fence value
    completed       \* the value the consumer's fence has completed

ring    == <<slots, nextSlot, nextLease, generation, lastAcquired>>
callers == <<leases, open, pairs, held, released, completed>>
ringVars    == <<ring, callers>>

Left  == 0
Right == 1
RingEyes  == {Left, Right}
Index == 0 .. SlotCount - 1

NoContent == [id |-> 0, gen |-> 0, layout |-> 0]
EmptySlot == [state |-> "free", lease |-> 0, expected |-> NoContent, fence |-> 0,
              frame |-> NoContent]

RingInit ==
    /\ slots = [e \in RingEyes |-> [i \in Index |-> EmptySlot]]
    /\ nextSlot = [e \in RingEyes |-> 0] /\ nextLease = 1
    /\ generation = 0 /\ lastAcquired = 0
    /\ leases = {} /\ open = {} /\ pairs = {} /\ held = {} /\ released = {}
    /\ completed = 0

-----------------------------------------------------------------------------
InState(e, state) == {i \in Index : slots[e][i].state = state}

\* The first free slot at or after next_slot_, going round.
FirstFree(e) ==
    LET offset(i) == (i - nextSlot[e]) % SlotCount
    IN CHOOSE i \in InState(e, "free") :
         \A j \in InState(e, "free") : offset(i) <= offset(j)

\* The slots a producer may take when none is free.
Evictable(e) == InState(e, "ready")

\* The one of them with the oldest frame.
Oldest(e) ==
    CHOOSE i \in Evictable(e) : \A j \in Evictable(e) :
        \/ slots[e][i].frame.id < slots[e][j].frame.id
        \/ slots[e][i].frame.id = slots[e][j].frame.id /\ i <= j

Available(e) == InState(e, "free") # {} \/ Evictable(e) # {}
Selected(e)  == IF InState(e, "free") # {} THEN FirstFree(e) ELSE Oldest(e)

\* Where the search for the next free slot starts.  Variant: it runs off the end.
AfterUnwrapped(i) == i + 1

After(i) == (i + 1) % SlotCount

BeginProduce(e, id, gen) ==
    LET i == Selected(e)
        lease == [eye |-> e, slot |-> i, id |-> nextLease]
    IN /\ nextLease <= MaxLease
       /\ generation \in {0, gen}
       /\ lastAcquired # 0 => id > lastAcquired
       /\ Available(e)
       /\ generation' = gen
       /\ slots' = [slots EXCEPT ![e][i] =
                      [EmptySlot EXCEPT !.state = "producer_owned", !.lease = nextLease,
                          !.expected = [id |-> id, gen |-> gen, layout |-> 0]]]
       /\ nextSlot' = [nextSlot EXCEPT ![e] = After(i)]
       /\ nextLease' = nextLease + 1
       /\ leases' = leases \cup {lease} /\ open' = open \cup {lease}
       /\ UNCHANGED <<lastAcquired, pairs, held, released, completed>>

\* find_slot and the check of the state: the lease still owns its slot.
\* Variant: without the comparison of the lease ids.
OwnsAnyLease(lease) == slots[lease.eye][lease.slot].state = "producer_owned"

Owns(lease) ==
    /\ slots[lease.eye][lease.slot].lease = lease.id
    /\ slots[lease.eye][lease.slot].state = "producer_owned"

Publish(lease, layout) ==
    LET slot == slots[lease.eye][lease.slot] IN
    /\ Owns(lease) /\ slot.expected.gen = generation
    /\ slots' = [slots EXCEPT ![lease.eye][lease.slot].state = "ready",
                    ![lease.eye][lease.slot].frame = [slot.expected EXCEPT !.layout = layout]]
    /\ open' = open \ {lease}
    /\ UNCHANGED <<nextSlot, nextLease, generation, lastAcquired>>
    /\ UNCHANGED <<leases, pairs, held, released, completed>>

\* abandon_producer_slot.
Abandon(slot) == [EmptySlot EXCEPT !.lease = slot.lease]

\* cancel_produce, and publish of a frame that does not fit the lease or lacks
\* a texture or fence: the slot and with it the lease are given up.
GiveUp(lease) ==
    /\ Owns(lease)
    /\ slots' = [slots EXCEPT ![lease.eye][lease.slot] = Abandon(@)]
    /\ open' = open \ {lease}
    /\ UNCHANGED <<nextSlot, nextLease, generation, lastAcquired>>
    /\ UNCHANGED <<leases, pairs, held, released, completed>>

-----------------------------------------------------------------------------
\* frames_form_complete_pair.  Variant: the ids alone decide.
MatchById(left, right) == left.id = right.id

Match(left, right) == left = right

\* The ready slots that form a pair of the current generation.
Complete ==
    {p \in InState(Left, "ready") \X InState(Right, "ready") :
        /\ Match(slots[Left][p[1]].frame, slots[Right][p[2]].frame)
        /\ slots[Left][p[1]].frame.gen = generation}

\* The scan keeps the first pair of the newest frame.
Newest(p, q) ==
    LET idP == slots[Left][p[1]].frame.id
        idQ == slots[Left][q[1]].frame.id
    IN \/ idP > idQ
       \/ idP = idQ /\ (p[1] < q[1] \/ (p[1] = q[1] /\ p[2] <= q[2]))

\* discard_older_ready_frames.
Discard(slot, id) ==
    IF slot.state = "ready"
       /\ (slot.frame.gen < generation \/ (slot.frame.gen = generation /\ slot.frame.id < id))
    THEN [slot EXCEPT !.state = "free"]
    ELSE slot

AcquireLatestCompletePair ==
    /\ Complete # {}
    /\ LET p  == CHOOSE p \in Complete : \A q \in Complete : Newest(p, q)
           l  == slots[Left][p[1]]
           r  == slots[Right][p[2]]
           pair == [index |-> p, lease |-> <<l.lease, r.lease>>,
                    frame |-> <<l.frame, r.frame>>]
           taken(e, i) == i = p[e + 1]
       IN /\ slots' = [e \in RingEyes |-> [i \in Index |->
                IF taken(e, i) THEN [slots[e][i] EXCEPT !.state = "consumer_owned"]
                ELSE Discard(slots[e][i], l.frame.id)]]
          /\ lastAcquired' = l.frame.id
          /\ pairs' = pairs \cup {pair} /\ held' = held \cup {pair}
    /\ UNCHANGED <<nextSlot, nextLease, generation, leases, open, released, completed>>

StillOwned(pair, e) ==
    LET slot == slots[e][pair.index[e + 1]] IN
    /\ slot.state = "consumer_owned"
    /\ slot.lease = pair.lease[e + 1]
    /\ slot.frame.id = pair.frame[e + 1].id /\ slot.frame.gen = pair.frame[e + 1].gen

\* The consumer numbers its submissions.
NextFence == Cardinality(released) + 1

ReleasePair(pair) ==
    /\ \A e \in RingEyes : StillOwned(pair, e)
    /\ slots' = [e \in RingEyes |-> [slots[e] EXCEPT
                    ![pair.index[e + 1]].state = "consumer_pending",
                    ![pair.index[e + 1]].fence = NextFence]]
    /\ held' = held \ {pair}
    /\ released' = released \cup {[pair |-> pair, fence |-> NextFence]}
    /\ UNCHANGED <<nextSlot, nextLease, generation, lastAcquired>>
    /\ UNCHANGED <<leases, open, pairs, completed>>

\* Variant: every pending slot is retired, whatever its fence value.
RetiredAtOnce(slot) == slot.state = "consumer_pending"

Retired(slot) == slot.state = "consumer_pending" /\ slot.fence <= completed

RetireCompleted ==
    /\ slots' = [e \in RingEyes |-> [i \in Index |->
          IF Retired(slots[e][i])
          THEN [slots[e][i] EXCEPT !.state = "free", !.fence = 0]
          ELSE slots[e][i]]]
    /\ UNCHANGED <<nextSlot, nextLease, generation, lastAcquired, callers>>

\* The consumer's GPU finishes the next released pair.
ConsumerFence ==
    /\ completed < Cardinality(released) /\ completed' = completed + 1
    /\ UNCHANGED <<ring, leases, open, pairs, held, released>>

\* A reset waits until nobody owns a slot.
Idle ==
    \A e \in RingEyes : InState(e, "producer_owned") \cup InState(e, "consumer_owned")
                      \cup InState(e, "consumer_pending") = {}

Reset(gen) ==
    /\ gen > generation /\ Idle
    /\ generation' = gen /\ lastAcquired' = 0
    /\ nextSlot' = [e \in RingEyes |-> 0]
    /\ slots' = [e \in RingEyes |-> [i \in Index |-> EmptySlot]]
    /\ UNCHANGED <<nextLease, callers>>

Producer ==
    \/ \E e \in RingEyes, id \in 1 .. MaxFrame, gen \in 1 .. MaxGeneration :
          BeginProduce(e, id, gen)
    \/ \E lease \in leases, layout \in Layouts : Publish(lease, layout)
    \/ \E lease \in leases : GiveUp(lease)

Consumer ==
    \/ AcquireLatestCompletePair
    \/ \E pair \in pairs : ReleasePair(pair)
    \/ RetireCompleted \/ ConsumerFence

RingNext == Producer \/ Consumer \/ \E gen \in 1 .. MaxGeneration : Reset(gen)

RingSpec == RingInit /\ [][RingNext]_ringVars

-----------------------------------------------------------------------------
(* Properties *)

Contents == [id : Nat, gen : Nat, layout : Layouts \cup {0}]
States   == {"free", "producer_owned", "ready", "consumer_owned", "consumer_pending"}
RingSlots    == [state : States, lease : Nat, expected : Contents, fence : Nat, frame : Contents]
RingLeases   == [eye : RingEyes, slot : Index, id : Nat]
RingPairs    == [index : Index \X Index, lease : Nat \X Nat, frame : Contents \X Contents]

\* Every variable keeps its type.
RingTypeOK ==
    /\ slots \in [RingEyes -> [Index -> RingSlots]] /\ nextSlot \in [RingEyes -> Index]
    /\ nextLease \in Nat /\ generation \in Nat /\ lastAcquired \in Nat
    /\ leases \subseteq RingLeases /\ open \subseteq leases
    /\ pairs \subseteq RingPairs /\ held \subseteq pairs
    /\ released \subseteq [pair : pairs, fence : Nat] /\ completed \in Nat

\* What the callers hold and what the slots say is the same: an open lease
\* owns its slot, a held pair owns both of its slots, and no slot is owned by
\* anyone else, so none is ever lost.
OwnershipAccounted ==
    /\ \A lease \in open : Owns(lease)
    /\ \A pair \in held : \A e \in RingEyes : StillOwned(pair, e)
    /\ \A e \in RingEyes :
         /\ Cardinality(InState(e, "producer_owned")) =
               Cardinality({lease \in open : lease.eye = e})
         /\ Cardinality(InState(e, "consumer_owned")) = Cardinality(held)

\* A slot that the consumer's GPU has still to read, because the fence value
\* its pair was released with has not completed, is left alone: whatever
\* producers, further acquisitions and resets do in between.
ConsumerProtected ==
    \A r \in released : r.fence > completed =>
        \A e \in RingEyes :
            LET slot == slots[e][r.pair.index[e + 1]] IN
            /\ slot.state = "consumer_pending"
            /\ slot.lease = r.pair.lease[e + 1] /\ slot.frame = r.pair.frame[e + 1]

\* The consumer only ever sees two eyes of one frame in one layout, and no
\* published eye is handed out twice.
PairsWhole ==
    /\ \A pair \in pairs : pair.frame[1] = pair.frame[2]
    /\ \A p, q \in pairs : p # q => \A e \in RingEyes : p.lease[e + 1] # q.lease[e + 1]

\* Within a generation the pairs come in the order of their frame ids: a frame
\* older than an acquired one is refused.
AcquiredInOrder ==
    [][pairs' # pairs => lastAcquired' >= lastAcquired]_ringVars

=============================================================================
