-------------------------- MODULE FrameRingProofs --------------------------
(***************************************************************************)
(* What the frame ring promises, for rings of any size and any number of   *)
(* frames, generations and leases: nobody loses a slot, nobody is given    *)
(* somebody else's, and the consumer sees whole pairs, each eye once.      *)
(*                                                                         *)
(* The invariants the runs check are not inductive.  That an open lease    *)
(* owns its slot says nothing of the slots a producer owns; that two pairs *)
(* share no lease needs that a slot which may still become part of a pair  *)
(* carries a lease no other such slot and no earlier pair has; and that    *)
(* lease is fresh because every lease given out is below next_lease_id_.   *)
(* RingInv adds those facts.  The scans of the ring pick a least element   *)
(* (CHOOSE), so that one exists has to be proved too.                      *)
(***************************************************************************)
EXTENDS FrameRing, FiniteSetTheorems, WellFoundedInduction, TLAPS

\* Frame ids keep to their bound.
FrameIds ==
    \A e \in RingEyes, i \in Index :
        slots[e][i].frame.id \in 0 .. MaxFrame /\ slots[e][i].expected.id \in 0 .. MaxFrame

\* Every lease given out is below the next one.
LeaseIds ==
    /\ 0 < nextLease
    /\ \A e \in RingEyes, i \in Index : slots[e][i].lease < nextLease
    /\ \A pair \in pairs, e \in RingEyes : pair.lease[e + 1] < nextLease

\* A slot whose lease may still become part of a pair.
Carries(e, i) == slots[e][i].state \in {"producer_owned", "ready"}

\* Such a lease is carried by one slot of its eye and is in no pair so far.
LeasesUnused ==
    /\ \A e \in RingEyes, i, j \in Index :
          i # j /\ Carries(e, i) /\ Carries(e, j) => slots[e][i].lease # slots[e][j].lease
    /\ \A e \in RingEyes, i \in Index, pair \in pairs :
          Carries(e, i) => slots[e][i].lease # pair.lease[e + 1]

\* The slot holds this eye of the pair.
Carrying(slot, pair, e) ==
    slot.lease = pair.lease[e + 1] /\ slot.frame = pair.frame[e + 1]

\* An owned slot has an owner, and an owner has its slots.
Owned ==
    /\ \A lease \in open : Owns(lease)
    /\ \A e \in RingEyes, i \in Index : slots[e][i].state = "producer_owned" =>
          [eye |-> e, slot |-> i, id |-> slots[e][i].lease] \in open
    /\ \A pair \in held, e \in RingEyes :
          /\ slots[e][pair.index[e + 1]].state = "consumer_owned"
          /\ Carrying(slots[e][pair.index[e + 1]], pair, e)
    /\ \A e \in RingEyes, i \in Index : slots[e][i].state = "consumer_owned" =>
          \E pair \in held : pair.index[e + 1] = i

\* A pair the GPU has still to read is in its slots, with its fence value.
InFlight ==
    /\ IsFiniteSet(released)
    /\ \A r \in released, e \in RingEyes : r.fence > completed =>
          /\ slots[e][r.pair.index[e + 1]].state = "consumer_pending"
          /\ slots[e][r.pair.index[e + 1]].fence = r.fence
          /\ Carrying(slots[e][r.pair.index[e + 1]], r.pair, e)

RingInv == RingTypeOK /\ FrameIds /\ LeaseIds /\ LeasesUnused /\ Owned /\ InFlight /\ PairsWhole

-----------------------------------------------------------------------------
(* The scans find a slot *)

\* Any inhabited set of natural numbers has a smallest member.
LEMMA SmallestNumber ==
    ASSUME NEW N, N \subseteq Nat, N # {}
    PROVE  \E m \in N : \A n \in N : m <= n
<1>1. \E m \in N : \A n \in N : ~(<<n, m>> \in OpToRel(<, Nat))
    <2>. HIDE DEF OpToRel
    <2>. QED  BY NatLessThanWellFounded, WFMin, Zenon
<1>2. \A m, n \in N : ~(<<n, m>> \in OpToRel(<, Nat)) => m <= n
    BY DEF OpToRel
<1>. QED  BY <1>1, <1>2, Zenon

\* A number given to each member of an inhabited set is smallest for some member.
LEMMA Smallest ==
    ASSUME NEW S, S # {}, NEW f \in [S -> Nat]
    PROVE  \E x \in S : \A y \in S : f[x] <= f[y]
<1>. DEFINE N == {f[x] : x \in S}
<1>1. N \subseteq Nat /\ N # {}
    OBVIOUS
<1>2. PICK m \in N : \A n \in N : m <= n
    BY <1>1, SmallestNumber
<1>. QED  BY <1>2

\* The search for a free slot finds one if there is one.
LEMMA FirstFreeFound ==
    ASSUME RingTypeOK, NEW e \in RingEyes, InState(e, "free") # {}
    PROVE  FirstFree(e) \in InState(e, "free")
<1>. DEFINE Free == InState(e, "free")
            offset == [i \in Free |-> (i - nextSlot[e]) % SlotCount]
<1>1. Free \subseteq Int /\ nextSlot[e] \in Int
    BY DEF RingTypeOK, InState, Index
<1>2. \A i \in Free : (i - nextSlot[e]) % SlotCount \in Nat
    BY <1>1, SlotCountAssumption
<1>3. offset \in [Free -> Nat]
    BY <1>2
<1>. HIDE DEF Free
<1>4. \E i \in Free : \A j \in Free : offset[i] <= offset[j]
    BY <1>3, Smallest DEF Free
<1>5. \E i \in Free : \A j \in Free :
         (i - nextSlot[e]) % SlotCount <= (j - nextSlot[e]) % SlotCount
    BY <1>4
<1>. QED  BY <1>5 DEF FirstFree, Free

\* The search for the oldest ready frame finds it if there is one.
LEMMA OldestFound ==
    ASSUME RingTypeOK, FrameIds, NEW e \in RingEyes, Evictable(e) # {}
    PROVE  Oldest(e) \in Evictable(e)
<1>. DEFINE Full  == Evictable(e)
            id(i) == slots[e][i].frame.id
            ids   == [i \in Full |-> id(i)]
<1>1. Full \subseteq Index /\ Full \subseteq Nat /\ \A i \in Full : id(i) \in Nat
    BY BoundsAssumption DEF FrameIds, Evictable, InState, Index
<1>. HIDE DEF Full, id
<1>2. PICK x \in Full : \A j \in Full : id(x) <= id(j)
    <2>1. ids \in [Full -> Nat] /\ Full # {}
        BY <1>1 DEF Full
    <2>2. \E i \in Full : \A j \in Full : ids[i] <= ids[j]
        BY <2>1, Smallest
    <2>. QED  BY <2>2
<1>. DEFINE First == {i \in Full : id(i) = id(x)}
<1>3. PICK i \in First : \A j \in First : i <= j
    <2>1. First # {} /\ First \subseteq Nat
        BY <1>1
    <2>. QED  BY <2>1, SmallestNumber
<1>4. \A j \in Full : id(i) < id(j) \/ (id(i) = id(j) /\ i <= j)
    BY <1>1, <1>2, <1>3
<1>5. \E k \in Full : \A j \in Full : id(k) < id(j) \/ (id(k) = id(j) /\ k <= j)
    BY <1>3, <1>4
<1>6. \E k \in Evictable(e) : \A j \in Evictable(e) :
         \/ slots[e][k].frame.id < slots[e][j].frame.id
         \/ slots[e][k].frame.id = slots[e][j].frame.id /\ k <= j
    BY <1>5, Zenon DEF Full, id
<1>. QED  BY <1>6, Zenon DEF Oldest

\* A producer is only given a slot that is free or holds an unclaimed frame.
LEMMA SelectedFound ==
    ASSUME RingTypeOK, FrameIds, NEW e \in RingEyes, Available(e)
    PROVE  Selected(e) \in Index /\ slots[e][Selected(e)].state \in {"free", "ready"}
<1>1. CASE InState(e, "free") # {}
    BY <1>1, FirstFreeFound DEF Selected, InState
<1>2. CASE InState(e, "free") = {}
    BY <1>2, OldestFound DEF Selected, Available, Evictable, InState
<1>. QED  BY <1>1, <1>2

\* The scan for the newest pair finds it if there is a complete pair.
LEMMA NewestFound ==
    ASSUME RingTypeOK, FrameIds, Complete # {}
    PROVE  (CHOOSE p \in Complete : \A q \in Complete : Newest(p, q)) \in Complete
<1>. DEFINE id(p) == slots[Left][p[1]].frame.id
            age   == [p \in Complete |-> MaxFrame - id(p)]
<1>1. \A p \in Complete : /\ p[1] \in Nat /\ p[2] \in Nat /\ p = <<p[1], p[2]>>
                          /\ id(p) \in Nat /\ MaxFrame - id(p) \in Nat
    BY BoundsAssumption DEF FrameIds, Complete, InState, Index, RingEyes, Left, Right
<1>. HIDE DEF id
<1>2. PICK x \in Complete : \A q \in Complete : id(q) <= id(x)
    <2>1. age \in [Complete -> Nat]
        BY <1>1
    <2>2. PICK y \in Complete : \A q \in Complete : age[y] <= age[q]
        BY <2>1, Smallest
    <2>3. \A q \in Complete : MaxFrame - id(y) <= MaxFrame - id(q)
        BY <2>2
    <2>. QED  BY <1>1, <2>3, BoundsAssumption
<1>. DEFINE Ones == {p \in Complete : id(p) = id(x)}
            one  == [p \in Ones |-> p[1]]
<1>3. PICK y \in Ones : \A q \in Ones : y[1] <= q[1]
    <2>1. one \in [Ones -> Nat] /\ Ones # {}
        BY <1>1
    <2>2. PICK y \in Ones : \A q \in Ones : one[y] <= one[q]
        BY <2>1, Smallest
    <2>. QED  BY <2>2
<1>. DEFINE Twos == {p \in Ones : p[1] = y[1]}
            two  == [p \in Twos |-> p[2]]
<1>4. PICK z \in Twos : \A q \in Twos : z[2] <= q[2]
    <2>1. two \in [Twos -> Nat] /\ Twos # {}
        BY <1>1
    <2>2. PICK z \in Twos : \A q \in Twos : two[z] <= two[q]
        BY <2>1, Smallest
    <2>. QED  BY <2>2
<1>5. z \in Complete /\ id(z) = id(x) /\ z[1] = y[1]
    BY <1>4
<1>6. ASSUME NEW q \in Complete  PROVE Newest(z, q)
    <2>1. CASE id(q) < id(x)
        BY <2>1, <1>1, <1>5 DEF Newest, id
    <2>2. CASE id(q) = id(x) /\ y[1] < q[1]
        BY <2>2, <1>1, <1>5 DEF Newest, id
    <2>3. CASE id(q) = id(x) /\ q[1] = y[1]
        <3>1. q \in Twos
            BY <2>3
        <3>2. z[2] <= q[2]
            BY <3>1, <1>4
        <3>. QED  BY <2>3, <3>2, <1>1, <1>5 DEF Newest, id
    <2>4. id(q) <= id(x) /\ (id(q) = id(x) => y[1] <= q[1])
        BY <1>2, <1>3
    <2>. QED  BY <2>1, <2>2, <2>3, <2>4, <1>1
<1>7. \E p \in Complete : \A q \in Complete : Newest(p, q)
    BY <1>5, <1>6
<1>. QED  BY <1>7, Zenon

-----------------------------------------------------------------------------
(* Types *)

\* What a pair names per eye.
LEMMA Halves ==
    ASSUME NEW pair \in RingPairs, NEW e \in RingEyes
    PROVE  /\ pair.index[e + 1] \in Index /\ pair.lease[e + 1] \in Nat
           /\ pair.frame[e + 1] \in Contents
    BY DEF RingPairs, RingEyes, Left, Right

\* The types of the pairs in the three sets the callers keep.
LEMMA PairTypes ==
    ASSUME RingTypeOK
    PROVE  /\ \A pair \in pairs : pair \in RingPairs
           /\ \A pair \in held : pair \in pairs /\ pair \in RingPairs
           /\ \A r \in released : r.pair \in pairs /\ r.pair \in RingPairs /\ r.fence \in Nat
    BY DEF RingTypeOK

\* An index out of the search is an index.
LEMMA AfterType ==
    ASSUME NEW i \in Index
    PROVE  After(i) \in Index
    BY SlotCountAssumption, SMTT(30) DEF After, Index

\* The values a slot takes are slots.
LEMMA SlotTypes ==
    /\ EmptySlot \in RingSlots
    /\ \A n, g \in Nat, k \in Nat :
         [EmptySlot EXCEPT !.state = "producer_owned", !.lease = k,
             !.expected = [id |-> n, gen |-> g, layout |-> 0]] \in RingSlots
    /\ \A slot \in RingSlots : Abandon(slot) \in RingSlots
    /\ \A slot \in RingSlots, s \in States : [slot EXCEPT !.state = s] \in RingSlots
    BY DEF EmptySlot, NoContent, RingSlots, Contents, States, Abandon

\* One slot of the ring is replaced.
LEMMA OneSlot ==
    ASSUME slots \in [RingEyes -> [Index -> RingSlots]], NEW e \in RingEyes, NEW i \in Index,
           NEW s \in RingSlots, slots' = [slots EXCEPT ![e][i] = s]
    PROVE  /\ slots' \in [RingEyes -> [Index -> RingSlots]]
           /\ slots'[e][i] = s
           /\ \A f \in RingEyes, j \in Index : f # e \/ j # i => slots'[f][j] = slots[f][j]
    OBVIOUS

-----------------------------------------------------------------------------
(* BeginProduce *)

\* begin_produce hands out a slot that is free or holds an unclaimed frame.
LEMMA BeginStep ==
    ASSUME RingInv, NEW e \in RingEyes, NEW id \in 1 .. MaxFrame, NEW gen \in 1 .. MaxGeneration,
           BeginProduce(e, id, gen)
    PROVE  \E i \in Index :
             /\ slots[e][i].state \in {"free", "ready"}
             /\ slots' \in [RingEyes -> [Index -> RingSlots]]
             /\ slots'[e][i].state = "producer_owned" /\ slots'[e][i].lease = nextLease
             /\ slots'[e][i].frame.id = 0 /\ slots'[e][i].expected.id = id
             /\ \A f \in RingEyes, j \in Index : f # e \/ j # i => slots'[f][j] = slots[f][j]
             /\ leases' = leases \cup {[eye |-> e, slot |-> i, id |-> nextLease]}
             /\ open' = open \cup {[eye |-> e, slot |-> i, id |-> nextLease]}
             /\ nextSlot' = [nextSlot EXCEPT ![e] = After(i)]
<1>. DEFINE i == Selected(e)
            s == [EmptySlot EXCEPT !.state = "producer_owned", !.lease = nextLease,
                     !.expected = [id |-> id, gen |-> gen, layout |-> 0]]
<1>1. i \in Index /\ slots[e][i].state \in {"free", "ready"}
    BY SelectedFound DEF RingInv, BeginProduce
<1>2. slots' = [slots EXCEPT ![e][i] = s]
    BY DEF BeginProduce
<1>3. id \in Nat /\ gen \in Nat /\ nextLease \in Nat
    BY BoundsAssumption DEF RingInv, RingTypeOK
<1>4. s \in RingSlots
    BY <1>3, SlotTypes
<1>5. /\ s.state = "producer_owned" /\ s.lease = nextLease /\ s.frame.id = 0
      /\ s.expected.id = id
    BY DEF EmptySlot, NoContent
<1>6. slots \in [RingEyes -> [Index -> RingSlots]]
    BY DEF RingInv, RingTypeOK
<1>7. /\ leases' = leases \cup {[eye |-> e, slot |-> i, id |-> nextLease]}
      /\ open' = open \cup {[eye |-> e, slot |-> i, id |-> nextLease]}
      /\ nextSlot' = [nextSlot EXCEPT ![e] = After(i)]
    BY DEF BeginProduce
<1>. HIDE DEF i, s
<1>8. /\ slots' \in [RingEyes -> [Index -> RingSlots]] /\ slots'[e][i] = s
      /\ \A f \in RingEyes, j \in Index : f # e \/ j # i => slots'[f][j] = slots[f][j]
    BY <1>1, <1>2, <1>4, <1>6, OneSlot
<1>. QED  BY <1>1, <1>5, <1>7, <1>8

\* begin_produce keeps the invariant: the slot it takes is in nobody's hands.
LEMMA BeginKeepsRingInv ==
    ASSUME RingInv, NEW e \in RingEyes, NEW id \in 1 .. MaxFrame, NEW gen \in 1 .. MaxGeneration,
           BeginProduce(e, id, gen)
    PROVE  RingInv'
<1>. PICK i \in Index :
       /\ slots[e][i].state \in {"free", "ready"}
       /\ slots' \in [RingEyes -> [Index -> RingSlots]]
       /\ slots'[e][i].state = "producer_owned" /\ slots'[e][i].lease = nextLease
       /\ slots'[e][i].frame.id = 0 /\ slots'[e][i].expected.id = id
       /\ \A f \in RingEyes, j \in Index : f # e \/ j # i => slots'[f][j] = slots[f][j]
       /\ leases' = leases \cup {[eye |-> e, slot |-> i, id |-> nextLease]}
       /\ open' = open \cup {[eye |-> e, slot |-> i, id |-> nextLease]}
       /\ nextSlot' = [nextSlot EXCEPT ![e] = After(i)]
    BY BeginStep
<1>. USE DEF RingInv
<1>0. /\ generation' = gen /\ nextLease' = nextLease + 1 /\ nextLease \in Nat /\ gen \in Nat
      /\ UNCHANGED <<lastAcquired, pairs, held, released, completed>>
    BY BoundsAssumption DEF BeginProduce, RingTypeOK
<1>1. RingTypeOK'
    <2>1. nextSlot' \in [RingEyes -> Index]
        BY AfterType DEF RingTypeOK
    <2>2. leases' \subseteq RingLeases /\ open' \subseteq leases'
        BY <1>0 DEF RingTypeOK, RingLeases
    <2>. QED  BY <1>0, <2>1, <2>2 DEF RingTypeOK
<1>2. FrameIds'
    BY BoundsAssumption DEF FrameIds
<1>3. LeaseIds'
    <2>1. \A pair \in pairs, f \in RingEyes : pair.lease[f + 1] \in Nat
        BY PairTypes, Halves
    <2>2. \A f \in RingEyes, j \in Index : slots[f][j].lease \in Nat
        BY DEF RingTypeOK, RingSlots
    <2>. QED  BY <1>0, <2>1, <2>2 DEF LeaseIds
<1>4. LeasesUnused'
    <2>1. \A f \in RingEyes, j \in Index : slots[f][j].lease # nextLease
        BY <1>0 DEF LeaseIds, RingTypeOK, RingSlots
    <2>2. \A pair \in pairs, f \in RingEyes : pair.lease[f + 1] # nextLease
        BY <1>0, PairTypes, Halves DEF LeaseIds
    <2>3. ASSUME NEW f \in RingEyes, NEW j \in Index, NEW k \in Index, j # k,
                 Carries(f, j)', Carries(f, k)'
          PROVE  slots'[f][j].lease # slots'[f][k].lease
        BY <2>1, <2>3 DEF LeasesUnused, Carries
    <2>4. ASSUME NEW f \in RingEyes, NEW j \in Index, NEW pair \in pairs, Carries(f, j)'
          PROVE  slots'[f][j].lease # pair.lease[f + 1]
        BY <2>2, <2>4 DEF LeasesUnused, Carries
    <2>. QED  BY <1>0, <2>3, <2>4 DEF LeasesUnused
<1>5. Owned'
    <2>1. \A lease \in open : lease.eye \in RingEyes /\ lease.slot \in Index
        BY DEF RingTypeOK, RingLeases
    <2>2. \A lease \in open' : Owns(lease)'
        BY <2>1 DEF Owns, Owned
    <2>3. \A f \in RingEyes, j \in Index : slots'[f][j].state = "producer_owned" =>
              [eye |-> f, slot |-> j, id |-> slots'[f][j].lease] \in open'
        BY DEF Owned
    <2>4. ASSUME NEW pair \in held, NEW f \in RingEyes
          PROVE  slots'[f][pair.index[f + 1]] = slots[f][pair.index[f + 1]]
        BY PairTypes, Halves DEF Owned
    <2>5. \A f \in RingEyes, j \in Index : slots'[f][j].state = "consumer_owned" =>
              slots[f][j].state = "consumer_owned"
        OBVIOUS
    <2>. QED  BY <1>0, <2>2, <2>3, <2>4, <2>5 DEF Owned, Carrying
<1>6. InFlight'
    <2>1. ASSUME NEW r \in released, NEW f \in RingEyes, r.fence > completed
          PROVE  slots'[f][r.pair.index[f + 1]] = slots[f][r.pair.index[f + 1]]
        BY <2>1, PairTypes, Halves DEF InFlight
    <2>. QED  BY <1>0, <2>1 DEF InFlight, Carrying
<1>7. PairsWhole'
    BY <1>0 DEF PairsWhole
<1>. QED  BY <1>1, <1>2, <1>3, <1>4, <1>5, <1>6, <1>7

-----------------------------------------------------------------------------
(* Publish, GiveUp *)

\* A lease that owns its slot has not been closed.
LEMMA OwnersAreOpen ==
    ASSUME RingInv, NEW lease \in leases, Owns(lease)
    PROVE  lease \in open /\ lease.eye \in RingEyes /\ lease.slot \in Index
<1>1. lease = [eye |-> lease.eye, slot |-> lease.slot, id |-> lease.id]
      /\ lease.eye \in RingEyes /\ lease.slot \in Index
    BY DEF RingInv, RingTypeOK, RingLeases
<1>2. [eye |-> lease.eye, slot |-> lease.slot, id |-> slots[lease.eye][lease.slot].lease] \in open
    BY <1>1 DEF Owns, RingInv, Owned
<1>. QED  BY <1>1, <1>2 DEF Owns

\* publish makes the slot ready, with the frame its lease was for.
LEMMA PublishStep ==
    ASSUME RingInv, NEW lease \in leases, NEW layout \in Layouts, Publish(lease, layout)
    PROVE  /\ slots' \in [RingEyes -> [Index -> RingSlots]]
           /\ slots'[lease.eye][lease.slot].state = "ready"
           /\ slots'[lease.eye][lease.slot].lease = lease.id
           /\ slots'[lease.eye][lease.slot].frame.id \in 0 .. MaxFrame
           /\ slots'[lease.eye][lease.slot].expected.id \in 0 .. MaxFrame
           /\ \A f \in RingEyes, j \in Index :
                 f # lease.eye \/ j # lease.slot => slots'[f][j] = slots[f][j]
<1>. DEFINE old == slots[lease.eye][lease.slot]
            s   == [old EXCEPT !.state = "ready",
                              !.frame = [old.expected EXCEPT !.layout = layout]]
<1>1. lease.eye \in RingEyes /\ lease.slot \in Index /\ slots \in [RingEyes -> [Index -> RingSlots]]
    BY OwnersAreOpen DEF Publish, RingInv, RingTypeOK
<1>2. old \in RingSlots /\ old.lease = lease.id /\ old.expected.id \in 0 .. MaxFrame
    BY <1>1 DEF Publish, Owns, RingInv, FrameIds
<1>3. slots' = [slots EXCEPT ![lease.eye][lease.slot] = s]
    BY <1>1 DEF Publish
<1>4. s \in RingSlots
    BY <1>2 DEF RingSlots, States, Contents
<1>5. /\ s.state = "ready" /\ s.lease = lease.id /\ s.frame.id \in 0 .. MaxFrame
      /\ s.expected.id \in 0 .. MaxFrame
    BY <1>2 DEF RingSlots, Contents
<1>. HIDE DEF s
<1>6. /\ slots' \in [RingEyes -> [Index -> RingSlots]] /\ slots'[lease.eye][lease.slot] = s
      /\ \A f \in RingEyes, j \in Index :
            f # lease.eye \/ j # lease.slot => slots'[f][j] = slots[f][j]
    BY <1>1, <1>3, <1>4, OneSlot
<1>. QED  BY <1>5, <1>6

\* cancel_produce empties the slot but for the lease id.
LEMMA GiveUpStep ==
    ASSUME RingInv, NEW lease \in leases, GiveUp(lease)
    PROVE  /\ slots' \in [RingEyes -> [Index -> RingSlots]]
           /\ slots'[lease.eye][lease.slot].state = "free"
           /\ slots'[lease.eye][lease.slot].lease = lease.id
           /\ slots'[lease.eye][lease.slot].frame.id \in 0 .. MaxFrame
           /\ slots'[lease.eye][lease.slot].expected.id \in 0 .. MaxFrame
           /\ \A f \in RingEyes, j \in Index :
                 f # lease.eye \/ j # lease.slot => slots'[f][j] = slots[f][j]
<1>. DEFINE old == slots[lease.eye][lease.slot]
            s   == Abandon(old)
<1>1. lease.eye \in RingEyes /\ lease.slot \in Index /\ slots \in [RingEyes -> [Index -> RingSlots]]
    BY OwnersAreOpen DEF GiveUp, RingInv, RingTypeOK
<1>2. old \in RingSlots /\ old.lease = lease.id
    BY <1>1 DEF GiveUp, Owns
<1>3. slots' = [slots EXCEPT ![lease.eye][lease.slot] = s]
    BY <1>1 DEF GiveUp
<1>4. s \in RingSlots
    BY <1>2, SlotTypes
<1>5. s.state = "free" /\ s.lease = lease.id /\ s.frame.id = 0 /\ s.expected.id = 0
    BY <1>2 DEF Abandon, EmptySlot, NoContent
<1>. HIDE DEF s
<1>6. /\ slots' \in [RingEyes -> [Index -> RingSlots]] /\ slots'[lease.eye][lease.slot] = s
      /\ \A f \in RingEyes, j \in Index :
            f # lease.eye \/ j # lease.slot => slots'[f][j] = slots[f][j]
    BY <1>1, <1>3, <1>4, OneSlot
<1>. QED  BY <1>5, <1>6, BoundsAssumption

\* Closing a lease keeps the invariant: it owned its slot, and that slot alone changes.
LEMMA ClosingKeepsRingInv ==
    ASSUME RingInv, NEW lease \in leases,
           (\E layout \in Layouts : Publish(lease, layout)) \/ GiveUp(lease)
    PROVE  RingInv'
<1>. DEFINE e == lease.eye
            i == lease.slot
<1>0. /\ e \in RingEyes /\ i \in Index /\ lease \in open
      /\ slots[e][i].lease = lease.id /\ slots[e][i].state = "producer_owned"
      /\ slots' \in [RingEyes -> [Index -> RingSlots]]
      /\ slots'[e][i].state \in {"ready", "free"} /\ slots'[e][i].lease = lease.id
      /\ slots'[e][i].frame.id \in 0 .. MaxFrame
      /\ slots'[e][i].expected.id \in 0 .. MaxFrame
      /\ \A f \in RingEyes, j \in Index : f # e \/ j # i => slots'[f][j] = slots[f][j]
      /\ open' = open \ {lease}
      /\ UNCHANGED <<nextSlot, nextLease, generation, lastAcquired, leases, pairs, held,
                     released, completed>>
    <2>1. CASE GiveUp(lease)
        BY <2>1, GiveUpStep, OwnersAreOpen DEF GiveUp, Owns
    <2>2. CASE \E layout \in Layouts : Publish(lease, layout)
        BY <2>2, PublishStep, OwnersAreOpen DEF Publish, Owns
    <2>. QED  BY <2>1, <2>2
<1>. HIDE DEF e, i
<1>. USE DEF RingInv
<1>1. RingTypeOK'
    BY <1>0 DEF RingTypeOK
<1>2. FrameIds'
    BY <1>0 DEF FrameIds
<1>3. LeaseIds'
    BY <1>0 DEF LeaseIds
<1>4. LeasesUnused'
    <2>1. \A f \in RingEyes, j \in Index : Carries(f, j)' => Carries(f, j)
        BY <1>0 DEF Carries
    <2>2. \A f \in RingEyes, j \in Index : slots'[f][j].lease = slots[f][j].lease
        BY <1>0
    <2>. QED  BY <1>0, <2>1, <2>2 DEF LeasesUnused
<1>5. Owned'
    <2>1. ASSUME NEW other \in open'  PROVE Owns(other)'
        <3>1. /\ other \in open /\ other \in RingLeases /\ other # lease /\ Owns(other)
              /\ lease \in RingLeases
            BY <1>0 DEF RingTypeOK, Owned
        <3>2. other.eye # e \/ other.slot # i
            BY <1>0, <3>1 DEF Owns, RingLeases, e, i
        <3>3. other.eye \in RingEyes /\ other.slot \in Index
            BY <3>1 DEF RingLeases
        <3>. QED  BY <1>0, <3>1, <3>2, <3>3 DEF Owns
    <2>2. ASSUME NEW f \in RingEyes, NEW j \in Index, slots'[f][j].state = "producer_owned"
          PROVE  [eye |-> f, slot |-> j, id |-> slots'[f][j].lease] \in open'
        <3>1. f # e \/ j # i
            BY <1>0, <2>2
        <3>2. [eye |-> f, slot |-> j, id |-> slots[f][j].lease] \in open
            BY <1>0, <2>2, <3>1 DEF Owned
        <3>3. [eye |-> f, slot |-> j, id |-> slots[f][j].lease] # lease
            BY <3>1 DEF e, i
        <3>. QED  BY <1>0, <3>1, <3>2, <3>3
    <2>3. ASSUME NEW pair \in held, NEW f \in RingEyes
          PROVE  slots'[f][pair.index[f + 1]] = slots[f][pair.index[f + 1]]
        BY <1>0, PairTypes, Halves DEF Owned
    <2>4. \A f \in RingEyes, j \in Index : slots'[f][j].state = "consumer_owned" =>
              slots[f][j].state = "consumer_owned"
        BY <1>0
    <2>. QED  BY <1>0, <2>1, <2>2, <2>3, <2>4 DEF Owned, Carrying
<1>6. InFlight'
    <2>1. ASSUME NEW r \in released, NEW f \in RingEyes, r.fence > completed
          PROVE  slots'[f][r.pair.index[f + 1]] = slots[f][r.pair.index[f + 1]]
        BY <1>0, <2>1, PairTypes, Halves DEF InFlight
    <2>. QED  BY <1>0, <2>1 DEF InFlight, Carrying
<1>7. PairsWhole'
    BY <1>0 DEF PairsWhole
<1>. QED  BY <1>1, <1>2, <1>3, <1>4, <1>5, <1>6, <1>7

-----------------------------------------------------------------------------
(* AcquireLatestCompletePair *)

\* The scan takes one ready slot per eye and frees some of the other ready ones.
LEMMA AcquireStep ==
    ASSUME RingInv, AcquireLatestCompletePair
    PROVE  \E pair \in RingPairs :
             /\ pair.frame[1] = pair.frame[2]
             /\ \A e \in RingEyes :
                  /\ slots[e][pair.index[e + 1]].state = "ready"
                  /\ Carrying(slots[e][pair.index[e + 1]], pair, e)
                  /\ slots'[e][pair.index[e + 1]].state = "consumer_owned"
                  /\ Carrying(slots'[e][pair.index[e + 1]], pair, e)
             /\ slots' \in [RingEyes -> [Index -> RingSlots]]
             /\ \A e \in RingEyes, j \in Index :
                  /\ j # pair.index[e + 1] =>
                        \/ slots'[e][j] = slots[e][j]
                        \/ slots[e][j].state = "ready" /\ slots'[e][j].state = "free"
                  /\ slots'[e][j].lease = slots[e][j].lease
                  /\ slots'[e][j].frame.id = slots[e][j].frame.id
                  /\ slots'[e][j].expected.id = slots[e][j].expected.id
             /\ lastAcquired' \in Nat
             /\ pairs' = pairs \cup {pair} /\ held' = held \cup {pair}
<1>. DEFINE p  == CHOOSE p \in Complete : \A q \in Complete : Newest(p, q)
            l  == slots[Left][p[1]]
            r  == slots[Right][p[2]]
            pair == [index |-> p, lease |-> <<l.lease, r.lease>>,
                     frame |-> <<l.frame, r.frame>>]
            new(e, i) == IF i = p[e + 1] THEN [slots[e][i] EXCEPT !.state = "consumer_owned"]
                         ELSE Discard(slots[e][i], l.frame.id)
<1>1. p \in Complete
    BY NewestFound DEF RingInv, AcquireLatestCompletePair
<1>2. /\ slots' = [e \in RingEyes |-> [i \in Index |-> new(e, i)]]
      /\ lastAcquired' = l.frame.id /\ pairs' = pairs \cup {pair} /\ held' = held \cup {pair}
    BY DEF AcquireLatestCompletePair
<1>. HIDE DEF p
<1>3. /\ p \in Index \X Index /\ p[1] \in Index /\ p[2] \in Index
      /\ l.state = "ready" /\ r.state = "ready" /\ l.frame = r.frame
    BY <1>1 DEF Complete, InState, Match
<1>4. slots \in [RingEyes -> [Index -> RingSlots]] /\ Left \in RingEyes /\ Right \in RingEyes
    BY DEF RingInv, RingTypeOK, RingEyes
<1>5. l \in RingSlots /\ r \in RingSlots
    BY <1>3, <1>4
<1>6. pair \in RingPairs
    BY <1>3, <1>5 DEF RingPairs, RingSlots
<1>7. \A e \in RingEyes, i \in Index : slots[e][i] \in RingSlots /\ slots'[e][i] = new(e, i)
    BY <1>2, <1>4
<1>8. ASSUME NEW slot \in RingSlots, NEW n
      PROVE  /\ Discard(slot, n) \in RingSlots
             /\ \/ Discard(slot, n) = slot
                \/ slot.state = "ready" /\ Discard(slot, n).state = "free"
             /\ Discard(slot, n).lease = slot.lease
             /\ Discard(slot, n).frame.id = slot.frame.id
             /\ Discard(slot, n).expected.id = slot.expected.id
    BY DEF Discard, RingSlots, States
<1>. DEFINE take(slot) == [slot EXCEPT !.state = "consumer_owned"]
<1>9. ASSUME NEW slot \in RingSlots
      PROVE  /\ take(slot) \in RingSlots /\ take(slot).state = "consumer_owned"
             /\ take(slot).lease = slot.lease /\ take(slot).frame = slot.frame
             /\ take(slot).expected = slot.expected
    BY DEF RingSlots, States
<1>10. \A e \in RingEyes, i \in Index : new(e, i) \in RingSlots
    BY <1>7, <1>8, <1>9
<1>11. slots' \in [RingEyes -> [Index -> RingSlots]]
    BY <1>2, <1>10
<1>12. ASSUME NEW e \in RingEyes
       PROVE  /\ p[e + 1] \in Index /\ pair.index[e + 1] = p[e + 1]
              /\ slots[e][p[e + 1]].state = "ready"
              /\ slots[e][p[e + 1]].lease = pair.lease[e + 1]
              /\ slots[e][p[e + 1]].frame = pair.frame[e + 1]
    BY <1>3 DEF RingEyes, Left, Right
<1>. DEFINE took(e) == slots'[e][p[e + 1]]
<1>13. \A e \in RingEyes : took(e) = take(slots[e][p[e + 1]]) /\ slots[e][p[e + 1]] \in RingSlots
    BY <1>7, <1>12
<1>. HIDE DEF take
<1>14. ASSUME NEW e \in RingEyes
       PROVE  /\ took(e).state = "consumer_owned" /\ took(e).lease = slots[e][p[e + 1]].lease
              /\ took(e).frame = slots[e][p[e + 1]].frame
              /\ took(e).expected = slots[e][p[e + 1]].expected
    BY <1>9, <1>13
<1>. HIDE DEF pair
<1>15. ASSUME NEW e \in RingEyes
       PROVE  /\ slots[e][pair.index[e + 1]].state = "ready"
              /\ Carrying(slots[e][pair.index[e + 1]], pair, e)
              /\ slots'[e][pair.index[e + 1]].state = "consumer_owned"
              /\ Carrying(slots'[e][pair.index[e + 1]], pair, e)
    BY <1>12, <1>14 DEF Carrying
<1>16. ASSUME NEW e \in RingEyes, NEW j \in Index
       PROVE  /\ j # pair.index[e + 1] =>
                    \/ slots'[e][j] = slots[e][j]
                    \/ slots[e][j].state = "ready" /\ slots'[e][j].state = "free"
              /\ slots'[e][j].lease = slots[e][j].lease
              /\ slots'[e][j].frame.id = slots[e][j].frame.id
              /\ slots'[e][j].expected.id = slots[e][j].expected.id
    <2>1. CASE j = p[e + 1]
        BY <2>1, <1>12, <1>14
    <2>2. CASE j # p[e + 1]
        <3>1. slots'[e][j] = Discard(slots[e][j], l.frame.id) /\ slots[e][j] \in RingSlots
            BY <2>2, <1>7
        <3>. QED  BY <3>1, <1>8
    <2>. QED  BY <2>1, <2>2
<1>17. pair.frame[1] = pair.frame[2]
    BY <1>3 DEF pair
<1>18. lastAcquired' \in Nat
    BY <1>2, <1>5 DEF RingSlots, Contents
<1>. QED  BY <1>2, <1>6, <1>11, <1>15, <1>16, <1>17, <1>18

\* acquire_latest_complete_pair keeps the invariant: the leases it takes are unused so far.
LEMMA AcquireKeepsRingInv ==
    ASSUME RingInv, AcquireLatestCompletePair
    PROVE  RingInv'
<1>. PICK pair \in RingPairs :
       /\ pair.frame[1] = pair.frame[2]
       /\ \A e \in RingEyes :
            /\ slots[e][pair.index[e + 1]].state = "ready"
            /\ Carrying(slots[e][pair.index[e + 1]], pair, e)
            /\ slots'[e][pair.index[e + 1]].state = "consumer_owned"
            /\ Carrying(slots'[e][pair.index[e + 1]], pair, e)
       /\ slots' \in [RingEyes -> [Index -> RingSlots]]
       /\ \A e \in RingEyes, j \in Index :
            /\ j # pair.index[e + 1] =>
                  \/ slots'[e][j] = slots[e][j]
                  \/ slots[e][j].state = "ready" /\ slots'[e][j].state = "free"
            /\ slots'[e][j].lease = slots[e][j].lease
            /\ slots'[e][j].frame.id = slots[e][j].frame.id
            /\ slots'[e][j].expected.id = slots[e][j].expected.id
       /\ lastAcquired' \in Nat
       /\ pairs' = pairs \cup {pair} /\ held' = held \cup {pair}
    BY AcquireStep
<1>. USE DEF RingInv
<1>0. UNCHANGED <<nextSlot, nextLease, generation, leases, open, released, completed>>
    BY DEF AcquireLatestCompletePair
<1>1. RingTypeOK'
    BY <1>0 DEF RingTypeOK
<1>2. FrameIds'
    BY DEF FrameIds
<1>3. LeaseIds'
    <2>1. \A e \in RingEyes : pair.index[e + 1] \in Index
        BY Halves
    <2>2. \A e \in RingEyes : pair.lease[e + 1] < nextLease
        BY <2>1 DEF LeaseIds, Carrying
    <2>. QED  BY <1>0, <2>2 DEF LeaseIds
<1>4. ASSUME NEW e \in RingEyes, NEW j \in Index, Carries(e, j)'
      PROVE  Carries(e, j) /\ j # pair.index[e + 1]
    BY <1>4 DEF Carries
<1>5. LeasesUnused'
    <2>1. ASSUME NEW e \in RingEyes, NEW j \in Index, Carries(e, j)'
          PROVE  slots'[e][j].lease # pair.lease[e + 1]
        <3>1. pair.index[e + 1] \in Index /\ Carries(e, pair.index[e + 1])
            BY Halves DEF Carries
        <3>. QED  BY <1>4, <2>1, <3>1 DEF LeasesUnused, Carrying
    <2>2. \A e \in RingEyes, j, k \in Index :
             j # k /\ Carries(e, j)' /\ Carries(e, k)' => slots'[e][j].lease # slots'[e][k].lease
        BY <1>4 DEF LeasesUnused
    <2>3. \A e \in RingEyes, j \in Index, q \in pairs' :
             Carries(e, j)' => slots'[e][j].lease # q.lease[e + 1]
        BY <1>4, <2>1 DEF LeasesUnused
    <2>. QED  BY <2>2, <2>3 DEF LeasesUnused
<1>6. Owned'
    <2>1. \A lease \in open' : Owns(lease)'
        <3>1. ASSUME NEW lease \in open
              PROVE  slots'[lease.eye][lease.slot] = slots[lease.eye][lease.slot]
            <4>1. /\ lease.eye \in RingEyes /\ lease.slot \in Index
                  /\ slots[lease.eye][lease.slot].state = "producer_owned"
                BY DEF RingTypeOK, RingLeases, Owned, Owns
            <4>2. lease.slot # pair.index[lease.eye + 1]
                BY <4>1
            <4>. QED  BY <4>1, <4>2
        <3>. QED  BY <1>0, <3>1 DEF Owned, Owns
    <2>2. \A e \in RingEyes, j \in Index : slots'[e][j].state = "producer_owned" =>
              [eye |-> e, slot |-> j, id |-> slots'[e][j].lease] \in open'
        BY <1>0 DEF Owned
    <2>3. ASSUME NEW q \in held, NEW e \in RingEyes
          PROVE  slots'[e][q.index[e + 1]] = slots[e][q.index[e + 1]]
        BY PairTypes, Halves DEF Owned
    <2>4. \A q \in held', e \in RingEyes :
             /\ slots'[e][q.index[e + 1]].state = "consumer_owned"
             /\ Carrying(slots'[e][q.index[e + 1]], q, e)
        BY <2>3 DEF Owned
    <2>5. \A e \in RingEyes, j \in Index : slots'[e][j].state = "consumer_owned" =>
              \E q \in held' : q.index[e + 1] = j
        BY DEF Owned
    <2>. QED  BY <2>1, <2>2, <2>4, <2>5 DEF Owned, Carrying
<1>7. InFlight'
    <2>1. ASSUME NEW r \in released, NEW e \in RingEyes, r.fence > completed
          PROVE  slots'[e][r.pair.index[e + 1]] = slots[e][r.pair.index[e + 1]]
        BY <2>1, PairTypes, Halves DEF InFlight
    <2>. QED  BY <1>0, <2>1 DEF InFlight, Carrying
<1>8. PairsWhole'
    <2>1. ASSUME NEW q \in pairs, NEW e \in RingEyes  PROVE q.lease[e + 1] # pair.lease[e + 1]
        <3>1. pair.index[e + 1] \in Index /\ Carries(e, pair.index[e + 1])
            BY Halves DEF Carries
        <3>. QED  BY <3>1 DEF LeasesUnused, Carrying
    <2>. QED  BY <2>1 DEF PairsWhole
<1>. QED  BY <1>1, <1>2, <1>3, <1>5, <1>6, <1>7, <1>8

-----------------------------------------------------------------------------
(* ReleasePair, RetireCompleted, ConsumerFence, Reset *)

\* A pair whose slots are still owned is one the consumer holds.
LEMMA OwnersHold ==
    ASSUME RingInv, NEW pair \in pairs, \A e \in RingEyes : StillOwned(pair, e)
    PROVE  pair \in held
<1>1. Left \in RingEyes /\ pair.index[Left + 1] \in Index
    BY PairTypes, Halves DEF RingInv, RingEyes
<1>2. /\ slots[Left][pair.index[Left + 1]].state = "consumer_owned"
      /\ slots[Left][pair.index[Left + 1]].lease = pair.lease[Left + 1]
    BY <1>1 DEF StillOwned
<1>3. PICK q \in held : q.index[Left + 1] = pair.index[Left + 1]
    BY <1>1, <1>2 DEF RingInv, Owned
<1>4. q.lease[Left + 1] = pair.lease[Left + 1] /\ q \in pairs
    BY <1>1, <1>2, <1>3, PairTypes DEF RingInv, Owned, Carrying
<1>5. q = pair
    BY <1>1, <1>4 DEF RingInv, PairsWhole
<1>. QED  BY <1>3, <1>5

\* Two pairs the consumer holds are in different slots.
LEMMA HeldApart ==
    ASSUME RingInv, NEW p \in held, NEW q \in held, p # q, NEW e \in RingEyes
    PROVE  p.index[e + 1] # q.index[e + 1]
<1>1. p.lease[e + 1] # q.lease[e + 1]
    BY PairTypes DEF RingInv, PairsWhole
<1>. QED  BY <1>1 DEF RingInv, Owned, Carrying

\* release_pair hands both slots to the consumer's GPU, under the next fence value.
LEMMA ReleaseStep ==
    ASSUME RingInv, NEW pair \in pairs, ReleasePair(pair)
    PROVE  /\ NextFence \in Nat
           /\ slots' \in [RingEyes -> [Index -> RingSlots]]
           /\ \A e \in RingEyes :
                /\ slots'[e][pair.index[e + 1]].state = "consumer_pending"
                /\ slots'[e][pair.index[e + 1]].fence = NextFence
                /\ Carrying(slots'[e][pair.index[e + 1]], pair, e)
           /\ \A e \in RingEyes, j \in Index :
                /\ j # pair.index[e + 1] => slots'[e][j] = slots[e][j]
                /\ slots'[e][j].lease = slots[e][j].lease
                /\ slots'[e][j].frame = slots[e][j].frame
                /\ slots'[e][j].expected = slots[e][j].expected
<1>1. NextFence \in Nat
    BY FS_CardinalityType DEF RingInv, InFlight, NextFence
<1>2. pair \in held /\ \A e \in RingEyes : pair.index[e + 1] \in Index
    BY OwnersHold, PairTypes, Halves DEF RingInv, ReleasePair
<1>3. slots \in [RingEyes -> [Index -> RingSlots]]
    BY DEF RingInv, RingTypeOK
<1>4. \A e \in RingEyes : Carrying(slots[e][pair.index[e + 1]], pair, e)
    BY <1>2 DEF RingInv, Owned
<1>. DEFINE fence == NextFence
            give(slot) == [slot EXCEPT !.state = "consumer_pending", !.fence = fence]
<1>5. ASSUME NEW slot \in RingSlots
      PROVE  /\ give(slot) \in RingSlots /\ give(slot).state = "consumer_pending"
             /\ give(slot).fence = fence /\ give(slot).lease = slot.lease
             /\ give(slot).frame = slot.frame /\ give(slot).expected = slot.expected
    BY <1>1 DEF RingSlots, States
<1>. HIDE DEF fence
<1>6. slots' = [e \in RingEyes |-> [slots[e] EXCEPT
                   ![pair.index[e + 1]].state = "consumer_pending",
                   ![pair.index[e + 1]].fence = fence]]
    BY DEF ReleasePair, fence
<1>7. ASSUME NEW e \in RingEyes
      PROVE  slots'[e] = [slots[e] EXCEPT ![pair.index[e + 1]] = give(@)]
    <2>. DEFINE k == pair.index[e + 1]
    <2>1. slots'[e] = [slots[e] EXCEPT ![k].state = "consumer_pending", ![k].fence = fence]
        BY <1>6
    <2>2. k \in Index /\ slots[e] \in [Index -> RingSlots]
        BY <1>2, <1>3
    <2>. HIDE DEF k
    <2>3. slots'[e] = [slots[e] EXCEPT ![k] = give(@)]
        BY <2>1, <2>2
    <2>. QED  BY <2>3 DEF k
<1>. HIDE DEF give
<1>8. ASSUME NEW e \in RingEyes
      PROVE  /\ slots'[e] \in [Index -> RingSlots]
             /\ slots'[e][pair.index[e + 1]] = give(slots[e][pair.index[e + 1]])
             /\ \A j \in Index : j # pair.index[e + 1] => slots'[e][j] = slots[e][j]
             /\ \A j \in Index : slots[e][j] \in RingSlots
    <2>1. pair.index[e + 1] \in Index /\ slots[e] \in [Index -> RingSlots]
        BY <1>2, <1>3
    <2>2. give(slots[e][pair.index[e + 1]]) \in RingSlots
        BY <1>5, <2>1
    <2>. DEFINE k == pair.index[e + 1]
    <2>. HIDE DEF k
    <2>3. slots'[e] = [slots[e] EXCEPT ![k] = give(slots[e][k])]
        BY <1>7 DEF k
    <2>. QED  BY <2>1, <2>2, <2>3 DEF k
<1>9. slots' \in [RingEyes -> [Index -> RingSlots]]
    BY <1>6, <1>8
<1>10. ASSUME NEW e \in RingEyes
       PROVE  /\ slots'[e][pair.index[e + 1]].state = "consumer_pending"
              /\ slots'[e][pair.index[e + 1]].fence = NextFence
              /\ Carrying(slots'[e][pair.index[e + 1]], pair, e)
    BY <1>2, <1>4, <1>5, <1>8 DEF Carrying, fence
<1>11. ASSUME NEW e \in RingEyes, NEW j \in Index
       PROVE  /\ j # pair.index[e + 1] => slots'[e][j] = slots[e][j]
              /\ slots'[e][j].lease = slots[e][j].lease
              /\ slots'[e][j].frame = slots[e][j].frame
              /\ slots'[e][j].expected = slots[e][j].expected
    BY <1>5, <1>8
<1>. QED  BY <1>1, <1>9, <1>10, <1>11

\* release_pair keeps the invariant: what it gives up the consumer held.
LEMMA ReleaseKeepsRingInv ==
    ASSUME RingInv, NEW pair \in pairs, ReleasePair(pair)
    PROVE  RingInv'
<1>. USE DEF RingInv
<1>0. /\ held' = held \ {pair}
      /\ released' = released \cup {[pair |-> pair, fence |-> NextFence]}
      /\ UNCHANGED <<nextSlot, nextLease, generation, lastAcquired, leases, open, pairs,
                     completed>>
    BY DEF ReleasePair
<1>1. pair \in held /\ \A e \in RingEyes : pair.index[e + 1] \in Index
    BY OwnersHold, PairTypes, Halves DEF ReleasePair
<1>2. \A e \in RingEyes : slots[e][pair.index[e + 1]].state = "consumer_owned"
    BY <1>1 DEF Owned
<1>3. RingTypeOK'
    <2>1. released' \subseteq [pair : pairs', fence : Nat]
        BY <1>0, ReleaseStep DEF RingTypeOK
    <2>. QED  BY <1>0, <2>1, ReleaseStep DEF RingTypeOK
<1>4. FrameIds'
    BY ReleaseStep DEF FrameIds
<1>5. LeaseIds'
    BY <1>0, ReleaseStep DEF LeaseIds
<1>6. LeasesUnused'
    <2>1. \A e \in RingEyes, j \in Index : Carries(e, j)' => Carries(e, j)
        BY ReleaseStep DEF Carries
    <2>2. \A e \in RingEyes, j \in Index : slots'[e][j].lease = slots[e][j].lease
        BY ReleaseStep
    <2>. QED  BY <1>0, <2>1, <2>2 DEF LeasesUnused
<1>7. Owned'
    <2>1. ASSUME NEW lease \in open
          PROVE  slots'[lease.eye][lease.slot] = slots[lease.eye][lease.slot]
        <3>1. /\ lease.eye \in RingEyes /\ lease.slot \in Index
              /\ slots[lease.eye][lease.slot].state = "producer_owned"
            BY DEF RingTypeOK, RingLeases, Owned, Owns
        <3>2. lease.slot # pair.index[lease.eye + 1]
            BY <1>2, <3>1
        <3>. QED  BY <3>1, <3>2, ReleaseStep
    <2>2. \A lease \in open' : Owns(lease)'
        BY <1>0, <2>1 DEF Owned, Owns
    <2>3. \A e \in RingEyes, j \in Index : slots'[e][j].state = "producer_owned" =>
              [eye |-> e, slot |-> j, id |-> slots'[e][j].lease] \in open'
        BY <1>0, ReleaseStep DEF Owned
    <2>4. ASSUME NEW q \in held', NEW e \in RingEyes
          PROVE  slots'[e][q.index[e + 1]] = slots[e][q.index[e + 1]]
        <3>1. q \in held /\ q # pair /\ q.index[e + 1] \in Index
            BY <1>0, PairTypes, Halves
        <3>2. q.index[e + 1] # pair.index[e + 1]
            BY <1>1, <3>1, HeldApart
        <3>. QED  BY <3>1, <3>2, ReleaseStep
    <2>5. \A q \in held', e \in RingEyes :
             /\ slots'[e][q.index[e + 1]].state = "consumer_owned"
             /\ Carrying(slots'[e][q.index[e + 1]], q, e)
        BY <1>0, <2>4 DEF Owned
    <2>6. ASSUME NEW e \in RingEyes, NEW j \in Index, slots'[e][j].state = "consumer_owned"
          PROVE  \E q \in held' : q.index[e + 1] = j
        <3>1. j # pair.index[e + 1] /\ slots[e][j].state = "consumer_owned"
            BY <2>6, ReleaseStep
        <3>2. PICK q \in held : q.index[e + 1] = j
            BY <3>1 DEF Owned
        <3>. QED  BY <1>0, <3>1, <3>2
    <2>. QED  BY <2>2, <2>3, <2>5, <2>6 DEF Owned, Carrying
<1>8. InFlight'
    <2>1. IsFiniteSet(released')
        BY <1>0, FS_AddElement DEF InFlight
    <2>2. ASSUME NEW r \in released, NEW e \in RingEyes, r.fence > completed
          PROVE  slots'[e][r.pair.index[e + 1]] = slots[e][r.pair.index[e + 1]]
        <3>1. /\ r.pair.index[e + 1] \in Index
              /\ slots[e][r.pair.index[e + 1]].state = "consumer_pending"
            BY <2>2, PairTypes, Halves DEF InFlight
        <3>2. r.pair.index[e + 1] # pair.index[e + 1]
            BY <1>2, <3>1
        <3>. QED  BY <3>1, <3>2, ReleaseStep
    <2>3. ASSUME NEW r \in released', NEW e \in RingEyes, r.fence > completed'
          PROVE  /\ slots'[e][r.pair.index[e + 1]].state = "consumer_pending"
                 /\ slots'[e][r.pair.index[e + 1]].fence = r.fence
                 /\ Carrying(slots'[e][r.pair.index[e + 1]], r.pair, e)
        <3>1. CASE r \in released
            BY <1>0, <2>2, <2>3, <3>1 DEF InFlight
        <3>2. CASE r = [pair |-> pair, fence |-> NextFence]
            BY <3>2, ReleaseStep
        <3>. QED  BY <1>0, <3>1, <3>2
    <2>. QED  BY <2>1, <2>3 DEF InFlight, Carrying
<1>9. PairsWhole'
    BY <1>0 DEF PairsWhole
<1>. QED  BY <1>3, <1>4, <1>5, <1>6, <1>7, <1>8, <1>9

\* retire_completed keeps the invariant: a slot whose fence value has not completed stays.
LEMMA RetireKeepsRingInv ==
    ASSUME RingInv, RetireCompleted
    PROVE  RingInv'
<1>. USE DEF RingInv
<1>0. UNCHANGED <<nextSlot, nextLease, generation, lastAcquired, callers>>
    BY DEF RetireCompleted
<1>1. \A e \in RingEyes, i \in Index : slots[e][i] \in RingSlots
    BY DEF RingTypeOK
<1>. DEFINE retire(slot) == [slot EXCEPT !.state = "free", !.fence = 0]
            new(slot) == IF Retired(slot) THEN retire(slot) ELSE slot
<1>2. slots' = [e \in RingEyes |-> [i \in Index |-> new(slots[e][i])]]
    BY DEF RetireCompleted
<1>3. ASSUME NEW slot \in RingSlots
      PROVE  /\ retire(slot) \in RingSlots /\ retire(slot).state = "free"
             /\ retire(slot).lease = slot.lease /\ retire(slot).frame = slot.frame
             /\ retire(slot).expected = slot.expected
    BY DEF RingSlots, States
<1>. HIDE DEF retire
<1>4. ASSUME NEW e \in RingEyes, NEW i \in Index
      PROVE  /\ slots'[e][i] \in RingSlots
             /\ \/ slots'[e][i] = slots[e][i]
                \/ /\ slots[e][i].state = "consumer_pending" /\ slots[e][i].fence <= completed
                   /\ slots'[e][i].state = "free"
             /\ slots'[e][i].lease = slots[e][i].lease
             /\ slots'[e][i].frame = slots[e][i].frame
             /\ slots'[e][i].expected = slots[e][i].expected
    <2>1. slots'[e][i] = new(slots[e][i])
        BY <1>2
    <2>. QED  BY <1>1, <1>3, <2>1 DEF Retired
<1>. HIDE DEF new
<1>5. slots' \in [RingEyes -> [Index -> RingSlots]]
    BY <1>2, <1>4
<1>6. RingTypeOK'
    BY <1>0, <1>5 DEF RingTypeOK, callers
<1>7. FrameIds'
    BY <1>4 DEF FrameIds
<1>8. LeaseIds'
    BY <1>0, <1>4 DEF LeaseIds, callers
<1>9. LeasesUnused'
    <2>1. \A e \in RingEyes, j \in Index : Carries(e, j)' => Carries(e, j)
        BY <1>4 DEF Carries
    <2>. QED  BY <1>0, <1>4, <2>1 DEF LeasesUnused, callers
<1>10. Owned'
    <2>1. ASSUME NEW lease \in open
          PROVE  slots'[lease.eye][lease.slot] = slots[lease.eye][lease.slot]
        <3>1. /\ lease.eye \in RingEyes /\ lease.slot \in Index
              /\ slots[lease.eye][lease.slot].state = "producer_owned"
            BY DEF RingTypeOK, RingLeases, Owned, Owns
        <3>. QED  BY <1>4, <3>1
    <2>2. \A lease \in open' : Owns(lease)'
        BY <1>0, <2>1 DEF Owned, Owns, callers
    <2>3. \A e \in RingEyes, j \in Index : slots'[e][j].state = "producer_owned" =>
              [eye |-> e, slot |-> j, id |-> slots'[e][j].lease] \in open'
        BY <1>0, <1>4 DEF Owned, callers
    <2>4. ASSUME NEW q \in held, NEW e \in RingEyes
          PROVE  slots'[e][q.index[e + 1]] = slots[e][q.index[e + 1]]
        BY <1>4, PairTypes, Halves DEF Owned
    <2>5. \A e \in RingEyes, j \in Index : slots'[e][j].state = "consumer_owned" =>
              slots[e][j].state = "consumer_owned"
        BY <1>4
    <2>. QED  BY <1>0, <2>2, <2>3, <2>4, <2>5 DEF Owned, Carrying, callers
<1>11. InFlight'
    <2>1. ASSUME NEW r \in released, NEW e \in RingEyes, r.fence > completed
          PROVE  slots'[e][r.pair.index[e + 1]] = slots[e][r.pair.index[e + 1]]
        <3>1. /\ r.pair.index[e + 1] \in Index /\ r.fence \in Nat /\ completed \in Nat
              /\ slots[e][r.pair.index[e + 1]].fence = r.fence
            BY <2>1, PairTypes, Halves DEF InFlight, RingTypeOK
        <3>2. ~(slots[e][r.pair.index[e + 1]].fence <= completed)
            BY <2>1, <3>1
        <3>. QED  BY <1>4, <3>1, <3>2
    <2>. QED  BY <1>0, <2>1 DEF InFlight, Carrying, callers
<1>12. PairsWhole'
    BY <1>0 DEF PairsWhole, callers
<1>. QED  BY <1>6, <1>7, <1>8, <1>9, <1>10, <1>11, <1>12

\* The consumer's fence only ends protections.
LEMMA FenceKeepsRingInv ==
    ASSUME RingInv, ConsumerFence
    PROVE  RingInv'
<1>. USE DEF RingInv
<1>0. /\ completed' = completed + 1 /\ completed \in Nat
      /\ UNCHANGED <<ring, leases, open, pairs, held, released>>
    BY DEF ConsumerFence, RingTypeOK
<1>1. RingTypeOK'
    BY <1>0 DEF RingTypeOK, ring
<1>2. FrameIds' /\ LeaseIds' /\ PairsWhole'
    BY <1>0 DEF FrameIds, LeaseIds, PairsWhole, ring
<1>3. LeasesUnused'
    BY <1>0 DEF LeasesUnused, Carries, ring
<1>4. Owned'
    BY <1>0 DEF Owned, Owns, Carrying, ring
<1>5. InFlight'
    <2>1. \A r \in released : r.fence > completed' => r.fence > completed
        BY <1>0, PairTypes
    <2>. QED  BY <1>0, <2>1 DEF InFlight, Carrying, ring
<1>. QED  BY <1>1, <1>2, <1>3, <1>4, <1>5

\* A reset keeps the invariant: it is refused while anybody owns a slot.
LEMMA ResetKeepsRingInv ==
    ASSUME RingInv, NEW gen \in 1 .. MaxGeneration, Reset(gen)
    PROVE  RingInv'
<1>. USE DEF RingInv
<1>0. /\ generation' = gen /\ lastAcquired' = 0 /\ nextSlot' = [e \in RingEyes |-> 0]
      /\ slots' = [e \in RingEyes |-> [i \in Index |-> EmptySlot]]
      /\ UNCHANGED <<nextLease, callers>>
    BY DEF Reset
<1>1. \A e \in RingEyes, i \in Index :
         slots[e][i].state \notin {"producer_owned", "consumer_owned", "consumer_pending"}
    BY DEF Reset, Idle, InState
<1>2. \A e \in RingEyes, i \in Index : slots'[e][i] = EmptySlot
    BY <1>0
<1>3. /\ EmptySlot.state = "free" /\ EmptySlot.lease = 0 /\ EmptySlot.frame.id = 0
      /\ EmptySlot.expected.id = 0
    BY DEF EmptySlot, NoContent
<1>4. RingTypeOK'
    <2>1. slots' \in [RingEyes -> [Index -> RingSlots]]
        BY <1>0, SlotTypes
    <2>2. nextSlot' \in [RingEyes -> Index] /\ generation' \in Nat
        BY <1>0, SlotCountAssumption, BoundsAssumption DEF Index
    <2>. QED  BY <1>0, <2>1, <2>2 DEF RingTypeOK, callers
<1>5. FrameIds'
    BY <1>2, <1>3, BoundsAssumption DEF FrameIds
<1>6. LeaseIds'
    BY <1>0, <1>2, <1>3 DEF LeaseIds, callers
<1>7. LeasesUnused'
    BY <1>2, <1>3 DEF LeasesUnused, Carries
<1>8. Owned'
    <2>1. open = {}
        BY <1>1 DEF RingTypeOK, RingLeases, Owned, Owns
    <2>2. held = {}
        <3>1. ASSUME NEW q \in held  PROVE FALSE
            <4>1. Left \in RingEyes /\ q.index[Left + 1] \in Index
                BY PairTypes, Halves DEF RingEyes
            <4>. QED  BY <1>1, <4>1 DEF Owned
        <3>. QED  BY <3>1
    <2>. QED  BY <1>0, <1>2, <1>3, <2>1, <2>2 DEF Owned, callers
<1>9. InFlight'
    <2>1. ASSUME NEW r \in released  PROVE ~(r.fence > completed)
        <3>1. Left \in RingEyes /\ r.pair.index[Left + 1] \in Index
            BY PairTypes, Halves DEF RingEyes
        <3>. QED  BY <1>1, <3>1 DEF InFlight
    <2>. QED  BY <1>0, <2>1 DEF InFlight, callers
<1>10. PairsWhole'
    BY <1>0 DEF PairsWhole, callers
<1>. QED  BY <1>4, <1>5, <1>6, <1>7, <1>8, <1>9, <1>10

-----------------------------------------------------------------------------
(* The theorems *)

\* The ring and its callers always agree.
THEOREM RingInvariant == RingSpec => []RingInv
<1>1. RingInit => RingInv
    <2>. SUFFICES ASSUME RingInit PROVE RingInv
        OBVIOUS
    <2>1. \A e \in RingEyes, i \in Index : slots[e][i] = EmptySlot
        BY DEF RingInit
    <2>2. /\ EmptySlot.state = "free" /\ EmptySlot.lease = 0 /\ EmptySlot.frame.id = 0
          /\ EmptySlot.expected.id = 0
        BY DEF EmptySlot, NoContent
    <2>3. RingTypeOK
        <3>1. slots \in [RingEyes -> [Index -> RingSlots]]
            BY SlotTypes DEF RingInit
        <3>2. nextSlot \in [RingEyes -> Index]
            BY SlotCountAssumption DEF RingInit, Index
        <3>. QED  BY <3>1, <3>2 DEF RingInit, RingTypeOK
    <2>4. FrameIds
        BY <2>1, <2>2, BoundsAssumption DEF FrameIds
    <2>5. LeaseIds /\ LeasesUnused
        BY <2>1, <2>2 DEF RingInit, LeaseIds, LeasesUnused, Carries
    <2>6. Owned /\ PairsWhole
        BY <2>1, <2>2 DEF RingInit, Owned, PairsWhole
    <2>7. InFlight
        BY FS_EmptySet DEF RingInit, InFlight
    <2>. QED  BY <2>3, <2>4, <2>5, <2>6, <2>7 DEF RingInv
<1>2. RingInv /\ [RingNext]_ringVars => RingInv'
    <2>. SUFFICES ASSUME RingInv, [RingNext]_ringVars PROVE RingInv'
        OBVIOUS
    <2>1. CASE Producer
        BY <2>1, BeginKeepsRingInv, ClosingKeepsRingInv DEF Producer
    <2>2. CASE AcquireLatestCompletePair
        BY <2>2, AcquireKeepsRingInv
    <2>3. CASE \E pair \in pairs : ReleasePair(pair)
        BY <2>3, ReleaseKeepsRingInv
    <2>4. CASE RetireCompleted
        BY <2>4, RetireKeepsRingInv
    <2>5. CASE ConsumerFence
        BY <2>5, FenceKeepsRingInv
    <2>6. CASE \E gen \in 1 .. MaxGeneration : Reset(gen)
        BY <2>6, ResetKeepsRingInv
    <2>7. CASE UNCHANGED ringVars
        <3>0. UNCHANGED <<ring, callers>>
            BY <2>7 DEF ringVars
        <3>1. RingTypeOK'
            BY <3>0 DEF ring, callers, RingInv, RingTypeOK
        <3>2. FrameIds'
            BY <3>0 DEF ring, callers, RingInv, FrameIds
        <3>3. LeaseIds' /\ LeasesUnused'
            BY <3>0 DEF ring, callers, RingInv, LeaseIds, LeasesUnused, Carries
        <3>4. Owned'
            BY <3>0 DEF ring, callers, RingInv, Owned, Owns, Carries
        <3>5. InFlight'
            BY <3>0 DEF ring, callers, RingInv, InFlight, Carrying, Carries
        <3>6. PairsWhole'
            BY <3>0 DEF ring, callers, RingInv, PairsWhole
        <3>. QED  BY <3>1, <3>2, <3>3, <3>4, <3>5, <3>6 DEF RingInv
    <2>. QED  BY <2>1, <2>2, <2>3, <2>4, <2>5, <2>6, <2>7 DEF RingNext, Consumer
<1>. QED  BY <1>1, <1>2, PTL DEF RingSpec

\* Every variable of the ring and of its callers keeps its type.
THEOREM TypeCorrect == RingSpec => []RingTypeOK
<1>1. RingInv => RingTypeOK
    BY DEF RingInv
<1>. QED  BY <1>1, RingInvariant, PTL

\* Of the slots in a state that has owners there are as many as owners.
LEMMA OwnersCount ==
    ASSUME NEW S, NEW O, IsFiniteSet(S), NEW f \in [O -> S],
           \A o, q \in O : o # q => f[o] # f[q],
           \A s \in S : \E o \in O : f[o] = s
    PROVE  Cardinality(S) = Cardinality(O)
<1>1. f \in Injection(O, S) /\ f \in Surjection(O, S)
    BY DEF Injection, IsInjective, Surjection
<1>. QED  BY <1>1, FS_Injection

\* The slots in a given state are finitely many.
LEMMA SlotsFinite ==
    ASSUME NEW e \in RingEyes, NEW state
    PROVE  IsFiniteSet(InState(e, state))
<1>1. IsFiniteSet(Index)
    BY SlotCountAssumption, FS_Interval DEF Index
<1>2. InState(e, state) \in SUBSET Index
    BY DEF InState
<1>. QED  BY <1>1, <1>2, FS_Subset

\* begin_produce, publish, cancel_produce, acquire and release_pair keep the books: every
\* open lease owns its slot, every held pair both of its slots, and no slot is owned by
\* anyone else, so no slot is ever lost.
THEOREM NoSlotIsLost == RingSpec => []OwnershipAccounted
<1>1. ASSUME RingInv  PROVE OwnershipAccounted
    <2>. USE <1>1 DEF RingInv
    <2>1. \A lease \in open : Owns(lease)
        BY DEF Owned
    <2>2. ASSUME NEW pair \in held, NEW e \in RingEyes  PROVE StillOwned(pair, e)
        BY DEF Owned, Carrying, StillOwned
    <2>3. ASSUME NEW e \in RingEyes
          PROVE  Cardinality(InState(e, "producer_owned")) =
                     Cardinality({lease \in open : lease.eye = e})
        <3>. DEFINE S == InState(e, "producer_owned")
                    O == {lease \in open : lease.eye = e}
                    f == [lease \in O |-> lease.slot]
        <3>1. \A lease \in O :
                 /\ lease = [eye |-> e, slot |-> lease.slot, id |-> slots[e][lease.slot].lease]
                 /\ lease.slot \in S
            BY DEF Owned, Owns, RingTypeOK, RingLeases, InState
        <3>2. \A s \in S : \E lease \in O : lease.slot = s
            <4>1. ASSUME NEW s \in S
                  PROVE  [eye |-> e, slot |-> s, id |-> slots[e][s].lease] \in O
                BY DEF Owned, InState
            <4>. QED  BY <4>1
        <3>. HIDE DEF S, O
        <3>3. f \in [O -> S] /\ \A lease \in O : f[lease] = lease.slot
            BY <3>1
        <3>4. \A o, q \in O : o # q => f[o] # f[q]
            BY <3>1, <3>3
        <3>5. \A s \in S : \E o \in O : f[o] = s
            BY <3>2, <3>3
        <3>6. IsFiniteSet(S)
            BY SlotsFinite DEF S
        <3>. HIDE DEF f
        <3>7. Cardinality(S) = Cardinality(O)
            BY <3>3, <3>4, <3>5, <3>6, OwnersCount
        <3>. QED  BY <3>7 DEF S, O
    <2>4. ASSUME NEW e \in RingEyes
          PROVE  Cardinality(InState(e, "consumer_owned")) = Cardinality(held)
        <3>. DEFINE S == InState(e, "consumer_owned")
                    f == [pair \in held |-> pair.index[e + 1]]
        <3>1. \A pair \in held : pair.index[e + 1] \in S
            BY PairTypes, Halves DEF Owned, InState
        <3>2. \A s \in S : \E pair \in held : pair.index[e + 1] = s
            BY DEF Owned, InState
        <3>. HIDE DEF S
        <3>3. f \in [held -> S] /\ \A pair \in held : f[pair] = pair.index[e + 1]
            BY <3>1
        <3>4. \A o, q \in held : o # q => f[o] # f[q]
            BY <3>3, HeldApart
        <3>5. \A s \in S : \E o \in held : f[o] = s
            BY <3>2, <3>3
        <3>6. IsFiniteSet(S)
            BY SlotsFinite DEF S
        <3>. HIDE DEF f
        <3>7. Cardinality(S) = Cardinality(held)
            BY <3>3, <3>4, <3>5, <3>6, OwnersCount
        <3>. QED  BY <3>7 DEF S
    <2>. QED  BY <2>1, <2>2, <2>3, <2>4 DEF OwnershipAccounted
<1>. QED  BY <1>1, RingInvariant, PTL

\* Until the consumer's fence completes, a released pair stays in its slots, whatever
\* begin_produce, acquire, retire_completed and reset do.
THEOREM ReleasedPairsStay == RingSpec => []ConsumerProtected
<1>1. RingInv => ConsumerProtected
    BY DEF RingInv, InFlight, Carrying, ConsumerProtected
<1>. QED  BY <1>1, RingInvariant, PTL

\* acquire_latest_complete_pair gives out whole pairs, and each published eye once.
THEOREM PairsAreWhole == RingSpec => []PairsWhole
<1>1. RingInv => PairsWhole
    BY DEF RingInv
<1>. QED  BY <1>1, RingInvariant, PTL

=============================================================================
