---------------------------- MODULE PictureStream ----------------------------
(***************************************************************************)
(* What the native stereo stream promises, without its fences, slots,      *)
(* queues and processes: pictures are published under increasing numbers,  *)
(* at most Depth of them ahead of the consumer's acknowledgement.  The     *)
(* headset shows some of them, never an older one after a newer one, and   *)
(* the two eyes it shows belong to the same camera frame.                  *)
(*                                                                         *)
(* The producer may lose track of a number it has announced and use it     *)
(* again for another picture.  Such a number is spoiled: neither eye shown  *)
(* under it is older than what was shown before, but the two need not      *)
(* belong together, and it may be shown with different pictures.           *)
(***************************************************************************)
EXTENDS Naturals

CONSTANT Depth    \* pictures published ahead of the acknowledgement, at most

VARIABLES
    published,   \* number of the newest picture the headset side may take
    consumed,    \* number up to which the consumer has acknowledged
    spoiled,     \* numbers that may stand for more than one picture
    shown        \* the picture the headset side holds: number and both eyes

vars == <<published, consumed, spoiled, shown>>

Init ==
    /\ published = 0 /\ consumed = 0 /\ spoiled = {}
    /\ shown = [ready |-> 0, left |-> 0, right |-> 0]

Publish ==
    /\ published < consumed + Depth
    /\ published' = published + 1
    /\ UNCHANGED <<consumed, spoiled, shown>>

\* A number that is not published yet is spoiled.
Spoil ==
    /\ \E n \in published + 1 .. consumed + Depth : spoiled' = spoiled \cup {n}
    /\ UNCHANGED <<published, consumed, shown>>

\* A newer picture, with a newer camera frame in both eyes, replaces the one
\* shown; the one shown may be taken once more while it is unacknowledged.
Show ==
    /\ shown'.ready > consumed /\ shown'.ready >= shown.ready
    /\ shown'.ready <= published
    /\ shown'.left >= shown.left /\ shown'.right >= shown.right
    /\ shown'.ready \notin spoiled =>
          /\ shown'.left = shown'.right
          /\ shown'.ready = shown.ready => shown'.left = shown.left
          /\ shown'.ready > shown.ready /\ shown.ready \notin spoiled =>
                shown'.left > shown.left
    /\ UNCHANGED <<published, consumed, spoiled>>

Consume ==
    /\ consumed' = shown.ready /\ consumed' > consumed
    /\ UNCHANGED <<published, spoiled, shown>>

Next == Publish \/ Spoil \/ Show \/ Consume

Spec == Init /\ [][Next]_vars

=============================================================================
