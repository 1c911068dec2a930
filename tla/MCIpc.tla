-------------------------------- MODULE MCIpc --------------------------------
(***************************************************************************)
(* Model checking of the two processes' control path: the channel in       *)
(* shared memory, and the game's bridge that takes the host's requests     *)
(* from it.  The bridge reads the channel in one step, as the channel's    *)
(* ReadsAreSnapshots allows, so the two share no state and a run follows   *)
(* one of them, the focus, and leaves the other at its start.              *)
(***************************************************************************)
EXTENDS SharedMemoryChannel, VrBridge

VARIABLE focus

vars == <<focus, channelVars, bridgeVars>>

Init == focus \in {"channel", "bridge"} /\ ChannelInit /\ BridgeInit

Next ==
    \/ focus = "channel" /\ ChannelNext /\ UNCHANGED <<focus, bridgeVars>>
    \/ focus = "bridge"  /\ BridgeNext  /\ UNCHANGED <<focus, channelVars>>

\* The other part is never entered, so its fairness asks nothing of it.
FairSpec == Init /\ [][Next]_vars /\ ChannelFairness /\ BridgeFairness
=============================================================================
