----------------------------- MODULE MCLoraNet ------------------------------
(***************************************************************************)
(* The instance of LoraNet for TLC: a leaf that beacons and two repeaters, *)
(* in range of one another.                                                *)
(***************************************************************************)
EXTENDS LoraNet, TLC

CONSTANTS a, b, c

AllNodes == {a, b, c}
AddressOf == (a :> 1) @@ (b :> 2) @@ (c :> 3)
RoleOf == (a :> "leaf") @@ (b :> "repeater") @@ (c :> "repeater")
TwoHops == [n \in Nodes |-> 2]
Everyone == [n \in Nodes |-> Nodes]
LeafBeacons == (a :> 3) @@ (b :> 0) @@ (c :> 0)
\* What NewBroadcastsPass asks of a network.
ASSUME NetworkAssumption == AddressesDistinct /\ IdsOutlastWindows

NewConfigs == {[address |-> 4, role |-> "repeater", hops |-> 1]}
=============================================================================
