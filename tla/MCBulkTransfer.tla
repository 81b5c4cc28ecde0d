--------------------------- MODULE MCBulkTransfer ---------------------------
(***************************************************************************)
(* Instances of BulkTransfer for TLC: images of two chunks, and which      *)
(* client sends which kind.                                                *)
(***************************************************************************)
EXTENDS BulkTransfer

FirmwareOverUsb == [c \in Clients |-> IF c = "usb" THEN "FIRMWARE" ELSE "TOML"]

OneEach == [c \in Clients |-> 1]
UsbOnly == [c \in Clients |-> IF c = "usb" THEN 1 ELSE 0]
UsbTwice == [c \in Clients |-> IF c = "usb" THEN 2 ELSE 1]

\* The hypothesis of BulkTransfer_clients_proofs.
ASSUME RoomAssumption == LinkHoldsAll
=============================================================================
