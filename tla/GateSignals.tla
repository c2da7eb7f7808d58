---------------------------- MODULE GateSignals ----------------------------
(***************************************************************************)
(* The signals of the lifecycle coordinator that the start of a node waits *)
(* for (internal/core/lifecycle/coordinator.go, fx.go): the NAT type is    *)
(* known; the node's addresses are ready.  The second comes only after the *)
(* first, and neither is taken back.  AddressGate implements them.         *)
(***************************************************************************)
VARIABLES
  natReady,     \* c.natTypeReady
  addrReady     \* c.addressReady

signals == <<natReady, addrReady>>

SignalsInit == natReady = FALSE /\ addrReady = FALSE

SetNATTypeReady ==
  /\ ~natReady
  /\ natReady' = TRUE
  /\ UNCHANGED addrReady

SetAddressReady ==
  /\ natReady /\ ~addrReady
  /\ addrReady' = TRUE
  /\ UNCHANGED natReady

SignalsNext == SetNATTypeReady \/ SetAddressReady

SignalsSpec == SignalsInit /\ [][SignalsNext]_signals
=============================================================================
