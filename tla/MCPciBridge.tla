---------------------------- MODULE MCPciBridge ----------------------------
(***************************************************************************)
(* PciBridge with two devices in an address space of 16 units.             *)
(***************************************************************************)
EXTENDS PciBridge, TLC

\* The GPU with its register BAR and a larger BAR without a device, another
\* device with one BAR, and the OHCI registers mapped on the bus directly.
MCBarSize == (1 :> (0 :> 2 @@ 1 :> 4)) @@ (2 :> (0 :> 2 @@ 1 :> 0))
MCHasDevice == (1 :> (0 :> TRUE @@ 1 :> FALSE)) @@ (2 :> (0 :> TRUE @@ 1 :> FALSE))
MCFixedMaps == {[base |-> 6, size |-> 1, owner |-> <<0, 0>>]}
=============================================================================
