----------------------------- MODULE MCServices -----------------------------
(***************************************************************************)
(* The three allocators a title works with, explored in one run: the guest *)
(* heap, the address ranges of NtAllocateVirtualMemory, and the handles of *)
(* files and kernel objects.  They share no state, so a behaviour is one   *)
(* of them at work while the others stay in their initial state.           *)
(***************************************************************************)
EXTENDS GuestHeap, VirtualMemoryHle, KernelHandles

VARIABLE part

servicesVars == <<part, heapVars, vmVars, handleVars>>

ServicesInit ==
    /\ part \in {"heap", "vm", "handles"}
    /\ HeapInit /\ VmInit /\ HandlesInit

ServicesNext ==
    \/ part = "heap" /\ HeapNext /\ UNCHANGED <<part, vmVars, handleVars>>
    \/ part = "vm" /\ VmNext /\ UNCHANGED <<part, heapVars, handleVars>>
    \/ part = "handles" /\ HandlesNext /\ UNCHANGED <<part, heapVars, vmVars>>

ServicesSpec == ServicesInit /\ [][ServicesNext]_servicesVars

=============================================================================
