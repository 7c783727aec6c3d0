------------------------------ MODULE MCTitle ------------------------------
(***************************************************************************)
(* What a title goes through before and while it runs, explored in one     *)
(* run: its disc, the loading of its executable, decoding, arithmetic and  *)
(* stepping of its instructions, and the routing of their accesses to      *)
(* devices.  The modules share no state, so a behaviour is one of them at  *)
(* work while the others stay in one initial state.                        *)
(***************************************************************************)
EXTENDS MCDiscVolume, MCXbeLoad, MCCpuStep, CpuArithmetic, MCCpuDecoder, MCPciBridge

VARIABLE part

Parts == {"disc", "boot", "step", "arithmetic", "decoder", "pci"}

titleVars == <<part, discVars, bootVars, cpuVars, form, stream, pciVars>>

TitleInit ==
    /\ part \in Parts
    /\ part = "disc" \/ disc = CHOOSE d \in MCDiscs : TRUE
    /\ DiscInit
    /\ \E k \in (IF part = "step" THEN DOMAIN Systems ELSE {1}) : PowerOn(k)
    /\ BootInit /\ ArithInit /\ DecoderInit /\ PciInit

TitleNext ==
    \/ /\ part = "disc" /\ DiscNext
       /\ UNCHANGED <<part, bootVars, cpuVars, form, stream, pciVars>>
    \/ /\ part = "boot" /\ BootNext
       /\ UNCHANGED <<part, discVars, cpuVars, form, stream, pciVars>>
    \/ /\ part = "step" /\ CpuNext
       /\ UNCHANGED <<part, discVars, bootVars, form, stream, pciVars>>
    \/ /\ part = "arithmetic" /\ Execute
       /\ UNCHANGED <<part, discVars, bootVars, cpuVars, stream, pciVars>>
    \/ /\ part = "decoder" /\ Fetch
       /\ UNCHANGED <<part, discVars, bootVars, cpuVars, form, pciVars>>
    \/ /\ part = "pci" /\ PciNext
       /\ UNCHANGED <<part, discVars, bootVars, cpuVars, form, stream>>

TitleSpec == TitleInit /\ [][TitleNext]_titleVars

\* ProgramBarIsAtomic and AccessReachesItsBar of PciBridge, in the behaviours that
\* reach its states: programming a BAR is all or nothing, and an access goes to at
\* most one device, one whose enabled BAR register covers it.
PciBarsAreExact == part = "pci" => ProgramBarIsAtomic /\ AccessReachesItsBar

=============================================================================
