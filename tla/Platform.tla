------------------------------ MODULE Platform ------------------------------
(***************************************************************************)
(* The hardware side of the code, libxmhfhw over the hardware model, and   *)
(* the libraries: VT-d, PCI configuration, MTRRs, register layouts, the    *)
(* other devices, and the functions of libxmhfc, libxmhfdebug and          *)
(* libxmhfcrypto.  They share no state, so that a behaviour of one is a    *)
(* behaviour of all with the others at rest: one of them is active.        *)
(***************************************************************************)
EXTENDS VtdDrivers, PciConfig, Mtrr, RegisterAccess, PlatformCalls, CLib, Printf, Sha1

VARIABLE active
platformVars == <<vtdVars, pciVars, mtrrVars, regVars, platVars, libVars, printVars, hashVars, active>>
-----------------------------------------------------------------------------
Components == {"vtd", "pci", "mtrr", "register", "platform", "clib", "printf", "sha1"}

(* What a component at rest starts from makes no difference. *)
PlatformInit ==
  /\ active \in Components
  /\ VtdInit /\ (active # "vtd" => kind = "hwm")
  /\ PciInit
  /\ MtrrInit /\ (active = "mtrr") = (mcalls > 0)
  /\ RegInit
  /\ PlatInit /\ (active # "platform" => machine = CHOOSE m \in Machines : TRUE)
  /\ LibInit /\ PrintInit /\ HashInit

AllBut(component) ==
  /\ active = component /\ UNCHANGED active
  /\ component # "vtd" => UNCHANGED vtdVars
  /\ component # "pci" => UNCHANGED pciVars
  /\ component # "mtrr" => UNCHANGED mtrrVars
  /\ component # "register" => UNCHANGED regVars
  /\ component # "platform" => UNCHANGED platVars
  /\ component # "clib" => UNCHANGED libVars
  /\ component # "printf" => UNCHANGED printVars
  /\ component # "sha1" => UNCHANGED hashVars
PlatformNext ==
  \/ AllBut("vtd") /\ VtdNext
  \/ AllBut("pci") /\ PciNext
  \/ AllBut("mtrr") /\ MtrrNext
  \/ AllBut("register") /\ RegNext
  \/ AllBut("platform") /\ PlatNext
  \/ AllBut("clib") /\ LibNext
  \/ AllBut("printf") /\ PrintNext
  \/ AllBut("sha1") /\ HashNext
PlatformSpec ==
  /\ PlatformInit /\ [][PlatformNext]_platformVars
  /\ WF_vtdVars(VtdStep) /\ WF_vtdVars(UnitStep) /\ WF_platVars(PlatStep) /\ WF_platVars(PortStep)
-----------------------------------------------------------------------------
(* The variables of every component keep their types: words of 32 bits, the
   program counters of the calls, counters within their bounds. *)
PlatformTypeOK == VtdTypeOK /\ PciTypeOK /\ MtrrTypeOK /\ RegTypeOK /\ PlatTypeOK

(* Every call of a driver or of a function about the platform returns, for
   a unit, the timer and the keyboard controller eventually do what they
   were told (the loops of the VT-d drivers, xmhfhw_pit_udelay.c and
   xmhfhw_keyb_reboot.c). *)
CallsReturn == VtdDriversReturn /\ PlatformCallsReturn

(* The functions that compute an answer give the one of their definition: the
   C library and formatted output what their contracts say, the hash what its
   standard says, and validate_mtrrs what the types of the pages say. *)
LibraryMatches == CLibRight /\ PrintfRight /\ Sha1Right /\ MtrrValidated
=============================================================================
