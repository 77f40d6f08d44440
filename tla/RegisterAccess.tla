--------------------------- MODULE RegisterAccess ---------------------------
(***************************************************************************)
(* The way the drivers change one field of a register: it is read and      *)
(* unpacked into a structure, the member is assigned, and the structure is *)
(* packed and written.  A register of any layout is the unit, so that the  *)
(* macros of every layout are run.                                         *)
(***************************************************************************)
EXTENDS RegisterLayouts

CONSTANT RegContents   \* contents that registers may have at first, of 64 bits
ASSUME RegisterConstants == RegContents \subseteq SUBSET (0..63)

VARIABLES register,  \* its name and the bits it holds
          before,    \* history: the bits it held when it was read
          unpacked,  \* the structure: member |-> bits
          changed,   \* the member that was assigned and its value
          regpc
regVars == <<register, before, unpacked, changed, regpc>>

NothingUnpacked == [f \in {} |-> {}]
RegInit ==
  /\ register = [name |-> "none", bits |-> {}]
  /\ before = {} /\ unpacked = NothingUnpacked
  /\ changed = [field |-> "none", value |-> {}] /\ regpc = "idle"

(* The register is read and unpacked. *)
RegUnpack ==
  /\ regpc = "idle"
  /\ \E name \in DOMAIN Layouts, bits \in RegContents :
       LET content == bits \cap RegisterBits(name)
       IN  /\ register' = [name |-> name, bits |-> content]
           /\ before' = content
           /\ unpacked' = Unpack(Layouts[name], content)
  /\ changed' = [field |-> "none", value |-> {}]
  /\ regpc' = "unpacked"

(* A member is assigned zero, one or all the bits it is declared with. *)
RegAssign ==
  /\ regpc = "unpacked"
  /\ \E f \in DOMAIN unpacked :
       \E value \in {{}, {0}, 0..(DeclaredWidth(register.name, f) - 1)} :
         /\ unpacked' = [unpacked EXCEPT ![f] = value]
         /\ changed' = [field |-> f, value |-> value]
  /\ regpc' = "assigned"
  /\ UNCHANGED <<register, before>>

RegPack ==
  /\ regpc \in {"unpacked", "assigned"}
  /\ register' = [register EXCEPT !.bits = Pack(Layouts[register.name], unpacked)]
  /\ regpc' = "written"
  /\ UNCHANGED <<before, unpacked, changed>>

(* The driver is done, another register is read. *)
RegDone ==
  /\ regpc = "written" /\ regpc' = "idle"
  /\ register' = [name |-> "none", bits |-> {}]
  /\ before' = {} /\ unpacked' = NothingUnpacked
  /\ changed' = [field |-> "none", value |-> {}]

RegNext == RegUnpack \/ RegAssign \/ RegPack \/ RegDone
RegSpec == RegInit /\ [][RegNext]_regVars
-----------------------------------------------------------------------------
RegTypeOK ==
  /\ register.name \in DOMAIN Layouts \cup {"none"} /\ register.bits \subseteq 0..63
  /\ before \subseteq 0..63
  /\ DOMAIN unpacked = IF regpc = "idle" THEN {} ELSE DOMAIN Layouts[register.name]
  /\ regpc \in {"idle", "unpacked", "assigned", "written"}

(* The layouts that the macros and the comments give differently, or that
   leave bits of the register out. *)
Misdescribed == {"txt_errorcode_t", "acmod_error_t", "VTD_RTADDR_REG"}

(* A member is changed alone: after the register is written, its field
   holds what was assigned and every other bit is what it was when the
   register was read, reserved bits included. *)
FieldChangedAlone ==
  regpc = "written" /\ register.name \notin Misdescribed =>
    LET layout == Layouts[register.name]
        place == IF changed.field = "none" THEN Place(0, 0) ELSE layout[changed.field]
        its == place.lo..(place.lo + place.width - 1)
    IN  register.bits = (before \ its) \cup {b + place.lo : b \in changed.value}
=============================================================================
