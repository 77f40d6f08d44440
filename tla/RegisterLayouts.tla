--------------------------- MODULE RegisterLayouts ---------------------------
(***************************************************************************)
(* The registers that the headers of the hardware model describe by a      *)
(* structure and a pair of macros, pack_ and unpack_: those of the VT-d    *)
(* units (xmhfhwm_vtd.h), the memory type range registers, the registers   *)
(* of TXT and the answer of GETSEC[CAPABILITIES] (xmhfhwm_cpu.h).  A       *)
(* layout says where the macros put each member of the structure; pack_    *)
(* and unpack_ of a register agree on it.                                  *)
(***************************************************************************)
EXTENDS RegisterFields

(* Mutant: two bits of the status exchanged. *)
GstsExchanged ==
  [rsvdz0 |-> Place(0, 23), cfis |-> Place(23, 1), irtps |-> Place(24, 1), ires |-> Place(25, 1),
   qies |-> Place(26, 1), wbfs |-> Place(27, 1), afls |-> Place(28, 1), fls |-> Place(29, 1),
   rtps |-> Place(31, 1), tes |-> Place(30, 1)]

VTD_CAP_REG ==
  [nd |-> Place(0, 3), afl |-> Place(3, 1), rwbf |-> Place(4, 1), plmr |-> Place(5, 1),
   phmr |-> Place(6, 1), cm |-> Place(7, 1), sagaw |-> Place(8, 5), rsvdz0 |-> Place(13, 3),
   mgaw |-> Place(16, 6), zlr |-> Place(22, 1), isoch |-> Place(23, 1), fro |-> Place(24, 10),
   sps |-> Place(34, 4), rsvdz1 |-> Place(38, 1), psi |-> Place(39, 1), nfr |-> Place(40, 8),
   mamv |-> Place(48, 6), dwd |-> Place(54, 1), drd |-> Place(55, 1), rsvdz2 |-> Place(56, 8)]
VTD_ECAP_REG ==
  [c |-> Place(0, 1), qi |-> Place(1, 1), di |-> Place(2, 1), ir |-> Place(3, 1),
   eim |-> Place(4, 1), ch |-> Place(5, 1), pt |-> Place(6, 1), sc |-> Place(7, 1),
   iro |-> Place(8, 10), rsvdz0 |-> Place(18, 2), mhmv |-> Place(20, 4),
   rsvdz1 |-> Place(24, 32), rsvdz2 |-> Place(56, 8)]
VTD_GCMD_REG ==
  [rsvdz0 |-> Place(0, 23), cfi |-> Place(23, 1), sirtp |-> Place(24, 1), ire |-> Place(25, 1),
   qie |-> Place(26, 1), wbf |-> Place(27, 1), eafl |-> Place(28, 1), sfl |-> Place(29, 1),
   srtp |-> Place(30, 1), te |-> Place(31, 1)]
VTD_GSTS_REG ==
  [rsvdz0 |-> Place(0, 23), cfis |-> Place(23, 1), irtps |-> Place(24, 1), ires |-> Place(25, 1),
   qies |-> Place(26, 1), wbfs |-> Place(27, 1), afls |-> Place(28, 1), fls |-> Place(29, 1),
   rtps |-> Place(30, 1), tes |-> Place(31, 1)]
VTD_RTADDR_REG ==
  [rsvdz0 |-> Place(0, 12), rta |-> Place(12, 32), rta_high |-> Place(44, 22)]
VTD_CCMD_REG ==
  [did |-> Place(0, 16), sid |-> Place(16, 16), fm |-> Place(32, 2), rsvdz0 |-> Place(34, 25),
   caig |-> Place(59, 2), cirg |-> Place(61, 2), icc |-> Place(63, 1)]
VTD_IOTLB_REG ==
  [rsvdz0 |-> Place(0, 32), did |-> Place(32, 16), dw |-> Place(48, 1), dr |-> Place(49, 1),
   rsvdz1 |-> Place(50, 7), iaig |-> Place(57, 3), iirg |-> Place(60, 3), ivt |-> Place(63, 1)]
VTD_FECTL_REG ==
  [rsvdp0 |-> Place(0, 30), ip |-> Place(30, 1), im |-> Place(31, 1)]
VTD_PMEN_REG ==
  [prs |-> Place(0, 1), rsvdp |-> Place(1, 30), epm |-> Place(31, 1)]
-----------------------------------------------------------------------------
mtrr_cap_t ==
  [vcnt |-> Place(0, 8), fix |-> Place(8, 1), reserved1 |-> Place(9, 1), wc |-> Place(10, 1),
   reserved2 |-> Place(11, 32), reserved3 |-> Place(43, 21)]
mtrr_def_type_t ==
  [type |-> Place(0, 8), reserved1 |-> Place(8, 2), fe |-> Place(10, 1), e |-> Place(11, 1),
   reserved2 |-> Place(12, 32), reserved3 |-> Place(44, 20)]
mtrr_physbase_t ==
  [type |-> Place(0, 8), reserved1 |-> Place(8, 4), base |-> Place(12, 24),
   reserved2 |-> Place(36, 28)]
mtrr_physmask_t ==
  [reserved1 |-> Place(0, 11), v |-> Place(11, 1), mask |-> Place(12, 24),
   reserved2 |-> Place(36, 28)]
-----------------------------------------------------------------------------
txt_errorcode_t ==
  [type |-> Place(0, 1), external |-> Place(1, 1), valid |-> Place(31, 30)]
txt_ests_t ==
  [txt_reset_sts |-> Place(0, 1), reserved1 |-> Place(1, 5), txt_wake_error_sts |-> Place(6, 1),
   reserved2 |-> Place(7, 1)]
txt_e2sts_t ==
  [slp_entry_error_sts |-> Place(0, 1), secrets_sts |-> Place(1, 1),
   block_mem_sts |-> Place(2, 1), reset_sts |-> Place(3, 1)]
txt_sts_t ==
  [senter_done_sts |-> Place(0, 1), sexit_done_sts |-> Place(1, 1), reserved1 |-> Place(2, 2),
   mem_unlock_sts |-> Place(4, 1), reserved2 |-> Place(5, 1),
   mem_config_lock_sts |-> Place(6, 1), private_open_sts |-> Place(7, 1),
   reserved3 |-> Place(8, 3), mem_config_ok_sts |-> Place(11, 1)]
txt_didvid_t ==
  [vendor_id |-> Place(0, 16), device_id |-> Place(16, 16), revision_id |-> Place(32, 16),
   reserved |-> Place(48, 16)]
txt_ver_fsbif_emif_t ==
  [reserved |-> Place(0, 31), prod_fused |-> Place(31, 1)]
txt_errorcode_sw_t ==
  [err1 |-> Place(0, 15), src |-> Place(15, 1), err2 |-> Place(16, 14)]
acmod_error_t ==
  [acm_type |-> Place(0, 4), progress |-> Place(4, 6), error |-> Place(10, 4),
   reserved |-> Place(14, 1), src |-> Place(15, 1), error2 |-> Place(16, 1)]
capabilities_t ==
  [chipset_present |-> Place(0, 1), undefined1 |-> Place(1, 1), enteraccs |-> Place(2, 1),
   exitac |-> Place(3, 1), senter |-> Place(4, 1), sexit |-> Place(5, 1),
   parameters |-> Place(6, 1), smctrl |-> Place(7, 1), wakeup |-> Place(8, 1),
   undefined9 |-> Place(9, 22), extended_leafs |-> Place(31, 1)]
-----------------------------------------------------------------------------
Layouts ==
  [VTD_CAP_REG |-> VTD_CAP_REG, VTD_ECAP_REG |-> VTD_ECAP_REG, VTD_GCMD_REG |-> VTD_GCMD_REG,
   VTD_GSTS_REG |-> VTD_GSTS_REG, VTD_RTADDR_REG |-> VTD_RTADDR_REG,
   VTD_CCMD_REG |-> VTD_CCMD_REG, VTD_IOTLB_REG |-> VTD_IOTLB_REG,
   VTD_FECTL_REG |-> VTD_FECTL_REG, VTD_PMEN_REG |-> VTD_PMEN_REG, mtrr_cap_t |-> mtrr_cap_t,
   mtrr_def_type_t |-> mtrr_def_type_t, mtrr_physbase_t |-> mtrr_physbase_t,
   mtrr_physmask_t |-> mtrr_physmask_t, txt_errorcode_t |-> txt_errorcode_t,
   txt_ests_t |-> txt_ests_t, txt_e2sts_t |-> txt_e2sts_t, txt_sts_t |-> txt_sts_t,
   txt_didvid_t |-> txt_didvid_t, txt_ver_fsbif_emif_t |-> txt_ver_fsbif_emif_t,
   txt_errorcode_sw_t |-> txt_errorcode_sw_t, acmod_error_t |-> acmod_error_t,
   capabilities_t |-> capabilities_t]

(* The width of the register: the type the macros cast to, and for the
   narrow registers of TXT that are cast to 64 bits, the bits described. *)
RegisterBits(name) ==
  CASE name \in {"VTD_GCMD_REG", "VTD_GSTS_REG", "VTD_FECTL_REG", "VTD_PMEN_REG",
                 "txt_ver_fsbif_emif_t", "capabilities_t", "txt_errorcode_t"} -> 0..31
    [] name \in {"txt_errorcode_sw_t", "acmod_error_t"} -> 0..29
    [] name = "txt_ests_t" -> 0..7
    [] name = "txt_e2sts_t" -> 0..3
    [] name = "txt_sts_t" -> 0..11
    [] OTHER -> 0..63

(* The width that the comment beside a member gives it; the macros mask it
   to that width, with these exceptions. *)
DeclaredWidth(name, f) ==
  CASE name = "txt_errorcode_t" /\ f = "type" -> 30
    [] name = "txt_errorcode_t" /\ f = "valid" -> 1
    [] name = "acmod_error_t" /\ f = "error2" -> 14
    [] OTHER -> Layouts[name][f].width
=============================================================================
