--------------------------------- MODULE MCCasm ---------------------------------
(***************************************************************************)
(* Two calls, of any function with any arguments of the drivers, on a      *)
(* machine with bytes of seven bits.                                       *)
(***************************************************************************)
EXTENDS CasmMachine

MCByteBits == 7
MCValues == {0, 577}   \* 577 has the interrupt, the zero and the carry flag
=============================================================================
