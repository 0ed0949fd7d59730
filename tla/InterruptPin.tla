---------------------------- MODULE InterruptPin ----------------------------
(***************************************************************************)
(* What the CPU and the interrupt controller share: the interrupt request  *)
(* pin, raised by ppc_assert_int and lowered by ppc_release_int.           *)
(***************************************************************************)
VARIABLE int_pin
=============================================================================
