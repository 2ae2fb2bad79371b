---------------------------- MODULE MCKernelCore ----------------------------
(* KernelCore for TLC; MCKernelCore.cfg gives the constants their values. *)
EXTENDS KernelCore

=============================================================================
