---------------------------- MODULE MCLinuxPipe ----------------------------
(* Model checking a pipe: calls that fit into its capacity and calls that   *)
(* do not.                                                                  *)
EXTENDS LinuxPipe
=============================================================================
