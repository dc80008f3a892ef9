----------------------------- MODULE MCEvtqArray -----------------------------
(***************************************************************************)
(* Model checking the array event queue, and its implementation of the     *)
(* abstract EventQueue.                                                    *)
(***************************************************************************)
EXTENDS EvtqArrayRefines, TLC

Symmetry == Permutations(Edas) \cup Permutations(Evts)
=============================================================================
