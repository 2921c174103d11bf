------------------------------- MODULE MCNativeIo -------------------------------
(***************************************************************************)
(* Model values for the deferred calls of one native process.               *)
(***************************************************************************)
EXTENDS NativeIo, TLC

Symmetry == Permutations(Thread)
=============================================================================
