--------------------------- MODULE MCKernelTimer ----------------------------
(* Small instances of KernelTimer for TLC. *)
EXTENDS KernelTimer, TLC

CONSTANTS k1, k2

EitherTimer == Permutations({k1, k2})
=============================================================================
