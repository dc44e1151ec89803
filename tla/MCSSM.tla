------------------------------- MODULE MCSSM -------------------------------
(* Small instances of SSM for TLC. *)
EXTENDS SSM

CONSTANT k

OneName == {k}
Derived == {NoLabel}
Sealable == {{"exportable_sealed"}}
ThreadSymmetry == Permutations(Thread)
=============================================================================
