------------------------------ MODULE MCLabHost ------------------------------
(* LabHost with interchangeable labs.                                          *)
EXTENDS LabHost
LOCAL INSTANCE TLC

LabSymmetry == Permutations(Labs)
=============================================================================
