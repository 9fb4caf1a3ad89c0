-------------------------- MODULE MCDeviceLiveness --------------------------
(***************************************************************************)
(* Small instances of DeviceLiveness for TLC.                              *)
(***************************************************************************)
EXTENDS DeviceLiveness, TLC

CONSTANTS ann, bob, d1, d2

AllOfAnn == [d \in Devices |-> ann]

\* The device that never answers comes first.
IdOrder == [d \in Devices |-> IF d = d1 THEN 1 ELSE 2]

PollerSymmetry == Permutations(Pollers)
=============================================================================
