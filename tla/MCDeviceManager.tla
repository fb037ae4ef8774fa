---------------------------- MODULE MCDeviceManager ----------------------------
(* A small device manager for TLC.                                         *)
EXTENDS DeviceManager

MCSymmetry == Permutations(Short) \cup Permutations(Ieee)
================================================================================
