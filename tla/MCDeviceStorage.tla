---------------------------- MODULE MCDeviceStorage ----------------------------
(* A small gateway with its flash for TLC.  The two address sets may be      *)
(* permuted as long as no cleared slot is read.                              *)
EXTENDS DeviceStorage

MCSymmetry == Permutations(Short) \cup Permutations(Ieee \ {NoIeee})
================================================================================
