------------------------------ MODULE MCInterview ------------------------------
(* Instances of Interview: a device that moves between two addresses, and two  *)
(* devices that take one address in turn.                                   *)
EXTENDS Interview, TLC

CONSTANTS a1, a2, p1, p2, c1, c2

(* One device, two addresses, two endpoints with different clusters.         *)
MCHomes     == {a1, a2} \X {p1}
MCEndpoints == [p \in Device |-> <<1, 2>>]
MCClusters  == [p \in Device |-> [ep \in EpId |-> IF ep = 1 THEN {c1} ELSE {c2}]]

(* One address two devices take in turn, with each other's clusters.         *)
MCHandedOn == {a1} \X {p1, p2}
MCSwapped  == [p \in Device |-> [ep \in EpId |-> IF (ep = 1) = (p = p1) THEN {c1} ELSE {c2}]]

(* Nothing tells the two addresses apart.                                   *)
Symmetry == Permutations(Short)
================================================================================
