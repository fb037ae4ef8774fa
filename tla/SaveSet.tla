-------------------------------- MODULE SaveSet --------------------------------
(***************************************************************************)
(* What device_storage.c wants of its save queue: a set of at most Size    *)
(* addresses.  To ask for a save puts the address into the set; an address *)
(* that is not in it is turned away when the set is full.                  *)
(***************************************************************************)
EXTENDS Naturals, FiniteSets

CONSTANTS Addr, Size

VARIABLES held,         \* the addresses in the set
          turnedAway    \* how many requests found it full

vars == <<held, turnedAway>>

Init == held = {} /\ turnedAway = 0

Put(a) ==
    /\ a \in held \/ Cardinality(held) < Size
    /\ held' = held \cup {a}
    /\ UNCHANGED turnedAway

TurnAway(a) ==
    /\ a \notin held /\ Cardinality(held) = Size
    /\ turnedAway' = turnedAway + 1
    /\ UNCHANGED held

Next == \E a \in Addr : Put(a) \/ TurnAway(a)

Spec == Init /\ [][Next]_vars
================================================================================
