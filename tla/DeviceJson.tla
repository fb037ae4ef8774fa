------------------------------- MODULE DeviceJson ------------------------------
(***************************************************************************)
(* A device as JSON and back (device_json.c).  The record of a device has   *)
(* its endpoints in an array with a count and its report configurations in   *)
(* the order of their slots.  Numbers and names go through unchanged; what     *)
(* the JSON leaves out (battery, firmware, signal strength, model) is no part *)
(* of the record.                                                           *)
(***************************************************************************)
EXTENDS Naturals, Sequences

CONSTANT MaxEndpoints       \* MAX_ENDPOINTS, 40 in the code

ASSUME JsonAssumption == MaxEndpoints \in Nat \ {0}

NoEndpoint == [ep |-> 0, clusters |-> {}]

(* device_to_json writes the endpoints up to the count and every configuration *)
(* in use.                                                                  *)
ToJson(e) == [device |-> e.device, endpoints |-> SubSeq(e.slots, 1, e.count), reports |-> e.cfgs]

(* The loop over report_cfgs gives up a configuration whose direction it does  *)
(* not know; the others come back with what they lack read as zero.  (In the    *)
(* code they keep their place in the array; only which are in use is asked for.) *)
TakenBack(cfgs) ==
    LET taken[n \in 0..Len(cfgs)] ==
            IF n = 0 THEN <<>>
            ELSE IF cfgs[n].state = "undirected" THEN taken[n - 1]
            ELSE Append(taken[n - 1], cfgs[n])
    IN  taken[Len(cfgs)]

(* device_from_json clears the record first and fills in the endpoints up to   *)
(* the size of the array.                                                   *)
FromJson(j) ==
    LET n == IF Len(j.endpoints) < MaxEndpoints THEN Len(j.endpoints) ELSE MaxEndpoints
    IN  [device |-> j.device, count |-> n,
         slots |-> [i \in 1..MaxEndpoints |-> IF i <= n THEN j.endpoints[i] ELSE NoEndpoint],
         cfgs |-> TakenBack(j.reports)]
================================================================================
