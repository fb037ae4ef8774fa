------------------------------ MODULE DeviceTable ------------------------------
(***************************************************************************)
(* The device table of device_manager.c: device_list.devices[0 .. count-1] *)
(* is a sequence of entries, and every function of the file that reads or  *)
(* changes it is an operator on that sequence.  Entry fields no caller     *)
(* decides anything on (names, battery, link quality, timestamps) are left *)
(* out.  The C functions return a pointer into the array; a pointer is an  *)
(* index here, so an index used after the array shifted reaches the entry  *)
(* the pointer would reach.                                                *)
(***************************************************************************)
EXTENDS Naturals, Sequences, FiniteSets, SequencesExt

CONSTANTS
    Short,          \* 16-bit network addresses; the coordinator's is one of them
    Ieee,           \* 64-bit hardware addresses
    EpId,           \* endpoint numbers
    Cluster,        \* cluster ids
    Cfg,            \* attribute reporting configurations
    MaxDevices,     \* MAX_DEVICES, 32 in the code
    MaxEndpoints    \* MAX_ENDPOINTS, 40 in the code

ASSUME CapacityAssumption ==
    /\ MaxDevices \in Nat \ {0}
    /\ MaxEndpoints \in Nat \ {0}

Endpoint == [id : EpId, clusters : SUBSET Cluster]

Entry == [short : Short, ieee : Ieee, active : BOOLEAN,
          eps : Seq(Endpoint), cfgs : SUBSET Cfg]

NewEntry(a, x) ==
    [short |-> a, ieee |-> x, active |-> TRUE, eps |-> <<>>, cfgs |-> {}]

--------------------------------------------------------------------------------
(* Look-ups scan from the front; 0 stands for the NULL pointer.            *)

IndexOfShort(t, a) == SelectInSeq(t, LAMBDA e : e.short = a)
IndexOfIeee(t, x)  == SelectInSeq(t, LAMBDA e : e.ieee = x)
IndexOfEp(eps, n)  == SelectInSeq(eps, LAMBDA e : e.id = n)

Known(t, a) == IndexOfShort(t, a) # 0

--------------------------------------------------------------------------------
(* The table after each operation.  A definition whose comment says Mutant   *)
(* is a mistaken variant of the next one, which some property must refute.   *)

(* Mutant: the capacity test is off by one.                                 *)
CreateOneTooMany(t, a, x) ==
    IF Len(t) > MaxDevices THEN t ELSE Append(t, NewEntry(a, x))

Create(t, a, x) == IF Len(t) >= MaxDevices THEN t ELSE Append(t, NewEntry(a, x))

(* Mutant: the shift starts one slot late.                                  *)
DeleteNextOne(t, a) ==
    IF Known(t, a) THEN RemoveAt(t, IndexOfShort(t, a) + 1) ELSE t

Delete(t, a) == IF Known(t, a) THEN RemoveAt(t, IndexOfShort(t, a)) ELSE t

(* Mutant: the holder of a is removed even when it is the device itself.     *)
RejoinForgetsItself(t, a, i) ==
    LET u == Delete(t, a)
    IN  IF i > Len(u) THEN u
        ELSE [u EXCEPT ![i] = [@ EXCEPT !.short = a, !.active = TRUE]]

(* A known device announces address a.  The entry that holds a, if another  *)
(* one does, is removed before the pointer i found by IEEE address is used. *)
(* A slot past the new count is memory nobody reads and the next creation   *)
(* clears: a write to it is lost.                                           *)
Rejoin(t, a, i) ==
    LET u == IF t[i].short = a THEN t ELSE Delete(t, a)
    IN  IF i > Len(u) THEN u
        ELSE [u EXCEPT ![i] = [@ EXCEPT !.short = a, !.active = TRUE]]

(* Mutant: the look-up goes by network address.                             *)
AddByShort(t, a, x) ==
    LET i == IndexOfShort(t, a)
    IN  IF i = 0 THEN Create(t, a, x) ELSE Rejoin(t, a, i)

Add(t, a, x) ==
    LET i == IndexOfIeee(t, x)
    IN  IF i = 0 THEN Create(t, a, x) ELSE Rejoin(t, a, i)

(* ESP_ERR_NO_MEM: the only failure Add and Create report.                  *)
AddFails(t, x) == IndexOfIeee(t, x) = 0 /\ Len(t) >= MaxDevices

(* Mutant: an endpoint already listed is appended again.                    *)
MergeEndpointAgain(eps, e) ==
    IF Len(eps) < MaxEndpoints THEN Append(eps, e) ELSE eps

(* Mutant: the new list replaces the old one.                               *)
MergeByReplacing(eps, new) == new

(* Endpoints merge by number; those that do not fit are dropped.            *)
MergeEndpoint(eps, e) ==
    LET i == IndexOfEp(eps, e.id)
    IN  IF i # 0 THEN ReplaceAt(eps, i, e)
        ELSE IF Len(eps) < MaxEndpoints THEN Append(eps, e) ELSE eps

(* The loop over the new endpoints.                                         *)
MergeEndpoints(eps, new) ==
    LET merged[n \in 0..Len(new)] ==
            IF n = 0 THEN eps ELSE MergeEndpoint(merged[n - 1], new[n])
    IN  merged[Len(new)]

(* The reporting configurations of u are not copied.                        *)
Update(t, u) ==
    LET i == IndexOfShort(t, u.short)
    IN  IF i = 0 THEN t
        ELSE [t EXCEPT ![i] = [t[i] EXCEPT !.ieee = u.ieee, !.active = u.active,
                                           !.eps = MergeEndpoints(@, u.eps)]]

(* The device answered or was seen: its entry is active.                    *)
Touch(t, a) ==
    IF Known(t, a) THEN [t EXCEPT ![IndexOfShort(t, a)].active = TRUE] ELSE t

(* A reporting configuration takes a free slot of the entry; how many      *)
(* slots there are, and what a refused call leaves in one, is in Interview. *)
Configure(t, a, c) ==
    [t EXCEPT ![IndexOfShort(t, a)].cfgs = @ \cup {c}]

--------------------------------------------------------------------------------
(* Views of a table.                                                       *)

Ieees(t)  == {t[i].ieee : i \in DOMAIN t}
Shorts(t) == {t[i].short : i \in DOMAIN t}
================================================================================
