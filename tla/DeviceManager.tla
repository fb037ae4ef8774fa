----------------------------- MODULE DeviceManager -----------------------------
(***************************************************************************)
(* The device manager as its callers see it: the table and one action per  *)
(* call.  Signals of the Zigbee stack add, touch and remove entries while  *)
(* the gateway runs; the JSON loader creates entries without looking for   *)
(* one and then updates them.                                              *)
(***************************************************************************)
EXTENDS DeviceTable

VARIABLE devices       \* device_list

TableOK ==
    /\ devices \in Seq(Entry)
    /\ Len(devices) <= MaxDevices
    /\ \A i \in DOMAIN devices : Len(devices[i].eps) <= MaxEndpoints

TableInit == devices = <<>>

(* device_manager_add: a device announces itself.                          *)
AddDevice(a, x) == devices' = Add(devices, a, x)

(* device_manager_remove: an entry is dropped by its network address.      *)
RemoveDevice(a) == devices' = Delete(devices, a)

(* A device update signal of a known device, device_manager_update_timestamp. *)
TouchDevice(a) == devices' = Touch(devices, a)

(* set_report_config: the program stores a configuration in the entry.      *)
SetReportConfig(a, c) ==
    /\ Known(devices, a)
    /\ devices' = Configure(devices, a, c)

(* device_manager_add_new_device: the loader creates an entry.             *)
AddNewDevice(a, x) == devices' = Create(devices, a, x)

(* The endpoint lists device_from_json may read: it stops at a full array.   *)
LoadedEps == BoundedSeq(Endpoint, MaxEndpoints)

(* device_manager_update with a device read from JSON, which carries no     *)
(* active flag.                                                            *)
UpdateDevice(a, x, eps) ==
    devices' = Update(devices, [NewEntry(a, x) EXCEPT !.active = FALSE, !.eps = eps])

RuntimeNext ==
    \/ \E a \in Short, x \in Ieee : AddDevice(a, x)
    \/ \E a \in Short : RemoveDevice(a)
    \/ \E a \in Short : TouchDevice(a)
    \/ \E a \in Short, c \in Cfg : SetReportConfig(a, c)

LoadNext ==
    \/ \E a \in Short, x \in Ieee : AddNewDevice(a, x)
    \/ \E a \in Short, x \in Ieee, eps \in LoadedEps : UpdateDevice(a, x, eps)

ManagerNext == RuntimeNext \/ LoadNext

--------------------------------------------------------------------------------
(* What the stack and the user do while nothing is being loaded.           *)
RuntimeSpec == TableInit /\ [][RuntimeNext]_devices
(* Every caller of the device manager.                                     *)
ManagerSpec == TableInit /\ [][ManagerNext]_devices

--------------------------------------------------------------------------------
(* A device has one entry, however often it re-joins under another address  *)
(* and whatever is removed meanwhile: device_manager_add looks the IEEE      *)
(* address up before it creates (device_manager.c:74).                       *)
OneEntryPerIeee ==
    \A i, j \in DOMAIN devices : devices[i].ieee = devices[j].ieee => i = j

(* No entry lists an endpoint number twice, however many files and           *)
(* interviews were merged into it (device_manager.c:173-184).                *)
EndpointsDistinct ==
    \A i \in DOMAIN devices : IsInjective([n \in DOMAIN devices[i].eps |-> devices[i].eps[n].id])

(* Merging a file into the table loses no endpoint an interview had found,   *)
(* even when the entry has no room left (device_manager.c:172-184).          *)
EpIds(e) == {e.eps[n].id : n \in DOMAIN e.eps}
UpdateLosesNoEndpoint ==
    [][\A a \in Short, x \in Ieee, eps \in LoadedEps :
         UpdateDevice(a, x, eps) =>
            \A i \in DOMAIN devices : EpIds(devices[i]) \subseteq EpIds(devices'[i])
      ]_devices

(* A call that names address a makes the gateway forget no device but the    *)
(* first one that held a; every other device stays known, in its order.      *)
ForgetsOnlyTheClaimed ==
    [][\A a \in Short :
         (RemoveDevice(a) \/ \E x \in Ieee : AddDevice(a, x)) =>
            \A i \in DOMAIN devices :
               devices[i].ieee \notin Ieees(devices') => i = IndexOfShort(devices, a)
      ]_devices

(* A device that re-joins under an address no earlier entry holds gets that  *)
(* address and disturbs nobody: the others keep address, endpoints and       *)
(* configurations, and only a later entry with that address is dropped.      *)
RejoinDisturbsNobody ==
    [][\A a \in Short, x \in Ieee :
         LET i == IndexOfIeee(devices, x)
             c == IndexOfShort(devices, a)
         IN  AddDevice(a, x) /\ i # 0 /\ (c = 0 \/ c >= i) =>
               /\ i \in DOMAIN devices'
               /\ devices'[i] = [devices[i] EXCEPT !.short = a, !.active = TRUE]
               /\ \A j \in DOMAIN devices \ {i, c} :
                     devices[j] \in ToSet(devices')
      ]_devices

(* "This should now reliably get the device, even if it re-joined"           *)
(* (mod_zig_handlers.c:519): after a known device announced an address, the  *)
(* look-up by that address finds that device.                                *)
RejoinedDeviceIsFound ==
    [][\A a \in Short, x \in Ieees(devices) :
         AddDevice(a, x) => LET c == IndexOfShort(devices', a)
                            IN  c # 0 /\ devices'[c].ieee = x
      ]_devices
================================================================================
