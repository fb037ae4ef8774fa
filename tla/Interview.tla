------------------------------- MODULE Interview -------------------------------
(***************************************************************************)
(* The interview of a device (mod_zig_handlers.c): its announcement makes  *)
(* the gateway ask for its active endpoints, the answer for a description  *)
(* of each endpoint, the description for a binding of each cluster the     *)
(* program configured, the binding for the configuration of its reports.   *)
(* Each answer comes in a callback of its own, in any order, or never; in  *)
(* between devices announce themselves again, elsewhere or anew, and the   *)
(* program removes and configures devices (mod_zig_cmd.c).  A callback      *)
(* finds the device by the network address it was given, and the endpoint's  *)
(* record by the array index it was given, when the request was sent.       *)
(* What a description or an announcement changes is saved by a job of the     *)
(* Python thread, if there is room to ask for one; the job may fail.  Here it   *)
(* is one step, its own steps and the queues are in DeviceStorage.           *)
(* Addresses do not collide here: DeviceTable is about those that do.       *)
(***************************************************************************)
EXTENDS DeviceJson, SequencesExt

CONSTANTS
    Short,          \* network addresses
    Device,         \* physical devices
    EpId, Cluster,  \* endpoint numbers and cluster ids
    Absent,         \* no device has the address
    Homes,          \* which device may take which address, a subset of Short \X Device
    Endpoints,      \* external: the endpoints each device reports
    Clusters,       \* external: the input clusters of each endpoint of each device
    BasicOrPower,   \* the clusters whose attributes are read at once
    MaxCfgs,        \* MAX_REPORT_CFGS, 16 in the code
    MaxAnnounced,   \* bound: announcements in a behaviour
    MaxCalls,       \* bound: calls of the program in a behaviour
    MaxEvents       \* bound: announcements and calls together

ASSUME InterviewAssumption ==
    /\ Homes \subseteq Short \X Device
    /\ Endpoints \in [Device -> Seq(EpId)]
    /\ Clusters \in [Device -> [EpId -> SUBSET Cluster]]
    /\ BasicOrPower \subseteq Cluster
    /\ MaxCfgs \in Nat \ {0} /\ {MaxAnnounced, MaxCalls, MaxEvents} \subseteq Nat

VARIABLES
    dev,        \* the device manager's entry of each address
    requests,   \* requests whose callbacks are still to come
    saves,      \* addresses whose save is asked for and not yet run
    file,       \* the JSON on flash under each address, if it can be read
    unsaved,    \* history: addresses whose last save was refused or failed
    reported,   \* history: reports configured since the last announcement
    announced,  \* history: announcements so far
    calls,      \* history: calls of the program so far
    lost,       \* history: addresses a request was lost for, or a description
                \* given up, since the last announcement
    due         \* history: reports to be configured by the interview last begun

history == <<announced, calls, lost, due>>
storage == <<saves, file, unsaved>>
vars == <<dev, requests, storage, reported, history>>

(* endpoints[] is an array: what lies past the count is memory that keeps     *)
(* what was written there.                                                  *)
EpSlot == [ep : EpId \cup {0}, clusters : SUBSET Cluster]
CfgState == {"complete", "unfinished", "undirected"}
Cfg    == [ep : EpId, cl : Cluster, state : CfgState]
Entry  == [device : Device, count : 0..MaxEndpoints,
           slots : [1..MaxEndpoints -> EpSlot], cfgs : Seq(Cfg)]
Request ==
    [kind : {"active"}, addr : Short, to : Device]
      \cup [kind : {"simple"}, addr : Short, to : Device, ep : EpId, index : 1..MaxEndpoints]
      \cup [kind : {"bind"}, addr : Short, to : Device, ep : EpId, cl : Cluster]

(* What the JSON on flash holds.                                           *)
Saved == [device : Device, endpoints : Seq(EpSlot), reports : Seq(Cfg)]

ASSUME AbsentAssumption == Absent \notin Entry \cup Saved

TypeOK ==
    /\ dev \in [Short -> Entry \cup {Absent}]
    /\ \A a \in Short : dev[a] # Absent => Len(dev[a].cfgs) <= MaxCfgs
    /\ requests \subseteq Request
    /\ saves \subseteq Short /\ unsaved \subseteq Short
    /\ \A a \in Short : file[a] # Absent => FromJson(file[a]) \in Entry
    /\ reported \subseteq Short \X EpId \X Cluster
    /\ announced \in 0..MaxAnnounced /\ calls \in 0..MaxCalls
    /\ lost \subseteq Short /\ due \subseteq Short \X EpId \X Cluster

NewDevice(p) ==
    [device |-> p, count |-> 0, cfgs |-> <<>>,
     slots |-> [i \in 1..MaxEndpoints |-> NoEndpoint]]

Init ==
    /\ dev = [a \in Short |-> Absent]
    /\ requests = {} /\ reported = {}
    /\ saves = {} /\ file = [a \in Short |-> Absent] /\ unsaved = {}
    /\ announced = 0 /\ calls = 0 /\ lost = {} /\ due = {}

Known(a) == dev[a] # Absent

(* device_storage_save: there is room for the address and its job, or not.    *)
(* One member of saves stands for every job of its address.                 *)
AskSave(a) ==
    \/ saves' = saves \cup {a} /\ UNCHANGED unsaved
    \/ unsaved' = unsaved \cup {a} /\ UNCHANGED saves

(* Clusters bind_cb can configure the reports of: the direction is known.     *)
Reportable(e, ep) == {c.cl : c \in {d \in ToSet(e.cfgs) : d.ep = ep /\ d.state # "undirected"}}

--------------------------------------------------------------------------------
(* A device announces itself, or is heard of for the first time through a    *)
(* device update signal.  A device known elsewhere moves here with all that   *)
(* is known of it, and whoever was here is forgotten.                        *)
Announce(a, p) ==
    LET from == {b \in Short : Known(b) /\ dev[b].device = p}
        entry == IF from = {} THEN NewDevice(p) ELSE dev[CHOOSE b \in from : TRUE]
    IN  /\ announced < MaxAnnounced /\ announced + calls < MaxEvents
        /\ <<a, p>> \in Homes
        /\ from # {} \/ ~ Known(a)
        /\ announced' = announced + 1 /\ lost' = lost \ {a}
        /\ due' = {t \in due : t[1] \notin from \cup {a}} \cup
                  UNION {{<<a, ep, cl>> : cl \in Clusters[p][ep] \cap Reportable(entry, ep)} :
                            ep \in ToSet(Endpoints[p])}
        /\ reported' = {t \in reported : t[1] \notin from \cup {a}}
        /\ dev' = [b \in Short |-> IF b = a THEN entry
                                   ELSE IF b \in from THEN Absent ELSE dev[b]]
        /\ requests' = requests \cup {[kind |-> "active", addr |-> a, to |-> p]}
        /\ AskSave(a)
        /\ UNCHANGED <<calls, file>>

--------------------------------------------------------------------------------
(* Callbacks.                                                              *)

(* Mutant: the endpoint is looked for from the second record on.             *)
IndexOfEpFromSecond(e, ep) == {i \in 2..e.count : e.slots[i].ep = ep}

IndexOfEp(e, ep) == {i \in 1..e.count : e.slots[i].ep = ep}

(* Mutants of the round below: an endpoint it knows is not asked again; the     *)
(* request carries the index of the last record.                           *)
ListOnlyNewEndpoint(so, ep) ==
    LET i == so.entry.count + 1
    IN  IF i > MaxEndpoints \/ IndexOfEp(so.entry, ep) # {} THEN so
        ELSE [entry |-> [so.entry EXCEPT !.count = i, !.slots[i].ep = ep],
              asked |-> so.asked \cup {<<ep, i>>}]

ListAtLastIndex(so, ep) ==
    LET n == so.entry.count + (IF IndexOfEp(so.entry, ep) = {} THEN 1 ELSE 0)
    IN  IF so.entry.count >= MaxEndpoints THEN so
        ELSE [entry |-> IF n = so.entry.count THEN so.entry
                        ELSE [so.entry EXCEPT !.count = n, !.slots[n].ep = ep],
              asked |-> so.asked \cup {<<ep, n>>}]

(* A round of the loop of active_ep_cb: the endpoint gets a record, if it has   *)
(* none, and its description is asked for; the rounds do nothing once the array *)
(* is full.  The rest of a new record is left as it is.                      *)
ListEndpoint(so, ep) ==
    LET known == IndexOfEp(so.entry, ep)
        i == IF known # {} THEN CHOOSE k \in known : TRUE ELSE so.entry.count + 1
    IN  IF so.entry.count >= MaxEndpoints THEN so
        ELSE [entry |-> [so.entry EXCEPT
                            !.count = IF known # {} THEN so.entry.count ELSE i,
                            !.slots[i].ep = ep],
              asked |-> so.asked \cup {<<ep, i>>}]

(* The entry after the endpoints the device reports, and the endpoints whose    *)
(* descriptions were asked for, each with its index.                         *)
ListEndpoints(p, e) ==
    LET listed[n \in 0..Len(Endpoints[p])] ==
            IF n = 0 THEN [entry |-> e, asked |-> {}]
            ELSE ListEndpoint(listed[n - 1], Endpoints[p][n])
    IN  listed[Len(Endpoints[p])]

(* active_ep_cb                                                            *)
ActiveEndpoints(r) ==
    /\ r \in requests /\ r.kind = "active"
    /\ IF Known(r.addr)
       THEN LET listed == ListEndpoints(r.to, dev[r.addr])
            IN  /\ dev' = [dev EXCEPT ![r.addr] = listed.entry]
                /\ requests' = (requests \ {r}) \cup
                       {[kind |-> "simple", addr |-> r.addr, to |-> r.to,
                         ep |-> q[1], index |-> q[2]] : q \in listed.asked}
       ELSE requests' = requests \ {r} /\ UNCHANGED dev
    /\ UNCHANGED <<storage, reported, history>>

(* Mutant: the first configuration is passed over.                         *)
ConfiguredButFirst(e, ep) ==
    {e.cfgs[i].cl : i \in {k \in DOMAIN e.cfgs : k > 1 /\ e.cfgs[k].ep = ep}}

Configured(e, ep) == {e.cfgs[i].cl : i \in {k \in DOMAIN e.cfgs : e.cfgs[k].ep = ep}}

(* Mutant: the device is saved once its last endpoint is described.           *)
SimpleDescriptorSavesLast(r) ==
    /\ r \in requests /\ r.kind = "simple"
    /\ IF Known(r.addr)
       THEN LET described == Clusters[r.to][r.ep]
                e == [dev[r.addr] EXCEPT !.slots[r.index].clusters = described]
            IN  /\ dev' = [dev EXCEPT ![r.addr] = e]
                /\ requests' = (requests \ {r}) \cup
                       {[kind |-> "bind", addr |-> r.addr, to |-> e.device,
                         ep |-> r.ep, cl |-> c] : c \in described \cap Configured(e, r.ep)}
                /\ IF r.index = e.count THEN AskSave(r.addr) ELSE UNCHANGED <<saves, unsaved>>
       ELSE requests' = requests \ {r} /\ UNCHANGED <<dev, saves, unsaved>>
    /\ UNCHANGED <<file, reported, history>>

(* simple_desc_req_cb writes the record at the index of the request, binds    *)
(* the described clusters that are configured and asks for a save.  It gives   *)
(* up before that without memory for the read requests it makes of some.      *)
SimpleDescriptor(r) ==
    /\ r \in requests /\ r.kind = "simple"
    /\ IF Known(r.addr)
       THEN LET described == Clusters[r.to][r.ep]
                e == [dev[r.addr] EXCEPT !.slots[r.index].clusters = described]
            IN  /\ dev' = [dev EXCEPT ![r.addr] = e]
                /\ \/ /\ requests' = (requests \ {r}) \cup
                              {[kind |-> "bind", addr |-> r.addr, to |-> e.device,
                                ep |-> r.ep, cl |-> c] : c \in described \cap Configured(e, r.ep)}
                      /\ AskSave(r.addr) /\ UNCHANGED lost
                   \/ /\ described \cap BasicOrPower # {}
                      /\ requests' = requests \ {r} /\ lost' = lost \cup {r.addr}
                      /\ UNCHANGED <<saves, unsaved>>
       ELSE requests' = requests \ {r} /\ UNCHANGED <<dev, saves, unsaved, lost>>
    /\ UNCHANGED <<file, reported, announced, calls, due>>

(* bind_cb configures the reports of every configuration of the cluster but    *)
(* those with a direction it does not know.                                 *)
Bound(r) ==
    /\ r \in requests /\ r.kind = "bind"
    /\ requests' = requests \ {r}
    /\ reported' = IF Known(r.addr) /\ r.cl \in Reportable(dev[r.addr], r.ep)
                   THEN reported \cup {<<r.addr, r.ep, r.cl>>} ELSE reported
    /\ UNCHANGED <<dev, storage, history>>

(* The job of the Python thread that saves a device finds it by its address.   *)
(* When the file cannot be written, the old one stays or what is left cannot be *)
(* read; the handler only logs it.                                          *)
RunSave(a) ==
    /\ a \in saves
    /\ saves' = saves \ {a}
    /\ \/ Known(a) /\ file' = [file EXCEPT ![a] = ToJson(dev[a])] /\ unsaved' = unsaved \ {a}
       \/ /\ Known(a) /\ unsaved' = unsaved \cup {a}
          /\ \E left \in {file[a], Absent} : file' = [file EXCEPT ![a] = left]
       \/ ~ Known(a) /\ UNCHANGED <<file, unsaved>>
    /\ UNCHANGED <<dev, requests, reported, history>>

(* A request that fails or times out is only logged.                       *)
RequestFails(r) ==
    /\ r \in requests
    /\ requests' = requests \ {r}
    /\ lost' = lost \cup {r.addr}
    /\ UNCHANGED <<dev, storage, reported, announced, calls, due>>

--------------------------------------------------------------------------------
(* The program.                                                            *)

Called == calls < MaxCalls /\ announced + calls < MaxEvents /\ calls' = calls + 1

RemoveDevice(a) ==
    /\ Called /\ Known(a)
    /\ dev' = [dev EXCEPT ![a] = Absent]
    /\ reported' = {t \in reported : t[1] # a}
    /\ UNCHANGED <<requests, storage, announced, lost, due>>

(* Mutant: a full array of configurations is not noticed.                  *)
SetReportConfigAnyway(a, ep, cl, st) ==
    /\ Called /\ Known(a) /\ Len(dev[a].cfgs) <= MaxCfgs
    /\ dev' = [dev EXCEPT ![a].cfgs =
                  Append(@, [ep |-> ep, cl |-> cl, state |-> st])]
    /\ UNCHANGED <<requests, storage, reported, announced, lost, due>>

(* set_report_config takes the first free slot.  It marks the slot used and   *)
(* fills in endpoint, cluster and direction before it looks at the rest: when   *)
(* it raises for a missing argument (unfinished) or an unknown direction      *)
(* (undirected), the slot stays that way.  No call frees a slot.             *)
SetReportConfig(a, ep, cl, st) ==
    /\ Called /\ Known(a) /\ Len(dev[a].cfgs) < MaxCfgs
    /\ dev' = [dev EXCEPT ![a].cfgs =
                  Append(@, [ep |-> ep, cl |-> cl, state |-> st])]
    /\ UNCHANGED <<requests, storage, reported, announced, lost, due>>

BindCluster(a, ep, cl) ==
    /\ Called /\ Known(a)
    /\ requests' = requests \cup {[kind |-> "bind", addr |-> a, to |-> dev[a].device,
                                   ep |-> ep, cl |-> cl]}
    /\ UNCHANGED <<dev, storage, reported, announced, lost, due>>

--------------------------------------------------------------------------------
Answer == \E r \in requests : ActiveEndpoints(r) \/ SimpleDescriptor(r) \/ Bound(r)

Next ==
    \/ \E a \in Short, p \in Device : Announce(a, p)
    \/ Answer
    \/ \E r \in requests : RequestFails(r)
    \/ \E a \in Short : RunSave(a) \/ RemoveDevice(a)
    \/ \E a \in Short, ep \in EpId, cl \in Cluster :
          \/ BindCluster(a, ep, cl)
          \/ \E st \in CfgState : SetReportConfig(a, ep, cl, st)

Spec == Init /\ [][Next]_vars

--------------------------------------------------------------------------------
(* "Endpoint number", "List of supported clusters" (mod_zig_types.h:98,101):  *)
(* whatever order the answers of old and new interviews come in, the record   *)
(* of an endpoint never holds the clusters of another endpoint.              *)
DescriptionsFit ==
    \A a \in Short : Known(a) =>
        \A i \in 1..dev[a].count :
            dev[a].slots[i].clusters \in {{}, Clusters[dev[a].device][dev[a].slots[i].ep]}

(* The table of endpoints never lists an endpoint twice, however many         *)
(* interviews run into each other.                                          *)
EndpointsListedOnce ==
    \A a \in Short : Known(a) =>
        \A i, j \in 1..dev[a].count : dev[a].slots[i].ep = dev[a].slots[j].ep => i = j

Quiet(a) == Known(a) /\ a \notin lost /\ \A r \in requests : r.addr # a

(* When the answers are in and none was lost since the device announced       *)
(* itself, all its endpoints are described: answers of an older interview do   *)
(* not spoil the new one, and announcing itself again repairs what a lost      *)
(* answer or a move left undone.                                            *)
InterviewIsCompleted ==
    \A a \in Short : Quiet(a) =>
        \A ep \in ToSet(Endpoints[dev[a].device]) : \E i \in 1..dev[a].count :
            dev[a].slots[i] = [ep |-> ep, clusters |-> Clusters[dev[a].device][ep]]

(* By then everything that was configured before the announcement reports,     *)
(* although the configuration is looked up twice, when the description comes    *)
(* and when the binding does.                                               *)
ConfiguredIsReported ==
    \A a \in Short : Quiet(a) => {t \in due : t[1] = a} \subseteq reported

(* Each answer asks for a save of its own and nobody waits for the last one     *)
(* (mod_zig_handlers.c:401).  When the saves are done, too, and the last one     *)
(* was neither refused nor failed, what would be read back is the device with    *)
(* every endpoint as described, whatever order the answers came in, and with     *)
(* the configurations the interview was to serve.  An earlier save that was     *)
(* refused or failed is made good by a later one.                            *)
DescriptionsReachFlash ==
    \A a \in Short : Quiet(a) /\ a \notin saves \cup unsaved =>
        /\ file[a] # Absent
        /\ LET e == FromJson(file[a])
           IN  /\ e.device = dev[a].device /\ e.count = dev[a].count
               /\ \A i \in 1..e.count : e.slots[i] = dev[a].slots[i]
               /\ {t \in due : t[1] = a} \subseteq {<<a, c.ep, c.cl>> : c \in ToSet(e.cfgs)}

--------------------------------------------------------------------------------
(* Statements of the repository the runs refute.                           *)

(* "Save device after initialization of all endpoints and clusters"          *)
(* (mod_zig_handlers.c:399): what a description saves has them all.           *)
SavedWhenInitialized ==
    [][\A r \in requests : SimpleDescriptor(r) /\ Known(r.addr) =>
         \A i \in 1..dev'[r.addr].count : dev'[r.addr].slots[i].clusters # {}
      ]_vars

(* "Request Simple Descriptor in any case" (mod_zig_handlers.c:217): every    *)
(* endpoint an answer lists is asked for its description.                    *)
AskedInAnyCase ==
    [][\A r \in requests : ActiveEndpoints(r) /\ Known(r.addr) =>
         \A n \in DOMAIN Endpoints[r.to] : \E q \in requests' :
             q.kind = "simple" /\ q.addr = r.addr /\ q.ep = Endpoints[r.to][n]
      ]_vars

(* "attr_type is required for SEND direction" (mod_zig_cmd.c:474): no          *)
(* configuration in use lacks what is required.                              *)
ConfigsAreComplete ==
    \A a \in Short : Known(a) => \A i \in DOMAIN dev[a].cfgs : dev[a].cfgs[i].state = "complete"
================================================================================
