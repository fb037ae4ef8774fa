----------------------------- MODULE DeviceStorage -----------------------------
(***************************************************************************)
(* Devices on their way to flash and back (device_storage.c and the storage *)
(* callback of py/zig_storage.py), beside the calls of the device manager.  *)
(* The Zigbee task changes the table and then asks for a save; a save is a *)
(* job in MicroPython's scheduler; the Python thread, on the other core,   *)
(* looks the device up, copies it into JSON and writes the file.  After a  *)
(* restart the same scheduler runs the loading of all files, one per job,   *)
(* while the stack already runs and devices already join.                  *)
(***************************************************************************)
EXTENDS DeviceManager

CONSTANTS
    Coordinator,      \* the network address 0x0000
    NoIeee,           \* the all-zero hardware address of a cleared slot
    SaveQueueSize,    \* SAVE_EVENT_QUEUE_SIZE, 10 in the code
    SchedDepth,       \* MICROPY_SCHEDULER_DEPTH of the MicroPython port
    Retries,          \* MAX_SCHEDULE_RETRIES, 5 in the code
    MaxRestarts,      \* bound: restarts in a behaviour
    NoFile, Corrupt,  \* what a file name may stand for beside a device
    StorageFails,     \* may a file operation fail?
    MemoryFails,      \* may a memory allocation fail?
    LookupRaces       \* may the table change between the look-up and the copy?

ASSUME StorageAssumption ==
    /\ Coordinator \in Short /\ NoIeee \in Ieee
    /\ SaveQueueSize \in Nat \ {0} /\ SchedDepth \in Nat \ {0}
    /\ Retries \in Nat \ {0} /\ MaxRestarts \in Nat
    /\ {StorageFails, MemoryFails, LookupRaces} \subseteq BOOLEAN

VARIABLES
    asks,        \* the address the Zigbee task is about to ask a save for
    saveQueue,   \* save_event_queue: which addresses it holds
    sched,       \* MicroPython's queue of scheduled jobs
    files,       \* what each file name <short>.json holds
    py,          \* what the Python thread has in hand
    load,        \* load_all_ctx_t, how the loading ended and, as history, the
                 \* names it went past without adding their devices
    unsaved,     \* history: addresses whose last save was refused or failed
    shared,      \* history: addresses two entries held since their last save
    left,        \* history: hardware addresses that left the table
    restarts     \* history: restarts so far

vars == <<devices, asks, saveQueue, sched, files, py, load, unsaved, shared, left, restarts>>
tableVars == <<devices, shared, left>>
requestVars == <<saveQueue, sched, unsaved>>

Saved == [short : Short, ieee : Ieee, eps : Seq(Endpoint)]
File  == Saved \cup {NoFile, Corrupt}
Job   == ({"save", "remove"} \X Short) \cup {<<"load">>}

(* device_to_json and device_from_json.  Report configurations are written and *)
(* read, too, but device_manager_update drops what was read of them.          *)
ToJson(e)   == [short |-> e.short, ieee |-> e.ieee, eps |-> e.eps]
FromJson(c) == [NewEntry(c.short, c.ieee) EXCEPT !.active = FALSE, !.eps = c.eps]

(* What a copy through a pointer past the table's end reads.               *)
ClearedSlot == [NewEntry(Coordinator, NoIeee) EXCEPT !.active = FALSE]
Slot(t, i) == IF i \in DOMAIN t THEN t[i] ELSE ClearedSlot

Idle == [do |-> "main"]

TypeOK ==
    /\ TableOK
    /\ asks \in SUBSET Short
    /\ saveQueue \in SUBSET Short /\ Cardinality(saveQueue) <= SaveQueueSize
    /\ sched \in Seq(Job) /\ Len(sched) <= SchedDepth
    /\ files \in [Short -> File]
    /\ py \in {Idle} \cup [do : {"save"}, name : Short, slot : 1..MaxDevices]
                     \cup [do : {"write"}, name : Short, content : Saved]
                     \cup [do : {"load", "load_all"}, got : File]
    /\ load \in [phase : {"off", "on", "complete", "dropped"}, fresh : BOOLEAN,
                 todo : Seq(Short), retry : 0..Retries, skipped : SUBSET Short]
    /\ unsaved \in SUBSET Short /\ shared \in SUBSET Short /\ left \in SUBSET Ieee
    /\ restarts \in 0..MaxRestarts

NoLoad    == [phase |-> "off", fresh |-> TRUE, todo |-> <<>>, retry |-> 0,
              skipped |-> {}]
FreshLoad == [NoLoad EXCEPT !.phase = "on"]

(* The gateway boots and schedules the loading of all files.               *)
Init ==
    /\ TableInit /\ asks = {} /\ saveQueue = {} /\ py = Idle
    /\ unsaved = {} /\ shared = {} /\ left = {}
    /\ sched = << <<"load">> >> /\ load = FreshLoad
    /\ files = [a \in Short |-> NoFile] /\ restarts = 0

(* Mutant: the test of the scheduler's depth is off by one.                 *)
RoomForOneMore(s) == Len(s) <= SchedDepth

Room(s) == Len(s) < SchedDepth

(* Mutant: no job is scheduled when the address was in the save queue        *)
(* already.                                                                *)
RequestSaveOnce(a) ==
    LET queued == a \in saveQueue \/ Cardinality(saveQueue) < SaveQueueSize
        refused == ~ queued \/ ~ Room(sched)
    IN  IF ~ Known(devices, a) THEN UNCHANGED requestVars
        ELSE /\ saveQueue' = IF queued THEN saveQueue \cup {a} ELSE saveQueue
             /\ sched' = IF refused \/ a \in saveQueue THEN sched
                         ELSE Append(sched, <<"save", a>>)
             /\ unsaved' = IF refused THEN unsaved \cup {a} ELSE unsaved

(* device_storage_save: an unknown device is an error; an address not yet   *)
(* in the save queue needs room there; the job needs room in the scheduler. *)
(* Nothing ever takes the address out of the save queue again.              *)
RequestSave(a) ==
    LET queued == a \in saveQueue \/ Cardinality(saveQueue) < SaveQueueSize
        refused == ~ queued \/ ~ Room(sched)
    IN  IF ~ Known(devices, a) THEN UNCHANGED requestVars
        ELSE /\ saveQueue' = IF queued THEN saveQueue \cup {a} ELSE saveQueue
             /\ sched' = IF refused THEN sched ELSE Append(sched, <<"save", a>>)
             /\ unsaved' = IF refused THEN unsaved \cup {a} ELSE unsaved

(* The history of a step that adds, drops or renames entries.              *)
Twice(t) == {a \in Short : \E i, j \in DOMAIN t : i # j /\ t[i].short = a /\ t[j].short = a}
Remember ==
    /\ shared' = shared \cup Twice(devices')
    /\ left' = left \cup (Ieees(devices) \ Ieees(devices'))

--------------------------------------------------------------------------------
(* The Zigbee task.  It runs on its own core: whatever Python does, and     *)
(* between a change of the table and the request to save it Python may act. *)

MayChange == asks = {} /\ (~ LookupRaces => py.do # "save")

(* device_manager_add.  A device displaced by a re-join has its file        *)
(* removed and then leaves the table; the announced device is to be saved.  *)
Join(a, x) ==
    LET i == IndexOfIeee(devices, x)
        displaces == i # 0 /\ devices[i].short # a /\ Known(devices, a)
    IN  /\ MayChange
        /\ AddDevice(a, x)
        /\ asks' = IF AddFails(devices, x) THEN {} ELSE {a}
        /\ sched' = IF displaces /\ Room(sched) THEN Append(sched, <<"remove", a>>) ELSE sched
        /\ Remember
        /\ UNCHANGED <<saveQueue, files, py, load, unsaved, restarts>>

(* A signal or a read response of a known device.                          *)
Seen(a) ==
    /\ MayChange /\ Known(devices, a)
    /\ TouchDevice(a)
    /\ asks' = {a}
    /\ Remember
    /\ UNCHANGED <<requestVars, files, py, load, restarts>>

(* active_ep_cb lists an endpoint the entry does not have.  No save is asked *)
(* for; the description that is asked for next brings one, if it comes.      *)
Listed(a, n) ==
    LET i == IndexOfShort(devices, a)
    IN  /\ MayChange /\ i # 0
        /\ Len(devices[i].eps) < MaxEndpoints /\ IndexOfEp(devices[i].eps, n) = 0
        /\ devices' = [devices EXCEPT ![i].eps = Append(@, [id |-> n, clusters |-> {}])]
        /\ Remember
        /\ UNCHANGED <<asks, requestVars, files, py, load, restarts>>

(* simple_desc_req_cb describes endpoint k of the list.  Without memory for  *)
(* the read requests it returns before it asks for the save.  (Answers that  *)
(* come for an entry of an earlier life of the device are in Interview.)     *)
Described(a, k, cs) ==
    LET i == IndexOfShort(devices, a)
    IN  /\ MayChange /\ i # 0 /\ k \in DOMAIN devices[i].eps
        /\ devices' = [devices EXCEPT ![i].eps[k].clusters = cs]
        /\ \/ asks' = {a} /\ UNCHANGED unsaved
           \/ MemoryFails /\ unsaved' = unsaved \cup {a} /\ UNCHANGED asks
        /\ Remember
        /\ UNCHANGED <<saveQueue, sched, files, py, load, restarts>>

(* The end of the calls above.                                             *)
AskSave(a) ==
    /\ a \in asks
    /\ asks' = asks \ {a}
    /\ RequestSave(a)
    /\ UNCHANGED <<tableVars, files, py, load, restarts>>

--------------------------------------------------------------------------------
(* The user's program, in the Python thread between two jobs.              *)

SaveDevice(a) ==
    /\ py = Idle
    /\ RequestSave(a)
    /\ UNCHANGED <<tableVars, asks, files, py, load, restarts>>

ProgramRemoves(a) ==
    /\ py = Idle /\ Known(devices, a)
    /\ RemoveDevice(a)
    /\ Remember
    /\ UNCHANGED <<asks, requestVars, files, py, load, restarts>>

(* What the storage callback's "load" may return for a name.  Where storage *)
(* fails, NoFile stands for a file that cannot be read and for JSON that    *)
(* holds no device.                                                        *)
Readable(a) == {files[a]} \cup IF StorageFails THEN {NoFile} ELSE {}

LoadDevice(a) ==
    /\ py = Idle
    /\ \E c \in Readable(a) : py' = [do |-> "load", got |-> c]
    /\ UNCHANGED <<tableVars, asks, requestVars, files, load, restarts>>

(* The file is merged into the device's entry, if it has one.              *)
FinishLoadDevice ==
    /\ py.do = "load"
    /\ devices' = IF py.got \in {NoFile, Corrupt} THEN devices
                  ELSE Update(devices, FromJson(py.got))
    /\ py' = Idle
    /\ Remember
    /\ UNCHANGED <<asks, requestVars, files, load, restarts>>

--------------------------------------------------------------------------------
(* The jobs.                                                               *)

Starts(job) == py = Idle /\ sched # <<>> /\ Head(sched) = job /\ sched' = Tail(sched)

(* do_device_save_handler looks the device up ...                          *)
RunSave(a) ==
    /\ Starts(<<"save", a>>)
    /\ py' = IF Known(devices, a)
             THEN [do |-> "save", name |-> a, slot |-> IndexOfShort(devices, a)]
             ELSE Idle
    /\ UNCHANGED <<tableVars, asks, saveQueue, files, load, unsaved, restarts>>

(* ... copies what the pointer points to by now ...                        *)
CopyToJson ==
    /\ py.do = "save"
    /\ py' = [do |-> "write", name |-> py.name,
              content |-> ToJson(Slot(devices, py.slot))]
    /\ unsaved' = unsaved \ {py.name}
    /\ shared' = shared \ ({py.name} \ Twice(devices))
    /\ UNCHANGED <<devices, left, asks, saveQueue, sched, files, load, restarts>>

(* ... and has Python write the file, the outcome of which it only logs.    *)
(* A failing write leaves the old file or a part of the new one; without     *)
(* memory for the JSON the handler leaves before the write.                 *)
WriteFile ==
    /\ py.do = "write"
    /\ \/ files' = [files EXCEPT ![py.name] = py.content] /\ UNCHANGED unsaved
       \/ MemoryFails /\ UNCHANGED files /\ unsaved' = unsaved \cup {py.name}
       \/ /\ StorageFails
          /\ \E c \in {files[py.name], Corrupt} : files' = [files EXCEPT ![py.name] = c]
          /\ unsaved' = unsaved \cup {py.name}
    /\ py' = Idle
    /\ UNCHANGED <<tableVars, asks, saveQueue, sched, load, restarts>>

(* The storage callback knows no "remove" and returns None.                *)
RunRemove(a) ==
    /\ Starts(<<"remove", a>>)
    /\ UNCHANGED <<tableVars, asks, saveQueue, files, py, load, unsaved, restarts>>

(* The file names "list" returns, in any order.  A file whose status cannot *)
(* be read is left out, and so are all when the directory cannot be read.   *)
Stored == {a \in Short : files[a] # NoFile}
Listings == UNION {SetToSeqs(names) : names \in IF StorageFails THEN SUBSET Stored ELSE {Stored}}

(* do_load_all_handler: the first run lists the files, each run reads one.  *)
(* With an empty list the loading ends unannounced.  The list lives in      *)
(* memory the collector does not see: where storage may fail, a name on it  *)
(* may be garbage by the time it is used.                                   *)
RunLoadAll ==
    /\ Starts(<<"load">>)
    /\ \E names \in (IF load.fresh THEN Listings ELSE {load.todo}) :
          IF names = <<>> THEN load' = [load EXCEPT !.phase = "dropped"] /\ UNCHANGED py
          ELSE /\ load' = [load EXCEPT !.fresh = FALSE, !.todo = names,
                              !.skipped = IF load.fresh THEN Stored \ ToSet(names) ELSE @]
               /\ \E c \in Readable(Head(names)) \cup
                            IF StorageFails /\ ~ load.fresh THEN {Corrupt} ELSE {} :
                     py' = [do |-> "load_all", got |-> c]
    /\ UNCHANGED <<tableVars, asks, saveQueue, files, unsaved, restarts>>

(* Mutant: the entry is updated only, as device_storage_load does.          *)
MergeByUpdate(t, c) == Update(t, FromJson(c))

(* An entry is created without looking for one, then updated.              *)
MergeLoaded(t, c) == Update(Create(t, c.short, c.ieee), FromJson(c))

(* Mutant: a failed read is tried again without counting the attempt.       *)
AfterReadForever(got) ==
    IF got = NoFile THEN [load EXCEPT !.retry = 1]
    ELSE [load EXCEPT !.todo = Tail(@), !.retry = 0]

(* The context after a file was read: a failed read is tried again, a       *)
(* limited number of times.  Beside such a name, the handler goes past one  *)
(* it cannot parse and one whose device finds neither room nor an entry of  *)
(* its address.                                                            *)
AfterRead(got) ==
    LET fits == Len(devices) < MaxDevices \/ Known(devices, got.short)
        given == IF got \notin {NoFile, Corrupt} /\ fits THEN {} ELSE {Head(load.todo)}
    IN  IF got = NoFile /\ load.retry + 1 < Retries THEN [load EXCEPT !.retry = @ + 1]
        ELSE [load EXCEPT !.todo = Tail(@), !.retry = 0, !.skipped = @ \cup given]

(* The handler merges what it read and schedules itself, if there is room,  *)
(* until no file is left.                                                   *)
FinishLoadAll ==
    /\ py.do = "load_all"
    /\ devices' = IF py.got \in {NoFile, Corrupt} THEN devices ELSE MergeLoaded(devices, py.got)
    /\ LET next == AfterRead(py.got)
       IN  IF next.todo = <<>> THEN load' = [next EXCEPT !.phase = "complete"] /\ UNCHANGED sched
           ELSE IF Room(sched) THEN load' = next /\ sched' = Append(sched, <<"load">>)
           ELSE load' = [next EXCEPT !.phase = "dropped"] /\ UNCHANGED sched
    /\ py' = Idle
    /\ Remember
    /\ UNCHANGED <<asks, saveQueue, files, unsaved, restarts>>

--------------------------------------------------------------------------------
(* Power is lost; a file being written keeps its old content, is cut short  *)
(* or is complete.                                                          *)
Restart ==
    /\ restarts < MaxRestarts
    /\ restarts' = restarts + 1
    /\ IF py.do = "write"
       THEN \E c \in {files[py.name], Corrupt, py.content} :
               files' = [files EXCEPT ![py.name] = c]
       ELSE UNCHANGED files
    /\ devices' = <<>> /\ asks' = {} /\ saveQueue' = {} /\ py' = Idle
    /\ unsaved' = {} /\ shared' = {} /\ left' = {}
    /\ sched' = << <<"load">> >> /\ load' = FreshLoad

ZigbeeTask ==
    \/ \E a \in Short, x \in Ieee \ {NoIeee} : Join(a, x)
    \/ \E a \in Short : Seen(a) \/ AskSave(a)
    \/ \E a \in Short, n \in EpId : Listed(a, n)
    \/ \E a \in Short, k \in 1..MaxEndpoints, cs \in SUBSET Cluster : Described(a, k, cs)

Program == \E a \in Short : SaveDevice(a) \/ ProgramRemoves(a) \/ LoadDevice(a)

StartJob == RunLoadAll \/ \E a \in Short : RunSave(a) \/ RunRemove(a)

FinishJob == CopyToJson \/ WriteFile \/ FinishLoadAll \/ FinishLoadDevice

Next == ZigbeeTask \/ Program \/ StartJob \/ FinishJob \/ Restart

Spec == Init /\ [][Next]_vars

(* The interpreter looks for a pending job between the instructions of the   *)
(* program, so the program cannot keep it from one for ever; what Python      *)
(* began it finishes.                                                        *)
FairSpec == Spec /\ SF_vars(StartJob) /\ WF_vars(FinishJob)

--------------------------------------------------------------------------------
IsDevice(c) == c \notin {NoFile, Corrupt}

(* A file tells what is known of a device: its addresses and the endpoints   *)
(* that were described.  One that is only listed may be missing: active_ep_cb *)
(* asks for no save.                                                         *)
DescribedEps(e) == {q \in ToSet(e.eps) : q.clusters # {}}
Tells(c, e) == /\ IsDevice(c)
               /\ c.short = e.short /\ c.ieee = e.ieee
               /\ DescribedEps(c) = DescribedEps(e)

(* A save of a that will still read, or has already read, the entry e.      *)
SavePending(a, e) ==
    \/ a \in asks
    \/ <<"save", a>> \in ToSet(sched)
    \/ py.do = "save" /\ py.name = a
    \/ py.do = "write" /\ py.name = a /\ Tells(py.content, e)

(* No change of a device is lost silently, while files are being loaded, too: *)
(* the file of every known address tells what the table holds, or a save that *)
(* will write just that is under way, or the last save of that address was    *)
(* refused or failed (an error the callers log).  A save copied before a      *)
(* change never counts for the change.  Excepted is an address that two       *)
(* entries held since its last save: only the first of them is ever written.  *)
FilesTellTheTable ==
    \A a \in Shorts(devices) \ shared :
        LET e == devices[IndexOfShort(devices, a)]
        IN  Tells(files[a], e) \/ SavePending(a, e) \/ a \in unsaved

(* Whatever addresses collide, no known device is without any record on its  *)
(* way to flash, unless a save was refused or failed.                        *)
NoSilentLoss ==
    \A a \in Shorts(devices) :
        \/ IsDevice(files[a]) /\ files[a].short = a
        \/ a \in asks
        \/ <<"save", a>> \in ToSet(sched)
        \/ py.do \in {"save", "write"} /\ py.name = a
        \/ a \in unsaved

(* A restart brings back every device that has a file, whatever joins, leaves *)
(* or is saved meanwhile: when the loading completes, the table knows each of *)
(* them, or it left the table since, or the loading went past its file        *)
(* because that could not be listed, read, parsed or added.                   *)
LoadBringsBackEveryFile ==
    [][load.phase = "on" /\ load'.phase = "complete" =>
         \A a \in Short : IsDevice(files[a]) =>
            \/ files[a].ieee \in Ieees(devices') \cup left' \cup {NoIeee}
            \/ a \in load'.skipped
      ]_vars

(* Loading all files comes to an end: read errors are retried a bounded      *)
(* number of times and a full scheduler stops it (it may stop short).        *)
LoadEnds == load.phase = "on" ~> load.phase # "on"

--------------------------------------------------------------------------------
(* Statements of the repository the runs refute.                           *)

(* "Each device is saved in a separate JSON file" (doc/device_storage.md:5): *)
(* when no request and no job is left, every known device has its file.       *)
EachDeviceIsSaved ==
    asks = {} /\ sched = <<>> /\ py = Idle =>
        \A a \in Shorts(devices) : IsDevice(files[a])

(* "... named [short_addr].json, where short_addr is the device's short      *)
(* address" (doc/device_storage.md:5): a file holds the device of its name.  *)
FilesNameTheirDevice == \A a \in Short : IsDevice(files[a]) => files[a].short = a

(* "Deletes [short_addr].json file for specified device"                     *)
(* (device_storage.h:48): a removal job leaves no file of that name.         *)
RemoveDeletesTheFile ==
    [][\A a \in Short : RunRemove(a) => files'[a] = NoFile]_vars

(* "add or update a device" (device_manager.h:27): merging a file gives the  *)
(* device one entry.                                                         *)
LoadAddsOrUpdates == \A i, j \in DOMAIN devices : devices[i].ieee = devices[j].ieee => i = j

(* "sequentially loads each device" (device_storage.h:37): the loading does  *)
(* not stop while there are files left to read.                              *)
EachFileIsLoaded == load.phase = "dropped" => load.todo = <<>>
================================================================================
