# A verification model of scrivo_zig

scrivo_zig is a MicroPython module, written in C on ESP-IDF, that turns an
ESP32 into a Zigbee gateway.  The Zigbee stack runs in tasks of its own on one
core, the Python interpreter on the other.  They share a device table, an event
queue, a queue of pending saves, a few flags and semaphores, and MicroPython's
scheduler, the only way for a C task to have Python code run.  Most of what can
go wrong lies between the two cores, so that is what the modules here describe.
Line references are to the repository (`device_manager.c:87` is
`src/src/device_manager.c`, line 87).

## The system

| Component | State | Operations | Meets | Hard part | Correct when |
|---|---|---|---|---|---|
| Device table (`device_manager.c`) | array of 32 entries and a count | add, add_new, remove, update, get, touch | called by signal handlers, the loader and Python; callers keep pointers into the array | removal shifts the array under pointers; addresses change hands; full array | one entry per device; look-ups find the device that announced itself; nobody else is disturbed |
| Event queue (`send_msg_to_micropython_queue`, `recv`, `on_msg`) | FreeRTOS queue of 32 messages, receive callback | send with drop-oldest, schedule callback, receive, drain | Zigbee task produces, Python consumes, scheduler in between | the drop races the receive; the scheduler may refuse; the handler may raise | FIFO, only old events lost, nothing stranded |
| Device storage (`device_storage.c`, `device_json.c`, `zig_storage.py`) | save queue of 10 addresses, load context, load semaphore, files | save, load, load_all, remove, as scheduled jobs | reads the table, calls Python | copy races change; refusals; failing flash; restart; loading competes with joins | no change lost silently; a restart brings the devices back; loading ends |
| Gateway start and network (`mod_zig_core.c`, `main.c`, `mod_zig_network.c`, signals) | commissioning semaphore, tasks, `network_formed` | init, start_network, commissioning task, signals, reset | Python waits for the task, the task for Python | timeouts, late tokens, failed initialisation, retries of forming | one main loop on a started stack; the flag is true; a network is formed |
| Interview and reporting (`mod_zig_handlers.c`, `mod_zig_cmd.c`) | endpoint records, report configurations, requests in flight | announce, active_ep_cb, simple_desc_req_cb, bind_cb, set_report_config, bind_cluster, remove_device | callbacks find the device again by address and array index | answers late, lost, or of an older interview | each description in its own record; configured reports configured |
| Attribute and command messages (`zb_action_handler`, `zb_raw_cmd_handler`) | the basic attributes of a device's entry | answers, reports, default responses, custom and raw commands to messages | fills the entry, asks for its save, feeds the event queue | attributes in several answers; lengths in eight bits | a named device is saved as it is; values survive the trip |
| JSON codec (`device_json.c`) | none | to_json, from_json | called by the save and load jobs | what is dropped, in what state the array is copied | what the interview described is read back |
| Python decoding (`zig_run.py`, sizes in `zcl_attr_type.c`) | none | on_msg, parse_attribute, parse_command_response, handle_raw_command | reads the event queue | sizes of fifty types from one expression; an exception ends the drain loop | a number shown is the whole value |
| Custom clusters, link quality, other generated tables and names | none that others read | | | | |

## The modules

`DeviceTable` holds the operators on the table, one for each function of
`device_manager.c`.  The array is a sequence, a pointer an index; an index used
after the array shifted reaches the entry the pointer would reach (`Rejoin`).
`DeviceManager` has the table as its variable and one action per call.  The calls
made while the gateway runs (`RuntimeNext`) are told from those of the JSON loader
(`LoadNext`), which creates without looking.  `MCDeviceManager` adds the symmetry;
`DeviceManagerProofs` has the proofs.

`MessageQueue` models the event queue at the grain of single FreeRTOS calls: the
Zigbee task offers an event, on a full queue takes out the oldest, offers it again
and schedules the callback, each a step; Python runs the callback and receives.  The
scheduler is a bounded queue of jobs that refuses when it is full.  `LossyFifo` is
the abstract queue it implements: enter, discard the oldest, take.  `MessageQueueProofs` has the proofs.

`SaveQueue` models the queue of pending saves at the grain of single FreeRTOS calls.
`queue_contains_device` (`device_storage.c:147-177`) takes every address out into a queue of
its own and sends them back before the caller pushes; the Zigbee task and the Python thread do
so on two cores at once.  `SaveSet` is the abstract bounded set, and `SaveQueueProofs` has the proofs.

`DeviceStorage` extends `DeviceManager`, whose calls are part of its actions, and adds the
save queue (a set: only membership and size matter, and nothing ever leaves it; what
`SaveQueue` shows makes this right until two calls overlap), the
scheduler, the files, what the Python thread has in hand and the load context.  A
save is split where the other core can come in between: look-up (`RunSave`), copy
(`CopyToJson`), write (`WriteFile`).  On the other side a change of the table and the request to
save it are two steps (`Join`, `Seen` and `Described`, then `AskSave`), and a listed endpoint asks for no
save at all (`Listed`, `mod_zig_handlers.c:211-215`).  A restart may cut a write short.  Storage and
memory may fail where a constant says so (`StorageFails`, `MemoryFails`): a listing leaves out names, a
read or write fails, a description ends before its save.  History variables keep what the properties
except: addresses whose last save was refused or failed (`unsaved`), addresses two entries held
(`shared`), devices that left (`left`), files the loading went past (`skipped`).  `DeviceStorageProofs` has the proofs.

`Gateway` models Python blocking in `start_gateway`, the commissioning task step
by step, both semaphores, the two timeouts, the signals from start-up to steering and
the flag `network_formed`.  The stack is external: it can be started once per boot,
remembers its network until a factory reset, and answers what it was asked.  Where it refuses to be
asked, nothing follows (`Starts`): the handlers ignore the error, and the alarm callback that repeats a
failed forming only logs it (`mod_zig_handlers.c:36-47`).  `GatewayProofs` has the proofs.

`Interview` models one device table entry per address with its endpoint records as
an array whose unused part keeps its content, and the set of requests whose callbacks
are still to come.  Callbacks come in any order or never.  Each description and each announcement
asks for a save (`AskSave`), which may be refused; the job that writes the file under the address runs later
(`RunSave`) and may fail.  A description of a cluster in `BasicOrPower` may end before its bindings and its save, for lack of
memory (`mod_zig_handlers.c:284-287`); that counts as a lost answer.  The loop of
`active_ep_cb` takes `ListEndpoint`, one round of it, for each endpoint of the answer in turn.
`DeviceJson` says what `device_to_json` keeps of a record and `device_from_json` gives back: the
endpoints up to the count, the configurations but those of unknown direction.  `MCInterview` has the
devices and their endpoints, `InterviewProofs` the proofs.

`Attributes` models the other way in for what a device says: `zb_action_handler` and
`zb_raw_cmd_handler`, one action per case.  Answers of the Basic and the Power Configuration cluster
change the device's entry and may ask for a save; answers, reports, responses and commands become
messages with a header, a payload size and `data_len`, which holds both in eight bits; `on_msg` takes
them out and reads them with the sizes of `ZCL_ATTR_TYPE`.  A name is its length, a value one token of which a
reader takes so many bytes; a stored battery percentage goes from 0 to 155, which is the largest
byte less 100.  `AttributesProofs` has the proofs.

`SequenceFacts` holds what the proofs of several modules rest on: what `Append`, `Tail` and `RemoveAt` do
to the members of a sequence, where a look-up stops, and how to reason about a loop.

Abstractions shared by all: times, link values and the wording of logs are left out, names and battery
values everywhere but in `Attributes`; an IEEE or network address is a model value; in `MessageQueue` a message
is its number and nothing else.  Memory allocation for small buffers is taken to succeed but where a save depends on it
(`MemoryFails`, and the early return of `simple_desc_req_cb` in `Interview`); `Attributes` leaves out reports
dropped for lack of memory or without a value, which are as good as never sent.  `InitGateway` is one step: two tasks inside
the initialisation at once are not told apart.  The coordinator's signal writes its own entry after its `Join`
(`mod_zig_handlers.c:448-453`) with what `Join` has put there; that this repeats the stale pointer's harm or repairs it is left out.  `TakenBack` keeps the order of the configurations that come
back and not their places in the array, since only which are in use is asked for.
In `Interview` an announcement also stands for the device update signal of an unknown
device, what other operations ask to be saved is left out (`RunSave` may then come later than in the
code, never earlier), two requests with the same parameters are one, and addresses do not change
hands while a request for them is out: the table's behaviour under colliding addresses
is the subject of `DeviceManager`.  Since a late description is written to the record of
whatever device has the address by then (`mod_zig_handlers.c:249`), `DescriptionsFit`
does not hold when `Homes` gives one address to two devices: `MCInterview_v_handed.cfg` shows it, and
the proof of `DescriptionsFit` assumes `OneHome`.
In `Attributes` the queue is one place where messages enter and leave in single steps; its own steps are
in `MessageQueue`.

## The runs

| Run | Instance | Shows |
|---|---|---|
| `manager_runtime` | 4 addresses, 4 devices, room for 3, one configuration | `OneEntryPerIeee`, `ForgetsOnlyTheClaimed`, `RejoinDisturbsNobody`: re-joins under free and taken addresses, before and behind the own entry, and a full table all occur |
| `manager_full` | 2 addresses, 2 devices, 3 endpoints for 2 places, loader included | `EndpointsDistinct`, `UpdateLosesNoEndpoint` |
| `manager_rejoin` | as above | violated: `RejoinedDeviceIsFound`.  The pointer found before the removal writes the address into the next entry (`device_manager.c:79-87`) |
| `queue_lossy` | queue 3, scheduler 2, 6 events, other jobs, raising handler, fairness | `InOrder`, `ResendFits`, `NewestSurvives`, `RefinesLossyFifo` under every interleaving of the two cores; `NoStrandedEvent`: an event waits unheard only after a call of Python that came to nothing (no callback yet, a scheduler full of other jobs, an exception); `EventsLeaveTheQueue`: otherwise it leaves the queue |
| `storage_current` | 2 addresses, a device with an endpoint, scheduler of 2, failing memory, joins while loading, one restart | `FilesTellTheTable`: a save copied before a change does not count for the change |
| `storage_faulty` | 2 addresses, 2 devices, scheduler of 1, failing storage, colliding addresses, joins while loading | `NoSilentLoss`; `LoadBringsBackEveryFile`: nothing but an unreadable file or a full table keeps a device from coming back |
| `storage_ends` | as `storage_faulty`, one device, scheduler of 2, fairness | `LoadEnds` |
| `storage_each` | save queue of 1 | violated: `EachDeviceIsSaved`.  Nothing takes addresses out of the save queue (`device_storage.c:242`) |
| `gateway_start` | 2 starts per boot, 2 restarts, everything may fail, the stack may refuse | `OneLoopOnAStartedStack`, `FormedIsTrue`, `NobodyWaitsOnDeletedSemaphore`, `FormingSucceeds`, `StartReturns`: the Python thread waits for a task that waits for the Python thread, and comes back all the same |
| `interview_answers` | 2 addresses, a device with 2 endpoints, 2 announcements, 2 calls, any loss, refused and failing saves | `DescriptionsFit`, `EndpointsListedOnce`, `InterviewIsCompleted`, `ConfiguredIsReported`; `DescriptionsReachFlash`: nobody waits for the last answer before saving, and the file is right all the same when the saves are done, unless the last of them was refused or failed |
| `save_queue` | 2 callers, 3 addresses, 2 places, 5 calls | `NothingIsForgotten`, `RefusedOnlyWhenUsedUp`, `CallsEnd` however the two searches of the queue mix; `AtomicUntilOverlap`: before they do, search and push are one step of `SaveSet` |
| `attributes` | 18 types, names of 0, 7, 31 and 32 characters, payloads up to 300 bytes, queue 2, 3 events | `NamedDeviceIsSaved`, `NumbersAreTrue`, `SizedReportsAreShown`, `ShortCommandsAreWhole` |

`TypeOK` (`TableOK` in `DeviceManager`) is an invariant of one run of each module.

Why the bounds are enough.  In the table at most three entries take part in any
call: the device's own, the one that holds the address, and one the shift disturbs.
The queue's behaviour changes at empty and full only; three places and six events let it
be full, dropped from and drained several times over.  Two addresses and two devices
make displacement, removal under a pointer and a file under another device's address happen; one restart is
enough because nothing but the files survives it.  Two starts are the fewest that can meet
a left-over token; two restarts cover a start with and one without a stored network.
Two endpoints are the fewest whose descriptions can be mixed up; two announcements
let a second interview begin, under the same or another address, while an old one is under way, and two calls are enough to configure a device and
then bind or remove it, or to meet a full table of configurations.  The two addresses are interchangeable.  The theorems about `Interview` hold for any number of both.
In the save queue two places and three addresses let it be full with an address left over; five calls
let one caller begin twice while another is under way, and use the places up with two calls to spare.  Every
type whose size the code gets from one expression has a representative of each last digit that matters; the
sizes of names stand on both sides of the array's end, those of payloads on both sides of 256 less each header.
An attribute changes an entry in one answer of at most two values, and three events are the fewest for a join, a first and a
second answer.

The storage properties except what the code does not promise, each by a history variable and not by a condition on
the run: an address whose last save was refused or failed, an address two entries held since its last save (only the
first is ever written), a device that left, a file that could not be listed, read or added.  In every storage run
devices join, leave and are saved while files are loaded, the coordinator among them.  One condition is left: the table keeps still between the look-up and
the copy of one save (`LookupRaces` is FALSE); `MCDeviceStorage_v_race.cfg` shows what happens otherwise, and
`LoadBringsBackEveryFile` is proved without it.  Addresses and devices are permuted by the symmetry of `storage_current` and
`storage_faulty`, where no cleared array slot is read and so no address or device is special.  In the passing runs it is a full scheduler that
refuses saves; a full save queue, which refuses them in the same branch, is the subject of `storage_each`, and the theorems hold for every size of both.

### Statements the models refute, beside the runs

Each of these configurations makes TLC find a counterexample to one sentence of the
repository.  They are kept to be run by hand.

| Configuration | Statement | Cause |
|---|---|---|
| `MessageQueue_wakeup.cfg` | "Process all available messages" (`zig_run.py:263`) | the refusal of a full scheduler is ignored (`mod_zig_handlers.c:92`); events wait for the next event |
| `SaveQueue_v_dup.cfg` | "Check if device is already in queue" (`device_storage.c:185`) | the address is in the other caller's temporary queue (`device_storage.c:163`) |
| `MCDeviceStorage_v_race.cfg` | "named [short_addr].json, where short_addr is the device's short address" (`doc/device_storage.md:5`) | the table changes between look-up and copy (`device_storage.c:292-304`) |
| `MCDeviceStorage_v_remove.cfg` | "Deletes [short_addr].json file" (`device_storage.h:48`) | the storage callback knows no "remove" (`zig_storage.py:19-71`) |
| `MCDeviceStorage_v_dup.cfg` | "add or update a device" (`device_manager.h:27`) | the loader creates without looking (`device_storage.c:473`) |
| `MCDeviceStorage_v_chain.cfg` | "sequentially loads each device" (`device_storage.h:37`) | a refused job ends the loading (`device_storage.c:503`) |
| `Gateway_v_load.cfg` | "Load all devices from storage first" (`mod_zig_core.c:372`) | Python must load and is blocked until the start is over: the task's five seconds pass in vain (`mod_zig_core.c:374-385`, `436`) |
| `Gateway_v_update.cfg` | "refreshes network information" (`mod_zig_network.c:124`) | refuses when the flag is false, so it cannot become true (`mod_zig_network.c:129`) |
| `Gateway_v_token.cfg` | "Create main task only after successful initialization" (`mod_zig_core.c:443`) | the token of a start that timed out is never taken back |
| `Gateway_v_running.cfg` | "Zigbee stack is already running" (`mod_zig_network.c:225`) | a started stack without a main task counts as running |
| `Gateway_v_retry.cfg` | "Network formation error, status: %s, retrying..." (`mod_zig_handlers.c:482`) | the alarm callback only logs a refused attempt and sets no other alarm (`mod_zig_handlers.c:36-47`) |
| `MCInterview_v_saved.cfg` | "Save device after initialization of all endpoints and clusters" (`mod_zig_handlers.c:399`) | saved after the first description |
| `MCInterview_v_asked.cfg` | "Request Simple Descriptor in any case" (`mod_zig_handlers.c:217`) | not when the array is full |
| `MCInterview_v_config.cfg` | "attr_type is required for SEND direction" (`mod_zig_cmd.c:474`) | the slot is taken before the argument is checked |
| `MCInterview_v_handed.cfg` | "List of supported clusters" (`mod_zig_types.h:101`) | an answer goes to whoever has the address by then (`mod_zig_handlers.c:223-249`) |
| `Attributes_v_number.cfg` | "Convert ZCL data bytes to appropriate Python value" (`zig_run.py:36`) | the size of the type is wrong (`zcl_attr_type.c:192`), `unpack` finds too few bytes |
| `Attributes_v_full.cfg` | "Send full attribute data" (`mod_zig_handlers.c:801`) | `data_len` is a `uint8_t` (`mod_zig_types.h:141`) |
| `Attributes_v_battery.cfg` | "Battery percentage" (`mod_zig_types.h:121`) | the attribute counts half percents; values up to 100 are stored as they are, others less 100 (`mod_zig_handlers.c:893`) |
| `Attributes_v_firmware.cfg` | "Firmware version" (`mod_zig_types.h:118`) | the switch does not look at the cluster: attribute 1 of Power Configuration is the mains frequency |
| `Attributes_v_custom.cfg` | "Forward all custom cluster responses to Python for processing" (`mod_zig_handlers.c:1000`) | they go out as application signals, of which `on_msg` prints the name |

### Fairness

`queue_lossy`: the Zigbee task finishes a call it began (it never blocks, the queue calls have
a timeout of 0), the interpreter runs scheduled jobs and finishes the callback.  Nothing is
assumed of further events or of the program calling `recv()`.  `storage_ends`: what Python began it
finishes (weak); the interpreter looks for jobs between the instructions of the program, so a job that
is runnable again and again runs (strong: a call of the program may disable it for a moment).
`save_queue`: a task that began a call goes on with it, since no queue call in it waits.
`gateway_start`: tasks run, timeouts pass (the ten seconds of the call included), the stack answers, alarms go off; forming succeeds if tried again and again
(strong), which is what makes the retry the thing checked.  No other run assumes fairness.

## The proofs

Every invariant and every action property a passing run checks is also a theorem, for every value of the constants and
any number of steps, under the assumptions named below; so is the refinement of `LossyFifo`.  Unless something else is said,
the only assumptions are those the modules make of their constants (`CapacityAssumption`, `QueueAssumption` and so on: capacities are
positive, switches are Boolean, a missing value is told from a real one), which TLC evaluates in each run.  A theorem's module
says which invariant is inductive, and a lemma for each action says that the action keeps it.

**Loops.**  The merge of endpoints, the loop of `active_ep_cb` and the loop of `device_from_json` are recursive functions on the number of rounds.  An induction theorem that takes an
operator cannot be used, so `SequenceFacts` counts over a set of numbers (`CountingUp`) and takes the body of a loop as a
function (`LoopExists`): there is a sequence of intermediate results, the first is the start, each follows from the one before, the
last is the loop's.  What a loop computes is then proved along these results.

`DeviceManagerProofs`:

- `ManagerTyping` and `ManagerEndpointsDistinct`: the table is a sequence of well-formed entries within its array, and no entry lists an
  endpoint twice.  The inductive invariant `Fits(devices, P)` says that each list of endpoints is in `P`; with `P` all lists
  that fit the array it gives the first theorem, with `P` the distinct ones among them the second.
- `RuntimeOneEntryPerIeee`: while nothing is loaded, a device never gets a second entry.  Deletion keeps the remaining entries distinct,
  a re-join changes no IEEE address, and the look-up before `Create` says that no entry has the new one.
- `ManagerUpdateLosesNoEndpoint`, `ManagerForgetsOnlyTheClaimed`, `ManagerRejoinDisturbsNobody`: what one call may do, from
  the typing and from what look-up, deletion and merge return.  The last keeps the precondition of its property: no entry before
  the device's own holds the address.  Without it `manager_rejoin` finds the stale pointer.

`MessageQueueProofs`:

- `Typing`, from `TypeOK` strengthened by: a call under way is about an event that was reported.
- `DeliveredInOrder`, `SecondAttemptFits` and `NewestIsKept`, from one inductive invariant `Inv`.
  `Ordered` is `InOrder` in terms of members; to keep it when an event is appended one needs
  `Fresh`: everything placed so far is at most the last event reported, and less than it while the task is
  between a refused send and the second attempt.  `ResendFits` holds because only the task itself fills the queue,
  and `NewestSurvives` rests on it.
- `ImplementsLossyFifo`, by mapping each step to `Enter`, `Discard`, `Take` or a stutter.  An event counts as
  entered only when the attempt that succeeds is made, which is why the mapping depends on `pc`.
- `WaitingEventsAreHeardOf`: whoever else uses the scheduler and however often the handler raises, an event that waits while the task
  is idle has the callback running or scheduled, or the last call of Python came to nothing.  `NoStrandedEvent` is inductive with the typing: a send ends with a call
  that is accepted, refused because the callback is there already, or remembered as missed; and the callback leaves its loop only on an empty
  queue or by an exception.  That an event may wait after a missed call is `MessageQueue_wakeup.cfg`.

`SaveQueueProofs`:

- `Typing`: the queue and both temporary queues never overflow, although each caller takes out what the other puts back.
  `TypeOK` is inductive as it stands; that a temporary queue is empty outside the two loops is the part that matters.
- `NothingForgotten` and `RefusedLate`, from `Kept`: the addresses in the queue and in the two temporary
  queues together are no more than the pushes that succeeded.  While these are at most the places, no send is refused, so
  moving an address from one queue to another loses nothing; and a push that finds the queue full finds it full of them.
- `SearchIsAtomicAlone`: until two calls have overlapped, every step is a step of `SaveSet` or changes nothing it sees.  The
  invariant `Alone` says of the only caller what it has in hand: before the end of the search `found` tells whether the address was
  among those taken out, and at the push it is nowhere.

`GatewayProofs`:

- `MainLoopIsCreatedOnce`, `FormedFlagIsTrue` and `FirstWaitIsSafe`, from one invariant.  `OnlyOneComesUp`: the stack is initialised once per
  boot, so one commissioning task gets past the initialisation, one token is given, and the main loop comes instead of that token, whichever
  call takes it.  `FirstIsWaitedFor`: while the first task waits for the loading, its call waits for it, no token exists
  and no other task does, so nothing frees the thread that would run the loading.  `FormedIsTrue` is inductive together with these.
- `GatewayTyping`.  The loading jobs are counted, and that the count is bounded needs `JobsAreAskedFor`: there are no more of them than
  tasks that have come as far as asking for one.

`DeviceStorageProofs`:

- `StorageTyping`: whatever races, fails or restarts.  Assumed is that there are finitely many network addresses.
- `NoDeviceIsLost`: no known device is without a file of its own, a save on its way or a save that was refused or failed, whatever
  storage does, while files are loaded and over restarts.  What asks for a save leaves a job or a refusal behind (`SaveRequested`); a save in hand has the
  entry of its name, so what it writes is the device of that name (`InHand`); hence each file names its device (`FilesAreNamedRight`, proved
  with it), and an address that only a loaded file makes known has that file.  Assumed is `KeepsStill`: the table does not change between look-up and copy of
  a save (`MCDeviceStorage_v_race.cfg` shows `FilesNameTheirDevice` false without it), addresses are finitely many, and a device is told from a missing and a damaged file.
- `LoadingIsComplete`: a loading that completes has brought back every device that has a file, but those that left the table meanwhile
  and those whose file it went past.  Assumed is only that there are finitely many addresses: devices join, leave and are saved
  during the loading, reads and writes fail, look-ups race.  The invariant `Bringing`: while a loading is under way, each device with a
  file is in the table, has left it (`Met`), has its name among those still to read, or was passed over; a file written meanwhile is a
  copy of an entry, so its device was in the table.
- `FilesAreCurrent`: each known device's file tells what the table tells of its described endpoints, or a save that will write just that is under way, or its
  last save was refused or failed, or two entries held its address since that save.  Assumed is `KeepsStill` alone; files are loaded, storage and
  memory fail, addresses change hands and power is lost.  To be inductive the statement needs `AllTold`: a copy made before a change is on its way
  to a file only if a later save is noted too (`Overtaken`, `Noted`), and what is said of an address is said of every entry that holds it unless it is `shared`.

`AttributesProofs`:

- `NamedIsSaved`: the entry of a named device is the one last asked to be saved.  The invariant is inductive because an answer
  that changes the entry of a device which is still named afterwards asks for the save in the same step, with the entry it led to.
- `AttributesTyping`, `ShownNumbersAreTrue`, `SizedReportsArrive`, `RawCommandsArrive`, from `Sound`: the entries fit their fields, each message in the queue is
  one a handler packs (`Packed`: the length field is the true length in eight bits), and what was heard last is faithful to its message
  (`Faithful`).  That a packed message is read faithfully goes through the table of sizes case by case; the lemmas do it for payloads of any length.

`InterviewProofs`, for any devices, endpoints, clusters and sizes of the arrays, with answers in any order or lost.  First come the loops:
an empty array gets the numbers of the answer (`ListNew`), an array that has them keeps them and, with room, asks for all descriptions again (`ListAgain`).

- `InterviewTyping` and `NoEndpointIsListedTwice`, without further assumptions: indices in requests are inside the array, files can be read back, and however many
  interviews run into each other no endpoint gets a second record.
- `DescriptionsAreSaved`, also without: once an interview without losses is over and the last of its saves was neither refused nor failed, the file holds the endpoints of the table and the
  configurations that were due, whatever saves were refused or failed before.  The invariant `Kept` says this of every device nobody has still to save and whose last save did not fail, unless a description is under way: the last
  description asks for a save itself, and a step that changes the endpoints asks for a save or for a description.  A save queue that stays full
  (`EachDeviceIsSaved`) refuses every save of a device beyond it: for such a device the theorem promises nothing.
- `RecordsDescribeTheirEndpoints`, if no address passes from one device to another (`OneHome`): a record holds nothing or the clusters of its own endpoint.
  `Sound` says why the index taken before the request is right when the answer comes: every interview of a device numbers its endpoints
  alike (`Indexed`, `AllFit`), so an index of an older interview is an index of this one.  `MCInterview_v_handed.cfg` shows what happens without `OneHome`.
- `InterviewsComplete` and `InterviewsConfigure`, if besides every device has fewer endpoints than the array has places (`Room`; with 40 places a device
  would need as many endpoints to break it): an interview without losses ends with every endpoint described, and with every configuration that was due reported.  `InHand`:
  the announcement's request is still out, or each endpoint is described or waits for its description; `UnderWay` says the same of each configuration, one
  request further.  With a full array the loop asks for nothing at all (`MCInterview_v_asked.cfg`), which is why `Room` demands one place more.

Model-checked only are the liveness properties `EventsLeaveTheQueue`, `LoadEnds`, `FormingSucceeds`, `StartReturns` and `CallsEnd`: they rest on fairness, and the
provers know neither `WF_` and `SF_` of these actions nor `ENABLED`.  What the violated runs and the configurations kept beside the runs refute is
shown by TLC's counterexamples and needs no proof.

## Not modelled, and the plan

Not modelled, because they keep no state others read or only pass arguments to the stack:

- the calls `send_command`, `read_attr`, `write_attr` and their packing of arguments; opening, closing and scanning beyond asking for the
  flag; the registration of custom clusters at start; link quality; the generated tables of names;
- the deinitialisation of the storage, which nothing calls, and `tuya_moes.py`, which is called for a message kind no handler sends;
- the text of the JSON: names and numbers go through it unchanged;
- the walk of `get_device_list` over the table while it shifts.

Order of the work ahead:

1. Storage with report configurations in its entries, so that the merge at `device_manager.c:136` meets `DeviceJson`.
2. Attribute reports and link quality in the table, and the list of devices read while it changes.
3. `InterviewsComplete` without `Room`: what a full array still promises, namely the descriptions of the endpoints it lists
   if no second interview begins.
4. `Interview` over the save queue of `DeviceStorage`, so that which saves are refused is computed and not chosen.
