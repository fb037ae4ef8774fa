-------------------------------- MODULE Gateway --------------------------------
(***************************************************************************)
(* Starting the gateway and keeping track of its network (mod_zig_core.c,  *)
(* mod_zig_network.c, main.c and the commissioning signals of              *)
(* mod_zig_handlers.c).  start_network(), or the constructor, starts a     *)
(* commissioning task on the other core and blocks the Python thread on a  *)
(* semaphore for at most 10 s; the task has all devices loaded, waits for   *)
(* that for at most 5 s, initialises the stack and gives the semaphore;     *)
(* only then is the task created that runs the stack's main loop.           *)
(* What the Zigbee stack itself does is external: a stack that runs refuses  *)
(* to be started again, and forgets its network only on a factory reset.     *)
(***************************************************************************)
EXTENDS Naturals

CONSTANTS MaxStarts,    \* bound: commissioning tasks started between two boots
          MaxBoots,     \* bound: restarts in a behaviour
          StackFails    \* may the stack refuse a call, or creating a task fail?

ASSUME GatewayAssumption ==
    MaxStarts \in Nat \ {0} /\ MaxBoots \in Nat /\ StackFails \in BOOLEAN

VARIABLES
    main,       \* what the Python thread waits for: 0, or a commissioning task
    answer,     \* how the last call of the program ended
    task,       \* where each commissioning task is
    doneToken,  \* commissioning_done_semaphore
    loadSem,    \* does device_load_complete_semaphore exist?
    loadJobs,   \* scheduled load_all contexts
    loaded,     \* history: has a loading completed since boot?
    started,    \* esp_zb_is_started()
    loops,      \* gateway main tasks created
    formed,     \* config->network_formed
    inNetwork,  \* external: has the stack a PAN id?
    stored,     \* external: is there a network in zb_storage (not factory new)?
    bdb,        \* what the stack's base device behaviour does
    boots       \* history: restarts so far

pyVars    == <<main, answer>>
loadVars  == <<loadSem, loadJobs, loaded>>
stackVars == <<started, inNetwork, stored, bdb>>
vars == <<pyVars, task, doneToken, loadVars, loops, formed, stackVars, boots>>

Tasks == 1..MaxStarts

TypeOK ==
    /\ main \in 0..MaxStarts
    /\ answer \in {"none", "ok", "raised", "already running"}
    /\ task \in [Tasks -> {"none", "load", "wait", "init", "read", "give", "done", "failed"}]
    /\ {doneToken, loadSem, loaded, started, formed, inNetwork, stored} \subseteq BOOLEAN
    /\ loadJobs \in 0..MaxStarts
    /\ loops \in 0..MaxStarts
    /\ bdb \in {"off", "skip", "start", "form", "form later", "steer later", "steer",
                "refused", "idle"}
    /\ boots \in 0..MaxBoots

Init ==
    /\ main = 0 /\ answer = "none"
    /\ task = [n \in Tasks |-> "none"]
    /\ doneToken = FALSE /\ loadSem = FALSE /\ loadJobs = 0 /\ loaded = FALSE
    /\ started = FALSE /\ loops = 0 /\ formed = FALSE
    /\ inNetwork = FALSE /\ stored = FALSE /\ bdb = "off" /\ boots = 0

(* Everything but flash is lost.                                           *)
Reboot(keep) ==
    /\ boots < MaxBoots /\ boots' = boots + 1
    /\ main' = 0 /\ answer' = "none"
    /\ task' = [n \in Tasks |-> "none"]
    /\ doneToken' = FALSE /\ loadSem' = FALSE /\ loadJobs' = 0 /\ loaded' = FALSE
    /\ started' = FALSE /\ loops' = 0 /\ formed' = FALSE
    /\ inNetwork' = FALSE /\ stored' = keep /\ bdb' = "off"

--------------------------------------------------------------------------------
(* The Python thread.                                                      *)

Idle == main = 0

Answers(a) == answer' = a /\ UNCHANGED main

(* esp32_zig_start_gateway up to the semaphore.                            *)
StartGateway ==
    /\ UNCHANGED <<doneToken, loadVars, loops, formed, stackVars, boots>>
    /\ \/ \E n \in Tasks :
             /\ task[n] = "none" /\ \A m \in 1..(n - 1) : task[m] # "none"
             /\ task' = [task EXCEPT ![n] = "load"]
             /\ main' = n /\ UNCHANGED answer
       \/ StackFails /\ Answers("raised") /\ UNCHANGED task

(* start_network refuses when the stack is started.                        *)
StartNetwork ==
    /\ Idle
    /\ IF started
       THEN /\ Answers("already running")
            /\ UNCHANGED <<task, doneToken, loadVars, loops, formed, stackVars, boots>>
       ELSE StartGateway

(* init() refuses when the network is formed; otherwise it clears the       *)
(* configuration, the flag included, and starts the gateway.               *)
InitAgain ==
    /\ Idle /\ ~ formed
    /\ StartGateway

(* Mutant: the token stays in the semaphore.                               *)
TakeAndLeaveToken ==
    /\ main # 0 /\ doneToken
    /\ main' = 0
    /\ \/ loops' = loops + 1 /\ answer' = "ok"
       \/ StackFails /\ answer' = "raised" /\ UNCHANGED loops
    /\ UNCHANGED <<doneToken, task, loadVars, formed, stackVars, boots>>

(* Mutant: the main task is created while the semaphore is polled.          *)
TakeInALoop ==
    /\ main # 0 /\ doneToken
    /\ loops' = loops + 1
    /\ UNCHANGED <<doneToken, pyVars, task, loadVars, formed, stackVars, boots>>

(* The semaphore is taken and the main task created.                       *)
TakeDone ==
    /\ main # 0 /\ doneToken
    /\ doneToken' = FALSE
    /\ main' = 0
    /\ \/ loops' = loops + 1 /\ answer' = "ok"
       \/ StackFails /\ answer' = "raised" /\ UNCHANGED loops
    /\ UNCHANGED <<task, loadVars, formed, stackVars, boots>>

(* Mutant: the call waits no longer than the task waits for the loading.    *)
GiveUpEarly ==
    /\ main # 0 /\ ~ doneToken
    /\ main' = 0 /\ answer' = "raised"
    /\ UNCHANGED <<task, doneToken, loadVars, loops, formed, stackVars, boots>>

(* Mutant: after the timeout the call reports it and waits again.             *)
GiveUpAndWait ==
    /\ main # 0 /\ ~ doneToken /\ task[main] \notin {"load", "wait"}
    /\ answer' = "raised"
    /\ UNCHANGED <<main, task, doneToken, loadVars, loops, formed, stackVars, boots>>

(* 10 s have passed.  The task's 5 s for the loading are over by then.       *)
GiveUp ==
    /\ main # 0 /\ ~ doneToken /\ task[main] \notin {"load", "wait"}
    /\ main' = 0 /\ answer' = "raised"
    /\ UNCHANGED <<task, doneToken, loadVars, loops, formed, stackVars, boots>>

(* A scheduled loading runs when the Python thread is not blocked.  When it  *)
(* completes it gives the semaphore and deletes it; it may end short of that. *)
RunLoad ==
    /\ Idle /\ loadJobs > 0
    /\ loadJobs' = loadJobs - 1
    /\ \/ /\ loaded' = TRUE /\ loadSem' = FALSE
          /\ task' = [n \in Tasks |-> IF task[n] = "wait" /\ loadSem THEN "init" ELSE task[n]]
       \/ UNCHANGED <<loaded, loadSem, task>>
    /\ UNCHANGED <<pyVars, doneToken, loops, formed, stackVars, boots>>

(* update_network_status, also the first thing get_info and print do when    *)
(* the stack is started: it refuses when the flag is not set.                *)
UpdateNetworkStatus ==
    /\ Idle
    /\ IF formed THEN Answers("ok") /\ formed' = (started /\ inNetwork)
       ELSE Answers("raised") /\ UNCHANGED formed
    /\ UNCHANGED <<task, doneToken, loadVars, loops, stackVars, boots>>

(* open_network, close_network, scan_networks, send_command and the           *)
(* attribute calls all ask for the flag first and then enter the stack.       *)
UseNetwork ==
    /\ Idle
    /\ Answers(IF formed THEN "ok" ELSE "raised")
    /\ UNCHANGED <<task, doneToken, loadVars, loops, formed, stackVars, boots>>

(* reset_to_factory erases the stored network and reboots.                  *)
ResetToFactory == Idle /\ formed /\ Reboot(FALSE)

--------------------------------------------------------------------------------
(* A commissioning task.                                                   *)

Goes(n, from, to) == task[n] = from /\ task' = [task EXCEPT ![n] = to]

(* Without a storage callback there is nothing to load, and nothing to wait  *)
(* for unless an earlier start left its semaphore.                          *)
LoadAll(n) ==
    /\ \/ /\ Goes(n, "load", "wait")
          /\ loadSem' = TRUE
          /\ \/ loadJobs' = loadJobs + 1
             \/ UNCHANGED loadJobs     \* the scheduler is full
       \/ /\ Goes(n, "load", IF loadSem THEN "wait" ELSE "init")
          /\ UNCHANGED <<loadSem, loadJobs>>
    /\ UNCHANGED <<pyVars, doneToken, loaded, loops, formed, stackVars, boots>>

(* 5 s have passed.                                                        *)
LoadWaitTimesOut(n) ==
    /\ Goes(n, "wait", "init")
    /\ UNCHANGED <<pyVars, doneToken, loadVars, loops, formed, stackVars, boots>>

(* init_zigbee_gateway: an error ends the task without a word to the Python  *)
(* thread, a radio that does not answer reboots the chip.                    *)
InitGateway(n) ==
    \/ /\ ~ started
       /\ Goes(n, "init", "read")
       /\ started' = TRUE /\ bdb' = "skip"
       /\ inNetwork' \in {FALSE, stored}
       /\ UNCHANGED <<pyVars, doneToken, loadVars, loops, formed, stored, boots>>
    \/ /\ started \/ StackFails
       /\ Goes(n, "init", "failed")
       /\ UNCHANGED <<pyVars, doneToken, loadVars, loops, formed, stackVars, boots>>
    \/ StackFails /\ task[n] = "init" /\ Reboot(stored)

(* Mutant: a started stack counts as a formed network.                     *)
ReadNetworkStarted(n) ==
    /\ Goes(n, "read", "give")
    /\ formed' = started
    /\ UNCHANGED <<pyVars, doneToken, loadVars, loops, stackVars, boots>>

(* The flag is set from the PAN id the stack has right now.                *)
ReadNetwork(n) ==
    /\ Goes(n, "read", "give")
    /\ formed' = inNetwork
    /\ UNCHANGED <<pyVars, doneToken, loadVars, loops, stackVars, boots>>

(* Mutant: a failed initialisation is announced, too.                      *)
GiveDoneAlways(n) ==
    /\ Goes(n, "give", "done") \/ Goes(n, "failed", "done")
    /\ doneToken' = TRUE
    /\ UNCHANGED <<pyVars, loadVars, loops, formed, stackVars, boots>>

GiveDone(n) ==
    /\ Goes(n, "give", "done")
    /\ doneToken' = TRUE
    /\ UNCHANGED <<pyVars, loadVars, loops, formed, stackVars, boots>>

--------------------------------------------------------------------------------
(* Signals of the stack, delivered by its main loop.                       *)

Signal(from, to) ==
    /\ loops > 0 /\ bdb = from /\ bdb' = to
    /\ UNCHANGED <<pyVars, task, doneToken, loadVars, loops, formed, started, boots>>

(* A handler starts the next stage of commissioning.  When the stack refuses  *)
(* that, the error is ignored or logged, and nothing follows.               *)
Starts(from, to) == Signal(from, to) \/ (StackFails /\ Signal(from, "refused"))

SkipStartup == Starts("skip", "start") /\ UNCHANGED <<inNetwork, stored>>

(* A factory-new device goes on to form a network; an error is only logged.  *)
FirstStartOrReboot ==
    \/ ~ stored /\ Starts("start", "form") /\ UNCHANGED <<inNetwork, stored>>
    \/ stored /\ Signal("start", "idle") /\ inNetwork' = TRUE /\ UNCHANGED stored
    \/ StackFails /\ Signal("start", "idle") /\ UNCHANGED <<inNetwork, stored>>

(* A network was formed: steering is due in 100 ms.                        *)
Formation == Signal("form", "steer later") /\ inNetwork' = TRUE /\ stored' = TRUE

(* Mutant: the failure is only logged.                                     *)
FormationFailedForGood == Signal("form", "idle") /\ UNCHANGED <<inNetwork, stored>>

(* Forming failed: it is tried again in 1 s.                               *)
FormationFailed == Signal("form", "form later") /\ UNCHANGED <<inNetwork, stored>>

(* bdb_start_top_level_commissioning_cb sets no new alarm when it fails.     *)
Alarm ==
    /\ Starts("form later", "form") \/ Starts("steer later", "steer")
    /\ UNCHANGED <<inNetwork, stored>>

Steering == Signal("steer", "idle") /\ UNCHANGED <<inNetwork, stored>>

--------------------------------------------------------------------------------
Program == StartNetwork \/ InitAgain \/ UpdateNetworkStatus \/ UseNetwork \/ ResetToFactory

Commissioning(n) ==
    LoadAll(n) \/ LoadWaitTimesOut(n) \/ InitGateway(n) \/ ReadNetwork(n) \/ GiveDone(n)

Stack == SkipStartup \/ FirstStartOrReboot \/ Alarm \/ Steering

Next ==
    \/ Program \/ TakeDone \/ GiveUp \/ RunLoad
    \/ \E n \in Tasks : Commissioning(n)
    \/ Stack \/ Formation \/ FormationFailed
    \/ Reboot(stored)

Spec == Init /\ [][Next]_vars

(* Tasks run, timeouts pass, alarms go off, the stack reports what it was     *)
(* asked for; and it does form a network when it is asked again and again.    *)
FairSpec ==
    /\ Spec
    /\ WF_vars(Stack) /\ SF_vars(Formation)
    /\ WF_vars(TakeDone) /\ WF_vars(GiveUp)
    /\ \A n \in Tasks : WF_vars(Commissioning(n))

--------------------------------------------------------------------------------
(* The main loop runs only on a stack that a commissioning task brought up,  *)
(* and never twice, whatever calls timed out, whatever token was left over    *)
(* from them and however often the program starts the gateway.               *)
OneLoopOnAStartedStack == loops <= 1 /\ (loops = 1 => started)

(* The flag that lets calls into the stack is set only while the stack is    *)
(* started and in a network.                                                *)
FormedIsTrue == formed => started /\ inNetwork

(* The loading deletes its semaphore while the task of the first start waits  *)
(* on it in no case (device_storage.c:515; deleting a semaphore somebody waits *)
(* on is undefined in FreeRTOS): the Python thread, which would run it, is      *)
(* blocked longer than the task waits.  For a second start this fails: a token  *)
(* left over from a start that timed out frees the thread too early.          *)
NobodyWaitsOnDeletedSemaphore ==
    [][loadSem /\ ~ loadSem' /\ boots' = boots => task[1] # "wait"]_vars

(* A gateway that was asked to form a network has one in the end, however     *)
(* often forming fails, unless it is restarted or the stack refuses a further   *)
(* attempt: then nobody asks again.                                         *)
FormingSucceeds ==
    \A b \in 0..MaxBoots :
        bdb = "form" /\ boots = b ~> inNetwork \/ bdb = "refused" \/ boots # b

(* The Python thread waits for a task that waits for a loading only the       *)
(* Python thread can run (mod_zig_core.c:377,438): the call returns all the same, *)
(* also when the initialisation fails without a word.                        *)
StartReturns == main # 0 ~> main = 0

--------------------------------------------------------------------------------
(* Statements of the repository the runs refute.                           *)

(* "Load all devices from storage first" (mod_zig_core.c:372): the stack is   *)
(* started when the devices have been loaded.                               *)
LoadedBeforeStart == started => loaded

(* "Updates the network status and refreshes network information"            *)
(* (mod_zig_network.c:124): after the call the flag tells the stack's state.  *)
UpdateRefreshes ==
    [][UpdateNetworkStatus => formed' = (started /\ inNetwork)]_vars

(* "Create main task only after successful initialization"                   *)
(* (mod_zig_core.c:443): a call starts the main loop when the commissioning   *)
(* it waits for is done.                                                    *)
LoopAfterInitialization == [][TakeDone => task[main] = "done"]_vars

(* "Zigbee stack is already running" (mod_zig_network.c:225): a call is        *)
(* refused with this message when the main loop runs.                        *)
RunningMeansRunning == answer = "already running" => loops > 0

(* "Network formation error, status: %s, retrying..." (mod_zig_handlers.c:482): *)
(* after a failure the stack is asked again.                                *)
FormingIsRetried ==
    \A b \in 0..MaxBoots : bdb = "form later" /\ boots = b ~> bdb = "form" \/ boots # b
================================================================================
