----------------------------- MODULE GatewayProofs -----------------------------
(***************************************************************************)
(* What holds of starting the gateway for any number of starts and restarts. *)
(* One argument carries it: the stack is initialised once per boot, so one    *)
(* commissioning task gets past the initialisation, gives one token, and one   *)
(* main loop is created for it.  Which call takes the token plays no part.    *)
(***************************************************************************)
EXTENDS Gateway, FiniteSetTheorems, TLAPS

(* What the argument needs of the types.                                     *)
Types ==
    /\ main \in 0..MaxStarts
    /\ task \in [Tasks -> {"none", "load", "wait", "init", "read", "give", "done", "failed"}]
    /\ loops \in Nat

(* A commissioning task past the initialisation of the stack.               *)
Up(n) == task[n] \in {"read", "give", "done"}

(* The task that brought the stack up is the only one that did; the loop and  *)
(* the token come after it is done, the one instead of the other.            *)
OnlyOneComesUp ==
    /\ \A m, n \in Tasks : Up(m) /\ Up(n) => m = n
    /\ ~ started => loops = 0 /\ ~ doneToken /\ \A n \in Tasks : ~ Up(n)
    /\ \A n \in Tasks : task[n] \in {"read", "give"} => loops = 0 /\ ~ doneToken
    /\ doneToken => loops = 0
    /\ loops <= 1

(* While the first task waits for the loading nothing can free the thread.    *)
FirstIsWaitedFor ==
    /\ \A m, n \in Tasks : m < n /\ task[m] = "none" => task[n] = "none"
    /\ task[1] = "none" => ~ doneToken
    /\ task[1] \in {"load", "wait"} =>
          main = 1 /\ ~ doneToken /\ \A n \in Tasks : n > 1 => task[n] = "none"

Inv == Types /\ OnlyOneComesUp /\ FormedIsTrue /\ FirstIsWaitedFor

(* Initially no task has been started.                                      *)
LEMMA InvInit == Init => Inv
  BY GatewayAssumption, SMT
  DEF Init, Inv, Types, OnlyOneComesUp, FormedIsTrue, FirstIsWaitedFor, Up, Tasks

(* A restart brings everything back to the start.                            *)
LEMMA InvReboot == ASSUME NEW keep, Reboot(keep) PROVE Inv'
  BY GatewayAssumption, SMT
  DEF Reboot, Inv, Types, OnlyOneComesUp, FormedIsTrue, FirstIsWaitedFor, Up, Tasks

(* What the invariant talks about stays; the stack may enter its network.     *)
LEMMA InvFrame ==
    ASSUME Inv, UNCHANGED <<main, task, doneToken, loops, started, formed>>,
           inNetwork => inNetwork'
    PROVE  Inv'
  BY DEF Inv, Types, OnlyOneComesUp, FormedIsTrue, FirstIsWaitedFor, Up, Tasks

(* A new commissioning task starts behind all others.                        *)
LEMMA InvStart == ASSUME Inv, Idle, StartGateway PROVE Inv'
  BY GatewayAssumption, SMTT(60)
  DEF StartGateway, Idle, Answers, loadVars, stackVars,
      Inv, Types, OnlyOneComesUp, FormedIsTrue, FirstIsWaitedFor, Up, Tasks

(* The calls of the program.                                               *)
LEMMA InvProgram == ASSUME Inv, Program PROVE Inv'
<1>1. CASE StartNetwork
  <2>1. CASE started
    BY <1>1, <2>1, InvFrame, Zenon DEF StartNetwork, Answers, stackVars
  <2>2. CASE ~ started
    BY <1>1, <2>2, InvStart DEF StartNetwork
  <2>. QED BY <2>1, <2>2
<1>2. CASE InitAgain
  BY <1>2, InvStart DEF InitAgain
<1>3. CASE UpdateNetworkStatus
  BY <1>3, SMT
  DEF UpdateNetworkStatus, Answers, loadVars, stackVars, Inv, Types, OnlyOneComesUp, FormedIsTrue,
      FirstIsWaitedFor, Up, Tasks
<1>4. CASE UseNetwork
  BY <1>4, SMT
  DEF UseNetwork, Answers, loadVars, stackVars, Inv, Types, OnlyOneComesUp, FormedIsTrue,
      FirstIsWaitedFor, Up, Tasks
<1>5. CASE ResetToFactory
  BY <1>5, InvReboot DEF ResetToFactory
<1>. QED BY <1>1, <1>2, <1>3, <1>4, <1>5 DEF Program

(* The thread wakes up, or runs a loading between two calls.                 *)
LEMMA InvThread == ASSUME Inv, TakeDone \/ GiveUp \/ RunLoad PROVE Inv'
<1>1. CASE TakeDone
  BY <1>1, GatewayAssumption, SMT
  DEF TakeDone, loadVars, stackVars, Inv, Types, OnlyOneComesUp, FormedIsTrue,
      FirstIsWaitedFor, Up, Tasks
<1>2. CASE GiveUp
  BY <1>2, GatewayAssumption, SMT
  DEF GiveUp, loadVars, stackVars, Inv, Types, OnlyOneComesUp, FormedIsTrue,
      FirstIsWaitedFor, Up, Tasks
<1>3. CASE RunLoad
  BY <1>3, GatewayAssumption, SMT
  DEF RunLoad, Idle, pyVars, stackVars, Inv, Types, OnlyOneComesUp, FormedIsTrue,
      FirstIsWaitedFor, Up, Tasks
<1>. QED BY <1>1, <1>2, <1>3

(* The steps of a commissioning task.                                       *)
LEMMA InvCommissioning ==
    ASSUME Inv, NEW n \in Tasks, Commissioning(n) PROVE Inv'
<1>1. CASE LoadAll(n)
  BY <1>1, GatewayAssumption, SMT
  DEF LoadAll, Goes, pyVars, stackVars, Inv, Types, OnlyOneComesUp, FormedIsTrue,
      FirstIsWaitedFor, Up, Tasks
<1>2. CASE LoadWaitTimesOut(n)
  BY <1>2, GatewayAssumption, SMT
  DEF LoadWaitTimesOut, Goes, pyVars, loadVars, stackVars, Inv, Types, OnlyOneComesUp, FormedIsTrue,
      FirstIsWaitedFor, Up, Tasks
<1>3. CASE InitGateway(n)
  <2>1. CASE task[n] = "init" /\ Reboot(stored)
    BY <2>1, InvReboot DEF Inv, Types
  <2>2. CASE ~ (task[n] = "init" /\ Reboot(stored))
    <3>1. \/ ~ started /\ Goes(n, "init", "read") /\ started'
             /\ UNCHANGED <<main, doneToken, loops, formed>>
          \/ Goes(n, "init", "failed")
             /\ UNCHANGED <<main, doneToken, loops, formed, started, inNetwork>>
      BY <1>3, <2>2, Zenon DEF InitGateway, pyVars, stackVars
    <3>2. FormedIsTrue'
      BY <3>1, Zenon DEF Inv, FormedIsTrue
    <3>3. (Types /\ OnlyOneComesUp /\ FirstIsWaitedFor)'
      BY <3>1, GatewayAssumption, SMT
      DEF Goes, Inv, Types, OnlyOneComesUp, FormedIsTrue, FirstIsWaitedFor, Up, Tasks
    <3>. QED BY <3>2, <3>3 DEF Inv
  <2>. QED BY <2>1, <2>2
<1>4. CASE ReadNetwork(n)
  BY <1>4, GatewayAssumption, SMT
  DEF ReadNetwork, Goes, pyVars, loadVars, stackVars, Inv, Types, OnlyOneComesUp, FormedIsTrue,
      FirstIsWaitedFor, Up, Tasks
<1>5. CASE GiveDone(n)
  BY <1>5, GatewayAssumption, SMT
  DEF GiveDone, Goes, pyVars, loadVars, stackVars, Inv, Types, OnlyOneComesUp, FormedIsTrue,
      FirstIsWaitedFor, Up, Tasks
<1>. QED BY <1>1, <1>2, <1>3, <1>4, <1>5 DEF Commissioning

(* A signal changes what the stack is at, and may bring it into its network.   *)
LEMMA InvSignals == ASSUME Inv, Stack \/ Formation \/ FormationFailed PROVE Inv'
<1>1. /\ \E from, to : Signal(from, to)
      /\ inNetwork' = TRUE \/ inNetwork' = inNetwork
  BY Zenon
  DEF Stack, Starts, SkipStartup, FirstStartOrReboot, Alarm, Steering, Formation, FormationFailed
<1>2. UNCHANGED <<main, task, doneToken, loops, started, formed>>
  BY <1>1, Zenon DEF Signal, pyVars
<1>. QED BY <1>1, <1>2, InvFrame

(* Every step keeps the invariant.                                          *)
LEMMA InvStep == Inv /\ [Next]_vars => Inv'
<1>. SUFFICES ASSUME Inv, [Next]_vars PROVE Inv'
  OBVIOUS
<1>1. CASE Program BY <1>1, InvProgram
<1>2. CASE TakeDone \/ GiveUp \/ RunLoad BY <1>2, InvThread
<1>3. CASE \E n \in Tasks : Commissioning(n) BY <1>3, InvCommissioning
<1>4. CASE Stack \/ Formation \/ FormationFailed BY <1>4, InvSignals
<1>5. CASE Reboot(stored) BY <1>5, InvReboot DEF Inv, Types
<1>6. CASE UNCHANGED vars
  BY <1>6, SMT
  DEF vars, pyVars, loadVars, stackVars, Inv, Types, OnlyOneComesUp, FormedIsTrue,
      FirstIsWaitedFor, Up, Tasks
<1>. QED BY <1>1, <1>2, <1>3, <1>4, <1>5, <1>6 DEF Next

LEMMA InvAlways == Spec => []Inv
  BY InvInit, InvStep, PTL DEF Spec

--------------------------------------------------------------------------------
(* However many starts time out and whatever tokens they leave behind         *)
(* (mod_zig_core.c:438), the main task is created at most once per boot and on *)
(* a stack that was started.                                                *)
THEOREM MainLoopIsCreatedOnce == Spec => []OneLoopOnAStartedStack
<1>1. Inv => OneLoopOnAStartedStack
  BY SMT DEF Inv, Types, OnlyOneComesUp, OneLoopOnAStartedStack
<1>. QED BY <1>1, InvAlways, PTL

(* network_formed (mod_zig_core.c:400, mod_zig_network.c:148) is set only while *)
(* the stack is started and in a network, so calls it lets through reach a      *)
(* stack that can answer.                                                   *)
THEOREM FormedFlagIsTrue == Spec => []FormedIsTrue
<1>1. Inv => FormedIsTrue
  BY DEF Inv
<1>. QED BY <1>1, InvAlways, PTL

(* The semaphore the first task waits on (mod_zig_core.c:377) is not deleted by *)
(* the loading (device_storage.c:515) while it waits: the thread that would run  *)
(* the loading is blocked for longer.                                        *)
THEOREM FirstWaitIsSafe == Spec => NobodyWaitsOnDeletedSemaphore
<1>1. Inv /\ [Next]_vars => [loadSem /\ ~ loadSem' /\ boots' = boots => task[1] # "wait"]_vars
  <2>. SUFFICES ASSUME Inv, Next, loadSem, ~ loadSem', boots' = boots
                PROVE  task[1] # "wait"
    OBVIOUS
  <2>1. ASSUME NEW keep, Reboot(keep) PROVE FALSE
    BY <2>1, SMT DEF Reboot
  <2>2. CASE RunLoad
    BY <2>2, SMT DEF RunLoad, Idle, Inv, FirstIsWaitedFor
  <2>3. CASE Program
    BY <2>1, <2>3, Zenon
    DEF Program, StartNetwork, InitAgain, StartGateway, UpdateNetworkStatus, UseNetwork,
        ResetToFactory, Answers, loadVars
  <2>4. ASSUME NEW n \in Tasks, Commissioning(n) PROVE FALSE
    BY <2>1, <2>4, Zenon
    DEF Commissioning, LoadAll, LoadWaitTimesOut, InitGateway, ReadNetwork, GiveDone, loadVars
  <2>5. CASE TakeDone \/ GiveUp \/ Stack \/ Formation \/ FormationFailed
    BY <2>5, Zenon
    DEF TakeDone, GiveUp, Stack, Starts, SkipStartup, FirstStartOrReboot, Alarm, Steering, Formation,
        FormationFailed, Signal, loadVars
  <2>. QED BY <2>1, <2>2, <2>3, <2>4, <2>5 DEF Next
<1>. QED BY <1>1, InvAlways, PTL DEF Spec, NobodyWaitsOnDeletedSemaphore

--------------------------------------------------------------------------------
(* Types.                                                                  *)

(* What is not about numbers.                                              *)
Flags ==
    /\ doneToken \in BOOLEAN /\ loadSem \in BOOLEAN /\ loaded \in BOOLEAN
    /\ started \in BOOLEAN /\ formed \in BOOLEAN
    /\ inNetwork \in BOOLEAN /\ stored \in BOOLEAN

Phases ==
    /\ answer \in {"none", "ok", "raised", "already running"}
    /\ bdb \in {"off", "skip", "start", "form", "form later", "steer later", "steer",
              "refused", "idle"}
    /\ boots \in 0..MaxBoots

(* The tasks that have asked for a loading.  Each asked for one at most.      *)
Asked == {n \in Tasks : task[n] \notin {"none", "load"}}
JobsAreAskedFor == loadJobs \in Nat /\ loadJobs <= Cardinality(Asked)

LEMMA FlagsStep == Flags /\ [Next]_vars => Flags'
<1>. SUFFICES ASSUME Flags, [Next]_vars PROVE Flags'
  OBVIOUS
<1>1. ASSUME NEW keep \in BOOLEAN, Reboot(keep) PROVE Flags'
  BY <1>1, Zenon DEF Reboot, Flags
<1>2. CASE StartGateway
  BY <1>2, Zenon DEF StartGateway, Flags, loadVars, stackVars
<1>3. CASE Program
  <2>1. CASE StartNetwork
    BY <1>2, <2>1, Zenon DEF StartNetwork, Flags, loadVars, stackVars
  <2>2. CASE InitAgain
    BY <1>2, <2>2, Zenon DEF InitAgain
  <2>3. CASE UpdateNetworkStatus
    BY <2>3, Zenon DEF UpdateNetworkStatus, Flags, loadVars, stackVars
  <2>4. CASE UseNetwork
    BY <2>4, Zenon DEF UseNetwork, Flags, loadVars, stackVars
  <2>5. CASE ResetToFactory
    BY <1>1, <2>5, Zenon DEF ResetToFactory
  <2>. QED BY <1>3, <2>1, <2>2, <2>3, <2>4, <2>5 DEF Program
<1>4. CASE TakeDone \/ GiveUp \/ RunLoad
  BY <1>4, Zenon DEF TakeDone, GiveUp, RunLoad, Flags, loadVars, stackVars
<1>5. ASSUME NEW n \in Tasks, Commissioning(n) PROVE Flags'
  <2>1. CASE InitGateway(n)
    <3>1. CASE Reboot(stored)
      BY <1>1, <3>1 DEF Flags
    <3>2. CASE ~ Reboot(stored)
      BY <2>1, <3>2, Zenon DEF InitGateway, Flags, loadVars, stackVars
    <3>. QED BY <3>1, <3>2
  <2>2. CASE LoadAll(n) \/ LoadWaitTimesOut(n) \/ ReadNetwork(n) \/ GiveDone(n)
    BY <2>2, Zenon
    DEF LoadAll, LoadWaitTimesOut, ReadNetwork, GiveDone, Flags, loadVars, stackVars
  <2>. QED BY <1>5, <2>1, <2>2 DEF Commissioning
<1>6. CASE Stack \/ Formation \/ FormationFailed
  BY <1>6, Zenon
  DEF Stack, Starts, SkipStartup, FirstStartOrReboot, Alarm, Steering, Formation, FormationFailed,
      Signal, Flags, loadVars
<1>7. CASE Reboot(stored)
  BY <1>1, <1>7 DEF Flags
<1>8. CASE UNCHANGED vars
  BY <1>8, Zenon DEF vars, pyVars, loadVars, stackVars, Flags
<1>. QED BY <1>3, <1>4, <1>5, <1>6, <1>7, <1>8 DEF Next

LEMMA PhasesStep == Phases /\ [Next]_vars => Phases'
<1>. SUFFICES ASSUME Phases, [Next]_vars PROVE Phases'
  OBVIOUS
<1>1. ASSUME NEW keep, Reboot(keep) PROVE Phases'
  <2>1. boots < MaxBoots /\ boots' = boots + 1 /\ answer' = "none" /\ bdb' = "off"
    BY <1>1, Zenon DEF Reboot
  <2>2. boots \in 0..MaxBoots
    BY DEF Phases
  <2>3. boots' \in 0..MaxBoots
    BY <2>1, <2>2, GatewayAssumption
  <2>. QED BY <2>1, <2>3, Zenon DEF Phases
<1>2. CASE StartGateway
  BY <1>2, Zenon DEF StartGateway, Answers, Phases, stackVars
<1>3. CASE Program
  <2>1. CASE StartNetwork
    BY <1>2, <2>1, Zenon DEF StartNetwork, Answers, Phases, stackVars
  <2>2. CASE InitAgain
    BY <1>2, <2>2, Zenon DEF InitAgain
  <2>3. CASE UpdateNetworkStatus
    BY <2>3, Zenon DEF UpdateNetworkStatus, Answers, Phases, stackVars
  <2>4. CASE UseNetwork
    BY <2>4, Zenon DEF UseNetwork, Answers, Phases, stackVars
  <2>5. CASE ResetToFactory
    BY <1>1, <2>5, Zenon DEF ResetToFactory
  <2>. QED BY <1>3, <2>1, <2>2, <2>3, <2>4, <2>5 DEF Program
<1>4. CASE TakeDone \/ GiveUp \/ RunLoad
  BY <1>4, Zenon DEF TakeDone, GiveUp, RunLoad, Phases, pyVars, stackVars
<1>5. ASSUME NEW n \in Tasks, Commissioning(n) PROVE Phases'
  BY <1>1, <1>5, Zenon
  DEF Commissioning, InitGateway, LoadAll, LoadWaitTimesOut, ReadNetwork, GiveDone, Phases,
      pyVars, stackVars
<1>6. CASE Stack \/ Formation \/ FormationFailed
  BY <1>6, Zenon
  DEF Stack, Starts, SkipStartup, FirstStartOrReboot, Alarm, Steering, Formation, FormationFailed,
      Signal, Phases, pyVars
<1>7. CASE Reboot(stored)
  BY <1>1, <1>7
<1>8. CASE UNCHANGED vars
  BY <1>8, Zenon DEF vars, pyVars, stackVars, Phases
<1>. QED BY <1>3, <1>4, <1>5, <1>6, <1>7, <1>8 DEF Next

(* The tasks that have asked only become more, and more by one when one asks. *)
LEMMA TasksAreFinite ==
    ASSUME NEW T, T \subseteq Tasks
    PROVE  IsFiniteSet(T) /\ Cardinality(T) \in Nat /\ Cardinality(T) <= MaxStarts
<1>1. IsFiniteSet(Tasks) /\ Cardinality(Tasks) = MaxStarts
  BY GatewayAssumption, FS_Interval DEF Tasks
<1>. QED BY <1>1, FS_Subset, FS_CardinalityType

LEMMA AskedIsFinite ==
    /\ IsFiniteSet(Asked) /\ Cardinality(Asked) \in Nat /\ Cardinality(Asked) <= MaxStarts
    /\ IsFiniteSet(Asked') /\ Cardinality(Asked') \in Nat
<1>1. Asked \subseteq Tasks /\ Asked' \subseteq Tasks
  BY DEF Asked
<1>. QED BY <1>1, TasksAreFinite

LEMMA JobsFrame ==
    ASSUME JobsAreAskedFor, Asked \subseteq Asked', loadJobs' \in Nat, loadJobs' <= loadJobs
    PROVE  JobsAreAskedFor'
<1>1. Cardinality(Asked) <= Cardinality(Asked')
  BY FS_Subset, AskedIsFinite
<1>. QED BY <1>1, AskedIsFinite DEF JobsAreAskedFor

LEMMA JobsStep == Inv /\ JobsAreAskedFor /\ [Next]_vars => JobsAreAskedFor'
<1>. SUFFICES ASSUME Inv, JobsAreAskedFor, [Next]_vars PROVE JobsAreAskedFor'
  OBVIOUS
<1>0. task \in [Tasks -> {"none", "load", "wait", "init", "read", "give", "done", "failed"}]
  BY DEF Inv, Types
<1>1. ASSUME NEW keep, Reboot(keep) PROVE JobsAreAskedFor'
  <2>1. loadJobs' = 0
    BY <1>1, Zenon DEF Reboot
  <2>. QED BY <2>1, AskedIsFinite DEF JobsAreAskedFor
<1>2. CASE UNCHANGED <<task, loadJobs>>
  BY <1>2 DEF JobsAreAskedFor, Asked
<1>3. CASE StartGateway
  <2>1. UNCHANGED loadJobs
    BY <1>3, Zenon DEF StartGateway, loadVars
  <2>2. task' = task \/ \E n \in Tasks : task[n] = "none" /\ task' = [task EXCEPT ![n] = "load"]
    BY <1>3, Zenon DEF StartGateway
  <2>3. Asked \subseteq Asked'
    BY <1>0, <2>2, SMT DEF Asked
  <2>. QED BY <2>1, <2>3, JobsFrame DEF JobsAreAskedFor
<1>4. CASE Program
  <2>1. CASE StartNetwork
    BY <1>2, <1>3, <2>1, Zenon DEF StartNetwork, loadVars
  <2>2. CASE InitAgain
    BY <1>3, <2>2, Zenon DEF InitAgain
  <2>3. CASE UpdateNetworkStatus \/ UseNetwork
    BY <1>2, <2>3, Zenon DEF UpdateNetworkStatus, UseNetwork, loadVars
  <2>4. CASE ResetToFactory
    BY <1>1, <2>4, Zenon DEF ResetToFactory
  <2>. QED BY <1>4, <2>1, <2>2, <2>3, <2>4 DEF Program
<1>5. CASE TakeDone \/ GiveUp
  BY <1>2, <1>5, Zenon DEF TakeDone, GiveUp, loadVars
<1>6. CASE RunLoad
  <2>1. Asked \subseteq Asked'
    BY <1>0, <1>6, SMT DEF RunLoad, Asked
  <2>2. loadJobs' \in Nat /\ loadJobs' <= loadJobs
    BY <1>6, SMT DEF RunLoad, JobsAreAskedFor
  <2>. QED BY <2>1, <2>2, JobsFrame
<1>7. ASSUME NEW n \in Tasks, Commissioning(n) PROVE JobsAreAskedFor'
  <2>1. CASE LoadAll(n)
    <3>1. n \notin Asked /\ Asked' = Asked \cup {n}
      BY <1>0, <2>1, SMT DEF LoadAll, Goes, Asked
    <3>2. Cardinality(Asked') = Cardinality(Asked) + 1
      BY <3>1, AskedIsFinite, FS_AddElement
    <3>3. loadJobs' = loadJobs + 1 \/ loadJobs' = loadJobs
      BY <2>1, Zenon DEF LoadAll
    <3>. QED BY <3>2, <3>3, AskedIsFinite DEF JobsAreAskedFor
  <2>2. CASE InitGateway(n) /\ Reboot(stored)
    BY <1>1, <2>2
  <2>3. CASE \/ LoadWaitTimesOut(n) \/ ReadNetwork(n) \/ GiveDone(n)
             \/ InitGateway(n) /\ ~ Reboot(stored)
    <3>1. UNCHANGED loadJobs
      BY <2>3, Zenon DEF LoadWaitTimesOut, InitGateway, ReadNetwork, GiveDone, loadVars
    <3>2. \E from \in {"wait", "read", "give", "init"},
             to \in {"init", "give", "done", "read", "failed"} : Goes(n, from, to)
      BY <2>3, Zenon DEF LoadWaitTimesOut, InitGateway, ReadNetwork, GiveDone
    <3>3. Asked \subseteq Asked'
      BY <1>0, <3>2, SMT DEF Goes, Asked
    <3>. QED BY <3>1, <3>3, JobsFrame DEF JobsAreAskedFor
  <2>. QED BY <1>7, <2>1, <2>2, <2>3 DEF Commissioning
<1>8. CASE Stack \/ Formation \/ FormationFailed
  BY <1>2, <1>8, Zenon
  DEF Stack, Starts, SkipStartup, FirstStartOrReboot, Alarm, Steering, Formation, FormationFailed,
      Signal, loadVars
<1>9. CASE Reboot(stored)
  BY <1>1, <1>9
<1>10. CASE UNCHANGED vars
  BY <1>2, <1>10, Zenon DEF vars, loadVars
<1>. QED BY <1>4, <1>5, <1>6, <1>7, <1>8, <1>9, <1>10 DEF Next

(* Every variable keeps its type.  The scheduled loadings need an argument:    *)
(* each commissioning task schedules one, so there are never more than tasks   *)
(* that went that far, whatever the scheduler refuses or a loading leaves.      *)
THEOREM GatewayTyping == Spec => []TypeOK
<1>1. Init => Flags /\ Phases /\ JobsAreAskedFor
  <2>1. Init => Flags
    BY Zenon DEF Init, Flags
  <2>2. Init => Phases
    BY GatewayAssumption, SMT DEF Init, Phases
  <2>3. Init => JobsAreAskedFor
    BY AskedIsFinite DEF Init, JobsAreAskedFor
  <2>. QED BY <2>1, <2>2, <2>3
<1>2. Inv /\ Flags /\ Phases /\ JobsAreAskedFor => TypeOK
  <2>. SUFFICES ASSUME Inv, Flags, Phases, JobsAreAskedFor PROVE TypeOK
    OBVIOUS
  <2>1. /\ main \in 0..MaxStarts /\ loops \in 0..MaxStarts
        /\ task \in [Tasks -> {"none", "load", "wait", "init", "read", "give", "done", "failed"}]
    BY GatewayAssumption, SMT DEF Inv, Types, OnlyOneComesUp
  <2>2. loadJobs \in 0..MaxStarts
    BY AskedIsFinite, GatewayAssumption DEF JobsAreAskedFor
  <2>3. {doneToken, loadSem, loaded, started, formed, inNetwork, stored} \subseteq BOOLEAN
    BY Zenon DEF Flags
  <2>. QED BY <2>1, <2>2, <2>3, Zenon DEF TypeOK, Phases
<1>. QED BY <1>1, <1>2, FlagsStep, PhasesStep, JobsStep, InvAlways, PTL DEF Spec
================================================================================
