------------------------------ MODULE MessageQueue ------------------------------
(***************************************************************************)
(* Events of the Zigbee stack on their way to Python.  The Zigbee task     *)
(* puts each event in a FreeRTOS queue (send_msg_to_micropython_queue,     *)
(* mod_zig_handlers.c) and schedules the Python callback; the Python       *)
(* thread, on the other core, runs the callback, which drains the queue    *)
(* with recv() (mod_zig_cmd.c, zig_run.py).  Each queue call of either     *)
(* side is a step of its own, so the two sides interleave between them.    *)
(* An event is its number in the order the stack reported it.              *)
(***************************************************************************)
EXTENDS Naturals, Sequences, SequencesExt

CONSTANTS
    QueueSize,      \* message_queue length, 32 in the code
    SchedDepth,     \* MICROPY_SCHEDULER_DEPTH of the MicroPython port
    MaxSent,        \* bound: events reported in a behaviour
    OtherJobs,      \* do other jobs (device saves, loads, timers) use the scheduler?
    HandlerRaises,  \* may the Python handler, or a recv() with a bad list, raise?
    EarlyEvents     \* may events come before set_recv_callback?  zig_run.py sets it first

ASSUME QueueAssumption ==
    /\ QueueSize \in Nat \ {0}
    /\ SchedDepth \in Nat \ {0}
    /\ MaxSent \in Nat
    /\ OtherJobs \in BOOLEAN
    /\ HandlerRaises \in BOOLEAN
    /\ EarlyEvents \in BOOLEAN

VARIABLES
    queue,          \* self->message_queue
    callback,       \* is self->rx_callback set?
    sched,          \* MicroPython's queue of scheduled jobs
    pc,             \* where the Zigbee task is in send_msg_to_micropython_queue
    sent,           \* events reported so far; the last one is the task's `msg`
    py,             \* what the Python thread does
    received,       \* events recv() returned, in order
    wasted,         \* events recv() took and then raised an error instead
    missed          \* history: did the last call of Python come to nothing?

vars == <<queue, callback, sched, pc, sent, py, received, wasted, missed>>
taskVars == <<pc, sent>>
pyVars == <<py, received, wasted>>

Event == 1..MaxSent

TypeOK ==
    /\ queue \in Seq(Event) /\ Len(queue) <= QueueSize
    /\ callback \in BOOLEAN
    /\ sched \in Seq({"rx", "other"}) /\ Len(sched) <= SchedDepth
    /\ pc \in {"idle", "full", "resend", "wake"}
    /\ sent \in 0..MaxSent
    /\ py \in {"main", "on_msg"}
    /\ received \in Seq(Event)
    /\ wasted \in SUBSET Event
    /\ missed \in BOOLEAN

Init ==
    /\ queue = <<>> /\ callback = FALSE /\ sched = <<>>
    /\ pc = "idle" /\ sent = 0
    /\ py = "main" /\ received = <<>> /\ wasted = {}
    /\ missed = FALSE

(* Mutant: the scheduler takes any number of jobs.                         *)
ScheduleAlways(job) == sched' = Append(sched, job)

(* mp_sched_schedule refuses a job when the scheduler is full.             *)
Schedule(job) ==
    sched' = IF Len(sched) < SchedDepth THEN Append(sched, job) ELSE sched

--------------------------------------------------------------------------------
(* The Zigbee task.                                                        *)

(* Mutant: a full queue drops the new event instead of the oldest.          *)
SendOrGiveUp ==
    /\ pc = "idle" /\ sent < MaxSent
    /\ callback \/ EarlyEvents
    /\ sent' = sent + 1
    /\ queue' = IF Len(queue) < QueueSize THEN Append(queue, sent') ELSE queue
    /\ pc' = "wake"
    /\ UNCHANGED <<callback, sched, pyVars, missed>>

(* An event is reported and offered to the queue.                          *)
Send ==
    /\ pc = "idle" /\ sent < MaxSent
    /\ callback \/ EarlyEvents
    /\ sent' = sent + 1
    /\ IF Len(queue) < QueueSize
       THEN queue' = Append(queue, sent') /\ pc' = "wake"
       ELSE UNCHANGED queue /\ pc' = "full"
    /\ UNCHANGED <<callback, sched, pyVars, missed>>

(* Mutant: nothing is taken out.                                           *)
DropNothing ==
    /\ pc = "full"
    /\ pc' = "resend"
    /\ UNCHANGED <<queue, callback, sched, sent, pyVars, missed>>

(* The queue was full: the oldest message is taken out, if one is left.    *)
DropOldest ==
    /\ pc = "full"
    /\ queue' = IF queue = <<>> THEN queue ELSE Tail(queue)
    /\ pc' = "resend"
    /\ UNCHANGED <<callback, sched, sent, pyVars, missed>>

(* Mutant: the event goes to the front of the queue.                       *)
ResendToFront ==
    /\ pc = "resend"
    /\ queue' = IF Len(queue) < QueueSize THEN <<sent>> \o queue ELSE queue
    /\ pc' = "wake"
    /\ UNCHANGED <<callback, sched, sent, pyVars, missed>>

(* The second attempt; its result is not looked at.                        *)
Resend ==
    /\ pc = "resend"
    /\ queue' = IF Len(queue) < QueueSize THEN Append(queue, sent) ELSE queue
    /\ pc' = "wake"
    /\ UNCHANGED <<callback, sched, sent, pyVars, missed>>

(* The callback is scheduled, if one is set; a refusal is not looked at.   *)
(* The call comes to nothing if no callback is set, and if the scheduler is *)
(* full of other jobs.                                                     *)
Wake ==
    /\ pc = "wake"
    /\ pc' = "idle"
    /\ IF callback THEN Schedule("rx") ELSE UNCHANGED sched
    /\ missed' = (\/ ~ callback
                  \/ Len(sched) >= SchedDepth /\ "rx" \notin ToSet(sched))
    /\ UNCHANGED <<queue, callback, sent, pyVars>>

ZigbeeTask == Send \/ DropOldest \/ Resend \/ Wake

--------------------------------------------------------------------------------
(* The Python thread.                                                      *)

(* set_recv_callback                                                       *)
SetRecvCallback ==
    /\ py = "main" /\ ~ callback
    /\ callback' = TRUE
    /\ UNCHANGED <<queue, sched, taskVars, pyVars, missed>>

(* The interpreter runs the job at the head of the scheduler.              *)
RunCallback ==
    /\ py = "main" /\ sched # <<>> /\ Head(sched) = "rx"
    /\ sched' = Tail(sched)
    /\ py' = "on_msg" /\ missed' = FALSE
    /\ UNCHANGED <<queue, callback, taskVars, received, wasted>>

RunOther ==
    /\ py = "main" /\ sched # <<>> /\ Head(sched) = "other"
    /\ sched' = Tail(sched)
    /\ UNCHANGED <<queue, callback, taskVars, pyVars, missed>>

(* Mutant: the message is looked at and left in the queue.                  *)
RecvPeek ==
    /\ queue # <<>>
    /\ received' = Append(received, Head(queue))
    /\ UNCHANGED <<queue, callback, sched, taskVars, wasted>>

(* recv() finds a message and returns it.                                  *)
Recv ==
    /\ queue # <<>>
    /\ queue' = Tail(queue)
    /\ received' = Append(received, Head(queue))
    /\ UNCHANGED <<callback, sched, taskVars, wasted>>

(* Mutant: the callback handles one message and leaves.                    *)
HandleOne ==
    /\ py = "on_msg"
    /\ Recv
    /\ py' = "main"
    /\ UNCHANGED missed

(* on_msg handles messages until recv() finds none; an exception in the     *)
(* handling of one leaves the loop and those that wait.                    *)
HandleMessage ==
    /\ py = "on_msg"
    /\ Recv
    /\ \/ py' = "on_msg" /\ UNCHANGED missed
       \/ HandlerRaises /\ py' = "main" /\ missed' = TRUE

QueueDrained ==
    /\ py = "on_msg" /\ queue = <<>>
    /\ py' = "main"
    /\ UNCHANGED <<queue, callback, sched, taskVars, received, wasted, missed>>

(* The program calls recv() itself between two jobs.                       *)
ProgramRecv ==
    /\ py = "main"
    /\ Recv
    /\ UNCHANGED <<py, missed>>

(* recv(list=...) takes the message before it looks at the list: with a     *)
(* list it does not accept it raises and the message is gone.              *)
RecvIntoBadList ==
    /\ py = "main" /\ HandlerRaises /\ queue # <<>>
    /\ queue' = Tail(queue)
    /\ wasted' = wasted \cup {Head(queue)}
    /\ UNCHANGED <<callback, sched, taskVars, py, received, missed>>

(* Anybody else schedules a job.                                           *)
ScheduleOther ==
    /\ OtherJobs /\ Len(sched) < SchedDepth
    /\ Schedule("other")
    /\ UNCHANGED <<queue, callback, taskVars, pyVars, missed>>

PythonThread ==
    \/ SetRecvCallback \/ RunCallback \/ RunOther
    \/ HandleMessage \/ QueueDrained \/ ProgramRecv \/ RecvIntoBadList

Next == ZigbeeTask \/ PythonThread \/ ScheduleOther

Spec == Init /\ [][Next]_vars

(* The Zigbee task finishes a call it began; the interpreter runs pending   *)
(* jobs and finishes the callback.  The program owes nobody a recv() call,  *)
(* the stack owes nobody an event.                                         *)
Fairness ==
    /\ WF_vars(DropOldest) /\ WF_vars(Resend) /\ WF_vars(Wake)
    /\ WF_vars(RunCallback) /\ WF_vars(RunOther)
    /\ WF_vars(HandleMessage) /\ WF_vars(QueueDrained)

FairSpec == Spec /\ Fairness

--------------------------------------------------------------------------------
Ascending(s) == \A i, j \in DOMAIN s : i < j => s[i] < s[j]

(* Python sees events in the order the stack reported them and none twice,   *)
(* although the task takes messages out of the queue while Python reads it.  *)
InOrder ==
    /\ Ascending(received) /\ Ascending(queue)
    /\ \A i \in DOMAIN received, j \in DOMAIN queue : received[i] < queue[j]
    /\ \A e \in wasted : e \notin ToSet(received) \cup ToSet(queue)

(* The retry after dropping the oldest message always finds room: nothing    *)
(* but the task itself fills the queue, so the second xQueueSend, whose      *)
(* result is ignored (mod_zig_handlers.c:88), cannot fail.                   *)
ResendFits == pc = "resend" => Len(queue) < QueueSize

(* Overload costs old events, never the newest one: when the call returns,   *)
(* the event is in the queue or Python already took it.                      *)
NewestSurvives ==
    pc \in {"wake", "idle"} /\ sent > 0 =>
        sent \in ToSet(queue) \cup ToSet(received) \cup wasted

(* An event that waits in the queue is heard of without a new one: the       *)
(* callback runs or is scheduled, unless the last call of Python came to     *)
(* nothing.  Nothing else strands an event: not Python finding the queue     *)
(* empty while the task puts a message in, not a refusal by a scheduler that  *)
(* holds the callback already, and not a call that came to nothing before.   *)
NoStrandedEvent ==
    pc = "idle" /\ queue # <<>> =>
        py = "on_msg" \/ "rx" \in ToSet(sched) \/ missed

(* "Process all available messages" (zig_run.py:263), "Call Micropython       *)
(* callback" (mod_zig_handlers.c:91): whenever an event waits and the task is *)
(* not about to schedule the callback, the callback runs or is scheduled.     *)
AllAvailableAreProcessed ==
    pc = "idle" /\ queue # <<>> => py = "on_msg" \/ "rx" \in ToSet(sched)

(* An event that entered the queue leaves it, unless a call of Python comes    *)
(* to nothing: no event, no recv() and no end of other jobs is needed.         *)
EventsLeaveTheQueue ==
    \A e \in Event : e \in ToSet(queue) ~> e \notin ToSet(queue) \/ missed

(* The queue is a lossy FIFO as the rest of the system sees it.  A message    *)
(* that a bad recv() took counts as discarded.                               *)
Entered == IF pc \in {"full", "resend"} THEN sent - 1 ELSE sent
Fifo == INSTANCE LossyFifo WITH
            Capacity <- QueueSize, entered <- Entered, buffer <- queue, taken <- received
RefinesLossyFifo == Fifo!Spec
================================================================================
