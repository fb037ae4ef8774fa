------------------------------- MODULE SaveQueue -------------------------------
(***************************************************************************)
(* The save queue of device_storage.c at the grain of single FreeRTOS      *)
(* calls.  A FreeRTOS queue cannot be searched, so queue_contains_device   *)
(* takes every address out of save_event_queue into a queue of its own and *)
(* sends them back one by one before the caller pushes.  Two tasks on two  *)
(* cores do so: the Zigbee task after each signal and answer, the Python   *)
(* thread for the program.  Nobody else touches the queue.                 *)
(***************************************************************************)
EXTENDS Naturals, Sequences, SequencesExt

CONSTANTS
    Zigbee, Python, \* the two tasks that save
    Addr,           \* network addresses of known devices
    QueueSize,      \* SAVE_EVENT_QUEUE_SIZE, 10 in the code
    MaxCalls        \* bound: calls in a behaviour

ASSUME SaveQueueAssumption ==
    /\ QueueSize \in Nat \ {0} /\ MaxCalls \in Nat
    /\ Zigbee # Python

Caller == {Zigbee, Python}

VARIABLES
    queue,      \* save_event_queue
    temp,       \* the temporary queue of each caller
    pc,         \* where each caller is
    addr,       \* the address it saves
    found,      \* has it come across that address?
    calls,      \* history: calls so far
    accepted,   \* history: the addresses ever pushed
    pushes,     \* history: how many pushes succeeded
    refused,    \* history: how many pushes found the queue full
    overlapped  \* history: have two calls ever been under way at once?

callers == <<temp, pc, addr, found>>
history == <<accepted, pushes, refused>>
vars == <<queue, callers, calls, history, overlapped>>

TypeOK ==
    /\ queue \in Seq(Addr) /\ Len(queue) <= QueueSize
    /\ temp \in [Caller -> Seq(Addr)]
    /\ \A c \in Caller : Len(temp[c]) <= QueueSize /\ (temp[c] # <<>> => pc[c] \in {"empty", "restore"})
    /\ pc \in [Caller -> {"idle", "empty", "restore", "push"}]
    /\ addr \in [Caller -> Addr]
    /\ found \in [Caller -> BOOLEAN]
    /\ calls \in 0..MaxCalls
    /\ accepted \in SUBSET Addr /\ pushes \in Nat /\ refused \in Nat
    /\ overlapped \in BOOLEAN

Init ==
    /\ queue = <<>> /\ temp = [c \in Caller |-> <<>>]
    /\ pc = [c \in Caller |-> "idle"]
    /\ addr \in [Caller -> Addr] /\ found = [c \in Caller |-> FALSE]
    /\ calls = 0 /\ accepted = {} /\ pushes = 0 /\ refused = 0 /\ overlapped = FALSE

(* xQueueSend with a timeout of 0, its result ignored.                      *)
Sent(q, a) == IF Len(q) < QueueSize THEN Append(q, a) ELSE q

(* device_storage_save of a known device.                                  *)
Begin(c, a) ==
    /\ pc[c] = "idle" /\ calls < MaxCalls
    /\ pc' = [pc EXCEPT ![c] = "empty"]
    /\ addr' = [addr EXCEPT ![c] = a]
    /\ found' = [found EXCEPT ![c] = FALSE]
    /\ calls' = calls + 1
    /\ overlapped' = (overlapped \/ \E d \in Caller \ {c} : pc[d] # "idle")
    /\ UNCHANGED <<queue, temp, history>>

(* Mutant: the addresses go back into the queue that is being emptied.       *)
TakeOutAndBack(c) ==
    /\ pc[c] = "empty" /\ queue # <<>>
    /\ queue' = Append(Tail(queue), Head(queue))
    /\ found' = [found EXCEPT ![c] = @ \/ Head(queue) = addr[c]]
    /\ UNCHANGED <<temp, pc, addr, calls, history, overlapped>>

(* Mutant: the address looked for is not kept.                             *)
TakeOutOthers(c) ==
    /\ pc[c] = "empty" /\ queue # <<>>
    /\ queue' = Tail(queue)
    /\ found' = [found EXCEPT ![c] = @ \/ Head(queue) = addr[c]]
    /\ temp' = IF Head(queue) = addr[c] THEN temp
               ELSE [temp EXCEPT ![c] = Sent(@, Head(queue))]
    /\ UNCHANGED <<pc, addr, calls, history, overlapped>>

(* The first loop.  What it takes out goes into memory of its own first and    *)
(* from there into the temporary queue; nobody can see the difference.        *)
TakeOut(c) ==
    /\ pc[c] = "empty" /\ queue # <<>>
    /\ queue' = Tail(queue)
    /\ found' = [found EXCEPT ![c] = @ \/ Head(queue) = addr[c]]
    /\ temp' = [temp EXCEPT ![c] = Sent(@, Head(queue))]
    /\ UNCHANGED <<pc, addr, calls, history, overlapped>>

TakenOut(c) ==
    /\ pc[c] = "empty" /\ queue = <<>>
    /\ pc' = [pc EXCEPT ![c] = "restore"]
    /\ UNCHANGED <<queue, temp, addr, found, calls, history, overlapped>>

(* The second loop.                                                        *)
PutBack(c) ==
    /\ pc[c] = "restore" /\ temp[c] # <<>>
    /\ queue' = Sent(queue, Head(temp[c]))
    /\ temp' = [temp EXCEPT ![c] = Tail(@)]
    /\ UNCHANGED <<pc, addr, found, calls, history, overlapped>>

(* Mutants: the loop is left after one round; what was found is forgotten.    *)
RestoredAfterOne(c) ==
    /\ pc[c] = "restore"
    /\ pc' = [pc EXCEPT ![c] = IF found[c] THEN "idle" ELSE "push"]
    /\ UNCHANGED <<queue, temp, addr, found, calls, history, overlapped>>

RestoredUnfound(c) ==
    /\ pc[c] = "restore" /\ temp[c] = <<>>
    /\ pc' = [pc EXCEPT ![c] = "push"]
    /\ UNCHANGED <<queue, temp, addr, found, calls, history, overlapped>>

(* An address that was found is not pushed.                                 *)
Restored(c) ==
    /\ pc[c] = "restore" /\ temp[c] = <<>>
    /\ pc' = [pc EXCEPT ![c] = IF found[c] THEN "idle" ELSE "push"]
    /\ UNCHANGED <<queue, temp, addr, found, calls, history, overlapped>>

(* Mutant: an address is turned away although one more would fit.            *)
PushBelow(c) ==
    /\ pc[c] = "push"
    /\ pc' = [pc EXCEPT ![c] = "idle"]
    /\ IF Len(queue) + 1 < QueueSize
       THEN /\ queue' = Append(queue, addr[c])
            /\ accepted' = accepted \cup {addr[c]} /\ pushes' = pushes + 1
            /\ UNCHANGED refused
       ELSE refused' = refused + 1 /\ UNCHANGED <<queue, accepted, pushes>>
    /\ UNCHANGED <<temp, addr, found, calls, overlapped>>

(* The push, whose failure the caller is told (ESP_ERR_NO_MEM).              *)
Push(c) ==
    /\ pc[c] = "push"
    /\ pc' = [pc EXCEPT ![c] = "idle"]
    /\ IF Len(queue) < QueueSize
       THEN /\ queue' = Append(queue, addr[c])
            /\ accepted' = accepted \cup {addr[c]} /\ pushes' = pushes + 1
            /\ UNCHANGED refused
       ELSE refused' = refused + 1 /\ UNCHANGED <<queue, accepted, pushes>>
    /\ UNCHANGED <<temp, addr, found, calls, overlapped>>

Step(c) == TakeOut(c) \/ TakenOut(c) \/ PutBack(c) \/ Restored(c) \/ Push(c)

Next == \E c \in Caller : Step(c) \/ \E a \in Addr : Begin(c, a)

Spec == Init /\ [][Next]_vars

(* A task that has begun a call goes on with it: none of the calls waits.     *)
FairSpec == Spec /\ \A c \in Caller : WF_vars(Step(c))

--------------------------------------------------------------------------------
Present == ToSet(queue) \cup UNION {ToSet(temp[c]) : c \in Caller}

(* As long as no more pushes succeeded than the queue has places, no address   *)
(* that was ever accepted is forgotten, however the emptying and refilling of   *)
(* two callers mix: each is in the queue or on its way back to it.  (A         *)
(* forgotten address would let its device take a second place.)               *)
NothingIsForgotten == pushes <= QueueSize => accepted \subseteq Present

(* A save is refused for want of room only after as many pushes succeeded as   *)
(* the queue has places: mixing calls may waste places, it makes none vanish.  *)
RefusedOnlyWhenUsedUp == refused > 0 => pushes >= QueueSize

(* A call comes to its end even if another task sends back what it takes out.  *)
CallsEnd == \A c \in Caller : pc[c] # "idle" ~> pc[c] = "idle"

(* Until two calls have overlapped, the loops are an atomic test and push: the *)
(* queue is the set DeviceStorage takes it for.                              *)
Set == INSTANCE SaveSet WITH Size <- QueueSize, held <- Present, turnedAway <- refused

AtomicUntilOverlap == [][~ overlapped' => Set!Next]_<<Present, refused>>

--------------------------------------------------------------------------------
(* Statements of the repository the runs refute.                           *)

(* "Check if device is already in queue" (device_storage.c:185): no address    *)
(* takes two places.                                                        *)
NoDuplicates == \A i, j \in DOMAIN queue : queue[i] = queue[j] => i = j
================================================================================
