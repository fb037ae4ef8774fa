--------------------------- MODULE MessageQueueProofs ---------------------------
(***************************************************************************)
(* Proofs about the event queue for every queue length, scheduler depth    *)
(* and number of events.                                                   *)
(***************************************************************************)
EXTENDS MessageQueue, SequenceFacts, TLAPS

--------------------------------------------------------------------------------
(* What Append and Tail do to the order of the members.                    *)

LEMMA AppendAscends ==
    ASSUME NEW s \in Seq(Event), NEW e \in Event, Ascending(s), \A x \in ToSet(s) : x < e
    PROVE  Ascending(Append(s, e))
<1> DEFINE t == Append(s, e)
<1>1. /\ Len(s) \in Nat /\ DOMAIN s = 1..Len(s)
      /\ t \in Seq(Event) /\ Len(t) = Len(s) + 1
      /\ \A i \in 1..Len(s) : t[i] = s[i]
      /\ t[Len(s) + 1] = e
    BY LenProperties, AppendProperties
<1>2. DOMAIN t = 1..(Len(s) + 1)
    BY <1>1, LenProperties
<1>3. \A i \in 1..Len(s) : s[i] < e
    BY <1>1 DEF ToSet
<1>4. \A i, j \in 1..Len(s) : i < j => s[i] < s[j]
    BY <1>1 DEF Ascending
<1> HIDE DEF t
<1>5. \A i, j \in 1..(Len(s) + 1) : i < j => t[i] < t[j]
    BY <1>1, <1>3, <1>4
<1>6. QED
    BY <1>2, <1>5 DEF Ascending, t

LEMMA TailAscends ==
    ASSUME NEW s \in Seq(Event), s # <<>>, Ascending(s)
    PROVE  Ascending(Tail(s)) /\ \A x \in ToSet(Tail(s)) : Head(s) < x
<1> DEFINE t == Tail(s)
<1>1. /\ Len(s) \in Nat \ {0} /\ DOMAIN s = 1..Len(s)
      /\ t \in Seq(Event) /\ Len(t) = Len(s) - 1
      /\ \A i \in 1..(Len(s) - 1) : t[i] = s[i + 1]
    BY LenProperties, EmptySeq, HeadTailProperties
<1>2. DOMAIN t = 1..(Len(s) - 1)
    BY <1>1, LenProperties
<1>3. Head(s) = s[1]
    OBVIOUS
<1>4. \A i, j \in 1..Len(s) : i < j => s[i] < s[j]
    BY <1>1 DEF Ascending
<1> HIDE DEF t
<1>5. \A i, j \in 1..(Len(s) - 1) : i < j => t[i] < t[j]
    BY <1>1, <1>4
<1>6. \A i \in 1..(Len(s) - 1) : s[1] < t[i]
    BY <1>1, <1>4
<1>7. QED
    BY <1>2, <1>3, <1>5, <1>6 DEF Ascending, ToSet, t

--------------------------------------------------------------------------------
(* Typing.                                                                 *)

LEMMA ScheduleKeeps ==
    ASSUME TypeOK, NEW job \in {"rx", "other"}, Schedule(job)
    PROVE  sched' \in Seq({"rx", "other"}) /\ Len(sched') <= SchedDepth
<1>1. Len(sched) \in Nat /\ SchedDepth \in Nat
    BY LenProperties, QueueAssumption DEF TypeOK
<1>2. CASE Len(sched) < SchedDepth
    BY <1>1, <1>2, AppendProperties DEF Schedule, TypeOK
<1>3. CASE ~ (Len(sched) < SchedDepth)
    BY <1>3 DEF Schedule, TypeOK
<1>4. QED
    BY <1>2, <1>3

LEMMA SchedTail ==
    ASSUME TypeOK, sched # <<>>
    PROVE  Tail(sched) \in Seq({"rx", "other"}) /\ Len(Tail(sched)) <= SchedDepth
<1>1. Len(sched) \in Nat /\ SchedDepth \in Nat
    BY LenProperties, QueueAssumption DEF TypeOK
<1>2. QED
    BY <1>1, HeadTailProperties DEF TypeOK

LEMMA QueueTail ==
    ASSUME TypeOK, queue # <<>>
    PROVE  /\ Tail(queue) \in Seq(Event) /\ Head(queue) \in Event
           /\ Len(Tail(queue)) < Len(queue) /\ Len(Tail(queue)) < QueueSize
<1>1. Len(queue) \in Nat /\ QueueSize \in Nat
    BY LenProperties, QueueAssumption DEF TypeOK
<1>2. QED
    BY <1>1, HeadTailProperties DEF TypeOK

LEMMA RecvKeeps ==
    ASSUME TypeOK, Recv
    PROVE  queue' \in Seq(Event) /\ Len(queue') <= QueueSize /\ received' \in Seq(Event)
<1>1. Len(Tail(queue)) <= QueueSize
    BY QueueTail, LenProperties, QueueAssumption DEF Recv, TypeOK
<1>2. QED
    BY <1>1, QueueTail, AppendProperties DEF Recv, TypeOK

(* A call of the task is about an event that was reported.                 *)
Typed == TypeOK /\ (pc # "idle" => sent > 0)

LEMMA TaskTyped ==
    ASSUME Typed, ZigbeeTask
    PROVE  Typed'
<1>1. Len(queue) \in Nat /\ sent \in Nat /\ QueueSize \in Nat /\ MaxSent \in Nat
    BY LenProperties, QueueAssumption DEF Typed, TypeOK
<1>2. ASSUME NEW e \in Event, Len(queue) < QueueSize
      PROVE  Append(queue, e) \in Seq(Event) /\ Len(Append(queue, e)) <= QueueSize
    BY <1>1, <1>2, AppendProperties DEF Typed, TypeOK
<1>3. CASE Send
    <2>1. sent' \in 0..MaxSent /\ sent' > 0 /\ sent' \in Event
        BY <1>1, <1>3 DEF Send, Event
    <2>2. queue' \in Seq(Event) /\ Len(queue') <= QueueSize
        BY <1>2, <1>3, <2>1 DEF Send, Typed, TypeOK
    <2>3. pc' \in {"wake", "full"}
        BY <1>3 DEF Send
    <2>4. QED
        BY <1>3, <2>1, <2>2, <2>3 DEF Send, Typed, TypeOK, pyVars
<1>4. CASE DropOldest
    <2>1. queue' \in Seq(Event) /\ Len(queue') <= QueueSize
        <3>1. CASE queue = <<>>
            BY <1>4, <3>1 DEF DropOldest, Typed, TypeOK
        <3>2. CASE queue # <<>>
            BY <1>1, <1>4, <3>2, QueueTail, LenProperties DEF DropOldest, Typed, TypeOK
        <3>3. QED
            BY <3>1, <3>2
    <2>2. QED
        BY <1>4, <2>1 DEF DropOldest, Typed, TypeOK, pyVars
<1>5. CASE Resend
    <2>1. sent \in Event
        BY <1>1, <1>5 DEF Resend, Typed, TypeOK, Event
    <2>2. queue' \in Seq(Event) /\ Len(queue') <= QueueSize
        BY <1>2, <1>5, <2>1 DEF Resend, Typed, TypeOK
    <2>3. QED
        BY <1>5, <2>2 DEF Resend, Typed, TypeOK, pyVars
<1>6. CASE Wake
    <2>1. sched' \in Seq({"rx", "other"}) /\ Len(sched') <= SchedDepth
        <3>1. CASE callback
            BY <1>6, <3>1, ScheduleKeeps DEF Wake, Typed
        <3>2. CASE ~ callback
            BY <1>6, <3>2 DEF Wake, Typed, TypeOK
        <3>3. QED
            BY <3>1, <3>2
    <2>2. QED
        BY <1>6, <2>1 DEF Wake, Typed, TypeOK, pyVars
<1>7. QED
    BY <1>3, <1>4, <1>5, <1>6 DEF ZigbeeTask

LEMMA PythonTyped ==
    ASSUME Typed, PythonThread
    PROVE  Typed'
<1>1. CASE SetRecvCallback
    BY <1>1 DEF SetRecvCallback, Typed, TypeOK, taskVars, pyVars
<1>2. CASE RunCallback
    BY <1>2, SchedTail DEF RunCallback, Typed, TypeOK, taskVars
<1>3. CASE RunOther
    BY <1>3, SchedTail DEF RunOther, Typed, TypeOK, taskVars, pyVars
<1>4. CASE HandleMessage
    <2>1. py' \in {"main", "on_msg"} /\ missed' \in BOOLEAN /\ Recv
        BY <1>4 DEF HandleMessage, Typed, TypeOK
    <2>2. QED
        BY <2>1, RecvKeeps DEF Recv, Typed, TypeOK, taskVars
<1>5. CASE QueueDrained
    BY <1>5 DEF QueueDrained, Typed, TypeOK, taskVars
<1>6. CASE ProgramRecv
    BY <1>6, RecvKeeps DEF ProgramRecv, Recv, Typed, TypeOK, taskVars
<1>7. CASE RecvIntoBadList
    <2>1. Len(Tail(queue)) <= QueueSize
        BY <1>7, QueueTail, LenProperties, QueueAssumption DEF RecvIntoBadList, Typed, TypeOK
    <2>2. QED
        BY <1>7, <2>1, QueueTail DEF RecvIntoBadList, Typed, TypeOK, taskVars
<1>8. QED
    BY <1>1, <1>2, <1>3, <1>4, <1>5, <1>6, <1>7 DEF PythonThread

LEMMA TypedInvariant == Spec => []Typed
<1>1. Init => Typed
    <2> SUFFICES ASSUME Init PROVE Typed
        OBVIOUS
    <2>1. queue \in Seq(Event) /\ sched \in Seq({"rx", "other"}) /\ received \in Seq(Event)
        BY EmptySeq DEF Init
    <2>2. Len(queue) = 0 /\ Len(sched) = 0
        BY EmptySeq DEF Init
    <2>3. Len(queue) <= QueueSize /\ Len(sched) <= SchedDepth /\ sent \in 0..MaxSent
        BY <2>2, QueueAssumption DEF Init
    <2>4. QED
        BY <2>1, <2>3 DEF Init, Typed, TypeOK
<1>2. Typed /\ [Next]_vars => Typed'
    <2> SUFFICES ASSUME Typed, [Next]_vars PROVE Typed'
        OBVIOUS
    <2>1. CASE ScheduleOther
        BY <2>1, ScheduleKeeps DEF ScheduleOther, Typed, TypeOK, taskVars, pyVars
    <2>2. CASE UNCHANGED vars
        BY <2>2 DEF vars, Typed, TypeOK
    <2>3. QED
        BY <2>1, <2>2, TaskTyped, PythonTyped DEF Next
<1>3. QED
    BY <1>1, <1>2, PTL DEF Spec

(* The queue and the scheduler never outgrow their arrays, for every size.  *)
THEOREM Typing == Spec => []TypeOK
<1>1. Typed => TypeOK
    BY DEF Typed
<1>2. QED
    BY <1>1, TypedInvariant, PTL

--------------------------------------------------------------------------------
(* Order.                                                                  *)

(* InOrder with members for positions.                                     *)
Ordered ==
    /\ Ascending(received) /\ Ascending(queue)
    /\ \A x \in ToSet(received), y \in ToSet(queue) : x < y
    /\ \A x \in wasted : x \notin ToSet(received) /\ x \notin ToSet(queue)

LEMMA OrderView == Ordered <=> InOrder
<1>1. Ordered => InOrder
    BY DEF Ordered, InOrder, ToSet
<1>2. InOrder => Ordered
    BY DEF Ordered, InOrder, ToSet
<1>3. QED
    BY <1>1, <1>2

(* Every event on its way, delivered or lost was reported, and the task is   *)
(* still to put the last one in when it found the queue full.               *)
Placed == ToSet(received) \cup ToSet(queue) \cup wasted
Fresh ==
    /\ \A x \in Placed : x <= sent
    /\ pc \in {"full", "resend"} => \A x \in Placed : x < sent

Inv == Typed /\ Ordered /\ Fresh /\ ResendFits /\ NewestSurvives

LEMMA SeqMembers ==
    ASSUME NEW S, NEW s \in Seq(S)
    PROVE  ToSet(s) \subseteq S
    BY LenProperties, ElementOfSeq DEF ToSet

LEMMA PlacedEvents ==
    ASSUME TypeOK
    PROVE  Placed \subseteq Event /\ Event \subseteq Nat /\ sent \in Nat
<1>1. ToSet(received) \subseteq Event /\ ToSet(queue) \subseteq Event
    BY SeqMembers DEF TypeOK
<1>2. Event \subseteq Nat /\ sent \in Nat
    BY QueueAssumption DEF Event, TypeOK
<1>3. QED
    BY <1>1, <1>2 DEF Placed, TypeOK

(* An event younger than all others goes to the end of the queue.           *)
LEMMA EnqueueKeeps ==
    ASSUME TypeOK, Ordered, NEW e \in Event, \A x \in Placed : x < e,
           queue' = Append(queue, e), UNCHANGED <<received, wasted>>
    PROVE  Ordered' /\ ToSet(queue') = ToSet(queue) \cup {e} /\ Placed' = Placed \cup {e}
<1>1. queue \in Seq(Event) /\ e \in Nat
    BY PlacedEvents DEF TypeOK
<1>2. ToSet(queue') = ToSet(queue) \cup {e}
    BY <1>1, AppendMembers
<1>3. Ascending(queue')
    BY <1>1, AppendAscends DEF Ordered, Placed
<1>4. \A x \in wasted : x # e
    BY <1>1 DEF Placed
<1>5. \A x \in ToSet(received), y \in ToSet(queue') : x < y
    BY <1>2 DEF Ordered, Placed
<1>6. QED
    BY <1>2, <1>3, <1>4, <1>5 DEF Ordered, Placed

(* The oldest event leaves the queue and is discarded.                      *)
LEMMA DiscardKeeps ==
    ASSUME TypeOK, Ordered, queue # <<>>,
           queue' = Tail(queue), UNCHANGED <<received, wasted>>
    PROVE  Ordered' /\ Placed' \subseteq Placed
<1>1. queue \in Seq(Event)
    BY DEF TypeOK
<1>2. ToSet(queue') \subseteq ToSet(queue)
    BY <1>1, TailMembers
<1>3. Ascending(queue')
    BY <1>1, TailAscends DEF Ordered
<1>4. QED
    BY <1>2, <1>3 DEF Ordered, Placed

(* The oldest event leaves the queue and is received.                       *)
LEMMA ReceiveKeeps ==
    ASSUME TypeOK, Ordered, Recv
    PROVE  Ordered' /\ Placed' = Placed
<1>1. /\ queue \in Seq(Event) /\ queue # <<>> /\ received \in Seq(Event)
      /\ queue' = Tail(queue) /\ received' = Append(received, Head(queue))
      /\ wasted' = wasted
    BY DEF TypeOK, Recv
<1>2. Head(queue) \in Event /\ ToSet(queue) = {Head(queue)} \cup ToSet(queue')
    BY <1>1, TailMembers
<1>3. Ascending(queue') /\ \A x \in ToSet(queue') : Head(queue) < x
    BY <1>1, TailAscends DEF Ordered
<1>4. ToSet(received') = ToSet(received) \cup {Head(queue)}
    BY <1>1, <1>2, AppendMembers
<1>5. Ascending(received')
    BY <1>1, <1>2, AppendAscends DEF Ordered
<1>6. \A x \in ToSet(received'), y \in ToSet(queue') : x < y
    BY <1>2, <1>3, <1>4 DEF Ordered
<1>7. QED
    BY <1>1, <1>2, <1>3, <1>4, <1>5, <1>6 DEF Ordered, Placed

(* The oldest event leaves the queue and is lost in a call that raises.      *)
LEMMA WasteKeeps ==
    ASSUME TypeOK, Ordered, RecvIntoBadList
    PROVE  Ordered' /\ Placed' = Placed
<1>1. /\ queue \in Seq(Event) /\ queue # <<>> /\ received' = received
      /\ queue' = Tail(queue) /\ wasted' = wasted \cup {Head(queue)}
    BY DEF TypeOK, RecvIntoBadList
<1>2. Head(queue) \in Nat /\ ToSet(queue) = {Head(queue)} \cup ToSet(queue')
    BY <1>1, TailMembers, PlacedEvents
<1>3. Ascending(queue') /\ \A x \in ToSet(queue') : Head(queue) < x
    BY <1>1, TailAscends DEF Ordered
<1>4. Head(queue) \notin ToSet(queue') /\ Head(queue) \notin ToSet(received)
    BY <1>2, <1>3 DEF Ordered
<1>5. QED
    BY <1>1, <1>2, <1>3, <1>4 DEF Ordered, Placed

LEMMA TaskOrder ==
    ASSUME Inv, ZigbeeTask
    PROVE  Ordered' /\ Fresh' /\ ResendFits' /\ NewestSurvives'
<1>1. TypeOK /\ sent \in Nat /\ Placed \subseteq Nat /\ Len(queue) \in Nat /\ QueueSize \in Nat \ {0}
    BY PlacedEvents, LenProperties, QueueAssumption DEF Inv, Typed, TypeOK
<1>2. CASE Send
    <2>1. sent' \in Event /\ sent' = sent + 1 /\ UNCHANGED <<received, wasted>>
        BY <1>1, <1>2, QueueAssumption DEF Send, Event, pyVars
    <2>2. \A x \in Placed : x < sent'
        BY <1>1, <2>1 DEF Inv, Fresh
    <2>3. CASE Len(queue) < QueueSize
        <3>1. queue' = Append(queue, sent') /\ pc' = "wake"
            BY <1>2, <2>3 DEF Send
        <3>2. /\ Ordered' /\ ToSet(queue') = ToSet(queue) \cup {sent'}
              /\ Placed' = Placed \cup {sent'}
            BY <1>1, <2>1, <2>2, <3>1, EnqueueKeeps DEF Inv
        <3>3. Fresh'
            BY <1>1, <2>1, <2>2, <3>1, <3>2 DEF Fresh
        <3>4. QED
            BY <3>1, <3>2, <3>3 DEF ResendFits, NewestSurvives
    <2>4. CASE ~ (Len(queue) < QueueSize)
        <3>1. queue' = queue /\ pc' = "full" /\ Placed' = Placed
            BY <1>2, <2>1, <2>4 DEF Send, Placed
        <3>2. Fresh'
            BY <1>1, <2>1, <2>2, <3>1 DEF Fresh
        <3>3. QED
            BY <2>1, <3>1, <3>2 DEF Inv, Ordered, ResendFits, NewestSurvives
    <2>5. QED
        BY <2>3, <2>4
<1>3. CASE DropOldest
    <2>1. /\ pc = "full" /\ pc' = "resend" /\ sent' = sent
          /\ UNCHANGED <<received, wasted>>
          /\ queue' = IF queue = <<>> THEN queue ELSE Tail(queue)
        BY <1>3 DEF DropOldest, pyVars
    <2>2. Ordered' /\ Placed' \subseteq Placed /\ Len(queue') < QueueSize
        <3>1. CASE queue = <<>>
            <4>1. Len(queue) = 0
                BY <3>1, EmptySeq
            <4>2. QED
                BY <1>1, <2>1, <3>1, <4>1 DEF Inv, Ordered, Placed
        <3>2. CASE queue # <<>>
            BY <1>1, <2>1, <3>2, DiscardKeeps, QueueTail DEF Inv
        <3>3. QED
            BY <3>1, <3>2
    <2>3. Fresh'
        BY <1>1, <2>1, <2>2 DEF Inv, Fresh
    <2>4. QED
        BY <2>1, <2>2, <2>3 DEF ResendFits, NewestSurvives
<1>4. CASE Resend
    <2>1. /\ pc = "resend" /\ pc' = "wake" /\ sent' = sent
          /\ UNCHANGED <<received, wasted>> /\ queue' = Append(queue, sent)
        BY <1>4 DEF Resend, Inv, ResendFits, pyVars
    <2>2. sent \in Event /\ \A x \in Placed : x < sent
        BY <1>1, <2>1 DEF Inv, Typed, TypeOK, Event, Fresh
    <2>3. /\ Ordered' /\ ToSet(queue') = ToSet(queue) \cup {sent}
          /\ Placed' = Placed \cup {sent}
        BY <1>1, <2>1, <2>2, EnqueueKeeps DEF Inv
    <2>4. Fresh'
        BY <1>1, <2>1, <2>2, <2>3 DEF Fresh
    <2>5. QED
        BY <2>1, <2>3, <2>4 DEF ResendFits, NewestSurvives
<1>5. CASE Wake
    <2>1. /\ pc = "wake" /\ pc' = "idle" /\ sent' = sent
          /\ UNCHANGED <<queue, received, wasted>>
        BY <1>5 DEF Wake, pyVars
    <2>2. QED
        BY <2>1 DEF Inv, Ordered, Fresh, Placed, ResendFits, NewestSurvives
<1>6. QED
    BY <1>2, <1>3, <1>4, <1>5 DEF ZigbeeTask

LEMMA PythonOrder ==
    ASSUME Inv, PythonThread
    PROVE  Ordered' /\ Fresh' /\ ResendFits' /\ NewestSurvives'
<1>1. TypeOK /\ Len(queue) \in Nat /\ QueueSize \in Nat
    BY LenProperties, QueueAssumption DEF Inv, Typed, TypeOK
<1>2. ASSUME Ordered', Placed' = Placed, UNCHANGED <<pc, sent>>,
             queue # <<>>, queue' = Tail(queue)
      PROVE  Ordered' /\ Fresh' /\ ResendFits' /\ NewestSurvives'
    <2>1. Len(queue') < QueueSize
        BY <1>1, <1>2, QueueTail
    <2>2. NewestSurvives <=> (pc \in {"wake", "idle"} /\ sent > 0 => sent \in Placed)
        BY DEF NewestSurvives, Placed
    <2>3. NewestSurvives' <=> (pc' \in {"wake", "idle"} /\ sent' > 0 => sent' \in Placed')
        BY DEF NewestSurvives, Placed
    <2>4. QED
        BY <1>2, <2>1, <2>2, <2>3 DEF Inv, Fresh, ResendFits
<1>3. CASE Recv
    BY <1>1, <1>2, <1>3, ReceiveKeeps DEF Inv, Recv, taskVars
<1>4. CASE RecvIntoBadList
    BY <1>1, <1>2, <1>4, WasteKeeps DEF Inv, RecvIntoBadList, taskVars
<1>5. CASE UNCHANGED <<queue, received, wasted, pc, sent>>
    BY <1>5 DEF Inv, Ordered, Fresh, Placed, ResendFits, NewestSurvives
<1>6. PythonThread => \/ Recv \/ RecvIntoBadList
                      \/ UNCHANGED <<queue, received, wasted, pc, sent>>
    BY DEF PythonThread, SetRecvCallback, RunCallback, RunOther, HandleMessage,
           QueueDrained, ProgramRecv, taskVars, pyVars
<1>7. QED
    BY <1>3, <1>4, <1>5, <1>6

LEMMA Invariance == Spec => []Inv
<1>1. Init => Ordered /\ Fresh /\ ResendFits /\ NewestSurvives
    <2> SUFFICES ASSUME Init PROVE Ordered /\ Fresh /\ ResendFits /\ NewestSurvives
        OBVIOUS
    <2>1. queue = <<>> /\ received = <<>> /\ wasted = {} /\ pc = "idle" /\ sent = 0
        BY DEF Init
    <2>2. ToSet(queue) = {} /\ ToSet(received) = {} /\ Ascending(queue) /\ Ascending(received)
        BY <2>1 DEF ToSet, Ascending
    <2>3. QED
        BY <2>1, <2>2 DEF Ordered, Fresh, Placed, ResendFits, NewestSurvives
<1>2. Inv /\ Typed' /\ [Next]_vars => Inv'
    <2> SUFFICES ASSUME Inv, Typed', [Next]_vars PROVE Inv'
        OBVIOUS
    <2>1. CASE UNCHANGED <<queue, received, wasted, pc, sent>>
        BY <2>1 DEF Inv, Ordered, Fresh, Placed, ResendFits, NewestSurvives
    <2>2. CASE ScheduleOther
        BY <2>1, <2>2 DEF ScheduleOther, taskVars, pyVars
    <2>3. CASE UNCHANGED vars
        BY <2>1, <2>3 DEF vars
    <2>4. QED
        BY <2>2, <2>3, TaskOrder, PythonOrder DEF Next, Inv
<1>3. QED
    <2>1. Init /\ Typed => Inv
        BY <1>1 DEF Inv
    <2>2. QED
        BY <1>2, <2>1, TypedInvariant, PTL DEF Spec

(* Python sees events in the order the stack reported them and none twice,   *)
(* for every queue length and however often the task drops while it reads.   *)
THEOREM DeliveredInOrder == Spec => []InOrder
<1>1. Inv => InOrder
    BY OrderView DEF Inv
<1>2. QED
    BY <1>1, Invariance, PTL

(* The attempt to send after a drop always finds room.                       *)
THEOREM SecondAttemptFits == Spec => []ResendFits
<1>1. Inv => ResendFits
    BY DEF Inv
<1>2. QED
    BY <1>1, Invariance, PTL

(* Overload never costs the event that was just reported.                    *)
THEOREM NewestIsKept == Spec => []NewestSurvives
<1>1. Inv => NewestSurvives
    BY DEF Inv
<1>2. QED
    BY <1>1, Invariance, PTL

--------------------------------------------------------------------------------
(* The queue implements the lossy FIFO.                                    *)

LEMMA TaskIsFifo ==
    ASSUME Inv, ZigbeeTask
    PROVE  [Fifo!Next]_(Fifo!vars)
<1>1. sent \in Nat
    BY PlacedEvents DEF Inv, Typed
<1>2. CASE Send
    <2>1. sent' = sent + 1 /\ received' = received /\ Entered = sent
        BY <1>2 DEF Send, pyVars, Entered
    <2>2. CASE Len(queue) < QueueSize
        <3>1. Entered' = sent + 1 /\ queue' = Append(queue, sent + 1)
            BY <1>2, <2>1, <2>2 DEF Send, Entered
        <3>2. QED
            BY <2>1, <2>2, <3>1 DEF Fifo!Next, Fifo!Enter
    <2>3. CASE ~ (Len(queue) < QueueSize)
        <3>1. Entered' = sent /\ queue' = queue
            BY <1>1, <1>2, <2>1, <2>3 DEF Send, Entered
        <3>2. QED
            BY <2>1, <3>1 DEF Fifo!vars
    <2>4. QED
        BY <2>2, <2>3
<1>3. CASE DropOldest
    <2>1. Entered' = Entered /\ received' = received
        BY <1>3 DEF DropOldest, pyVars, Entered
    <2>2. CASE queue = <<>>
        BY <1>3, <2>1, <2>2 DEF DropOldest, Fifo!vars
    <2>3. CASE queue # <<>>
        BY <1>3, <2>1, <2>3 DEF DropOldest, Fifo!Next, Fifo!Discard
    <2>4. QED
        BY <2>2, <2>3
<1>4. CASE Resend
    <2>1. Len(queue) < QueueSize /\ queue' = Append(queue, sent) /\ received' = received
        BY <1>4 DEF Inv, ResendFits, Resend, pyVars
    <2>2. Entered = sent - 1 /\ Entered' = sent /\ (sent - 1) + 1 = sent
        BY <1>1, <1>4 DEF Resend, Entered
    <2>3. QED
        BY <2>1, <2>2 DEF Fifo!Next, Fifo!Enter
<1>5. CASE Wake
    BY <1>5 DEF Wake, pyVars, Entered, Fifo!vars
<1>6. QED
    BY <1>2, <1>3, <1>4, <1>5 DEF ZigbeeTask

LEMMA PythonIsFifo ==
    ASSUME PythonThread
    PROVE  [Fifo!Next]_(Fifo!vars)
<1>1. CASE Recv
    <2>1. Entered' = Entered
        BY <1>1 DEF Recv, taskVars, Entered
    <2>2. QED
        BY <1>1, <2>1 DEF Recv, Fifo!Next, Fifo!Take
<1>2. CASE RecvIntoBadList
    <2>1. Entered' = Entered
        BY <1>2 DEF RecvIntoBadList, taskVars, Entered
    <2>2. QED
        BY <1>2, <2>1 DEF RecvIntoBadList, Fifo!Next, Fifo!Discard
<1>3. CASE UNCHANGED <<queue, received, pc, sent>>
    BY <1>3 DEF Fifo!vars, Entered
<1>4. PythonThread => Recv \/ RecvIntoBadList \/ UNCHANGED <<queue, received, pc, sent>>
    BY DEF PythonThread, SetRecvCallback, RunCallback, RunOther, HandleMessage,
           QueueDrained, ProgramRecv, taskVars, pyVars
<1>5. QED
    BY <1>1, <1>2, <1>3, <1>4

(* Whatever the two cores do between each other's queue calls, the rest of   *)
(* the system sees a queue that keeps the order and discards only at its     *)
(* old end, for every length.                                                *)
THEOREM ImplementsLossyFifo == Spec => RefinesLossyFifo
<1>1. Init => Fifo!Init
    BY DEF Init, Fifo!Init, Entered
<1>2. Inv /\ [Next]_vars => [Fifo!Next]_(Fifo!vars)
    <2> SUFFICES ASSUME Inv, [Next]_vars PROVE [Fifo!Next]_(Fifo!vars)
        OBVIOUS
    <2>1. CASE ScheduleOther
        BY <2>1 DEF ScheduleOther, taskVars, pyVars, Entered, Fifo!vars
    <2>2. CASE UNCHANGED vars
        BY <2>2 DEF vars, Entered, Fifo!vars
    <2>3. QED
        BY <2>1, <2>2, TaskIsFifo, PythonIsFifo DEF Next
<1>3. QED
    BY <1>1, <1>2, Invariance, PTL DEF Spec, RefinesLossyFifo, Fifo!Spec

--------------------------------------------------------------------------------
(* Waking Python.                                                          *)

LEMMA WakeWakes ==
    ASSUME Typed, Wake, ~ missed'
    PROVE  "rx" \in ToSet(sched')
<1>1. sched \in Seq({"rx", "other"}) /\ Len(sched) \in Nat /\ SchedDepth \in Nat
    BY LenProperties, QueueAssumption DEF Typed, TypeOK
<1>2. callback /\ Schedule("rx")
    BY DEF Wake
<1>3. ~ (Len(sched) >= SchedDepth /\ "rx" \notin ToSet(sched))
    BY DEF Wake
<1>4. CASE Len(sched) < SchedDepth
    <2>1. sched' = Append(sched, "rx")
        BY <1>2, <1>4 DEF Schedule
    <2>2. ToSet(sched') = ToSet(sched) \cup {"rx"}
        BY <1>1, <2>1, AppendMembers
    <2>3. QED
        BY <2>2
<1>5. CASE ~ (Len(sched) < SchedDepth)
    <2>1. sched' = sched /\ Len(sched) >= SchedDepth
        BY <1>1, <1>2, <1>5 DEF Schedule
    <2>2. QED
        BY <1>3, <2>1
<1>6. QED
    BY <1>4, <1>5

(* The end of another job leaves the callback in the scheduler.             *)
LEMMA OthersPass ==
    ASSUME TypeOK, RunOther, "rx" \in ToSet(sched)
    PROVE  "rx" \in ToSet(sched')
<1>1. /\ sched \in Seq({"rx", "other"}) /\ sched # <<>>
      /\ Head(sched) = "other" /\ sched' = Tail(sched)
    BY DEF TypeOK, RunOther
<1>2. ToSet(sched) = {Head(sched)} \cup ToSet(sched')
    BY <1>1, TailMembers
<1>3. QED
    BY <1>1, <1>2

LEMMA OthersJoin ==
    ASSUME TypeOK, ScheduleOther, "rx" \in ToSet(sched)
    PROVE  "rx" \in ToSet(sched')
<1>1. sched \in Seq({"rx", "other"}) /\ sched' = Append(sched, "other")
    BY DEF TypeOK, ScheduleOther, Schedule
<1>2. ToSet(sched') = ToSet(sched) \cup {"other"}
    BY <1>1, AppendMembers
<1>3. QED
    BY <1>2

(* Whatever the lengths of the queue and of the scheduler, whoever else uses  *)
(* the scheduler and however often the handler raises: an event waits unheard *)
(* only after a call of Python that came to nothing.                         *)
THEOREM WaitingEventsAreHeardOf == Spec => []NoStrandedEvent
<1>1. Init => NoStrandedEvent
    BY DEF Init, NoStrandedEvent
<1>2. Typed /\ NoStrandedEvent /\ [Next]_vars => NoStrandedEvent'
    <2> SUFFICES ASSUME Typed, NoStrandedEvent, [Next]_vars PROVE NoStrandedEvent'
        OBVIOUS
    <2>1. CASE Send \/ DropOldest \/ Resend
        <3>1. pc' # "idle"
            BY <2>1 DEF Send, DropOldest, Resend
        <3>2. QED
            BY <3>1 DEF NoStrandedEvent
    <2>2. CASE Wake
        BY <2>2, WakeWakes DEF NoStrandedEvent
    <2>3. CASE SetRecvCallback
        BY <2>3 DEF SetRecvCallback, taskVars, pyVars, NoStrandedEvent
    <2>4. CASE RunCallback
        BY <2>4 DEF RunCallback, NoStrandedEvent
    <2>5. CASE RunOther
        <3>1. UNCHANGED <<queue, pc, py, missed>>
            BY <2>5 DEF RunOther, taskVars, pyVars
        <3>2. QED
            BY <2>5, <3>1, OthersPass DEF Typed, NoStrandedEvent
    <2>6. CASE HandleMessage
        <3>1. queue # <<>> /\ UNCHANGED <<sched, pc>>
            BY <2>6 DEF HandleMessage, Recv, taskVars
        <3>2. py' = "on_msg" \/ missed'
            BY <2>6 DEF HandleMessage
        <3>3. QED
            BY <3>2 DEF NoStrandedEvent
    <2>7. CASE QueueDrained
        BY <2>7 DEF QueueDrained, taskVars, NoStrandedEvent
    <2>8. CASE ProgramRecv \/ RecvIntoBadList
        <3>1. queue # <<>> /\ UNCHANGED <<sched, pc, py, missed>>
            BY <2>8 DEF ProgramRecv, RecvIntoBadList, Recv, taskVars
        <3>2. QED
            BY <3>1 DEF NoStrandedEvent
    <2>9. CASE ScheduleOther
        <3>1. UNCHANGED <<queue, pc, py, missed>>
            BY <2>9 DEF ScheduleOther, taskVars, pyVars
        <3>2. QED
            BY <2>9, <3>1, OthersJoin DEF Typed, NoStrandedEvent
    <2>10. CASE UNCHANGED vars
        BY <2>10 DEF vars, NoStrandedEvent
    <2>11. QED
        BY <2>1, <2>2, <2>3, <2>4, <2>5, <2>6, <2>7, <2>8, <2>9, <2>10
           DEF Next, ZigbeeTask, PythonThread
<1>3. QED
    BY <1>1, <1>2, TypedInvariant, PTL DEF Spec
================================================================================
