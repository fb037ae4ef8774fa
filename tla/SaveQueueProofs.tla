---------------------------- MODULE SaveQueueProofs ----------------------------
(***************************************************************************)
(* Proofs about the save queue for every queue length, every set of        *)
(* addresses and any number of calls.                                      *)
(***************************************************************************)
EXTENDS SaveQueue, SequenceFacts, FiniteSetTheorems, TLAPS

(* The addresses held, without the union over the callers.                  *)
LEMMA PresentIs ==
    Present = ToSet(queue) \cup ToSet(temp[Zigbee]) \cup ToSet(temp[Python])
BY DEF Present, Caller

(* What a send with a timeout of 0 does to a queue that is not too long.      *)
LEMMA SentKeeps ==
    ASSUME NEW q \in Seq(Addr), Len(q) <= QueueSize, NEW a \in Addr
    PROVE  /\ Sent(q, a) \in Seq(Addr) /\ Len(Sent(q, a)) <= QueueSize
           /\ Len(Sent(q, a)) <= Len(q) + 1
           /\ Len(q) < QueueSize => /\ Len(Sent(q, a)) = Len(q) + 1
                                    /\ ToSet(Sent(q, a)) = ToSet(q) \cup {a}
<1>1. Len(q) \in Nat /\ QueueSize \in Nat
    BY LenProperties, SaveQueueAssumption
<1>2. CASE Len(q) < QueueSize
    BY <1>1, <1>2, AppendMembers DEF Sent
<1>3. CASE ~ (Len(q) < QueueSize)
    BY <1>1, <1>3 DEF Sent
<1>4. QED
    BY <1>2, <1>3

--------------------------------------------------------------------------------
(* Typing.                                                                 *)

LEMMA InitTyping == Init => TypeOK
<1> SUFFICES ASSUME Init PROVE TypeOK
    OBVIOUS
<1>1. QueueSize \in Nat /\ MaxCalls \in Nat
    BY SaveQueueAssumption
<1>2. <<>> \in Seq(Addr) /\ Len(<<>>) = 0
    BY EmptySeq
<1>3. temp = [c \in Caller |-> <<>>] /\ queue = <<>>
    BY DEF Init
<1>4. temp \in [Caller -> Seq(Addr)] /\ \A c \in Caller : temp[c] = <<>>
    BY <1>2, <1>3
<1>5. \A c \in Caller : Len(temp[c]) <= QueueSize
    BY <1>1, <1>2, <1>4
<1>6. Len(queue) <= QueueSize
    BY <1>1, <1>2, <1>3
<1>7. pc \in [Caller -> {"idle", "empty", "restore", "push"}]
      /\ addr \in [Caller -> Addr] /\ found \in [Caller -> BOOLEAN]
    BY DEF Init
<1>8. queue \in Seq(Addr)
    BY <1>2, <1>3, Zenon
<1>9. /\ calls \in 0..MaxCalls /\ overlapped \in BOOLEAN
       /\ accepted \in SUBSET Addr /\ pushes \in Nat /\ refused \in Nat
    <2>1. calls = 0 /\ accepted = {} /\ pushes = 0 /\ refused = 0 /\ overlapped = FALSE
        BY Zenon DEF Init
    <2>2. calls \in 0..MaxCalls /\ pushes \in Nat /\ refused \in Nat
        BY <1>1, <2>1
    <2>3. overlapped \in BOOLEAN /\ accepted \in SUBSET Addr
        BY <2>1, Zenon
    <2>4. QED
        BY <2>2, <2>3
<1>10. \A c \in Caller : Len(temp[c]) <= QueueSize /\ (temp[c] # <<>> => pc[c] \in {"empty", "restore"})
    BY <1>4, <1>5
<1>11. QED
    BY <1>4, <1>6, <1>7, <1>8, <1>9, <1>10 DEF TypeOK

LEMMA StepTyping == TypeOK /\ [Next]_vars => TypeOK'
<1> SUFFICES ASSUME TypeOK, [Next]_vars PROVE TypeOK'
    OBVIOUS
<1> USE SaveQueueAssumption
<1>1. ASSUME NEW c \in Caller, NEW a \in Addr, Begin(c, a) PROVE TypeOK'
    BY <1>1 DEF Begin, TypeOK, history
<1>2. ASSUME NEW c \in Caller, TakeOut(c) PROVE TypeOK'
    <2>1. /\ Tail(queue) \in Seq(Addr) /\ Head(queue) \in Addr
          /\ Len(Tail(queue)) <= QueueSize
        BY <1>2, TailMembers DEF TakeOut, TypeOK
    <2>2. Sent(temp[c], Head(queue)) \in Seq(Addr) /\ Len(Sent(temp[c], Head(queue))) <= QueueSize
        BY <2>1, SentKeeps DEF TypeOK
    <2> HIDE DEF Sent
    <2>3. QED
        BY <1>2, <2>1, <2>2 DEF TakeOut, TypeOK, history
<1>3. ASSUME NEW c \in Caller, TakenOut(c) PROVE TypeOK'
    BY <1>3 DEF TakenOut, TypeOK, history
<1>4. ASSUME NEW c \in Caller, PutBack(c) PROVE TypeOK'
    <2>1. temp[c] \in Seq(Addr) /\ temp[c] # <<>>
        BY <1>4 DEF PutBack, TypeOK
    <2>2. /\ Tail(temp[c]) \in Seq(Addr) /\ Head(temp[c]) \in Addr
          /\ Len(Tail(temp[c])) <= QueueSize
        BY <2>1, TailMembers DEF TypeOK
    <2>3. Sent(queue, Head(temp[c])) \in Seq(Addr) /\ Len(Sent(queue, Head(temp[c]))) <= QueueSize
        BY <2>2, SentKeeps DEF TypeOK
    <2>4. QED
        BY <1>4, <2>2, <2>3 DEF PutBack, TypeOK, history
<1>5. ASSUME NEW c \in Caller, Restored(c) PROVE TypeOK'
    BY <1>5 DEF Restored, TypeOK, history
<1>6. ASSUME NEW c \in Caller, Push(c) PROVE TypeOK'
    <2>1. addr[c] \in Addr /\ temp[c] = <<>>
        BY <1>6 DEF Push, TypeOK
    <2>2. Len(queue) < QueueSize => Append(queue, addr[c]) \in Seq(Addr)
                                   /\ Len(Append(queue, addr[c])) <= QueueSize
        BY <2>1, AppendProperties, LenProperties DEF TypeOK
    <2>3. /\ queue' \in Seq(Addr) /\ Len(queue') <= QueueSize
          /\ accepted' \in SUBSET Addr /\ pushes' \in Nat /\ refused' \in Nat
        <3>1. CASE Len(queue) < QueueSize
            <4>1. /\ queue' = Append(queue, addr[c])
                  /\ accepted' = accepted \cup {addr[c]} /\ pushes' = pushes + 1 /\ refused' = refused
                BY <1>6, <3>1 DEF Push
            <4>2. QED
                BY <2>1, <2>2, <3>1, <4>1 DEF TypeOK
        <3>2. CASE ~ (Len(queue) < QueueSize)
            <4>1. /\ queue' = queue /\ accepted' = accepted /\ pushes' = pushes
                  /\ refused' = refused + 1
                BY <1>6, <3>2 DEF Push
            <4>2. QED
                BY <4>1 DEF TypeOK
        <3>3. QED
            BY <3>1, <3>2
    <2>4. /\ temp' = temp /\ addr' = addr /\ found' = found
          /\ calls' = calls /\ overlapped' = overlapped
          /\ pc' = [pc EXCEPT ![c] = "idle"]
        BY <1>6 DEF Push
    <2>5. \A d \in Caller : temp[d] # <<>> => pc'[d] \in {"empty", "restore"}
        BY <2>1, <2>4 DEF TypeOK
    <2>6. QED
        BY <2>3, <2>4, <2>5 DEF TypeOK
<1>7. CASE UNCHANGED vars
    BY <1>7 DEF vars, callers, history, TypeOK
<1>8. QED
    BY <1>1, <1>2, <1>3, <1>4, <1>5, <1>6, <1>7 DEF Next, Step

(* The save queue and the temporary queues stay within their lengths, and a    *)
(* caller keeps addresses to itself only while it empties or restores.        *)
THEOREM Typing == Spec => []TypeOK
BY InitTyping, StepTyping, PTL DEF Spec

--------------------------------------------------------------------------------
(* What the steps do to the addresses on the move.                         *)

Total == Len(queue) + Len(temp[Zigbee]) + Len(temp[Python])

LEMMA Swapped == \A x, y, z \in Nat : x + y + z = x + z + y
OBVIOUS

Both(c, d) == (c = Zigbee /\ d = Python) \/ (c = Python /\ d = Zigbee)

(* Seen from one caller there is one other.                                 *)
LEMMA TheOther ==
    ASSUME NEW c \in Caller
    PROVE  \E d \in Caller : d # c /\ Caller = {c, d} /\ Both(c, d)
<1>1. CASE c = Zigbee
    BY <1>1, SaveQueueAssumption DEF Caller, Both
<1>2. CASE c = Python
    BY <1>2, SaveQueueAssumption DEF Caller, Both
<1>3. QED
    BY <1>1, <1>2 DEF Caller

LEMMA SeenFrom ==
    ASSUME TypeOK, NEW c \in Caller, NEW d \in Caller, Both(c, d)
    PROVE  /\ Total = Len(queue) + Len(temp[c]) + Len(temp[d])
           /\ Present = ToSet(queue) \cup ToSet(temp[c]) \cup ToSet(temp[d])
           /\ Len(queue) \in Nat /\ Len(temp[c]) \in Nat /\ Len(temp[d]) \in Nat
<1>1. /\ Len(queue) \in Nat /\ Len(temp[Zigbee]) \in Nat /\ Len(temp[Python]) \in Nat
    <2>1. queue \in Seq(Addr) /\ temp[Zigbee] \in Seq(Addr) /\ temp[Python] \in Seq(Addr)
        BY DEF TypeOK, Caller
    <2>2. QED
        BY <2>1, LenProperties
<1>2. CASE c = Zigbee /\ d = Python
    BY <1>1, <1>2, PresentIs DEF Total
<1>3. CASE c = Python /\ d = Zigbee
    <2>1. Total = Len(queue) + Len(temp[c]) + Len(temp[d])
        BY <1>1, <1>3, Swapped DEF Total
    <2>2. QED
        BY <1>1, <1>3, <2>1, PresentIs
<1>4. QED
    BY <1>2, <1>3 DEF Both

LEMMA SeenFromNext ==
    ASSUME TypeOK', NEW c \in Caller, NEW d \in Caller, Both(c, d)
    PROVE  /\ Total' = Len(queue') + Len(temp'[c]) + Len(temp'[d])
           /\ Present' = ToSet(queue') \cup ToSet(temp'[c]) \cup ToSet(temp'[d])
           /\ Len(queue') \in Nat /\ Len(temp'[c]) \in Nat /\ Len(temp'[d]) \in Nat
<1>1. /\ Len(queue') \in Nat /\ Len(temp'[Zigbee]) \in Nat /\ Len(temp'[Python]) \in Nat
    <2>1. queue' \in Seq(Addr) /\ temp'[Zigbee] \in Seq(Addr) /\ temp'[Python] \in Seq(Addr)
        BY DEF TypeOK, Caller
    <2>2. QED
        BY <2>1, LenProperties
<1>2. /\ Total' = Len(queue') + Len(temp'[Zigbee]) + Len(temp'[Python])
      /\ Present' = ToSet(queue') \cup ToSet(temp'[Zigbee]) \cup ToSet(temp'[Python])
    BY DEF Total, Present, Caller
<1>3. CASE c = Zigbee /\ d = Python
    BY <1>1, <1>2, <1>3
<1>4. CASE c = Python /\ d = Zigbee
    <2>1. Total' = Len(queue') + Len(temp'[c]) + Len(temp'[d])
        BY <1>1, <1>2, <1>4, Swapped
    <2>2. QED
        BY <1>1, <1>2, <1>4, <2>1
<1>5. QED
    BY <1>3, <1>4 DEF Both

(* A step moves an address, or loses one for want of room: Lossless says when  *)
(* it cannot.                                                              *)
Lossless == Total <= QueueSize

LEMMA TakeOutMoves ==
    ASSUME TypeOK, NEW c \in Caller, TakeOut(c)
    PROVE  /\ Total \in Nat /\ Total' \in Nat /\ Total' <= Total
           /\ Lossless => Total' = Total /\ Present' = Present
           /\ Lossless => ToSet(temp'[c]) = ToSet(temp[c]) \cup {Head(queue)}
<1>1. PICK d \in Caller : d # c /\ Caller = {c, d} /\ Both(c, d)
    BY TheOther
<1> HIDE DEF Both
<1>2. TypeOK'
    BY StepTyping DEF Next, Step
<1>3. /\ Total' = Len(queue') + Len(temp'[c]) + Len(temp'[d])
      /\ Present' = ToSet(queue') \cup ToSet(temp'[c]) \cup ToSet(temp'[d])
      /\ Total = Len(queue) + Len(temp[c]) + Len(temp[d])
      /\ Present = ToSet(queue) \cup ToSet(temp[c]) \cup ToSet(temp[d])
    BY <1>1, <1>2, SeenFrom, SeenFromNext
<1>4. /\ Len(queue) \in Nat \ {0} /\ Len(temp[c]) \in Nat /\ Len(temp[d]) \in Nat
      /\ Len(queue') = Len(queue) - 1 /\ Head(queue) \in Addr
      /\ ToSet(queue) = {Head(queue)} \cup ToSet(queue')
    <2>1. queue \in Seq(Addr) /\ queue # <<>> /\ queue' = Tail(queue)
        BY DEF TakeOut, TypeOK
    <2>2. temp[c] \in Seq(Addr) /\ temp[d] \in Seq(Addr)
        BY DEF TypeOK
    <2>3. QED
        BY <2>1, <2>2, TailMembers, LenProperties
<1>5. temp'[c] = Sent(temp[c], Head(queue)) /\ temp'[d] = temp[d]
    BY <1>1 DEF TakeOut, TypeOK
<1>6. /\ Len(temp'[c]) \in Nat /\ Len(temp'[c]) <= Len(temp[c]) + 1
      /\ Len(temp[c]) < QueueSize => /\ Len(temp'[c]) = Len(temp[c]) + 1
                                    /\ ToSet(temp'[c]) = ToSet(temp[c]) \cup {Head(queue)}
    <2>1. temp[c] \in Seq(Addr) /\ Len(temp[c]) <= QueueSize
        BY DEF TypeOK
    <2>2. QED
        BY <1>4, <1>5, <2>1, SentKeeps, LenProperties
<1>7. QueueSize \in Nat
    BY SaveQueueAssumption
<1>8. /\ Total \in Nat /\ Total' \in Nat /\ Total' <= Total
      /\ Total <= QueueSize => Len(temp[c]) < QueueSize /\ Total' = Total
    <2>1. Len(queue') \in Nat
        BY <1>4
    <2>2. temp'[d] = temp[d]
        BY <1>5
    <2>3. PICK x \in Nat, y \in Nat, z \in Nat, x1 \in Nat, y1 \in Nat :
            /\ x = Len(queue) /\ y = Len(temp[c]) /\ z = Len(temp[d])
            /\ x1 = Len(queue') /\ y1 = Len(temp'[c])
        BY <1>4, <1>6, <2>1
    <2>4. /\ x # 0 /\ x1 = x - 1 /\ y1 <= y + 1 /\ (y < QueueSize => y1 = y + 1)
        BY <1>4, <1>6, <2>3
    <2>5. Total = x + y + z /\ Total' = x1 + y1 + z
        BY <1>3, <2>2, <2>3
    <2>6. /\ Total \in Nat /\ Total' \in Nat /\ Total' <= Total
          /\ Total <= QueueSize => y < QueueSize /\ Total' = Total
        BY <1>7, <2>4, <2>5
    <2>7. QED
        BY <2>3, <2>6
<1>9. Lossless => Len(temp[c]) < QueueSize
    BY <1>8 DEF Lossless
<1>10. Lossless => Present' = Present
    <2> SUFFICES ASSUME Lossless PROVE Present' = Present
        OBVIOUS
    <2>1. ASSUME NEW a PROVE a \in Present' <=> a \in Present
        BY <1>3, <1>4, <1>5, <1>6, <1>9
    <2> HIDE DEF Present
    <2>2. QED
        BY <1>3, <2>1
<1>11. QED
    BY <1>6, <1>8, <1>9, <1>10 DEF Lossless

LEMMA PutBackMoves ==
    ASSUME TypeOK, NEW c \in Caller, PutBack(c)
    PROVE  /\ Total \in Nat /\ Total' \in Nat /\ Total' <= Total
           /\ Lossless => Total' = Total /\ Present' = Present
<1>1. PICK d \in Caller : d # c /\ Caller = {c, d} /\ Both(c, d)
    BY TheOther
<1> HIDE DEF Both
<1>2. TypeOK'
    BY StepTyping DEF Next, Step
<1>3. /\ Total' = Len(queue') + Len(temp'[c]) + Len(temp'[d])
      /\ Present' = ToSet(queue') \cup ToSet(temp'[c]) \cup ToSet(temp'[d])
      /\ Total = Len(queue) + Len(temp[c]) + Len(temp[d])
      /\ Present = ToSet(queue) \cup ToSet(temp[c]) \cup ToSet(temp[d])
    BY <1>1, <1>2, SeenFrom, SeenFromNext
<1>4. /\ Len(temp[c]) \in Nat \ {0} /\ Len(queue) \in Nat /\ Len(temp[d]) \in Nat
      /\ Len(temp'[c]) = Len(temp[c]) - 1 /\ Head(temp[c]) \in Addr
      /\ ToSet(temp[c]) = {Head(temp[c])} \cup ToSet(temp'[c])
    <2>1. temp[c] \in Seq(Addr) /\ temp[c] # <<>> /\ temp'[c] = Tail(temp[c])
        BY DEF PutBack, TypeOK
    <2>2. queue \in Seq(Addr) /\ temp[d] \in Seq(Addr)
        BY DEF TypeOK
    <2>3. QED
        BY <2>1, <2>2, TailMembers, LenProperties
<1>5. queue' = Sent(queue, Head(temp[c])) /\ temp'[d] = temp[d]
    BY <1>1 DEF PutBack, TypeOK
<1>6. /\ Len(queue') \in Nat /\ Len(queue') <= Len(queue) + 1
      /\ Len(queue) < QueueSize => /\ Len(queue') = Len(queue) + 1
                                  /\ ToSet(queue') = ToSet(queue) \cup {Head(temp[c])}
    <2>1. queue \in Seq(Addr) /\ Len(queue) <= QueueSize
        BY DEF TypeOK
    <2>2. QED
        BY <1>4, <1>5, <2>1, SentKeeps, LenProperties
<1>7. QueueSize \in Nat
    BY SaveQueueAssumption
<1>8. /\ Total \in Nat /\ Total' \in Nat /\ Total' <= Total
      /\ Total <= QueueSize => Len(queue) < QueueSize /\ Total' = Total
    <2>1. Len(temp'[c]) \in Nat
        BY <1>4
    <2>2. temp'[d] = temp[d]
        BY <1>5
    <2>3. PICK x \in Nat, y \in Nat, z \in Nat, x1 \in Nat, y1 \in Nat :
            /\ x = Len(temp[c]) /\ y = Len(queue) /\ z = Len(temp[d])
            /\ x1 = Len(temp'[c]) /\ y1 = Len(queue')
        BY <1>4, <1>6, <2>1
    <2>4. /\ x # 0 /\ x1 = x - 1 /\ y1 <= y + 1 /\ (y < QueueSize => y1 = y + 1)
        BY <1>4, <1>6, <2>3
    <2>5. Total = y + x + z /\ Total' = y1 + x1 + z
        BY <1>3, <2>2, <2>3
    <2>6. /\ Total \in Nat /\ Total' \in Nat /\ Total' <= Total
          /\ Total <= QueueSize => y < QueueSize /\ Total' = Total
        BY <1>7, <2>4, <2>5
    <2>7. QED
        BY <2>3, <2>6
<1>9. Lossless => Len(queue) < QueueSize
    BY <1>8 DEF Lossless
<1>10. Lossless => Present' = Present
    <2> SUFFICES ASSUME Lossless PROVE Present' = Present
        OBVIOUS
    <2>1. ASSUME NEW a PROVE a \in Present' <=> a \in Present
        BY <1>3, <1>4, <1>5, <1>6, <1>9
    <2> HIDE DEF Present
    <2>2. QED
        BY <1>3, <2>1
<1>11. QED
    BY <1>8, <1>9, <1>10 DEF Lossless

LEMMA PushMoves ==
    ASSUME TypeOK, NEW c \in Caller, Push(c)
    PROVE  /\ Total \in Nat
           /\ Len(queue) < QueueSize => /\ Total' = Total + 1
                                       /\ Present' = Present \cup {addr[c]}
                                       /\ accepted' = accepted \cup {addr[c]}
                                       /\ pushes' = pushes + 1 /\ refused' = refused
           /\ ~ (Len(queue) < QueueSize) => /\ QueueSize <= Total
                                           /\ Total' = Total /\ Present' = Present
                                           /\ accepted' = accepted /\ pushes' = pushes
                                           /\ refused' = refused + 1
<1>1. PICK d \in Caller : d # c /\ Caller = {c, d} /\ Both(c, d)
    BY TheOther
<1>2. TypeOK'
    BY StepTyping DEF Next, Step
<1>3. /\ Total' = Len(queue') + Len(temp'[c]) + Len(temp'[d])
      /\ Present' = ToSet(queue') \cup ToSet(temp'[c]) \cup ToSet(temp'[d])
      /\ Total = Len(queue) + Len(temp[c]) + Len(temp[d])
      /\ Present = ToSet(queue) \cup ToSet(temp[c]) \cup ToSet(temp[d])
      /\ Len(queue) \in Nat /\ Len(temp[c]) \in Nat /\ Len(temp[d]) \in Nat
    BY <1>1, <1>2, SeenFrom, SeenFromNext
<1>4. temp' = temp
    BY DEF Push
<1>5. QueueSize \in Nat
    BY SaveQueueAssumption
<1>6. CASE Len(queue) < QueueSize
    <2>1. /\ queue' = Append(queue, addr[c])
          /\ accepted' = accepted \cup {addr[c]} /\ pushes' = pushes + 1 /\ refused' = refused
        BY <1>6 DEF Push
    <2>2. queue \in Seq(Addr) /\ addr[c] \in Addr
        BY DEF TypeOK
    <2>3. Len(queue') = Len(queue) + 1 /\ ToSet(queue') = ToSet(queue) \cup {addr[c]}
        BY <2>1, <2>2, AppendMembers
    <2>4. Total' = Total + 1 /\ Total \in Nat
        <3>1. PICK x \in Nat, y \in Nat, z \in Nat :
                  x = Len(queue) /\ y = Len(temp[c]) /\ z = Len(temp[d])
            BY <1>3
        <3>2. Total = x + y + z /\ Total' = (x + 1) + y + z
            BY <1>3, <1>4, <2>3, <3>1
        <3>3. QED
            BY <3>2
    <2>5. Present' = Present \cup {addr[c]}
        BY <1>3, <1>4, <2>3
    <2>6. QED
        BY <1>6, <2>1, <2>4, <2>5, Zenon
<1>7. CASE ~ (Len(queue) < QueueSize)
    <2>1. queue' = queue /\ accepted' = accepted /\ pushes' = pushes /\ refused' = refused + 1
        BY <1>7 DEF Push
    <2>2. Total' = Total /\ Present' = Present
        BY <1>3, <1>4, <2>1
    <2>3. QueueSize <= Total /\ Total \in Nat
        <3>1. PICK x \in Nat, y \in Nat, z \in Nat :
                  x = Len(queue) /\ y = Len(temp[c]) /\ z = Len(temp[d])
            BY <1>3
        <3>2. Total = x + y + z /\ ~ (x < QueueSize)
            BY <1>3, <1>7, <3>1
        <3>3. QED
            BY <1>5, <3>2
    <2>4. QED
        BY <1>7, <2>1, <2>2, <2>3, Zenon
<1>8. QED
    BY <1>6, <1>7

(* The steps that move no address.                                          *)
LEMMA OthersKeepStill ==
    ASSUME \/ \E c \in Caller, a \in Addr : Begin(c, a)
           \/ \E c \in Caller : TakenOut(c) \/ Restored(c)
           \/ UNCHANGED vars
    PROVE  /\ Total' = Total /\ Present' = Present
           /\ accepted' = accepted /\ pushes' = pushes /\ refused' = refused
<1>1. queue' = queue /\ temp' = temp /\ accepted' = accepted /\ pushes' = pushes /\ refused' = refused
    BY DEF Begin, TakenOut, Restored, vars, callers, history
<1>2. QED
    BY <1>1 DEF Total, Present

--------------------------------------------------------------------------------
(* Nothing is forgotten: there are never more addresses in the queues than     *)
(* pushes that succeeded, so up to QueueSize pushes every send finds room.      *)

Kept ==
    /\ Total <= pushes
    /\ NothingIsForgotten
    /\ RefusedOnlyWhenUsedUp

LEMMA InitKept == Init => Kept
<1> SUFFICES ASSUME Init PROVE Kept
    OBVIOUS
<1>1. queue = <<>> /\ temp = [c \in Caller |-> <<>>]
    BY DEF Init
<1>2. accepted = {} /\ pushes = 0 /\ refused = 0
    BY Zenon DEF Init
<1>3. Total = 0
    BY <1>1 DEF Total, Caller
<1>4. QED
    BY <1>2, <1>3 DEF Kept, NothingIsForgotten, RefusedOnlyWhenUsedUp

LEMMA StepKept == TypeOK /\ Kept /\ [Next]_vars => Kept'
<1> SUFFICES ASSUME TypeOK, Kept, [Next]_vars PROVE Kept'
    OBVIOUS
<1> USE DEF Kept, NothingIsForgotten, RefusedOnlyWhenUsedUp
<1>1. QueueSize \in Nat /\ pushes \in Nat /\ refused \in Nat
    BY SaveQueueAssumption DEF TypeOK
<1> HIDE DEF Present, Total
<1>2. ASSUME NEW c \in Caller, TakeOut(c) \/ PutBack(c) PROVE Kept'
    <2>1. accepted' = accepted /\ pushes' = pushes /\ refused' = refused
        BY <1>2 DEF TakeOut, PutBack, history
    <2>2. /\ Total \in Nat /\ Total' \in Nat /\ Total' <= Total
          /\ Lossless => Present' = Present
        BY <1>2, TakeOutMoves, PutBackMoves
    <2>3. QED
        BY <1>1, <2>1, <2>2 DEF Lossless
<1>3. ASSUME NEW c \in Caller, Push(c) PROVE Kept'
    <2>1. CASE Len(queue) < QueueSize
        BY <1>1, <1>3, <2>1, PushMoves
    <2>2. CASE ~ (Len(queue) < QueueSize)
        BY <1>1, <1>3, <2>2, PushMoves
    <2>3. QED
        BY <2>1, <2>2
<1>4. ASSUME \/ \E c \in Caller, a \in Addr : Begin(c, a)
             \/ \E c \in Caller : TakenOut(c) \/ Restored(c)
             \/ UNCHANGED vars
      PROVE Kept'
    BY <1>4, OthersKeepStill
<1>5. QED
    BY <1>2, <1>3, <1>4 DEF Next, Step

(* As long as no more pushes succeeded than the queue has places, every        *)
(* accepted address is in the queue or on its way back into it, for every      *)
(* queue length and every interleaving of the two callers' loops.             *)
THEOREM NothingForgotten == Spec => []NothingIsForgotten
<1>1. Kept => NothingIsForgotten
    BY DEF Kept
<1>2. QED
    BY <1>1, InitTyping, StepTyping, InitKept, StepKept, PTL DEF Spec

(* Mixing the loops never makes a place vanish: a save is refused only after   *)
(* QueueSize pushes succeeded.                                             *)
THEOREM RefusedLate == Spec => []RefusedOnlyWhenUsedUp
<1>1. Kept => RefusedOnlyWhenUsedUp
    BY DEF Kept
<1>2. QED
    BY <1>1, InitTyping, StepTyping, InitKept, StepKept, PTL DEF Spec

--------------------------------------------------------------------------------
(* Until two calls have overlapped at most one caller is in a call, the         *)
(* addresses are distinct, and what the caller has found is the truth.          *)

Alone ==
    ~ overlapped =>
        /\ \A c, d \in Caller : pc[c] # "idle" /\ pc[d] # "idle" => c = d
        /\ IsFiniteSet(Present) /\ Cardinality(Present) = Total /\ Lossless
        /\ \A c \in Caller :
               /\ pc[c] = "empty" => (found[c] <=> addr[c] \in ToSet(temp[c]))
               /\ pc[c] = "restore" => (found[c] <=> addr[c] \in Present)
               /\ pc[c] = "push" => addr[c] \notin Present

LEMMA InitAlone == Init => Alone
<1> SUFFICES ASSUME Init PROVE Alone
    OBVIOUS
<1>1. /\ queue = <<>> /\ temp = [c \in Caller |-> <<>>]
      /\ pc = [c \in Caller |-> "idle"]
    BY DEF Init
<1>2. Total = 0 /\ Lossless
    BY <1>1, SaveQueueAssumption DEF Total, Caller, Lossless
<1>3. Present = {}
    BY <1>1 DEF Present, ToSet
<1>4. IsFiniteSet(Present) /\ Cardinality(Present) = Total
    BY <1>2, <1>3, FS_EmptySet
<1> HIDE DEF Present, Total, Lossless
<1>5. QED
    BY <1>1, <1>2, <1>4 DEF Alone

(* What a caller leaves to the other while the other makes no call.           *)
LEMMA AloneWithQueue ==
    ASSUME TypeOK, Alone, ~ overlapped, NEW c \in Caller, pc[c] # "idle"
    PROVE  /\ Present = ToSet(queue) \cup ToSet(temp[c])
           /\ Total = Len(queue) + Len(temp[c])
<1>1. PICK d \in Caller : d # c /\ Caller = {c, d} /\ Both(c, d)
    BY TheOther
<1>2. temp[d] = <<>>
    <2>1. pc[d] = "idle"
        BY <1>1 DEF Alone
    <2>2. QED
        BY <2>1 DEF TypeOK
<1>3. ToSet(temp[d]) = {} /\ Len(temp[d]) = 0
    BY <1>2 DEF ToSet
<1>4. /\ Total = Len(queue) + Len(temp[c]) + Len(temp[d])
      /\ Present = ToSet(queue) \cup ToSet(temp[c]) \cup ToSet(temp[d])
      /\ Len(queue) \in Nat /\ Len(temp[c]) \in Nat
    BY <1>1, SeenFrom
<1>5. Total = Len(queue) + Len(temp[c])
    <2>1. PICK x \in Nat, y \in Nat : x = Len(queue) /\ y = Len(temp[c])
        BY <1>4
    <2>2. Total = x + y + 0
        BY <1>3, <1>4, <2>1
    <2>3. Total = x + y
        BY <2>2
    <2>4. QED
        BY <2>1, <2>3
<1>6. QED
    BY <1>3, <1>4, <1>5

(* A caller that pushes, with nobody else in a call, finds all addresses in the *)
(* queue and its own not among them.                                        *)
LEMMA PushAlone ==
    ASSUME TypeOK, Alone, ~ overlapped, NEW c \in Caller, Push(c)
    PROVE  /\ addr[c] \notin Present /\ addr[c] \in Addr
           /\ IsFiniteSet(Present) /\ Cardinality(Present) = Len(queue)
           /\ Total = Len(queue) /\ Len(queue) \in Nat /\ Len(queue) <= QueueSize
<1>1. pc[c] = "push" /\ temp[c] = <<>> /\ addr[c] \in Addr
    BY DEF Push, TypeOK
<1>2. Total = Len(queue) + Len(temp[c])
    BY <1>1, AloneWithQueue
<1>3. Len(queue) \in Nat /\ Len(queue) <= QueueSize
    BY LenProperties DEF TypeOK
<1>4. Total = Len(queue)
    <2>1. Len(temp[c]) = 0
        BY <1>1
    <2>2. QED
        BY <1>2, <1>3, <2>1
<1> HIDE DEF Present, Total
<1>5. QED
    BY <1>1, <1>3, <1>4 DEF Alone

LEMMA StepAlone == TypeOK /\ Alone /\ [Next]_vars => Alone'
<1> SUFFICES ASSUME TypeOK, Alone, [Next]_vars, ~ overlapped' PROVE Alone'
    BY DEF Alone
<1>1. ~ overlapped
    BY Zenon DEF Next, Step, Begin, TakeOut, TakenOut, PutBack, Restored, Push, vars
<1>2. /\ \A c, d \in Caller : pc[c] # "idle" /\ pc[d] # "idle" => c = d
      /\ IsFiniteSet(Present) /\ Cardinality(Present) = Total /\ Lossless
      /\ \A c \in Caller :
             /\ pc[c] = "empty" => (found[c] <=> addr[c] \in ToSet(temp[c]))
             /\ pc[c] = "restore" => (found[c] <=> addr[c] \in Present)
             /\ pc[c] = "push" => addr[c] \notin Present
    BY <1>1 DEF Alone
<1>3. /\ pc \in [Caller -> {"idle", "empty", "restore", "push"}]
      /\ addr \in [Caller -> Addr] /\ found \in [Caller -> BOOLEAN]
      /\ temp \in [Caller -> Seq(Addr)]
    BY DEF TypeOK
<1> HIDE DEF Present, Total
<1>4. ASSUME NEW c \in Caller, NEW a \in Addr, Begin(c, a) PROVE Alone'
    <2>1. Total' = Total /\ Present' = Present
        BY <1>4, OthersKeepStill
    <2>2. /\ pc' = [pc EXCEPT ![c] = "empty"] /\ addr' = [addr EXCEPT ![c] = a]
          /\ found' = [found EXCEPT ![c] = FALSE] /\ temp' = temp /\ temp[c] = <<>>
        BY <1>4 DEF Begin, TypeOK
    <2>3. \A d \in Caller \ {c} : pc[d] = "idle"
        BY <1>4, Zenon DEF Begin
    <2>4. ToSet(temp[c]) = {}
        BY <2>2 DEF ToSet
    <2>5. QED
        BY <1>2, <1>3, <2>1, <2>2, <2>3, <2>4 DEF Alone, Lossless
<1>5. ASSUME NEW c \in Caller, TakeOut(c) PROVE Alone'
    <2>1. Total' = Total /\ Present' = Present /\ ToSet(temp'[c]) = ToSet(temp[c]) \cup {Head(queue)}
        BY <1>2, <1>5, TakeOutMoves
    <2>2. /\ found' = [found EXCEPT ![c] = @ \/ Head(queue) = addr[c]]
          /\ pc' = pc /\ addr' = addr /\ pc[c] = "empty"
        BY <1>5 DEF TakeOut
    <2>3. \A d \in Caller \ {c} : pc[d] = "idle"
        BY <1>2, <2>2
    <2>4. found'[c] <=> addr[c] \in ToSet(temp'[c])
        BY <1>2, <1>3, <2>1, <2>2, Zenon
    <2>5. QED
        BY <1>2, <1>3, <2>1, <2>2, <2>3, <2>4 DEF Alone, Lossless
<1>6. ASSUME NEW c \in Caller, TakenOut(c) PROVE Alone'
    <2>1. Total' = Total /\ Present' = Present
        BY <1>6, OthersKeepStill
    <2>2. /\ pc' = [pc EXCEPT ![c] = "restore"] /\ addr' = addr /\ found' = found
          /\ temp' = temp /\ pc[c] = "empty" /\ queue = <<>>
        BY <1>6 DEF TakenOut
    <2>3. Present = ToSet(temp[c])
        <3>1. Present = ToSet(queue) \cup ToSet(temp[c])
            BY <1>1, <2>2, AloneWithQueue
        <3>2. ToSet(queue) = {}
            BY <2>2 DEF ToSet
        <3>3. QED
            BY <3>1, <3>2
    <2>4. QED
        BY <1>2, <1>3, <2>1, <2>2, <2>3 DEF Alone, Lossless
<1>7. ASSUME NEW c \in Caller, PutBack(c) PROVE Alone'
    <2>1. Total' = Total /\ Present' = Present
        BY <1>2, <1>7, PutBackMoves
    <2>2. pc' = pc /\ addr' = addr /\ found' = found /\ pc[c] = "restore"
        BY <1>7 DEF PutBack
    <2>3. \A d \in Caller \ {c} : pc[d] = "idle"
        BY <1>2, <2>2
    <2>4. QED
        BY <1>2, <1>3, <2>1, <2>2, <2>3 DEF Alone, Lossless
<1>8. ASSUME NEW c \in Caller, Restored(c) PROVE Alone'
    <2>1. Total' = Total /\ Present' = Present
        BY <1>8, OthersKeepStill
    <2>2. /\ pc' = [pc EXCEPT ![c] = IF found[c] THEN "idle" ELSE "push"]
          /\ addr' = addr /\ found' = found /\ temp' = temp /\ pc[c] = "restore"
        BY <1>8 DEF Restored
    <2>3. QED
        BY <1>2, <1>3, <2>1, <2>2 DEF Alone, Lossless
<1>9. ASSUME NEW c \in Caller, Push(c) PROVE Alone'
    <2>1. /\ addr[c] \notin Present /\ Total = Len(queue)
          /\ Len(queue) \in Nat /\ QueueSize \in Nat
        BY <1>1, <1>9, PushAlone, SaveQueueAssumption
    <2>2. pc' = [pc EXCEPT ![c] = "idle"] /\ addr' = addr /\ found' = found /\ pc[c] = "push"
        BY <1>9 DEF Push
    <2>3. \A d \in Caller : pc'[d] = "idle"
        BY <1>2, <1>3, <2>2
    <2>4. IsFiniteSet(Present') /\ Cardinality(Present') = Total' /\ Lossless'
        <3>1. CASE Len(queue) < QueueSize
            <4>1. Total' = Total + 1 /\ Present' = Present \cup {addr[c]}
                BY <1>9, <3>1, PushMoves
            <4>2. IsFiniteSet(Present') /\ Cardinality(Present') = Cardinality(Present) + 1
                BY <1>2, <2>1, <4>1, FS_AddElement
            <4>3. QED
                BY <1>2, <2>1, <3>1, <4>1, <4>2 DEF Lossless
        <3>2. CASE ~ (Len(queue) < QueueSize)
            <4>1. Total' = Total /\ Present' = Present
                BY <1>9, <3>2, PushMoves
            <4>2. QED
                BY <1>2, <4>1 DEF Lossless
        <3>3. QED
            BY <3>1, <3>2
    <2>5. QED
        BY <2>3, <2>4 DEF Alone
<1>10. CASE UNCHANGED vars
    <2>1. Total' = Total /\ Present' = Present
        BY <1>10, OthersKeepStill
    <2>2. pc' = pc /\ addr' = addr /\ found' = found /\ temp' = temp
        BY <1>10 DEF vars, callers
    <2>3. QED
        BY <1>2, <2>1, <2>2 DEF Alone, Lossless
<1>11. QED
    BY <1>4, <1>5, <1>6, <1>7, <1>8, <1>9, <1>10 DEF Next, Step

LEMMA SameCardinality == \A S : Set!Cardinality(S) = Cardinality(S)
BY DEF Set!Cardinality, Cardinality

LEMMA StepIsAtomic ==
    TypeOK /\ Alone /\ [Next]_vars => [~ overlapped' => Set!Next]_<<Present, refused>>
<1> SUFFICES ASSUME TypeOK, Alone, [Next]_vars, ~ overlapped'
             PROVE  Set!Next \/ UNCHANGED <<Present, refused>>
    OBVIOUS
<1>1. ~ overlapped
    BY Zenon DEF Next, Step, Begin, TakeOut, TakenOut, PutBack, Restored, Push, vars
<1> HIDE DEF Present
<1>2. ASSUME NEW c \in Caller, TakeOut(c) \/ PutBack(c)
      PROVE  UNCHANGED <<Present, refused>>
    <2>1. Lossless
        BY <1>1 DEF Alone
    <2>2. refused' = refused
        BY <1>2 DEF TakeOut, PutBack, history
    <2>3. QED
        BY <1>2, <2>1, <2>2, TakeOutMoves, PutBackMoves
<1>3. ASSUME NEW c \in Caller, Push(c) PROVE Set!Next
    <2>1. /\ addr[c] \notin Present /\ addr[c] \in Addr
          /\ Cardinality(Present) = Len(queue) /\ Len(queue) \in Nat /\ Len(queue) <= QueueSize
          /\ QueueSize \in Nat
        BY <1>1, <1>3, PushAlone, SaveQueueAssumption
    <2>2. CASE Len(queue) < QueueSize
        <3>1. Present' = Present \cup {addr[c]} /\ refused' = refused
            BY <1>3, <2>2, PushMoves
        <3>2. Set!Put(addr[c])
            BY <2>1, <2>2, <3>1, SameCardinality DEF Set!Put
        <3>3. QED
            BY <2>1, <3>2 DEF Set!Next
    <2>3. CASE ~ (Len(queue) < QueueSize)
        <3>1. Present' = Present /\ refused' = refused + 1
            BY <1>3, <2>3, PushMoves
        <3>2. Set!TurnAway(addr[c])
            BY <2>1, <2>3, <3>1, SameCardinality DEF Set!TurnAway
        <3>3. QED
            BY <2>1, <3>2 DEF Set!Next
    <2>4. QED
        BY <2>2, <2>3
<1>4. ASSUME \/ \E c \in Caller, a \in Addr : Begin(c, a)
             \/ \E c \in Caller : TakenOut(c) \/ Restored(c)
             \/ UNCHANGED vars
      PROVE  UNCHANGED <<Present, refused>>
    BY <1>4, OthersKeepStill
<1>5. QED
    BY <1>2, <1>3, <1>4 DEF Next, Step

(* As long as the two callers have not overlapped, the loops that search the    *)
(* queue are one atomic test and push on a set of QueueSize addresses.          *)
THEOREM SearchIsAtomicAlone == Spec => AtomicUntilOverlap
<1>1. QED
    BY InitTyping, StepTyping, InitAlone, StepAlone, StepIsAtomic, PTL
       DEF Spec, AtomicUntilOverlap
================================================================================
