---------------------------- MODULE AttributesProofs ----------------------------
(***************************************************************************)
(* For every type, size and number of attributes: what a device answers      *)
(* reaches its file, no string and no number leaves its field, and what is    *)
(* shown on the Python side is what the device sent.                         *)
(***************************************************************************)
EXTENDS Attributes, SequenceFacts

LEMMA InitSaved == Init => NamedDeviceIsSaved
BY DEF Init, NamedDeviceIsSaved, Gone

(* What the answers do to the entry does not matter, only that the entry saved  *)
(* is the one they led to.                                                  *)
LEMMA ResponseSaved ==
    ASSUME NamedDeviceIsSaved, NEW c, NEW vs, ReadResponse(c, vs)
    PROVE  NamedDeviceIsSaved'
<1> DEFINE taken == entry.known /\ c \in {"basic", "power"}
           e == IF taken THEN TakenOver(entry, vs) ELSE entry
<1>1. entry' = e /\ asked' = IF taken /\ Named(e) THEN e ELSE asked
    BY DEF ReadResponse
<1>2. CASE taken
    <2>1. CASE Named(e)
        <3>1. asked' = entry'
            BY <1>1, <1>2, <2>1
        <3>2. QED
            BY <3>1 DEF NamedDeviceIsSaved
    <2>2. CASE ~ Named(e)
        <3>1. ~ Named(entry')
            BY <1>1, <2>2
        <3>2. QED
            BY <3>1 DEF NamedDeviceIsSaved, Named
    <2>3. QED
        BY <2>1, <2>2
<1>3. CASE ~ taken
    <2>1. entry' = entry /\ asked' = asked
        BY <1>1, <1>3
    <2>2. QED
        BY <2>1 DEF NamedDeviceIsSaved, Named
<1>4. QED
    BY <1>2, <1>3

LEMMA StepSaved == NamedDeviceIsSaved /\ [Next]_vars => NamedDeviceIsSaved'
<1> SUFFICES ASSUME NamedDeviceIsSaved, [Next]_vars PROVE NamedDeviceIsSaved'
    OBVIOUS
<1>1. ASSUME NEW c, NEW vs, ReadResponse(c, vs) PROVE NamedDeviceIsSaved'
    BY <1>1, ResponseSaved
<1>2. CASE Announce
    BY <1>2 DEF Announce, NamedDeviceIsSaved
<1>3. CASE RemoveDevice
    BY <1>3 DEF RemoveDevice, NamedDeviceIsSaved, Gone
<1>4. ASSUME UNCHANGED <<entry, asked>> PROVE NamedDeviceIsSaved'
    BY <1>4 DEF NamedDeviceIsSaved, Named
<1>5. CASE Hear
    BY <1>4, <1>5 DEF Hear
<1>6. CASE UNCHANGED vars
    BY <1>4, <1>6 DEF vars
<1>7. ASSUME NEW m, Passed(m) PROVE NamedDeviceIsSaved'
    BY <1>4, <1>7 DEF Passed
<1>8. CASE Event
    BY <1>1, <1>2, <1>3, <1>7, <1>8
       DEF Event, Report, DefaultResponse, ConfigResponse, CustomCommand, OtherAction, RawCommand
<1>9. QED
    BY <1>5, <1>6, <1>8 DEF Next

(* For every set of answers, in any order and with removals and joins between   *)
(* them: the entry of a named device is what the last save was asked for.       *)
THEOREM NamedIsSaved == Spec => []NamedDeviceIsSaved
<1>1. QED
    BY InitSaved, StepSaved, PTL DEF Spec
--------------------------------------------------------------------------------
(* The entry.                                                              *)

(* What an attribute of an answer can be.                                  *)
Attribute == [id : Nat, type : 0..255, size : Nat, value : 0..255]

LEMMA AnswersAreAttributes ==
    ASSUME NEW c \in {"basic", "power", "other"} PROVE Answers(c) \subseteq Attribute
<1>1. NameSizes \subseteq Nat /\ Percentages \subseteq 0..255
    BY AttributesAssumption
<1>2. ASSUME c = "basic", NEW v \in Answers(c) PROVE v \in Attribute
    <2>1. \/ v = Variable(AppVersion, U8, 1, 2) \/ v = Variable(PowerSource, Enum8, 1, 3)
          \/ \E i \in {Manufacturer, Model}, n \in NameSizes : v = Variable(i, CharString, n, 0)
        BY <1>2 DEF Answers
    <2>2. QED
        BY <1>1, <2>1
           DEF Variable, Attribute, AppVersion, U8, PowerSource, Enum8, Manufacturer, Model, CharString
<1>3. ASSUME c = "power", NEW v \in Answers(c) PROVE v \in Attribute
    <2>1. \/ v = Variable(MainsFrequency, U8, 1, 100) \/ v = Variable(BatteryVoltage, U8, 1, 30)
          \/ \E p \in Percentages : v = Variable(BatteryPercentage, U8, 1, p)
        BY <1>3 DEF Answers
    <2>2. QED
        BY <1>1, <2>1
           DEF Variable, Attribute, MainsFrequency, U8, BatteryVoltage, BatteryPercentage
<1>4. ASSUME c = "other", NEW v \in Answers(c) PROVE v \in Attribute
    BY <1>4 DEF Answers, Variable, Attribute, AppVersion, U8
<1>5. QED
    BY <1>2, <1>3, <1>4

LEMMA NewEntryStays == NewEntry \in Entries
<1>1. ASSUME NEW g \in Entries, NEW b \in BOOLEAN PROVE [g EXCEPT !.known = b] \in Entries
    BY DEF Entries, Names
<1>2. Gone \in Entries
    BY DEF Gone, Entries, Names
<1>3. QED
    BY <1>1, <1>2 DEF NewEntry

(* No attribute, whatever its size, leaves more than a field holds.           *)
LEMMA UpdatedStays ==
    ASSUME NEW e \in Entries, NEW v \in Attribute PROVE Updated(e, v) \in Entries
<1>1. v.size \in Nat /\ v.value \in 0..255
    BY DEF Attribute
<1>2. CASE v.size <= LongestName
    <2>1. v.size \in Names /\ (IF v.size <= LongestName THEN v.size ELSE LongestName) \in Names
        BY <1>1, <1>2 DEF LongestName, Names
    <2>2. (IF v.value > 100 THEN v.value - 100 ELSE v.value) \in 0..155
        BY <1>1
    <2>3. QED
        BY <1>1, <2>1, <2>2 DEF Updated, Entries
<1>3. CASE ~ (v.size <= LongestName)
    <2>1. (IF v.size <= LongestName THEN v.size ELSE LongestName) \in Names
        BY <1>3 DEF LongestName, Names
    <2>2. (IF v.value > 100 THEN v.value - 100 ELSE v.value) \in 0..155
        BY <1>1
    <2>3. QED
        BY <1>1, <1>3, <2>1, <2>2 DEF Updated, Entries
<1>4. QED
    BY <1>2, <1>3

LEMMA TakenOverStays ==
    ASSUME NEW e \in Entries, NEW vs \in Seq(Attribute) PROVE TakenOver(e, vs) \in Entries
<1>1. PICK N : N = Len(vs)
    OBVIOUS
<1>2. N \in Nat /\ \A n \in 1..N : vs[n] \in Attribute
    BY <1>1, LenProperties, ElementOfSeq
<1>3. PICK F \in [Entries \X (1..N) -> Entries] :
          \A r \in Entries, n \in 1..N : F[<<r, n>>] = Updated(r, vs[n])
    <2> DEFINE G == [p \in Entries \X (1..N) |-> Updated(p[1], vs[p[2]])]
    <2>1. \A p \in Entries \X (1..N) : Updated(p[1], vs[p[2]]) \in Entries
        BY <1>2, UpdatedStays
    <2>2. G \in [Entries \X (1..N) -> Entries]
        BY <2>1
    <2>3. \A r \in Entries, n \in 1..N : G[<<r, n>>] = Updated(r, vs[n])
        OBVIOUS
    <2> HIDE DEF G
    <2>4. QED
        BY <2>2, <2>3
<1>4. PICK g : Runs(g, N, Entries, e, F)
    BY <1>2, <1>3, LoopExists
<1>5. \A n \in 1..N : g[n] = Updated(g[n - 1], vs[n])
    <2>1. ASSUME NEW n \in 1..N PROVE g[n - 1] \in Entries
        BY <1>2, <1>4 DEF Runs
    <2>2. QED
        BY <1>3, <1>4, <2>1 DEF Runs
<1> DEFINE Eq(f) == f = [n \in 0..Len(vs) |-> IF n = 0 THEN e ELSE Updated(f[n - 1], vs[n])]
<1>6. Eq(g)
    <2>1. \A n \in 0..N : g[n] = IF n = 0 THEN e ELSE Updated(g[n - 1], vs[n])
        BY <1>2, <1>4, <1>5 DEF Runs
    <2>2. g = [n \in 0..N |-> g[n]]
        BY <1>4 DEF Runs
    <2>3. QED
        BY <1>1, <2>1, <2>2
<1> DEFINE h == CHOOSE f : Eq(f)
<1>7. Eq(h)
    BY <1>6, Zenon
<1>8. TakenOver(e, vs) = h[Len(vs)]
    BY Zenon DEF TakenOver
<1>9. PICK k : k = h
    OBVIOUS
<1>10. k = [n \in 0..N |-> IF n = 0 THEN e ELSE Updated(k[n - 1], vs[n])]
    BY <1>1, <1>7, <1>9
<1> DEFINE P == {n \in 0..N : k[n] \in Entries}
<1>11. 0 \in P
    BY <1>2, <1>10
<1>12. ASSUME NEW n \in 0..N, n < N, n \in P PROVE n + 1 \in P
    <2>1. n + 1 \in 1..N /\ n + 1 \in 0..N /\ n + 1 # 0 /\ (n + 1) - 1 = n
        BY <1>2, <1>12
    <2>2. k[n + 1] = Updated(k[n], vs[n + 1])
        BY <1>10, <2>1
    <2>3. QED
        BY <1>2, <1>12, <2>1, <2>2, UpdatedStays
<1> HIDE DEF P
<1>13. \A n \in 0..N : n \in P
    BY <1>2, <1>11, <1>12, CountingUp
<1>14. N \in 0..N
    BY <1>2
<1>15. k[N] \in Entries
    BY <1>13, <1>14 DEF P
<1> HIDE DEF h
<1>16. QED
    BY <1>1, <1>8, <1>9, <1>15
--------------------------------------------------------------------------------
(* The messages.                                                           *)

Kinds == {"answer", "report", "default", "config", "custom", "other", "raw"}
Responses == (0..1) \X (0..1) \X (0..1)

(* What the handlers pack: data_len is the size in eight bits, a report has the  *)
(* size of its type, a default response three bytes, a raw command its header.  *)
Packed ==
    {m \in [kind : Kinds, header : 0..12, size : Nat, len : 0..255, type : 0..255,
            value : {<<>>} \cup Responses] :
        /\ m.len = (m.header + m.size) % 256
        /\ m.kind = "report" => m.header = 3 /\ m.size \in Sizes(m.type)
        /\ m.kind = "default" => m.header = 0 /\ m.size = 3 /\ m.value \in Responses
        /\ m.kind = "raw" => m.header = 12}

Queues == {q \in Seq(Packed) : Len(q) <= QueueSize}

LEMMA SomethingPacked ==
    ASSUME NEW k \in Kinds, NEW h \in 0..12, NEW n \in Nat, NEW t \in 0..255,
           NEW v \in {<<>>} \cup Responses,
           k = "report" => h = 3 /\ n \in Sizes(t),
           k = "default" => h = 0 /\ n = 3 /\ v \in Responses,
           k = "raw" => h = 12
    PROVE  Message(k, h, n, t, v) \in Packed
<1>1. PICK m : m = Message(k, h, n, t, v)
    OBVIOUS
<1>2. PICK l \in 0..255 : l = (h + n) % 256
    OBVIOUS
<1>3. /\ m.kind = k /\ m.header = h /\ m.size = n /\ m.len = l /\ m.type = t /\ m.value = v
      /\ m \in [kind : Kinds, header : 0..12, size : Nat, len : 0..255, type : 0..255,
                value : {<<>>} \cup Responses]
    BY <1>1, <1>2 DEF Message
<1>4. m.len = (m.header + m.size) % 256
    BY <1>2, <1>3
<1>5. m.kind = "report" => m.header = 3 /\ m.size \in Sizes(m.type)
    BY <1>3
<1>6. m.kind = "default" => m.header = 0 /\ m.size = 3 /\ m.value \in Responses
    BY <1>3
<1>7. m.kind = "raw" => m.header = 12
    BY <1>3
<1>8. m \in Packed
    BY <1>3, <1>4, <1>5, <1>6, <1>7 DEF Packed
<1>9. QED
    BY <1>1, <1>8

(* A send keeps the queue within its length: it is full before it loses one.    *)
LEMMA SendStays ==
    ASSUME NEW q \in Queues, NEW m \in Packed PROVE Send(q, m) \in Queues
<1>1. q \in Seq(Packed) /\ Len(q) \in Nat /\ Len(q) <= QueueSize /\ QueueSize \in Nat \ {0}
    BY LenProperties, AttributesAssumption DEF Queues
<1>2. CASE Len(q) < QueueSize
    <2>1. Append(q, m) \in Seq(Packed) /\ Len(Append(q, m)) = Len(q) + 1
        BY <1>1, AppendProperties
    <2>2. QED
        BY <1>1, <1>2, <2>1 DEF Send, Queues
<1>3. CASE ~ (Len(q) < QueueSize)
    <2>1. q # <<>> /\ Len(q) = QueueSize
        BY <1>1, <1>3, EmptySeq
    <2>2. Tail(q) \in Seq(Packed) /\ Len(Tail(q)) = Len(q) - 1
        BY <1>1, <2>1, TailMembers
    <2>3. Append(Tail(q), m) \in Seq(Packed) /\ Len(Append(Tail(q), m)) = Len(q)
        BY <1>1, <2>2, AppendProperties
    <2>4. QED
        BY <1>1, <1>3, <2>3 DEF Send, Queues
<1>4. QED
    BY <1>2, <1>3

LEMMA AnswerStays ==
    ASSUME NEW q \in Queues, NEW v \in Attribute PROVE SendAnswer(q, v) \in Queues
<1>1. v.size \in Nat /\ v.type \in 0..255 /\ "answer" \in Kinds /\ 3 \in 0..12
    BY DEF Attribute, Kinds
<1>2. Message("answer", 3, v.size, v.type, <<>>) \in Packed
    BY <1>1, SomethingPacked
<1>3. QED
    BY <1>2, SendStays DEF SendAnswer
LEMMA SentOnStays ==
    ASSUME NEW q \in Queues, NEW vs \in Seq(Attribute) PROVE SentOn(q, vs) \in Queues
<1>1. PICK N : N = Len(vs)
    OBVIOUS
<1>2. N \in Nat /\ \A n \in 1..N : vs[n] \in Attribute
    BY <1>1, LenProperties, ElementOfSeq
<1>3. PICK F \in [Queues \X (1..N) -> Queues] :
          \A r \in Queues, n \in 1..N : F[<<r, n>>] = SendAnswer(r, vs[n])
    <2> DEFINE G == [p \in Queues \X (1..N) |-> SendAnswer(p[1], vs[p[2]])]
    <2>1. \A p \in Queues \X (1..N) : SendAnswer(p[1], vs[p[2]]) \in Queues
        BY <1>2, AnswerStays
    <2>2. G \in [Queues \X (1..N) -> Queues]
        BY <2>1
    <2>3. \A r \in Queues, n \in 1..N : G[<<r, n>>] = SendAnswer(r, vs[n])
        OBVIOUS
    <2> HIDE DEF G
    <2>4. QED
        BY <2>2, <2>3
<1>4. PICK g : Runs(g, N, Queues, q, F)
    BY <1>2, <1>3, LoopExists
<1>5. \A n \in 1..N : g[n] = SendAnswer(g[n - 1], vs[n])
    <2>1. ASSUME NEW n \in 1..N PROVE g[n - 1] \in Queues
        BY <1>2, <1>4 DEF Runs
    <2>2. QED
        BY <1>3, <1>4, <2>1 DEF Runs
<1> DEFINE Eq(f) == f = [n \in 0..Len(vs) |-> IF n = 0 THEN q ELSE SendAnswer(f[n - 1], vs[n])]
<1>6. Eq(g)
    <2>1. \A n \in 0..N : g[n] = IF n = 0 THEN q ELSE SendAnswer(g[n - 1], vs[n])
        BY <1>2, <1>4, <1>5 DEF Runs
    <2>2. g = [n \in 0..N |-> g[n]]
        BY <1>4 DEF Runs
    <2>3. QED
        BY <1>1, <2>1, <2>2
<1> DEFINE h == CHOOSE f : Eq(f)
<1>7. Eq(h)
    BY <1>6, Zenon
<1>8. SentOn(q, vs) = h[Len(vs)]
    BY Zenon DEF SentOn
<1>9. PICK k : k = h
    OBVIOUS
<1>10. k = [n \in 0..N |-> IF n = 0 THEN q ELSE SendAnswer(k[n - 1], vs[n])]
    BY <1>1, <1>7, <1>9
<1> DEFINE P == {n \in 0..N : k[n] \in Queues}
<1>11. 0 \in P
    BY <1>2, <1>10
<1>12. ASSUME NEW n \in 0..N, n < N, n \in P PROVE n + 1 \in P
    <2>1. n + 1 \in 1..N /\ n + 1 \in 0..N /\ n + 1 # 0 /\ (n + 1) - 1 = n
        BY <1>2, <1>12
    <2>2. k[n + 1] = SendAnswer(k[n], vs[n + 1])
        BY <1>10, <2>1
    <2>3. QED
        BY <1>2, <1>12, <2>1, <2>2, AnswerStays
<1> HIDE DEF P
<1>13. \A n \in 0..N : n \in P
    BY <1>2, <1>11, <1>12, CountingUp
<1>14. N \in 0..N
    BY <1>2
<1>15. k[N] \in Queues
    BY <1>13, <1>14 DEF P
<1> HIDE DEF h
<1>16. QED
    BY <1>1, <1>8, <1>9, <1>15

--------------------------------------------------------------------------------
(* Decoding.                                                               *)

(* Where convert_zcl_data asks for as many bytes as it was given, the table of   *)
(* sizes agrees with the ZCL specification.                                  *)
LEMMA NumbersHaveTheirWidth ==
    ASSUME NEW t \in 0..255, Converted(t, SizeOf(t)) = "number" PROVE SizeOf(t) = Width(t)
<1>1. SizeOf(t) \in Int
    BY DEF SizeOf
<1>2. t \in DOMAIN Unpacked /\ Unpacked[t] \in {0, SizeOf(t)}
    BY <1>1 DEF Converted
<1>3. t \in {8, 16, 24, 25, 27, 32, 33, 35, 41, 43}
    BY <1>2 DEF Unpacked
<1>4. CASE t \in {8, 16, 24, 32}
    <2>1. SizeOf(t) = 1
        BY <1>4 DEF SizeOf, SizedByNibble
    <2>2. QED
        BY <1>4, <2>1 DEF Width
<1>5. CASE t \in {25, 41}
    <2>1. SizeOf(t) = 2
        BY <1>5 DEF SizeOf, SizedByNibble
    <2>2. QED
        BY <1>5, <2>1 DEF Width
<1>6. CASE t \in {27, 43}
    <2>1. SizeOf(t) = 4
        BY <1>6 DEF SizeOf, SizedByNibble
    <2>2. QED
        BY <1>6, <2>1 DEF Width
<1>7. CASE t \in {33, 35}
    <2>1. SizeOf(t) = 1
        BY <1>7 DEF SizeOf, SizedByNibble
    <2>2. Unpacked[33] = 2 /\ Unpacked[35] = 4
        BY DEF Unpacked
    <2>3. QED
        BY <1>2, <1>7, <2>1, <2>2
<1>8. QED
    BY <1>3, <1>4, <1>5, <1>6, <1>7

LEMMA RightSizesGiveNumbers ==
    ASSUME NEW t \in DOMAIN Unpacked, SizeOf(t) = Width(t)
    PROVE  t # CharString /\ Width(t) \in 1..8 /\ Converted(t, SizeOf(t)) = "number"
<1>1. t \in {8, 16, 24, 25, 27, 32, 33, 35, 41, 43}
    BY DEF Unpacked
<1>2. t \notin {33, 35}
    BY DEF SizeOf, SizedByNibble, Width
<1>3. CASE t \in {8, 16, 24, 32}
    <2>1. SizeOf(t) = 1 /\ Unpacked[t] \in {0, 1}
        BY <1>3 DEF SizeOf, SizedByNibble, Unpacked
    <2>2. QED
        BY <1>3, <2>1 DEF CharString, Converted
<1>4. CASE t \in {25, 41}
    <2>1. SizeOf(t) = 2 /\ Unpacked[t] = 2
        BY <1>4 DEF SizeOf, SizedByNibble, Unpacked
    <2>2. QED
        BY <1>4, <2>1 DEF CharString, Converted
<1>5. CASE t \in {27, 43}
    <2>1. SizeOf(t) = 4 /\ Unpacked[t] = 4
        BY <1>5 DEF SizeOf, SizedByNibble, Unpacked
    <2>2. QED
        BY <1>5, <2>1 DEF CharString, Converted
<1>6. QED
    BY <1>1, <1>2, <1>3, <1>4, <1>5
--------------------------------------------------------------------------------
(* What Python shows: the three parsers, each on every message it can be given.  *)

Faithful(s) ==
    /\ s.as = "number" => s.taken = Width(s.of.type)
    /\ s.as = "status" => s.value = SubSeq(s.of.value, 1, 2)
    /\ s.of.kind = "report" /\ s.of.type \in DOMAIN Unpacked
            /\ SizeOf(s.of.type) = Width(s.of.type)
       => s.as = "number"
    /\ s.of.kind = "raw" /\ s.of.header + s.of.size < 256
       => s.as = "payload" /\ s.taken = s.of.size

LEMMA ReportsAreFaithful ==
    ASSUME NEW m \in Packed, m.kind = "report" PROVE Faithful(ParseAttribute(m))
<1>1. /\ m.type \in 0..255 /\ m.len \in 0..255 /\ m.header = 3
      /\ m.len = (3 + m.size) % 256 /\ m.size \in Sizes(m.type)
    BY DEF Packed
<1>2. PICK n : n = SizeOf(m.type)
    OBVIOUS
<1>3. PICK s : s = ParseAttribute(m)
    OBVIOUS
<1>4. s.of = m
    BY <1>3 DEF ParseAttribute, Shown
<1>5. s.as = "number" => s.taken = Width(m.type)
    <2>1. SUFFICES ASSUME s.as = "number" PROVE s.taken = Width(m.type)
        OBVIOUS
    <2>2. s = Shown(m, Converted(m.type, n), n, <<>>)
        BY <1>2, <1>3, <2>1 DEF ParseAttribute, Shown
    <2>3. Converted(m.type, SizeOf(m.type)) = "number" /\ s.taken = n
        BY <1>2, <2>1, <2>2 DEF Shown
    <2>4. QED
        BY <1>1, <1>2, <2>3, NumbersHaveTheirWidth
<1>6. s.as # "status"
    <2>1. Converted(m.type, n) # "status"
        <3>1. n \in Int
            <4>1. SizeOf(m.type) \in Int
                BY <1>1 DEF SizeOf
            <4>2. QED
                BY <1>2, <4>1
        <3>2. CASE n <= 0 \/ m.type \notin DOMAIN Unpacked
            <4>1. Converted(m.type, n) = "none"
                BY <3>1, <3>2 DEF Converted
            <4>2. QED
                BY <4>1
        <3>3. CASE n > 0 /\ m.type \in DOMAIN Unpacked
            <4>1. Converted(m.type, n) = IF Unpacked[m.type] \in {0, n} THEN "number" ELSE "bytes"
                BY <3>1, <3>3 DEF Converted
            <4>2. QED
                BY <4>1
        <3>4. QED
            BY <3>1, <3>2, <3>3
    <2>2. s.as \in {"error", Converted(m.type, n)}
        BY <1>2, <1>3 DEF ParseAttribute, Shown
    <2>3. QED
        BY <2>1, <2>2
<1>7. ASSUME m.type \in DOMAIN Unpacked, SizeOf(m.type) = Width(m.type) PROVE s.as = "number"
    <2>1. /\ m.type # CharString /\ Width(m.type) \in 1..8
          /\ Converted(m.type, SizeOf(m.type)) = "number"
        BY <1>7, RightSizesGiveNumbers
    <2>2. m.size = Width(m.type)
        BY <1>1, <2>1 DEF Sizes
    <2>3. n \in 1..8 /\ m.len = 3 + n
        BY <1>1, <1>2, <1>7, <2>1, <2>2
    <2>4. s = Shown(m, Converted(m.type, n), n, <<>>)
        BY <1>2, <1>3, <2>3 DEF ParseAttribute
    <2>5. QED
        BY <1>2, <2>1, <2>4 DEF Shown
<1>8. m.kind # "raw"
    OBVIOUS
<1>9. Faithful(s)
    BY <1>4, <1>5, <1>6, <1>7, <1>8, Zenon DEF Faithful
<1>10. QED
    BY <1>3, <1>9

LEMMA ResponsesAreFaithful ==
    ASSUME NEW m \in Packed, m.kind = "default" PROVE Faithful(ParseCommandResponse(m))
<1>1. m.len = 3 /\ m.value \in Responses
    BY DEF Packed
<1>2. PICK s : s = ParseCommandResponse(m)
    OBVIOUS
<1>3. s.of = m /\ s.as = "status" /\ s.value = <<m.value[1], m.value[2]>>
    BY <1>1, <1>2 DEF ParseCommandResponse, Shown
<1>4. SubSeq(m.value, 1, 2) = <<m.value[1], m.value[2]>>
    <2>1. PICK a, b, c \in 0..1 : m.value = <<a, b, c>>
        BY <1>1 DEF Responses
    <2>2. SubSeq(<<a, b, c>>, 1, 2) = <<a, b>>
        <3>1. PICK t : t = SubSeq(<<a, b, c>>, 1, 2)
            OBVIOUS
        <3>2. <<a, b, c>> \in Seq(0..1) /\ Len(<<a, b, c>>) = 3
            OBVIOUS
        <3>3. t \in Seq(0..1) /\ Len(t) = 2 /\ t[1] = a /\ t[2] = b
            BY <3>1, <3>2, SubSeqProperties
        <3>4. <<a, b>> \in Seq(0..1) /\ Len(<<a, b>>) = 2
            OBVIOUS
        <3>5. \A i \in 1..Len(t) : t[i] = <<a, b>>[i]
            BY <3>3
        <3>6. t = <<a, b>>
            BY <3>3, <3>4, <3>5, SeqEqual
        <3>7. QED
            BY <3>1, <3>6
    <2>3. QED
        BY <2>1, <2>2
<1>5. Faithful(s)
    BY <1>3, <1>4 DEF Faithful
<1>6. QED
    BY <1>2, <1>5

LEMMA RawCommandsAreFaithful ==
    ASSUME NEW m \in Packed, m.kind = "raw" PROVE Faithful(HandleRawCommand(m))
<1>1. m.header = 12 /\ m.size \in Nat /\ m.len = (12 + m.size) % 256 /\ m.len \in 0..255
    BY DEF Packed
<1>2. PICK s : s = HandleRawCommand(m)
    OBVIOUS
<1>3. s.of = m /\ s.as \in {"raised", "payload"}
    BY <1>2 DEF HandleRawCommand, Shown
<1>4. ASSUME 12 + m.size < 256 PROVE s.as = "payload" /\ s.taken = m.size
    <2>1. m.len = 12 + m.size
        BY <1>1, <1>4
    <2>2. s = Shown(m, "payload", m.len - 12, <<>>)
        BY <1>1, <1>2, <2>1 DEF HandleRawCommand
    <2>3. m.len - 12 = m.size
        BY <1>1, <2>1
    <2>4. QED
        BY <2>2, <2>3 DEF Shown
<1>5. m.kind # "report" /\ s.as # "number" /\ s.as # "status"
    BY <1>3
<1>6. Faithful(s)
    BY <1>1, <1>3, <1>4, <1>5 DEF Faithful
<1>7. QED
    BY <1>2, <1>6
LEMMA OthersAreFaithful ==
    ASSUME NEW m \in Packed, m.kind \notin {"report", "default", "raw"}
    PROVE  Faithful(Shown(m, "printed", 0, <<>>))
<1>1. PICK s : s = Shown(m, "printed", 0, <<>>)
    OBVIOUS
<1>2. s.of = m /\ s.as = "printed" /\ m.kind # "report" /\ m.kind # "raw"
    BY <1>1 DEF Shown
<1>3. Faithful(s)
    BY <1>2 DEF Faithful
<1>4. QED
    BY <1>1, <1>3

--------------------------------------------------------------------------------
(* The invariant: every queued message is one the handlers pack, and what was    *)
(* last shown is what such a message said.                                    *)

Sound ==
    /\ entry \in Entries /\ asked \in Entries
    /\ queue \in Queues
    /\ events \in 0..MaxEvents
    /\ Faithful(heard)

LEMMA InitSound == Init => Sound
<1> SUFFICES ASSUME Init PROVE Sound
    OBVIOUS
<1>1. Gone \in Entries
    BY DEF Gone, Entries, Names
<1>2. <<>> \in Queues
    BY AttributesAssumption, EmptySeq DEF Queues
<1>3. PICK s : s = Shown(Nothing, "none", 0, <<>>)
    OBVIOUS
<1>4. s.of.kind = "none" /\ s.as = "none"
    BY <1>3 DEF Shown, Nothing
<1>5. Faithful(s)
    BY <1>4 DEF Faithful
<1>6. 0 \in 0..MaxEvents
    BY AttributesAssumption
<1>7. QED
    BY <1>1, <1>2, <1>3, <1>5, <1>6 DEF Init, Sound

LEMMA PassedSound ==
    ASSUME Sound, NEW m \in Packed, Passed(m)
    PROVE  entry' \in Entries /\ asked' \in Entries /\ queue' \in Queues /\ heard' = heard
BY SendStays DEF Sound, Passed

LEMMA ResponseSound ==
    ASSUME Sound, NEW c, NEW vs \in Seq(Attribute), ReadResponse(c, vs)
    PROVE  entry' \in Entries /\ asked' \in Entries /\ queue' \in Queues /\ heard' = heard
<1>1. TakenOver(entry, vs) \in Entries /\ SentOn(queue, vs) \in Queues
    BY TakenOverStays, SentOnStays DEF Sound
<1> DEFINE taken == entry.known /\ c \in {"basic", "power"}
           e == IF taken THEN TakenOver(entry, vs) ELSE entry
<1>2. entry' = e /\ asked' = (IF taken /\ Named(e) THEN e ELSE asked)
      /\ queue' = SentOn(queue, vs) /\ heard' = heard
    BY DEF ReadResponse
<1>3. e \in Entries
    BY <1>1 DEF Sound
<1> HIDE DEF taken, e
<1>4. QED
    BY <1>1, <1>2, <1>3 DEF Sound

LEMMA EventSound ==
    ASSUME Sound, Event
    PROVE  entry' \in Entries /\ asked' \in Entries /\ queue' \in Queues /\ heard' = heard
<1> DEFINE Goal == entry' \in Entries /\ asked' \in Entries /\ queue' \in Queues /\ heard' = heard
<1>1. CASE Announce
    BY <1>1, NewEntryStays DEF Announce, Sound
<1>2. CASE RemoveDevice
    <2>1. Gone \in Entries
        BY DEF Gone, Entries, Names
    <2>2. QED
        BY <1>2, <2>1 DEF RemoveDevice, Sound
<1>3. ASSUME NEW c \in {"basic", "power", "other"}, NEW v \in Answers(c),
             \/ ReadResponse(c, <<v>>)
             \/ \E w \in Answers(c) : ReadResponse(c, <<v, w>>)
      PROVE  Goal
    <2>1. Answers(c) \subseteq Attribute
        BY AnswersAreAttributes
    <2>2. <<v>> \in Seq(Attribute) /\ \A w \in Answers(c) : <<v, w>> \in Seq(Attribute)
        BY <2>1
    <2>3. QED
        BY <1>3, <2>2, ResponseSound
<1>4. ASSUME NEW t \in Types, NEW n \in LongSizes \cup 1..8, n \in Sizes(t), Report(t, n) PROVE Goal
    <2>1. t \in 0..255 /\ n \in Nat
        BY <1>4, AttributesAssumption
    <2>2. "report" \in Kinds /\ 3 \in 0..12 /\ <<>> \in {<<>>} \cup Responses
        BY DEF Kinds
    <2>3. Message("report", 3, n, t, <<>>) \in Packed
        BY <1>4, <2>1, <2>2, SomethingPacked
    <2>4. QED
        BY <1>4, <2>3, PassedSound DEF Report
<1>5. ASSUME NEW x \in 0..1, NEW y \in 0..1, NEW z \in 0..1, DefaultResponse(x, y, z) PROVE Goal
    <2>1. "default" \in Kinds /\ 0 \in 0..12 /\ 0 \in 0..255 /\ <<x, y, z>> \in Responses
        BY DEF Kinds, Responses
    <2>2. Message("default", 0, 3, 0, <<x, y, z>>) \in Packed
        BY <2>1, SomethingPacked
    <2>3. QED
        BY <1>5, <2>2, PassedSound DEF DefaultResponse
<1>6. ASSUME NEW k \in {"config", "custom", "other"}, NEW n \in Nat,
             Passed(Message(k, 0, n, 0, <<>>))
      PROVE  Goal
    <2>1. k \in Kinds /\ 0 \in 0..12 /\ 0 \in 0..255 /\ <<>> \in {<<>>} \cup Responses
        BY DEF Kinds
    <2>2. k # "report" /\ k # "default" /\ k # "raw"
        OBVIOUS
    <2>3. Message(k, 0, n, 0, <<>>) \in Packed
        BY <2>1, <2>2, SomethingPacked
    <2>4. QED
        BY <1>6, <2>3, PassedSound
<1>7. ASSUME NEW n \in LongSizes, RawCommand(n) PROVE Goal
    <2>1. "raw" \in Kinds /\ 12 \in 0..12 /\ 0 \in 0..255 /\ <<>> \in {<<>>} \cup Responses
          /\ n \in Nat
        BY AttributesAssumption DEF Kinds
    <2>2. Message("raw", 12, n, 0, <<>>) \in Packed
        BY <2>1, SomethingPacked
    <2>3. QED
        BY <1>7, <2>2, PassedSound DEF RawCommand
<1>8. LongSizes \subseteq Nat
    BY AttributesAssumption
<1>9. CASE ConfigResponse
    BY <1>6, <1>9 DEF ConfigResponse
<1>10. ASSUME NEW n \in LongSizes, CustomCommand(n) PROVE Goal
    BY <1>6, <1>8, <1>10 DEF CustomCommand
<1>11. CASE OtherAction
    BY <1>6, <1>11 DEF OtherAction
<1>12. CASE \E c \in {"basic", "power", "other"} : \E v \in Answers(c) :
                \/ ReadResponse(c, <<v>>)
                \/ \E w \in Answers(c) : ReadResponse(c, <<v, w>>)
    <2>1. PICK c \in {"basic", "power", "other"} : \E v \in Answers(c) :
                \/ ReadResponse(c, <<v>>)
                \/ \E w \in Answers(c) : ReadResponse(c, <<v, w>>)
        BY <1>12
    <2>2. PICK v \in Answers(c) : \/ ReadResponse(c, <<v>>)
                                  \/ \E w \in Answers(c) : ReadResponse(c, <<v, w>>)
        BY <2>1
    <2>3. QED
        BY <1>3, <2>2
<1>13. CASE \E t \in Types, n \in LongSizes \cup 1..8 : n \in Sizes(t) /\ Report(t, n)
    <2>1. PICK t \in Types, n \in LongSizes \cup 1..8 : n \in Sizes(t) /\ Report(t, n)
        BY <1>13
    <2>2. QED
        BY <1>4, <2>1
<1>14. CASE \E x, y, z \in 0..1 : DefaultResponse(x, y, z)
    <2>1. PICK x \in 0..1, y \in 0..1, z \in 0..1 : DefaultResponse(x, y, z)
        BY <1>14
    <2>2. QED
        BY <1>5, <2>1
<1>15. CASE \E n \in LongSizes : CustomCommand(n) \/ RawCommand(n)
    BY <1>7, <1>10, <1>15
<1>16. QED
    BY <1>1, <1>2, <1>9, <1>11, <1>12, <1>13, <1>14, <1>15, Zenon DEF Event

LEMMA HearSound ==
    ASSUME Sound, Hear
    PROVE  entry' \in Entries /\ asked' \in Entries /\ queue' \in Queues /\ Faithful(heard')
<1>1. queue \in Seq(Packed) /\ queue # <<>> /\ Len(queue) <= QueueSize /\ QueueSize \in Nat
    BY AttributesAssumption DEF Sound, Queues, Hear
<1>2. /\ Tail(queue) \in Seq(Packed) /\ Head(queue) \in Packed
      /\ Len(Tail(queue)) = Len(queue) - 1 /\ Len(queue) \in Nat
    BY <1>1, TailMembers
<1>3. Tail(queue) \in Queues
    BY <1>1, <1>2 DEF Queues
<1>4. PICK m \in Packed : m = Head(queue)
    BY <1>2
<1>5. heard' = CASE m.kind = "report" -> ParseAttribute(m)
                 [] m.kind = "default" -> ParseCommandResponse(m)
                 [] m.kind = "raw" -> HandleRawCommand(m)
                 [] OTHER -> Shown(m, "printed", 0, <<>>)
    BY <1>4 DEF Hear
<1>6. Faithful(heard')
    <2>1. CASE m.kind = "report"
        <3>1. heard' = ParseAttribute(m)
            BY <1>5, <2>1
        <3>2. QED
            BY <2>1, <3>1, ReportsAreFaithful
    <2>2. CASE m.kind = "default"
        <3>1. heard' = ParseCommandResponse(m)
            BY <1>5, <2>2
        <3>2. QED
            BY <2>2, <3>1, ResponsesAreFaithful
    <2>3. CASE m.kind = "raw"
        <3>1. heard' = HandleRawCommand(m)
            BY <1>5, <2>3
        <3>2. QED
            BY <2>3, <3>1, RawCommandsAreFaithful
    <2>4. CASE m.kind \notin {"report", "default", "raw"}
        <3>1. heard' = Shown(m, "printed", 0, <<>>)
            BY <1>5, <2>4
        <3>2. QED
            BY <2>4, <3>1, OthersAreFaithful
    <2>5. QED
        BY <2>1, <2>2, <2>3, <2>4
<1>7. QED
    BY <1>3, <1>6 DEF Hear, Sound

LEMMA StepSound == Sound /\ [Next]_vars => Sound'
<1> SUFFICES ASSUME Sound, [Next]_vars PROVE Sound'
    OBVIOUS
<1>1. CASE events < MaxEvents /\ events' = events + 1 /\ Event
    <2>1. entry' \in Entries /\ asked' \in Entries /\ queue' \in Queues /\ heard' = heard
        BY <1>1, EventSound
    <2>2. events' \in 0..MaxEvents
        BY <1>1, AttributesAssumption DEF Sound
    <2>3. QED
        BY <2>1, <2>2 DEF Sound
<1>2. CASE Hear
    <2>1. entry' \in Entries /\ asked' \in Entries /\ queue' \in Queues /\ Faithful(heard')
        BY <1>2, HearSound
    <2>2. events' = events
        BY <1>2 DEF Hear
    <2>3. QED
        BY <2>1, <2>2 DEF Sound
<1>3. CASE UNCHANGED vars
    BY <1>3 DEF vars, Sound
<1>4. QED
    BY <1>1, <1>2, <1>3 DEF Next

LEMMA AlwaysSound == Spec => []Sound
BY InitSound, StepSound, PTL DEF Spec

(* For every set of types, sizes and levels and every length of the queue: no    *)
(* string and no number leaves its field, the queue stays within its length, and *)
(* every length in it is that of eight bits.                                  *)
THEOREM AttributesTyping == Spec => []TypeOK
<1>1. Sound => TypeOK
    <2> SUFFICES ASSUME Sound PROVE TypeOK
        OBVIOUS
    <2>1. queue \in Seq(Packed) /\ Len(queue) <= QueueSize
        BY DEF Sound, Queues
    <2>2. ASSUME NEW i \in DOMAIN queue PROVE queue[i].len \in 0..255
        <3>1. queue[i] \in Packed
            BY <2>1
        <3>2. QED
            BY <3>1 DEF Packed
    <2>3. QED
        BY <2>1, <2>2 DEF Sound, TypeOK
<1>2. QED
    BY <1>1, AlwaysSound, PTL

(* A number shown for a report is the value's whole width in the ZCL            *)
(* specification, and a response shows its own status and command, after any     *)
(* sequence of events and losses of the queue.                               *)
THEOREM ShownNumbersAreTrue == Spec => []NumbersAreTrue
<1>1. Sound => NumbersAreTrue
    BY DEF Sound, Faithful, NumbersAreTrue
<1>2. QED
    BY <1>1, AlwaysSound, PTL

(* Every report that is heard, of a type convert_zcl_data knows and                *)
(* ZCL_ATTR_TYPE.size is right about, is shown as a number: none is taken for an    *)
(* incomplete message.                                                       *)
THEOREM SizedReportsArrive == Spec => []SizedReportsAreShown
<1>1. Sound => SizedReportsAreShown
    BY DEF Sound, Faithful, SizedReportsAreShown
<1>2. QED
    BY <1>1, AlwaysSound, PTL

(* Every raw command that is heard and whose header and payload fit eight bits is  *)
(* heard whole.                                                              *)
THEOREM RawCommandsArrive == Spec => []ShortCommandsAreWhole
<1>1. Sound => ShortCommandsAreWhole
    BY DEF Sound, Faithful, ShortCommandsAreWhole
<1>2. QED
    BY <1>1, AlwaysSound, PTL
================================================================================
