------------------------------- MODULE Attributes -------------------------------
(***************************************************************************)
(* What devices say and what becomes of it: zb_action_handler and           *)
(* zb_raw_cmd_handler (mod_zig_handlers.c) keep the basic attributes of a    *)
(* device in its table entry and pack every answer, report and raw command   *)
(* into a message; on_msg (zig_run.py) unpacks it with the sizes of          *)
(* ZCL_ATTR_TYPE (zcl_attr_type.c).  Bytes are told apart only where          *)
(* somebody does: a value is one token, of which a reader takes the first so  *)
(* many bytes.  The queue between the tasks loses its oldest message when it  *)
(* is full (module MessageQueue); here a send and a receive are one step.     *)
(***************************************************************************)
EXTENDS Integers, Sequences, SequencesExt

CONSTANTS
    Types,          \* ZCL data types the devices report, by their number
    NameSizes,      \* sizes of the names they answer with
    LongSizes,      \* sizes of strings and raw payloads, long ones among them
    Percentages,    \* battery levels they answer with, in half percents (255: unknown)
    QueueSize,      \* ZIGBEE_MSG_QUEUE length
    MaxEvents       \* bound: events of the devices in a behaviour

ASSUME AttributesAssumption ==
    /\ Types \subseteq 0..255 /\ NameSizes \subseteq Nat /\ LongSizes \subseteq Nat
    /\ Percentages \subseteq 0..255 /\ QueueSize \in Nat \ {0} /\ MaxEvents \in Nat

VARIABLES
    entry,      \* the device's entry in the table, or Gone
    asked,      \* the entry as it was when a save was last asked for
    answered,   \* history: the numbers the device last answered with
    queue,      \* messages on their way to Python
    heard,      \* history: the last message on_msg handled and what it showed
    events      \* history: events so far

vars == <<entry, asked, answered, queue, heard, events>>

(* The longest name an entry holds; the mutant forgets the end of the string.  *)
WholeArray == 32
LongestName == 31

(* Attribute ids (of different attributes in different clusters) and types.    *)
AppVersion == 1
MainsFrequency == 1
Manufacturer == 4
Model == 5
PowerSource == 7
BatteryVoltage == 32
BatteryPercentage == 33

U8 == 32
Enum8 == 48
CharString == 66

(* A name is its length, 0 for a name not known.                             *)
Gone == [known |-> FALSE, manufacturer |-> 0, model |-> 0, power |-> 0,
         version |-> 0, voltage |-> 0, percentage |-> 0]
NewEntry == [Gone EXCEPT !.known = TRUE]

(* A message: what it is, the bytes put before the payload, the payload's size, *)
(* and data_len, into which both together are squeezed.                       *)
Message(kind, header, size, type, value) ==
    [kind |-> kind, header |-> header, size |-> size, len |-> (header + size) % 256,
     type |-> type, value |-> value]

Nothing == [kind |-> "none", header |-> 0, size |-> 0, len |-> 0, type |-> 0, value |-> <<>>]

--------------------------------------------------------------------------------
(* Attributes and the table.                                               *)

Variable(id, type, size, value) == [id |-> id, type |-> type, size |-> size, value |-> value]

(* What a device answers about a cluster (ZCL: the power source is an enum8).  *)
Answers(cluster) ==
    CASE cluster = "basic" ->
            {Variable(AppVersion, U8, 1, 2), Variable(PowerSource, Enum8, 1, 3)}
            \cup {Variable(i, CharString, n, 0) : i \in {Manufacturer, Model}, n \in NameSizes}
      [] cluster = "power" ->
            {Variable(MainsFrequency, U8, 1, 100), Variable(BatteryVoltage, U8, 1, 30)}
            \cup {Variable(BatteryPercentage, U8, 1, p) : p \in Percentages}
      [] cluster = "other" -> {Variable(AppVersion, U8, 1, 5)}

(* The switch over the attribute id, which does not look at the cluster.       *)
Updated(e, v) ==
    CASE v.id = Manufacturer /\ v.type = CharString /\ v.size <= LongestName ->
            [e EXCEPT !.manufacturer = v.size]
      [] v.id = Model /\ v.type = CharString ->
            [e EXCEPT !.model = IF v.size <= LongestName THEN v.size ELSE LongestName]
      [] v.id = PowerSource /\ v.type = U8 -> [e EXCEPT !.power = v.value]
      [] v.id = AppVersion /\ v.type = U8 -> [e EXCEPT !.version = v.value]
      [] v.id = BatteryVoltage /\ v.type = U8 -> [e EXCEPT !.voltage = v.value]
      [] v.id = BatteryPercentage /\ v.type = U8 ->
            [e EXCEPT !.percentage = IF v.value > 100 THEN v.value - 100 ELSE v.value]
      [] OTHER -> e

Named(e) == e.manufacturer # 0 /\ e.model # 0

(* send_msg_to_micropython_queue.                                           *)
Send(q, m) == Append(IF Len(q) < QueueSize THEN q ELSE Tail(q), m)

SendAnswer(q, v) == Send(q, Message("answer", 3, v.size, v.type, <<>>))

(* The two loops over the attributes of an answer: what becomes of the entry,   *)
(* and what goes into the queue.                                             *)
TakenOver(e, vs) ==
    LET over[n \in 0..Len(vs)] == IF n = 0 THEN e ELSE Updated(over[n - 1], vs[n])
    IN  over[Len(vs)]

SentOn(q, vs) ==
    LET sent[n \in 0..Len(vs)] == IF n = 0 THEN q ELSE SendAnswer(sent[n - 1], vs[n])
    IN  sent[Len(vs)]

Remembered(old, cluster, vs) ==
    FoldLeft(LAMBDA r, v :
        CASE cluster = "basic" /\ v.id = AppVersion -> [r EXCEPT !.version = v.value]
          [] cluster = "power" /\ v.id = BatteryPercentage -> [r EXCEPT !.percentage = v.value]
          [] OTHER -> r, old, vs)

(* Mutant: the save is asked for before the attributes are taken over.         *)
ReadResponseSavedFirst(cluster, vs) ==
    LET taken == entry.known /\ cluster \in {"basic", "power"}
        e == IF taken THEN TakenOver(entry, vs) ELSE entry
    IN  /\ entry' = e
        /\ asked' = IF taken /\ Named(e) THEN entry ELSE asked
        /\ answered' = Remembered(answered, cluster, vs)
        /\ queue' = SentOn(queue, vs)
        /\ UNCHANGED heard

(* A successful answer to read_attr: the attributes of the Basic and the Power  *)
(* Configuration cluster go into the entry, which is saved once it is named.     *)
ReadResponse(cluster, vs) ==
    LET taken == entry.known /\ cluster \in {"basic", "power"}
        e == IF taken THEN TakenOver(entry, vs) ELSE entry
    IN  /\ entry' = e
        /\ asked' = IF taken /\ Named(e) THEN e ELSE asked
        /\ answered' = Remembered(answered, cluster, vs)
        /\ queue' = SentOn(queue, vs)
        /\ UNCHANGED heard

(* A join, and a removal.                                                    *)
Announce ==
    /\ entry' = IF entry.known THEN entry ELSE NewEntry
    /\ asked' = entry'
    /\ answered' = IF entry.known THEN answered ELSE [version |-> 0, percentage |-> 0]
    /\ UNCHANGED <<queue, heard>>

RemoveDevice ==
    /\ entry.known
    /\ entry' = Gone
    /\ UNCHANGED <<asked, answered, queue, heard>>

--------------------------------------------------------------------------------
(* What else the handlers pass on; none of it touches the table.              *)

Passed(m) ==
    /\ queue' = Send(queue, m)
    /\ UNCHANGED <<entry, asked, answered, heard>>

(* Bytes of a ZCL type, for the type's number (the ZCL specification), of the    *)
(* types convert_zcl_data has a number for; it shows no others.               *)
Width(t) ==
    CASE t \in 8..15 -> t - 7
      [] t \in 24..31 -> t - 23
      [] t \in 32..39 -> t - 31
      [] t \in 40..47 -> t - 39
      [] t \in 48..49 -> t - 47
      [] t \in {224, 225, 226, 234} -> 4
      [] t \in {232, 233} -> 2
      [] t = 240 -> 8
      [] OTHER -> 1

Report(t, n) == Passed(Message("report", 3, n, t, <<>>))

(* Of the three bytes of a default response only two are set.                  *)
DefaultResponse(status, command, third) ==
    Passed(Message("default", 0, 3, 0, <<status, command, third>>))

(* Successful report configurations and the custom cluster's commands and       *)
(* responses are passed on as application signals, and so is the status of     *)
(* every action that has no case.                                            *)
ConfigResponse == Passed(Message("config", 0, 2, 0, <<>>))
CustomCommand(n) == Passed(Message("custom", 0, n, 0, <<>>))
OtherAction == Passed(Message("other", 0, 4, 0, <<>>))

RawCommand(n) == Passed(Message("raw", 12, n, 0, <<>>))

--------------------------------------------------------------------------------
(* The Python side.                                                         *)

(* The types ZCL_ATTR_TYPE.size puts into one case, and what it returns.       *)
SizedByNibble == 8..28 \cup 32..49 \cup 56..58

(* A type without a case raises, and parse_attribute goes on with 1.           *)
SizeOf(t) ==
    CASE t \in SizedByNibble -> IF t % 16 >= 8 THEN (t % 16) - 7 ELSE 1
      [] t \in 65..68 -> -1
      [] t \in {224, 225, 226} -> 4
      [] t \in {232, 233, 234} -> 2
      [] t = 240 -> 8
      [] t = 241 -> 16
      [] t = 255 -> 0
      [] OTHER -> 1

(* The types convert_zcl_data has a number for, and the bytes it asks for: 0     *)
(* where it takes the first byte of what there is.                            *)
Unpacked == [t \in {8, 16, 24, 25, 27, 32, 33, 35, 41, 43} |->
                CASE t \in {16, 24} -> 0
                  [] t \in {8, 32} -> 1
                  [] t \in {25, 33, 41} -> 2
                  [] t \in {27, 35, 43} -> 4]

(* Mutant: the first byte for every type.                                    *)
ConvertedFromFirst(t, n) ==
    IF n > 0 /\ t \in DOMAIN Unpacked THEN "number" ELSE "none"

(* Too few bytes make unpack raise, and MicroPython's struct has no error to     *)
(* catch: parse_attribute shows the bytes instead.                            *)
Converted(t, n) ==
    CASE n <= 0 \/ t \notin DOMAIN Unpacked -> "none"
      [] n > 0 /\ t \in DOMAIN Unpacked ->
            IF Unpacked[t] \in {0, n} THEN "number" ELSE "bytes"

Shown(m, as, taken, value) == [of |-> m, as |-> as, taken |-> taken, value |-> value]

(* Mutant: a message that ends with the value counts as incomplete.            *)
ParseAttributeInside(m) ==
    LET n == SizeOf(m.type)
    IN  IF m.len < 3 \/ m.len <= 3 + n THEN Shown(m, "error", 0, <<>>)
        ELSE Shown(m, Converted(m.type, n), n, <<>>)

ParseAttribute(m) ==
    LET n == SizeOf(m.type)
    IN  IF m.len < 3 \/ m.len < 3 + n THEN Shown(m, "error", 0, <<>>)
        ELSE Shown(m, Converted(m.type, n), n, <<>>)

ParseCommandResponse(m) ==
    IF m.len < 2 THEN Shown(m, "error", 0, <<>>)
    ELSE Shown(m, "status", 2, <<m.value[1], m.value[2]>>)

(* Mutant: the payload from the eleventh byte on.                             *)
HandleRawCommandEarly(m) ==
    IF m.len < 11 THEN Shown(m, "raised", 0, <<>>) ELSE Shown(m, "payload", m.len - 11, <<>>)

(* A message too short for the header makes an index fail: on_msg ends.         *)
HandleRawCommand(m) ==
    IF m.len < 12 THEN Shown(m, "raised", 0, <<>>) ELSE Shown(m, "payload", m.len - 12, <<>>)

(* One round of on_msg.  Of application signals only the name is printed.        *)
Hear ==
    /\ queue # <<>>
    /\ queue' = Tail(queue)
    /\ LET m == Head(queue)
       IN  heard' = CASE m.kind = "report" -> ParseAttribute(m)
                      [] m.kind = "default" -> ParseCommandResponse(m)
                      [] m.kind = "raw" -> HandleRawCommand(m)
                      [] OTHER -> Shown(m, "printed", 0, <<>>)
    /\ UNCHANGED <<entry, asked, answered, events>>

--------------------------------------------------------------------------------
Init ==
    /\ entry = Gone /\ asked = Gone /\ answered = [version |-> 0, percentage |-> 0]
    /\ queue = <<>> /\ heard = Shown(Nothing, "none", 0, <<>>) /\ events = 0

Sizes(t) == IF t = CharString THEN LongSizes ELSE {Width(t)}

Event ==
    \/ Announce
    \/ RemoveDevice
    \/ \E c \in {"basic", "power", "other"} : \E v \in Answers(c) :
           \/ ReadResponse(c, <<v>>)
           \/ \E w \in Answers(c) : ReadResponse(c, <<v, w>>)
    \/ \E t \in Types, n \in LongSizes \cup 1..8 : n \in Sizes(t) /\ Report(t, n)
    \/ \E s, c, third \in 0..1 : DefaultResponse(s, c, third)
    \/ ConfigResponse
    \/ \E n \in LongSizes : CustomCommand(n)
    \/ OtherAction
    \/ \E n \in LongSizes : RawCommand(n)

Next == (events < MaxEvents /\ events' = events + 1 /\ Event) \/ Hear

Spec == Init /\ [][Next]_vars

--------------------------------------------------------------------------------
Names == 0..31

Entries == [known : BOOLEAN, manufacturer : Names, model : Names,
            power : 0..255, version : 0..255, voltage : 0..255, percentage : 0..155]

TypeOK ==
    /\ {entry, asked} \subseteq Entries
    /\ Len(queue) <= QueueSize
    /\ \A i \in DOMAIN queue : queue[i].len \in 0..255
    /\ events \in 0..MaxEvents

(* Once a device is named its entry is never newer than the last save asked    *)
(* for, whatever order its attributes come in and however often it leaves.      *)
NamedDeviceIsSaved == entry.known /\ Named(entry) => asked = entry

(* What on_msg shows as a number is the whole value of the report, and the     *)
(* status and command it shows are those of the response.                     *)
NumbersAreTrue ==
    /\ heard.as = "number" => heard.taken = Width(heard.of.type)
    /\ heard.as = "status" => heard.value = SubSeq(heard.of.value, 1, 2)

(* A report on_msg hears of is shown as a number if convert_zcl_data has one for *)
(* its type and ZCL_ATTR_TYPE.size is right about it.  (The queue may have      *)
(* dropped others.)                                                         *)
SizedReportsAreShown ==
    heard.of.kind = "report" /\ heard.of.type \in DOMAIN Unpacked
        /\ SizeOf(heard.of.type) = Width(heard.of.type)
    => heard.as = "number"

(* A raw command on_msg hears of is heard whole, and does not raise, if header   *)
(* and payload together fit the 8 bits of a message's length.                 *)
ShortCommandsAreWhole ==
    heard.of.kind = "raw" /\ heard.of.header + heard.of.size < 256
    => heard.as = "payload" /\ heard.taken = heard.of.size

--------------------------------------------------------------------------------
(* Statements of the repository the runs refute.                           *)

(* "Convert ZCL data bytes to appropriate Python value based on data type"     *)
(* (zig_run.py:36): every type the function has a number for is shown as one.    *)
NumbersAreShown ==
    heard.of.kind = "report" /\ heard.of.type \in DOMAIN Unpacked => heard.as = "number"

(* "Send full attribute data: ID (2 bytes), type (1 byte), payload"            *)
(* (mod_zig_handlers.c:801).                                                *)
FullAttributeData == heard.of.kind = "report" => heard.of.len = heard.of.header + heard.of.size

(* "Battery percentage" (mod_zig_types.h:121): the attribute counts half percents. *)
BatteryIsPercentage ==
    entry.known /\ entry.percentage # 0 => entry.percentage = answered.percentage \div 2

(* "Firmware version" (mod_zig_types.h:118).                                  *)
FirmwareIsVersion == entry.known /\ entry.version # 0 => entry.version = answered.version

(* "Forward all custom cluster responses to Python for processing"              *)
(* (mod_zig_handlers.c:1000).                                               *)
CustomIsProcessed == heard.of.kind = "custom" => heard.as # "printed"
================================================================================
