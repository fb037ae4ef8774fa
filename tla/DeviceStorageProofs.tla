--------------------------- MODULE DeviceStorageProofs --------------------------
(***************************************************************************)
(* Devices on their way to flash and back, for any sets of addresses, any   *)
(* capacities and any number of restarts, while devices join, move, are     *)
(* removed, described and loaded, and storage and memory fail.  First that   *)
(* no device is lost, which needs only the addresses of the table; then that *)
(* everything keeps its type; then that the loading goes past no file; last  *)
(* that the files tell what the table tells.                                *)
(***************************************************************************)
EXTENDS DeviceStorage, DeviceManagerProofs, FiniteSetTheorems

--------------------------------------------------------------------------------
(* The addresses of the table after each operation.                        *)

Table(t) == \E S : t \in Seq(S) /\ \A e \in S : "short" \in DOMAIN e

LEMMA KnownShorts ==
    ASSUME NEW t, Table(t), NEW a
    PROVE  /\ Known(t, a) <=> a \in Shorts(t)
           /\ Known(t, a) => IndexOfShort(t, a) \in 1..Len(t) /\ t[IndexOfShort(t, a)].short = a
<1>1. PICK S : t \in Seq(S)
    BY DEF Table
<1>2. DOMAIN t = 1..Len(t) /\ Len(t) \in Nat
    BY <1>1, LenProperties
<1>3. QED
    BY <1>1, <1>2, ShortLookup DEF Known, Shorts

(* A new entry at the end.                                                 *)
LEMMA CreateShorts ==
    ASSUME NEW t, Table(t), NEW a, NEW x
    PROVE  Table(Create(t, a, x)) /\ Shorts(Create(t, a, x)) \subseteq Shorts(t) \cup {a}
<1>1. CASE Len(t) >= MaxDevices
    BY <1>1 DEF Create
<1>2. CASE ~ (Len(t) >= MaxDevices)
    <2> DEFINE n == NewEntry(a, x)
    <2>1. Create(t, a, x) = Append(t, n)
        BY <1>2 DEF Create
    <2>2. n.short = a /\ "short" \in DOMAIN n
        BY DEF NewEntry
    <2>3. PICK S : t \in Seq(S) /\ \A e \in S : "short" \in DOMAIN e
        BY DEF Table
    <2> HIDE DEF n
    <2>4. t \in Seq(S \cup {n})
        BY <2>3, LenProperties, ElementOfSeq, SeqDef
    <2>5. /\ Append(t, n) \in Seq(S \cup {n}) /\ Len(t) \in Nat
          /\ DOMAIN t = 1..Len(t) /\ DOMAIN Append(t, n) = 1..(Len(t) + 1)
          /\ \A i \in 1..Len(t) : Append(t, n)[i] = t[i]
          /\ Append(t, n)[Len(t) + 1] = n
        BY <2>4, AppendProperties, LenProperties
    <2>6. Table(Append(t, n))
        <3>1. \A e \in S \cup {n} : "short" \in DOMAIN e
            BY <2>2, <2>3
        <3>2. QED
            BY <2>5, <3>1 DEF Table
    <2>7. ASSUME NEW i \in 1..(Len(t) + 1) PROVE Append(t, n)[i].short \in Shorts(t) \cup {a}
        <3>1. CASE i \in 1..Len(t)
            BY <2>5, <3>1 DEF Shorts
        <3>2. CASE i = Len(t) + 1
            BY <2>2, <2>5, <3>2
        <3>3. QED
            BY <2>5, <3>1, <3>2
    <2>8. QED
        BY <2>1, <2>5, <2>6, <2>7 DEF Shorts
<1>3. QED
    BY <1>1, <1>2

(* An entry written in place.                                              *)
LEMMA WriteShorts ==
    ASSUME NEW t, Table(t), NEW i \in 1..Len(t), NEW n, "short" \in DOMAIN n
    PROVE  /\ Table([t EXCEPT ![i] = n])
           /\ Shorts([t EXCEPT ![i] = n]) \subseteq Shorts(t) \cup {n.short}
<1>1. PICK S : t \in Seq(S) /\ \A e \in S : "short" \in DOMAIN e
    BY DEF Table
<1>2. t \in Seq(S \cup {n})
    BY <1>1, LenProperties, ElementOfSeq, SeqDef
<1>3. /\ [t EXCEPT ![i] = n] \in Seq(S \cup {n})
      /\ Len([t EXCEPT ![i] = n]) = Len(t)
      /\ \A j \in 1..Len(t) : [t EXCEPT ![i] = n][j] = IF j = i THEN n ELSE t[j]
    BY <1>2, ExceptSeq
<1>4. DOMAIN t = 1..Len(t) /\ DOMAIN [t EXCEPT ![i] = n] = 1..Len(t)
    BY <1>2, <1>3, LenProperties
<1>5. Table([t EXCEPT ![i] = n])
    <2>1. \A e \in S \cup {n} : "short" \in DOMAIN e
        BY <1>1
    <2>2. QED
        BY <1>3, <2>1 DEF Table
<1>6. ASSUME NEW j \in 1..Len(t) PROVE [t EXCEPT ![i] = n][j].short \in Shorts(t) \cup {n.short}
    BY <1>3, <1>4 DEF Shorts
<1>7. QED
    BY <1>4, <1>5, <1>6 DEF Shorts

LEMMA DeleteShorts ==
    ASSUME NEW t, Table(t), NEW a
    PROVE  Table(Delete(t, a)) /\ Shorts(Delete(t, a)) \subseteq Shorts(t)
<1>1. PICK S : t \in Seq(S) /\ \A e \in S : "short" \in DOMAIN e
    BY DEF Table
<1> DEFINE c == IndexOfShort(t, a)
           u == Delete(t, a)
<1>2. /\ u \in Seq(S)
      /\ c = 0 => u = t
      /\ c # 0 => /\ Len(u) = Len(t) - 1
                  /\ \A j \in 1..(Len(t) - 1) : u[j] = IF j < c THEN t[j] ELSE t[j + 1]
    BY <1>1, DeleteShifts
<1>3. /\ Len(t) \in Nat /\ DOMAIN t = 1..Len(t) /\ DOMAIN u = 1..Len(u)
    BY <1>1, <1>2, LenProperties
<1>4. Table(u)
    BY <1>1, <1>2 DEF Table
<1> HIDE DEF c, u
<1>5. CASE c = 0
    BY <1>2, <1>4, <1>5 DEF u
<1>6. CASE c # 0
    <2>1. ASSUME NEW j \in 1..(Len(t) - 1) PROVE u[j].short \in Shorts(t)
        <3>1. j \in 1..Len(t) /\ j + 1 \in 1..Len(t)
            BY <1>3
        <3>2. u[j] = t[j] \/ u[j] = t[j + 1]
            BY <1>2, <1>6
        <3>3. QED
            BY <1>3, <3>1, <3>2 DEF Shorts
    <2>2. Shorts(u) \subseteq Shorts(t)
        BY <1>2, <1>3, <1>6, <2>1 DEF Shorts
    <2>3. QED
        BY <1>4, <2>2 DEF u
<1>7. QED
    BY <1>5, <1>6

LEMMA RejoinShorts ==
    ASSUME NEW t, Table(t), NEW a, NEW i \in 1..Len(t)
    PROVE  Table(Rejoin(t, a, i)) /\ Shorts(Rejoin(t, a, i)) \subseteq Shorts(t) \cup {a}
<1> DEFINE u == IF t[i].short = a THEN t ELSE Delete(t, a)
           n == [u[i] EXCEPT !.short = a, !.active = TRUE]
<1>1. Table(u) /\ Shorts(u) \subseteq Shorts(t)
    BY DeleteShorts
<1>2. Rejoin(t, a, i) = IF i > Len(u) THEN u ELSE [u EXCEPT ![i] = n]
    BY DEF Rejoin
<1> HIDE DEF u
<1>3. CASE i > Len(u)
    BY <1>1, <1>2, <1>3
<1>4. CASE ~ (i > Len(u))
    <2>1. PICK S : u \in Seq(S) /\ \A e \in S : "short" \in DOMAIN e
        BY <1>1 DEF Table
    <2>2. PICK T : t \in Seq(T)
        BY DEF Table
    <2>3. i \in 1..Len(u)
        BY <1>4, <2>1, <2>2, LenProperties
    <2>4. "short" \in DOMAIN u[i]
        BY <2>1, <2>3, ElementOfSeq
    <2>5. "short" \in DOMAIN n /\ n.short = a
        BY <2>4
    <2> HIDE DEF n
    <2>6. /\ Table([u EXCEPT ![i] = n])
          /\ Shorts([u EXCEPT ![i] = n]) \subseteq Shorts(u) \cup {a}
        BY <1>1, <2>3, <2>5, WriteShorts, Zenon
    <2>7. Rejoin(t, a, i) = [u EXCEPT ![i] = n]
        BY <1>2, <1>4
    <2>8. QED
        BY <1>1, <2>6, <2>7, Zenon
<1>5. QED
    BY <1>3, <1>4

LEMMA AddShorts ==
    ASSUME NEW t, Table(t), NEW a, NEW x
    PROVE  Table(Add(t, a, x)) /\ Shorts(Add(t, a, x)) \subseteq Shorts(t) \cup {a}
<1> DEFINE i == IndexOfIeee(t, x)
<1>1. CASE i = 0
    BY <1>1, CreateShorts DEF Add
<1>2. CASE i # 0
    <2>1. PICK S : t \in Seq(S)
        BY DEF Table
    <2>2. i \in 1..Len(t)
        BY <1>2, <2>1, IeeeLookup, LenProperties
    <2>3. QED
        BY <1>2, <2>2, RejoinShorts DEF Add
<1>3. QED
    BY <1>1, <1>2

(* An entry that keeps its address.                                        *)
LEMMA KeepShorts ==
    ASSUME NEW t, Table(t), NEW i \in 1..Len(t), NEW n,
           "short" \in DOMAIN n, n.short = t[i].short
    PROVE  /\ Table([t EXCEPT ![i] = n])
           /\ Shorts([t EXCEPT ![i] = n]) \subseteq Shorts(t)
<1>1. PICK S : t \in Seq(S)
    BY DEF Table
<1>2. n.short \in Shorts(t)
    BY <1>1, LenProperties DEF Shorts
<1>3. QED
    BY <1>2, WriteShorts

LEMMA HasShort ==
    ASSUME NEW t, Table(t), NEW i \in 1..Len(t)
    PROVE  "short" \in DOMAIN t[i]
<1>1. PICK S : t \in Seq(S) /\ \A e \in S : "short" \in DOMAIN e
    BY DEF Table
<1>2. QED
    BY <1>1, ElementOfSeq

LEMMA TouchShorts ==
    ASSUME NEW t, Table(t), NEW a
    PROVE  Table(Touch(t, a)) /\ Shorts(Touch(t, a)) \subseteq Shorts(t)
<1> DEFINE i == IndexOfShort(t, a)
           n == [t[i] EXCEPT !.active = TRUE]
<1>1. CASE ~ Known(t, a)
    BY <1>1 DEF Touch
<1>2. CASE Known(t, a)
    <2>1. i \in 1..Len(t) /\ "short" \in DOMAIN t[i]
        BY <1>2, KnownShorts, HasShort
    <2>2. "short" \in DOMAIN n /\ n.short = t[i].short
        BY <2>1
    <2>3. Touch(t, a) = [t EXCEPT ![i] = n]
        BY <1>2 DEF Touch
    <2> HIDE DEF i, n
    <2>4. /\ Table([t EXCEPT ![i] = n])
          /\ Shorts([t EXCEPT ![i] = n]) \subseteq Shorts(t)
        BY <2>1, <2>2, KeepShorts, Zenon
    <2>5. QED
        BY <2>3, <2>4, Zenon
<1>3. QED
    BY <1>1, <1>2

LEMMA UpdateShorts ==
    ASSUME NEW t, Table(t), NEW u
    PROVE  Table(Update(t, u)) /\ Shorts(Update(t, u)) \subseteq Shorts(t)
<1> DEFINE i == IndexOfShort(t, u.short)
           n == [t[i] EXCEPT !.ieee = u.ieee, !.active = u.active,
                             !.eps = MergeEndpoints(@, u.eps)]
<1>1. CASE i = 0
    BY <1>1 DEF Update
<1>2. CASE i # 0
    <2>1. i \in 1..Len(t) /\ "short" \in DOMAIN t[i]
        BY <1>2, KnownShorts, HasShort DEF Known
    <2>2. "short" \in DOMAIN n /\ n.short = t[i].short
        BY <2>1
    <2>3. Update(t, u) = [t EXCEPT ![i] = n]
        BY <1>2 DEF Update
    <2> HIDE DEF i, n
    <2>4. /\ Table([t EXCEPT ![i] = n])
          /\ Shorts([t EXCEPT ![i] = n]) \subseteq Shorts(t)
        BY <2>1, <2>2, KeepShorts, Zenon
    <2>5. QED
        BY <2>3, <2>4, Zenon
<1>3. QED
    BY <1>1, <1>2

--------------------------------------------------------------------------------
(* The invariant.  If the table keeps still between the look-up and the copy   *)
(* of a save, what is written under a name is the device of that name; so      *)
(* every file names its device, and what a loading merges has its file.        *)

Jobs == ({"save", "remove"} \X Short) \cup {<<"load">>}

InHand ==
    /\ py.do = "save" =>
          /\ py.name \in Short /\ py.slot \in 1..Len(devices)
          /\ devices[py.slot].short = py.name
    /\ py.do = "write" =>
          py.name \in Short /\ IsDevice(py.content) /\ py.content.short = py.name
    /\ py.do \in {"load", "load_all"} /\ IsDevice(py.got) =>
          /\ py.got.short \in Short
          /\ IsDevice(files[py.got.short]) /\ files[py.got.short].short = py.got.short
    /\ py.do = "load_all" => load.todo # <<>>

Shapes ==
    /\ Table(devices) /\ Shorts(devices) \subseteq Short
    /\ sched \in Seq(Jobs)
    /\ DOMAIN files = Short
    /\ {"fresh", "todo", "phase", "retry", "skipped"} \subseteq DOMAIN load /\ load.todo \in Seq(Short)

(* What the constants have to be: the table keeps still during a look-up, and  *)
(* a device is told from a missing and from a damaged file.                   *)
KeepsStill ==
    /\ LookupRaces = FALSE /\ IsFiniteSet(Short)
    /\ \A s, x, e : [short |-> s, ieee |-> x, eps |-> e] \notin {NoFile, Corrupt}

Inv == Shapes /\ InHand /\ FilesNameTheirDevice /\ NoSilentLoss

(* A record for a device on its way to flash.                              *)
Recorded(a) ==
    \/ IsDevice(files[a]) /\ files[a].short = a
    \/ a \in asks
    \/ <<"save", a>> \in ToSet(sched)
    \/ py.do \in {"save", "write"} /\ py.name = a
    \/ a \in unsaved

LEMMA LossView == NoSilentLoss <=> \A a \in Shorts(devices) : Recorded(a)
BY DEF NoSilentLoss, Recorded

LEMMA InvInit == KeepsStill /\ Init => Inv
<1> SUFFICES ASSUME KeepsStill, Init PROVE Inv
    OBVIOUS
<1>1. /\ devices = <<>> /\ py = Idle /\ sched = << <<"load">> >> /\ load = FreshLoad
      /\ files = [a \in Short |-> NoFile]
    BY DEF Init, TableInit
<1>2. Table(devices) /\ Shorts(devices) = {}
    <2>1. devices \in Seq({}) /\ DOMAIN devices = {}
        BY <1>1, EmptySeq
    <2>2. QED
        BY <2>1 DEF Table, Shorts
<1>3. sched \in Seq(Jobs)
    BY <1>1 DEF Jobs
<1>4. load.todo \in Seq(Short) /\ {"fresh", "todo", "phase", "retry", "skipped"} \subseteq DOMAIN load
    <2>1. <<>> \in Seq(Short)
        BY EmptySeq
    <2>2. QED
        BY <1>1, <2>1 DEF FreshLoad, NoLoad
<1>5. InHand
    BY <1>1 DEF InHand, Idle
<1>6. FilesNameTheirDevice
    BY <1>1 DEF FilesNameTheirDevice, IsDevice
<1>7. NoSilentLoss
    BY <1>2 DEF NoSilentLoss
<1>8. QED
    BY <1>1, <1>2, <1>3, <1>4, <1>5, <1>6, <1>7 DEF Inv, Shapes

--------------------------------------------------------------------------------
(* Everybody who adds an entry asks for a save.                             *)

LEMMA SaveRequested ==
    ASSUME sched \in Seq(Jobs), NEW a \in Short, RequestSave(a)
    PROVE  /\ sched' \in Seq(Jobs) /\ ToSet(sched) \subseteq ToSet(sched')
           /\ unsaved \subseteq unsaved'
           /\ Known(devices, a) => <<"save", a>> \in ToSet(sched') \/ a \in unsaved'
<1> DEFINE job == <<"save", a>>
<1>1. /\ Append(sched, job) \in Seq(Jobs)
      /\ ToSet(Append(sched, job)) = ToSet(sched) \cup {job}
    <2>1. job \in Jobs
        BY DEF Jobs
    <2>2. QED
        BY <2>1, AppendMembers
<1> HIDE DEF job
<1>2. CASE ~ Known(devices, a)
    BY <1>2 DEF RequestSave, requestVars
<1>3. CASE Known(devices, a) /\ unsaved' = unsaved /\ sched' = Append(sched, job)
    BY <1>1, <1>3 DEF job
<1>4. CASE Known(devices, a) /\ unsaved' = unsaved \cup {a} /\ sched' = sched
    BY <1>4
<1>5. QED
    BY <1>2, <1>3, <1>4 DEF RequestSave, job

LEMMA InvTable ==
    ASSUME Inv, Table(devices'), Shorts(devices') \subseteq Short,
           UNCHANGED <<files, py, load>>,
           py.do = "save" => devices' = devices,
           sched' \in Seq(Jobs), ToSet(sched) \subseteq ToSet(sched'), unsaved \subseteq unsaved',
           \A a \in Shorts(devices') : a \in Shorts(devices) \ asks \/ Recorded(a)'
    PROVE  Inv'
<1>1. Shapes'
    BY DEF Inv, Shapes
<1>2. InHand'
    BY DEF Inv, InHand, IsDevice
<1>3. FilesNameTheirDevice'
    BY DEF Inv, FilesNameTheirDevice, IsDevice
<1>4. ASSUME NEW a, Recorded(a), a \notin asks PROVE Recorded(a)'
    BY <1>4 DEF Recorded, IsDevice
<1>5. NoSilentLoss'
    <2>1. \A a \in Shorts(devices) : Recorded(a)
        BY LossView DEF Inv
    <2>2. \A a \in Shorts(devices') : Recorded(a)'
        BY <1>4, <2>1
    <2>3. QED
        BY <2>2 DEF NoSilentLoss, Recorded
<1>6. QED
    BY <1>1, <1>2, <1>3, <1>5 DEF Inv

(* A change of the Zigbee task's leaves at most one more address known, and    *)
(* that one it is about to ask a save for.                                  *)
LEMMA InvChange ==
    ASSUME KeepsStill, Inv, MayChange, Table(devices'),
           Shorts(devices') \subseteq Short, UNCHANGED <<files, py, load>>,
           \A a \in Shorts(devices') : a \in Shorts(devices) \/ a \in asks',
           sched' \in Seq(Jobs), ToSet(sched) \subseteq ToSet(sched'), unsaved \subseteq unsaved'
    PROVE  Inv'
<1>1. asks = {} /\ py.do # "save"
    BY DEF MayChange, KeepsStill
<1>2. \A a \in Shorts(devices') : a \in Shorts(devices) \ asks \/ Recorded(a)'
    BY <1>1 DEF Recorded
<1>3. QED
    BY <1>1, <1>2, InvTable

LEMMA InvJoin == ASSUME KeepsStill, Inv, NEW a \in Short, NEW x \in Ieee, Join(a, x) PROVE Inv'
<1>1. /\ MayChange /\ devices' = Add(devices, a, x) /\ UNCHANGED <<files, py, load, unsaved>>
      /\ asks' = IF AddFails(devices, x) THEN {} ELSE {a}
      /\ sched' = sched \/ sched' = Append(sched, <<"remove", a>>)
    BY DEF Join, AddDevice
<1>2. sched' \in Seq(Jobs) /\ ToSet(sched) \subseteq ToSet(sched')
    <2>1. <<"remove", a>> \in Jobs /\ sched \in Seq(Jobs)
        BY DEF Jobs, Inv, Shapes
    <2>2. /\ Append(sched, <<"remove", a>>) \in Seq(Jobs)
          /\ ToSet(Append(sched, <<"remove", a>>)) = ToSet(sched) \cup {<<"remove", a>>}
        BY <2>1, AppendMembers, Zenon
    <2>3. QED
        BY <1>1, <2>1, <2>2
<1>3. Table(devices') /\ Shorts(devices') \subseteq Shorts(devices) \cup {a}
    BY <1>1, AddShorts DEF Inv, Shapes
<1>4. \A b \in Shorts(devices') : b \in Shorts(devices) \/ b \in asks'
    <2>1. CASE AddFails(devices, x)
        BY <1>1, <2>1 DEF AddFails, Add, Create
    <2>2. CASE ~ AddFails(devices, x)
        BY <1>1, <1>3, <2>2
    <2>3. QED
        BY <2>1, <2>2
<1>5. Shorts(devices') \subseteq Short
    BY <1>3 DEF Inv, Shapes
<1>6. QED
    BY <1>1, <1>2, <1>3, <1>4, <1>5, InvChange

(* An entry whose endpoint list changes.                                    *)
LEMMA EpsShorts ==
    ASSUME NEW t, Table(t), NEW i \in 1..Len(t), NEW eps
    PROVE  Table([t EXCEPT ![i].eps = eps]) /\ Shorts([t EXCEPT ![i].eps = eps]) \subseteq Shorts(t)
<1> DEFINE n == [t[i] EXCEPT !.eps = eps]
<1>1. "short" \in DOMAIN t[i]
    BY HasShort
<1>2. "short" \in DOMAIN n /\ n.short = t[i].short
    BY <1>1
<1>3. [t EXCEPT ![i].eps = eps] = [t EXCEPT ![i] = n]
    OBVIOUS
<1> HIDE DEF n
<1>4. /\ Table([t EXCEPT ![i] = n])
      /\ Shorts([t EXCEPT ![i] = n]) \subseteq Shorts(t)
    BY <1>2, KeepShorts, Zenon
<1>5. QED
    BY <1>3, <1>4, Zenon

LEMMA InvEntryChange ==
    ASSUME KeepsStill, Inv, NEW a \in Short,
           Seen(a) \/ (\E n : Listed(a, n)) \/ (\E k, cs : Described(a, k, cs))
    PROVE  Inv'
<1> DEFINE i == IndexOfShort(devices, a)
<1>1. Table(devices) /\ sched \in Seq(Jobs) /\ Shorts(devices) \subseteq Short
    BY DEF Inv, Shapes
<1>2. i # 0 => i \in 1..Len(devices)
    BY <1>1, KnownShorts DEF Known
<1>3. Table(devices') /\ Shorts(devices') \subseteq Shorts(devices)
    <2>1. CASE Seen(a)
        BY <1>1, <2>1, TouchShorts DEF Seen, TouchDevice
    <2>2. ASSUME NEW n, Listed(a, n) PROVE Table(devices') /\ Shorts(devices') \subseteq Shorts(devices)
        <3> DEFINE eps == Append(devices[i].eps, [id |-> n, clusters |-> {}])
        <3>1. i # 0 /\ devices' = [devices EXCEPT ![i].eps = eps]
            BY <2>2 DEF Listed
        <3> HIDE DEF i, eps
        <3>2. QED
            BY <1>1, <1>2, <3>1, EpsShorts, Zenon
    <2>3. ASSUME NEW k, NEW cs, Described(a, k, cs)
          PROVE Table(devices') /\ Shorts(devices') \subseteq Shorts(devices)
        <3> DEFINE eps == [devices[i].eps EXCEPT ![k].clusters = cs]
        <3>1. i # 0 /\ devices' = [devices EXCEPT ![i].eps = eps]
            BY <2>3 DEF Described
        <3> HIDE DEF i, eps
        <3>2. QED
            BY <1>1, <1>2, <3>1, EpsShorts, Zenon
    <2>4. QED
        BY <2>1, <2>2, <2>3
<1>4. MayChange /\ UNCHANGED <<files, py, load, sched>> /\ unsaved \subseteq unsaved'
    BY DEF Seen, Listed, Described, requestVars
<1>5. QED
    BY <1>1, <1>3, <1>4, InvChange

(* A request for a save, by the Zigbee task or by the program.                *)
LEMMA InvRequest ==
    ASSUME Inv, NEW a \in Short, AskSave(a) \/ SaveDevice(a) PROVE Inv'
<1>1. RequestSave(a) /\ UNCHANGED <<devices, files, py, load>> /\ asks \ {a} \subseteq asks'
    BY DEF AskSave, SaveDevice, tableVars
<1>2. /\ sched' \in Seq(Jobs) /\ ToSet(sched) \subseteq ToSet(sched')
      /\ unsaved \subseteq unsaved'
      /\ Known(devices, a) => <<"save", a>> \in ToSet(sched') \/ a \in unsaved'
    BY <1>1, SaveRequested DEF Inv, Shapes
<1>3. Known(devices, a) <=> a \in Shorts(devices)
    BY KnownShorts DEF Inv, Shapes
<1>4. \A b \in Shorts(devices') : b \in Shorts(devices) \ asks \/ Recorded(b)'
    BY <1>1, <1>2, <1>3 DEF Recorded
<1>5. Table(devices') /\ Shorts(devices') \subseteq Short
    BY <1>1 DEF Inv, Shapes
<1>6. QED
    BY <1>1, <1>2, <1>4, <1>5, InvTable

LEMMA InvProgram ==
    ASSUME Inv, NEW a \in Short, ProgramRemoves(a) \/ LoadDevice(a)
    PROVE  Inv'
<1>1. Table(devices) /\ sched \in Seq(Jobs) /\ py.do = "main"
    BY DEF Inv, Shapes, ProgramRemoves, LoadDevice, Idle
<1>2. CASE ProgramRemoves(a)
    <2>1. devices' = Delete(devices, a) /\ UNCHANGED <<asks, sched, files, py, load, unsaved>>
        BY <1>2 DEF ProgramRemoves, RemoveDevice, requestVars
    <2>2. Table(devices') /\ Shorts(devices') \subseteq Shorts(devices)
        BY <1>1, <2>1, DeleteShorts
    <2>3. Shorts(devices') \subseteq Short
        BY <2>2 DEF Inv, Shapes
    <2>4. \A b \in Shorts(devices') : b \in Shorts(devices) \ asks \/ Recorded(b)'
        BY <2>1, <2>2 DEF Recorded
    <2>5. QED
        BY <1>1, <2>1, <2>2, <2>3, <2>4, InvTable
<1>3. CASE LoadDevice(a)
    <2>1. UNCHANGED <<devices, asks, sched, files, load, unsaved>>
        BY <1>3 DEF LoadDevice, tableVars, requestVars
    <2>2. PICK c \in Readable(a) : py' = [do |-> "load", got |-> c]
        BY <1>3 DEF LoadDevice
    <2>3. IsDevice(c) => c.short = a /\ IsDevice(files[a]) /\ files[a].short = a
        BY <2>2 DEF Readable, IsDevice, Inv, FilesNameTheirDevice
    <2>4. InHand'
        BY <2>1, <2>2, <2>3 DEF InHand, IsDevice
    <2>5. Shapes' /\ FilesNameTheirDevice'
        BY <2>1 DEF Inv, Shapes, FilesNameTheirDevice, IsDevice
    <2>6. NoSilentLoss'
        BY <1>1, <2>1 DEF Inv, NoSilentLoss, IsDevice
    <2>7. QED
        BY <2>4, <2>5, <2>6 DEF Inv
<1>4. QED
    BY <1>2, <1>3

--------------------------------------------------------------------------------
(* The jobs.                                                               *)

(* The job at the head is taken; the others stay.                          *)
LEMMA JobTaken ==
    ASSUME Inv, NEW job, Starts(job)
    PROVE  /\ sched' \in Seq(Jobs) /\ py.do = "main"
           /\ ToSet(sched) = {job} \cup ToSet(sched')
<1>1. sched \in Seq(Jobs) /\ sched # <<>> /\ Head(sched) = job /\ sched' = Tail(sched)
    BY DEF Inv, Shapes, Starts
<1>2. Tail(sched) \in Seq(Jobs) /\ ToSet(sched) = {job} \cup ToSet(Tail(sched))
    BY <1>1, TailMembers
<1>3. QED
    BY <1>1, <1>2 DEF Starts, Idle

(* What is recorded stays recorded when a job leaves that is no save.         *)
LEMMA OtherJobTaken ==
    ASSUME Inv, NEW job, Starts(job), \A a : job # <<"save", a>>,
           UNCHANGED <<devices, asks, files, unsaved>>
    PROVE  NoSilentLoss'
<1>1. py.do = "main" /\ ToSet(sched) = {job} \cup ToSet(sched')
    BY JobTaken
<1>2. \A a : <<"save", a>> \in ToSet(sched) => <<"save", a>> \in ToSet(sched')
    BY <1>1
<1>3. QED
    BY <1>1, <1>2 DEF Inv, NoSilentLoss, IsDevice

LEMMA InvRunSave == ASSUME Inv, NEW a \in Short, RunSave(a) PROVE Inv'
<1>1. /\ sched' \in Seq(Jobs) /\ py.do = "main"
      /\ ToSet(sched) = {<<"save", a>>} \cup ToSet(sched')
    BY JobTaken DEF RunSave
<1>2. UNCHANGED <<devices, asks, files, load, unsaved>>
    BY DEF RunSave, tableVars
<1>3. py' = IF Known(devices, a)
            THEN [do |-> "save", name |-> a, slot |-> IndexOfShort(devices, a)]
            ELSE Idle
    BY DEF RunSave
<1>4. /\ Known(devices, a) <=> a \in Shorts(devices)
      /\ Known(devices, a) => /\ IndexOfShort(devices, a) \in 1..Len(devices)
                              /\ devices[IndexOfShort(devices, a)].short = a
    BY KnownShorts DEF Inv, Shapes
<1>5. Shapes' /\ FilesNameTheirDevice'
    BY <1>1, <1>2 DEF Inv, Shapes, FilesNameTheirDevice, IsDevice
<1>6. InHand'
    BY <1>2, <1>3, <1>4 DEF InHand, Idle
<1>7. ASSUME NEW b \in Shorts(devices) PROVE Recorded(b)'
    <2>1. Recorded(b)
        BY LossView DEF Inv
    <2>2. CASE b = a
        BY <1>3, <1>4, <2>2 DEF Recorded
    <2>3. CASE b # a
        <3>1. <<"save", b>> \in ToSet(sched) => <<"save", b>> \in ToSet(sched')
            BY <1>1, <2>3
        <3>2. QED
            BY <1>1, <1>2, <2>1, <3>1 DEF Recorded, IsDevice
    <2>4. QED
        BY <2>2, <2>3
<1>8. NoSilentLoss'
    BY <1>2, <1>7 DEF NoSilentLoss, Recorded
<1>9. QED
    BY <1>5, <1>6, <1>8 DEF Inv

LEMMA InvRunRemove == ASSUME Inv, NEW a \in Short, RunRemove(a) PROVE Inv'
<1>1. /\ Starts(<<"remove", a>>) /\ UNCHANGED <<devices, asks, files, py, load, unsaved>>
      /\ \A b : <<"remove", a>> # <<"save", b>>
    BY DEF RunRemove, tableVars
<1>2. sched' \in Seq(Jobs)
    BY <1>1, JobTaken
<1>3. NoSilentLoss'
    BY <1>1, OtherJobTaken
<1>4. QED
    BY <1>1, <1>2, <1>3 DEF Inv, Shapes, InHand, FilesNameTheirDevice, IsDevice

LEMMA InvCopy == ASSUME KeepsStill, Inv, CopyToJson PROVE Inv'
<1> DEFINE e == devices[py.slot]
<1>1. /\ py.do = "save" /\ unsaved' = unsaved \ {py.name}
      /\ UNCHANGED <<devices, asks, sched, files, load>>
      /\ py' = [do |-> "write", name |-> py.name, content |-> ToJson(Slot(devices, py.slot))]
    BY DEF CopyToJson
<1>2. py.name \in Short /\ py.slot \in DOMAIN devices /\ e.short = py.name
    <2>1. PICK S : devices \in Seq(S)
        BY DEF Inv, Shapes, Table
    <2>2. QED
        BY <1>1, <2>1, LenProperties DEF Inv, InHand
<1>3. Slot(devices, py.slot) = e
    BY <1>2 DEF Slot
<1>4. IsDevice(ToJson(e)) /\ ToJson(e).short = py.name
    BY <1>2 DEF ToJson, IsDevice, KeepsStill
<1> HIDE DEF e
<1>5. InHand'
    BY <1>1, <1>2, <1>3, <1>4 DEF InHand, IsDevice
<1>6. Shapes' /\ FilesNameTheirDevice'
    BY <1>1 DEF Inv, Shapes, FilesNameTheirDevice, IsDevice
<1>7. NoSilentLoss'
    BY <1>1 DEF Inv, NoSilentLoss, IsDevice
<1>8. QED
    BY <1>5, <1>6, <1>7 DEF Inv

(* The file holds the device of its name, or the failure is on record.        *)
LEMMA InvWrite == ASSUME Inv, WriteFile PROVE Inv'
<1>1. /\ py.do = "write" /\ py' = Idle /\ UNCHANGED <<devices, asks, sched, load>>
      /\ py.name \in Short /\ DOMAIN files = Short
      /\ IsDevice(py.content) /\ py.content.short = py.name
    BY DEF WriteFile, tableVars, Inv, InHand, Shapes
<1>2. /\ DOMAIN files' = Short /\ \A b \in Short \ {py.name} : files'[b] = files[b]
      /\ files'[py.name] \in {py.content, files[py.name], Corrupt}
      /\ \/ files'[py.name] = py.content /\ unsaved' = unsaved
         \/ unsaved' = unsaved \cup {py.name}
    BY <1>1 DEF WriteFile
<1>3. FilesNameTheirDevice'
    BY <1>1, <1>2 DEF Inv, FilesNameTheirDevice, IsDevice
<1>4. InHand'
    BY <1>1 DEF InHand, Idle
<1>5. ASSUME NEW b \in Shorts(devices) PROVE Recorded(b)'
    <2>1. Recorded(b)
        BY LossView DEF Inv
    <2>2. CASE b = py.name
        BY <1>1, <1>2, <2>2 DEF Recorded, IsDevice
    <2>3. CASE b # py.name
        <3>1. b \in Short /\ files'[b] = files[b]
            BY <1>1, <1>2, <2>3 DEF Inv, Shapes
        <3>2. QED
            BY <1>1, <1>2, <2>1, <2>3, <3>1 DEF Recorded, IsDevice
    <2>4. QED
        BY <2>2, <2>3
<1>6. NoSilentLoss'
    BY <1>1, <1>5 DEF NoSilentLoss, Recorded
<1>7. Shapes'
    BY <1>1, <1>2 DEF Inv, Shapes
<1>8. QED
    BY <1>3, <1>4, <1>6, <1>7 DEF Inv

--------------------------------------------------------------------------------
(* Loading.                                                                *)

(* What a run of the loader starts from: a listing, or the names still to do.   *)
LEMMA NamesToLoad ==
    ASSUME IsFiniteSet(Short), load.todo \in Seq(Short), RunLoadAll
    PROVE  \E names \in Seq(Short) :
              /\ load.fresh \/ names = load.todo
              /\ IF names = <<>> THEN load' = [load EXCEPT !.phase = "dropped"] /\ UNCHANGED py
                 ELSE /\ load' = [load EXCEPT !.fresh = FALSE, !.todo = names,
                              !.skipped = IF load.fresh THEN Stored \ ToSet(names) ELSE @]
                      /\ \E c \in {files[Head(names)], NoFile, Corrupt} :
                            py' = [do |-> "load_all", got |-> c]
<1>1. PICK names \in (IF load.fresh THEN Listings ELSE {load.todo}) :
          IF names = <<>> THEN load' = [load EXCEPT !.phase = "dropped"] /\ UNCHANGED py
          ELSE /\ load' = [load EXCEPT !.fresh = FALSE, !.todo = names,
                              !.skipped = IF load.fresh THEN Stored \ ToSet(names) ELSE @]
               /\ \E c \in Readable(Head(names)) \cup
                            IF StorageFails /\ ~ load.fresh THEN {Corrupt} ELSE {} :
                     py' = [do |-> "load_all", got |-> c]
    BY DEF RunLoadAll
<1>2. names \in Seq(Short)
    <2>1. CASE load.fresh
        <3>1. PICK T : T \subseteq Stored /\ names \in SetToSeqs(T)
            BY <1>1, <2>1 DEF Listings
        <3>2. T \subseteq Short
            BY <3>1 DEF Stored
        <3>3. Cardinality(T) \in Nat
            BY <3>2, FS_Subset, FS_CardinalityType
        <3>4. names \in [1..Cardinality(T) -> T]
            BY <3>1 DEF SetToSeqs
        <3>5. names \in Seq(T)
            BY <3>3, <3>4, SeqDef
        <3>6. QED
            BY <3>2, <3>4, <3>5, SeqDef
    <2>2. CASE ~ load.fresh
        BY <1>1, <2>2
    <2>3. QED
        BY <2>1, <2>2
<1>3. QED
    BY <1>1, <1>2 DEF Readable

LEMMA InvRunLoadAll == ASSUME KeepsStill, Inv, RunLoadAll PROVE Inv'
<1>1. Starts(<<"load">>) /\ UNCHANGED <<devices, asks, files, unsaved>> /\ \A b : <<"load">> # <<"save", b>>
    BY DEF RunLoadAll, tableVars
<1>2. sched' \in Seq(Jobs) /\ py.do = "main"
    BY <1>1, JobTaken
<1>3. NoSilentLoss'
    BY <1>1, OtherJobTaken
<1>4. PICK names \in Seq(Short) :
          IF names = <<>> THEN load' = [load EXCEPT !.phase = "dropped"] /\ UNCHANGED py
          ELSE /\ load' = [load EXCEPT !.fresh = FALSE, !.todo = names,
                              !.skipped = IF load.fresh THEN Stored \ ToSet(names) ELSE @]
               /\ \E c \in {files[Head(names)], NoFile, Corrupt} :
                     py' = [do |-> "load_all", got |-> c]
    BY NamesToLoad DEF KeepsStill, Inv, Shapes
<1>5. names \in Seq(Short)
    OBVIOUS
<1>6. Shapes'
    BY <1>1, <1>2, <1>4, <1>5 DEF Inv, Shapes
<1>7. FilesNameTheirDevice'
    BY <1>1 DEF Inv, FilesNameTheirDevice, IsDevice
<1>8. InHand'
    <2>1. CASE names = <<>>
        BY <1>2, <1>4, <2>1 DEF InHand
    <2>2. CASE names # <<>>
        <3>1. PICK c \in {files[Head(names)], NoFile, Corrupt} : py' = [do |-> "load_all", got |-> c]
            BY <1>4, <2>2
        <3>2. load'.todo # <<>> /\ Head(names) \in Short
            BY <1>4, <1>5, <2>2, TailMembers DEF Inv, Shapes
        <3>3. IsDevice(c) => c.short = Head(names) /\ IsDevice(files[c.short])
                             /\ files[c.short].short = c.short
            BY <3>1, <3>2 DEF Inv, FilesNameTheirDevice, IsDevice
        <3>4. QED
            BY <1>1, <3>1, <3>2, <3>3 DEF InHand, IsDevice
    <2>3. QED
        BY <2>1, <2>2
<1>9. QED
    BY <1>3, <1>6, <1>7, <1>8 DEF Inv

(* What a merge makes known has its file.                                   *)
LEMMA InvMerge ==
    ASSUME Inv, py.do \in {"load", "load_all"}, py' = Idle, UNCHANGED <<asks, files, unsaved>>,
           Table(devices'),
           \A a \in Shorts(devices') : a \in Shorts(devices) \/ (IsDevice(py.got) /\ a = py.got.short),
           sched' \in Seq(Jobs), ToSet(sched) \subseteq ToSet(sched'),
           {"fresh", "todo", "phase", "retry", "skipped"} \subseteq DOMAIN load', load'.todo \in Seq(Short)
    PROVE  Inv'
<1>1. IsDevice(py.got) => /\ py.got.short \in Short /\ IsDevice(files[py.got.short])
                          /\ files[py.got.short].short = py.got.short
    BY DEF Inv, InHand
<1>2. Shapes'
    BY <1>1 DEF Inv, Shapes
<1>3. InHand' /\ FilesNameTheirDevice'
    BY DEF Inv, InHand, Idle, FilesNameTheirDevice, IsDevice
<1>4. ASSUME NEW a \in Shorts(devices') PROVE Recorded(a)'
    <2>1. CASE a \in Shorts(devices)
        <3>1. Recorded(a)
            BY <2>1, LossView DEF Inv
        <3>2. QED
            BY <3>1 DEF Recorded, IsDevice
    <2>2. CASE IsDevice(py.got) /\ a = py.got.short
        BY <1>1, <2>2 DEF Recorded, IsDevice
    <2>3. QED
        BY <1>4, <2>1, <2>2
<1>5. NoSilentLoss'
    BY <1>4 DEF NoSilentLoss, Recorded
<1>6. QED
    BY <1>2, <1>3, <1>5 DEF Inv

LEMMA InvFinishLoadDevice == ASSUME Inv, FinishLoadDevice PROVE Inv'
<1>1. /\ py.do = "load" /\ py' = Idle /\ UNCHANGED <<asks, sched, files, load, unsaved>>
      /\ devices' = devices \/ devices' = Update(devices, FromJson(py.got))
    BY DEF FinishLoadDevice, requestVars
<1>2. Table(devices') /\ Shorts(devices') \subseteq Shorts(devices)
    BY <1>1, UpdateShorts DEF Inv, Shapes
<1>3. /\ sched' \in Seq(Jobs) /\ load'.todo \in Seq(Short)
      /\ {"fresh", "todo", "phase", "retry", "skipped"} \subseteq DOMAIN load'
    BY <1>1 DEF Inv, Shapes
<1>4. QED
    BY <1>1, <1>2, <1>3, InvMerge

LEMMA InvFinishLoadAll == ASSUME Inv, FinishLoadAll PROVE Inv'
<1> DEFINE next == AfterRead(py.got)
<1>1. /\ py.do = "load_all" /\ py' = Idle /\ UNCHANGED <<asks, files, unsaved>>
      /\ devices' = IF py.got \in {NoFile, Corrupt} THEN devices ELSE MergeLoaded(devices, py.got)
      /\ load' = next \/ load' = [next EXCEPT !.phase = "complete"]
                     \/ load' = [next EXCEPT !.phase = "dropped"]
      /\ sched' = sched \/ sched' = Append(sched, <<"load">>)
    BY DEF FinishLoadAll
<1>2. Table(devices') /\ \A a \in Shorts(devices') :
          a \in Shorts(devices) \/ (IsDevice(py.got) /\ a = py.got.short)
    <2> DEFINE u == Create(devices, py.got.short, py.got.ieee)
    <2>1. Table(devices)
        BY DEF Inv, Shapes
    <2>2. Table(u) /\ Shorts(u) \subseteq Shorts(devices) \cup {py.got.short}
        BY <2>1, CreateShorts
    <2> HIDE DEF u
    <2>3. Table(Update(u, FromJson(py.got))) /\ Shorts(Update(u, FromJson(py.got))) \subseteq Shorts(u)
        BY <2>2, UpdateShorts
    <2>4. MergeLoaded(devices, py.got) = Update(u, FromJson(py.got))
        BY DEF MergeLoaded, u
    <2>5. QED
        BY <1>1, <2>1, <2>2, <2>3, <2>4 DEF IsDevice
<1>3. sched' \in Seq(Jobs) /\ ToSet(sched) \subseteq ToSet(sched')
    <2>1. <<"load">> \in Jobs /\ sched \in Seq(Jobs)
        BY DEF Jobs, Inv, Shapes
    <2>2. /\ Append(sched, <<"load">>) \in Seq(Jobs)
          /\ ToSet(Append(sched, <<"load">>)) = ToSet(sched) \cup {<<"load">>}
        BY <2>1, AppendMembers, Zenon
    <2>3. QED
        BY <1>1, <2>1, <2>2
<1>4. {"fresh", "todo", "phase", "retry", "skipped"} \subseteq DOMAIN next /\ next.todo \in Seq(Short)
    <2>1. /\ {"fresh", "todo", "phase", "retry", "skipped"} \subseteq DOMAIN load
          /\ load.todo \in Seq(Short) /\ Tail(load.todo) \in Seq(Short)
        BY <1>1, TailMembers DEF Inv, Shapes, InHand
    <2>2. QED
        BY <2>1 DEF AfterRead
<1> HIDE DEF next
<1>5. {"fresh", "todo", "phase", "retry", "skipped"} \subseteq DOMAIN load' /\ load'.todo \in Seq(Short)
    BY <1>1, <1>4
<1>6. QED
    BY <1>1, <1>2, <1>3, <1>5, InvMerge

--------------------------------------------------------------------------------
(* Power is lost: what the table knew is gone, and the file being written is   *)
(* of the device of its name or damaged.                                     *)
LEMMA InvRestart == ASSUME Inv, Restart PROVE Inv'
<1>1. /\ devices' = <<>> /\ py' = Idle /\ sched' = << <<"load">> >> /\ load' = FreshLoad
    BY DEF Restart
<1>2. DOMAIN files = Short
    BY DEF Inv, Shapes
<1>3. DOMAIN files' = Short /\ FilesNameTheirDevice'
    <2>1. CASE py.do = "write"
        <3>1. /\ py.name \in Short /\ py.content.short = py.name
            BY <2>1 DEF Inv, InHand
        <3>2. PICK c \in {files[py.name], Corrupt, py.content} : files' = [files EXCEPT ![py.name] = c]
            BY <2>1 DEF Restart
        <3>3. QED
            BY <1>2, <3>1, <3>2 DEF Inv, FilesNameTheirDevice, IsDevice
    <2>2. CASE py.do # "write"
        BY <1>2, <2>2 DEF Restart, Inv, FilesNameTheirDevice, IsDevice
    <2>3. QED
        BY <2>1, <2>2
<1>4. Table(devices') /\ Shorts(devices') = {}
    <2>1. devices' \in Seq({}) /\ DOMAIN devices' = {}
        BY <1>1, EmptySeq
    <2>2. QED
        BY <2>1 DEF Table, Shorts
<1>5. sched' \in Seq(Jobs)
    BY <1>1 DEF Jobs
<1>6. load'.todo \in Seq(Short) /\ {"fresh", "todo", "phase", "retry", "skipped"} \subseteq DOMAIN load'
    <2>1. <<>> \in Seq(Short)
        BY EmptySeq
    <2>2. QED
        BY <1>1, <2>1 DEF FreshLoad, NoLoad
<1>7. InHand'
    BY <1>1 DEF InHand, Idle
<1>8. NoSilentLoss'
    BY <1>4 DEF NoSilentLoss
<1>9. QED
    BY <1>3, <1>4, <1>5, <1>6, <1>7, <1>8 DEF Inv, Shapes

LEMMA InvStep == KeepsStill /\ Inv /\ [Next]_vars => Inv'
<1> SUFFICES ASSUME KeepsStill, Inv, [Next]_vars PROVE Inv'
    OBVIOUS
<1>1. CASE ZigbeeTask
    BY <1>1, InvJoin, InvEntryChange, InvRequest DEF ZigbeeTask
<1>2. CASE Program
    BY <1>2, InvRequest, InvProgram DEF Program
<1>4. CASE StartJob
    BY <1>4, InvRunLoadAll, InvRunSave, InvRunRemove DEF StartJob
<1>5. CASE FinishJob
    BY <1>5, InvCopy, InvWrite, InvFinishLoadAll, InvFinishLoadDevice DEF FinishJob
<1>6. CASE Restart
    BY <1>6, InvRestart
<1>7. CASE UNCHANGED vars
    BY <1>7 DEF vars, Inv, Shapes, InHand, FilesNameTheirDevice, NoSilentLoss, IsDevice
<1>8. QED
    BY <1>1, <1>2, <1>4, <1>5, <1>6, <1>7 DEF Next

(* No known device is without any record on its way to flash, unless a save     *)
(* was refused or failed: whatever addresses collide, while files are loaded,   *)
(* with storage that fails and power that is lost, for every number of devices.  *)
THEOREM NoDeviceIsLost == ASSUME KeepsStill PROVE Spec => []NoSilentLoss
<1>1. Inv => NoSilentLoss
    BY DEF Inv
<1>2. Init => Inv
    BY InvInit
<1>3. Inv /\ [Next]_vars => Inv'
    BY InvStep
<1>4. QED
    BY <1>1, <1>2, <1>3, PTL DEF Spec

(* The race of the look-up with the copy is the only thing that makes a file    *)
(* hold another device than the one it is named for.                          *)
THEOREM FilesAreNamedRight == ASSUME KeepsStill PROVE Spec => []FilesNameTheirDevice
<1>1. Inv => FilesNameTheirDevice
    BY DEF Inv
<1>2. Init => Inv
    BY InvInit
<1>3. Inv /\ [Next]_vars => Inv'
    BY InvStep
<1>4. QED
    BY <1>1, <1>2, <1>3, PTL DEF Spec

--------------------------------------------------------------------------------
(* Types.  An entry of the table and the content of a file list each endpoint  *)
(* number once, so what is typed here says more than TypeOK.                 *)

Content == {c \in Saved : c.eps \in DistinctLists}
Read == Content \cup {NoFile, Corrupt}

TypedSaves == saveQueue \subseteq Short /\ IsFiniteSet(saveQueue)
              /\ Cardinality(saveQueue) <= SaveQueueSize
TypedSched == sched \in Seq(Job) /\ Len(sched) <= SchedDepth
TypedFiles == files \in [Short -> Read]
TypedHand ==
    \/ py = Idle
    \/ py \in [do : {"save"}, name : Short, slot : 1..MaxDevices]
    \/ py \in [do : {"write"}, name : Short, content : Content]
    \/ py \in [do : {"load"}, got : Read]
    \/ py \in [do : {"load_all"}, got : Read] /\ load.todo # <<>>
TypedLoad ==
    load \in [phase : {"off", "on", "complete", "dropped"}, fresh : BOOLEAN,
              todo : Seq(Short), retry : 0..Retries, skipped : SUBSET Short]
TypedHistory == unsaved \subseteq Short /\ shared \subseteq Short /\ left \subseteq Ieee

Typed ==
    /\ Fits(devices, DistinctLists) /\ asks \subseteq Short
    /\ TypedSaves /\ TypedSched /\ TypedFiles /\ TypedHand /\ TypedLoad
    /\ TypedHistory
    /\ restarts \in 0..MaxRestarts

LEMMA TypedInit == Init => Typed
<1> SUFFICES ASSUME Init PROVE Typed
    OBVIOUS
<1>1. Fits(devices, DistinctLists)
    <2>1. <<>> \in Seq(Entries(DistinctLists)) /\ Len(<<>>) <= MaxDevices
        BY EmptySeq, CapacityAssumption
    <2>2. QED
        BY <2>1 DEF Init, TableInit, Fits
<1>2. TypedSaves
    BY FS_EmptySet, StorageAssumption DEF Init, TypedSaves
<1>3. TypedSched
    BY StorageAssumption DEF Init, TypedSched, Job
<1>4. TypedFiles
    BY DEF Init, TypedFiles, Read
<1>5. TypedHand
    BY DEF Init, TypedHand
<1>6. TypedLoad
    <2>1. <<>> \in Seq(Short) /\ 0 \in 0..Retries
        BY EmptySeq, StorageAssumption
    <2>2. QED
        BY <2>1 DEF Init, TypedLoad, FreshLoad, NoLoad
<1>7. asks \subseteq Short /\ TypedHistory /\ restarts \in 0..MaxRestarts
    BY StorageAssumption DEF Init, TypedHistory
<1>8. QED
    BY <1>1, <1>2, <1>3, <1>4, <1>5, <1>6, <1>7 DEF Typed

(* What a request for a save changes keeps its type.                         *)
LEMMA RequestTyped ==
    ASSUME TypedSaves, TypedSched, unsaved \subseteq Short, NEW a \in Short, RequestSave(a)
    PROVE  TypedSaves' /\ TypedSched' /\ unsaved' \subseteq Short
<1>1. CASE ~ Known(devices, a)
    BY <1>1 DEF RequestSave, requestVars, TypedSaves, TypedSched
<1>2. CASE Known(devices, a)
    <2>1. /\ \/ saveQueue' = saveQueue
             \/ saveQueue' = saveQueue \cup {a}
                /\ (a \in saveQueue \/ Cardinality(saveQueue) < SaveQueueSize)
          /\ sched' = sched \/ (Room(sched) /\ sched' = Append(sched, <<"save", a>>))
          /\ unsaved' = unsaved \/ unsaved' = unsaved \cup {a}
        BY <1>2 DEF RequestSave
    <2>2. TypedSaves'
        <3>1. IsFiniteSet(saveQueue \cup {a}) /\ Cardinality(saveQueue) \in Nat
            BY FS_AddElement, FS_CardinalityType DEF TypedSaves
        <3>2. Cardinality(saveQueue \cup {a}) =
                 IF a \in saveQueue THEN Cardinality(saveQueue) ELSE Cardinality(saveQueue) + 1
            BY FS_AddElement DEF TypedSaves
        <3>3. SaveQueueSize \in Nat /\ Cardinality(saveQueue) <= SaveQueueSize
            BY StorageAssumption DEF TypedSaves
        <3>4. CASE saveQueue' = saveQueue
            BY <3>4 DEF TypedSaves
        <3>5. CASE saveQueue' = saveQueue \cup {a} /\ saveQueue' # saveQueue
            <4>1. Cardinality(saveQueue \cup {a}) <= SaveQueueSize
                BY <2>1, <3>1, <3>2, <3>3, <3>5
            <4>2. QED
                BY <3>1, <3>5, <4>1 DEF TypedSaves
        <3>6. QED
            BY <2>1, <3>4, <3>5
    <2>3. TypedSched'
        <3>1. <<"save", a>> \in Job
            BY DEF Job
        <3>2. /\ Append(sched, <<"save", a>>) \in Seq(Job)
              /\ Len(Append(sched, <<"save", a>>)) = Len(sched) + 1 /\ Len(sched) \in Nat
            BY <3>1, AppendProperties, LenProperties DEF TypedSched
        <3>3. QED
            BY <2>1, <3>2, StorageAssumption DEF TypedSched, Room
    <2>4. QED
        BY <2>1, <2>2, <2>3
<1>3. QED
    BY <1>1, <1>2

(* What a step remembers of the table keeps its type.                        *)
LEMMA RememberTyped ==
    ASSUME Fits(devices, DistinctLists), shared \subseteq Short, left \subseteq Ieee, Remember
    PROVE  shared' \subseteq Short /\ left' \subseteq Ieee
<1>1. /\ devices \in Seq(Entries(DistinctLists)) /\ DOMAIN devices = 1..Len(devices)
      /\ \A i \in 1..Len(devices) : devices[i] \in Entries(DistinctLists)
    BY LenProperties, ElementOfSeq DEF Fits
<1>2. Ieees(devices) \subseteq Ieee
    BY <1>1 DEF Ieees, Entries, Entry
<1>3. QED
    BY <1>2 DEF Remember, Twice

(* The table alone changes.                                                *)
LEMMA TypedTable ==
    ASSUME Typed, Fits(devices', DistinctLists), Remember, asks' \subseteq Short,
           TypedSched', UNCHANGED <<saveQueue, files, py, load, restarts>>,
           unsaved' \subseteq Short
    PROVE  Typed'
<1>1. TypedHistory'
    BY RememberTyped DEF Typed, TypedHistory
<1>2. QED
    BY <1>1 DEF Typed, TypedSaves, TypedFiles, TypedHand, TypedLoad

LEMMA TypedJoin ==
    ASSUME Typed, NEW a \in Short, NEW x \in Ieee, Join(a, x) PROVE Typed'
<1>1. /\ devices' = Add(devices, a, x) /\ Remember /\ asks' \subseteq {a}
      /\ UNCHANGED <<saveQueue, files, py, load, unsaved, restarts>>
      /\ sched' = sched \/ (Room(sched) /\ sched' = Append(sched, <<"remove", a>>))
    BY DEF Join, AddDevice
<1>2. TypedSched'
    <2>1. <<"remove", a>> \in Job /\ sched \in Seq(Job) /\ Len(sched) <= SchedDepth
        BY DEF Job, Typed, TypedSched
    <2>2. /\ Append(sched, <<"remove", a>>) \in Seq(Job)
          /\ Len(Append(sched, <<"remove", a>>)) = Len(sched) + 1 /\ Len(sched) \in Nat
        BY <2>1, AppendProperties, LenProperties
    <2>3. QED
        BY <1>1, <2>1, <2>2, StorageAssumption DEF Room, TypedSched
<1>3. Fits(devices', DistinctLists)
    BY <1>1, AddKeeps, DistinctListsMerge DEF Typed
<1>4. asks' \subseteq Short /\ unsaved' \subseteq Short
    BY <1>1 DEF Typed, TypedHistory
<1>5. QED
    BY <1>1, <1>2, <1>3, <1>4, TypedTable

(* An entry gets another list of endpoints.                                 *)
LEMMA EpsKeep ==
    ASSUME NEW t, Fits(t, DistinctLists), NEW i \in 1..Len(t), NEW eps \in DistinctLists
    PROVE  Fits([t EXCEPT ![i].eps = eps], DistinctLists)
<1> DEFINE n == [t[i] EXCEPT !.eps = eps]
<1>1. t[i] \in Entries(DistinctLists)
    BY ElementOfSeq DEF Fits
<1>2. n \in Entries(DistinctLists)
    BY <1>1, DistinctListsMerge DEF Entry, Entries
<1>3. [t EXCEPT ![i].eps = eps] = [t EXCEPT ![i] = n]
    OBVIOUS
<1> HIDE DEF n
<1>4. Fits([t EXCEPT ![i] = n], DistinctLists)
    BY <1>2, WriteKeeps, Zenon
<1>5. QED
    BY <1>3, <1>4, Zenon

LEMMA EpsOf ==
    ASSUME NEW t, Fits(t, DistinctLists), NEW a, IndexOfShort(t, a) # 0
    PROVE  IndexOfShort(t, a) \in 1..Len(t) /\ t[IndexOfShort(t, a)].eps \in DistinctLists
BY ShortLookup, LenProperties, ElementOfSeq DEF Fits, Entries

(* A new endpoint at the end, a description of one that is listed.            *)
LEMMA EpsChange ==
    ASSUME NEW eps \in DistinctLists
    PROVE  /\ \A n \in EpId : Len(eps) < MaxEndpoints /\ IndexOfEp(eps, n) = 0 =>
                 Append(eps, [id |-> n, clusters |-> {}]) \in DistinctLists
           /\ \A k \in DOMAIN eps, cs \in SUBSET Cluster :
                 [eps EXCEPT ![k].clusters = cs] \in DistinctLists
<1>1. eps \in Seq(Endpoint) /\ eps \in Capped /\ DistinctEps(eps)
    BY DEF DistinctLists, Capped
<1>2. ASSUME NEW n \in EpId, Len(eps) < MaxEndpoints, IndexOfEp(eps, n) = 0
      PROVE  Append(eps, [id |-> n, clusters |-> {}]) \in DistinctLists
    <2> DEFINE q == [id |-> n, clusters |-> {}]
    <2>1. q \in Endpoint /\ q.id = n
        BY DEF Endpoint
    <2> HIDE DEF q
    <2>2. MergeEndpoint(eps, q) = Append(eps, q)
        BY <1>2, <2>1 DEF MergeEndpoint
    <2>3. Append(eps, q) \in DistinctLists
        BY <1>1, <2>1, <2>2, MergeOne DEF DistinctLists
    <2>4. QED
        BY <2>3 DEF q
<1>3. ASSUME NEW k \in DOMAIN eps, NEW cs \in SUBSET Cluster
      PROVE  [eps EXCEPT ![k].clusters = cs] \in DistinctLists
    <2> DEFINE q == [eps[k] EXCEPT !.clusters = cs]
               f == [eps EXCEPT ![k] = q]
    <2>1. k \in 1..Len(eps) /\ eps[k] \in Endpoint
        BY <1>1, <1>3, LenProperties, ElementOfSeq
    <2>2. q \in Endpoint /\ q.id = eps[k].id
        BY <2>1 DEF Endpoint
    <2> HIDE DEF q
    <2>3. /\ f \in Seq(Endpoint) /\ Len(f) = Len(eps)
          /\ \A j \in 1..Len(eps) : f[j] = IF j = k THEN q ELSE eps[j]
        BY <1>1, <2>1, <2>2, ExceptSeq
    <2>4. f \in DistinctLists
        <3> HIDE DEF f
        <3>1. QED
            BY <1>1, <2>2, <2>3 DEF DistinctLists, Capped, DistinctEps
    <2>5. QED
        BY <2>4 DEF f, q
<1>4. QED
    BY <1>2, <1>3

LEMMA TypedEntryChange ==
    ASSUME Typed, NEW a \in Short,
           \/ Seen(a)
           \/ \E n \in EpId : Listed(a, n)
           \/ \E k \in 1..MaxEndpoints, cs \in SUBSET Cluster : Described(a, k, cs)
    PROVE  Typed'
<1> DEFINE i == IndexOfShort(devices, a)
<1>1. /\ asks' \subseteq Short /\ unsaved' \subseteq Short /\ Remember
      /\ UNCHANGED <<saveQueue, sched, files, py, load, restarts>>
    BY DEF Seen, Listed, Described, requestVars, Typed, TypedHistory
<1>2. Fits(devices', DistinctLists)
    <2>1. CASE Seen(a)
        BY <2>1, TouchKeeps DEF Seen, TouchDevice, Typed
    <2>2. ASSUME NEW n \in EpId, Listed(a, n) PROVE Fits(devices', DistinctLists)
        <3> DEFINE eps == Append(devices[i].eps, [id |-> n, clusters |-> {}])
        <3>1. /\ i # 0 /\ devices' = [devices EXCEPT ![i].eps = eps]
              /\ Len(devices[i].eps) < MaxEndpoints /\ IndexOfEp(devices[i].eps, n) = 0
            BY <2>2 DEF Listed
        <3>2. i \in 1..Len(devices) /\ devices[i].eps \in DistinctLists
            BY <3>1, EpsOf DEF Typed
        <3> HIDE DEF i
        <3>3. eps \in DistinctLists
            BY <3>1, <3>2, EpsChange
        <3> HIDE DEF eps
        <3>4. QED
            BY <3>1, <3>2, <3>3, EpsKeep, Zenon DEF Typed
    <2>3. ASSUME NEW k \in 1..MaxEndpoints, NEW cs \in SUBSET Cluster, Described(a, k, cs)
          PROVE  Fits(devices', DistinctLists)
        <3> DEFINE eps == [devices[i].eps EXCEPT ![k].clusters = cs]
        <3>1. /\ i # 0 /\ k \in DOMAIN devices[i].eps
              /\ devices' = [devices EXCEPT ![i].eps = eps]
            BY <2>3 DEF Described
        <3>2. i \in 1..Len(devices) /\ devices[i].eps \in DistinctLists
            BY <3>1, EpsOf DEF Typed
        <3> HIDE DEF i
        <3>3. eps \in DistinctLists
            BY <3>1, <3>2, EpsChange
        <3> HIDE DEF eps
        <3>4. QED
            BY <3>1, <3>2, <3>3, EpsKeep, Zenon DEF Typed
    <2>4. QED
        BY <2>1, <2>2, <2>3
<1>3. TypedSched'
    BY <1>1 DEF Typed, TypedSched
<1>4. QED
    BY <1>1, <1>2, <1>3, TypedTable

LEMMA TypedCalls ==
    ASSUME Typed, NEW a \in Short, AskSave(a) \/ SaveDevice(a) \/ ProgramRemoves(a)
    PROVE  Typed'
<1>1. CASE AskSave(a) \/ SaveDevice(a)
    <2>1. /\ RequestSave(a) /\ asks' \subseteq asks
          /\ UNCHANGED <<devices, shared, left, files, py, load, restarts>>
        BY <1>1 DEF AskSave, SaveDevice, tableVars
    <2>2. TypedSaves' /\ TypedSched' /\ unsaved' \subseteq Short
        BY <2>1, RequestTyped DEF Typed, TypedHistory
    <2>3. QED
        BY <2>1, <2>2 DEF Typed, TypedHistory, TypedFiles, TypedHand, TypedLoad
<1>2. CASE ProgramRemoves(a)
    <2>1. /\ devices' = Delete(devices, a) /\ Remember
          /\ UNCHANGED <<asks, saveQueue, sched, unsaved, files, py, load, restarts>>
        BY <1>2 DEF ProgramRemoves, RemoveDevice, requestVars
    <2>2. Fits(devices', DistinctLists)
        BY <2>1, DeleteKeeps DEF Typed
    <2>3. asks' \subseteq Short /\ TypedSched' /\ unsaved' \subseteq Short
        BY <2>1 DEF Typed, TypedSched, TypedHistory
    <2>4. QED
        BY <2>1, <2>2, <2>3, TypedTable
<1>3. QED
    BY <1>1, <1>2

(* What Python has in hand, by what it does.                                *)
LEMMA HandHolds ==
    ASSUME TypedHand
    PROVE  /\ py.do = "save" => py.name \in Short /\ py.slot \in 1..MaxDevices
           /\ py.do = "write" => py.name \in Short /\ py.content \in Content
           /\ py.do \in {"load", "load_all"} => py.got \in Read
           /\ py.do = "load_all" => load.todo # <<>>
BY DEF TypedHand, Idle

(* What is written is a device, also when the pointer is past the end.        *)
LEMMA CopyTyped ==
    ASSUME Fits(devices, DistinctLists), NEW i
    PROVE  ToJson(Slot(devices, i)) \in Content
<1>1. Slot(devices, i) \in Entries(DistinctLists)
    <2>1. CASE i \in DOMAIN devices
        <3>1. i \in 1..Len(devices)
            BY <2>1, LenProperties DEF Fits
        <3>2. QED
            BY <2>1, <3>1, ElementOfSeq DEF Fits, Slot
    <2>2. CASE i \notin DOMAIN devices
        <3>1. <<>> \in Seq(Endpoint) /\ <<>> \in DistinctLists
            BY EmptySeq, DistinctListsMerge
        <3>2. ClearedSlot \in Entries(DistinctLists)
            BY <3>1, StorageAssumption DEF ClearedSlot, NewEntry, Entry, Entries
        <3>3. QED
            BY <2>2, <3>2 DEF Slot
    <2>3. QED
        BY <2>1, <2>2
<1>2. QED
    BY <1>1 DEF ToJson, Content, Saved, Entry, Entries

LEMMA ReadDevice ==
    ASSUME NEW c \in Read, c \notin {NoFile, Corrupt}
    PROVE  c \in Content /\ FromJson(c) \in Entry /\ c.short \in Short /\ c.ieee \in Ieee
           /\ FromJson(c).short = c.short /\ FromJson(c).ieee = c.ieee /\ FromJson(c).eps = c.eps
BY DEF Read, Content, Saved, FromJson, NewEntry, Entry

LEMMA StartsTyped ==
    ASSUME Typed, NEW job, Starts(job)
    PROVE  TypedSched' /\ py = Idle /\ TypedHand
<1>1. sched \in Seq(Job) /\ sched # <<>> /\ sched' = Tail(sched) /\ Len(sched) <= SchedDepth
    BY DEF Starts, Typed, TypedSched
<1>2. /\ Tail(sched) \in Seq(Job) /\ Len(Tail(sched)) = Len(sched) - 1
      /\ Len(sched) \in Nat \ {0}
    BY <1>1, TailMembers
<1>3. TypedSched'
    BY <1>1, <1>2, StorageAssumption DEF TypedSched
<1>4. QED
    BY <1>3 DEF Starts, Typed

LEMMA TypedRunSave == ASSUME Typed, NEW a \in Short, RunSave(a) PROVE Typed'
<1>1. TypedSched' /\ UNCHANGED <<devices, asks, saveQueue, files, load, unsaved, shared, left, restarts>>
    BY StartsTyped DEF RunSave, tableVars
<1>2. CASE ~ Known(devices, a)
    BY <1>1, <1>2 DEF RunSave, Typed, TypedSaves, TypedFiles, TypedHand, TypedLoad, TypedHistory
<1>3. CASE Known(devices, a)
    <2>1. IndexOfShort(devices, a) \in 1..MaxDevices
        <3>1. /\ IndexOfShort(devices, a) \in 0..Len(devices) /\ IndexOfShort(devices, a) # 0
              /\ Len(devices) \in Nat /\ Len(devices) <= MaxDevices
            BY <1>3, ShortLookup, LenProperties DEF Typed, Fits, Known
        <3>2. QED
            BY <3>1, CapacityAssumption
    <2>2. py' = [do |-> "save", name |-> a, slot |-> IndexOfShort(devices, a)]
        BY <1>3 DEF RunSave
    <2>3. TypedHand'
        BY <2>1, <2>2 DEF TypedHand
    <2>4. QED
        BY <1>1, <2>3 DEF Typed, TypedSaves, TypedFiles, TypedLoad, TypedHistory
<1>4. QED
    BY <1>2, <1>3

LEMMA TypedRunRemove == ASSUME Typed, NEW a \in Short, RunRemove(a) PROVE Typed'
<1>1. TypedSched' /\ UNCHANGED <<devices, asks, saveQueue, files, py, load, unsaved, shared, left, restarts>>
    BY StartsTyped DEF RunRemove, tableVars
<1>2. QED
    BY <1>1 DEF Typed, TypedSaves, TypedFiles, TypedHand, TypedLoad, TypedHistory

LEMMA TypedLoadDevice == ASSUME Typed, NEW a \in Short, LoadDevice(a) PROVE Typed'
<1>1. UNCHANGED <<devices, asks, saveQueue, sched, files, load, unsaved, shared, left, restarts>>
    BY DEF LoadDevice, tableVars, requestVars
<1>2. PICK c \in Readable(a) : py' = [do |-> "load", got |-> c]
    BY DEF LoadDevice
<1>3. c \in Read
    BY <1>2 DEF Readable, Typed, TypedFiles, Read
<1>4. TypedHand'
    BY <1>2, <1>3 DEF TypedHand
<1>5. QED
    BY <1>1, <1>4 DEF Typed, TypedSaves, TypedSched, TypedFiles, TypedLoad, TypedHistory

LEMMA TypedCopy == ASSUME Typed, CopyToJson PROVE Typed'
<1>1. /\ py.do = "save" /\ UNCHANGED <<devices, asks, saveQueue, sched, files, load, left, restarts>>
      /\ unsaved' \subseteq unsaved /\ shared' \subseteq shared
      /\ py' = [do |-> "write", name |-> py.name, content |-> ToJson(Slot(devices, py.slot))]
    BY DEF CopyToJson
<1>2. py.name \in Short /\ ToJson(Slot(devices, py.slot)) \in Content
    BY <1>1, HandHolds, CopyTyped DEF Typed
<1>3. TypedHand'
    BY <1>1, <1>2 DEF TypedHand
<1>4. QED
    BY <1>1, <1>3 DEF Typed, TypedSaves, TypedSched, TypedFiles, TypedLoad, TypedHistory

LEMMA TypedWrite == ASSUME Typed, WriteFile PROVE Typed'
<1>1. /\ py.do = "write" /\ py' = Idle
      /\ UNCHANGED <<devices, asks, shared, left, saveQueue, sched, load, restarts>>
      /\ py.name \in Short /\ py.content \in Content
    BY HandHolds DEF WriteFile, tableVars, Typed
<1>2. TypedHistory' /\ TypedFiles'
    BY <1>1 DEF WriteFile, Typed, TypedFiles, Read, TypedHistory
<1>3. TypedHand'
    BY <1>1 DEF TypedHand
<1>4. QED
    BY <1>1, <1>2, <1>3 DEF Typed, TypedSaves, TypedSched, TypedLoad

LEMMA TypedRunLoadAll == ASSUME IsFiniteSet(Short), Typed, RunLoadAll PROVE Typed'
<1>1. /\ TypedSched' /\ py = Idle
      /\ UNCHANGED <<devices, asks, shared, left, saveQueue, files, unsaved, restarts>>
    BY StartsTyped DEF RunLoadAll, tableVars
<1>2. PICK names \in Seq(Short) :
          IF names = <<>> THEN load' = [load EXCEPT !.phase = "dropped"] /\ UNCHANGED py
          ELSE /\ load' = [load EXCEPT !.fresh = FALSE, !.todo = names,
                              !.skipped = IF load.fresh THEN Stored \ ToSet(names) ELSE @]
               /\ \E c \in {files[Head(names)], NoFile, Corrupt} :
                     py' = [do |-> "load_all", got |-> c]
    BY NamesToLoad DEF Typed, TypedLoad
<1>3. names \in Seq(Short)
    OBVIOUS
<1>4. CASE names = <<>>
    <2>1. load' = [load EXCEPT !.phase = "dropped"] /\ UNCHANGED py
        BY <1>2, <1>4
    <2>2. TypedLoad'
        BY <2>1 DEF Typed, TypedLoad
    <2>3. TypedHand'
        BY <1>1, <2>1 DEF TypedHand
    <2>4. QED
        BY <1>1, <2>2, <2>3 DEF Typed, TypedSaves, TypedFiles, TypedHistory
<1>5. CASE names # <<>>
    <2>1. load' = [load EXCEPT !.fresh = FALSE, !.todo = names,
                              !.skipped = IF load.fresh THEN Stored \ ToSet(names) ELSE @]
        BY <1>2, <1>5
    <2>2. PICK c \in {files[Head(names)], NoFile, Corrupt} : py' = [do |-> "load_all", got |-> c]
        BY <1>2, <1>5
    <2>3. Head(names) \in Short
        BY <1>3, <1>5, TailMembers
    <2>4. c \in Read
        BY <2>2, <2>3 DEF Typed, TypedFiles, Read
    <2>5. TypedLoad' /\ load'.todo = names
        BY <1>3, <2>1 DEF Typed, TypedLoad, Stored
    <2>6. TypedHand'
        BY <1>5, <2>2, <2>4, <2>5 DEF TypedHand
    <2>7. QED
        BY <1>1, <2>5, <2>6 DEF Typed, TypedSaves, TypedFiles, TypedHistory
<1>6. QED
    BY <1>4, <1>5

LEMMA TypedFinishLoadDevice == ASSUME Typed, FinishLoadDevice PROVE Typed'
<1>1. /\ py.do = "load" /\ py' = Idle /\ UNCHANGED <<asks, saveQueue, sched, files, load, unsaved, restarts>>
      /\ Remember
      /\ devices' = IF py.got \in {NoFile, Corrupt} THEN devices ELSE Update(devices, FromJson(py.got))
    BY DEF FinishLoadDevice, requestVars
<1>2. py.got \in Read
    BY <1>1, HandHolds DEF Typed
<1>3. Fits(devices', DistinctLists)
    <2>1. CASE py.got \in {NoFile, Corrupt}
        BY <1>1, <2>1 DEF Typed
    <2>2. CASE py.got \notin {NoFile, Corrupt}
        BY <1>1, <1>2, <2>2, ReadDevice, UpdateKeeps, DistinctListsMerge DEF Typed
    <2>3. QED
        BY <2>1, <2>2
<1>4. TypedHand'
    BY <1>1 DEF TypedHand
<1>5. TypedHistory'
    BY <1>1, RememberTyped DEF Typed, TypedHistory
<1>6. QED
    BY <1>1, <1>3, <1>4, <1>5 DEF Typed, TypedSaves, TypedSched, TypedFiles, TypedLoad

LEMMA TypedFinishLoadAll == ASSUME Typed, FinishLoadAll PROVE Typed'
<1> DEFINE next == AfterRead(py.got)
<1>1. /\ py.do = "load_all" /\ py' = Idle /\ UNCHANGED <<asks, saveQueue, files, unsaved, restarts>>
      /\ Remember
      /\ devices' = IF py.got \in {NoFile, Corrupt} THEN devices ELSE MergeLoaded(devices, py.got)
      /\ load' = next \/ load' = [next EXCEPT !.phase = "complete"]
                     \/ load' = [next EXCEPT !.phase = "dropped"]
      /\ sched' = sched \/ (Room(sched) /\ sched' = Append(sched, <<"load">>))
    BY DEF FinishLoadAll
<1>2. py.got \in Read /\ load.todo # <<>>
    BY <1>1, HandHolds DEF Typed
<1>3. Fits(devices', DistinctLists)
    <2>1. CASE py.got \in {NoFile, Corrupt}
        BY <1>1, <2>1 DEF Typed
    <2>2. CASE py.got \notin {NoFile, Corrupt}
        <3> DEFINE u == Create(devices, py.got.short, py.got.ieee)
        <3>1. py.got.short \in Short /\ py.got.ieee \in Ieee /\ FromJson(py.got) \in Entry
            BY <1>2, <2>2, ReadDevice
        <3>2. Fits(u, DistinctLists)
            BY <3>1, CreateKeeps, DistinctListsMerge DEF Typed
        <3>3. devices' = Update(u, FromJson(py.got))
            BY <1>1, <2>2 DEF MergeLoaded
        <3> HIDE DEF u
        <3>4. QED
            BY <3>1, <3>2, <3>3, UpdateKeeps, DistinctListsMerge
    <2>3. QED
        BY <2>1, <2>2
<1>4. TypedSched'
    <2>1. <<"load">> \in Job /\ sched \in Seq(Job) /\ Len(sched) <= SchedDepth
        BY DEF Job, Typed, TypedSched
    <2>2. /\ Append(sched, <<"load">>) \in Seq(Job)
          /\ Len(Append(sched, <<"load">>)) = Len(sched) + 1 /\ Len(sched) \in Nat
        BY <2>1, AppendProperties, LenProperties
    <2>3. QED
        BY <1>1, <2>1, <2>2, StorageAssumption DEF Room, TypedSched
<1>5. TypedLoad'
    <2>1. next \in [phase : {"off", "on", "complete", "dropped"}, fresh : BOOLEAN,
                    todo : Seq(Short), retry : 0..Retries, skipped : SUBSET Short]
        <3>1. Tail(load.todo) \in Seq(Short) /\ load.retry \in 0..Retries /\ Retries \in Nat
            BY <1>2, TailMembers, StorageAssumption DEF Typed, TypedLoad
        <3>2. load.retry + 1 < Retries => load.retry + 1 \in 0..Retries
            BY <3>1
        <3>3. 0 \in 0..Retries
            BY <3>1
        <3>4. Head(load.todo) \in Short
            BY <1>2, TailMembers DEF Typed, TypedLoad
        <3>5. QED
            BY <3>1, <3>2, <3>3, <3>4 DEF AfterRead, Typed, TypedLoad
    <2> HIDE DEF next
    <2>2. QED
        BY <1>1, <2>1 DEF TypedLoad
<1>6. TypedHand'
    BY <1>1 DEF TypedHand
<1>7. TypedHistory'
    BY <1>1, RememberTyped DEF Typed, TypedHistory
<1>8. QED
    BY <1>1, <1>3, <1>4, <1>5, <1>6, <1>7 DEF Typed, TypedSaves, TypedFiles

LEMMA TypedRestart == ASSUME Typed, Restart PROVE Typed'
<1>1. /\ devices' = <<>> /\ asks' = {} /\ saveQueue' = {} /\ py' = Idle
      /\ unsaved' = {} /\ shared' = {} /\ left' = {}
      /\ sched' = << <<"load">> >> /\ load' = FreshLoad
      /\ restarts < MaxRestarts /\ restarts' = restarts + 1
    BY DEF Restart
<1>2. Fits(devices', DistinctLists)
    <2>1. <<>> \in Seq(Entries(DistinctLists)) /\ Len(<<>>) <= MaxDevices
        BY EmptySeq, CapacityAssumption
    <2>2. QED
        BY <1>1, <2>1 DEF Fits
<1>3. TypedSaves'
    BY <1>1, FS_EmptySet, StorageAssumption DEF TypedSaves
<1>4. TypedSched'
    BY <1>1, StorageAssumption DEF TypedSched, Job
<1>5. TypedFiles'
    <2>1. CASE py.do = "write"
        <3>1. py.name \in Short /\ py.content \in Content
            BY <2>1, HandHolds DEF Typed
        <3>2. PICK c \in {files[py.name], Corrupt, py.content} : files' = [files EXCEPT ![py.name] = c]
            BY <2>1 DEF Restart
        <3>3. QED
            BY <3>1, <3>2 DEF Typed, TypedFiles, Read
    <2>2. CASE py.do # "write"
        BY <2>2 DEF Restart, Typed, TypedFiles
    <2>3. QED
        BY <2>1, <2>2
<1>6. TypedHand'
    BY <1>1 DEF TypedHand
<1>7. TypedLoad'
    <2>1. <<>> \in Seq(Short) /\ 0 \in 0..Retries
        BY EmptySeq, StorageAssumption
    <2>2. QED
        BY <1>1, <2>1 DEF TypedLoad, FreshLoad, NoLoad
<1>8. restarts' \in 0..MaxRestarts
    BY <1>1, StorageAssumption DEF Typed
<1>9. QED
    BY <1>1, <1>2, <1>3, <1>4, <1>5, <1>6, <1>7, <1>8 DEF Typed, TypedHistory

LEMMA TypedStep == ASSUME IsFiniteSet(Short) PROVE Typed /\ [Next]_vars => Typed'
<1> SUFFICES ASSUME Typed, [Next]_vars PROVE Typed'
    OBVIOUS
<1>1. CASE ZigbeeTask
    BY <1>1, TypedJoin, TypedEntryChange, TypedCalls DEF ZigbeeTask
<1>2. CASE Program
    BY <1>2, TypedCalls, TypedLoadDevice DEF Program
<1>4. CASE StartJob
    BY <1>4, TypedRunLoadAll, TypedRunSave, TypedRunRemove DEF StartJob
<1>5. CASE FinishJob
    BY <1>5, TypedCopy, TypedWrite, TypedFinishLoadAll, TypedFinishLoadDevice DEF FinishJob
<1>6. CASE Restart
    BY <1>6, TypedRestart
<1>7. CASE UNCHANGED vars
    BY <1>7 DEF vars, Typed, TypedSaves, TypedSched, TypedFiles, TypedHand, TypedLoad, TypedHistory
<1>8. QED
    BY <1>1, <1>2, <1>4, <1>5, <1>6, <1>7 DEF Next

(* Whatever fails, races or restarts, the table, the queues, the files and      *)
(* what Python has in hand stay within their types and capacities; a copy       *)
(* through a pointer past the end is still the copy of an entry.               *)
THEOREM StorageTyping == ASSUME IsFiniteSet(Short) PROVE Spec => []TypeOK
<1>1. Typed => TypeOK
    <2> SUFFICES ASSUME Typed PROVE TypeOK
        OBVIOUS
    <2>1. TableOK
        <3>1. Fits(devices, Capped)
            BY DEF Typed, Fits, Entries, DistinctLists
        <3>2. QED
            BY <3>1, TableOKView
    <2>2. /\ saveQueue \in SUBSET Short /\ Cardinality(saveQueue) <= SaveQueueSize
          /\ sched \in Seq(Job) /\ Len(sched) <= SchedDepth
        BY DEF Typed, TypedSaves, TypedSched
    <2>3. Read \subseteq File /\ Content \subseteq Saved
        BY DEF Read, Content, File
    <2>4. files \in [Short -> File]
        BY <2>3 DEF Typed, TypedFiles
    <2>5. py \in {Idle} \cup [do : {"save"}, name : Short, slot : 1..MaxDevices]
                       \cup [do : {"write"}, name : Short, content : Saved]
                       \cup [do : {"load", "load_all"}, got : File]
        BY <2>3 DEF Typed, TypedHand
    <2>6. QED
        BY <2>1, <2>2, <2>4, <2>5 DEF Typed, TypedLoad, TypedHistory, TypeOK
<1>2. Init => Typed
    BY TypedInit
<1>3. Typed /\ [Next]_vars => Typed'
    BY TypedStep
<1>4. QED
    BY <1>1, <1>2, <1>3, PTL DEF Spec

--------------------------------------------------------------------------------
(* Loading.  Whatever fails, joins, leaves or is saved meanwhile, every file of  *)
(* a device is either still to be read, or its device was met, or the loading   *)
(* went past it.                                                            *)

(* The hardware addresses in the table, those that left it, and that of a      *)
(* cleared slot: only a file of one of them is ever written.                  *)
Met == Ieees(devices) \cup left \cup {NoIeee}

Brought(skipped, todo) ==
    \A a \in Short : IsDevice(files[a]) =>
        files[a].ieee \in Met \/ a \in skipped \/ a \in ToSet(todo)

Bringing ==
    /\ ~ load.fresh => Brought(load.skipped, load.todo)
    /\ py.do = "write" => py.content.ieee \in Met
    /\ py.do = "load_all" => /\ ~ load.fresh
                             /\ IsDevice(py.got) => py.got = files[Head(load.todo)]

LEMMA MetGrows ==
    ASSUME Remember \/ UNCHANGED <<devices, left>> PROVE Met \subseteq Met'
BY DEF Remember, Met, Ieees

(* Files and context stay, and Python does nothing or what it did.            *)
LEMMA BringingKept ==
    ASSUME Bringing, Met \subseteq Met', UNCHANGED <<files, load>>,
           UNCHANGED py \/ py'.do \notin {"write", "load_all"}
    PROVE  Bringing'
BY DEF Bringing, Brought, IsDevice

(* What Python copies is an entry or a cleared slot.                         *)
LEMMA BringingCopy == ASSUME Typed, Bringing, CopyToJson PROVE Bringing'
<1>1. /\ UNCHANGED <<devices, left, files, load>>
      /\ py' = [do |-> "write", name |-> py.name, content |-> ToJson(Slot(devices, py.slot))]
    BY DEF CopyToJson
<1>2. Met' = Met
    BY <1>1 DEF Met, Ieees
<1>3. Slot(devices, py.slot).ieee \in Met
    BY DEF Slot, ClearedSlot, NewEntry, Met, Ieees
<1>4. ToJson(Slot(devices, py.slot)).ieee \in Met
    BY <1>3 DEF ToJson
<1>5. QED
    BY <1>1, <1>2, <1>4 DEF Bringing, Brought, IsDevice

LEMMA BringingWrite == ASSUME Typed, Bringing, WriteFile PROVE Bringing'
<1>1. /\ py.do = "write" /\ py' = Idle /\ py'.do = "main" /\ UNCHANGED <<devices, left, load>>
      /\ py.name \in Short /\ py.content.ieee \in Met
    BY HandHolds DEF WriteFile, tableVars, Idle, Bringing, Typed
<1>2. /\ \A b \in Short \ {py.name} : files'[b] = files[b]
      /\ files'[py.name] \in {py.content, files[py.name], Corrupt}
    BY <1>1 DEF WriteFile, Typed, TypedFiles
<1>3. Met' = Met
    BY <1>1 DEF Met, Ieees
<1>4. QED
    BY <1>1, <1>2, <1>3 DEF Bringing, Brought, IsDevice

(* The first run lists the files: one it does not list is skipped.            *)
LEMMA BringingRun ==
    ASSUME IsFiniteSet(Short), Typed, Bringing, RunLoadAll PROVE Bringing'
<1>1. py = Idle /\ py.do = "main" /\ UNCHANGED <<devices, left, files>>
    BY DEF RunLoadAll, Starts, Idle, tableVars
<1>2. PICK names \in Seq(Short) :
          /\ load.fresh \/ names = load.todo
          /\ IF names = <<>> THEN load' = [load EXCEPT !.phase = "dropped"] /\ UNCHANGED py
             ELSE /\ load' = [load EXCEPT !.fresh = FALSE, !.todo = names,
                              !.skipped = IF load.fresh THEN Stored \ ToSet(names) ELSE @]
                  /\ \E c \in {files[Head(names)], NoFile, Corrupt} :
                        py' = [do |-> "load_all", got |-> c]
    BY NamesToLoad DEF Typed, TypedLoad
<1>3. Met' = Met
    BY <1>1 DEF Met, Ieees
<1>4. CASE names = <<>>
    <2>1. /\ load'.fresh = load.fresh /\ load'.todo = load.todo /\ load'.skipped = load.skipped
          /\ UNCHANGED py
        BY <1>2, <1>4 DEF Typed, TypedLoad
    <2>2. QED
        BY <1>1, <1>3, <2>1 DEF Bringing, Brought, IsDevice
<1>5. CASE names # <<>>
    <2>1. /\ load'.fresh = FALSE /\ load'.todo = names
          /\ load'.skipped = IF load.fresh THEN Stored \ ToSet(names) ELSE load.skipped
        BY <1>2, <1>5 DEF Typed, TypedLoad
    <2>2. PICK c \in {files[Head(names)], NoFile, Corrupt} : py' = [do |-> "load_all", got |-> c]
        BY <1>2, <1>5
    <2>3. Brought(load'.skipped, names)
        <3>1. CASE load.fresh
            BY <2>1, <3>1 DEF Brought, Stored, IsDevice
        <3>2. CASE ~ load.fresh
            BY <1>2, <2>1, <3>2 DEF Bringing
        <3>3. QED
            BY <3>1, <3>2
    <2>4. QED
        BY <1>1, <1>3, <2>1, <2>2, <2>3 DEF Bringing, Brought, IsDevice
<1>6. QED
    BY <1>4, <1>5

(* An address with an entry, or with room for one, has one once a file of it    *)
(* was merged, and that entry has the hardware address of the file.             *)
LEMMA CreateKnown ==
    ASSUME NEW t, Fits(t, DistinctLists), NEW a \in Short, NEW x \in Ieee,
           Len(t) < MaxDevices \/ Known(t, a)
    PROVE  Known(Create(t, a, x), a)
<1>1. Len(t) \in Nat /\ MaxDevices \in Nat /\ t \in Seq(Entries(DistinctLists))
    BY LenProperties, CapacityAssumption DEF Fits
<1>2. CASE Len(t) >= MaxDevices
    BY <1>1, <1>2 DEF Create
<1>3. CASE ~ (Len(t) >= MaxDevices)
    <2> DEFINE n == NewEntry(a, x)
               u == Append(t, n)
    <2>1. n \in Entries(DistinctLists) /\ n.short = a
        BY EmptySeq, DistinctListsMerge DEF NewEntry, Entry, Entries
    <2> HIDE DEF n
    <2>2. /\ u \in Seq(Entries(DistinctLists)) /\ Len(u) = Len(t) + 1
          /\ u[Len(t) + 1] = n
        BY <1>1, <2>1, AppendProperties
    <2> HIDE DEF u
    <2>3. IndexOfShort(u, a) # 0
        BY <1>1, <2>1, <2>2, ShortLookup
    <2>4. Create(t, a, x) = u
        BY <1>3 DEF Create, u, n
    <2>5. QED
        BY <2>3, <2>4 DEF Known
<1>4. QED
    BY <1>2, <1>3

(* The entry a file is merged into: the first of its address.                 *)
LEMMA UpdateEntry ==
    ASSUME NEW t, Fits(t, DistinctLists), NEW g \in Entry
    PROVE  LET k == IndexOfShort(t, g.short)
               u == Update(t, g)
           IN  /\ k = 0 => u = t
               /\ Len(u) = Len(t) /\ \A i \in 1..Len(t) : u[i].short = t[i].short
               /\ \A i \in 1..Len(t) : i # k => u[i] = t[i]
               /\ k # 0 => /\ k \in 1..Len(t) /\ u[k].ieee = g.ieee
                           /\ u[k].eps = MergeEndpoints(t[k].eps, g.eps)
<1> DEFINE k == IndexOfShort(t, g.short)
           n == [t[k] EXCEPT !.ieee = g.ieee, !.active = g.active,
                             !.eps = MergeEndpoints(t[k].eps, g.eps)]
<1>1. /\ t \in Seq(Entries(DistinctLists)) /\ k \in 0..Len(t) /\ Len(t) \in Nat
      /\ k # 0 => k \in 1..Len(t)
    BY ShortLookup, LenProperties DEF Fits
<1>2. CASE k = 0
    BY <1>2 DEF Update
<1>3. CASE k # 0
    <2>1. k \in 1..Len(t) /\ t[k] \in Entry
        BY <1>1, <1>3, ElementOfSeq DEF Entries
    <2>2. Update(t, g) = [t EXCEPT ![k] = n]
        BY <1>3 DEF Update
    <2>3. /\ n.short = t[k].short /\ n.ieee = g.ieee
          /\ n.eps = MergeEndpoints(t[k].eps, g.eps)
        BY <2>1 DEF Entry
    <2> HIDE DEF k, n
    <2>4. t \in Seq(Entries(DistinctLists) \cup {n})
        BY <1>1, LenProperties, ElementOfSeq, SeqDef
    <2>5. /\ Len([t EXCEPT ![k] = n]) = Len(t)
          /\ \A i \in 1..Len(t) : [t EXCEPT ![k] = n][i] = IF i = k THEN n ELSE t[i]
        BY <2>1, <2>4, ExceptSeq
    <2>6. QED
        BY <1>3, <2>1, <2>2, <2>3, <2>5 DEF k
<1>4. QED
    BY <1>2, <1>3

LEMMA MergeMeets ==
    ASSUME NEW t, Fits(t, DistinctLists), NEW c \in Content,
           Len(t) < MaxDevices \/ Known(t, c.short)
    PROVE  c.ieee \in Ieees(MergeLoaded(t, c))
<1> DEFINE u == Create(t, c.short, c.ieee)
           g == FromJson(c)
           k == IndexOfShort(u, g.short)
<1>1. /\ c.short \in Short /\ c.ieee \in Ieee
      /\ g \in Entry /\ g.short = c.short /\ g.ieee = c.ieee
    BY DEF Content, Saved, FromJson, NewEntry, Entry
<1> HIDE DEF g
<1>2. Fits(u, DistinctLists)
    BY <1>1, CreateKeeps, DistinctListsMerge
<1>3. k # 0
    BY <1>1, CreateKnown DEF Known
<1> HIDE DEF u
<1>4. /\ k \in 1..Len(u) /\ Len(Update(u, g)) = Len(u) /\ Update(u, g)[k].ieee = c.ieee
    BY <1>1, <1>2, <1>3, UpdateEntry
<1>5. Fits(Update(u, g), DistinctLists)
    BY <1>1, <1>2, UpdateKeeps, DistinctListsMerge
<1>6. DOMAIN Update(u, g) = 1..Len(u)
    BY <1>4, <1>5, LenProperties DEF Fits
<1>7. MergeLoaded(t, c) = Update(u, g)
    BY DEF MergeLoaded, u, g
<1>8. QED
    BY <1>4, <1>6, <1>7 DEF Ieees

(* The name at the head is read again, or its device was met, or it is skipped.  *)
LEMMA BringingFinish == ASSUME Typed, Bringing, FinishLoadAll PROVE Bringing'
<1> DEFINE next == AfterRead(py.got)
           h == Head(load.todo)
<1>1. /\ py.do = "load_all" /\ py' = Idle /\ UNCHANGED files /\ Remember
      /\ devices' = IF py.got \in {NoFile, Corrupt} THEN devices ELSE MergeLoaded(devices, py.got)
      /\ load' = next \/ load' = [next EXCEPT !.phase = "complete"]
                     \/ load' = [next EXCEPT !.phase = "dropped"]
    BY DEF FinishLoadAll
<1>2. /\ py.got \in Read /\ load.todo # <<>> /\ load.todo \in Seq(Short)
      /\ load \in [phase : {"off", "on", "complete", "dropped"}, fresh : BOOLEAN,
                   todo : Seq(Short), retry : 0..Retries, skipped : SUBSET Short]
    BY <1>1, HandHolds DEF Typed, TypedLoad
<1>3. /\ ~ load.fresh /\ Brought(load.skipped, load.todo)
      /\ IsDevice(py.got) => py.got = files[h]
    BY <1>1 DEF Bringing
<1>4. /\ {"phase", "fresh", "todo", "skipped", "retry"} \subseteq DOMAIN next
      /\ next.fresh = load.fresh
      /\ \/ next.todo = load.todo /\ next.skipped = load.skipped
         \/ /\ next.todo = Tail(load.todo)
            /\ \/ next.skipped = load.skipped \cup {h}
               \/ /\ next.skipped = load.skipped /\ IsDevice(py.got)
                  /\ Len(devices) < MaxDevices \/ Known(devices, py.got.short)
    BY <1>2 DEF AfterRead, IsDevice
<1> HIDE DEF next
<1>5. /\ load'.fresh = load.fresh /\ load'.todo = next.todo /\ load'.skipped = next.skipped
    BY <1>1, <1>4
<1>6. ToSet(load.todo) = {h} \cup ToSet(Tail(load.todo))
    BY <1>2, TailMembers
<1>7. Met \subseteq Met'
    BY <1>1, MetGrows
<1>8. ASSUME IsDevice(py.got), Len(devices) < MaxDevices \/ Known(devices, py.got.short)
      PROVE  files[h].ieee \in Met'
    <2>1. py.got \in Content /\ devices' = MergeLoaded(devices, py.got) /\ py.got = files[h]
        BY <1>1, <1>2, <1>3, <1>8 DEF Read, IsDevice
    <2>2. py.got.ieee \in Ieees(devices')
        BY <1>8, <2>1, MergeMeets DEF Typed
    <2>3. QED
        BY <2>1, <2>2 DEF Met
<1> HIDE DEF h
<1>9. Brought(load.skipped, load.todo)' <=>
         \A a \in Short : IsDevice(files[a]) =>
            files[a].ieee \in Met' \/ a \in next.skipped \/ a \in ToSet(next.todo)
    BY <1>1, <1>5 DEF Brought, IsDevice
<1>10. Brought(load.skipped, load.todo)'
    <2> SUFFICES ASSUME NEW a \in Short, IsDevice(files[a])
                 PROVE  files[a].ieee \in Met' \/ a \in next.skipped \/ a \in ToSet(next.todo)
        BY <1>9
    <2>1. files[a].ieee \in Met \/ a \in load.skipped \/ a \in ToSet(load.todo)
        BY <1>3 DEF Brought
    <2>2. CASE a = h
        BY <1>4, <1>6, <1>8, <2>2
    <2>3. CASE a # h
        BY <1>4, <1>6, <1>7, <2>1, <2>3
    <2>4. QED
        BY <2>2, <2>3
<1>11. QED
    BY <1>1, <1>10 DEF Bringing, Idle

LEMMA BringingRestart == ASSUME Restart PROVE Bringing'
<1>1. py'.do = "main" /\ load'.fresh = TRUE
    BY DEF Restart, Idle, FreshLoad, NoLoad
<1>2. QED
    BY <1>1 DEF Bringing

LEMMA BringingStep ==
    ASSUME IsFiniteSet(Short), Typed, Bringing, [Next]_vars PROVE Bringing'
<1>1. CASE ZigbeeTask \/ Program \/ FinishLoadDevice
    <2>1. UNCHANGED <<files, load>> /\ (Remember \/ UNCHANGED <<devices, left>>)
        BY <1>1 DEF ZigbeeTask, Join, Seen, AskSave, Listed, Described, Program, SaveDevice,
                    ProgramRemoves, LoadDevice, FinishLoadDevice, tableVars
    <2>2. UNCHANGED py \/ py'.do \notin {"write", "load_all"}
        <3>1. UNCHANGED py \/ (\E c : py' = [do |-> "load", got |-> c]) \/ py' = Idle
            BY <1>1 DEF ZigbeeTask, Join, Seen, AskSave, Listed, Described, Program, SaveDevice,
                        ProgramRemoves, LoadDevice, FinishLoadDevice
        <3>2. QED
            BY <3>1 DEF Idle
    <2>3. QED
        BY <2>1, <2>2, MetGrows, BringingKept
<1>2. ASSUME NEW a \in Short, RunSave(a) \/ RunRemove(a) PROVE Bringing'
    <2>1. UNCHANGED <<devices, left, files, load>>
        BY <1>2 DEF RunSave, RunRemove, tableVars
    <2>2. UNCHANGED py \/ py'.do \notin {"write", "load_all"}
        BY <1>2 DEF RunSave, RunRemove, Idle
    <2>3. QED
        BY <2>1, <2>2, MetGrows, BringingKept
<1>3. CASE StartJob
    BY <1>2, <1>3, BringingRun DEF StartJob
<1>4. CASE FinishJob
    BY <1>1, <1>4, BringingCopy, BringingWrite, BringingFinish DEF FinishJob
<1>5. CASE Restart
    BY <1>5, BringingRestart
<1>6. CASE UNCHANGED vars
    BY <1>6, MetGrows, BringingKept DEF vars
<1>7. QED
    BY <1>1, <1>3, <1>4, <1>5, <1>6 DEF Next

(* Only the end of a read completes the loading, and no name is left then.      *)
LEMMA CompletingStep ==
    ASSUME Typed, Bringing, [Next]_vars, load.phase = "on", load'.phase = "complete"
    PROVE  ~ load'.fresh /\ load'.todo = <<>>
<1>1. CASE FinishLoadAll
    <2> DEFINE next == AfterRead(py.got)
    <2>1. /\ next.phase = load.phase /\ next.fresh = load.fresh /\ ~ load.fresh
          /\ {"phase", "fresh", "todo"} \subseteq DOMAIN next
        BY <1>1 DEF FinishLoadAll, AfterRead, Bringing, Typed, TypedLoad
    <2>2. \/ next.todo = <<>> /\ load' = [next EXCEPT !.phase = "complete"]
          \/ load' = next \/ load' = [next EXCEPT !.phase = "dropped"]
        BY <1>1 DEF FinishLoadAll
    <2> HIDE DEF next
    <2>3. QED
        BY <2>1, <2>2
<1>2. CASE RunLoadAll
    <2>1. load'.phase \in {load.phase, "dropped"}
        BY <1>2 DEF RunLoadAll, Typed, TypedLoad
    <2>2. QED
        BY <2>1
<1>3. CASE Restart
    BY <1>3 DEF Restart, FreshLoad, NoLoad
<1>4. CASE UNCHANGED load
    BY <1>4
<1>5. CASE ZigbeeTask \/ Program \/ CopyToJson \/ WriteFile \/ FinishLoadDevice
    BY <1>4, <1>5 DEF ZigbeeTask, Join, Seen, AskSave, Listed, Described, Program, SaveDevice,
                      ProgramRemoves, LoadDevice, FinishLoadDevice, CopyToJson, WriteFile
<1>6. CASE \E a \in Short : RunSave(a) \/ RunRemove(a)
    BY <1>4, <1>6 DEF RunSave, RunRemove
<1>7. QED
    BY <1>1, <1>2, <1>3, <1>4, <1>5, <1>6 DEF Next, StartJob, FinishJob, vars

(* When a loading completes, the table knows every device that has a file, or   *)
(* the device left the table since, or the loading went past its file because   *)
(* that could not be listed, read, parsed or added: for any number of files,     *)
(* with devices that join, leave and are saved meanwhile, with reads and         *)
(* writes that fail and with look-ups that race.                             *)
THEOREM LoadingIsComplete ==
    ASSUME IsFiniteSet(Short) PROVE Spec => LoadBringsBackEveryFile
<1> DEFINE I == Typed /\ Bringing
           A == load.phase = "on" /\ load'.phase = "complete" =>
                   \A a \in Short : IsDevice(files[a]) =>
                      \/ files[a].ieee \in Ieees(devices') \cup left' \cup {NoIeee}
                      \/ a \in load'.skipped
<1>1. Init => I
    BY TypedInit DEF Init, Bringing, Idle, FreshLoad, NoLoad
<1>2. I /\ [Next]_vars => I'
    BY TypedStep, BringingStep
<1>3. I /\ [Next]_vars => [A]_vars
    <2> SUFFICES ASSUME I, [Next]_vars, load.phase = "on", load'.phase = "complete",
                        NEW a \in Short, IsDevice(files[a])
                 PROVE  files[a].ieee \in Met' \/ a \in load'.skipped
        BY DEF Met
    <2>1. ~ load'.fresh /\ load'.todo = <<>> /\ Brought(load.skipped, load.todo)'
        BY <1>2, CompletingStep DEF Bringing
    <2>2. UNCHANGED files
        <3>1. CASE Restart
            BY <3>1 DEF Restart, FreshLoad, NoLoad
        <3>2. CASE WriteFile
            BY <3>2 DEF WriteFile
        <3>3. CASE UNCHANGED vars
            BY <3>3 DEF vars
        <3>4. CASE ZigbeeTask \/ Program \/ StartJob
            BY <3>4 DEF ZigbeeTask, Join, Seen, AskSave, Listed, Described, Program, SaveDevice,
                        ProgramRemoves, LoadDevice, StartJob, RunLoadAll, RunSave, RunRemove
        <3>5. CASE CopyToJson \/ FinishLoadAll \/ FinishLoadDevice
            BY <3>5 DEF CopyToJson, FinishLoadAll, FinishLoadDevice
        <3>6. QED
            BY <3>1, <3>2, <3>3, <3>4, <3>5 DEF Next, FinishJob
    <2>3. a \notin ToSet(load'.todo)
        BY <2>1 DEF ToSet
    <2>4. QED
        BY <2>1, <2>2, <2>3 DEF Brought, IsDevice
<1> HIDE DEF I
<1>4. QED
    BY <1>1, <1>2, <1>3, PTL DEF Spec, LoadBringsBackEveryFile

--------------------------------------------------------------------------------
(* The files tell what the table tells.  What a step leaves of an address is    *)
(* an entry that tells the same, unless a save of the address is noted.         *)

DescribedIn(eps) == {q \in ToSet(eps) : q.clusters # {}}
Same(e, f) == e.short = f.short /\ e.ieee = f.ieee /\ DescribedIn(e.eps) = DescribedIn(f.eps)

(* What FilesTellTheTable says of the entry e of a, and what makes it last: a    *)
(* copy made before a change is on its way only if a later save is, too.        *)
Told(a, e) == Tells(files[a], e) \/ SavePending(a, e) \/ a \in unsaved
Noted(a) == a \in asks \/ <<"save", a>> \in ToSet(sched) \/ a \in unsaved
Traced(e) == e.short \in shared \/ Noted(e.short) \/ (py = Idle /\ Tells(files[e.short], e))
Overtaken(a, e) == py.do = "write" /\ py.name = a /\ ~ Tells(py.content, e)

AllTold ==
    /\ Twice(devices) \subseteq shared
    /\ \A a \in Shorts(devices) \ shared :
          LET e == devices[IndexOfShort(devices, a)]
          IN  Told(a, e) /\ (Overtaken(a, e) => Noted(a))
    /\ py.do \in {"load", "load_all"} /\ IsDevice(py.got) => py.got = files[py.got.short]

LEMMA TypedEntries ==
    ASSUME NEW t, Fits(t, DistinctLists)
    PROVE  t \in Seq(Entry) /\ DOMAIN t = 1..Len(t) /\ \A i \in 1..Len(t) : t[i] \in Entry
<1>1. t \in Seq(Entries(DistinctLists)) /\ \A i \in 1..Len(t) : t[i] \in Entry
    BY ElementOfSeq DEF Fits, Entries
<1>2. QED
    BY <1>1, LenProperties, SeqDef

LEMMA SameTells ==
    ASSUME NEW e, NEW f, Same(e, f), NEW c
    PROVE  Tells(c, e) <=> Tells(c, f)
BY DEF Same, Tells, DescribedEps, DescribedIn

(* The entry of an address that has only one.                               *)
LEMMA OnlyEntry ==
    ASSUME NEW t \in Seq(Entry), NEW a \in Short, a \notin Twice(t),
           NEW i \in 1..Len(t), t[i].short = a
    PROVE  IndexOfShort(t, a) = i
<1>1. /\ IndexOfShort(t, a) \in 1..Len(t) /\ t[IndexOfShort(t, a)].short = a
      /\ DOMAIN t = 1..Len(t)
    BY ShortLookup, LenProperties
<1>2. QED
    BY <1>1 DEF Twice

LEMMA FirstEntry ==
    ASSUME NEW t \in Seq(Entry), NEW a \in Shorts(t)
    PROVE  IndexOfShort(t, a) \in 1..Len(t) /\ t[IndexOfShort(t, a)].short = a /\ a \in Short
<1>1. PICK i \in 1..Len(t) : t[i].short = a
    BY LenProperties DEF Shorts
<1>2. t[i] \in Entry
    BY ElementOfSeq
<1>3. QED
    BY <1>1, <1>2, ShortLookup, LenProperties DEF Entry

(* What AllTold says of one address is kept if nothing it speaks of changes.    *)
LEMMA ToldKept ==
    ASSUME NEW a, NEW e, NEW f, Same(e, f), Told(a, f), Overtaken(a, f) => Noted(a),
           files'[a] = files[a], Noted(a) => Noted(a)',
           \/ UNCHANGED py
           \/ py.do \notin {"save", "write"} /\ py'.do \notin {"save", "write"}
    PROVE  Told(a, e)' /\ (Overtaken(a, e)' => Noted(a)')
<1>1. \A c : Tells(c, e) <=> Tells(c, f)
    BY SameTells
<1>2. Told(a, e) /\ (Overtaken(a, e) => Noted(a))
    BY <1>1 DEF Told, Overtaken, SavePending
<1>3. CASE UNCHANGED py
    BY <1>2, <1>3 DEF Told, Overtaken, Noted, SavePending, Tells, IsDevice
<1>4. CASE py.do \notin {"save", "write"} /\ py'.do \notin {"save", "write"}
    BY <1>2, <1>4 DEF Told, Overtaken, Noted, SavePending, Tells, IsDevice
<1>5. QED
    BY <1>3, <1>4

(* The table changes: each entry that is left tells what one of its address did, *)
(* or a save of it is noted, or a file tells it.                              *)
LEMMA ToldChange ==
    ASSUME Typed, Typed', AllTold, Remember, UNCHANGED files,
           UNCHANGED py \/ (py.do \in {"load", "load_all"} /\ py' = Idle),
           asks \subseteq asks', ToSet(sched) \subseteq ToSet(sched'), unsaved \subseteq unsaved',
           \A k \in 1..Len(devices'), e \in Entry :
              e = devices'[k] => Traced(e)' \/ \E j \in 1..Len(devices) : Same(e, devices[j])
    PROVE  AllTold'
<1>1. /\ devices \in Seq(Entry) /\ DOMAIN devices = 1..Len(devices)
      /\ devices' \in Seq(Entry) /\ DOMAIN devices' = 1..Len(devices')
      /\ \A k \in 1..Len(devices') : devices'[k] \in Entry
    BY TypedEntries DEF Typed
<1>2. Twice(devices') \subseteq shared' /\ shared \subseteq shared'
    BY DEF Remember
<1>3. ASSUME NEW a \in Shorts(devices') \ shared'
      PROVE  (Told(a, devices[IndexOfShort(devices, a)])
              /\ (Overtaken(a, devices[IndexOfShort(devices, a)]) => Noted(a)))'
    <2>1. PICK k \in 1..Len(devices') : k = IndexOfShort(devices', a)
        BY <1>1, <1>3, FirstEntry
    <2>2. PICK e \in Entry : e = devices'[k]
        BY <1>1
    <2>3. e.short = a /\ a \in Short
        BY <1>1, <1>3, <2>1, <2>2, FirstEntry
    <2>4. CASE Noted(a)'
        BY <2>4 DEF Told, Noted, Overtaken, SavePending
    <2>5. CASE (py = Idle /\ Tells(files[a], e))'
        <3>1. Tells(files[a], e)' /\ py'.do = "main"
            BY <2>5 DEF Idle
        <3>2. QED
            BY <2>1, <2>2, <3>1 DEF Told, Overtaken
    <2>6. CASE \E j \in 1..Len(devices) : Same(e, devices[j])
        <3>1. PICK j \in 1..Len(devices) : Same(e, devices[j])
            BY <2>6
        <3>2. devices[j].short = a
            BY <2>3, <3>1 DEF Same
        <3>3. IndexOfShort(devices, a) = j
            BY <1>1, <1>2, <1>3, <2>3, <3>2, OnlyEntry DEF AllTold
        <3>4. a \in Shorts(devices) \ shared
            BY <1>1, <1>2, <1>3, <3>2 DEF Shorts
        <3>5. PICK f : f = devices[j]
            OBVIOUS
        <3>6. Same(e, f) /\ Told(a, f) /\ (Overtaken(a, f) => Noted(a))
            BY <3>1, <3>3, <3>4, <3>5 DEF AllTold
        <3>7. Noted(a) => Noted(a)'
            BY DEF Noted
        <3>8. UNCHANGED py \/ (py.do \notin {"save", "write"} /\ py'.do \notin {"save", "write"})
            BY DEF Idle
        <3>9. files'[a] = files[a]
            OBVIOUS
        <3>10. Told(a, e)' /\ (Overtaken(a, e)' => Noted(a)')
            BY <3>6, <3>7, <3>8, <3>9, ToldKept
        <3>11. QED
            BY <2>1, <2>2, <3>10 DEF Told, Overtaken, SavePending, Tells
    <2>7. Traced(e)' \/ \E j \in 1..Len(devices) : Same(e, devices[j])
        BY <2>1, <2>2
    <2>8. Traced(e)' => Noted(a)' \/ (py = Idle /\ Tells(files[a], e))'
        BY <1>3, <2>3 DEF Traced
    <2>9. QED
        BY <2>4, <2>5, <2>6, <2>7, <2>8
<1>4. (py.do \in {"load", "load_all"} /\ IsDevice(py.got) => py.got = files[py.got.short])'
    BY DEF AllTold, IsDevice, Idle
<1>5. QED
    BY <1>2, <1>3, <1>4 DEF AllTold

--------------------------------------------------------------------------------
(* What the calls leave of the table.                                       *)

LEMMA SameSelf == \A e : Same(e, e)
BY DEF Same

LEMMA DeleteLeaves ==
    ASSUME NEW t \in Seq(Entry), NEW a, NEW k \in 1..Len(Delete(t, a))
    PROVE  \E j \in 1..Len(t) : Delete(t, a)[k] = t[j]
<1> DEFINE c == IndexOfShort(t, a)
<1>1. /\ c = 0 => Delete(t, a) = t
      /\ c # 0 => /\ Len(Delete(t, a)) = Len(t) - 1
                  /\ \A j \in 1..(Len(t) - 1) :
                        Delete(t, a)[j] = IF j < c THEN t[j] ELSE t[j + 1]
      /\ Len(t) \in Nat
    BY DeleteShifts, LenProperties
<1> HIDE DEF c
<1>2. CASE c = 0
    BY <1>1, <1>2
<1>3. CASE c # 0
    <2>1. k \in 1..(Len(t) - 1) /\ k \in 1..Len(t) /\ k + 1 \in 1..Len(t)
        BY <1>1, <1>3
    <2>2. QED
        BY <1>1, <1>3, <2>1
<1>4. QED
    BY <1>2, <1>3

LEMMA WriteLeaves ==
    ASSUME NEW t \in Seq(Entry), NEW i \in 1..Len(t), NEW n,
           NEW k \in 1..Len([t EXCEPT ![i] = n])
    PROVE  Len([t EXCEPT ![i] = n]) = Len(t)
           /\ [t EXCEPT ![i] = n][k] = IF k = i THEN n ELSE t[k]
<1>1. t \in Seq(Entry \cup {n})
    BY LenProperties, ElementOfSeq, SeqDef
<1>2. QED
    BY <1>1, ExceptSeq

LEMMA AppendLeaves ==
    ASSUME NEW t \in Seq(Entry), NEW n, NEW k \in 1..Len(Append(t, n))
    PROVE  /\ Len(Append(t, n)) = Len(t) + 1 /\ Len(t) \in Nat
           /\ Append(t, n)[k] = IF k = Len(t) + 1 THEN n ELSE t[k]
<1>1. t \in Seq(Entry \cup {n})
    BY LenProperties, ElementOfSeq, SeqDef
<1>2. QED
    BY <1>1, AppendProperties, LenProperties

(* After a call that names a, every entry of another address was there before.   *)
LEMMA AddLeaves ==
    ASSUME NEW t \in Seq(Entry), NEW a, NEW x, NEW k \in 1..Len(Add(t, a, x))
    PROVE  Add(t, a, x)[k].short = a \/ \E j \in 1..Len(t) : Add(t, a, x)[k] = t[j]
<1>1. CASE IndexOfIeee(t, x) = 0
    <2> DEFINE n == NewEntry(a, x)
    <2>1. n.short = a
        BY DEF NewEntry
    <2> HIDE DEF n
    <2>2. Add(t, a, x) = t \/ Add(t, a, x) = Append(t, n)
        BY <1>1 DEF Add, Create, n
    <2>3. CASE Add(t, a, x) = t
        BY <2>3
    <2>4. CASE Add(t, a, x) = Append(t, n)
        <3>1. k \in 1..Len(Append(t, n))
            BY <2>4
        <3>2. /\ Len(Append(t, n)) = Len(t) + 1 /\ Len(t) \in Nat
              /\ Append(t, n)[k] = IF k = Len(t) + 1 THEN n ELSE t[k]
            BY <3>1, AppendLeaves
        <3>3. k = Len(t) + 1 \/ k \in 1..Len(t)
            BY <3>1, <3>2
        <3>4. QED
            BY <2>1, <2>4, <3>2, <3>3
    <2>5. QED
        BY <2>2, <2>3, <2>4
<1>2. CASE IndexOfIeee(t, x) # 0
    <2>1. PICK i \in 1..Len(t) : i = IndexOfIeee(t, x)
        BY <1>2, IeeeLookup, LenProperties
    <2> DEFINE u == IF t[i].short = a THEN t ELSE Delete(t, a)
               n == [u[i] EXCEPT !.short = a, !.active = TRUE]
    <2>2. Add(t, a, x) = IF i > Len(u) THEN u ELSE [u EXCEPT ![i] = n]
        BY <1>2, <2>1 DEF Add, Rejoin
    <2>3. u \in Seq(Entry) /\ Len(u) \in Nat
        BY DeleteShifts, LenProperties
    <2>4. \A l \in 1..Len(u) : \E j \in 1..Len(t) : u[l] = t[j]
        BY DeleteLeaves
    <2>5. ASSUME i \in 1..Len(u) PROVE n.short = a
        <3>1. u[i] \in Entry
            BY <2>3, <2>5, ElementOfSeq
        <3> HIDE DEF u
        <3>2. QED
            BY <3>1 DEF Entry
    <2> HIDE DEF u, n
    <2>6. CASE i > Len(u)
        BY <2>2, <2>4, <2>6
    <2>7. CASE ~ (i > Len(u))
        <3>1. Add(t, a, x) = [u EXCEPT ![i] = n] /\ i \in 1..Len(u)
            BY <2>2, <2>3, <2>7
        <3>2. k \in 1..Len([u EXCEPT ![i] = n])
            BY <3>1
        <3>3. /\ Len([u EXCEPT ![i] = n]) = Len(u)
              /\ [u EXCEPT ![i] = n][k] = IF k = i THEN n ELSE u[k]
            BY <2>3, <3>1, <3>2, WriteLeaves
        <3>4. QED
            BY <2>4, <2>5, <3>1, <3>2, <3>3
    <2>8. QED
        BY <2>6, <2>7
<1>3. QED
    BY <1>1, <1>2

LEMMA ToldJoin ==
    ASSUME Typed, Typed', AllTold, NEW a \in Short, NEW x \in Ieee, Join(a, x) PROVE AllTold'
<1>1. /\ asks = {} /\ devices' = Add(devices, a, x) /\ Remember
      /\ UNCHANGED <<files, py, unsaved>>
      /\ asks' = IF AddFails(devices, x) THEN {} ELSE {a}
      /\ sched' = sched \/ sched' = Append(sched, <<"remove", a>>)
    BY DEF Join, AddDevice, MayChange
<1>2. ToSet(sched) \subseteq ToSet(sched')
    <2>1. <<"remove", a>> \in Job /\ sched \in Seq(Job)
        BY DEF Job, Typed, TypedSched
    <2>2. ToSet(Append(sched, <<"remove", a>>)) = ToSet(sched) \cup {<<"remove", a>>}
        BY <2>1, AppendMembers, Zenon
    <2>3. QED
        BY <1>1, <2>2
<1>3. ASSUME NEW k \in 1..Len(devices'), NEW e \in Entry, e = devices'[k]
      PROVE  Traced(e)' \/ \E j \in 1..Len(devices) : Same(e, devices[j])
    <2>1. CASE AddFails(devices, x)
        <3>1. devices' = devices
            BY <1>1, <2>1 DEF AddFails, Add, Create
        <3>2. QED
            BY <1>3, <3>1, SameSelf
    <2>2. CASE ~ AddFails(devices, x)
        <3>1. e.short = a \/ \E j \in 1..Len(devices) : e = devices[j]
            BY <1>1, <1>3, AddLeaves, TypedEntries DEF Typed
        <3>2. a \in asks'
            BY <1>1, <2>2
        <3>3. QED
            BY <3>1, <3>2, SameSelf DEF Noted, Traced
    <2>3. QED
        BY <2>1, <2>2
<1>4. UNCHANGED files /\ UNCHANGED py /\ asks \subseteq asks' /\ unsaved \subseteq unsaved'
    BY <1>1
<1>5. QED
    BY <1>1, <1>2, <1>3, <1>4, ToldChange

(* An endpoint that is only listed tells nothing.                            *)
LEMMA ListedTellsNothing ==
    ASSUME NEW eps \in Seq(Endpoint), NEW q \in Endpoint, q.clusters = {}
    PROVE  DescribedIn(Append(eps, q)) = DescribedIn(eps)
<1>1. ToSet(Append(eps, q)) = ToSet(eps) \cup {q}
    BY AppendMembers
<1>2. QED
    BY <1>1 DEF DescribedIn

(* The endpoint list of an entry changes.                                   *)
LEMMA EpsLeave ==
    ASSUME NEW t \in Seq(Entry), NEW i \in 1..Len(t), NEW eps,
           NEW k \in 1..Len([t EXCEPT ![i].eps = eps])
    PROVE  LET u == [t EXCEPT ![i].eps = eps]
           IN  /\ Len(u) = Len(t)
               /\ u[k].short = t[k].short /\ u[k].ieee = t[k].ieee
               /\ u[k].eps = IF k = i THEN eps ELSE t[k].eps
<1> DEFINE n == [t[i] EXCEPT !.eps = eps]
<1>1. t[i] \in Entry
    BY ElementOfSeq
<1>2. n.short = t[i].short /\ n.ieee = t[i].ieee /\ n.eps = eps
    BY <1>1 DEF Entry
<1>3. [t EXCEPT ![i].eps = eps] = [t EXCEPT ![i] = n]
    OBVIOUS
<1> HIDE DEF n
<1>4. k \in 1..Len([t EXCEPT ![i] = n])
    BY <1>3, Zenon
<1>5. /\ Len([t EXCEPT ![i] = n]) = Len(t)
      /\ [t EXCEPT ![i] = n][k] = IF k = i THEN n ELSE t[k]
    BY <1>4, WriteLeaves
<1>6. QED
    BY <1>2, <1>3, <1>5

LEMMA ToldEntryChange ==
    ASSUME Typed, Typed', AllTold, NEW a \in Short,
           \/ Seen(a)
           \/ \E n \in EpId : Listed(a, n)
           \/ \E k \in 1..MaxEndpoints, cs \in SUBSET Cluster : Described(a, k, cs)
    PROVE  AllTold'
<1> DEFINE i == IndexOfShort(devices, a)
<1>1. /\ asks = {} /\ Remember /\ UNCHANGED <<files, py, sched>> /\ unsaved \subseteq unsaved'
    BY DEF Seen, Listed, Described, MayChange, requestVars
<1>2. /\ devices \in Seq(Entry)
      /\ i # 0 => i \in 1..Len(devices) /\ devices[i].short = a /\ devices[i] \in Entry
    BY TypedEntries, ShortLookup, LenProperties DEF Typed
<1>3. ASSUME NEW k \in 1..Len(devices'), NEW e \in Entry, e = devices'[k]
      PROVE  Traced(e)' \/ \E j \in 1..Len(devices) : Same(e, devices[j])
    <2>1. CASE Seen(a)
        <3> DEFINE n == [devices[i] EXCEPT !.active = TRUE]
        <3>1. i # 0 /\ devices' = [devices EXCEPT ![i] = n] /\ asks' = {a}
            BY <2>1 DEF Seen, TouchDevice, Touch, Known
        <3>2. n.short = a
            <4>1. devices[i] \in Entry
                BY <1>2, <3>1, ElementOfSeq
            <4>2. QED
                BY <1>2, <3>1, <4>1 DEF Entry
        <3> HIDE DEF i, n
        <3>3. k \in 1..Len([devices EXCEPT ![i] = n])
            BY <1>3, <3>1, Zenon
        <3>4. /\ Len([devices EXCEPT ![i] = n]) = Len(devices)
              /\ [devices EXCEPT ![i] = n][k] = IF k = i THEN n ELSE devices[k]
            BY <1>2, <3>1, <3>3, WriteLeaves
        <3>5. QED
            BY <1>3, <3>1, <3>2, <3>3, <3>4, SameSelf DEF Noted, Traced
    <2>2. ASSUME NEW n \in EpId, Listed(a, n)
          PROVE  \E j \in 1..Len(devices) : Same(e, devices[j])
        <3> DEFINE q == [id |-> n, clusters |-> {}]
                   eps == Append(devices[i].eps, q)
        <3>1. i # 0 /\ devices' = [devices EXCEPT ![i].eps = eps]
            BY <2>2 DEF Listed
        <3>2. DescribedIn(eps) = DescribedIn(devices[i].eps)
            <4>1. devices[i].eps \in Seq(Endpoint)
                BY <1>2, <3>1 DEF Entry
            <4>2. q \in Endpoint /\ q.clusters = {}
                BY DEF Endpoint
            <4> HIDE DEF i, q
            <4>3. QED
                BY <4>1, <4>2, ListedTellsNothing
        <3> HIDE DEF i, eps
        <3>3. k \in 1..Len([devices EXCEPT ![i].eps = eps])
            BY <1>3, <3>1, Zenon
        <3>4. /\ Len(devices') = Len(devices)
              /\ devices'[k].short = devices[k].short /\ devices'[k].ieee = devices[k].ieee
              /\ devices'[k].eps = IF k = i THEN eps ELSE devices[k].eps
            BY <1>2, <3>1, <3>3, EpsLeave
        <3>5. QED
            BY <1>3, <3>2, <3>4 DEF Same
    <2>3. ASSUME NEW m \in 1..MaxEndpoints, NEW cs \in SUBSET Cluster, Described(a, m, cs)
          PROVE  Traced(e)' \/ \E j \in 1..Len(devices) : Same(e, devices[j])
        <3> DEFINE eps == [devices[i].eps EXCEPT ![m].clusters = cs]
        <3>1. /\ i # 0 /\ devices' = [devices EXCEPT ![i].eps = eps]
              /\ a \in asks' \/ a \in unsaved'
            BY <2>3 DEF Described
        <3> HIDE DEF i, eps
        <3>2. k \in 1..Len([devices EXCEPT ![i].eps = eps])
            BY <1>3, <3>1, Zenon
        <3>3. /\ Len(devices') = Len(devices)
              /\ devices'[k].short = devices[k].short /\ devices'[k].ieee = devices[k].ieee
              /\ devices'[k].eps = IF k = i THEN eps ELSE devices[k].eps
            BY <1>2, <3>1, <3>2, EpsLeave
        <3>4. CASE k = i
            BY <1>2, <1>3, <3>1, <3>3, <3>4 DEF Noted, Traced
        <3>5. CASE k # i
            BY <1>3, <3>3, <3>5 DEF Same
        <3>6. QED
            BY <3>4, <3>5
    <2>4. QED
        BY <2>1, <2>2, <2>3
<1>4. UNCHANGED files /\ UNCHANGED py /\ asks \subseteq asks' /\ ToSet(sched) \subseteq ToSet(sched')
    BY <1>1
<1>5. QED
    BY <1>1, <1>3, <1>4, ToldChange

LEMMA ToldProgramRemoves ==
    ASSUME Typed, Typed', AllTold, NEW a \in Short, ProgramRemoves(a) PROVE AllTold'
<1>1. /\ devices' = Delete(devices, a) /\ Remember /\ UNCHANGED <<asks, sched, unsaved, files, py>>
    BY DEF ProgramRemoves, RemoveDevice, requestVars
<1>2. ASSUME NEW k \in 1..Len(devices'), NEW e \in Entry, e = devices'[k]
      PROVE  \E j \in 1..Len(devices) : Same(e, devices[j])
    BY <1>1, <1>2, DeleteLeaves, TypedEntries, SameSelf DEF Typed
<1>3. /\ UNCHANGED files /\ UNCHANGED py
      /\ asks \subseteq asks' /\ ToSet(sched) \subseteq ToSet(sched') /\ unsaved \subseteq unsaved'
    BY <1>1
<1>4. QED
    BY <1>1, <1>2, <1>3, ToldChange

(* A request for a save leaves the save in the scheduler, or the refusal noted.  *)
LEMMA ToldRequest ==
    ASSUME Typed, AllTold, NEW a \in Short, AskSave(a) \/ SaveDevice(a) PROVE AllTold'
<1>1. /\ RequestSave(a) /\ UNCHANGED <<devices, shared, files, py>> /\ asks \ {a} \subseteq asks'
    BY DEF AskSave, SaveDevice, tableVars
<1>2. Jobs = Job
    BY DEF Jobs, Job
<1>3. /\ ToSet(sched) \subseteq ToSet(sched') /\ unsaved \subseteq unsaved'
      /\ Known(devices, a) => <<"save", a>> \in ToSet(sched') \/ a \in unsaved'
    BY <1>1, <1>2, SaveRequested DEF Typed, TypedSched
<1>4. ASSUME NEW b \in Shorts(devices) \ shared, NEW e, e = devices[IndexOfShort(devices, b)]
      PROVE  Told(b, e)' /\ (Overtaken(b, e)' => Noted(b)')
    <2>1. CASE b = a
        <3>1. Known(devices, a)
            BY <1>4, <2>1, TypedEntries, FirstEntry DEF Known, Typed
        <3>2. <<"save", b>> \in ToSet(sched') \/ b \in unsaved'
            BY <1>3, <2>1, <3>1
        <3>3. QED
            BY <3>2 DEF Told, Noted, SavePending
    <2>2. CASE b # a
        <3>1. Told(b, e) /\ (Overtaken(b, e) => Noted(b))
            BY <1>4 DEF AllTold
        <3>2. Noted(b) => Noted(b)'
            BY <1>1, <1>3, <2>2 DEF Noted
        <3>3. files'[b] = files[b] /\ UNCHANGED py /\ Same(e, e)
            BY <1>1, SameSelf
        <3>4. QED
            BY <3>1, <3>2, <3>3, ToldKept
    <2>3. QED
        BY <2>1, <2>2
<1>5. QED
    BY <1>1, <1>4 DEF AllTold, IsDevice, Twice, Told, Overtaken, SavePending, Tells


--------------------------------------------------------------------------------
(* What the jobs leave.                                                     *)

(* A job that is no save leaves, and the Python thread takes up something.     *)
LEMMA ToldOtherJob ==
    ASSUME Typed, AllTold, NEW job, Starts(job), \A b : job # <<"save", b>>,
           UNCHANGED <<devices, shared, asks, files, unsaved>>,
           py' = Idle \/ py'.do = "load_all",
           (py.do = "load_all" /\ IsDevice(py.got) => py.got = files[py.got.short])'
    PROVE  AllTold'
<1>1. py = Idle /\ py.do = "main" /\ ToSet(sched) = {job} \cup ToSet(sched')
    BY TailMembers DEF Starts, Typed, TypedSched, Idle
<1>2. \A b : Noted(b) => Noted(b)'
    BY <1>1 DEF Noted
<1>3. py.do \notin {"save", "write"} /\ py'.do \notin {"save", "write", "load"}
    BY <1>1 DEF Idle
<1>4. ASSUME NEW b \in Shorts(devices) \ shared, NEW e, e = devices[IndexOfShort(devices, b)]
      PROVE  Told(b, e)' /\ (Overtaken(b, e)' => Noted(b)')
    <2>1. Told(b, e) /\ (Overtaken(b, e) => Noted(b)) /\ Same(e, e)
        BY <1>4, SameSelf DEF AllTold
    <2>2. files'[b] = files[b] /\ (Noted(b) => Noted(b)')
        BY <1>2
    <2>3. QED
        BY <1>3, <2>1, <2>2, ToldKept
<1>5. QED
    BY <1>3, <1>4 DEF AllTold, IsDevice, Twice, Told, Overtaken, SavePending, Tells

LEMMA ToldRunRemove == ASSUME Typed, AllTold, NEW a \in Short, RunRemove(a) PROVE AllTold'
<1>1. /\ Starts(<<"remove", a>>) /\ UNCHANGED <<devices, shared, asks, files, unsaved, py>>
      /\ \A b : <<"remove", a>> # <<"save", b>>
    BY DEF RunRemove, tableVars
<1>2. py' = Idle /\ py'.do = "main"
    BY <1>1 DEF Starts, Idle
<1>3. QED
    BY <1>1, <1>2, ToldOtherJob

LEMMA ToldRunSave == ASSUME Typed, AllTold, NEW a \in Short, RunSave(a) PROVE AllTold'
<1>1. /\ py = Idle /\ py.do = "main" /\ ToSet(sched) = {<<"save", a>>} \cup ToSet(sched')
      /\ UNCHANGED <<devices, shared, asks, files, unsaved>>
    BY TailMembers DEF RunSave, Starts, Typed, TypedSched, Idle, tableVars
<1>2. py' = IF Known(devices, a)
            THEN [do |-> "save", name |-> a, slot |-> IndexOfShort(devices, a)]
            ELSE Idle
    BY DEF RunSave
<1>3. py'.do \notin {"write", "load", "load_all"}
    BY <1>2 DEF Idle
<1>4. ASSUME NEW b \in Shorts(devices) \ shared, NEW e, e = devices[IndexOfShort(devices, b)]
      PROVE  Told(b, e)'
    <2>1. CASE b = a
        <3>1. Known(devices, a)
            BY <1>4, <2>1, TypedEntries, FirstEntry DEF Known, Typed
        <3>2. py'.do = "save" /\ py'.name = a
            BY <1>2, <3>1
        <3>3. QED
            BY <2>1, <3>2 DEF Told, SavePending
    <2>2. CASE b # a
        <3>1. Told(b, e)
            BY <1>4 DEF AllTold
        <3>2. <<"save", b>> \in ToSet(sched) => <<"save", b>> \in ToSet(sched')
            BY <1>1, <2>2
        <3>3. QED
            BY <1>1, <3>1, <3>2 DEF Told, SavePending, Tells, IsDevice
    <2>3. QED
        BY <2>1, <2>2
<1>5. QED
    BY <1>1, <1>3, <1>4 DEF AllTold, Twice, Told, Overtaken, SavePending, Tells, IsDevice

(* The copy tells the entry, and the only one of its address if the address     *)
(* is no longer shared.                                                     *)
LEMMA ToldCopy == ASSUME KeepsStill, Typed, Inv, AllTold, CopyToJson PROVE AllTold'
<1>1. /\ py.do = "save" /\ unsaved' = unsaved \ {py.name}
      /\ shared' = shared \ ({py.name} \ Twice(devices))
      /\ UNCHANGED <<devices, asks, sched, files>>
    BY DEF CopyToJson
<1>2. PICK k : k = py.slot
    OBVIOUS
<1>3. PICK n : n = py.name
    OBVIOUS
<1>4. /\ devices \in Seq(Entry) /\ n \in Short /\ k \in 1..Len(devices)
      /\ devices[k].short = n /\ k \in DOMAIN devices
    BY <1>1, <1>2, <1>3, TypedEntries DEF Typed, Inv, InHand
<1>5. py' = [do |-> "write", name |-> n, content |-> ToJson(devices[k])]
    BY <1>2, <1>3, <1>4 DEF CopyToJson, Slot
<1>6. ASSUME NEW b \in Shorts(devices) \ shared', NEW e, e = devices[IndexOfShort(devices, b)]
      PROVE  Told(b, e)' /\ (Overtaken(b, e)' => Noted(b)')
    <2>1. CASE b = n
        <3>1. b \notin Twice(devices)
            BY <1>1, <1>3, <1>6, <2>1 DEF AllTold
        <3>2. e = devices[k]
            BY <1>4, <1>6, <2>1, <3>1, OnlyEntry
        <3>3. Tells(ToJson(e), e)
            BY DEF Tells, ToJson, IsDevice, DescribedEps, KeepsStill
        <3>4. Tells(py.content, e)'
            BY <1>5, <3>2, <3>3 DEF Tells, IsDevice
        <3>5. QED
            BY <1>5, <2>1, <3>4 DEF Told, Overtaken, SavePending
    <2>2. CASE b # n
        <3>1. Told(b, e)
            BY <1>1, <1>3, <1>6, <2>2 DEF AllTold
        <3>2. QED
            BY <1>1, <1>3, <1>5, <2>2, <3>1 DEF Told, Overtaken, SavePending, Tells, IsDevice
    <2>3. QED
        BY <2>1, <2>2
<1>7. Twice(devices') \subseteq shared'
    BY <1>1 DEF AllTold, Twice
<1>8. QED
    BY <1>1, <1>5, <1>6, <1>7 DEF AllTold, Told, Overtaken, SavePending, Tells, IsDevice

LEMMA ToldWrite == ASSUME Typed, AllTold, WriteFile PROVE AllTold'
<1>1. /\ py.do = "write" /\ py' = Idle /\ py'.do = "main"
      /\ UNCHANGED <<devices, shared, asks, sched>>
    BY DEF WriteFile, Idle, tableVars
<1>2. py.name \in Short /\ DOMAIN files = Short
    BY <1>1, HandHolds DEF Typed, TypedFiles
<1>3. /\ \A b \in Short \ {py.name} : files'[b] = files[b]
      /\ \/ files'[py.name] = py.content /\ unsaved' = unsaved
         \/ unsaved' = unsaved \cup {py.name}
    BY <1>2 DEF WriteFile
<1>4. ASSUME NEW b \in Shorts(devices) \ shared, NEW e, e = devices[IndexOfShort(devices, b)]
      PROVE  Told(b, e)'
    <2>1. Told(b, e) /\ (Overtaken(b, e) => Noted(b)) /\ b \in Short
        BY <1>4, TypedEntries, FirstEntry DEF AllTold, Typed
    <2>2. CASE b # py.name
        BY <1>1, <1>3, <2>1, <2>2 DEF Told, SavePending, Tells, IsDevice
    <2>3. CASE b = py.name /\ unsaved' = unsaved \cup {py.name}
        BY <2>3 DEF Told
    <2>4. CASE b = py.name /\ files'[py.name] = py.content /\ unsaved' = unsaved
        <3>1. CASE Tells(py.content, e)
            <4>1. Tells(files[b], e)'
                BY <2>4, <3>1 DEF Tells, IsDevice
            <4>2. QED
                BY <4>1 DEF Told
        <3>2. CASE ~ Tells(py.content, e)
            <4>1. Noted(b)
                BY <1>1, <2>1, <2>4, <3>2 DEF Overtaken
            <4>2. QED
                BY <1>1, <2>4, <4>1 DEF Told, Noted, SavePending
        <3>3. QED
            BY <3>1, <3>2
    <2>5. QED
        BY <1>3, <2>2, <2>3, <2>4
<1>5. QED
    BY <1>1, <1>4 DEF AllTold, Twice, Told, Overtaken, SavePending, Tells, IsDevice

LEMMA ToldLoadDevice ==
    ASSUME Inv, AllTold, NEW a \in Short, LoadDevice(a) PROVE AllTold'
<1>1. py = Idle /\ py.do = "main" /\ UNCHANGED <<devices, shared, asks, sched, files, unsaved>>
    BY DEF LoadDevice, Idle, tableVars, requestVars
<1>2. PICK c \in {files[a], NoFile} : py' = [do |-> "load", got |-> c]
    BY DEF LoadDevice, Readable
<1>3. IsDevice(c) => c = files[c.short]
    BY <1>2 DEF IsDevice, Inv, FilesNameTheirDevice
<1>4. ASSUME NEW b \in Shorts(devices) \ shared, NEW e, e = devices[IndexOfShort(devices, b)]
      PROVE  Told(b, e)'
    <2>1. Told(b, e)
        BY <1>4 DEF AllTold
    <2>2. QED
        BY <1>1, <2>1 DEF Told, SavePending, Tells, IsDevice
<1>5. QED
    BY <1>1, <1>2, <1>3, <1>4
    DEF AllTold, Twice, Told, Overtaken, SavePending, Tells, IsDevice

LEMMA ToldRunLoadAll == ASSUME KeepsStill, Typed, Inv, AllTold, RunLoadAll PROVE AllTold'
<1>1. /\ Starts(<<"load">>) /\ UNCHANGED <<devices, shared, asks, files, unsaved>>
      /\ \A b : <<"load">> # <<"save", b>>
    BY DEF RunLoadAll, tableVars
<1>2. PICK names \in Seq(Short) :
          IF names = <<>> THEN UNCHANGED py
          ELSE \E c \in {files[Head(names)], NoFile, Corrupt} :
                  py' = [do |-> "load_all", got |-> c]
    BY NamesToLoad DEF KeepsStill, Typed, TypedLoad
<1>3. /\ py' = Idle \/ py'.do = "load_all"
      /\ (py.do = "load_all" /\ IsDevice(py.got) => py.got = files[py.got.short])'
    <2>1. CASE names = <<>>
        <3>1. py' = Idle /\ py'.do = "main"
            BY <1>1, <1>2, <2>1 DEF Starts, Idle
        <3>2. QED
            BY <3>1
    <2>2. CASE names # <<>>
        <3>1. PICK c \in {files[Head(names)], NoFile, Corrupt} :
                 py' = [do |-> "load_all", got |-> c]
            BY <1>2, <2>2
        <3>2. IsDevice(c) => c = files[c.short]
            BY <2>2, <3>1, TailMembers DEF IsDevice, Inv, FilesNameTheirDevice
        <3>3. QED
            BY <1>1, <3>1, <3>2 DEF IsDevice
    <2>3. QED
        BY <2>1, <2>2
<1>4. QED
    BY <1>1, <1>3, ToldOtherJob

--------------------------------------------------------------------------------
(* What a merge leaves.                                                     *)

(* Merging an endpoint neither adds nor changes a described one, if those of    *)
(* its number in both lists are the same.                                   *)
LEMMA DescribedSameOne ==
    ASSUME NEW eps \in DistinctLists, NEW q \in Endpoint,
           q.clusters # {} => q \in ToSet(eps),
           \A p \in ToSet(eps) : p.clusters # {} /\ p.id = q.id => p = q
    PROVE  DescribedIn(MergeEndpoint(eps, q)) = DescribedIn(eps)
<1> DEFINE i == IndexOfEp(eps, q.id)
<1>1. eps \in Seq(Endpoint) /\ DOMAIN eps = 1..Len(eps) /\ DistinctEps(eps)
    BY LenProperties DEF DistinctLists, Capped
<1>2. /\ i \in 0..Len(eps) /\ (i # 0 => eps[i].id = q.id)
      /\ i = 0 <=> \A n \in 1..Len(eps) : eps[n].id # q.id
    BY <1>1, EpLookup
<1>3. MergeEndpoint(eps, q) = IF i # 0 THEN [eps EXCEPT ![i] = q]
                              ELSE IF Len(eps) < MaxEndpoints THEN Append(eps, q) ELSE eps
    BY DEF MergeEndpoint, ReplaceAt
<1> HIDE DEF i
<1>4. \A p : p \in ToSet(eps) <=> \E n \in 1..Len(eps) : p = eps[n]
    BY <1>1 DEF ToSet
<1>5. CASE i # 0
    <2> DEFINE u == [eps EXCEPT ![i] = q]
    <2>1. i \in 1..Len(eps)
        BY <1>1, <1>2, <1>5, LenProperties
    <2>2. /\ u \in Seq(Endpoint) /\ Len(u) = Len(eps)
          /\ \A n \in 1..Len(eps) : u[n] = IF n = i THEN q ELSE eps[n]
        BY <1>1, <2>1, ExceptSeq
    <2>3. DOMAIN u = 1..Len(eps)
        BY <2>2, LenProperties
    <2>4. MergeEndpoint(eps, q) = u
        BY <1>3, <1>5
    <2> HIDE DEF u
    <2>5. \A p : p \in ToSet(u) <=> \E n \in 1..Len(eps) : p = u[n]
        BY <2>3 DEF ToSet
    <2>6. CASE q.clusters # {}
        <3>1. PICK m \in 1..Len(eps) : eps[m] = q
            BY <1>4, <2>6
        <3>2. m = i
            BY <1>1, <1>2, <1>5, <2>1, <3>1 DEF DistinctEps
        <3>3. \A n \in 1..Len(eps) : u[n] = eps[n]
            BY <2>2, <3>1, <3>2
        <3>4. \A p : p \in ToSet(u) <=> p \in ToSet(eps)
            BY <1>4, <2>5, <3>3
        <3>5. QED
            BY <2>4, <3>4 DEF DescribedIn
    <2>7. CASE q.clusters = {}
        <3>1. eps[i].clusters = {}
            BY <1>2, <1>4, <1>5, <2>1, <2>7
        <3>2. \A p : p \in ToSet(u) /\ p.clusters # {} <=> p \in ToSet(eps) /\ p.clusters # {}
            BY <1>4, <2>1, <2>2, <2>5, <2>7, <3>1
        <3>3. QED
            BY <2>4, <3>2 DEF DescribedIn
    <2>8. QED
        BY <2>6, <2>7
<1>6. CASE i = 0
    <2>1. q.clusters = {}
        BY <1>2, <1>4, <1>6
    <2>2. MergeEndpoint(eps, q) = Append(eps, q) \/ MergeEndpoint(eps, q) = eps
        BY <1>3, <1>6
    <2>3. QED
        BY <1>1, <2>1, <2>2, ListedTellsNothing
<1>7. QED
    BY <1>5, <1>6

LEMMA DescribedSame ==
    ASSUME NEW eps \in DistinctLists, NEW new \in DistinctLists,
           DescribedIn(eps) = DescribedIn(new)
    PROVE  DescribedIn(MergeEndpoints(eps, new)) = DescribedIn(eps)
<1>1. /\ eps \in Capped /\ new \in Seq(Endpoint) /\ DistinctEps(new) /\ Len(new) \in Nat
      /\ DOMAIN new = 1..Len(new) /\ \A n \in 1..Len(new) : new[n] \in Endpoint
    BY LenProperties, ElementOfSeq DEF DistinctLists, Capped
<1>2. PICK f : /\ f[0] = eps /\ MergeEndpoints(eps, new) = f[Len(new)]
               /\ \A n \in 1..Len(new) : f[n] = MergeEndpoint(f[n - 1], new[n])
    BY <1>1, MergeLoop
<1> DEFINE Good(s) == s \in DistinctLists /\ DescribedIn(s) = DescribedIn(new)
           P == {n \in 0..Len(new) : Good(f[n])}
<1>3. 0 \in P
    BY <1>1, <1>2
<1>4. ASSUME NEW n \in 0..Len(new), n < Len(new), n \in P PROVE n + 1 \in P
    <2>1. n + 1 \in 1..Len(new) /\ n + 1 \in 0..Len(new) /\ (n + 1) - 1 = n
        BY <1>1, <1>4
    <2>2. PICK s : s = f[n] /\ Good(s)
        BY <1>4
    <2>3. PICK q \in Endpoint : q = new[n + 1]
        BY <1>1, <2>1
    <2>4. f[n + 1] = MergeEndpoint(s, q)
        BY <1>2, <2>1, <2>2, <2>3
    <2>5. q \in ToSet(new)
        BY <1>1, <2>1, <2>3 DEF ToSet
    <2>6. q.clusters # {} => q \in ToSet(s)
        BY <2>2, <2>5 DEF DescribedIn
    <2>7. ASSUME NEW p \in ToSet(s), p.clusters # {}, p.id = q.id PROVE p = q
        <3>1. p \in ToSet(new)
            BY <2>2, <2>7 DEF DescribedIn
        <3>2. PICK m \in 1..Len(new) : p = new[m]
            BY <1>1, <3>1 DEF ToSet
        <3>3. QED
            BY <1>1, <2>1, <2>3, <2>7, <3>2 DEF DistinctEps
    <2>8. DescribedIn(MergeEndpoint(s, q)) = DescribedIn(s)
        BY <2>2, <2>6, <2>7, DescribedSameOne
    <2>9. MergeEndpoint(s, q) \in DistinctLists
        BY <2>2, MergeOne DEF DistinctLists
    <2>10. Good(f[n + 1])
        BY <2>2, <2>4, <2>8, <2>9
    <2>11. QED
        BY <2>1, <2>10
<1> HIDE DEF P
<1>5. \A n \in 0..Len(new) : n \in P
    BY <1>1, <1>3, <1>4, CountingUp
<1>6. Good(f[Len(new)])
    BY <1>1, <1>5 DEF P
<1>7. QED
    BY <1>2, <1>6

(* A new entry, or none.                                                    *)
LEMMA CreateLeaves ==
    ASSUME NEW t \in Seq(Entry), NEW a, NEW x
    PROVE  LET u == Create(t, a, x)
           IN  \/ u = t
               \/ /\ Len(u) = Len(t) + 1 /\ u[Len(t) + 1].short = a /\ u[Len(t) + 1].eps = <<>>
                  /\ \A k \in 1..Len(t) : u[k] = t[k]
<1> DEFINE n == NewEntry(a, x)
<1>1. n.short = a /\ n.eps = <<>>
    BY DEF NewEntry
<1>2. Create(t, a, x) = t \/ Create(t, a, x) = Append(t, n)
    BY DEF Create
<1> HIDE DEF n
<1>3. t \in Seq(Entry \cup {n})
    BY LenProperties, ElementOfSeq, SeqDef
<1>4. /\ Len(Append(t, n)) = Len(t) + 1 /\ Append(t, n)[Len(t) + 1] = n
      /\ \A k \in 1..Len(t) : Append(t, n)[k] = t[k]
    BY <1>3, AppendProperties
<1>5. QED
    BY <1>1, <1>2, <1>4

(* A file is merged: into the table, or into the table with a new entry.        *)
LEMMA ToldMerge ==
    ASSUME Typed, Typed', AllTold, Remember, UNCHANGED files,
           py.do \in {"load", "load_all"}, py' = Idle, IsDevice(py.got),
           asks \subseteq asks', ToSet(sched) \subseteq ToSet(sched'), unsaved \subseteq unsaved',
           \/ devices' = Update(devices, FromJson(py.got))
           \/ devices' = MergeLoaded(devices, py.got)
    PROVE  AllTold'
<1>1. PICK c \in Content : c = py.got /\ c = files[c.short]
    BY HandHolds DEF Typed, Read, IsDevice, AllTold
<1>2. PICK g \in Entry : /\ g = FromJson(c)
                         /\ g.short = c.short /\ g.ieee = c.ieee /\ g.eps = c.eps
    BY ReadDevice, <1>1 DEF Read, IsDevice
<1>3. /\ c.eps \in DistinctLists /\ c.short \in Short /\ c.ieee \in Ieee
    BY DEF Content, Saved
<1>4. PICK t : /\ t = devices \/ t = Create(devices, c.short, c.ieee)
               /\ devices' = Update(t, g)
    BY <1>1, <1>2 DEF MergeLoaded
<1>5. Fits(t, DistinctLists) /\ Fits(devices, DistinctLists) /\ Fits(devices', DistinctLists)
    BY <1>3, <1>4, CreateKeeps, DistinctListsMerge DEF Typed
<1>6. /\ devices \in Seq(Entry) /\ DOMAIN devices = 1..Len(devices)
      /\ t \in Seq(Entry)
      /\ devices' \in Seq(Entry) /\ DOMAIN devices' = 1..Len(devices')
      /\ Len(devices) \in Nat
    BY <1>5, TypedEntries, LenProperties
<1>7. \/ t = devices
      \/ /\ Len(t) = Len(devices) + 1
         /\ t[Len(devices) + 1].short = c.short /\ t[Len(devices) + 1].eps = <<>>
         /\ \A k \in 1..Len(devices) : t[k] = devices[k]
    BY <1>4, <1>6, CreateLeaves
<1>8. PICK m : m = IndexOfShort(t, c.short)
    OBVIOUS
<1>9. /\ m \in 0..Len(t) /\ (m # 0 => t[m].short = c.short)
      /\ m = 0 <=> \A k \in 1..Len(t) : t[k].short # c.short
    BY <1>6, <1>8, ShortLookup
<1>10. /\ Len(devices') = Len(t)
       /\ \A k \in 1..Len(t) : devices'[k].short = t[k].short /\ (k # m => devices'[k] = t[k])
       /\ m # 0 => /\ m \in 1..Len(t) /\ devices'[m].ieee = c.ieee
                   /\ devices'[m].eps = MergeEndpoints(t[m].eps, c.eps)
    BY <1>2, <1>4, <1>5, <1>8, UpdateEntry
<1>11. Twice(devices') \subseteq shared' /\ shared \subseteq shared'
    BY DEF Remember
<1>12. ASSUME NEW k \in 1..Len(devices'), NEW e \in Entry, e = devices'[k]
       PROVE  Traced(e)' \/ \E j \in 1..Len(devices) : Same(e, devices[j])
    <2>1. k \in 1..Len(t) /\ e.short = t[k].short
        BY <1>10, <1>12
    <2>2. CASE e.short # c.short
        <3>1. k # m /\ e = t[k]
            BY <1>9, <1>10, <1>12, <2>1, <2>2
        <3>2. k \in 1..Len(devices) /\ e = devices[k]
            BY <1>6, <1>7, <2>1, <2>2, <3>1
        <3>3. QED
            BY <3>2, SameSelf
    <2>3. CASE e.short \in shared'
        BY <2>3 DEF Traced
    <2>4. CASE e.short = c.short /\ e.short \notin shared'
        <3>1. ASSUME NEW l \in 1..Len(t), t[l].short = c.short PROVE l = k
            <4>1. /\ devices'[l].short = c.short /\ devices'[k].short = c.short
                  /\ l \in DOMAIN devices' /\ k \in DOMAIN devices'
                BY <1>6, <1>10, <1>12, <2>1, <2>4, <3>1
            <4>2. c.short \notin Twice(devices')
                BY <1>11, <2>4
            <4>3. QED
                BY <1>3, <4>1, <4>2 DEF Twice
        <3>2. m = k
            BY <1>9, <1>10, <2>1, <2>4, <3>1
        <3>3. e.ieee = c.ieee /\ e.eps = MergeEndpoints(t[k].eps, c.eps)
            BY <1>9, <1>10, <1>12, <2>1, <3>2
        <3>4. CASE k \in 1..Len(devices)
            <4>1. t[k] = devices[k] /\ devices[k].short = c.short
                BY <1>7, <2>1, <2>4, <3>4
            <4>2. t = devices
                BY <1>6, <1>7, <2>1, <3>1, <3>4
            <4>3. IndexOfShort(devices, c.short) = k /\ c.short \in Shorts(devices) \ shared
                BY <1>6, <1>8, <1>11, <2>4, <3>2, <3>4, <4>1, <4>2 DEF Shorts
            <4>4. PICK d : d = devices[k]
                OBVIOUS
            <4>5. Told(c.short, d)
                BY <4>3, <4>4 DEF AllTold
            <4>6. Tells(c, d) \/ Noted(c.short)
                BY <1>1, <4>5 DEF Told, Noted, SavePending
            <4>7. CASE Noted(c.short)
                <5>1. Noted(e.short)'
                    BY <2>4, <4>7 DEF Noted
                <5>2. QED
                    BY <5>1 DEF Traced
            <4>8. CASE Tells(c, d)
                <5>1. d.eps \in DistinctLists
                    BY <1>5, <3>4, <4>4, ElementOfSeq DEF Fits, Entries
                <5>2. c.ieee = d.ieee /\ DescribedIn(d.eps) = DescribedIn(c.eps)
                    BY <4>8 DEF Tells, DescribedEps, DescribedIn
                <5>3. DescribedIn(e.eps) = DescribedIn(d.eps)
                    BY <1>3, <3>3, <4>1, <4>4, <5>1, <5>2, DescribedSame
                <5>4. QED
                    BY <2>4, <3>3, <3>4, <4>1, <4>4, <5>2, <5>3 DEF Same
            <4>9. QED
                BY <4>6, <4>7, <4>8
        <3>5. CASE k \notin 1..Len(devices)
            <4>1. t[k].eps = <<>>
                BY <1>6, <1>7, <2>1, <3>5
            <4>2. e.eps = c.eps
                BY <1>3, <3>3, <4>1, MergeIntoNothing
            <4>3. Tells(files[e.short], e)
                BY <1>1, <2>4, <3>3, <4>2 DEF Tells, IsDevice, DescribedEps
            <4>4. (py = Idle /\ Tells(files[e.short], e))'
                BY <4>3 DEF Tells, IsDevice
            <4>5. QED
                BY <4>4 DEF Traced
        <3>6. QED
            BY <3>4, <3>5
    <2>5. QED
        BY <2>2, <2>3, <2>4
<1>13. QED
    BY <1>12, ToldChange

LEMMA ToldFinishLoad ==
    ASSUME Typed, Typed', AllTold, FinishLoadDevice \/ FinishLoadAll PROVE AllTold'
<1>1. /\ py.do \in {"load", "load_all"} /\ py' = Idle /\ UNCHANGED <<files, asks, unsaved>> /\ Remember
      /\ IF py.got \in {NoFile, Corrupt} THEN devices' = devices
         ELSE \/ devices' = Update(devices, FromJson(py.got))
              \/ devices' = MergeLoaded(devices, py.got)
    BY DEF FinishLoadDevice, FinishLoadAll, requestVars
<1>2. ToSet(sched) \subseteq ToSet(sched')
    <2>1. sched' = sched \/ sched' = Append(sched, <<"load">>)
        BY DEF FinishLoadDevice, FinishLoadAll, requestVars
    <2>2. sched \in Seq(Job) /\ <<"load">> \in Job
        BY DEF Typed, TypedSched, Job
    <2>3. ToSet(Append(sched, <<"load">>)) = ToSet(sched) \cup {<<"load">>}
        BY <2>2, AppendMembers, Zenon
    <2>4. QED
        BY <2>1, <2>3
<1>3. CASE devices' = devices
    <2>1. ASSUME NEW k \in 1..Len(devices'), NEW e \in Entry, e = devices'[k]
          PROVE  \E j \in 1..Len(devices) : Same(e, devices[j])
        BY <1>3, <2>1, SameSelf
    <2>2. UNCHANGED files /\ asks \subseteq asks' /\ unsaved \subseteq unsaved'
        BY <1>1
    <2>3. QED
        BY <1>1, <1>2, <2>1, <2>2, ToldChange
<1>4. CASE devices' # devices
    BY <1>1, <1>2, <1>4, ToldMerge DEF IsDevice
<1>5. QED
    BY <1>3, <1>4

LEMMA ToldFresh ==
    ASSUME devices = <<>>, py = Idle PROVE AllTold
<1>1. DOMAIN devices = {} /\ py.do = "main"
    BY DEF Idle
<1>2. QED
    BY <1>1 DEF AllTold, Shorts, Twice

LEMMA ToldRestart == ASSUME Restart PROVE AllTold'
<1>1. devices' = <<>> /\ py' = Idle
    BY DEF Restart
<1>2. DOMAIN devices' = {} /\ py'.do = "main"
    BY <1>1 DEF Idle
<1>3. QED
    BY <1>2 DEF AllTold, Shorts, Twice

LEMMA ToldStep ==
    ASSUME KeepsStill, Typed, Typed', Inv, AllTold, [Next]_vars PROVE AllTold'
<1>1. CASE ZigbeeTask
    BY <1>1, ToldJoin, ToldEntryChange, ToldRequest DEF ZigbeeTask
<1>2. CASE Program
    BY <1>2, ToldRequest, ToldProgramRemoves, ToldLoadDevice DEF Program
<1>3. CASE StartJob
    BY <1>3, ToldRunLoadAll, ToldRunSave, ToldRunRemove DEF StartJob
<1>4. CASE FinishJob
    BY <1>4, ToldCopy, ToldWrite, ToldFinishLoad DEF FinishJob
<1>5. CASE Restart
    BY <1>5, ToldRestart
<1>6. CASE UNCHANGED vars
    <2>1. ASSUME NEW b, NEW e
          PROVE  /\ Told(b, e) => Told(b, e)'
                 /\ (Overtaken(b, e) => Noted(b)) => (Overtaken(b, e)' => Noted(b)')
        BY <1>6 DEF vars, Told, Overtaken, Noted, SavePending, Tells, IsDevice
    <2>2. UNCHANGED <<devices, shared, py, files>>
        BY <1>6 DEF vars
    <2>3. QED
        BY <2>1, <2>2 DEF AllTold, Twice, Told, Overtaken, SavePending, Tells, IsDevice
<1>7. QED
    BY <1>1, <1>2, <1>3, <1>4, <1>5, <1>6 DEF Next

(* If the table keeps still between look-up and copy, then, whatever is loaded,   *)
(* joins, fails or is restarted, the file of every known device tells what the    *)
(* table tells of it, or a save that will write just that is under way, or the    *)
(* last save was refused or failed, or two entries held the address.            *)
THEOREM FilesAreCurrent == ASSUME KeepsStill PROVE Spec => []FilesTellTheTable
<1> DEFINE I == Typed /\ Inv /\ AllTold
<1>1. Init => I
    <2>1. Init => devices = <<>> /\ py = Idle
        BY DEF Init, TableInit
    <2>2. QED
        BY <2>1, TypedInit, InvInit, ToldFresh
<1>2. I /\ [Next]_vars => I'
    BY TypedStep, InvStep, ToldStep DEF KeepsStill
<1>3. I => FilesTellTheTable
    BY DEF AllTold, FilesTellTheTable, Told
<1> HIDE DEF I
<1>4. QED
    BY <1>1, <1>2, <1>3, PTL DEF Spec

================================================================================
