---------------------------- MODULE InterviewProofs ----------------------------
(***************************************************************************)
(* The interview proved for every number of devices, addresses, endpoints     *)
(* and clusters and every size of the arrays: what the loops of active_ep_cb  *)
(* and device_from_json compute, and from that what the callbacks leave in    *)
(* the table and on flash, in whatever order they come.                      *)
(***************************************************************************)
EXTENDS Interview, SequenceFacts

--------------------------------------------------------------------------------
(* The JSON.                                                               *)

LEMMA TakenBackLoop ==
    ASSUME NEW cfgs \in Seq(Cfg)
    PROVE  \E f : /\ f[0] = <<>> /\ TakenBack(cfgs) = f[Len(cfgs)]
                  /\ \A n \in 1..Len(cfgs) :
                        f[n] = IF cfgs[n].state = "undirected" THEN f[n - 1]
                               ELSE Append(f[n - 1], cfgs[n])
<1>1. PICK N : N = Len(cfgs)
    OBVIOUS
<1>2. N \in Nat /\ \A n \in 1..N : cfgs[n] \in Cfg
    BY <1>1, LenProperties, ElementOfSeq
<1> DEFINE Round(s, n) == IF cfgs[n].state = "undirected" THEN s ELSE Append(s, cfgs[n])
<1>3. PICK F \in [Seq(Cfg) \X (1..N) -> Seq(Cfg)] :
          \A s \in Seq(Cfg), n \in 1..N : F[<<s, n>>] = Round(s, n)
    <2> DEFINE G == [p \in Seq(Cfg) \X (1..N) |-> Round(p[1], p[2])]
    <2>1. \A p \in Seq(Cfg) \X (1..N) : Round(p[1], p[2]) \in Seq(Cfg)
        BY <1>2, AppendProperties
    <2> HIDE DEF Round
    <2>2. G \in [Seq(Cfg) \X (1..N) -> Seq(Cfg)]
        BY <2>1
    <2>3. \A s \in Seq(Cfg), n \in 1..N : G[<<s, n>>] = Round(s, n)
        OBVIOUS
    <2> HIDE DEF G
    <2>4. QED
        BY <2>2, <2>3
<1>4. <<>> \in Seq(Cfg)
    BY EmptySeq
<1>5. PICK g : Runs(g, N, Seq(Cfg), <<>>, F)
    BY <1>2, <1>3, <1>4, LoopExists
<1>6. \A n \in 1..N : g[n] = Round(g[n - 1], n)
    <2>1. ASSUME NEW n \in 1..N PROVE g[n - 1] \in Seq(Cfg)
        BY <1>2, <1>5 DEF Runs
    <2> HIDE DEF Round
    <2>2. QED
        BY <1>3, <1>5, <2>1 DEF Runs
<1> DEFINE Eq(f) == f = [n \in 0..Len(cfgs) |-> IF n = 0 THEN <<>> ELSE Round(f[n - 1], n)]
<1>7. Eq(g)
    <2> HIDE DEF Round
    <2>1. \A n \in 0..N : g[n] = IF n = 0 THEN <<>> ELSE Round(g[n - 1], n)
        BY <1>2, <1>5, <1>6 DEF Runs
    <2>2. g = [n \in 0..N |-> g[n]]
        BY <1>5 DEF Runs
    <2>3. QED
        BY <1>1, <2>1, <2>2
<1> DEFINE h == CHOOSE f : Eq(f)
<1>8. Eq(h)
    BY <1>7, Zenon
<1>9. TakenBack(cfgs) = h[Len(cfgs)]
    BY Zenon DEF TakenBack
<1>10. PICK k : k = h
    OBVIOUS
<1>11. k = [n \in 0..N |-> IF n = 0 THEN <<>>
                          ELSE IF cfgs[n].state = "undirected" THEN k[n - 1]
                          ELSE Append(k[n - 1], cfgs[n])]
    BY <1>1, <1>8, <1>10
<1>12. k[0] = <<>> /\ \A n \in 1..N : k[n] = IF cfgs[n].state = "undirected" THEN k[n - 1]
                                           ELSE Append(k[n - 1], cfgs[n])
    <2>1. 0 \in 0..N /\ \A n \in 1..N : n \in 0..N /\ n # 0
        BY <1>2
    <2>2. QED
        BY <1>11, <2>1
<1> HIDE DEF h
<1>13. QED
    BY <1>1, <1>9, <1>10, <1>12

(* Every configuration with a direction comes back.                         *)
LEMMA TakenBackKeeps ==
    ASSUME NEW cfgs \in Seq(Cfg)
    PROVE  /\ TakenBack(cfgs) \in Seq(Cfg)
           /\ \A m \in 1..Len(cfgs) : cfgs[m].state # "undirected" => cfgs[m] \in ToSet(TakenBack(cfgs))
<1>1. PICK f : /\ f[0] = <<>> /\ TakenBack(cfgs) = f[Len(cfgs)]
               /\ \A n \in 1..Len(cfgs) :
                     f[n] = IF cfgs[n].state = "undirected" THEN f[n - 1]
                            ELSE Append(f[n - 1], cfgs[n])
    BY TakenBackLoop
<1>2. PICK N \in Nat : N = Len(cfgs)
    BY LenProperties
<1>3. \A n \in 1..N : cfgs[n] \in Cfg
    BY <1>2, ElementOfSeq
<1> DEFINE Good(n) == /\ f[n] \in Seq(Cfg)
                      /\ \A m \in 1..n : cfgs[m].state # "undirected" => cfgs[m] \in ToSet(f[n])
           P == {n \in 0..N : Good(n)}
<1>4. 0 \in P
    <2>1. f[0] \in Seq(Cfg) /\ 0 \in 0..N /\ 1..0 = {}
        BY <1>1, <1>2, EmptySeq
    <2>2. QED
        BY <2>1
<1>5. ASSUME NEW n \in 0..N, n < N, n \in P PROVE n + 1 \in P
    <2>1. n + 1 \in 1..N /\ n + 1 \in 0..N /\ (n + 1) - 1 = n /\ n \in Nat
        BY <1>2, <1>5
    <2>2. f[n] \in Seq(Cfg) /\ \A m \in 1..n : cfgs[m].state # "undirected" => cfgs[m] \in ToSet(f[n])
        BY <1>5
    <2>3. \A m \in 1..(n + 1) : m \in 1..n \/ m = n + 1
        BY <2>1
    <2>4. CASE cfgs[n + 1].state = "undirected"
        <3>1. f[n + 1] = f[n]
            BY <1>1, <1>2, <2>1, <2>4
        <3>2. Good(n + 1)
            BY <2>2, <2>3, <2>4, <3>1
        <3>3. QED
            BY <2>1, <3>2
    <2>5. CASE cfgs[n + 1].state # "undirected"
        <3>1. f[n + 1] = Append(f[n], cfgs[n + 1])
            BY <1>1, <1>2, <2>1, <2>5
        <3>2. f[n + 1] \in Seq(Cfg) /\ ToSet(f[n + 1]) = ToSet(f[n]) \cup {cfgs[n + 1]}
            BY <1>3, <2>1, <2>2, <3>1, AppendMembers
        <3>3. Good(n + 1)
            BY <2>2, <2>3, <3>2
        <3>4. QED
            BY <2>1, <3>3
    <2>6. QED
        BY <2>4, <2>5
<1> HIDE DEF P
<1>6. \A n \in 0..N : n \in P
    BY <1>2, <1>4, <1>5, CountingUp
<1>7. N \in P
    BY <1>2, <1>6
<1>8. QED
    BY <1>1, <1>2, <1>7 DEF P

LEMMA LoadedIsEntry == ASSUME NEW j \in Saved PROVE FromJson(j) \in Entry
<1>1. /\ j.device \in Device /\ j.endpoints \in Seq(EpSlot) /\ j.reports \in Seq(Cfg)
      /\ Len(j.endpoints) \in Nat /\ MaxEndpoints \in Nat
    BY LenProperties, JsonAssumption DEF Saved
<1>2. PICK n : n = IF Len(j.endpoints) < MaxEndpoints THEN Len(j.endpoints) ELSE MaxEndpoints
    OBVIOUS
<1>3. n \in 0..MaxEndpoints /\ n \in 0..Len(j.endpoints)
    BY <1>1, <1>2
<1>4. NoEndpoint \in EpSlot
    BY DEF NoEndpoint, EpSlot
<1>5. ASSUME NEW i \in 1..MaxEndpoints PROVE (IF i <= n THEN j.endpoints[i] ELSE NoEndpoint) \in EpSlot
    <2>1. CASE i <= n
        <3>1. i \in 1..Len(j.endpoints)
            BY <1>1, <1>3, <2>1
        <3>2. j.endpoints[i] \in EpSlot
            BY <1>1, <3>1, ElementOfSeq
        <3>3. QED
            BY <2>1, <3>2
    <2>2. CASE ~ (i <= n)
        BY <1>4, <2>2
    <2>3. QED
        BY <2>1, <2>2
<1>6. PICK w \in [1..MaxEndpoints -> EpSlot] :
          w = [i \in 1..MaxEndpoints |-> IF i <= n THEN j.endpoints[i] ELSE NoEndpoint]
    BY <1>5
<1>7. PICK cs \in Seq(Cfg) : cs = TakenBack(j.reports)
    BY <1>1, TakenBackKeeps
<1>8. FromJson(j) = [device |-> j.device, count |-> n, slots |-> w, cfgs |-> cs]
    BY <1>2, <1>6, <1>7 DEF FromJson
<1>9. QED
    BY <1>1, <1>3, <1>8 DEF Entry
(* A device read back is the device that was saved: its endpoints up to the      *)
(* count and its configurations with a direction.                            *)
LEMMA SavedAndLoaded ==
    ASSUME NEW e \in Entry
    PROVE  /\ ToJson(e) \in Saved /\ ToJson(e) # Absent
           /\ FromJson(ToJson(e)).device = e.device
           /\ FromJson(ToJson(e)).count = e.count
           /\ \A i \in 1..e.count : FromJson(ToJson(e)).slots[i] = e.slots[i]
           /\ \A c \in ToSet(e.cfgs) : c.state # "undirected" => c \in ToSet(FromJson(ToJson(e)).cfgs)
<1>1. /\ e.device \in Device /\ e.count \in 0..MaxEndpoints /\ MaxEndpoints \in Nat
      /\ e.slots \in [1..MaxEndpoints -> EpSlot] /\ e.cfgs \in Seq(Cfg)
    BY JsonAssumption DEF Entry
<1>2. PICK es : es = SubSeq(e.slots, 1, e.count)
    OBVIOUS
<1>3. es \in Seq(EpSlot) /\ Len(es) = e.count /\ \A i \in 1..e.count : es[i] = e.slots[i]
    <2>1. \A i \in 1..e.count : e.slots[i] \in EpSlot
        BY <1>1
    <2>2. 1 \in Int /\ e.count \in Int
        BY <1>1
    <2>3. /\ es \in Seq(EpSlot)
          /\ Len(es) = IF 1 <= e.count THEN e.count - 1 + 1 ELSE 0
          /\ \A i \in 1..(e.count - 1 + 1) : es[i] = e.slots[1 + i - 1]
        BY <1>2, <2>1, <2>2, SubSeqProperties
    <2>4. Len(es) = e.count /\ \A i \in 1..e.count : i \in 1..(e.count - 1 + 1) /\ 1 + i - 1 = i
        BY <1>1, <2>3
    <2>5. QED
        BY <2>3, <2>4
<1>4. PICK j : j = ToJson(e)
    OBVIOUS
<1>5. j = [device |-> e.device, endpoints |-> es, reports |-> e.cfgs]
    BY <1>2, <1>4 DEF ToJson
<1>6. j \in Saved
    BY <1>1, <1>3, <1>5 DEF Saved
<1>7. j # Absent
    BY <1>6, AbsentAssumption
<1>8. (IF Len(j.endpoints) < MaxEndpoints THEN Len(j.endpoints) ELSE MaxEndpoints) = e.count
    BY <1>1, <1>3, <1>5
<1>9. PICK n : n = e.count
    OBVIOUS
<1>10. FromJson(j) = [device |-> e.device, count |-> n,
                     slots |-> [i \in 1..MaxEndpoints |-> IF i <= n THEN es[i] ELSE NoEndpoint],
                     cfgs |-> TakenBack(e.cfgs)]
    BY <1>5, <1>8, <1>9 DEF FromJson
<1>11. ASSUME NEW i \in 1..e.count PROVE FromJson(j).slots[i] = e.slots[i]
    <2>1. i \in 1..MaxEndpoints /\ i <= n
        BY <1>1, <1>9
    <2>2. FromJson(j).slots[i] = es[i]
        BY <1>10, <2>1
    <2>3. QED
        BY <1>3, <2>2
<1>12. ASSUME NEW c \in ToSet(e.cfgs), c.state # "undirected" PROVE c \in ToSet(FromJson(j).cfgs)
    <2>1. FromJson(j).cfgs = TakenBack(e.cfgs)
        BY <1>10
    <2>2. PICK m \in 1..Len(e.cfgs) : c = e.cfgs[m]
        BY <1>1, <1>12, LenProperties DEF ToSet
    <2>3. e.cfgs[m] \in ToSet(TakenBack(e.cfgs))
        BY <1>1, <1>12, <2>2, TakenBackKeeps
    <2>4. QED
        BY <2>1, <2>2, <2>3
<1>13. FromJson(j).device = e.device /\ FromJson(j).count = e.count
    BY <1>9, <1>10
<1>14. QED
    BY <1>4, <1>6, <1>7, <1>11, <1>12, <1>13

--------------------------------------------------------------------------------
(* The loop of active_ep_cb.                                               *)

(* An entry and what was asked for, as the rounds hand them on.               *)
SoFar == [entry : Entry, asked : SUBSET (EpId \X (1..MaxEndpoints))]

(* One round: endpoint ep has record i, an old one or a new one.              *)
Recorded(e, ep, f, i) ==
    \/ i \in 1..e.count /\ e.slots[i].ep = ep /\ f = e
    \/ /\ i = e.count + 1 /\ \A k \in 1..e.count : e.slots[k].ep # ep
       /\ f.device = e.device /\ f.cfgs = e.cfgs /\ f.count = i /\ f.slots[i].ep = ep
       /\ \A k \in 1..MaxEndpoints : /\ f.slots[k].clusters = e.slots[k].clusters
                                     /\ k # i => f.slots[k].ep = e.slots[k].ep

LEMMA SlotExcept ==
    ASSUME NEW x \in EpSlot, NEW ep \in EpId \cup {0}
    PROVE  /\ [x EXCEPT !.ep = ep] \in EpSlot
           /\ [x EXCEPT !.ep = ep].ep = ep /\ [x EXCEPT !.ep = ep].clusters = x.clusters
           /\ x.ep = ep => [x EXCEPT !.ep = ep] = x
<1>1. PICK y : y = [x EXCEPT !.ep = ep]
    OBVIOUS
<1>2. y \in EpSlot /\ y.ep = ep /\ y.clusters = x.clusters
    BY <1>1 DEF EpSlot
<1>3. ASSUME x.ep = ep PROVE y = x
    BY <1>2, <1>3 DEF EpSlot
<1>4. QED
    BY <1>1, <1>2, <1>3

(* What a round writes into the array, and what it is for the rest of the array. *)
Numbering(s, i, ep) == [s EXCEPT ![i].ep = ep]

OnlyNumbers(w, s, i, ep) ==
    /\ w \in [1..MaxEndpoints -> EpSlot]
    /\ w[i].ep = ep
    /\ s[i].ep = ep => w = s
    /\ \A k \in 1..MaxEndpoints : w[k].clusters = s[k].clusters /\ (k # i => w[k].ep = s[k].ep)

LEMMA SlotsExcept ==
    ASSUME NEW s \in [1..MaxEndpoints -> EpSlot], NEW i \in 1..MaxEndpoints, NEW ep \in EpId \cup {0}
    PROVE  OnlyNumbers(Numbering(s, i, ep), s, i, ep)
<1>1. PICK x : x = [s[i] EXCEPT !.ep = ep]
    OBVIOUS
<1>2. s[i] \in EpSlot
    OBVIOUS
<1>3. x \in EpSlot /\ x.ep = ep /\ x.clusters = s[i].clusters /\ (s[i].ep = ep => x = s[i])
    BY <1>1, <1>2, SlotExcept
<1>4. PICK w : w = Numbering(s, i, ep)
    OBVIOUS
<1>5. w = [s EXCEPT ![i] = x]
    BY <1>4, <1>1 DEF Numbering
<1>6. w \in [1..MaxEndpoints -> EpSlot] /\ w[i] = x /\ \A k \in 1..MaxEndpoints : k # i => w[k] = s[k]
    BY <1>3, <1>5
<1>7. ASSUME s[i].ep = ep PROVE w = s
    <2>1. x = s[i]
        BY <1>3, <1>7
    <2>2. w = [s EXCEPT ![i] = s[i]]
        BY <1>5, <2>1
    <2>3. QED
        BY <2>2
<1>8. \A k \in 1..MaxEndpoints : w[k].clusters = s[k].clusters /\ (k # i => w[k].ep = s[k].ep)
    BY <1>3, <1>6
<1>9. w[i].ep = ep
    BY <1>3, <1>6
<1>10. QED
    BY <1>4, <1>6, <1>7, <1>8, <1>9 DEF OnlyNumbers

LEMMA SameEntry ==
    ASSUME NEW x \in Entry, NEW y \in Entry, x.device = y.device, x.count = y.count,
           x.slots = y.slots, x.cfgs = y.cfgs
    PROVE  x = y
BY DEF Entry

LEMMA ListOne ==
    ASSUME NEW so \in SoFar, NEW ep \in EpId, so.entry.count < MaxEndpoints
    PROVE  /\ ListEndpoint(so, ep) \in SoFar
           /\ \E i \in 1..MaxEndpoints :
                 /\ Recorded(so.entry, ep, ListEndpoint(so, ep).entry, i)
                 /\ ListEndpoint(so, ep).asked = so.asked \cup {<<ep, i>>}
<1>1. PICK e : e = so.entry
    OBVIOUS
<1>2. /\ e \in Entry /\ e.count \in 0..MaxEndpoints /\ e.slots \in [1..MaxEndpoints -> EpSlot]
      /\ MaxEndpoints \in Nat /\ e.count < MaxEndpoints
      /\ so.asked \subseteq EpId \X (1..MaxEndpoints)
    BY <1>1, JsonAssumption DEF SoFar, Entry
<1>3. PICK known : known = IndexOfEp(e, ep)
    OBVIOUS
<1>4. \A k : k \in known <=> k \in 1..e.count /\ e.slots[k].ep = ep
    BY <1>3 DEF IndexOfEp
<1>5. PICK i : i = IF known # {} THEN CHOOSE k \in known : TRUE ELSE e.count + 1
    OBVIOUS
<1>6. PICK c : c = IF known # {} THEN e.count ELSE i
    OBVIOUS
<1>7. PICK f : f = [e EXCEPT !.count = c, !.slots[i].ep = ep]
    OBVIOUS
<1>8. PICK r : r = ListEndpoint(so, ep)
    OBVIOUS
<1>9. r = [entry |-> f, asked |-> so.asked \cup {<<ep, i>>}]
    <2>1. ~ (so.entry.count >= MaxEndpoints)
        BY <1>1, <1>2
    <2>2. QED
        BY <1>1, <1>3, <1>5, <1>6, <1>7, <1>8, <2>1 DEF ListEndpoint
<1>10. i \in 1..MaxEndpoints /\ c \in 0..MaxEndpoints
       /\ (known # {} => i \in known /\ c = e.count) /\ (known = {} => i = e.count + 1 /\ c = i)
    BY <1>2, <1>4, <1>5, <1>6
<1>11. PICK w : w = Numbering(e.slots, i, ep)
    OBVIOUS
<1>12. OnlyNumbers(w, e.slots, i, ep)
    BY <1>2, <1>10, <1>11, SlotsExcept
<1>13. /\ w \in [1..MaxEndpoints -> EpSlot]
       /\ w[i].ep = ep
       /\ e.slots[i].ep = ep => w = e.slots
       /\ \A k \in 1..MaxEndpoints : w[k].clusters = e.slots[k].clusters
                                    /\ (k # i => w[k].ep = e.slots[k].ep)
    BY <1>12 DEF OnlyNumbers
<1>14. f \in Entry /\ f.device = e.device /\ f.cfgs = e.cfgs /\ f.count = c /\ f.slots = w
    <2>1. f = [e EXCEPT !.count = c, !.slots = w]
        BY <1>2, <1>7, <1>11 DEF Entry, Numbering
    <2>2. QED
        BY <1>2, <1>10, <1>13, <2>1 DEF Entry
<1>15. r \in SoFar
    BY <1>2, <1>9, <1>10, <1>14 DEF SoFar
<1>16. Recorded(e, ep, f, i)
    <2>1. CASE known # {}
        <3>1. i \in 1..e.count /\ e.slots[i].ep = ep /\ c = e.count
            BY <1>4, <1>10, <2>1
        <3>2. f = e
            BY <1>2, <1>13, <1>14, <3>1, SameEntry
        <3>3. QED
            BY <3>1, <3>2 DEF Recorded
    <2>2. CASE known = {}
        <3>1. i = e.count + 1 /\ c = i /\ \A k \in 1..e.count : e.slots[k].ep # ep
            BY <1>4, <1>10, <2>2
        <3>2. QED
            BY <1>13, <1>14, <3>1 DEF Recorded
    <2>3. QED
        BY <2>1, <2>2
<1>17. QED
    BY <1>1, <1>8, <1>9, <1>10, <1>15, <1>16

LEMMA ListLoop ==
    ASSUME NEW p \in Device, NEW e \in Entry
    PROVE  \E f : /\ f[0] = [entry |-> e, asked |-> {}] /\ ListEndpoints(p, e) = f[Len(Endpoints[p])]
                  /\ \A n \in 0..Len(Endpoints[p]) : f[n] \in SoFar
                  /\ \A n \in 1..Len(Endpoints[p]) : f[n] = ListEndpoint(f[n - 1], Endpoints[p][n])
<1>1. PICK eps : eps = Endpoints[p]
    OBVIOUS
<1>2. eps \in Seq(EpId)
    BY <1>1, InterviewAssumption
<1>3. PICK N \in Nat : N = Len(eps)
    BY <1>2, LenProperties
<1>4. \A n \in 1..N : eps[n] \in EpId
    BY <1>2, <1>3, ElementOfSeq
<1>5. ASSUME NEW so \in SoFar, NEW ep \in EpId PROVE ListEndpoint(so, ep) \in SoFar
    <2>1. CASE so.entry.count < MaxEndpoints
        BY <2>1, ListOne
    <2>2. CASE ~ (so.entry.count < MaxEndpoints)
        <3>1. so.entry.count >= MaxEndpoints
            <4>1. so.entry.count \in 0..MaxEndpoints /\ MaxEndpoints \in Nat
                BY JsonAssumption DEF SoFar, Entry
            <4>2. QED
                BY <2>2, <4>1
        <3>2. ListEndpoint(so, ep) = so
            BY <3>1 DEF ListEndpoint
        <3>3. QED
            BY <3>2
    <2>3. QED
        BY <2>1, <2>2
<1>6. PICK b \in SoFar : b = [entry |-> e, asked |-> {}]
    BY DEF SoFar
<1>7. PICK F \in [SoFar \X (1..N) -> SoFar] :
          \A s \in SoFar, n \in 1..N : F[<<s, n>>] = ListEndpoint(s, eps[n])
    <2> DEFINE G == [q \in SoFar \X (1..N) |-> ListEndpoint(q[1], eps[q[2]])]
    <2>1. \A q \in SoFar \X (1..N) : ListEndpoint(q[1], eps[q[2]]) \in SoFar
        BY <1>4, <1>5
    <2>2. G \in [SoFar \X (1..N) -> SoFar]
        BY <2>1
    <2>3. \A s \in SoFar, n \in 1..N : G[<<s, n>>] = ListEndpoint(s, eps[n])
        OBVIOUS
    <2> HIDE DEF G
    <2>4. QED
        BY <2>2, <2>3
<1>8. PICK g : Runs(g, N, SoFar, b, F)
    BY <1>7, LoopExists
<1>9. \A n \in 1..N : g[n] = ListEndpoint(g[n - 1], eps[n])
    <2>1. ASSUME NEW n \in 1..N PROVE g[n - 1] \in SoFar
        BY <1>3, <1>8 DEF Runs
    <2>2. QED
        BY <1>7, <1>8, <2>1 DEF Runs
<1> DEFINE Eq(f) == f = [n \in 0..Len(Endpoints[p]) |->
                            IF n = 0 THEN [entry |-> e, asked |-> {}]
                            ELSE ListEndpoint(f[n - 1], Endpoints[p][n])]
<1>10. Eq(g)
    <2>1. \A n \in 0..N : g[n] = IF n = 0 THEN b ELSE ListEndpoint(g[n - 1], eps[n])
        BY <1>3, <1>8, <1>9 DEF Runs
    <2>2. g = [n \in 0..N |-> g[n]]
        BY <1>8 DEF Runs
    <2>3. QED
        BY <1>1, <1>3, <1>6, <2>1, <2>2
<1> DEFINE h == CHOOSE f : Eq(f)
<1>11. Eq(h)
    BY <1>10, Zenon
<1>12. ListEndpoints(p, e) = h[Len(Endpoints[p])]
    BY Zenon DEF ListEndpoints
<1>13. PICK k : k = h
    OBVIOUS
<1>14. k = [n \in 0..N |-> IF n = 0 THEN b ELSE ListEndpoint(k[n - 1], eps[n])]
    BY <1>1, <1>3, <1>6, <1>11, <1>13
<1> HIDE DEF h
<1>15. k[0] = b /\ \A n \in 1..N : k[n] = ListEndpoint(k[n - 1], eps[n])
    <2>1. 0 \in 0..N /\ \A n \in 1..N : n \in 0..N /\ n # 0
        BY <1>3
    <2>2. QED
        BY <1>14, <2>1
<1> DEFINE P == {n \in 0..N : k[n] \in SoFar}
<1>16. 0 \in P
    BY <1>3, <1>15
<1>17. ASSUME NEW n \in 0..N, n < N, n \in P PROVE n + 1 \in P
    <2>1. n + 1 \in 1..N /\ n + 1 \in 0..N /\ (n + 1) - 1 = n
        BY <1>3, <1>17
    <2>2. k[n + 1] = ListEndpoint(k[n], eps[n + 1])
        BY <1>15, <2>1
    <2>3. QED
        BY <1>4, <1>5, <1>17, <2>1, <2>2
<1> HIDE DEF P
<1>18. \A n \in 0..N : n \in P
    BY <1>16, <1>17, CountingUp
<1>19. \A n \in 0..N : k[n] \in SoFar
    BY <1>18 DEF P
<1>20. QED
    BY <1>1, <1>3, <1>6, <1>12, <1>13, <1>15, <1>19

(* What a round does, for the inductions below: nothing in a full array.       *)
Round(so, ep, to) ==
    IF so.entry.count < MaxEndpoints
    THEN \E i \in 1..MaxEndpoints : /\ Recorded(so.entry, ep, to.entry, i)
                                    /\ to.asked = so.asked \cup {<<ep, i>>}
    ELSE to = so

(* The rounds of the loop from entry e on.                                   *)
Rounds(f, p, e) ==
    /\ f[0] = [entry |-> e, asked |-> {}] /\ ListEndpoints(p, e) = f[Len(Endpoints[p])]
    /\ \A n \in 0..Len(Endpoints[p]) : f[n] \in SoFar
    /\ \A n \in 0..Len(Endpoints[p]) :
           n < Len(Endpoints[p]) => Round(f[n], Endpoints[p][n + 1], f[n + 1])

LEMMA ListRounds ==
    ASSUME NEW p \in Device, NEW e \in Entry
    PROVE  /\ \E f : Rounds(f, p, e)
           /\ Endpoints[p] \in Seq(EpId) /\ Len(Endpoints[p]) \in Nat
           /\ \A n \in 1..Len(Endpoints[p]) : Endpoints[p][n] \in EpId
<1>1. Endpoints[p] \in Seq(EpId) /\ Len(Endpoints[p]) \in Nat
      /\ \A n \in 1..Len(Endpoints[p]) : Endpoints[p][n] \in EpId
    BY InterviewAssumption, LenProperties, ElementOfSeq
<1>2. PICK f : /\ f[0] = [entry |-> e, asked |-> {}] /\ ListEndpoints(p, e) = f[Len(Endpoints[p])]
               /\ \A n \in 0..Len(Endpoints[p]) : f[n] \in SoFar
               /\ \A n \in 1..Len(Endpoints[p]) : f[n] = ListEndpoint(f[n - 1], Endpoints[p][n])
    BY ListLoop
<1>3. ASSUME NEW n \in 0..Len(Endpoints[p]), n < Len(Endpoints[p])
      PROVE  Round(f[n], Endpoints[p][n + 1], f[n + 1])
    <2>1. n + 1 \in 1..Len(Endpoints[p]) /\ (n + 1) - 1 = n
        BY <1>1, <1>3
    <2>2. f[n + 1] = ListEndpoint(f[n], Endpoints[p][n + 1]) /\ f[n] \in SoFar
          /\ Endpoints[p][n + 1] \in EpId
        BY <1>1, <1>2, <2>1
    <2>3. PICK so \in SoFar, ep \in EpId : so = f[n] /\ ep = Endpoints[p][n + 1]
        BY <2>2
    <2>4. CASE so.entry.count < MaxEndpoints
        <3>1. \E i \in 1..MaxEndpoints :
                 /\ Recorded(so.entry, ep, ListEndpoint(so, ep).entry, i)
                 /\ ListEndpoint(so, ep).asked = so.asked \cup {<<ep, i>>}
            BY <2>4, ListOne
        <3>2. QED
            BY <2>2, <2>3, <2>4, <3>1 DEF Round
    <2>5. CASE ~ (so.entry.count < MaxEndpoints)
        <3>1. so.entry.count \in 0..MaxEndpoints /\ MaxEndpoints \in Nat
            BY JsonAssumption DEF SoFar, Entry
        <3>2. ListEndpoint(so, ep) = so
            BY <2>5, <3>1 DEF ListEndpoint
        <3>3. QED
            BY <2>2, <2>3, <2>5, <3>2 DEF Round
    <2>6. QED
        BY <2>4, <2>5
<1>4. Rounds(f, p, e)
    BY <1>2, <1>3 DEF Rounds
<1>5. QED
    BY <1>1, <1>4

Distinct(e) == \A i, j \in 1..e.count : e.slots[i].ep = e.slots[j].ep => i = j

(* What no round changes.                                                  *)
SameBut(e, f) ==
    /\ f.device = e.device /\ f.cfgs = e.cfgs
    /\ \A k \in 1..MaxEndpoints : f.slots[k].clusters = e.slots[k].clusters

LEMMA RoundKeeps ==
    ASSUME NEW so \in SoFar, NEW to \in SoFar, NEW ep \in EpId, Round(so, ep, to)
    PROVE  /\ Distinct(so.entry) => Distinct(to.entry)
           /\ SameBut(so.entry, to.entry)
           /\ so.entry.count <= to.entry.count
           /\ so.asked \subseteq to.asked
           /\ to.entry # so.entry => to.asked # {}
<1>1. PICK e, f : e = so.entry /\ f = to.entry
    OBVIOUS
<1>2. /\ e.count \in 0..MaxEndpoints /\ f.count \in 0..MaxEndpoints /\ MaxEndpoints \in Nat
    BY <1>1, JsonAssumption DEF SoFar, Entry
<1>3. CASE e.count < MaxEndpoints
    <2>1. PICK i \in 1..MaxEndpoints : /\ Recorded(e, ep, f, i)
                                       /\ to.asked = so.asked \cup {<<ep, i>>}
        BY <1>1, <1>3 DEF Round
    <2>2. CASE i \in 1..e.count /\ e.slots[i].ep = ep /\ f = e
        BY <1>1, <1>2, <2>1, <2>2 DEF SameBut
    <2>3. CASE /\ i = e.count + 1 /\ \A k \in 1..e.count : e.slots[k].ep # ep
               /\ f.device = e.device /\ f.cfgs = e.cfgs /\ f.count = i /\ f.slots[i].ep = ep
               /\ \A k \in 1..MaxEndpoints : /\ f.slots[k].clusters = e.slots[k].clusters
                                             /\ k # i => f.slots[k].ep = e.slots[k].ep
        <3>1. \A k \in 1..f.count : k = i \/ (k \in 1..e.count /\ k \in 1..MaxEndpoints /\ k # i)
            BY <1>2, <2>3
        <3>2. ASSUME Distinct(e), NEW x \in 1..f.count, NEW y \in 1..f.count, f.slots[x].ep = f.slots[y].ep
              PROVE  x = y
            <4>1. CASE x = i /\ y = i
                BY <4>1
            <4>2. CASE x = i /\ y # i
                BY <2>3, <3>1, <3>2, <4>2
            <4>3. CASE x # i /\ y = i
                BY <2>3, <3>1, <3>2, <4>3
            <4>4. CASE x # i /\ y # i
                <5>1. x \in 1..e.count /\ y \in 1..e.count /\ e.slots[x].ep = e.slots[y].ep
                    BY <2>3, <3>1, <3>2, <4>4
                <5>2. QED
                    BY <3>2, <5>1 DEF Distinct
            <4>5. QED
                BY <4>1, <4>2, <4>3, <4>4
        <3>3. Distinct(e) => Distinct(f)
            BY <3>2 DEF Distinct
        <3>4. SameBut(e, f) /\ e.count <= f.count
            BY <1>2, <2>3 DEF SameBut
        <3>5. QED
            BY <1>1, <2>1, <3>3, <3>4
    <2>4. QED
        BY <2>1, <2>2, <2>3 DEF Recorded
<1>4. CASE ~ (e.count < MaxEndpoints)
    <2>1. to = so
        BY <1>1, <1>4 DEF Round
    <2>2. QED
        BY <1>1, <1>2, <2>1 DEF SameBut
<1>5. QED
    BY <1>3, <1>4

(* Listing the endpoints of a device in any entry.                           *)
LEMMA ListKeeps ==
    ASSUME NEW p \in Device, NEW e \in Entry
    PROVE  /\ ListEndpoints(p, e) \in SoFar
           /\ Distinct(e) => Distinct(ListEndpoints(p, e).entry)
           /\ SameBut(e, ListEndpoints(p, e).entry)
           /\ e.count <= ListEndpoints(p, e).entry.count
           /\ ListEndpoints(p, e).entry # e => ListEndpoints(p, e).asked # {}
<1>1. PICK f : Rounds(f, p, e)
    BY ListRounds
<1>2. PICK N \in Nat : N = Len(Endpoints[p])
    BY ListRounds
<1>3. \A n \in 1..N : Endpoints[p][n] \in EpId
    BY <1>2, ListRounds
<1>4. \A n \in 0..N : f[n] \in SoFar
    BY <1>1, <1>2 DEF Rounds
<1> DEFINE Good(n) == /\ Distinct(e) => Distinct(f[n].entry)
                      /\ SameBut(e, f[n].entry)
                      /\ e.count <= f[n].entry.count
                      /\ f[n].entry # e => f[n].asked # {}
           P == {n \in 0..N : Good(n)}
<1>5. 0 \in P
    <2>1. f[0].entry = e /\ f[0].asked = {}
        BY <1>1 DEF Rounds
    <2>2. e.count \in 0..MaxEndpoints /\ MaxEndpoints \in Nat
        BY JsonAssumption DEF Entry
    <2>3. Good(0)
        BY <2>1, <2>2 DEF SameBut
    <2>4. QED
        BY <2>3
<1>6. ASSUME NEW n \in 0..N, n < N, n \in P PROVE n + 1 \in P
    <2>1. n + 1 \in 1..N /\ n + 1 \in 0..N
        BY <1>6
    <2>2. PICK so \in SoFar, to \in SoFar, ep \in EpId :
              so = f[n] /\ to = f[n + 1] /\ ep = Endpoints[p][n + 1] /\ Round(so, ep, to)
        BY <1>1, <1>2, <1>3, <1>4, <1>6, <2>1 DEF Rounds
    <2>3. Good(n)
        BY <1>6
    <2>4. /\ Distinct(so.entry) => Distinct(to.entry)
          /\ SameBut(so.entry, to.entry)
          /\ so.entry.count <= to.entry.count
          /\ so.asked \subseteq to.asked
          /\ to.entry # so.entry => to.asked # {}
        BY <2>2, RoundKeeps
    <2>5. SameBut(e, to.entry)
        BY <2>2, <2>3, <2>4 DEF SameBut
    <2>6. e.count <= to.entry.count
        <3>1. e.count \in Nat /\ so.entry.count \in Nat /\ to.entry.count \in Nat
            BY JsonAssumption DEF SoFar, Entry
        <3>2. QED
            BY <2>2, <2>3, <2>4, <3>1
    <2>7. Good(n + 1)
        BY <2>2, <2>3, <2>4, <2>5, <2>6
    <2>8. QED
        BY <2>1, <2>7
<1> HIDE DEF P
<1>7. \A n \in 0..N : n \in P
    BY <1>5, <1>6, CountingUp
<1>8. Good(N)
    BY <1>7 DEF P
<1>9. ListEndpoints(p, e) = f[N] /\ f[N] \in SoFar
    BY <1>1, <1>2, <1>4 DEF Rounds
<1>10. QED
    BY <1>8, <1>9

--------------------------------------------------------------------------------
(* The numbers a device's endpoints get in an empty array, and the requests that  *)
(* go out with them.                                                        *)

Numbers(p) == ListEndpoints(p, NewDevice(p)).entry
Asks(e) == {<<e.slots[i].ep, i>> : i \in 1..e.count}

Alike(e, f) == e.count = f.count /\ \A i \in 1..e.count : e.slots[i].ep = f.slots[i].ep
Listed(p, e) == Alike(e, Numbers(p))

LEMMA NewDeviceIsEntry ==
    ASSUME NEW p \in Device
    PROVE  /\ NewDevice(p) \in Entry /\ NewDevice(p).device = p /\ NewDevice(p).count = 0
           /\ NewDevice(p).cfgs = <<>>
           /\ \A i \in 1..MaxEndpoints : NewDevice(p).slots[i].clusters = {}
<1>1. NoEndpoint \in EpSlot /\ NoEndpoint.clusters = {}
    BY DEF NoEndpoint, EpSlot
<1>2. PICK w : w = [i \in 1..MaxEndpoints |-> NoEndpoint]
    OBVIOUS
<1>3. w \in [1..MaxEndpoints -> EpSlot] /\ \A i \in 1..MaxEndpoints : w[i].clusters = {}
    BY <1>1, <1>2
<1>4. <<>> \in Seq(Cfg) /\ 0 \in 0..MaxEndpoints
    BY JsonAssumption, EmptySeq
<1>5. QED
    BY <1>2, <1>3, <1>4 DEF NewDevice, Entry

(* A round in an array that holds exactly what was asked for.                 *)
LEMMA RoundNumbers ==
    ASSUME NEW so \in SoFar, NEW to \in SoFar, NEW ep \in EpId, Round(so, ep, to),
           so.asked = Asks(so.entry), so.entry.count < MaxEndpoints
    PROVE  /\ to.asked = Asks(to.entry)
           /\ to.entry.count <= so.entry.count + 1
           /\ \E k \in 1..to.entry.count : to.entry.slots[k].ep = ep
           /\ \A k \in 1..so.entry.count : k \in 1..to.entry.count
                                           /\ to.entry.slots[k].ep = so.entry.slots[k].ep
           /\ \A k \in 1..to.entry.count : to.entry.slots[k].ep = ep
                                           \/ k \in 1..so.entry.count
<1>1. PICK e, f : e = so.entry /\ f = to.entry
    OBVIOUS
<1>2. /\ e.count \in 0..MaxEndpoints /\ f.count \in 0..MaxEndpoints /\ MaxEndpoints \in Nat
    BY <1>1, JsonAssumption DEF SoFar, Entry
<1>3. PICK i \in 1..MaxEndpoints : /\ Recorded(e, ep, f, i)
                                   /\ to.asked = so.asked \cup {<<ep, i>>}
    BY <1>1 DEF Round
<1>4. CASE i \in 1..e.count /\ e.slots[i].ep = ep /\ f = e
    <2>1. <<ep, i>> \in Asks(e)
        BY <1>4 DEF Asks
    <2>2. to.asked = Asks(f)
        BY <1>1, <1>3, <1>4, <2>1
    <2>3. f.count <= e.count + 1
        BY <1>2, <1>4
    <2>4. QED
        BY <1>1, <1>4, <2>2, <2>3
<1>5. CASE /\ i = e.count + 1 /\ \A k \in 1..e.count : e.slots[k].ep # ep
           /\ f.device = e.device /\ f.cfgs = e.cfgs /\ f.count = i /\ f.slots[i].ep = ep
           /\ \A k \in 1..MaxEndpoints : /\ f.slots[k].clusters = e.slots[k].clusters
                                         /\ k # i => f.slots[k].ep = e.slots[k].ep
    <2>1. \A k : k \in 1..f.count <=> k \in 1..e.count \/ k = i
        BY <1>2, <1>5
    <2>2. \A k \in 1..e.count : k \in 1..f.count /\ f.slots[k].ep = e.slots[k].ep
        BY <1>2, <1>5, <2>1
    <2>3. ASSUME NEW q PROVE q \in to.asked <=> q \in Asks(f)
        <3>1. q \in to.asked <=> (q \in Asks(e) \/ q = <<ep, i>>)
            BY <1>1, <1>3
        <3>2. q \in Asks(e) <=> \E k \in 1..e.count : q = <<f.slots[k].ep, k>>
            BY <2>2 DEF Asks
        <3>3. q \in Asks(f) <=> \E k \in 1..f.count : q = <<f.slots[k].ep, k>>
            BY DEF Asks
        <3>4. q = <<ep, i>> <=> q = <<f.slots[i].ep, i>>
            BY <1>5
        <3>5. QED
            BY <2>1, <3>1, <3>2, <3>3, <3>4
    <2>4. to.asked = Asks(f)
        BY <2>3
    <2>5. i \in 1..f.count /\ f.count <= e.count + 1
        BY <1>2, <1>5
    <2>6. QED
        BY <1>1, <1>5, <2>1, <2>2, <2>4, <2>5
<1>6. QED
    BY <1>3, <1>4, <1>5 DEF Recorded

LEMMA NumbersFacts ==
    ASSUME NEW p \in Device
    PROVE  /\ Numbers(p) \in Entry /\ Distinct(Numbers(p))
           /\ ListEndpoints(p, NewDevice(p)).asked = Asks(Numbers(p))
           /\ Numbers(p).count <= Len(Endpoints[p])
           /\ \A i \in 1..Numbers(p).count : \E m \in 1..Len(Endpoints[p]) :
                  Numbers(p).slots[i].ep = Endpoints[p][m]
           /\ Numbers(p).count < MaxEndpoints =>
                  \A m \in 1..Len(Endpoints[p]) : \E i \in 1..Numbers(p).count :
                      Numbers(p).slots[i].ep = Endpoints[p][m]
<1>1. PICK e \in Entry : e = NewDevice(p)
    BY NewDeviceIsEntry
<1>2. e.count = 0
    BY <1>1, NewDeviceIsEntry
<1>3. PICK f : Rounds(f, p, e)
    BY ListRounds
<1>4. PICK N \in Nat : N = Len(Endpoints[p])
    BY ListRounds
<1>5. \A n \in 1..N : Endpoints[p][n] \in EpId
    BY <1>4, ListRounds
<1>6. \A n \in 0..N : f[n] \in SoFar
    BY <1>3, <1>4 DEF Rounds
<1>7. \A n \in 0..N : f[n].entry.count \in Nat /\ f[n].entry.count <= MaxEndpoints /\ MaxEndpoints \in Nat
    BY <1>6, JsonAssumption DEF SoFar, Entry
<1> DEFINE Good(n) ==
        /\ f[n].asked = Asks(f[n].entry)
        /\ f[n].entry.count <= n
        /\ \A i \in 1..f[n].entry.count : \E m \in 1..N : f[n].entry.slots[i].ep = Endpoints[p][m]
        /\ f[n].entry.count < MaxEndpoints =>
              \A m \in 1..n : \E i \in 1..f[n].entry.count : f[n].entry.slots[i].ep = Endpoints[p][m]
           P == {n \in 0..N : Good(n)}
<1>8. 0 \in P
    <2>1. f[0].entry = e /\ f[0].asked = {}
        BY <1>3 DEF Rounds
    <2>2. 1..0 = {}
        OBVIOUS
    <2>3. Asks(e) = {}
        BY <1>2, <2>2 DEF Asks
    <2>4. Good(0)
        BY <1>2, <2>1, <2>2, <2>3
    <2>5. QED
        BY <2>4
<1>9. ASSUME NEW n \in 0..N, n < N, n \in P PROVE n + 1 \in P
    <2>1. n + 1 \in 1..N /\ n + 1 \in 0..N /\ n \in Nat
        BY <1>9
    <2>2. PICK so \in SoFar, to \in SoFar, ep \in EpId :
              so = f[n] /\ to = f[n + 1] /\ ep = Endpoints[p][n + 1] /\ Round(so, ep, to)
        BY <1>3, <1>4, <1>5, <1>6, <1>9, <2>1 DEF Rounds
    <2>3. Good(n)
        BY <1>9
    <2>4. so.entry.count \in Nat /\ to.entry.count \in Nat
        BY <1>7, <2>1, <2>2
    <2>5. CASE so.entry.count < MaxEndpoints
        <3>1. /\ to.asked = Asks(to.entry)
              /\ to.entry.count <= so.entry.count + 1
              /\ \E k \in 1..to.entry.count : to.entry.slots[k].ep = ep
              /\ \A k \in 1..so.entry.count : k \in 1..to.entry.count
                                              /\ to.entry.slots[k].ep = so.entry.slots[k].ep
              /\ \A k \in 1..to.entry.count : to.entry.slots[k].ep = ep \/ k \in 1..so.entry.count
            BY <2>2, <2>3, <2>5, RoundNumbers
        <3>2. to.entry.count <= n + 1
            BY <2>1, <2>2, <2>3, <2>4, <3>1
        <3>3. \A i \in 1..to.entry.count : \E m \in 1..N : to.entry.slots[i].ep = Endpoints[p][m]
            BY <2>1, <2>2, <2>3, <3>1
        <3>4. ASSUME NEW m \in 1..(n + 1)
              PROVE  \E i \in 1..to.entry.count : to.entry.slots[i].ep = Endpoints[p][m]
            <4>1. CASE m = n + 1
                BY <2>2, <3>1, <4>1
            <4>2. CASE m # n + 1
                <5>1. m \in 1..n
                    BY <2>1, <4>2
                <5>2. PICK i \in 1..so.entry.count : so.entry.slots[i].ep = Endpoints[p][m]
                    BY <2>2, <2>3, <2>5, <5>1
                <5>3. QED
                    BY <3>1, <5>2
            <4>3. QED
                BY <4>1, <4>2
        <3>5. Good(n + 1)
            BY <2>2, <3>1, <3>2, <3>3, <3>4
        <3>6. QED
            BY <2>1, <3>5
    <2>6. CASE ~ (so.entry.count < MaxEndpoints)
        <3>1. f[n + 1] = f[n] /\ ~ (f[n + 1].entry.count < MaxEndpoints)
            BY <2>2, <2>6 DEF Round
        <3>2. f[n + 1].entry.count <= n + 1
            BY <2>1, <2>2, <2>3, <2>4, <3>1
        <3>3. Good(n + 1)
            BY <2>3, <3>1, <3>2
        <3>4. QED
            BY <2>1, <3>3
    <2>7. QED
        BY <2>5, <2>6
<1> HIDE DEF P
<1>10. \A n \in 0..N : n \in P
    BY <1>8, <1>9, CountingUp
<1>11. Good(N)
    BY <1>10 DEF P
<1>12. ListEndpoints(p, e) = f[N]
    BY <1>3, <1>4 DEF Rounds
<1>13. Distinct(e)
    <2>1. 1..e.count = {}
        BY <1>2
    <2>2. QED
        BY <2>1 DEF Distinct
<1>14. ListEndpoints(p, e) \in SoFar /\ Distinct(ListEndpoints(p, e).entry)
    BY <1>13, ListKeeps
<1>15. ListEndpoints(p, e).entry \in Entry
    BY <1>14 DEF SoFar
<1>16. Numbers(p) = f[N].entry
    BY <1>1, <1>12 DEF Numbers
<1>17. QED
    BY <1>1, <1>4, <1>11, <1>12, <1>14, <1>15, <1>16

LEMMA RoundAlike ==
    ASSUME NEW so \in SoFar, NEW to \in SoFar, NEW sp \in SoFar, NEW tp \in SoFar, NEW ep \in EpId,
           Round(so, ep, to), Round(sp, ep, tp),
           Alike(so.entry, sp.entry), so.asked = sp.asked, Distinct(so.entry)
    PROVE  Alike(to.entry, tp.entry) /\ to.asked = tp.asked
<1>1. PICK e, f, g, h : e = so.entry /\ f = to.entry /\ g = sp.entry /\ h = tp.entry
    OBVIOUS
<1>2. /\ e.count \in 0..MaxEndpoints /\ MaxEndpoints \in Nat
      /\ g.count = e.count /\ \A k \in 1..e.count : e.slots[k].ep = g.slots[k].ep
    BY <1>1, JsonAssumption DEF SoFar, Entry, Alike
<1>3. CASE e.count < MaxEndpoints
    <2>1. PICK i \in 1..MaxEndpoints : /\ Recorded(e, ep, f, i)
                                       /\ to.asked = so.asked \cup {<<ep, i>>}
        BY <1>1, <1>3 DEF Round
    <2>2. PICK j \in 1..MaxEndpoints : /\ Recorded(g, ep, h, j)
                                       /\ tp.asked = sp.asked \cup {<<ep, j>>}
        BY <1>1, <1>2, <1>3 DEF Round
    <2>3. CASE \E k \in 1..e.count : e.slots[k].ep = ep
        <3>1. i \in 1..e.count /\ e.slots[i].ep = ep /\ f = e
            BY <2>1, <2>3 DEF Recorded
        <3>2. j \in 1..e.count /\ e.slots[j].ep = ep /\ h = g
            BY <1>2, <2>2, <2>3 DEF Recorded
        <3>3. i = j
            BY <1>1, <3>1, <3>2 DEF Distinct
        <3>4. QED
            BY <1>1, <2>1, <2>2, <3>1, <3>2, <3>3
    <2>4. CASE ~ \E k \in 1..e.count : e.slots[k].ep = ep
        <3>1. /\ i = e.count + 1 /\ f.count = i /\ f.slots[i].ep = ep
              /\ \A k \in 1..MaxEndpoints : k # i => f.slots[k].ep = e.slots[k].ep
            BY <2>1, <2>4 DEF Recorded
        <3>2. /\ j = e.count + 1 /\ h.count = j /\ h.slots[j].ep = ep
              /\ \A k \in 1..MaxEndpoints : k # j => h.slots[k].ep = g.slots[k].ep
            BY <1>2, <2>2, <2>4 DEF Recorded
        <3>3. ASSUME NEW k \in 1..f.count PROVE f.slots[k].ep = h.slots[k].ep
            <4>1. k = i \/ (k \in 1..e.count /\ k \in 1..MaxEndpoints /\ k # i)
                BY <1>2, <3>1
            <4>2. QED
                BY <1>2, <3>1, <3>2, <4>1
        <3>4. Alike(f, h)
            BY <3>1, <3>2, <3>3 DEF Alike
        <3>5. QED
            BY <1>1, <2>1, <2>2, <3>1, <3>2, <3>4
    <2>5. QED
        BY <2>3, <2>4
<1>4. CASE ~ (e.count < MaxEndpoints)
    <2>1. to = so /\ tp = sp
        BY <1>1, <1>2, <1>4 DEF Round
    <2>2. QED
        BY <2>1
<1>5. QED
    BY <1>3, <1>4

(* In an empty array every device's endpoints get the same numbers, whatever     *)
(* the array held before.                                                   *)
LEMMA ListNew ==
    ASSUME NEW p \in Device, NEW e \in Entry, e.count = 0
    PROVE  /\ Listed(p, ListEndpoints(p, e).entry)
           /\ ListEndpoints(p, e).asked = Asks(Numbers(p))
<1>1. PICK d \in Entry : d = NewDevice(p) /\ d.count = 0
    BY NewDeviceIsEntry
<1>2. PICK f : Rounds(f, p, e)
    BY ListRounds
<1>3. PICK g : Rounds(g, p, d)
    BY ListRounds
<1>4. PICK N \in Nat : N = Len(Endpoints[p])
    BY ListRounds
<1>5. \A n \in 1..N : Endpoints[p][n] \in EpId
    BY <1>4, ListRounds
<1>6. \A n \in 0..N : f[n] \in SoFar /\ g[n] \in SoFar
    BY <1>2, <1>3, <1>4 DEF Rounds
<1> DEFINE Good(n) == /\ Alike(f[n].entry, g[n].entry)
                      /\ f[n].asked = g[n].asked /\ Distinct(f[n].entry)
           P == {n \in 0..N : Good(n)}
<1>7. 0 \in P
    <2>1. f[0].entry = e /\ f[0].asked = {} /\ g[0].entry = d /\ g[0].asked = {}
        BY <1>2, <1>3 DEF Rounds
    <2>2. 1..e.count = {} /\ e.count = d.count
        BY <1>1
    <2>3. Good(0)
        BY <2>1, <2>2 DEF Alike, Distinct
    <2>4. QED
        BY <2>3
<1>8. ASSUME NEW n \in 0..N, n < N, n \in P PROVE n + 1 \in P
    <2>1. n + 1 \in 1..N /\ n + 1 \in 0..N
        BY <1>8
    <2>2. PICK so \in SoFar, to \in SoFar, ep \in EpId :
              so = f[n] /\ to = f[n + 1] /\ ep = Endpoints[p][n + 1] /\ Round(so, ep, to)
        BY <1>2, <1>4, <1>5, <1>6, <1>8, <2>1 DEF Rounds
    <2>3. PICK sp \in SoFar, tp \in SoFar : sp = g[n] /\ tp = g[n + 1] /\ Round(sp, ep, tp)
        BY <1>3, <1>4, <1>6, <1>8, <2>1, <2>2 DEF Rounds
    <2>4. Good(n)
        BY <1>8
    <2>5. Alike(to.entry, tp.entry) /\ to.asked = tp.asked
        BY <2>2, <2>3, <2>4, RoundAlike
    <2>6. Distinct(to.entry)
        BY <2>2, <2>4, RoundKeeps
    <2>7. Good(n + 1)
        BY <2>2, <2>3, <2>5, <2>6
    <2>8. QED
        BY <2>1, <2>7
<1> HIDE DEF P
<1>9. \A n \in 0..N : n \in P
    BY <1>7, <1>8, CountingUp
<1>10. Good(N)
    BY <1>9 DEF P
<1>11. ListEndpoints(p, e) = f[N] /\ ListEndpoints(p, d) = g[N]
    BY <1>2, <1>3, <1>4 DEF Rounds
<1>12. Numbers(p) = g[N].entry /\ g[N].asked = Asks(Numbers(p))
    BY <1>1, <1>11, NumbersFacts DEF Numbers
<1>13. QED
    BY <1>10, <1>11, <1>12 DEF Listed

LEMMA AlikeAsks == ASSUME NEW e, NEW f, Alike(e, f) PROVE Asks(e) = Asks(f) /\ (Distinct(f) => Distinct(e))
<1>1. e.count = f.count /\ \A i \in 1..e.count : e.slots[i].ep = f.slots[i].ep
    BY DEF Alike
<1>2. ASSUME NEW q PROVE q \in Asks(e) <=> q \in Asks(f)
    <2>1. q \in Asks(e) <=> \E i \in 1..e.count : q = <<e.slots[i].ep, i>>
        BY DEF Asks
    <2>2. q \in Asks(f) <=> \E i \in 1..e.count : q = <<f.slots[i].ep, i>>
        BY <1>1 DEF Asks
    <2>3. QED
        BY <1>1, <2>1, <2>2
<1>3. Asks(e) = Asks(f)
    BY <1>2
<1>4. Distinct(f) => Distinct(e)
    BY <1>1 DEF Distinct
<1>5. QED
    BY <1>3, <1>4

(* A device interviewed again keeps the numbers its endpoints have; if the array  *)
(* has room, all of them are asked for again.                                *)
LEMMA ListAgain ==
    ASSUME NEW p \in Device, NEW e \in Entry, Listed(p, e)
    PROVE  /\ ListEndpoints(p, e).entry = e
           /\ ListEndpoints(p, e).asked \subseteq Asks(Numbers(p))
           /\ Numbers(p).count < MaxEndpoints => ListEndpoints(p, e).asked = Asks(Numbers(p))
<1>1. PICK b \in Entry : b = Numbers(p)
    BY NumbersFacts
<1>2. /\ e.count = b.count /\ \A i \in 1..e.count : e.slots[i].ep = b.slots[i].ep
      /\ Asks(e) = Asks(b) /\ Distinct(e)
    BY <1>1, AlikeAsks, NumbersFacts DEF Listed, Alike
<1>3. PICK f : Rounds(f, p, e)
    BY ListRounds
<1>4. PICK N \in Nat : N = Len(Endpoints[p])
    BY ListRounds
<1>5. \A n \in 1..N : Endpoints[p][n] \in EpId
    BY <1>4, ListRounds
<1>6. \A n \in 0..N : f[n] \in SoFar
    BY <1>3, <1>4 DEF Rounds
<1>7. b.count < MaxEndpoints =>
          \A m \in 1..N : \E i \in 1..e.count : e.slots[i].ep = Endpoints[p][m]
    <2>1. b.count < MaxEndpoints =>
              \A m \in 1..N : \E i \in 1..b.count : b.slots[i].ep = Endpoints[p][m]
        BY <1>1, <1>4, NumbersFacts
    <2>2. QED
        BY <1>2, <2>1
<1>8. \A i \in 1..e.count : \E m \in 1..N : e.slots[i].ep = Endpoints[p][m]
    <2>1. \A i \in 1..b.count : \E m \in 1..N : b.slots[i].ep = Endpoints[p][m]
        BY <1>1, <1>4, NumbersFacts
    <2>2. QED
        BY <1>2, <2>1
<1> DEFINE Good(n) ==
        /\ f[n].entry = e /\ f[n].asked \subseteq Asks(e)
        /\ b.count < MaxEndpoints =>
              \A m \in 1..n : \A i \in 1..e.count :
                  e.slots[i].ep = Endpoints[p][m] => <<Endpoints[p][m], i>> \in f[n].asked
           P == {n \in 0..N : Good(n)}
<1>9. 0 \in P
    <2>1. f[0].entry = e /\ f[0].asked = {} /\ 1..0 = {}
        BY <1>3 DEF Rounds
    <2>2. Good(0)
        BY <2>1
    <2>3. QED
        BY <2>2
<1>10. ASSUME NEW n \in 0..N, n < N, n \in P PROVE n + 1 \in P
    <2>1. n + 1 \in 1..N /\ n + 1 \in 0..N /\ n \in Nat
        BY <1>10
    <2>2. PICK so \in SoFar, to \in SoFar, ep \in EpId :
              so = f[n] /\ to = f[n + 1] /\ ep = Endpoints[p][n + 1] /\ Round(so, ep, to)
        BY <1>3, <1>4, <1>5, <1>6, <1>10, <2>1 DEF Rounds
    <2>3. Good(n)
        BY <1>10
    <2>4. CASE b.count < MaxEndpoints
        <3>1. PICK i \in 1..MaxEndpoints : /\ Recorded(e, ep, to.entry, i)
                                           /\ to.asked = so.asked \cup {<<ep, i>>}
            BY <1>2, <2>2, <2>3, <2>4 DEF Round
        <3>2. \E k \in 1..e.count : e.slots[k].ep = ep
            BY <1>7, <2>1, <2>2, <2>4
        <3>3. i \in 1..e.count /\ e.slots[i].ep = ep /\ to.entry = e
            BY <3>1, <3>2 DEF Recorded
        <3>4. <<ep, i>> \in Asks(e)
            BY <3>3 DEF Asks
        <3>5. to.asked \subseteq Asks(e)
            BY <2>2, <2>3, <3>1, <3>4
        <3>6. ASSUME NEW m \in 1..(n + 1), NEW k \in 1..e.count, e.slots[k].ep = Endpoints[p][m]
              PROVE  <<Endpoints[p][m], k>> \in to.asked
            <4>1. CASE m = n + 1
                <5>1. k = i
                    BY <1>2, <2>2, <3>3, <3>6, <4>1 DEF Distinct
                <5>2. QED
                    BY <2>2, <3>1, <4>1, <5>1
            <4>2. CASE m # n + 1
                <5>1. m \in 1..n
                    BY <2>1, <4>2
                <5>2. <<Endpoints[p][m], k>> \in so.asked
                    BY <2>2, <2>3, <2>4, <3>6, <5>1
                <5>3. QED
                    BY <3>1, <5>2
            <4>3. QED
                BY <4>1, <4>2
        <3>7. Good(n + 1)
            BY <2>2, <3>3, <3>5, <3>6
        <3>8. QED
            BY <2>1, <3>7
    <2>5. CASE ~ (b.count < MaxEndpoints)
        <3>1. to = so
            BY <1>2, <2>2, <2>3, <2>5 DEF Round
        <3>2. Good(n + 1)
            BY <2>2, <2>3, <2>5, <3>1
        <3>3. QED
            BY <2>1, <3>2
    <2>6. QED
        BY <2>4, <2>5
<1> HIDE DEF P
<1>11. \A n \in 0..N : n \in P
    BY <1>9, <1>10, CountingUp
<1>12. Good(N)
    BY <1>11 DEF P
<1>13. ListEndpoints(p, e) = f[N]
    BY <1>3, <1>4 DEF Rounds
<1>14. ASSUME b.count < MaxEndpoints, NEW q \in Asks(e) PROVE q \in f[N].asked
    <2>1. PICK i \in 1..e.count : q = <<e.slots[i].ep, i>>
        BY <1>14 DEF Asks
    <2>2. PICK m \in 1..N : e.slots[i].ep = Endpoints[p][m]
        BY <1>8
    <2>3. QED
        BY <1>12, <1>14, <2>1, <2>2
<1>15. b.count < MaxEndpoints => f[N].asked = Asks(e)
    BY <1>12, <1>14
<1>16. QED
    BY <1>1, <1>2, <1>12, <1>13, <1>15

--------------------------------------------------------------------------------
(* What the variables hold.                                                 *)

Tabled == /\ dev \in [Short -> Entry \cup {Absent}]
          /\ \A a \in Short : Known(a) => Len(dev[a].cfgs) <= MaxCfgs
Posted == /\ requests \subseteq Request /\ saves \subseteq Short /\ unsaved \subseteq Short
          /\ file \in [Short -> Saved \cup {Absent}]
Noted  == /\ reported \subseteq Short \X EpId \X Cluster /\ due \subseteq Short \X EpId \X Cluster
          /\ lost \subseteq Short /\ announced \in 0..MaxAnnounced /\ calls \in 0..MaxCalls
Typed  == Tabled /\ Posted /\ Noted

(* The three requests.                                                      *)
Active(a, p) == [kind |-> "active", addr |-> a, to |-> p]
Simple(a, p, q) == [kind |-> "simple", addr |-> a, to |-> p, ep |-> q[1], index |-> q[2]]
Bind(a, p, ep, cl) == [kind |-> "bind", addr |-> a, to |-> p, ep |-> ep, cl |-> cl]

LEMMA RequestParts ==
    ASSUME NEW r \in Request
    PROVE  /\ r.addr \in Short /\ r.to \in Device /\ r.kind \in {"active", "simple", "bind"}
           /\ r.kind = "active" => r = Active(r.addr, r.to)
           /\ r.kind = "simple" => /\ r.ep \in EpId /\ r.index \in 1..MaxEndpoints
                                   /\ r = Simple(r.addr, r.to, <<r.ep, r.index>>)
           /\ r.kind = "bind" => /\ r.ep \in EpId /\ r.cl \in Cluster
                                 /\ r = Bind(r.addr, r.to, r.ep, r.cl)
<1>1. CASE r \in [kind : {"active"}, addr : Short, to : Device]
    BY <1>1 DEF Active
<1>2. CASE r \in [kind : {"simple"}, addr : Short, to : Device, ep : EpId, index : 1..MaxEndpoints]
    BY <1>2 DEF Simple
<1>3. CASE r \in [kind : {"bind"}, addr : Short, to : Device, ep : EpId, cl : Cluster]
    BY <1>3 DEF Bind
<1>4. QED
    BY <1>1, <1>2, <1>3 DEF Request

LEMMA RequestsMade ==
    ASSUME NEW a \in Short, NEW p \in Device
    PROVE  /\ Active(a, p) \in Request
           /\ \A q \in EpId \X (1..MaxEndpoints) : Simple(a, p, q) \in Request
           /\ \A ep \in EpId, cl \in Cluster : Bind(a, p, ep, cl) \in Request
<1>1. Active(a, p) \in Request
    BY DEF Active, Request
<1>2. ASSUME NEW q \in EpId \X (1..MaxEndpoints) PROVE Simple(a, p, q) \in Request
    BY DEF Simple, Request
<1>3. ASSUME NEW ep \in EpId, NEW cl \in Cluster PROVE Bind(a, p, ep, cl) \in Request
    BY DEF Bind, Request
<1>4. QED
    BY <1>1, <1>2, <1>3

(* What an entry's configurations say.                                       *)
LEMMA ConfiguredClusters ==
    ASSUME NEW e \in Entry, NEW ep
    PROVE  /\ Reportable(e, ep) \subseteq Configured(e, ep) /\ Configured(e, ep) \subseteq Cluster
           /\ ToSet(e.cfgs) \subseteq Cfg
           /\ \A cl : cl \in Reportable(e, ep) <=>
                 \E c \in ToSet(e.cfgs) : c.ep = ep /\ c.state # "undirected" /\ c.cl = cl
<1>1. e.cfgs \in Seq(Cfg) /\ DOMAIN e.cfgs = 1..Len(e.cfgs)
      /\ \A i \in 1..Len(e.cfgs) : e.cfgs[i] \in Cfg
    BY LenProperties, ElementOfSeq DEF Entry
<1>2. ToSet(e.cfgs) \subseteq Cfg
    BY <1>1 DEF ToSet
<1>3. \A cl : cl \in Reportable(e, ep) <=>
          \E c \in ToSet(e.cfgs) : c.ep = ep /\ c.state # "undirected" /\ c.cl = cl
    BY DEF Reportable
<1>4. ASSUME NEW cl \in Reportable(e, ep) PROVE cl \in Configured(e, ep)
    <2>1. PICK i \in 1..Len(e.cfgs) : e.cfgs[i].ep = ep /\ e.cfgs[i].cl = cl
        BY <1>1, <1>3 DEF ToSet
    <2>2. QED
        BY <1>1, <2>1 DEF Configured
<1>5. Configured(e, ep) \subseteq Cluster
    BY <1>1 DEF Configured, Cfg
<1>6. QED
    BY <1>2, <1>3, <1>4, <1>5

(* What the description of an endpoint and the call set_report_config write.   *)
Describing(e, i, cs) == [e EXCEPT !.slots[i].clusters = cs]
Configuring(e, c) == [e EXCEPT !.cfgs = Append(@, c)]

OnlyDescribes(f, e, i, cs) ==
    /\ f \in Entry /\ f.device = e.device /\ f.count = e.count /\ f.cfgs = e.cfgs
    /\ f.slots[i].clusters = cs
    /\ \A k \in 1..MaxEndpoints : f.slots[k].ep = e.slots[k].ep
    /\ \A k \in 1..MaxEndpoints : k # i => f.slots[k].clusters = e.slots[k].clusters

OnlyConfigures(f, e, c) ==
    /\ f \in Entry /\ f.device = e.device /\ f.count = e.count /\ f.slots = e.slots
    /\ Len(f.cfgs) = Len(e.cfgs) + 1 /\ ToSet(f.cfgs) = ToSet(e.cfgs) \cup {c}

LEMMA Describes ==
    ASSUME NEW e \in Entry, NEW i \in 1..MaxEndpoints, NEW cs \in SUBSET Cluster
    PROVE  OnlyDescribes(Describing(e, i, cs), e, i, cs)
<1>1. e.slots \in [1..MaxEndpoints -> EpSlot] /\ e.slots[i] \in EpSlot
    BY DEF Entry
<1>2. PICK x : x = [e.slots[i] EXCEPT !.clusters = cs]
    OBVIOUS
<1>3. x \in EpSlot /\ x.clusters = cs /\ x.ep = e.slots[i].ep
    BY <1>1, <1>2 DEF EpSlot
<1>4. PICK w : w = [e.slots EXCEPT ![i] = x]
    OBVIOUS
<1>5. w \in [1..MaxEndpoints -> EpSlot] /\ w[i] = x
      /\ \A k \in 1..MaxEndpoints : k # i => w[k] = e.slots[k]
    BY <1>1, <1>3, <1>4
<1>6. PICK f : f = Describing(e, i, cs)
    OBVIOUS
<1>7. f = [e EXCEPT !.slots = w]
    BY <1>1, <1>2, <1>4, <1>6 DEF Describing, Entry
<1>8. f \in Entry /\ f.device = e.device /\ f.count = e.count /\ f.cfgs = e.cfgs /\ f.slots = w
    BY <1>5, <1>7 DEF Entry
<1>9. \A k \in 1..MaxEndpoints : f.slots[k].ep = e.slots[k].ep
                                 /\ (k # i => f.slots[k].clusters = e.slots[k].clusters)
    BY <1>3, <1>5, <1>8
<1>10. QED
    BY <1>3, <1>5, <1>6, <1>8, <1>9 DEF OnlyDescribes

LEMMA Configures ==
    ASSUME NEW e \in Entry, NEW c \in Cfg
    PROVE  OnlyConfigures(Configuring(e, c), e, c)
<1>1. PICK cs \in Seq(Cfg) : cs = e.cfgs
    BY DEF Entry
<1>2. PICK ds \in Seq(Cfg) : /\ ds = Append(cs, c)
                             /\ Len(ds) = Len(cs) + 1 /\ ToSet(ds) = ToSet(cs) \cup {c}
    BY AppendMembers
<1>3. PICK f : f = Configuring(e, c)
    OBVIOUS
<1>4. f = [e EXCEPT !.cfgs = ds]
    BY <1>1, <1>2, <1>3 DEF Configuring
<1>5. f \in Entry /\ f.device = e.device /\ f.count = e.count /\ f.slots = e.slots /\ f.cfgs = ds
    BY <1>4 DEF Entry
<1>6. QED
    BY <1>1, <1>2, <1>3, <1>5 DEF OnlyConfigures
--------------------------------------------------------------------------------
(* What a step does to a typed state, part by part.                           *)

Announced(a, p, e, from) ==
    /\ a \in Short /\ p \in Device /\ <<a, p>> \in Homes
    /\ \A b : b \in from <=> b \in Short /\ Known(b) /\ dev[b].device = p
    /\ e \in Entry /\ e.device = p /\ Len(e.cfgs) <= MaxCfgs
    /\ e = NewDevice(p) \/ \E b \in from : e = dev[b]
    /\ dev' \in [Short -> Entry \cup {Absent}] /\ dev'[a] = e
    /\ \A b \in Short : b # a => dev'[b] = IF b \in from THEN Absent ELSE dev[b]
    /\ requests' = requests \cup {Active(a, p)}
    /\ AskSave(a) /\ UNCHANGED <<file, calls>>
    /\ announced' \in 0..MaxAnnounced /\ lost' = lost \ {a}
    /\ reported' = {t \in reported : t[1] \notin from \cup {a}}
    /\ \A t : t \in due' <=>
          \/ t \in due /\ t[1] \notin from \cup {a}
          \/ \E ep \in ToSet(Endpoints[p]) : \E cl \in Clusters[p][ep] \cap Reportable(e, ep) :
                t = <<a, ep, cl>>

LEMMA AnnounceEffect ==
    ASSUME Typed, NEW a \in Short, NEW p \in Device, Announce(a, p)
    PROVE  \E e, from : Announced(a, p, e, from)
<1>1. dev \in [Short -> Entry \cup {Absent}] /\ \A b \in Short : Known(b) => Len(dev[b].cfgs) <= MaxCfgs
    BY DEF Typed, Tabled
<1>2. PICK from : from = {b \in Short : Known(b) /\ dev[b].device = p}
    OBVIOUS
<1>3. PICK e : e = IF from = {} THEN NewDevice(p) ELSE dev[CHOOSE b \in from : TRUE]
    OBVIOUS
<1>4. \A b : b \in from <=> b \in Short /\ Known(b) /\ dev[b].device = p
    BY <1>2
<1>5. e = NewDevice(p) \/ \E b \in from : e = dev[b]
    BY <1>3
<1>6. e \in Entry /\ e.device = p /\ Len(e.cfgs) <= MaxCfgs
    <2>1. CASE e = NewDevice(p)
        <3>1. NewDevice(p).cfgs = <<>> /\ Len(<<>>) = 0 /\ MaxCfgs \in Nat
            BY NewDeviceIsEntry, InterviewAssumption
        <3>2. QED
            BY <2>1, <3>1, NewDeviceIsEntry
    <2>2. CASE \E b \in from : e = dev[b]
        BY <1>1, <1>4, <2>2 DEF Known
    <2>3. QED
        BY <1>5, <2>1, <2>2
<1>7. /\ announced < MaxAnnounced /\ <<a, p>> \in Homes
      /\ announced' = announced + 1 /\ lost' = lost \ {a}
      /\ due' = {t \in due : t[1] \notin from \cup {a}} \cup
                UNION {{<<a, ep, cl>> : cl \in Clusters[p][ep] \cap Reportable(e, ep)} :
                          ep \in ToSet(Endpoints[p])}
      /\ reported' = {t \in reported : t[1] \notin from \cup {a}}
      /\ dev' = [b \in Short |-> IF b = a THEN e ELSE IF b \in from THEN Absent ELSE dev[b]]
      /\ requests' = requests \cup {Active(a, p)} /\ AskSave(a)
      /\ UNCHANGED <<calls, file>>
    <2> DEFINE F == {b \in Short : Known(b) /\ dev[b].device = p}
               E == IF F = {} THEN NewDevice(p) ELSE dev[CHOOSE b \in F : TRUE]
    <2>1. /\ announced < MaxAnnounced /\ <<a, p>> \in Homes
          /\ announced' = announced + 1 /\ lost' = lost \ {a}
          /\ due' = {t \in due : t[1] \notin F \cup {a}} \cup
                    UNION {{<<a, ep, cl>> : cl \in Clusters[p][ep] \cap Reportable(E, ep)} :
                              ep \in ToSet(Endpoints[p])}
          /\ reported' = {t \in reported : t[1] \notin F \cup {a}}
          /\ dev' = [b \in Short |-> IF b = a THEN E ELSE IF b \in F THEN Absent ELSE dev[b]]
          /\ requests' = requests \cup {Active(a, p)} /\ AskSave(a)
          /\ UNCHANGED <<calls, file>>
        BY Zenon DEF Announce, Active
    <2>2. F = from /\ E = e
        BY <1>2, <1>3
    <2> HIDE DEF F, E
    <2>3. QED
        BY <2>1, <2>2
<1>8. announced' \in 0..MaxAnnounced
    <2>1. announced \in 0..MaxAnnounced /\ MaxAnnounced \in Nat
        BY InterviewAssumption DEF Typed, Noted
    <2>2. QED
        BY <1>7, <2>1
<1>9. \A t : t \in due' <=>
          \/ t \in due /\ t[1] \notin from \cup {a}
          \/ \E ep \in ToSet(Endpoints[p]) : \E cl \in Clusters[p][ep] \cap Reportable(e, ep) :
                t = <<a, ep, cl>>
    <2> DEFINE News(ep) == {<<a, ep, cl>> : cl \in Clusters[p][ep] \cap Reportable(e, ep)}
    <2>1. ASSUME NEW t
          PROVE  t \in UNION {News(ep) : ep \in ToSet(Endpoints[p])} <=>
                     \E ep \in ToSet(Endpoints[p]) : t \in News(ep)
        OBVIOUS
    <2>2. ASSUME NEW t
          PROVE  t \in due' <=> \/ t \in due /\ t[1] \notin from \cup {a}
                                \/ \E ep \in ToSet(Endpoints[p]) : t \in News(ep)
        BY <1>7, <2>1
    <2>3. \A t, ep : t \in News(ep) <=>
              \E cl \in Clusters[p][ep] \cap Reportable(e, ep) : t = <<a, ep, cl>>
        OBVIOUS
    <2> HIDE DEF News
    <2>4. QED
        BY <2>2, <2>3
<1>10. dev' \in [Short -> Entry \cup {Absent}] /\ dev'[a] = e
       /\ \A b \in Short : b # a => dev'[b] = IF b \in from THEN Absent ELSE dev[b]
    BY <1>1, <1>6, <1>7
<1>11. Announced(a, p, e, from)
    BY <1>4, <1>5, <1>6, <1>7, <1>8, <1>9, <1>10, Zenon DEF Announced
<1>12. QED
    BY <1>11

(* The entry of one address changes from e to f.                             *)
Changes(a, e, f) ==
    /\ a \in Short /\ e \in Entry /\ f \in Entry /\ dev[a] = e /\ Known(a)
    /\ dev' \in [Short -> Entry \cup {Absent}] /\ dev'[a] = f
    /\ \A b \in Short : b # a => dev'[b] = dev[b]

LEMMA EntryChanges ==
    ASSUME Typed, NEW a \in Short, Known(a), NEW f \in Entry, dev' = [dev EXCEPT ![a] = f]
    PROVE  Changes(a, dev[a], f)
BY DEF Typed, Tabled, Known, Changes

ListingDone(r, e, l) ==
    /\ r \in requests /\ r.kind = "active"
    /\ l \in SoFar /\ l = ListEndpoints(r.to, e) /\ Changes(r.addr, e, l.entry)
    /\ requests' = (requests \ {r}) \cup {Simple(r.addr, r.to, q) : q \in l.asked}
    /\ UNCHANGED <<storage, reported, history>>

(* An answer about a device that is not in the table.                         *)
Ignored(r) ==
    /\ r \in requests /\ ~ Known(r.addr)
    /\ requests' = requests \ {r} /\ UNCHANGED <<dev, storage, reported, history>>

LEMMA ActiveEndpointsEffect ==
    ASSUME Typed, NEW r \in requests, ActiveEndpoints(r)
    PROVE  Ignored(r) \/ \E e, l : ListingDone(r, e, l)
<1>1. r \in Request /\ r.addr \in Short /\ r.to \in Device
    BY RequestParts DEF Typed, Posted
<1>2. CASE Known(r.addr)
    <2>1. PICK e \in Entry : e = dev[r.addr]
        BY <1>1, <1>2 DEF Typed, Tabled, Known
    <2>2. PICK l \in SoFar : l = ListEndpoints(r.to, e)
        BY <1>1, ListKeeps
    <2>3. l.entry \in Entry
        BY DEF SoFar
    <2>4. /\ r.kind = "active" /\ dev' = [dev EXCEPT ![r.addr] = l.entry]
          /\ requests' = (requests \ {r}) \cup {Simple(r.addr, r.to, q) : q \in l.asked}
          /\ UNCHANGED <<storage, reported, history>>
        BY <1>2, <2>1, <2>2, Zenon DEF ActiveEndpoints, Simple
    <2>5. Changes(r.addr, e, l.entry)
        BY <1>1, <1>2, <2>1, <2>3, <2>4, EntryChanges
    <2>6. ListingDone(r, e, l)
        BY <2>2, <2>4, <2>5, Zenon DEF ListingDone
    <2>7. QED
        BY <2>6
<1>3. CASE ~ Known(r.addr)
    BY <1>3, Zenon DEF ActiveEndpoints, Ignored
<1>4. QED
    BY <1>2, <1>3

DescribingDone(r, e, f) ==
    /\ r \in requests /\ r.kind = "simple" /\ r.ep \in EpId /\ r.index \in 1..MaxEndpoints
    /\ Changes(r.addr, e, f) /\ OnlyDescribes(f, e, r.index, Clusters[r.to][r.ep])
    /\ \/ /\ requests' = (requests \ {r}) \cup
                {Bind(r.addr, e.device, r.ep, c) : c \in Clusters[r.to][r.ep] \cap Configured(e, r.ep)}
          /\ AskSave(r.addr) /\ lost' = lost
       \/ /\ requests' = requests \ {r} /\ lost' = lost \cup {r.addr}
          /\ UNCHANGED <<saves, unsaved>>
    /\ UNCHANGED <<file, reported, announced, calls, due>>

LEMMA SimpleDescriptorEffect ==
    ASSUME Typed, NEW r \in requests, SimpleDescriptor(r)
    PROVE  Ignored(r) \/ \E e, f : DescribingDone(r, e, f)
<1>1. r \in Request /\ r.kind = "simple"
    BY DEF Typed, Posted, SimpleDescriptor
<1>2. /\ r.addr \in Short /\ r.to \in Device /\ r.ep \in EpId /\ r.index \in 1..MaxEndpoints
    BY <1>1, RequestParts
<1>3. CASE Known(r.addr)
    <2>1. PICK e \in Entry : e = dev[r.addr]
        BY <1>2, <1>3 DEF Typed, Tabled, Known
    <2>2. PICK cs \in SUBSET Cluster : cs = Clusters[r.to][r.ep]
        BY <1>2, InterviewAssumption
    <2>3. PICK f : f = Describing(e, r.index, cs)
        OBVIOUS
    <2>4. OnlyDescribes(f, e, r.index, cs) /\ f \in Entry
        BY <1>2, <2>3, Describes DEF OnlyDescribes
    <2>5. f.device = e.device /\ f.cfgs = e.cfgs
        BY <2>4 DEF OnlyDescribes
    <2>6. Configured(f, r.ep) = Configured(e, r.ep)
        BY <2>5 DEF Configured
    <2>7. dev' = [dev EXCEPT ![r.addr] = [dev[r.addr] EXCEPT !.slots[r.index].clusters = cs]]
        BY <1>3, <2>2, Zenon DEF SimpleDescriptor
    <2>8. dev' = [dev EXCEPT ![r.addr] = f]
        BY <2>1, <2>3, <2>7 DEF Describing
    <2>9. \/ /\ requests' = (requests \ {r}) \cup
                   {Bind(r.addr, f.device, r.ep, c) : c \in cs \cap Configured(f, r.ep)}
             /\ AskSave(r.addr) /\ lost' = lost
          \/ /\ requests' = requests \ {r} /\ lost' = lost \cup {r.addr}
             /\ UNCHANGED <<saves, unsaved>>
        BY <1>3, <2>1, <2>2, <2>3, Zenon DEF SimpleDescriptor, Bind, Describing
    <2>10. UNCHANGED <<file, reported, announced, calls, due>>
        BY <1>3, Zenon DEF SimpleDescriptor
    <2>11. Changes(r.addr, e, f)
        BY <1>2, <1>3, <2>1, <2>4, <2>8, EntryChanges
    <2>12. DescribingDone(r, e, f)
        BY <1>1, <1>2, <2>2, <2>4, <2>5, <2>6, <2>9, <2>10, <2>11 DEF DescribingDone
    <2>13. QED
        BY <2>12
<1>4. CASE ~ Known(r.addr)
    BY <1>4, Zenon DEF SimpleDescriptor, Ignored, storage, history
<1>5. QED
    BY <1>3, <1>4

ConfiguringDone(a, e, f, c) ==
    /\ Changes(a, e, f) /\ OnlyConfigures(f, e, c) /\ c \in Cfg /\ Len(e.cfgs) < MaxCfgs
    /\ calls' \in 0..MaxCalls
    /\ UNCHANGED <<requests, storage, reported, announced, lost, due>>

LEMMA CalledOnce == ASSUME Typed, Called PROVE calls' \in 0..MaxCalls
<1>1. calls \in 0..MaxCalls /\ MaxCalls \in Nat /\ calls < MaxCalls /\ calls' = calls + 1
    BY InterviewAssumption DEF Typed, Noted, Called
<1>2. QED
    BY <1>1

LEMMA SetReportConfigEffect ==
    ASSUME Typed, NEW a \in Short, NEW ep \in EpId, NEW cl \in Cluster, NEW st \in CfgState,
           SetReportConfig(a, ep, cl, st)
    PROVE  \E e, f, c : ConfiguringDone(a, e, f, c)
<1>1. PICK c \in Cfg : c = [ep |-> ep, cl |-> cl, state |-> st]
    BY DEF Cfg
<1>2. Known(a) /\ Called /\ Len(dev[a].cfgs) < MaxCfgs
    BY Zenon DEF SetReportConfig
<1>3. PICK e \in Entry : e = dev[a]
    BY <1>2 DEF Typed, Tabled, Known
<1>4. PICK f : f = Configuring(e, c)
    OBVIOUS
<1>5. OnlyConfigures(f, e, c) /\ f \in Entry
    BY <1>4, Configures DEF OnlyConfigures
<1>6. dev' = [dev EXCEPT ![a].cfgs = Append(@, c)]
    BY <1>1, Zenon DEF SetReportConfig
<1>7. dev' = [dev EXCEPT ![a] = f]
    BY <1>3, <1>4, <1>6 DEF Configuring
<1>8. Changes(a, e, f)
    BY <1>2, <1>3, <1>5, <1>7, EntryChanges
<1>9. UNCHANGED <<requests, storage, reported, announced, lost, due>>
    BY Zenon DEF SetReportConfig
<1>10. ConfiguringDone(a, e, f, c)
    BY <1>2, <1>3, <1>5, <1>8, <1>9, CalledOnce DEF ConfiguringDone
<1>11. QED
    BY <1>10

Removing(a) ==
    /\ a \in Short /\ Known(a)
    /\ dev' \in [Short -> Entry \cup {Absent}] /\ dev'[a] = Absent
    /\ \A b \in Short : b # a => dev'[b] = dev[b]
    /\ reported' = {t \in reported : t[1] # a} /\ calls' \in 0..MaxCalls
    /\ UNCHANGED <<requests, storage, announced, lost, due>>

LEMMA RemoveDeviceEffect ==
    ASSUME Typed, NEW a \in Short, RemoveDevice(a)
    PROVE  Removing(a)
<1>1. /\ Called /\ Known(a) /\ dev' = [dev EXCEPT ![a] = Absent]
      /\ reported' = {t \in reported : t[1] # a}
      /\ UNCHANGED <<requests, storage, announced, lost, due>>
    BY Zenon DEF RemoveDevice
<1>2. dev' \in [Short -> Entry \cup {Absent}] /\ dev'[a] = Absent
      /\ \A b \in Short : b # a => dev'[b] = dev[b]
    BY <1>1 DEF Typed, Tabled
<1>3. QED
    BY <1>1, <1>2, CalledOnce, Zenon DEF Removing

BindingAsked(a, ep, cl) ==
    /\ a \in Short /\ ep \in EpId /\ cl \in Cluster /\ Known(a) /\ dev[a] \in Entry
    /\ requests' = requests \cup {Bind(a, dev[a].device, ep, cl)} /\ calls' \in 0..MaxCalls
    /\ UNCHANGED <<dev, storage, reported, announced, lost, due>>

LEMMA BindClusterEffect ==
    ASSUME Typed, NEW a \in Short, NEW ep \in EpId, NEW cl \in Cluster, BindCluster(a, ep, cl)
    PROVE  BindingAsked(a, ep, cl)
<1>1. /\ Called /\ Known(a) /\ requests' = requests \cup {Bind(a, dev[a].device, ep, cl)}
      /\ UNCHANGED <<dev, storage, reported, announced, lost, due>>
    BY Zenon DEF BindCluster, Bind
<1>2. dev[a] \in Entry
    BY <1>1 DEF Typed, Tabled, Known
<1>3. QED
    BY <1>1, <1>2, CalledOnce, Zenon DEF BindingAsked

Saving(a) ==
    /\ a \in Short /\ saves' = saves \ {a}
    /\ file' \in [Short -> Saved \cup {Absent}] /\ \A b \in Short : b # a => file'[b] = file[b]
    /\ unsaved' \subseteq Short /\ \A b \in Short : b # a => (b \in unsaved' <=> b \in unsaved)
    /\ Known(a) => file'[a] = ToJson(dev[a]) \/ a \in unsaved'
    /\ UNCHANGED <<dev, requests, reported, history>>

LEMMA RunSaveEffect ==
    ASSUME Typed, NEW a \in Short, RunSave(a)
    PROVE  Saving(a)
<1>1. saves' = saves \ {a} /\ UNCHANGED <<dev, requests, reported, history>>
    BY Zenon DEF RunSave
<1>2. file \in [Short -> Saved \cup {Absent}] /\ unsaved \subseteq Short
    BY DEF Typed, Posted
<1>3. CASE Known(a) /\ file' = [file EXCEPT ![a] = ToJson(dev[a])] /\ unsaved' = unsaved \ {a}
    <2>1. dev[a] \in Entry
        BY <1>3 DEF Typed, Tabled, Known
    <2>2. PICK j \in Saved : j = ToJson(dev[a])
        BY <2>1, SavedAndLoaded
    <2>3. file' = [file EXCEPT ![a] = j]
        BY <1>3, <2>2
    <2>4. /\ file' \in [Short -> Saved \cup {Absent}] /\ file'[a] = j
          /\ \A b \in Short : b # a => file'[b] = file[b]
        BY <1>2, <2>3
    <2>5. QED
        BY <1>1, <1>2, <1>3, <2>2, <2>4 DEF Saving
<1>4. CASE unsaved' = unsaved \cup {a} /\ \E left \in {file[a], Absent} : file' = [file EXCEPT ![a] = left]
    BY <1>1, <1>2, <1>4 DEF Saving
<1>5. CASE ~ Known(a) /\ UNCHANGED <<file, unsaved>>
    BY <1>1, <1>2, <1>5 DEF Saving
<1>6. QED
    BY <1>3, <1>4, <1>5, Zenon DEF RunSave

(* Every step is one of these, a binding bound, a request that fails, or a stutter. *)
LEMMA Effects ==
    ASSUME Typed, [Next]_vars
    PROVE  \/ \E a, p, e, from : Announced(a, p, e, from)
           \/ \E r, e, l : ListingDone(r, e, l)
           \/ \E r, e, f : DescribingDone(r, e, f)
           \/ \E r : Ignored(r)
           \/ \E r \in requests : Bound(r)
           \/ \E r \in requests : RequestFails(r)
           \/ \E a : Saving(a)
           \/ \E a : Removing(a)
           \/ \E a, e, f, c : ConfiguringDone(a, e, f, c)
           \/ \E a, ep, cl : BindingAsked(a, ep, cl)
           \/ UNCHANGED vars
<1>1. ASSUME NEW a \in Short, NEW p \in Device, Announce(a, p)
      PROVE  \E e, from : Announced(a, p, e, from)
    BY <1>1, AnnounceEffect
<1>2. ASSUME NEW r \in requests, ActiveEndpoints(r)
      PROVE  Ignored(r) \/ \E e, l : ListingDone(r, e, l)
    BY <1>2, ActiveEndpointsEffect
<1>3. ASSUME NEW r \in requests, SimpleDescriptor(r)
      PROVE  Ignored(r) \/ \E e, f : DescribingDone(r, e, f)
    BY <1>3, SimpleDescriptorEffect
<1>4. ASSUME NEW a \in Short, RunSave(a) PROVE Saving(a)
    BY <1>4, RunSaveEffect
<1>5. ASSUME NEW a \in Short, RemoveDevice(a) PROVE Removing(a)
    BY <1>5, RemoveDeviceEffect
<1>6. ASSUME NEW a \in Short, NEW ep \in EpId, NEW cl \in Cluster, BindCluster(a, ep, cl)
      PROVE  BindingAsked(a, ep, cl)
    BY <1>6, BindClusterEffect
<1>7. ASSUME NEW a \in Short, NEW ep \in EpId, NEW cl \in Cluster, NEW st \in CfgState,
             SetReportConfig(a, ep, cl, st)
      PROVE  \E e, f, c : ConfiguringDone(a, e, f, c)
    BY <1>7, SetReportConfigEffect
<1>8. CASE Next
    BY <1>1, <1>2, <1>3, <1>4, <1>5, <1>6, <1>7, <1>8, Zenon DEF Next, Answer
<1>9. CASE UNCHANGED vars
    BY <1>9
<1>10. QED
    BY <1>8, <1>9

--------------------------------------------------------------------------------
(* Typing and the numbers of endpoints.                                      *)

LEMMA TabledFrame ==
    ASSUME Tabled, NEW a, NEW e, NEW f, Changes(a, e, f), Len(f.cfgs) <= MaxCfgs
    PROVE  Tabled'
<1>1. ASSUME NEW b \in Short, Known(b)' PROVE Len(dev'[b].cfgs) <= MaxCfgs
    <2>1. CASE b = a
        BY <2>1 DEF Changes
    <2>2. CASE b # a
        BY <1>1, <2>2 DEF Changes, Known, Tabled
    <2>3. QED
        BY <2>1, <2>2
<1>2. QED
    BY <1>1 DEF Changes, Tabled, Known

LEMMA TypedStep == Typed /\ [Next]_vars => Typed'
<1> SUFFICES ASSUME Typed, [Next]_vars PROVE Typed'
    OBVIOUS
<1> USE DEF storage, history
<1>1. ASSUME NEW a, NEW p, NEW e, NEW from, Announced(a, p, e, from) PROVE Typed'
    <2>1. a \in Short /\ p \in Device /\ e \in Entry
        BY <1>1 DEF Announced
    <2>2. Tabled'
        <3>1. ASSUME NEW b \in Short, Known(b)' PROVE Len(dev'[b].cfgs) <= MaxCfgs
            <4>1. CASE b = a
                BY <1>1, <4>1 DEF Announced
            <4>2. CASE b # a
                <5>1. dev'[b] = dev[b] /\ Known(b)
                    BY <1>1, <3>1, <4>2 DEF Announced, Known
                <5>2. QED
                    BY <5>1 DEF Typed, Tabled
            <4>3. QED
                BY <4>1, <4>2
        <3>2. QED
            BY <1>1, <3>1 DEF Announced, Tabled, Known
    <2>3. Posted'
        BY <1>1, <2>1, RequestsMade DEF Announced, Typed, Posted, AskSave
    <2>4. Noted'
        <3>1. ASSUME NEW ep \in ToSet(Endpoints[p]), NEW cl \in Clusters[p][ep]
              PROVE  <<a, ep, cl>> \in Short \X EpId \X Cluster
            <4>1. ep \in EpId
                <5>1. Endpoints[p] \in Seq(EpId)
                    BY <2>1, InterviewAssumption
                <5>2. QED
                    BY <5>1, LenProperties, ElementOfSeq DEF ToSet
            <4>2. cl \in Cluster
                BY <2>1, <4>1, InterviewAssumption
            <4>3. QED
                BY <2>1, <4>1, <4>2
        <3>2. ASSUME NEW t \in due' PROVE t \in Short \X EpId \X Cluster
            <4>1. CASE t \in due
                BY <4>1 DEF Typed, Noted
            <4>2. CASE t \notin due
                BY <1>1, <3>1, <4>2 DEF Announced
            <4>3. QED
                BY <4>1, <4>2
        <3>3. reported' \subseteq reported /\ lost' \subseteq lost
              /\ announced' \in 0..MaxAnnounced /\ calls' = calls
            BY <1>1 DEF Announced
        <3>4. QED
            BY <3>2, <3>3 DEF Typed, Noted
    <2>5. QED
        BY <2>2, <2>3, <2>4 DEF Typed
<1>2. ASSUME NEW r, NEW e, NEW l, ListingDone(r, e, l) PROVE Typed'
    <2>1. r \in Request /\ r.addr \in Short /\ r.to \in Device
        BY <1>2, RequestParts DEF ListingDone, Typed, Posted
    <2>2. e \in Entry /\ Len(e.cfgs) <= MaxCfgs /\ l \in SoFar /\ l = ListEndpoints(r.to, e)
          /\ Changes(r.addr, e, l.entry)
        BY <1>2 DEF ListingDone, Changes, Typed, Tabled
    <2>3. l.entry.cfgs = e.cfgs
        BY <2>1, <2>2, ListKeeps DEF SameBut
    <2>4. Tabled'
        BY <2>2, <2>3, TabledFrame DEF Typed
    <2>5. \A q \in l.asked : Simple(r.addr, r.to, q) \in Request
        BY <2>1, <2>2, RequestsMade DEF SoFar
    <2>6. Posted'
        BY <1>2, <2>5 DEF ListingDone, Typed, Posted
    <2>7. Noted'
        BY <1>2 DEF ListingDone, Typed, Noted
    <2>8. QED
        BY <2>4, <2>6, <2>7 DEF Typed
<1>3. ASSUME NEW r, NEW e, NEW f, DescribingDone(r, e, f) PROVE Typed'
    <2>1. r \in Request /\ r.addr \in Short /\ r.ep \in EpId
        BY <1>3, RequestParts DEF DescribingDone, Typed, Posted
    <2>2. e \in Entry /\ Len(e.cfgs) <= MaxCfgs /\ f.cfgs = e.cfgs /\ Changes(r.addr, e, f)
        BY <1>3 DEF DescribingDone, OnlyDescribes, Changes, Typed, Tabled
    <2>3. Tabled'
        BY <2>2, TabledFrame DEF Typed
    <2>4. e.device \in Device /\ Configured(e, r.ep) \subseteq Cluster
        BY <2>2, ConfiguredClusters DEF Entry
    <2>5. \A c \in Configured(e, r.ep) : Bind(r.addr, e.device, r.ep, c) \in Request
        BY <2>1, <2>4, RequestsMade
    <2>6. Posted'
        BY <1>3, <2>1, <2>5 DEF DescribingDone, Typed, Posted, AskSave
    <2>7. Noted'
        BY <1>3, <2>1 DEF DescribingDone, Typed, Noted
    <2>8. QED
        BY <2>3, <2>6, <2>7 DEF Typed
<1>4. ASSUME NEW r, Ignored(r) PROVE Typed'
    BY <1>4 DEF Ignored, Typed, Tabled, Posted, Noted, Known
<1>5. ASSUME NEW r \in requests, Bound(r) PROVE Typed'
    <2>1. r \in Request /\ r.addr \in Short /\ r.kind = "bind"
        BY <1>5, RequestParts DEF Bound, Typed, Posted
    <2>2. <<r.addr, r.ep, r.cl>> \in Short \X EpId \X Cluster
        BY <2>1, RequestParts
    <2>3. requests' \subseteq requests /\ reported' \subseteq reported \cup {<<r.addr, r.ep, r.cl>>}
          /\ UNCHANGED <<dev, storage, history>>
        BY <1>5 DEF Bound
    <2>4. QED
        BY <2>2, <2>3 DEF Typed, Tabled, Posted, Noted, Known
<1>6. ASSUME NEW r \in requests, RequestFails(r) PROVE Typed'
    <2>1. r.addr \in Short
        BY RequestParts DEF Typed, Posted
    <2>2. QED
        BY <1>6, <2>1 DEF RequestFails, Typed, Tabled, Posted, Noted, Known
<1>7. ASSUME NEW a, Saving(a) PROVE Typed'
    BY <1>7 DEF Saving, Typed, Tabled, Posted, Noted, Known
<1>8. ASSUME NEW a, Removing(a) PROVE Typed'
    <2>1. Tabled'
        BY <1>8 DEF Removing, Typed, Tabled, Known
    <2>2. Posted' /\ Noted'
        BY <1>8 DEF Removing, Typed, Posted, Noted
    <2>3. QED
        BY <2>1, <2>2 DEF Typed
<1>9. ASSUME NEW a, NEW e, NEW f, NEW c, ConfiguringDone(a, e, f, c) PROVE Typed'
    <2>1. Len(f.cfgs) <= MaxCfgs
        <3>1. Len(e.cfgs) \in Nat /\ Len(f.cfgs) = Len(e.cfgs) + 1 /\ Len(e.cfgs) < MaxCfgs
              /\ MaxCfgs \in Nat
            BY <1>9, LenProperties, InterviewAssumption DEF ConfiguringDone, OnlyConfigures, Changes, Entry
        <3>2. QED
            BY <3>1
    <2>2. Tabled'
        BY <1>9, <2>1, TabledFrame DEF ConfiguringDone, Typed
    <2>3. Posted' /\ Noted'
        BY <1>9 DEF ConfiguringDone, Typed, Posted, Noted
    <2>4. QED
        BY <2>2, <2>3 DEF Typed
<1>10. ASSUME NEW a, NEW ep, NEW cl, BindingAsked(a, ep, cl) PROVE Typed'
    <2>1. Bind(a, dev[a].device, ep, cl) \in Request
        BY <1>10, RequestsMade DEF BindingAsked, Entry
    <2>2. QED
        BY <1>10, <2>1 DEF BindingAsked, Typed, Tabled, Posted, Noted, Known
<1>11. CASE UNCHANGED vars
    BY <1>11 DEF vars, Typed, Tabled, Posted, Noted, Known
<1>12. QED
    BY <1>1, <1>2, <1>3, <1>4, <1>5, <1>6, <1>7, <1>8, <1>9, <1>10, <1>11, Effects, Zenon

LEMMA TypedInit == Init => Typed
<1>1. ASSUME Init PROVE Tabled /\ Posted /\ Noted
    BY <1>1, InterviewAssumption DEF Init, Tabled, Posted, Noted, Known
<1>2. QED
    BY <1>1 DEF Typed

LEMMA AlwaysTyped == Spec => []Typed
BY TypedInit, TypedStep, PTL DEF Spec

(* What the variables hold (mod_zig_types.h): counts and indices stay within the     *)
(* arrays of mod_zig_types.h:111-112, and what is on flash can be read back.    *)
THEOREM InterviewTyping == Spec => []TypeOK
<1>1. Typed => TypeOK
    <2> SUFFICES ASSUME Typed PROVE TypeOK
        OBVIOUS
    <2>1. ASSUME NEW a \in Short, file[a] # Absent PROVE FromJson(file[a]) \in Entry
        BY <2>1, LoadedIsEntry DEF Typed, Posted
    <2>2. QED
        BY <2>1 DEF Typed, Tabled, Posted, Noted, TypeOK, Known
<1>2. QED
    BY <1>1, AlwaysTyped, PTL

(* The numbers of a device's records stay distinct in every entry.              *)
LEMMA ListedOnceStep == Typed /\ EndpointsListedOnce /\ [Next]_vars => EndpointsListedOnce'
<1> SUFFICES ASSUME Typed, EndpointsListedOnce, [Next]_vars PROVE EndpointsListedOnce'
    OBVIOUS
<1>1. \A b \in Short : Known(b) => Distinct(dev[b])
    BY DEF EndpointsListedOnce, Distinct
<1>2. SUFFICES \A b \in Short : Known(b)' => Distinct(dev'[b])
    BY DEF EndpointsListedOnce, Distinct, Known
<1>3. ASSUME dev' = dev PROVE \A b \in Short : Known(b)' => Distinct(dev'[b])
    BY <1>1, <1>3 DEF Known
<1>4. ASSUME NEW a, NEW e, NEW f, Changes(a, e, f), Distinct(e) => Distinct(f), NEW b \in Short, Known(b)'
      PROVE  Distinct(dev'[b])
    BY <1>1, <1>4 DEF Changes, Known
<1>5. ASSUME NEW a, NEW p, NEW e, NEW from, Announced(a, p, e, from), NEW b \in Short, Known(b)'
      PROVE  Distinct(dev'[b])
    <2>1. CASE b # a
        BY <1>1, <1>5, <2>1 DEF Announced, Known
    <2>2. CASE b = a /\ e = NewDevice(p)
        <3>1. dev'[b] = e /\ e.count = 0
            BY <1>5, <2>2, NewDeviceIsEntry DEF Announced
        <3>2. 1..e.count = {}
            BY <3>1
        <3>3. QED
            BY <3>1, <3>2 DEF Distinct
    <2>3. CASE b = a /\ \E k \in from : e = dev[k]
        BY <1>1, <1>5, <2>3 DEF Announced
    <2>4. QED
        BY <1>5, <2>1, <2>2, <2>3 DEF Announced
<1>6. ASSUME NEW r, NEW e, NEW l, ListingDone(r, e, l) PROVE Distinct(e) => Distinct(l.entry)
    <2>1. r.to \in Device /\ e \in Entry
        BY <1>6, RequestParts DEF ListingDone, Changes, Typed, Posted
    <2>2. QED
        BY <1>6, <2>1, ListKeeps DEF ListingDone
<1>7. ASSUME NEW r, NEW e, NEW f, DescribingDone(r, e, f) PROVE Distinct(e) => Distinct(f)
    <2>1. e \in Entry /\ f.count = e.count /\ \A k \in 1..MaxEndpoints : f.slots[k].ep = e.slots[k].ep
        BY <1>7 DEF DescribingDone, OnlyDescribes, Changes
    <2>2. \A k \in 1..e.count : k \in 1..MaxEndpoints
        BY <2>1, JsonAssumption DEF Entry
    <2>3. QED
        BY <2>1, <2>2 DEF Distinct
<1>8. ASSUME NEW a, NEW e, NEW f, NEW c, ConfiguringDone(a, e, f, c) PROVE Distinct(e) => Distinct(f)
    BY <1>8 DEF ConfiguringDone, OnlyConfigures, Distinct
<1>9. ASSUME NEW a, Removing(a), NEW b \in Short, Known(b)' PROVE Distinct(dev'[b])
    BY <1>1, <1>9 DEF Removing, Known
<1>10. ASSUME \/ \E r : Ignored(r)
              \/ \E r \in requests : Bound(r) \/ RequestFails(r)
              \/ \E a : Saving(a)
              \/ \E a, ep, cl : BindingAsked(a, ep, cl)
              \/ UNCHANGED vars
       PROVE  dev' = dev
    BY <1>10, Zenon DEF Ignored, Bound, RequestFails, Saving, BindingAsked, vars
<1>11. ASSUME \/ \E r, e, l : ListingDone(r, e, l)
              \/ \E r, e, f : DescribingDone(r, e, f)
              \/ \E a, e, f, c : ConfiguringDone(a, e, f, c)
       PROVE  \E a, e, f : Changes(a, e, f) /\ (Distinct(e) => Distinct(f))
    BY <1>6, <1>7, <1>8, <1>11, Zenon DEF ListingDone, DescribingDone, ConfiguringDone
<1>12. QED
    BY <1>3, <1>4, <1>5, <1>9, <1>10, <1>11, Effects, Zenon

(* However many interviews run into each other, active_ep_cb                    *)
(* (mod_zig_handlers.c:198-214) finds the record an endpoint has.               *)
THEOREM NoEndpointIsListedTwice == Spec => []EndpointsListedOnce
<1>1. Init => EndpointsListedOnce
    BY DEF Init, EndpointsListedOnce, Known
<1>2. QED
    BY <1>1, ListedOnceStep, AlwaysTyped, PTL DEF Spec

--------------------------------------------------------------------------------
(* Addresses that do not pass from one device to another.  Every record of a      *)
(* device is then where its number says, or the array is empty; it holds nothing   *)
(* or the clusters of its endpoint; and every description under way carries the    *)
(* index of its endpoint.                                                    *)

OneHome == \A h, k \in Homes : h[1] = k[1] => h[2] = k[2]

Described(p, i) == Clusters[p][Numbers(p).slots[i].ep]

Fits(e) ==
    /\ e.count = 0 \/ Listed(e.device, e)
    /\ \A i \in 1..MaxEndpoints :
          \/ e.slots[i].clusters = {}
          \/ i <= Numbers(e.device).count /\ e.slots[i].clusters = Described(e.device, i)

AtHome == /\ \A a \in Short : Known(a) => <<a, dev[a].device>> \in Homes
          /\ \A r \in requests : <<r.addr, r.to>> \in Homes
AllFit  == \A a \in Short : Known(a) => Fits(dev[a])
Indexed == \A r \in requests : r.kind = "simple" => <<r.ep, r.index>> \in Asks(Numbers(r.to))
Sound   == AtHome /\ AllFit /\ Indexed

LEMMA NewFits == ASSUME NEW p \in Device PROVE Fits(NewDevice(p))
BY NewDeviceIsEntry DEF Fits

LEMMA ListingFits ==
    ASSUME NEW p \in Device, NEW e \in Entry, e.device = p, Fits(e),
           NEW l \in SoFar, l = ListEndpoints(p, e)
    PROVE  /\ Fits(l.entry) /\ Listed(p, l.entry) /\ l.entry.device = p
           /\ l.asked \subseteq Asks(Numbers(p))
           /\ Numbers(p).count < MaxEndpoints => l.asked = Asks(Numbers(p))
<1>1. SameBut(e, l.entry)
    BY ListKeeps
<1>2. /\ Listed(p, l.entry) /\ l.asked \subseteq Asks(Numbers(p))
      /\ Numbers(p).count < MaxEndpoints => l.asked = Asks(Numbers(p))
    <2>1. CASE e.count = 0
        BY <2>1, ListNew
    <2>2. CASE Listed(p, e)
        BY <2>2, ListAgain
    <2>3. QED
        BY <2>1, <2>2 DEF Fits
<1>3. QED
    BY <1>1, <1>2 DEF Fits, SameBut

LEMMA AskedNumber ==
    ASSUME NEW p \in Device, NEW q
    PROVE  q \in Asks(Numbers(p)) <=>
               \E i \in 1..Numbers(p).count : i \in 1..MaxEndpoints /\ q = <<Numbers(p).slots[i].ep, i>>
<1>1. \A i \in 1..Numbers(p).count : i \in 1..MaxEndpoints
    BY NumbersFacts, JsonAssumption DEF Entry
<1>2. QED
    BY <1>1 DEF Asks

LEMMA DescribingFits ==
    ASSUME NEW e \in Entry, Fits(e), NEW ep \in EpId, NEW i \in 1..MaxEndpoints,
           <<ep, i>> \in Asks(Numbers(e.device)),
           NEW f, OnlyDescribes(f, e, i, Clusters[e.device][ep])
    PROVE  /\ Fits(f) /\ f.device = e.device
           /\ Listed(e.device, e) => Listed(e.device, f)
           /\ f.slots[i].clusters = Described(e.device, i)
           /\ \A k \in 1..MaxEndpoints : k # i => f.slots[k].clusters = e.slots[k].clusters
<1>1. PICK p \in Device : p = e.device
    BY DEF Entry
<1>2. i <= Numbers(p).count /\ Numbers(p).slots[i].ep = ep
    BY <1>1, AskedNumber, NumbersFacts DEF Entry
<1>3. /\ f \in Entry /\ f.device = p /\ f.count = e.count
      /\ f.slots[i].clusters = Described(p, i)
      /\ \A k \in 1..MaxEndpoints : f.slots[k].ep = e.slots[k].ep
      /\ \A k \in 1..MaxEndpoints : k # i => f.slots[k].clusters = e.slots[k].clusters
    BY <1>1, <1>2 DEF OnlyDescribes, Described
<1>4. Listed(p, e) => Listed(p, f)
    <2>1. \A k \in 1..e.count : k \in 1..MaxEndpoints
        BY JsonAssumption DEF Entry
    <2>2. QED
        BY <1>3, <2>1 DEF Listed, Alike
<1>5. Fits(f)
    BY <1>1, <1>2, <1>3, <1>4 DEF Fits
<1>6. QED
    BY <1>1, <1>3, <1>4, <1>5

LEMMA OwnAddress ==
    ASSUME OneHome, AtHome, NEW r \in requests, r.addr \in Short, Known(r.addr)
    PROVE  r.to = dev[r.addr].device
<1>1. <<r.addr, r.to>> \in Homes /\ <<r.addr, dev[r.addr].device>> \in Homes
    BY DEF AtHome
<1>2. QED
    BY <1>1 DEF OneHome

(* What the tables of two states have to share for the invariant to go on.       *)
LEMMA SoundFrame ==
    ASSUME Typed, Sound,
           \A b \in Short : Known(b)' => \/ Known(b) /\ dev'[b] = dev[b]
                                         \/ <<b, dev'[b].device>> \in Homes /\ Fits(dev'[b]),
           \A r \in requests' : \/ r \in requests
                                \/ /\ <<r.addr, r.to>> \in Homes
                                   /\ r.kind = "simple" => <<r.ep, r.index>> \in Asks(Numbers(r.to))
    PROVE  Sound'
BY DEF Sound, AtHome, AllFit, Indexed

LEMMA SoundStep == ASSUME OneHome PROVE Typed /\ Sound /\ [Next]_vars => Sound'
<1> SUFFICES ASSUME Typed, Sound, [Next]_vars PROVE Sound'
    OBVIOUS
<1>1. ASSUME NEW a, NEW p, NEW e, NEW from, Announced(a, p, e, from) PROVE Sound'
    <2>1. /\ a \in Short /\ p \in Device /\ <<a, p>> \in Homes /\ e \in Entry /\ e.device = p
          /\ e = NewDevice(p) \/ \E b \in from : e = dev[b]
          /\ dev'[a] = e /\ requests' = requests \cup {Active(a, p)}
          /\ \A b \in from : b \in Short /\ Known(b)
        BY <1>1 DEF Announced
    <2>2. Fits(e)
        BY <2>1, NewFits DEF Sound, AllFit
    <2>3. ASSUME NEW b \in Short, Known(b)'
          PROVE  \/ Known(b) /\ dev'[b] = dev[b]
                 \/ <<b, dev'[b].device>> \in Homes /\ Fits(dev'[b])
        <3>1. CASE b = a
            BY <2>1, <2>2, <3>1
        <3>2. CASE b # a
            BY <1>1, <2>3, <3>2 DEF Announced, Known
        <3>3. QED
            BY <3>1, <3>2
    <2>4. Active(a, p).addr = a /\ Active(a, p).to = p /\ Active(a, p).kind = "active"
        BY DEF Active
    <2>5. QED
        BY <2>1, <2>3, <2>4, SoundFrame
<1>2. ASSUME NEW r, NEW e, NEW l, ListingDone(r, e, l) PROVE Sound'
    <2>1. /\ r \in requests /\ r.addr \in Short /\ r.to \in Device /\ Changes(r.addr, e, l.entry)
          /\ e \in Entry /\ e = dev[r.addr] /\ Known(r.addr)
          /\ l \in SoFar /\ l = ListEndpoints(r.to, e)
        BY <1>2, RequestParts DEF ListingDone, Changes, Typed, Posted
    <2>2. r.to = e.device /\ Fits(e) /\ <<r.addr, r.to>> \in Homes
        BY <2>1, OwnAddress DEF Sound, AllFit, AtHome
    <2>3. Fits(l.entry) /\ l.entry.device = r.to /\ l.asked \subseteq Asks(Numbers(r.to))
        BY <2>1, <2>2, ListingFits
    <2>4. \A b \in Short : Known(b)' => \/ Known(b) /\ dev'[b] = dev[b]
                                        \/ <<b, dev'[b].device>> \in Homes /\ Fits(dev'[b])
        BY <2>1, <2>2, <2>3 DEF Changes, Known
    <2>5. ASSUME NEW s \in requests'
          PROVE  \/ s \in requests
                 \/ /\ <<s.addr, s.to>> \in Homes
                    /\ s.kind = "simple" => <<s.ep, s.index>> \in Asks(Numbers(s.to))
        <3>1. CASE s \notin requests
            <4>1. PICK q \in l.asked : s = Simple(r.addr, r.to, q)
                BY <1>2, <3>1 DEF ListingDone
            <4>2. q \in EpId \X (1..MaxEndpoints)
                BY <2>1 DEF SoFar
            <4>3. s.addr = r.addr /\ s.to = r.to /\ <<s.ep, s.index>> = q
                BY <4>1, <4>2 DEF Simple
            <4>4. QED
                BY <2>2, <2>3, <4>3
        <3>2. QED
            BY <3>1
    <2>6. QED
        BY <2>4, <2>5, SoundFrame
<1>3. ASSUME NEW r, NEW e, NEW f, DescribingDone(r, e, f) PROVE Sound'
    <2>1. /\ r \in requests /\ r.kind = "simple" /\ r.addr \in Short /\ r.to \in Device
          /\ r.ep \in EpId /\ r.index \in 1..MaxEndpoints
          /\ Changes(r.addr, e, f) /\ e \in Entry /\ e = dev[r.addr] /\ Known(r.addr)
          /\ OnlyDescribes(f, e, r.index, Clusters[r.to][r.ep])
        BY <1>3, RequestParts DEF DescribingDone, Changes, Typed, Posted
    <2>2. /\ r.to = e.device /\ Fits(e) /\ <<r.addr, r.to>> \in Homes
          /\ <<r.ep, r.index>> \in Asks(Numbers(r.to))
        BY <2>1, OwnAddress DEF Sound, AllFit, AtHome, Indexed
    <2>3. Fits(f) /\ f.device = e.device
        BY <2>1, <2>2, DescribingFits
    <2>4. \A b \in Short : Known(b)' => \/ Known(b) /\ dev'[b] = dev[b]
                                        \/ <<b, dev'[b].device>> \in Homes /\ Fits(dev'[b])
        BY <2>1, <2>2, <2>3 DEF Changes, Known
    <2>5. ASSUME NEW s \in requests'
          PROVE  \/ s \in requests
                 \/ /\ <<s.addr, s.to>> \in Homes
                    /\ s.kind = "simple" => <<s.ep, s.index>> \in Asks(Numbers(s.to))
        <3>1. CASE s \notin requests
            <4>1. PICK c : s = Bind(r.addr, e.device, r.ep, c)
                BY <1>3, <3>1 DEF DescribingDone
            <4>2. s.addr = r.addr /\ s.to = r.to /\ s.kind = "bind"
                BY <2>2, <4>1 DEF Bind
            <4>3. QED
                BY <2>2, <4>2
        <3>2. QED
            BY <3>1
    <2>6. QED
        BY <2>4, <2>5, SoundFrame
<1>4. ASSUME dev' = dev, requests' \subseteq requests PROVE Sound'
    BY <1>4 DEF Sound, AtHome, AllFit, Indexed, Known
<1>5. ASSUME NEW a, Removing(a) PROVE Sound'
    <2>1. \A b \in Short : Known(b)' => Known(b) /\ dev'[b] = dev[b]
        BY <1>5 DEF Removing, Known
    <2>2. requests' = requests
        BY <1>5 DEF Removing
    <2>3. QED
        BY <2>1, <2>2, SoundFrame
<1>6. ASSUME NEW a, NEW e, NEW f, NEW c, ConfiguringDone(a, e, f, c) PROVE Sound'
    <2>1. /\ a \in Short /\ Known(a) /\ e = dev[a] /\ Changes(a, e, f) /\ requests' = requests
          /\ f.device = e.device /\ f.count = e.count /\ f.slots = e.slots
        BY <1>6 DEF ConfiguringDone, OnlyConfigures, Changes
    <2>2. <<a, e.device>> \in Homes /\ Fits(e)
        BY <2>1 DEF Sound, AtHome, AllFit
    <2>3. Fits(f)
        BY <2>1, <2>2 DEF Fits, Listed, Alike
    <2>4. \A b \in Short : Known(b)' => \/ Known(b) /\ dev'[b] = dev[b]
                                        \/ <<b, dev'[b].device>> \in Homes /\ Fits(dev'[b])
        BY <2>1, <2>2, <2>3 DEF Changes, Known
    <2>5. QED
        BY <2>1, <2>4, SoundFrame
<1>7. ASSUME NEW a, NEW ep, NEW cl, BindingAsked(a, ep, cl) PROVE Sound'
    <2>1. /\ a \in Short /\ Known(a) /\ requests' = requests \cup {Bind(a, dev[a].device, ep, cl)}
          /\ dev' = dev
        BY <1>7 DEF BindingAsked
    <2>2. PICK s : s = Bind(a, dev[a].device, ep, cl)
        OBVIOUS
    <2>3. s.addr = a /\ s.to = dev[a].device /\ s.kind = "bind"
        BY <2>2 DEF Bind
    <2>4. <<s.addr, s.to>> \in Homes
        BY <2>1, <2>3 DEF Sound, AtHome
    <2>5. \A b \in Short : Known(b)' => Known(b) /\ dev'[b] = dev[b]
        BY <2>1 DEF Known
    <2>6. \A x \in requests' : x \in requests \/ x = s
        BY <2>1, <2>2
    <2>7. QED
        BY <2>3, <2>4, <2>5, <2>6, SoundFrame
<1>8. ASSUME \/ \E r : Ignored(r)
             \/ \E r \in requests : Bound(r) \/ RequestFails(r)
             \/ \E a : Saving(a)
             \/ UNCHANGED vars
      PROVE  dev' = dev /\ requests' \subseteq requests
    BY <1>8, Zenon DEF Ignored, Bound, RequestFails, Saving, vars
<1>9. QED
    BY <1>1, <1>2, <1>3, <1>4, <1>5, <1>6, <1>7, <1>8, Effects, Zenon

LEMMA AlwaysSound == ASSUME OneHome PROVE Spec => []Sound
<1>1. Init => Sound
    BY DEF Init, Sound, AtHome, AllFit, Indexed, Known
<1>2. Typed /\ Sound /\ [Next]_vars => Sound'
    BY SoundStep
<1>3. QED
    BY <1>1, <1>2, AlwaysTyped, PTL DEF Spec

(* If no two devices share an address, simple_desc_req_cb                     *)
(* (mod_zig_handlers.c:249-263) writes the clusters of an endpoint into its own   *)
(* record, whatever order the answers of old and new interviews come in.          *)
THEOREM RecordsDescribeTheirEndpoints == ASSUME OneHome PROVE Spec => []DescriptionsFit
<1>1. Typed /\ Sound => DescriptionsFit
    <2> SUFFICES ASSUME Typed, Sound, NEW a \in Short, Known(a), NEW i \in 1..dev[a].count
                 PROVE  dev[a].slots[i].clusters \in {{}, Clusters[dev[a].device][dev[a].slots[i].ep]}
        BY DEF DescriptionsFit
    <2>1. dev[a] \in Entry /\ Fits(dev[a])
        BY DEF Typed, Tabled, Known, Sound, AllFit
    <2>2. i \in 1..MaxEndpoints /\ dev[a].count # 0
        BY <2>1, JsonAssumption DEF Entry
    <2>3. dev[a].slots[i].ep = Numbers(dev[a].device).slots[i].ep
        BY <2>1, <2>2 DEF Fits, Listed, Alike
    <2>4. QED
        BY <2>1, <2>2, <2>3 DEF Fits, Described
<1>2. QED
    BY <1>1, AlwaysTyped, AlwaysSound, PTL

--------------------------------------------------------------------------------
(* Arrays with room for every endpoint a device has.  Since its last announcement   *)
(* a device none of whose answers was lost still waits for its endpoints, or each    *)
(* endpoint is described or waits for its description.                        *)

Room == \A p \in Device : Len(Endpoints[p]) < MaxEndpoints

NumberAndEp(p, i) == <<Numbers(p).slots[i].ep, i>>

InHandAt(a) ==
    Known(a) /\ a \notin lost =>
       \/ Active(a, dev[a].device) \in requests
       \/ /\ Listed(dev[a].device, dev[a])
          /\ \A i \in 1..Numbers(dev[a].device).count :
                \/ dev[a].slots[i].clusters = Described(dev[a].device, i)
                \/ Simple(a, dev[a].device, NumberAndEp(dev[a].device, i)) \in requests

InHand == \A a \in Short : InHandAt(a)

LEMMA RoomForAll ==
    ASSUME Room, NEW p \in Device
    PROVE  /\ Numbers(p).count \in Nat /\ Numbers(p).count < MaxEndpoints
           /\ \A i \in 1..Numbers(p).count : i \in 1..MaxEndpoints
           /\ \A ep \in ToSet(Endpoints[p]) : \E i \in 1..Numbers(p).count : Numbers(p).slots[i].ep = ep
           /\ \A q : q \in Asks(Numbers(p)) <=> \E i \in 1..Numbers(p).count : q = NumberAndEp(p, i)
<1>1. Endpoints[p] \in Seq(EpId) /\ Len(Endpoints[p]) \in Nat /\ Len(Endpoints[p]) < MaxEndpoints
      /\ DOMAIN Endpoints[p] = 1..Len(Endpoints[p])
    BY InterviewAssumption, LenProperties DEF Room
<1>2. /\ Numbers(p) \in Entry /\ Numbers(p).count <= Len(Endpoints[p])
      /\ Numbers(p).count < MaxEndpoints =>
            \A m \in 1..Len(Endpoints[p]) : \E i \in 1..Numbers(p).count :
                Numbers(p).slots[i].ep = Endpoints[p][m]
    BY NumbersFacts
<1>3. Numbers(p).count \in Nat /\ Numbers(p).count < MaxEndpoints
      /\ \A i \in 1..Numbers(p).count : i \in 1..MaxEndpoints
    BY <1>1, <1>2, JsonAssumption DEF Entry
<1>4. ASSUME NEW ep \in ToSet(Endpoints[p])
      PROVE  \E i \in 1..Numbers(p).count : Numbers(p).slots[i].ep = ep
    BY <1>1, <1>2, <1>3 DEF ToSet
<1>5. \A q : q \in Asks(Numbers(p)) <=> \E i \in 1..Numbers(p).count : q = NumberAndEp(p, i)
    BY DEF Asks, NumberAndEp
<1>6. QED
    BY <1>3, <1>4, <1>5

LEMMA InHandFrame ==
    ASSUME NEW a \in Short, InHandAt(a),
           Known(a)' => Known(a) /\ dev'[a] = dev[a],
           a \notin lost' => a \notin lost /\ \A r \in requests : r.addr = a => r \in requests'
    PROVE  InHandAt(a)'
<1>1. \A p : Active(a, p).addr = a
    BY DEF Active
<1>2. \A p, q : Simple(a, p, q).addr = a
    BY DEF Simple
<1>3. SUFFICES ASSUME Known(a)', a \notin lost'
               PROVE  InHandAt(a)'
    BY DEF InHandAt
<1>4. PICK p, e : p = dev[a].device /\ e = dev[a] /\ e = dev'[a] /\ p = dev'[a].device
    BY <1>3
<1>5. \/ Active(a, p) \in requests
      \/ /\ Listed(p, e)
         /\ \A i \in 1..Numbers(p).count :
               e.slots[i].clusters = Described(p, i) \/ Simple(a, p, NumberAndEp(p, i)) \in requests
    BY <1>3, <1>4 DEF InHandAt
<1>6. \/ Active(a, p) \in requests'
      \/ /\ Listed(p, e)
         /\ \A i \in 1..Numbers(p).count :
               e.slots[i].clusters = Described(p, i) \/ Simple(a, p, NumberAndEp(p, i)) \in requests'
    BY <1>1, <1>2, <1>3, <1>5
<1>7. QED
    BY <1>4, <1>6 DEF InHandAt

LEMMA InHandStep == ASSUME OneHome, Room PROVE Typed /\ Sound /\ InHand /\ [Next]_vars => InHand'
<1> SUFFICES ASSUME Typed, Sound, InHand, [Next]_vars, NEW b \in Short PROVE InHandAt(b)'
    BY DEF InHand
<1>0. InHandAt(b)
    BY DEF InHand
<1>1. ASSUME NEW a, NEW p, NEW e, NEW from, Announced(a, p, e, from) PROVE InHandAt(b)'
    <2>1. CASE b = a
        <3>1. dev'[b] = e /\ e.device = p /\ Active(b, p) \in requests'
            BY <1>1, <2>1 DEF Announced
        <3>2. QED
            BY <3>1 DEF InHandAt
    <2>2. CASE b # a
        BY <1>0, <1>1, <2>2, InHandFrame DEF Announced, Known
    <2>3. QED
        BY <2>1, <2>2
<1>2. ASSUME NEW r, NEW e, NEW l, ListingDone(r, e, l) PROVE InHandAt(b)'
    <2>1. /\ r \in requests /\ r.addr \in Short /\ r.to \in Device /\ Changes(r.addr, e, l.entry)
          /\ e \in Entry /\ e = dev[r.addr] /\ Known(r.addr)
          /\ l \in SoFar /\ l = ListEndpoints(r.to, e) /\ lost' = lost
          /\ requests' = (requests \ {r}) \cup {Simple(r.addr, r.to, q) : q \in l.asked}
        BY <1>2, RequestParts DEF ListingDone, Changes, Typed, Posted, history
    <2>2. r.to = e.device /\ Fits(e)
        BY <2>1, OwnAddress DEF Sound, AllFit
    <2>3. CASE b = r.addr
        <3>1. PICK p \in Device : p = r.to
            BY <2>1
        <3>2. Listed(p, l.entry) /\ l.entry.device = p /\ l.asked = Asks(Numbers(p))
            BY <2>1, <2>2, <3>1, ListingFits, RoomForAll
        <3>3. \A i \in 1..Numbers(p).count : Simple(b, p, NumberAndEp(p, i)) \in requests'
            BY <2>1, <2>3, <3>1, <3>2, RoomForAll
        <3>4. dev'[b] = l.entry
            BY <2>1, <2>3 DEF Changes
        <3>5. QED
            BY <3>2, <3>3, <3>4 DEF InHandAt
    <2>4. CASE b # r.addr
        <3>1. \A s \in requests : s.addr = b => s \in requests'
            BY <2>1, <2>4
        <3>2. Known(b)' => Known(b) /\ dev'[b] = dev[b]
            BY <2>1, <2>4 DEF Changes, Known
        <3>3. QED
            BY <1>0, <2>1, <3>1, <3>2, InHandFrame
    <2>5. QED
        BY <2>3, <2>4
<1>3. ASSUME NEW r, NEW e, NEW f, DescribingDone(r, e, f) PROVE InHandAt(b)'
    <2>1. /\ r \in requests /\ r.kind = "simple" /\ r.addr \in Short /\ r.to \in Device
          /\ r.ep \in EpId /\ r.index \in 1..MaxEndpoints
          /\ Changes(r.addr, e, f) /\ e \in Entry /\ e = dev[r.addr] /\ Known(r.addr)
          /\ OnlyDescribes(f, e, r.index, Clusters[r.to][r.ep])
          /\ lost' = lost \/ lost' = lost \cup {r.addr}
          /\ \A s \in requests : s # r => s \in requests'
        BY <1>3, RequestParts DEF DescribingDone, Changes, Typed, Posted, history
    <2>2. /\ r.to = e.device /\ Fits(e) /\ <<r.ep, r.index>> \in Asks(Numbers(r.to))
          /\ r = Simple(r.addr, r.to, <<r.ep, r.index>>)
        BY <2>1, OwnAddress, RequestParts DEF Sound, AllFit, Indexed, Typed, Posted
    <2>3. PICK p \in Device : p = r.to
        BY <2>1
    <2>4. PICK i \in 1..MaxEndpoints : i = r.index
        BY <2>1
    <2>5. /\ f.device = p /\ (Listed(p, e) => Listed(p, f))
          /\ f.slots[i].clusters = Described(p, i)
          /\ \A k \in 1..MaxEndpoints : k # i => f.slots[k].clusters = e.slots[k].clusters
        <3>1. p = e.device /\ <<r.ep, i>> \in Asks(Numbers(e.device))
              /\ OnlyDescribes(f, e, i, Clusters[e.device][r.ep])
            BY <2>1, <2>2, <2>3, <2>4
        <3>2. /\ f.device = e.device /\ (Listed(e.device, e) => Listed(e.device, f))
              /\ f.slots[i].clusters = Described(e.device, i)
              /\ \A k \in 1..MaxEndpoints : k # i => f.slots[k].clusters = e.slots[k].clusters
            BY <2>1, <2>2, <3>1, DescribingFits
        <3>3. QED
            BY <3>1, <3>2
    <2>6. CASE b = r.addr
        <3>1. dev'[b] = f /\ dev[b] = e
            BY <2>1, <2>6 DEF Changes
        <3>2. CASE b \in lost \/ b \in lost'
            BY <2>1, <3>2 DEF InHandAt
        <3>3. CASE Active(b, p) \in requests
            <4>1. Active(b, p) # r
                BY <2>1 DEF Active
            <4>2. Active(b, p) \in requests'
                BY <2>1, <3>3, <4>1
            <4>3. QED
                BY <2>5, <3>1, <4>2 DEF InHandAt
        <3>4. CASE b \notin lost /\ ~ (Active(b, p) \in requests)
            <4>1. /\ Listed(p, e)
                  /\ \A k \in 1..Numbers(p).count :
                        e.slots[k].clusters = Described(p, k) \/ Simple(b, p, NumberAndEp(p, k)) \in requests
                BY <1>0, <2>1, <2>2, <2>3, <2>6, <3>1, <3>4 DEF InHandAt
            <4>2. ASSUME NEW k \in 1..Numbers(p).count
                  PROVE  f.slots[k].clusters = Described(p, k) \/ Simple(b, p, NumberAndEp(p, k)) \in requests'
                <5>1. k \in 1..MaxEndpoints
                    BY RoomForAll
                <5>2. CASE k = i
                    BY <2>5, <5>2
                <5>3. CASE k # i
                    <6>1. Simple(b, p, NumberAndEp(p, k)).index = k
                        BY DEF Simple, NumberAndEp
                    <6>2. Simple(b, p, NumberAndEp(p, k)) # r
                        BY <2>4, <5>3, <6>1
                    <6>3. QED
                        BY <2>1, <2>5, <4>1, <5>1, <5>3, <6>2
                <5>4. QED
                    BY <5>2, <5>3
            <4>3. QED
                BY <2>5, <3>1, <4>1, <4>2 DEF InHandAt
        <3>5. QED
            BY <3>2, <3>3, <3>4
    <2>7. CASE b # r.addr
        <3>1. \A s \in requests : s.addr = b => s \in requests'
            BY <2>1, <2>7
        <3>2. Known(b)' => Known(b) /\ dev'[b] = dev[b]
            BY <2>1, <2>7 DEF Changes, Known
        <3>3. QED
            BY <1>0, <2>1, <3>1, <3>2, InHandFrame
    <2>8. QED
        BY <2>6, <2>7
<1>4. ASSUME NEW r, Ignored(r) PROVE InHandAt(b)'
    <2>1. Known(b)' => Known(b) /\ dev'[b] = dev[b] /\ b # r.addr
        BY <1>4 DEF Ignored, Known
    <2>2. lost' = lost /\ \A s \in requests : s # r => s \in requests'
        BY <1>4 DEF Ignored, history
    <2>3. CASE Known(b)'
        BY <1>0, <2>1, <2>2, <2>3, InHandFrame
    <2>4. CASE ~ Known(b)'
        BY <2>4 DEF InHandAt
    <2>5. QED
        BY <2>3, <2>4
<1>5. ASSUME NEW r \in requests, Bound(r) PROVE InHandAt(b)'
    <2>1. /\ r.kind = "bind" /\ dev' = dev /\ lost' = lost
          /\ \A s \in requests : s # r => s \in requests'
        BY <1>5 DEF Bound, history
    <2>2. \A p, q : Active(b, p) # r /\ Simple(b, p, q) # r
        <3>1. \A p, q : Active(b, p).kind = "active" /\ Simple(b, p, q).kind = "simple"
            BY DEF Active, Simple
        <3>2. QED
            BY <2>1, <3>1
    <2>3. QED
        <3>1. PICK p, e : e = dev[b] /\ p = dev[b].device /\ e = dev'[b] /\ p = dev'[b].device
            BY <2>1
        <3>2. CASE Known(b) /\ b \notin lost
            <4>1. \/ Active(b, p) \in requests
                  \/ /\ Listed(p, e)
                     /\ \A i \in 1..Numbers(p).count :
                           e.slots[i].clusters = Described(p, i) \/ Simple(b, p, NumberAndEp(p, i)) \in requests
                BY <1>0, <3>1, <3>2 DEF InHandAt
            <4>2. \/ Active(b, p) \in requests'
                  \/ /\ Listed(p, e)
                     /\ \A i \in 1..Numbers(p).count :
                           e.slots[i].clusters = Described(p, i) \/ Simple(b, p, NumberAndEp(p, i)) \in requests'
                BY <2>1, <2>2, <4>1
            <4>3. QED
                BY <3>1, <4>2 DEF InHandAt
        <3>3. CASE ~ (Known(b) /\ b \notin lost)
            BY <2>1, <3>3 DEF InHandAt, Known
        <3>4. QED
            BY <3>2, <3>3
<1>6. ASSUME NEW r \in requests, RequestFails(r) PROVE InHandAt(b)'
    <2>1. /\ dev' = dev /\ lost' = lost \cup {r.addr} /\ requests' = requests \ {r}
        BY <1>6 DEF RequestFails
    <2>2. b \notin lost' => b \notin lost /\ \A s \in requests : s.addr = b => s \in requests'
        BY <2>1
    <2>3. Known(b)' => Known(b) /\ dev'[b] = dev[b]
        BY <2>1 DEF Known
    <2>4. QED
        BY <1>0, <2>2, <2>3, InHandFrame
<1>7. ASSUME NEW a, Removing(a) PROVE InHandAt(b)'
    <2>1. Known(b)' => Known(b) /\ dev'[b] = dev[b]
        BY <1>7 DEF Removing, Known
    <2>2. lost' = lost /\ requests' = requests
        BY <1>7 DEF Removing
    <2>3. QED
        BY <1>0, <2>1, <2>2, InHandFrame
<1>8. ASSUME NEW a, NEW e, NEW f, NEW c, ConfiguringDone(a, e, f, c) PROVE InHandAt(b)'
    <2>1. lost' = lost /\ requests' = requests
        BY <1>8 DEF ConfiguringDone
    <2>2. CASE b = a
        <3>1. dev[b] = e /\ dev'[b] = f /\ f.device = e.device /\ f.count = e.count /\ f.slots = e.slots
              /\ Known(b)
            BY <1>8, <2>2 DEF ConfiguringDone, OnlyConfigures, Changes
        <3>2. \A p : Listed(p, e) => Listed(p, f)
            BY <3>1 DEF Listed, Alike
        <3>3. PICK p : p = e.device
            OBVIOUS
        <3>4. CASE b \notin lost
            <4>1. \/ Active(b, p) \in requests
                  \/ /\ Listed(p, e)
                     /\ \A i \in 1..Numbers(p).count :
                           e.slots[i].clusters = Described(p, i) \/ Simple(b, p, NumberAndEp(p, i)) \in requests
                BY <1>0, <3>1, <3>3, <3>4 DEF InHandAt
            <4>2. \/ Active(b, p) \in requests'
                  \/ /\ Listed(p, f)
                     /\ \A i \in 1..Numbers(p).count :
                           f.slots[i].clusters = Described(p, i) \/ Simple(b, p, NumberAndEp(p, i)) \in requests'
                BY <2>1, <3>1, <3>2, <4>1
            <4>3. QED
                BY <3>1, <3>3, <4>2 DEF InHandAt
        <3>5. CASE b \in lost
            BY <2>1, <3>5 DEF InHandAt
        <3>6. QED
            BY <3>4, <3>5
    <2>3. CASE b # a
        <3>1. Known(b)' => Known(b) /\ dev'[b] = dev[b]
            BY <1>8, <2>3 DEF ConfiguringDone, Changes, Known
        <3>2. QED
            BY <1>0, <2>1, <3>1, InHandFrame
    <2>4. QED
        BY <2>2, <2>3
<1>9. ASSUME \/ \E a : Saving(a)
             \/ \E a, ep, cl : BindingAsked(a, ep, cl)
             \/ UNCHANGED vars
      PROVE  InHandAt(b)'
    <2>1. dev' = dev /\ lost' = lost /\ requests \subseteq requests'
        BY <1>9 DEF Saving, BindingAsked, vars, history
    <2>2. Known(b)' => Known(b) /\ dev'[b] = dev[b]
        BY <2>1 DEF Known
    <2>3. QED
        BY <1>0, <2>1, <2>2, InHandFrame
<1>10. QED
    BY <1>1, <1>2, <1>3, <1>4, <1>5, <1>6, <1>7, <1>8, <1>9, Effects, Zenon

LEMMA AlwaysInHand == ASSUME OneHome, Room PROVE Spec => []InHand
<1>1. Init => InHand
    BY DEF Init, InHand, InHandAt, Known
<1>2. Typed /\ Sound /\ InHand /\ [Next]_vars => InHand'
    BY InHandStep
<1>3. QED
    BY <1>1, <1>2, AlwaysTyped, AlwaysSound, PTL DEF Spec

(* An interview none of whose answers is lost describes every endpoint             *)
(* (mod_zig_handlers.c:198-224, 249-263), although answers of older interviews      *)
(* may still come in between.                                                *)
THEOREM InterviewsComplete == ASSUME OneHome, Room PROVE Spec => []InterviewIsCompleted
<1>1. Typed /\ InHand => InterviewIsCompleted
    <2> SUFFICES ASSUME Typed, InHand, NEW a \in Short, Quiet(a),
                        NEW ep \in ToSet(Endpoints[dev[a].device])
                 PROVE  \E i \in 1..dev[a].count :
                            dev[a].slots[i] = [ep |-> ep, clusters |-> Clusters[dev[a].device][ep]]
        BY DEF InterviewIsCompleted
    <2>1. PICK e \in Entry : e = dev[a]
        BY DEF Typed, Tabled, Quiet, Known
    <2>2. PICK p \in Device : p = e.device
        BY <2>1 DEF Entry
    <2>3. \A q : Active(a, p) \notin requests /\ Simple(a, p, q) \notin requests
        <3>1. \A q : Active(a, p).addr = a /\ Simple(a, p, q).addr = a
            BY DEF Active, Simple
        <3>2. QED
            BY <3>1 DEF Quiet
    <2>4. InHandAt(a)
        BY DEF InHand
    <2>5. Listed(p, e) /\ \A i \in 1..Numbers(p).count : e.slots[i].clusters = Described(p, i)
        BY <2>1, <2>2, <2>3, <2>4 DEF InHandAt, Quiet
    <2>6. PICK i \in 1..Numbers(p).count : Numbers(p).slots[i].ep = ep
        BY <2>1, <2>2, RoomForAll
    <2>7. e.count = Numbers(p).count /\ e.slots[i].ep = ep /\ e.slots[i].clusters = Clusters[p][ep]
        BY <2>5, <2>6 DEF Listed, Alike, Described
    <2>8. i \in 1..MaxEndpoints /\ e.slots[i] \in EpSlot
        BY <2>2, <2>6, RoomForAll DEF Entry
    <2>9. e.slots[i] = [ep |-> ep, clusters |-> Clusters[p][ep]]
        BY <2>7, <2>8 DEF EpSlot
    <2>10. QED
        BY <2>1, <2>2, <2>6, <2>7, <2>9
<1>2. QED
    BY <1>1, AlwaysTyped, AlwaysInHand, PTL

--------------------------------------------------------------------------------
(* What is due was configured when the interview began and no call takes a         *)
(* configuration back; it is reported, or bound, or its endpoint is still to be     *)
(* described.                                                               *)

DueAt(t) ==
    Known(t[1]) =>
       /\ t[2] \in ToSet(Endpoints[dev[t[1]].device])
       /\ t[3] \in Clusters[dev[t[1]].device][t[2]] \cap Reportable(dev[t[1]], t[2])

Under(t, p) ==
    \/ t \in reported
    \/ Active(t[1], p) \in requests
    \/ Bind(t[1], p, t[2], t[3]) \in requests
    \/ \E i \in 1..Numbers(p).count :
          Numbers(p).slots[i].ep = t[2] /\ Simple(t[1], p, NumberAndEp(p, i)) \in requests

UnderWayAt(t) == Known(t[1]) /\ t[1] \notin lost => Under(t, dev[t[1]].device)

AllDue   == \A t \in due : DueAt(t)
UnderWay == \A t \in due : UnderWayAt(t)

LEMMA DueTriple ==
    ASSUME Typed, NEW t \in due
    PROVE  t[1] \in Short /\ t[2] \in EpId /\ t[3] \in Cluster /\ t = <<t[1], t[2], t[3]>>
BY DEF Typed, Noted

LEMMA AllDueStep == Typed /\ AllDue /\ [Next]_vars => AllDue'
<1> SUFFICES ASSUME Typed, AllDue, [Next]_vars, NEW t \in due' PROVE DueAt(t)'
    BY DEF AllDue
<1>1. ASSUME NEW a, NEW p, NEW e, NEW from, Announced(a, p, e, from) PROVE DueAt(t)'
    <2>1. CASE t \in due /\ t[1] \notin from \cup {a}
        <3>1. dev'[t[1]] = dev[t[1]] /\ DueAt(t)
            BY <1>1, <2>1, DueTriple DEF Announced, AllDue
        <3>2. QED
            BY <3>1 DEF DueAt, Known
    <2>2. ASSUME NEW ep \in ToSet(Endpoints[p]), NEW cl \in Clusters[p][ep] \cap Reportable(e, ep),
                 t = <<a, ep, cl>>
          PROVE  DueAt(t)'
        <3>1. dev'[t[1]] = e /\ e.device = p /\ t[1] = a /\ t[2] = ep /\ t[3] = cl
            BY <1>1, <2>2 DEF Announced
        <3>2. QED
            BY <3>1 DEF DueAt
    <2>3. QED
        BY <1>1, <2>1, <2>2 DEF Announced
<1>2. ASSUME NEW a, NEW e, NEW f, Changes(a, e, f), due' = due, f.device = e.device,
             \A ep : Reportable(e, ep) \subseteq Reportable(f, ep)
      PROVE  DueAt(t)'
    <2>1. DueAt(t) /\ t[1] \in Short
        BY <1>2, DueTriple DEF AllDue
    <2>2. CASE t[1] = a
        <3>1. dev[t[1]] = e /\ dev'[t[1]] = f /\ Known(t[1])
            BY <1>2, <2>2 DEF Changes
        <3>2. QED
            BY <1>2, <2>1, <3>1 DEF DueAt
    <2>3. CASE t[1] # a
        <3>1. dev'[t[1]] = dev[t[1]]
            BY <1>2, <2>1, <2>3 DEF Changes
        <3>2. QED
            BY <2>1, <3>1 DEF DueAt, Known
    <2>4. QED
        BY <2>2, <2>3
<1>3. ASSUME NEW r, NEW e, NEW l, ListingDone(r, e, l) PROVE DueAt(t)'
    <2>1. r.to \in Device /\ e \in Entry
        BY <1>3, RequestParts DEF ListingDone, Changes, Typed, Posted
    <2>2. l.entry.device = e.device /\ l.entry.cfgs = e.cfgs
        BY <1>3, <2>1, ListKeeps DEF ListingDone, SameBut
    <2>3. \A ep : Reportable(l.entry, ep) = Reportable(e, ep)
        BY <2>2 DEF Reportable
    <2>4. QED
        BY <1>2, <1>3, <2>2, <2>3 DEF ListingDone, history
<1>4. ASSUME NEW r, NEW e, NEW f, DescribingDone(r, e, f) PROVE DueAt(t)'
    <2>1. f.device = e.device /\ f.cfgs = e.cfgs
        BY <1>4 DEF DescribingDone, OnlyDescribes
    <2>2. \A ep : Reportable(f, ep) = Reportable(e, ep)
        BY <2>1 DEF Reportable
    <2>3. QED
        BY <1>2, <1>4, <2>1, <2>2 DEF DescribingDone
<1>5. ASSUME NEW a, NEW e, NEW f, NEW c, ConfiguringDone(a, e, f, c) PROVE DueAt(t)'
    <2>1. /\ Changes(a, e, f) /\ e \in Entry /\ f \in Entry /\ f.device = e.device /\ due' = due
          /\ ToSet(e.cfgs) \subseteq ToSet(f.cfgs)
        BY <1>5 DEF ConfiguringDone, OnlyConfigures, Changes
    <2>2. ASSUME NEW ep PROVE Reportable(e, ep) \subseteq Reportable(f, ep)
        BY <2>1, ConfiguredClusters
    <2>3. QED
        BY <1>2, <2>1, <2>2
<1>6. ASSUME dev' = dev, due' = due PROVE DueAt(t)'
    <2>1. DueAt(t)
        BY <1>6 DEF AllDue
    <2>2. QED
        BY <1>6, <2>1 DEF DueAt, Known
<1>7. ASSUME NEW a, Removing(a) PROVE DueAt(t)'
    <2>1. due' = due /\ DueAt(t) /\ t[1] \in Short
        BY <1>7, DueTriple DEF Removing, AllDue
    <2>2. Known(t[1])' => Known(t[1]) /\ dev'[t[1]] = dev[t[1]]
        BY <1>7, <2>1 DEF Removing, Known
    <2>3. QED
        BY <2>1, <2>2 DEF DueAt
<1>8. ASSUME \/ \E r : Ignored(r)
             \/ \E r \in requests : Bound(r) \/ RequestFails(r)
             \/ \E a : Saving(a)
             \/ \E a, ep, cl : BindingAsked(a, ep, cl)
             \/ UNCHANGED vars
      PROVE  dev' = dev /\ due' = due
    BY <1>8, Zenon DEF Ignored, Bound, RequestFails, Saving, BindingAsked, vars, history
<1>9. QED
    BY <1>1, <1>3, <1>4, <1>5, <1>6, <1>7, <1>8, Effects, Zenon

LEMMA UnderWayFrame ==
    ASSUME Typed, NEW t \in due, UnderWayAt(t),
           Known(t[1])' => Known(t[1]) /\ dev'[t[1]].device = dev[t[1]].device,
           t[1] \notin lost' =>
              /\ t[1] \notin lost /\ (t \in reported => t \in reported')
              /\ \A r \in requests : r.addr = t[1] => r \in requests'
    PROVE  UnderWayAt(t)'
<1>1. SUFFICES ASSUME Known(t[1])', t[1] \notin lost' PROVE UnderWayAt(t)'
    BY DEF UnderWayAt
<1>2. PICK p : p = dev[t[1]].device /\ p = dev'[t[1]].device
    BY <1>1
<1>3. Under(t, p)
    BY <1>1, <1>2 DEF UnderWayAt
<1>4. \A q : Active(t[1], p).addr = t[1] /\ Simple(t[1], p, q).addr = t[1]
             /\ Bind(t[1], p, t[2], t[3]).addr = t[1]
    BY DEF Active, Simple, Bind
<1>5. Under(t, p)'
    BY <1>1, <1>3, <1>4 DEF Under
<1>6. QED
    BY <1>2, <1>5 DEF UnderWayAt

LEMMA UnderWayStep ==
    ASSUME OneHome, Room
    PROVE  Typed /\ Sound /\ AllDue /\ UnderWay /\ [Next]_vars => UnderWay'
<1> SUFFICES ASSUME Typed, Sound, AllDue, UnderWay, [Next]_vars, NEW t \in due' PROVE UnderWayAt(t)'
    BY DEF UnderWay
<1>1. ASSUME NEW a, NEW p, NEW e, NEW from, Announced(a, p, e, from) PROVE UnderWayAt(t)'
    <2>1. CASE t \in due /\ t[1] \notin from \cup {a}
        <3>1. t[1] \in Short /\ UnderWayAt(t)
            BY <2>1, DueTriple DEF UnderWay
        <3>2. dev'[t[1]] = dev[t[1]]
            BY <1>1, <2>1, <3>1 DEF Announced
        <3>3. requests \subseteq requests' /\ (t \in reported => t \in reported') /\ lost' = lost \ {a}
            BY <1>1, <2>1 DEF Announced
        <3>4. Known(t[1])' => Known(t[1]) /\ dev'[t[1]].device = dev[t[1]].device
            BY <3>2 DEF Known
        <3>5. t[1] \notin lost' => t[1] \notin lost
            BY <2>1, <3>3
        <3>6. QED
            BY <2>1, <3>1, <3>3, <3>4, <3>5, UnderWayFrame
    <2>2. ASSUME NEW ep, NEW cl, t = <<a, ep, cl>> PROVE UnderWayAt(t)'
        <3>1. dev'[t[1]].device = p /\ Active(t[1], p) \in requests'
            BY <1>1, <2>2 DEF Announced
        <3>2. QED
            BY <3>1 DEF UnderWayAt, Under
    <2>3. QED
        BY <1>1, <2>1, <2>2 DEF Announced
<1>2. ASSUME t \in due PROVE /\ t[1] \in Short /\ t[2] \in EpId /\ t[3] \in Cluster
                             /\ t = <<t[1], t[2], t[3]>> /\ DueAt(t) /\ UnderWayAt(t)
    BY <1>2, DueTriple DEF AllDue, UnderWay
<1>3. ASSUME NEW r, NEW e, NEW l, ListingDone(r, e, l) PROVE UnderWayAt(t)'
    <2>1. /\ r \in requests /\ r.addr \in Short /\ r.to \in Device /\ Changes(r.addr, e, l.entry)
          /\ e \in Entry /\ e = dev[r.addr] /\ Known(r.addr)
          /\ l \in SoFar /\ l = ListEndpoints(r.to, e) /\ lost' = lost /\ reported' = reported
          /\ requests' = (requests \ {r}) \cup {Simple(r.addr, r.to, q) : q \in l.asked}
          /\ due' = due
        BY <1>3, RequestParts DEF ListingDone, Changes, Typed, Posted, history
    <2>2. r.to = e.device /\ Fits(e)
        BY <2>1, OwnAddress DEF Sound, AllFit
    <2>3. CASE t[1] = r.addr
        <3>1. PICK p \in Device : p = r.to
            BY <2>1
        <3>2. l.entry.device = p /\ l.asked = Asks(Numbers(p))
            BY <2>1, <2>2, <3>1, ListingFits, RoomForAll
        <3>3. t[2] \in ToSet(Endpoints[p])
            BY <1>2, <2>1, <2>2, <2>3, <3>1 DEF DueAt
        <3>4. PICK i \in 1..Numbers(p).count : Numbers(p).slots[i].ep = t[2]
            BY <3>3, RoomForAll
        <3>5. Simple(t[1], p, NumberAndEp(p, i)) \in requests'
            BY <2>1, <2>3, <3>1, <3>2, RoomForAll
        <3>6. Under(t, p)'
            BY <3>4, <3>5 DEF Under
        <3>7. dev'[t[1]].device = p
            BY <2>1, <2>3, <3>2 DEF Changes
        <3>8. QED
            BY <3>6, <3>7 DEF UnderWayAt
    <2>4. CASE t[1] # r.addr
        <3>1. Known(t[1])' => Known(t[1]) /\ dev'[t[1]].device = dev[t[1]].device
            BY <1>2, <2>1, <2>4 DEF Changes, Known
        <3>2. \A s \in requests : s.addr = t[1] => s \in requests'
            BY <2>1, <2>4
        <3>3. QED
            BY <1>2, <2>1, <3>1, <3>2, UnderWayFrame
    <2>5. QED
        BY <2>3, <2>4
<1>4. ASSUME NEW r, NEW e, NEW f, DescribingDone(r, e, f) PROVE UnderWayAt(t)'
    <2>1. /\ r \in requests /\ r.kind = "simple" /\ r.addr \in Short /\ r.to \in Device
          /\ Changes(r.addr, e, f) /\ e \in Entry /\ e = dev[r.addr] /\ Known(r.addr)
          /\ f.device = e.device /\ reported' = reported /\ due' = due
          /\ \A s \in requests : s # r => s \in requests'
          /\ \/ /\ lost' = lost
                /\ \A c \in Clusters[r.to][r.ep] \cap Configured(e, r.ep) :
                      Bind(r.addr, e.device, r.ep, c) \in requests'
             \/ lost' = lost \cup {r.addr}
        BY <1>4, RequestParts DEF DescribingDone, OnlyDescribes, Changes, Typed, Posted, history
    <2>2. CASE t[1] = r.addr
        <3>1. PICK p : p = e.device
            OBVIOUS
        <3>2. p = r.to /\ dev[t[1]].device = p /\ dev'[t[1]].device = p
            BY <2>1, <2>2, <3>1, OwnAddress DEF Sound, Changes
        <3>3. CASE t[1] \in lost \/ t[1] \in lost'
            BY <2>1, <3>3 DEF UnderWayAt
        <3>4. CASE t[1] \notin lost /\ t[1] \notin lost'
            <4>1. Under(t, p)
                BY <1>2, <2>1, <2>2, <3>2, <3>4 DEF UnderWayAt
            <4>2. Active(t[1], p) # r /\ Bind(t[1], p, t[2], t[3]) # r
                BY <2>1 DEF Active, Bind
            <4>3. ASSUME NEW i \in 1..Numbers(p).count, Numbers(p).slots[i].ep = t[2],
                         Simple(t[1], p, NumberAndEp(p, i)) = r
                  PROVE  Bind(t[1], p, t[2], t[3]) \in requests'
                <5>1. r.ep = t[2]
                    BY <4>3 DEF Simple, NumberAndEp
                <5>2. t[3] \in Clusters[p][t[2]] /\ t[3] \in Reportable(e, t[2])
                    BY <1>2, <2>1, <2>2, <3>1 DEF DueAt
                <5>3. t[3] \in Configured(e, t[2])
                    BY <2>1, <5>2, ConfiguredClusters
                <5>4. QED
                    BY <2>1, <2>2, <3>1, <3>2, <3>4, <5>1, <5>2, <5>3
            <4>4. Under(t, p)'
                BY <2>1, <4>1, <4>2, <4>3 DEF Under
            <4>5. QED
                BY <3>2, <4>4 DEF UnderWayAt
        <3>5. QED
            BY <3>3, <3>4
    <2>3. CASE t[1] # r.addr
        <3>1. Known(t[1])' => Known(t[1]) /\ dev'[t[1]].device = dev[t[1]].device
            BY <1>2, <2>1, <2>3 DEF Changes, Known
        <3>2. \A s \in requests : s.addr = t[1] => s \in requests'
            BY <2>1, <2>3
        <3>3. QED
            BY <1>2, <2>1, <3>1, <3>2, UnderWayFrame
    <2>4. QED
        BY <2>2, <2>3
<1>5. ASSUME NEW r, Ignored(r) PROVE UnderWayAt(t)'
    <2>1. /\ r \in requests /\ ~ Known(r.addr) /\ dev' = dev /\ lost' = lost /\ due' = due
          /\ reported' = reported /\ \A s \in requests : s # r => s \in requests'
        BY <1>5 DEF Ignored, history
    <2>2. CASE Known(t[1])
        <3>1. \A s \in requests : s.addr = t[1] => s \in requests'
            BY <2>1, <2>2
        <3>2. QED
            BY <1>2, <2>1, <2>2, <3>1, UnderWayFrame
    <2>3. CASE ~ Known(t[1])
        BY <2>1, <2>3 DEF UnderWayAt, Known
    <2>4. QED
        BY <2>2, <2>3
<1>6. ASSUME NEW r \in requests, Bound(r) PROVE UnderWayAt(t)'
    <2>1. /\ r.kind = "bind" /\ dev' = dev /\ lost' = lost /\ due' = due /\ reported \subseteq reported'
          /\ \A s \in requests : s # r => s \in requests'
          /\ Known(r.addr) /\ r.cl \in Reportable(dev[r.addr], r.ep) => <<r.addr, r.ep, r.cl>> \in reported'
        BY <1>6 DEF Bound, history
    <2>2. PICK p : p = dev[t[1]].device /\ p = dev'[t[1]].device
        BY <2>1
    <2>3. CASE Known(t[1]) /\ t[1] \notin lost
        <3>1. Under(t, p)
            BY <1>2, <2>1, <2>2, <2>3 DEF UnderWayAt
        <3>2. Active(t[1], p) # r /\ \A q : Simple(t[1], p, q) # r
            <4>1. \A q : Active(t[1], p).kind = "active" /\ Simple(t[1], p, q).kind = "simple"
                BY DEF Active, Simple
            <4>2. QED
                BY <2>1, <4>1
        <3>3. ASSUME Bind(t[1], p, t[2], t[3]) = r PROVE t \in reported'
            <4>1. r.addr = t[1] /\ r.ep = t[2] /\ r.cl = t[3]
                BY <3>3 DEF Bind
            <4>2. r.cl \in Reportable(dev[r.addr], r.ep)
                BY <1>2, <2>1, <2>3, <4>1 DEF DueAt
            <4>3. QED
                BY <1>2, <2>1, <2>3, <4>1, <4>2
        <3>4. Under(t, p)'
            BY <2>1, <3>1, <3>2, <3>3 DEF Under
        <3>5. QED
            BY <2>2, <3>4 DEF UnderWayAt
    <2>4. CASE ~ (Known(t[1]) /\ t[1] \notin lost)
        BY <2>1, <2>4 DEF UnderWayAt, Known
    <2>5. QED
        BY <2>3, <2>4
<1>7. ASSUME NEW r \in requests, RequestFails(r) PROVE UnderWayAt(t)'
    <2>1. /\ dev' = dev /\ lost' = lost \cup {r.addr} /\ requests' = requests \ {r}
          /\ reported' = reported /\ due' = due
        BY <1>7 DEF RequestFails
    <2>2. t[1] \notin lost' => t[1] \notin lost /\ \A s \in requests : s.addr = t[1] => s \in requests'
        BY <2>1
    <2>3. Known(t[1])' => Known(t[1]) /\ dev'[t[1]].device = dev[t[1]].device
        BY <2>1 DEF Known
    <2>4. QED
        BY <1>2, <2>1, <2>2, <2>3, UnderWayFrame
<1>8. ASSUME NEW a, Removing(a) PROVE UnderWayAt(t)'
    <2>1. /\ due' = due /\ lost' = lost /\ requests' = requests
          /\ (t \in reported /\ t[1] # a => t \in reported')
        BY <1>8 DEF Removing
    <2>2. CASE t[1] = a
        BY <1>8, <2>2 DEF Removing, UnderWayAt, Known
    <2>3. CASE t[1] # a
        <3>1. Known(t[1])' => Known(t[1]) /\ dev'[t[1]].device = dev[t[1]].device
            BY <1>2, <1>8, <2>1, <2>3 DEF Removing, Known
        <3>2. QED
            BY <1>2, <2>1, <2>3, <3>1, UnderWayFrame
    <2>4. QED
        BY <2>2, <2>3
<1>9. ASSUME NEW a, NEW e, NEW f, NEW c, ConfiguringDone(a, e, f, c) PROVE UnderWayAt(t)'
    <2>1. /\ due' = due /\ lost' = lost /\ requests' = requests /\ reported' = reported
          /\ f.device = e.device /\ Changes(a, e, f)
        BY <1>9 DEF ConfiguringDone, OnlyConfigures
    <2>2. Known(t[1])' => Known(t[1]) /\ dev'[t[1]].device = dev[t[1]].device
        BY <1>2, <2>1 DEF Changes, Known
    <2>3. QED
        BY <1>2, <2>1, <2>2, UnderWayFrame
<1>10. ASSUME \/ \E a : Saving(a)
              \/ \E a, ep, cl : BindingAsked(a, ep, cl)
              \/ UNCHANGED vars
       PROVE  UnderWayAt(t)'
    <2>1. dev' = dev /\ lost' = lost /\ due' = due /\ reported' = reported /\ requests \subseteq requests'
        BY <1>10 DEF Saving, BindingAsked, vars, history
    <2>2. Known(t[1])' => Known(t[1]) /\ dev'[t[1]].device = dev[t[1]].device
        BY <2>1 DEF Known
    <2>3. QED
        BY <1>2, <2>1, <2>2, UnderWayFrame
<1>11. QED
    BY <1>1, <1>3, <1>4, <1>5, <1>6, <1>7, <1>8, <1>9, <1>10, Effects, Zenon

LEMMA AlwaysDue == Spec => []AllDue
<1>1. Init => AllDue
    BY DEF Init, AllDue
<1>2. QED
    BY <1>1, AllDueStep, AlwaysTyped, PTL DEF Spec

LEMMA AlwaysUnderWay == ASSUME OneHome, Room PROVE Spec => []UnderWay
<1>1. Init => UnderWay
    BY DEF Init, UnderWay
<1>2. Typed /\ Sound /\ AllDue /\ UnderWay /\ [Next]_vars => UnderWay'
    BY UnderWayStep
<1>3. QED
    BY <1>1, <1>2, AlwaysTyped, AlwaysSound, AlwaysDue, PTL DEF Spec

(* What was configured before an interview none of whose answers is lost reports     *)
(* when it is over, although the configuration is looked up for the binding        *)
(* (mod_zig_handlers.c:346) and once more for the report (mod_zig_handlers.c:115).   *)
THEOREM InterviewsConfigure == ASSUME OneHome, Room PROVE Spec => []ConfiguredIsReported
<1>1. Typed /\ UnderWay => ConfiguredIsReported
    <2> SUFFICES ASSUME Typed, UnderWay, NEW a \in Short, Quiet(a), NEW t \in due, t[1] = a
                 PROVE  t \in reported
        BY DEF ConfiguredIsReported
    <2>1. PICK p : p = dev[a].device
        OBVIOUS
    <2>2. Under(t, p)
        BY <2>1 DEF UnderWay, UnderWayAt, Quiet
    <2>3. \A q : /\ Active(a, p).addr = a /\ Simple(a, p, q).addr = a
                 /\ Bind(a, p, t[2], t[3]).addr = a
        BY DEF Active, Simple, Bind
    <2>4. QED
        BY <2>2, <2>3 DEF Under, Quiet
<1>2. QED
    BY <1>1, AlwaysTyped, AlwaysUnderWay, PTL

--------------------------------------------------------------------------------
(* What is on flash of a device nobody has still to save and whose last save was     *)
(* neither refused nor failed: the device, what is due of its configurations and,    *)
(* unless a description is under way or was lost, its endpoints as they are.        *)

SavedSlots(e) == SubSeq(e.slots, 1, e.count)

KeptAt(a) ==
    Known(a) /\ a \notin saves \cup unsaved =>
       /\ file[a] # Absent /\ file[a].device = dev[a].device
       /\ \A t \in due : t[1] = a =>
             \E c \in ToSet(FromJson(file[a]).cfgs) : c.ep = t[2] /\ c.cl = t[3]
       /\ a \notin lost => \/ \E r \in requests : r.addr = a /\ r.kind = "simple"
                           \/ file[a].endpoints = SavedSlots(dev[a])

Kept == \A a \in Short : KeptAt(a)

LEMMA KeptFrame ==
    ASSUME NEW a \in Short, KeptAt(a), file'[a] = file[a],
           Known(a)' /\ a \notin saves' \cup unsaved' =>
              /\ Known(a) /\ a \notin saves \cup unsaved /\ dev'[a].device = dev[a].device
              /\ SavedSlots(dev'[a]) = SavedSlots(dev[a]),
           \A t \in due' : t[1] = a => t \in due,
           a \notin lost' =>
              /\ a \notin lost
              /\ \A r \in requests : r.addr = a /\ r.kind = "simple" => r \in requests'
    PROVE  KeptAt(a)'
<1>1. SUFFICES ASSUME Known(a)', a \notin saves' \cup unsaved' PROVE KeptAt(a)'
    BY DEF KeptAt
<1>2. PICK j, p, w : /\ j = file[a] /\ j = file'[a] /\ p = dev[a].device /\ p = dev'[a].device
                     /\ w = SavedSlots(dev[a]) /\ w = SavedSlots(dev'[a])
    BY <1>1
<1>3. /\ j # Absent /\ j.device = p
      /\ \A t \in due : t[1] = a => \E c \in ToSet(FromJson(j).cfgs) : c.ep = t[2] /\ c.cl = t[3]
      /\ a \notin lost => \/ \E r \in requests : r.addr = a /\ r.kind = "simple"
                          \/ j.endpoints = w
    BY <1>1, <1>2 DEF KeptAt
<1>4. /\ \A t \in due' : t[1] = a => \E c \in ToSet(FromJson(j).cfgs) : c.ep = t[2] /\ c.cl = t[3]
      /\ a \notin lost' => \/ \E r \in requests' : r.addr = a /\ r.kind = "simple"
                           \/ j.endpoints = w
    BY <1>3
<1>5. QED
    BY <1>2, <1>3, <1>4 DEF KeptAt

LEMMA KeptStep == Typed /\ AllDue /\ Kept /\ [Next]_vars => Kept'
<1> SUFFICES ASSUME Typed, AllDue, Kept, [Next]_vars, NEW b \in Short PROVE KeptAt(b)'
    BY DEF Kept
<1>0. KeptAt(b)
    BY DEF Kept
<1>1. ASSUME NEW a, NEW p, NEW e, NEW from, Announced(a, p, e, from) PROVE KeptAt(b)'
    <2>1. CASE b = a
        BY <1>1, <2>1 DEF Announced, KeptAt, AskSave
    <2>2. CASE b # a
        <3>1. /\ dev'[b] = IF b \in from THEN Absent ELSE dev[b]
              /\ requests \subseteq requests' /\ file' = file /\ lost' = lost \ {a}
              /\ saves \cup unsaved \subseteq saves' \cup unsaved'
            BY <1>1, <2>2 DEF Announced, AskSave
        <3>2. \A t \in due' : t[1] = b => t \in due
            BY <1>1, <2>2 DEF Announced
        <3>3. Known(b)' => Known(b) /\ dev'[b] = dev[b]
            BY <3>1 DEF Known
        <3>4. QED
            BY <1>0, <2>2, <3>1, <3>2, <3>3, KeptFrame
    <2>3. QED
        BY <2>1, <2>2
<1>2. ASSUME NEW r, NEW e, NEW l, ListingDone(r, e, l) PROVE KeptAt(b)'
    <2>1. /\ r \in requests /\ r.kind = "active" /\ r.addr \in Short /\ r.to \in Device
          /\ Changes(r.addr, e, l.entry) /\ e \in Entry /\ l = ListEndpoints(r.to, e)
          /\ UNCHANGED <<saves, unsaved, file, lost, due>>
          /\ requests' = (requests \ {r}) \cup {Simple(r.addr, r.to, q) : q \in l.asked}
        BY <1>2, RequestParts DEF ListingDone, Changes, Typed, Posted, history, storage
    <2>2. \A s \in requests : s.kind = "simple" => s \in requests'
        BY <2>1
    <2>3. CASE b = r.addr /\ l.entry # e
        <3>1. PICK q \in l.asked : TRUE
            BY <2>1, <2>3, ListKeeps
        <3>2. /\ Simple(b, r.to, q) \in requests' /\ Simple(b, r.to, q).addr = b
              /\ Simple(b, r.to, q).kind = "simple"
            BY <2>1, <2>3, <3>1 DEF Simple
        <3>3. l.entry.device = e.device
            BY <2>1, ListKeeps DEF SameBut
        <3>4. PICK j, p : j = file[b] /\ j = file'[b] /\ p = dev[b].device /\ p = dev'[b].device
            BY <2>1, <2>3, <3>3 DEF Changes
        <3>5. Known(b)
            BY <2>1, <2>3 DEF Changes
        <3>6. b \notin saves \cup unsaved =>
                  /\ j # Absent /\ j.device = p
                  /\ \A t \in due : t[1] = b =>
                        \E c \in ToSet(FromJson(j).cfgs) : c.ep = t[2] /\ c.cl = t[3]
            BY <1>0, <3>4, <3>5 DEF KeptAt
        <3>7. QED
            BY <2>1, <3>2, <3>4, <3>6 DEF KeptAt
    <2>4. CASE ~ (b = r.addr /\ l.entry # e)
        <3>1. Known(b)' => Known(b) /\ dev'[b] = dev[b]
            BY <2>1, <2>4 DEF Changes, Known
        <3>2. QED
            BY <1>0, <2>1, <2>2, <3>1, KeptFrame
    <2>5. QED
        BY <2>3, <2>4
<1>3. ASSUME NEW r, NEW e, NEW f, DescribingDone(r, e, f) PROVE KeptAt(b)'
    <2>1. /\ Changes(r.addr, e, f) /\ f.device = e.device /\ UNCHANGED <<file, due>>
          /\ saves \cup unsaved \subseteq saves' \cup unsaved'
          /\ r.addr \in saves' \cup unsaved' \/ r.addr \in lost'
          /\ \A c \in Short : c # r.addr => (c \in lost <=> c \in lost')
          /\ \A s \in requests : s # r => s \in requests'
        BY <1>3 DEF DescribingDone, OnlyDescribes, AskSave
    <2>2. CASE b = r.addr
        <3>1. CASE b \in saves' \cup unsaved'
            BY <3>1 DEF KeptAt
        <3>2. CASE b \notin saves' \cup unsaved'
            <4>1. PICK j, p : /\ j = file[b] /\ j = file'[b] /\ p = dev[b].device
                              /\ p = dev'[b].device /\ Known(b)
                BY <2>1, <2>2 DEF Changes
            <4>2. /\ j # Absent /\ j.device = p
                  /\ \A t \in due : t[1] = b =>
                        \E c \in ToSet(FromJson(j).cfgs) : c.ep = t[2] /\ c.cl = t[3]
                BY <1>0, <2>1, <3>2, <4>1 DEF KeptAt
            <4>3. QED
                BY <2>1, <2>2, <3>2, <4>1, <4>2 DEF KeptAt
        <3>3. QED
            BY <3>1, <3>2
    <2>3. CASE b # r.addr
        <3>1. Known(b)' => Known(b) /\ dev'[b] = dev[b]
            BY <2>1, <2>3 DEF Changes, Known
        <3>2. \A s \in requests : s.addr = b => s \in requests'
            BY <2>1, <2>3
        <3>3. QED
            BY <1>0, <2>1, <2>3, <3>1, <3>2, KeptFrame
    <2>4. QED
        BY <2>2, <2>3
<1>4. ASSUME NEW r, Ignored(r) PROVE KeptAt(b)'
    <2>1. /\ ~ Known(r.addr) /\ dev' = dev /\ UNCHANGED <<saves, unsaved, file, lost, due>>
          /\ \A s \in requests : s # r => s \in requests'
        BY <1>4 DEF Ignored, storage, history
    <2>2. CASE Known(b)
        <3>1. \A s \in requests : s.addr = b => s \in requests'
            BY <2>1, <2>2
        <3>2. QED
            BY <1>0, <2>1, <2>2, <3>1, KeptFrame
    <2>3. CASE ~ Known(b)
        BY <2>1, <2>3 DEF KeptAt, Known
    <2>4. QED
        BY <2>2, <2>3
<1>5. ASSUME NEW r \in requests, Bound(r) PROVE KeptAt(b)'
    <2>1. /\ r.kind = "bind" /\ dev' = dev /\ UNCHANGED <<saves, unsaved, file, lost, due>>
          /\ requests' = requests \ {r}
        BY <1>5 DEF Bound, storage, history
    <2>2. \A s \in requests : s.kind = "simple" => s \in requests'
        BY <2>1
    <2>3. Known(b)' => Known(b)
        BY <2>1 DEF Known
    <2>4. QED
        BY <1>0, <2>1, <2>2, <2>3, KeptFrame
<1>6. ASSUME NEW r \in requests, RequestFails(r) PROVE KeptAt(b)'
    <2>1. /\ dev' = dev /\ UNCHANGED <<saves, unsaved, file, due>>
          /\ lost' = lost \cup {r.addr} /\ requests' = requests \ {r}
        BY <1>6 DEF RequestFails, storage
    <2>2. b \notin lost' => b \notin lost /\ \A s \in requests : s.addr = b => s \in requests'
        BY <2>1
    <2>3. Known(b)' => Known(b)
        BY <2>1 DEF Known
    <2>4. QED
        BY <1>0, <2>1, <2>2, <2>3, KeptFrame
<1>7. ASSUME NEW a, Saving(a) PROVE KeptAt(b)'
    <2>1. /\ dev' = dev /\ requests' = requests /\ UNCHANGED <<lost, due>> /\ saves' = saves \ {a}
          /\ \A c \in Short : c # a => (c \in unsaved' <=> c \in unsaved)
        BY <1>7 DEF Saving, history
    <2>2. CASE b = a /\ Known(b) /\ b \notin unsaved'
        <3>1. PICK e \in Entry : e = dev[b] /\ e = dev'[b]
            BY <2>1, <2>2 DEF Typed, Tabled, Known
        <3>2. PICK j : j = ToJson(e) /\ j = file'[b]
            BY <1>7, <2>2, <3>1 DEF Saving
        <3>3. j # Absent /\ j.device = e.device /\ j.endpoints = SavedSlots(e)
            <4>1. j # Absent
                BY <3>2, SavedAndLoaded
            <4>2. PICK w : w = SavedSlots(e)
                OBVIOUS
            <4>3. j = [device |-> e.device, endpoints |-> w, reports |-> e.cfgs]
                BY <3>2, <4>2, Zenon DEF ToJson, SavedSlots
            <4>4. j.device = e.device /\ j.endpoints = SavedSlots(e)
                BY <4>2, <4>3
            <4>5. QED
                BY <4>1, <4>4
        <3>4. ASSUME NEW t \in due, t[1] = b
              PROVE  \E c \in ToSet(FromJson(j).cfgs) : c.ep = t[2] /\ c.cl = t[3]
            <4>1. t[3] \in Reportable(e, t[2])
                BY <2>2, <3>1, <3>4 DEF AllDue, DueAt
            <4>2. PICK c \in ToSet(e.cfgs) : c.ep = t[2] /\ c.state # "undirected" /\ c.cl = t[3]
                BY <4>1, ConfiguredClusters
            <4>3. c \in ToSet(FromJson(j).cfgs)
                BY <3>2, <4>2, SavedAndLoaded
            <4>4. QED
                BY <4>2, <4>3
        <3>5. QED
            BY <2>1, <3>1, <3>2, <3>3, <3>4 DEF KeptAt
    <2>3. CASE b = a /\ (~ Known(b) \/ b \in unsaved')
        BY <2>1, <2>3 DEF KeptAt, Known
    <2>4. CASE b # a
        <3>1. file'[b] = file[b]
            BY <1>7, <2>4 DEF Saving
        <3>2. Known(b)' => Known(b)
            BY <2>1 DEF Known
        <3>3. QED
            BY <1>0, <2>1, <2>4, <3>1, <3>2, KeptFrame
    <2>5. QED
        BY <2>2, <2>3, <2>4
<1>8. ASSUME NEW a, Removing(a) PROVE KeptAt(b)'
    <2>1. UNCHANGED <<requests, saves, unsaved, file, lost, due>>
        BY <1>8 DEF Removing, storage
    <2>2. Known(b)' => Known(b) /\ dev'[b] = dev[b]
        BY <1>8 DEF Removing, Known
    <2>3. QED
        BY <1>0, <2>1, <2>2, KeptFrame
<1>9. ASSUME NEW a, NEW e, NEW f, NEW c, ConfiguringDone(a, e, f, c) PROVE KeptAt(b)'
    <2>1. /\ UNCHANGED <<requests, saves, unsaved, file, lost, due>> /\ Changes(a, e, f)
          /\ f.device = e.device /\ f.count = e.count /\ f.slots = e.slots
        BY <1>9 DEF ConfiguringDone, OnlyConfigures, storage
    <2>2. SavedSlots(f) = SavedSlots(e)
        BY <2>1 DEF SavedSlots
    <2>3. Known(b)' => /\ Known(b) /\ dev'[b].device = dev[b].device
                       /\ SavedSlots(dev'[b]) = SavedSlots(dev[b])
        BY <2>1, <2>2 DEF Changes, Known
    <2>4. QED
        BY <1>0, <2>1, <2>3, KeptFrame
<1>10. ASSUME (\E a, ep, cl : BindingAsked(a, ep, cl)) \/ UNCHANGED vars PROVE KeptAt(b)'
    <2>1. dev' = dev /\ requests \subseteq requests' /\ UNCHANGED <<saves, unsaved, file, lost, due>>
        BY <1>10 DEF BindingAsked, vars, storage, history
    <2>2. Known(b)' => Known(b)
        BY <2>1 DEF Known
    <2>3. QED
        BY <1>0, <2>1, <2>2, KeptFrame
<1>11. QED
    BY <1>1, <1>2, <1>3, <1>4, <1>5, <1>6, <1>7, <1>8, <1>9, <1>10, Effects, Zenon

LEMMA AlwaysKept == Spec => []Kept
<1>1. Init => Kept
    BY DEF Init, Kept, KeptAt, Known
<1>2. QED
    BY <1>1, KeptStep, AlwaysTyped, AlwaysDue, PTL DEF Spec

(* What device_from_json reads back depends on nothing but the endpoints in the file.  *)
LEMMA SameEndpointsRead ==
    ASSUME NEW j, NEW k, j.endpoints = k.endpoints
    PROVE  /\ FromJson(j).device = j.device
           /\ FromJson(j).count = FromJson(k).count /\ FromJson(j).slots = FromJson(k).slots
BY DEF FromJson

(* When an interview none of whose answers is lost is over and its saves are done,      *)
(* the last of them neither refused nor failed, a restart would read the device back   *)
(* with its endpoints as described and the configurations the interview was to serve,  *)
(* in whatever order the answers and the saves came and whatever saves were refused    *)
(* or failed before (mod_zig_handlers.c:401, device_json.c:32-165, 168-359).         *)
THEOREM DescriptionsAreSaved == Spec => []DescriptionsReachFlash
<1>1. Typed /\ Kept => DescriptionsReachFlash
    <2> SUFFICES ASSUME Typed, Kept, NEW a \in Short, Quiet(a), a \notin saves \cup unsaved
                 PROVE  /\ file[a] # Absent
                        /\ LET e == FromJson(file[a])
                           IN  /\ e.device = dev[a].device /\ e.count = dev[a].count
                               /\ \A i \in 1..e.count : e.slots[i] = dev[a].slots[i]
                               /\ {t \in due : t[1] = a} \subseteq {<<a, c.ep, c.cl>> : c \in ToSet(e.cfgs)}
        BY DEF DescriptionsReachFlash
    <2>1. PICK d \in Entry : d = dev[a]
        BY DEF Typed, Tabled, Quiet, Known
    <2>2. PICK j : j = file[a]
        OBVIOUS
    <2>3. KeptAt(a) /\ Known(a) /\ a \notin lost /\ ~ \E r \in requests : r.addr = a /\ r.kind = "simple"
        BY DEF Kept, Quiet
    <2>4. /\ j # Absent /\ j.device = d.device /\ j.endpoints = SavedSlots(d)
          /\ \A t \in due : t[1] = a => \E c \in ToSet(FromJson(j).cfgs) : c.ep = t[2] /\ c.cl = t[3]
        BY <2>1, <2>2, <2>3 DEF KeptAt
    <2>5. PICK k : k = ToJson(d)
        OBVIOUS
    <2>6. j.endpoints = k.endpoints
        BY <2>4, <2>5 DEF ToJson, SavedSlots
    <2>7. PICK e : e = FromJson(j)
        OBVIOUS
    <2>8. /\ FromJson(k).count = d.count /\ \A i \in 1..d.count : FromJson(k).slots[i] = d.slots[i]
        BY <2>5, SavedAndLoaded
    <2>9. /\ e.device = d.device /\ e.count = d.count
          /\ \A i \in 1..e.count : e.slots[i] = d.slots[i]
        <3>1. e.device = j.device /\ e.count = FromJson(k).count /\ e.slots = FromJson(k).slots
            BY <2>6, <2>7, SameEndpointsRead
        <3>2. QED
            BY <2>4, <2>8, <3>1
    <2>10. ASSUME NEW t \in due, t[1] = a
           PROVE  t \in {<<a, c.ep, c.cl>> : c \in ToSet(e.cfgs)}
        <3>1. PICK c \in ToSet(e.cfgs) : c.ep = t[2] /\ c.cl = t[3]
            BY <2>4, <2>7, <2>10
        <3>2. t = <<a, c.ep, c.cl>>
            BY <2>10, <3>1, DueTriple
        <3>3. QED
            BY <3>2
    <2>11. QED
        BY <2>1, <2>2, <2>4, <2>7, <2>9, <2>10
<1>2. QED
    BY <1>1, AlwaysTyped, AlwaysKept, PTL
================================================================================
