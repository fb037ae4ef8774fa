-------------------------- MODULE DeviceManagerProofs --------------------------
(***************************************************************************)
(* Proofs about the device manager for any sets of addresses and any       *)
(* capacity, and the facts about the table they and the proofs of           *)
(* DeviceStorage rest on.                                                  *)
(***************************************************************************)
EXTENDS DeviceManager, SequenceFacts

--------------------------------------------------------------------------------
(* Look-ups.                                                               *)

(* Scanning for an address stops at the first entry that has it.           *)
LEMMA ShortLookup ==
    ASSUME NEW S, NEW t \in Seq(S), NEW a
    PROVE  /\ IndexOfShort(t, a) \in 0..Len(t)
           /\ IndexOfShort(t, a) # 0 => t[IndexOfShort(t, a)].short = a
           /\ IndexOfShort(t, a) = 0 <=> \A i \in 1..Len(t) : t[i].short # a
           /\ \A i \in 1..Len(t) : t[i].short = a => IndexOfShort(t, a) <= i
<1> DEFINE I == {i \in 1..Len(t) : t[i].short = a}
<1>1. IndexOfShort(t, a) = IF I # {} THEN Min(I) ELSE 0
    BY DEF IndexOfShort, SelectInSeq
<1>2. I \subseteq 1..Len(t)
    OBVIOUS
<1> HIDE DEF I
<1>3. /\ IndexOfShort(t, a) \in 0..Len(t)
      /\ IndexOfShort(t, a) # 0 => IndexOfShort(t, a) \in I
      /\ IndexOfShort(t, a) = 0 <=> I = {}
      /\ \A i \in I : IndexOfShort(t, a) <= i
    BY <1>1, <1>2, FirstHit
<1>4. QED
    BY <1>3 DEF I

LEMMA IeeeLookup ==
    ASSUME NEW S, NEW t \in Seq(S), NEW x
    PROVE  /\ IndexOfIeee(t, x) \in 0..Len(t)
           /\ IndexOfIeee(t, x) # 0 => t[IndexOfIeee(t, x)].ieee = x
           /\ IndexOfIeee(t, x) = 0 <=> \A i \in 1..Len(t) : t[i].ieee # x
<1> DEFINE I == {i \in 1..Len(t) : t[i].ieee = x}
<1>1. IndexOfIeee(t, x) = IF I # {} THEN Min(I) ELSE 0
    BY DEF IndexOfIeee, SelectInSeq
<1>2. I \subseteq 1..Len(t)
    OBVIOUS
<1> HIDE DEF I
<1>3. /\ IndexOfIeee(t, x) \in 0..Len(t)
      /\ IndexOfIeee(t, x) # 0 => IndexOfIeee(t, x) \in I
      /\ IndexOfIeee(t, x) = 0 <=> I = {}
    BY <1>1, <1>2, FirstHit
<1>4. QED
    BY <1>3 DEF I

LEMMA EpLookup ==
    ASSUME NEW S, NEW eps \in Seq(S), NEW n
    PROVE  /\ IndexOfEp(eps, n) \in 0..Len(eps)
           /\ IndexOfEp(eps, n) # 0 => eps[IndexOfEp(eps, n)].id = n
           /\ IndexOfEp(eps, n) = 0 <=> \A i \in 1..Len(eps) : eps[i].id # n
<1> DEFINE I == {i \in 1..Len(eps) : eps[i].id = n}
<1>1. IndexOfEp(eps, n) = IF I # {} THEN Min(I) ELSE 0
    BY DEF IndexOfEp, SelectInSeq
<1>2. I \subseteq 1..Len(eps)
    OBVIOUS
<1> HIDE DEF I
<1>3. /\ IndexOfEp(eps, n) \in 0..Len(eps)
      /\ IndexOfEp(eps, n) # 0 => IndexOfEp(eps, n) \in I
      /\ IndexOfEp(eps, n) = 0 <=> I = {}
    BY <1>1, <1>2, FirstHit
<1>4. QED
    BY <1>3 DEF I

--------------------------------------------------------------------------------
(* The endpoints of an entry.                                               *)

Capped == {eps \in Seq(Endpoint) : Len(eps) <= MaxEndpoints}

DistinctEps(eps) == \A m, n \in 1..Len(eps) : eps[m].id = eps[n].id => m = n

DistinctLists == {eps \in Capped : DistinctEps(eps)}

Ids(eps) == {eps[n].id : n \in 1..Len(eps)}

(* Merging one endpoint keeps the array's bounds, lists no number twice and   *)
(* takes none off the list.                                                 *)
LEMMA MergeOne ==
    ASSUME NEW eps \in Capped, NEW e \in Endpoint
    PROVE  /\ MergeEndpoint(eps, e) \in Capped
           /\ DistinctEps(eps) => DistinctEps(MergeEndpoint(eps, e))
           /\ Ids(eps) \subseteq Ids(MergeEndpoint(eps, e))
<1> DEFINE i == IndexOfEp(eps, e.id)
<1>1. Len(eps) \in Nat /\ MaxEndpoints \in Nat /\ eps \in Seq(Endpoint)
    BY LenProperties, CapacityAssumption DEF Capped
<1>2. /\ i \in 0..Len(eps) /\ (i # 0 => eps[i].id = e.id)
      /\ i = 0 <=> \A n \in 1..Len(eps) : eps[n].id # e.id
    BY <1>1, EpLookup
<1>3. MergeEndpoint(eps, e) = IF i # 0 THEN [eps EXCEPT ![i] = e]
                              ELSE IF Len(eps) < MaxEndpoints THEN Append(eps, e) ELSE eps
    BY DEF MergeEndpoint, ReplaceAt
<1> HIDE DEF i
<1>4. CASE i # 0
    <2> DEFINE u == [eps EXCEPT ![i] = e]
    <2>1. /\ u \in Seq(Endpoint) /\ Len(u) = Len(eps)
          /\ \A n \in 1..Len(eps) : u[n] = IF n = i THEN e ELSE eps[n]
        BY <1>1, <1>2, <1>4, ExceptSeq
    <2>2. MergeEndpoint(eps, e) = u
        BY <1>3, <1>4
    <2> HIDE DEF u
    <2>3. \A n \in 1..Len(eps) : u[n].id = eps[n].id
        BY <1>2, <1>4, <2>1
    <2>4. u \in Capped
        BY <2>1 DEF Capped
    <2>5. DistinctEps(eps) => DistinctEps(u)
        BY <2>1, <2>3 DEF DistinctEps
    <2>6. Ids(eps) \subseteq Ids(u)
        BY <2>1, <2>3 DEF Ids
    <2>7. QED
        BY <2>2, <2>4, <2>5, <2>6
<1>5. CASE i = 0 /\ Len(eps) < MaxEndpoints
    <2> DEFINE u == Append(eps, e)
    <2>1. /\ u \in Seq(Endpoint) /\ Len(u) = Len(eps) + 1
          /\ \A n \in 1..Len(eps) : u[n] = eps[n]
          /\ u[Len(eps) + 1] = e
        BY <1>1, AppendProperties
    <2>2. MergeEndpoint(eps, e) = u
        BY <1>3, <1>5
    <2> HIDE DEF u
    <2>3. u \in Capped
        BY <1>1, <1>5, <2>1 DEF Capped
    <2>4. DistinctEps(eps) => DistinctEps(u)
        BY <1>1, <1>2, <1>5, <2>1 DEF DistinctEps
    <2>5. Ids(eps) \subseteq Ids(u)
        BY <1>1, <2>1 DEF Ids
    <2>6. QED
        BY <2>2, <2>3, <2>4, <2>5
<1>6. CASE i = 0 /\ ~ (Len(eps) < MaxEndpoints)
    BY <1>3, <1>6
<1>7. QED
    BY <1>4, <1>5, <1>6

(* The loop over the new endpoints does what its single steps do.            *)
LEMMA MergeLoop ==
    ASSUME NEW eps \in Capped, NEW new \in Seq(Endpoint)
    PROVE  \E f : /\ f[0] = eps /\ MergeEndpoints(eps, new) = f[Len(new)]
                  /\ \A n \in 1..Len(new) : f[n] = MergeEndpoint(f[n - 1], new[n])
<1>1. PICK N : N = Len(new)
    OBVIOUS
<1>2. N \in Nat /\ \A n \in 1..N : new[n] \in Endpoint
    BY <1>1, LenProperties, ElementOfSeq
<1>3. PICK F \in [Capped \X (1..N) -> Capped] :
          \A v \in Capped, n \in 1..N : F[<<v, n>>] = MergeEndpoint(v, new[n])
    <2> DEFINE G == [p \in Capped \X (1..N) |-> MergeEndpoint(p[1], new[p[2]])]
    <2>1. \A p \in Capped \X (1..N) : MergeEndpoint(p[1], new[p[2]]) \in Capped
        BY <1>2, MergeOne
    <2>2. G \in [Capped \X (1..N) -> Capped]
        BY <2>1
    <2>3. \A v \in Capped, n \in 1..N : G[<<v, n>>] = MergeEndpoint(v, new[n])
        OBVIOUS
    <2> HIDE DEF G
    <2>4. QED
        BY <2>2, <2>3
<1>4. PICK g : Runs(g, N, Capped, eps, F)
    BY <1>2, <1>3, LoopExists
<1>5. \A n \in 1..N : g[n] = MergeEndpoint(g[n - 1], new[n])
    <2>1. ASSUME NEW n \in 1..N PROVE g[n - 1] \in Capped
        BY <1>2, <1>4 DEF Runs
    <2>2. QED
        BY <1>3, <1>4, <2>1 DEF Runs
<1> DEFINE Eq(f) == f = [n \in 0..Len(new) |-> IF n = 0 THEN eps
                                                ELSE MergeEndpoint(f[n - 1], new[n])]
<1>6. Eq(g)
    <2>1. \A n \in 0..N : g[n] = IF n = 0 THEN eps ELSE MergeEndpoint(g[n - 1], new[n])
        BY <1>2, <1>4, <1>5 DEF Runs
    <2>2. g = [n \in 0..N |-> g[n]]
        BY <1>4 DEF Runs
    <2>3. QED
        BY <1>1, <2>1, <2>2
<1> DEFINE h == CHOOSE f : Eq(f)
<1>7. Eq(h)
    BY <1>6, Zenon
<1>8. MergeEndpoints(eps, new) = h[Len(new)]
    BY Zenon DEF MergeEndpoints
<1>9. h[0] = eps /\ \A n \in 1..Len(new) : h[n] = MergeEndpoint(h[n - 1], new[n])
    <2>1. PICK k : k = h
        OBVIOUS
    <2>2. k = [n \in 0..Len(new) |-> IF n = 0 THEN eps ELSE MergeEndpoint(k[n - 1], new[n])]
        BY <1>7, <2>1
    <2>3. 0 \in 0..Len(new) /\ \A n \in 1..Len(new) : n \in 0..Len(new) /\ n # 0
        BY <1>1, <1>2
    <2>4. k[0] = eps
        BY <2>2, <2>3
    <2>5. \A n \in 1..Len(new) : k[n] = MergeEndpoint(k[n - 1], new[n])
        BY <2>2, <2>3
    <2>6. QED
        BY <2>1, <2>4, <2>5
<1> HIDE DEF h
<1>10. QED
    BY <1>8, <1>9

LEMMA MergeKeeps ==
    ASSUME NEW eps \in Capped, NEW new \in Seq(Endpoint)
    PROVE  /\ MergeEndpoints(eps, new) \in Capped
           /\ DistinctEps(eps) => DistinctEps(MergeEndpoints(eps, new))
           /\ Ids(eps) \subseteq Ids(MergeEndpoints(eps, new))
<1>1. PICK f : /\ f[0] = eps /\ MergeEndpoints(eps, new) = f[Len(new)]
               /\ \A n \in 1..Len(new) : f[n] = MergeEndpoint(f[n - 1], new[n])
    BY MergeLoop
<1>2. Len(new) \in Nat /\ \A n \in 1..Len(new) : new[n] \in Endpoint
    BY LenProperties, ElementOfSeq
<1> DEFINE Good(s) == /\ s \in Capped /\ (DistinctEps(eps) => DistinctEps(s))
                      /\ Ids(eps) \subseteq Ids(s)
           P == {n \in 0..Len(new) : Good(f[n])}
<1>3. 0 \in P
    BY <1>1, <1>2
<1>4. ASSUME NEW n \in 0..Len(new), n < Len(new), n \in P PROVE n + 1 \in P
    <2>1. n + 1 \in 1..Len(new) /\ n + 1 \in 0..Len(new) /\ (n + 1) - 1 = n
        BY <1>2, <1>4
    <2>2. f[n + 1] = MergeEndpoint(f[n], new[n + 1]) /\ new[n + 1] \in Endpoint
        BY <1>1, <1>2, <2>1
    <2>3. Good(f[n])
        BY <1>4
    <2>4. Good(MergeEndpoint(f[n], new[n + 1]))
        BY <2>2, <2>3, MergeOne
    <2> HIDE DEF Good
    <2>5. QED
        BY <2>1, <2>2, <2>4
<1> HIDE DEF P
<1>5. \A n \in 0..Len(new) : n \in P
    BY <1>2, <1>3, <1>4, CountingUp
<1>6. Len(new) \in 0..Len(new)
    BY <1>2
<1>7. Good(f[Len(new)])
    BY <1>5, <1>6 DEF P
<1>8. QED
    BY <1>1, <1>7

LEMMA DistinctListsMerge ==
    /\ <<>> \in DistinctLists /\ DistinctLists \subseteq Seq(Endpoint)
    /\ \A old \in DistinctLists, new \in Seq(Endpoint) : MergeEndpoints(old, new) \in DistinctLists
<1>1. <<>> \in DistinctLists /\ DistinctLists \subseteq Seq(Endpoint)
    BY EmptySeq, CapacityAssumption DEF DistinctLists, Capped, DistinctEps
<1>2. QED
    BY <1>1, MergeKeeps DEF DistinctLists

(* Merging a list without repetitions into an empty list gives that list.      *)
LEMMA MergeIntoNothing ==
    ASSUME NEW eps \in DistinctLists PROVE MergeEndpoints(<<>>, eps) = eps
<1>1. /\ eps \in Seq(Endpoint) /\ DistinctEps(eps)
      /\ Len(eps) \in Nat /\ MaxEndpoints \in Nat /\ Len(eps) <= MaxEndpoints
      /\ \A n \in 1..Len(eps) : eps[n] \in Endpoint
      /\ <<>> \in Capped
    BY LenProperties, ElementOfSeq, CapacityAssumption, DistinctListsMerge DEF DistinctLists, Capped
<1>2. PICK f : /\ f[0] = <<>> /\ MergeEndpoints(<<>>, eps) = f[Len(eps)]
               /\ \A n \in 1..Len(eps) : f[n] = MergeEndpoint(f[n - 1], eps[n])
    BY <1>1, MergeLoop
<1> DEFINE Copied(s, n) == s \in Seq(Endpoint) /\ Len(s) = n /\ \A m \in 1..n : s[m] = eps[m]
           P == {n \in 0..Len(eps) : Copied(f[n], n)}
<1>3. 0 \in P
    <2>1. f[0] \in Seq(Endpoint) /\ Len(f[0]) = 0 /\ \A m \in 1..0 : f[0][m] = eps[m]
        BY <1>2, EmptySeq
    <2>2. 0 \in 0..Len(eps)
        BY <1>1
    <2>3. QED
        BY <2>1, <2>2
<1>4. ASSUME NEW n \in 0..Len(eps), n < Len(eps), n \in P PROVE n + 1 \in P
    <2>1. n + 1 \in 1..Len(eps) /\ n + 1 \in 0..Len(eps) /\ (n + 1) - 1 = n /\ n \in Nat
        BY <1>1, <1>4
    <2>2. PICK s : s = f[n] /\ Copied(s, n)
        BY <1>4
    <2>3. f[n + 1] = MergeEndpoint(s, eps[n + 1]) /\ eps[n + 1] \in Endpoint
        BY <1>1, <1>2, <2>1, <2>2
    <2>4. \A m \in 1..n : s[m].id # eps[n + 1].id
        <3>1. \A m \in 1..n : m \in 1..Len(eps) /\ m # n + 1
            BY <1>1, <2>1
        <3>2. QED
            BY <1>1, <2>1, <2>2, <3>1 DEF DistinctEps
    <2>5. IndexOfEp(s, eps[n + 1].id) = 0
        BY <2>2, <2>4, EpLookup
    <2>6. f[n + 1] = Append(s, eps[n + 1])
        BY <1>1, <1>4, <2>1, <2>2, <2>3, <2>5 DEF MergeEndpoint
    <2>7. /\ Append(s, eps[n + 1]) \in Seq(Endpoint) /\ Len(Append(s, eps[n + 1])) = n + 1
          /\ \A m \in 1..n : Append(s, eps[n + 1])[m] = s[m]
          /\ Append(s, eps[n + 1])[n + 1] = eps[n + 1]
        BY <2>2, <2>3, AppendProperties
    <2>8. \A m \in 1..(n + 1) : m \in 1..n \/ m = n + 1
        BY <2>1
    <2>9. Copied(f[n + 1], n + 1)
        BY <2>2, <2>6, <2>7, <2>8
    <2>10. QED
        BY <2>1, <2>9
<1> HIDE DEF P
<1>5. \A n \in 0..Len(eps) : n \in P
    BY <1>1, <1>3, <1>4, CountingUp
<1>6. Copied(f[Len(eps)], Len(eps))
    BY <1>1, <1>5 DEF P
<1>7. f[Len(eps)] = eps
    BY <1>1, <1>6, SeqEqual
<1>8. QED
    BY <1>2, <1>7

--------------------------------------------------------------------------------
(* Operations keep the table in shape: P is a set of endpoint lists that an  *)
(* entry may have, the empty one among them.                                *)

Entries(P) == {e \in Entry : e.eps \in P}
Fits(t, P) == t \in Seq(Entries(P)) /\ Len(t) <= MaxDevices
Distinct(t) == \A i, j \in 1..Len(t) : t[i].ieee = t[j].ieee => i = j

LEMMA DeleteShifts ==
    ASSUME NEW S, NEW t \in Seq(S), NEW a
    PROVE  LET c == IndexOfShort(t, a)
           IN  /\ Delete(t, a) \in Seq(S)
               /\ c = 0 => Delete(t, a) = t
               /\ c # 0 => /\ Len(Delete(t, a)) = Len(t) - 1
                           /\ \A j \in 1..(Len(t) - 1) :
                                 Delete(t, a)[j] = IF j < c THEN t[j] ELSE t[j + 1]
<1>1. CASE IndexOfShort(t, a) = 0
    BY <1>1 DEF Delete, Known
<1>2. CASE IndexOfShort(t, a) # 0
    <2>1. IndexOfShort(t, a) \in 1..Len(t)
        BY <1>2, ShortLookup, LenProperties
    <2>2. Delete(t, a) = RemoveAt(t, IndexOfShort(t, a))
        BY <1>2 DEF Delete, Known
    <2>3. QED
        BY <1>2, <2>1, <2>2, RemoveAtShifts
<1>3. QED
    BY <1>1, <1>2

LEMMA DeleteKeeps ==
    ASSUME NEW P, NEW t, Fits(t, P), NEW a
    PROVE  Fits(Delete(t, a), P) /\ (Distinct(t) => Distinct(Delete(t, a)))
<1>1. Len(t) \in Nat /\ MaxDevices \in Nat
    BY LenProperties, CapacityAssumption DEF Fits
<1>2. CASE IndexOfShort(t, a) = 0
    BY <1>2, DeleteShifts DEF Fits
<1>3. CASE IndexOfShort(t, a) # 0
    <2>1. /\ Delete(t, a) \in Seq(Entries(P))
          /\ Len(Delete(t, a)) = Len(t) - 1
          /\ \A j \in 1..(Len(t) - 1) :
                Delete(t, a)[j] = t[IF j < IndexOfShort(t, a) THEN j ELSE j + 1]
        BY <1>3, DeleteShifts DEF Fits
    <2>2. Fits(Delete(t, a), P)
        BY <1>1, <2>1 DEF Fits
    <2>3. IndexOfShort(t, a) \in Nat
        BY ShortLookup DEF Fits
    <2>4. ASSUME Distinct(t) PROVE Distinct(Delete(t, a))
        <3>1. ASSUME NEW i \in 1..(Len(t) - 1), NEW j \in 1..(Len(t) - 1),
                     Delete(t, a)[i].ieee = Delete(t, a)[j].ieee
              PROVE  i = j
            <4> DEFINE From(k) == IF k < IndexOfShort(t, a) THEN k ELSE k + 1
            <4>1. From(i) \in 1..Len(t) /\ From(j) \in 1..Len(t)
                BY <1>1, <2>3
            <4>2. From(i) = From(j)
                BY <2>1, <2>4, <3>1, <4>1 DEF Distinct
            <4>3. QED
                BY <2>3, <4>2
        <3>2. QED
            BY <2>1, <3>1 DEF Distinct
    <2>5. QED
        BY <2>2, <2>4
<1>4. QED
    BY <1>2, <1>3

LEMMA CreateKeeps ==
    ASSUME NEW P, <<>> \in P, NEW t, Fits(t, P), NEW a \in Short, NEW x \in Ieee
    PROVE  /\ Fits(Create(t, a, x), P)
           /\ Distinct(t) /\ IndexOfIeee(t, x) = 0 => Distinct(Create(t, a, x))
<1>1. Len(t) \in Nat /\ MaxDevices \in Nat
    BY LenProperties, CapacityAssumption DEF Fits
<1>2. CASE Len(t) >= MaxDevices
    BY <1>2 DEF Create
<1>3. CASE Len(t) < MaxDevices
    <2>1. NewEntry(a, x) \in Entries(P) /\ NewEntry(a, x).ieee = x
        <3>1. <<>> \in Seq(Endpoint)
            BY EmptySeq
        <3>2. QED
            BY <3>1 DEF NewEntry, Entry, Entries
    <2>2. Create(t, a, x) = Append(t, NewEntry(a, x))
        BY <1>1, <1>3 DEF Create
    <2>3. /\ Create(t, a, x) \in Seq(Entries(P))
          /\ Len(Create(t, a, x)) = Len(t) + 1
          /\ \A i \in 1..Len(t) : Create(t, a, x)[i] = t[i]
          /\ Create(t, a, x)[Len(t) + 1] = NewEntry(a, x)
        BY <2>1, <2>2, AppendProperties DEF Fits
    <2>4. Fits(Create(t, a, x), P)
        BY <1>1, <1>3, <2>3 DEF Fits
    <2>5. ASSUME Distinct(t), IndexOfIeee(t, x) = 0 PROVE Distinct(Create(t, a, x))
        <3>1. \A i \in 1..Len(t) : t[i].ieee # x
            BY <2>5, IeeeLookup DEF Fits
        <3>2. QED
            BY <1>1, <2>1, <2>3, <2>5, <3>1 DEF Distinct
    <2>6. QED
        BY <2>4, <2>5
<1>4. QED
    BY <1>1, <1>2, <1>3

(* Writing through a pointer, fresh or stale, changes no hardware address.  *)
LEMMA WriteKeeps ==
    ASSUME NEW P, NEW t, Fits(t, P), NEW i \in 1..Len(t),
           NEW e \in Entries(P)
    PROVE  /\ Fits([t EXCEPT ![i] = e], P)
           /\ e.ieee = t[i].ieee /\ Distinct(t) => Distinct([t EXCEPT ![i] = e])
<1>1. /\ [t EXCEPT ![i] = e] \in Seq(Entries(P))
      /\ Len([t EXCEPT ![i] = e]) = Len(t)
      /\ \A j \in 1..Len(t) : [t EXCEPT ![i] = e][j] = IF j = i THEN e ELSE t[j]
    BY ExceptSeq DEF Fits
<1>2. QED
    BY <1>1 DEF Fits, Distinct

LEMMA RejoinKeeps ==
    ASSUME NEW P, NEW t, Fits(t, P), NEW a \in Short, NEW i \in 1..Len(t)
    PROVE  /\ Fits(Rejoin(t, a, i), P)
           /\ Distinct(t) => Distinct(Rejoin(t, a, i))
<1> DEFINE u == IF t[i].short = a THEN t ELSE Delete(t, a)
           e == [u[i] EXCEPT !.short = a, !.active = TRUE]
<1>1. Fits(u, P) /\ (Distinct(t) => Distinct(u))
    BY DeleteKeeps
<1>2. Rejoin(t, a, i) = IF i > Len(u) THEN u ELSE [u EXCEPT ![i] = e]
    BY DEF Rejoin
<1>3. CASE i > Len(u)
    BY <1>1, <1>2, <1>3
<1>4. CASE ~ (i > Len(u))
    <2> HIDE DEF u
    <2>1. i \in 1..Len(u) /\ u[i] \in Entries(P)
        BY <1>1, <1>4, LenProperties, ElementOfSeq DEF Fits
    <2>2. e \in Entries(P) /\ e.ieee = u[i].ieee
        BY <2>1 DEF Entry, Entries
    <2>3. Rejoin(t, a, i) = [u EXCEPT ![i] = e]
        BY <1>2, <1>4
    <2> HIDE DEF e
    <2>4. Fits([u EXCEPT ![i] = e], P) /\ (Distinct(u) => Distinct([u EXCEPT ![i] = e]))
        BY <1>1, <2>1, <2>2, WriteKeeps, Zenon
    <2>5. QED
        BY <1>1, <2>3, <2>4, Zenon
<1>5. QED
    BY <1>3, <1>4

LEMMA AddKeeps ==
    ASSUME NEW P, <<>> \in P, NEW t, Fits(t, P), NEW a \in Short, NEW x \in Ieee
    PROVE  Fits(Add(t, a, x), P) /\ (Distinct(t) => Distinct(Add(t, a, x)))
<1>1. CASE IndexOfIeee(t, x) = 0
    BY <1>1, CreateKeeps DEF Add
<1>2. CASE IndexOfIeee(t, x) # 0
    <2>1. IndexOfIeee(t, x) \in 1..Len(t)
        BY <1>2, IeeeLookup, LenProperties DEF Fits
    <2>2. QED
        BY <1>2, <2>1, RejoinKeeps DEF Add
<1>3. QED
    BY <1>1, <1>2

LEMMA TouchKeeps ==
    ASSUME NEW P, NEW t, Fits(t, P), NEW a
    PROVE  Fits(Touch(t, a), P) /\ (Distinct(t) => Distinct(Touch(t, a)))
<1>1. CASE ~ Known(t, a)
    BY <1>1 DEF Touch
<1>2. CASE Known(t, a)
    <2> DEFINE i == IndexOfShort(t, a)
               e == [t[i] EXCEPT !.active = TRUE]
    <2>1. i \in 1..Len(t) /\ t[i] \in Entries(P)
        BY <1>2, ShortLookup, LenProperties, ElementOfSeq DEF Fits, Known
    <2>2. e \in Entries(P) /\ e.ieee = t[i].ieee
        BY <2>1 DEF Entry, Entries
    <2>3. Touch(t, a) = [t EXCEPT ![i] = e]
        BY <1>2, <2>1 DEF Touch
    <2> HIDE DEF e, i
    <2>4. Fits([t EXCEPT ![i] = e], P) /\ (Distinct(t) => Distinct([t EXCEPT ![i] = e]))
        BY <2>1, <2>2, WriteKeeps, Zenon
    <2>5. QED
        BY <2>3, <2>4, Zenon
<1>3. QED
    BY <1>1, <1>2

LEMMA ConfigureKeeps ==
    ASSUME NEW P, NEW t, Fits(t, P), NEW a, Known(t, a), NEW c \in Cfg
    PROVE  Fits(Configure(t, a, c), P) /\ (Distinct(t) => Distinct(Configure(t, a, c)))
<1> DEFINE i == IndexOfShort(t, a)
           e == [t[i] EXCEPT !.cfgs = @ \cup {c}]
<1>1. i \in 1..Len(t) /\ t[i] \in Entries(P)
    BY ShortLookup, LenProperties, ElementOfSeq DEF Fits, Known
<1>2. e \in Entries(P) /\ e.ieee = t[i].ieee
    BY <1>1 DEF Entry, Entries
<1>3. Configure(t, a, c) = [t EXCEPT ![i] = e]
    BY <1>1 DEF Configure
<1> HIDE DEF e, i
<1>4. Fits([t EXCEPT ![i] = e], P) /\ (Distinct(t) => Distinct([t EXCEPT ![i] = e]))
    BY <1>1, <1>2, WriteKeeps, Zenon
<1>5. QED
    BY <1>3, <1>4, Zenon

(* A loaded device: what merging makes of a list stays in P.                *)
LEMMA UpdateKeeps ==
    ASSUME NEW P, P \subseteq Seq(Endpoint),
           \A old \in P, new \in Seq(Endpoint) : MergeEndpoints(old, new) \in P,
           NEW t, Fits(t, P), NEW u \in Entry
    PROVE  Fits(Update(t, u), P)
<1> DEFINE i == IndexOfShort(t, u.short)
           e == [t[i] EXCEPT !.ieee = u.ieee, !.active = u.active,
                             !.eps = MergeEndpoints(t[i].eps, u.eps)]
<1>1. CASE i = 0
    BY <1>1 DEF Update
<1>2. CASE i # 0
    <2>1. i \in 1..Len(t) /\ t[i] \in Entries(P)
        BY <1>2, ShortLookup, LenProperties, ElementOfSeq DEF Fits
    <2>2. e \in Entries(P)
        <3>1. MergeEndpoints(t[i].eps, u.eps) \in P
            BY <2>1 DEF Entries, Entry
        <3>2. MergeEndpoints(t[i].eps, u.eps) \in Seq(Endpoint)
            BY <3>1
        <3>3. QED
            BY <2>1, <3>1, <3>2 DEF Entries, Entry
    <2>3. Update(t, u) = [t EXCEPT ![i] = e]
        BY <1>2, <2>1 DEF Update
    <2> HIDE DEF e, i
    <2>4. Fits([t EXCEPT ![i] = e], P)
        BY <2>1, <2>2, WriteKeeps, Zenon
    <2>5. QED
        BY <2>3, <2>4, Zenon
<1>3. QED
    BY <1>1, <1>2

--------------------------------------------------------------------------------
(* Invariants of the manager, whoever calls it.                            *)

(* The loader hands over a well-formed device.                              *)
LEMMA LoadedEntry ==
    ASSUME NEW a \in Short, NEW x \in Ieee, NEW eps \in LoadedEps
    PROVE  [NewEntry(a, x) EXCEPT !.active = FALSE, !.eps = eps] \in Entry
<1>1. PICK m \in 0..MaxEndpoints : eps \in [1..m -> Endpoint]
    BY DEF LoadedEps, BoundedSeq, SeqOf
<1>2. m \in Nat /\ eps \in Seq(Endpoint)
    BY <1>1, CapacityAssumption
<1>3. QED
    BY <1>2 DEF NewEntry, Entry

(* No call takes the table out of shape.                                    *)
LEMMA StepKeeps ==
    ASSUME NEW P, <<>> \in P, P \subseteq Seq(Endpoint),
           \A old \in P, new \in Seq(Endpoint) : MergeEndpoints(old, new) \in P,
           Fits(devices, P), [ManagerNext]_devices
    PROVE  Fits(devices', P)
<1>1. ASSUME NEW a \in Short, NEW x \in Ieee, AddDevice(a, x) PROVE Fits(devices', P)
    BY <1>1, AddKeeps DEF AddDevice
<1>2. ASSUME NEW a \in Short, RemoveDevice(a) PROVE Fits(devices', P)
    BY <1>2, DeleteKeeps DEF RemoveDevice
<1>3. ASSUME NEW a \in Short, TouchDevice(a) PROVE Fits(devices', P)
    BY <1>3, TouchKeeps DEF TouchDevice
<1>4. ASSUME NEW a \in Short, NEW c \in Cfg, SetReportConfig(a, c) PROVE Fits(devices', P)
    BY <1>4, ConfigureKeeps DEF SetReportConfig
<1>5. ASSUME NEW a \in Short, NEW x \in Ieee, AddNewDevice(a, x) PROVE Fits(devices', P)
    BY <1>5, CreateKeeps DEF AddNewDevice
<1>6. ASSUME NEW a \in Short, NEW x \in Ieee, NEW eps \in LoadedEps, UpdateDevice(a, x, eps)
      PROVE  Fits(devices', P)
    BY <1>6, LoadedEntry, UpdateKeeps DEF UpdateDevice
<1>7. CASE UNCHANGED devices
    BY <1>7
<1>8. QED
    BY <1>1, <1>2, <1>3, <1>4, <1>5, <1>6, <1>7 DEF ManagerNext, RuntimeNext, LoadNext

LEMMA TableOKView ==
    TableOK <=> Fits(devices, Capped)
<1>1. ASSUME TableOK PROVE Fits(devices, Capped)
    <2>1. DOMAIN devices = 1..Len(devices) /\ Len(devices) \in Nat
        BY <1>1, LenProperties DEF TableOK
    <2>2. \A i \in 1..Len(devices) : devices[i] \in Entries(Capped)
        <3>1. \A i \in 1..Len(devices) : devices[i] \in Entry
            BY <1>1, ElementOfSeq DEF TableOK
        <3>2. \A e \in Entry : e.eps \in Seq(Endpoint)
            BY DEF Entry
        <3>3. QED
            BY <1>1, <2>1, <3>1, <3>2 DEF TableOK, Entries, Capped
    <2>3. devices \in Seq(Entries(Capped))
        BY <1>1, <2>1, <2>2, SeqDef DEF TableOK
    <2>4. QED
        BY <1>1, <2>3 DEF TableOK, Fits
<1>2. ASSUME Fits(devices, Capped) PROVE TableOK
    <2>1. DOMAIN devices = 1..Len(devices) /\ devices \in Seq(Entry)
        BY <1>2, LenProperties DEF Fits, Entries
    <2>2. \A i \in 1..Len(devices) : devices[i] \in Entries(Capped)
        BY <1>2, ElementOfSeq DEF Fits
    <2>3. QED
        BY <1>2, <2>1, <2>2 DEF TableOK, Fits, Entries, Capped
<1>3. QED
    BY <1>1, <1>2

(* Whoever calls, in whatever order, the table never outgrows its array nor  *)
(* an entry its endpoint array, for every capacity and every set of          *)
(* addresses.                                                               *)
THEOREM ManagerTyping == ManagerSpec => []TableOK
<1>1. TableInit => TableOK
    BY EmptySeq, CapacityAssumption DEF TableInit, TableOK
<1>2. TableOK /\ [ManagerNext]_devices => TableOK'
    <2> SUFFICES ASSUME TableOK, [ManagerNext]_devices PROVE TableOK'
        OBVIOUS
    <2>1. <<>> \in Capped /\ Capped \subseteq Seq(Endpoint)
        BY EmptySeq, CapacityAssumption DEF Capped
    <2>2. \A old \in Capped, new \in Seq(Endpoint) : MergeEndpoints(old, new) \in Capped
        BY MergeKeeps
    <2>3. Fits(devices, Capped)
        BY TableOKView
    <2>4. Fits(devices, Capped)'
        BY <2>1, <2>2, <2>3, StepKeeps
    <2>5. TableOK' <=> Fits(devices, Capped)'
        BY TableOKView, PTL
    <2>6. QED
        BY <2>4, <2>5
<1>3. QED
    BY <1>1, <1>2, PTL DEF ManagerSpec

(* No entry ever lists an endpoint number twice, whatever interviews and     *)
(* files were merged into it.                                               *)
THEOREM ManagerEndpointsDistinct == ManagerSpec => []EndpointsDistinct
<1> DEFINE Inv == Fits(devices, DistinctLists)
<1>1. TableInit => Inv
    <2>1. <<>> \in Seq(Entries(DistinctLists)) /\ Len(<<>>) <= MaxDevices
        BY EmptySeq, CapacityAssumption
    <2>2. QED
        BY <2>1 DEF TableInit, Fits
<1>2. Inv /\ [ManagerNext]_devices => Inv'
    BY DistinctListsMerge, StepKeeps
<1>3. Inv => EndpointsDistinct
    <2> SUFFICES ASSUME Inv, NEW i \in DOMAIN devices
                 PROVE  IsInjective([n \in DOMAIN devices[i].eps |-> devices[i].eps[n].id])
        BY DEF EndpointsDistinct
    <2>1. DOMAIN devices = 1..Len(devices)
        BY LenProperties DEF Fits
    <2>2. devices[i] \in Entries(DistinctLists)
        BY <2>1, ElementOfSeq DEF Fits
    <2>3. devices[i].eps \in Seq(Endpoint) /\ DistinctEps(devices[i].eps)
        BY <2>2 DEF Entries, DistinctLists, Capped
    <2>4. DOMAIN devices[i].eps = 1..Len(devices[i].eps)
        BY <2>3, LenProperties
    <2>5. QED
        BY <2>3, <2>4 DEF IsInjective, DistinctEps
<1> HIDE DEF Inv
<1>4. QED
    BY <1>1, <1>2, <1>3, PTL DEF ManagerSpec

(* Run time is part of it: what the stack and the program do, they may do.    *)
LEMMA RuntimeIsManaged ==
    RuntimeSpec => ManagerSpec
<1>1. [RuntimeNext]_devices => [ManagerNext]_devices
    BY DEF ManagerNext
<1>2. QED
    BY <1>1, PTL DEF RuntimeSpec, ManagerSpec

LEMMA DistinctView ==
    ASSUME TableOK
    PROVE  OneEntryPerIeee <=> Distinct(devices)
<1>1. DOMAIN devices = 1..Len(devices)
    BY LenProperties DEF TableOK
<1>2. QED
    BY <1>1 DEF OneEntryPerIeee, Distinct

(* While nothing is loaded from files, no device has two entries, whatever   *)
(* sequence of joins, re-joins with stale pointers and removals happened.    *)
THEOREM RuntimeOneEntryPerIeee == RuntimeSpec => []OneEntryPerIeee
<1>1. TableInit => OneEntryPerIeee
    BY DEF TableInit, OneEntryPerIeee
<1>2. TableOK /\ TableOK' /\ OneEntryPerIeee /\ [RuntimeNext]_devices => OneEntryPerIeee'
    <2> SUFFICES ASSUME TableOK, TableOK', OneEntryPerIeee, [RuntimeNext]_devices
                 PROVE  OneEntryPerIeee'
        OBVIOUS
    <2>1. Fits(devices, Capped) /\ Distinct(devices)
        BY TableOKView, DistinctView
    <2>2. Distinct(devices')
        <3>1. ASSUME NEW a \in Short, NEW x \in Ieee, AddDevice(a, x)
              PROVE  Distinct(devices')
            <4>1. <<>> \in Capped
                BY EmptySeq, CapacityAssumption DEF Capped
            <4>2. QED
                BY <2>1, <3>1, <4>1, AddKeeps DEF AddDevice
        <3>2. ASSUME NEW a \in Short, RemoveDevice(a) PROVE Distinct(devices')
            BY <2>1, <3>2, DeleteKeeps DEF RemoveDevice
        <3>3. ASSUME NEW a \in Short, TouchDevice(a) PROVE Distinct(devices')
            BY <2>1, <3>3, TouchKeeps DEF TouchDevice
        <3>4. ASSUME NEW a \in Short, NEW c \in Cfg, SetReportConfig(a, c)
              PROVE  Distinct(devices')
            BY <2>1, <3>4, ConfigureKeeps DEF SetReportConfig
        <3>5. CASE UNCHANGED devices
            BY <2>1, <3>5
        <3>6. QED
            BY <3>1, <3>2, <3>3, <3>4, <3>5 DEF RuntimeNext
    <2>3. DOMAIN devices' = 1..Len(devices')
        BY LenProperties DEF TableOK
    <2>4. QED
        BY <2>2, <2>3 DEF OneEntryPerIeee, Distinct
<1>3. QED
    BY <1>1, <1>2, RuntimeIsManaged, ManagerTyping, PTL DEF RuntimeSpec

--------------------------------------------------------------------------------
(* What one call may do.                                                   *)

(* A merge into the entry of an address takes no number off any list.        *)
THEOREM ManagerUpdateLosesNoEndpoint == ManagerSpec => UpdateLosesNoEndpoint
<1> DEFINE A == \A a \in Short, x \in Ieee, eps \in LoadedEps :
                   UpdateDevice(a, x, eps) =>
                      \A i \in DOMAIN devices : EpIds(devices[i]) \subseteq EpIds(devices'[i])
<1>1. ASSUME TableOK PROVE A
    <2> SUFFICES ASSUME NEW a \in Short, NEW x \in Ieee, NEW eps \in LoadedEps,
                        UpdateDevice(a, x, eps), NEW i \in DOMAIN devices
                 PROVE  EpIds(devices[i]) \subseteq EpIds(devices'[i])
        OBVIOUS
    <2> DEFINE u == [NewEntry(a, x) EXCEPT !.active = FALSE, !.eps = eps]
               c == IndexOfShort(devices, u.short)
               e == [devices[c] EXCEPT !.ieee = u.ieee, !.active = u.active,
                                       !.eps = MergeEndpoints(devices[c].eps, u.eps)]
    <2>1. u \in Entry /\ devices' = Update(devices, u)
        BY LoadedEntry DEF UpdateDevice
    <2>2. devices \in Seq(Entries(Capped)) /\ DOMAIN devices = 1..Len(devices)
        BY <1>1, TableOKView, LenProperties DEF Fits
    <2>3. CASE c = 0
        BY <2>1, <2>3 DEF Update
    <2>4. CASE c # 0
        <3>1. c \in 1..Len(devices) /\ devices[c] \in Entries(Capped)
            BY <2>2, <2>4, ShortLookup, LenProperties, ElementOfSeq
        <3>2. devices[c].eps \in Capped /\ u.eps \in Seq(Endpoint)
            BY <2>1, <3>1 DEF Entries, Entry
        <3>3. Ids(devices[c].eps) \subseteq Ids(MergeEndpoints(devices[c].eps, u.eps))
              /\ MergeEndpoints(devices[c].eps, u.eps) \in Capped
            BY <3>2, MergeKeeps
        <3>4. devices' = [devices EXCEPT ![c] = e]
            BY <2>1, <2>4, <3>1 DEF Update
        <3>5. \A s \in Seq(Endpoint) : DOMAIN s = 1..Len(s)
            BY LenProperties
        <3>6. e.eps = MergeEndpoints(devices[c].eps, u.eps)
            BY <3>1 DEF Entries, Entry
        <3> HIDE DEF u, e
        <3>7. EpIds(devices[c]) = Ids(devices[c].eps) /\ EpIds(e) = Ids(e.eps)
            BY <3>2, <3>3, <3>5, <3>6 DEF EpIds, Ids, Capped
        <3>8. CASE i = c
            <4>1. devices'[i] = e
                BY <2>2, <3>4, <3>8
            <4>2. QED
                BY <3>3, <3>6, <3>7, <3>8, <4>1
        <3>9. CASE i # c
            <4>1. devices'[i] = devices[i]
                BY <2>2, <3>4, <3>9
            <4>2. QED
                BY <4>1
        <3>10. QED
            BY <3>8, <3>9
    <2>5. QED
        BY <2>3, <2>4
<1>2. TableOK => [A]_devices
    BY <1>1
<1>3. QED
    BY <1>2, ManagerTyping, PTL DEF UpdateLosesNoEndpoint

(* Where an entry is after a removal: what is not removed is still there.     *)
LEMMA DeleteMoves ==
    ASSUME NEW S, NEW t \in Seq(S), NEW a,
           NEW i \in 1..Len(t), i # IndexOfShort(t, a)
    PROVE  \E j \in 1..Len(Delete(t, a)) : Delete(t, a)[j] = t[i]
<1> DEFINE c == IndexOfShort(t, a)
<1>1. c \in 0..Len(t) /\ Len(t) \in Nat
    BY ShortLookup, LenProperties
<1>2. CASE c = 0
    BY <1>1, <1>2, DeleteShifts
<1>3. CASE c # 0
    <2>1. /\ Len(Delete(t, a)) = Len(t) - 1
          /\ \A j \in 1..(Len(t) - 1) :
                Delete(t, a)[j] = IF j < c THEN t[j] ELSE t[j + 1]
        BY <1>3, DeleteShifts
    <2> HIDE DEF c
    <2>2. CASE i < c
        <3>1. i \in 1..(Len(t) - 1) /\ Delete(t, a)[i] = t[i]
            BY <1>1, <2>1, <2>2
        <3>2. QED
            BY <2>1, <3>1
    <2>3. CASE i > c
        <3>1. i - 1 \in 1..(Len(t) - 1) /\ ~ (i - 1 < c) /\ (i - 1) + 1 = i
            BY <1>1, <1>3, <2>3
        <3>2. Delete(t, a)[i - 1] = t[i]
            BY <2>1, <3>1
        <3>3. QED
            BY <1>1, <2>1, <3>1, <3>2 DEF c
    <2>4. QED
        BY <1>1, <2>2, <2>3 DEF c
<1>4. QED
    BY <1>2, <1>3

(* A call about address a forgets at most the first entry that held a.        *)
LEMMA DeleteKeepsIeees ==
    ASSUME NEW S, NEW t \in Seq(S), NEW a,
           NEW i \in 1..Len(t), i # IndexOfShort(t, a)
    PROVE  t[i].ieee \in Ieees(Delete(t, a))
<1>1. PICK j \in 1..Len(Delete(t, a)) : Delete(t, a)[j] = t[i]
    BY DeleteMoves
<1>2. DOMAIN Delete(t, a) = 1..Len(Delete(t, a))
    BY DeleteShifts, LenProperties
<1>3. QED
    BY <1>1, <1>2 DEF Ieees

LEMMA AddKeepsIeees ==
    ASSUME NEW t \in Seq(Entry), NEW a \in Short, NEW x \in Ieee,
           NEW i \in 1..Len(t), i # IndexOfShort(t, a)
    PROVE  t[i].ieee \in Ieees(Add(t, a, x))
<1> DEFINE k == IndexOfIeee(t, x)
<1>1. DOMAIN t = 1..Len(t) /\ Len(t) \in Nat
    BY LenProperties
<1>2. t[i].ieee \in Ieees(t)
    BY <1>1 DEF Ieees
<1>3. CASE k = 0
    <2>1. Add(t, a, x) = t \/ Add(t, a, x) = Append(t, NewEntry(a, x))
        BY <1>3 DEF Add, Create
    <2>2. NewEntry(a, x) \in Entry
        BY EmptySeq DEF NewEntry, Entry
    <2> DEFINE u == Append(t, NewEntry(a, x))
    <2>3. u \in Seq(Entry) /\ Len(u) = Len(t) + 1 /\ u[i] = t[i]
        BY <2>2, AppendProperties
    <2> HIDE DEF u
    <2>4. i \in DOMAIN u
        BY <1>1, <2>3, LenProperties
    <2>5. t[i].ieee \in Ieees(u)
        BY <2>3, <2>4 DEF Ieees
    <2>6. QED
        BY <1>2, <2>1, <2>5 DEF u
<1>4. CASE k # 0
    <2> DEFINE u == IF t[k].short = a THEN t ELSE Delete(t, a)
               e == [u[k] EXCEPT !.short = a, !.active = TRUE]
    <2>1. Add(t, a, x) = IF k > Len(u) THEN u ELSE [u EXCEPT ![k] = e]
        BY <1>4 DEF Add, Rejoin
    <2>2. t[i].ieee \in Ieees(u) /\ u \in Seq(Entry)
        BY <1>2, DeleteKeepsIeees, DeleteShifts
    <2> HIDE DEF u
    <2>3. PICK j \in DOMAIN u : t[i].ieee = u[j].ieee
        BY <2>2 DEF Ieees
    <2>4. CASE k > Len(u)
        BY <2>1, <2>2, <2>4
    <2>5. CASE ~ (k > Len(u))
        <3>1. DOMAIN u = 1..Len(u) /\ Len(u) \in Nat /\ k \in 1..Len(u)
            BY <1>1, <1>4, <2>2, <2>5, LenProperties, IeeeLookup
        <3>2. u[k] \in Entry
            BY <2>2, <3>1, ElementOfSeq
        <3>3. e.ieee = u[k].ieee
            <4> HIDE DEF k
            <4>1. QED
                BY <3>2 DEF Entry
        <3> DEFINE v == [u EXCEPT ![k] = e]
        <3>4. DOMAIN v = DOMAIN u /\ v[j] = IF j = k THEN e ELSE u[j]
            BY <3>1
        <3> HIDE DEF v, e
        <3>5. v[j].ieee = u[j].ieee
            BY <3>3, <3>4
        <3>6. t[i].ieee \in Ieees(v)
            BY <2>3, <3>4, <3>5 DEF Ieees
        <3>7. QED
            BY <2>1, <2>5, <3>6 DEF v
    <2>6. QED
        BY <2>4, <2>5
<1>5. QED
    BY <1>3, <1>4

(* The gateway forgets nobody by accident: whatever joins, re-joins and       *)
(* removals the table has seen, a call that names an address drops at most    *)
(* the first entry that held it, stale pointers included.                    *)
THEOREM ManagerForgetsOnlyTheClaimed == ManagerSpec => ForgetsOnlyTheClaimed
<1> DEFINE A == \A a \in Short :
                   (RemoveDevice(a) \/ \E x \in Ieee : AddDevice(a, x)) =>
                      \A i \in DOMAIN devices :
                         devices[i].ieee \notin Ieees(devices') => i = IndexOfShort(devices, a)
<1>1. ASSUME TableOK PROVE A
    <2> SUFFICES ASSUME NEW a \in Short, NEW i \in DOMAIN devices, i # IndexOfShort(devices, a),
                        RemoveDevice(a) \/ \E x \in Ieee : AddDevice(a, x)
                 PROVE  devices[i].ieee \in Ieees(devices')
        OBVIOUS
    <2>1. devices \in Seq(Entry) /\ i \in 1..Len(devices)
        BY <1>1, LenProperties DEF TableOK
    <2>2. CASE RemoveDevice(a)
        BY <2>1, <2>2, DeleteKeepsIeees DEF RemoveDevice
    <2>3. ASSUME NEW x \in Ieee, AddDevice(a, x) PROVE devices[i].ieee \in Ieees(devices')
        BY <2>1, <2>3, AddKeepsIeees DEF AddDevice
    <2>4. QED
        BY <2>2, <2>3
<1>2. TableOK => [A]_devices
    BY <1>1
<1>3. QED
    BY <1>2, ManagerTyping, PTL DEF ForgetsOnlyTheClaimed

(* A re-join under an address no earlier entry holds writes to the right      *)
(* entry: the holder that goes is behind it, so the pointer is still good.    *)
THEOREM ManagerRejoinDisturbsNobody == ManagerSpec => RejoinDisturbsNobody
<1> DEFINE A == \A a \in Short, x \in Ieee :
                   LET i == IndexOfIeee(devices, x)
                       c == IndexOfShort(devices, a)
                   IN  AddDevice(a, x) /\ i # 0 /\ (c = 0 \/ c >= i) =>
                         /\ i \in DOMAIN devices'
                         /\ devices'[i] = [devices[i] EXCEPT !.short = a, !.active = TRUE]
                         /\ \A j \in DOMAIN devices \ {i, c} : devices[j] \in ToSet(devices')
<1>1. ASSUME TableOK PROVE A
    <2> SUFFICES ASSUME NEW a \in Short, NEW x \in Ieee
                 PROVE  LET i == IndexOfIeee(devices, x)
                            c == IndexOfShort(devices, a)
                        IN  AddDevice(a, x) /\ i # 0 /\ (c = 0 \/ c >= i) =>
                              /\ i \in DOMAIN devices'
                              /\ devices'[i] = [devices[i] EXCEPT !.short = a, !.active = TRUE]
                              /\ \A j \in DOMAIN devices \ {i, c} : devices[j] \in ToSet(devices')
        OBVIOUS
    <2> DEFINE i == IndexOfIeee(devices, x)
               c == IndexOfShort(devices, a)
               u == IF devices[i].short = a THEN devices ELSE Delete(devices, a)
               e == [u[i] EXCEPT !.short = a, !.active = TRUE]
    <2>1. SUFFICES ASSUME AddDevice(a, x), i # 0, c = 0 \/ c >= i
                   PROVE  /\ i \in DOMAIN devices'
                          /\ devices'[i] = [devices[i] EXCEPT !.short = a, !.active = TRUE]
                          /\ \A j \in DOMAIN devices \ {i, c} : devices[j] \in ToSet(devices')
        OBVIOUS
    <2>2. /\ devices \in Seq(Entry) /\ Len(devices) \in Nat
          /\ DOMAIN devices = 1..Len(devices)
        BY <1>1, LenProperties DEF TableOK
    <2>3. i \in 1..Len(devices) /\ c \in 0..Len(devices)
        BY <2>1, <2>2, IeeeLookup, ShortLookup
    <2>4. devices' = IF i > Len(u) THEN u ELSE [u EXCEPT ![i] = e]
        BY <2>1 DEF AddDevice, Add, Rejoin
    <2>5. /\ u \in Seq(Entry) /\ i \in 1..Len(u) /\ u[i] = devices[i]
          /\ \A j \in 1..Len(devices) : j # i /\ j # c =>
                \E k \in 1..Len(u) : k # i /\ u[k] = devices[j]
        <3>1. CASE devices[i].short = a
            <4>1. u = devices
                BY <3>1
            <4> HIDE DEF u, i, c
            <4>2. QED
                BY <2>2, <2>3, <4>1
        <3>2. CASE devices[i].short # a
            <4>1. u = Delete(devices, a)
                BY <3>2
            <4>2. c = 0 => u = devices
                BY <2>2, <4>1, DeleteShifts
            <4>3. CASE c = 0
                <5> HIDE DEF u, i, c
                <5>1. QED
                    BY <2>2, <2>3, <4>2, <4>3
            <4>4. CASE c # 0
                <5>1. devices[c].short = a
                    BY <2>2, <4>4, ShortLookup
                <5>2. c > i
                    BY <2>1, <2>3, <3>2, <4>4, <5>1
                <5>3. /\ u \in Seq(Entry) /\ Len(u) = Len(devices) - 1
                      /\ \A j \in 1..(Len(devices) - 1) :
                            u[j] = IF j < c THEN devices[j] ELSE devices[j + 1]
                    BY <2>2, <4>1, <4>4, DeleteShifts
                <5> HIDE DEF u, i, c
                <5>4. i \in 1..Len(u) /\ u[i] = devices[i]
                    BY <2>2, <2>3, <5>2, <5>3
                <5>5. ASSUME NEW j \in 1..Len(devices), j # i, j # c
                      PROVE  \E k \in 1..Len(u) : k # i /\ u[k] = devices[j]
                    <6>1. CASE j < c
                        <7>1. j \in 1..Len(u) /\ u[j] = devices[j]
                            BY <2>2, <2>3, <5>3, <6>1
                        <7>2. QED
                            BY <5>5, <7>1
                    <6>2. CASE j > c
                        <7>1. /\ j - 1 \in 1..(Len(devices) - 1) /\ ~ (j - 1 < c)
                              /\ (j - 1) + 1 = j /\ j - 1 # i
                            BY <2>2, <2>3, <5>2, <6>2
                        <7>2. u[j - 1] = devices[j]
                            BY <5>3, <7>1
                        <7>3. QED
                            BY <5>3, <7>1, <7>2
                    <6>3. QED
                        BY <2>3, <5>5, <6>1, <6>2
                <5>6. QED
                    BY <5>3, <5>4, <5>5
            <4>5. QED
                BY <4>3, <4>4
        <3>3. QED
            BY <3>1, <3>2
    <2> HIDE DEF u, i, c
    <2>6. DOMAIN u = 1..Len(u) /\ Len(u) \in Nat
        BY <2>5, LenProperties
    <2>7. devices' = [u EXCEPT ![i] = e]
        BY <2>4, <2>5, <2>6
    <2>8. i \in DOMAIN devices' /\ devices'[i] = [devices[i] EXCEPT !.short = a, !.active = TRUE]
        BY <2>5, <2>6, <2>7
    <2>9. ASSUME NEW j \in DOMAIN devices \ {i, c} PROVE devices[j] \in ToSet(devices')
        <3>1. PICK k \in 1..Len(u) : k # i /\ u[k] = devices[j]
            BY <2>2, <2>5, <2>9
        <3>2. k \in DOMAIN devices' /\ devices'[k] = devices[j]
            BY <2>6, <2>7, <3>1
        <3>3. QED
            BY <3>2 DEF ToSet
    <2>10. QED
        BY <2>8, <2>9
<1>2. TableOK => [A]_devices
    BY <1>1
<1>3. QED
    BY <1>2, ManagerTyping, PTL DEF RejoinDisturbsNobody

================================================================================
