----------------------------- MODULE SequenceFacts -----------------------------
(***************************************************************************)
(* Facts about numbers and sequences that the proofs of several modules     *)
(* rest on: what Append, Tail and RemoveAt do, where a look-up stops, and    *)
(* how to reason about a loop.  Induction is over a set of numbers, and the   *)
(* step of a recursion is a function, since no fact here takes an operator.   *)
(***************************************************************************)
EXTENDS Naturals, Sequences, SequencesExt, SequenceTheorems, WellFoundedInduction, TLAPS

--------------------------------------------------------------------------------
(* Numbers.                                                                *)

(* A non-empty set of natural numbers has a least element.                 *)
LEMMA MinByOrder ==
    ASSUME NEW R, IsWellFoundedOn(R, Nat), \A j, k \in Nat : j < k => <<j, k>> \in R,
           NEW I, I \subseteq Nat, I # {}
    PROVE  Min(I) \in I /\ \A j \in I : Min(I) <= j
<1>1. PICK m \in I : \A j \in I : ~ (<<j, m>> \in R)
    BY WFMin
<1>2. ASSUME NEW j \in I PROVE m <= j
    <2>1. ~ (j < m)
        BY <1>1, Zenon
    <2>2. QED
        BY <2>1
<1>3. QED
    BY <1>2 DEF Min

LEMMA MinOfNats ==
    ASSUME NEW I, I \subseteq Nat, I # {}
    PROVE  Min(I) \in I /\ \A j \in I : Min(I) <= j
<1>1. \A j, k \in Nat : j < k => <<j, k>> \in OpToRel(<, Nat)
    BY SMT DEF OpToRel
<1>2. QED
    BY <1>1, NatLessThanWellFounded, MinByOrder, Zenon

(* Induction up to N: a set that has 0 and with each number the next.        *)
LEMMA CountingUp ==
    ASSUME NEW N \in Nat, NEW P, 0 \in P,
           \A n \in 0..N : n < N /\ n \in P => n + 1 \in P
    PROVE  \A n \in 0..N : n \in P
<1> DEFINE I == {n \in 0..N : n \notin P}
<1>1. SUFFICES ASSUME I # {} PROVE FALSE
    OBVIOUS
<1>2. Min(I) \in I /\ \A j \in I : Min(I) <= j
    BY <1>1, MinOfNats
<1> HIDE DEF I
<1>3. PICK m : m \in I /\ \A j \in I : m <= j
    BY <1>2
<1>4. m \in 0..N /\ m \notin P /\ m # 0
    BY <1>3 DEF I
<1>5. m - 1 \in 0..N /\ m - 1 < N /\ (m - 1) + 1 = m
    BY <1>4
<1>6. m - 1 \in P
    BY <1>3, <1>5 DEF I
<1>7. QED
    BY <1>4, <1>5, <1>6

(* A loop from b with step F[<<value, round>>]: its values after 0 to N rounds. *)
Runs(f, N, V, b, F) ==
    /\ f \in [0..N -> V]
    /\ f[0] = b
    /\ \A n \in 1..N : f[n] = F[<<f[n - 1], n>>]

LEMMA LoopExists ==
    ASSUME NEW N \in Nat, NEW V, NEW b \in V, NEW F \in [V \X (1..N) -> V]
    PROVE  \E f : Runs(f, N, V, b, F)
<1> DEFINE P == {k \in 0..N : \E g : Runs(g, k, V, b, F)}
<1>1. 0 \in P
    <2>1. Runs([n \in 0..0 |-> b], 0, V, b, F)
        BY DEF Runs
    <2>2. QED
        BY <2>1
<1>2. ASSUME NEW k \in 0..N, k < N, k \in P PROVE k + 1 \in P
    <2>1. PICK g : Runs(g, k, V, b, F)
        BY <1>2
    <2> DEFINE h == [n \in 0..(k + 1) |-> IF n = k + 1 THEN F[<<g[k], k + 1>>] ELSE g[n]]
    <2>2. k + 1 \in 1..N /\ k + 1 \in 0..N /\ k \in 0..k
        BY <1>2
    <2>3. F[<<g[k], k + 1>>] \in V
        BY <2>1, <2>2 DEF Runs
    <2>4. h \in [0..(k + 1) -> V] /\ h[0] = b
        BY <2>1, <2>2, <2>3 DEF Runs
    <2>5. ASSUME NEW n \in 1..(k + 1) PROVE h[n] = F[<<h[n - 1], n>>]
        <3>1. CASE n = k + 1
            <4>1. h[n] = F[<<g[k], k + 1>>] /\ h[n - 1] = g[k]
                BY <2>2, <3>1
            <4>2. QED
                BY <3>1, <4>1
        <3>2. CASE n # k + 1
            <4>1. n \in 1..k /\ h[n] = g[n] /\ h[n - 1] = g[n - 1]
                BY <2>2, <3>2
            <4>2. QED
                BY <2>1, <4>1 DEF Runs
        <3>3. QED
            BY <3>1, <3>2
    <2>6. Runs(h, k + 1, V, b, F)
        BY <2>4, <2>5 DEF Runs
    <2>7. QED
        BY <2>2, <2>6
<1>3. N \in P
    <2> HIDE DEF P
    <2>1. \A n \in 0..N : n \in P
        BY <1>1, <1>2, CountingUp
    <2>2. QED
        BY <2>1
<1>4. QED
    BY <1>3

--------------------------------------------------------------------------------
(* Sequences.                                                              *)

LEMMA AppendMembers ==
    ASSUME NEW S, NEW s \in Seq(S), NEW e \in S
    PROVE  /\ Append(s, e) \in Seq(S)
           /\ Len(Append(s, e)) = Len(s) + 1
           /\ ToSet(Append(s, e)) = ToSet(s) \cup {e}
<1> DEFINE t == Append(s, e)
<1>1. /\ Len(s) \in Nat /\ DOMAIN s = 1..Len(s)
      /\ t \in Seq(S) /\ Len(t) = Len(s) + 1
      /\ \A i \in 1..Len(s) : t[i] = s[i]
      /\ t[Len(s) + 1] = e
    BY LenProperties, AppendProperties
<1>2. DOMAIN t = 1..(Len(s) + 1)
    BY <1>1, LenProperties
<1> HIDE DEF t
<1>3. ASSUME NEW x \in ToSet(t) PROVE x \in ToSet(s) \cup {e}
    <2>1. PICK i \in 1..(Len(s) + 1) : x = t[i]
        BY <1>2, <1>3 DEF ToSet
    <2>2. CASE i \in 1..Len(s)
        BY <1>1, <2>1, <2>2 DEF ToSet
    <2>3. CASE i = Len(s) + 1
        BY <1>1, <2>1, <2>3
    <2>4. QED
        BY <1>1, <2>2, <2>3
<1>4. ASSUME NEW x \in ToSet(s) PROVE x \in ToSet(t)
    <2>1. PICK i \in 1..Len(s) : x = s[i]
        BY <1>1, <1>4 DEF ToSet
    <2>2. i \in 1..(Len(s) + 1) /\ t[i] = x
        BY <1>1, <2>1
    <2>3. QED
        BY <1>2, <2>2 DEF ToSet
<1>5. e \in ToSet(t)
    <2>1. Len(s) + 1 \in 1..(Len(s) + 1)
        BY <1>1
    <2>2. QED
        BY <1>1, <1>2, <2>1 DEF ToSet
<1>6. QED
    BY <1>1, <1>3, <1>4, <1>5 DEF t

LEMMA TailMembers ==
    ASSUME NEW S, NEW s \in Seq(S), s # <<>>
    PROVE  /\ Tail(s) \in Seq(S) /\ Head(s) \in S
           /\ Len(Tail(s)) = Len(s) - 1 /\ Len(s) \in Nat \ {0}
           /\ ToSet(s) = {Head(s)} \cup ToSet(Tail(s))
<1> DEFINE t == Tail(s)
<1>1. /\ Len(s) \in Nat \ {0} /\ DOMAIN s = 1..Len(s)
      /\ t \in Seq(S) /\ Head(s) \in S /\ Len(t) = Len(s) - 1
      /\ \A i \in 1..(Len(s) - 1) : t[i] = s[i + 1]
    BY LenProperties, EmptySeq, HeadTailProperties
<1>2. DOMAIN t = 1..(Len(s) - 1)
    BY <1>1, LenProperties
<1>3. Head(s) = s[1]
    OBVIOUS
<1> HIDE DEF t
<1>4. ASSUME NEW x \in ToSet(s) PROVE x \in {Head(s)} \cup ToSet(t)
    <2>1. PICK i \in 1..Len(s) : x = s[i]
        BY <1>1, <1>4 DEF ToSet
    <2>2. CASE i = 1
        BY <1>3, <2>1, <2>2
    <2>3. CASE i # 1
        <3>1. i - 1 \in 1..(Len(s) - 1) /\ (i - 1) + 1 = i
            BY <1>1, <2>3
        <3>2. t[i - 1] = x
            BY <1>1, <2>1, <3>1
        <3>3. QED
            BY <1>2, <3>1, <3>2 DEF ToSet
    <2>4. QED
        BY <2>2, <2>3
<1>5. ASSUME NEW x \in ToSet(t) PROVE x \in ToSet(s)
    <2>1. PICK i \in 1..(Len(s) - 1) : x = t[i]
        BY <1>2, <1>5 DEF ToSet
    <2>2. i + 1 \in 1..Len(s) /\ x = s[i + 1]
        BY <1>1, <2>1
    <2>3. QED
        BY <1>1, <2>2 DEF ToSet
<1>6. Head(s) \in ToSet(s)
    <2>1. 1 \in 1..Len(s)
        BY <1>1
    <2>2. QED
        BY <1>1, <1>3, <2>1 DEF ToSet
<1>7. QED
    BY <1>1, <1>4, <1>5, <1>6 DEF t

(* A look-up from the front stops at the first hit.                        *)
LEMMA FirstHit ==
    ASSUME NEW S, NEW t \in Seq(S), NEW I, I \subseteq 1..Len(t)
    PROVE  LET k == IF I # {} THEN Min(I) ELSE 0
           IN  /\ k \in 0..Len(t) /\ (k # 0 => k \in I) /\ (k = 0 <=> I = {})
               /\ \A j \in I : k <= j
<1>1. Len(t) \in Nat /\ I \subseteq Nat
    BY LenProperties
<1>2. CASE I = {}
    BY <1>1, <1>2
<1>3. CASE I # {}
    <2>1. PICK m : m = Min(I) /\ m \in I /\ \A j \in I : m <= j
        BY <1>1, <1>3, MinOfNats
    <2>2. QED
        BY <1>1, <1>3, <2>1
<1>4. QED
    BY <1>2, <1>3

(* Removing position c shifts what follows it down by one.                 *)
LEMMA RemoveAtShifts ==
    ASSUME NEW S, NEW t \in Seq(S), NEW c \in 1..Len(t)
    PROVE  /\ RemoveAt(t, c) \in Seq(S)
           /\ Len(RemoveAt(t, c)) = Len(t) - 1
           /\ \A j \in 1..(Len(t) - 1) :
                 RemoveAt(t, c)[j] = IF j < c THEN t[j] ELSE t[j + 1]
<1> DEFINE front == SubSeq(t, 1, c - 1)
           back  == SubSeq(t, c + 1, Len(t))
<1>1. Len(t) \in Nat /\ \A i \in 1..Len(t) : t[i] \in S
    BY LenProperties, ElementOfSeq
<1>2. /\ front \in Seq(S)
      /\ Len(front) = c - 1
      /\ \A i \in 1..(c - 1) : front[i] = t[i]
    BY <1>1, SubSeqProperties
<1>3. /\ back \in Seq(S)
      /\ Len(back) = Len(t) - c
      /\ \A i \in 1..(Len(t) - c) : back[i] = t[c + i]
    BY <1>1, SubSeqProperties
<1>4. RemoveAt(t, c) = front \o back
    BY DEF RemoveAt
<1> HIDE DEF front, back
<1>5. /\ front \o back \in Seq(S)
      /\ Len(front \o back) = Len(front) + Len(back)
      /\ \A i \in 1..(Len(front) + Len(back)) :
            (front \o back)[i] = IF i <= Len(front) THEN front[i] ELSE back[i - Len(front)]
    BY <1>2, <1>3, ConcatProperties
<1>6. QED
    BY <1>1, <1>2, <1>3, <1>4, <1>5
================================================================================
