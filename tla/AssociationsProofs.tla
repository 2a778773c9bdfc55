------------------------- MODULE AssociationsProofs -------------------------
(***************************************************************************)
(* Proofs about Associations, for any number of structures, addresses,     *)
(* names and lines, with and without unpeers of the association that is    *)
(* being looked up.                                                        *)
(***************************************************************************)
EXTENDS Associations, SequenceTheorems, FiniteSetTheorems, TLAPS

\* A sequence of distinct structures.
Distinct(list) == list \in Seq(Slots) /\ IsInjective(list)

-----------------------------------------------------------------------------
(* Lists of distinct structures *)

\* What is put in front of a list, when nothing of it is in the list yet.
LEMMA DistinctConcat ==
  ASSUME NEW s, NEW t, Distinct(s), Distinct(t), Range(s) \cap Range(t) = {}
  PROVE  Distinct(s \o t) /\ Range(s \o t) = Range(s) \cup Range(t)
<1> DEFINE st == s \o t
<1>1. s \in Seq(Slots) /\ t \in Seq(Slots)
  BY DEF Distinct
<1>2. /\ st \in Seq(Slots)
      /\ Len(st) = Len(s) + Len(t)
      /\ \A i \in 1 .. Len(s) + Len(t) : st[i] = IF i <= Len(s) THEN s[i] ELSE t[i - Len(s)]
  BY <1>1, ConcatProperties
<1>3. DOMAIN st = 1 .. Len(s) + Len(t) /\ DOMAIN s = 1 .. Len(s) /\ DOMAIN t = 1 .. Len(t)
      /\ Len(s) \in Nat /\ Len(t) \in Nat
  BY <1>1, <1>2
<1> HIDE DEF st
<1>4. Range(st) = Range(s) \cup Range(t)
  <2>1. ASSUME NEW i \in DOMAIN s PROVE s[i] = st[i] /\ i \in DOMAIN st
    BY <1>2, <1>3
  <2>2. ASSUME NEW i \in DOMAIN t PROVE t[i] = st[i + Len(s)] /\ i + Len(s) \in DOMAIN st
    BY <1>2, <1>3
  <2>3. ASSUME NEW i \in DOMAIN st PROVE st[i] \in Range(s) \cup Range(t)
    <3>1. CASE i <= Len(s)
      BY <3>1, <1>2, <1>3 DEF Range
    <3>2. CASE ~(i <= Len(s))
      <4>1. i - Len(s) \in DOMAIN t /\ st[i] = t[i - Len(s)]
        BY <3>2, <1>2, <1>3
      <4> QED BY <4>1 DEF Range
    <3> QED BY <3>1, <3>2
  <2> QED BY <2>1, <2>2, <2>3 DEF Range
<1>5. IsInjective(st)
  <2> SUFFICES ASSUME NEW i \in DOMAIN st, NEW j \in DOMAIN st, st[i] = st[j] PROVE i = j
    BY DEF IsInjective
  <2>1. CASE i <= Len(s) /\ j <= Len(s)
    BY <2>1, <1>2, <1>3 DEF Distinct, IsInjective
  <2>2. CASE i > Len(s) /\ j > Len(s)
    <3>1. i - Len(s) \in DOMAIN t /\ j - Len(s) \in DOMAIN t /\ t[i - Len(s)] = t[j - Len(s)]
      BY <2>2, <1>2, <1>3
    <3>2. i - Len(s) = j - Len(s)
      BY <3>1 DEF Distinct, IsInjective
    <3> QED BY <3>2, <1>3
  <2>3. CASE i <= Len(s) /\ j > Len(s)
    <3>1. j - Len(s) \in DOMAIN t /\ i \in DOMAIN s /\ s[i] = t[j - Len(s)]
      BY <2>3, <1>2, <1>3
    <3> QED BY <3>1, Zenon DEF Range
  <2>4. CASE j <= Len(s) /\ i > Len(s)
    <3>1. i - Len(s) \in DOMAIN t /\ j \in DOMAIN s /\ s[j] = t[i - Len(s)]
      BY <2>4, <1>2, <1>3
    <3> QED BY <3>1, Zenon DEF Range
  <2> QED BY <2>1, <2>2, <2>3, <2>4, <1>3
<1> QED BY <1>2, <1>4, <1>5 DEF Distinct, st

\* What is left of a list behind its first n places.
IsTail(t, s, n) ==
  /\ t \in Seq(Slots) /\ Len(t) = Len(s) - n /\ DOMAIN t = 1 .. Len(s) - n
  /\ \A i \in 1 .. Len(s) - n : t[i] = s[n + i]
LEMMA TailOf ==
  ASSUME NEW s \in Seq(Slots), NEW n \in 0 .. Len(s)
  PROVE  IsTail(SubSeq(s, n + 1, Len(s)), s, n)
<1> DEFINE t == SubSeq(s, n + 1, Len(s))
<1>1. PICK L \in Nat : L = Len(s)
  OBVIOUS
<1>2. DOMAIN s = 1 .. L /\ n \in 0 .. L
  BY <1>1
<1>3. /\ t \in Seq(Slots)
      /\ Len(t) = IF n + 1 <= L THEN L - (n + 1) + 1 ELSE 0
      /\ \A i \in 1 .. L - (n + 1) + 1 : t[i] = s[(n + 1) + i - 1]
  <2>1. n + 1 \in Int /\ L \in Int /\ \A i \in n + 1 .. L : s[i] \in Slots
    BY <1>2
  <2> QED BY <1>1, <2>1, SubSeqProperties
<1> HIDE DEF t
<1>4. Len(t) = L - n
  <2>1. (IF n + 1 <= L THEN L - (n + 1) + 1 ELSE 0) = L - n
    BY <1>2
  <2> QED BY <1>3, <2>1
<1>5. DOMAIN t = 1 .. L - n
  BY <1>3, <1>4
<1>6. ASSUME NEW i \in 1 .. L - n PROVE t[i] = s[n + i]
  <2>1. i \in 1 .. L - (n + 1) + 1 /\ (n + 1) + i - 1 = n + i
    BY <1>2
  <2> QED BY <1>3, <2>1
<1> QED BY <1>1, <1>3, <1>4, <1>5, <1>6 DEF t, IsTail

\* The head and the tail of a list.
LEMMA DistinctSplit ==
  ASSUME NEW s, Distinct(s), NEW n \in 0 .. Len(s)
  PROVE  LET h == SubSeq(s, 1, n)
             t == SubSeq(s, n + 1, Len(s))
         IN  /\ Distinct(h) /\ Distinct(t)
             /\ Len(h) = n
             /\ Range(h) \cap Range(t) = {}
             /\ Range(h) \cup Range(t) = Range(s)
<1> DEFINE h == SubSeq(s, 1, n)
           t == SubSeq(s, n + 1, Len(s))
<1>1. s \in Seq(Slots) /\ DOMAIN s = 1 .. Len(s) /\ Len(s) \in Nat
  BY DEF Distinct
<1>2. h \in Seq(Slots) /\ Len(h) = n /\ DOMAIN h = 1 .. n /\ \A i \in 1 .. n : h[i] = s[i]
  BY <1>1
<1>3. t \in Seq(Slots) /\ Len(t) = Len(s) - n /\ DOMAIN t = 1 .. Len(s) - n
      /\ \A i \in 1 .. Len(s) - n : t[i] = s[n + i]
  BY <1>1, TailOf, Zenon DEF IsTail
<1> HIDE DEF h, t
<1>4. Distinct(h)
  BY <1>1, <1>2 DEF Distinct, IsInjective
<1>5. Distinct(t)
  <2> SUFFICES ASSUME NEW i \in DOMAIN t, NEW j \in DOMAIN t, t[i] = t[j] PROVE i = j
    BY <1>3 DEF Distinct, IsInjective
  <2>1. n + i \in DOMAIN s /\ n + j \in DOMAIN s
    BY <1>1, <1>3
  <2>2. s[n + i] = s[n + j]
    BY <1>3
  <2>3. n + i = n + j
    BY <2>1, <2>2 DEF Distinct, IsInjective
  <2> QED BY <2>3, <1>3
<1>6. Range(h) \cap Range(t) = {}
  <2> SUFFICES ASSUME NEW i \in DOMAIN h, NEW j \in DOMAIN t, h[i] = t[j] PROVE FALSE
    BY DEF Range
  <2>1. i \in DOMAIN s /\ n + j \in DOMAIN s /\ s[i] = s[n + j] /\ i < n + j
    BY <1>1, <1>2, <1>3
  <2> QED BY <2>1 DEF Distinct, IsInjective
<1>7. Range(h) \cup Range(t) = Range(s)
  <2>1. ASSUME NEW i \in DOMAIN h PROVE i \in DOMAIN s /\ h[i] = s[i]
    BY <1>1, <1>2
  <2>2. ASSUME NEW i \in DOMAIN t PROVE n + i \in DOMAIN s /\ t[i] = s[n + i]
    BY <1>1, <1>3
  <2>3. ASSUME NEW i \in DOMAIN s PROVE s[i] \in Range(h) \cup Range(t)
    <3>1. CASE i <= n
      BY <3>1, <1>1, <1>2 DEF Range
    <3>2. CASE i > n
      <4>1. i - n \in DOMAIN t /\ t[i - n] = s[i]
        BY <3>2, <1>1, <1>3
      <4> QED BY <4>1 DEF Range
    <3> QED BY <3>1, <3>2, <1>1
  <2> QED BY <2>1, <2>2, <2>3 DEF Range
<1> QED BY <1>2, <1>4, <1>5, <1>6, <1>7 DEF h, t

\* Structures taken one by one come to the list in the opposite order.
LEMMA DistinctReverse ==
  ASSUME NEW s, Distinct(s)
  PROVE  LET r == [k \in 1 .. Len(s) |-> s[Len(s) + 1 - k]]
         IN  Distinct(r) /\ Range(r) = Range(s)
<1> DEFINE r == [k \in 1 .. Len(s) |-> s[Len(s) + 1 - k]]
<1>1. s \in Seq(Slots) /\ DOMAIN s = 1 .. Len(s) /\ Len(s) \in Nat
  BY DEF Distinct
<1>2. r \in Seq(Slots) /\ DOMAIN r = 1 .. Len(s)
      /\ \A i \in 1 .. Len(s) : r[i] = s[Len(s) + 1 - i]
  BY <1>1
<1> HIDE DEF r
<1>3. IsInjective(r)
  <2> SUFFICES ASSUME NEW i \in DOMAIN r, NEW j \in DOMAIN r, r[i] = r[j] PROVE i = j
    BY DEF IsInjective
  <2> DEFINE a == Len(s) + 1 - i
             b == Len(s) + 1 - j
  <2>1. a \in DOMAIN s /\ b \in DOMAIN s /\ s[a] = s[b]
    BY <1>1, <1>2
  <2>2. a = b
    BY <2>1 DEF Distinct, IsInjective
  <2> QED BY <2>2, <1>1, <1>2
<1>4. Range(r) = Range(s)
  <2>1. ASSUME NEW i \in DOMAIN r PROVE Len(s) + 1 - i \in DOMAIN s /\ r[i] = s[Len(s) + 1 - i]
    BY <1>1, <1>2
  <2>2. ASSUME NEW i \in DOMAIN s PROVE Len(s) + 1 - i \in DOMAIN r /\ s[i] = r[Len(s) + 1 - i]
    BY <1>1, <1>2
  <2> QED BY <2>1, <2>2 DEF Range
<1> QED BY <1>2, <1>3, <1>4 DEF Distinct, r

\* What unlinking a structure leaves of the list.
LEMMA DistinctRemove ==
  ASSUME NEW s, Distinct(s), NEW i \in DOMAIN s
  PROVE  LET r == SubSeq(s, 1, i - 1) \o SubSeq(s, i + 1, Len(s))
         IN  Distinct(r) /\ Range(r) = Range(s) \ {s[i]}
<1>1. s \in Seq(Slots) /\ DOMAIN s = 1 .. Len(s) /\ Len(s) \in Nat
  BY DEF Distinct
<1> DEFINE h == SubSeq(s, 1, i - 1)
           t == SubSeq(s, i, Len(s))
           u == SubSeq(s, i + 1, Len(s))
<1>2. Distinct(h) /\ Distinct(t) /\ Range(h) \cap Range(t) = {} /\ Range(h) \cup Range(t) = Range(s)
  <2>1. i - 1 \in 0 .. Len(s) /\ (i - 1) + 1 = i
    BY <1>1
  <2> QED BY <2>1, DistinctSplit
<1>3. DOMAIN t = 1 .. Len(s) - i + 1 /\ t[1] = s[i] /\ \A j \in DOMAIN t : t[j] = s[i + j - 1]
  <2>1. i \in 1 .. Len(s) /\ Len(s) \in Nat
    BY <1>1
  <2>2. DOMAIN t = 1 .. Len(s) - i + 1 /\ \A j \in 1 .. Len(s) - i + 1 : t[j] = s[i + j - 1]
    BY <1>1, <2>1
  <2>3. 1 \in 1 .. Len(s) - i + 1 /\ i + 1 - 1 = i
    BY <2>1
  <2> QED BY <2>2, <2>3
<1>4. DOMAIN u = 1 .. Len(s) - i /\ u \in Seq(Slots) /\ \A j \in DOMAIN u : u[j] = s[i + j]
  <2>1. i \in 0 .. Len(s)
    BY <1>1
  <2> QED BY <1>1, <2>1, TailOf DEF IsTail
<1> HIDE DEF h, t, u
<1>5. Distinct(u)
  <2> SUFFICES ASSUME NEW a \in DOMAIN u, NEW b \in DOMAIN u, u[a] = u[b] PROVE a = b
    BY <1>4 DEF Distinct, IsInjective
  <2>1. i + a \in DOMAIN s /\ i + b \in DOMAIN s /\ s[i + a] = s[i + b]
    BY <1>1, <1>4
  <2>2. i + a = i + b
    BY <2>1 DEF Distinct, IsInjective
  <2> QED BY <2>2, <1>1, <1>4
<1>6. Range(u) = Range(t) \ {s[i]}
  <2>1. ASSUME NEW j \in DOMAIN u PROVE u[j] \in Range(t) \ {s[i]}
    <3>1. /\ j + 1 \in 1 .. Len(s) - i + 1 /\ i + (j + 1) - 1 = i + j
          /\ i + j \in 1 .. Len(s) /\ i + j # i
      BY <1>1, <1>4
    <3>2. u[j] = s[i + j] /\ t[j + 1] = s[i + (j + 1) - 1]
      BY <1>3, <1>4, <3>1
    <3>3. j + 1 \in DOMAIN t /\ t[j + 1] = u[j] /\ i + j \in DOMAIN s /\ i + j # i /\ u[j] = s[i + j]
      BY <1>1, <1>3, <3>1, <3>2
    <3> QED BY <3>3 DEF Range, Distinct, IsInjective
  <2>2. ASSUME NEW j \in DOMAIN t, t[j] # s[i] PROVE t[j] \in Range(u)
    <3>1. j - 1 \in DOMAIN u /\ u[j - 1] = t[j]
      BY <1>1, <1>3, <1>4, <2>2
    <3> QED BY <3>1 DEF Range
  <2> QED BY <2>1, <2>2 DEF Range
<1>7. s[i] \in Range(t)
  <2>1. 1 \in DOMAIN t
    BY <1>1, <1>3
  <2> QED BY <2>1, <1>3 DEF Range
<1>8. Distinct(h \o u) /\ Range(h \o u) = Range(h) \cup Range(u)
  BY <1>2, <1>5, <1>6, DistinctConcat
<1> QED BY <1>2, <1>6, <1>7, <1>8 DEF h, u

\* As many structures are named as there are places.
LEMMA DistinctCount ==
  ASSUME NEW s, Distinct(s), NEW K \in SUBSET (DOMAIN s), NEW T, T = {s[k] : k \in K}
  PROVE  /\ IsFiniteSet(T) /\ IsFiniteSet(K)
         /\ Cardinality(T) = Cardinality(K)
         /\ Cardinality(K) \in Nat
<1>1. s \in Seq(Slots) /\ DOMAIN s = 1 .. Len(s) /\ Len(s) \in Nat
  BY DEF Distinct
<1>2. IsFiniteSet(K) /\ Cardinality(K) \in Nat
  <2>1. 1 \in Int /\ Len(s) \in Int
    BY <1>1
  <2>2. IsFiniteSet(DOMAIN s)
    BY <1>1, <2>1, FS_Interval
  <2> QED BY <2>2, FS_Subset, FS_CardinalityType
<1> DEFINE f == [k \in K |-> s[k]]
<1>3. f \in Bijection(K, T)
  BY DEF Bijection, Injection, Surjection, IsInjective, Distinct
<1>4. ExistsBijection(K, T)
  BY <1>3 DEF ExistsBijection
<1> QED BY <1>2, <1>4, FS_Bijection

\* A list of distinct structures is as long as their set is large.
LEMMA DistinctLength ==
  ASSUME NEW s, Distinct(s)
  PROVE  IsFiniteSet(Range(s)) /\ Cardinality(Range(s)) = Len(s)
<1>1. s \in Seq(Slots) /\ DOMAIN s = 1 .. Len(s) /\ Len(s) \in Nat
  BY DEF Distinct
<1>2. IsFiniteSet(Range(s)) /\ Cardinality(Range(s)) = Cardinality(DOMAIN s)
  BY DistinctCount DEF Range
<1>3. Cardinality(DOMAIN s) = Len(s)
  <2>1. 1 \in Int /\ Len(s) \in Int
    BY <1>1
  <2>2. Cardinality(1 .. Len(s)) = IF 1 > Len(s) THEN 0 ELSE Len(s) - 1 + 1
    BY <2>1, FS_Interval
  <2> QED BY <1>1, <2>2
<1> QED BY <1>2, <1>3

-----------------------------------------------------------------------------
(* The inductive invariant *)

\* A peer structure has its fields, whatever they hold.
Shape(p) ==
  p = [hostname |-> p.hostname, srcadr |-> p.srcadr, associd |-> p.associd, cast |-> p.cast,
       lookup |-> p.lookup, nts |-> p.nts, config |-> p.config, preempt |-> p.preempt,
       noselect |-> p.noselect, count |-> p.count]
Shapes ==
  /\ DOMAIN peer = Slots /\ peer = [s \in Slots |-> peer[s]]
  /\ \A s \in Slots : Shape(peer[s])

\* Every structure is in one of the two lists, once.
Listed ==
  /\ Distinct(peer_list) /\ Distinct(peer_free)
  /\ Live \cap Range(peer_free) = {} /\ Live \cup Range(peer_free) = Slots

\* A free structure is not waiting for a lookup and is of no kind, which is
\* what makes dns_check harmless when its association has been unpeered.
Kinds ==
  /\ \A s \in Live : peer[s].cast \in {"UCAST", "POOL"}
  /\ \A s \in Slots \ Live : peer[s].cast = "none" /\ peer[s].lookup = FALSE

Hashed == {s \in Live : peer[s].cast = "UCAST" /\ ~peer[s].lookup}
Active == {s \in Live : Counted(peer[s])}
Preemptible == {s \in Live : peer[s].preempt}
Tallied ==
  /\ peer_hash = Hashed
  /\ peer_active = Cardinality(Active)
  /\ peer_preempt = Cardinality(Preemptible)

\* The thread runs for some structure, and its answers are sequences.
IsAnswer(answer) == \E n \in Nat : DOMAIN answer = 1 .. n
Lookups ==
  /\ worker.pc # "idle" => active \in Slots
  /\ IsAnswer(dns.answer) /\ IsAnswer(nts.answer)

TableInv == Shapes /\ Listed /\ Kinds /\ Tallied
AssocInv == TableInv /\ Lookups

\* The sets that are counted are finite.
LEMMA LiveFinite ==
  ASSUME Listed
  PROVE  /\ Live \subseteq Slots
         /\ \A T \in SUBSET Live : IsFiniteSet(T) /\ Cardinality(T) \in Nat
<1>1. IsFiniteSet(Slots) /\ Live \subseteq Slots
  BY SlotsAssumption DEF Listed
<1> QED BY <1>1, FS_Subset, FS_CardinalityType

\* The invariant says what the run checks.
LEMMA AgreeFromInv ==
  ASSUME TableInv
  PROVE  TablesAgree
<1> USE DEF TableInv
<1>1. /\ IsFiniteSet(Live) /\ Cardinality(Live) = Len(peer_list)
      /\ IsFiniteSet(Range(peer_free)) /\ Cardinality(Range(peer_free)) = Len(peer_free)
  BY DistinctLength DEF Listed, Live
<1>2. Cardinality(Slots) = Cardinality(Live) + Cardinality(Range(peer_free))
  <2>1. Cardinality(Live \cup Range(peer_free))
          = Cardinality(Live) + Cardinality(Range(peer_free)) - Cardinality(Live \cap Range(peer_free))
    BY <1>1, FS_Union
  <2>2. Cardinality(Live) \in Nat /\ Cardinality(Range(peer_free)) \in Nat
    BY <1>1, FS_CardinalityType
  <2>3. Live \cap Range(peer_free) = {} /\ Live \cup Range(peer_free) = Slots
    BY DEF Listed
  <2>4. Cardinality(Live \cap Range(peer_free)) = 0
    BY <2>3, FS_EmptySet, Zenon
  <2> QED BY <2>1, <2>2, <2>3, <2>4
<1>3. Live \cap Range(peer_free) = {} /\ Live \cup Range(peer_free) = Slots
  BY DEF Listed
<1> QED BY <1>1, <1>2, <1>3 DEF TablesAgree, Tallied, Hashed, Active, Preemptible

LEMMA InitAssocInv == Init => AssocInv
<1> SUFFICES ASSUME Init PROVE AssocInv
  OBVIOUS
<1>1. Distinct(peer_list) /\ Live = {}
  BY DEF Init, Distinct, IsInjective, Live, Range
<1>2. Listed
  BY <1>1, SlotsAssumption DEF Init, Listed, Distinct
<1>3. Shapes
  BY Zenon DEF Init, Shapes, Shape, Zeroed
<1>4. Kinds
  BY <1>1 DEF Init, Kinds, Zeroed
<1>5. Tallied
  <2>1. Hashed = {} /\ Active = {} /\ Preemptible = {}
    BY <1>1 DEF Hashed, Active, Preemptible
  <2> QED BY <2>1, FS_EmptySet DEF Init, Tallied
<1>6. Lookups
  <2>1. DOMAIN <<>> = 1 .. 0
    OBVIOUS
  <2> QED BY <2>1 DEF Init, Lookups, Idle, NoReply, IsAnswer
<1> QED BY <1>2, <1>3, <1>4, <1>5, <1>6 DEF AssocInv, TableInv

-----------------------------------------------------------------------------
(* What the operations do to the tables *)

\* An operation on one association that changes neither its kind nor whether
\* it counts, and that keeps the hash in step.
LEMMA TouchKeeps ==
  ASSUME TableInv, NEW s \in Slots, NEW p, peer' = [peer EXCEPT ![s] = p],
         Shape(p), p.cast = peer[s].cast, p.noselect = peer[s].noselect,
         p.preempt = peer[s].preempt, s \notin Live => p.lookup = FALSE,
         peer_hash' = Hashed',
         UNCHANGED <<peer_list, peer_free, peer_active, peer_preempt>>
  PROVE  TableInv'
<1> USE DEF TableInv
<1>1. peer'[s] = p /\ \A t \in Slots \ {s} : peer'[t] = peer[t]
  BY DEF Shapes
<1>2. Shapes'
  <2>1. DOMAIN peer' = Slots /\ peer' = [t \in Slots |-> peer'[t]]
    BY DEF Shapes
  <2>2. ASSUME NEW t \in Slots PROVE Shape(peer'[t])
    BY <1>1 DEF Shapes
  <2>3. \A t \in Slots : Shape(peer'[t])
    BY <2>2
  <2> QED BY <2>1, <2>3 DEF Shapes, Shape
<1>3. Live' = Live /\ Listed'
  BY DEF Live, Listed, Distinct
<1>4. Kinds'
  <2>1. ASSUME NEW t \in Live PROVE peer'[t].cast \in {"UCAST", "POOL"}
    BY <1>1, LiveFinite DEF Kinds
  <2>2. ASSUME NEW t \in Slots \ Live PROVE peer'[t].cast = "none" /\ peer'[t].lookup = FALSE
    BY <1>1 DEF Kinds
  <2> QED BY <1>3, <2>1, <2>2 DEF Kinds
<1>5. Tallied'
  <2>1. ASSUME NEW t \in Live
        PROVE  Counted(peer'[t]) = Counted(peer[t]) /\ peer'[t].preempt = peer[t].preempt
    BY <1>1, LiveFinite DEF Counted
  <2>2. Active' = Active /\ Preemptible' = Preemptible
    <3>1. Active' = {t \in Live : Counted(peer'[t])} /\ Preemptible' = {t \in Live : peer'[t].preempt}
      BY <1>3 DEF Active, Preemptible, Counted
    <3> QED BY <2>1, <3>1 DEF Active, Preemptible
  <2> QED BY <2>2 DEF Tallied
<1> QED BY <1>2, <1>3, <1>4, <1>5

\* unpeer of an association in use.
LEMMA UnpeerKeeps ==
  ASSUME TableInv, NEW s \in Live, unpeer(s)
  PROVE  /\ TableInv' /\ Live' = Live \ {s} /\ peer_hash' \subseteq peer_hash \ {s}
         /\ \A t \in Live' : peer'[t] = peer[t]
<1> USE DEF TableInv
<1>1. s \in Slots /\ s \notin Range(peer_free)
  BY LiveFinite DEF Listed
<1>2. peer'[s] = Zeroed /\ \A t \in Slots \ {s} : peer'[t] = peer[t]
  BY <1>1 DEF unpeer, Shapes
<1>3. Shapes'
  <2>1. DOMAIN peer' = Slots /\ peer' = [t \in Slots |-> peer'[t]]
    BY DEF Shapes, unpeer
  <2>2. Shape(Zeroed)
    BY DEF Shape, Zeroed
  <2>3. \A t \in Slots : Shape(peer'[t])
    BY <1>2, <2>2 DEF Shapes
  <2> QED BY <2>1, <2>3 DEF Shapes, Shape
<1>4. Distinct(peer_list)' /\ Live' = Live \ {s}
  <2>1. PICK i \in DOMAIN peer_list :
          /\ peer_list[i] = s
          /\ peer_list' = SubSeq(peer_list, 1, i - 1) \o SubSeq(peer_list, i + 1, Len(peer_list))
    BY Zenon DEF unpeer
  <2>2. Distinct(peer_list') /\ Range(peer_list') = Range(peer_list) \ {s}
    BY <2>1, DistinctRemove DEF Listed
  <2> QED BY <2>2 DEF Distinct, Live
<1>5. Distinct(peer_free)' /\ Range(peer_free)' = {s} \cup Range(peer_free)
  <2>1. Distinct(<<s>>) /\ Range(<<s>>) = {s}
    <3>1. <<s>> \in Seq(Slots) /\ DOMAIN <<s>> = 1 .. 1 /\ <<s>>[1] = s
      BY <1>1
    <3> QED BY <3>1 DEF Distinct, IsInjective, Range
  <2>2. Distinct(<<s>> \o peer_free) /\ Range(<<s>> \o peer_free) = {s} \cup Range(peer_free)
    BY <1>1, <2>1, DistinctConcat DEF Listed
  <2> QED BY <2>2, Zenon DEF unpeer, Distinct
<1>6. Listed'
  BY <1>1, <1>4, <1>5 DEF Listed
<1>7. Kinds'
  <2>1. \A t \in Live' : peer'[t].cast \in {"UCAST", "POOL"}
    BY <1>2, <1>4, LiveFinite DEF Kinds
  <2>2. \A t \in Slots \ Live' : peer'[t].cast = "none" /\ peer'[t].lookup = FALSE
    BY <1>2, <1>4 DEF Kinds, Zeroed
  <2> QED BY <2>1, <2>2 DEF Kinds
<1>8. Tallied'
  <2>1. \A t \in Live' : peer'[t] = peer[t]
    BY <1>2, <1>4, LiveFinite
  <2>2. Hashed' = Hashed \ {s}
    BY <2>1, <1>4 DEF Hashed
  <2>3. Active' = Active \ {s} /\ (s \in Active <=> Counted(peer[s]))
    <3>1. Active' = {t \in Live' : Counted(peer'[t])}
      BY DEF Active, Counted
    <3> QED BY <2>1, <3>1, <1>4 DEF Active
  <2>4. Preemptible' = Preemptible \ {s} /\ (s \in Preemptible <=> peer[s].preempt)
    BY <2>1, <1>4 DEF Preemptible
  <2>5. IsFiniteSet(Active) /\ IsFiniteSet(Preemptible)
        /\ Cardinality(Active) \in Nat /\ Cardinality(Preemptible) \in Nat
    BY LiveFinite DEF Active, Preemptible
  <2>6. peer_hash' = Hashed'
    BY <2>2 DEF unpeer, Tallied, Hashed
  <2>7. peer_active' = Cardinality(Active')
    <3>1. Cardinality(Active \ {s}) = IF s \in Active THEN Cardinality(Active) - 1 ELSE Cardinality(Active)
      BY <2>5, FS_RemoveElement, Zenon
    <3>2. peer_active' = Cardinality(Active) - (IF Counted(peer[s]) THEN 1 ELSE 0)
      BY DEF unpeer, Tallied
    <3> QED BY <2>3, <2>5, <3>1, <3>2
  <2>8. peer_preempt' = Cardinality(Preemptible')
    <3>1. Cardinality(Preemptible \ {s})
            = IF s \in Preemptible THEN Cardinality(Preemptible) - 1 ELSE Cardinality(Preemptible)
      BY <2>5, FS_RemoveElement, Zenon
    <3>2. peer_preempt' = Cardinality(Preemptible) - (IF peer[s].preempt THEN 1 ELSE 0)
      BY DEF unpeer, Tallied
    <3> QED BY <2>4, <2>5, <3>1, <3>2
  <2> QED BY <2>6, <2>7, <2>8 DEF Tallied
<1>9. \A t \in Live' : peer'[t] = peer[t]
  BY <1>2, <1>4, LiveFinite
<1>10. peer_hash' \subseteq peer_hash \ {s}
  BY <1>8, <1>9, <1>4 DEF Tallied, Hashed
<1> QED BY <1>3, <1>4, <1>6, <1>7, <1>8, <1>9, <1>10

\* The table has the new associations beside what "base" says of the others,
\* and those of them that are in the hash have an address.
Entered(base, new) ==
  /\ TableInv' /\ Live \subseteq Live'
  /\ \A s \in Live : peer'[s] = base[s]
  /\ \A s \in peer_hash' \ peer_hash :
       \E k \in 1 .. Len(new) :
         /\ new[k].cast = "UCAST" /\ ~new[k].lookup
         /\ peer'[s].hostname = new[k].hostname /\ peer'[s].srcadr = new[k].srcadr

\* newpeer for some new associations, with the rest of the table as it was
\* or changed in what no table depends on.
LEMMA NewPeersKeep ==
  ASSUME TableInv, NEW base, NEW new, NEW polled,
         \A s \in Slots : /\ Shape(base[s])
                          /\ base[s].cast = peer[s].cast /\ base[s].lookup = peer[s].lookup
                          /\ base[s].noselect = peer[s].noselect
                          /\ base[s].preempt = peer[s].preempt,
         Len(new) \in Nat,
         \A k \in 1 .. Len(new) : Shape(new[k]) /\ new[k].cast \in {"UCAST", "POOL"},
         NewPeers(base, new, polled)
  PROVE  Entered(base, new)
<1> USE DEF TableInv
<1> DEFINE n == Len(new)
           slots == SubSeq(peer_free, 1, n)
           rest  == SubSeq(peer_free, n + 1, Len(peer_free))
           back == [k \in 1 .. n |-> slots[n + 1 - k]]
           Id(k) == ((current_association_ID + k - 2) % (IdModulus - 1)) + 1
           At(k) == [new[k] EXCEPT !.associd = Id(k)]
           After(k) == IF polled THEN Polled(At(k)) ELSE At(k)
           hashed == {k \in 1 .. n : new[k].cast = "UCAST" /\ ~new[k].lookup}
           H == {j \in hashed : ~After(j).lookup}
           A == {k \in 1 .. n : Counted(new[k])}
           P == {k \in 1 .. n : new[k].preempt}
<1>2. /\ n <= Len(peer_free)
      /\ peer' = [s \in Slots |->
                    IF \E k \in 1 .. n : slots[k] = s
                    THEN After(CHOOSE k \in 1 .. n : slots[k] = s)
                    ELSE base[s]]
      /\ peer_free' = rest
      /\ peer_list' = back \o peer_list
      /\ peer_hash' = peer_hash \cup {slots[k] : k \in H}
      /\ peer_active' = peer_active + Cardinality(A)
      /\ peer_preempt' = peer_preempt + Cardinality(P)
  BY Zenon DEF NewPeers
<1>3. ASSUME NEW k \in 1 .. n
      PROVE  /\ Shape(After(k)) /\ After(k).cast = new[k].cast /\ After(k).cast \in {"UCAST", "POOL"}
             /\ After(k).noselect = new[k].noselect /\ After(k).preempt = new[k].preempt
             /\ After(k).hostname = new[k].hostname /\ After(k).srcadr = new[k].srcadr
             /\ new[k].lookup => After(k).lookup
  <2>1. Shape(new[k])
    OBVIOUS
  <2>2. At(k) = [hostname |-> new[k].hostname, srcadr |-> new[k].srcadr, associd |-> Id(k),
                 cast |-> new[k].cast, lookup |-> new[k].lookup, nts |-> new[k].nts,
                 config |-> new[k].config, preempt |-> new[k].preempt,
                 noselect |-> new[k].noselect, count |-> new[k].count]
    BY <2>1 DEF Shape
  <2> HIDE DEF At
  <2>3. \/ Polled(At(k)) = At(k)
        \/ Polled(At(k)) = [At(k) EXCEPT !.count = @ - 1]
        \/ Polled(At(k)) = [At(k) EXCEPT !.lookup = TRUE]
    BY DEF Polled
  <2>4. \/ After(k) = At(k)
        \/ After(k) = [At(k) EXCEPT !.count = @ - 1]
        \/ After(k) = [At(k) EXCEPT !.lookup = TRUE]
    BY <2>3, Zenon
  <2> HIDE DEF After
  <2>5. /\ Shape(After(k)) /\ After(k).cast = new[k].cast
        /\ After(k).noselect = new[k].noselect /\ After(k).preempt = new[k].preempt
        /\ After(k).hostname = new[k].hostname /\ After(k).srcadr = new[k].srcadr
        /\ new[k].lookup => After(k).lookup
    BY <2>2, <2>4 DEF Shape
  <2>6. new[k].cast \in {"UCAST", "POOL"}
    OBVIOUS
  <2> QED BY <2>5, <2>6
<1> HIDE DEF After, At, Id
<1>1. n \in Nat
  OBVIOUS
<1> HIDE DEF n
<1>4. n \in 0 .. Len(peer_free)
  BY <1>1, <1>2 DEF Listed, Distinct
<1>5. /\ Distinct(slots) /\ Distinct(rest) /\ Len(slots) = n
      /\ Range(slots) \cap Range(rest) = {} /\ Range(slots) \cup Range(rest) = Range(peer_free)
  BY <1>4, DistinctSplit DEF Listed
<1>6. DOMAIN slots = 1 .. n
  BY <1>5 DEF Distinct
<1> HIDE DEF slots, rest
<1>7. Distinct(peer_list') /\ Live' = Range(slots) \cup Live /\ Range(slots) \cap Live = {}
  <2>1. Distinct(back) /\ Range(back) = Range(slots)
    BY <1>5, DistinctReverse, Zenon
  <2> HIDE DEF back
  <2>2. Range(slots) \cap Range(peer_list) = {}
    BY <1>5 DEF Listed, Live
  <2>3. Distinct(back \o peer_list)
        /\ Range(back \o peer_list) = Range(slots) \cup Range(peer_list)
    BY <2>1, <2>2, DistinctConcat DEF Listed
  <2> QED BY <1>2, <2>2, <2>3 DEF Live
<1>8. Listed'
  <2>1. Distinct(peer_list)' /\ Distinct(peer_free)'
    BY <1>2, <1>5, <1>7 DEF Distinct
  <2>2. Live' \cap Range(peer_free') = {} /\ Live' \cup Range(peer_free') = Slots
    BY <1>2, <1>5, <1>7 DEF Listed
  <2> QED BY <2>1, <2>2 DEF Listed
<1>9. Range(slots) \subseteq Slots /\ Range(slots) = {slots[k] : k \in 1 .. n}
  BY <1>5, <1>6 DEF Listed, Range
<1>10. \A k \in 1 .. n : peer'[slots[k]] = After(k)
  <2> TAKE k \in 1 .. n
  <2>1. slots[k] \in Slots
    BY <1>9
  <2>2. \A j \in 1 .. n : slots[j] = slots[k] => j = k
    BY <1>5, <1>6 DEF Distinct, IsInjective
  <2>3. (CHOOSE j \in 1 .. n : slots[j] = slots[k]) = k
    BY <2>2
  <2> QED BY <1>2, <2>1, <2>3, Zenon
<1>11. \A s \in Slots \ Range(slots) : peer'[s] = base[s]
  BY <1>2, <1>9
<1>12. Shapes'
  <2>1. DOMAIN peer' = Slots /\ peer' = [t \in Slots |-> peer'[t]]
    BY <1>2
  <2>2. \A t \in Slots : Shape(peer'[t])
    BY <1>3, <1>9, <1>10, <1>11
  <2> QED BY <2>1, <2>2 DEF Shapes, Shape
<1>13. Kinds'
  <2>1. \A t \in Live' : peer'[t].cast \in {"UCAST", "POOL"}
    <3>1. \A t \in Live : t \in Slots \ Range(slots) /\ peer'[t].cast = peer[t].cast
      BY <1>7, <1>11, LiveFinite
    <3>2. \A t \in Range(slots) : peer'[t].cast \in {"UCAST", "POOL"}
      BY <1>3, <1>9, <1>10
    <3> QED BY <3>1, <3>2, <1>7 DEF Kinds
  <2>2. \A t \in Slots \ Live' : peer'[t].cast = "none" /\ peer'[t].lookup = FALSE
    BY <1>7, <1>11 DEF Kinds
  <2> QED BY <2>1, <2>2 DEF Kinds
<1>14. \A t \in Live : /\ peer'[t].cast = peer[t].cast /\ peer'[t].lookup = peer[t].lookup
                       /\ peer'[t].noselect = peer[t].noselect
                       /\ peer'[t].preempt = peer[t].preempt
  BY <1>7, <1>11, LiveFinite
<1>15. peer_hash' = Hashed'
  <2>1. Hashed' = {t \in Live : peer'[t].cast = "UCAST" /\ ~peer'[t].lookup}
                    \cup {t \in Range(slots) : peer'[t].cast = "UCAST" /\ ~peer'[t].lookup}
    BY <1>7 DEF Hashed
  <2>2. {t \in Live : peer'[t].cast = "UCAST" /\ ~peer'[t].lookup} = Hashed
    BY <1>14 DEF Hashed
  <2>3. {t \in Range(slots) : peer'[t].cast = "UCAST" /\ ~peer'[t].lookup} = {slots[k] : k \in H}
    BY <1>3, <1>9, <1>10
  <2> QED BY <1>2, <2>1, <2>2, <2>3, Zenon DEF Tallied
<1>16. peer_active' = Cardinality(Active')
  <2> DEFINE N == {slots[k] : k \in A}
  <2>1. Active' = {t \in Live : Counted(peer'[t])} \cup {t \in Range(slots) : Counted(peer'[t])}
    BY <1>7 DEF Active, Counted
  <2>2. {t \in Live : Counted(peer'[t])} = Active
    BY <1>14 DEF Active, Counted
  <2>3. {t \in Range(slots) : Counted(peer'[t])} = N
    BY <1>3, <1>9, <1>10 DEF Counted
  <2>4. IsFiniteSet(N) /\ Cardinality(N) = Cardinality(A) /\ Cardinality(A) \in Nat
    <3>1. A \in SUBSET (DOMAIN slots)
      BY <1>6
    <3>2. N = {slots[k] : k \in A}
      OBVIOUS
    <3> HIDE DEF A, N
    <3> QED BY <3>1, <3>2, <1>5, DistinctCount
  <2>5. IsFiniteSet(Active) /\ Cardinality(Active) \in Nat
    BY LiveFinite DEF Active
  <2>6. Active \cap N = {}
    BY <1>7, <1>9 DEF Active
  <2> HIDE DEF A, N
  <2>7. Cardinality(Active \cup N) = Cardinality(Active) + Cardinality(N) - Cardinality(Active \cap N)
    BY <2>4, <2>5, FS_Union
  <2>8. Cardinality(Active \cup N) = Cardinality(Active) + Cardinality(A)
    <3>1. Cardinality(Active \cap N) = 0
      BY <2>6, FS_EmptySet
    <3> QED BY <2>4, <2>5, <2>7, <3>1
  <2> QED BY <1>2, <2>1, <2>2, <2>3, <2>8, Zenon DEF Tallied
<1>17. peer_preempt' = Cardinality(Preemptible')
  <2> DEFINE N == {slots[k] : k \in P}
  <2>1. Preemptible' = {t \in Live : peer'[t].preempt} \cup {t \in Range(slots) : peer'[t].preempt}
    BY <1>7 DEF Preemptible
  <2>2. {t \in Live : peer'[t].preempt} = Preemptible
    BY <1>14 DEF Preemptible
  <2>3. {t \in Range(slots) : peer'[t].preempt} = N
    BY <1>3, <1>9, <1>10
  <2>4. IsFiniteSet(N) /\ Cardinality(N) = Cardinality(P) /\ Cardinality(P) \in Nat
    <3>1. P \in SUBSET (DOMAIN slots)
      BY <1>6
    <3>2. N = {slots[k] : k \in P}
      OBVIOUS
    <3> HIDE DEF P, N
    <3> QED BY <3>1, <3>2, <1>5, DistinctCount
  <2>5. IsFiniteSet(Preemptible) /\ Cardinality(Preemptible) \in Nat
    BY LiveFinite DEF Preemptible
  <2>6. Preemptible \cap N = {}
    BY <1>7, <1>9 DEF Preemptible
  <2> HIDE DEF P, N
  <2>7. Cardinality(Preemptible \cup N)
          = Cardinality(Preemptible) + Cardinality(N) - Cardinality(Preemptible \cap N)
    BY <2>4, <2>5, FS_Union
  <2>8. Cardinality(Preemptible \cup N) = Cardinality(Preemptible) + Cardinality(P)
    <3>1. Cardinality(Preemptible \cap N) = 0
      BY <2>6, FS_EmptySet
    <3> QED BY <2>4, <2>5, <2>7, <3>1
  <2> QED BY <1>2, <2>1, <2>2, <2>3, <2>8, Zenon DEF Tallied
<1>18. TableInv'
  BY <1>8, <1>12, <1>13, <1>15, <1>16, <1>17 DEF Tallied
<1>19. Live \subseteq Live' /\ \A s \in Live : peer'[s] = base[s]
  BY <1>7, <1>11, LiveFinite
<1>20. ASSUME NEW s \in peer_hash' \ peer_hash
       PROVE  \E k \in 1 .. n : /\ new[k].cast = "UCAST" /\ ~new[k].lookup
                                /\ peer'[s].hostname = new[k].hostname
                                /\ peer'[s].srcadr = new[k].srcadr
  <2>1. PICK k \in 1 .. n : k \in H /\ s = slots[k]
    BY <1>2, Zenon
  <2> QED BY <2>1, <1>3, <1>10
<1> QED BY <1>18, <1>19, <1>20 DEF n, Entered

LEMMA TableStays ==
  ASSUME TableInv,
         UNCHANGED <<peer, peer_list, peer_hash, peer_free, peer_active, peer_preempt>>
  PROVE  TableInv'
<1>1. Live' = Live /\ Hashed' = Hashed /\ Active' = Active /\ Preemptible' = Preemptible
  BY DEF Live, Hashed, Active, Preemptible, Counted
<1> QED BY <1>1, Zenon DEF TableInv, Shapes, Shape, Listed, Distinct, Kinds, Tallied

\* A poll changes the count of cookies or the lookup flag, nothing else.
LEMMA PolledFields ==
  ASSUME NEW p, Shape(p)
  PROVE  /\ Shape(Polled(p)) /\ Polled(p).cast = p.cast /\ Polled(p).noselect = p.noselect
         /\ Polled(p).preempt = p.preempt /\ Polled(p).hostname = p.hostname
         /\ Polled(p).srcadr = p.srcadr /\ Polled(p).nts = p.nts
         /\ p.lookup => Polled(p).lookup
<1>1. Polled(p) \in {p, [p EXCEPT !.count = @ - 1], [p EXCEPT !.lookup = TRUE]}
  BY DEF Polled
<1> QED BY <1>1 DEF Shape

\* A set of naturals has a least element.
LEMMA LeastOf ==
  ASSUME NEW T \in SUBSET Nat, T # {}
  PROVE  \E m \in T : \A k \in T : m <= k
<1>1. PICK m \in T : \A k \in T : ~(<<k, m>> \in OpToRel(<, Nat))
  BY NatLessThanWellFounded, WFMin, Zenon
<1>2. \A k \in T : ~(k < m)
  BY <1>1, Zenon DEF OpToRel
<1> QED BY <1>2

\* Some place of a set of places is the k-th.
LEMMA PlaceOfRank ==
  ASSUME NEW n \in Nat, NEW F \in SUBSET (1 .. n), NEW k \in 1 .. Cardinality(F)
  PROVE  \E i \in F : Cardinality({j \in F : j <= i}) = k
<1> DEFINE Up(i) == {j \in F : j <= i}
           c == [i \in 0 .. n |-> Cardinality(Up(i))]
           T == {i \in 0 .. n : k <= c[i]}
<1>1. IsFiniteSet(F) /\ Cardinality(F) \in Nat /\ k \in Nat /\ 1 <= k /\ k <= Cardinality(F)
  <2>1. IsFiniteSet(1 .. n)
    BY FS_Interval
  <2>2. IsFiniteSet(F) /\ Cardinality(F) \in Nat
    BY <2>1, FS_Subset, FS_CardinalityType, Zenon
  <2> QED BY <2>2
<1>2. \A j \in F : j \in Nat /\ 1 <= j /\ j <= n
  OBVIOUS
<1>3. \A i \in 0 .. n : IsFiniteSet(Up(i)) /\ c[i] = Cardinality(Up(i)) /\ c[i] \in Nat
  BY <1>1, FS_Subset, FS_CardinalityType
<1>4. Up(n) = F /\ Up(0) = {}
  <2>1. \A j \in F : j <= n /\ ~(j <= 0)
    BY <1>2
  <2> QED BY <2>1, Zenon
<1>5. \A i \in 1 .. n : /\ i \notin Up(i - 1)
                        /\ Up(i) = IF i \in F THEN Up(i - 1) \cup {i} ELSE Up(i - 1)
  <2> TAKE i \in 1 .. n
  <2>1. ~(i <= i - 1) /\ i <= i /\ \A j \in F : j <= i <=> (j <= i - 1 \/ j = i)
    BY <1>2
  <2>2. i \notin Up(i - 1)
    BY <2>1, Zenon
  <2>3. i \in F => Up(i) = Up(i - 1) \cup {i}
    BY <2>1, Zenon
  <2>4. i \notin F => Up(i) = Up(i - 1)
    BY <2>1, Zenon
  <2> QED BY <2>2, <2>3, <2>4, Zenon
<1> HIDE DEF Up, c
<1>6. c[n] = Cardinality(F) /\ c[0] = 0
  <2>1. 0 \in 0 .. n /\ n \in 0 .. n
    OBVIOUS
  <2> QED BY <1>3, <1>4, <2>1, FS_EmptySet
<1>7. \A i \in 1 .. n : c[i] = IF i \in F THEN c[i - 1] + 1 ELSE c[i - 1]
  <2> TAKE i \in 1 .. n
  <2>1. i - 1 \in 0 .. n /\ i \in 0 .. n
    OBVIOUS
  <2>2. Cardinality(Up(i - 1) \cup {i}) = Cardinality(Up(i - 1)) + 1
    BY <1>3, <1>5, <2>1, FS_AddElement, Zenon
  <2> QED BY <1>3, <1>5, <2>1, <2>2, Zenon
<1>8. PICK m \in T : \A i \in T : m <= i
  <2>1. T \in SUBSET Nat /\ n \in T
    BY <1>1, <1>6
  <2> HIDE DEF T
  <2> QED BY <2>1, LeastOf
<1>9. m \in 1 .. n
  BY <1>1, <1>6, <1>8
<1>10. m - 1 \in 0 .. n /\ c[m - 1] \in Nat /\ c[m] \in Nat /\ m \in 0 .. n
  BY <1>3, <1>9
<1>11. c[m - 1] < k
  <2>1. m - 1 \notin T
    BY <1>8, <1>9
  <2> QED BY <2>1, <1>1, <1>10
<1>12. k <= c[m]
  BY <1>8
<1>13. m \in F /\ c[m] = k
  BY <1>1, <1>7, <1>9, <1>10, <1>11, <1>12
<1> QED BY <1>3, <1>10, <1>13 DEF Up

\* An address that dns_take_server or dns_take_pool uses is one of the answer.
LEMMA UnusedIsAnswer ==
  ASSUME NEW answer, IsAnswer(answer)
  PROVE  /\ Unused(answer) \in Seq({answer[i] : i \in DOMAIN answer})
         /\ \A k \in 1 .. Len(Unused(answer)) : \E i \in DOMAIN answer : Unused(answer)[k] = answer[i]
<1> DEFINE free == {i \in DOMAIN answer : ByAddr(answer[i]) = {}}
<1>1. PICK n \in Nat : DOMAIN answer = 1 .. n
  BY DEF IsAnswer
<1>2. IsFiniteSet(1 .. n)
  BY FS_Interval
<1>3. Cardinality(free) \in Nat /\ free \in SUBSET (1 .. n)
  BY <1>1, <1>2, FS_Subset, FS_CardinalityType
<1> HIDE DEF free
<1>4. Unused(answer) = [k \in 1 .. Cardinality(free) |->
                          answer[CHOOSE i \in free : Cardinality({j \in free : j <= i}) = k]]
  BY DEF Unused, free
<1>5. Len(Unused(answer)) = Cardinality(free)
  BY <1>3, <1>4
<1>6. ASSUME NEW k \in 1 .. Cardinality(free)
      PROVE  \E i \in DOMAIN answer : Unused(answer)[k] = answer[i]
  <2> DEFINE i == CHOOSE i \in free : Cardinality({j \in free : j <= i}) = k
  <2>1. \E x \in free : Cardinality({j \in free : j <= x}) = k
    BY <1>3, PlaceOfRank
  <2>2. i \in free
    BY <2>1
  <2>3. Unused(answer)[k] = answer[i]
    BY <1>4
  <2> QED BY <1>1, <1>3, <2>2, <2>3, Zenon
<1>7. Unused(answer) \in Seq({answer[i] : i \in DOMAIN answer})
  <2>1. \A k \in 1 .. Cardinality(free) : Unused(answer)[k] \in {answer[i] : i \in DOMAIN answer}
    BY <1>6
  <2> DEFINE A == {answer[i] : i \in DOMAIN answer}
             N == Cardinality(free)
             F == Unused(answer)
  <2>2. F = [k \in 1 .. N |-> F[k]]
    BY <1>4
  <2>3. N \in Nat /\ \A k \in 1 .. N : F[k] \in A
    BY <1>3, <2>1
  <2> HIDE DEF A, N, F
  <2>4. F \in Seq(A)
    BY <2>2, <2>3
  <2> QED BY <2>4 DEF A, F
<1> QED BY <1>5, <1>6, <1>7

-----------------------------------------------------------------------------
(* Every action keeps the tables *)

LEMMA ConfigPeersKeeps ==
  ASSUME TableInv, NEW l, config_peers(l)
  PROVE  /\ TableInv' /\ Live \subseteq Live'
         /\ \A s \in Live : peer'[s] = peer[s]
         /\ \A s \in peer_hash' \ peer_hash : peer'[s].hostname = None
<1> DEFINE r == [hostname |-> l.host, srcadr |-> l.addr, associd |-> 0,
                 cast |-> IF l.pool THEN "POOL" ELSE "UCAST",
                 lookup |-> l.nts \/ (l.host # None /\ ~l.pool), nts |-> l.nts, config |-> TRUE,
                 preempt |-> FALSE, noselect |-> l.noselect, count |-> -1]
           new == <<r>>
<1>1. Shape(r) /\ r.cast \in {"UCAST", "POOL"}
  <2>1. r.cast = IF l.pool THEN "POOL" ELSE "UCAST"
    OBVIOUS
  <2>2. r.cast \in {"UCAST", "POOL"}
    BY <2>1
  <2>3. Shape(r)
    BY Zenon DEF Shape
  <2> QED BY <2>2, <2>3, Zenon
<1>2. r.cast = "UCAST" /\ ~r.lookup => r.hostname = None
  BY Zenon
<1>3. NewPeers(peer, new, FALSE)
  BY Zenon DEF config_peers
<1> HIDE DEF r
<1>4. \A s \in Slots : Shape(peer[s])
  BY DEF TableInv, Shapes
<1>5. Len(new) = 1 /\ new[1] = r /\ Len(new) \in Nat
      /\ \A k \in 1 .. Len(new) : Shape(new[k]) /\ new[k].cast \in {"UCAST", "POOL"}
  BY <1>1
<1> HIDE DEF new
<1>6. Entered(peer, new)
  BY <1>3, <1>4, <1>5, NewPeersKeep, Zenon
<1>7. \A k \in 1 .. Len(new) :
        new[k].cast = "UCAST" /\ ~new[k].lookup => new[k].hostname = None
  BY <1>2, <1>5
<1> QED BY <1>6, <1>7 DEF Entered

LEMMA ConfigUnpeersKeeps ==
  ASSUME TableInv, config_unpeers
  PROVE  /\ TableInv'
         /\ \E s \in Live : /\ UnpeerBusy \/ s # active
                            /\ Live' = Live \ {s} /\ peer_hash' \subseteq peer_hash \ {s}
                            /\ \A t \in Live' : peer'[t] = peer[t]
<1>1. PICK s \in UNION ({First(ById(i)) : i \in Ids} \cup {ByAddr(a) : a \in Addrs}
                         \cup {First(ByName(h)) : h \in Hosts}) :
           (UnpeerBusy \/ s # active) /\ unpeer(s)
  BY DEF config_unpeers
<1>2. s \in Live
  <2>1. \A found : First(found) \subseteq Live
    BY DEF First, Live, Range
  <2>2. \A a : ByAddr(a) \subseteq Live
    BY DEF ByAddr, TableInv, Tallied, Hashed
  <2> QED BY <1>1, <2>1, <2>2
<1> QED BY <1>1, <1>2, UnpeerKeeps

LEMMA NtsProbeKeeps ==
  ASSUME AssocInv, nts_probe
  PROVE  TableInv'
<1>1. CASE UNCHANGED peer
  BY <1>1, TableStays DEF nts_probe, AssocInv
<1>2. CASE peer' = [peer EXCEPT ![active].count = Cookies]
  <2> DEFINE p == [peer[active] EXCEPT !.count = Cookies]
  <2>1. active \in Slots
    BY DEF AssocInv, Lookups, nts_probe
  <2>2. Shape(peer[active])
    BY <2>1 DEF AssocInv, TableInv, Shapes
  <2>3. /\ Shape(p) /\ p.cast = peer[active].cast /\ p.noselect = peer[active].noselect
        /\ p.preempt = peer[active].preempt /\ p.lookup = peer[active].lookup
    BY <2>2 DEF Shape
  <2>4. peer' = [peer EXCEPT ![active] = p]
    BY <1>2
  <2> HIDE DEF p
  <2>5. active \notin Live => p.lookup = FALSE
    BY <2>1, <2>3 DEF AssocInv, TableInv, Kinds
  <2>6. \A t \in Slots : peer'[t].cast = peer[t].cast /\ peer'[t].lookup = peer[t].lookup
    BY <2>1, <2>3, <2>4 DEF AssocInv, TableInv, Shapes
  <2>7. Live' = Live /\ peer_hash' = peer_hash /\ Live \subseteq Slots
    BY LiveFinite DEF nts_probe, Live, AssocInv, TableInv
  <2>8. Hashed' = Hashed
    BY <2>6, <2>7 DEF Hashed
  <2>9. peer_hash' = Hashed'
    BY <2>7, <2>8 DEF AssocInv, TableInv, Tallied
  <2> QED BY <2>1, <2>3, <2>4, <2>5, <2>9, TouchKeeps, Zenon DEF AssocInv, nts_probe
<1> QED BY <1>1, <1>2 DEF nts_probe

\* dns_take_server, for any structure the thread may have been started for.
LEMMA TakeServerKeeps ==
  ASSUME TableInv, NEW s \in Slots, NEW answer, IsAnswer(answer), peer[s].cast # "POOL",
         dns_take_server(s, answer)
  PROVE  /\ TableInv' /\ Live' = Live
         /\ \A t \in Slots : peer'[t].hostname = peer[t].hostname
         /\ \A t \in peer_hash' : \/ t \in peer_hash /\ peer'[t].srcadr = peer[t].srcadr
                                 \/ /\ t = s
                                    /\ \E i \in DOMAIN answer : peer'[t].srcadr = answer[i]
<1> DEFINE free == Unused(answer)
           q == [peer[s] EXCEPT !.lookup = FALSE, !.srcadr = Head(free)]
           p == Polled(q)
<1>1. CASE UNCHANGED table
  BY <1>1, TableStays DEF table, Live
<1>2. CASE peer[s].lookup /\ free # <<>>
  <2>1. /\ peer' = [peer EXCEPT ![s] = p]
        /\ peer_hash' = IF p.lookup THEN peer_hash ELSE peer_hash \cup {s}
        /\ UNCHANGED <<peer_list, peer_free, peer_active, peer_preempt>>
    BY <1>2 DEF dns_take_server
  <2>2. Shape(peer[s]) /\ DOMAIN peer = Slots
    BY DEF TableInv, Shapes
  <2>3. s \in Live /\ peer[s].cast = "UCAST" /\ Live \subseteq Slots
    BY <1>2, LiveFinite DEF TableInv, Kinds
  <2>4. /\ Shape(q) /\ q.cast = peer[s].cast /\ q.noselect = peer[s].noselect
        /\ q.preempt = peer[s].preempt /\ q.hostname = peer[s].hostname /\ q.srcadr = Head(free)
    <3> DEFINE a == Head(free)
    <3>1. q = [peer[s] EXCEPT !.lookup = FALSE, !.srcadr = a]
      OBVIOUS
    <3> HIDE DEF a, q
    <3>2. q = [hostname |-> peer[s].hostname, srcadr |-> a, associd |-> peer[s].associd,
               cast |-> peer[s].cast, lookup |-> FALSE, nts |-> peer[s].nts,
               config |-> peer[s].config, preempt |-> peer[s].preempt,
               noselect |-> peer[s].noselect, count |-> peer[s].count]
      BY <2>2, <3>1, Zenon DEF Shape
    <3>3. /\ Shape(q) /\ q.cast = peer[s].cast /\ q.noselect = peer[s].noselect
          /\ q.preempt = peer[s].preempt /\ q.hostname = peer[s].hostname /\ q.srcadr = a
      BY <3>2 DEF Shape
    <3> QED BY <3>3 DEF a
  <2> HIDE DEF q
  <2>5. /\ Shape(p) /\ p.cast = peer[s].cast /\ p.noselect = peer[s].noselect
        /\ p.preempt = peer[s].preempt /\ p.hostname = peer[s].hostname /\ p.srcadr = Head(free)
    BY <2>4, PolledFields
  <2> HIDE DEF p
  <2>6. Live' = Live /\ peer'[s] = p /\ \A t \in Slots \ {s} : peer'[t] = peer[t]
    BY <2>1, <2>2 DEF Live
  <2>7. peer_hash = Hashed /\ s \notin Hashed
    BY <1>2 DEF TableInv, Tallied, Hashed
  <2>8. peer_hash' = Hashed'
    <3>1. Hashed' = {t \in Live : peer'[t].cast = "UCAST" /\ ~peer'[t].lookup}
      BY <2>6 DEF Hashed
    <3>2. \A t \in Live \ {s} : peer'[t] = peer[t]
      BY <2>3, <2>6
    <3> QED BY <3>1, <3>2, <2>1, <2>3, <2>5, <2>6, <2>7 DEF Hashed
  <2>9. TableInv'
    BY <2>1, <2>3, <2>5, <2>8, TouchKeeps, Zenon
  <2>10. \A t \in Slots : peer'[t].hostname = peer[t].hostname
    BY <2>5, <2>6
  <2>11. \E i \in DOMAIN answer : Head(free) = answer[i]
    <3>1. /\ free \in Seq({answer[i] : i \in DOMAIN answer})
          /\ \A k \in 1 .. Len(free) : \E i \in DOMAIN answer : free[k] = answer[i]
      BY UnusedIsAnswer, Zenon
    <3> DEFINE A == {answer[i] : i \in DOMAIN answer}
    <3> HIDE DEF free, A
    <3>2. free \in Seq(A) /\ free # <<>>
      BY <1>2, <3>1 DEF A
    <3>3. 1 \in 1 .. Len(free) /\ Head(free) = free[1]
      BY <3>2
    <3> QED BY <3>1, <3>3
  <2>12. \A t \in peer_hash' : t \in peer_hash \/ t = s
    BY <2>1
  <2>13. \A t \in peer_hash : t \in Slots \ {s}
    BY <2>3, <2>7 DEF Hashed
  <2> QED BY <2>5, <2>6, <2>9, <2>10, <2>11, <2>12, <2>13
<1> QED BY <1>1, <1>2 DEF dns_take_server

\* dns_take_pool: the new associations have an address of the answer.
LEMMA TakePoolKeeps ==
  ASSUME TableInv, NEW s \in Slots, NEW answer, IsAnswer(answer), dns_take_pool(s, answer)
  PROVE  /\ TableInv'
         /\ \A t \in peer_hash' :
              \/ /\ t \in peer_hash
                 /\ peer'[t].hostname = peer[t].hostname /\ peer'[t].srcadr = peer[t].srcadr
              \/ /\ peer'[t].hostname \in {None, peer[s].hostname}
                 /\ \E i \in DOMAIN answer : peer'[t].srcadr = answer[i]
<1> DEFINE all  == Unused(answer)
           m    == IF Len(all) <= Len(peer_free) THEN Len(all) ELSE Len(peer_free)
           free == [k \in 1 .. m |-> all[k]]
           p    == peer[s]
           Child(a) == [hostname |-> IF p.nts THEN p.hostname ELSE None, srcadr |-> a, associd |-> 0,
                        cast |-> "UCAST", lookup |-> FALSE, nts |-> p.nts, config |-> FALSE,
                        preempt |-> TRUE, noselect |-> FALSE,
                        count |-> IF p.nts THEN p.count ELSE -1]
           base == [peer EXCEPT ![s] = HandOver(p)]
           new  == [k \in DOMAIN free |-> Child(free[k])]
<1>1. CASE UNCHANGED table
  <2>1. TableInv'
    BY <1>1, TableStays DEF table
  <2> QED BY <1>1, <2>1 DEF table
<1>2. CASE NewPeers(base, new, TRUE)
  <2>1. /\ Len(all) \in Nat /\ Len(peer_free) \in Nat
        /\ \A k \in 1 .. Len(all) : \E i \in DOMAIN answer : all[k] = answer[i]
    <3>1. /\ all \in Seq({answer[i] : i \in DOMAIN answer})
          /\ \A k \in 1 .. Len(all) : \E i \in DOMAIN answer : all[k] = answer[i]
      BY UnusedIsAnswer, Zenon
    <3> HIDE DEF all
    <3> QED BY <3>1 DEF TableInv, Listed, Distinct
  <2> HIDE DEF all
  <2>2. m \in Nat /\ m <= Len(all)
    BY <2>1
  <2>3. DOMAIN peer = Slots /\ \A t \in Slots : Shape(peer[t])
    BY DEF TableInv, Shapes
  <2>4. \A t \in Slots : /\ Shape(base[t])
                         /\ base[t].cast = peer[t].cast /\ base[t].lookup = peer[t].lookup
                         /\ base[t].noselect = peer[t].noselect /\ base[t].preempt = peer[t].preempt
                         /\ base[t].hostname = peer[t].hostname /\ base[t].srcadr = peer[t].srcadr
    <3>1. /\ Shape(HandOver(p)) /\ HandOver(p).cast = p.cast /\ HandOver(p).lookup = p.lookup
          /\ HandOver(p).noselect = p.noselect /\ HandOver(p).preempt = p.preempt
          /\ HandOver(p).hostname = p.hostname /\ HandOver(p).srcadr = p.srcadr
      <4>1. HandOver(p) = p \/ HandOver(p) = [p EXCEPT !.count = -1]
        BY DEF HandOver
      <4>2. Shape(p)
        BY <2>3
      <4> QED BY <4>1, <4>2 DEF Shape
    <3>2. base[s] = HandOver(p) /\ \A t \in Slots \ {s} : base[t] = peer[t]
      BY <2>3
    <3> HIDE DEF base
    <3> QED BY <2>3, <3>1, <3>2
  <2> HIDE DEF base, m
  <2>5. DOMAIN free = 1 .. m /\ DOMAIN new = 1 .. m /\ Len(new) = m
    BY <2>2
  <2>6. \A k \in 1 .. m : new[k] = Child(all[k])
    BY <2>5, Zenon
  <2> HIDE DEF new, free
  <2>7. Len(new) \in Nat /\ \A k \in 1 .. Len(new) : Shape(new[k]) /\ new[k].cast \in {"UCAST", "POOL"}
    <3>1. \A a : Shape(Child(a)) /\ Child(a).cast = "UCAST"
      BY Zenon DEF Shape
    <3> HIDE DEF Child
    <3> QED BY <2>2, <2>5, <2>6, <3>1
  <2>8. /\ TableInv' /\ Live \subseteq Live'
        /\ \A t \in Live : peer'[t] = base[t]
        /\ \A t \in peer_hash' \ peer_hash :
             \E k \in 1 .. Len(new) :
               /\ new[k].cast = "UCAST" /\ ~new[k].lookup
               /\ peer'[t].hostname = new[k].hostname /\ peer'[t].srcadr = new[k].srcadr
    <3>1. \A t \in Slots : /\ Shape(base[t])
                           /\ base[t].cast = peer[t].cast /\ base[t].lookup = peer[t].lookup
                           /\ base[t].noselect = peer[t].noselect
                           /\ base[t].preempt = peer[t].preempt
      BY <2>4
    <3>2. NewPeers(base, new, TRUE)
      BY <1>2, Zenon
    <3>3. Entered(base, new)
      BY <2>7, <3>1, <3>2, NewPeersKeep, Zenon
    <3> QED BY <3>3 DEF Entered
  <2>9. ASSUME NEW k \in 1 .. Len(new)
        PROVE  /\ new[k].hostname \in {None, p.hostname}
               /\ \E i \in DOMAIN answer : new[k].srcadr = answer[i]
    <3>1. k \in 1 .. Len(all) /\ k \in 1 .. m
      BY <2>1, <2>2, <2>5
    <3>2. new[k] = Child(all[k])
      BY <2>6, <3>1
    <3>3. new[k].hostname \in {None, p.hostname} /\ new[k].srcadr = all[k]
      BY <3>2
    <3> QED BY <2>1, <3>1, <3>3
  <2>10. \A t \in peer_hash : t \in Live /\ t \in Slots
    BY LiveFinite DEF TableInv, Tallied, Hashed
  <2>11. \A t \in peer_hash :
           peer'[t].hostname = peer[t].hostname /\ peer'[t].srcadr = peer[t].srcadr
    BY <2>4, <2>8, <2>10
  <2> QED BY <2>8, <2>9, <2>11
<1> QED BY <1>1, <1>2, Zenon DEF dns_take_pool

LEMMA TransmitPollKeeps ==
  ASSUME TableInv, NEW s \in Live, TransmitPoll(s)
  PROVE  TableInv'
<1> DEFINE p == Polled(peer[s])
<1>1. s \in Slots /\ Live \subseteq Slots /\ DOMAIN peer = Slots /\ Shape(peer[s])
  BY LiveFinite DEF TableInv, Shapes
<1>2. /\ Shape(p) /\ p.cast = peer[s].cast /\ p.noselect = peer[s].noselect
      /\ p.preempt = peer[s].preempt
  BY <1>1, PolledFields
<1>3. /\ peer[s].cast = "UCAST" /\ ~peer[s].lookup
      /\ peer' = [peer EXCEPT ![s] = p]
      /\ peer_hash' = IF p.lookup THEN peer_hash \ {s} ELSE peer_hash
      /\ UNCHANGED <<peer_list, peer_free, peer_active, peer_preempt>>
  BY DEF TransmitPoll
<1> HIDE DEF p
<1>4. Live' = Live /\ peer'[s] = p /\ \A t \in Live \ {s} : peer'[t] = peer[t]
  BY <1>1, <1>3 DEF Live
<1>5. peer_hash' = Hashed'
  <2>1. Hashed' = {t \in Live : peer'[t].cast = "UCAST" /\ ~peer'[t].lookup}
    BY <1>4 DEF Hashed
  <2> QED BY <2>1, <1>2, <1>3, <1>4 DEF TableInv, Tallied, Hashed
<1> QED BY <1>1, <1>2, <1>3, <1>5, TouchKeeps, Zenon

LEMMA ReceiveKeeps ==
  ASSUME TableInv, NEW s \in Live, receive(s)
  PROVE  TableInv'
<1> DEFINE c == IF peer[s].nts THEN Cookies ELSE peer[s].count
           p == [peer[s] EXCEPT !.count = c]
<1>1. s \in Slots /\ Live \subseteq Slots /\ DOMAIN peer = Slots /\ Shape(peer[s])
  BY LiveFinite DEF TableInv, Shapes
<1>2. /\ peer' = [peer EXCEPT ![s] = p] /\ peer_hash' = peer_hash
      /\ UNCHANGED <<peer_list, peer_free, peer_active, peer_preempt>>
  BY <1>1 DEF receive, Shape
<1> HIDE DEF c
<1>3. /\ Shape(p) /\ p.cast = peer[s].cast /\ p.noselect = peer[s].noselect
      /\ p.preempt = peer[s].preempt /\ p.lookup = peer[s].lookup
  BY <1>1 DEF Shape
<1> HIDE DEF p
<1>4. Live' = Live /\ peer'[s] = p /\ \A t \in Live \ {s} : peer'[t] = peer[t]
  BY <1>1, <1>2 DEF Live
<1>5. peer_hash' = Hashed'
  <2>1. Hashed' = {t \in Live : peer'[t].cast = "UCAST" /\ ~peer'[t].lookup}
    BY <1>4 DEF Hashed
  <2> QED BY <2>1, <1>2, <1>3, <1>4 DEF TableInv, Tallied, Hashed
<1> QED BY <1>1, <1>2, <1>3, <1>5, TouchKeeps, Zenon

\* dns_check, with whatever answer the thread has left.
LEMMA DnsCheckKeeps ==
  ASSUME AssocInv, dns_check
  PROVE  TableInv'
<1> DEFINE reply  == IF peer[active].nts THEN nts ELSE dns
           answer == IF reply.ok THEN reply.answer ELSE <<>>
<1>1. active \in Slots
  BY DEF dns_check, AssocInv, Lookups
<1>2. IsAnswer(answer)
  <2>1. IsAnswer(reply.answer)
    BY DEF AssocInv, Lookups
  <2>2. IsAnswer(<<>>)
    <3>1. DOMAIN <<>> = 1 .. 0
      OBVIOUS
    <3> QED BY <3>1 DEF IsAnswer
  <2> QED BY <2>1, <2>2
<1>3. IF peer[active].cast = "POOL" THEN dns_take_pool(active, answer)
                                    ELSE dns_take_server(active, answer)
  BY DEF dns_check
<1> HIDE DEF answer
<1> QED BY <1>1, <1>2, <1>3, TakePoolKeeps, TakeServerKeeps DEF AssocInv

LEMMA LookupsStay ==
  ASSUME Lookups, UNCHANGED <<active, worker, dns, nts>>
  PROVE  Lookups'
BY DEF Lookups, IsAnswer

LEMMA NextAssocInv == AssocInv /\ [Next]_vars => AssocInv'
<1> SUFFICES ASSUME AssocInv, [Next]_vars PROVE AssocInv'
  OBVIOUS
<1> USE DEF AssocInv
<1>0. IsAnswer(<<>>)
  <2>1. DOMAIN <<>> = 1 .. 0
    OBVIOUS
  <2> QED BY <2>1 DEF IsAnswer
<1>1. CASE UNCHANGED vars
  BY <1>1, TableStays, LookupsStay DEF vars, table
<1>2. ASSUME NEW l \in Lines, config_peers(l) PROVE AssocInv'
  BY <1>2, ConfigPeersKeeps, LookupsStay, Zenon DEF config_peers
<1>3. CASE config_unpeers
  BY <1>3, ConfigUnpeersKeeps, LookupsStay DEF config_unpeers
<1>4. CASE dns_lookup
  <2>1. TableInv'
    BY <1>4, TableStays DEF dns_lookup, table
  <2> QED BY <1>4, <2>1 DEF dns_lookup, Lookups, IsAnswer
<1>5. CASE DnsAnswers
  <2>1. TableInv'
    BY <1>5, TableStays DEF DnsAnswers, table
  <2>2. PICK n \in 0 .. MaxAnswers : \E ans \in [1 .. n -> Resolvable(worker.host)] :
                                      dns' = [ok |-> n > 0, answer |-> ans, host |-> worker.host]
    BY <1>5 DEF DnsAnswers
  <2>3. DOMAIN dns'.answer = 1 .. n /\ n \in Nat
    BY <2>2, AnswersAssumption
  <2>4. IsAnswer(dns'.answer)
    BY <2>3 DEF IsAnswer
  <2>5. active' \in Slots /\ nts' = nts
    BY <1>5 DEF DnsAnswers, Lookups
  <2> QED BY <2>1, <2>4, <2>5 DEF Lookups, IsAnswer
<1>6. CASE nts_probe
  <2>1. TableInv'
    BY <1>6, NtsProbeKeeps
  <2>2. IsAnswer(nts'.answer)
    <3>1. CASE nts' = [NoReply EXCEPT !.host = worker.host]
      BY <3>1, <1>0 DEF NoReply
    <3>2. ASSUME NEW a, nts' = [ok |-> TRUE, answer |-> <<a>>, host |-> worker.host]
          PROVE  IsAnswer(nts'.answer)
      <4>1. DOMAIN <<a>> = 1 .. 1 /\ 1 \in Nat
        OBVIOUS
      <4> QED BY <3>2, <4>1 DEF IsAnswer
    <3> QED BY <1>6, <3>1, <3>2 DEF nts_probe
  <2>3. active' \in Slots /\ dns' = dns
    BY <1>6 DEF nts_probe, Lookups
  <2> QED BY <2>1, <2>2, <2>3 DEF Lookups, IsAnswer
<1>7. CASE dns_check
  <2>1. TableInv'
    BY <1>7, DnsCheckKeeps
  <2>2. worker'.pc = "idle" /\ IsAnswer(nts'.answer)
    BY <1>7, <1>0 DEF dns_check, Idle, NoReply
  <2>3. IsAnswer(dns'.answer)
    BY <1>7, <1>0 DEF dns_check, NoReply, Lookups
  <2> QED BY <2>1, <2>2, <2>3 DEF Lookups, IsAnswer
<1>8. ASSUME NEW s \in Live, TransmitLookup(s) PROVE AssocInv'
  <2>1. TableInv'
    BY <1>8, TableStays DEF TransmitLookup, table
  <2>2. s \in Slots
    BY LiveFinite DEF TableInv
  <2>3. Lookups'
    BY <1>8, <2>2 DEF TransmitLookup, dns_probe, Lookups, IsAnswer
  <2> QED BY <2>1, <2>3
<1>9. ASSUME NEW s \in Live, TransmitPoll(s) PROVE AssocInv'
  BY <1>9, TransmitPollKeeps, LookupsStay, Zenon DEF TransmitPoll
<1>10. ASSUME NEW s \in Live, TransmitDrop(s) PROVE AssocInv'
  BY <1>10, UnpeerKeeps, LookupsStay DEF TransmitDrop
<1>11. ASSUME NEW s \in Live, receive(s) PROVE AssocInv'
  BY <1>11, ReceiveKeeps, LookupsStay, Zenon DEF receive
<1> QED BY <1>1, <1>2, <1>3, <1>4, <1>5, <1>6, <1>7, <1>8, <1>9, <1>10, <1>11 DEF Next

LEMMA AssocInvariance == Spec => []AssocInv
BY InitAssocInv, NextAssocInv, PTL DEF Spec

\* The lists, the address hash and the counters of ntp_peer.c agree in every
\* reachable state, also when an association is unpeered under the thread
\* that looks it up: free_peer finds in the hash what it expects there, and
\* the counters that govern pools do not drift.
THEOREM TablesStayInStep == Spec => []TablesAgree
<1>1. AssocInv => TablesAgree
  BY AgreeFromInv DEF AssocInv
<1> QED BY <1>1, AssocInvariance, PTL

-----------------------------------------------------------------------------
(* Addresses, when no association is unpeered while it is being looked up *)

\* The association the thread works for stays in use and stays without an
\* address until the answer is taken, and what the thread has read of it is
\* still true then.
Asked ==
  worker.pc # "idle" =>
    /\ active \in Live
    /\ peer[active].cast = "POOL" \/ peer[active].lookup
    /\ worker.pc # "start" => worker.host = peer[active].hostname /\ worker.nts = peer[active].nts

\* The answer the thread has left is for the name it has read.
AnswerOf(reply, h) == reply.ok /\ h # None => \A i \in DOMAIN reply.answer : reply.answer[i] \in AddrsOf[h]
Answered ==
  worker.pc = "done" => IF worker.nts THEN AnswerOf(nts, worker.host) ELSE AnswerOf(dns, worker.host)

WorkerShape == worker = [pc |-> worker.pc, host |-> worker.host, nts |-> worker.nts]
HostInv == WorkerShape /\ Asked /\ Answered /\ AddressOfOwnHost

\* An operation that does not concern the association being looked up.
LEMMA HostStays ==
  ASSUME HostInv, UNCHANGED <<active, worker, dns, nts>>,
         \A t \in peer_hash' :
           \/ /\ t \in peer_hash
              /\ peer'[t].hostname = peer[t].hostname /\ peer'[t].srcadr = peer[t].srcadr
           \/ peer'[t].hostname = None,
         worker.pc # "idle" =>
           /\ active \in Live'
           /\ peer'[active].cast = peer[active].cast /\ peer'[active].lookup = peer[active].lookup
           /\ peer'[active].hostname = peer[active].hostname /\ peer'[active].nts = peer[active].nts
  PROVE  HostInv'
<1>1. WorkerShape' /\ Answered'
  BY DEF HostInv, WorkerShape, Answered, AnswerOf
<1>2. Asked'
  BY DEF HostInv, Asked
<1>3. AddressOfOwnHost'
  BY DEF HostInv, AddressOfOwnHost
<1> QED BY <1>1, <1>2, <1>3 DEF HostInv

LEMMA NextHostInv ==
  ASSUME ~UnpeerBusy, AssocInv, HostInv, [Next]_vars
  PROVE  HostInv'
<1>0. /\ TableInv /\ Lookups /\ peer_hash = Hashed /\ Hashed \subseteq Live
      /\ Live \subseteq Slots /\ DOMAIN peer = Slots
      /\ \A s \in Slots : Shape(peer[s])
  BY LiveFinite DEF AssocInv, TableInv, Tallied, Hashed, Shapes
<1>1. CASE UNCHANGED vars
  <2>1. Live' = Live
    BY <1>1 DEF vars, table, Live
  <2> QED BY <1>1, <2>1, HostStays DEF vars, table, HostInv, Asked
<1>2. ASSUME NEW l \in Lines, config_peers(l) PROVE HostInv'
  <2>1. /\ Live \subseteq Live' /\ \A s \in Live : peer'[s] = peer[s]
        /\ \A s \in peer_hash' \ peer_hash : peer'[s].hostname = None
    BY <1>0, <1>2, ConfigPeersKeeps
  <2>2. UNCHANGED <<active, worker, dns, nts>>
    BY <1>2 DEF config_peers
  <2> QED BY <1>0, <2>1, <2>2, HostStays DEF HostInv, Asked
<1>3. CASE config_unpeers
  <2>1. PICK s \in Live : /\ s # active
                          /\ Live' = Live \ {s} /\ peer_hash' \subseteq peer_hash \ {s}
                          /\ \A t \in Live' : peer'[t] = peer[t]
    BY <1>0, <1>3, ConfigUnpeersKeeps
  <2>2. UNCHANGED <<active, worker, dns, nts>>
    BY <1>3 DEF config_unpeers
  <2> QED BY <1>0, <2>1, <2>2, HostStays, Zenon DEF HostInv, Asked
<1>4. CASE dns_lookup
  <2>1. /\ worker.pc = "start"
        /\ worker' = [pc |-> "query", host |-> peer[active].hostname, nts |-> peer[active].nts]
        /\ UNCHANGED <<peer, peer_hash, active, dns, nts>> /\ Live' = Live
    BY <1>4 DEF dns_lookup, table, Live
  <2>2. WorkerShape' /\ Answered'
    BY <2>1 DEF WorkerShape, Answered
  <2>3. Asked'
    BY <2>1 DEF HostInv, Asked
  <2>4. AddressOfOwnHost'
    BY <2>1 DEF HostInv, AddressOfOwnHost
  <2> QED BY <2>2, <2>3, <2>4 DEF HostInv
<1>5. CASE DnsAnswers
  <2>1. /\ worker.pc = "query" /\ ~worker.nts
        /\ worker' = [worker EXCEPT !.pc = "done"]
        /\ UNCHANGED <<peer, peer_hash, active, nts>> /\ Live' = Live
    BY <1>5 DEF DnsAnswers, table, Live
  <2>2. worker' = [pc |-> "done", host |-> worker.host, nts |-> worker.nts]
    BY <2>1 DEF HostInv, WorkerShape
  <2>3. AnswerOf(dns', worker.host)
    <3>1. PICK n \in 0 .. MaxAnswers : \E ans \in [1 .. n -> Resolvable(worker.host)] :
                                        dns' = [ok |-> n > 0, answer |-> ans, host |-> worker.host]
      BY <1>5 DEF DnsAnswers
    <3> QED BY <3>1 DEF AnswerOf, Resolvable
  <2>4. WorkerShape' /\ Answered'
    BY <2>1, <2>2, <2>3, Zenon DEF WorkerShape, Answered, AnswerOf
  <2>5. Asked'
    BY <2>1, <2>2 DEF HostInv, Asked
  <2>6. AddressOfOwnHost'
    BY <2>1 DEF HostInv, AddressOfOwnHost
  <2> QED BY <2>4, <2>5, <2>6 DEF HostInv
<1>6. CASE nts_probe
  <2>1. /\ worker.pc = "query" /\ worker.nts
        /\ worker' = [worker EXCEPT !.pc = "done"]
        /\ UNCHANGED <<peer_hash, active, dns>> /\ Live' = Live
    BY <1>6 DEF nts_probe, table, Live
  <2>2. worker' = [pc |-> "done", host |-> worker.host, nts |-> worker.nts]
    BY <2>1, Zenon DEF HostInv, WorkerShape
  <2>3. AnswerOf(nts', worker.host)
    <3>1. CASE nts' = [NoReply EXCEPT !.host = worker.host]
      BY <3>1 DEF NoReply, AnswerOf
    <3>2. ASSUME NEW a \in Resolvable(worker.host),
                 nts' = [ok |-> TRUE, answer |-> <<a>>, host |-> worker.host]
          PROVE  AnswerOf(nts', worker.host)
      BY <3>2 DEF AnswerOf, Resolvable
    <3> QED BY <1>6, <3>1, <3>2 DEF nts_probe
  <2>4. \A t \in Slots : /\ peer'[t].cast = peer[t].cast /\ peer'[t].lookup = peer[t].lookup
                         /\ peer'[t].hostname = peer[t].hostname /\ peer'[t].srcadr = peer[t].srcadr
                         /\ peer'[t].nts = peer[t].nts
    <3>1. CASE UNCHANGED peer
      BY <3>1
    <3>2. CASE peer' = [peer EXCEPT ![active].count = Cookies]
      <4> SUFFICES ASSUME NEW t \in Slots
                   PROVE  /\ peer'[t].cast = peer[t].cast /\ peer'[t].lookup = peer[t].lookup
                          /\ peer'[t].hostname = peer[t].hostname /\ peer'[t].srcadr = peer[t].srcadr
                          /\ peer'[t].nts = peer[t].nts
        OBVIOUS
      <4>1. peer'[t] = peer[t] \/ peer'[t] = [peer[t] EXCEPT !.count = Cookies]
        BY <1>0, <3>2
      <4>2. Shape(peer[t])
        BY <1>0
      <4> QED BY <4>1, <4>2 DEF Shape
    <3> QED BY <1>6, <3>1, <3>2 DEF nts_probe
  <2>5. WorkerShape' /\ Answered'
    BY <2>1, <2>2, <2>3, Zenon DEF WorkerShape, Answered, AnswerOf
  <2>6. Asked'
    BY <1>0, <2>1, <2>2, <2>4, Zenon DEF HostInv, Asked
  <2>7. AddressOfOwnHost'
    BY <1>0, <2>1, <2>4 DEF HostInv, AddressOfOwnHost
  <2> QED BY <2>5, <2>6, <2>7 DEF HostInv
<1>7. CASE dns_check
  <2> DEFINE reply  == IF peer[active].nts THEN nts ELSE dns
             answer == IF reply.ok THEN reply.answer ELSE <<>>
             h == peer[active].hostname
  <2>1. /\ worker.pc = "done" /\ worker' = Idle
        /\ IF peer[active].cast = "POOL" THEN dns_take_pool(active, answer)
                                         ELSE dns_take_server(active, answer)
    BY <1>7 DEF dns_check
  <2>2. active \in Slots /\ worker.host = h /\ worker.nts = peer[active].nts
    BY <1>0, <2>1 DEF HostInv, Asked
  <2>3. WorkerShape' /\ Answered' /\ Asked'
    BY <2>1 DEF WorkerShape, Answered, Asked, Idle
  <2>4. h # None => \A i \in DOMAIN answer : answer[i] \in AddrsOf[h]
    <3>1. AnswerOf(reply, h)
      BY <2>1, <2>2 DEF HostInv, Answered
    <3>2. DOMAIN <<>> = 1 .. 0
      OBVIOUS
    <3> QED BY <3>1, <3>2 DEF AnswerOf
  <2>5. IsAnswer(answer)
    <3>1. IsAnswer(reply.answer)
      BY <1>0 DEF Lookups
    <3>2. IsAnswer(<<>>)
      <4>1. DOMAIN <<>> = 1 .. 0
        OBVIOUS
      <4> QED BY <4>1 DEF IsAnswer
    <3> QED BY <3>1, <3>2
  <2> HIDE DEF answer
  <2>6. \A t \in peer_hash' :
          \/ /\ t \in peer_hash
             /\ peer'[t].hostname = peer[t].hostname /\ peer'[t].srcadr = peer[t].srcadr
          \/ /\ peer'[t].hostname \in {None, h}
             /\ \E i \in DOMAIN answer : peer'[t].srcadr = answer[i]
    <3>1. CASE peer[active].cast = "POOL"
      <4>1. TableInv /\ active \in Slots /\ IsAnswer(answer) /\ dns_take_pool(active, answer)
        BY <3>1, <1>0, <2>1, <2>2, <2>5
      <4> QED BY <4>1, TakePoolKeeps
    <3>2. CASE peer[active].cast # "POOL"
      <4>1. /\ TableInv /\ active \in Slots /\ IsAnswer(answer) /\ peer[active].cast # "POOL"
            /\ dns_take_server(active, answer)
        BY <3>2, <1>0, <2>1, <2>2, <2>5
      <4>2. /\ \A t \in Slots : peer'[t].hostname = peer[t].hostname
            /\ \A t \in peer_hash' : \/ t \in peer_hash /\ peer'[t].srcadr = peer[t].srcadr
                                    \/ /\ t = active
                                       /\ \E i \in DOMAIN answer : peer'[t].srcadr = answer[i]
        BY <4>1, TakeServerKeeps
      <4> QED BY <4>2, <1>0, <2>2
    <3> QED BY <3>1, <3>2
  <2>7. AddressOfOwnHost'
    <3> SUFFICES ASSUME NEW t \in peer_hash', peer'[t].hostname # None
                 PROVE  peer'[t].srcadr \in AddrsOf[peer'[t].hostname]
      BY DEF AddressOfOwnHost
    <3>1. CASE t \in peer_hash /\ peer'[t].hostname = peer[t].hostname /\ peer'[t].srcadr = peer[t].srcadr
      BY <3>1 DEF HostInv, AddressOfOwnHost
    <3>2. CASE peer'[t].hostname \in {None, h} /\ \E i \in DOMAIN answer : peer'[t].srcadr = answer[i]
      BY <3>2, <2>4
    <3> QED BY <3>1, <3>2, <2>6
  <2> QED BY <2>3, <2>7 DEF HostInv
<1>8. ASSUME NEW s \in Live, TransmitLookup(s) PROVE HostInv'
  <2>1. UNCHANGED <<peer, peer_hash, dns, nts>> /\ Live' = Live
    BY <1>8 DEF TransmitLookup, table, Live
  <2>2. CASE UNCHANGED <<active, worker>>
    BY <2>1, <2>2, HostStays DEF HostInv, Asked
  <2>3. CASE active' = s /\ worker' = [Idle EXCEPT !.pc = "start"]
    <3>1. worker' = [pc |-> "start", host |-> None, nts |-> FALSE]
      BY <2>3, Zenon DEF Idle
    <3>2. peer[s].cast = "POOL" \/ peer[s].lookup
      BY <1>8 DEF TransmitLookup
    <3>3. WorkerShape' /\ Answered'
      BY <3>1 DEF WorkerShape, Answered
    <3>4. Asked'
      BY <2>1, <2>3, <3>1, <3>2 DEF Asked
    <3>5. AddressOfOwnHost'
      BY <2>1 DEF HostInv, AddressOfOwnHost
    <3> QED BY <3>3, <3>4, <3>5 DEF HostInv
  <2> QED BY <1>8, <2>2, <2>3 DEF TransmitLookup, dns_probe
<1>9. ASSUME NEW s \in Live, TransmitPoll(s) PROVE HostInv'
  <2>1. /\ peer[s].cast = "UCAST" /\ ~peer[s].lookup
        /\ peer' = [peer EXCEPT ![s] = Polled(peer[s])]
        /\ peer_hash' \subseteq peer_hash /\ Live' = Live
        /\ UNCHANGED <<active, worker, dns, nts>>
    BY <1>9 DEF TransmitPoll, Live
  <2>2. worker.pc # "idle" => active # s
    BY <2>1 DEF HostInv, Asked
  <2>3. peer'[s] = Polled(peer[s]) /\ \A t \in Slots \ {s} : peer'[t] = peer[t]
    BY <1>0, <2>1
  <2>4. Polled(peer[s]).hostname = peer[s].hostname /\ Polled(peer[s]).srcadr = peer[s].srcadr
    BY <1>0, PolledFields
  <2>5. \A t \in Slots : peer'[t].hostname = peer[t].hostname /\ peer'[t].srcadr = peer[t].srcadr
    BY <2>3, <2>4
  <2> QED BY <1>0, <2>1, <2>2, <2>3, <2>5, HostStays, Zenon DEF HostInv, Asked
<1>10. ASSUME NEW s \in Live, TransmitDrop(s) PROVE HostInv'
  <2>1. /\ peer[s].cast = "UCAST" /\ ~peer[s].lookup /\ unpeer(s)
        /\ UNCHANGED <<active, worker, dns, nts>>
    BY <1>10 DEF TransmitDrop
  <2>2. worker.pc # "idle" => active # s
    BY <2>1 DEF HostInv, Asked
  <2>3. /\ Live' = Live \ {s} /\ peer_hash' \subseteq peer_hash \ {s}
        /\ \A t \in Live' : peer'[t] = peer[t]
    BY <1>0, <2>1, UnpeerKeeps
  <2> QED BY <1>0, <2>1, <2>2, <2>3, HostStays, Zenon DEF HostInv, Asked
<1>11. ASSUME NEW s \in Live, receive(s) PROVE HostInv'
  <2> DEFINE c == IF peer[s].nts THEN Cookies ELSE peer[s].count
  <2>1. /\ s \in peer_hash
        /\ peer' = [peer EXCEPT ![s].count = c]
        /\ peer_hash' = peer_hash /\ Live' = Live
        /\ UNCHANGED <<active, worker, dns, nts>>
    BY <1>11 DEF receive, Live
  <2> HIDE DEF c
  <2>2. peer'[s] = [peer[s] EXCEPT !.count = c] /\ \A t \in Slots \ {s} : peer'[t] = peer[t]
    BY <1>0, <2>1
  <2>3. /\ peer'[s].cast = peer[s].cast /\ peer'[s].lookup = peer[s].lookup
        /\ peer'[s].hostname = peer[s].hostname /\ peer'[s].srcadr = peer[s].srcadr
        /\ peer'[s].nts = peer[s].nts
    <3>1. Shape(peer[s])
      BY <1>0
    <3> QED BY <2>2, <3>1 DEF Shape
  <2>4. \A t \in Slots : peer'[t].hostname = peer[t].hostname /\ peer'[t].srcadr = peer[t].srcadr
                         /\ peer'[t].cast = peer[t].cast /\ peer'[t].lookup = peer[t].lookup
                         /\ peer'[t].nts = peer[t].nts
    BY <2>2, <2>3, Zenon
  <2> QED BY <1>0, <2>1, <2>4, HostStays DEF HostInv, Asked
<1> QED BY <1>1, <1>2, <1>3, <1>4, <1>5, <1>6, <1>7, <1>8, <1>9, <1>10, <1>11 DEF Next

\* When the operator does not unpeer the association that is being looked up,
\* every association that is polled under a name has an address of that name,
\* whatever else happens between dns_probe, the thread and dns_check.
THEOREM AnswersReachTheirHost ==
  ASSUME ~UnpeerBusy
  PROVE  Spec => []AddressOfOwnHost
<1>1. Init => HostInv
  BY DEF Init, HostInv, WorkerShape, Asked, Answered, AddressOfOwnHost, Idle
<1>2. AssocInv /\ HostInv /\ [Next]_vars => HostInv'
  BY NextHostInv
<1>3. HostInv => AddressOfOwnHost
  BY DEF HostInv
<1> QED BY <1>1, <1>2, <1>3, AssocInvariance, PTL DEF Spec
=============================================================================
