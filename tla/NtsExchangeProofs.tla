------------------------- MODULE NtsExchangeProofs -------------------------
(***************************************************************************)
(* Proofs about NtsExchange for any ring size, any number of server keys   *)
(* and any number of packets in flight.                                    *)
(***************************************************************************)
EXTENDS NtsExchange, TLAPS

\* What the ring's index arithmetic computes: an index advanced by at most a
\* whole turn stays a slot, and wraps exactly when it passes the last one.
LEMMA ModStep ==
  ASSUME NEW N \in Nat \ {0}, NEW w \in 0 .. N - 1, NEW n \in 0 .. N
  PROVE  /\ (w + n) % N \in 0 .. N - 1
         /\ (w + n) % N = IF w + n < N THEN w + n ELSE w + n - N
<1>1. (w + n) % N \in 0 .. N - 1
  OBVIOUS
<1>2. ASSUME w + n < N PROVE (w + n) % N = w + n
  BY <1>2
<1>3. ASSUME w + n >= N PROVE (w + n) % N = w + n - N
  BY <1>3
<1> QED BY <1>1, <1>2, <1>3

\* Advancing the write index by m keeps it count slots ahead of the read index.
LEMMA RingStep ==
  ASSUME NEW N \in Nat \ {0}, NEW r \in 0 .. N - 1, NEW w \in 0 .. N - 1,
         NEW n \in 0 .. N, NEW m \in 0 .. N, n + m <= N, (r + n) % N = w
  PROVE  (r + (n + m)) % N = (w + m) % N
<1>1. w = IF r + n < N THEN r + n ELSE r + n - N
  BY ModStep
<1>2. (w + m) % N = IF w + m < N THEN w + m ELSE w + m - N
  BY ZenonT(30), ModStep
<1>3. n + m \in 0 .. N
  OBVIOUS
<1>4. (r + (n + m)) % N = IF r + (n + m) < N THEN r + (n + m) ELSE r + (n + m) - N
  BY ZenonT(30), <1>3, ModStep
<1> QED BY <1>1, <1>2, <1>4

\* The position of a slot counted from another one, without the modulus.
LEMMA OffsetIs ==
  ASSUME NEW from \in Slots, NEW i \in Slots
  PROVE  /\ Offset(from, i) = IF i >= from THEN i - from ELSE i - from + NTS_MAX_COOKIES
         /\ Offset(from, i) \in 0 .. NTS_MAX_COOKIES - 1
<1> DEFINE M == NTS_MAX_COOKIES  d == M - from
<1>1. M \in Nat \ {0} /\ i \in 0 .. M - 1 /\ d \in 0 .. M /\ from \in 0 .. M - 1
  BY JarAssumption DEF Slots
<1> HIDE DEF d
<1>2. /\ (i + d) % M \in 0 .. M - 1
      /\ (i + d) % M = IF i + d < M THEN i + d ELSE i + d - M
  BY ZenonT(30), <1>1, ModStep
<1> QED BY <1>1, <1>2 DEF Offset, d

\* Distinct slots have distinct positions.
LEMMA OffsetInjective ==
  ASSUME NEW from \in Slots, NEW i \in Slots, NEW k \in Slots, Offset(from, i) = Offset(from, k)
  PROVE  i = k
<1> DEFINE M == NTS_MAX_COOKIES
<1>1. M \in Nat \ {0} /\ from \in 0 .. M - 1 /\ i \in 0 .. M - 1 /\ k \in 0 .. M - 1
  BY JarAssumption DEF Slots
<1>2. /\ Offset(from, i) = IF i >= from THEN i - from ELSE i - from + M
      /\ Offset(from, k) = IF k >= from THEN k - from ELSE k - from + M
  BY OffsetIs
<1>3. (IF i >= from THEN i - from ELSE i - from + M) = (IF k >= from THEN k - from ELSE k - from + M)
  BY ZenonT(30), <1>2
<1> HIDE DEF M
<1> QED BY <1>1, <1>3

\* Behind c live slots from r, the next n slots are the first n from the write
\* index.
LEMMA OffsetSplit ==
  ASSUME NEW r \in Slots, NEW w \in Slots, NEW i \in Slots,
         NEW c \in 0 .. NTS_MAX_COOKIES, NEW n \in 0 .. NTS_MAX_COOKIES,
         c + n <= NTS_MAX_COOKIES, (r + c) % NTS_MAX_COOKIES = w
  PROVE  Offset(r, i) < c + n <=> Offset(r, i) < c \/ Offset(w, i) < n
<1> DEFINE M == NTS_MAX_COOKIES
<1>1. M \in Nat \ {0} /\ r \in 0 .. M - 1 /\ w \in 0 .. M - 1 /\ i \in 0 .. M - 1
  BY JarAssumption DEF Slots
<1>2. w = IF r + c < M THEN r + c ELSE r + c - M
  BY ZenonT(30), <1>1, ModStep
<1>3. /\ Offset(r, i) = IF i >= r THEN i - r ELSE i - r + M
      /\ Offset(w, i) = IF i >= w THEN i - w ELSE i - w + M
  BY OffsetIs
<1> QED BY <1>1, <1>2, <1>3

\* Taking the slot at r leaves the others live.
LEMMA OffsetTake ==
  ASSUME NEW r \in Slots, NEW i \in Slots, NEW c \in 1 .. NTS_MAX_COOKIES,
         NEW s, s = (r + 1) % NTS_MAX_COOKIES
  PROVE  s \in Slots /\ (Offset(s, i) < c - 1 <=> i # r /\ Offset(r, i) < c)
<1> DEFINE M == NTS_MAX_COOKIES
<1>1. M \in Nat \ {0} /\ 1 \in 0 .. M /\ r \in 0 .. M - 1 /\ i \in 0 .. M - 1
  BY JarAssumption DEF Slots
<1>2. s \in 0 .. M - 1 /\ s = IF r + 1 < M THEN r + 1 ELSE r + 1 - M
  BY ZenonT(30), <1>1, ModStep
<1>3. s \in Slots
  BY <1>2 DEF Slots
<1>4. /\ Offset(r, i) = IF i >= r THEN i - r ELSE i - r + M
      /\ Offset(s, i) = IF i >= s THEN i - s ELSE i - s + M
  BY <1>3, OffsetIs
<1> QED BY <1>1, <1>2, <1>3, <1>4

-----------------------------------------------------------------------------
\* The cookies from which the invariant must keep the jar's apart.
Requests == {m \in net : m.type = "req"}
Replies == {m \in net : m.type = "rep"}

\* cs is a sequence of cookies that are new to the jar and to every request.
NewToJar(cs) ==
  /\ \A i, k \in 1 .. Len(cs) : i # k => cs[i].id # cs[k].id
  /\ \A i \in 1 .. Len(cs) :
       /\ \A k \in LiveSlots : cs[i].id # jar.cookies[k].id
       /\ \A m \in Requests : cs[i].id # m.cookie.id

\* Types, and what the server and the worker rely on: there is a key to make
\* cookies with, and the worker only appends to a jar that it has emptied.
ShapeInv ==
  /\ TypeOK
  /\ keys # <<>>
  /\ WorkerOwnsJar
  /\ RingConsistent
  /\ \A i \in LiveSlots : jar.cookies[i] \in Cookie
  /\ ke.pc = "records" => jar.count >= 0
  /\ ke.pc # "records" => ke.todo = <<>>
  /\ ke.pc \in {"connect", "records"} => ~ke.addrOK

\* Cookies in the jar differ from each other, from those sent and from those
\* about to be stored.  A reply to the latest request is either new and fills
\* the jar exactly, or finds it full.
DistinctInv ==
  /\ \A i, k \in LiveSlots : i # k => jar.cookies[i].id # jar.cookies[k].id
  /\ \A m \in Requests, i \in LiveSlots : m.cookie.id # jar.cookies[i].id
  /\ NewToJar(ke.todo)
  /\ ~lookup => \A m \in Requests : m.uid = jar.UID =>
       \/ jar.count = NTS_MAX_COOKIES
       \/ jar.count + 1 + m.placeholders = NTS_MAX_COOKIES
  /\ ~lookup => \A m \in Replies : m.uid = jar.UID =>
       \/ jar.count = NTS_MAX_COOKIES
       \/ jar.count + Len(m.cookies) = NTS_MAX_COOKIES /\ NewToJar(m.cookies)

\* Every cookie travels with the session whose keys it carries.
SessionInv ==
  /\ \A m \in Replies : \A i \in 1 .. Len(m.cookies) : m.cookies[i].sess = m.sess
  /\ \A i \in 1 .. Len(ke.todo) : ke.todo[i].sess = ke.sess
  /\ ke.pc = "records" => \A i \in LiveSlots : jar.cookies[i].sess = ke.sess
  /\ ~lookup \/ (ke.pc = "done" /\ ke.addrOK) =>
       \A i \in LiveSlots : jar.cookies[i].sess = jar.sess

IInv == ShapeInv /\ DistinctInv /\ SessionInv

-----------------------------------------------------------------------------
\* Cookies made by the server are cookies, as many as were asked for.
LEMMA MakeCookieType ==
  ASSUME keys \in Seq(KeyIds), keys # <<>>, NEW k \in Nat, NEW ids \in FreshIds(k),
         NEW s \in Sessions
  PROVE  /\ nts_make_cookie(ids, s) \in Seq(Cookie)
         /\ Len(nts_make_cookie(ids, s)) = k
<1>1. ids \in [1 .. k -> Nonces]
  BY DEF FreshIds, FreshNonces
<1>2. keys[1] \in KeyIds
  OBVIOUS
<1>3. nts_make_cookie(ids, s) \in [1 .. k -> Cookie]
  BY <1>1, <1>2 DEF nts_make_cookie, Cookie
<1> QED BY <1>3

\* Freshly made cookies carry distinct nonces that are nowhere around.
LEMMA FreshCookies ==
  ASSUME NEW n \in Nat, NEW ids \in FreshIds(n), NEW s
  PROVE  /\ \A i \in 1 .. n : /\ nts_make_cookie(ids, s)[i].sess = s
                              /\ nts_make_cookie(ids, s)[i].id = ids[i]
                              /\ ids[i] \in FreshNonces
         /\ \A i, k \in 1 .. n : i # k => ids[i] # ids[k]
<1>1. ids \in [1 .. n -> FreshNonces] /\ \A i, k \in 1 .. n : i < k => ids[i] < ids[k]
  BY DEF FreshIds
<1>2. FreshNonces \subseteq Nat
  BY NamesAssumption DEF FreshNonces
<1>3. ASSUME NEW i \in 1 .. n
      PROVE  nts_make_cookie(ids, s)[i].sess = s /\ nts_make_cookie(ids, s)[i].id = ids[i]
             /\ ids[i] \in FreshNonces
  BY <1>1 DEF nts_make_cookie
<1>4. ASSUME NEW i \in 1 .. n, NEW k \in 1 .. n, i # k
      PROVE  ids[i] # ids[k]
  <2>1. ids[i] \in Nat /\ ids[k] \in Nat
    BY ZenonT(30), <1>1, <1>2
  <2>2. i < k \/ k < i
    BY <1>4
  <2>3. ids[i] < ids[k] \/ ids[k] < ids[i]
    BY <1>1, <2>2
  <2> QED BY <2>1, <2>3
<1> QED BY <1>3, <1>4

\* The live slots of a jar.
LiveOf(j) == {i \in Slots : Offset(j.readIdx, i) < j.count}

\* Storing cookies keeps the ring consistent and within its size; a slot that
\* becomes live holds the cookie of its position, the others are untouched.
LEMMA StoreRing ==
  ASSUME jar \in Jar, 0 <= jar.count, NEW cs \in Seq(Cookie),
         (jar.readIdx + jar.count) % NTS_MAX_COOKIES = jar.writeIdx,
         NEW k, k = StoreCookies(jar, cs)
  PROVE  /\ k \in Jar /\ k.UID = jar.UID /\ k.sess = jar.sess
         /\ k.count = IF Len(cs) <= NTS_MAX_COOKIES - jar.count THEN jar.count + Len(cs)
                      ELSE NTS_MAX_COOKIES
         /\ (k.readIdx + k.count) % NTS_MAX_COOKIES = k.writeIdx
         /\ \A i \in LiveOf(k) :
              \/ i \in LiveSlots /\ k.cookies[i] = jar.cookies[i]
              \/ /\ Offset(jar.writeIdx, i) + 1 \in 1 .. Len(cs)
                 /\ k.cookies[i] = cs[Offset(jar.writeIdx, i) + 1]
<1> DEFINE M == NTS_MAX_COOKIES
           room == M - jar.count
           n == IF Len(cs) <= room THEN Len(cs) ELSE room
           at(i) == Offset(jar.writeIdx, i)
           slots == [i \in Slots |-> IF at(i) < n THEN cs[at(i) + 1] ELSE jar.cookies[i]]
           w == (jar.writeIdx + n) % M
           c == jar.count + n
<1>1. /\ M \in Nat \ {0}
      /\ jar.readIdx \in 0 .. M - 1 /\ jar.writeIdx \in 0 .. M - 1 /\ jar.count \in 0 .. M
  BY JarAssumption DEF Jar, Slots
<1>2. n \in 0 .. M /\ jar.count + n \in 0 .. M /\ n <= Len(cs) /\ jar.count + n <= M
  BY SMTT(30), <1>1
<1>3. w \in 0 .. M - 1
  <2> HIDE DEF n
  <2> QED BY ZenonT(30), <1>1, <1>2, ModStep
<1>4. ASSUME NEW i \in Slots, at(i) < n
      PROVE  at(i) + 1 \in 1 .. Len(cs)
  <2>1. at(i) \in 0 .. M - 1
    BY OffsetIs DEF Jar
  <2> HIDE DEF n, at
  <2> QED BY <1>1, <1>2, <1>4, <2>1
<1>5. slots \in [Slots -> Cookie \cup {Stale}]
  <2> SUFFICES ASSUME NEW i \in Slots
               PROVE  (IF at(i) < n THEN cs[at(i) + 1] ELSE jar.cookies[i])
                         \in Cookie \cup {Stale}
    OBVIOUS
  <2>1. jar.cookies[i] \in Cookie \cup {Stale}
    BY DEF Jar
  <2> HIDE DEF n, at
  <2>2. ASSUME at(i) < n PROVE cs[at(i) + 1] \in Cookie
    BY <1>4, <2>2
  <2> QED BY <2>1, <2>2
<1>6. k = [jar EXCEPT !.writeIdx = w, !.count = c, !.cookies = slots]
  BY DEF StoreCookies
<1>7. (jar.readIdx + c) % M = w
  <2> HIDE DEF n
  <2> QED BY ZenonT(30), <1>1, <1>2, RingStep
<1>8. c = IF Len(cs) <= M - jar.count THEN jar.count + Len(cs) ELSE M
  BY <1>1
<1>9. \A i \in Slots : Offset(jar.readIdx, i) < c =>
         Offset(jar.readIdx, i) < jar.count \/ at(i) < n
  <2> HIDE DEF n
  <2>1. jar.readIdx \in Slots /\ jar.writeIdx \in Slots
    BY DEF Jar
  <2> QED BY <1>1, <1>2, <2>1, OffsetSplit
<1>10. /\ k \in Jar /\ k.readIdx = jar.readIdx /\ k.writeIdx = w /\ k.count = c
       /\ k.cookies = slots /\ k.UID = jar.UID /\ k.sess = jar.sess
  <2>1. w \in Slots /\ c \in -1 .. M
    BY <1>1, <1>2, <1>3 DEF Slots
  <2> HIDE DEF w, c, slots
  <2> QED BY ZenonT(30), <1>5, <1>6, <2>1 DEF Jar
<1>11. ASSUME NEW i \in LiveOf(k)
       PROVE  \/ i \in LiveSlots /\ k.cookies[i] = jar.cookies[i]
              \/ /\ at(i) + 1 \in 1 .. Len(cs)
                 /\ k.cookies[i] = cs[at(i) + 1]
  <2>1. i \in Slots /\ Offset(jar.readIdx, i) < c
    BY <1>10 DEF LiveOf
  <2>2. k.cookies[i] = IF at(i) < n THEN cs[at(i) + 1] ELSE jar.cookies[i]
    BY <1>10, <2>1
  <2> HIDE DEF at, n, c
  <2>3. CASE at(i) < n
    BY <1>4, <2>1, <2>2, <2>3
  <2>4. CASE ~(at(i) < n)
    BY <1>9, <2>1, <2>2, <2>4 DEF LiveSlots
  <2> QED BY <2>3, <2>4
<1> HIDE DEF c, w
<1> QED BY <1>7, <1>8, <1>10, <1>11

\* Taking a cookie keeps the ring consistent; the other live slots stay live.
LEMMA TakeRing ==
  ASSUME jar \in Jar, 0 < jar.count, NEW uid \in Uids,
         (jar.readIdx + jar.count) % NTS_MAX_COOKIES = jar.writeIdx,
         NEW k, k = Take(jar, uid)
  PROVE  /\ k \in Jar /\ k.count = jar.count - 1 /\ k.UID = uid /\ k.sess = jar.sess
         /\ (k.readIdx + k.count) % NTS_MAX_COOKIES = k.writeIdx
         /\ jar.readIdx \in LiveSlots
         /\ \A i \in LiveOf(k) :
              i \in LiveSlots /\ i # jar.readIdx /\ k.cookies[i] = jar.cookies[i]
<1> DEFINE M == NTS_MAX_COOKIES
           r == (jar.readIdx + 1) % M
           c == jar.count - 1
           slots == [jar.cookies EXCEPT ![jar.readIdx] = Stale]
<1>1. /\ M \in Nat \ {0} /\ 1 \in 0 .. M
      /\ jar.readIdx \in 0 .. M - 1 /\ jar.writeIdx \in 0 .. M - 1 /\ jar.count \in 1 .. M
      /\ jar.count \in 0 .. M
  BY JarAssumption DEF Jar, Slots
<1>2. r \in 0 .. M - 1 /\ r = IF jar.readIdx + 1 < M THEN jar.readIdx + 1 ELSE jar.readIdx + 1 - M
  BY ZenonT(30), <1>1, ModStep
<1>3. c \in 0 .. M - 1 /\ c \in 0 .. M /\ c \in -1 .. M
  BY <1>1
<1>4. slots \in [Slots -> Cookie \cup {Stale}] /\ jar.readIdx \in Slots
  BY DEF Jar
<1>5. (r + c) % M = jar.writeIdx
  <2> DEFINE ri == jar.readIdx  cn == jar.count  wi == jar.writeIdx
  <2>1. wi = IF ri + cn < M THEN ri + cn ELSE ri + cn - M
    BY ZenonT(30), <1>1, ModStep
  <2> HIDE DEF r, c
  <2>2. (r + c) % M = IF r + c < M THEN r + c ELSE r + c - M
    BY ZenonT(30), <1>1, <1>2, <1>3, ModStep
  <2>3. c = cn - 1
    BY DEF c
  <2> QED BY <1>1, <1>2, <1>3, <2>1, <2>2, <2>3
<1>6. k = [jar EXCEPT !.UID = uid, !.cookies = slots, !.readIdx = r, !.count = c]
  BY DEF Take
<1>7. /\ k \in Jar /\ k.readIdx = r /\ k.count = c /\ k.writeIdx = jar.writeIdx
      /\ k.cookies = slots /\ k.UID = uid /\ k.sess = jar.sess
  <2>1. r \in Slots
    BY <1>2 DEF Slots
  <2> HIDE DEF r, c, slots
  <2> QED BY ZenonT(30), <1>3, <1>4, <1>6, <2>1 DEF Jar
<1>8. jar.readIdx \in LiveSlots
  <2>1. Offset(jar.readIdx, jar.readIdx) = 0
    BY <1>1, <1>4, OffsetIs
  <2> QED BY <1>1, <1>4, <2>1 DEF LiveSlots
<1>9. ASSUME NEW i \in LiveOf(k)
      PROVE  i \in LiveSlots /\ i # jar.readIdx /\ k.cookies[i] = jar.cookies[i]
  <2>1. i \in Slots /\ Offset(r, i) < jar.count - 1
    BY <1>7 DEF LiveOf
  <2> HIDE DEF r
  <2>2. i # jar.readIdx /\ Offset(jar.readIdx, i) < jar.count
    BY <1>1, <1>4, <2>1, OffsetTake DEF r
  <2> QED BY <1>4, <1>7, <2>1, <2>2 DEF LiveSlots, Jar
<1> QED BY <1>5, <1>7, <1>8, <1>9

-----------------------------------------------------------------------------
\* peer_xmit, from transmit() or from dns_take_server, when the worker is done.
LEMMA XmitInv ==
  ASSUME IInv, peer_xmit, keys' = keys,
         ~lookup \/ (ke.pc = "done" /\ ke.addrOK),
         ke' \in Worker, ke'.pc = "idle", ke'.todo = <<>>
  PROVE  IInv'
<1>1. CASE 0 < jar.count
  <2> DEFINE uid == CHOOSE u \in FreshUids : TRUE
             req == extens_client_send(jar, uid)
  <2>1. /\ uid \in Uids /\ uid \notin {m.uid : m \in net}
        /\ jar' = Take(jar, uid) /\ lookup' = FALSE /\ net' = Sent(req, net)
    BY <1>1 DEF peer_xmit, FreshUids
  <2> HIDE DEF uid
  <2>2. /\ jar' \in Jar /\ jar'.count = jar.count - 1 /\ jar'.UID = uid /\ jar'.sess = jar.sess
        /\ (jar'.readIdx + jar'.count) % NTS_MAX_COOKIES = jar'.writeIdx
        /\ jar.readIdx \in LiveSlots
        /\ \A i \in LiveOf(jar') :
             i \in LiveSlots /\ i # jar.readIdx /\ jar'.cookies[i] = jar.cookies[i]
    BY <1>1, <2>1, TakeRing DEF IInv, ShapeInv, TypeOK, RingConsistent, Jar
  <2>3. LiveSlots' = LiveOf(jar')
    BY DEF LiveSlots, LiveOf
  <2>4. jar.count \in 1 .. NTS_MAX_COOKIES /\ NTS_MAX_COOKIES \in Nat
    BY <1>1, JarAssumption DEF IInv, ShapeInv, TypeOK, Jar
  <2>5. /\ req \in Request /\ req.cookie = jar.cookies[jar.readIdx] /\ req.uid = uid
        /\ req.type = "req" /\ jar'.count + 1 + req.placeholders = NTS_MAX_COOKIES
    BY SMTT(30), <2>1, <2>2, <2>4 DEF extens_client_send, Request, IInv, ShapeInv, TypeOK, Jar
  <2> HIDE DEF req
  <2>6. net' \subseteq net \cup {req}
    BY <2>1 DEF Sent
  <2>7. Replies' \subseteq Replies /\ Requests' \subseteq Requests \cup {req}
    BY <2>5, <2>6 DEF Replies, Requests
  <2>8. ShapeInv'
    <3>1. \A m \in net' : m \in Request \/ m \in Reply
      BY <2>5, <2>6 DEF IInv, ShapeInv, TypeOK
    <3>2. TypeOK'
      BY ZenonT(30), <2>1, <2>2, <3>1 DEF IInv, ShapeInv, TypeOK
    <3>3. WorkerOwnsJar' /\ RingConsistent'
      BY <2>1, <2>2, <2>4 DEF WorkerOwnsJar, RingConsistent
    <3>4. \A i \in LiveSlots' : jar'.cookies[i] \in Cookie
      BY <2>2, <2>3 DEF IInv, ShapeInv
    <3> QED BY <3>2, <3>3, <3>4 DEF ShapeInv, IInv
  <2>9. DistinctInv'
    <3>1. \A i, k \in LiveSlots' : i # k => jar'.cookies[i].id # jar'.cookies[k].id
      BY <2>2, <2>3 DEF IInv, DistinctInv
    <3>2. \A m \in Requests', i \in LiveSlots' : m.cookie.id # jar'.cookies[i].id
      BY <2>2, <2>3, <2>5, <2>7 DEF IInv, DistinctInv
    <3>3. NewToJar(ke.todo)'
      BY DEF NewToJar
    <3>4. \A m \in Requests' : m.uid = jar'.UID =>
             jar'.count + 1 + m.placeholders = NTS_MAX_COOKIES
      BY <2>1, <2>2, <2>5, <2>7 DEF Requests
    <3>5. \A m \in Replies' : m.uid # jar'.UID
      BY <2>1, <2>2, <2>7 DEF Replies
    <3> QED BY <3>1, <3>2, <3>3, <3>4, <3>5 DEF DistinctInv
  <2>10. SessionInv'
    BY <2>2, <2>3, <2>7 DEF IInv, SessionInv
  <2> QED BY <2>8, <2>9, <2>10 DEF IInv
<1>2. CASE ~(0 < jar.count)
  <2>1. lookup' = TRUE /\ jar' = jar /\ net' = net
    BY <1>2 DEF peer_xmit, restart_nts_ke
  <2>2. ShapeInv'
    BY <2>1 DEF IInv, ShapeInv, TypeOK, WorkerOwnsJar, RingConsistent, LiveSlots
  <2>3. DistinctInv'
    BY <2>1 DEF IInv, DistinctInv, LiveSlots, Requests, Replies, NewToJar
  <2>4. SessionInv'
    BY <2>1 DEF IInv, SessionInv, LiveSlots, Replies
  <2> QED BY <2>2, <2>3, <2>4 DEF IInv
<1> QED BY <1>1, <1>2

\* An emptied jar is a jar without live slots.
LEMMA EmptiedJar ==
  ASSUME jar \in Jar, NEW n \in {-1, 0}, NEW k,
         \/ k = Emptied(jar, n)
         \/ k = [Emptied(jar, n) EXCEPT !.readIdx = 0, !.writeIdx = 0]
  PROVE  k \in Jar /\ k.count = n /\ LiveOf(k) = {} /\ k.sess = jar.sess
<1>1. NTS_MAX_COOKIES \in Nat \ {0} /\ 0 \in Slots /\ n \in -1 .. NTS_MAX_COOKIES
  BY JarAssumption DEF Slots
<1> DEFINE none == [i \in Slots |-> Stale]
<1>2. none \in [Slots -> Cookie \cup {Stale}]
  OBVIOUS
<1>3. Emptied(jar, n) = [jar EXCEPT !.count = n, !.cookies = none]
  BY DEF Emptied
<1> HIDE DEF none
<1>4. /\ Emptied(jar, n) \in Jar /\ Emptied(jar, n).count = n
      /\ Emptied(jar, n).sess = jar.sess
  BY ZenonT(30), <1>1, <1>2, <1>3 DEF Jar
<1>5. k \in Jar /\ k.count = n /\ k.sess = jar.sess
  BY ZenonT(30), <1>1, <1>4 DEF Jar
<1>6. \A i \in Slots : ~(Offset(k.readIdx, i) < k.count)
  <2> SUFFICES ASSUME NEW i \in Slots PROVE ~(Offset(k.readIdx, i) < k.count)
    OBVIOUS
  <2>1. Offset(k.readIdx, i) \in 0 .. NTS_MAX_COOKIES - 1
    BY <1>5, OffsetIs DEF Jar
  <2> QED BY <1>1, <1>5, <2>1
<1> QED BY <1>5, <1>6 DEF LiveOf

\* Steps of the worker that end with an empty jar, outside of the record loop.
LEMMA EmptyInv ==
  ASSUME IInv, lookup, lookup' = lookup, net' = net, keys' = keys,
         jar' \in Jar, jar'.count \in {-1, 0}, LiveOf(jar') = {},
         jar'.count = 0 => (jar'.readIdx + jar'.count) % NTS_MAX_COOKIES = jar'.writeIdx,
         ke' \in Worker, NewToJar(ke.todo)',
         \A i \in 1 .. Len(ke'.todo) : ke'.todo[i].sess = ke'.sess,
         ke'.pc = "records" => jar'.count = 0,
         ke'.pc # "records" => ke'.todo = <<>>,
         ke'.pc = "records" \/ ke'.pc = "connect" => ~ke'.addrOK
  PROVE  IInv'
<1>1. LiveSlots' = {}
  BY DEF LiveSlots, LiveOf
<1>2. ShapeInv'
  BY <1>1 DEF IInv, ShapeInv, TypeOK, WorkerOwnsJar, RingConsistent
<1>3. DistinctInv'
  BY <1>1 DEF IInv, DistinctInv, Requests, Replies
<1>4. SessionInv'
  BY <1>1 DEF IInv, SessionInv, Replies
<1> QED BY <1>2, <1>3, <1>4 DEF IInv

\* Steps that leave the association and its jar alone and add no packet.
LEMMA QuietInv ==
  ASSUME IInv, lookup' = lookup, jar' = jar, net' \subseteq net,
         keys' \in Seq(KeyIds), keys' # <<>>, ke' \in Worker, ke'.todo = ke.todo,
         ke'.pc # "records", ke.pc # "records",
         ke'.pc # "idle" => lookup, ke'.pc = "connect" => ~ke'.addrOK,
         ke'.pc = "done" /\ ke'.addrOK => ke.pc = "done" /\ ke.addrOK
  PROVE  IInv'
<1>1. LiveSlots' = LiveSlots /\ Requests' \subseteq Requests /\ Replies' \subseteq Replies
  BY DEF LiveSlots, Requests, Replies
<1>2. ShapeInv'
  BY <1>1 DEF IInv, ShapeInv, TypeOK, WorkerOwnsJar, RingConsistent
<1>3. DistinctInv'
  BY <1>1 DEF IInv, DistinctInv, NewToJar
<1>4. SessionInv'
  BY <1>1 DEF IInv, SessionInv, ShapeInv
<1> QED BY <1>2, <1>3, <1>4 DEF IInv

\* dns_probe starts the worker of an association that is out of the hash.
LEMMA ProbeInv == ASSUME IInv, dns_probe PROVE IInv'
<1>1. ke' \in Worker /\ ke'.todo = ke.todo /\ ke'.pc = "connect" /\ ke'.addrOK = FALSE
  BY ZenonT(30) DEF dns_probe, IInv, ShapeInv, TypeOK, Worker, KePcs
<1> QED BY <1>1, QuietInv DEF dns_probe, IInv, ShapeInv, TypeOK

\* nts_probe gives up before the response: the jar is left alone or emptied.
LEMMA ConnectFailsInv == ASSUME IInv, KeConnectFails PROVE IInv'
<1>1. /\ ke' \in Worker /\ ke'.todo = ke.todo /\ ke'.pc = "done" /\ ke'.addrOK = FALSE
      /\ ke.todo = <<>> /\ ke.pc = "connect"
  BY DEF KeConnectFails, IInv, ShapeInv, TypeOK, Worker, KePcs
<1>2. lookup /\ lookup' = lookup /\ net' = net /\ keys' = keys /\ keys \in Seq(KeyIds) /\ keys # <<>>
  BY <1>1 DEF KeConnectFails, IInv, ShapeInv, WorkerOwnsJar, TypeOK
<1>3. CASE jar' = jar
  BY <1>1, <1>2, <1>3, QuietInv
<1>4. CASE jar' = Emptied(jar, -1)
  <2>1. jar' \in Jar /\ jar'.count = -1 /\ LiveOf(jar') = {}
    BY <1>4, EmptiedJar DEF IInv, ShapeInv, TypeOK
  <2>2. NewToJar(ke.todo)'
    BY <1>1 DEF NewToJar
  <2> QED BY <1>1, <1>2, <2>1, <2>2, EmptyInv
<1> QED BY <1>3, <1>4 DEF KeConnectFails

\* The response of the NTS-KE server empties the jar and brings new cookies.
LEMMA ResponseInv ==
  ASSUME IInv, NEW n \in 0 .. NTS_MAX_COOKIES + 1, KeResponse(n)
  PROVE  IInv'
<1>1. PICK ids \in FreshIds(n), s \in {CHOOSE t \in FreshSessions : TRUE} :
        ke' = [ke EXCEPT !.pc = "records", !.todo = nts_make_cookie(ids, s), !.sess = s]
  BY ZenonT(30) DEF KeResponse
<1>2. s \in Sessions /\ n \in Nat /\ NTS_MAX_COOKIES \in Nat \ {0}
  BY JarAssumption DEF KeResponse, FreshSessions
<1> DEFINE cs == nts_make_cookie(ids, s)
<1>3. cs \in Seq(Cookie) /\ Len(cs) = n
  BY <1>2, MakeCookieType DEF IInv, ShapeInv, TypeOK
<1>4. /\ \A i \in 1 .. n : cs[i].sess = s /\ cs[i].id = ids[i] /\ ids[i] \in FreshNonces
      /\ \A i, k \in 1 .. n : i # k => ids[i] # ids[k]
  BY <1>2, FreshCookies DEF cs
<1> HIDE DEF cs
<1>5. /\ ke' \in Worker /\ ke'.todo = cs /\ ke'.pc = "records" /\ ke'.sess = s
      /\ ke'.addrOK = FALSE /\ ke.pc = "connect"
  BY ZenonT(30), <1>1, <1>2, <1>3 DEF KeResponse, IInv, ShapeInv, TypeOK, Worker, KePcs, cs
<1>6. lookup /\ lookup' = lookup /\ net' = net /\ keys' = keys
  BY <1>5 DEF KeResponse, IInv, ShapeInv, WorkerOwnsJar
<1>7. jar' = [Emptied(jar, 0) EXCEPT !.readIdx = 0, !.writeIdx = 0]
  BY DEF KeResponse
<1>8. jar' \in Jar /\ jar'.count = 0 /\ LiveOf(jar') = {}
  BY <1>7, EmptiedJar DEF IInv, ShapeInv, TypeOK
<1>9. (jar'.readIdx + jar'.count) % NTS_MAX_COOKIES = jar'.writeIdx
  <2>1. jar'.readIdx = 0 /\ jar'.writeIdx = 0
    BY <1>7 DEF Emptied, IInv, ShapeInv, TypeOK, Jar
  <2>2. (0 + 0) % NTS_MAX_COOKIES = 0
    BY <1>2, ModStep
  <2> QED BY <1>8, <2>1, <2>2
<1>10. NewToJar(ke.todo)'
  <2>1. LiveSlots' = {}
    BY <1>8 DEF LiveSlots, LiveOf
  <2>2. \A m \in Requests, a \in FreshNonces : a # m.cookie.id
    BY DEF Requests, FreshNonces, Around, InFlight, CookiesOf
  <2>3. Requests' = Requests
    BY <1>6 DEF Requests
  <2> QED BY <1>3, <1>4, <1>5, <2>1, <2>2, <2>3 DEF NewToJar
<1> QED BY <1>3, <1>4, <1>5, <1>6, <1>8, <1>9, <1>10, EmptyInv

\* nts_probe gives up in the middle of a response through its label bail.
LEMMA FailsInv == ASSUME IInv, KeFails PROVE IInv'
<1>1. /\ ke' \in Worker /\ ke'.todo = <<>> /\ ke'.pc = "done" /\ ke.pc = "records"
  <2>1. <<>> \in Seq(Cookie) /\ jar.sess \in Sessions
    BY DEF IInv, ShapeInv, TypeOK, Jar
  <2> QED BY ZenonT(30), <2>1 DEF KeFails, IInv, ShapeInv, TypeOK, Worker, KePcs
<1>2. lookup /\ lookup' = lookup /\ net' = net /\ keys' = keys
  BY <1>1 DEF KeFails, IInv, ShapeInv, WorkerOwnsJar
<1>3. jar' \in Jar /\ jar'.count = -1 /\ LiveOf(jar') = {}
  BY EmptiedJar DEF KeFails, IInv, ShapeInv, TypeOK
<1>4. NewToJar(ke.todo)'
  BY <1>1 DEF NewToJar
<1> QED BY <1>1, <1>2, <1>3, <1>4, EmptyInv

\* Storing cookies that are new to the jar keeps its cookies distinct.
LEMMA StoreDistinct ==
  ASSUME ShapeInv, DistinctInv, 0 <= jar.count, NEW cs \in Seq(Cookie), NewToJar(cs),
         jar' = StoreCookies(jar, cs)
  PROVE  /\ \A i \in LiveSlots' : jar'.cookies[i] \in Cookie
         /\ \A i, k \in LiveSlots' : i # k => jar'.cookies[i].id # jar'.cookies[k].id
         /\ \A m \in Requests, i \in LiveSlots' : m.cookie.id # jar'.cookies[i].id
<1> DEFINE at(i) == Offset(jar.writeIdx, i)
<1>1. \A i \in LiveSlots' :
         \/ i \in LiveSlots /\ jar'.cookies[i] = jar.cookies[i]
         \/ at(i) + 1 \in 1 .. Len(cs) /\ jar'.cookies[i] = cs[at(i) + 1]
  <2>1. LiveSlots' = LiveOf(jar')
    BY DEF LiveSlots, LiveOf
  <2> QED BY <2>1, StoreRing DEF ShapeInv, TypeOK, RingConsistent
<1>2. \A i, k \in Slots : i # k => at(i) + 1 # at(k) + 1
  <2> SUFFICES ASSUME NEW i \in Slots, NEW k \in Slots, i # k PROVE at(i) + 1 # at(k) + 1
    OBVIOUS
  <2>1. jar.writeIdx \in Slots
    BY DEF ShapeInv, TypeOK, Jar
  <2>2. at(i) # at(k)
    BY <2>1, OffsetInjective
  <2>3. at(i) \in 0 .. NTS_MAX_COOKIES - 1 /\ at(k) \in 0 .. NTS_MAX_COOKIES - 1
    BY SMTT(30), <2>1, OffsetIs
  <2>4. NTS_MAX_COOKIES \in Nat
    BY JarAssumption
  <2> HIDE DEF at
  <2> QED BY <2>2, <2>3, <2>4
<1> HIDE DEF at
<1>3. LiveSlots' \subseteq Slots
  BY DEF LiveSlots
<1>4. \A i \in LiveSlots' : jar'.cookies[i] \in Cookie
  BY <1>1 DEF ShapeInv
<1>5. ASSUME NEW i \in LiveSlots', NEW k \in LiveSlots', i # k
      PROVE  jar'.cookies[i].id # jar'.cookies[k].id
  <2>1. at(i) + 1 # at(k) + 1
    BY <1>2, <1>3, <1>5
  <2> QED BY SMTT(30), <1>1, <1>5, <2>1 DEF NewToJar, DistinctInv
<1>6. \A m \in Requests, i \in LiveSlots' : m.cookie.id # jar'.cookies[i].id
  BY <1>1 DEF NewToJar, DistinctInv
<1> QED BY <1>4, <1>5, <1>6

\* The worker stores one cookie of the response.
LEMMA CookieInv == ASSUME IInv, KeCookie PROVE IInv'
<1> DEFINE cs == <<Head(ke.todo)>>
<1>1. /\ ke.pc = "records" /\ ke.todo # <<>> /\ jar' = StoreCookies(jar, cs)
      /\ ke' = [ke EXCEPT !.todo = Tail(ke.todo)]
      /\ lookup' = lookup /\ net' = net /\ keys' = keys
  BY DEF KeCookie
<1>2. lookup /\ 0 <= jar.count /\ ke.todo \in Seq(Cookie)
  BY <1>1 DEF IInv, ShapeInv, WorkerOwnsJar, TypeOK, Worker
<1>3. cs \in Seq(Cookie) /\ Len(cs) = 1 /\ cs[1] = ke.todo[1] /\ ke.todo[1] \in Cookie
  BY <1>1, <1>2
<1>4. /\ Tail(ke.todo) \in Seq(Cookie) /\ Len(Tail(ke.todo)) = Len(ke.todo) - 1
      /\ \A i \in 1 .. Len(ke.todo) - 1 : Tail(ke.todo)[i] = ke.todo[i + 1]
      /\ Len(ke.todo) \in Nat \ {0}
  BY SMTT(30), <1>1, <1>2
<1> HIDE DEF cs
<1>5. NewToJar(cs)
  BY <1>3, <1>4 DEF NewToJar, IInv, DistinctInv
<1>6. /\ ke' \in Worker /\ ke'.todo = Tail(ke.todo) /\ ke'.pc = "records" /\ ke'.sess = ke.sess
      /\ ke'.addrOK = ke.addrOK
  BY ZenonT(30), <1>1, <1>4 DEF IInv, ShapeInv, TypeOK, Worker
<1>7. /\ jar' \in Jar /\ jar'.count >= 0
      /\ (jar'.readIdx + jar'.count) % NTS_MAX_COOKIES = jar'.writeIdx
      /\ \A i \in LiveOf(jar') :
           \/ i \in LiveSlots /\ jar'.cookies[i] = jar.cookies[i]
           \/ jar'.cookies[i] = cs[1]
  <2>1. jar \in Jar /\ (jar.readIdx + jar.count) % NTS_MAX_COOKIES = jar.writeIdx
    BY <1>2 DEF IInv, ShapeInv, TypeOK, RingConsistent
  <2>2. jar.count \in 0 .. NTS_MAX_COOKIES /\ NTS_MAX_COOKIES \in Nat
    BY <1>2, <2>1, JarAssumption DEF Jar
  <2>3. /\ jar' \in Jar
        /\ jar'.count = IF 1 <= NTS_MAX_COOKIES - jar.count THEN jar.count + 1 ELSE NTS_MAX_COOKIES
        /\ (jar'.readIdx + jar'.count) % NTS_MAX_COOKIES = jar'.writeIdx
        /\ \A i \in LiveOf(jar') :
              \/ i \in LiveSlots /\ jar'.cookies[i] = jar.cookies[i]
              \/ /\ Offset(jar.writeIdx, i) + 1 \in 1 .. Len(cs)
                 /\ jar'.cookies[i] = cs[Offset(jar.writeIdx, i) + 1]
    BY ZenonT(30), <1>1, <1>2, <1>3, <2>1, StoreRing
  <2>4. \A x \in 1 .. 1 : x = 1
    OBVIOUS
  <2> QED BY <1>3, <2>2, <2>3, <2>4
<1>8. LiveSlots' = LiveOf(jar')
  BY DEF LiveSlots, LiveOf
<1>9. /\ \A i \in LiveSlots' : jar'.cookies[i] \in Cookie
      /\ \A i, k \in LiveSlots' : i # k => jar'.cookies[i].id # jar'.cookies[k].id
      /\ \A m \in Requests, i \in LiveSlots' : m.cookie.id # jar'.cookies[i].id
  BY <1>1, <1>2, <1>3, <1>5, StoreDistinct DEF IInv
<1>10. NewToJar(ke.todo)'
  <2> DEFINE ts == Tail(ke.todo)
  <2>1. \A i \in 1 .. Len(ts) : i + 1 \in 1 .. Len(ke.todo) /\ ts[i] = ke.todo[i + 1] /\ i + 1 # 1
    BY <1>4
  <2>2. Requests' = Requests /\ ke'.todo = ts
    BY <1>1, <1>6 DEF Requests
  <2>3. 1 \in 1 .. Len(ke.todo)
    BY <1>4
  <2> HIDE DEF ts
  <2>4. ASSUME NEW i \in 1 .. Len(ts), NEW k \in 1 .. Len(ts), i # k PROVE ts[i].id # ts[k].id
    <3>1. \A a, b \in 1 .. Len(ke.todo) : a # b => ke.todo[a].id # ke.todo[b].id
      BY DEF IInv, DistinctInv, NewToJar
    <3>2. i + 1 # k + 1
      BY <2>4
    <3>3. /\ i + 1 \in 1 .. Len(ke.todo) /\ k + 1 \in 1 .. Len(ke.todo)
          /\ ts[i] = ke.todo[i + 1] /\ ts[k] = ke.todo[k + 1]
      BY <2>1, <2>4
    <3> QED BY <3>1, <3>2, <3>3
  <2>5. ASSUME NEW i \in 1 .. Len(ts), NEW k \in LiveSlots' PROVE ts[i].id # jar'.cookies[k].id
    <3>1. /\ \A a, b \in 1 .. Len(ke.todo) : a # b => ke.todo[a].id # ke.todo[b].id
          /\ \A a \in 1 .. Len(ke.todo), b \in LiveSlots : ke.todo[a].id # jar.cookies[b].id
      BY DEF IInv, DistinctInv, NewToJar
    <3>2. i + 1 \in 1 .. Len(ke.todo) /\ ts[i] = ke.todo[i + 1] /\ i + 1 # 1
      BY <2>1
    <3>3. CASE k \in LiveSlots /\ jar'.cookies[k] = jar.cookies[k]
      BY <3>1, <3>2, <3>3
    <3>4. CASE jar'.cookies[k] = ke.todo[1]
      BY <2>3, <3>1, <3>2, <3>4
    <3> QED BY <1>3, <1>7, <1>8, <3>3, <3>4
  <2>6. ASSUME NEW i \in 1 .. Len(ts), NEW m \in Requests PROVE ts[i].id # m.cookie.id
    <3>1. \A a \in 1 .. Len(ke.todo), q \in Requests : ke.todo[a].id # q.cookie.id
      BY DEF IInv, DistinctInv, NewToJar
    <3> QED BY <2>1, <3>1
  <2> QED BY <2>2, <2>4, <2>5, <2>6 DEF NewToJar
<1>11. ShapeInv'
  BY <1>1, <1>2, <1>6, <1>7, <1>9 DEF IInv, ShapeInv, TypeOK, WorkerOwnsJar, RingConsistent
<1>12. DistinctInv'
  <2>1. Requests' = Requests
    BY <1>1 DEF Requests
  <2> QED BY <1>1, <1>2, <1>9, <1>10, <2>1 DEF DistinctInv
<1>13. SessionInv'
  <2>1. Replies' = Replies /\ ke.todo[1].sess = ke.sess
    BY <1>1, <1>4 DEF Replies, IInv, SessionInv
  <2>2. \A i \in 1 .. Len(ke'.todo) : ke'.todo[i].sess = ke'.sess
    BY <1>4, <1>6 DEF IInv, SessionInv
  <2> QED BY SMTT(30), <1>1, <1>2, <1>3, <1>6, <1>7, <1>8, <2>1, <2>2 DEF IInv, SessionInv
<1> QED BY <1>11, <1>12, <1>13 DEF IInv

\* The worker exports the keys of the session whose cookies it stored.
LEMMA SucceedsInv == ASSUME IInv, KeSucceeds PROVE IInv'
<1>1. /\ ke' \in Worker /\ ke'.todo = <<>> /\ ke.todo = <<>> /\ ke'.pc = "done" /\ ke.pc = "records"
      /\ lookup' = lookup /\ net' = net /\ keys' = keys
  BY ZenonT(30) DEF KeSucceeds, IInv, ShapeInv, TypeOK, Worker, KePcs
<1>2. lookup /\ ke.sess \in Sessions
  BY <1>1 DEF IInv, ShapeInv, WorkerOwnsJar, TypeOK, Worker
<1>3. /\ jar' \in Jar /\ jar'.sess = ke.sess /\ jar'.count = jar.count /\ jar'.UID = jar.UID
      /\ jar'.readIdx = jar.readIdx /\ jar'.writeIdx = jar.writeIdx /\ jar'.cookies = jar.cookies
  BY <1>2 DEF KeSucceeds, IInv, ShapeInv, TypeOK, Jar
<1>4. LiveSlots' = LiveSlots /\ Requests' = Requests /\ Replies' = Replies
  BY <1>1, <1>3 DEF LiveSlots, Requests, Replies
<1>5. ShapeInv'
  BY <1>1, <1>2, <1>3, <1>4 DEF IInv, ShapeInv, TypeOK, WorkerOwnsJar, RingConsistent
<1>6. DistinctInv'
  BY <1>1, <1>2, <1>3, <1>4 DEF IInv, DistinctInv, NewToJar
<1>7. SessionInv'
  BY <1>1, <1>2, <1>3, <1>4 DEF IInv, SessionInv
<1> QED BY <1>5, <1>6, <1>7 DEF IInv

\* transmit() of an association in service.
LEMMA PollInv == ASSUME IInv, Poll PROVE IInv'
<1>1. ke' = ke /\ ke.pc = "idle" /\ ke.todo = <<>> /\ ke \in Worker
  BY DEF Poll, IInv, ShapeInv, WorkerOwnsJar, TypeOK
<1> QED BY <1>1, XmitInv DEF Poll

\* nts_check takes the worker's result back into the main loop.
LEMMA CheckInv == ASSUME IInv, nts_check PROVE IInv'
<1>1. /\ ke' \in Worker /\ ke'.pc = "idle" /\ ke'.todo = <<>> /\ ke.todo = <<>> /\ ke.pc = "done"
      /\ keys' = keys /\ keys \in Seq(KeyIds) /\ keys # <<>>
  BY DEF nts_check, IInv, ShapeInv, TypeOK, Worker, KePcs
<1>2. CASE ke.addrOK /\ peer_xmit
  BY <1>1, <1>2, XmitInv
<1>3. CASE UNCHANGED <<lookup, jar, net>>
  BY <1>1, <1>3, QuietInv
<1> QED BY <1>2, <1>3 DEF nts_check

\* ke.pc = "records" is not excluded here: packets come and go meanwhile.
LEMMA NetInv ==
  ASSUME IInv, lookup' = lookup, jar' = jar, ke' = ke, net' \subseteq net,
         keys' \in Seq(KeyIds), keys' # <<>>
  PROVE  IInv'
<1>1. LiveSlots' = LiveSlots /\ Requests' \subseteq Requests /\ Replies' \subseteq Replies
  BY DEF LiveSlots, Requests, Replies
<1>2. ShapeInv'
  BY SMTT(30), <1>1 DEF IInv, ShapeInv, TypeOK, WorkerOwnsJar, RingConsistent
<1>3. DistinctInv'
  BY <1>1 DEF IInv, DistinctInv, NewToJar
<1>4. SessionInv'
  BY <1>1 DEF IInv, SessionInv
<1> QED BY <1>2, <1>3, <1>4 DEF IInv

\* A packet is lost.
LEMMA LoseInv == ASSUME IInv, Lose PROVE IInv'
BY NetInv DEF Lose, IInv, ShapeInv, TypeOK

\* nts_make_cookie_key leaves at least the new key.
LEMMA RotateInv == ASSUME IInv, Rotate PROVE IInv'
<1> DEFINE k == CHOOSE x \in FreshKeys : TRUE
           new == <<k>> \o keys
           n == IF Len(new) <= NTS_nKEYS THEN Len(new) ELSE NTS_nKEYS
<1>1. k \in KeyIds /\ keys \in Seq(KeyIds)
  BY DEF Rotate, FreshKeys, IInv, ShapeInv, TypeOK
<1> HIDE DEF k
<1>2. new \in Seq(KeyIds) /\ Len(new) = Len(keys) + 1 /\ Len(keys) \in Nat
  BY <1>1
<1>3. n \in 1 .. Len(new)
  BY <1>2, KeysAssumption
<1>4. keys' = SubSeq(new, 1, n)
  BY DEF Rotate, k
<1> HIDE DEF new, n
<1>5. keys' \in Seq(KeyIds) /\ Len(keys') = n
  BY <1>2, <1>3, <1>4
<1>6. keys' # <<>>
  BY <1>3, <1>5
<1> QED BY SMTT(30), <1>5, <1>6, NetInv DEF Rotate

\* The server's reply brings cookies that are nowhere else.
LEMMA ServerInv == ASSUME IInv, ServerReply PROVE IInv'
<1>1. PICK m \in net :
        /\ m.type = "req" /\ m.cookie.sess = m.sess
        /\ \E ids \in FreshIds(1 + m.placeholders), rest \in {net, net \ {m}} :
             net' = Sent([type |-> "rep", uid |-> m.uid, sess |-> m.cookie.sess,
                          cookies |-> nts_make_cookie(ids, m.cookie.sess)], rest)
        /\ UNCHANGED <<lookup, jar, ke, keys>>
  BY ZenonT(30) DEF ServerReply
<1>2. PICK ids \in FreshIds(1 + m.placeholders), rest \in {net, net \ {m}} :
        net' = Sent([type |-> "rep", uid |-> m.uid, sess |-> m.cookie.sess,
                     cookies |-> nts_make_cookie(ids, m.cookie.sess)], rest)
  BY <1>1
<1> DEFINE n == 1 + m.placeholders
           cs == nts_make_cookie(ids, m.sess)
           rep == [type |-> "rep", uid |-> m.uid, sess |-> m.sess, cookies |-> cs]
<1>3. m \in Request /\ m \in Requests
  BY <1>1 DEF IInv, ShapeInv, TypeOK, Reply, Requests
<1>4. n \in Nat /\ m.sess \in Sessions /\ m.uid \in Uids
  BY <1>3, JarAssumption DEF Request
<1>5. cs \in Seq(Cookie) /\ Len(cs) = n
  BY <1>4, MakeCookieType DEF IInv, ShapeInv, TypeOK
<1>6. /\ \A i \in 1 .. n : cs[i].sess = m.sess /\ cs[i].id = ids[i] /\ ids[i] \in FreshNonces
      /\ \A i, k \in 1 .. n : i # k => ids[i] # ids[k]
  BY <1>4, FreshCookies
<1> HIDE DEF cs, n
<1>7. rep \in Reply
  BY <1>4, <1>5 DEF Reply
<1>8. net' \subseteq net \cup {rep}
  BY <1>1, <1>2 DEF Sent, cs
<1>9. NewToJar(cs)
  <2>1. \A q \in Requests, a \in FreshNonces : a # q.cookie.id
    BY DEF Requests, FreshNonces, Around, InFlight, CookiesOf
  <2>2. \A i \in LiveSlots, a \in FreshNonces : a # jar.cookies[i].id
    <3> SUFFICES ASSUME NEW i \in LiveSlots PROVE jar.cookies[i].id \notin FreshNonces
      OBVIOUS
    <3>1. jar.cookies[i] \in Around
      <4>1. jar.cookies[i] \in Live
        BY DEF Live
      <4> QED BY <4>1 DEF Around
    <3> QED BY <3>1 DEF FreshNonces
  <2> QED BY <1>5, <1>6, <2>1, <2>2 DEF NewToJar
<1>10. /\ LiveSlots' = LiveSlots /\ Requests' \subseteq Requests
       /\ Replies' \subseteq Replies \cup {rep}
  BY SMTT(30), <1>1, <1>8 DEF LiveSlots, Requests, Replies
<1> HIDE DEF rep
<1>11. ShapeInv'
  BY SMTT(30), <1>1, <1>7, <1>8, <1>10 DEF IInv, ShapeInv, TypeOK, WorkerOwnsJar, RingConsistent
<1>13. DistinctInv'
  <2>1. rep.uid = m.uid /\ rep.cookies = cs /\ Len(rep.cookies) = 1 + m.placeholders
    BY <1>5 DEF rep, n
  <2>2. \A q \in Replies' : q.uid = jar'.UID /\ ~lookup' =>
           \/ jar'.count = NTS_MAX_COOKIES
           \/ jar'.count + Len(q.cookies) = NTS_MAX_COOKIES /\ NewToJar(q.cookies)
    <3> SUFFICES ASSUME NEW q \in Replies', q.uid = jar.UID, ~lookup
                 PROVE  \/ jar.count = NTS_MAX_COOKIES
                        \/ jar.count + Len(q.cookies) = NTS_MAX_COOKIES /\ NewToJar(q.cookies)
      BY <1>1
    <3>1. CASE q \in Replies
      BY <3>1 DEF IInv, DistinctInv
    <3>2. CASE q = rep
      <4>1. \/ jar.count = NTS_MAX_COOKIES
            \/ jar.count + 1 + m.placeholders = NTS_MAX_COOKIES
        BY <1>3, <2>1, <3>2 DEF IInv, DistinctInv
      <4>2. jar.count \in Int /\ m.placeholders \in Int
        BY SMTT(30), <1>3, JarAssumption DEF IInv, ShapeInv, TypeOK, Jar, Request
      <4> QED BY SMTT(30), <1>9, <2>1, <3>2, <4>1, <4>2
    <3> QED BY SMTT(30), <1>10, <3>1, <3>2
  <2>3. NewToJar(ke.todo)'
    BY SMTT(30), <1>1, <1>10 DEF NewToJar, IInv, DistinctInv
  <2>4. /\ \A i, k \in LiveSlots' : i # k => jar'.cookies[i].id # jar'.cookies[k].id
        /\ \A q \in Requests', i \in LiveSlots' : q.cookie.id # jar'.cookies[i].id
        /\ ~lookup' => \A q \in Requests' : q.uid = jar'.UID =>
              \/ jar'.count = NTS_MAX_COOKIES
              \/ jar'.count + 1 + q.placeholders = NTS_MAX_COOKIES
    BY SMTT(30), <1>1, <1>10 DEF IInv, DistinctInv
  <2>5. ~lookup' => \A q \in Replies' : q.uid = jar'.UID =>
           \/ jar'.count = NTS_MAX_COOKIES
           \/ jar'.count + Len(q.cookies) = NTS_MAX_COOKIES /\ NewToJar(q.cookies)'
    BY SMTT(30), <1>1, <1>10, <2>2 DEF NewToJar
  <2> QED BY <2>3, <2>4, <2>5 DEF DistinctInv
<1>14. SessionInv'
  <2>1. rep.sess = m.sess /\ rep.cookies = cs /\ Len(cs) = n
    BY <1>5 DEF rep
  <2> QED BY <1>1, <1>6, <1>10, <2>1 DEF IInv, SessionInv
<1> QED BY <1>11, <1>13, <1>14 DEF IInv

\* extens_client_recv only stores the cookies of the latest request's reply.
LEMMA ReceiveInv == ASSUME IInv, ClientRecv PROVE IInv'
<1>1. PICK m \in net :
        /\ m.type = "rep"
        /\ net' \in {net, net \ {m}}
        /\ jar' = IF ~lookup /\ m.uid = jar.UID /\ m.sess = jar.sess
                  THEN StoreCookies(jar, m.cookies) ELSE jar
        /\ UNCHANGED <<lookup, ke, keys>>
  BY SMTT(30) DEF ClientRecv
<1>2. CASE jar' = jar
  BY <1>1, <1>2, NetInv DEF IInv, ShapeInv, TypeOK
<1>3. CASE ~lookup /\ m.uid = jar.UID /\ m.sess = jar.sess /\ jar' # jar
  <2> DEFINE cs == m.cookies
  <2>1. m \in Reply /\ m \in Replies /\ cs \in Seq(Cookie)
    BY <1>1 DEF IInv, ShapeInv, TypeOK, Request, Reply, Replies
  <2>2. /\ jar \in Jar /\ jar.count \in 0 .. NTS_MAX_COOKIES /\ NTS_MAX_COOKIES \in Nat \ {0}
        /\ (jar.readIdx + jar.count) % NTS_MAX_COOKIES = jar.writeIdx
        /\ ke.pc = "idle" /\ ke.todo = <<>>
    BY <1>3, JarAssumption DEF IInv, ShapeInv, TypeOK, RingConsistent, WorkerOwnsJar, Jar
  <2>3. jar' = StoreCookies(jar, cs)
    BY SMTT(30), <1>1, <1>3
  <2>4. /\ jar' \in Jar /\ jar'.UID = jar.UID /\ jar'.sess = jar.sess
        /\ jar'.count = IF Len(cs) <= NTS_MAX_COOKIES - jar.count THEN jar.count + Len(cs)
                        ELSE NTS_MAX_COOKIES
        /\ (jar'.readIdx + jar'.count) % NTS_MAX_COOKIES = jar'.writeIdx
        /\ \A i \in LiveOf(jar') :
             \/ i \in LiveSlots /\ jar'.cookies[i] = jar.cookies[i]
             \/ /\ Offset(jar.writeIdx, i) + 1 \in 1 .. Len(cs)
                /\ jar'.cookies[i] = cs[Offset(jar.writeIdx, i) + 1]
    BY <2>1, <2>2, <2>3, StoreRing
  <2>5. Len(cs) \in Nat
    BY <2>1
  <2>6. \/ jar.count = NTS_MAX_COOKIES
        \/ jar.count + Len(cs) = NTS_MAX_COOKIES /\ NewToJar(cs)
    BY <1>3, <2>1 DEF IInv, DistinctInv
  <2>7. jar'.count = NTS_MAX_COOKIES
    BY <2>2, <2>4, <2>5, <2>6
  <2>8. LiveSlots' = LiveOf(jar') /\ Requests' \subseteq Requests /\ Replies' \subseteq Replies
    BY <1>1 DEF LiveSlots, LiveOf, Requests, Replies
  <2>9. /\ \A i \in LiveSlots' : jar'.cookies[i] \in Cookie
        /\ \A i, k \in LiveSlots' : i # k => jar'.cookies[i].id # jar'.cookies[k].id
        /\ \A q \in Requests, i \in LiveSlots' : q.cookie.id # jar'.cookies[i].id
    <3>1. CASE NewToJar(cs)
      BY SMTT(30), <2>1, <2>2, <2>3, <3>1, StoreDistinct DEF IInv
    <3>2. CASE jar.count = NTS_MAX_COOKIES
      <4>1. \A i \in LiveSlots' : i \in LiveSlots
        <5> SUFFICES ASSUME NEW i \in Slots PROVE Offset(jar.readIdx, i) < jar.count
          BY DEF LiveSlots
        <5>1. Offset(jar.readIdx, i) \in 0 .. NTS_MAX_COOKIES - 1
          BY <2>2, OffsetIs DEF Jar
        <5> QED BY <2>2, <3>2, <5>1
      <4>2. \A i \in Slots : jar'.cookies[i] = jar.cookies[i]
        <5> SUFFICES ASSUME NEW i \in Slots PROVE jar'.cookies[i] = jar.cookies[i]
          OBVIOUS
        <5> DEFINE n == IF Len(cs) <= NTS_MAX_COOKIES - jar.count THEN Len(cs)
                        ELSE NTS_MAX_COOKIES - jar.count
                   at(x) == Offset(jar.writeIdx, x)
                   slots == [x \in Slots |-> IF at(x) < n THEN cs[at(x) + 1] ELSE jar.cookies[x]]
        <5>1. n = 0
          BY <2>2, <2>5, <3>2
        <5>2. at(i) \in 0 .. NTS_MAX_COOKIES - 1
          BY <2>2, OffsetIs DEF Jar
        <5>3. slots[i] = jar.cookies[i]
          <6> HIDE DEF n, at
          <6> QED BY <2>2, <5>1, <5>2
        <5>4. jar'.cookies = slots
          BY <2>2, <2>3 DEF StoreCookies, Jar
        <5> QED BY <5>3, <5>4
      <4>3. LiveSlots' \subseteq Slots
        BY SMTT(30) DEF LiveSlots
      <4> QED BY <4>1, <4>2, <4>3 DEF IInv, ShapeInv, DistinctInv
    <3> QED BY SMTT(30), <2>6, <3>1, <3>2
  <2>10. ShapeInv'
    BY SMTT(30), <1>1, <2>2, <2>4, <2>7, <2>9 DEF IInv, ShapeInv, TypeOK, WorkerOwnsJar, RingConsistent
  <2>11. DistinctInv'
    <3>1. NewToJar(ke.todo)'
      BY SMTT(30), <1>1, <2>2 DEF NewToJar
    <3> QED BY <1>1, <2>7, <2>8, <2>9, <3>1 DEF DistinctInv
  <2>12. SessionInv'
    <3>1. \A i \in LiveSlots' : jar'.cookies[i].sess = jar.sess
      BY <1>3, <2>1, <2>4, <2>8 DEF IInv, SessionInv
    <3> QED BY SMTT(30), <1>1, <2>2, <2>4, <2>8, <3>1 DEF IInv, SessionInv
  <2> QED BY <2>10, <2>11, <2>12 DEF IInv
<1> QED BY <1>1, <1>2, <1>3

\* newpeer establishes the invariant.
LEMMA InitInv == ASSUME Init PROVE IInv
<1>1. PICK c \in {CHOOSE c \in Cookie : TRUE}, u \in {CHOOSE u \in Uids : TRUE} :
        /\ jar = [readIdx |-> 0, writeIdx |-> 0, count |-> -1,
                  cookies |-> [i \in Slots |-> Stale], UID |-> u, sess |-> c.sess]
        /\ keys = <<c.key>>
        /\ ke = [pc |-> "idle", todo |-> <<>>, sess |-> c.sess, addrOK |-> FALSE]
  BY ZenonT(30) DEF Init
<1>2. c \in Cookie /\ u \in Uids
  <2>1. \E d : d \in Cookie
    <3>1. PICK n, s, k : n \in Nonces /\ s \in Sessions /\ k \in KeyIds
      BY NamesAssumption, KeysAssumption
    <3>2. [id |-> n, sess |-> s, key |-> k] \in Cookie
      BY <3>1 DEF Cookie
    <3> QED BY <3>2
  <2> QED BY <2>1, NamesAssumption
<1>3. c.sess \in Sessions /\ c.key \in KeyIds
  BY <1>2 DEF Cookie
<1>4. 0 \in Slots /\ -1 \in -1 .. NTS_MAX_COOKIES /\ NTS_MAX_COOKIES \in Nat \ {0}
  BY JarAssumption DEF Slots
<1>5. jar \in Jar /\ jar.count = -1
  BY <1>1, <1>2, <1>3, <1>4 DEF Jar
<1>6. ke \in Worker /\ ke.todo = <<>> /\ ke.pc = "idle"
  BY <1>1, <1>3 DEF Worker, KePcs
<1>7. keys \in Seq(KeyIds) /\ keys # <<>>
  BY <1>1, <1>3
<1>8. LiveSlots = {}
  <2> SUFFICES ASSUME NEW i \in Slots PROVE ~(Offset(jar.readIdx, i) < jar.count)
    BY DEF LiveSlots
  <2>1. Offset(jar.readIdx, i) \in 0 .. NTS_MAX_COOKIES - 1
    BY <1>5, OffsetIs DEF Jar
  <2> QED BY <1>4, <1>5, <2>1
<1>9. net = {} /\ lookup = TRUE
  BY DEF Init
<1>10. ShapeInv
  BY SMTT(30), <1>5, <1>6, <1>7, <1>8, <1>9 DEF ShapeInv, TypeOK, WorkerOwnsJar, RingConsistent
<1>11. DistinctInv
  BY <1>6, <1>8, <1>9 DEF DistinctInv, Requests, Replies, NewToJar
<1>12. SessionInv
  BY <1>6, <1>8, <1>9 DEF SessionInv, Replies
<1> QED BY <1>10, <1>11, <1>12 DEF IInv

\* Every step preserves the invariant.
LEMMA NextInv == ASSUME IInv, [Next]_vars PROVE IInv'
<1>1. CASE UNCHANGED vars
  BY <1>1, NetInv DEF vars, IInv, ShapeInv, TypeOK
<1>2. CASE Next
  BY <1>2, PollInv, ProbeInv, CheckInv, ResponseInv, ConnectFailsInv, CookieInv, FailsInv,
     SucceedsInv, ServerInv, ReceiveInv, LoseInv, RotateInv DEF Next
<1> QED BY SMTT(30), <1>1, <1>2

\* The inductive invariant holds in every reachable state, for any ring size.
THEOREM Invariance == Spec => []IInv
<1>1. Init => IInv
  BY InitInv
<1>2. IInv /\ [Next]_vars => IInv'
  BY NextInv
<1> QED BY <1>1, <1>2, PTL DEF Spec

\* The variables keep their types: every packet that is sent carries a real
\* cookie, and the ring's indices and count stay within its bounds.
THEOREM TypeCorrect == Spec => []TypeOK
<1>1. IInv => TypeOK
  BY DEF IInv, ShapeInv
<1> QED BY <1>1, Invariance, PTL

\* The main loop and the key-exchange worker never share the jar.
THEOREM JarOwnership == Spec => []WorkerOwnsJar
<1>1. IInv => WorkerOwnsJar
  BY DEF IInv, ShapeInv
<1> QED BY <1>1, Invariance, PTL

\* readIdx, writeIdx and count always agree.
THEOREM RingStaysConsistent == Spec => []RingConsistent
<1>1. IInv => RingConsistent
  BY DEF IInv, ShapeInv
<1> QED BY <1>1, Invariance, PTL

\* No cookie is ever used twice, whatever the network duplicates or delays.
THEOREM CookiesUsedOnce == Spec => []NoCookieReuse
<1>1. IInv => NoCookieReuse
  <2> SUFFICES ASSUME IInv PROVE NoCookieReuse
    OBVIOUS
  <2>1. Stale \notin Live
    BY StaleAssumption DEF IInv, ShapeInv, Live
  <2>2. \A m \in net : m.type = "req" => m.cookie \notin Live
    BY DEF IInv, DistinctInv, Requests, Live
  <2> QED BY <2>1, <2>2 DEF NoCookieReuse, IInv, DistinctInv
<1> QED BY <1>1, Invariance, PTL

\* Only cookies of the current session are ever used.
THEOREM SessionsNotMixed == Spec => []JarMatchesSession
<1>1. IInv => JarMatchesSession
  BY DEF IInv, SessionInv, JarMatchesSession, Live
<1> QED BY <1>1, Invariance, PTL

\* An accepted reply always fills the jar: no request asks for too few cookies
\* and no reply to the latest request is cut short.
THEOREM RepliesFill == Spec => ReplyFillsJar
<1> DEFINE P == ~lookup /\ jar'.count > jar.count => jar'.count = NTS_MAX_COOKIES
<1>1. ASSUME IInv, Next PROVE P
  <2> SUFFICES ASSUME ~lookup, jar'.count > jar.count PROVE jar'.count = NTS_MAX_COOKIES
    OBVIOUS
  <2>1. /\ ke.pc = "idle" /\ jar \in Jar /\ jar.count \in 0 .. NTS_MAX_COOKIES
        /\ NTS_MAX_COOKIES \in Nat \ {0}
        /\ (jar.readIdx + jar.count) % NTS_MAX_COOKIES = jar.writeIdx
    BY <1>1, JarAssumption DEF IInv, ShapeInv, TypeOK, Jar, WorkerOwnsJar, RingConsistent
  <2>2. ASSUME jar' = jar PROVE FALSE
    BY <2>1, <2>2
  <2>3. CASE Poll
    <3> DEFINE uid == CHOOSE u \in FreshUids : TRUE
    <3>1. CASE 0 < jar.count
      <4>1. uid \in Uids /\ jar' = Take(jar, uid)
        BY <2>3, <3>1 DEF Poll, peer_xmit, FreshUids
      <4>2. jar'.count = jar.count - 1
        BY <2>1, <3>1, <4>1, TakeRing
      <4> QED BY <2>1, <4>2
    <3>2. CASE ~(0 < jar.count)
      BY <2>2, <2>3, <3>2 DEF Poll, peer_xmit, restart_nts_ke
    <3> QED BY <3>1, <3>2
  <2>4. CASE ClientRecv
    <3>1. PICK m \in net :
            /\ m.type = "rep" /\ m.uid = jar.UID /\ jar' = StoreCookies(jar, m.cookies)
      BY <2>2, <2>4 DEF ClientRecv
    <3>2. m \in Replies /\ m.cookies \in Seq(Cookie) /\ Len(m.cookies) \in Nat
      BY <1>1, <3>1 DEF IInv, ShapeInv, TypeOK, Request, Reply, Replies
    <3>3. \/ jar.count = NTS_MAX_COOKIES
          \/ jar.count + Len(m.cookies) = NTS_MAX_COOKIES
      BY SMTT(30), <1>1, <3>1, <3>2 DEF IInv, DistinctInv
    <3>4. jar'.count = IF Len(m.cookies) <= NTS_MAX_COOKIES - jar.count
                       THEN jar.count + Len(m.cookies) ELSE NTS_MAX_COOKIES
      BY <2>1, <3>1, <3>2, StoreRing
    <3> QED BY <2>1, <3>2, <3>3, <3>4
  <2>5. CASE ~Poll /\ ~ClientRecv
    BY ZenonT(30), <1>1, <2>1, <2>2, <2>5 DEF Next, dns_probe, nts_check, KeResponse, KeConnectFails,
       KeCookie, KeFails, KeSucceeds, ServerReply, Lose, Rotate
  <2> QED BY <2>3, <2>4, <2>5
<1>2. ASSUME IInv, [Next]_vars PROVE [P]_vars
  BY <1>1, <1>2
<1> QED BY <1>2, Invariance, PTL DEF Spec, ReplyFillsJar
============================================================================
