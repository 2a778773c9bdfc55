---------------------------- MODULE NtsExchange ----------------------------
(***************************************************************************)
(* One NTS-protected association of ntpd: the client's cookie jar          *)
(* (struct ntsclient_t), the NTS-KE worker thread that fills it, the NTP   *)
(* requests and replies that spend and refill it over a network that may   *)
(* lose, duplicate and reorder packets, and the server that makes and      *)
(* unpacks cookies under a key list that it rotates.                       *)
(*                                                                         *)
(* A cookie is a record: a nonce-like identity, the session whose c2s/s2c  *)
(* keys it carries, and the server key that encrypts it.  Decrypting with  *)
(* the right key succeeds and with any other key fails.                    *)
(***************************************************************************)
EXTENDS Integers, Sequences, FiniteSets

CONSTANTS
  NTS_MAX_COOKIES,  \* slots of the client's cookie array
  NTS_nKEYS,        \* server keys kept, the current one included
  Nonces,           \* identities of cookies
  Uids,             \* unique identifiers of requests
  Sessions,         \* c2s/s2c pairs, one per successful TLS key export
  KeyIds,           \* server cookie keys
  Stale,            \* content of a slot whose cookie was sent or discarded
  NetCap            \* bound: packets in flight

ASSUME JarAssumption == NTS_MAX_COOKIES \in Nat \ {0}
ASSUME KeysAssumption == NTS_nKEYS \in Nat \ {0} /\ KeyIds # {}
ASSUME NetAssumption == NetCap \in Nat \ {0}
ASSUME NamesAssumption == Sessions # {} /\ Uids # {} /\ Nonces \subseteq Nat /\ Nonces # {}

VARIABLES
  lookup,   \* FLAG_LOOKUP of the association: not in the address hash
  jar,      \* peer->nts_state
  ke,       \* the worker thread running nts_probe, and its result addrOK
  net,      \* packets in flight
  keys      \* nts_keys[0 .. nts_nKeys-1] of the server, newest first

vars == <<lookup, jar, ke, net, keys>>

Slots == 0 .. NTS_MAX_COOKIES - 1
Cookie == [id : Nonces, sess : Sessions, key : KeyIds]
ASSUME StaleAssumption == Stale \notin Cookie

Jar == [readIdx : Slots, writeIdx : Slots, count : -1 .. NTS_MAX_COOKIES,
        cookies : [Slots -> Cookie \cup {Stale}], UID : Uids, sess : Sessions]
KePcs == {"idle", "connect", "records", "done"}
Worker == [pc : KePcs, todo : Seq(Cookie), sess : Sessions, addrOK : BOOLEAN]
Request == [type : {"req"}, uid : Uids, sess : Sessions, cookie : Cookie,
            placeholders : 0 .. NTS_MAX_COOKIES - 1]
Reply == [type : {"rep"}, uid : Uids, sess : Sessions, cookies : Seq(Cookie)]

\* The ring: slots from readIdx on, count of them, hold unused cookies.
Offset(from, i) == (i + (NTS_MAX_COOKIES - from)) % NTS_MAX_COOKIES
LiveSlots == {i \in Slots : Offset(jar.readIdx, i) < jar.count}
Live == {jar.cookies[i] : i \in LiveSlots}

\* Field values of the cookies of a packet, of the worker's input and of the jar.
CookiesOf(m) == IF m.type = "req" THEN {m.cookie}
                ELSE {m.cookies[i] : i \in 1 .. Len(m.cookies)}
InFlight == UNION {CookiesOf(m) : m \in net}
InResponse == {ke.todo[i] : i \in 1 .. Len(ke.todo)}
Around == InFlight \cup InResponse \cup Live
FreshNonces == Nonces \ {c.id : c \in Around}
FreshSessions == Sessions \ ({c.sess : c \in Around} \cup {m.sess : m \in net} \cup {jar.sess})
FreshKeys == KeyIds \ ({c.key : c \in Around} \cup {keys[i] : i \in 1 .. Len(keys)})
FreshUids == Uids \ ({m.uid : m \in net} \cup {jar.UID})

\* Cookies made by nts_make_cookie with the current key carry distinct random
\* nonces, of which the lowest free identities stand for all.
FreshIds(k) ==
  {ids \in [1 .. k -> FreshNonces] :
     /\ \A i, j \in 1 .. k : i < j => ids[i] < ids[j]
     /\ \A a \in FreshNonces : (\E i \in 1 .. k : ids[i] = a) \/ (\A i \in 1 .. k : ids[i] < a)}
nts_make_cookie(ids, sess) ==
  [i \in DOMAIN ids |-> [id |-> ids[i], sess |-> sess, key |-> keys[1]]]

\* The packets after one is sent; when the network is full it is lost.
Sent(m, n) == IF Cardinality(n) < NetCap THEN n \cup {m} ELSE n

-----------------------------------------------------------------------------
\* Storing received cookies in order at writeIdx until the jar is full; the
\* ones beyond that are dropped.
StoreCookies(j, cs) ==
  LET room == NTS_MAX_COOKIES - j.count
      n == IF Len(cs) <= room THEN Len(cs) ELSE room
      at(i) == Offset(j.writeIdx, i)
  IN  [j EXCEPT !.writeIdx = (j.writeIdx + n) % NTS_MAX_COOKIES,
                !.count = j.count + n,
                !.cookies = [i \in Slots |-> IF at(i) < n THEN cs[at(i) + 1]
                                             ELSE j.cookies[i]]]

\* extens_client_send: new UID, take the cookie at readIdx, ask with
\* placeholders for as many cookies as the jar has room for.
Take(j, uid) ==
  [j EXCEPT !.UID = uid,
            !.cookies[j.readIdx] = Stale,
            !.readIdx = (j.readIdx + 1) % NTS_MAX_COOKIES,
            !.count = j.count - 1]
Emptied(j, n) == [j EXCEPT !.count = n, !.cookies = [i \in Slots |-> Stale]]
\* Mutant: no placeholders are sent.
extens_client_send_NoPlaceholders(j, uid) ==
  [type |-> "req", uid |-> uid, sess |-> j.sess, cookie |-> j.cookies[j.readIdx],
   placeholders |-> 0]
extens_client_send(j, uid) ==
  [type |-> "req", uid |-> uid, sess |-> j.sess, cookie |-> j.cookies[j.readIdx],
   placeholders |-> NTS_MAX_COOKIES - 1 - Take(j, uid).count]

\* peer_xmit of an association that has an interface: send if there is a
\* cookie, otherwise restart_nts_ke, which takes the peer out of the address
\* hash and sets FLAG_LOOKUP.
\* Mutant: the peer keeps polling without cookies.
restart_nts_ke_Dropped ==
  UNCHANGED <<lookup, jar, net>>
restart_nts_ke ==
  /\ lookup' = TRUE
  /\ UNCHANGED <<jar, net>>

peer_xmit ==
  IF 0 < jar.count
  THEN LET uid == CHOOSE u \in FreshUids : TRUE IN
         /\ FreshUids # {}
         /\ lookup' = FALSE
         /\ jar' = Take(jar, uid)
         /\ net' = Sent(extens_client_send(jar, uid), net)
  ELSE restart_nts_ke

-----------------------------------------------------------------------------
Init ==
  /\ lookup = TRUE
  /\ \E c \in {CHOOSE c \in Cookie : TRUE}, u \in {CHOOSE u \in Uids : TRUE} :
       /\ jar = [readIdx |-> 0, writeIdx |-> 0, count |-> -1,
                 cookies |-> [i \in Slots |-> Stale], UID |-> u, sess |-> c.sess]
       /\ keys = <<c.key>>
       /\ ke = [pc |-> "idle", todo |-> <<>>, sess |-> c.sess, addrOK |-> FALSE]
  /\ net = {}

\* transmit() of an association that is in the address hash.
Poll ==
  /\ ~lookup
  /\ peer_xmit
  /\ UNCHANGED <<ke, keys>>

\* transmit() of an association with FLAG_LOOKUP: dns_probe starts the worker
\* unless it is busy.
dns_probe ==
  /\ lookup
  /\ ke.pc = "idle"
  /\ ke' = [ke EXCEPT !.pc = "connect", !.addrOK = FALSE]
  /\ UNCHANGED <<lookup, jar, net, keys>>

\* nts_probe in the worker: the returns before the TLS session exists leave
\* nts_state alone; the ones through "bail" set count to -1.
KeConnectFails ==
  /\ ke.pc = "connect"
  /\ ke' = [ke EXCEPT !.pc = "done"]
  /\ jar' \in {jar, Emptied(jar, -1)}
  /\ UNCHANGED <<lookup, net, keys>>

\* The response of the NTS-KE server arrives: it holds n cookies (this server
\* sends NTS_MAX_COOKIES, others any number), and
\* nts_client_process_response_core empties the jar before it reads them.
KeResponse(n) ==
  /\ ke.pc = "connect"
  /\ FreshSessions # {}
  /\ \E ids \in FreshIds(n), s \in {CHOOSE t \in FreshSessions : TRUE} :
       ke' = [ke EXCEPT !.pc = "records", !.todo = nts_make_cookie(ids, s), !.sess = s]
  /\ jar' = [Emptied(jar, 0) EXCEPT !.readIdx = 0, !.writeIdx = 0]
  /\ UNCHANGED <<lookup, net, keys>>

\* One nts_new_cookie record of the response; an extra one is ignored.
KeCookie ==
  /\ ke.pc = "records"
  /\ ke.todo # <<>>
  /\ jar' = StoreCookies(jar, <<Head(ke.todo)>>)
  /\ ke' = [ke EXCEPT !.todo = Tail(ke.todo)]
  /\ UNCHANGED <<lookup, net, keys>>

\* A bad record, a missing algorithm, no cookies or no key export: bail.
KeFails ==
  /\ ke.pc = "records"
  /\ ke' = [ke EXCEPT !.pc = "done", !.todo = <<>>, !.sess = jar.sess]
  /\ jar' = Emptied(jar, -1)
  /\ UNCHANGED <<lookup, net, keys>>

\* Mutants: the session keys are not exported; the result is not reported.
KeSucceeds_OldKeys ==
  /\ ke.pc = "records"
  /\ ke.todo = <<>>
  /\ jar.count # 0
  /\ ke' = [ke EXCEPT !.pc = "done", !.addrOK = TRUE]
  /\ UNCHANGED <<lookup, jar, net, keys>>
KeSucceeds_NotReported ==
  /\ ke.pc = "records"
  /\ ke.todo = <<>>
  /\ jar.count # 0
  /\ ke' = [ke EXCEPT !.pc = "done"]
  /\ jar' = [jar EXCEPT !.sess = ke.sess]
  /\ UNCHANGED <<lookup, net, keys>>

\* The response was good and nts_make_keys exported the session keys.
KeSucceeds ==
  /\ ke.pc = "records"
  /\ ke.todo = <<>>
  /\ jar.count # 0
  /\ ke' = [ke EXCEPT !.pc = "done", !.addrOK = TRUE]
  /\ jar' = [jar EXCEPT !.sess = ke.sess]
  /\ UNCHANGED <<lookup, net, keys>>

\* dns_check joins the worker; nts_check gives the address to dns_take_server,
\* which puts the peer in the hash, clears FLAG_LOOKUP and polls at once.
nts_check ==
  /\ ke.pc = "done"
  /\ ke' = [ke EXCEPT !.pc = "idle"]
  /\ \/ /\ ke.addrOK
        /\ peer_xmit
     \/ UNCHANGED <<lookup, jar, net>>  \* failed, or the address is in use
  /\ UNCHANGED keys

\* The server: extens_server_recv and extens_server_send of fast_xmit.  The
\* cookie must be encrypted under a key still kept and its keys must open the
\* packet; the reply carries one cookie per cookie or placeholder received.
ServerReply ==
  \E m \in net :
    /\ m.type = "req"
    /\ \E i \in 1 .. Len(keys) : keys[i] = m.cookie.key
    /\ m.cookie.sess = m.sess
    /\ \E ids \in FreshIds(1 + m.placeholders), rest \in {net, net \ {m}} :
         net' = Sent([type |-> "rep", uid |-> m.uid, sess |-> m.cookie.sess,
                      cookies |-> nts_make_cookie(ids, m.cookie.sess)], rest)
    /\ UNCHANGED <<lookup, jar, ke, keys>>

\* Mutant: the unique identifier is not compared.
ClientRecv_AnyUid ==
  \E m \in net :
    /\ m.type = "rep"
    /\ net' \in {net, net \ {m}}
    /\ jar' = IF ~lookup /\ m.sess = jar.sess THEN StoreCookies(jar, m.cookies) ELSE jar
    /\ UNCHANGED <<lookup, ke, keys>>

\* receive() of a reply: findpeer looks in the address hash only, and
\* extens_client_recv checks the UID and the AEAD before it stores the cookies,
\* up to the first extra one.  The packet may be delivered again later.
ClientRecv ==
  \E m \in net :
    /\ m.type = "rep"
    /\ net' \in {net, net \ {m}}
    /\ jar' = IF ~lookup /\ m.uid = jar.UID /\ m.sess = jar.sess
              THEN StoreCookies(jar, m.cookies)
              ELSE jar
    /\ UNCHANGED <<lookup, ke, keys>>

\* A packet is lost.
Lose ==
  /\ \E m \in net : net' = net \ {m}
  /\ UNCHANGED <<lookup, jar, ke, keys>>

\* nts_make_cookie_key on the server: shift, keep at most NTS_nKEYS.
Rotate ==
  /\ FreshKeys # {}
  /\ LET new == <<CHOOSE k \in FreshKeys : TRUE>> \o keys
     IN  keys' = SubSeq(new, 1, IF Len(new) <= NTS_nKEYS THEN Len(new) ELSE NTS_nKEYS)
  /\ UNCHANGED <<lookup, jar, ke, net>>

Next ==
  \/ Poll \/ dns_probe \/ nts_check
  \/ \E n \in 0 .. NTS_MAX_COOKIES + 1 : KeResponse(n)
  \/ KeConnectFails \/ KeCookie \/ KeFails \/ KeSucceeds
  \/ ServerReply \/ ClientRecv \/ Lose \/ Rotate

Spec == Init /\ [][Next]_vars

-----------------------------------------------------------------------------
\* Every variable has its type.
TypeOK ==
  /\ lookup \in BOOLEAN
  /\ jar \in Jar
  /\ ke \in Worker
  /\ \A m \in net : m \in Request \/ m \in Reply
  /\ keys \in Seq(KeyIds)

\* The worker thread and the main loop share nts_state without a lock.  What
\* keeps them apart is that the association stays out of the address hash
\* (FLAG_LOOKUP) from dns_probe to dns_check, so neither receive() nor
\* peer_xmit() can reach the jar while nts_probe runs; and an association
\* that is back in the hash never has the "no cookies yet" count of -1, which
\* extens_client_recv would increment.
WorkerOwnsJar ==
  /\ ke.pc # "idle" => lookup
  /\ ~lookup => jar.count >= 0

\* readIdx, writeIdx and count of the cookie ring agree whenever the count is
\* meaningful, through wrap-around, refill after loss and a new key exchange.
RingConsistent ==
  jar.count >= 0 => (jar.readIdx + jar.count) % NTS_MAX_COOKIES = jar.writeIdx

\* A cookie is sent at most once, so that requests cannot be linked: the
\* cookies waiting in the jar are pairwise distinct and none of them is in a
\* request under way, even though replies may be duplicated, delayed past later
\* requests or arrive after a new key exchange.
NoCookieReuse ==
  /\ Stale \notin Live
  /\ \A i, k \in LiveSlots : i # k => jar.cookies[i].id # jar.cookies[k].id
  /\ \A m \in net : m.type = "req" => m.cookie \notin Live

\* An association in service only holds cookies of the session whose c2s and
\* s2c keys it holds: a late reply of an earlier session adds none.
JarMatchesSession ==
  ~lookup => \A c \in Live : c.sess = jar.sess

\* The placeholders of a request ask for exactly what the jar lacks: a reply
\* that is accepted always fills it, and no cookie of a first delivery is
\* rejected as extra.
ReplyFillsJar ==
  [][~lookup /\ jar'.count > jar.count => jar'.count = NTS_MAX_COOKIES]_vars

-----------------------------------------------------------------------------
\* The poll timer always fires, dns_probe is retried, the worker thread ends
\* (its sockets time out), SIGDNS is handled; and a key exchange tried
\* forever succeeds sometimes.
Fairness ==
  /\ WF_vars(Poll) /\ WF_vars(dns_probe) /\ WF_vars(nts_check)
  /\ WF_vars(KeConnectFails) /\ WF_vars(KeFails)
  /\ SF_vars(KeResponse(NTS_MAX_COOKIES))
  /\ \A left \in 1 .. NTS_MAX_COOKIES : SF_vars(Len(ke.todo) = left /\ KeCookie)
  /\ SF_vars(KeSucceeds)
  /\ SF_vars(nts_check /\ ~lookup')

FairSpec == Spec /\ Fairness

\* nts_cookie.c on key rotation: "keys will timeout, packets will get dropped
\* after 8 lost packets, it should go through the NTS-KE dance again".  A jar
\* without a cookie the server can still read is abandoned or renewed.
Unreadable == \A c \in Live : c.key \notin {keys[i] : i \in 1 .. Len(keys)}
StaleJarAbandoned == (~lookup /\ Unreadable) ~> (lookup \/ ~Unreadable)

\* An association that ran out of cookies is in service again some day.
CookiesRestored == lookup ~> (~lookup /\ jar.count >= 0)
============================================================================
