---------------------------- MODULE Associations ----------------------------
(***************************************************************************)
(* The associations of ntpd: the peer structures with their free list, the *)
(* list, the address hash and the counters kept over them, and the single  *)
(* lookup thread that finds addresses (DNS) or keys and an address         *)
(* (NTS-KE) for them while the main thread configures, polls, drops and    *)
(* unpeers associations.                                                   *)
(*                                                                         *)
(* When a poll is due is the business of PollProcess; here a poll may come *)
(* at any time.  A cookie is a unit of "count"; see NtsExchange for them.  *)
(***************************************************************************)
EXTENDS Integers, Sequences, FiniteSets, Functions

CONSTANTS
  Slots,         \* peer structures; bound on the associations at one time
  FirstFree,     \* the free list init_peer makes of them
  Addrs,         \* remote addresses
  Hosts,         \* host names
  AddrsOf,       \* the addresses a name may resolve to
  Lines,         \* the server and pool lines a configuration may hold
  IdModulus,     \* association ids are 1 .. IdModulus - 1 (2^16 in the code)
  sys_maxclock,
  Cookies,       \* cookies an NTS-KE exchange brings
  MaxAnswers,    \* bound: addresses in one DNS answer
  UnpeerBusy,    \* whether the association being looked up may be unpeered
  None

ASSUME SlotsAssumption ==
  /\ IsFiniteSet(Slots) /\ FirstFree \in Seq(Slots)
  /\ IsInjective(FirstFree) /\ Range(FirstFree) = Slots
ASSUME AnswersAssumption == MaxAnswers \in Nat

VARIABLES
  peer,         \* the contents of every peer structure
  peer_list,    \* the structures in use, newest first
  peer_hash,    \* the structures in the address hash
  peer_free,    \* the free structures, last freed first
  peer_active,
  peer_preempt,
  current_association_ID,
  active,       \* the association being looked up, or None
  worker,       \* the lookup thread: where it is and what it has read
  dns,          \* what a DNS lookup left: gai_rc and answer, and for which name
  nts,          \* what an NTS-KE lookup left: addrOK and sockaddr, and for which name
  sys_peer      \* the association clock_select chose, or None

table == <<peer, peer_list, peer_hash, peer_free, peer_active, peer_preempt,
           current_association_ID>>
vars == <<table, active, worker, dns, nts, sys_peer>>

Ids == 1 .. IdModulus - 1
\* A structure that free_peer has zeroed.
Zeroed == [hostname |-> None, srcadr |-> None, associd |-> 0, cast |-> "none",
           lookup |-> FALSE, nts |-> FALSE, config |-> FALSE, preempt |-> FALSE,
           noselect |-> FALSE, count |-> 0]
Idle == [pc |-> "idle", host |-> None, nts |-> FALSE]
NoReply == [ok |-> FALSE, answer |-> <<>>, host |-> None]

Live == Range(peer_list)
\* peer_active counts the associations that may be selected.
Counted(p) == ~p.noselect /\ p.cast # "POOL"
\* findexistingpeer_addr, which searches the address hash only.
ByAddr(a) == {s \in peer_hash : peer[s].srcadr = a}
\* findexistingpeer_name and findpeerbyassoc, which search the list: the
\* newest comes first.
ByName(h) == {s \in Live : peer[s].hostname = h}
ById(i) == {s \in Live : peer[s].associd = i}
First(found) ==
  {peer_list[i] : i \in {j \in DOMAIN peer_list : peer_list[j] \in found
                                               /\ \A k \in 1 .. j - 1 : peer_list[k] \notin found}}
\* The addresses of an answer that no association has, in their order.
Unused(answer) ==
  LET free == {i \in DOMAIN answer : ByAddr(answer[i]) = {}}
  IN  [k \in 1 .. Cardinality(free) |->
         answer[CHOOSE i \in free : Cardinality({j \in free : j <= i}) = k]]

-----------------------------------------------------------------------------
\* peer_xmit and restart_nts_ke: the association after a poll.  An NTS
\* association without a cookie sends nothing and goes back to NTS-KE.
Polled(p) ==
  IF ~p.nts THEN p
  ELSE IF p.count > 0 THEN [p EXCEPT !.count = @ - 1]
  ELSE [p EXCEPT !.lookup = TRUE]

\* newpeer for each of a sequence of new associations, which take structures
\* from the head of the free list and ids from current_association_ID on.
\* "polled" says whether a poll follows at once (dns_take_pool).
NewPeers(base, new, polled) ==
  LET n     == Len(new)
      slots == SubSeq(peer_free, 1, n)
      Id(k) == ((current_association_ID + k - 2) % (IdModulus - 1)) + 1
      At(k) == [new[k] EXCEPT !.associd = Id(k)]
      hashed == {k \in 1 .. n : new[k].cast = "UCAST" /\ ~new[k].lookup}
      After(k) == IF polled THEN Polled(At(k)) ELSE At(k)
  IN  /\ n <= Len(peer_free)
      /\ peer' = [s \in Slots |->
                    IF \E k \in 1 .. n : slots[k] = s
                    THEN After(CHOOSE k \in 1 .. n : slots[k] = s)
                    ELSE base[s]]
      /\ peer_free' = SubSeq(peer_free, n + 1, Len(peer_free))
      /\ peer_list' = [k \in 1 .. n |-> slots[n + 1 - k]] \o peer_list
      \* peer_add_hash, undone by peer_del_hash when the poll finds no cookie
      /\ peer_hash' = peer_hash \cup {slots[k] : k \in {j \in hashed : ~After(j).lookup}}
      /\ peer_active' = peer_active + Cardinality({k \in 1 .. n : Counted(new[k])})
      /\ peer_preempt' = peer_preempt + Cardinality({k \in 1 .. n : new[k].preempt})
      /\ current_association_ID' = Id(n + 1)

\* unpeer and free_peer: out of the hash when it should be in it, out of the
\* list, zeroed, and first on the free list.
unpeer(s) ==
  /\ peer' = [peer EXCEPT ![s] = Zeroed]
  /\ \E i \in DOMAIN peer_list :
       /\ peer_list[i] = s
       /\ peer_list' = SubSeq(peer_list, 1, i - 1) \o SubSeq(peer_list, i + 1, Len(peer_list))
  /\ peer_hash' = IF peer[s].cast = "UCAST" /\ ~peer[s].lookup THEN peer_hash \ {s} ELSE peer_hash
  /\ peer_free' = <<s>> \o peer_free
  /\ peer_active' = peer_active - (IF Counted(peer[s]) THEN 1 ELSE 0)
  /\ peer_preempt' = peer_preempt - (IF peer[s].preempt THEN 1 ELSE 0)
  /\ UNCHANGED current_association_ID

-----------------------------------------------------------------------------
(* Configuration, from the file and at run time by ntpq's config command.  *)

\* config_peers, peer_config and newpeer's search for a duplicate.  A host
\* name needs a lookup before the association has an address; so does an
\* address with the nts option.
config_peers(l) ==
  /\ IF l.host # None THEN ByName(l.host) = {} ELSE ByAddr(l.addr) = {}
  /\ NewPeers(peer,
       <<[hostname |-> l.host, srcadr |-> l.addr, associd |-> 0,
          cast |-> IF l.pool THEN "POOL" ELSE "UCAST",
          lookup |-> l.nts \/ (l.host # None /\ ~l.pool), nts |-> l.nts, config |-> TRUE,
          preempt |-> FALSE, noselect |-> l.noselect, count |-> -1]>>, FALSE)
  /\ UNCHANGED <<active, worker, dns, nts, sys_peer>>

\* config_unpeers: by association id, by address or by host name.
config_unpeers ==
  /\ \E s \in UNION ({First(ById(i)) : i \in Ids} \cup {ByAddr(a) : a \in Addrs}
                     \cup {First(ByName(h)) : h \in Hosts}) :
       /\ UnpeerBusy \/ s # active
       /\ unpeer(s)
  /\ UNCHANGED <<active, worker, dns, nts, sys_peer>>

-----------------------------------------------------------------------------
(* Lookups *)

\* Mutant: the busy flag is not tested.
dns_probe_NotBusy(s) ==
  /\ active' = s
  /\ worker' = IF worker.pc = "idle" THEN [Idle EXCEPT !.pc = "start"] ELSE worker
\* dns_probe when no lookup is under way; the thread may fail to start.
dns_probe(s) ==
  /\ active = None
  /\ \/ active' = s /\ worker' = [Idle EXCEPT !.pc = "start"]
     \/ UNCHANGED <<active, worker>>

\* The thread reads the association: the flag that says which lookup, and
\* the name.  It may run long after dns_probe.
dns_lookup ==
  /\ worker.pc = "start"
  /\ worker' = [pc |-> "query", host |-> peer[active].hostname, nts |-> peer[active].nts]
  /\ UNCHANGED <<table, active, dns, nts, sys_peer>>

Resolvable(h) == IF h = None THEN {peer[active].srcadr} \ {None} ELSE AddrsOf[h]

\* getaddrinfo returns some addresses, or an error; SIGDNS follows.
DnsAnswers ==
  /\ worker.pc = "query" /\ ~worker.nts
  /\ \E n \in 0 .. MaxAnswers :
       \E ans \in [1 .. n -> Resolvable(worker.host)] :
         /\ IsInjective(ans)
         /\ dns' = [ok |-> n > 0, answer |-> ans, host |-> worker.host]
  /\ worker' = [worker EXCEPT !.pc = "done"]
  /\ UNCHANGED <<table, active, nts, sys_peer>>

\* nts_probe: when the exchange succeeds the thread writes the cookies into
\* the association and leaves the address the server named.
\* find_best_addr avoids addresses in use, but the server may name another.
nts_probe ==
  /\ worker.pc = "query" /\ worker.nts
  /\ \/ \E a \in Resolvable(worker.host) :
          /\ nts' = [ok |-> TRUE, answer |-> <<a>>, host |-> worker.host]
          /\ peer' = [peer EXCEPT ![active].count = Cookies]
     \/ /\ nts' = [NoReply EXCEPT !.host = worker.host]
        /\ UNCHANGED peer
  /\ worker' = [worker EXCEPT !.pc = "done"]
  /\ UNCHANGED <<peer_list, peer_hash, peer_free, peer_active, peer_preempt,
                 current_association_ID, active, dns, sys_peer>>

\* dns_take_server for each address: the first one not in use becomes the
\* association's, which enters the hash and is polled at once.
dns_take_server(s, answer) ==
  LET free == Unused(answer)
      p    == Polled([peer[s] EXCEPT !.lookup = FALSE, !.srcadr = Head(free)])
  IN  IF peer[s].lookup /\ free # <<>>
      THEN /\ peer' = [peer EXCEPT ![s] = p]
           /\ peer_hash' = IF p.lookup THEN peer_hash ELSE peer_hash \cup {s}
           /\ UNCHANGED <<peer_list, peer_free, peer_active, peer_preempt, current_association_ID>>
      ELSE UNCHANGED table

\* The end of dns_take_pool: a pool gives its NTS state away.
HandOver(p) == IF p.nts THEN [p EXCEPT !.count = -1] ELSE p

\* dns_take_pool for each address: a preemptible association for each one
\* not in use.  With NTS it keeps the pool's name and gets its cookies.
dns_take_pool(s, answer) ==
  LET all  == Unused(answer)
      \* bound: getmorepeermem would make more structures
      free == [k \in 1 .. (IF Len(all) <= Len(peer_free) THEN Len(all) ELSE Len(peer_free)) |-> all[k]]
      p    == peer[s]
      Child(a) == [hostname |-> IF p.nts THEN p.hostname ELSE None, srcadr |-> a, associd |-> 0,
                   cast |-> "UCAST", lookup |-> FALSE, nts |-> p.nts, config |-> FALSE,
                   preempt |-> TRUE, noselect |-> FALSE,
                   count |-> IF p.nts THEN p.count ELSE -1]
  IN  IF free = <<>> THEN UNCHANGED table
      ELSE NewPeers([peer EXCEPT ![s] = HandOver(p)],
                    [k \in DOMAIN free |-> Child(free[k])], TRUE)

\* Mutant: a lookup without an answer is tried again at once.
dns_check_Retries ==
  /\ worker.pc = "done"
  /\ LET reply == IF peer[active].nts THEN nts ELSE dns
     IN  IF reply.ok
         THEN /\ IF peer[active].cast = "POOL"
                 THEN dns_take_pool(active, reply.answer)
                 ELSE dns_take_server(active, reply.answer)
              /\ active' = None /\ worker' = Idle
         ELSE worker' = [Idle EXCEPT !.pc = "start"] /\ UNCHANGED <<table, active>>
  /\ nts' = NoReply /\ dns' = NoReply
  /\ UNCHANGED sys_peer
\* dns_check and nts_check, on SIGDNS.  The flags and the kind are read from
\* the structure again, not from what the thread saw.  The DNS result is not
\* reset; it is forgotten here when it cannot be read again.
dns_check ==
  /\ worker.pc = "done"
  /\ LET reply  == IF peer[active].nts THEN nts ELSE dns
         answer == IF reply.ok THEN reply.answer ELSE <<>>
     IN  IF peer[active].cast = "POOL"
         THEN dns_take_pool(active, answer)
         ELSE dns_take_server(active, answer)
  /\ active' = None /\ worker' = Idle
  /\ nts' = NoReply
  /\ dns' = IF UnpeerBusy THEN dns ELSE NoReply
  /\ UNCHANGED sys_peer

-----------------------------------------------------------------------------
(* Polling *)

\* transmit of a pool: look for more servers when there is room for them.
\* sys_survivors < sys_minclock is left open.
PoolWants(few) ==
  /\ peer_active <= 2 * sys_maxclock
  /\ peer_active < sys_maxclock \/ few

\* transmit of a pool or of an association without an address.
TransmitLookup(s) ==
  /\ IF peer[s].cast = "POOL" THEN \E few \in BOOLEAN : PoolWants(few) ELSE peer[s].lookup
  /\ dns_probe(s)
  /\ UNCHANGED <<table, dns, nts, sys_peer>>

\* Mutant: an association that goes back to NTS-KE stays in the hash.
TransmitPoll_KeepsHash(s) ==
  /\ peer[s].cast = "UCAST" /\ ~peer[s].lookup
  /\ peer' = [peer EXCEPT ![s] = Polled(peer[s])]
  /\ UNCHANGED <<peer_list, peer_hash, peer_free, peer_active, peer_preempt,
                 current_association_ID, active, worker, dns, nts, sys_peer>>
\* transmit of an association with an address: poll it.
TransmitPoll(s) ==
  /\ peer[s].cast = "UCAST" /\ ~peer[s].lookup
  /\ LET p == Polled(peer[s])
     IN  /\ peer' = [peer EXCEPT ![s] = p]
         /\ peer_hash' = IF p.lookup THEN peer_hash \ {s} ELSE peer_hash
  /\ UNCHANGED <<peer_list, peer_free, peer_active, peer_preempt, current_association_ID,
                 active, worker, dns, nts, sys_peer>>

\* transmit of a preemptible association not heard of for NTP_UNREACH polls,
\* with the lowest score, when there are more than maxclock: drop it.
TransmitDrop(s) ==
  /\ peer[s].cast = "UCAST" /\ ~peer[s].lookup
  /\ peer[s].preempt /\ peer_active > sys_maxclock
  /\ unpeer(s)
  /\ UNCHANGED <<active, worker, dns, nts, sys_peer>>

\* receive of a good reply, found through the hash.  With NTS it brings a
\* cookie.  clock_select then keeps, changes or drops the system peer.
receive(s) ==
  /\ s \in peer_hash
  /\ peer' = [peer EXCEPT ![s].count = IF peer[s].nts THEN Cookies ELSE @]
  /\ sys_peer' \in {sys_peer, None} \cup (IF peer[s].noselect THEN {} ELSE {s})
  /\ UNCHANGED <<peer_list, peer_hash, peer_free, peer_active, peer_preempt,
                 current_association_ID, active, worker, dns, nts>>

-----------------------------------------------------------------------------
Init ==
  /\ peer = [s \in Slots |-> Zeroed]
  /\ peer_list = <<>> /\ peer_hash = {} /\ peer_free = FirstFree
  /\ peer_active = 0 /\ peer_preempt = 0
  /\ current_association_ID = 1
  /\ active = None /\ worker = Idle /\ dns = NoReply /\ nts = NoReply
  /\ sys_peer = None

Next ==
  \/ \E l \in Lines : config_peers(l)
  \/ config_unpeers
  \/ dns_lookup \/ DnsAnswers \/ nts_probe \/ dns_check
  \/ \E s \in Live : TransmitLookup(s) \/ TransmitPoll(s) \/ TransmitDrop(s) \/ receive(s)

Spec == Init /\ [][Next]_vars

\* Every lookup ends: getaddrinfo and the NTS-KE exchange time out, SIGDNS is
\* handled by the main loop.  An association that finds the thread busy has
\* its next poll set to now, so it tries every second, while one whose lookup
\* failed waits some seconds at least: it gets its turn again and again.
FairSpec ==
  /\ Spec
  /\ WF_vars(dns_lookup) /\ WF_vars(DnsAnswers) /\ WF_vars(nts_probe) /\ WF_vars(dns_check)
  /\ \A s \in Slots : SF_vars(s \in Live /\ TransmitLookup(s) /\ active' = s)

-----------------------------------------------------------------------------
\* Whatever the order of lookups, polls that run out of cookies, drops and
\* unpeers: every structure is free or in use, once; an association is in the
\* address hash when it is unicast and not waiting for a lookup, and only then
\* (free_peer relies on it); and peer_active and peer_preempt, which decide
\* when pools solicit and drop servers, are what a count would give.
TablesAgree ==
  /\ Len(peer_list) + Len(peer_free) = Cardinality(Slots)
  /\ Live \cap Range(peer_free) = {} /\ Live \cup Range(peer_free) = Slots
  /\ peer_hash = {s \in Live : peer[s].cast = "UCAST" /\ ~peer[s].lookup}
  /\ peer_active = Cardinality({s \in Live : Counted(peer[s])})
  /\ peer_preempt = Cardinality({s \in Live : peer[s].preempt})

\* An association configured by name polls an address of that name: the
\* answer of a lookup goes to the association it was asked for.
AddressOfOwnHost ==
  \A s \in peer_hash : peer[s].hostname # None => peer[s].srcadr \in AddrsOf[peer[s].hostname]

\* An association without an address gets its lookup, or is gone.
LookupServed ==
  \A s \in Slots : (peer[s].cast = "UCAST" /\ peer[s].lookup)
                     ~> (active = s \/ ~peer[s].lookup)
=============================================================================
