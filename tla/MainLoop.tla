------------------------------ MODULE MainLoop ------------------------------
(***************************************************************************)
(* ntpd's main loop (ntpd.c) around io_handler, input_handler and the      *)
(* interface timer, with the signals that reach it at any point, datagrams *)
(* on its sockets and the kernel's interfaces coming and going.            *)
(*                                                                         *)
(* pc is the place in the loop: "top" (sawQuit and sawALRM are tested),    *)
(* "block" (io_handler is about to block the signals of blockMask), "test" *)
(* (blocked, the flags are tested again), "enter" (still blocked, on the   *)
(* way into pselect), "select" (asleep in pselect, where the signals are   *)
(* open), "input", "timer", "dns", "hup", "ended".                         *)
(* wait is interface_timer minus current_time.                             *)
(***************************************************************************)
EXTENDS Interfaces

CONSTANTS
  Nics,                \* the kernel's interfaces, in its order
  Changing,            \* the indices of those that come and go
  Addressed,           \* addresses and ports datagrams are sent to
  StartRules, NewRules,
  Interval,            \* interface_interval, or 0
  MaxFaults            \* events of the environment other than the alarm

ASSUME MainLoopAssumption == Changing \subseteq DOMAIN Nics /\ MaxFaults \in Nat /\ Interval \in Nat

VARIABLES
  s,          \* [io, rules, peers, new, bufs, rx, wait]: see Interfaces
  kernel,     \* the interfaces that are up
  pc, ready, flags, pending,
  disable_dynamic_updates,
  faults

vars == <<s, kernel, pc, ready, flags, pending, disable_dynamic_updates, faults>>

\* Mutant: SIGHUP is left out.
blockMask_NoHup == {"ALRM", "QUIT"}
\* init_io: SIGDNS is not among them.
blockMask == {"ALRM", "HUP", "QUIT"}

Up(k) == [i \in DOMAIN Nics |-> IF i \in k THEN <<Nics[i]>> ELSE << >>]
UpNics(k) == FlattenSeq(Up(k))
\* The kernel has a route by any of its addresses that is not a loopback, or
\* none.
Routes(k) ==
  LET by(af) == {<<Nics[i].addr>> : i \in {i \in k : Nics[i].addr.af = af /\ ~Nics[i].loop /\ Nics[i].addr.n # 0}}
  IN [Families -> UNION {by(af) : af \in Families} \union {<< >>}]
RoutesOf(k) == {r \in Routes(k) : \A af \in Families :
                  IF r[af] # << >> THEN r[af][1].af = af
                  ELSE \A i \in k : Nics[i].addr.af # af \/ Nics[i].loop \/ Nics[i].addr.n = 0}

Init ==
  /\ kernel = DOMAIN Nics
  /\ \E rules \in StartRules, r \in RoutesOf(DOMAIN Nics), ok \in BOOLEAN :
       LET t == create_sockets(rules, UpNics(DOMAIN Nics), r)
       IN s = [io |-> init_async_notifications(io_addclock(t.io), ok), rules |-> rules, peers |-> t.peers, new |-> FALSE,
               bufs |-> [free |-> RECV_INIT, shortfall |-> 0], rx |-> << >>, wait |-> 0]
  /\ pc = "top" /\ ready = {} /\ flags = {} /\ pending = {} /\ faults = 0
  /\ disable_dynamic_updates \in BOOLEAN

Fault == faults < MaxFaults /\ faults' = faults + 1 /\ pc # "ended"

-----------------------------------------------------------------------------
(* The environment.                                                          *)

\* A signal: blocked, it is pending; asleep, it ends the sleep.
Raised(sig) ==
  /\ IF pc \in {"test", "enter"} /\ sig \in blockMask
     THEN pending' = pending \union {sig} /\ UNCHANGED flags
     ELSE flags' = flags \union {sig} /\ UNCHANGED pending
  /\ pc' = IF pc = "select" THEN "input" ELSE pc
  /\ UNCHANGED <<s, kernel, ready, disable_dynamic_updates>>
\* catchALRM, once a second.
Alarm == pc # "ended" /\ (pc = "select" \/ "ALRM" \notin flags \union pending) /\ Raised("ALRM") /\ UNCHANGED faults
Signal == Fault /\ \E sig \in {"HUP", "DNS", "QUIT"} : Raised(sig)

Arrives(fd, kind) == s' = [s EXCEPT !.rx = Append(@, [fd |-> fd, kind |-> kind])]
Datagram ==
  /\ Fault
  /\ \E i \in DOMAIN s.io.eps, kind \in {"answer", "rule", "own", "error"} :
       <<s.io.eps[i].addr, s.io.eps[i].port>> \in Addressed /\ Arrives(s.io.eps[i].fd, kind)
  /\ UNCHANGED <<kernel, pc, ready, flags, pending, disable_dynamic_updates>>
ClockInput ==
  /\ Fault /\ s.io.clock \in s.io.active
  /\ \E kind \in {"data", "eof"} : Arrives(s.io.clock, kind)
  /\ UNCHANGED <<kernel, pc, ready, flags, pending, disable_dynamic_updates>>
\* An interface comes or goes; the kernel tells, or fails to.
NicChanges ==
  /\ Fault
  /\ \E k \in Changing : kernel' = IF k \in kernel THEN kernel \ {k} ELSE kernel \union {k}
  /\ IF s.io.routing = 0 THEN UNCHANGED s ELSE \E kind \in {"link", "full", "error"} : Arrives(s.io.routing, kind)
  /\ UNCHANGED <<pc, ready, flags, pending, disable_dynamic_updates>>
\* The last two polls of a server were not answered (see PollProcess), as will
\* happen when its interface ignores packets.
Deaf(p) == s.peers[p].reach /\ s.peers[p].dst # 0 /\ Endpoint(s.io, s.peers[p].dst).ignore
Forgotten(p) == s' = [s EXCEPT !.peers[p].reach = FALSE] /\ UNCHANGED <<kernel, pc, ready, flags, pending, disable_dynamic_updates>>
Unanswered == Fault /\ \E p \in DOMAIN Peers : s.peers[p].reach /\ ~Deaf(p) /\ Forgotten(p)
Unheard == \E p \in DOMAIN Peers : Deaf(p) /\ Forgotten(p) /\ UNCHANGED faults

-----------------------------------------------------------------------------
(* The loop.                                                                 *)

Top ==
  /\ pc = "top"
  /\ pc' = IF "QUIT" \in flags THEN "ended" ELSE IF "ALRM" \in flags THEN "timer" ELSE "block"
  /\ UNCHANGED <<s, kernel, ready, flags, pending, disable_dynamic_updates, faults>>
Block ==
  /\ pc = "block"
  /\ pc' = "test"
  /\ UNCHANGED <<s, kernel, ready, flags, pending, disable_dynamic_updates, faults>>
\* With a flag set the signals are opened again, and what is pending comes in.
Test ==
  /\ pc = "test"
  /\ IF flags = {} THEN pc' = "enter" /\ UNCHANGED <<flags, pending>>
     ELSE pc' = "input" /\ flags' = flags \union pending /\ pending' = {}
  /\ UNCHANGED <<s, kernel, ready, disable_dynamic_updates, faults>>
\* pselect opens the signals as it goes to sleep: what is pending ends it at
\* once, what was handled before does not.
Enter ==
  /\ pc = "enter"
  /\ pc' = IF pending = {} THEN "select" ELSE "input"
  /\ flags' = flags \union pending /\ pending' = {}
  /\ UNCHANGED <<s, kernel, ready, disable_dynamic_updates, faults>>
Readable == {s.rx[i].fd : i \in DOMAIN s.rx} \intersect s.io.active
Select ==
  /\ pc = "select" /\ Readable # {}
  /\ pc' = "input" /\ ready' = Readable
  /\ UNCHANGED <<s, kernel, flags, pending, disable_dynamic_updates, faults>>

Ended(t) == t.io.halt # ""
Input ==
  /\ pc = "input"
  /\ \E rule \in NewRules : s' = input_handler(s, ready, rule, disable_dynamic_updates)
  /\ pc' = IF Ended(s') THEN "ended" ELSE "timer"
  /\ ready' = {}
  /\ UNCHANGED <<kernel, flags, pending, disable_dynamic_updates, faults>>

\* The timer of the interfaces is due.
Due == Interval > 0 /\ s.wait <= 1
Ticked == [s EXCEPT !.wait = IF Due THEN Interval ELSE IF @ = 0 THEN 0 ELSE @ - 1]
\* Datagrams on a socket that is closed are lost.
Lost(t) == [t EXCEPT !.rx = SelectSeq(@, LAMBDA d : d.fd \in t.io.open)]
\* timer_interfacetimeout and interface_update.  What can fail counts as an
\* event.
Timer ==
  /\ pc = "timer" /\ "ALRM" \in flags
  /\ IF ~Due \/ disable_dynamic_updates THEN s' = Ticked /\ UNCHANGED faults
     ELSE \E refused \in {{}, {NoSocket}} \union {{<<Nics[i].addr, port>>} : i \in kernel, port \in {NTP_PORT, extra_port}},
             scan \in {{NTP_PORT, extra_port}, {NTP_PORT}, {}}, r \in RoutesOf(kernel) :
            /\ faults' = faults + (IF refused = {} THEN 0 ELSE 1) + (IF Cardinality(scan) = 2 THEN 0 ELSE 1)
            /\ faults' <= MaxFaults
            /\ s' = Lost(update_interfaces(Ticked, UpNics(kernel), refused, scan, r))
  /\ flags' = flags \ {"ALRM"}
  /\ pc' = IF Ended(s') THEN "ended" ELSE "dns"
  /\ UNCHANGED <<kernel, ready, pending, disable_dynamic_updates>>
NoTimer ==
  /\ pc = "timer" /\ "ALRM" \notin flags
  /\ pc' = "dns"
  /\ UNCHANGED <<s, kernel, ready, flags, pending, disable_dynamic_updates, faults>>
\* dns_check is in Associations.
Dns ==
  /\ pc = "dns"
  /\ pc' = "hup" /\ flags' = flags \ {"DNS"}
  /\ UNCHANGED <<s, kernel, ready, pending, disable_dynamic_updates, faults>>
\* The files that are looked at are in LeapSeconds and NtsExchange.
Hup ==
  /\ pc = "hup"
  /\ pc' = "top" /\ flags' = flags \ {"HUP"}
  /\ UNCHANGED <<s, kernel, ready, pending, disable_dynamic_updates, faults>>

Handler == Input \/ Timer
Step == Top \/ Block \/ Test \/ Enter \/ Select \/ NoTimer \/ Dns \/ Hup
Next == Handler \/ Step \/ Alarm \/ Signal \/ Datagram \/ ClockInput \/ NicChanges \/ Unanswered \/ Unheard
\* The process runs: its steps are taken and its handlers, which nothing can
\* hold up, come to their end.  The interval timer expires again and again, and
\* servers are polled on.
Fairness == WF_vars(Step) /\ []<>(pc # "input") /\ []<>(pc # "timer") /\ WF_vars(Alarm) /\ WF_vars(Unheard)
Spec == Init /\ [][Next]_vars /\ Fairness

-----------------------------------------------------------------------------
(* Properties.                                                               *)

Eps == {s.io.eps[i] : i \in DOMAIN s.io.eps}

\* The pointers of associations and interfaces agree: the interface of an
\* association is in the list, is not a wildcard, and has the association among
\* its peers; no interface has another (set_peerdstadr, phase 2).
PeersAttached ==
  /\ \A p \in DOMAIN Peers : s.peers[p].dst # 0 => \E e \in Eps : e.at = s.peers[p].dst /\ ~e.wild
  /\ \A e \in Eps : e.peers = {p \in DOMAIN Peers : s.peers[p].dst = e.at}

\* No address has two sockets; the list of addresses, the open descriptors, the
\* descriptors select() is asked about and the largest of them all agree with
\* the list of interfaces (create_interface, remove_interface,
\* maintain_activefds).
SocketsAgree ==
  pc # "ended" =>
    /\ \A i, j \in DOMAIN s.io.eps : i # j =>
         <<s.io.eps[i].addr, s.io.eps[i].port>> # <<s.io.eps[j].addr, s.io.eps[j].port>> /\ s.io.eps[i].fd # s.io.eps[j].fd
    /\ ToSet(s.io.addrs) = {[addr |-> e.addr, port |-> e.port, at |-> e.at] : e \in Eps}
    /\ s.io.open = {e.fd : e \in Eps} \union ({s.io.routing, s.io.clock} \ {0})
    /\ s.io.active \in {s.io.open, s.io.open \ {s.io.clock}}
    /\ \A fd \in s.io.active : fd <= s.io.maxactivefd

\* Every receive buffer is back when a handler is done: the pool never runs
\* short, though nothing would enlarge it (get_free_recv_buffer).
NoShortfall == s.bufs = [free |-> RECV_INIT, shortfall |-> 0]

\* After every step of the main loop, and whatever interfaces came and went and
\* failed to open meanwhile, the associations, the interfaces, the descriptors
\* and the receive buffers agree.  A step that ends ntpd is not looked at
\* for its descriptors: one in which no socket can be had, and one which closes
\* the last active descriptor, where the assertion of maintain_activefds fails.
IoConsistent == PeersAttached /\ SocketsAgree /\ NoShortfall

\* ntpd does not sleep on a signal that its handler has noted: from the test
\* of the flags to pselect the signals are blocked, so that one which comes
\* between the two ends the sleep (io_handler, init_io).  SIGDNS is not blocked
\* and may slip in there; it waits for the next alarm or packet.
AwakeWhenFlagged == pc = "select" => flags \subseteq {"DNS"}

\* When the kernel's interfaces have come to rest, ntpd listens on the
\* addresses that are up and the rules ask for, on them only, and a server has an
\* interface if one can be used (update_interfaces, at the latest after
\* interface_interval).
Wanted ==
  {<<Nics[i].addr, port>> : i \in {i \in kernel : Nics[i].addr.n # 0
     /\ interface_action(s.rules, Nics[i].name, Nics[i].addr, Nics[i].loop) # "ignore"}, port \in {NTP_PORT, extra_port} \ {0}}
Followed ==
  /\ {<<e.addr, e.port>> : e \in {e \in Eps : ~e.wild}} = Wanted
  /\ \A p \in DOMAIN Peers : Peers[p].kind = "server" =>
       (s.peers[p].dst = 0 <=> \A e \in Eps : ~Usable(e, Peers[p].af))
FollowsKernel == (~disable_dynamic_updates /\ Interval > 0) => <>[](pc = "ended" \/ Followed)
=============================================================================
