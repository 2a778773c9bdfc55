----------------------------- MODULE Interfaces -----------------------------
(***************************************************************************)
(* The local addresses ntpd listens on (ntp_io.c) as operators on a state: *)
(* the endpoint list, the list of addresses, the descriptors select() is   *)
(* asked about, the rules of the configuration and the interface each      *)
(* association sends from.                                                 *)
(*                                                                         *)
(* An endpoint is [at, addr, port, wild, loop, ignore, inuse, fd, peers]:  *)
(* "at" is its place in memory, which is used again once it is freed.  An  *)
(* address is [af, n]; n = 0 is the wildcard and distances are those of    *)
(* the numbers.  A network interface of the kernel is [name, addr, loop].  *)
(***************************************************************************)
EXTENDS Naturals, SequencesExt

CONSTANTS
  NTP_PORT, extra_port,      \* extra_port 0: not used
  FD_SETSIZE,
  Peers,                     \* association -> [kind : {"clock", "server", "pool"}, af]
  RECV_INIT                  \* receive buffers

Families == {4, 6}
Addr(af, n) == [af |-> af, n |-> n]
is_wildcard_addr(a) == a.n = 0
Lowest(S) == CHOOSE n \in S : \A m \in S : n <= m
Free(used) == Lowest(1 .. Cardinality(used) + 1 \ used)

-----------------------------------------------------------------------------
(* Descriptors: open is fd_list.  "halt" says how the process ended.         *)

maintain_activefds(io, fd, closing) ==
  IF fd >= FD_SETSIZE THEN [io EXCEPT !.halt = "exit"]
  ELSE IF ~closing
  THEN [io EXCEPT !.active = @ \union {fd}, !.maxactivefd = IF fd > @ THEN fd ELSE @]
  ELSE LET left == io.active \ {fd}
       IN IF io.maxactivefd = 0 \/ fd # io.maxactivefd THEN [io EXCEPT !.active = left]
          ELSE IF left = {} THEN [io EXCEPT !.active = left, !.halt = "INSIST"]
          ELSE [io EXCEPT !.active = left, !.maxactivefd = CHOOSE n \in left : \A m \in left : m <= n]
add_fd_to_list(io, fd) == maintain_activefds([io EXCEPT !.open = @ \union {fd}], fd, FALSE)
close_and_delete_fd_from_list(io, fd) ==
  IF fd \notin io.open THEN io ELSE maintain_activefds([io EXCEPT !.open = @ \ {fd}], fd, TRUE)

-----------------------------------------------------------------------------
(* Rules, the newest first: [match, arg, action].  The addresses of a rule   *)
(* for an address or a prefix are the set arg, a name is a string.           *)

Matches(r, name, addr, loop) ==
  CASE r.match = "all"      -> ~loop /\ ~is_wildcard_addr(addr)
    [] r.match = "ipv4"     -> addr.af = 4
    [] r.match = "ipv6"     -> addr.af = 6
    [] r.match = "wildcard" -> is_wildcard_addr(addr)
    [] r.match = "ifaddr"   -> addr \in r.arg
    [] r.match = "ifname"   -> name = r.arg
\* interface_action; that virtual addresses are not listened on (-L) is left
\* out.
interface_action(rules, name, addr, loop) ==
  LET matching == SelectSeq(rules, LAMBDA r : Matches(r, name, addr, loop))
  IN IF matching # << >> THEN Head(matching).action
     ELSE IF loop THEN "listen" ELSE IF is_wildcard_addr(addr) THEN "drop"
     ELSE IF rules = << >> THEN "listen" ELSE "ignore"
add_nic_rule(rules, r) == <<r>> \o rules

-----------------------------------------------------------------------------
(* Endpoints.                                                                *)

At(io, at) == CHOOSE i \in DOMAIN io.eps : io.eps[i].at = at
Endpoint(io, at) == io.eps[At(io, at)]
find_addr_in_list(io, addr, port) ==
  LET same == SelectSeq(io.addrs, LAMBDA e : e.addr = addr /\ e.port = port)
  IN IF same = << >> THEN 0 ELSE same[1].at
getinterface(io, addr, port) ==
  LET at == find_addr_in_list(io, addr, port)
  IN IF at # 0 /\ ~Endpoint(io, at).wild THEN at ELSE 0
wildcard_interface(io, af, port) ==
  LET wild == {i \in DOMAIN io.eps : io.eps[i].wild /\ io.eps[i].addr.af = af /\ io.eps[i].port = port}
  IN IF wild = {} THEN 0 ELSE io.eps[CHOOSE i \in wild : TRUE].at

new_interface(io, addr, port, loop, ignore, wild) ==
  [at |-> Free({io.eps[i].at : i \in DOMAIN io.eps}), addr |-> addr, port |-> port, wild |-> wild, loop |-> loop,
   ignore |-> ignore, inuse |-> ~wild, fd |-> 0, peers |-> {}]
add_addr_to_list(addrs, ep) == <<[addr |-> ep.addr, port |-> ep.port, at |-> ep.at]>> \o addrs
delete_interface_from_list(addrs, ep) == SelectSeq(addrs, LAMBDA a : a.at # ep.at)
\* refused is the set of addresses and ports that cannot be bound; with NoSocket
\* in it, socket() fails.  The socket takes the lowest free descriptor.
NoSocket == <<Addr(0, 0), 0>>
open_socket(io, addr, port, refused) ==
  LET fd == Free(io.open)
  IN IF NoSocket \in refused THEN [fd |-> 0, io |-> [io EXCEPT !.halt = "exit"]]
     ELSE IF <<addr, port>> \in refused THEN [fd |-> 0, io |-> io]
     ELSE [fd |-> fd, io |-> add_fd_to_list(io, fd)]
\* add_interface puts the new one at the end.
create_interface(io, new, refused) ==
  LET o  == open_socket(io, new.addr, new.port, refused)
      ep == [new EXCEPT !.fd = o.fd]
  IN IF o.fd = 0 THEN o.io
     ELSE [o.io EXCEPT !.eps = Append(@, ep), !.addrs = add_addr_to_list(o.io.addrs, ep),
                       !.loopback = IF @ = 0 /\ ep.addr.af = 4 /\ ep.loop THEN ep.at ELSE @]

create_wildcards(io, rules, port) ==
  LET with(o, af) ==
        LET action == interface_action(rules, "", Addr(af, 0), FALSE)
        IN IF action = "ignore" THEN o
           ELSE create_interface(o, new_interface(o, Addr(af, 0), port, FALSE, action = "drop", TRUE), {})
  IN with(with(io, 6), 4)

\* Mutant: the old interface keeps the association among its peers.
set_peerdstadr_Linked(s, p, at) ==
  LET old  == s.peers[p].dst
      link == IF at = 0 THEN s.io.eps ELSE [s.io.eps EXCEPT ![At(s.io, at)].peers = @ \union {p}]
  IN IF old = at THEN s ELSE [s EXCEPT !.io.eps = link, !.peers[p].dst = at]
\* set_peerdstadr: 0 is no interface.
set_peerdstadr(s, p, at) ==
  LET old    == s.peers[p].dst
      unlink == IF old = 0 THEN s.io.eps
                ELSE [s.io.eps EXCEPT ![At(s.io, old)].peers = @ \ {p}]
      link   == IF at = 0 THEN unlink ELSE [unlink EXCEPT ![At(s.io, at)].peers = @ \union {p}]
  IN IF old = at THEN s ELSE [s EXCEPT !.io.eps = link, !.peers[p].dst = at]

-----------------------------------------------------------------------------
(* The scan of the kernel's interfaces (phase 1).                            *)

\* An address that is known: of several interfaces with the address one that
\* is dropped disables it.
Present(io, i, ignore) ==
  [io EXCEPT !.eps[i].ignore = IF io.eps[i].inuse THEN @ \/ ignore ELSE ignore, !.eps[i].inuse = TRUE]
\* One interface of the kernel.
Examine(s, nic, port, refused) ==
  LET action == interface_action(s.rules, nic.name, nic.addr, nic.loop)
      at     == getinterface(s.io, nic.addr, port)
      io     == create_interface(s.io, new_interface(s.io, nic.addr, port, nic.loop, action = "drop", FALSE), refused)
  IN IF action = "ignore" \/ is_wildcard_addr(nic.addr) THEN s
     ELSE IF at # 0 THEN [s EXCEPT !.io = Present(s.io, At(s.io, at), action = "drop")]
     ELSE [s EXCEPT !.io = io, !.new = @ \/ Len(io.eps) > Len(s.io.eps)]
RECURSIVE update_interfaces_phase1(_, _, _, _)
update_interfaces_phase1(s, nics, port, refused) ==
  IF nics = << >> THEN s
  ELSE update_interfaces_phase1(Examine(s, Head(nics), port, refused), Tail(nics), port, refused)

update_interfaces_phase0(io) == [io EXCEPT !.eps = << >> \o [i \in DOMAIN io.eps |-> [io.eps[i] EXCEPT !.inuse = FALSE]]]

remove_interface(io, ep) ==
  LET o == close_and_delete_fd_from_list(io, ep.fd)
  IN [o EXCEPT !.eps = SelectSeq(@, LAMBDA e : e.at # ep.at), !.addrs = delete_interface_from_list(o.addrs, ep)]
\* The interface, its peers' pointers to it and the loopback interface.
Removed(s, ep) ==
  LET o == remove_interface(s.io, ep)
  IN [s EXCEPT !.io = [o EXCEPT !.loopback = IF @ = ep.at THEN 0 ELSE @],
               !.peers = [p \in DOMAIN Peers |-> IF p \in ep.peers THEN [s.peers[p] EXCEPT !.dst = 0] ELSE s.peers[p]]]
RECURSIVE RemoveAll(_, _)
RemoveAll(s, eps) == IF eps = << >> THEN s ELSE RemoveAll(Removed(s, Head(eps)), Tail(eps))
update_interfaces_phase2(s) == RemoveAll(s, SelectSeq(s.io.eps, LAMBDA e : ~e.wild /\ ~e.inuse))

-----------------------------------------------------------------------------
(* The interface of an association.  route has the local address the kernel  *)
(* takes for a destination of a family, << >> when there is no route.        *)

Usable(ep, af) == ~ep.ignore /\ ep.addr.af = af /\ ~ep.wild /\ ~ep.loop
calc_addr_distance(a, b) == IF a.n > b.n THEN a.n - b.n ELSE b.n - a.n
\* The first of the closest in the list.
findclosestinterface(io, addr) ==
  LET c == {i \in DOMAIN io.eps : Usable(io.eps[i], addr.af)}
      dist(i) == calc_addr_distance(addr, io.eps[i].addr)
  IN IF c = {} THEN 0
     ELSE io.eps[CHOOSE i \in c : \A j \in c : dist(i) < dist(j) \/ (dist(i) = dist(j) /\ i <= j)].at
\* findlocalinterface asks for the address with the port the kernel gave the
\* probing socket, which no entry of the list has; so the closest one is taken.
findlocalinterface(io, af, route) ==
  IF route[af] = << >> THEN 0 ELSE findclosestinterface(io, route[af][1])
\* The wildcard interface is not taken.
select_peerinterface(io, p, route) ==
  LET wild == wildcard_interface(io, Peers[p].af, NTP_PORT)
      ep   == IF Peers[p].kind = "clock" THEN io.loopback ELSE wild
  IN IF ep = wild THEN findlocalinterface(io, Peers[p].af, route) ELSE ep

\* Mutant: the association keeps the interface it has.
peer_refresh_interface_Keep(s, p, route) ==
  LET at == select_peerinterface(s.io, p, route)
  IN IF s.peers[p].dst # 0 \/ at = 0 THEN s ELSE set_peerdstadr(s, p, at)
\* peer_clear, when there is a new interface, forgets what was heard.
peer_refresh_interface(s, p, route) ==
  LET at == select_peerinterface(s.io, p, route)
      t  == set_peerdstadr(s, p, at)
  IN IF at # 0 /\ at # s.peers[p].dst THEN [t EXCEPT !.peers[p].reach = FALSE] ELSE t
RECURSIVE RefreshAll(_, _, _)
RefreshAll(s, todo, route) ==
  IF todo = {} THEN s
  ELSE LET p == CHOOSE p \in todo : TRUE IN RefreshAll(peer_refresh_interface(s, p, route), todo \ {p}, route)
\* refresh_all_peerinterfaces; an interface one of the last two polls was
\* answered on is kept.
refresh_all_peerinterfaces(s, route) ==
  RefreshAll(s, {p \in DOMAIN Peers : Peers[p].kind # "pool" /\ ~(s.peers[p].dst # 0 /\ s.peers[p].reach)}, route)

\* scan: the ports whose enumeration succeeds.
update_interfaces(s, nics, refused, scan, route) ==
  LET s0 == [s EXCEPT !.io = update_interfaces_phase0(s.io), !.new = FALSE]
      s1 == IF extra_port # 0 /\ extra_port \in scan THEN update_interfaces_phase1(s0, nics, extra_port, refused) ELSE s0
      s2 == IF NTP_PORT \in scan THEN update_interfaces_phase1(s1, nics, NTP_PORT, refused) ELSE s1
  IN refresh_all_peerinterfaces(update_interfaces_phase2(s2), route)

\* init_io and io_open_sockets: "routing" is the descriptor of the routing
\* socket, 0 when it could not be opened; clock the one of a clock.
create_sockets(rules, nics, route) ==
  LET none == [eps |-> << >>, addrs |-> << >>, open |-> {}, active |-> {}, maxactivefd |-> 0, loopback |-> 0,
               routing |-> 0, clock |-> 0, halt |-> ""]
      w    == create_wildcards(none, rules, NTP_PORT)
      io   == IF extra_port = 0 THEN w ELSE create_wildcards(w, rules, extra_port)
      s    == [io |-> io, rules |-> rules, peers |-> [p \in DOMAIN Peers |-> [dst |-> 0, reach |-> FALSE]], new |-> FALSE]
  IN update_interfaces(s, nics, {}, {NTP_PORT, extra_port}, route)
init_async_notifications(io, ok) ==
  IF ok THEN [add_fd_to_list(io, Free(io.open)) EXCEPT !.routing = Free(io.open)] ELSE io
io_addclock(io) == [add_fd_to_list(io, Free(io.open)) EXCEPT !.clock = Free(io.open)]

-----------------------------------------------------------------------------
(* Reading.  A datagram has a kind: "answer" of the server an association    *)
(* polls, "rule" (a request to configure a rule), "own" (it claims to come   *)
(* from ::1) or "error" (the read fails).  bufs has the receive buffers.     *)

get_free_recv_buffer(s) ==
  IF s.bufs.free > 0 THEN [s EXCEPT !.bufs.free = @ - 1] ELSE [s EXCEPT !.bufs.shortfall = @ + 1]
freerecvbuf(s) == [s EXCEPT !.bufs.free = @ + 1]

\* receive, as far as it concerns this module.  A rule is followed by an
\* update two seconds later.
receive(s, ep, kind, rule) ==
  IF kind = "rule" THEN [s EXCEPT !.rules = add_nic_rule(s.rules, rule), !.wait = 2]
  ELSE IF kind = "answer"
  THEN [s EXCEPT !.peers = [p \in DOMAIN Peers |-> IF p \in ep.peers /\ Peers[p].kind = "server"
                                                     THEN [s.peers[p] EXCEPT !.reach = TRUE] ELSE s.peers[p]]]
  ELSE s
read_network_packet(s, ep, kind, rule) ==
  LET got == s.bufs.free > 0
      t   == get_free_recv_buffer(s)
  IN IF ~got \/ ep.ignore THEN IF got THEN freerecvbuf(t) ELSE t
     ELSE IF kind = "error" THEN freerecvbuf(t)
     ELSE IF kind = "own" /\ ep.addr.af = 6 /\ ~ep.loop THEN freerecvbuf(t)
     ELSE freerecvbuf(receive(t, ep, kind, rule))
\* The loop over one endpoint ends with the queue or at a read that fails.
RECURSIVE Drain(_, _, _)
Drain(s, ep, rule) ==
  LET mine == {i \in DOMAIN s.rx : s.rx[i].fd = ep.fd}
      i    == Lowest(mine)
      t    == read_network_packet(s, ep, s.rx[i].kind, rule)
      u    == [t EXCEPT !.rx = RemoveAt(@, i)]
  IN IF mine = {} THEN s ELSE IF s.rx[i].kind = "error" THEN u ELSE Drain(u, ep, rule)
RECURSIVE DrainAll(_, _, _, _)
DrainAll(s, eps, ready, rule) ==
  IF eps = << >> THEN s
  ELSE DrainAll(IF Head(eps).fd \in ready THEN Drain(s, Head(eps), rule) ELSE s, Tail(eps), ready, rule)

Without(rx, fd) == SelectSeq(rx, LAMBDA d : d.fd # fd)
\* A clock that has come to its end is not waited for any more.
ReadClock(s, ready) ==
  LET mine == SelectSeq(s.rx, LAMBDA d : d.fd = s.io.clock)
      t    == freerecvbuf(get_free_recv_buffer(s))
      u    == [t EXCEPT !.rx = Without(s.rx, s.io.clock)]
  IN IF s.io.clock \notin ready THEN s
     ELSE IF mine[1].kind = "eof" THEN [u EXCEPT !.io = maintain_activefds(s.io, s.io.clock, TRUE)] ELSE u
\* process_routing_msgs: the update comes UPDATE_GRACE (2) seconds later.  A
\* message may be lost ("full"); a socket that fails is given up.
process_routing_msgs(s, disable_dynamic_updates) ==
  LET fd   == s.io.routing
      kind == SelectSeq(s.rx, LAMBDA d : d.fd = fd)[1].kind
      off  == [s EXCEPT !.io = [close_and_delete_fd_from_list(s.io, fd) EXCEPT !.routing = 0], !.rx = Without(s.rx, fd)]
      u    == [s EXCEPT !.rx = Without(s.rx, fd)]
  IN IF disable_dynamic_updates \/ kind = "error" THEN off
     ELSE IF kind = "full" THEN u ELSE [u EXCEPT !.wait = 2]
\* Clocks, then endpoints, then the routing socket.
input_handler(s, ready, rule, disable_dynamic_updates) ==
  LET a == ReadClock(s, ready)
      b == DrainAll(a, a.io.eps, ready, rule)
  IN IF b.io.routing \in ready THEN process_routing_msgs(b, disable_dynamic_updates) ELSE b
=============================================================================
