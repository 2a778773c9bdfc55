----------------------------- MODULE MCMainLoop -----------------------------
(***************************************************************************)
(* Instances of MainLoop: a loopback, two interfaces that share an address *)
(* and one with an IPv6 address; a clock, a server of each family.         *)
(***************************************************************************)
EXTENDS MainLoop

Nic(name, af, n, loop) == [name |-> name, addr |-> Addr(af, n), loop |-> loop]
MCNics == <<Nic("lo", 4, 1, TRUE), Nic("eth0", 4, 5, FALSE), Nic("eth1", 4, 5, FALSE), Nic("eth2", 6, 7, FALSE)>>
MCChanging == {1, 2, 4}
MCAddressed == {<<Addr(4, 5), 124>>, <<Addr(6, 7), 123>>}
MCPeers == [c |-> [kind |-> "clock", af |-> 4], v4 |-> [kind |-> "server", af |-> 4], v6 |-> [kind |-> "server", af |-> 6]]
Rule(match, arg, action) == [match |-> match, arg |-> arg, action |-> action]
MCStartRules ==
  { << >>, <<Rule("wildcard", "", "ignore"), Rule("all", "", "listen")>>,
    <<Rule("ifname", "eth1", "drop"), Rule("ifaddr", {Addr(4, 5)}, "listen"), Rule("ipv6", "", "listen")>> }
MCNewRules == {Rule("ifname", "eth0", "ignore"), Rule("ipv4", "", "drop")}
=============================================================================
