--------------------------- MODULE MCAssociations ---------------------------
(* Instances of Associations for TLC. *)
EXTENDS Associations

CONSTANTS nSlots, nAddrs, h1, h2, ConfigNames

MCSlots == 1 .. nSlots
MCFirstFree == [i \in 1 .. nSlots |-> i]
MCAddrs == 101 .. 100 + nAddrs
MCHosts == {h1, h2}
\* h1 and h2 share the last address.
MCAddrsOf == [h \in MCHosts |-> IF h = h1 THEN MCAddrs ELSE {100 + nAddrs}]

ServerLine(h, a) == [pool |-> FALSE, host |-> h, addr |-> a, nts |-> FALSE, noselect |-> FALSE]
MenuOfLines ==
  [server1  |-> ServerLine(h1, None),
   server2  |-> ServerLine(h2, None),
   noselect |-> [ServerLine(h2, None) EXCEPT !.noselect = TRUE],
   numeric  |-> ServerLine(None, 101),
   numnts   |-> [ServerLine(None, 101) EXCEPT !.nts = TRUE],
   nts2     |-> [ServerLine(h2, None) EXCEPT !.nts = TRUE],
   pool     |-> [ServerLine(h1, None) EXCEPT !.pool = TRUE],
   ntspool  |-> [ServerLine(h1, None) EXCEPT !.pool = TRUE, !.nts = TRUE]]
MCLines == {MenuOfLines[n] : n \in ConfigNames}
=============================================================================
