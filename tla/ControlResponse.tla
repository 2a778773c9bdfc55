-------------------------- MODULE ControlResponse --------------------------
(***************************************************************************)
(* How ntpd answers a mode 6 request (ntp_control.c): the request is taken *)
(* apart into names, a handler puts items into the response packet, full   *)
(* packets are sent on the way, and the last one or an error ends it.      *)
(*                                                                         *)
(* An item is a tag=value pair, a record [tag, a, t] whose text is the     *)
(* item itself, once for each octet; what numbers and strings look like is *)
(* left out.  A handler's result is [put, end]: the sequence of items it   *)
(* puts and how it ends, with "flush", with an error code or with          *)
(* "nothing".                                                              *)
(***************************************************************************)
EXTENDS Naturals, SequencesExt

CONSTANTS
  CTL_MAX_DATA_LEN, MAXDATALINELEN,
  Octets,            \* tag -> length of an item's text
  sys_var,           \* Seq([name, def]): the system's variables
  ext_sys_var,       \* Seq([name, def]): "setvar"
  peer_var,          \* Seq([name, def]): an association's variables, by code
  clock_var,         \* Seq([name, def]): a clock's variables, by code
  peer_list,         \* Seq([associd, refclock, put, kv]): what an association has values of
  sys_peer           \* associd of the system peer, 0 for none

Item(tag, a, t) == [tag |-> tag, a |-> a, t |-> t]
Named(tag) == Item(tag, 0, 0)
Comma == Named(",")
Space == Named(" ")
CrLf == <<Named("\r"), Named("\n")>>
Separators == {Comma, Space} \union ToSet(CrLf)
Text(x) == [k \in 1 .. Octets[x.tag] |-> x]

-----------------------------------------------------------------------------
(* The packet under construction.                                            *)

\* process_control: "text" is datanotbinflag, "line" datalinelen.
Packet == [data |-> << >>, offset |-> 0, frags |-> 1, line |-> 0, sent |-> FALSE, text |-> FALSE, out |-> << >>]

ctl_flushpkt(b, more) ==
  LET end  == IF ~more /\ b.text /\ Len(b.data) + 2 < CTL_MAX_DATA_LEN THEN CrLf ELSE << >>
      data == b.data \o end
  IN [b EXCEPT !.out = Append(@, [more |-> more, offset |-> b.offset, data |-> data]),
               !.frags = @ + 1, !.offset = @ + Len(data), !.data = << >>]

\* The loop of ctl_putdata: what has no room goes to the next packets.
RECURSIVE Fill(_, _, _)
Fill(b, text, overhead) ==
  LET n == Min({Max({0, CTL_MAX_DATA_LEN - Len(b.data)}), Len(text)})
      c == [b EXCEPT !.data = @ \o SubSeq(text, 1, n), !.line = @ + n]
  IN IF Len(text) + overhead + Len(b.data) > CTL_MAX_DATA_LEN
     THEN Fill(ctl_flushpkt(c, TRUE), SubSeq(text, n + 1, Len(text)), overhead)
     ELSE [b EXCEPT !.data = @ \o text, !.line = @ + Len(text), !.sent = TRUE]

\* Mutant: no room is kept for what separates the next item from this one.
ctl_putdata_Tight(b, x) ==
  LET long == Octets[x.tag] + b.line + 2 >= MAXDATALINELEN
      c    == [b EXCEPT !.text = TRUE]
  IN Fill(IF ~b.sent THEN c
          ELSE [c EXCEPT !.data = @ \o <<Comma>> \o (IF long THEN CrLf ELSE <<Space>>),
                         !.line = IF long THEN 0 ELSE @ + 2], Text(x), 0)
\* ctl_putdata of text; the separator goes into room the last call has kept.
ctl_putdata(b, x) ==
  LET long == Octets[x.tag] + b.line + 2 >= MAXDATALINELEN
      c    == [b EXCEPT !.text = TRUE]
  IN Fill(IF ~b.sent THEN c
          ELSE [c EXCEPT !.data = @ \o <<Comma>> \o (IF long THEN CrLf ELSE <<Space>>),
                         !.line = IF long THEN 0 ELSE @ + 2], Text(x), 3)
ctl_putbin(b, x) == Fill(b, Text(x), 0)

RECURSIVE PutAll(_, _)
PutAll(b, items) ==
  IF items = << >> THEN b
  ELSE PutAll(IF Head(items).tag = "assoc" THEN ctl_putbin(b, Head(items)) ELSE ctl_putdata(b, Head(items)), Tail(items))

\* The packets of a response; an error packet says nothing of what was sent
\* before it.
Packets(r) ==
  LET b == PutAll(Packet, r.put)
      packet(f) == [kind |-> "data", more |-> f.more, offset |-> f.offset, data |-> f.data]
      sent(out) == {packet(out[i]) : i \in DOMAIN out}
  IN CASE r.end = "nothing" -> {}
       [] r.end = "flush"   -> sent(ctl_flushpkt(b, FALSE).out)
       [] OTHER             -> sent(b.out) \union {[kind |-> r.end, more |-> FALSE, offset |-> 0, data |-> << >>]}

Answer(items) == [put |-> items, end |-> "flush"]
ctl_error(code) == [put |-> << >>, end |-> code]

-----------------------------------------------------------------------------
(* The names in a request: a sequence of [name, size], where size says       *)
(* whether an assigned value "fits" the buffer, has its very length ("edge") *)
(* or is longer ("long"); a name "" is an empty field.                       *)

Names(list) == {list[i].name : i \in DOMAIN list}
\* ctl_getitem stops a request one octet earlier than ctl_getitem2 does, and
\* does not skip empty fields.
ctl_getitem(list, req) ==
  IF req[1].size # "fits" THEN [got |-> "null", rest |-> << >>]
  ELSE IF req[1].name \in Names(list) THEN [got |-> req[1].name, rest |-> Tail(req)]
  ELSE [got |-> "eov", rest |-> req]
RECURSIVE ctl_getitem2(_, _)
ctl_getitem2(list, req) ==
  IF req = << >> THEN [got |-> "null", rest |-> << >>]
  ELSE IF req[1].name = "" THEN ctl_getitem2(list, Tail(req))
  ELSE IF req[1].size = "long" THEN [got |-> "null", rest |-> << >>]
  ELSE IF req[1].name \in Names(list) THEN [got |-> req[1].name, rest |-> Tail(req)]
  ELSE [got |-> "eov", rest |-> req]

Default(list) == SelectSeq(list, LAMBDA v : v.def)
ctl_putsys(name) == <<Named(name)>>
Each(list, put(_)) == FlattenSeq([i \in DOMAIN list |-> put(list[i].name)])

\* read_sysvars puts a variable as soon as it is named; a name that is not
\* known ends the response with an error, a value that is too long ends it.
RECURSIVE NamedSys(_, _)
NamedSys(req, put) ==
  LET g  == ctl_getitem(sys_var, req)
      g2 == ctl_getitem2(ext_sys_var, req)
  IN IF req = << >> \/ g.got = "null" THEN Answer(put)
     ELSE IF g.got # "eov" THEN NamedSys(g.rest, put \o ctl_putsys(g.got))
     ELSE IF g2.got = "null" THEN [put |-> put, end |-> "BADVALUE"]
     ELSE IF g2.got = "eov" THEN [put |-> put, end |-> "UNKNOWNVAR"]
     ELSE NamedSys(g2.rest, Append(put, Named(g2.got)))
read_sysvars(req) ==
  IF req = << >> THEN Answer(Each(Default(sys_var), ctl_putsys) \o Each(Default(ext_sys_var), ctl_putsys))
  ELSE NamedSys(req, << >>)

\* The names of a list a request asks for; "null" ends the search.
RECURSIVE Wanted(_, _)
Wanted(list, req) ==
  LET g == ctl_getitem2(list, req)
  IN IF g.got = "null" THEN [ok |-> TRUE, names |-> {}]
     ELSE IF g.got = "eov" THEN [ok |-> FALSE, names |-> {}]
     ELSE LET w == Wanted(list, g.rest) IN [w EXCEPT !.names = @ \union {g.got}]

findpeerbyassoc(id) == SelectSeq(peer_list, LAMBDA p : p.associd = id)
\* A variable the association has no value of is not put (srcadr of an
\* unresolved name, bias, mode); srchost of a clock with a host name would be
\* put twice.
ctl_putpeer(p, name) == [i \in 1 .. p.put[name] |-> Named(name)]
PeerVars(p, list) == Each(list, LAMBDA n : ctl_putpeer(p, n))
In(list, names) == SelectSeq(list, LAMBDA v : v.name \in names)

read_peervars(id, req) ==
  LET found == findpeerbyassoc(id)
      w     == Wanted(peer_var, req)
  IN IF found = << >> THEN ctl_error("BADASSOC")
     ELSE IF ~w.ok THEN ctl_error("UNKNOWNVAR")
     ELSE Answer(PeerVars(found[1], IF w.names = {} THEN Default(peer_var) ELSE In(peer_var, w.names)))

\* read_status: a list of associations is binary.
read_status(id) ==
  LET found == findpeerbyassoc(id)
  IN IF id = 0 THEN Answer([i \in DOMAIN peer_list |-> Item("assoc", peer_list[i].associd, 0)])
     ELSE IF found = << >> THEN ctl_error("BADASSOC")
     ELSE Answer(PeerVars(found[1], Default(peer_var)))

control_unspec(id) ==
  IF id # 0 /\ findpeerbyassoc(id) = << >> THEN ctl_error("BADASSOC") ELSE Answer(<< >>)

\* A clock's variable it has no value of is put when it was asked for by name
\* (mustput).
ctl_putclock(p, name, mustput) == IF mustput \/ p.put[name] > 0 THEN <<Named(name)>> ELSE << >>
ClockOf(id) ==
  LET clocks == SelectSeq(peer_list, LAMBDA p : p.refclock)
      system == SelectSeq(clocks, LAMBDA p : p.associd = sys_peer)
  IN IF id # 0 THEN SelectSeq(clocks, LAMBDA p : p.associd = id) ELSE IF system # << >> THEN system ELSE clocks
\* Names are looked for among the clock's variables, then in the driver's.
read_clockstatus(id, req) ==
  LET found == ClockOf(id)
      p     == found[1]
      w     == Wanted(clock_var \o p.kv, req)
  IN IF found = << >> THEN ctl_error("BADASSOC")
     ELSE IF ~w.ok THEN ctl_error("UNKNOWNVAR")
     ELSE IF w.names # {}
     THEN Answer(Each(In(clock_var, w.names), LAMBDA n : ctl_putclock(p, n, TRUE)) \o Each(In(p.kv, w.names), ctl_putsys))
     ELSE Answer(Each(Default(clock_var), LAMBDA n : ctl_putclock(p, n, FALSE)) \o Each(Default(p.kv), ctl_putsys))

\* The text is taken whole or refused; ok says whether it parses.
configure(id, nomodify, fits, ok) ==
  IF id # 0 THEN ctl_error("BADVALUE")
  ELSE Answer(<<Named(IF nomodify THEN "prohibited" ELSE IF ~fits THEN "too long" ELSE IF ok THEN "succeeded" ELSE "errors")>>)

\* The restrictions or the interfaces, an item for the values of each.
read_ordlist(what, n) ==
  IF what = "other" THEN ctl_error("UNKNOWNVAR") ELSE Answer([i \in 1 .. n |-> Item("row", i, 0)])
=============================================================================
