---------------------------- MODULE RestrictList ----------------------------
(* The access control lists of ntpd (ntp_restrict.c): one list per address   *)
(* family, kept sorted so that the first entry that matches a packet's       *)
(* source is the one to use; the configuration lines that edit them, the     *)
(* entries that local interfaces add and the holes that associations poke.   *)
(*                                                                           *)
(* An address is a number of AddrBits bits and a mask the length of its      *)
(* prefix. Flags are sets: mflags say what an entry matches, flags what it   *)
(* restricts. The free lists of entries and the hit counters are left out.   *)
EXTENDS Integers, FiniteSets, SequencesExt

CONSTANTS
  Families,    \* address families, AF_INET and AF_INET6
  AddrBits,    \* bits of an address
  Lines,       \* the lines the operator may give, at startup or with ntpq
  Servers,     \* associations that may be mobilized: [fam, addr, auth]
  Locals       \* addresses of local interfaces that may come up: [fam, addr]

VARIABLES
  restrictlist,         \* family -> the sorted list of entries
  restrictcount,        \* number of entries of all lists
  res_limited_refcnt,   \* number of entries with RES_LIMITED
  mon_res,              \* MON_RES is set in mon_enabled
  restrict_source,      \* the template of "restrict source"
  peers,                \* mobilized associations
  endpoints             \* local interfaces that are open

vars == <<restrictlist, restrictcount, res_limited_refcnt, mon_res,
          restrict_source, peers, endpoints>>
lists == <<restrictlist, restrictcount, res_limited_refcnt, mon_res>>

Addresses == 0 .. 2^AddrBits - 1
RES_Default == {"NOQUERY", "LIMITED"}

Masked(a, len) == a - (a % 2^(AddrBits - len))
\* the bits of RESM_*, in their order
MValue(m) == (IF "INTERFACE" \in m THEN 1 ELSE 0) + (IF "NTPONLY" \in m THEN 2 ELSE 0)
               + (IF "SOURCE" \in m THEN 4 ELSE 0)

TheDefault(flags) == [addr |-> 0, len |-> 0, mflags |-> {}, flags |-> flags]
IsDefault(e) == e.len = 0 /\ e.mflags = {}

Init ==
  /\ restrictlist = [f \in Families |-> <<TheDefault(RES_Default)>>]
  /\ restrictcount = Cardinality(Families)
  /\ res_limited_refcnt = Cardinality(Families)
  /\ mon_res = TRUE
  /\ restrict_source = [enabled |-> FALSE, mflags |-> {}, flags |-> {}]
  /\ peers = {}
  /\ endpoints = {}

Matches(e, a, port) == /\ e.addr = Masked(a, e.len)
                       /\ "NTPONLY" \in e.mflags => port = "ntp"

\* The first matching entry of the list.
match_restrict_addr(list, a, port) == list[SelectInSeq(list, LAMBDA e : Matches(e, a, port))]

\* What restrictions() answers for a packet from this address and port.
restrictions(fam, a, port) == match_restrict_addr(restrictlist[fam], a, port).flags

\* The entry with exactly this address, mask and mflags; 0 when there is none.
match_restrict_entry(list, m) ==
  SelectInSeq(list, LAMBDA e : e.mflags = m.mflags /\ e.addr = m.addr /\ e.len = m.len)

res_sorts_before_NoMask(r1, r2) ==
  r1.addr > r2.addr \/ (r1.addr = r2.addr /\ MValue(r1.mflags) > MValue(r2.mflags))

res_sorts_before(r1, r2) ==
  \/ r1.addr > r2.addr
  \/ r1.addr = r2.addr /\ r1.len > r2.len
  \/ r1.addr = r2.addr /\ r1.len = r2.len /\ MValue(r1.mflags) > MValue(r2.mflags)

\* LINK_SORT_SLIST: before the first entry that the new one sorts before.
LinkSorted(list, e) ==
  LET i == SelectInSeq(list, LAMBDA cur : res_sorts_before(e, cur))
  IN InsertAt(list, IF i = 0 THEN Len(list) + 1 ELSE i, e)

-----------------------------------------------------------------------------
(* hack_restrict on one list. A state of the lists is a record: the list of  *)
(* the family, the number of entries, the count of limited entries.          *)

Limited(e) == IF "LIMITED" \in e.flags THEN 1 ELSE 0

RESTRICT_FLAGS(s, m) ==
  LET i == match_restrict_entry(s.list, m)
      merged == [s.list[i] EXCEPT !.flags = @ \cup m.flags]
  IN IF i = 0
     THEN [list |-> LinkSorted(s.list, m), count |-> s.count + 1, limited |-> s.limited + Limited(m)]
     ELSE [s EXCEPT !.list[i] = merged, !.limited = @ + Limited(merged) - Limited(s.list[i])]

RESTRICT_UNFLAG(s, m) ==
  LET i == match_restrict_entry(s.list, m)
      cleared == [s.list[i] EXCEPT !.flags = @ \ m.flags]
  IN IF i = 0 THEN s
     ELSE [s EXCEPT !.list[i] = cleared, !.limited = @ + Limited(cleared) - Limited(s.list[i])]

\* free_res, for an entry that may go
RESTRICT_REMOVE(s, m, removeif) ==
  LET i == match_restrict_entry(s.list, m)
  IN IF i = 0 THEN s
     ELSE IF IsDefault(s.list[i]) \/ (~removeif /\ "INTERFACE" \in s.list[i].mflags) THEN s
     ELSE [list |-> RemoveAt(s.list, i), count |-> s.count - 1, limited |-> s.limited - Limited(s.list[i])]

hack(s, op, m) ==
  CASE op = "FLAGS" -> RESTRICT_FLAGS(s, m)
    [] op = "UNFLAG" -> RESTRICT_UNFLAG(s, m)
    [] op = "REMOVE" -> RESTRICT_REMOVE(s, m, FALSE)
    [] op = "REMOVEIF" -> RESTRICT_REMOVE(s, m, TRUE)

Item(a, len, mflags, flags) ==
  [addr |-> Masked(a, len), len |-> len, mflags |-> mflags, flags |-> flags]

\* inc_res_limited sets MON_RES when it counts the first limited entry,
\* dec_res_limited clears it when it discounts the last one.
MonitorFollows(old, new) ==
  CASE old = 0 /\ new > 0 -> TRUE
    [] old > 0 /\ new = 0 -> FALSE
    [] OTHER -> mon_res

\* The operation on the lists of the families fams, one list after the other.
hack_restrict(fams, op, m) ==
  LET before(f) == [list |-> restrictlist[f], count |-> 0, limited |-> 0]
      after == [f \in fams |-> hack(before(f), op, m)]
      total(field) == FoldSet(LAMBDA f, n : after[f][field] + n, 0, fams)
  IN /\ restrictlist' = [f \in Families |-> IF f \in fams THEN after[f].list ELSE restrictlist[f]]
     /\ restrictcount' = restrictcount + total("count")
     /\ res_limited_refcnt' = res_limited_refcnt + total("limited")
     /\ mon_res' = MonitorFollows(res_limited_refcnt, res_limited_refcnt')

-----------------------------------------------------------------------------
(* The operations.                                                           *)

\* A "restrict" or "unrestrict" line; "restrict default" without a family is
\* done in both. "unrestrict" with neither flags nor ntpport removes the entry.
config_access(line) ==
  /\ hack_restrict(line.fams,
                   IF line.restrict THEN "FLAGS"
                     ELSE IF line.mflags = {} /\ line.flags = {} THEN "REMOVE" ELSE "UNFLAG",
                   Item(line.addr, line.len, line.mflags, line.flags))
  /\ UNCHANGED <<restrict_source, peers, endpoints>>

\* "restrict source": only the template changes, no hole that exists.
config_source(mflags, flags) ==
  /\ restrict_source' = [enabled |-> TRUE, mflags |-> mflags \cup {"SOURCE"}, flags |-> flags]
  /\ UNCHANGED <<lists, peers, endpoints>>

\* The packets of this association would be dropped as the lists are.
NeedPoke(p, res) ==
  "IGNORE" \in res.flags \/ ("NOTRUST" \in res.flags /\ ~p.auth)

\* restrict_source(), called once the association has its address.
Mobilize(p) ==
  LET res == match_restrict_addr(restrictlist[p.fam], p.addr, "ntp")
  IN /\ p \notin peers
     /\ ~\E q \in peers : q.fam = p.fam /\ q.addr = p.addr
     /\ peers' = peers \cup {p}
     /\ IF NeedPoke(p, res) /\ res.len # AddrBits /\ restrict_source.enabled
        THEN hack_restrict({p.fam}, "FLAGS",
                           Item(p.addr, AddrBits, restrict_source.mflags, restrict_source.flags))
        ELSE UNCHANGED lists
     /\ UNCHANGED <<restrict_source, endpoints>>

\* unpeer() calls unrestrict_source().
unpeer(p) ==
  LET res == match_restrict_addr(restrictlist[p.fam], p.addr, "ntp")
  IN /\ p \in peers
     /\ peers' = peers \ {p}
     /\ IF "SOURCE" \in res.mflags
        THEN hack_restrict({p.fam}, "REMOVE", Item(p.addr, AddrBits, {}, {}))
        ELSE UNCHANGED lists
     /\ UNCHANGED <<restrict_source, endpoints>>

create_interface(a) ==
  /\ a \notin endpoints
  /\ endpoints' = endpoints \cup {a}
  /\ hack_restrict({a.fam}, "FLAGS", Item(a.addr, AddrBits, {"NTPONLY", "INTERFACE"}, {"IGNORE"}))
  /\ UNCHANGED <<restrict_source, peers>>

remove_interface(a) ==
  /\ a \in endpoints
  /\ endpoints' = endpoints \ {a}
  /\ hack_restrict({a.fam}, "REMOVEIF", Item(a.addr, AddrBits, {"NTPONLY", "INTERFACE"}, {"IGNORE"}))
  /\ UNCHANGED <<restrict_source, peers>>

Next ==
  \/ \E line \in Lines :
       IF line.source THEN config_source(line.mflags, line.flags) ELSE config_access(line)
  \/ \E p \in Servers : Mobilize(p) \/ unpeer(p)
  \/ \E a \in Locals : create_interface(a) \/ remove_interface(a)

Spec == Init /\ [][Next]_vars

-----------------------------------------------------------------------------
(* Properties.                                                               *)

Entries(fam) == ToSet(restrictlist[fam])
AllEntries == UNION {{<<f, e>> : e \in Entries(f)} : f \in Families}

\* The match that restrictions() finds first is the most specific entry that
\* applies: no other matching entry has a longer mask, or the same mask and
\* more mflags ("The first entry which matches an address is used").
MostSpecificMatched ==
  \A f \in Families, a \in Addresses, port \in {"ntp", "other"} :
    LET used == match_restrict_addr(restrictlist[f], a, port)
    IN \A e \in Entries(f) : Matches(e, a, port) =>
         \/ e.len < used.len
         \/ e.len = used.len /\ MValue(e.mflags) <= MValue(used.mflags)

\* The default entry is never lost and is the last one of its list, so that
\* every search ends on an entry; and no two entries have the same address,
\* mask and mflags, whatever mix of restrict, unrestrict, holes and interfaces
\* made them: flags are merged into one entry, which unrestrict finds again.
ListsWellKept ==
  \A f \in Families :
    /\ restrictlist[f] # << >> /\ IsDefault(Last(restrictlist[f]))
    /\ \A i, j \in DOMAIN restrictlist[f] :
         /\ restrictlist[f][i].addr = restrictlist[f][j].addr
         /\ restrictlist[f][i].len = restrictlist[f][j].len
         /\ restrictlist[f][i].mflags = restrictlist[f][j].mflags
         => i = j

\* "monitoring is always active as long as there is a restriction entry with
\* the limited flag": res_limited_refcnt counts the entries with RES_LIMITED
\* through every merge, unflag and removal, and MON_RES follows it.
MonitorWhileLimited ==
  /\ restrictcount = Cardinality(AllEntries)
  /\ res_limited_refcnt = Cardinality({x \in AllEntries : "LIMITED" \in x[2].flags})
  /\ mon_res <=> \E x \in AllEntries : "LIMITED" \in x[2].flags

\* Packets from the NTP port of a local address are ignored, whatever the
\* operator's rules for that address say ("Blacklist our own addresses, no
\* use talking to ourself"), unless the address had a hole before it became
\* local: RESM_SOURCE sorts first.
OwnAddressIgnored ==
  \A a \in endpoints :
    \/ "IGNORE" \in restrictions(a.fam, a.addr, "ntp")
    \/ \E e \in Entries(a.fam) : "SOURCE" \in e.mflags /\ e.len = AddrBits /\ e.addr = a.addr

\* Whatever the operator's lines, the interfaces and the associations have done
\* to the lists through hack_restrict, restrictions() answers with the most
\* specific rule, and the counts and own addresses are right.
AccessListsSound == MostSpecificMatched /\ ListsWellKept /\ MonitorWhileLimited /\ OwnAddressIgnored
=============================================================================
