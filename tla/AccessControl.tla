--------------------------- MODULE AccessControl ---------------------------
(* What receive() does with a packet before it looks at the association: the  *)
(* access lists (RestrictList) say what the source may do, the MRU list       *)
(* (MruList) whether it sends too fast. The two meet in mon_enabled, which    *)
(* follows the limited entries of the lists, and in the local interfaces,     *)
(* which have entries of their own in both.                                   *)
(*                                                                            *)
(* Associations and their holes are left to RestrictList.                     *)
EXTENDS RestrictList

CONSTANTS
  Addrs,       \* clients
  AddrOf,      \* client -> [fam, addr, port]
  MON_HASH, mru_mindepth, mru_maxdepth, mru_minage, mru_maxage, mru_initalloc, mru_incalloc,
  rate_limit, kod_limit, MaxScore, MaxAge, Steps

VARIABLES
  mon_on, mon_entry, mon_mru_list, mon_hash, mon_free, mru_entries, mru_hashslots, mru_alloc, verdict,
  heard        \* the client whose packet the last step passed to ntp_monitor, or "none"

M == INSTANCE MruList

monitor == <<mon_entry, mon_mru_list, mon_hash, mon_free, mru_entries, mru_hashslots, mru_alloc>>
allvars == <<vars, mon_on, monitor, verdict, heard>>
associations == <<restrict_source, peers>>

AllInit ==
  /\ Init
  /\ M!Init
  /\ mon_on = TRUE
  /\ heard = "none"

\* A step in which no packet gets as far as ntp_monitor
Silent == heard' = "none" /\ verdict' = {}

\* A packet that comes in on the interface ep. Control packets are queries,
\* the others ask for time. A packet that is not rejected here goes on to
\* the association or is answered.
check_early_restrictions(flags, mode) ==
  "IGNORE" \in flags \/ ("NOQUERY" \in flags /\ mode = "CONTROL")

Rule(c) == restrictions(AddrOf[c].fam, AddrOf[c].addr, AddrOf[c].port)

receive(c, ep, mode) ==
  LET flags == Rule(c)
  IN /\ ep.fam = AddrOf[c].fam
     /\ IF check_early_restrictions(flags, mode)
        THEN Silent /\ UNCHANGED <<mon_on, monitor>>
        ELSE heard' = c /\ M!ntp_monitor(c, ep, flags)
     /\ UNCHANGED vars

Configure(line) ==
  /\ config_access(line)
  /\ Silent
  /\ UNCHANGED <<mon_on, monitor>>

InterfaceUp(ep) ==
  /\ create_interface(ep)
  /\ Silent
  /\ UNCHANGED <<mon_on, monitor>>

\* remove_interface() as a whole
InterfaceDown(ep) ==
  /\ remove_interface(ep)
  /\ M!mon_clearinterface(ep)
  /\ Silent
  /\ UNCHANGED mon_on

\* The steps of the monitor alone.
Quiet(action) ==
  /\ action
  /\ Silent
  /\ UNCHANGED <<restrictlist, restrictcount, res_limited_refcnt, associations, endpoints>>

AllNext ==
  \/ \E c \in Addrs, ep \in endpoints, mode \in {"CLIENT", "CONTROL"} : receive(c, ep, mode)
  \/ \E line \in Lines : Configure(line)
  \/ \E ep \in Locals : InterfaceUp(ep) \/ InterfaceDown(ep)
  \/ \E value \in BOOLEAN : Quiet(M!proto_config_monitor(value))
  \/ \E d \in Steps : Quiet(M!ntpd_time_stepped(d))
  \/ Quiet(M!Tick)

AllSpec == AllInit /\ [][AllNext]_allvars

-----------------------------------------------------------------------------
(* Properties.                                                                *)

\* No entry refers to an interface that is gone: lcladr is a pointer to the
\* endpt that remove_interface() is about to have freed.
EntriesOnOpenInterfaces == \A i \in M!InUse : mon_entry[i].lcladr \in endpoints

\* Over packets, recycling, vanishing interfaces, steps and changes of the mode
\* of ntp_monitor: free list, MRU list, hash chains and counters agree and no
\* address has two entries, the list is ordered by the last packets, and no
\* entry is left of an interface that was closed.
MruListsAgree == M!ListsAgree /\ M!MruOrdered /\ EntriesOnOpenInterfaces

\* "monitoring is always active as long as there is a restriction entry with
\* the limited flag": a packet that a limited rule applies to is on record,
\* first in the list, when ntp_monitor() returns, unless every entry belongs
\* to a client that was heard too recently to be recycled (or one was kept
\* over a step of the clock, and the order is not to be trusted).
LimitedTrafficOnRecord ==
  heard # "none" /\ "LIMITED" \in Rule(heard)
  => \/ /\ mon_mru_list # << >>
        /\ mon_entry[Head(mon_mru_list)].rmtadr = heard
        /\ mon_entry[Head(mon_mru_list)].age = 0
     \/ /\ mon_free = {} /\ mru_alloc >= mru_maxdepth /\ mru_entries >= mru_mindepth
        /\ \/ \A i \in M!InUse : mon_entry[i].age < mru_minage
           \/ \E i \in M!InUse : mon_entry[i].kept

\* A client under a limited rule that has sent rate_limit packets with no tick
\* between them is turned away, and a client is turned away only while its
\* score is rate_limit or more, whatever other clients, recycling, vanishing
\* interfaces, rule changes, steps and times without monitoring happened in
\* between.
BurstTurnedAway ==
  heard # "none" /\ "LIMITED" \in Rule(heard) => \A i \in M!mon_get_slot(heard) :
    /\ mon_entry[i].burst >= rate_limit => "LIMITED" \in verdict
    /\ "LIMITED" \in verdict => mon_entry[i].score >= rate_limit

\* A client loses its entry, and with it its score, to another client only
\* when it has been silent for more than mru_maxage, or for mru_minage or more
\* with no memory left.  ntp_monitor keeps the oldest entry when its age is
\* less than mru_minage (ntp_monitor.c:450), so that one of just that age goes:
\* "recycle slot: full and age > mru_minage" (ntp_monitor.c:66) and "more than
\* minage" (misc-options.adoc:167) ask for one second more.
RecycledOnlyWhenOld ==
  \A i \in M!InUse :
       /\ heard' # "none"
       /\ mon_entry'[i].rmtadr # mon_entry[i].rmtadr
       => \/ mon_entry[i].age > mru_maxage
          \/ mon_entry[i].age >= mru_minage /\ mon_free = {} /\ mru_alloc >= mru_maxdepth
=============================================================================
