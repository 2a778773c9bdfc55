------------------------------ MODULE MruList ------------------------------
(* The list of clients heard from most recently (ntp_monitor.c): a pool of    *)
(* entries, each either free or in use, and an entry in use linked twice:     *)
(* into the MRU list, newest first, and into the hash chain of its address.   *)
(*                                                                            *)
(* Entries are numbered as they are allocated. Time is kept as the age of an  *)
(* entry's last packet in ticks. One tick is the time in which a score        *)
(* halves, and a score is a number of packets, so rate_limit and kod_limit    *)
(* are in packets too. First times, counts, ports and modes are left out.     *)
EXTENDS Integers, FiniteSets, SequencesExt

CONSTANTS
  Addrs,                                         \* source addresses
  MON_HASH,                                      \* address -> hash slot
  mru_mindepth, mru_maxdepth,                    \* "mru" limits on entries
  mru_minage, mru_maxage,                        \* "mru" limits on ages
  mru_initalloc, mru_incalloc,                   \* entries allocated at once
  rate_limit, kod_limit,                         \* "limit average", "limit kod"
  MaxScore, MaxAge,                              \* bounds: larger values are kept there
  Steps                                          \* clock steps, in ticks

VARIABLES
  mon_on, mon_res,            \* MON_ON and MON_RES in mon_enabled
  mon_entry,                  \* entry -> its contents
  mon_mru_list, mon_hash, mon_free,
  mru_entries, mru_hashslots, mru_alloc,
  verdict                     \* what ntp_monitor returned, {} after other steps

lists == <<mon_entry, mon_mru_list, mon_hash, mon_free, mru_entries, mru_hashslots, mru_alloc>>
vars == <<mon_on, mon_res, lists, verdict>>

HashSlots == {MON_HASH[a] : a \in Addrs}
MON_OFF_Monitor == ~mon_on
MON_OFF == ~mon_on /\ ~mon_res
Reject == {"LIMITED", "KOD"}
\* Two fields are history: kept says that the clock was stepped since the
\* entry's last packet, burst counts packets that came without a tick between,
\* up to rate_limit.
Zero == [rmtadr |-> "none", lcladr |-> "none", age |-> 0, score |-> 0, burst |-> 0, kept |-> FALSE]

\* After mon_start(), with the first allocation on the free list.
Init ==
  /\ mon_entry = [i \in 1 .. mru_initalloc |-> Zero]
  /\ mon_mru_list = << >>
  /\ mon_hash = [h \in HashSlots |-> << >>]
  /\ mon_free = 1 .. mru_initalloc
  /\ mru_entries = 0
  /\ mru_hashslots = 0
  /\ mru_alloc = mru_initalloc
  /\ verdict = {}

\* exp(-since_last/decay_time); since_last is unsigned, so a packet that is
\* older than the last one counts as one after a very long silence.
Decayed(score, age) == IF age < 0 THEN 0 ELSE score \div 2^age

Bumped(score) == IF score = MaxScore THEN score ELSE score + 1

-----------------------------------------------------------------------------
(* ntp_monitor                                                               *)

mon_get_slot_NotExpired(a) ==
  {i \in ToSet(mon_hash[MON_HASH[a]]) : mon_entry[i].rmtadr = a /\ mon_entry[i].age <= mru_maxage}

\* The entry of an address in its hash chain; {} when there is none.
mon_get_slot(a) == {i \in ToSet(mon_hash[MON_HASH[a]]) : mon_entry[i].rmtadr = a}

RejectOrNot_Burst(flags, score) ==
  IF score < rate_limit \/ score > kod_limit + rate_limit THEN flags \ Reject ELSE flags

RejectOrNot(flags, score) ==
  IF score < rate_limit THEN flags \ Reject
    ELSE IF score > kod_limit + rate_limit THEN flags \ {"KOD"}
    ELSE flags

\* A packet of a client that has an entry. lcladr stays what it was.
Exists(i, flags) ==
  LET score == Bumped(Decayed(mon_entry[i].score, mon_entry[i].age))
      burst == IF mon_entry[i].age = 0 THEN Min({mon_entry[i].burst + 1, rate_limit}) ELSE 1
  IN /\ mon_entry' = [mon_entry EXCEPT ![i].age = 0, ![i].score = score, ![i].burst = burst,
                                       ![i].kept = FALSE]
     /\ mon_mru_list' = <<i>> \o Remove(mon_mru_list, i)
     /\ verdict' = RejectOrNot(flags, score)
     /\ UNCHANGED <<mon_hash, mon_free, mru_entries, mru_hashslots, mru_alloc>>

mon_get_oldest_age == IF mru_entries = 0 THEN 0 ELSE mon_entry[Last(mon_mru_list)].age

\* Where the entry of a new client comes from.
Source_Full ==
  IF mru_entries < mru_mindepth \/ mon_free # {} \/ mru_alloc < mru_maxdepth THEN "new"
    ELSE "recycle"

Source ==
  IF mru_entries < mru_mindepth THEN "new"
    ELSE IF mru_maxage < mon_get_oldest_age THEN "recycle"
    ELSE IF mon_free # {} \/ mru_alloc < mru_maxdepth THEN "new"
    ELSE IF mon_get_oldest_age < mru_minage THEN "none"
    ELSE "recycle"

\* The fields of the entry, the front of the hash chain, the top of the list;
\* s is the state the entry was taken from.
Link(s, i, a, ep) ==
  LET h == MON_HASH[a]
  IN /\ mon_entry' = [s.entry EXCEPT ![i] =
                        [rmtadr |-> a, lcladr |-> ep, age |-> 0, score |-> 1, burst |-> 1, kept |-> FALSE]]
     /\ mon_hash' = [s.hash EXCEPT ![h] = <<i>> \o @]
     /\ mon_mru_list' = <<i>> \o s.mru
     /\ mru_entries' = s.entries + 1
     /\ mru_hashslots' = s.slots + (IF s.hash[h] = << >> THEN 1 ELSE 0)

\* A batch of entries for the free list.
mon_getmoremem(s) ==
  LET more == s.alloc + 1 .. s.alloc + mru_incalloc
  IN [s EXCEPT !.entry = [i \in 1 .. s.alloc + mru_incalloc |-> IF i \in more THEN Zero ELSE s.entry[i]],
               !.free = @ \cup more,
               !.alloc = @ + mru_incalloc]

\* remove_from_hash and the unlinking from the MRU list
Unlinked(s, i) ==
  LET h == MON_HASH[s.entry[i].rmtadr]
      chain == Remove(s.hash[h], i)
  IN [s EXCEPT !.entry[i] = Zero, !.mru = Remove(@, i), !.hash[h] = chain, !.entries = @ - 1,
               !.slots = IF chain = << >> THEN @ - 1 ELSE @]

Now == [entry |-> mon_entry, mru |-> mon_mru_list, hash |-> mon_hash, free |-> mon_free,
        entries |-> mru_entries, slots |-> mru_hashslots, alloc |-> mru_alloc]

\* The first packet heard from a client.
First(a, ep, flags) ==
  /\ verdict' = flags \ Reject
  /\ \/ /\ Source = "new"
        /\ LET s == IF mon_free = {} THEN mon_getmoremem(Now) ELSE Now
               i == Min(s.free)
           IN /\ Link(s, i, a, ep)
              /\ mon_free' = s.free \ {i}
              /\ mru_alloc' = s.alloc
     \/ /\ Source = "recycle"
        /\ LET oldest == Last(mon_mru_list)
           IN Link(Unlinked(Now, oldest), oldest, a, ep)
        /\ UNCHANGED <<mon_free, mru_alloc>>
     \/ /\ Source = "none"
        /\ UNCHANGED lists

ntp_monitor(a, ep, flags) ==
  /\ \/ MON_OFF /\ verdict' = flags \ Reject /\ UNCHANGED lists
     \/ ~MON_OFF /\ mon_get_slot(a) = {} /\ First(a, ep, flags)
     \/ ~MON_OFF /\ \E i \in mon_get_slot(a) : Exists(i, flags)
  /\ UNCHANGED <<mon_on, mon_res>>

-----------------------------------------------------------------------------
(* The other operations.                                                     *)

\* The entries of a local address that goes away are freed one by one.
mon_clearinterface(ep) ==
  LET gone == {i \in ToSet(mon_mru_list) : mon_entry[i].lcladr = ep}
      s == FoldSet(LAMBDA i, acc : Unlinked(acc, i), Now, gone)
  IN /\ mon_entry' = s.entry
     /\ mon_mru_list' = s.mru
     /\ mon_hash' = s.hash
     /\ mon_free' = mon_free \cup gone
     /\ mru_entries' = s.entries
     /\ mru_hashslots' = s.slots
     /\ UNCHANGED mru_alloc

\* "enable monitor" and "disable monitor"
proto_config_monitor(value) ==
  /\ mon_on' = value
  /\ UNCHANGED <<mon_res, lists>>

\* mon_stop() and mon_start()
Flush ==
  /\ mon_entry' = [i \in DOMAIN mon_entry |-> Zero]
  /\ mon_mru_list' = << >>
  /\ mon_hash' = [h \in HashSlots |-> << >>]
  /\ mon_free' = DOMAIN mon_entry
  /\ mru_entries' = 0
  /\ mru_hashslots' = 0
  /\ UNCHANGED mru_alloc

Shifted(age, d) == IF age + d > MaxAge THEN MaxAge ELSE IF age + d < -MaxAge THEN -MaxAge ELSE age + d
Shift(d, step) ==
  [i \in DOMAIN mon_entry |->
     IF i \in mon_free THEN Zero
       ELSE [mon_entry[i] EXCEPT !.age = Shifted(@, d), !.burst = 0, !.kept = @ \/ step]]

\* The clock is stepped by d: the times of entries that are kept now look d older.
ntpd_time_stepped(d) ==
  /\ IF MON_OFF
     THEN /\ mon_entry' = Shift(d, TRUE)
          /\ UNCHANGED <<mon_mru_list, mon_hash, mon_free, mru_entries, mru_hashslots, mru_alloc>>
     ELSE Flush
  /\ UNCHANGED <<mon_on, mon_res>>

Tick ==
  /\ mon_entry' = Shift(1, FALSE)
  /\ UNCHANGED <<mon_on, mon_res, mon_mru_list, mon_hash, mon_free, mru_entries, mru_hashslots,
                 mru_alloc>>

-----------------------------------------------------------------------------
(* Properties.                                                               *)

InUse == ToSet(mon_mru_list)

\* Every entry is on exactly one of the free list and the MRU list, an entry
\* on the MRU list is in the chain of its own address's hash and in no other
\* place, the counters that the limits are tested with agree, and "we keep
\* track of all traffic for a given IP in one entry".
ListsAgree ==
  /\ mon_free = DOMAIN mon_entry \ InUse
  /\ IsInjective(mon_mru_list)
  /\ \A h \in HashSlots : IsInjective(mon_hash[h])
  /\ \A h \in HashSlots :
       ToSet(mon_hash[h]) = {i \in InUse : MON_HASH[mon_entry[i].rmtadr] = h}
  /\ \A i, j \in InUse : mon_entry[i].rmtadr = mon_entry[j].rmtadr => i = j
  /\ mru_entries = Len(mon_mru_list)
  /\ mru_hashslots = Cardinality({h \in HashSlots : mon_hash[h] # << >>})

\* The list is ordered by the time of the last packet, as the reclaiming of
\* its tail and the queries of ntpq's mrulist take it to be, except for
\* entries that were kept over a step made while monitoring was off.
MruOrdered ==
  \A m, n \in DOMAIN mon_mru_list :
    LET newer == mon_entry[mon_mru_list[m]]
        older == mon_entry[mon_mru_list[n]]
    IN m < n /\ ~newer.kept /\ ~older.kept => newer.age <= older.age
=============================================================================
