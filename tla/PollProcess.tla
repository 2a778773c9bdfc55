---------------------------- MODULE PollProcess -----------------------------
(***************************************************************************)
(* When one association is polled: timer(), transmit, peer_xmit and        *)
(* poll_update against replies, kiss-o'-death packets, lost packets,       *)
(* lookups that fail, NTS cookies that run out and clock steps.            *)
(*                                                                         *)
(* Times are kept relative to current_time: "wait" is the time to nextdate *)
(* (0 when it has passed), "since" the time since outdate, "gap" the time  *)
(* since a packet was sent.  peer->ppoll never changes from                *)
(* NTP_MAXPOLL_UNK for an association with a network server, so the        *)
(* minimum with it disappears.                                             *)
(***************************************************************************)
EXTENDS Integers, FiniteSets

CONSTANTS
  MinPoll, MaxPoll,   \* minpoll and maxpoll of the configuration
  Options,            \* FLAG_IBURST, FLAG_BURST, FLAG_NTS and whether the
                      \* association starts without an address (FLAG_LOOKUP)
  MaxClears,          \* bound: times the clock is stepped
  KodPolls,           \* poll fields of the KoD packets a server may send
  NTP_SHIFT, NTP_IBURST, NTP_RETRY, NTP_UNREACH, NTP_MINPKT,
  ReachBits,          \* width of the reachability register
  RetryMin, RetryMax, \* bounds of the exponent between lookups (8, 12)
  RetryTemp,          \* exponent after a temporary DNS error (3)
  KodMax,             \* largest poll exponent a KoD brings (10)
  Cookies,            \* cookies an NTS-KE exchange brings
  Spread,             \* the random numbers that spread the polls (0 .. 255)
  Longest             \* bound: "since" and "gap" are not counted beyond it

\* "nts" implies that the server has a name (ntp_config.c).
ASSUME PollAssumption ==
  /\ {MinPoll, MaxPoll, KodMax, RetryMin, RetryMax, RetryTemp} \subseteq Nat /\ MinPoll <= MaxPoll
  /\ {NTP_SHIFT, NTP_IBURST, Cookies, Longest} \subseteq Nat \ {0}
  /\ {NTP_MINPKT, NTP_RETRY, NTP_UNREACH} \subseteq Nat /\ NTP_MINPKT <= Longest
  /\ Spread \subseteq Nat /\ KodPolls \subseteq Nat
  /\ Options \subseteq [iburst : BOOLEAN, burst : BOOLEAN, nts : BOOLEAN, lookup : BOOLEAN]
  /\ \A opt \in Options : opt.nts => opt.lookup

PollTop == MaxPoll + KodMax + RetryMax + RetryTemp
\* What the proofs need to know of powers; the register has at least two bits.
ASSUME PollPowers ==
  /\ \A m \in 0 .. PollTop : 2^m \in Nat \ {0} /\ \A n \in m .. PollTop : 2^m <= 2^n
  /\ \E k \in 1 .. 2^ReachBits : 2^ReachBits = 4 * k

VARIABLE p   \* the association; "stepped" after a clock step until the next packet

Larger(a, b) == IF a >= b THEN a ELSE b
Smaller(a, b) == IF a <= b THEN a ELSE b
Within(n, low, high) == Smaller(Larger(n, low), high)

-----------------------------------------------------------------------------
\* Mutant: a retry is sent after the guard time.
poll_update_FastRetry(q, mpoll, r) ==
  LET hpoll == Larger(Smaller(MaxPoll, mpoll), q.minpoll)
  IN  [q EXCEPT !.hpoll = hpoll,
                !.wait = IF q.burst > 0 /\ q.wait > 0 THEN q.wait
                         ELSE IF q.burst > 0 \/ q.retry > 0 THEN NTP_MINPKT
                         ELSE Larger(2^hpoll - q.since, NTP_MINPKT)]
\* poll_update.  r is the random number that spreads the polls.
poll_update(q, mpoll, r) ==
  LET hpoll == Larger(Smaller(MaxPoll, mpoll), q.minpoll)
      utemp == Larger(q.throttle - (NTP_SHIFT - 1) * 2^q.minpoll, NTP_MINPKT)
      h     == IF q.retry > 0 THEN q.minpoll ELSE hpoll
      next  == 2^h + ((r * 2^h) \div 4096) - q.since
      extra == IF q.throttle > 2^q.minpoll THEN NTP_MINPKT ELSE 0
      wait  == IF q.burst = 0 THEN Larger(next, utemp) + extra
               ELSE IF q.wait > 0 THEN q.wait ELSE utemp
  IN  [q EXCEPT !.hpoll = hpoll, !.wait = wait]

\* restart_nts_ke
restart_nts_ke(q) ==
  LET hpoll == Within(q.hpoll + 2, RetryMin, RetryMax)
  IN  [q EXCEPT !.hpoll = hpoll, !.wait = 2^hpoll, !.lookup = TRUE]

\* peer_xmit, with restart_nts_ke when there is no cookie.
peer_xmit(q) ==
  IF q.opt.nts /\ q.count <= 0 THEN restart_nts_ke(q)
  ELSE [q EXCEPT !.count = IF q.opt.nts THEN @ - 1 ELSE @, !.outcount = TRUE,
                 !.throttle = @ + 2^q.minpoll - 2, !.gap = 0, !.stepped = FALSE]

\* peer_clear; the first poll comes at random within the minimum interval.
peer_clear(q, wait) ==
  [q EXCEPT !.burst = 0, !.retry = 0, !.reach = 0, !.outcount = FALSE, !.hpoll = q.minpoll,
            !.since = 0, !.wait = wait]

-----------------------------------------------------------------------------
\* transmit within a burst
BurstSent(q) == [q EXCEPT !.burst = @ - 1]

\* The middle of transmit, for an association with an address: what it does
\* to the registers, and the poll exponent it goes on with.
Polled(q, fit, sys_poll) ==
  LET reach == (q.reach * 2) % 2^ReachBits
      un    == Smaller(q.unreach + 1, NTP_UNREACH + 1)
      rearm == q.retry = 0 /\ (IF reach = 0 THEN q.opt.iburst ELSE q.opt.burst /\ fit)
      unreach == IF reach = 0 THEN un ELSE 0
      hpoll == IF reach = 0 THEN q.hpoll ELSE sys_poll
  IN  IF q.burst > 0 THEN [q |-> BurstSent(q), hpoll |-> q.hpoll]
      ELSE [q |-> [q EXCEPT !.since = 0, !.reach = reach, !.unreach = unreach,
                            !.retry = IF rearm THEN NTP_RETRY ELSE @],
            hpoll |-> IF unreach >= NTP_UNREACH THEN hpoll + 1 ELSE hpoll]

\* transmit: a lookup, or a poll and the time of the next.
transmit(q, fit, sys_poll, free, r) ==
  IF q.lookup
  THEN IF q.probing \/ ~free THEN [q EXCEPT !.since = 0, !.wait = 0]
       ELSE poll_update([q EXCEPT !.since = 0, !.probing = TRUE], q.hpoll, r)
  ELSE LET t == Polled(q, fit, sys_poll)
           u == [t.q EXCEPT !.retry = Larger(@ - 1, 0)]
       IN  poll_update(peer_xmit(u), t.hpoll, r)

\* One second of timer(): the counters run and a poll that is due is sent.
\* Whether the association is fit, the poll exponent of the clock discipline
\* and whether the lookup thread is free are left open.
poll_timer ==
  LET q == [p EXCEPT !.throttle = IF @ > 0 THEN @ - 1 ELSE @, !.wait = Larger(@ - 1, 0),
                     !.since = Smaller(@ + 1, Longest), !.gap = Smaller(@ + 1, Longest)]
  IN  IF q.wait > 0 THEN p' = q
      ELSE \E fit, free \in BOOLEAN, sys_poll \in MinPoll .. MaxPoll, r \in Spread :
             p' = transmit(q, fit, sys_poll, free, r)

-----------------------------------------------------------------------------
\* A reply to the last packet; the others are dropped.  One that fails the
\* header or the delay tests closes the packet and changes nothing else.
BadReply ==
  /\ p.outcount /\ ~p.lookup
  /\ p' = [p EXCEPT !.outcount = FALSE]

\* The packets that remain in the burst that a reply enables; TLC evaluates no
\* shift by a negative hpoll - minpoll.
BurstLength(q) ==
  IF q.reach > 0 THEN Smaller(2^(q.hpoll - q.minpoll), NTP_SHIFT) - 1 ELSE NTP_IBURST - 1

\* handle_procpkt: a good reply enables a burst that is armed, sets the time
\* of the next poll and marks the server reachable.
GoodReply ==
  /\ p.outcount /\ ~p.lookup
  /\ \E r \in Spread :
       LET q == [p EXCEPT !.outcount = FALSE, !.count = IF p.opt.nts THEN Cookies ELSE @]
           b == BurstLength(q)
           u == IF q.retry = 0 THEN q
                ELSE [q EXCEPT !.retry = 0, !.burst = b, !.wait = IF b > 0 THEN 0 ELSE @]
           v == poll_update(u, u.hpoll, r)
       IN  p' = [v EXCEPT !.reach = IF @ % 2 = 0 THEN @ + 1 ELSE @]

\* handle_procpkt for a RATE packet.  min(peer->ppoll, 10) is 10.
Kod(ppoll, r) ==
  p' = poll_update([p EXCEPT !.outcount = FALSE, !.burst = 0, !.retry = 0,
                             !.throttle = (NTP_SHIFT + 1) * 2^p.minpoll,
                             !.minpoll = IF ppoll > p.minpoll THEN KodMax ELSE @],
                   Smaller(ppoll, KodMax), r)
KodReply ==
  /\ p.outcount /\ ~p.lookup
  /\ \E ppoll \in KodPolls, r \in Spread : Kod(ppoll, r)

\* dns_take_server: an address was found; the first packet goes out at once.
dns_take_server ==
  /\ p.probing
  /\ \E r \in Spread :
       LET q == peer_xmit([p EXCEPT !.probing = FALSE, !.lookup = FALSE, !.wait = 0,
                                    !.hpoll = p.minpoll, !.count = IF p.opt.nts THEN Cookies ELSE @])
           u == IF q.opt.iburst THEN [q EXCEPT !.retry = NTP_RETRY] ELSE q
       IN  p' = poll_update(u, u.hpoll, r)

\* dns_take_status: nothing usable was found (DNS_good, DNS_temp, DNS_error).
dns_take_status ==
  /\ p.probing
  /\ LET hpoll == Larger(p.hpoll, RetryMin)
     IN  \E n \in {Smaller(hpoll + 1, RetryMax), Smaller(hpoll + 4, RetryMax), RetryTemp} :
           p' = [p EXCEPT !.probing = FALSE, !.hpoll = n, !.wait = 2^n]

\* clear_all, when clock_update steps the clock.
poll_clear ==
  /\ p.steps < MaxClears
  /\ \E wait \in 0 .. 2^p.minpoll - 1 : p' = [peer_clear(p, wait) EXCEPT !.steps = @ + 1, !.stepped = TRUE]

-----------------------------------------------------------------------------
PollInit ==
  \E wait \in 1 .. 2, opt \in Options :
    p = [opt |-> opt, minpoll |-> MinPoll, hpoll |-> MinPoll, burst |-> 0, retry |-> 0, reach |-> 0,
         unreach |-> 0, throttle |-> 0, outcount |-> FALSE, wait |-> wait, since |-> 0,
         gap |-> Longest, lookup |-> opt.lookup, probing |-> FALSE, count |-> -1,
         steps |-> 0, stepped |-> FALSE]

PollNext ==
  poll_timer \/ BadReply \/ GoodReply \/ KodReply \/ dns_take_server \/ dns_take_status \/ poll_clear

PollSpec == PollInit /\ [][PollNext]_p
-----------------------------------------------------------------------------
\* A step that sends a packet: a poll of timer(), or the end of a lookup.
Sends == p'.gap = 0 /\ p'.outcount /\ (p.probing => ~p'.lookup)
\* The seconds since the packet before it.
Elapsed == IF p.probing THEN p.gap ELSE p.gap + 1

WellSpaced ==
  Sends /\ ~p.stepped
    => /\ Elapsed >= NTP_MINPKT
       /\ p'.throttle <= NTP_SHIFT * 2^p'.minpoll
       /\ p'.reach = 0 /\ ~p.opt.lookup => Elapsed >= Smaller(2^p.minpoll, Longest)

\* Whatever mix of bursts, retries, replies and lookups transmit and poll_update
\* deal with, no two packets leave within the guard time, none leaves the output
\* counter above NTP_SHIFT times the minimum headway, and a server configured by
\* address that is unreachable is sent no more than one packet per minimum poll
\* interval, bursts armed or not.  Only the first packet after a clock step may
\* come earlier (peer_clear sets its time at random).  (The packet that
\* dns_take_server sends does not set outdate, so the interval after a lookup
\* may be shorter.)
PollsSpaced == [][WellSpaced]_p
=============================================================================
