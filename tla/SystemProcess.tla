---------------------------- MODULE SystemProcess ----------------------------
(***************************************************************************)
(* The system process: associations deliver samples, clock_select chooses  *)
(* among them, clock_update takes over the chosen one and cranks the       *)
(* discipline, and the one-second timer declares the server an orphan or   *)
(* out of sync when it has no system peer for too long.                    *)
(*                                                                         *)
(* peer[i] is the memory of association i; a slot that was freed keeps the *)
(* zeroes free_peer left there, and sys_peer may still point to it.        *)
(* Epochs are ranks: peer[i].epoch is 0 when the sample is not later than  *)
(* sys_epoch, otherwise its place among the later ones; sys.now is the     *)
(* place of the current second.                                            *)
(***************************************************************************)
EXTENDS ClockSelection

CONSTANTS
  Configs,      \* sequences of static configurations, one per association
  Samples,      \* what a reply can bring
  Surveys,      \* sequences of samples: associations that all have replied
  Plain,        \* the configuration of those
  ClockMax,     \* the step threshold
  sys_orphwait, \* seconds without a peer before the timer acts
  MaxSteps      \* bound on the steps other than the timer's

ASSUME SystemAssumption == {ClockMax, sys_orphwait, MaxSteps} \subseteq Nat

VARIABLES
  peer,   \* the associations' memory, a sequence of slots
  list,   \* peer_list
  sys     \* sys_vars and what clock_select keeps
svars == <<peer, list, sys>>
Slots == DOMAIN peer

-----------------------------------------------------------------------------
(***************************************************************************)
(* The operators below take and give m = [peer, list, sys].                *)
(***************************************************************************)

\* peer_clear, as far as the selection sees it.
Cleared(p) ==
  [p EXCEPT !.offset = 0, !.disp = sys_maxdist, !.jitter = 0, !.epoch = 0, !.reach = FALSE,
            !.status = "reject", !.dist = 0, !.loop = FALSE,
            !.leap = IF p.refclock THEN @ ELSE "notinsync",
            !.stratum = IF p.refclock THEN @ ELSE STRATUM_UNSPEC]
clear_all(m) ==
  [m EXCEPT !.peer = [i \in DOMAIN m.peer |-> IF i \in ToSet(m.list) THEN Cleared(@[i]) ELSE @[i]]]

\* Ranks after sys_epoch moved to rank r, without gaps.
Rank(m, r, e) ==
  Cardinality({k \in {m.peer[j].epoch : j \in DOMAIN m.peer} : r < k /\ k <= e})
Ranked(m, r) ==
  [m EXCEPT !.peer = [i \in DOMAIN m.peer |-> [@[i] EXCEPT !.epoch = Rank(m, r, @)]],
            !.sys.now = LET e == Rank(m, r, m.sys.now)
                            k == {m.peer[j].epoch : j \in DOMAIN m.peer} \union {r}
                        IN  IF m.sys.now \in k THEN e ELSE e + 1]

\* What local_clock answers: a slew or nothing below the step threshold, a
\* step or nothing (a spike that is waited out) above.
local_clock_rc(offset) == IF Abs(offset) > ClockMax THEN {"ignored", "stepped"} ELSE {"ignored", "slewed"}

\* clock_update with peer p, when local_clock answers rc.
clock_update(m, p, rc) ==
  LET m1 == [Ranked(m, m.peer[p].epoch) EXCEPT
               !.sys.peer = p, !.sys.stratum = Min({m.peer[p].stratum + 1, STRATUM_UNSPEC})]
  IN  IF rc = "stepped"
      THEN [clear_all(m1) EXCEPT !.sys.leap = "notinsync", !.sys.stratum = STRATUM_UNSPEC]
      ELSE IF rc = "slewed" /\ m1.sys.leap = "notinsync" THEN [m1 EXCEPT !.sys.leap = "nowarn"]
      ELSE m1

\* The end of clock_select, with r from Selected: no system peer, old data, or an
\* update.
NewStatus(m, r) ==
  [m EXCEPT !.peer = [i \in DOMAIN m.peer |-> IF i \in ToSet(m.list) THEN [@[i] EXCEPT !.status = r.status[i]] ELSE @[i]]]
\* Mutant: without survivors the status of the associations is left alone.
clock_select_OldStatus(m, r, rc) ==
  LET m1 == [m EXCEPT !.sys.hop = r.hop, !.sys.offset = r.offset]
  IN  IF r.peer = 0
      THEN [m1 EXCEPT !.sys.peer = 0,
                      !.sys.wait = IF m.sys.peer # 0 THEN sys_orphwait + 1 ELSE @]
      ELSE IF m.peer[r.peer].epoch = 0 THEN m1
      ELSE clock_update(NewStatus(m1, r), r.peer, rc)
clock_select(m, r, rc) ==
  LET m1 == [m EXCEPT !.sys.hop = r.hop, !.sys.offset = r.offset]
  IN  IF r.peer = 0
      THEN [NewStatus(m1, r) EXCEPT !.sys.peer = 0,
                                    !.sys.wait = IF m.sys.peer # 0 THEN sys_orphwait + 1 ELSE @]
      ELSE IF m.peer[r.peer].epoch = 0 THEN m1
      ELSE clock_update(NewStatus(m1, r), r.peer, rc)

Apply(m) == peer' = m.peer /\ list' = m.list /\ sys' = m.sys
State == [peer |-> peer, list |-> list, sys |-> [sys EXCEPT !.steps = @ + 1]]
Selection(m) ==
  \E r \in {Selected(m.peer, m.list, m.sys, m.sys.wait = 0)} :
    \E rc \in local_clock_rc(r.offset) : Apply(clock_select(m, r, rc))

-----------------------------------------------------------------------------
(***************************************************************************)
(* The steps.                                                              *)
(***************************************************************************)
Fresh(c) ==
  [kind |-> c.kind, refclock |-> c.refclock, prefer |-> c.prefer, true |-> c.true, noselect |-> c.noselect,
   pps |-> c.pps, tstamp |-> c.tstamp, metric |-> c.metric, offset |-> 0, dist |-> 0, disp |-> sys_maxdist,
   jitter |-> 0, stratum |-> IF c.refclock THEN c.stratum ELSE STRATUM_UNSPEC,
   leap |-> "notinsync", loop |-> FALSE, reach |-> FALSE,
   epoch |-> 0, status |-> "reject", configured |-> c]

\* A reply: what clock_filter makes of the new sample.
Reply(p, s) ==
  [p EXCEPT !.offset = s.offset, !.dist = s.dist, !.disp = s.disp, !.jitter = s.jitter, !.reach = TRUE,
            !.loop = s.loop, !.leap = s.leap, !.stratum = IF p.refclock THEN @ ELSE s.stratum]

\* The start of the daemon; or, with no step left but the timer's, any
\* combination of replies that clock_filter has not passed on yet.
Init ==
  /\ sys \in [steps : {0, MaxSteps}, peer : {0}, hop : {0}, offset : {0}, leap : {"notinsync"},
              stratum : {STRATUM_UNSPEC}, wait : {0, sys_orphwait + 1}, now : {1}]
  /\ (sys.steps = 0) = (sys.wait # 0)
  /\ IF sys.steps = 0 THEN \E c \in Configs : peer = [i \in DOMAIN c |-> Fresh(c[i])]
     ELSE \E s \in Surveys : peer = [i \in DOMAIN s |-> Reply(Fresh(Plain), s[i])]
  /\ list = [i \in Slots |-> Cardinality(Slots) + 1 - i]

Replied(i, s) == [State EXCEPT !.peer[i] = Reply(@, s)]
\* The sample is a popcorn spike, or not later than the last one used.  A
\* reference clock that is not in sync only says so.
SampleHeld(i, s) ==
  /\ i \in ToSet(list)
  /\ Apply(IF peer[i].refclock /\ s.leap = "notinsync" THEN [State EXCEPT !.peer[i].leap = s.leap]
           ELSE Replied(i, s))
\* It is used, and the selection runs, except inside a burst once
\* synchronized.
SampleUsed(i, s, burst) ==
  LET m  == Replied(i, s)
      m1 == Ranked([m EXCEPT !.peer[i].epoch = m.sys.now], 0)
  IN  /\ i \in ToSet(list) /\ sys.now > peer[i].epoch
      /\ ~(peer[i].refclock /\ s.leap = "notinsync")
      /\ IF burst /\ sys.leap # "notinsync" THEN Apply(m1) ELSE Selection(m1)

\* transmit finds the association unreachable, or refclock_transmit its last
\* four polls without an answer, and puts a dummy sample into the filter; when
\* no sample is left there, the selection runs.
Silent(i, lost, empty) ==
  LET m == [State EXCEPT !.peer[i].reach = @ /\ ~lost,
                         !.peer[i].disp = IF empty THEN sys_maxdist ELSE @]
  IN  i \in ToSet(list) /\ (lost \/ (empty /\ peer[i].refclock)) /\ IF empty THEN Selection(m) ELSE Apply(m)

\* Mutant: without orphan mode nothing is declared.
timer_Persist(m) ==
  IF m.sys.peer = 0 /\ m.sys.wait = 0 /\ sys_orphan < STRATUM_UNSPEC
  THEN [m EXCEPT !.sys.leap = IF @ = "notinsync" THEN "nowarn" ELSE @, !.sys.stratum = sys_orphan, !.sys.offset = 0]
  ELSE m
\* The orphan part of timer.
timer(m) ==
  IF m.sys.peer = 0 /\ m.sys.wait = 0
  THEN IF sys_orphan < STRATUM_UNSPEC
       THEN [m EXCEPT !.sys.leap = IF @ = "notinsync" THEN "nowarn" ELSE @,
                      !.sys.stratum = sys_orphan, !.sys.offset = 0]
       ELSE [m EXCEPT !.sys.leap = "notinsync", !.sys.stratum = STRATUM_UNSPEC, !.sys.offset = 0]
  ELSE m
Tick == Apply(timer([State EXCEPT !.sys.steps = sys.steps,
                                  !.sys.wait = IF @ = 0 THEN 0 ELSE @ - 1,
                                  !.sys.now = Max({peer[j].epoch : j \in Slots}) + 1]))

\* unpeer and free_peer: the memory is zeroed, sys_peer is left as it is.
Zeroed(p) == [p EXCEPT !.kind = "net", !.refclock = FALSE, !.prefer = FALSE, !.true = FALSE, !.noselect = FALSE,
                       !.pps = FALSE, !.tstamp = FALSE, !.metric = 0, !.offset = 0, !.dist = 0, !.disp = 0,
                       !.jitter = 0, !.stratum = 0, !.leap = "nowarn", !.loop = FALSE, !.reach = FALSE,
                       !.epoch = 0, !.status = "reject"]
Unpeer(i) == /\ i \in ToSet(list)
             /\ Apply(Ranked([State EXCEPT !.peer[i] = Zeroed(@), !.list = SelectSeq(@, LAMBDA j : j # i)], 0))
\* newpeer takes the memory again and puts it at the head of the list.
Newpeer(i) == /\ i \notin ToSet(list)
              /\ Apply([State EXCEPT !.peer[i] = Fresh(@.configured), !.list = <<i>> \o @])

Next ==
  \/ /\ sys.steps < MaxSteps
     /\ \/ \E i \in Slots, s \in Samples : SampleHeld(i, s)
        \/ \E i \in Slots, s \in Samples, b \in BOOLEAN : SampleUsed(i, s, b)
        \/ \E i \in Slots, l, e \in BOOLEAN : Silent(i, l, e)
        \/ \E i \in Slots : Unpeer(i) \/ Newpeer(i)
  \/ Tick

Spec == Init /\ [][Next]_svars

-----------------------------------------------------------------------------
(***************************************************************************)
(* Properties.                                                             *)
(***************************************************************************)
\* Whatever the associations hold, clock_select's scans over the endpoints find
\* the interval that the definition of the intersection gives, with no more
\* falsetickers than needed; and more correct candidates than not mean that
\* there is one, with a correct candidate in it.
IntersectionSound ==
  LET c == Candidates(peer, list)
      x == Intersection(peer, c)
  IN  IntersectionRight(peer, c, x) /\ MajoritySound(peer, c, x)

\* The tally codes tell of one selection: two associations are not both
\* marked as the system peer, a PPS mark is the system peer's, and next to a
\* "syspeer" mark of another association the system peer is marked as the PPS
\* source (or its memory was given back and holds another association now).
OneSelection ==
  \A i \in ToSet(list) :
    /\ peer[i].status = "pps" => sys.peer = i
    /\ peer[i].status = "syspeer" =>
         /\ \A j \in ToSet(list) \ {i} : peer[j].status # "syspeer"
         /\ sys.peer \in ToSet(list) \ {i} => peer[sys.peer].status \in {"pps", "reject"}

\* A server without a system peer for longer than orphwait no longer claims
\* to be synchronized to one: it is an orphan parent, or out of sync.
NoStaleClaim ==
  sys.peer = 0 /\ sys.wait = 0 =>
    IF sys_orphan < STRATUM_UNSPEC THEN sys.stratum = sys_orphan
    ELSE sys.leap = "notinsync" /\ sys.stratum = STRATUM_UNSPEC
=============================================================================
