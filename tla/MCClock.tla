------------------------------ MODULE MCClock ------------------------------
(***************************************************************************)
(* The way of a sample to the system clock.  A behaviour is one of the     *)
(* polls of an association, of its clock filter, of the system process     *)
(* that selects among associations, or of the discipline that adjusts the  *)
(* clock.                                                                  *)
(***************************************************************************)
EXTENDS SystemProcess, ClockDiscipline, ClockFilter, PollProcess

VARIABLE part

MCFilterSamples == {[offset |-> o, delay |-> y, disp |-> 0] : o \in {0, 4}, y \in {1, 3}}
\* A server by address with both burst options and an NTS server by name.
MCOptions == {[iburst |-> TRUE, burst |-> TRUE, nts |-> n, lookup |-> n] : n \in BOOLEAN}
MCPlain == [kind |-> "net", refclock |-> FALSE, prefer |-> FALSE, true |-> FALSE, noselect |-> FALSE,
            pps |-> FALSE, tstamp |-> FALSE, metric |-> 1, stratum |-> 0]
Pps == [MCPlain EXCEPT !.kind = "pps", !.refclock = TRUE, !.pps = TRUE]
Local == [MCPlain EXCEPT !.kind = "local", !.refclock = TRUE, !.stratum = 5]
MCConfigs == {<<MCPlain, MCPlain>>, <<[MCPlain EXCEPT !.prefer = TRUE], Pps>>, <<Local, MCPlain>>}
Sample(off, dist, stratum) ==
  [offset |-> off, dist |-> dist, disp |-> 1, jitter |-> 1, stratum |-> stratum, leap |-> "nowarn", loop |-> FALSE]
MCSamples == {Sample(0, 4, 1), Sample(6, 8, 2)}
\* Every combination of four replies, and of five over fewer samples.
MCSurveys ==
  [1 .. 4 -> {Sample(o, y, 2) : o \in {-12, 0, 12}, y \in {8, 11}}]
    \union [1 .. 5 -> {Sample(o, 11, 2) : o \in {-12, -4, 12}}]
\* What an update of the discipline may bring.
MCOffsets == {-5, 1, 7}

-----------------------------------------------------------------------------
all == <<part, svars, dvars, flt, p>>
NoSystem == peer = 0 /\ list = 0 /\ sys = 0
NoDiscipline == DisciplineInit /\ ~d.allow_panic /\ ~d.force_step /\ d.mode_ntpdate /\ d.fwd = 0
NoFilter == FilterInit
NoPolls == PollInit /\ p.wait = 1 /\ ~p.opt.nts
SystemInit == part = "system" /\ Init /\ NoDiscipline /\ NoFilter /\ NoPolls
MCInit ==
  \/ SystemInit
  \/ part = "discipline" /\ DisciplineInit /\ NoSystem /\ NoFilter /\ NoPolls
  \/ part = "filter" /\ FilterInit /\ NoSystem /\ NoDiscipline /\ NoPolls
  \/ part = "polls" /\ PollInit /\ NoSystem /\ NoDiscipline /\ NoFilter
SystemStep(A) == part = "system" /\ A /\ UNCHANGED <<part, dvars, flt, p>>
MCNext ==
  \/ SystemStep(Next)
  \/ part = "discipline" /\ DisciplineNext /\ UNCHANGED <<part, svars, flt, p>>
  \/ part = "filter" /\ FilterNext /\ UNCHANGED <<part, svars, dvars, p>>
  \/ part = "polls" /\ PollNext /\ UNCHANGED <<part, svars, dvars, flt>>
MCSpec == MCInit /\ [][MCNext]_all

-----------------------------------------------------------------------------
\* clock_select finds the intersection its definition gives, see SystemProcess.
Intersected == part = "system" => IntersectionSound
\* The tally codes that clock_select leaves tell of one selection, see
\* SystemProcess.
TallyOfOneSelection == part = "system" => OneSelection
\* A server without a system peer says so after orphwait, see SystemProcess.
ClaimsNothingStale == part = "system" => NoStaleClaim
=============================================================================
