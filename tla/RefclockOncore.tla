---------------------------- MODULE RefclockOncore ----------------------------
(***************************************************************************)
(* The oncore driver: Motorola GPS receivers.  @@Cj, which every model     *)
(* answers, leads through the initialization: identify, find the number of *)
(* channels, reset, self test, initialize, wait for an almanac, run.  Then *)
(* a position message comes each second (Ba, Ea or Ha, by the number of    *)
(* channels), and its seconds serve as timer; with TRAIM the tick is taken *)
(* at the status message that follows (Bn, En or Hn).  The commands sent   *)
(* are not recorded: the receiver may answer at any time, or never.        *)
(*                                                                         *)
(* u.mode is the configuration file and the channels of the receiver;      *)
(* delays of five seconds are Tally messages, POS_HOLD_AVERAGE is Tally    *)
(* fixes.                                                                  *)
(***************************************************************************)
EXTENDS Refclock

Yes == 1
No == 0
Unknown == 2
\* chan is 0 when it is not in the file, traim Unknown.
OncoreX == [state |-> "NO_IDEA", timeout |-> 0, pollcnt |-> 0, polled |-> FALSE, init |-> 0, chan |-> 0, chan_ck |-> 0,
            count3 |-> 0, count |-> 0, once |-> TRUE, survey |-> "UNKNOWN", count1 |-> 0, fix |-> "UNKNOWN",
            traim |-> Unknown, traim_ck |-> No, traim_delay |-> 0, bad_almanac |-> FALSE, count5 |-> 0, count5_set |-> FALSE,
            ss |-> 0, Gj |-> Unknown, count4 |-> 0]

\* A file without a MODE line gives mode 0; a mode that needs a position the
\* file has not is the next one, with a site survey.
oncore_read_config(f) == IF ~f.file THEN 4 ELSE IF ~f.posn /\ f.mode \in {1, 3} THEN f.mode + 1 ELSE f.mode
\* The @@Cj that is repeated at each poll until it is answered.
Cj(u) == [u EXCEPT !.x.timeout = 4]
\* "kernel": it has no PPS interface, "write": its mode can be set.
oncore_start(u, e) ==
  LET v == [Opened(u) EXCEPT !.pps = FALSE, !.x.init = oncore_read_config(u.mode), !.x.state = "CHECK_ID", !.x.pollcnt = 2]
  IN  IF "ok" \notin e THEN Failed(u)
      ELSE IF "kernel" \in e THEN Failed(Fault(u, "left open"))
      ELSE IF "write" \in e THEN Started(Cj(v)) ELSE Failed(u)
\* The descriptor is closed with the registration and once more, and the
\* pointer to the memory is not reset: the driver also shuts itself down, and
\* the association stays.
oncore_shutdown(u) ==
  IF u.mem = "held" THEN Fault([io_closeclock(u) EXCEPT !.mem = "dangling"], "closed twice") ELSE Freed(u)
oncore_poll(u, e) ==
  LET n == u.x.timeout - 1
      v == IF u.x.pollcnt = 0 THEN refclock_report(u, "timeout") ELSE [u EXCEPT !.x.pollcnt = @ - 1]
  IN  IF u.mem # "held" THEN Fault(u, "used after free")
      ELSE IF u.x.timeout = 0 THEN [v EXCEPT !.x.polled = TRUE]
      ELSE IF n = 0 THEN oncore_shutdown([u EXCEPT !.x.timeout = 0])
      ELSE [u EXCEPT !.x.timeout = n]

-----------------------------------------------------------------------------
(***************************************************************************)
(* The tick.                                                               *)
(***************************************************************************)
NoTick(u) == [u EXCEPT !.pps = FALSE]
\* Nothing is done without an almanac, or while a finished survey leaves the
\* position free.
Usable(u) == ~(u.x.survey = "DONE" /\ u.x.fix # "0D") /\ ~u.x.bad_almanac
oncore_get_timestamp(u, m, e) ==
  LET p == SAMPLE([u EXCEPT !.x.pollcnt = 2, !.x.polled = FALSE])
      r == IF u.x.polled THEN refclock_receive(p) ELSE p
  IN  IF ~Usable(u) THEN NoTick(u)
      ELSE IF u.x.count5 > 0 THEN NoTick([u EXCEPT !.x.count5 = @ - 1])
      ELSE IF "pulse" \notin e THEN NoTick(u)
      ELSE IF m.kind = "baddate" THEN NoTick(refclock_report(u, "badtime"))
      ELSE [r EXCEPT !.pps = TRUE]

-----------------------------------------------------------------------------
(***************************************************************************)
(* Initialization.                                                         *)
(***************************************************************************)
oncore_chan_test(u) == [u EXCEPT !.x.state = "CHECK_CHAN", !.x.count3 = 1]
oncore_msg_Cj_init(u) == [u EXCEPT !.x.count = 1, !.x.state = "ALMANAC"]
oncore_msg_Cj(u) ==
  LET v == [u EXCEPT !.x.timeout = 0] IN
  IF u.x.state = "CHECK_ID" THEN oncore_chan_test(v)
  ELSE IF u.x.state = "HAVE_CHAN" THEN [v EXCEPT !.x.state = IF u.x.init \in {3, 4} THEN "RESET_SENT" ELSE "TEST_SENT"]
  ELSE IF u.x.state = "INIT" THEN oncore_msg_Cj_init(v) ELSE v
\* The @@Cj after a reset, and the self test, are not repeated when lost.
oncore_msg_Cf(u) == IF u.x.state = "RESET_SENT" THEN [u EXCEPT !.x.state = "TEST_SENT"] ELSE u
oncore_msg_CaFaIa(u, m) ==
  LET v == [u EXCEPT !.x.timeout = 0] IN
  IF u.x.state # "TEST_SENT" THEN u
  ELSE IF m.kind = "failed" THEN oncore_shutdown(refclock_report(v, "fault"))
  ELSE Cj([v EXCEPT !.x.state = "INIT"])
\* The most channels of any message that comes while they are tested.
CheckChannels(u, m) ==
  LET v == [u EXCEPT !.x.chan_ck = IF m.chan > @ THEN m.chan ELSE @]
  IN  IF u.x.count3 < Tally THEN [v EXCEPT !.x.count3 = @ + 1]
      ELSE Cj([v EXCEPT !.x.count3 = 0, !.x.state = "HAVE_CHAN", !.x.chan = IF u.mode.chan # 0 THEN u.mode.chan ELSE v.x.chan_ck])

-----------------------------------------------------------------------------
(***************************************************************************)
(* The position message: m.alm (an almanac is there), m.fix ("same" for no *)
(* usable fix), m.survey (the receiver's own site survey goes on); the UTC *)
(* parameters are valid ("utc" in e), the day is a new one ("newday").     *)
(***************************************************************************)
oncore_check_almanac(u, m, e) ==
  LET utc == u.x.chan = 12 /\ ~u.x.count5_set /\ "utc" \in e
  IN  [u EXCEPT !.x.bad_almanac = ~m.alm, !.told = IF m.alm THEN "sync" ELSE "unsync", !.x.count5 = IF utc THEN Tally ELSE @, !.x.count5_set = @ \/ utc]
oncore_wait_almanac(u) == [u EXCEPT !.x.traim_delay = 1, !.x.state = "RUN"]
Once(u) ==
  IF ~u.x.once THEN u
  ELSE LET v == [u EXCEPT !.x.once = FALSE]
       IN  IF u.x.init \in {0, 1, 3} THEN [v EXCEPT !.x.survey = "DONE"]
           ELSE [v EXCEPT !.x.survey = "TESTING", !.x.count1 = 1]
\* The receiver's own survey is used if it starts in time.
SurveyTest(u, m) ==
  LET n == u.x.count1
      late == n > Tally
      hw == u.x.chan = 12 /\ m.survey
  IN  IF u.x.survey # "TESTING" \/ n = 0 THEN u
      ELSE IF hw THEN [u EXCEPT !.x.count1 = 0, !.x.survey = "HW"]
      ELSE IF late THEN [u EXCEPT !.x.count1 = 0, !.x.survey = "SW"]
      ELSE [u EXCEPT !.x.count1 = n + 1]
oncore_set_traim(u) == [u EXCEPT !.x.traim = IF u.mode.traim # Unknown THEN u.mode.traim ELSE u.x.traim_ck]
oncore_ss(u, m) ==
  IF u.x.survey = "HW"
  THEN IF u.x.chan \in {8, 12} /\ ~m.survey THEN [u EXCEPT !.x.survey = "DONE"] ELSE u
  ELSE IF u.x.survey = "SW" /\ m.fix = "3D"
  THEN [u EXCEPT !.x.ss = @ + 1, !.x.survey = IF u.x.ss + 1 = Tally THEN "DONE" ELSE @]
  ELSE u
\* Once a day the leap second is asked for: @@Gj, or @@Bj (in its months) and
\* @@Bl when @@Gj is not answered.
oncore_check_leap_sec(u, e) ==
  IF "newday" \in e THEN [u EXCEPT !.x.count4 = IF u.x.Gj = Unknown THEN 1 ELSE @]
  ELSE IF u.x.count4 = 0 THEN u
  ELSE IF u.x.Gj = Yes THEN [u EXCEPT !.x.count4 = 0]
  ELSE IF u.x.count4 <= Tally THEN [u EXCEPT !.x.count4 = @ + 1]
  ELSE [u EXCEPT !.x.Gj = No, !.x.count4 = 0]
Run(u, m, e) ==
  LET a == SurveyTest(Once(u), m)
      b == [a EXCEPT !.x.fix = IF m.fix = "same" THEN @ ELSE m.fix]
      c == IF b.x.traim_delay = 0 THEN b ELSE oncore_set_traim([b EXCEPT !.x.traim_delay = 0])
      d == oncore_check_leap_sec(oncore_ss(c, m), e)
  IN  IF b.x.traim_delay \in 1..Tally THEN [b EXCEPT !.x.traim_delay = @ + 1]
      ELSE IF d.x.traim = No THEN oncore_get_timestamp(d, m, e) ELSE d
oncore_msg_BaEaHa(u, m, e) ==
  LET v == oncore_check_almanac([u EXCEPT !.x.count = 0], m, e)
      w == IF u.x.state = "ALMANAC" THEN oncore_wait_almanac(v) ELSE v
  IN  IF u.x.state = "CHECK_CHAN" THEN CheckChannels(u, m)
      ELSE IF u.x.state \notin {"ALMANAC", "RUN"} THEN u
      ELSE IF u.x.count \in 1..(Tally - 1) THEN [u EXCEPT !.x.count = @ + 1]
      ELSE IF u.x.state = "ALMANAC" /\ v.x.bad_almanac THEN v ELSE Run(w, m, e)

-----------------------------------------------------------------------------
(***************************************************************************)
(* The other messages.  Those that only set a value that is logged, or     *)
(* copy it to shared memory, change nothing here.                          *)
(***************************************************************************)
oncore_msg_BnEnHn(u, m, e) ==
  LET v == IF u.x.traim_delay = 0 THEN u ELSE oncore_set_traim([u EXCEPT !.x.traim_ck = Yes, !.x.traim_delay = 0])
  IN  IF u.x.state # "RUN" THEN u
      ELSE IF v.x.traim = No \/ m.kind = "failed" THEN v ELSE oncore_get_timestamp(v, m, e)
oncore_msg_At(u, m) ==
  LET hw == u.x.survey = "TESTING" /\ m.kind = "survey"
  IN  [u EXCEPT !.x.survey = IF hw THEN "HW" ELSE @]
\* A leap second to come is "nowarn" too: what matters is that these never say
\* LEAP_NOTINSYNC.  oncore_msg_Bl sets the bits of the association.
oncore_msg_Bj(u) == [u EXCEPT !.leap = "nowarn"]
oncore_msg_Gj(u) == [u EXCEPT !.leap = "nowarn", !.x.Gj = Yes]
oncore_msg_Bl(u) == [u EXCEPT !.pleap = "nowarn"]
oncore_msg_Sz(u) == oncore_shutdown(u)
OncoreMsgs(receiver) ==
  [id : {"data"}, chan : {receiver}, alm : BOOLEAN, fix : {"0D", "3D", "same"}, survey : BOOLEAN, kind : {"good"}]
    \union [id : {"status"}, kind : {"good", "failed", "baddate"}] \union [id : {"test"}, kind : {"good", "failed"}]
    \union [id : {"At"}, kind : {"survey", "other"}]
    \union [id : {"Cj", "Cf", "Gj", "Bj", "Bl", "Sz"}, kind : {"good"}]
\* oncore_consume, for a message with a good checksum.
oncore_receive(u, m, e) ==
  CASE m.id = "data" -> oncore_msg_BaEaHa(u, m, e) [] m.id = "status" -> oncore_msg_BnEnHn(u, m, e)
    [] m.id = "test" -> oncore_msg_CaFaIa(u, m) [] m.id = "Cj" -> oncore_msg_Cj(u) [] m.id = "Cf" -> oncore_msg_Cf(u)
    [] m.id = "At" -> oncore_msg_At(u, m) [] m.id = "Bj" -> oncore_msg_Bj(u)
    [] m.id = "Gj" -> oncore_msg_Gj(u) [] m.id = "Bl" -> oncore_msg_Bl(u) [] m.id = "Sz" -> oncore_msg_Sz(u)
=============================================================================
