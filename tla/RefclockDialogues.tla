-------------------------- MODULE RefclockDialogues --------------------------
(***************************************************************************)
(* The drivers spectracom, hpgps, truetime and modem: receivers that answer*)
(* commands, and whose driver follows the dialogue.                        *)
(***************************************************************************)
EXTENDS RefclockLines

(***************************************************************************)
(* spectracom: "stamp" tells whether an end of line gave a timestamp,      *)
(* "cr" whether the last was a <CR>; "lines" counts the lines of the       *)
(* quality table still to come; flag1 asks for the PPS interface.  "newday"*)
(* in e: the hour of the timecode is below the one at the last poll.       *)
(***************************************************************************)
SpectracomX == [handle |-> FALSE, params |-> FALSE, tried |-> FALSE, tcount |-> 0, pcount |-> 0, cr |-> FALSE,
                stamp |-> FALSE, lines |-> 0]
spectracom_start(u, e) == SerialStart(u, e)
SpectracomMsgs == Kinds \union {"eol"}
spectracom_receive(u, m) ==
  LET v == [u EXCEPT !.x.stamp = TRUE, !.x.cr = TRUE]
      w == Told([v EXCEPT !.leap = Leap(m), !.x.tcount = Up(@)], m)
  IN  IF m = "eol" THEN [u EXCEPT !.x.stamp = @ \/ ~u.x.cr, !.x.cr = ~@]
      ELSE IF ~u.x.stamp THEN v
      ELSE IF m \in {"garbled", "odd"}
      THEN IF u.x.lines > 0 THEN [v EXCEPT !.x.lines = @ - 1] ELSE refclock_report(v, "badreply")
      ELSE IF u.pps THEN w
      ELSE refclock_process(w, m)
\* Every answer of refclock_catcher but "ok" is positive.
spectracom_timer(u, e) ==
  LET v == write(u, e)
      c == refclock_catcher(v, e)
  IN  IF ~u.x.handle THEN v
      ELSE IF c.rc = "ok" THEN c.u ELSE [c.u EXCEPT !.x.pcount = Up(@), !.pps = TRUE]
spectracom_poll(u, e) ==
  LET v == [u EXCEPT !.x.lines = IF 4 \in u.flags /\ "newday" \in e THEN Tally ELSE @, !.pps = @ /\ u.x.pcount > 0]
  IN  IF u.x.tcount = 0 THEN refclock_report([v EXCEPT !.ring = 0], "timeout")
      ELSE refclock_receive([v EXCEPT !.x.pcount = 0, !.x.tcount = 0])
spectracom_control(u, e) ==
  IF 1 \notin u.flags THEN [u EXCEPT !.x.tried = FALSE, !.x.handle = FALSE, !.pps = @ /\ ~u.x.handle]
  ELSE IF u.x.tried THEN u ELSE refclock_ppsapi([u EXCEPT !.x.tried = TRUE], e)

-----------------------------------------------------------------------------
(***************************************************************************)
(* hpgps: "cmndcnt" counts the answers of the flag3 questions, "linecnt"   *)
(* the lines of the status screen still to come; "idlesec" the seconds     *)
(* without a timecode.  The prompt is stripped; "error" in e is an error   *)
(* code in front of the line, which is cleared with a command.             *)
(***************************************************************************)
Commands == 5
HpgpsX == [idlesec |-> 0, didpoll |-> FALSE, cmndcnt |-> 0, linecnt |-> 1]
hpgps_write(u, e) == write(u, e)
hpgps_start(u, e) ==
  IF "ok" \in e THEN Started(hpgps_write([Opened(u) EXCEPT !.x = HpgpsX], e)) ELSE Failed(u)
HpgpsMsgs == Kinds \union {"selftest"}
\* A timecode; got tells whether it was good and no poll is due.
hpgps_receive_T2(u, m, e) ==
  LET s == SAMPLE(Told([u EXCEPT !.leap = Leap(m)], m)) IN
  IF m \in {"garbled", "odd", "selftest"} THEN [got |-> FALSE, u |-> refclock_report(u, "badreply")]
  ELSE IF m = "baddate" THEN [got |-> FALSE, u |-> refclock_report(Told([u EXCEPT !.leap = "nowarn"], m), "badtime")]
  ELSE IF u.x.didpoll THEN [got |-> FALSE, u |-> s]
  ELSE [got |-> TRUE, u |-> hpgps_write(s, e)]
hpgps_receive(u, m, e) ==
  LET v == IF "error" \in e THEN hpgps_write(u, e) ELSE u
      t == hpgps_receive_T2([v EXCEPT !.x.idlesec = 0], m, e)
  IN  IF v.x.cmndcnt > 0
      THEN hpgps_write([v EXCEPT !.x.linecnt = IF v.x.cmndcnt = Commands /\ 4 \in u.flags THEN Tally ELSE @,
                                 !.x.cmndcnt = IF @ < Commands THEN @ + 1 ELSE 0], e)
      ELSE IF v.x.linecnt > 0
      THEN IF v.x.linecnt = 1 \/ m = "selftest" THEN hpgps_write([v EXCEPT !.x.linecnt = 0], e)
           ELSE [v EXCEPT !.x.linecnt = @ - 1]
      ELSE IF 2 \in u.flags /\ m \in {"garbled", "selftest"} THEN [v EXCEPT !.x.idlesec = 0]
      ELSE IF t.got \/ ~v.x.didpoll THEN t.u
      ELSE hpgps_write([t.u EXCEPT !.x.didpoll = FALSE,
                                   !.x.cmndcnt = IF 3 \in u.flags THEN 1 ELSE 0,
                                   !.x.linecnt = IF 4 \in u.flags /\ 3 \notin u.flags THEN Tally ELSE 0], e)
\* The samples are handed over whether or not there are any.
hpgps_poll(u, e) == [refclock_receive(u) EXCEPT !.x.didpoll = TRUE]
hpgps_timer(u, e) ==
  LET v == [u EXCEPT !.x.idlesec = IF @ < 6 THEN @ + 1 ELSE 6]
      w == IF u.x.idlesec = 5 THEN refclock_report(v, "timeout") ELSE v
  IN  IF v.x.idlesec >= 5 THEN hpgps_write([w EXCEPT !.x.cmndcnt = 0, !.x.linecnt = 0], e) ELSE w

-----------------------------------------------------------------------------
(***************************************************************************)
(* truetime: a state machine finds out what kind of clock it is.  A kind   *)
(* other than "unknown" is found only in the states InqTM and InqTCU, and  *)
(* these are entered only from each other.  abort stops the daemon.        *)
(***************************************************************************)
TruetimeX == [type |-> "unknown", state |-> "Base", polled |-> FALSE, pollcnt |-> 2]
TruetimeEvents == {"Huh", "F18", "F50", "F51", "Location"}
TruetimeMsgs == (Kinds \ {"odd"}) \union TruetimeEvents
abort(u) == Fault(u, "abort")
\* true_send is silent with flag1.
true_send(u, e) == IF 1 \in u.flags THEN u ELSE write(u, e)
true_doevent(u, event, e) ==
  LET s == u.x.state IN
  IF s = "Base" THEN IF event # "Init" THEN abort(u) ELSE true_send([u EXCEPT !.x.state = "InqGOES"], e)
  ELSE IF s = "InqGOES" THEN IF event \in {"Init", "Huh"} THEN u ELSE abort(u)
  ELSE IF s = "InqTM" /\ event = "F18" THEN true_send([u EXCEPT !.x.type = "tm", !.x.state = "Init"], e)
  ELSE IF s = "InqTM" /\ event \in {"Init", "Huh"} THEN true_send([u EXCEPT !.x.state = "InqTCU"], e)
  ELSE IF s = "InqTCU" /\ event = "Location" THEN true_send([u EXCEPT !.x.type = "tcu", !.x.state = "Start"], e)
  ELSE IF s = "InqTCU" /\ event \in {"Init", "Huh"} THEN [u EXCEPT !.x.state = "Base"]
  ELSE u
true_start(u, e) ==
  IF "ok" \in e THEN Started(true_doevent(true_send(Opened(u), e), "Init", e)) ELSE Failed(u)
true_receive(u, m, e) ==
  LET v == [u EXCEPT !.x.pollcnt = 2]
      t == true_doevent(Told([v EXCEPT !.leap = Leap(m)], m), "TS", e)
      p == refclock_process(t, m)
  IN  IF m \in TruetimeEvents THEN true_doevent(v, m, e)
      ELSE IF m = "garbled" THEN refclock_report(v, "badreply")
      ELSE IF "abort" \in t.faults \/ ~t.x.polled THEN t
      ELSE IF m = "baddate" THEN p
      ELSE refclock_report([refclock_receive(p) EXCEPT !.x.polled = FALSE], "nominal")
true_poll(u, e) ==
  LET v == IF u.x.pollcnt > 0 THEN [u EXCEPT !.x.pollcnt = @ - 1]
           ELSE refclock_report(true_doevent(u, "Init", e), "timeout")
  IN  [v EXCEPT !.x.polled = TRUE]
-----------------------------------------------------------------------------
(***************************************************************************)
(* modem: a poll, a redial timeout or flag1 makes a call.  u.mode is       *)
(* "manual", "auto" or "backup"; Phones the length of sys_phone; "lock"    *)
(* who holds the lock file of the port, which flag2 asks for.  The         *)
(* timeouts are all Tally seconds and MAXCODE is Tally timecodes.          *)
(***************************************************************************)
CONSTANT Phones
ModemX == [state |-> "IDLE", timer |-> 0, retry |-> 0, msgcnt |-> 0, lock |-> "free"]
modem_start(u, e) == Started([u EXCEPT !.mem = "held"])
modem_close(u) ==
  LET v == IF u.fd THEN io_closeclock(u) ELSE u
      x == v.x
  IN  [v EXCEPT !.x.lock = IF 2 \in u.flags THEN "free" ELSE @,
                !.x.state = "IDLE",
                !.x.timer = IF x.msgcnt = 0 /\ x.retry > 0 /\ x.retry < Phones THEN Tally ELSE 0]
modem_shutdown(u) == Freed(modem_close(u))
\* modem_timeout in IDLE: lock and open the port.  If the port does not open
\* the lock stays.
Call(u, e) ==
  LET v == IF 2 \in u.flags THEN [u EXCEPT !.x.lock = "ours"] ELSE u
      w == [io_addclock(v) EXCEPT !.fd = TRUE, !.x.msgcnt = 0, !.x.timer = Tally,
                                  !.x.state = IF u.x.retry = Phones THEN "MSG" ELSE "SETUP"]
  IN  IF u.fd \/ (2 \in u.flags /\ u.x.lock # "free") THEN u
      ELSE IF "ok" \notin e THEN v ELSE w
modem_timeout(u, dstate, e) ==
  IF dstate = "IDLE" THEN Call(u, e)
  ELSE modem_close(IF dstate = "MSG" /\ u.x.msgcnt > 0 THEN refclock_receive(u) ELSE u)
\* A timecode of one of the services; "early" is a NIST timecode before the
\* delay correction is valid, "mark" the on-time character of USNO.
modem_timecode(u, m) ==
  LET v == IF m = "mark" THEN u
           ELSE Told([u EXCEPT !.leap = Leap(m), !.x.msgcnt = @ + 1], m)
  IN  IF m = "other" THEN u
      ELSE IF m = "garbled" THEN refclock_report(u, "badreply")
      ELSE IF (m = "mark" /\ u.x.msgcnt = 0) \/ (m = "early" /\ v.x.msgcnt < Tally) THEN v
      ELSE refclock_process(v, m)
ModemLines == {"OK", "echo", "CONNECT", "other", "sync", "unsync", "garbled", "baddate", "early", "mark"}
modem_message(u, m, e) ==
  IF u.x.state = "SETUP" /\ m = "OK"
  THEN [u EXCEPT !.x.retry = @ + 1, !.x.state = "CONNECT", !.x.timer = Tally]
  ELSE IF u.x.state = "SETUP" /\ m = "echo" THEN u
  ELSE IF u.x.state = "CONNECT" /\ m = "CONNECT" THEN [u EXCEPT !.x.state = "MSG", !.x.timer = Tally]
  ELSE IF u.x.state # "MSG" THEN modem_close(u)
  ELSE IF u.x.msgcnt >= Tally THEN modem_timeout(u, "MSG", e)
  ELSE IF m \in {"OK", "echo", "CONNECT"} THEN modem_timecode(u, "other") ELSE modem_timecode(u, m)
\* What one read brings is a line or two, and a call that ends with the first
\* still sees the second.
ModemMsgs == ModemLines \X (ModemLines \union {"none"})
modem_receive(u, m, e) ==
  LET v == modem_message(u, m[1], e) IN IF m[2] = "none" THEN v ELSE modem_message(v, m[2], e)
modem_poll(u, e) ==
  IF u.mode = "manual" \/ (u.mode = "backup" /\ "lamp" \notin e) \/ u.x.state # "IDLE" THEN u
  ELSE modem_timeout([u EXCEPT !.x.retry = 0], "IDLE", e)
modem_timer(u, e) ==
  LET v == [u EXCEPT !.x.timer = @ - 1] IN
  IF u.x.timer > 0 THEN IF v.x.timer = 0 THEN modem_timeout(v, u.x.state, e) ELSE v
  ELSE IF 1 \in u.flags THEN modem_timeout([u EXCEPT !.flags = @ \ {1}], "IDLE", e) ELSE u
=============================================================================
