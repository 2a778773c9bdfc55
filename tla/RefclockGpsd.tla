----------------------------- MODULE RefclockGpsd -----------------------------
(***************************************************************************)
(* The gpsd driver: a client of the GPS daemon.  It keeps a connection up, *)
(* asks for reports, and pairs the serial time of TPV or TOFF records      *)
(* ("ibt") with the pulses of PPS records.  u is the primary unit; x.sec   *)
(* the secondary one, which shares its memory and takes the pulses alone.  *)
(*                                                                         *)
(* u.mode is "ibt", "strict" or "auto".  u.fd is the connection in use,    *)
(* x.fdt one that is being set up.  The age of the stamps x.ibt and x.pps  *)
(* is 0 (this record, or its buffer), 1 (since the last second tick), 2    *)
(* (one tick ago), 3 (more) or NoStamp.  Steps of tickpres are one.        *)
(***************************************************************************)
EXTENDS Refclock

CONSTANTS
  TickLow,    \* seconds without data before the connection is closed
  TickHigh,   \* longest wait before the next attempt
  PpsMax      \* PPS_MAXCOUNT and PPS2_MAXCOUNT

ASSUME GpsdAssumption == {TickLow, TickHigh, PpsMax} \subseteq Nat \ {0} /\ TickLow < TickHigh

NoStamp == 4
GpsdSec == [on |-> FALSE, ring |-> 0, pps |-> FALSE, count |-> 0]
GpsdX == [fdt |-> FALSE, tick |-> 0, tickpres |-> TickLow, toff |-> FALSE,
          nosync |-> FALSE, ibt |-> NoStamp, pps |-> NoStamp, pps2 |-> FALSE, raw |-> FALSE, count |-> 0,
          refs |-> 0, sec |-> GpsdSec]
Age(a) == IF a < 3 THEN a + 1 ELSE a

enter_opmode(u) ==
  [u EXCEPT !.x.raw = IF u.mode = "auto" THEN FALSE ELSE @, !.x.count = IF u.mode = "auto" THEN PpsMax \div 2 ELSE @,
            !.x.pps = NoStamp, !.x.ibt = NoStamp]
leave_opmode(u) ==
  [u EXCEPT !.x.raw = @ /\ u.mode # "auto", !.x.count = IF u.mode = "auto" THEN 0 ELSE @,
            !.x.pps = NoStamp, !.x.ibt = NoStamp]
gpsd_start(u, e) ==
  IF "ok" \notin e THEN Failed(u) ELSE Started(enter_opmode([u EXCEPT !.mem = "held", !.x.refs = @ + 1]))
\* The secondary unit comes after the primary one and shares its memory.
secondary_start(u) == [u EXCEPT !.x.refs = @ + 1, !.x.sec.on = TRUE]
\* A connection is closed only when there is a secondary unit.
gpsd_shutdown(u) ==
  LET v == IF ~u.x.sec.on THEN u
           ELSE [(IF u.fd THEN io_closeclock(u) ELSE u) EXCEPT !.x.fdt = FALSE]
      w == [v EXCEPT !.x.refs = @ - 1]
  IN  IF u.mem = "none" THEN u ELSE IF w.x.refs = 0 THEN Freed(w) ELSE [w EXCEPT !.mem = "none"]
gpsd_control(u, mode) ==
  IF u.mode = mode THEN u ELSE enter_opmode([leave_opmode(u) EXCEPT !.mode = mode])
secondary_control(u, flag1) == [u EXCEPT !.x.sec.pps = @ /\ flag1]

-----------------------------------------------------------------------------
(***************************************************************************)
(* The connection.                                                         *)
(***************************************************************************)
Wait(u) == [u EXCEPT !.x.tick = u.x.tickpres, !.x.tickpres = IF @ < TickHigh THEN @ + 1 ELSE @]
gpsd_stop_socket(u) ==
  Wait([io_closeclock(u) EXCEPT !.x.ibt = NoStamp, !.x.pps = NoStamp])
\* "ok": the address answers; "write": at once.
gpsd_init_socket(u, e) ==
  IF "ok" \notin e THEN Wait(u)
  ELSE IF "write" \in e THEN [io_addclock(u) EXCEPT !.fd = TRUE]
  ELSE [u EXCEPT !.x.fdt = TRUE]
\* "pulse": the pending connection is decided.
gpsd_test_socket(u, e) ==
  LET v == [u EXCEPT !.x.fdt = FALSE]
  IN  IF "pulse" \notin e THEN u
      ELSE IF "ok" \notin e THEN Wait(v)
      ELSE [io_addclock(v) EXCEPT !.fd = TRUE, !.x.tick = TickLow]
timer_primary(u, e) ==
  LET v == [u EXCEPT !.x.tick = Down(@), !.x.ibt = Age(@), !.x.pps = Age(@)]
  IN  IF v.fd THEN IF v.x.tick = 0 THEN gpsd_stop_socket(v) ELSE v
      ELSE IF v.x.fdt THEN gpsd_test_socket(v, e)
      ELSE IF v.x.tick = 0 THEN gpsd_init_socket(v, e) ELSE v
\* Samples of a secondary unit without pulses are flushed.
timer_secondary(u) ==
  LET s == u.x.sec
      n == Down(s.count)
      t == [s EXCEPT !.count = n]
  IN  IF ~s.on THEN u
      ELSE [u EXCEPT !.x.sec = IF n = 0 THEN [t EXCEPT !.ring = 0, !.pps = FALSE] ELSE t]
gpsd_timer(u, e) == timer_secondary(timer_primary(u, e))

-----------------------------------------------------------------------------
(***************************************************************************)
(* Records.  m.kind: "fix" or "nofix" for TPV, "sync" or "garbled" for the *)
(* numbers of the others, and the protocol of VERSION.                     *)
(***************************************************************************)
GpsdMsgs ==
  [class : {"TPV"}, kind : {"sync", "nofix", "garbled"}] \union [class : {"PPS", "TOFF"}, kind : {"sync", "garbled"}]
    \union [class : {"VERSION"}, kind : {"old", "new", "garbled"}] \union [class : {"WATCH"}, kind : {"on"}]
    \union [class : {"junk"}, kind : {"garbled"}]
process_tpv(u, m) ==
  IF m.kind = "nofix" THEN [u EXCEPT !.x.ibt = NoStamp, !.x.pps = NoStamp, !.x.nosync = TRUE, !.told = "unsync"]
  ELSE LET v == [u EXCEPT !.x.nosync = FALSE, !.told = "sync"]
       IN  IF u.x.toff THEN v
           ELSE IF m.kind = "sync" THEN [v EXCEPT !.x.ibt = 0] ELSE [v EXCEPT !.x.ibt = NoStamp]
process_pps(u, m) ==
  IF u.x.nosync THEN u
  ELSE IF m.kind # "sync" THEN u
  ELSE [u EXCEPT !.x.pps = IF 2 \in u.flags THEN NoStamp ELSE 0, !.x.pps2 = TRUE]
process_toff(u, m) ==
  LET v == [u EXCEPT !.x.toff = TRUE]
  IN  IF u.x.nosync THEN v ELSE IF m.kind # "sync" THEN v ELSE [v EXCEPT !.x.ibt = 0]
\* The request to be sent reports goes out with every version until it is
\* answered (process_watch), which nothing else depends on.
process_version(u, m) ==
  IF m.kind = "garbled" THEN u ELSE [u EXCEPT !.x.toff = m.kind = "new"]

add_clock_sample(u) == SAMPLE(IF u.ring = 0 THEN refclock_report(u, "nominal") ELSE u)
eval_serial(u) == IF u.x.ibt = NoStamp THEN u ELSE [add_clock_sample(u) EXCEPT !.x.ibt = NoStamp]
eval_strict(u) ==
  IF u.x.ibt = NoStamp \/ u.x.pps = NoStamp THEN u
  ELSE [add_clock_sample(u) EXCEPT !.x.ibt = NoStamp, !.x.pps = NoStamp]
\* PPS_INCCOUNT is 3 and PPS_DECCOUNT 1.
eval_auto(u) ==
  LET n == IF u.x.pps # NoStamp THEN (IF u.x.count + 3 < PpsMax THEN u.x.count + 3 ELSE PpsMax) ELSE Down(u.x.count)
      r == IF u.x.pps # NoStamp THEN u.x.raw /\ n # PpsMax ELSE u.x.raw \/ n = 0
      v == [u EXCEPT !.x.count = n, !.x.raw = r]
  IN  IF u.x.ibt = NoStamp THEN u ELSE IF r THEN eval_serial(v) ELSE eval_strict(v)
\* The secondary unit becomes a PPS source with flag1.
eval_pps_secondary(u) ==
  LET s == u.x.sec
      n == IF s.count + 2 < PpsMax THEN s.count + 2 ELSE PpsMax
  IN  IF ~s.on \/ ~u.x.pps2 THEN u
      ELSE [u EXCEPT !.x.pps2 = FALSE,
                     !.x.sec = [s EXCEPT !.ring = IF @ < Stages THEN @ + 1 ELSE @, !.count = n,
                                         !.pps = @ \/ (n = PpsMax /\ 1 \in u.flags)]]
\* A stamp a second older than the other is dropped; serial time must not
\* come before the pulse.  "late" in e: between the two was a second.
Weeded(u, e) ==
  IF u.x.ibt = NoStamp \/ u.x.pps = NoStamp \/ u.x.ibt = u.x.pps THEN u
  ELSE IF u.x.ibt > u.x.pps THEN [u EXCEPT !.x.ibt = NoStamp]
  ELSE IF u.x.pps = 3 \/ (u.x.pps = 2 /\ "late" \in e) THEN [u EXCEPT !.x.pps = NoStamp] ELSE u
gpsd_parse(u, m, e) ==
  LET a == IF "burst" \in e THEN u
           ELSE [u EXCEPT !.x.ibt = IF @ = 0 THEN 1 ELSE @, !.x.pps = IF @ = 0 THEN 1 ELSE @]
      v == CASE m.class = "TPV" -> process_tpv(a, m) [] m.class = "PPS" -> process_pps(a, m)
             [] m.class = "TOFF" -> process_toff(a, m) [] m.class = "VERSION" -> process_version(a, m) [] OTHER -> a
      w == Weeded(eval_pps_secondary(v), e)
  IN  IF m.class = "junk" THEN v
      ELSE IF u.mode = "ibt" THEN eval_serial(w) ELSE IF u.mode = "strict" THEN eval_strict(w) ELSE eval_auto(w)
\* gpsd_receive, for the last record of a read.
gpsd_receive(u, m, e) == [gpsd_parse(u, m, e) EXCEPT !.x.tick = TickLow]

poll_primary(u) ==
  IF u.ring > 0 THEN refclock_receive(refclock_report(u, "nominal"))
  ELSE refclock_report(u, IF ~u.fd THEN "fault" ELSE "timeout")
poll_secondary(u) ==
  LET s == u.x.sec
  IN  IF s.ring > 0 THEN [u EXCEPT !.x.sec.ring = 0] ELSE [u EXCEPT !.x.sec.pps = FALSE]
=============================================================================
