---------------------------- MODULE RefclockLines ----------------------------
(***************************************************************************)
(* The drivers local, pps and shm, which read no serial port, and zyfer    *)
(* and arbiter, which read lines of text with the time.  A timecode is     *)
(* "sync" or "unsync" (the clock says whether it is synchronized),         *)
(* "garbled" (not in the format), "baddate" (no date) or "odd" (in a mode  *)
(* the driver refuses).                                                    *)
(***************************************************************************)
EXTENDS Refclock

Kinds == {"sync", "unsync", "garbled", "baddate", "odd"}
Leap(kind) == IF kind = "unsync" THEN "notinsync" ELSE "nowarn"

-----------------------------------------------------------------------------
(***************************************************************************)
(* local: the clock of the host.  flag1, when the clock starts, says that  *)
(* another process disciplines it ("lock"); its leap bits are then the     *)
(* kernel's.                                                               *)
(***************************************************************************)
LocalX == [lock |-> FALSE]
local_start(u, e) == Started([u EXCEPT !.leap = "notinsync", !.x.lock = 1 \in u.flags])
local_poll(u, e) ==
  LET kind == IF u.x.lock /\ "ok" \notin e THEN "unsync" ELSE "sync"
  IN  IF "lamp" \notin e THEN u ELSE refclock_receive(Told([SAMPLE(u) EXCEPT !.leap = Leap(kind)], kind))

(***************************************************************************)
(* pps: pulses only; the descriptor is not registered for input.           *)
(***************************************************************************)
pps_start(u, e) ==
  LET v == [u EXCEPT !.mem = "held", !.fd = "write" \in e]
      w == refclock_ppsapi(v, e)
  IN  IF v.fd THEN [ok |-> w.x.handle, u |-> w] ELSE Failed(v)
pps_shutdown(u) == Freed([u EXCEPT !.fd = FALSE])
pps_timer(u, e) ==
  LET c == refclock_catcher(u, e)
  IN  IF c.rc = "ok" THEN [c.u EXCEPT !.pps = TRUE, !.told = "sync"] ELSE c.u
pps_poll(u, e) ==
  IF "insync" \notin e THEN [u EXCEPT !.ring = 0]
  ELSE IF u.ring = 0 THEN refclock_report([u EXCEPT !.pps = FALSE], "timeout")
  ELSE refclock_receive(u)

(***************************************************************************)
(* shm: samples of another process; m is what shm_query finds.             *)
(***************************************************************************)
ShmX == [seg |-> FALSE, limit |-> TRUE, notready |-> 0, bad |-> 0, clash |-> 0]
getShmTime(u, e) == [u EXCEPT !.x.seg = "ok" \in e]
shm_start(u, e) == IF "ok" \in e THEN Started([getShmTime(u, e) EXCEPT !.mem = "held"]) ELSE Failed(u)
shm_shutdown(u) == IF u.mem = "none" THEN u ELSE Freed([u EXCEPT !.x.seg = FALSE])
shm_control(u) == [u EXCEPT !.x.limit = 1 \in u.flags]
ShmMsgs == {"notready", "badmode", "clash", "stale", "far", "sync", "unsync"}
shm_timer(u, m, e) ==
  LET v == IF u.x.seg THEN u ELSE getShmTime(u, e) IN
  IF ~v.x.seg THEN v
  ELSE IF m = "notready" THEN [v EXCEPT !.x.notready = Up(@)]
  ELSE IF m = "clash" THEN [v EXCEPT !.x.clash = Up(@)]
  ELSE IF m \in {"badmode", "stale"} \/ (m = "far" /\ v.x.limit) THEN [v EXCEPT !.x.bad = Up(@)]
  ELSE SAMPLE(Told([v EXCEPT !.leap = Leap(m)], m))
\* shm_poll, with shm_clockstats.
shm_poll(u, e) ==
  LET x == u.x
      v == IF u.ring > 0 THEN refclock_receive(u)
           ELSE IF ~x.seg THEN refclock_report(u, "fault")
           ELSE IF x.clash >= x.notready /\ x.clash >= x.bad THEN refclock_report(u, "prop")
           ELSE IF x.bad >= x.notready THEN refclock_report(u, "badreply")
           ELSE refclock_report(u, "timeout")
  IN  [v EXCEPT !.x.notready = 0, !.x.bad = 0, !.x.clash = 0]

-----------------------------------------------------------------------------
(***************************************************************************)
(* zyfer: raw chunks; "len" is how much of the line there is.  m.start     *)
(* tells whether the chunk begins with the on-time character, m.fill how   *)
(* long the line is with it.                                               *)
(***************************************************************************)
ZyferX == [len |-> "none", polled |-> FALSE, pollcnt |-> 2]
ZyferMsgs == [start : BOOLEAN, fill : {"part", "over", "huge"}, kind : {"sync"}]
               \union [start : BOOLEAN, fill : {"full"}, kind : Kinds]
zyfer_start(u, e) == SerialStart(u, e)
zyfer_receive(u, m) ==
  LET v == [u EXCEPT !.x.len = IF m.fill = "part" THEN "part" ELSE "full"]
      p == refclock_process(v, m.kind)
      w == [p EXCEPT !.x.pollcnt = 2]
  IN  IF u.x.len # "part" /\ ~m.start THEN [u EXCEPT !.x.len = "none"]
      ELSE IF m.fill = "huge" /\ u.x.len = "part" THEN refclock_report([u EXCEPT !.x.len = "none"], "badreply")
      ELSE IF m.fill = "part" THEN v
      ELSE IF m.fill \in {"over", "huge"} \/ m.kind = "odd" THEN refclock_report(v, "badtime")
      ELSE IF m.kind = "garbled" THEN refclock_report(v, "badreply")
      ELSE IF m.kind = "unsync" THEN Told([v EXCEPT !.leap = "notinsync"], m.kind)
      ELSE IF m.kind = "baddate" THEN p
      ELSE IF u.x.polled THEN refclock_receive(Told([w EXCEPT !.x.polled = FALSE], m.kind)) ELSE Told(w, m.kind)
zyfer_poll(u, e) ==
  LET v == IF u.x.pollcnt = 0 THEN refclock_report(u, "timeout") ELSE [u EXCEPT !.x.pollcnt = @ - 1]
  IN  [v EXCEPT !.x.polled = TRUE]

(***************************************************************************)
(* arbiter: each poll starts a dialogue of quality, status, position (with *)
(* flag4) and timecode.  "sent" is the last command.                       *)
(***************************************************************************)
ArbX == [tcswitch |-> 0, qual |-> "none", sent |-> "halt"]
\* Mode 2 and above are refused late: the descriptor is closed and the memory
\* freed, the registration and the pointer to the memory are left.
arb_start(u, e) ==
  IF "ok" \notin e THEN Failed(u)
  ELSE IF u.mode > 1 THEN Failed([Opened(u) EXCEPT !.fd = FALSE, !.mem = "dangling"])
  ELSE Started(Opened(u))
ArbReplies == {"SR", "LA", "LO", "LH", "DB"}
ArbQuals == {"locked", "failed", "strange"}
ArbMsgs == [type : {"short", "cut"} \union ArbReplies, kind : {"sync"}] \union [type : {"TQ"}, kind : ArbQuals]
             \union [type : {"time"}, kind : Kinds \ {"odd"}]
Answer(type, flags) ==
  IF type = "TQ" THEN "SR" ELSE IF type = "SR" /\ 4 \in flags THEN "LA"
  ELSE IF type = "LA" THEN "LO" ELSE IF type = "LO" THEN "LH" ELSE IF type = "LH" THEN "DB" ELSE "start"
\* The timecode; whatever it is, the broadcast is stopped.
ArbTime(u, m, e) ==
  LET v == [u EXCEPT !.x.sent = "halt"]
      p == refclock_process(Told([v EXCEPT !.leap = Leap(m.kind)], m.kind), m.kind)
  IN  IF m.kind = "garbled" \/ u.x.qual \in {"none", "strange"} THEN refclock_report(v, "badreply")
      ELSE IF u.x.qual = "failed" THEN refclock_report(v, "fault")
      ELSE IF m.kind # "baddate" /\ "far" \in e THEN refclock_receive(p) ELSE p
arb_receive(u, m, e) ==
  LET v == IF u.x.tcswitch = 0 /\ m.type \in ArbReplies \union {"TQ"}
           THEN [u EXCEPT !.x.sent = Answer(m.type, u.flags), !.x.qual = IF m.type = "TQ" THEN m.kind ELSE @]
           ELSE u
      w == [v EXCEPT !.x.tcswitch = Up(@)]
  IN  IF m.type = "short" THEN u
      ELSE IF u.x.tcswitch = 0 /\ m.type \in (ArbReplies \ {"DB"}) \union {"TQ"} THEN v
      ELSE IF u.x.tcswitch = 0 \/ m.type # "time" THEN w
      ELSE ArbTime(w, m, e)
arb_poll(u, e) == ReceiveOrTimeout(write([u EXCEPT !.x.tcswitch = 0, !.x.sent = "TQ"], e))
=============================================================================
