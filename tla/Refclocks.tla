------------------------------ MODULE Refclocks ------------------------------
(***************************************************************************)
(* A reference clock of any type in the daemon: the table refclock_conf[]  *)
(* dispatches what ntp_refclock.c, the receive loop and the configuration  *)
(* do to the driver.  u is the unit; phase is "configured" before          *)
(* refclock_newpeer, "running" and then "gone".                            *)
(***************************************************************************)
EXTENDS RefclockDialogues, RefclockPackets, RefclockGpsd, RefclockJjy, RefclockOncore,
        RefclockGeneric

CONSTANTS
  Units,      \* the clocks that may be configured: driver, mode, flags
  Switched    \* the flags that are switched while a clock runs

VARIABLES u, phase
vars == <<u, phase>>

Private(driver) ==
  CASE driver = "local" -> LocalX [] driver = "pps" -> PpsX [] driver = "shm" -> ShmX [] driver = "zyfer" -> ZyferX
    [] driver = "arbiter" -> ArbX [] driver = "spectracom" -> SpectracomX [] driver = "hpgps" -> HpgpsX
    [] driver = "truetime" -> TruetimeX [] driver = "modem" -> ModemX [] driver = "nmea" -> NmeaX
    [] driver = "trimble" -> TrimbleX [] driver = "gpsd" -> GpsdX [] driver = "jjy" -> JjyX [] driver = "oncore" -> OncoreX
    [] driver = "generic" -> GenericX
\* What a routine of the driver may meet, besides the flags.
Circumstances(driver, routine) ==
  CASE routine = "start" -> {"ok", "write"} \union (IF driver = "oncore" THEN {"kernel"} ELSE IF driver = "generic" THEN {"pulse"} ELSE {})
    [] routine = "poll" /\ driver \in {"local", "modem"} -> {"ok", "lamp"}
    [] routine = "poll" /\ driver = "pps" -> {"insync"}
    [] routine = "poll" /\ driver \in {"arbiter", "jjy"} -> {"write"}
    [] routine = "poll" /\ driver = "spectracom" -> {"newday"}
    [] routine = "poll" /\ driver = "generic" -> {"shortened"}
    [] routine = "timer" /\ driver \in {"pps", "spectracom"} -> {"ok", "write", "insync", "pulse", "kernel"}
    [] routine = "timer" /\ driver \in {"shm", "modem"} -> {"ok"}
    [] routine = "timer" /\ driver \in {"hpgps", "jjy"} -> {"write"}
    [] routine = "timer" /\ driver = "gpsd" -> {"ok", "write", "pulse"}
    [] routine = "recv" /\ driver = "arbiter" -> {"far"}
    [] routine = "recv" /\ driver = "hpgps" -> {"write", "error"}
    [] routine = "recv" /\ driver \in {"truetime", "jjy"} -> {"write"}
    [] routine = "recv" /\ driver = "modem" -> {"ok"}
    [] routine = "recv" /\ driver = "nmea" -> {"insync", "far", "pulse"}
    [] routine = "recv" /\ driver = "gpsd" -> {"late", "burst"}
    [] routine = "recv" /\ driver = "oncore" -> {"pulse", "utc", "newday"}
    [] routine = "recv" /\ driver = "generic" -> {"far", "expired", "pulse"}
    [] routine = "control" /\ driver \in {"spectracom", "nmea"} -> {"ok", "write"}
    [] routine = "control" /\ driver = "generic" -> {"pulse"}
    [] OTHER -> {}
Met(routine) == SUBSET Circumstances(u.driver, routine)
\* The fudge flags a driver looks at.
Flags(driver) ==
  CASE driver \in {"local", "shm", "nmea", "truetime", "generic"} -> {1} [] driver = "arbiter" -> {4}
    [] driver = "spectracom" -> {1, 4} [] driver = "hpgps" -> {2, 3, 4} [] driver = "modem" -> {1, 2}
    [] driver = "gpsd" -> {1, 2} [] driver = "jjy" -> {1} [] OTHER -> {}

-----------------------------------------------------------------------------
(***************************************************************************)
(* refclock_conf[].                                                        *)
(***************************************************************************)
clock_start(e) ==
  CASE u.driver = "local" -> local_start(u, e) [] u.driver = "pps" -> pps_start(u, e) [] u.driver = "shm" -> shm_start(u, e)
    [] u.driver = "zyfer" -> zyfer_start(u, e) [] u.driver = "arbiter" -> arb_start(u, e)
    [] u.driver = "spectracom" -> spectracom_start(u, e) [] u.driver = "hpgps" -> hpgps_start(u, e)
    [] u.driver = "truetime" -> true_start(u, e) [] u.driver = "modem" -> modem_start(u, e)
    [] u.driver = "nmea" -> nmea_start(u, e) [] u.driver = "trimble" -> trimble_start(u, e)
    [] u.driver = "gpsd" -> gpsd_start(u, e) [] u.driver = "jjy" -> jjy_start(u, e) [] u.driver = "oncore" -> oncore_start(u, e)
    [] u.driver = "generic" -> parse_start(u, e)
clock_shutdown(v) ==
  CASE v.driver = "pps" -> pps_shutdown(v) [] v.driver = "shm" -> shm_shutdown(v) [] v.driver = "modem" -> modem_shutdown(v)
    [] v.driver = "nmea" -> nmea_shutdown(v) [] v.driver = "gpsd" -> gpsd_shutdown(v)
    [] v.driver = "oncore" -> oncore_shutdown(v) [] v.driver = "generic" -> parse_shutdown(v)
    [] OTHER -> StandardShutdown(v)
clock_poll(v, e) ==
  CASE v.driver = "local" -> local_poll(v, e) [] v.driver = "pps" -> pps_poll(v, e) [] v.driver = "shm" -> shm_poll(v, e)
    [] v.driver = "zyfer" -> zyfer_poll(v, e) [] v.driver = "arbiter" -> arb_poll(v, e)
    [] v.driver = "spectracom" -> spectracom_poll(v, e) [] v.driver = "hpgps" -> hpgps_poll(v, e)
    [] v.driver = "truetime" -> true_poll(v, e) [] v.driver = "modem" -> modem_poll(v, e)
    [] v.driver = "nmea" -> nmea_poll(v, e) [] v.driver = "trimble" -> trimble_poll(v, e)
    [] v.driver = "gpsd" -> poll_primary(v) [] v.driver = "jjy" -> jjy_poll(v, e) [] v.driver = "oncore" -> oncore_poll(v, e)
    [] v.driver = "generic" -> parse_poll(v, e)
clock_timer(m, e) ==
  CASE u.driver = "pps" -> pps_timer(u, e) [] u.driver = "shm" -> shm_timer(u, m, e)
    [] u.driver = "spectracom" -> spectracom_timer(u, e) [] u.driver = "hpgps" -> hpgps_timer(u, e)
    [] u.driver = "modem" -> modem_timer(u, e) [] u.driver = "trimble" -> trimble_timer(u, e)
    [] u.driver = "gpsd" -> gpsd_timer(u, e) [] u.driver = "jjy" -> jjy_timer(u, e) [] OTHER -> u
clock_control(v, e) ==
  CASE v.driver = "shm" -> shm_control(v) [] v.driver = "spectracom" -> spectracom_control(v, e)
    [] v.driver = "nmea" -> nmea_control(v, e) [] v.driver = "generic" -> parse_ctl(v, e) [] OTHER -> v
clock_recv(m, e) ==
  CASE u.driver = "zyfer" -> zyfer_receive(u, m) [] u.driver = "arbiter" -> arb_receive(u, m, e)
    [] u.driver = "spectracom" -> spectracom_receive(u, m) [] u.driver = "hpgps" -> hpgps_receive(u, m, e)
    [] u.driver = "truetime" -> true_receive(u, m, e) [] u.driver = "modem" -> modem_receive(u, m, e)
    [] u.driver = "nmea" -> nmea_receive(u, m, e) [] u.driver = "trimble" -> trimble_receive(u, m)
    [] u.driver = "gpsd" -> gpsd_receive(u, m, e) [] u.driver = "jjy" -> jjy_receive(u, m, e)
    [] u.driver = "oncore" -> oncore_receive(u, m, e) [] u.driver = "generic" -> local_receive(u, m, e)
Messages ==
  CASE u.driver = "zyfer" -> ZyferMsgs [] u.driver = "arbiter" -> ArbMsgs [] u.driver = "spectracom" -> SpectracomMsgs
    [] u.driver = "hpgps" -> HpgpsMsgs [] u.driver = "truetime" -> TruetimeMsgs [] u.driver = "modem" -> ModemMsgs
    [] u.driver = "nmea" -> NmeaMsgs({"RMC", "GGA", "ZDG"}) [] u.driver = "trimble" -> TrimbleMsgs
    [] u.driver = "gpsd" -> GpsdMsgs [] u.driver = "oncore" -> OncoreMsgs(u.mode.receiver)
    [] u.driver = "jjy" -> IF Telephone(u) THEN ModemReplies \union TelReplies ELSE JjyMsgs(u.mode)
    [] u.driver = "generic" -> Telegrams(u.mode.format)
    [] OTHER -> {}

-----------------------------------------------------------------------------
Init == phase = "configured" /\ \E c \in Units : u = Blank(c.driver, c.mode, c.flags, Private(c.driver))

refclock_newpeer ==
  /\ phase = "configured"
  /\ \E e \in Met("start") :
       LET s == clock_start(e) IN
         IF s.ok THEN u' = clock_control(s.u, e) /\ phase' = "running"
         ELSE u' = Gone(clock_shutdown(s.u)) /\ phase' = "gone"
refclock_unpeer == phase = "running" /\ u' = Gone(clock_shutdown(u)) /\ phase' = "gone"

\* A memory error or abort ends the daemon.
Running == phase = "running" /\ u.faults \intersect {"abort", "used after free"} = {} /\ UNCHANGED phase
\* With FLAG_BURST a reachable clock is polled more often, without a shift.
refclock_transmit ==
  Running /\ \E e \in Met("poll"), first \in BOOLEAN :
    (first \/ u.reach # 0) /\ u' = clock_poll(IF first THEN Shifted(u) ELSE u, e)
refclock_timer ==
  Running /\ \E e \in Met("timer"), m \in IF u.driver = "shm" THEN ShmMsgs ELSE {"none"} : u' = clock_timer(m, e)
\* Whether what the driver does with the message depends on what it meets.
Weighed(m) ==
  CASE u.driver = "nmea" -> m.kind = "sync"
    [] u.driver = "oncore" -> m.id \in {"data", "status"}
    [] u.driver = "generic" -> m.shape = "data" \/ timepacket(u.mode.format, u.x.pd, m).r.status = "ok"
    [] OTHER -> TRUE
input_handler ==
  Running /\ u.io /\ \E m \in Messages : \E e \in IF Weighed(m) THEN Met("recv") ELSE {{}} : u' = clock_recv(m, e)
refclock_control ==
  Running /\ \E e \in Met("control"), f \in Flags(u.driver) \intersect Switched :
    u' = clock_control([u EXCEPT !.flags = IF f \in @ THEN @ \ {f} ELSE @ \union {f}], e)
\* The secondary unit of gpsd comes and is polled; the mode changes.
Secondary ==
  /\ Running /\ u.driver = "gpsd"
  /\ \/ ~u.x.sec.on /\ u' = secondary_start(u)
     \/ u.x.sec.on /\ u' = poll_secondary(u)
     \/ u.x.sec.on /\ 1 \notin u.flags /\ u' = secondary_control(u, FALSE)
     \/ \E mode \in {"ibt", "strict", "auto"} : u' = gpsd_control(u, mode)

Next ==
  refclock_newpeer \/ refclock_unpeer \/ refclock_transmit \/ refclock_timer \/ input_handler \/ refclock_control \/ Secondary
Spec == Init /\ [][Next]_vars

-----------------------------------------------------------------------------
(***************************************************************************)
(* Properties.                                                             *)
(***************************************************************************)
\* Drivers that hand over without a sample, or leave old samples in the filter
\* while the clock is not synchronized.
Credulous == {"hpgps", "spectracom", "modem", "arbiter", "nmea"}
\* The reachability register detects a broken radio: a clock that gave no
\* sample for as many polls as the register has bits is unreachable, whatever
\* else it sent, for the drivers that do not hand over without a sample.
SilentUnreachable == (phase = "running" /\ u.driver \notin Credulous /\ u.quiet > ReachBits) => u.reach = 0

\* refclock_receive counts no poll as answered while the last thing the clock
\* said of itself is that it is not synchronized (gpsd, which has no such
\* notion of its samples, aside).
UnsyncNotCounted ==
  [][(Running /\ u.driver # "gpsd" /\ u'.reach % 2 = 1 /\ u.reach % 2 = 0) => u'.told # "unsync"]_vars

\* Drivers with an error path that does not give back what start took, or
\* gives it back twice.
Leaky == {"arbiter", "trimble", "gpsd", "oncore"}
\* When a clock is gone, after a start that failed anywhere or after any
\* operation, its descriptor is closed and no longer registered, and its
\* memory was freed exactly once.
ReleasedOnce == phase = "gone" /\ u.driver \notin Leaky => u.faults \ {"abort"} = {}

\* A call and the line agree.  modem: the port is open exactly while the
\* dialogue is not idle, and then a timeout is pending.  jjy: the service is
\* logged in only while the modem is connected, says goodbye only while the
\* modem hangs up, and is idle only when the modem is or will be.
CallConsistent ==
  phase = "running" =>
    /\ u.driver = "modem" =>
         /\ u.fd <=> u.x.state # "IDLE"
         /\ u.fd => u.x.timer > 0
    /\ (u.driver = "jjy" /\ Telephone(u)) =>
         /\ u.x.clock \in {"LOGIN", "CONNECT"} => u.x.modem = "CONNECT"
         /\ u.x.clock = "BYE" => u.x.modem = "ESCAPE"
         /\ u.x.clock = "IDLE" => u.x.modem \in {"DISCONNECT", "ESCAPE"}
=============================================================================
