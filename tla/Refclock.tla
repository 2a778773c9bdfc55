------------------------------ MODULE Refclock ------------------------------
(***************************************************************************)
(* ntp_refclock.c as the drivers see it.  A unit u is the record of a      *)
(* reference clock: its resources, the reachability register, the number   *)
(* of samples in the median filter (SampleRing has the filter itself), the *)
(* leap indicators, the last event and, in x, what the driver keeps.       *)
(* Handlers are operators from units to units.                             *)
(*                                                                         *)
(* A handler's e is the set of circumstances it meets: "ok" (what it asks  *)
(* of the system succeeds), "write" (a write to the device does), "insync" *)
(* (the server is synchronized), "lamp" (there is no other system peer),   *)
(* "far" (the dispersion of the association is above MAXDISTANCE),         *)
(* "pulse" and "kernel" (the kernel has a new PPS timestamp, or fails).    *)
(***************************************************************************)
EXTENDS Naturals, FiniteSets

CONSTANTS
  Stages,      \* samples the median filter holds
  ReachBits,   \* bits of the reachability register (8)
  Tally        \* bound on the drivers' counters

ASSUME RefclockAssumption == {Stages, ReachBits, Tally} \subseteq Nat \ {0}

Up(n) == IF n < Tally THEN n + 1 ELSE n
Down(n) == IF n > 0 THEN n - 1 ELSE 0

\* refclock_newpeer before the driver's start routine.  "quiet" and "told" are
\* history: polls since the last sample, and what the clock said last of its
\* synchronization.
Blank(driver, mode, flags, x) ==
  [driver |-> driver, mode |-> mode, flags |-> flags, proc |-> TRUE, fd |-> FALSE, io |-> FALSE, mem |-> "none",
   faults |-> {}, reach |-> 0, ring |-> 0, leap |-> "nowarn", pleap |-> "notinsync", pps |-> FALSE,
   quiet |-> 0, told |-> "nothing", x |-> x]

-----------------------------------------------------------------------------
\* refclock_report counts and shows the code to those who monitor the clock;
\* no routine reads it, so a report leaves u as it is.
refclock_report(u, code) == u
write(u, e) == IF "write" \in e THEN u ELSE refclock_report(u, "fault")
\* A timecode without a date may be of a synchronized clock.
Told(u, kind) ==
  IF kind = "unsync" THEN [u EXCEPT !.told = "unsync"]
  ELSE IF kind \in {"sync", "baddate", "far", "early"} THEN [u EXCEPT !.told = "sync"] ELSE u

\* SAMPLE, by refclock_process_offset or refclock_process_f (which refuses a
\* timecode without a date).
SAMPLE(u) == [u EXCEPT !.ring = IF @ < Stages THEN @ + 1 ELSE @, !.quiet = 0]
refclock_process(u, kind) == IF kind = "baddate" THEN refclock_report(u, "badtime") ELSE SAMPLE(u)

\* Mutant: a clock that is not synchronized is reachable too.
refclock_receive_Any(u) == [u EXCEPT !.pleap = u.leap, !.reach = IF @ % 2 = 0 THEN @ + 1 ELSE @, !.ring = 0]
\* refclock_receive: samples are left in the filter while the clock is not
\* synchronized.
refclock_receive(u) ==
  IF u.leap = "notinsync" THEN [u EXCEPT !.pleap = "notinsync"]
  ELSE [u EXCEPT !.pleap = u.leap, !.reach = IF @ % 2 = 0 THEN @ + 1 ELSE @, !.ring = 0]
\* What most poll routines end with.
ReceiveOrTimeout(u) == IF u.ring = 0 THEN refclock_report(u, "timeout") ELSE refclock_receive(u)

\* Mutant: the register is not shifted.
Shifted_Kept(u) == [u EXCEPT !.quiet = IF @ < ReachBits + 1 THEN @ + 1 ELSE @]
\* refclock_transmit before the driver's poll routine.
Shifted(u) == [u EXCEPT !.reach = (@ * 2) % 2^ReachBits, !.quiet = IF @ < ReachBits + 1 THEN @ + 1 ELSE @]

-----------------------------------------------------------------------------
(***************************************************************************)
(* Resources: the descriptor, its registration with the receive loop and   *)
(* the driver's memory.  A pointer to memory that was freed is "dangling". *)
(***************************************************************************)
Fault(u, f) == [u EXCEPT !.faults = @ \union {f}]
Freed(u) == IF u.mem = "dangling" THEN Fault(u, "freed twice") ELSE [u EXCEPT !.mem = "none"]
io_addclock(u) == [u EXCEPT !.io = TRUE]
io_closeclock(u) == [u EXCEPT !.io = FALSE, !.fd = FALSE]

\* What a driver does to start on a serial port: refclock_open, memory and
\* registration.
Opened(u) == [io_addclock(u) EXCEPT !.fd = TRUE, !.mem = "held"]
Started(u) == [ok |-> TRUE, u |-> u]
Failed(u) == [ok |-> FALSE, u |-> u]
SerialStart(u, e) == IF "ok" \in e THEN Started(Opened(u)) ELSE Failed(u)

\* Mutant: only the memory is given back.
StandardShutdown_NoClose(u) == IF u.mem # "none" THEN Freed(u) ELSE u
\* The standard shutdown of refclock_unpeer.
StandardShutdown(u) ==
  LET v == IF u.mem # "none" THEN Freed(u) ELSE u IN IF u.fd THEN io_closeclock(v) ELSE v
\* refclock_unpeer gives the interface structure back; what is still open,
\* registered or allocated is lost.
Gone(u) ==
  [u EXCEPT !.proc = FALSE,
            !.faults = @ \union (IF u.fd THEN {"left open"} ELSE {}) \union (IF u.io THEN {"left registered"} ELSE {})
                         \union (IF u.mem = "held" THEN {"left allocated"} ELSE {})]

-----------------------------------------------------------------------------
(***************************************************************************)
(* PPS: x has "handle" (the interface is open) and "params" (its mode is   *)
(* set, by a call that may have failed).                                   *)
(***************************************************************************)
PpsX == [handle |-> FALSE, params |-> FALSE]
refclock_ppsapi(u, e) == IF "ok" \in e THEN [u EXCEPT !.x.handle = TRUE] ELSE u
refclock_catcher(u, e) ==
  LET set == ~u.x.params /\ "insync" \in e
      v   == [u EXCEPT !.x.params = @ \/ set]
  IN  IF ~u.x.handle THEN [rc |-> "setup", u |-> u]
      ELSE IF set /\ "ok" \notin e THEN [rc |-> "setup", u |-> v]
      ELSE IF "kernel" \in e THEN [rc |-> "kernel", u |-> refclock_report(v, "fault")]
      ELSE IF ~v.x.params \/ "pulse" \notin e THEN [rc |-> "nready", u |-> v]
      ELSE [rc |-> "ok", u |-> SAMPLE(v)]
=============================================================================
