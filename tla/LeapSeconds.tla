---------------------------- MODULE LeapSeconds ----------------------------
(* Leap seconds: the table of ntp_leapsec.c with its cached frame around the  *)
(* present, the once-a-second handling of ntp_timer.c, and the three sources  *)
(* of news: the leap seconds file, the votes of servers and steps of the      *)
(* clock.                                                                     *)
(*                                                                            *)
(* A calendar of equal months starts at time 0; its units and the alert       *)
(* window are constants. Leap smearing, the faked leap bits sent during the   *)
(* leap second and the file's checksum are left out.                          *)
EXTENDS Integers, SequencesExt

CONSTANTS
  HOUR, DAY, MONTH,    \* in seconds
  SCHED, ALERT,        \* 28 days, 10 seconds
  EIGHTH,              \* without a leap in sight the table is asked every 8 s
  MAX_HIST,            \* entries of the table
  Files,               \* leap files: [expire, lines], a line [ttime, taiof]
  CanStep,             \* leaps that "tinker stepback" and "stepfwd" let the daemon make
  Jumps,               \* sizes of other clock steps
  Horizon              \* bound on the time

VARIABLES
  now,                 \* the system clock
  current_time,        \* ntpd's count of seconds, modulo EIGHTH
  kern,                \* pll_control && kern_enable
  electric,            \* _electric: the kernel makes the leap
  tab,                 \* the table in use
  leapsec, leapdif,    \* proximity class and TAI difference of the next leap
  sys_leap, sys_tai

vars == <<now, current_time, kern, electric, tab, leapsec, leapdif, sys_leap, sys_tai>>

LAST_time_t == Horizon + 10 * MONTH
NOWARN == 0
SCHEDULE == 1
ANNOUNCE == 2
ALARM == 3                                     \* LSPROX_ALERT

reset_times(t) ==
  [t EXCEPT !.ebase = LAST_time_t, !.stime = LAST_time_t, !.ttime = LAST_time_t, !.dtime = LAST_time_t]

\* leapsec_clear
Cleared ==
  reset_times([expire |-> 0, info |-> << >>, base_tai |-> 0, this_tai |-> 0, next_tai |-> 0,
               dtime |-> 0, ttime |-> 0, stime |-> 0, ebase |-> 0])

Init ==
  /\ now = 0
  /\ current_time = 0
  /\ kern \in BOOLEAN
  /\ electric = FALSE
  /\ tab = Cleared
  /\ leapsec = NOWARN /\ leapdif = 0
  /\ sys_leap = "NOTINSYNC"
  /\ sys_tai = 0

-----------------------------------------------------------------------------
(* The table.                                                                *)

\* Newest first; the oldest entry makes room and leaves its offset behind.
add_range(t, pi) ==
  reset_times([t EXCEPT !.info = <<pi>> \o (IF Len(@) >= MAX_HIST THEN Front(@) ELSE @),
                        !.base_tai = IF Len(t.info) >= MAX_HIST THEN Last(t.info).taiof ELSE @])

\* Entries of a file; << >> when the entry is refused.
leapsec_raw(t, ttime, taiof) ==
  IF (t.info # << >> /\ ttime <= t.info[1].ttime) \/ ttime % MONTH # 0
  THEN << >>
  ELSE <<add_range(t, [ttime |-> ttime, stime |-> SCHED, taiof |-> taiof, dynls |-> FALSE])>>

leapsec_load(file) ==
  FoldSeq(LAMBDA line, ts : IF ts = << >> THEN << >> ELSE leapsec_raw(ts[1], line.ttime, line.taiof),
          <<[Cleared EXCEPT !.expire = file.expire]>>, file.lines)

\* A leap second that servers announce: mktime() of the first second of the
\* day, and of the same day with the month advanced by one.
leapsec_add(t, when, insert) ==
  LET starttime == when - (when % DAY)
      ttime == starttime + MONTH
      last == IF t.info = << >> THEN t.base_tai ELSE t.info[1].taiof
  IN IF \/ when < t.expire
        \/ t.info # << >> /\ when <= t.info[1].ttime
        \/ when % MONTH < HOUR
     THEN << >>
     ELSE <<add_range(t, [ttime |-> ttime, stime |-> ttime - starttime,
                          taiof |-> last + (IF insert THEN 1 ELSE -1), dynls |-> TRUE])>>

\* A change is made to a copy, which takes the table's place if it succeeds.
leapsec_set_table(copy) == IF copy = << >> THEN tab ELSE copy[1]

\* The table after the choice of who makes leaps.
leapsec_electric(on) == IF on = electric THEN tab ELSE reset_times(tab)

leapsec_reset_frame == reset_times(tab)

leapsec_add_dyn(insert) == leapsec_set_table(leapsec_add(tab, now, insert))

leapsec_load_file(file) == leapsec_set_table(leapsec_load(file))

\* The frame around a time: the entry it belongs to and the one that follows.
reload_limits(t, el, ts) ==
  LET n == Len(t.info)
      found == SelectInSeq(t.info, LAMBDA e : ts >= e.ttime)
      idx == IF found = 0 THEN n + 1 ELSE found
      this == IF idx > n THEN t.base_tai ELSE t.info[idx].taiof
      next == t.info[idx - 1]
      frame == [t EXCEPT !.ebase = IF idx > n THEN 0 ELSE t.info[idx].ttime, !.this_tai = this]
  IN IF idx > 1
     THEN [frame EXCEPT !.next_tai = next.taiof, !.ttime = next.ttime,
                        !.dtime = IF el THEN next.ttime ELSE next.ttime + next.taiof - this,
                        !.stime = next.ttime - next.stime]
     ELSE [frame EXCEPT !.next_tai = this, !.ttime = LAST_time_t, !.dtime = LAST_time_t,
                        !.stime = LAST_time_t]

Proximity(t, when) ==
  IF when < t.stime THEN NOWARN
    ELSE IF when >= t.dtime \/ when < t.dtime - DAY THEN SCHEDULE
    ELSE IF when < t.dtime - ALERT THEN ANNOUNCE
    ELSE ALARM

\* The answer for a frame; the difference is reported from the schedule time on.
QueryAt(t, fired, warped, when) ==
  [tab |-> t, fired |-> fired, warped |-> warped, prox |-> Proximity(t, when), tai |-> t.this_tai,
   diff |-> IF when < t.stime THEN 0 ELSE t.next_tai - t.this_tai]

leapsec_query(t, el, when) ==
  IF when < t.ebase THEN QueryAt(reload_limits(t, el, when), FALSE, 0, when)
    ELSE IF when >= t.dtime
    THEN LET warped == t.ttime - t.dtime
             new == reload_limits(t, el, when + warped)
         IN IF new.ebase = t.ttime THEN QueryAt(new, TRUE, warped, when + warped)
              ELSE QueryAt(new, FALSE, 0, when)
    ELSE QueryAt(t, FALSE, 0, when)

-----------------------------------------------------------------------------
(* The operations.                                                           *)

\* The proximity class is raised step by step, never from nothing to alert.
Raised(old, prox) == IF old < prox /\ old = NOWARN /\ prox = ALARM THEN old ELSE prox

\* check_leapsec, when is the time of the clock
check_leapsec(when, reset) ==
  LET t == leapsec_electric(kern)
      q == IF reset THEN [tab |-> leapsec_reset_frame, fired |-> FALSE, warped |-> 0, prox |-> NOWARN,
                          tai |-> sys_tai, diff |-> 0]
             ELSE leapsec_query(t, kern, when)
      prox == IF q.fired THEN NOWARN ELSE q.prox
  IN /\ electric' = kern
     /\ tab' = q.tab
     /\ sys_tai' = q.tai
     /\ now' = IF q.fired /\ q.warped \in CanStep THEN when + q.warped ELSE when
     /\ leapsec' = Raised(IF q.fired THEN NOWARN ELSE leapsec, prox)
     /\ leapdif' = IF leapsec' >= SCHEDULE THEN q.diff ELSE 0

\* Orphan mode, or running free when there has been no system peer for long.
Orphaned(rule, leap) ==
  CASE rule = "orphan" /\ leap = "NOTINSYNC" -> "NOWARNING"
    [] rule = "free" -> "NOTINSYNC"
    [] OTHER -> leap

\* Mutant: the leap bits are set as soon as a leap is scheduled.
Announced_WhenScheduled(leap, ls, dif) ==
  IF leap = "NOTINSYNC" THEN leap
    ELSE IF ls >= SCHEDULE /\ dif > 0 THEN "ADDSECOND"
    ELSE IF ls >= SCHEDULE /\ dif < 0 THEN "DELSECOND"
    ELSE "NOWARNING"

Announced(leap, ls, dif) ==
  IF leap = "NOTINSYNC" THEN leap
    ELSE IF ls >= ANNOUNCE /\ dif > 0 THEN "ADDSECOND"
    ELSE IF ls >= ANNOUNCE /\ dif < 0 THEN "DELSECOND"
    ELSE "NOWARNING"

\* What the clock does in a second: the kernel, armed by the leap bits, repeats
\* the last second of the day or leaves it out.
KernelTick(tick) ==
  CASE tick = 0 -> electric /\ sys_leap = "ADDSECOND" /\ (now + 1) % DAY = 0
    [] tick = 1 -> TRUE
    [] tick = 2 -> electric /\ sys_leap = "DELSECOND" /\ (now + 2) % DAY = 0

\* The leap second part of timer(), once a second.
timer(rule, tick) ==
  LET leap == Orphaned(rule, sys_leap)
      when == now + tick
  IN /\ when < Horizon
     /\ KernelTick(tick)
     /\ current_time' = (current_time + 1) % EIGHTH
     /\ IF leapsec > NOWARN \/ current_time' = 0
        THEN check_leapsec(when, leap = "NOTINSYNC")
        ELSE now' = when /\ UNCHANGED <<electric, tab, leapsec, leapdif, sys_tai>>
     /\ sys_leap' = Announced(leap, leapsec', leapdif')
     /\ UNCHANGED kern

\* Mutant: the frame is not reset when the clock is stepped.
ClockStep_NoReset(d) ==
  /\ now + d \in 0 .. Horizon
  /\ now' = now + d
  /\ sys_leap' = "NOTINSYNC"
  /\ UNCHANGED <<current_time, kern, electric, tab, leapsec, leapdif, sys_tai>>

\* clock_update when the clock was stepped
ClockStep(d) ==
  /\ now + d \in 0 .. Horizon
  /\ now' = now + d
  /\ sys_leap' = "NOTINSYNC"
  /\ tab' = leapsec_reset_frame
  /\ UNCHANGED <<current_time, kern, electric, leapsec, leapdif, sys_tai>>

\* clock_update when the clock was slewed: most survivors may announce a leap.
\* The variable leapsec it tests is one of its own file, which is always 0.
ClockSlew(vote) ==
  /\ sys_leap' = IF sys_leap = "NOTINSYNC" THEN "NOWARNING" ELSE sys_leap
  /\ tab' = IF vote = "none" THEN tab ELSE leapsec_add_dyn(vote = "insert")
  /\ UNCHANGED <<now, current_time, kern, electric, leapsec, leapdif, sys_tai>>

\* check_leap_file, at startup and at the end of timer() once an hour. A file
\* that does not load leaves the table alone.
check_leap_file(file) ==
  /\ tab' = leapsec_load_file(file)
  /\ UNCHANGED <<now, current_time, kern, electric, leapsec, leapdif, sys_leap, sys_tai>>

\* "enable kernel" and "disable kernel"
select_loop(use) ==
  /\ kern' = use
  /\ UNCHANGED <<now, current_time, electric, tab, leapsec, leapdif, sys_leap, sys_tai>>

Next ==
  \/ \E rule \in {"none", "orphan", "free"}, tick \in 0 .. 2 : timer(rule, tick)
  \/ \E d \in Jumps : ClockStep(d)
  \/ \E vote \in {"none", "insert", "delete"} : ClockSlew(vote)
  \/ \E file \in Files : check_leap_file(file)
  \/ \E use \in BOOLEAN : select_loop(use)

Spec == Init /\ [][Next]_vars

-----------------------------------------------------------------------------
(* Properties.                                                               *)

Loaded(t) == t.ebase # LAST_time_t
TimerStep == current_time' # current_time

\* Where the daemon makes the leap, the clock is stepped by exactly the change
\* of the TAI offset if it may step at all, and at most EIGHTH seconds late:
\* no leap that was in the frame is missed, made twice or made in the wrong
\* direction, nothing else steps the clock, and a leap that a step of the clock
\* discipline has already jumped over is not made again afterwards.
FollowsTai ==
  TimerStep /\ Loaded(tab) /\ Loaded(tab') /\ ~kern /\ ~electric
    => LET leap == sys_tai - sys_tai'
       IN /\ now' = now + 1 + (IF leap \in CanStep THEN leap ELSE 0)
          /\ leap # 0 => \E i \in DOMAIN tab.info : now' - tab.info[i].ttime \in 0 .. EIGHTH

\* What clients and the kernel are told: after each timer step a leap second
\* is announced only if the table has one of that sign within the next day.
RightlyAnnounced ==
  TimerStep /\ sys_leap' \in {"ADDSECOND", "DELSECOND"}
    => \E i \in DOMAIN tab'.info :
         LET e == tab'.info[i]
             before == IF i = Len(tab'.info) THEN tab'.base_tai ELSE tab'.info[i + 1].taiof
         IN /\ e.ttime - DAY - 1 <= now' /\ now' <= e.ttime
            /\ (sys_leap' = "ADDSECOND") <=> e.taiof > before
            /\ e.taiof # before
=============================================================================
