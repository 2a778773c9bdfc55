------------------------------- MODULE RawDcf -------------------------------
(***************************************************************************)
(* The decoder of raw DCF77 pulses (clk_rawdcf.c).  A character arrives    *)
(* for each second but the last of a minute; the gap ends the telegram,    *)
(* which names the minute that begins with the next pulse, and between     *)
(* telegrams the time is carried on by the second.  Pulses are lost, and   *)
(* noise makes others.                                                     *)
(*                                                                         *)
(* Arrival times are in quarters of a second.  A character in the buffer   *)
(* is the second it was sent in, or Noise; the bits are left out, so a     *)
(* telegram with a fault in it may pass the start bit, the three parities  *)
(* and the checks of the date, and then says anything (Misread).           *)
(***************************************************************************)
EXTENDS Integers, Sequences

CONSTANTS
  Minute,      \* seconds in a minute (60)
  Minutes,     \* minutes that are looked at
  Misread,     \* by how many minutes a disturbed telegram may be wrong
  MaxFaults    \* pulses lost or made by noise

Second == 4
Noise == -1
BUFFER_MAX == Minute + 1
\* The clock is put on when the time is past the ten minutes of the test for a
\* recent telegram, and past what a telegram may be wrong by.
Start == 20 * Minute

VARIABLES
  p,        \* parse_t and last_tcode_t
  now,      \* time of the last character
  next,     \* the second whose pulse is sent next
  faults,
  up,       \* what was handed up for the last character: [time, stime], or << >>
  clean     \* whole minutes since the last fault
rawdcf == <<p, now, next, faults, up, clean>>

Abs(n) == IF n < 0 THEN -n ELSE n
InGap(n) == n % Minute = Minute - 1

RawDcfInit ==
  /\ p = [data |-> << >>, ldata |-> << >>, tminute |-> 0, timeout |-> 0, lastchar |-> 0, tcode |-> 0, status |-> "none", time |-> 0,
          whole |-> FALSE]   \* history: the time is from a telegram without a fault
  /\ next \in Start .. Start + Minute - 2 /\ now = 0
  /\ faults = 0 /\ up = << >> /\ clean = -1

-----------------------------------------------------------------------------
\* parse_addchar; a full buffer is handed up and started anew.
parse_addchar(q, ch) ==
  IF Len(q.data) < BUFFER_MAX THEN [q EXCEPT !.data = Append(@, ch)]
  ELSE [q EXCEPT !.ldata = q.data, !.data = <<ch>>]
parse_end(q) == [q EXCEPT !.ldata = q.data, !.data = << >>]
parse_timedout(q, t) == t - q.lastchar > Second + 2

\* The minutes whose pulses are in a telegram, and that all of one is there:
\* every pulse in its place and nothing else.
Heard(d) == {d[i] \div Minute : i \in {i \in DOMAIN d : d[i] # Noise}}
Whole(d) == Len(d) = Minute - 1 /\ \E m \in Heard(d) : \A i \in DOMAIN d : d[i] = m * Minute + i - 1
\* The times a telegram may be read as: that of the next minute mark when it is
\* whole.  Of others, those that are three bits short are refused, and where
\* pulses are missing, displaced, or are noise, only the start bit and the
\* parities stand between them and a wrong minute; 0 is a refusal.
convert_rawdcf(d) ==
  IF Whole(d) THEN {(m + 1) * Minute : m \in Heard(d)}
  ELSE {0} \union {(m + 1 + k) * Minute : m \in {m \in Heard(d) : Len(d) >= Minute - 3}, k \in Misread}

\* cvt_rawdcf and timepacket: newtime is what the telegram is read as.  The
\* telegram before must not be older than ten minutes; it may be younger.
cvt_rawdcf(q, newtime) ==
  LET recent == newtime - q.tcode <= 10 * Minute
  IN IF newtime = 0 THEN [q EXCEPT !.status = "fail"]
     ELSE IF ~recent THEN [q EXCEPT !.tcode = newtime, !.status = "none"]
     ELSE [q EXCEPT !.tcode = newtime, !.status = "ok", !.time = newtime]

\* Mutant: the time is carried on without a look at the spacing of pulses.
snt_rawdcf_Any(q, t) ==
  IF q.status = "ok" /\ q.tminute # 0 THEN [q EXCEPT !.time = @ + 1] ELSE [q EXCEPT !.status = "none"]
\* snt_rawdcf: a second is added when pulses are a second apart since a minute
\* mark that came a minute after another.
snt_rawdcf(q, t) ==
  IF q.status = "ok" /\ q.tminute # 0 /\ Abs(t - Second * (Len(q.data) - 1) - q.tminute) < 2
  THEN [q EXCEPT !.time = @ + 1]
  ELSE [q EXCEPT !.status = "none"]

\* inp_rawdcf and parse_ioread for a character at time t.
inp_rawdcf(q, ch, t) ==
  LET marked == q.timeout # 0 /\ Abs(t - Second * Minute - q.timeout) < 2
      ended  == [parse_end(q) EXCEPT !.tminute = IF marked THEN t ELSE 0, !.timeout = t]
      added  == parse_addchar(q, ch)
      read(r) == {[cvt_rawdcf(r, newtime) EXCEPT !.whole = Whole(r.ldata)] : newtime \in convert_rawdcf(r.ldata)}
      done   == IF parse_timedout(q, t) THEN read(parse_addchar(ended, ch))
                ELSE IF Len(q.data) = BUFFER_MAX THEN read(added) ELSE {snt_rawdcf(added, t)}
  IN {[r EXCEPT !.lastchar = t, !.ldata = << >>] : r \in done}

Character(ch, t) ==
  /\ p' \in inp_rawdcf(p, ch, t)
  /\ now' = t
  /\ up' = IF p'.status = "ok" THEN <<p'.time, t>> ELSE << >>
After(n) == IF InGap(n + 1) THEN n + 2 ELSE n + 1

\* A pulse arrives.
Pulse ==
  /\ next < Start + Minutes * Minute
  /\ Character(next, Second * next)
  /\ next' = After(next)
  /\ clean' = IF next % Minute = 0 THEN clean + 1 ELSE clean
  /\ UNCHANGED faults
Fault ==
  /\ faults < MaxFaults /\ faults' = faults + 1
  /\ clean' = -1
Lost ==
  /\ Fault
  /\ next' = After(next)
  /\ up' = << >>
  /\ UNCHANGED <<p, now>>
Noisy ==
  /\ Fault /\ now # 0
  /\ \E t \in now + 1 .. Second * next - 1 : Character(Noise, t)
  /\ UNCHANGED next

RawDcfNext == Pulse \/ Lost \/ Noisy
RawDcfSpec == RawDcfInit /\ [][RawDcfNext]_rawdcf

-----------------------------------------------------------------------------
\* The telegram under way began with the pulse of a minute's first second.
OnMark == Head(p.data) # Noise /\ Head(p.data) % Minute = 0

\* What inp_rawdcf, cvt_rawdcf and snt_rawdcf hand up.  When the last gap was
\* followed by the first pulse of a minute, the second of the minute is right to
\* half a second, whatever pulses are lost or made by noise since and whatever a
\* disturbed telegram was read as.  A time from a telegram without a fault is
\* right altogether, but for the time of the mark, which goes with the first
\* character after the gap, whichever that is, and is late by a second for every
\* pulse lost there.  After three minutes without a fault every pulse has its
\* time, also when telegrams before were misread.
TrueSecond ==
  /\ up # << >> =>
       LET off == up[2] - Second * up[1]
           ofMinute == off % (Second * Minute)
       IN /\ OnMark => ofMinute < 2 \/ ofMinute > Second * Minute - 2
          /\ p.whole => Abs(off) < 2 + (IF OnMark THEN 0 ELSE Second * faults)
  /\ (clean >= 3 /\ now # 0) => up = <<now \div Second, now>>
=============================================================================
