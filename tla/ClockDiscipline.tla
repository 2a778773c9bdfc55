--------------------------- MODULE ClockDiscipline ---------------------------
(***************************************************************************)
(* The clock discipline of ntp_loopfilter.c with the system clock calls of *)
(* systime.c: the five-state machine of local_clock, the choice between    *)
(* the kernel's and the daemon's loop, the one-second adjustment of        *)
(* adj_host_clock and the residue that adj_systime keeps.                  *)
(*                                                                         *)
(* Offsets are integers; a quantum of adjtime is Quantum of them.          *)
(* Frequencies are integers from -MaxFreq to MaxFreq.  "mu" is the time    *)
(* since clock_epoch, cut off at the stepout threshold.                    *)
(***************************************************************************)
EXTENDS Integers, Sequences

CONSTANTS
  clock_minstep,   \* the stepout threshold, in seconds
  clock_panic,     \* the panic threshold
  CLOCK_FLOOR,     \* offset below which the startup clamp ends
  CLOCK_PLL,       \* loop gain of the phase adjustment
  CLOCK_LIMIT,     \* poll-adjust threshold
  MaxFreq,         \* NTP_MAXFREQ
  Quantum,         \* units in a quantum of adjtime
  minpoll, maxpoll,
  HuffLen,         \* stages of the huff-n'-puff filter
  Offsets, Delays, \* what an update can bring
  Thresholds,      \* step thresholds to configure; 0 disables stepping
  MaxConfigs       \* bound on the commands that configure the loop

ASSUME DisciplineAssumption ==
  /\ {clock_minstep, CLOCK_PLL, Quantum, HuffLen} \subseteq Nat \ {0}
  /\ {CLOCK_LIMIT, MaxFreq, minpoll, maxpoll} \subseteq Nat /\ minpoll <= maxpoll
  /\ {clock_panic, CLOCK_FLOOR} \subseteq Int
  /\ Offsets \subseteq Int /\ Delays \subseteq Nat /\ Thresholds \subseteq Int
  /\ MaxConfigs \in Nat
\* Poll intervals are positive; to the provers powers are opaque.
ASSUME PowersAssumption == \A n \in minpoll .. maxpoll : 2^n \in Nat \ {0}

NoDelay == 1000000    \* 1e9 s: nothing seen yet

VARIABLES
  d,       \* the discipline, a record
  clock,   \* the kernel and what is asked of it
  seen     \* history: was the last update a spike, the last answer; and the
           \* commands so far
dvars == <<d, clock, seen>>

States == {"NSET", "FSET", "FREQ", "SYNC", "SPIK"}
\* The largest threshold with which the kernel loop may be used (0.5 s).
KernelMax == 2 * Quantum

Freqs == -MaxFreq .. MaxFreq
Clamp(f) == IF f > MaxFreq THEN MaxFreq ELSE IF f < -MaxFreq THEN -MaxFreq ELSE f
Mag(n) == IF n < 0 THEN -n ELSE n
\* C's division, towards zero.
Trunc(a, b) == IF a < 0 THEN -((-a) \div b) ELSE a \div b

\* The discipline with a frequency in D, and the answers of local_clock.
Disciplines(D) ==
  [state : States, mu : 0 .. clock_minstep, freq_cnt : 0 .. clock_minstep, offset : Int, drift : D,
   poll : minpoll .. maxpoll, tc : -CLOCK_LIMIT .. CLOCK_LIMIT, fwd : Thresholds, back : Thresholds,
   pll : BOOLEAN, kern : BOOLEAN, started : BOOLEAN, enable : BOOLEAN, allow_panic : BOOLEAN,
   force_step : BOOLEAN, mode_ntpdate : BOOLEAN, huff : {<<>>} \union [1 .. HuffLen -> Nat], ptr : 1 .. HuffLen,
   mindly : Nat]
Answers == {"none", "ignored", "slewed", "stepped", "panic", "exit"}
TypeOK ==
  /\ d \in Disciplines(Freqs)
  /\ clock \in [freq : Freqs, residual : Int, owed : Int]
  /\ seen \in [outliers : {0, 1}, rc : Answers, configs : Nat]

-----------------------------------------------------------------------------
(***************************************************************************)
(* The system clock.  clock.owed is a history variable: what was asked for *)
(* less what was passed to adjtime or the step.                            *)
(***************************************************************************)
\* adj_systime: round to the nearest quantum and keep the residue.
adj_systime(c, now) ==
  LET t == Mag(now + c.residual)
      neg == now + c.residual < 0
      ticks == (2 * t + Quantum) \div (2 * Quantum)
      r == t - ticks * Quantum
  IN  IF now = 0 THEN c
      ELSE [c EXCEPT !.residual = IF neg THEN -r ELSE r,
                     !.owed = @ + now - (IF neg THEN -(ticks * Quantum) ELSE ticks * Quantum)]

step_systime(c, step) == [c EXCEPT !.residual = 0, !.owed = @ + step - (step + c.residual)]

-----------------------------------------------------------------------------
(***************************************************************************)
(* Frequency.  m = [d, clock].                                             *)
(***************************************************************************)
\* set_freq; the kernel holds what it is given within its own tolerance.
set_freq(m, f) ==
  [d |-> [m.d EXCEPT !.drift = f],
   clock |-> [m.clock EXCEPT !.freq = IF ~m.d.pll THEN @ ELSE IF m.d.kern THEN Clamp(f) ELSE 0]]
start_kern_loop(m) == [m EXCEPT !.d.pll = TRUE]

\* Mutant: the kernel keeps its frequency when the daemon takes over.
select_loop_Keep(m, use) == IF m.d.kern = use THEN m ELSE [m EXCEPT !.d.kern = use]
select_loop(m, use) ==
  IF m.d.kern = use THEN m
  ELSE LET m1 == [m EXCEPT !.d.kern = use]
       IN  IF m.d.pll /\ m.d.started THEN set_freq(m1, m.d.drift) ELSE m1

rstclock(e, state, offset) == [e EXCEPT !.state = state, !.offset = offset, !.mu = 0]

-----------------------------------------------------------------------------
(***************************************************************************)
(* local_clock.                                                            *)
(***************************************************************************)
\* The huff-n'-puff correction.
Puffed(e, delay) ==
  IF e.huff = <<>> THEN e
  ELSE [e EXCEPT !.huff[e.ptr] = IF delay < @ THEN delay ELSE @,
                 !.mindly = IF delay < @ THEN delay ELSE @]
PuffedOffset(e, offset, delay) ==
  IF e.huff = <<>> THEN offset
  ELSE LET c == Trunc(delay - Puffed(e, delay).mindly, 2) IN IF offset > 0 THEN offset - c ELSE offset + c

BeyondStep(e, off) == (off > e.fwd /\ e.fwd > 0) \/ (-off > e.back /\ e.back > 0)
Outlier(e, off) == BeyondStep(e, off) \/ e.force_step

\* The clock is stepped; in NSET the frequency is measured next.
Stepped(m, off, next) ==
  [d |-> rstclock([m.d EXCEPT !.tc = 0], next, 0), clock |-> step_systime(m.clock, off)]
direct_freq(m, off) == set_freq(m, Trunc(off, m.d.mu))

\* Mutant: the first outlier of a synchronized clock is stepped at once.
OutlierStep_Hasty(m, off) ==
  IF m.d.state \in {"FREQ", "SPIK"} /\ m.d.mu < clock_minstep THEN [rc |-> "ignored", m |-> m]
  ELSE IF m.d.state = "NSET" THEN [rc |-> "stepped", m |-> Stepped(m, off, "FREQ")]
  ELSE [rc |-> "stepped", m |-> Stepped(IF m.d.state = "FREQ" THEN direct_freq(m, off) ELSE m, off, "SYNC")]
\* The switch over the states for an offset beyond the step threshold.
OutlierStep(m, off) ==
  IF m.d.state = "SYNC" THEN [rc |-> "ignored", m |-> [m EXCEPT !.d.state = "SPIK"]]
  ELSE IF m.d.state \in {"FREQ", "SPIK"} /\ m.d.mu < clock_minstep THEN [rc |-> "ignored", m |-> m]
  ELSE IF m.d.state = "NSET" THEN [rc |-> "stepped", m |-> Stepped(m, off, "FREQ")]
  ELSE [rc |-> "stepped", m |-> Stepped(IF m.d.state = "FREQ" THEN direct_freq(m, off) ELSE m, off, "SYNC")]

\* And for one within it; f is the frequency that the PLL and the FLL make.
InlierStep(m, off, f) ==
  IF m.d.state = "NSET"
  THEN [rc |-> "slewed", m |-> [d |-> rstclock(m.d, "FREQ", off), clock |-> adj_systime(m.clock, off)]]
  ELSE IF m.d.state = "FREQ" /\ m.d.mu < clock_minstep THEN [rc |-> "ignored", m |-> m]
  ELSE LET m1 == IF m.d.state = "FREQ" THEN direct_freq(m, off) ELSE m
           e  == [m1.d EXCEPT !.allow_panic = FALSE, !.drift = IF m.d.freq_cnt = 0 THEN f ELSE @]
           m2 == [m1 EXCEPT !.d = rstclock(e, "SYNC", off)]
       IN  [rc |-> "slewed", m |-> IF Mag(off) < CLOCK_FLOOR THEN [m2 EXCEPT !.d.freq_cnt = 0] ELSE m2]

\* The kernel loop takes the offset and answers with its frequency f; the
\* frequency is clamped.
Locked(m, f) ==
  IF m.d.pll /\ m.d.kern /\ m.d.freq_cnt = 0
  THEN [d |-> [m.d EXCEPT !.drift = f], clock |-> [m.clock EXCEPT !.freq = f]]
  ELSE [m EXCEPT !.d.drift = Clamp(@)]

\* The time constant: "calm" tells whether the offset is within the gate.
TimeConstant(e, calm) ==
  LET up == e.tc + e.poll
      down == e.tc - 2 * e.poll
  IN  IF e.freq_cnt > 0 THEN [e EXCEPT !.tc = 0]
      ELSE IF calm THEN IF up <= CLOCK_LIMIT THEN [e EXCEPT !.tc = up]
                        ELSE IF e.poll < maxpoll THEN [e EXCEPT !.tc = 0, !.poll = @ + 1]
                        ELSE [e EXCEPT !.tc = CLOCK_LIMIT]
      ELSE IF down >= -CLOCK_LIMIT THEN [e EXCEPT !.tc = down]
      ELSE IF e.poll > minpoll THEN [e EXCEPT !.tc = 0, !.poll = @ - 1]
      ELSE [e EXCEPT !.tc = -CLOCK_LIMIT]

\* local_clock with offset off and delay from the system peer; f is the new
\* frequency of the loop in use.
local_clock(m, off, delay, f, calm) ==
  IF ~m.d.enable THEN [rc |-> "slewed", m |-> m]
  ELSE IF Mag(off) > clock_panic /\ clock_panic > 0 /\ ~m.d.allow_panic THEN [rc |-> "panic", m |-> m]
  ELSE IF m.d.mode_ntpdate
  THEN [rc |-> "exit", m |-> [m EXCEPT !.clock = IF BeyondStep(m.d, off) THEN step_systime(@, off)
                                                 ELSE adj_systime(@, off)]]
  ELSE LET o  == PuffedOffset(m.d, off, delay)
           m1 == [m EXCEPT !.d = Puffed(@, delay)]
           r  == IF Outlier(m.d, o) THEN OutlierStep([m1 EXCEPT !.d.force_step = FALSE], o)
                 ELSE InlierStep(m1, o, f)
           m2 == Locked(r.m, f)
       IN  IF r.rc = "ignored" \/ (r.rc = "stepped" /\ m.d.state = "NSET") THEN r
           ELSE [rc |-> r.rc, m |-> [m2 EXCEPT !.d = TimeConstant(@, calm)]]

-----------------------------------------------------------------------------
(***************************************************************************)
(* Steps.                                                                  *)
(***************************************************************************)
Command == /\ seen.configs < MaxConfigs
           /\ seen' = [seen EXCEPT !.configs = @ + 1]
Now == [d |-> d, clock |-> clock]
Adopt(m) == d' = m.d /\ clock' = m.clock

DisciplineInit ==
  /\ \E p, f, q \in BOOLEAN, t \in Thresholds :
       d = [state |-> "NSET", mu |-> 0, freq_cnt |-> clock_minstep, offset |-> 0, drift |-> 0, poll |-> minpoll,
            tc |-> 0, fwd |-> t, back |-> t, pll |-> FALSE, kern |-> TRUE, started |-> FALSE, enable |-> TRUE,
            allow_panic |-> p, force_step |-> f, mode_ntpdate |-> q, huff |-> <<>>, ptr |-> 1, mindly |-> NoDelay]
  /\ clock = [freq |-> 0, residual |-> 0, owed |-> 0]
  /\ seen = [outliers |-> 0, rc |-> "none", configs |-> 0]

\* loop_config LOOP_DRIFTINIT, with the frequency file's value or none.
DriftInit(f, freq_set) ==
  /\ ~d.started /\ ~d.mode_ntpdate
  /\ LET m == set_freq(start_kern_loop(Now), Clamp(f))
     IN  Adopt([m EXCEPT !.d = [rstclock(@, IF freq_set THEN "FSET" ELSE "NSET", 0) EXCEPT !.started = TRUE]])
  /\ UNCHANGED seen

\* loop_config LOOP_MAX, LOOP_MAX_FWD and LOOP_MAX_BACK.
StepThreshold(fwd, back) ==
  /\ LET m == [d |-> [d EXCEPT !.fwd = fwd, !.back = back], clock |-> clock]
     IN  Adopt(IF {fwd, back} \cap {t \in Thresholds : t = 0 \/ t > KernelMax} # {}
               THEN select_loop(m, FALSE) ELSE m)
  /\ fwd = d.fwd \/ back = d.back \/ fwd = back
  /\ Command
\* loop_config LOOP_HUFFPUFF.
HuffConfig ==
  /\ d' = [d EXCEPT !.huff = [i \in 1 .. HuffLen |-> NoDelay], !.mindly = NoDelay]
  /\ UNCHANGED clock /\ Command
\* proto_config PROTO_KERNEL and PROTO_NTP.
KernelConfig(use) == Adopt(select_loop(Now, use)) /\ Command
NtpConfig(on) == d' = [d EXCEPT !.enable = on] /\ UNCHANGED clock /\ Command

\* An update of the system process.  After a panic, and after the first
\* update in the mode of ntpdate, the daemon exits.
Running == seen.rc \notin {"panic", "exit"}
Update(off, delay, f, calm) ==
  LET r == local_clock(Now, off, delay, f, calm)
  IN  /\ Running /\ (d.started \/ d.mode_ntpdate)
      /\ Adopt(r.m)
      /\ seen' = [rc |-> r.rc, configs |-> seen.configs,
                  outliers |-> IF ~d.enable THEN seen.outliers
                               ELSE IF BeyondStep(d, PuffedOffset(d, off, delay)) /\ r.rc = "ignored" THEN 1 ELSE 0]

\* adj_host_clock, each second.
PhaseAdjustment(e) ==
  IF e.state # "SYNC" THEN 0
  ELSE IF e.freq_cnt > 0 THEN Trunc(e.offset, CLOCK_PLL * 2)
  ELSE IF e.pll /\ e.kern THEN 0
  ELSE Trunc(e.offset, CLOCK_PLL * 2^e.poll)
\* The frequency the daemon adds; with the kernel loop the kernel has it.
DaemonFreq(e) == IF e.pll /\ e.kern THEN 0 ELSE e.drift
\* The sum is bounded by NTP_MAXFREQ.
Bounded(e) ==
  LET f == DaemonFreq(e)
      s == PhaseAdjustment(e) + f
  IN  IF s > MaxFreq THEN MaxFreq - f ELSE IF s < -MaxFreq THEN -MaxFreq - f ELSE s - f
adj_host_clock ==
  /\ Running
  /\ IF d.enable /\ ~d.mode_ntpdate
     THEN /\ d' = [d EXCEPT !.mu = IF @ < clock_minstep THEN @ + 1 ELSE @,
                            !.freq_cnt = IF d.state = "SYNC" /\ @ > 0 THEN @ - 1 ELSE @,
                            !.offset = @ - Bounded(d)]
          /\ clock' = adj_systime(clock, Bounded(d) + DaemonFreq(d))
     ELSE /\ d' = [d EXCEPT !.mu = IF @ < clock_minstep THEN @ + 1 ELSE @]
          /\ UNCHANGED clock
  /\ seen' = [seen EXCEPT !.rc = "none"]

\* The oldest stage of the huff-n'-puff filter is given up.
MinOf(s) == CHOOSE x \in {s[i] : i \in DOMAIN s} : \A j \in DOMAIN s : x <= s[j]
huffpuff ==
  /\ d.huff # <<>>
  /\ LET p == (d.ptr % HuffLen) + 1
         h == [d.huff EXCEPT ![p] = NoDelay]
     IN  d' = [d EXCEPT !.ptr = p, !.huff = h, !.mindly = MinOf(h)]
  /\ UNCHANGED <<clock, seen>>

DisciplineNext ==
  \/ \E f \in Freqs, s \in BOOLEAN : DriftInit(f, s)
  \/ \E t, u \in Thresholds : StepThreshold(t, u)
  \/ HuffConfig
  \/ \E b \in BOOLEAN : KernelConfig(b) \/ NtpConfig(b)
  \/ \E o \in Offsets, y \in Delays, f \in Freqs, calm \in BOOLEAN : Update(o, y, f, calm)
  \/ adj_host_clock
  \/ huffpuff

DisciplineSpec == DisciplineInit /\ [][DisciplineNext]_dvars

-----------------------------------------------------------------------------
(***************************************************************************)
(* Properties.                                                             *)
(***************************************************************************)
\* Every correction reaches the system clock once.  The frequency is applied by
\* exactly one of the loops, the kernel's or the daemon's, whatever loop was
\* selected when (set_freq); and what adj_systime and step_systime still owe
\* of the phase is the residue, at most half a quantum.
AppliedOnce ==
  /\ clock.freq + DaemonFreq(d) = d.drift
  /\ clock.owed = clock.residual /\ 2 * Mag(clock.residual) <= Quantum

\* Once it was synchronized, the clock is stepped only when an earlier outlier
\* was passed over and no update was accepted for the stepout threshold.
SpikesSuppressed ==
  [][seen.rc # "stepped" /\ seen'.rc = "stepped" /\ d.state \in {"SYNC", "SPIK"}
       => d.mu = clock_minstep /\ seen.outliers = 1]_dvars

=============================================================================
