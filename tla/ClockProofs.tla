----------------------------- MODULE ClockProofs -----------------------------
(***************************************************************************)
(* The discipline applies every correction once and suppresses spikes, for *)
(* any thresholds, offsets and frequencies.                                *)
(***************************************************************************)
EXTENDS ClockDiscipline, WellFoundedInduction, TLAPS

(***************************************************************************)
(* Arithmetic and the system clock.                                        *)
(***************************************************************************)
\* C's division has an integer result.
LEMMA TruncInt ==
  ASSUME NEW a \in Int, NEW b \in Nat \ {0}
  PROVE  Trunc(a, b) \in Int
BY DEF Trunc

\* The clamp gives a frequency in range and leaves one as it is.
LEMMA ClampRange ==
  ASSUME NEW f \in Int
  PROVE  Clamp(f) \in Freqs /\ (f \in Freqs => Clamp(f) = f)
BY DisciplineAssumption DEF Clamp, Freqs

Clocks == [freq : Freqs, residual : Int, owed : Int]
\* What the clock is still owed is the residue, at most half a quantum.
Settled(c) == c \in Clocks /\ c.owed = c.residual /\ 2 * Mag(c.residual) <= Quantum

\* Division leaves less than the divisor.
LEMMA Division ==
  ASSUME NEW n \in Int, NEW w \in Nat \ {0}
  PROVE  n \div w \in Int /\ w * (n \div w) <= n /\ n < w * (n \div w) + w
<1>1. n \div w \in Int
  BY SMT
<1>2. w * (n \div w) <= n
  BY SMT
<1>3. n < w * (n \div w) + w
  BY SMT
<1> QED
  BY <1>1, <1>2, <1>3
\* Rounding to the nearest multiple of q leaves at most half of q.
LEMMA Rounding ==
  ASSUME NEW t \in Nat, NEW q \in Nat \ {0}
  PROVE  LET k == (2 * t + q) \div (2 * q)
         IN  k \in Int /\ k * q \in Int /\ 2 * (t - k * q) <= q /\ -q <= 2 * (t - k * q)
<1> DEFINE k == (2 * t + q) \div (2 * q)
<1>1. 2 * t + q \in Int /\ 2 * q \in Nat \ {0}
  OBVIOUS
<1>2. k \in Int /\ (2 * q) * k <= 2 * t + q /\ 2 * t + q < (2 * q) * k + 2 * q
  BY <1>1, Division
<1> HIDE DEF k
<1>3. (2 * q) * k = 2 * (k * q)
  BY <1>2
<1>4. k * q \in Int
  BY <1>2
<1>5. 2 * (k * q) <= 2 * t + q /\ 2 * t + q < 2 * (k * q) + 2 * q
  BY <1>2, <1>3
<1>6. ASSUME NEW z \in Int, 2 * z <= 2 * t + q, 2 * t + q < 2 * z + 2 * q
      PROVE  2 * (t - z) <= q /\ -q <= 2 * (t - z)
  BY <1>6
<1>7. 2 * (t - k * q) <= q /\ -q <= 2 * (t - k * q)
  BY <1>4, <1>5, <1>6
<1> QED
  BY <1>2, <1>4, <1>7

\* adj_systime keeps account of what it rounds away.
LEMMA AdjSettled ==
  ASSUME NEW c, Settled(c), NEW now \in Int
  PROVE  Settled(adj_systime(c, now)) /\ adj_systime(c, now).freq = c.freq
<1> DEFINE t == Mag(now + c.residual)
           neg == now + c.residual < 0
           ticks == (2 * t + Quantum) \div (2 * Quantum)
           k == ticks * Quantum
           r == t - k
           n == [c EXCEPT !.residual = IF neg THEN -r ELSE r, !.owed = @ + now - (IF neg THEN -k ELSE k)]
<1>0. c.residual \in Int /\ c.owed = c.residual /\ c.freq \in Freqs
  BY DEF Settled, Clocks
<1>1. CASE now = 0
  BY <1>1 DEF adj_systime
<1>2. CASE now # 0
  <2>1. adj_systime(c, now) = n
    BY <1>2 DEF adj_systime
  <2>2. t \in Nat /\ Quantum \in Nat \ {0}
    BY <1>0, DisciplineAssumption DEF Mag
  <2>3. ticks \in Int /\ 2 * (t - k) <= Quantum /\ -Quantum <= 2 * (t - k)
    BY <2>2, Rounding
  <2>4. k \in Int /\ r \in Int
    BY <2>2, <2>3
  <2> HIDE DEF ticks, k
  <2>5. n.freq = c.freq /\ n.residual = (IF neg THEN -r ELSE r) /\ n.owed = c.owed + now - (IF neg THEN -k ELSE k)
    BY DEF Settled, Clocks
  <2>6. n.residual \in Int /\ n.owed \in Int /\ 2 * Mag(n.residual) <= Quantum
    BY <1>0, <2>2, <2>3, <2>4, <2>5 DEF Mag
  <2>7. n.owed = n.residual
    BY <1>0, <2>4, <2>5 DEF Mag
  <2>8. n \in Clocks
    BY <1>0, <2>5, <2>6 DEF Settled, Clocks
  <2> QED
    BY <2>1, <2>5, <2>6, <2>7, <2>8 DEF Settled
<1> QED
  BY <1>1, <1>2

\* A step takes the residue along.
LEMMA StepSettled ==
  ASSUME NEW c, Settled(c), NEW step \in Int
  PROVE  Settled(step_systime(c, step)) /\ step_systime(c, step).freq = c.freq
<1> DEFINE n == [c EXCEPT !.residual = 0, !.owed = @ + step - (step + c.residual)]
<1>1. step_systime(c, step) = n
  BY DEF step_systime
<1>0. c \in Clocks /\ c.residual \in Int /\ c.owed = c.residual
  BY DEF Settled, Clocks
<1>a. n.freq = c.freq /\ n.residual = 0 /\ n.owed = c.owed + step - (step + c.residual)
  BY <1>0 DEF Clocks
<1>b. n.owed = 0 /\ n.owed \in Int /\ n.residual \in Int /\ n.freq \in Freqs
  BY <1>0, <1>a DEF Clocks
<1>2. n \in Clocks
  BY <1>0, <1>b DEF Clocks
<1>3. 2 * Mag(0) <= Quantum
  BY DisciplineAssumption DEF Mag
<1> QED
  BY <1>1, <1>2, <1>3, <1>a, <1>b DEF Settled

(***************************************************************************)
(* The frequency.  A record of the discipline has these fields.            *)
(***************************************************************************)
Shaped(e) ==
  e = [state |-> e.state, mu |-> e.mu, freq_cnt |-> e.freq_cnt, offset |-> e.offset, drift |-> e.drift,
       poll |-> e.poll, tc |-> e.tc, fwd |-> e.fwd, back |-> e.back, pll |-> e.pll, kern |-> e.kern,
       started |-> e.started, enable |-> e.enable, allow_panic |-> e.allow_panic, force_step |-> e.force_step,
       mode_ntpdate |-> e.mode_ntpdate, huff |-> e.huff, ptr |-> e.ptr, mindly |-> e.mindly]
Numbers(e) ==
  /\ e.state \in States /\ e.mu \in 0 .. clock_minstep /\ e.freq_cnt \in 0 .. clock_minstep /\ e.offset \in Int
  /\ e.poll \in minpoll .. maxpoll /\ e.tc \in -CLOCK_LIMIT .. CLOCK_LIMIT /\ e.fwd \in Thresholds
  /\ e.back \in Thresholds /\ e.huff \in {<<>>} \union [1 .. HuffLen -> Nat] /\ e.ptr \in 1 .. HuffLen
  /\ e.mindly \in Nat
Switches(e) ==
  /\ e.pll \in BOOLEAN /\ e.kern \in BOOLEAN /\ e.started \in BOOLEAN /\ e.enable \in BOOLEAN
  /\ e.allow_panic \in BOOLEAN /\ e.force_step \in BOOLEAN /\ e.mode_ntpdate \in BOOLEAN
\* The fields, one by one.
LEMMA Fields ==
  ASSUME NEW D, NEW e
  PROVE  e \in Disciplines(D) <=> Shaped(e) /\ Numbers(e) /\ Switches(e) /\ e.drift \in D
<1>1. ASSUME e \in Disciplines(D) PROVE Shaped(e)
  BY <1>1 DEF Disciplines, Shaped
<1>2. ASSUME e \in Disciplines(D) PROVE Numbers(e) /\ e.drift \in D
  BY <1>2 DEF Disciplines, Numbers
<1>3. ASSUME e \in Disciplines(D) PROVE Switches(e)
  BY <1>3 DEF Disciplines, Switches
<1>4. ASSUME Shaped(e), Numbers(e), Switches(e), e.drift \in D PROVE e \in Disciplines(D)
  BY <1>4 DEF Disciplines, Shaped, Numbers, Switches
<1> QED
  BY <1>1, <1>2, <1>3, <1>4

\* What is always so: a kernel without a loop has no frequency.
Sound(m) ==
  /\ m = [d |-> m.d, clock |-> m.clock] /\ m.d \in Disciplines(Int) /\ Settled(m.clock)
  /\ m.d.pll <=> m.d.started
  /\ ~m.d.pll => m.clock.freq = 0
\* What holds between operations: the frequency is in the kernel while its
\* loop is in use, and only then.
Good(m) ==
  Sound(m) /\ m.d.drift \in Freqs /\ m.clock.freq = IF m.d.pll /\ m.d.kern THEN m.d.drift ELSE 0
\* And within local_clock, where the frequency may be out of range until
\* Locked, or the kernel still have the old one.
Pending(m) ==
  Sound(m) /\ IF m.d.pll /\ m.d.kern THEN m.d.freq_cnt = 0 \/ m.clock.freq = Clamp(m.d.drift) ELSE m.clock.freq = 0

LEMMA GoodPending ==
  ASSUME NEW m, Good(m)
  PROVE  Pending(m)
<1>1. m.d.drift \in Freqs /\ m.d.drift \in Int
  BY Fields DEF Good, Sound
<1>2. Clamp(m.d.drift) = m.d.drift
  BY <1>1, ClampRange
<1> QED
  BY <1>2 DEF Good, Pending

\* What leaves the frequency and the choice of the loop alone.
LEMMA Carry ==
  ASSUME NEW m, NEW e \in Disciplines(Int), NEW c, Settled(c), c.freq = m.clock.freq,
         e.pll = m.d.pll, e.kern = m.d.kern, e.started = m.d.started, e.drift = m.d.drift
  PROVE  /\ Good(m) => Good([d |-> e, clock |-> c])
         /\ Pending(m) /\ e.freq_cnt \in {0, m.d.freq_cnt} => Pending([d |-> e, clock |-> c])
<1> DEFINE n == [d |-> e, clock |-> c]
<1>1. n.d = e /\ n.clock = c /\ n = [d |-> n.d, clock |-> n.clock]
  OBVIOUS
<1> HIDE DEF n
<1>2. ASSUME Sound(m) PROVE Sound(n)
  BY <1>1, <1>2 DEF Sound
<1>3. ASSUME Good(m) PROVE Good(n)
  BY <1>1, <1>2, <1>3 DEF Good
<1>4. ASSUME Pending(m), e.freq_cnt \in {0, m.d.freq_cnt} PROVE Pending(n)
  BY <1>1, <1>2, <1>4 DEF Pending
<1> QED
  BY <1>3, <1>4 DEF n

\* set_freq tells the kernel when there is a loop to tell.
LEMMA SetFreq ==
  ASSUME NEW m, Sound(m), NEW f \in Int
  PROVE  /\ Pending(set_freq(m, f))
         /\ set_freq(m, f).d = [m.d EXCEPT !.drift = f]
         /\ (f \in Freqs => Good(set_freq(m, f)))
<1> DEFINE n == set_freq(m, f)
           e == [m.d EXCEPT !.drift = f]
           x == IF ~m.d.pll THEN m.clock.freq ELSE IF m.d.kern THEN Clamp(f) ELSE 0
           c == [m.clock EXCEPT !.freq = x]
<1>1. n = [d |-> e, clock |-> c]
  BY DEF set_freq
<1>2. n.d = e /\ n.clock = c /\ n = [d |-> n.d, clock |-> n.clock]
  BY <1>1
<1>3. e \in Disciplines(Int)
  BY SMTT(20) DEF Sound, Disciplines
<1>4. e.drift = f /\ e.pll = m.d.pll /\ e.kern = m.d.kern /\ e.started = m.d.started
  BY DEF Sound, Disciplines
<1>5. x \in Freqs
  BY ClampRange, DisciplineAssumption DEF Sound, Settled, Clocks, Freqs
<1>6. Settled(c) /\ c.freq = x
  BY <1>5 DEF Sound, Settled, Clocks
<1>7. x = IF m.d.pll /\ m.d.kern THEN Clamp(f) ELSE 0
  BY DEF Sound
<1>8. (e.pll <=> e.started) /\ c.freq = IF e.pll /\ e.kern THEN Clamp(f) ELSE 0
  BY <1>4, <1>6, <1>7 DEF Sound
<1> HIDE DEF n, e, x, c
<1>9. Sound(n)
  BY <1>2, <1>3, <1>6, <1>8 DEF Sound
<1>10. Pending(n)
  BY <1>2, <1>4, <1>8, <1>9 DEF Pending
<1>11. ASSUME f \in Freqs PROVE Good(n)
  <2>1. Clamp(f) = f
    BY <1>11, ClampRange
  <2> QED
    BY <1>2, <1>4, <1>8, <1>9, <1>11, <2>1 DEF Good
<1> QED
  BY <1>2, <1>10, <1>11 DEF n, e

\* Whatever loop is selected, the frequency moves along.
LEMMA SelectLoop ==
  ASSUME NEW m, Good(m), NEW use \in BOOLEAN
  PROVE  /\ Good(select_loop(m, use))
         /\ select_loop(m, use).d.state = m.d.state /\ select_loop(m, use).d.force_step = m.d.force_step
<1> DEFINE e == [m.d EXCEPT !.kern = use]
           n == [d |-> e, clock |-> m.clock]
<1>1. CASE m.d.kern = use
  BY <1>1 DEF select_loop
<1>2. CASE m.d.kern # use
  <2>1. [m EXCEPT !.d.kern = use] = n
    BY DEF Good, Sound
  <2>2. /\ e \in Disciplines(Int) /\ e.pll = m.d.pll /\ e.kern = use /\ e.started = m.d.started /\ e.drift = m.d.drift
        /\ e.state = m.d.state /\ e.force_step = m.d.force_step
    BY DEF Good, Sound, Disciplines
  <2>3. n.d = e /\ n.clock = m.clock /\ n = [d |-> n.d, clock |-> n.clock]
    OBVIOUS
  <2> HIDE DEF e, n
  <2>4. Sound(n)
    BY <2>2, <2>3 DEF Good, Sound
  <2>5. CASE m.d.pll /\ m.d.started
    <3>1. select_loop(m, use) = set_freq(n, m.d.drift)
      BY <1>2, <2>1, <2>5 DEF select_loop
    <3>2. m.d.drift \in Freqs /\ m.d.drift \in Int
      BY DisciplineAssumption DEF Good, Freqs
    <3>3. Good(set_freq(n, m.d.drift)) /\ set_freq(n, m.d.drift).d = [e EXCEPT !.drift = m.d.drift]
      BY <2>3, <2>4, <3>2, SetFreq
    <3>4. [e EXCEPT !.drift = m.d.drift].state = e.state /\ [e EXCEPT !.drift = m.d.drift].force_step = e.force_step
      BY <2>2 DEF Disciplines
    <3> QED
      BY <2>2, <3>1, <3>3, <3>4
  <2>6. CASE ~(m.d.pll /\ m.d.started)
    <3>1. select_loop(m, use) = n
      BY <1>2, <2>1, <2>6 DEF select_loop
    <3>2. m.clock.freq = 0 /\ ~m.d.pll
      BY <2>6 DEF Good, Sound
    <3>3. Good(n)
      BY <2>2, <2>3, <2>4, <3>2 DEF Good
    <3> QED
      BY <2>2, <2>3, <3>1, <3>3
  <2> QED
    BY <2>5, <2>6
<1> QED
  BY <1>1, <1>2

(***************************************************************************)
(* local_clock, part by part.                                              *)
(***************************************************************************)
\* What n leaves as it is in e: the loop and its frequency.
SameLoop(n, e) == n.pll = e.pll /\ n.kern = e.kern /\ n.started = e.started /\ n.drift = e.drift

\* The huff-n'-puff filter changes itself and the offset only.
LEMMA PuffedKept ==
  ASSUME NEW e \in Disciplines(Int), NEW delay \in Nat, NEW off \in Int
  PROVE  /\ Puffed(e, delay) \in Disciplines(Int) /\ SameLoop(Puffed(e, delay), e)
         /\ Puffed(e, delay).state = e.state /\ Puffed(e, delay).force_step = e.force_step
         /\ Puffed(e, delay).mu = e.mu /\ Puffed(e, delay).freq_cnt = e.freq_cnt
         /\ PuffedOffset(e, off, delay) \in Int
<1>1. CASE e.huff = <<>>
  BY <1>1 DEF Puffed, PuffedOffset, SameLoop
<1>2. CASE e.huff # <<>>
  <2> DEFINE h == [e.huff EXCEPT ![e.ptr] = IF delay < @ THEN delay ELSE @]
             k == IF delay < e.mindly THEN delay ELSE e.mindly
             n == [e EXCEPT !.huff = h, !.mindly = k]
  <2>1. e.huff \in [1 .. HuffLen -> Nat] /\ e.ptr \in 1 .. HuffLen /\ e.mindly \in Nat
    BY <1>2, Fields DEF Numbers
  <2>2. Puffed(e, delay) = n
    BY <1>2 DEF Puffed, Disciplines
  <2>3. h \in [1 .. HuffLen -> Nat] /\ k \in Nat
    BY <2>1
  <2> HIDE DEF h, k
  <2>4. n \in Disciplines(Int)
    BY <2>3 DEF Disciplines
  <2>5. /\ SameLoop(n, e) /\ n.state = e.state /\ n.force_step = e.force_step /\ n.mu = e.mu
        /\ n.freq_cnt = e.freq_cnt /\ n.mindly = k
    BY DEF Disciplines, SameLoop
  <2>6. Trunc(delay - n.mindly, 2) \in Int
    <3>1. delay - n.mindly \in Int /\ 2 \in Nat \ {0}
      BY <2>3, <2>5
    <3> HIDE DEF n
    <3> QED
      BY <3>1, TruncInt
  <2>7. PuffedOffset(e, off, delay) \in Int
    BY <1>2, <2>2, <2>6 DEF PuffedOffset
  <2> QED
    BY <2>2, <2>4, <2>5, <2>7
<1> QED
  BY <1>1, <1>2

\* A step leaves the frequency alone.
LEMMA SteppedKept ==
  ASSUME NEW m, Sound(m), NEW off \in Int, NEW next \in States
  PROVE  LET n == Stepped(m, off, next)
         IN  /\ Good(m) => Good(n)
             /\ Pending(m) => Pending(n)
             /\ n.d.state = next /\ n.d.force_step = m.d.force_step
<1> DEFINE e == rstclock([m.d EXCEPT !.tc = 0], next, 0)
           c == step_systime(m.clock, off)
<1>1. Stepped(m, off, next) = [d |-> e, clock |-> c]
  BY DEF Stepped
<1>2. e = [m.d EXCEPT !.tc = 0, !.state = next, !.offset = 0, !.mu = 0]
  BY DEF rstclock, Sound, Disciplines
<1>3. 0 \in -CLOCK_LIMIT .. CLOCK_LIMIT /\ 0 \in 0 .. clock_minstep /\ 0 \in Int
  BY DisciplineAssumption
<1>4. e \in Disciplines(Int)
  BY <1>2, <1>3, ZenonT(30) DEF Sound, Disciplines
<1>5. SameLoop(e, m.d) /\ e.freq_cnt = m.d.freq_cnt /\ e.state = next /\ e.force_step = m.d.force_step
  BY <1>2 DEF Sound, Disciplines, SameLoop
<1>6. Settled(c) /\ c.freq = m.clock.freq
  BY StepSettled DEF Sound
<1> HIDE DEF e, c
<1>7. (Good(m) => Good([d |-> e, clock |-> c])) /\ (Pending(m) => Pending([d |-> e, clock |-> c]))
  BY <1>4, <1>5, <1>6, Carry DEF SameLoop
<1> QED
  BY <1>1, <1>5, <1>7

\* The frequency that was measured.
LEMMA DirectFreq ==
  ASSUME NEW m, Sound(m), NEW off \in Int, m.d.mu = clock_minstep
  PROVE  LET n == direct_freq(m, off)
         IN  /\ Pending(n)
             /\ n.d.state = m.d.state /\ n.d.force_step = m.d.force_step /\ n.d.freq_cnt = m.d.freq_cnt
<1>1. Trunc(off, m.d.mu) \in Int
  BY TruncInt, DisciplineAssumption
<1> DEFINE x == Trunc(off, m.d.mu)
<1> HIDE DEF x
<1>2. direct_freq(m, off) = set_freq(m, x)
  BY DEF direct_freq, x
<1>3. Pending(set_freq(m, x)) /\ set_freq(m, x).d = [m.d EXCEPT !.drift = x]
  BY <1>1, SetFreq DEF x
<1>4. LET e == [m.d EXCEPT !.drift = x]
      IN  e.state = m.d.state /\ e.force_step = m.d.force_step /\ e.freq_cnt = m.d.freq_cnt
  BY DEF Sound, Disciplines
<1> QED
  BY <1>2, <1>3, <1>4

\* An offset beyond the threshold: after the stepout the clock is stepped, and
\* a synchronized clock is not stepped at once.
LEMMA OutlierResult ==
  ASSUME NEW m, Good(m), NEW off \in Int
  PROVE  LET r == OutlierStep(m, off)
         IN  /\ r = [rc |-> r.rc, m |-> r.m] /\ r.rc \in {"ignored", "stepped"}
             /\ Pending(r.m) /\ (r.rc = "ignored" \/ m.d.state = "NSET" => Good(r.m))
             /\ r.m.d.force_step = m.d.force_step
             /\ r.rc = "stepped" => /\ r.m.d.state # "SPIK" /\ m.d.state # "SYNC"
                                    /\ m.d.state = "SPIK" => m.d.mu = clock_minstep
             /\ r.m.d.state = "SPIK" => m.d.state \in {"SYNC", "SPIK"}
<1>0. Sound(m) /\ Pending(m) /\ m.d \in Disciplines(Int)
  BY GoodPending DEF Good, Sound
<1>1. CASE m.d.state = "SYNC"
  <2> DEFINE e == [m.d EXCEPT !.state = "SPIK"]
  <2>1. [m EXCEPT !.d.state = "SPIK"] = [d |-> e, clock |-> m.clock]
    BY <1>0 DEF Sound
  <2>2. e \in Disciplines(Int) /\ SameLoop(e, m.d) /\ e.force_step = m.d.force_step
    BY <1>0 DEF Disciplines, SameLoop, States
  <2>3. Settled(m.clock)
    BY <1>0 DEF Sound
  <2> HIDE DEF e
  <2>4. Good([d |-> e, clock |-> m.clock])
    BY <2>2, <2>3, Carry DEF SameLoop
  <2>5. Pending([d |-> e, clock |-> m.clock])
    BY <2>4, GoodPending
  <2>6. OutlierStep(m, off) = [rc |-> "ignored", m |-> [d |-> e, clock |-> m.clock]]
    BY <1>1, <2>1 DEF OutlierStep
  <2> QED
    BY <1>1, <2>2, <2>4, <2>5, <2>6
<1>2. CASE m.d.state \in {"FREQ", "SPIK"} /\ m.d.mu < clock_minstep
  <2>1. OutlierStep(m, off) = [rc |-> "ignored", m |-> m]
    BY <1>2 DEF OutlierStep
  <2> QED
    BY <1>0, <1>2, <2>1
<1>3. CASE m.d.state = "NSET"
  <2>1. OutlierStep(m, off) = [rc |-> "stepped", m |-> Stepped(m, off, "FREQ")]
    BY <1>3 DEF OutlierStep
  <2>2. /\ Good(Stepped(m, off, "FREQ")) /\ Pending(Stepped(m, off, "FREQ"))
        /\ Stepped(m, off, "FREQ").d.state = "FREQ" /\ Stepped(m, off, "FREQ").d.force_step = m.d.force_step
    BY <1>0, SteppedKept DEF States
  <2> QED
    BY <1>3, <2>1, <2>2
<1>4. CASE /\ m.d.state \notin {"SYNC", "NSET"}
           /\ m.d.state \in {"FREQ", "SPIK"} => ~(m.d.mu < clock_minstep)
  <2> DEFINE m1 == IF m.d.state = "FREQ" THEN direct_freq(m, off) ELSE m
             n == Stepped(m1, off, "SYNC")
  <2>1. OutlierStep(m, off) = [rc |-> "stepped", m |-> n]
    BY <1>4 DEF OutlierStep
  <2>2. m.d.state \in {"FREQ", "SPIK"} => m.d.mu = clock_minstep
    BY <1>0, <1>4, Fields, DisciplineAssumption DEF Numbers
  <2>3. Pending(m1) /\ m1.d.force_step = m.d.force_step
    BY <1>0, <2>2, DirectFreq
  <2> HIDE DEF m1
  <2>4. Sound(m1)
    BY <2>3 DEF Pending
  <2>5. Pending(n) /\ n.d.state = "SYNC" /\ n.d.force_step = m.d.force_step
    BY <2>3, <2>4, SteppedKept DEF States
  <2> HIDE DEF n
  <2> QED
    BY <1>4, <2>1, <2>2, <2>5
<1> QED
  BY <1>1, <1>2, <1>3, <1>4

\* An offset within the threshold.
LEMMA InlierResult ==
  ASSUME NEW m, Good(m), NEW off \in Int, NEW f \in Freqs
  PROVE  LET r == InlierStep(m, off, f)
         IN  /\ r = [rc |-> r.rc, m |-> r.m] /\ r.rc \in {"ignored", "slewed"}
             /\ Pending(r.m) /\ (r.rc = "ignored" => Good(r.m))
             /\ r.m.d.force_step = m.d.force_step /\ r.m.d.state # "SPIK"
<1>0. Sound(m) /\ Pending(m) /\ m.d \in Disciplines(Int) /\ Settled(m.clock)
  BY GoodPending DEF Good, Sound
<1>a. 0 \in 0 .. clock_minstep
  BY DisciplineAssumption
<1>1. CASE m.d.state = "NSET"
  <2> DEFINE e == rstclock(m.d, "FREQ", off)
             c == adj_systime(m.clock, off)
  <2>1. InlierStep(m, off, f) = [rc |-> "slewed", m |-> [d |-> e, clock |-> c]]
    BY <1>1 DEF InlierStep
  <2>2. /\ e \in Disciplines(Int) /\ SameLoop(e, m.d) /\ e.force_step = m.d.force_step
        /\ e.freq_cnt = m.d.freq_cnt /\ e.state = "FREQ"
    BY <1>0, <1>a DEF rstclock, Disciplines, SameLoop, States
  <2>3. Settled(c) /\ c.freq = m.clock.freq
    BY <1>0, AdjSettled
  <2> HIDE DEF e, c
  <2>4. Pending([d |-> e, clock |-> c])
    BY <1>0, <2>2, <2>3, Carry DEF SameLoop
  <2> QED
    BY <2>1, <2>2, <2>4
<1>2. CASE m.d.state = "FREQ" /\ m.d.mu < clock_minstep
  <2>1. InlierStep(m, off, f) = [rc |-> "ignored", m |-> m]
    BY <1>2 DEF InlierStep
  <2> QED
    BY <1>0, <1>2, <2>1
<1>3. CASE m.d.state # "NSET" /\ (m.d.state = "FREQ" => ~(m.d.mu < clock_minstep))
  <2> DEFINE m1 == IF m.d.state = "FREQ" THEN direct_freq(m, off) ELSE m
             x == IF m.d.freq_cnt = 0 THEN f ELSE m1.d.drift
             k == IF Mag(off) < CLOCK_FLOOR THEN 0 ELSE m1.d.freq_cnt
             e2 == [m1.d EXCEPT !.allow_panic = FALSE, !.drift = x]
             e3 == rstclock(e2, "SYNC", off)
             e == IF Mag(off) < CLOCK_FLOOR THEN [e3 EXCEPT !.freq_cnt = 0] ELSE e3
             n == [d |-> e, clock |-> m1.clock]
  <2>1. m.d.state = "FREQ" => m.d.mu = clock_minstep
    BY <1>0, <1>3, Fields, DisciplineAssumption DEF Numbers
  <2>2. Pending(m1) /\ m1.d.force_step = m.d.force_step /\ m1.d.freq_cnt = m.d.freq_cnt
    BY <1>0, <2>1, DirectFreq
  <2>3. InlierStep(m, off, f) = [rc |-> "slewed", m |-> n]
    <3> DEFINE z == [m1.d EXCEPT !.allow_panic = FALSE, !.drift = IF m.d.freq_cnt = 0 THEN f ELSE @]
               m2 == [m1 EXCEPT !.d = rstclock(z, "SYNC", off)]
               m3 == IF Mag(off) < CLOCK_FLOOR THEN [m2 EXCEPT !.d.freq_cnt = 0] ELSE m2
    <3>1. InlierStep(m, off, f) = [rc |-> "slewed", m |-> m3]
      BY <1>3 DEF InlierStep
    <3>2. m1 = [d |-> m1.d, clock |-> m1.clock] /\ m1.d \in Disciplines(Int)
      BY <2>2 DEF Pending, Sound
    <3> HIDE DEF m1
    <3>3. z = e2
      BY <3>2 DEF Disciplines
    <3> HIDE DEF z, e2
    <3>4. m2.d = e3 /\ m2.clock = m1.clock /\ m2 = [d |-> m2.d, clock |-> m2.clock]
      BY <3>2, <3>3
    <3> HIDE DEF m2, e3
    <3>5. m3 = n
      BY <3>4
    <3> QED
      BY <3>1, <3>5
  <2>4. m1.d \in Disciplines(Int) /\ m1.d.drift \in Int /\ m1.d.freq_cnt \in 0 .. clock_minstep
    BY <2>2, Fields DEF Pending, Sound, Numbers
  <2> HIDE DEF m1
  <2>5. x \in Int /\ k \in 0 .. clock_minstep
    BY <2>4, <1>a, DisciplineAssumption DEF Freqs
  <2> HIDE DEF x
  <2>a. /\ e2 \in Disciplines(Int) /\ e2.pll = m1.d.pll /\ e2.kern = m1.d.kern /\ e2.started = m1.d.started
        /\ e2.drift = x /\ e2.freq_cnt = m1.d.freq_cnt /\ e2.force_step = m1.d.force_step
    BY <2>4, <2>5 DEF Disciplines
  <2> HIDE DEF e2
  <2>b. /\ e3 \in Disciplines(Int) /\ e3.pll = e2.pll /\ e3.kern = e2.kern /\ e3.started = e2.started
        /\ e3.drift = x /\ e3.freq_cnt = e2.freq_cnt /\ e3.force_step = e2.force_step /\ e3.state = "SYNC"
    BY <1>a, <2>a DEF rstclock, Disciplines, States
  <2> HIDE DEF e3
  <2>6. e \in Disciplines(Int)
    BY <1>a, <2>b, SMTT(20) DEF Disciplines
  <2>7. /\ e.pll = m1.d.pll /\ e.kern = m1.d.kern /\ e.started = m1.d.started /\ e.drift = x /\ e.freq_cnt = k
        /\ e.force_step = m1.d.force_step /\ e.state = "SYNC"
    BY <2>a, <2>b, SMTT(20) DEF Disciplines
  <2> HIDE DEF k
  <2> HIDE DEF e
  <2>8. n.d = e /\ n.clock = m1.clock /\ n = [d |-> n.d, clock |-> n.clock]
    OBVIOUS
  <2> HIDE DEF n
  <2>9. Sound(n)
    BY <2>2, <2>6, <2>7, <2>8 DEF Pending, Sound
  <2>10. x = m1.d.drift \/ k = 0
    BY <2>2 DEF x, k
  <2>11. m1.d.freq_cnt = 0 => k = 0
    BY DEF k
  <2>12. Pending(n)
    BY <2>2, <2>7, <2>8, <2>9, <2>10, <2>11 DEF Pending
  <2> QED
    BY <2>2, <2>3, <2>7, <2>8, <2>12
<1> QED
  BY <1>1, <1>2, <1>3

\* After the kernel's answer, or the clamp, the frequency is in range and where
\* it belongs.
LEMMA LockedGood ==
  ASSUME NEW m, Pending(m), NEW f \in Freqs
  PROVE  /\ Good(Locked(m, f))
         /\ Locked(m, f).d.state = m.d.state /\ Locked(m, f).d.force_step = m.d.force_step
<1>0. /\ m = [d |-> m.d, clock |-> m.clock] /\ m.d \in Disciplines(Int) /\ Settled(m.clock) /\ m.d.drift \in Int
      /\ f \in Int /\ Sound(m)
  BY Fields, DisciplineAssumption DEF Pending, Sound, Freqs
<1> DEFINE b == m.d.pll /\ m.d.kern /\ m.d.freq_cnt = 0
           x == IF b THEN f ELSE Clamp(m.d.drift)
           e == [m.d EXCEPT !.drift = x]
           c == IF b THEN [m.clock EXCEPT !.freq = f] ELSE m.clock
           n == [d |-> e, clock |-> c]
<1>1. Locked(m, f) = n
  BY <1>0 DEF Locked
<1>2. x \in Freqs /\ x \in Int
  BY <1>0, ClampRange, DisciplineAssumption DEF Freqs
<1>3. Settled(c) /\ c.freq = IF b THEN f ELSE m.clock.freq
  BY <1>0 DEF Settled, Clocks
<1>4. c.freq = IF m.d.pll /\ m.d.kern THEN x ELSE 0
  BY <1>3 DEF Pending
<1> HIDE DEF x, c
<1>5. /\ e \in Disciplines(Int) /\ e.drift = x /\ e.pll = m.d.pll /\ e.kern = m.d.kern /\ e.started = m.d.started
      /\ e.state = m.d.state /\ e.force_step = m.d.force_step
  BY <1>0, <1>2, SMTT(20) DEF Disciplines
<1> HIDE DEF e
<1>6. n.d = e /\ n.clock = c /\ n = [d |-> n.d, clock |-> n.clock]
  OBVIOUS
<1> HIDE DEF n
<1>7. Good(n)
  BY <1>0, <1>2, <1>3, <1>4, <1>5, <1>6 DEF Good, Sound
<1> QED
  BY <1>1, <1>5, <1>6, <1>7

\* The time constant and the poll interval keep within their bounds.
LEMMA TimeConstantKept ==
  ASSUME NEW e \in Disciplines(Int), NEW calm
  PROVE  LET n == TimeConstant(e, calm)
         IN  n \in Disciplines(Int) /\ SameLoop(n, e) /\ n.state = e.state /\ n.force_step = e.force_step
<1>1. ASSUME NEW n, NEW t \in -CLOCK_LIMIT .. CLOCK_LIMIT, NEW p \in minpoll .. maxpoll,
             n = [e EXCEPT !.tc = t, !.poll = p]
      PROVE  n \in Disciplines(Int) /\ SameLoop(n, e) /\ n.state = e.state /\ n.force_step = e.force_step
  BY <1>1 DEF Disciplines, SameLoop
<1>2. \E t \in -CLOCK_LIMIT .. CLOCK_LIMIT, p \in minpoll .. maxpoll :
        TimeConstant(e, calm) = [e EXCEPT !.tc = t, !.poll = p]
  <2>1. e.tc \in -CLOCK_LIMIT .. CLOCK_LIMIT /\ e.poll \in minpoll .. maxpoll /\ minpoll \in Nat /\ maxpoll \in Nat
    BY Fields, DisciplineAssumption DEF Numbers
  <2>2. ASSUME NEW t PROVE [e EXCEPT !.tc = t] = [e EXCEPT !.tc = t, !.poll = e.poll]
    BY ZenonT(30) DEF Disciplines
  <2> DEFINE up == e.tc + e.poll
             down == e.tc - 2 * e.poll
  <2>3. up \in Int /\ up >= -CLOCK_LIMIT /\ down \in Int /\ down <= CLOCK_LIMIT
    BY <2>1, DisciplineAssumption
  <2>4. 0 \in -CLOCK_LIMIT .. CLOCK_LIMIT /\ CLOCK_LIMIT \in -CLOCK_LIMIT .. CLOCK_LIMIT
        /\ -CLOCK_LIMIT \in -CLOCK_LIMIT .. CLOCK_LIMIT
    BY DisciplineAssumption
  <2>5. CASE e.freq_cnt > 0
    BY <2>1, <2>2, <2>4, <2>5 DEF TimeConstant
  <2>6. CASE ~(e.freq_cnt > 0) /\ calm
    <3>1. CASE up <= CLOCK_LIMIT
      <4>1. TimeConstant(e, calm) = [e EXCEPT !.tc = up]
        BY <2>6, <3>1 DEF TimeConstant
      <4>2. up \in -CLOCK_LIMIT .. CLOCK_LIMIT
        BY <2>3, <3>1, DisciplineAssumption, SMTT(20)
      <4> HIDE DEF up
      <4> QED
        BY <2>1, <2>2, <4>1, <4>2
    <3>2. CASE ~(up <= CLOCK_LIMIT) /\ e.poll < maxpoll
      <4>1. TimeConstant(e, calm) = [e EXCEPT !.tc = 0, !.poll = e.poll + 1]
        BY <2>6, <3>2 DEF TimeConstant, Disciplines
      <4>2. e.poll + 1 \in minpoll .. maxpoll
        BY <2>1, <3>2, SMTT(20)
      <4> QED
        BY <2>4, <4>1, <4>2
    <3>3. CASE ~(up <= CLOCK_LIMIT) /\ ~(e.poll < maxpoll)
      <4>1. TimeConstant(e, calm) = [e EXCEPT !.tc = CLOCK_LIMIT]
        BY <2>6, <3>3, SMTT(20) DEF TimeConstant
      <4> QED
        BY <2>1, <2>2, <2>4, <4>1
    <3> QED
      BY <3>1, <3>2, <3>3, ZenonT(30)
  <2>7. CASE ~(e.freq_cnt > 0) /\ ~calm
    <3>1. CASE down >= -CLOCK_LIMIT
      <4>1. TimeConstant(e, calm) = [e EXCEPT !.tc = down]
        BY <2>7, <3>1 DEF TimeConstant
      <4>2. down \in -CLOCK_LIMIT .. CLOCK_LIMIT
        BY <2>3, <3>1, DisciplineAssumption, SMTT(20)
      <4> HIDE DEF down
      <4> QED
        BY <2>1, <2>2, <4>1, <4>2
    <3>2. CASE ~(down >= -CLOCK_LIMIT) /\ e.poll > minpoll
      <4>1. TimeConstant(e, calm) = [e EXCEPT !.tc = 0, !.poll = e.poll - 1]
        BY <2>7, <3>2 DEF TimeConstant, Disciplines
      <4>2. e.poll - 1 \in minpoll .. maxpoll
        BY <2>1, <3>2, SMTT(20)
      <4> QED
        BY <2>4, <4>1, <4>2
    <3>3. CASE ~(down >= -CLOCK_LIMIT) /\ ~(e.poll > minpoll)
      <4>1. TimeConstant(e, calm) = [e EXCEPT !.tc = -CLOCK_LIMIT]
        BY <2>7, <3>3 DEF TimeConstant
      <4> QED
        BY <2>1, <2>2, <2>4, <4>1
    <3> QED
      BY <3>1, <3>2, <3>3, ZenonT(30)
  <2> QED
    BY <2>5, <2>6, <2>7
<1>3. PICK t \in -CLOCK_LIMIT .. CLOCK_LIMIT, p \in minpoll .. maxpoll :
        TimeConstant(e, calm) = [e EXCEPT !.tc = t, !.poll = p]
  BY <1>2
<1> QED
  BY <1>1, <1>3

\* A step that was asked for is made before the clock is synchronized.
Steady(e) == e.state \notin {"NSET", "FSET"} => ~e.force_step
\* The outcome r of local_clock for m, when the corrected offset is o.
Outcome(m, o, r) ==
  /\ Good(r.m) /\ r.rc \in Answers \ {"none"}
  /\ Steady(m.d) => Steady(r.m.d)
  /\ r.rc = "stepped" => m.d.state # "SYNC" /\ (m.d.state = "SPIK" => m.d.mu = clock_minstep)
  /\ m.d.enable /\ Steady(m.d) /\ r.m.d.state = "SPIK" /\ r.rc \notin {"panic", "exit"}
       => r.rc = "ignored" /\ BeyondStep(m.d, o)

\* The frequency and the time constant after an update that was accepted.
LEMMA SettleLoop ==
  ASSUME NEW m, Pending(m), NEW f \in Freqs, NEW calm
  PROVE  LET m2 == Locked(m, f)
             n  == [m2 EXCEPT !.d = TimeConstant(@, calm)]
         IN  Good(n) /\ n.d.state = m.d.state /\ n.d.force_step = m.d.force_step
<1> DEFINE m2 == Locked(m, f)
           e  == TimeConstant(m2.d, calm)
           n  == [d |-> e, clock |-> m2.clock]
<1>1. Good(m2) /\ m2.d.state = m.d.state /\ m2.d.force_step = m.d.force_step
  BY LockedGood
<1> HIDE DEF m2
<1>2. m2 = [d |-> m2.d, clock |-> m2.clock] /\ m2.d \in Disciplines(Int) /\ Settled(m2.clock)
  BY <1>1 DEF Good, Sound
<1>3. e \in Disciplines(Int) /\ SameLoop(e, m2.d) /\ e.state = m2.d.state /\ e.force_step = m2.d.force_step
  BY <1>2, TimeConstantKept
<1>4. [m2 EXCEPT !.d = TimeConstant(@, calm)] = n
  BY <1>2
<1> HIDE DEF e
<1>5. Good(n)
  BY <1>1, <1>2, <1>3, Carry DEF SameLoop
<1>6. n.d = e
  OBVIOUS
<1> HIDE DEF n
<1> QED
  BY <1>1, <1>3, <1>4, <1>5, <1>6 DEF m2

\* local_clock keeps the frequency where it belongs, steps a synchronized clock
\* only after the stepout threshold, and calls it a spike only when it
\* ignored an outlier.
LEMMA LocalClock ==
  ASSUME NEW m, Good(m), NEW off \in Int, NEW delay \in Nat, NEW f \in Freqs, NEW calm
  PROVE  Outcome(m, PuffedOffset(m.d, off, delay), local_clock(m, off, delay, f, calm))
<1> DEFINE o  == PuffedOffset(m.d, off, delay)
           r  == local_clock(m, off, delay, f, calm)
<1>0. /\ m = [d |-> m.d, clock |-> m.clock] /\ m.d \in Disciplines(Int) /\ Settled(m.clock)
      /\ m.d.force_step \in BOOLEAN /\ m.d.enable \in BOOLEAN
  BY Fields DEF Good, Sound, Switches
<1>1. CASE ~m.d.enable
  <2>1. r = [rc |-> "slewed", m |-> m]
    BY <1>1 DEF local_clock
  <2> HIDE DEF r, o
  <2>2. r.m = m /\ r.rc = "slewed"
    BY <2>1
  <2>3. ASSUME m.d.enable PROVE FALSE
    BY <1>1, <2>3
  <2>4. Outcome(m, o, r)
    BY <2>2, <2>3 DEF Outcome, Answers
  <2> QED
    BY <2>4 DEF r, o
<1>2. CASE m.d.enable /\ Mag(off) > clock_panic /\ clock_panic > 0 /\ ~m.d.allow_panic
  <2>1. r = [rc |-> "panic", m |-> m]
    BY <1>2 DEF local_clock
  <2> HIDE DEF r, o
  <2>3. r.m = m /\ r.rc = "panic"
    BY <2>1
  <2> QED
    BY <2>3 DEF Outcome, Answers, r, o
<1>3. CASE m.d.enable /\ ~(Mag(off) > clock_panic /\ clock_panic > 0 /\ ~m.d.allow_panic) /\ m.d.mode_ntpdate
  <2> DEFINE c == IF BeyondStep(m.d, off) THEN step_systime(m.clock, off) ELSE adj_systime(m.clock, off)
  <2>1. r = [rc |-> "exit", m |-> [m EXCEPT !.clock = c]]
    BY <1>3 DEF local_clock
  <2>2. Settled(c) /\ c.freq = m.clock.freq
    BY <1>0, StepSettled, AdjSettled
  <2> HIDE DEF c
  <2>3. [m EXCEPT !.clock = c] = [d |-> m.d, clock |-> c]
    BY <1>0
  <2> HIDE DEF r, o
  <2>4. r.rc = "exit" /\ r.m = [d |-> m.d, clock |-> c] /\ r.m.d = m.d
    BY <2>1, <2>3
  <2>5. Good(r.m)
    BY <1>0, <2>2, <2>4, Carry
  <2> QED
    BY <2>4, <2>5 DEF Outcome, Answers, r, o
<1>4. CASE m.d.enable /\ ~(Mag(off) > clock_panic /\ clock_panic > 0 /\ ~m.d.allow_panic) /\ ~m.d.mode_ntpdate
  <2> DEFINE p  == Puffed(m.d, delay)
             m1 == [d |-> p, clock |-> m.clock]
             q  == [p EXCEPT !.force_step = FALSE]
             m0 == [d |-> q, clock |-> m.clock]
             s  == IF Outlier(m.d, o) THEN OutlierStep(m0, o) ELSE InlierStep(m1, o, f)
             m2 == Locked(s.m, f)
             n  == [m2 EXCEPT !.d = TimeConstant(@, calm)]
             w  == IF s.rc = "ignored" \/ (s.rc = "stepped" /\ m.d.state = "NSET") THEN s ELSE [rc |-> s.rc, m |-> n]
  <2>1. r = w
    <3>1. [m EXCEPT !.d = Puffed(@, delay)] = m1
      BY <1>0
    <3>2. [m1 EXCEPT !.d.force_step = FALSE] = m0
      <4>1. ASSUME NEW x, NEW b, x = [d |-> x.d, clock |-> x.clock]
            PROVE  [x EXCEPT !.d.force_step = b] = [d |-> [x.d EXCEPT !.force_step = b], clock |-> x.clock]
        BY <4>1
      <4> HIDE DEF p
      <4>2. m1.d = p /\ m1 = [d |-> m1.d, clock |-> m1.clock] /\ m1.clock = m.clock
        OBVIOUS
      <4> HIDE DEF m1
      <4>3. [m1 EXCEPT !.d.force_step = FALSE] = [d |-> [m1.d EXCEPT !.force_step = FALSE], clock |-> m1.clock]
        BY <4>1, <4>2, Zenon
      <4> QED
        BY <4>2, <4>3, Zenon
    <3> QED
      BY <1>4, <3>1, <3>2 DEF local_clock
  <2>2. /\ p \in Disciplines(Int) /\ SameLoop(p, m.d) /\ p.state = m.d.state /\ p.force_step = m.d.force_step
        /\ p.mu = m.d.mu /\ o \in Int
    BY <1>0, PuffedKept
  <2> HIDE DEF o, r, p
  <2>3. q \in Disciplines(Int) /\ SameLoop(q, m.d) /\ q.state = m.d.state /\ q.mu = m.d.mu /\ q.force_step = FALSE
    BY <2>2 DEF Disciplines, SameLoop
  <2> HIDE DEF q
  <2>4. Good(m0) /\ Good(m1)
    BY <1>0, <2>2, <2>3, Carry DEF SameLoop
  <2>5. m0.d = q /\ m1.d = p
    OBVIOUS
  <2> HIDE DEF m0, m1
  <2>6. s.rc \in {"ignored", "slewed", "stepped"} /\ Pending(s.m)
    BY <2>2, <2>4, OutlierResult, InlierResult
  <2>7. s.rc = "ignored" \/ (s.rc = "stepped" /\ m.d.state = "NSET") => Good(s.m)
    BY <2>2, <2>3, <2>4, <2>5, OutlierResult, InlierResult
  <2>8. Steady(m.d) => ~s.m.d.force_step
    <3>1. CASE Outlier(m.d, o)
      BY <2>2, <2>3, <2>4, <2>5, <3>1, OutlierResult
    <3>2. CASE ~Outlier(m.d, o)
      <4>1. ~m.d.force_step
        BY <3>2 DEF Outlier
      <4>2. s.m.d.force_step = p.force_step
        BY <2>2, <2>4, <2>5, <3>2, InlierResult
      <4> QED
        BY <2>2, <4>1, <4>2
    <3> QED
      BY <3>1, <3>2
  <2>9. s.rc = "stepped" => m.d.state # "SYNC" /\ (m.d.state = "SPIK" => m.d.mu = clock_minstep)
    BY <2>2, <2>3, <2>4, <2>5, OutlierResult, InlierResult, SMTT(20)
  <2>10. ASSUME Steady(m.d), s.m.d.state = "SPIK" PROVE s.rc = "ignored" /\ BeyondStep(m.d, o)
    <3>1. Outlier(m.d, o)
      BY <2>2, <2>4, <2>10, InlierResult
    <3>2. s.rc = "ignored" /\ m.d.state \in {"SYNC", "SPIK"}
      BY <2>2, <2>3, <2>4, <2>5, <2>10, <3>1, OutlierResult
    <3> QED
      BY <2>10, <3>1, <3>2 DEF Outlier, Steady
  <2> HIDE DEF s
  <2>11. Good(n) /\ n.d.state = s.m.d.state /\ n.d.force_step = s.m.d.force_step
    BY <2>6, SettleLoop
  <2> HIDE DEF n
  <2>12. w.rc = s.rc /\ w.m.d.state = s.m.d.state /\ w.m.d.force_step = s.m.d.force_step /\ Good(w.m)
    BY <2>7, <2>11
  <2> HIDE DEF w
  <2>13. Outcome(m, o, w)
    BY <2>6, <2>8, <2>9, <2>10, <2>12 DEF Outcome, Answers, Steady
  <2> QED
    BY <2>1, <2>13 DEF o, r
<1> QED
  BY <1>0, <1>1, <1>2, <1>3, <1>4

-----------------------------------------------------------------------------
(***************************************************************************)
(* The invariant, action by action.                                        *)
(***************************************************************************)
\* Between steps the frequency is where it belongs; a step that was asked for
\* was made before the clock was synchronized; and while the clock is in the
\* spike state, the last update that was looked at was an outlier.
DisciplineInv ==
  /\ Good(Now) /\ Steady(d) /\ seen \in [outliers : {0, 1}, rc : Answers, configs : Nat]
  /\ Running /\ d.state = "SPIK" => seen.outliers = 1

\* The history after a step that leaves the answer alone.
LEMMA SeenKept ==
  ASSUME DisciplineInv, seen' = seen \/ Command
  PROVE  /\ seen' \in [outliers : {0, 1}, rc : Answers, configs : Nat]
         /\ seen'.rc = seen.rc /\ seen'.outliers = seen.outliers
BY DEF DisciplineInv, Command
\* And one that leaves the state alone, too.
LEMMA Quiet ==
  ASSUME DisciplineInv, seen' = seen \/ Command, Good(Now'), d'.state = d.state, d'.force_step = d.force_step
  PROVE  DisciplineInv'
BY SeenKept DEF DisciplineInv, Steady, Running

LEMMA InitInv ==
  ASSUME DisciplineInit
  PROVE  DisciplineInv
<1> USE DEF Now
<1>1. PICK p \in BOOLEAN, f \in BOOLEAN, q \in BOOLEAN, t \in Thresholds :
       d = [state |-> "NSET", mu |-> 0, freq_cnt |-> clock_minstep, offset |-> 0, drift |-> 0, poll |-> minpoll,
            tc |-> 0, fwd |-> t, back |-> t, pll |-> FALSE, kern |-> TRUE, started |-> FALSE, enable |-> TRUE,
            allow_panic |-> p, force_step |-> f, mode_ntpdate |-> q, huff |-> <<>>, ptr |-> 1, mindly |-> NoDelay]
  BY DEF DisciplineInit
<1>2. /\ clock_minstep \in 0 .. clock_minstep /\ 0 \in 0 .. clock_minstep /\ minpoll \in minpoll .. maxpoll
      /\ 0 \in -CLOCK_LIMIT .. CLOCK_LIMIT /\ 1 \in 1 .. HuffLen /\ NoDelay \in Nat /\ 0 \in Freqs
  BY DisciplineAssumption, SMT DEF NoDelay, Freqs
<1>3. d.state = "NSET" /\ d.drift = 0 /\ d.pll = FALSE /\ d.started = FALSE
  BY <1>1
<1>4. d \in Disciplines(Int)
  BY <1>1, <1>2 DEF Disciplines, States
<1>5. clock \in Clocks /\ clock.freq = 0 /\ clock.owed = 0 /\ clock.residual = 0
  BY <1>2 DEF DisciplineInit, Clocks
<1>6. Settled(clock)
  BY <1>5, DisciplineAssumption DEF Settled, Mag
<1>7. Good(Now)
  BY <1>2, <1>3, <1>4, <1>5, <1>6 DEF Good, Sound
<1>8. Steady(d)
  BY <1>3 DEF Steady
<1>9. seen \in [outliers : {0, 1}, rc : Answers, configs : Nat]
  BY DEF DisciplineInit, Answers
<1> QED
  BY <1>3, <1>7, <1>8, <1>9 DEF DisciplineInv

LEMMA DriftInitInv ==
  ASSUME DisciplineInv, NEW f \in Freqs, NEW freq_set \in BOOLEAN, DriftInit(f, freq_set)
  PROVE  DisciplineInv'
<1> DEFINE x == IF d.kern THEN Clamp(f) ELSE 0
           s == IF freq_set THEN "FSET" ELSE "NSET"
           m == set_freq(start_kern_loop(Now), Clamp(f))
           e == [d EXCEPT !.pll = TRUE, !.drift = f, !.state = s, !.offset = 0, !.mu = 0, !.started = TRUE]
           c == [clock EXCEPT !.freq = x]
<1>0. d \in Disciplines(Int) /\ Settled(clock) /\ f \in Int
  BY DisciplineAssumption DEF DisciplineInv, Good, Sound, Now, Freqs
<1>1. Clamp(f) = f
  BY <1>0, ClampRange
<1>2. x \in Freqs /\ 0 \in 0 .. clock_minstep /\ s \in States
  BY <1>1, DisciplineAssumption DEF Freqs, States
<1>3. m.d = [d EXCEPT !.pll = TRUE, !.drift = f] /\ m.clock = c
  BY <1>0, <1>1 DEF set_freq, start_kern_loop, Now, Disciplines
<1>4. d' = [rstclock(m.d, s, 0) EXCEPT !.started = TRUE] /\ clock' = c
  BY <1>3 DEF DriftInit, Adopt
<1>5. d' = e
  BY <1>0, <1>3, <1>4 DEF rstclock, Disciplines
<1>6. e \in Disciplines(Int) /\ e.pll = TRUE /\ e.started = TRUE /\ e.drift = f /\ e.kern = d.kern /\ e.state = s
  <2> HIDE DEF s
  <2>1. ASSUME NEW y \in BOOLEAN, NEW n,
               n = [d EXCEPT !.pll = y, !.drift = f, !.state = s, !.offset = 0, !.mu = 0, !.started = y]
        PROVE  n \in Disciplines(Int) /\ n.pll = y /\ n.started = y /\ n.drift = f /\ n.kern = d.kern /\ n.state = s
    <3>1. /\ n.pll = y /\ n.started = y /\ n.drift = f /\ n.kern = d.kern /\ n.state = s
          /\ n.offset = 0 /\ n.mu = 0
      BY <1>0, <2>1, SMTT(20) DEF Disciplines
    <3>2. n \in Disciplines(Int)
      <4>1. [d EXCEPT !.pll = y, !.drift = f, !.state = s] \in Disciplines(Int)
        BY <1>0, <1>2 DEF Disciplines
      <4>2. n = [[d EXCEPT !.pll = y, !.drift = f, !.state = s] EXCEPT !.offset = 0, !.mu = 0, !.started = y]
        BY <1>0, <2>1 DEF Disciplines
      <4>3. ASSUME NEW k \in Disciplines(Int)
            PROVE  [k EXCEPT !.offset = 0, !.mu = 0, !.started = y] \in Disciplines(Int)
        <5>1. ASSUME NEW z \in 0 .. clock_minstep, NEW o \in Int
              PROVE  [k EXCEPT !.offset = o, !.mu = z, !.started = y] \in Disciplines(Int)
          BY DEF Disciplines
        <5>2. 0 \in 0 .. clock_minstep /\ 0 \in Int
          BY <1>2
        <5> QED
          BY <5>1, <5>2
      <4> QED
        BY <4>1, <4>2, <4>3
    <3> QED
      BY <3>1, <3>2
  <2>2. e = [d EXCEPT !.pll = TRUE, !.drift = f, !.state = s, !.offset = 0, !.mu = 0, !.started = TRUE]
    BY Zenon
  <2> HIDE DEF e
  <2> QED
    BY <2>1, <2>2, Zenon
<1>7. Settled(c) /\ c.freq = x
  BY <1>0, <1>2 DEF Settled, Clocks
<1> HIDE DEF e, c
<1>8. Good([d |-> e, clock |-> c])
  BY <1>1, <1>6, <1>7 DEF Good, Sound
<1>9. Good(Now')
  BY <1>4, <1>5, <1>8 DEF Now
<1>10. d'.state \in {"FSET", "NSET"}
  BY <1>5, <1>6
<1>11. seen' = seen
  BY DEF DriftInit
<1> QED
  BY <1>9, <1>10, <1>11 DEF DisciplineInv, Steady

LEMMA StepThresholdInv ==
  ASSUME DisciplineInv, NEW fwd \in Thresholds, NEW back \in Thresholds, StepThreshold(fwd, back)
  PROVE  DisciplineInv'
<1> DEFINE e == [d EXCEPT !.fwd = fwd, !.back = back]
           m == [d |-> e, clock |-> clock]
           n == IF {fwd, back} \cap {t \in Thresholds : t = 0 \/ t > KernelMax} # {} THEN select_loop(m, FALSE) ELSE m
<1>0. Good(Now) /\ d \in Disciplines(Int) /\ Settled(clock) /\ Now.d = d /\ Now.clock = clock
  BY DEF DisciplineInv, Good, Sound, Now
<1>2. Adopt(n) /\ Command
  BY DEF StepThreshold
<1>3. e \in Disciplines(Int) /\ SameLoop(e, d) /\ e.state = d.state /\ e.force_step = d.force_step
  BY <1>0 DEF Disciplines, SameLoop
<1> HIDE DEF e
<1>4. Good(m) /\ m.d = e
  BY <1>0, <1>3, Carry DEF SameLoop
<1> HIDE DEF m
<1>5. Good(n) /\ n.d.state = d.state /\ n.d.force_step = d.force_step
  BY <1>3, <1>4, SelectLoop
<1> HIDE DEF n
<1>6. Now' = n
  BY <1>2, <1>5 DEF Adopt, Now, Good, Sound
<1> QED
  BY <1>2, <1>5, <1>6, Quiet DEF Adopt

LEMMA HuffConfigInv ==
  ASSUME DisciplineInv, HuffConfig
  PROVE  DisciplineInv'
<1>0. Good(Now) /\ d \in Disciplines(Int) /\ Settled(clock) /\ Now.d = d /\ Now.clock = clock
  BY DEF DisciplineInv, Good, Sound, Now
<1>a. NoDelay \in Nat
  BY SMT DEF NoDelay
<1>1. [i \in 1 .. HuffLen |-> NoDelay] \in [1 .. HuffLen -> Nat]
  BY <1>a
<1>2. d' \in Disciplines(Int) /\ SameLoop(d', d) /\ d'.state = d.state /\ d'.force_step = d.force_step
  BY <1>0, <1>a, <1>1 DEF HuffConfig, Disciplines, SameLoop
<1>3. clock' = clock /\ Command
  BY DEF HuffConfig
<1>4. Good(Now')
  BY <1>0, <1>2, <1>3, Carry DEF SameLoop, Now
<1> QED
  BY <1>2, <1>3, <1>4, Quiet

LEMMA KernelConfigInv ==
  ASSUME DisciplineInv, NEW use \in BOOLEAN, KernelConfig(use)
  PROVE  DisciplineInv'
<1> DEFINE n == select_loop(Now, use)
<1>1. Good(n) /\ n.d.state = d.state /\ n.d.force_step = d.force_step
  BY SelectLoop DEF DisciplineInv, Now
<1>2. Adopt(n) /\ Command
  BY DEF KernelConfig
<1> HIDE DEF n
<1>3. Now' = n
  BY <1>1, <1>2 DEF Adopt, Now, Good, Sound
<1> QED
  BY <1>1, <1>2, <1>3, Quiet DEF Adopt

LEMMA NtpConfigInv ==
  ASSUME DisciplineInv, NEW on \in BOOLEAN, NtpConfig(on)
  PROVE  DisciplineInv'
<1>0. Good(Now) /\ d \in Disciplines(Int) /\ Settled(clock) /\ Now.d = d /\ Now.clock = clock
  BY DEF DisciplineInv, Good, Sound, Now
<1>2. d' \in Disciplines(Int) /\ SameLoop(d', d) /\ d'.state = d.state /\ d'.force_step = d.force_step
  BY <1>0 DEF NtpConfig, Disciplines, SameLoop
<1>3. clock' = clock /\ Command
  BY DEF NtpConfig
<1>4. Good(Now')
  BY <1>0, <1>2, <1>3, Carry DEF SameLoop, Now
<1> QED
  BY <1>2, <1>3, <1>4, Quiet

\* The adjustment of a second is a number.
LEMMA BoundedInt ==
  ASSUME NEW e \in Disciplines(Freqs)
  PROVE  Bounded(e) \in Int /\ DaemonFreq(e) \in Int
<1>1. e.offset \in Int /\ e.drift \in Int /\ e.poll \in minpoll .. maxpoll
  BY Fields, DisciplineAssumption DEF Numbers, Freqs
<1>2. CLOCK_PLL * 2 \in Nat \ {0} /\ CLOCK_PLL * 2^e.poll \in Nat \ {0}
  <2>1. ASSUME NEW a \in Nat \ {0}, NEW b \in Nat \ {0} PROVE a * b \in Nat \ {0}
    BY <2>1, SMT
  <2>2. CLOCK_PLL \in Nat \ {0} /\ 2 \in Nat \ {0}
    BY DisciplineAssumption
  <2>3. 2^e.poll \in Nat \ {0}
    BY <1>1, PowersAssumption
  <2> DEFINE g == 2^e.poll
  <2> HIDE DEF g
  <2>4. CLOCK_PLL * g \in Nat \ {0}
    BY <2>1, <2>2, <2>3 DEF g
  <2> QED
    BY <2>2, <2>4 DEF g
<1>3. PhaseAdjustment(e) \in Int
  BY <1>1, <1>2, TruncInt DEF PhaseAdjustment
<1>4. DaemonFreq(e) \in Int
  BY <1>1 DEF DaemonFreq
<1> QED
  BY <1>3, <1>4, DisciplineAssumption DEF Bounded

LEMMA AdjHostClockInv ==
  ASSUME DisciplineInv, adj_host_clock
  PROVE  DisciplineInv'
<1>0. Good(Now) /\ d \in Disciplines(Int) /\ Settled(clock) /\ Now.d = d /\ Now.clock = clock /\ d.drift \in Freqs
  BY DEF DisciplineInv, Good, Sound, Now
<1>1. d \in Disciplines(Freqs)
  BY <1>0, Fields
<1>2. Bounded(d) \in Int /\ DaemonFreq(d) \in Int
  BY <1>1, BoundedInt
<1> DEFINE u == IF d.mu < clock_minstep THEN d.mu + 1 ELSE d.mu
           k == IF d.state = "SYNC" /\ d.freq_cnt > 0 THEN d.freq_cnt - 1 ELSE d.freq_cnt
           b == Bounded(d)
           y == d.offset - b
           a == b + DaemonFreq(d)
<1>a. d.mu \in 0 .. clock_minstep /\ d.freq_cnt \in 0 .. clock_minstep /\ d.offset \in Int
  BY <1>0, Fields DEF Numbers
<1>b. u \in 0 .. clock_minstep
  BY <1>a, DisciplineAssumption
<1>c. k \in 0 .. clock_minstep
  BY <1>a, DisciplineAssumption
<1>3. u \in 0 .. clock_minstep /\ k \in 0 .. clock_minstep /\ y \in Int /\ a \in Int
  BY <1>2, <1>a, <1>b, <1>c
<1>4. \/ d' = [d EXCEPT !.mu = u, !.freq_cnt = k, !.offset = y] /\ clock' = adj_systime(clock, a)
      \/ d' = [d EXCEPT !.mu = u] /\ clock' = clock
  BY <1>0 DEF adj_host_clock, Disciplines
<1> HIDE DEF u, k, y, a
<1>d. Settled(adj_systime(clock, a)) /\ adj_systime(clock, a).freq = clock.freq
  BY <1>0, <1>3, AdjSettled
<1>5. Settled(clock') /\ clock'.freq = clock.freq
  BY <1>0, <1>4, <1>d
<1>6. d' \in Disciplines(Int) /\ SameLoop(d', d) /\ d'.state = d.state /\ d'.force_step = d.force_step
  <2>1. CASE d' = [d EXCEPT !.mu = u, !.freq_cnt = k, !.offset = y]
    <3>1. d' \in Disciplines(Int)
      BY <1>0, <1>3, <2>1, Zenon DEF Disciplines
    <3>2. SameLoop(d', d) /\ d'.state = d.state /\ d'.force_step = d.force_step
      BY <1>0, <2>1 DEF Disciplines, SameLoop
    <3> QED BY <3>1, <3>2
  <2>2. CASE d' = [d EXCEPT !.mu = u]
    <3>1. d' \in Disciplines(Int)
      BY <1>0, <1>3, <2>2, Zenon DEF Disciplines
    <3>2. SameLoop(d', d) /\ d'.state = d.state /\ d'.force_step = d.force_step
      BY <1>0, <2>2 DEF Disciplines, SameLoop
    <3> QED BY <3>1, <3>2
  <2> QED BY <1>4, <2>1, <2>2
<1>7. Good(Now')
  BY <1>0, <1>5, <1>6, Carry DEF SameLoop, Now
<1>8. Running /\ seen' = [seen EXCEPT !.rc = "none"]
  BY DEF adj_host_clock
<1>9. seen' \in [outliers : {0, 1}, rc : Answers, configs : Nat] /\ seen'.outliers = seen.outliers
  BY <1>8 DEF DisciplineInv, Answers
<1> QED
  BY <1>6, <1>7, <1>8, <1>9 DEF DisciplineInv, Steady

\* The least delay of the stages.
LEMMA MinOfNat ==
  ASSUME NEW s \in [1 .. HuffLen -> Nat]
  PROVE  MinOf(s) \in Nat
<1> DEFINE T == {s[i] : i \in DOMAIN s}
<1>1. T \subseteq Nat /\ s[1] \in T
  BY DisciplineAssumption
<1>2. PICK x \in T : \A k \in T : ~(<<k, x>> \in OpToRel(<, Nat))
  BY <1>1, NatLessThanWellFounded, WFMin, Zenon
<1>3. \A k \in T : ~(k < x)
  BY <1>1, <1>2, Zenon DEF OpToRel
<1>4. \A j \in DOMAIN s : x <= s[j]
  <2>1. \A j \in DOMAIN s : s[j] \in T
    OBVIOUS
  <2> HIDE DEF T
  <2> QED
    BY <1>1, <1>3, <2>1
<1>5. MinOf(s) \in T
  BY <1>4 DEF MinOf
<1> QED
  BY <1>1, <1>5

LEMMA HuffPuffInv ==
  ASSUME DisciplineInv, huffpuff
  PROVE  DisciplineInv'
<1>0. Good(Now) /\ d \in Disciplines(Int) /\ Settled(clock) /\ Now.d = d /\ Now.clock = clock
  BY DEF DisciplineInv, Good, Sound, Now
<1> DEFINE p == (d.ptr % HuffLen) + 1
           h == [d.huff EXCEPT ![p] = NoDelay]
           x == MinOf(h)
<1>1. d.huff \in [1 .. HuffLen -> Nat] /\ d.ptr \in 1 .. HuffLen
  BY <1>0, Fields DEF Numbers, huffpuff
<1>a. NoDelay \in Nat
  BY SMT DEF NoDelay
<1>b. p \in 1 .. HuffLen
  <2>1. ASSUME NEW a \in Nat, NEW w \in Nat \ {0} PROVE a % w \in 0 .. w - 1
    BY <2>1, SMT
  <2>2. d.ptr \in Nat /\ HuffLen \in Nat \ {0}
    BY <1>1, DisciplineAssumption
  <2>3. d.ptr % HuffLen \in 0 .. HuffLen - 1
    BY <2>1, <2>2
  <2> QED
    BY <2>2, <2>3
<1>2. h \in [1 .. HuffLen -> Nat]
  BY <1>1, <1>a, <1>b
<1>3. x \in Nat
  BY <1>2, MinOfNat
<1>4. d' = [d EXCEPT !.ptr = p, !.huff = h, !.mindly = x] /\ clock' = clock /\ seen' = seen
  BY DEF huffpuff
<1> HIDE DEF p, h, x
<1>5. d' \in Disciplines(Int) /\ SameLoop(d', d) /\ d'.state = d.state /\ d'.force_step = d.force_step
  BY <1>0, <1>b, <1>2, <1>3, <1>4 DEF Disciplines, SameLoop
<1>6. Good(Now')
  BY <1>0, <1>4, <1>5, Carry DEF SameLoop, Now
<1> QED
  BY <1>4, <1>5, <1>6, Quiet

\* An update keeps the invariant, and steps a synchronized clock only after
\* an outlier and the stepout threshold.
LEMMA UpdateInv ==
  ASSUME DisciplineInv, NEW o \in Offsets, NEW y \in Delays, NEW f \in Freqs, NEW calm \in BOOLEAN,
         Update(o, y, f, calm)
  PROVE  /\ DisciplineInv'
         /\ seen'.rc = "stepped" /\ d.state \in {"SYNC", "SPIK"} => d.mu = clock_minstep /\ seen.outliers = 1
<1> DEFINE r == local_clock(Now, o, y, f, calm)
           po == PuffedOffset(d, o, y)
           k == IF ~d.enable THEN seen.outliers ELSE IF BeyondStep(d, po) /\ r.rc = "ignored" THEN 1 ELSE 0
<1>0. Good(Now) /\ Now.d = d /\ Now.clock = clock /\ d.enable \in BOOLEAN
  BY Fields DEF DisciplineInv, Good, Sound, Now, Switches
<1>1. o \in Int /\ y \in Nat
  BY DisciplineAssumption
<1>2. Outcome(Now, po, r)
  BY <1>0, <1>1, LocalClock
<1>3. Running /\ Adopt(r.m) /\ seen' = [rc |-> r.rc, configs |-> seen.configs, outliers |-> k]
  BY DEF Update
<1>a. ~d.enable => r = [rc |-> "slewed", m |-> Now]
  BY <1>0 DEF local_clock
<1> HIDE DEF r, po
<1>4. k \in {0, 1}
  BY DEF DisciplineInv
<1>5. (d.enable /\ BeyondStep(d, po) /\ r.rc = "ignored" => k = 1) /\ (~d.enable => k = seen.outliers)
  OBVIOUS
<1> HIDE DEF k
<1>6. seen'.rc = r.rc /\ seen'.outliers = k /\ seen'.configs = seen.configs
  BY <1>3
<1>7. seen' \in [outliers : {0, 1}, rc : Answers, configs : Nat]
  BY <1>2, <1>3, <1>4 DEF DisciplineInv, Outcome
<1>8. d' = r.m.d /\ Now' = r.m
  BY <1>2, <1>3 DEF Adopt, Now, Outcome, Good, Sound
<1>9. Good(Now') /\ Steady(d')
  BY <1>0, <1>2, <1>8 DEF Outcome, DisciplineInv
<1>10. ASSUME Running', d'.state = "SPIK" PROVE seen'.outliers = 1
  <2>1. CASE d.enable
    <3>1. r.rc \notin {"panic", "exit"}
      BY <1>6, <1>10 DEF Running
    <3>2. r.rc = "ignored" /\ BeyondStep(d, po)
      BY <1>0, <1>2, <1>8, <1>10, <2>1, <3>1 DEF Outcome, DisciplineInv
    <3> QED
      BY <1>5, <1>6, <2>1, <3>2
  <2>2. CASE ~d.enable
    <3>1. d' = d
      BY <1>0, <1>8, <1>a, <2>2
    <3> QED
      BY <1>3, <1>5, <1>6, <1>10, <2>2, <3>1 DEF DisciplineInv
  <2> QED
    BY <1>0, <2>1, <2>2
<1>11. ASSUME seen'.rc = "stepped", d.state \in {"SYNC", "SPIK"} PROVE d.mu = clock_minstep /\ seen.outliers = 1
  BY <1>0, <1>2, <1>3, <1>6, <1>11 DEF Outcome, DisciplineInv
<1> QED
  BY <1>7, <1>9, <1>10, <1>11 DEF DisciplineInv

-----------------------------------------------------------------------------
(***************************************************************************)
(* Theorems.                                                               *)
(***************************************************************************)
\* One step: the invariant, and what is said of a step that changes the answer
\* to "stepped".
LEMMA NextInv ==
  ASSUME DisciplineInv, [DisciplineNext]_dvars
  PROVE  /\ DisciplineInv'
         /\ seen.rc # "stepped" /\ seen'.rc = "stepped" /\ d.state \in {"SYNC", "SPIK"}
              => d.mu = clock_minstep /\ seen.outliers = 1
<1>1. CASE UNCHANGED dvars
  BY <1>1 DEF dvars, DisciplineInv, Now, Running
<1>2. ASSUME NEW f \in Freqs, NEW s \in BOOLEAN, DriftInit(f, s) PROVE DisciplineInv' /\ seen'.rc = seen.rc
  BY <1>2, DriftInitInv, SMTT(20) DEF DriftInit
<1>3. ASSUME NEW t \in Thresholds, NEW u \in Thresholds, StepThreshold(t, u)
      PROVE  DisciplineInv' /\ seen'.rc = seen.rc
  BY <1>3, StepThresholdInv, SeenKept DEF StepThreshold
<1>4. CASE HuffConfig
  BY <1>4, HuffConfigInv, SeenKept DEF HuffConfig
<1>5. ASSUME NEW b \in BOOLEAN, KernelConfig(b) PROVE DisciplineInv' /\ seen'.rc = seen.rc
  BY <1>5, KernelConfigInv, SeenKept DEF KernelConfig
<1>6. ASSUME NEW b \in BOOLEAN, NtpConfig(b) PROVE DisciplineInv' /\ seen'.rc = seen.rc
  BY <1>6, NtpConfigInv, SeenKept DEF NtpConfig
<1>7. ASSUME NEW o \in Offsets, NEW y \in Delays, NEW f \in Freqs, NEW calm \in BOOLEAN, Update(o, y, f, calm)
      PROVE  /\ DisciplineInv'
             /\ seen'.rc = "stepped" /\ d.state \in {"SYNC", "SPIK"} => d.mu = clock_minstep /\ seen.outliers = 1
  BY <1>7, UpdateInv
<1>8. CASE adj_host_clock
  <2>1. seen'.rc = "none"
    BY <1>8 DEF adj_host_clock, DisciplineInv
  <2> QED
    BY <1>8, <2>1, AdjHostClockInv
<1>9. CASE huffpuff
  BY <1>9, HuffPuffInv DEF huffpuff
<1> QED
  BY <1>1, <1>2, <1>3, <1>4, <1>5, <1>6, <1>7, <1>8, <1>9 DEF DisciplineNext

THEOREM Disciplined == DisciplineSpec => []DisciplineInv
<1>1. DisciplineInit => DisciplineInv
  BY InitInv
<1>2. DisciplineInv /\ [DisciplineNext]_dvars => DisciplineInv'
  BY NextInv
<1> QED
  BY <1>1, <1>2, PTL DEF DisciplineSpec

\* The frequency stays within NTP_MAXFREQ in the daemon and in the kernel,
\* whatever direct_freq measures and loop_config and the kernel hand over;
\* the poll interval and the time constant stay within their limits.
THEOREM InRange == DisciplineSpec => []TypeOK
<1>1. DisciplineInv => TypeOK
  BY Fields DEF DisciplineInv, Good, Sound, Now, Settled, Clocks, TypeOK
<1> QED
  BY <1>1, Disciplined, PTL

\* Every correction reaches the system clock once: the frequency through one of
\* the loops of local_clock, the phase up to the residue of adj_systime.
THEOREM CorrectionsAppliedOnce == DisciplineSpec => []AppliedOnce
<1>1. ASSUME DisciplineInv PROVE AppliedOnce
  <2>1. d.drift \in Int /\ clock.freq \in Int
    BY <1>1, Fields, DisciplineAssumption DEF DisciplineInv, Good, Sound, Now, Freqs, Settled, Clocks
  <2>2. clock.freq = IF d.pll /\ d.kern THEN d.drift ELSE 0
    BY <1>1 DEF DisciplineInv, Good, Now
  <2>3. clock.owed = clock.residual /\ 2 * Mag(clock.residual) <= Quantum
    BY <1>1 DEF DisciplineInv, Good, Sound, Now, Settled
  <2> QED
    BY <2>1, <2>2, <2>3 DEF AppliedOnce, DaemonFreq
<1> QED
  BY <1>1, Disciplined, PTL

\* Once the clock was synchronized, local_clock steps it only when an earlier
\* outlier was passed over and the stepout threshold has gone by.
THEOREM OneSpikeNeverSteps == DisciplineSpec => SpikesSuppressed
<1>1. DisciplineInv /\ [DisciplineNext]_dvars
        => [seen.rc # "stepped" /\ seen'.rc = "stepped" /\ d.state \in {"SYNC", "SPIK"}
              => d.mu = clock_minstep /\ seen.outliers = 1]_dvars
  BY NextInv
<1> QED
  BY <1>1, Disciplined, PTL DEF DisciplineSpec, SpikesSuppressed

=============================================================================
