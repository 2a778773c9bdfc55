----------------------------- MODULE ClockFilter -----------------------------
(***************************************************************************)
(* clock_filter: the shift register of one association.  reg[1] is the     *)
(* newest stage.  A stage holds offset, delay, dispersion and its age; the *)
(* stages that peer_clear leaves, and the dummies of an unreachable        *)
(* association, have the maximum dispersion.  Dispersion grows by one each *)
(* time unit.  The dispersion of the association is kept times 2^Stages,   *)
(* its jitter as a sum of squares with the number of samples.              *)
(*                                                                         *)
(* transmit puts in a dummy just before it sends a packet, so the reply    *)
(* may come in the same time unit (current_time); one packet at a time is  *)
(* outstanding, so two replies, or a reply and a dummy after it, are apart.*)
(***************************************************************************)
EXTENDS Integers, Sequences, FiniteSets

CONSTANTS
  Stages,          \* NTP_SHIFT
  sys_maxdisp,     \* dispersion of a stage that holds nothing
  maxdist,         \* sys_maxdist, the selection threshold
  allan_age,       \* age from which the dispersion counts (Allan intercept)
  PopcornAge,      \* twice the host poll interval
  FilterSamples,   \* [offset, delay, disp] records of replies
  MaxGap           \* bound: time units between two calls
ASSUME FilterAssumption ==
  /\ Stages \in Nat \ {0} /\ MaxGap \in Nat \ {0} /\ PopcornAge \in Nat /\ sys_maxdisp \in Nat
  /\ \A s \in FilterSamples : s.disp \in Nat

CLOCK_SGATE == 3

VARIABLE flt
\* flt: reg, the offset, dispersion and jitter made from it, the age of the
\* last sample used (epoch), and as a history the number of calls that were
\* answered with an older sample since (old), whether that sample was good for
\* nothing (vain), and whether the last call put in a dummy (fresh).

\* Bound: no comparison tells ages apart beyond it.
AgeCap == Stages * MaxGap + PopcornAge
Empty == [offset |-> 0, delay |-> 0, disp |-> sys_maxdisp, age |-> AgeCap]
Least(a, b) == IF a < b THEN a ELSE b

\* peer_clear.
FilterCleared ==
  [reg |-> [i \in 1 .. Stages |-> Empty], offset |-> 0, disp |-> sys_maxdisp * 2^Stages, jitter |-> 0, m |-> 0,
   epoch |-> AgeCap, old |-> 0, vain |-> FALSE, fresh |-> FALSE, result |-> "cleared"]

\* The new arrival is shifted in; the others age by dt.
Shifted(reg, s, dt) ==
  [i \in 1 .. Stages |->
     IF i = 1 THEN [s EXCEPT !.age = 0]
     ELSE [reg[i - 1] EXCEPT !.disp = Least(sys_maxdisp, @ + dt), !.age = Least(AgeCap, @ + dt)]]

\* The distance of a stage.
Dst(e) == IF e.disp >= sys_maxdisp THEN sys_maxdisp
          ELSE IF e.age > allan_age THEN e.delay + e.disp ELSE e.delay

\* The exchange sort of the index vector by distance: inserting element i
\* carries along the first element it displaces.
Swap(reg, o, j, i) == IF Dst(reg[o[j]]) > Dst(reg[o[i]]) THEN [o EXCEPT ![j] = o[i], ![i] = o[j]] ELSE o
Inserted(reg, o, i) ==
  LET row[j \in 0 .. i - 1] == IF j = 0 THEN o ELSE Swap(reg, row[j - 1], j, i)
  IN  row[i - 1]
Sort(reg) ==
  LET pass[i \in 1 .. Stages] == IF i = 1 THEN [k \in 1 .. Stages |-> k] ELSE Inserted(reg, pass[i - 1], i)
  IN  pass[Stages]
Order(reg, stable) == IF stable THEN Sort(reg) ELSE [k \in 1 .. Stages |-> k]

\* The number of samples below the maximum dispersion; beyond two they must be
\* below the maximum distance.
Pruned(reg, ord) ==
  LET m[i \in 0 .. Stages] ==
        IF i = 0 THEN 0
        ELSE IF \/ Dst(reg[ord[i]]) >= sys_maxdisp
                \/ m[i - 1] >= 2 /\ Dst(reg[ord[i]]) >= maxdist
             THEN m[i - 1] ELSE m[i - 1] + 1
  IN  m[Stages]

\* The exponentially weighted dispersion, and the jitter.
Dispersion(reg, ord) ==
  LET sum[i \in 0 .. Stages] == IF i = 0 THEN 0 ELSE sum[i - 1] + reg[ord[i]].disp * 2^(Stages - i)
  IN  sum[Stages]
Jitter(reg, ord, m) ==
  LET sum[i \in 0 .. m] == IF i = 0 THEN 0
                           ELSE sum[i - 1] + (reg[ord[i]].offset - reg[ord[1]].offset)^2
  IN  sum[m]

\* Mutant: the sample must be later by more than one time unit.
Old_Lagging(f, e) == e.age + 1 >= f.epoch
\* The best sample is not later than the last one used.
Old(f, e) == e.age >= f.epoch

\* clock_filter: what becomes of the association, and what is done next:
\* "select" with or without a new sample, "popcorn" or "old".
clock_filter(f, s, dt, stable) ==
  LET reg  == Shifted(f.reg, s, dt)
      ord  == Order(reg, stable)
      m    == Pruned(reg, ord)
      best == reg[ord[1]]
      disp == Dispersion(reg, ord)
      jit  == Jitter(reg, ord, m)
      n    == IF m > 1 THEN m - 1 ELSE 1
      g    == [f EXCEPT !.reg = reg, !.disp = disp, !.epoch = Least(AgeCap, @ + dt)]
      h    == [g EXCEPT !.offset = best.offset, !.jitter = jit, !.m = m]
      spike == /\ disp < maxdist * 2^Stages /\ best.disp < maxdist
               /\ (best.offset - f.offset)^2 * n > CLOCK_SGATE^2 * jit
               /\ best.age <= g.epoch /\ g.epoch - best.age < PopcornAge  \* unsigned: an older sample is far
  IN  IF m = 0 THEN [g EXCEPT !.result = "empty"]
      ELSE IF spike THEN [h EXCEPT !.result = "popcorn"]
      ELSE IF Old(g, best) THEN [h EXCEPT !.result = "old", !.old = @ + 1]
      ELSE [h EXCEPT !.result = "used", !.epoch = best.age, !.old = 0,
                        !.vain = best.disp >= sys_maxdisp]

FilterInit == flt = FilterCleared
\* A reply, a dummy sample of transmit, or a clear.
FilterReply(s, dt, stable) ==
  /\ dt = 0 => flt.fresh
  /\ flt' = [clock_filter(flt, [offset |-> s.offset, delay |-> s.delay, disp |-> s.disp, age |-> 0], dt, stable)
             EXCEPT !.fresh = FALSE]
FilterDummy(dt, stable) ==
  flt' = [clock_filter(flt, [Empty EXCEPT !.age = 0], dt, stable) EXCEPT !.fresh = TRUE]
FilterClear == flt' = FilterCleared

FilterNext ==
  \/ \E s \in FilterSamples, dt \in 0 .. MaxGap, b \in BOOLEAN : FilterReply(s, dt, b)
  \/ \E dt \in 1 .. MaxGap, b \in BOOLEAN : FilterDummy(dt, b)
  \/ FilterClear
FilterSpec == FilterInit /\ [][FilterNext]_flt

-----------------------------------------------------------------------------
\* The comment of clock_filter: "the maximum interval between minimum samples
\* is eight packets", the number of stages (popcorn spikes apart).  It may be
\* one more when the last sample used was a dummy: while the clock has not
\* stabilised the newest stage is used, whatever it holds, and the reply of the
\* same second is then not later than it.
SampleInterval == flt.old < Stages \/ (flt.old = Stages /\ flt.vain)
=============================================================================
