--------------------------- MODULE SamplingProofs ---------------------------
(***************************************************************************)
(* How an association is sampled: the clock filter uses a sample at least  *)
(* once in a register of packets, and the packets are kept apart, for any  *)
(* number of stages, poll intervals, bursts and options.                   *)
(***************************************************************************)
EXTENDS ClockFilter, PollProcess, WellFoundedInduction, TLAPS

(***************************************************************************)
(* Induction over 0 .. n, and functions defined by recursion on it.        *)
(***************************************************************************)
LEMMA LeastNat ==
  ASSUME NEW T \in SUBSET Nat, NEW t \in T
  PROVE  \E x \in T : \A k \in T : x <= k
<1>1. PICK x \in T : \A k \in T : ~(<<k, x>> \in OpToRel(<, Nat))
  BY NatLessThanWellFounded, WFMin, Zenon
<1>2. \A k \in T : ~(k < x)
  BY <1>1, Zenon DEF OpToRel
<1> QED
  BY <1>2

\* What a sequence of values keeps from each to the next, it keeps.
LEMMA Kept ==
  ASSUME NEW a \in Nat, NEW n \in Nat, NEW X, NEW f, f[a] \in X,
         \A j \in a + 1 .. n : f[j - 1] \in X => f[j] \in X
  PROVE  \A j \in a .. n : f[j] \in X
<1> DEFINE T == {j \in a .. n : f[j] \notin X}
<1>1. T \in SUBSET Nat
  OBVIOUS
<1>2. SUFFICES ASSUME NEW t \in T PROVE FALSE
  OBVIOUS
<1>3. PICK x \in T : \A k \in T : x <= k
  <2> HIDE DEF T
  <2> QED
    BY <1>1, LeastNat
<1>4. x \in a + 1 .. n
  OBVIOUS
<1>5. x - 1 \in a .. n /\ ~(x <= x - 1)
  BY <1>4
<1> QED
  BY <1>3, <1>4, <1>5

\* A step function has the sequence of values that it gives.
Iterates(a, n, X, x0, F, f) ==
  f \in [a .. n -> X] /\ f[a] = x0 /\ \A j \in a + 1 .. n : f[j] = F[j][f[j - 1]]
LEMMA Iteration ==
  ASSUME NEW a \in Nat, NEW n \in Nat, a <= n, NEW X, NEW x0 \in X, NEW F \in [a + 1 .. n -> [X -> X]]
  PROVE  \E f : Iterates(a, n, X, x0, F, f)
<1> USE DEF Iterates
<1> DEFINE Upto(k, f) == Iterates(a, k, X, x0, F, f)
           T == {k \in a .. n : ~\E f : Upto(k, f)}
<1>1. T \in SUBSET Nat
  OBVIOUS
<1>2. SUFFICES ASSUME n \in T PROVE FALSE
  OBVIOUS
<1>3. PICK x \in T : \A k \in T : x <= k
  <2> HIDE DEF T
  <2> QED
    BY <1>1, <1>2, LeastNat
<1>4. x # a
  <2>1. Upto(a, [j \in a .. a |-> x0])
    OBVIOUS
  <2> QED
    BY <2>1
<1>5. x - 1 \in a .. n /\ ~(x <= x - 1) /\ x \in a + 1 .. n
  BY <1>4
<1>6. PICK g : Upto(x - 1, g)
  BY <1>3, <1>5
<1> DEFINE f == [j \in a .. x |-> IF j = x THEN F[x][g[x - 1]] ELSE g[j]]
<1>7. g[x - 1] \in X /\ F[x][g[x - 1]] \in X
  BY <1>5, <1>6
<1>8. f \in [a .. x -> X] /\ f[a] = x0
  BY <1>5, <1>6, <1>7
<1>9. \A j \in a + 1 .. x : f[j] = F[j][f[j - 1]]
  <2> TAKE j \in a + 1 .. x
  <2>1. j - 1 \in a .. x - 1 /\ f[j - 1] = g[j - 1]
    BY <1>5
  <2>2. CASE j = x
    <3>1. x \in a .. x /\ f[x] = F[x][g[x - 1]]
      BY <1>5
    <3> HIDE DEF f
    <3> QED
      BY <2>1, <2>2, <3>1
  <2>3. CASE j # x
    BY <1>5, <1>6, <2>1, <2>3
  <2> QED
    BY <2>2, <2>3
<1> QED
  BY <1>8, <1>9

-----------------------------------------------------------------------------
(***************************************************************************)
(* The clock filter.                                                       *)
(***************************************************************************)
Ords == [1 .. Stages -> 1 .. Stages]

LEMMA SwapOrds ==
  ASSUME NEW reg, NEW o \in Ords, NEW j \in 1 .. Stages, NEW i \in 1 .. Stages
  PROVE  Swap(reg, o, j, i) \in Ords
BY DEF Swap, Ords

LEMMA InsertedOrds ==
  ASSUME NEW reg, NEW o \in Ords, NEW i \in 2 .. Stages
  PROVE  Inserted(reg, o, i) \in Ords
<1> DEFINE row[j \in 0 .. i - 1] == IF j = 0 THEN o ELSE Swap(reg, row[j - 1], j, i)
           Body(f) == [j \in 0 .. i - 1 |-> IF j = 0 THEN o ELSE Swap(reg, f[j - 1], j, i)]
           F == [j \in 1 .. i - 1 |-> [q \in Ords |-> Swap(reg, q, j, i)]]
<1>1. 1 .. i - 1 \subseteq 1 .. Stages /\ i \in 1 .. Stages /\ i - 1 \in Nat /\ 0 \in Nat /\ 0 <= i - 1
  BY FilterAssumption
<1>2. F \in [0 + 1 .. i - 1 -> [Ords -> Ords]]
  <2>1. \A j \in 1 .. i - 1, q \in Ords : Swap(reg, q, j, i) \in Ords
    BY <1>1, SwapOrds
  <2> QED
    BY <2>1
<1>3. PICK f \in [0 .. i - 1 -> Ords] : f[0] = o /\ \A j \in 0 + 1 .. i - 1 : f[j] = F[j][f[j - 1]]
  <2>1. \E f : Iterates(0, i - 1, Ords, o, F, f)
    <3> HIDE DEF F
    <3> QED
      BY <1>1, <1>2, Iteration, Zenon
  <2> QED
    BY <2>1, Zenon DEF Iterates
<1>4. f = Body(f)
  <2>1. \A j \in 1 .. i - 1 : f[j] = Swap(reg, f[j - 1], j, i)
    <3> TAKE j \in 1 .. i - 1
    <3>1. f[j - 1] \in Ords
      BY <1>1
    <3>2. F[j][f[j - 1]] = Swap(reg, f[j - 1], j, i)
      BY <3>1
    <3> HIDE DEF F
    <3> QED
      BY <1>3, <3>2
  <2> QED
    BY <1>1, <1>3, <2>1
<1>5. row = Body(row)
  <2>1. row = CHOOSE g : g = Body(g)
    OBVIOUS
  <2> HIDE DEF Body, row
  <2> QED
    BY <1>4, <2>1, Zenon
<1>6. \A j \in 0 .. i - 1 : row[j] = IF j = 0 THEN o ELSE Swap(reg, row[j - 1], j, i)
  <2> HIDE DEF row
  <2> QED
    BY <1>5
<1>7. Inserted(reg, o, i) = row[i - 1]
  BY DEF Inserted
<1> HIDE DEF row
<1>8. \A j \in 0 + 1 .. i - 1 : row[j - 1] \in Ords => row[j] \in Ords
  <2> TAKE j \in 0 + 1 .. i - 1
  <2>1. j \in 1 .. Stages /\ row[j] = Swap(reg, row[j - 1], j, i)
    BY <1>1, <1>6
  <2> QED
    BY <1>1, <2>1, SwapOrds
<1>9. \A j \in 0 .. i - 1 : row[j] \in Ords
  <2>1. row[0] \in Ords
    BY <1>1, <1>6
  <2> QED
    BY <1>1, <1>8, <2>1, Kept
<1> QED
  BY <1>1, <1>7, <1>9

\* The exchange sort gives an index vector.
LEMMA SortOrds ==
  ASSUME NEW reg
  PROVE  Sort(reg) \in Ords
<1> DEFINE id == [k \in 1 .. Stages |-> k]
           pass[i \in 1 .. Stages] == IF i = 1 THEN id ELSE Inserted(reg, pass[i - 1], i)
           Body(f) == [i \in 1 .. Stages |-> IF i = 1 THEN id ELSE Inserted(reg, f[i - 1], i)]
           F == [i \in 2 .. Stages |-> [q \in Ords |-> Inserted(reg, q, i)]]
<1>1. Stages \in Nat /\ 1 \in Nat /\ 1 <= Stages /\ id \in Ords
  BY FilterAssumption DEF Ords
<1> HIDE DEF id
<1>2. F \in [1 + 1 .. Stages -> [Ords -> Ords]]
  <2>1. \A i \in 2 .. Stages, q \in Ords : Inserted(reg, q, i) \in Ords
    BY InsertedOrds
  <2> QED
    BY <2>1
<1>3. PICK f \in [1 .. Stages -> Ords] : f[1] = id /\ \A i \in 1 + 1 .. Stages : f[i] = F[i][f[i - 1]]
  <2>1. \E f : Iterates(1, Stages, Ords, id, F, f)
    <3> HIDE DEF F
    <3> QED
      BY <1>1, <1>2, Iteration, Zenon
  <2> QED
    BY <2>1, Zenon DEF Iterates
<1>4. f = Body(f)
  <2>1. \A i \in 2 .. Stages : f[i] = Inserted(reg, f[i - 1], i)
    <3> TAKE i \in 2 .. Stages
    <3>1. f[i - 1] \in Ords
      BY <1>1
    <3>2. F[i][f[i - 1]] = Inserted(reg, f[i - 1], i)
      BY <3>1
    <3> HIDE DEF F
    <3> QED
      BY <1>3, <3>2
  <2> QED
    BY <1>1, <1>3, <2>1
<1>5. pass = Body(pass)
  <2>1. pass = CHOOSE g : g = Body(g)
    OBVIOUS
  <2> HIDE DEF Body, pass
  <2> QED
    BY <1>4, <2>1, Zenon
<1>6. \A i \in 1 .. Stages : pass[i] = IF i = 1 THEN id ELSE Inserted(reg, pass[i - 1], i)
  <2> HIDE DEF pass
  <2> QED
    BY <1>5
<1>7. Sort(reg) = pass[Stages]
  BY DEF Sort, id
<1> HIDE DEF pass
<1>8. \A i \in 1 + 1 .. Stages : pass[i - 1] \in Ords => pass[i] \in Ords
  <2> TAKE i \in 1 + 1 .. Stages
  <2>1. i \in 2 .. Stages /\ pass[i] = Inserted(reg, pass[i - 1], i)
    BY <1>1, <1>6
  <2> QED
    BY <2>1, InsertedOrds
<1>9. \A i \in 1 .. Stages : pass[i] \in Ords
  <2>1. pass[1] \in Ords
    BY <1>1, <1>6
  <2> QED
    BY <1>1, <1>8, <2>1, Kept
<1> QED
  BY <1>1, <1>7, <1>9

LEMMA OrderOrds ==
  ASSUME NEW reg, NEW stable \in BOOLEAN
  PROVE  Order(reg, stable) \in Ords
<1>1. [k \in 1 .. Stages |-> k] \in Ords
  BY DEF Ords
<1> QED
  BY <1>1, SortOrds DEF Order

\* What the argument needs of the shape of a filter.
Ages == 0 .. AgeCap
Stage(V) == [offset : V, delay : V, disp : V, age : V]
Filters(V) ==
  [reg : V, offset : V, disp : V, jitter : V, m : V, epoch : V, old : V, vain : V, fresh : V, result : V]
IsStage(e) == (\E V : e \in Stage(V)) /\ e.age \in Ages /\ e.disp \in Nat
IsFilter(f) ==
  /\ \E V : f \in Filters(V)
  /\ \A i \in 1 .. Stages : IsStage(f.reg[i])
  /\ f.epoch \in Ages /\ f.old \in Nat /\ f.vain \in BOOLEAN /\ f.fresh \in BOOLEAN

\* The inductive invariant.  The newest flt.old stages came after the last
\* sample used, so its age exceeds theirs; only the first of them may have come
\* in the same second, and then the last sample used was a dummy.  Their ages
\* are below the bound, where comparisons are exact.
LaterThanUsed(f) ==
  \A i \in 1 .. Stages :
    i <= f.old => /\ f.reg[i].age <= (i - 1) * MaxGap
                  /\ f.reg[i].age < f.epoch \/ (i = f.old /\ f.vain /\ f.reg[i].age = f.epoch)
FilterInv ==
  /\ IsFilter(flt)
  /\ LaterThanUsed(flt)
  /\ SampleInterval
  /\ flt.epoch = 0 /\ flt.fresh => flt.old = 0 /\ flt.vain

\* Ages at successive stages, and at all of them.
LEMMA Gaps ==
  ASSUME NEW i \in 2 .. Stages
  PROVE  /\ (i - 2) * MaxGap \in Nat /\ (i - 1) * MaxGap \in Nat
         /\ (i - 1) * MaxGap = (i - 2) * MaxGap + MaxGap
         /\ (i - 1) * MaxGap < AgeCap /\ AgeCap \in Nat
<1>1. i \in Nat /\ Stages \in Nat /\ MaxGap \in Nat \ {0} /\ PopcornAge \in Nat /\ i - 1 \in Nat /\ i - 2 \in Nat
  BY FilterAssumption
<1>2. (i - 1) * MaxGap = (i - 2) * MaxGap + MaxGap
  BY <1>1
<1>3. Stages * MaxGap = (i - 1) * MaxGap + (Stages - i) * MaxGap + MaxGap
  BY <1>1
<1>4. \A a, b \in Nat : a * b \in Nat
  OBVIOUS
<1>5. (i - 2) * MaxGap \in Nat /\ (i - 1) * MaxGap \in Nat /\ (Stages - i) * MaxGap \in Nat
  BY <1>1, <1>4
<1> HIDE DEF AgeCap
<1> QED
  BY <1>1, <1>2, <1>3, <1>5 DEF AgeCap

LEMMA Caps == AgeCap \in Nat /\ 0 \in Ages
<1>1. \A a, b \in Nat : a * b \in Nat
  OBVIOUS
<1> QED
  BY <1>1, FilterAssumption DEF AgeCap, Ages

\* The register after a call: stage i + 1 is what stage i was, dt older.
LEMMA ShiftedStages ==
  ASSUME NEW f, IsFilter(f), NEW dt \in 0 .. MaxGap, NEW s, IsStage(s)
  PROVE  \A i \in 1 .. Stages :
           LET e == Shifted(f.reg, s, dt)[i]
           IN  /\ IsStage(e)
               /\ i = 1 => e.age = 0 /\ e.disp = s.disp
               /\ i # 1 => e.age = Least(AgeCap, f.reg[i - 1].age + dt)
<1> TAKE i \in 1 .. Stages
<1>1. dt \in Nat /\ AgeCap \in Nat
  BY Caps, FilterAssumption
<1>2. CASE i = 1
  <2> DEFINE e == [s EXCEPT !.age = 0]
  <2>1. Shifted(f.reg, s, dt)[i] = e
    BY <1>2 DEF Shifted
  <2>2. PICK V : s \in Stage(V)
    BY DEF IsStage
  <2>3. s \in Stage(V \cup {0})
    BY <2>2 DEF Stage
  <2>4. e \in Stage(V \cup {0}) /\ e.age = 0 /\ e.disp = s.disp
    BY <2>3 DEF Stage
  <2> HIDE DEF e
  <2>5. IsStage(e)
    BY <2>4, Caps DEF IsStage
  <2> QED
    BY <1>2, <2>1, <2>4, <2>5
<1>3. CASE i # 1
  <2> DEFINE c == f.reg[i - 1]
             x == Least(sys_maxdisp, c.disp + dt)
             y == Least(AgeCap, c.age + dt)
             e == Shifted(f.reg, s, dt)[i]
  <2>1. e = [c EXCEPT !.disp = x, !.age = y]
    BY <1>3 DEF Shifted
  <2>2. i - 1 \in 1 .. Stages
    BY <1>3, FilterAssumption
  <2>3. IsStage(c)
    BY <2>2 DEF IsFilter
  <2>4. y \in Ages /\ x \in Nat
    BY <1>1, <2>3, FilterAssumption DEF Least, Ages, IsStage
  <2> HIDE DEF c, x, y, e
  <2>5. IsStage(e) /\ e.age = y
    <3>1. PICK V : c \in Stage(V)
      BY <2>3 DEF IsStage
    <3>2. c \in Stage(V \cup {x, y})
      BY <3>1 DEF Stage
    <3>3. e \in Stage(V \cup {x, y}) /\ e.age = y /\ e.disp = x
      BY <2>1, <3>2 DEF Stage
    <3> QED
      BY <2>4, <3>3 DEF IsStage
  <2> QED
    BY <1>3, <2>5 DEF c, y, e
<1> QED
  BY <1>2, <1>3

\* What a call does to the fields that the invariant speaks of.
Outcome(f, reg, best, ep, b, n) ==
  /\ \E V : n \in Filters(V)
  /\ n.reg = reg /\ n.fresh = b
  /\ \/ n.epoch = ep /\ n.old = f.old /\ n.vain = f.vain
     \/ n.epoch = ep /\ n.old = f.old + 1 /\ n.vain = f.vain /\ best.age >= ep
     \/ n.epoch = best.age /\ n.old = 0 /\ n.vain = (best.disp >= sys_maxdisp) /\ ~(best.age >= ep)
LEMMA Called ==
  ASSUME NEW f, IsFilter(f), NEW s, NEW dt, NEW stable, NEW b,
         NEW n, n = [clock_filter(f, s, dt, stable) EXCEPT !.fresh = b]
  PROVE  LET reg == Shifted(f.reg, s, dt)
         IN  Outcome(f, reg, reg[Order(reg, stable)[1]], Least(AgeCap, f.epoch + dt), b, n)
<1> DEFINE reg  == Shifted(f.reg, s, dt)
           ord  == Order(reg, stable)
           m    == Pruned(reg, ord)
           best == reg[ord[1]]
           disp == Dispersion(reg, ord)
           jit  == Jitter(reg, ord, m)
           ep   == Least(AgeCap, f.epoch + dt)
           g    == [f EXCEPT !.reg = reg, !.disp = disp, !.epoch = ep]
           h    == [g EXCEPT !.offset = best.offset, !.jitter = jit, !.m = m]
           c    == clock_filter(f, s, dt, stable)
           vain == best.disp >= sys_maxdisp
<1>1. \/ c = [g EXCEPT !.result = "empty"]
      \/ c = [h EXCEPT !.result = "popcorn"]
      \/ c = [h EXCEPT !.result = "old", !.old = @ + 1] /\ Old(g, best)
      \/ c = [h EXCEPT !.result = "used", !.epoch = best.age, !.old = 0, !.vain = vain] /\ ~Old(g, best)
  BY Zenon DEF clock_filter
<1>2. PICK V : f \in Filters(V)
  BY DEF IsFilter
<1> DEFINE W == V \cup {reg, disp, ep, best.offset, jit, m, f.old + 1, best.age, 0, vain, b,
                        "empty", "popcorn", "old", "used"}
<1>3. /\ reg \in W /\ disp \in W /\ ep \in W /\ best.offset \in W /\ jit \in W /\ m \in W /\ f.old + 1 \in W
      /\ best.age \in W /\ 0 \in W /\ vain \in W /\ b \in W /\ V \subseteq W
      /\ "empty" \in W /\ "popcorn" \in W /\ "old" \in W /\ "used" \in W
  OBVIOUS
<1> HIDE DEF reg, ord, m, best, disp, jit, ep, c, vain, W
<1>4. f \in Filters(W)
  BY <1>2, <1>3 DEF Filters
<1>5. g \in Filters(W) /\ g.reg = reg /\ g.epoch = ep /\ g.old = f.old /\ g.vain = f.vain
  BY <1>3, <1>4 DEF Filters
<1> HIDE DEF g
<1>6. h \in Filters(W) /\ h.reg = reg /\ h.epoch = ep /\ h.old = f.old /\ h.vain = f.vain
  BY <1>3, <1>5 DEF Filters
<1> HIDE DEF h
<1>7. Old(g, best) <=> best.age >= ep
  BY <1>5 DEF Old
<1> DEFINE Q(x) == \/ x.epoch = ep /\ x.old = f.old /\ x.vain = f.vain
                   \/ x.epoch = ep /\ x.old = f.old + 1 /\ x.vain = f.vain /\ best.age >= ep
                   \/ x.epoch = best.age /\ x.old = 0 /\ x.vain = vain /\ ~(best.age >= ep)
           R(x) == x \in Filters(W) /\ x.reg = reg /\ Q(x)
<1>8. R(c)
  <2>1. CASE c = [g EXCEPT !.result = "empty"]
    <3>1. c \in Filters(W) /\ c.reg = reg /\ c.epoch = ep /\ c.old = f.old /\ c.vain = f.vain
      BY <1>3, <1>5, <2>1 DEF Filters
    <3> QED
      BY <3>1
  <2>2. CASE c = [h EXCEPT !.result = "popcorn"]
    <3>1. c \in Filters(W) /\ c.reg = reg /\ c.epoch = ep /\ c.old = f.old /\ c.vain = f.vain
      BY <1>3, <1>6, <2>2 DEF Filters
    <3> QED
      BY <3>1
  <2>3. CASE c = [h EXCEPT !.result = "old", !.old = @ + 1] /\ Old(g, best)
    <3>1. c = [h EXCEPT !.result = "old", !.old = f.old + 1]
      BY <1>6, <2>3
    <3>2. c \in Filters(W) /\ c.reg = reg /\ c.epoch = ep /\ c.old = f.old + 1 /\ c.vain = f.vain
      BY <1>3, <1>6, <3>1 DEF Filters
    <3> QED
      BY <1>7, <2>3, <3>2
  <2>4. CASE c = [h EXCEPT !.result = "used", !.epoch = best.age, !.old = 0, !.vain = vain] /\ ~Old(g, best)
    <3>1. ASSUME NEW u \in W, NEW z \in W, NEW a \in W, NEW v \in W,
                 c = [h EXCEPT !.result = u, !.epoch = a, !.old = z, !.vain = v]
          PROVE  c \in Filters(W) /\ c.reg = reg /\ c.epoch = a /\ c.old = z /\ c.vain = v
      BY <1>6, <3>1 DEF Filters
    <3>2. c \in Filters(W) /\ c.reg = reg /\ c.epoch = best.age /\ c.old = 0 /\ c.vain = vain
      BY <1>3, <2>4, <3>1, Zenon
    <3> QED
      BY <1>7, <2>4, <3>2
  <2> QED
    BY <1>1, <2>1, <2>2, <2>3, <2>4, Zenon
<1>9. n = [c EXCEPT !.fresh = b]
  BY DEF c
<1> HIDE DEF Q
<1>10. n \in Filters(W) /\ n.reg = reg /\ n.fresh = b /\ n.epoch = c.epoch /\ n.old = c.old /\ n.vain = c.vain
  BY <1>3, <1>8, <1>9 DEF Filters
<1>11. Outcome(f, reg, best, ep, b, n)
  BY <1>8, <1>10, Zenon DEF Outcome, Q, vain
<1> QED
  BY <1>11 DEF reg, ord, best, ep

\* A call keeps the invariant: it shifts the stages that came after the last
\* sample used, and a call that finds no later sample found one of those.
LEMMA CallKeepsInv ==
  ASSUME FilterInv, NEW s, IsStage(s), NEW dt \in 0 .. MaxGap, NEW stable \in BOOLEAN, NEW b \in BOOLEAN,
         dt = 0 => flt.fresh /\ b = FALSE, b = TRUE => s.disp >= sys_maxdisp,
         flt' = [clock_filter(flt, s, dt, stable) EXCEPT !.fresh = b]
  PROVE  FilterInv'
<1> DEFINE f    == flt
           n    == flt'
           reg  == Shifted(f.reg, s, dt)
           k    == Order(reg, stable)[1]
           best == reg[k]
           ep   == Least(AgeCap, f.epoch + dt)
<1>1. IsFilter(f) /\ LaterThanUsed(f) /\ (f.epoch = 0 /\ f.fresh => f.old = 0 /\ f.vain)
      /\ (f.old < Stages \/ (f.old = Stages /\ f.vain))
  BY DEF FilterInv, SampleInterval
<1>2. Outcome(f, reg, best, ep, b, n)
  BY <1>1, Called, Zenon
<1>3. k \in 1 .. Stages
  <2>1. Order(reg, stable) \in Ords
    BY OrderOrds
  <2> HIDE DEF reg
  <2> QED
    BY <2>1, FilterAssumption DEF Ords
<1>4. \A i \in 1 .. Stages : /\ IsStage(reg[i])
                             /\ i = 1 => reg[i].age = 0 /\ reg[i].disp = s.disp
                             /\ i # 1 => reg[i].age = Least(AgeCap, f.reg[i - 1].age + dt)
  <2> HIDE DEF f
  <2> QED
    BY <1>1, ShiftedStages DEF reg
<1>5. /\ \A i \in 1 .. Stages : f.reg[i].age \in 0 .. AgeCap /\ reg[i].age \in 0 .. AgeCap
      /\ f.epoch \in 0 .. AgeCap /\ f.old \in Nat /\ f.vain \in BOOLEAN /\ f.fresh \in BOOLEAN
  BY <1>1, <1>4 DEF IsFilter, IsStage, Ages
<1>6. AgeCap \in Nat /\ dt \in Nat /\ dt <= MaxGap /\ MaxGap \in Nat /\ Stages \in Nat /\ 1 \in 1 .. Stages
  BY Caps, FilterAssumption
<1> HIDE DEF f, n, reg, k, best
<1>7. ep \in 0 .. AgeCap /\ (ep = 0 => (f.epoch = 0 /\ dt = 0) \/ AgeCap = 0)
  BY <1>5, <1>6 DEF Least
<1>8. AgeCap > 0
  BY FilterAssumption DEF AgeCap
<1>9. ASSUME NEW i \in 1 .. Stages, i <= f.old + 1
      PROVE  /\ reg[i].age <= (i - 1) * MaxGap
             /\ reg[i].age < ep \/ (i = f.old + 1 /\ f.vain /\ reg[i].age = ep)
  <2>1. CASE i = 1
    <3>1. reg[i].age = 0 /\ 0 <= (i - 1) * MaxGap
      BY <1>4, <1>6, <2>1
    <3>2. CASE ep = 0
      BY <1>1, <1>7, <1>8, <2>1, <3>1, <3>2 DEF f
    <3>3. CASE ep # 0
      BY <1>7, <3>1, <3>3
    <3> QED
      BY <3>2, <3>3
  <2>2. CASE i # 1
    <3> DEFINE j == i - 1
    <3>1. j \in 1 .. Stages /\ j <= f.old /\ i \in 2 .. Stages
      BY <1>5, <1>6, <1>9, <2>2
    <3>2. /\ f.reg[j].age <= (j - 1) * MaxGap
          /\ f.reg[j].age < f.epoch \/ (j = f.old /\ f.vain /\ f.reg[j].age = f.epoch)
      BY <1>1, <3>1 DEF LaterThanUsed
    <3>3. reg[i].age = Least(AgeCap, f.reg[j].age + dt) /\ f.reg[j].age \in Nat
      BY <1>4, <1>5, <2>2, <3>1
    <3>4. /\ (i - 2) * MaxGap \in Nat /\ (i - 1) * MaxGap \in Nat
          /\ (i - 1) * MaxGap = (i - 2) * MaxGap + MaxGap /\ (i - 1) * MaxGap < AgeCap
      BY <3>1, Gaps
    <3>5. j - 1 = i - 2 /\ (j = f.old <=> i = f.old + 1)
      BY <1>5, <3>1
    <3> DEFINE x == (i - 1) * MaxGap
               y == (i - 2) * MaxGap
    <3>6. f.reg[j].age <= y /\ x \in Nat /\ y \in Nat /\ x = y + MaxGap /\ x < AgeCap
      BY <3>2, <3>4, <3>5
    <3> HIDE DEF x, y, j
    <3>7. f.reg[j].age + dt <= x /\ reg[i].age = f.reg[j].age + dt
      BY <1>6, <3>3, <3>6 DEF Least
    <3>8. reg[i].age < ep \/ (i = f.old + 1 /\ f.vain /\ reg[i].age = ep)
      BY <1>5, <1>6, <3>2, <3>3, <3>5, <3>6, <3>7 DEF Least
    <3> QED
      BY <3>7, <3>8 DEF x
  <2> QED
    BY <2>1, <2>2
<1> HIDE DEF ep
<1>10. n.reg = reg /\ n.fresh = b /\ \E V : n \in Filters(V)
  BY <1>2 DEF Outcome
<1>11. ASSUME n.epoch \in 0 .. AgeCap, n.old \in Nat, n.vain \in BOOLEAN
       PROVE  IsFilter(n)
  BY <1>4, <1>10, <1>11 DEF IsFilter, Ages
<1>12. SUFFICES /\ n.epoch \in 0 .. AgeCap /\ n.old \in Nat /\ n.vain \in BOOLEAN
                /\ LaterThanUsed(n)
                /\ n.old < Stages \/ (n.old = Stages /\ n.vain)
                /\ n.epoch = 0 /\ b => n.old = 0 /\ n.vain
  BY <1>10, <1>11 DEF FilterInv, SampleInterval, n
<1>13. b => ep # 0
  BY <1>7, <1>8
<1>14. CASE n.epoch = ep /\ n.old = f.old /\ n.vain = f.vain
  <2>1. LaterThanUsed(n)
    <3> SUFFICES ASSUME NEW i \in 1 .. Stages, i <= f.old
                 PROVE  /\ reg[i].age <= (i - 1) * MaxGap
                        /\ reg[i].age < ep \/ (i = f.old /\ f.vain /\ reg[i].age = ep)
      BY <1>10, <1>14 DEF LaterThanUsed
    <3>1. i <= f.old + 1 /\ i # f.old + 1
      BY <1>5
    <3> QED
      BY <1>9, <3>1
  <2> QED
    BY <1>1, <1>5, <1>7, <1>13, <1>14, <2>1
<1>15. CASE n.epoch = ep /\ n.old = f.old + 1 /\ n.vain = f.vain /\ best.age >= ep
  <2>1. LaterThanUsed(n)
    BY <1>9, <1>10, <1>15 DEF LaterThanUsed
  <2>2. reg[k].age \in Int /\ ep \in Int /\ reg[k].age >= ep
    BY <1>3, <1>5, <1>7, <1>15 DEF best
  <2>3. k <= f.old + 1 => k = f.old + 1 /\ f.vain
    BY <1>3, <1>9, <2>2
  <2>4. n.old < Stages \/ (n.old = Stages /\ n.vain)
    BY <1>3, <1>5, <1>6, <1>15, <2>3
  <2> QED
    BY <1>5, <1>7, <1>13, <1>15, <2>1, <2>4
<1>16. CASE n.epoch = best.age /\ n.old = 0 /\ n.vain = (best.disp >= sys_maxdisp) /\ ~(best.age >= ep)
  <2>1. best.age \in 0 .. AgeCap
    BY <1>3, <1>5 DEF best
  <2>2. LaterThanUsed(n)
    BY <1>6, <1>16 DEF LaterThanUsed
  <2>3. ASSUME best.age = 0, b
        PROVE  best.disp >= sys_maxdisp
    <3>1. CASE k = 1
      BY <1>4, <1>6, <2>3, <3>1 DEF best
    <3>2. CASE k # 1
      <4>1. k - 1 \in 1 .. Stages /\ best.age = Least(AgeCap, f.reg[k - 1].age + dt)
        BY <1>3, <1>4, <1>6, <3>2 DEF best
      <4>2. f.reg[k - 1].age \in Nat /\ dt >= 1
        BY <1>5, <1>6, <2>3, <4>1
      <4> QED
        BY <1>6, <1>8, <2>3, <4>1, <4>2 DEF Least
    <3> QED
      BY <3>1, <3>2
  <2>4. n.vain \in BOOLEAN /\ (n.epoch = 0 /\ b => n.vain)
    <3>1. best.disp \in Nat /\ sys_maxdisp \in Nat
      BY <1>3, <1>4, FilterAssumption DEF best, IsStage
    <3> QED
      BY <1>16, <2>3, <3>1
  <2> QED
    BY <1>6, <1>16, <2>1, <2>2, <2>4
<1> QED
  BY <1>2, <1>14, <1>15, <1>16, Zenon DEF Outcome

\* A cleared filter satisfies the invariant.
LEMMA ClearedInv == FilterInit => FilterInv
<1> SUFFICES ASSUME flt = FilterCleared PROVE FilterInv
  BY DEF FilterInit
<1> DEFINE V == {flt.reg, 0, FALSE, sys_maxdisp * 2^Stages, AgeCap, "cleared"}
           W == {0, sys_maxdisp, AgeCap}
<1>1. flt \in Filters(V) /\ flt.epoch = AgeCap /\ flt.old = 0 /\ flt.vain = FALSE /\ flt.fresh = FALSE
  BY DEF FilterCleared, Filters
<1>2. \A i \in 1 .. Stages : flt.reg[i] = Empty
  BY DEF FilterCleared
<1>3. Empty \in Stage(W) /\ Empty.age = AgeCap /\ Empty.disp \in Nat
  BY FilterAssumption DEF Empty, Stage
<1>4. AgeCap \in Ages /\ AgeCap # 0 /\ Stages \in Nat \ {0}
  <2>1. AgeCap > 0
    BY FilterAssumption DEF AgeCap
  <2> QED
    BY <2>1, Caps, FilterAssumption DEF Ages
<1>5. IsStage(Empty)
  BY <1>3, <1>4, Zenon DEF IsStage
<1>6. \E U : flt \in Filters(U)
  BY <1>1
<1>7. IsFilter(flt)
  <2>1. flt.epoch \in Ages /\ flt.old \in Nat /\ flt.vain \in BOOLEAN /\ flt.fresh \in BOOLEAN
    <3>1. flt.epoch = AgeCap /\ flt.old = 0 /\ flt.vain = FALSE /\ flt.fresh = FALSE /\ 0 \in Nat
      BY <1>1
    <3> QED
      BY <1>4, <3>1, Zenon
  <2> QED
    BY <1>2, <1>5, <1>6, <2>1, Zenon DEF IsFilter
<1> QED
  BY <1>1, <1>4, <1>7 DEF FilterInv, LaterThanUsed, SampleInterval

THEOREM FilterInvariant == FilterSpec => []FilterInv
<1>1. FilterInit => FilterInv
  BY ClearedInv
<1>2. FilterInv /\ [FilterNext]_flt => FilterInv'
  <2> SUFFICES ASSUME FilterInv, [FilterNext]_flt PROVE FilterInv'
    OBVIOUS
  <2>1. ASSUME NEW s \in FilterSamples, NEW dt \in 0 .. MaxGap, NEW b \in BOOLEAN, FilterReply(s, dt, b)
        PROVE  FilterInv'
    <3> DEFINE e == [offset |-> s.offset, delay |-> s.delay, disp |-> s.disp, age |-> 0]
    <3>1. IsStage(e)
      <4>1. e \in Stage({s.offset, s.delay, s.disp, 0}) /\ e.age = 0 /\ e.disp \in Nat
        BY FilterAssumption DEF Stage
      <4> HIDE DEF e
      <4> QED
        BY <4>1, Caps DEF IsStage
    <3>2. (dt = 0 => flt.fresh) /\ flt' = [clock_filter(flt, e, dt, b) EXCEPT !.fresh = FALSE]
      BY <2>1 DEF FilterReply
    <3> HIDE DEF e
    <3> QED
      BY <3>1, <3>2, CallKeepsInv, Zenon
  <2>2. ASSUME NEW dt \in 1 .. MaxGap, NEW b \in BOOLEAN, FilterDummy(dt, b)
        PROVE  FilterInv'
    <3> DEFINE e == [Empty EXCEPT !.age = 0]
    <3>1. IsStage(e) /\ e.disp = sys_maxdisp
      <4>1. e \in Stage({sys_maxdisp, 0}) /\ e.age = 0 /\ e.disp = sys_maxdisp
        BY DEF Empty, Stage
      <4> HIDE DEF e
      <4> QED
        BY <4>1, Caps, FilterAssumption DEF IsStage
    <3>2. flt' = [clock_filter(flt, e, dt, b) EXCEPT !.fresh = TRUE] /\ dt # 0 /\ dt \in 0 .. MaxGap
      BY <2>2 DEF FilterDummy
    <3>3. e.disp >= sys_maxdisp
      BY <3>1, FilterAssumption
    <3> HIDE DEF e
    <3>4. PICK t \in BOOLEAN : t /\ flt' = [clock_filter(flt, e, dt, b) EXCEPT !.fresh = t]
      BY <3>2, Zenon
    <3>5. IsStage(e) /\ dt \in 0 .. MaxGap /\ (dt = 0 => flt.fresh /\ t = FALSE) /\ (t = TRUE => e.disp >= sys_maxdisp)
      BY <3>1, <3>2, <3>3, Zenon
    <3> QED
      BY <3>4, <3>5, CallKeepsInv, Zenon
  <2>3. CASE FilterClear
    <3>1. FilterInit'
      BY <2>3 DEF FilterClear, FilterInit
    <3> QED
      BY <3>1, ClearedInv, PTL
  <2>4. CASE UNCHANGED flt
    BY <2>4 DEF FilterInv, SampleInterval
  <2> QED
    BY <2>1, <2>2, <2>3, <2>4 DEF FilterNext
<1> QED
  BY <1>1, <1>2, PTL DEF FilterSpec

\* Between two samples that clock_filter uses there are not more packets than
\* the register has stages, one more after a dummy, whatever the delays,
\* offsets, gaps and losses, and with any number of stages.
THEOREM SampleOncePerRegister == FilterSpec => []SampleInterval
<1>1. FilterInv => SampleInterval
  BY DEF FilterInv
<1> QED
  BY <1>1, FilterInvariant, PTL

-----------------------------------------------------------------------------
(***************************************************************************)
(* The polls of an association.                                            *)
(***************************************************************************)
Values == Int \cup BOOLEAN \cup Options
Assocs ==
  [opt : Values, minpoll : Values, hpoll : Values, burst : Values, retry : Values, reach : Values, unreach : Values,
   throttle : Values, outcount : Values, wait : Values, since : Values, gap : Values, lookup : Values,
   probing : Values, count : Values, steps : Values, stepped : Values]
PollTyped(q) ==
  /\ q \in Assocs
  /\ q.opt \in Options /\ q.minpoll \in {MinPoll, KodMax} /\ q.hpoll \in 0 .. PollTop
  /\ q.burst \in Nat /\ q.retry \in Nat /\ q.reach \in Nat /\ q.unreach \in Nat /\ q.steps \in Nat
  /\ q.wait \in Nat /\ q.since \in Nat /\ q.gap \in Nat /\ q.throttle \in Int /\ q.count \in Int
  /\ q.lookup \in BOOLEAN /\ q.probing \in BOOLEAN /\ q.outcount \in BOOLEAN /\ q.stepped \in BOOLEAN

Headway(q) == (NTP_SHIFT - 1) * 2^q.minpoll
Interval(q) == Smaller(2^q.minpoll, Longest)

\* A lookup is for a server with a name; a clock step ends bursts, and with
\* them the wait for a reply.
Modes(q) ==
  /\ q.probing => q.lookup
  /\ q.lookup => q.opt.lookup
  /\ q.stepped => q.burst = 0 /\ ~q.outcount /\ q.reach % 2 = 0
\* By the time of the next packet the guard time and the headway will be kept;
\* they are kept already when a lookup is under way, as its end sends a packet.
Guarded(q) ==
  /\ q.gap + q.wait >= NTP_MINPKT
  /\ q.throttle - q.wait <= Headway(q)
Probed(q) == q.probing => q.gap >= NTP_MINPKT /\ q.throttle <= Headway(q)
\* Out of a burst the next poll comes an interval after the last; a server that
\* has not answered the last poll is not sent a burst.
Paced(q) == q.burst = 0 => q.wait + q.since >= Interval(q) \/ q.gap >= Longest
Answered(q) == q.reach % 2 = 0 => q.burst = 0 /\ q.since <= q.gap

\* The inductive invariant.
Scheduled(q) ==
  /\ PollTyped(q) /\ Modes(q)
  /\ ~q.lookup => q.hpoll >= q.minpoll
  /\ ~q.stepped => Guarded(q) /\ Probed(q) /\ (~q.opt.lookup => Paced(q))
AnsweredByAddress(q) == ~q.stepped /\ ~q.opt.lookup => Answered(q)
PollInv == Scheduled(p) /\ AnsweredByAddress(p)

\* The associations that differ at most in the time and interval of the next poll.
SamePolls(n, q) ==
  /\ n.opt = q.opt /\ n.minpoll = q.minpoll /\ n.burst = q.burst /\ n.retry = q.retry /\ n.reach = q.reach
  /\ n.unreach = q.unreach /\ n.throttle = q.throttle /\ n.outcount = q.outcount /\ n.since = q.since
  /\ n.gap = q.gap /\ n.lookup = q.lookup /\ n.probing = q.probing /\ n.count = q.count
  /\ n.steps = q.steps /\ n.stepped = q.stepped

LEMMA HeadwayNat ==
  ASSUME NEW q, q.minpoll \in {MinPoll, KodMax}
  PROVE  /\ q.minpoll \in 0 .. PollTop /\ 2^q.minpoll \in Nat \ {0}
         /\ Headway(q) \in Nat /\ NTP_SHIFT * 2^q.minpoll = Headway(q) + 2^q.minpoll
         /\ Interval(q) \in Nat /\ Interval(q) <= Longest /\ Interval(q) <= 2^q.minpoll
<1>1. q.minpoll \in 0 .. PollTop
  BY PollAssumption DEF PollTop
<1> DEFINE w == 2^q.minpoll
<1>2. w \in Nat \ {0}
  BY <1>1, PollPowers
<1> HIDE DEF w
<1>3. NTP_SHIFT - 1 \in Nat /\ NTP_SHIFT \in Nat /\ Longest \in Nat
  BY PollAssumption
<1>4. (NTP_SHIFT - 1) * w \in Nat /\ NTP_SHIFT * w = (NTP_SHIFT - 1) * w + w
  BY <1>2, <1>3
<1>5. Smaller(w, Longest) \in Nat /\ Smaller(w, Longest) <= Longest /\ Smaller(w, Longest) <= w
  BY <1>2, <1>3 DEF Smaller
<1> QED
  BY <1>1, <1>2, <1>4, <1>5 DEF Headway, Interval, w

\* poll_update: the interval is in range, and out of a burst, or when the last
\* time has passed, the next time keeps guard time, headway and interval.
LEMMA PollUpdated ==
  ASSUME NEW q, PollTyped(q), NEW mpoll \in Nat, NEW r \in Nat, NEW n, n = poll_update(q, mpoll, r)
  PROVE  /\ n \in Assocs /\ SamePolls(n, q)
         /\ n.hpoll \in 0 .. PollTop /\ n.hpoll >= n.minpoll
         /\ n.wait \in Nat
         /\ \/ q.burst # 0 /\ q.wait > 0 /\ n.wait = q.wait
            \/ n.wait >= NTP_MINPKT /\ n.wait >= q.throttle - Headway(q)
         /\ q.burst = 0 => n.wait + q.since >= 2^q.minpoll
<1> DEFINE hpoll == Larger(Smaller(MaxPoll, mpoll), q.minpoll)
           utemp == Larger(q.throttle - (NTP_SHIFT - 1) * 2^q.minpoll, NTP_MINPKT)
           h     == IF q.retry > 0 THEN q.minpoll ELSE hpoll
           add   == (r * 2^h) \div 4096
           next  == 2^h + add - q.since
           extra == IF q.throttle > 2^q.minpoll THEN NTP_MINPKT ELSE 0
           wait  == IF q.burst = 0 THEN Larger(next, utemp) + extra
                    ELSE IF q.wait > 0 THEN q.wait ELSE utemp
<1>1. n = [q EXCEPT !.hpoll = hpoll, !.wait = wait]
  BY Zenon DEF poll_update
<1>2. /\ q.minpoll \in 0 .. PollTop /\ 2^q.minpoll \in Nat \ {0} /\ Headway(q) \in Nat
      /\ NTP_MINPKT \in Nat /\ MaxPoll \in Nat /\ PollTop \in Nat /\ MaxPoll <= PollTop
  BY HeadwayNat, PollAssumption DEF PollTyped, PollTop
<1>3. /\ q.burst \in Nat /\ q.retry \in Nat /\ q.wait \in Nat /\ q.since \in Nat /\ q.throttle \in Int
      /\ q \in Assocs
  BY DEF PollTyped
<1>4. hpoll \in 0 .. PollTop /\ hpoll >= q.minpoll
  BY <1>2 DEF Larger, Smaller
<1> HIDE DEF hpoll
<1>5. h \in q.minpoll .. PollTop
  BY <1>2, <1>4
<1>6. 2^h \in Nat /\ 2^h >= 2^q.minpoll
  <2> HIDE DEF h
  <2> QED
    BY <1>2, <1>5, PollPowers
<1> HIDE DEF h
<1>7. add \in Nat
  <2>1. r * 2^h \in Nat
    BY <1>6
  <2>2. \A x \in Nat : x \div 4096 \in Nat
    BY SMT
  <2> QED
    BY <2>1, <2>2
<1> HIDE DEF add
<1>8. utemp \in Nat /\ utemp >= NTP_MINPKT /\ utemp >= q.throttle - Headway(q)
  BY <1>2, <1>3 DEF Larger, Headway
<1> HIDE DEF utemp
<1>9. next \in Int /\ next + q.since >= 2^q.minpoll
  BY <1>2, <1>3, <1>6, <1>7
<1> HIDE DEF next
<1>10. extra \in Nat
  BY <1>2
<1> HIDE DEF extra
<1>11. wait \in Nat
  BY <1>3, <1>8, <1>9, <1>10 DEF Larger
<1>12. \/ q.burst # 0 /\ q.wait > 0 /\ wait = q.wait
       \/ wait >= NTP_MINPKT /\ wait >= q.throttle - Headway(q)
  BY <1>2, <1>3, <1>8, <1>9, <1>10 DEF Larger
<1>13. q.burst = 0 => wait + q.since >= 2^q.minpoll
  BY <1>2, <1>3, <1>8, <1>9, <1>10 DEF Larger
<1> HIDE DEF wait
<1>14. wait \in Values /\ hpoll \in Values
  BY <1>4, <1>11 DEF Values
<1>15. n \in Assocs /\ SamePolls(n, q) /\ n.hpoll = hpoll /\ n.wait = wait
  BY <1>1, <1>3, <1>14, ZenonT(30) DEF Assocs, SamePolls
<1>16. n.minpoll = q.minpoll
  BY <1>15 DEF SamePolls
<1> QED
  BY <1>4, <1>11, <1>12, <1>13, <1>15, <1>16, SMTT(20)

\* What must hold before poll_update for the invariant to hold after it.
Ready(q) ==
  /\ PollTyped(q) /\ Modes(q)
  /\ ~q.stepped => Probed(q) /\ (q.burst # 0 /\ q.wait > 0 => Guarded(q))
LEMMA Rescheduled ==
  ASSUME NEW q, Ready(q), NEW mpoll \in Nat, NEW r \in Nat, NEW n, n = poll_update(q, mpoll, r)
  PROVE  Scheduled(n) /\ SamePolls(n, q)
<1>1. PollTyped(q) /\ Modes(q) /\ (~q.stepped => Probed(q) /\ (q.burst # 0 /\ q.wait > 0 => Guarded(q)))
  BY DEF Ready
<1>2. /\ n \in Assocs /\ SamePolls(n, q)
      /\ n.hpoll \in 0 .. PollTop /\ n.hpoll >= n.minpoll
      /\ n.wait \in Nat
      /\ \/ q.burst # 0 /\ q.wait > 0 /\ n.wait = q.wait
         \/ n.wait >= NTP_MINPKT /\ n.wait >= q.throttle - Headway(q)
      /\ q.burst = 0 => n.wait + q.since >= 2^q.minpoll
  BY <1>1, PollUpdated
<1>3. PollTyped(n)
  BY <1>1, <1>2 DEF PollTyped, SamePolls
<1>4. Modes(n)
  BY <1>1, <1>2 DEF Modes, SamePolls
<1>5. Headway(n) = Headway(q) /\ Interval(n) = Interval(q)
  BY <1>2 DEF Headway, Interval, SamePolls
<1>6. /\ Headway(q) \in Nat /\ Interval(q) \in Nat /\ 2^q.minpoll \in Nat /\ Interval(q) <= 2^q.minpoll
      /\ NTP_MINPKT \in Nat
  BY <1>1, HeadwayNat, PollAssumption DEF PollTyped
<1>7. q.wait \in Nat /\ q.gap \in Nat /\ q.since \in Nat /\ q.throttle \in Int
  BY <1>1 DEF PollTyped
<1> SUFFICES ASSUME ~n.stepped PROVE Guarded(n) /\ Probed(n) /\ Paced(n)
  BY <1>2, <1>3, <1>4 DEF Scheduled
<1>8. n.gap = q.gap /\ n.throttle = q.throttle /\ n.burst = q.burst /\ n.since = q.since /\ n.probing = q.probing
      /\ ~q.stepped
  BY <1>2 DEF SamePolls
<1> HIDE DEF Headway, Interval
<1>9. Guarded(n)
  BY <1>1, <1>2, <1>5, <1>6, <1>7, <1>8 DEF Guarded
<1>10. Probed(n)
  BY <1>1, <1>5, <1>8 DEF Probed
<1>11. Paced(n)
  BY <1>2, <1>5, <1>6, <1>7, <1>8 DEF Paced
<1> QED
  BY <1>9, <1>10, <1>11

(***************************************************************************)
(* The fields of an association after a change of some of them.            *)
(***************************************************************************)
\* The counters of timer().
TickOf(n, q, a, b, c, d) ==
  /\ n \in Assocs /\ n.throttle = a /\ n.wait = b /\ n.since = c /\ n.gap = d
  /\ n.opt = q.opt /\ n.minpoll = q.minpoll /\ n.hpoll = q.hpoll /\ n.burst = q.burst /\ n.retry = q.retry
  /\ n.reach = q.reach /\ n.unreach = q.unreach /\ n.outcount = q.outcount /\ n.lookup = q.lookup
  /\ n.probing = q.probing /\ n.count = q.count /\ n.steps = q.steps /\ n.stepped = q.stepped
LEMMA TickFields ==
  ASSUME NEW q \in Assocs, NEW a \in Values, NEW b \in Values, NEW c \in Values, NEW d \in Values,
         NEW n, n = [q EXCEPT !.throttle = a, !.wait = b, !.since = c, !.gap = d]
  PROVE  TickOf(n, q, a, b, c, d)
<1>1. /\ n \in Assocs /\ n.throttle = a /\ n.wait = b /\ n.since = c /\ n.gap = d
  BY DEF Assocs
<1>2. /\ n.opt = q.opt /\ n.minpoll = q.minpoll /\ n.hpoll = q.hpoll /\ n.burst = q.burst /\ n.retry = q.retry
      /\ n.reach = q.reach /\ n.unreach = q.unreach
  BY DEF Assocs
<1>3. /\ n.outcount = q.outcount /\ n.lookup = q.lookup /\ n.probing = q.probing /\ n.count = q.count
      /\ n.steps = q.steps /\ n.stepped = q.stepped
  BY DEF Assocs
<1> QED
  BY <1>1, <1>2, <1>3 DEF TickOf

\* peer_xmit sends.
SendOf(n, q, a, b, c, d, e) ==
  /\ n \in Assocs /\ n.count = a /\ n.outcount = b /\ n.throttle = c /\ n.gap = d /\ n.stepped = e
  /\ n.opt = q.opt /\ n.minpoll = q.minpoll /\ n.hpoll = q.hpoll /\ n.burst = q.burst /\ n.retry = q.retry
  /\ n.reach = q.reach /\ n.unreach = q.unreach /\ n.wait = q.wait /\ n.since = q.since /\ n.lookup = q.lookup
  /\ n.probing = q.probing /\ n.steps = q.steps
LEMMA SendFields ==
  ASSUME NEW q \in Assocs, NEW a \in Values, NEW b \in Values, NEW c \in Values, NEW d \in Values, NEW e \in Values,
         NEW n, n = [q EXCEPT !.count = a, !.outcount = b, !.throttle = c, !.gap = d, !.stepped = e]
  PROVE  SendOf(n, q, a, b, c, d, e)
<1>1. /\ n \in Assocs /\ n.count = a /\ n.outcount = b /\ n.throttle = c /\ n.gap = d /\ n.stepped = e
  BY DEF Assocs
<1>2. /\ n.opt = q.opt /\ n.minpoll = q.minpoll /\ n.hpoll = q.hpoll /\ n.burst = q.burst /\ n.retry = q.retry
      /\ n.reach = q.reach
  BY DEF Assocs
<1>3. /\ n.unreach = q.unreach /\ n.wait = q.wait /\ n.since = q.since /\ n.lookup = q.lookup
      /\ n.probing = q.probing /\ n.steps = q.steps
  BY DEF Assocs
<1> QED
  BY <1>1, <1>2, <1>3 DEF SendOf

\* restart_nts_ke.
RestartOf(n, q, a, b, c) ==
  /\ n \in Assocs /\ n.hpoll = a /\ n.wait = b /\ n.lookup = c
  /\ n.opt = q.opt /\ n.minpoll = q.minpoll /\ n.burst = q.burst /\ n.retry = q.retry /\ n.reach = q.reach
  /\ n.unreach = q.unreach /\ n.throttle = q.throttle /\ n.outcount = q.outcount /\ n.since = q.since
  /\ n.gap = q.gap /\ n.probing = q.probing /\ n.count = q.count /\ n.steps = q.steps /\ n.stepped = q.stepped
LEMMA RestartFields ==
  ASSUME NEW q \in Assocs, NEW a \in Values, NEW b \in Values, NEW c \in Values,
         NEW n, n = [q EXCEPT !.hpoll = a, !.wait = b, !.lookup = c]
  PROVE  RestartOf(n, q, a, b, c)
<1>1. /\ n \in Assocs /\ n.hpoll = a /\ n.wait = b /\ n.lookup = c
  BY DEF Assocs
<1>2. /\ n.opt = q.opt /\ n.minpoll = q.minpoll /\ n.burst = q.burst /\ n.retry = q.retry /\ n.reach = q.reach
      /\ n.unreach = q.unreach /\ n.throttle = q.throttle
  BY DEF Assocs
<1>3. /\ n.outcount = q.outcount /\ n.since = q.since /\ n.gap = q.gap /\ n.probing = q.probing
      /\ n.count = q.count /\ n.steps = q.steps /\ n.stepped = q.stepped
  BY DEF Assocs
<1> QED
  BY <1>1, <1>2, <1>3 DEF RestartOf

\* transmit out of a burst.
PollOf(n, q, a, b, c, d) ==
  /\ n \in Assocs /\ n.since = a /\ n.reach = b /\ n.unreach = c /\ n.retry = d
  /\ n.opt = q.opt /\ n.minpoll = q.minpoll /\ n.hpoll = q.hpoll /\ n.burst = q.burst
  /\ n.throttle = q.throttle /\ n.outcount = q.outcount /\ n.wait = q.wait /\ n.gap = q.gap
  /\ n.lookup = q.lookup /\ n.probing = q.probing /\ n.count = q.count /\ n.steps = q.steps
  /\ n.stepped = q.stepped
LEMMA PollFields ==
  ASSUME NEW q \in Assocs, NEW a \in Values, NEW b \in Values, NEW c \in Values, NEW d \in Values,
         NEW n, n = [q EXCEPT !.since = a, !.reach = b, !.unreach = c, !.retry = d]
  PROVE  PollOf(n, q, a, b, c, d)
<1>1. /\ n \in Assocs /\ n.since = a /\ n.reach = b /\ n.unreach = c /\ n.retry = d
  BY DEF Assocs
<1>2. /\ n.opt = q.opt /\ n.minpoll = q.minpoll /\ n.hpoll = q.hpoll /\ n.burst = q.burst
      /\ n.throttle = q.throttle /\ n.outcount = q.outcount /\ n.wait = q.wait
  BY DEF Assocs
<1>3. /\ n.gap = q.gap /\ n.lookup = q.lookup /\ n.probing = q.probing /\ n.count = q.count
      /\ n.steps = q.steps /\ n.stepped = q.stepped
  BY DEF Assocs
<1> QED
  BY <1>1, <1>2, <1>3 DEF PollOf

\* peer_clear.
ClearOf(n, q, a, b, c, d, e, f, g) ==
  /\ n \in Assocs /\ n.burst = a /\ n.retry = b /\ n.reach = c /\ n.outcount = d /\ n.hpoll = e /\ n.since = f
  /\ n.wait = g
  /\ n.opt = q.opt /\ n.minpoll = q.minpoll /\ n.unreach = q.unreach /\ n.throttle = q.throttle
  /\ n.gap = q.gap /\ n.lookup = q.lookup /\ n.probing = q.probing /\ n.count = q.count /\ n.steps = q.steps
  /\ n.stepped = q.stepped
LEMMA ClearFields ==
  ASSUME NEW q \in Assocs, NEW a \in Values, NEW b \in Values, NEW c \in Values, NEW d \in Values, NEW e \in Values, NEW f \in Values, NEW g \in Values,
         NEW n, n = [q EXCEPT !.burst = a, !.retry = b, !.reach = c, !.outcount = d, !.hpoll = e, !.since = f, !.wait = g]
  PROVE  ClearOf(n, q, a, b, c, d, e, f, g)
<1>1. /\ n \in Assocs /\ n.burst = a /\ n.retry = b /\ n.reach = c /\ n.outcount = d /\ n.hpoll = e
      /\ n.since = f /\ n.wait = g
  BY DEF Assocs
<1>2. /\ n.opt = q.opt /\ n.minpoll = q.minpoll /\ n.unreach = q.unreach /\ n.throttle = q.throttle
      /\ n.gap = q.gap
  BY DEF Assocs
<1>3. /\ n.lookup = q.lookup /\ n.probing = q.probing /\ n.count = q.count /\ n.steps = q.steps
      /\ n.stepped = q.stepped
  BY DEF Assocs
<1> QED
  BY <1>1, <1>2, <1>3 DEF ClearOf

\* A RATE packet.
KodOf(n, q, a, b, c, d, e) ==
  /\ n \in Assocs /\ n.outcount = a /\ n.burst = b /\ n.retry = c /\ n.throttle = d /\ n.minpoll = e
  /\ n.opt = q.opt /\ n.hpoll = q.hpoll /\ n.reach = q.reach /\ n.unreach = q.unreach /\ n.wait = q.wait
  /\ n.since = q.since /\ n.gap = q.gap /\ n.lookup = q.lookup /\ n.probing = q.probing /\ n.count = q.count
  /\ n.steps = q.steps /\ n.stepped = q.stepped
LEMMA KodFields ==
  ASSUME NEW q \in Assocs, NEW a \in Values, NEW b \in Values, NEW c \in Values, NEW d \in Values, NEW e \in Values,
         NEW n, n = [q EXCEPT !.outcount = a, !.burst = b, !.retry = c, !.throttle = d, !.minpoll = e]
  PROVE  KodOf(n, q, a, b, c, d, e)
<1>1. /\ n \in Assocs /\ n.outcount = a /\ n.burst = b /\ n.retry = c /\ n.throttle = d /\ n.minpoll = e
  BY DEF Assocs
<1>2. /\ n.opt = q.opt /\ n.hpoll = q.hpoll /\ n.reach = q.reach /\ n.unreach = q.unreach /\ n.wait = q.wait
      /\ n.since = q.since
  BY DEF Assocs
<1>3. /\ n.gap = q.gap /\ n.lookup = q.lookup /\ n.probing = q.probing /\ n.count = q.count
      /\ n.steps = q.steps /\ n.stepped = q.stepped
  BY DEF Assocs
<1> QED
  BY <1>1, <1>2, <1>3 DEF KodOf

\* dns_take_server.
FoundOf(n, q, a, b, c, d, e) ==
  /\ n \in Assocs /\ n.probing = a /\ n.lookup = b /\ n.wait = c /\ n.hpoll = d /\ n.count = e
  /\ n.opt = q.opt /\ n.minpoll = q.minpoll /\ n.burst = q.burst /\ n.retry = q.retry /\ n.reach = q.reach
  /\ n.unreach = q.unreach /\ n.throttle = q.throttle /\ n.outcount = q.outcount /\ n.since = q.since
  /\ n.gap = q.gap /\ n.steps = q.steps /\ n.stepped = q.stepped
LEMMA FoundFields ==
  ASSUME NEW q \in Assocs, NEW a \in Values, NEW b \in Values, NEW c \in Values, NEW d \in Values, NEW e \in Values,
         NEW n, n = [q EXCEPT !.probing = a, !.lookup = b, !.wait = c, !.hpoll = d, !.count = e]
  PROVE  FoundOf(n, q, a, b, c, d, e)
<1>1. /\ n \in Assocs /\ n.probing = a /\ n.lookup = b /\ n.wait = c /\ n.hpoll = d /\ n.count = e
  BY DEF Assocs
<1>2. /\ n.opt = q.opt /\ n.minpoll = q.minpoll /\ n.burst = q.burst /\ n.retry = q.retry /\ n.reach = q.reach
      /\ n.unreach = q.unreach
  BY DEF Assocs
<1>3. /\ n.throttle = q.throttle /\ n.outcount = q.outcount /\ n.since = q.since /\ n.gap = q.gap
      /\ n.steps = q.steps /\ n.stepped = q.stepped
  BY DEF Assocs
<1> QED
  BY <1>1, <1>2, <1>3 DEF FoundOf

\* dns_take_status.
FailedOf(n, q, a, b, c) ==
  /\ n \in Assocs /\ n.probing = a /\ n.hpoll = b /\ n.wait = c
  /\ n.opt = q.opt /\ n.minpoll = q.minpoll /\ n.burst = q.burst /\ n.retry = q.retry /\ n.reach = q.reach
  /\ n.unreach = q.unreach /\ n.throttle = q.throttle /\ n.outcount = q.outcount /\ n.since = q.since
  /\ n.gap = q.gap /\ n.lookup = q.lookup /\ n.count = q.count /\ n.steps = q.steps /\ n.stepped = q.stepped
LEMMA FailedFields ==
  ASSUME NEW q \in Assocs, NEW a \in Values, NEW b \in Values, NEW c \in Values,
         NEW n, n = [q EXCEPT !.probing = a, !.hpoll = b, !.wait = c]
  PROVE  FailedOf(n, q, a, b, c)
<1>1. /\ n \in Assocs /\ n.probing = a /\ n.hpoll = b /\ n.wait = c
  BY DEF Assocs
<1>2. /\ n.opt = q.opt /\ n.minpoll = q.minpoll /\ n.burst = q.burst /\ n.retry = q.retry /\ n.reach = q.reach
      /\ n.unreach = q.unreach /\ n.throttle = q.throttle
  BY DEF Assocs
<1>3. /\ n.outcount = q.outcount /\ n.since = q.since /\ n.gap = q.gap /\ n.lookup = q.lookup
      /\ n.count = q.count /\ n.steps = q.steps /\ n.stepped = q.stepped
  BY DEF Assocs
<1> QED
  BY <1>1, <1>2, <1>3 DEF FailedOf

\* transmit looks a server up.
ProbeOf(n, q, a, b) ==
  /\ n \in Assocs /\ n.since = a /\ n.probing = b
  /\ n.opt = q.opt /\ n.minpoll = q.minpoll /\ n.hpoll = q.hpoll /\ n.burst = q.burst /\ n.retry = q.retry
  /\ n.reach = q.reach /\ n.unreach = q.unreach /\ n.throttle = q.throttle /\ n.outcount = q.outcount
  /\ n.wait = q.wait /\ n.gap = q.gap /\ n.lookup = q.lookup /\ n.count = q.count /\ n.steps = q.steps
  /\ n.stepped = q.stepped
LEMMA ProbeFields ==
  ASSUME NEW q \in Assocs, NEW a \in Values, NEW b \in Values,
         NEW n, n = [q EXCEPT !.since = a, !.probing = b]
  PROVE  ProbeOf(n, q, a, b)
<1>1. /\ n \in Assocs /\ n.since = a /\ n.probing = b
  BY DEF Assocs
<1>2. /\ n.opt = q.opt /\ n.minpoll = q.minpoll /\ n.hpoll = q.hpoll /\ n.burst = q.burst /\ n.retry = q.retry
      /\ n.reach = q.reach /\ n.unreach = q.unreach /\ n.throttle = q.throttle
  BY DEF Assocs
<1>3. /\ n.outcount = q.outcount /\ n.wait = q.wait /\ n.gap = q.gap /\ n.lookup = q.lookup
      /\ n.count = q.count /\ n.steps = q.steps /\ n.stepped = q.stepped
  BY DEF Assocs
<1> QED
  BY <1>1, <1>2, <1>3 DEF ProbeOf

\* transmit waits for the lookup thread.
PauseOf(n, q, a, b) ==
  /\ n \in Assocs /\ n.since = a /\ n.wait = b
  /\ n.opt = q.opt /\ n.minpoll = q.minpoll /\ n.hpoll = q.hpoll /\ n.burst = q.burst /\ n.retry = q.retry
  /\ n.reach = q.reach /\ n.unreach = q.unreach /\ n.throttle = q.throttle /\ n.outcount = q.outcount
  /\ n.gap = q.gap /\ n.lookup = q.lookup /\ n.probing = q.probing /\ n.count = q.count /\ n.steps = q.steps
  /\ n.stepped = q.stepped
LEMMA PauseFields ==
  ASSUME NEW q \in Assocs, NEW a \in Values, NEW b \in Values,
         NEW n, n = [q EXCEPT !.since = a, !.wait = b]
  PROVE  PauseOf(n, q, a, b)
<1>1. /\ n \in Assocs /\ n.since = a /\ n.wait = b
  BY DEF Assocs
<1>2. /\ n.opt = q.opt /\ n.minpoll = q.minpoll /\ n.hpoll = q.hpoll /\ n.burst = q.burst /\ n.retry = q.retry
      /\ n.reach = q.reach /\ n.unreach = q.unreach /\ n.throttle = q.throttle
  BY DEF Assocs
<1>3. /\ n.outcount = q.outcount /\ n.gap = q.gap /\ n.lookup = q.lookup /\ n.probing = q.probing
      /\ n.count = q.count /\ n.steps = q.steps /\ n.stepped = q.stepped
  BY DEF Assocs
<1> QED
  BY <1>1, <1>2, <1>3 DEF PauseOf

\* A burst begins.
BurstOf(n, q, a, b, c) ==
  /\ n \in Assocs /\ n.retry = a /\ n.burst = b /\ n.wait = c
  /\ n.opt = q.opt /\ n.minpoll = q.minpoll /\ n.hpoll = q.hpoll /\ n.reach = q.reach /\ n.unreach = q.unreach
  /\ n.throttle = q.throttle /\ n.outcount = q.outcount /\ n.since = q.since /\ n.gap = q.gap
  /\ n.lookup = q.lookup /\ n.probing = q.probing /\ n.count = q.count /\ n.steps = q.steps
  /\ n.stepped = q.stepped
LEMMA BurstFields ==
  ASSUME NEW q \in Assocs, NEW a \in Values, NEW b \in Values, NEW c \in Values,
         NEW n, n = [q EXCEPT !.retry = a, !.burst = b, !.wait = c]
  PROVE  BurstOf(n, q, a, b, c)
<1>1. /\ n \in Assocs /\ n.retry = a /\ n.burst = b /\ n.wait = c
  BY DEF Assocs
<1>2. /\ n.opt = q.opt /\ n.minpoll = q.minpoll /\ n.hpoll = q.hpoll /\ n.reach = q.reach
      /\ n.unreach = q.unreach /\ n.throttle = q.throttle /\ n.outcount = q.outcount
  BY DEF Assocs
<1>3. /\ n.since = q.since /\ n.gap = q.gap /\ n.lookup = q.lookup /\ n.probing = q.probing
      /\ n.count = q.count /\ n.steps = q.steps /\ n.stepped = q.stepped
  BY DEF Assocs
<1> QED
  BY <1>1, <1>2, <1>3 DEF BurstOf

\* A reply was received.
ReplyOf(n, q, a, b) ==
  /\ n \in Assocs /\ n.outcount = a /\ n.count = b
  /\ n.opt = q.opt /\ n.minpoll = q.minpoll /\ n.hpoll = q.hpoll /\ n.burst = q.burst /\ n.retry = q.retry
  /\ n.reach = q.reach /\ n.unreach = q.unreach /\ n.throttle = q.throttle /\ n.wait = q.wait
  /\ n.since = q.since /\ n.gap = q.gap /\ n.lookup = q.lookup /\ n.probing = q.probing /\ n.steps = q.steps
  /\ n.stepped = q.stepped
LEMMA ReplyFields ==
  ASSUME NEW q \in Assocs, NEW a \in Values, NEW b \in Values,
         NEW n, n = [q EXCEPT !.outcount = a, !.count = b]
  PROVE  ReplyOf(n, q, a, b)
<1>1. /\ n \in Assocs /\ n.outcount = a /\ n.count = b
  BY DEF Assocs
<1>2. /\ n.opt = q.opt /\ n.minpoll = q.minpoll /\ n.hpoll = q.hpoll /\ n.burst = q.burst /\ n.retry = q.retry
      /\ n.reach = q.reach /\ n.unreach = q.unreach /\ n.throttle = q.throttle
  BY DEF Assocs
<1>3. /\ n.wait = q.wait /\ n.since = q.since /\ n.gap = q.gap /\ n.lookup = q.lookup /\ n.probing = q.probing
      /\ n.steps = q.steps /\ n.stepped = q.stepped
  BY DEF Assocs
<1> QED
  BY <1>1, <1>2, <1>3 DEF ReplyOf

\* The retry counter.
RetryOf(n, q, a) ==
  /\ n \in Assocs /\ n.retry = a
  /\ n.opt = q.opt /\ n.minpoll = q.minpoll /\ n.hpoll = q.hpoll /\ n.burst = q.burst /\ n.reach = q.reach
  /\ n.unreach = q.unreach /\ n.throttle = q.throttle /\ n.outcount = q.outcount /\ n.wait = q.wait
  /\ n.since = q.since /\ n.gap = q.gap /\ n.lookup = q.lookup /\ n.probing = q.probing /\ n.count = q.count
  /\ n.steps = q.steps /\ n.stepped = q.stepped
LEMMA RetryFields ==
  ASSUME NEW q \in Assocs, NEW a \in Values,
         NEW n, n = [q EXCEPT !.retry = a]
  PROVE  RetryOf(n, q, a)
<1>1. /\ n \in Assocs /\ n.retry = a
  BY DEF Assocs
<1>2. /\ n.opt = q.opt /\ n.minpoll = q.minpoll /\ n.hpoll = q.hpoll /\ n.burst = q.burst /\ n.reach = q.reach
      /\ n.unreach = q.unreach /\ n.throttle = q.throttle /\ n.outcount = q.outcount
  BY DEF Assocs
<1>3. /\ n.wait = q.wait /\ n.since = q.since /\ n.gap = q.gap /\ n.lookup = q.lookup /\ n.probing = q.probing
      /\ n.count = q.count /\ n.steps = q.steps /\ n.stepped = q.stepped
  BY DEF Assocs
<1> QED
  BY <1>1, <1>2, <1>3 DEF RetryOf

\* transmit within a burst.
SentOf(n, q, a) ==
  /\ n \in Assocs /\ n.burst = a
  /\ n.opt = q.opt /\ n.minpoll = q.minpoll /\ n.hpoll = q.hpoll /\ n.retry = q.retry /\ n.reach = q.reach
  /\ n.unreach = q.unreach /\ n.throttle = q.throttle /\ n.outcount = q.outcount /\ n.wait = q.wait
  /\ n.since = q.since /\ n.gap = q.gap /\ n.lookup = q.lookup /\ n.probing = q.probing /\ n.count = q.count
  /\ n.steps = q.steps /\ n.stepped = q.stepped
LEMMA SentFields ==
  ASSUME NEW q \in Assocs, NEW a \in Values,
         NEW n, n = [q EXCEPT !.burst = a]
  PROVE  SentOf(n, q, a)
<1>1. /\ n \in Assocs /\ n.burst = a
  BY DEF Assocs
<1>2. /\ n.opt = q.opt /\ n.minpoll = q.minpoll /\ n.hpoll = q.hpoll /\ n.retry = q.retry /\ n.reach = q.reach
      /\ n.unreach = q.unreach /\ n.throttle = q.throttle /\ n.outcount = q.outcount
  BY DEF Assocs
<1>3. /\ n.wait = q.wait /\ n.since = q.since /\ n.gap = q.gap /\ n.lookup = q.lookup /\ n.probing = q.probing
      /\ n.count = q.count /\ n.steps = q.steps /\ n.stepped = q.stepped
  BY DEF Assocs
<1> QED
  BY <1>1, <1>2, <1>3 DEF SentOf

\* The reachability register.
ReachOf(n, q, a) ==
  /\ n \in Assocs /\ n.reach = a
  /\ n.opt = q.opt /\ n.minpoll = q.minpoll /\ n.hpoll = q.hpoll /\ n.burst = q.burst /\ n.retry = q.retry
  /\ n.unreach = q.unreach /\ n.throttle = q.throttle /\ n.outcount = q.outcount /\ n.wait = q.wait
  /\ n.since = q.since /\ n.gap = q.gap /\ n.lookup = q.lookup /\ n.probing = q.probing /\ n.count = q.count
  /\ n.steps = q.steps /\ n.stepped = q.stepped
LEMMA ReachFields ==
  ASSUME NEW q \in Assocs, NEW a \in Values,
         NEW n, n = [q EXCEPT !.reach = a]
  PROVE  ReachOf(n, q, a)
<1>1. /\ n \in Assocs /\ n.reach = a
  BY DEF Assocs
<1>2. /\ n.opt = q.opt /\ n.minpoll = q.minpoll /\ n.hpoll = q.hpoll /\ n.burst = q.burst /\ n.retry = q.retry
      /\ n.unreach = q.unreach /\ n.throttle = q.throttle /\ n.outcount = q.outcount
  BY DEF Assocs
<1>3. /\ n.wait = q.wait /\ n.since = q.since /\ n.gap = q.gap /\ n.lookup = q.lookup /\ n.probing = q.probing
      /\ n.count = q.count /\ n.steps = q.steps /\ n.stepped = q.stepped
  BY DEF Assocs
<1> QED
  BY <1>1, <1>2, <1>3 DEF ReachOf

\* A packet that waits for no reply.
ClosedOf(n, q, a) ==
  /\ n \in Assocs /\ n.outcount = a
  /\ n.opt = q.opt /\ n.minpoll = q.minpoll /\ n.hpoll = q.hpoll /\ n.burst = q.burst /\ n.retry = q.retry
  /\ n.reach = q.reach /\ n.unreach = q.unreach /\ n.throttle = q.throttle /\ n.wait = q.wait
  /\ n.since = q.since /\ n.gap = q.gap /\ n.lookup = q.lookup /\ n.probing = q.probing /\ n.count = q.count
  /\ n.steps = q.steps /\ n.stepped = q.stepped
LEMMA ClosedFields ==
  ASSUME NEW q \in Assocs, NEW a \in Values,
         NEW n, n = [q EXCEPT !.outcount = a]
  PROVE  ClosedOf(n, q, a)
<1>1. /\ n \in Assocs /\ n.outcount = a
  BY DEF Assocs
<1>2. /\ n.opt = q.opt /\ n.minpoll = q.minpoll /\ n.hpoll = q.hpoll /\ n.burst = q.burst /\ n.retry = q.retry
      /\ n.reach = q.reach /\ n.unreach = q.unreach /\ n.throttle = q.throttle
  BY DEF Assocs
<1>3. /\ n.wait = q.wait /\ n.since = q.since /\ n.gap = q.gap /\ n.lookup = q.lookup /\ n.probing = q.probing
      /\ n.count = q.count /\ n.steps = q.steps /\ n.stepped = q.stepped
  BY DEF Assocs
<1> QED
  BY <1>1, <1>2, <1>3 DEF ClosedOf

\* A clock step.
SteppedOf(n, q, a, b) ==
  /\ n \in Assocs /\ n.steps = a /\ n.stepped = b
  /\ n.opt = q.opt /\ n.minpoll = q.minpoll /\ n.hpoll = q.hpoll /\ n.burst = q.burst /\ n.retry = q.retry
  /\ n.reach = q.reach /\ n.unreach = q.unreach /\ n.throttle = q.throttle /\ n.outcount = q.outcount
  /\ n.wait = q.wait /\ n.since = q.since /\ n.gap = q.gap /\ n.lookup = q.lookup /\ n.probing = q.probing
  /\ n.count = q.count
LEMMA SteppedFields ==
  ASSUME NEW q \in Assocs, NEW a \in Values, NEW b \in Values,
         NEW n, n = [q EXCEPT !.steps = a, !.stepped = b]
  PROVE  SteppedOf(n, q, a, b)
<1>1. /\ n \in Assocs /\ n.steps = a /\ n.stepped = b
  BY DEF Assocs
<1>2. /\ n.opt = q.opt /\ n.minpoll = q.minpoll /\ n.hpoll = q.hpoll /\ n.burst = q.burst /\ n.retry = q.retry
      /\ n.reach = q.reach /\ n.unreach = q.unreach /\ n.throttle = q.throttle
  BY DEF Assocs
<1>3. /\ n.outcount = q.outcount /\ n.wait = q.wait /\ n.since = q.since /\ n.gap = q.gap
      /\ n.lookup = q.lookup /\ n.probing = q.probing /\ n.count = q.count
  BY DEF Assocs
<1> QED
  BY <1>1, <1>2, <1>3 DEF SteppedOf

\* One second passes.  When the poll is due the guard time and the headway
\* have been kept, and the interval for a server that has not answered.
Tick(q) ==
  [q EXCEPT !.throttle = IF @ > 0 THEN @ - 1 ELSE @, !.wait = Larger(@ - 1, 0),
            !.since = Smaller(@ + 1, Longest), !.gap = Smaller(@ + 1, Longest)]
Due(q) ==
  /\ PollTyped(q) /\ Modes(q) /\ q.wait = 0 /\ q.gap > 0
  /\ ~q.lookup => q.hpoll >= q.minpoll
  /\ ~q.stepped => q.gap >= NTP_MINPKT /\ q.throttle <= Headway(q)
  /\ ~q.stepped /\ ~q.opt.lookup => Answered(q) /\ (q.reach % 2 = 0 => q.gap >= Interval(q))
LEMMA Ticked ==
  ASSUME NEW q, Scheduled(q), AnsweredByAddress(q), NEW n, n = Tick(q)
  PROVE  /\ n.wait > 0 => Scheduled(n) /\ AnsweredByAddress(n)
         /\ ~(n.wait > 0) => Due(n)
         /\ n.gap <= q.gap + 1 /\ n.gap # 0 /\ n.outcount = q.outcount
         /\ n.opt = q.opt /\ n.minpoll = q.minpoll /\ n.stepped = q.stepped
         /\ n.lookup = q.lookup /\ n.probing = q.probing
<1> DEFINE th == IF q.throttle > 0 THEN q.throttle - 1 ELSE q.throttle
           wa == Larger(q.wait - 1, 0)
           si == Smaller(q.since + 1, Longest)
           ga == Smaller(q.gap + 1, Longest)
<1>1. PollTyped(q) /\ Modes(q) /\ q \in Assocs
  BY DEF Scheduled, PollTyped
<1>2. q.wait \in Nat /\ q.gap \in Nat /\ q.since \in Nat /\ q.throttle \in Int /\ q.burst \in Nat
      /\ q.reach \in Nat /\ Longest \in Nat \ {0} /\ NTP_MINPKT \in Nat /\ NTP_MINPKT <= Longest
  BY <1>1, PollAssumption DEF PollTyped
<1>3. th \in Int /\ wa \in Nat /\ si \in Nat /\ ga \in Nat /\ ga > 0 /\ ga <= q.gap + 1
  BY <1>2 DEF Larger, Smaller
<1>4. th \in Values /\ wa \in Values /\ si \in Values /\ ga \in Values
  BY <1>3 DEF Values
<1>5. n = [q EXCEPT !.throttle = th, !.wait = wa, !.since = si, !.gap = ga]
  BY <1>1 DEF Tick, Assocs
<1> HIDE DEF th, wa, si, ga
<1>6. /\ n \in Assocs /\ n.throttle = th /\ n.wait = wa /\ n.since = si /\ n.gap = ga
      /\ n.opt = q.opt /\ n.minpoll = q.minpoll /\ n.hpoll = q.hpoll /\ n.burst = q.burst /\ n.retry = q.retry
      /\ n.reach = q.reach /\ n.unreach = q.unreach /\ n.outcount = q.outcount /\ n.lookup = q.lookup
      /\ n.probing = q.probing /\ n.count = q.count /\ n.steps = q.steps /\ n.stepped = q.stepped
  <2>1. TickOf(n, q, th, wa, si, ga)
    BY <1>1, <1>4, <1>5, TickFields, Zenon
  <2> QED
    BY <2>1 DEF TickOf
<1>7. PollTyped(n) /\ Modes(n) /\ (~n.lookup => n.hpoll >= n.minpoll)
  BY <1>1, <1>3, <1>6 DEF PollTyped, Modes, Scheduled
<1>8. /\ Headway(n) = Headway(q) /\ Interval(n) = Interval(q)
      /\ Headway(q) \in Nat /\ Interval(q) \in Nat /\ Interval(q) <= Longest
  BY <1>1, <1>6, HeadwayNat DEF PollTyped, Headway, Interval
<1> HIDE DEF Headway, Interval
<1>9. ASSUME ~q.stepped
      PROVE  Guarded(q) /\ Probed(q) /\ (~q.opt.lookup => Paced(q) /\ Answered(q))
  BY <1>9 DEF Scheduled, AnsweredByAddress
<1>10. ASSUME ~q.stepped, ~q.opt.lookup
       PROVE  Answered(n)
  BY <1>2, <1>6, <1>9, <1>10 DEF Answered, si, ga, Smaller
<1>11. ASSUME ~q.stepped, wa > 0
       PROVE  Guarded(n) /\ (~q.opt.lookup => Paced(n))
  <2>1. wa = q.wait - 1 /\ q.wait > 1
    BY <1>2, <1>11 DEF wa, Larger
  <2>2. Guarded(n)
    BY <1>2, <1>6, <1>8, <1>9, <1>11, <2>1, SMTT(20) DEF Guarded, th, ga, Smaller
  <2>3. ~q.opt.lookup => Paced(n)
    BY <1>2, <1>6, <1>8, <1>9, <1>11, <2>1, SMTT(20) DEF Paced, si, ga, Smaller
  <2> QED
    BY <2>2, <2>3
<1>12. ASSUME ~q.stepped
       PROVE  Probed(n)
  BY <1>2, <1>6, <1>8, <1>9, <1>12 DEF Probed, th, ga, Smaller
<1>13. ASSUME ~q.stepped, ~(wa > 0)
       PROVE  /\ n.gap >= NTP_MINPKT /\ n.throttle <= Headway(n)
              /\ ~q.opt.lookup => (n.reach % 2 = 0 => n.gap >= Interval(n))
  <2>1. q.wait <= 1
    BY <1>2, <1>13 DEF wa, Larger
  <2>2. n.gap >= NTP_MINPKT /\ n.throttle <= Headway(n)
    BY <1>2, <1>6, <1>8, <1>9, <1>13, <2>1, SMTT(20) DEF Guarded, th, ga, Smaller
  <2>3. ASSUME ~q.opt.lookup, n.reach % 2 = 0
        PROVE  n.gap >= Interval(n)
    BY <1>2, <1>6, <1>8, <1>9, <1>13, <2>1, <2>3, SMTT(20) DEF Paced, Answered, ga, Smaller
  <2> QED
    BY <2>2, <2>3
<1>14. wa > 0 => Scheduled(n) /\ AnsweredByAddress(n)
  BY <1>6, <1>7, <1>10, <1>11, <1>12, SMTT(20) DEF Scheduled, AnsweredByAddress
<1>15. ~(wa > 0) => Due(n)
  BY <1>3, <1>6, <1>7, <1>10, <1>13 DEF Due
<1> QED
  BY <1>3, <1>6, <1>14, <1>15

\* Shifting a zero into the reachability register makes it even, and empty only
\* when the last bit was clear.
LEMMA ReachShifted ==
  ASSUME NEW x \in Nat, NEW y, y = (x * 2) % 2^ReachBits
  PROVE  y \in Nat /\ y % 2 = 0 /\ (y = 0 => x % 2 = 0)
<1> DEFINE w == 2^ReachBits
<1>1. PICK k \in 1 .. w : w = 4 * k
  BY PollPowers
<1> HIDE DEF w
<1>2. k \in Nat \ {0} /\ w \in Nat \ {0}
  <2>1. k \in Int /\ k >= 1
    BY <1>1
  <2> QED
    BY <1>1, <2>1
<1> DEFINE v == (x * 2) \div w
<1>3. y = x * 2 - w * v /\ v \in Int /\ y \in Nat
  <2>1. y = (x * 2) % w
    BY DEF w
  <2> QED
    BY <1>2, <2>1
<1> DEFINE u == k * v
<1> HIDE DEF v
<1>4. w * v = 4 * u /\ u \in Int
  BY <1>1, <1>2, <1>3
<1> HIDE DEF u
<1>5. y = 2 * (x - 2 * u)
  BY <1>3, <1>4
<1> QED
  BY <1>3, <1>4, <1>5

\* peer_xmit sends, or starts over with NTS-KE for want of a cookie.
LEMMA Transmitted ==
  ASSUME NEW q, PollTyped(q), NEW n, n = peer_xmit(q)
  PROVE  \/ /\ \E c \in Int : SendOf(n, q, c, TRUE, q.throttle + 2^q.minpoll - 2, 0, FALSE)
         \/ /\ q.opt.nts /\ q.count <= 0
            /\ \E h \in 0 .. PollTop : 2^h \in Nat /\ RestartOf(n, q, h, 2^h, TRUE)
<1>1. q \in Assocs /\ q.count \in Int /\ q.throttle \in Int /\ q.hpoll \in 0 .. PollTop /\ 2^q.minpoll \in Nat
      /\ q.opt \in Options
  BY HeadwayNat DEF PollTyped
<1>2. CASE q.opt.nts /\ q.count <= 0
  <2> DEFINE h == Within(q.hpoll + 2, RetryMin, RetryMax)
  <2>1. n = [q EXCEPT !.hpoll = h, !.wait = 2^h, !.lookup = TRUE]
    BY <1>2 DEF peer_xmit, restart_nts_ke
  <2>2. h \in 0 .. PollTop
    BY <1>1, PollAssumption DEF Within, Smaller, Larger, PollTop
  <2> HIDE DEF h
  <2>3. 2^h \in Nat
    BY <2>2, PollPowers
  <2>4. h \in Values /\ 2^h \in Values /\ TRUE \in Values
    BY <2>2, <2>3 DEF Values
  <2>5. RestartOf(n, q, h, 2^h, TRUE)
    BY <1>1, <2>1, <2>4, RestartFields, Zenon
  <2> QED
    BY <1>2, <2>2, <2>3, <2>5
<1>3. CASE ~(q.opt.nts /\ q.count <= 0)
  <2> DEFINE c == IF q.opt.nts THEN q.count - 1 ELSE q.count
             th == q.throttle + 2^q.minpoll - 2
  <2>1. n = [q EXCEPT !.count = c, !.outcount = TRUE, !.throttle = th, !.gap = 0, !.stepped = FALSE]
    BY <1>1, <1>3 DEF peer_xmit, Assocs
  <2>2. c \in Int /\ th \in Int
    BY <1>1
  <2> HIDE DEF c, th
  <2>3. c \in Values /\ th \in Values /\ TRUE \in Values /\ FALSE \in Values /\ 0 \in Values
    BY <2>2 DEF Values
  <2>4. SendOf(n, q, c, TRUE, th, 0, FALSE)
    BY <1>1, <2>1, <2>3, SendFields, Zenon
  <2> QED
    BY <2>2, <2>4 DEF th
<1> QED
  BY <1>2, <1>3

\* The registers after the middle of transmit, for an association with an address.
MidPoll(u, q) ==
  /\ PollTyped(u) /\ Modes(u) /\ u.wait = 0 /\ ~u.lookup /\ ~u.probing
  /\ u.gap = q.gap /\ u.throttle = q.throttle /\ u.opt = q.opt /\ u.minpoll = q.minpoll /\ u.stepped = q.stepped
  /\ ~q.opt.lookup => /\ u.reach % 2 = 0 => u.burst = 0 /\ u.since = 0
                      /\ u.reach = 0 => q.reach % 2 = 0
LEMMA PolledMid ==
  ASSUME NEW q, Due(q), ~q.lookup, NEW fit \in BOOLEAN, NEW sys_poll \in MinPoll .. MaxPoll,
         NEW t, t = Polled(q, fit, sys_poll), NEW u, u = [t.q EXCEPT !.retry = Larger(@ - 1, 0)]
  PROVE  t.hpoll \in Nat /\ MidPoll(u, q)
<1>1. PollTyped(q) /\ Modes(q) /\ q.wait = 0 /\ ~q.probing
      /\ (~q.stepped /\ ~q.opt.lookup => (q.reach % 2 = 0 => q.burst = 0))
  BY DEF Due, Modes, Answered
<1>2. /\ q \in Assocs /\ q.burst \in Nat /\ q.reach \in Nat /\ q.unreach \in Nat /\ q.retry \in Nat
      /\ q.hpoll \in Nat /\ sys_poll \in Nat /\ NTP_RETRY \in Nat /\ NTP_UNREACH \in Nat
      /\ q.stepped \in BOOLEAN
  BY <1>1, PollAssumption DEF PollTyped
<1> DEFINE c(k) == Larger(k - 1, 0)
<1>3. \A k \in Nat : c(k) \in Nat /\ c(k) \in Values
  BY DEF Larger, Values
<1> HIDE DEF c
<1>4. CASE q.burst > 0
  <2> DEFINE s == t.q
             b == q.burst - 1
  <2>1. s = [q EXCEPT !.burst = b] /\ t.hpoll = q.hpoll
    BY <1>2, <1>4 DEF Polled, BurstSent, Assocs
  <2>2. b \in Nat /\ b \in Values
    BY <1>2, <1>4 DEF Values
  <2> HIDE DEF s, b
  <2>3. SentOf(s, q, b)
    BY <1>2, <2>1, <2>2, SentFields, Zenon
  <2>4. s \in Assocs /\ s.retry = q.retry
    BY <2>3 DEF SentOf
  <2>5. u = [s EXCEPT !.retry = c(q.retry)]
    BY <2>4 DEF s, c, Assocs
  <2>6. RetryOf(u, s, c(q.retry))
    BY <1>2, <1>3, <2>4, <2>5, RetryFields, Zenon
  <2>7. /\ u \in Assocs /\ u.retry = c(q.retry) /\ u.burst = b
        /\ u.opt = q.opt /\ u.minpoll = q.minpoll /\ u.hpoll = q.hpoll /\ u.reach = q.reach /\ u.unreach = q.unreach
        /\ u.throttle = q.throttle /\ u.outcount = q.outcount /\ u.wait = q.wait /\ u.since = q.since
        /\ u.gap = q.gap /\ u.lookup = q.lookup /\ u.probing = q.probing /\ u.count = q.count
        /\ u.steps = q.steps /\ u.stepped = q.stepped
    BY <2>3, <2>6 DEF SentOf, RetryOf
  <2>8. PollTyped(u)
    BY <1>1, <1>2, <1>3, <2>2, <2>7 DEF PollTyped
  <2>9. ~q.stepped
    BY <1>1, <1>4 DEF Modes
  <2>10. Modes(u)
    BY <1>1, <2>7, <2>9 DEF Modes
  <2>11. ~q.opt.lookup => u.reach % 2 # 0 /\ u.reach # 0
    BY <1>1, <1>2, <1>4, <2>7, <2>9
  <2> QED
    BY <1>1, <1>2, <2>1, <2>7, <2>8, <2>10, <2>11, SMTT(20) DEF MidPoll
<1>5. CASE ~(q.burst > 0)
  <2> DEFINE s == t.q
             reach == (q.reach * 2) % 2^ReachBits
             un    == Smaller(q.unreach + 1, NTP_UNREACH + 1)
             rearm == q.retry = 0 /\ (IF reach = 0 THEN q.opt.iburst ELSE q.opt.burst /\ fit)
             unreach == IF reach = 0 THEN un ELSE 0
             hpoll == IF reach = 0 THEN q.hpoll ELSE sys_poll
             retry == IF rearm THEN NTP_RETRY ELSE q.retry
  <2>1. s = [q EXCEPT !.since = 0, !.reach = reach, !.unreach = unreach, !.retry = retry]
        /\ t.hpoll = IF unreach >= NTP_UNREACH THEN hpoll + 1 ELSE hpoll
    BY <1>2, <1>5 DEF Polled, Assocs
  <2>2. reach \in Nat /\ reach % 2 = 0 /\ (reach = 0 => q.reach % 2 = 0)
    BY <1>2, ReachShifted
  <2>3. unreach \in Nat /\ retry \in Nat /\ hpoll \in Nat
    BY <1>2 DEF Smaller
  <2> HIDE DEF s, reach, unreach, retry, hpoll
  <2>4. 0 \in Values /\ reach \in Values /\ unreach \in Values /\ retry \in Values
    BY <2>2, <2>3 DEF Values
  <2>5. PollOf(s, q, 0, reach, unreach, retry)
    BY <1>2, <2>1, <2>4, PollFields, Zenon
  <2>6. s \in Assocs /\ s.retry = retry
    BY <2>5 DEF PollOf
  <2>7. u = [s EXCEPT !.retry = c(retry)]
    BY <2>6 DEF s, c, Assocs
  <2>8. RetryOf(u, s, c(retry))
    BY <1>3, <2>3, <2>6, <2>7, RetryFields, Zenon
  <2>9. /\ u \in Assocs /\ u.retry = c(retry) /\ u.burst = q.burst /\ u.since = 0 /\ u.reach = reach
        /\ u.unreach = unreach /\ u.opt = q.opt /\ u.minpoll = q.minpoll /\ u.hpoll = q.hpoll
        /\ u.throttle = q.throttle /\ u.outcount = q.outcount /\ u.wait = q.wait
        /\ u.gap = q.gap /\ u.lookup = q.lookup /\ u.probing = q.probing /\ u.count = q.count
        /\ u.steps = q.steps /\ u.stepped = q.stepped
    BY <2>5, <2>8 DEF PollOf, RetryOf
  <2>10. PollTyped(u)
    BY <1>1, <1>2, <1>3, <2>2, <2>3, <2>9 DEF PollTyped
  <2>11. Modes(u)
    BY <1>1, <2>2, <2>9 DEF Modes
  <2>12. t.hpoll \in Nat
    BY <1>2, <2>1, <2>3
  <2>13. u.burst = 0
    BY <1>2, <1>5, <2>9
  <2> QED
    BY <1>1, <2>2, <2>9, <2>10, <2>11, <2>12, <2>13 DEF MidPoll
<1> QED
  BY <1>4, <1>5

\* transmit keeps the invariant, and a packet it sends keeps the headway and,
\* to a server that has not answered, the interval.
InTime(n, q) ==
  n.gap = 0 => /\ ~q.lookup
               /\ ~q.stepped => /\ n.throttle <= NTP_SHIFT * 2^n.minpoll
                                /\ n.reach = 0 /\ ~q.opt.lookup => q.gap >= Interval(q)
LEMMA TransmitKeepsInv ==
  ASSUME NEW q, Due(q), NEW fit \in BOOLEAN, NEW free \in BOOLEAN, NEW sys_poll \in MinPoll .. MaxPoll,
         NEW r \in Nat, NEW n, n = transmit(q, fit, sys_poll, free, r)
  PROVE  Scheduled(n) /\ AnsweredByAddress(n) /\ InTime(n, q)
<1>1. /\ PollTyped(q) /\ Modes(q) /\ q.wait = 0 /\ q.gap > 0
      /\ ~q.stepped => q.gap >= NTP_MINPKT /\ q.throttle <= Headway(q)
      /\ ~q.stepped /\ ~q.opt.lookup => (q.reach % 2 = 0 => q.gap >= Interval(q))
  BY DEF Due
<1>2. /\ q \in Assocs /\ q.hpoll \in Nat /\ q.gap \in Nat /\ q.throttle \in Int /\ q.opt \in Options
      /\ q.lookup \in BOOLEAN /\ q.stepped \in BOOLEAN
      /\ Headway(q) \in Nat /\ NTP_MINPKT \in Nat /\ 2^q.minpoll \in Nat /\ Interval(q) \in Nat
      /\ NTP_SHIFT * 2^q.minpoll = Headway(q) + 2^q.minpoll
      /\ 0 \in Values /\ TRUE \in Values
  BY <1>1, HeadwayNat, PollAssumption, SMTT(20) DEF PollTyped, Values
<1>3. CASE q.lookup /\ (q.probing \/ ~free)
  <2>1. n = [q EXCEPT !.since = 0, !.wait = 0]
    BY <1>3 DEF transmit
  <2>2. PauseOf(n, q, 0, 0)
    BY <1>2, <2>1, PauseFields, Zenon
  <2>3. PollTyped(n) /\ Modes(n)
    BY <1>1, <2>2 DEF PauseOf, PollTyped, Modes
  <2>4. Headway(n) = Headway(q)
    BY <2>2 DEF PauseOf, Headway
  <2>5. n.opt.lookup /\ n.lookup
    BY <1>1, <1>3, <2>2 DEF PauseOf, Modes
  <2>6. n.gap = q.gap /\ n.throttle = q.throttle /\ n.wait = 0 /\ n.stepped = q.stepped
    BY <2>2, SMTT(20) DEF PauseOf
  <2> HIDE DEF Headway
  <2>7. ~n.stepped => Guarded(n) /\ Probed(n)
    BY <1>1, <1>2, <2>4, <2>6, SMTT(20) DEF Guarded, Probed
  <2> QED
    BY <1>1, <1>2, <2>3, <2>5, <2>6, <2>7 DEF Scheduled, AnsweredByAddress, InTime
<1>4. CASE q.lookup /\ ~(q.probing \/ ~free)
  <2> DEFINE u == [q EXCEPT !.since = 0, !.probing = TRUE]
  <2>1. n = poll_update(u, q.hpoll, r)
    BY <1>4 DEF transmit
  <2>2. ProbeOf(u, q, 0, TRUE)
    BY <1>2, ProbeFields, Zenon
  <2> HIDE DEF u
  <2>3. PollTyped(u) /\ Modes(u)
    BY <1>1, <1>4, <2>2 DEF ProbeOf, PollTyped, Modes
  <2>4. Headway(u) = Headway(q)
    BY <2>2 DEF ProbeOf, Headway
  <2>5. u.gap = q.gap /\ u.throttle = q.throttle /\ u.wait = 0 /\ u.stepped = q.stepped /\ u.opt = q.opt
    BY <1>1, <2>2 DEF ProbeOf
  <2>6. Ready(u)
    BY <1>1, <1>2, <2>3, <2>4, <2>5 DEF Ready, Probed
  <2>7. Scheduled(n) /\ SamePolls(n, u)
    BY <1>2, <2>1, <2>6, Rescheduled, Zenon
  <2>8. n.gap = q.gap /\ n.opt = q.opt /\ q.opt.lookup
    BY <1>1, <1>4, <2>5, <2>7 DEF SamePolls, Modes
  <2> QED
    BY <1>1, <1>2, <2>7, <2>8 DEF AnsweredByAddress, InTime
<1>5. CASE ~q.lookup
  <2> DEFINE t == Polled(q, fit, sys_poll)
             u == [t.q EXCEPT !.retry = Larger(@ - 1, 0)]
             x == peer_xmit(u)
  <2>1. n = poll_update(x, t.hpoll, r)
    BY <1>5, Zenon DEF transmit
  <2>2. t.hpoll \in Nat /\ MidPoll(u, q)
    BY <1>5, PolledMid, Zenon
  <2> HIDE DEF u, t
  <2>3. /\ PollTyped(u) /\ Modes(u) /\ u.wait = 0 /\ ~u.lookup /\ ~u.probing
        /\ u.gap = q.gap /\ u.throttle = q.throttle /\ u.opt = q.opt /\ u.minpoll = q.minpoll
        /\ u.stepped = q.stepped
        /\ ~q.opt.lookup => /\ u.reach % 2 = 0 => u.burst = 0 /\ u.since = 0
                            /\ u.reach = 0 => q.reach % 2 = 0
    BY <2>2 DEF MidPoll
  <2>4. \/ \E c \in Int : SendOf(x, u, c, TRUE, u.throttle + 2^u.minpoll - 2, 0, FALSE)
        \/ /\ u.opt.nts /\ u.count <= 0
           /\ \E h \in 0 .. PollTop : 2^h \in Nat /\ RestartOf(x, u, h, 2^h, TRUE)
    BY <2>3, Transmitted, Zenon
  <2> HIDE DEF x
  <2>5. CASE \E c \in Int : SendOf(x, u, c, TRUE, u.throttle + 2^u.minpoll - 2, 0, FALSE)
    <3> DEFINE th == q.throttle + 2^q.minpoll - 2
    <3>1. PICK c \in Int : SendOf(x, u, c, TRUE, th, 0, FALSE)
      BY <2>3, <2>5
    <3>2. th \in Int
      BY <1>2
    <3> HIDE DEF th
    <3>3. PollTyped(x)
      BY <2>3, <3>1, <3>2 DEF SendOf, PollTyped
    <3>4. /\ ~x.probing /\ ~x.lookup /\ ~x.stepped /\ x.wait = 0 /\ x.gap = 0 /\ x.throttle = th
          /\ x.reach = u.reach /\ x.burst = u.burst /\ x.since = u.since /\ x.opt = q.opt /\ x.minpoll = q.minpoll
      BY <2>3, <3>1 DEF SendOf
    <3>5. Ready(x)
      BY <3>3, <3>4 DEF Ready, Modes, Probed
    <3>6. Scheduled(n) /\ SamePolls(n, x)
      BY <2>1, <2>2, <3>5, Rescheduled, Zenon
    <3>7. /\ n.gap = 0 /\ n.throttle = th /\ n.reach = u.reach /\ n.burst = u.burst /\ n.since = u.since
          /\ n.opt = q.opt /\ n.minpoll = q.minpoll
      BY <3>4, <3>6 DEF SamePolls
    <3>8. AnsweredByAddress(n)
      BY <2>3, <3>7 DEF AnsweredByAddress, Answered
    <3>9. ~q.stepped => n.throttle <= NTP_SHIFT * 2^n.minpoll
      <4>1. ~q.stepped => th <= Headway(q) + 2^q.minpoll
        BY <1>1, <1>2, SMTT(20) DEF th
      <4> QED
        BY <1>2, <3>7, <4>1
    <3>10. InTime(n, q)
      BY <1>1, <1>5, <2>3, <3>7, <3>9, SMTT(20) DEF InTime
    <3> QED
      BY <3>6, <3>8, <3>10, SMTT(20)
  <2>6. CASE /\ u.opt.nts /\ u.count <= 0
             /\ \E h \in 0 .. PollTop : 2^h \in Nat /\ RestartOf(x, u, h, 2^h, TRUE)
    <3>1. PICK h \in 0 .. PollTop : 2^h \in Nat /\ RestartOf(x, u, h, 2^h, TRUE)
      BY <2>6
    <3>2. u.opt.lookup
      <4>1. u.opt \in Options /\ u.opt.nts
        BY <2>3, <2>6 DEF PollTyped
      <4> QED
        BY <4>1, PollAssumption
    <3> DEFINE w == 2^h
    <3>3. w \in Nat /\ RestartOf(x, u, h, w, TRUE)
      BY <3>1
    <3> HIDE DEF w
    <3>4. PollTyped(x)
      BY <2>3, <3>3 DEF RestartOf, PollTyped
    <3>5. Modes(x)
      BY <2>3, <3>2, <3>3 DEF RestartOf, Modes
    <3>6. /\ ~x.probing /\ x.wait = w /\ x.gap = q.gap /\ x.throttle = q.throttle /\ x.opt = q.opt
          /\ x.minpoll = q.minpoll /\ x.stepped = q.stepped
      BY <2>3, <3>3 DEF RestartOf
    <3>7. Headway(x) = Headway(q)
      BY <3>6, SMTT(20) DEF Headway
    <3> HIDE DEF Headway
    <3>8. ~x.stepped => Guarded(x)
      BY <1>1, <1>2, <3>3, <3>6, <3>7, SMTT(20) DEF Guarded
    <3>9. Ready(x)
      BY <3>4, <3>5, <3>6, <3>8 DEF Ready, Probed
    <3>10. Scheduled(n) /\ SamePolls(n, x)
      BY <2>1, <2>2, <3>9, Rescheduled, Zenon
    <3>11. n.gap = q.gap /\ n.opt.lookup
      BY <2>3, <3>2, <3>6, <3>10, SMTT(20) DEF SamePolls
    <3> QED
      BY <1>1, <1>2, <3>10, <3>11 DEF AnsweredByAddress, InTime
  <2> QED
    BY <2>4, <2>5, <2>6
<1> QED
  BY <1>2, <1>3, <1>4, <1>5

\* The invariant holds initially.
LEMMA PollInitInv == PollInit => PollInv
<1> SUFFICES ASSUME PollInit PROVE PollInv
  OBVIOUS
<1>1. PICK w \in 1 .. 2, opt \in Options :
        p = [opt |-> opt, minpoll |-> MinPoll, hpoll |-> MinPoll, burst |-> 0, retry |-> 0, reach |-> 0,
             unreach |-> 0, throttle |-> 0, outcount |-> FALSE, wait |-> w, since |-> 0,
             gap |-> Longest, lookup |-> opt.lookup, probing |-> FALSE, count |-> -1,
             steps |-> 0, stepped |-> FALSE]
  BY DEF PollInit
<1>2. opt.lookup \in BOOLEAN /\ MinPoll \in Nat /\ Longest \in Nat \ {0} /\ NTP_MINPKT \in Nat /\ NTP_MINPKT <= Longest
      /\ MinPoll <= PollTop /\ PollTop \in Nat
  BY PollAssumption DEF PollTop
<1>3. /\ opt \in Values /\ MinPoll \in Values /\ 0 \in Values /\ FALSE \in Values /\ w \in Values
      /\ Longest \in Values /\ opt.lookup \in Values /\ -1 \in Values
  BY <1>2 DEF Values
<1>4. p \in Assocs
  BY <1>1, <1>3, Zenon DEF Assocs
<1>5. /\ p.opt = opt /\ p.minpoll = MinPoll /\ p.hpoll = MinPoll /\ p.burst = 0 /\ p.retry = 0 /\ p.reach = 0
      /\ p.unreach = 0 /\ p.throttle = 0 /\ p.outcount = FALSE /\ p.wait = w /\ p.since = 0 /\ p.gap = Longest
      /\ p.lookup = opt.lookup /\ p.probing = FALSE /\ p.count = -1 /\ p.steps = 0 /\ p.stepped = FALSE
  BY <1>1
<1>6. PollTyped(p)
  <2>1. /\ p.opt \in Options /\ p.minpoll \in {MinPoll, KodMax} /\ p.hpoll \in 0 .. PollTop
        /\ p.burst \in Nat /\ p.retry \in Nat /\ p.reach \in Nat /\ p.unreach \in Nat /\ p.steps \in Nat
        /\ p.wait \in Nat /\ p.since \in Nat /\ p.gap \in Nat /\ p.throttle \in Int /\ p.count \in Int
    BY <1>2, <1>5
  <2>2. p.lookup \in BOOLEAN /\ p.probing \in BOOLEAN /\ p.outcount \in BOOLEAN /\ p.stepped \in BOOLEAN
    BY <1>2, <1>5, Zenon
  <2> QED
    BY <1>4, <2>1, <2>2 DEF PollTyped
<1>7. Headway(p) \in Nat
  BY <1>6, HeadwayNat DEF PollTyped
<1> HIDE DEF Headway
<1>8. Modes(p) /\ Guarded(p) /\ Probed(p) /\ Paced(p) /\ Answered(p)
  BY <1>2, <1>5, <1>7 DEF Modes, Guarded, Probed, Paced, Answered
<1> QED
  BY <1>2, <1>5, <1>6, <1>8 DEF PollInv, Scheduled, AnsweredByAddress

\* A second of timer().
LEMMA TimerStep ==
  ASSUME PollInv, poll_timer
  PROVE  PollInv' /\ WellSpaced
<1> DEFINE q == Tick(p)
<1>1. IF q.wait > 0 THEN p' = q
      ELSE \E fit, free \in BOOLEAN, sys_poll \in MinPoll .. MaxPoll, r \in Spread :
             p' = transmit(q, fit, sys_poll, free, r)
  BY DEF poll_timer, Tick
<1>2. /\ q.wait > 0 => Scheduled(q) /\ AnsweredByAddress(q)
      /\ ~(q.wait > 0) => Due(q)
      /\ q.gap <= p.gap + 1 /\ q.gap # 0 /\ q.outcount = p.outcount
      /\ q.opt = p.opt /\ q.minpoll = p.minpoll /\ q.stepped = p.stepped
      /\ q.lookup = p.lookup /\ q.probing = p.probing
  BY Ticked, Zenon DEF PollInv
<1> HIDE DEF q
<1>3. CASE q.wait > 0
  BY <1>1, <1>2, <1>3 DEF PollInv, WellSpaced, Sends
<1>4. CASE ~(q.wait > 0)
  <2>1. PICK fit \in BOOLEAN, free \in BOOLEAN, sys_poll \in MinPoll .. MaxPoll, r \in Spread :
          p' = transmit(q, fit, sys_poll, free, r)
    BY <1>1, <1>4, Zenon
  <2>2. r \in Nat /\ Due(q)
    BY <1>2, <1>4, PollAssumption
  <2>3. Scheduled(p') /\ AnsweredByAddress(p') /\ InTime(p', q)
    BY <2>1, <2>2, TransmitKeepsInv, Zenon
  <2>4. ASSUME Sends, ~p.stepped
        PROVE  /\ Elapsed >= NTP_MINPKT
               /\ p'.throttle <= NTP_SHIFT * 2^p'.minpoll
               /\ p'.reach = 0 /\ ~p.opt.lookup => Elapsed >= Smaller(2^p.minpoll, Longest)
    <3>1. /\ ~q.lookup /\ p'.throttle <= NTP_SHIFT * 2^p'.minpoll
          /\ p'.reach = 0 /\ ~q.opt.lookup => q.gap >= Interval(q)
      BY <1>2, <2>3, <2>4 DEF InTime, Sends
    <3>2. ~p.probing
      BY <1>2, <3>1 DEF PollInv, Scheduled, Modes
    <3>3. Elapsed = p.gap + 1
      BY <3>2, SMTT(20) DEF Elapsed
    <3>4. /\ q.gap >= NTP_MINPKT /\ q.gap \in Nat /\ p.gap \in Nat /\ NTP_MINPKT \in Nat
          /\ Interval(q) \in Nat /\ Interval(q) = Smaller(2^p.minpoll, Longest)
      <4>1. q.gap >= NTP_MINPKT /\ PollTyped(q)
        BY <1>2, <2>2, <2>4 DEF Due
      <4>2. p.gap \in Nat
        BY DEF PollInv, Scheduled, PollTyped
      <4>3. Interval(q) = Smaller(2^p.minpoll, Longest)
        BY <1>2 DEF Interval
      <4> QED
        BY <4>1, <4>2, <4>3, HeadwayNat, PollAssumption, SMTT(20) DEF PollTyped
    <3> DEFINE i == Smaller(2^p.minpoll, Longest)
    <3>5. i = Interval(q)
      BY <3>4
    <3> HIDE DEF i
    <3>6. Elapsed >= NTP_MINPKT /\ (q.gap >= Interval(q) => Elapsed >= i)
      BY <1>2, <3>3, <3>4, <3>5, SMTT(20)
    <3> QED
      BY <1>2, <3>1, <3>6, SMTT(20) DEF i
  <2> QED
    BY <2>3, <2>4 DEF PollInv, WellSpaced
<1> QED
  BY <1>3, <1>4

\* Replies come only when no lookup and no clock step is in between.
LEMMA AwaitsReply ==
  ASSUME PollInv, p.outcount, ~p.lookup
  PROVE  /\ PollTyped(p) /\ Modes(p) /\ ~p.stepped /\ ~p.probing /\ p.hpoll >= p.minpoll
         /\ Guarded(p) /\ (~p.opt.lookup => Paced(p) /\ Answered(p))
BY DEF PollInv, Scheduled, Modes, AnsweredByAddress, PollTyped

LEMMA BadReplyStep ==
  ASSUME PollInv, BadReply
  PROVE  PollInv' /\ WellSpaced
<1>1. p.outcount /\ ~p.lookup /\ p' = [p EXCEPT !.outcount = FALSE]
  BY DEF BadReply
<1>2. /\ PollTyped(p) /\ Modes(p) /\ ~p.stepped /\ ~p.probing /\ p.hpoll >= p.minpoll
      /\ Guarded(p) /\ (~p.opt.lookup => Paced(p) /\ Answered(p))
  BY <1>1, AwaitsReply, SMTT(20)
<1>3. p \in Assocs /\ FALSE \in Values
  BY <1>2 DEF PollTyped, Values
<1>4. ClosedOf(p', p, FALSE)
  BY <1>1, <1>3, ClosedFields, Zenon
<1>5. PollTyped(p') /\ Modes(p')
  BY <1>2, <1>4 DEF ClosedOf, PollTyped, Modes
<1>6. Headway(p') = Headway(p) /\ Interval(p') = Interval(p)
  BY <1>4 DEF ClosedOf, Headway, Interval
<1> HIDE DEF Headway, Interval
<1>7. Guarded(p') /\ Probed(p') /\ (~p'.opt.lookup => Paced(p') /\ Answered(p'))
  BY <1>2, <1>4, <1>6, SMTT(20) DEF ClosedOf, Guarded, Probed, Paced, Answered
<1>8. p'.hpoll >= p'.minpoll /\ ~p'.outcount
  BY <1>2, <1>4 DEF ClosedOf
<1> QED
  BY <1>5, <1>7, <1>8 DEF PollInv, Scheduled, AnsweredByAddress, WellSpaced, Sends

\* The length of a burst.
LEMMA BurstNat ==
  ASSUME NEW q, PollTyped(q), q.hpoll >= q.minpoll
  PROVE  BurstLength(q) \in Nat
<1>1. q.hpoll - q.minpoll \in 0 .. PollTop
  <2>1. q.minpoll \in 0 .. PollTop /\ q.hpoll \in 0 .. PollTop /\ PollTop \in Nat
    BY HeadwayNat, PollAssumption DEF PollTyped, PollTop
  <2> QED
    BY <2>1
<1> DEFINE w == 2^(q.hpoll - q.minpoll)
<1>2. w \in Nat \ {0}
  BY <1>1, PollPowers
<1> HIDE DEF w
<1>3. Smaller(w, NTP_SHIFT) - 1 \in Nat /\ NTP_IBURST - 1 \in Nat
  BY <1>2, PollAssumption DEF Smaller
<1> QED
  BY <1>3 DEF BurstLength, w

LEMMA GoodReplyStep ==
  ASSUME PollInv, GoodReply
  PROVE  PollInv' /\ WellSpaced
<1> DEFINE c == IF p.opt.nts THEN Cookies ELSE p.count
           q == [p EXCEPT !.outcount = FALSE, !.count = c]
           b == BurstLength(q)
           w == IF b > 0 THEN 0 ELSE q.wait
           u == IF q.retry = 0 THEN q ELSE [q EXCEPT !.retry = 0, !.burst = b, !.wait = w]
           v(r) == poll_update(u, u.hpoll, r)
           e(r) == IF v(r).reach % 2 = 0 THEN v(r).reach + 1 ELSE v(r).reach
<1>1. p.outcount /\ ~p.lookup
  BY DEF GoodReply
<1>2. /\ PollTyped(p) /\ Modes(p) /\ ~p.stepped /\ ~p.probing /\ p.hpoll >= p.minpoll
      /\ Guarded(p) /\ (~p.opt.lookup => Paced(p) /\ Answered(p))
  BY <1>1, AwaitsReply, SMTT(20)
<1>3. p \in Assocs /\ c \in Int /\ c \in Values /\ FALSE \in Values /\ 0 \in Values
  BY <1>2, PollAssumption DEF PollTyped, Values
<1>4. ReplyOf(q, p, FALSE, c)
  <2> HIDE DEF c
  <2> QED
    BY <1>3, ReplyFields, Zenon
<1>5. PICK r \in Spread : p' = [v(r) EXCEPT !.reach = e(r)]
  BY Zenon DEF GoodReply
<1>6. r \in Nat
  BY PollAssumption, SMTT(20)
<1> HIDE DEF c, q, e
<1>7. PollTyped(q) /\ Modes(q) /\ Guarded(q) /\ q.hpoll >= q.minpoll /\ ~q.probing /\ ~q.stepped /\ ~q.lookup
      /\ ~q.outcount /\ q \in Assocs
  BY <1>1, <1>2, <1>3, <1>4 DEF ReplyOf, PollTyped, Modes, Guarded, Headway
<1>8. b \in Nat /\ w \in Nat /\ (b # 0 => w = 0)
  <2>1. b \in Nat
    BY <1>7, BurstNat
  <2> QED
    BY <1>7, <2>1 DEF PollTyped
<1> HIDE DEF b, w
<1>9. Ready(u) /\ ~u.stepped /\ ~u.outcount
  <2>1. CASE q.retry = 0
    BY <1>7, <2>1 DEF Ready, Probed
  <2>2. CASE q.retry # 0
    <3>1. b \in Values /\ w \in Values /\ 0 \in Values
      BY <1>8 DEF Values
    <3>2. u = [q EXCEPT !.retry = 0, !.burst = b, !.wait = w]
      BY <2>2
    <3> HIDE DEF u
    <3>3. BurstOf(u, q, 0, b, w)
      BY <1>7, <3>1, <3>2, BurstFields, Zenon
    <3>4. PollTyped(u)
      BY <1>7, <1>8, <3>3 DEF BurstOf, PollTyped
    <3>5. Modes(u) /\ ~u.probing /\ ~u.stepped /\ ~u.outcount
      BY <1>7, <3>3 DEF BurstOf, Modes
    <3>6. ~(u.burst # 0 /\ u.wait > 0)
      BY <1>8, <3>3 DEF BurstOf
    <3> QED
      BY <3>4, <3>5, <3>6 DEF Ready, Probed
  <2> QED
    BY <2>1, <2>2
<1> HIDE DEF u
<1>10. u.hpoll \in Nat
  BY <1>9 DEF Ready, PollTyped
<1>11. Scheduled(v(r)) /\ SamePolls(v(r), u)
  BY <1>6, <1>9, <1>10, Rescheduled, ZenonT(30)
<1> HIDE DEF v
<1>12. ~v(r).stepped /\ ~v(r).outcount /\ PollTyped(v(r)) /\ Modes(v(r)) /\ v(r) \in Assocs /\ v(r).reach \in Nat
  BY <1>9, <1>11, ZenonT(30) DEF Scheduled, PollTyped, SamePolls
<1>13. e(r) \in Nat /\ e(r) % 2 # 0 /\ e(r) \in Values
  BY <1>12 DEF e, Values
<1> DEFINE y == v(r)
           z == e(r)
<1>14. p' = [y EXCEPT !.reach = z] /\ y \in Assocs /\ z \in Values /\ Scheduled(y) /\ ~y.stepped /\ ~y.outcount
       /\ z \in Nat /\ z % 2 # 0
  BY <1>5, <1>11, <1>12, <1>13
<1> HIDE DEF y, z
<1>15. ReachOf(p', y, z)
  BY <1>14, ReachFields, Zenon
<1>16. PollTyped(p') /\ Modes(p') /\ (~p'.lookup => p'.hpoll >= p'.minpoll)
  BY <1>14, <1>15 DEF ReachOf, PollTyped, Modes, Scheduled
<1>17. Guarded(p') /\ Probed(p') /\ (~p'.opt.lookup => Paced(p'))
  BY <1>14, <1>15 DEF ReachOf, Scheduled, Guarded, Probed, Paced, Headway, Interval
<1>18. p'.reach % 2 # 0 /\ ~p'.outcount
  BY <1>14, <1>15 DEF ReachOf
<1> QED
  BY <1>16, <1>17, <1>18 DEF PollInv, Scheduled, AnsweredByAddress, Answered, WellSpaced, Sends

LEMMA KodStep ==
  ASSUME PollInv, KodReply
  PROVE  PollInv' /\ WellSpaced
<1>1. p.outcount /\ ~p.lookup
  BY DEF KodReply
<1>2. /\ PollTyped(p) /\ Modes(p) /\ ~p.stepped /\ ~p.probing
      /\ (~p.opt.lookup => Answered(p))
  BY <1>1, AwaitsReply
<1>3. PICK ppoll \in KodPolls, r \in Spread : Kod(ppoll, r)
  BY DEF KodReply
<1> DEFINE th == (NTP_SHIFT + 1) * 2^p.minpoll
           m == IF ppoll > p.minpoll THEN KodMax ELSE p.minpoll
           q == [p EXCEPT !.outcount = FALSE, !.burst = 0, !.retry = 0, !.throttle = th, !.minpoll = m]
           s == Smaller(ppoll, KodMax)
<1>4. p \in Assocs
  BY <1>2 DEF PollTyped
<1>5. p' = poll_update(q, s, r)
  BY <1>3, <1>4 DEF Kod, Assocs
<1>6. r \in Nat /\ s \in Nat
  BY PollAssumption DEF Smaller
<1>7. th \in Int /\ m \in {MinPoll, KodMax} /\ m \in Nat
  <2>1. 2^p.minpoll \in Nat /\ NTP_SHIFT \in Nat
    BY <1>2, HeadwayNat, PollAssumption DEF PollTyped
  <2>2. th \in Int
    BY <2>1
  <2> QED
    BY <1>2, <2>2, PollAssumption DEF PollTyped
<1> HIDE DEF th, m, s
<1>8. th \in Values /\ m \in Values /\ 0 \in Values /\ FALSE \in Values
  BY <1>7 DEF Values
<1>9. KodOf(q, p, FALSE, 0, 0, th, m)
  BY <1>4, <1>8, KodFields, Zenon
<1> HIDE DEF q
<1>10. PollTyped(q)
  <2>1. /\ p.opt \in Options /\ p.hpoll \in 0 .. PollTop /\ p.reach \in Nat /\ p.unreach \in Nat /\ p.steps \in Nat
        /\ p.wait \in Nat /\ p.since \in Nat /\ p.gap \in Nat /\ p.count \in Int
        /\ p.lookup \in BOOLEAN /\ p.probing \in BOOLEAN /\ p.stepped \in BOOLEAN
    BY <1>2 DEF PollTyped
  <2>2. /\ q.opt \in Options /\ q.minpoll \in {MinPoll, KodMax} /\ q.hpoll \in 0 .. PollTop
        /\ q.burst \in Nat /\ q.retry \in Nat /\ q.reach \in Nat /\ q.unreach \in Nat /\ q.steps \in Nat
        /\ q.wait \in Nat /\ q.since \in Nat /\ q.gap \in Nat /\ q.throttle \in Int /\ q.count \in Int
    BY <1>7, <1>9, <2>1 DEF KodOf
  <2>3. q.lookup \in BOOLEAN /\ q.probing \in BOOLEAN /\ q.outcount \in BOOLEAN /\ q.stepped \in BOOLEAN
    BY <1>9, <2>1, Zenon DEF KodOf
  <2> QED
    BY <1>9, <2>2, <2>3, Zenon DEF KodOf, PollTyped
<1>11. Modes(q) /\ ~q.probing /\ ~q.stepped /\ q.burst = 0 /\ ~q.outcount
  BY <1>1, <1>2, <1>9 DEF KodOf, Modes
<1>12. Ready(q)
  BY <1>10, <1>11 DEF Ready, Probed
<1>13. Scheduled(p') /\ SamePolls(p', q)
  BY <1>5, <1>6, <1>12, Rescheduled, Zenon
<1>14. AnsweredByAddress(p') /\ ~p'.outcount
  BY <1>2, <1>9, <1>11, <1>13 DEF KodOf, SamePolls, AnsweredByAddress, Answered
<1> QED
  BY <1>13, <1>14 DEF PollInv, WellSpaced, Sends

\* A lookup found an address: the packet that goes out at once was due.
LEMMA FoundStep ==
  ASSUME PollInv, dns_take_server
  PROVE  PollInv' /\ WellSpaced
<1> DEFINE c == IF p.opt.nts THEN Cookies ELSE p.count
           q == [p EXCEPT !.probing = FALSE, !.lookup = FALSE, !.wait = 0, !.hpoll = p.minpoll, !.count = c]
           x == peer_xmit(q)
           u == IF x.opt.iburst THEN [x EXCEPT !.retry = NTP_RETRY] ELSE x
<1>1. p.probing /\ PollTyped(p) /\ Modes(p) /\ p \in Assocs /\ (~p.stepped => Probed(p))
  BY DEF dns_take_server, PollInv, Scheduled, PollTyped
<1>2. PICK r \in Spread : p' = poll_update(u, u.hpoll, r)
  <2>1. q = [p EXCEPT !.probing = FALSE, !.lookup = FALSE, !.wait = 0, !.hpoll = p.minpoll,
                      !.count = IF p.opt.nts THEN Cookies ELSE @]
    BY <1>1 DEF Assocs
  <2> HIDE DEF q
  <2> QED
    BY <2>1, Zenon DEF dns_take_server
<1>3. /\ p.minpoll \in {MinPoll, KodMax} /\ p.minpoll \in 0 .. PollTop /\ p.opt \in Options /\ p.gap \in Nat
      /\ p.throttle \in Int /\ 2^p.minpoll \in Nat /\ Headway(p) \in Nat /\ NTP_MINPKT \in Nat
      /\ NTP_SHIFT * 2^p.minpoll = Headway(p) + 2^p.minpoll
  BY <1>1, HeadwayNat, PollAssumption DEF PollTyped
<1>4. c \in Int /\ c \in Values /\ p.minpoll \in Values /\ 0 \in Values /\ FALSE \in Values
      /\ (p.opt.nts => c > 0) /\ r \in Nat /\ NTP_RETRY \in Nat /\ NTP_RETRY \in Values
  BY <1>1, <1>3, PollAssumption DEF PollTyped, Values
<1> HIDE DEF c
<1>5. FoundOf(q, p, FALSE, FALSE, 0, p.minpoll, c)
  BY <1>1, <1>4, FoundFields, Zenon
<1> HIDE DEF q
<1>6. PollTyped(q)
  <2>1. /\ p.opt \in Options /\ p.minpoll \in {MinPoll, KodMax} /\ p.hpoll \in 0 .. PollTop
        /\ p.burst \in Nat /\ p.retry \in Nat /\ p.reach \in Nat /\ p.unreach \in Nat /\ p.steps \in Nat
        /\ p.wait \in Nat /\ p.since \in Nat /\ p.gap \in Nat /\ p.throttle \in Int /\ p.count \in Int
    BY <1>1 DEF PollTyped
  <2>2. p.lookup \in BOOLEAN /\ p.probing \in BOOLEAN /\ p.outcount \in BOOLEAN /\ p.stepped \in BOOLEAN
    BY <1>1 DEF PollTyped
  <2>3. /\ q.opt \in Options /\ q.minpoll \in {MinPoll, KodMax} /\ q.hpoll \in 0 .. PollTop
        /\ q.burst \in Nat /\ q.retry \in Nat /\ q.reach \in Nat /\ q.unreach \in Nat /\ q.steps \in Nat
        /\ q.wait \in Nat /\ q.since \in Nat /\ q.gap \in Nat /\ q.throttle \in Int /\ q.count \in Int
    BY <1>3, <1>4, <1>5, <2>1 DEF FoundOf
  <2>4. q.lookup \in BOOLEAN /\ q.probing \in BOOLEAN /\ q.outcount \in BOOLEAN /\ q.stepped \in BOOLEAN
    BY <1>5, <2>2, Zenon DEF FoundOf
  <2> QED
    BY <1>5, <2>3, <2>4, Zenon DEF FoundOf, PollTyped
<1>7. /\ q.opt = p.opt /\ q.count = c /\ q.throttle = p.throttle /\ q.minpoll = p.minpoll /\ ~q.lookup /\ ~q.probing
      /\ q.wait = 0 /\ q.hpoll = p.minpoll
  BY <1>5 DEF FoundOf
<1>8. \/ \E k \in Int : SendOf(x, q, k, TRUE, q.throttle + 2^q.minpoll - 2, 0, FALSE)
      \/ /\ q.opt.nts /\ q.count <= 0
         /\ \E h \in 0 .. PollTop : 2^h \in Nat /\ RestartOf(x, q, h, 2^h, TRUE)
  BY <1>6, Transmitted, Zenon
<1> HIDE DEF x
<1> DEFINE th == p.throttle + 2^p.minpoll - 2
<1>9. PICK k \in Int : SendOf(x, q, k, TRUE, th, 0, FALSE)
  <2>1. ~(q.opt.nts /\ q.count <= 0)
    BY <1>4, <1>7
  <2>2. PICK k \in Int : SendOf(x, q, k, TRUE, q.throttle + 2^q.minpoll - 2, 0, FALSE)
    BY <1>8, <2>1, Zenon
  <2>3. q.throttle + 2^q.minpoll - 2 = th
    BY <1>7
  <2> QED
    BY <2>2, <2>3, Zenon
<1>10. th \in Int /\ (p.throttle <= Headway(p) => th <= NTP_SHIFT * 2^p.minpoll)
  BY <1>3
<1> HIDE DEF th
<1>11. PollTyped(x) /\ x \in Assocs
  <2>1. /\ q.opt \in Options /\ q.minpoll \in {MinPoll, KodMax} /\ q.hpoll \in 0 .. PollTop
        /\ q.burst \in Nat /\ q.retry \in Nat /\ q.reach \in Nat /\ q.unreach \in Nat /\ q.steps \in Nat
        /\ q.wait \in Nat /\ q.since \in Nat /\ q.gap \in Nat /\ q.throttle \in Int /\ q.count \in Int
    BY <1>6 DEF PollTyped
  <2>2. q.lookup \in BOOLEAN /\ q.probing \in BOOLEAN /\ q.outcount \in BOOLEAN /\ q.stepped \in BOOLEAN
    BY <1>6 DEF PollTyped
  <2>3. /\ x.opt \in Options /\ x.minpoll \in {MinPoll, KodMax} /\ x.hpoll \in 0 .. PollTop
        /\ x.burst \in Nat /\ x.retry \in Nat /\ x.reach \in Nat /\ x.unreach \in Nat /\ x.steps \in Nat
        /\ x.wait \in Nat /\ x.since \in Nat /\ x.gap \in Nat /\ x.throttle \in Int /\ x.count \in Int
    BY <1>10, <1>9, <2>1 DEF SendOf
  <2>4. x.lookup \in BOOLEAN /\ x.probing \in BOOLEAN /\ x.outcount \in BOOLEAN /\ x.stepped \in BOOLEAN
    BY <1>9, <2>2, Zenon DEF SendOf
  <2> QED
    BY <1>9, <2>3, <2>4, Zenon DEF SendOf, PollTyped
<1>12. /\ ~x.probing /\ ~x.lookup /\ ~x.stepped /\ x.wait = 0 /\ x.gap = 0 /\ x.throttle = th
       /\ x.opt = p.opt /\ x.minpoll = p.minpoll
  BY <1>7, <1>9 DEF SendOf
<1>13. /\ PollTyped(u) /\ ~u.probing /\ ~u.lookup /\ ~u.stepped /\ u.wait = 0 /\ u.gap = 0 /\ u.throttle = th
       /\ u.opt = p.opt /\ u.minpoll = p.minpoll
  <2>1. CASE ~x.opt.iburst
    BY <1>11, <1>12, <2>1, SMTT(20)
  <2>2. CASE x.opt.iburst
    <3>1. u = [x EXCEPT !.retry = NTP_RETRY]
      BY <2>2
    <3> HIDE DEF u
    <3>2. RetryOf(u, x, NTP_RETRY)
      BY <1>4, <1>11, <3>1, RetryFields, Zenon
    <3> QED
      BY <1>4, <1>11, <1>12, <3>2 DEF RetryOf, PollTyped
  <2> QED
    BY <2>1, <2>2
<1> HIDE DEF u
<1>14. Ready(u) /\ u.hpoll \in Nat
  BY <1>13 DEF Ready, Modes, Probed, PollTyped
<1>15. Scheduled(p') /\ SamePolls(p', u)
  BY <1>2, <1>4, <1>14, Rescheduled, Zenon
<1>16. p'.opt = p.opt /\ p'.throttle = th /\ p'.minpoll = p.minpoll /\ p.opt.lookup
  BY <1>1, <1>13, <1>15 DEF SamePolls, Modes
<1>17. ~p.stepped => Elapsed >= NTP_MINPKT /\ p'.throttle <= NTP_SHIFT * 2^p'.minpoll
  BY <1>1, <1>10, <1>16 DEF Probed, Elapsed
<1> QED
  BY <1>15, <1>16, <1>17 DEF PollInv, AnsweredByAddress, WellSpaced

\* A lookup found nothing: the next comes after the interval between lookups.
LEMMA FailedStep ==
  ASSUME PollInv, dns_take_status
  PROVE  PollInv' /\ WellSpaced
<1>1. p.probing /\ PollTyped(p) /\ Modes(p) /\ p \in Assocs /\ (~p.stepped => Probed(p)) /\ p.lookup
  BY DEF dns_take_status, PollInv, Scheduled, PollTyped, Modes
<1> DEFINE hpoll == Larger(p.hpoll, RetryMin)
<1>2. PICK n \in {Smaller(hpoll + 1, RetryMax), Smaller(hpoll + 4, RetryMax), RetryTemp} :
        p' = [p EXCEPT !.probing = FALSE, !.hpoll = n, !.wait = 2^n]
  BY Zenon DEF dns_take_status
<1>3. n \in 0 .. PollTop
  BY <1>1, PollAssumption DEF PollTyped, Larger, Smaller, PollTop
<1> DEFINE w == 2^n
<1>4. w \in Nat /\ w \in Values /\ n \in Values /\ FALSE \in Values
  BY <1>3, PollPowers DEF Values
<1>5. p' = [p EXCEPT !.probing = FALSE, !.hpoll = n, !.wait = w]
  BY <1>2
<1> HIDE DEF w, hpoll
<1>6. FailedOf(p', p, FALSE, n, w)
  BY <1>1, <1>4, <1>5, FailedFields, Zenon
<1>7. PollTyped(p')
  BY <1>1, <1>3, <1>4, <1>6 DEF FailedOf, PollTyped
<1>8. Modes(p') /\ p'.lookup /\ p'.opt.lookup /\ ~p'.probing
  BY <1>1, <1>6 DEF FailedOf, Modes
<1>9. Headway(p') = Headway(p) /\ Headway(p) \in Nat /\ NTP_MINPKT \in Nat
  <2>1. p'.minpoll = p.minpoll /\ p.minpoll \in {MinPoll, KodMax}
    BY <1>1, <1>6 DEF FailedOf, PollTyped
  <2>2. Headway(p') = Headway(p)
    BY <2>1, Zenon DEF Headway
  <2>3. Headway(p) \in Nat
    BY <2>1, HeadwayNat
  <2>4. NTP_MINPKT \in Nat
    BY PollAssumption
  <2> QED BY <2>2, <2>3, <2>4
<1>10. /\ p'.gap = p.gap /\ p'.throttle = p.throttle /\ p'.stepped = p.stepped /\ p'.wait = w
       /\ p.gap \in Nat /\ p.throttle \in Int
  BY <1>1, <1>6, SMTT(20) DEF FailedOf, PollTyped
<1> HIDE DEF Headway
<1>11. ~p'.stepped => Guarded(p') /\ Probed(p')
  BY <1>1, <1>4, <1>8, <1>9, <1>10, SMTT(20) DEF Guarded, Probed
<1> QED
  BY <1>1, <1>7, <1>8, <1>11 DEF PollInv, Scheduled, AnsweredByAddress, WellSpaced, Sends

\* The clock is stepped.
LEMMA ClearStep ==
  ASSUME PollInv, poll_clear
  PROVE  PollInv' /\ WellSpaced
<1>1. PollTyped(p) /\ Modes(p) /\ p \in Assocs
  BY SMTT(20) DEF PollInv, Scheduled, PollTyped
<1>2. PICK w \in 0 .. 2^p.minpoll - 1 : p' = [peer_clear(p, w) EXCEPT !.steps = @ + 1, !.stepped = TRUE]
  BY DEF poll_clear
<1>3. p.minpoll \in {MinPoll, KodMax} /\ p.minpoll \in 0 .. PollTop /\ w \in Nat
  BY <1>1, HeadwayNat DEF PollTyped
<1>4. 0 \in Values /\ FALSE \in Values /\ TRUE \in Values /\ w \in Values /\ p.minpoll \in Values
  BY <1>3 DEF Values
<1> DEFINE q == peer_clear(p, w)
           k == q.steps + 1
<1>5. q = [p EXCEPT !.burst = 0, !.retry = 0, !.reach = 0, !.outcount = FALSE, !.hpoll = p.minpoll,
                    !.since = 0, !.wait = w]
  BY Zenon DEF peer_clear
<1> HIDE DEF q
<1>6. ClearOf(q, p, 0, 0, 0, FALSE, p.minpoll, 0, w)
  BY <1>1, <1>4, <1>5, ClearFields, Zenon
<1>7. q \in Assocs /\ q.steps \in Nat
  BY <1>1, <1>6 DEF ClearOf, PollTyped
<1>8. p' = [q EXCEPT !.steps = k, !.stepped = TRUE]
  BY <1>2, <1>7 DEF q, Assocs
<1>9. k \in Nat /\ k \in Values
  BY <1>7 DEF Values
<1> HIDE DEF k
<1>10. SteppedOf(p', q, k, TRUE)
  BY <1>4, <1>7, <1>8, <1>9, SteppedFields, Zenon
<1>11. /\ p' \in Assocs /\ p'.opt = p.opt /\ p'.minpoll = p.minpoll /\ p'.hpoll = p.minpoll /\ p'.burst = 0
       /\ p'.retry = 0 /\ p'.reach = 0 /\ p'.unreach = p.unreach /\ p'.throttle = p.throttle
       /\ p'.outcount = FALSE /\ p'.wait = w /\ p'.since = 0 /\ p'.gap = p.gap /\ p'.lookup = p.lookup
       /\ p'.probing = p.probing /\ p'.count = p.count /\ p'.steps = k /\ p'.stepped = TRUE
  BY <1>6, <1>10 DEF ClearOf, SteppedOf
<1>12. PollTyped(p')
  <2>1. /\ p.opt \in Options /\ p.unreach \in Nat /\ p.gap \in Nat /\ p.throttle \in Int /\ p.count \in Int
        /\ p.lookup \in BOOLEAN /\ p.probing \in BOOLEAN
    BY <1>1 DEF PollTyped
  <2>2. /\ p'.opt \in Options /\ p'.minpoll \in {MinPoll, KodMax} /\ p'.hpoll \in 0 .. PollTop
        /\ p'.burst \in Nat /\ p'.retry \in Nat /\ p'.reach \in Nat /\ p'.unreach \in Nat /\ p'.steps \in Nat
        /\ p'.wait \in Nat /\ p'.since \in Nat /\ p'.gap \in Nat /\ p'.throttle \in Int /\ p'.count \in Int
    BY <1>3, <1>9, <1>11, <2>1
  <2>3. p'.lookup \in BOOLEAN /\ p'.probing \in BOOLEAN /\ p'.outcount \in BOOLEAN /\ p'.stepped \in BOOLEAN
    BY <1>11, <2>1, Zenon
  <2> QED
    BY <1>11, <2>2, <2>3, Zenon DEF PollTyped
<1>13. Modes(p') /\ p'.hpoll >= p'.minpoll
  BY <1>1, <1>3, <1>11 DEF Modes
<1> QED
  BY <1>11, <1>12, <1>13 DEF PollInv, Scheduled, AnsweredByAddress, WellSpaced, Sends

\* Every step of the poll process keeps the invariant and the spacing.
LEMMA PollStep ==
  ASSUME PollInv, PollNext
  PROVE  PollInv' /\ WellSpaced
BY TimerStep, BadReplyStep, GoodReplyStep, KodStep, FoundStep, FailedStep, ClearStep DEF PollNext

\* The invariant of the poll process: between packets the time of the next poll
\* leaves room for the guard time, the headway and the interval.
THEOREM PollInvariant == PollSpec => []PollInv
<1>1. PollInv /\ [PollNext]_p => PollInv'
  <2>1. CASE PollNext
    BY <2>1, PollStep
  <2>2. CASE UNCHANGED p
    BY <2>2 DEF PollInv
  <2> QED
    BY <2>1, <2>2
<1> QED
  BY <1>1, PollInitInv, PTL DEF PollSpec

\* For every configured interval, every mix of options and every order of polls,
\* replies, RATE packets, lookups and clock steps: transmit, peer_xmit and
\* dns_take_server send no two packets within the guard time, never beyond the
\* headway, and to a server by address that is silent at most one per interval.
THEOREM PacketsSpaced == PollSpec => PollsSpaced
<1>1. PollInv /\ [PollNext]_p => [WellSpaced]_p
  BY PollStep
<1> QED
  BY <1>1, PollInvariant, PTL DEF PollSpec, PollsSpaced
=============================================================================
