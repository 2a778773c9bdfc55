--------------------------- MODULE ClockSelection ---------------------------
(***************************************************************************)
(* The algorithms of clock_select: which associations are fit, the         *)
(* intersection of their correctness intervals, the clustering of the      *)
(* truechimers, the choice of the system peer and the combined offset.     *)
(*                                                                         *)
(* Offsets, distances and jitters are integers in a common unit.  Square   *)
(* roots are never taken: a select jitter is kept as the sum of squares    *)
(* under the root, and comparisons are squared.  "dist" of an association  *)
(* is the sum of delays, dispersions, precision and jitter that            *)
(* root_distance makes; it grows while no packet comes.                    *)
(***************************************************************************)
EXTENDS Integers, Sequences, SequencesExt, FiniteSetsExt

CONSTANTS
  sys_mindist, sys_maxdist,     \* distance floor and selection threshold
  sys_minclock, sys_maxclock,   \* survivors to keep, and to mark as excess
  sys_minsane,                  \* survivors needed to set the clock
  sys_floor, sys_ceiling,       \* strata that are fit
  sys_orphan,                   \* the orphan stratum
  LocalMetric,                  \* this host's orphan metric
  PpsGate                       \* largest offset a PPS source may correct (0.4 s)

ASSUME SelectionAssumption ==
  /\ {sys_mindist, sys_maxdist, sys_minclock, sys_maxclock, sys_minsane,
      sys_floor, sys_ceiling, sys_orphan, LocalMetric, PpsGate} \subseteq Nat
  /\ sys_mindist > 0

STRATUM_UNSPEC == 16
Abs(n) == IF n < 0 THEN -n ELSE n
Total(s) ==
  LET sum[i \in 0 .. Len(s)] == IF i = 0 THEN 0 ELSE sum[i - 1] + s[i] IN sum[Len(s)]

\* root_distance
root_distance(p) == Max({p.dist, sys_mindist})

\* peer_unfit: bad leap or stratum (BOGON10), distance exceeded (BOGON11), a
\* synchronization loop (BOGON12), unreachable or noselect (BOGON13).
peer_unfit(p) ==
  \/ p.leap = "notinsync"
  \/ p.stratum \notin sys_floor .. sys_ceiling - 1
  \/ ~p.refclock /\ (root_distance(p) >= sys_maxdist \/ p.disp >= sys_maxdist)
  \/ p.stratum > 1 /\ p.loop
  \/ ~p.reach \/ p.noselect

-----------------------------------------------------------------------------
(***************************************************************************)
(* The island: who is fit, and who is held back as a fallback.  "peer" are *)
(* the associations, "list" the order of peer_list (an association that    *)
(* waits for a lookup, or a pool, is left out of it), "waited" whether     *)
(* orphwait has passed.                                                    *)
(***************************************************************************)
Fit(peer, list) == SelectSeq(list, LAMBDA i : ~peer_unfit(peer[i]))
FirstOf(list, S) == IF S = {} THEN 0 ELSE list[Min({k \in DOMAIN list : list[k] \in S})]

\* The orphan parent: the lowest metric, if it is below our own.
Orphan(peer, list) ==
  LET S == {i \in ToSet(Fit(peer, list)) : peer[i].stratum = sys_orphan /\ peer[i].metric < LocalMetric}
  IN  FirstOf(list, {i \in S : \A j \in S : peer[i].metric <= peer[j].metric})

\* A local clock or a modem takes part only as the prefer peer.
HeldBack(p) == ~p.prefer /\ p.kind \in {"local", "modem"}
Fallback(peer, list, kind, waited) ==
  FirstOf(list, {i \in ToSet(Fit(peer, list)) : /\ waited
                                                /\ peer[i].stratum < sys_orphan
                                                /\ HeldBack(peer[i]) /\ peer[i].kind = kind})

\* The candidates, in the order of the list.
Candidates(peer, list) ==
  SelectSeq(Fit(peer, list), LAMBDA i : peer[i].stratum < sys_orphan /\ ~HeldBack(peer[i]))

-----------------------------------------------------------------------------
(***************************************************************************)
(* The intersection of the intervals.                                      *)
(***************************************************************************)
Endpoint(type, val) == [type |-> type, val |-> val]
Endpoints(peer, c) ==
  [k \in 1 .. 2 * Len(c) |->
     LET p == peer[c[(k + 1) \div 2]]
     IN  IF k % 2 = 1 THEN Endpoint(-1, p.offset - root_distance(p))
                      ELSE Endpoint(1, p.offset + root_distance(p))]

\* The selection sort; it is not stable.
Sorted(e) ==
  LET Exchange(s, i) ==
        LET k == CHOOSE m \in i .. Len(s) : /\ \A n \in i .. Len(s) : s[m].val <= s[n].val
                                            /\ \A n \in i .. m - 1 : s[n].val > s[m].val
        IN  [s EXCEPT ![i] = s[k], ![k] = s[i]]
      pass[i \in 0 .. Len(e)] == IF i = 0 THEN e ELSE Exchange(pass[i - 1], i)
  IN  pass[Len(e)]

\* Lower ends less upper ends among the first i, and the converse from the top.
Ends(s, type, K) == Cardinality({k \in K : s[k].type = type})
Up(s, i) == Ends(s, -1, 1 .. i) - Ends(s, 1, 1 .. i)
Down(s, j) == Ends(s, 1, j .. Len(s)) - Ends(s, -1, j .. Len(s))

\* The two scans for "need" intersections.
LowEnd(s, need) ==
  LET I == {i \in DOMAIN s : Up(s, i) >= need} IN s[IF I = {} THEN Len(s) ELSE Min(I)].val
HighEnd(s, need) ==
  LET J == {j \in DOMAIN s : Down(s, j) >= need} IN s[IF J = {} THEN 1 ELSE Max(J)].val

\* The interval for the least number of falsetickers in A.  When there is none
\* high <= low is all that is used of the ends.
Overlap(s, need) == HighEnd(s, need) > LowEnd(s, need)
Interval(s, n, A) ==
  IF A = {} THEN [found |-> FALSE, low |-> 0, high |-> 0]
  ELSE [found |-> TRUE, low |-> LowEnd(s, n - Min(A)), high |-> HighEnd(s, n - Min(A))]
\* Mutant: half of the candidates may be falsetickers.
Scan_Half(s, n) == Interval(s, n, {a \in 0 .. n - 1 : 2 * a <= n /\ Overlap(s, n - a)})
\* The loop over the number of falsetickers that are allowed.
Scan(s, n) == Interval(s, n, {a \in 0 .. n - 1 : 2 * a < n /\ Overlap(s, n - a)})
Intersection(peer, c) == Scan(Sorted(Endpoints(peer, c)), Len(c))

\* Those that overlap the intersection x, and the TRUE peers.
Truechimers(peer, c, x) ==
  SelectSeq(c, LAMBDA i : \/ peer[i].true
                          \/ /\ x.found
                             /\ peer[i].offset + root_distance(peer[i]) >= x.low
                             /\ peer[i].offset - root_distance(peer[i]) <= x.high)

\* The first PPS source among them; PPS sources without timestamps of their
\* own are not part of the cluster.
TypePps(peer, t) == FirstOf(t, {i \in ToSet(t) : peer[i].pps})
\* The population of the cluster, with a fallback when it is empty.
Population(peer, list, t, waited) ==
  LET u == SelectSeq(t, LAMBDA i : ~peer[i].pps \/ peer[i].tstamp)
      f == IF Fallback(peer, list, "modem", waited) # 0 THEN Fallback(peer, list, "modem", waited)
           ELSE IF Fallback(peer, list, "local", waited) # 0 THEN Fallback(peer, list, "local", waited)
           ELSE Orphan(peer, list)
  IN  IF u # <<>> THEN [i \in DOMAIN u |-> [id |-> u[i], error |-> peer[u[i]].jitter,
                                            synch |-> root_distance(peer[u[i]])]]
      ELSE IF f # 0 THEN <<[id |-> f, error |-> 0, synch |-> sys_mindist]>> ELSE <<>>

-----------------------------------------------------------------------------
(***************************************************************************)
(* Clustering: s is the sequence of survivors.                             *)
(***************************************************************************)
Sq(n) == n * n
\* The sum of squares under the root of the select jitter.
SelJit(peer, s, i) == Total([j \in DOMAIN s |-> Sq(peer[s[j].id].offset - peer[s[i].id].offset)])
\* The first of the survivors with the largest select jitter times distance.
Worst(peer, s) ==
  LET m(i) == SelJit(peer, s, i) * Sq(s[i].synch)
      I == {i \in DOMAIN s : \A j \in DOMAIN s : m(i) >= m(j)}
  IN  Min(I)

\* When the voting stops.
Stop(peer, s) ==
  \/ Len(s) <= Max({1, sys_minclock})
  \/ SelJit(peer, s, Worst(peer, s)) <= Sq(Min({s[i].error : i \in DOMAIN s})) * (Len(s) - 1)
  \/ peer[s[Worst(peer, s)].id].true \/ peer[s[Worst(peer, s)].id].prefer

\* The survivors, and those marked as excess on the way.
RECURSIVE Cluster(_, _, _)
Cluster(peer, s, excess) ==
  IF Stop(peer, s) THEN [survivors |-> s, excess |-> excess]
  ELSE LET k == Worst(peer, s)
       IN  Cluster(peer, RemoveAt(s, k), IF Len(s) > sys_maxclock THEN excess \union {s[k].id} ELSE excess)

-----------------------------------------------------------------------------
(***************************************************************************)
(* The system peer.                                                        *)
(***************************************************************************)
\* sqrt(a) + b < sqrt(c) + d
RootLess(a, b, c, d) ==
  LET e == d - b
      f == a - c - e * e
  IN  IF e >= 0 THEN f < 0 \/ f * f < 4 * e * e * c
      ELSE LET g == c - a - e * e IN g > 0 /\ g * g > 4 * e * e * a

\* The first survivor with the least metric: select jitter times distance and
\* a small penalty for the stratum, both times the number of the others.
Speer(peer, s) ==
  LET n == Max({1, Len(s) - 1})
      Root(i) == SelJit(peer, s, i) * Sq(s[i].synch) * n
      Rest(i) == peer[s[i].id].stratum * sys_mindist * n
      Less(i, j) == RootLess(Root(i), Rest(i), Root(j), Rest(j))
  IN  CHOOSE i \in DOMAIN s : \A j \in DOMAIN s : ~Less(j, i) /\ (j < i => Less(i, j))

\* The votes for a leap second; a reference clock always wins.
Votes(peer, s, leap) ==
  LET V == {i \in DOMAIN s : peer[s[i].id].leap = leap}
  IN  IF \E i \in V : peer[s[i].id].refclock THEN Len(s) ELSE Cardinality(V)

\* The last survivor with the prefer flag.
Prefer(peer, s) ==
  LET S == {i \in DOMAIN s : peer[s[i].id].prefer} IN IF S = {} THEN 0 ELSE s[Max(S)].id

\* The anti-clockhop rule.  A threshold below two units counts as zero
\* (D_ISZERO_NS); offsets are even, so that it can still exceed a difference.
Hop(peer, best, old, hop) ==
  IF old = 0 \/ old = best THEN [peer |-> best, hop |-> 0]
  ELSE LET x == Abs(peer[best].offset - peer[old].offset)
           h == IF hop < 2 THEN sys_mindist ELSE hop \div 2
       IN  IF x < sys_mindist /\ x < h THEN [peer |-> old, hop |-> h] ELSE [peer |-> best, hop |-> 0]

\* clock_combine: the mean of the offsets weighted by the inverse distance,
\* rounded down to the unit.
clock_combine(peer, s) ==
  LET P == FoldLeft(LAMBDA acc, e : acc * e.synch, 1, s)
      y == Total([i \in DOMAIN s |-> P \div s[i].synch])
      z == Total([i \in DOMAIN s |-> (P \div s[i].synch) * peer[s[i].id].offset])
  IN  z \div y

\* The system peer as long as no PPS source takes over: the preferred survivor
\* pf, or else the best one, with the combined offset.
Chosen(peer, s, pf, before) ==
  IF s = <<>> \/ Len(s) < sys_minsane THEN [peer |-> 0, hop |-> before.hop, offset |-> before.offset]
  ELSE IF pf # 0 THEN [peer |-> pf, hop |-> 0, offset |-> peer[pf].offset]
  ELSE LET h == Hop(peer, s[Speer(peer, s)].id, before.peer, before.hop)
       IN  [peer |-> h.peer, hop |-> h.hop, offset |-> clock_combine(peer, s)]

\* Whether the PPS source takes over from the choice x.
PpsLit(peer, pps, pf, x) ==
  /\ pps # 0 /\ Abs(x.offset) < PpsGate
  /\ \/ peer[pps].kind # "pps" \/ pf # 0
     \/ x.peer # 0 /\ peer[pps].prefer
     \/ x.peer = 0 /\ sys_minsane = 0

\* The result, with the new status of everyone and the votes.
Outcome(peer, c, u, cl, pps, x, lit) ==
  LET s == cl.survivors
      ids == {s[i].id : i \in DOMAIN s}
  IN  [peer |-> IF lit THEN pps ELSE x.peer, hop |-> IF lit THEN 0 ELSE x.hop,
       offset |-> IF lit THEN peer[pps].offset ELSE x.offset, survivors |-> ids,
       status |-> [i \in DOMAIN peer |->
                     IF lit /\ i = pps THEN "pps" ELSE IF i = x.peer THEN "syspeer"
                     ELSE IF i \in ids THEN "synccand" ELSE IF i \in cl.excess THEN "excess"
                     ELSE IF \E k \in DOMAIN u : u[k].id = i THEN "selcand"
                     ELSE IF i \in ToSet(c) THEN "sane" ELSE "reject"],
       ins |-> Votes(peer, s, "add"), del |-> Votes(peer, s, "del")]

Decided(peer, before, c, u, cl, pf, pps) ==
  LET x == Chosen(peer, cl.survivors, pf, before) IN Outcome(peer, c, u, cl, pps, x, PpsLit(peer, pps, pf, x))
Elected(peer, before, c, t, u) ==
  LET cl == IF u = <<>> THEN [survivors |-> <<>>, excess |-> {}] ELSE Cluster(peer, u, {})
  IN  Decided(peer, before, c, u, cl, Prefer(peer, cl.survivors), TypePps(peer, t))

\* The middle of clock_select: the system peer (0 when there is none), the
\* clockhop threshold, the system offset, survivors, votes and status.
\* "before" has the first three as they were.
Selected(peer, list, before, waited) ==
  LET c == Candidates(peer, list)
      t == Truechimers(peer, c, Intersection(peer, c))
  IN  Elected(peer, before, c, t, Population(peer, list, t, waited))

-----------------------------------------------------------------------------
(***************************************************************************)
(* What the selection is for.                                              *)
(***************************************************************************)
\* A candidate whose interval holds the true time (offset 0) inside.
Correct(p) == Abs(p.offset) < root_distance(p)
\* Marzullo's promise: when more than half of the candidates are correct, an
\* interval is found, and at least one correct candidate overlaps it.
MajoritySound(peer, c, x) ==
  LET good == {i \in ToSet(c) : Correct(peer[i])}
  IN  2 * Cardinality(good) > Len(c) => x.found /\ \E i \in good : i \in ToSet(Truechimers(peer, c, x))

\* The intersection as a set of points, from the definition of correctness:
\* with the fewest falsetickers for which some stretch between neighbouring
\* points is covered often enough, the ends are the ends of what is covered.
Covered(peer, c, v) ==
  Cardinality({i \in DOMAIN c : /\ peer[c[i]].offset - root_distance(peer[c[i]]) <= v
                                /\ peer[c[i]].offset + root_distance(peer[c[i]]) >= v + 1})
\* The smallest interval that holds all that the most sources cover, found by
\* scanning endpoints, is the one the definition gives.
IntersectionRight(peer, c, x) ==
  LET points == {e.val : e \in ToSet(Endpoints(peer, c))}
      V(a) == {v \in points \union {e - 1 : e \in points} : Covered(peer, c, v) >= Len(c) - a}
      A == {a \in 0 .. Len(c) - 1 : 2 * a < Len(c) /\ V(a) # {}}
  IN  c = <<>> \/ IF A = {} THEN ~x.found
                  ELSE x = [found |-> TRUE, low |-> Min(V(Min(A))), high |-> Max(V(Min(A))) + 1]
=============================================================================
