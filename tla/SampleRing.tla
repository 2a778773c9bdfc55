----------------------------- MODULE SampleRing -----------------------------
(***************************************************************************)
(* The circular buffer of a reference clock's samples and the median       *)
(* filter a poll applies to it (ntp_refclock.c).  Drivers put samples in,  *)
(* refclock_sample copies them out and grooms them.                        *)
(***************************************************************************)
EXTENDS Integers, Sequences, FiniteSets, TLC

CONSTANTS Offsets, MAXSTAGE
ASSUME StageAssumption == MAXSTAGE \in Nat /\ MAXSTAGE > 1
ASSUME OffsetsAssumption == Offsets \subseteq Int

VARIABLES
  filter,     \* 0 .. MAXSTAGE - 1 -> sample
  coderecv,   \* where the newest sample is
  codeproc,   \* where the last sample is that was taken
  off,        \* refclock_sample: the samples copied so far
  busy,       \* refclock_sample is copying
  dropped     \* history: the driver put none in since it started, or since it dropped its samples
ring == <<filter, coderecv, codeproc, off, busy, dropped>>

Index == 0 .. MAXSTAGE - 1
RingInit ==
  /\ filter \in [Index -> {0}] /\ coderecv = 0 /\ codeproc = 0
  /\ off = << >> /\ busy = FALSE /\ dropped = TRUE

Following(i) == (i + 1) % MAXSTAGE

\* Mutant: the oldest sample is not given up, so a full buffer looks empty.
AddSample_Full(x) ==
  /\ ~busy
  /\ coderecv' = Following(coderecv)
  /\ filter' = [filter EXCEPT ![Following(coderecv)] = x]
  /\ dropped' = FALSE /\ UNCHANGED <<codeproc, off, busy>>
AddSample(x) ==
  /\ ~busy
  /\ coderecv' = Following(coderecv)
  /\ filter' = [filter EXCEPT ![Following(coderecv)] = x]
  /\ codeproc' = IF Following(coderecv) = codeproc THEN Following(codeproc) ELSE codeproc
  /\ dropped' = FALSE /\ UNCHANGED <<off, busy>>

\* refclock_sample, in the steps of its loop.
Poll == ~busy /\ busy' = TRUE /\ UNCHANGED <<filter, coderecv, codeproc, off, dropped>>
Copy ==
  /\ busy /\ codeproc # coderecv
  /\ codeproc' = Following(codeproc)
  /\ off' = Append(off, filter[Following(codeproc)])
  /\ UNCHANGED <<filter, coderecv, busy, dropped>>

\* Mutant: the end that is rejected does not depend on the median.
Ends_High(s) == LET m == Len(s) - (Len(s) * 4) \div 10 IN <<0, m>>
\* The samples that are kept are s[i + 1] .. s[j] of the sorted ones.
Ends(s) ==
  LET m == Len(s) - (Len(s) * 4) \div 10
      reject[i \in 0 .. Len(s), j \in 0 .. Len(s)] ==
        LET median == s[(i + j) \div 2 + 1]
        IN IF j - i <= m THEN <<i, j>>
           ELSE IF s[j] - median < median - s[i + 1] THEN reject[i + 1, j] ELSE reject[i, j - 1]
  IN reject[0, Len(s)]
Sorted == SortSeq(off, LAMBDA a, b : a < b)
\* The samples the offset is the mean of.
Kept == LET e == Ends(Sorted) IN SubSeq(Sorted, e[1] + 1, e[2])
Groom == busy /\ codeproc = coderecv /\ off' = << >> /\ busy' = FALSE /\ UNCHANGED <<filter, coderecv, codeproc, dropped>>

\* A driver that has lost its clock drops what it has: some move codeproc up to
\* coderecv, others coderecv back to codeproc.
Flush ==
  /\ ~busy /\ dropped' = TRUE
  /\ \/ codeproc' = coderecv /\ UNCHANGED coderecv
     \/ coderecv' = codeproc /\ UNCHANGED codeproc
  /\ UNCHANGED <<filter, off, busy>>

RingNext == (\E x \in Offsets : AddSample(x)) \/ Poll \/ Copy \/ Groom \/ Flush
RingSpec == RingInit /\ [][RingNext]_ring

-----------------------------------------------------------------------------
\* The samples in the buffer, oldest first.
Count == IF codeproc <= coderecv THEN coderecv - codeproc ELSE coderecv + MAXSTAGE - codeproc
Held == [k \in 1 .. Count |-> filter[(codeproc + k) % MAXSTAGE]]
Queue == INSTANCE SampleQueue WITH queue <- Held
\* The buffer is the queue SampleQueue promises: however samples, polls and
\* flushes follow one another round the ring, no sample is seen twice, in the
\* wrong order or after it was dropped, and the newest MAXSTAGE - 1 are there.
IsQueue == Queue!Spec

Near(x, lo, width) == lo <= x /\ x <= lo + width
\* The median filter suppresses spikes: when at most four samples in ten lie
\* apart from the others (by more than those are spread), none of them is kept,
\* so the offset is the mean of good samples only; six in ten are kept.
SpikesRejected ==
  busy /\ codeproc = coderecv =>
    LET s == Sorted
        n == Len(s)
    IN /\ Len(Kept) = n - (n * 4) \div 10
       /\ \A a \in 1 .. n : \A b \in a .. n :
            LET width  == s[b] - s[a]
                spikes == {k \in 1 .. n : ~Near(s[k], s[a], width)}
            IN Cardinality(spikes) <= (n * 4) \div 10 /\ (\A k \in spikes : ~Near(s[k], s[a] - width, 3 * width))
                 => \A k \in DOMAIN Kept : Near(Kept[k], s[a], width)
=============================================================================
