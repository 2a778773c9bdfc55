--------------------------- MODULE RefclockProofs ---------------------------
(*****************************************************************************)
(* What the drivers of reference clocks share: the buffer of samples and the *)
(* shared memory segment.                                                    *)
(*****************************************************************************)
EXTENDS SampleRing, ShmSegment, SequenceTheorems, TLAPS

-----------------------------------------------------------------------------
(*****************************************************************************)
(* The circular buffer of samples implements the queue, for a buffer of any  *)
(* size and for any samples.                                                 *)
(*****************************************************************************)
\* Within two rounds the remainder is the distance from the last round.
LEMMA Rounds ==
  ASSUME NEW N \in Nat, N > 1, NEW x \in Nat, x < 2 * N
  PROVE  x % N = IF x < N THEN x ELSE x - N
<1>1. CASE x < N
  BY <1>1
<1>2. CASE ~(x < N)
  BY <1>2
<1> QED BY <1>1, <1>2

RingInv ==
  /\ filter \in [Index -> Int] /\ coderecv \in Index /\ codeproc \in Index
  /\ off \in Seq(Int) /\ busy \in BOOLEAN

\* Following stays in the buffer, and comes back to its beginning.
LEMMA FollowingIndex ==
  ASSUME NEW i \in Index
  PROVE  Following(i) \in Index /\ Following(i) = IF i = MAXSTAGE - 1 THEN 0 ELSE i + 1
<1>1. MAXSTAGE \in Nat /\ MAXSTAGE > 1 /\ i + 1 \in Nat /\ i + 1 < 2 * MAXSTAGE
  BY StageAssumption DEF Index
<1> DEFINE x == i + 1
<1>2. x \in Nat /\ x < 2 * MAXSTAGE
  BY <1>1
<1> HIDE DEF x
<1>3. x % MAXSTAGE = IF x < MAXSTAGE THEN x ELSE x - MAXSTAGE
  BY <1>1, <1>2, Rounds
<1> QED BY <1>1, <1>3 DEF Following, Index, x

\* Where the k-th sample in the buffer is.
LEMMA Place ==
  ASSUME NEW p \in Index, NEW k \in 1 .. MAXSTAGE
  PROVE  /\ (p + k) % MAXSTAGE \in Index
         /\ (p + k) % MAXSTAGE = IF p + k < MAXSTAGE THEN p + k ELSE p + k - MAXSTAGE
<1>1. MAXSTAGE \in Nat /\ MAXSTAGE > 1 /\ p + k \in Nat /\ p + k < 2 * MAXSTAGE
  BY StageAssumption DEF Index
<1> DEFINE x == p + k
<1>2. x \in Nat /\ x < 2 * MAXSTAGE
  BY <1>1
<1> HIDE DEF x
<1>3. x % MAXSTAGE = IF x < MAXSTAGE THEN x ELSE x - MAXSTAGE
  BY <1>1, <1>2, Rounds
<1> QED BY <1>1, <1>3 DEF Index, x

\* What is in the buffer is a sequence of at most MAXSTAGE - 1 samples.
HeldShape ==
  /\ Count \in 0 .. MAXSTAGE - 1
  /\ Held \in Seq(Int) /\ Len(Held) = Count
  /\ \A k \in 1 .. Count : Held[k] = filter[(codeproc + k) % MAXSTAGE]
LEMMA HeldIsSequence == RingInv => HeldShape
<1> SUFFICES ASSUME RingInv PROVE HeldShape
  OBVIOUS
<1>1. Count \in 0 .. MAXSTAGE - 1
  BY StageAssumption DEF RingInv, Index, Count
<1>2. ASSUME NEW k \in 1 .. Count PROVE filter[(codeproc + k) % MAXSTAGE] \in Int
  <2>1. k \in 1 .. MAXSTAGE /\ codeproc \in Index
    BY <1>1, StageAssumption DEF RingInv
  <2> QED BY <2>1, Place DEF RingInv
<1>3. Count \in Nat
  BY <1>1, StageAssumption
<1>4. Held \in [1 .. Count -> Int]
  BY <1>2 DEF Held
<1> QED BY <1>1, <1>3, <1>4 DEF Held, HeldShape

LEMMA RingInvInit == RingInit => RingInv
<1> SUFFICES ASSUME RingInit PROVE RingInv
  OBVIOUS
<1>1. /\ filter \in [Index -> Int] /\ coderecv \in Index /\ codeproc \in Index
      /\ off \in Seq(Int)
  BY StageAssumption, EmptySeq DEF RingInit, Index
<1>2. busy \in BOOLEAN
  BY DEF RingInit
<1> QED BY <1>1, <1>2 DEF RingInv

LEMMA RingInvNext ==
  ASSUME RingInv, [RingNext]_ring
  PROVE  RingInv'
<1> USE DEF RingInv
<1>1. ASSUME NEW x \in Offsets, AddSample(x) PROVE RingInv'
  <2>1. x \in Int /\ Following(coderecv) \in Index /\ Following(codeproc) \in Index
    BY OffsetsAssumption, FollowingIndex
  <2> QED BY <1>1, <2>1 DEF AddSample
<1>2. CASE Poll
  BY <1>2 DEF Poll
<1>3. CASE Copy
  <2>1. Following(codeproc) \in Index
    BY FollowingIndex
  <2> QED BY <1>3, <2>1 DEF Copy
<1>4. CASE Groom
  <2>1. off' \in Seq(Int) /\ UNCHANGED <<filter, coderecv, codeproc>>
    BY <1>4, EmptySeq DEF Groom
  <2>2. busy' \in BOOLEAN
    BY <1>4 DEF Groom
  <2> QED BY <2>1, <2>2
<1>5. CASE Flush
  BY <1>5 DEF Flush
<1>6. CASE UNCHANGED ring
  BY <1>6 DEF ring
<1> QED BY <1>1, <1>2, <1>3, <1>4, <1>5, <1>6 DEF RingNext

\* RingInv holds throughout.
THEOREM RingInvariance == RingSpec => []RingInv
BY RingInvInit, RingInvNext, PTL DEF RingSpec

-----------------------------------------------------------------------------
\* A sample put into the buffer joins the queue; a full one gives up its oldest.
LEMMA PutStep ==
  ASSUME RingInv, NEW x \in Offsets, AddSample(x)
  PROVE  Queue!Put(x)
<1>1. RingInv'
  BY RingInvNext DEF RingNext
<1>2. x \in Int /\ Following(coderecv) \in Index
  BY OffsetsAssumption, FollowingIndex DEF RingInv
<1> DEFINE nxt == Following(coderecv)
<1>3. /\ MAXSTAGE \in Nat /\ MAXSTAGE > 1 /\ coderecv \in 0 .. MAXSTAGE - 1 /\ codeproc \in 0 .. MAXSTAGE - 1
      /\ nxt = IF coderecv = MAXSTAGE - 1 THEN 0 ELSE coderecv + 1
      /\ Following(codeproc) = IF codeproc = MAXSTAGE - 1 THEN 0 ELSE codeproc + 1
  BY StageAssumption, FollowingIndex DEF RingInv, Index
<1>4. /\ coderecv' = nxt /\ filter' = [filter EXCEPT ![nxt] = x] /\ filter \in [Index -> Int] /\ nxt \in Index
      /\ codeproc' = IF nxt = codeproc THEN Following(codeproc) ELSE codeproc
  BY <1>2 DEF AddSample, RingInv
<1>5. HeldShape
  BY HeldIsSequence
<1>6. HeldShape'
  BY <1>1, HeldIsSequence, PTL
<1> USE DEF HeldShape
<1> HIDE DEF nxt
<1>7. CASE nxt # codeproc
  <2>1. Count < MAXSTAGE - 1 /\ Count' = Count + 1 /\ codeproc' = codeproc
    BY <1>3, <1>4, <1>7 DEF Count
  <2>2. ASSUME NEW k \in 1 .. Count PROVE Held'[k] = Held[k]
    <3>1. k \in 1 .. MAXSTAGE /\ k \in 1 .. Count' /\ codeproc \in Index
      BY <1>3, <1>5, <2>1 DEF RingInv, Index
    <3>2. /\ (codeproc + k) % MAXSTAGE = IF codeproc + k < MAXSTAGE THEN codeproc + k ELSE codeproc + k - MAXSTAGE
          /\ (codeproc + k) % MAXSTAGE \in Index
      BY <3>1, Place
    <3>3. (codeproc + k) % MAXSTAGE # nxt
      BY <1>3, <1>7, <2>1, <3>1, <3>2 DEF Count
    <3> QED BY <1>4, <1>5, <1>6, <2>1, <3>1, <3>2, <3>3
  <2>3. Held'[Count + 1] = x
    <3>1. Count + 1 \in 1 .. MAXSTAGE /\ Count + 1 \in 1 .. Count' /\ codeproc \in Index
      BY <1>3, <1>5, <2>1 DEF Index
    <3> DEFINE c == Count + 1
    <3>2. c \in 1 .. MAXSTAGE
      BY <3>1
    <3>3. (codeproc + c) % MAXSTAGE = IF codeproc + c < MAXSTAGE THEN codeproc + c ELSE codeproc + c - MAXSTAGE
      <4> HIDE DEF c
      <4> QED BY <3>1, <3>2, Place
    <3>4. (codeproc + c) % MAXSTAGE = nxt
      BY <1>3, <1>7, <2>1, <3>1, <3>3 DEF Count, c
    <3> QED BY <1>4, <1>6, <2>1, <3>1, <3>4
  <2>4. Held' = Append(Held, x)
    <3>1. /\ Append(Held, x) \in Seq(Int) /\ Len(Append(Held, x)) = Count + 1
          /\ \A k \in 1 .. Count : Append(Held, x)[k] = Held[k]
          /\ Append(Held, x)[Count + 1] = x
      BY <1>2, <1>5, AppendProperties
    <3>2. \A k \in 1 .. Len(Held') : Held'[k] = Append(Held, x)[k]
      BY <1>5, <1>6, <2>1, <2>2, <2>3, <3>1
    <3> QED BY <1>6, <2>1, <3>1, <3>2, SeqEqual
  <2> QED BY <1>5, <2>1, <2>4 DEF AddSample, Queue!Put
<1>8. CASE nxt = codeproc
  <2>1. Count = MAXSTAGE - 1 /\ Count' = MAXSTAGE - 1 /\ codeproc' = Following(codeproc) /\ Held # << >>
    BY <1>3, <1>4, <1>5, <1>8 DEF Count
  <2>2. /\ Tail(Held) \in Seq(Int) /\ Len(Tail(Held)) = Count - 1
        /\ \A k \in 1 .. Count - 1 : Tail(Held)[k] = Held[k + 1]
    BY <1>5, <2>1, HeadTailProperties
  <2>3. ASSUME NEW k \in 1 .. Count - 1 PROVE Held'[k] = Held[k + 1]
    <3> DEFINE c == k + 1
    <3>1. /\ k \in 1 .. MAXSTAGE /\ k \in 1 .. Count' /\ c \in 1 .. MAXSTAGE /\ c \in 1 .. Count
          /\ codeproc \in Index /\ codeproc' \in Index
      BY <1>1, <1>3, <1>5, <2>1 DEF RingInv
    <3>2. /\ (codeproc' + k) % MAXSTAGE = IF codeproc' + k < MAXSTAGE THEN codeproc' + k ELSE codeproc' + k - MAXSTAGE
          /\ (codeproc' + k) % MAXSTAGE \in Index
      BY <3>1, Place
    <3>3. (codeproc + c) % MAXSTAGE = IF codeproc + c < MAXSTAGE THEN codeproc + c ELSE codeproc + c - MAXSTAGE
      <4> HIDE DEF c
      <4> QED BY <3>1, Place
    <3>4. (codeproc' + k) % MAXSTAGE = (codeproc + c) % MAXSTAGE /\ (codeproc' + k) % MAXSTAGE # nxt
      BY <1>3, <1>8, <2>1, <3>1, <3>2, <3>3
    <3> QED BY <1>4, <1>5, <1>6, <3>1, <3>2, <3>4
  <2>4. Held'[Count] = x
    <3>1. Count \in 1 .. MAXSTAGE /\ Count \in 1 .. Count' /\ codeproc' \in Index
      BY <1>1, <1>3, <2>1 DEF RingInv
    <3>2. (codeproc' + Count) % MAXSTAGE = IF codeproc' + Count < MAXSTAGE THEN codeproc' + Count ELSE codeproc' + Count - MAXSTAGE
      BY <3>1, Place
    <3>3. (codeproc' + Count) % MAXSTAGE = nxt
      BY <1>3, <1>8, <2>1, <3>1, <3>2
    <3> QED BY <1>4, <1>6, <3>1, <3>3
  <2>5. Held' = Append(Tail(Held), x)
    <3>1. /\ Append(Tail(Held), x) \in Seq(Int) /\ Len(Append(Tail(Held), x)) = Count
          /\ \A k \in 1 .. Count - 1 : Append(Tail(Held), x)[k] = Tail(Held)[k]
          /\ Append(Tail(Held), x)[Count] = x
      <4> DEFINE s == Tail(Held)
      <4>1. s \in Seq(Int) /\ Len(s) = Count - 1
        BY <2>2
      <4> HIDE DEF s
      <4>2. /\ Append(s, x) \in Seq(Int) /\ Len(Append(s, x)) = Len(s) + 1
            /\ \A k \in 1 .. Len(s) : Append(s, x)[k] = s[k]
            /\ Append(s, x)[Len(s) + 1] = x
        BY <1>2, <4>1, AppendProperties
      <4> QED BY <1>3, <2>1, <4>1, <4>2 DEF s
    <3>2. \A k \in 1 .. Len(Held') : Held'[k] = Append(Tail(Held), x)[k]
      <4> SUFFICES ASSUME NEW k \in 1 .. Count PROVE Held'[k] = Append(Tail(Held), x)[k]
        BY <1>6, <2>1
      <4>1. CASE k = Count
        BY <2>4, <3>1, <4>1
      <4>2. CASE k # Count
        <5>1. k \in 1 .. Count - 1
          BY <1>3, <2>1, <4>2
        <5> QED BY <2>2, <2>3, <3>1, <5>1
      <4> QED BY <4>1, <4>2
    <3> QED BY <1>6, <2>1, <3>1, <3>2, SeqEqual
  <2> QED BY <1>5, <2>1, <2>5 DEF AddSample, Queue!Put
<1> QED BY <1>7, <1>8

\* A sample copied out of the buffer is the oldest of the queue.
LEMMA TakeStep ==
  ASSUME RingInv, Copy
  PROVE  Queue!Take
<1>1. RingInv'
  BY RingInvNext DEF RingNext
<1>2. HeldShape /\ HeldShape'
  BY <1>1, HeldIsSequence, PTL
<1>3. /\ MAXSTAGE \in Nat /\ MAXSTAGE > 1 /\ coderecv \in 0 .. MAXSTAGE - 1 /\ codeproc \in 0 .. MAXSTAGE - 1
      /\ codeproc' = IF codeproc = MAXSTAGE - 1 THEN 0 ELSE codeproc + 1
      /\ codeproc # coderecv /\ coderecv' = coderecv /\ filter' = filter
  BY StageAssumption, FollowingIndex DEF RingInv, Index, Copy
<1>4. Count >= 1 /\ Count' = Count - 1 /\ Held # << >>
  BY <1>2, <1>3 DEF Count, HeldShape
<1>5. Head(Held) = filter[Following(codeproc)]
  <2>1. Head(Held) = Held[1] /\ 1 \in 1 .. Count
    BY <1>2, <1>4 DEF HeldShape
  <2> QED BY <1>2, <2>1 DEF HeldShape, Following
<1>6. /\ Tail(Held) \in Seq(Int) /\ Len(Tail(Held)) = Count - 1
      /\ \A k \in 1 .. Count - 1 : Tail(Held)[k] = Held[k + 1]
  BY <1>2, <1>4, HeadTailProperties DEF HeldShape
<1>7. ASSUME NEW k \in 1 .. Count - 1 PROVE Held'[k] = Held[k + 1]
  <2> DEFINE c == k + 1
  <2>1. /\ k \in 1 .. MAXSTAGE /\ k \in 1 .. Count' /\ c \in 1 .. MAXSTAGE /\ c \in 1 .. Count
        /\ codeproc \in Index /\ codeproc' \in Index
    BY <1>1, <1>2, <1>3, <1>4 DEF RingInv, HeldShape
  <2>2. (codeproc' + k) % MAXSTAGE = IF codeproc' + k < MAXSTAGE THEN codeproc' + k ELSE codeproc' + k - MAXSTAGE
    BY <2>1, Place
  <2>3. (codeproc + c) % MAXSTAGE = IF codeproc + c < MAXSTAGE THEN codeproc + c ELSE codeproc + c - MAXSTAGE
    <3> HIDE DEF c
    <3> QED BY <2>1, Place
  <2>4. (codeproc' + k) % MAXSTAGE = (codeproc + c) % MAXSTAGE
    BY <1>3, <2>1, <2>2, <2>3
  <2> QED BY <1>2, <1>3, <2>1, <2>4 DEF HeldShape
<1>8. Held' = Tail(Held)
  <2>1. \A k \in 1 .. Len(Held') : Held'[k] = Tail(Held)[k]
    BY <1>2, <1>4, <1>6, <1>7 DEF HeldShape
  <2> QED BY <1>2, <1>4, <1>6, <2>1, SeqEqual DEF HeldShape
<1> QED BY <1>4, <1>5, <1>8 DEF Copy, Queue!Take

\* The buffer is empty just when the two places are the same.
LEMMA EmptyWhenEqual ==
  ASSUME RingInv
  PROVE  (codeproc = coderecv) <=> (Held = << >>)
<1>1. HeldShape
  BY HeldIsSequence
<1>2. (codeproc = coderecv) <=> (Count = 0)
  BY StageAssumption DEF Count, RingInv, Index
<1>3. (Count = 0) <=> (Held = << >>)
  BY <1>1, EmptySeq DEF HeldShape
<1> QED BY <1>2, <1>3

\* The ring of samples implements the queue, whatever its size: every step of a
\* driver or of refclock_sample is a step of the queue or leaves it alone.
THEOREM RingImplementsQueue == RingSpec => IsQueue
<1>1. RingInit => Queue!Init
  <2> SUFFICES ASSUME RingInit PROVE Queue!Init
    OBVIOUS
  <2>1. Held = << >>
    BY RingInvInit, EmptyWhenEqual DEF RingInit
  <2> QED BY <2>1 DEF RingInit, Queue!Init
<1>2. ASSUME RingInv, [RingNext]_ring PROVE [Queue!Next]_<<Held, off, busy, dropped>>
  <2>0. RingInv' /\ ((codeproc = coderecv) <=> (Held = << >>))
    BY <1>2, RingInvNext, EmptyWhenEqual
  <2>1. ASSUME NEW x \in Offsets, AddSample(x) PROVE Queue!Next
    BY <1>2, <2>1, PutStep DEF Queue!Next
  <2>2. ASSUME UNCHANGED <<filter, coderecv, codeproc>> PROVE Held' = Held
    BY <2>2 DEF Held, Count
  <2>3. CASE Poll
    BY <2>2, <2>3 DEF Poll, Queue!Poll, Queue!Next
  <2>4. CASE Copy
    BY <1>2, <2>4, TakeStep DEF Queue!Next
  <2>5. CASE Groom
    BY <2>0, <2>2, <2>5 DEF Groom, Queue!Done, Queue!Next
  <2>6. CASE Flush
    <3>1. (RingInv => ((codeproc = coderecv) <=> (Held = << >>)))'
      BY EmptyWhenEqual, PTL
    <3>2. Held' = << >>
      BY <2>0, <2>6, <3>1 DEF Flush
    <3> QED BY <2>6, <3>2 DEF Flush, Queue!Flush, Queue!Next
  <2>7. CASE UNCHANGED ring
    BY <2>2, <2>7 DEF ring
  <2> QED BY <1>2, <2>1, <2>3, <2>4, <2>5, <2>6, <2>7 DEF RingNext
<1> QED BY <1>1, <1>2, RingInvariance, PTL DEF RingSpec, IsQueue, Queue!Spec

-----------------------------------------------------------------------------
(*****************************************************************************)
(* The two times of a sample taken from the shared memory segment in mode 1  *)
(* are of one write, however often the other program writes and however its  *)
(* steps fall between those of shm_query.                                    *)
(*****************************************************************************)
SegmentTypes ==
  /\ shm = [mode |-> shm.mode, count |-> shm.count, clock |-> shm.clock, receive |-> shm.receive, valid |-> shm.valid]
  /\ shm.mode \in 0 .. 2 /\ shm.count \in Nat /\ shm.clock \in Nat /\ shm.receive \in Nat
  /\ w \in [at : {"idle", "count", "clock", "receive", "recount", "valid"}, k : Nat]
  /\ r \in [at : {"none", "count", "clock", "receive", "clear", "test", "OK", "NOT_READY", "CLASH", "BAD_MODE"},
            cnt : Nat, clock : Nat, receive : Nat]

\* The writer is between two samples: both times are those of the last write.
Quiet(k) == shm.count = 2 * k /\ shm.clock = k /\ shm.receive = k
\* The count says how far the writer has come.
Written ==
  /\ w.at \in {"idle", "valid"} => Quiet(w.k)
  /\ w.at = "count" => w.k > 0 /\ Quiet(w.k - 1)
  /\ w.at \in {"clock", "receive", "recount"} => w.k > 0 /\ shm.count = 2 * w.k - 1
  /\ w.at \in {"receive", "recount"} => shm.clock = w.k
  /\ w.at = "recount" => shm.receive = w.k
\* The times read so far are those the remembered count stands for, as long as
\* the count in the segment has not moved on.
Same == r.cnt = shm.count /\ r.cnt % 2 = 0
ReadSoFar ==
  /\ r.at \in {"clock", "receive", "clear", "test"} => r.cnt <= shm.count
  /\ r.at \in {"receive", "clear", "test"} /\ Same => 2 * r.clock = r.cnt
  /\ r.at \in {"clear", "test"} /\ Same => 2 * r.receive = r.cnt
SegmentInv == SegmentTypes /\ Written /\ ReadSoFar /\ SampleWhole

\* Both times are half the count whenever it is even.
LEMMA EvenIsQuiet ==
  ASSUME SegmentTypes, Written, shm.count % 2 = 0
  PROVE  2 * shm.clock = shm.count /\ 2 * shm.receive = shm.count
<1>1. CASE w.at \in {"idle", "valid"}
  BY <1>1 DEF SegmentTypes, Written, Quiet
<1>2. CASE w.at = "count"
  BY <1>2 DEF SegmentTypes, Written, Quiet
<1>3. CASE w.at \in {"clock", "receive", "recount"}
  <2>1. w.k \in Nat /\ w.k > 0 /\ shm.count = 2 * w.k - 1
    BY <1>3 DEF SegmentTypes, Written
  <2> QED BY <2>1
<1> QED BY <1>1, <1>2, <1>3 DEF SegmentTypes

LEMMA SegmentInvInit == SegmentInit => SegmentInv
BY DEF SegmentInit, SegmentInv, SegmentTypes, Written, Quiet, ReadSoFar, Same, SampleWhole

\* A step of the writer only moves the count on.
LEMMA WriteKeepsInv ==
  ASSUME SegmentInv, Write
  PROVE  SegmentInv'
<1> USE DEF SegmentInv
<1>1. SegmentTypes'
  <2> USE DEF SegmentTypes
  <2>1. CASE w.at = "idle"
    BY <2>1 DEF Write
  <2>2. CASE w.at \in {"count", "recount"}
    BY <2>2 DEF Write
  <2>3. CASE w.at \in {"clock", "receive"}
    BY <2>3 DEF Write
  <2>4. CASE w.at = "valid"
    BY <2>4 DEF Write
  <2> QED BY <2>1, <2>2, <2>3, <2>4
<1>2. Written'
  BY DEF SegmentTypes, Write, Written, Quiet
<1>3. r' = r /\ shm'.mode = shm.mode /\ shm'.count >= shm.count
  BY DEF SegmentTypes, Write
<1>4. ReadSoFar'
  BY <1>3 DEF ReadSoFar, Same, SegmentTypes, Write
<1>5. SampleWhole'
  BY <1>3 DEF SampleWhole
<1> QED BY <1>1, <1>2, <1>4, <1>5

\* A step of the reader remembers the count, or a time that belongs to it.
LEMMA QueryKeepsInv ==
  ASSUME SegmentInv, shm_query
  PROVE  SegmentInv'
<1> USE DEF SegmentInv
<1>1. SegmentTypes'
  BY DEF SegmentTypes, shm_query, Test
<1>2. /\ w' = w /\ shm'.mode = shm.mode /\ shm'.count = shm.count
      /\ shm'.clock = shm.clock /\ shm'.receive = shm.receive
  BY DEF SegmentTypes, shm_query, Test
<1>3. Written'
  BY <1>2 DEF Written, Quiet
<1>4. Same => 2 * shm.clock = r.cnt /\ 2 * shm.receive = r.cnt
  BY EvenIsQuiet DEF Same
<1>5. ReadSoFar'
  <2> USE DEF SegmentTypes, shm_query
  <2>1. CASE r.at = "count"
    <3>1. r'.at = "clock" /\ r'.cnt = shm.count
      BY <2>1 DEF Test, Returned
    <3> QED BY <3>1, <1>2 DEF ReadSoFar
  <2>2. CASE r.at = "clock"
    BY <2>2, <1>2, <1>4 DEF ReadSoFar, Same, Test, Returned
  <2>3. CASE r.at = "receive"
    BY <2>3, <1>2, <1>4 DEF ReadSoFar, Same, Test, Returned
  <2>4. CASE r.at = "clear"
    BY <2>4, <1>2 DEF ReadSoFar, Same, Test, Returned
  <2>5. CASE r.at = "test" \/ Returned
    BY <2>5, <1>2 DEF ReadSoFar, Same, Test, Returned
  <2> QED BY <2>1, <2>2, <2>3, <2>4, <2>5 DEF Returned
<1>6. SampleWhole'
  <2>1. CASE r.at = "test"
    BY <2>1, <1>2 DEF SampleWhole, ReadSoFar, Same, SegmentTypes, shm_query, Test, Returned
  <2>2. CASE r.at # "test"
    BY <2>2, <1>2 DEF SampleWhole, SegmentTypes, shm_query, Test, Returned
  <2> QED BY <2>1, <2>2
<1> QED BY <1>1, <1>3, <1>5, <1>6

\* shm_query in mode 1: a sample that it returns with an even count has the two
\* times of one write, for any number of writes.
THEOREM SamplesWhole == SegmentSpec => []SampleWhole
<1>1. SegmentInv /\ [SegmentNext]_segment => SegmentInv'
  <2> SUFFICES ASSUME SegmentInv, [SegmentNext]_segment PROVE SegmentInv'
    OBVIOUS
  <2>1. CASE UNCHANGED segment
    BY <2>1 DEF segment, SegmentInv, SegmentTypes, Written, Quiet, ReadSoFar, Same, SampleWhole
  <2> QED BY <2>1, WriteKeepsInv, QueryKeepsInv DEF SegmentNext
<1>2. SegmentInv => SampleWhole
  BY DEF SegmentInv
<1> QED BY <1>1, <1>2, SegmentInvInit, PTL DEF SegmentSpec
=============================================================================
