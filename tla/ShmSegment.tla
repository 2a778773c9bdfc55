----------------------------- MODULE ShmSegment -----------------------------
(***************************************************************************)
(* The shared memory segment of the shm driver: shm_query reads it while a *)
(* program that is not part of the repository writes it, in the way the    *)
(* two modes of struct shmTime suppose.  The memory barriers are taken to  *)
(* work, so that steps are seen in their order.                            *)
(***************************************************************************)
EXTENDS Naturals

CONSTANT MaxWrites     \* samples the other program writes

VARIABLES
  shm,    \* struct shmTime: [mode, count, clock, receive, valid], times by the number of the write
  w,      \* the writer: [at, k]
  r       \* shm_query: [at, cnt, clock, receive]; at is where it is, or what it has returned
segment == <<shm, w, r>>

SegmentInit ==
  /\ \E mode \in 0 .. 2 : shm = [mode |-> mode, count |-> 0, clock |-> 0, receive |-> 0, valid |-> FALSE]
  /\ w = [at |-> "idle", k |-> 0] /\ r = [at |-> "none", cnt |-> 0, clock |-> 0, receive |-> 0]

\* The writer: a count that is odd says that it is writing.
Write ==
  /\ UNCHANGED r
  /\ \/ /\ w.at = "idle" /\ w.k < MaxWrites
        /\ w' = [at |-> "count", k |-> w.k + 1] /\ shm' = [shm EXCEPT !.valid = FALSE]
     \/ w.at = "count" /\ w' = [w EXCEPT !.at = "clock"] /\ shm' = [shm EXCEPT !.count = @ + 1]
     \/ w.at = "clock" /\ w' = [w EXCEPT !.at = "receive"] /\ shm' = [shm EXCEPT !.clock = w.k]
     \/ w.at = "receive" /\ w' = [w EXCEPT !.at = "recount"] /\ shm' = [shm EXCEPT !.receive = w.k]
     \/ w.at = "recount" /\ w' = [w EXCEPT !.at = "valid"] /\ shm' = [shm EXCEPT !.count = @ + 1]
     \/ w.at = "valid" /\ w' = [w EXCEPT !.at = "idle"] /\ shm' = [shm EXCEPT !.valid = TRUE]

Returned == r.at \in {"none", "OK", "NOT_READY", "CLASH", "BAD_MODE"}
\* Mutant: the count is not looked at again.
Test_Not ==
  /\ r.at = "test"
  /\ r' = [r EXCEPT !.at = IF shm.mode > 1 THEN "BAD_MODE" ELSE "OK"]
  /\ UNCHANGED shm
Test ==
  /\ r.at = "test"
  /\ r' = [r EXCEPT !.at = IF shm.mode > 0 /\ r.cnt # shm.count THEN "CLASH"
                           ELSE IF shm.mode > 1 THEN "BAD_MODE" ELSE "OK"]
  /\ UNCHANGED shm
\* shm_query, by each access to the segment.
shm_query ==
  /\ UNCHANGED w
  /\ \/ Returned /\ r' = [r EXCEPT !.at = IF shm.valid THEN "count" ELSE "NOT_READY"] /\ UNCHANGED shm
     \/ r.at = "count" /\ r' = [r EXCEPT !.at = "clock", !.cnt = shm.count] /\ UNCHANGED shm
     \/ r.at = "clock" /\ r' = [r EXCEPT !.at = "receive", !.clock = shm.clock] /\ UNCHANGED shm
     \/ r.at = "receive" /\ r' = [r EXCEPT !.at = "clear", !.receive = shm.receive] /\ UNCHANGED shm
     \/ r.at = "clear" /\ r' = [r EXCEPT !.at = "test"] /\ shm' = [shm EXCEPT !.valid = FALSE]
     \/ Test
SegmentNext == Write \/ shm_query
SegmentSpec == SegmentInit /\ [][SegmentNext]_segment

\* In mode 1 the two times of a sample that is used are of one write, as long as
\* the count that was remembered is even.  shm_query does not look whether it
\* is: a write that begins after valid was tested is not noticed.
SampleWhole == r.at = "OK" /\ shm.mode = 1 /\ r.cnt % 2 = 0 => r.clock = r.receive
=============================================================================
