---------------------------- MODULE SampleQueue ----------------------------
(***************************************************************************)
(* What a reference clock's circular buffer of samples promises: a queue   *)
(* of the newest samples, of which a poll takes all, oldest first, and     *)
(* none twice.                                                             *)
(***************************************************************************)
EXTENDS Naturals, Sequences

CONSTANTS Offsets, MAXSTAGE

VARIABLES
  queue,   \* samples not taken yet, oldest first
  off,     \* samples the poll that is in progress has taken
  busy,    \* a poll is in progress
  dropped  \* none was put in since the start, or since the samples were dropped

Init == queue = << >> /\ off = << >> /\ busy = FALSE /\ dropped = TRUE

\* A sample too many costs the oldest.
Put(x) ==
  /\ ~busy /\ dropped' = FALSE
  /\ queue' = IF Len(queue) < MAXSTAGE - 1 THEN Append(queue, x) ELSE Append(Tail(queue), x)
  /\ UNCHANGED <<off, busy>>
Poll == ~busy /\ busy' = TRUE /\ UNCHANGED <<queue, off, dropped>>
Take ==
  /\ busy /\ queue # << >>
  /\ off' = Append(off, Head(queue)) /\ queue' = Tail(queue) /\ UNCHANGED <<busy, dropped>>
Done == busy /\ queue = << >> /\ off' = << >> /\ busy' = FALSE /\ UNCHANGED <<queue, dropped>>
Flush == ~busy /\ dropped' = TRUE /\ queue' = << >> /\ UNCHANGED <<off, busy>>

Next == Flush \/ Poll \/ Take \/ Done \/ \E x \in Offsets : Put(x)
Spec == Init /\ [][Next]_<<queue, off, busy, dropped>>
=============================================================================
