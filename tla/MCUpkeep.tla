------------------------------ MODULE MCUpkeep ------------------------------
(***************************************************************************)
(* What ntpd does by the calendar and keeps in files: leap seconds, the    *)
(* cookie keys of the NTS server, the statistics files and the frequency   *)
(* file.  They share no state, so a behaviour is one of them; variables of *)
(* the same name (now) are those of the part that runs.                    *)
(***************************************************************************)
EXTENDS DriftFile, NtsCookieKeys, TLC

VARIABLES
  part,
  current_time, kern, electric, tab, leapsec, leapdif, sys_leap, sys_tai,
  gen, disk, files, conflicts, pid, crashed, reused, ticks, events

File(expire, lines) == [expire |-> expire, lines |-> lines]
At(ttime, taiof) == [ttime |-> ttime, taiof |-> taiof]
\* An insertion, an insertion followed by a deletion, and a file that is refused.
Files == {File(3, <<At(6, 1)>>), File(12, <<At(6, 1), At(12, 0)>>), File(12, <<At(12, 0), At(6, 1)>>)}
\* Days of three seconds, months of two days.
Leap == INSTANCE LeapSeconds
          WITH HOUR <- 1, DAY <- 3, MONTH <- 6, SCHED <- 5, ALERT <- 1, EIGHTH <- 3, MAX_HIST <- 2,
               CanStep <- {-1, 1}, Jumps <- {-4, 4}, Horizon <- 14
\* Enough names for the keys of a list and a file, a cookie and a new key.
MCKeyIds == 1 .. 6
\* Each kind of record, and most types of generations.
Types ==
  ({"peerstats"} :> {"none", "day"}) @@ ({"rawstats"} :> {"month"}) @@ ({"protostats"} :> {"age"}) @@ ({"ntskelog"} :> {"pid"})
    @@ ({"sysstats"} :> {"year"}) @@ ({"usestats"} :> {"week"}) @@ ({"ntsstats", "ntskestats"} :> {"day"})
Stats == INSTANCE StatsFiles WITH up <- current_time, SECSPERDAY <- 2, MaxTicks <- 2, MaxRecords <- 2, MaxEvents <- 3
MCDrifts == {-5, -2, 0, 3, 4}

keystate == <<main, hour_timer, ran, K_time, K_length, keys, keyfile, ke, cookie>>
leapvars == <<kern, electric, tab, leapsec, leapdif, sys_leap, sys_tai>>
statvars == <<gen, disk, files, conflicts, pid, crashed, reused, ticks, events>>
freqvars == <<drift, resid, prev, file, temp, seen, failed, driftfaults>>
all == <<part, current_time, leapvars, keyvars, statvars, freqvars>>

NoLeap ==
  kern = 0 /\ electric = 0 /\ tab = 0 /\ leapsec = 0 /\ leapdif = 0 /\ sys_leap = 0 /\ sys_tai = 0
NoKeys ==
  /\ main = "" /\ hour_timer = 0 /\ ran = FALSE /\ K_time = 0 /\ K_length = 0 /\ keys = 0 /\ keyfile = None
  /\ ke = None /\ cookie = None
NoStats ==
  /\ gen = 0 /\ disk = 0 /\ files = 0 /\ conflicts = 0 /\ pid = 0 /\ crashed = 0 /\ reused = 0
  /\ ticks = 0 /\ events = 0
NoFreq == drift = 0 /\ resid = 0 /\ prev = 0 /\ file = 0 /\ temp = 0 /\ seen = NoDrift /\ failed = FALSE /\ driftfaults = 0

MCInit ==
  \/ part = "leap" /\ Leap!Init /\ NoKeys /\ NoStats /\ NoFreq /\ up = FALSE
  \/ part = "keys" /\ KeysInit /\ NoLeap /\ current_time = 0 /\ NoStats /\ NoFreq
  \/ part = "stats" /\ Stats!StatsInit /\ NoLeap /\ NoKeys /\ NoFreq /\ up = FALSE
  \/ part = "freq" /\ DriftInit /\ NoLeap /\ NoKeys /\ NoStats /\ now = 0 /\ current_time = 0 /\ up = FALSE
MCNext ==
  /\ UNCHANGED part
  /\ \/ part = "leap" /\ Leap!Next /\ UNCHANGED <<up, keystate, statvars, freqvars>>
     \/ part = "keys" /\ KeysNext /\ UNCHANGED <<current_time, leapvars, statvars, freqvars>>
     \/ part = "stats" /\ Stats!StatsNext /\ UNCHANGED <<up, leapvars, keystate, freqvars>>
     \/ part = "freq" /\ DriftNext /\ UNCHANGED <<current_time, leapvars, keyvars, statvars>>
MCSpec == MCInit /\ [][MCNext]_all

-----------------------------------------------------------------------------
\* A leap the daemon makes steps the clock by the change of the TAI offset, once
\* and in time, see LeapSeconds.
ClockFollowsTai == [][part = "leap" => Leap!FollowsTai]_all
\* timer() announces a leap second to clients only when one of that sign is due
\* within a day, see LeapSeconds.
AnnouncedRight == [][part = "leap" => Leap!RightlyAnnounced]_all
\* filegen_setup and filegen_open keep each record in the file of its date, see
\* StatsFiles.
RecordsFiled == part = "stats" => Stats!RecordsFiled
=============================================================================
