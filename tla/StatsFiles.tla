----------------------------- MODULE StatsFiles -----------------------------
(***************************************************************************)
(* The statistics files of ntpd: file generations (ntp_filegen.c), the     *)
(* functions that write records to them (ntp_util.c) and their             *)
(* configuration (config_monitor of ntp_config.c).  Files are inodes, so   *)
(* that links and renamed files can be followed.                           *)
(*                                                                         *)
(* Time is in ticks, SECSPERDAY to a day; months have 3 days, years 9.     *)
(***************************************************************************)
EXTENDS Integers, Sequences, FiniteSets

CONSTANTS
  Types,         \* the statistics, a set at a time, -> generation types asked for
  SECSPERDAY,
  MaxTicks, MaxRecords,
  MaxEvents      \* of configurations, starts, set clocks and files that do not open

VARIABLES
  gen,       \* name -> FILEGEN: [fp, id_lo, id_hi, type, link, enabled, fname, failed], fp an inode or 0
  disk,      \* set of [name, inode]
  files,     \* inode -> set of records [of, at, type, late]
  conflicts,
  now, up,   \* the clock, and current_time
  pid,
  crashed,
  reused,    \* of the history: two starts had the same pid
  ticks, events
stats == <<gen, disk, files, conflicts, now, up, pid, crashed, reused, ticks, events>>

DayOf(t) == t \div SECSPERDAY
Year(t) == DayOf(t) \div 9
Yday(t) == DayOf(t) % 9
Month(t) == Yday(t) \div 3

Plain(name) == <<name, "plain">>
FullName(f) ==
  CASE f.type = "none"  -> Plain(f.fname)
    [] f.type = "pid"   -> <<f.fname, "pid", pid>>
    [] f.type = "day"   -> <<f.fname, "day", Year(now), Yday(now)>>
    [] f.type = "week"  -> <<f.fname, "week", Year(now), Yday(now) % 7>>
    [] f.type = "month" -> <<f.fname, "month", Year(now), Month(now)>>
    [] f.type = "year"  -> <<f.fname, "year", Year(now)>>
    [] f.type = "age"   -> <<f.fname, "age", up - (up % SECSPERDAY)>>

filegen_init(name) ==
  [fp |-> 0, id_lo |-> 0, id_hi |-> 0, type |-> "day", link |-> TRUE, enabled |-> FALSE, fname |-> name,
   failed |-> FALSE]

\* The operations of the file system, from [disk, files] to the same.
Exists(s, name) == \E d \in s.disk : d.name = name
Inode(s, name) == (CHOOSE d \in s.disk : d.name = name).inode
Links(s, inode) == Cardinality({d \in s.disk : d.inode = inode})
Unlink(s, name) == [s EXCEPT !.disk = {d \in @ : d.name # name}]
Link(s, inode, name) == [s EXCEPT !.disk = @ \union {[name |-> name, inode |-> inode]}]
Rename(s, from, to) == Link(Unlink(Unlink(s, from), to), Inode(s, from), to)
Create(s, name) ==
  IF Exists(s, name) THEN s
  ELSE [s EXCEPT !.files = Append(@, {}), !.disk = @ \union {[name |-> name, inode |-> Len(s.files) + 1]}]

\* A file with the plain name is in the way: another name of a generation is
\* removed, a file of its own is kept under a new one.
Cleared(s, f) ==
  IF f.type = "none" \/ ~Exists(s, Plain(f.fname)) THEN s
  ELSE IF Links(s, Inode(s, Plain(f.fname))) > 1 THEN Unlink(s, Plain(f.fname))
  ELSE [Rename(s, Plain(f.fname), <<f.fname, "C", pid, s.conflicts>>) EXCEPT !.conflicts = @ + 1]
\* The period of the generation; it is set before the file is known to open.
Period(f) ==
  LET t == IF f.type = "age" THEN up ELSE now
  IN IF f.type \in {"none", "pid"} THEN f
     ELSE [f EXCEPT !.id_lo = t - (t % SECSPERDAY), !.id_hi = t - (t % SECSPERDAY) + SECSPERDAY]
\* filegen_open, from [disk, files, conflicts, f] to the same; fails says that
\* the file does not open, f.failed that this is why f.fp is what it was.
filegen_open(s, fails) ==
  LET f    == Period(s.f)
      c    == Cleared(s, f)
      name == FullName(f)
      o    == Create(c, name)
      l    == IF f.link /\ ~Exists(o, Plain(f.fname)) THEN Link(o, Inode(o, name), Plain(f.fname)) ELSE o
  IN IF fails THEN [c EXCEPT !.f = [f EXCEPT !.failed = TRUE]]
     ELSE [l EXCEPT !.f = [f EXCEPT !.fp = Inode(o, name), !.failed = FALSE]]

\* Mutant: a clock that was set back is not noticed.
Current_End(f) ==
  CASE f.type \in {"none", "pid"} -> TRUE
    [] f.type = "age" -> f.id_hi > up
    [] OTHER -> f.id_hi > now
Current(f) ==
  CASE f.type \in {"none", "pid"} -> TRUE
    [] f.type = "age" -> f.id_hi > up
    [] OTHER -> f.id_lo <= now /\ f.id_hi > now
filegen_setup(s, fails) ==
  IF ~s.f.enabled THEN [s EXCEPT !.f.fp = 0]
  ELSE IF s.f.fp = 0 \/ ~Current(s.f) THEN filegen_open(s, fails) ELSE s
\* new has the type, the flags and the name; an open file is replaced at once.
filegen_config(s, new, fails) ==
  LET f == [s.f EXCEPT !.type = new.type, !.link = new.link, !.enabled = new.enabled, !.fname = new.fname]
  IN IF f = s.f THEN s
     ELSE IF s.f.fp = 0 THEN [s EXCEPT !.f = f]
     ELSE filegen_setup([s EXCEPT !.f = [f EXCEPT !.fp = 0]], fails)

-----------------------------------------------------------------------------
(* The records.  x is [gen, disk, files, conflicts, crashed].                 *)

FilesOf(x, g) == [disk |-> x.disk, files |-> x.files, conflicts |-> x.conflicts, f |-> x.gen[g]]
Keep(x, g, s) == [x EXCEPT !.gen[g] = s.f, !.disk = s.disk, !.files = s.files, !.conflicts = s.conflicts]
Line(x, g) == [of |-> g, at |-> now, type |-> x.gen[g].type, late |-> x.gen[g].failed]
Write(x, g) == [x EXCEPT !.files[x.gen[g].fp] = @ \union {Line(x, g)}]
\* What happened, to the statistics g, if there is a file for it.
Record(x, g, fails) ==
  LET y == Keep(x, g, filegen_setup(FilesOf(x, g), fails))
  IN IF g \notin DOMAIN x.gen THEN x ELSE IF y.gen[g].fp = 0 THEN y ELSE Write(y, g)

record_peer_stats(x, fails) == Record(x, "peerstats", fails)
record_raw_stats(x, fails) == Record(x, "rawstats", fails)
record_proto_stats(x, fails) == Record(x, "protostats", fails)
record_ntske_log(x, fails) == Record(x, "ntskelog", fails)
record_sys_stats(x, fails) == Record(x, "sysstats", fails)
record_use_stats(x, fails) == Record(x, "usestats", fails)
record_nts_stats(x, fails) == Record(x, "ntsstats", fails)
\* The file that is tested is the one of ntsstats: its lines are written when
\* both are open, and a null pointer is used when only the other one is.
record_ntske_stats(x, fails) ==
  LET y == Keep(x, "ntskestats", filegen_setup(FilesOf(x, "ntskestats"), fails))
  IN IF "ntskestats" \notin DOMAIN x.gen THEN x
     ELSE IF x.gen["ntsstats"].fp = 0 THEN y
     ELSE IF y.gen["ntskestats"].fp = 0 THEN [y EXCEPT !.crashed = TRUE]
     ELSE Write(y, "ntskestats")

-----------------------------------------------------------------------------
Before == [gen |-> gen, disk |-> disk, files |-> files, conflicts |-> conflicts, crashed |-> crashed]
Becomes(x) ==
  /\ gen' = x.gen /\ disk' = x.disk /\ files' = x.files /\ conflicts' = x.conflicts /\ crashed' = x.crashed
MayFail == {b \in BOOLEAN : b => events < MaxEvents}
Failed(fails) == events' = IF fails THEN events + 1 ELSE events
Event == events < MaxEvents /\ events' = events + 1
Records == UNION {files[i] : i \in DOMAIN files}
Room == Cardinality(Records) < MaxRecords /\ ~crashed

\* The configuration file, read when ntpd starts.
Generation(g, t, l) ==
  LET c == [type |-> t, link |-> l, enabled |-> TRUE, fname |-> g]
  IN filegen_config([disk |-> disk, files |-> files, conflicts |-> 0, f |-> filegen_init(g)], c, FALSE).f
StatsInit ==
  /\ disk = {} /\ files = << >> /\ conflicts = 0 /\ pid = 1 /\ crashed = FALSE
  /\ \E names \in DOMAIN Types, l \in BOOLEAN :
       \E t \in Types[names] : gen = [g \in names |-> Generation(g, t, l)]
  /\ now = 0 /\ up = 0 /\ reused = FALSE /\ ticks = 0 /\ events = 0

\* An event that has a record.
Happen ==
  /\ Room
  /\ \E fails \in MayFail :
       /\ Failed(fails)
       /\ \/ Becomes(record_peer_stats(Before, fails))
          \/ Becomes(record_raw_stats(Before, fails))
          \/ Becomes(record_proto_stats(Before, fails))
          \/ Becomes(record_ntske_log(Before, fails))
  /\ UNCHANGED <<now, up, pid, reused, ticks>>
\* Each hour.
write_stats ==
  /\ Room
  /\ \E fails \in MayFail :
       LET x == record_use_stats(record_sys_stats(Before, fails), fails)
       IN Becomes(record_ntske_stats(record_nts_stats(x, fails), fails)) /\ Failed(fails)
  /\ UNCHANGED <<now, up, pid, reused, ticks>>
\* config_monitor at run time, for a "filegen" line.
config_monitor ==
  /\ Event /\ ~crashed
  /\ \E g \in DOMAIN gen :
       \E new \in [type : Types[DOMAIN gen], link : BOOLEAN, enabled : BOOLEAN, fname : {g}] :
         Becomes(Keep(Before, g, filegen_config(FilesOf(Before, g), new, FALSE)))
  /\ UNCHANGED <<now, up, pid, reused, ticks>>

\* Half a day, a day or a week goes by; the clock is set back.
Tick ==
  /\ ticks < MaxTicks /\ ticks' = ticks + 1
  /\ \E d \in {SECSPERDAY \div 2, SECSPERDAY, 7 * SECSPERDAY} : now' = now + d /\ up' = up + d
  /\ UNCHANGED <<gen, disk, files, conflicts, pid, crashed, reused, events>>
SetBack ==
  /\ Event /\ now >= SECSPERDAY /\ now' = now - SECSPERDAY
  /\ UNCHANGED <<gen, disk, files, conflicts, up, pid, crashed, reused, ticks>>
\* ntpd ends, or is ended, and starts again; where pids are few it has the same.
Restart ==
  /\ Event /\ \E t \in Types[DOMAIN gen] : gen' = [g \in DOMAIN gen |-> Generation(g, t, gen[g].link)]
  /\ conflicts' = 0 /\ up' = 0 /\ crashed' = FALSE
  /\ pid' \in {pid, pid + 1} /\ reused' = (reused \/ pid' = pid)
  /\ UNCHANGED <<disk, files, now, ticks>>
StatsNext == Happen \/ write_stats \/ config_monitor \/ Tick \/ SetBack \/ Restart
StatsSpec == StatsInit /\ [][StatsNext]_stats

-----------------------------------------------------------------------------
\* Whether the generation a file is named for has the time t.
Covers(name, t) ==
  CASE name[2] = "day"   -> name[3] = Year(t) /\ name[4] = Yday(t)
    [] name[2] = "week"  -> name[3] = Year(t) /\ name[4] = Yday(t) % 7
    [] name[2] = "month" -> name[3] = Year(t) /\ name[4] = Month(t)
    [] name[2] = "year"  -> name[3] = Year(t)
    [] OTHER -> TRUE
\* A dated file has the records of its dates only; except those written while
\* the file of their own date did not open, and those of a file set that became
\* a plain file while its plain name was a link to the dated one.
InTheirFile == \A d \in disk : \A r \in files[d.inode] : r.late \/ r.type = "none" \/ Covers(d.name, r.at)
\* No record is lost: not by the removal of a link, and not when a file that is
\* in the way is renamed, if every start of ntpd has a pid of its own.
Kept == ~reused => \A i \in DOMAIN files : files[i] # {} => \E d \in disk : d.inode = i
\* Whatever the clock, the configuration and restarts do, every record that
\* filegen_setup and filegen_open let through stays, in the file of its date.
RecordsFiled == InTheirFile /\ Kept
=============================================================================
