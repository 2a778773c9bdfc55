--------------------------- MODULE RefclockGeneric ---------------------------
(***************************************************************************)
(* The driver generic (PARSE): one of the clock types of parse_clockinfo[] *)
(* reads telegrams through libparse.  u.mode has the format, whether PPS   *)
(* was asked for (CLK_PPS) and whether the type may be trusted in POWERUP  *)
(* (PARSE_F_POWERUPTRUST).                                                 *)
(*                                                                         *)
(* x: lastsync (is not 0), miss (lastmissed: "never", "before" or "after"  *)
(* lastsync), need (pollneeddata), saved (a PPS timestamp carried from one *)
(* telegram to the next), api (PARSE_PPSAPI) and pd (the private data of    *)
(* the format).                                                            *)
(***************************************************************************)
EXTENDS Refclock, LibParse

GenericX == [lastsync |-> FALSE, miss |-> "never", need |-> FALSE, saved |-> FALSE, api |-> FALSE, pd |-> TsipData]

\* m.shape "data" is a binary message of a GPS receiver, for cl_message.
Telegrams(format) ==
  IF format = "Trimble TSIP"
  THEN [cmd : {"RCURTIME"}, shape : {"good", "foreign", "garbled"}, when : {"ok"}]
         \union [cmd : {"RRECVHEALTH"}, health : {"sync", "unsafe", "bad"}, shape : {"good"}]
         \union [cmd : {"RUTCPARAM"}, known : BOOLEAN, change : {"none", "soon", "past"}, shape : {"good"}]
  ELSE [shape : {"good"}, when : {"ok"}, says : {{}, {"poweron"}, {"nosync"}, {"poweron", "nosync"}, {"add"}, {"del"}}]
         \union [shape : {"good"}, when : {"baddate", "badtime"}, says : {{}}]
         \union [shape : {"garbled", "foreign"} \union If(format = "Meinberg GPS Extended", "data"), when : {"ok"}, says : {{}}]

-----------------------------------------------------------------------------
parse_shutdown(u) ==
  IF u.mem = "none" THEN u ELSE io_closeclock(Freed([u EXCEPT !.x.api = FALSE]))
\* "ok": the port opens; "write": the rest succeeds, else parse_shutdown has
\* cleaned up before refclock_unpeer calls it again.  PARSE_PPSAPI is set by
\* the serial port alone, too ("pulse").
parse_start(u, e) ==
  LET v == [u EXCEPT !.fd = TRUE, !.mem = "held", !.x.api = "pulse" \in e]
  IN  IF "ok" \notin e \/ u.mode.format \notin Formats THEN Failed(u)
      ELSE IF "write" \notin e THEN Failed(parse_shutdown(v))
      ELSE Started(io_addclock(v))
\* Changed flags set the PPS interface up again, which may fail.
parse_ctl(u, e) == IF u.mode.pps THEN [u EXCEPT !.x.api = "pulse" \in e] ELSE u

\* A poll only asks for the next sample.  The telegram it asked for last is
\* missed when more than a poll interval has passed ("shortened": the interval
\* was reduced since), for polls come exactly one interval apart.
parse_poll(u, e) ==
  LET late == u.x.need /\ "shortened" \in e
      v    == [u EXCEPT !.x.need = TRUE, !.x.miss = IF late THEN "after" ELSE @]
  IN  IF late THEN refclock_report(v, "timeout") ELSE v

-----------------------------------------------------------------------------
\* What the clock says of itself, for types that are never trusted in POWERUP.
Remark(u, flags) ==
  [u EXCEPT !.told = IF PARSE_SYNC(flags) THEN "sync" ELSE IF PARSE_POWERUP(flags) /\ ~u.mode.trust THEN "unsync" ELSE "held"]
Synchronized(u) ==
  [u EXCEPT !.x.lastsync = TRUE, !.x.miss = IF @ = "after" THEN "before" ELSE @]
\* "expired": lastsync is more than maxunsync ago.
Distrusted(u, flags, e) ==
  \/ "expired" \in e /\ ~PARSE_SYNC(flags)
  \/ u.x.miss = "after"
  \/ ~u.x.lastsync /\ ~PARSE_SYNC(flags)
  \/ ~u.mode.trust /\ PARSE_POWERUP(flags)
\* A clock out of trust must be seen synchronized again; lastsync = 0 is
\* before any missed telegram.
Outcast(u) ==
  [u EXCEPT !.leap = "notinsync", !.x.lastsync = FALSE, !.x.miss = IF @ = "before" THEN "after" ELSE @, !.pps = FALSE]
\* PARSE_LEAP_DELETE is flag 4.
Announced(u, flags) ==
  IF ~PARSE_SYNC(flags) THEN "nowarn"
  ELSE IF "LEAPADD" \in flags THEN IF 4 \in u.flags THEN "delsecond" ELSE "addsecond"
  ELSE IF "LEAPDEL" \in flags THEN "delsecond" ELSE "nowarn"
\* parse_process of a good telegram: the state of the clock, the verdict, the
\* sample and, when one was asked for or at startup, the hand-over.  FLAG_PPS
\* and the kernel's PPS go together.
parse_process(u, flags, pulse, e) ==
  LET v == [Remark(u, flags) EXCEPT !.x.saved = @ \/ pulse]
      w == IF PARSE_POWERUP(flags) THEN refclock_report(v, "fault")
           ELSE IF PARSE_SYNC(flags) THEN refclock_report(Synchronized(v), "nominal") ELSE refclock_report(v, "prop")
      s == IF Distrusted(w, flags, e) THEN Outcast(w)
           ELSE SAMPLE([w EXCEPT !.leap = Announced(u, flags), !.pps = @ \/ (v.x.saved /\ u.mode.pps)])
  IN  IF ~u.x.need /\ "far" \notin e THEN s
      ELSE refclock_receive([s EXCEPT !.x.need = FALSE, !.x.saved = FALSE])
\* local_input and local_receive of the last character of a telegram.
local_receive(u, m, e) ==
  LET pulse == u.x.api /\ "pulse" \in e
      c     == timepacket(u.mode.format, u.x.pd, m)
      v     == [u EXCEPT !.x.pd = c.pd]
  IN  IF m.shape = "data" THEN [u EXCEPT !.x.saved = @ \/ pulse]
      ELSE IF c.r.status = "none" THEN v
      ELSE IF c.r.status # "ok" THEN refclock_report(v, c.r.status)
      ELSE parse_process(v, c.r.flags, pulse, e)
=============================================================================
