----------------------------- MODULE RefclockJjy -----------------------------
(***************************************************************************)
(* The jjy driver: six Japanese radio and GPS clocks on a serial line, and *)
(* the telephone time service.  u.mode is the kind of clock; "tel" is the  *)
(* telephone without, "telloop" with a measurement of the delay.           *)
(*                                                                         *)
(* x.proc is iProcessState, x.seq iCommandSeq, x.stamps iTimestampCount.   *)
(* For the telephone there are two state machines: the service (clock, its *)
(* timers csilent and cstate, its command cseq, the loopbacks done) and    *)
(* the modem (modem, mcount, msilent, mstate, mseq).                       *)
(***************************************************************************)
EXTENDS Refclock, Sequences

CONSTANT MaxLoopback   \* MAX_LOOPBACK

ASSUME JjyAssumption == MaxLoopback \in Nat \ {0}

JjyX == [proc |-> "IDLE", heard |-> FALSE, polled |-> FALSE, seq |-> 0, stamps |-> 0, recv |-> 0, stuck |-> FALSE,
         clock |-> "IDLE", csilent |-> 0, cstate |-> 0, cseq |-> 0, loops |-> 0, err |-> FALSE, fit |-> TRUE,
         modem |-> "DISCONNECT", mcount |-> 0, msilent |-> 0, mstate |-> 0, mseq |-> 0]
JjyModes == {"jjy01", "jst2000", "lt2000", "jjy200", "gps01", "tdc300", "tel", "telloop"}
Telephone(u) == u.mode \in {"tel", "telloop"}

\* "write" in e: the telephone number may be dialled.
jjy_start(u, e) ==
  IF u.mode \notin JjyModes \/ (Telephone(u) /\ "write" \notin e) THEN Failed(u) ELSE SerialStart(u, e)
jjy_synctime(u, m) ==
  IF m = "baddate" THEN refclock_report(u, "badtime")
  ELSE refclock_receive(SAMPLE([u EXCEPT !.told = "sync"]))
End(u, proc) == [u EXCEPT !.x.proc = proc]

-----------------------------------------------------------------------------
(***************************************************************************)
(* The serial clocks.  A reply m is what it answers: the command of the    *)
(* dialogue, or a time that is "late" (two seconds after the first),       *)
(* "midnight" (before the first), "unsure" (the clock says so), "guard"    *)
(* (just before midnight, without a date), the "mark" of the second,       *)
(* "nmea" (an unasked line), "short" (a chunk that is cut) or "garbled".   *)
(***************************************************************************)
jjy01_commands == <<"dcst", "stus", "time", "date", "time">>
gps01_commands == <<"stus", "time", "date", "time">>
Times == {"time", "late", "midnight"}
JjyMsgs(mode) ==
  CASE mode = "jjy01" -> Times \union {"dcst", "stus", "date", "garbled"}
    [] mode = "gps01" -> Times \union {"stus", "date", "nmea", "garbled"}
    [] mode = "jst2000" -> {"time", "baddate", "short", "garbled"}
    [] mode = "lt2000" -> {"time", "baddate", "garbled"}
    [] mode = "jjy200" -> {"time", "baddate", "unsure", "garbled"}
    [] mode = "tdc300" -> {"time", "guard", "dated", "mark", "garbled"}

\* jjy_receive_tristate_jjy01 and jjy_receive_tristate_gpsclock01: the date is
\* asked for between two times.
Tristate(u, m, e, commands) ==
  LET cmd  == IF u.x.seq \in DOMAIN commands THEN commands[u.x.seq] ELSE "none"
      fits == IF cmd = "time" THEN m \in Times /\ u.x.stamps < 2 ELSE m = cmd
      v    == [u EXCEPT !.x.stamps = IF m \in Times THEN @ + 1 ELSE @]
      w    == [v EXCEPT !.x.seq = @ + 1]
  IN  IF m = "nmea" THEN u
      ELSE IF ~fits THEN End(u, "ERROR")
      ELSE IF v.x.stamps = 2
      THEN IF m = "time" THEN End(jjy_synctime(v, m), "DONE") ELSE End(v, IF m = "late" THEN "ERROR" ELSE "DONE")
      ELSE IF w.x.seq > Len(commands) THEN End(w, "DONE")
      ELSE write(w, e)
\* A chunk without its end is kept, in front of what comes, until the next poll.
jjy_receive_cdex_jst2000(u, m) ==
  IF u.x.seq # 1 THEN End(u, "ERROR")
  ELSE IF u.x.stuck \/ m = "short" THEN [u EXCEPT !.x.stuck = TRUE]
  ELSE IF m = "garbled" THEN End(u, "ERROR") ELSE End(jjy_synctime(u, m), "DONE")
\* Continuous mode is switched off after each timestamp.
jjy_receive_echokeisokuki_lt2000(u, m, e) ==
  IF m = "garbled" THEN End(u, "ERROR") ELSE End(write(jjy_synctime(u, m), e), "DONE")
jjy_receive_citizentic_jjy200(u, m) ==
  IF m = "garbled" THEN End(u, "ERROR")
  ELSE IF m = "unsure" THEN End([u EXCEPT !.told = "unsync"], "DONE")
  ELSE End(jjy_synctime(u, m), "DONE")
\* "time" is of type 1 or 2, "dated" of type 3, whose second is marked after.
jjy_receive_seiko_tsys_tdc_300(u, m) ==
  LET v == [u EXCEPT !.x.recv = Up(@)] IN
  IF m = "garbled" \/ (m = "mark" /\ v.x.recv >= 3) THEN End(v, "ERROR")
  ELSE IF m \in {"guard", "dated"} THEN v
  ELSE IF m = "mark" /\ v.x.recv = 1 THEN u
  ELSE End(jjy_synctime(v, m), "DONE")
JjySerial(u, m, e) ==
  CASE u.mode = "jjy01" -> Tristate(u, m, e, jjy01_commands)
    [] u.mode = "gps01" -> Tristate(u, m, e, gps01_commands)
    [] u.mode = "jst2000" -> jjy_receive_cdex_jst2000(u, m)
    [] u.mode = "lt2000" -> jjy_receive_echokeisokuki_lt2000(u, m, e)
    [] u.mode = "jjy200" -> jjy_receive_citizentic_jjy200(u, m)
    [] u.mode = "tdc300" -> jjy_receive_seiko_tsys_tdc_300(u, m)

-----------------------------------------------------------------------------
(***************************************************************************)
(* The modem.  A tick of the timers is five seconds, of which every limit  *)
(* is a multiple.  "refused" is NO CARRIER, NO DAILTONE, BUSY or NO ANSWER.*)
(***************************************************************************)
iModemStateTimeout(s) == CASE s = "INITIALIZE" -> 4 [] s = "DAILING" -> 18 [] s = "ESCAPE" -> 4 [] OTHER -> 0
iModemSilentTimeout(s) == IF s = "ESCAPE" THEN 1 ELSE 0
ModemReplies == {"OK", "ERROR", "CONNECT", "refused", "unknown"}
iModemNextState(ev, s) ==
  CASE s = "DISCONNECT" /\ ev = "INITIALIZE" -> "INITIALIZE"
    [] s = "INITIALIZE" /\ ev \in {"OK", "ERROR"} -> "DAILING"
    [] s = "INITIALIZE" /\ ev \in {"HANGUP", "TIMEOUT"} -> "DISCONNECT"
    [] s = "DAILING" /\ ev = "CONNECT" -> "CONNECT"
    [] s = "DAILING" /\ ev \in {"refused", "ERROR"} -> "DISCONNECT"
    [] s \in {"DAILING", "CONNECT"} /\ ev \in {"HANGUP", "TIMEOUT"} -> "ESCAPE"
    [] s = "ESCAPE" /\ ev \in {"SILENT", "TIMEOUT"} -> "DISCONNECT"
    [] OTHER -> s
iModemPostEvent(ev, s) ==
  CASE s = "DISCONNECT" /\ ev = "INITIALIZE" -> "INITIALIZE"
    [] s = "INITIALIZE" /\ ev \in {"OK", "ERROR"} -> "DIALOUT"
    [] s \in {"DAILING", "CONNECT"} /\ ev \in {"HANGUP", "TIMEOUT"} -> "HANGUP"
    [] OTHER -> "NULL"
\* The handlers: what each does, and whether the state changes.
Stay(u) == [change |-> FALSE, u |-> u]
Change(u) == [change |-> TRUE, u |-> u]
modem_init_resp00(u, e) ==
  LET v == [u EXCEPT !.x.mseq = @ + 1]
  IN  IF v.x.mseq = 8 THEN Change(v) ELSE Stay(write(v, e))
modem_esc_disc(u, e) == Change(write(u, e))
modem_esc_silent(u, e) ==
  LET v == [u EXCEPT !.x.mcount = @ + 1]
  IN  IF v.x.mcount < iModemStateTimeout("ESCAPE") \div iModemSilentTimeout("ESCAPE")
      THEN Stay(write([v EXCEPT !.x.msilent = 0], e)) ELSE modem_esc_disc(v, e)
pModemHandler(ev, u, e) ==
  LET s == u.x.modem IN
  CASE s = "INITIALIZE" /\ ev = "INITIALIZE" -> modem_init_resp00([u EXCEPT !.x.mseq = 0], e)
    [] s = "INITIALIZE" /\ ev \in {"OK", "ERROR"} -> modem_init_resp00(u, e)
    [] s = "DAILING" /\ ev = "DIALOUT" -> Stay(write(u, e))
    [] s = "DAILING" /\ ev \in {"refused", "ERROR"} -> modem_esc_disc(u, e)
    [] s = "ESCAPE" /\ ev = "HANGUP" -> Stay(write(u, e))
    [] s = "ESCAPE" /\ ev \in ModemReplies -> Stay([u EXCEPT !.x.msilent = 0])
    [] s = "ESCAPE" /\ ev = "SILENT" -> modem_esc_silent(u, e)
    [] s = "ESCAPE" /\ ev = "TIMEOUT" -> modem_esc_disc(u, e)
    [] OTHER -> IF iModemNextState(ev, s) = s THEN Stay(u) ELSE Change(u)
\* What follows from what the handler answered, h.
ModemMoved(u, ev, h) ==
  LET next == iModemNextState(ev, u.x.modem)
  IN  IF ~h.change THEN [u |-> h.u, post |-> "NULL"]
      ELSE [u |-> IF next = u.x.modem THEN h.u
                  ELSE [h.u EXCEPT !.x.modem = next, !.x.mcount = 0, !.x.mstate = 0, !.x.mseq = 0],
            post |-> iModemPostEvent(ev, u.x.modem)]
ModemStep(u, ev, e) == ModemMoved(u, ev, pModemHandler(ev, u, e))
\* An event posted is handled at once, and posts no other.
ModemPosted(a, e) == IF a.post = "NULL" THEN a.u ELSE ModemStep(a.u, a.post, e).u
modem_control(u, ev, e) == ModemPosted(ModemStep(u, ev, e), e)
ModemSilence(u, e) ==
  LET s == [u EXCEPT !.x.msilent = @ + 1]
  IN  IF iModemSilentTimeout(u.x.modem) = 0 THEN u
      ELSE IF s.x.msilent < iModemSilentTimeout(u.x.modem) THEN s ELSE modem_control(s, "SILENT", e)
ModemTimeout(v, e) ==
  LET t == [v EXCEPT !.x.mstate = @ + 1]
  IN  IF iModemStateTimeout(v.x.modem) = 0 THEN v
      ELSE IF t.x.mstate < iModemStateTimeout(v.x.modem) THEN t ELSE modem_control(t, "TIMEOUT", e)
modem_timer_jjy(u, e) == ModemTimeout(ModemSilence(u, e), e)

-----------------------------------------------------------------------------
(***************************************************************************)
(* The telephone service.                                                  *)
(***************************************************************************)
iTeljjySilentTimeout(s) == CASE s = "LOGIN" -> 2 [] s = "CONNECT" -> 1 [] OTHER -> 0
iTeljjyStateTimeout(s) == CASE s = "DAILOUT" -> 24 [] s \in {"LOGIN", "CONNECT"} -> 12 [] s = "BYE" -> 8 [] OTHER -> 0
iTeljjyNextState(ev, s) ==
  CASE ev = "DISCONNECT" -> "IDLE"
    [] s = "IDLE" /\ ev = "START" -> "DAILOUT"
    [] s = "DAILOUT" /\ ev = "CONNECT" -> "LOGIN"
    [] s = "DAILOUT" /\ ev = "TIMEOUT" -> "IDLE"
    [] s = "LOGIN" /\ ev = "PROMPT" -> "CONNECT"
    [] s = "LOGIN" /\ ev \in {"ERROR", "TIMEOUT"} -> "BYE"
    [] s = "CONNECT" /\ ev \in {"LOGIN", "PROMPT", "ERROR", "TIMEOUT"} -> "BYE"
    [] OTHER -> s
iTeljjyPostEvent(ev, s) ==
  CASE s = "LOGIN" /\ ev = "PROMPT" -> "PROMPT"
    [] s = "LOGIN" /\ ev \in {"ERROR", "TIMEOUT"} -> "COMMAND"
    [] s = "CONNECT" /\ ev \in {"LOGIN", "PROMPT", "ERROR", "TIMEOUT"} -> "COMMAND"
    [] OTHER -> "NULL"
teljjy_commands == <<"LOOP">> \o [i \in 1..MaxLoopback |-> "loopback"] \o <<"COM", "TIME", "4DATE", "LEAPSEC", "TIME", "BYE">>
TELJJY_COMMAND_START_SKIP_LOOPBACK == MaxLoopback + 2
Command(u) == IF u.x.cseq \in DOMAIN teljjy_commands THEN teljjy_commands[u.x.cseq] ELSE "none"
teljjy_conn_send(u, e) ==
  LET v == IF u.x.cseq = 0
           THEN IF u.mode = "tel" THEN [u EXCEPT !.x.cseq = TELJJY_COMMAND_START_SKIP_LOOPBACK]
                ELSE [u EXCEPT !.x.loops = 0]
           ELSE IF u.mode = "telloop" /\ Command(u) = "loopback" /\ u.x.loops < MaxLoopback
           THEN [u EXCEPT !.x.loops = @ + 1] ELSE u
      w == [v EXCEPT !.x.cseq = @ + 1]
  IN  IF u.x.cseq > Len(teljjy_commands) THEN Change(u)
      ELSE IF w.x.cseq > Len(teljjy_commands) THEN Change(w)
      ELSE IF w.x.cseq = Len(teljjy_commands) THEN Change(write(w, e)) ELSE Stay(write(w, e))
\* "echo" is the command itself, "step" a time that does not follow the last.
TelReplies == {"Name", ">", "?", "echo", "time", "step", "badtime", "date", "nodate", "leap", "other"}
MAX_TIMESTAMP == 6
teljjy_conn_data(u, m) ==
  LET n   == u.x.stamps
      bad == [u EXCEPT !.x.err = TRUE]
      t   == [u EXCEPT !.x.stamps = IF n < MAX_TIMESTAMP THEN n + 1 ELSE n,
                       !.x.err = @ \/ m = "badtime" \/ n = MAX_TIMESTAMP,
                       !.x.fit = @ /\ (m = "step" => n < 3)]
  IN  IF m = "echo" THEN u
      ELSE IF Command(u) = "4DATE" /\ m \in {"date", "nodate"} THEN IF m = "date" THEN u ELSE bad
      ELSE IF Command(u) = "LEAPSEC" /\ m = "leap" THEN u
      ELSE IF Command(u) = "TIME" /\ m \in {"time", "step", "badtime"}
      THEN IF t.x.stamps = MAX_TIMESTAMP /\ ~t.x.err /\ t.x.fit THEN jjy_synctime(t, m) ELSE t
      ELSE IF Command(u) = "loopback" THEN u ELSE bad
teljjy_conn_silent(u, e) ==
  IF u.x.cseq \in 1..(TELJJY_COMMAND_START_SKIP_LOOPBACK - 1)
  THEN teljjy_conn_send([u EXCEPT !.x.csilent = 0], e) ELSE Stay(write([u EXCEPT !.x.csilent = 0], e))
Afresh(u) == [u EXCEPT !.x.err = FALSE, !.x.cseq = 0, !.x.stamps = 0, !.x.fit = TRUE, !.x.loops = 0]
pTeljjyHandler(ev, u, m, e) ==
  LET s == u.x.clock IN
  CASE s = "IDLE" /\ ev = "START" -> Change(modem_control(u, "INITIALIZE", e))
    [] s = "LOGIN" /\ ev = "LOGIN" -> Stay(write(u, e))
    [] s = "LOGIN" /\ ev = "PROMPT" -> Change(Afresh(u))
    [] s = "LOGIN" /\ ev = "SILENT" -> Change(write([u EXCEPT !.x.csilent = 0], e))
    [] s = "CONNECT" /\ ev = "PROMPT" -> teljjy_conn_send(u, e)
    [] s = "CONNECT" /\ ev = "DATA" -> Stay(teljjy_conn_data(u, m))
    [] s = "CONNECT" /\ ev = "SILENT" -> teljjy_conn_silent(u, e)
    [] s = "BYE" /\ ev \in {"COMMAND", "TIMEOUT"} -> Stay(modem_control(u, "HANGUP", e))
    [] OTHER -> IF iTeljjyNextState(ev, s) = s THEN Stay(u) ELSE Change(u)
TeljjyMoved(u, ev, h) ==
  LET next == iTeljjyNextState(ev, u.x.clock)
      v == [h.u EXCEPT !.x.csilent = 0]
      w == [Afresh(v) EXCEPT !.x.clock = next, !.x.cstate = 0, !.x.proc = IF next = "IDLE" THEN "DONE" ELSE @]
  IN  IF ~h.change THEN [u |-> h.u, post |-> "NULL"]
      ELSE [u |-> IF next = u.x.clock THEN v ELSE w, post |-> iTeljjyPostEvent(ev, u.x.clock)]
TeljjyStep(u, ev, m, e) == TeljjyMoved(u, ev, pTeljjyHandler(ev, u, m, e))
TeljjyPosted(a, m, e) == IF a.post = "NULL" THEN a.u ELSE TeljjyStep(a.u, a.post, m, e).u
teljjy_control(u, ev, m, e) == TeljjyPosted(TeljjyStep(u, ev, m, e), m, e)

\* Mutant: the service is not told that the modem hung up.
ModemChanged_Lost(u, v, m, e) ==
  IF v.x.modem # u.x.modem /\ v.x.modem = "CONNECT" THEN teljjy_control(v, "CONNECT", m, e) ELSE v
\* A change of the modem's state from u to v is an event for the service.
ModemChanged(u, v, m, e) ==
  IF v.x.modem # u.x.modem /\ v.x.modem \in {"DISCONNECT", "CONNECT"} THEN teljjy_control(v, v.x.modem, m, e) ELSE v
jjy_receive_telephone(u, m, e) ==
  LET reply == IF m \in ModemReplies THEN m ELSE "unknown"
      v     == [u EXCEPT !.x.csilent = 0]
      ev    == CASE m = "Name" -> "LOGIN" [] m = ">" -> "PROMPT" [] m = "?" -> "ERROR" [] OTHER -> "DATA"
  IN  IF u.x.clock \in {"IDLE", "DAILOUT", "BYE"} THEN ModemChanged(u, modem_control(u, reply, e), m, e)
      ELSE teljjy_control(v, ev, IF m \in ModemReplies THEN "other" ELSE m, e)
jjy_poll_telephone(u, e) == teljjy_control(u, "START", "other", e)
TeljjySilence(u, e) ==
  LET s == [u EXCEPT !.x.csilent = @ + 1]
  IN  IF iTeljjySilentTimeout(u.x.clock) = 0 THEN u
      ELSE IF s.x.csilent < iTeljjySilentTimeout(u.x.clock) THEN s ELSE teljjy_control(s, "SILENT", "other", e)
TeljjyTimeout(v, e) ==
  LET t == [v EXCEPT !.x.cstate = @ + 1]
  IN  IF iTeljjyStateTimeout(v.x.clock) = 0 THEN v
      ELSE IF t.x.cstate < iTeljjyStateTimeout(v.x.clock) THEN t ELSE teljjy_control(t, "TIMEOUT", "other", e)
ModemTimed(w, e) == ModemChanged(w, modem_timer_jjy(w, e), "other", e)
jjy_timer_telephone(u, e) == ModemTimed(TeljjyTimeout(TeljjySilence(u, e), e), e)

-----------------------------------------------------------------------------
jjy_receive(u, m, e) ==
  LET v == [u EXCEPT !.x.heard = TRUE, !.x.proc = "RECEIVE"] IN
  IF u.x.proc \in {"IDLE", "DONE", "ERROR"} THEN u
  ELSE IF Telephone(u) THEN jjy_receive_telephone(v, m, e) ELSE JjySerial(v, m, e)
jjy_timer(u, e) == IF Telephone(u) THEN jjy_timer_telephone(u, e) ELSE u
\* The first command a poll sends, after those flag1 asks for.
FirstCommand(u) ==
  CASE u.mode = "jjy01" -> IF 1 \in u.flags THEN 1 ELSE 3 [] u.mode = "gps01" -> IF 1 \in u.flags THEN 1 ELSE 2
    [] u.mode = "jst2000" -> 1 [] OTHER -> 0
jjy_poll(u, e) ==
  LET v == IF u.x.polled /\ ~u.x.heard THEN refclock_report(u, "timeout") ELSE u
      w == [v EXCEPT !.x.proc = "POLL", !.x.polled = TRUE, !.x.recv = 0, !.x.stuck = FALSE, !.x.err = FALSE,
                     !.x.seq = FirstCommand(u), !.x.heard = FirstCommand(u) > 1,
                     !.x.stamps = IF Telephone(u) THEN @ ELSE 0]
  IN  IF Telephone(u) THEN jjy_poll_telephone(w, e)
      ELSE IF u.mode \in {"jjy200", "tdc300"} THEN w ELSE write(w, e)
=============================================================================
