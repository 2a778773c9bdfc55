--------------------------- MODULE RefclockPackets ---------------------------
(***************************************************************************)
(* The drivers nmea (sentences of a GPS receiver, with the PPS signal of   *)
(* the same receiver) and trimble (TSIP packets).                          *)
(***************************************************************************)
EXTENDS RefclockLines

(***************************************************************************)
(* nmea: u.mode is the set of sentences asked for (all when empty).  x has *)
(* the PPS interface ("tried", "lit", "gate", "own" when it has a          *)
(* descriptor of its own), whether the receiver was seen to give GPS time, *)
(* the last second taken and the sentences seen with a checksum.           *)
(***************************************************************************)
NmeaX == [tried |-> FALSE, lit |-> FALSE, gate |-> FALSE, own |-> FALSE, gps_time |-> FALSE, last |-> "none",
          cksum |-> {"RMC"}]
\* m.check is field_init's verdict, m.kind what the fields say and m.sec the
\* second they name.
NmeaMsgs(sentences) ==
  [check : {"valid", "csvalid"}, s : sentences, kind : {"sync", "unsync", "badtime", "baddate"}, sec : {"odd", "even"}]
    \union [check : {"invalid"}, s : {"RMC"}, kind : {"sync"}, sec : {"odd"}]

nmea_start(u, e) ==
  LET v == [u EXCEPT !.mem = "held"]
  IN  IF "ok" \in e THEN Started([io_addclock(v) EXCEPT !.fd = TRUE]) ELSE Failed(v)
nmea_shutdown(u) ==
  LET v == IF u.mem # "none" THEN Freed([u EXCEPT !.x.own = FALSE, !.x.lit = FALSE]) ELSE u
  IN  IF u.fd THEN io_closeclock(v) ELSE v
\* "write" in e: the PPS device opens, else the serial port serves.
nmea_control(u, e) ==
  IF 1 \in u.flags /\ ~u.x.tried
  THEN [u EXCEPT !.x.tried = TRUE, !.x.own = "write" \in e, !.x.lit = "ok" \in e]
  ELSE IF 1 \notin u.flags /\ u.x.tried
  THEN [u EXCEPT !.x.tried = FALSE, !.x.own = FALSE, !.x.lit = FALSE, !.x.gate = FALSE, !.pps = FALSE]
  ELSE u

\* refclock_ppsrelate: an edge that can be read and is near the sentence
\* ("pulse"), and one that may be used for the phase.
refclock_ppsrelate(u, e) ==
  IF u.leap = "notinsync" \/ "pulse" \notin e THEN "none"
  ELSE IF "insync" \in e /\ "far" \notin e THEN "phase" ELSE "edge"
\* A sentence without a date gets the system's, which must be synchronized.
Dated(m, e) == m.kind # "baddate" /\ (m.s \in {"GGA", "GLL"} => "insync" \in e)
Quality(m) == IF m.s = "ZDA" \/ m.kind # "unsync" THEN "nowarn" ELSE "notinsync"
NmeaRefused(u, m, e) ==
  IF m.kind = "badtime" THEN "badtime" ELSE IF ~Dated(m, e) THEN "baddate"
  ELSE IF u.leap = "notinsync" THEN "badreply" ELSE "nominal"
\* The sentence is good: one sample for each second it names.
nmea_take(u, m, e) ==
  LET rel == IF u.x.lit THEN refclock_ppsrelate(u, e) ELSE "none"
  IN  IF u.x.last = m.sec THEN u
      ELSE [SAMPLE(u) EXCEPT !.x.last = m.sec, !.x.gate = @ \/ rel # "none", !.pps = @ \/ rel = "phase"]
nmea_receive(u, m, e) ==
  LET sum == m.s \in u.x.cksum /\ m.check = "valid"
      v   == [u EXCEPT !.x.cksum = IF m.check = "csvalid" THEN @ \union {m.s} ELSE @]
      q   == [v EXCEPT !.leap = Quality(m), !.told = IF Quality(m) = "nowarn" THEN "sync" ELSE "unsync"]
      bad == NmeaRefused(q, m, e)
  IN  IF m.check = "invalid" THEN refclock_report(u, "badreply")
      ELSE IF u.mode # {} /\ m.s \notin u.mode THEN u
      ELSE IF sum THEN refclock_report(u, "badreply")
      ELSE IF u.x.gps_time /\ m.s # "ZDG" THEN v
      ELSE IF bad # "nominal" THEN refclock_report(q, bad)
      ELSE nmea_take([q EXCEPT !.x.gps_time = @ \/ m.s = "ZDG"], m, e)
nmea_poll(u, e) == ReceiveOrTimeout([u EXCEPT !.pps = @ /\ u.x.gate, !.x.gate = FALSE])

-----------------------------------------------------------------------------
(***************************************************************************)
(* trimble: u.mode is the receiver.  Palisade and the like answer an event *)
(* with 8f-ad (tracking and UTC status, "utc") and 8f-0b (time), praecis   *)
(* with 8f-ad alone, thunderbolt and smt send 8f-ab and 8f-ac each second, *)
(* ace (asked) and copernicus (unasked) 0x41.  MIN_SAMPLES is Tally.       *)
(***************************************************************************)
TrimbleX == [polls |-> 0, samples |-> 0, got_time |-> FALSE, got_pkt |-> FALSE, reply |-> FALSE, utc |-> "unsync"]
Receivers == {"palisade", "praecis", "thunderbolt", "ace", "copernicus"}
UsesEvent(u) == u.mode \in {"palisade", "praecis", "ace"}
\* "late": the port is registered, then the build date is found wrong; the
\* descriptor is closed and the memory freed, before unitptr was ever reset.
trimble_start(u, e) ==
  IF "ok" \notin e \/ u.mode \notin Receivers THEN Failed(u)
  ELSE IF "write" \notin e THEN Failed([Opened(u) EXCEPT !.fd = FALSE, !.mem = "dangling"])
  ELSE Started(Opened(u))
TsipPackets == {"0B", "AD", "AC", "AB", "41", "ascii"}
\* m.kind: "sync", "unsync" (no UTC), "lost" (not tracking, or no time yet),
\* "garbled" (not the length), "odd" (8f-ab in GPS time).
TrimbleMsgs == [id : TsipPackets, event : BOOLEAN, kind : {"sync", "unsync", "lost", "garbled", "odd", "baddate"}]
Got(u) == [ok |-> TRUE, u |-> [u EXCEPT !.leap = "nowarn", !.told = "sync"]]
Not(u) == [ok |-> FALSE, u |-> u]
NoUtc(u) == Not([u EXCEPT !.leap = "notinsync", !.told = "unsync"])
UtcStatus(m) == IF m.kind \in {"sync", "baddate", "odd"} THEN "sync" ELSE m.kind
\* The time of the event; 8f-ad came before and its status is used up.
Packet0B(u, m) ==
  IF u.x.utc \in {"none", "lost"} THEN Not(u)
  ELSE IF u.x.utc = "unsync" \/ m.kind = "unsync" THEN NoUtc(u) ELSE Got([u EXCEPT !.x.utc = "none"])
PacketAD(u, m) ==
  LET v == [u EXCEPT !.x.utc = UtcStatus(m)]
  IN  IF u.mode # "praecis" \/ m.kind = "lost" THEN Not(v) ELSE IF m.kind = "unsync" THEN NoUtc(v) ELSE Got(v)
PacketAC(u, m) == IF m.kind = "lost" \/ u.x.utc # "sync" THEN Not(u) ELSE Got(u)
PacketAB(u, m) ==
  IF m.kind = "odd" THEN Not(refclock_report(NoUtc([u EXCEPT !.x.utc = "none"]).u, "badtime"))
  ELSE Not([u EXCEPT !.x.utc = IF m.kind \in {"sync", "baddate"} THEN "sync" ELSE "none"])
Packet41(u, m) ==
  IF UtcStatus(m) = "sync" THEN [ok |-> TRUE, u |-> [u EXCEPT !.x.got_time = TRUE]]
  ELSE Not([u EXCEPT !.x.got_time = m.kind # "lost"])
TSIP_decode(u, m) ==
  LET v == [u EXCEPT !.x.got_time = TRUE] IN
  IF m.id # "41" /\ u.mode # "thunderbolt" /\ ~m.event THEN Not(u)
  ELSE IF m.id = "41" /\ u.mode \notin {"ace", "copernicus"} THEN Not(u)
  ELSE IF m.kind = "garbled" THEN Not(refclock_report(u, "badreply"))
  ELSE CASE m.id = "0B" -> Packet0B(v, m) [] m.id = "AD" -> PacketAD(u, m) [] m.id = "AC" -> PacketAC(v, m)
         [] m.id = "AB" -> PacketAB(u, m) [] m.id = "41" -> Packet41(u, m) [] OTHER -> Not(u)
\* trimble_receive, for a packet or line trimble_io has put together.
trimble_receive(u, m) ==
  LET v == [u EXCEPT !.x.got_pkt = TRUE]
      d == TSIP_decode(v, m)
      p == refclock_process(d.u, m.kind)
  IN  IF u.x.polls < 1 THEN u
      ELSE IF m.id = "ascii" THEN v
      ELSE IF ~d.ok \/ (u.mode = "ace" /\ u.x.reply) THEN d.u
      ELSE IF m.kind = "baddate" THEN p
      ELSE [p EXCEPT !.x.samples = Up(@), !.x.reply = TRUE]
trimble_poll(u, e) ==
  LET few == u.x.samples < Tally
      v   == [u EXCEPT !.x.polls = 2, !.x.got_time = FALSE, !.x.got_pkt = FALSE, !.x.samples = 0,
                       !.ring = IF few /\ u.x.got_pkt /\ u.x.got_time THEN 0 ELSE @]
  IN  IF u.x.polls = 0 THEN [u EXCEPT !.x.polls = 1]
      ELSE IF few THEN refclock_report(v, "timeout") ELSE refclock_receive(v)
\* HW_poll, once a second for the receivers that answer events.
trimble_timer(u, e) == IF UsesEvent(u) THEN [u EXCEPT !.x.reply = FALSE] ELSE u
=============================================================================
