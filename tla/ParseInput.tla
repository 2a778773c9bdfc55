----------------------------- MODULE ParseInput -----------------------------
(***************************************************************************)
(* How libparse puts characters together into telegrams: parse_addchar and *)
(* parse_end, and the input function of each clock format.  A clock sends  *)
(* telegram after telegram; characters are lost and noise adds others.     *)
(*                                                                         *)
(* Telegrams are shorter than real ones; the buffer of a format is longer  *)
(* than its telegram by as much as in the code.                            *)
(***************************************************************************)
EXTENDS Integers, Sequences

CONSTANTS
  InputFormats,  \* the formats that are looked at
  MaxTelegrams,  \* telegrams sent
  MaxNoise       \* characters lost or added

VARIABLES
  q,       \* parse_t of one clock: [f, data, st], st the private data of the format
  n,       \* the telegram that is being sent, and how many of its characters were
  sent,
  noise,
  marred,  \* the telegram that is being sent is not whole
  whole,   \* whole telegrams before it, up to 3
  handed   \* what was handed up since its beginning
input == <<q, n, sent, noise, marred, whole, handed>>

Digits == <<"1", "2", "3", "4", "5", "6">>
Body(k) == <<Digits[k], "x">>
\* What is sent.  The Meinberg GPS receiver sends texts and binary messages, the
\* latter with a header, a length that is its own checksum; in a packet of the Trimble
\* receiver a DLE is sent twice.
Telegram(f, k) ==
  CASE f \in {"meinberg", "wharton"} -> <<"STX">> \o Body(k) \o <<"ETX">>
    [] f = "mgps" -> IF k % 2 = 1 THEN <<"STX">> \o Body(k) \o <<"ETX">> ELSE <<"SOH", "2", "2">> \o Body(k)
    [] f = "trimtaip"  -> <<">">> \o Body(k) \o <<"<">>
    [] f = "computime" -> <<"T">> \o Body(k) \o <<"LF">>
    [] f = "sel240x"   -> <<"SOH">> \o Body(k) \o <<"LF">>
    [] f = "hopf6021"  -> Body(k) \o <<"ETX">>
    [] f = "rcc8000"   -> Body(k) \o <<"LF">>
    [] f = "dcf7000"   -> Body(k) \o <<"CR">>
    [] f = "schmid"    -> Body(k) \o <<"FD">>
    [] f = "varitext"  -> <<"T", ":">> \o Body(k) \o <<"CR", "LF", "a", "b", "c", "d">>
    [] f = "trimtsip"  -> <<"DLE">> \o Body(k) \o <<"DLE", "DLE", "DLE", "ETX">>
\* What should be handed up.
Expected(f, k) ==
  CASE f = "varitext" -> Telegram(f, k) \o <<"NUL">>
    [] f = "trimtsip" -> <<"DLE">> \o Body(k) \o <<"DLE", "DLE", "ETX">>
    [] OTHER -> Telegram(f, k)
Noises(f) == UNION {{Telegram(f, k)[i] : i \in DOMAIN Telegram(f, k)} : k \in 1 .. 2} \ {"2", "b", "c", "d"}
\* parse_dsize; the longest of a Meinberg GPS receiver's texts is shorter than
\* its longest message.
dsize(f) ==
  CASE f = "hopf6021" -> 4 [] f = "schmid" -> 4 [] f = "sel240x" -> 8 [] f = "varitext" -> 12
    [] f = "mgps" -> 7 [] f = "trimtsip" -> 14 [] OTHER -> Len(Telegram(f, 1))
MsgSize == 6

-----------------------------------------------------------------------------
(* The input functions, from [f, data, st] to [up, q]: what is handed up, if *)
(* anything, and the state after the character.                              *)

Skip(r) == [up |-> << >>, q |-> r]
Up(r, d) == [up |-> <<d>>, q |-> r]
parse_restart(r, ch) == IF r.data = << >> THEN Skip([r EXCEPT !.data = <<ch>>]) ELSE Up([r EXCEPT !.data = <<ch>>], r.data)
parse_addchar(r, ch) ==
  IF Len(r.data) < dsize(r.f) THEN Skip([r EXCEPT !.data = Append(@, ch)]) ELSE parse_restart(r, ch)
\* Mutant: the buffer is not emptied.
parse_end_Kept(r) == Up(r, r.data)
parse_end(r) == Up([r EXCEPT !.data = << >>], r.data)
Start(r, ch) == Skip([r EXCEPT !.data = <<ch>>])
\* The last character of a telegram: when it finds the buffer full, it becomes
\* the first character of the next.
End(r, ch) == LET a == parse_addchar(r, ch) IN IF a.up = << >> THEN parse_end(a.q) ELSE a
Delimited(r, ch, start, end) ==
  IF ch = start THEN Start(r, ch) ELSE IF ch = end THEN End(r, ch) ELSE parse_addchar(r, ch)
Ended(r, ch, end) == IF ch = end THEN End(r, ch) ELSE parse_addchar(r, ch)

mbg_input(r, ch) == Delimited(r, ch, "STX", "ETX")
inp_wharton_400a(r, ch) == Delimited(r, ch, "STX", "ETX")
inp_trimtaip(r, ch) == Delimited(r, ch, ">", "<")
inp_computime(r, ch) == Delimited(r, ch, "T", "LF")
inp_sel240x(r, ch) == Delimited(r, ch, "SOH", "LF")
inp_hopf6021(r, ch) == Ended(r, ch, "ETX")
inp_rcc8000(r, ch) == Ended(r, ch, "LF")
inp_dcf7000(r, ch) == Ended(r, ch, "CR")
inp_schmid(r, ch) == Ended(r, ch, "FD")

\* inp_varitext: "T:" begins a telegram, which ends four characters after a line
\* end.
NoVaritext == [start_found |-> FALSE, end_found |-> FALSE, end_count |-> 0, previous_ch |-> ""]
inp_varitext(r, ch) ==
  LET start == r.st.previous_ch = "T" /\ ch = ":"
      b     == IF start THEN [r EXCEPT !.data = <<"T">>, !.st = [NoVaritext EXCEPT !.start_found = TRUE, !.previous_ch = "T"]]
               ELSE r
      a     == parse_addchar(b, ch)
      found == IF b.st.end_found THEN [b.st EXCEPT !.end_count = @ + 1] ELSE b.st
      last  == [found EXCEPT !.previous_ch = ch, !.end_found = @ \/ (b.st.previous_ch = "CR" /\ ch = "LF")]
      reset == [a.q EXCEPT !.st = NoVaritext]
  IN IF ~b.st.start_found THEN Skip([r EXCEPT !.st.previous_ch = ch])
     ELSE IF a.up # << >> THEN [a EXCEPT !.q = reset]
     ELSE IF found.end_count = 4 THEN End(reset, "NUL")
     ELSE Skip([a.q EXCEPT !.st = last])

\* gps_input: texts between STX and ETX, and messages of the length their
\* header says.  A message is tested once it is too long.
Announced(c) == CASE c = "2" -> 2 [] c = "0" -> 0 [] OTHER -> MsgSize
gps_input(r, ch) ==
  LET msg  == Append(r.st.msg, ch)
      text == IF r.st.phase = "string" /\ Len(r.data) < dsize("mgps") THEN Append(r.data, ch) ELSE r.data
      to(phase, len) == [r EXCEPT !.data = text, !.st = [phase |-> phase, len |-> len, msg |-> msg]]
      none == to("none", 0)
  IN CASE r.st.phase = "none" ->
            IF ch = "SOH" THEN Skip([to("header", 2) EXCEPT !.st.msg = <<ch>>])
            ELSE IF ch = "STX" THEN Skip([to("string", 0) EXCEPT !.st.msg = <<ch>>, !.data = <<ch>>]) ELSE Skip(r)
       [] r.st.phase # "none" /\ Len(msg) > MsgSize -> Up(none, msg)
       [] r.st.phase = "string" /\ Len(msg) <= MsgSize ->
            IF ch = "ETX" \/ Len(text) >= dsize("mgps") THEN Up([none EXCEPT !.data = << >>], text) ELSE Skip(to("string", 0))
       [] r.st.phase \in {"header", "data"} /\ Len(msg) <= MsgSize ->
            IF r.st.len > 1 THEN Skip(to(r.st.phase, r.st.len - 1))
            ELSE IF r.st.phase = "data" \/ msg[2] # msg[3] \/ Announced(msg[2]) = 0 THEN Up(none, msg)
            ELSE IF Announced(msg[2]) >= MsgSize - 3 THEN Skip(none)
            ELSE Skip(to("data", Announced(msg[2])))

\* inp_tsip: a packet is between DLE and DLE ETX.
NoPacket == [in_pkt |-> FALSE, dle |-> FALSE]
inp_tsip(r, ch) ==
  IF ~r.st.in_pkt /\ ch # "DLE" THEN Skip(r)
  ELSE IF Len(r.data) >= dsize(r.f) - 2 THEN Skip([r EXCEPT !.data = << >>, !.st = NoPacket])
  ELSE IF ~r.st.in_pkt THEN Skip([r EXCEPT !.data = <<ch>>, !.st = [in_pkt |-> TRUE, dle |-> FALSE]])
  ELSE IF ch = "DLE" /\ ~r.st.dle THEN Skip([r EXCEPT !.st.dle = TRUE])
  ELSE IF ch = "ETX" /\ r.st.dle THEN Up([r EXCEPT !.data = Append(@, "DLE"), !.st = NoPacket], r.data \o <<"DLE", "ETX">>)
  ELSE Skip([r EXCEPT !.data = Append(@, ch), !.st.dle = FALSE])

\* parse_ioread: the input function of the format (parse_conf.c).
parse_ioread(r, ch) ==
  CASE r.f = "meinberg" -> mbg_input(r, ch) [] r.f = "wharton" -> inp_wharton_400a(r, ch)
    [] r.f = "trimtaip" -> inp_trimtaip(r, ch) [] r.f = "computime" -> inp_computime(r, ch)
    [] r.f = "sel240x" -> inp_sel240x(r, ch) [] r.f = "hopf6021" -> inp_hopf6021(r, ch)
    [] r.f = "rcc8000" -> inp_rcc8000(r, ch) [] r.f = "dcf7000" -> inp_dcf7000(r, ch)
    [] r.f = "schmid" -> inp_schmid(r, ch) [] r.f = "varitext" -> inp_varitext(r, ch)
    [] r.f = "mgps" -> gps_input(r, ch) [] r.f = "trimtsip" -> inp_tsip(r, ch)
\* parse_ioinit and parse_setfmt.
parse_ioinit(f) ==
  [f |-> f, data |-> << >>,
   st |-> IF f = "varitext" THEN NoVaritext ELSE IF f = "mgps" THEN [phase |-> "none", len |-> 0, msg |-> << >>] ELSE NoPacket]

-----------------------------------------------------------------------------
(* The clock and its line.                                                   *)

\* The driver begins to listen in the middle of a telegram.
ParseInputInit ==
  /\ \E f \in InputFormats : q = parse_ioinit(f)
  /\ sent \in 0 .. Len(Telegram(q.f, 1)) - 1
  /\ n = 1 /\ noise = 0 /\ marred = (sent > 0) /\ whole = 0 /\ handed = << >>

Complete == sent = Len(Telegram(q.f, n))
\* The telegram the next character belongs to.
At == IF Complete THEN n + 1 ELSE n
Begin(fault) ==
  /\ n' = At
  /\ marred' = (fault \/ (marred /\ ~Complete))
  /\ whole' = IF ~Complete THEN whole ELSE IF marred THEN 0 ELSE IF whole = 3 THEN 3 ELSE whole + 1
Sent == IF Complete THEN 0 ELSE sent
Receive(ch) ==
  LET a == parse_ioread(q, ch)
  IN q' = a.q /\ handed' = (IF Complete THEN << >> ELSE handed) \o a.up
Send ==
  /\ At <= MaxTelegrams /\ sent' = Sent + 1
  /\ Begin(FALSE) /\ Receive(Telegram(q.f, At)[Sent + 1]) /\ UNCHANGED noise
Lose ==
  /\ At <= MaxTelegrams /\ noise < MaxNoise
  /\ noise' = noise + 1 /\ sent' = Sent + 1 /\ Begin(TRUE)
  /\ q' = q /\ handed' = IF Complete THEN << >> ELSE handed
Add ==
  /\ At <= MaxTelegrams /\ noise < MaxNoise
  /\ noise' = noise + 1 /\ sent' = Sent /\ Begin(TRUE)
  /\ \E ch \in Noises(q.f) : Receive(ch)
ParseInputNext == Send \/ Lose \/ Add
ParseInputSpec == ParseInputInit /\ [][ParseInputNext]_input

-----------------------------------------------------------------------------
\* Telegrams after which a format has found the beginning of one again.
Settled(f) ==
  CASE f = "trimtsip" -> 3 [] f \in {"hopf6021", "schmid", "rcc8000", "dcf7000", "mgps"} -> 2
    [] f = "varitext" -> 1 [] OTHER -> 0
Shifted(f) == f \in {"rcc8000", "dcf7000"}
\* After noise on the line a format finds the beginning of a telegram again:
\* every whole telegram, from the first, second or third on, is handed up once
\* and as it was sent, with nothing else.  The two formats whose buffer is as
\* long as a telegram and that know only its end may be one character off
\* instead: the end of each telegram becomes the beginning of the next.
Reframed ==
  Complete /\ ~marred /\ whole >= Settled(q.f)
    => \/ handed = <<Expected(q.f, n)>>
       \/ Shifted(q.f) /\ q.data = <<Telegram(q.f, n)[sent]>>
=============================================================================
