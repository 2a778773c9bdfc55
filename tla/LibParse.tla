------------------------------ MODULE LibParse ------------------------------
(***************************************************************************)
(* The conversions of libparse: what each clock format makes of a complete *)
(* telegram.  A telegram is a record: "shape" says whether the fixed       *)
(* string matches ("foreign" if not) and the fields are numbers with the   *)
(* right checksum ("garbled" if not), "when" whether the fields are a date *)
(* and a time, "says" the remarks of the clock on itself.  ParseInput has  *)
(* the assembly of telegrams from characters.                              *)
(***************************************************************************)
EXTENDS Naturals, FiniteSets

OK(flags) == [status |-> "ok", flags |-> flags]
Fail(why) == [status |-> why, flags |-> {}]
If(c, flag) == IF c THEN {flag} ELSE {}
\* A format that does not know the telegram tries no other.
Masked(m, r) == IF m.shape = "foreign" THEN Fail("none") ELSE IF m.shape = "garbled" THEN Fail("badfmt") ELSE r

-----------------------------------------------------------------------------
(***************************************************************************)
(* One operator for each format, from the telegram to the flags.  The      *)
(* remarks: "poweron" (no time yet), "nosync" (running on its own), "add"  *)
(* and "del" (a leap second is announced).                                 *)
(***************************************************************************)
\* The extended format takes a deletion back: DCF77 gives no direction.
cvt_meinberg(m, extended) ==
  IF m.shape # "good" THEN Fail("badfmt")
  ELSE OK(If("poweron" \in m.says, "POWERUP") \union If("nosync" \in m.says, "NOSYNC")
            \union If("add" \in m.says, "LEAPADD") \union If("del" \in m.says /\ ~extended, "LEAPDEL"))
\* A telegram that does not match the GPS mask is tried as a plain one.
cvt_mgps(m) == IF m.shape = "foreign" THEN Fail("badfmt") ELSE cvt_meinberg(m, FALSE)
cvt_dcf7000(m) == Masked(m, OK(If("nosync" \in m.says, "NOSYNC")))
\* The leap bit counts only while there is a signal.
cvt_schmid(m) ==
  IF m.shape = "foreign" THEN Fail("none") ELSE IF m.when # "ok" THEN Fail(m.when)
  ELSE Masked(m, OK(If("poweron" \in m.says, "POWERUP") \union If("nosync" \in m.says, "NOSYNC")
                      \union If("add" \in m.says /\ "nosync" \notin m.says, "LEAPADD")))
\* A bad checksum is a bad time.  Fix 9 ("nosync": unknown) passes.
cvt_trimtaip(m) == IF m.shape = "garbled" THEN Fail("badtime") ELSE Masked(m, OK(If("poweron" \in m.says, "POWERUP")))
\* A status character that is no hexadecimal digit ("nosync") is trusted.
cvt_rcc8000(m) == Masked(m, OK(If("poweron" \in m.says, "POWERUP")))
\* mode 0 is invalid, 1 the internal clock.
cvt_hopf6021(m) == Masked(m, OK(If("poweron" \in m.says, "POWERUP") \union If("nosync" \in m.says, "NOSYNC")))
\* Neither says anything of the receiver.
cvt_computime(m) == Masked(m, OK({}))
cvt_varitext(m) == Masked(m, OK({}))
cvt_wharton_400a(m) == IF m.shape = "garbled" THEN Fail("none") ELSE Masked(m, OK(If("nosync" \in m.says, "NOSYNC")))
cvt_sel240x(m) == Masked(m, OK(If("poweron" \in m.says, "POWERUP") \union If("nosync" \in m.says, "NOSYNC")))
\* The 59 bits of a minute: start bit and parities are the shape.
convert_rawdcf(m) == IF m.shape # "good" THEN Fail("badfmt") ELSE OK(If("add" \in m.says, "LEAPADD"))

\* TSIP: the receiver's health and the UTC parameters come in packets of
\* their own, kept in private data.  A leap week that is past is close, too.
\* Without seconds ("foreign") or UTC the telegram has no date, "undated".
TsipData == [operable |-> "bad", utcknown |-> FALSE, leap |-> {}]
cvt_trimtsip(pd, m) ==
  CASE m.cmd = "RCURTIME" ->
         [pd |-> pd,
          r  |-> IF m.shape = "garbled" THEN Fail("badfmt")
                 ELSE IF m.shape = "foreign" \/ ~pd.utcknown THEN [OK({"POWERUP"}) EXCEPT !.status = "undated"]
                 ELSE OK(pd.leap \union If(pd.operable # "sync", "NOSYNC") \union If(pd.operable = "bad", "POWERUP"))]
    [] m.cmd = "RRECVHEALTH" -> [pd |-> [pd EXCEPT !.operable = m.health], r |-> Fail("skip")]
    [] m.cmd = "RUTCPARAM" ->
         [pd |-> [pd EXCEPT !.utcknown = m.known,
                            !.leap = If(m.known /\ m.change \in {"soon", "past"}, "LEAPADD")],
          r  |-> Fail("skip")]
    [] OTHER -> [pd |-> pd, r |-> Fail("skip")]

-----------------------------------------------------------------------------
Formats ==
  {"Meinberg Standard", "Meinberg Extended", "Meinberg GPS Extended", "ELV DCF7000", "Schmid", "RAW DCF77 Timecode",
   "Trimble TAIP", "Trimble TSIP", "Radiocode RCC8000", "hopf Funkuhr 6021", "Diem's Computime Radio Clock",
   "WHARTON 400A", "Varitext Radio Clock", "SEL B8"}
\* clockformats[]
convert(format, m) ==
  CASE format = "Meinberg Standard" -> cvt_meinberg(m, FALSE) [] format = "Meinberg Extended" -> cvt_meinberg(m, TRUE)
    [] format = "Meinberg GPS Extended" -> cvt_mgps(m) [] format = "ELV DCF7000" -> cvt_dcf7000(m)
    [] format = "Schmid" -> cvt_schmid(m) [] format = "RAW DCF77 Timecode" -> convert_rawdcf(m)
    [] format = "Trimble TAIP" -> cvt_trimtaip(m) [] format = "Radiocode RCC8000" -> cvt_rcc8000(m)
    [] format = "hopf Funkuhr 6021" -> cvt_hopf6021(m) [] format = "Diem's Computime Radio Clock" -> cvt_computime(m)
    [] format = "WHARTON 400A" -> cvt_wharton_400a(m) [] format = "Varitext Radio Clock" -> cvt_varitext(m)
    [] format = "SEL B8" -> cvt_sel240x(m)
\* parse_to_unixtime, unless the format gave UTC itself.
parse_to_unixtime(format, m, r) ==
  IF r.status = "undated" THEN Fail("baddate")
  ELSE IF r.status = "ok" /\ m.when # "ok" /\ format # "Trimble TSIP" THEN Fail(m.when) ELSE r
\* timepacket: what is skipped or unknown is no update.
timepacket(format, pd, m) ==
  LET c == IF format = "Trimble TSIP" THEN cvt_trimtsip(pd, m) ELSE [pd |-> pd, r |-> convert(format, m)]
  IN  IF c.r.status = "skip" THEN [c EXCEPT !.r.status = "none"] ELSE [c EXCEPT !.r = parse_to_unixtime(format, m, c.r)]

PARSE_POWERUP(flags) == "POWERUP" \in flags
PARSE_SYNC(flags) == flags \intersect {"POWERUP", "NOSYNC"} = {}
=============================================================================
