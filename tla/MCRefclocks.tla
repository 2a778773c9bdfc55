----------------------------- MODULE MCRefclocks -----------------------------
(***************************************************************************)
(* Reference clocks.  A behaviour is one of a clock, or one of what is     *)
(* below the drivers: the ring of samples they share, the shared memory    *)
(* segment, and libparse with telegrams and with the pulses of DCF77.      *)
(***************************************************************************)
EXTENDS Refclocks, SampleRing, ShmSegment

VARIABLES
  part,
  p, now, next, faults, up, clean,     \* RawDcf
  q, n, sent, noise, marred, whole, handed     \* ParseInput
Dcf == INSTANCE RawDcf WITH Minute <- 8, Minutes <- 6, MaxFaults <- 2, Misread <- {-15, -1, 0, 1, 15}
Input == INSTANCE ParseInput
           WITH MaxTelegrams <- 5, MaxNoise <- 2,
                InputFormats <- {"meinberg", "wharton", "trimtaip", "computime", "sel240x", "hopf6021", "rcc8000", "dcf7000",
                                 "schmid", "varitext", "mgps", "trimtsip"}
MCOffsets == {-9, 0, 2}

Unit(driver, mode, flags) == [driver |-> driver, mode |-> mode, flags |-> flags]
Parse(format, pps, trust) == [format |-> format, pps |-> pps, trust |-> trust]
MCUnits ==
  {Unit(d, "none", {}) : d \in {"local", "pps", "shm", "zyfer", "spectracom", "hpgps", "truetime"}}
    \union {Unit("local", "none", {1})} \union {Unit("arbiter", m, {}) : m \in {1, 2}}
    \union {Unit("modem", m, {}) : m \in {"manual", "auto", "backup"}}
    \union {Unit("nmea", {}, {1})}
    \union {Unit("trimble", m, {}) : m \in Receivers}
    \union {Unit("gpsd", "auto", {}), Unit("generic", Parse("Meinberg GPS Extended", TRUE, TRUE), {4})}
    \union {Unit("generic", Parse("Trimble TSIP", FALSE, FALSE), {})}
    \union {Unit("jjy", m, {}) : m \in JjyModes \ {"tel"}}
    \union {Unit("oncore", [file |-> TRUE, mode |-> 0, posn |-> FALSE, chan |-> 0, traim |-> Unknown, receiver |-> 12], {})}

-----------------------------------------------------------------------------
clock == <<u, phase>>
samples == ring
pulses == <<p, now, next, faults, up, clean>>
telegrams == <<q, n, sent, noise, marred, whole, handed>>
all == <<part, clock, samples, pulses, telegrams, segment>>

NoClock == u = 0 /\ phase = "none"
NoSamples == RingInit
NoPulses == p = 0 /\ now = 0 /\ next = 0 /\ faults = 0 /\ up = 0 /\ clean = 0
NoTelegrams == q = 0 /\ n = 0 /\ sent = 0 /\ noise = 0 /\ marred = 0 /\ whole = 0 /\ handed = 0
NoSegment == SegmentInit /\ shm.mode = 0

MCInit ==
  \/ part = "clock" /\ Init /\ NoSamples /\ NoPulses /\ NoTelegrams /\ NoSegment
  \/ part = "samples" /\ RingInit /\ NoClock /\ NoPulses /\ NoTelegrams /\ NoSegment
  \/ part = "pulses" /\ Dcf!RawDcfInit /\ NoClock /\ NoSamples /\ NoTelegrams /\ NoSegment
  \/ part = "telegrams" /\ Input!ParseInputInit /\ NoClock /\ NoSamples /\ NoPulses /\ NoSegment
  \/ part = "segment" /\ SegmentInit /\ NoClock /\ NoSamples /\ NoPulses /\ NoTelegrams
MCNext ==
  /\ UNCHANGED part
  /\ \/ part = "clock" /\ Next /\ UNCHANGED <<samples, pulses, telegrams, segment>>
     \/ part = "samples" /\ RingNext /\ UNCHANGED <<clock, pulses, telegrams, segment>>
     \/ part = "pulses" /\ Dcf!RawDcfNext /\ UNCHANGED <<clock, samples, telegrams, segment>>
     \/ part = "telegrams" /\ Input!ParseInputNext /\ UNCHANGED <<clock, samples, pulses, segment>>
     \/ part = "segment" /\ SegmentNext /\ UNCHANGED <<clock, samples, pulses, telegrams>>
MCSpec == MCInit /\ [][MCNext]_all
-----------------------------------------------------------------------------
\* inp_rawdcf and snt_rawdcf give a second that is right, and a time that is when
\* its telegram had no fault, see RawDcf.
TrueSecond == part = "pulses" => Dcf!TrueSecond
\* parse_ioread and the inp_ functions find the next telegram after noise, see
\* ParseInput.
Reframed == part = "telegrams" => Input!Reframed
=============================================================================
