------------------------------ MODULE DriftFile ------------------------------
(***************************************************************************)
(* The frequency file of ntpd (ntp_util.c): read when ntpd starts, written *)
(* through a second file by write_stats, each hour, when the frequency has *)
(* wandered far enough.                                                    *)
(*                                                                         *)
(* Frequencies are whole numbers, so a wander_resid that was halved below  *)
(* 1 is 1: it tells equal from different.  The discipline changes          *)
(* drift_comp at will.                                                     *)
(***************************************************************************)
EXTENDS Integers

CONSTANTS Drifts, wander_threshold, MaxDriftFaults
NoDrift == 99      \* no file, or one that has no number
ASSUME DriftAssumption == Drifts \subseteq Int \ {NoDrift} /\ wander_threshold \in Nat \ {0}

VARIABLES
  drift,     \* loop_data.drift_comp
  resid, prev,   \* wander_resid, prev_drift_comp
  file, temp,    \* contents of the frequency file and of the one ending in -tmp
  seen,          \* drift_comp at the last write_stats, NoDrift before
  failed,        \* the last attempt to write has failed
  driftfaults
driftfile == <<drift, resid, prev, file, temp, seen, failed, driftfaults>>

Abs(x) == IF x < 0 THEN -x ELSE x

\* stats_config(STATS_FREQ_FILE) of a process that starts: init_drift_comp is
\* what drift_comp becomes, prev_drift_comp is what it was.
Started(content) == drift' = (IF content = NoDrift THEN 0 ELSE content) /\ prev' = 0 /\ resid' = 0
DriftInit ==
  /\ file \in {NoDrift, 0} /\ drift = 0 /\ prev = 0 /\ resid = 0 /\ temp = NoDrift /\ seen = NoDrift /\ failed = FALSE /\ driftfaults = 0

Wander == \E d \in Drifts : drift' = d /\ UNCHANGED <<resid, prev, file, temp, seen, failed, driftfaults>>

Near == Abs(prev - drift) < resid
\* drift_write: the second file does not open, is cut short by a failing
\* fprintf or fclose, which nobody looks at, and takes the place of the first
\* all the same, cannot be renamed, or all is well.
drift_write(result) ==
  /\ temp' = CASE result = "open" -> temp [] result = "rename" -> drift [] OTHER -> NoDrift
  /\ file' \in CASE result = "ok" -> {drift} [] result = "cut" -> Drifts \union {NoDrift} [] OTHER -> {file}
  /\ failed' = (result # "ok")
  /\ driftfaults' = IF result = "ok" THEN driftfaults ELSE driftfaults + 1
\* Mutant: the frequency is compared with that of the last hour.
write_drift_Hourly ==
  /\ seen' = drift
  /\ \/ /\ Near
        /\ prev' = drift /\ resid' = IF resid > 1 THEN resid \div 2 ELSE 1
        /\ UNCHANGED <<drift, file, temp, failed, driftfaults>>
     \/ /\ ~Near
        /\ prev' = drift /\ resid' = wander_threshold /\ UNCHANGED drift
        /\ \E result \in {"ok", "open", "cut", "rename"} : (result = "ok" \/ driftfaults < MaxDriftFaults) /\ drift_write(result)
\* The part of write_stats after the statistics.
write_drift ==
  /\ seen' = drift
  /\ \/ /\ Near
        /\ resid' = IF resid > 1 THEN resid \div 2 ELSE 1
        /\ UNCHANGED <<drift, prev, file, temp, failed, driftfaults>>
     \/ /\ ~Near
        /\ prev' = drift /\ resid' = wander_threshold /\ UNCHANGED drift
        /\ \E result \in {"ok", "open", "cut", "rename"} : (result = "ok" \/ driftfaults < MaxDriftFaults) /\ drift_write(result)
\* ntpd ends at any time, in drift_write too, and starts again.
Crash ==
  /\ driftfaults < MaxDriftFaults /\ driftfaults' = driftfaults + 1
  /\ temp' \in {temp, drift} /\ seen' = NoDrift /\ failed' = FALSE
  /\ Started(file) /\ UNCHANGED file

DriftNext == Wander \/ write_drift \/ Crash
DriftSpec == DriftInit /\ [][DriftNext]_driftfile

\* After each hour the file has a frequency that is nearer to the one in use than
\* the threshold, unless the last write of it has failed; a write that failed is
\* not tried again before the frequency wanders.
DriftSaved == seen # NoDrift /\ ~failed => file # NoDrift /\ Abs(file - seen) < wander_threshold
=============================================================================
