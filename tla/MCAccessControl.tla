-------------------------- MODULE MCAccessControl --------------------------
(* Access control for TLC.  A behaviour is one of traffic: three clients, two *)
(* of which share an address rule and a hash slot and are interchangeable,    *)
(* addresses of one bit and few rules; or one of the access lists alone, with *)
(* two families, addresses of two bits, associations and many rules.          *)
EXTENDS AccessControl

CONSTANTS c1, c2, c3

MCLine(restrict, fams, a, len, mflags, flags) ==
  [source |-> FALSE, restrict |-> restrict, fams |-> fams, addr |-> a, len |-> len,
   mflags |-> mflags, flags |-> flags]
SourceTemplate(mflags, flags) == [MCLine(TRUE, {}, 0, 0, mflags, flags) EXCEPT !.source = TRUE]

\* The default limited or not. Client c1 uses the NTP port of an address that
\* may become local, c2 and c3 are on another port.
MCLines == {MCLine(TRUE, {"4"}, 0, 0, {}, {"LIMITED", "KOD"}), MCLine(FALSE, {"4"}, 0, 0, {}, {"LIMITED"})}
MCAddrOf == [c \in Addrs |-> IF c = c1 THEN [fam |-> "4", addr |-> 1, port |-> "ntp"]
                               ELSE [fam |-> "4", addr |-> 0, port |-> "other"]]
MCHash == [c \in Addrs |-> IF c = c1 THEN 1 ELSE 0]
MCLocals == {[fam |-> "4", addr |-> 0], [fam |-> "4", addr |-> 1]}
MCSteps == {-1}
MCSymmetry == Permutations({c2, c3})

\* Rules for the default, for the networks 2/1 and 0/1 and for the host 2.
Both == {"4", "6"}
ListLines ==
  { MCLine(TRUE, Both, 0, 0, {}, {"IGNORE"}), MCLine(FALSE, Both, 0, 0, {}, RES_Default),
    MCLine(FALSE, Both, 0, 0, {}, {}), MCLine(TRUE, {"6"}, 0, 1, {}, {"LIMITED"}),
    MCLine(TRUE, {"4"}, 3, 1, {}, {"LIMITED"}), MCLine(FALSE, {"4"}, 2, 1, {}, {}),
    MCLine(TRUE, {"4"}, 2, 1, {"NTPONLY"}, {"NOTRUST"}), MCLine(FALSE, {"4"}, 2, 1, {"NTPONLY"}, {"NOTRUST"}),
    MCLine(TRUE, {"4"}, 2, 2, {}, {"LIMITED"}), MCLine(FALSE, {"4"}, 2, 2, {}, {}),
    SourceTemplate({}, {"NOQUERY"}) }
AccessLists ==
  INSTANCE RestrictList
    WITH Families <- Both, AddrBits <- 2, Lines <- ListLines,
         Servers <- {[fam |-> "4", addr |-> 2, auth |-> FALSE], [fam |-> "4", addr |-> 3, auth |-> TRUE]},
         Locals <- {[fam |-> "4", addr |-> 2], [fam |-> "6", addr |-> 1]}

-----------------------------------------------------------------------------
VARIABLE part
others == <<mon_on, monitor, verdict, heard>>
NoTraffic ==
  /\ mon_on = 0 /\ mon_entry = 0 /\ mon_mru_list = 0 /\ mon_hash = 0 /\ mon_free = 0
  /\ mru_entries = 0 /\ mru_hashslots = 0 /\ mru_alloc = 0 /\ verdict = {} /\ heard = "none"
MCInit ==
  \/ part = "traffic" /\ AllInit
  \/ part = "lists" /\ AccessLists!Init /\ NoTraffic
MCNext ==
  \/ part = "traffic" /\ AllNext /\ UNCHANGED part
  \/ part = "lists" /\ AccessLists!Next /\ UNCHANGED <<part, others>>
MCSpec == MCInit /\ [][MCNext]_<<part, allvars>>

-----------------------------------------------------------------------------
\* The MRU list keeps its order and its links, see AccessControl.
MruSound == part = "traffic" => MruListsAgree
\* ntp_monitor records what a limited rule applies to, see AccessControl.
LimitedOnRecord == part = "traffic" => LimitedTrafficOnRecord
\* ntp_monitor turns bursts away, see AccessControl.
BurstsTurnedAway == part = "traffic" => BurstTurnedAway
\* An entry is recycled when it is old, see AccessControl.
RecycledWhenOld == [][part = "traffic" => RecycledOnlyWhenOld]_<<part, allvars>>
\* restrictions() finds the rule that applies, see RestrictList.
ListsSound == IF part = "lists" THEN AccessLists!AccessListsSound ELSE AccessListsSound
=============================================================================
