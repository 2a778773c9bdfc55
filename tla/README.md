# TLA+ models of NTPsec

This directory holds TLA+ models of the parts of NTPsec whose correctness
depends on the order of events: packets, lookups done by threads, timers,
signals, configuration changes, clock steps, noisy lines, crashes and restarts.
Each model is checked by TLC on small instances, and central properties are
proved by TLAPS for every value of the constants. `PROJECT.json` maps each
definition to the source lines it models and lists the runs, hazards and
theorems.

- [1. The system](#1-the-system)
- [2. Modules and the code](#2-modules-and-the-code)
- [3. Runs, bounds and fairness](#3-runs-bounds-and-fairness)
- [4. Proofs](#4-proofs)
- [5. Differences between code and documentation](#5-differences-between-code-and-documentation)
- [6. What is not modelled](#6-what-is-not-modelled)

To check: `tlc -workers 2 -config NtsExchange.cfg NtsExchange` and so on for
the runs of `PROJECT.json`; `tlapm NtsExchangeProofs.tla` and so on for the
modules whose name ends in `Proofs`.

## 1. The system

`ntpd` is a single main loop that handles one event at a time: the timer signal
(once a second), the end of a lookup (SIGDNS), packets and the lines of
reference clocks, and `ntpq` requests. Threads exist only at the edges: one
lookup thread (DNS or NTS-KE client), and the listener threads of the NTS-KE
server. A module therefore takes a handler of the main loop as one atomic action
and gives each thread actions of its own, one per piece of shared state it reads
or writes. Only `MainLoop` looks inside the loop, where signals arrive.

| Part | Source | Modules |
|---|---|---|
| NTS exchange | `nts_extens.c`, `nts_client.c`, `nts_cookie.c` | `NtsExchange` |
| NTS server keys | `nts_cookie.c`, `nts.c` | `NtsCookieKeys` |
| Associations and lookups | `ntp_peer.c`, `ntp_dns.c`, `ntp_proto.c`, `ntp_config.c` | `Associations` |
| Poll process | `ntp_proto.c`, `ntp_timer.c` | `PollProcess` |
| Filter, selection, system process | `ntp_proto.c`, `ntp_timer.c` | `ClockFilter`, `ClockSelection`, `SystemProcess` |
| Clock discipline | `ntp_loopfilter.c`, `systime.c` | `ClockDiscipline` |
| Access lists, MRU list | `ntp_restrict.c`, `ntp_monitor.c`, `ntp_config.c` | `RestrictList`, `MruList`, `AccessControl` |
| Leap seconds | `ntp_leapsec.c`, `ntp_timer.c`, `ntp_proto.c` | `LeapSeconds` |
| Statistics and frequency files | `ntp_filegen.c`, `ntp_util.c`, `ntp_config.c` | `StatsFiles`, `DriftFile` |
| Reference clocks | `ntp_refclock.c`, fifteen drivers | `Refclock`, `Refclock*`, `Refclocks`, `SampleRing`, `SampleQueue`, `ShmSegment` |
| libparse | `libparse/*.c` | `LibParse`, `ParseInput`, `RawDcf` |
| Mode 6 | `ntp_control.c`, `pylib/packet.py` | `ControlResponse`, `ControlSession` |
| Interfaces, buffers, main loop | `ntp_io.c`, `ntp_recvbuff.c`, `ntpd.c` | `Interfaces`, `MainLoop` |

How the parts interact: the timer polls associations (poll process), which may
start a lookup or an NTS-KE exchange (associations, NTS exchange). A packet is
read by the main loop, looked up in the access lists and recorded in the MRU
list before anything else happens to it. Accepted samples, of servers and of
reference clocks, go through filter, selection and discipline, which may step
the clock; a step clears all associations, the MRU list and the leap second
frame. Compositions: `AccessControl` has the access lists, the interfaces and the
MRU list; `MainLoop` the loop and `Interfaces`; `ControlSession` client, network
and server; `Refclocks` any driver with the common code; `SystemProcess`
associations, selection and orphan mode. `PollProcess`, `Associations` and
`NtsExchange` look at the same association from three sides: when it is polled,
which structure it lives in, and which cookies it holds.

## 2. Modules and the code

Definitions keep the names of the functions they model. A definition whose name
ends in `_Something` next to the one it is named after is a *mutant*: the same
operation with a plausible mistake. Replacing the operation by it must make TLC
report the property that `PROJECT.json` names for it; that is how we know the
property can fail.

**NtsExchange.** One NTS association and its server. `jar` is `peer->nts_state`,
with the ring of cookies (`readIdx`, `writeIdx`, `count`, the slots), the session
keys and the unique identifier of the last request; `ke` is the thread in
`nts_probe`; `net` the set of packets under way (order is lost, and a packet that
is delivered stays until `Lose` removes it, so it may be delivered again); `keys`
the server's key list. A cookie is a record of its nonce, the session it carries
and the key that encrypts it; AEAD succeeds exactly when the keys match. Nonces
are drawn from those in no live cookie or packet, which keeps the state finite.

**NtsCookieKeys.** `nts_keys`, `K_time`, `K_length` and the file. The rotation is
split into the steps another thread can see; a key that is read while it is being
overwritten is `Torn`. `Killed` may happen between any two steps. `KeCopiesTag`
and `KeEncrypts` are the two halves of `nts_make_cookie` in an NTS-KE thread.
`cookie` is one arbitrary cookie with its history. At startup the file may be
absent, good, cut short or of a length nobody can use; and since
`nts_write_cookie_keys` does not look at what `fprintf` and `fclose` return, each
write may leave a file that is cut short (`CutShort`).

**Associations.** The peer structures as an array of slots with the free list,
the list, the address hash and the counters; `active`, `worker`, `dns` and `nts`
are the lookup thread and the globals through which it answers. `TransmitLookup`,
`TransmitPoll` and `TransmitDrop` are the three ways `transmit` can go.
`UnpeerBusy` says whether the operator unpeers the association that is being
looked up: the run `assoc` assumes not, `assoc_own_host` shows why. How many
survivors there are and when an association has been unreachable for too long are
left open, as is who becomes the system peer.

**PollProcess.** One association's registers, with times relative to now.
`timer` is a second of `timer()` with the `transmit` it may call; replies,
kiss-o'-death packets, the ends of lookups and clock steps are the other actions.

**ClockFilter, ClockSelection, SystemProcess.** `clock_filter` on one shift
register; the algorithms of `clock_select` as operators on sequences of
candidates; and the state they work on, with replies, silence, associations that
come and go, `clock_update` and the orphan rule of `timer()`. Quantities are
integers in a common unit; squares take the place of roots.

**ClockDiscipline.** `local_clock`'s five states, `adj_host_clock`,
`adj_systime` with its residue, the choice between the kernel's loop and the
daemon's, and configuration. What PLL and FLL compute for the frequency is any
value in range: the properties are about when and how often it is applied.

**RestrictList, MruList, AccessControl.** The sorted lists with the operator's
lines, holes of associations and entries of interfaces; an address has a few bits
and a mask is a prefix. `AccessControl` instantiates `MruList` beside them, so
that `receive` is the code's chain of restrictions, early drops and
`ntp_monitor`, and `remove_interface` does both its halves. One tick is the time
in which a score halves. `kept` and `burst` in an entry are history.

**LeapSeconds.** `tab` is the table in use with its cached frame. `timer` is the
leap second part of `timer()` with `check_leapsec`; `ClockStep` and `ClockSlew`
are the two ends of `clock_update`; `check_leap_file` and `select_loop` are the
other sources of change. The calendar has equal months. `KernelTick` (external)
says how the clock moves when the kernel makes the leap. `leapsec` is the
variable of `ntp_timer.c`; the one that `clock_update` tests is a `static` of
`ntp_proto.c` which nothing sets, so its test is always true.

**StatsFiles, DriftFile.** File generations with inodes, links, renamed files,
failed opens, restarts and clock steps, and the functions that write records;
the frequency file with its second file, the threshold and its decay; a write that
fails in `fprintf` or `fclose` puts a file that is cut short in its place. A
`wander_resid` halved below 1 is 1, since frequencies are whole numbers.

**Refclock and the drivers.** `Refclock` has `ntp_refclock.c` as operators from
units to units: start, shutdown, poll, samples, reports, timers, descriptors and
memory. A handler gets the set of circumstances it meets (a system call that
succeeds, a write that does, a PPS pulse...). `RefclockLines` (local, pps, shm,
zyfer, arbiter), `RefclockDialogues` (spectracom, hpgps, truetime, modem),
`RefclockPackets` (nmea, trimble), `RefclockGpsd`, `RefclockJjy`, `RefclockOncore`
and `RefclockGeneric` have the drivers; `Refclocks` is the next-state relation
that dispatches to them through `refclock_conf[]`. `SampleRing` is the circular
buffer of samples with the median filter, `SampleQueue` what it promises;
`dropped` is history and tells a driver that drops its samples from a buffer that
loses them. `ShmSegment` is the shared memory segment with its writer, which is
not part of the repository, step by step.

**LibParse, ParseInput, RawDcf.** What each clock format makes of a complete
telegram; how `parse_addchar` and the input functions put characters together
when some are lost and noise adds others; and the pulses of DCF77, where a gap
marks the minute and time is carried on from second to second. A telegram without
a fault says the right minute. One with pulses missing, displaced or made by noise
may still pass the start bit and the three parities, so it is refused or read as
any of the minutes in `Misread`, before and after the right one; `whole` remembers
which kind the time came from.

**ControlResponse, ControlSession.** The request taken apart into names, the
handlers as what they put and how they end, and the splitting of a response into
packets; then both sides of a session over a network that loses, delays,
reorders and duplicates datagrams, with `getresponse`'s assembly and retries and
the loop of `mrulist` while the MRU list changes.

**Interfaces, MainLoop.** `ntp_io.c` as operators on one state: endpoints,
addresses, descriptors, rules, and the interface each association sends from.
`MainLoop` has the loop with its places, the blocked and open signals, datagrams,
routing messages, failing scans and binds, and the kernel's interfaces. The test of
the flags (`Test`) and the entry of `pselect` (`Enter`) are two steps: a signal in
`blockMask` that comes between them stays pending until `pselect` opens the mask,
and ends it at once; one that is not blocked would be slept on.

## 3. Runs, bounds and fairness

Several runs check components that share no state side by side: a variable
`part` says which one a behaviour is about, and it never changes.

| Run | Distinct states | Checks |
|---|---|---|
| `nts_exchange` | 459,504 | `NoCookieReuse`, `JarMatchesSession`, `ReplyFillsJar` |
| `nts_exchange_live` | 31,560 | `StaleJarAbandoned`, `CookiesRestored` |
| `assoc` | 46,776 | `TablesAgree`, `AddressOfOwnHost`, `LookupServed` |
| `access` | 185,732 | `MruSound`, `LimitedOnRecord`, `BurstsTurnedAway`, `RecycledWhenOld`, `ListsSound` |
| `clock` | 222,078 | `Intersected`, `TallyOfOneSelection`, `ClaimsNothingStale`, `AppliedOnce`, `SampleInterval`, `SpikesSuppressed`, `PollsSpaced` |
| `refclock` | 673,823 | `SilentUnreachable`, `UnsyncNotCounted`, `ReleasedOnce`, `CallConsistent`, `TrueSecond`, `Reframed`, `SampleWhole`, `SpikesRejected`, `IsQueue` |
| `control` | 1,111,361 | `AssembledWhole`, `FragmentLimit`, `ListWhole` |
| `network` | 490,050 | `IoConsistent`, `AwakeWhenFlagged`, `FollowsKernel` |
| `upkeep` | 1,870,021 | `KeysServed`, `RecordsFiled`, `DriftSaved`, `ClockFollowsTai`, `AnnouncedRight` |
| `nts_keys_race` | violated | `FreshCookieUnpacks` |
| `assoc_own_host` | violated | `AddressOfOwnHost` |
| `control_hole` | violated | `SuccessIsWhole` |

Each property is stated in words above its definition. Some say where they stop:
`SilentUnreachable` leaves out the drivers that hand over without a sample
(hpgps, spectracom, modem, arbiter, nmea), `ReleasedOnce` those with an error path
that frees twice or not at all (arbiter, trimble, gpsd, oncore),
`UnsyncNotCounted` gpsd, `SampleWhole` an odd count, `DriftSaved` a write that
has failed, `TrueSecond` the minute of a telegram with a fault in it. In each case
the code does the other thing, see section 5. `FragmentLimit` leaves `limit=1` out,
to which the fragment limit does not apply, and `IoConsistent` the steps that end
`ntpd`.

**Bounds.**

- `nts_exchange`: a ring of two wraps around and can be empty, half full and
  full; two packets in flight are enough for a duplicate, a reply that overtakes
  another and a reply of an earlier session. Section 4 removes these bounds. The
  live run has one cookie, one packet, and two server keys of which one is kept,
  so that a rotation makes every cookie unreadable.
- `assoc`: three structures, two names that share an address, a server line, a
  `noselect` line and an NTS pool. Two ids for 2^16, so that ids wrap. One cookie
  per exchange, so that an association runs out at once.
- `access`: two entries for three clients, so memory is short; scores and ages up
  to one above the limit. Clients `c2` and `c3` differ in nothing and are declared
  symmetric; the run has no liveness property, for which symmetry would not be
  sound. The lists alone have two families, addresses of two bits (the default,
  networks and hosts that contain each other), eleven lines, two servers and two
  local addresses.
- `clock`: polls with exponents 2 and 3, bursts of three, a register of two bits
  and one clock step; a filter of four stages; three configurations of two
  associations (plain, preferred with PPS, local clock with a server), and every
  combination of four replies over six samples and of five over three; offsets on
  each side of the step and panic thresholds.
- `refclock`: every driver, with the modes that differ; one stage and two bits of
  reachability; a ring of six; four writes to the segment; twelve formats, five
  telegrams and two faults on the line; minutes of eight seconds with two faults,
  after which a telegram may be wrong by a minute or by more than the ten minutes
  that `cvt_rawdcf` tests for, either way.
- `control`: packets of 16 octets, items shorter, as long and longer than a
  packet, an MRU list of three of four addresses, one fault of the network; two
  entries asked for with `limit=1`, which take more packets than `frags` says.
- `network`: a loopback, two interfaces that share an address and one with IPv6;
  a clock and a server of each family; three sets of rules; two faults.
- `upkeep`: leap days of three seconds, months of two days and a horizon of two
  leaps; two keys kept, a day of four ticks, eight ticks; days of two ticks, months
  of three days and years of nine for the files; five frequencies on both sides of
  the threshold and two faults.

Behaviours end at their bounds in `clock`, `refclock`, `control`, `network` and
`upkeep`, which do not check for deadlock; the others do.

**Fairness.** `nts_exchange_live`: the poll timer fires, a lookup that is due is
started, the worker ends because its sockets time out, SIGDNS is handled (weak
fairness); an exchange that is tried for ever succeeds at some time (strong
fairness on the steps of a success). Nothing is assumed of the network that
carries the NTP packets: it may lose all of them. `assoc`: the lookup thread
ends and its signal is handled (weak); an association that finds the thread busy
asks again every second while one whose lookup has failed waits longer, so each
gets the thread again and again (strong, for the step that takes it). `network`:
the steps of the loop and its handlers, the alarm once a second, and polls of a
server that was not heard (all weak).

## 4. Proofs

| Module | Theorem | Statement |
|---|---|---|
| `NtsExchangeProofs` | `TypeCorrect` | `Spec => []TypeOK` |
| | `JarOwnership` | `Spec => []WorkerOwnsJar` |
| | `RingStaysConsistent` | `Spec => []RingConsistent` |
| | `CookiesUsedOnce` | `Spec => []NoCookieReuse` |
| | `SessionsNotMixed` | `Spec => []JarMatchesSession` |
| | `RepliesFill` | `Spec => ReplyFillsJar` |
| `RefclockProofs` | `RingImplementsQueue` | `RingSpec => IsQueue` |
| | `SamplesWhole` | `SegmentSpec => []SampleWhole` |
| `UpkeepProofs` | `DriftStaysSaved` | `DriftSpec => []DriftSaved` |
| | `KeysStayServed` | `KeysSpec => []KeysServed` |
| `AssociationsProofs` | `TablesStayInStep` | `Spec => []TablesAgree` |
| | `AnswersReachTheirHost` | `Spec => []AddressOfOwnHost`, given `~UnpeerBusy` |
| `ClockProofs` | `CorrectionsAppliedOnce` | `DisciplineSpec => []AppliedOnce` |
| | `OneSpikeNeverSteps` | `DisciplineSpec => SpikesSuppressed` |
| | `InRange` | `DisciplineSpec => []TypeOK` |
| `SamplingProofs` | `SampleOncePerRegister` | `FilterSpec => []SampleInterval` |
| | `PacketsSpaced` | `PollSpec => PollsSpaced` |

**NtsExchangeProofs**, for any ring size, number of keys, nonces, sessions and
packets in flight. All follow from `Invariance`, `Spec => []IInv`. The properties
are not inductive; `IInv` adds what the code relies on without saying so:

- `ShapeInv`: the server has a key; the worker adds cookies only to a jar that it
  has emptied; while it runs the association is out of the address hash.
- `DistinctInv`: the cookies in the jar, in requests under way and in replies and
  records that are about to be stored are all different; a request asks for
  exactly what the jar lacks, and a reply to the latest request either is new and
  fills the jar exactly or finds it full already.
- `SessionInv`: every cookie travels with the session whose keys it carries.

The arithmetic of the ring is kept in lemmas of its own; `StoreRing` and
`TakeRing` say what storing and taking cookies does to the live slots; then there
is one lemma per action. The assumptions are the `ASSUME`s of `NtsExchange`: the
sizes are positive, the sets of names are not empty and nonces are numbers.

**RefclockProofs, the buffer**, for any `MAXSTAGE` above 1 and any integer
offsets: the refinement mapping takes the slots between the two indices as the
queue. Each step of the ring is a step of the queue or leaves it; `Place` says
where the k-th sample is when the ring wraps.

**RefclockProofs, the segment**, for any number of writes: the count says how far
the writer has come (`Written`), and the times read so far are those the
remembered count stands for as long as the count has not moved on (`ReadSoFar`).
The count only grows, so an equal count at the end means that it was equal all
along.

**UpkeepProofs, the frequency file**, for any frequencies and any positive
threshold: `DriftSaved` speaks of the file, but the code decides from
`wander_resid` and `prev_drift_comp`; the inductive invariant says that they
describe the file (`Kept`) and how near it was (`Close`).

**AssociationsProofs**, for any number of structures, names, addresses and
configuration lines. `TablesAgree` says that the list, the free list, the address
hash and the counters describe the same structures. The invariant is `Shapes`,
`Listed` (every structure is in one of the two lists, once), `Kinds` (a free
structure is of no kind and waits for no lookup, which is what makes an answer for
an association that is gone harmless), `Tallied` (the hash has exactly the
associations with an address, the counters are the numbers of those they count)
and `Lookups`. Lemmas of their own say what pushing on and removing from a list of
distinct members does, and what one member more or less does to a count.
`AddressOfOwnHost` rests on `Asked` (the association the thread works for stays in
use and without an address until the answer is taken, and is still what the thread
has read) and `Answered` (the answer belongs to that name). It needs `~UnpeerBusy`;
the run `assoc_own_host` shows that it fails without. The assumptions are the
`ASSUME`s of `Associations`: the structures are finitely many and all on the free
list at first.

**UpkeepProofs, the cookie keys**, for any number of keys, any day and hour, and
with crashes between any two steps. `KeysServed` promises that a cookie whose key
was saved unpacks until `NTS_nKEYS` keys more have been made, and that no key is
in use for more than a day and a timer period. The invariant is `Shapes`,
`OneKeyPerTag` (a tag stands for one key, in the list and in the file, also in the
middle of a rotation), `CookiePlaced` (the key of a cookie has moved at most one
place per rotation since the cookie was made, and once saved is in the list and in
the file) and `OnTime` (how far `K_time` and the hourly timer may be behind).

**ClockProofs**, for any offsets, delays, thresholds, loop gains and quantum of
`adjtime`. `DisciplineInv` holds between operations: the frequency is in the
kernel while its loop is in use and only then, and what the clock is still owed of
the phase is the residue (`Good`); a step that was asked for was made before the
clock was synchronized (`Steady`); and in the spike state the last update was an
outlier. `local_clock` does not keep it from line to line: half way the frequency
may be out of range or the kernel still have the old one, which is `Pending`, and
each part of it has a lemma that takes `Pending` or `Good` to one of them.

**SamplingProofs, the filter**, for a register of any length, any samples and a
sort that may be switched on at any time. `SampleInterval` counts the packets that
were answered with an older sample. The invariant adds why that ends: the stages
filled since the last sample was used are all younger than it (`LaterThanUsed`),
so when they are the whole register, the sample chosen is a new one. Of the sort
the proof needs only that it gives an index vector (`SortOrds`), whichever sample
comes first.

**SamplingProofs, the polls**, for any poll intervals, burst lengths, retries and
options. What `PollsSpaced` says of a packet that leaves is prepared when the
packet is scheduled: the time left and the time since the last packet add up to
the guard time, and the output counter will have sunk to its ceiling (`Guarded`);
while a lookup runs, whose end sends a packet, that is so already (`Probed`); out
of a burst an interval will have passed (`Paced`), and a server that has not
answered gets no burst (`Answered`). A clock step breaks all of it until the next
packet (`stepped`).

Where a theorem needs more than the `ASSUME`s of the module it speaks of, the
statement says so.

## 5. Differences between code and documentation

Three are shown by runs (the `findings` of `PROJECT.json`): the tag and the key of
a cookie read on both sides of a rotation (`nts_keys_race`); the answer of a
lookup given to another association after `unpeer` (`assoc_own_host`); a response
with a lost fragment that is returned as empty (`control_hole`).

Others were met while modelling. The models have what the code does.

*Associations and polls*

- `ntp_proto.c:1025` overwrites the retry time that `restart_nts_ke` has set; the
  comment at `:2620` says "min retry: 256 seconds, ~5 min".
- `ntp_peer.c:409`: `sys_peer` still points to an association after `free_peer`,
  so that `ntp_timer.c:229` does not see that there is none.
- `ntp_config.c:2938`, `:2954`: `unpeer` does not find a server by address with
  the `nts` option before NTS-KE has succeeded, and with the name of an NTS pool
  it removes the newest server of the pool; `docs/includes/assoc-commands.adoc:42`
  says it "removes a previously configured association".
- `ntp_proto.c:896`: the comparison is `<=`; the comment at `:885` says "less
  than a hard limit of 2 * sys_maxclock".
- `ntp_proto.c:1350`: the first packet after a clock step may follow the last one
  at once; `docs/rate.adoc:77` gives a minimum of 2 s.
- `ntp_proto.c:556`, `:557`: a KoD can leave `minpoll` above `maxpoll`, which
  `ntp_peer.c:647` rules out.
- `ntp_proto.c:976`: once the unreach threshold is reached the exponent grows with
  every further poll and not once per threshold, against `docs/poll.adoc:55`.

*NTS keys*

- `nts_cookie.c:155`: the test for a rotation is "at least a day", the loop that
  advances `K_time` "more than a day". When the hourly timer hits the day
  exactly, a key is made, `K_time` stays, and another key follows an hour later.
  `docs/NTS-QuickStart.adoc:238` says "well over a week" for ten keys.
- `nts_cookie.c:186`: a bad key length in the file stays in `K_length` after the
  file is refused; `:86` says "Valid choices are 32, 48, and 64".

*Clock*

- `ntp_loopfilter.c:610`: `allow_panic` is cleared only in the default branch of
  the state machine; `docs/includes/ntpd-body.adoc:98` says that it happens once.
- `ntp_leapsec.c:803`: `leapsec_add` advances the month and keeps the day; the
  comment at `:758` says "the beginning of the next month".
- `ntp_proto.c:128`: `clock_update` tests a `static leapsec` that is never set.

*Access and MRU list*

- `ntp_restrict.c:711`: the hole of an association is removed without
  `RESM_SOURCE`, so it is not found and stays; see the comment at `:685`.
- `unrestrict` without flags does not find a rule with `ntpport`;
  `docs/includes/access-commands.adoc` says it "removes any rule with matching
  address and mask".
- A hole (`RESM_SOURCE`) sorts before the entry that ignores our own address.
- A clock step while monitoring is off leaves the times in the MRU list as they
  are, against the comment at `ntp_util.c:1013`; `mru_maxdepth` can be exceeded
  by what is left of a batch of `incalloc` entries.
- `ntp_monitor.c:450`: with no memory left an entry whose age is `mru_minage` is
  recycled; the comment at `:66` says "full and age > mru_minage", and
  `docs/includes/misc-options.adoc:167` "more than minage".

*Files*

- `ntp_util.c:789`: `record_ntske_stats` tests the file of `ntsstats`.
- `ntp_filegen.c:157`: the suffix of a week is the day of the year modulo 7;
  `docs/includes/mon-commands.adoc:414` describes a week number.
- `ntp_filegen.c:274`: a file that did not open is not tried again before the next
  period, and its link has been removed already.
- `ntp_util.c:235`: a failed write of the frequency file is not tried again before
  the frequency wanders; the comment at `:222` says the opposite of the code. A
  failing `fprintf` or `fclose` (`:198`) is not noticed, and the file that is cut
  short takes the place of the good one.

*Reference clocks*

- `ntp_refclock.c:273`: hpgps, spectracom and modem call `refclock_receive`
  without a sample, so a silent receiver stays reachable; arbiter and nmea leave
  old samples.
- `spectracom_timer` takes failures of the PPS interface for success; truetime
  stays in `s_InqGOES`; the retry counter of modem in manual mode is not reset and
  its lock file stays; zyfer's leap bits stay at "not in sync".
- arbiter in modes above 1 and trimble with a bad build week free their memory
  twice; gpsd does not close the connection of its primary unit.
- `refclock_shm.c:347`: the count that is remembered may be odd, and then a sample
  of two writes is used.
- `ntp_refclock.c`: a full ring drops the oldest sample, where the comment on
  `SAMPLE` says that the new one is "quietly discarded".
- gpsd never resets its back-off; jjy's `modem_init_disc` does not hang up, and
  its Seiko receive skips a character.
- `refclock_generic.c:2968`: the check for missed telegrams does not fire at a
  constant poll interval, against `:3437` and `:3649`; a saved PPS stamp is
  carried on (`:3404`).
- libparse: two formats have a buffer just as long as a telegram and may stay one
  character off; varitext and computime never say that they are not synchronized.
- `clk_rawdcf.c:447`: "require a successful telegram within last 10 minutes" tests
  only that the new time is not more than ten minutes later than the last, so a
  disturbed telegram that passes the parities with a time in the past is used.

*Mode 6 and interfaces*

- `ntp_control.c:3207`: the MRU list goes on behind an entry that has changed,
  against the comment at `:2924`.
- `packet.py`: a repeated request mixes the fragments of two responses; the
  retries of `mrulist` do not follow its comments.
- `ntp_io.c:297`: with wildcards ignored, no routing socket and a failing scan,
  the assertion on the number of descriptors is reached.

## 6. What is not modelled

Left out of the modelled parts: a failing `pthread_create` or `pthread_join`
(`Associations`); `-q` and a missing interface (`PollProcess`); the flags `flake`,
`noserve` and `version`, hit counts and the free lists of entries
(`RestrictList`); first times, counts and modes, and a change of the `mru` limits
at run time (`MruList`); `leapsec_add_fix`, smearing, the leap bits during the
leap second and the checks of the file's hash and expiry date (`LeapSeconds`); the
kernel's PPS discipline, a failing `ntp_adjtime` (only logged at
`ntp_loopfilter.c:1035` and `:1056`, while the kernel's loop stays selected), a
failing `adjtime` or `clock_settime` (`systime.c:169`, `:259`) and `lockclock`,
with which neither the loop (`ntp_loopfilter.c:1109`) nor the frequency file
(`ntp_util.c:190`) is touched (`ClockDiscipline`, `DriftFile`); the contents of
records, and `statsdir` (`StatsFiles`); what the fields of a timecode add up to,
set-up strings, oncore's site survey and the status reports of the generic driver
(drivers and libparse); what values look like, the authenticator, and the tests of
version, mode, opcode and length, which every response of `ntpd` passes, as it
passes the test for which `fetch_nonce` would ask again (mode 6); socket options
and `sendpkt` (`Interfaces`); start-up, options and privileges (`MainLoop`).

Not modelled at all, with the reasons in `PROJECT.json`: the NTS-KE server and
TLS, Samba signing, packet timestamps, the calendar and the rest of the support
library, the bundled libraries, the Python programs except their mode 6 session,
small tools, build and packaging. They are sequential functions of their
arguments, dialogues led by other libraries, or formatting.

Out of reach of TLC: the floating point of the discipline and the filter; the
models have integers. Out of reach of the prover: liveness, and what recursive
definitions compute for every input.
