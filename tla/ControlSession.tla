--------------------------- MODULE ControlSession ---------------------------
(***************************************************************************)
(* A mode 6 session: ntpq's side (ControlSession in pylib/packet.py), the  *)
(* datagrams on their way, and ntpd's side (ControlResponse, and here      *)
(* process_control and the MRU list, which changes while it is fetched).   *)
(*                                                                         *)
(* Datagrams are lost, delayed, reordered, and responses duplicated, and a *)
(* session takes so long that its nonce expires; each such event uses up   *)
(* one of "faults".  The MRU list is a sequence of [a, t], newest first, t *)
(* being the time of the last packet.  A nonce is good in the period it    *)
(* was given; periods are NONCE_TIMEOUT long.                              *)
(***************************************************************************)
EXTENDS ControlResponse

CONSTANTS
  Addrs, MaxDepth,                            \* clients of the server, entries in its list
  MRU_ROW_LIMIT, MRU_FRAGS_LIMIT,
  MAXFRAGS, MaxPriors, MaxRestarts,           \* packet.py: 32, what fits in a request, 8
  MaxSeq, MaxHeard, MaxFaults,                \* bounds
  Tasks                                       \* what the user may ask for

VARIABLES mru, now, period, requests, replies, faults, c, handled
vars == <<mru, now, period, requests, replies, faults, c, handled>>

NoLimit == MRU_ROW_LIMIT + 1                  \* UINT_MAX
Asked == [nonce |-> 0, frags |-> 0, limit |-> 0, recent |-> 0, priors |-> << >>]

-----------------------------------------------------------------------------
(* The server.                                                               *)

\* ntp_monitor on a packet of a client: a new entry, or the old one, on top;
\* the oldest gives way.
ntp_monitor(a) ==
  /\ now < MaxHeard
  /\ LET rest == SelectSeq(mru, LAMBDA e : e.a # a)
     IN mru' = <<[a |-> a, t |-> now + 1]>> \o SubSeq(rest, 1, Min({Len(rest), MaxDepth - 1}))
  /\ now' = now + 1
  /\ UNCHANGED <<period, requests, replies, faults, c, handled>>

\* NONCE_TIMEOUT seconds, or a new salt.
NextPeriod ==
  /\ faults > 0
  /\ faults' = faults - 1
  /\ period' = period + 1
  /\ UNCHANGED <<mru, now, requests, replies, c, handled>>

Row(e) == Item("row", e.a, e.t)
Nonce == Item("nonce", period, 0)
Index(a) == {i \in DOMAIN mru : mru[i].a = a}
\* Mutant: the first prior entry is taken as it is.
Start_Bumped(p) == Index(p.priors[1].a)
\* The first prior entry that is as the client says, or else the last one if
\* the list has it at all.
Start(p) ==
  LET same == {k \in DOMAIN p.priors : p.priors[k] \in ToSet(mru)}
  IN IF same # {} THEN Index(p.priors[Min(same)].a) ELSE Index(Last(p.priors).a)

\* Entries from older to newer while there are fragments; "recent" leaves out
\* the first ones.  b is the response so far.
RECURSIVE Rows(_, _, _, _, _)
Rows(b, list, count, countdown, p) ==
  IF list = << >> THEN [put |-> << >>, over |-> TRUE]
  ELSE IF b.frags >= p.frags \/ count >= p.limit THEN [put |-> << >>, over |-> FALSE]
  ELSE IF p.recent # 0 /\ countdown > p.recent THEN Rows(b, Tail(list), count, countdown - 1, p)
  ELSE LET x == Row(Head(list))
           r == Rows(ctl_putdata(b, x), Tail(list), count + 1, IF countdown > 0 THEN countdown - 1 ELSE 0, p)
       IN [r EXCEPT !.put = <<x>> \o @]

\* "now" and "last.newest" end the last batch.
Batch(p, first, list) ==
  LET head == first \o <<Nonce>>
      r    == Rows(PutAll(Packet, head), list, 0, Len(mru), p)
      end  == IF ~r.over THEN << >> ELSE IF r.put = << >> THEN <<Named("now")>> ELSE <<Named("now"), Named("newest")>>
  IN Answer(head \o r.put \o end)

read_mru_list(q) ==
  LET p == [q EXCEPT !.frags = IF @ = 0 THEN MRU_FRAGS_LIMIT ELSE @, !.limit = IF @ = 0 THEN NoLimit ELSE @]
      direct == FlattenSeq([k \in DOMAIN p.priors |-> LET i == Index(p.priors[k].a) IN
                             IF i = {} THEN << >> ELSE <<Row(mru[Min(i)])>>])
  IN IF p.nonce # period THEN [put |-> << >>, end |-> "nothing"]
     ELSE IF (q.frags = 0 /\ q.limit \notin 1 .. MRU_ROW_LIMIT) \/ q.frags > MRU_FRAGS_LIMIT THEN ctl_error("BADVALUE")
     ELSE IF p.limit = 1 THEN Answer(direct \o <<Nonce, Named("now")>>)
     ELSE IF p.priors = << >> THEN Batch(p, << >>, Reverse(mru))
     ELSE IF Start(p) = {} THEN ctl_error("UNKNOWNVAR")
     ELSE LET i == Min(Start(p))
          IN Batch(p, <<Named("older")>>, Reverse(SubSeq(mru, 1, i - 1)))

\* Did read_mru_list start at an entry that has changed?
Strayed(p) == p.priors # << >> /\ Start(p) # {} /\ ToSet(p.priors) \intersect ToSet(mru) = {}

\* process_control: what is no request is ignored, what has not the length it
\* says is refused, and some operations need the control key.
Handler(rq) ==
  CASE rq.form = "response" -> [put |-> << >>, end |-> "nothing"]
    [] rq.form = "long"     -> ctl_error("BADFMT")
    [] rq.op = "unspec"     -> control_unspec(rq.id)
    [] rq.op = "readstat"   -> read_status(rq.id)
    [] rq.op = "readvar"    -> IF rq.id = 0 THEN read_sysvars(rq.names) ELSE read_peervars(rq.id, rq.names)
    [] rq.op = "writevar"   -> ctl_error("BADOP")
    [] rq.op = "readclock"  -> read_clockstatus(rq.id, rq.names)
    [] rq.op = "configure"  -> IF ~rq.auth THEN ctl_error("PERMISSION")
                               ELSE configure(rq.id, rq.form = "nomodify", rq.form # "toolong", rq.form # "errors")
    [] rq.op = "mru"        -> IF rq.form = "nomrulist" THEN ctl_error("PERMISSION") ELSE read_mru_list(rq.asked)
    [] rq.op = "ordlist"    -> IF ~rq.auth THEN ctl_error("PERMISSION") ELSE read_ordlist(rq.form, 3)
    [] rq.op = "nonce"      -> Answer(<<Nonce>>)
    [] OTHER                -> ctl_error("BADOP")

process_control(rq) ==
  LET r == Handler(rq)
      sent == Packets(r)
  IN /\ requests' = requests \ {rq}
     /\ replies' = replies \union {[seq |-> rq.seq, packet |-> f] : f \in sent}
     /\ handled' = [handled EXCEPT ![rq.seq] = [result |-> r, n |-> Cardinality(sent), asked |-> rq.asked, mru |-> mru,
                                                strayed |-> rq.op = "mru" /\ Strayed(rq.asked)]]
     /\ UNCHANGED <<mru, now, period, faults, c>>

-----------------------------------------------------------------------------
(* The client.  c.result is how the session stands; c.got, a history, is the *)
(* text getresponse returned last and the request it was for.                *)

Request(k, op) ==
  [seq |-> k.seq, op |-> op, form |-> k.task.form, id |-> k.task.id, names |-> k.task.names, auth |-> k.task.auth,
   asked |-> k.asked]

\* sendrequest, at the start of getresponse's loop.
Sent(k) == [k EXCEPT !.seq = @ + 1, !.fragments = << >>, !.seenlastfrag = FALSE, !.bail = 0]
Query(k) == [Sent(k) EXCEPT !.tries = 1]
Asking(k, op) == Query([k EXCEPT !.op = op])
Ended(k, how) == [k EXCEPT !.result = how]

\* generate_mru_lastseen: the newest entries, newest first.
generate_mru_lastseen(span) == SubSeq(Reverse(span), 1, Min({Len(span), MaxPriors}))
\* What the user gave goes with every request, but "recent" with the first.
Mru(k, recent) ==
  Asking([k EXCEPT !.asked = [nonce |-> k.nonce, frags |-> IF k.cap_frags THEN k.frags ELSE 0, recent |-> recent,
                              limit |-> IF k.task.limit # 0 THEN k.task.limit ELSE IF k.cap_frags THEN 0 ELSE k.limit,
                              priors |-> k.task.priors \o generate_mru_lastseen(k.span)]], "mru")
\* The nonce may be too old; its age is counted from the last one asked for.
Again(k) == {Mru(k, 0), Asking(k, "nonce")}

\* __mru_query_error: what the server says may be answered by a smaller
\* request, anything else by the same one.
__mru_query_error(k, code) ==
  CASE code = "UNKNOWNVAR" -> IF k.restarted = MaxRestarts THEN {Ended(k, "stall")}
                              ELSE Again([k EXCEPT !.restarted = @ + 1])
    [] code = "BADVALUE" -> IF k.cap_frags THEN Again([k EXCEPT !.cap_frags = FALSE])
                            ELSE Again([k EXCEPT !.row_limit = @ - 1, !.limit = Min({@, k.row_limit - 1})])
    [] code \in {"timeout", "too much"} -> Again(k)
    [] OTHER -> {Ended(k, code)}
Raised(k, code) == IF k.op = "mru" THEN __mru_query_error(k, code) ELSE {Ended(k, code)}

\* __parse_varlist: the fields between commas, without the white space.
__parse_varlist(text) ==
  LET blank == Separators
      first == SelectSeq([i \in DOMAIN text |-> i],
                         LAMBDA i : text[i] \notin blank /\ (i = 1 \/ text[i - 1] \in blank))
  IN [n \in DOMAIN first |-> text[first[n]]]

\* stitch_mru: of several entries of an address the latest is kept.
stitch_mru(span) ==
  LET beaten(i) == \E j \in DOMAIN span : span[j].a = span[i].a /\ (span[j].t > span[i].t \/ (span[j].t = span[i].t /\ j > i))
      kept == SelectSeq([i \in DOMAIN span |-> i], LAMBDA i : ~beaten(i))
  IN [n \in DOMAIN kept |-> span[kept[n]]]

\* __mru_analyze, and the next request or the end of the loop of mrulist.
Analyzed(k, text) ==
  LET items == __parse_varlist(text)
      rows  == SelectSeq(items, LAMBDA x : x.tag = "row")
      nonce == SelectSeq(items, LAMBDA x : x.tag = "nonce")
      m     == [k EXCEPT !.span = @ \o [i \in DOMAIN rows |-> [a |-> rows[i].a, t |-> rows[i].t]],
                         !.nonce = IF nonce = << >> THEN @ ELSE nonce[1].a]
  IN IF Named("now") \in ToSet(items) THEN {Ended([m EXCEPT !.span = stitch_mru(@)], "done")}
     ELSE Again([m EXCEPT !.frags = IF m.cap_frags THEN Min({MAXFRAGS, @ + 1}) ELSE @,
                          !.limit = IF m.cap_frags THEN @ ELSE Min({3 * MAXFRAGS, m.row_limit, @ + 1})])

\* What the caller of getresponse does with a response.  ntpd's answer to a
\* request for a nonce begins with one, so that fetch_nonce, which asks up to
\* four times, never asks again.
Returned(k, text) ==
  LET m == [k EXCEPT !.got = [seq |-> k.seq, text |-> text]]
  IN CASE k.op = "mru" -> Analyzed(m, text)
       [] k.op = "nonce" -> {Mru([m EXCEPT !.nonce = text[1].a], IF k.asked = Asked THEN k.task.recent ELSE 0)}
       [] OTHER -> {Ended(m, "done")}

End(f) == f.offset + Len(f.data)
\* The tests a fragment has to pass before it is recorded.
Refused(k, f) ==
  \/ f.data = << >> /\ f.more
  \/ k.seenlastfrag /\ f.more
  \/ k.fragments # << >> /\ End(Last(k.fragments)) > f.offset
  \/ \E g \in ToSet(k.fragments) : g.offset = f.offset \/ (g.offset > f.offset /\ End(f) > g.offset)

\* A fragment of the response: after the last one, either the response is
\* whole or the loop is left without one.
Fragment(k, f) ==
  LET m == [k EXCEPT !.fragments = SortSeq(Append(@, f), LAMBDA g, h : g.offset < h.offset),
                     !.seenlastfrag = @ \/ ~f.more]
      hole == \E i \in 1 .. Len(m.fragments) - 1 : End(m.fragments[i]) # m.fragments[i + 1].offset
  IN IF Refused(k, f) THEN {k}
     ELSE IF ~m.seenlastfrag \/ m.fragments[1].offset # 0 THEN {m}
     ELSE Returned(m, IF hole THEN << >> ELSE FlattenSeq([i \in DOMAIN m.fragments |-> m.fragments[i].data]))

\* Mutant: a response to an earlier try is taken too.
getresponse_AnySequence(k, r) ==
  LET m == [k EXCEPT !.bail = @ + 1]
  IN IF m.bail >= 2 * MAXFRAGS THEN Raised(m, "too much")
     ELSE IF r.packet.kind # "data" THEN Raised(m, r.packet.kind)
     ELSE Fragment(m, r.packet)
\* __validate_packet: a late answer is passed over, an error is raised.  The
\* version, mode, opcode and length of what ntpd sends are as they should be.
Late(k, r) == r.seq # k.seq
\* The client's step on a datagram: the set of clients it may become.
getresponse(k, r) ==
  LET m == [k EXCEPT !.bail = @ + 1]
  IN IF m.bail >= 2 * MAXFRAGS THEN Raised(m, "too much")
     ELSE IF Late(k, r) THEN {m}
     ELSE IF r.packet.kind # "data" THEN Raised(m, r.packet.kind)
     ELSE Fragment(m, r.packet)

-----------------------------------------------------------------------------
Waiting == c.result = "waiting" /\ c.seq < MaxSeq

\* The client goes on; what it asks for is on its way.
Becomes(k) ==
  /\ c' = k
  /\ requests' = IF k.seq = c.seq THEN requests ELSE requests \union {Request(k, k.op)}
  /\ UNCHANGED <<mru, now, period, handled>>

Receive(r) ==
  /\ Waiting
  /\ \E k \in getresponse(c, r) : Becomes(k)
  /\ \/ replies' = replies \ {r} /\ UNCHANGED faults
     \/ replies' = replies /\ faults > 0 /\ faults' = faults - 1      \* a duplicate follows

\* select times out; without a fault this happens when nothing can come.
Timeout ==
  /\ Waiting
  /\ IF \E m \in requests \union replies : m.seq = c.seq
     THEN faults > 0 /\ faults' = faults - 1
     ELSE UNCHANGED faults
  /\ \E k \in IF c.tries = 1 THEN {[Sent(c) EXCEPT !.tries = 2]} ELSE Raised(c, "timeout") : Becomes(k)
  /\ UNCHANGED replies

Lose ==
  /\ faults > 0
  /\ faults' = faults - 1
  /\ \/ \E rq \in requests : requests' = requests \ {rq} /\ UNCHANGED replies
     \/ \E r \in replies : replies' = replies \ {r} /\ UNCHANGED requests
  /\ UNCHANGED <<mru, now, period, c, handled>>

Client(task) ==
  [task |-> task, op |-> IF task.op = "mru" THEN "nonce" ELSE task.op, seq |-> 1, tries |-> 1, fragments |-> << >>,
   seenlastfrag |-> FALSE, bail |-> 0, asked |-> Asked, nonce |-> 0, span |-> << >>, restarted |-> 0, cap_frags |-> TRUE,
   frags |-> task.frags, limit |-> Min({3 * MAXFRAGS, MRU_ROW_LIMIT}), row_limit |-> MRU_ROW_LIMIT,
   got |-> [seq |-> 0, text |-> << >>], result |-> "waiting"]

None == [result |-> Answer(<< >>), n |-> 0, asked |-> Asked, mru |-> << >>, strayed |-> FALSE]
Init ==
  /\ mru = [i \in 1 .. MaxDepth |-> [a |-> MaxDepth + 1 - i, t |-> MaxDepth + 1 - i]]
  /\ now = MaxDepth
  /\ period = 1
  /\ faults = MaxFaults
  /\ replies = {}
  /\ handled = [s \in 1 .. MaxSeq |-> None]
  /\ \E task \in Tasks : c = Client(task) /\ requests = {Request(Client(task), Client(task).op)}

Next ==
  \/ \E a \in Addrs : c.task.op = "mru" /\ c.result = "waiting" /\ ntp_monitor(a)
  \/ c.task.op = "mru" /\ c.result = "waiting" /\ NextPeriod
  \/ \E rq \in requests : process_control(rq)
  \/ \E r \in replies : Receive(r)
  \/ Timeout
  \/ Lose

Spec == Init /\ [][Next]_vars

-----------------------------------------------------------------------------
Bare(text) == SelectSeq(text, LAMBDA x : x \notin Separators)
Whole(got) ==
  LET r == handled[got.seq].result
  IN /\ r.end = "flush"
     /\ Bare(got.text) = FlattenSeq([i \in DOMAIN r.put |-> Text(r.put[i])])
     /\ (\A i \in DOMAIN r.put : r.put[i].tag # "assoc") => __parse_varlist(got.text) = r.put

(* A text getresponse returns, when there is one, is the whole of what one   *)
(* handler put into the response to that very request: no fragment of an     *)
(* earlier try, none twice, none missing, and no item run into the next by   *)
(* the way ctl_putdata splits items between packets.                         *)
AssembledWhole == c.got.text # << >> => Whole(c.got)

(* getresponse returns only with a complete response: "Loop until we have an *)
(* error or a complete response" (packet.py:976).                            *)
SuccessIsWhole == c.got.seq # 0 => Whole(c.got)

(* A response is no more datagrams than the request allows ("Limit on        *)
(* datagrams (fragments) in response", ntp_control.c:2871), and each keeps   *)
(* within CTL_MAX_DATA_LEN although separators are put without a test. "When *)
(* limit is not one and frags= is provided, the fragment limit controls"     *)
(* (ntp_control.c:2884): with limit=1 each entry asked for is sent, however  *)
(* many datagrams they take.                                                 *)
FragmentLimit ==
  /\ \A s \in DOMAIN handled :
       LET q == handled[s].asked IN q.frags # 0 /\ q.limit # 1 => handled[s].n <= q.frags
  /\ \A r \in replies : Len(r.packet.data) <= CTL_MAX_DATA_LEN

\* What the client has when the server says that this is all.
Complete == c.result = "done" /\ c.task.op = "mru" /\ c.task.recent = 0 /\ c.task.limit # 1
Missing == ToSet(handled[c.got.seq].mru) \ ToSet(c.span)

(* When mrulist ends, the client has every entry the list had when the last  *)
(* response was made, although entries moved to the top, were added and      *)
(* recycled between the requests and responses were lost; provided every     *)
(* batch started behind an entry that had not changed.                       *)
ListWhole == Complete /\ (\A s \in DOMAIN handled : ~handled[s].strayed) => Missing = {}
=============================================================================
