-------------------------- MODULE MCControlSession --------------------------
EXTENDS ControlSession

\* Lengths in octets of a packet of 16: a row crosses from one packet to the
\* next, "wide" is longer than a packet, "full" just as long.
MCOctets ==
  [row |-> 5, nonce |-> 1, now |-> 1, newest |-> 1, older |-> 1, assoc |-> 4, leap |-> 2, wide |-> 19, full |-> 16,
   near |-> 13, srcadr |-> 3, srchost |-> 6, bias |-> 2, name |-> 4, flags |-> 2, driver |-> 3, prohibited |-> 5,
   succeeded |-> 4, errors |-> 3] @@ ("too long" :> 4)

Var(name, def) == [name |-> name, def |-> def]
MCSys == <<Var("leap", TRUE), Var("full", TRUE), Var("wide", FALSE)>>
MCExt == <<Var("near", TRUE)>>
MCPeer == <<Var("srcadr", TRUE), Var("srchost", TRUE), Var("bias", FALSE)>>
MCClock == <<Var("name", TRUE), Var("flags", TRUE)>>
Has(srcadr, srchost, bias, name, flags) ==
  [srcadr |-> srcadr, srchost |-> srchost, bias |-> bias, name |-> name, flags |-> flags]
MCPeers ==
  <<[associd |-> 1, refclock |-> FALSE, put |-> Has(0, 1, 0, 0, 0), kv |-> << >>],
    [associd |-> 2, refclock |-> TRUE, put |-> Has(1, 2, 1, 0, 1), kv |-> <<Var("driver", TRUE)>>],
    [associd |-> 3, refclock |-> FALSE, put |-> Has(1, 1, 0, 0, 0), kv |-> << >>],
    [associd |-> 4, refclock |-> FALSE, put |-> Has(1, 1, 1, 0, 0), kv |-> << >>],
    [associd |-> 5, refclock |-> FALSE, put |-> Has(1, 1, 1, 0, 0), kv |-> << >>]>>

Task(op, id, names, form, auth) ==
  [op |-> op, id |-> id, names |-> names, form |-> form, auth |-> auth, frags |-> MAXFRAGS, limit |-> 0, recent |-> 0,
   priors |-> << >>]
Fields == [name : {"leap", "wide", "near", "srchost", ""}, size : {"fits"}] \union {[name |-> "full", size |-> "edge"]}
Lists == {<< >>} \union {<<f>> : f \in Fields} \union {<<f, g>> : f, g \in Fields}
            \union {<<f, g, h>> : f, g, h \in {x \in Fields : x.name \in {"leap", "wide", "near"}}}
Peer == {<< >>, <<[name |-> "bias", size |-> "fits"], [name |-> "srcadr", size |-> "edge"]>>, <<[name |-> "name", size |-> "fits"]>>,
         <<[name |-> "driver", size |-> "fits"], [name |-> "name", size |-> "fits"]>>, <<[name |-> "leap", size |-> "long"]>>}
MCQueries ==
  {Task("readvar", 0, l, "ok", FALSE) : l \in Lists}
    \union {Task(op, id, l, "ok", FALSE) : op \in {"readvar", "readclock"}, id \in {0, 1, 2, 9}, l \in Peer}
    \union {Task(op, id, << >>, "ok", FALSE) : op \in {"unspec", "readstat", "writevar", "none"}, id \in {0, 2, 9}}
    \union {Task("configure", 0, << >>, f, a) : f \in {"ok", "nomodify", "toolong", "errors"}, a \in BOOLEAN}
    \union {Task("configure", 2, << >>, "ok", TRUE)}
    \union {Task("ordlist", 0, << >>, f, a) : f \in {"ifstats", "other"}, a \in BOOLEAN}
    \union {Task("readstat", 0, << >>, f, FALSE) : f \in {"response", "long"}}
MruTask(form, frags, limit, recent, priors) ==
  [Task("mru", 0, << >>, form, FALSE) EXCEPT !.frags = frags, !.limit = limit, !.recent = recent, !.priors = priors]
\* Two entries do not fit in one packet.
Two == <<[a |-> 1, t |-> 0], [a |-> 2, t |-> 0]>>
MCMru == {MruTask("ok", MAXFRAGS, 0, 0, << >>), MruTask("ok", MRU_FRAGS_LIMIT + 1, 0, 0, << >>), MruTask("nomrulist", MAXFRAGS, 0, 0, << >>),
          MruTask("ok", MAXFRAGS, 0, 2, << >>), MruTask("ok", 1, 1, 0, Two)}
MCTasks == MCQueries \union MCMru
=============================================================================
