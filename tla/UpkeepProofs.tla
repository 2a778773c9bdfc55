---------------------------- MODULE UpkeepProofs ----------------------------
(*****************************************************************************)
(* What the daemon keeps in files: the frequency and the cookie keys.        *)
(*****************************************************************************)
EXTENDS DriftFile, NtsCookieKeys, SequenceTheorems, FiniteSetTheorems, TLAPS

-----------------------------------------------------------------------------
(*****************************************************************************)
(* The frequency file stays near to the frequency in use, for any            *)
(* frequencies, any threshold and any number of crashes and failed writes.   *)
(*****************************************************************************)
DriftTypes ==
  /\ drift \in Int \ {NoDrift} /\ prev \in Int \ {NoDrift} /\ file \in Int /\ seen \in Int
  /\ resid \in 0 .. wander_threshold

\* DriftSaved is not inductive: whether the file need be written is decided from
\* wander_resid and prev_drift_comp, which must say what is in the file (Kept)
\* and how near it was (Close).
Kept == resid > 0 /\ ~failed => file = prev
Close == seen # NoDrift => resid > 0 /\ Abs(prev - seen) < wander_threshold
DriftInv == DriftTypes /\ Kept /\ Close

LEMMA DriftInvInit == DriftInit => DriftInv
BY DriftAssumption DEF DriftInit, DriftInv, DriftTypes, Kept, Close, NoDrift

\* Only the frequency in use changes.
LEMMA WanderKeepsInv ==
  ASSUME DriftInv, Wander
  PROVE  DriftInv'
BY DriftAssumption DEF DriftInv, DriftTypes, Kept, Close, Wander, Abs

\* After a crash nothing is known of the file.
LEMMA CrashKeepsInv ==
  ASSUME DriftInv, Crash
  PROVE  DriftInv'
BY DriftAssumption DEF DriftInv, DriftTypes, Kept, Close, Crash, Started, NoDrift

LEMMA WriteKeepsInv ==
  ASSUME DriftInv, write_drift
  PROVE  DriftInv'
<1> USE DriftAssumption DEF DriftInv
<1>1. CASE Near /\ UNCHANGED <<drift, prev, file, temp, failed, driftfaults>>
           /\ resid' = IF resid > 1 THEN resid \div 2 ELSE 1
  <2>1. resid > 0 /\ resid' > 0 /\ resid' \in 0 .. wander_threshold
    BY <1>1 DEF Near, Abs, DriftTypes
  <2>2. seen' = drift /\ Abs(prev - drift) < wander_threshold
    BY <1>1 DEF Near, Abs, DriftTypes, write_drift
  <2> QED BY <1>1, <2>1, <2>2 DEF DriftTypes, Kept, Close, Abs
<1>2. CASE /\ prev' = drift /\ resid' = wander_threshold /\ UNCHANGED drift
           /\ \E result \in {"ok", "open", "cut", "rename"} : drift_write(result)
  <2>1. PICK result \in {"ok", "open", "cut", "rename"} : drift_write(result)
    BY <1>2
  <2>2. file' \in Int /\ (~failed' => file' = prev')
    <3>0. prev' = drift /\ drift \in Int /\ file \in Int /\ Drifts \union {NoDrift} \subseteq Int
      BY <1>2 DEF DriftTypes, NoDrift
    <3>1. CASE result = "ok"
      BY <2>1, <3>0, <3>1 DEF drift_write
    <3>2. CASE result = "cut"
      BY <2>1, <3>0, <3>2 DEF drift_write
    <3>3. CASE result \in {"open", "rename"}
      BY <2>1, <3>0, <3>3 DEF drift_write
    <3> QED BY <2>1, <3>1, <3>2, <3>3
  <2>3. seen' = drift
    BY DEF write_drift
  <2> QED BY <1>2, <2>2, <2>3 DEF DriftTypes, Kept, Close, Abs
<1> QED BY <1>1, <1>2 DEF write_drift

\* write_stats: after each hour the file is nearer to the frequency in use than
\* the threshold, unless the last write has failed, whatever restarts came
\* before.
THEOREM DriftStaysSaved == DriftSpec => []DriftSaved
<1>1. DriftInv /\ [DriftNext]_driftfile => DriftInv'
  <2> SUFFICES ASSUME DriftInv, [DriftNext]_driftfile PROVE DriftInv'
    OBVIOUS
  <2>1. CASE UNCHANGED driftfile
    BY <2>1 DEF driftfile, DriftInv, DriftTypes, Kept, Close, Abs
  <2> QED BY <2>1, WanderKeepsInv, WriteKeepsInv, CrashKeepsInv DEF DriftNext
<1>2. DriftInv => DriftSaved
  BY DEF DriftInv, DriftTypes, Kept, Close, DriftSaved
<1> QED BY <1>1, <1>2, DriftInvInit, PTL DEF DriftSpec

-----------------------------------------------------------------------------
(*****************************************************************************)
(* The cookie keys serve every cookie for as long as they are meant to, for  *)
(* a key list of any length, days and hours of any length, and any number of *)
(* crashes, restarts, failed writes and files cut short.                     *)
(*****************************************************************************)
KeyRec == [I : KeyIds, K : KeyIds \cup {Torn}]
KeyList == {ks \in Seq(KeyRec) : Len(ks) <= NTS_nKEYS}

-----------------------------------------------------------------------------
(* The inductive invariant *)

\* While a rotation overwrites the first key, only those after it can be relied on.
Rotating == main \in {"K", "I"}
Steady == IF Rotating THEN 2 .. Len(keys) ELSE 1 .. Len(keys)

Shapes ==
  /\ up \in BOOLEAN /\ ran \in BOOLEAN
  /\ main \in {"idle", "shift", "K", "I", "write"}
  /\ K_length \in Nat /\ keys \in KeyList
  /\ up => keys # <<>>
  /\ ~up => main = "idle" /\ K_length = 32 /\ keys = <<>>
  /\ keyfile # None =>
       /\ keyfile = [T |-> keyfile.T, L |-> keyfile.L, keys |-> keyfile.keys, whole |-> keyfile.whole]
       /\ keyfile.T \in Nat \ {0} /\ keyfile.L \in Nat /\ keyfile.keys \in KeyList /\ keyfile.whole \in BOOLEAN
       /\ keyfile.whole => keyfile.keys # <<>>
       /\ up => keyfile.L = K_length
  /\ cookie # None =>
       cookie = [I |-> cookie.I, K |-> cookie.K, by |-> cookie.by,
                 rotations |-> cookie.rotations, saved |-> cookie.saved]

\* No two keys of the list or of the file have the same tag, and a file that has
\* the current tag has it first, with its key.
OneKeyPerTag ==
  /\ \A i, j \in Steady : keys[i].I = keys[j].I => i = j
  /\ main = "I" =>
       /\ keys[1].K \in KeyIds \ Saved
       /\ \A i \in Steady : keys[i].I # keys[1].K
       /\ cookie # None /\ cookie.by = "main" => cookie.I # keys[1].K
  /\ keyfile # None =>
       /\ \A i, j \in 1 .. Len(keyfile.keys) : keyfile.keys[i].I = keyfile.keys[j].I => i = j
       /\ up /\ ~Rotating =>
            \A i \in 1 .. Len(keyfile.keys) :
              keyfile.keys[i].I = keys[1].I => i = 1 /\ keyfile.keys[i] = keys[1]

\* The key of a cookie has moved at most one place per rotation since the cookie
\* was made, in the list and in the file, and is still in both once it was saved.
Within(ks, places, c, rotations) == \A i \in places : ks[i].I = c.I => ks[i].K = c.K /\ i <= rotations + 1
Has(ks, places, tag) == \E i \in places : ks[i].I = tag
Placed(ks, places) == Within(ks, places, cookie, cookie.rotations)
CookiePlaced ==
  cookie # None /\ cookie.by = "main" =>
    /\ cookie.rotations \in Nat /\ cookie.saved \in BOOLEAN
    /\ Placed(keys, Steady)
    /\ keyfile # None => Placed(keyfile.keys, 1 .. Len(keyfile.keys)) /\ keyfile.L \in ValidLengths
    /\ up => K_length \in ValidLengths
    /\ cookie.saved /\ cookie.rotations < NTS_nKEYS =>
         cookie.I \in Saved /\ (up => Has(keys, Steady, cookie.I))

\* The timer is never late, and K_time is behind the next one by at most a day and
\* a period once nts_cookie_timer has run.
OnTime ==
  /\ now \in Nat \ {0} /\ now <= MaxTime + 1 /\ K_time \in Nat /\ hour_timer \in Nat
  /\ up =>
       /\ K_time > 0 /\ now <= hour_timer /\ hour_timer <= now + Hour
       /\ main # "idle" => hour_timer = now + Hour
       /\ ran /\ main = "idle" => hour_timer - K_time <= SecondsPerDay + Hour
       /\ ran /\ main = "write" => now - K_time <= SecondsPerDay

KeysInv == Shapes /\ OneKeyPerTag /\ CookiePlaced /\ OnTime
-----------------------------------------------------------------------------
(* The operators *)

\* nts_make_cookie_key puts the new key first and moves the others back by one.
IsPushed(p, ks, k) ==
  /\ p \in KeyList /\ p # <<>> /\ p[1] = k
  /\ Len(p) = IF Len(ks) < NTS_nKEYS THEN Len(ks) + 1 ELSE NTS_nKEYS
  /\ \A i \in 2 .. Len(p) : p[i] = ks[i - 1] /\ i - 1 \in 1 .. Len(ks)
LEMMA PushedKeys ==
  ASSUME NEW ks \in KeyList, NEW k \in KeyRec
  PROVE  IsPushed(Pushed(ks, k), ks, k)
<1> DEFINE new == <<k>> \o ks
           n == IF Len(new) <= NTS_nKEYS THEN Len(new) ELSE NTS_nKEYS
<1>1. ks \in Seq(KeyRec) /\ Len(ks) \in Nat /\ Len(ks) <= NTS_nKEYS
  BY DEF KeyList
<1>2. /\ new \in Seq(KeyRec) /\ Len(new) = Len(ks) + 1 /\ new[1] = k
      /\ \A i \in 2 .. Len(new) : new[i] = ks[i - 1]
  BY <1>1
<1>3. n \in 1 .. Len(new) /\ n <= NTS_nKEYS /\ n = IF Len(ks) < NTS_nKEYS THEN Len(ks) + 1 ELSE NTS_nKEYS
  BY <1>1, <1>2, KeysAssumption
<1>4. Pushed(ks, k) = SubSeq(new, 1, n)
  BY DEF Pushed
<1> HIDE DEF new, n
<1>5. /\ SubSeq(new, 1, n) \in Seq(KeyRec) /\ Len(SubSeq(new, 1, n)) = n
      /\ \A i \in 1 .. n : SubSeq(new, 1, n)[i] = new[i]
  BY <1>1, <1>2, <1>3
<1> QED BY <1>1, <1>2, <1>3, <1>4, <1>5, KeysAssumption DEF KeyList, IsPushed

\* A new key has a tag that is nowhere in use.
LEMMA FreshKey ==
  ASSUME FreshKeyIds # {}
  PROVE  /\ Fresh \in KeyIds \ (Tags(keys) \cup Saved)
         /\ cookie # None => Fresh # cookie.I
<1>1. Fresh \in FreshKeyIds
  BY DEF Fresh
<1> QED BY <1>1 DEF FreshKeyIds

\* Every nonempty set of naturals has a least member.
LEMMA LeastOf ==
  ASSUME NEW T, T \subseteq Nat, T # {}
  PROVE  \E m \in T : \A n \in T : m <= n
<1>1. \E m \in T : \A n \in T : ~(<<n, m>> \in OpToRel(<, Nat))
  BY NatLessThanWellFounded, WFMin, Zenon
<1>2. PICK m \in T : \A n \in T : ~(n < m)
  BY <1>1, Zenon DEF OpToRel
<1> QED BY <1>2

\* The loop of nts_cookie_timer ends within a day of now.
LEMMA AdvancedInTime ==
  ASSUME now \in Nat \ {0}, now <= MaxTime + 1, NEW t \in Nat \ {0}
  PROVE  Advanced(t) \in Nat \ {0} /\ now - Advanced(t) <= SecondsPerDay
<1> DEFINE Day == SecondsPerDay
           late == {n \in 0 .. MaxTime : ~(Day < now - (t + n * Day))}
           Reached(u) == ~(Day < now - u) /\ (u = t \/ Day < now - (u - Day))
<1>0. Day \in Nat \ {0} /\ MaxTime \in Nat
  BY KeysAssumption
<1> HIDE DEF Day
<1>1. late # {}
  <2>1. CASE now <= t
    <3>1. 0 \in late
      BY <1>0, <2>1
    <3> QED BY <3>1
  <2>2. CASE ~(now <= t)
    <3>1. PICK n \in 0 .. MaxTime : n = now - t
      BY <1>0, <2>2
    <3>2. n * Day >= n /\ n * Day \in Nat
      BY <1>0
    <3>3. n \in late
      BY <1>0, <3>1, <3>2
    <3> QED BY <3>3
  <2> QED BY <2>1, <2>2
<1>2. late \subseteq Nat
  BY <1>0
<1>3. PICK n \in late : \A m \in late : n <= m
  BY <1>1, <1>2, LeastOf, Zenon
<1>4. n \in 0 .. MaxTime /\ ~(Day < now - (t + n * Day)) /\ n * Day \in Int
  BY <1>0, <1>3
<1>5. t + n * Day = t \/ Day < now - (t + n * Day - Day)
  <2>1. CASE n = 0
    BY <1>0, <2>1
  <2>2. CASE n # 0
    <3>1. n - 1 \in 0 .. MaxTime /\ n - 1 \notin late
      BY <1>0, <1>3, <1>4, <2>2
    <3>2. Day < now - (t + (n - 1) * Day)
      BY <3>1
    <3>3. (n - 1) * Day = n * Day - Day
      BY <1>0, <1>4
    <3> QED BY <1>0, <1>4, <3>2, <3>3
  <2> QED BY <2>1, <2>2
<1>6. Advanced(t) = CHOOSE u \in {t + i * Day : i \in 0 .. MaxTime} : Reached(u)
  BY DEF Advanced, Day
<1>7. \E u \in {t + i * Day : i \in 0 .. MaxTime} : Reached(u)
  <2>1. t + n * Day \in {t + i * Day : i \in 0 .. MaxTime}
    BY <1>4
  <2>2. Reached(t + n * Day)
    BY <1>0, <1>4, <1>5
  <2> QED BY <2>1, <2>2, Zenon
<1>8. Advanced(t) \in {t + i * Day : i \in 0 .. MaxTime} /\ Reached(Advanced(t))
  BY <1>6, <1>7
<1>9. \A i \in 0 .. MaxTime : t + i * Day \in Nat \ {0}
  BY <1>0
<1> QED BY <1>0, <1>8, <1>9 DEF Day

-----------------------------------------------------------------------------
(* The invariant is kept *)

LEMMA InitKeysInv == KeysInit => KeysInv
<1> SUFFICES ASSUME KeysInit PROVE KeysInv
  OBVIOUS
<1> USE DEF KeysInit
<1>1. PICK k \in {CHOOSE k \in KeyIds : TRUE} :
        keyfile \in {None}
             \cup {[T |-> 1, L |-> 48, keys |-> <<[I |-> k, K |-> k]>>, whole |-> w] : w \in BOOLEAN}
             \cup {[T |-> 1, L |-> 40, keys |-> <<[I |-> k, K |-> k]>>, whole |-> TRUE]}
  OBVIOUS
<1>2. KeyIds # {}
  BY KeysAssumption
<1>3. <<[I |-> k, K |-> k]>> \in KeyList
  BY <1>1, <1>2, KeysAssumption DEF KeyList, KeyRec
<1>4. ASSUME keyfile # None
      PROVE  /\ keyfile.T = 1 /\ keyfile.L \in {40, 48} /\ keyfile.keys = <<[I |-> k, K |-> k]>>
             /\ keyfile.whole \in BOOLEAN
             /\ keyfile = [T |-> keyfile.T, L |-> keyfile.L, keys |-> keyfile.keys, whole |-> keyfile.whole]
  <2>1. PICK l \in {40, 48}, w \in BOOLEAN :
          keyfile = [T |-> 1, L |-> l, keys |-> <<[I |-> k, K |-> k]>>, whole |-> w]
    BY <1>1, <1>4, Zenon
  <2> QED BY <2>1, Zenon
<1>5. <<>> \in KeyList
  BY KeysAssumption DEF KeyList
<1>6. Shapes
  <2>1. keyfile # None => keyfile.keys \in KeyList /\ keyfile.keys # <<>>
    BY <1>3, <1>4
  <2>2. keyfile # None => keyfile.T \in Nat \ {0} /\ keyfile.L \in Nat
    BY <1>4
  <2> QED BY <1>4, <1>5, <2>1, <2>2, Zenon DEF Shapes
<1>7. OneKeyPerTag /\ CookiePlaced
  BY <1>4 DEF OneKeyPerTag, CookiePlaced, Steady, Rotating
<1>8. OnTime
  BY KeysAssumption DEF OnTime
<1> QED BY <1>6, <1>7, <1>8 DEF KeysInv

\* Steps that touch neither the keys nor the file nor a cookie of the main thread.
LEMMA QuietKeeps ==
  ASSUME KeysInv, UNCHANGED <<up, K_length, keys, keyfile>>, Shapes', OnTime',
         main' = main \/ {main, main'} \subseteq {"idle", "shift", "write"},
         cookie' = cookie \/ cookie' = None \/ cookie'.by # "main"
  PROVE  KeysInv'
<1>1. Rotating' = Rotating /\ Steady' = Steady /\ Saved' = Saved /\ (main' = "I" => main = "I")
  BY DEF Rotating, Steady, Saved
<1>2. OneKeyPerTag'
  BY <1>1 DEF KeysInv, OneKeyPerTag
<1>3. CookiePlaced'
  BY <1>1 DEF KeysInv, CookiePlaced, Placed, Within, Has
<1> QED BY <1>2, <1>3 DEF KeysInv

LEMMA TickKeeps ==
  ASSUME KeysInv, Tick
  PROVE  KeysInv'
<1>1. Shapes'
  BY DEF KeysInv, Tick, Shapes
<1>2. OnTime'
  BY KeysAssumption DEF KeysInv, Tick, OnTime
<1> QED BY <1>1, <1>2, QuietKeeps DEF Tick

LEMMA TimerKeeps ==
  ASSUME KeysInv, nts_cookie_timer
  PROVE  KeysInv'
<1>1. Shapes'
  BY DEF KeysInv, nts_cookie_timer, Shapes
<1>2. OnTime'
  BY KeysAssumption DEF KeysInv, nts_cookie_timer, OnTime
<1>3. {main, main'} \subseteq {"idle", "shift", "write"}
  BY DEF nts_cookie_timer
<1> QED BY <1>1, <1>2, <1>3, QuietKeeps DEF nts_cookie_timer

\* The steps of NTS-KE threads and clients.
LEMMA OthersKeep ==
  ASSUME KeysInv, KeCopiesTag \/ KeEncrypts \/ Forget
  PROVE  KeysInv'
<1>1. Shapes'
  BY DEF KeysInv, KeCopiesTag, KeEncrypts, Forget, Shapes
<1>2. OnTime'
  BY DEF KeysInv, KeCopiesTag, KeEncrypts, Forget, OnTime
<1>3. cookie' = cookie \/ cookie' = None \/ cookie'.by # "main"
  BY DEF KeCopiesTag, KeEncrypts, Forget
<1> QED BY <1>1, <1>2, <1>3, QuietKeeps DEF KeCopiesTag, KeEncrypts, Forget

\* Memory is lost; the file and the cookie stay.
LEMMA StoppedKeeps ==
  ASSUME KeysInv, Stopped
  PROVE  KeysInv'
<1>0. <<>> \in KeyList
  BY KeysAssumption DEF KeyList
<1>1. Shapes'
  BY <1>0, Zenon DEF KeysInv, Stopped, Shapes
<1>2. OnTime'
  BY DEF KeysInv, Stopped, OnTime
<1>3. Steady' = {} /\ Saved' = Saved /\ main' # "I"
  BY DEF Stopped, Steady, Rotating, Saved
<1>4. OneKeyPerTag'
  BY <1>3 DEF KeysInv, Stopped, OneKeyPerTag
<1>5. CookiePlaced'
  BY <1>3 DEF KeysInv, Stopped, CookiePlaced, Placed, Within
<1> QED BY <1>1, <1>2, <1>4, <1>5 DEF KeysInv

\* A cookie of the main thread has the first key, which the file has first or
\* not at all.
LEMMA MainMakesKeeps ==
  ASSUME KeysInv, MainMakesCookie
  PROVE  KeysInv'
<1>1. Shapes'
  BY DEF KeysInv, MainMakesCookie, Shapes
<1>2. OnTime'
  BY DEF KeysInv, MainMakesCookie, OnTime
<1>3. Steady = 1 .. Len(keys) /\ 1 \in Steady /\ ~Rotating
  BY DEF KeysInv, MainMakesCookie, Steady, Rotating, Shapes, KeyList
<1>4. Steady' = Steady /\ Saved' = Saved /\ Rotating' = Rotating
  BY DEF MainMakesCookie, Steady, Rotating, Saved
<1>5. OneKeyPerTag'
  BY <1>4 DEF KeysInv, MainMakesCookie, OneKeyPerTag
<1>6. /\ cookie'.I = keys[1].I /\ cookie'.K = keys[1].K /\ cookie'.rotations = 0
      /\ cookie'.saved = (keys[1].I \in Saved)
  BY DEF MainMakesCookie
<1>7. Placed(keys, Steady)'
  BY <1>3, <1>4, <1>6 DEF KeysInv, OneKeyPerTag, Placed, Within, MainMakesCookie
<1>8. keyfile # None => Placed(keyfile.keys, 1 .. Len(keyfile.keys))' /\ keyfile.L \in ValidLengths
  BY <1>3, <1>6 DEF KeysInv, OneKeyPerTag, Shapes, Placed, Within, MainMakesCookie
<1>9. /\ cookie'.rotations \in Nat /\ cookie'.saved \in BOOLEAN
      /\ cookie'.saved => cookie'.I \in Saved' /\ Has(keys, Steady, cookie.I)'
  <2>1. keys'[1].I = cookie'.I
    BY <1>6 DEF MainMakesCookie
  <2>2. cookie'.rotations \in Nat /\ cookie'.saved \in BOOLEAN
    BY <1>6
  <2> QED BY <1>3, <1>4, <1>6, <2>1, <2>2, Zenon DEF Has
<1>10. CookiePlaced'
  BY <1>7, <1>8, <1>9 DEF CookiePlaced, MainMakesCookie
<1> QED BY <1>1, <1>2, <1>5, <1>10 DEF KeysInv

\* What one more rotation does to the cookie.
OneMore(r, q) == q = r + 1 \/ (q = r /\ r = NTS_nKEYS)
LEMMA RotatedCookie ==
  ASSUME KeysInv, cookie' = Rotated, cookie' # None
  PROVE  /\ cookie # None
         /\ cookie'.I = cookie.I /\ cookie'.K = cookie.K /\ cookie'.by = cookie.by /\ cookie'.saved = cookie.saved
         /\ cookie' = [I |-> cookie'.I, K |-> cookie'.K, by |-> cookie'.by,
                       rotations |-> cookie'.rotations, saved |-> cookie'.saved]
         /\ cookie.by = "main" /\ cookie.rotations \in Nat =>
              /\ cookie'.rotations \in Nat
              /\ OneMore(cookie.rotations, cookie'.rotations)
<1>1. CASE cookie = None \/ cookie.rotations = NTS_nKEYS
  BY <1>1 DEF Rotated, KeysInv, Shapes, OneMore
<1>2. CASE ~(cookie = None \/ cookie.rotations = NTS_nKEYS)
  <2>1. cookie' = [I |-> cookie.I, K |-> cookie.K, by |-> cookie.by,
                   rotations |-> cookie.rotations + 1, saved |-> cookie.saved]
    BY <1>2 DEF Rotated, KeysInv, Shapes
  <2>2. /\ cookie'.I = cookie.I /\ cookie'.K = cookie.K /\ cookie'.by = cookie.by /\ cookie'.saved = cookie.saved
        /\ cookie'.rotations = cookie.rotations + 1
    BY <2>1
  <2>3. cookie' = [I |-> cookie'.I, K |-> cookie'.K, by |-> cookie'.by,
                   rotations |-> cookie'.rotations, saved |-> cookie'.saved]
    BY <2>1, <2>2, Zenon
  <2>4. cookie.rotations \in Nat => cookie'.rotations \in Nat
    BY <2>2
  <2> QED BY <1>2, <2>2, <2>3, <2>4 DEF OneMore
<1> QED BY <1>1, <1>2

\* A list with a key pushed on it: what was placed before is one place further back,
\* and a key that has been through fewer than NTS_nKEYS rotations is still there.
LEMMA PushedPlaces ==
  ASSUME NEW ks \in KeyList, NEW k, NEW p, IsPushed(p, ks, k),
         NEW r \in Nat, NEW q \in Nat, NEW c, OneMore(r, q), Within(ks, 1 .. Len(ks), c, r)
  PROVE  /\ Within(p, 2 .. Len(p), c, q)
         /\ q < NTS_nKEYS /\ Has(ks, 1 .. Len(ks), c.I) => Has(p, 2 .. Len(p), c.I)
<1> USE DEF OneMore, Within, Has
<1>2. PICK n \in Nat : n = Len(ks) /\ n <= NTS_nKEYS
  BY DEF KeyList
<1>3. PICK m \in Nat : m = Len(p) /\ (m = IF n < NTS_nKEYS THEN n + 1 ELSE NTS_nKEYS)
  BY <1>2, KeysAssumption DEF IsPushed
<1>4. \A i \in 2 .. m : p[i] = ks[i - 1]
  BY <1>3 DEF IsPushed
<1>5. \A i \in 2 .. m : p[i].I = c.I => p[i].K = c.K /\ i <= q + 1
  <2> SUFFICES ASSUME NEW i \in 2 .. m, p[i].I = c.I PROVE p[i].K = c.K /\ i <= q + 1
    OBVIOUS
  <2>1. i - 1 \in 1 .. n /\ p[i] = ks[i - 1] /\ i <= NTS_nKEYS
    BY <1>2, <1>3, <1>4, KeysAssumption
  <2>2. ks[i - 1].K = c.K /\ i - 1 <= r + 1
    BY <1>2, <2>1
  <2> QED BY <2>1, <2>2, KeysAssumption
<1>6. ASSUME q < NTS_nKEYS, NEW i \in 1 .. n, ks[i].I = c.I
      PROVE  \E j \in 2 .. m : p[j].I = c.I
  <2>1. i + 1 \in 2 .. m
    BY <1>2, <1>3, <1>6, KeysAssumption
  <2>2. p[i + 1] = ks[i]
    BY <1>4, <2>1
  <2> QED BY <1>6, <2>1, <2>2
<1> QED BY <1>2, <1>3, <1>5, <1>6

\* The shift of a rotation.
LEMMA ShiftKeeps ==
  ASSUME KeysInv, ShiftKeys
  PROVE  KeysInv'
<1>1. /\ up /\ ~Rotating /\ Steady = 1 .. Len(keys) /\ keys \in KeyList /\ Len(keys) \in Nat \ {0}
      /\ Head(keys) \in KeyRec /\ main' = "K"
  BY DEF KeysInv, Shapes, ShiftKeys, Rotating, Steady, KeyList
<1>2. IsPushed(keys', keys, Head(keys))
  BY <1>1, PushedKeys DEF ShiftKeys
<1>3. Rotating' /\ Steady' = 2 .. Len(keys') /\ Saved' = Saved
  BY <1>1 DEF Rotating, Steady, Saved, ShiftKeys
<1>4. Shapes'
  <2>1. /\ up' \in BOOLEAN /\ ran' \in BOOLEAN /\ up' /\ main' = "K" /\ K_length' \in Nat
        /\ keyfile' = keyfile /\ K_length' = K_length /\ up' = up
    BY <1>1 DEF KeysInv, Shapes, ShiftKeys
  <2>2. keys' \in KeyList /\ keys' # <<>>
    BY <1>2 DEF IsPushed
  <2> QED BY <2>1, <2>2, RotatedCookie DEF KeysInv, Shapes, ShiftKeys
<1>5. OnTime'
  BY DEF KeysInv, ShiftKeys, OnTime
<1>6. OneKeyPerTag'
  <2>1. ASSUME NEW i \in Steady', NEW j \in Steady', keys'[i].I = keys'[j].I
        PROVE  i = j
    <3>1. /\ keys'[i] = keys[i - 1] /\ i - 1 \in Steady /\ i \in Int
          /\ keys'[j] = keys[j - 1] /\ j - 1 \in Steady /\ j \in Int
      BY <1>1, <1>2, <1>3 DEF IsPushed
    <3>2. i - 1 = j - 1
      BY <2>1, <3>1 DEF KeysInv, OneKeyPerTag
    <3> QED BY <3>1, <3>2
  <2> QED BY <1>1, <1>3, <2>1 DEF KeysInv, ShiftKeys, OneKeyPerTag
<1>7. CookiePlaced'
  <2> SUFFICES ASSUME cookie' # None, cookie'.by = "main" PROVE CookiePlaced'
    BY DEF CookiePlaced
  <2>1. /\ cookie # None /\ cookie.by = "main" /\ cookie.rotations \in Nat /\ cookie.saved \in BOOLEAN
        /\ cookie'.I = cookie.I /\ cookie'.K = cookie.K /\ cookie'.saved = cookie.saved
        /\ cookie'.rotations \in Nat
        /\ OneMore(cookie.rotations, cookie'.rotations)
    BY RotatedCookie DEF ShiftKeys, KeysInv, CookiePlaced
  <2>2. Within(keys, 1 .. Len(keys), cookie, cookie.rotations)
    BY <1>1, <2>1 DEF KeysInv, CookiePlaced, Placed
  <2>3. /\ Within(keys', 2 .. Len(keys'), cookie, cookie'.rotations)
        /\ cookie'.rotations < NTS_nKEYS /\ Has(keys, 1 .. Len(keys), cookie.I)
             => Has(keys', 2 .. Len(keys'), cookie.I)
    BY <1>1, <1>2, <2>1, <2>2, PushedPlaces
  <2>4. Placed(keys, Steady)'
    BY <1>3, <2>1, <2>3 DEF Placed, Within
  <2>5. /\ keyfile' # None => Placed(keyfile.keys, 1 .. Len(keyfile.keys))' /\ keyfile'.L \in ValidLengths
        /\ up' => K_length' \in ValidLengths
    BY <2>1, KeysAssumption DEF KeysInv, CookiePlaced, Placed, Within, OneMore, ShiftKeys
  <2>6. cookie'.saved /\ cookie'.rotations < NTS_nKEYS => cookie.I \in Saved /\ Has(keys, 1 .. Len(keys), cookie.I)
    BY <1>1, <2>1, KeysAssumption DEF KeysInv, CookiePlaced, OneMore
  <2> QED BY <1>3, <2>1, <2>3, <2>4, <2>5, <2>6 DEF CookiePlaced
<1> QED BY <1>4, <1>5, <1>6, <1>7 DEF KeysInv

\* Overwriting the first key leaves the others alone.
Overwrites(ov, ks, new) ==
  /\ ov \in KeyList /\ ov # <<>> /\ Len(ov) = Len(ks) /\ ov[1] = new
  /\ \A i \in 2 .. Len(ks) : ov[i] = ks[i]
LEMMA FirstOverwritten ==
  ASSUME NEW ks \in KeyList, ks # <<>>, NEW new \in KeyRec, NEW ov, ov = [ks EXCEPT ![1] = new]
  PROVE  Overwrites(ov, ks, new)
BY DEF KeyList, Overwrites

\* The new key is written.
LEMMA RandomKKeeps ==
  ASSUME KeysInv, RandomK
  PROVE  KeysInv'
<1>1. /\ up /\ Rotating /\ Steady = 2 .. Len(keys) /\ keys \in KeyList /\ keys # <<>> /\ keys[1] \in KeyRec
      /\ main = "K"
  BY DEF KeysInv, Shapes, RandomK, Rotating, Steady, KeyList
<1>2. PICK k \in KeyIds \cup {Torn} :
        /\ keys' = [keys EXCEPT ![1].K = k]
        /\ \/ main' = "K"
           \/ /\ main' = "I" /\ k \in KeyIds \ (Tags(keys) \cup Saved)
              /\ cookie # None => cookie.I # k
  BY FreshKey DEF RandomK
<1>3. /\ keys' = [keys EXCEPT ![1] = [I |-> keys[1].I, K |-> k]]
      /\ [I |-> keys[1].I, K |-> k] \in KeyRec
  <2>1. keys' = [keys EXCEPT ![1] = [keys[1] EXCEPT !.K = k]]
    BY <1>2
  <2>2. [keys[1] EXCEPT !.K = k] = [I |-> keys[1].I, K |-> k]
    BY <1>1 DEF KeyRec
  <2>3. [I |-> keys[1].I, K |-> k] \in KeyRec
    BY <1>1 DEF KeyRec
  <2> QED BY <2>1, <2>2, <2>3, Zenon
<1>4. /\ keys' \in KeyList /\ keys' # <<>> /\ Len(keys') = Len(keys) /\ keys'[1].K = k
      /\ \A i \in 2 .. Len(keys) : keys'[i] = keys[i]
  <2>1. Overwrites(keys', keys, [I |-> keys[1].I, K |-> k])
    BY <1>1, <1>3, FirstOverwritten, Zenon
  <2> QED BY <2>1 DEF Overwrites
<1>5. Rotating' /\ Steady' = Steady /\ Saved' = Saved
  BY <1>1, <1>2, <1>4 DEF Rotating, Steady, Saved, RandomK
<1>6. Shapes'
  BY <1>1, <1>2, <1>4 DEF KeysInv, Shapes, RandomK
<1>7. OnTime'
  BY <1>1, <1>2 DEF KeysInv, OnTime, RandomK
<1>8. OneKeyPerTag'
  <2>1. \A i \in Steady : keys[i].I \in Tags(keys)
    BY <1>1 DEF Tags
  <2>2. \A i, j \in Steady' : keys'[i].I = keys'[j].I => i = j
    BY <1>1, <1>4, <1>5 DEF KeysInv, OneKeyPerTag
  <2>3. main' = "I" =>
          /\ keys'[1].K \in KeyIds \ Saved'
          /\ \A i \in Steady' : keys'[i].I # keys'[1].K
          /\ cookie' # None => cookie'.I # keys'[1].K
    BY <1>1, <1>2, <1>4, <1>5, <2>1 DEF RandomK
  <2> QED BY <1>5, <2>2, <2>3 DEF KeysInv, OneKeyPerTag, RandomK
<1>9. CookiePlaced'
  BY <1>1, <1>4, <1>5 DEF KeysInv, CookiePlaced, Placed, Within, Has, RandomK
<1> QED BY <1>6, <1>7, <1>8, <1>9 DEF KeysInv

\* The new tag makes the first key one to rely on; no cookie has it yet.
LEMMA RandomIKeeps ==
  ASSUME KeysInv, RandomI
  PROVE  KeysInv'
<1>1. /\ up /\ Rotating /\ Steady = 2 .. Len(keys) /\ keys \in KeyList /\ keys # <<>> /\ keys[1] \in KeyRec
      /\ main = "I" /\ main' = "write" /\ Len(keys) \in Nat \ {0}
  BY DEF KeysInv, Shapes, RandomI, Rotating, Steady, KeyList
<1>2. /\ keys[1].K \in KeyIds \ Saved
      /\ \A i \in 2 .. Len(keys) : keys[i].I # keys[1].K
      /\ cookie # None /\ cookie.by = "main" => cookie.I # keys[1].K
  BY <1>1 DEF KeysInv, OneKeyPerTag
<1>3. /\ keys' = [keys EXCEPT ![1] = [I |-> keys[1].K, K |-> keys[1].K]]
      /\ [I |-> keys[1].K, K |-> keys[1].K] \in KeyRec
  <2>1. keys' = [keys EXCEPT ![1] = [keys[1] EXCEPT !.I = keys[1].K]]
    BY DEF RandomI
  <2>2. [keys[1] EXCEPT !.I = keys[1].K] = [I |-> keys[1].K, K |-> keys[1].K]
    BY <1>1 DEF KeyRec
  <2>3. [I |-> keys[1].K, K |-> keys[1].K] \in KeyRec
    BY <1>2 DEF KeyRec
  <2> QED BY <2>1, <2>2, <2>3, Zenon
<1>4. /\ keys' \in KeyList /\ keys' # <<>> /\ Len(keys') = Len(keys) /\ keys'[1].I = keys[1].K
      /\ \A i \in 2 .. Len(keys) : keys'[i] = keys[i]
  <2>1. Overwrites(keys', keys, [I |-> keys[1].K, K |-> keys[1].K])
    BY <1>1, <1>3, FirstOverwritten, Zenon
  <2> QED BY <2>1 DEF Overwrites
<1>5. ~Rotating' /\ Steady' = 1 .. Len(keys) /\ Saved' = Saved
  BY <1>1, <1>4 DEF Rotating, Steady, Saved, RandomI
<1>6. Shapes'
  BY <1>1, <1>4 DEF KeysInv, Shapes, RandomI
<1>7. OnTime'
  <2>1. K_time' \in Nat \ {0} /\ now - K_time' <= SecondsPerDay
    BY <1>1, AdvancedInTime DEF KeysInv, OnTime, RandomI
  <2> QED BY <1>1, <2>1 DEF KeysInv, OnTime, RandomI
<1>8. OneKeyPerTag'
  <2>1. \A i, j \in Steady' : keys'[i].I = keys'[j].I => i = j
    BY <1>1, <1>2, <1>4, <1>5 DEF KeysInv, OneKeyPerTag
  <2>2. keyfile # None => \A i \in 1 .. Len(keyfile.keys) : keyfile.keys[i].I # keys'[1].I
    BY <1>2, <1>4 DEF Saved, Tags
  <2> QED BY <1>1, <2>1, <2>2 DEF KeysInv, OneKeyPerTag, RandomI
<1>9. CookiePlaced'
  <2>1. \A i \in Steady' : i \in Steady \/ i = 1
    BY <1>1, <1>5
  <2> QED BY <1>1, <1>2, <1>4, <1>5, <2>1 DEF KeysInv, CookiePlaced, Placed, Within, Has, RandomI
<1> QED BY <1>6, <1>7, <1>8, <1>9 DEF KeysInv

\* A prefix of the list, as it is written to the file.
IsPrefixOf(f, ks, n) ==
  /\ f \in KeyList /\ Len(f) = n /\ n \in 0 .. Len(ks) /\ (n > 0 => f # <<>>)
  /\ \A i \in 1 .. n : f[i] = ks[i]
LEMMA WrittenKeys ==
  ASSUME NEW ks \in KeyList, NEW n \in 0 .. Len(ks)
  PROVE  IsPrefixOf(SubSeq(ks, 1, n), ks, n)
<1>1. ks \in Seq(KeyRec) /\ Len(ks) \in Nat /\ Len(ks) <= NTS_nKEYS
  BY DEF KeyList
<1>2. /\ SubSeq(ks, 1, n) \in Seq(KeyRec) /\ Len(SubSeq(ks, 1, n)) = n
      /\ \A i \in 1 .. n : SubSeq(ks, 1, n)[i] = ks[i]
  BY <1>1
<1> QED BY <1>1, <1>2, KeysAssumption DEF KeyList, IsPrefixOf

\* What the file may be after nts_write_cookie_keys, and what the cookie then is:
\* whether its key is saved is all that changes.
FileOf(n) ==
  /\ n \in 0 .. Len(keys)
  /\ keyfile' = [T |-> K_time, L |-> K_length, keys |-> keyfile'.keys, whole |-> keyfile'.whole]
  /\ IsPrefixOf(keyfile'.keys, keys, n)
  /\ keyfile'.whole \in BOOLEAN /\ (keyfile'.whole => n > 0)
  /\ keyfile' # None
LEMMA FilesWritten ==
  ASSUME KeysInv, main = "write", NEW n \in 0 .. Len(keys), NEW w \in BOOLEAN, w => n > 0, keyfile' = Written(n, w)
  PROVE  FileOf(n)
<1>1. keys \in KeyList /\ K_time \in Nat /\ K_length \in Nat
  BY DEF KeysInv, Shapes, OnTime
<1>2. IsPrefixOf(SubSeq(keys, 1, n), keys, n)
  BY <1>1, WrittenKeys
<1>3. keyfile' = [T |-> K_time, L |-> K_length, keys |-> SubSeq(keys, 1, n), whole |-> w]
  BY DEF Written
<1>4. SubSeq(keys, 1, n) \in Seq(KeyRec)
  BY <1>2 DEF IsPrefixOf, KeyList
<1>5. keyfile' \in [T : Nat, L : Nat, keys : Seq(KeyRec), whole : BOOLEAN]
  BY <1>1, <1>3, <1>4
<1>6. keyfile' # None
  BY <1>5, KeysAssumption, Zenon DEF KeyRec
<1>7. keyfile'.keys = SubSeq(keys, 1, n) /\ keyfile'.whole = w /\ keyfile'.T = K_time /\ keyfile'.L = K_length
  BY <1>3
<1>8. keyfile' = [T |-> K_time, L |-> K_length, keys |-> keyfile'.keys, whole |-> keyfile'.whole]
  BY <1>3, <1>7, Zenon
<1> QED BY <1>2, <1>6, <1>7, <1>8, Zenon DEF FileOf

LEMMA MarkedCookie ==
  ASSUME KeysInv, NEW b, cookie' = IF cookie = None THEN None ELSE [cookie EXCEPT !.saved = b], cookie' # None
  PROVE  /\ cookie # None
         /\ cookie'.I = cookie.I /\ cookie'.K = cookie.K /\ cookie'.by = cookie.by
         /\ cookie'.rotations = cookie.rotations /\ cookie'.saved = b
         /\ cookie' = [I |-> cookie'.I, K |-> cookie'.K, by |-> cookie'.by,
                       rotations |-> cookie'.rotations, saved |-> cookie'.saved]
<1>1. cookie # None
  OBVIOUS
<1>2. cookie' = [I |-> cookie.I, K |-> cookie.K, by |-> cookie.by, rotations |-> cookie.rotations, saved |-> b]
  BY <1>1 DEF KeysInv, Shapes
<1>3. /\ cookie'.I = cookie.I /\ cookie'.K = cookie.K /\ cookie'.by = cookie.by
      /\ cookie'.rotations = cookie.rotations /\ cookie'.saved = b
  BY <1>2
<1> QED BY <1>1, <1>2, <1>3, Zenon

\* A write that leaves the first n keys in the file.
LEMMA FileKeeps ==
  ASSUME KeysInv, main = "write", main' = "idle", NEW n, FileOf(n), NEW b \in BOOLEAN,
         cookie' = IF cookie = None THEN None ELSE [cookie EXCEPT !.saved = b],
         cookie # None /\ cookie.by = "main" /\ b /\ cookie.rotations < NTS_nKEYS
           => Has(keyfile'.keys, 1 .. n, cookie.I),
         UNCHANGED <<now, up, hour_timer, ran, K_time, K_length, keys, ke>>
  PROVE  KeysInv'
<1>1. /\ up /\ ~Rotating /\ ~Rotating' /\ Steady = 1 .. Len(keys) /\ Steady' = 1 .. Len(keys)
      /\ keys \in KeyList /\ Len(keys) \in Nat \ {0}
  BY DEF KeysInv, Shapes, Rotating, Steady, KeyList
<1>2. /\ keyfile' # None /\ keyfile'.keys \in KeyList /\ Len(keyfile'.keys) = n /\ n \in 0 .. Len(keys)
      /\ \A i \in 1 .. n : keyfile'.keys[i] = keys[i] /\ i \in Steady
      /\ keyfile'.whole \in BOOLEAN /\ (keyfile'.whole => keyfile'.keys # <<>>)
  BY <1>1 DEF FileOf, IsPrefixOf
<1>3. /\ keyfile'.T = K_time /\ keyfile'.L = K_length
      /\ keyfile' = [T |-> keyfile'.T, L |-> keyfile'.L, keys |-> keyfile'.keys, whole |-> keyfile'.whole]
  <2>1. keyfile' = [T |-> K_time, L |-> K_length, keys |-> keyfile'.keys, whole |-> keyfile'.whole]
    BY DEF FileOf
  <2>2. keyfile'.T = K_time /\ keyfile'.L = K_length
    BY <2>1
  <2> QED BY <2>1, <2>2, Zenon
<1>4. Shapes'
  <2>1. keyfile'.T \in Nat \ {0} /\ keyfile'.L \in Nat
    BY <1>1, <1>3 DEF KeysInv, Shapes, OnTime
  <2>2. cookie' # None =>
          cookie' = [I |-> cookie'.I, K |-> cookie'.K, by |-> cookie'.by,
                     rotations |-> cookie'.rotations, saved |-> cookie'.saved]
    BY MarkedCookie
  <2> QED BY <1>1, <1>2, <1>3, <2>1, <2>2 DEF KeysInv, Shapes
<1>5. OnTime'
  BY <1>1, KeysAssumption DEF KeysInv, OnTime
<1>6. OneKeyPerTag'
  <2>1. \A i, j \in 1 .. n : keyfile'.keys[i].I = keyfile'.keys[j].I => i = j
    BY <1>1, <1>2 DEF KeysInv, OneKeyPerTag
  <2>2. \A i \in 1 .. n : keyfile'.keys[i].I = keys[1].I => i = 1 /\ keyfile'.keys[i] = keys[1]
    BY <1>1, <1>2 DEF KeysInv, OneKeyPerTag
  <2> QED BY <1>1, <1>2, <2>1, <2>2 DEF KeysInv, OneKeyPerTag
<1>7. CookiePlaced'
  <2> SUFFICES ASSUME cookie' # None, cookie'.by = "main" PROVE CookiePlaced'
    BY DEF CookiePlaced
  <2>1. /\ cookie # None /\ cookie.by = "main"
        /\ cookie'.I = cookie.I /\ cookie'.K = cookie.K /\ cookie'.rotations = cookie.rotations
        /\ cookie'.saved = b
    BY MarkedCookie
  <2>2. cookie.rotations \in Nat /\ Placed(keys, Steady) /\ K_length \in ValidLengths
    BY <1>1, <2>1 DEF KeysInv, CookiePlaced
  <2>3. Placed(keys, Steady)' /\ Placed(keyfile.keys, 1 .. Len(keyfile.keys))'
    BY <1>1, <1>2, <2>1, <2>2 DEF Placed, Within
  <2>4. cookie'.saved /\ cookie'.rotations < NTS_nKEYS => Has(keyfile'.keys, 1 .. n, cookie.I)
    BY <2>1
  <2>5. Has(keyfile'.keys, 1 .. n, cookie.I) => cookie.I \in Saved' /\ Has(keys, Steady, cookie.I)
    BY <1>2 DEF Has, Saved, Tags
  <2>6. cookie'.rotations \in Nat /\ cookie'.saved \in BOOLEAN
    BY <2>1, <2>2
  <2> QED BY <1>1, <1>3, <2>1, <2>2, <2>3, <2>4, <2>5, <2>6 DEF CookiePlaced, Has
<1> QED BY <1>4, <1>5, <1>6, <1>7 DEF KeysInv

LEMMA WriteKeeps ==
  ASSUME KeysInv, nts_write_cookie_keys
  PROVE  KeysInv'
<1> DEFINE Marked(b) == IF cookie = None THEN None ELSE [cookie EXCEPT !.saved = b]
<1>1. /\ main = "write" /\ main' = "idle" /\ up /\ ~Rotating /\ Steady = 1 .. Len(keys) /\ Steady' = 1 .. Len(keys)
      /\ Len(keys) \in Nat \ {0} /\ UNCHANGED <<now, up, hour_timer, ran, K_time, K_length, keys, ke>>
  BY DEF KeysInv, Shapes, Rotating, Steady, KeyList, nts_write_cookie_keys
<1>2. CASE keyfile' = Written(Len(keys), TRUE) /\ cookie' = Marked(cookie.saved \/ cookie.I \in Tags(keys))
  <2>1. FileOf(Len(keys))
    <3>1. PICK w \in BOOLEAN : w = TRUE
      BY Zenon
    <3>2. keyfile' = Written(Len(keys), w) /\ Len(keys) \in 0 .. Len(keys) /\ (w => Len(keys) > 0)
      BY <1>1, <1>2, <3>1
    <3> QED BY <1>1, <3>2, FilesWritten, Zenon
  <2>2. Tags(keys) = Tags(keyfile'.keys) /\ \A i \in 1 .. Len(keys) : keyfile'.keys[i] = keys[i]
    BY <2>1 DEF FileOf, IsPrefixOf, Tags
  <2>3. ASSUME cookie # None, cookie.by = "main", cookie.saved \/ cookie.I \in Tags(keys), cookie.rotations < NTS_nKEYS
        PROVE  Has(keyfile'.keys, 1 .. Len(keys), cookie.I)
    BY <1>1, <2>2, <2>3 DEF KeysInv, CookiePlaced, Has, Tags
  <2>4. PICK b \in BOOLEAN : b = (cookie.saved \/ cookie.I \in Tags(keys))
    BY Zenon
  <2> QED BY <1>1, <1>2, <2>1, <2>3, <2>4, FileKeeps, Zenon
<1>3. CASE keyfile' \in CutShort /\ keyfile' # None /\ cookie' = Marked(cookie.I \in Saved')
  <2>1. PICK n \in 0 .. Len(keys), w \in BOOLEAN : (w => n > 0) /\ keyfile' = Written(n, w)
    <3>1. CASE keyfile' \in {Written(n, FALSE) : n \in 0 .. Len(keys)}
      BY <3>1, Zenon
    <3>2. CASE keyfile' \in {Written(n, TRUE) : n \in 1 .. Len(keys)}
      <4>1. PICK n \in 1 .. Len(keys) : keyfile' = Written(n, TRUE)
        BY <3>2, Zenon
      <4>2. n \in 0 .. Len(keys) /\ n > 0
        BY <1>1, <4>1
      <4> QED BY <4>1, <4>2, Zenon
    <3> QED BY <1>3, <3>1, <3>2, Zenon DEF CutShort
  <2>2. FileOf(n)
    BY <1>1, <2>1, FilesWritten
  <2>3. cookie.I \in Saved' => Has(keyfile'.keys, 1 .. n, cookie.I)
    BY <1>3, <2>2 DEF FileOf, IsPrefixOf, Saved, Tags, Has
  <2>4. PICK b \in BOOLEAN : b = (cookie.I \in Saved')
    <3>1. CASE cookie.I \in Saved'
      <4>1. TRUE = (cookie.I \in Saved')
        BY <3>1
      <4> QED BY <4>1, Zenon
    <3>2. CASE cookie.I \notin Saved'
      <4>1. FALSE = (cookie.I \in Saved')
        BY <3>2
      <4> QED BY <4>1, Zenon
    <3> QED BY <3>1, <3>2, Zenon
  <2> QED BY <1>1, <1>3, <2>2, <2>3, <2>4, FileKeeps, Zenon
<1>4. CASE keyfile' = None /\ cookie' = Marked(cookie.I \in Saved')
  <2>1. Saved' = {} /\ ~Rotating' /\ main' # "I" /\ Steady' = Steady
    BY <1>1, <1>4 DEF Saved, Rotating
  <2>2. cookie' # None =>
          /\ cookie # None /\ cookie'.I = cookie.I /\ cookie'.K = cookie.K /\ cookie'.by = cookie.by
          /\ cookie'.rotations = cookie.rotations /\ cookie'.saved = FALSE
          /\ cookie' = [I |-> cookie'.I, K |-> cookie'.K, by |-> cookie'.by,
                        rotations |-> cookie'.rotations, saved |-> cookie'.saved]
    <3>1. (cookie.I \in Saved') = FALSE
      BY <2>1
    <3> QED BY <1>4, <3>1, MarkedCookie, Zenon
  <2>3. Shapes'
    BY <1>1, <1>4, <2>2 DEF KeysInv, Shapes
  <2>4. OnTime'
    BY <1>1, KeysAssumption DEF KeysInv, OnTime
  <2>5. OneKeyPerTag'
    BY <1>1, <1>4, <2>1 DEF KeysInv, OneKeyPerTag
  <2>6. CookiePlaced'
    BY <1>1, <1>4, <2>1, <2>2, Zenon DEF KeysInv, CookiePlaced, Placed, Within
  <2> QED BY <2>3, <2>4, <2>5, <2>6 DEF KeysInv
<1>5. CASE UNCHANGED <<keyfile, cookie>>
  <2>1. Shapes'
    BY <1>1, <1>5 DEF KeysInv, Shapes
  <2>2. OnTime'
    BY <1>1, KeysAssumption DEF KeysInv, OnTime
  <2> QED BY <1>1, <1>5, <2>1, <2>2, QuietKeeps
<1> QED BY <1>2, <1>3, <1>4, <1>5, Zenon DEF nts_write_cookie_keys, Marked

\* What nts_cookie_init2 starts from: the keys of the file, when it could read
\* any, and otherwise none.
LEMMA FileRead ==
  ASSUME KeysInv, ~up
  PROVE  LET r == nts_read_cookie_keys IN
         /\ r.ok \in BOOLEAN /\ r.L \in Nat /\ r.keys \in KeyList
         /\ \/ r.keys = <<>> /\ (keyfile = None \/ keyfile.L \notin ValidLengths)
            \/ keyfile # None /\ r.keys = keyfile.keys
         /\ keyfile = None => r.L = 32
         /\ keyfile # None => r.L = keyfile.L
         /\ r.ok => keyfile # None /\ r.keys # <<>> /\ r.keys = keyfile.keys /\ r.T = keyfile.T
<1>0. keys = <<>> /\ K_length = 32 /\ keys \in KeyList
  BY DEF KeysInv, Shapes
<1>1. CASE keyfile = None
  BY <1>0, <1>1 DEF nts_read_cookie_keys
<1>2. CASE keyfile # None /\ keyfile.L \notin ValidLengths
  BY <1>0, <1>2 DEF nts_read_cookie_keys, KeysInv, Shapes
<1>3. CASE keyfile # None /\ keyfile.L \in ValidLengths
  <2>1. nts_read_cookie_keys = [ok |-> keyfile.whole, T |-> keyfile.T, L |-> keyfile.L, keys |-> keyfile.keys]
    BY <1>3 DEF nts_read_cookie_keys
  <2>2. /\ keyfile.whole \in BOOLEAN /\ keyfile.L \in Nat /\ keyfile.keys \in KeyList
        /\ (keyfile.whole => keyfile.keys # <<>>)
    BY <1>3 DEF KeysInv, Shapes
  <2> QED BY <1>3, <2>1, <2>2
<1> QED BY <1>1, <1>2, <1>3

\* ntpd starts with the keys of the file,
LEMMA StartKeeps ==
  ASSUME KeysInv, nts_cookie_init2, nts_read_cookie_keys.ok
  PROVE  KeysInv'
<1> DEFINE r == nts_read_cookie_keys
<1>1. /\ ~up /\ up' /\ up' = TRUE /\ main' = "idle" /\ ran' = FALSE /\ hour_timer' = now + Hour
      /\ K_length' = r.L /\ K_time' = r.T /\ keys' = r.keys /\ UNCHANGED <<now, keyfile, ke, cookie>>
  BY Zenon DEF nts_cookie_init2
<1>2. /\ keyfile # None /\ keys' = keyfile.keys /\ K_time' = keyfile.T /\ K_length' = keyfile.L
      /\ keys' # <<>>
  BY <1>1, FileRead
<1>3. keyfile.T \in Nat \ {0} /\ keyfile.L \in Nat /\ keyfile.keys \in KeyList
  BY <1>2 DEF KeysInv, Shapes
<1> HIDE DEF r
<1>4. ~Rotating' /\ Steady' = 1 .. Len(keyfile.keys) /\ Saved' = Saved /\ Saved = Tags(keyfile.keys)
  BY <1>1, <1>2 DEF Rotating, Steady, Saved
<1>5. Shapes'
  BY <1>1, <1>2, <1>3, Zenon DEF KeysInv, Shapes
<1>6. OnTime'
  BY <1>1, <1>2, <1>3, KeysAssumption DEF KeysInv, OnTime
<1>7. OneKeyPerTag'
  BY <1>1, <1>2, <1>3, <1>4 DEF KeysInv, OneKeyPerTag, KeyList
<1>8. CookiePlaced'
  BY <1>1, <1>2, <1>4 DEF KeysInv, CookiePlaced, Placed, Within, Has, Tags
<1> QED BY <1>5, <1>6, <1>7, <1>8 DEF KeysInv

\* or with a new key in front of those it could read.
LEMMA RestartKeeps ==
  ASSUME KeysInv, nts_cookie_init2, ~nts_read_cookie_keys.ok
  PROVE  KeysInv'
<1> DEFINE r == nts_read_cookie_keys
           k == [I |-> Fresh, K |-> Fresh]
<1>1. /\ ~up /\ up' = TRUE /\ main' = "write" /\ ran' = FALSE /\ hour_timer' = now + Hour
      /\ K_length' = r.L /\ K_time' = now /\ keys' = Pushed(r.keys, k) /\ UNCHANGED <<now, keyfile, ke>>
      /\ cookie' = Rotated /\ FreshKeyIds # {}
  BY Zenon DEF nts_cookie_init2
<1>2. /\ r.L \in Nat /\ r.keys \in KeyList
      /\ \/ r.keys = <<>> /\ (keyfile = None \/ keyfile.L \notin ValidLengths)
         \/ keyfile # None /\ r.keys = keyfile.keys
      /\ keyfile = None => r.L = 32
      /\ keyfile # None => r.L = keyfile.L
  BY <1>1, FileRead
<1> HIDE DEF r
<1>3. /\ k \in KeyRec /\ k.I = Fresh /\ Fresh \notin Saved /\ (cookie # None => cookie.I # Fresh)
  BY <1>1, FreshKey DEF KeyRec
<1> HIDE DEF k
<1>4. IsPushed(keys', r.keys, k)
  BY <1>1, <1>2, <1>3, PushedKeys
<1>5. /\ keys' \in KeyList /\ keys' # <<>> /\ keys'[1] = k
      /\ \A i \in 2 .. Len(keys') : keys'[i] = r.keys[i - 1] /\ i - 1 \in 1 .. Len(r.keys)
      /\ Len(keys') \in Nat \ {0}
  BY <1>4 DEF IsPushed, KeyList
<1>6. ~Rotating' /\ Steady' = 1 .. Len(keys') /\ Saved' = Saved
  BY <1>1 DEF Rotating, Steady, Saved
<1>7. \A i \in 1 .. Len(r.keys) : keyfile # None /\ i \in 1 .. Len(keyfile.keys) /\ r.keys[i] = keyfile.keys[i]
  BY <1>2
<1>8. keyfile # None => \A i \in 1 .. Len(keyfile.keys) : keyfile.keys[i].I # Fresh
  BY <1>3 DEF Saved, Tags
<1>9. Shapes'
  <2>1. cookie' # None =>
          cookie' = [I |-> cookie'.I, K |-> cookie'.K, by |-> cookie'.by,
                     rotations |-> cookie'.rotations, saved |-> cookie'.saved]
    BY <1>1, RotatedCookie
  <2> QED BY <1>1, <1>2, <1>5, <2>1, Zenon DEF KeysInv, Shapes
<1>10. OnTime'
  BY <1>1, KeysAssumption DEF KeysInv, OnTime
<1>11. OneKeyPerTag'
  <2>1. ASSUME NEW i \in 1 .. Len(keys'), NEW j \in 1 .. Len(keys'), keys'[i].I = keys'[j].I
        PROVE  i = j
    <3>1. \A m \in 2 .. Len(keys') : keys'[m].I # Fresh
      BY <1>5, <1>7, <1>8, Zenon
    <3>2. i = 1 \/ i \in 2 .. Len(keys')
      BY <1>5
    <3>3. j = 1 \/ j \in 2 .. Len(keys')
      BY <1>5
    <3>4. CASE i = 1 \/ j = 1
      BY <1>3, <1>5, <2>1, <3>1, <3>2, <3>3, <3>4
    <3>5. CASE i \in 2 .. Len(keys') /\ j \in 2 .. Len(keys')
      <4>1. /\ i - 1 \in 1 .. Len(keyfile.keys) /\ keys'[i] = keyfile.keys[i - 1]
            /\ j - 1 \in 1 .. Len(keyfile.keys) /\ keys'[j] = keyfile.keys[j - 1] /\ keyfile # None
        BY <1>5, <1>7, <3>5, Zenon
      <4>2. i - 1 = j - 1
        BY <2>1, <4>1 DEF KeysInv, OneKeyPerTag
      <4> QED BY <4>2
    <3> QED BY <3>2, <3>3, <3>4, <3>5
  <2>2. keyfile # None => \A i \in 1 .. Len(keyfile.keys) : keyfile.keys[i].I # keys'[1].I
    BY <1>3, <1>5, <1>8
  <2> QED BY <1>1, <1>6, <2>1, <2>2, Zenon DEF KeysInv, OneKeyPerTag
<1>12. CookiePlaced'
  <2> SUFFICES ASSUME cookie' # None, cookie'.by = "main" PROVE CookiePlaced'
    BY DEF CookiePlaced
  <2>1. /\ cookie # None /\ cookie.by = "main" /\ cookie.rotations \in Nat /\ cookie.saved \in BOOLEAN
        /\ cookie'.I = cookie.I /\ cookie'.K = cookie.K /\ cookie'.saved = cookie.saved
        /\ cookie'.rotations \in Nat /\ OneMore(cookie.rotations, cookie'.rotations)
    BY <1>1, RotatedCookie DEF KeysInv, CookiePlaced
  <2>2. keyfile # None => Within(keyfile.keys, 1 .. Len(keyfile.keys), cookie, cookie.rotations) /\ keyfile.L \in ValidLengths
    BY <2>1 DEF KeysInv, CookiePlaced, Placed
  <2>3. Within(r.keys, 1 .. Len(r.keys), cookie, cookie.rotations)
    BY <1>7, <2>2 DEF Within
  <2>4. /\ Within(keys', 2 .. Len(keys'), cookie, cookie'.rotations)
        /\ cookie'.rotations < NTS_nKEYS /\ Has(r.keys, 1 .. Len(r.keys), cookie.I)
             => Has(keys', 2 .. Len(keys'), cookie.I)
    BY <1>2, <1>4, <2>1, <2>3, PushedPlaces
  <2>5. Placed(keys, Steady)'
    <3>1. ASSUME NEW i \in 1 .. Len(keys'), keys'[i].I = cookie.I PROVE i \in 2 .. Len(keys')
      BY <1>3, <1>5, <2>1, <3>1
    <3> QED BY <1>6, <2>1, <2>4, <3>1 DEF Placed, Within
  <2>6. keyfile' # None => Placed(keyfile.keys, 1 .. Len(keyfile.keys))' /\ keyfile'.L \in ValidLengths
    BY <1>1, <2>1, <2>2, KeysAssumption DEF Placed, Within, OneMore
  <2>7. K_length' \in ValidLengths
    BY <1>1, <1>2, <2>2 DEF ValidLengths
  <2>8. cookie.saved /\ cookie'.rotations < NTS_nKEYS => cookie.I \in Saved
    BY <2>1, KeysAssumption DEF KeysInv, CookiePlaced, OneMore
  <2>9. cookie.I \in Saved => Has(r.keys, 1 .. Len(r.keys), cookie.I)
    BY <1>2, <2>2 DEF Saved, Tags, Has
  <2>10. Has(keys', 2 .. Len(keys'), cookie.I) => Has(keys', 1 .. Len(keys'), cookie.I)
    BY DEF Has
  <2> QED BY <1>6, <2>1, <2>4, <2>5, <2>6, <2>7, <2>8, <2>9, <2>10 DEF CookiePlaced
<1> QED BY <1>9, <1>10, <1>11, <1>12 DEF KeysInv

LEMMA NextKeysInv ==
  ASSUME KeysInv, [KeysNext]_keyvars
  PROVE  KeysInv'
<1>1. CASE UNCHANGED keyvars
  <2>1. Shapes' /\ OnTime'
    BY <1>1 DEF keyvars, KeysInv, Shapes, OnTime
  <2> QED BY <1>1, <2>1, QuietKeeps DEF keyvars
<1>2. CASE nts_cookie_init2
  BY <1>2, StartKeeps, RestartKeeps
<1>3. CASE ShiftKeys \/ RandomK \/ RandomI \/ nts_write_cookie_keys
  BY <1>3, ShiftKeeps, RandomKKeeps, RandomIKeeps, WriteKeeps
<1>4. CASE EncryptFails \/ Killed
  BY <1>4, StoppedKeeps DEF EncryptFails, Killed
<1>5. CASE Tick \/ nts_cookie_timer \/ MainMakesCookie \/ KeCopiesTag \/ KeEncrypts \/ Forget
  BY <1>5, TickKeeps, TimerKeeps, MainMakesKeeps, OthersKeep
<1> QED BY <1>1, <1>2, <1>3, <1>4, <1>5 DEF KeysNext

\* The key of a cookie is where the invariant places it, and no other key has its tag.
LEMMA ServedFromInv ==
  ASSUME KeysInv
  PROVE  KeysServed
<1>1. OldCookiesUnpack
  <2> SUFFICES ASSUME up, main = "idle", cookie # None, cookie.by = "main", cookie.saved, cookie.rotations < NTS_nKEYS
               PROVE  Unpacks(cookie)
    BY DEF OldCookiesUnpack
  <2>1. Steady = 1 .. Len(keys) /\ Len(keys) \in Nat
    BY DEF KeysInv, Shapes, Steady, Rotating, KeyList
  <2>2. PICK i \in 1 .. Len(keys) : keys[i].I = cookie.I
    BY <2>1 DEF KeysInv, CookiePlaced, Has
  <2>3. keys[i].K = cookie.K
    BY <2>1, <2>2 DEF KeysInv, CookiePlaced, Placed, Within
  <2>4. \A j \in 1 .. i - 1 : keys[j].I # cookie.I
    BY <2>1, <2>2 DEF KeysInv, OneKeyPerTag
  <2> QED BY <2>2, <2>3, <2>4 DEF Unpacks
<1>2. KeyRotatedInTime
  BY KeysAssumption DEF KeysInv, OnTime, KeyRotatedInTime
<1> QED BY <1>1, <1>2 DEF KeysServed

\* However long the key list, the day and the hour of nts_cookie_timer, and
\* whatever crashes, restarts, failed writes and files cut short come between, a
\* cookie of the main thread whose key was saved unpacks until NTS_nKEYS new keys
\* were made, and no key is in use for more than a day and a timer period.
THEOREM KeysStayServed == KeysSpec => []KeysServed
<1>1. KeysInit => KeysInv
  BY InitKeysInv
<1>2. KeysInv /\ [KeysNext]_keyvars => KeysInv'
  BY NextKeysInv
<1>3. KeysInv => KeysServed
  BY ServedFromInv
<1> QED BY <1>1, <1>2, <1>3, PTL DEF KeysSpec
=============================================================================
