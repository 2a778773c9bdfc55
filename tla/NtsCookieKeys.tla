--------------------------- MODULE NtsCookieKeys ---------------------------
(***************************************************************************)
(* The cookie keys of an NTS server: the list nts_keys, its daily rotation *)
(* by nts_cookie_timer, the file that carries it over a restart, and the   *)
(* NTS-KE threads that make cookies from it without a lock while the main  *)
(* thread rotates it.  The process may crash between any two steps.        *)
(***************************************************************************)
EXTENDS Integers, Sequences

CONSTANTS
  NTS_nKEYS,      \* keys kept
  SecondsPerDay,  \* a day, in ticks
  Hour,           \* the period of nts_timer, in ticks
  KeyIds,         \* names of random keys and of their random tags
  Torn,           \* a key read while it is being overwritten
  None,           \* no file, no cookie
  Crashes,        \* whether the process may crash
  MaxTime         \* bound: ticks

ASSUME KeysAssumption ==
  /\ NTS_nKEYS \in Nat \ {0} /\ SecondsPerDay \in Nat \ {0} /\ Hour \in Nat \ {0} /\ MaxTime \in Nat /\ KeyIds # {}
  /\ None \notin [T : Nat, L : Nat, keys : Seq([I : KeyIds, K : KeyIds \cup {Torn}]), whole : BOOLEAN]

VARIABLES
  now,         \* time(NULL)
  up,          \* ntpd is running
  main,        \* where the main thread is in nts_cookie_timer
  hour_timer,  \* when timer() calls nts_timer next
  ran,         \* nts_cookie_timer has run since ntpd started
  K_time,      \* when the current key was due, 0 for none
  K_length,    \* key length in use
  keys,        \* nts_keys[0 .. nts_nKeys-1], newest first
  keyfile,     \* the cookie key file
  ke,          \* the tag an NTS-KE thread has read in nts_make_cookie, or None
  cookie       \* a cookie some client holds, with its history

keyvars == <<now, up, main, hour_timer, ran, K_time, K_length, keys, keyfile, ke, cookie>>

ValidLengths == {32, 48, 64}

Tags(ks) == {ks[i].I : i \in 1 .. Len(ks)}
Saved == IF keyfile = None THEN {} ELSE Tags(keyfile.keys)
FreshKeyIds == KeyIds \ (Tags(keys) \cup Saved
                         \cup (IF cookie = None THEN {} ELSE {cookie.I}) \cup {ke})
Fresh == CHOOSE k \in FreshKeyIds : TRUE

-----------------------------------------------------------------------------
\* nts_unpack_cookie: the first key with the cookie's tag must open it.
Unpacks(c) ==
  \E i \in 1 .. Len(keys) :
    /\ keys[i].I = c.I /\ keys[i].K = c.K
    /\ \A j \in 1 .. i - 1 : keys[j].I # c.I

\* nts_make_cookie_key: shift, dropping the last key of a full list.
Pushed(ks, k) ==
  LET new == <<k>> \o ks
  IN  SubSeq(new, 1, IF Len(new) <= NTS_nKEYS THEN Len(new) ELSE NTS_nKEYS)

\* The client's cookie one nts_make_cookie_key later; no more need be counted than
\* push its key out.
Rotated ==
  IF cookie = None \/ cookie.rotations = NTS_nKEYS THEN cookie ELSE [cookie EXCEPT !.rotations = @ + 1]

\* The loop of nts_cookie_timer that brings K_time to within a day of now.
Advanced(t) ==
  CHOOSE u \in {t + n * SecondsPerDay : n \in 0 .. MaxTime} :
    /\ ~(SecondsPerDay < now - u)
    /\ u = t \/ SecondsPerDay < now - (u - SecondsPerDay)

\* nts_read_cookie_keys: what it returns and what it leaves in K_time,
\* K_length and nts_keys, also when it fails half way.
nts_read_cookie_keys ==
  IF keyfile = None
  THEN [ok |-> FALSE, T |-> K_time, L |-> K_length, keys |-> keys]
  ELSE IF keyfile.L \notin ValidLengths
  THEN [ok |-> FALSE, T |-> keyfile.T, L |-> keyfile.L, keys |-> keys]
  ELSE [ok |-> keyfile.whole, T |-> keyfile.T, L |-> keyfile.L, keys |-> keyfile.keys]

-----------------------------------------------------------------------------
\* The file may be missing, written by ntpd, cut short or edited by hand.
KeysInit ==
  /\ now = 1 /\ up = FALSE /\ main = "idle" /\ hour_timer = 0 /\ ran = FALSE
  /\ K_time = 0 /\ K_length = 32 /\ keys = <<>>
  /\ \E k \in {CHOOSE k \in KeyIds : TRUE} :
       keyfile \in {None}
             \cup {[T |-> 1, L |-> 48, keys |-> <<[I |-> k, K |-> k]>>, whole |-> w] :
                     w \in BOOLEAN}
             \cup {[T |-> 1, L |-> 40, keys |-> <<[I |-> k, K |-> k]>>, whole |-> TRUE]}
  /\ ke = None /\ cookie = None

\* ntpd starts: nts_cookie_init2 reads the file or makes the first key.
nts_cookie_init2 ==
  LET r == nts_read_cookie_keys IN
  /\ ~up
  /\ up' = TRUE
  /\ hour_timer' = now + Hour
  /\ ran' = FALSE
  /\ K_length' = r.L
  /\ IF r.ok
     THEN /\ K_time' = r.T /\ keys' = r.keys /\ main' = "idle"
     ELSE /\ FreshKeyIds # {}
          /\ K_time' = now /\ keys' = Pushed(r.keys, [I |-> Fresh, K |-> Fresh])
          /\ main' = "write"
  /\ cookie' = IF r.ok THEN cookie ELSE Rotated
  /\ UNCHANGED <<now, keyfile, ke>>

\* A tick while ntpd is down, or between two timer calls.
Tick ==
  /\ now < MaxTime
  /\ up => main = "idle" /\ now < hour_timer
  /\ now' = now + 1
  /\ UNCHANGED <<up, main, hour_timer, ran, K_time, K_length, keys, keyfile, ke, cookie>>

\* nts_timer, every hour: is a new key due?
nts_cookie_timer ==
  /\ up /\ main = "idle" /\ hour_timer <= now
  /\ hour_timer' = hour_timer + Hour
  /\ ran' = TRUE
  /\ main' = IF K_time = 0 \/ SecondsPerDay > now - K_time THEN "idle" ELSE "shift"
  /\ UNCHANGED <<now, up, K_time, K_length, keys, keyfile, ke, cookie>>

\* Mutant: the list is one key shorter than the array.
ShiftKeys_ShortList ==
  /\ main = "shift"
  /\ keys' = IF Len(keys) + 1 < NTS_nKEYS THEN Pushed(keys, Head(keys))
             ELSE SubSeq(Pushed(keys, Head(keys)), 1, NTS_nKEYS - 1)
  /\ main' = "K"
  /\ cookie' = Rotated
  /\ UNCHANGED <<now, up, hour_timer, ran, K_time, K_length, keyfile, ke>>

\* nts_make_cookie_key in nts_cookie_timer: the shift, which leaves the
\* current key in place,
ShiftKeys ==
  /\ main = "shift"
  /\ keys' = Pushed(keys, Head(keys))
  /\ main' = "K"
  /\ cookie' = Rotated
  /\ UNCHANGED <<now, up, hour_timer, ran, K_time, K_length, keyfile, ke>>

\* the new random key, which another thread may see half written,
RandomK ==
  /\ main = "K"
  /\ \/ /\ keys[1].K # Torn
        /\ keys' = [keys EXCEPT ![1].K = Torn]
        /\ UNCHANGED main
     \/ /\ keys[1].K = Torn
        /\ FreshKeyIds # {}
        /\ keys' = [keys EXCEPT ![1].K = Fresh]
        /\ main' = "I"
  /\ UNCHANGED <<now, up, hour_timer, ran, K_time, K_length, keyfile, ke, cookie>>

\* its tag, and the new K_time.
RandomI ==
  /\ main = "I"
  /\ keys' = [keys EXCEPT ![1].I = keys[1].K]
  /\ K_time' = Advanced(K_time)
  /\ main' = "write"
  /\ UNCHANGED <<now, up, hour_timer, ran, K_length, keyfile, ke, cookie>>

\* nts_write_cookie_keys: a temporary file is written and renamed.  An error of
\* open or rename leaves the file alone; those of fprintf and fclose go unnoticed,
\* so a full disk cuts the file short: some keys are left, which read back with or
\* without an error, or not even the key length.
Written(n, whole) == [T |-> K_time, L |-> K_length, keys |-> SubSeq(keys, 1, n), whole |-> whole]
CutShort ==
  {None} \cup {Written(n, FALSE) : n \in 0 .. Len(keys)} \cup {Written(n, TRUE) : n \in 1 .. Len(keys)}
nts_write_cookie_keys ==
  /\ main = "write"
  /\ main' = "idle"
  /\ \/ /\ keyfile' = Written(Len(keys), TRUE)
        /\ cookie' = IF cookie = None THEN None
                     ELSE [cookie EXCEPT !.saved = @ \/ cookie.I \in Tags(keys)]
     \/ /\ keyfile' \in CutShort
        /\ cookie' = IF cookie = None THEN None ELSE [cookie EXCEPT !.saved = cookie.I \in Saved']
     \/ UNCHANGED <<keyfile, cookie>>
  /\ UNCHANGED <<now, up, hour_timer, ran, K_time, K_length, keys, ke>>

\* nts_make_cookie in the main thread, for a reply of extens_server_send.
MainMakesCookie ==
  /\ up /\ main = "idle" /\ cookie = None /\ K_length \in ValidLengths
  /\ cookie' = [I |-> keys[1].I, K |-> keys[1].K, by |-> "main",
                rotations |-> 0, saved |-> keys[1].I \in Saved]
  /\ UNCHANGED <<now, up, main, hour_timer, ran, K_time, K_length, keys, keyfile, ke>>

\* nts_make_cookie in an NTS-KE thread: the tag is copied into the cookie,
KeCopiesTag ==
  /\ up /\ ke = None /\ cookie = None
  /\ ke' = keys[1].I
  /\ UNCHANGED <<now, up, main, hour_timer, ran, K_time, K_length, keys, keyfile, cookie>>

\* then cookie_lock is taken and the cookie encrypted with the current key.
KeEncrypts ==
  /\ ke # None /\ K_length \in ValidLengths
  /\ ke' = None
  /\ cookie' = [I |-> ke, K |-> keys[1].K, by |-> "ke",
                rotations |-> 0, saved |-> FALSE]
  /\ UNCHANGED <<now, up, main, hour_timer, ran, K_time, K_length, keys, keyfile>>

\* The client uses up or loses its cookie.
Forget ==
  /\ cookie # None
  /\ cookie' = None
  /\ UNCHANGED <<now, up, main, hour_timer, ran, K_time, K_length, keys, keyfile, ke>>

\* The process ends: memory is lost, the file stays.
Stopped ==
  /\ up' = FALSE /\ main' = "idle" /\ ran' = FALSE
  /\ K_time' = 0 /\ K_length' = 32 /\ keys' = <<>>
  /\ ke' = None
  /\ UNCHANGED <<now, hour_timer, keyfile, cookie>>

\* nts_make_cookie exits when the cipher rejects the key length.
EncryptFails ==
  /\ up /\ K_length \notin ValidLengths
  /\ (main = "idle" \/ ke # None)
  /\ Stopped

\* A crash, in the middle of a rotation or of a write at worst.
Killed == up /\ Crashes /\ Stopped

KeysNext ==
  \/ nts_cookie_init2 \/ Tick \/ nts_cookie_timer \/ ShiftKeys \/ RandomK \/ RandomI
  \/ nts_write_cookie_keys \/ MainMakesCookie \/ KeCopiesTag \/ KeEncrypts
  \/ Forget \/ EncryptFails \/ Killed

KeysSpec == KeysInit /\ [][KeysNext]_keyvars

-----------------------------------------------------------------------------
\* A cookie made by the main thread unpacks until its key has been pushed out
\* by NTS_nKEYS rotations, whatever crashes, restarts and failed writes come in
\* between, provided its key reached the file and no full disk cut it off.
OldCookiesUnpack ==
  /\ up /\ main = "idle"
  /\ cookie # None
  /\ cookie.by = "main" /\ cookie.saved /\ cookie.rotations < NTS_nKEYS
  => Unpacks(cookie)

\* Once nts_cookie_timer has run, the current key is never in use for more
\* than a day and one timer period, even after ntpd was off for many days.
KeyRotatedInTime ==
  up /\ main = "idle" /\ ran => now - K_time <= SecondsPerDay + Hour

\* Over rotations, crashes, restarts and failed writes of nts_cookie_timer and
\* nts_write_cookie_keys, cookies stay readable for as long as the key list is
\* meant to last, and no key is in use for longer than it is meant to be.
KeysServed == OldCookiesUnpack /\ KeyRotatedInTime

\* tests/ntpd/nts_cookie.c: a cookie from nts_make_cookie unpacks with the key
\* list it was made from.
FreshCookieUnpacks ==
  up /\ main = "idle" /\ cookie # None /\ cookie.rotations = 0 => Unpacks(cookie)
=============================================================================
