-------------------------- MODULE SideBySideProofs --------------------------
(***************************************************************************)
(* The status, the client and the board each keep their promise for any    *)
(* number of threads, keys and issues; and what is proved of a component   *)
(* alone holds of the six side by side.                                    *)
(***************************************************************************)
EXTENDS SideBySide, AuthSessionProofs, InvoiceMoneyProofs, NotificationsProofs, TLAPS

-----------------------------------------------------------------------------
(***************************************************************************)
(* The KSeF client.  A call to which nothing was done meanwhile, and that  *)
(* ought to have the current key, meets only the current key in the cache: *)
(* one for the token that found no replaced one, or the second attempt of  *)
(* a send, which has emptied the cache itself.                             *)
(***************************************************************************)
Untouched(c) == ~c.rotated /\ c.crossed = {}

Expects(c) ==
  /\ Untouched(c)
  /\ c.key = "token" => ~c.outdated /\ ~c.retried
  /\ c.key = "session" => c.retried

Keying == {"keying", "confirming", "taking", "pairing", "fetching", "storing", "naming"}

AttemptsTold(u) ==
  LET c == call[u] IN
  /\ c.at \in {"emptying", "unnaming"} => c.retried
  /\ c.key = "token" /\ c.retried => c.at \in {"emptying", "unnaming"}
  /\ c.at = "working" => c.key = "token"

CacheRight(u) ==
  LET c == call[u] IN
  /\ c.at \in Keying /\ Expects(c) =>
       UpToDate(cache[c.key].der, c.key) /\ UpToDate(cache[c.key].id, c.key)
  /\ c.at = "unnaming" /\ c.key = "session" /\ Untouched(c) => UpToDate(cache[c.key].der, c.key)

PairRight(u) ==
  LET c == call[u] IN
  /\ c.at \in {"storing", "naming"} =>
       /\ c.pair.der # NoKey /\ c.pair.id # NoKey
       /\ c.rotated \/ c.pair = PairOf(current[c.key])
  /\ c.at \in {"pairing", "asking"} /\ Expects(c) => UpToDate(c.pair.der, c.key)
  /\ c.at = "asking" /\ Expects(c) => UpToDate(c.pair.id, c.key)

\* What a call has seen in the cache goes away only when another empties it.
NothingVanishes(u) ==
  LET c == call[u] IN
  "emptied" \notin c.crossed =>
    /\ c.at \in {"confirming", "taking"} => cache[c.key].der # NoKey
    /\ c.at \in {"taking", "pairing"} => cache[c.key].id # NoKey
    /\ c.at \in {"pairing", "asking"} => c.pair.der # NoKey
    /\ c.at = "asking" => c.pair.id # NoKey

Explained(u) ==
  LET c == call[u] IN
  /\ c.at = "refused" => c.rotated \/ c.crossed # {} \/ (c.key = "token" /\ c.outdated)
  /\ c.at = "broken" => "emptied" \in c.crossed

CallHonest(u) ==
  AttemptsTold(u) /\ CacheRight(u) /\ PairRight(u) /\ NothingVanishes(u) /\ Explained(u)

ClientInv == ClientTypeOK /\ \A u \in users : CallHonest(u)

LEMMA UsersAreThreads == ClientTypeOK => users \subseteq ClientThreads
BY DEF ClientTypeOK, ClientThreads

LEMMA PairsTyped ==
  /\ NoPair \in Pair
  /\ \A s \in Serials : PairOf(s) \in Pair /\ PairOf(s).der = s /\ PairOf(s).id = s
BY DEF NoPair, PairOf, Pair

LEMMA NoCallTyped ==
  /\ NoCall \in Call /\ NoCall.at = "idle" /\ NoCall.key = "token" /\ NoCall.retried = FALSE
  /\ NoCall.rotated = FALSE /\ NoCall.crossed = {}
BY PairsTyped DEF NoCall, Call, Keys, Crossing

LEMMA SerialsAreKeys == \A s \in Serials : s # NoKey
BY ClientAssumption DEF Serials

\* Types of a thread's call and of what it looks at.
LEMMA CallTyped ==
  ASSUME ClientTypeOK, NEW u \in users
  PROVE  /\ u \in ClientThreads /\ call[u] \in Call
         /\ call[u].key \in {"token", "session"} /\ call[u].pair \in Pair
         /\ call[u].retried \in BOOLEAN /\ call[u].outdated \in BOOLEAN /\ call[u].rotated \in BOOLEAN
         /\ call[u].crossed \subseteq Crossing
         /\ current[call[u].key] \in Serials /\ current[call[u].key] # NoKey
         /\ cache[call[u].key] \in Pair
<1>1. u \in ClientThreads /\ call[u] \in Call
  BY UsersAreThreads DEF ClientTypeOK
<1>2. /\ call[u].key \in Keys /\ call[u].pair \in Pair
      /\ call[u].retried \in BOOLEAN /\ call[u].outdated \in BOOLEAN /\ call[u].rotated \in BOOLEAN
      /\ call[u].crossed \subseteq Crossing
  BY <1>1 DEF Call
<1>3. current[call[u].key] \in Serials /\ cache[call[u].key] \in Pair
  BY <1>2 DEF ClientTypeOK
<1> QED
  BY <1>1, <1>2, <1>3, SerialsAreKeys DEF Keys

\* One thread's call is replaced by c.
CallBecomes(u, c) == c \in Call /\ call' = [call EXCEPT ![u] = c]

LEMMA CallBecomesWhat ==
  ASSUME ClientTypeOK, NEW u \in users, NEW c, CallBecomes(u, c)
  PROVE  /\ call' \in [ClientThreads -> Call]
         /\ call'[u] = c
         /\ \A t \in users \ {u} : call'[t] = call[t]
BY UsersAreThreads DEF ClientTypeOK, CallBecomes

\* A step of one thread that changes neither the keys nor the cache.
LEMMA CallStep ==
  ASSUME ClientInv, NEW u \in users, NEW c, CallBecomes(u, c),
         UNCHANGED <<users, current, cache>>, access' \in BOOLEAN, CallHonest(u)'
  PROVE  ClientInv'
<1>1. call' \in [ClientThreads -> Call] /\ \A t \in users \ {u} : call'[t] = call[t]
  BY CallBecomesWhat DEF ClientInv
<1>2. ClientTypeOK'
  BY <1>1 DEF ClientInv, ClientTypeOK
<1>3. ASSUME NEW t \in users, t # u
      PROVE  CallHonest(t)'
  <2>1. CallHonest(t) /\ call'[t] = call[t]
    BY <1>1, <1>3 DEF ClientInv
  <2> QED
    BY <2>1 DEF CallHonest, AttemptsTold, CacheRight, PairRight, NothingVanishes, Explained, UpToDate
<1> QED BY <1>2, <1>3 DEF ClientInv

\* What a step does to one half of one key: another thread is told, unless the
\* half is now the current one.
HalvesMove(how) ==
  /\ how = {} => \A k \in Keys : /\ cache'[k].der \in {cache[k].der, current[k]}
                                 /\ cache'[k].id \in {cache[k].id, current[k]}
  /\ "emptied" \notin how => \A k \in Keys : /\ cache[k].der # NoKey => cache'[k].der # NoKey
                                             /\ cache[k].id # NoKey => cache'[k].id # NoKey

LEMMA CrossedKeeps ==
  ASSUME ClientInv, NEW t \in users, NEW how \in SUBSET Crossing, HalvesMove(how),
         current' = current,
         call'[t] = [call[t] EXCEPT !.crossed = call[t].crossed \cup how]
  PROVE  CallHonest(t)'
<1> DEFINE c == call[t]
           d == call'[t]
<1>1. c \in Call /\ c.key \in Keys /\ CallHonest(t) /\ current[c.key] # NoKey
  BY CallTyped DEF ClientInv, Keys
<1>2. /\ d.at = c.at /\ d.key = c.key /\ d.pair = c.pair /\ d.retried = c.retried
      /\ d.outdated = c.outdated /\ d.rotated = c.rotated /\ d.crossed = c.crossed \cup how
  BY <1>1 DEF Call
<1>3. /\ Untouched(d) => Untouched(c) /\ how = {}
      /\ Expects(d) => Expects(c) /\ how = {}
      /\ "emptied" \notin d.crossed => "emptied" \notin c.crossed /\ "emptied" \notin how
  BY <1>2 DEF Untouched, Expects
<1>4. how = {} => /\ UpToDate(cache[c.key].der, c.key) => UpToDate(cache'[c.key].der, c.key)
                  /\ UpToDate(cache[c.key].id, c.key) => UpToDate(cache'[c.key].id, c.key)
  BY <1>1 DEF HalvesMove, UpToDate
<1>5. "emptied" \notin how => /\ cache[c.key].der # NoKey => cache'[c.key].der # NoKey
                              /\ cache[c.key].id # NoKey => cache'[c.key].id # NoKey
  BY <1>1 DEF HalvesMove
<1> HIDE DEF c, d
<1>6. AttemptsTold(t)' /\ Explained(t)'
  BY <1>1, <1>2 DEF CallHonest, AttemptsTold, Explained, c, d
<1>7. CacheRight(t)'
  BY <1>1, <1>2, <1>3, <1>4 DEF CallHonest, CacheRight, UpToDate, c, d
<1>8. PairRight(t)'
  BY <1>1, <1>2, <1>3 DEF CallHonest, PairRight, UpToDate, c, d
<1>9. NothingVanishes(t)'
  BY <1>1, <1>2, <1>3, <1>5 DEF CallHonest, NothingVanishes, c, d
<1> QED BY <1>6, <1>7, <1>8, <1>9 DEF CallHonest

\* A step of one thread that changes the cache.
LEMMA CacheStep ==
  ASSUME ClientInv, NEW u \in users, NEW how \in SUBSET Crossing, NEW c \in Call,
         Crosses(u, how, c), HalvesMove(how), cache' \in [Keys -> Pair],
         UNCHANGED <<users, current, access>>, call'[u] = c => CallHonest(u)'
  PROVE  ClientInv'
<1>1. /\ users \subseteq ClientThreads /\ call \in [ClientThreads -> Call]
      /\ \A t \in users : CallHonest(t)
  BY UsersAreThreads DEF ClientInv, ClientTypeOK
<1>2. ASSUME NEW t \in ClientThreads
      PROVE  call'[t] = IF t = u THEN c
                        ELSE IF AtRest(t) THEN call[t]
                        ELSE [call[t] EXCEPT !.crossed = call[t].crossed \cup how]
  BY DEF Crosses
<1>3. ASSUME NEW t \in ClientThreads
      PROVE  [call[t] EXCEPT !.crossed = call[t].crossed \cup how] \in Call
  BY <1>1 DEF Call
<1>4. call' \in [ClientThreads -> Call]
  <2>1. \A t \in ClientThreads : call'[t] \in Call
    BY <1>1, <1>2, <1>3
  <2>2. call' = [t \in ClientThreads |-> call'[t]]
    BY DEF Crosses
  <2> QED BY <2>1, <2>2
<1>5. ClientTypeOK'
  BY <1>4 DEF ClientInv, ClientTypeOK
<1>6. ASSUME NEW t \in users, t # u
      PROVE  CallHonest(t)'
  <2>1. CASE AtRest(t)
    <3>1. call'[t] = call[t] /\ call[t].at \notin Keying \cup {"unnaming", "asking"}
      BY <1>1, <1>2, <1>6, <2>1 DEF AtRest, Keying
    <3> QED
      BY <1>1, <3>1 DEF CallHonest, AttemptsTold, CacheRight, PairRight, NothingVanishes,
                        Explained, Keying
  <2>2. CASE ~AtRest(t)
    BY <1>1, <1>2, <1>6, <2>2, CrossedKeeps
  <2> QED BY <2>1, <2>2
<1>7. call'[u] = c
  BY <1>1, <1>2
<1> QED BY <1>5, <1>6, <1>7 DEF ClientInv

CallStages ==
  {"idle", "keying", "confirming", "taking", "pairing", "fetching", "storing", "naming",
   "asking", "working", "emptying", "unnaming", "refused", "broken"}

\* The call of a thread with another place, key and pair.
Moved(c, a, k, p, r) == [c EXCEPT !.at = a, !.key = k, !.pair = p, !.retried = r]

LEMMA StagesAre ==
  \A a \in {"keying", "confirming", "taking", "pairing", "fetching", "storing", "naming",
            "asking", "working", "emptying", "unnaming", "refused", "broken"} : a \in CallStages
BY DEF CallStages

LEMMA MovedIs ==
  ASSUME NEW c \in Call, NEW a \in CallStages, NEW k \in Keys, NEW p \in Pair, NEW r \in BOOLEAN
  PROVE  /\ Moved(c, a, k, p, r) \in Call
         /\ Moved(c, a, k, p, r).at = a /\ Moved(c, a, k, p, r).key = k
         /\ Moved(c, a, k, p, r).pair = p /\ Moved(c, a, k, p, r).retried = r
         /\ Moved(c, a, k, p, r).outdated = c.outdated
         /\ Moved(c, a, k, p, r).rotated = c.rotated
         /\ Moved(c, a, k, p, r).crossed = c.crossed
BY DEF Call, Moved, CallStages

\* A call that goes on: what has to be shown of it.
LEMMA GoesOn ==
  ASSUME ClientInv, NEW u \in users, NEW a \in CallStages, NEW k \in Keys, NEW p \in Pair,
         NEW r \in BOOLEAN, call' = [call EXCEPT ![u] = Moved(call[u], a, k, p, r)],
         UNCHANGED <<users, current, cache>>, access' \in BOOLEAN,
         call'[u] = Moved(call[u], a, k, p, r) => CallHonest(u)'
  PROVE  ClientInv'
<1>1. call[u] \in Call
  BY CallTyped DEF ClientInv
<1>2. CallBecomes(u, Moved(call[u], a, k, p, r))
  BY <1>1, MovedIs DEF CallBecomes
<1> QED BY <1>2, CallBecomesWhat, CallStep DEF ClientInv

LEMMA PlainMove ==
  ASSUME ClientTypeOK, NEW u \in users, NEW a \in CallStages
  PROVE  /\ [call EXCEPT ![u].at = a]
              = [call EXCEPT ![u] = Moved(call[u], a, call[u].key, call[u].pair, call[u].retried)]
         /\ [call EXCEPT ![u].at = a, ![u].pair = NoPair]
              = [call EXCEPT ![u] = Moved(call[u], a, call[u].key, NoPair, call[u].retried)]
<1> DEFINE c == call[u]
<1>1. u \in ClientThreads /\ c \in Call /\ call \in [ClientThreads -> Call]
  BY CallTyped DEF ClientTypeOK
<1>2. /\ [c EXCEPT !.at = a] = Moved(c, a, c.key, c.pair, c.retried)
      /\ [c EXCEPT !.at = a, !.pair = NoPair] = Moved(c, a, c.key, NoPair, c.retried)
  BY <1>1 DEF Call, Moved
<1> QED BY <1>1, <1>2

\* The places of the halves in the cache, read one after the other.
LEMMA SeeKeeps ==
  ASSUME ClientInv, NEW u \in users, SeeCertificate(u) \/ SeeKeyId(u) \/ NoCertificate(u)
  PROVE  ClientInv'
<1> DEFINE c == call[u]
<1>1. PICK a \in {"confirming", "taking", "fetching", "broken"} :
        /\ GoesTo(u, a)
        /\ a = "confirming" => c.at = "keying" /\ cache[c.key].der # NoKey
        /\ a = "taking" => c.at = "confirming" /\ cache[c.key].id # NoKey
        /\ a = "fetching" => c.at \in {"keying", "confirming"}
        /\ a = "broken" => c.at = "pairing" /\ c.pair.der = NoKey
  BY DEF SeeCertificate, SeeKeyId, NoCertificate
<1>2. UNCHANGED <<users, current, access, cache>>
  BY DEF SeeCertificate, SeeKeyId, NoCertificate
<1>3. /\ call' = [call EXCEPT ![u] = Moved(c, a, c.key, c.pair, c.retried)] /\ a \in CallStages
      /\ c \in Call /\ c.key \in Keys /\ c.pair \in Pair /\ c.retried \in BOOLEAN
  <2>1. a \in CallStages
    BY <1>1, StagesAre
  <2> QED
    BY <1>1, <2>1, PlainMove, CallTyped DEF GoesTo, ClientInv, Keys
<1>4. ASSUME call'[u] = Moved(c, a, c.key, c.pair, c.retried)
      PROVE  CallHonest(u)'
  <2> DEFINE d == call'[u]
  <2>1. /\ d.at = a /\ d.key = c.key /\ d.pair = c.pair /\ d.retried = c.retried
        /\ d.outdated = c.outdated /\ d.rotated = c.rotated /\ d.crossed = c.crossed
    BY <1>3, <1>4, MovedIs
  <2>2. CallHonest(u) /\ c.at \in Keying
    BY <1>1 DEF ClientInv, Keying
  <2> HIDE DEF c, d
  <2>3. AttemptsTold(u)' /\ CacheRight(u)' /\ PairRight(u)'
    BY <1>1, <1>2, <2>1, <2>2
       DEF CallHonest, AttemptsTold, CacheRight, PairRight, Expects, Untouched, Keying, UpToDate, c, d
  <2>4. NothingVanishes(u)' /\ Explained(u)'
    BY <1>1, <1>2, <2>1, <2>2 DEF CallHonest, NothingVanishes, Explained, c, d
  <2> QED BY <2>3, <2>4 DEF CallHonest
<1> QED BY <1>2, <1>3, <1>4, GoesOn DEF ClientInv, ClientTypeOK

LEMMA TakeKeeps ==
  ASSUME ClientInv, NEW u \in users, TakeCertificate(u) \/ TakeKeyId(u)
  PROVE  ClientInv'
<1> DEFINE c == call[u]
           w == cache[c.key]
<1>1. c \in Call /\ c.key \in Keys /\ c.pair \in Pair /\ w \in Pair /\ u \in ClientThreads
  BY CallTyped DEF ClientInv, Keys
<1>2. PICK a \in {"pairing", "asking"}, p \in Pair :
        /\ call' = [call EXCEPT ![u] = Moved(c, a, c.key, p, c.retried)]
        /\ a = "pairing" => c.at = "taking" /\ p.der = w.der
        /\ a = "asking" => /\ c.at = "pairing" /\ c.pair.der # NoKey
                           /\ p.der = c.pair.der /\ p.id = w.id
  <2>1. CASE TakeCertificate(u)
    <3> DEFINE p == [c.pair EXCEPT !.der = w.der]
    <3>1. call' = [call EXCEPT ![u] = [c EXCEPT !.at = "pairing", !.pair = p]]
      BY <1>1, <2>1 DEF TakeCertificate, ClientInv, ClientTypeOK
    <3>2. p \in Pair /\ p.der = w.der
      BY <1>1 DEF Pair
    <3> HIDE DEF p
    <3>3. [c EXCEPT !.at = "pairing", !.pair = p] = Moved(c, "pairing", c.key, p, c.retried)
      BY <1>1, <3>2 DEF Call, Moved
    <3> QED BY <2>1, <3>1, <3>2, <3>3 DEF TakeCertificate
  <2>2. CASE TakeKeyId(u)
    <3> DEFINE p == [c.pair EXCEPT !.id = w.id]
    <3>1. call' = [call EXCEPT ![u] = [c EXCEPT !.at = "asking", !.pair = p]]
      BY <1>1, <2>2 DEF TakeKeyId, ClientInv, ClientTypeOK
    <3>2. p \in Pair /\ p.der = c.pair.der /\ p.id = w.id
      BY <1>1 DEF Pair
    <3> HIDE DEF p
    <3>3. [c EXCEPT !.at = "asking", !.pair = p] = Moved(c, "asking", c.key, p, c.retried)
      BY <1>1, <3>2 DEF Call, Moved
    <3> QED BY <2>2, <3>1, <3>2, <3>3 DEF TakeKeyId
  <2> QED BY <2>1, <2>2
<1>3. UNCHANGED <<users, current, access, cache>>
  BY DEF TakeCertificate, TakeKeyId
<1>4. a \in CallStages /\ c.retried \in BOOLEAN /\ access' \in BOOLEAN
  BY <1>1, <1>3, StagesAre, CallTyped DEF ClientInv, ClientTypeOK
<1>5. ASSUME call'[u] = Moved(c, a, c.key, p, c.retried)
      PROVE  CallHonest(u)'
  <2> DEFINE d == call'[u]
  <2>1. /\ d.at = a /\ d.key = c.key /\ d.pair = p /\ d.retried = c.retried
        /\ d.outdated = c.outdated /\ d.rotated = c.rotated /\ d.crossed = c.crossed
    BY <1>1, <1>4, <1>5, MovedIs
  <2>2. CallHonest(u) /\ c.at \in Keying
    BY <1>2 DEF ClientInv, Keying
  <2> HIDE DEF c, d, w
  <2>3. AttemptsTold(u)' /\ CacheRight(u)' /\ PairRight(u)'
    BY <1>2, <1>3, <2>1, <2>2
       DEF CallHonest, AttemptsTold, CacheRight, PairRight, Expects, Untouched, Keying, UpToDate, c, d, w
  <2>4. NothingVanishes(u)' /\ Explained(u)'
    BY <1>2, <1>3, <2>1, <2>2 DEF CallHonest, NothingVanishes, Explained, c, d, w
  <2> QED BY <2>3, <2>4 DEF CallHonest
<1> HIDE DEF w
<1> QED BY <1>1, <1>2, <1>3, <1>4, <1>5, GoesOn

LEMMA FetchKeeps ==
  ASSUME ClientInv, NEW u \in users, FetchKey(u)
  PROVE  ClientInv'
<1> DEFINE c == call[u]
           p == PairOf(current[c.key])
<1>1. /\ c \in Call /\ c.key \in Keys /\ p \in Pair /\ p.der # NoKey /\ p.id # NoKey
      /\ c.retried \in BOOLEAN /\ access \in BOOLEAN
  BY CallTyped, PairsTyped DEF ClientInv, ClientTypeOK, Keys
<1>2. "storing" \in CallStages
  BY StagesAre
<1>3. c.at = "fetching" /\ UNCHANGED <<users, current, access, cache>>
  BY DEF FetchKey
<1>4. call' = [call EXCEPT ![u] = Moved(c, "storing", c.key, p, c.retried)]
  <2>1. call' = [call EXCEPT ![u] = [c EXCEPT !.at = "storing", !.pair = p]]
    BY CallTyped DEF FetchKey, ClientInv, ClientTypeOK
  <2> HIDE DEF p
  <2>2. [c EXCEPT !.at = "storing", !.pair = p] = Moved(c, "storing", c.key, p, c.retried)
    BY <1>1 DEF Call, Moved
  <2> QED BY <2>1, <2>2
<1>5. ASSUME call'[u] = Moved(c, "storing", c.key, p, c.retried)
      PROVE  CallHonest(u)'
  <2> DEFINE d == call'[u]
  <2> HIDE DEF p
  <2>1. /\ d.at = "storing" /\ d.key = c.key /\ d.pair = p /\ d.retried = c.retried
        /\ d.outdated = c.outdated /\ d.rotated = c.rotated /\ d.crossed = c.crossed
    BY <1>1, <1>2, <1>5, MovedIs
  <2>2. CallHonest(u) /\ p = PairOf(current[c.key])
    BY DEF ClientInv, p
  <2> HIDE DEF c, d
  <2> QED
    BY <1>1, <1>3, <2>1, <2>2
       DEF CallHonest, AttemptsTold, CacheRight, PairRight, NothingVanishes, Explained,
           Expects, Untouched, Keying, UpToDate, c, d
<1> HIDE DEF p
<1> QED BY <1>1, <1>2, <1>3, <1>4, <1>5, GoesOn

LEMMA StoreKeeps ==
  ASSUME ClientInv, NEW u \in users, StoreCertificate(u) \/ StoreKeyId(u)
  PROVE  ClientInv'
<1> DEFINE c == call[u]
           k == c.key
           p == [cache[k] EXCEPT !.der = c.pair.der]
           q == [cache[k] EXCEPT !.id = c.pair.id]
<1>1. /\ c \in Call /\ k \in Keys /\ c.pair \in Pair /\ cache[k] \in Pair
      /\ cache \in [Keys -> Pair] /\ CallHonest(u) /\ c.retried \in BOOLEAN
      /\ current[k] \in Serials /\ current[k] # NoKey
  BY CallTyped DEF ClientInv, ClientTypeOK, Keys
<1>2. /\ p \in Pair /\ p.der = c.pair.der /\ p.id = cache[k].id
      /\ q \in Pair /\ q.der = cache[k].der /\ q.id = c.pair.id
  BY <1>1 DEF Pair
<1>3. /\ c.at \in {"storing", "naming"} /\ UNCHANGED <<users, current, access>>
      /\ c.pair.der # NoKey /\ c.pair.id # NoKey
      /\ c.rotated \/ (c.pair.der = current[k] /\ c.pair.id = current[k])
  <2>1. PairOf(current[k]).der = current[k] /\ PairOf(current[k]).id = current[k]
    BY <1>1, PairsTyped
  <2> QED BY <1>1, <2>1 DEF StoreCertificate, StoreKeyId, CallHonest, PairRight
<1> HIDE DEF p, q
<1>4. PICK a \in {"naming", "asking"}, half \in {c.pair.der, c.pair.id}, r \in Pair :
        /\ cache' = [cache EXCEPT ![k] = r]
        /\ r.der \in {cache[k].der, half} /\ r.id \in {cache[k].id, half}
        /\ Crosses(u, MisledBy(half, k), Moved(c, a, k, c.pair, c.retried))
  <2>1. \A a \in CallStages : [c EXCEPT !.at = a] = Moved(c, a, k, c.pair, c.retried)
    BY <1>1 DEF Call, Moved
  <2>2. CASE StoreCertificate(u)
    <3>1. cache' = [cache EXCEPT ![k] = p]
      BY <2>2 DEF StoreCertificate, p
    <3>2. Crosses(u, MisledBy(c.pair.der, k), [c EXCEPT !.at = "naming"])
      BY <2>2 DEF StoreCertificate
    <3>3. Crosses(u, MisledBy(c.pair.der, k), Moved(c, "naming", k, c.pair, c.retried))
      BY <2>1, <3>2 DEF CallStages
    <3> QED BY <1>2, <3>1, <3>3
  <2>3. CASE StoreKeyId(u)
    <3>1. cache' = [cache EXCEPT ![k] = q]
      BY <2>3 DEF StoreKeyId, q
    <3>2. Crosses(u, MisledBy(c.pair.id, k), [c EXCEPT !.at = "asking"])
      BY <2>3 DEF StoreKeyId
    <3>3. Crosses(u, MisledBy(c.pair.id, k), Moved(c, "asking", k, c.pair, c.retried))
      BY <2>1, <3>2 DEF CallStages
    <3> QED BY <1>2, <3>1, <3>3
  <2> QED BY <2>2, <2>3
<1>5. /\ cache' \in [Keys -> Pair] /\ cache'[k] = r
      /\ \A j \in Keys \ {k} : cache'[j] = cache[j]
  BY <1>1, <1>4
<1>6. MisledBy(half, k) \in SUBSET Crossing /\ HalvesMove(MisledBy(half, k))
  <2>1. half # NoKey /\ (MisledBy(half, k) = {} => half = current[k])
    BY <1>3, <1>4 DEF MisledBy
  <2>2. ASSUME NEW j \in Keys
        PROVE  /\ MisledBy(half, k) = {} => /\ cache'[j].der \in {cache[j].der, current[j]}
                                            /\ cache'[j].id \in {cache[j].id, current[j]}
               /\ cache[j].der # NoKey => cache'[j].der # NoKey
               /\ cache[j].id # NoKey => cache'[j].id # NoKey
    <3>1. CASE j = k
      BY <1>4, <1>5, <2>1, <3>1
    <3>2. CASE j # k
      BY <1>5, <3>2
    <3> QED BY <3>1, <3>2
  <2> QED BY <2>2 DEF MisledBy, Crossing, HalvesMove
<1> DEFINE d == Moved(c, a, k, c.pair, c.retried)
<1>7. /\ d \in Call /\ d.at = a /\ d.key = k /\ d.pair = c.pair /\ d.retried = c.retried
      /\ d.outdated = c.outdated /\ d.rotated = c.rotated /\ d.crossed = c.crossed
  <2> HIDE DEF c, k
  <2>1. a \in CallStages
    BY StagesAre
  <2> QED BY <1>1, <2>1, MovedIs DEF c, k
<1> HIDE DEF d
<1>8. ASSUME call'[u] = d
      PROVE  CallHonest(u)'
  <2> HIDE DEF c, k
  <2>1. ~c.rotated => half = current[k] /\ c.pair.der = current[k] /\ c.pair.id = current[k]
    BY <1>3, <1>4
  <2>2. AttemptsTold(u)' /\ Explained(u)'
    BY <1>1, <1>3, <1>7, <1>8 DEF CallHonest, AttemptsTold, Explained, c, k
  <2>3. CacheRight(u)'
    BY <1>1, <1>3, <1>4, <1>5, <1>7, <1>8, <2>1
       DEF CallHonest, CacheRight, Expects, Untouched, Keying, UpToDate, c, k
  <2>4. PairRight(u)'
    BY <1>1, <1>3, <1>7, <1>8, <2>1 DEF CallHonest, PairRight, Expects, Untouched, UpToDate, c, k
  <2>5. NothingVanishes(u)'
    BY <1>3, <1>7, <1>8 DEF NothingVanishes, c, k
  <2> QED BY <2>2, <2>3, <2>4, <2>5 DEF CallHonest
<1>9. Crosses(u, MisledBy(half, k), d)
  BY <1>4 DEF d
<1> QED BY <1>3, <1>5, <1>6, <1>7, <1>8, <1>9, CacheStep

LEMMA EmptyKeeps ==
  ASSUME ClientInv, NEW u \in users, EmptyCertificate(u) \/ EmptyKeyId(u)
  PROVE  ClientInv'
<1> DEFINE c == call[u]
           k == c.key
           p == [cache[k] EXCEPT !.der = NoKey]
           q == [cache[k] EXCEPT !.id = NoKey]
<1>1. /\ c \in Call /\ k \in Keys /\ c.pair \in Pair /\ cache[k] \in Pair
      /\ cache \in [Keys -> Pair] /\ CallHonest(u) /\ c.retried \in BOOLEAN
  BY CallTyped DEF ClientInv, ClientTypeOK, Keys
<1>2. /\ p \in Pair /\ p.der = NoKey /\ p.id = cache[k].id
      /\ q \in Pair /\ q.der = cache[k].der /\ q.id = NoKey
  BY <1>1 DEF Pair
<1>3. c.at \in {"emptying", "unnaming"} /\ c.retried /\ UNCHANGED <<users, current, access>>
  BY <1>1 DEF EmptyCertificate, EmptyKeyId, CallHonest, AttemptsTold
<1> HIDE DEF p, q
<1>4. PICK a \in {"unnaming", "emptying", "keying"}, j \in Keys, r \in {p, q} :
        /\ cache' = [cache EXCEPT ![k] = r]
        /\ Crosses(u, {"emptied"}, Moved(c, a, j, c.pair, c.retried))
        /\ a = "unnaming" => c.at = "emptying" /\ j = k /\ r.der = NoKey
        /\ a = "emptying" => c.at = "unnaming"
        /\ a = "keying" => /\ c.at = "unnaming" /\ k = "session" /\ j = k
                           /\ r.der = cache[k].der /\ r.id = NoKey
  <2>1. \A a \in CallStages, j \in Keys :
          /\ [c EXCEPT !.at = a] = Moved(c, a, k, c.pair, c.retried)
          /\ [c EXCEPT !.at = a, !.key = j] = Moved(c, a, j, c.pair, c.retried)
    BY <1>1 DEF Call, Moved
  <2>2. CASE EmptyCertificate(u)
    <3>1. /\ cache' = [cache EXCEPT ![k] = p] /\ c.at = "emptying"
          /\ Crosses(u, {"emptied"}, [c EXCEPT !.at = "unnaming"])
      BY <2>2 DEF EmptyCertificate, p
    <3>2. Crosses(u, {"emptied"}, Moved(c, "unnaming", k, c.pair, c.retried))
      BY <1>1, <2>1, <3>1 DEF CallStages
    <3> QED BY <1>1, <1>2, <3>1, <3>2
  <2>3. CASE EmptyKeyId(u)
    <3> DEFINE a == AfterEmptying(k)
    <3>1. /\ cache' = [cache EXCEPT ![k] = q] /\ c.at = "unnaming"
          /\ Crosses(u, {"emptied"}, [c EXCEPT !.at = a, !.key = "session"])
      BY <2>3 DEF EmptyKeyId, q
    <3>2. a \in {"emptying", "keying"} /\ (a = "keying" => k = "session") /\ "session" \in Keys
      BY <1>1 DEF AfterEmptying, Keys
    <3> HIDE DEF a
    <3>3. Crosses(u, {"emptied"}, Moved(c, a, "session", c.pair, c.retried))
      BY <2>1, <3>1, <3>2 DEF CallStages
    <3> QED BY <1>2, <3>1, <3>2, <3>3
  <2> QED BY <2>2, <2>3
<1>5. cache' \in [Keys -> Pair] /\ cache'[k] = r
  BY <1>1, <1>2, <1>4
<1>6. {"emptied"} \in SUBSET Crossing /\ HalvesMove({"emptied"})
  BY DEF Crossing, HalvesMove
<1> DEFINE d == Moved(c, a, j, c.pair, c.retried)
<1>7. /\ d \in Call /\ d.at = a /\ d.key = j /\ d.pair = c.pair /\ d.retried = c.retried
      /\ d.outdated = c.outdated /\ d.rotated = c.rotated /\ d.crossed = c.crossed
  <2> HIDE DEF c, k
  <2>1. a \in CallStages
    BY StagesAre
  <2> QED BY <1>1, <2>1, MovedIs DEF c, k
<1> HIDE DEF d
<1>8. ASSUME call'[u] = d
      PROVE  CallHonest(u)'
  <2> HIDE DEF c, k
  <2>1. AttemptsTold(u)' /\ PairRight(u)' /\ NothingVanishes(u)' /\ Explained(u)'
    BY <1>3, <1>4, <1>7, <1>8 DEF AttemptsTold, PairRight, NothingVanishes, Explained
  <2>2. CacheRight(u)'
    BY <1>1, <1>3, <1>4, <1>5, <1>7, <1>8
       DEF CallHonest, CacheRight, Expects, Untouched, Keying, UpToDate, c, k
  <2> QED BY <2>1, <2>2 DEF CallHonest
<1>9. Crosses(u, {"emptied"}, d)
  BY <1>4 DEF d
<1> QED BY <1>3, <1>5, <1>6, <1>7, <1>8, <1>9, CacheStep

LEMMA AnsweredKeeps ==
  ASSUME ClientInv, NEW u \in users,
         Authenticated(u) \/ AuthenticationRefused(u) \/ SessionRefused(u)
  PROVE  ClientInv'
<1> DEFINE c == call[u]
<1>1. /\ c \in Call /\ c.key \in Keys /\ c.pair \in Pair /\ c.retried \in BOOLEAN
      /\ CallHonest(u) /\ NoPair \in Pair
  BY CallTyped, PairsTyped DEF ClientInv, Keys
<1>2. PICK a \in {"working", "refused"} :
        /\ PutsDown(u, a)
        /\ c.at = "asking"
        /\ a = "working" => c.key = "token"
        /\ a = "refused" => /\ c.pair # PairOf(current[c.key])
                            /\ c.key = "session" => c.retried
  BY DEF Authenticated, AuthenticationRefused, SessionRefused, Accepts
<1>3. UNCHANGED <<users, current, cache>> /\ access' \in BOOLEAN
  BY DEF Authenticated, AuthenticationRefused, SessionRefused, ClientInv, ClientTypeOK
<1>4. a = "refused" => c.rotated \/ c.crossed # {} \/ (c.key = "token" /\ c.outdated)
  <2> SUFFICES ASSUME a = "refused", Untouched(c), c.key = "token" => ~c.outdated
               PROVE  FALSE
    BY DEF Untouched
  <2>1. Expects(c)
    BY <1>1, <1>2 DEF Expects, CallHonest, AttemptsTold
  <2>2. c.pair.der = current[c.key] /\ c.pair.id = current[c.key]
    BY <1>1, <1>2, <2>1 DEF CallHonest, PairRight, NothingVanishes, UpToDate, Untouched
  <2>3. c.pair = PairOf(current[c.key])
    BY <1>1, <2>2 DEF Pair, PairOf
  <2> QED BY <1>2, <2>3
<1>5. call' = [call EXCEPT ![u] = Moved(c, a, c.key, NoPair, c.retried)] /\ a \in CallStages
  <2>1. a \in CallStages
    BY StagesAre
  <2> QED
    BY <1>2, <2>1, PlainMove DEF PutsDown, ClientInv
<1>6. ASSUME call'[u] = Moved(c, a, c.key, NoPair, c.retried)
      PROVE  CallHonest(u)'
  <2> DEFINE d == call'[u]
  <2>1. /\ d.at = a /\ d.key = c.key /\ d.retried = c.retried
        /\ d.outdated = c.outdated /\ d.rotated = c.rotated /\ d.crossed = c.crossed
    BY <1>1, <1>5, <1>6, MovedIs
  <2> HIDE DEF c, d
  <2>2. AttemptsTold(u)' /\ Explained(u)'
    BY <1>1, <1>2, <1>4, <2>1 DEF CallHonest, AttemptsTold, Explained, c, d
  <2>3. CacheRight(u)' /\ PairRight(u)' /\ NothingVanishes(u)'
    BY <2>1 DEF CacheRight, PairRight, NothingVanishes, Keying, d
  <2> QED BY <2>2, <2>3 DEF CallHonest
<1> QED BY <1>1, <1>3, <1>5, <1>6, GoesOn

\* The session's key is wanted, or the cache is to be emptied.
LEMMA TurnsKeeps ==
  ASSUME ClientInv, NEW u \in users, WantsSession(u) \/ RetryWithNewKey(u)
  PROVE  ClientInv'
<1> DEFINE c == call[u]
<1>1. /\ c \in Call /\ c.key \in Keys /\ c.pair \in Pair /\ c.retried \in BOOLEAN
      /\ CallHonest(u) /\ NoPair \in Pair /\ "token" \in Keys /\ "session" \in Keys
  BY CallTyped, PairsTyped DEF ClientInv, Keys
<1>2. UNCHANGED <<users, current, access, cache>> /\ access' \in BOOLEAN
  BY DEF WantsSession, RetryWithNewKey, ClientInv, ClientTypeOK
<1>3. CASE WantsSession(u)
  <2>1. c.at = "working" /\ ~c.retried
    BY <1>1, <1>3 DEF WantsSession, CallHonest, AttemptsTold
  <2>2. call' = [call EXCEPT ![u] = [c EXCEPT !.at = "keying", !.key = "session"]]
    BY CallTyped, <1>3 DEF WantsSession, ClientInv, ClientTypeOK
  <2>3. [c EXCEPT !.at = "keying", !.key = "session"] = Moved(c, "keying", "session", c.pair, c.retried)
    BY <1>1 DEF Call, Moved
  <2>4. ASSUME call'[u] = Moved(c, "keying", "session", c.pair, c.retried)
        PROVE  CallHonest(u)'
    <3> DEFINE d == call'[u]
    <3>1. d.at = "keying" /\ d.key = "session" /\ ~d.retried
      BY <1>1, <2>1, <2>4 DEF Moved, Call
    <3> HIDE DEF d
    <3>2. CacheRight(u)'
      BY <3>1, Zenon DEF CacheRight, Expects, d
    <3>3. AttemptsTold(u)' /\ PairRight(u)' /\ NothingVanishes(u)' /\ Explained(u)'
      BY <3>1 DEF AttemptsTold, PairRight, NothingVanishes, Explained, d
    <3> QED
      BY <3>2, <3>3 DEF CallHonest
  <2>5. call' = [call EXCEPT ![u] = Moved(c, "keying", "session", c.pair, c.retried)]
    BY <2>2, <2>3
  <2>6. "keying" \in CallStages
    BY StagesAre
  <2> QED BY <1>1, <1>2, <2>4, <2>5, <2>6, GoesOn
<1>4. CASE RetryWithNewKey(u)
  <2> DEFINE r == [c EXCEPT !.at = "emptying", !.key = "token", !.pair = NoPair, !.retried = TRUE]
  <2>1. call' = [call EXCEPT ![u] = r]
    BY <1>4 DEF RetryWithNewKey
  <2>2. r = Moved(c, "emptying", "token", NoPair, TRUE)
    BY DEF Moved
  <2>3. ASSUME call'[u] = Moved(c, "emptying", "token", NoPair, TRUE)
        PROVE  CallHonest(u)'
    <3> DEFINE d == call'[u]
    <3>1. d.at = "emptying" /\ d.key = "token" /\ d.retried
      BY <1>1, <2>3 DEF Moved, Call
    <3> HIDE DEF d
    <3> QED
      BY <3>1 DEF CallHonest, AttemptsTold, CacheRight, PairRight, NothingVanishes, Explained,
                  Keying, d
  <2> HIDE DEF r
  <2> QED BY <1>1, <1>2, <2>1, <2>2, <2>3, GoesOn, StagesAre
<1> QED BY <1>3, <1>4

\* A call that is forgotten.
LEMMA NoCallHonest ==
  ASSUME NEW u, call'[u] = NoCall
  PROVE  CallHonest(u)'
BY NoCallTyped
   DEF CallHonest, AttemptsTold, CacheRight, PairRight, NothingVanishes, Explained, Keying

LEMMA EndsKeeps ==
  ASSUME ClientInv, NEW u \in users, Requested(u) \/ Sent(u) \/ CallFails(u)
  PROVE  ClientInv'
<1>1. /\ call' = [call EXCEPT ![u] = NoCall]
      /\ UNCHANGED <<users, current, access, cache>> /\ access' \in BOOLEAN
  BY DEF Requested, Sent, CallFails, Ends, ClientInv, ClientTypeOK
<1>2. CallBecomes(u, NoCall)
  BY <1>1, NoCallTyped DEF CallBecomes
<1>3. CallHonest(u)'
  BY <1>2, CallBecomesWhat, NoCallHonest DEF ClientInv
<1> QED BY <1>1, <1>2, <1>3, CallStep

LEMMA BeginCallKeeps ==
  ASSUME ClientInv, NEW u \in users, NEW sends \in BOOLEAN, BeginCall(u, sends)
  PROVE  ClientInv'
<1> DEFINE held == /\ ~access
                   /\ \/ ~UpToDate(cache["token"].der, "token")
                      \/ ~UpToDate(cache["token"].id, "token")
           c == [NoCall EXCEPT !.at = IF access THEN "working" ELSE "keying",
                               !.sends = sends, !.outdated = held]
<1>1. /\ call' = [call EXCEPT ![u] = c]
      /\ UNCHANGED <<users, current, access, cache>> /\ access \in BOOLEAN
  BY DEF BeginCall, ClientInv, ClientTypeOK
<1>2. held \in BOOLEAN
  OBVIOUS
<1>3. PICK a \in {"working", "keying"} :
        /\ a = IF access THEN "working" ELSE "keying"
        /\ a = "keying" => ~access
  OBVIOUS
<1>4. /\ c \in Call /\ c.at = a /\ c.key = "token" /\ c.retried = FALSE /\ c.outdated = held
      /\ c.rotated = FALSE /\ c.crossed = {}
  <2> HIDE DEF held
  <2> DEFINE x == [NoCall EXCEPT !.at = a]
             y == [x EXCEPT !.sends = sends]
             z == [y EXCEPT !.outdated = held]
  <2>1. /\ x \in Call /\ x.at = a /\ x.key = "token" /\ x.retried = FALSE
        /\ x.rotated = FALSE /\ x.crossed = {}
    BY NoCallTyped DEF Call, NoCall
  <2> HIDE DEF x
  <2>2. /\ y \in Call /\ y.at = a /\ y.key = "token" /\ y.retried = FALSE
        /\ y.rotated = FALSE /\ y.crossed = {}
    BY <2>1 DEF Call
  <2> HIDE DEF y
  <2>3. /\ z \in Call /\ z.at = a /\ z.key = "token" /\ z.retried = FALSE /\ z.outdated = held
        /\ z.rotated = FALSE /\ z.crossed = {}
    BY <1>2, <2>2 DEF Call
  <2>4. c = z
    BY <1>3, Zenon DEF x, y
  <2> HIDE DEF z, c
  <2> QED BY <2>3, <2>4
<1>5. a = "keying" /\ ~held =>
        UpToDate(cache["token"].der, "token") /\ UpToDate(cache["token"].id, "token")
  BY <1>3, Zenon
<1> HIDE DEF c, held
<1>6. CallBecomes(u, c)
  BY <1>1, <1>4 DEF CallBecomes
<1>7. call'[u] = c
  BY <1>6, CallBecomesWhat DEF ClientInv
<1>8. CallHonest(u)'
  BY <1>1, <1>4, <1>5, <1>7
     DEF CallHonest, AttemptsTold, CacheRight, PairRight, NothingVanishes, Explained, Expects,
         Keying, UpToDate
<1> QED BY <1>1, <1>6, <1>8, CallStep

\* A replaced key marks the calls under way.
LEMMA RotateKeeps ==
  ASSUME ClientInv, NEW k \in Keys, Rotate(k)
  PROVE  ClientInv'
<1>1. /\ current[k] < MaxRotations /\ current' = [current EXCEPT ![k] = current[k] + 1]
      /\ UNCHANGED <<users, access, cache>>
      /\ call' = [t \in ClientThreads |-> [call[t] EXCEPT !.rotated = call[t].rotated \/ ~AtRest(t)]]
  BY DEF Rotate
<1>2. current' \in [Keys -> Serials]
  <2>1. current \in [Keys -> Serials] /\ current[k] \in Serials /\ MaxRotations \in Nat
    BY ClientAssumption DEF ClientInv, ClientTypeOK
  <2>2. current[k] + 1 \in Serials
    BY <1>1, <2>1 DEF Serials
  <2> QED BY <1>1, <2>1, <2>2
<1>3. ASSUME NEW t \in ClientThreads
      PROVE  /\ call'[t] \in Call
             /\ call'[t].at = call[t].at /\ call'[t].key = call[t].key
             /\ call'[t].pair = call[t].pair /\ call'[t].crossed = call[t].crossed
             /\ call'[t].retried = call[t].retried /\ call'[t].outdated = call[t].outdated
             /\ ~AtRest(t) => call'[t].rotated = TRUE
             /\ AtRest(t) => call'[t].rotated = call[t].rotated
  <2> DEFINE b == call[t].rotated \/ ~AtRest(t)
  <2>1. call[t] \in Call /\ call[t].rotated \in BOOLEAN
    BY DEF ClientInv, ClientTypeOK, Call
  <2>2. b \in BOOLEAN /\ (~AtRest(t) => b = TRUE) /\ (AtRest(t) => b = call[t].rotated)
    BY <2>1, Zenon
  <2>3. call'[t] = [call[t] EXCEPT !.rotated = b]
    BY <1>1
  <2> HIDE DEF b
  <2> QED BY <2>1, <2>2, <2>3 DEF Call
<1>4. ClientTypeOK'
  BY <1>1, <1>2, <1>3 DEF ClientInv, ClientTypeOK
<1>5. ASSUME NEW t \in users
      PROVE  CallHonest(t)'
  <2>1. CallHonest(t) /\ t \in ClientThreads
    BY <1>5, UsersAreThreads DEF ClientInv
  <2>2. CASE AtRest(t)
    BY <1>3, <2>1, <2>2
       DEF CallHonest, AttemptsTold, CacheRight, PairRight, NothingVanishes, Explained, AtRest, Keying
  <2>3. CASE ~AtRest(t)
    BY <1>1, <1>3, <2>1, <2>3
       DEF CallHonest, AttemptsTold, CacheRight, PairRight, NothingVanishes, Explained, AtRest,
           Expects, Untouched
  <2> QED BY <2>2, <2>3
<1> QED BY <1>1, <1>4, <1>5 DEF ClientInv

LEMMA RestartKeeps ==
  ASSUME ClientInv, RestartProcess
  PROVE  ClientInv'
<1>1. /\ access' = FALSE /\ cache' = [k \in Keys |-> NoPair]
      /\ call' = [t \in ClientThreads |-> NoCall] /\ UNCHANGED <<users, current>>
  BY DEF RestartProcess
<1>2. ClientTypeOK'
  BY <1>1, PairsTyped, NoCallTyped DEF ClientInv, ClientTypeOK
<1>3. \A t \in users : call'[t] = NoCall
  BY <1>1, UsersAreThreads DEF ClientInv
<1> QED BY <1>1, <1>2, <1>3, NoCallHonest DEF ClientInv

LEMMA ClientInitHolds == ClientInit => ClientInv
<1> SUFFICES ASSUME ClientInit
             PROVE  ClientInv
  OBVIOUS
<1>1. /\ users \in {Requests, {TickThread}} /\ current = [k \in Keys |-> 0] /\ access = FALSE
      /\ cache = [k \in Keys |-> NoPair] /\ call = [t \in ClientThreads |-> NoCall]
  BY DEF ClientInit
<1>2. 0 \in Serials
  BY ClientAssumption DEF Serials
<1>3. ClientTypeOK
  BY <1>1, <1>2, PairsTyped, NoCallTyped DEF ClientTypeOK
<1>4. \A t \in users : call[t] = NoCall
  BY <1>1, <1>3, UsersAreThreads
<1> QED
  BY <1>3, <1>4, NoCallTyped
     DEF ClientInv, CallHonest, AttemptsTold, CacheRight, PairRight, NothingVanishes, Explained, Keying

LEMMA ClientSteps == ClientInv /\ [ClientNext]_clientVars => ClientInv'
<1> SUFFICES ASSUME ClientInv, [ClientNext]_clientVars
             PROVE  ClientInv'
  OBVIOUS
<1>1. ASSUME NEW u \in users, NEW sends \in BOOLEAN, BeginCall(u, sends) PROVE ClientInv'
  BY <1>1, BeginCallKeeps
<1>2. ASSUME NEW u \in users,
             \/ SeeCertificate(u) \/ SeeKeyId(u) \/ TakeCertificate(u) \/ TakeKeyId(u)
             \/ NoCertificate(u) \/ FetchKey(u) \/ StoreCertificate(u) \/ StoreKeyId(u)
      PROVE  ClientInv'
  BY <1>2, SeeKeeps, TakeKeeps, FetchKeeps, StoreKeeps
<1>3. ASSUME NEW u \in users,
             \/ Authenticated(u) \/ AuthenticationRefused(u) \/ SessionRefused(u)
             \/ Requested(u) \/ Sent(u) \/ CallFails(u)
      PROVE  ClientInv'
  BY <1>3, AnsweredKeeps, EndsKeeps
<1>4. ASSUME NEW u \in users,
             WantsSession(u) \/ RetryWithNewKey(u) \/ EmptyCertificate(u) \/ EmptyKeyId(u)
      PROVE  ClientInv'
  BY <1>4, TurnsKeeps, EmptyKeeps
<1>5. ASSUME NEW k \in Keys, Rotate(k) PROVE ClientInv'
  BY <1>5, RotateKeeps
<1>6. CASE AccessLapses \/ UNCHANGED clientVars
  <2>1. UNCHANGED <<users, current, cache, call>> /\ access' \in BOOLEAN
    BY <1>6 DEF AccessLapses, clientVars, ClientInv, ClientTypeOK
  <2> QED
    BY <2>1 DEF ClientInv, ClientTypeOK, CallHonest, AttemptsTold, CacheRight, PairRight,
                NothingVanishes, Explained, UpToDate
<1> QED BY <1>1, <1>2, <1>3, <1>4, <1>5, <1>6, RestartKeeps DEF ClientNext

LEMMA ClientInvHolds == ClientSpec => []ClientInv
BY ClientInitHolds, ClientSteps, PTL DEF ClientSpec

\* A replaced key costs no send (real_client.py:73): whoever is refused had a
\* key replaced during the call, was crossed by another thread's store or
\* clearing, or kept an old key for the token; and a call finds no certificate
\* only in a cache that another thread has emptied.
THEOREM RefusalsCaused == ClientSpec => []RefusalsHaveACause
<1>1. ClientInv => RefusalsHaveACause
  BY DEF ClientInv, CallHonest, Explained, RefusalsHaveACause
<1> QED BY <1>1, ClientInvHolds, PTL

-----------------------------------------------------------------------------
(***************************************************************************)
(* The scheduler's status.  Unless raced, the heartbeat is off and changes *)
(* no list while the tick has one, so that the list outlives the cooldown. *)
(***************************************************************************)
Lists == {"running", "cooling", "ending"}

TickAlone ==
  /\ tick \notin Lists => ~write["tick"].open
  /\ tick \in {"phased", "running"} => memory.phase # "cooldown"
  /\ ~raced /\ tick \in Lists =>
       heart = "off" /\ memory.jobs = "listed" /\ write["heart"].set.jobs = write["heart"].saw.jobs

HeartWrites ==
  LET w == write["heart"] IN
  /\ w.set.phase \in {"idle", w.saw.phase}
  /\ ~raced /\ w.set.jobs # w.saw.jobs => w.saw.phase = row.phase /\ w.set.phase = "idle"

RowAgrees ==
  LET w == write["tick"] IN
  /\ ~raced /\ w.open => w.set.jobs = "listed" /\ (w.saw.jobs = "listed" => row.jobs = "listed")
  /\ ~raced /\ row.phase = "cooldown" => row.jobs = "listed"
  /\ lost => raced

StatusInv == StatusTypeOK /\ TickAlone /\ HeartWrites /\ RowAgrees

WriteTyped(w) == w \in [open: BOOLEAN, saw: StatusRow, set: StatusRow]

LEMMA NoWriteTyped ==
  /\ NoStatusRow \in StatusRow /\ WriteTyped(NoWrite)
  /\ NoWrite.open = FALSE /\ NoWrite.saw = NoStatusRow /\ NoWrite.set = NoStatusRow
BY DEF NoWrite, WriteTyped, NoStatusRow, StatusRow, Phase, Listing

LEMMA WritesAre ==
  ASSUME StatusTypeOK
  PROVE  /\ WriteTyped(write["tick"]) /\ WriteTyped(write["heart"])
         /\ raced \in BOOLEAN /\ lost \in BOOLEAN /\ finished \in Ages /\ fresh \in BOOLEAN
         /\ write["tick"].open \in BOOLEAN /\ write["heart"].open \in BOOLEAN
         /\ row \in StatusRow /\ memory \in [phase: Phase, jobs: Listing]
<1>1. WriteTyped(write["tick"]) /\ WriteTyped(write["heart"]) /\ row \in StatusRow
      /\ memory \in [phase: Phase, jobs: Listing]
  BY DEF StatusTypeOK, Threads, WriteTyped
<1>2. raced \in BOOLEAN /\ lost \in BOOLEAN /\ finished \in Ages /\ fresh \in BOOLEAN
  BY Zenon DEF StatusTypeOK
<1> QED BY <1>1, <1>2 DEF WriteTyped

\* The write that a thread opens.
LEMMA OpensWhat ==
  ASSUME StatusTypeOK, NEW th \in Threads, NEW s \in {"ACTIVE", "IDLE"}, NEW p \in Phase,
         NEW j \in Listing, Opens(th, s, p, j)
  PROVE  /\ ~write[th].open
         /\ write' \in [Threads -> [open: BOOLEAN, saw: StatusRow, set: StatusRow]]
         /\ write'[th].open = TRUE /\ write'[th].saw = row
         /\ write'[th].set.phase = p /\ write'[th].set.jobs = j
         /\ \A o \in Threads \ {th} : write'[o] = write[o]
<1> DEFINE w == [open |-> TRUE, saw |-> row, set |-> [status |-> s, phase |-> p, jobs |-> j]]
<1>1. /\ w \in [open: BOOLEAN, saw: StatusRow, set: StatusRow]
      /\ w.open = TRUE /\ w.saw = row /\ w.set.phase = p /\ w.set.jobs = j
  BY DEF StatusTypeOK, StatusRow
<1>2. ~write[th].open /\ write' = [write EXCEPT ![th] = w]
  BY DEF Opens
<1> HIDE DEF w
<1> QED BY <1>1, <1>2 DEF StatusTypeOK

LEMMA ThreadsAre == Threads = {"tick", "heart"} /\ "tick" \in Threads /\ "heart" \in Threads
BY DEF Threads

-----------------------------------------------------------------------------
\* The tick's write, then the heartbeat's, reaches the row.
LEMMA TickCommits ==
  ASSUME StatusInv, CommitStatus("tick")
  PROVE  StatusInv'
<1> DEFINE w == write["tick"]
<1>1. /\ w.open /\ fresh' = TRUE /\ UNCHANGED <<memory, finished, tick, heart, lost, raced>>
      /\ row' = [status |-> CommitsColumn(row.status, w.saw.status, w.set.status),
                 phase |-> CommitsColumn(row.phase, w.saw.phase, w.set.phase),
                 jobs |-> CommitsColumn(row.jobs, w.saw.jobs, w.set.jobs)]
      /\ write' = [write EXCEPT !["tick"] = NoWrite]
  BY DEF CommitStatus
<1>2. /\ WriteTyped(w) /\ row \in StatusRow
      /\ write \in [Threads -> [open: BOOLEAN, saw: StatusRow, set: StatusRow]]
  BY WritesAre DEF StatusInv, StatusTypeOK
<1>3. /\ write' \in [Threads -> [open: BOOLEAN, saw: StatusRow, set: StatusRow]]
      /\ write'["tick"] = NoWrite /\ write'["heart"] = write["heart"]
  BY <1>1, <1>2, NoWriteTyped, ThreadsAre DEF WriteTyped
<1>4. /\ row' \in StatusRow
      /\ row'.jobs = CommitsColumn(row.jobs, w.saw.jobs, w.set.jobs)
  BY <1>1, <1>2 DEF CommitsColumn, StatusRow, WriteTyped
<1>5. StatusTypeOK'
  BY <1>1, <1>3, <1>4 DEF StatusInv, StatusTypeOK
<1>6. tick \in Lists
  BY <1>1 DEF StatusInv, TickAlone
<1>7. ~raced => row'.jobs = "listed"
  BY <1>1, <1>4 DEF StatusInv, RowAgrees, CommitsColumn
<1>8. TickAlone'
  BY <1>1, <1>3, NoWriteTyped DEF StatusInv, TickAlone
<1>9. HeartWrites'
  BY <1>1, <1>3, <1>6 DEF StatusInv, TickAlone, HeartWrites
<1>10. RowAgrees'
  BY <1>1, <1>3, <1>7, NoWriteTyped DEF StatusInv, RowAgrees
<1> QED BY <1>5, <1>8, <1>9, <1>10 DEF StatusInv

LEMMA HeartCommits ==
  ASSUME StatusInv, CommitStatus("heart")
  PROVE  StatusInv'
<1> DEFINE w == write["heart"]
<1>1. /\ w.open /\ fresh' = TRUE /\ UNCHANGED <<memory, finished, tick, heart, lost, raced>>
      /\ row' = [status |-> CommitsColumn(row.status, w.saw.status, w.set.status),
                 phase |-> CommitsColumn(row.phase, w.saw.phase, w.set.phase),
                 jobs |-> CommitsColumn(row.jobs, w.saw.jobs, w.set.jobs)]
      /\ write' = [write EXCEPT !["heart"] = NoWrite]
  BY DEF CommitStatus
<1>2. /\ WriteTyped(w) /\ row \in StatusRow
      /\ write \in [Threads -> [open: BOOLEAN, saw: StatusRow, set: StatusRow]]
  BY WritesAre DEF StatusInv, StatusTypeOK
<1>3. /\ write' \in [Threads -> [open: BOOLEAN, saw: StatusRow, set: StatusRow]]
      /\ write'["heart"] = NoWrite /\ write'["tick"] = write["tick"]
  BY <1>1, <1>2, NoWriteTyped, ThreadsAre DEF WriteTyped
<1>4. /\ row' \in StatusRow
      /\ row'.phase = CommitsColumn(row.phase, w.saw.phase, w.set.phase)
      /\ row'.jobs = CommitsColumn(row.jobs, w.saw.jobs, w.set.jobs)
  BY <1>1, <1>2 DEF CommitsColumn, StatusRow, WriteTyped
<1>5. StatusTypeOK'
  BY <1>1, <1>3, <1>4 DEF StatusInv, StatusTypeOK
<1>6. row'.phase \in {row.phase, "idle"}
  BY <1>4 DEF StatusInv, HeartWrites, CommitsColumn
<1>7. w.set.jobs = w.saw.jobs => row'.jobs = row.jobs
  BY <1>4 DEF CommitsColumn
<1>8. ~raced /\ w.set.jobs # w.saw.jobs => row'.phase = "idle" /\ tick \notin Lists
  BY <1>4 DEF StatusInv, HeartWrites, TickAlone, CommitsColumn
<1>9. TickAlone'
  BY <1>1, <1>3, NoWriteTyped DEF StatusInv, TickAlone
<1>10. HeartWrites'
  BY <1>3, NoWriteTyped DEF HeartWrites
<1>11. RowAgrees'
  BY <1>1, <1>3, <1>6, <1>7, <1>8 DEF StatusInv, RowAgrees, TickAlone
<1> QED BY <1>5, <1>9, <1>10, <1>11 DEF StatusInv

LEMMA NotWrittenKeeps ==
  ASSUME StatusInv, NEW th \in Threads, StatusNotWritten(th)
  PROVE  StatusInv'
<1>1. /\ write' = [write EXCEPT ![th] = NoWrite]
      /\ UNCHANGED <<memory, finished, row, fresh, tick, heart, lost, raced>>
  BY DEF StatusNotWritten
<1>2. /\ write' \in [Threads -> [open: BOOLEAN, saw: StatusRow, set: StatusRow]]
      /\ write'["tick"] \in {write["tick"], NoWrite} /\ write'["heart"] \in {write["heart"], NoWrite}
  BY <1>1, NoWriteTyped, ThreadsAre DEF WriteTyped, StatusInv, StatusTypeOK
<1>3. StatusTypeOK'
  BY <1>1, <1>2 DEF StatusInv, StatusTypeOK
<1>4. TickAlone' /\ HeartWrites' /\ RowAgrees'
  BY <1>1, <1>2, NoWriteTyped DEF StatusInv, TickAlone, HeartWrites, RowAgrees
<1> QED BY <1>3, <1>4 DEF StatusInv

-----------------------------------------------------------------------------
\* Steps of either thread that open no write and touch no row.
LEMMA StatusQuiet ==
  ASSUME StatusInv, UNCHANGED <<row, write>>, raced => raced', raced' \in BOOLEAN, lost' \in BOOLEAN,
         memory' \in [phase: Phase, jobs: Listing], finished' \in Ages, fresh' \in BOOLEAN,
         tick' \in TickAt, heart' \in HeartAt, TickAlone', lost' => raced'
  PROVE  StatusInv'
<1>1. StatusTypeOK'
  <2>1. {fresh', lost', raced'} \subseteq BOOLEAN
    BY Zenon
  <2> QED BY <2>1 DEF StatusInv, StatusTypeOK
<1>2. HeartWrites' /\ RowAgrees'
  BY DEF StatusInv, HeartWrites, RowAgrees
<1> QED BY <1>1, <1>2 DEF StatusInv

LEMMA QuietStatusSteps ==
  ASSUME StatusInv,
         \/ BeginTick \/ SetPhase \/ TaskMissesEntry \/ TickRaises \/ SetCooldown \/ TickEnded
         \/ SetIdle \/ FifteenSecondsPass \/ HeartbeatGrowsOld
  PROVE  StatusInv'
<1>1. memory' \in [phase: Phase, jobs: Listing]
  <2> DEFINE P(p) == [memory EXCEPT !.phase = p]
  <2>1. \A p \in Phase : P(p) \in [phase: Phase, jobs: Listing]
    BY WritesAre DEF StatusInv
  <2>2. memory' \in {memory, P("processing"), P("cooldown"), P("idle")}
    BY DEF BeginTick, SetPhase, TaskMissesEntry, TickRaises, SetCooldown, TickEnded, SetIdle,
           FifteenSecondsPass, HeartbeatGrowsOld
  <2> HIDE DEF P
  <2> QED BY <2>1, <2>2, WritesAre DEF StatusInv, Phase
<1>2. UNCHANGED <<row, write, raced>>
  BY DEF BeginTick, SetPhase, TaskMissesEntry, TickRaises, SetCooldown, TickEnded, SetIdle,
         FifteenSecondsPass, HeartbeatGrowsOld
<1>3. finished' \in {finished, "old"} /\ fresh' \in {fresh, FALSE} /\ lost' \in {lost, TRUE}
  BY WritesAre DEF BeginTick, SetPhase, TaskMissesEntry, TickRaises, SetCooldown, TickEnded, SetIdle,
         FifteenSecondsPass, HeartbeatGrowsOld, StatusInv
<1>4. finished' \in Ages /\ fresh' \in BOOLEAN /\ lost' \in BOOLEAN /\ raced' \in BOOLEAN
  <2>1. finished' \in Ages
    BY <1>3, WritesAre DEF StatusInv, Ages
  <2> QED
    BY <1>2, <1>3, <2>1, WritesAre, Zenon DEF StatusInv
<1>5. tick' \in TickAt /\ heart' \in HeartAt
  BY DEF BeginTick, SetPhase, TaskMissesEntry, TickRaises, SetCooldown, TickEnded, SetIdle,
         FifteenSecondsPass, HeartbeatGrowsOld, StatusInv, StatusTypeOK, TickAt, HeartAt
<1>6. lost' => raced'
  BY <1>2 DEF BeginTick, SetPhase, TaskMissesEntry, TickRaises, SetCooldown, TickEnded, SetIdle,
         FifteenSecondsPass, HeartbeatGrowsOld, StatusInv, RowAgrees, TickAlone, Lists
<1>7. TickAlone'
  <2>1. CASE BeginTick \/ TickRaises \/ TickEnded \/ TaskMissesEntry
    BY <1>2, <2>1 DEF BeginTick, TickRaises, TickEnded, TaskMissesEntry, StatusInv, TickAlone, Lists
  <2>2. CASE SetPhase
    BY <1>2, <2>2, WritesAre DEF SetPhase, StatusInv, TickAlone, Lists
  <2>3. CASE SetCooldown
    BY <1>2, <2>3, WritesAre DEF SetCooldown, StatusInv, TickAlone, Lists
  <2>4. CASE SetIdle
    BY <1>2, <2>4, WritesAre DEF SetIdle, StatusInv, TickAlone, Lists
  <2>5. CASE FifteenSecondsPass \/ HeartbeatGrowsOld
    BY <1>2, <2>5 DEF FifteenSecondsPass, HeartbeatGrowsOld, StatusInv, TickAlone
  <2> QED BY <2>1, <2>2, <2>3, <2>4, <2>5
<1> QED BY <1>1, <1>2, <1>4, <1>5, <1>6, <1>7, StatusQuiet

LEMMA BeginRestKeeps ==
  ASSUME StatusInv, BeginRest
  PROVE  StatusInv'
<1>1. /\ memory.phase = "cooldown" /\ heart' = "resting"
      /\ UNCHANGED <<memory, finished, row, fresh, tick, write, lost>>
  BY DEF BeginRest, RestDue
<1>2. raced' = (raced \/ tick \in {"cooling", "ending"})
  BY DEF BeginRest
<1>3. raced' \in BOOLEAN /\ (raced => raced') /\ (~raced' => tick \notin {"cooling", "ending"})
  BY <1>2, Zenon
<1>4. tick \notin {"phased", "running"}
  BY <1>1 DEF StatusInv, TickAlone
<1>5. TickAlone'
  BY <1>1, <1>3, <1>4 DEF StatusInv, TickAlone, Lists
<1>6. lost' => raced'
  BY <1>1, <1>3 DEF StatusInv, RowAgrees
<1>7. memory' \in [phase: Phase, jobs: Listing] /\ tick' \in TickAt /\ heart' \in HeartAt
  BY <1>1, WritesAre DEF StatusInv, StatusTypeOK, HeartAt
<1>8. lost' \in BOOLEAN /\ finished' \in Ages /\ fresh' \in BOOLEAN
  BY <1>1, WritesAre, Zenon DEF StatusInv
<1> QED BY <1>1, <1>3, <1>5, <1>6, <1>7, <1>8, StatusQuiet

-----------------------------------------------------------------------------
\* The tick opens a write with its list, or the heartbeat one that changes none
\* while the tick has one.
LEMMA TickOpens ==
  ASSUME StatusInv, ListJobs \/ RunTask \/ EndTick
  PROVE  StatusInv'
<1>1. PICK s \in {"ACTIVE", "IDLE"}, p \in Phase, j \in Listing :
        /\ Opens("tick", s, p, j)
        /\ ~raced' => j = "listed"
  <2>1. CASE ListJobs
    BY <2>1 DEF ListJobs, Phase, Listing
  <2>2. CASE RunTask
    BY <2>2 DEF RunTask, Phase, Listing
  <2>3. CASE EndTick
    BY <2>3, WritesAre DEF EndTick, Phase, StatusInv, TickAlone, Lists
  <2> QED BY <2>1, <2>2, <2>3
<1>2. /\ write' \in [Threads -> [open: BOOLEAN, saw: StatusRow, set: StatusRow]]
      /\ write'["tick"].open = TRUE /\ write'["tick"].saw = row /\ write'["tick"].set.jobs = j
      /\ write'["heart"] = write["heart"]
  <2>1. /\ write' \in [Threads -> [open: BOOLEAN, saw: StatusRow, set: StatusRow]]
        /\ write'["tick"].open = TRUE /\ write'["tick"].saw = row /\ write'["tick"].set.jobs = j
        /\ \A o \in Threads \ {"tick"} : write'[o] = write[o]
    BY <1>1, OpensWhat, ThreadsAre, Zenon DEF StatusInv
  <2> QED BY <2>1, ThreadsAre
<1>3. UNCHANGED <<row, fresh, heart, lost>>
  BY DEF ListJobs, RunTask, EndTick
<1>4. raced' \in BOOLEAN /\ (raced => raced') /\ (ListJobs /\ ~raced' => ~HeartIsResting)
  <2>1. CASE ListJobs
    <3>1. raced' = (raced \/ HeartIsResting)
      BY <2>1 DEF ListJobs
    <3> QED BY <3>1, Zenon
  <2>2. CASE ~ListJobs
    <3>1. raced' = raced
      BY <2>2 DEF RunTask, EndTick
    <3> QED BY <2>2, <3>1, WritesAre, Zenon DEF StatusInv
  <2> QED BY <2>1, <2>2
<1>5. memory' \in [phase: Phase, jobs: Listing] /\ memory'.phase = memory.phase
      /\ (memory'.jobs = memory.jobs \/ memory'.jobs = "listed")
  BY WritesAre DEF ListJobs, RunTask, EndTick, StatusInv, Listing
<1>6. tick' \in Lists /\ (~ListJobs => tick \in Lists) /\ (ListJobs => memory'.jobs = "listed")
      /\ (tick' = "running" => tick \in {"phased", "running"})
  BY WritesAre DEF ListJobs, RunTask, EndTick, Lists, StatusInv
<1>7. finished' \in {finished, "recent"}
  BY DEF ListJobs, RunTask, EndTick
<1>8. finished' \in Ages
  BY <1>7, WritesAre DEF StatusInv, Ages
<1>9. StatusTypeOK'
  <2>1. {fresh', lost', raced'} \subseteq BOOLEAN
    BY <1>3, <1>4, WritesAre, Zenon DEF StatusInv
  <2> QED BY <1>2, <1>3, <1>5, <1>6, <1>8, <2>1 DEF StatusInv, StatusTypeOK, Lists, TickAt
<1>10. ~raced' => heart = "off" /\ memory'.jobs = "listed" /\ write["heart"].set.jobs = write["heart"].saw.jobs
  <2>1. CASE ListJobs
    <3>1. heart \in {"off", "resting", "emptying"}
      BY DEF StatusInv, StatusTypeOK, HeartAt
    <3> QED BY <1>4, <1>6, <2>1, <3>1 DEF HeartIsResting
  <2>2. CASE ~ListJobs
    BY <1>4, <1>5, <1>6, <2>2 DEF StatusInv, TickAlone
  <2> QED BY <2>1, <2>2
<1>11. TickAlone'
  BY <1>2, <1>3, <1>5, <1>6, <1>10 DEF StatusInv, TickAlone, Lists
<1>12. HeartWrites'
  BY <1>2, <1>3, <1>4 DEF StatusInv, HeartWrites
<1>13. RowAgrees'
  BY <1>1, <1>2, <1>3, <1>4 DEF StatusInv, RowAgrees
<1> QED BY <1>9, <1>11, <1>12, <1>13 DEF StatusInv

LEMMA HeartOpens ==
  ASSUME StatusInv, EmptyJobs \/ Beat
  PROVE  StatusInv'
<1>1. PICK s \in {"ACTIVE", "IDLE"}, p \in Phase, j \in Listing :
        /\ Opens("heart", s, p, j)
        /\ p = "idle" \/ (p = row.phase /\ j = row.jobs)
        /\ Beat => p = row.phase /\ j = row.jobs
        /\ ~Beat => p = "idle"
  <2>1. CASE Beat
    BY <2>1, WritesAre DEF Beat, StatusInv, StatusRow
  <2>2. CASE ~Beat /\ EmptyJobs
    BY <2>2 DEF EmptyJobs, Phase, Listing
  <2> QED BY <2>1, <2>2
<1>2. /\ write' \in [Threads -> [open: BOOLEAN, saw: StatusRow, set: StatusRow]]
      /\ write'["heart"].saw = row /\ write'["heart"].set.phase = p /\ write'["heart"].set.jobs = j
      /\ write'["tick"] = write["tick"]
  <2>1. Opens("heart", s, p, j)
    BY <1>1
  <2>2. StatusTypeOK /\ "heart" \in Threads /\ "tick" \in Threads \ {"heart"}
    BY ThreadsAre DEF StatusInv
  <2>3. /\ write' \in [Threads -> [open: BOOLEAN, saw: StatusRow, set: StatusRow]]
        /\ write'["heart"].saw = row /\ write'["heart"].set.phase = p /\ write'["heart"].set.jobs = j
    <3>1. write' \in [Threads -> [open: BOOLEAN, saw: StatusRow, set: StatusRow]]
      BY <2>1, <2>2, OpensWhat, Zenon
    <3>2. write'["heart"].saw = row
      BY <2>1, <2>2, OpensWhat, Zenon
    <3>3. write'["heart"].set.phase = p
      BY <2>1, <2>2, OpensWhat
    <3>4. write'["heart"].set.jobs = j
      BY <2>1, <2>2, OpensWhat
    <3> QED BY <3>1, <3>2, <3>3, <3>4
  <2>4. write'["tick"] = write["tick"]
    BY <2>1, <2>2, OpensWhat, Zenon
  <2> QED BY <2>3, <2>4
<1>3. UNCHANGED <<finished, row, fresh, tick, lost, raced>> /\ heart' = "off"
  BY DEF EmptyJobs, Beat
<1>4. memory' \in [phase: Phase, jobs: Listing] /\ memory'.phase = memory.phase
      /\ (Beat => memory' = memory)
  BY WritesAre DEF EmptyJobs, Beat, StatusInv, Listing
<1>5. StatusTypeOK'
  BY <1>2, <1>3, <1>4 DEF StatusInv, StatusTypeOK, HeartAt
<1>6. ~Beat /\ ~raced => tick \notin Lists
  BY DEF EmptyJobs, StatusInv, TickAlone
<1>7. TickAlone'
  BY <1>1, <1>2, <1>3, <1>4, <1>6 DEF StatusInv, TickAlone, Lists
<1>8. HeartWrites'
  BY <1>1, <1>2, <1>3 DEF HeartWrites
<1>9. RowAgrees'
  BY <1>2, <1>3 DEF StatusInv, RowAgrees
<1> QED BY <1>5, <1>7, <1>8, <1>9 DEF StatusInv

LEMMA StatusInitHolds == StatusInit => StatusInv
<1> SUFFICES ASSUME StatusInit
             PROVE  StatusInv
  OBVIOUS
<1>1. /\ memory = [phase |-> "idle", jobs |-> "none"] /\ row = NoStatusRow
      /\ tick = "off" /\ heart = "off" /\ write = [th \in Threads |-> NoWrite]
      /\ finished = "never"
  BY DEF StatusInit
<1>2. {fresh, lost, raced} \subseteq BOOLEAN /\ ~lost
  BY Zenon DEF StatusInit
<1>3. StatusTypeOK
  BY <1>1, <1>2, NoWriteTyped DEF StatusTypeOK, WriteTyped, TickAt, HeartAt, Ages, Phase, Listing
<1>4. write["tick"] = NoWrite /\ write["heart"] = NoWrite /\ NoStatusRow.phase = "idle"
  BY <1>1, ThreadsAre DEF NoStatusRow
<1> QED BY <1>1, <1>2, <1>3, <1>4, NoWriteTyped DEF StatusInv, TickAlone, HeartWrites, RowAgrees, Lists

LEMMA StatusSteps == StatusInv /\ [StatusNext]_statusVars => StatusInv'
<1> SUFFICES ASSUME StatusInv, [StatusNext]_statusVars
             PROVE  StatusInv'
  OBVIOUS
<1>1. ASSUME NEW th \in Threads, CommitStatus(th) PROVE StatusInv'
  BY <1>1, TickCommits, HeartCommits, ThreadsAre
<1>2. ASSUME NEW th \in Threads, StatusNotWritten(th) PROVE StatusInv'
  BY <1>2, NotWrittenKeeps
<1>3. CASE UNCHANGED statusVars
  BY <1>3 DEF statusVars, StatusInv, StatusTypeOK, TickAlone, HeartWrites, RowAgrees
<1> QED BY <1>1, <1>2, <1>3, QuietStatusSteps, BeginRestKeeps, TickOpens, HeartOpens DEF StatusNext

LEMMA StatusInvHolds == StatusSpec => []StatusInv
BY StatusInitHolds, StatusSteps, PTL DEF StatusSpec

\* A tick dies over an emptied list, and a cooldown is shown without results,
\* only after the heartbeat acted on an outdated phase (scheduler.py:382, 408).
THEOREM GapsRaced == StatusSpec => []GapsAreRaced
<1>1. StatusInv => GapsAreRaced
  <2> SUFFICES ASSUME StatusInv
               PROVE  GapsAreRaced
    OBVIOUS
  <2>1. Widget.phase = "cooldown" => row.phase = "cooldown" /\ Widget.jobs = row.jobs
    BY DEF Widget
  <2> QED BY <2>1 DEF GapsAreRaced, StatusInv, RowAgrees
<1> QED BY <1>1, StatusInvHolds, PTL

-----------------------------------------------------------------------------
(***************************************************************************)
(* The board monitor.  While the processes take turns, what a reader       *)
(* believes follows the process at work from the file it compares with to  *)
(* the file it saves.                                                      *)
(***************************************************************************)
Resting(c) == checker[c].at = "idle"

OneAtWork == ~atOnce => \A c, d \in Checkers : c # d => Resting(c) \/ Resting(d)

BelievesSeen(c) == \A i \in Issues \ missed : told[i] = checker[c].seen[i]

ReaderFollows ==
  /\ (\A c \in Checkers : checker[c].at # "told") /\ file # NoState
       => \A i \in Issues \ missed : told[i] = file[i]
  /\ \A c \in Checkers :
       /\ checker[c].at \in {"compared", "told"} => checker[c].changed = Changed(file, checker[c].seen)
       /\ checker[c].at = "compared" /\ file = NoState => BelievesSeen(c)
       /\ checker[c].at = "told" => BelievesSeen(c)
       /\ checker[c].at = "saving" => file = NoState /\ BelievesSeen(c)

BoardInv == BoardTypeOK /\ OneAtWork /\ (~atOnce => ReaderFollows)

CheckerBecomes(c, v) == v \in Checker /\ checker' = [checker EXCEPT ![c] = v]

LEMMA CheckerBecomesWhat ==
  ASSUME BoardTypeOK, NEW c \in Checkers, NEW v, CheckerBecomes(c, v)
  PROVE  /\ checker' \in [Checkers -> Checker]
         /\ checker'[c] = v
         /\ \A d \in Checkers \ {c} : checker'[d] = checker[d]
BY DEF BoardTypeOK, CheckerBecomes

LEMMA CheckersAre ==
  ASSUME BoardTypeOK, NEW c \in Checkers
  PROVE  /\ checker[c] \in Checker /\ checker[c].changed \subseteq Issues
         /\ checker[c].seen \in Layout
BY DEF BoardTypeOK, Checker

LEMMA IdleCheckerTyped == IdleChecker \in Checker /\ IdleChecker.at = "idle"
BY DEF IdleChecker, Checker, Layout

LEMMA ChangedAre ==
  ASSUME NEW p, NEW q
  PROVE  /\ Changed(p, q) \subseteq Issues
         /\ p # NoState => \A i \in Issues \ Changed(p, q) : p[i] = q[i]
BY DEF Changed

\* A step of a process at work while the others rest: it remains to look at
\* that process and at the file.
LEMMA WorkStep ==
  ASSUME BoardInv, NEW c \in Checkers, NEW v, CheckerBecomes(c, v), ~Resting(c),
         UNCHANGED <<board, moves, atOnce>>,
         file' \in Layout \cup {NoState}, told' \in Layout, mishaps' \in 0..MaxMishaps,
         missed' \subseteq Issues,
         ~atOnce =>
           /\ v.at # "told" /\ file' # NoState => \A i \in Issues \ missed' : told'[i] = file'[i]
           /\ v.at \in {"compared", "told"} => v.changed = Changed(file', v.seen)
           /\ v.at = "compared" /\ file' = NoState => \A i \in Issues \ missed' : told'[i] = v.seen[i]
           /\ v.at = "told" => \A i \in Issues \ missed' : told'[i] = v.seen[i]
           /\ v.at = "saving" => file' = NoState /\ \A i \in Issues \ missed' : told'[i] = v.seen[i]
  PROVE  BoardInv'
<1>1. /\ checker' \in [Checkers -> Checker] /\ checker'[c] = v
      /\ \A d \in Checkers \ {c} : checker'[d] = checker[d]
  BY CheckerBecomesWhat DEF BoardInv
<1>2. BoardTypeOK'
  BY <1>1 DEF BoardInv, BoardTypeOK
<1>3. OneAtWork'
  BY <1>1 DEF BoardInv, OneAtWork, Resting
<1>4. ASSUME ~atOnce PROVE ReaderFollows'
  <2>1. \A d \in Checkers \ {c} : checker'[d].at = "idle"
    BY <1>1, <1>4 DEF BoardInv, OneAtWork, Resting
  <2>2. (\A d \in Checkers : checker'[d].at # "told") /\ file' # NoState
          => \A i \in Issues \ missed' : told'[i] = file'[i]
    BY <1>1, <1>4
  <2>3. ASSUME NEW d \in Checkers
        PROVE  /\ checker'[d].at \in {"compared", "told"} =>
                    checker'[d].changed = Changed(file', checker'[d].seen)
               /\ checker'[d].at = "compared" /\ file' = NoState => BelievesSeen(d)'
               /\ checker'[d].at = "told" => BelievesSeen(d)'
               /\ checker'[d].at = "saving" => file' = NoState /\ BelievesSeen(d)'
    <3>1. CASE d = c
      BY <1>1, <1>4, <3>1 DEF BelievesSeen
    <3>2. CASE d # c
      BY <2>1, <3>2
    <3> QED BY <3>1, <3>2
  <2> QED BY <2>2, <2>3 DEF ReaderFollows, Changed, NoState
<1> QED BY <1>2, <1>3, <1>4 DEF BoardInv

\* What is true of the process at work, and of the file while it compares.
LEMMA AtWork ==
  ASSUME BoardInv, NEW c \in Checkers, ~atOnce, ~Resting(c)
  PROVE  /\ checker[c].at \in {"compared", "told"} => checker[c].changed = Changed(file, checker[c].seen)
         /\ checker[c].at = "compared" /\ file = NoState =>
              \A i \in Issues \ missed : told[i] = checker[c].seen[i]
         /\ checker[c].at \in {"told", "saving"} =>
              \A i \in Issues \ missed : told[i] = checker[c].seen[i]
         /\ checker[c].at = "saving" => file = NoState
         /\ checker[c].at # "told" /\ file # NoState => \A i \in Issues \ missed : told[i] = file[i]
<1>1. \A d \in Checkers \ {c} : checker[d].at = "idle"
  BY DEF BoardInv, OneAtWork, Resting
<1>2. ReaderFollows
  BY DEF BoardInv
<1> QED BY <1>1, <1>2 DEF ReaderFollows, BelievesSeen

LEMMA FetchBoardKeeps ==
  ASSUME BoardInv, NEW c \in Checkers, FetchBoard(c)
  PROVE  BoardInv'
<1> DEFINE v == [checker[c] EXCEPT !.at = "fetched", !.seen = FirstPage(board)]
<1>1. checker' = [checker EXCEPT ![c] = v] /\ UNCHANGED <<board, file, told, moves, mishaps, missed>>
  BY DEF FetchBoard
<1>2. atOnce' = (atOnce \/ \E d \in Checkers : checker[d].at # "idle")
  BY DEF FetchBoard
<1>3. atOnce' \in BOOLEAN /\ (~atOnce' => ~atOnce /\ \A d \in Checkers : checker[d].at = "idle")
  BY <1>2, Zenon
<1>4. FirstPage(board) \in Layout
  BY DEF FirstPage, Layout, BoardInv, BoardTypeOK
<1>5. v \in Checker /\ v.at = "fetched"
  BY <1>4, CheckersAre DEF Checker, BoardInv
<1> HIDE DEF v
<1>6. /\ checker' \in [Checkers -> Checker] /\ checker'[c] = v
      /\ \A d \in Checkers \ {c} : checker'[d] = checker[d]
  BY <1>1, <1>5, CheckerBecomesWhat DEF CheckerBecomes, BoardInv
<1>7. BoardTypeOK'
  BY <1>1, <1>3, <1>6 DEF BoardInv, BoardTypeOK
<1>8. OneAtWork'
  BY <1>3, <1>6 DEF OneAtWork, Resting
<1>9. ~atOnce' => ReaderFollows'
  <2> SUFFICES ASSUME ~atOnce' PROVE ReaderFollows'
    OBVIOUS
  <2>1. \A d \in Checkers : checker'[d].at \in {"idle", "fetched"}
    BY <1>3, <1>5, <1>6
  <2>2. file # NoState => \A i \in Issues \ missed : told[i] = file[i]
    BY <1>3 DEF BoardInv, ReaderFollows
  <2> QED BY <1>1, <2>1, <2>2 DEF ReaderFollows, NoState
<1> QED BY <1>7, <1>8, <1>9 DEF BoardInv

LEMMA CompareKeeps ==
  ASSUME BoardInv, NEW c \in Checkers, Compare(c)
  PROVE  BoardInv'
<1> DEFINE diff == Changed(file, checker[c].seen)
           v == [checker[c] EXCEPT !.at = "compared", !.changed = diff]
<1>1. /\ checker[c].at = "fetched" /\ checker' = [checker EXCEPT ![c] = v]
      /\ UNCHANGED <<board, file, told, moves, mishaps, atOnce>>
      /\ missed' = IF file = NoState THEN missed \cup {i \in Issues : told[i] # checker[c].seen[i]} ELSE missed
  BY DEF Compare
<1>2. diff \subseteq Issues
  BY ChangedAre
<1> HIDE DEF diff
<1>3. v \in Checker /\ v.at = "compared" /\ v.changed = diff /\ v.seen = checker[c].seen
  BY <1>2, CheckersAre DEF Checker, BoardInv
<1> HIDE DEF v
<1>4. missed \subseteq missed' /\ missed' \subseteq Issues
  BY <1>1 DEF BoardInv, BoardTypeOK
<1>5. file = NoState => \A i \in Issues \ missed' : told[i] = v.seen[i]
  BY <1>1, <1>3
<1>6. ~atOnce /\ file # NoState => \A i \in Issues \ missed' : told[i] = file[i]
  BY <1>1, <1>4, AtWork DEF Resting
<1>7. diff = Changed(file', v.seen)
  BY <1>1, <1>3 DEF diff
<1>8. CheckerBecomes(c, v) /\ ~Resting(c)
  BY <1>1, <1>3 DEF CheckerBecomes, Resting
<1> QED BY <1>1, <1>3, <1>4, <1>5, <1>6, <1>7, <1>8, WorkStep DEF BoardInv, BoardTypeOK

LEMMA ToldKeeps ==
  ASSUME BoardInv, NEW c \in Checkers, NEW covered, covered \subseteq checker[c].changed,
         Told(c, covered), UNCHANGED <<board, file, moves, atOnce>>, mishaps' \in 0..MaxMishaps
  PROVE  BoardInv'
<1> DEFINE v == [checker[c] EXCEPT !.at = "told"]
<1>1. /\ checker[c].at = "compared" /\ checker' = [checker EXCEPT ![c] = v]
      /\ told' = [i \in Issues |-> IF i \in covered THEN checker[c].seen[i] ELSE told[i]]
      /\ missed' = (missed \ covered) \cup (checker[c].changed \ covered)
  BY DEF Told
<1>2. v \in Checker /\ v.at = "told" /\ v.changed = checker[c].changed /\ v.seen = checker[c].seen
  BY CheckersAre DEF Checker, BoardInv
<1> HIDE DEF v
<1>3. told' \in Layout /\ missed' \subseteq Issues
  BY <1>1, CheckersAre DEF BoardInv, BoardTypeOK, Layout
<1>4. CheckerBecomes(c, v) /\ ~Resting(c)
  BY <1>1, <1>2 DEF CheckerBecomes, Resting
<1>5. ASSUME ~atOnce, NEW i \in Issues \ missed'
      PROVE  told'[i] = v.seen[i]
  <2>1. CASE i \in covered
    BY <1>1, <1>2, <2>1
  <2>2. CASE i \notin covered
    <3>1. i \notin missed /\ i \notin checker[c].changed /\ told'[i] = told[i]
      BY <1>1, <1>5, <2>2
    <3>2. checker[c].changed = Changed(file, checker[c].seen)
      BY <1>1, <1>4, <1>5, AtWork
    <3>3. CASE file = NoState
      BY <1>1, <1>2, <1>4, <1>5, <3>1, <3>3, AtWork
    <3>4. CASE file # NoState
      <4>1. told[i] = file[i]
        BY <1>1, <1>4, <1>5, <3>1, <3>4, AtWork
      <4>2. file[i] = checker[c].seen[i]
        BY <3>1, <3>2, <3>4, ChangedAre
      <4> QED BY <1>2, <3>1, <4>1, <4>2
    <3> QED BY <3>3, <3>4
  <2> QED BY <2>1, <2>2
<1>6. ~atOnce => v.changed = Changed(file', v.seen)
  BY <1>1, <1>2, <1>4, AtWork
<1> QED BY <1>2, <1>3, <1>4, <1>5, <1>6, WorkStep DEF BoardInv, BoardTypeOK

LEMMA MessageKeeps ==
  ASSUME BoardInv, NEW c \in Checkers,
         (\E covered \in SUBSET checker[c].changed : SendMessage(c, covered)) \/ MessageLost(c)
  PROVE  BoardInv'
<1>1. MaxMishaps \in Nat /\ mishaps \in 0..MaxMishaps
  BY BoardAssumption DEF BoardInv, BoardTypeOK
<1>2. ASSUME NEW covered \in SUBSET checker[c].changed, SendMessage(c, covered)
      PROVE  BoardInv'
  BY <1>1, <1>2, ToldKeeps DEF SendMessage
<1>3. CASE MessageLost(c)
  <2>1. mishaps' \in 0..MaxMishaps
    BY <1>1, <1>3 DEF MessageLost
  <2>2. {} \subseteq checker[c].changed
    OBVIOUS
  <2> QED BY <1>3, <2>1, <2>2, ToldKeeps DEF MessageLost
<1> QED BY <1>2, <1>3

LEMMA SaveKeeps ==
  ASSUME BoardInv, NEW c \in Checkers, BeginSave(c) \/ EndSave(c)
  PROVE  BoardInv'
<1>1. CASE BeginSave(c)
  <2> DEFINE v == [checker[c] EXCEPT !.at = "saving"]
  <2>1. /\ checker[c].at = "told" /\ checker' = [checker EXCEPT ![c] = v] /\ file' = NoState
        /\ UNCHANGED <<board, told, moves, mishaps, missed, atOnce>>
    BY <1>1 DEF BeginSave
  <2>2. v \in Checker /\ v.at = "saving" /\ v.seen = checker[c].seen
    BY CheckersAre DEF Checker, BoardInv
  <2> HIDE DEF v
  <2>3. CheckerBecomes(c, v) /\ ~Resting(c)
    BY <2>1, <2>2 DEF CheckerBecomes, Resting
  <2>4. ~atOnce => \A i \in Issues \ missed' : told'[i] = v.seen[i]
    BY <2>1, <2>2, <2>3, AtWork
  <2> QED BY <2>1, <2>2, <2>3, <2>4, WorkStep DEF BoardInv, BoardTypeOK
<1>2. CASE EndSave(c)
  <2>1. /\ checker[c].at = "saving" /\ file' = checker[c].seen
        /\ checker' = [checker EXCEPT ![c] = IdleChecker]
        /\ UNCHANGED <<board, told, moves, mishaps, missed, atOnce>>
    BY <1>2 DEF EndSave
  <2>2. CheckerBecomes(c, IdleChecker) /\ ~Resting(c)
    BY <2>1, IdleCheckerTyped DEF CheckerBecomes, Resting
  <2>3. ~atOnce => \A i \in Issues \ missed' : told'[i] = file'[i]
    BY <2>1, <2>2, AtWork
  <2>4. file' \in Layout
    BY <2>1, CheckersAre DEF BoardInv
  <2> QED BY <2>1, <2>2, <2>3, <2>4, IdleCheckerTyped, WorkStep DEF BoardInv, BoardTypeOK
<1> QED BY <1>1, <1>2

LEMMA CheckerDiesKeeps ==
  ASSUME BoardInv, NEW c \in Checkers, CheckerDies(c)
  PROVE  BoardInv'
<1>1. /\ checker[c].at # "idle" /\ checker' = [checker EXCEPT ![c] = IdleChecker]
      /\ mishaps < MaxMishaps /\ mishaps' = mishaps + 1
      /\ missed' = IF checker[c].at \in {"told", "saving"} THEN missed \cup checker[c].changed ELSE missed
      /\ UNCHANGED <<board, file, told, moves, atOnce>>
  BY DEF CheckerDies
<1>2. mishaps' \in 0..MaxMishaps
  BY <1>1, BoardAssumption DEF BoardInv, BoardTypeOK
<1>3. CheckerBecomes(c, IdleChecker) /\ ~Resting(c)
  BY <1>1, IdleCheckerTyped DEF CheckerBecomes, Resting
<1>4. missed \subseteq missed' /\ missed' \subseteq Issues
  BY <1>1, CheckersAre DEF BoardInv, BoardTypeOK
<1>5. ASSUME ~atOnce, file # NoState, NEW i \in Issues \ missed'
      PROVE  told[i] = file[i]
  <2>1. CASE checker[c].at = "told"
    <3>1. i \notin checker[c].changed /\ i \notin missed
      BY <1>1, <1>4, <1>5, <2>1
    <3>2. told[i] = checker[c].seen[i] /\ checker[c].changed = Changed(file, checker[c].seen)
      BY <1>3, <1>5, <2>1, <3>1, AtWork
    <3> QED BY <1>5, <3>1, <3>2, ChangedAre
  <2>2. CASE checker[c].at # "told"
    BY <1>3, <1>4, <1>5, <2>2, AtWork
  <2> QED BY <2>1, <2>2
<1> QED BY <1>1, <1>2, <1>3, <1>4, <1>5, IdleCheckerTyped, WorkStep DEF BoardInv, BoardTypeOK

LEMMA MovesKeeps ==
  ASSUME BoardInv, NEW i \in Issues, NEW column \in Columns \cup {Off}, Moves(i, column)
  PROVE  BoardInv'
<1>1. board' = [board EXCEPT ![i] = column] /\ moves < MaxMoves /\ moves' = moves + 1
      /\ UNCHANGED <<file, told, checker, mishaps, missed, atOnce>>
  BY DEF Moves
<1>2. moves' \in 0..MaxMoves
  BY <1>1, BoardAssumption DEF BoardInv, BoardTypeOK
<1>3. BoardTypeOK'
  BY <1>1, <1>2 DEF BoardInv, BoardTypeOK, Layout
<1>4. OneAtWork' /\ (~atOnce' => ReaderFollows')
  BY <1>1 DEF BoardInv, OneAtWork, Resting, ReaderFollows, BelievesSeen
<1> QED BY <1>3, <1>4 DEF BoardInv

LEMMA BoardInitHolds == BoardInit => BoardInv
<1> SUFFICES ASSUME BoardInit
             PROVE  BoardInv
  OBVIOUS
<1>1. /\ board \in Layout /\ file = NoState /\ told = [i \in Issues |-> Off]
      /\ checker = [c \in Checkers |-> IdleChecker] /\ moves = 0 /\ mishaps = 0 /\ missed = {}
  BY DEF BoardInit
<1>2. atOnce \in BOOLEAN
  BY Zenon DEF BoardInit
<1>3. 0 \in 0..MaxMoves /\ 0 \in 0..MaxMishaps
  BY BoardAssumption
<1>4. BoardTypeOK
  BY <1>1, <1>2, <1>3, IdleCheckerTyped DEF BoardTypeOK, Layout
<1>5. \A c \in Checkers : checker[c].at = "idle"
  BY <1>1, IdleCheckerTyped
<1> QED BY <1>1, <1>4, <1>5 DEF BoardInv, OneAtWork, Resting, ReaderFollows

LEMMA BoardSteps == BoardInv /\ [BoardNext]_boardVars => BoardInv'
<1> SUFFICES ASSUME BoardInv, [BoardNext]_boardVars
             PROVE  BoardInv'
  OBVIOUS
<1>1. ASSUME NEW i \in Issues, NEW column \in Columns \cup {Off}, Moves(i, column) PROVE BoardInv'
  BY <1>1, MovesKeeps
<1>2. ASSUME NEW c \in Checkers, FetchBoard(c) PROVE BoardInv'
  BY <1>2, FetchBoardKeeps
<1>3. ASSUME NEW c \in Checkers, Compare(c) PROVE BoardInv'
  BY <1>3, CompareKeeps
<1>4. ASSUME NEW c \in Checkers,
             (\E covered \in SUBSET checker[c].changed : SendMessage(c, covered)) \/ MessageLost(c)
      PROVE  BoardInv'
  BY <1>4, MessageKeeps
<1>5. ASSUME NEW c \in Checkers, BeginSave(c) \/ EndSave(c) PROVE BoardInv'
  BY <1>5, SaveKeeps
<1>6. ASSUME NEW c \in Checkers, CheckerDies(c) PROVE BoardInv'
  BY <1>6, CheckerDiesKeeps
<1>7. CASE UNCHANGED boardVars
  BY <1>7 DEF boardVars, BoardInv, BoardTypeOK, OneAtWork, Resting, ReaderFollows, BelievesSeen,
              Changed, NoState
<1> QED BY <1>1, <1>2, <1>3, <1>4, <1>5, <1>6, <1>7 DEF BoardNext

LEMMA BoardInvHolds == BoardSpec => []BoardInv
BY BoardInitHolds, BoardSteps, PTL DEF BoardSpec

\* Who follows the channel knows what the state file says, except of changes
\* that were lost, cut or told too early (github_monitor_service.py:71, 77).
THEOREM ReadersKnow == BoardSpec => []ReadersAreUpToDate
<1>1. BoardInv => ReadersAreUpToDate
  BY DEF BoardInv, ReaderFollows, ReadersAreUpToDate
<1> QED BY <1>1, BoardInvHolds, PTL

-----------------------------------------------------------------------------
(***************************************************************************)
(* Side by side each component does what it does alone.                    *)
(***************************************************************************)
LEMMA EachAlone ==
  SideSpec => AuthSpec /\ MoneySpec /\ NotifySpec /\ BoardSpec /\ StatusSpec /\ ClientSpec
<1>1. SideInit => AuthInit /\ MoneyInit /\ NotifyInit /\ BoardInit /\ StatusInit /\ ClientInit
  BY DEF SideInit
<1>2. [SideNext]_sideVars =>
        /\ [AuthNext]_authVars /\ [MoneyNext]_moneyVars /\ [NotifyNext]_notifyVars
        /\ [BoardNext]_boardVars /\ [StatusNext]_statusVars /\ [ClientNext]_clientVars
  BY DEF SideNext, sideVars, AuthMoves, MoneyMoves, NotifyMoves, BoardMoves, StatusMoves, ClientMoves
<1> QED BY <1>1, <1>2, PTL
        DEF SideSpec, AuthSpec, MoneySpec, NotifySpec, BoardSpec, StatusSpec, ClientSpec

\* Every component keeps its types beside the others.
THEOREM SideTypesCorrect == SideSpec => []TypesOK
<1>1. SideInit => part \in Parts
  BY DEF SideInit
<1>2. part \in Parts /\ [SideNext]_sideVars => (part \in Parts)'
  BY DEF SideNext, sideVars, AuthMoves, MoneyMoves, NotifyMoves, BoardMoves, StatusMoves, ClientMoves
<1>3. SideSpec => [](part \in Parts)
  BY <1>1, <1>2, PTL DEF SideSpec
<1>4. BoardInv => BoardTypeOK
  BY DEF BoardInv
<1>5. StatusInv => StatusTypeOK
  BY DEF StatusInv
<1>6. ClientInv => ClientTypeOK
  BY DEF ClientInv
<1>7. /\ part \in Parts /\ AuthTypeOK /\ MoneyTypeOK /\ NotifyTypeOK
      /\ BoardTypeOK /\ StatusTypeOK /\ ClientTypeOK
      => TypesOK
  BY DEF TypesOK
<1> QED BY <1>3, <1>4, <1>5, <1>6, <1>7, EachAlone, TypeCorrect, MoneyTypeCorrect,
           NotifyTypeCorrect, BoardInvHolds, StatusInvHolds, ClientInvHolds, PTL

\* What is proved of the components alone holds of the six side by side.
THEOREM SidePromises ==
  SideSpec => /\ []Lockout /\ []CodeUsedOnce /\ NonceNeverReturns
              /\ []LinesRounded /\ []HeaderMatchesSummary
              /\ []DocumentBalances /\ []CopyKeepsAmounts
              /\ []DeliveryIsRecordedTruly
              /\ []ReadersAreUpToDate
              /\ []GapsAreRaced
              /\ []RefusalsHaveACause
BY EachAlone, LockedInTime, CodeOnce, NonceGone, EveryLineRounded, HeaderIsSummed,
   DocumentIsSummed, CopyIsTrue, RecordsAreTrue, ReadersKnow, GapsRaced, RefusalsCaused, PTL

=============================================================================
