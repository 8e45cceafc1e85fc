------------------------------ MODULE KsefClient ------------------------------
(***************************************************************************)
(* The KSeF client object of one process, which keeps an access token and  *)
(* two public keys of the ministry, and which all threads use without a    *)
(* lock.  The requests of the web process send invoices, when one is       *)
(* approved or tried again, and fetch them; the scheduler's process has    *)
(* one thread, the tick, which asks for statuses and fetches.              *)
(***************************************************************************)
EXTENDS Naturals

CONSTANTS
  Requests,     \* threads of the web process
  TickThread,   \* the thread of the scheduler's process
  NoKey,        \* an empty cache entry
  MaxRotations  \* bound: replacements of a public key

ASSUME ClientAssumption ==
  /\ TickThread \notin Requests
  /\ NoKey \notin Nat
  /\ MaxRotations \in Nat

VARIABLES
  users,      \* the threads of the process at hand
  current,    \* external: the keys that KSeF accepts, counted from 0
  access,     \* whether there is an access token whose validUntil is to come
  cache,      \* the certificate and the id kept of each key
  call        \* what each thread is doing

clientVars == <<users, current, access, cache, call>>

Keys == {"token", "session"}

Serials == 0..MaxRotations

\* A certificate and a publicKeyId; KSeF accepts the two only together.
Pair == [der: Serials \cup {NoKey}, id: Serials \cup {NoKey}]

NoPair == [der |-> NoKey, id |-> NoKey]

PairOf(serial) == [der |-> serial, id |-> serial]

\* What other threads may do to a call: empty the cache or store a replaced key.
Crossing == {"emptied", "misled"}

\* `key` is the key that the call is about, `pair` what it has of it.
Call ==
  [at: {"idle", "keying", "confirming", "taking", "pairing", "fetching", "storing", "naming",
        "asking", "working", "emptying", "unnaming", "refused", "broken"},
   sends: BOOLEAN, key: Keys, pair: Pair, retried: BOOLEAN,
   outdated: BOOLEAN, rotated: BOOLEAN, crossed: SUBSET Crossing]

NoCall ==
  [at |-> "idle", sends |-> FALSE, key |-> "token", pair |-> NoPair, retried |-> FALSE,
   outdated |-> FALSE, rotated |-> FALSE, crossed |-> {}]

ClientThreads == Requests \cup {TickThread}

ClientInit ==
  /\ users \in {Requests, {TickThread}}
  /\ current = [k \in Keys |-> 0]
  /\ access = FALSE
  /\ cache = [k \in Keys |-> NoPair]
  /\ call = [u \in ClientThreads |-> NoCall]

\* A call that succeeds, or fails for a reason of its own, is forgotten.
AtRest(u) == call[u].at \in {"idle", "refused", "broken"}

GoesTo(u, at) == call' = [call EXCEPT ![u].at = at]

\* The key in hand has been used.
PutsDown(u, at) == call' = [call EXCEPT ![u].at = at, ![u].pair = NoPair]

Ends(u) == call' = [call EXCEPT ![u] = NoCall]

\* History: the calls of the other threads are crossed.
Crosses(u, how, c) ==
  call' = [t \in ClientThreads |->
             IF t = u THEN c
             ELSE IF AtRest(t) THEN call[t]
             ELSE [call[t] EXCEPT !.crossed = @ \cup how]]

UpToDate(half, k) == half \in {NoKey, current[k]}

-----------------------------------------------------------------------------
\* _ensure_authenticated: an access token that has not lapsed is used as it is.
BeginCall(u, sends) ==
  /\ AtRest(u)
  /\ sends => u \in Requests
  /\ call' = [call EXCEPT ![u] =
       [NoCall EXCEPT !.at = IF access THEN "working" ELSE "keying",
                      !.sends = sends,
                      !.outdated = /\ ~access
                                   /\ \/ ~UpToDate(cache["token"].der, "token")
                                      \/ ~UpToDate(cache["token"].id, "token")]]
  /\ UNCHANGED <<users, current, access, cache>>

\* Mutant: the certificate alone is tested.
SeeCertificateOnly(u) ==
  /\ call[u].at = "keying"
  /\ GoesTo(u, IF cache[call[u].key].der # NoKey THEN "taking" ELSE "fetching")
  /\ UNCHANGED <<users, current, access, cache>>

(***************************************************************************)
(* `if self._der and self._id: return self._der, self._id` reads the cache *)
(* four times, without asking whether the key is still in use.             *)
(***************************************************************************)
SeeCertificate(u) ==
  /\ call[u].at = "keying"
  /\ GoesTo(u, IF cache[call[u].key].der # NoKey THEN "confirming" ELSE "fetching")
  /\ UNCHANGED <<users, current, access, cache>>

SeeKeyId(u) ==
  /\ call[u].at = "confirming"
  /\ GoesTo(u, IF cache[call[u].key].id # NoKey THEN "taking" ELSE "fetching")
  /\ UNCHANGED <<users, current, access, cache>>

TakeCertificate(u) ==
  /\ call[u].at = "taking"
  /\ call' = [call EXCEPT ![u].at = "pairing", ![u].pair.der = cache[call[u].key].der]
  /\ UNCHANGED <<users, current, access, cache>>

TakeKeyId(u) ==
  /\ call[u].at = "pairing"
  /\ call[u].pair.der # NoKey
  /\ call' = [call EXCEPT ![u].at = "asking", ![u].pair.id = cache[call[u].key].id]
  /\ UNCHANGED <<users, current, access, cache>>

\* load_der_x509_certificate(None) raises a TypeError, which no retry catches.
NoCertificate(u) ==
  /\ call[u].at = "pairing"
  /\ call[u].pair.der = NoKey
  /\ GoesTo(u, "broken")
  /\ UNCHANGED <<users, current, access, cache>>

\* Otherwise the current key is fetched, and its certificate and its id are
\* stored one after the other.
FetchKey(u) ==
  /\ call[u].at = "fetching"
  /\ call' = [call EXCEPT ![u].at = "storing", ![u].pair = PairOf(current[call[u].key])]
  /\ UNCHANGED <<users, current, access, cache>>

MisledBy(half, k) == IF half = current[k] THEN {} ELSE {"misled"}

StoreCertificate(u) ==
  LET c == call[u] IN
  /\ c.at = "storing"
  /\ cache' = [cache EXCEPT ![c.key].der = c.pair.der]
  /\ Crosses(u, MisledBy(c.pair.der, c.key), [c EXCEPT !.at = "naming"])
  /\ UNCHANGED <<users, current, access>>

StoreKeyId(u) ==
  LET c == call[u] IN
  /\ c.at = "naming"
  /\ cache' = [cache EXCEPT ![c.key].id = c.pair.id]
  /\ Crosses(u, MisledBy(c.pair.id, c.key), [c EXCEPT !.at = "asking"])
  /\ UNCHANGED <<users, current, access>>

Accepts(u) == call[u].pair = PairOf(current[call[u].key])

\* challenge, ksef-token, polling and redeem.
Authenticated(u) ==
  /\ call[u].at = "asking"
  /\ call[u].key = "token"
  /\ Accepts(u)
  /\ access' = TRUE
  /\ PutsDown(u, "working")
  /\ UNCHANGED <<users, current, cache>>

\* KSeF cannot read the token: nothing clears the key, so that the next call of
\* this process fails in the same way.
AuthenticationRefused(u) ==
  /\ call[u].at = "asking"
  /\ call[u].key = "token"
  /\ ~Accepts(u)
  /\ PutsDown(u, "refused")
  /\ UNCHANGED <<users, current, access, cache>>

-----------------------------------------------------------------------------
\* A fetch or a status request with the access token.
Requested(u) ==
  /\ call[u].at = "working"
  /\ ~call[u].sends
  /\ Ends(u)
  /\ UNCHANGED <<users, current, access, cache>>

WantsSession(u) ==
  /\ call[u].at = "working"
  /\ call[u].sends
  /\ call' = [call EXCEPT ![u].at = "keying", ![u].key = "session"]
  /\ UNCHANGED <<users, current, access, cache>>

\* The session is opened, the invoice sent and the session closed.
Sent(u) ==
  /\ call[u].at = "asking"
  /\ call[u].key = "session"
  /\ Accepts(u)
  /\ Ends(u)
  /\ UNCHANGED <<users, current, access, cache>>

\* The answer says that the key is unknown or no longer supported: both keys
\* are emptied, in four assignments, and the send is tried once more.
RetryWithNewKey(u) ==
  /\ call[u].at = "asking"
  /\ call[u].key = "session"
  /\ ~Accepts(u)
  /\ ~call[u].retried
  /\ call' = [call EXCEPT ![u] =
       [@ EXCEPT !.at = "emptying", !.key = "token", !.pair = NoPair, !.retried = TRUE]]
  /\ UNCHANGED <<users, current, access, cache>>

EmptyCertificate(u) ==
  LET c == call[u] IN
  /\ c.at = "emptying"
  /\ cache' = [cache EXCEPT ![c.key].der = NoKey]
  /\ Crosses(u, {"emptied"}, [c EXCEPT !.at = "unnaming"])
  /\ UNCHANGED <<users, current, access>>

AfterEmptying(k) == IF k = "token" THEN "emptying" ELSE "keying"

EmptyKeyId(u) ==
  LET c == call[u] IN
  /\ c.at = "unnaming"
  /\ cache' = [cache EXCEPT ![c.key].id = NoKey]
  /\ Crosses(u, {"emptied"}, [c EXCEPT !.at = AfterEmptying(c.key), !.key = "session"])
  /\ UNCHANGED <<users, current, access>>

SessionRefused(u) ==
  /\ call[u].at = "asking"
  /\ call[u].key = "session"
  /\ ~Accepts(u)
  /\ call[u].retried
  /\ PutsDown(u, "refused")
  /\ UNCHANGED <<users, current, access, cache>>

\* The network, KSeF itself, or an access token that lapsed during the call.
CallFails(u) ==
  /\ call[u].at \in {"fetching", "asking", "working"}
  /\ Ends(u)
  /\ UNCHANGED <<users, current, access, cache>>

-----------------------------------------------------------------------------
\* The ministry replaces a key; the old one is refused from then on.
Rotate(k) ==
  /\ current[k] < MaxRotations
  /\ current' = [current EXCEPT ![k] = @ + 1]
  /\ call' = [u \in ClientThreads |-> [call[u] EXCEPT !.rotated = @ \/ ~AtRest(u)]]
  /\ UNCHANGED <<users, access, cache>>

AccessLapses ==
  /\ access
  /\ access' = FALSE
  /\ UNCHANGED <<users, current, cache, call>>

RestartProcess ==
  /\ access' = FALSE
  /\ cache' = [k \in Keys |-> NoPair]
  /\ call' = [u \in ClientThreads |-> NoCall]
  /\ UNCHANGED <<users, current>>

ClientNext ==
  \/ \E u \in users :
       \/ \E sends \in BOOLEAN : BeginCall(u, sends)
       \/ SeeCertificate(u)
       \/ SeeKeyId(u)
       \/ TakeCertificate(u)
       \/ TakeKeyId(u)
       \/ NoCertificate(u)
       \/ FetchKey(u)
       \/ StoreCertificate(u)
       \/ StoreKeyId(u)
       \/ Authenticated(u)
       \/ AuthenticationRefused(u)
       \/ Requested(u)
       \/ WantsSession(u)
       \/ Sent(u)
       \/ RetryWithNewKey(u)
       \/ EmptyCertificate(u)
       \/ EmptyKeyId(u)
       \/ SessionRefused(u)
       \/ CallFails(u)
  \/ \E k \in Keys : Rotate(k)
  \/ AccessLapses
  \/ RestartProcess

ClientSpec == ClientInit /\ [][ClientNext]_clientVars

-----------------------------------------------------------------------------
\* Keys, caches and calls have their types.
ClientTypeOK ==
  /\ users \in {Requests, {TickThread}}
  /\ current \in [Keys -> Serials]
  /\ access \in BOOLEAN
  /\ cache \in [Keys -> Pair]
  /\ call \in [ClientThreads -> Call]

\* A key that the ministry replaces between two calls costs no send
\* (real_client.py:73), however the threads of a process read, store and empty
\* the halves of the cache in between each other: who is refused had a key
\* replaced during the call, or another thread stored a replaced one or emptied
\* the cache meanwhile, or it kept the token's replaced key and the access
\* token had lapsed.  Only an emptied cache leaves a call without a certificate.
RefusalsHaveACause ==
  \A u \in users :
    /\ call[u].at = "refused" =>
         \/ call[u].rotated
         \/ call[u].crossed # {}
         \/ call[u].key = "token" /\ call[u].outdated
    /\ call[u].at = "broken" => "emptied" \in call[u].crossed

=============================================================================
