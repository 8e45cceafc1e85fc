---------------------------- MODULE AuthSession ----------------------------
(***************************************************************************)
(* Entering the system with one account: the login form and its TOTP step, *)
(* HTTP Basic of the API, logout and the administrator's changes.  They    *)
(* share the app_user row, which every request reads without a lock and    *)
(* writes back at its commit.                                              *)
(***************************************************************************)
EXTENDS Naturals, FiniteSets

CONSTANTS
  Visits,        \* web requests on this account that may be open at once
  NoNonce,       \* metadata without ui_session_nonce
  MaxNonces,     \* bound: session nonces drawn
  MaxClock,      \* bound: 30-second steps of the clock
  MaxChanges     \* bound: changes by an administrator

ASSUME AuthAssumption ==
  /\ IsFiniteSet(Visits)
  /\ NoNonce \notin Nat
  /\ MaxNonces \in Nat
  /\ MaxClock \in Nat \ {0}
  /\ MaxChanges \in Nat

VARIABLES
  account,      \* the committed app_user row
  visit,        \* what each open request has loaded and will write
  pending,      \* a browser holds an unexpired totp_pending token
  tokens,       \* nonces for which a session token was issued
  clock,        \* number of the current 30-second step
  drawn,        \* nonces drawn so far
  changes,      \* changes by an administrator so far
  wrong,        \* history: wrong answers recorded since the last entry or unlocking
  opened,       \* history: how many sessions were opened with a code of each step
  past,         \* history: nonces that are or have been current
  crossed       \* history: two requests have been open at once

authVars == <<account, visit, pending, tokens, clock, drawn, changes,
              wrong, opened, past, crossed>>

MaxFailedLoginAttempts == 3

Nonces == 1..MaxNonces

\* `meta` is one JSON column and is written as a whole.
Account ==
  [exists: BOOLEAN, active: BOOLEAN, locked: BOOLEAN, totp: BOOLEAN, failed: Nat,
   meta: [nonce: Nonces \cup {NoNonce}, step: 0..MaxClock]]

Outcome == {"wrong", "basic", "session", "code", "changed"}

Visit == [open: BOOLEAN, saw: Account, set: Account, outcome: Outcome]

NewAccount(totp) ==
  [exists |-> TRUE, active |-> TRUE, locked |-> FALSE, totp |-> totp, failed |-> 0,
   meta |-> [nonce |-> NoNonce, step |-> 0]]

NoVisit ==
  [open |-> FALSE, saw |-> NewAccount(FALSE), set |-> NewAccount(FALSE),
   outcome |-> "wrong"]

AuthInit ==
  /\ account \in {NewAccount(totp) : totp \in BOOLEAN}
  /\ visit = [t \in Visits |-> NoVisit]
  /\ pending = FALSE
  /\ tokens = {}
  /\ clock = 1
  /\ drawn = 0
  /\ changes = 0
  /\ wrong = 0
  /\ opened = [s \in 0..MaxClock |-> 0]
  /\ past = {NoNonce}
  /\ crossed = FALSE

-----------------------------------------------------------------------------
\* Mutant: the comparison is off by one.
RecordedLate(row) ==
  [row EXCEPT !.failed = @ + 1, !.locked = @ \/ row.failed + 1 > MaxFailedLoginAttempts]

Recorded(row) ==
  [row EXCEPT !.failed = @ + 1, !.locked = @ \/ row.failed + 1 >= MaxFailedLoginAttempts]

Reset(row) == [row EXCEPT !.failed = 0]

Fresh == drawn + 1

\* Mutant: the metadata are rebuilt instead of copied.
RotatedAlone(row) == [row EXCEPT !.meta = [nonce |-> Fresh, step |-> 0]]

Rotated(row) == [row EXCEPT !.meta.nonce = Fresh]

Enterable(row) == row.exists /\ row.active /\ ~row.locked

\* A request that has loaded the row and decided what its commit will write.
Loads(t, outcome, set) ==
  /\ ~visit[t].open
  /\ visit' = [visit EXCEPT ![t] = [open |-> TRUE, saw |-> account, set |-> set,
                                    outcome |-> outcome]]
  /\ crossed' = (crossed \/ \E u \in Visits : visit[u].open)
  /\ UNCHANGED <<account, pending, tokens, wrong, opened, past>>

Draws ==
  /\ drawn < MaxNonces
  /\ drawn' = drawn + 1

-----------------------------------------------------------------------------
\* A wrong password, in the form or in the API.  Nothing is recorded for an
\* account that may not be entered anyway.
BeginWrongPassword(t) ==
  /\ Enterable(account)
  /\ Loads(t, "wrong", Recorded(account))
  /\ UNCHANGED <<clock, drawn, changes>>

\* HTTP Basic with the right password writes only when there is something to
\* reset; no second factor is asked for.
BeginBasic(t) ==
  /\ Enterable(account)
  /\ account.failed > 0
  /\ Loads(t, "basic", Reset(account))
  /\ UNCHANGED <<clock, drawn, changes>>

BeginLogin(t) ==
  /\ Enterable(account)
  /\ ~account.totp
  /\ Draws
  /\ Loads(t, "session", Rotated(Reset(account)))
  /\ UNCHANGED <<clock, changes>>

\* The right password of an account with TOTP: a token for the second step.
PasswordBeforeCode ==
  /\ Enterable(account)
  /\ account.totp
  /\ pending' = TRUE
  /\ UNCHANGED <<account, visit, tokens, clock, drawn, changes, wrong, opened, past, crossed>>

PendingExpires ==
  /\ pending
  /\ pending' = FALSE
  /\ UNCHANGED <<account, visit, tokens, clock, drawn, changes, wrong, opened, past, crossed>>

\* A wrong code, or the secret has been removed since the password was given.
BeginWrongCode(t) ==
  /\ pending
  /\ Enterable(account)
  /\ Loads(t, "wrong", Recorded(account))
  /\ UNCHANGED <<clock, drawn, changes>>

\* The right code of this step.  The clock is read a second time, and may have
\* moved on, for the step that is compared and stored.
CodeRead(step) ==
  /\ pending
  /\ Enterable(account)
  /\ account.totp
  /\ step \in {clock, clock + 1}
  /\ step <= MaxClock
  /\ clock' = step

BeginReusedCode(t, step) ==
  /\ CodeRead(step)
  /\ account.meta.step = step
  /\ Loads(t, "wrong", Recorded(account))
  /\ UNCHANGED <<drawn, changes>>

\* Mutant: the metadata with the step are stored after the rotation.
BeginCodeStoredLast(t, step) ==
  /\ CodeRead(step)
  /\ account.meta.step # step
  /\ Draws
  /\ Loads(t, "code", [Reset(account) EXCEPT !.meta.step = step])
  /\ UNCHANGED changes

BeginCode(t, step) ==
  /\ CodeRead(step)
  /\ account.meta.step # step
  /\ Draws
  /\ Loads(t, "code", [Rotated(Reset(account)) EXCEPT !.meta.step = step])
  /\ UNCHANGED changes

\* _resolve_ui_user: the token's nonce must be the current one.
SessionResolves == Enterable(account) /\ account.meta.nonce \in tokens

BeginLogout(t) ==
  /\ SessionResolves
  /\ Draws
  /\ Loads(t, "changed", Rotated(account))
  /\ UNCHANGED <<clock, changes>>

-----------------------------------------------------------------------------
(***************************************************************************)
(* The administrator.                                                      *)
(***************************************************************************)
Administers(t, set) ==
  /\ account.exists
  /\ changes < MaxChanges
  /\ changes' = changes + 1
  /\ Loads(t, "changed", set)
  /\ UNCHANGED clock

\* The edit form: both checkboxes are written as they were sent, however old
\* the page; the counter is left alone.
BeginEditUser(t, active, locked) ==
  /\ Administers(t, [account EXCEPT !.active = active, !.locked = locked])
  /\ UNCHANGED drawn

\* The same form with a new password.
BeginSetPassword(t, active, locked) ==
  /\ Administers(t, Rotated(Reset([account EXCEPT !.active = active, !.locked = locked])))
  /\ Draws

BeginUnlock(t) ==
  /\ Administers(t, Reset([account EXCEPT !.locked = FALSE]))
  /\ UNCHANGED drawn

\* totp-reset stores a new secret, totp-disable removes it.
BeginSetTotp(t, totp) ==
  /\ Administers(t, [account EXCEPT !.totp = totp])
  /\ UNCHANGED drawn

DeleteUser ==
  /\ account.exists
  /\ changes < MaxChanges
  /\ changes' = changes + 1
  /\ account' = [account EXCEPT !.exists = FALSE]
  /\ UNCHANGED <<visit, pending, tokens, clock, drawn, wrong, opened, past, crossed>>

-----------------------------------------------------------------------------
\* The columns that differ from what was loaded are written.
Column(now, saw, set) == IF set = saw THEN now ELSE set

Written(v) ==
  [exists |-> TRUE,
   active |-> Column(account.active, v.saw.active, v.set.active),
   locked |-> Column(account.locked, v.saw.locked, v.set.locked),
   totp |-> Column(account.totp, v.saw.totp, v.set.totp),
   failed |-> Column(account.failed, v.saw.failed, v.set.failed),
   meta |-> Column(account.meta, v.saw.meta, v.set.meta)]

Closes(t) == visit' = [visit EXCEPT ![t] = NoVisit]

\* What the commit means for the count of wrong answers: entering, unlocking
\* and a new password end it.
WrongAfter(v) ==
  CASE v.outcome = "wrong" -> wrong + 1
    [] v.outcome \in {"basic", "session", "code"} -> 0
    [] v.outcome = "changed" ->
         IF v.set.failed < v.saw.failed \/ (v.saw.locked /\ ~v.set.locked) THEN 0 ELSE wrong

\* The token is made from the nonce the request has drawn, not from the row.
TokensAfter(v) == IF v.outcome \in {"session", "code"} THEN tokens \cup {v.set.meta.nonce} ELSE tokens

CommitVisit(t) ==
  LET v == visit[t] IN
  /\ v.open
  /\ account.exists
  /\ account' = Written(v)
  /\ past' = past \cup {Written(v).meta.nonce}
  /\ wrong' = WrongAfter(v)
  /\ tokens' = TokensAfter(v)
  /\ opened' = IF v.outcome = "code" THEN [opened EXCEPT ![v.set.meta.step] = @ + 1] ELSE opened
  /\ Closes(t)
  /\ UNCHANGED <<pending, clock, drawn, changes, crossed>>

\* The commit is refused because the row is gone, or the thread dies.
AbandonVisit(t) ==
  /\ visit[t].open
  /\ Closes(t)
  /\ UNCHANGED <<account, pending, tokens, clock, drawn, changes, wrong, opened, past, crossed>>

ClockTicks ==
  /\ clock < MaxClock
  /\ clock' = clock + 1
  /\ UNCHANGED <<account, visit, pending, tokens, drawn, changes, wrong, opened, past, crossed>>

AuthNext ==
  \/ \E t \in Visits :
       \/ BeginWrongPassword(t)
       \/ BeginBasic(t)
       \/ BeginLogin(t)
       \/ BeginWrongCode(t)
       \/ \E step \in 1..MaxClock : BeginReusedCode(t, step) \/ BeginCode(t, step)
       \/ BeginLogout(t)
       \/ \E active, locked \in BOOLEAN :
            BeginEditUser(t, active, locked) \/ BeginSetPassword(t, active, locked)
       \/ BeginUnlock(t)
       \/ \E totp \in BOOLEAN : BeginSetTotp(t, totp)
       \/ CommitVisit(t)
       \/ AbandonVisit(t)
  \/ PasswordBeforeCode
  \/ PendingExpires
  \/ DeleteUser
  \/ ClockTicks

AuthSpec == AuthInit /\ [][AuthNext]_authVars

-----------------------------------------------------------------------------
\* The row, the requests and the counters have their types; a nonce is drawn
\* before it is stored or handed out.
AuthTypeOK ==
  /\ account \in Account
  /\ visit \in [Visits -> Visit]
  /\ pending \in BOOLEAN
  /\ drawn \in 0..MaxNonces
  /\ tokens \subseteq 1..drawn
  /\ past \subseteq 1..drawn \cup {NoNonce}
  /\ clock \in 0..MaxClock
  /\ changes \in 0..MaxChanges
  /\ wrong \in Nat
  /\ opened \in [0..MaxClock -> Nat]
  /\ crossed \in BOOLEAN

\* Logout and a password change end every session for good: a nonce that was
\* replaced never becomes current again, although every request writes back a
\* copy of metadata that it loaded earlier (ui/routes.py:144, 495).
NonceNeverReturns ==
  [][account'.meta.nonce # account.meta.nonce => account'.meta.nonce \notin past]_authVars

\* The lockout comes although counts are lost (core/security.py:37).  Answers
\* that come one after another lock the account at the third, whichever of the
\* three entrances they use.  With n requests at once, a count goes back only to
\* a value that one of them has loaded, so at most n + n(n+1)/2 wrong answers
\* are taken while the account is open.
WrongTaken(n) == n + (n * (n + 1)) \div 2

Lockout ==
  account.exists /\ ~account.locked =>
    wrong <= IF crossed THEN WrongTaken(Cardinality(Visits)) ELSE MaxFailedLoginAttempts - 1

\* Until two requests overlap, one session is opened per stored time step
\* (ui/routes.py:481), whatever else rewrites the metadata in between.  The code
\* itself may be taken twice at the border of two steps, because the clock is
\* read again after the code was verified (474, 480).
CodeUsedOnce == ~crossed => \A s \in 0..MaxClock : opened[s] <= 1

=============================================================================
