------------------------- MODULE AuthSessionProofs -------------------------
(***************************************************************************)
(* Theorems about AuthSession for any number of requests.                  *)
(***************************************************************************)
EXTENDS AuthSession, FiniteSetTheorems, TLAPS

(***************************************************************************)
(* What an open request knows of the row, and what it will write.          *)
(***************************************************************************)
\* A request that is about to replace the nonce writes one that was never
\* current and that no other request is about to write.
NoncesOK ==
  /\ account.meta.nonce \in past
  /\ \A t \in Visits : visit[t].open /\ visit[t].set.meta # visit[t].saw.meta =>
       /\ visit[t].set.meta.nonce \in 1..drawn
       /\ visit[t].set.meta.nonce \notin past
       /\ \A u \in Visits \ {t} :
            visit[u].open /\ visit[u].set.meta # visit[u].saw.meta =>
              visit[u].set.meta.nonce # visit[t].set.meta.nonce
  /\ \A t \in Visits : visit[t].open /\ visit[t].outcome \in {"session", "code"} =>
       visit[t].set.meta # visit[t].saw.meta

\* Until two requests overlap, the one that is open has read the current row,
\* and the row's step is the last one for which a session was opened.
StepsOK ==
  ~crossed =>
    /\ account.meta.step <= clock
    /\ \A s \in 0..MaxClock :
         /\ opened[s] <= 1
         /\ s > account.meta.step => opened[s] = 0
    /\ \A t \in Visits : visit[t].open =>
         /\ \A u \in Visits \ {t} : ~visit[u].open
         /\ visit[t].saw.meta = account.meta
         /\ visit[t].set.meta.step <= clock
         /\ IF visit[t].outcome = "code"
            THEN visit[t].set.meta.step > account.meta.step
            ELSE visit[t].set.meta.step = account.meta.step

\* Until two requests overlap, the counter is at least the number of wrong
\* answers, and an account that is not locked is below the limit.
CountsOK ==
  ~crossed =>
    /\ wrong <= account.failed
    /\ ~account.locked => wrong < MaxFailedLoginAttempts
    /\ \A t \in Visits : visit[t].open =>
         /\ \A u \in Visits \ {t} : ~visit[u].open
         /\ visit[t].saw.failed = account.failed
         /\ visit[t].saw.locked = account.locked
         /\ visit[t].outcome = "wrong" => visit[t].set = Recorded(visit[t].saw)
         /\ visit[t].outcome # "wrong" => visit[t].set.failed \in {0, visit[t].saw.failed}
         /\ visit[t].outcome \in {"basic", "session", "code"} =>
              visit[t].set.locked = visit[t].saw.locked

IInv == AuthTypeOK /\ NoncesOK /\ StepsOK /\ CountsOK

-----------------------------------------------------------------------------
(***************************************************************************)
(* The fourteen handlers that load the row differ only in what follows.    *)
(***************************************************************************)
\* A handler that loads the row: whether it draws a nonce, and what it writes.
Begins(t, outcome, set) ==
  /\ Loads(t, outcome, set)
  /\ changes' \in 0..MaxChanges
  /\ clock' \in clock..MaxClock
  /\ \/ set.meta = account.meta /\ outcome \notin {"session", "code"} /\ drawn' = drawn
     \/ Draws /\ set.meta.nonce = Fresh
  /\ IF outcome = "code" THEN set.meta.step = clock' /\ set.meta.step # account.meta.step
                         ELSE set.meta.step = account.meta.step
  /\ outcome = "wrong" => set = Recorded(account) /\ ~account.locked
  /\ outcome # "wrong" => set.failed \in {0, account.failed}
  /\ outcome \in {"basic", "session", "code"} => set.locked = account.locked

BeginsSomehow(t) == \E outcome \in Outcome, set \in Account : Begins(t, outcome, set)

\* A row with a fresh nonce is a row.
LEMMA RotatedRow ==
  ASSUME NEW row \in Account, AuthTypeOK, drawn < MaxNonces
  PROVE  /\ Rotated(row) \in Account
         /\ Rotated(row).meta.nonce = Fresh
         /\ Rotated(row).meta.step = row.meta.step
         /\ Rotated(row).failed = row.failed
         /\ Rotated(row).locked = row.locked
<1>1. Fresh \in Nonces
  BY AuthAssumption DEF AuthTypeOK, Fresh, Nonces
<1>2. row.meta \in [nonce: Nonces \cup {NoNonce}, step: 0..MaxClock]
  BY DEF Account
<1> DEFINE meta == [row.meta EXCEPT !.nonce = Fresh]
<1>3. /\ meta \in [nonce: Nonces \cup {NoNonce}, step: 0..MaxClock]
      /\ meta.nonce = Fresh
      /\ meta.step = row.meta.step
  BY <1>1, <1>2
<1>4. Rotated(row) = [row EXCEPT !.meta = meta]
  BY DEF Rotated, Account
<1> HIDE DEF meta
<1> QED
  BY <1>3, <1>4 DEF Account

\* A row whose counter is reset is a row.
LEMMA ResetRow ==
  ASSUME NEW row \in Account
  PROVE  /\ Reset(row) \in Account
         /\ Reset(row).meta = row.meta
         /\ Reset(row).failed = 0
         /\ Reset(row).locked = row.locked
BY DEF Reset, Account

\* So is one with another wrong answer, whose metadata are as they were.
LEMMA RecordedRow ==
  ASSUME NEW row \in Account
  PROVE  /\ Recorded(row) \in Account
         /\ Recorded(row).meta = row.meta
         /\ Recorded(row).failed = row.failed + 1
         /\ ~Recorded(row).locked => row.failed + 1 < MaxFailedLoginAttempts
<1> DEFINE locked == row.locked \/ row.failed + 1 >= MaxFailedLoginAttempts
<1>1. locked \in BOOLEAN
  BY Zenon
<1>2. Recorded(row) = [row EXCEPT !.failed = row.failed + 1, !.locked = locked]
  BY DEF Recorded, Account
<1>3. ~locked => row.failed + 1 < MaxFailedLoginAttempts
  BY DEF Account, MaxFailedLoginAttempts
<1> HIDE DEF locked
<1>4. row.failed + 1 \in Nat
  BY DEF Account
<1>5. Recorded(row).locked = locked
  BY <1>2 DEF Account
<1> QED
  BY <1>1, <1>2, <1>3, <1>4, <1>5 DEF Account

\* A wrong password or code leaves the metadata alone.
LEMMA WrongBegins ==
  ASSUME NEW t \in Visits, IInv,
         \/ BeginWrongPassword(t)
         \/ BeginWrongCode(t)
         \/ \E step \in 1..MaxClock : BeginReusedCode(t, step)
  PROVE  BeginsSomehow(t)
<1>1. account \in Account /\ clock \in 0..MaxClock /\ changes \in 0..MaxChanges
  BY DEF IInv, AuthTypeOK
<1>2. Loads(t, "wrong", Recorded(account)) /\ drawn' = drawn /\ changes' = changes
  BY DEF BeginWrongPassword, BeginWrongCode, BeginReusedCode
<1>3. clock' \in clock..MaxClock
  BY <1>1, AuthAssumption DEF BeginWrongPassword, BeginWrongCode, BeginReusedCode, CodeRead
<1>4. ~account.locked
  BY DEF BeginWrongPassword, BeginWrongCode, BeginReusedCode, CodeRead, Enterable
<1>5. Begins(t, "wrong", Recorded(account))
  BY <1>1, <1>2, <1>3, <1>4, RecordedRow DEF Begins
<1> QED
  BY <1>1, <1>5, RecordedRow DEF BeginsSomehow, Outcome

\* The handlers that let somebody in.
LEMMA EntranceBegins ==
  ASSUME NEW t \in Visits, IInv,
         \/ BeginBasic(t)
         \/ BeginLogin(t)
         \/ \E step \in 1..MaxClock : BeginCode(t, step)
  PROVE  BeginsSomehow(t)
<1>1. /\ account \in Account /\ clock \in 0..MaxClock /\ changes \in 0..MaxChanges
      /\ clock \in clock..MaxClock
  BY AuthAssumption DEF IInv, AuthTypeOK
<1> DEFINE reset == Reset(account)
<1>2. reset \in Account /\ reset.meta = account.meta /\ reset.failed = 0 /\ reset.locked = account.locked
  BY <1>1, ResetRow
<1>3. CASE BeginBasic(t)
  <2>1. Begins(t, "basic", reset)
    BY <1>1, <1>2, <1>3 DEF BeginBasic, Begins
  <2> QED
    BY <1>2, <2>1 DEF BeginsSomehow, Outcome
<1>4. CASE BeginLogin(t)
  <2>1. drawn < MaxNonces
    BY <1>4 DEF BeginLogin, Draws
  <2>2. /\ Rotated(reset) \in Account
        /\ Rotated(reset).meta.nonce = Fresh
        /\ Rotated(reset).meta.step = reset.meta.step
        /\ Rotated(reset).failed = 0
        /\ Rotated(reset).locked = reset.locked
    BY <1>2, <2>1, RotatedRow DEF IInv
  <2>3. Begins(t, "session", Rotated(reset))
    BY <1>1, <1>2, <1>4, <2>2 DEF BeginLogin, Begins
  <2> QED
    BY <2>2, <2>3 DEF BeginsSomehow, Outcome
<1>5. ASSUME NEW step \in 1..MaxClock, BeginCode(t, step)
      PROVE  BeginsSomehow(t)
  <2>1. /\ drawn < MaxNonces /\ clock' = step /\ step \in clock..MaxClock
        /\ account.meta.step # step
    BY <1>1, <1>5, AuthAssumption DEF BeginCode, Draws, CodeRead
  <2> DEFINE set == [Rotated(reset) EXCEPT !.meta.step = step]
  <2>2. /\ Rotated(reset) \in Account
        /\ Rotated(reset).meta.nonce = Fresh
        /\ Rotated(reset).failed = 0
        /\ Rotated(reset).locked = reset.locked
    BY <1>2, <2>1, RotatedRow DEF IInv
  <2>3. step \in 0..MaxClock
    BY AuthAssumption
  <2>4. /\ set \in Account /\ set.meta.nonce = Fresh /\ set.meta.step = step
        /\ set.failed = 0 /\ set.locked = account.locked
    BY <1>2, <2>2, <2>3 DEF Account
  <2>5. Loads(t, "code", set) /\ Draws /\ changes' = changes
    BY <1>5 DEF BeginCode
  <2> HIDE DEF set
  <2>6. Begins(t, "code", set)
    BY <1>1, <2>1, <2>4, <2>5 DEF Begins
  <2> QED
    BY <2>4, <2>6 DEF BeginsSomehow, Outcome
<1> QED
  BY <1>3, <1>4, <1>5

\* Logout and the administrator's forms.
LEMMA ChangeBegins ==
  ASSUME NEW t \in Visits, IInv,
         \/ BeginLogout(t)
         \/ \E active, locked \in BOOLEAN : BeginEditUser(t, active, locked) \/ BeginSetPassword(t, active, locked)
         \/ BeginUnlock(t)
         \/ \E totp \in BOOLEAN : BeginSetTotp(t, totp)
  PROVE  BeginsSomehow(t)
<1>1. /\ account \in Account /\ clock \in 0..MaxClock /\ changes \in 0..MaxChanges
      /\ clock \in clock..MaxClock
  BY AuthAssumption DEF IInv, AuthTypeOK
<1>2. ASSUME NEW set \in Account, Loads(t, "changed", set),
             clock' = clock, changes' \in 0..MaxChanges,
             set.failed \in {0, account.failed}, set.meta.step = account.meta.step,
             \/ set.meta = account.meta /\ drawn' = drawn
             \/ Draws /\ set.meta.nonce = Fresh
      PROVE  BeginsSomehow(t)
  BY <1>1, <1>2 DEF Begins, BeginsSomehow, Outcome
<1>3. ASSUME NEW set, Administers(t, set)
      PROVE  Loads(t, "changed", set) /\ clock' = clock /\ changes' \in 0..MaxChanges
  BY <1>1, <1>3, AuthAssumption DEF Administers
<1>4. CASE BeginLogout(t)
  <2>1. Loads(t, "changed", Rotated(account)) /\ Draws /\ clock' = clock /\ changes' = changes
    BY <1>4 DEF BeginLogout
  <2>2. /\ Rotated(account) \in Account
        /\ Rotated(account).meta.nonce = Fresh
        /\ Rotated(account).meta.step = account.meta.step
        /\ Rotated(account).failed = account.failed
    BY <1>1, <2>1, RotatedRow DEF Draws, IInv
  <2> QED
    BY <1>1, <1>2, <2>1, <2>2
<1>5. ASSUME NEW active \in BOOLEAN, NEW locked \in BOOLEAN, BeginEditUser(t, active, locked)
      PROVE  BeginsSomehow(t)
  <2> DEFINE set == [account EXCEPT !.active = active, !.locked = locked]
  <2>1. set \in Account /\ set.failed = account.failed /\ set.meta = account.meta
    BY <1>1 DEF Account
  <2>2. Administers(t, set) /\ drawn' = drawn
    BY <1>5 DEF BeginEditUser
  <2> HIDE DEF set
  <2> QED
    BY <1>2, <1>3, <2>1, <2>2
<1>6. ASSUME NEW active \in BOOLEAN, NEW locked \in BOOLEAN, BeginSetPassword(t, active, locked)
      PROVE  BeginsSomehow(t)
  <2> DEFINE flags == [account EXCEPT !.active = active, !.locked = locked]
  <2>1. flags \in Account /\ flags.meta = account.meta
    BY <1>1 DEF Account
  <2>2. Administers(t, Rotated(Reset(flags))) /\ Draws
    BY <1>6 DEF BeginSetPassword
  <2> HIDE DEF flags
  <2>3. Reset(flags) \in Account /\ Reset(flags).meta = flags.meta /\ Reset(flags).failed = 0
    BY <2>1, ResetRow
  <2>4. /\ Rotated(Reset(flags)) \in Account
        /\ Rotated(Reset(flags)).meta.nonce = Fresh
        /\ Rotated(Reset(flags)).meta.step = account.meta.step
        /\ Rotated(Reset(flags)).failed = 0
    BY <2>1, <2>2, <2>3, RotatedRow DEF Draws, IInv
  <2> QED
    BY <1>2, <1>3, <2>2, <2>4
<1>7. CASE BeginUnlock(t)
  <2> DEFINE open == [account EXCEPT !.locked = FALSE]
  <2>1. open \in Account /\ open.meta = account.meta
    BY <1>1 DEF Account
  <2>2. Administers(t, Reset(open)) /\ drawn' = drawn
    BY <1>7 DEF BeginUnlock
  <2> HIDE DEF open
  <2>3. Reset(open) \in Account /\ Reset(open).meta = open.meta /\ Reset(open).failed = 0
    BY <2>1, ResetRow
  <2> QED
    BY <1>2, <1>3, <2>1, <2>2, <2>3
<1>8. ASSUME NEW totp \in BOOLEAN, BeginSetTotp(t, totp)
      PROVE  BeginsSomehow(t)
  <2> DEFINE set == [account EXCEPT !.totp = totp]
  <2>1. set \in Account /\ set.failed = account.failed /\ set.meta = account.meta
    BY <1>1 DEF Account
  <2>2. Administers(t, set) /\ drawn' = drawn
    BY <1>8 DEF BeginSetTotp
  <2> HIDE DEF set
  <2> QED
    BY <1>2, <1>3, <2>1, <2>2
<1> QED
  BY <1>4, <1>5, <1>6, <1>7, <1>8

\* What the handlers do besides: the steps that do not touch the row's metadata
\* or its counter, nor any open request.
Quiet ==
  /\ UNCHANGED <<visit, drawn, tokens, wrong, opened, past, crossed>>
  /\ account' = account \/ account' = [account EXCEPT !.exists = FALSE]
  /\ pending' \in BOOLEAN
  /\ clock' \in clock..MaxClock
  /\ changes' \in 0..MaxChanges

LEMMA QuietSteps ==
  ASSUME IInv,
         \/ PasswordBeforeCode
         \/ PendingExpires
         \/ DeleteUser
         \/ ClockTicks
         \/ UNCHANGED authVars
  PROVE  Quiet
<1>1. pending \in BOOLEAN
  BY DEF IInv, AuthTypeOK
<1>2. pending' \in BOOLEAN
  <2>1. PasswordBeforeCode => pending' = TRUE
    BY DEF PasswordBeforeCode
  <2>2. PendingExpires => pending' = FALSE
    BY DEF PendingExpires
  <2>3. DeleteUser \/ ClockTicks \/ UNCHANGED authVars => pending' = pending
    BY DEF DeleteUser, ClockTicks, authVars
  <2> QED
    BY <1>1, <2>1, <2>2, <2>3, Zenon
<1>3. clock \in clock..MaxClock /\ changes \in 0..MaxChanges
  BY AuthAssumption DEF IInv, AuthTypeOK
<1>4. clock' \in clock..MaxClock /\ changes' \in 0..MaxChanges
  BY <1>3, AuthAssumption DEF PasswordBeforeCode, PendingExpires, DeleteUser, ClockTicks, authVars
<1>5. /\ UNCHANGED <<visit, drawn, tokens, wrong, opened, past, crossed>>
      /\ account' = account \/ account' = [account EXCEPT !.exists = FALSE]
  BY Zenon DEF PasswordBeforeCode, PendingExpires, DeleteUser, ClockTicks, authVars
<1> QED
  BY <1>2, <1>4, <1>5, Zenon DEF Quiet

\* Every step is one of four.
LEMMA StepsAre ==
  ASSUME IInv, [AuthNext]_authVars
  PROVE  \/ \E t \in Visits : BeginsSomehow(t) \/ CommitVisit(t) \/ AbandonVisit(t)
         \/ Quiet
BY WrongBegins, EntranceBegins, ChangeBegins, QuietSteps DEF AuthNext

-----------------------------------------------------------------------------
\* What a commit writes is a row, and its metadata are the request's when these
\* differ from what it loaded.
LEMMA WrittenRow ==
  ASSUME NEW t \in Visits, IInv
  PROVE  /\ Written(visit[t]) \in Account
         /\ Written(visit[t]).meta = Column(account.meta, visit[t].saw.meta, visit[t].set.meta)
         /\ Written(visit[t]).failed = Column(account.failed, visit[t].saw.failed, visit[t].set.failed)
         /\ Written(visit[t]).locked = Column(account.locked, visit[t].saw.locked, visit[t].set.locked)
BY DEF IInv, AuthTypeOK, Visit, Account, Written, Column

-----------------------------------------------------------------------------
\* The initial row is nobody's, and no request is open.
LEMMA InitOK == AuthInit => IInv
<1> SUFFICES ASSUME AuthInit PROVE IInv
  OBVIOUS
<1>1. \A totp \in BOOLEAN : NewAccount(totp) \in Account /\ NewAccount(totp).meta.nonce = NoNonce
                              /\ NewAccount(totp).meta.step = 0 /\ NewAccount(totp).failed = 0
                              /\ NewAccount(totp).locked = FALSE
  BY AuthAssumption DEF NewAccount, Account
<1>2. NoVisit \in Visit /\ NoVisit.open = FALSE
  BY <1>1 DEF NoVisit, Visit, Outcome
<1>3. account \in Account /\ account.meta.nonce = NoNonce /\ account.meta.step = 0 /\ account.failed = 0
  BY <1>1 DEF AuthInit
<1>4. 1 \in 0..MaxClock
  BY AuthAssumption
<1>5. /\ visit = [t \in Visits |-> NoVisit] /\ \A t \in Visits : visit[t].open = FALSE
      /\ pending = FALSE /\ crossed = FALSE
      /\ tokens = {} /\ clock = 1 /\ drawn = 0 /\ changes = 0 /\ wrong = 0
      /\ opened = [s \in 0..MaxClock |-> 0] /\ past = {NoNonce}
  BY <1>2 DEF AuthInit
<1>6. AuthTypeOK
  <2>1. pending \in BOOLEAN /\ crossed \in BOOLEAN
    BY <1>5, Zenon
  <2>2. visit \in [Visits -> Visit] /\ opened \in [0..MaxClock -> Nat]
    BY <1>2, <1>5
  <2> QED
    BY <1>3, <1>4, <1>5, <2>1, <2>2, AuthAssumption DEF AuthTypeOK
<1>7. NoncesOK
  BY <1>3, <1>5 DEF NoncesOK
<1>8. StepsOK
  BY <1>3, <1>5 DEF StepsOK
<1>9. CountsOK
  BY <1>3, <1>5 DEF CountsOK, MaxFailedLoginAttempts
<1> QED
  BY <1>6, <1>7, <1>8, <1>9 DEF IInv

\* A handler that loads the row: what it will write is fresh, later than the
\* row's step, and counts what it has read.
LEMMA BeginOK ==
  ASSUME NEW t \in Visits, IInv, BeginsSomehow(t)
  PROVE  IInv'
<1>1. PICK outcome \in Outcome, set \in Account : Begins(t, outcome, set)
  BY DEF BeginsSomehow
<1> DEFINE new == [open |-> TRUE, saw |-> account, set |-> set, outcome |-> outcome]
<1>2. /\ ~visit[t].open
      /\ visit' = [visit EXCEPT ![t] = new]
      /\ UNCHANGED <<account, pending, tokens, wrong, opened, past>>
  BY <1>1 DEF Begins, Loads
<1>3. /\ new \in Visit
      /\ visit'[t] = new
      /\ \A u \in Visits \ {t} : visit'[u] = visit[u]
      /\ visit' \in [Visits -> Visit]
  BY <1>1, <1>2 DEF Visit, IInv, AuthTypeOK
<1>4. /\ crossed' \in BOOLEAN
      /\ ~crossed' => ~crossed /\ \A u \in Visits : ~visit[u].open
  BY <1>1, Zenon DEF Begins, Loads
<1>5. /\ drawn \in 0..MaxNonces /\ drawn' \in 0..MaxNonces /\ drawn <= drawn'
      /\ \/ set.meta = account.meta
         \/ set.meta.nonce \in 1..drawn' /\ set.meta.nonce \notin past /\ set.meta.nonce \notin 1..drawn
  BY <1>1, AuthAssumption DEF IInv, AuthTypeOK, Begins, Draws, Fresh
<1>6. clock \in 0..MaxClock /\ clock' \in clock..MaxClock /\ changes' \in 0..MaxChanges
  BY <1>1 DEF IInv, AuthTypeOK, Begins
<1>7. AuthTypeOK'
  BY <1>2, <1>3, <1>4, <1>5, <1>6, AuthAssumption DEF IInv, AuthTypeOK
<1>8. NoncesOK'
  <2>1. \A u \in Visits \ {t} : visit[u].open /\ visit[u].set.meta # visit[u].saw.meta =>
          visit[u].set.meta.nonce \in 1..drawn
    BY DEF IInv, NoncesOK
  <2>2. account.meta.nonce \in past
    BY DEF IInv, NoncesOK
  <2>3. outcome \in {"session", "code"} => set.meta # account.meta
    <3>1. outcome \in {"session", "code"} => set.meta.nonce = Fresh
      BY <1>1 DEF Begins
    <3>2. Fresh \notin past
      BY AuthAssumption DEF IInv, AuthTypeOK, Fresh
    <3> QED
      BY <2>2, <3>1, <3>2
  <2> QED
    BY <1>2, <1>3, <1>5, <2>1, <2>3 DEF IInv, NoncesOK
<1>9. StepsOK'
  <2> SUFFICES ASSUME ~crossed' PROVE StepsOK'
    BY DEF StepsOK
  <2>1. /\ account.meta.step <= clock
        /\ \A s \in 0..MaxClock : opened[s] <= 1 /\ (s > account.meta.step => opened[s] = 0)
    BY <1>4 DEF IInv, StepsOK
  <2>2. account.meta.step \in 0..MaxClock
    BY DEF IInv, AuthTypeOK, Account
  <2>3. IF outcome = "code" THEN set.meta.step = clock' /\ set.meta.step > account.meta.step
                            ELSE set.meta.step = account.meta.step
    BY <1>1, <1>6, <2>1, <2>2, AuthAssumption DEF Begins
  <2>4. account.meta.step <= clock' /\ set.meta.step <= clock'
    BY <1>6, <2>1, <2>2, <2>3, AuthAssumption
  <2> QED
    BY <1>2, <1>3, <1>4, <2>1, <2>3, <2>4 DEF StepsOK
<1>10. CountsOK'
  <2> SUFFICES ASSUME ~crossed' PROVE CountsOK'
    BY DEF CountsOK
  <2>1. /\ outcome = "wrong" => set = Recorded(account)
        /\ outcome # "wrong" => set.failed \in {0, account.failed}
        /\ outcome \in {"basic", "session", "code"} => set.locked = account.locked
    BY <1>1 DEF Begins
  <2> QED
    BY <1>2, <1>3, <1>4, <2>1 DEF IInv, CountsOK
<1> QED
  BY <1>7, <1>8, <1>9, <1>10 DEF IInv

\* A request that is given up leaves everything else as it was.
LEMMA AbandonOK ==
  ASSUME NEW t \in Visits, IInv, AbandonVisit(t)
  PROVE  IInv'
<1>1. NoVisit \in Visit /\ NoVisit.open = FALSE
  BY AuthAssumption DEF NoVisit, Visit, Outcome, NewAccount, Account
<1>2. /\ visit'[t].open = FALSE
      /\ \A u \in Visits \ {t} : visit'[u] = visit[u]
      /\ visit' \in [Visits -> Visit]
      /\ UNCHANGED <<account, pending, tokens, clock, drawn, changes, wrong, opened, past, crossed>>
  BY <1>1 DEF AbandonVisit, Closes, IInv, AuthTypeOK
<1>3. AuthTypeOK'
  BY <1>2 DEF IInv, AuthTypeOK
<1>4. NoncesOK'
  BY <1>2 DEF IInv, NoncesOK
<1>5. StepsOK'
  BY <1>2 DEF IInv, StepsOK
<1>6. CountsOK'
  BY <1>2 DEF IInv, CountsOK
<1> QED
  BY <1>3, <1>4, <1>5, <1>6 DEF IInv

\* Neither do the steps that leave the metadata and the counter alone.
LEMMA QuietOK ==
  ASSUME IInv, Quiet
  PROVE  IInv'
<1>1. /\ account' \in Account
      /\ account'.meta = account.meta
      /\ account'.failed = account.failed
      /\ account'.locked = account.locked
  BY DEF IInv, AuthTypeOK, Account, Quiet
<1>2. /\ UNCHANGED <<visit, drawn, tokens, wrong, opened, past, crossed>>
      /\ pending' \in BOOLEAN
      /\ clock' \in clock..MaxClock
      /\ changes' \in 0..MaxChanges
  BY Zenon DEF Quiet
<1>3. clock \in 0..MaxClock
  BY DEF IInv, AuthTypeOK
<1>4. AuthTypeOK'
  BY <1>1, <1>2, <1>3, AuthAssumption DEF IInv, AuthTypeOK
<1>5. NoncesOK'
  BY <1>1, <1>2 DEF IInv, NoncesOK
<1>6. StepsOK'
  <2>1. \A t \in Visits : visit[t].set.meta.step \in Nat
    BY DEF IInv, AuthTypeOK, Visit, Account
  <2>2. account.meta.step \in Nat
    BY DEF IInv, AuthTypeOK, Account
  <2> QED
    BY <1>1, <1>2, <1>3, <2>1, <2>2, AuthAssumption DEF IInv, StepsOK
<1>7. CountsOK'
  BY <1>1, <1>2 DEF IInv, CountsOK
<1> QED
  BY <1>4, <1>5, <1>6, <1>7 DEF IInv

\* A commit: the nonce becomes current for the first time, the step goes up,
\* the counter is that of the row.
LEMMA CommitOK ==
  ASSUME NEW t \in Visits, IInv, CommitVisit(t)
  PROVE  IInv'
<1> DEFINE v == visit[t]
<1>1. /\ v.open /\ v \in Visit
      /\ account' = Written(v)
      /\ past' = past \cup {account'.meta.nonce}
      /\ wrong' = WrongAfter(v)
      /\ tokens' = TokensAfter(v)
      /\ opened' = IF v.outcome = "code" THEN [opened EXCEPT ![v.set.meta.step] = @ + 1] ELSE opened
      /\ UNCHANGED <<pending, clock, drawn, changes, crossed>>
  BY DEF CommitVisit, IInv, AuthTypeOK
<1>2. NoVisit \in Visit /\ NoVisit.open = FALSE
  BY AuthAssumption DEF NoVisit, Visit, Outcome, NewAccount, Account
<1>3. /\ visit'[t].open = FALSE
      /\ \A u \in Visits \ {t} : visit'[u] = visit[u]
      /\ visit' \in [Visits -> Visit]
  BY <1>2 DEF CommitVisit, Closes, IInv, AuthTypeOK
<1>4. /\ account' \in Account
      /\ account'.meta = IF v.set.meta = v.saw.meta THEN account.meta ELSE v.set.meta
      /\ account'.failed = IF v.set.failed = v.saw.failed THEN account.failed ELSE v.set.failed
      /\ account'.locked = IF v.set.locked = v.saw.locked THEN account.locked ELSE v.set.locked
  BY <1>1, WrittenRow DEF Column
<1>5. /\ v.set \in Account /\ v.saw \in Account /\ account \in Account /\ v.outcome \in Outcome
      /\ v.set.meta.step \in 0..MaxClock /\ v.set.failed \in Nat /\ v.saw.failed \in Nat
  BY <1>1 DEF Visit, Account, IInv, AuthTypeOK
<1> HIDE DEF v
<1>6. wrong' \in {0, wrong, wrong + 1} /\ wrong' \in Nat
  BY <1>1, <1>5 DEF WrongAfter, Outcome, IInv, AuthTypeOK
<1>7. NoncesOK'
  BY <1>1, <1>3, <1>4 DEF v, IInv, NoncesOK
<1>8. AuthTypeOK'
  <2>1. past' \subseteq 1..drawn \cup {NoNonce}
    <3>1. account.meta.nonce \in past /\ past \subseteq 1..drawn \cup {NoNonce}
      BY DEF IInv, AuthTypeOK, NoncesOK
    <3>2. v.set.meta # v.saw.meta => v.set.meta.nonce \in 1..drawn
      BY <1>1 DEF v, IInv, NoncesOK
    <3>3. account'.meta.nonce \in 1..drawn \cup {NoNonce}
      BY <1>4, <3>1, <3>2
    <3> QED
      BY <1>1, <3>1, <3>3
  <2>2. tokens' \subseteq 1..drawn
    <3>1. v.outcome \in {"session", "code"} => v.set.meta.nonce \in 1..drawn
      BY <1>1 DEF v, IInv, NoncesOK
    <3>2. tokens \subseteq 1..drawn
      BY DEF IInv, AuthTypeOK
    <3> QED
      BY <1>1, <3>1, <3>2 DEF TokensAfter
  <2>3. opened' \in [0..MaxClock -> Nat]
    BY <1>1, <1>5 DEF IInv, AuthTypeOK
  <2> QED
    BY <1>1, <1>3, <1>4, <1>6, <2>1, <2>2, <2>3 DEF IInv, AuthTypeOK
<1>9. StepsOK'
  <2> SUFFICES ASSUME ~crossed PROVE StepsOK'
    BY <1>1 DEF StepsOK
  <2>1. \A u \in Visits : ~visit'[u].open
    BY <1>1, <1>3 DEF v, IInv, StepsOK
  <2>2. /\ v.saw.meta = account.meta /\ account.meta.step <= clock /\ v.set.meta.step <= clock
        /\ IF v.outcome = "code" THEN v.set.meta.step > account.meta.step
                                 ELSE v.set.meta.step = account.meta.step
    BY <1>1 DEF v, IInv, StepsOK
  <2>3. account'.meta = v.set.meta
    BY <1>4, <2>2
  <2>4. \A s \in 0..MaxClock : opened'[s] <= 1 /\ (s > account'.meta.step => opened'[s] = 0)
    <3>1. \A s \in 0..MaxClock : opened[s] <= 1 /\ (s > account.meta.step => opened[s] = 0)
      BY DEF IInv, StepsOK
    <3>2. account.meta.step \in 0..MaxClock /\ opened \in [0..MaxClock -> Nat]
      BY DEF IInv, AuthTypeOK, Account
    <3>3. CASE v.outcome = "code"
      <4>1. opened' = [opened EXCEPT ![v.set.meta.step] = opened[v.set.meta.step] + 1]
        BY <1>1, <3>3
      <4>2. opened[v.set.meta.step] = 0
        BY <1>5, <2>2, <3>1, <3>3
      <4> SUFFICES ASSUME NEW s \in 0..MaxClock
                   PROVE  opened'[s] <= 1 /\ (s > v.set.meta.step => opened'[s] = 0)
        BY <2>3
      <4>3. opened'[s] = IF s = v.set.meta.step THEN 1 ELSE opened[s]
        BY <1>5, <3>2, <4>1, <4>2
      <4>4. v.set.meta.step > account.meta.step
        BY <2>2, <3>3
      <4>5. s \in Nat /\ v.set.meta.step \in Nat /\ account.meta.step \in Nat
        BY <1>5, <3>2, AuthAssumption
      <4>6. CASE s = v.set.meta.step
        BY <4>3, <4>5, <4>6
      <4>7. CASE s # v.set.meta.step
        <5>1. opened'[s] = opened[s]
          BY <4>3, <4>7
        <5>2. opened[s] <= 1 /\ (s > account.meta.step => opened[s] = 0)
          BY <3>1
        <5> QED
          BY <4>4, <4>5, <5>1, <5>2
      <4> QED
        BY <4>6, <4>7
    <3>4. CASE v.outcome # "code"
      BY <1>1, <2>2, <2>3, <3>1, <3>4
    <3> QED
      BY <3>3, <3>4
  <2> QED
    BY <1>1, <2>1, <2>2, <2>3, <2>4 DEF StepsOK
<1>10. CountsOK'
  <2> SUFFICES ASSUME ~crossed PROVE CountsOK'
    BY <1>1 DEF CountsOK
  <2>1. \A u \in Visits : ~visit'[u].open
    BY <1>1, <1>3 DEF v, IInv, CountsOK
  <2>2. /\ wrong <= account.failed
        /\ ~account.locked => wrong < MaxFailedLoginAttempts
        /\ v.saw.failed = account.failed /\ v.saw.locked = account.locked
        /\ v.outcome = "wrong" => v.set = Recorded(v.saw)
        /\ v.outcome # "wrong" => v.set.failed \in {0, v.saw.failed}
        /\ v.outcome \in {"basic", "session", "code"} => v.set.locked = v.saw.locked
    BY <1>1 DEF v, IInv, CountsOK
  <2>3. account'.failed = v.set.failed /\ account'.locked = v.set.locked
    BY <1>4, <2>2
  <2>4. wrong' <= account'.failed /\ (~account'.locked => wrong' < MaxFailedLoginAttempts)
    <3>1. CASE v.outcome = "wrong"
      <4>1. v.set.failed = v.saw.failed + 1
        BY <1>5, <2>2, <3>1, RecordedRow
      <4>2. ~v.set.locked => v.saw.failed + 1 < MaxFailedLoginAttempts
        BY <1>5, <2>2, <3>1, RecordedRow
      <4>3. wrong' = wrong + 1
        BY <1>1, <3>1 DEF WrongAfter
      <4> QED
        BY <1>5, <2>2, <2>3, <4>1, <4>2, <4>3 DEF MaxFailedLoginAttempts, IInv, AuthTypeOK
    <3>2. CASE v.outcome \in {"basic", "session", "code"}
      BY <1>1, <1>5, <2>3, <3>2 DEF WrongAfter, MaxFailedLoginAttempts
    <3>3. CASE v.outcome = "changed"
      <4>1. wrong' = IF v.set.failed < v.saw.failed \/ (v.saw.locked /\ ~v.set.locked) THEN 0 ELSE wrong
        BY <1>1, <3>3 DEF WrongAfter
      <4>2. wrong' = 0 \/ (wrong' = wrong /\ v.set.failed = v.saw.failed /\ (v.saw.locked => v.set.locked))
        BY <1>5, <2>2, <3>3, <4>1
      <4> QED
        BY <1>5, <2>2, <2>3, <4>2 DEF MaxFailedLoginAttempts
    <3> QED
      BY <1>5, <3>1, <3>2, <3>3 DEF Outcome
  <2> QED
    BY <1>1, <2>1, <2>4 DEF CountsOK
<1> QED
  BY <1>7, <1>8, <1>9, <1>10 DEF IInv

\* The invariant is inductive.
LEMMA StepOK ==
  ASSUME IInv, [AuthNext]_authVars
  PROVE  IInv'
BY StepsAre, BeginOK, CommitOK, AbandonOK, QuietOK

THEOREM Inductive == AuthSpec => []IInv
BY InitOK, StepOK, PTL DEF AuthSpec

-----------------------------------------------------------------------------
(***************************************************************************)
(* The lockout when requests overlap.  The counter goes back to k + 1 only *)
(* when a request that has loaded k commits its wrong answer, so what      *)
(* counts is how many open requests have loaded 0 and how many 1: those    *)
(* that have loaded more lock the account.                                 *)
(***************************************************************************)
\* Open requests that will record a wrong answer over a counter of k.
Waiting(k) ==
  {t \in Visits : visit[t].open /\ visit[t].outcome = "wrong" /\ visit[t].saw.failed = k}

VisitCount == Cardinality(Visits)

\* Twice the wrong answers that a requests that have loaded 0 can make room
\* for: each brings the counter back to 1, and all but the others may then
\* load that.
Room(a) == a * (2 * VisitCount + 1 - a)

LostOK ==
  /\ \A t \in Visits : visit[t].open =>
       /\ visit[t].outcome = "wrong" => visit[t].set = Recorded(visit[t].saw) /\ ~visit[t].saw.locked
       /\ visit[t].outcome # "wrong" => visit[t].set.failed \in {0, visit[t].saw.failed}
       /\ visit[t].outcome \in {"basic", "session", "code"} =>
            visit[t].set.locked = visit[t].saw.locked
  /\ account.failed = 0 => wrong = 0
  /\ ~account.locked /\ account.failed = 1 =>
       2 * wrong + 2 * VisitCount + Room(Cardinality(Waiting(0))) <= 2 * VisitCount + Room(VisitCount)
  /\ ~account.locked /\ account.failed >= 2 =>
       2 * wrong + 2 * Cardinality(Waiting(0)) + 2 * Cardinality(Waiting(1))
         + Room(Cardinality(Waiting(0))) <= 2 * VisitCount + Room(VisitCount)

\* The requests that wait are different ones, and no more than there are.
LEMMA WaitingSizes ==
  /\ VisitCount \in Nat
  /\ IsFiniteSet(Waiting(0)) /\ IsFiniteSet(Waiting(1))
  /\ Cardinality(Waiting(0)) \in Nat /\ Cardinality(Waiting(1)) \in Nat
  /\ Cardinality(Waiting(0)) + Cardinality(Waiting(1)) <= VisitCount
<1> DEFINE A == Waiting(0)
           B == Waiting(1)
<1>1. A \subseteq Visits /\ B \subseteq Visits /\ A \cap B = {}
  BY DEF Waiting
<1>2. IsFiniteSet(Visits)
  BY AuthAssumption
<1> HIDE DEF A, B
<1>3. IsFiniteSet(A) /\ IsFiniteSet(B) /\ IsFiniteSet(A \cup B)
  BY <1>1, <1>2, FS_Subset, FS_Union
<1>4. Cardinality(A \cup B) <= Cardinality(Visits)
  <2>1. A \cup B \subseteq Visits
    BY <1>1
  <2> QED
    BY <1>2, <2>1, FS_Subset
<1>5. Cardinality(A \cap B) = 0
  BY <1>1, FS_EmptySet
<1>6. Cardinality(A \cup B) = Cardinality(A) + Cardinality(B) - Cardinality(A \cap B)
  BY <1>3, FS_Union
<1>7. Cardinality(A) \in Nat /\ Cardinality(B) \in Nat /\ Cardinality(Visits) \in Nat
  BY <1>2, <1>3, FS_CardinalityType
<1>8. Cardinality(A) + Cardinality(B) <= Cardinality(Visits)
  BY <1>4, <1>5, <1>6, <1>7
<1> QED
  BY <1>3, <1>7, <1>8 DEF A, B, VisitCount

\* Room grows with the requests, one request at a time as computed.
LEMMA RoomGrows ==
  ASSUME NEW a \in Nat, NEW c \in Nat, c <= a, a <= VisitCount
  PROVE  Room(c) \in Int /\ Room(a) \in Int /\ Room(c) <= Room(a)
<1>1. VisitCount \in Nat
  BY WaitingSizes
<1>2. a - c \in Nat /\ 2 * VisitCount + 1 - a - c \in Nat
  BY <1>1
<1>3. (a - c) * (2 * VisitCount + 1 - a - c) >= 0
  BY <1>2, SMT
<1>4. a * (2 * VisitCount + 1 - a) - c * (2 * VisitCount + 1 - c) = (a - c) * (2 * VisitCount + 1 - a - c)
  BY <1>1, SMT
<1>5. a * (2 * VisitCount + 1 - a) \in Int /\ c * (2 * VisitCount + 1 - c) \in Int
  BY <1>1, SMT
<1> QED
  BY <1>3, <1>4, <1>5 DEF Room

LEMMA RoomStep ==
  ASSUME NEW a \in Nat, 1 <= a
  PROVE  Room(a) \in Int /\ Room(a - 1) \in Int /\ Room(a - 1) = Room(a) - 2 * VisitCount + 2 * a - 2
<1>1. VisitCount \in Nat
  BY WaitingSizes
<1>2. (a - 1) * (2 * VisitCount + 1 - (a - 1)) = a * (2 * VisitCount + 1 - a) - 2 * VisitCount + 2 * a - 2
  BY <1>1, SMT
<1>3. a * (2 * VisitCount + 1 - a) \in Int
  BY <1>1, SMT
<1> QED
  BY <1>1, <1>2, <1>3 DEF Room

\* Whatever waits, an account that starts to count has all the room.
LEMMA RoomAtFirst ==
  /\ 2 * VisitCount + Room(Cardinality(Waiting(0))) <= 2 * VisitCount + Room(VisitCount)
  /\ 2 * Cardinality(Waiting(0)) + 2 * Cardinality(Waiting(1)) + Room(Cardinality(Waiting(0)))
       <= 2 * VisitCount + Room(VisitCount)
<1>1. Cardinality(Waiting(0)) <= VisitCount /\ VisitCount <= VisitCount
  BY WaitingSizes
<1>2. Room(Cardinality(Waiting(0))) <= Room(VisitCount) /\ Room(VisitCount) \in Int /\ Room(Cardinality(Waiting(0))) \in Int
  BY <1>1, WaitingSizes, RoomGrows
<1> QED
  BY <1>2, WaitingSizes

\* At first nobody waits and nothing is counted.
LEMMA LostInit == AuthInit => LostOK
<1> SUFFICES ASSUME AuthInit PROVE LostOK
  OBVIOUS
<1>1. \A t \in Visits : visit[t].open = FALSE
  BY DEF AuthInit, NoVisit
<1>2. account.failed = 0 /\ wrong = 0
  BY DEF AuthInit, NewAccount
<1> QED
  BY <1>1, <1>2 DEF LostOK

\* A request that begins waits for the counter it has loaded; with a counter
\* of 0 nothing is counted yet, and with 1 there was room for it.
LEMMA LostBegins ==
  ASSUME NEW t \in Visits, IInv, LostOK, BeginsSomehow(t)
  PROVE  LostOK'
<1>1. PICK outcome \in Outcome, set \in Account : Begins(t, outcome, set)
  BY DEF BeginsSomehow
<1> DEFINE new == [open |-> TRUE, saw |-> account, set |-> set, outcome |-> outcome]
<1>2. /\ ~visit[t].open
      /\ visit' = [visit EXCEPT ![t] = new]
      /\ UNCHANGED <<account, wrong>>
  BY <1>1 DEF Begins, Loads
<1>3. visit'[t] = new /\ \A u \in Visits \ {t} : visit'[u] = visit[u]
  BY <1>2 DEF IInv, AuthTypeOK
<1>4. /\ outcome = "wrong" => set = Recorded(account) /\ ~account.locked
      /\ outcome # "wrong" => set.failed \in {0, account.failed}
      /\ outcome \in {"basic", "session", "code"} => set.locked = account.locked
  BY <1>1 DEF Begins
<1>5. \A u \in Visits : visit'[u].open =>
       /\ visit'[u].outcome = "wrong" => visit'[u].set = Recorded(visit'[u].saw) /\ ~visit'[u].saw.locked
       /\ visit'[u].outcome # "wrong" => visit'[u].set.failed \in {0, visit'[u].saw.failed}
       /\ visit'[u].outcome \in {"basic", "session", "code"} =>
            visit'[u].set.locked = visit'[u].saw.locked
  BY <1>3, <1>4 DEF LostOK
<1>6. account.failed \in Nat
  BY DEF IInv, AuthTypeOK, Account
<1>7. account.failed # 0 => Waiting(0)' = Waiting(0)
  BY <1>2, <1>3 DEF Waiting
<1>8. account.failed # 1 => Waiting(1)' = Waiting(1)
  BY <1>2, <1>3 DEF Waiting
<1>9. account.failed = 1 => Cardinality(Waiting(0)') = Cardinality(Waiting(0))
  BY <1>7
<1>10. account.failed >= 2 => /\ Cardinality(Waiting(0)') = Cardinality(Waiting(0))
                              /\ Cardinality(Waiting(1)') = Cardinality(Waiting(1))
  BY <1>6, <1>7, <1>8
<1> QED
  BY <1>2, <1>5, <1>9, <1>10 DEF LostOK, VisitCount, Room

\* A request that is given up leaves more room.
LEMMA LostAbandons ==
  ASSUME NEW t \in Visits, IInv, LostOK, AbandonVisit(t)
  PROVE  LostOK'
<1>1. NoVisit.open = FALSE
  BY DEF NoVisit
<1>2. /\ visit'[t].open = FALSE
      /\ \A u \in Visits \ {t} : visit'[u] = visit[u]
      /\ UNCHANGED <<account, wrong>>
  BY <1>1 DEF AbandonVisit, Closes, IInv, AuthTypeOK
<1>3. Waiting(0)' \subseteq Waiting(0) /\ Waiting(1)' \subseteq Waiting(1)
  BY <1>2 DEF Waiting
<1> DEFINE a == Cardinality(Waiting(0))
           b == Cardinality(Waiting(1))
           a2 == Cardinality(Waiting(0)')
           b2 == Cardinality(Waiting(1)')
<1>4. a2 \in Nat /\ b2 \in Nat /\ a2 <= a /\ b2 <= b
  BY <1>3, WaitingSizes, FS_Subset, FS_CardinalityType
<1>5. a \in Nat /\ b \in Nat /\ a <= VisitCount /\ VisitCount \in Nat
  BY WaitingSizes
<1>6. /\ Room(a2) \in Int /\ Room(a) \in Int /\ Room(a2) <= Room(a) /\ Room(VisitCount) \in Int
      /\ Room(a2) <= Room(VisitCount)
  <2>1. VisitCount <= VisitCount /\ a2 <= VisitCount
    BY <1>4, <1>5
  <2> QED
    BY <1>4, <1>5, <2>1, RoomGrows
<1>7. /\ ~account.locked /\ account.failed = 1 => 2 * wrong + 2 * VisitCount + Room(a) <= 2 * VisitCount + Room(VisitCount)
      /\ ~account.locked /\ account.failed >= 2 =>
           2 * wrong + 2 * a + 2 * b + Room(a) <= 2 * VisitCount + Room(VisitCount)
  BY DEF LostOK
<1>8. wrong \in Nat
  BY DEF IInv, AuthTypeOK
<1> HIDE DEF a, b, a2, b2
<1>9. /\ ~account.locked /\ account.failed = 1 => 2 * wrong + 2 * VisitCount + Room(a2) <= 2 * VisitCount + Room(VisitCount)
      /\ ~account.locked /\ account.failed >= 2 =>
           2 * wrong + 2 * a2 + 2 * b2 + Room(a2) <= 2 * VisitCount + Room(VisitCount)
  BY <1>4, <1>5, <1>6, <1>7, <1>8
<1>10. \A u \in Visits : visit'[u].open =>
       /\ visit'[u].outcome = "wrong" => visit'[u].set = Recorded(visit'[u].saw) /\ ~visit'[u].saw.locked
       /\ visit'[u].outcome # "wrong" => visit'[u].set.failed \in {0, visit'[u].saw.failed}
       /\ visit'[u].outcome \in {"basic", "session", "code"} =>
            visit'[u].set.locked = visit'[u].saw.locked
  BY <1>2 DEF LostOK
<1> QED
  BY <1>2, <1>9, <1>10 DEF LostOK, VisitCount, Room, a2, b2

\* The quiet steps touch neither the counter nor the requests.
LEMMA LostQuiet ==
  ASSUME IInv, LostOK, Quiet
  PROVE  LostOK'
<1>1. account'.failed = account.failed /\ account'.locked = account.locked
  BY DEF IInv, AuthTypeOK, Account, Quiet
<1>2. visit' = visit /\ wrong' = wrong
  BY DEF Quiet
<1> QED
  BY <1>1, <1>2 DEF LostOK, Waiting, VisitCount, Room

\* A wrong answer that is recorded: over 0 it brings the counter back to 1, with
\* one request fewer to do so; over 1 it brings it to 2; over more it locks.
LEMMA LostCounts ==
  ASSUME NEW t \in Visits, IInv, LostOK, CommitVisit(t), visit[t].outcome = "wrong"
  PROVE  LostOK'
<1> DEFINE k == visit[t].saw.failed
           a == Cardinality(Waiting(0))
           b == Cardinality(Waiting(1))
           a2 == Cardinality(Waiting(0)')
           b2 == Cardinality(Waiting(1)')
<1>1. /\ visit[t].open /\ visit[t] \in Visit /\ visit[t].set = Recorded(visit[t].saw)
      /\ ~visit[t].saw.locked /\ visit[t].saw \in Account /\ visit[t].set \in Account
  BY DEF CommitVisit, IInv, AuthTypeOK, LostOK, Visit
<1>2. /\ visit[t].set.failed = k + 1 /\ k \in Nat
      /\ ~visit[t].set.locked => k + 1 < 3
  BY <1>1, RecordedRow DEF Account, MaxFailedLoginAttempts
<1>3. account' = Written(visit[t]) /\ wrong' = wrong + 1
  BY DEF CommitVisit, WrongAfter
<1>4. /\ account'.failed = k + 1
      /\ ~account'.locked => k < 2 /\ ~account.locked
  <2>1. account'.failed = Column(account.failed, k, visit[t].set.failed)
    BY <1>3, WrittenRow
  <2>2. account'.locked = Column(account.locked, visit[t].saw.locked, visit[t].set.locked)
    BY <1>3, WrittenRow
  <2>3. visit[t].set.locked \in BOOLEAN /\ visit[t].saw.locked \in BOOLEAN
    BY <1>1 DEF Account
  <2>4. ~account'.locked => ~visit[t].set.locked /\ ~account.locked
    BY <1>1, <2>2, <2>3, Zenon DEF Column
  <2> QED
    BY <1>2, <2>1, <2>4 DEF Column
<1>5. /\ visit'[t].open = FALSE
      /\ \A u \in Visits \ {t} : visit'[u] = visit[u]
  BY DEF CommitVisit, Closes, NoVisit, IInv, AuthTypeOK
<1>6. /\ Waiting(0)' = Waiting(0) \ {t} /\ Waiting(1)' = Waiting(1) \ {t}
      /\ k = 0 => t \in Waiting(0)
      /\ k # 0 => t \notin Waiting(0)
      /\ k = 1 => t \in Waiting(1)
      /\ k # 1 => t \notin Waiting(1)
  BY <1>1, <1>5 DEF Waiting
<1>7. a \in Nat /\ b \in Nat /\ VisitCount \in Nat /\ a + b <= VisitCount
  BY WaitingSizes
<1>8. a2 = IF k = 0 THEN a - 1 ELSE a
  <2>1. a2 = IF t \in Waiting(0) THEN a - 1 ELSE a
    BY <1>6, WaitingSizes, FS_RemoveElement
  <2> QED
    BY <1>6, <2>1
<1>9. b2 = IF k = 1 THEN b - 1 ELSE b
  <2>1. b2 = IF t \in Waiting(1) THEN b - 1 ELSE b
    BY <1>6, WaitingSizes, FS_RemoveElement
  <2> QED
    BY <1>6, <2>1
<1>10. k = 0 => 1 <= a
  <2>1. k = 0 => Waiting(0) # {}
    BY <1>6
  <2>2. Waiting(0) # {} => a # 0
    BY WaitingSizes, FS_EmptySet
  <2> QED
    BY <1>7, <2>1, <2>2
<1>11. k = 1 => 1 <= b
  <2>1. k = 1 => Waiting(1) # {}
    BY <1>6
  <2>2. Waiting(1) # {} => b # 0
    BY WaitingSizes, FS_EmptySet
  <2> QED
    BY <1>7, <2>1, <2>2
<1>12. /\ account.failed \in Nat /\ wrong \in Nat
       /\ account.failed = 0 => wrong = 0
       /\ ~account.locked /\ account.failed = 1 => 2 * wrong + 2 * VisitCount + Room(a) <= 2 * VisitCount + Room(VisitCount)
       /\ ~account.locked /\ account.failed >= 2 =>
            2 * wrong + 2 * a + 2 * b + Room(a) <= 2 * VisitCount + Room(VisitCount)
  BY DEF LostOK, IInv, AuthTypeOK, Account
<1>13. Room(a) \in Int /\ Room(VisitCount) \in Int /\ Room(a) <= Room(VisitCount)
  BY <1>7, RoomGrows
<1>14. k = 0 => Room(a - 1) \in Int /\ Room(a - 1) = Room(a) - 2 * VisitCount + 2 * a - 2
  BY <1>7, <1>10, RoomStep
<1> HIDE DEF k, a, b, a2, b2
<1>15. ASSUME ~account'.locked, account'.failed = 1
       PROVE  2 * wrong' + 2 * VisitCount + Room(a2) <= 2 * VisitCount + Room(VisitCount)
  <2>1. k = 0 /\ a2 = a - 1 /\ ~account.locked
    BY <1>2, <1>4, <1>8, <1>15
  <2>2. 2 * wrong' + 2 * VisitCount + Room(a2) = 2 * wrong + 2 * a + Room(a)
    BY <1>3, <1>7, <1>12, <1>13, <1>14, <2>1
  <2>3. CASE account.failed = 0
    BY <1>7, <1>12, <1>13, <2>2, <2>3
  <2>4. CASE account.failed = 1
    BY <1>7, <1>12, <1>13, <2>1, <2>2, <2>4
  <2>5. CASE account.failed >= 2
    BY <1>7, <1>12, <1>13, <2>1, <2>2, <2>5
  <2> QED
    BY <1>12, <2>3, <2>4, <2>5
<1>16. ASSUME ~account'.locked, account'.failed >= 2
       PROVE  2 * wrong' + 2 * a2 + 2 * b2 + Room(a2) <= 2 * VisitCount + Room(VisitCount)
  <2>1. k = 1 /\ a2 = a /\ b2 = b - 1 /\ ~account.locked
    BY <1>2, <1>4, <1>8, <1>9, <1>16
  <2>2. 2 * wrong' + 2 * a2 + 2 * b2 + Room(a2) = 2 * wrong + 2 * a + 2 * b + Room(a)
    BY <1>3, <1>7, <1>12, <1>13, <2>1
  <2>3. CASE account.failed = 0
    BY <1>7, <1>12, <1>13, <2>2, <2>3
  <2>4. CASE account.failed = 1
    BY <1>7, <1>12, <1>13, <2>1, <2>2, <2>4
  <2>5. CASE account.failed >= 2
    BY <1>7, <1>12, <1>13, <2>1, <2>2, <2>5
  <2> QED
    BY <1>12, <2>3, <2>4, <2>5
<1>17. account'.failed # 0
  BY <1>2, <1>4
<1>18. \A u \in Visits : visit'[u].open =>
       /\ visit'[u].outcome = "wrong" => visit'[u].set = Recorded(visit'[u].saw) /\ ~visit'[u].saw.locked
       /\ visit'[u].outcome # "wrong" => visit'[u].set.failed \in {0, visit'[u].saw.failed}
       /\ visit'[u].outcome \in {"basic", "session", "code"} =>
            visit'[u].set.locked = visit'[u].saw.locked
  BY <1>5 DEF LostOK
<1> QED
  BY <1>15, <1>16, <1>17, <1>18 DEF LostOK, VisitCount, Room, a2, b2

\* Any other commit starts the count again, or leaves counter and lock alone.
LEMMA LostResets ==
  ASSUME NEW t \in Visits, IInv, LostOK, CommitVisit(t), visit[t].outcome # "wrong"
  PROVE  LostOK'
<1> DEFINE v == visit[t]
<1>1. /\ v.open /\ v \in Visit /\ v.saw \in Account /\ v.set \in Account /\ v.outcome \in Outcome
      /\ v.set.failed \in {0, v.saw.failed}
      /\ v.outcome \in {"basic", "session", "code"} => v.set.locked = v.saw.locked
  BY DEF CommitVisit, IInv, AuthTypeOK, LostOK, Visit
<1>2. /\ account'.failed = Column(account.failed, v.saw.failed, v.set.failed)
      /\ account'.locked = Column(account.locked, v.saw.locked, v.set.locked)
      /\ wrong' = WrongAfter(v)
  BY WrittenRow DEF CommitVisit
<1>3. /\ v.saw.failed \in Nat /\ v.saw.locked \in BOOLEAN /\ v.set.locked \in BOOLEAN
      /\ account.failed \in Nat /\ wrong \in Nat
  BY <1>1 DEF Account, IInv, AuthTypeOK
<1>4. /\ visit'[t].open = FALSE
      /\ \A u \in Visits \ {t} : visit'[u] = visit[u]
  BY DEF CommitVisit, Closes, NoVisit, IInv, AuthTypeOK
<1>5. Waiting(0)' = Waiting(0) /\ Waiting(1)' = Waiting(1)
  BY <1>4 DEF Waiting
<1> HIDE DEF v
<1>6. \/ wrong' = 0
      \/ /\ wrong' = wrong /\ account'.failed = account.failed
         /\ ~account'.locked => ~account.locked
  <2>1. CASE v.outcome \in {"basic", "session", "code"}
    BY <1>2, <2>1 DEF WrongAfter
  <2>2. CASE v.outcome = "changed"
    <3>1. wrong' = IF v.set.failed < v.saw.failed \/ (v.saw.locked /\ ~v.set.locked) THEN 0 ELSE wrong
      BY <1>2, <2>2 DEF WrongAfter
    <3>2. CASE v.set.failed < v.saw.failed \/ (v.saw.locked /\ ~v.set.locked)
      BY <3>1, <3>2
    <3>3. CASE ~(v.set.failed < v.saw.failed) /\ (v.saw.locked => v.set.locked)
      <4>1. v.set.failed = v.saw.failed
        BY <1>1, <1>3, <3>3
      <4>2. account'.failed = account.failed
        BY <1>2, <4>1 DEF Column
      <4>3. ~account'.locked => ~account.locked
        BY <1>2, <1>3, <3>3, Zenon DEF Column
      <4> QED
        BY <3>1, <3>3, <4>2, <4>3
    <3> QED
      BY <3>2, <3>3
  <2> QED
    BY <1>1, <2>1, <2>2, visit[t].outcome # "wrong" DEF Outcome, v
<1>7. \A u \in Visits : visit'[u].open =>
       /\ visit'[u].outcome = "wrong" => visit'[u].set = Recorded(visit'[u].saw) /\ ~visit'[u].saw.locked
       /\ visit'[u].outcome # "wrong" => visit'[u].set.failed \in {0, visit'[u].saw.failed}
       /\ visit'[u].outcome \in {"basic", "session", "code"} =>
            visit'[u].set.locked = visit'[u].saw.locked
  BY <1>4 DEF LostOK
<1>8. CASE wrong' = 0
  <2>1. Waiting(0)' = Waiting(0) /\ Waiting(1)' = Waiting(1) /\ VisitCount' = VisitCount
    BY <1>5 DEF VisitCount
  <2>2. /\ 2 * wrong' + 2 * VisitCount + Room(Cardinality(Waiting(0))) <= 2 * VisitCount + Room(VisitCount)
        /\ 2 * wrong' + 2 * Cardinality(Waiting(0)) + 2 * Cardinality(Waiting(1))
             + Room(Cardinality(Waiting(0))) <= 2 * VisitCount + Room(VisitCount)
    <3>1. Room(Cardinality(Waiting(0))) \in Int
      <4>1. Cardinality(Waiting(0)) <= VisitCount
        BY WaitingSizes
      <4> QED
        BY <4>1, WaitingSizes, RoomGrows
    <3> QED
      BY <1>8, <3>1, WaitingSizes, RoomAtFirst
  <2> QED
    BY <1>7, <1>8, <2>1, <2>2 DEF LostOK, Room
<1>9. CASE wrong' = wrong /\ account'.failed = account.failed /\ (~account'.locked => ~account.locked)
  BY <1>5, <1>7, <1>9 DEF LostOK, VisitCount, Room
<1> QED
  BY <1>6, <1>8, <1>9

LEMMA LostHolds == AuthSpec => []LostOK
<1>1. ASSUME IInv, LostOK, [AuthNext]_authVars
      PROVE  LostOK'
  BY <1>1, StepsAre, LostBegins, LostAbandons, LostQuiet, LostCounts, LostResets
<1> QED
  BY <1>1, LostInit, Inductive, PTL DEF AuthSpec

\* The lockout comes for any number of overlapping requests: an account that is
\* open has taken two wrong answers, or n + n(n+1)/2 with n requests at once.
THEOREM LockedInTime == AuthSpec => []Lockout
<1>1. ASSUME IInv, LostOK PROVE Lockout
  <2> SUFFICES ASSUME ~account.locked
               PROVE  wrong <= IF crossed THEN WrongTaken(VisitCount) ELSE MaxFailedLoginAttempts - 1
    BY DEF Lockout, VisitCount
  <2> DEFINE a == Cardinality(Waiting(0))
             b == Cardinality(Waiting(1))
             half == (VisitCount * (VisitCount + 1)) \div 2
  <2>1. /\ VisitCount \in Nat /\ a \in Nat /\ b \in Nat /\ a <= VisitCount
        /\ wrong \in Nat /\ account.failed \in Nat /\ crossed \in BOOLEAN
    BY <1>1, WaitingSizes DEF IInv, AuthTypeOK, Account
  <2>2. /\ account.failed = 0 => wrong = 0
        /\ account.failed = 1 => 2 * wrong + 2 * VisitCount + Room(a) <= 2 * VisitCount + Room(VisitCount)
        /\ account.failed >= 2 => 2 * wrong + 2 * a + 2 * b + Room(a) <= 2 * VisitCount + Room(VisitCount)
    BY <1>1 DEF LostOK
  <2>3. Room(a) >= 0 /\ Room(a) \in Int
    <3>1. a * (2 * VisitCount + 1 - a) \in Int /\ a * (2 * VisitCount + 1 - a) >= 0
      BY <2>1, SMT
    <3> QED
      BY <3>1 DEF Room
  <2>4. Room(VisitCount) = VisitCount * (VisitCount + 1) /\ VisitCount * (VisitCount + 1) \in Nat
    BY <2>1, SMT DEF Room
  <2> HIDE DEF a, b
  <2>5. 2 * wrong <= 2 * VisitCount + VisitCount * (VisitCount + 1)
    BY <2>1, <2>2, <2>3, <2>4
  <2>6. half \in Nat /\ VisitCount * (VisitCount + 1) < 2 * half + 2
    BY <2>4, SMT
  <2> HIDE DEF half
  <2>7. wrong <= VisitCount + half
    BY <2>1, <2>4, <2>5, <2>6
  <2>8. ~crossed => wrong < MaxFailedLoginAttempts
    BY <1>1 DEF IInv, CountsOK
  <2> QED
    BY <2>1, <2>7, <2>8 DEF WrongTaken, half, MaxFailedLoginAttempts
<1> QED
  BY <1>1, Inductive, LostHolds, PTL

-----------------------------------------------------------------------------
\* The row, the requests and the counters keep their types.
THEOREM TypeCorrect == AuthSpec => []AuthTypeOK
<1>1. IInv => AuthTypeOK
  BY DEF IInv
<1> QED
  BY <1>1, Inductive, PTL

\* A nonce that was replaced never becomes current again, for any number of
\* overlapping requests: a session that was ended stays ended.
THEOREM NonceGone == AuthSpec => NonceNeverReturns
<1>1. ASSUME IInv, [AuthNext]_authVars
      PROVE  [account'.meta.nonce # account.meta.nonce => account'.meta.nonce \notin past]_authVars
  <2>1. ASSUME NEW t \in Visits, CommitVisit(t)
        PROVE  account'.meta.nonce # account.meta.nonce => account'.meta.nonce \notin past
    <3>1. account'.meta = Column(account.meta, visit[t].saw.meta, visit[t].set.meta) /\ visit[t].open
      BY <1>1, <2>1, WrittenRow DEF CommitVisit
    <3> QED
      BY <1>1, <3>1 DEF Column, IInv, NoncesOK
  <2>2. ASSUME NEW t \in Visits, BeginsSomehow(t) \/ AbandonVisit(t)
        PROVE  account' = account
    BY <2>2 DEF BeginsSomehow, Begins, Loads, AbandonVisit
  <2>3. Quiet => account'.meta = account.meta
    BY <1>1 DEF Quiet, IInv, AuthTypeOK, Account
  <2> QED
    BY <1>1, <2>1, <2>2, <2>3, StepsAre
<1> QED
  BY <1>1, Inductive, PTL DEF AuthSpec, NonceNeverReturns

\* Until two requests overlap, one session at most is opened per time step.
THEOREM CodeOnce == AuthSpec => []CodeUsedOnce
<1>1. IInv => CodeUsedOnce
  BY DEF IInv, StepsOK, CodeUsedOnce
<1> QED
  BY <1>1, Inductive, PTL

=============================================================================
