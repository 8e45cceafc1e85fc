------------------------ MODULE NotificationsProofs ------------------------
(***************************************************************************)
(* What the notification records claim, for any number of sessions,        *)
(* notifications and attempts.                                             *)
(***************************************************************************)
EXTENDS Notifications, TLAPS

-----------------------------------------------------------------------------
(***************************************************************************)
(* The inductive invariant.                                                *)
(***************************************************************************)
Types ==
  /\ log \in [Logs -> {"none", "NEW", "SENT", "FAILED"}]
  /\ shown \in {"PENDING", "SENT", "FAILED"}
  /\ mailer \in [Mailers -> Mailer]
  /\ booking \in Booking
  /\ mailed \subseteq Logs
  /\ byJob \in Nat
  /\ blurred \in BOOLEAN

\* No attempt delivers more than one e-mail, and none is made past the last.
Counted ==
  /\ byJob <= booking.attempts
  /\ mailer[JobMailer].at \in {"creating", "mailing"} => byJob < booking.attempts
  /\ booking.status = "NEW" => booking.attempts < MaxBookings

Sending(m) == mailer[m].at \in {"mailing", "answered", "decided"}

\* Who sends has a notification, and who was told it is sent is right.
SendersKnow ==
  \A m \in Mailers :
    /\ Sending(m) => mailer[m].log \in Logs /\ log[mailer[m].log] # "none"
    /\ mailer[m].at = "answered" /\ mailer[m].result = "SENT" => mailer[m].log \in mailed

RecordsTrue ==
  /\ \A n \in Logs : log[n] = "SENT" => n \in mailed
  /\ shown = "SENT" => mailed # {}

\* While nothing is blurred, the job's notification is its own and the job's
\* stage tells how many e-mails its attempts delivered.
JobStage ==
  LET v == mailer[JobMailer] IN
  /\ v.sawLog = "NEW"
  /\ v.at = "idle" => /\ booking.status # "PROCESSING"
                      /\ byJob = IF booking.status = "DONE" THEN 1 ELSE 0
  /\ v.at \in {"creating", "mailing"} => byJob = 0
  /\ v.at \in {"mailing", "answered"} => log[v.log] = "NEW"
  /\ v.at = "answered" => byJob = IF v.result = "SENT" THEN 1 ELSE 0
  /\ v.at = "decided" => byJob = IF log[v.log] = "SENT" THEN 1 ELSE 0
  /\ v.at # "idle" => booking.status = "PROCESSING"

JobAlone ==
  Sending(JobMailer) =>
    \A m \in Mailers \ {JobMailer} : Sending(m) => mailer[m].log # mailer[JobMailer].log

Unblurred == ~blurred => JobStage /\ JobAlone

NotifyInv == Types /\ Counted /\ SendersKnow /\ RecordsTrue /\ Unblurred

-----------------------------------------------------------------------------
(***************************************************************************)
(* What a step does to the one session it belongs to.                      *)
(***************************************************************************)
Becomes(m, v) == v \in Mailer /\ mailer' = [mailer EXCEPT ![m] = v]

LEMMA BecomesWhat ==
  ASSUME Types, NEW m \in Mailers, NEW v, Becomes(m, v)
  PROVE  /\ mailer' \in [Mailers -> Mailer]
         /\ mailer'[m] = v
         /\ \A k \in Mailers \ {m} : mailer'[k] = mailer[k]
BY DEF Types, Becomes

LEMMA IdleTyped == IdleMailer \in Mailer /\ IdleMailer.at = "idle" /\ IdleMailer.sawLog = "NEW"
BY NotifyAssumption DEF IdleMailer, Mailer

\* The record of a session that starts to send, with a status it has read or
\* with the one of its own new notification.
Mailing(n, a, b) == [IdleMailer EXCEPT !.at = "mailing", !.log = n, !.sawLog = a, !.sawShown = b]

MailingNew(n, b) == [IdleMailer EXCEPT !.at = "mailing", !.log = n, !.sawShown = b]

LEMMA MailingWhat ==
  ASSUME NEW n \in 0..MaxLogs, NEW a \in {"NEW", "SENT", "FAILED"},
         NEW b \in {"PENDING", "SENT", "FAILED"}
  PROVE  /\ Mailing(n, a, b) \in Mailer /\ Mailing(n, a, b).at = "mailing"
         /\ Mailing(n, a, b).log = n
         /\ MailingNew(n, b) \in Mailer /\ MailingNew(n, b).at = "mailing"
         /\ MailingNew(n, b).log = n /\ MailingNew(n, b).sawLog = "NEW"
<1> DEFINE x == [IdleMailer EXCEPT !.at = "mailing"]
           y == [x EXCEPT !.log = n]
           z == [y EXCEPT !.sawLog = a]
<1>1. x \in Mailer /\ x.at = "mailing" /\ x.sawLog = "NEW"
  BY IdleTyped DEF Mailer
<1> HIDE DEF x
<1>2. y \in Mailer /\ y.at = "mailing" /\ y.log = n /\ y.sawLog = "NEW"
  BY <1>1 DEF Mailer
<1> HIDE DEF y
<1>3. z \in Mailer /\ z.at = "mailing" /\ z.log = n
  BY <1>2 DEF Mailer
<1> HIDE DEF z
<1>4. LET w == [y EXCEPT !.sawShown = b] IN
      w \in Mailer /\ w.at = "mailing" /\ w.log = n /\ w.sawLog = "NEW"
  BY <1>2 DEF Mailer
<1>5. LET v == [z EXCEPT !.sawShown = b] IN v \in Mailer /\ v.at = "mailing" /\ v.log = n
  BY <1>3 DEF Mailer
<1> QED BY <1>4, <1>5, Zenon DEF x, y, z, Mailing, MailingNew

LEMMA StopsWhat ==
  ASSUME NEW m \in Mailers, Stops(m)
  PROVE  Becomes(m, IdleMailer)
BY IdleTyped DEF Stops, Becomes

LEMMA LoadsWhat ==
  ASSUME Types, NEW m \in Mailers, LoadsInvoice(m)
  PROVE  \E v \in Mailer : /\ Becomes(m, v)
                           /\ v.at = "creating" /\ v.sawLog = mailer[m].sawLog
<1> DEFINE v == [mailer[m] EXCEPT !.at = "creating", !.sawShown = shown]
<1>1. mailer[m] \in Mailer
  BY DEF Types
<1>2. v \in Mailer /\ v.at = "creating" /\ v.sawLog = mailer[m].sawLog
  BY <1>1 DEF Types, Mailer
<1>3. mailer' = [mailer EXCEPT ![m] = v]
  BY DEF LoadsInvoice
<1> QED BY <1>2, <1>3 DEF Becomes

LEMMA AnswersWhat ==
  ASSUME Types, NEW m \in Mailers, NEW r \in {"SENT", "FAILED"}, Answers(m, r)
  PROVE  \E v \in Mailer : /\ Becomes(m, v)
                           /\ v.at = "answered" /\ v.result = r
                           /\ v.log = mailer[m].log /\ v.sawLog = mailer[m].sawLog
<1> DEFINE v == [mailer[m] EXCEPT !.at = "answered", !.result = r]
<1>1. mailer[m] \in Mailer
  BY DEF Types
<1>2. v \in Mailer /\ v.at = "answered" /\ v.result = r /\ v.log = mailer[m].log /\ v.sawLog = mailer[m].sawLog
  BY <1>1 DEF Mailer
<1>3. mailer' = [mailer EXCEPT ![m] = v]
  BY DEF Answers
<1> QED BY <1>2, <1>3 DEF Becomes

-----------------------------------------------------------------------------
(***************************************************************************)
(* Creating.                                                               *)
(***************************************************************************)
LEMMA BeginCreateKeeps ==
  ASSUME NotifyInv, NEW m \in Mailers, BeginCreate(m)
  PROVE  NotifyInv'
<1>1. m # JobMailer /\ UNCHANGED <<log, shown, booking, mailed, byJob, blurred>> /\ LoadsInvoice(m)
  BY DEF BeginCreate
<1>2. PICK v \in Mailer : Becomes(m, v) /\ v.at = "creating"
  BY <1>1, LoadsWhat DEF NotifyInv
<1>3. /\ mailer' \in [Mailers -> Mailer] /\ mailer'[m] = v
      /\ \A k \in Mailers \ {m} : mailer'[k] = mailer[k]
      /\ mailer'[JobMailer] = mailer[JobMailer]
  BY <1>1, <1>2, BecomesWhat, NotifyAssumption DEF NotifyInv
<1>4. Types' /\ Counted' /\ RecordsTrue'
  BY <1>1, <1>3 DEF NotifyInv, Types, Counted, RecordsTrue
<1>5. SendersKnow'
  BY <1>1, <1>2, <1>3 DEF NotifyInv, SendersKnow, Sending
<1>6. JobStage' <=> JobStage
  BY <1>1, <1>3 DEF JobStage
<1>7. JobAlone => JobAlone'
  BY <1>1, <1>2, <1>3 DEF JobAlone, Sending
<1> QED BY <1>1, <1>4, <1>5, <1>6, <1>7 DEF NotifyInv, Unblurred

LEMMA ClaimKeeps ==
  ASSUME NotifyInv, ClaimBooking
  PROVE  NotifyInv'
<1>1. /\ booking.status = "NEW" /\ UNCHANGED <<log, shown, mailed, byJob, blurred>>
      /\ LoadsInvoice(JobMailer) /\ mailer[JobMailer].at = "idle"
      /\ booking' = [status |-> "PROCESSING", attempts |-> booking.attempts + 1]
  BY DEF ClaimBooking, LoadsInvoice
<1>2. PICK v \in Mailer : /\ Becomes(JobMailer, v) /\ v.at = "creating"
                          /\ v.sawLog = mailer[JobMailer].sawLog
  BY <1>1, LoadsWhat, NotifyAssumption DEF NotifyInv
<1>3. /\ mailer' \in [Mailers -> Mailer] /\ mailer'[JobMailer] = v
      /\ \A k \in Mailers \ {JobMailer} : mailer'[k] = mailer[k]
  BY <1>2, BecomesWhat, NotifyAssumption DEF NotifyInv
<1>4. booking.attempts \in Nat /\ MaxBookings \in Nat /\ booking.attempts < MaxBookings
      /\ byJob \in Nat /\ byJob <= booking.attempts
  BY <1>1, NotifyAssumption DEF NotifyInv, Types, Booking, Counted
<1>5. booking' \in Booking /\ booking'.status = "PROCESSING" /\ byJob' < booking'.attempts
  BY <1>1, <1>4 DEF Booking
<1>6. Types' /\ RecordsTrue'
  BY <1>1, <1>3, <1>5 DEF NotifyInv, Types, RecordsTrue
<1>7. Counted'
  BY <1>4, <1>5, <1>1 DEF Counted
<1>8. SendersKnow'
  BY <1>1, <1>2, <1>3 DEF NotifyInv, SendersKnow, Sending
<1>9. JobStage => JobStage'
  BY <1>1, <1>2, <1>3, <1>5 DEF JobStage
<1>10. JobAlone'
  BY <1>2, <1>3 DEF JobAlone, Sending
<1> QED BY <1>1, <1>6, <1>7, <1>8, <1>9, <1>10 DEF NotifyInv, Unblurred

LEMMA CreatesWhat ==
  ASSUME NotifyInv, NEW m \in Mailers, NEW n \in Logs, Creates(m, n)
  PROVE  /\ log' \in [Logs -> {"none", "NEW", "SENT", "FAILED"}]
         /\ shown' \in {"PENDING", "SENT", "FAILED"}
         /\ log[n] = "none" /\ log'[n] = "NEW"
         /\ \A k \in Logs \ {n} : log'[k] = log[k]
         /\ shown' = "SENT" => shown = "SENT"
         /\ mailer[m].at = "creating"
         /\ UNCHANGED <<booking, mailed, byJob, blurred>>
         /\ RecordsTrue'
<1>1. /\ log' \in [Logs -> {"none", "NEW", "SENT", "FAILED"}]
      /\ log[n] = "none" /\ log'[n] = "NEW"
      /\ \A k \in Logs \ {n} : log'[k] = log[k]
      /\ mailer[m].at = "creating"
      /\ UNCHANGED <<booking, mailed, byJob, blurred>>
  BY DEF Creates, NotifyInv, Types
<1>2. shown' \in {"PENDING", "SENT", "FAILED"} /\ (shown' = "SENT" => shown = "SENT")
  BY DEF Creates, ColumnAfter, NotifyInv, Types
<1>3. RecordsTrue'
  BY <1>1, <1>2 DEF RecordsTrue, NotifyInv
<1> QED BY <1>1, <1>2, <1>3

\* No session but the creator knows of the new notification.
LEMMA NewIsUnknown ==
  ASSUME NotifyInv, NEW m \in Mailers, NEW n \in Logs, Creates(m, n)
  PROVE  \A k \in Mailers : Sending(k) => mailer[k].log # n /\ log'[mailer[k].log] = log[mailer[k].log]
BY CreatesWhat DEF NotifyInv, SendersKnow

LEMMA CommitCreateKeeps ==
  ASSUME NotifyInv, NEW m \in Mailers, NEW n \in Logs, CommitCreate(m, n)
  PROVE  NotifyInv'
<1>1. m # JobMailer /\ Creates(m, n) /\ Stops(m)
  BY DEF CommitCreate
<1>2. /\ mailer' \in [Mailers -> Mailer] /\ mailer'[m].at = "idle"
      /\ \A k \in Mailers \ {m} : mailer'[k] = mailer[k]
      /\ mailer'[JobMailer] = mailer[JobMailer]
  BY <1>1, StopsWhat, BecomesWhat, IdleTyped, NotifyAssumption DEF NotifyInv
<1>3. UNCHANGED <<booking, mailed, byJob, blurred>> /\ RecordsTrue'
  BY <1>1, CreatesWhat
<1>4. Types'
  BY <1>1, <1>2, CreatesWhat DEF NotifyInv, Types
<1>5. Counted'
  BY <1>2, <1>3 DEF NotifyInv, Counted
<1>6. \A k \in Mailers : Sending(k)' => Sending(k) /\ mailer'[k] = mailer[k]
                                        /\ log'[mailer[k].log] = log[mailer[k].log]
  BY <1>1, <1>2, NewIsUnknown DEF Sending
<1>7. SendersKnow'
  BY <1>2, <1>3, <1>6 DEF NotifyInv, SendersKnow, Sending
<1>8. JobStage => JobStage'
  BY <1>1, <1>2, <1>3, NewIsUnknown, NotifyAssumption DEF JobStage, Sending
<1>9. JobAlone => JobAlone'
  BY <1>2, <1>6 DEF JobAlone, Sending
<1> QED BY <1>3, <1>4, <1>5, <1>7, <1>8, <1>9 DEF NotifyInv, Unblurred

LEMMA CreateAndSendKeeps ==
  ASSUME NotifyInv, NEW m \in Mailers, NEW n \in Logs, CommitCreateAndSend(m, n)
  PROVE  NotifyInv'
<1> DEFINE v == MailingNew(n, shown')
<1>1. Creates(m, n) /\ mailer' = [mailer EXCEPT ![m] = v]
  BY DEF CommitCreateAndSend, MailingNew
<1>2. v \in Mailer /\ v.at = "mailing" /\ v.log = n /\ v.sawLog = "NEW"
  <2>1. shown' \in {"PENDING", "SENT", "FAILED"} /\ n \in 0..MaxLogs
    BY <1>1, CreatesWhat, NotifyAssumption DEF Logs
  <2> QED BY <2>1, MailingWhat
<1> HIDE DEF v
<1>3. /\ mailer' \in [Mailers -> Mailer] /\ mailer'[m] = v
      /\ \A k \in Mailers \ {m} : mailer'[k] = mailer[k]
  BY <1>1, <1>2, BecomesWhat DEF NotifyInv, Becomes
<1>4. UNCHANGED <<booking, mailed, byJob, blurred>> /\ RecordsTrue' /\ log'[n] = "NEW"
      /\ mailer[m].at = "creating"
  BY <1>1, CreatesWhat
<1>5. Types'
  BY <1>1, <1>3, CreatesWhat DEF NotifyInv, Types
<1>6. Counted'
  BY <1>2, <1>3, <1>4, NotifyAssumption DEF NotifyInv, Counted
<1>7. \A k \in Mailers \ {m} : Sending(k)' => /\ Sending(k) /\ mailer'[k] = mailer[k]
                                              /\ mailer[k].log # n
                                              /\ log'[mailer[k].log] = log[mailer[k].log]
  BY <1>1, <1>3, NewIsUnknown DEF Sending
<1>8. SendersKnow'
  BY <1>2, <1>3, <1>4, <1>7 DEF NotifyInv, SendersKnow, Sending
<1>9. JobStage => JobStage'
  <2>1. CASE m = JobMailer
    BY <1>2, <1>3, <1>4, <2>1 DEF JobStage
  <2>2. CASE m # JobMailer
    BY <1>3, <1>4, <1>7, <2>2, NotifyAssumption DEF JobStage, Sending
  <2> QED BY <2>1, <2>2
<1>10. JobAlone => JobAlone'
  <2>1. CASE m = JobMailer
    BY <1>2, <1>3, <1>7, <2>1 DEF JobAlone
  <2>2. CASE m # JobMailer
    BY <1>2, <1>3, <1>7, <2>2, NotifyAssumption DEF JobAlone, Sending
  <2> QED BY <2>1, <2>2
<1> QED BY <1>4, <1>5, <1>6, <1>8, <1>9, <1>10 DEF NotifyInv, Unblurred

-----------------------------------------------------------------------------
(***************************************************************************)
(* Sending.                                                                *)
(***************************************************************************)
\* Who begins with the job's notification blurs the rest.
LEMMA BeginSendKeeps ==
  ASSUME NotifyInv, NEW m \in Mailers, NEW n \in Logs, BeginSend(m, n)
  PROVE  NotifyInv'
<1> DEFINE v == Mailing(n, log[n], shown)
<1>1. /\ m # JobMailer /\ log[n] # "none" /\ mailer' = [mailer EXCEPT ![m] = v]
      /\ UNCHANGED <<log, shown, booking, mailed, byJob>>
  BY DEF BeginSend, Mailing
<1>2. blurred' = (blurred \/ (mailer[JobMailer].at # "idle" /\ mailer[JobMailer].log = n))
  BY DEF BeginSend
<1>3. v \in Mailer /\ v.at = "mailing" /\ v.log = n
  <2>1. shown \in {"PENDING", "SENT", "FAILED"} /\ n \in 0..MaxLogs /\ log[n] \in {"NEW", "SENT", "FAILED"}
    BY <1>1, NotifyAssumption DEF Logs, NotifyInv, Types
  <2> QED BY <2>1, MailingWhat
<1> HIDE DEF v
<1>4. /\ mailer' \in [Mailers -> Mailer] /\ mailer'[m] = v
      /\ \A k \in Mailers \ {m} : mailer'[k] = mailer[k]
      /\ mailer'[JobMailer] = mailer[JobMailer]
  BY <1>1, <1>3, BecomesWhat, NotifyAssumption DEF NotifyInv, Becomes
<1>5. blurred' \in BOOLEAN /\ (~blurred' => ~blurred /\ (Sending(JobMailer) => mailer[JobMailer].log # n))
  BY <1>2, Zenon DEF Sending
<1>6. Types' /\ RecordsTrue'
  BY <1>1, <1>4, <1>5 DEF NotifyInv, Types, RecordsTrue
<1>7. Counted'
  BY <1>1, <1>4 DEF NotifyInv, Counted
<1>8. SendersKnow'
  BY <1>1, <1>3, <1>4 DEF NotifyInv, SendersKnow, Sending
<1>9. JobStage => JobStage'
  BY <1>1, <1>4 DEF JobStage
<1>10. JobAlone /\ (Sending(JobMailer) => mailer[JobMailer].log # n) => JobAlone'
  BY <1>3, <1>4 DEF JobAlone, Sending
<1> QED BY <1>5, <1>6, <1>7, <1>8, <1>9, <1>10 DEF NotifyInv, Unblurred

\* An answer, with or without an e-mail that arrives.
LEMMA AnswerKeeps ==
  ASSUME NotifyInv, NEW m \in Mailers, NEW r \in {"SENT", "FAILED"}, Answers(m, r),
         UNCHANGED <<log, shown, booking>>, blurred' \in BOOLEAN, blurred => blurred',
         \/ Arrives(m) /\ (r = "SENT" \/ blurred')
         \/ r = "FAILED" /\ UNCHANGED <<mailed, byJob>>
  PROVE  NotifyInv'
<1>1. PICK v \in Mailer : /\ Becomes(m, v) /\ v.at = "answered" /\ v.result = r
                          /\ v.log = mailer[m].log /\ v.sawLog = mailer[m].sawLog
  BY AnswersWhat DEF NotifyInv
<1>2. /\ mailer' \in [Mailers -> Mailer] /\ mailer'[m] = v
      /\ \A k \in Mailers \ {m} : mailer'[k] = mailer[k]
  BY <1>1, BecomesWhat DEF NotifyInv
<1>3. mailer[m].at = "mailing" /\ mailer[m].log \in Logs
  BY DEF Answers, NotifyInv, SendersKnow, Sending
<1>4. /\ mailed \subseteq mailed' /\ mailed' \subseteq Logs
      /\ r = "SENT" => mailer[m].log \in mailed'
  BY <1>3 DEF Arrives, NotifyInv, Types
<1>5. /\ byJob' \in Nat
      /\ m # JobMailer => byJob' = byJob
      /\ byJob' \in {byJob, byJob + 1}
      /\ m = JobMailer /\ ~blurred' => byJob' = byJob + (IF r = "SENT" THEN 1 ELSE 0)
  BY DEF Arrives, NotifyInv, Types
<1>6. Types'
  BY <1>2, <1>4, <1>5 DEF NotifyInv, Types
<1>7. RecordsTrue'
  BY <1>4 DEF NotifyInv, RecordsTrue
<1>8. SendersKnow'
  BY <1>1, <1>2, <1>3, <1>4 DEF NotifyInv, SendersKnow, Sending
<1>9. Counted'
  <2>1. booking.attempts \in Nat /\ byJob \in Nat
    BY NotifyAssumption DEF NotifyInv, Types, Booking
  <2>2. CASE m = JobMailer
    BY <1>1, <1>2, <1>3, <1>5, <2>1, <2>2 DEF NotifyInv, Counted
  <2>3. CASE m # JobMailer
    BY <1>2, <1>5, <2>3, NotifyAssumption DEF NotifyInv, Counted
  <2> QED BY <2>2, <2>3
<1>10. JobStage /\ ~blurred' => JobStage'
  <2>1. CASE m = JobMailer
    BY <1>1, <1>2, <1>3, <1>5, <2>1 DEF JobStage
  <2>2. CASE m # JobMailer
    BY <1>2, <1>5, <2>2, NotifyAssumption DEF JobStage
  <2> QED BY <2>1, <2>2
<1>11. JobAlone => JobAlone'
  <2>1. \A k \in Mailers : Sending(k)' => Sending(k) /\ mailer'[k].log = mailer[k].log
    BY <1>1, <1>2, <1>3 DEF Sending
  <2> QED BY <2>1, NotifyAssumption DEF JobAlone
<1> QED BY <1>6, <1>7, <1>8, <1>9, <1>10, <1>11 DEF NotifyInv, Unblurred

LEMMA MailAcceptedKeeps ==
  ASSUME NotifyInv, NEW m \in Mailers, MailAccepted(m)
  PROVE  NotifyInv'
BY AnswerKeeps DEF MailAccepted, NotifyInv, Types

LEMMA MailRaisesKeeps ==
  ASSUME NotifyInv, NEW m \in Mailers, MailRaises(m)
  PROVE  NotifyInv'
BY AnswerKeeps DEF MailRaises, NotifyInv, Types

LEMMA MailArrivesAndRaisesKeeps ==
  ASSUME NotifyInv, NEW m \in Mailers, MailArrivesAndRaises(m)
  PROVE  NotifyInv'
BY AnswerKeeps DEF MailArrivesAndRaises

LEMMA CommitSentKeeps ==
  ASSUME NotifyInv, NEW m \in Mailers, CommitSent(m)
  PROVE  NotifyInv'
<1> DEFINE n == mailer[m].log
           r == mailer[m].result
<1>1. /\ mailer[m].at = "answered" /\ n \in Logs /\ log[n] # "none"
      /\ r \in {"SENT", "FAILED"} /\ (r = "SENT" => n \in mailed)
      /\ UNCHANGED <<booking, mailed, byJob, blurred>>
  BY DEF CommitSent, NotifyInv, SendersKnow, Sending, Types, Mailer
<1>2. log' = [log EXCEPT ![n] = ColumnAfter(log[n], mailer[m].sawLog, r)]
  BY DEF CommitSent
<1>3. /\ log'[n] = r \/ log'[n] = log[n]
      /\ mailer[m].sawLog = "NEW" => log'[n] = r
      /\ \A k \in Logs \ {n} : log'[k] = log[k]
      /\ log' \in [Logs -> {"none", "NEW", "SENT", "FAILED"}]
  BY <1>1, <1>2 DEF ColumnAfter, NotifyInv, Types
<1>4. shown' \in {shown, r}
  BY DEF CommitSent, ColumnAfter
<1>5. PICK v \in Mailer :
        /\ Becomes(m, v)
        /\ IF m = JobMailer THEN v.at = "decided" /\ v.log = n /\ v.sawLog = mailer[m].sawLog
           ELSE v.at = "idle"
  <2>1. CASE m = JobMailer
    <3> DEFINE v == [mailer[m] EXCEPT !.at = "decided"]
    <3>1. mailer[m] \in Mailer
      BY DEF NotifyInv, Types
    <3>2. v \in Mailer /\ v.at = "decided" /\ v.log = n /\ v.sawLog = mailer[m].sawLog
      BY <3>1 DEF Mailer
    <3>3. mailer' = [mailer EXCEPT ![m] = v]
      BY <2>1 DEF CommitSent
    <3> QED BY <2>1, <3>2, <3>3 DEF Becomes
  <2>2. CASE m # JobMailer
    BY <2>2, StopsWhat, IdleTyped DEF CommitSent
  <2> QED BY <2>1, <2>2
<1>6. /\ mailer' \in [Mailers -> Mailer] /\ mailer'[m] = v
      /\ \A k \in Mailers \ {m} : mailer'[k] = mailer[k]
  BY <1>5, BecomesWhat DEF NotifyInv
<1>7. Types'
  BY <1>1, <1>3, <1>4, <1>6 DEF NotifyInv, Types
<1>8. Counted'
  BY <1>1, <1>5, <1>6, NotifyAssumption DEF NotifyInv, Counted
<1>9. RecordsTrue'
  BY <1>1, <1>3, <1>4 DEF NotifyInv, RecordsTrue
<1>10. \A k \in Logs : log[k] # "none" => log'[k] # "none"
  BY <1>1, <1>3
<1>11. SendersKnow'
  BY <1>1, <1>5, <1>6, <1>10 DEF NotifyInv, SendersKnow, Sending
<1>12. JobAlone => JobAlone'
  <2>1. \A k \in Mailers : Sending(k)' => Sending(k) /\ mailer'[k].log = mailer[k].log
    BY <1>1, <1>5, <1>6 DEF Sending
  <2> QED BY <2>1, NotifyAssumption DEF JobAlone
<1>13. JobStage /\ JobAlone => JobStage'
  <2>1. CASE m = JobMailer
    BY <1>1, <1>3, <1>5, <1>6, <2>1 DEF JobStage
  <2>2. CASE m # JobMailer
    <3>1. mailer'[JobMailer] = mailer[JobMailer]
      BY <1>6, <2>2, NotifyAssumption
    <3>2. JobAlone /\ Sending(JobMailer) => log'[mailer[JobMailer].log] = log[mailer[JobMailer].log]
      BY <1>1, <1>3, <2>2, NotifyAssumption DEF JobAlone, Sending, NotifyInv, SendersKnow
    <3> QED BY <1>1, <3>1, <3>2 DEF JobStage, Sending
  <2> QED BY <2>1, <2>2
<1> QED BY <1>1, <1>7, <1>8, <1>9, <1>11, <1>12, <1>13 DEF NotifyInv, Unblurred

-----------------------------------------------------------------------------
(***************************************************************************)
(* The job's end, a death, and the approval.                               *)
(***************************************************************************)
LEMMA AfterAttempt ==
  ASSUME NotifyInv, NEW s
  PROVE  /\ BookingAfter(s) \in Booking
         /\ BookingAfter(s).attempts = booking.attempts
         /\ BookingAfter(s).status = "NEW" => booking.attempts < MaxBookings
         /\ BookingAfter(s).status # "PROCESSING"
         /\ BookingAfter(s).status = "DONE" <=> s = "SENT"
<1>1. booking \in Booking /\ booking.attempts \in Nat /\ MaxBookings \in Nat
  BY NotifyAssumption DEF NotifyInv, Types, Booking
<1> QED BY <1>1 DEF BookingAfter, Booking

\* Whoever stops leaves the rows and the other sessions as they are.
LEMMA StopKeeps ==
  ASSUME NotifyInv, NEW m \in Mailers, Stops(m), UNCHANGED <<log, shown, mailed, byJob>>
  PROVE  /\ mailer' \in [Mailers -> Mailer] /\ mailer'[m] = IdleMailer
         /\ \A k \in Mailers \ {m} : mailer'[k] = mailer[k]
         /\ SendersKnow' /\ RecordsTrue' /\ (JobAlone => JobAlone')
<1>1. /\ mailer' \in [Mailers -> Mailer] /\ mailer'[m] = IdleMailer
      /\ \A k \in Mailers \ {m} : mailer'[k] = mailer[k]
  BY StopsWhat, BecomesWhat DEF NotifyInv
<1>2. SendersKnow'
  BY <1>1, IdleTyped DEF NotifyInv, SendersKnow, Sending
<1>3. RecordsTrue'
  BY DEF NotifyInv, RecordsTrue
<1>4. JobAlone => JobAlone'
  <2>1. \A k \in Mailers : Sending(k)' => Sending(k) /\ mailer'[k].log = mailer[k].log
    BY <1>1, IdleTyped DEF Sending
  <2> QED BY <2>1, NotifyAssumption DEF JobAlone
<1> QED BY <1>1, <1>2, <1>3, <1>4

LEMMA DecideKeeps ==
  ASSUME NotifyInv, DecideBooking
  PROVE  NotifyInv'
<1> DEFINE s == log[mailer[JobMailer].log]
<1>1. /\ mailer[JobMailer].at = "decided" /\ booking' = BookingAfter(s) /\ Stops(JobMailer)
      /\ UNCHANGED <<log, shown, mailed, byJob, blurred>>
  BY DEF DecideBooking
<1> HIDE DEF s
<1>2. /\ mailer' \in [Mailers -> Mailer] /\ mailer'[JobMailer] = IdleMailer
      /\ SendersKnow' /\ RecordsTrue' /\ (JobAlone => JobAlone')
  BY <1>1, StopKeeps, NotifyAssumption
<1>3. Types'
  BY <1>1, <1>2, AfterAttempt DEF NotifyInv, Types
<1>4. Counted'
  BY <1>1, <1>2, AfterAttempt, IdleTyped DEF NotifyInv, Counted
<1>5. JobStage => byJob = IF s = "SENT" THEN 1 ELSE 0
  BY <1>1 DEF JobStage, s
<1>6. JobStage => JobStage'
  BY <1>1, <1>2, <1>5, AfterAttempt, IdleTyped DEF JobStage
<1> QED BY <1>1, <1>2, <1>3, <1>4, <1>6 DEF NotifyInv, Unblurred

LEMMA DiesKeeps ==
  ASSUME NotifyInv, NEW m \in Mailers, MailerDies(m)
  PROVE  NotifyInv'
<1>1. /\ Stops(m) /\ blurred' = TRUE /\ booking' \in {booking, BookingAfter("FAILED")}
      /\ UNCHANGED <<log, shown, mailed, byJob>>
  BY DEF MailerDies
<1>2. /\ mailer' \in [Mailers -> Mailer] /\ mailer'[m] = IdleMailer
      /\ \A k \in Mailers \ {m} : mailer'[k] = mailer[k]
      /\ SendersKnow' /\ RecordsTrue'
  BY <1>1, StopKeeps
<1>3. booking' \in Booking /\ booking'.attempts = booking.attempts
      /\ (booking'.status = "NEW" => booking.attempts < MaxBookings)
  BY <1>1, AfterAttempt DEF NotifyInv, Types, Counted
<1>4. Types'
  BY <1>1, <1>2, <1>3 DEF NotifyInv, Types
<1>5. Counted'
  BY <1>1, <1>2, <1>3, IdleTyped, NotifyAssumption DEF NotifyInv, Counted
<1> QED BY <1>1, <1>2, <1>4, <1>5 DEF NotifyInv, Unblurred

LEMMA ApprovalKeeps ==
  ASSUME NotifyInv, ApprovalResets
  PROVE  NotifyInv'
BY DEF ApprovalResets, NotifyInv, Types, Counted, SendersKnow, Sending, RecordsTrue, Unblurred, JobStage, JobAlone

LEMMA InitHolds == NotifyInit => NotifyInv
<1> SUFFICES ASSUME NotifyInit
             PROVE  NotifyInv
  OBVIOUS
<1>1. \A m \in Mailers : mailer[m] = IdleMailer
  BY DEF NotifyInit
<1>2. booking = [status |-> "NEW", attempts |-> 0] /\ byJob = 0 /\ 0 \in 0..MaxBookings
      /\ 0 < MaxBookings
  BY NotifyAssumption DEF NotifyInit
<1>5. log \in [Logs -> {"none", "NEW", "SENT", "FAILED"}] /\ mailer \in [Mailers -> Mailer]
  BY IdleTyped DEF NotifyInit
<1>6. booking \in Booking
  BY <1>2 DEF Booking
<1>7. shown = "PENDING" /\ mailed = {} /\ blurred \in BOOLEAN
  BY Zenon DEF NotifyInit
<1>8. Types
  BY <1>2, <1>5, <1>6, <1>7 DEF Types
<1>9. Counted
  BY <1>1, <1>2, IdleTyped, NotifyAssumption DEF Counted
<1>3. SendersKnow /\ RecordsTrue /\ JobAlone
  BY <1>1, IdleTyped DEF NotifyInit, SendersKnow, Sending, RecordsTrue, JobAlone
<1>4. JobStage
  BY <1>1, IdleTyped, NotifyAssumption DEF NotifyInit, JobStage
<1> QED BY <1>3, <1>4, <1>8, <1>9 DEF NotifyInv, Unblurred

LEMMA StepKeeps == NotifyInv /\ [NotifyNext]_notifyVars => NotifyInv'
<1> SUFFICES ASSUME NotifyInv, [NotifyNext]_notifyVars
             PROVE  NotifyInv'
  OBVIOUS
<1>1. ASSUME NEW m \in Mailers, BeginCreate(m) PROVE NotifyInv'
  BY <1>1, BeginCreateKeeps
<1>2. ASSUME NEW m \in Mailers, NEW n \in Logs, BeginSend(m, n) PROVE NotifyInv'
  BY <1>2, BeginSendKeeps
<1>3. ASSUME NEW m \in Mailers, NEW n \in Logs, CommitCreate(m, n) PROVE NotifyInv'
  BY <1>3, CommitCreateKeeps
<1>4. ASSUME NEW m \in Mailers, NEW n \in Logs, CommitCreateAndSend(m, n) PROVE NotifyInv'
  BY <1>4, CreateAndSendKeeps
<1>5. ASSUME NEW m \in Mailers, MailAccepted(m) PROVE NotifyInv'
  BY <1>5, MailAcceptedKeeps
<1>6. ASSUME NEW m \in Mailers, MailRaises(m) PROVE NotifyInv'
  BY <1>6, MailRaisesKeeps
<1>7. ASSUME NEW m \in Mailers, MailArrivesAndRaises(m) PROVE NotifyInv'
  BY <1>7, MailArrivesAndRaisesKeeps
<1>8. ASSUME NEW m \in Mailers, CommitSent(m) PROVE NotifyInv'
  BY <1>8, CommitSentKeeps
<1>9. ASSUME NEW m \in Mailers, MailerDies(m) PROVE NotifyInv'
  BY <1>9, DiesKeeps
<1>10. CASE UNCHANGED notifyVars
  BY <1>10 DEF notifyVars, NotifyInv, Types, Counted, SendersKnow, Sending, RecordsTrue, Unblurred, JobStage, JobAlone
<1> QED BY <1>1, <1>2, <1>3, <1>4, <1>5, <1>6, <1>7, <1>8, <1>9, <1>10,
           ClaimKeeps, DecideKeeps, ApprovalKeeps DEF NotifyNext

LEMMA NotifyInductive == NotifySpec => []NotifyInv
BY InitHolds, StepKeeps, PTL DEF NotifySpec

-----------------------------------------------------------------------------
\* The job never delivers more e-mails than it may make attempts
\* (scheduler.py:179), whatever the other sessions do.
THEOREM NotifyTypeCorrect == NotifySpec => []NotifyTypeOK
<1>1. NotifyInv => NotifyTypeOK
  <2> SUFFICES ASSUME NotifyInv
               PROVE  NotifyTypeOK
    OBVIOUS
  <2>1. booking.attempts \in 0..MaxBookings /\ byJob \in Nat /\ byJob <= booking.attempts
    BY DEF NotifyInv, Types, Counted, Booking
  <2>2. byJob \in 0..MaxBookings
    BY <2>1, NotifyAssumption
  <2> QED BY <2>2 DEF NotifyInv, Types, NotifyTypeOK
<1> QED BY <1>1, NotifyInductive, PTL

\* Records that say sent are right, and a job that mails twice had an attempt
\* that died, was misinformed or shared its notification
\* (notification_service.py:88, scheduler.py:179).
THEOREM RecordsAreTrue == NotifySpec => []DeliveryIsRecordedTruly
<1>1. NotifyInv => DeliveryIsRecordedTruly
  <2> SUFFICES ASSUME NotifyInv
               PROVE  DeliveryIsRecordedTruly
    OBVIOUS
  <2>1. ~blurred => byJob \in {0, 1} /\ (booking.status = "DONE" => byJob = 1)
    <3>1. mailer[JobMailer].at \in {"idle", "creating", "mailing", "answered", "decided"}
      BY NotifyAssumption DEF NotifyInv, Types, Mailer
    <3> QED BY <3>1 DEF NotifyInv, Unblurred, JobStage
  <2>2. byJob > 1 => blurred
    BY <2>1
  <2>3. booking.status = "DONE" => byJob > 0 \/ blurred
    BY <2>1
  <2> QED BY <2>2, <2>3 DEF NotifyInv, RecordsTrue, DeliveryIsRecordedTruly
<1> QED BY <1>1, NotifyInductive, PTL

=============================================================================
