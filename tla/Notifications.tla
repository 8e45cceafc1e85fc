---------------------------- MODULE Notifications ----------------------------
(***************************************************************************)
(* E-mails about one invoice.  The interface and the scheduler's           *)
(* SEND_BOOKED_NOTIFICATION job create a notification and send it, the API *)
(* does the two in separate requests.  Each is a transaction that commits  *)
(* after the mail server was asked.                                        *)
(***************************************************************************)
EXTENDS Naturals

CONSTANTS
  Mailers,      \* sessions that create and send notifications
  JobMailer,    \* the scheduler's
  MaxLogs,      \* bound: notifications
  MaxBookings   \* integration_job.max_attempts

ASSUME NotifyAssumption ==
  /\ JobMailer \in Mailers
  /\ MaxLogs \in Nat
  /\ MaxBookings \in Nat \ {0}

VARIABLES
  log,        \* status of the notification_log rows
  shown,      \* invoice.notification_status
  mailer,     \* what each session does, and what it has loaded
  booking,    \* the job, and how many attempts it has made
  mailed,     \* external: notifications of which an e-mail has arrived
  byJob,      \* history: e-mails that the job's attempts have delivered
  blurred     \* history: an attempt died, was misinformed or was not alone

notifyVars == <<log, shown, mailer, booking, mailed, byJob, blurred>>

Logs == 1..MaxLogs

Mailer ==
  [at: {"idle", "creating", "mailing", "answered", "decided"}, log: 0..MaxLogs,
   sawLog: {"NEW", "SENT", "FAILED"}, sawShown: {"PENDING", "SENT", "FAILED"},
   result: {"SENT", "FAILED"}]

IdleMailer ==
  [at |-> "idle", log |-> 0, sawLog |-> "NEW", sawShown |-> "PENDING", result |-> "FAILED"]

Booking == [status: {"NEW", "PROCESSING", "DONE", "FAILED"}, attempts: 0..MaxBookings]

NotifyInit ==
  /\ log = [n \in Logs |-> "none"]
  /\ shown = "PENDING"
  /\ mailer = [m \in Mailers |-> IdleMailer]
  /\ booking = [status |-> "NEW", attempts |-> 0]
  /\ mailed = {}
  /\ byJob = 0
  /\ blurred = FALSE

\* A column is written when it differs from what was loaded.
ColumnAfter(now, saw, set) == IF set = saw THEN now ELSE set

Stops(m) == mailer' = [mailer EXCEPT ![m] = IdleMailer]

-----------------------------------------------------------------------------
LoadsInvoice(m) ==
  /\ mailer[m].at = "idle"
  /\ \E n \in Logs : log[n] = "none"
  /\ mailer' = [mailer EXCEPT ![m].at = "creating", ![m].sawShown = shown]

BeginCreate(m) ==
  /\ m # JobMailer
  /\ LoadsInvoice(m)
  /\ UNCHANGED <<log, shown, booking, mailed, byJob, blurred>>

\* Every attempt of the job creates a notification of its own.
ClaimBooking ==
  /\ booking.status = "NEW"
  /\ LoadsInvoice(JobMailer)
  /\ booking' = [status |-> "PROCESSING", attempts |-> booking.attempts + 1]
  /\ UNCHANGED <<log, shown, mailed, byJob, blurred>>

\* The commit of create_invoice_notification, with the next id.
Creates(m, n) ==
  /\ mailer[m].at = "creating"
  /\ log[n] = "none"
  /\ \A k \in 1..(n - 1) : log[k] # "none"
  /\ log' = [log EXCEPT ![n] = "NEW"]
  /\ shown' = ColumnAfter(shown, mailer[m].sawShown, "PENDING")
  /\ UNCHANGED <<booking, mailed, byJob, blurred>>

\* POST /invoices/{id}/notify ends here.
CommitCreate(m, n) ==
  /\ m # JobMailer
  /\ Creates(m, n)
  /\ Stops(m)

\* The button and the job go on in the same session, which loads both rows anew.
CommitCreateAndSend(m, n) ==
  /\ Creates(m, n)
  /\ mailer' = [mailer EXCEPT ![m] = [IdleMailer EXCEPT !.at = "mailing", !.log = n, !.sawShown = shown']]

\* POST /notifications/{id}/send does not look at the status.
BeginSend(m, n) ==
  /\ mailer[m].at = "idle"
  /\ m # JobMailer
  /\ log[n] # "none"
  /\ mailer' = [mailer EXCEPT ![m] =
       [IdleMailer EXCEPT !.at = "mailing", !.log = n, !.sawLog = log[n], !.sawShown = shown]]
  /\ blurred' = (blurred \/ (mailer[JobMailer].at # "idle" /\ mailer[JobMailer].log = n))
  /\ UNCHANGED <<log, shown, booking, mailed, byJob>>

-----------------------------------------------------------------------------
Answers(m, result) ==
  /\ mailer[m].at = "mailing"
  /\ mailer' = [mailer EXCEPT ![m].at = "answered", ![m].result = result]

Arrives(m) ==
  /\ mailed' = mailed \cup {mailer[m].log}
  /\ byJob' = IF m = JobMailer THEN byJob + 1 ELSE byJob

MailAccepted(m) ==
  /\ Answers(m, "SENT")
  /\ Arrives(m)
  /\ UNCHANGED <<log, shown, booking, blurred>>

\* Not configured, not reachable or refused.
MailRaises(m) ==
  /\ Answers(m, "FAILED")
  /\ UNCHANGED <<log, shown, booking, mailed, byJob, blurred>>

\* The message is taken and then the answer, or the closing, times out.
MailArrivesAndRaises(m) ==
  /\ Answers(m, "FAILED")
  /\ Arrives(m)
  /\ blurred' = TRUE
  /\ UNCHANGED <<log, shown, booking>>

CommitSent(m) ==
  LET v == mailer[m] IN
  /\ v.at = "answered"
  /\ log' = [log EXCEPT ![v.log] = ColumnAfter(@, v.sawLog, v.result)]
  /\ shown' = ColumnAfter(shown, v.sawShown, v.result)
  /\ IF m = JobMailer
     THEN mailer' = [mailer EXCEPT ![m].at = "decided"]
     ELSE Stops(m)
  /\ UNCHANGED <<booking, mailed, byJob, blurred>>

\* Mutant: only an exception counts as a failure.
BookingAfterUnchecked(status) == [booking EXCEPT !.status = "DONE"]

\* Mutant: one attempt more than allowed.
BookingAfterOnceMore(status) ==
  [booking EXCEPT !.status =
     IF status = "SENT" THEN "DONE"
     ELSE IF booking.attempts > MaxBookings THEN "FAILED" ELSE "NEW"]

\* The job goes by the status that the refresh reads.
BookingAfter(status) ==
  [booking EXCEPT !.status =
     IF status = "SENT" THEN "DONE"
     ELSE IF booking.attempts >= MaxBookings THEN "FAILED" ELSE "NEW"]

DecideBooking ==
  /\ mailer[JobMailer].at = "decided"
  /\ booking' = BookingAfter(log[mailer[JobMailer].log])
  /\ Stops(JobMailer)
  /\ UNCHANGED <<log, shown, mailed, byJob, blurred>>

\* The process dies or its commit is refused; the job's attempt is either
\* counted as failed or, when the process died, never heard of again.
MailerDies(m) ==
  /\ mailer[m].at # "idle"
  /\ Stops(m)
  /\ blurred' = TRUE
  /\ IF m = JobMailer
     THEN booking' \in {booking, BookingAfter("FAILED")}
     ELSE UNCHANGED booking
  /\ UNCHANGED <<log, shown, mailed, byJob>>

\* The approval of the invoice sets its status back, unless it had loaded it so.
ApprovalResets ==
  /\ shown # "PENDING"
  /\ shown' = "PENDING"
  /\ UNCHANGED <<log, mailer, booking, mailed, byJob, blurred>>

NotifyNext ==
  \/ \E m \in Mailers :
       \/ BeginCreate(m)
       \/ \E n \in Logs : BeginSend(m, n) \/ CommitCreate(m, n) \/ CommitCreateAndSend(m, n)
       \/ MailAccepted(m)
       \/ MailRaises(m)
       \/ MailArrivesAndRaises(m)
       \/ CommitSent(m)
       \/ MailerDies(m)
  \/ ClaimBooking
  \/ DecideBooking
  \/ ApprovalResets

NotifySpec == NotifyInit /\ [][NotifyNext]_notifyVars

-----------------------------------------------------------------------------
\* Rows, sessions and the job have their types.
NotifyTypeOK ==
  /\ log \in [Logs -> {"none", "NEW", "SENT", "FAILED"}]
  /\ shown \in {"PENDING", "SENT", "FAILED"}
  /\ mailer \in [Mailers -> Mailer]
  /\ booking \in Booking
  /\ mailed \subseteq Logs
  /\ byJob \in 0..MaxBookings
  /\ blurred \in BOOLEAN

\* The records never claim an e-mail that did not arrive, although senders of
\* one notification overwrite each other's status (notification_service.py:88,
\* 106) and the job decides on a status read back from the row (scheduler.py:179);
\* and the job mails twice only after an attempt that died, was told of a
\* failure that was none, or shared its notification with another sender.
DeliveryIsRecordedTruly ==
  /\ \A n \in Logs : log[n] = "SENT" => n \in mailed
  /\ shown = "SENT" => mailed # {}
  /\ booking.status = "DONE" => byJob > 0 \/ blurred
  /\ byJob > 1 => blurred

=============================================================================
