------------------------- MODULE AccountingBatches -------------------------
(***************************************************************************)
(* How invoices are qualified, collected in batches and handed to the      *)
(* accounting office.  Web requests and the scheduler run overlapping      *)
(* transactions; each is two steps.  Its Begin loads the rows it decides   *)
(* on from a snapshot (InnoDB at REPEATABLE READ, plain SELECT) and fixes  *)
(* what it will assign; its Commit flushes the unit of work, which writes  *)
(* only columns whose value differs from the loaded one, and commits.      *)
(* Nothing is locked in between: no handler flushes an existing row before *)
(* its commit.                                                             *)
(*                                                                         *)
(* All invoices are of one month, the current one, and of the kinds that   *)
(* may be qualified.                                                       *)
(***************************************************************************)
EXTENDS Naturals, FiniteSets

CONSTANTS
  Invoices,      \* invoices of the month
  Txns,          \* web server threads and the scheduler
  None,          \* not an invoice
  ApiStatuses,   \* bound: the accounting statuses asked of the API
  MaxBatches,    \* bound: batches ever created
  MaxItems,      \* bound: how often an invoice is put into a batch
  MaxJobs,       \* bound: waiting SEND_ACCOUNTING_BATCH jobs of a batch
  MaxOverlaps    \* bound: how often a transaction begins while another is open

ASSUME BatchesAssumption ==
  /\ IsFiniteSet(Invoices)
  /\ None \notin Invoices
  /\ ApiStatuses \subseteq {"new", "qualified", "batched", "sent_to_office", "rejected"}
  /\ MaxBatches \in Nat \ {0}
  /\ MaxItems \in Nat \ {0}
  /\ MaxJobs \in Nat \ {0}
  /\ MaxOverlaps \in Nat

Batches == 1..MaxBatches
NoBatch == 0       \* SQL NULL

VARIABLES
  invoice,       \* accounting_qualified, accounting_batch_id, accounting_status
  item,          \* the accounting_batch_invoice row of each invoice: invoice_id is unique
  batch,         \* the accounting_batch rows
  job,           \* how many SEND_ACCOUNTING_BATCH jobs of each batch are NEW
  txn,           \* the open transactions and what they have loaded
  overlaps       \* history: how often a transaction began while another was open

vars == <<invoice, item, batch, job, txn, overlaps>>

Qualified == {"unset", "yes", "no"}

AccountingStatus == {"new", "qualified", "batched", "sent_to_office", "rejected"}

InvoiceRow == [qualified: Qualified, batch: Batches \cup {NoBatch}, status: AccountingStatus]

\* `id` tells a row from the one that was deleted before it.
ItemRow == [batch: Batches \cup {NoBatch}, id: 0..MaxItems]

BatchType == {"MONTHLY", "WEEKLY"}

\* `dated` is whether send_at is set.
BatchRow == [status: {"none", "GENERATED", "SENT", "deleted"},
             type: BatchType, dated: BOOLEAN, count: Nat]

NewInvoice == [qualified |-> "unset", batch |-> NoBatch, status |-> "new"]

NoBatchRow == [status |-> "none", type |-> "MONTHLY", dated |-> FALSE, count |-> 0]

Keep == "keep"     \* a column the transaction leaves alone

Transaction ==
  [op: {"none", "mark", "generate", "add", "remove", "settings", "send"},
   inv: Invoices \cup {None},
   bat: Batches \cup {NoBatch},           \* NoBatch: one will be created
   qualified: Qualified \cup {Keep},      \* what it will write to inv
   status: AccountingStatus \cup {Keep},
   unbatch: BOOLEAN,
   link: 0..MaxItems,                     \* the item it will delete
   count: Nat,                            \* the item_count it has loaded
   type: BatchType \cup {Keep},
   members: SUBSET Invoices]              \* the items it has loaded

NoTxn == [op |-> "none", inv |-> None, bat |-> NoBatch, qualified |-> Keep, status |-> Keep,
          unbatch |-> FALSE, link |-> 0, count |-> 0, type |-> Keep, members |-> {}]

(***************************************************************************)
(* The database is empty, or was in use before accounting_batch had the    *)
(* column send_at: then it may hold an open batch without a date.          *)
(***************************************************************************)
Init ==
  /\ \E legacy \in SUBSET Invoices :
       /\ invoice = [i \in Invoices |->
            IF i \in legacy THEN [qualified |-> "yes", batch |-> 1, status |-> "batched"]
                            ELSE NewInvoice]
       /\ item = [i \in Invoices |->
            IF i \in legacy THEN [batch |-> 1, id |-> 1] ELSE [batch |-> NoBatch, id |-> 0]]
       /\ batch = [b \in Batches |->
            IF legacy # {} /\ b = 1
            THEN [status |-> "GENERATED", type |-> "MONTHLY", dated |-> FALSE,
                  count |-> Cardinality(legacy)]
            ELSE NoBatchRow]
       /\ job = [b \in Batches |-> IF legacy # {} /\ b = 1 THEN 1 ELSE 0]
  /\ txn = [t \in Txns |-> NoTxn]
  /\ overlaps = 0

-----------------------------------------------------------------------------
Exists(b) == batch[b].status \in {"GENERATED", "SENT"}

Members(b) == {i \in Invoices : item[i].batch = b}

\* The open monthly batches of the period.
Open == {b \in Batches : batch[b].status = "GENERATED" /\ batch[b].type = "MONTHLY"}

\* The next row accounting_batch will have.
Fresh(b) == batch[b].status = "none" /\ \A c \in Batches : c < b => batch[c].status # "none"

\* The write that assigning `value` to a column loaded with `loaded` leads to.
Change(loaded, value) == IF value = loaded THEN Keep ELSE value

Write(change, current) == IF change = Keep THEN current ELSE change

\* The item_count loaded with batch b.
CountOf(b) == IF b = NoBatch THEN 0 ELSE batch[b].count

Start(t, transaction) ==
  /\ txn[t].op = "none"
  /\ txn' = [txn EXCEPT ![t] = transaction]
  /\ IF \A u \in Txns : txn[u].op = "none"
     THEN UNCHANGED overlaps
     ELSE overlaps < MaxOverlaps /\ overlaps' = overlaps + 1

End(t) == txn' = [txn EXCEPT ![t] = NoTxn] /\ UNCHANGED overlaps

\* The batch a commit of t puts its items into.
Target(t, b) == IF txn[t].bat = NoBatch THEN Fresh(b) ELSE b = txn[t].bat

\* Mutant: a generated batch counts as one more item.
GrownByOne(t, b, n) ==
  IF txn[t].bat = NoBatch
  THEN [status |-> "GENERATED", type |-> "MONTHLY", dated |-> TRUE, count |-> 1]
  ELSE [batch[b] EXCEPT !.count = txn[t].count + 1]

\* The row of that batch with n more items.
Grown(t, b, n) ==
  IF txn[t].bat = NoBatch
  THEN [status |-> "GENERATED", type |-> "MONTHLY", dated |-> TRUE, count |-> n]
  ELSE [batch[b] EXCEPT !.count = IF n = 0 THEN @ ELSE txn[t].count + n]

-----------------------------------------------------------------------------
(***************************************************************************)
(* Marks on one invoice: qualify or reject it, set its accounting status   *)
(* through the API, take the qualification back.                           *)
(***************************************************************************)
Mark(t, i, qualified, status) ==
  /\ Start(t, [NoTxn EXCEPT !.op = "mark", !.inv = i,
                            !.qualified = Change(invoice[i].qualified, qualified),
                            !.status = Change(invoice[i].status, status)])
  /\ UNCHANGED <<invoice, item, batch, job>>

BeginQualify(t, i) == Mark(t, i, "yes", "qualified")

BeginReject(t, i) == Mark(t, i, "no", "rejected")

\* accounting_qualified is optional: left alone, it is set to what was loaded.
BeginSetStatus(t, i, status, qualified) ==
  /\ qualified \in {"yes", "no", invoice[i].qualified}
  /\ Mark(t, i, qualified, status)

BeginUndo(t, i) == invoice[i].batch = NoBatch /\ Mark(t, i, "unset", "new")

CommitMark(t) ==
  LET i == txn[t].inv IN
  /\ txn[t].op = "mark"
  /\ invoice' = [invoice EXCEPT ![i].qualified = Write(txn[t].qualified, @),
                                ![i].status = Write(txn[t].status, @)]
  /\ End(t)
  /\ UNCHANGED <<item, batch, job>>

-----------------------------------------------------------------------------
(***************************************************************************)
(* generate_monthly_purchase_batch reuses the open batch it finds; with    *)
(* two of them scalar_one_or_none raises and nothing happens.  The         *)
(* invoices are selected FOR UPDATE, hence as they are at the commit.      *)
(***************************************************************************)
BeginGenerate(t, b) ==
  /\ Open = (IF b = NoBatch THEN {} ELSE {b})
  /\ Start(t, [NoTxn EXCEPT !.op = "generate", !.bat = b, !.count = CountOf(b)])
  /\ UNCHANGED <<invoice, item, batch, job>>

\* item_count is incremented from the loaded value; an invoice that already
\* has an item, or a batch that is gone, makes the flush fail.
CommitGenerate(t) ==
  LET chosen == {i \in Invoices : invoice[i].qualified = "yes" /\ invoice[i].batch = NoBatch} IN
  /\ txn[t].op = "generate"
  /\ \A i \in chosen : item[i].batch = NoBatch /\ item[i].id < MaxItems
  /\ \E b \in Batches :
       /\ Target(t, b)
       /\ txn[t].bat # NoBatch /\ chosen # {} => Exists(b)
       /\ job[b] < MaxJobs
       /\ item' = [i \in Invoices |->
            IF i \in chosen THEN [batch |-> b, id |-> item[i].id + 1] ELSE item[i]]
       /\ invoice' = [i \in Invoices |->
            IF i \in chosen THEN [invoice[i] EXCEPT !.batch = b, !.status = "batched"]
                            ELSE invoice[i]]
       /\ batch' = [batch EXCEPT ![b] = Grown(t, b, Cardinality(chosen))]
       /\ job' = [job EXCEPT ![b] = @ + 1]
  /\ End(t)

(***************************************************************************)
(* add_single_invoice_to_batch: into the batch the user chose, or into the *)
(* open batch of the period, or into a new one, for which no job is made.  *)
(***************************************************************************)
BeginAdd(t, i, b) ==
  /\ invoice[i].qualified = "yes"
  /\ invoice[i].batch = NoBatch
  /\ IF b = NoBatch THEN Open = {} ELSE batch[b].status = "GENERATED"
  /\ Start(t, [NoTxn EXCEPT !.op = "add", !.inv = i, !.bat = b, !.count = CountOf(b),
                            !.status = Change(invoice[i].status, "batched")])
  /\ UNCHANGED <<invoice, item, batch, job>>

CommitAdd(t) ==
  LET i == txn[t].inv IN
  /\ txn[t].op = "add"
  /\ item[i].batch = NoBatch /\ item[i].id < MaxItems
  /\ \E b \in Batches :
       /\ Target(t, b)
       /\ txn[t].bat # NoBatch => Exists(b)
       /\ item' = [item EXCEPT ![i] = [batch |-> b, id |-> @.id + 1]]
       /\ invoice' = [invoice EXCEPT ![i].batch = b, ![i].status = Write(txn[t].status, @)]
       /\ batch' = [batch EXCEPT ![b] = Grown(t, b, 1)]
  /\ End(t)
  /\ UNCHANGED job

-----------------------------------------------------------------------------
(***************************************************************************)
(* Removing an invoice from a batch, in whatever status the batch is.      *)
(***************************************************************************)
BeginRemove(t, i, b) ==
  /\ Exists(b)
  /\ item[i].batch = b
  /\ Start(t, [NoTxn EXCEPT !.op = "remove", !.inv = i, !.bat = b, !.link = item[i].id,
                            !.count = batch[b].count,
                            !.unbatch = (invoice[i].batch # NoBatch),
                            !.status = Change(invoice[i].status, "qualified")])
  /\ UNCHANGED <<invoice, item, batch, job>>

\* Deleting a row that is gone already is no error; the invoice leaves the
\* batch only if it was loaded as being in one.
Unlinked(t) ==
  [item EXCEPT ![txn[t].inv].batch = IF item[txn[t].inv].id = txn[t].link THEN NoBatch ELSE @]

Unbatched(t) ==
  [invoice EXCEPT ![txn[t].inv].batch = IF txn[t].unbatch THEN NoBatch ELSE @,
                  ![txn[t].inv].status = Write(txn[t].status, @)]

CommitRemove(t) ==
  LET b == txn[t].bat
      left == txn[t].count - 1
  IN
  /\ txn[t].op = "remove"
  /\ left > 0 /\ Exists(b)
  /\ item' = Unlinked(t)
  /\ invoice' = Unbatched(t)
  /\ batch' = [batch EXCEPT ![b].count = left]
  /\ End(t)
  /\ UNCHANGED job

\* Mutant: the other items of the batch lose their batch, the invoices do not.
CommitRemoveLastNoCascade(t) ==
  LET b == txn[t].bat IN
  /\ txn[t].op = "remove"
  /\ txn[t].count <= 1
  /\ item' = [i \in Invoices |->
       IF Unlinked(t)[i].batch = b THEN [item[i] EXCEPT !.batch = NoBatch] ELSE Unlinked(t)[i]]
  /\ invoice' = Unbatched(t)
  /\ batch' = [batch EXCEPT ![b] = [NoBatchRow EXCEPT !.status = "deleted"]]
  /\ End(t)
  /\ UNCHANGED job

\* The counter says that the batch is empty now: it is deleted, with all its
\* items (ON DELETE CASCADE) and every reference to it (ON DELETE SET NULL).
CommitRemoveLast(t) ==
  LET b == txn[t].bat IN
  /\ txn[t].op = "remove"
  /\ txn[t].count <= 1
  /\ item' = [i \in Invoices |->
       IF Unlinked(t)[i].batch = b THEN [item[i] EXCEPT !.batch = NoBatch] ELSE Unlinked(t)[i]]
  /\ invoice' = [i \in Invoices |->
       IF Unbatched(t)[i].batch = b THEN [Unbatched(t)[i] EXCEPT !.batch = NoBatch]
                                    ELSE Unbatched(t)[i]]
  /\ batch' = [batch EXCEPT ![b] = [NoBatchRow EXCEPT !.status = "deleted"]]
  /\ End(t)
  /\ UNCHANGED job

-----------------------------------------------------------------------------
(***************************************************************************)
(* update_batch_settings: the type, and a date in any case.                *)
(***************************************************************************)
BeginSettings(t, b, type) ==
  /\ batch[b].status = "GENERATED"
  /\ Start(t, [NoTxn EXCEPT !.op = "settings", !.bat = b,
                            !.type = Change(batch[b].type, type)])
  /\ UNCHANGED <<invoice, item, batch, job>>

CommitSettings(t) ==
  LET b == txn[t].bat IN
  /\ txn[t].op = "settings"
  /\ Exists(b)
  /\ batch' = [batch EXCEPT ![b].type = Write(txn[t].type, @),
                            ![b].dated = TRUE]
  /\ End(t)
  /\ UNCHANGED <<invoice, item, job>>

-----------------------------------------------------------------------------
(***************************************************************************)
(* SEND_ACCOUNTING_BATCH.  A batch with a date never gets further than the *)
(* comparison of an aware with a naive time, which raises.                 *)
(***************************************************************************)
\* Mutant: the batch is sent whether or not a job asks for it.
BeginSendUnasked(t, b) ==
  /\ Exists(b) /\ ~batch[b].dated
  /\ job' = [job EXCEPT ![b] = @ - 1]
  /\ Start(t, [NoTxn EXCEPT !.op = "send", !.bat = b, !.members =
                 {i \in Members(b) : invoice[i].status # "sent_to_office"}])
  /\ UNCHANGED <<invoice, item, batch>>

\* Mutant: only invoices still marked as batched are handed over.
BeginSendBatched(t, b) ==
  /\ job[b] > 0
  /\ Exists(b) /\ ~batch[b].dated
  /\ job' = [job EXCEPT ![b] = @ - 1]
  /\ Start(t, [NoTxn EXCEPT !.op = "send", !.bat = b, !.members =
                 {i \in Members(b) : invoice[i].status = "batched"}])
  /\ UNCHANGED <<invoice, item, batch>>

\* `members` are the invoices whose status the assignment will change.
BeginSend(t, b) ==
  /\ job[b] > 0
  /\ Exists(b) /\ ~batch[b].dated
  /\ job' = [job EXCEPT ![b] = @ - 1]
  /\ Start(t, [NoTxn EXCEPT !.op = "send", !.bat = b, !.members =
                 {i \in Members(b) : invoice[i].status # "sent_to_office"}])
  /\ UNCHANGED <<invoice, item, batch>>

CommitSend(t) ==
  LET b == txn[t].bat IN
  /\ txn[t].op = "send"
  /\ Exists(b)
  /\ batch' = [batch EXCEPT ![b].status = "SENT"]
  /\ invoice' = [i \in Invoices |->
       IF i \in txn[t].members THEN [invoice[i] EXCEPT !.status = "sent_to_office"]
                               ELSE invoice[i]]
  /\ End(t)
  /\ UNCHANGED <<item, job>>

\* Retries end the same way, until the job is FAILED; the job of a batch that
\* is gone ends as DONE.
EndJob(b) ==
  /\ job[b] > 0
  /\ Exists(b) => batch[b].dated
  /\ job' = [job EXCEPT ![b] = @ - 1]
  /\ UNCHANGED <<invoice, item, batch, txn, overlaps>>

\* A commit that the database refuses, or a process that dies: the unit of
\* work is lost.  A send is tried again while its job has attempts left.
Rollback(t) ==
  /\ txn[t].op # "none"
  /\ job' \in {job} \cup
       (IF txn[t].op = "send" /\ job[txn[t].bat] < MaxJobs
        THEN {[job EXCEPT ![txn[t].bat] = @ + 1]} ELSE {})
  /\ End(t)
  /\ UNCHANGED <<invoice, item, batch>>

-----------------------------------------------------------------------------
Begin(t) ==
  \/ \E i \in Invoices :
       \/ BeginQualify(t, i)
       \/ BeginReject(t, i)
       \/ \E s \in ApiStatuses, q \in Qualified : BeginSetStatus(t, i, s, q)
       \/ BeginUndo(t, i)
       \/ \E b \in Batches \cup {NoBatch} : BeginAdd(t, i, b)
       \/ \E b \in Batches : BeginRemove(t, i, b)
  \/ \E b \in Batches \cup {NoBatch} : BeginGenerate(t, b)
  \/ \E b \in Batches, type \in BatchType : BeginSettings(t, b, type)
  \/ \E b \in Batches : BeginSend(t, b)

Commit(t) ==
  \/ CommitMark(t)
  \/ CommitGenerate(t)
  \/ CommitAdd(t)
  \/ CommitRemove(t)
  \/ CommitRemoveLast(t)
  \/ CommitSettings(t)
  \/ CommitSend(t)

Next ==
  \/ \E t \in Txns : Begin(t) \/ Commit(t) \/ Rollback(t)
  \/ \E b \in Batches : EndJob(b)

\* The scheduler takes up every job and finishes it.
Fairness ==
  \A b \in Batches :
    /\ SF_vars(EndJob(b) \/ \E t \in Txns : BeginSend(t, b))
    /\ SF_vars(\E t \in Txns : txn[t].op = "send" /\ txn[t].bat = b /\ CommitSend(t))

Spec == Init /\ [][Next]_vars

FairSpec == Spec /\ Fairness

-----------------------------------------------------------------------------
TypeOK ==
  /\ invoice \in [Invoices -> InvoiceRow]
  /\ item \in [Invoices -> ItemRow]
  /\ batch \in [Batches -> BatchRow]
  /\ job \in [Batches -> 0..MaxJobs]
  /\ txn \in [Txns -> Transaction]
  /\ overlaps \in 0..MaxOverlaps

\* An invoice that says it is in a batch has its item in that batch, and an
\* item's batch exists, whichever transactions overlap: neither a commit that
\* was loaded before a removal nor the deletion of an emptied batch leaves a
\* dangling reference.  (The converse fails: a stale removal can clear the
\* invoice's column while its item is in another batch.)
MembershipAgrees ==
  \A i \in Invoices :
    /\ invoice[i].batch # NoBatch => item[i].batch = invoice[i].batch
    /\ item[i].batch # NoBatch => Exists(item[i].batch)

\* As long as no two transactions overlapped, the books balance: item_count is
\* the number of items, and invoices and items tell the same story, so that no
\* batch is deleted under an invoice and no later generate hits a stray item.
SerialBooksBalance ==
  overlaps = 0 =>
    /\ \A b \in Batches : Exists(b) => batch[b].count = Cardinality(Members(b))
    /\ \A i \in Invoices : item[i].batch = invoice[i].batch

Delivers ==
  \A b \in Batches :
    overlaps' = 0 /\ batch[b].status # "SENT" /\ batch'[b].status = "SENT" =>
      \A i \in Members(b)' : invoice'[i].status = "sent_to_office"

\* A batch becomes SENT together with every invoice that is in it at that
\* moment, provided no two transactions have overlapped.
SentWhole == [][Delivers]_vars

\* README.md:39: a generated batch is sent to the accounting office.
WaitingBatchIsSent ==
  \A b \in Batches :
    batch[b].status = "GENERATED" /\ job[b] > 0 ~> batch[b].status # "GENERATED"

=============================================================================
