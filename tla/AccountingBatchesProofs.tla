----------------------- MODULE AccountingBatchesProofs -----------------------
(***************************************************************************)
(* Theorems about AccountingBatches for any set of invoices, any number of *)
(* overlapping transactions and any bounds.                                *)
(***************************************************************************)
EXTENDS AccountingBatches, FiniteSetTheorems, TLAPS

(***************************************************************************)
(* What an open transaction knows.                                         *)
(***************************************************************************)
\* A transaction on an invoice has one, a transaction on a batch has one.
Aimed(transaction) ==
  /\ transaction.op \in {"mark", "add", "remove"} => transaction.inv \in Invoices
  /\ transaction.op \in {"remove", "settings", "send"} => transaction.bat \in Batches

\* The item a removal will delete is the invoice's present one or an earlier
\* one.  While it is the present one, an invoice the removal will leave alone
\* is in no batch.
Current(transaction) ==
  transaction.op = "remove" =>
    /\ transaction.link <= item[transaction.inv].id
    /\ transaction.link = item[transaction.inv].id /\ ~transaction.unbatch =>
         invoice[transaction.inv].batch = NoBatch

TxnsOK == \A t \in Txns : Aimed(txn[t]) /\ Current(txn[t])

IInv == TypeOK /\ TxnsOK /\ MembershipAgrees

\* Items get newer ids, and an invoice enters a batch only with a new item.
Aging ==
  \A i \in Invoices :
    /\ item[i].id <= item'[i].id
    /\ item'[i].id = item[i].id /\ invoice[i].batch = NoBatch => invoice'[i].batch = NoBatch

-----------------------------------------------------------------------------
\* An empty database, or one with an undated batch, satisfies the invariant.
LEMMA InitOK == Init => IInv
<1> SUFFICES ASSUME Init PROVE IInv
  OBVIOUS
<1> USE BatchesAssumption DEF Batches, NoBatch
<1>1. PICK legacy \in SUBSET Invoices :
        /\ invoice = [i \in Invoices |->
             IF i \in legacy THEN [qualified |-> "yes", batch |-> 1, status |-> "batched"]
                             ELSE NewInvoice]
        /\ item = [i \in Invoices |->
             IF i \in legacy THEN [batch |-> 1, id |-> 1] ELSE [batch |-> NoBatch, id |-> 0]]
        /\ batch = [b \in Batches |->
             IF legacy # {} /\ b = 1
             THEN [status |-> "GENERATED", type |-> "MONTHLY", dated |-> FALSE,
                   count |-> Cardinality(legacy)]
             ELSE NoBatchRow]
        /\ job = [b \in Batches |-> IF legacy # {} /\ b = 1 THEN 1 ELSE 0]
  BY DEF Init
<1>2. Cardinality(legacy) \in Nat
  BY FS_Subset, FS_CardinalityType
<1>3. txn = [t \in Txns |-> NoTxn] /\ overlaps = 0
  BY DEF Init
<1>4. NoTxn \in Transaction
  BY DEF NoTxn, Transaction, Qualified, Keep, AccountingStatus, BatchType
<1>5. TypeOK
  <2>1. invoice \in [Invoices -> InvoiceRow]
    BY <1>1 DEF InvoiceRow, NewInvoice, Qualified, AccountingStatus
  <2>2. item \in [Invoices -> ItemRow]
    BY <1>1 DEF ItemRow
  <2>3. batch \in [Batches -> BatchRow]
    BY <1>1, <1>2 DEF BatchRow, NoBatchRow, BatchType
  <2>4. job \in [Batches -> 0..MaxJobs]
    BY <1>1
  <2> QED
    BY <1>3, <1>4, <2>1, <2>2, <2>3, <2>4 DEF TypeOK
<1>6. TxnsOK
  BY <1>3 DEF TxnsOK, Aimed, Current, NoTxn
<1>7. MembershipAgrees
  BY <1>1 DEF MembershipAgrees, Exists, NewInvoice
<1> QED
  BY <1>5, <1>6, <1>7 DEF IInv

-----------------------------------------------------------------------------
\* A transaction that begins knows what it has just read.
LEMMA StartKeeps ==
  ASSUME NEW t \in Txns, NEW transaction \in Transaction, IInv,
         Start(t, transaction), Aimed(transaction), Current(transaction),
         UNCHANGED <<invoice, item, batch>>, job' \in [Batches -> 0..MaxJobs]
  PROVE  IInv'
<1>1. txn' \in [Txns -> Transaction] /\ overlaps' \in 0..MaxOverlaps
  BY BatchesAssumption DEF Start, IInv, TypeOK
<1>2. TypeOK'
  BY <1>1 DEF IInv, TypeOK
<1>3. TxnsOK'
  BY DEF IInv, TypeOK, TxnsOK, Start, Aimed, Current
<1>4. MembershipAgrees'
  BY DEF IInv, MembershipAgrees, Exists
<1> QED
  BY <1>2, <1>3, <1>4 DEF IInv

\* A transaction that ends leaves the others what they know, provided the rows
\* have only aged.
LEMMA EndKeeps ==
  ASSUME NEW t \in Txns, IInv, End(t), Aging, item' \in [Invoices -> ItemRow]
  PROVE  /\ txn' \in [Txns -> Transaction]
         /\ overlaps' \in 0..MaxOverlaps
         /\ TxnsOK'
<1> USE DEF Batches, NoBatch
<1>1. NoTxn \in Transaction
  BY BatchesAssumption DEF NoTxn, Transaction, Qualified, Keep, AccountingStatus, BatchType
<1>2. txn' \in [Txns -> Transaction] /\ overlaps' \in 0..MaxOverlaps
  BY <1>1 DEF End, IInv, TypeOK
<1>3. ASSUME NEW u \in Txns PROVE Aimed(txn'[u]) /\ Current(txn[u])'
  <2>1. CASE u = t
    BY <2>1 DEF End, IInv, TypeOK, NoTxn, Aimed, Current
  <2>2. CASE u # t
    <3>1. txn'[u] = txn[u] /\ txn[u] \in Transaction
      BY <2>2 DEF End, IInv, TypeOK
    <3>2. Aimed(txn[u]) /\ Current(txn[u])
      BY DEF IInv, TxnsOK
    <3>3. ASSUME txn[u].op = "remove" PROVE Current(txn[u])'
      <4> DEFINE i == txn[u].inv
      <4>1. i \in Invoices
        BY <3>2, <3>3 DEF Aimed
      <4>2. item[i].id \in Nat /\ item'[i].id \in Nat /\ txn[u].link \in Nat
        BY <4>1, <3>1, BatchesAssumption DEF IInv, TypeOK, ItemRow, Transaction
      <4> QED
        BY <3>1, <3>2, <3>3, <4>1, <4>2 DEF Current, Aging
    <3> QED
      BY <3>1, <3>2, <3>3 DEF Current
  <2> QED
    BY <2>1, <2>2
<1> QED
  BY <1>2, <1>3 DEF TxnsOK

-----------------------------------------------------------------------------
\* Every operation begins with a transaction that is aimed and current.
LEMMA BeginOK ==
  ASSUME NEW t \in Txns, IInv, Begin(t)
  PROVE  IInv'
<1> USE BatchesAssumption DEF Batches, NoBatch, Keep
<1> DEFINE OfQualified == Qualified \cup {Keep}
           OfStatus == AccountingStatus \cup {Keep}
<1>1. /\ invoice \in [Invoices -> InvoiceRow]
      /\ item \in [Invoices -> ItemRow]
      /\ batch \in [Batches -> BatchRow]
      /\ job \in [Batches -> 0..MaxJobs]
  BY DEF IInv, TypeOK
<1>2. NoTxn \in Transaction
  BY DEF NoTxn, Transaction, Qualified, AccountingStatus, BatchType
<1>3. ASSUME NEW i \in Invoices, NEW q \in Qualified, NEW s \in AccountingStatus, Mark(t, i, q, s)
      PROVE  IInv'
  <2> DEFINE tr == [NoTxn EXCEPT !.op = "mark", !.inv = i,
                                 !.qualified = Change(invoice[i].qualified, q),
                                 !.status = Change(invoice[i].status, s)]
  <2> HIDE DEF Keep
  <2>1. /\ Change(invoice[i].qualified, q) \in OfQualified
        /\ Change(invoice[i].status, s) \in OfStatus
    BY DEF Change
  <2>2. tr \in Transaction
    BY <1>2, <2>1 DEF Transaction
  <2>3. Aimed(tr) /\ Current(tr)
    BY DEF NoTxn, Aimed, Current
  <2>4. Start(t, tr) /\ UNCHANGED <<invoice, item, batch, job>>
    BY <1>3 DEF Mark
  <2> HIDE DEF tr
  <2> QED
    BY <1>1, <2>2, <2>3, <2>4, StartKeeps
<1>4. ASSUME NEW i \in Invoices,
             \/ BeginQualify(t, i)
             \/ BeginReject(t, i)
             \/ BeginUndo(t, i)
             \/ \E s \in ApiStatuses, q \in Qualified : BeginSetStatus(t, i, s, q)
      PROVE  IInv'
  <2>1. PICK q \in Qualified, s \in AccountingStatus : Mark(t, i, q, s)
    BY <1>4 DEF BeginQualify, BeginReject, BeginUndo, BeginSetStatus, Qualified, AccountingStatus
  <2> QED
    BY <1>3, <2>1
<1>5. ASSUME NEW b \in Batches \cup {NoBatch}, BeginGenerate(t, b)
      PROVE  IInv'
  <2> DEFINE tr == [NoTxn EXCEPT !.op = "generate", !.bat = b, !.count = CountOf(b)]
  <2>1. tr \in Transaction
    BY <1>1, <1>2 DEF Transaction, BatchRow, CountOf, Qualified, AccountingStatus, BatchType
  <2>2. Aimed(tr) /\ Current(tr)
    BY DEF NoTxn, Aimed, Current
  <2>3. Start(t, tr) /\ UNCHANGED <<invoice, item, batch, job>>
    BY <1>5 DEF BeginGenerate
  <2> HIDE DEF tr
  <2> QED
    BY <1>1, <2>1, <2>2, <2>3, StartKeeps
<1>6. ASSUME NEW i \in Invoices, NEW b \in Batches \cup {NoBatch}, BeginAdd(t, i, b)
      PROVE  IInv'
  <2> DEFINE tr == [NoTxn EXCEPT !.op = "add", !.inv = i, !.bat = b, !.count = CountOf(b),
                                 !.status = Change(invoice[i].status, "batched")]
  <2>1. tr \in Transaction
    BY <1>1, <1>2 DEF Transaction, BatchRow, CountOf, Change, Qualified, AccountingStatus, BatchType
  <2>2. Aimed(tr) /\ Current(tr)
    BY DEF NoTxn, Aimed, Current
  <2>3. Start(t, tr) /\ UNCHANGED <<invoice, item, batch, job>>
    BY <1>6 DEF BeginAdd
  <2> HIDE DEF tr
  <2> QED
    BY <1>1, <2>1, <2>2, <2>3, StartKeeps
<1>7. ASSUME NEW i \in Invoices, NEW b \in Batches, BeginRemove(t, i, b)
      PROVE  IInv'
  <2> DEFINE tr == [NoTxn EXCEPT !.op = "remove", !.inv = i, !.bat = b, !.link = item[i].id,
                                 !.count = batch[b].count,
                                 !.unbatch = (invoice[i].batch # NoBatch),
                                 !.status = Change(invoice[i].status, "qualified")]
  <2> HIDE DEF Keep
  <2>1. /\ Change(invoice[i].status, "qualified") \in OfStatus
        /\ item[i].id \in 0..MaxItems
        /\ batch[b].count \in Nat
    BY <1>1 DEF Change, ItemRow, BatchRow, AccountingStatus
  <2>2. tr \in Transaction
    BY <1>2, <2>1 DEF Transaction
  <2>3. Aimed(tr)
    BY DEF NoTxn, Aimed
  <2>4. tr.inv = i /\ tr.link = item[i].id /\ (~tr.unbatch => invoice[i].batch = NoBatch)
    BY DEF NoTxn
  <2>5. Start(t, tr) /\ UNCHANGED <<invoice, item, batch, job>>
    BY <1>7 DEF BeginRemove
  <2> HIDE DEF tr
  <2>6. Current(tr)
    BY <2>1, <2>4 DEF Current
  <2> QED
    BY <1>1, <2>2, <2>3, <2>5, <2>6, StartKeeps
<1>8. ASSUME NEW b \in Batches, NEW type \in BatchType, BeginSettings(t, b, type)
      PROVE  IInv'
  <2> DEFINE tr == [NoTxn EXCEPT !.op = "settings", !.bat = b,
                                 !.type = Change(batch[b].type, type)]
  <2>1. tr \in Transaction
    BY <1>1, <1>2 DEF Transaction, Change, Qualified, AccountingStatus, BatchType
  <2>2. Aimed(tr) /\ Current(tr)
    BY DEF NoTxn, Aimed, Current
  <2>3. Start(t, tr) /\ UNCHANGED <<invoice, item, batch, job>>
    BY <1>8 DEF BeginSettings
  <2> HIDE DEF tr
  <2> QED
    BY <1>1, <2>1, <2>2, <2>3, StartKeeps
<1>9. ASSUME NEW b \in Batches, BeginSend(t, b)
      PROVE  IInv'
  <2> DEFINE tr == [NoTxn EXCEPT !.op = "send", !.bat = b,
                      !.members = {i \in Members(b) : invoice[i].status # "sent_to_office"}]
  <2>1. tr \in Transaction
    BY <1>2 DEF Transaction, Members, Qualified, AccountingStatus, BatchType
  <2>2. Aimed(tr) /\ Current(tr)
    BY DEF NoTxn, Aimed, Current
  <2>3. Start(t, tr) /\ UNCHANGED <<invoice, item, batch>>
    BY <1>9 DEF BeginSend
  <2>4. job' \in [Batches -> 0..MaxJobs]
    BY <1>1, <1>9 DEF BeginSend
  <2> HIDE DEF tr
  <2> QED
    BY <2>1, <2>2, <2>3, <2>4, StartKeeps
<1> QED
  BY <1>4, <1>5, <1>6, <1>7, <1>8, <1>9 DEF Begin

-----------------------------------------------------------------------------
\* The column write that a value of the column or Keep leads to stays in the
\* column's type.
LEMMA WriteType ==
  ASSUME NEW C, NEW change \in C \cup {Keep}, NEW current \in C
  PROVE  Write(change, current) \in C
BY DEF Write

\* A mark changes neither items nor the column that names the batch.
LEMMA CommitMarkOK ==
  ASSUME NEW t \in Txns, IInv, CommitMark(t)
  PROVE  IInv'
<1> DEFINE i == txn[t].inv
<1>1. i \in Invoices /\ txn[t] \in Transaction
  BY DEF IInv, TypeOK, TxnsOK, Aimed, CommitMark
<1>2. invoice[i] \in InvoiceRow
  BY <1>1 DEF IInv, TypeOK
<1>3. Write(txn[t].qualified, invoice[i].qualified) \in Qualified
  BY <1>1, <1>2, WriteType DEF Transaction, InvoiceRow
<1>4. Write(txn[t].status, invoice[i].status) \in AccountingStatus
  BY <1>1, <1>2, WriteType DEF Transaction, InvoiceRow
<1>5. invoice' \in [Invoices -> InvoiceRow]
  BY <1>1, <1>3, <1>4 DEF CommitMark, IInv, TypeOK, InvoiceRow
<1>6. \A k \in Invoices : invoice'[k].batch = invoice[k].batch
  BY <1>1 DEF CommitMark, IInv, TypeOK, InvoiceRow
<1>7. UNCHANGED <<item, batch, job>> /\ End(t)
  BY DEF CommitMark
<1>8. Aging
  BY <1>6, <1>7, BatchesAssumption DEF Aging, IInv, TypeOK, ItemRow
<1>9. txn' \in [Txns -> Transaction] /\ overlaps' \in 0..MaxOverlaps /\ TxnsOK'
  BY <1>7, <1>8, EndKeeps DEF IInv, TypeOK
<1>10. MembershipAgrees'
  BY <1>6, <1>7 DEF MembershipAgrees, Exists, IInv
<1> QED
  BY <1>5, <1>7, <1>9, <1>10 DEF IInv, TypeOK

\* Settings leave every row where it is.
LEMMA CommitSettingsOK ==
  ASSUME NEW t \in Txns, IInv, CommitSettings(t)
  PROVE  IInv'
<1> DEFINE b == txn[t].bat
<1>1. b \in Batches /\ txn[t] \in Transaction
  BY DEF IInv, TypeOK, TxnsOK, Aimed, CommitSettings
<1>2. batch[b] \in BatchRow
  BY <1>1 DEF IInv, TypeOK
<1>3. Write(txn[t].type, batch[b].type) \in BatchType
  BY <1>1, <1>2, WriteType DEF Transaction, BatchRow
<1>4. batch' \in [Batches -> BatchRow]
  BY <1>1, <1>3 DEF CommitSettings, IInv, TypeOK, BatchRow
<1>5. \A c \in Batches : batch'[c].status = batch[c].status
  BY <1>1 DEF CommitSettings, IInv, TypeOK, BatchRow
<1>6. UNCHANGED <<invoice, item, job>> /\ End(t)
  BY DEF CommitSettings
<1>7. Aging
  BY <1>6, BatchesAssumption DEF Aging, IInv, TypeOK, ItemRow
<1>8. txn' \in [Txns -> Transaction] /\ overlaps' \in 0..MaxOverlaps /\ TxnsOK'
  BY <1>6, <1>7, EndKeeps DEF IInv, TypeOK
<1>9. MembershipAgrees'
  BY <1>5, <1>6 DEF MembershipAgrees, Exists, IInv, TypeOK, ItemRow, NoBatch
<1> QED
  BY <1>4, <1>6, <1>8, <1>9 DEF IInv, TypeOK

\* A send keeps the batch and its items.
LEMMA CommitSendOK ==
  ASSUME NEW t \in Txns, IInv, CommitSend(t)
  PROVE  IInv'
<1> DEFINE b == txn[t].bat
<1>1. b \in Batches
  BY DEF IInv, TxnsOK, Aimed, CommitSend
<1>2. batch' \in [Batches -> BatchRow]
  BY <1>1 DEF CommitSend, IInv, TypeOK, BatchRow
<1>3. \A c \in Batches : Exists(c) => Exists(c)'
  BY <1>1 DEF CommitSend, IInv, TypeOK, BatchRow, Exists
<1>4. invoice' \in [Invoices -> InvoiceRow]
  BY DEF CommitSend, IInv, TypeOK, InvoiceRow, AccountingStatus
<1>5. \A i \in Invoices : invoice'[i].batch = invoice[i].batch
  BY DEF CommitSend, IInv, TypeOK, InvoiceRow
<1>6. UNCHANGED <<item, job>> /\ End(t)
  BY DEF CommitSend
<1>7. Aging
  BY <1>5, <1>6, BatchesAssumption DEF Aging, IInv, TypeOK, ItemRow
<1>8. txn' \in [Txns -> Transaction] /\ overlaps' \in 0..MaxOverlaps /\ TxnsOK'
  BY <1>6, <1>7, EndKeeps DEF IInv, TypeOK
<1>9. MembershipAgrees'
  BY <1>3, <1>5, <1>6 DEF MembershipAgrees, IInv, TypeOK, ItemRow, NoBatch
<1> QED
  BY <1>2, <1>4, <1>6, <1>8, <1>9 DEF IInv, TypeOK

-----------------------------------------------------------------------------
\* The batch a commit puts n items into keeps its place, or is a new open one.
LEMMA GrownOK ==
  ASSUME NEW t \in Txns, NEW b \in Batches, NEW n \in Nat, IInv, Target(t, b)
  PROVE  /\ Grown(t, b, n) \in BatchRow
         /\ Exists(b) => Grown(t, b, n).status \in {"GENERATED", "SENT"}
         /\ txn[t].bat = NoBatch => Grown(t, b, n).status = "GENERATED"
<1>1. batch[b] \in BatchRow /\ txn[t].count \in Nat
  BY DEF IInv, TypeOK, Transaction
<1>2. CASE txn[t].bat = NoBatch
  BY <1>2 DEF Grown, BatchRow, BatchType
<1>3. CASE txn[t].bat # NoBatch
  <2> DEFINE m == IF n = 0 THEN batch[b].count ELSE txn[t].count + n
  <2>1. m \in Nat
    BY <1>1 DEF BatchRow
  <2>2. Grown(t, b, n) = [batch[b] EXCEPT !.count = m]
    BY <1>3 DEF Grown
  <2> HIDE DEF m
  <2> QED
    BY <1>1, <1>3, <2>1, <2>2 DEF BatchRow, Exists
<1> QED
  BY <1>2, <1>3

\* What a commit does that puts the invoices in chosen into batch b.
LEMMA PutOK ==
  ASSUME NEW t \in Txns, NEW b \in Batches, NEW chosen \in SUBSET Invoices, IInv,
         Target(t, b), End(t),
         txn[t].bat # NoBatch /\ chosen # {} => Exists(b),
         \A i \in chosen : item[i].batch = NoBatch /\ item[i].id < MaxItems,
         item' = [i \in Invoices |->
           IF i \in chosen THEN [batch |-> b, id |-> item[i].id + 1] ELSE item[i]],
         invoice' \in [Invoices -> InvoiceRow],
         \A i \in Invoices : invoice'[i].batch = IF i \in chosen THEN b ELSE invoice[i].batch,
         batch' = [batch EXCEPT ![b] = Grown(t, b, Cardinality(chosen))],
         job' \in [Batches -> 0..MaxJobs]
  PROVE  IInv'
<1> USE BatchesAssumption
<1>1. Cardinality(chosen) \in Nat
  BY FS_Subset, FS_CardinalityType
<1>2. batch' \in [Batches -> BatchRow]
  BY <1>1, GrownOK DEF IInv, TypeOK
<1>3. item \in [Invoices -> ItemRow] /\ item' \in [Invoices -> ItemRow]
  BY DEF IInv, TypeOK, ItemRow, Batches
<1>4. Aging
  BY <1>3 DEF Aging, ItemRow
<1>5. txn' \in [Txns -> Transaction] /\ overlaps' \in 0..MaxOverlaps /\ TxnsOK'
  BY <1>3, <1>4, EndKeeps
<1>6. \A c \in Batches : Exists(c) => Exists(c)'
  <2> SUFFICES ASSUME NEW c \in Batches, Exists(c) PROVE Exists(c)'
    OBVIOUS
  <2>1. CASE c = b
    BY <1>1, <2>1, GrownOK DEF Exists, IInv, TypeOK
  <2>2. CASE c # b
    BY <2>2 DEF Exists, IInv, TypeOK
  <2> QED
    BY <2>1, <2>2
<1>7. chosen # {} => Exists(b)'
  <2>1. CASE txn[t].bat = NoBatch
    BY <1>1, <2>1, GrownOK DEF Exists, IInv, TypeOK
  <2>2. CASE txn[t].bat # NoBatch
    BY <1>6, <2>2
  <2> QED
    BY <2>1, <2>2
<1>8. MembershipAgrees'
  <2> SUFFICES ASSUME NEW i \in Invoices
      PROVE  /\ invoice'[i].batch # NoBatch => item'[i].batch = invoice'[i].batch
             /\ item'[i].batch # NoBatch => Exists(item[i].batch)'
    BY DEF MembershipAgrees, Exists
  <2>1. CASE i \in chosen
    BY <1>7, <2>1 DEF Exists
  <2>2. CASE i \notin chosen
    <3>1. item'[i] = item[i] /\ invoice'[i].batch = invoice[i].batch
      BY <2>2
    <3>2. item[i].batch \in Batches \cup {NoBatch}
      BY <1>3 DEF ItemRow
    <3> QED
      BY <1>6, <3>1, <3>2 DEF IInv, MembershipAgrees, Exists
  <2> QED
    BY <2>1, <2>2
<1> QED
  BY <1>2, <1>3, <1>5, <1>8 DEF IInv, TypeOK

\* Generating a batch puts every qualified invoice without a batch into it.
LEMMA CommitGenerateOK ==
  ASSUME NEW t \in Txns, IInv, CommitGenerate(t)
  PROVE  IInv'
<1> DEFINE chosen == {i \in Invoices : invoice[i].qualified = "yes" /\ invoice[i].batch = NoBatch}
<1>1. PICK b \in Batches :
        /\ Target(t, b)
        /\ txn[t].bat # NoBatch /\ chosen # {} => Exists(b)
        /\ job[b] < MaxJobs
        /\ item' = [i \in Invoices |->
             IF i \in chosen THEN [batch |-> b, id |-> item[i].id + 1] ELSE item[i]]
        /\ invoice' = [i \in Invoices |->
             IF i \in chosen THEN [invoice[i] EXCEPT !.batch = b, !.status = "batched"]
                             ELSE invoice[i]]
        /\ batch' = [batch EXCEPT ![b] = Grown(t, b, Cardinality(chosen))]
        /\ job' = [job EXCEPT ![b] = @ + 1]
  BY DEF CommitGenerate
<1>2. \A i \in chosen : item[i].batch = NoBatch /\ item[i].id < MaxItems
  BY DEF CommitGenerate
<1>3. End(t)
  BY DEF CommitGenerate
<1>4. chosen \in SUBSET Invoices
  OBVIOUS
<1> HIDE DEF chosen
<1>5. invoice' \in [Invoices -> InvoiceRow]
  BY <1>1 DEF IInv, TypeOK, InvoiceRow, AccountingStatus
<1>6. \A i \in Invoices : invoice'[i].batch = IF i \in chosen THEN b ELSE invoice[i].batch
  BY <1>1 DEF IInv, TypeOK, InvoiceRow
<1>7. job' \in [Batches -> 0..MaxJobs]
  <2>1. job[b] < MaxJobs /\ job' = [job EXCEPT ![b] = @ + 1]
    BY <1>1
  <2>2. job \in [Batches -> 0..MaxJobs]
    BY DEF IInv, TypeOK
  <2> QED
    BY <2>1, <2>2, BatchesAssumption
<1> QED
  BY <1>1, <1>2, <1>3, <1>4, <1>5, <1>6, <1>7, PutOK

\* Adding one invoice.
LEMMA CommitAddOK ==
  ASSUME NEW t \in Txns, IInv, CommitAdd(t)
  PROVE  IInv'
<1> DEFINE i == txn[t].inv
<1>1. i \in Invoices /\ txn[t] \in Transaction
  BY DEF IInv, TypeOK, TxnsOK, Aimed, CommitAdd
<1>2. PICK b \in Batches :
        /\ Target(t, b)
        /\ txn[t].bat # NoBatch => Exists(b)
        /\ item' = [item EXCEPT ![i] = [batch |-> b, id |-> @.id + 1]]
        /\ invoice' = [invoice EXCEPT ![i].batch = b, ![i].status = Write(txn[t].status, @)]
        /\ batch' = [batch EXCEPT ![b] = Grown(t, b, 1)]
  BY DEF CommitAdd
<1>3. item[i].batch = NoBatch /\ item[i].id < MaxItems /\ End(t) /\ job' = job
  BY DEF CommitAdd
<1>4. invoice \in [Invoices -> InvoiceRow] /\ item \in [Invoices -> ItemRow]
  BY DEF IInv, TypeOK
<1>5. Write(txn[t].status, invoice[i].status) \in AccountingStatus
  BY <1>1, <1>4, WriteType DEF Transaction, InvoiceRow
<1> HIDE DEF i
<1>6. invoice' \in [Invoices -> InvoiceRow]
  BY <1>1, <1>2, <1>4, <1>5 DEF InvoiceRow
<1>7. \A k \in Invoices : invoice'[k].batch = IF k \in {i} THEN b ELSE invoice[k].batch
  BY <1>1, <1>2, <1>4 DEF InvoiceRow
<1>8. item' = [k \in Invoices |->
        IF k \in {i} THEN [batch |-> b, id |-> item[k].id + 1] ELSE item[k]]
  BY <1>1, <1>2, <1>4
<1>9. Cardinality({i}) = 1 /\ {i} \in SUBSET Invoices
  BY <1>1, FS_Singleton
<1>10. job' \in [Batches -> 0..MaxJobs]
  BY <1>3 DEF IInv, TypeOK
<1> QED
  BY <1>2, <1>3, <1>6, <1>7, <1>8, <1>9, <1>10, PutOK

-----------------------------------------------------------------------------
\* What a removal does to the two rows of its invoice: the item goes if it is
\* the one that was loaded, and then the invoice is left in no batch.
LEMMA RemovalOK ==
  ASSUME NEW t \in Txns, IInv, txn[t].op = "remove"
  PROVE  /\ Unlinked(t) \in [Invoices -> ItemRow]
         /\ Unbatched(t) \in [Invoices -> InvoiceRow]
         /\ \A i \in Invoices :
              /\ Unlinked(t)[i].id = item[i].id
              /\ Unlinked(t)[i].batch \in {item[i].batch, NoBatch}
              /\ Unbatched(t)[i].batch \in {invoice[i].batch, NoBatch}
              /\ Unbatched(t)[i].batch # NoBatch => Unlinked(t)[i].batch = invoice[i].batch
<1> DEFINE k == txn[t].inv
<1>1. k \in Invoices /\ txn[t] \in Transaction /\ Current(txn[t])
  BY DEF IInv, TypeOK, TxnsOK, Aimed
<1>2. invoice \in [Invoices -> InvoiceRow] /\ item \in [Invoices -> ItemRow]
  BY DEF IInv, TypeOK
<1>3. Write(txn[t].status, invoice[k].status) \in AccountingStatus
  BY <1>1, <1>2, WriteType DEF Transaction, InvoiceRow
<1> DEFINE w == Write(txn[t].status, invoice[k].status)
           clear == IF txn[t].unbatch THEN NoBatch ELSE invoice[k].batch
           gone == IF item[k].id = txn[t].link THEN NoBatch ELSE item[k].batch
<1>4. Unlinked(t) = [item EXCEPT ![k].batch = gone]
  BY DEF Unlinked
<1>5. Unbatched(t) = [invoice EXCEPT ![k].batch = clear, ![k].status = w]
  BY DEF Unbatched
<1>6. clear \in {invoice[k].batch, NoBatch} /\ gone \in {item[k].batch, NoBatch}
  OBVIOUS
<1>7. clear # NoBatch => gone = invoice[k].batch
  BY <1>1 DEF Current, IInv, MembershipAgrees
<1> HIDE DEF k, w, clear, gone
<1>8. Unlinked(t) \in [Invoices -> ItemRow]
  BY <1>1, <1>2, <1>4, <1>6 DEF ItemRow
<1>9. Unbatched(t) \in [Invoices -> InvoiceRow]
  BY <1>1, <1>2, <1>3, <1>5, <1>6 DEF InvoiceRow, w, k
<1>10. ASSUME NEW i \in Invoices
       PROVE  /\ Unlinked(t)[i].id = item[i].id
              /\ Unlinked(t)[i].batch = IF i = k THEN gone ELSE item[i].batch
              /\ Unbatched(t)[i].batch = IF i = k THEN clear ELSE invoice[i].batch
  BY <1>1, <1>2, <1>4, <1>5 DEF ItemRow, InvoiceRow
<1> QED
  BY <1>6, <1>7, <1>8, <1>9, <1>10 DEF IInv, MembershipAgrees

\* Removing an invoice from a batch that keeps others.
LEMMA CommitRemoveOK ==
  ASSUME NEW t \in Txns, IInv, CommitRemove(t)
  PROVE  IInv'
<1> DEFINE b == txn[t].bat
           left == txn[t].count - 1
<1>1. b \in Batches /\ txn[t] \in Transaction
  BY DEF IInv, TypeOK, TxnsOK, Aimed, CommitRemove
<1>2. left \in Nat
  BY <1>1 DEF Transaction, CommitRemove
<1>3. /\ item' = Unlinked(t) /\ invoice' = Unbatched(t) /\ job' = job /\ End(t)
      /\ batch' = [batch EXCEPT ![b].count = left]
      /\ txn[t].op = "remove"
  BY DEF CommitRemove
<1> HIDE DEF b, left
<1>4. batch' \in [Batches -> BatchRow] /\ \A c \in Batches : batch'[c].status = batch[c].status
  BY <1>1, <1>2, <1>3 DEF IInv, TypeOK, BatchRow
<1>5. item' \in [Invoices -> ItemRow] /\ invoice' \in [Invoices -> InvoiceRow]
  BY <1>3, RemovalOK
<1>6. Aging
  BY <1>3, RemovalOK, BatchesAssumption DEF Aging, IInv, TypeOK, ItemRow
<1>7. txn' \in [Txns -> Transaction] /\ overlaps' \in 0..MaxOverlaps /\ TxnsOK'
  BY <1>3, <1>5, <1>6, EndKeeps
<1>8. MembershipAgrees'
  <2> SUFFICES ASSUME NEW i \in Invoices
      PROVE  /\ invoice'[i].batch # NoBatch => item'[i].batch = invoice'[i].batch
             /\ item'[i].batch # NoBatch => Exists(item[i].batch)'
    BY DEF MembershipAgrees, Exists
  <2>1. item[i].batch \in Batches \cup {NoBatch}
    BY DEF IInv, TypeOK, ItemRow
  <2>2. /\ item'[i].batch \in {item[i].batch, NoBatch}
        /\ invoice'[i].batch # NoBatch => item'[i].batch = invoice'[i].batch
    BY <1>3, RemovalOK
  <2> QED
    BY <1>4, <2>1, <2>2 DEF IInv, MembershipAgrees, Exists
<1> QED
  BY <1>3, <1>4, <1>5, <1>7, <1>8 DEF IInv, TypeOK

\* Deleting the emptied batch takes with it every item and every reference.
LEMMA CommitRemoveLastOK ==
  ASSUME NEW t \in Txns, IInv, CommitRemoveLast(t)
  PROVE  IInv'
<1> DEFINE b == txn[t].bat
<1>1. b \in Batches
  BY DEF IInv, TxnsOK, Aimed, CommitRemoveLast
<1>2. /\ item' = [i \in Invoices |->
           IF Unlinked(t)[i].batch = b THEN [item[i] EXCEPT !.batch = NoBatch] ELSE Unlinked(t)[i]]
      /\ invoice' = [i \in Invoices |->
           IF Unbatched(t)[i].batch = b THEN [Unbatched(t)[i] EXCEPT !.batch = NoBatch]
                                        ELSE Unbatched(t)[i]]
      /\ batch' = [batch EXCEPT ![b] = [NoBatchRow EXCEPT !.status = "deleted"]]
      /\ job' = job /\ End(t) /\ txn[t].op = "remove"
  BY DEF CommitRemoveLast
<1> HIDE DEF b
<1>3. [NoBatchRow EXCEPT !.status = "deleted"] \in BatchRow
  BY DEF NoBatchRow, BatchRow, BatchType
<1>4. batch' \in [Batches -> BatchRow] /\ \A c \in Batches : c # b => batch'[c] = batch[c]
  BY <1>1, <1>2, <1>3 DEF IInv, TypeOK
<1>5. item \in [Invoices -> ItemRow] /\ invoice \in [Invoices -> InvoiceRow]
  BY DEF IInv, TypeOK
<1>6. item' \in [Invoices -> ItemRow] /\ invoice' \in [Invoices -> InvoiceRow]
  <2> USE DEF ItemRow, InvoiceRow
  <2>1. Unlinked(t) \in [Invoices -> ItemRow] /\ Unbatched(t) \in [Invoices -> InvoiceRow]
    BY <1>2, RemovalOK
  <2> QED
    BY <1>2, <1>5, <2>1
<1>7. ASSUME NEW i \in Invoices
      PROVE  /\ item'[i].id = item[i].id
             /\ item'[i].batch = IF Unlinked(t)[i].batch = b THEN NoBatch ELSE Unlinked(t)[i].batch
             /\ invoice'[i].batch =
                  IF Unbatched(t)[i].batch = b THEN NoBatch ELSE Unbatched(t)[i].batch
  <2>1. Unlinked(t)[i] \in ItemRow /\ Unbatched(t)[i] \in InvoiceRow /\ item[i] \in ItemRow
    BY <1>2, <1>5, RemovalOK
  <2>2. Unlinked(t)[i].id = item[i].id
    BY <1>2, RemovalOK
  <2> QED
    BY <1>2, <2>1, <2>2 DEF ItemRow, InvoiceRow
<1>8. Aging
  BY <1>2, <1>5, <1>7, RemovalOK, BatchesAssumption DEF Aging, ItemRow
<1>9. txn' \in [Txns -> Transaction] /\ overlaps' \in 0..MaxOverlaps /\ TxnsOK'
  BY <1>2, <1>6, <1>8, EndKeeps
<1>10. MembershipAgrees'
  <2> SUFFICES ASSUME NEW i \in Invoices
      PROVE  /\ invoice'[i].batch # NoBatch => item'[i].batch = invoice'[i].batch
             /\ item'[i].batch # NoBatch => Exists(item[i].batch)'
    BY DEF MembershipAgrees, Exists
  <2>1. item[i].batch \in Batches \cup {NoBatch}
    BY <1>5 DEF ItemRow
  <2>2. /\ Unlinked(t)[i].batch \in {item[i].batch, NoBatch}
        /\ Unbatched(t)[i].batch \in {invoice[i].batch, NoBatch}
        /\ Unbatched(t)[i].batch # NoBatch => Unlinked(t)[i].batch = invoice[i].batch
    BY <1>2, RemovalOK
  <2>3. item'[i].batch # NoBatch => item'[i].batch = item[i].batch /\ item'[i].batch # b
    BY <1>7, <2>2
  <2>4. item'[i].batch # NoBatch => Exists(item[i].batch)'
    BY <1>4, <2>1, <2>3 DEF IInv, MembershipAgrees, Exists
  <2> QED
    BY <1>7, <2>2, <2>4
<1> QED
  BY <1>2, <1>4, <1>6, <1>9, <1>10 DEF IInv, TypeOK

-----------------------------------------------------------------------------
\* A lost unit of work changes no row of a batch, and neither does a job that ends.
LEMMA OtherOK ==
  ASSUME IInv, (\E t \in Txns : Rollback(t)) \/ (\E b \in Batches : EndJob(b))
  PROVE  IInv'
<1>1. ASSUME NEW t \in Txns, Rollback(t) PROVE IInv'
  <2>1. UNCHANGED <<invoice, item, batch>> /\ End(t)
    BY <1>1 DEF Rollback
  <2>2. Aging
    BY <2>1, BatchesAssumption DEF Aging, IInv, TypeOK, ItemRow
  <2>3. txn' \in [Txns -> Transaction] /\ overlaps' \in 0..MaxOverlaps /\ TxnsOK'
    BY <2>1, <2>2, EndKeeps DEF IInv, TypeOK
  <2>4. txn[t].op = "send" => txn[t].bat \in Batches
    BY DEF IInv, TxnsOK, Aimed
  <2>5. job' \in [Batches -> 0..MaxJobs]
    BY <1>1, <2>4, BatchesAssumption DEF Rollback, IInv, TypeOK
  <2>6. MembershipAgrees'
    BY <2>1 DEF IInv, MembershipAgrees, Exists
  <2> QED
    BY <2>1, <2>3, <2>5, <2>6 DEF IInv, TypeOK
<1>2. ASSUME NEW b \in Batches, EndJob(b) PROVE IInv'
  <2>1. UNCHANGED <<invoice, item, batch, txn, overlaps>>
    BY <1>2 DEF EndJob
  <2>2. job' \in [Batches -> 0..MaxJobs]
    BY <1>2, BatchesAssumption DEF EndJob, IInv, TypeOK
  <2> QED
    BY <2>1, <2>2 DEF IInv, TypeOK, TxnsOK, Current, MembershipAgrees, Exists
<1> QED
  BY <1>1, <1>2

\* IInv is an invariant: one case for every action.
THEOREM Inductive == Spec => []IInv
<1>1. IInv /\ [Next]_vars => IInv'
  <2> SUFFICES ASSUME IInv, [Next]_vars PROVE IInv'
    OBVIOUS
  <2>1. ASSUME NEW t \in Txns, Begin(t) PROVE IInv'
    BY <2>1, BeginOK
  <2>2. ASSUME NEW t \in Txns, Commit(t) PROVE IInv'
    BY <2>2, CommitMarkOK, CommitGenerateOK, CommitAddOK, CommitRemoveOK, CommitRemoveLastOK,
       CommitSettingsOK, CommitSendOK DEF Commit
  <2>3. CASE UNCHANGED vars
    BY <2>3 DEF vars, IInv, TypeOK, TxnsOK, Current, MembershipAgrees, Exists
  <2> QED
    BY <2>1, <2>2, <2>3, OtherOK DEF Next
<1> QED
  BY <1>1, InitOK, PTL DEF Spec

\* Every column, counter and loaded value keeps its type.
THEOREM TypeCorrect == Spec => []TypeOK
BY Inductive, PTL DEF IInv

\* For any number of overlapping transactions: an invoice that names a batch
\* has its item there, and no item outlives its batch.
THEOREM MembershipHolds == Spec => []MembershipAgrees
BY Inductive, PTL DEF IInv

-----------------------------------------------------------------------------
(***************************************************************************)
(* One transaction at a time: what it has loaded is what the tables hold,  *)
(* and the books balance.                                                  *)
(***************************************************************************)
Alone == \A t, u \in Txns : txn[t].op # "none" /\ txn[u].op # "none" => t = u

Exact(transaction) ==
  /\ transaction.op \in {"generate", "add"} /\ transaction.bat # NoBatch =>
       Exists(transaction.bat) /\ transaction.count = batch[transaction.bat].count
  /\ transaction.op = "remove" =>
       /\ Exists(transaction.bat)
       /\ item[transaction.inv].batch = transaction.bat
       /\ transaction.link = item[transaction.inv].id
       /\ transaction.count = batch[transaction.bat].count
       /\ transaction.unbatch
  /\ transaction.op = "send" =>
       transaction.members =
         {i \in Members(transaction.bat) : invoice[i].status # "sent_to_office"}

Books ==
  /\ \A b \in Batches : Exists(b) => batch[b].count = Cardinality(Members(b))
  /\ \A i \in Invoices : item[i].batch = invoice[i].batch

SerialOK == overlaps = 0 => Alone /\ Books /\ \A t \in Txns : Exact(txn[t])

\* The books of an empty database, and of one with an undated batch, balance.
LEMMA SerialInit == Init => SerialOK
<1> SUFFICES ASSUME Init PROVE SerialOK
  OBVIOUS
<1> USE BatchesAssumption DEF Batches, NoBatch
<1>1. PICK legacy \in SUBSET Invoices :
        /\ invoice = [i \in Invoices |->
             IF i \in legacy THEN [qualified |-> "yes", batch |-> 1, status |-> "batched"]
                             ELSE NewInvoice]
        /\ item = [i \in Invoices |->
             IF i \in legacy THEN [batch |-> 1, id |-> 1] ELSE [batch |-> NoBatch, id |-> 0]]
        /\ batch = [b \in Batches |->
             IF legacy # {} /\ b = 1
             THEN [status |-> "GENERATED", type |-> "MONTHLY", dated |-> FALSE,
                   count |-> Cardinality(legacy)]
             ELSE NoBatchRow]
  BY DEF Init
<1>2. \A b \in Batches : Exists(b) => b = 1 /\ batch[b].count = Cardinality(legacy)
  BY <1>1 DEF Exists, NoBatchRow
<1>3. Members(1) = legacy
  BY <1>1 DEF Members
<1>4. Books
  BY <1>1, <1>2, <1>3 DEF Books, NewInvoice
<1>5. txn = [t \in Txns |-> NoTxn]
  BY DEF Init
<1> QED
  BY <1>4, <1>5 DEF SerialOK, Alone, Exact, NoTxn

\* A transaction that begins alone reads what is there.
LEMMA StartAlone ==
  ASSUME NEW t \in Txns, NEW transaction, IInv, SerialOK,
         Start(t, transaction), Exact(transaction), UNCHANGED <<invoice, item, batch>>
  PROVE  SerialOK'
<1> SUFFICES ASSUME overlaps' = 0 PROVE Alone' /\ Books' /\ \A u \in Txns : Exact(txn[u])'
  BY DEF SerialOK
<1>1. overlaps \in Nat /\ txn \in [Txns -> Transaction]
  BY BatchesAssumption DEF IInv, TypeOK
<1>2. \A u \in Txns : txn[u].op = "none"
  BY <1>1 DEF Start
<1>3. overlaps = 0
  BY <1>1, <1>2 DEF Start
<1>4. Books'
  BY <1>3 DEF SerialOK, Books, Exists, Members
<1>5. txn' = [txn EXCEPT ![t] = transaction]
  BY DEF Start
<1>6. ASSUME NEW u \in Txns PROVE Exact(txn[u])' /\ (txn'[u].op # "none" => u = t)
  <2>1. CASE u = t
    BY <1>1, <1>5, <2>1 DEF Exact, Exists, Members
  <2>2. CASE u # t
    BY <1>1, <1>2, <1>5, <2>2 DEF Exact
  <2> QED
    BY <2>1, <2>2
<1> QED
  BY <1>4, <1>6 DEF Alone

\* Each operation loads what it decides on.
LEMMA BeginAlone ==
  ASSUME NEW t \in Txns, IInv, SerialOK, Begin(t)
  PROVE  SerialOK'
<1>1. ASSUME NEW i \in Invoices, NEW q, NEW s, Mark(t, i, q, s)
      PROVE  SerialOK'
  BY <1>1, StartAlone DEF Mark, Exact, NoTxn
<1>2. ASSUME NEW i \in Invoices,
             \/ BeginQualify(t, i)
             \/ BeginReject(t, i)
             \/ BeginUndo(t, i)
             \/ \E s \in ApiStatuses, q \in Qualified : BeginSetStatus(t, i, s, q)
      PROVE  SerialOK'
  BY <1>1, <1>2 DEF BeginQualify, BeginReject, BeginUndo, BeginSetStatus
<1>3. ASSUME NEW b \in Batches \cup {NoBatch}, BeginGenerate(t, b)
      PROVE  SerialOK'
  <2> DEFINE tr == [NoTxn EXCEPT !.op = "generate", !.bat = b, !.count = CountOf(b)]
  <2>1. Exact(tr)
    BY <1>3 DEF Exact, NoTxn, BeginGenerate, Open, CountOf, Exists
  <2>2. Start(t, tr) /\ UNCHANGED <<invoice, item, batch>>
    BY <1>3 DEF BeginGenerate
  <2> HIDE DEF tr
  <2> QED
    BY <2>1, <2>2, StartAlone
<1>4. ASSUME NEW i \in Invoices, NEW b \in Batches \cup {NoBatch}, BeginAdd(t, i, b)
      PROVE  SerialOK'
  <2> DEFINE tr == [NoTxn EXCEPT !.op = "add", !.inv = i, !.bat = b, !.count = CountOf(b),
                                 !.status = Change(invoice[i].status, "batched")]
  <2>1. Exact(tr)
    BY <1>4 DEF Exact, NoTxn, BeginAdd, CountOf, Exists
  <2>2. Start(t, tr) /\ UNCHANGED <<invoice, item, batch>>
    BY <1>4 DEF BeginAdd
  <2> HIDE DEF tr
  <2> QED
    BY <2>1, <2>2, StartAlone
<1>5. ASSUME NEW i \in Invoices, NEW b \in Batches, BeginRemove(t, i, b)
      PROVE  SerialOK'
  <2> DEFINE tr == [NoTxn EXCEPT !.op = "remove", !.inv = i, !.bat = b, !.link = item[i].id,
                                 !.count = batch[b].count,
                                 !.unbatch = (invoice[i].batch # NoBatch),
                                 !.status = Change(invoice[i].status, "qualified")]
  <2>1. Start(t, tr) /\ UNCHANGED <<invoice, item, batch>>
    BY <1>5 DEF BeginRemove
  <2>2. /\ tr.op = "remove" /\ tr.inv = i /\ tr.bat = b /\ tr.link = item[i].id
        /\ tr.count = batch[b].count /\ (invoice[i].batch # NoBatch => tr.unbatch)
    BY DEF NoTxn
  <2>3. Exists(b) /\ item[i].batch = b
    BY <1>5 DEF BeginRemove
  <2>4. b # NoBatch
    BY DEF Batches, NoBatch
  <2> HIDE DEF tr
  <2>5. overlaps = 0 => Exact(tr)
    BY <2>2, <2>3, <2>4 DEF Exact, SerialOK, Books
  <2>6. overlaps' = 0 => overlaps = 0
    BY <2>1, BatchesAssumption DEF Start, IInv, TypeOK
  <2> QED
    BY <2>1, <2>5, <2>6, StartAlone DEF SerialOK
<1>6. ASSUME NEW b \in Batches, NEW type \in BatchType, BeginSettings(t, b, type)
      PROVE  SerialOK'
  BY <1>6, StartAlone DEF BeginSettings, Exact, NoTxn
<1>7. ASSUME NEW b \in Batches, BeginSend(t, b)
      PROVE  SerialOK'
  <2> DEFINE tr == [NoTxn EXCEPT !.op = "send", !.bat = b,
                      !.members = {i \in Members(b) : invoice[i].status # "sent_to_office"}]
  <2>1. Exact(tr)
    BY DEF Exact, NoTxn
  <2>2. Start(t, tr) /\ UNCHANGED <<invoice, item, batch>>
    BY <1>7 DEF BeginSend
  <2> HIDE DEF tr
  <2> QED
    BY <2>1, <2>2, StartAlone
<1> QED
  BY <1>2, <1>3, <1>4, <1>5, <1>6, <1>7 DEF Begin

\* When the only transaction ends with balanced books, everything is at rest.
LEMMA EndAlone ==
  ASSUME NEW t \in Txns, IInv, SerialOK, txn[t].op # "none", End(t), overlaps = 0 => Books'
  PROVE  SerialOK'
<1>1. txn \in [Txns -> Transaction] /\ txn' = [txn EXCEPT ![t] = NoTxn] /\ overlaps' = overlaps
  BY DEF IInv, TypeOK, End
<1>2. overlaps = 0 => \A u \in Txns : txn'[u].op = "none"
  BY <1>1 DEF SerialOK, Alone, NoTxn
<1> QED
  BY <1>1, <1>2 DEF SerialOK, Alone, Exact

-----------------------------------------------------------------------------
\* A row that does not exist has no items.
LEMMA NoMembers ==
  ASSUME IInv, NEW b \in Batches, ~Exists(b)
  PROVE  Members(b) = {}
BY DEF IInv, MembershipAgrees, Members, Batches, NoBatch

\* Members are invoices, hence finitely many.
LEMMA MembersFinite ==
  ASSUME NEW b
  PROVE  IsFiniteSet(Members(b)) /\ Cardinality(Members(b)) \in Nat
<1>1. Members(b) \in SUBSET Invoices
  BY DEF Members
<1> QED
  BY <1>1, FS_Subset, FS_CardinalityType, BatchesAssumption

\* The counter that Grown writes is the number of items there will be.
LEMMA PutBooks ==
  ASSUME NEW t \in Txns, NEW b \in Batches, NEW chosen \in SUBSET Invoices,
         IInv, Books, Exact(txn[t]), txn[t].op \in {"generate", "add"}, Target(t, b),
         \A i \in chosen : item[i].batch = NoBatch,
         \A i \in Invoices :
           /\ item'[i].batch = IF i \in chosen THEN b ELSE item[i].batch
           /\ invoice'[i].batch = IF i \in chosen THEN b ELSE invoice[i].batch,
         batch' = [batch EXCEPT ![b] = Grown(t, b, Cardinality(chosen))]
  PROVE  Books'
<1> DEFINE n == Cardinality(chosen)
<1>1. IsFiniteSet(chosen) /\ n \in Nat /\ (n = 0 <=> chosen = {})
  BY BatchesAssumption, FS_Subset, FS_CardinalityType, FS_EmptySet
<1>2. batch \in [Batches -> BatchRow] /\ txn[t] \in Transaction
  BY DEF IInv, TypeOK
<1>3. \A c \in Batches : Members(c)' = IF c = b THEN Members(b) \cup chosen ELSE Members(c)
  BY DEF Members, Batches, NoBatch
<1>4. Members(b) \cap chosen = {}
  BY DEF Members, Batches, NoBatch
<1>5. Cardinality(Members(b) \cup chosen) = Cardinality(Members(b)) + n
  <2>1. Cardinality(Members(b) \cup chosen) =
          Cardinality(Members(b)) + n - Cardinality(Members(b) \cap chosen)
    BY <1>1, MembersFinite, FS_Union
  <2>2. Cardinality(Members(b) \cap chosen) = 0
    BY <1>4, FS_EmptySet
  <2>3. Cardinality(Members(b)) \in Nat
    BY MembersFinite
  <2> HIDE DEF n
  <2> QED
    BY <1>1, <2>1, <2>2, <2>3
<1>6. Exists(b)' => batch'[b].count = Cardinality(Members(b)) + n
  <2>1. batch'[b] = Grown(t, b, n)
    BY <1>2
  <2>2. CASE txn[t].bat = NoBatch
    <3>1. Members(b) = {}
      BY <2>2, NoMembers DEF Target, Fresh, Exists
    <3>2. Cardinality(Members(b)) = 0
      BY <3>1, FS_EmptySet
    <3>3. batch'[b].count = n
      BY <2>1, <2>2 DEF Grown
    <3> QED
      BY <1>1, <3>2, <3>3
  <2>3. CASE txn[t].bat # NoBatch
    <3>1. b = txn[t].bat
      BY <2>3 DEF Target
    <3>2. Exists(b) /\ txn[t].count = batch[b].count
      BY <2>3, <3>1 DEF Exact
    <3>3. batch[b].count = Cardinality(Members(b)) /\ batch[b].count \in Nat
      BY <1>2, <3>2 DEF Books, BatchRow
    <3>4. batch'[b].count = IF n = 0 THEN batch[b].count ELSE txn[t].count + n
      BY <1>2, <2>1, <2>3 DEF Grown, BatchRow
    <3> QED
      BY <1>1, <3>2, <3>3, <3>4
  <2> QED
    BY <2>2, <2>3
<1> HIDE DEF n
<1>7. \A c \in Batches : Exists(c)' => batch'[c].count = Cardinality(Members(c)')
  <2> SUFFICES ASSUME NEW c \in Batches, Exists(c)' PROVE batch'[c].count = Cardinality(Members(c)')
    OBVIOUS
  <2>1. CASE c = b
    BY <1>3, <1>5, <1>6, <2>1
  <2>2. CASE c # b
    <3>1. batch'[c] = batch[c] /\ Members(c)' = Members(c)
      BY <1>2, <1>3, <2>2
    <3> QED
      BY <3>1 DEF Books, Exists
  <2> QED
    BY <2>1, <2>2
<1>8. \A i \in Invoices : item'[i].batch = invoice'[i].batch
  BY DEF Books
<1> QED
  BY <1>7, <1>8 DEF Books

\* Generating and adding keep the books balanced.
LEMMA PutsAlone ==
  ASSUME NEW t \in Txns, IInv, SerialOK, overlaps = 0, CommitGenerate(t) \/ CommitAdd(t)
  PROVE  Books'
<1>1. Books /\ Exact(txn[t])
  BY DEF SerialOK
<1>2. invoice \in [Invoices -> InvoiceRow] /\ item \in [Invoices -> ItemRow]
  BY DEF IInv, TypeOK
<1>3. CASE CommitGenerate(t)
  <2> DEFINE chosen == {i \in Invoices : invoice[i].qualified = "yes" /\ invoice[i].batch = NoBatch}
  <2>1. PICK b \in Batches :
          /\ Target(t, b)
          /\ item' = [i \in Invoices |->
               IF i \in chosen THEN [batch |-> b, id |-> item[i].id + 1] ELSE item[i]]
          /\ invoice' = [i \in Invoices |->
               IF i \in chosen THEN [invoice[i] EXCEPT !.batch = b, !.status = "batched"]
                               ELSE invoice[i]]
          /\ batch' = [batch EXCEPT ![b] = Grown(t, b, Cardinality(chosen))]
    BY <1>3 DEF CommitGenerate
  <2>2. txn[t].op = "generate" /\ \A i \in chosen : item[i].batch = NoBatch
    BY <1>3 DEF CommitGenerate
  <2>3. chosen \in SUBSET Invoices
    OBVIOUS
  <2> HIDE DEF chosen
  <2>4. \A i \in Invoices :
          /\ item'[i].batch = IF i \in chosen THEN b ELSE item[i].batch
          /\ invoice'[i].batch = IF i \in chosen THEN b ELSE invoice[i].batch
    BY <1>2, <2>1 DEF InvoiceRow
  <2> QED
    BY <1>1, <2>1, <2>2, <2>3, <2>4, PutBooks
<1>4. CASE CommitAdd(t)
  <2> DEFINE i == txn[t].inv
  <2>1. PICK b \in Batches :
          /\ Target(t, b)
          /\ item' = [item EXCEPT ![i] = [batch |-> b, id |-> @.id + 1]]
          /\ invoice' = [invoice EXCEPT ![i].batch = b, ![i].status = Write(txn[t].status, @)]
          /\ batch' = [batch EXCEPT ![b] = Grown(t, b, 1)]
    BY <1>4 DEF CommitAdd
  <2>2. txn[t].op = "add" /\ item[i].batch = NoBatch
    BY <1>4 DEF CommitAdd
  <2>3. i \in Invoices /\ {i} \in SUBSET Invoices /\ Cardinality({i}) = 1
    BY <2>2, FS_Singleton DEF IInv, TxnsOK, Aimed
  <2> HIDE DEF i
  <2>4. \A k \in Invoices :
          /\ item'[k].batch = IF k \in {i} THEN b ELSE item[k].batch
          /\ invoice'[k].batch = IF k \in {i} THEN b ELSE invoice[k].batch
    BY <1>2, <2>1, <2>3 DEF InvoiceRow, ItemRow
  <2>5. batch' = [batch EXCEPT ![b] = Grown(t, b, Cardinality({i}))]
    BY <2>1, <2>3
  <2>6. \A k \in {i} : item[k].batch = NoBatch
    BY <2>2
  <2> QED
    BY <1>1, <2>1, <2>2, <2>3, <2>4, <2>5, <2>6, PutBooks
<1> QED
  BY <1>3, <1>4

\* A removal by the only transaction takes the invoice out of both tables.
LEMMA RemovedAlone ==
  ASSUME NEW t \in Txns, IInv, Books, Exact(txn[t]), txn[t].op = "remove", NEW i \in Invoices
  PROVE  /\ Unlinked(t)[i].batch = IF i = txn[t].inv THEN NoBatch ELSE item[i].batch
         /\ Unbatched(t)[i].batch = Unlinked(t)[i].batch
<1>1. invoice \in [Invoices -> InvoiceRow] /\ item \in [Invoices -> ItemRow]
  BY DEF IInv, TypeOK
<1>2. txn[t].inv \in Invoices
  BY DEF IInv, TxnsOK, Aimed
<1>3. txn[t].link = item[txn[t].inv].id /\ txn[t].unbatch
  BY DEF Exact
<1>4. Unlinked(t)[i].batch = IF i = txn[t].inv THEN NoBatch ELSE item[i].batch
  BY <1>1, <1>2, <1>3 DEF Unlinked, ItemRow
<1>5. Unbatched(t)[i].batch = IF i = txn[t].inv THEN NoBatch ELSE invoice[i].batch
  BY <1>1, <1>2, <1>3 DEF Unbatched, InvoiceRow
<1> QED
  BY <1>4, <1>5 DEF Books

\* Removing an invoice, the last of its batch or not, keeps the books balanced.
LEMMA RemovesAlone ==
  ASSUME NEW t \in Txns, IInv, SerialOK, overlaps = 0, CommitRemove(t) \/ CommitRemoveLast(t)
  PROVE  Books'
<1> DEFINE b == txn[t].bat
           k == txn[t].inv
<1>1. Books /\ Exact(txn[t]) /\ txn[t].op = "remove"
  BY DEF SerialOK, CommitRemove, CommitRemoveLast
<1>2. b \in Batches /\ k \in Invoices
  BY <1>1 DEF IInv, TxnsOK, Aimed
<1>3. Exists(b) /\ item[k].batch = b /\ txn[t].count = batch[b].count
  BY <1>1 DEF Exact
<1>4. batch \in [Batches -> BatchRow] /\ item \in [Invoices -> ItemRow]
  BY DEF IInv, TypeOK
<1>5. batch[b].count = Cardinality(Members(b)) /\ k \in Members(b)
  BY <1>1, <1>2, <1>3 DEF Books, Members
<1> HIDE DEF b, k
<1>6. CASE CommitRemove(t)
  <2>1. /\ item' = Unlinked(t) /\ invoice' = Unbatched(t)
        /\ batch' = [batch EXCEPT ![b].count = txn[t].count - 1]
    BY <1>6 DEF CommitRemove, b
  <2>2. \A i \in Invoices :
          /\ item'[i].batch = IF i = k THEN NoBatch ELSE item[i].batch
          /\ invoice'[i].batch = item'[i].batch
    BY <1>1, <2>1, RemovedAlone DEF k
  <2>3. \A c \in Batches : Members(c)' = IF c = b THEN Members(b) \ {k} ELSE Members(c)
    BY <1>3, <2>2 DEF Members, Batches, NoBatch
  <2>4. Cardinality(Members(b) \ {k}) = Cardinality(Members(b)) - 1
    BY <1>5, MembersFinite, FS_RemoveElement
  <2>5. /\ batch'[b].count = Cardinality(Members(b)) - 1
        /\ \A c \in Batches : /\ batch'[c].status = batch[c].status
                              /\ c # b => batch'[c] = batch[c]
    BY <1>2, <1>3, <1>4, <1>5, <2>1 DEF BatchRow
  <2>6. ASSUME NEW c \in Batches, Exists(c)' PROVE batch'[c].count = Cardinality(Members(c)')
    <3>1. CASE c = b
      BY <2>3, <2>4, <2>5, <3>1
    <3>2. CASE c # b
      <4>1. batch'[c] = batch[c] /\ Members(c)' = Members(c)
        BY <2>3, <2>5, <3>2
      <4> QED
        BY <1>1, <2>6, <4>1 DEF Books, Exists
    <3> QED
      BY <3>1, <3>2
  <2> QED
    BY <2>2, <2>6 DEF Books
<1>7. CASE CommitRemoveLast(t)
  <2>1. /\ item' = [i \in Invoices |->
             IF Unlinked(t)[i].batch = b THEN [item[i] EXCEPT !.batch = NoBatch] ELSE Unlinked(t)[i]]
        /\ invoice' = [i \in Invoices |->
             IF Unbatched(t)[i].batch = b THEN [Unbatched(t)[i] EXCEPT !.batch = NoBatch]
                                          ELSE Unbatched(t)[i]]
        /\ batch' = [batch EXCEPT ![b] = [NoBatchRow EXCEPT !.status = "deleted"]]
    BY <1>7 DEF CommitRemoveLast, b
  <2>2. Unlinked(t) \in [Invoices -> ItemRow] /\ Unbatched(t) \in [Invoices -> InvoiceRow]
    BY <1>1, RemovalOK
  <2>3. \A i \in Invoices :
          /\ Unlinked(t)[i].batch = IF i = k THEN NoBatch ELSE item[i].batch
          /\ Unbatched(t)[i].batch = Unlinked(t)[i].batch
    BY <1>1, RemovedAlone DEF k
  <2>4. \A i \in Invoices :
          /\ item'[i].batch = IF item[i].batch = b THEN NoBatch ELSE item[i].batch
          /\ invoice'[i].batch = item'[i].batch
    BY <1>3, <1>4, <2>1, <2>2, <2>3 DEF ItemRow, InvoiceRow
  <2>5. \A c \in Batches : c # b => batch'[c] = batch[c] /\ Members(c)' = Members(c)
    BY <1>4, <2>1, <2>4 DEF Members, Batches, NoBatch
  <2>6. batch'[b].status = "deleted"
    BY <1>2, <1>4, <2>1 DEF NoBatchRow
  <2>7. ASSUME NEW c \in Batches, Exists(c)' PROVE batch'[c].count = Cardinality(Members(c)')
    <3>1. c # b
      BY <2>6, <2>7 DEF Exists
    <3>2. Exists(c)
      BY <2>5, <2>7, <3>1 DEF Exists
    <3> QED
      BY <1>1, <2>5, <3>1, <3>2 DEF Books
  <2> QED
    BY <2>4, <2>7 DEF Books
<1> QED
  BY <1>6, <1>7

-----------------------------------------------------------------------------
\* Every step keeps the books balanced as long as no two transactions overlap.
LEMMA SerialStep ==
  ASSUME IInv, SerialOK, [Next]_vars
  PROVE  SerialOK'
<1>1. ASSUME NEW t \in Txns, Begin(t) PROVE SerialOK'
  BY <1>1, BeginAlone
<1>2. ASSUME NEW t \in Txns, Commit(t) \/ Rollback(t) PROVE SerialOK'
  <2>1. txn[t].op # "none" /\ End(t)
    BY <1>2 DEF Commit, CommitMark, CommitGenerate, CommitAdd, CommitRemove, CommitRemoveLast,
       CommitSettings, CommitSend, Rollback
  <2>2. SUFFICES ASSUME overlaps = 0 PROVE Books'
    BY <2>1, EndAlone
  <2>3. Books
    BY <2>2 DEF SerialOK
  <2>4. /\ invoice \in [Invoices -> InvoiceRow] /\ item \in [Invoices -> ItemRow]
        /\ batch \in [Batches -> BatchRow]
        /\ TxnsOK
    BY DEF IInv, TypeOK
  <2>5. CASE CommitMark(t)
    <3>1. \A i \in Invoices : invoice'[i].batch = invoice[i].batch
      BY <2>4, <2>5 DEF CommitMark, InvoiceRow
    <3> QED
      BY <2>3, <2>5, <3>1 DEF CommitMark, Books, Exists, Members
  <2>6. CASE CommitSettings(t)
    <3>1. \A b \in Batches : batch'[b].status = batch[b].status /\ batch'[b].count = batch[b].count
      BY <2>4, <2>6 DEF CommitSettings, BatchRow
    <3> QED
      BY <2>3, <2>6, <3>1 DEF CommitSettings, Books, Exists, Members
  <2>7. CASE CommitSend(t)
    <3>1. txn[t].bat \in Batches /\ Exists(txn[t].bat)
      BY <2>4, <2>7 DEF CommitSend, TxnsOK, Aimed
    <3>2. \A b \in Batches : /\ batch'[b].count = batch[b].count
                             /\ Exists(b)' => Exists(b)
      BY <2>4, <2>7, <3>1 DEF CommitSend, BatchRow, Exists
    <3>3. \A i \in Invoices : invoice'[i].batch = invoice[i].batch
      BY <2>4, <2>7 DEF CommitSend, InvoiceRow
    <3>4. \A b \in Batches : Members(b)' = Members(b)
      BY <2>7 DEF CommitSend, Members
    <3>5. \A b \in Batches : Exists(b)' => batch'[b].count = Cardinality(Members(b)')
      BY <2>3, <3>2, <3>4 DEF Books
    <3> QED
      BY <2>3, <2>7, <3>3, <3>5 DEF CommitSend, Books
  <2>8. CASE Rollback(t)
    BY <2>3, <2>8 DEF Rollback, Books, Exists, Members
  <2> QED
    BY <1>2, <2>2, <2>5, <2>6, <2>7, <2>8, PutsAlone, RemovesAlone DEF Commit
<1>3. ASSUME NEW b \in Batches, EndJob(b) PROVE SerialOK'
  BY <1>3 DEF EndJob, SerialOK, Alone, Books, Exact, Exists, Members
<1>4. CASE UNCHANGED vars
  BY <1>4 DEF vars, SerialOK, Alone, Books, Exact, Exists, Members
<1> QED
  BY <1>1, <1>2, <1>3, <1>4 DEF Next

\* Until the first overlap, what the only transaction loaded is current.
THEOREM SerialInductive == Spec => []SerialOK
<1>1. IInv /\ SerialOK /\ [Next]_vars => SerialOK'
  BY SerialStep
<1> QED
  BY <1>1, SerialInit, Inductive, PTL DEF Spec

\* Until two transactions overlap, item_count is the number of items of every
\* batch, and invoices and items agree on who is in which batch.
THEOREM SerialBooks == Spec => []SerialBooksBalance
<1>1. SerialOK => SerialBooksBalance
  BY DEF SerialOK, Books, SerialBooksBalance
<1> QED
  BY <1>1, SerialInductive, PTL

\* Until two transactions overlap, a batch is sent with every invoice in it.
THEOREM SentIsWhole == Spec => SentWhole
<1>1. IInv /\ SerialOK /\ [Next]_vars => [Delivers]_vars
  <2> SUFFICES ASSUME IInv, SerialOK, Next, NEW c \in Batches,
                      overlaps' = 0, batch[c].status # "SENT", batch'[c].status = "SENT",
                      NEW i \in Members(c)'
      PROVE  invoice'[i].status = "sent_to_office"
    BY DEF Delivers
  <2>1. batch \in [Batches -> BatchRow] /\ TxnsOK /\ invoice \in [Invoices -> InvoiceRow]
    BY DEF IInv, TypeOK
  <2>2. ASSUME NEW t \in Txns, Begin(t) PROVE FALSE
    BY <2>2 DEF Begin, BeginQualify, BeginReject, BeginSetStatus, BeginUndo, Mark, BeginGenerate,
       BeginAdd, BeginRemove, BeginSettings, BeginSend
  <2>3. ASSUME NEW t \in Txns, CommitGenerate(t) \/ CommitAdd(t) PROVE FALSE
    <3>1. PICK b \in Batches : \E n : batch' = [batch EXCEPT ![b] = Grown(t, b, n)]
      BY <2>3 DEF CommitGenerate, CommitAdd
    <3>2. \A n : Grown(t, b, n).status \in {batch[b].status, "GENERATED"}
      BY <2>1 DEF Grown, BatchRow
    <3> QED
      BY <2>1, <3>1, <3>2
  <2>4. ASSUME NEW t \in Txns, CommitMark(t) \/ CommitSettings(t) \/ Rollback(t) PROVE FALSE
    BY <2>1, <2>4 DEF CommitMark, CommitSettings, Rollback, BatchRow
  <2>5. ASSUME NEW t \in Txns, CommitRemove(t) \/ CommitRemoveLast(t) PROVE FALSE
    BY <2>1, <2>5 DEF CommitRemove, CommitRemoveLast, NoBatchRow, BatchRow
  <2>6. ASSUME NEW b \in Batches, EndJob(b) PROVE FALSE
    BY <2>6 DEF EndJob
  <2>7. ASSUME NEW t \in Txns, CommitSend(t) PROVE invoice'[i].status = "sent_to_office"
    <3>1. txn[t].op = "send" /\ overlaps = 0 /\ item' = item
      BY <2>7 DEF CommitSend, End
    <3>2. c = txn[t].bat
      BY <2>1, <2>7 DEF CommitSend
    <3>3. txn[t].members = {k \in Members(c) : invoice[k].status # "sent_to_office"}
      BY <3>1, <3>2 DEF SerialOK, Exact
    <3>4. i \in Members(c) /\ i \in Invoices
      BY <3>1 DEF Members
    <3>5. invoice' = [k \in Invoices |->
            IF k \in txn[t].members THEN [invoice[k] EXCEPT !.status = "sent_to_office"]
                                    ELSE invoice[k]]
      BY <2>7 DEF CommitSend
    <3> QED
      BY <2>1, <3>3, <3>4, <3>5 DEF InvoiceRow
  <2> QED
    BY <2>2, <2>3, <2>4, <2>5, <2>6, <2>7 DEF Next, Commit
<1> QED
  BY <1>1, Inductive, SerialInductive, PTL DEF Spec, SentWhole

=============================================================================
