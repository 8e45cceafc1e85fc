--------------------------- MODULE PurchaseImport ---------------------------
(***************************************************************************)
(* Importing purchase invoices from KSeF: the buttons of the interface and *)
(* the API, the scheduler's job and a script fetch a list of documents and *)
(* import them one after another on one database session.  Beside them     *)
(* users add and delete parties.                                           *)
(***************************************************************************)
EXTENDS Naturals, FiniteSets

CONSTANTS
  Docs,         \* documents in KSeF; each has its own KSeF number
  Ranges,       \* what the date ranges asked for may contain
  Numbers,      \* invoice numbers
  Sellers,
  NumberOf,     \* the invoice number a document bears
  SellerOf,     \* the seller it names
  Unreadable,   \* documents that the parser refuses
  BadLines,     \* documents with a line that create_invoice refuses
  Parties,      \* ids of party rows, enough of them for every seller
  PartySeller,  \* the seller each of them stands for
  Importers,    \* sessions that import
  JobImporters, \* those of the scheduler, which commit after the loop
  NoDoc, NoParty,
  MaxFetches,   \* bound: imports that are begun
  MaxAdded,     \* bound: parties added by hand that are on file
  MaxDeaths     \* bound: importers that die

ASSUME ImportAssumption ==
  /\ NumberOf \in [Docs -> Numbers]
  /\ Ranges \subseteq SUBSET Docs
  /\ SellerOf \in [Docs -> Sellers]
  /\ PartySeller \in [Parties -> Sellers]
  /\ Unreadable \subseteq Docs
  /\ BadLines \subseteq Docs
  /\ JobImporters \subseteq Importers
  /\ NoDoc \notin Docs
  /\ NoParty \notin Parties
  /\ MaxFetches \in Nat
  /\ MaxAdded \in Nat
  /\ MaxDeaths \in Nat

VARIABLES
  invoice,    \* the committed row of each invoice number
  party,      \* ids of the committed party rows
  importer,   \* the session of each importer
  deleting,   \* the party that a request has found unused and will delete
  fetches,    \* how many imports have begun
  deaths,     \* how many importers have died
  imported,   \* history: documents that a loop has listed as imported
  failed,     \* history: documents that a loop has logged as failed
  orphaned,   \* history: documents that a death interrupted
  handmade,   \* history: parties that a user has added
  crossed     \* history: two of the sessions have been open at once

importVars == <<invoice, party, importer, deleting, fetches, deaths,
                imported, failed, orphaned, handmade, crossed>>

(***************************************************************************)
(* A row, committed or pending.  `lines` says whether its lines, totals    *)
(* and VAT summary were written, `link` is its seller's party.             *)
(***************************************************************************)
Row ==
  [doc: Docs \cup {NoDoc}, status: {"none", "draft", "accepted"},
   lines: BOOLEAN, link: Parties \cup {NoParty}]

NoRow == [doc |-> NoDoc, status |-> "none", lines |-> FALSE, link |-> NoParty]

(***************************************************************************)
(* An importer: the documents still to do, the one in hand, the snapshot   *)
(* its SELECTs read, what it has flushed and not committed, and whether a  *)
(* failed flush has left the session unusable.                             *)
(***************************************************************************)
Importer ==
  [at: {"idle", "looping", "inserting", "linking", "filling", "marking"},
   todo: SUBSET Docs, doc: Docs \cup {NoDoc},
   sawNumbers: SUBSET Numbers, sawParties: SUBSET Parties,
   rows: [Numbers -> Row], parties: SUBSET Parties, dead: BOOLEAN]

Idle ==
  [at |-> "idle", todo |-> {}, doc |-> NoDoc, sawNumbers |-> {}, sawParties |-> {},
   rows |-> [n \in Numbers |-> NoRow], parties |-> {}, dead |-> FALSE]

OnFile == {n \in Numbers : invoice[n].status # "none"}

ImportInit ==
  /\ invoice = [n \in Numbers |-> NoRow]
  /\ party = {}
  /\ importer = [w \in Importers |-> Idle]
  /\ deleting = NoParty
  /\ fetches = 0
  /\ deaths = 0
  /\ imported = {}
  /\ failed = {}
  /\ orphaned = {}
  /\ handmade = {}
  /\ crossed = FALSE

Crosses == crossed' = (crossed \/ deleting # NoParty \/ \E w \in Importers : importer[w].at # "idle")

-----------------------------------------------------------------------------
(***************************************************************************)
(* The loop.                                                               *)
(***************************************************************************)
\* The session has read the user or the job before KSeF is asked, so that its
\* snapshot is older than the list.
BeginFetch(w, docs) ==
  /\ importer[w].at = "idle"
  /\ fetches < MaxFetches
  /\ fetches' = fetches + 1
  /\ importer' = [importer EXCEPT ![w] =
       [Idle EXCEPT !.at = "looping", !.todo = docs, !.sawNumbers = OnFile, !.sawParties = party]]
  /\ Crosses
  /\ UNCHANGED <<invoice, party, deleting, deaths, imported, failed, orphaned, handmade>>

\* An importer turns from a document back to the loop.
Leaves(w, d) == [importer[w] EXCEPT !.at = "looping", !.todo = @ \ {d}, !.doc = NoDoc]

\* Mutant: a document that failed is taken up again.
LogsAndRetries(w, d) ==
  /\ importer' = [importer EXCEPT ![w].at = "looping", ![w].doc = NoDoc]
  /\ failed' = failed \cup {d}
  /\ UNCHANGED <<invoice, party, deleting, fetches, deaths, imported, orphaned, handmade, crossed>>

\* The except block of the loop logs the document; nothing is rolled back.
Logs(w, d) ==
  /\ importer' = [importer EXCEPT ![w] = Leaves(w, d)]
  /\ failed' = failed \cup {d}
  /\ UNCHANGED <<invoice, party, deleting, fetches, deaths, imported, orphaned, handmade, crossed>>

\* A flush that fails rolls back what the session has flushed, and every later
\* statement raises because nobody calls rollback().
Poisons(w, d) ==
  /\ importer' = [importer EXCEPT ![w] =
       [Leaves(w, d) EXCEPT !.rows = Idle.rows, !.parties = {}, !.dead = TRUE]]
  /\ failed' = failed \cup {d}
  /\ UNCHANGED <<invoice, party, deleting, fetches, deaths, imported, orphaned, handmade, crossed>>

InHand(w, d) == importer[w].at = "looping" /\ d \in importer[w].todo

\* The KSeF number or the invoice number is on file in the snapshot; a document
\* that is on file under its KSeF number is so under its invoice number too.
Known(w, d) == NumberOf[d] \in importer[w].sawNumbers \cup {n \in Numbers : importer[w].rows[n].status # "none"}

SkipKnown(w, d) ==
  /\ InHand(w, d)
  /\ ~importer[w].dead
  /\ Known(w, d)
  /\ importer' = [importer EXCEPT ![w] = Leaves(w, d)]
  /\ UNCHANGED <<invoice, party, deleting, fetches, deaths, imported, failed, orphaned, handmade, crossed>>

RaiseAtOnce(w, d) ==
  /\ InHand(w, d)
  /\ importer[w].dead \/ (~Known(w, d) /\ d \in Unreadable)
  /\ Logs(w, d)

StartImport(w, d) ==
  /\ InHand(w, d)
  /\ ~importer[w].dead
  /\ ~Known(w, d)
  /\ d \notin Unreadable
  /\ importer' = [importer EXCEPT ![w].at = "inserting", ![w].doc = d]
  /\ UNCHANGED <<invoice, party, deleting, fetches, deaths, imported, failed, orphaned, handmade, crossed>>

-----------------------------------------------------------------------------
(***************************************************************************)
(* One document: create_invoice up to its commit, then the second commit.  *)
(***************************************************************************)
Num(w) == NumberOf[importer[w].doc]

\* Another session has flushed a row with the same number and not committed.
Taken(w) == \E v \in Importers \ {w} : importer[v].rows[Num(w)].status # "none"

FlushInvoice(w) ==
  /\ importer[w].at = "inserting"
  /\ ~Taken(w)
  /\ invoice[Num(w)].status = "none"
  /\ importer' = [importer EXCEPT ![w].at = "linking",
                    ![w].rows[Num(w)] = [NoRow EXCEPT !.doc = importer[w].doc, !.status = "draft"]]
  /\ UNCHANGED <<invoice, party, deleting, fetches, deaths, imported, failed, orphaned, handmade, crossed>>

\* The unique index, a lock that is not granted in time, or a deadlock.
FlushRaises(w) ==
  /\ \/ importer[w].at = "inserting" /\ (Taken(w) \/ invoice[Num(w)].status # "none")
     \/ importer[w].at = "marking"
  /\ Poisons(w, importer[w].doc)

\* Rows of the seller that the session sees: the snapshot's and its own.
Matches(w) ==
  {p \in importer[w].sawParties \cup importer[w].parties :
     PartySeller[p] = SellerOf[importer[w].doc]}

\* Ids stand for the rows of one seller; which one is new does not matter.
Unused(s) == {p \in Parties : /\ PartySeller[p] = s
                              /\ p \notin party
                              /\ \A w \in Importers : p \notin importer[w].parties}

NextId(s, p) == p \in Unused(s) /\ p = CHOOSE q \in Unused(s) : TRUE

Links(w, p) ==
  importer' = [importer EXCEPT ![w].at = "filling",
                               ![w].parties = IF p \in Matches(w) THEN @ ELSE @ \cup {p},
                               ![w].rows[Num(w)].link = p]

\* Mutant: the seller is not looked up.
LinkNewPartyAlways(w, p) ==
  /\ importer[w].at = "linking"
  /\ NextId(SellerOf[importer[w].doc], p)
  /\ Links(w, p)
  /\ UNCHANGED <<invoice, party, deleting, fetches, deaths, imported, failed, orphaned, handmade, crossed>>

LinkNewParty(w, p) ==
  /\ importer[w].at = "linking"
  /\ Matches(w) = {}
  /\ NextId(SellerOf[importer[w].doc], p)
  /\ Links(w, p)
  /\ UNCHANGED <<invoice, party, deleting, fetches, deaths, imported, failed, orphaned, handmade, crossed>>

LinkParty(w, p) ==
  /\ importer[w].at = "linking"
  /\ Matches(w) = {p}
  /\ p \in party \cup importer[w].parties
  /\ Links(w, p)
  /\ UNCHANGED <<invoice, party, deleting, fetches, deaths, imported, failed, orphaned, handmade, crossed>>

\* The party was deleted since the snapshot: the foreign key refuses the link.
LinkRefused(w, p) ==
  /\ importer[w].at = "linking"
  /\ Matches(w) = {p}
  /\ p \notin party \cup importer[w].parties
  /\ Poisons(w, importer[w].doc)

\* Two rows match: MultipleResultsFound.  The flushed invoice stays pending.
SellerAmbiguous(w) ==
  /\ importer[w].at = "linking"
  /\ Cardinality(Matches(w)) > 1
  /\ Logs(w, importer[w].doc)

LinesRaise(w) ==
  /\ importer[w].at = "filling"
  /\ importer[w].doc \in BadLines
  /\ Logs(w, importer[w].doc)

\* A commit publishes all that the session has flushed, rows that earlier
\* documents of the loop left half-built included.
Published(w) == [n \in Numbers |->
  IF importer[w].rows[n].status # "none" THEN importer[w].rows[n] ELSE invoice[n]]

\* Mutant: the lines are written after the commit.
CommitDraftWithoutLines(w) ==
  /\ importer[w].at = "filling"
  /\ importer[w].doc \notin BadLines
  /\ invoice' = Published(w)
  /\ party' = party \cup importer[w].parties
  /\ importer' = [importer EXCEPT ![w].at = "marking", ![w].rows = Idle.rows, ![w].parties = {}]
  /\ UNCHANGED <<deleting, fetches, deaths, imported, failed, orphaned, handmade, crossed>>

CommitDraft(w) ==
  /\ importer[w].at = "filling"
  /\ importer[w].doc \notin BadLines
  /\ invoice' = [Published(w) EXCEPT ![Num(w)].lines = TRUE]
  /\ party' = party \cup importer[w].parties
  /\ importer' = [importer EXCEPT ![w].at = "marking", ![w].rows = Idle.rows, ![w].parties = {}]
  /\ UNCHANGED <<deleting, fetches, deaths, imported, failed, orphaned, handmade, crossed>>

\* Mutant: the second commit is missing.
MarkAcceptedUncommitted(w) ==
  /\ importer[w].at = "marking"
  /\ imported' = imported \cup {importer[w].doc}
  /\ importer' = [importer EXCEPT ![w] =
       [Leaves(w, importer[w].doc) EXCEPT !.sawNumbers = OnFile, !.sawParties = party]]
  /\ UNCHANGED <<invoice, party, deleting, fetches, deaths, failed, orphaned, handmade, crossed>>

\* Mutant: an early return between the two commits.
MarkAcceptedReturnsEarly(w) ==
  /\ importer[w].at = "marking"
  /\ importer' = [importer EXCEPT ![w] =
       [Leaves(w, importer[w].doc) EXCEPT !.sawNumbers = OnFile, !.sawParties = party]]
  /\ UNCHANGED <<invoice, party, deleting, fetches, deaths, imported, failed, orphaned, handmade, crossed>>

\* The second commit gives the KSeF number and the status; the refresh after it
\* opens the snapshot for the next document.
MarkAccepted(w) ==
  /\ importer[w].at = "marking"
  /\ invoice' = [invoice EXCEPT ![Num(w)].status = "accepted"]
  /\ imported' = imported \cup {importer[w].doc}
  /\ importer' = [importer EXCEPT ![w] =
       [Leaves(w, importer[w].doc) EXCEPT !.sawNumbers = OnFile, !.sawParties = party]]
  /\ UNCHANGED <<party, deleting, fetches, deaths, failed, orphaned, handmade, crossed>>

\* Mutant: the session is handed on as it is.
EndRequestKeepsSession(w) ==
  /\ importer[w].at = "looping"
  /\ importer[w].todo = {}
  /\ w \notin JobImporters
  /\ importer' = [importer EXCEPT ![w].at = "idle"]
  /\ UNCHANGED <<invoice, party, deleting, fetches, deaths, imported, failed, orphaned, handmade, crossed>>

\* The interface, the API and the script close the session: what is pending is lost.
EndRequest(w) ==
  /\ importer[w].at = "looping"
  /\ importer[w].todo = {}
  /\ w \notin JobImporters
  /\ importer' = [importer EXCEPT ![w] = Idle]
  /\ UNCHANGED <<invoice, party, deleting, fetches, deaths, imported, failed, orphaned, handmade, crossed>>

\* The scheduler commits the job's row, and with it whatever is pending.
EndJob(w) ==
  /\ importer[w].at = "looping"
  /\ importer[w].todo = {}
  /\ w \in JobImporters
  /\ invoice' = Published(w)
  /\ party' = party \cup importer[w].parties
  /\ importer' = [importer EXCEPT ![w] = Idle]
  /\ UNCHANGED <<deleting, fetches, deaths, imported, failed, orphaned, handmade, crossed>>

Die(w) ==
  /\ importer[w].at # "idle"
  /\ deaths < MaxDeaths
  /\ deaths' = deaths + 1
  /\ orphaned' = IF importer[w].doc = NoDoc THEN orphaned ELSE orphaned \cup {importer[w].doc}
  /\ importer' = [importer EXCEPT ![w] = Idle]
  /\ UNCHANGED <<invoice, party, deleting, fetches, imported, failed, handmade, crossed>>

-----------------------------------------------------------------------------
(***************************************************************************)
(* Users and parties.                                                      *)
(***************************************************************************)
\* The form does not look for a party with the same name and tax id.
AddParty(p) ==
  /\ NextId(PartySeller[p], p)
  /\ Cardinality(handmade) < MaxAdded
  /\ party' = party \cup {p}
  /\ handmade' = handmade \cup {p}
  /\ UNCHANGED <<invoice, importer, deleting, fetches, deaths, imported, failed, orphaned, crossed>>

\* Mutant: the invoices are not looked at.
BeginDeleteAny(p) ==
  /\ deleting = NoParty
  /\ p \in party
  /\ deleting' = p
  /\ Crosses
  /\ UNCHANGED <<invoice, party, importer, fetches, deaths, imported, failed, orphaned, handmade>>

\* A party that is used in the snapshot is deactivated instead, which changes
\* nothing here: the import does not ask whether a party is active.
BeginDelete(p) ==
  /\ deleting = NoParty
  /\ p \in party
  /\ \A n \in Numbers : invoice[n].link # p
  /\ deleting' = p
  /\ Crosses
  /\ UNCHANGED <<invoice, party, importer, fetches, deaths, imported, failed, orphaned, handmade>>

\* The row is free once nobody has flushed a link to it.  ON DELETE CASCADE
\* takes the links that were committed since.
CommitDelete ==
  /\ deleting # NoParty
  /\ \A w \in Importers, n \in Numbers : importer[w].rows[n].link # deleting
  /\ party' = party \ {deleting}
  /\ handmade' = handmade \ {deleting}
  /\ invoice' = [n \in Numbers |->
       IF invoice[n].link = deleting THEN [invoice[n] EXCEPT !.link = NoParty] ELSE invoice[n]]
  /\ deleting' = NoParty
  /\ UNCHANGED <<importer, fetches, deaths, imported, failed, orphaned, crossed>>

-----------------------------------------------------------------------------
ImportStep(w) ==
  \/ \E d \in Docs : SkipKnown(w, d) \/ RaiseAtOnce(w, d) \/ StartImport(w, d)
  \/ FlushInvoice(w)
  \/ FlushRaises(w)
  \/ \E p \in Parties : LinkNewParty(w, p) \/ LinkParty(w, p) \/ LinkRefused(w, p)
  \/ SellerAmbiguous(w)
  \/ LinesRaise(w)
  \/ CommitDraft(w)
  \/ MarkAccepted(w)
  \/ EndRequest(w)
  \/ EndJob(w)

ImportNext ==
  \/ \E w \in Importers :
       \/ \E docs \in Ranges : BeginFetch(w, docs)
       \/ ImportStep(w)
       \/ Die(w)
  \/ \E p \in Parties : AddParty(p) \/ BeginDelete(p)
  \/ CommitDelete

ImportSpec == ImportInit /\ [][ImportNext]_importVars

\* A session that has begun runs on; one that waits for a row is refused at
\* the latest when the lock times out.
ImportFairness == \A w \in Importers : WF_importVars(ImportStep(w))

ImportFairSpec == ImportSpec /\ ImportFairness

-----------------------------------------------------------------------------
\* Rows, sessions and histories have their types; nothing of a session outlives
\* it, and a document is in hand exactly between its begin and its end.
ImportTypeOK ==
  /\ invoice \in [Numbers -> Row]
  /\ party \subseteq Parties
  /\ importer \in [Importers -> Importer]
  /\ \A w \in Importers : importer[w].at = "idle" => importer[w] = Idle
  /\ \A w \in Importers : importer[w].at \in {"idle", "looping"} <=> importer[w].doc = NoDoc
  /\ deleting \in Parties \cup {NoParty}
  /\ fetches \in 0..MaxFetches
  /\ deaths \in 0..MaxDeaths
  /\ imported \subseteq Docs
  /\ failed \subseteq Docs
  /\ orphaned \subseteq Docs
  /\ handmade \subseteq Parties
  /\ crossed \in BOOLEAN

\* An invoice that counts as received from KSeF has its lines, totals and VAT
\* summary, although commits also publish what failed documents left behind
\* (ksef_import_service.py:64, 103).
AcceptedIsWhole ==
  \A n \in Numbers : invoice[n].status = "accepted" =>
    /\ invoice[n].lines
    /\ invoice[n].doc # NoDoc
    /\ NumberOf[invoice[n].doc] = n

\* A document that a loop reports as imported is on file and stays there, as
\* the row of its number and nobody else's (ksef_import_service.py:103, 162).
ReportedIsOnFile ==
  \A d \in imported :
    /\ invoice[NumberOf[d]].doc = d
    /\ invoice[NumberOf[d]].status = "accepted"

\* A draft that nobody is completing any more is the trace of a death or of a
\* document that was logged as failed: no other path leaves one
\* (ksef_import_service.py:56, 164).
LeftoversHaveACause ==
  \A n \in Numbers : invoice[n].status = "draft" =>
    \/ invoice[n].doc \in failed \cup orphaned
    \/ \E w \in Importers : importer[w].at = "marking" /\ importer[w].doc = invoice[n].doc

\* While the sessions do not overlap, the imports create one party per seller,
\* so that the lookup by tax id and name (invoice_service.py:487) stays unique.
OnePartyPerSeller ==
  ~crossed => \A p, q \in party \ handmade : PartySeller[p] = PartySeller[q] => p = q

\* While the sessions do not overlap, no invoice loses its party
\* (ui/routes.py:1885).
PartyKept ==
  ~crossed => \A n \in Numbers : invoice[n].status = "accepted" => invoice[n].link \in party

\* Every import ends, whoever it has to wait for.
ImportsEnd == \A w \in Importers : importer[w].at # "idle" ~> importer[w].at = "idle"

=============================================================================
