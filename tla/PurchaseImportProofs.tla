------------------------ MODULE PurchaseImportProofs ------------------------
(***************************************************************************)
(* Theorems about PurchaseImport for any documents, parties and sessions.  *)
(***************************************************************************)
EXTENDS PurchaseImport, TLAPS

(***************************************************************************)
(* What a session has flushed and what is on file.                         *)
(***************************************************************************)
\* A flushed row is a draft without lines of a number that is not on file.
\* Its document is in hand or has been logged as failed.
PendingOK ==
  \A w \in Importers, n \in Numbers : importer[w].rows[n].status # "none" =>
    /\ importer[w].rows[n].status = "draft"
    /\ importer[w].rows[n].doc \in Docs
    /\ NumberOf[importer[w].rows[n].doc] = n
    /\ invoice[n].status = "none"
    /\ \/ importer[w].rows[n].doc \in failed
       \/ importer[w].at \in {"linking", "filling"} /\ importer[w].rows[n].doc = importer[w].doc

\* The unique index: no two sessions have flushed the same number.
ApartOK ==
  \A v, w \in Importers, n \in Numbers :
    importer[v].rows[n].status # "none" /\ importer[w].rows[n].status # "none" => v = w

\* Between its flush and its first commit the document in hand is pending;
\* between the commits it is on file, complete, and nobody else's.
InHandOK ==
  \A w \in Importers :
    /\ importer[w].at \in {"linking", "filling"} =>
         /\ importer[w].rows[Num(w)].status = "draft"
         /\ importer[w].rows[Num(w)].doc = importer[w].doc
    /\ importer[w].at = "marking" =>
         /\ \A n \in Numbers : importer[w].rows[n].status = "none"
         /\ invoice[Num(w)].doc = importer[w].doc
         /\ invoice[Num(w)].status = "draft"
         /\ invoice[Num(w)].lines
         /\ \A v \in Importers : importer[v].at = "marking" /\ Num(v) = Num(w) => v = w

\* What is on file bears its document's number, and is whole once accepted.
OnFileOK ==
  \A n \in Numbers :
    /\ invoice[n].status # "none" => invoice[n].doc \in Docs /\ NumberOf[invoice[n].doc] = n
    /\ invoice[n].status = "accepted" => invoice[n].lines

(***************************************************************************)
(* What holds until two sessions overlap.                                  *)
(***************************************************************************)
\* Whoever is at work is alone, and nobody is deleting a party in use.
AloneOK ==
  ~crossed =>
    /\ \A v, w \in Importers : importer[v].at # "idle" /\ importer[w].at # "idle" => v = w
    /\ deleting # NoParty =>
         /\ \A w \in Importers : importer[w].at = "idle"
         /\ \A n \in Numbers : invoice[n].link # deleting

\* The session sees every party that an import has created.
SellersOK ==
  /\ handmade \subseteq party
  /\ \A w \in Importers :
       /\ importer[w].parties \cap party = {}
       /\ \A v \in Importers \ {w} : importer[v].parties \cap importer[w].parties = {}
       /\ importer[w].at = "marking" => importer[w].parties = {}
       /\ importer[w].dead => importer[w].at = "looping"
  /\ ~crossed => \A w \in Importers : importer[w].at # "idle" =>
       /\ importer[w].at # "marking" /\ ~importer[w].dead =>
            party \ handmade \subseteq importer[w].sawParties
       /\ \A p, q \in (party \ handmade) \cup importer[w].parties :
            PartySeller[p] = PartySeller[q] => p = q

\* A link that is on file or pending leads to a party that is there, and a
\* document that has been given its lines has a link.
LinksOK ==
  ~crossed =>
    /\ \A n \in Numbers :
         /\ invoice[n].link \in party \cup {NoParty}
         /\ invoice[n].status = "accepted" => invoice[n].link # NoParty
    /\ \A w \in Importers :
         /\ \A n \in Numbers : importer[w].rows[n].link \in party \cup importer[w].parties \cup {NoParty}
         /\ importer[w].at = "filling" => importer[w].rows[Num(w)].link # NoParty
         /\ importer[w].at = "marking" => invoice[Num(w)].link # NoParty

Core == ImportTypeOK /\ PendingOK /\ ApartOK /\ InHandOK /\ OnFileOK /\ ReportedIsOnFile /\ LeftoversHaveACause

IInv == Core /\ AloneOK /\ SellersOK /\ LinksOK /\ OnePartyPerSeller

-----------------------------------------------------------------------------
(***************************************************************************)
(* Types.                                                                  *)
(***************************************************************************)
\* A session at rest is a session.
LEMMA IdleOK == /\ Idle \in Importer /\ Idle.at = "idle" /\ Idle.doc = NoDoc /\ Idle.parties = {}
                /\ \A n \in Numbers : Idle.rows[n] = NoRow
                /\ Idle.rows \in [Numbers -> Row]
                /\ NoRow \in Row /\ NoRow.status = "none" /\ NoRow.link = NoParty /\ NoRow.doc = NoDoc
                /\ Idle.dead = FALSE
BY DEF Idle, Importer, NoRow, Row

SessionsTyped ==
  /\ importer \in [Importers -> Importer]
  /\ \A w \in Importers : importer[w].at = "idle" => importer[w] = Idle
  /\ \A w \in Importers : importer[w].at \in {"idle", "looping"} <=> importer[w].doc = NoDoc

\* A session step keeps the types if the new session has them and the rest does.
LEMMA SessionTypes ==
  ASSUME NEW w \in Importers, NEW s \in Importer, ImportTypeOK,
         importer' = [importer EXCEPT ![w] = s],
         s.at \in {"idle", "looping"} <=> s.doc = NoDoc,
         s.at = "idle" => s = Idle
  PROVE  /\ SessionsTyped'
         /\ importer'[w] = s
         /\ \A v \in Importers \ {w} : importer'[v] = importer[v]
<1>1. /\ importer' \in [Importers -> Importer]
      /\ importer'[w] = s
      /\ \A v \in Importers \ {w} : importer'[v] = importer[v]
  BY DEF ImportTypeOK
<1> QED
  BY <1>1 DEF ImportTypeOK, SessionsTyped

\* The session that goes back to the loop.
LEMMA LeavesOK ==
  ASSUME NEW w \in Importers, NEW d \in Docs, ImportTypeOK
  PROVE  /\ Leaves(w, d) \in Importer
         /\ Leaves(w, d).at = "looping" /\ Leaves(w, d).doc = NoDoc
         /\ Leaves(w, d).rows = importer[w].rows
         /\ Leaves(w, d).parties = importer[w].parties
         /\ Leaves(w, d).sawParties = importer[w].sawParties
         /\ Leaves(w, d).dead = importer[w].dead
BY DEF Leaves, Importer, ImportTypeOK

-----------------------------------------------------------------------------
(***************************************************************************)
(* What the steps of a session do, action by action.                       *)
(***************************************************************************)
Others(w) == \A v \in Importers \ {w} : importer'[v] = importer[v]

\* The session moves on and nothing that it has flushed changes.
Silent(w) ==
  /\ SessionsTyped'
  /\ Others(w)
  /\ importer'[w].rows = importer[w].rows
  /\ importer'[w].parties = importer[w].parties
  /\ importer'[w].sawParties = importer[w].sawParties
  /\ importer'[w].dead = importer[w].dead
  /\ importer[w].at \in {"looping", "linking", "filling"}
  /\ importer'[w].at \in {"looping", "inserting"}
  /\ importer[w].at \in {"linking", "filling"} => importer[w].doc \in failed'
  /\ importer[w].dead => importer'[w].at = "looping"
  /\ failed \subseteq failed' /\ failed' \subseteq Docs
  /\ UNCHANGED <<invoice, party, deleting, fetches, deaths, imported, orphaned, handmade, crossed>>

\* The session loses what it has flushed; the cause is on record.
Clears(w) ==
  /\ SessionsTyped'
  /\ Others(w)
  /\ \A n \in Numbers : importer'[w].rows[n] = NoRow
  /\ importer'[w].parties = {}
  /\ importer[w].at # "idle"
  /\ \/ importer'[w].at = "looping" /\ importer'[w].dead
     \/ importer'[w] = Idle
  /\ importer[w].at = "marking" => importer[w].doc \in failed' \cup orphaned'
  /\ failed \subseteq failed' /\ failed' \subseteq Docs
  /\ orphaned \subseteq orphaned' /\ orphaned' \subseteq Docs
  /\ deaths' \in 0..MaxDeaths
  /\ UNCHANGED <<invoice, party, deleting, fetches, imported, handmade, crossed>>

LEMMA LogsIsSilent ==
  ASSUME NEW w \in Importers, NEW d \in Docs, ImportTypeOK, Logs(w, d),
         importer[w].at \in {"looping", "linking", "filling"},
         importer[w].at \in {"linking", "filling"} => d = importer[w].doc
  PROVE  Silent(w)
<1>1. importer' = [importer EXCEPT ![w] = Leaves(w, d)]
  BY DEF Logs
<1>2. /\ SessionsTyped' /\ importer'[w] = Leaves(w, d)
      /\ \A v \in Importers \ {w} : importer'[v] = importer[v]
  BY <1>1, LeavesOK, SessionTypes
<1>3. /\ failed' = failed \cup {d} /\ failed \subseteq Docs
      /\ UNCHANGED <<invoice, party, deleting, fetches, deaths, imported, orphaned, handmade, crossed>>
  BY DEF Logs, ImportTypeOK
<1> QED
  BY <1>2, <1>3, LeavesOK DEF Silent, Others

LEMMA SkipIsSilent ==
  ASSUME NEW w \in Importers, NEW d \in Docs, ImportTypeOK, SkipKnown(w, d) \/ StartImport(w, d)
  PROVE  Silent(w)
<1>1. importer[w].at = "looping" /\ ~importer[w].dead /\ importer[w] \in Importer
  BY DEF SkipKnown, StartImport, InHand, ImportTypeOK
<1>2. /\ failed' = failed /\ failed \subseteq Docs
      /\ UNCHANGED <<invoice, party, deleting, fetches, deaths, imported, orphaned, handmade, crossed>>
  BY DEF SkipKnown, StartImport, ImportTypeOK
<1>3. CASE SkipKnown(w, d)
  <2>1. /\ SessionsTyped' /\ importer'[w] = Leaves(w, d)
        /\ \A v \in Importers \ {w} : importer'[v] = importer[v]
    BY <1>3, LeavesOK, SessionTypes DEF SkipKnown
  <2> QED
    BY <1>1, <1>2, <2>1, LeavesOK DEF Silent, Others
<1>4. CASE StartImport(w, d)
  <2> DEFINE s == [importer[w] EXCEPT !.at = "inserting", !.doc = d]
  <2>1. /\ s \in Importer /\ s.at = "inserting" /\ s.doc = d /\ s.rows = importer[w].rows
        /\ s.parties = importer[w].parties /\ s.sawParties = importer[w].sawParties
        /\ s.dead = importer[w].dead
    BY <1>1 DEF Importer
  <2>2. importer' = [importer EXCEPT ![w] = s]
    BY <1>4 DEF StartImport, ImportTypeOK
  <2> HIDE DEF s
  <2>3. /\ SessionsTyped' /\ importer'[w] = s
        /\ \A v \in Importers \ {w} : importer'[v] = importer[v]
    BY <2>1, <2>2, SessionTypes, ImportAssumption
  <2> QED
    BY <1>1, <1>2, <2>1, <2>3 DEF Silent, Others
<1> QED
  BY <1>3, <1>4

\* A flush that fails.
LEMMA PoisonsClears ==
  ASSUME NEW w \in Importers, ImportTypeOK, importer[w].doc \in Docs, Poisons(w, importer[w].doc)
  PROVE  Clears(w)
<1> DEFINE d == importer[w].doc
           s == [Leaves(w, d) EXCEPT !.rows = Idle.rows, !.parties = {}, !.dead = TRUE]
<1>1. /\ s \in Importer /\ s.at = "looping" /\ s.doc = NoDoc /\ s.dead /\ s.parties = {}
      /\ s.rows = Idle.rows
  BY LeavesOK, IdleOK DEF Importer
<1>2. importer' = [importer EXCEPT ![w] = s]
  BY DEF Poisons
<1> HIDE DEF s
<1>3. /\ SessionsTyped' /\ importer'[w] = s
      /\ \A v \in Importers \ {w} : importer'[v] = importer[v]
  BY <1>1, <1>2, SessionTypes
<1>4. importer[w].at # "idle"
  BY ImportAssumption DEF ImportTypeOK
<1>5. /\ failed' = failed \cup {d} /\ failed \subseteq Docs
      /\ orphaned' = orphaned /\ orphaned \subseteq Docs /\ deaths' = deaths /\ deaths \in 0..MaxDeaths
      /\ UNCHANGED <<invoice, party, deleting, fetches, imported, handmade, crossed>>
  BY DEF Poisons, ImportTypeOK
<1> QED
  BY <1>1, <1>3, <1>4, <1>5, IdleOK DEF Clears, Others

\* The end of a request and a death.
LEMMA EndClears ==
  ASSUME NEW w \in Importers, ImportTypeOK, EndRequest(w) \/ Die(w)
  PROVE  Clears(w)
<1>1. /\ SessionsTyped' /\ importer'[w] = Idle
      /\ \A v \in Importers \ {w} : importer'[v] = importer[v]
  BY IdleOK, SessionTypes DEF EndRequest, Die
<1>2. /\ importer[w].at # "idle"
      /\ UNCHANGED <<invoice, party, deleting, fetches, imported, handmade, crossed, failed>>
      /\ failed \subseteq Docs /\ orphaned \subseteq Docs /\ importer[w] \in Importer
  BY DEF EndRequest, Die, ImportTypeOK
<1>3. /\ orphaned' \in {orphaned, orphaned \cup {importer[w].doc}}
      /\ importer[w].doc = NoDoc => orphaned' = orphaned
      /\ importer[w].at = "marking" => importer[w].doc \in orphaned'
  BY DEF EndRequest, Die, ImportTypeOK
<1>4. orphaned' \subseteq Docs
  BY <1>2, <1>3 DEF Importer
<1>5. deaths' \in 0..MaxDeaths
  BY ImportAssumption DEF EndRequest, Die, ImportTypeOK
<1> QED
  BY <1>1, <1>2, <1>3, <1>4, <1>5, IdleOK DEF Clears, Others

\* Another row is pending, that of the document in hand.
Flushes(w) ==
  /\ SessionsTyped'
  /\ Others(w)
  /\ importer[w].at = "inserting" /\ importer'[w].at = "linking"
  /\ importer'[w].doc = importer[w].doc /\ importer[w].doc \in Docs
  /\ importer'[w].parties = importer[w].parties
  /\ importer'[w].sawParties = importer[w].sawParties
  /\ importer'[w].dead = importer[w].dead
  /\ \A n \in Numbers \ {Num(w)} : importer'[w].rows[n] = importer[w].rows[n]
  /\ importer'[w].rows[Num(w)] = [NoRow EXCEPT !.doc = importer[w].doc, !.status = "draft"]
  /\ \A v \in Importers \ {w} : importer[v].rows[Num(w)].status = "none"
  /\ invoice[Num(w)].status = "none"
  /\ UNCHANGED <<invoice, party, deleting, fetches, deaths, imported, failed, orphaned, handmade, crossed>>

LEMMA FlushesSo ==
  ASSUME NEW w \in Importers, ImportTypeOK, FlushInvoice(w)
  PROVE  Flushes(w)
<1>1. importer[w] \in Importer /\ importer[w].at = "inserting" /\ importer[w].doc \in Docs
  BY ImportAssumption DEF FlushInvoice, ImportTypeOK, Importer
<1>2. Num(w) \in Numbers
  BY <1>1, ImportAssumption DEF Num
<1> DEFINE row == [NoRow EXCEPT !.doc = importer[w].doc, !.status = "draft"]
           rows == [importer[w].rows EXCEPT ![Num(w)] = row]
           s == [importer[w] EXCEPT !.at = "linking", !.rows = rows]
<1>3. row \in Row
  BY <1>1, IdleOK DEF Row
<1> HIDE DEF row
<1>4. rows \in [Numbers -> Row] /\ rows[Num(w)] = row /\ \A n \in Numbers \ {Num(w)} : rows[n] = importer[w].rows[n]
  BY <1>1, <1>2, <1>3 DEF Importer
<1> HIDE DEF rows
<1>5. /\ s \in Importer /\ s.at = "linking" /\ s.doc = importer[w].doc /\ s.rows = rows
      /\ s.parties = importer[w].parties /\ s.sawParties = importer[w].sawParties
      /\ s.dead = importer[w].dead
  BY <1>1, <1>4 DEF Importer
<1>6. importer' = [importer EXCEPT ![w] = s]
  BY <1>1 DEF FlushInvoice, rows, row, ImportTypeOK, Importer
<1> HIDE DEF s
<1>7. /\ SessionsTyped' /\ importer'[w] = s
      /\ \A v \in Importers \ {w} : importer'[v] = importer[v]
  BY <1>1, <1>5, <1>6, SessionTypes, ImportAssumption
<1>8. importer'[w].rows[Num(w)] = [NoRow EXCEPT !.doc = importer[w].doc, !.status = "draft"]
  BY <1>4, <1>5, <1>7 DEF row
<1>9. /\ \A v \in Importers \ {w} : importer[v].rows[Num(w)].status = "none"
      /\ invoice[Num(w)].status = "none"
      /\ UNCHANGED <<invoice, party, deleting, fetches, deaths, imported, failed, orphaned, handmade, crossed>>
  BY DEF FlushInvoice, Taken
<1> QED
  BY <1>1, <1>4, <1>5, <1>7, <1>8, <1>9 DEF Flushes, Others

\* The pending row of the document in hand has its party, found or new.
Joins(w, p) ==
  /\ SessionsTyped'
  /\ Others(w)
  /\ importer[w].at = "linking" /\ importer'[w].at = "filling"
  /\ importer'[w].doc = importer[w].doc /\ importer[w].doc \in Docs
  /\ importer'[w].sawParties = importer[w].sawParties
  /\ importer'[w].dead = importer[w].dead
  /\ \A n \in Numbers \ {Num(w)} : importer'[w].rows[n] = importer[w].rows[n]
  /\ importer'[w].rows[Num(w)] = [importer[w].rows[Num(w)] EXCEPT !.link = p]
  /\ importer[w].rows[Num(w)] \in Row
  /\ \/ Matches(w) = {p} /\ importer'[w].parties = importer[w].parties
                         /\ p \in party \cup importer[w].parties
     \/ Matches(w) = {} /\ importer'[w].parties = importer[w].parties \cup {p}
                        /\ p \notin party /\ PartySeller[p] = SellerOf[importer[w].doc]
                        /\ \A v \in Importers : p \notin importer[v].parties
  /\ UNCHANGED <<invoice, party, deleting, fetches, deaths, imported, failed, orphaned, handmade, crossed>>

LEMMA JoinsSo ==
  ASSUME NEW w \in Importers, NEW p \in Parties, ImportTypeOK, LinkNewParty(w, p) \/ LinkParty(w, p)
  PROVE  Joins(w, p)
<1>1. importer[w] \in Importer /\ importer[w].at = "linking" /\ importer[w].doc \in Docs
  BY ImportAssumption DEF LinkNewParty, LinkParty, ImportTypeOK, Importer
<1>2. Num(w) \in Numbers
  BY <1>1, ImportAssumption DEF Num
<1> DEFINE row == [importer[w].rows[Num(w)] EXCEPT !.link = p]
           rows == [importer[w].rows EXCEPT ![Num(w)] = row]
           parties == IF p \in Matches(w) THEN importer[w].parties ELSE importer[w].parties \cup {p}
           s == [importer[w] EXCEPT !.at = "filling", !.parties = parties, !.rows = rows]
<1>3. importer[w].rows[Num(w)] \in Row /\ row \in Row
  BY <1>1, <1>2 DEF Row, Importer
<1> HIDE DEF row
<1>4. rows \in [Numbers -> Row] /\ rows[Num(w)] = row /\ \A n \in Numbers \ {Num(w)} : rows[n] = importer[w].rows[n]
  BY <1>1, <1>2, <1>3 DEF Importer
<1>5. parties \in SUBSET Parties
  BY <1>1 DEF Importer
<1>6. importer' = [importer EXCEPT ![w] = s]
  BY <1>1 DEF LinkNewParty, LinkParty, Links, row, ImportTypeOK, Importer
<1> HIDE DEF rows, parties
<1>7. /\ s \in Importer /\ s.at = "filling" /\ s.doc = importer[w].doc /\ s.rows = rows
      /\ s.parties = parties /\ s.sawParties = importer[w].sawParties
      /\ s.dead = importer[w].dead
  BY <1>1, <1>4, <1>5 DEF Importer
<1> HIDE DEF s
<1>8. /\ SessionsTyped' /\ importer'[w] = s
      /\ \A v \in Importers \ {w} : importer'[v] = importer[v]
  BY <1>1, <1>6, <1>7, SessionTypes, ImportAssumption
<1>9. importer'[w].rows[Num(w)] = [importer[w].rows[Num(w)] EXCEPT !.link = p]
  BY <1>4, <1>7, <1>8 DEF row
<1>10. \/ Matches(w) = {p} /\ parties = importer[w].parties
                          /\ p \in party \cup importer[w].parties
       \/ Matches(w) = {} /\ parties = importer[w].parties \cup {p}
                         /\ p \notin party /\ PartySeller[p] = SellerOf[importer[w].doc]
                         /\ \A v \in Importers : p \notin importer[v].parties
  BY DEF LinkNewParty, LinkParty, NextId, Unused, parties
<1>11. UNCHANGED <<invoice, party, deleting, fetches, deaths, imported, failed, orphaned, handmade, crossed>>
  BY DEF LinkNewParty, LinkParty
<1> QED
  BY <1>1, <1>3, <1>4, <1>7, <1>8, <1>9, <1>10, <1>11 DEF Joins, Others

\* What a session has flushed replaces what is on file.
LEMMA PublishedRows ==
  ASSUME NEW w \in Importers, ImportTypeOK
  PROVE  /\ Published(w) \in [Numbers -> Row]
         /\ \A n \in Numbers :
              /\ importer[w].rows[n].status # "none" => Published(w)[n] = importer[w].rows[n]
              /\ importer[w].rows[n].status = "none" => Published(w)[n] = invoice[n]
BY DEF Published, ImportTypeOK, Importer

\* The first commit.
Drafts(w) ==
  /\ SessionsTyped'
  /\ Others(w)
  /\ importer[w].at = "filling" /\ importer'[w].at = "marking"
  /\ importer'[w].doc = importer[w].doc /\ importer[w].doc \in Docs
  /\ importer'[w].dead = importer[w].dead
  /\ importer'[w].parties = {} /\ party' = party \cup importer[w].parties
  /\ \A n \in Numbers : importer'[w].rows[n] = NoRow
  /\ invoice' \in [Numbers -> Row]
  /\ \A n \in Numbers \ {Num(w)} :
       invoice'[n] = IF importer[w].rows[n].status # "none" THEN importer[w].rows[n] ELSE invoice[n]
  /\ importer[w].rows[Num(w)].status # "none" =>
       /\ invoice'[Num(w)].doc = importer[w].rows[Num(w)].doc
       /\ invoice'[Num(w)].status = importer[w].rows[Num(w)].status
       /\ invoice'[Num(w)].link = importer[w].rows[Num(w)].link
       /\ invoice'[Num(w)].lines
  /\ UNCHANGED <<deleting, fetches, deaths, imported, failed, orphaned, handmade, crossed>>

LEMMA DraftsSo ==
  ASSUME NEW w \in Importers, ImportTypeOK, CommitDraft(w)
  PROVE  Drafts(w)
<1>1. importer[w] \in Importer /\ importer[w].at = "filling" /\ importer[w].doc \in Docs
  BY ImportAssumption DEF CommitDraft, ImportTypeOK, Importer
<1>2. Num(w) \in Numbers
  BY <1>1, ImportAssumption DEF Num
<1> DEFINE s == [importer[w] EXCEPT !.at = "marking", !.rows = Idle.rows, !.parties = {}]
<1>3. /\ s \in Importer /\ s.at = "marking" /\ s.doc = importer[w].doc /\ s.rows = Idle.rows
      /\ s.parties = {} /\ s.dead = importer[w].dead
  BY <1>1, IdleOK DEF Importer
<1>4. importer' = [importer EXCEPT ![w] = s]
  BY <1>1 DEF CommitDraft, ImportTypeOK
<1> HIDE DEF s
<1>5. /\ SessionsTyped' /\ importer'[w] = s
      /\ \A v \in Importers \ {w} : importer'[v] = importer[v]
  BY <1>1, <1>3, <1>4, SessionTypes, ImportAssumption
<1> DEFINE pub == Published(w)
<1>6. pub \in [Numbers -> Row] /\ pub[Num(w)] \in Row
  BY <1>2, PublishedRows
<1>7. invoice' = [pub EXCEPT ![Num(w)].lines = TRUE]
  BY DEF CommitDraft
<1> HIDE DEF pub
<1> DEFINE row == [pub[Num(w)] EXCEPT !.lines = TRUE]
<1>8. row \in Row /\ row.lines /\ row.doc = pub[Num(w)].doc /\ row.status = pub[Num(w)].status
      /\ row.link = pub[Num(w)].link
  BY <1>6 DEF Row
<1>9. invoice' = [pub EXCEPT ![Num(w)] = row]
  BY <1>7
<1> HIDE DEF row
<1>10. /\ invoice' \in [Numbers -> Row]
       /\ \A n \in Numbers \ {Num(w)} : invoice'[n] = pub[n]
       /\ invoice'[Num(w)] = row
  BY <1>2, <1>6, <1>8, <1>9
<1>11. \A n \in Numbers :
         pub[n] = IF importer[w].rows[n].status # "none" THEN importer[w].rows[n] ELSE invoice[n]
  BY PublishedRows DEF pub
<1>12. /\ party' = party \cup importer[w].parties
       /\ UNCHANGED <<deleting, fetches, deaths, imported, failed, orphaned, handmade, crossed>>
  BY DEF CommitDraft
<1> QED
  BY <1>1, <1>2, <1>3, <1>5, <1>8, <1>10, <1>11, <1>12, IdleOK DEF Drafts, Others

\* The second commit.
Marks(w) ==
  /\ SessionsTyped'
  /\ Others(w)
  /\ importer[w].at = "marking" /\ importer'[w].at = "looping"
  /\ importer[w].doc \in Docs
  /\ importer'[w].dead = importer[w].dead
  /\ importer'[w].parties = importer[w].parties
  /\ importer'[w].sawParties = party
  /\ importer'[w].rows = importer[w].rows
  /\ invoice' \in [Numbers -> Row]
  /\ \A n \in Numbers \ {Num(w)} : invoice'[n] = invoice[n]
  /\ invoice'[Num(w)].status = "accepted"
  /\ invoice'[Num(w)].doc = invoice[Num(w)].doc
  /\ invoice'[Num(w)].lines = invoice[Num(w)].lines
  /\ invoice'[Num(w)].link = invoice[Num(w)].link
  /\ imported' = imported \cup {importer[w].doc}
  /\ UNCHANGED <<party, deleting, fetches, deaths, failed, orphaned, handmade, crossed>>

LEMMA MarksSo ==
  ASSUME NEW w \in Importers, ImportTypeOK, MarkAccepted(w)
  PROVE  Marks(w)
<1>1. importer[w] \in Importer /\ importer[w].at = "marking" /\ importer[w].doc \in Docs
  BY ImportAssumption DEF MarkAccepted, ImportTypeOK, Importer
<1>2. Num(w) \in Numbers /\ invoice \in [Numbers -> Row]
  BY <1>1, ImportAssumption DEF Num, ImportTypeOK
<1> DEFINE s == [Leaves(w, importer[w].doc) EXCEPT !.sawNumbers = OnFile, !.sawParties = party]
<1>3. /\ s \in Importer /\ s.at = "looping" /\ s.doc = NoDoc /\ s.rows = importer[w].rows
      /\ s.parties = importer[w].parties /\ s.sawParties = party /\ s.dead = importer[w].dead
  BY <1>1, LeavesOK DEF Importer, OnFile, ImportTypeOK
<1>4. importer' = [importer EXCEPT ![w] = s]
  BY DEF MarkAccepted
<1> HIDE DEF s
<1>5. /\ SessionsTyped' /\ importer'[w] = s
      /\ \A v \in Importers \ {w} : importer'[v] = importer[v]
  BY <1>3, <1>4, SessionTypes
<1> DEFINE row == [invoice[Num(w)] EXCEPT !.status = "accepted"]
<1>6. /\ row \in Row /\ row.status = "accepted" /\ row.doc = invoice[Num(w)].doc
      /\ row.lines = invoice[Num(w)].lines /\ row.link = invoice[Num(w)].link
  BY <1>2 DEF Row
<1>7. invoice' = [invoice EXCEPT ![Num(w)] = row]
  BY <1>2 DEF MarkAccepted
<1> HIDE DEF row
<1>8. /\ invoice' \in [Numbers -> Row]
      /\ \A n \in Numbers \ {Num(w)} : invoice'[n] = invoice[n]
      /\ invoice'[Num(w)] = row
  BY <1>2, <1>6, <1>7
<1>9. /\ imported' = imported \cup {importer[w].doc}
      /\ UNCHANGED <<party, deleting, fetches, deaths, failed, orphaned, handmade, crossed>>
  BY DEF MarkAccepted
<1> QED
  BY <1>1, <1>3, <1>5, <1>6, <1>8, <1>9 DEF Marks, Others

\* The end of the scheduler's job.
Ends(w) ==
  /\ SessionsTyped'
  /\ Others(w)
  /\ importer[w].at = "looping" /\ importer'[w] = Idle
  /\ party' = party \cup importer[w].parties
  /\ invoice' \in [Numbers -> Row]
  /\ \A n \in Numbers :
       invoice'[n] = IF importer[w].rows[n].status # "none" THEN importer[w].rows[n] ELSE invoice[n]
  /\ UNCHANGED <<deleting, fetches, deaths, imported, failed, orphaned, handmade, crossed>>

LEMMA EndsSo ==
  ASSUME NEW w \in Importers, ImportTypeOK, EndJob(w)
  PROVE  Ends(w)
<1>1. /\ SessionsTyped' /\ importer'[w] = Idle
      /\ \A v \in Importers \ {w} : importer'[v] = importer[v]
  BY IdleOK, SessionTypes DEF EndJob
<1>2. invoice' = Published(w)
  BY DEF EndJob
<1>3. /\ importer[w].at = "looping" /\ party' = party \cup importer[w].parties
      /\ UNCHANGED <<deleting, fetches, deaths, imported, failed, orphaned, handmade, crossed>>
  BY DEF EndJob
<1> QED
  BY <1>1, <1>2, <1>3, PublishedRows DEF Ends, Others

\* A session begins.
Starts(w) ==
  /\ SessionsTyped'
  /\ Others(w)
  /\ importer[w] = Idle /\ importer'[w].at = "looping"
  /\ importer'[w].rows = Idle.rows /\ importer'[w].parties = {} /\ importer'[w].sawParties = party
  /\ ~importer'[w].dead
  /\ fetches' \in 0..MaxFetches
  /\ crossed' \in BOOLEAN
  /\ ~crossed' => ~crossed /\ deleting = NoParty /\ \A v \in Importers : importer[v].at = "idle"
  /\ UNCHANGED <<invoice, party, deleting, deaths, imported, failed, orphaned, handmade>>

LEMMA StartsSo ==
  ASSUME NEW w \in Importers, NEW docs \in Ranges, ImportTypeOK, BeginFetch(w, docs)
  PROVE  Starts(w)
<1> DEFINE s == [Idle EXCEPT !.at = "looping", !.todo = docs, !.sawNumbers = OnFile, !.sawParties = party]
<1>1. /\ s \in Importer /\ s.at = "looping" /\ s.doc = NoDoc /\ s.rows = Idle.rows /\ s.parties = {}
      /\ s.sawParties = party /\ ~s.dead
  BY IdleOK, ImportAssumption DEF Importer, OnFile, ImportTypeOK
<1>2. importer' = [importer EXCEPT ![w] = s]
  BY DEF BeginFetch
<1> HIDE DEF s
<1>3. /\ SessionsTyped' /\ importer'[w] = s
      /\ \A v \in Importers \ {w} : importer'[v] = importer[v]
  BY <1>1, <1>2, SessionTypes
<1>4. /\ importer[w] = Idle
      /\ UNCHANGED <<invoice, party, deleting, deaths, imported, failed, orphaned, handmade>>
  BY DEF BeginFetch, ImportTypeOK
<1>5. /\ crossed' \in BOOLEAN
      /\ ~crossed' => ~crossed /\ deleting = NoParty /\ \A v \in Importers : importer[v].at = "idle"
  BY Zenon DEF BeginFetch, Crosses
<1>6. fetches' \in 0..MaxFetches
  BY ImportAssumption DEF BeginFetch, ImportTypeOK
<1> QED
  BY <1>1, <1>3, <1>4, <1>5, <1>6 DEF Starts, Others

-----------------------------------------------------------------------------
(***************************************************************************)
(* What is flushed and what is on file, step by step.                      *)
(***************************************************************************)
\* A document in hand has a number.
HasNumber(v) ==
  importer[v].at \notin {"idle", "looping"} => importer[v].doc \in Docs /\ Num(v) \in Numbers

\* A step that only moves a session on.
LEMMA SilentKeeps ==
  ASSUME NEW w \in Importers, Core, Silent(w)
  PROVE  Core'
<1> USE DEF Core
<1>1. ImportTypeOK'
  BY ImportAssumption, IdleOK DEF Silent, Others, ImportTypeOK, SessionsTyped
<1>2. /\ \A v \in Importers : HasNumber(v)
      /\ \A v \in Importers : HasNumber(v)'
  BY <1>1, ImportAssumption DEF HasNumber, ImportTypeOK, Importer, Num
<1>3. PendingOK'
  BY <1>2, ImportAssumption, IdleOK DEF Silent, Others, PendingOK, PendingOK, ApartOK, InHandOK, HasNumber, Num
<1>4. ApartOK'
  BY <1>2, ImportAssumption, IdleOK DEF Silent, Others, ApartOK, PendingOK, ApartOK, InHandOK, HasNumber, Num
<1>5. InHandOK'
  BY <1>2, ImportAssumption, IdleOK DEF Silent, Others, InHandOK, PendingOK, ApartOK, InHandOK, HasNumber, Num
<1>6. OnFileOK'
  BY <1>2, ImportAssumption, IdleOK DEF Silent, Others, OnFileOK, PendingOK, ApartOK, InHandOK, HasNumber, Num
<1>7. ReportedIsOnFile'
  BY <1>2, ImportAssumption, IdleOK DEF Silent, Others, ReportedIsOnFile, PendingOK, ApartOK, InHandOK, HasNumber, Num
<1>8. LeftoversHaveACause'
  BY <1>2, ImportAssumption, IdleOK DEF Silent, Others, LeftoversHaveACause, PendingOK, ApartOK, InHandOK, HasNumber, Num
<1> QED
  BY <1>1, <1>3, <1>4, <1>5, <1>6, <1>7, <1>8

\* A session that loses what it has flushed.
LEMMA ClearsKeeps ==
  ASSUME NEW w \in Importers, Core, Clears(w)
  PROVE  Core'
<1> USE DEF Core
<1>1. ImportTypeOK'
  BY ImportAssumption, IdleOK DEF Clears, Others, ImportTypeOK, SessionsTyped
<1>2. /\ \A v \in Importers : HasNumber(v)
      /\ \A v \in Importers : HasNumber(v)'
  BY <1>1, ImportAssumption DEF HasNumber, ImportTypeOK, Importer, Num
<1>3. PendingOK'
  BY <1>2, ImportAssumption, IdleOK DEF Clears, Others, PendingOK, PendingOK, ApartOK, InHandOK, HasNumber, Num
<1>4. ApartOK'
  BY <1>2, ImportAssumption, IdleOK DEF Clears, Others, ApartOK, PendingOK, ApartOK, InHandOK, HasNumber, Num
<1>5. InHandOK'
  BY <1>2, ImportAssumption, IdleOK DEF Clears, Others, InHandOK, PendingOK, ApartOK, InHandOK, HasNumber, Num
<1>6. OnFileOK'
  BY <1>2, ImportAssumption, IdleOK DEF Clears, Others, OnFileOK, PendingOK, ApartOK, InHandOK, HasNumber, Num
<1>7. ReportedIsOnFile'
  BY <1>2, ImportAssumption, IdleOK DEF Clears, Others, ReportedIsOnFile, PendingOK, ApartOK, InHandOK, HasNumber, Num
<1>8. LeftoversHaveACause'
  BY <1>2, ImportAssumption, IdleOK DEF Clears, Others, LeftoversHaveACause, PendingOK, ApartOK, InHandOK, HasNumber, Num
<1> QED
  BY <1>1, <1>3, <1>4, <1>5, <1>6, <1>7, <1>8

\* A new pending row has a number nobody else has.
LEMMA FlushesKeeps ==
  ASSUME NEW w \in Importers, Core, Flushes(w)
  PROVE  Core'
<1> USE DEF Core
<1>1. ImportTypeOK'
  BY ImportAssumption, IdleOK DEF Flushes, Others, ImportTypeOK, SessionsTyped
<1>2. /\ \A v \in Importers : HasNumber(v)
      /\ \A v \in Importers : HasNumber(v)'
  BY <1>1, ImportAssumption DEF HasNumber, ImportTypeOK, Importer, Num
<1>3. PendingOK'
  <2>1. /\ importer'[w].rows[Num(w)].status = "draft"
        /\ importer'[w].rows[Num(w)].doc = importer[w].doc
    BY IdleOK DEF Flushes, Row
  <2>2. Num(w) \in Numbers /\ NumberOf[importer[w].doc] = Num(w)
    BY <1>2 DEF Flushes, HasNumber, Num
  <2> SUFFICES ASSUME NEW v \in Importers, NEW n \in Numbers, importer'[v].rows[n].status # "none"
               PROVE  /\ importer'[v].rows[n].status = "draft"
                      /\ importer'[v].rows[n].doc \in Docs
                      /\ NumberOf[importer'[v].rows[n].doc] = n
                      /\ invoice'[n].status = "none"
                      /\ \/ importer'[v].rows[n].doc \in failed'
                         \/ importer'[v].at \in {"linking", "filling"} /\ importer'[v].rows[n].doc = importer'[v].doc
    BY DEF PendingOK
  <2>3. CASE v # w
    BY <2>3 DEF Flushes, Others, PendingOK
  <2>4. CASE v = w /\ n # Num(w)
    <3>1. importer'[w].rows[n] = importer[w].rows[n]
      BY <2>4 DEF Flushes
    <3> QED
      BY <2>4, <3>1 DEF Flushes, PendingOK
  <2>5. CASE v = w /\ n = Num(w)
    BY <2>1, <2>2, <2>5 DEF Flushes, PendingOK, InHandOK
  <2> QED
    BY <2>3, <2>4, <2>5
<1>4. ApartOK'
  BY <1>2, ImportAssumption, IdleOK DEF Flushes, Others, ApartOK, PendingOK, ApartOK, InHandOK, HasNumber, Num
<1>5. InHandOK'
  <2>1. /\ importer'[w].rows[Num(w)].status = "draft"
        /\ importer'[w].rows[Num(w)].doc = importer[w].doc
    BY IdleOK DEF Flushes, Row
  <2>2. importer'[w].at \in {"linking", "filling"} /\ Num(w)' = Num(w)
    BY DEF Flushes, Num
  <2>3. /\ importer'[w].rows[Num(w)'].status = "draft"
        /\ importer'[w].rows[Num(w)'].doc = importer'[w].doc
    BY <2>1, <2>2 DEF Flushes, InHandOK
  <2>4. \A v \in Importers \ {w} : importer'[v] = importer[v] /\ Num(v)' = Num(v)
    BY DEF Flushes, Others, Num
  <2>5. UNCHANGED invoice
    BY DEF Flushes
  <2> QED
    BY <1>2, <2>2, <2>3, <2>4, <2>5 DEF InHandOK
<1>6. OnFileOK'
  BY <1>2, ImportAssumption, IdleOK DEF Flushes, Others, OnFileOK, PendingOK, ApartOK, InHandOK, HasNumber, Num
<1>7. ReportedIsOnFile'
  BY <1>2, ImportAssumption, IdleOK DEF Flushes, Others, ReportedIsOnFile, PendingOK, ApartOK, InHandOK, HasNumber, Num
<1>8. LeftoversHaveACause'
  BY <1>2, ImportAssumption, IdleOK DEF Flushes, Others, LeftoversHaveACause, PendingOK, ApartOK, InHandOK, HasNumber, Num
<1> QED
  BY <1>1, <1>3, <1>4, <1>5, <1>6, <1>7, <1>8

\* The link changes neither document nor status.
LEMMA JoinsKeeps ==
  ASSUME NEW w \in Importers, NEW p \in Parties, Core, Joins(w, p)
  PROVE  Core'
<1> USE DEF Core
<1>1. ImportTypeOK'
  BY ImportAssumption, IdleOK DEF Joins, Others, ImportTypeOK, SessionsTyped
<1>2. /\ \A v \in Importers : HasNumber(v)
      /\ \A v \in Importers : HasNumber(v)'
  BY <1>1, ImportAssumption DEF HasNumber, ImportTypeOK, Importer, Num
<1>3. PendingOK'
  <2>1. /\ importer'[w].rows[Num(w)].status = importer[w].rows[Num(w)].status
        /\ importer'[w].rows[Num(w)].doc = importer[w].rows[Num(w)].doc
    BY DEF Joins, Row
  <2>2. Num(w) \in Numbers /\ NumberOf[importer[w].doc] = Num(w)
    BY <1>2 DEF Joins, HasNumber, Num
  <2> SUFFICES ASSUME NEW v \in Importers, NEW n \in Numbers, importer'[v].rows[n].status # "none"
               PROVE  /\ importer'[v].rows[n].status = "draft"
                      /\ importer'[v].rows[n].doc \in Docs
                      /\ NumberOf[importer'[v].rows[n].doc] = n
                      /\ invoice'[n].status = "none"
                      /\ \/ importer'[v].rows[n].doc \in failed'
                         \/ importer'[v].at \in {"linking", "filling"} /\ importer'[v].rows[n].doc = importer'[v].doc
    BY DEF PendingOK
  <2>3. CASE v # w
    BY <2>3 DEF Joins, Others, PendingOK
  <2>4. CASE v = w /\ n # Num(w)
    <3>1. importer'[w].rows[n] = importer[w].rows[n]
      BY <2>4 DEF Joins
    <3> QED
      BY <2>4, <3>1 DEF Joins, PendingOK
  <2>5. CASE v = w /\ n = Num(w)
    <3>1. /\ importer[w].at = "linking" /\ importer'[w].at = "filling" /\ importer'[w].doc = importer[w].doc
          /\ UNCHANGED <<invoice, failed>>
      BY DEF Joins
    <3>2. importer[w].rows[Num(w)].status = "draft" /\ importer[w].rows[Num(w)].doc = importer[w].doc
      BY <3>1 DEF InHandOK
    <3>3. invoice[Num(w)].status = "none" /\ importer[w].doc \in Docs
      BY <2>2, <3>2 DEF PendingOK
    <3> QED
      BY <2>1, <2>2, <2>5, <3>1, <3>2, <3>3
  <2> QED
    BY <2>3, <2>4, <2>5
<1>4. ApartOK'
  BY <1>2, ImportAssumption, IdleOK DEF Joins, Others, ApartOK, PendingOK, ApartOK, InHandOK, HasNumber, Num
<1>5. InHandOK'
  <2>1. /\ importer'[w].rows[Num(w)].status = importer[w].rows[Num(w)].status
        /\ importer'[w].rows[Num(w)].doc = importer[w].rows[Num(w)].doc
    BY DEF Joins, Row
  <2>2. importer'[w].at \in {"linking", "filling"} /\ Num(w)' = Num(w)
    BY DEF Joins, Num
  <2>3. /\ importer'[w].rows[Num(w)'].status = "draft"
        /\ importer'[w].rows[Num(w)'].doc = importer'[w].doc
    <3>1. importer[w].at = "linking" /\ importer'[w].doc = importer[w].doc
      BY DEF Joins
    <3>2. importer[w].rows[Num(w)].status = "draft" /\ importer[w].rows[Num(w)].doc = importer[w].doc
      BY <3>1 DEF InHandOK
    <3> QED
      BY <2>1, <2>2, <3>1, <3>2
  <2>4. \A v \in Importers \ {w} : importer'[v] = importer[v] /\ Num(v)' = Num(v)
    BY DEF Joins, Others, Num
  <2>5. UNCHANGED invoice
    BY DEF Joins
  <2> QED
    BY <1>2, <2>2, <2>3, <2>4, <2>5 DEF InHandOK
<1>6. OnFileOK'
  BY <1>2, ImportAssumption, IdleOK DEF Joins, Others, OnFileOK, PendingOK, ApartOK, InHandOK, HasNumber, Num
<1>7. ReportedIsOnFile'
  BY <1>2, ImportAssumption, IdleOK DEF Joins, Others, ReportedIsOnFile, PendingOK, ApartOK, InHandOK, HasNumber, Num
<1>8. LeftoversHaveACause'
  BY <1>2, ImportAssumption, IdleOK DEF Joins, Others, LeftoversHaveACause, PendingOK, ApartOK, InHandOK, HasNumber, Num
<1> QED
  BY <1>1, <1>3, <1>4, <1>5, <1>6, <1>7, <1>8

\* The first commit takes pending rows to numbers that are not on file.
LEMMA DraftsKeeps ==
  ASSUME NEW w \in Importers, Core, Drafts(w)
  PROVE  Core'
<1> USE DEF Core
<1>1. ImportTypeOK'
  <2>1. importer[w].parties \subseteq Parties
    BY DEF ImportTypeOK, Importer
  <2> QED
    BY <2>1, ImportAssumption DEF Drafts, Others, ImportTypeOK, SessionsTyped
<1>2. /\ \A v \in Importers : HasNumber(v)
      /\ \A v \in Importers : HasNumber(v)'
  BY <1>1, ImportAssumption DEF HasNumber, ImportTypeOK, Importer, Num
<1>3. PendingOK'
  BY <1>2, ImportAssumption, IdleOK DEF Drafts, Others, PendingOK, PendingOK, ApartOK, InHandOK, HasNumber, Num
<1>4. ApartOK'
  BY <1>2, ImportAssumption, IdleOK DEF Drafts, Others, ApartOK, PendingOK, ApartOK, InHandOK, HasNumber, Num
<1>5. InHandOK'
  BY <1>2, ImportAssumption, IdleOK DEF Drafts, Others, InHandOK, PendingOK, ApartOK, InHandOK, HasNumber, Num
<1>6. OnFileOK'
  BY <1>2, ImportAssumption, IdleOK DEF Drafts, Others, OnFileOK, PendingOK, ApartOK, InHandOK, HasNumber, Num
<1>7. ReportedIsOnFile'
  <2>1. \A n \in Numbers : invoice[n].status # "none" => invoice'[n] = invoice[n]
    BY <1>2 DEF Drafts, PendingOK, InHandOK, HasNumber
  <2>2. imported' = imported /\ \A d \in imported : NumberOf[d] \in Numbers
    BY ImportAssumption DEF Drafts, ImportTypeOK
  <2> QED
    BY <2>1, <2>2 DEF ReportedIsOnFile
<1>8. LeftoversHaveACause'
  BY <1>2, ImportAssumption, IdleOK DEF Drafts, Others, LeftoversHaveACause, PendingOK, ApartOK, InHandOK, HasNumber, Num
<1> QED
  BY <1>1, <1>3, <1>4, <1>5, <1>6, <1>7, <1>8

\* The second commit accepts a row that is complete.
LEMMA MarksKeeps ==
  ASSUME NEW w \in Importers, Core, Marks(w)
  PROVE  Core'
<1> USE DEF Core
<1>1. ImportTypeOK'
  BY ImportAssumption, IdleOK DEF Marks, Others, ImportTypeOK, SessionsTyped
<1>2. /\ \A v \in Importers : HasNumber(v)
      /\ \A v \in Importers : HasNumber(v)'
  BY <1>1, ImportAssumption DEF HasNumber, ImportTypeOK, Importer, Num
<1>3. PendingOK'
  BY <1>2, ImportAssumption, IdleOK DEF Marks, Others, PendingOK, PendingOK, ApartOK, InHandOK, HasNumber, Num
<1>4. ApartOK'
  BY <1>2, ImportAssumption, IdleOK DEF Marks, Others, ApartOK, PendingOK, ApartOK, InHandOK, HasNumber, Num
<1>5. InHandOK'
  BY <1>2, ImportAssumption, IdleOK DEF Marks, Others, InHandOK, PendingOK, ApartOK, InHandOK, HasNumber, Num
<1>6. OnFileOK'
  BY <1>2, ImportAssumption, IdleOK DEF Marks, Others, OnFileOK, PendingOK, ApartOK, InHandOK, HasNumber, Num
<1>7. ReportedIsOnFile'
  <2>1. \A d \in imported : NumberOf[d] \in Numbers /\ NumberOf[d] # Num(w)
    BY ImportAssumption DEF Marks, ImportTypeOK, ReportedIsOnFile, InHandOK
  <2>2. invoice'[Num(w)].doc = importer[w].doc /\ invoice'[Num(w)].status = "accepted"
    BY DEF Marks, InHandOK
  <2>3. NumberOf[importer[w].doc] = Num(w) /\ imported' = imported \cup {importer[w].doc}
    BY DEF Marks, Num
  <2> QED
    BY <2>1, <2>2, <2>3 DEF Marks, ReportedIsOnFile
<1>8. LeftoversHaveACause'
  <2> SUFFICES ASSUME NEW n \in Numbers, invoice'[n].status = "draft"
               PROVE  \/ invoice'[n].doc \in failed \cup orphaned
                      \/ \E v \in Importers : importer'[v].at = "marking" /\ importer'[v].doc = invoice'[n].doc
    BY DEF Marks, LeftoversHaveACause
  <2>1. n # Num(w) /\ invoice'[n] = invoice[n]
    BY DEF Marks
  <2>2. CASE invoice[n].doc \in failed \cup orphaned
    BY <2>1, <2>2
  <2>3. ASSUME NEW v \in Importers, importer[v].at = "marking", importer[v].doc = invoice[n].doc
        PROVE  importer'[v].at = "marking" /\ importer'[v].doc = invoice'[n].doc
    <3>1. NumberOf[invoice[n].doc] = n
      BY <2>1 DEF OnFileOK
    <3>2. v # w
      BY <2>1, <2>3, <3>1 DEF Num
    <3> QED
      BY <2>1, <2>3, <3>2 DEF Marks, Others
  <2> QED
    BY <2>1, <2>2, <2>3 DEF LeftoversHaveACause
<1> QED
  BY <1>1, <1>3, <1>4, <1>5, <1>6, <1>7, <1>8

\* What the job's commit publishes has failed.
LEMMA EndsKeeps ==
  ASSUME NEW w \in Importers, Core, Ends(w)
  PROVE  Core'
<1> USE DEF Core
<1>1. ImportTypeOK'
  <2>1. importer[w].parties \subseteq Parties
    BY DEF ImportTypeOK, Importer
  <2> QED
    BY <2>1, ImportAssumption DEF Ends, Others, ImportTypeOK, SessionsTyped
<1>2. /\ \A v \in Importers : HasNumber(v)
      /\ \A v \in Importers : HasNumber(v)'
  BY <1>1, ImportAssumption DEF HasNumber, ImportTypeOK, Importer, Num
<1>3. PendingOK'
  BY <1>2, ImportAssumption, IdleOK DEF Ends, Others, PendingOK, PendingOK, ApartOK, InHandOK, HasNumber, Num
<1>4. ApartOK'
  BY <1>2, ImportAssumption, IdleOK DEF Ends, Others, ApartOK, PendingOK, ApartOK, InHandOK, HasNumber, Num
<1>5. InHandOK'
  BY <1>2, ImportAssumption, IdleOK DEF Ends, Others, InHandOK, PendingOK, ApartOK, InHandOK, HasNumber, Num
<1>6. OnFileOK'
  BY <1>2, ImportAssumption, IdleOK DEF Ends, Others, OnFileOK, PendingOK, ApartOK, InHandOK, HasNumber, Num
<1>7. ReportedIsOnFile'
  <2>1. \A n \in Numbers : invoice[n].status # "none" => invoice'[n] = invoice[n]
    BY DEF Ends, PendingOK
  <2>2. imported' = imported /\ \A d \in imported : NumberOf[d] \in Numbers
    BY ImportAssumption DEF Ends, ImportTypeOK
  <2> QED
    BY <2>1, <2>2 DEF ReportedIsOnFile
<1>8. LeftoversHaveACause'
  BY <1>2, ImportAssumption, IdleOK DEF Ends, Others, LeftoversHaveACause, PendingOK, ApartOK, InHandOK, HasNumber, Num
<1> QED
  BY <1>1, <1>3, <1>4, <1>5, <1>6, <1>7, <1>8

\* A new session has flushed nothing.
LEMMA StartsKeeps ==
  ASSUME NEW w \in Importers, Core, Starts(w)
  PROVE  Core'
<1> USE DEF Core
<1>1. ImportTypeOK'
  BY ImportAssumption, IdleOK DEF Starts, Others, ImportTypeOK, SessionsTyped
<1>2. /\ \A v \in Importers : HasNumber(v)
      /\ \A v \in Importers : HasNumber(v)'
  BY <1>1, ImportAssumption DEF HasNumber, ImportTypeOK, Importer, Num
<1>3. PendingOK'
  BY <1>2, ImportAssumption, IdleOK DEF Starts, Others, PendingOK, PendingOK, ApartOK, InHandOK, HasNumber, Num
<1>4. ApartOK'
  BY <1>2, ImportAssumption, IdleOK DEF Starts, Others, ApartOK, PendingOK, ApartOK, InHandOK, HasNumber, Num
<1>5. InHandOK'
  BY <1>2, ImportAssumption, IdleOK DEF Starts, Others, InHandOK, PendingOK, ApartOK, InHandOK, HasNumber, Num
<1>6. OnFileOK'
  BY <1>2, ImportAssumption, IdleOK DEF Starts, Others, OnFileOK, PendingOK, ApartOK, InHandOK, HasNumber, Num
<1>7. ReportedIsOnFile'
  BY <1>2, ImportAssumption, IdleOK DEF Starts, Others, ReportedIsOnFile, PendingOK, ApartOK, InHandOK, HasNumber, Num
<1>8. LeftoversHaveACause'
  BY <1>2, ImportAssumption, IdleOK DEF Starts, Others, LeftoversHaveACause, PendingOK, ApartOK, InHandOK, HasNumber, Num
<1> QED
  BY <1>1, <1>3, <1>4, <1>5, <1>6, <1>7, <1>8

-----------------------------------------------------------------------------
(***************************************************************************)
(* Users and parties.                                                      *)
(***************************************************************************)
\* Nothing of a row but its link changes, and no session.
Administers ==
  /\ UNCHANGED <<importer, fetches, deaths, imported, failed, orphaned>>
  /\ party' \subseteq Parties /\ handmade' \subseteq Parties
  /\ deleting' \in Parties \cup {NoParty}
  /\ crossed' \in BOOLEAN
  /\ invoice' \in [Numbers -> Row]
  /\ \A n \in Numbers :
       /\ invoice'[n].doc = invoice[n].doc
       /\ invoice'[n].status = invoice[n].status
       /\ invoice'[n].lines = invoice[n].lines

LEMMA AddAdministers ==
  ASSUME NEW p \in Parties, ImportTypeOK, AddParty(p)
  PROVE  Administers
BY DEF ImportTypeOK, AddParty, Administers

LEMMA BeginDeleteAdministers ==
  ASSUME NEW p \in Parties, ImportTypeOK, BeginDelete(p)
  PROVE  Administers
<1>1. crossed' \in BOOLEAN
  BY Zenon DEF BeginDelete, Crosses
<1>2. UNCHANGED <<invoice, party, importer, fetches, deaths, imported, failed, orphaned, handmade>>
  BY DEF BeginDelete
<1>3. deleting' = p
  BY DEF BeginDelete
<1> QED
  BY <1>1, <1>2, <1>3 DEF ImportTypeOK, Administers

LEMMA CommitDeleteAdministers ==
  ASSUME ImportTypeOK, CommitDelete
  PROVE  /\ Administers
         /\ \A n \in Numbers :
              invoice'[n].link = IF invoice[n].link = deleting THEN NoParty ELSE invoice[n].link
<1> DEFINE Unlinked(n) == [invoice[n] EXCEPT !.link = NoParty]
<1>1. \A n \in Numbers :
        /\ Unlinked(n) \in Row /\ Unlinked(n).link = NoParty
        /\ Unlinked(n).doc = invoice[n].doc
        /\ Unlinked(n).status = invoice[n].status
        /\ Unlinked(n).lines = invoice[n].lines
  BY DEF Row, ImportTypeOK
<1>2. invoice' = [n \in Numbers |-> IF invoice[n].link = deleting THEN Unlinked(n) ELSE invoice[n]]
  BY DEF CommitDelete
<1> HIDE DEF Unlinked
<1>3. /\ invoice' \in [Numbers -> Row]
      /\ \A n \in Numbers :
           /\ invoice'[n].doc = invoice[n].doc
           /\ invoice'[n].status = invoice[n].status
           /\ invoice'[n].lines = invoice[n].lines
           /\ invoice'[n].link = IF invoice[n].link = deleting THEN NoParty ELSE invoice[n].link
  BY <1>1, <1>2 DEF ImportTypeOK
<1>4. /\ UNCHANGED <<importer, fetches, deaths, imported, failed, orphaned, crossed>>
      /\ party' = party \ {deleting} /\ handmade' = handmade \ {deleting} /\ deleting' = NoParty
  BY DEF CommitDelete
<1> QED
  BY <1>3, <1>4 DEF ImportTypeOK, Administers

\* So nothing of what the sessions and the file agree on is disturbed.
LEMMA AdministersKeeps ==
  ASSUME Core, Administers
  PROVE  Core'
<1> USE DEF Core
<1>1. ImportTypeOK'
  BY DEF Administers, ImportTypeOK
<1>2. \A v \in Importers : importer[v].at = "marking" => Num(v) \in Numbers
  BY ImportAssumption DEF ImportTypeOK, Importer, Num
<1>3. PendingOK' /\ ApartOK'
  BY DEF Administers, PendingOK, ApartOK
<1>4. InHandOK'
  BY <1>2 DEF Administers, InHandOK, Num
<1>5. OnFileOK'
  BY DEF Administers, OnFileOK
<1>6. ReportedIsOnFile'
  BY ImportAssumption DEF Administers, ReportedIsOnFile, ImportTypeOK
<1>7. LeftoversHaveACause'
  BY DEF Administers, LeftoversHaveACause
<1> QED
  BY <1>1, <1>3, <1>4, <1>5, <1>6, <1>7

-----------------------------------------------------------------------------
(***************************************************************************)
(* Parties and links, step by step, until two sessions overlap.            *)
(***************************************************************************)
Books == AloneOK /\ SellersOK /\ LinksOK /\ OnePartyPerSeller

\* A step that only moves a session on.
LEMMA SilentBooks ==
  ASSUME NEW w \in Importers, IInv, Silent(w)
  PROVE  Books'
<1> USE DEF IInv
<1>1. \A v \in Importers : HasNumber(v)
  BY ImportAssumption DEF HasNumber, Core, ImportTypeOK, Importer, Num
<1>2. AloneOK'
  BY <1>1, IdleOK DEF Silent, Others, AloneOK
<1>3. SellersOK'
  BY <1>1, IdleOK DEF Silent, Others, AloneOK, SellersOK
<1>4. LinksOK'
  BY <1>1, IdleOK DEF Silent, Others, AloneOK, SellersOK, LinksOK, Core, PendingOK, InHandOK, HasNumber, Num, Row
<1>5. OnePartyPerSeller'
  BY <1>1, IdleOK DEF Silent, Others, AloneOK, SellersOK, OnePartyPerSeller
<1> QED
  BY <1>2, <1>3, <1>4, <1>5 DEF Books

\* A session that loses what it has flushed looks nothing up any more.
LEMMA ClearsBooks ==
  ASSUME NEW w \in Importers, IInv, Clears(w)
  PROVE  Books'
<1> USE DEF IInv
<1>1. \A v \in Importers : HasNumber(v)
  BY ImportAssumption DEF HasNumber, Core, ImportTypeOK, Importer, Num
<1>2. AloneOK'
  BY <1>1, IdleOK DEF Clears, Others, AloneOK
<1>3. SellersOK'
  BY <1>1, IdleOK DEF Clears, Others, AloneOK, SellersOK
<1>4. LinksOK'
  BY <1>1, IdleOK DEF Clears, Others, AloneOK, SellersOK, LinksOK, Core, PendingOK, InHandOK, HasNumber, Num, Row
<1>5. OnePartyPerSeller'
  BY <1>1, IdleOK DEF Clears, Others, AloneOK, SellersOK, OnePartyPerSeller
<1> QED
  BY <1>2, <1>3, <1>4, <1>5 DEF Books

\* A new pending row has no link yet.
LEMMA FlushesBooks ==
  ASSUME NEW w \in Importers, IInv, Flushes(w)
  PROVE  Books'
<1> USE DEF IInv
<1>1. \A v \in Importers : HasNumber(v)
  BY ImportAssumption DEF HasNumber, Core, ImportTypeOK, Importer, Num
<1>2. AloneOK'
  BY <1>1, IdleOK DEF Flushes, Others, AloneOK
<1>3. SellersOK'
  BY <1>1, IdleOK DEF Flushes, Others, AloneOK, SellersOK
<1>4. LinksOK'
  <2>1. importer'[w].rows[Num(w)].link = NoParty
    BY IdleOK DEF Flushes, Row
  <2>2. \A n \in Numbers : importer'[w].rows[n].link \in {NoParty, importer[w].rows[n].link}
    BY <2>1 DEF Flushes
  <2>3. \A v \in Importers \ {w} : importer'[v] = importer[v]
    BY DEF Flushes, Others
  <2>4. /\ importer'[w].at = "linking" /\ importer'[w].parties = importer[w].parties
        /\ UNCHANGED <<invoice, party, crossed>>
    BY DEF Flushes
  <2> QED
    BY <2>2, <2>3, <2>4 DEF LinksOK, Num
<1>5. OnePartyPerSeller'
  BY <1>1, IdleOK DEF Flushes, Others, AloneOK, SellersOK, OnePartyPerSeller
<1> QED
  BY <1>2, <1>3, <1>4, <1>5 DEF Books

\* A party is created only for a seller that the session does not see.
LEMMA JoinsBooks ==
  ASSUME NEW w \in Importers, NEW p \in Parties, IInv, Joins(w, p)
  PROVE  Books'
<1> USE DEF IInv
<1>1. \A v \in Importers : HasNumber(v)
  BY ImportAssumption DEF HasNumber, Core, ImportTypeOK, Importer, Num
<1>2. AloneOK'
  BY <1>1, IdleOK DEF Joins, Others, Matches, AloneOK
<1>3. SellersOK'
  BY <1>1, IdleOK DEF Joins, Others, Matches, AloneOK, SellersOK
<1>4. LinksOK'
  <2>1. importer'[w].rows[Num(w)].link = p
    BY DEF Joins, Row
  <2>2. p \in party \cup importer'[w].parties /\ p # NoParty /\ importer[w].parties \subseteq importer'[w].parties
    BY ImportAssumption DEF Joins
  <2>3. \A n \in Numbers : importer'[w].rows[n].link \in {p, importer[w].rows[n].link}
    BY <2>1 DEF Joins
  <2>4. \A v \in Importers \ {w} : importer'[v] = importer[v]
    BY DEF Joins, Others
  <2>5. /\ importer'[w].at = "filling" /\ importer'[w].doc = importer[w].doc
        /\ UNCHANGED <<invoice, party, crossed>>
    BY DEF Joins
  <2>6. importer'[w].rows[Num(w)'].link = p
    BY <2>1, <2>5 DEF Num
  <2> QED
    BY <2>2, <2>3, <2>4, <2>5, <2>6 DEF LinksOK, Num
<1>5. OnePartyPerSeller'
  BY <1>1, IdleOK DEF Joins, Others, Matches, AloneOK, SellersOK, OnePartyPerSeller
<1> QED
  BY <1>2, <1>3, <1>4, <1>5 DEF Books

\* The first commit publishes parties nobody else has.
LEMMA DraftsBooks ==
  ASSUME NEW w \in Importers, IInv, Drafts(w)
  PROVE  Books'
<1> USE DEF IInv
<1>1. \A v \in Importers : HasNumber(v)
  BY ImportAssumption DEF HasNumber, Core, ImportTypeOK, Importer, Num
<1>2. AloneOK'
  BY <1>1, IdleOK DEF Drafts, Others, AloneOK
<1>3. SellersOK'
  BY <1>1, IdleOK DEF Drafts, Others, AloneOK, SellersOK
<1>4. LinksOK'
  BY <1>1, IdleOK DEF Drafts, Others, AloneOK, SellersOK, LinksOK, Core, PendingOK, InHandOK, HasNumber, Num, Row
<1>5. OnePartyPerSeller'
  BY <1>1, IdleOK DEF Drafts, Others, AloneOK, SellersOK, OnePartyPerSeller
<1> QED
  BY <1>2, <1>3, <1>4, <1>5 DEF Books

\* After the second commit the session sees all parties again.
LEMMA MarksBooks ==
  ASSUME NEW w \in Importers, IInv, Marks(w)
  PROVE  Books'
<1> USE DEF IInv
<1>1. \A v \in Importers : HasNumber(v)
  BY ImportAssumption DEF HasNumber, Core, ImportTypeOK, Importer, Num
<1>2. AloneOK'
  BY <1>1, IdleOK DEF Marks, Others, AloneOK
<1>3. SellersOK'
  BY <1>1, IdleOK DEF Marks, Others, AloneOK, SellersOK
<1>4. LinksOK'
  <2>1. \A v \in Importers \ {w} : importer'[v] = importer[v]
    BY DEF Marks, Others
  <2>2. /\ \A n \in Numbers \ {Num(w)} : invoice'[n] = invoice[n]
        /\ invoice'[Num(w)].link = invoice[Num(w)].link
        /\ UNCHANGED <<party, crossed>>
    BY DEF Marks
  <2>3. /\ importer[w].at = "marking" /\ importer'[w].at = "looping"
        /\ importer'[w].parties = importer[w].parties /\ importer'[w].rows = importer[w].rows
    BY DEF Marks
  <2>4. \A n \in Numbers : invoice'[n].link = invoice[n].link
    BY <2>2
  <2>5. ~crossed => \A v \in Importers \ {w} : importer[v].at = "idle"
    BY <2>3 DEF AloneOK
  <2> SUFFICES ASSUME ~crossed PROVE LinksOK'
    BY <2>2 DEF LinksOK
  <2>6. \A n \in Numbers : invoice'[n].status = "accepted" => invoice'[n].link # NoParty
    BY <2>2, <2>3 DEF LinksOK
  <2> QED
    BY <2>1, <2>2, <2>3, <2>4, <2>5, <2>6 DEF LinksOK
<1>5. OnePartyPerSeller'
  BY <1>1, IdleOK DEF Marks, Others, AloneOK, SellersOK, OnePartyPerSeller
<1> QED
  BY <1>2, <1>3, <1>4, <1>5 DEF Books

\* The job's commit publishes what the session still has.
LEMMA EndsBooks ==
  ASSUME NEW w \in Importers, IInv, Ends(w)
  PROVE  Books'
<1> USE DEF IInv
<1>1. \A v \in Importers : HasNumber(v)
  BY ImportAssumption DEF HasNumber, Core, ImportTypeOK, Importer, Num
<1>2. AloneOK'
  BY <1>1, IdleOK DEF Ends, Others, AloneOK
<1>3. SellersOK'
  BY <1>1, IdleOK DEF Ends, Others, AloneOK, SellersOK
<1>4. LinksOK'
  BY <1>1, IdleOK DEF Ends, Others, AloneOK, SellersOK, LinksOK, Core, PendingOK, InHandOK, HasNumber, Num, Row
<1>5. OnePartyPerSeller'
  BY <1>1, IdleOK DEF Ends, Others, AloneOK, SellersOK, OnePartyPerSeller
<1> QED
  BY <1>2, <1>3, <1>4, <1>5 DEF Books

\* A new session sees what is on file.
LEMMA StartsBooks ==
  ASSUME NEW w \in Importers, IInv, Starts(w)
  PROVE  Books'
<1> USE DEF IInv
<1>1. \A v \in Importers : HasNumber(v)
  BY ImportAssumption DEF HasNumber, Core, ImportTypeOK, Importer, Num
<1>2. AloneOK'
  BY <1>1, IdleOK DEF Starts, Others, AloneOK
<1>3. SellersOK'
  BY <1>1, IdleOK DEF Starts, Others, AloneOK, SellersOK, OnePartyPerSeller
<1>4. LinksOK'
  BY <1>1, IdleOK DEF Starts, Others, AloneOK, SellersOK, LinksOK, Core, PendingOK, InHandOK, HasNumber, Num, Row
<1>5. OnePartyPerSeller'
  BY <1>1, IdleOK DEF Starts, Others, AloneOK, SellersOK, OnePartyPerSeller
<1> QED
  BY <1>2, <1>3, <1>4, <1>5 DEF Books

\* A party added by hand belongs to nobody's import.
LEMMA AddBooks ==
  ASSUME NEW p \in Parties, IInv, AddParty(p)
  PROVE  Books'
<1> USE DEF IInv
<1>1. \A v \in Importers : HasNumber(v)
  BY ImportAssumption DEF HasNumber, Core, ImportTypeOK, Importer, Num
<1>2. AloneOK'
  BY <1>1, IdleOK DEF AddParty, NextId, Unused, AloneOK
<1>3. SellersOK'
  BY <1>1, IdleOK DEF AddParty, NextId, Unused, AloneOK, SellersOK
<1>4. LinksOK'
  BY <1>1, IdleOK DEF AddParty, NextId, Unused, AloneOK, SellersOK, LinksOK, Core, PendingOK, InHandOK, HasNumber, Num, Row
<1>5. OnePartyPerSeller'
  BY <1>1, IdleOK DEF AddParty, NextId, Unused, AloneOK, SellersOK, OnePartyPerSeller
<1> QED
  BY <1>2, <1>3, <1>4, <1>5 DEF Books

\* A party about to be deleted is not in use.
LEMMA BeginDeleteBooks ==
  ASSUME NEW p \in Parties, IInv, BeginDelete(p)
  PROVE  Books'
<1> USE DEF IInv
<1>1. \A v \in Importers : HasNumber(v)
  BY ImportAssumption DEF HasNumber, Core, ImportTypeOK, Importer, Num
<1>2. AloneOK'
  BY <1>1, IdleOK DEF BeginDelete, Crosses, AloneOK
<1>3. SellersOK'
  BY <1>1, IdleOK DEF BeginDelete, Crosses, AloneOK, SellersOK
<1>4. LinksOK'
  BY <1>1, IdleOK DEF BeginDelete, Crosses, AloneOK, SellersOK, LinksOK, Core, PendingOK, InHandOK, HasNumber, Num, Row
<1>5. OnePartyPerSeller'
  BY <1>1, IdleOK DEF BeginDelete, Crosses, AloneOK, SellersOK, OnePartyPerSeller
<1> QED
  BY <1>2, <1>3, <1>4, <1>5 DEF Books

\* A deleted party takes no link with it.
LEMMA CommitDeleteBooks ==
  ASSUME IInv, CommitDelete
  PROVE  Books'
<1> USE DEF IInv
<1>1. \A v \in Importers : HasNumber(v)
  BY ImportAssumption DEF HasNumber, Core, ImportTypeOK, Importer, Num
<1>2. AloneOK'
  BY <1>1, IdleOK DEF CommitDelete, AloneOK
<1>3. SellersOK'
  BY <1>1, IdleOK DEF CommitDelete, AloneOK, SellersOK
<1>4. LinksOK'
  BY <1>1, IdleOK DEF CommitDelete, AloneOK, SellersOK, LinksOK, Core, PendingOK, InHandOK, HasNumber, Num, Row
<1>5. OnePartyPerSeller'
  BY <1>1, IdleOK DEF CommitDelete, AloneOK, SellersOK, OnePartyPerSeller
<1> QED
  BY <1>2, <1>3, <1>4, <1>5 DEF Books

-----------------------------------------------------------------------------
\* Nothing is on file and nobody is at work.
LEMMA InitOK == ImportInit => IInv
<1> SUFFICES ASSUME ImportInit PROVE IInv
  OBVIOUS
<1>1. /\ invoice = [n \in Numbers |-> NoRow] /\ party = {} /\ deleting = NoParty
      /\ importer = [w \in Importers |-> Idle]
      /\ fetches = 0 /\ deaths = 0 /\ imported = {} /\ failed = {} /\ orphaned = {} /\ handmade = {}
  BY DEF ImportInit
<1>2. crossed \in BOOLEAN
  BY Zenon DEF ImportInit
<1>3. ImportTypeOK
  BY <1>1, <1>2, IdleOK, ImportAssumption DEF ImportTypeOK
<1>4. PendingOK /\ ApartOK /\ InHandOK /\ OnFileOK /\ ReportedIsOnFile /\ LeftoversHaveACause
  BY <1>1, IdleOK DEF PendingOK, ApartOK, InHandOK, OnFileOK, ReportedIsOnFile, LeftoversHaveACause
<1>5. AloneOK /\ SellersOK /\ LinksOK /\ OnePartyPerSeller
  BY <1>1, IdleOK DEF AloneOK, SellersOK, LinksOK, OnePartyPerSeller
<1> QED
  BY <1>3, <1>4, <1>5 DEF IInv, Core

\* Every action of a session keeps the invariant.
LEMMA SessionOK ==
  ASSUME NEW w \in Importers, IInv, ImportStep(w)
  PROVE  IInv'
<1> USE DEF IInv, Books
<1>1. ImportTypeOK
  BY DEF Core
<1>2. Silent(w) => IInv'
  BY SilentKeeps, SilentBooks
<1>3. Clears(w) => IInv'
  BY ClearsKeeps, ClearsBooks
<1>4. importer[w].at \notin {"idle", "looping"} => importer[w].doc \in Docs
  BY <1>1 DEF ImportTypeOK, Importer
<1>5. ASSUME NEW d \in Docs, SkipKnown(w, d) \/ StartImport(w, d)
      PROVE  IInv'
  BY <1>1, <1>2, <1>5, SkipIsSilent
<1>6. ASSUME NEW d \in Docs, RaiseAtOnce(w, d)
      PROVE  IInv'
  BY <1>1, <1>2, <1>6, LogsIsSilent DEF RaiseAtOnce, InHand
<1>7. CASE FlushInvoice(w)
  BY <1>1, <1>7, FlushesSo, FlushesKeeps, FlushesBooks
<1>8. CASE FlushRaises(w)
  <2>1. Poisons(w, importer[w].doc) /\ importer[w].doc \in Docs
    BY <1>4, <1>8 DEF FlushRaises
  <2> QED
    BY <1>1, <1>3, <2>1, PoisonsClears
<1>9. ASSUME NEW p \in Parties, LinkNewParty(w, p) \/ LinkParty(w, p)
      PROVE  IInv'
  BY <1>1, <1>9, JoinsSo, JoinsKeeps, JoinsBooks
<1>10. ASSUME NEW p \in Parties, LinkRefused(w, p)
       PROVE  IInv'
  <2>1. Poisons(w, importer[w].doc) /\ importer[w].doc \in Docs
    BY <1>4, <1>10 DEF LinkRefused
  <2> QED
    BY <1>1, <1>3, <2>1, PoisonsClears
<1>11. CASE SellerAmbiguous(w) \/ LinesRaise(w)
  <2>1. Logs(w, importer[w].doc) /\ importer[w].at \in {"linking", "filling"}
    BY <1>11 DEF SellerAmbiguous, LinesRaise
  <2> QED
    BY <1>1, <1>2, <1>4, <2>1, LogsIsSilent
<1>12. CASE CommitDraft(w)
  BY <1>1, <1>12, DraftsSo, DraftsKeeps, DraftsBooks
<1>13. CASE MarkAccepted(w)
  BY <1>1, <1>13, MarksSo, MarksKeeps, MarksBooks
<1>14. CASE EndRequest(w)
  BY <1>1, <1>3, <1>14, EndClears
<1>15. CASE EndJob(w)
  BY <1>1, <1>15, EndsSo, EndsKeeps, EndsBooks
<1> QED
  BY <1>5, <1>6, <1>7, <1>8, <1>9, <1>10, <1>11, <1>12, <1>13, <1>14, <1>15 DEF ImportStep

\* So do the beginning of a session, its death, the users and a stutter.
LEMMA StepOK ==
  ASSUME IInv, [ImportNext]_importVars
  PROVE  IInv'
<1> USE DEF IInv, Books
<1>1. ImportTypeOK
  BY DEF Core
<1>2. ASSUME NEW w \in Importers, NEW docs \in Ranges, BeginFetch(w, docs)
      PROVE  IInv'
  BY <1>1, <1>2, StartsSo, StartsKeeps, StartsBooks
<1>3. ASSUME NEW w \in Importers, ImportStep(w)
      PROVE  IInv'
  BY <1>3, SessionOK
<1>4. ASSUME NEW w \in Importers, Die(w)
      PROVE  IInv'
  BY <1>1, <1>4, EndClears, ClearsKeeps, ClearsBooks
<1>5. ASSUME NEW p \in Parties, AddParty(p)
      PROVE  IInv'
  BY <1>1, <1>5, AddAdministers, AdministersKeeps, AddBooks
<1>6. ASSUME NEW p \in Parties, BeginDelete(p)
      PROVE  IInv'
  BY <1>1, <1>6, BeginDeleteAdministers, AdministersKeeps, BeginDeleteBooks
<1>7. CASE CommitDelete
  BY <1>1, <1>7, CommitDeleteAdministers, AdministersKeeps, CommitDeleteBooks
<1>8. CASE UNCHANGED importVars
  <2>1. Core'
    BY <1>8 DEF importVars, Core, ImportTypeOK, PendingOK, ApartOK, InHandOK, OnFileOK,
                ReportedIsOnFile, LeftoversHaveACause, Num
  <2>2. Books'
    BY <1>8 DEF importVars, AloneOK, SellersOK, LinksOK, OnePartyPerSeller, Num
  <2> QED
    BY <2>1, <2>2
<1> QED
  BY <1>2, <1>3, <1>4, <1>5, <1>6, <1>7, <1>8 DEF ImportNext

\* The invariant is inductive.
THEOREM Inductive == ImportSpec => []IInv
BY InitOK, StepOK, PTL DEF ImportSpec

-----------------------------------------------------------------------------
\* Rows, sessions and histories keep their types.
THEOREM TypeCorrect == ImportSpec => []ImportTypeOK
<1>1. IInv => ImportTypeOK
  BY DEF IInv, Core
<1> QED
  BY <1>1, Inductive, PTL

\* An accepted invoice has its lines and is its document's, for any number of
\* overlapping imports, failures and deaths.
THEOREM AcceptedWhole == ImportSpec => []AcceptedIsWhole
<1>1. IInv => AcceptedIsWhole
  BY ImportAssumption DEF IInv, Core, OnFileOK, AcceptedIsWhole
<1> QED
  BY <1>1, Inductive, PTL

\* What a loop has reported as imported is on file and stays there.
THEOREM ReportedOnFile == ImportSpec => []ReportedIsOnFile
<1>1. IInv => ReportedIsOnFile
  BY DEF IInv, Core
<1> QED
  BY <1>1, Inductive, PTL

\* A draft nobody is completing was logged as failed or interrupted by a death.
THEOREM LeftoversCaused == ImportSpec => []LeftoversHaveACause
<1>1. IInv => LeftoversHaveACause
  BY DEF IInv, Core
<1> QED
  BY <1>1, Inductive, PTL

\* Until two sessions overlap, imports create one party per seller.
THEOREM OneParty == ImportSpec => []OnePartyPerSeller
<1>1. IInv => OnePartyPerSeller
  BY DEF IInv
<1> QED
  BY <1>1, Inductive, PTL

\* Until two sessions overlap, an accepted invoice's party is there.
THEOREM PartyStays == ImportSpec => []PartyKept
<1>1. IInv => PartyKept
  BY DEF IInv, LinksOK, PartyKept
<1> QED
  BY <1>1, Inductive, PTL

=============================================================================
