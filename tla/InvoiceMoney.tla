---------------------------- MODULE InvoiceMoney ----------------------------
(***************************************************************************)
(* The amounts of an invoice: computed per line, added up in the header    *)
(* and by VAT rate, written into the FA(3) document at the approval, and   *)
(* computed again by whoever imports the document.                         *)
(***************************************************************************)
EXTENDS Integers, Sequences, FiniteSetsExt

CONSTANTS
  Payloads,   \* the lines a user may send
  Codes,      \* the vat_code values
  One,        \* units of a quantity in 1
  Grosz,      \* units of a price or of a discount in a grosz
  Point,      \* units of a percentage or of a VAT rate in one per cent
  Place,      \* units in the last decimal place of a stored column
  MaxLines    \* bound: lines of an invoice

(***************************************************************************)
(* The API takes any decimal number, so that what is sent is counted in    *)
(* units finer than what is stored: six places of a quantity and a price,  *)
(* four of a rate.  In the code One is 10^6 places, Grosz and Point 10^4.  *)
(***************************************************************************)
ASSUME MoneyAssumption ==
  /\ {One, Grosz, Point, Place, MaxLines} \subseteq Nat \ {0}
  /\ Payloads \subseteq [quantity: Int, price: Int, percent: Int, discount: Int,
                         code: Codes, rate: Int, reverse: BOOLEAN]

VARIABLES
  sheet,      \* the invoice, its lines and its VAT summary
  document,   \* the FA(3) document of the approval
  copy        \* the invoice that an import of the document creates

moneyVars == <<sheet, document, copy>>

-----------------------------------------------------------------------------
(***************************************************************************)
(* Amounts of a line, in grosze.                                           *)
(***************************************************************************)
\* Decimal.quantize with ROUND_HALF_UP of n/d, for n >= 0.
HalfUp(n, d) == (2 * n + d) \div (2 * d)

\* quantize(SIXPLACES), which rounds a half to the even place.
Quantized(n) ==
  LET low == n \div Place
      rest == n % Place
  IN  Place * (IF 2 * rest < Place \/ (2 * rest = Place /\ low % 2 = 0) THEN low ELSE low + 1)

\* Quantity and price as they were sent, multiplied without rounding.
BaseNet(p) == HalfUp(p.quantity * p.price, One * Grosz)

DiscountedNet(p) ==
  IF p.percent > 0 THEN HalfUp(BaseNet(p) * (100 * Point - p.percent), 100 * Point)
                   ELSE BaseNet(p)

\* Otherwise the line raises ValueError and the request is rolled back.
Allowed(p) ==
  /\ p.quantity > 0
  /\ p.price >= 0
  /\ p.discount >= 0
  /\ p.percent \in 0..(100 * Point)
  /\ p.rate >= 0
  /\ p.discount <= DiscountedNet(p) * Grosz

\* Mutant: what is left after the discount is cut off instead of rounded.
NetCut(p) == (DiscountedNet(p) * Grosz - p.discount) \div Grosz

Net(p) == HalfUp(DiscountedNet(p) * Grosz - p.discount, Grosz)

\* The code compares vat_code.upper().
ExemptCodes == {"np", "Np", "nP", "NP", "zw", "Zw", "zW", "ZW"}

Exempt(p) == p.reverse \/ p.code \in ExemptCodes

Vat(p) == IF Exempt(p) THEN 0 ELSE HalfUp(Net(p) * p.rate, 100 * Point)

\* Quantity and price are rounded when they are stored, after the amounts were
\* computed from what was sent; the database rounds the rate.
StoredLine(p) ==
  [sent |-> p, quantity |-> Quantized(p.quantity), price |-> Quantized(p.price),
   rate |-> Place * HalfUp(p.rate, Place),
   net |-> Net(p), vat |-> Vat(p), gross |-> Net(p) + Vat(p)]

StoredLines(ps) == [i \in DOMAIN ps |-> StoredLine(ps[i])]

-----------------------------------------------------------------------------
(***************************************************************************)
(* Sums.                                                                   *)
(***************************************************************************)
TotalsAt(lines, at) ==
  [net   |-> SumFunction([i \in at |-> lines[i].net]),
   vat   |-> SumFunction([i \in at |-> lines[i].vat]),
   gross |-> SumFunction([i \in at |-> lines[i].gross])]

Totals(lines) == TotalsAt(lines, DOMAIN lines)

Group(l) == <<l.sent.code, l.rate>>

\* Mutant: a line replaces what its group has instead of adding to it.
SummaryOfLast(lines) ==
  [g \in {Group(lines[i]) : i \in DOMAIN lines} |->
     TotalsAt(lines, {Max({i \in DOMAIN lines : Group(lines[i]) = g})})]

Summary(lines) ==
  [g \in {Group(lines[i]) : i \in DOMAIN lines} |->
     TotalsAt(lines, {i \in DOMAIN lines : Group(lines[i]) = g})]

-----------------------------------------------------------------------------
(***************************************************************************)
(* The document.  Net sums go to a P_13 field by VAT code, and only the    *)
(* first three of these have a P_14 field for the VAT.                     *)
(***************************************************************************)
\* A code without a field of its own, the rates 4 and 3 among them, is
\* reported as reverse charge.
P13Field(code) ==
  CASE code \in {"23", "22"} -> "1"
    [] code \in {"8", "7"} -> "2"
    [] code = "5" -> "3"
    [] code \in {"0", "0 KR"} -> "6_1"
    [] code = "0 WDT" -> "6_2"
    [] code = "0 EX" -> "6_3"
    [] code = "zw" -> "7"
    [] code \in {"np", "np I"} -> "8"
    [] code = "np II" -> "9"
    [] OTHER -> "10"

P13Fields == {"1", "2", "3", "6_1", "6_2", "6_3", "7", "8", "9", "10"}

\* Mutant: a field is forgotten.
HasP14Less == {"1", "3"}

HasP14 == {"1", "2", "3"}

\* Mutant: a rate is missing, and the tag is left out.
P12FewerRates(code) ==
  CASE code \in {"23", "22", "7", "5", "4", "3", "zw", "oo", "oss"} -> code
    [] code \in {"0", "0 KR", "0 WDT", "0 EX"} -> "0"
    [] code \in {"np", "np I", "np II"} -> "np"
    [] OTHER -> ""

\* The P_12 tag of a line, or none.
P12(code) ==
  CASE code \in {"23", "22", "8", "7", "5", "4", "3", "zw", "oo", "oss"} -> code
    [] code \in {"0", "0 KR", "0 WDT", "0 EX"} -> "0"
    [] code \in {"np", "np I", "np II"} -> "np"
    [] OTHER -> ""

\* The keys of P12_MAP.
KnownCodes == {"23", "22", "8", "7", "5", "4", "3", "0", "0 KR", "0 WDT", "0 EX",
               "zw", "oo", "np", "np I", "np II", "oss"}

InField(lines, field) == {i \in DOMAIN lines : P13Field(lines[i].sent.code) = field}

\* P_15 is the header's gross total; a row tells the stored quantity and price,
\* and discounts have no tag.
Fa3(inv) ==
  [p13 |-> [f \in P13Fields |-> TotalsAt(inv.lines, InField(inv.lines, f)).net],
   p14 |-> [f \in HasP14 |-> TotalsAt(inv.lines, InField(inv.lines, f)).vat],
   p15 |-> inv.header.gross,
   rows |-> [i \in DOMAIN inv.lines |->
               [quantity |-> inv.lines[i].quantity,
                price |-> inv.lines[i].price,
                p11 |-> inv.lines[i].net,
                p12 |-> P12(inv.lines[i].sent.code)]]]

\* The import knows the rate of a P_12 value; a missing tag reads as 23.
RateOf(p12) ==
  CASE p12 \in {"23", ""} -> 23
    [] p12 = "22" -> 22
    [] p12 = "8" -> 8
    [] p12 = "7" -> 7
    [] p12 = "5" -> 5
    [] p12 = "4" -> 4
    [] p12 = "3" -> 3
    [] OTHER -> 0

\* P_11 is not used: the line is computed again from quantity and price.  A
\* quantity of 0 reads as 1.
Parsed(row) ==
  [quantity |-> IF row.quantity = 0 THEN One ELSE row.quantity,
   price |-> row.price, percent |-> 0, discount |-> 0,
   code |-> IF row.p12 = "" THEN "23" ELSE row.p12,
   rate |-> Point * RateOf(row.p12), reverse |-> FALSE]

-----------------------------------------------------------------------------
(***************************************************************************)
(* The operations.  Each is one transaction of one request.                *)
(***************************************************************************)
Blank == [status |-> "none", lines |-> <<>>, header |-> Totals(<<>>), summary |-> Summary(<<>>)]

NoDocument ==
  [p13 |-> [f \in P13Fields |-> 0], p14 |-> [f \in HasP14 |-> 0], p15 |-> 0, rows |-> <<>>]

MoneyInit ==
  /\ sheet = Blank
  /\ document = NoDocument
  /\ copy = Blank

\* Lines flushed before the collection is first loaded: it reads them.
Created(ps) ==
  LET lines == StoredLines(ps) IN
  [status |-> "draft", lines |-> lines, header |-> Totals(lines), summary |-> Summary(lines)]

CreateInvoice(ps) ==
  /\ sheet.status = "none"
  /\ \A i \in DOMAIN ps : Allowed(ps[i])
  /\ sheet' = Created(ps)
  /\ UNCHANGED <<document, copy>>

\* The invoice came with its lines loaded, and neither the bulk delete nor the
\* new rows change that collection: the sums are those of the lines before.
UpdateLines(ps) ==
  /\ sheet.status = "draft"
  /\ \A i \in DOMAIN ps : Allowed(ps[i])
  /\ sheet' = [sheet EXCEPT !.lines = StoredLines(ps),
                            !.header = Totals(sheet.lines),
                            !.summary = Summary(sheet.lines)]
  /\ UNCHANGED <<document, copy>>

\* An update without lines, which is also what /recalculate asks for.
UpdateOther ==
  /\ sheet.status = "draft"
  /\ sheet' = [sheet EXCEPT !.header = Totals(sheet.lines), !.summary = Summary(sheet.lines)]
  /\ UNCHANGED <<document, copy>>

\* A quantity that was stored as 0 is an error of the validation, while totals
\* that differ from the lines are only a warning.
Approve ==
  /\ sheet.status = "draft"
  /\ sheet.lines # <<>>
  /\ \A i \in DOMAIN sheet.lines : sheet.lines[i].quantity > 0
  /\ document' = Fa3(sheet)
  /\ sheet' = [sheet EXCEPT !.status = "approved"]
  /\ UNCHANGED copy

ImportDocument ==
  /\ document.rows # <<>>
  /\ copy.status = "none"
  /\ copy' = Created([i \in DOMAIN document.rows |-> Parsed(document.rows[i])])
  /\ UNCHANGED <<sheet, document>>

LinesSent == UNION {[1..n -> Payloads] : n \in 0..MaxLines}

MoneyNext ==
  \/ \E ps \in LinesSent : CreateInvoice(ps) \/ UpdateLines(ps)
  \/ UpdateOther
  \/ Approve
  \/ ImportDocument

MoneySpec == MoneyInit /\ [][MoneyNext]_moneyVars

-----------------------------------------------------------------------------
\* Stored numbers are never negative, and amounts are whole grosze.
Line == [sent: Payloads, quantity: Nat, price: Nat, rate: Nat, net: Nat, vat: Nat, gross: Nat]

MoneyTypeOK ==
  /\ sheet.status \in {"none", "draft", "approved"}
  /\ \A i \in DOMAIN sheet.lines : sheet.lines[i] \in Line
  /\ copy.status \in {"none", "draft"}

\* What the stored lines promise (invoice_service.py:595): gross is net and VAT;
\* the VAT is within half a grosz of the rate of the net; and the net is off by
\* at most half a grosz for every rounding that the line goes through: of the
\* product, of the percentage if there is one, and of the difference if the
\* discount is not in whole grosze.
Within(n, bound) == -bound <= n /\ n <= bound

Roundings(p) ==
  1 + (IF p.percent > 0 THEN 1 ELSE 0) + (IF p.discount % Grosz = 0 THEN 0 ELSE 1)

LineRounded(l) ==
  LET p == l.sent
      whole == 100 * Point
      grosz == whole * One * Grosz   \* a grosz in the unit of the exact amount
      exact == p.quantity * p.price * (whole - p.percent) - whole * One * p.discount
  IN  /\ l.gross = l.net + l.vat
      /\ ~Exempt(p) => Within(2 * (whole * l.vat - l.net * p.rate), whole)
      /\ Exempt(p) => l.vat = 0
      /\ Within(2 * (grosz * l.net - exact), grosz * Roundings(p))

LinesRounded == \A i \in DOMAIN sheet.lines : LineRounded(sheet.lines[i])

\* The header and the VAT summary tell the same amounts, whichever lines they
\* were computed from (invoice_service.py:640, 651).
SumOver(summary, field) == SumFunction([g \in DOMAIN summary |-> summary[g][field]])

HeaderMatchesSummary ==
  \A field \in {"net", "vat", "gross"} : SumOver(sheet.summary, field) = sheet.header[field]

TotalsFollow(inv) == inv.header = Totals(inv.lines)

\* Once the header shows the stored lines, the document adds up to P_15
\* (invoice_service.py:740) unless a line carries VAT in a field that has no
\* P_14; that is so for the rates 4 and 3, and for a code sent with another rate.
DocumentBalances ==
  /\ document.rows # <<>>
  /\ TotalsFollow(sheet)
  /\ \A i \in DOMAIN sheet.lines : P13Field(sheet.lines[i].sent.code) \notin {"1", "2", "3"}
                                     => sheet.lines[i].vat = 0
  => document.p15 = SumFunction(document.p13) + SumFunction(document.p14)

\* Whoever imports the document has the amounts of its lines
\* (ksef_xml_parser.py:139), unless a line has a discount, which the document
\* does not tell, or a rate that its P_12 does not, or a code that has no P_12,
\* or was sent with a quantity or a price of more than six places, of which the
\* amounts know and the document does not.
TellsAll(p) ==
  /\ p.percent = 0 /\ p.discount = 0 /\ ~p.reverse
  /\ p.code \in KnownCodes /\ p.rate = Point * RateOf(p.code)
  /\ Quantized(p.quantity) = p.quantity /\ Quantized(p.price) = p.price

CopyKeepsAmounts ==
  /\ copy.status # "none"
  /\ \A i \in DOMAIN sheet.lines : TellsAll(sheet.lines[i].sent)
  => copy.header = Totals(sheet.lines)

\* What README.md:120 says the system maintains: the totals are those of the
\* lines.  Editing the lines leaves them one edit behind.
TotalsFollowLines == TotalsFollow(sheet)

=============================================================================
