----------------------------- MODULE MCSideBySide -----------------------------
(***************************************************************************)
(* An instance of SideBySide for TLC.  The lines cover the three roundings *)
(* (a half grosz at each of them), a discount that is refused, numbers     *)
(* that lose digits when they are stored, reverse charge, an exempt code,  *)
(* a code without a field of its own and one that the document renames.    *)
(***************************************************************************)
EXTENDS SideBySide, TLC

SentLine(quantity, price, percent, discount, code, rate, reverse) ==
  [quantity |-> quantity, price |-> price, percent |-> percent, discount |-> discount,
   code |-> code, rate |-> rate, reverse |-> reverse]

\* With One = Grosz = 20 and Point = Place = 4: a quantity of 1.6 is 32, a price
\* of 61.8 grosze is 1236, 23 per cent are 92.
MCPayloads ==
  {SentLine(32, 1236, 0, 0, "23", 92, FALSE), SentLine(20, 990, 4, 10, "23", 92, FALSE),
   SentLine(24, 1000, 0, 0, "8", 32, FALSE), SentLine(20, 1001, 0, 0, "4", 16, FALSE),
   SentLine(32, 488, 0, 0, "zw", 0, FALSE), SentLine(40, 760, 0, 0, "23", 91, TRUE),
   SentLine(20, 96, 0, 0, "0 WDT", 0, FALSE), SentLine(1, 2000, 0, 0, "8", 32, FALSE),
   SentLine(20, 209, 0, 1, "23", 92, FALSE),
   SentLine(20, 60, 40, 80, "8", 32, FALSE), SentLine(0, 60, 0, 0, "8", 32, FALSE)}

\* The requests of the web process are alike, and so are the logins.
MCAlike == Permutations(Requests) \cup Permutations(Visits)

=============================================================================
