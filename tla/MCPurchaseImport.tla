-------------------------- MODULE MCPurchaseImport --------------------------
(***************************************************************************)
(* An instance of PurchaseImport for TLC: a seller with a sound document   *)
(* and one whose lines are refused, and a document of another seller that  *)
(* bears the number of the sound one.                                      *)
(***************************************************************************)
EXTENDS PurchaseImport

CONSTANTS sound, bad, twin, n1, n2, s1, s2, p1, p2, p3, q1, q2, q3

MCNumberOf == [d \in Docs |-> IF d = bad THEN n2 ELSE n1]
MCSellerOf == [d \in Docs |-> IF d = twin THEN s2 ELSE s1]
MCPartySeller == [p \in Parties |-> IF p \in {q1, q2, q3} THEN s2 ELSE s1]

=============================================================================
