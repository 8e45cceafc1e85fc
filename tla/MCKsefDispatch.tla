--------------------------- MODULE MCKsefDispatch ---------------------------
(***************************************************************************)
(* Instances of KsefDispatch for TLC.                                      *)
(***************************************************************************)
EXTENDS KsefDispatch, TLC

Symmetry == Permutations(Requests)

InvoiceSymmetry == Permutations(Invoices)

=============================================================================
