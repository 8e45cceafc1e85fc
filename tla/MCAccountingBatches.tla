------------------------ MODULE MCAccountingBatches ------------------------
(***************************************************************************)
(* Instances of AccountingBatches for TLC.                                 *)
(***************************************************************************)
EXTENDS AccountingBatches, TLC

Symmetry == Permutations(Invoices) \cup Permutations(Txns)

=============================================================================
