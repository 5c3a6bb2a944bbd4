-------------------------------- MODULE Totals --------------------------------
(***************************************************************************)
(* The sum of a sequence of naturals, as the number of cells of a table    *)
(* whose row i has w[i] cells: a form TLC can evaluate and the prover can  *)
(* count with, where a recursive sum would need an induction.              *)
(***************************************************************************)
EXTENDS Integers, Sequences, FiniteSets

Cells(w) == UNION {{i} \X (1 .. w[i]) : i \in DOMAIN w}
Total(w) == Cardinality(Cells(w))
=============================================================================
