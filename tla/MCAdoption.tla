---------------------------- MODULE MCAdoption ----------------------------
(***************************************************************************)
(* Adoption with interchangeable transactions and operators.               *)
(***************************************************************************)
EXTENDS Adoption, TLC

AdoptionSymmetry == Permutations(Txs) \cup Permutations(Operators)
=============================================================================
