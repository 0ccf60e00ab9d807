----------------------------- MODULE MCAdoption -----------------------------
(***************************************************************************)
(* Small instances of Adoption.                                            *)
(***************************************************************************)
EXTENDS Adoption, TLC

Interchangeable == Permutations(Adopter)
=============================================================================
