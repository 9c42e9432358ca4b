----------------------------- MODULE MCComposite -----------------------------
(***************************************************************************)
(* SalComposite with three interfaces and a count of two bits, so that a    *)
(* fourth interface would wrap it.                                         *)
(***************************************************************************)
EXTENDS SalComposite, TLC

\* The interfaces are interchangeable: no property names one.
Symmetry == Permutations(Interfaces)
=============================================================================
