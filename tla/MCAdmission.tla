---------------------------- MODULE MCAdmission ----------------------------
(* Small instances of Admission for TLC. *)
EXTENDS Admission, TLC

\* Requests are interchangeable in every safety property.
RequestSymmetry == Permutations(Requests)
=============================================================================
