------------------------------- MODULE MCReports -------------------------------
(***************************************************************************)
(* Reports on a small instance, whose values MCReports.cfg gives: slots for*)
(* operations are interchangeable.                                         *)
(***************************************************************************)
EXTENDS Reports

Interchangeable == Permutations(Ops)

=============================================================================
