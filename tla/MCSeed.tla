-------------------------------- MODULE MCSeed --------------------------------
(***************************************************************************)
(* Seed on an empty database.                                              *)
(***************************************************************************)
EXTENDS Seed

CONSTANTS n1, n2

NoRows == {}
AnyName == [p \in Permissions |-> n1]
Both == <<n1, n2>>

=============================================================================
