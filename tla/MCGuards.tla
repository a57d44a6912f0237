------------------------------- MODULE MCGuards -------------------------------
(***************************************************************************)
(* Small instances of PermissionCache and Guards: at the start u1 holds r1,*)
(* which has the permission p1 of name n1; further rows are created by the *)
(* changes.                                                                *)
(***************************************************************************)
EXTENDS Guards, TLC

CONSTANTS u1, r1, p1, n1

OneHolder == {<<u1, r1>>}
OneGrant == {<<r1, p1>>}
OneName == [p \in Permissions |-> n1]

Interchangeable == Permutations(Readers)

=============================================================================
