----------------------------- MODULE MCBrowsers -----------------------------
(***************************************************************************)
(* Browsers on small instances: u1 signs in on every browser, another user *)
(* is there to administrate.  Requests and browsers are interchangeable.   *)
(***************************************************************************)
EXTENDS Browsers, TLC

CONSTANT u1

OnlyFirst == [b \in Browsers |-> {u1}]

Interchangeable == Permutations(Requests) \cup Permutations(Browsers)

=============================================================================
