----------------------------- MODULE MCSessions -----------------------------
(***************************************************************************)
(* Instances of Sessions that TLC can check.  Requests, logins and         *)
(* passwords are interchangeable.                                          *)
(***************************************************************************)
EXTENDS Sessions, TLC

Symmetry == Permutations(Requests) \cup Permutations(Logins) \cup Permutations(Passes)
=============================================================================
