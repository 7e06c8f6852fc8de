---------------------------- MODULE MCGophermart ----------------------------
(***************************************************************************)
(* Instances of Gophermart, with the reads of Reading, that TLC can check. *)
(* The constants are given by the configurations; here are the symmetry    *)
(* sets they use.                                                          *)
(***************************************************************************)
EXTENDS Reading, TLC

\* A negative amount, which the code refuses to credit, and a grant.
MixedAccruals == {-1, 2}

\* Requests, workers, users and (valid) numbers are interchangeable.
Symmetry ==
    Permutations(Requests) \cup Permutations(Workers) \cup Permutations(Users)
        \cup Permutations(ValidNumbers)
=============================================================================
