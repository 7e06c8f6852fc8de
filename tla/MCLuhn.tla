------------------------------- MODULE MCLuhn -------------------------------
(***************************************************************************)
(* An instance of Luhn that TLC can check: the ten digits and the bytes    *)
(* next to them, '/' and ':'.                                              *)
(***************************************************************************)
EXTENDS Luhn

TypedBytes == 47..58
=============================================================================
