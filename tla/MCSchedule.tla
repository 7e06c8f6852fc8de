----------------------------- MODULE MCSchedule -----------------------------
(***************************************************************************)
(* Instances of Schedule that TLC can check; the constants are given by    *)
(* the configuration.                                                      *)
(***************************************************************************)
EXTENDS Schedule
=============================================================================
