---------------------------- MODULE MCMatcherRun ----------------------------
(***************************************************************************)
(* Small instances of MatcherRun for TLC.                                  *)
(***************************************************************************)
EXTENDS MatcherRun

CONSTANTS m1, m2, m3
=============================================================================
