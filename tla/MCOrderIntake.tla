---------------------------- MODULE MCOrderIntake ----------------------------
(***************************************************************************)
(* A small instance of OrderIntake: more rows than a tick takes, and more  *)
(* ids than rows, as a transaction that is rolled back leaves a gap.       *)
(***************************************************************************)
EXTENDS OrderIntake

ThreeIds == 1..3
=============================================================================
