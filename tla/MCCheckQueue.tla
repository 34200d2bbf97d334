---------------------------- MODULE MCCheckQueue ----------------------------
(***************************************************************************)
(* CheckQueue for TLC: four checks, one of them bad, and two workers, all  *)
(* given in check_queue.cfg.  Symmetry is not used: TLC does not support   *)
(* it together with the liveness property of that run.                     *)
(***************************************************************************)
EXTENDS CheckQueue
=============================================================================
