------------------------- MODULE MCSchedulerClient -------------------------
(***************************************************************************)
(* SchedulerClient for TLC: two threads serve the queue, as the class      *)
(* allows, and the callers' callbacks and the clock are bounded by         *)
(* scheduler.cfg.                                                          *)
(***************************************************************************)
EXTENDS SchedulerClient
=============================================================================
