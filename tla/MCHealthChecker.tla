-------------------------- MODULE MCHealthChecker --------------------------
(***************************************************************************)
(* HealthChecker with buckets of two samples and chunks of two buckets.    *)
(* Retention is one bucket and a half, so a clean-up can cut a bucket in   *)
(* two; the clock runs over several buckets; requests fail and the process *)
(* stops in the middle of any of its steps.                                *)
(***************************************************************************)
EXTENDS HealthChecker
=============================================================================
