---------------------------- MODULE MCUpdateJobs ----------------------------
(***************************************************************************)
(* Instances of UpdateJobs for TLC.  One time unit stands for about two    *)
(* minutes.  Only the order of the durations is kept: the function timeout *)
(* and the claim age are shortest, then the lease, the missing-runner and  *)
(* deploy ages, then the life of an idempotency token.                     *)
(***************************************************************************)
EXTENDS UpdateJobs, TLC

WorkerSymmetry == Permutations(Workers)
=============================================================================
