-------------------------- MODULE MCProvisionJobs --------------------------
(***************************************************************************)
(* Instances of ProvisionJobs for TLC.  The clock counts the ages that are *)
(* passed, in their order: the consent's (55 minutes), then account        *)
(* creation's (90), role assumption's (120) and the deploy's (180).        *)
(***************************************************************************)
EXTENDS ProvisionJobs, TLC

WorkerSymmetry == Permutations(Workers)
=============================================================================
