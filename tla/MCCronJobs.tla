----------------------------- MODULE MCCronJobs -----------------------------
(***************************************************************************)
(* Instances of CronJobs for TLC.                                          *)
(***************************************************************************)
EXTENDS CronJobs, TLC

\* Requests are interchangeable, and so are runs; sound for safety properties.
MCSymmetry == Permutations(Requests) \union Permutations(Runs)

=============================================================================
