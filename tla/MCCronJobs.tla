----------------------------- MODULE MCCronJobs -----------------------------
(* Instance of CronJobs for TLC; the constants are in the cfg file. *)
EXTENDS CronJobs, TLC

\* Tool calls, and funds, are interchangeable in the properties.
Interchangeable == Permutations(Tools) \cup Permutations(Funds)
=============================================================================
