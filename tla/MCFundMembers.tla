---------------------------- MODULE MCFundMembers ----------------------------
(* Instance of FundMembers for TLC; the constants are in the cfg file. *)
EXTENDS FundMembers, TLC

\* Wallets, hosts and threads are interchangeable in the invariants of the run.
Interchangeable == Permutations(Wallets) \cup Permutations(Hosts) \cup Permutations(Approvers)
=============================================================================
