------------------------------- MODULE MCFiles -------------------------------
(* What is kept in the two files that processes share: FundStore with two  *)
(* threads on one fund, FundRoster with three agents and three wallets in  *)
(* the fund's list, and StreamSupervisor.  They share no state here (an    *)
(* operation on the list is one update of the file), so a behaviour is     *)
(* about one of them and leaves the others at their start, where fairness  *)
(* asks nothing of them.                                                   *)
EXTENDS FundStore, FundRoster, StreamSupervisor

CONSTANTS p1, p2

VARIABLE part       \* "fund", "agents" or "stream": what this behaviour is about

FilesInit ==
    /\ part \in {"fund", "agents", "stream"}
    /\ Init
    /\ RosterInit
    /\ SupervisorInit /\ (part # "stream" => ~yields)

FilesNext ==
    \/ part = "fund" /\ Next /\ UNCHANGED <<part, agents, supervisor>>
    \/ part = "agents" /\ RosterNext /\ UNCHANGED <<part, vars, supervisor>>
    \/ part = "stream" /\ SupervisorNext /\ UNCHANGED <<part, vars, agents>>

FilesSpec ==
    /\ FilesInit /\ [][FilesNext]_<<part, vars, agents, supervisor>>
    /\ CallsFair /\ TaskFairness
=============================================================================
