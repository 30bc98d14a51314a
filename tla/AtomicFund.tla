----------------------------- MODULE AtomicFund -----------------------------
(***************************************************************************)
(* What FundStateBackend promises (the protocol class of fund/store.py):   *)
(* creating, updating and loading a fund are single indivisible steps on   *)
(* one state.  FundCoordination is written on top of this promise;         *)
(* FundStore shows that files and locks keep it.                           *)
(***************************************************************************)
EXTENDS Naturals

CONSTANT Procs          \* threads and processes that use the backend

VARIABLES
    state,              \* the stored fund; revision 0: there is none yet
    seen                \* seen[p]: the revision p last got from load()

\* What matters of a FundState: its revision and, per caller, how many of its
\* successful mutations the state reflects.
FundStates == [revision : Nat, done : [Procs -> Nat]]

NoFund == [revision |-> 0, done |-> [p \in Procs |-> 0]]

exists(s) == s.revision > 0

\* The state after one more mutation by p.
mutated(s, p) == [revision |-> s.revision + 1,
                  done |-> [s.done EXCEPT ![p] = @ + 1]]

created == [NoFund EXCEPT !.revision = 1]

AInit == state = NoFund /\ seen = [p \in Procs |-> 0]

Create == ~exists(state) /\ state' = created /\ UNCHANGED seen

Update(p) == exists(state) /\ state' = mutated(state, p) /\ UNCHANGED seen

Load(p) == exists(state) /\ seen' = [seen EXCEPT ![p] = state.revision] /\ UNCHANGED state

ANext == Create \/ \E p \in Procs : Update(p) \/ Load(p)

ASpec == AInit /\ [][ANext]_<<state, seen>>

=============================================================================
