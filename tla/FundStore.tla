------------------------------ MODULE FundStore ------------------------------
(***************************************************************************)
(* LocalJsonBackend of fund/store.py: one JSON file per fund, shared by    *)
(* every Hermes process of the machine.  A call opens the lock file, polls *)
(* flock without blocking until it gets it or times out, reads, mutates,   *)
(* writes a temporary file, renames it over the fund's file and unlocks.   *)
(*                                                                         *)
(* Every handle is opened per call, so flock also excludes the threads of  *)
(* one process from each other: a member of Procs is a thread.  flock and  *)
(* the rename are the operating system's (external).  A process may die at *)
(* any point: its locks go with it (its temporary file is never read).    *)
(***************************************************************************)
EXTENDS Naturals

CONSTANTS Procs,
          MaxRevision       \* bound: a mutation beyond it is refused

ASSUME MaxRevisionAssumption == MaxRevision \in Nat

VARIABLES
    stored,     \* what the fund's path holds; revision 0: no file
    lock,       \* lock[p]: how p's handle holds the lock file
    pc,         \* where p's call is
    op,         \* which call p makes
    mem,        \* the FundState p has in memory
    ok,         \* p's call will return instead of raising
    seen,       \* seen[p]: the revision p's last load() returned
    acked       \* history: update() calls of p that returned

vars == <<stored, lock, pc, op, mem, ok, seen, acked>>

Fund == INSTANCE AtomicFund WITH state <- stored

Calls == {"load", "create", "update"}

Init ==
    /\ stored = Fund!NoFund
    /\ lock = [p \in Procs |-> "none"]
    /\ pc = [p \in Procs |-> "idle"]
    /\ op = [p \in Procs |-> "load"]
    /\ mem = [p \in Procs |-> Fund!NoFund]
    /\ ok = [p \in Procs |-> FALSE]
    /\ seen = [p \in Procs |-> 0]
    /\ acked = [p \in Procs |-> 0]

\* Mutant: updates take the shared lock too.
flock_shared(o) == "SH"

\* LOCK_SH for a load, LOCK_EX for the writers.
flock_mode(o) == IF o = "load" THEN "SH" ELSE "EX"

\* flock (external): a shared lock goes with shared ones, an exclusive one is
\* alone.
grantable(p, m) ==
    \A q \in Procs \ {p} : lock[q] # "EX" /\ (m = "EX" => lock[q] = "none")

goto(p, next) == pc' = [pc EXCEPT ![p] = next]

\* The call is over: its handle is closed and its state is garbage.
leave(p) ==
    /\ lock' = [lock EXCEPT ![p] = "none"]
    /\ mem' = [mem EXCEPT ![p] = Fund!NoFund]
    /\ ok' = [ok EXCEPT ![p] = FALSE]
    /\ op' = [op EXCEPT ![p] = "load"]
    /\ goto(p, "idle")

\* load, create and update all start by waiting for the lock.
Begin(p, o) ==
    /\ pc[p] = "idle"
    /\ op' = [op EXCEPT ![p] = o]
    /\ goto(p, "waiting")
    /\ UNCHANGED <<stored, lock, mem, ok, seen, acked>>

\* One successful poll of _locked.
Acquire(p) ==
    /\ pc[p] = "waiting"
    /\ grantable(p, flock_mode(op[p]))
    /\ lock' = [lock EXCEPT ![p] = flock_mode(op[p])]
    /\ goto(p, "locked")
    /\ UNCHANGED <<stored, op, mem, ok, seen, acked>>

\* Mutant: the poll has no deadline.
TimeoutNever(p) == pc[p] = "never" /\ UNCHANGED vars

\* The poll that finds the lock taken after the deadline raises LockTimeout.
Timeout(p) ==
    /\ pc[p] = "waiting"
    /\ ~grantable(p, flock_mode(op[p]))
    /\ leave(p)
    /\ UNCHANGED <<stored, seen, acked>>

\* _read under the lock; FundNotFound and FundExists leave through the unlock.
Read(p) ==
    /\ pc[p] = "locked"
    /\ IF (op[p] = "create") = Fund!exists(stored)
       THEN goto(p, "release") /\ UNCHANGED <<mem, seen, ok>>
       ELSE /\ mem' = [mem EXCEPT ![p] = stored]
            /\ seen' = IF op[p] = "load" THEN [seen EXCEPT ![p] = stored.revision] ELSE seen
            /\ ok' = [ok EXCEPT ![p] = op[p] = "load"]
            /\ goto(p, IF op[p] = "load" THEN "release" ELSE "mutate")
    /\ UNCHANGED <<stored, lock, op, acked>>

\* mutate(state) and the revision bump, or the new fund of create().
Mutate(p) ==
    /\ pc[p] = "mutate"
    /\ mem[p].revision < MaxRevision
    /\ mem' = [mem EXCEPT ![p] = IF op[p] = "create" THEN Fund!created
                                 ELSE Fund!mutated(mem[p], p)]
    /\ goto(p, "write")
    /\ UNCHANGED <<stored, lock, op, ok, seen, acked>>

\* Mutant: a mutate that raised half-way is saved all the same.
RefuseSaves(p) ==
    /\ pc[p] = "mutate" /\ op[p] = "update"
    /\ stored' = [mem[p] EXCEPT !.done[p] = @ + 1]
    /\ stored'.done[p] <= MaxRevision
    /\ goto(p, "release")
    /\ UNCHANGED <<lock, op, mem, ok, seen, acked>>

\* mutate raises (RuleViolation): nothing is written.
Refuse(p) ==
    /\ pc[p] = "mutate" /\ op[p] = "update"
    /\ goto(p, "release")
    /\ UNCHANGED <<stored, lock, op, mem, ok, seen, acked>>

\* The rename: the only step that changes what others read.
Replace(p) ==
    /\ pc[p] = "write"
    /\ stored' = mem[p]
    /\ ok' = [ok EXCEPT ![p] = TRUE]
    /\ goto(p, "release")
    /\ UNCHANGED <<lock, op, mem, seen, acked>>

\* The temporary file cannot be written or renamed (disk full): it is unlinked
\* and the error propagates.
WriteFails(p) ==
    /\ pc[p] = "write"
    /\ goto(p, "release")
    /\ UNCHANGED <<stored, lock, op, mem, ok, seen, acked>>

\* LOCK_UN and close, then the call returns or raises.
Release(p) ==
    /\ pc[p] = "release"
    /\ acked' = IF ok[p] /\ op[p] = "update" THEN [acked EXCEPT ![p] = @ + 1] ELSE acked
    /\ leave(p)
    /\ UNCHANGED <<stored, seen>>

\* The process dies and is started again; the kernel drops its lock.
Crash(p) ==
    /\ pc[p] # "idle"
    /\ leave(p)
    /\ UNCHANGED <<stored, seen, acked>>

Step(p) ==
    \/ Acquire(p) \/ Timeout(p) \/ Read(p) \/ Mutate(p) \/ Refuse(p)
    \/ Replace(p) \/ WriteFails(p) \/ Release(p)

Next == \E p \in Procs : Step(p) \/ Crash(p) \/ \E o \in Calls : Begin(p, o)

Spec == Init /\ [][Next]_vars

\* A thread inside a call keeps running: the lock is polled every 20 ms, and
\* mutate and the file operations end.
CallsFair == \A p \in Procs : WF_vars(Step(p))

-----------------------------------------------------------------------------
TypeOK ==
    /\ stored \in Fund!FundStates
    /\ lock \in [Procs -> {"none", "SH", "EX"}]
    /\ pc \in [Procs -> {"idle", "waiting", "locked", "mutate", "write", "release"}]
    /\ op \in [Procs -> Calls]
    /\ mem \in [Procs -> Fund!FundStates]
    /\ ok \in [Procs -> BOOLEAN]
    /\ seen \in [Procs -> Nat]
    /\ acked \in [Procs -> Nat]

\* An update() that returned is in the file for good: no later update, refused,
\* failed or killed half-way, writes a state that was read before it.
AckedIsStored == \A p \in Procs : acked[p] <= stored.done[p]

\* load() never goes back: whoever reads, reads what it read before or newer.
ReadsMoveForward == [][\A p \in Procs : seen'[p] >= seen[p]]_vars

\* The backend keeps its protocol's promise: seen from outside, creates,
\* updates and loads happen one at a time.
Atomic == Fund!ASpec

\* Every call ends, with a result or with an exception, even if the lock's
\* holder dies or readers keep it busy.
EveryCallEnds == \A p \in Procs : pc[p] = "waiting" ~> pc[p] = "idle"

=============================================================================
