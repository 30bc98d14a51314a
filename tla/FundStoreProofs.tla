--------------------------- MODULE FundStoreProofs ---------------------------
(***************************************************************************)
(* The two refinements FundCoordination rests on.  LocalJsonBackend        *)
(* (FundStore) implements the atomic backend, for every number of threads  *)
(* and revisions: what makes one-step updates sound.  The list of agent    *)
(* records (FundRoster) implements AgentRoles, for any names and wallets:  *)
(* what makes a role per name sound.                                       *)
(***************************************************************************)
EXTENDS FundStore, FundRoster, WellFoundedInduction, TLAPS

\* The lock is held exactly between Acquire and the end of the call, in the
\* mode of the call, and an exclusive holder is alone.
LockInv ==
    /\ \A p \in Procs :
         lock[p] = IF pc[p] \in {"idle", "waiting"} THEN "none" ELSE flock_mode(op[p])
    /\ \A p, q \in Procs : p # q /\ lock[p] = "EX" => lock[q] = "none"

\* A writer's memory is the file as it still is, or one mutation ahead of it.
MemInv ==
    \A p \in Procs :
        /\ pc[p] \in {"mutate", "write"} =>
             \/ op[p] = "create" /\ ~Fund!exists(stored)
             \/ op[p] = "update" /\ Fund!exists(stored)
        /\ pc[p] = "mutate" => mem[p] = stored
        /\ pc[p] = "write" => mem[p] = IF op[p] = "create" THEN Fund!created
                                       ELSE Fund!mutated(stored, p)

\* A call is bound to return only once it is on its way out.
OkInv == \A p \in Procs : ok[p] => pc[p] = "release"

\* An update that will return is in the file before its caller knows.
AckInv ==
    \A p \in Procs :
        acked[p] + (IF pc[p] = "release" /\ ok[p] /\ op[p] = "update" THEN 1 ELSE 0)
            <= stored.done[p]

SeenInv == \A p \in Procs : seen[p] <= stored.revision

StoreInv == TypeOK /\ LockInv /\ MemInv /\ OkInv /\ AckInv /\ SeenInv

-----------------------------------------------------------------------------
LEMMA StateFacts ==
    /\ Fund!NoFund \in Fund!FundStates /\ Fund!created \in Fund!FundStates
    /\ \A s \in Fund!FundStates, p \in Procs :
         /\ Fund!mutated(s, p) \in Fund!FundStates
         /\ Fund!mutated(s, p).revision = s.revision + 1
         /\ \A q \in Procs : Fund!mutated(s, p).done[q] =
                                IF q = p THEN s.done[q] + 1 ELSE s.done[q]
    /\ Fund!created.revision = 1 /\ Fund!created.done = [p \in Procs |-> 0]
    /\ Fund!NoFund.revision = 0 /\ Fund!NoFund.done = [p \in Procs |-> 0]
BY DEF Fund!NoFund, Fund!created, Fund!mutated, Fund!FundStates

LEMMA InitStore == Init => StoreInv
<1> SUFFICES ASSUME Init PROVE StoreInv
    OBVIOUS
<1>1. TypeOK
    <2>1. ok \in [Procs -> BOOLEAN]
        BY DEF Init
    <2>2. QED
        BY <2>1, StateFacts DEF Init, TypeOK, Calls
<1>2. LockInv /\ MemInv
    BY DEF Init, LockInv, MemInv
<1>3. OkInv /\ AckInv /\ SeenInv
    BY StateFacts DEF Init, OkInv, AckInv, SeenInv
<1>4. QED
    BY <1>1, <1>2, <1>3 DEF StoreInv

LEMMA NextTypeStore == ASSUME StoreInv, Next PROVE TypeOK'
<1> USE DEF StoreInv, goto
<1>1. ASSUME NEW p \in Procs, leave(p), stored' = stored, seen' = seen,
             acked' \in [Procs -> Nat]
      PROVE  TypeOK'
    BY <1>1, StateFacts DEF leave, TypeOK, Calls
<1>2. ASSUME NEW p \in Procs, NEW o \in Calls, Begin(p, o) PROVE TypeOK'
    BY <1>2 DEF Begin, TypeOK
<1>3. ASSUME NEW p \in Procs, Acquire(p) PROVE TypeOK'
    BY <1>3 DEF Acquire, TypeOK, flock_mode
<1>4. ASSUME NEW p \in Procs, Read(p) PROVE TypeOK'
    <2>1. stored.revision \in Nat
        BY DEF TypeOK, Fund!FundStates
    <2>2. ok' \in [Procs -> BOOLEAN]
        BY <1>4 DEF Read, TypeOK
    <2>3. QED
        BY <1>4, <2>1, <2>2 DEF Read, TypeOK
<1>5. ASSUME NEW p \in Procs, Mutate(p) PROVE TypeOK'
    BY <1>5, StateFacts DEF Mutate, TypeOK
<1>6. ASSUME NEW p \in Procs, Refuse(p) \/ WriteFails(p) PROVE TypeOK'
    BY <1>6 DEF Refuse, WriteFails, TypeOK
<1>7. ASSUME NEW p \in Procs, Replace(p) PROVE TypeOK'
    <2>1. ok' \in [Procs -> BOOLEAN]
        BY <1>7 DEF Replace, TypeOK
    <2>2. QED
        BY <1>7, <2>1 DEF Replace, TypeOK
<1>8. ASSUME NEW p \in Procs, Release(p) PROVE TypeOK'
    BY <1>1, <1>8 DEF Release, TypeOK
<1>9. ASSUME NEW p \in Procs, Timeout(p) \/ Crash(p) PROVE TypeOK'
    BY <1>1, <1>9 DEF Timeout, Crash, TypeOK
<1>10. QED
    BY <1>2, <1>3, <1>4, <1>5, <1>6, <1>7, <1>8, <1>9 DEF Next, Step

LEMMA NextLock == ASSUME StoreInv, Next PROVE LockInv'
<1> USE DEF StoreInv, goto
<1>1. ASSUME NEW p \in Procs, leave(p) PROVE LockInv'
    BY <1>1 DEF leave, TypeOK, LockInv
<1>2. ASSUME NEW p \in Procs, NEW o \in Calls, Begin(p, o) PROVE LockInv'
    BY <1>2 DEF Begin, TypeOK, LockInv
<1>3. ASSUME NEW p \in Procs, Acquire(p) PROVE LockInv'
    BY <1>3 DEF Acquire, grantable, flock_mode, TypeOK, LockInv, Calls
<1>4. ASSUME NEW p \in Procs,
             Read(p) \/ Mutate(p) \/ Refuse(p) \/ Replace(p) \/ WriteFails(p)
      PROVE  LockInv'
    <2>1. /\ UNCHANGED <<lock, op>>
          /\ pc[p] \in {"locked", "mutate", "write"}
          /\ \E next \in {"mutate", "write", "release"} : pc' = [pc EXCEPT ![p] = next]
        BY <1>4 DEF Read, Mutate, Refuse, Replace, WriteFails
    <2>2. QED
        BY <2>1 DEF TypeOK, LockInv
<1>5. QED
    BY <1>1, <1>2, <1>3, <1>4 DEF Next, Step, Timeout, Release, Crash

\* While a thread is about to write, nobody else is: the file changes under no
\* writer's feet.
LEMMA SoleWriter ==
    ASSUME StoreInv, NEW p \in Procs, NEW q \in Procs, p # q, pc[p] = "write"
    PROVE  pc[q] \notin {"mutate", "write", "release", "locked"}
<1>1. op[p] # "load"
    BY DEF StoreInv, MemInv
<1>2. lock[p] = "EX"
    BY <1>1 DEF StoreInv, LockInv, flock_mode
<1>3. lock[q] = "none"
    BY <1>2 DEF StoreInv, LockInv
<1>4. QED
    BY <1>3 DEF StoreInv, LockInv, flock_mode

LEMMA NextOk == ASSUME StoreInv, Next PROVE OkInv'
<1> USE DEF StoreInv, goto, OkInv
<1>1. ASSUME NEW p \in Procs, Read(p) \/ Mutate(p) \/ Refuse(p) \/ Replace(p) \/ WriteFails(p)
      PROVE  OkInv'
    BY <1>1 DEF Read, Mutate, Refuse, Replace, WriteFails, TypeOK
<1>2. ASSUME NEW p \in Procs, Timeout(p) \/ Release(p) \/ Crash(p) PROVE OkInv'
    BY <1>2 DEF Timeout, Release, Crash, leave, TypeOK
<1>3. ASSUME NEW p \in Procs, Acquire(p) \/ \E o \in Calls : Begin(p, o) PROVE OkInv'
    BY <1>3 DEF Acquire, Begin, TypeOK
<1>4. QED
    BY <1>1, <1>2, <1>3 DEF Next, Step

LEMMA NextMem == ASSUME StoreInv, Next PROVE MemInv'
<1> USE DEF StoreInv, goto
\* A step that keeps the file and leaves p outside its critical section.
<1>1. ASSUME NEW p \in Procs, UNCHANGED stored,
             \A q \in Procs \ {p} : /\ pc'[q] = pc[q] /\ op'[q] = op[q] /\ mem'[q] = mem[q],
             pc'[p] \notin {"mutate", "write"}
      PROVE  MemInv'
    BY <1>1 DEF MemInv
<1>2. ASSUME NEW p \in Procs, leave(p), UNCHANGED stored PROVE MemInv'
    BY <1>1, <1>2 DEF leave, TypeOK
<1>3. ASSUME NEW p \in Procs, NEW o \in Calls, Begin(p, o) PROVE MemInv'
    BY <1>1, <1>3 DEF Begin, TypeOK
<1>4. ASSUME NEW p \in Procs, Acquire(p) PROVE MemInv'
    BY <1>1, <1>4 DEF Acquire, TypeOK
<1>5. ASSUME NEW p \in Procs, Read(p) PROVE MemInv'
    <2>1. CASE pc'[p] = "release"
        BY <1>1, <1>5, <2>1 DEF Read, TypeOK
    <2>2. CASE pc'[p] # "release"
        <3>1. ~((op[p] = "create") = Fund!exists(stored))
            BY <1>5, <2>2 DEF Read, TypeOK
        <3>2. /\ op[p] # "load" /\ pc' = [pc EXCEPT ![p] = "mutate"]
              /\ mem' = [mem EXCEPT ![p] = stored] /\ UNCHANGED <<op, stored>>
            BY <1>5, <2>2, <3>1 DEF Read, TypeOK
        <3>3. op[p] = "create" \/ op[p] = "update"
            BY <3>2 DEF TypeOK, Calls
        <3>4. \/ op[p] = "create" /\ ~Fund!exists(stored)
              \/ op[p] = "update" /\ Fund!exists(stored)
            BY <3>1, <3>3 DEF Fund!exists
        <3>5. QED
            BY <3>2, <3>4 DEF MemInv, TypeOK
    <2>3. QED
        BY <2>1, <2>2
<1>6. ASSUME NEW p \in Procs, Mutate(p) PROVE MemInv'
    <2>1. /\ pc[p] = "mutate" /\ pc' = [pc EXCEPT ![p] = "write"]
          /\ UNCHANGED <<op, stored>>
          /\ mem' = [mem EXCEPT ![p] = IF op[p] = "create" THEN Fund!created
                                       ELSE Fund!mutated(mem[p], p)]
        BY <1>6 DEF Mutate
    <2>2. mem[p] = stored
        BY <2>1 DEF MemInv
    <2>3. QED
        BY <2>1, <2>2 DEF MemInv, TypeOK
<1>7. ASSUME NEW p \in Procs, Refuse(p) \/ WriteFails(p) PROVE MemInv'
    BY <1>1, <1>7 DEF Refuse, WriteFails, TypeOK
<1>8. ASSUME NEW p \in Procs, Replace(p) PROVE MemInv'
    <2>1. pc' = [pc EXCEPT ![p] = "release"] /\ pc[p] = "write"
        BY <1>8 DEF Replace
    <2>2. \A q \in Procs : pc'[q] \notin {"mutate", "write"}
        BY <2>1, SoleWriter DEF TypeOK
    <2>3. QED
        BY <2>2 DEF MemInv
<1>9. QED
    BY <1>2, <1>3, <1>4, <1>5, <1>6, <1>7, <1>8 DEF Next, Step, Timeout, Release, Crash

LEMMA ReplaceEffect ==
    ASSUME StoreInv, NEW p \in Procs, Replace(p)
    PROVE  \/ op[p] = "create" /\ ~Fund!exists(stored) /\ stored' = Fund!created
           \/ op[p] = "update" /\ Fund!exists(stored) /\ stored' = Fund!mutated(stored, p)
BY DEF Replace, StoreInv, MemInv

LEMMA NoFundIsEmpty ==
    ASSUME StoreInv, ~Fund!exists(stored)
    PROVE  stored.revision = 0
BY DEF StoreInv, TypeOK, Fund!exists, Fund!FundStates

\* Before the fund exists no update can have been applied.
EmptyInv == ~Fund!exists(stored) => stored.done = [p \in Procs |-> 0]

LEMMA NextEmpty == ASSUME StoreInv, EmptyInv, Next PROVE EmptyInv'
<1>1. ASSUME NEW p \in Procs, Replace(p) PROVE EmptyInv'
    <2>1. stored \in Fund!FundStates /\ stored.revision \in Nat
        BY DEF StoreInv, TypeOK, Fund!FundStates
    <2>2. stored'.revision > 0
        BY <1>1, <2>1, ReplaceEffect, StateFacts
    <2>3. QED
        BY <2>2 DEF EmptyInv, Fund!exists
<1>2. CASE UNCHANGED stored
    BY <1>2 DEF EmptyInv, Fund!exists
<1>3. QED
    BY <1>1, <1>2 DEF Next, Step, Begin, Acquire, Timeout, Read, Mutate, Refuse,
        WriteFails, Release, Crash

\* A rename never takes back what any thread has stored.
LEMMA ReplaceGrows ==
    ASSUME StoreInv, EmptyInv, NEW p \in Procs, Replace(p)
    PROVE  /\ \A q \in Procs : stored'.done[q] >= stored.done[q]
           /\ op[p] = "update" => stored'.done[p] = stored.done[p] + 1
           /\ stored'.revision >= stored.revision
<1>1. /\ stored \in Fund!FundStates
      /\ stored.revision \in Nat /\ \A q \in Procs : stored.done[q] \in Nat
    BY DEF StoreInv, TypeOK, Fund!FundStates
<1>2. CASE op[p] = "create"
    <2>1. stored' = Fund!created /\ stored.revision = 0 /\ stored.done = [q \in Procs |-> 0]
        BY <1>2, ReplaceEffect, NoFundIsEmpty DEF EmptyInv
    <2>2. QED
        BY <1>2, <2>1, StateFacts
<1>3. CASE op[p] = "update"
    <2>1. stored' = Fund!mutated(stored, p)
        BY <1>3, ReplaceEffect
    <2>2. QED
        BY <1>1, <2>1, StateFacts
<1>4. QED
    BY <1>2, <1>3, ReplaceEffect

LEMMA NextAck == ASSUME StoreInv, EmptyInv, Next PROVE AckInv'
<1> DEFINE due(p) == IF pc[p] = "release" /\ ok[p] /\ op[p] = "update" THEN 1 ELSE 0
<1> USE DEF StoreInv
<1>1. \A p \in Procs : acked[p] \in Nat /\ acked'[p] \in Nat /\ stored.done[p] \in Nat
    BY NextTypeStore DEF TypeOK, Fund!FundStates
<1>2. ASSUME UNCHANGED stored,
             \A q \in Procs : acked'[q] + due(q)' <= acked[q] + due(q)
      PROVE  AckInv'
    BY <1>1, <1>2 DEF AckInv
<1>3. ASSUME NEW p \in Procs, Replace(p) PROVE AckInv'
    <2>1. /\ \A q \in Procs : stored'.done[q] >= stored.done[q]
          /\ op[p] = "update" => stored'.done[p] = stored.done[p] + 1
        BY <1>3, ReplaceGrows
    <2>2. /\ UNCHANGED <<op, acked>> /\ pc[p] = "write"
          /\ pc' = [pc EXCEPT ![p] = "release"] /\ ok' = [ok EXCEPT ![p] = TRUE]
        BY <1>3 DEF Replace, goto
    <2>3. \A q \in Procs : stored'.done[q] \in Nat
        BY <1>3 DEF Replace, TypeOK, Fund!FundStates
    <2>4. ASSUME NEW q \in Procs PROVE acked'[q] + due(q)' <= stored'.done[q]
        <3>1. CASE q = p
            BY <1>1, <2>1, <2>2, <2>3, <3>1 DEF AckInv, TypeOK
        <3>2. CASE q # p
            BY <1>1, <2>1, <2>2, <2>3, <3>2 DEF AckInv, TypeOK
        <3>3. QED
            BY <3>1, <3>2
    <2>5. QED
        BY <2>4 DEF AckInv
<1>4. ASSUME NEW p \in Procs, Release(p) PROVE AckInv'
    <2>1. /\ pc[p] = "release" /\ pc' = [pc EXCEPT ![p] = "idle"]
          /\ acked' = IF ok[p] /\ op[p] = "update" THEN [acked EXCEPT ![p] = @ + 1] ELSE acked
          /\ ok' = [ok EXCEPT ![p] = FALSE] /\ op' = [op EXCEPT ![p] = "load"]
          /\ UNCHANGED stored
        BY <1>4 DEF Release, leave, goto
    <2>2. ASSUME NEW q \in Procs PROVE acked'[q] + due(q)' <= acked[q] + due(q)
        <3>1. CASE q = p
            BY <1>1, <2>1, <3>1 DEF TypeOK
        <3>2. CASE q # p
            BY <1>1, <2>1, <3>2 DEF TypeOK
        <3>3. QED
            BY <3>1, <3>2
    <2>3. QED
        BY <1>2, <2>1, <2>2
<1>5. ASSUME NEW p \in Procs, UNCHANGED <<stored, acked>>,
             \A q \in Procs \ {p} : pc'[q] = pc[q] /\ ok'[q] = ok[q] /\ op'[q] = op[q],
             pc'[p] # "release" \/ ~ok'[p] \/ op'[p] # "update"
      PROVE  AckInv'
    BY <1>1, <1>2, <1>5
<1>6. ASSUME NEW p \in Procs, Timeout(p) \/ Crash(p) PROVE AckInv'
    BY <1>5, <1>6 DEF Timeout, Crash, leave, goto, TypeOK
<1>7. ASSUME NEW p \in Procs, Acquire(p) \/ Mutate(p) \/ \E o \in Calls : Begin(p, o)
      PROVE  AckInv'
    BY <1>5, <1>7 DEF Acquire, Mutate, Begin, goto, TypeOK
<1>8. ASSUME NEW p \in Procs, Read(p) \/ Refuse(p) \/ WriteFails(p) PROVE AckInv'
    BY <1>5, <1>8 DEF Read, Refuse, WriteFails, goto, TypeOK, OkInv
<1>9. QED
    BY <1>3, <1>4, <1>6, <1>7, <1>8 DEF Next, Step

LEMMA NextSeen ==
    ASSUME StoreInv, EmptyInv, Next
    PROVE  SeenInv' /\ \A p \in Procs : seen'[p] >= seen[p]
<1> USE DEF StoreInv
<1>1. stored.revision \in Nat /\ \A p \in Procs : seen[p] \in Nat
    BY DEF TypeOK, Fund!FundStates
<1>2. CASE UNCHANGED <<stored, seen>>
    BY <1>1, <1>2 DEF SeenInv
<1>3. ASSUME NEW p \in Procs, Replace(p)
      PROVE  SeenInv' /\ \A q \in Procs : seen'[q] >= seen[q]
    <2>1. stored'.revision >= stored.revision /\ UNCHANGED seen
        BY <1>3, ReplaceGrows DEF Replace
    <2>2. stored'.revision \in Nat
        BY <1>3 DEF Replace, TypeOK, Fund!FundStates
    <2>3. QED
        BY <1>1, <2>1, <2>2 DEF SeenInv
<1>4. ASSUME NEW p \in Procs, Read(p)
      PROVE  SeenInv' /\ \A q \in Procs : seen'[q] >= seen[q]
    <2>1. seen' \in {seen, [seen EXCEPT ![p] = stored.revision]} /\ UNCHANGED stored
        BY <1>4 DEF Read
    <2>2. QED
        BY <1>1, <2>1 DEF SeenInv, TypeOK
<1>5. QED
    BY <1>2, <1>3, <1>4 DEF Next, Step, Begin, Acquire, Timeout, Mutate, Refuse,
        WriteFails, Release, Crash

LEMMA NextStore == StoreInv /\ EmptyInv /\ [Next]_vars => (StoreInv /\ EmptyInv)'
<1>1. ASSUME StoreInv, EmptyInv, Next PROVE (StoreInv /\ EmptyInv)'
    BY <1>1, NextTypeStore, NextLock, NextOk, NextMem, NextAck, NextSeen, NextEmpty DEF StoreInv
<1>2. ASSUME StoreInv, EmptyInv, UNCHANGED vars PROVE (StoreInv /\ EmptyInv)'
    BY <1>2 DEF vars, StoreInv, EmptyInv, TypeOK, LockInv, MemInv, OkInv, AckInv, SeenInv,
        Fund!exists
<1>3. QED
    BY <1>1, <1>2

LEMMA StoreInvariance == Spec => [](StoreInv /\ EmptyInv)
<1>1. Init => EmptyInv
    BY StateFacts DEF Init, EmptyInv
<1>2. QED
    BY <1>1, InitStore, NextStore, PTL DEF Spec

\* No thread, dying or not, can make another one lose an update that returned.
THEOREM NoLostUpdate == Spec => []AckedIsStored
<1>1. StoreInv => AckedIsStored
    <2> SUFFICES ASSUME StoreInv, NEW p \in Procs PROVE acked[p] <= stored.done[p]
        BY DEF AckedIsStored
    <2>1. acked[p] \in Nat /\ stored.done[p] \in Nat
        BY DEF StoreInv, TypeOK, Fund!FundStates
    <2>2. QED
        BY <2>1 DEF StoreInv, AckInv
<1>2. QED
    BY <1>1, StoreInvariance, PTL

\* load() under the shared lock never returns an older revision than before.
THEOREM ReadsAreMonotone == Spec => ReadsMoveForward
<1>1. StoreInv /\ EmptyInv /\ [Next]_vars => [\A p \in Procs : seen'[p] >= seen[p]]_vars
    BY NextSeen
<1>2. QED
    BY <1>1, StoreInvariance, PTL DEF Spec, ReadsMoveForward

\* LocalJsonBackend keeps FundStateBackend's promise: the rename is where a
\* create or an update happens, the read under the lock is where a load does.
THEOREM StoreIsAtomic == Spec => Atomic
<1>1. Init => Fund!AInit
    BY DEF Init, Fund!AInit
<1>2. ASSUME StoreInv, Next PROVE Fund!ANext \/ UNCHANGED <<stored, seen>>
    <2>1. ASSUME NEW p \in Procs, Replace(p) PROVE Fund!ANext
        BY <1>2, <2>1, ReplaceEffect
        DEF Fund!ANext, Fund!Create, Fund!Update, Replace
    <2>2. ASSUME NEW p \in Procs, Read(p) PROVE Fund!ANext \/ UNCHANGED <<stored, seen>>
        <3>1. CASE op[p] = "load" /\ Fund!exists(stored)
            BY <2>2, <3>1 DEF Read, Fund!ANext, Fund!Load
        <3>2. CASE ~(op[p] = "load" /\ Fund!exists(stored))
            <4>1. CASE op[p] = "load"
                BY <2>2, <3>2, <4>1 DEF Read, Fund!exists
            <4>2. CASE op[p] # "load"
                BY <2>2, <4>2 DEF Read
            <4>3. QED
                BY <4>1, <4>2
        <3>3. QED
            BY <3>1, <3>2
    <2>3. QED
        BY <1>2, <2>1, <2>2 DEF Next, Step, Begin, Acquire, Timeout, Mutate, Refuse,
            WriteFails, Release, Crash
<1>3. StoreInv /\ [Next]_vars => [Fund!ANext]_<<stored, seen>>
    BY <1>2 DEF vars
<1>4. QED
    BY <1>1, <1>3, StoreInvariance, PTL DEF Spec, Atomic, Fund!ASpec

-----------------------------------------------------------------------------
(* The roster: the list of records implements a role per name.             *)

LEMMA Least ==
    ASSUME NEW S, S \subseteq Nat, S # {}
    PROVE  \E i \in S : \A j \in S : i <= j
<1> DEFINE R == OpToRel(<, Nat)
<1>1. \E i \in S : \A j \in S : ~(<<j, i>> \in R)
  BY NatLessThanWellFounded, WFMin
<1>2. \A i, j \in Nat : j < i => <<j, i>> \in R
  BY DEF OpToRel
<1> HIDE DEF R
<1>3. PICK i \in S : \A j \in S : ~(<<j, i>> \in R)
  BY <1>1
<1>4. \A j \in S : i \in Nat /\ j \in Nat /\ ~(j < i)
  BY <1>2, <1>3, Zenon
<1>5. \A j \in S : i <= j
  BY <1>4
<1> QED BY <1>5

Distinct(s) == \A i, j \in DOMAIN s : s[i].name = s[j].name => i = j

\* The host's record, and only that one, has the host's role; it is registered for good.
Hosted(s) ==
    /\ \A i \in DOMAIN s : s[i].role = "host" <=> s[i].name = Host
    /\ \E i \in DOMAIN s : s[i].name = Host /\ s[i].registered /\ ~s[i].removed

Listed == agents \in Seq(Agent) /\ Distinct(agents)

RosterInv == Listed /\ Hosted(agents)

flags(r) ==
    IF r.removed THEN "removed" ELSE IF r.registered THEN "registered"
    ELSE IF r.approved THEN "approved" ELSE "requested"

\* The lookups and the roles, of any list of records.
found(s, name) == SelectInSeq(s, LAMBDA r : r.name = name)

role_in(s, name) ==
    IF found(s, name) = 0 THEN "absent" ELSE flags(s[found(s, name)])

roles_in(s) == [name \in Agents |-> role_in(s, name)]

\* A record is found by its name.
LEMMA FoundByName ==
    ASSUME NEW s \in Seq(Agent), Distinct(s)
    PROVE  /\ \A i \in DOMAIN s : found(s, s[i].name) = i
           /\ \A name : found(s, name) # 0 =>
                        found(s, name) \in DOMAIN s /\ s[found(s, name)].name = name
<1>2. ASSUME NEW name
      PROVE  LET I == {i \in 1..Len(s) : s[i].name = name} IN
             found(s, name) = IF I # {} THEN Min(I) ELSE 0
  BY DEF found, SelectInSeq
<1>3. ASSUME NEW i \in DOMAIN s PROVE found(s, s[i].name) = i
  <2> DEFINE I == {j \in 1..Len(s) : s[j].name = s[i].name}
  <2>1. I = {i}
    BY DEF Distinct
  <2>2. found(s, s[i].name) = Min(I)
    BY <1>2, <2>1
  <2>3. Min({i}) = i
    BY DEF Min
  <2> QED BY <2>1, <2>2, <2>3
<1>4. ASSUME NEW name, found(s, name) # 0
      PROVE  found(s, name) \in DOMAIN s /\ s[found(s, name)].name = name
  <2>1. PICK i \in 1..Len(s) : s[i].name = name
    BY <1>2, <1>4
  <2> QED BY <1>3, <2>1
<1> QED BY <1>3, <1>4

\* The flags of the record with a name are the name's role.
LEMMA RoleIsFlags ==
    ASSUME NEW s \in Seq(Agent), Distinct(s)
    PROVE  /\ \A i \in DOMAIN s : role_in(s, s[i].name) = flags(s[i])
           /\ \A name : (\A i \in DOMAIN s : s[i].name # name) => role_in(s, name) = "absent"
<1>1. ASSUME NEW i \in DOMAIN s PROVE role_in(s, s[i].name) = flags(s[i])
  <2>1. found(s, s[i].name) = i /\ i # 0
    BY FoundByName
  <2> QED BY <2>1 DEF role_in
<1>2. ASSUME NEW name, \A i \in DOMAIN s : s[i].name # name PROVE role_in(s, name) = "absent"
  <2>1. found(s, name) = 0
    BY <1>2, FoundByName
  <2> QED BY <2>1 DEF role_in
<1> QED BY <1>1, <1>2

\* A lookup by name or wallet ends at a record, or nowhere.
LEMMA TargetListed ==
    ASSUME Listed, NEW who, target(who) # 0
    PROVE  target(who) \in DOMAIN agents
<1>1. agent(who) # 0 => agent(who) \in DOMAIN agents
  <2>1. agent(who) = found(agents, who)
    BY DEF agent, found
  <2>2. found(agents, who) # 0 => found(agents, who) \in DOMAIN agents
    BY FoundByName DEF Listed
  <2> QED BY <2>1, <2>2
<1>2. agent_by_address(who) # 0 => agent_by_address(who) \in DOMAIN agents
  <2> DEFINE I == {i \in 1..Len(agents) : agents[i].address = who}
  <2>1. agent_by_address(who) = IF I # {} THEN Min(I) ELSE 0
    BY DEF agent_by_address, SelectInSeq
  <2>2. I \subseteq Nat /\ I \subseteq DOMAIN agents
    BY DEF Listed
  <2> HIDE DEF I
  <2>3. I # {} => Min(I) \in I
    <3>1. I # {} => \E i \in I : \A j \in I : i <= j
      BY <2>2, Least
    <3> QED BY <3>1 DEF Min
  <2> QED BY <2>1, <2>2, <2>3
<1> QED BY <1>1, <1>2 DEF target

-----------------------------------------------------------------------------
\* The record of `name` becomes r, wherever in the list; every other record stays.
Replaced(s, new, name, r) ==
    /\ new \in Seq(Agent) /\ Distinct(new) /\ r.name = name
    /\ \E j \in DOMAIN new : new[j] = r
    /\ \A j \in DOMAIN new : new[j] = r \/ (new[j].name # name /\ \E k \in DOMAIN s : s[k] = new[j])
    /\ \A k \in DOMAIN s : s[k].name # name => \E j \in DOMAIN new : new[j] = s[k]

LEMMA Edited ==
    ASSUME NEW s \in Seq(Agent), Distinct(s), NEW i \in DOMAIN s, NEW r \in Agent, r.name = s[i].name
    PROVE  Replaced(s, [s EXCEPT ![i] = r], r.name, r)
<1> DEFINE new == [s EXCEPT ![i] = r]
<1>1. new \in Seq(Agent) /\ DOMAIN new = DOMAIN s /\ new[i] = r /\ \A j \in DOMAIN s \ {i} : new[j] = s[j]
  OBVIOUS
<1> HIDE DEF new
<1>2. Distinct(new)
  BY <1>1 DEF Distinct
<1>3. \A j \in DOMAIN s \ {i} : s[j].name # r.name
  BY DEF Distinct
<1>4. Replaced(s, new, r.name, r)
  BY <1>1, <1>2, <1>3 DEF Replaced
<1> QED BY <1>4 DEF new

LEMMA Added ==
    ASSUME NEW s \in Seq(Agent), Distinct(s), NEW r \in Agent, \A i \in DOMAIN s : s[i].name # r.name
    PROVE  Replaced(s, Append(s, r), r.name, r)
<1> DEFINE new == Append(s, r)
           n == Len(s)
<1>0. n \in Nat /\ DOMAIN s = 1..n
  OBVIOUS
<1>1. new \in Seq(Agent) /\ DOMAIN new = 1..(n + 1) /\ new[n + 1] = r /\ \A j \in 1..n : new[j] = s[j]
  OBVIOUS
<1> HIDE DEF new, n
<1>2. \A j \in 1..(n + 1) : j \in 1..n \/ j = n + 1
  BY <1>0
<1>3. \A j \in 1..n : j \in 1..(n + 1) /\ n + 1 \in 1..(n + 1)
  BY <1>0
<1>4. n + 1 \in DOMAIN new
  BY <1>0, <1>1
<1>5. Distinct(new)
  BY <1>0, <1>1, <1>2 DEF Distinct
<1>6. Replaced(s, new, r.name, r)
  BY <1>0, <1>1, <1>2, <1>3, <1>4, <1>5 DEF Replaced
<1> QED BY <1>6 DEF new

LEMMA Joined ==
    ASSUME NEW a \in Seq(Agent), NEW b \in Seq(Agent)
    PROVE  /\ a \o b \in Seq(Agent) /\ Len(a \o b) = Len(a) + Len(b)
           /\ \A j \in 1..Len(a) : (a \o b)[j] = a[j]
           /\ \A j \in Len(a)+1..Len(a)+Len(b) : (a \o b)[j] = b[j - Len(a)]
  OBVIOUS

LEMMA MovedLast ==
    ASSUME NEW s \in Seq(Agent), Distinct(s), NEW i \in DOMAIN s, NEW r \in Agent, r.name = s[i].name
    PROVE  Replaced(s, Append(RemoveAt(s, i), r), r.name, r)
<1> DEFINE rest == RemoveAt(s, i)
           n == Len(s)
<1>0. n \in Nat /\ DOMAIN s = 1..n /\ i \in 1..n
  OBVIOUS
<1>1. /\ rest \in Seq(Agent) /\ Len(rest) = n - 1
      /\ \A j \in 1..(n - 1) : rest[j] = IF j < i THEN s[j] ELSE s[j + 1]
  <2> DEFINE a == SubSeq(s, 1, i - 1)
             b == SubSeq(s, i + 1, n)
  <2>1. a \in Seq(Agent) /\ Len(a) = i - 1 /\ \A j \in 1..(i - 1) : a[j] = s[j]
    BY <1>0
  <2>2. b \in Seq(Agent) /\ Len(b) = n - i /\ \A j \in 1..(n - i) : b[j] = s[i + j]
    BY <1>0
  <2>3. rest = a \o b
    BY DEF RemoveAt
  <2> HIDE DEF a, b, n, rest
  <2>4. a \o b \in Seq(Agent) /\ Len(a \o b) = n - 1
    <3>1. a \o b \in Seq(Agent) /\ Len(a \o b) = Len(a) + Len(b)
      BY <2>1, <2>2, Joined, Zenon
    <3>2. (i - 1) + (n - i) = n - 1
      BY <1>0
    <3> QED BY <2>1, <2>2, <3>1, <3>2
  <2>5. ASSUME NEW j \in 1..(n - 1) PROVE (a \o b)[j] = IF j < i THEN s[j] ELSE s[j + 1]
    <3>1. CASE j < i
      <4>1. j \in 1..Len(a) /\ j \in 1..(i - 1)
        BY <1>0, <2>1, <3>1
      <4>2. (a \o b)[j] = a[j]
        BY <2>1, <2>2, <4>1, Joined, Zenon
      <4> QED BY <2>1, <3>1, <4>1, <4>2
    <3>2. CASE ~(j < i)
      <4>1. j - (i - 1) \in 1..(n - i) /\ i + (j - (i - 1)) = j + 1
            /\ j \in (Len(a) + 1)..(Len(a) + Len(b)) /\ j - Len(a) = j - (i - 1)
        <5>1. Len(a) = i - 1 /\ Len(b) = n - i
          BY <2>1, <2>2
        <5> HIDE DEF a, b
        <5> QED BY <1>0, <3>2, <5>1
      <4>2. (a \o b)[j] = b[j - Len(a)]
        BY <2>1, <2>2, <4>1, Joined, Zenon
      <4>3. b[j - (i - 1)] = s[i + (j - (i - 1))]
        BY <2>2, <4>1
      <4> QED BY <3>2, <4>1, <4>2, <4>3
    <3> QED BY <3>1, <3>2
  <2> QED BY <2>3, <2>4, <2>5
<1> HIDE DEF rest
<1>2. \A j \in 1..(n - 1) : \E k \in 1..n : k # i /\ rest[j] = s[k] /\ k = IF j < i THEN j ELSE j + 1
  <2> HIDE DEF n
  <2> TAKE j \in 1..(n - 1)
  <2> DEFINE k == IF j < i THEN j ELSE j + 1
  <2>1. k \in 1..n /\ k # i
    BY <1>0
  <2>2. rest[j] = s[k]
    BY <1>1
  <2> QED BY <2>1, <2>2
<1>3. \A k \in 1..n \ {i} : \E j \in 1..(n - 1) : rest[j] = s[k]
  <2> HIDE DEF n
  <2> TAKE k \in 1..n \ {i}
  <2> DEFINE j == IF k < i THEN k ELSE k - 1
  <2>1. j \in 1..(n - 1) /\ (j < i <=> k < i) /\ (~(k < i) => j + 1 = k)
    BY <1>0
  <2>2. rest[j] = s[k]
    BY <1>1, <2>1
  <2> QED BY <2>1, <2>2
<1>4. \A k \in 1..n \ {i} : s[k].name # r.name
  BY <1>0 DEF Distinct
<1>5. Distinct(rest) /\ \A j \in DOMAIN rest : rest[j].name # r.name
  <2>1. DOMAIN rest = 1..(n - 1)
    BY <1>1
  <2> HIDE DEF n
  <2>2. ASSUME NEW j \in 1..(n - 1), NEW l \in 1..(n - 1), rest[j].name = rest[l].name PROVE j = l
    <3> DEFINE k == IF j < i THEN j ELSE j + 1
               m == IF l < i THEN l ELSE l + 1
    <3>1. k \in 1..n /\ m \in 1..n /\ rest[j] = s[k] /\ rest[l] = s[m]
      BY <1>2
    <3>2. k = m
      BY <1>0, <2>2, <3>1 DEF Distinct
    <3> QED BY <1>0, <3>2
  <2> QED BY <1>2, <1>4, <2>1, <2>2 DEF Distinct
<1>6. Replaced(rest, Append(rest, r), r.name, r)
  BY <1>1, <1>5, Added
<1>7. DOMAIN rest = 1..(n - 1)
  BY <1>1
<1> DEFINE new == Append(rest, r)
<1>8. Replaced(rest, new, r.name, r)
  BY <1>6
<1> HIDE DEF new, n
<1>9. \A j \in DOMAIN new : new[j] = r \/ (new[j].name # r.name /\ \E k \in DOMAIN s : s[k] = new[j])
  <2> SUFFICES ASSUME NEW j \in DOMAIN new, new[j] # r
               PROVE  new[j].name # r.name /\ \E k \in DOMAIN s : s[k] = new[j]
    OBVIOUS
  <2>1. new[j].name # r.name /\ \E l \in DOMAIN rest : rest[l] = new[j]
    BY <1>8 DEF Replaced
  <2>2. PICK l \in 1..(n - 1) : rest[l] = new[j]
    BY <1>7, <2>1
  <2>3. PICK k \in 1..n : rest[l] = s[k]
    BY <1>2
  <2> QED BY <1>0, <2>1, <2>2, <2>3
<1>10. \A k \in DOMAIN s : s[k].name # r.name => \E j \in DOMAIN new : new[j] = s[k]
  <2> SUFFICES ASSUME NEW k \in DOMAIN s, s[k].name # r.name PROVE \E j \in DOMAIN new : new[j] = s[k]
    OBVIOUS
  <2>1. PICK l \in 1..(n - 1) : rest[l] = s[k]
    BY <1>0, <1>3
  <2>2. rest[l].name # r.name /\ l \in DOMAIN rest
    BY <1>7, <2>1
  <2>3. \E j \in DOMAIN new : new[j] = rest[l]
    BY <1>8, <2>2 DEF Replaced
  <2> QED BY <2>1, <2>3
<1>11. Replaced(s, new, r.name, r)
  BY <1>8, <1>9, <1>10 DEF Replaced
<1> QED BY <1>11 DEF new, rest

-----------------------------------------------------------------------------
\* What replacing a record does to the roles, and to the host.
LEMMA OneRoleChanges ==
    ASSUME NEW s \in Seq(Agent), Distinct(s), NEW new, NEW r \in Agent, Replaced(s, new, r.name, r)
    PROVE  roles_in(new) = [roles_in(s) EXCEPT ![r.name] = flags(r)]
<1>1. new \in Seq(Agent) /\ Distinct(new)
  BY DEF Replaced
<1>2. role_in(new, r.name) = flags(r)
  <2>1. PICK j \in DOMAIN new : new[j] = r
    BY DEF Replaced
  <2> QED BY <1>1, <2>1, RoleIsFlags
<1>3. ASSUME NEW name \in Agents, name # r.name PROVE role_in(new, name) = role_in(s, name)
  <2>1. CASE \E k \in DOMAIN s : s[k].name = name
    <3>1. PICK k \in DOMAIN s : s[k].name = name
      BY <2>1
    <3>2. PICK j \in DOMAIN new : new[j] = s[k]
      BY <1>3, <3>1 DEF Replaced
    <3>3. role_in(s, s[k].name) = flags(s[k]) /\ role_in(new, new[j].name) = flags(new[j])
      BY <1>1, RoleIsFlags
    <3> QED BY <3>1, <3>2, <3>3
  <2>2. CASE \A k \in DOMAIN s : s[k].name # name
    <3>1. \A j \in DOMAIN new : new[j].name # name
      BY <1>3, <2>2 DEF Replaced
    <3> QED BY <1>1, <2>2, <3>1, RoleIsFlags
  <2> QED BY <2>1, <2>2
<1>4. r.name \in Agents
  BY DEF Agent
<1> QED BY <1>2, <1>3, <1>4 DEF roles_in

LEMMA HostStays ==
    ASSUME NEW s \in Seq(Agent), Hosted(s), NEW new, NEW r \in Agent, Replaced(s, new, r.name, r),
           r.name # Host, r.role # "host"
    PROVE  Hosted(new)
<1>1. \A j \in DOMAIN new : new[j].role = "host" <=> new[j].name = Host
  BY DEF Replaced, Hosted
<1>2. PICK k \in DOMAIN s : s[k].name = Host /\ s[k].registered /\ ~s[k].removed
  BY DEF Hosted
<1>3. PICK j \in DOMAIN new : new[j] = s[k]
  BY <1>2 DEF Replaced
<1>4. \E l \in DOMAIN new : new[l].name = Host /\ new[l].registered /\ ~new[l].removed
  BY <1>2, <1>3
<1> QED BY <1>1, <1>4 DEF Hosted

\* A step that replaces one record by r.
Moves(r) ==
    /\ r \in Agent /\ r.name # Host /\ r.role # "host"
    /\ Replaced(agents, agents', r.name, r)

LEMMA MovesKeep ==
    ASSUME RosterInv, NEW r, Moves(r)
    PROVE  RosterInv' /\ roles_in(agents') = [roles_in(agents) EXCEPT ![r.name] = flags(r)]
<1>1. agents \in Seq(Agent) /\ Distinct(agents) /\ Hosted(agents)
  BY DEF RosterInv, Listed
<1>2. agents' \in Seq(Agent) /\ Distinct(agents')
  BY DEF Moves, Replaced
<1>3. Hosted(agents')
  BY <1>1, HostStays DEF Moves
<1>4. roles_in(agents') = [roles_in(agents) EXCEPT ![r.name] = flags(r)]
  BY <1>1, OneRoleChanges DEF Moves
<1>5. RosterInv'
  BY <1>2, <1>3 DEF RosterInv, Listed, Hosted, Distinct
<1> QED BY <1>4, <1>5

\* What is known of the record at a position: its type, its role, who it is not.
LEMMA RecordAt ==
    ASSUME RosterInv, NEW i \in DOMAIN agents
    PROVE  LET r == agents[i] IN
           /\ r \in Agent /\ roles_in(agents)[r.name] = flags(r)
           /\ r.name = Host => r.role = "host" /\ r.registered /\ ~r.removed
           /\ r.name # Host => r.role # "host"
<1>1. agents \in Seq(Agent) /\ Distinct(agents) /\ Hosted(agents)
  BY DEF RosterInv, Listed
<1>2. agents[i] \in Agent /\ agents[i].name \in Agents
  <2>1. agents[i] \in Agent
    BY <1>1
  <2> QED BY <2>1 DEF Agent
<1>3. role_in(agents, agents[i].name) = flags(agents[i])
  BY <1>1, RoleIsFlags
<1>4. roles_in(agents)[agents[i].name] = flags(agents[i])
  BY <1>2, <1>3 DEF roles_in
<1>5. agents[i].name = Host => agents[i].role = "host" /\ agents[i].registered /\ ~agents[i].removed
  BY <1>1 DEF Hosted, Distinct
<1>6. agents[i].name # Host => agents[i].role # "host"
  BY <1>1 DEF Hosted
<1> QED BY <1>2, <1>4, <1>5, <1>6

LEMMA RequestMoves ==
    ASSUME RosterInv, NEW name \in Agents, NEW address \in Wallets, RequestAgent(name, address)
    PROVE  \E r : /\ Moves(r)
                  /\ \/ roles_in(agents)[r.name] \in {"absent", "removed"} /\ flags(r) = "requested"
                     \/ /\ roles_in(agents)[r.name] \in {"requested", "approved"}
                        /\ flags(r) = roles_in(agents)[r.name]
<1> DEFINE fresh == newcomer(name, address)
           i == agent(name)
           moved == [agents[i] EXCEPT !.address = address]
<1>1. agents \in Seq(Agent) /\ Distinct(agents) /\ Hosted(agents)
  BY DEF RosterInv, Listed
<1>2. fresh \in Agent /\ fresh.name = name /\ fresh.role # "host" /\ flags(fresh) = "requested"
  BY DEF newcomer, Agent, flags
<1>3. i # 0 => i \in DOMAIN agents /\ agents[i].name = name
  BY <1>1, FoundByName DEF agent, found
<1>4. i = 0 => (\A k \in DOMAIN agents : agents[k].name # name) /\ roles_in(agents)[name] = "absent"
  <2> SUFFICES ASSUME i = 0
               PROVE  (\A k \in DOMAIN agents : agents[k].name # name) /\ roles_in(agents)[name] = "absent"
    OBVIOUS
  <2>1. ASSUME NEW k \in DOMAIN agents, agents[k].name = name PROVE FALSE
    <3>1. found(agents, agents[k].name) = k
      BY <1>1, FoundByName
    <3>2. k # 0
      BY <1>1
    <3> QED BY <2>1, <3>1, <3>2 DEF agent, found
  <2>2. role_in(agents, name) = "absent"
    BY <1>1, <2>1, RoleIsFlags
  <2> QED BY <2>1, <2>2 DEF roles_in
<1>5. name # Host
  <2> SUFFICES ASSUME name = Host PROVE FALSE
    OBVIOUS
  <2>1. i # 0
    BY <1>1, <1>4 DEF Hosted
  <2>2. agents[i].registered /\ ~agents[i].removed
    BY <1>3, <2>1, RecordAt
  <2>3. agents[i].removed \/ ~agents[i].registered
    BY <2>1 DEF RequestAgent, check_request
  <2> QED BY <2>2, <2>3
<1>6. CASE i = 0
  <2>1. agents' = Append(agents, fresh)
    BY <1>6 DEF RequestAgent
  <2> HIDE DEF fresh
  <2>2. Replaced(agents, agents', fresh.name, fresh)
    BY <1>1, <1>2, <1>4, <1>6, <2>1, Added
  <2>3. Moves(fresh)
    BY <1>2, <1>5, <2>2 DEF Moves
  <2> QED BY <1>2, <1>4, <1>6, <2>3
<1>7. CASE i # 0 /\ agents[i].removed
  <2>1. agents' = Append(RemoveAt(agents, i), fresh)
    BY <1>7 DEF RequestAgent
  <2> HIDE DEF fresh, i
  <2>2. Replaced(agents, agents', fresh.name, fresh)
    BY <1>1, <1>2, <1>3, <1>7, <2>1, MovedLast
  <2>3. Moves(fresh)
    BY <1>2, <1>5, <2>2 DEF Moves
  <2>4. roles_in(agents)[name] = "removed"
    <3>1. roles_in(agents)[agents[i].name] = flags(agents[i])
      BY <1>3, <1>7, RecordAt
    <3> QED BY <1>3, <1>7, <3>1 DEF flags
  <2> QED BY <1>2, <2>3, <2>4
<1>8. CASE i # 0 /\ ~agents[i].removed
  <2>1. agents' = [agents EXCEPT ![i] = moved]
    BY <1>8 DEF RequestAgent
  <2>2. agents[i].removed \/ ~agents[i].registered
    BY <1>8 DEF RequestAgent, check_request
  <2> HIDE DEF i
  <2>3. agents[i] \in Agent /\ roles_in(agents)[name] = flags(agents[i]) /\ agents[i].role # "host"
    BY <1>3, <1>5, <1>8, RecordAt
  <2> DEFINE old == agents[i]
  <2>4. old \in Agent /\ old.name = name /\ old.role # "host" /\ ~old.removed /\ ~old.registered
    BY <1>3, <1>8, <2>2, <2>3
  <2>8. roles_in(agents)[name] = flags(old)
    BY <2>3
  <2>9. moved = [old EXCEPT !.address = address]
    OBVIOUS
  <2> HIDE DEF old, moved
  <2>5. /\ moved \in Agent /\ moved.name = name /\ moved.role # "host" /\ flags(moved) = flags(old)
        /\ flags(old) \in {"requested", "approved"}
    BY <2>4, <2>9 DEF Agent, flags
  <2>6. Replaced(agents, agents', moved.name, moved)
    BY <1>1, <1>3, <1>8, <2>1, <2>5, Edited
  <2>7. Moves(moved)
    BY <1>5, <2>5, <2>6 DEF Moves
  <2> QED BY <2>8, <2>5, <2>7
<1> QED BY <1>6, <1>7, <1>8

LEMMA ApproveMoves ==
    ASSUME RosterInv, NEW actor, NEW who, NEW tx_hash \in BOOLEAN, ApproveAgent(actor, who, tx_hash)
    PROVE  \E r : /\ Moves(r)
                  /\ roles_in(agents)[r.name] \in {"requested", "approved"}
                  /\ flags(r) \in {"approved", "registered"}
<1> DEFINE i == target(who)
           old == agents[i]
           new == [old EXCEPT !.approved = TRUE, !.registered = tx_hash]
<1>1. agents \in Seq(Agent) /\ Distinct(agents)
  BY DEF RosterInv, Listed
<1>2. i \in DOMAIN agents
  BY TargetListed DEF RosterInv, ApproveAgent
<1>3. ~old.removed /\ ~old.registered
  BY DEF ApproveAgent
<1>4. agents' = [agents EXCEPT ![i] = new]
  BY DEF ApproveAgent
<1> HIDE DEF i
<1>5. old \in Agent /\ roles_in(agents)[old.name] = flags(old) /\ old.name # Host /\ old.role # "host"
  BY <1>2, <1>3, RecordAt
<1>6. old = agents[i]
  OBVIOUS
<1> HIDE DEF old
<1>7. /\ new \in Agent /\ new.name = old.name /\ new.role = old.role
      /\ flags(new) \in {"approved", "registered"} /\ flags(old) \in {"requested", "approved"}
  BY <1>3, <1>5 DEF Agent, flags
<1> HIDE DEF new
<1>8. Replaced(agents, agents', new.name, new)
  BY <1>1, <1>2, <1>4, <1>6, <1>7, Edited
<1>9. Moves(new)
  BY <1>5, <1>7, <1>8 DEF Moves
<1> QED BY <1>5, <1>7, <1>9

LEMMA RemoveMoves ==
    ASSUME RosterInv, NEW actor, NEW who, RemoveAgent(actor, who)
    PROVE  \E r : /\ Moves(r)
                  /\ roles_in(agents)[r.name] \notin {"absent", "removed"}
                  /\ flags(r) = "removed"
<1> DEFINE i == target(who)
           old == agents[i]
           new == [old EXCEPT !.removed = TRUE]
<1>1. agents \in Seq(Agent) /\ Distinct(agents)
  BY DEF RosterInv, Listed
<1>2. i \in DOMAIN agents
  BY TargetListed DEF RosterInv, RemoveAgent
<1>3. ~old.removed /\ old.role # "host"
  BY DEF RemoveAgent
<1>4. agents' = [agents EXCEPT ![i] = new]
  BY DEF RemoveAgent
<1> HIDE DEF i
<1>5. old \in Agent /\ roles_in(agents)[old.name] = flags(old) /\ old.name # Host
  BY <1>2, <1>3, RecordAt
<1>6. old = agents[i]
  OBVIOUS
<1> HIDE DEF old
<1>7. /\ new \in Agent /\ new.name = old.name /\ new.role = old.role
      /\ flags(new) = "removed" /\ flags(old) \notin {"absent", "removed"}
  BY <1>3, <1>5 DEF Agent, flags
<1> HIDE DEF new
<1>8. Replaced(agents, agents', new.name, new)
  BY <1>1, <1>2, <1>4, <1>6, <1>7, Edited
<1>9. Moves(new)
  BY <1>3, <1>5, <1>7, <1>8 DEF Moves
<1> QED BY <1>5, <1>7, <1>9

-----------------------------------------------------------------------------
\* What the flags say is what role_of says, before and after a step.
LEMMA Shown ==
    ASSUME RosterInv
    PROVE  [name \in Agents |-> role_of(name)] = roles_in(agents)
<1>1. ASSUME NEW name \in Agents PROVE role_of(name) = role_in(agents, name)
  <2>1. agent(name) = found(agents, name)
    BY DEF agent, found
  <2>2. found(agents, name) # 0 => found(agents, name) \in DOMAIN agents
    BY FoundByName DEF RosterInv, Listed
  <2>3. ASSUME found(agents, name) # 0
        PROVE  LET r == agents[found(agents, name)] IN
               r.removed \in BOOLEAN /\ r.registered \in BOOLEAN /\ r.approved \in BOOLEAN
    <3>1. agents[found(agents, name)] \in Agent
      BY <2>2, <2>3 DEF RosterInv, Listed
    <3> QED BY <3>1 DEF Agent
  <2> QED BY <2>1, <2>3 DEF role_of, role_in, flags
<1> QED BY <1>1 DEF roles_in

LEMMA StartsListed == RosterInit => RosterInv /\ Abstract!RolesInit
<1> SUFFICES ASSUME RosterInit PROVE RosterInv /\ Abstract!RolesInit
  OBVIOUS
<1> DEFINE h == [name |-> Host, address |-> HostWallet, role |-> "host",
                 approved |-> TRUE, registered |-> TRUE, removed |-> FALSE]
<1>1. agents = <<h>>
  BY DEF RosterInit
<1>2. h \in Agent /\ h.name = Host /\ h.role = "host" /\ h.registered /\ ~h.removed /\ flags(h) = "registered"
  BY RosterAssumption DEF Agent, flags
<1> HIDE DEF h
<1>3. agents \in Seq(Agent) /\ DOMAIN agents = {1} /\ agents[1] = h
  BY <1>1, <1>2
<1>4. Distinct(agents) /\ Hosted(agents)
  BY <1>2, <1>3 DEF Distinct, Hosted
<1>5. RosterInv
  BY <1>3, <1>4 DEF RosterInv, Listed
<1>6. \A name \in Agents : role_in(agents, name) = IF name = Host THEN "registered" ELSE "absent"
  <2>1. role_in(agents, agents[1].name) = "registered"
    BY <1>2, <1>3, <1>4, RoleIsFlags
  <2>2. ASSUME NEW name \in Agents, name # Host PROVE role_in(agents, name) = "absent"
    <3>1. \A i \in DOMAIN agents : agents[i].name # name
      BY <1>2, <1>3, <2>2
    <3> QED BY <1>3, <1>4, <3>1, RoleIsFlags
  <2> QED BY <1>2, <1>3, <2>1, <2>2
<1>7. roles_in(agents) = [a \in Agents |-> IF a = Host THEN "registered" ELSE "absent"]
  BY <1>6 DEF roles_in
<1> QED BY <1>5, <1>7, Shown DEF Abstract!RolesInit

LEMMA StepsMove ==
    ASSUME RosterInv, [RosterNext]_agents,
           [name \in Agents |-> role_of(name)] = roles_in(agents),
           RosterInv' => [name \in Agents |-> role_of(name)]' = roles_in(agents')
    PROVE  RosterInv' /\ [Abstract!RolesNext]_([name \in Agents |-> role_of(name)])
<1> DEFINE shown == [name \in Agents |-> role_of(name)]
<1>1. shown = roles_in(agents) /\ (RosterInv' => shown' = roles_in(agents'))
  OBVIOUS
<1>2. CASE UNCHANGED agents
  <2>1. RosterInv'
    BY <1>2 DEF RosterInv, Listed, Hosted, Distinct
  <2>2. shown' = shown
    BY <1>1, <1>2, <2>1
  <2> QED BY <2>1, <2>2
<1>3. ASSUME NEW r, Moves(r)
      PROVE  /\ RosterInv' /\ r.name \in Agents /\ r.name # Host
             /\ shown[r.name] = roles_in(agents)[r.name]
             /\ shown' = [shown EXCEPT ![r.name] = flags(r)]
  <2>1. RosterInv' /\ roles_in(agents') = [roles_in(agents) EXCEPT ![r.name] = flags(r)]
    BY <1>3, MovesKeep
  <2>2. r.name \in Agents /\ r.name # Host
    BY <1>3 DEF Moves, Agent
  <2> HIDE DEF shown
  <2> QED BY <1>1, <2>1, <2>2
<1>4. CASE \E name \in Agents, address \in Wallets : RequestAgent(name, address)
  <2>1. PICK r : /\ Moves(r)
                 /\ \/ roles_in(agents)[r.name] \in {"absent", "removed"} /\ flags(r) = "requested"
                    \/ /\ roles_in(agents)[r.name] \in {"requested", "approved"}
                       /\ flags(r) = roles_in(agents)[r.name]
    BY <1>4, RequestMoves
  <2>2. /\ RosterInv' /\ r.name \in Agents
        /\ shown[r.name] = roles_in(agents)[r.name]
        /\ shown' = [shown EXCEPT ![r.name] = flags(r)]
    BY <1>3, <2>1
  <2>3. flags(r) = shown[r.name] => shown' = shown
    <3>1. shown = [shown EXCEPT ![r.name] = shown[r.name]]
      OBVIOUS
    <3> HIDE DEF shown
    <3> QED BY <2>2, <3>1
  <2>4. Abstract!Request(r.name)
    <3>1. \/ shown[r.name] \in {"absent", "removed"} /\ shown' = [shown EXCEPT ![r.name] = "requested"]
          \/ shown[r.name] \in {"requested", "approved"} /\ shown' = shown
      <4> HIDE DEF shown
      <4> QED BY <2>1, <2>2, <2>3
    <3> QED BY <3>1 DEF Abstract!Request
  <2> QED BY <2>2, <2>4 DEF Abstract!RolesNext
<1>5. CASE \E actor \in Agents, who \in Agents \cup Wallets, tx_hash \in BOOLEAN :
             ApproveAgent(actor, who, tx_hash)
  <2>1. PICK r : /\ Moves(r)
                 /\ roles_in(agents)[r.name] \in {"requested", "approved"}
                 /\ flags(r) \in {"approved", "registered"}
    BY <1>5, ApproveMoves
  <2>2. /\ RosterInv' /\ r.name \in Agents
        /\ shown[r.name] \in {"requested", "approved"}
        /\ \/ shown' = [shown EXCEPT ![r.name] = "approved"]
           \/ shown' = [shown EXCEPT ![r.name] = "registered"]
    <3> HIDE DEF shown
    <3> QED BY <1>3, <2>1
  <2>3. Abstract!Approve(r.name) \/ Abstract!Register(r.name)
    BY <2>2 DEF Abstract!Approve, Abstract!Register
  <2> QED BY <2>2, <2>3 DEF Abstract!RolesNext
<1>6. CASE \E actor \in Agents, who \in Agents \cup Wallets : RemoveAgent(actor, who)
  <2>1. PICK r : /\ Moves(r)
                 /\ roles_in(agents)[r.name] \notin {"absent", "removed"}
                 /\ flags(r) = "removed"
    BY <1>6, RemoveMoves
  <2>2. /\ RosterInv' /\ r.name \in Agents /\ r.name # Host
        /\ shown[r.name] \notin {"absent", "removed"}
        /\ shown' = [shown EXCEPT ![r.name] = "removed"]
    <3> HIDE DEF shown
    <3> QED BY <1>3, <2>1
  <2>3. Abstract!Remove(r.name)
    BY <2>2 DEF Abstract!Remove
  <2> QED BY <2>2, <2>3 DEF Abstract!RolesNext
<1> QED BY <1>2, <1>4, <1>5, <1>6 DEF RosterNext

\* The list of records implements one role per name (service.py: request_agent,
\* approve_agent, remove_agent): RolesKept.
THEOREM RosterImplementsRoles == RosterSpec => RolesKept
<1> DEFINE shown == [name \in Agents |-> role_of(name)]
<1>1. RosterInit => RosterInv /\ Abstract!RolesInit
  BY StartsListed
<1>2. RosterInv => shown = roles_in(agents)
  BY Shown
<1>3. RosterInv /\ [RosterNext]_agents => RosterInv'
  <2>1. (RosterInv => shown = roles_in(agents))'
    BY <1>2, PTL
  <2> QED BY <1>2, <2>1, StepsMove
<1>4. RosterInv /\ [RosterNext]_agents => [Abstract!RolesNext]_shown
  <2>1. (RosterInv => shown = roles_in(agents))'
    BY <1>2, PTL
  <2> QED BY <1>2, <2>1, StepsMove
<1> QED BY <1>1, <1>3, <1>4, PTL DEF RosterSpec, RolesKept, Abstract!RolesSpec

=============================================================================
