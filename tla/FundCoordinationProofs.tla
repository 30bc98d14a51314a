----------------------- MODULE FundCoordinationProofs -----------------------
(***************************************************************************)
(* What holds of the fund's shared state for every number of agents,       *)
(* topics, proposals, syncers and every clock: type correctness and the    *)
(* claim rules with chain reads, the slot, receipt and cooldown rules      *)
(* without them.                                                           *)
(***************************************************************************)
EXTENDS FundCoordination, FiniteSetTheorems, TLAPS

-----------------------------------------------------------------------------
(* The life cycle.                                                         *)

\* A legal step starts at an open status and ends at a status that is not a
\* draft; record_settle and the tool can reach nothing else.
LEMMA LegalStep ==
    ASSUME NEW old, NEW new, check_transition(old, new)
    PROVE  /\ old \in OpenStatuses
           /\ new \in Statuses
           /\ new # "draft"
BY DEF check_transition, Transitions, OpenStatuses, Statuses

\* What is closed or was never drafted holds no slot; a draft does.
LEMMA StatusFacts ==
    /\ OpenStatuses \subseteq Statuses
    /\ "none" \notin Statuses
    /\ {"none", "settled", "vetoed", "cancelled"} \cap OpenStatuses = {}
    /\ "draft" \in OpenStatuses
BY DEF OpenStatuses, Statuses

\* What a card can ask for is a status, and never a draft or a settle.
LEMMA TargetIsStatus ==
    ASSUME NEW g, ChainTarget(g) # ""
    PROVE  ChainTarget(g) \in Statuses \ {"draft", "settled"}
BY DEF ChainTarget, Statuses

-----------------------------------------------------------------------------
(* Type correctness.                                                       *)

LEMMA IdleSyncType == IdleSync \in Sync
BY DEF IdleSync, Sync, GovernorStates

\* A syncer in its "write" step has a current row and a target for it.
SyncReady ==
    \A s \in Syncers : sync[s].pc = "write" =>
        sync[s].cur \in Ids /\ ChainTarget(sync[s].card[sync[s].cur]) # ""

LEMMA InitType == Init => TypeOK /\ SyncReady
<1> SUFFICES ASSUME Init PROVE TypeOK /\ SyncReady
    OBVIOUS
<1>1. role \in [Agents -> Roles]
    BY HostAssumption DEF Init, RolesInit, Roles
<1>2. sync \in [Syncers -> Sync] /\ SyncReady
    BY IdleSyncType DEF Init, IdleSync, SyncReady
<1>3. /\ chain \in [Ids -> GovernorStates]
      /\ status \in [Ids -> Statuses \cup {"none"}]
    BY DEF Init, GovernorStates
<1>4. /\ linked \in [Ids -> BOOLEAN]
      /\ shipped \in [Ids -> BOOLEAN]
      /\ fee_ok \in BOOLEAN
    BY DEF Init
<1>5. /\ now \in 0..MaxTime
      /\ next_proposal_seq \in 1..(MaxProposals + 1)
      /\ receipts \in [Ids -> Nat]
      /\ cooldown_until \in Nat /\ chain_cooldown \in Nat /\ quiet_until \in Int
    BY BoundsAssumption DEF Init
<1>6. claims \in SUBSET Claim /\ proposer \in [Ids -> Agents]
    BY HostAssumption DEF Init
<1>7. QED
    BY <1>1, <1>2, <1>3, <1>4, <1>5, <1>6 DEF TypeOK, RolesTypeOK

\* A stamp is a natural number.
LEMMA StampType ==
    ASSUME TypeOK, NEW t \in Stamps
    PROVE  t \in Nat /\ t <= now /\ now <= t + LockWait /\ now \in Nat
BY BoundsAssumption DEF Stamps, TypeOK

LEMMA CooldownType ==
    ASSUME TypeOK, NEW t \in Stamps, start_cooldown(t)
    PROVE  cooldown_until' \in Nat /\ quiet_until' \in Int
BY StampType, BoundsAssumption DEF TypeOK, start_cooldown

\* What is left after a row is a syncer record that is not about to write.
LEMMA AfterRowType ==
    ASSUME TypeOK, NEW s \in Syncers, NEW p \in Ids
    PROVE  after_row(s, p) \in Sync /\ after_row(s, p).pc # "write"
<1>1. sync[s] \in Sync
    BY DEF TypeOK
<1>2. IdleSync.pc = "idle"
    BY DEF IdleSync
<1>3. QED
    BY <1>1, <1>2, IdleSyncType DEF after_row, Sync

LEMMA LocalType == ASSUME TypeOK, LocalNext PROVE TypeOK' /\ UNCHANGED sync
<1>1. CASE \E a \in Agents : RequestAgent(a) \/ ApproveAgent(a)
    BY <1>1 DEF RequestAgent, ApproveAgent, Request, Approve, Register, Roles,
            TypeOK, RolesTypeOK, localVars, chainVars, Sync
<1>2. CASE \E a \in Agents : RemoveAgent(a)
    BY <1>2 DEF RemoveAgent, Remove, Roles, TypeOK, RolesTypeOK, chainVars, Statuses, Sync
<1>3. CASE FundSetup
    BY <1>3 DEF FundSetup, TypeOK, RolesTypeOK, chainVars, Sync
<1>4. ASSUME NEW a \in Agents, NEW topic \in Topics, NEW t \in Stamps,
             ClaimTopic(a, topic, t)
      PROVE  TypeOK' /\ UNCHANGED sync
    <2>1. [agent |-> a, topic |-> topic, expires_at |-> t + ClaimTTL] \in Claim
        BY StampType, BoundsAssumption DEF Claim
    <2>2. claims' \in SUBSET Claim
        BY <1>4, <2>1 DEF ClaimTopic, TypeOK, active_claims, claims_of
    <2>3. QED
        BY <1>4, <2>2 DEF ClaimTopic, TypeOK, RolesTypeOK, chainVars, Sync
<1>5. ASSUME NEW a \in Agents, NEW want, NEW t \in Stamps, ReleaseClaim(a, want, t)
      PROVE  TypeOK' /\ UNCHANGED sync
    BY <1>5 DEF ReleaseClaim, TypeOK, RolesTypeOK, chainVars, active_claims, Sync
<1>6. ASSUME NEW a \in Agents, NEW topic \in Topics, NEW t \in Stamps,
             DraftProposal(a, topic, t)
      PROVE  TypeOK' /\ UNCHANGED sync
    <2>1. claims' \in SUBSET Claim
        BY <1>6 DEF DraftProposal, TypeOK, active_claims, claims_of
    <2>2. next_proposal_seq' \in 1..(MaxProposals + 1)
        BY <1>6, BoundsAssumption DEF DraftProposal, TypeOK, Ids
    <2>3. QED
        BY <1>6, <2>1, <2>2 DEF DraftProposal, TypeOK, RolesTypeOK, chainVars, Statuses, Sync
<1>7. ASSUME NEW p \in Ids, NEW t \in Stamps, ShipDraft(p, t)
      PROVE  TypeOK' /\ UNCHANGED sync
    BY <1>7 DEF ShipDraft, TypeOK, RolesTypeOK, chainVars, Sync
<1>8. ASSUME NEW a \in Agents, NEW p \in Ids, NEW new \in Statuses,
             NEW link \in BOOLEAN, NEW t \in Stamps, SetProposalStatus(a, p, new, link, t)
      PROVE  TypeOK' /\ UNCHANGED sync
    <2>1. cooldown_until' \in Nat /\ quiet_until' \in Int
        BY <1>8, CooldownType DEF SetProposalStatus, TypeOK
    <2>2. status' \in [Ids -> Statuses \cup {"none"}]
        BY <1>8, StatusFacts DEF SetProposalStatus, TypeOK
    <2>3. linked' \in [Ids -> BOOLEAN]
        BY <1>8 DEF SetProposalStatus, TypeOK
    <2>4. QED
        BY <1>8, <2>1, <2>2, <2>3 DEF SetProposalStatus, TypeOK, RolesTypeOK, chainVars, Sync
<1>9. ASSUME NEW a \in Agents, NEW p \in Ids, NEW t \in Stamps, RecordSettle(a, p, t)
      PROVE  TypeOK' /\ UNCHANGED sync
    <2>1. cooldown_until' \in Nat /\ quiet_until' \in Int
        BY <1>9, CooldownType DEF RecordSettle
    <2>2. receipts' \in [Ids -> Nat]
        BY <1>9 DEF RecordSettle, TypeOK
    <2>3. QED
        BY <1>9, <2>1, <2>2 DEF RecordSettle, TypeOK, RolesTypeOK, chainVars, Statuses, Sync
<1>10. CASE Tick
    BY <1>10, BoundsAssumption DEF Tick, TypeOK, RolesTypeOK, localVars, chainVars, Sync
<1>11. QED
    BY <1>1, <1>2, <1>3, <1>4, <1>5, <1>6, <1>7, <1>8, <1>9, <1>10 DEF LocalNext, AgentNext, on_chain

\* A step of a syncer or of the governor.
LEMMA ChainType ==
    ASSUME TypeOK, SyncReady,
           \/ \E p \in Ids, new \in GovernorStates : GovernorStep(p, new)
           \/ \E s \in Syncers : SyncNext(s)
    PROVE  TypeOK' /\ SyncReady'
<1>1. ASSUME NEW p \in Ids, NEW new \in GovernorStates, GovernorStep(p, new)
      PROVE  TypeOK' /\ SyncReady'
    <2>1. chain_cooldown' \in Nat
        BY <1>1, BoundsAssumption DEF GovernorStep, TypeOK
    <2>2. QED
        BY <1>1, <2>1 DEF GovernorStep, TypeOK, RolesTypeOK, localVars, SyncReady
<1>2. ASSUME NEW s \in Syncers, NEW new \in Sync, new.pc # "write",
             sync' = [sync EXCEPT ![s] = new]
      PROVE  sync' \in [Syncers -> Sync] /\ SyncReady'
    BY <1>2 DEF TypeOK, SyncReady
<1>3. ASSUME NEW s \in Syncers, NEW fee \in BOOLEAN, SyncFetch(s, fee)
      PROVE  TypeOK' /\ SyncReady'
    <2> DEFINE new == [IdleSync EXCEPT !.pc = "fund", !.card = chain,
                                       !.until = chain_cooldown, !.fee = fee]
    <2>1. new \in Sync /\ new.pc # "write"
        BY DEF TypeOK, IdleSync, Sync
    <2>2. QED
        BY <1>2, <1>3, <2>1 DEF SyncFetch, TypeOK, RolesTypeOK, localVars, chainVars
<1>4. ASSUME NEW s \in Syncers, SyncFund(s)
      PROVE  TypeOK' /\ SyncReady'
    <2> DEFINE new == [sync[s] EXCEPT !.pc = "load"]
    <2>1. sync[s] \in Sync
        BY DEF TypeOK
    <2>2. new \in Sync /\ new.pc # "write"
        BY <2>1 DEF Sync
    <2>3. sync' = [sync EXCEPT ![s] = new]
        BY <1>4 DEF SyncFund
    <2>4. cooldown_until' \in Nat /\ fee_ok' \in BOOLEAN
        BY <1>4, <2>1 DEF SyncFund, Sync
    <2>5. QED
        BY <1>2, <1>4, <2>2, <2>3, <2>4 DEF SyncFund, TypeOK, RolesTypeOK, chainVars
<1>5. ASSUME NEW s \in Syncers, SyncLoad(s)
      PROVE  TypeOK' /\ SyncReady'
    <2> DEFINE rows == {p \in Ids : linked[p] /\ sync[s].card[p] # "None"}
               new == IF rows = {} THEN IdleSync
                      ELSE [sync[s] EXCEPT !.pc = "rows", !.rows = rows]
    <2>1. sync[s] \in Sync /\ rows \in SUBSET Ids
        BY DEF TypeOK
    <2> HIDE DEF rows
    <2>2. new \in Sync /\ new.pc # "write"
        BY <2>1, IdleSyncType DEF Sync, IdleSync
    <2>3. sync' = [sync EXCEPT ![s] = new]
        BY <1>5 DEF SyncLoad, rows
    <2>4. QED
        BY <1>2, <1>5, <2>2, <2>3 DEF SyncLoad, TypeOK, RolesTypeOK, localVars, chainVars
<1>6. ASSUME NEW s \in Syncers, NEW p \in Ids, SyncCheck(s, p)
      PROVE  TypeOK' /\ SyncReady'
    <2>1. sync[s] \in Sync
        BY DEF TypeOK
    <2>2. CASE row_moves(s, p)
        <3> DEFINE new == [sync[s] EXCEPT !.pc = "write", !.cur = p]
        <3>1. new \in Sync /\ new.cur = p /\ new.card = sync[s].card
            BY <2>1 DEF Sync
        <3>2. sync' = [sync EXCEPT ![s] = new]
            BY <1>6, <2>2 DEF SyncCheck
        <3>3. ChainTarget(new.card[p]) # ""
            BY <2>2, <3>1 DEF row_moves
        <3> HIDE DEF new
        <3>4. sync' \in [Syncers -> Sync] /\ SyncReady'
            BY <3>1, <3>2, <3>3 DEF TypeOK, SyncReady
        <3>5. QED
            BY <1>6, <3>4 DEF SyncCheck, TypeOK, RolesTypeOK, localVars, chainVars
    <2>3. CASE ~row_moves(s, p)
        <3>1. sync' = [sync EXCEPT ![s] = after_row(s, p)]
            BY <1>6, <2>3 DEF SyncCheck
        <3>2. QED
            BY <1>2, <1>6, <3>1, AfterRowType
            DEF SyncCheck, TypeOK, RolesTypeOK, localVars, chainVars
    <2>4. QED
        BY <2>2, <2>3
<1>7. ASSUME NEW s \in Syncers, NEW t \in Stamps, SyncWrite(s, t)
      PROVE  TypeOK' /\ SyncReady'
    <2> DEFINE p == sync[s].cur
               target == ChainTarget(sync[s].card[p])
    <2>1. p \in Ids /\ target \in Statuses
        BY <1>7, TargetIsStatus DEF SyncWrite, SyncReady
    <2>2. /\ status' = [status EXCEPT ![p] = target]
          /\ sync' = [sync EXCEPT ![s] = after_row(s, p)]
          /\ start_cooldown(t) \/ UNCHANGED <<cooldown_until, quiet_until>>
        BY <1>7 DEF SyncWrite
    <2> HIDE DEF p, target
    <2>3. status' \in [Ids -> Statuses \cup {"none"}]
        BY <2>1, <2>2 DEF TypeOK
    <2>4. cooldown_until' \in Nat /\ quiet_until' \in Int
        BY <2>2, CooldownType DEF TypeOK
    <2>5. sync' \in [Syncers -> Sync] /\ SyncReady'
        BY <1>2, <2>1, <2>2, AfterRowType
    <2>6. QED
        BY <1>7, <2>3, <2>4, <2>5 DEF SyncWrite, TypeOK, RolesTypeOK, chainVars
<1>8. ASSUME NEW s \in Syncers, SyncAbort(s)
      PROVE  TypeOK' /\ SyncReady'
    <2>1. IdleSync.pc # "write"
        BY DEF IdleSync
    <2>2. QED
        BY <1>2, <1>8, <2>1, IdleSyncType
        DEF SyncAbort, TypeOK, RolesTypeOK, localVars, chainVars
<1>9. QED
    BY <1>1, <1>3, <1>4, <1>5, <1>6, <1>7, <1>8 DEF SyncNext

LEMMA NextType == TypeOK /\ SyncReady /\ [Next]_vars => TypeOK' /\ SyncReady'
<1> SUFFICES ASSUME TypeOK, SyncReady, [Next]_vars PROVE TypeOK' /\ SyncReady'
    OBVIOUS
<1>1. CASE LocalNext
    BY <1>1, LocalType DEF SyncReady
<1>2. CASE UNCHANGED vars
    BY <1>2 DEF vars, TypeOK, RolesTypeOK, SyncReady
<1>3. QED
    BY <1>1, <1>2, ChainType DEF Next

\* Every operation of service.py and every step of a chain sync keeps the fund's
\* state well formed.
THEOREM TypeCorrect == Spec => []TypeOK
<1>1. Init => TypeOK /\ SyncReady
    BY InitType
<1>2. TypeOK /\ SyncReady /\ [Next]_vars => (TypeOK /\ SyncReady)'
    BY NextType
<1>3. QED
    BY <1>1, <1>2, PTL DEF Spec

-----------------------------------------------------------------------------
(* The claim rules, which hold with chain reads too: a sync touches neither  *)
(* claims nor roles.                                                         *)

\* Only claim_topic (and request_draft) ever adds a claim.
LEMMA ClaimsGrow ==
    ASSUME [Next]_vars
    PROVE  \/ claims' \subseteq claims
           \/ \E a \in Agents, topic \in Topics, t \in Stamps : ClaimTopic(a, topic, t)
<1>1. ASSUME NEW a, NEW want, NEW t, ReleaseClaim(a, want, t) PROVE claims' \subseteq claims
    BY <1>1 DEF ReleaseClaim, active_claims
<1>2. ASSUME NEW a, NEW topic, NEW t, DraftProposal(a, topic, t) PROVE claims' \subseteq claims
    BY <1>2 DEF DraftProposal, active_claims
<1>3. ASSUME NEW a, RequestAgent(a) \/ ApproveAgent(a) \/ RemoveAgent(a)
      PROVE  claims' \subseteq claims
    BY <1>3 DEF RequestAgent, ApproveAgent, RemoveAgent, localVars
<1>4. ASSUME NEW a, NEW p, NEW new, NEW link, NEW t, SetProposalStatus(a, p, new, link, t)
      PROVE  UNCHANGED claims
    BY <1>4 DEF SetProposalStatus
<1>5. ASSUME NEW a, NEW p, NEW t, RecordSettle(a, p, t) PROVE UNCHANGED claims
    BY <1>5 DEF RecordSettle
<1>6. CASE \E a \in Agents : AgentNext(a)
    BY <1>1, <1>2, <1>3, <1>4, <1>5, <1>6 DEF AgentNext
<1>7. CASE LocalNext /\ ~(\E a \in Agents : AgentNext(a))
    BY <1>7 DEF LocalNext, ShipDraft, FundSetup, Tick, localVars
<1>8. CASE \E s \in Syncers : SyncNext(s)
    BY <1>8 DEF SyncNext, SyncFetch, SyncFund, SyncLoad, SyncCheck, SyncWrite, SyncAbort, localVars
<1>9. QED
    BY <1>6, <1>7, <1>8 DEF Next, GovernorStep, localVars, vars

LEMMA NextClaims == ClaimsExclusive /\ [Next]_vars => ClaimsExclusive'
<1> SUFFICES ASSUME ClaimsExclusive, [Next]_vars PROVE ClaimsExclusive'
    OBVIOUS
<1>1. ASSUME claims' \subseteq claims PROVE ClaimsExclusive'
    BY <1>1 DEF ClaimsExclusive
<1>2. ASSUME NEW a \in Agents, NEW topic \in Topics, NEW t \in Stamps,
             ClaimTopic(a, topic, t)
      PROVE  ClaimsExclusive'
    <2> DEFINE new == [agent |-> a, topic |-> topic, expires_at |-> t + ClaimTTL]
               rest == active_claims(t) \ claims_of(a, t)
    <2>1. claims' = rest \cup {new}
        BY <1>2 DEF ClaimTopic
    <2>2. \A c \in rest : c \in claims /\ c.agent # a
        BY DEF active_claims, claims_of
    <2>3. \A c \in rest : c.topic # topic
        BY <1>2, <2>2 DEF ClaimTopic, check_claim
    <2>4. new.agent = a /\ new.topic = topic
        OBVIOUS
    <2> HIDE DEF new, rest
    <2>5. QED
        BY <2>1, <2>2, <2>3, <2>4 DEF ClaimsExclusive
<1>3. QED
    BY <1>1, <1>2, ClaimsGrow

\* However late an update gets the lock and however stale its stamp, no two
\* stored claims share a topic or an agent (check_claim).
THEOREM ClaimsAreExclusive == Spec => []ClaimsExclusive
<1>1. Init => ClaimsExclusive
    BY DEF Init, ClaimsExclusive
<1>2. QED
    BY <1>1, NextClaims, PTL DEF Spec

LEMMA NextRemoved ==
    TypeOK /\ SyncReady /\ RemovedHoldsNothing /\ [Next]_vars => RemovedHoldsNothing'
<1> SUFFICES ASSUME TypeOK, SyncReady, RemovedHoldsNothing, [Next]_vars
             PROVE  RemovedHoldsNothing'
    OBVIOUS
\* A step that adds no claim and no draft and removes nobody.
<1>1. ASSUME claims' \subseteq claims, UNCHANGED proposer,
             \A a \in Agents : role'[a] = "removed" => role[a] = "removed",
             \A p \in Ids : status'[p] = "draft" => status[p] = "draft"
      PROVE  RemovedHoldsNothing'
    BY <1>1 DEF RemovedHoldsNothing
<1>2. ASSUME NEW a \in Agents, RequestAgent(a) \/ ApproveAgent(a)
      PROVE  RemovedHoldsNothing'
    BY <1>1, <1>2 DEF RequestAgent, ApproveAgent, Request, Approve, Register, localVars,
                   TypeOK, RolesTypeOK
<1>3. ASSUME NEW a \in Agents, RemoveAgent(a) PROVE RemovedHoldsNothing'
    <2>1. \A c \in claims' : c \in claims /\ c.agent # a
        BY <1>3 DEF RemoveAgent
    <2>2. \A p \in Ids : /\ proposer'[p] = proposer[p]
                         /\ status'[p] = "draft" => status[p] = "draft" /\ proposer[p] # a
        BY <1>3 DEF RemoveAgent
    <2>3. \A b \in Agents : role'[b] = "removed" => b = a \/ role[b] = "removed"
        BY <1>3 DEF RemoveAgent, Remove, TypeOK, RolesTypeOK
    <2>4. ASSUME NEW b \in Agents, role'[b] = "removed"
          PROVE  /\ \A c \in claims' : c.agent # b
                 /\ \A p \in Ids : proposer'[p] = b => status'[p] # "draft"
        <3>1. CASE b = a
            BY <2>1, <2>2, <3>1
        <3>2. CASE role[b] = "removed"
            BY <2>1, <2>2, <3>2 DEF RemovedHoldsNothing
        <3>3. QED
            BY <2>3, <2>4, <3>1, <3>2
    <2>5. QED
        BY <2>4 DEF RemovedHoldsNothing
<1>4. ASSUME NEW a \in Agents, NEW topic \in Topics, NEW t \in Stamps,
             ClaimTopic(a, topic, t)
      PROVE  RemovedHoldsNothing'
    <2>1. role[a] # "removed"
        BY <1>4 DEF ClaimTopic, check_claim, may_draft, can_act
    <2>2. \A c \in claims' : c \in claims \/ c.agent = a
        BY <1>4 DEF ClaimTopic, active_claims
    <2>3. UNCHANGED <<role, status, proposer>>
        BY <1>4 DEF ClaimTopic
    <2>4. QED
        BY <2>1, <2>2, <2>3 DEF RemovedHoldsNothing
<1>5. ASSUME NEW a \in Agents, NEW topic \in Topics, NEW t \in Stamps,
             DraftProposal(a, topic, t)
      PROVE  RemovedHoldsNothing'
    <2>1. role[a] # "removed" /\ UNCHANGED role
        BY <1>5 DEF DraftProposal, check_draft, may_draft, can_act
    <2>2. claims' \subseteq claims
        BY <1>5 DEF DraftProposal, active_claims
    <2>3. \A p \in Ids : \/ proposer'[p] = a
                         \/ proposer'[p] = proposer[p] /\ status'[p] = status[p]
        <3>1. /\ status' = [status EXCEPT ![next_proposal_seq] = "draft"]
              /\ proposer' = [proposer EXCEPT ![next_proposal_seq] = a]
              /\ next_proposal_seq \in Ids
            BY <1>5 DEF DraftProposal
        <3>2. status \in [Ids -> Statuses \cup {"none"}] /\ proposer \in [Ids -> Agents]
            BY DEF TypeOK
        <3>3. QED
            BY <3>1, <3>2
    <2>4. QED
        BY <2>1, <2>2, <2>3 DEF RemovedHoldsNothing
<1>6. ASSUME NEW a, NEW p \in Ids, NEW new \in Statuses, NEW link, NEW t,
             SetProposalStatus(a, p, new, link, t)
      PROVE  RemovedHoldsNothing'
    BY <1>1, <1>6, LegalStep DEF SetProposalStatus, TypeOK
<1>7. ASSUME NEW a, NEW p \in Ids, NEW t, RecordSettle(a, p, t)
      PROVE  RemovedHoldsNothing'
    BY <1>1, <1>7 DEF RecordSettle, TypeOK
<1>8. ASSUME NEW s \in Syncers, NEW t, SyncWrite(s, t)
      PROVE  RemovedHoldsNothing'
    <2> DEFINE p == sync[s].cur
               target == ChainTarget(sync[s].card[p])
    <2>1. p \in Ids /\ target # "draft"
        BY <1>8, TargetIsStatus DEF SyncWrite, SyncReady
    <2>2. status' = [status EXCEPT ![p] = target] /\ UNCHANGED <<role, claims, proposer>>
        BY <1>8 DEF SyncWrite
    <2> HIDE DEF p, target
    <2>3. QED
        BY <1>1, <2>1, <2>2 DEF TypeOK
<1>9. QED
    BY <1>1, <1>2, <1>3, <1>4, <1>5, <1>6, <1>7, <1>8
    DEF Next, LocalNext, AgentNext, SyncNext, FundSetup, ReleaseClaim, active_claims,
        ShipDraft, Tick, GovernorStep, SyncFetch, SyncFund, SyncLoad, SyncCheck,
        SyncAbort, localVars, vars

\* remove_agent is one action: whatever runs concurrently, a removed agent is
\* left with no claim and no draft, and gets none before it joins again.
THEOREM RemovedIsEmptyHanded == Spec => []RemovedHoldsNothing
<1>1. Init => RemovedHoldsNothing
    BY DEF Init, RolesInit, RemovedHoldsNothing
<1>2. QED
    BY <1>1, InitType, NextType, NextRemoved, PTL DEF Spec

-----------------------------------------------------------------------------
(* What a chain read cannot touch.                                         *)

\* The ids not handed out yet are blank.
FreshIds == \A p \in Ids : p >= next_proposal_seq => status[p] = "none" /\ ~linked[p]

\* A syncer only holds rows of proposals that have their on-chain id.
SyncLinked ==
    \A s \in Syncers : /\ \A p \in sync[s].rows : linked[p]
                       /\ sync[s].pc = "write" => linked[sync[s].cur]

ChainInv == TypeOK /\ SyncReady /\ FreshIds /\ SyncLinked

LEMMA SetStatusFresh ==
    ASSUME TypeOK, FreshIds, NEW p \in Ids, NEW new, status[p] # "none",
           status' = [status EXCEPT ![p] = new],
           \A q \in Ids \ {p} : linked'[q] = linked[q],
           UNCHANGED next_proposal_seq
    PROVE  FreshIds'
BY DEF TypeOK, FreshIds

LEMMA LocalFresh == ASSUME TypeOK, FreshIds, LocalNext PROVE FreshIds'
<1>1. ASSUME NEW a \in Agents, RequestAgent(a) \/ ApproveAgent(a) \/ RemoveAgent(a)
      PROVE  FreshIds'
    BY <1>1 DEF RequestAgent, ApproveAgent, RemoveAgent, localVars, FreshIds
<1>2. ASSUME NEW a, NEW topic, NEW t,
             ClaimTopic(a, topic, t) \/ ReleaseClaim(a, topic, t)
      PROVE  FreshIds'
    BY <1>2 DEF ClaimTopic, ReleaseClaim, FreshIds
<1>3. ASSUME NEW a, NEW topic, NEW t, DraftProposal(a, topic, t)
      PROVE  FreshIds'
    <2>1. /\ next_proposal_seq \in Ids /\ next_proposal_seq' = next_proposal_seq + 1
          /\ status' = [status EXCEPT ![next_proposal_seq] = "draft"]
          /\ UNCHANGED linked
        BY <1>3 DEF DraftProposal
    <2>2. QED
        BY <2>1, BoundsAssumption DEF FreshIds, TypeOK, Ids
<1>4. ASSUME NEW a, NEW p \in Ids, NEW new, NEW link, NEW t,
             SetProposalStatus(a, p, new, link, t)
      PROVE  FreshIds'
    BY <1>4, SetStatusFresh DEF SetProposalStatus, TypeOK
<1>5. ASSUME NEW a, NEW p \in Ids, NEW t, RecordSettle(a, p, t)
      PROVE  FreshIds'
    BY <1>5, SetStatusFresh DEF RecordSettle
<1>6. QED
    BY <1>1, <1>2, <1>3, <1>4, <1>5
    DEF LocalNext, AgentNext, ShipDraft, FundSetup, Tick, localVars, FreshIds

LEMMA LinkedGrows ==
    ASSUME TypeOK, [Next]_vars
    PROVE  \A p \in Ids : linked[p] => linked'[p]
<1>1. ASSUME NEW a, NEW p \in Ids, NEW new, NEW link, NEW t,
             SetProposalStatus(a, p, new, link, t)
      PROVE  \A q \in Ids : linked[q] => linked'[q]
    BY <1>1 DEF SetProposalStatus, TypeOK
<1>2. ASSUME NEW a \in Agents, AgentNext(a)
      PROVE  \A q \in Ids : linked[q] => linked'[q]
    BY <1>1, <1>2 DEF AgentNext, RequestAgent, ApproveAgent, RemoveAgent, ClaimTopic,
        ReleaseClaim, DraftProposal, FundSetup, ShipDraft, RecordSettle, localVars
<1>3. ASSUME NEW s \in Syncers, SyncNext(s)
      PROVE  \A q \in Ids : linked[q] => linked'[q]
    BY <1>3 DEF SyncNext, SyncFetch, SyncFund, SyncLoad, SyncCheck, SyncWrite, SyncAbort,
        localVars
<1>4. QED
    BY <1>1, <1>2, <1>3 DEF Next, LocalNext, FundSetup, ShipDraft, Tick, GovernorStep, localVars, vars

LEMMA NextSyncLinked == ASSUME ChainInv, [Next]_vars PROVE SyncLinked'
<1> USE DEF ChainInv
<1>1. CASE UNCHANGED sync
    BY <1>1, LinkedGrows DEF SyncLinked, SyncReady, TypeOK, Sync
<1>2. ASSUME NEW s \in Syncers, NEW new, sync' = [sync EXCEPT ![s] = new],
             \A p \in new.rows : linked[p] /\ p \in Ids,
             new.pc = "write" => new.cur \in Ids /\ linked[new.cur]
      PROVE  SyncLinked'
    <2>1. \A r \in Syncers : r # s => sync'[r] = sync[r]
        BY <1>2 DEF TypeOK
    <2>2. sync'[s] = new
        BY <1>2 DEF TypeOK
    <2>3. \A r \in Syncers : sync[r] \in Sync
        BY DEF TypeOK
    <2>4. \A p \in Ids : linked[p] => linked'[p]
        BY LinkedGrows
    <2>5. /\ \A p \in sync'[s].rows : linked'[p]
          /\ sync'[s].pc = "write" => linked'[sync'[s].cur]
        BY <1>2, <2>2, <2>4
    <2>6. ASSUME NEW r \in Syncers, r # s
          PROVE  /\ \A p \in sync[r].rows : linked'[p]
                 /\ sync[r].pc = "write" => linked'[sync[r].cur]
        <3>1. sync[r].rows \subseteq Ids /\ (sync[r].pc = "write" => sync[r].cur \in Ids)
            BY <2>3 DEF Sync, SyncReady
        <3>2. QED
            BY <2>4, <3>1 DEF SyncLinked
    <2>7. QED
        BY <2>1, <2>5, <2>6 DEF SyncLinked
<1>3. /\ IdleSync.rows = {} /\ IdleSync.pc = "idle"
    BY DEF IdleSync
<1>4. ASSUME NEW s \in Syncers, NEW fee, SyncFetch(s, fee) PROVE SyncLinked'
    <2> DEFINE new == [IdleSync EXCEPT !.pc = "fund", !.card = chain,
                                       !.until = chain_cooldown, !.fee = fee]
    <2>1. new.rows = {} /\ new.pc = "fund"
        BY DEF IdleSync
    <2>2. QED
        BY <1>2, <1>4, <2>1 DEF SyncFetch
<1>5. ASSUME NEW s \in Syncers, SyncFund(s) PROVE SyncLinked'
    <2> DEFINE new == [sync[s] EXCEPT !.pc = "load"]
    <2>1. sync[s] \in Sync
        BY DEF TypeOK
    <2>2. new.rows = sync[s].rows /\ new.pc = "load"
        BY <2>1 DEF Sync
    <2>3. sync' = [sync EXCEPT ![s] = new]
        BY <1>5 DEF SyncFund
    <2> HIDE DEF new
    <2>4. QED
        BY <1>2, <2>1, <2>2, <2>3 DEF SyncLinked, Sync
<1>6. ASSUME NEW s \in Syncers, SyncLoad(s) PROVE SyncLinked'
    <2> DEFINE rows == {p \in Ids : linked[p] /\ sync[s].card[p] # "None"}
               new == [sync[s] EXCEPT !.pc = "rows", !.rows = rows]
    <2>1. sync[s] \in Sync
        BY DEF TypeOK
    <2>2. new.rows = rows /\ new.pc = "rows"
        BY <2>1 DEF Sync
    <2>3. sync' = [sync EXCEPT ![s] = IF rows = {} THEN IdleSync ELSE new]
        BY <1>6 DEF SyncLoad
    <2>4. \A p \in rows : linked[p] /\ p \in Ids
        OBVIOUS
    <2> HIDE DEF new, rows
    <2>5. QED
        BY <1>2, <1>3, <2>2, <2>3, <2>4
<1>7. ASSUME NEW s \in Syncers, NEW p \in Ids
      PROVE  /\ \A q \in after_row(s, p).rows : linked[q] /\ q \in Ids
             /\ after_row(s, p).pc # "write"
    <2>1. sync[s] \in Sync
        BY DEF TypeOK
    <2>2. QED
        BY <1>3, <2>1 DEF after_row, SyncLinked, Sync
<1>8. ASSUME NEW s \in Syncers, NEW p \in Ids, SyncCheck(s, p) PROVE SyncLinked'
    <2> DEFINE new == [sync[s] EXCEPT !.pc = "write", !.cur = p]
    <2>1. sync[s] \in Sync
        BY DEF TypeOK
    <2>2. new.rows = sync[s].rows /\ new.cur = p
        BY <2>1 DEF Sync
    <2>3. /\ p \in sync[s].rows
          /\ sync' = [sync EXCEPT ![s] = IF row_moves(s, p) THEN new ELSE after_row(s, p)]
        BY <1>8 DEF SyncCheck
    <2> HIDE DEF new
    <2>4. QED
        BY <1>2, <1>7, <2>1, <2>2, <2>3 DEF SyncLinked, Sync
<1>9. ASSUME NEW s \in Syncers, NEW t, SyncWrite(s, t) PROVE SyncLinked'
    <2>1. sync[s].cur \in Ids
        BY <1>9 DEF SyncWrite, SyncReady
    <2>2. sync' = [sync EXCEPT ![s] = after_row(s, sync[s].cur)]
        BY <1>9 DEF SyncWrite
    <2>3. QED
        BY <1>2, <1>7, <2>1, <2>2
<1>10. ASSUME NEW s \in Syncers, SyncAbort(s) PROVE SyncLinked'
    BY <1>2, <1>3, <1>10 DEF SyncAbort
<1>11. CASE LocalNext
    BY <1>1, <1>11, LocalType
<1>12. QED
    BY <1>1, <1>4, <1>5, <1>6, <1>8, <1>9, <1>10, <1>11
    DEF Next, SyncNext, GovernorStep, vars

LEMMA NextChainInv == ChainInv /\ [Next]_vars => ChainInv'
<1> SUFFICES ASSUME ChainInv, [Next]_vars PROVE FreshIds'
    BY NextType, NextSyncLinked DEF ChainInv
<1> USE DEF ChainInv
<1>1. ASSUME NEW s \in Syncers, NEW t, SyncWrite(s, t) PROVE FreshIds'
    <2>1. /\ sync[s].cur \in Ids /\ linked[sync[s].cur]
        BY <1>1 DEF SyncWrite, SyncReady, SyncLinked
    <2>2. next_proposal_seq \in Int /\ \A p \in Ids : p \in Int
        BY DEF TypeOK, Ids
    <2>3. \A p \in Ids : p >= next_proposal_seq => p # sync[s].cur
        BY <2>1 DEF FreshIds
    <2>4. \A p \in Ids : p # sync[s].cur => status'[p] = status[p]
        BY <1>1 DEF SyncWrite, TypeOK
    <2>5. QED
        BY <1>1, <2>3, <2>4 DEF SyncWrite, FreshIds
<1>2. CASE LocalNext
    BY <1>2, LocalFresh
<1>3. QED
    BY <1>1, <1>2 DEF Next, SyncNext, GovernorStep, SyncFetch, SyncFund, SyncLoad,
        SyncCheck, SyncAbort, localVars, vars, FreshIds

LEMMA InitChainInv == Init => ChainInv
BY InitType DEF ChainInv, Init, FreshIds, SyncLinked, IdleSync, Ids

\* Terminal statuses have no legal successor.
LEMMA TerminalIsFinal ==
    ASSUME NEW old \in TerminalStatuses, NEW new
    PROVE  ~check_transition(old, new)
BY DEF TerminalStatuses, check_transition, Transitions

\* Outside a chain write, what is closed stays closed.
LEMMA LocalKeepsClosed ==
    ASSUME TypeOK, FreshIds, LocalNext,
           NEW p \in Ids, status[p] \in TerminalStatuses
    PROVE  status'[p] = status[p]
<1>1. ASSUME NEW a \in Agents, RequestAgent(a) \/ ApproveAgent(a) \/ RemoveAgent(a)
      PROVE  status'[p] = status[p]
    BY <1>1 DEF RequestAgent, ApproveAgent, RemoveAgent, localVars, TerminalStatuses
<1>2. ASSUME NEW a, NEW topic, NEW t, DraftProposal(a, topic, t)
      PROVE  status'[p] = status[p]
    <2>1. /\ status' = [status EXCEPT ![next_proposal_seq] = "draft"]
          /\ next_proposal_seq \in Ids
        BY <1>2 DEF DraftProposal
    <2>2. status[next_proposal_seq] = "none"
        BY <2>1 DEF FreshIds, Ids
    <2>3. QED
        BY <2>1, <2>2 DEF TypeOK, TerminalStatuses
<1>3. ASSUME NEW a, NEW q \in Ids, NEW new, NEW link, NEW t,
             SetProposalStatus(a, q, new, link, t)
      PROVE  status'[p] = status[p]
    BY <1>3, TerminalIsFinal DEF SetProposalStatus, TypeOK
<1>4. ASSUME NEW a, NEW q \in Ids, NEW t, RecordSettle(a, q, t)
      PROVE  status'[p] = status[p]
    BY <1>4, TerminalIsFinal DEF RecordSettle, TypeOK
<1>5. QED
    BY <1>1, <1>2, <1>3, <1>4
    DEF LocalNext, AgentNext, ClaimTopic, ReleaseClaim, ShipDraft, FundSetup, Tick, localVars

\* A draft that was cancelled, or a proposal that was closed before its on-chain
\* id was recorded, is out of apply_chain_card's reach: its rows are matched by
\* that id, and the id is never taken away.
THEOREM ClosedWithoutIdStaysClosed == Spec => UnlinkedStaysClosed
<1>1. ASSUME ChainInv, [Next]_vars, NEW p \in Ids, ~linked[p],
             status[p] \in TerminalStatuses
      PROVE  status'[p] = status[p]
    <2>1. CASE LocalNext
        BY <1>1, <2>1, LocalKeepsClosed DEF ChainInv
    <2>2. ASSUME NEW s \in Syncers, NEW t, SyncWrite(s, t)
          PROVE  status'[p] = status[p]
        <3>1. sync[s].cur # p
            BY <1>1, <2>2 DEF SyncWrite, ChainInv, SyncLinked
        <3>2. QED
            BY <2>2, <3>1 DEF SyncWrite
    <2>3. QED
        BY <1>1, <2>1, <2>2 DEF Next, SyncNext, GovernorStep, SyncFetch, SyncFund,
            SyncLoad, SyncCheck, SyncAbort, localVars, vars
<1>2. ChainInv /\ [Next]_vars =>
        [\A p \in Ids : ~linked[p] /\ status[p] \in TerminalStatuses
                           => status'[p] = status[p]]_vars
    BY <1>1
<1>3. QED
    BY <1>2, InitChainInv, NextChainInv, PTL DEF Spec, UnlinkedStaysClosed

-----------------------------------------------------------------------------
(* The slots, receipts and the cooldown of a fund that reads no chain.      *)

LEMMA IdsFinite == IsFiniteSet(open_proposals) /\ Cardinality(open_proposals) \in Nat
<1>1. IsFiniteSet(Ids)
    BY FS_Interval, BoundsAssumption DEF Ids
<1>2. QED
    BY <1>1, FS_Subset, FS_CardinalityType DEF open_proposals

\* Every claim was appended by some operation, so there are finitely many.
FiniteClaims == IsFiniteSet(claims)

\* The recorded cooldown covers the time the rule asks for.
CooldownCovers == quiet_until <= cooldown_until

\* The inductive invariant behind SlotsBound, OnePerAgent, ReceiptPerSettle and
\* CooldownRespected.
LocalInv ==
    /\ TypeOK /\ FreshIds /\ FiniteClaims
    /\ SlotsBound /\ OnePerAgent /\ ReceiptPerSettle /\ CooldownCovers

\* Dropping claims and closing proposals frees slots.
LEMMA SlotsShrink ==
    ASSUME FiniteClaims, SlotsBound, claims' \subseteq claims,
           open_proposals' \subseteq open_proposals
    PROVE  FiniteClaims' /\ SlotsBound'
<1>1. IsFiniteSet(claims') /\ Cardinality(claims') <= Cardinality(claims)
    BY FS_Subset DEF FiniteClaims
<1>2. Cardinality(open_proposals') <= Cardinality(open_proposals)
    BY IdsFinite, FS_Subset
<1>3. /\ Cardinality(claims) \in Nat /\ Cardinality(claims') \in Nat
      /\ Cardinality(open_proposals) \in Nat /\ Cardinality(open_proposals') \in Nat
    <2>1. IsFiniteSet(open_proposals')
        BY IdsFinite, FS_Subset
    <2>2. QED
        BY <1>1, <2>1, IdsFinite, FS_CardinalityType DEF FiniteClaims
<1>4. QED
    BY <1>1, <1>2, <1>3, BoundsAssumption DEF FiniteClaims, SlotsBound

\* What the stored claims of one agent cost, and what is left without them.
LEMMA ActiveClaims ==
    ASSUME FiniteClaims, NEW a, NEW t
    PROVE  LET rest == active_claims(t) \ claims_of(a, t)
           IN  /\ IsFiniteSet(rest) /\ Cardinality(rest) \in Nat
               /\ Cardinality(active_claims(t)) \in Nat /\ Cardinality(claims) \in Nat
               /\ Cardinality(active_claims(t)) <= Cardinality(claims)
               /\ claims_of(a, t) = {} => rest = active_claims(t)
               /\ claims_of(a, t) # {} => Cardinality(rest) < Cardinality(claims)
<1> DEFINE rest == active_claims(t) \ claims_of(a, t)
<1>1. active_claims(t) \subseteq claims /\ rest \subseteq claims
    BY DEF active_claims
<1>2. /\ IsFiniteSet(claims) /\ IsFiniteSet(rest) /\ IsFiniteSet(active_claims(t))
      /\ Cardinality(active_claims(t)) <= Cardinality(claims)
    BY <1>1, FS_Subset DEF FiniteClaims
<1>3. claims_of(a, t) # {} => rest # claims
    BY DEF claims_of, active_claims
<1>4. claims_of(a, t) # {} => Cardinality(rest) < Cardinality(claims)
    <2>1. rest # claims => Cardinality(rest) < Cardinality(claims)
        BY <1>1, <1>2, FS_Subset, FS_CardinalityType
    <2>2. QED
        BY <1>3, <2>1
<1>5. /\ Cardinality(rest) \in Nat /\ Cardinality(active_claims(t)) \in Nat
      /\ Cardinality(claims) \in Nat
    BY <1>2, FS_CardinalityType
<1>6. QED
    BY <1>2, <1>4, <1>5

LEMMA OpenOfFinite ==
    ASSUME NEW a
    PROVE  /\ IsFiniteSet(open_proposals_of(a))
           /\ Cardinality(open_proposals_of(a)) \in Nat
           /\ Cardinality(open_proposals_of(a)) < MaxOpenPerAgent => open_proposals_of(a) = {}
<1>1. IsFiniteSet(open_proposals_of(a))
    BY IdsFinite, FS_Subset DEF open_proposals_of
<1>2. Cardinality(open_proposals_of(a)) \in Nat
    BY <1>1, FS_CardinalityType
<1>3. QED
    BY <1>1, <1>2, FS_EmptySet, OneSlotAssumption

\* A step that adds no claim and opens nothing keeps the rule per agent.
LEMMA OneShrinks ==
    ASSUME OnePerAgent, claims' \subseteq claims,
           \A p \in Ids : status'[p] \in OpenStatuses =>
                             status[p] \in OpenStatuses /\ proposer'[p] = proposer[p]
    PROVE  OnePerAgent'
<1> SUFFICES ASSUME NEW a \in Agents
             PROVE  /\ Cardinality(open_proposals_of(a)') <= MaxOpenPerAgent
                    /\ open_proposals_of(a)' # {} => \A c \in claims' : c.agent # a
    BY DEF OnePerAgent
<1>1. open_proposals_of(a)' \subseteq open_proposals_of(a)
    BY DEF open_proposals_of, open_proposals
<1>2. /\ IsFiniteSet(open_proposals_of(a)')
      /\ Cardinality(open_proposals_of(a)') <= Cardinality(open_proposals_of(a))
    BY <1>1, OpenOfFinite, FS_Subset
<1>3. Cardinality(open_proposals_of(a)') \in Nat
    BY <1>2, FS_CardinalityType
<1>4. QED
    BY <1>1, <1>2, <1>3, OpenOfFinite, OneSlotAssumption DEF OnePerAgent

LEMMA ClaimTopicSlots ==
    ASSUME LocalInv, NEW a \in Agents, NEW topic \in Topics, NEW t \in Stamps,
           ClaimTopic(a, topic, t)
    PROVE  FiniteClaims' /\ SlotsBound' /\ OnePerAgent'
<1> DEFINE new == [agent |-> a, topic |-> topic, expires_at |-> t + ClaimTTL]
           rest == active_claims(t) \ claims_of(a, t)
<1>1. claims' = rest \cup {new} /\ check_claim(a, topic, t) /\ UNCHANGED <<status, proposer>>
    BY DEF ClaimTopic
<1>2. /\ IsFiniteSet(rest) /\ Cardinality(rest) \in Nat
      /\ Cardinality(active_claims(t)) \in Nat /\ Cardinality(claims) \in Nat
      /\ claims_of(a, t) = {} => rest = active_claims(t)
      /\ claims_of(a, t) # {} => Cardinality(rest) < Cardinality(claims)
    BY ActiveClaims DEF LocalInv
<1>3. open_proposals' = open_proposals
    BY <1>1 DEF open_proposals
<1>4. new.agent = a
    OBVIOUS
<1> HIDE DEF new, rest
<1>5. /\ IsFiniteSet(claims')
      /\ Cardinality(claims') \in Nat /\ Cardinality(claims') <= Cardinality(rest) + 1
    <2>1. /\ IsFiniteSet(rest \cup {new})
          /\ Cardinality(rest \cup {new}) =
                IF new \in rest THEN Cardinality(rest) ELSE Cardinality(rest) + 1
        BY <1>2, FS_AddElement
    <2>2. QED
        BY <1>1, <1>2, <2>1
<1>6. SlotsBound'
    <2>1. CASE claims_of(a, t) = {}
        BY <1>1, <1>2, <1>3, <1>5, <2>1, IdsFinite, BoundsAssumption DEF check_claim, SlotsBound
    <2>2. CASE claims_of(a, t) # {}
        BY <1>2, <1>3, <1>5, <2>2, IdsFinite, BoundsAssumption DEF SlotsBound, LocalInv
    <2>3. QED
        BY <2>1, <2>2
<1>7. OnePerAgent'
    <2>1. open_proposals_of(a) = {}
        BY <1>1, OpenOfFinite DEF check_claim
    <2>2. \A b \in Agents : open_proposals_of(b)' = open_proposals_of(b)
        BY <1>1 DEF open_proposals_of, open_proposals
    <2>3. \A c \in claims' : c \in claims \/ c.agent = a
        BY <1>1, <1>4 DEF rest, active_claims
    <2>4. QED
        BY <2>1, <2>2, <2>3 DEF OnePerAgent, LocalInv
<1>8. QED
    BY <1>5, <1>6, <1>7 DEF FiniteClaims

LEMMA DraftSlots ==
    ASSUME LocalInv, NEW a \in Agents, NEW topic \in Topics, NEW t \in Stamps,
           DraftProposal(a, topic, t)
    PROVE  FiniteClaims' /\ SlotsBound' /\ OnePerAgent'
<1> DEFINE rest == active_claims(t) \ claims_of(a, t)
           id == next_proposal_seq
<1>1. /\ claims' = rest /\ check_draft(a, topic, t) /\ id \in Ids
      /\ status' = [status EXCEPT ![id] = "draft"]
      /\ proposer' = [proposer EXCEPT ![id] = a]
    BY DEF DraftProposal
<1>2. /\ IsFiniteSet(rest) /\ Cardinality(rest) \in Nat /\ Cardinality(claims) \in Nat
      /\ claims_of(a, t) # {} => Cardinality(rest) < Cardinality(claims)
    BY ActiveClaims DEF LocalInv
<1>3. /\ status \in [Ids -> Statuses \cup {"none"}] /\ proposer \in [Ids -> Agents]
      /\ status[id] = "none"
    BY <1>1 DEF LocalInv, TypeOK, FreshIds, Ids
<1>4. open_proposals' = open_proposals \cup {id}
    BY <1>1, <1>3, StatusFacts DEF open_proposals
<1>5. id \notin open_proposals
    BY <1>3, StatusFacts DEF open_proposals
<1>6. \A c \in rest : c \in claims /\ c.agent # a
    BY DEF active_claims, claims_of
<1> HIDE DEF rest, id
<1>7. SlotsBound'
    <2>1. Cardinality(open_proposals') = Cardinality(open_proposals) + 1
        BY <1>4, <1>5, IdsFinite, FS_AddElement
    <2>2. QED
        BY <1>1, <1>2, <2>1, IdsFinite, BoundsAssumption
        DEF check_draft, SlotsBound, LocalInv
<1>8. OnePerAgent'
    <2>1. open_proposals_of(a) = {}
        BY <1>1, OpenOfFinite DEF check_draft
    <2>2. open_proposals_of(a)' = {id}
        BY <1>1, <1>3, <1>4, <2>1 DEF open_proposals_of
    <2>3. ASSUME NEW b \in Agents, b # a
          PROVE  open_proposals_of(b)' = open_proposals_of(b)
        BY <1>1, <1>3, <1>4, <1>5, <2>3 DEF open_proposals_of, open_proposals
    <2>4. Cardinality(open_proposals_of(a)') = 1
        BY <2>2, FS_Singleton
    <2>5. ASSUME NEW b \in Agents
          PROVE  /\ Cardinality(open_proposals_of(b)') <= MaxOpenPerAgent
                 /\ open_proposals_of(b)' # {} => \A c \in claims' : c.agent # b
        <3>1. CASE b = a
            BY <1>1, <1>6, <2>4, <3>1, OneSlotAssumption
        <3>2. CASE b # a
            BY <1>1, <1>6, <2>3, <3>2 DEF OnePerAgent, LocalInv
        <3>3. QED
            BY <3>1, <3>2
    <2>6. QED
        BY <2>5 DEF OnePerAgent
<1>9. QED
    BY <1>1, <1>2, <1>7, <1>8 DEF FiniteClaims

\* Every other operation only drops claims and closes proposals.
LEMMA OtherSlots ==
    ASSUME LocalInv, LocalNext,
           ~\E a \in Agents, topic \in Topics, t \in Stamps :
                ClaimTopic(a, topic, t) \/ DraftProposal(a, topic, t)
    PROVE  FiniteClaims' /\ SlotsBound' /\ OnePerAgent'
<1>1. ASSUME claims' \subseteq claims, UNCHANGED proposer,
             \A p \in Ids : status'[p] \in OpenStatuses => status[p] \in OpenStatuses
      PROVE  FiniteClaims' /\ SlotsBound' /\ OnePerAgent'
    <2>1. open_proposals' \subseteq open_proposals
        BY <1>1 DEF open_proposals
    <2>2. FiniteClaims' /\ SlotsBound'
        BY <1>1, <2>1, SlotsShrink DEF LocalInv
    <2>3. OnePerAgent'
        BY <1>1, OneShrinks DEF LocalInv
    <2>4. QED
        BY <2>2, <2>3
<1>2. ASSUME NEW a, RequestAgent(a) \/ ApproveAgent(a) \/ RemoveAgent(a)
      PROVE  FiniteClaims' /\ SlotsBound' /\ OnePerAgent'
    <2>1. claims' \subseteq claims /\ UNCHANGED proposer
        BY <1>2 DEF RequestAgent, ApproveAgent, RemoveAgent, localVars
    <2>2. \A p \in Ids : status'[p] \in {status[p], "cancelled"}
        BY <1>2 DEF RequestAgent, ApproveAgent, RemoveAgent, localVars
    <2>3. QED
        BY <1>1, <2>1, <2>2, StatusFacts
<1>3. ASSUME NEW a, NEW want, NEW t, ReleaseClaim(a, want, t)
      PROVE  FiniteClaims' /\ SlotsBound' /\ OnePerAgent'
    BY <1>1, <1>3 DEF ReleaseClaim, active_claims
<1>4. ASSUME NEW a, NEW p \in Ids, NEW new, NEW link, NEW t,
             SetProposalStatus(a, p, new, link, t)
      PROVE  FiniteClaims' /\ SlotsBound' /\ OnePerAgent'
    BY <1>1, <1>4, LegalStep DEF SetProposalStatus, LocalInv, TypeOK
<1>5. ASSUME NEW a, NEW p \in Ids, NEW t, RecordSettle(a, p, t)
      PROVE  FiniteClaims' /\ SlotsBound' /\ OnePerAgent'
    BY <1>1, <1>5, StatusFacts DEF RecordSettle, LocalInv, TypeOK
<1>6. CASE FundSetup \/ Tick \/ \E p \in Ids, t \in Stamps : ShipDraft(p, t)
    BY <1>1, <1>6 DEF FundSetup, Tick, ShipDraft, localVars
<1>7. QED
    BY <1>2, <1>3, <1>4, <1>5, <1>6 DEF LocalNext, AgentNext

LEMMA LocalReceipts == ASSUME LocalInv, LocalNext PROVE ReceiptPerSettle'
<1> USE DEF LocalInv
\* Receipts stay and nothing ceases to be settled.
<1>1. ASSUME UNCHANGED receipts,
             \A p \in Ids : status[p] = "settled" => status'[p] = "settled"
      PROVE  ReceiptPerSettle'
    BY <1>1 DEF ReceiptPerSettle
<1>2. ASSUME NEW a, NEW topic, NEW t, DraftProposal(a, topic, t)
      PROVE  ReceiptPerSettle'
    <2>1. /\ status' = [status EXCEPT ![next_proposal_seq] = "draft"]
          /\ next_proposal_seq \in Ids /\ UNCHANGED receipts
        BY <1>2 DEF DraftProposal
    <2>2. status[next_proposal_seq] = "none"
        BY <2>1 DEF FreshIds, Ids
    <2>3. QED
        BY <1>1, <2>1, <2>2 DEF TypeOK
<1>3. ASSUME NEW a, NEW p \in Ids, NEW new, NEW link, NEW t,
             SetProposalStatus(a, p, new, link, t)
      PROVE  ReceiptPerSettle'
    <2>1. status[p] # "settled"
        BY <1>3, LegalStep, StatusFacts DEF SetProposalStatus
    <2>2. status' = [status EXCEPT ![p] = new] /\ UNCHANGED receipts
        BY <1>3 DEF SetProposalStatus
    <2>3. \A q \in Ids : status[q] = "settled" => status'[q] = "settled"
        BY <2>1, <2>2 DEF TypeOK
    <2>4. QED
        BY <1>1, <2>2, <2>3
<1>4. ASSUME NEW a, NEW p \in Ids, NEW t, RecordSettle(a, p, t)
      PROVE  ReceiptPerSettle'
    <2>1. status[p] # "settled"
        BY <1>4, LegalStep, StatusFacts DEF RecordSettle
    <2>2. /\ status' = [status EXCEPT ![p] = "settled"]
          /\ receipts' = [receipts EXCEPT ![p] = receipts[p] + 1]
        BY <1>4 DEF RecordSettle
    <2>3. status \in [Ids -> Statuses \cup {"none"}] /\ receipts \in [Ids -> Nat]
        BY DEF TypeOK
    <2>4. QED
        BY <2>1, <2>2, <2>3 DEF ReceiptPerSettle
<1>5. ASSUME NEW a, RemoveAgent(a) PROVE ReceiptPerSettle'
    BY <1>1, <1>5 DEF RemoveAgent
<1>6. QED
    BY <1>1, <1>2, <1>3, <1>4, <1>5
    DEF LocalNext, AgentNext, RequestAgent, ApproveAgent, ClaimTopic, ReleaseClaim,
        FundSetup, ShipDraft, Tick, localVars

\* A veto or a settle stamped before the wait for the lock still covers the
\* cooldown less that wait; nothing local shortens it.
LEMMA LocalCooldown == ASSUME LocalInv, LocalNext PROVE CooldownCovers'
<1> USE DEF LocalInv
<1>1. ASSUME NEW t \in Stamps, start_cooldown(t) PROVE CooldownCovers'
    <2>1. /\ t \in Nat /\ now \in Nat /\ now <= t + LockWait
        BY StampType
    <2>2. /\ cooldown_until' >= t + CooldownPeriod
          /\ quiet_until' = now + CooldownPeriod - LockWait
        BY <1>1, <2>1, BoundsAssumption DEF start_cooldown, TypeOK
    <2>3. cooldown_until' \in Nat /\ quiet_until' \in Int
        BY <1>1, CooldownType
    <2>4. QED
        BY <2>1, <2>2, <2>3, BoundsAssumption DEF CooldownCovers
<1>2. ASSUME UNCHANGED <<cooldown_until, quiet_until>> PROVE CooldownCovers'
    BY <1>2 DEF CooldownCovers
<1>3. ASSUME NEW a, NEW p, NEW new, NEW link, NEW t \in Stamps,
             SetProposalStatus(a, p, new, link, t)
      PROVE  CooldownCovers'
    BY <1>1, <1>2, <1>3 DEF SetProposalStatus
<1>4. ASSUME NEW a, NEW p, NEW t \in Stamps, RecordSettle(a, p, t)
      PROVE  CooldownCovers'
    BY <1>1, <1>4 DEF RecordSettle
<1>5. QED
    BY <1>2, <1>3, <1>4
    DEF LocalNext, AgentNext, RequestAgent, ApproveAgent, RemoveAgent, ClaimTopic,
        ReleaseClaim, DraftProposal, FundSetup, ShipDraft, Tick, localVars

LEMMA InitLocalInv == Init => LocalInv
<1> SUFFICES ASSUME Init PROVE LocalInv
    OBVIOUS
<1>1. TypeOK /\ FreshIds
    BY InitChainInv DEF ChainInv
<1>2. open_proposals = {} /\ \A a : open_proposals_of(a) = {}
    BY StatusFacts DEF Init, open_proposals, open_proposals_of
<1>3. FiniteClaims /\ Cardinality(claims) = 0
    BY FS_EmptySet DEF Init, FiniteClaims
<1>4. SlotsBound /\ OnePerAgent
    BY <1>2, <1>3, FS_EmptySet, BoundsAssumption, OneSlotAssumption DEF SlotsBound, OnePerAgent
<1>5. ReceiptPerSettle /\ CooldownCovers
    BY DEF Init, ReceiptPerSettle, CooldownCovers
<1>6. QED
    BY <1>1, <1>3, <1>4, <1>5 DEF LocalInv

LEMMA NextLocalInv == LocalInv /\ [LocalNext]_vars => LocalInv'
<1>1. ASSUME LocalInv, LocalNext PROVE LocalInv'
    <2>1. TypeOK' /\ FreshIds'
        BY <1>1, LocalType, LocalFresh DEF LocalInv
    <2>2. FiniteClaims' /\ SlotsBound' /\ OnePerAgent'
        BY <1>1, ClaimTopicSlots, DraftSlots, OtherSlots
    <2>3. ReceiptPerSettle' /\ CooldownCovers'
        BY <1>1, LocalReceipts, LocalCooldown
    <2>4. QED
        BY <2>1, <2>2, <2>3 DEF LocalInv
<1>2. ASSUME LocalInv, UNCHANGED vars PROVE LocalInv'
    BY <1>2 DEF vars, LocalInv, TypeOK, RolesTypeOK, FreshIds, FiniteClaims, SlotsBound,
        OnePerAgent, ReceiptPerSettle, CooldownCovers, open_proposals, open_proposals_of
<1>3. QED
    BY <1>1, <1>2

LEMMA LocalInvariance == LocalSpec => []LocalInv
BY InitLocalInv, NextLocalInv, PTL DEF LocalSpec

\* "at most two open per fund (drafts count)": a fund that reads no chain never
\* has more open proposals and claims together than it has slots.
THEOREM SlotsNeverOversubscribed == LocalSpec => []SlotsBound
BY LocalInvariance, PTL DEF LocalInv

\* "one open proposal per agent", across removals and re-joins.
THEOREM OneOpenPerAgent == LocalSpec => []OnePerAgent
BY LocalInvariance, PTL DEF LocalInv

\* record_settle writes one receipt at most for a proposal, and settles it with
\* it, however often it and set_proposal_status are called.
THEOREM OneReceiptPerSettle == LocalSpec => []ReceiptPerSettle
BY LocalInvariance, PTL DEF LocalInv

\* check_cooldown against a stamp that may be LockWait old: no claim, draft,
\* "ship it" or propose starts before CooldownPeriod - LockWait has passed since
\* the last veto or settle was written.
THEOREM CooldownHolds == LocalSpec => CooldownRespected
<1>1. ASSUME LocalInv, LocalNext, StartsWork PROVE now >= quiet_until
    <2>1. ASSUME NEW t \in Stamps, check_cooldown(t) PROVE now >= quiet_until
        <3>1. t \in Nat /\ now \in Nat /\ t <= now
            BY <1>1, StampType DEF LocalInv
        <3>2. QED
            BY <1>1, <2>1, <3>1 DEF check_cooldown, LocalInv, TypeOK, CooldownCovers
    <2>2. ASSUME NEW a, NEW topic, NEW t \in Stamps,
                 ClaimTopic(a, topic, t) \/ DraftProposal(a, topic, t)
          PROVE  now >= quiet_until
        BY <2>1, <2>2 DEF ClaimTopic, DraftProposal, check_claim, check_draft, may_draft
    <2>3. ASSUME NEW p, NEW t \in Stamps, ShipDraft(p, t) PROVE now >= quiet_until
        BY <2>1, <2>3 DEF ShipDraft
    <2>4. ASSUME NEW a, NEW p \in Ids, NEW new \in Statuses, NEW link,
                 NEW t \in Stamps, SetProposalStatus(a, p, new, link, t)
          PROVE  now >= quiet_until
        <3>1. new = "proposed"
            BY <1>1, <2>4, LegalStep DEF SetProposalStatus, StartsWork, LocalInv, TypeOK
        <3>2. status[p] = "draft"
            BY <2>4, <3>1 DEF SetProposalStatus, check_transition, Transitions
        <3>3. QED
            BY <2>1, <2>4, <3>1, <3>2 DEF SetProposalStatus
    <2>5. ASSUME NEW a, NEW p \in Ids, NEW t, RecordSettle(a, p, t) PROVE FALSE
        BY <1>1, <2>5 DEF RecordSettle, StartsWork, LocalInv, TypeOK
    <2>6. ASSUME NEW a, NEW want, NEW t, ReleaseClaim(a, want, t) PROVE FALSE
        BY <1>1, <2>6 DEF ReleaseClaim, StartsWork, active_claims
    <2>7. ASSUME NEW a, RequestAgent(a) \/ ApproveAgent(a) \/ RemoveAgent(a) PROVE FALSE
        BY <1>1, <2>7 DEF RequestAgent, ApproveAgent, RemoveAgent, StartsWork, localVars
    <2>8. CASE FundSetup \/ Tick
        BY <1>1, <2>8 DEF FundSetup, Tick, StartsWork, localVars
    <2>9. QED
        BY <1>1, <2>2, <2>3, <2>4, <2>5, <2>6, <2>7, <2>8 DEF LocalNext, AgentNext
<1>2. LocalInv /\ [LocalNext]_vars => [StartsWork => now >= quiet_until]_vars
    BY <1>1
<1>3. QED
    BY <1>2, LocalInvariance, PTL DEF LocalSpec, CooldownRespected

=============================================================================
