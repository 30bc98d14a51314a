-------------------------- MODULE FundCoordination --------------------------
(***************************************************************************)
(* The shared state of one fund and every operation of fund/service.py     *)
(* that claims a topic, drafts, moves or settles a proposal.  Agents never *)
(* see each other's messages: this state is their whole protocol.          *)
(*                                                                         *)
(* One backend.update() is one step (FundStore shows why that is sound).   *)
(* An operation reads the clock BEFORE it waits for the file lock, so it   *)
(* works with a stamp up to LockWait older than the moment it writes.      *)
(*                                                                         *)
(* A chain sync (apply_chain_card) is several updates and loads, so it is  *)
(* several steps of a syncer that interleaves with everything else.        *)
(*                                                                         *)
(* Left out: names' case and topics' spelling (normalised by the code),    *)
(* legs, envelope and calldata, cards, votes and tallies.  A stamp of 0    *)
(* stands for None, which blocks nothing either.                           *)
(***************************************************************************)
EXTENDS AgentRoles, FundLifecycle, Integers, FiniteSets

CONSTANTS
    Topics,             \* normalised topics
    MaxProposals,       \* bound: drafts ever recorded
    MaxTime,            \* bound: the last tick of the clock
    MaxOpen,            \* MAX_OPEN_PER_FUND
    MaxOpenPerAgent,    \* MAX_OPEN_PER_AGENT
    ClaimTTL,           \* CLAIM_TTL_SECONDS, in ticks
    CooldownPeriod,     \* fund.cooldown_period, in ticks
    LockWait,           \* how long an update may wait for the lock, in ticks
    Syncers             \* threads that run ChainSync.sync

ASSUME BoundsAssumption ==
    /\ MaxProposals \in Nat /\ MaxTime \in Nat
    /\ MaxOpen \in Nat /\ MaxOpenPerAgent \in Nat
    /\ ClaimTTL \in Nat /\ CooldownPeriod \in Nat /\ LockWait \in Nat

\* MAX_OPEN_PER_AGENT is 1; OnePerAgent is about that value.
ASSUME OneSlotAssumption == MaxOpenPerAgent = 1

VARIABLES
    now,                \* wall clock, shared by every process of the machine
    claims,             \* state.claims
    status,             \* status of p-1, p-2, ...; "none" before the draft
    proposer,           \* proposer_agent
    linked,             \* onchain_id is not None
    shipped,            \* shipped_at is not None
    receipts,           \* how many settle receipts a proposal has
    next_proposal_seq,
    cooldown_until,     \* fund.cooldown_until
    fee_ok,             \* agent_fee_bps is on record and within the cap
    chain,              \* external: the governor's state of each proposal
    chain_cooldown,     \* external: the governor's cooldownUntil
    sync,               \* what each syncer holds between its store accesses
    quiet_until         \* history: earliest time the cooldown rule allows work

localVars == <<claims, status, proposer, linked, shipped, receipts,
               next_proposal_seq, cooldown_until, fee_ok, quiet_until>>
chainVars == <<chain, chain_cooldown>>
vars == <<role, now, claims, status, proposer, linked, shipped, receipts,
          next_proposal_seq, cooldown_until, fee_ok, chain, chain_cooldown,
          sync, quiet_until>>

Ids == 1..MaxProposals

Claim == [agent : Agents, topic : Topics, expires_at : Nat]

\* What a syncer knows: where it is, the card it fetched (a governor state per
\* on-chain id, the cooldown, whether the fee is within the cap), the rows still
\* to apply and the row whose transition it has checked.
Sync == [pc : {"idle", "fund", "load", "rows", "write"},
         card : [Ids -> GovernorStates], until : Nat, fee : BOOLEAN,
         rows : SUBSET Ids, cur : Ids \cup {0}]

IdleSync == [pc |-> "idle", card |-> [p \in Ids |-> "None"], until |-> 0,
             fee |-> FALSE, rows |-> {}, cur |-> 0]

\* The stamps an operation that writes now may carry.
Stamps == {t \in 0..now : t + LockWait >= now}

Init ==
    /\ RolesInit
    /\ now = 0
    /\ claims = {}
    /\ status = [p \in Ids |-> "none"]
    /\ proposer = [p \in Ids |-> Host]
    /\ linked = [p \in Ids |-> FALSE]
    /\ shipped = [p \in Ids |-> FALSE]
    /\ receipts = [p \in Ids |-> 0]
    /\ next_proposal_seq = 1
    /\ cooldown_until = 0
    /\ fee_ok = FALSE
    /\ chain = [p \in Ids |-> "None"]
    /\ chain_cooldown = 0
    /\ sync = [s \in Syncers |-> IdleSync]
    /\ quiet_until = 0

-----------------------------------------------------------------------------
(* rules.py: checks on the stored state, with the caller's stamp t.        *)

open_proposals == {p \in Ids : status[p] \in OpenStatuses}

open_proposals_of(a) == {p \in open_proposals : proposer[p] = a}

\* A claim is dead at exactly expires_at.
active_claims(t) == {c \in claims : c.expires_at > t}

claims_of(a, t) == {c \in active_claims(t) : c.agent = a}

check_cooldown(t) == t >= cooldown_until

\* check_proposable_asset always allows: this is a USDG fund.
may_draft(a, t) == can_act(a) /\ fee_ok /\ check_cooldown(t)

\* Mutant: other agents' claims do not count toward the slots.
check_claim_open_only(a, topic, t) ==
    /\ may_draft(a, t)
    /\ Cardinality(open_proposals_of(a)) < MaxOpenPerAgent
    /\ \A c \in active_claims(t) : c.topic = topic => c.agent = a
    /\ \A c \in claims_of(a, t) : c.topic = topic
    /\ claims_of(a, t) = {} => Cardinality(open_proposals) < MaxOpen

\* Mutant: an agent may claim its next topic while its proposal is open.
check_claim_next(a, topic, t) ==
    /\ may_draft(a, t)
    /\ \A c \in active_claims(t) : c.topic = topic => c.agent = a
    /\ \A c \in claims_of(a, t) : c.topic = topic
    /\ claims_of(a, t) = {} =>
         Cardinality(open_proposals) + Cardinality(active_claims(t)) < MaxOpen

\* Mutant: nobody looks who holds the topic.
check_claim_shared(a, topic, t) ==
    /\ may_draft(a, t)
    /\ Cardinality(open_proposals_of(a)) < MaxOpenPerAgent
    /\ \A c \in claims_of(a, t) : c.topic = topic
    /\ claims_of(a, t) = {} =>
         Cardinality(open_proposals) + Cardinality(active_claims(t)) < MaxOpen

check_claim(a, topic, t) ==
    /\ may_draft(a, t)
    /\ Cardinality(open_proposals_of(a)) < MaxOpenPerAgent
    /\ \A c \in active_claims(t) : c.topic = topic => c.agent = a
    /\ \A c \in claims_of(a, t) : c.topic = topic
    /\ claims_of(a, t) = {} =>
         Cardinality(open_proposals) + Cardinality(active_claims(t)) < MaxOpen

check_draft(a, topic, t) ==
    /\ may_draft(a, t)
    /\ Cardinality(open_proposals_of(a)) < MaxOpenPerAgent
    /\ Cardinality(open_proposals) < MaxOpen
    /\ claims_of(a, t) # {}
    /\ \A c \in claims_of(a, t) : c.topic = topic

\* _start_cooldown: never shortens a cooldown that runs longer.
start_cooldown(t) ==
    /\ cooldown_until' = IF t + CooldownPeriod > cooldown_until
                         THEN t + CooldownPeriod ELSE cooldown_until
    /\ quiet_until' = now + CooldownPeriod - LockWait

-----------------------------------------------------------------------------
(* service.py: one action per write operation of the fund.                 *)

RequestAgent(a) ==
    /\ Request(a)
    /\ UNCHANGED <<now, localVars, chainVars, sync>>

ApproveAgent(a) ==
    /\ Approve(a) \/ Register(a)
    /\ UNCHANGED <<now, localVars, chainVars, sync>>

\* Mutant: the removed agent's drafts stay open.
RemoveAgentOnly(a) ==
    /\ Remove(a)
    /\ claims' = {c \in claims : c.agent # a}
    /\ UNCHANGED <<now, status, proposer, linked, shipped, receipts, next_proposal_seq,
                   cooldown_until, fee_ok, quiet_until, chainVars, sync>>

\* Proposals already on-chain keep running.
RemoveAgent(a) ==
    /\ Remove(a)
    /\ claims' = {c \in claims : c.agent # a}
    /\ status' = [p \in Ids |-> IF proposer[p] = a /\ status[p] = "draft"
                                THEN "cancelled" ELSE status[p]]
    /\ UNCHANGED <<now, proposer, linked, shipped, receipts, next_proposal_seq,
                   cooldown_until, fee_ok, quiet_until, chainVars, sync>>

\* fund_setup with agent_fee_bps: check_agent_fee refuses a fee above the cap.
FundSetup ==
    /\ fee_ok' = TRUE
    /\ UNCHANGED <<role, now, claims, status, proposer, linked, shipped, receipts,
                   next_proposal_seq, cooldown_until, quiet_until, chainVars, sync>>

\* Dead claims are dropped, the agent's own claim is refreshed, or a new one
\* is appended.  request_draft replaces the agent's claim: the same outcome
\* once whose pitch it was is left out.
ClaimTopic(a, topic, t) ==
    /\ check_claim(a, topic, t)
    /\ claims' = (active_claims(t) \ claims_of(a, t))
                   \cup {[agent |-> a, topic |-> topic, expires_at |-> t + ClaimTTL]}
    /\ UNCHANGED <<role, now, status, proposer, linked, shipped, receipts,
                   next_proposal_seq, cooldown_until, fee_ok, quiet_until, chainVars, sync>>

\* Releasing drops every dead claim too, whoever holds it; with no topic named
\* it drops whatever the agent holds.
ReleaseClaim(a, want, t) ==
    /\ claims' = {c \in active_claims(t) : ~(c.agent = a /\ c.topic \in want)}
    /\ UNCHANGED <<role, now, status, proposer, linked, shipped, receipts,
                   next_proposal_seq, cooldown_until, fee_ok, quiet_until, chainVars, sync>>

\* Recording the draft consumes the claim.
DraftProposal(a, topic, t) ==
    /\ check_draft(a, topic, t)
    /\ next_proposal_seq \in Ids
    /\ status' = [status EXCEPT ![next_proposal_seq] = "draft"]
    /\ proposer' = [proposer EXCEPT ![next_proposal_seq] = a]
    /\ next_proposal_seq' = next_proposal_seq + 1
    /\ claims' = active_claims(t) \ claims_of(a, t)
    /\ UNCHANGED <<role, now, linked, shipped, receipts, cooldown_until, fee_ok,
                   quiet_until, chainVars, sync>>

\* Mutant: shipping a draft forgets the cooldown.
ShipDraftHot(p, t) ==
    /\ status[p] = "draft"
    /\ shipped' = [shipped EXCEPT ![p] = TRUE]
    /\ UNCHANGED <<role, now, claims, status, proposer, linked, receipts,
                   next_proposal_seq, cooldown_until, fee_ok, quiet_until, chainVars, sync>>

\* The host's "ship it": no status changes, nothing is signed.
ShipDraft(p, t) ==
    /\ status[p] = "draft"
    /\ check_cooldown(t)
    /\ shipped' = [shipped EXCEPT ![p] = TRUE]
    /\ UNCHANGED <<role, now, claims, status, proposer, linked, receipts,
                   next_proposal_seq, cooldown_until, fee_ok, quiet_until, chainVars, sync>>

\* _require_proposer_or_host.
proposer_or_host(a, p) == \/ a = proposer[p] /\ can_act(a)
                          \/ a # proposer[p] /\ a = Host

\* Any status may be asked for: the handler passes what it was given, and the
\* life cycle alone decides.  "settled" goes through here without a receipt and
\* without a cooldown.  link: the caller passes the on-chain id.
SetProposalStatus(a, p, new, link, t) ==
    /\ status[p] # "none"
    /\ proposer_or_host(a, p)
    /\ check_transition(status[p], new)
    /\ status[p] = "draft" /\ new = "proposed" => check_cooldown(t)
    /\ status' = [status EXCEPT ![p] = new]
    /\ linked' = [linked EXCEPT ![p] = @ \/ link]
    /\ IF new = "vetoed" THEN start_cooldown(t)
                         ELSE UNCHANGED <<cooldown_until, quiet_until>>
    /\ UNCHANGED <<role, now, claims, proposer, shipped, receipts, next_proposal_seq,
                   fee_ok, chainVars, sync>>

\* Mutant: settling again is not refused.
RecordSettleAgain(a, p, t) ==
    /\ status[p] \in {"executed", "settled"}
    /\ proposer_or_host(a, p)
    /\ status' = [status EXCEPT ![p] = "settled"]
    /\ receipts[p] < 2 /\ receipts' = [receipts EXCEPT ![p] = @ + 1]
    /\ start_cooldown(t)
    /\ UNCHANGED <<role, now, claims, proposer, linked, shipped, next_proposal_seq,
                   fee_ok, chainVars, sync>>

RecordSettle(a, p, t) ==
    /\ status[p] # "none"
    /\ proposer_or_host(a, p)
    /\ check_transition(status[p], "settled")
    /\ status' = [status EXCEPT ![p] = "settled"]
    /\ receipts' = [receipts EXCEPT ![p] = @ + 1]
    /\ start_cooldown(t)
    /\ UNCHANGED <<role, now, claims, proposer, linked, shipped, next_proposal_seq,
                   fee_ok, chainVars, sync>>

Tick ==
    /\ now < MaxTime
    /\ now' = now + 1
    /\ UNCHANGED <<role, localVars, chainVars, sync>>

-----------------------------------------------------------------------------
(* The chain (external) and ChainSync.sync / apply_chain_card.             *)

\* The governor moves a proposal; it enforces its own cooldown.
GovernorStep(p, new) ==
    /\ new \in GovernorSteps(chain[p])
    /\ new = "Pending" => status[p] # "none" /\ now >= chain_cooldown
    /\ chain' = [chain EXCEPT ![p] = new]
    /\ chain_cooldown' = IF new \in {"Rejected", "Settled"}
                         THEN now + CooldownPeriod ELSE chain_cooldown
    /\ UNCHANGED <<role, now, localVars, sync>>

\* get_proposal finds a linked proposal at a stage worth a read and the
\* tx-builder answers.  A failed read changes nothing.
SyncFetch(s, fee) ==
    /\ sync[s].pc = "idle"
    /\ \E p \in Ids : linked[p] /\ status[p] \in SyncedStatuses
    /\ sync' = [sync EXCEPT ![s] = [IdleSync EXCEPT !.pc = "fund", !.card = chain,
                                        !.until = chain_cooldown, !.fee = fee]]
    /\ UNCHANGED <<role, now, localVars, chainVars>>

\* fund_mutate: the card's cooldown and fee replace the local ones.  The card is
\* taken to carry both (the tx-builder always sends them); the veto threshold and
\* the length of the cooldown, which it may replace too, are left out.
SyncFund(s) ==
    /\ sync[s].pc = "fund"
    /\ cooldown_until' = sync[s].until
    /\ fee_ok' = sync[s].fee
    /\ sync' = [sync EXCEPT ![s].pc = "load"]
    /\ UNCHANGED <<role, now, claims, status, proposer, linked, shipped, receipts,
                   next_proposal_seq, quiet_until, chainVars>>

\* The load that decides which rows have a local record.
SyncLoad(s) ==
    /\ sync[s].pc = "load"
    /\ LET rows == {p \in Ids : linked[p] /\ sync[s].card[p] # "None"}
       IN  sync' = [sync EXCEPT ![s] = IF rows = {} THEN IdleSync
                                       ELSE [@ EXCEPT !.pc = "rows", !.rows = rows]]
    /\ UNCHANGED <<role, now, localVars, chainVars>>

\* Is this row a legal step from the status just loaded?
row_moves(s, p) ==
    LET target == ChainTarget(sync[s].card[p])
    IN  target # "" /\ check_transition(status[p], target)

\* What a syncer holds once row p is done.
after_row(s, p) ==
    LET left == sync[s].rows \ {p}
    IN  IF left = {} THEN IdleSync
        ELSE [sync[s] EXCEPT !.pc = "rows", !.rows = left, !.cur = 0]

\* One row of the card: what set_chain_state stores of it (tallies and windows)
\* is left out; then the file is loaded again and the transition checked.  The
\* lock is released before that transition is written.
SyncCheck(s, p) ==
    /\ sync[s].pc = "rows" /\ p \in sync[s].rows
    /\ sync' = [sync EXCEPT ![s] = IF row_moves(s, p)
                                   THEN [@ EXCEPT !.pc = "write", !.cur = p]
                                   ELSE after_row(s, p)]
    /\ UNCHANGED <<role, now, localVars, chainVars>>

\* _chain_status: a second update that writes the target whatever the status is.
SyncWrite(s, t) ==
    /\ sync[s].pc = "write"
    /\ LET p == sync[s].cur
           target == ChainTarget(sync[s].card[p])
       IN  /\ status' = [status EXCEPT ![p] = target]
           /\ IF target = "vetoed" THEN start_cooldown(t)
                                   ELSE UNCHANGED <<cooldown_until, quiet_until>>
           /\ sync' = [sync EXCEPT ![s] = after_row(s, p)]
    /\ UNCHANGED <<role, now, claims, proposer, linked, shipped, receipts,
                   next_proposal_seq, fee_ok, chainVars>>

\* A LockTimeout at any update or load ends the sync where it is (caught in
\* ChainSync.sync); what was written stays written.
SyncAbort(s) ==
    /\ sync[s].pc # "idle"
    /\ sync' = [sync EXCEPT ![s] = IdleSync]
    /\ UNCHANGED <<role, now, localVars, chainVars>>

-----------------------------------------------------------------------------
\* The proposals an agent can know an on-chain id of.
on_chain(p) == chain[p] # "None"

AgentNext(a) ==
    \/ RequestAgent(a) \/ ApproveAgent(a) \/ RemoveAgent(a)
    \/ \E t \in Stamps :
         \/ \E topic \in Topics : \/ ClaimTopic(a, topic, t)
                                  \/ ReleaseClaim(a, {topic}, t)
                                  \/ DraftProposal(a, topic, t)
         \/ ReleaseClaim(a, Topics, t)
         \/ \E p \in Ids :
              \/ \E new \in Statuses, link \in {FALSE, on_chain(p)} :
                    SetProposalStatus(a, p, new, link, t)
              \/ RecordSettle(a, p, t)

\* A fund whose Hermes never runs register_platform_handler: no chain reads.
LocalNext ==
    \/ \E a \in Agents : AgentNext(a)
    \/ \E p \in Ids, t \in Stamps : ShipDraft(p, t)
    \/ FundSetup
    \/ Tick

SyncNext(s) ==
    \/ \E fee \in BOOLEAN : SyncFetch(s, fee)
    \/ SyncFund(s)
    \/ SyncLoad(s)
    \/ \E p \in Ids : SyncCheck(s, p)
    \/ \E t \in Stamps : SyncWrite(s, t)
    \/ SyncAbort(s)

Next ==
    \/ LocalNext
    \/ \E p \in Ids, new \in GovernorStates : GovernorStep(p, new)
    \/ \E s \in Syncers : SyncNext(s)

LocalSpec == Init /\ [][LocalNext]_vars

Spec == Init /\ [][Next]_vars

-----------------------------------------------------------------------------
TypeOK ==
    /\ RolesTypeOK
    /\ now \in 0..MaxTime
    /\ claims \in SUBSET Claim
    /\ status \in [Ids -> Statuses \cup {"none"}]
    /\ proposer \in [Ids -> Agents]
    /\ linked \in [Ids -> BOOLEAN]
    /\ shipped \in [Ids -> BOOLEAN]
    /\ receipts \in [Ids -> Nat]
    /\ next_proposal_seq \in 1..(MaxProposals + 1)
    /\ cooldown_until \in Nat
    /\ fee_ok \in BOOLEAN
    /\ chain \in [Ids -> GovernorStates]
    /\ chain_cooldown \in Nat
    /\ sync \in [Syncers -> Sync]
    /\ quiet_until \in Int

\* The fund's slots are never oversubscribed: open proposals (drafts count) and
\* stored claims together fit in MAX_OPEN_PER_FUND, so every claim can still
\* become a draft.
SlotsBound == Cardinality(open_proposals) + Cardinality(claims) <= MaxOpen

\* One open proposal per agent, and an agent that has one holds no claim that
\* could become a second, not even across being removed and joining again.
OnePerAgent ==
    \A a \in Agents :
        /\ Cardinality(open_proposals_of(a)) <= MaxOpenPerAgent
        /\ open_proposals_of(a) # {} => \A c \in claims : c.agent # a

\* A proposal has at most one settle receipt, and only once it is settled, however
\* often record_settle and set_proposal_status are called and in whatever order:
\* the leaderboard adds up receipts.
ReceiptPerSettle ==
    \A p \in Ids : receipts[p] = 0 \/ (receipts[p] = 1 /\ status[p] = "settled")

\* "drafting X" means one agent: no two stored claims share a topic or an agent,
\* whatever stamps the operations carried.
ClaimsExclusive ==
    \A c, d \in claims : c.topic = d.topic \/ c.agent = d.agent => c = d

\* A removed agent holds neither a claim nor a draft, so it blocks no slot that
\* only it could free.
RemovedHoldsNothing ==
    \A a \in Agents : role[a] = "removed" =>
        /\ \A c \in claims : c.agent # a
        /\ \A p \in Ids : proposer[p] = a => status[p] # "draft"

\* A new or refreshed claim, a draft, a draft that goes on-chain, a "ship it".
StartsWork ==
    \/ claims' \ claims # {}
    \/ \E p \in Ids : status'[p] # status[p] /\ status'[p] \in {"draft", "proposed"}
    \/ shipped' # shipped

\* Nothing new is started before the cooldown after the last veto, or settle
\* recorded with record_settle, has passed, measured from the moment that veto or
\* settle was written (less the time its update may have waited for the lock).
CooldownRespected == [][StartsWork => now >= quiet_until]_vars

\* What was closed without ever reaching the chain stays closed: no chain read,
\* however stale, reopens it.
UnlinkedStaysClosed ==
    [][\A p \in Ids : ~linked[p] /\ status[p] \in TerminalStatuses
                        => status'[p] = status[p]]_vars

=============================================================================
