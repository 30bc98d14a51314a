--------------------------- MODULE FundLifecycle ---------------------------
(***************************************************************************)
(* The proposal life cycle of a group-chat fund: the statuses of            *)
(* fund/models.py, the legal steps of fund/rules.py and the chain states    *)
(* that fund/service.py translates into statuses.  Pure definitions; every  *)
(* module that moves a proposal uses these and no others.                   *)
(***************************************************************************)

\* PROPOSAL_STATUSES of models.py.
Statuses ==
    {"draft", "proposed", "voting", "passed", "review", "approved",
     "vetoed", "executed", "settled", "cancelled"}

\* OPEN_STATUSES: a draft already holds its agent's slot and one of the fund's.
OpenStatuses ==
    {"draft", "proposed", "voting", "passed", "review", "approved", "executed"}

\* TERMINAL_STATUSES.
TerminalStatuses == {"vetoed", "settled", "cancelled"}

\* TRANSITIONS of rules.py; a status that is not a key has no successor.
Transitions(old) ==
    CASE old = "draft"    -> {"proposed", "cancelled"}
      [] old = "proposed" -> {"voting", "passed", "review", "vetoed", "cancelled"}
      [] old = "voting"   -> {"passed", "review", "vetoed", "cancelled"}
      [] old = "passed"   -> {"review", "approved", "executed", "cancelled"}
      [] old = "review"   -> {"approved", "vetoed", "cancelled"}
      [] old = "approved" -> {"executed", "cancelled"}
      [] old = "executed" -> {"settled"}
      [] OTHER            -> {}

\* Mutant: only a repeated status is refused.
any_new(old, new) == old # new

check_transition(old, new) == new \in Transitions(old)

\* The statuses at which reading a card asks the chain (get_proposal).
SyncedStatuses == {"proposed", "voting", "review", "approved"}

\* The governor's proposal states, external; the four in DOMAIN of
\* CHAIN_STATES move the local status, the others are not listed there.
GovernorStates ==
    {"None", "Pending", "GuardianReview", "Approved", "Executed", "Rejected",
     "Settled"}

\* CHAIN_STATES.get(state): the local status a chain state moves a proposal
\* to, or "" when the read moves nothing.
ChainTarget(state) ==
    CASE state = "GuardianReview" -> "review"
      [] state = "Approved"       -> "approved"
      [] state = "Executed"       -> "executed"
      [] state = "Rejected"       -> "vetoed"
      [] OTHER                    -> ""

\* The governor's own order of states (external): voting, the guardian
\* review, execution, settlement; a veto or a guardian block rejects.
GovernorSteps(state) ==
    CASE state = "None"           -> {"Pending"}
      [] state = "Pending"        -> {"GuardianReview", "Rejected"}
      [] state = "GuardianReview" -> {"Approved", "Rejected"}
      [] state = "Approved"       -> {"Executed"}
      [] state = "Executed"       -> {"Settled"}
      [] OTHER                    -> {}

=============================================================================
