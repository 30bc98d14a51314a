----------------------------- MODULE AgentRoles -----------------------------
(***************************************************************************)
(* What the fund promises about the co-managing agents, one role per agent *)
(* name.  fund/service.py keeps a list of records with the flags approved, *)
(* registered and removed; this module only keeps what those flags say.    *)
(* FundCoordination builds on it, FundRoster implements it.                *)
(***************************************************************************)
CONSTANTS Agents,   \* the agent names that ever speak to this fund
          Host      \* the agent that create_fund registers as the host

ASSUME HostAssumption == Host \in Agents

VARIABLE role       \* role[a]: what the flags of a's record say

Roles == {"absent", "requested", "approved", "registered", "removed"}

\* create_fund: the host's own agent is registered with the vault.
RolesInit == role = [a \in Agents |-> IF a = Host THEN "registered" ELSE "absent"]

\* request_agent: a newcomer or a removed agent asks; asking again while the
\* request is pending only refreshes identity and wallet.
Request(a) ==
    \/ /\ role[a] \in {"absent", "removed"}
       /\ role' = [role EXCEPT ![a] = "requested"]
    \/ /\ role[a] \in {"requested", "approved"}
       /\ UNCHANGED role

\* approve_agent without a transaction hash: the host says yes, nothing is
\* registered with the vault yet.
Approve(a) ==
    /\ role[a] \in {"requested", "approved"}
    /\ role' = [role EXCEPT ![a] = "approved"]

\* approve_agent with the hash of the registerAgent transaction.
Register(a) ==
    /\ role[a] \in {"requested", "approved"}
    /\ role' = [role EXCEPT ![a] = "registered"]

\* remove_agent; check_remove_agent refuses the host.
Remove(a) ==
    /\ a # Host
    /\ role[a] \notin {"absent", "removed"}
    /\ role' = [role EXCEPT ![a] = "removed"]

\* check_agent_can_act with need_registered.
can_act(a) == role[a] = "registered"

RolesNext == \E a \in Agents : Request(a) \/ Approve(a) \/ Register(a) \/ Remove(a)

RolesSpec == RolesInit /\ [][RolesNext]_role

RolesTypeOK == role \in [Agents -> Roles]

=============================================================================
