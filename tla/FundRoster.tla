----------------------------- MODULE FundRoster -----------------------------
(***************************************************************************)
(* state.agents as fund/service.py keeps it: a list of records searched    *)
(* from the front, by name or by wallet.  A removed agent stays in the     *)
(* list until it asks again, and then moves to the end of it.              *)
(*                                                                         *)
(* Every action is one backend.update().  A refused call changes nothing,  *)
(* so the caller's Telegram id and the identity id (checked, then only     *)
(* copied) are left out.  Names and wallets compare without case.          *)
(***************************************************************************)
EXTENDS Naturals, Sequences, SequencesExt

CONSTANTS Agents,       \* agent names
          Host,         \* the name of the host's agent
          Wallets,      \* 0x addresses an agent may bring
          HostWallet    \* the address the host's agent is created with

ASSUME RosterAssumption == Host \in Agents /\ HostWallet \in Wallets

VARIABLE agents         \* state.agents

Agent == [name : Agents, address : Wallets, role : {"host", "guest"},
          approved : BOOLEAN, registered : BOOLEAN, removed : BOOLEAN]

\* create_fund: the vault owner registers its own agent at creation.
RosterInit == agents = <<[name |-> Host, address |-> HostWallet, role |-> "host",
                    approved |-> TRUE, registered |-> TRUE, removed |-> FALSE]>>

-----------------------------------------------------------------------------
(* Lookups: the position of the first match, 0 when there is none.         *)

agent(name) == SelectInSeq(agents, LAMBDA r : r.name = name)

agent_by_address(address) == SelectInSeq(agents, LAMBDA r : r.address = address)

\* state.agent(who) or state.agent_by_address(who)
target(who) == IF agent(who) # 0 THEN agent(who) ELSE agent_by_address(who)

check_host_action(actor) ==
    LET i == agent(actor)
    IN  i # 0 /\ ~agents[i].removed /\ agents[i].role = "host"

\* address_taken: only the first agent with that wallet is looked at.
address_free(name, address) ==
    LET i == agent_by_address(address)
    IN  i # 0 => agents[i].name = name \/ agents[i].removed

check_request(name) ==
    LET i == agent(name) IN i # 0 => agents[i].removed \/ ~agents[i].registered

-----------------------------------------------------------------------------
(* The operations.                                                         *)

newcomer(name, address) ==
    [name |-> name, address |-> address, role |-> "guest",
     approved |-> FALSE, registered |-> FALSE, removed |-> FALSE]

\* Mutant: a removed agent that asks again gets its old flags back.
RequestAgentRevive(name, address) ==
    LET i == agent(name)
    IN  /\ address_free(name, address)
        /\ check_request(name)
        /\ \/ /\ i = 0
              /\ agents' = Append(agents, newcomer(name, address))
           \/ /\ i # 0
              /\ agents' = [agents EXCEPT ![i].address = address, ![i].removed = FALSE]

\* Asking again before registration refreshes the wallet and keeps `approved`.
RequestAgent(name, address) ==
    LET i == agent(name)
    IN  /\ address_free(name, address)
        /\ check_request(name)
        /\ \/ /\ i = 0
              /\ agents' = Append(agents, newcomer(name, address))
           \/ /\ i # 0 /\ agents[i].removed
              /\ agents' = Append(RemoveAt(agents, i), newcomer(name, address))
           \/ /\ i # 0 /\ ~agents[i].removed
              /\ agents' = [agents EXCEPT ![i].address = address]

\* tx_hash says whether the hash of registerAgent came with the call.
ApproveAgent(actor, who, tx_hash) ==
    LET i == target(who)
    IN  /\ check_host_action(actor)
        /\ i # 0 /\ ~agents[i].removed /\ ~agents[i].registered
        /\ agents' = [agents EXCEPT ![i].approved = TRUE, ![i].registered = tx_hash]

RemoveAgent(actor, who) ==
    LET i == target(who)
    IN  /\ check_host_action(actor)
        /\ i # 0 /\ ~agents[i].removed /\ agents[i].role # "host"
        /\ agents' = [agents EXCEPT ![i].removed = TRUE]

RosterNext ==
    \/ \E name \in Agents, address \in Wallets : RequestAgent(name, address)
    \/ \E actor \in Agents, who \in Agents \cup Wallets, tx_hash \in BOOLEAN :
         ApproveAgent(actor, who, tx_hash)
    \/ \E actor \in Agents, who \in Agents \cup Wallets : RemoveAgent(actor, who)

RosterSpec == RosterInit /\ [][RosterNext]_agents

-----------------------------------------------------------------------------
(* Properties.                                                             *)

\* The list holds at most one record per name, so a name never has two roles.
RosterTypeOK ==
    /\ agents \in Seq(Agent)
    /\ \A i, j \in DOMAIN agents : agents[i].name = agents[j].name => i = j

\* What the flags of a record say about the agent's role.
role_of(name) ==
    LET i == agent(name) IN
    CASE i = 0 -> "absent"
      [] i # 0 /\ agents[i].removed -> "removed"
      [] i # 0 /\ ~agents[i].removed /\ agents[i].registered -> "registered"
      [] i # 0 /\ ~agents[i].removed /\ ~agents[i].registered /\ agents[i].approved -> "approved"
      [] OTHER -> "requested"

Abstract == INSTANCE AgentRoles WITH role <- [name \in Agents |-> role_of(name)]

\* The list with its flags implements the roles of AgentRoles: whatever the
\* lookup (by name or by wallet) and whatever the order of the list, a call moves
\* exactly one agent along one edge of the promised life cycle, the host never.
RolesKept == Abstract!RolesSpec

=============================================================================
