------------------------------ MODULE ToolGate ------------------------------
(***************************************************************************)
(* What stands between a tool call of the agent and its effect: the        *)
(* pre_tool_call hook (the fund guard, then the risk check of a propose    *)
(* command), Hermes' approval prompt, the gate at the start of a           *)
(* host-authority tool and the checks inside its locked update.            *)
(*                                                                         *)
(* Calls of several turns interleave, a prompt may wait as long as the     *)
(* human likes, `vault info` takes its time, and the operator may rebind   *)
(* the fund's host at any moment.                                          *)
(*                                                                         *)
(* An action has an argument and a rest: the argument stands for the keys  *)
(* in APPROVAL_KEYS, the rest for the tool's other arguments.  Tools with  *)
(* the same checks are one: "approve" stands for fund_approve_member,      *)
(* fund_approve_agent and fund_remove_agent, "status" for                  *)
(* fund_set_proposal_status and fund_record_settle.  A propose command     *)
(* has the size it deploys, and the form in which it gives that size to    *)
(* the parser of the hook.  Left out: what the tools write                 *)
(* (FundCoordination, FundMembers), the draft guard (check_draft there),   *)
(* whether this Hermes' agent is the fund's host agent (AgentRoles), the   *)
(* wording of refusals, a stripped environment.                            *)
(***************************************************************************)
EXTENDS Integers, FiniteSets

CONSTANTS People,           \* Telegram ids
          Owner,            \* owner_telegram_id of the settings
          Operator,         \* CLI, TUI, cron: no chat
          Stranger,         \* another chat platform
          Absent, Unset,    \* no fund; a fund without a host; as an argument: none
          Calls,            \* tool calls in flight
          Aum, Sizes,       \* the vault's value; sizes of proposals
          MaxTurns, MaxProposals, MaxBinds  \* bounds: fund tool calls, propose commands,
                                            \* rebinds from the operator's shell

ASSUME GateAssumption ==
    /\ Owner \in People /\ Operator \notin People /\ Stranger \notin People
    /\ Absent \notin People /\ Unset \notin People /\ Absent # Unset /\ Operator # Stranger
    /\ Aum \in Nat /\ Sizes \subseteq Nat /\ MaxTurns \in Nat /\ MaxProposals \in Nat /\ MaxBinds \in Nat

VARIABLES
    host,       \* fund.host_telegram_id, Unset or Absent
    call,       \* the calls; history in it: a human said yes, the caller was host at the start
    allow,      \* external: Hermes' allowlist, the keys answered "always"
    always,     \* history: the actions answered "always"
    ran,        \* history: host-authority writes
    binder,     \* history: who changed a host that was set
    deployed,   \* external: capital deployed; history: by how its proposals passed the hook
    pending,    \* proposals created and not yet executed or closed
    risk,       \* this behaviour is about propose commands; they share no state with the rest
    turns, binds

vars == <<host, call, allow, always, ran, binder, deployed, pending, risk, turns, binds>>

Callers == People \cup {Operator, Stranger}

HOST_TOOLS == {"fund_setup", "approve", "status"}

Args == People \cup {Unset}

\* fund_setup has host_address and metadata_uri beside the keys, fund_set_proposal_status
\* card_message_id and fund_record_vote a note; the others have nothing.
Action == {act \in [tool : HOST_TOOLS \cup {"fund_record_vote", "fund-bind"}, arg : Args, rest : {0, 1}] :
             act.tool \in {"approve", "fund-bind"} => act.rest = 0}

\* How _parse_propose_command sees the size: as it is, as 0 (no --size-usd, an "=", no
\* number), negative, as NaN, or not at all (shlex fails, the pattern does not match).
Forms == {"plain", "zero", "negative", "nan", "none"}

\* A propose command: its size, and whether its protocol is in the vault's mandate.
Command == [tool : {"propose"}, arg : [size : Sizes, mandated : BOOLEAN, form : Forms]]

\* How a proposal passed: its size judged, with no other such proposal under way; its size
\* judged beside one; or its size not judged.
Passes == {"judged", "beside", "unjudged"}

Call == [pc : {"idle", "hook", "prompt", "run", "write", "fetch", "create"},
         caller : Callers, act : Action \cup Command, hidden : BOOLEAN,
         asked : BOOLEAN, exact : BOOLEAN, held : BOOLEAN, no : Nat, pass : Passes]

NoCall == [pc |-> "idle", caller |-> Operator, act |-> [tool |-> "status", arg |-> Unset, rest |-> 0],
           hidden |-> FALSE, asked |-> FALSE, exact |-> FALSE, held |-> FALSE, no |-> 0,
           pass |-> "unjudged"]

Init ==
    /\ host \in {Absent, Unset} \cup People
    /\ call = [c \in Calls |-> NoCall]
    /\ allow = {} /\ always = {} /\ ran = {} /\ binder = {}
    /\ deployed = [k \in Passes |-> 0] /\ pending = {} /\ risk \in BOOLEAN
    /\ turns = 0 /\ binds = 0

-----------------------------------------------------------------------------
messaging(caller) == caller # Operator

\* The host on record, else the owner of the settings.
expected_host == IF host \in People THEN host ELSE Owner

check_caller(caller) == ~messaging(caller) \/ caller = expected_host

check_member_vote_caller(caller, voter) == (caller \in People /\ caller = voter) \/ check_caller(caller)

\* Inside an update: no Telegram id, or the host's.
check_caller_is_host(caller) == caller \notin People \/ caller = host

\* Does the action use the host's authority?
authority(caller, act) ==
    \/ act.tool \in HOST_TOOLS
    \/ act.tool = "fund_record_vote" /\ act.arg # Unset /\ caller # act.arg

\* Mutant: the tool's name is the key.
tool_key(act) == act.tool

\* approval_rule_key: one key for all actions that agree in APPROVAL_KEYS.
approval_rule_key(act) == <<act.tool, act.arg>>

\* What the prompt shows of an action.
approve_directive(act) == <<act.tool, act.arg>>

goto(c, pc) == call' = [call EXCEPT ![c].pc = pc]

done(c) == call' = [call EXCEPT ![c] = NoCall]

\* The hook lets a propose command run.
lets(c, pass) == call' = [call EXCEPT ![c].pc = "create", ![c].pass = pass]

gate == <<host, allow, always, ran, binder>>

vault == <<deployed, pending, risk>>

-----------------------------------------------------------------------------
\* The agent calls a tool in a turn somebody started.
Turn(c) ==
    /\ call[c].pc = "idle" /\ turns < (IF risk THEN MaxProposals ELSE MaxTurns)
    /\ turns' = turns + 1
    /\ \E caller \in Callers, act \in IF risk THEN Command ELSE Action, hidden \in BOOLEAN :
        /\ risk => caller = Operator            \* nobody asks who proposes
        /\ hidden => act.tool = "fund-bind"     \* the command's text hides its marker
        /\ call' = [call EXCEPT ![c] = [NoCall EXCEPT !.pc = "hook", !.caller = caller,
                                                      !.act = act, !.hidden = hidden, !.no = turns']]
    /\ UNCHANGED <<gate, vault, binds>>

\* The fund guard: rebind_block, then host_directive; a guard that cannot read the
\* fund or raises blocks the call.
Guard(c) ==
    /\ call[c].pc = "hook"
    /\ LET caller == call[c].caller
           act == call[c].act IN
       \/ /\ act.tool = "propose"
          /\ IF act.arg.form = "none" THEN lets(c, "unjudged") ELSE goto(c, "fetch")
       \/ /\ act.tool = "fund-bind"
          /\ IF messaging(caller) /\ ~call[c].hidden THEN done(c) ELSE goto(c, "run")
       \/ /\ act.tool = "fund_record_vote" /\ ~authority(caller, act) /\ goto(c, "run")
       \/ /\ authority(caller, act)
          /\ IF check_caller(caller) THEN goto(c, "prompt") ELSE done(c)
       \/ /\ authority(caller, act) /\ done(c)
    /\ UNCHANGED <<gate, vault, turns, binds>>

\* External: Hermes runs what is on its allowlist and asks the human about the rest.
Prompt(c) ==
    /\ call[c].pc = "prompt"
    /\ LET act == call[c].act
           key == approval_rule_key(act) IN
       \/ /\ key \in allow
          /\ call' = [call EXCEPT ![c].pc = "run", ![c].exact = act \in always,
                      ![c].asked = \E a \in always : approve_directive(a) = approve_directive(act)]
          /\ UNCHANGED <<allow, always>>
       \/ /\ key \notin allow /\ done(c) /\ UNCHANGED <<allow, always>>
       \/ /\ key \notin allow
          /\ call' = [call EXCEPT ![c].pc = "run", ![c].exact = TRUE, ![c].asked = TRUE]
          /\ \/ UNCHANGED <<allow, always>>
             \/ allow' = allow \cup {key} /\ always' = always \cup {act}
    /\ UNCHANGED <<host, ran, binder, vault, turns, binds>>

-----------------------------------------------------------------------------
\* Mutant: the hook's check is enough.
ungated(caller, act) == TRUE

\* host_gate, or the vote's own check, when the tool starts; no update needs the chat's
\* caller for an agent's review.
host_gate(caller, act) ==
    CASE act.tool \in HOST_TOOLS -> check_caller(caller)
      [] act.tool = "fund_record_vote" -> act.arg = Unset \/ check_member_vote_caller(caller, act.arg)
      [] act.tool = "fund-bind" -> ~messaging(caller)

Run(c) ==
    /\ call[c].pc = "run"
    /\ IF host_gate(call[c].caller, call[c].act)
       THEN call' = [call EXCEPT ![c].pc = "write", ![c].held = check_caller(call[c].caller)]
       ELSE done(c)
    /\ UNCHANGED <<gate, vault, turns, binds>>

\* Mutant: fund_setup sets what it is given.
unlocked(arg) == TRUE

\* LOCKED_FUND_FIELDS: a host that is set stays.
locked_ok(arg) == arg = Unset \/ host \notin People \/ arg = host

note(c) ==
    IF authority(call[c].caller, call[c].act)
    THEN ran' = ran \cup {[tool |-> call[c].act.tool, caller |-> call[c].caller, host |-> host,
                           asked |-> call[c].asked, exact |-> call[c].exact, held |-> call[c].held]}
    ELSE UNCHANGED ran

set_host(caller, h) ==
    /\ host' = h
    /\ binder' = IF host \in People /\ h # host THEN binder \cup {caller} ELSE binder

\* fund_setup: the fund is created, or what it lacks is filled in.
WriteSetup(c) ==
    /\ call[c].pc = "write" /\ call[c].act.tool = "fund_setup"
    /\ LET arg == call[c].act.arg IN
       IF locked_ok(arg)
       THEN /\ set_host(call[c].caller, IF arg = Unset /\ host # Absent THEN host ELSE arg)
            /\ note(c)
       ELSE UNCHANGED <<host, binder, ran>>
    /\ done(c)
    /\ UNCHANGED <<allow, always, vault, turns, binds>>

\* The tools that look at the caller again under the lock, and those that do not.
WriteFund(c) ==
    /\ call[c].pc = "write" /\ call[c].act.tool \in {"approve", "status", "fund_record_vote"}
    /\ IF host # Absent /\ (call[c].act.tool = "approve" => check_caller_is_host(call[c].caller))
       THEN note(c) ELSE UNCHANGED ran
    /\ done(c)
    /\ UNCHANGED <<host, allow, always, binder, vault, turns, binds>>

\* fund-bind through the terminal tool.
WriteBind(c) ==
    /\ call[c].pc = "write" /\ call[c].act.tool = "fund-bind"
    /\ IF host # Absent /\ call[c].act.arg # Unset
       THEN set_host(call[c].caller, call[c].act.arg) ELSE UNCHANGED <<host, binder>>
    /\ done(c)
    /\ UNCHANGED <<allow, always, ran, vault, turns, binds>>

\* fund-bind in the operator's own shell.
FundBind ==
    /\ ~risk /\ host # Absent /\ binds < MaxBinds /\ binds' = binds + 1
    /\ \E p \in People \ {host} : set_host(Operator, p)
    /\ UNCHANGED <<call, allow, always, ran, vault, turns>>

-----------------------------------------------------------------------------
\* `vault info`: what is deployed, however it passed.
exposure == deployed["judged"] + deployed["beside"] + deployed["unjudged"]

\* What _parse_propose_command makes of the size: a number, or NaN, no number, which
\* exceeds no limit.
parsed(arg) == CASE arg.form = "plain" -> {arg.size}
                 [] arg.form = "zero" -> {0}
                 [] arg.form = "negative" -> {-arg.size}
                 [] arg.form = "nan" -> {}

\* Mutant: what is deployed already is left out.
proposed_only(sizes) == \A size \in sizes : size * 100 <= 50 * Aum

\* MAX_TOTAL_EXPOSURE_PCT of the vault's value.
check_portfolio_exposure(sizes) == \A size \in sizes : (size + exposure) * 100 <= 50 * Aum

\* MAX_SINGLE_POSITION_PCT of it.
check_position_sizing(sizes) == \A size \in sizes : size * 100 <= 25 * Aum

\* A vault worth nothing is refused; the protocol must be in the mandate, if there is one.
evaluate_propose(sizes, mandated) ==
    Aum > 0 /\ check_position_sizing(sizes) /\ check_portfolio_exposure(sizes) /\ mandated

\* A proposal judged is still on its way to the vault.
under_way == (\E d \in Calls : call[d].pc = "create" /\ call[d].pass = "judged")
             \/ (\E p \in pending : p.pass = "judged")

\* The risk check: the vault's state is awaited and judged.
Fetch(c) ==
    /\ call[c].pc = "fetch"
    /\ LET arg == call[c].act.arg
           pass == CASE arg.form # "plain" -> "unjudged" [] under_way -> "beside" [] OTHER -> "judged" IN
       IF evaluate_propose(parsed(arg), arg.mandated)
       THEN lets(c, pass) ELSE done(c)
    /\ UNCHANGED <<gate, vault, turns, binds>>

\* The CLI is missing, fails, or answers what does not parse: no state, and the
\* command is allowed.
FetchFails(c) ==
    /\ call[c].pc = "fetch" /\ lets(c, "unjudged")
    /\ UNCHANGED <<gate, vault, turns, binds>>

\* External: the command runs and the proposal exists ...
Create(c) ==
    /\ call[c].pc = "create"
    /\ pending' = pending \cup {[no |-> call[c].no, size |-> call[c].act.arg.size, pass |-> call[c].pass]}
    /\ done(c)
    /\ UNCHANGED <<gate, deployed, risk, turns, binds>>

\* ... until it is executed, or vetoed.
Execute(p) ==
    /\ pending' = pending \ {p}
    /\ \/ deployed' = [deployed EXCEPT ![p.pass] = @ + p.size]
       \/ UNCHANGED deployed
    /\ UNCHANGED <<gate, call, risk, turns, binds>>

Next ==
    \/ \E c \in Calls : \/ Turn(c) \/ Guard(c) \/ Prompt(c) \/ Run(c)
                        \/ WriteSetup(c) \/ WriteFund(c) \/ WriteBind(c)
                        \/ Fetch(c) \/ FetchFails(c) \/ Create(c)
    \/ \E p \in pending : Execute(p)
    \/ FundBind

Spec == Init /\ [][Next]_vars

-----------------------------------------------------------------------------
TypeOK ==
    /\ host \in People \cup {Absent, Unset}
    /\ call \in [Calls -> Call]
    /\ binder \subseteq Callers /\ turns \in Nat
    /\ deployed \in [Passes -> Nat] /\ pending \subseteq [no : Nat, size : Sizes, pass : Passes]

\* Whatever writes with the host's authority was put before a human, now or when an
\* "always" was answered: this tool with all that its prompt shows.
AskedForThis == \A r \in ran : r.asked

\* "an "Always" covers only that exact action" (README.md:339): with all its arguments,
\* those APPROVAL_KEYS leaves out too.
AskedExactly == \A r \in ran : r.exact

\* A chat turn that used the host's authority was the host's when its tool started,
\* although the operator may rebind while the prompt waits; for an approval or a removal
\* it still was when the update was made.
HostHeld ==
    \A r \in ran : r.held /\ (r.tool = "approve" => r.caller \in {Operator, r.host})

\* A host that is set is only replaced from the operator's surfaces.
HostKept == binder \subseteq {Operator}

\* Proposals whose size was judged while no other such was under way never deploy more
\* than half of the vault, whatever passes beside them, unread or misread.
WithinLimit == deployed["judged"] * 100 <= 50 * Aum

\* "the plugin blocks if ... Total portfolio exposure > 50% of vault AUM" (README.md:360-363):
\* no more than half of the vault is deployed by proposals whose size was judged.
JudgedWithinLimit == (deployed["judged"] + deployed["beside"]) * 100 <= 50 * Aum
=============================================================================
