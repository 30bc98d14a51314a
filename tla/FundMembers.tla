----------------------------- MODULE FundMembers -----------------------------
(***************************************************************************)
(* The people of one fund: join requests, the host's approvals with their  *)
(* approveDepositor signing links, and the chat's votes and reviews on one *)
(* proposal.                                                               *)
(*                                                                         *)
(* Every write is one locked update of the fund's state (FundStore); the   *)
(* reads around it are not.  An approval is several of them in a row: the  *)
(* authorization, the lookup of the wallet the member linked in the app,   *)
(* its record, the approval, the link.  The button's and the tool's run in *)
(* threads of their own, next to the operator's fund-bind, which may give  *)
(* the fund another host at any time.                                      *)
(*                                                                         *)
(* Members are told apart by Telegram id (Users) and wallet (Wallets); the *)
(* empty string is None.  Left out: usernames, join times, the stamp on an *)
(* answered request card, transaction hashes, the number a wallet gets on  *)
(* chain, and the order of the lists of votes and reviews, which nobody    *)
(* reads: a list is kept as how often each entry is in it.                 *)
(***************************************************************************)
EXTENDS Naturals, Sequences, FiniteSets

CONSTANTS Users,        \* Telegram ids of people who are not host
          Hosts,        \* Telegram ids that may be the fund's host
          Wallets,      \* wallet addresses
          Agents,       \* registered agents other than the proposer
          Approvers,    \* threads that run an approval
          None,         \* no id, no wallet; as a caller: the operator's own shell
          MaxBinds,     \* bound: fund-bind calls
          MaxCalls,     \* bound: approvals begun
          MaxVotes      \* bound: votes and reviews written

ASSUME MemberAssumption ==
    /\ Users \cap Hosts = {} /\ Users \cap Wallets = {} /\ Hosts \cap Wallets = {}
    /\ None \notin Users \cup Hosts \cup Wallets
    /\ Hosts # {} /\ MaxBinds \in Nat /\ MaxCalls \in Nat /\ MaxVotes \in Nat

VARIABLES
    host,       \* fund.host_telegram_id
    members,    \* FundState.members, in order of appearance
    next_no,    \* FundState.next_member_no
    linked,     \* external: the wallet each user linked in the app
    asked,      \* _join_cards: users who asked within the hour
    joining,    \* users whose join tap has read the state and not yet written
    calls,      \* the approval each thread is in
    links,      \* history: depositors of the signing bodies handed out
    phase,      \* the proposal: "draft", "voting", "ended" (voting, window over), "closed"
    backers, objectors,     \* how often a voter is in either list
    reviews,    \* how often an agent's verdict is in the list
    tap,        \* a back tap between its read and its write
    binds, begun, written   \* how much of the bounds is used

people == <<host, members, next_no, linked, asked, joining, calls, links, binds, begun>>

votes == <<phase, backers, objectors, reviews, tap, written>>

vars == <<host, members, next_no, linked, asked, joining, calls, links, binds, begun,
          phase, backers, objectors, reviews, tap, written>>

Member == [telegram_id : Users \cup {None}, address : Wallets \cup {None},
           approved : BOOLEAN, member_no : Nat]

Call == [pc : {"idle", "lookup", "link", "approve", "sign"},
         who : Users \cup Wallets \cup {None}, address : Wallets \cup {None},
         caller : Users \cup Hosts \cup {None}, button : BOOLEAN]

\* What record_vote files a member under; an agent and its verdict.
Voters == Users \cup Wallets

Opinions == Agents \X {"back", "object"}

NoCall == [pc |-> "idle", who |-> None, address |-> None, caller |-> None, button |-> FALSE]

Init ==
    /\ host \in Hosts /\ binds = 0 /\ begun = 0 /\ written = 0
    /\ members = <<>> /\ next_no = 1
    /\ linked = [u \in Users |-> None]
    /\ asked = {} /\ joining = {}
    /\ calls = [a \in Approvers |-> NoCall]
    /\ links = {}
    /\ phase = "draft" /\ backers = [x \in Voters |-> 0] /\ objectors = [x \in Voters |-> 0]
    /\ reviews = [o \in Opinions |-> 0]
    /\ tap = [user |-> None, side |-> "clear"]

-----------------------------------------------------------------------------
\* FundState.member: the first record with that Telegram id or wallet, by its
\* place; 0 if there is none.
member(ms, who) ==
    LET hits == {i \in DOMAIN ms : who # None /\ who \in {ms[i].telegram_id, ms[i].address}} IN
    IF hits = {} THEN 0 ELSE CHOOSE i \in hits : \A j \in hits : i <= j

new_member(tg, addr) ==
    [telegram_id |-> tg, address |-> addr, approved |-> FALSE, member_no |-> 0]

\* Mutant: a wallet that is on record is replaced.
overwrite(m, addr) == IF addr # None THEN [m EXCEPT !.address = addr] ELSE m

\* A wallet is filled in once and never replaced.
with_address(m, addr) ==
    IF addr # None /\ m.address = None THEN [m EXCEPT !.address = addr] ELSE m

\* FundService.request_membership: the record of that id or wallet, else a new one.
requested(ms, tg, addr) ==
    LET i == IF member(ms, tg) # 0 THEN member(ms, tg) ELSE member(ms, addr) IN
    IF i # 0 THEN [ms EXCEPT ![i] = with_address(@, addr)]
    ELSE Append(ms, new_member(tg, addr))

\* check_caller_is_host and check_caller: a person in the chat must be the host on
\* record; the operator's own shell passes.
check_caller(caller) == caller \in {None, host}

\* FundService.approve_member: find or add the member the host named.
named(ms, who, addr) ==
    LET i == IF member(ms, who) # 0 THEN member(ms, who) ELSE member(ms, addr) IN
    IF i # 0 THEN [ms EXCEPT ![i] = with_address(@, addr)]
    ELSE IF who \in Wallets THEN Append(ms, new_member(None, who))
    ELSE IF addr # None THEN Append(ms, new_member(who, addr))
    ELSE ms

place(ms, who, addr) == IF member(ms, who) # 0 THEN member(ms, who) ELSE member(ms, addr)

\* check_approve_member: known, not approved yet, with a wallet.
check_approve_member(ms, i) == i # 0 /\ (i # 0 => ~ms[i].approved /\ ms[i].address # None)

-----------------------------------------------------------------------------
\* External: a user finishes /tg/join in the app with a wallet.
LinkWallet(u) ==
    /\ linked[u] = None
    /\ \E w \in Wallets : linked' = [linked EXCEPT ![u] = w]
    /\ UNCHANGED <<host, members, next_no, asked, joining, calls, links, binds, begun, votes>>

\* The operator changes the host (cli.fund_bind).
FundBind ==
    /\ binds < MaxBinds /\ binds' = binds + 1
    /\ host' \in Hosts \ {host}
    /\ UNCHANGED <<members, next_no, linked, asked, joining, calls, links, begun, votes>>

\* Join is tapped: at most one card per user and hour, and none for a known user.
Join(u) ==
    /\ u \notin asked /\ u \notin joining
    /\ IF member(members, u) # 0
       THEN asked' = asked \cup {u} /\ UNCHANGED joining
       ELSE joining' = joining \cup {u} /\ UNCHANGED asked
    /\ UNCHANGED <<host, members, next_no, linked, calls, links, binds, begun, votes>>

\* The request is written; somebody may have recorded the user in the meantime.
JoinWrite(u) ==
    /\ u \in joining /\ joining' = joining \ {u}
    /\ members' = requested(members, u, None)
    /\ asked' = asked \cup {u}
    /\ UNCHANGED <<host, next_no, linked, calls, links, binds, begun, votes>>

\* An hour passes for a user's join card.
JoinAgain(u) ==
    /\ u \in asked /\ asked' = asked \ {u}
    /\ UNCHANGED <<host, members, next_no, linked, joining, calls, links, binds, begun, votes>>

\* An approval begins once the caller is authorized: the button (on a Telegram id),
\* or the command and the tool (on an id or a wallet, perhaps with the wallet given).
ApproveBegin(a) ==
    /\ calls[a].pc = "idle"
    /\ begun < MaxCalls /\ begun' = begun + 1
    /\ \E caller \in Users \cup Hosts \cup {None}, who \in Users \cup Wallets,
          addr \in Wallets \cup {None}, button \in BOOLEAN :
        /\ button => (caller # None /\ who \in Users /\ addr = None)
        /\ check_caller(caller)
        /\ calls' = [calls EXCEPT ![a] =
               [pc |-> IF addr = None THEN "lookup" ELSE "approve", who |-> who,
                address |-> addr, caller |-> caller, button |-> button]]
    /\ UNCHANGED <<host, members, next_no, linked, asked, joining, links, binds, votes>>

\* ensure_member_address: the state is read, and the app asked if it has no wallet.
Lookup(a) ==
    /\ calls[a].pc = "lookup"
    /\ LET c == calls[a]
           i == member(members, c.who)
           known == i # 0 /\ (i # 0 => members[i].address # None) IN
       \/ /\ ~known /\ c.who \in Users /\ linked[c.who] # None
          /\ calls' = [calls EXCEPT ![a].pc = "link", ![a].address = linked[c.who]]
       \/ calls' = [calls EXCEPT ![a].pc = "approve"]     \* known, not linked or no answer
    /\ UNCHANGED <<host, members, next_no, linked, asked, joining, links, binds, begun, votes>>

\* ... and its answer recorded; the approval itself is made without an address.
LinkWrite(a) ==
    /\ calls[a].pc = "link"
    /\ members' = requested(members, calls[a].who, calls[a].address)
    /\ calls' = [calls EXCEPT ![a].pc = "approve", ![a].address = None]
    /\ UNCHANGED <<host, next_no, linked, asked, joining, links, binds, begun, votes>>

\* Mutant: the number is the number of records.
by_length(ms) == Len(ms)

take_no(ms) == next_no

\* FundService.approve_member under the lock; refused, nothing is written.
Approve(a) ==
    /\ calls[a].pc = "approve"
    /\ LET c == calls[a]
           ms == named(members, c.who, c.address)
           i == place(ms, c.who, c.address) IN
       \/ /\ check_caller(c.caller) /\ check_approve_member(ms, i)
          /\ members' = [ms EXCEPT ![i].approved = TRUE, ![i].member_no = take_no(ms)]
          /\ next_no' = next_no + 1
          /\ IF c.button
             THEN calls' = [calls EXCEPT ![a].pc = "sign"] /\ UNCHANGED links
             ELSE calls' = [calls EXCEPT ![a] = NoCall]
                  /\ links' = links \cup {ms[i].address}
       \/ /\ ~(check_caller(c.caller) /\ check_approve_member(ms, i))
          /\ calls' = [calls EXCEPT ![a] = NoCall]
          /\ UNCHANGED <<members, next_no, links>>
    /\ UNCHANGED <<host, linked, asked, joining, binds, begun, votes>>

\* host_action_url reads the member again; deliver_personal_link hands the signed
\* link over in an ephemeral message or a direct message, or fails.
HostLink(a) ==
    /\ calls[a].pc = "sign"
    /\ LET i == member(members, calls[a].who) IN
       \/ links' = links \cup (IF i = 0 THEN {} ELSE {members[i].address} \ {None})
       \/ UNCHANGED links
    /\ calls' = [calls EXCEPT ![a] = NoCall]
    /\ UNCHANGED <<host, members, next_no, linked, asked, joining, binds, begun, votes>>

-----------------------------------------------------------------------------
\* What record_vote keeps of a member: the Telegram id, else the wallet.
tid(m) == IF m.telegram_id # None THEN m.telegram_id ELSE m.address

\* check_member_vote: an approved member, before the window ends.
check_member_vote(who) ==
    LET i == member(members, who) IN
    /\ i # 0 /\ (i # 0 => members[i].approved)
    /\ phase = "voting"

\* The list without x, and with x appended.
without(list, x) == [list EXCEPT ![x] = 0]

appended(list, x) == [list EXCEPT ![x] = @ + 1]

\* Mutant: a second vote is added without taking the first one back.
added(who, side) ==
    LET x == tid(members[member(members, who)]) IN
    /\ backers' = IF side = "back" THEN appended(backers, x) ELSE without(backers, x)
    /\ objectors' = IF side = "object" THEN appended(objectors, x) ELSE without(objectors, x)

\* record_vote: whatever the member said before is taken back first.
record_vote(who, side) ==
    LET x == tid(members[member(members, who)])
        b == without(backers, x)
        o == without(objectors, x) IN
    /\ backers' = IF side = "back" THEN appended(b, x) ELSE b
    /\ objectors' = IF side = "object" THEN appended(o, x) ELSE o

\* toggle_backer reads the card's record and decides between back and clear ...
BackTap(u) ==
    /\ tap.user = None
    /\ tap' = [user |-> u, side |-> IF backers[u] > 0 THEN "clear" ELSE "back"]
    /\ UNCHANGED <<people, phase, backers, objectors, reviews, written>>

\* ... and records it later, if the member may still vote.
BackWrite ==
    /\ tap.user # None
    /\ written < MaxVotes /\ written' = written + 1
    /\ IF check_member_vote(tap.user) THEN record_vote(tap.user, tap.side)
       ELSE UNCHANGED <<backers, objectors>>
    /\ tap' = [user |-> None, side |-> "clear"]
    /\ UNCHANGED <<people, phase, reviews>>

\* fund_record_vote: a member's own vote (check_member_vote_caller), or by the host's
\* authority the vote of a member known by a wallet.
VoteTool(who, side) ==
    /\ written < MaxVotes /\ written' = written + 1
    /\ check_member_vote(who)
    /\ record_vote(who, side)
    /\ UNCHANGED <<people, phase, reviews, tap>>

\* An agent reviews another agent's proposal (check_review); its last review is dropped.
Review(g, verdict) ==
    /\ written < MaxVotes /\ written' = written + 1
    /\ phase # "closed"
    /\ LET others == [o \in Opinions |-> IF o[1] = g THEN 0 ELSE reviews[o]] IN
       reviews' = appended(others, <<g, verdict>>)
    /\ UNCHANGED <<people, phase, backers, objectors, tap>>

\* The proposal goes on (FundCoordination).
Progress ==
    /\ phase' = CASE phase = "draft" -> "voting" [] phase = "voting" -> "ended" [] OTHER -> "closed"
    /\ phase # "closed"
    /\ UNCHANGED <<people, backers, objectors, reviews, tap, written>>

Next ==
    \/ FundBind \/ BackWrite \/ Progress
    \/ \E u \in Users : LinkWallet(u) \/ Join(u) \/ JoinWrite(u) \/ JoinAgain(u) \/ BackTap(u)
    \/ \E a \in Approvers :
           ApproveBegin(a) \/ Lookup(a) \/ LinkWrite(a) \/ Approve(a) \/ HostLink(a)
    \/ \E who \in Users \cup Wallets, side \in {"back", "object", "clear"} : VoteTool(who, side)
    \/ \E g \in Agents, verdict \in {"back", "object"} : Review(g, verdict)

Spec == Init /\ [][Next]_vars

-----------------------------------------------------------------------------
TypeOK ==
    /\ host \in Hosts /\ members \in Seq(Member) /\ next_no \in Nat
    /\ binds \in Nat /\ begun \in Nat /\ written \in Nat
    /\ linked \in [Users -> Wallets \cup {None}]
    /\ asked \subseteq Users /\ joining \subseteq Users
    /\ calls \in [Approvers -> Call]
    /\ links \subseteq Wallets
    /\ phase \in {"draft", "voting", "ended", "closed"}
    /\ backers \in [Voters -> Nat] /\ objectors \in [Voters -> Nat]
    /\ reviews \in [Opinions -> Nat]
    /\ tap \in [user : Users \cup {None}, side : {"back", "clear"}]

\* Members are numbered 1, 2, ... in the order of their approvals: two approvals at
\* once, or of one person under an id and a wallet, never share or skip a number.
NumbersInOrder ==
    /\ \A i \in DOMAIN members : members[i].approved <=> members[i].member_no # 0
    /\ {members[i].member_no : i \in {j \in DOMAIN members : members[j].approved}} = 1..(next_no - 1)
    /\ Cardinality({j \in DOMAIN members : members[j].approved}) = next_no - 1

\* Every signing body the host was given names the wallet of an approved member, for
\* ever: no later request, lookup or approval puts another wallet on that record.
LinkNamesMember ==
    \A w \in links : \E i \in DOMAIN members : members[i].approved /\ members[i].address = w

\* Each approved member has at most one voice on the card, whatever order taps and
\* tool calls come in: no one backs twice, or backs and objects; each agent has one
\* review.
OneVoice ==
    /\ \A x \in Voters : backers[x] + objectors[x] <= 1
    /\ \A x \in Voters : backers[x] + objectors[x] > 0 =>
           \E i \in DOMAIN members : members[i].approved /\ tid(members[i]) = x
    /\ \A g \in Agents : reviews[<<g, "back">>] + reviews[<<g, "object">>] <= 1
=============================================================================
