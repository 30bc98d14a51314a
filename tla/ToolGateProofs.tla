--------------------------- MODULE ToolGateProofs ---------------------------
(***************************************************************************)
(* Proofs about ToolGate, for any people, any number of calls in flight,   *)
(* any number of turns, rebinds and proposals, and any sizes.              *)
(*                                                                         *)
(* GateInv says what a call has behind it at each point of its way: past   *)
(* the prompt it was asked about, past the gate it was the host's, past    *)
(* the risk check it fits.  None of the four properties is inductive       *)
(* without it, because each speaks only of what has been written.          *)
(***************************************************************************)
EXTENDS ToolGate, TLAPS

\* What a call that may still write has behind it, and what the allowlist stands for.
Cleared ==
    /\ allow \subseteq {approval_rule_key(act) : act \in always}
    /\ \A c \in Calls :
        /\ call[c].pc \in {"run", "write"} /\ authority(call[c].caller, call[c].act) => call[c].asked
        /\ call[c].pc = "write" /\ authority(call[c].caller, call[c].act) => call[c].held
        /\ call[c].pc = "write" /\ call[c].act.tool \in HOST_TOOLS => call[c].caller # Stranger
        /\ call[c].pc = "write" /\ call[c].act.tool = "fund-bind" => call[c].caller = Operator

Written == AskedForThis /\ HostHeld /\ HostKept

\* Only propose commands are judged.
Judged == \A c \in Calls : call[c].pc \in {"fetch", "create"} => call[c].act \in Command

fits(size) == (size + deployed["judged"]) * 100 <= 50 * Aum

\* One judged proposal at most is under way, and it fits beside the judged ones deployed.
OneAtATime ==
    /\ deployed["judged"] * 100 <= 50 * Aum
    /\ \A p \in pending : p.pass = "judged" =>
          fits(p.size) /\ \A q \in pending : q.pass = "judged" => p = q
    /\ \A c \in Calls : call[c].pc = "create" /\ call[c].pass = "judged" =>
          /\ fits(call[c].act.arg.size) /\ \A p \in pending : p.pass # "judged"
          /\ \A d \in Calls : call[d].pc = "create" /\ call[d].pass = "judged" => c = d

GateInv == TypeOK /\ Cleared /\ Written /\ Judged /\ OneAtATime

-----------------------------------------------------------------------------
(* Types.  What a proposal's size is, Judged says; the two go together.    *)

LEMMA NoCallTyped == NoCall \in Call /\ NoCall.pc = "idle"
<1>1. [tool |-> "status", arg |-> Unset, rest |-> 0] \in Action
  BY DEF Action, HOST_TOOLS, Args
<1> QED BY <1>1 DEF NoCall, Call, Callers, Passes

\* What goto and done do to a call.
LEMMA Moved ==
    ASSUME TypeOK, NEW c \in Calls, NEW pc \in {"idle", "hook", "prompt", "run", "write", "fetch", "create"},
           goto(c, pc)
    PROVE  /\ call' \in [Calls -> Call]
           /\ call'[c].pc = pc /\ call'[c].act = call[c].act /\ call'[c].caller = call[c].caller
           /\ call'[c].asked = call[c].asked /\ call'[c].held = call[c].held
           /\ \A d \in Calls \ {c} : call'[d] = call[d]
  BY DEF goto, TypeOK, Call

LEMMA Gone ==
    ASSUME TypeOK, NEW c \in Calls, done(c)
    PROVE  /\ call' \in [Calls -> Call]
           /\ call'[c].pc = "idle"
           /\ \A d \in Calls \ {c} : call'[d] = call[d]
  BY NoCallTyped DEF done, TypeOK

\* What lets does.
LEMMA Let ==
    ASSUME TypeOK, NEW c \in Calls, NEW pass \in Passes, lets(c, pass)
    PROVE  /\ call' \in [Calls -> Call]
           /\ call'[c].pc = "create" /\ call'[c].pass = pass /\ call'[c].act = call[c].act
           /\ \A d \in Calls \ {c} : call'[d] = call[d]
<1> DEFINE old == call[c]
           new == [old EXCEPT !.pc = "create", !.pass = pass]
<1>1. old \in Call /\ call' = [call EXCEPT ![c] = new]
  BY DEF TypeOK, lets
<1>2. old = call[c]
  OBVIOUS
<1> HIDE DEF old
<1>3. new \in Call /\ new.pc = "create" /\ new.pass = pass /\ new.act = old.act
  BY <1>1 DEF Call
<1> HIDE DEF new
<1> QED BY <1>1, <1>2, <1>3 DEF TypeOK

\* A propose command is one.
LEMMA ProposeIsCommand ==
    ASSUME NEW act \in Action \cup Command, act.tool = "propose"
    PROVE  act \in Command
  BY DEF Action, Command, HOST_TOOLS

\* The argument of any other tool.
LEMMA ArgIsPerson ==
    ASSUME NEW act \in Action \cup Command, act.tool # "propose"
    PROVE  act.arg \in People \cup {Unset}
  BY DEF Action, Command, Args

LEMMA SizeIsNat ==
    ASSUME NEW act \in Command
    PROVE  act.arg.size \in Sizes /\ act.arg.size \in Nat
  BY GateAssumption DEF Command

\* Init establishes the types.
LEMMA InitTyped == Init => TypeOK /\ Judged
<1> SUFFICES ASSUME Init PROVE TypeOK /\ Judged
  OBVIOUS
<1>1. call \in [Calls -> Call] /\ \A c \in Calls : call[c].pc = "idle"
  BY NoCallTyped DEF Init
<1>2. Judged
  BY <1>1 DEF Judged
<1> QED BY <1>1, <1>2 DEF Init, TypeOK

\* Every step keeps the types.
LEMMA NextTyped == TypeOK /\ Judged /\ [Next]_vars => TypeOK' /\ Judged'
<1> SUFFICES ASSUME TypeOK, Judged, [Next]_vars PROVE TypeOK' /\ Judged'
  OBVIOUS
<1>1. ASSUME NEW c \in Calls, Turn(c) PROVE TypeOK' /\ Judged'
  <2>1. PICK caller \in Callers, act \in IF risk THEN Command ELSE Action, hidden \in BOOLEAN :
            call' = [call EXCEPT ![c] = [NoCall EXCEPT !.pc = "hook", !.caller = caller,
                                                          !.act = act, !.hidden = hidden, !.no = turns']]
    BY <1>1, Zenon DEF Turn
  <2>2. act \in Action \cup Command /\ turns' \in Nat
    BY <1>1 DEF Turn, TypeOK
  <2>3. [NoCall EXCEPT !.pc = "hook", !.caller = caller, !.act = act, !.hidden = hidden, !.no = turns'] \in Call
    BY <2>2, NoCallTyped DEF Call
  <2>4. call' \in [Calls -> Call] /\ call'[c].pc = "hook" /\ \A d \in Calls \ {c} : call'[d] = call[d]
    BY <2>1, <2>3 DEF TypeOK, NoCall
  <2> QED BY <1>1, <2>2, <2>4 DEF Turn, TypeOK, Judged, gate, vault
<1>3. ASSUME NEW c \in Calls, Guard(c) PROVE TypeOK' /\ Judged'
  <2>1. call[c].act \in Action \cup Command
    BY DEF TypeOK, Call
  <2>2. CASE call[c].act.tool = "propose" /\ goto(c, "fetch")
    BY <1>3, <2>1, <2>2, Moved, ProposeIsCommand DEF Guard, TypeOK, Judged, gate, vault, Call
  <2>5. CASE call[c].act.tool = "propose" /\ lets(c, "unjudged")
    BY <1>3, <2>1, <2>5, Let, ProposeIsCommand DEF Guard, TypeOK, Judged, gate, vault, Passes
  <2>3. CASE goto(c, "run") \/ goto(c, "prompt")
    BY <1>3, <2>3, Moved DEF Guard, TypeOK, Judged, gate, vault, Call
  <2>4. CASE done(c)
    BY <1>3, <2>4, Gone DEF Guard, TypeOK, Judged, gate, vault
  <2> QED BY <1>3, <2>2, <2>3, <2>4, <2>5 DEF Guard
<1>4. ASSUME NEW c \in Calls, Prompt(c) PROVE TypeOK' /\ Judged'
  <2>1. CASE done(c)
    BY <1>4, <2>1, Gone DEF Prompt, TypeOK, Judged, vault
  <2>2. ASSUME NEW b \in BOOLEAN, NEW e \in BOOLEAN,
               call' = [call EXCEPT ![c].pc = "run", ![c].exact = e, ![c].asked = b]
        PROVE  TypeOK' /\ Judged'
    <3>1. /\ call' \in [Calls -> Call] /\ call'[c].pc = "run"
          /\ \A d \in Calls \ {c} : call'[d] = call[d]
      <4> DEFINE old == call[c]
                 new == [old EXCEPT !.pc = "run", !.exact = e, !.asked = b]
      <4>1. old \in Call /\ call' = [call EXCEPT ![c] = new]
        BY <2>2 DEF TypeOK
      <4> HIDE DEF old
      <4>2. new \in Call /\ new.pc = "run"
        BY <4>1 DEF Call
      <4> HIDE DEF new
      <4> QED BY <4>1, <4>2 DEF TypeOK
    <3> QED BY <1>4, <3>1 DEF Prompt, TypeOK, Judged, vault
  <2>3. /\ (call[c].act \in always) \in BOOLEAN /\ TRUE \in BOOLEAN
        /\ (\E a \in always : approve_directive(a) = approve_directive(call[c].act)) \in BOOLEAN
    OBVIOUS
  <2> QED BY <1>4, <2>1, <2>2, <2>3 DEF Prompt
<1>5. ASSUME NEW c \in Calls, Run(c) PROVE TypeOK' /\ Judged'
  <2>1. CASE done(c)
    BY <1>5, <2>1, Gone DEF Run, TypeOK, Judged, gate, vault
  <2>2. CASE call' = [call EXCEPT ![c].pc = "write", ![c].held = check_caller(call[c].caller)]
    <3>1. check_caller(call[c].caller) \in BOOLEAN
      BY DEF check_caller, messaging
    <3>2. /\ call' \in [Calls -> Call] /\ call'[c].pc = "write"
          /\ \A d \in Calls \ {c} : call'[d] = call[d]
      <4> DEFINE old == call[c]
                 held == check_caller(old.caller)
                 new == [old EXCEPT !.pc = "write", !.held = held]
      <4>1. old \in Call /\ held \in BOOLEAN /\ call' = [call EXCEPT ![c] = new]
        BY <2>2, <3>1 DEF TypeOK
      <4> HIDE DEF old, held
      <4>2. new \in Call /\ new.pc = "write"
        BY <4>1 DEF Call
      <4> HIDE DEF new
      <4> QED BY <4>1, <4>2 DEF TypeOK
    <3> QED BY <1>5, <3>2 DEF Run, TypeOK, Judged, gate, vault
  <2> QED BY <1>5, <2>1, <2>2 DEF Run
<1>6. ASSUME NEW c \in Calls, WriteSetup(c) \/ WriteBind(c) PROVE TypeOK' /\ Judged'
  <2>1. call[c].act.arg \in People \cup {Unset} /\ call[c].caller \in Callers
    BY <1>6, ArgIsPerson DEF WriteSetup, WriteBind, TypeOK, Call
  <2>2. host' \in People \cup {Absent, Unset} /\ binder' \subseteq Callers
    BY <1>6, <2>1 DEF WriteSetup, WriteBind, set_host, TypeOK
  <2> QED BY <1>6, <2>2, Gone DEF WriteSetup, WriteBind, TypeOK, Judged, vault
<1>7. ASSUME NEW c \in Calls, WriteFund(c) PROVE TypeOK' /\ Judged'
  BY <1>7, Gone DEF WriteFund, TypeOK, Judged, vault
<1>9. ASSUME NEW c \in Calls, Fetch(c) \/ FetchFails(c) PROVE TypeOK' /\ Judged'
  <2>1. UNCHANGED <<gate, vault, turns, binds>> /\ call[c].act \in Command
    BY <1>9 DEF Fetch, FetchFails, Judged
  <2>2. ASSUME NEW pass \in Passes, lets(c, pass) PROVE TypeOK' /\ Judged'
    BY <2>1, <2>2, Let DEF TypeOK, Judged, gate, vault
  <2>3. CASE done(c)
    BY <2>1, <2>3, Gone DEF TypeOK, Judged, gate, vault
  <2> QED BY <1>9, <2>2, <2>3 DEF Fetch, FetchFails, Passes
<1>10. ASSUME NEW c \in Calls, Create(c) PROVE TypeOK' /\ Judged'
  <2>1. call[c].act.arg.size \in Sizes /\ call[c].no \in Nat /\ call[c].pass \in Passes
    BY <1>10, SizeIsNat DEF Create, Judged, TypeOK, Call
  <2>2. pending' \subseteq [no : Nat, size : Sizes, pass : Passes]
    BY <1>10, <2>1 DEF Create, TypeOK
  <2> QED BY <1>10, <2>2, Gone DEF Create, TypeOK, Judged, gate
<1>11. ASSUME NEW p \in pending, Execute(p) PROVE TypeOK' /\ Judged'
  <2>1. p.size \in Nat /\ p.pass \in Passes
    BY GateAssumption DEF TypeOK
  <2>2. deployed' \in [Passes -> Nat] /\ pending' \subseteq pending
    BY <1>11, <2>1 DEF Execute, TypeOK
  <2> QED BY <2>2, <1>11, GateAssumption DEF Execute, TypeOK, Judged, gate
<1>12. CASE FundBind
  BY <1>12, GateAssumption DEF FundBind, set_host, TypeOK, Judged, vault, Callers
<1>13. CASE UNCHANGED vars
  BY <1>13 DEF vars, TypeOK, Judged
<1> QED BY <1>1, <1>3, <1>4, <1>5, <1>6, <1>7, <1>9, <1>10, <1>11, <1>12, <1>13 DEF Next

-----------------------------------------------------------------------------
(* The way of a fund tool's call.                                          *)

\* expected_host is a person, and a chat turn that passes is hers.
LEMMA StrangerFails == ~check_caller(Stranger)
  BY GateAssumption DEF check_caller, messaging, expected_host

\* Behind the gate, a call that uses the host's authority has passed check_caller.
LEMMA GateHolds ==
    ASSUME NEW caller, NEW act, host_gate(caller, act), authority(caller, act)
    PROVE  check_caller(caller)
<1>1. CASE act.tool \in HOST_TOOLS
  <2>1. act.tool # "fund_record_vote" /\ act.tool # "fund-bind"
    BY <1>1 DEF HOST_TOOLS
  <2> QED BY <1>1, <2>1 DEF host_gate
<1>2. CASE act.tool \notin HOST_TOOLS
  <2>1. act.tool = "fund_record_vote" /\ act.arg # Unset /\ caller # act.arg
    BY <1>2 DEF authority
  <2>2. check_member_vote_caller(caller, act.arg)
    BY <1>2, <2>1 DEF host_gate
  <2> QED BY <2>1, <2>2 DEF check_member_vote_caller
<1> QED BY <1>1, <1>2

\* The steps that leave the calls that may write, and all that was written, alone.
LEMMA ClearedKept ==
    ASSUME TypeOK, Cleared, Written, UNCHANGED <<allow, always, ran, binder>>, NEW c \in Calls,
           call'[c].pc \notin {"run", "write"}, \A d \in Calls \ {c} : call'[d] = call[d]
    PROVE  Cleared' /\ Written'
<1>1. Written'
  BY DEF Written, AskedForThis, HostHeld, HostKept
<1>2. ASSUME NEW d \in Calls PROVE
        /\ call'[d].pc \in {"run", "write"} /\ authority(call'[d].caller, call'[d].act) => call'[d].asked
        /\ call'[d].pc = "write" /\ authority(call'[d].caller, call'[d].act) => call'[d].held
        /\ call'[d].pc = "write" /\ call'[d].act.tool \in HOST_TOOLS => call'[d].caller # Stranger
        /\ call'[d].pc = "write" /\ call'[d].act.tool = "fund-bind" => call'[d].caller = Operator
  <2>1. CASE d = c
    BY <2>1
  <2>2. CASE d # c
    BY <2>2 DEF Cleared
  <2> QED BY <2>1, <2>2
<1> QED BY <1>1, <1>2 DEF Cleared, authority

\* The same when call c gets to pc "run" or "write" with what it needs.
LEMMA ClearedMoved ==
    ASSUME TypeOK, Cleared, allow' \subseteq {approval_rule_key(act) : act \in always'}, NEW c \in Calls,
           \A d \in Calls \ {c} : call'[d] = call[d],
           call'[c].pc \in {"run", "write"} /\ authority(call'[c].caller, call'[c].act) => call'[c].asked,
           call'[c].pc = "write" =>
               /\ authority(call'[c].caller, call'[c].act) => call'[c].held
               /\ call'[c].act.tool \in HOST_TOOLS => call'[c].caller # Stranger
               /\ call'[c].act.tool = "fund-bind" => call'[c].caller = Operator
    PROVE  Cleared'
<1>2. ASSUME NEW d \in Calls PROVE
        /\ call'[d].pc \in {"run", "write"} /\ authority(call'[d].caller, call'[d].act) => call'[d].asked
        /\ call'[d].pc = "write" /\ authority(call'[d].caller, call'[d].act) => call'[d].held
        /\ call'[d].pc = "write" /\ call'[d].act.tool \in HOST_TOOLS => call'[d].caller # Stranger
        /\ call'[d].pc = "write" /\ call'[d].act.tool = "fund-bind" => call'[d].caller = Operator
  <2>1. CASE d = c
    BY <2>1
  <2>2. CASE d # c
    BY <2>2 DEF Cleared
  <2> QED BY <2>1, <2>2
<1> QED BY <1>2 DEF Cleared, authority

\* What a write adds to the history.
LEMMA NoteKeeps ==
    ASSUME TypeOK, Cleared, Written, NEW c \in Calls, call[c].pc = "write",
           note(c) \/ UNCHANGED ran,
           UNCHANGED ran \/ (call[c].act.tool = "approve" => check_caller_is_host(call[c].caller))
    PROVE  (AskedForThis /\ HostHeld)'
<1>1. CASE UNCHANGED ran
  BY <1>1 DEF Written, AskedForThis, HostHeld
<1>2. CASE ~UNCHANGED ran
  <2> DEFINE r == [tool |-> call[c].act.tool, caller |-> call[c].caller, host |-> host,
                   asked |-> call[c].asked, exact |-> call[c].exact, held |-> call[c].held]
  <2>1. authority(call[c].caller, call[c].act) /\ ran' = ran \cup {r}
    BY <1>2 DEF note
  <2>2. r.asked /\ r.held
    BY <2>1 DEF Cleared
  <2>3. r.tool = "approve" => r.caller \in {Operator, r.host}
    <3>1. call[c].caller \in People \cup {Operator, Stranger}
      BY DEF TypeOK, Call, Callers
    <3>2. call[c].act.tool = "approve" => call[c].caller # Stranger
      BY DEF Cleared, HOST_TOOLS
    <3> QED BY <1>2, <3>1, <3>2 DEF check_caller_is_host
  <2> HIDE DEF r
  <2> QED BY <2>1, <2>2, <2>3 DEF Written, AskedForThis, HostHeld
<1> QED BY <1>1, <1>2

\* Every step keeps what calls have behind them and what was written.
LEMMA NextCleared ==
    ASSUME TypeOK, Cleared, Written, [Next]_vars
    PROVE  Cleared' /\ Written'
<1>1. ASSUME NEW c \in Calls, Turn(c) PROVE Cleared' /\ Written'
  <2>1. call'[c].pc = "hook" /\ \A d \in Calls \ {c} : call'[d] = call[d]
    BY <1>1 DEF Turn, TypeOK, NoCall
  <2> QED BY <1>1, <2>1, ClearedKept DEF Turn, gate
<1>2. ASSUME NEW c \in Calls, Guard(c) PROVE Cleared' /\ Written'
  <2>1. UNCHANGED <<allow, always, ran, binder>>
    BY <1>2 DEF Guard, gate
  <2>2. CASE done(c)
    BY <2>1, <2>2, Gone, ClearedKept
  <2>3. CASE goto(c, "fetch")
    BY <2>1, <2>3, Moved, ClearedKept
  <2>6. CASE lets(c, "unjudged")
    BY <2>1, <2>6, Let, ClearedKept DEF Passes
  <2>4. CASE goto(c, "prompt")
    BY <2>1, <2>4, Moved, ClearedKept
  <2>5. CASE goto(c, "run")
    <3>1. ~authority(call[c].caller, call[c].act)
      <4>1. \/ goto(c, "fetch") \/ lets(c, "unjudged") \/ done(c) \/ goto(c, "prompt") \/ call[c].act.tool = "fund-bind"
            \/ ~authority(call[c].caller, call[c].act)
        BY <1>2 DEF Guard
      <4>2. call[c].act.tool = "fund-bind" => ~authority(call[c].caller, call[c].act)
        BY DEF authority, HOST_TOOLS
      <4>3. ~goto(c, "fetch") /\ ~done(c) /\ ~goto(c, "prompt") /\ ~lets(c, "unjudged")
        BY <2>5, Moved, Gone, Let DEF Passes
      <4> QED BY <4>1, <4>2, <4>3
    <3>2. Cleared'
      BY <2>1, <2>5, <3>1, Moved, ClearedMoved DEF Cleared
    <3> QED BY <2>1, <3>2 DEF Written, AskedForThis, HostHeld, HostKept
  <2> QED BY <1>2, <2>2, <2>3, <2>4, <2>5, <2>6 DEF Guard
<1>3. ASSUME NEW c \in Calls, Prompt(c) PROVE Cleared' /\ Written'
  <2>1. UNCHANGED <<ran, binder>> /\ allow' \subseteq {approval_rule_key(act) : act \in always'}
    BY <1>3 DEF Prompt, Cleared
  <2>2. Written'
    BY <2>1 DEF Written, AskedForThis, HostHeld, HostKept
  <2>3. CASE done(c)
    BY <2>1, <2>3, Gone, ClearedMoved, <2>2
  <2>4. CASE ~done(c)
    <3>0. approval_rule_key(call[c].act) \in allow =>
            (\E a \in always : approve_directive(a) = approve_directive(call[c].act)) = TRUE
      BY DEF Cleared, approval_rule_key, approve_directive
    <3>1. \E e : call' = [call EXCEPT ![c].pc = "run", ![c].exact = e, ![c].asked = TRUE]
      BY <1>3, <2>4, <3>0 DEF Prompt
    <3>2. call'[c].asked /\ call'[c].pc = "run" /\ \A d \in Calls \ {c} : call'[d] = call[d]
      BY <3>1 DEF TypeOK, Call
    <3> QED BY <2>1, <2>2, <3>2, ClearedMoved
  <2> QED BY <1>3, <2>3, <2>4 DEF Prompt
<1>4. ASSUME NEW c \in Calls, Run(c) PROVE Cleared' /\ Written'
  <2>1. UNCHANGED <<allow, always, ran, binder>> /\ call[c].pc = "run"
    BY <1>4 DEF Run, gate
  <2>2. CASE done(c)
    BY <2>1, <2>2, Gone, ClearedKept
  <2>3. CASE host_gate(call[c].caller, call[c].act)
             /\ call' = [call EXCEPT ![c].pc = "write", ![c].held = check_caller(call[c].caller)]
    <3>1. /\ call'[c].pc = "write" /\ call'[c].held = check_caller(call[c].caller)
          /\ call'[c].act = call[c].act /\ call'[c].caller = call[c].caller
          /\ call'[c].asked = call[c].asked
          /\ \A d \in Calls \ {c} : call'[d] = call[d]
      BY <2>3 DEF TypeOK, Call
    <3>2. authority(call[c].caller, call[c].act) => check_caller(call[c].caller)
      BY <2>3, GateHolds
    <3>3. call[c].act.tool \in HOST_TOOLS => call[c].caller # Stranger
      BY <3>2, StrangerFails DEF authority
    <3>4. call[c].act.tool = "fund-bind" => call[c].caller = Operator
      BY <2>3 DEF host_gate, HOST_TOOLS, messaging
    <3>5. authority(call[c].caller, call[c].act) => call[c].asked
      BY <2>1 DEF Cleared
    <3>6. Cleared'
      BY <2>1, <3>1, <3>2, <3>3, <3>4, <3>5, ClearedMoved DEF Cleared
    <3> QED BY <2>1, <3>6 DEF Written, AskedForThis, HostHeld, HostKept
  <2> QED BY <1>4, <2>2, <2>3 DEF Run
<1>5. ASSUME NEW c \in Calls, done(c), UNCHANGED <<allow, always>> PROVE Cleared'
  BY <1>5, Gone, ClearedMoved DEF Cleared
<1>6. ASSUME NEW c \in Calls, WriteSetup(c) PROVE Cleared' /\ Written'
  <2>1. (AskedForThis /\ HostHeld)'
    BY <1>6, NoteKeeps DEF WriteSetup
  <2>2. HostKept'
    <3>1. binder' = binder
      BY <1>6, GateAssumption DEF WriteSetup, set_host, locked_ok
    <3> QED BY <3>1 DEF Written, HostKept
  <2> QED BY <1>5, <1>6, <2>1, <2>2 DEF WriteSetup, Written
<1>7. ASSUME NEW c \in Calls, WriteFund(c) PROVE Cleared' /\ Written'
  <2>1. (AskedForThis /\ HostHeld)'
    BY <1>7, NoteKeeps DEF WriteFund
  <2> QED BY <1>5, <1>7, <2>1 DEF WriteFund, Written, HostKept
<1>8. ASSUME NEW c \in Calls, WriteBind(c) PROVE Cleared' /\ Written'
  <2>1. call[c].caller = Operator
    BY <1>8 DEF WriteBind, Cleared
  <2>2. binder' \subseteq binder \cup {Operator} /\ ran' = ran
    BY <1>8, <2>1 DEF WriteBind, set_host
  <2> QED BY <1>5, <1>8, <2>2 DEF WriteBind, Written, AskedForThis, HostHeld, HostKept
<1>9. ASSUME NEW c \in Calls, Fetch(c) \/ FetchFails(c) \/ Create(c) PROVE Cleared' /\ Written'
  <2>1. UNCHANGED <<allow, always, ran, binder>>
    BY <1>9 DEF Fetch, FetchFails, Create, gate
  <2>2. done(c) \/ \E pass \in Passes : lets(c, pass)
    BY <1>9 DEF Fetch, FetchFails, Create, Passes
  <2>3. call'[c].pc \notin {"run", "write"} /\ \A d \in Calls \ {c} : call'[d] = call[d]
    BY <2>2, Let, Gone
  <2> QED BY <2>1, <2>3, ClearedKept
<1>10. ASSUME UNCHANGED <<call, allow, always, ran>>, binder' \subseteq binder \cup {Operator}
       PROVE  Cleared' /\ Written'
  BY <1>10 DEF Cleared, Written, AskedForThis, HostHeld, HostKept, authority
<1>11. ASSUME NEW p \in pending, Execute(p) PROVE Cleared' /\ Written'
  BY <1>10, <1>11 DEF Execute, gate
<1>12. CASE FundBind
  BY <1>10, <1>12 DEF FundBind, set_host
<1>13. CASE UNCHANGED vars
  BY <1>10, <1>13 DEF vars
<1> QED BY <1>1, <1>2, <1>3, <1>4, <1>6, <1>7, <1>8, <1>9, <1>11, <1>12, <1>13 DEF Next

-----------------------------------------------------------------------------
(* The way of a propose command.                                           *)

\* Every step keeps at most one judged proposal under way, and room for it.
LEMMA NextOneAtATime ==
    ASSUME TypeOK, Judged, OneAtATime, [Next]_vars
    PROVE  OneAtATime'
<1>1. ASSUME UNCHANGED <<deployed, pending>>,
             \A c \in Calls : call'[c].pc = "create" /\ call'[c].pass = "judged" => call'[c] = call[c]
      PROVE  OneAtATime'
  BY <1>1 DEF OneAtATime, fits
<1>2. ASSUME NEW c \in Calls, UNCHANGED vault,
             call'[c].pc = "create" => call'[c].pass # "judged",
             \A d \in Calls \ {c} : call'[d] = call[d]
      PROVE  OneAtATime'
  BY <1>1, <1>2 DEF vault
<1>3. ASSUME NEW c \in Calls, Turn(c) PROVE OneAtATime'
  <2>1. call'[c].pc = "hook" /\ \A d \in Calls \ {c} : call'[d] = call[d]
    BY <1>3 DEF Turn, TypeOK, NoCall
  <2> QED BY <1>2, <1>3, <2>1 DEF Turn
<1>4. ASSUME NEW c \in Calls, Guard(c) PROVE OneAtATime'
  <2>1. CASE lets(c, "unjudged")
    BY <1>2, <1>4, <2>1, Let DEF Guard, Passes
  <2>2. CASE ~lets(c, "unjudged")
    BY <1>2, <1>4, <2>2, Moved, Gone DEF Guard
  <2> QED BY <2>1, <2>2
<1>5. ASSUME NEW c \in Calls, Prompt(c) \/ Run(c) PROVE OneAtATime'
  <2>1. call'[c].pc # "create" /\ \A d \in Calls \ {c} : call'[d] = call[d]
    BY <1>5, Gone DEF Prompt, Run, TypeOK, Call
  <2> QED BY <1>2, <1>5, <2>1 DEF Prompt, Run
<1>6. ASSUME NEW c \in Calls, WriteSetup(c) \/ WriteFund(c) \/ WriteBind(c) PROVE OneAtATime'
  BY <1>2, <1>6, Gone DEF WriteSetup, WriteFund, WriteBind
<1>7. ASSUME NEW c \in Calls, Fetch(c) PROVE OneAtATime'
  <2> DEFINE arg == call[c].act.arg
  <2>1. UNCHANGED vault
    BY <1>7 DEF Fetch
  <2>2. CASE done(c)
    BY <1>2, <2>1, <2>2, Gone
  <2>3. ASSUME NEW pass \in Passes, pass # "judged", lets(c, pass) PROVE OneAtATime'
    BY <1>2, <2>1, <2>3, Let
  <2>4. CASE lets(c, "judged") /\ arg.form = "plain" /\ ~under_way /\ evaluate_propose(parsed(arg), arg.mandated)
    <3>1. fits(arg.size)
      <4>1. (arg.size + exposure) * 100 <= 50 * Aum
        BY <2>4 DEF evaluate_propose, check_portfolio_exposure, parsed
      <4>2. arg.size \in Nat /\ deployed \in [Passes -> Nat] /\ exposure >= deployed["judged"]
        BY <1>7, SizeIsNat DEF Fetch, Judged, TypeOK, exposure, Passes
      <4>3. exposure \in Nat /\ deployed["judged"] \in Nat
        BY <4>2 DEF exposure, Passes
      <4> QED BY <4>1, <4>2, <4>3, GateAssumption DEF fits
    <3>2. /\ \A p \in pending : p.pass # "judged"
          /\ \A d \in Calls : ~(call[d].pc = "create" /\ call[d].pass = "judged")
      BY <2>4 DEF under_way
    <3>3. /\ call'[c].pc = "create" /\ call'[c].act = call[c].act
          /\ \A d \in Calls \ {c} : call'[d] = call[d]
      BY <2>4, Let DEF Passes
    <3>4. \A d \in Calls : call'[d].pc = "create" /\ call'[d].pass = "judged" => d = c
      BY <3>2, <3>3
    <3> HIDE DEF arg
    <3>5. call'[c].act.arg = arg
      BY <3>3 DEF arg
    <3> QED BY <2>1, <3>1, <3>2, <3>4, <3>5 DEF OneAtATime, fits, vault
  <2> QED BY <1>7, <2>2, <2>3, <2>4 DEF Fetch, Passes
<1>8. ASSUME NEW c \in Calls, FetchFails(c) PROVE OneAtATime'
  BY <1>2, <1>8, Let DEF FetchFails, Passes
<1>9. ASSUME NEW c \in Calls, Create(c) PROVE OneAtATime'
  <2> DEFINE p == [no |-> call[c].no, size |-> call[c].act.arg.size, pass |-> call[c].pass]
  <2>1. pending' = pending \cup {p} /\ UNCHANGED deployed /\ call[c].pc = "create"
    BY <1>9 DEF Create
  <2>2. call'[c].pc = "idle" /\ \A d \in Calls \ {c} : call'[d] = call[d]
    BY <1>9, Gone DEF Create
  <2>3. CASE call[c].pass # "judged"
    <3>1. p.pass # "judged"
      BY <2>3
    <3> HIDE DEF p
    <3> QED BY <2>1, <2>2, <3>1 DEF OneAtATime, fits
  <2>4. CASE call[c].pass = "judged"
    <3>1. /\ fits(p.size) /\ \A q \in pending : q.pass # "judged"
          /\ \A d \in Calls \ {c} : ~(call[d].pc = "create" /\ call[d].pass = "judged")
      BY <2>1, <2>4 DEF OneAtATime
    <3> HIDE DEF p
    <3> QED BY <2>1, <2>2, <3>1 DEF OneAtATime, fits
  <2> QED BY <2>3, <2>4
<1>10. ASSUME NEW p \in pending, Execute(p) PROVE OneAtATime'
  <2>1. pending' = pending \ {p} /\ UNCHANGED call
    BY <1>10 DEF Execute
  <2>2. CASE deployed'["judged"] = deployed["judged"]
    BY <2>1, <2>2 DEF OneAtATime, fits
  <2>3. CASE p.pass = "judged" /\ deployed'["judged"] = deployed["judged"] + p.size
    <3>1. /\ \A q \in pending' : q.pass # "judged"
          /\ \A c \in Calls : ~(call[c].pc = "create" /\ call[c].pass = "judged")
      BY <2>1, <2>3 DEF OneAtATime
    <3>2. deployed'["judged"] * 100 <= 50 * Aum
      <4>1. p.size \in Nat /\ deployed["judged"] \in Nat /\ (p.size + deployed["judged"]) * 100 <= 50 * Aum
        BY <2>3, GateAssumption DEF OneAtATime, fits, TypeOK, Passes
      <4> QED BY <2>3, <4>1, GateAssumption
    <3> QED BY <2>1, <3>1, <3>2 DEF OneAtATime
  <2>4. p.pass \in Passes /\ deployed \in [Passes -> Nat]
    BY DEF TypeOK
  <2> QED BY <1>10, <2>2, <2>3, <2>4 DEF Execute, Passes
<1>11. CASE FundBind
  BY <1>1, <1>11 DEF FundBind, vault
<1>12. CASE UNCHANGED vars
  BY <1>1, <1>12 DEF vars
<1> QED BY <1>3, <1>4, <1>5, <1>6, <1>7, <1>8, <1>9, <1>10, <1>11, <1>12 DEF Next

-----------------------------------------------------------------------------
LEMMA InitInv == Init => GateInv
<1> SUFFICES ASSUME Init PROVE GateInv
  OBVIOUS
<1>1. \A c \in Calls : call[c].pc = "idle"
  BY NoCallTyped DEF Init
<1>2. deployed["judged"] * 100 <= 50 * Aum
  BY GateAssumption DEF Init, Passes
<1> QED BY <1>1, <1>2, InitTyped
        DEF Init, GateInv, Cleared, Written, AskedForThis, HostHeld, HostKept, OneAtATime

\* The invariant all four properties follow from.
THEOREM GateInvariant == Spec => []GateInv
<1>1. GateInv /\ [Next]_vars => GateInv'
  BY NextTyped, NextCleared, NextOneAtATime DEF GateInv
<1> QED BY <1>1, InitInv, PTL DEF Spec

\* Whatever writes with the host's authority was put before a human, now or when an "always"
\* was answered, with all that its prompt shows (not with the arguments the approval key
\* leaves out): for any people, calls in flight, turns and rebinds.
THEOREM NothingUnasked == Spec => []AskedForThis
<1>1. GateInv => AskedForThis
  BY DEF GateInv, Written
<1> QED BY <1>1, GateInvariant, PTL

\* A chat turn that used the host's authority was the host's when its tool started, and
\* for an approval or removal when the update was made.
THEOREM OnlyTheHost == Spec => []HostHeld
<1>1. GateInv => HostHeld
  BY DEF GateInv, Written
<1> QED BY <1>1, GateInvariant, PTL

\* Two fund_setup calls that pass the gate together cannot replace a host that is set:
\* only the operator's fund-bind does.
THEOREM HostIsKept == Spec => []HostKept
<1>1. GateInv => HostKept
  BY DEF GateInv, Written
<1> QED BY <1>1, GateInvariant, PTL

\* Proposals whose size was judged while no other such was under way deploy no more than half
\* of the vault: for any sizes and any number of proposals, and whatever else is created,
\* unread, misread or beside them, and executed in between.
THEOREM ExposureStaysWithin == Spec => []WithinLimit
<1>1. GateInv => WithinLimit
  BY DEF GateInv, OneAtATime, WithinLimit
<1> QED BY <1>1, GateInvariant, PTL
=============================================================================
