------------------------------ MODULE PitchFlow ------------------------------
(***************************************************************************)
(* telegram/flow.py in one group chat: a pitch, the fires it collects on   *)
(* itself and on the agent's riff, and the one draft request it may earn.  *)
(*                                                                         *)
(* A handler runs on the event loop and is one step up to its next await:  *)
(* the host lookup of a "ship it" and the draft callback are separate      *)
(* steps, so anything may happen in between.  Telegram delivers a message  *)
(* before the reactions to it.  Users are the people of the chat: what one *)
(* of them does while not authorized changes the chat and not the flow.    *)
(* A message the flow never sees (the agent's riff, other bots, strangers) *)
(* is of kind "riff".  A card is posted before its id is known to it.      *)
(*                                                                         *)
(* Left out: texts, the agent's context queue, link_riff (never called),   *)
(* and the 1000-message limit on remembered human messages.                *)
(***************************************************************************)
EXTENDS Naturals, FiniteSets, FiniteSetsExt

CONSTANTS Users,            \* people of the chat who are authorized now and then
          FireThreshold,    \* fire_threshold
          RiffWindow,       \* riff_window, in message ids
          MaxPitches,       \* max_pitches_per_chat
          PitchTTL,         \* pitch_ttl_s, in ticks
          MaxMessages,      \* bound: messages of the chat
          MaxFires,         \* bound: fire reactions that stand or are credited at a time
          MaxIgnored,       \* bound: take-backs of counted fires that are ignored
          MaxTime           \* bound: ticks of the clock

ASSUME FlowAssumption ==
    /\ FireThreshold \in Nat \ {0} /\ RiffWindow \in Nat
    /\ MaxPitches \in Nat \ {0} /\ PitchTTL \in Nat
    /\ MaxMessages \in Nat /\ MaxFires \in Nat /\ MaxIgnored \in Nat
    /\ MaxTime \in Nat

VARIABLES
    time,           \* the clock (time.time)
    kind,           \* the chat: kind[m] of message m, "none" before it is sent
    live,           \* the fire reactions that stand in the chat: <<m, user>>
    ignored,        \* history: counted ones, taken back by somebody not authorized then
    cards,          \* _cards: posted cards whose ids the flow was told
    pitches,        \* _pitches of the chat, by message id; appended, so in the order of the ids
    pitch,          \* the Pitch object of each message in that list
    by_msg,         \* _by_msg: the pitch a message belongs to, or 0
    callback,       \* what became of the pitch's on_draft_requested call
    ships,          \* "ship it" messages of the host that wait for the lookup
    requested       \* history: draft requests recorded in the fund, per pitch

chat_vars ==
    <<time, kind, live, ignored, cards, pitches, pitch, by_msg, callback, ships, requested>>

Msgs == 1..MaxMessages

MessageKinds == {"none", "pitch", "talk", "riff", "card"}

\* A fire is <<m, user>> for a reaction to message m, <<0, user>> for a reply.
Pitch == [author : Users \cup {0}, created_at : 0..MaxTime, drafted : BOOLEAN,
          fires : SUBSET ((0..MaxMessages) \X Users)]

NoPitch == [author |-> 0, created_at |-> 0, drafted |-> FALSE, fires |-> {}]

\* A recorded request and a refused one are both done with.
Outcomes == {"none", "running", "done"}

\* A host's "ship it": the message it replies to (0: none) and the pitches it names.
Ships == [reply : 0..MaxMessages, named : SUBSET Msgs]

FlowInit ==
    /\ time = 0
    /\ kind = [m \in Msgs |-> "none"]
    /\ live = {} /\ ignored = {}
    /\ cards = {}
    /\ pitches = {}
    /\ pitch = [m \in Msgs |-> NoPitch]
    /\ by_msg = [m \in Msgs |-> 0]
    /\ callback = [m \in Msgs |-> "none"]
    /\ ships = {}
    /\ requested = [m \in Msgs |-> 0]

-----------------------------------------------------------------------------
(* State helpers.  A view is what the flow holds: the list of pitches, the *)
(* objects in it and the index.                                            *)

sent == {m \in Msgs : kind[m] # "none"}

next_id == Cardinality(sent) + 1

view == [pitches |-> pitches, pitch |-> pitch, by_msg |-> by_msg]

\* The pitches _prune keeps: young enough, and the newest MaxPitches of those.
kept(v) ==
    LET young == {p \in v.pitches : time - v.pitch[p].created_at <= PitchTTL}
    IN  {p \in young : Cardinality({q \in young : q > p}) < MaxPitches}

\* Mutant: the riffs of a dropped pitch stay in the index.
prune_heads(v) ==
    LET dropped == v.pitches \ kept(v)
    IN  [pitches |-> kept(v),
         pitch |-> [p \in Msgs |-> IF p \in dropped THEN NoPitch ELSE v.pitch[p]],
         by_msg |-> [m \in Msgs |-> IF m \in dropped THEN 0 ELSE v.by_msg[m]]]

\* What is dropped leaves the index too, with its riffs.
prune(v) ==
    LET dropped == v.pitches \ kept(v)
    IN  [pitches |-> kept(v),
         pitch |-> [p \in Msgs |-> IF p \in dropped THEN NoPitch ELSE v.pitch[p]],
         by_msg |-> [m \in Msgs |-> IF v.by_msg[m] \in dropped THEN 0 ELSE v.by_msg[m]]]

\* _seen_human: the messages of people the flow handled.
from_people == {m \in Msgs : kind[m] \in {"pitch", "talk"}}

may_be_riff(m) == m \notin cards /\ m \notin from_people

\* _pitch_for_target: an indexed message is not looked at again (and nothing is
\* pruned for it); an unseen one belongs to the newest open pitch it follows
\* closely.
resolve(v, m) ==
    IF v.by_msg[m] # 0 \/ ~may_be_riff(m) THEN v
    ELSE LET w == prune(v)
             near == {p \in w.pitches : p < m /\ m <= p + RiffWindow}
         IN  IF near = {} THEN w ELSE [w EXCEPT !.by_msg = [@ EXCEPT ![m] = Max(near)]]

\* Pitch p with these fires.
with_fires(v, p, fires) == [v EXCEPT !.pitch = [@ EXCEPT ![p].fires = fires]]

fire_users(p) == {f[2] : f \in p.fires} \ {p.author}

\* The flow after a handler: no draft is asked for ...
no_request(v) ==
    /\ pitches' = v.pitches /\ pitch' = v.pitch /\ by_msg' = v.by_msg
    /\ UNCHANGED callback

\* Mutant: drafted is set when the callback has returned.
emit_late(v, p) ==
    /\ pitches' = v.pitches /\ by_msg' = v.by_msg /\ pitch' = v.pitch
    /\ callback' = [callback EXCEPT ![p] = "running"]

\* ... or _emit runs up to the await of the callback; drafted is set first.
emit(v, p) ==
    /\ pitches' = v.pitches /\ by_msg' = v.by_msg
    /\ pitch' = [v.pitch EXCEPT ![p].drafted = TRUE]
    /\ callback' = [callback EXCEPT ![p] = "running"]

\* A new fire on p, then _maybe_trigger.
fire(v, p, f) ==
    LET w == with_fires(v, p, v.pitch[p].fires \cup {f})
    IN  IF ~w.pitch[p].drafted /\ Cardinality(fire_users(w.pitch[p])) >= FireThreshold
        THEN emit(w, p) ELSE no_request(w)

send(m, k) == m \in Msgs /\ kind' = [kind EXCEPT ![m] = k]

-----------------------------------------------------------------------------
(* on_message, one action per kind of message.                             *)

\* Every message of a person prunes first; a reply to one of the bot's messages
\* reveals its id, which may be the riff.
heard(reply) ==
    LET v == prune(view)
    IN  IF reply # 0 /\ kind[reply] \in {"riff", "card"} THEN resolve(v, reply) ELSE v

\* A mention of the bot with a trade idea.
PitchMessage(u, reply) ==
    LET m == next_id
        v == heard(reply)
    IN  /\ send(m, "pitch")
        /\ no_request(prune([pitches |-> v.pitches \cup {m},
                             pitch |-> [v.pitch EXCEPT ![m] = [NoPitch EXCEPT !.author = u,
                                                                             !.created_at = time]],
                             by_msg |-> [v.by_msg EXCEPT ![m] = m]]))
        /\ UNCHANGED <<time, live, ignored, cards, ships, requested>>

\* Anything else a person says, "ship it" from anyone but the host included.
Talk(reply) ==
    /\ send(next_id, "talk")
    /\ no_request(heard(reply))
    /\ UNCHANGED <<time, live, ignored, cards, ships, requested>>

\* A reply that is only the fire emoji.
FireReply(u, reply) ==
    LET v == resolve(prune(view), reply)
        p == v.by_msg[reply]
    IN  /\ send(next_id, "talk")
        /\ IF p # 0 /\ ~v.pitch[p].drafted THEN fire(v, p, <<0, u>>) ELSE no_request(v)
        /\ UNCHANGED <<time, live, ignored, cards, ships, requested>>

\* The host's "ship it", up to the await of host_for_chat (one at a time).
ShipIt(reply, named) ==
    /\ ships = {}
    /\ send(next_id, "talk")
    /\ no_request(heard(reply))
    /\ ships' = {[reply |-> reply, named |-> named]}
    /\ UNCHANGED <<time, live, ignored, cards, requested>>

\* host_for_chat has answered: the pitch replied to, or the only open pitch the
\* host named that has no draft yet.
ShipResolve(s) ==
    LET v == IF s.reply = 0 THEN view ELSE resolve(view, s.reply)
        replied == IF s.reply = 0 THEN 0 ELSE v.by_msg[s.reply]
        w == IF replied # 0 THEN v ELSE prune(v)
        named == {p \in s.named : p \in w.pitches /\ ~w.pitch[p].drafted}
        target == IF replied # 0 THEN {replied}
                  ELSE IF Cardinality(named) = 1 THEN named ELSE {}
    IN  /\ s \in ships
        /\ ships' = ships \ {s}
        /\ \/ \E p \in target : ~w.pitch[p].drafted /\ emit(w, p)
           \/ (\A p \in target : w.pitch[p].drafted) /\ no_request(w)
        /\ UNCHANGED <<time, kind, live, ignored, cards, requested>>

\* host_for_chat fails or knows no host for the chat.
ShipDropped(s) ==
    /\ s \in ships
    /\ ships' = ships \ {s}
    /\ UNCHANGED <<time, kind, live, ignored, cards, pitches, pitch, by_msg, callback, requested>>

-----------------------------------------------------------------------------
(* on_reaction: a fire is added or taken back.                             *)

\* The reactions that may count: those that stand, and take-backs not looked at.
credited == live \cup ignored

React(u, m) ==
    LET v == resolve(view, m)
        p == v.by_msg[m]
    IN  /\ m \in sent /\ <<m, u>> \notin live /\ Cardinality(credited \cup {<<m, u>>}) <= MaxFires
        /\ live' = live \cup {<<m, u>>} /\ ignored' = ignored \ {<<m, u>>}
        /\ IF p # 0 THEN fire(v, p, <<m, u>>) ELSE no_request(v)
        /\ UNCHANGED <<time, kind, cards, ships, requested>>

\* Mutant: a reaction change on a drafted pitch is not looked at.
UnreactOpen(u, m) ==
    LET v == resolve(view, m)
        p == v.by_msg[m]
    IN  /\ <<m, u>> \in live
        /\ live' = live \ {<<m, u>>}
        /\ UNCHANGED ignored
        /\ no_request(IF p # 0 /\ ~v.pitch[p].drafted
                      THEN with_fires(v, p, v.pitch[p].fires \ {<<m, u>>}) ELSE v)
        /\ UNCHANGED <<time, kind, cards, ships, requested>>

Unreact(u, m) ==
    LET v == resolve(view, m)
        p == v.by_msg[m]
    IN  /\ <<m, u>> \in live
        /\ live' = live \ {<<m, u>>}
        /\ UNCHANGED ignored
        /\ no_request(IF p # 0 THEN with_fires(v, p, v.pitch[p].fires \ {<<m, u>>}) ELSE v)
        /\ UNCHANGED <<time, kind, cards, ships, requested>>

\* Somebody who is not authorized at the time takes a fire back: nothing is looked
\* at, and one that was counted stays counted.  (One that is added is not a fire
\* to the flow, and left out.)
UnreactIgnored(u, m) ==
    /\ <<m, u>> \in live
    /\ live' = live \ {<<m, u>>}
    /\ ignored' = ignored \cup ({<<m, u>>} \cap UNION {pitch[p].fires : p \in pitches})
    /\ Cardinality(ignored') <= MaxIgnored
    /\ UNCHANGED <<time, kind, cards, pitches, pitch, by_msg, callback, ships, requested>>

-----------------------------------------------------------------------------
(* The bot's own messages, the callback and the clock.                     *)

flow == <<pitches, pitch, by_msg>>

\* The agent's riff, or any message the flow is never shown.
Riff ==
    /\ send(next_id, "riff")
    /\ UNCHANGED <<time, live, ignored, cards, flow, callback, ships, requested>>

\* A card appears in the chat ...
PostCard ==
    /\ send(next_id, "card")
    /\ UNCHANGED <<time, live, ignored, cards, flow, callback, ships, requested>>

\* ... and note_bot_card is called when send_message has returned.
NoteCard(m) ==
    /\ kind[m] = "card" /\ m \notin cards
    /\ cards' = cards \cup {m}
    /\ UNCHANGED <<time, kind, live, ignored, flow, callback, ships, requested>>

\* on_draft_requested returns: the topic is claimed ...
CallbackRecords(p) ==
    /\ callback[p] = "running"
    /\ callback' = [callback EXCEPT ![p] = "done"]
    /\ requested' = [requested EXCEPT ![p] = @ + 1]
    /\ UNCHANGED <<time, kind, live, ignored, cards, flow, ships>>

\* ... or a rule refuses, said once in the chat, or the store is busy, and the
\* chat is told to react again in a moment.
CallbackGivesUp(p) ==
    /\ callback[p] = "running"
    /\ callback' = [callback EXCEPT ![p] = "done"]
    /\ UNCHANGED <<time, kind, live, ignored, cards, flow, ships, requested>>

\* It raises anything else: the next fire or "ship it" retries.
CallbackRaises(p) ==
    /\ callback[p] = "running"
    /\ callback' = [callback EXCEPT ![p] = "none"]
    /\ pitch' = [pitch EXCEPT ![p].drafted = FALSE]
    /\ UNCHANGED <<time, kind, live, ignored, cards, pitches, by_msg, ships, requested>>

TimePasses ==
    /\ time < MaxTime
    /\ time' = time + 1
    /\ UNCHANGED <<kind, live, ignored, cards, flow, callback, ships, requested>>

FlowNext ==
    \/ \E u \in Users, reply \in sent \cup {0} : PitchMessage(u, reply)
    \/ \E reply \in sent \cup {0} : Talk(reply)
    \/ \E u \in Users, reply \in sent : FireReply(u, reply)
    \/ \E reply \in sent \cup {0}, named \in SUBSET pitches : ShipIt(reply, named)
    \/ \E s \in ships : ShipResolve(s) \/ ShipDropped(s)
    \/ \E u \in Users, m \in Msgs : React(u, m) \/ Unreact(u, m) \/ UnreactIgnored(u, m)
    \/ Riff \/ PostCard \/ TimePasses
    \/ \E m \in Msgs : NoteCard(m)
    \/ \E p \in Msgs : CallbackRecords(p) \/ CallbackGivesUp(p) \/ CallbackRaises(p)

FlowSpec == FlowInit /\ [][FlowNext]_chat_vars

-----------------------------------------------------------------------------
(* Properties.                                                             *)

FlowTypeOK ==
    /\ time \in 0..MaxTime
    /\ kind \in [Msgs -> MessageKinds]
    /\ live \in SUBSET (Msgs \X Users) /\ ignored \in SUBSET ((Msgs \X Users) \ live)
    /\ cards \in SUBSET Msgs
    /\ pitches \in SUBSET Msgs /\ Cardinality(pitches) <= MaxPitches
    /\ pitch \in [Msgs -> Pitch]
    /\ by_msg \in [Msgs -> 0..MaxMessages]
    /\ callback \in [Msgs -> Outcomes]
    /\ ships \in SUBSET Ships
    /\ requested \in [Msgs -> Nat]

\* The index and the list agree: whatever was pruned, an indexed message leads to
\* an open pitch and every open pitch is found by its own message.
IndexMatchesOpen ==
    /\ \A m \in Msgs : by_msg[m] \in pitches \cup {0}
    /\ \A p \in pitches : by_msg[p] = p

\* "emits DraftRequested once per pitch": however fires, a "ship it" and a slow
\* callback interleave, a pitch is drafted at most once.
OncePerPitch == \A p \in Msgs : requested[p] <= 1

\* A fire that was taken back does not count, also after a callback that failed:
\* the fires of an open pitch all stand in the chat, but for those whose author
\* was not authorized when taking them back.
CountedFiresStand ==
    \A p \in pitches : \A f \in pitch[p].fires : f[1] # 0 => f \in credited

=============================================================================
