------------------------------- MODULE MCChat -------------------------------
(* PitchFlow on a small chat and EventPipeline with three messages: what   *)
(* comes from Telegram and what comes from XMTP and the chain.  The two    *)
(* share no state here, so a behaviour is about one of them and leaves the *)
(* other at its start.                                                     *)
EXTENDS PitchFlow, EventPipeline, TLC

CONSTANTS alice, bob, carol, m1, m2, m3

\* A plain message, a risk alert and a reaction.
MCKind == [id \in {m1, m2, m3} |->
              IF id = m1 THEN "MESSAGE" ELSE IF id = m2 THEN "priority" ELSE "REACTION"]

VARIABLE part       \* "pitches" or "events": what this behaviour is about

ChatInit == part \in {"pitches", "events"} /\ FlowInit /\ Init

ChatNext ==
    \/ part = "pitches" /\ FlowNext /\ UNCHANGED <<part, vars>>
    \/ part = "events" /\ Next /\ UNCHANGED <<part, chat_vars>>

ChatSpec == ChatInit /\ [][ChatNext]_<<part, chat_vars, vars>>

\* Users are interchangeable: which of them is the host matters to `ship it` only, which
\* names no user.
People == Permutations(Users)
=============================================================================
