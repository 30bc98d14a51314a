---------------------------- MODULE EventPipeline ----------------------------
(***************************************************************************)
(* From the streams to the language model: EventRouter decodes the records *)
(* of one fund, drops an XMTP message it has seen lately, and hands each   *)
(* record to its handler; handlers, hooks and warnings push blocks into    *)
(* the EventBuffer, a ring shared by all; the pre_llm_call hook of         *)
(* whichever session takes the next turn drains it.                        *)
(*                                                                         *)
(* The readers of the CLI stream and of the sidecar are coroutines of the  *)
(* plugin's own loop: a reader routes one record at a time and a chain     *)
(* event keeps it busy until its summary is posted (SidecarRpc).  Hooks    *)
(* run in threads of Hermes.  Push and drain are atomic (threading.Lock).  *)
(*                                                                         *)
(* A block is its serial number.  Left out: the wording of blocks and      *)
(* summaries, counters kept for status, the priority attribute.            *)
(***************************************************************************)
EXTENDS Naturals, Sequences, SequencesExt, FiniteSets

CONSTANTS Ids,              \* XMTP message ids of the fund's group
          Kind,             \* the type of each message
          Sessions,         \* Hermes sessions that take turns
          DedupeCapacity,   \* _DEDUPE_CAPACITY
          BufferMax,        \* maxlen of the ring
          inject_mentions_only, xmtp_summaries,     \* settings
          MaxBlocks, MaxRouted                      \* bounds: blocks pushed, messages routed

\* The stream readers: of `session check --stream`, and of the sidecar.
Readers == {"cli", "sidecar"}

Kinds == {"REACTION", "MESSAGE", "MENTION", "priority", "unhandled"}

ASSUME PipelineAssumption ==
    /\ Kind \in [Ids -> Kinds]
    /\ DedupeCapacity \in Nat \ {0} /\ BufferMax \in Nat \ {0}
    /\ inject_mentions_only \in BOOLEAN /\ xmtp_summaries \in BOOLEAN
    /\ MaxBlocks \in Nat /\ MaxRouted \in Nat

VARIABLES
    seen,       \* _seen_xmtp of the fund, oldest first
    arrived,    \* history: the messages routed, in order, and whether each passed the dedupe
    reader,     \* each reader: "idle", or "posting" a summary
    q,          \* EventBuffer._q
    pushed,     \* serial number of the last block pushed
    mark,       \* history: what pushed was at the last drain
    turn,       \* the blocks a session's hook has drained and not yet returned
    shown       \* history: the blocks returned to a turn, in order

vars == <<seen, arrived, reader, q, pushed, mark, turn, shown>>

NoTurn == [busy |-> FALSE, blocks |-> <<>>]

Init ==
    /\ seen = <<>> /\ arrived = <<>>
    /\ reader = [r \in Readers |-> "idle"]
    /\ q = <<>> /\ pushed = 0 /\ mark = 0
    /\ turn = [s \in Sessions |-> NoTurn] /\ shown = <<>>

-----------------------------------------------------------------------------
\* deque(maxlen=...).append: a full ring drops its oldest block.
appended(b) == LET l == Append(q, b) IN IF Len(l) > BufferMax THEN Tail(l) ELSE l

push ==
    /\ pushed < MaxBlocks
    /\ pushed' = pushed + 1
    /\ q' = appended(pushed + 1)

no_push == UNCHANGED <<q, pushed>>

\* Mutant: the message that was seen last makes room.
evict_newest(s, id) ==
    IF Len(s) < DedupeCapacity THEN Append(s, id) ELSE Append(SubSeq(s, 1, Len(s) - 1), id)

\* A new id is remembered; past the capacity the oldest is forgotten.
remembered(s, id) ==
    LET l == Append(s, id) IN IF Len(l) > DedupeCapacity THEN Tail(l) ELSE l

\* OrderedDict.move_to_end of the id at position i.
moved_to_end(s, i) == Append(RemoveAt(s, i), s[i])

\* handle_xmtp_message: what is injected.
injects(kind) ==
    \/ kind = "priority" \/ kind = "MENTION"
    \/ kind = "MESSAGE" /\ ~inject_mentions_only

-----------------------------------------------------------------------------
\* EventRouter.route of a record that does not decode.
RouteMalformed(r) == reader[r] = "idle" /\ UNCHANGED vars

\* route of a message seen lately: its place in the LRU is refreshed, no more.
RouteDuplicate(r, id) ==
    /\ reader[r] = "idle"
    /\ Len(arrived) < MaxRouted
    /\ arrived' = Append(arrived, [id |-> id, passed |-> FALSE])
    /\ \E i \in DOMAIN seen : seen[i] = id /\ seen' = moved_to_end(seen, i)
    /\ UNCHANGED <<reader, q, pushed, mark, turn, shown>>

\* route of any other message; its handler never waits.
RouteMessage(r, id) ==
    /\ reader[r] = "idle" /\ ~Contains(seen, id)
    /\ Len(arrived) < MaxRouted
    /\ seen' = remembered(seen, id)
    /\ arrived' = Append(arrived, [id |-> id, passed |-> TRUE])
    /\ IF injects(Kind[id]) THEN push ELSE no_push
    /\ UNCHANGED <<reader, mark, turn, shown>>

\* route of a chain event: a type in CHAIN_INJECT_ONLY is injected; one in
\* CHAIN_INJECT_AND_POST also has its summary posted; any other is dropped.  The
\* CLI stream is the only source of them.
RouteChain ==
    /\ reader["cli"] = "idle"
    /\ \/ no_push /\ UNCHANGED reader
       \/ push /\ UNCHANGED reader
       \/ push /\ reader' = [reader EXCEPT !["cli"] = IF xmtp_summaries THEN "posting" ELSE "idle"]
    /\ UNCHANGED <<seen, arrived, mark, turn, shown>>

\* post_fn returns (it swallows every failure): the reader goes on.
PostReturns ==
    /\ reader["cli"] = "posting"
    /\ reader' = [reader EXCEPT !["cli"] = "idle"]
    /\ UNCHANGED <<seen, arrived, q, pushed, mark, turn, shown>>

-----------------------------------------------------------------------------
\* A block pushed outside the router: a warning of register(), the catch-up of
\* on_session_start (nothing when `session check` failed), or the settlement marker
\* of post_tool_call, which comes also when the memory writer failed.
HookPush ==
    /\ push
    /\ UNCHANGED <<seen, arrived, reader, mark, turn, shown>>

\* Mutant: the ring is copied and not cleared.
copied == q

\* What drain leaves in the ring.
drained == <<>>

\* pre_llm_call: the hook drains the ring, then awaits its other context sources ...
PreLlmCall(s) ==
    /\ ~turn[s].busy
    /\ turn' = [turn EXCEPT ![s] = [busy |-> TRUE, blocks |-> q]]
    /\ q' = drained /\ mark' = pushed
    /\ UNCHANGED <<seen, arrived, reader, pushed, shown>>

\* ... and returns what it has; a source that fails is skipped.
TurnContext(s) ==
    /\ turn[s].busy
    /\ shown' = shown \o turn[s].blocks
    /\ turn' = [turn EXCEPT ![s] = NoTurn]
    /\ UNCHANGED <<seen, arrived, reader, q, pushed, mark>>

Next ==
    \/ \E r \in Readers :
        \/ RouteMalformed(r)
        \/ \E id \in Ids : RouteDuplicate(r, id) \/ RouteMessage(r, id)
    \/ RouteChain \/ PostReturns \/ HookPush
    \/ \E s \in Sessions : PreLlmCall(s) \/ TurnContext(s)

Spec == Init /\ [][Next]_vars

-----------------------------------------------------------------------------
TypeOK ==
    /\ seen \in Seq(Ids) /\ arrived \in Seq([id : Ids, passed : BOOLEAN])
    /\ reader \in [Readers -> {"idle", "posting"}]
    /\ q \in Seq(Nat) /\ pushed \in Nat /\ mark \in Nat
    /\ turn \in [Sessions -> [busy : BOOLEAN, blocks : Seq(Nat)]]
    /\ shown \in Seq(Nat)

\* A message that arrives on both paths is delivered once: a second delivery needs
\* DedupeCapacity other messages since it was last seen, on either path.
DedupeHolds ==
    \A i, j \in DOMAIN arrived :
        i < j /\ arrived[i].id = arrived[j].id /\ arrived[j].passed =>
            Cardinality({arrived[k].id : k \in i+1..j-1} \ {arrived[i].id}) >= DedupeCapacity

\* The blocks from the first to the last.
blocks(first, last) == [i \in 1..(last - first) |-> first + i]

\* The ring holds the newest blocks since the last drain, in order and without a gap:
\* only blocks that BufferMax later ones followed before any turn are missing.  None of
\* them reaches two turns, although sessions drain while others still hold what they
\* drained.
RingKeepsNewest ==
    /\ q = blocks(IF pushed > mark + BufferMax THEN pushed - BufferMax ELSE mark, pushed)
    /\ IsInjective(shown)
    /\ \A s \in Sessions : /\ ToSet(turn[s].blocks) \cap (ToSet(shown) \cup ToSet(q)) = {}
                           /\ \A t \in Sessions \ {s} :
                                 ToSet(turn[s].blocks) \cap ToSet(turn[t].blocks) = {}
=============================================================================
