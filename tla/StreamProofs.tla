---------------------------- MODULE StreamProofs ----------------------------
(***************************************************************************)
(* Proofs about the way of an event, from the stream to a turn of the      *)
(* language model.                                                         *)
(*                                                                         *)
(* EventPipeline, for a ring and a dedupe of any size and any number of    *)
(* sessions, blocks and messages: the ring keeps the newest blocks, no     *)
(* block reaches two turns, no message is handled twice.                   *)
(*                                                                         *)
(* StreamSupervisor, on every Python and for any number of starts, spawns, *)
(* boots and callers of stop: one child, supervised, besides those spawned *)
(* too late for a stop, of which there are none where wait_for does not    *)
(* suspend for a child that has exited; and a truthful status file.        *)
(***************************************************************************)
EXTENDS EventPipeline, StreamSupervisor, FiniteSetTheorems, TLAPS

-----------------------------------------------------------------------------
(* The ring.                                                               *)

\* The first block that is missing no more.
oldest(p, m) == IF p > m + BufferMax THEN p - BufferMax ELSE m

\* Blocks that left the ring for a turn are at most `mark`, and each is in one place.
Places ==
    /\ turn \in [Sessions -> [busy : BOOLEAN, blocks : Seq(Nat)]] /\ shown \in Seq(Nat)
    /\ IsInjective(shown) /\ \A b \in ToSet(shown) : b <= mark
    /\ \A s \in Sessions :
        /\ IsInjective(turn[s].blocks) /\ \A b \in ToSet(turn[s].blocks) : b <= mark
        /\ ToSet(turn[s].blocks) \cap ToSet(shown) = {}
        /\ \A t \in Sessions \ {s} : ToSet(turn[s].blocks) \cap ToSet(turn[t].blocks) = {}

RingInv ==
    /\ pushed \in Nat /\ mark \in Nat /\ mark <= pushed
    /\ q = blocks(oldest(pushed, mark), pushed)
    /\ Places

-----------------------------------------------------------------------------
LEMMA BlocksTyped ==
    ASSUME NEW f \in Nat, NEW l \in Nat, f <= l
    PROVE  /\ blocks(f, l) \in Seq(Nat) /\ Len(blocks(f, l)) = l - f /\ DOMAIN blocks(f, l) = 1..(l - f)
           /\ \A i \in 1..(l - f) : blocks(f, l)[i] = f + i
           /\ IsInjective(blocks(f, l)) /\ \A b \in ToSet(blocks(f, l)) : f < b /\ b <= l
<1>1. blocks(f, l) \in Seq(Nat) /\ Len(blocks(f, l)) = l - f /\ DOMAIN blocks(f, l) = 1..(l - f)
  BY DEF blocks
<1>2. \A i \in 1..(l - f) : blocks(f, l)[i] = f + i
  BY DEF blocks
<1>3. IsInjective(blocks(f, l))
  BY <1>1, <1>2 DEF IsInjective
<1>4. \A b \in ToSet(blocks(f, l)) : f < b /\ b <= l
  BY <1>1, <1>2 DEF ToSet
<1> QED BY <1>1, <1>2, <1>3, <1>4

LEMMA Appends ==
    ASSUME NEW s \in Seq(Nat), NEW n \in Nat
    PROVE  /\ Append(s, n) \in Seq(Nat) /\ Len(Append(s, n)) = Len(s) + 1
           /\ \A i \in 1..(Len(s) + 1) : Append(s, n)[i] = IF i = Len(s) + 1 THEN n ELSE s[i]
  OBVIOUS

LEMMA BlocksAppend ==
    ASSUME NEW f \in Nat, NEW l \in Nat, f <= l
    PROVE  Append(blocks(f, l), l + 1) = blocks(f, l + 1)
<1> DEFINE a == Append(blocks(f, l), l + 1)
           b == blocks(f, l + 1)
<1>0. /\ blocks(f, l) \in Seq(Nat) /\ Len(blocks(f, l)) = l - f /\ l + 1 \in Nat
      /\ \A i \in 1..(l - f) : blocks(f, l)[i] = f + i
  BY BlocksTyped
<1>1. /\ a \in Seq(Nat) /\ Len(a) = (l - f) + 1
      /\ \A i \in 1..((l - f) + 1) : a[i] = IF i = (l - f) + 1 THEN l + 1 ELSE blocks(f, l)[i]
  <2> DEFINE s == blocks(f, l)
  <2> HIDE DEF s
  <2>1. /\ Append(s, l + 1) \in Seq(Nat) /\ Len(Append(s, l + 1)) = Len(s) + 1
        /\ \A i \in 1..(Len(s) + 1) : Append(s, l + 1)[i] = IF i = Len(s) + 1 THEN l + 1 ELSE s[i]
    BY <1>0, Appends DEF s
  <2>2. Len(s) = l - f
    BY <1>0 DEF s
  <2>3. /\ Append(s, l + 1) \in Seq(Nat) /\ Len(Append(s, l + 1)) = (l - f) + 1
        /\ \A i \in 1..((l - f) + 1) : Append(s, l + 1)[i] = IF i = (l - f) + 1 THEN l + 1 ELSE s[i]
    BY <2>1, <2>2
  <2> QED BY <2>3 DEF s
<1>2. b \in Seq(Nat) /\ Len(b) = (l + 1) - f
  BY BlocksTyped
<1>3. \A i \in 1..((l - f) + 1) : a[i] = f + i
  <2> DEFINE s == blocks(f, l)
  <2> HIDE DEF a, s
  <2>0. /\ \A i \in 1..(l - f) : s[i] = f + i
        /\ \A i \in 1..((l - f) + 1) : a[i] = IF i = (l - f) + 1 THEN l + 1 ELSE s[i]
    BY <1>0, <1>1 DEF s
  <2> SUFFICES ASSUME NEW i \in 1..((l - f) + 1)
               PROVE  a[i] = f + i
    OBVIOUS
  <2>1. CASE i = (l - f) + 1
    <3>1. a[i] = l + 1
      BY <2>0, <2>1
    <3>2. f + i = l + 1
      BY <2>1
    <3> QED BY <3>1, <3>2
  <2>2. CASE i # (l - f) + 1
    <3>1. a[i] = s[i]
      BY <2>0, <2>2
    <3>2. i \in 1..(l - f)
      BY <2>2
    <3> QED BY <2>0, <3>1, <3>2
  <2> QED BY <2>1, <2>2
<1>4. \A i \in 1..((l - f) + 1) : b[i] = f + i
  BY BlocksTyped
<1> HIDE DEF a, b
<1>5. a = b
  BY <1>1, <1>2, <1>3, <1>4
<1> QED BY <1>5 DEF a, b

LEMMA BlocksTail ==
    ASSUME NEW f \in Nat, NEW l \in Nat, f < l
    PROVE  Tail(blocks(f, l)) = blocks(f + 1, l)
<1> DEFINE a == Tail(blocks(f, l))
           b == blocks(f + 1, l)
<1>1. blocks(f, l) \in Seq(Nat) /\ Len(blocks(f, l)) = l - f /\ blocks(f, l) # <<>>
  BY BlocksTyped
<1>2. a \in Seq(Nat) /\ Len(a) = (l - f) - 1
  BY <1>1
<1>3. b \in Seq(Nat) /\ Len(b) = l - (f + 1)
  BY BlocksTyped
<1>4. \A i \in 1..((l - f) - 1) : a[i] = blocks(f, l)[i + 1]
  BY <1>1
<1>5. \A i \in 1..((l - f) - 1) : a[i] = f + (i + 1)
  <2> DEFINE s == blocks(f, l)
  <2>1. \A j \in 1..(l - f) : s[j] = f + j
    BY BlocksTyped
  <2> HIDE DEF a, s
  <2>2. \A i \in 1..((l - f) - 1) : a[i] = s[i + 1]
    BY <1>4 DEF s
  <2> SUFFICES ASSUME NEW i \in 1..((l - f) - 1)
               PROVE  a[i] = f + (i + 1)
    OBVIOUS
  <2>3. i + 1 \in 1..(l - f)
    OBVIOUS
  <2> QED BY <2>1, <2>2, <2>3
<1>6. \A i \in 1..((l - f) - 1) : b[i] = (f + 1) + i
  BY BlocksTyped
<1> HIDE DEF a, b
<1>7. a = b
  BY <1>2, <1>3, <1>5, <1>6
<1> QED BY <1>7 DEF a, b

\* A block pushed is the ring's newest; the oldest leaves it if it was full.
LEMMA Pushes ==
    ASSUME RingInv, push, UNCHANGED <<mark, turn, shown>>
    PROVE  RingInv'
<1> DEFINE f == oldest(pushed, mark)
           l == Append(q, pushed + 1)
<1>1. /\ pushed \in Nat /\ mark \in Nat /\ mark <= pushed /\ BufferMax \in Nat \ {0}
      /\ q = blocks(f, pushed)
  BY PipelineAssumption DEF RingInv
<1>2. f \in Nat /\ f <= pushed
  BY <1>1 DEF oldest
<1>3. pushed' = pushed + 1 /\ q' = IF Len(l) > BufferMax THEN Tail(l) ELSE l
  BY DEF push, appended
<1>4. l = blocks(f, pushed + 1) /\ Len(l) = (pushed + 1) - f
  <2> HIDE DEF f
  <2>1. l = blocks(f, pushed + 1)
    BY <1>1, <1>2, BlocksAppend
  <2>2. pushed + 1 \in Nat /\ f <= pushed + 1
    BY <1>1, <1>2
  <2> QED BY <1>2, <2>1, <2>2, BlocksTyped
<1>5. q' = blocks(oldest(pushed + 1, mark), pushed + 1)
  <2>1. CASE pushed >= mark + BufferMax
    <3>1. f = pushed - BufferMax /\ oldest(pushed + 1, mark) = f + 1
      BY <1>1, <2>1 DEF oldest
    <3>2. Len(l) > BufferMax /\ f < pushed + 1 /\ pushed + 1 \in Nat
      BY <1>1, <1>2, <1>4, <3>1
    <3> HIDE DEF f, l
    <3>3. q' = Tail(blocks(f, pushed + 1))
      BY <1>3, <1>4, <3>2
    <3> QED BY <1>2, <3>1, <3>2, <3>3, BlocksTail
  <2>2. CASE pushed < mark + BufferMax
    <3>1. f = mark /\ oldest(pushed + 1, mark) = mark
      BY <1>1, <2>2 DEF oldest
    <3>2. ~(Len(l) > BufferMax)
      BY <1>1, <1>4, <2>2, <3>1
    <3> QED BY <1>3, <1>4, <3>1, <3>2
  <2> QED BY <1>1, <2>1, <2>2
<1>6. Places'
  BY DEF RingInv, Places
<1>7. pushed' \in Nat /\ mark' = mark /\ mark' <= pushed'
  BY <1>1, <1>3
<1> QED BY <1>1, <1>3, <1>5, <1>6, <1>7 DEF RingInv, oldest

\* A drain: what the ring held is newer than anything that left it before.
LEMMA DrainsRing ==
    ASSUME RingInv, NEW s \in Sessions, PreLlmCall(s)
    PROVE  RingInv'
<1> DEFINE f == oldest(pushed, mark)
           o == [busy |-> TRUE, blocks |-> q]
<1>1. /\ pushed \in Nat /\ mark \in Nat /\ mark <= pushed /\ BufferMax \in Nat \ {0}
      /\ q = blocks(f, pushed) /\ Places
  BY PipelineAssumption DEF RingInv
<1>2. f \in Nat /\ f <= pushed /\ mark <= f
  BY <1>1 DEF oldest
<1>3. /\ turn' = [turn EXCEPT ![s] = o] /\ q' = <<>> /\ mark' = pushed
      /\ pushed' = pushed /\ shown' = shown
  BY DEF PreLlmCall, drained
<1> HIDE DEF f
<1>4. q \in Seq(Nat) /\ IsInjective(q) /\ \A b \in ToSet(q) : f < b /\ b <= pushed
  BY <1>1, <1>2, BlocksTyped
<1>5. q' = blocks(oldest(pushed, pushed), pushed)
  <2>1. oldest(pushed, pushed) = pushed
    BY <1>1 DEF oldest
  <2>2. blocks(pushed, pushed) = <<>>
    BY <1>1, BlocksTyped
  <2> QED BY <1>3, <2>1, <2>2
<1>6. /\ turn' \in [Sessions -> [busy : BOOLEAN, blocks : Seq(Nat)]] /\ turn'[s].blocks = q
      /\ \A t \in Sessions \ {s} : turn'[t] = turn[t]
  BY <1>1, <1>3, <1>4 DEF Places
<1>7. \A n \in Nat : n <= mark => n <= pushed /\ ~(f < n)
  BY <1>1, <1>2
<1>8. /\ shown \in Seq(Nat) /\ ToSet(shown) \subseteq Nat
      /\ \A t \in Sessions : turn[t].blocks \in Seq(Nat) /\ ToSet(turn[t].blocks) \subseteq Nat
  BY <1>1 DEF Places, ToSet
<1>9. \A b \in ToSet(shown) : b <= pushed /\ b \notin ToSet(q)
  BY <1>1, <1>4, <1>7, <1>8 DEF Places
<1>10. \A t \in Sessions : \A b \in ToSet(turn[t].blocks) : b <= pushed /\ b \notin ToSet(q)
  BY <1>1, <1>4, <1>7, <1>8 DEF Places
<1>11. Places'
  <2>1. ASSUME NEW t \in Sessions
        PROVE  /\ IsInjective(turn'[t].blocks) /\ \A b \in ToSet(turn'[t].blocks) : b <= mark'
               /\ ToSet(turn'[t].blocks) \cap ToSet(shown') = {}
               /\ \A r \in Sessions \ {t} : ToSet(turn'[t].blocks) \cap ToSet(turn'[r].blocks) = {}
    <3>1. CASE t = s
      BY <1>3, <1>4, <1>6, <1>9, <1>10, <3>1
    <3>2. CASE t # s
      BY <1>1, <1>3, <1>6, <1>10, <3>2 DEF Places
    <3> QED BY <3>1, <3>2
  <2>2. shown' \in Seq(Nat) /\ IsInjective(shown') /\ \A b \in ToSet(shown') : b <= mark'
    BY <1>1, <1>3, <1>9 DEF Places
  <2> QED BY <1>6, <2>1, <2>2 DEF Places
<1> QED BY <1>1, <1>3, <1>5, <1>11 DEF RingInv

\* The concatenation of two lists without repetition that share nothing.
LEMMA Joined ==
    ASSUME NEW a \in Seq(Nat), NEW b \in Seq(Nat), IsInjective(a), IsInjective(b),
           ToSet(a) \cap ToSet(b) = {}
    PROVE  a \o b \in Seq(Nat) /\ IsInjective(a \o b) /\ ToSet(a \o b) \subseteq ToSet(a) \cup ToSet(b)
<1> DEFINE c == a \o b
<1>1. /\ c \in Seq(Nat) /\ Len(c) = Len(a) + Len(b)
      /\ \A i \in 1..Len(a) : c[i] = a[i]
      /\ \A i \in Len(a)+1..Len(a)+Len(b) : c[i] = b[i - Len(a)]
  OBVIOUS
<1> HIDE DEF c
<1>2. \A i \in DOMAIN c : \/ i \in DOMAIN a /\ c[i] = a[i]
                          \/ i - Len(a) \in DOMAIN b /\ c[i] = b[i - Len(a)]
  <2>1. /\ Len(a) \in Nat /\ Len(b) \in Nat /\ DOMAIN a = 1..Len(a) /\ DOMAIN b = 1..Len(b)
        /\ DOMAIN c = 1..Len(a)+Len(b)
    BY <1>1
  <2>2. ASSUME NEW i \in 1..Len(a)+Len(b)
        PROVE  i \in 1..Len(a) \/ (i \in Len(a)+1..Len(a)+Len(b) /\ i - Len(a) \in 1..Len(b))
    BY <2>1
  <2> QED BY <1>1, <2>1, <2>2
<1>3. ToSet(c) \subseteq ToSet(a) \cup ToSet(b)
  BY <1>2 DEF ToSet
<1>4. \A i \in DOMAIN a, j \in DOMAIN b : a[i] # b[j]
  BY DEF ToSet
<1>5. ASSUME NEW i \in DOMAIN c, NEW j \in DOMAIN c, c[i] = c[j] PROVE i = j
  <2>1. i \in Int /\ j \in Int /\ Len(a) \in Int
    BY <1>1
  <2>2. CASE i \in DOMAIN a /\ c[i] = a[i] /\ j \in DOMAIN a /\ c[j] = a[j]
    BY <1>5, <2>2 DEF IsInjective
  <2>3. CASE i - Len(a) \in DOMAIN b /\ c[i] = b[i - Len(a)] /\ j - Len(a) \in DOMAIN b /\ c[j] = b[j - Len(a)]
    <3>1. i - Len(a) = j - Len(a)
      BY <1>5, <2>3 DEF IsInjective
    <3> QED BY <2>1, <3>1
  <2>4. CASE i \in DOMAIN a /\ c[i] = a[i] /\ j - Len(a) \in DOMAIN b /\ c[j] = b[j - Len(a)]
    BY <1>4, <1>5, <2>4
  <2>5. CASE j \in DOMAIN a /\ c[j] = a[j] /\ i - Len(a) \in DOMAIN b /\ c[i] = b[i - Len(a)]
    BY <1>4, <1>5, <2>5
  <2> QED BY <1>2, <2>2, <2>3, <2>4, <2>5
<1>6. IsInjective(c)
  BY <1>5 DEF IsInjective
<1> QED BY <1>1, <1>3, <1>6 DEF c

\* The hook returns what it drained.
LEMMA Returns ==
    ASSUME RingInv, NEW s \in Sessions, TurnContext(s)
    PROVE  RingInv'
<1>1. /\ turn' = [turn EXCEPT ![s] = NoTurn] /\ shown' = shown \o turn[s].blocks
      /\ UNCHANGED <<q, pushed, mark>> /\ Places
  BY DEF TurnContext, RingInv
<1>2. shown \in Seq(Nat) /\ turn[s].blocks \in Seq(Nat)
  BY <1>1 DEF Places
<1>3. shown' \in Seq(Nat) /\ IsInjective(shown')
        /\ ToSet(shown') \subseteq ToSet(shown) \cup ToSet(turn[s].blocks)
  <2>1. ToSet(shown) \cap ToSet(turn[s].blocks) = {} /\ IsInjective(shown) /\ IsInjective(turn[s].blocks)
    BY <1>1 DEF Places
  <2> QED BY <1>1, <1>2, <2>1, Joined
<1>4. NoTurn.blocks = <<>> /\ NoTurn \in [busy : BOOLEAN, blocks : Seq(Nat)]
  BY DEF NoTurn
<1>5. IsInjective(<<>>) /\ ToSet(<<>>) = {}
  BY DEF IsInjective, ToSet
<1>6. /\ turn' \in [Sessions -> [busy : BOOLEAN, blocks : Seq(Nat)]] /\ turn'[s].blocks = <<>>
      /\ \A t \in Sessions \ {s} : turn'[t] = turn[t]
  BY <1>1, <1>4 DEF Places
<1>7. ASSUME NEW t \in Sessions
      PROVE  /\ IsInjective(turn'[t].blocks) /\ \A b \in ToSet(turn'[t].blocks) : b <= mark'
             /\ ToSet(turn'[t].blocks) \cap ToSet(shown') = {}
             /\ \A r \in Sessions \ {t} : ToSet(turn'[t].blocks) \cap ToSet(turn'[r].blocks) = {}
  <2>1. CASE t = s
    BY <1>5, <1>6, <2>1
  <2>2. CASE t # s
    BY <1>1, <1>3, <1>5, <1>6, <2>2 DEF Places
  <2> QED BY <2>1, <2>2
<1>8. \A b \in ToSet(shown') : b <= mark'
  BY <1>1, <1>3 DEF Places
<1>9. Places'
  BY <1>3, <1>6, <1>7, <1>8 DEF Places
<1> QED BY <1>1, <1>9 DEF RingInv

LEMMA RingStart == Init => RingInv
<1> SUFFICES ASSUME Init PROVE RingInv
  OBVIOUS
<1>1. q = <<>> /\ pushed = 0 /\ mark = 0 /\ shown = <<>> /\ turn = [s \in Sessions |-> NoTurn]
  BY DEF Init
<1>2. oldest(0, 0) = 0 /\ blocks(0, 0) = <<>>
  BY PipelineAssumption, BlocksTyped DEF oldest
<1>3. IsInjective(<<>>) /\ ToSet(<<>>) = {}
  BY DEF IsInjective, ToSet
<1>4. NoTurn.blocks = <<>> /\ NoTurn \in [busy : BOOLEAN, blocks : Seq(Nat)]
  BY DEF NoTurn
<1>5. Places
  BY <1>1, <1>3, <1>4 DEF Places
<1> QED BY <1>1, <1>2, <1>5 DEF RingInv

LEMMA RingStep == RingInv /\ [Next]_vars => RingInv'
<1> SUFFICES ASSUME RingInv, [Next]_vars PROVE RingInv'
  OBVIOUS
<1>1. CASE UNCHANGED <<q, pushed, mark, turn, shown>>
  BY <1>1 DEF RingInv, Places
<1>2. CASE push /\ UNCHANGED <<mark, turn, shown>>
  BY <1>2, Pushes
<1>3. ASSUME NEW r \in Readers, RouteMalformed(r) PROVE RingInv'
  BY <1>1, <1>3 DEF RouteMalformed, vars
<1>4. ASSUME NEW r \in Readers, NEW id \in Ids, RouteDuplicate(r, id) \/ RouteMessage(r, id) PROVE RingInv'
  BY <1>1, <1>2, <1>4 DEF RouteDuplicate, RouteMessage, no_push
<1>5. CASE RouteChain \/ PostReturns \/ HookPush
  BY <1>1, <1>2, <1>5 DEF RouteChain, PostReturns, HookPush, no_push
<1>6. ASSUME NEW s \in Sessions, PreLlmCall(s) \/ TurnContext(s) PROVE RingInv'
  BY <1>6, DrainsRing, Returns
<1>7. CASE UNCHANGED vars
  BY <1>1, <1>7 DEF vars
<1> QED BY <1>3, <1>4, <1>5, <1>6, <1>7 DEF Next

-----------------------------------------------------------------------------
\* EventBuffer: at any time the ring holds exactly the newest blocks since the last drain,
\* and no block is returned to two turns, whatever sessions drain in whatever order.
THEOREM NewestAreKept == Spec => []RingKeepsNewest
<1>1. RingInv => RingKeepsNewest
  <2> SUFFICES ASSUME RingInv PROVE RingKeepsNewest
    OBVIOUS
  <2>1. /\ pushed \in Nat /\ mark \in Nat /\ mark <= pushed /\ BufferMax \in Nat \ {0}
        /\ q = blocks(oldest(pushed, mark), pushed) /\ Places
    BY PipelineAssumption DEF RingInv
  <2>2. oldest(pushed, mark) \in Nat /\ oldest(pushed, mark) <= pushed /\ mark <= oldest(pushed, mark)
    BY <2>1 DEF oldest
  <2>3. \A b \in ToSet(q) : oldest(pushed, mark) < b /\ b \in Nat
    <3>1. q \in Seq(Nat)
      BY <2>1, <2>2, BlocksTyped
    <3>2. ToSet(q) \subseteq Nat
      BY <3>1 DEF ToSet
    <3> QED BY <2>1, <2>2, <3>2, BlocksTyped
  <2>4. \A b \in Nat : b <= mark => ~(oldest(pushed, mark) < b)
    BY <2>1, <2>2
  <2>5. \A s \in Sessions : ToSet(turn[s].blocks) \cap ToSet(q) = {}
    BY <2>1, <2>3, <2>4 DEF Places
  <2> QED BY <2>1, <2>5 DEF Places, RingKeepsNewest, oldest
<1> QED BY <1>1, RingStart, RingStep, PTL DEF Spec

-----------------------------------------------------------------------------
(* The messages seen lately.                                               *)

\* x is nearer to being forgotten than y.
Before(s, x, y) == \E p, m \in DOMAIN s : p < m /\ s[p] = x /\ s[m] = y

\* The other messages that arrived after the i-th.
After(a, i) == {a[k].id : k \in i+1..Len(a)} \ {a[i].id}

Arrivals == [id : Ids, passed : BOOLEAN]

\* A message is remembered, or enough others followed; those that will be forgotten
\* later have arrived later.
DedupeInv ==
    /\ seen \in Seq(Ids) /\ Len(seen) <= DedupeCapacity /\ IsInjective(seen)
    /\ arrived \in Seq(Arrivals)
    /\ \A i \in DOMAIN arrived :
        /\ arrived[i].id \in ToSet(seen) \/ Cardinality(After(arrived, i)) >= DedupeCapacity
        /\ \A y \in Ids : Before(seen, arrived[i].id, y) => y \in After(arrived, i)
    /\ DedupeHolds

\* Where the j-th of n places comes from when the i-th moves to the end.
from(j, i, n) == IF j < i THEN j ELSE IF j < n THEN j + 1 ELSE i

LEMMA FromPlaces ==
    ASSUME NEW n \in Nat, NEW i \in 1..n
    PROVE  /\ \A j \in 1..n : from(j, i, n) \in 1..n
           /\ \A j, k \in 1..n : from(j, i, n) = from(k, i, n) => j = k
           /\ \A j, k \in 1..n : j < k => /\ from(j, i, n) # i
                                          /\ from(j, i, n) < from(k, i, n) \/ from(k, i, n) = i
           /\ \A j \in 1..n : \E k \in 1..n : from(k, i, n) = j
<1>1. \A j \in 1..n : from(j, i, n) \in 1..n
  BY DEF from
<1>2. \A j, k \in 1..n : from(j, i, n) = from(k, i, n) => j = k
  BY DEF from
<1>3. \A j, k \in 1..n : j < k => /\ from(j, i, n) # i
                                  /\ from(j, i, n) < from(k, i, n) \/ from(k, i, n) = i
  BY DEF from
<1>4. ASSUME NEW j \in 1..n PROVE \E k \in 1..n : from(k, i, n) = j
  <2>1. CASE j < i
    <3>1. from(j, i, n) = j
      BY <2>1 DEF from
    <3> QED BY <3>1
  <2>2. CASE j = i
    <3>1. n \in 1..n /\ from(n, i, n) = j
      BY <2>2 DEF from
    <3> QED BY <3>1
  <2>3. CASE j > i
    <3>1. j - 1 \in 1..n /\ from(j - 1, i, n) = j
      BY <2>3 DEF from
    <3> QED BY <3>1
  <2> QED BY <2>1, <2>2, <2>3
<1> QED BY <1>1, <1>2, <1>3, <1>4

LEMMA Concatenated ==
    ASSUME NEW a \in Seq(Ids), NEW b \in Seq(Ids)
    PROVE  /\ a \o b \in Seq(Ids) /\ Len(a \o b) = Len(a) + Len(b)
           /\ \A j \in 1..Len(a) : (a \o b)[j] = a[j]
           /\ \A j \in Len(a)+1..Len(a)+Len(b) : (a \o b)[j] = b[j - Len(a)]
  OBVIOUS

LEMMA MovedToEnd ==
    ASSUME NEW s \in Seq(Ids), IsInjective(s), NEW i \in DOMAIN s
    PROVE  LET t == moved_to_end(s, i) IN
           /\ t \in Seq(Ids) /\ Len(t) = Len(s) /\ IsInjective(t) /\ ToSet(t) = ToSet(s)
           /\ \A x, y \in Ids : Before(t, x, y) => x # s[i] /\ (Before(s, x, y) \/ y = s[i])
<1> DEFINE n == Len(s)
           t == moved_to_end(s, i)
           at(j) == from(j, i, n)
<1>1. n \in Nat /\ DOMAIN s = 1..n /\ i \in 1..n /\ Len(s) = n
  OBVIOUS
<1> HIDE DEF n
<1>2. /\ t \in Seq(Ids) /\ Len(t) = n
      /\ \A j \in 1..n : t[j] = s[at(j)]
  <2> DEFINE a == SubSeq(s, 1, i - 1)
             b == SubSeq(s, i + 1, n)
             c == a \o b
  <2>1. a \in Seq(Ids) /\ Len(a) = i - 1 /\ \A j \in 1..(i - 1) : a[j] = s[j]
    BY <1>1
  <2>2. b \in Seq(Ids) /\ Len(b) = n - i /\ \A j \in 1..(n - i) : b[j] = s[i + j]
    BY <1>1
  <2> HIDE DEF a, b
  <2>3. /\ c \in Seq(Ids) /\ Len(c) = Len(a) + Len(b)
        /\ \A j \in 1..Len(a) : c[j] = a[j]
        /\ \A j \in Len(a)+1..Len(a)+Len(b) : c[j] = b[j - Len(a)]
    BY <2>1, <2>2, Concatenated
  <2> HIDE DEF c
  <2>4. c \in Seq(Ids) /\ Len(c) = n - 1 /\ \A j \in 1..(n - 1) : c[j] = s[at(j)]
    <3>1. ASSUME NEW j \in 1..(n - 1) PROVE c[j] = s[at(j)]
      <4>0. j \in Int /\ i \in Int /\ n \in Int /\ 1 <= i /\ i <= n /\ 1 <= j /\ j <= n - 1
        BY <1>1
      <4>1. CASE j < i
        <5>1. j \in 1..(i - 1) /\ at(j) = j
          BY <4>0, <4>1 DEF from
        <5> QED BY <2>1, <2>3, <5>1
      <4>2. CASE ~(j < i)
        <5>1. /\ j \in (i - 1)+1..(i - 1)+(n - i) /\ j - (i - 1) \in 1..(n - i)
              /\ i + (j - (i - 1)) = j + 1
          BY <4>0, <4>2
        <5>3. at(j) = j + 1
          <6>1. j < n /\ ~(j < i)
            BY <4>0, <4>2
          <6> QED BY <6>1, Zenon DEF from
        <5>2. c[j] = b[j - (i - 1)]
          BY <2>1, <2>2, <2>3, <5>1
        <5> QED BY <2>2, <5>1, <5>2, <5>3
      <4> QED BY <4>1, <4>2
    <3>2. (i - 1) + (n - i) = n - 1
      BY <1>1
    <3> QED BY <2>1, <2>2, <2>3, <3>1, <3>2
  <2>5. t = Append(c, s[i]) /\ s[i] \in Ids
    BY DEF moved_to_end, RemoveAt, a, b, c, n
  <2>6. at(n) = i
    BY <1>1 DEF from
  <2>7. t \in Seq(Ids) /\ Len(t) = n /\ t[n] = s[i] /\ \A j \in 1..(n - 1) : t[j] = c[j]
    <3> HIDE DEF at, t
    <3> QED BY <1>1, <2>4, <2>5
  <2>8. ASSUME NEW j \in 1..n PROVE t[j] = s[at(j)]
    <3>1. j = n \/ j \in 1..(n - 1)
      BY <1>1
    <3> HIDE DEF at, t
    <3> QED BY <2>4, <2>6, <2>7, <3>1
  <2> QED BY <2>7, <2>8
<1>3. /\ \A j \in 1..n : at(j) \in 1..n
      /\ \A j, k \in 1..n : at(j) = at(k) => j = k
      /\ \A j, k \in 1..n : j < k => at(j) # i /\ (at(j) < at(k) \/ at(k) = i)
      /\ \A j \in 1..n : \E k \in 1..n : at(k) = j
  <2>1. n \in Nat /\ i \in 1..n
    BY <1>1
  <2> QED BY <2>1, FromPlaces, Zenon
<1> HIDE DEF at, t
<1>7. DOMAIN t = 1..n /\ IsInjective(t)
  <2>1. DOMAIN t = 1..n
    BY <1>2
  <2>2. ASSUME NEW j \in 1..n, NEW k \in 1..n, t[j] = t[k] PROVE j = k
    <3>1. s[at(j)] = s[at(k)] /\ at(j) \in DOMAIN s /\ at(k) \in DOMAIN s
      BY <1>1, <1>2, <1>3, <2>2
    <3>2. at(j) = at(k)
      BY <3>1 DEF IsInjective
    <3> QED BY <1>3, <3>2
  <2> QED BY <2>1, <2>2 DEF IsInjective
<1>8. ToSet(t) = ToSet(s)
  <2>1. \A x \in ToSet(t) : x \in ToSet(s)
    BY <1>1, <1>2, <1>3, <1>7 DEF ToSet
  <2>2. ASSUME NEW x \in ToSet(s) PROVE x \in ToSet(t)
    <3>1. PICK j \in 1..n : s[j] = x
      BY <1>1 DEF ToSet
    <3>2. PICK k \in 1..n : at(k) = j
      BY <1>3
    <3>3. t[k] = x
      BY <1>2, <3>1, <3>2
    <3> QED BY <1>7, <3>3 DEF ToSet
  <2> QED BY <2>1, <2>2
<1>9. ASSUME NEW x \in Ids, NEW y \in Ids, Before(t, x, y)
      PROVE  x # s[i] /\ (Before(s, x, y) \/ y = s[i])
  <2>1. PICK p \in 1..n, m \in 1..n : p < m /\ t[p] = x /\ t[m] = y
    BY <1>7, <1>9 DEF Before
  <2>2. s[at(p)] = x /\ s[at(m)] = y /\ at(p) \in DOMAIN s /\ at(m) \in DOMAIN s
    BY <1>1, <1>2, <1>3, <2>1
  <2>3. at(p) # i /\ (at(p) < at(m) \/ at(m) = i)
    BY <1>3, <2>1
  <2>4. x # s[i]
    BY <2>2, <2>3 DEF IsInjective
  <2>5. at(p) < at(m) => Before(s, x, y)
    BY <2>2 DEF Before
  <2> QED BY <2>2, <2>3, <2>4, <2>5
<1> QED BY <1>2, <1>7, <1>8, <1>9 DEF t, n

LEMMA RememberedNew ==
    ASSUME NEW s \in Seq(Ids), IsInjective(s), Len(s) <= DedupeCapacity, NEW id \in Ids, id \notin ToSet(s)
    PROVE  LET t == remembered(s, id) IN
           /\ t \in Seq(Ids) /\ Len(t) <= DedupeCapacity /\ IsInjective(t)
           /\ id \in ToSet(t)
           /\ \A x, y \in Ids : Before(t, x, y) => x # id /\ (Before(s, x, y) \/ y = id)
           /\ \A x \in ToSet(s) \ ToSet(t) :
                /\ Len(t) = DedupeCapacity
                /\ \A y \in ToSet(t) : y = id \/ Before(s, x, y)
<1> DEFINE n == Len(s)
           t == remembered(s, id)
           l == Append(s, id)
           d == IF n < DedupeCapacity THEN 0 ELSE 1
<1>1. /\ n \in Nat /\ DOMAIN s = 1..n /\ DedupeCapacity \in Nat \ {0} /\ n <= DedupeCapacity
      /\ Len(s) = n
  BY PipelineAssumption
<1>2. l \in Seq(Ids) /\ Len(l) = n + 1 /\ l[n + 1] = id /\ \A j \in 1..n : l[j] = s[j]
  OBVIOUS
<1> HIDE DEF n
<1>3. \A j, k \in 1..n+1 : l[j] = l[k] => j = k
  <2> HIDE DEF l
  <2>1. \A j, k \in 1..n : s[j] = s[k] => j = k
    BY <1>1 DEF IsInjective
  <2>2. \A j \in 1..n : s[j] # id
    BY <1>1 DEF ToSet
  <2>3. \A j \in 1..n+1 : j = n + 1 \/ j \in 1..n
    BY <1>1
  <2> QED BY <1>2, <2>1, <2>2, <2>3
<1>4. /\ t \in Seq(Ids) /\ Len(t) = n + 1 - d /\ \A j \in 1..(n + 1 - d) : t[j] = l[j + d]
  <2> HIDE DEF l
  <2>1. t = IF n + 1 > DedupeCapacity THEN Tail(l) ELSE l
    BY <1>2 DEF remembered, l
  <2>2. CASE n < DedupeCapacity
    <3>1. d = 0 /\ t = l /\ n + 1 - d = n + 1
      BY <1>1, <2>1, <2>2
    <3>2. \A j \in 1..n+1 : j + d = j
      BY <3>1
    <3> HIDE DEF d, t
    <3> QED BY <1>2, <3>1, <3>2
  <2>3. CASE ~(n < DedupeCapacity)
    <3>1. d = 1 /\ t = Tail(l) /\ l # <<>> /\ n + 1 - d = n
      BY <1>1, <1>2, <2>1, <2>3
    <3>2. Tail(l) \in Seq(Ids) /\ Len(Tail(l)) = n /\ \A j \in 1..n : Tail(l)[j] = l[j + 1]
      BY <1>1, <1>2, <3>1
    <3> HIDE DEF d, t
    <3> QED BY <3>1, <3>2
  <2> QED BY <2>2, <2>3
<1>5. d \in {0, 1} /\ (d = 1 => n = DedupeCapacity) /\ (d = 0 => n < DedupeCapacity)
  BY <1>1
<1> HIDE DEF t, l, d
<1>6. \A j \in 1..(n + 1 - d) : j + d \in 1..n+1 /\ (j + d \in 1..n \/ j + d = n + 1)
  BY <1>1, <1>5
<1>7. DOMAIN t = 1..(n + 1 - d) /\ n + 1 - d \in Nat
  BY <1>1, <1>4, <1>5
<1>8. IsInjective(t)
  <2> SUFFICES ASSUME NEW j \in 1..(n + 1 - d), NEW k \in 1..(n + 1 - d), t[j] = t[k] PROVE j = k
    BY <1>7 DEF IsInjective
  <2>1. j + d = k + d
    BY <1>3, <1>4, <1>6
  <2> QED BY <1>5, <2>1
<1>9. id \in ToSet(t)
  <2>1. n + 1 - d \in 1..(n + 1 - d) /\ (n + 1 - d) + d = n + 1
    BY <1>1, <1>5, PipelineAssumption
  <2> QED BY <1>2, <1>4, <1>7, <2>1 DEF ToSet
<1>10. ASSUME NEW x \in Ids, NEW y \in Ids, Before(t, x, y)
       PROVE  x # id /\ (Before(s, x, y) \/ y = id)
  <2>1. PICK p \in 1..(n + 1 - d), m \in 1..(n + 1 - d) : p < m /\ t[p] = x /\ t[m] = y
    BY <1>7, <1>10 DEF Before
  <2>2. l[p + d] = x /\ l[m + d] = y /\ p + d < m + d /\ p + d # n + 1
    <3>1. l[p + d] = x /\ l[m + d] = y
      BY <1>4, <2>1
    <3>2. p \in Int /\ m \in Int /\ p < m /\ m <= n + 1 - d
      BY <1>1, <1>5, <2>1
    <3>3. p + d < m + d /\ p + d # n + 1
      BY <1>1, <1>5, <3>2
    <3> QED BY <3>1, <3>3
  <2>3. p + d \in 1..n /\ (m + d \in 1..n \/ m + d = n + 1)
    BY <1>6, <2>1, <2>2
  <2>4. m + d \in 1..n => Before(s, x, y)
    BY <1>1, <1>2, <2>2, <2>3 DEF Before
  <2>5. m + d = n + 1 => y = id
    BY <1>2, <2>2
  <2>6. x = s[p + d] /\ x \in ToSet(s)
    BY <1>1, <1>2, <2>2, <2>3 DEF ToSet
  <2> QED BY <2>3, <2>4, <2>5, <2>6
<1>11. ASSUME NEW x \in ToSet(s) \ ToSet(t)
       PROVE  Len(t) = DedupeCapacity /\ \A y \in ToSet(t) : y = id \/ Before(s, x, y)
  <2>1. PICK p \in 1..n : s[p] = x
    BY <1>1 DEF ToSet
  <2>2. p - d \notin 1..(n + 1 - d)
    <3> SUFFICES ASSUME p - d \in 1..(n + 1 - d) PROVE FALSE
      OBVIOUS
    <3>1. (p - d) + d = p
      BY <1>1, <1>5
    <3>2. t[p - d] = x
      BY <1>2, <1>4, <2>1, <3>1
    <3> QED BY <1>7, <3>2 DEF ToSet
  <2>3. d = 1 /\ p = 1
    BY <1>1, <1>5, <2>2
  <2>4. Len(t) = DedupeCapacity
    BY <1>1, <1>4, <1>5, <2>3
  <2>5. ASSUME NEW y \in ToSet(t), y # id PROVE Before(s, x, y)
    <3>1. PICK k \in 1..(n + 1 - d) : t[k] = y
      BY <1>7 DEF ToSet
    <3>2. y = l[k + d] /\ k + d \in 1..n /\ 1 < k + d
      BY <1>1, <1>2, <1>4, <1>6, <2>3, <2>5, <3>1
    <3> QED BY <1>1, <1>2, <2>1, <2>3, <3>2 DEF Before
  <2> QED BY <2>4, <2>5
<1> QED
  <2>1. Len(t) <= DedupeCapacity
    BY <1>1, <1>4, <1>5
  <2> QED BY <1>4, <1>8, <1>9, <1>10, <1>11, <2>1 DEF t

LEMMA InjectiveCount ==
    ASSUME NEW s \in Seq(Ids), IsInjective(s)
    PROVE  IsFiniteSet(ToSet(s)) /\ Cardinality(ToSet(s)) = Len(s)
<1>1. Len(s) \in Nat /\ DOMAIN s = 1..Len(s)
  OBVIOUS
<1>2. s \in Bijection(1..Len(s), ToSet(s))
  <2>1. s \in [1..Len(s) -> ToSet(s)]
    BY <1>1 DEF ToSet
  <2>2. s \in Injection(1..Len(s), ToSet(s))
    BY <1>1, <2>1 DEF Injection, IsInjective
  <2>3. s \in Surjection(1..Len(s), ToSet(s))
    BY <1>1, <2>1 DEF Surjection, ToSet
  <2> QED BY <2>2, <2>3 DEF Bijection
<1>3. ExistsBijection(1..Len(s), ToSet(s))
  BY <1>2 DEF ExistsBijection
<1>4. IsFiniteSet(1..Len(s)) /\ Cardinality(1..Len(s)) = Len(s)
  BY <1>1, FS_Interval
<1> QED BY <1>3, <1>4, FS_Bijection

LEMMA AfterFinite ==
    ASSUME NEW a \in Seq(Arrivals), NEW i \in DOMAIN a
    PROVE  IsFiniteSet(After(a, i))
<1> DEFINE K == i+1..Len(a)
           T == {a[k].id : k \in K}
           f == [k \in K |-> a[k].id]
<1>1. i \in Int /\ Len(a) \in Int
  OBVIOUS
<1>2. IsFiniteSet(K)
  BY <1>1, FS_Interval
<1> HIDE DEF K
<1>3. f \in Surjection(K, T)
  BY DEF Surjection
<1>4. IsFiniteSet(T)
  BY <1>2, <1>3, FS_Surjection
<1>5. After(a, i) = T \ {a[i].id}
  BY DEF After, K
<1> HIDE DEF T
<1> QED BY <1>4, <1>5, FS_Difference

\* b is a with the arrival e at its end, a being n long.
OneMore(a, b, e, n) ==
    /\ b \in Seq(Arrivals) /\ Len(b) = n + 1 /\ b[n + 1] = e
    /\ \A i \in 1..n :
         /\ b[i] = a[i] /\ After(a, i) \subseteq After(b, i)
         /\ e.id # a[i].id => e.id \in After(b, i)
         /\ \A j \in 1..n : {b[k].id : k \in i+1..j-1} = {a[k].id : k \in i+1..j-1}
         /\ {b[k].id : k \in i+1..(n+1)-1} \ {b[i].id} = After(a, i)

LEMMA AfterAppend ==
    ASSUME NEW a \in Seq(Arrivals), NEW e \in Arrivals
    PROVE  OneMore(a, Append(a, e), e, Len(a))
<1> DEFINE n == Len(a)
           b == Append(a, e)
<1>1. n \in Nat /\ Len(a) = n
  OBVIOUS
<1>2. b \in Seq(Arrivals) /\ Len(b) = n + 1 /\ b[n + 1] = e /\ \A k \in 1..n : b[k] = a[k]
  OBVIOUS
<1> HIDE DEF n, b
<1>3. ASSUME NEW i \in 1..n
      PROVE  /\ b[i] = a[i] /\ After(a, i) \subseteq After(b, i)
             /\ e.id # a[i].id => e.id \in After(b, i)
             /\ \A j \in 1..n : {b[k].id : k \in i+1..j-1} = {a[k].id : k \in i+1..j-1}
             /\ {b[k].id : k \in i+1..(n+1)-1} \ {b[i].id} = After(a, i)
  <2>1. b[i] = a[i]
    BY <1>2
  <2>2. /\ \A k \in i+1..n : k \in i+1..n+1 /\ b[k] = a[k]
        /\ n + 1 \in i+1..n+1
    BY <1>1, <1>2
  <2>3. After(a, i) \subseteq After(b, i)
    BY <1>1, <1>2, <2>1, <2>2 DEF After
  <2>4. e.id # a[i].id => e.id \in After(b, i)
    BY <1>2, <2>1, <2>2 DEF After
  <2>5. ASSUME NEW j \in 1..n PROVE {b[k].id : k \in i+1..j-1} = {a[k].id : k \in i+1..j-1}
    <3>1. \A k \in i+1..j-1 : b[k] = a[k]
      BY <1>1, <1>2
    <3> QED BY <3>1
  <2>6. {b[k].id : k \in i+1..(n+1)-1} \ {b[i].id} = After(a, i)
    <3>1. (n + 1) - 1 = n
      BY <1>1
    <3>2. {b[k].id : k \in i+1..n} = {a[k].id : k \in i+1..n}
      BY <2>2
    <3> QED BY <1>1, <2>1, <3>1, <3>2 DEF After
  <2> QED BY <2>1, <2>3, <2>4, <2>5, <2>6
<1>4. OneMore(a, b, e, n)
  BY <1>2, <1>3 DEF OneMore
<1> QED BY <1>4 DEF b, n

\* A message arrives: it is remembered now, and one that is forgotten for it has seen
\* DedupeCapacity others.
LEMMA Arrives ==
    ASSUME DedupeInv, NEW id \in Ids, NEW passed \in BOOLEAN,
           arrived' = Append(arrived, [id |-> id, passed |-> passed]),
           seen' \in Seq(Ids), Len(seen') <= DedupeCapacity, IsInjective(seen'), id \in ToSet(seen'),
           \A x, y \in Ids : Before(seen', x, y) => x # id /\ (Before(seen, x, y) \/ y = id),
           passed => id \notin ToSet(seen),
           \A x \in ToSet(seen) \ ToSet(seen') :
                /\ Len(seen') = DedupeCapacity
                /\ \A y \in ToSet(seen') : y = id \/ Before(seen, x, y)
    PROVE  DedupeInv'
<1> DEFINE e == [id |-> id, passed |-> passed]
           n == Len(arrived)
<1>1. e \in Arrivals /\ e.id = id /\ e.passed = passed /\ arrived \in Seq(Arrivals) /\ n \in Nat
  BY DEF Arrivals, DedupeInv
<1>2. /\ arrived' \in Seq(Arrivals) /\ Len(arrived') = n + 1 /\ arrived'[n + 1] = e
      /\ \A i \in 1..n :
           /\ arrived'[i] = arrived[i] /\ After(arrived, i) \subseteq After(arrived', i)
           /\ id # arrived[i].id => id \in After(arrived', i)
           /\ \A j \in 1..n : {arrived'[k].id : k \in i+1..j-1} = {arrived[k].id : k \in i+1..j-1}
           /\ {arrived'[k].id : k \in i+1..(n+1)-1} \ {arrived'[i].id} = After(arrived, i)
  <2>1. arrived' = Append(arrived, e)
    OBVIOUS
  <2> HIDE DEF e
  <2>2. OneMore(arrived, arrived', e, n)
    BY <1>1, <2>1, AfterAppend
  <2> HIDE DEF n
  <2> QED BY <1>1, <2>2, Zenon DEF OneMore
<1> HIDE DEF e, n
<1>3. /\ DOMAIN arrived = 1..n /\ DOMAIN arrived' = 1..n+1 /\ DedupeCapacity \in Nat
      /\ \A i \in 1..n+1 : i \in 1..n \/ i = n + 1
  <2>1. DOMAIN arrived' = 1..n+1
    BY <1>2
  <2>2. DOMAIN arrived = 1..n
    BY <1>1 DEF n
  <2> QED BY <1>1, <2>1, <2>2, PipelineAssumption
<1>4. \A i \in 1..n : arrived[i].id \in Ids /\ arrived[i] \in Arrivals
  <2>1. \A x \in Arrivals : x.id \in Ids
    BY DEF Arrivals
  <2>2. \A i \in 1..n : arrived[i] \in Arrivals
    BY <1>1, <1>3
  <2> QED BY <2>1, <2>2
<1>5. ASSUME NEW i \in 1..n, arrived[i].id \notin ToSet(seen')
      PROVE  Cardinality(After(arrived', i)) >= DedupeCapacity
  <2> DEFINE A == After(arrived, i)
             B == After(arrived', i)
  <2>1. IsFiniteSet(B) /\ Cardinality(B) \in Nat /\ A \subseteq B
    <3>1. i \in DOMAIN arrived'
      BY <1>1, <1>3
    <3>2. IsFiniteSet(B)
      BY <1>2, <3>1, AfterFinite
    <3>3. A \subseteq B
      BY <1>2
    <3> HIDE DEF A, B
    <3> QED BY <3>2, <3>3, FS_CardinalityType
  <2>2. CASE arrived[i].id \in ToSet(seen)
    <3>1. /\ Len(seen') = DedupeCapacity
          /\ \A y \in ToSet(seen') : y = id \/ Before(seen, arrived[i].id, y)
      BY <1>5, <2>2
    <3>2. \A y \in ToSet(seen') : y \in Ids
      BY DEF ToSet
    <3>3. \A y \in ToSet(seen') : y = id \/ y \in A
      BY <1>3, <3>1, <3>2 DEF DedupeInv
    <3>4. ToSet(seen') \subseteq B
      BY <1>2, <1>5, <2>1, <3>3
    <3>5. IsFiniteSet(ToSet(seen')) /\ Cardinality(ToSet(seen')) = DedupeCapacity
      BY <3>1, InjectiveCount
    <3>6. Cardinality(ToSet(seen')) <= Cardinality(B)
      BY <2>1, <3>4, FS_Subset
    <3> DEFINE c == Cardinality(B)
    <3>7. DedupeCapacity <= c /\ c \in Nat /\ DedupeCapacity \in Nat
      BY <2>1, <3>5, <3>6, PipelineAssumption
    <3> HIDE DEF c
    <3>8. c >= DedupeCapacity
      BY <3>7
    <3> QED BY <3>8 DEF c
  <2>3. CASE arrived[i].id \notin ToSet(seen)
    <3>1. Cardinality(A) >= DedupeCapacity
      BY <1>3, <2>3 DEF DedupeInv
    <3>2. Cardinality(A) <= Cardinality(B) /\ IsFiniteSet(A)
      BY <2>1, FS_Subset
    <3>3. Cardinality(A) \in Nat
      BY <3>2, FS_CardinalityType
    <3> DEFINE c == Cardinality(B)
               a == Cardinality(A)
    <3>4. a <= c /\ a >= DedupeCapacity /\ a \in Nat /\ c \in Nat /\ DedupeCapacity \in Nat
      BY <2>1, <3>1, <3>2, <3>3, PipelineAssumption
    <3> HIDE DEF a, c
    <3>5. c >= DedupeCapacity
      BY <3>4
    <3> QED BY <3>5 DEF c
  <2> QED BY <2>2, <2>3
<1>6. ASSUME NEW i \in 1..n+1
      PROVE  /\ arrived'[i].id \in ToSet(seen') \/ Cardinality(After(arrived', i)) >= DedupeCapacity
             /\ \A y \in Ids : Before(seen', arrived'[i].id, y) => y \in After(arrived', i)
  <2>1. CASE i \in 1..n
    <3>1. arrived'[i].id \in ToSet(seen') \/ Cardinality(After(arrived', i)) >= DedupeCapacity
      BY <1>2, <1>5, <2>1
    <3>2. ASSUME NEW y \in Ids, Before(seen', arrived'[i].id, y) PROVE y \in After(arrived', i)
      <4>1. arrived[i].id # id /\ (Before(seen, arrived[i].id, y) \/ y = id)
        BY <1>2, <1>4, <2>1, <3>2
      <4>2. Before(seen, arrived[i].id, y) => y \in After(arrived, i)
        BY <1>3, <2>1 DEF DedupeInv
      <4> QED BY <1>2, <2>1, <4>1, <4>2
    <3> QED BY <3>1, <3>2
  <2>2. CASE i = n + 1
    <3>1. arrived'[i].id = id
      BY <1>1, <1>2, <2>2
    <3>2. \A y \in Ids : ~Before(seen', id, y)
      OBVIOUS
    <3> QED BY <3>1, <3>2
  <2> QED BY <1>3, <2>1, <2>2
<1>7. ASSUME NEW i \in 1..n+1, NEW j \in 1..n+1, i < j, arrived'[i].id = arrived'[j].id, arrived'[j].passed
      PROVE  Cardinality({arrived'[k].id : k \in i+1..j-1} \ {arrived'[i].id}) >= DedupeCapacity
  <2>1. i \in 1..n
    BY <1>1, <1>7
  <2>2. CASE j \in 1..n
    <3>1. {arrived'[k].id : k \in i+1..j-1} = {arrived[k].id : k \in i+1..j-1} /\ arrived'[i] = arrived[i]
      BY <1>2, <2>1, <2>2
    <3>2. arrived'[j] = arrived[j]
      BY <1>2, <2>2
    <3>3. Cardinality({arrived[k].id : k \in i+1..j-1} \ {arrived[i].id}) >= DedupeCapacity
      BY <1>3, <1>7, <2>1, <2>2, <3>1, <3>2 DEF DedupeInv, DedupeHolds
    <3> QED BY <3>1, <3>3
  <2>3. CASE j = n + 1
    <3>1. arrived[i].id = id /\ passed
      BY <1>1, <1>2, <1>7, <2>1, <2>3
    <3>2. Cardinality(After(arrived, i)) >= DedupeCapacity
      BY <1>3, <2>1, <3>1 DEF DedupeInv
    <3>3. {arrived'[k].id : k \in i+1..j-1} \ {arrived'[i].id} = After(arrived, i)
      BY <1>2, <2>1, <2>3
    <3> QED BY <3>2, <3>3
  <2> QED BY <1>3, <2>2, <2>3
<1>8. DedupeHolds'
  BY <1>3, <1>7 DEF DedupeHolds
<1> QED BY <1>2, <1>3, <1>6, <1>8 DEF DedupeInv

LEMMA DedupeStart == Init => DedupeInv
<1> SUFFICES ASSUME Init PROVE DedupeInv
  OBVIOUS
<1>1. seen = <<>> /\ arrived = <<>> /\ Len(seen) = 0 /\ DOMAIN arrived = {} /\ DOMAIN seen = {}
  BY DEF Init
<1>2. seen \in Seq(Ids) /\ arrived \in Seq(Arrivals) /\ IsInjective(seen) /\ Len(seen) <= DedupeCapacity
  BY <1>1, PipelineAssumption DEF IsInjective
<1>3. DedupeHolds
  BY <1>1 DEF DedupeHolds
<1> QED BY <1>1, <1>2, <1>3 DEF DedupeInv

LEMMA DedupeStep == DedupeInv /\ [Next]_vars => DedupeInv'
<1> SUFFICES ASSUME DedupeInv, [Next]_vars PROVE DedupeInv'
  OBVIOUS
<1>1. CASE UNCHANGED <<seen, arrived>>
  BY <1>1 DEF DedupeInv, DedupeHolds
<1>2. /\ seen \in Seq(Ids) /\ IsInjective(seen) /\ Len(seen) <= DedupeCapacity
      /\ DOMAIN seen = 1..Len(seen)
  BY DEF DedupeInv
<1>3. ASSUME NEW r \in Readers, NEW id \in Ids, RouteDuplicate(r, id) PROVE DedupeInv'
  <2>1. PICK i \in DOMAIN seen : seen[i] = id /\ seen' = moved_to_end(seen, i)
    BY <1>3 DEF RouteDuplicate
  <2>2. arrived' = Append(arrived, [id |-> id, passed |-> FALSE])
    BY <1>3 DEF RouteDuplicate
  <2>3. /\ seen' \in Seq(Ids) /\ Len(seen') = Len(seen) /\ IsInjective(seen') /\ ToSet(seen') = ToSet(seen)
        /\ \A x, y \in Ids : Before(seen', x, y) => x # id /\ (Before(seen, x, y) \/ y = id)
    BY <1>2, <2>1, MovedToEnd
  <2>4. id \in ToSet(seen)
    BY <2>1 DEF ToSet
  <2> QED BY <1>2, <2>2, <2>3, <2>4, Arrives
<1>4. ASSUME NEW r \in Readers, NEW id \in Ids, RouteMessage(r, id) PROVE DedupeInv'
  <2>1. /\ arrived' = Append(arrived, [id |-> id, passed |-> TRUE]) /\ seen' = remembered(seen, id)
        /\ ~Contains(seen, id)
    BY <1>4 DEF RouteMessage
  <2>2. id \notin ToSet(seen)
    BY <1>2, <2>1 DEF Contains, ToSet
  <2>3. /\ seen' \in Seq(Ids) /\ Len(seen') <= DedupeCapacity /\ IsInjective(seen') /\ id \in ToSet(seen')
        /\ \A x, y \in Ids : Before(seen', x, y) => x # id /\ (Before(seen, x, y) \/ y = id)
        /\ \A x \in ToSet(seen) \ ToSet(seen') :
                /\ Len(seen') = DedupeCapacity
                /\ \A y \in ToSet(seen') : y = id \/ Before(seen, x, y)
    BY <1>2, <2>1, <2>2, RememberedNew
  <2> QED BY <2>1, <2>2, <2>3, Arrives
<1>5. CASE RouteChain \/ PostReturns \/ HookPush \/ \E s \in Sessions : PreLlmCall(s) \/ TurnContext(s)
  BY <1>1, <1>5 DEF RouteChain, PostReturns, HookPush, PreLlmCall, TurnContext
<1>6. CASE UNCHANGED vars \/ \E r \in Readers : RouteMalformed(r)
  BY <1>1, <1>6 DEF vars, RouteMalformed
<1> QED BY <1>3, <1>4, <1>5, <1>6 DEF Next

\* EventRouter: a message that comes on both paths, in any order and however often, is
\* handled again only after DedupeCapacity other messages have come since it was last seen.
THEOREM DuplicatesAreDropped == Spec => []DedupeHolds
<1>1. DedupeInv => DedupeHolds
  BY DEF DedupeInv
<1> QED BY <1>1, DedupeStart, DedupeStep, PTL DEF Spec

-----------------------------------------------------------------------------
(* The supervisor of a stream.                                             *)

\* Only the newest object can have a live task; later ones do not exist yet.
NewestOnly ==
    /\ \A g \in States : g > cur <=> state[g].task = "none"
    /\ \A g \in States : g < cur => state[g].task = "done"

\* A call in its grace period waits for the child of the object it stops, or that
\* object has spawned another since.
GraceInv ==
    \A s \in Stoppers : stops[s].pc = "grace" =>
        /\ stops[s].of \in States
        /\ state[stops[s].of].stop_requested
        /\ state[stops[s].of].task # "none"
        /\ state[stops[s].of].proc \in late \cup {stops[s].proc}

\* Where wait_for does not suspend for nothing, an object that a stop has marked can
\* spawn no child.
MarkedInv ==
    ~yields => \A g \in States :
        state[g].stop_requested => state[g].task \in {"running", "draining", "done"}

StreamInv == SupervisorTypeOK /\ NewestOnly /\ NoOrphan /\ GraceInv /\ MarkedInv

-----------------------------------------------------------------------------
\* At most one task is live, so at most one child is.
LEMMA InvOneStream ==
  ASSUME StreamInv
  PROVE  OneStream
<1>1. \A c \in alive \ late : \E g \in States : state[g].proc = c /\ g = cur
  BY SupervisorAssumption DEF StreamInv, SupervisorTypeOK, NewestOnly, NoOrphan, NoState, States
<1>2. CASE alive \ late = {}
  BY <1>2, FS_EmptySet DEF OneStream
<1>3. CASE alive \ late # {}
  <2>1. PICK c \in alive \ late : TRUE
    BY <1>3
  <2>2. alive \ late = {c}
    BY <1>1, <2>1
  <2>3. Cardinality(alive \ late) = 1
    BY <2>2, FS_Singleton
  <2> QED BY <2>3 DEF OneStream
<1> QED
  BY <1>2, <1>3

LEMMA StreamInitInv ==
  ASSUME SupervisorInit
  PROVE  StreamInv
<1> USE SupervisorAssumption DEF SupervisorInit
<1>1. NoState \in State /\ NoStop \in Stop /\ NoRow \in Row
  BY DEF NoState, NoStop, NoRow, State, Stop, Row, Pids, States
<1>2. SupervisorTypeOK
  BY <1>1 DEF SupervisorTypeOK
<1>3. NewestOnly /\ NoOrphan /\ GraceInv /\ MarkedInv
  BY DEF NewestOnly, NoOrphan, GraceInv, MarkedInv, NoState, NoStop, States
<1> QED
  BY <1>2, <1>3 DEF StreamInv

\* The file's row is always a row.
LEMMA RowType ==
  ASSUME NEW n \in States \cup {0}, NEW st \in [States -> State]
  PROVE  row(n, st) \in Row
<1>1. CASE n = 0 \/ (n # 0 /\ st[n].stop_requested)
  BY <1>1 DEF row, Row, NoRow, Pids
<1>2. CASE n # 0 /\ ~st[n].stop_requested
  BY <1>2 DEF row, Row, State
<1> QED
  BY <1>1, <1>2

\* No step leaves a child without its task, or a stop without its child.
LEMMA StreamStep ==
  ASSUME StreamInv, [SupervisorNext]_supervisor
  PROVE  StreamInv'
<1> USE SupervisorAssumption
<1>a. cur \in Nat /\ States \subseteq Nat
  BY DEF StreamInv, SupervisorTypeOK, States
<1>b. NoState \in State /\ NoStop \in Stop /\ NoRow \in Row
  BY DEF NoState, NoStop, NoRow, State, Stop, Row, Pids, States
<1>c. SupervisorTypeOK /\ NewestOnly /\ NoOrphan /\ GraceInv /\ MarkedInv
  BY DEF StreamInv
<1>1. CASE Start
  <2> DEFINE r == [NoState EXCEPT !.task = "top"]
  <2>1. r \in State /\ r.task = "top" /\ ~r.stop_requested
    BY <1>b DEF State, NoState
  <2>2. cur + 1 \in States
    BY <1>1, <1>a DEF Start, States
  <2> HIDE DEF r
  <2>3. /\ state' = [state EXCEPT ![cur + 1] = r] /\ cur' = cur + 1
        /\ cur # 0 => state[cur].task = "done"
        /\ UNCHANGED <<mode, boots, yields, spawned, late, alive, stops, file>>
    BY <1>1 DEF Start, set, r
  <2>4. SupervisorTypeOK'
    BY <2>1, <2>2, <2>3, <1>c DEF SupervisorTypeOK
  <2>5. \A g \in States : state'[g] = IF g = cur + 1 THEN r ELSE state[g]
    BY <2>2, <2>3, <1>c DEF SupervisorTypeOK
  <2>6. state[cur + 1].task = "none"
    BY <2>2, <1>a, <1>c DEF NewestOnly
  <2>7. NewestOnly'
    <3>1. ASSUME NEW g \in States PROVE g > cur' <=> state'[g].task = "none"
      BY <3>1, <2>1, <2>3, <2>5, <1>a, <1>c DEF NewestOnly
    <3>2. ASSUME NEW g \in States, g < cur' PROVE state'[g].task = "done"
      <4>1. g <= cur /\ g # cur + 1 /\ state'[g] = state[g]
        BY <3>2, <2>3, <2>5, <1>a
      <4>2. CASE g = cur
        BY <4>1, <4>2, <2>3, <3>2, SupervisorAssumption DEF States
      <4>3. CASE g < cur
        BY <4>1, <4>3, <1>c DEF NewestOnly
      <4> QED
        BY <4>1, <4>2, <4>3, <1>a
    <3> QED
      BY <3>1, <3>2 DEF NewestOnly
  <2>8. NoOrphan'
    BY <2>3, <2>5, <2>6, <1>c DEF NoOrphan
  <2>9. GraceInv' /\ MarkedInv'
    BY <2>1, <2>3, <2>5, <2>6, <1>c DEF GraceInv, MarkedInv
  <2> QED
    BY <2>4, <2>7, <2>8, <2>9 DEF StreamInv
<1>2. CASE EventWrites
  <2>1. file' \in Row /\ UNCHANGED <<mode, boots, yields, cur, state, spawned, late, alive, stops>>
    BY <1>2, <1>c, RowType DEF EventWrites, write_status, SupervisorTypeOK
  <2> QED
    BY <1>c, <2>1 DEF StreamInv, SupervisorTypeOK, NewestOnly, NoOrphan, GraceInv, MarkedInv
<1>3. CASE Teardown \/ Killed
  <2>1. /\ cur' = 0 /\ spawned' = 0 /\ alive' = {} /\ boots' = boots
        /\ late' = {} /\ yields' = yields
        /\ state' = [g \in States |-> NoState] /\ stops' = [s \in Stoppers |-> NoStop]
        /\ mode' \in {"exited", "killed"} /\ file' \in Row
    BY <1>3, <1>b, <1>c DEF Teardown, Killed, forget, SupervisorTypeOK
  <2>2. SupervisorTypeOK'
    BY <2>1, <1>b, <1>c DEF SupervisorTypeOK
  <2>3. NewestOnly' /\ NoOrphan' /\ GraceInv' /\ MarkedInv'
    BY <2>1, <1>a DEF NewestOnly, NoOrphan, GraceInv, MarkedInv, NoState, NoStop, States
  <2> QED
    BY <2>2, <2>3 DEF StreamInv
<1>4. CASE Boot
  <2>1. file' \in Row
    BY <1>4, <1>b, <1>c DEF Boot, SupervisorTypeOK, Row
  <2>2. UNCHANGED <<yields, cur, state, spawned, late, alive, stops>>
    BY <1>4 DEF Boot
  <2>3. SupervisorTypeOK'
    BY <1>4, <1>c, <2>1, <2>2 DEF Boot, SupervisorTypeOK
  <2> QED
    BY <1>c, <2>2, <2>3 DEF StreamInv, NewestOnly, NoOrphan, GraceInv, MarkedInv
\* A step of one object's task: it stays a live or ended task of the newest object.
<1>5. ASSUME NEW g \in States, NEW r \in State,
             state' = [state EXCEPT ![g] = r], cur' = cur, stops' = stops, yields' = yields,
             state[g].task \notin {"none", "done"}, late \subseteq late',
             r.task # "none", r.stop_requested = state[g].stop_requested,
             r.proc = state[g].proc \/ ~state[g].stop_requested \/ r.proc \in late',
             state[g].stop_requested /\ state[g].task \in {"running", "draining"}
                 => r.task \in {"draining", "done"}
      PROVE  NewestOnly' /\ GraceInv' /\ MarkedInv'
  <2>1. \A h \in States : state'[h] = IF h = g THEN r ELSE state[h]
    BY <1>5, <1>c DEF SupervisorTypeOK
  <2>2. NewestOnly'
    BY <1>5, <2>1, <1>a, <1>c DEF NewestOnly
  <2>3. GraceInv'
    BY <1>5, <2>1, <1>c DEF GraceInv
  <2>4. MarkedInv'
    BY <1>5, <2>1, <1>c DEF MarkedInv
  <2> QED
    BY <2>2, <2>3, <2>4
<1>6. ASSUME NEW g \in States, Task(g) PROVE StreamInv'
  <2> DEFINE old == state[g]
  <2>a. old \in State
    BY <1>c DEF SupervisorTypeOK
  <2>1. CASE TaskTop(g)
    <3> DEFINE r == [old EXCEPT !.task = IF old.stop_requested THEN "done" ELSE "spawning"]
    <3>1. /\ r \in State /\ r.task \in {"done", "spawning"}
          /\ r.stop_requested = old.stop_requested /\ r.proc = old.proc
      BY <2>a DEF State
    <3>2. /\ state' = [state EXCEPT ![g] = r] /\ old.task = "top"
          /\ UNCHANGED <<mode, boots, yields, cur, spawned, late, alive, stops, file>>
      BY <2>1 DEF TaskTop, set
    <3> HIDE DEF r
    <3>3. NewestOnly' /\ GraceInv' /\ MarkedInv'
      BY <3>1, <3>2, <1>5
    <3>4. SupervisorTypeOK'
      BY <3>1, <3>2, <1>c DEF SupervisorTypeOK
    <3>5. NoOrphan'
      BY <3>1, <3>2, <1>c DEF NoOrphan, SupervisorTypeOK
    <3> QED
      BY <3>3, <3>4, <3>5 DEF StreamInv
  <2>2. CASE SpawnOk(g)
    <3> DEFINE r == [old EXCEPT !.task = "running", !.proc = spawned + 1, !.restarting = FALSE]
    <3>0. spawned + 1 \in Pids
      BY <2>2, <1>c DEF SpawnOk, SupervisorTypeOK, Pids
    <3>1. /\ r \in State /\ r.task = "running" /\ r.proc = spawned + 1
          /\ r.stop_requested = old.stop_requested
      BY <2>a, <3>0 DEF State
    <3>2. /\ state' = [state EXCEPT ![g] = r] /\ old.task = "spawning"
          /\ spawned' = spawned + 1 /\ spawned < MaxSpawns /\ alive' = alive \cup {spawned + 1}
          /\ late' = IF old.stop_requested THEN late \cup {spawned + 1} ELSE late
          /\ UNCHANGED <<mode, boots, yields, cur, stops>> /\ file' = row(cur, state')
      BY <2>2 DEF SpawnOk, set, write_status
    <3> HIDE DEF r
    <3>3. NewestOnly' /\ GraceInv' /\ MarkedInv'
      BY <3>1, <3>2, <1>5
    <3>4. SupervisorTypeOK'
      <4>1. state' \in [States -> State]
        BY <3>1, <3>2, <1>c DEF SupervisorTypeOK
      <4>2. file' \in Row
        BY <3>2, <4>1, <1>c, RowType DEF SupervisorTypeOK
      <4> QED
        BY <3>2, <4>1, <4>2, <1>c DEF SupervisorTypeOK
    <3>5. NoOrphan'
      <4>1. \A h \in States : state'[h] = IF h = g THEN r ELSE state[h]
        BY <3>2, <1>c DEF SupervisorTypeOK
      <4> QED
        BY <3>1, <3>2, <4>1, <1>c DEF NoOrphan, MarkedInv
    <3> QED
      BY <3>3, <3>4, <3>5 DEF StreamInv
  <2>3. CASE SpawnFails(g) \/ Drained(g)
    <3>1. PICK r \in State :
            /\ r.task \in {"done", "sleeping"} /\ r.stop_requested = old.stop_requested
            /\ r.proc = old.proc /\ (old.stop_requested => r.task = "done")
            /\ state' = [state EXCEPT ![g] = r]
      <4>1. CASE old.stop_requested
        <5> DEFINE r == [old EXCEPT !.task = "done"]
        <5>1. r \in State /\ r.task = "done" /\ r.stop_requested = old.stop_requested /\ r.proc = old.proc
          BY <2>a DEF State
        <5>2. state' = [state EXCEPT ![g] = r]
          BY <2>3, <4>1 DEF SpawnFails, Drained, after_run, set
        <5> QED
          BY <5>1, <5>2
      <4>2. CASE ~old.stop_requested
        <5> DEFINE r == [old EXCEPT !.task = "sleeping", !.restarting = TRUE]
        <5>1. r \in State /\ r.task = "sleeping" /\ r.stop_requested = old.stop_requested
                /\ r.proc = old.proc
          BY <2>a DEF State
        <5>2. state' = [state EXCEPT ![g] = r]
          BY <2>3, <4>2 DEF SpawnFails, Drained, after_run, set
        <5> QED
          BY <4>2, <5>1, <5>2
      <4> QED
        BY <4>1, <4>2
    <3>2. /\ old.task \in {"spawning", "draining"}
          /\ UNCHANGED <<mode, boots, yields, cur, spawned, late, alive, stops>>
          /\ file' = file \/ file' = row(cur, state')
      BY <2>3 DEF SpawnFails, Drained, after_run, write_status
    <3>3. NewestOnly' /\ GraceInv' /\ MarkedInv'
      BY <3>1, <3>2, <1>5
    <3>4. SupervisorTypeOK'
      <4>1. state' \in [States -> State]
        BY <3>1, <1>c DEF SupervisorTypeOK
      <4>2. file' \in Row
        BY <3>2, <4>1, <1>c, RowType DEF SupervisorTypeOK
      <4> QED
        BY <3>2, <4>1, <4>2, <1>c DEF SupervisorTypeOK
    <3>5. NoOrphan'
      BY <3>1, <3>2, <1>c DEF NoOrphan, SupervisorTypeOK
    <3> QED
      BY <3>3, <3>4, <3>5 DEF StreamInv
  <2>4. CASE RunEnds(g) \/ Wake(g)
    <3>1. PICK r \in State :
            /\ r.task \in {"draining", "top"} /\ r.stop_requested = old.stop_requested
            /\ r.proc = old.proc /\ (old.task = "running" => r.task = "draining")
            /\ state' = [state EXCEPT ![g] = r]
      <4> DEFINE r(t) == [old EXCEPT !.task = t]
      <4>1. \A t \in {"draining", "top"} :
              r(t) \in State /\ r(t).task = t /\ r(t).stop_requested = old.stop_requested
                /\ r(t).proc = old.proc
        BY <2>a DEF State
      <4>2. \/ old.task = "running" /\ state' = [state EXCEPT ![g] = r("draining")]
            \/ old.task = "sleeping" /\ state' = [state EXCEPT ![g] = r("top")]
        BY <2>4 DEF RunEnds, Wake, set
      <4> HIDE DEF r
      <4> QED
        BY <4>1, <4>2
    <3>2. /\ old.task \in {"running", "sleeping"} /\ (old.task = "running" => old.proc \notin alive)
          /\ UNCHANGED <<mode, boots, yields, cur, spawned, late, alive, stops, file>>
      BY <2>4 DEF RunEnds, Wake
    <3>3. NewestOnly' /\ GraceInv' /\ MarkedInv'
      BY <3>1, <3>2, <1>5
    <3>4. SupervisorTypeOK'
      BY <3>1, <3>2, <1>c DEF SupervisorTypeOK
    <3>5. NoOrphan'
      BY <3>1, <3>2, <1>c DEF NoOrphan, SupervisorTypeOK
    <3> QED
      BY <3>3, <3>4, <3>5 DEF StreamInv
  <2> QED
    BY <1>6, <2>1, <2>2, <2>3, <2>4 DEF Task
<1>7. ASSUME NEW c \in Pids, ChildExits(c) PROVE StreamInv'
  BY <1>7, <1>c DEF ChildExits, StreamInv, SupervisorTypeOK, NewestOnly, NoOrphan, GraceInv, MarkedInv
\* A stop marks or ends the task of an existing object whose child, when the task is
\* ended, does not run.
<1>8. ASSUME NEW g \in States, NEW r \in State, NEW reaped,
             state' = [state EXCEPT ![g] = r], alive' = alive \ reaped,
             UNCHANGED <<mode, boots, yields, cur, spawned, late, file>>,
             state[g].task # "none", r.stop_requested, r.proc = state[g].proc,
             r.task = state[g].task \/ (r.task = "done" /\ (state[g].task = "running" => r.proc \notin alive' \ late))
      PROVE  /\ NewestOnly' /\ NoOrphan' /\ state' \in [States -> State]
             /\ alive' \in SUBSET (1..spawned')
             /\ (~yields => r.task \in {"running", "draining", "done"}) => MarkedInv'
             /\ \A h \in States : state'[h] = IF h = g THEN r ELSE state[h]
  <2>1. \A h \in States : state'[h] = IF h = g THEN r ELSE state[h]
    BY <1>8, <1>c DEF SupervisorTypeOK
  <2>2. NewestOnly'
    BY <1>8, <2>1, <1>a, <1>c DEF NewestOnly
  <2>3. NoOrphan'
    BY <1>8, <2>1, <1>c DEF NoOrphan
  <2>4. state' \in [States -> State] /\ alive' \in SUBSET (1..spawned')
    BY <1>8, <1>c DEF SupervisorTypeOK
  <2>5. ASSUME ~yields => r.task \in {"running", "draining", "done"} PROVE MarkedInv'
    BY <1>8, <2>1, <2>5, <1>c DEF MarkedInv
  <2> QED
    BY <2>1, <2>2, <2>3, <2>4, <2>5
<1>d. ASSUME NEW g \in States
      PROVE  /\ cancelled(state[g]) \in State /\ cancelled(state[g]).task = "done"
             /\ cancelled(state[g]).stop_requested /\ cancelled(state[g]).proc = state[g].proc
  <2>1. state[g] \in State
    BY <1>c DEF SupervisorTypeOK
  <2> QED
    BY <2>1 DEF cancelled, State
<1>9. ASSUME NEW s \in Stoppers, StopBegin(s) PROVE StreamInv'
  <2> DEFINE old == state[cur]
             waits == old.proc # 0 /\ (old.proc \in alive \/ yields)
             marked == [old EXCEPT !.stop_requested = TRUE]
             call == [pc |-> IF waits THEN "grace" ELSE "joining", of |-> cur, proc |-> old.proc]
  <2>1. cur \in States /\ old \in State /\ old.task # "none"
    BY <1>9, <1>a, <1>c DEF StopBegin, SupervisorTypeOK, NewestOnly
  <2>2. marked \in State /\ marked.stop_requested /\ marked.proc = old.proc /\ marked.task = old.task
    BY <2>1 DEF State
  <2>3. call \in Stop /\ call.of = cur /\ call.proc = old.proc /\ (call.pc = "grace" <=> waits)
    BY <2>1 DEF Stop, State
  <2>4. /\ state' = [state EXCEPT ![cur] = IF waits THEN marked ELSE cancelled(old)]
        /\ stops' = [stops EXCEPT ![s] = call] /\ alive' = alive \ {}
        /\ UNCHANGED <<mode, boots, yields, cur, spawned, late, file>>
    BY <1>9 DEF StopBegin, set
  <2>5. \A c \in alive \ late : c = old.proc /\ old.task = "running"
    BY <2>1, <1>a, <1>c DEF NoOrphan, NewestOnly
  <2>6. ~waits => old.proc \notin alive
    BY <1>c DEF SupervisorTypeOK
  <2>7. waits /\ ~yields => old.task = "running"
    BY <2>5, <1>c DEF NoOrphan
  <2>8. \A t \in Stoppers : stops'[t] = IF t = s THEN call ELSE stops[t]
    BY <2>4, <1>c DEF SupervisorTypeOK
  <2>9. stops' \in [Stoppers -> Stop]
    BY <2>3, <2>4, <1>c DEF SupervisorTypeOK
  <2> HIDE DEF waits, marked, call
  <2>10. CASE waits
    <3>1. /\ NewestOnly' /\ NoOrphan' /\ state' \in [States -> State] /\ MarkedInv'
          /\ alive' \in SUBSET (1..spawned')
          /\ \A h \in States : state'[h] = IF h = cur THEN marked ELSE state[h]
      BY <1>8, <2>1, <2>2, <2>4, <2>7, <2>10
    <3>2. SupervisorTypeOK'
      BY <3>1, <2>4, <2>9, <1>c DEF SupervisorTypeOK
    <3>3. GraceInv'
      BY <3>1, <2>1, <2>2, <2>3, <2>4, <2>7, <2>8, <2>10, <1>c DEF GraceInv
    <3> QED
      BY <3>1, <3>2, <3>3 DEF StreamInv
  <2>11. CASE ~waits
    <3>1. /\ NewestOnly' /\ NoOrphan' /\ state' \in [States -> State] /\ MarkedInv'
          /\ alive' \in SUBSET (1..spawned')
          /\ \A h \in States : state'[h] = IF h = cur THEN cancelled(old) ELSE state[h]
      BY <1>8, <1>d, <2>1, <2>4, <2>6, <2>11
    <3>2. SupervisorTypeOK'
      BY <3>1, <2>4, <2>9, <1>c DEF SupervisorTypeOK
    <3>3. GraceInv'
      BY <3>1, <1>d, <2>1, <2>3, <2>4, <2>8, <2>11, <1>c DEF GraceInv
    <3> QED
      BY <3>1, <3>2, <3>3 DEF StreamInv
  <2> QED
    BY <2>10, <2>11
<1>10. ASSUME NEW s \in Stoppers, StopWaited(s) \/ StopKills(s) PROVE StreamInv'
  <2> DEFINE g == stops[s].of
             call == [stops[s] EXCEPT !.pc = "joining"]
  <2>1. /\ g \in States /\ state[g].proc \in late \cup {stops[s].proc}
        /\ state[g].task # "none" /\ stops[s] \in Stop
    BY <1>10, <1>c DEF StopWaited, StopKills, GraceInv, SupervisorTypeOK
  <2>2. PICK reaped :
          /\ alive' = alive \ reaped /\ state[g].proc \notin alive' \ late
    <3>1. CASE StopWaited(s)
      <4> WITNESS {}
      <4> QED
        BY <3>1, <2>1 DEF StopWaited
    <3>2. CASE StopKills(s)
      <4> WITNESS {stops[s].proc}
      <4> QED
        BY <3>2, <2>1 DEF StopKills
    <3> QED
      BY <1>10, <3>1, <3>2
  <2>3. /\ state' = [state EXCEPT ![g] = cancelled(state[g])]
        /\ stops' = [stops EXCEPT ![s] = call]
        /\ UNCHANGED <<mode, boots, yields, cur, spawned, late, file>>
    BY <1>10 DEF StopWaited, StopKills, set
  <2>4. call \in Stop /\ call.pc = "joining"
    BY <2>1 DEF Stop
  <2>5. /\ NewestOnly' /\ NoOrphan' /\ state' \in [States -> State] /\ MarkedInv'
        /\ alive' \in SUBSET (1..spawned')
        /\ \A h \in States : state'[h] = IF h = g THEN cancelled(state[g]) ELSE state[h]
    BY <1>8, <1>d, <2>1, <2>2, <2>3
  <2> HIDE DEF call
  <2>6. \A t \in Stoppers : stops'[t] = IF t = s THEN call ELSE stops[t]
    BY <2>3, <1>c DEF SupervisorTypeOK
  <2>7. SupervisorTypeOK'
    BY <2>3, <2>4, <2>5, <1>c DEF SupervisorTypeOK
  <2>8. GraceInv'
    BY <1>d, <2>1, <2>3, <2>4, <2>5, <2>6, <1>c DEF GraceInv
  <2> QED
    BY <2>5, <2>7, <2>8 DEF StreamInv
<1>11. ASSUME NEW s \in Stoppers, StopReturns(s) PROVE StreamInv'
  <2>1. /\ stops' = [stops EXCEPT ![s] = NoStop] /\ UNCHANGED <<mode, boots, yields, cur, state, spawned, late, alive>>
        /\ file' = row(cur, state)
    BY <1>11 DEF StopReturns, write_status
  <2>2. SupervisorTypeOK'
    BY <2>1, <1>b, <1>c, RowType DEF SupervisorTypeOK
  <2>3. \A t \in Stoppers : stops'[t] = IF t = s THEN NoStop ELSE stops[t]
    BY <2>1, <1>c DEF SupervisorTypeOK
  <2>4. GraceInv'
    BY <2>1, <2>3, <1>c DEF GraceInv, NoStop
  <2> QED
    BY <2>1, <2>2, <2>4, <1>c DEF StreamInv, NewestOnly, NoOrphan, MarkedInv
<1>12. CASE UNCHANGED supervisor
  BY <1>12, <1>c DEF supervisor, StreamInv, SupervisorTypeOK, NewestOnly, NoOrphan, GraceInv, MarkedInv
<1> QED
  BY <1>1, <1>2, <1>3, <1>4, <1>6, <1>7, <1>9, <1>10, <1>11, <1>12 DEF SupervisorNext, StopCall

-----------------------------------------------------------------------------
\* A running child has its supervise task, whatever order starts, stops, exits and
\* kills come in, unless its spawn returned after its stop had begun (start and stop
\* of supervisor.py); and that can only be on a Python whose wait_for suspends for a
\* child that has exited.
THEOREM NothingIsOrphaned == SupervisorSpec => []NoOrphan
<1>1. StreamInv /\ [SupervisorNext]_supervisor => StreamInv'
  BY StreamStep
<1>2. StreamInv => NoOrphan
  BY DEF StreamInv
<1> QED
  BY StreamInitInv, <1>1, <1>2, PTL DEF SupervisorSpec

\* At most one `sherwood session check --stream` child of a fund runs at a time,
\* children of late spawns apart.
THEOREM AtMostOneStream == SupervisorSpec => []OneStream
<1>1. StreamInv /\ [SupervisorNext]_supervisor => StreamInv'
  BY StreamStep
<1> QED
  BY StreamInitInv, InvOneStream, <1>1, PTL DEF SupervisorSpec

-----------------------------------------------------------------------------
(* The status file, whatever wait_for does.                                *)

\* What the file says of the current object, and what its task has done by then.
Told(c, f) ==
    /\ c.task = "done" => c.stop_requested
    /\ c.task = "sleeping" => c.restarting
    /\ c.task \in {"top", "spawning"} /\ ~c.restarting => c.proc = 0
    /\ c.task \in {"running", "draining"} => ~c.restarting
    /\ ~c.stop_requested /\ (c.task \in {"running", "draining"} \/ c.restarting)
         => f = [listed |-> TRUE, pid |-> c.proc, restarting |-> c.restarting, left |-> FALSE]

noStops == \A s \in Stoppers : stops[s].pc = "idle"

FileInv ==
    /\ mode # "up" => cur = 0
    /\ mode # "killed" /\ cur = 0 => file = NoRow \/ (file.left /\ mode = "up")
    /\ cur # 0 => /\ Told(state[cur], file)
                  /\ state[cur].stop_requested /\ noStops => file = NoRow

\* A stop call names an object that exists.
CallInv == \A s \in Stoppers : stops[s].pc = "grace" => stops[s].of # 0 /\ stops[s].of <= cur

TruthInv == SupervisorTypeOK /\ NewestOnly /\ CallInv /\ FileInv

LEMMA TruthBasics ==
    ASSUME TruthInv
    PROVE  /\ cur \in Nat /\ States = 1..MaxStarts /\ MaxStarts \in Nat /\ cur <= MaxStarts
           /\ (cur # 0 => cur \in States) /\ state \in [States -> State]
              /\ stops \in [Stoppers -> Stop]
           /\ \A g \in States : state[g].task \notin {"none", "done"} => g = cur
           /\ \A g \in States : state[g].task # "none" => g <= cur
  BY SupervisorAssumption DEF TruthInv, SupervisorTypeOK, NewestOnly, States

\* One object changes, the newest or one whose task has ended.
LEMMA ObjectMoves ==
    ASSUME TruthInv, NEW g \in States, NEW r \in State, g <= cur,
           state' = [state EXCEPT ![g] = r],
           r.task # "none", g # cur => r.task = "done", UNCHANGED <<mode, boots, yields, cur>>,
           spawned' \in 0..MaxSpawns, alive' \in SUBSET (1..spawned'),
           late' \in SUBSET (1..spawned'), stops' \in [Stoppers -> Stop],
           CallInv', file' \in Row,
           g = cur => Told(r, file') /\ (r.stop_requested /\ noStops' => file' = NoRow),
           g # cur => file' = file /\ (noStops' => noStops)
    PROVE  TruthInv'
<1>1. cur \in States /\ cur # 0 /\ g \in Nat /\ cur \in Nat /\ States \subseteq Nat
  BY TruthBasics
<1>2. state' \in [States -> State] /\ \A h \in States : state'[h] = IF h = g THEN r ELSE state[h]
  BY TruthBasics
<1>3. SupervisorTypeOK'
  BY <1>2 DEF TruthInv, SupervisorTypeOK
<1>4. NewestOnly'
  BY <1>1, <1>2 DEF TruthInv, NewestOnly
<1>5. FileInv'
  BY <1>1, <1>2 DEF TruthInv, FileInv
<1> QED BY <1>3, <1>4, <1>5 DEF TruthInv

\* What write_status writes for an object.
LEMMA Written ==
    ASSUME NEW n \in States, NEW st \in [States -> State], NEW r \in State, st[n] = r,
           n # 0, r.task = "done" => r.stop_requested, r.task = "sleeping" => r.restarting,
           r.task \in {"top", "spawning"} /\ ~r.restarting => r.proc = 0,
           r.task \in {"running", "draining"} => ~r.restarting
    PROVE  /\ Told(r, row(n, st)) /\ (r.stop_requested => row(n, st) = NoRow)
  BY DEF Told, row

LEMMA TruthTask ==
    ASSUME TruthInv, NEW g \in States, Task(g)
    PROVE  TruthInv'
<1> DEFINE old == state[g]
<1>1. /\ old \in State /\ Told(old, file) /\ g = cur /\ g # 0 /\ g <= cur /\ file \in Row /\ CallInv
      /\ spawned \in 0..MaxSpawns /\ alive \in SUBSET (1..spawned) /\ stops \in [Stoppers -> Stop]
      /\ late \in SUBSET (1..spawned)
      /\ old.stop_requested /\ noStops => file = NoRow
  <2>1. old.task \notin {"none", "done"}
    BY DEF Task, TaskTop, SpawnOk, SpawnFails, RunEnds, Drained, Wake
  <2>2. g = cur /\ g # 0 /\ g <= cur /\ old \in State
    BY <2>1, TruthBasics
  <2> QED BY <2>2 DEF TruthInv, SupervisorTypeOK, FileInv
<1>2. CASE TaskTop(g)
  <2> DEFINE r == [old EXCEPT !.task = IF old.stop_requested THEN "done" ELSE "spawning"]
  <2>1. /\ state' = [state EXCEPT ![g] = r] /\ old.task = "top"
        /\ UNCHANGED <<mode, boots, yields, cur, spawned, late, alive, stops, file>>
    BY <1>2 DEF TaskTop, set
  <2>2. /\ r \in State /\ r.task = (IF old.stop_requested THEN "done" ELSE "spawning")
        /\ r.stop_requested = old.stop_requested /\ r.proc = old.proc /\ r.restarting = old.restarting
    BY <1>1 DEF State
  <2> HIDE DEF r
  <2>3. Told(r, file)
    BY <1>1, <2>1, <2>2 DEF Told
  <2>4. CallInv' /\ (noStops' => noStops)
    BY <1>1, <2>1 DEF CallInv, noStops
  <2> QED BY <1>1, <2>1, <2>2, <2>3, <2>4, ObjectMoves
<1>3. CASE SpawnOk(g)
  <2> DEFINE r == [old EXCEPT !.task = "running", !.proc = spawned + 1, !.restarting = FALSE]
  <2>1. /\ state' = [state EXCEPT ![g] = r] /\ spawned' = spawned + 1 /\ spawned < MaxSpawns
        /\ alive' = alive \cup {spawned + 1} /\ file' = row(cur, state')
        /\ late' \in {late, late \cup {spawned + 1}}
        /\ UNCHANGED <<mode, boots, yields, cur, stops>>
    BY <1>3 DEF SpawnOk, set, write_status
  <2>2. /\ spawned + 1 \in Pids /\ spawned' \in 0..MaxSpawns /\ alive' \in SUBSET (1..spawned')
        /\ late' \in SUBSET (1..spawned')
    BY <1>1, <2>1, SupervisorAssumption DEF Pids
  <2>3. /\ r \in State /\ r.task = "running" /\ r.proc = spawned + 1 /\ r.restarting = FALSE
        /\ r.stop_requested = old.stop_requested
    BY <1>1, <2>2 DEF State
  <2> HIDE DEF r
  <2>4. state' \in [States -> State] /\ state'[g] = r
    BY <2>1, <2>3, TruthBasics
  <2>5. /\ Told(r, file') /\ (r.stop_requested => file' = NoRow) /\ file' \in Row
    BY <1>1, <2>1, <2>3, <2>4, Written, RowType
  <2>6. CallInv'
    BY <1>1, <2>1 DEF CallInv
  <2> QED BY <1>1, <2>1, <2>2, <2>3, <2>5, <2>6, ObjectMoves
<1>4. CASE (SpawnFails(g) \/ Drained(g)) /\ old.stop_requested
  <2> DEFINE r == [old EXCEPT !.task = "done"]
  <2>1. state' = [state EXCEPT ![g] = r] /\ UNCHANGED <<mode, boots, yields, cur, spawned, late, alive, stops, file>>
    BY <1>4 DEF SpawnFails, Drained, after_run, set
  <2>2. /\ r \in State /\ r.task = "done" /\ r.stop_requested = old.stop_requested /\ r.proc = old.proc
        /\ r.restarting = old.restarting
    BY <1>1 DEF State
  <2> HIDE DEF r
  <2>3. Told(r, file)
    BY <1>4, <2>2 DEF Told
  <2>4. CallInv' /\ (noStops' => noStops)
    BY <1>1, <2>1 DEF CallInv, noStops
  <2> QED BY <1>1, <2>1, <2>2, <2>3, <2>4, ObjectMoves
<1>5. CASE (SpawnFails(g) \/ Drained(g)) /\ ~old.stop_requested
  <2> DEFINE r == [old EXCEPT !.task = "sleeping", !.restarting = TRUE]
  <2>1. /\ state' = [state EXCEPT ![g] = r] /\ file' = row(cur, state')
        /\ UNCHANGED <<mode, boots, yields, cur, spawned, late, alive, stops>>
    BY <1>5 DEF SpawnFails, Drained, after_run, set, write_status
  <2>2. /\ r \in State /\ r.task = "sleeping" /\ r.stop_requested = old.stop_requested /\ r.proc = old.proc
        /\ r.restarting = TRUE
    BY <1>1 DEF State
  <2> HIDE DEF r
  <2>3. state' \in [States -> State] /\ state'[g] = r
    BY <2>1, <2>2, TruthBasics
  <2>4. /\ Told(r, file') /\ (r.stop_requested => file' = NoRow) /\ file' \in Row
    BY <1>1, <2>1, <2>2, <2>3, Written, RowType
  <2>5. CallInv'
    BY <1>1, <2>1 DEF CallInv
  <2> QED BY <1>1, <2>1, <2>2, <2>4, <2>5, ObjectMoves
<1>6. CASE RunEnds(g) \/ Wake(g)
  <2> DEFINE r(t) == [old EXCEPT !.task = t]
  <2>1. \A t \in {"draining", "top"} :
          /\ r(t) \in State /\ r(t).task = t /\ r(t).stop_requested = old.stop_requested
          /\ r(t).proc = old.proc /\ r(t).restarting = old.restarting
    BY <1>1 DEF State
  <2>2. /\ \/ old.task = "running" /\ state' = [state EXCEPT ![g] = r("draining")]
           \/ old.task = "sleeping" /\ state' = [state EXCEPT ![g] = r("top")]
        /\ UNCHANGED <<mode, boots, yields, cur, spawned, late, alive, stops, file>>
    BY <1>6 DEF RunEnds, Wake, set
  <2> HIDE DEF r
  <2>3. PICK t \in {"draining", "top"} :
          /\ state' = [state EXCEPT ![g] = r(t)]
          /\ t = "draining" => old.task = "running"
          /\ t = "top" => old.task = "sleeping"
    BY <2>2
  <2>4. Told(r(t), file)
    BY <1>1, <2>1, <2>3 DEF Told
  <2>5. CallInv' /\ (noStops' => noStops)
    BY <1>1, <2>2 DEF CallInv, noStops
  <2>6. r(t) \in State /\ r(t).task # "none" /\ r(t).stop_requested = old.stop_requested
    BY <2>1, <2>3
  <2> QED BY <1>1, <2>2, <2>3, <2>4, <2>5, <2>6, ObjectMoves
<1> QED BY <1>2, <1>3, <1>4, <1>5, <1>6 DEF Task

\* From the request on, the call stands for the row that is still in the file.
LEMMA StopMoves ==
    ASSUME TruthInv, NEW s \in Stoppers, NEW g \in States,
           NEW r \in State, NEW call \in Stop, g <= cur,
           state' = [state EXCEPT ![g] = r], stops' = [stops EXCEPT ![s] = call],
           call.pc \in {"grace", "joining"}, call.of = g,
           r.stop_requested, r.proc = state[g].proc, r.restarting = state[g].restarting,
           r.task = "done" \/ (r.task = state[g].task /\ g = cur),
           alive' \subseteq alive, UNCHANGED <<mode, boots, yields, cur, spawned, late, file>>
    PROVE  TruthInv'
<1>1. /\ stops' \in [Stoppers -> Stop] /\ \A t \in Stoppers : stops'[t] = IF t = s THEN call ELSE stops[t]
      /\ g \in Nat /\ g # 0 /\ cur \in States /\ state[g] \in State
  BY TruthBasics
<1>2. ~noStops'
  BY <1>1 DEF noStops
<1>3. CallInv'
  BY <1>1 DEF TruthInv, CallInv
<1>4. /\ g = cur => Told(state[g], file) /\ state[g].task # "none"
      /\ file \in Row /\ spawned \in 0..MaxSpawns /\ alive \in SUBSET (1..spawned)
      /\ late \in SUBSET (1..spawned)
  BY <1>1, TruthBasics DEF TruthInv, FileInv, SupervisorTypeOK, NewestOnly
<1>5. g = cur => Told(r, file)
  BY <1>4 DEF Told
<1>6. r.task # "none" /\ (g # cur => r.task = "done")
  BY <1>4
<1> QED BY <1>1, <1>2, <1>3, <1>4, <1>5, <1>6, ObjectMoves

LEMMA Cancelled ==
    ASSUME NEW x \in State
    PROVE  /\ cancelled(x) \in State /\ cancelled(x).task = "done"
              /\ cancelled(x).stop_requested
           /\ cancelled(x).proc = x.proc /\ cancelled(x).restarting = x.restarting
  BY DEF cancelled, State

LEMMA TruthStop ==
    ASSUME TruthInv, NEW s \in Stoppers,
           StopBegin(s) \/ StopWaited(s) \/ StopKills(s)
    PROVE  TruthInv'
<1>1. CASE StopBegin(s)
  <2> DEFINE old == state[cur]
             waits == old.proc # 0 /\ (old.proc \in alive \/ yields)
             marked == [old EXCEPT !.stop_requested = TRUE]
             r == IF waits THEN marked ELSE cancelled(old)
             call == [pc |-> IF waits THEN "grace" ELSE "joining", of |-> cur, proc |-> old.proc]
  <2>1. cur \in States /\ old \in State /\ cur <= cur
    BY <1>1, TruthBasics DEF StopBegin
  <2>2. /\ state' = [state EXCEPT ![cur] = r] /\ stops' = [stops EXCEPT ![s] = call]
        /\ UNCHANGED <<mode, boots, yields, cur, spawned, late, alive, file>>
    BY <1>1 DEF StopBegin, set
  <2> HIDE DEF waits
  <2>3. call \in Stop /\ call.of = cur /\ call.pc \in {"grace", "joining"}
    BY <2>1 DEF Stop, State
  <2>4. /\ marked \in State /\ marked.stop_requested /\ marked.proc = old.proc /\ marked.task = old.task
        /\ marked.restarting = old.restarting
    BY <2>1 DEF State
  <2> HIDE DEF marked
  <2>5. /\ r \in State /\ r.stop_requested /\ r.proc = old.proc /\ r.restarting = old.restarting
        /\ r.task \in {"done", old.task}
    BY <2>1, <2>4, Cancelled
  <2> HIDE DEF r, call
  <2> QED BY <2>1, <2>2, <2>3, <2>5, StopMoves
<1>2. CASE StopWaited(s) \/ StopKills(s)
  <2> DEFINE g == stops[s].of
             call == [stops[s] EXCEPT !.pc = "joining"]
  <2>1. /\ state' = [state EXCEPT ![g] = cancelled(state[g])] /\ stops' = [stops EXCEPT ![s] = call]
        /\ stops[s].pc = "grace" /\ alive' \subseteq alive /\ UNCHANGED <<mode, boots, yields, cur, spawned, late, file>>
    BY <1>2 DEF StopWaited, StopKills, set
  <2>2. stops[s] \in Stop /\ g # 0 /\ g <= cur
    BY <2>1, TruthBasics DEF TruthInv, CallInv
  <2>3. g \in States /\ state[g] \in State
    BY <2>2, TruthBasics DEF Stop
  <2>4. call \in Stop /\ call.of = g /\ call.pc = "joining"
    BY <2>2 DEF Stop
  <2> HIDE DEF call
  <2>5. /\ cancelled(state[g]) \in State /\ cancelled(state[g]).stop_requested
        /\ cancelled(state[g]).task = "done" /\ cancelled(state[g]).proc = state[g].proc
        /\ cancelled(state[g]).restarting = state[g].restarting
    BY <2>3, Cancelled
  <2> HIDE DEF g
  <2> QED BY <2>1, <2>2, <2>3, <2>4, <2>5, StopMoves
<1> QED BY <1>1, <1>2

\* A call returns, or an event is routed: the file is written as things are by then.
LEMMA TruthWrites ==
    ASSUME TruthInv, file' = row(cur, state),
           UNCHANGED <<mode, boots, yields, cur, state, spawned, late, alive>>,
           stops' = stops \/ \E s \in Stoppers : stops' = [stops EXCEPT ![s] = NoStop]
    PROVE  TruthInv'
<1>1. NoStop \in Stop /\ NoStop.pc = "idle"
  BY DEF NoStop, Stop, Pids, States
<1>2. /\ stops' \in [Stoppers -> Stop]
      /\ \A t \in Stoppers : stops'[t].pc = "grace" => stops[t].pc = "grace" /\ stops'[t] = stops[t]
  BY <1>1, TruthBasics
<1>3. file' \in Row
  BY RowType DEF TruthInv, SupervisorTypeOK
<1>4. SupervisorTypeOK' /\ NewestOnly' /\ CallInv'
  BY <1>2, <1>3 DEF TruthInv, SupervisorTypeOK, NewestOnly, CallInv
<1>5. FileInv'
  <2>1. CASE cur = 0
    BY <2>1 DEF TruthInv, FileInv, row
  <2>2. CASE cur # 0
    <3>1. cur \in States /\ state[cur] \in State /\ Told(state[cur], file)
      BY <2>2, TruthBasics DEF TruthInv, FileInv
    <3>2. /\ Told(state[cur], file') /\ (state[cur].stop_requested => file' = NoRow)
        BY <2>2, <3>1, Written, TruthBasics DEF Told
    <3> QED BY <2>2, <3>2 DEF TruthInv, FileInv
  <2> QED BY <2>1, <2>2
<1> QED BY <1>4, <1>5 DEF TruthInv

LEMMA TruthStart ==
    ASSUME TruthInv, Start
    PROVE  TruthInv'
<1> DEFINE r == [NoState EXCEPT !.task = "top"]
<1>1. /\ r \in State /\ r.task = "top" /\ r.stop_requested = FALSE /\ r.proc = 0 /\ r.restarting = FALSE
  BY DEF State, NoState, Pids
<1>2. /\ state' = [state EXCEPT ![cur + 1] = r] /\ cur' = cur + 1 /\ cur < MaxStarts /\ mode = "up"
      /\ cur # 0 => state[cur].task = "done"
      /\ UNCHANGED <<mode, boots, yields, spawned, late, alive, stops, file>>
  BY DEF Start, set
<1> HIDE DEF r
<1>3. cur + 1 \in States /\ cur \in Nat /\ cur + 1 # 0 /\ States \subseteq Nat
  BY <1>2, TruthBasics
<1>4. state' \in [States -> State] /\ \A g \in States :
      state'[g] = IF g = cur + 1 THEN r ELSE state[g]
  BY <1>1, <1>2, <1>3, TruthBasics
<1>5. SupervisorTypeOK'
  BY <1>2, <1>3, <1>4 DEF TruthInv, SupervisorTypeOK
<1>6. NewestOnly'
  <2>1. ASSUME NEW g \in States PROVE g > cur' <=> state'[g].task = "none"
    BY <1>1, <1>2, <1>3, <1>4 DEF TruthInv, NewestOnly
  <2>2. ASSUME NEW g \in States, g < cur' PROVE state'[g].task = "done"
    <3>1. g # cur + 1 /\ state'[g] = state[g] /\ g \in Nat /\ g # 0
      BY <1>2, <1>3, <1>4, <2>2, TruthBasics
    <3>2. g = cur \/ g < cur
      BY <1>2, <1>3, <2>2, <3>1
    <3> QED BY <1>2, <3>1, <3>2 DEF TruthInv, NewestOnly
  <2> QED BY <2>1, <2>2 DEF NewestOnly
<1>7. CallInv'
  <2>1. \A s \in Stoppers : stops[s].pc = "grace" => stops[s].of \in Nat
    BY TruthBasics DEF Stop
  <2> QED BY <1>2, <1>3, <2>1 DEF TruthInv, CallInv
<1>8. FileInv'
  <2>1. Told(r, file)
    BY <1>1 DEF Told
  <2> QED BY <1>1, <1>2, <1>3, <1>4, <2>1 DEF FileInv
<1> QED BY <1>5, <1>6, <1>7, <1>8 DEF TruthInv

LEMMA TruthStep ==
    ASSUME TruthInv, [SupervisorNext]_supervisor
    PROVE  TruthInv'
<1>1. CASE Start
  BY <1>1, TruthStart
<1>2. CASE EventWrites
  BY <1>2, TruthWrites DEF EventWrites, write_status
<1>3. CASE Teardown \/ Killed \/ Boot
  <2>1. CASE Boot
    <3>1. NoRow \in Row /\ file \in Row /\ cur = 0
      BY <2>1 DEF Boot, TruthInv, SupervisorTypeOK, FileInv, NoRow, Row
    <3>2. file' \in Row /\ (file' = NoRow \/ file'.left)
      BY <2>1, <3>1 DEF Boot, Row
    <3>3. QED
      BY <2>1, <3>1, <3>2, SupervisorAssumption
      DEF Boot, TruthInv, SupervisorTypeOK, NewestOnly, CallInv, FileInv
  <2>2. CASE Teardown \/ Killed
    <3>1. /\ cur' = 0 /\ spawned' = 0 /\ alive' = {} /\ boots' = boots
          /\ late' = {} /\ yields' = yields
          /\ state' = [g \in States |-> NoState] /\ stops' = [s \in Stoppers |-> NoStop]
          /\ mode' \in {"exited", "killed"} /\ file' \in Row /\ (mode' = "exited" => file' = NoRow)
        <4>1. NoRow \in Row /\ file \in Row
        BY DEF NoRow, Row, TruthInv, SupervisorTypeOK, FileInv
      <4> QED BY <2>2, <4>1 DEF Teardown, Killed, forget
    <3>2. NoState \in State /\ NoStop \in Stop /\ NoState.task = "none"
            /\ NoStop.pc = "idle"
      BY DEF NoState, NoStop, State, Stop, Pids, States
    <3>3. SupervisorTypeOK'
      BY <3>1, <3>2, SupervisorAssumption DEF TruthInv, SupervisorTypeOK
    <3>4. \A g \in States : g \in Nat /\ g > 0 /\ ~(g < 0)
      BY SupervisorAssumption DEF States
    <3> QED BY <3>1, <3>2, <3>3, <3>4 DEF TruthInv, NewestOnly, CallInv, FileInv
  <2> QED BY <1>3, <2>1, <2>2
<1>4. ASSUME NEW g \in States, Task(g) PROVE TruthInv'
  BY <1>4, TruthTask
<1>5. ASSUME NEW c \in Pids, ChildExits(c) PROVE TruthInv'
  BY <1>5 DEF ChildExits, TruthInv, SupervisorTypeOK, NewestOnly, CallInv, FileInv, noStops
<1>6. ASSUME NEW s \in Stoppers, StopBegin(s) \/ StopCall(s) PROVE TruthInv'
  <2>1. CASE StopReturns(s)
    BY <2>1, TruthWrites DEF StopReturns, write_status
  <2> QED BY <1>6, <2>1, TruthStop DEF StopCall
<1>7. CASE UNCHANGED supervisor
  BY <1>7 DEF supervisor, TruthInv, SupervisorTypeOK, NewestOnly, CallInv, FileInv, noStops
<1> QED BY <1>1, <1>2, <1>3, <1>4, <1>5, <1>6, <1>7 DEF SupervisorNext

LEMMA TruthInit ==
    ASSUME SupervisorInit
    PROVE  TruthInv
<1>1. SupervisorTypeOK /\ NewestOnly
  BY StreamInitInv DEF StreamInv
<1>2. CallInv /\ FileInv
  BY DEF SupervisorInit, CallInv, FileInv, NoStop
<1> QED BY <1>1, <1>2 DEF TruthInv

\* What the watchdog reads in stream_status.json is what the supervisor does, on every
\* Python: however starts, stops, exits, crashes and late writes interleave, a row that
\* looks dead is one of a child whose exit is being noticed or of a first spawn.
THEOREM StatusFileIsTrue == SupervisorSpec => []StatusFileTruth
<1>1. TruthInv => StatusFileTruth
  <2> SUFFICES ASSUME TruthInv PROVE StatusFileTruth
    OBVIOUS
  <2>1. (mode = "exited" => file = NoRow) /\ (mode = "up" /\ cur = 0 => file = NoRow \/ file.left)
    BY DEF TruthInv, FileInv
  <2>2. ASSUME cur # 0
        PROVE  LET c == state[cur]
                   quiet == \A s \in Stoppers : stops[s].pc = "idle"
               IN  /\ c.task \in {"running", "draining"} /\ ~c.stop_requested
                        => file = [listed |-> TRUE, pid |-> c.proc, restarting |-> FALSE, left |-> FALSE]
                   /\ c.restarting /\ ~c.stop_requested
                        => file = [listed |-> TRUE, pid |-> c.proc, restarting |-> TRUE, left |-> FALSE]
                   /\ c.stop_requested /\ quiet => file = NoRow
                   /\ dead(file) /\ quiet =>
                        \/ c.task \in {"running", "draining"} /\ c.proc \notin alive
                        \/ c.task \in {"top", "spawning"} /\ c.proc = 0 /\ ~c.restarting
    <3> DEFINE c == state[cur]
    <3>1. c \in State /\ Told(c, file) /\ (c.stop_requested /\ noStops => file = NoRow) /\ mode = "up"
      BY <2>2, TruthBasics DEF TruthInv, FileInv, SupervisorTypeOK
    <3>2. c.task # "none" /\ c.task \in {"top", "spawning", "running", "draining", "sleeping", "done"}
          /\ c.restarting \in BOOLEAN
      BY <2>2, <3>1, TruthBasics DEF TruthInv, NewestOnly, State
    <3> HIDE DEF c
    <3>3. /\ c.task \in {"running", "draining"} /\ ~c.stop_requested
               => file = [listed |-> TRUE, pid |-> c.proc, restarting |-> FALSE, left |-> FALSE]
          /\ c.restarting /\ ~c.stop_requested
               => file = [listed |-> TRUE, pid |-> c.proc, restarting |-> TRUE, left |-> FALSE]
      BY <3>1, <3>2 DEF Told
    <3>4. ASSUME dead(file), noStops
          PROVE  \/ c.task \in {"running", "draining"} /\ c.proc \notin alive
                 \/ c.task \in {"top", "spawning"} /\ c.proc = 0 /\ ~c.restarting
      <4>1. file.listed /\ ~file.restarting /\ file.pid \notin alive
        BY <3>1, <3>4 DEF dead
      <4>2. ~c.stop_requested
        BY <3>1, <3>4, <4>1 DEF NoRow
      <4>3. ~c.restarting
        BY <3>3, <4>1, <4>2
      <4> QED BY <3>1, <3>2, <3>3, <4>1, <4>2, <4>3 DEF Told
    <3> QED BY <3>1, <3>3, <3>4 DEF c, noStops
  <2> QED BY <2>1, <2>2 DEF StatusFileTruth
<1>2. TruthInv /\ [SupervisorNext]_supervisor => TruthInv'
  BY TruthStep
<1> QED BY TruthInit, <1>1, <1>2, PTL DEF SupervisorSpec
=============================================================================
