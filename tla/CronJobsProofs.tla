--------------------------- MODULE CronJobsProofs ---------------------------
(***************************************************************************)
(* Proofs about CronJobs, for any funds, runners, blocks, jobs and         *)
(* installers.                                                             *)
(*                                                                         *)
(* NothingSkipped speaks of the cursor file alone.  A tick also carries    *)
(* the cursor it took and, while it saves, a copy of the whole file, and   *)
(* writes them back later; CursorInv says of these copies what             *)
(* NothingSkipped says of the file.  It survives any interleaving because  *)
(* what has been found is never unfound, and a cursor never points past    *)
(* the chain.                                                              *)
(***************************************************************************)
EXTENDS CronJobs, TLAPS

\* A cursor c of fund f is safe: on the chain, and nothing behind it is unknown.
Safe(f, c) ==
    /\ c \in 0..Len(chain[f])
    /\ \A b \in 1..c : chain[f][b] => <<f, b>> \in known

Tick == [pc : {"idle", "load", "loading", "check", "save", "saving"}, fund : Funds \cup {NoFund},
         cursor : Nat, top : Nat, file : [Funds -> Nat]]

CursorInv ==
    /\ chain \in [Funds -> Seq(BOOLEAN)] /\ cursors \in [Funds -> Nat]
    /\ tick \in [Runners -> Tick] /\ DOMAIN held = Runners
    /\ \A f \in Funds : Safe(f, cursors[f])
    /\ \A r \in Runners : under_way(r) =>
          /\ tick[r].fund \in Funds
          /\ Safe(tick[r].fund, tick[r].cursor)
          /\ tick[r].top \in 0..Len(chain[tick[r].fund])
          /\ tick[r].pc = "saving" => \A f \in Funds : Safe(f, tick[r].file[f])

LEMMA NoTickTyped == NoTick \in Tick /\ NoTick.pc = "idle" /\ NoTick.fund = NoFund
  BY DEF NoTick, Tick

\* What was known stays known, and the chain only grows: a safe cursor stays safe.
LEMMA SafeStays ==
    ASSUME NEW f \in Funds, NEW c, Safe(f, c), chain[f] \in Seq(BOOLEAN), chain'[f] \in Seq(BOOLEAN),
           known \subseteq known', Len(chain[f]) <= Len(chain'[f]),
           \A b \in 1..Len(chain[f]) : chain'[f][b] = chain[f][b]
    PROVE  Safe(f, c)'
  BY DEF Safe

\* A step that moves no cursor, takes no tick further and keeps what is known.
LEMMA CursorsKept ==
    ASSUME CursorInv, UNCHANGED <<chain, cursors>>, DOMAIN held' = Runners, known \subseteq known',
           tick' \in [Runners -> Tick],
           \A r \in Runners : under_way(r)' => tick'[r] = tick[r]
    PROVE  CursorInv'
<1>1. \A f \in Funds : \A c : Safe(f, c) => Safe(f, c)'
  BY DEF Safe
<1> QED BY <1>1 DEF CursorInv, under_way

\* A new block leaves every cursor where it is.
LEMMA BlockKeeps ==
    ASSUME CursorInv, NEW f \in Funds, NewBlock(f)
    PROVE  CursorInv'
<1>1. PICK x \in BOOLEAN : chain' = [chain EXCEPT ![f] = Append(@, x)]
  BY DEF NewBlock
<1>2. UNCHANGED <<cursors, tick, held>> /\ known' = known
  BY DEF NewBlock, known
<1>5. /\ chain[f] \in Seq(BOOLEAN) /\ Append(chain[f], x) \in Seq(BOOLEAN)
      /\ Len(chain[f]) \in Nat /\ Len(Append(chain[f], x)) = Len(chain[f]) + 1
      /\ \A b \in 1..Len(chain[f]) : Append(chain[f], x)[b] = chain[f][b]
  BY DEF CursorInv
<1>6. /\ chain' \in [Funds -> Seq(BOOLEAN)]
      /\ chain'[f] = Append(chain[f], x)
      /\ \A g \in Funds \ {f} : chain'[g] = chain[g]
  BY <1>1, <1>5 DEF CursorInv
<1>3. \A g \in Funds : /\ chain[g] \in Seq(BOOLEAN) /\ chain'[g] \in Seq(BOOLEAN)
                       /\ Len(chain[g]) \in Nat /\ Len(chain'[g]) \in Nat
                       /\ Len(chain[g]) <= Len(chain'[g])
                       /\ \A b \in 1..Len(chain[g]) : chain'[g][b] = chain[g][b]
  <2> TAKE g \in Funds
  <2>1. CASE g = f
    BY <1>5, <1>6, <2>1
  <2>2. CASE g # f
    BY <1>6, <2>2 DEF CursorInv
  <2> QED BY <2>1, <2>2
<1>4. \A g \in Funds : \A c : Safe(g, c) => Safe(g, c)'
  BY <1>2, <1>3, SafeStays
<1> QED BY <1>2, <1>3, <1>4, <1>6 DEF CursorInv, under_way

\* A tool call that begins, waits or enters has no cursor yet.
LEMMA BeginKeeps ==
    ASSUME CursorInv, NEW r \in Runners, (\E f \in Funds : TickBegins(r, f)) \/ TickEnters(r)
    PROVE  CursorInv'
<1>1. UNCHANGED <<chain, cursors, held>> /\ known' = known
  BY DEF TickBegins, TickEnters, known
<1>2. /\ tick' \in [Runners -> Tick] /\ tick'[r].pc \in {"load", "loading"}
      /\ \A s \in Runners \ {r} : tick'[s] = tick[s]
  <2>1. tick[r] \in Tick
    BY DEF CursorInv
  <2>2. CASE TickEnters(r)
    BY <2>1, <2>2 DEF TickEnters, CursorInv, Tick
  <2>3. ASSUME NEW f \in Funds, TickBegins(r, f)
        PROVE  /\ tick' \in [Runners -> Tick] /\ tick'[r].pc \in {"load", "loading"}
               /\ \A s \in Runners \ {r} : tick'[s] = tick[s]
    <3>1. CASE tick' = [tick EXCEPT ![r].pc = "loading", ![r].fund = f]
      BY <2>1, <3>1 DEF CursorInv, Tick
    <3>2. CASE tick' = [tick EXCEPT ![r].pc = "load", ![r].fund = f]
      BY <2>1, <3>2 DEF CursorInv, Tick
    <3> QED BY <2>3, <3>1, <3>2 DEF TickBegins
  <2> QED BY <2>2, <2>3
<1>3. \A s \in Runners : under_way(s)' => tick'[s] = tick[s]
  BY <1>2 DEF under_way
<1>4. DOMAIN held' = Runners
  BY <1>1 DEF CursorInv
<1> QED BY <1>1, <1>2, <1>3, <1>4, CursorsKept

\* A tick takes the cursor of its fund, which is safe.
LEMMA LoadKeeps ==
    ASSUME CursorInv, NEW r \in Runners, NEW f \in Funds, TickLoad(r, f)
    PROVE  CursorInv'
<1> DEFINE t == [NoTick EXCEPT !.pc = "check", !.fund = f, !.cursor = cursors[f]]
<1>1. t \in Tick /\ t.pc = "check" /\ t.fund = f /\ t.cursor = cursors[f] /\ t.top = 0
  BY DEF NoTick, Tick, CursorInv
<1> HIDE DEF t
<1>2. /\ tick' = [tick EXCEPT ![r] = t] \/ tick' = [tick EXCEPT ![r] = NoTick]
      /\ UNCHANGED <<chain, cursors, held, gone>>
  BY DEF TickLoad, t
<1>3. CASE tick' = [tick EXCEPT ![r] = NoTick]
  BY <1>2, <1>3, NoTickTyped, CursorsKept DEF CursorInv, known, under_way
<1>4. CASE tick' = [tick EXCEPT ![r] = t]
  <2>1. \A g \in Funds : \A c : Safe(g, c) => Safe(g, c)'
    BY <1>2 DEF Safe, known
  <2>2. 0 \in 0..Len(chain[f]) /\ Safe(f, cursors[f])
    BY DEF CursorInv
  <2> QED BY <1>1, <1>2, <1>4, <2>1, <2>2 DEF CursorInv, under_way
<1> QED BY <1>2, <1>3, <1>4

\* `session check` shows the chain up to its head.
LEMMA CheckKeeps ==
    ASSUME CursorInv, NEW r \in Runners, SessionCheck(r)
    PROVE  CursorInv'
<1>1. UNCHANGED <<chain, cursors, held>> /\ known' = known
  BY DEF SessionCheck, known
<1>2. CASE tick' = [tick EXCEPT ![r] = NoTick]
  BY <1>1, <1>2, NoTickTyped, CursorsKept DEF CursorInv, under_way
<1>3. CASE tick' = [tick EXCEPT ![r].pc = "save", ![r].top = Len(chain[tick[r].fund])]
  <2>1. tick[r].fund \in Funds /\ Len(chain[tick[r].fund]) \in Nat
    BY DEF CursorInv, SessionCheck, under_way
  <2>2. /\ tick' \in [Runners -> Tick]
        /\ tick'[r].pc = "save" /\ tick'[r].fund = tick[r].fund /\ tick'[r].cursor = tick[r].cursor
        /\ tick'[r].top = Len(chain[tick[r].fund])
        /\ \A s \in Runners \ {r} : tick'[s] = tick[s]
    BY <1>3, <2>1 DEF CursorInv, Tick
  <2>3. Safe(tick[r].fund, tick[r].cursor)
    BY DEF CursorInv, SessionCheck, under_way
  <2>4. (/\ tick[r].fund \in Funds /\ Safe(tick[r].fund, tick[r].cursor)
         /\ tick[r].top \in 0..Len(chain[tick[r].fund]) /\ tick[r].pc # "saving")'
    BY <1>1, <2>1, <2>2, <2>3 DEF Safe
  <2>5. ASSUME NEW s \in Runners \ {r}, under_way(s)'
        PROVE  (/\ tick[s].fund \in Funds /\ Safe(tick[s].fund, tick[s].cursor)
                /\ tick[s].top \in 0..Len(chain[tick[s].fund])
                /\ tick[s].pc = "saving" => \A f \in Funds : Safe(f, tick[s].file[f]))'
    BY <1>1, <2>2, <2>5 DEF CursorInv, Safe, under_way
  <2>6. (/\ chain \in [Funds -> Seq(BOOLEAN)] /\ cursors \in [Funds -> Nat] /\ DOMAIN held = Runners
         /\ \A f \in Funds : Safe(f, cursors[f]))'
    BY <1>1 DEF CursorInv, Safe
  <2>7. \A s \in Runners : under_way(s)' =>
          (/\ tick[s].fund \in Funds /\ Safe(tick[s].fund, tick[s].cursor)
           /\ tick[s].top \in 0..Len(chain[tick[s].fund])
           /\ tick[s].pc = "saving" => \A f \in Funds : Safe(f, tick[s].file[f]))'
    BY <2>4, <2>5
  <2> QED BY <2>2, <2>6, <2>7 DEF CursorInv
<1> QED BY <1>2, <1>3 DEF SessionCheck

\* The copy of the file is as safe as the file.
LEMMA ReloadKeeps ==
    ASSUME CursorInv, NEW r \in Runners, SaveLoad(r)
    PROVE  CursorInv'
<1>1. UNCHANGED <<chain, cursors, held>> /\ known' = known /\ tick[r].pc = "save"
  BY DEF SaveLoad, known
<1>2. CASE tick' = [tick EXCEPT ![r].pc = "saving", ![r].file = cursors]
  <2>1. /\ tick' \in [Runners -> Tick]
        /\ tick'[r].pc = "saving" /\ tick'[r].fund = tick[r].fund /\ tick'[r].cursor = tick[r].cursor
        /\ tick'[r].top = tick[r].top /\ tick'[r].file = cursors
        /\ \A s \in Runners \ {r} : tick'[s] = tick[s]
    BY <1>2 DEF CursorInv, Tick
  <2>2. \A g \in Funds : \A c : Safe(g, c) => Safe(g, c)'
    BY <1>1 DEF Safe
  <2>3. under_way(r)
    BY <1>1 DEF under_way
  <2>4. ASSUME NEW s \in Runners, under_way(s)'
        PROVE  /\ tick'[s].fund \in Funds
               /\ Safe(tick'[s].fund, tick'[s].cursor)
               /\ tick'[s].top \in 0..Len(chain[tick'[s].fund])
               /\ tick'[s].pc = "saving" => \A f \in Funds : Safe(f, tick'[s].file[f])
    <3>1. CASE s = r
      BY <2>1, <2>3, <3>1 DEF CursorInv
    <3>2. CASE s # r
      <4>1. tick'[s] = tick[s] /\ under_way(s)
        BY <2>1, <2>4, <3>2 DEF under_way
      <4> QED BY <4>1 DEF CursorInv
    <3> QED BY <3>1, <3>2
  <2> QED BY <1>1, <2>1, <2>2, <2>4 DEF CursorInv
<1>3. CASE UNCHANGED tick
  BY <1>1, <1>3, CursorsKept DEF CursorInv
<1>4. CASE tick' = [tick EXCEPT ![r] = NoTick]
  BY <1>1, <1>4, NoTickTyped, CursorsKept DEF CursorInv, under_way
<1> QED BY <1>2, <1>3, <1>4 DEF SaveLoad

\* What lies between the cursor a tick took and the one it saves, it has found.
LEMMA SaveKeeps ==
    ASSUME CursorInv, NEW r \in Runners, SaveCursors(r)
    PROVE  CursorInv'
<1> DEFINE f == tick[r].fund
           new == {<<f, b>> : b \in found(r)}
<1>1. /\ f \in Funds /\ Safe(f, tick[r].cursor) /\ tick[r].top \in 0..Len(chain[f])
      /\ \A g \in Funds : Safe(g, tick[r].file[g])
      /\ tick[r].file \in [Funds -> Nat] /\ Len(chain[f]) \in Nat
  BY DEF CursorInv, SaveCursors, Tick, under_way
<1>2. /\ UNCHANGED chain
      /\ \/ held' = [held EXCEPT ![r] = @ \cup new] /\ gone' = gone
         \/ gone' = gone \cup new /\ held' = held
      /\ cursors' = [tick[r].file EXCEPT ![f] = max_block(r)]
      /\ tick' = [tick EXCEPT ![r] = NoTick]
  BY DEF SaveCursors
<1>3. DOMAIN held' = Runners /\ known \subseteq known' /\ new \subseteq known'
  <2>1. CASE gone' = gone \cup new /\ held' = held
    BY <1>2, <2>1 DEF known, CursorInv
  <2>2. CASE held' = [held EXCEPT ![r] = @ \cup new] /\ gone' = gone
    <3>1. DOMAIN held' = Runners /\ \A s \in Runners : held[s] \subseteq held'[s]
      BY <2>2 DEF CursorInv
    <3>2. new \subseteq held'[r]
      BY <2>2 DEF CursorInv
    <3> QED BY <1>2, <2>2, <3>1, <3>2 DEF known
  <2> QED BY <1>2, <2>1, <2>2
<1>4. \A g \in Funds : \A c : g = f /\ c = max_block(r) => Safe(g, c)' /\ c \in Nat
  <2>1. tick[r].cursor \in 0..Len(chain[f]) /\ max_block(r) \in 0..Len(chain[f])
    BY <1>1 DEF Safe, max_block
  <2>2. ASSUME NEW b \in 1..max_block(r), chain[f][b] PROVE <<f, b>> \in known'
    <3>1. CASE b <= tick[r].cursor
      BY <1>1, <1>3, <2>1, <2>2, <3>1 DEF Safe
    <3>2. CASE b > tick[r].cursor
      <4>1. b \in found(r)
        BY <1>1, <2>1, <2>2, <3>2 DEF found, max_block
      <4> QED BY <1>3, <4>1
    <3> QED BY <2>1, <3>1, <3>2
  <2> QED BY <1>1, <1>2, <2>1, <2>2 DEF Safe
<1>5. \A g \in Funds : \A c : Safe(g, c) => Safe(g, c)'
  BY <1>2, <1>3 DEF Safe
<1>6. cursors' \in [Funds -> Nat] /\ \A g \in Funds : Safe(g, cursors[g])'
  <2>1. max_block(r) \in Nat
    BY <1>1, <1>4
  <2>2. ASSUME NEW g \in Funds PROVE \A c : c = cursors'[g] => Safe(g, c)'
    <3>1. CASE g = f
      BY <1>1, <1>2, <1>4, <3>1
    <3>2. CASE g # f
      BY <1>1, <1>2, <1>5, <3>2
    <3> QED BY <3>1, <3>2
  <2> QED BY <1>1, <1>2, <2>1, <2>2
<1>7. tick' \in [Runners -> Tick] /\ \A s \in Runners : under_way(s)' => tick'[s] = tick[s]
  BY <1>2, NoTickTyped DEF CursorInv, under_way
<1>8. ASSUME NEW s \in Runners, under_way(s)'
      PROVE  /\ tick[s].fund \in Funds /\ under_way(s)
             /\ \A c : c = tick[s].cursor => Safe(tick[s].fund, c)
             /\ tick[s].top \in 0..Len(chain[tick[s].fund])
             /\ tick[s].pc = "saving" => \A g \in Funds : Safe(g, tick[s].file[g])
  BY <1>7, <1>8 DEF CursorInv, under_way
<1> QED BY <1>2, <1>3, <1>5, <1>6, <1>7, <1>8 DEF CursorInv

\* Every other step.
LEMMA RestKeeps ==
    ASSUME CursorInv,
           \/ \E r \in Runners : Deliver(r) \/ SaveFails(r)
           \/ Killed(Tools) \/ Killed({Digest})
           \/ UNCHANGED <<chain, cursors, tick, held, gone>>
    PROVE  CursorInv'
<1>1. ASSUME NEW r \in Runners, Deliver(r) PROVE CursorInv'
  <2>1. /\ UNCHANGED <<chain, cursors, tick>>
        /\ held' = [held EXCEPT ![r] = {}] /\ gone' = gone \cup held[r]
    BY <1>1 DEF Deliver
  <2>2. DOMAIN held' = Runners /\ \A s \in Runners : held[s] \subseteq held'[s] \cup gone'
    BY <2>1 DEF CursorInv
  <2>3. known \subseteq known'
    BY <2>1, <2>2 DEF known
  <2> QED BY <2>1, <2>2, <2>3, CursorsKept DEF CursorInv
<1>2. ASSUME NEW p \in SUBSET Runners, Killed(p) PROVE CursorInv'
  <2>1. /\ UNCHANGED <<chain, cursors>>
        /\ gone' = gone \cup UNION {held[r] : r \in p}
        /\ held' = [r \in Runners |-> IF r \in p THEN {} ELSE held[r]]
        /\ tick' = [r \in Runners |-> IF r \in p THEN NoTick ELSE tick[r]]
    BY <1>2 DEF Killed
  <2>2. DOMAIN held' = Runners /\ \A s \in Runners : held[s] \subseteq held'[s] \cup gone'
    BY <2>1
  <2>3. known \subseteq known'
    BY <2>1, <2>2 DEF known
  <2>4. tick' \in [Runners -> Tick] /\ \A r \in Runners : under_way(r)' => tick'[r] = tick[r]
    BY <2>1, NoTickTyped DEF CursorInv, under_way
  <2> QED BY <2>1, <2>2, <2>3, <2>4, CursorsKept
<1>3. ASSUME NEW r \in Runners, SaveFails(r) PROVE CursorInv'
  <2>1. UNCHANGED <<chain, cursors, held, gone>> /\ tick' = [tick EXCEPT ![r] = NoTick]
    BY <1>3 DEF SaveFails
  <2> QED BY <2>1, NoTickTyped, CursorsKept DEF CursorInv, known, under_way
<1>4. CASE UNCHANGED <<chain, cursors, tick, held, gone>>
  BY <1>4, CursorsKept DEF CursorInv, known
<1> QED BY <1>1, <1>2, <1>3, <1>4 DEF Runners

LEMMA InitCursors == Init => CursorInv
<1> SUFFICES ASSUME Init PROVE CursorInv
  OBVIOUS
<1>1. /\ chain \in [Funds -> Seq(BOOLEAN)] /\ \A f \in Funds : Len(chain[f]) = 0
      /\ cursors \in [Funds -> Nat] /\ \A f \in Funds : cursors[f] = 0
      /\ tick \in [Runners -> Tick] /\ \A r \in Runners : tick[r].pc = "idle"
      /\ DOMAIN held = Runners
  BY NoTickTyped DEF Init
<1>2. \A f \in Funds : Safe(f, cursors[f])
  BY <1>1 DEF Safe
<1> QED BY <1>1, <1>2 DEF CursorInv, under_way

\* Steps of the other two jobs leave the ticks alone.
LEMMA NextCursors == CursorInv /\ [Next]_vars => CursorInv'
<1> SUFFICES ASSUME CursorInv, [Next]_vars PROVE CursorInv'
  OBVIOUS
<1>1. ASSUME NEW f \in Funds, Value(f) PROVE CursorInv'
  BY <1>1, RestKeeps DEF Value, ticks
<1>2. ASSUME NEW read \in SUBSET Funds, AumTick(read) PROVE CursorInv'
  BY <1>2, RestKeeps DEF AumTick, ticks
<1>3. ASSUME NEW i \in Installers, InstallList(i) \/ WriteWrappers(i) \/ InstallEnds(i)
                                  \/ \E n \in Crons : InstallJob(i, n)
      PROVE  CursorInv'
  BY <1>3, RestKeeps DEF InstallList, WriteWrappers, InstallEnds, InstallJob, ticks
<1>4. CASE UNCHANGED vars
  BY <1>4, RestKeeps DEF vars
<1> QED BY <1>1, <1>2, <1>3, <1>4, BlockKeeps, BeginKeeps, LoadKeeps, CheckKeeps, ReloadKeeps, SaveKeeps, RestKeeps DEF Next

\* However ticks of one fund or several, of one process or two, interleave, are killed or
\* write an old copy of the file back: no interesting event behind a cursor is unknown.
THEOREM NoEventSkipped == Spec => []NothingSkipped
<1>1. CursorInv => NothingSkipped
  BY DEF CursorInv, Safe, known, NothingSkipped
<1> QED BY <1>1, InitCursors, NextCursors, PTL DEF Spec

-----------------------------------------------------------------------------
(* No event twice.                                                         *)

\* As long as nothing overlapped: what is known lies behind the cursor in the file, a
\* tick's cursor is still the file's, no two ticks share a fund, and the one runner that
\* saves holds a true copy of the file.  Nothing here rests on the lock.
Exclusive ==
    /\ \A f \in Funds : \A b \in Nat : <<f, b>> \in known => b <= cursors[f]
    /\ \A r \in Runners : under_way(r) => tick[r].cursor = cursors[tick[r].fund]
    /\ \A r, s \in Runners :
          under_way(r) /\ under_way(s) /\ tick[r].fund = tick[s].fund => r = s
    /\ \A r, s \in Runners : tick[r].pc = "saving" /\ tick[s].pc = "saving" => r = s
    /\ \A r \in Runners : tick[r].pc = "saving" => tick[r].file = cursors

OnceInv == ~overlap => Exclusive

\* A step that finds nothing new, moves no cursor, and at most ends ticks.
LEMMA ExclusiveKept ==
    ASSUME OnceInv, UNCHANGED <<cursors, overlap>>, known' \subseteq known,
           \A r \in Runners : \/ ~under_way(r)'
                              \/ /\ tick'[r].fund = tick[r].fund /\ tick'[r].cursor = tick[r].cursor
                                 /\ tick'[r].pc = "saving" => tick[r].pc = "saving"
                                 /\ tick'[r].file = tick[r].file /\ under_way(r)
    PROVE  OnceInv'
<1>1. ASSUME Exclusive PROVE Exclusive'
  <2>1. \A f \in Funds : \A b \in Nat : <<f, b>> \in known' => b <= cursors'[f]
    BY <1>1 DEF Exclusive
  <2>2. \A r \in Runners : under_way(r)' => tick'[r].cursor = cursors'[tick'[r].fund]
    BY <1>1 DEF Exclusive
  <2>3. \A r, s \in Runners :
          under_way(r)' /\ under_way(s)' /\ tick'[r].fund = tick'[s].fund => r = s
    BY <1>1 DEF Exclusive
  <2>4. /\ \A r, s \in Runners : tick'[r].pc = "saving" /\ tick'[s].pc = "saving" => r = s
        /\ \A r \in Runners : tick'[r].pc = "saving" => tick'[r].file = cursors'
    BY <1>1 DEF Exclusive, under_way
  <2> QED BY <2>1, <2>2, <2>3, <2>4 DEF Exclusive
<1> QED BY <1>1 DEF OnceInv

\* A tick that ends without saving.
LEMMA EndsOnce ==
    ASSUME CursorInv, OnceInv, NEW r \in Runners, tick' = [tick EXCEPT ![r] = NoTick],
           UNCHANGED <<cursors, overlap, held, gone>>
    PROVE  OnceInv'
<1>1. \A s \in Runners : ~under_way(s)' \/ tick'[s] = tick[s]
  BY NoTickTyped DEF CursorInv, under_way
<1> QED BY <1>1, ExclusiveKept DEF known, under_way

\* A tick that takes its cursor takes the file's, and no other tick under way has its fund.
LEMMA LoadOnce ==
    ASSUME CursorInv, OnceInv, NEW r \in Runners, NEW f \in Funds, TickLoad(r, f)
    PROVE  OnceInv'
<1>1. UNCHANGED <<cursors, held, gone>> /\ known' = known
  BY DEF TickLoad, known
<1>2. CASE tick' = [tick EXCEPT ![r] = NoTick] /\ UNCHANGED overlap
  BY <1>1, <1>2, EndsOnce
<1>3. CASE /\ tick' = [tick EXCEPT ![r] = [NoTick EXCEPT !.pc = "check", !.fund = f, !.cursor = cursors[f]]]
           /\ overlap' = (overlap \/ \E s \in Runners \ {r} : under_way(s) /\ tick[s].fund = f)
  <2>1. /\ tick'[r].pc = "check" /\ tick'[r].fund = f /\ tick'[r].cursor = cursors[f]
        /\ \A s \in Runners \ {r} : tick'[s] = tick[s]
    BY <1>3 DEF CursorInv, NoTick
  <2>2. ASSUME ~overlap' PROVE Exclusive'
    <3>0. Exclusive /\ \A s \in Runners \ {r} : under_way(s) => tick[s].fund # f
      BY <1>3, <2>2 DEF OnceInv
    <3>1. \A g \in Funds : \A b \in Nat : <<g, b>> \in known' => b <= cursors'[g]
      BY <1>1, <3>0 DEF Exclusive
    <3>2. \A s \in Runners : under_way(s)' => tick'[s].cursor = cursors'[tick'[s].fund]
      BY <1>1, <2>1, <3>0 DEF Exclusive, under_way
    <3>3. \A q, s \in Runners :
            under_way(q)' /\ under_way(s)' /\ tick'[q].fund = tick'[s].fund => q = s
      BY <2>1, <3>0 DEF Exclusive, under_way
    <3>4. /\ \A q, s \in Runners : tick'[q].pc = "saving" /\ tick'[s].pc = "saving" => q = s
          /\ \A s \in Runners : tick'[s].pc = "saving" => tick'[s].file = cursors'
      BY <1>1, <2>1, <3>0 DEF Exclusive
    <3> QED BY <3>1, <3>2, <3>3, <3>4 DEF Exclusive
  <2> QED BY <2>2 DEF OnceInv
<1> QED BY <1>2, <1>3 DEF TickLoad

\* A save that begins while another is open counts as an overlap.
LEMMA ReloadOnce ==
    ASSUME CursorInv, OnceInv, NEW r \in Runners, SaveLoad(r)
    PROVE  OnceInv'
<1>1. UNCHANGED <<cursors, held, gone>> /\ known' = known /\ tick[r].pc = "save"
  BY DEF SaveLoad, known
<1>2. CASE tick' = [tick EXCEPT ![r] = NoTick] /\ UNCHANGED overlap
  BY <1>1, <1>2, EndsOnce
<1>3. CASE UNCHANGED <<tick, overlap>>
  BY <1>1, <1>3, ExclusiveKept DEF under_way
<1>4. CASE /\ tick' = [tick EXCEPT ![r].pc = "saving", ![r].file = cursors]
           /\ overlap' = (overlap \/ \E s \in Runners \ {r} : tick[s].pc = "saving")
  <2>1. /\ tick'[r].pc = "saving" /\ tick'[r].fund = tick[r].fund /\ tick'[r].cursor = tick[r].cursor
        /\ tick'[r].file = cursors
        /\ \A s \in Runners \ {r} : tick'[s] = tick[s]
    BY <1>4 DEF CursorInv, Tick
  <2>2. ASSUME ~overlap' PROVE Exclusive'
    <3>0. Exclusive /\ \A s \in Runners : tick[s].pc # "saving"
      BY <1>1, <1>4, <2>2 DEF OnceInv
    <3>1. \A g \in Funds : \A b \in Nat : <<g, b>> \in known' => b <= cursors'[g]
      BY <1>1, <3>0 DEF Exclusive
    <3>2. \A s \in Runners : under_way(s)' => tick'[s].cursor = cursors'[tick'[s].fund]
      BY <1>1, <2>1, <3>0 DEF Exclusive, under_way
    <3>3. \A q, s \in Runners :
            under_way(q)' /\ under_way(s)' /\ tick'[q].fund = tick'[s].fund => q = s
      BY <1>1, <2>1, <3>0 DEF Exclusive, under_way
    <3>4. /\ \A q, s \in Runners : tick'[q].pc = "saving" /\ tick'[s].pc = "saving" => q = s
          /\ \A s \in Runners : tick'[s].pc = "saving" => tick'[s].file = cursors'
      BY <1>1, <2>1, <3>0
    <3> QED BY <3>1, <3>2, <3>3, <3>4 DEF Exclusive
  <2> QED BY <2>2 DEF OnceInv
<1> QED BY <1>2, <1>3, <1>4 DEF SaveLoad

\* What is found lies past the cursor, what is known behind it; the save moves the cursor
\* of this fund over what was found and leaves every other tick's cursor where it was.
LEMMA SaveOnce ==
    ASSUME CursorInv, OnceInv, NEW r \in Runners, SaveCursors(r)
    PROVE  OnceInv'
<1> DEFINE f == tick[r].fund
           m == max_block(r)
           new == {<<f, b>> : b \in found(r)}
<1>1. /\ f \in Funds /\ tick[r].cursor \in Nat /\ tick[r].top \in Nat /\ tick[r].pc = "saving"
      /\ cursors \in [Funds -> Nat]
  BY DEF CursorInv, SaveCursors, Tick, under_way
<1>2. /\ overlap' = overlap
      /\ \/ held' = [held EXCEPT ![r] = @ \cup new] /\ gone' = gone
         \/ gone' = gone \cup new /\ held' = held
      /\ cursors' = [tick[r].file EXCEPT ![f] = m]
      /\ tick' = [tick EXCEPT ![r] = NoTick]
  BY DEF SaveCursors
<1>3. known' \subseteq known \cup new
  <2>1. CASE gone' = gone \cup new /\ held' = held
    BY <1>2, <2>1 DEF known
  <2>2. CASE held' = [held EXCEPT ![r] = @ \cup new] /\ gone' = gone
    <3>1. \A s \in Runners : held'[s] \subseteq held[s] \cup new
      BY <2>2 DEF CursorInv
    <3> QED BY <1>2, <2>2, <3>1 DEF known
  <2> QED BY <1>2, <2>1, <2>2
<1>4. m \in Nat /\ m >= tick[r].cursor /\ \A b \in found(r) : b \in Nat /\ b <= m
  BY <1>1 DEF found, max_block
<1>5. /\ \A s \in Runners \ {r} : tick'[s] = tick[s]
      /\ ~under_way(r)'
  BY <1>2, NoTickTyped DEF CursorInv, under_way
<1> HIDE DEF f, m
<1>6. ASSUME ~overlap PROVE Exclusive'
  <2>0. Exclusive
    BY <1>6 DEF OnceInv
  <2>1. tick[r].file = cursors /\ tick[r].cursor = cursors[f]
    BY <1>1, <2>0 DEF Exclusive, f, under_way
  <2>2. cursors'[f] = m /\ \A g \in Funds \ {f} : cursors'[g] = cursors[g]
    BY <1>1, <1>2, <2>1
  <2>4. ASSUME NEW g \in Funds, NEW b \in Nat, <<g, b>> \in known' PROVE b <= cursors'[g]
    <3>1. CASE <<g, b>> \in new
      <4>1. g = f /\ b \in found(r)
        BY <3>1
      <4> QED BY <1>4, <2>2, <4>1
    <3>2. CASE <<g, b>> \in known
      <4>1. b <= cursors[g]
        BY <2>0, <3>2 DEF Exclusive
      <4>2. CASE g = f
        BY <1>1, <1>4, <2>1, <2>2, <4>1, <4>2
      <4>3. CASE g # f
        BY <2>2, <4>1, <4>3
      <4> QED BY <4>2, <4>3
    <3> QED BY <1>3, <2>4, <3>1, <3>2
  <2>5. ASSUME NEW s \in Runners, under_way(s)'
        PROVE  /\ s # r /\ tick'[s] = tick[s] /\ under_way(s) /\ tick[s].fund # f
               /\ tick[s].fund \in Funds /\ tick[s].pc # "saving"
    <3>1. s # r /\ tick'[s] = tick[s] /\ under_way(s)
      BY <1>5, <2>5 DEF under_way
    <3>2. tick[s].fund # f /\ tick[s].pc # "saving"
      BY <1>1, <2>0, <3>1 DEF Exclusive, f, under_way
    <3>3. tick[s].fund \in Funds
      BY <3>1 DEF CursorInv
    <3> QED BY <3>1, <3>2, <3>3
  <2>6. \A s \in Runners : under_way(s)' => tick'[s].cursor = cursors'[tick'[s].fund]
    BY <2>0, <2>2, <2>5 DEF Exclusive
  <2>7. \A q, s \in Runners :
          under_way(q)' /\ under_way(s)' /\ tick'[q].fund = tick'[s].fund => q = s
    BY <2>0, <2>5 DEF Exclusive
  <2>8. \A s \in Runners : tick'[s].pc # "saving"
    BY <2>5 DEF under_way
  <2> QED BY <2>4, <2>6, <2>7, <2>8 DEF Exclusive
<1> QED BY <1>2, <1>6 DEF OnceInv

\* Every other step.
LEMMA RestOnce ==
    ASSUME CursorInv, OnceInv,
           \/ \E r \in Runners : SessionCheck(r) \/ Deliver(r) \/ SaveFails(r) \/ TickEnters(r)
           \/ \E r \in Runners : \E f \in Funds : TickBegins(r, f)
           \/ Killed(Tools) \/ Killed({Digest})
           \/ UNCHANGED <<cursors, tick, held, gone, overlap>>
    PROVE  OnceInv'
<1>1. ASSUME NEW r \in Runners, SessionCheck(r) PROVE OnceInv'
  <2>1. UNCHANGED <<cursors, overlap, held, gone>> /\ known' = known /\ under_way(r)
    BY <1>1 DEF SessionCheck, known, under_way
  <2>2. CASE tick' = [tick EXCEPT ![r] = NoTick]
    BY <2>1, <2>2, EndsOnce
  <2>3. CASE tick' = [tick EXCEPT ![r].pc = "save", ![r].top = Len(chain[tick[r].fund])]
    <3>1. /\ tick'[r].pc = "save" /\ tick'[r].fund = tick[r].fund /\ tick'[r].cursor = tick[r].cursor
          /\ tick'[r].file = tick[r].file
          /\ \A s \in Runners \ {r} : tick'[s] = tick[s]
      BY <2>3 DEF CursorInv, Tick
    <3> QED BY <2>1, <3>1, ExclusiveKept DEF under_way
  <2> QED BY <1>1, <2>2, <2>3 DEF SessionCheck
<1>2. ASSUME NEW r \in Runners, Deliver(r) PROVE OnceInv'
  <2>1. /\ UNCHANGED <<cursors, tick, overlap>>
        /\ held' = [held EXCEPT ![r] = {}] /\ gone' = gone \cup held[r]
    BY <1>2 DEF Deliver
  <2>2. \A s \in Runners : held'[s] \subseteq held[s]
    BY <2>1 DEF CursorInv
  <2>3. known' \subseteq known
    BY <2>1, <2>2 DEF known
  <2> QED BY <2>1, <2>3, ExclusiveKept DEF under_way
<1>3. ASSUME NEW p \in SUBSET Runners, Killed(p) PROVE OnceInv'
  <2>1. /\ UNCHANGED <<cursors, overlap>>
        /\ gone' = gone \cup UNION {held[r] : r \in p}
        /\ held' = [r \in Runners |-> IF r \in p THEN {} ELSE held[r]]
        /\ tick' = [r \in Runners |-> IF r \in p THEN NoTick ELSE tick[r]]
    BY <1>3 DEF Killed
  <2>2. known' \subseteq known
    BY <2>1 DEF known
  <2>3. \A r \in Runners : ~under_way(r)' \/ tick'[r] = tick[r]
    BY <2>1, NoTickTyped DEF under_way
  <2> QED BY <2>1, <2>2, <2>3, ExclusiveKept DEF under_way
<1>4. ASSUME NEW r \in Runners, SaveFails(r) PROVE OnceInv'
  BY <1>4, EndsOnce DEF SaveFails
<1>5. ASSUME NEW r \in Runners, (\E f \in Funds : TickBegins(r, f)) \/ TickEnters(r) PROVE OnceInv'
  <2>1. UNCHANGED <<cursors, overlap>> /\ known' = known
    BY <1>5 DEF TickBegins, TickEnters, known
  <2>2. tick'[r].pc \in {"load", "loading"} /\ \A s \in Runners \ {r} : tick'[s] = tick[s]
    BY <1>5 DEF TickBegins, TickEnters, CursorInv, Tick
  <2> QED BY <2>1, <2>2, ExclusiveKept DEF under_way
<1>6. CASE UNCHANGED <<cursors, tick, held, gone, overlap>>
  BY <1>6, ExclusiveKept DEF known, under_way
<1> QED BY <1>1, <1>2, <1>3, <1>4, <1>5, <1>6 DEF Runners

LEMMA InitOnce == Init => OnceInv
<1> SUFFICES ASSUME Init PROVE OnceInv
  OBVIOUS
<1>1. \A r \in Runners : tick[r].pc = "idle"
  BY NoTickTyped DEF Init
<1>2. known = {}
  BY DEF Init, known
<1> QED BY <1>1, <1>2 DEF Init, OnceInv, Exclusive, under_way

LEMMA NextOnce == CursorInv /\ OnceInv /\ [Next]_vars => OnceInv'
<1> SUFFICES ASSUME CursorInv, OnceInv, [Next]_vars PROVE OnceInv'
  OBVIOUS
<1>1. ASSUME NEW f \in Funds, NewBlock(f) \/ Value(f) PROVE OnceInv'
  BY <1>1, RestOnce DEF NewBlock, Value, ticks
<1>2. ASSUME NEW read \in SUBSET Funds, AumTick(read) PROVE OnceInv'
  BY <1>2, RestOnce DEF AumTick, ticks
<1>3. ASSUME NEW i \in Installers, InstallList(i) \/ WriteWrappers(i) \/ InstallEnds(i)
                                  \/ \E n \in Crons : InstallJob(i, n)
      PROVE  OnceInv'
  BY <1>3, RestOnce DEF InstallList, WriteWrappers, InstallEnds, InstallJob, ticks
<1>4. CASE UNCHANGED vars
  BY <1>4, RestOnce DEF vars
<1> QED BY <1>1, <1>2, <1>3, <1>4, LoadOnce, ReloadOnce, SaveOnce, RestOnce DEF Next

\* However many funds, tools and blocks, and whoever the lock lets in, keeps out or turns
\* away: an event is found a second time only after two ticks of its fund, or two saves,
\* overlapped.
THEOREM NoRepeatWithoutOverlap == Spec => []RepeatsNeedOverlap
<1>1. CursorInv /\ OnceInv => RepeatsNeedOverlap
  <2> SUFFICES ASSUME CursorInv, OnceInv, repeats, ~overlap PROVE FALSE
    BY DEF RepeatsNeedOverlap
  <2>1. PICK r \in Runners : tick[r].pc = "saving" /\ \E b \in found(r) : <<tick[r].fund, b>> \in known
    BY DEF repeats
  <2>2. PICK b \in found(r) : <<tick[r].fund, b>> \in known
    BY <2>1
  <2>3. /\ tick[r].fund \in Funds /\ tick[r].cursor \in Nat /\ tick[r].top \in Nat
        /\ tick[r].cursor = cursors[tick[r].fund]
    BY <2>1 DEF CursorInv, OnceInv, Exclusive, under_way, Tick
  <2>4. b \in Nat /\ b > tick[r].cursor
    BY <2>2, <2>3 DEF found
  <2>5. b <= cursors[tick[r].fund]
    BY <2>2, <2>3, <2>4 DEF OnceInv, Exclusive
  <2> QED BY <2>3, <2>4, <2>5
<1> QED BY <1>1, InitCursors, NextCursors, InitOnce, NextOnce, PTL DEF Spec

-----------------------------------------------------------------------------
(* install-cron.                                                           *)

Install == [pc : {"idle", "write", "jobs"}, existing : [Crons -> Nat], todo : SUBSET Crons]

\* While no two of them overlapped, the one that runs still sees the truth about every
\* job it has not come to yet.
InstallInv ==
    /\ jobs \in [Crons -> Nat] /\ install \in [Installers -> Install]
    /\ raced \in BOOLEAN
    /\ ~raced =>
         /\ \A n \in Crons : jobs[n] <= 1
         /\ \A i \in Installers : install[i].pc # "idle" =>
               /\ \A j \in Installers : install[j].pc # "idle" => i = j
               /\ \A n \in install[i].todo : install[i].existing[n] = jobs[n]

LEMMA IdleTyped == Idle \in Install /\ Idle.pc = "idle"
  BY DEF Idle, Install

LEMMA InitInstall == Init => InstallInv
<1> SUFFICES ASSUME Init PROVE InstallInv
  OBVIOUS
<1>1. install \in [Installers -> Install] /\ \A i \in Installers : install[i].pc = "idle"
  BY IdleTyped DEF Init
<1>2. jobs \in [Crons -> Nat] /\ \A n \in Crons : jobs[n] <= 1
  BY DEF Init
<1> QED BY <1>1, <1>2 DEF Init, InstallInv

LEMMA NextInstall == InstallInv /\ [Next]_vars => InstallInv'
<1> SUFFICES ASSUME InstallInv, [Next]_vars PROVE InstallInv'
  OBVIOUS
<1>1. ASSUME UNCHANGED installs PROVE InstallInv'
  BY <1>1 DEF InstallInv, installs
<1>6. ASSUME NEW i \in Installers, install' = [install EXCEPT ![i] = Idle], UNCHANGED jobs,
             raced' \in BOOLEAN, raced => raced'
      PROVE  InstallInv'
  <2>1. install' \in [Installers -> Install] /\ install'[i].pc = "idle"
        /\ \A j \in Installers \ {i} : install'[j] = install[j]
    BY <1>6, IdleTyped DEF InstallInv
  <2> QED BY <1>6, <2>1 DEF InstallInv
<1>2. ASSUME NEW i \in Installers, InstallList(i) PROVE InstallInv'
  <2>2. CASE install' = [install EXCEPT ![i] = list_failed(i)]
    BY <1>2, <1>6, <2>2 DEF InstallList, InstallInv, list_failed
  <2>3. CASE install' = [install EXCEPT ![i] = [pc |-> "write", existing |-> jobs, todo |-> Crons]]
    <3>1. /\ install' \in [Installers -> Install] /\ install'[i].existing = jobs
          /\ \A j \in Installers \ {i} : install'[j] = install[j]
      BY <2>3 DEF InstallInv, Install
    <3>2. ~raced' => ~raced /\ \A j \in Installers \ {i} : install[j].pc = "idle"
      BY <1>2 DEF InstallList
    <3>3. UNCHANGED jobs /\ raced' \in BOOLEAN
      BY <1>2 DEF InstallList, InstallInv
    <3>4. ~raced' => \A n \in Crons : jobs[n] <= 1
      BY <3>2 DEF InstallInv
    <3>5. jobs \in [Crons -> Nat] /\ install'[i].todo \subseteq Crons
      BY <2>3, <3>1 DEF InstallInv, Install
    <3> QED BY <3>1, <3>2, <3>3, <3>4, <3>5 DEF InstallInv
  <2> QED BY <1>2, <2>2, <2>3 DEF InstallList
<1>3. ASSUME NEW i \in Installers, WriteWrappers(i) PROVE InstallInv'
  <2>1. CASE install' = [install EXCEPT ![i] = Idle]
    BY <1>3, <1>6, <2>1 DEF WriteWrappers, InstallInv
  <2>2. CASE \E skip \in SUBSET Crons :
                install' = [install EXCEPT ![i].pc = "jobs", ![i].todo = @ \ skip]
    <3>1. PICK skip \in SUBSET Crons :
                install' = [install EXCEPT ![i].pc = "jobs", ![i].todo = @ \ skip]
      BY <2>2
    <3>2. /\ install' \in [Installers -> Install] /\ install'[i].existing = install[i].existing
          /\ install'[i].todo \subseteq install[i].todo
          /\ \A j \in Installers \ {i} : install'[j] = install[j]
      <4> DEFINE old == install[i]
                 new == [old EXCEPT !.pc = "jobs", !.todo = @ \ skip]
      <4>1. old \in Install /\ install' = [install EXCEPT ![i] = new]
        BY <3>1 DEF InstallInv
      <4>2. old = install[i]
        OBVIOUS
      <4> HIDE DEF old
      <4>3. new \in Install /\ new.existing = old.existing /\ new.todo \subseteq old.todo
        BY <4>1 DEF Install
      <4> HIDE DEF new
      <4> QED BY <4>1, <4>2, <4>3 DEF InstallInv
    <3>3. install[i].pc # "idle" /\ UNCHANGED <<jobs, raced>>
      BY <1>3 DEF WriteWrappers
    <3> QED BY <3>2, <3>3 DEF InstallInv
  <2> QED BY <1>3, <2>1, <2>2 DEF WriteWrappers
<1>4. ASSUME NEW i \in Installers, InstallEnds(i) PROVE InstallInv'
  BY <1>4, <1>6 DEF InstallEnds, InstallInv
<1>5. ASSUME NEW i \in Installers, NEW n \in Crons, InstallJob(i, n) PROVE InstallInv'
  <2>1. /\ install[i].pc = "jobs" /\ n \in install[i].todo /\ UNCHANGED raced
        /\ install' \in [Installers -> Install] /\ install'[i].existing = install[i].existing
        /\ install'[i].todo = install[i].todo \ {n} /\ install'[i].pc = "jobs"
        /\ \A j \in Installers \ {i} : install'[j] = install[j]
    BY <1>5 DEF InstallJob, InstallInv, Install
  <2>2. CASE UNCHANGED jobs
    BY <2>1, <2>2 DEF InstallInv
  <2>3. CASE install[i].existing[n] = 0 /\ jobs' = [jobs EXCEPT ![n] = @ + 1]
    <3>1. /\ jobs' \in [Crons -> Nat] /\ jobs'[n] = jobs[n] + 1
          /\ \A m \in Crons \ {n} : jobs'[m] = jobs[m]
      BY <2>3 DEF InstallInv
    <3>2. ~raced => /\ jobs[n] = 0 /\ \A m \in Crons : jobs'[m] <= 1
                    /\ \A j \in Installers : install'[j].pc # "idle" => j = i
                    /\ \A m \in install'[i].todo : install'[i].existing[m] = jobs'[m]
      <4>1. ~raced => jobs[n] = 0 /\ \A j \in Installers : install[j].pc # "idle" => j = i
        BY <2>1, <2>3 DEF InstallInv
      <4>2. install[i].todo \subseteq Crons
        BY DEF InstallInv, Install
      <4> QED BY <2>1, <3>1, <4>1, <4>2 DEF InstallInv
    <3> QED BY <2>1, <3>1, <3>2 DEF InstallInv
  <2> QED BY <1>5, <2>2, <2>3 DEF InstallJob
<1> QED BY <1>1, <1>2, <1>3, <1>4, <1>5 DEF Next, vars, installs, NewBlock, Value, TickBegins, TickEnters, TickLoad, SessionCheck,
            SaveLoad, SaveCursors, SaveFails, Deliver, Killed, AumTick

\* install-cron, repeated after any failure, registers no job twice unless two of them
\* run at once; for any table of jobs.
THEOREM NoJobTwice == Spec => []OneJobEach
<1>1. InstallInv => OneJobEach
  BY DEF InstallInv, OneJobEach
<1> QED BY <1>1, InitInstall, NextInstall, PTL DEF Spec

-----------------------------------------------------------------------------
(* The AUM watchdog.                                                       *)

\* The total in the file is the one the last whole reading saw.
AumInv == alarm.turn \in {0, 1} /\ (alarm.whole => aum = alarm.was)

LEMMA InitAum == Init => AumInv
  BY DEF Init, AumInv, NoAlarm

\* Only a tick touches the watchdog's file and what it printed.
LEMMA TicksOnly ==
    ASSUME [Next]_vars
    PROVE  UNCHANGED <<aum, alarm>> \/ \E read \in SUBSET Funds : AumTick(read)
<1>1. ASSUME NEW f \in Funds, NewBlock(f) \/ Value(f) PROVE UNCHANGED <<aum, alarm>>
  BY <1>1 DEF NewBlock, Value, watch
<1>2. ASSUME NEW r \in Runners,
             \/ \E f \in Funds : TickBegins(r, f) \/ TickLoad(r, f)
             \/ TickEnters(r) \/ SessionCheck(r) \/ SaveLoad(r) \/ SaveCursors(r)
             \/ SaveFails(r) \/ Deliver(r)
      PROVE  UNCHANGED <<aum, alarm>>
  BY <1>2 DEF TickBegins, TickLoad, TickEnters, SessionCheck, SaveLoad, SaveCursors, SaveFails,
              Deliver, watch
<1>3. CASE Killed(Tools) \/ Killed({Digest})
  BY <1>3 DEF Killed, watch
<1>4. ASSUME NEW i \in Installers, \/ InstallList(i) \/ WriteWrappers(i) \/ InstallEnds(i)
                                  \/ \E n \in Crons : InstallJob(i, n)
      PROVE  UNCHANGED <<aum, alarm>>
  BY <1>4 DEF InstallList, WriteWrappers, InstallEnds, InstallJob, watch
<1>5. CASE UNCHANGED vars
  BY <1>5 DEF vars
<1> QED BY <1>1, <1>2, <1>3, <1>4, <1>5 DEF Next

LEMMA NextAum == AumInv /\ [Next]_vars => AumInv'
<1> SUFFICES ASSUME AumInv, [Next]_vars PROVE AumInv'
  OBVIOUS
<1>1. ASSUME NEW read \in SUBSET Funds, AumTick(read) PROVE AumInv'
  <2>1. /\ alarm'.turn = 1 - alarm.turn /\ alarm'.whole = (read = Funds)
        /\ alarm'.was = total(Funds) /\ aum' = total(read)
    BY <1>1 DEF AumTick, kept
  <2>2. alarm'.turn \in {0, 1}
    BY <2>1 DEF AumInv
  <2>3. alarm'.whole => aum' = alarm'.was
    BY <2>1
  <2> QED BY <2>2, <2>3 DEF AumInv
<1>2. ASSUME UNCHANGED <<aum, alarm>> PROVE AumInv'
  BY <1>2 DEF AumInv
<1> QED BY <1>1, <1>2, TicksOnly

\* Every tick of the watchdog is a step of `alarm`, also one that prints what the tick
\* before it printed: AlarmIsNew leaves none out.
THEOREM NoTickUnseen == Spec => [][\A read \in SUBSET Funds : AumTick(read) => alarm' # alarm]_vars
<1>1. AumInv /\ [Next]_vars => [\A read \in SUBSET Funds : AumTick(read) => alarm' # alarm]_vars
  BY DEF AumInv, AumTick
<1> QED BY <1>1, InitAum, NextAum, PTL DEF Spec

\* Of two readings of every fund in a row, the second alerts exactly when the total
\* moved by the threshold since the first; for any funds, values and threshold.
THEOREM AlarmsAreNew == Spec => AlarmIsNew
<1>1. AumInv /\ [Next]_vars =>
        [alarm.whole /\ alarm'.whole => (alarm'.rang <=> moved(alarm.was, total(Funds)))]_alarm
  <2> SUFFICES ASSUME AumInv, [Next]_vars, ~UNCHANGED alarm, alarm.whole, alarm'.whole
               PROVE  alarm'.rang <=> moved(alarm.was, total(Funds))
    OBVIOUS
  <2>1. PICK read \in SUBSET Funds : AumTick(read)
    BY TicksOnly
  <2>2. read = Funds /\ alarm'.rang = moved(aum, total(read))
    BY <2>1 DEF AumTick
  <2> QED BY <2>2 DEF AumInv
<1> QED BY <1>1, InitAum, NextAum, PTL DEF Spec, AlarmIsNew
=============================================================================
