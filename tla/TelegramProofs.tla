--------------------------- MODULE TelegramProofs ---------------------------
(***************************************************************************)
(* Proofs about the Telegram side of a fund.                               *)
(*                                                                         *)
(* The proposal card (ProposalCards), for any number of observers, writes, *)
(* minutes and faults: one card, which shows the record when all is quiet. *)
(*                                                                         *)
(* The pitch flow (PitchFlow), for any number of people, messages and      *)
(* pitches: the index, one draft a pitch, and fires that stand.            *)
(***************************************************************************)
EXTENDS ProposalCards, PitchFlow, FiniteSetTheorems, WellFoundedInduction, TLAPS

-----------------------------------------------------------------------------
(* The proposal card.                                                      *)

Posting == {"postRead", "postRender", "postSent", "posted", "store"}

Unstored == {"posted", "store"}

\* What a coroutine carries from one await to the next: it names messages that exist,
\* and nothing newer than the record.
Carries(x, posts, ver) ==
    /\ x \in Task
    /\ x.ref <= posts /\ x.view.card <= posts
    /\ x.view.ver <= ver /\ x.text.ver <= ver
    /\ x.pc \in {"render", "sent", "toggled"} \cup Unstored => x.ref # 0
    /\ x.res \in {"ok", "same", "gone"} => x.ref # 0
    /\ x.pc # "answered" => x.res = "none"

StateInv ==
    /\ TypeOK /\ refs <= Len(chat) /\ stored <= Len(chat)
    /\ \A m \in DOMAIN chat : chat[m].ver <= rec.ver
    /\ \A t \in Coroutines : Carries(task[t], Len(chat), rec.ver)
    /\ task[Tick].pc \notin Posting \cup {"toggled"}
    /\ task[Tap].pc \notin Posting \cup {"read"}

\* The observer in the lock is the only one that moves, and it posts only while no
\* card is on record.
LockInv ==
    \A s \in Syncs :
        /\ task[s].pc # "idle" <=> lock = s
        /\ task[s].pc # "toggled"
        /\ task[s].pc \in Posting => stored = 0
        /\ task[s].pc = "read" => stored # 0

one(P) == IF P THEN 1 ELSE 0

unstored == \E s \in Syncs : task[s].pc \in Unstored

\* Every message is on record, about to be, or lost.
CountInv == Len(chat) = lost + one(stored # 0) + one(unstored)

\* A text that is known to have been shown: the fingerprints and those about to be.
known(x) == x.pc \in Unstored \/ (x.pc = "answered" /\ x.res \in {"ok", "same"})

ShownInv ==
    ~regressed => /\ FingerprintNotAhead
                  /\ \A t \in Coroutines :
                        known(task[t]) => task[t].text.ver <= chat[task[t].ref].ver

\* A coroutine that will show the record's latest version unless there is a later one.
brings(x, ver) ==
    \/ x.pc \in {"read", "postRead"}
    \/ x.pc \in {"render", "postRender"} /\ x.view.ver = ver
    \/ x.pc \in {"sent", "postSent"} /\ x.text.ver = ver

shows == chat # <<>> /\ chat[1].ver = rec.ver

covered == events > 0 \/ shows \/ \E s \in Syncs : brings(task[s], rec.ver)

\* Until a call fails, the latest version is shown or on its way.
CoverInv ==
    faults = 0 /\ ~regressed =>
        /\ connected /\ gone = {} /\ lost = 0
        /\ (chat # <<>> \/ \E s \in Syncs : task[s].pc \in Posting) => covered

CardInv == StateInv /\ LockInv /\ CountInv /\ ShownInv /\ CoverInv

\* Fingerprints of messages that exist, none ahead of its message.
Fingerprints(l, texts, ahead) ==
    /\ DOMAIN l \subseteq DOMAIN texts /\ \A m \in DOMAIN l : l[m] \in Text
    /\ ~ahead => \A m \in DOMAIN l : l[m].ver <= texts[m].ver

LEMMA IdleCarries ==
    ASSUME NEW n \in Nat, NEW v \in Nat
    PROVE  Carries(Idle, n, v) /\ Idle.pc = "idle" /\ ~known(Idle) /\ ~brings(Idle, v)
<1>1. NoView \in View /\ NoText \in Text
  BY CardAssumption DEF NoView, NoText, View, Text, Statuses
<1>2. Idle \in Task
  BY <1>1 DEF Idle, Task
<1>3. Idle.ref = 0 /\ Idle.view.card = 0 /\ Idle.view.ver = 0 /\ Idle.text.ver = 0
  BY DEF Idle, NoView, NoText
<1>4. Idle.pc = "idle" /\ Idle.res = "none"
  BY DEF Idle
<1> QED BY <1>2, <1>3, <1>4 DEF Carries, known, brings, Unstored

\* The step of one coroutine that stays in the lock, if it is an observer, and touches
\* neither the record nor the chat.
LEMMA TaskMoves ==
    ASSUME CardInv, NEW t \in Coroutines, NEW r, task' = [task EXCEPT ![t] = r],
           Carries(r, Len(chat), rec.ver),
           UNCHANGED <<rec, stored, now, connected, events, lock, chat, gone, lost, regressed>>,
           faults' \in Nat, faults' = 0 => faults = 0,
           refs' \in 0..Len(chat), job' \in BOOLEAN, Fingerprints(last', chat, regressed),
           t = Tick => r.pc \notin Posting \cup {"toggled"},
           t = Tap => r.pc \notin Posting \cup {"read"},
           t \in Syncs => /\ task[t].pc # "idle" /\ r.pc \notin {"idle", "toggled"}
                          /\ r.pc \in Posting => task[t].pc \in Posting
                          /\ r.pc \in Unstored <=> task[t].pc \in Unstored
                          /\ r.pc = "read" => task[t].pc = "read",
           ~regressed /\ known(r) => r.text.ver <= chat[r.ref].ver,
           t \in Syncs /\ faults' = 0 /\ ~regressed /\ brings(task[t], rec.ver) =>
               brings(r, rec.ver) \/ shows
    PROVE  CardInv'
<1>1. /\ task \in [Coroutines -> Task] /\ chat \in Seq(Text) /\ Len(chat) \in Nat
      /\ Syncs \subseteq Coroutines /\ Tick \in Coroutines /\ Tap \in Coroutines
  BY DEF CardInv, StateInv, TypeOK, Coroutines
<1>2. r \in Task
  BY DEF Carries
<1>3. task' \in [Coroutines -> Task] /\ task'[t] = r /\ \A u \in Coroutines : u # t => task'[u] = task[u]
  BY <1>1, <1>2
<1>4. UNCHANGED <<shows, Len(chat), DOMAIN chat, rec.ver>>
  BY DEF shows
<1>5. StateInv'
  <2>1. TypeOK'
    BY <1>1, <1>3 DEF CardInv, StateInv, TypeOK, Fingerprints
  <2>2. (refs <= Len(chat) /\ stored <= Len(chat) /\ \A m \in DOMAIN chat : chat[m].ver <= rec.ver)'
    BY <1>1 DEF CardInv, StateInv
  <2>3. \A u \in Coroutines : Carries(task'[u], Len(chat'), rec'.ver)
    BY <1>3 DEF CardInv, StateInv
  <2>4. /\ task'[Tick].pc \notin Posting \cup {"toggled"}
        /\ task'[Tap].pc \notin Posting \cup {"read"}
    BY <1>1, <1>3 DEF CardInv, StateInv
  <2> QED BY <2>1, <2>2, <2>3, <2>4 DEF StateInv
<1>6. LockInv'
  BY <1>1, <1>3 DEF CardInv, LockInv
<1>7. unstored' <=> unstored
  BY <1>1, <1>3 DEF unstored
<1>8. CountInv'
  BY <1>7 DEF CardInv, CountInv, one
<1>9. ShownInv'
  <2>1. ~regressed => FingerprintNotAhead'
    BY DEF Fingerprints, FingerprintNotAhead
  <2>2. ~regressed => \A u \in Coroutines : known(task'[u]) => task'[u].text.ver <= chat'[task'[u].ref].ver
    BY <1>3 DEF CardInv, ShownInv
  <2> QED BY <2>1, <2>2 DEF ShownInv
<1>10. CoverInv'
  <2> SUFFICES ASSUME faults' = 0, faults = 0, ~regressed
               PROVE  /\ connected' /\ gone' = {} /\ lost' = 0
                      /\ (chat' # <<>> \/ \E s \in Syncs : task'[s].pc \in Posting) => covered'
    BY DEF CoverInv
  <2>1. /\ connected /\ gone = {} /\ lost = 0
        /\ (chat # <<>> \/ \E s \in Syncs : task[s].pc \in Posting) => covered
    BY DEF CardInv, CoverInv
  <2>2. (\E s \in Syncs : task'[s].pc \in Posting) => \E s \in Syncs : task[s].pc \in Posting
    BY <1>1, <1>3
  <2>3. covered => covered'
    BY <1>1, <1>3, <1>4 DEF covered
  <2> QED BY <2>1, <2>2, <2>3
<1> QED BY <1>5, <1>6, <1>8, <1>9, <1>10 DEF CardInv
\* What the invariant says about one coroutine.
LEMMA TaskFacts ==
    ASSUME CardInv, NEW t \in Coroutines
    PROVE  /\ task[t] \in Task /\ Carries(task[t], Len(chat), rec.ver)
           /\ task[t].view \in View /\ task[t].text \in Text /\ task[t].ref \in 0..Len(chat)
           /\ task[t].view.ver \in 0..rec.ver /\ task[t].view.card \in 0..Len(chat)
           /\ task[t].text.ver \in 0..rec.ver
           /\ t \in Syncs => (task[t].pc # "idle" <=> lock = t) /\ task[t].pc # "toggled"
           /\ t = Tick => task[t].pc \notin Posting \cup {"toggled"}
           /\ t = Tap => task[t].pc \notin Posting \cup {"read"}
<1>1. task[t] \in Task /\ Carries(task[t], Len(chat), rec.ver) /\ rec.ver \in Nat /\ Len(chat) \in Nat
  BY CardAssumption DEF CardInv, StateInv, TypeOK
<1>2. task[t].view \in View /\ task[t].text \in Text /\ task[t].ref \in Nat
  BY <1>1 DEF Task
<1>3. task[t].view.ver \in Nat /\ task[t].view.card \in Nat /\ task[t].text.ver \in Nat
  BY <1>2, CardAssumption DEF View, Text
<1>4. task[t].ref \in 0..Len(chat) /\ task[t].view.card \in 0..Len(chat)
  BY <1>1, <1>2, <1>3 DEF Carries
<1>5. task[t].view.ver \in 0..rec.ver /\ task[t].text.ver \in 0..rec.ver
  BY <1>1, <1>3 DEF Carries
<1>6. t \in Syncs => (task[t].pc # "idle" <=> lock = t) /\ task[t].pc # "toggled"
  BY DEF CardInv, LockInv
<1>7. /\ t = Tick => task[t].pc \notin Posting \cup {"toggled"}
      /\ t = Tap => task[t].pc \notin Posting \cup {"read"}
  BY DEF CardInv, StateInv
<1> QED BY <1>1, <1>2, <1>4, <1>5, <1>6, <1>7

LEMMA Basics ==
    ASSUME CardInv
    PROVE  /\ chat \in Seq(Text) /\ Len(chat) \in Nat /\ DOMAIN chat = 1..Len(chat)
           /\ rec.ver \in 0..MaxVer /\ rec.status \in Statuses /\ stored \in 0..Len(chat)
           /\ refs \in 0..Len(chat) /\ job \in BOOLEAN /\ regressed \in BOOLEAN /\ now \in 0..Ends
           /\ lost \in Nat /\ faults \in Nat /\ events \in Nat /\ gone \subseteq DOMAIN chat
           /\ \A m \in DOMAIN chat : chat[m].ver \in 0..rec.ver
           /\ Fingerprints(last, chat, regressed)
           /\ current \in View /\ current.ver = rec.ver /\ current.card = stored /\ current.status = rec.status
           /\ Tick \in Coroutines /\ Tap \in Coroutines /\ Syncs \subseteq Coroutines
           /\ task \in [Coroutines -> Task]
<1>1. /\ chat \in Seq(Text) /\ Len(chat) \in Nat /\ DOMAIN chat = 1..Len(chat)
      /\ rec.ver \in 0..MaxVer /\ rec.status \in Statuses /\ stored \in 0..Len(chat)
      /\ refs \in 0..Len(chat) /\ job \in BOOLEAN /\ regressed \in BOOLEAN /\ now \in 0..Ends
      /\ lost \in Nat /\ faults \in Nat /\ events \in Nat /\ gone \subseteq DOMAIN chat
      /\ task \in [Coroutines -> Task]
  BY CardAssumption DEF CardInv, StateInv, TypeOK
<1>2. \A m \in DOMAIN chat : chat[m].ver \in Nat /\ chat[m].ver <= rec.ver
  <2>1. \A x \in Text : x.ver \in Nat
    BY CardAssumption DEF Text
  <2>2. \A m \in DOMAIN chat : chat[m] \in Text
    BY <1>1
  <2>3. \A m \in DOMAIN chat : chat[m].ver <= rec.ver
    BY DEF CardInv, StateInv
  <2> QED BY <2>1, <2>2, <2>3
<1>3. Fingerprints(last, chat, regressed)
  BY DEF CardInv, StateInv, TypeOK, ShownInv, FingerprintNotAhead, Fingerprints
<1>4. current \in View /\ current.ver = rec.ver /\ current.card = stored /\ current.status = rec.status
  BY <1>1 DEF current, View
<1>5. \A m \in DOMAIN chat : chat[m].ver \in 0..rec.ver
  BY <1>1, <1>2
<1> QED BY <1>1, <1>3, <1>4, <1>5 DEF Coroutines

\* What a card says of a view.
LEMMA Rendered ==
    ASSUME NEW v \in View, now \in 0..Ends
    PROVE  render(v) \in Text /\ render(v).ver = v.ver
  BY CardAssumption DEF render, View, Text

\* refresh reads the record: what it brings is the latest version.
LEMMA ReadKeeps ==
    ASSUME CardInv, NEW t \in Coroutines, ReadView(t)
    PROVE  CardInv'
<1> DEFINE r == [task[t] EXCEPT !.pc = IF refs' = 0 THEN "answered" ELSE "render",
                                !.view = current, !.ref = refs']
<1>1. /\ task' = [task EXCEPT ![t] = r] /\ task[t].pc = "read" /\ refs' = ref_for(current)
      /\ UNCHANGED <<rec, stored, now, connected, events, lock, chat, gone, faults, lost, regressed>>
      /\ UNCHANGED <<last, job>>
  BY DEF ReadView, moveto, store
<1>2. refs' \in 0..Len(chat) /\ (stored # 0 => refs' # 0)
  BY <1>1, Basics DEF ref_for
<1>3. /\ r \in Task /\ r.view = current /\ r.ref = refs' /\ r.res = task[t].res /\ r.text = task[t].text
      /\ r.pc = IF refs' = 0 THEN "answered" ELSE "render"
  <2> DEFINE p == IF refs' = 0 THEN "answered" ELSE "render"
             x == task[t]
             m == refs'
             v == current
  <2>1. x \in Task /\ v \in View /\ m \in Nat /\ p \in {"answered", "render"}
    BY <1>2, TaskFacts, Basics
  <2> HIDE DEF p, x, m, v
  <2>2. LET y == [x EXCEPT !.pc = p, !.view = v, !.ref = m] IN
        y \in Task /\ y.pc = p /\ y.view = v /\ y.ref = m /\ y.text = x.text /\ y.res = x.res
    BY <2>1 DEF Task
  <2> QED BY <2>2 DEF p, x, m, v
<1>4. task[t].res = "none"
  BY <1>1, TaskFacts DEF Carries
<1> HIDE DEF r
<1>5. Carries(r, Len(chat), rec.ver)
  BY <1>2, <1>3, <1>4, Basics, TaskFacts DEF Carries, Unstored
<1>6. t \in Syncs => refs' # 0
  BY <1>1, <1>2 DEF CardInv, LockInv
<1>7. t \in Syncs => brings(r, rec.ver)
  BY <1>3, <1>6, Basics DEF brings
<1>8. ~known(r)
  BY <1>3, <1>4 DEF known, Unstored
<1> QED BY <1>1, <1>2, <1>3, <1>5, <1>7, <1>8, Basics, TaskMoves DEF Posting, Unstored

\* edit: a request that is not sent was not needed.
LEMMA EditKeeps ==
    ASSUME CardInv, NEW t \in Coroutines, Edit(t)
    PROVE  CardInv'
<1> DEFINE text == render(task[t].view)
           m == task[t].ref
           skip == m \in DOMAIN last /\ last[m] = text
           r == [task[t] EXCEPT !.text = text, !.pc = IF skip THEN "answered" ELSE "sent"]
<1>1. /\ task' = [task EXCEPT ![t] = r] /\ task[t].pc = "render"
      /\ UNCHANGED <<rec, stored, now, connected, events, lock, chat, gone, faults, lost, regressed>>
      /\ UNCHANGED <<refs, last, job>>
  BY DEF Edit, moveto, store
<1>2. text \in Text /\ text.ver = task[t].view.ver
  BY Rendered, TaskFacts, Basics
<1> HIDE DEF text
<1>3. /\ r \in Task /\ r.view = task[t].view /\ r.ref = m /\ r.res = task[t].res /\ r.text = text
      /\ r.pc = IF skip THEN "answered" ELSE "sent"
  BY <1>2, TaskFacts DEF Task
<1>4. task[t].res = "none" /\ m # 0
  BY <1>1, TaskFacts DEF Carries, Unstored
<1> HIDE DEF r
<1>5. Carries(r, Len(chat), rec.ver)
  BY <1>2, <1>3, <1>4, Basics, TaskFacts DEF Carries
<1>6. ~known(r)
  BY <1>3, <1>4 DEF known, Unstored
<1>7. ASSUME faults = 0, ~regressed, brings(task[t], rec.ver)
      PROVE  brings(r, rec.ver) \/ shows
  <2>1. text.ver = rec.ver
    BY <1>1, <1>2, <1>7 DEF brings
  <2>2. CASE ~skip
    BY <1>3, <2>1, <2>2 DEF brings
  <2>3. CASE skip
    <3>1. m \in DOMAIN chat /\ last[m].ver <= chat[m].ver /\ chat[m].ver \in 0..rec.ver
      BY <1>7, <2>3, Basics DEF Fingerprints
    <3>2. chat[m].ver = rec.ver
      BY <2>1, <2>3, <3>1, Basics
    <3>3. lost = 0 /\ Len(chat) = lost + one(stored # 0) + one(unstored)
      BY <1>7 DEF CardInv, CoverInv, CountInv
    <3>4. ~(stored # 0 /\ unstored)
      BY DEF CardInv, LockInv, unstored, Unstored, Posting
    <3>5. Len(chat) <= 1
      BY <3>3, <3>4 DEF one
    <3>6. m = 1 /\ chat # <<>>
      BY <3>1, <3>5, Basics
    <3> QED BY <3>2, <3>6 DEF shows
  <2> QED BY <2>2, <2>3
<1> QED BY <1>1, <1>3, <1>4, <1>5, <1>6, <1>7, Basics, TaskMoves DEF Posting, Unstored
\* The message a text is remembered for shows it.
LEMMA Remembered ==
    ASSUME Fingerprints(last, chat, regressed), NEW m \in DOMAIN chat, NEW text \in Text,
           ~regressed => text.ver <= chat[m].ver, remember(m, text)
    PROVE  Fingerprints(last', chat, regressed)
  BY DEF Fingerprints, remember

LEMMA Forgotten ==
    ASSUME Fingerprints(last, chat, regressed), NEW m, forget(m)
    PROVE  Fingerprints(last', chat, regressed)
  BY DEF Fingerprints, forget

LEMMA RememberKeeps ==
    ASSUME CardInv, NEW t \in Coroutines, task[t].pc = "answered", Remember(t)
    PROVE  Fingerprints(last', chat, regressed)
<1>1. Fingerprints(last, chat, regressed) /\ DOMAIN chat = 1..Len(chat) /\ Len(chat) \in Nat
  BY Basics
<1>2. CASE task[t].res = "gone"
  <2>1. forget(task[t].ref)
    BY <1>2 DEF Remember
  <2> QED BY <1>1, <2>1, Forgotten
<1>3. CASE task[t].res \in {"ok", "same"}
  <2>1. remember(task[t].ref, task[t].text)
    BY <1>3 DEF Remember
  <2>2. task[t].ref \in DOMAIN chat /\ task[t].text \in Text
    BY <1>1, <1>3, TaskFacts DEF Carries
  <2>3. ~regressed => task[t].text.ver <= chat[task[t].ref].ver
    BY <1>3 DEF CardInv, ShownInv, known
  <2> QED BY <1>1, <2>1, <2>2, <2>3, Remembered
<1>4. CASE task[t].res \notin {"ok", "same", "gone"}
  <2>1. last' = last
    BY <1>4 DEF Remember
  <2> QED BY <1>1, <2>1
<1> QED BY <1>2, <1>3, <1>4

LEMMA JobFiresKeeps ==
    ASSUME CardInv, JobFires
    PROVE  CardInv'
<1> DEFINE r == [Idle EXCEPT !.pc = "read"]
<1>1. /\ task' = [task EXCEPT ![Tick] = r]
      /\ UNCHANGED <<rec, stored, now, connected, events, lock, chat, gone, faults, lost, regressed>>
      /\ UNCHANGED <<refs, last, job>>
  BY DEF JobFires, moveto, store
<1>2. Carries(r, Len(chat), rec.ver) /\ ~known(r) /\ r.pc = "read"
  <2>1. Carries(Idle, Len(chat), rec.ver)
    BY IdleCarries, Basics
  <2>2. /\ r \in Task /\ r.pc = "read" /\ r.view = Idle.view /\ r.ref = Idle.ref
        /\ r.text = Idle.text /\ r.res = Idle.res
    BY <2>1 DEF Carries, Task
  <2>3. Idle.res = "none"
    BY DEF Idle
  <2> HIDE DEF r
  <2> QED BY <2>1, <2>2, <2>3 DEF Carries, known, Unstored
<1>3. Tick \notin Syncs /\ Tick # Tap
  BY CardAssumption
<1> HIDE DEF r
<1> QED BY <1>1, <1>2, <1>3, Basics, TaskMoves DEF Posting

LEMMA BackRefreshKeeps ==
    ASSUME CardInv, BackRefresh
    PROVE  CardInv'
<1> DEFINE x == task[Tap]
           m == refs'
           r == [x EXCEPT !.pc = "render", !.ref = m]
<1>1. /\ task' = [task EXCEPT ![Tap] = r] /\ x.pc = "toggled"
      /\ m = IF refs # 0 THEN refs ELSE x.ref
      /\ UNCHANGED <<rec, stored, now, connected, events, lock, chat, gone, faults, lost, regressed>>
      /\ UNCHANGED <<last, job>>
  BY DEF BackRefresh, moveto, store
<1>2. Carries(x, Len(chat), rec.ver) /\ x \in Task /\ x.ref \in 0..Len(chat)
  BY TaskFacts, Basics
<1>3. m \in 0..Len(chat) /\ m # 0 /\ m \in Nat
  BY <1>1, <1>2, Basics DEF Carries
<1> HIDE DEF x, m
<1>4. r \in Task /\ r.pc = "render" /\ r.ref = m /\ r.view = x.view /\ r.text = x.text /\ r.res = x.res
  BY <1>2, <1>3 DEF Task
<1> HIDE DEF r
<1>5. Carries(r, Len(chat), rec.ver) /\ ~known(r)
  BY <1>1, <1>2, <1>3, <1>4, Basics DEF Carries, known, Unstored
<1>6. Tap \notin Syncs /\ Tap # Tick
  BY CardAssumption
<1>7. refs' \in 0..Len(chat)
  BY <1>3 DEF m
<1> QED BY <1>1, <1>4, <1>5, <1>6, <1>7, Basics, TaskMoves DEF Posting

LEMMA EndKeeps ==
    ASSUME CardInv, TickEnds \/ BackEnds
    PROVE  CardInv'
<1>1. PICK t \in {Tick, Tap} :
        /\ task' = [task EXCEPT ![t] = Idle] /\ task[t].pc = "answered" /\ Remember(t)
        /\ UNCHANGED <<rec, stored, now, connected, events, lock, chat, gone, faults, lost, regressed>>
        /\ refs' = refs
  BY DEF TickEnds, BackEnds, moveto, store
<1>2. job' \in BOOLEAN
  BY Basics DEF TickEnds, BackEnds, still_voting
<1>3. t \in Coroutines /\ t \notin Syncs
  BY CardAssumption DEF Coroutines
<1>4. Fingerprints(last', chat, regressed)
  BY <1>1, <1>3, RememberKeeps
<1>5. Carries(Idle, Len(chat), rec.ver) /\ ~known(Idle) /\ Idle.pc = "idle"
  BY IdleCarries, Basics
<1> QED BY <1>1, <1>2, <1>3, <1>4, <1>5, Basics, TaskMoves DEF Posting

\* post reads the record as it is now ...
LEMMA PostReadKeeps ==
    ASSUME CardInv, NEW s \in Syncs, PostRead(s)
    PROVE  CardInv'
<1> DEFINE x == task[s]
           v == current
           r == [x EXCEPT !.pc = "postRender", !.view = v]
<1>1. /\ task' = [task EXCEPT ![s] = r] /\ x.pc = "postRead"
      /\ UNCHANGED <<rec, stored, now, connected, events, lock, chat, gone, faults, lost, regressed>>
      /\ UNCHANGED <<refs, last, job>>
  BY DEF PostRead, moveto, store
<1>2. /\ Carries(x, Len(chat), rec.ver) /\ x \in Task /\ s \in Coroutines
      /\ v \in View /\ v.ver = rec.ver /\ v.card \in 0..Len(chat)
  BY TaskFacts, Basics
<1>3. s # Tick /\ s # Tap /\ task[s].pc = "postRead"
  BY <1>1, CardAssumption
<1> HIDE DEF x, v
<1>4. r \in Task /\ r.pc = "postRender" /\ r.ref = x.ref /\ r.view = v /\ r.text = x.text /\ r.res = x.res
  BY <1>2 DEF Task
<1> HIDE DEF r
<1>5. Carries(r, Len(chat), rec.ver) /\ ~known(r) /\ brings(r, rec.ver)
  BY <1>1, <1>2, <1>4, Basics DEF Carries, known, brings, Unstored
<1> QED BY <1>1, <1>2, <1>3, <1>4, <1>5, Basics, TaskMoves DEF Posting, Unstored

\* ... and renders what it read.
LEMMA PostRenderKeeps ==
    ASSUME CardInv, NEW s \in Syncs, PostRender(s)
    PROVE  CardInv'
<1> DEFINE x == task[s]
           w == render(x.view)
           r == [x EXCEPT !.pc = "postSent", !.text = w]
<1>1. /\ task' = [task EXCEPT ![s] = r] /\ x.pc = "postRender"
      /\ UNCHANGED <<rec, stored, now, connected, events, lock, chat, gone, faults, lost, regressed>>
      /\ UNCHANGED <<refs, last, job>>
  BY DEF PostRender, moveto, store
<1>2. Carries(x, Len(chat), rec.ver) /\ x \in Task /\ s \in Coroutines /\ x.view \in View
  BY TaskFacts, Basics
<1>3. s # Tick /\ s # Tap /\ task[s].pc = "postRender"
  BY <1>1, CardAssumption
<1>4. w \in Text /\ w.ver = x.view.ver
  BY <1>2, Rendered, Basics
<1>5. brings(x, rec.ver) => w.ver = rec.ver
  BY <1>1, <1>4 DEF brings
<1>6. brings(x, rec.ver) <=> brings(task[s], rec.ver)
  OBVIOUS
<1> HIDE DEF x, w
<1>7. r \in Task /\ r.pc = "postSent" /\ r.ref = x.ref /\ r.view = x.view /\ r.text = w /\ r.res = x.res
  BY <1>2, <1>4 DEF Task
<1> HIDE DEF r
<1>8. Carries(r, Len(chat), rec.ver) /\ ~known(r) /\ (brings(x, rec.ver) => brings(r, rec.ver))
  BY <1>1, <1>2, <1>4, <1>5, <1>7, Basics DEF Carries, known, brings, Unstored
<1> QED BY <1>1, <1>2, <1>3, <1>6, <1>7, <1>8, Basics, TaskMoves DEF Posting, Unstored

\* The answer to the post: what it remembers is what the message shows.
LEMMA PostAnsweredKeeps ==
    ASSUME CardInv, NEW s \in Syncs, PostAnswered(s)
    PROVE  CardInv'
<1> DEFINE x == task[s]
           r == [x EXCEPT !.pc = "store"]
<1>1. /\ task' = [task EXCEPT ![s] = r] /\ x.pc = "posted" /\ refs' = x.ref /\ remember(x.ref, x.text)
      /\ UNCHANGED <<rec, stored, now, connected, events, lock, chat, gone, faults, lost, regressed>>
      /\ job' = job
  BY DEF PostAnswered, moveto, store
<1>2. /\ Carries(x, Len(chat), rec.ver) /\ x \in Task /\ s \in Coroutines
      /\ x.ref \in 0..Len(chat) /\ x.text \in Text
  BY TaskFacts, Basics
<1>3. s # Tick /\ s # Tap /\ task[s].pc = "posted"
  BY <1>1, CardAssumption
<1>4. x.ref # 0 /\ (~regressed => x.text.ver <= chat[x.ref].ver)
  BY <1>1, <1>2 DEF CardInv, ShownInv, known, Unstored, Carries
<1>5. ~brings(task[s], rec.ver)
  BY <1>3 DEF brings
<1> HIDE DEF x
<1>6. Fingerprints(last', chat, regressed)
  <2>1. x.ref \in DOMAIN chat
    BY <1>2, <1>4, Basics
  <2> QED BY <1>1, <1>2, <1>4, <2>1, Basics, Remembered
<1>7. r \in Task /\ r.pc = "store" /\ r.ref = x.ref /\ r.view = x.view /\ r.text = x.text /\ r.res = x.res
  BY <1>2 DEF Task
<1> HIDE DEF r
<1>8. Carries(r, Len(chat), rec.ver)
  BY <1>1, <1>2, <1>4, <1>7, Basics DEF Carries
<1> QED BY <1>1, <1>2, <1>3, <1>4, <1>5, <1>6, <1>7, <1>8, Basics, TaskMoves DEF Posting, Unstored
\* As long as nothing failed there is one message at most.
LEMMA OneMessage ==
    ASSUME CardInv, faults = 0, ~regressed
    PROVE  Len(chat) <= 1 /\ lost = 0 /\ gone = {}
<1>1. lost = 0 /\ gone = {} /\ Len(chat) = lost + one(stored # 0) + one(unstored)
  BY DEF CardInv, CoverInv, CountInv
<1>2. ~(stored # 0 /\ unstored)
  BY DEF CardInv, LockInv, unstored, Unstored, Posting
<1> QED BY <1>1, <1>2 DEF one

\* A request that does not change the chat: no such message, or a failure.
LEMMA NotEdited ==
    ASSUME CardInv, NEW t \in Coroutines, NEW res \in {"gone", "error"}, task[t].pc = "sent",
           task' = [task EXCEPT ![t] = [task[t] EXCEPT !.pc = "answered", !.res = res]],
           UNCHANGED <<rec, stored, now, connected, events, lock, refs, last, job, chat, gone,
                       lost, regressed>>,
           faults' \in Nat, faults' = 0 => faults = 0 /\ task[t].ref \in gone
    PROVE  CardInv'
<1> DEFINE x == task[t]
           r == [x EXCEPT !.pc = "answered", !.res = res]
<1>1. Carries(x, Len(chat), rec.ver) /\ x \in Task /\ x.pc = "sent"
  BY TaskFacts
<1>2. faults' = 0 => regressed
  BY OneMessage, Basics
<1>3. t \in Syncs => t # Tick /\ t # Tap
  BY CardAssumption
<1>4. x.ref # 0
  BY <1>1 DEF Carries
<1> HIDE DEF x
<1>5. r \in Task /\ r.pc = "answered" /\ r.ref = x.ref /\ r.view = x.view /\ r.text = x.text /\ r.res = res
  BY <1>1 DEF Task
<1> HIDE DEF r
<1>6. Carries(r, Len(chat), rec.ver) /\ ~known(r)
  BY <1>1, <1>4, <1>5 DEF Carries, known, Unstored
<1>7. task' = [task EXCEPT ![t] = r]
  BY DEF r, x
<1> QED BY <1>2, <1>3, <1>5, <1>6, <1>7, Basics, TaskMoves DEF Posting, Unstored

\* An edit lands, whether or not its answer comes.  It may undo what is known to be
\* shown only by putting an older text back.
LEMMA Lands ==
    ASSUME CardInv, NEW t \in Coroutines, NEW res \in {"ok", "same", "error"}, task[t].pc = "sent",
           task' = [task EXCEPT ![t] = [task[t] EXCEPT !.pc = "answered", !.res = res]],
           chat' = [chat EXCEPT ![task[t].ref] = task[t].text],
           regressed' = (regressed \/ task[t].text.ver < chat[task[t].ref].ver),
           UNCHANGED <<rec, stored, now, connected, events, lock, refs, last, job, gone, lost>>,
           faults' \in Nat, faults' = 0 => faults = 0
    PROVE  CardInv'
<1> DEFINE x == task[t]
           m == x.ref
           r == [x EXCEPT !.pc = "answered", !.res = res]
<1>1. /\ Carries(x, Len(chat), rec.ver) /\ x \in Task /\ x.pc = "sent" /\ x.text \in Text
      /\ x.text.ver \in 0..rec.ver /\ m \in 0..Len(chat) /\ m # 0
  BY TaskFacts DEF Carries
<1>2. m \in DOMAIN chat /\ m \in 1..Len(chat) /\ chat[m].ver \in 0..rec.ver
  BY <1>1, Basics
<1>3. /\ chat' \in Seq(Text) /\ Len(chat') = Len(chat) /\ DOMAIN chat' = DOMAIN chat /\ chat'[m] = x.text
      /\ \A i \in DOMAIN chat : i # m => chat'[i] = chat[i]
  BY <1>1, <1>2, Basics
<1>4. /\ regressed' \in BOOLEAN
      /\ ~regressed' => ~regressed /\ \A i \in DOMAIN chat : chat[i].ver <= chat'[i].ver
  <2>1. regressed' \in BOOLEAN
    BY Basics
  <2>2. ~regressed' => ~regressed /\ ~(x.text.ver < chat[m].ver)
    OBVIOUS
  <2>3. ~(x.text.ver < chat[m].ver) => chat[m].ver <= chat'[m].ver
    BY <1>1, <1>2, <1>3, Basics
  <2>4. \A i \in DOMAIN chat : i # m => chat[i].ver <= chat'[i].ver
    BY <1>3, Basics
  <2> QED BY <2>1, <2>2, <2>3, <2>4
<1> HIDE DEF x, m
<1>5. r \in Task /\ r.pc = "answered" /\ r.ref = x.ref /\ r.view = x.view /\ r.text = x.text /\ r.res = res
  BY <1>1 DEF Task
<1> HIDE DEF r
<1>6. Carries(r, Len(chat), rec.ver)
  BY <1>1, <1>5 DEF Carries, m, Unstored
<1>7. /\ task' \in [Coroutines -> Task] /\ task'[t] = r
      /\ \A u \in Coroutines : u # t => task'[u] = task[u]
  BY <1>5, Basics DEF r, x
<1>8. t \in Syncs => t # Tick /\ t # Tap /\ lock = t
  BY CardAssumption, TaskFacts
<1>9. StateInv'
  <2>1. TypeOK'
    BY <1>3, <1>4, <1>7 DEF CardInv, StateInv, TypeOK
  <2>2. \A i \in DOMAIN chat' : chat'[i].ver <= rec'.ver
    <3>1. x.text.ver <= rec.ver /\ rec' = rec
      BY <1>1 DEF Carries
    <3>2. \A i \in DOMAIN chat : chat[i].ver <= rec.ver
      BY DEF CardInv, StateInv
    <3>3. \A i \in DOMAIN chat' : i \in DOMAIN chat /\ (chat'[i] = x.text \/ chat'[i] = chat[i])
      BY <1>3, Zenon
    <3> QED BY <3>1, <3>2, <3>3
  <2>3. refs' <= Len(chat') /\ stored' <= Len(chat')
    BY <1>3 DEF CardInv, StateInv
  <2>4. \A u \in Coroutines : Carries(task'[u], Len(chat'), rec'.ver)
    BY <1>3, <1>6, <1>7 DEF CardInv, StateInv
  <2>5. /\ task'[Tick].pc \notin Posting \cup {"toggled"}
        /\ task'[Tap].pc \notin Posting \cup {"read"}
    BY <1>5, <1>7, Basics DEF CardInv, StateInv, Posting
  <2> QED BY <2>1, <2>2, <2>3, <2>4, <2>5 DEF StateInv
<1>10. \A s \in Syncs : \/ s # t /\ task'[s] = task[s]
                        \/ s = t /\ task[s].pc = "sent" /\ task'[s].pc = "answered"
  BY <1>5, <1>7, Basics
<1>11. LockInv'
  BY <1>8, <1>10 DEF CardInv, LockInv, Posting
<1>12. CountInv'
  <2>1. unstored' <=> unstored
    BY <1>10 DEF unstored, Unstored
  <2> QED BY <1>3, <2>1 DEF CardInv, CountInv, one
<1>13. ShownInv'
  <2> SUFFICES ASSUME ~regressed'
               PROVE  /\ FingerprintNotAhead'
                      /\ \A u \in Coroutines :
                            known(task'[u]) => task'[u].text.ver <= chat'[task'[u].ref].ver
    BY DEF ShownInv
  <2>1. \A i \in DOMAIN last : last[i].ver \in Nat /\ i \in DOMAIN chat /\ last[i].ver <= chat[i].ver
    BY <1>4, Basics, CardAssumption DEF Fingerprints, Text
  <2>2. \A i \in DOMAIN chat : chat[i].ver \in Nat /\ chat'[i].ver \in Nat /\ chat[i].ver <= chat'[i].ver
    BY <1>1, <1>3, <1>4, Basics
  <2>3. FingerprintNotAhead'
    BY <2>1, <2>2 DEF FingerprintNotAhead
  <2>4. ASSUME NEW u \in Coroutines, known(task'[u])
        PROVE  task'[u].text.ver <= chat'[task'[u].ref].ver
    <3>1. CASE u = t
      <4>1. r.ref = m
        BY <1>5 DEF m
      <4>2. chat'[r.ref] = r.text /\ task'[u] = r /\ r.text.ver \in Int
        BY <1>1, <1>3, <1>5, <1>7, <3>1, <4>1, Basics
      <4>3. r.text.ver <= chat'[r.ref].ver
        <5> DEFINE n == r.text.ver
        <5>1. n \in Int /\ chat'[r.ref].ver = n
          BY <4>2
        <5> HIDE DEF n
        <5>2. n <= chat'[r.ref].ver
          BY <5>1
        <5> QED BY <5>2 DEF n
      <4> QED BY <4>2, <4>3, Zenon
    <3>2. CASE u # t
      <4>1. task'[u] = task[u] /\ known(task[u]) /\ task[u].text.ver \in Nat /\ task[u].ref \in 0..Len(chat)
        BY <1>7, <2>4, <3>2, TaskFacts, Basics
      <4>2. task[u].ref \in DOMAIN chat
        BY <4>1, TaskFacts, Basics DEF known, Carries
      <4>3. task[u].text.ver <= chat[task[u].ref].ver
        BY <1>4, <4>1 DEF CardInv, ShownInv
      <4> QED BY <2>2, <4>1, <4>2, <4>3
    <3> QED BY <3>1, <3>2
  <2> QED BY <2>3, <2>4
<1>14. CoverInv'
  <2> SUFFICES ASSUME faults' = 0, faults = 0, ~regressed', ~regressed
               PROVE  /\ connected' /\ gone' = {} /\ lost' = 0
                      /\ (chat' # <<>> \/ \E s \in Syncs : task'[s].pc \in Posting) => covered'
    BY <1>4 DEF CoverInv
  <2>1. connected /\ gone = {} /\ lost = 0 /\ Len(chat) <= 1
    BY OneMessage DEF CardInv, CoverInv
  <2>2. m = 1 /\ chat # <<>> /\ chat' # <<>>
    BY <1>2, <1>3, <2>1, Basics
  <2>3. covered
    BY <2>2 DEF CardInv, CoverInv
  <2>4. x.text.ver = rec.ver => shows'
    BY <1>3, <2>2 DEF shows
  <2>5. shows => x.text.ver = rec.ver
    <3>1. ASSUME shows PROVE x.text.ver = rec.ver
      <4>1. chat[m].ver <= chat'[m].ver /\ chat[m].ver = rec.ver
        BY <1>2, <1>4, <2>2, <3>1 DEF shows
      <4> QED BY <1>1, <1>3, <4>1, Basics
    <3> QED BY <3>1
  <2>6. \A s \in Syncs : brings(task[s], rec.ver) => brings(task'[s], rec.ver) \/ x.text.ver = rec.ver
    BY <1>10 DEF brings, x
  <2>7. covered'
    BY <2>3, <2>4, <2>5, <2>6 DEF covered
  <2> QED BY <2>1, <2>7
<1> QED BY <1>9, <1>11, <1>12, <1>13, <1>14 DEF CardInv

LEMMA EditedKeeps ==
    ASSUME CardInv, NEW t \in Coroutines, Edited(t) \/ EditFails(t)
    PROVE  CardInv'
<1>1. task[t].pc = "sent" /\ faults \in Nat /\ faults' \in Nat /\ (faults' = 0 => faults = 0)
  BY Basics DEF Edited, EditFails, fault
<1>2. CASE Edited(t)
  <2>1. CASE task[t].ref \in gone
    <3>1. task' = [task EXCEPT ![t] = [task[t] EXCEPT !.pc = "answered", !.res = "gone"]]
      BY <1>2, <2>1 DEF Edited, moveto
    <3>2. UNCHANGED <<rec, stored, now, connected, events, lock, refs, last, job, chat, gone,
                      faults, lost, regressed>>
      BY <1>2, <2>1 DEF Edited, store
    <3> QED BY <1>1, <2>1, <3>1, <3>2, NotEdited
  <2>2. CASE task[t].ref \notin gone
    <3> DEFINE res == IF chat[task[t].ref] = task[t].text THEN "same" ELSE "ok"
    <3>1. /\ task' = [task EXCEPT ![t] = [task[t] EXCEPT !.pc = "answered", !.res = res]]
          /\ res \in {"ok", "same", "error"}
      BY <1>2, <2>2 DEF Edited, moveto
    <3>2. /\ chat' = [chat EXCEPT ![task[t].ref] = task[t].text]
          /\ regressed' = (regressed \/ task[t].text.ver < chat[task[t].ref].ver)
          /\ UNCHANGED <<rec, stored, now, connected, events, lock, refs, last, job, gone, lost>>
      BY <1>2, <2>2 DEF Edited, store
    <3> HIDE DEF res
    <3> QED BY <1>1, <3>1, <3>2, Lands
  <2> QED BY <2>1, <2>2
<1>3. CASE EditFails(t)
  <2>1. /\ task' = [task EXCEPT ![t] = [task[t] EXCEPT !.pc = "answered", !.res = "error"]]
        /\ UNCHANGED <<rec, stored, now, connected, events, lock, refs, last, job, gone, lost>>
        /\ faults' # 0
    BY <1>1, <1>3, Basics DEF EditFails, moveto, store, fault
  <2>2. \/ UNCHANGED <<chat, regressed>>
        \/ /\ chat' = [chat EXCEPT ![task[t].ref] = task[t].text]
           /\ regressed' = (regressed \/ task[t].text.ver < chat[task[t].ref].ver)
    BY <1>3 DEF EditFails
  <2> QED BY <1>1, <2>1, <2>2, NotEdited, Lands
<1> QED BY <1>2, <1>3
\* At most one observer is on its way.
LEMMA OthersIdle ==
    ASSUME CardInv, NEW s \in Syncs, task[s].pc # "idle", NEW u \in Syncs, u # s
    PROVE  task[u].pc = "idle"
  BY DEF CardInv, LockInv

LEMMA IdleBringsNothing ==
    ASSUME NEW x, x.pc = "idle", NEW v
    PROVE  ~brings(x, v) /\ x.pc \notin Posting /\ ~known(x)
  BY DEF brings, Posting, known, Unstored

\* The observer in the lock ends and leaves every message on record or lost.
LEMMA SyncEnds ==
    ASSUME CardInv, NEW s \in Syncs, task[s].pc # "idle", lock' = "free",
           task' \in [Coroutines -> Task], task'[s] = Idle,
           \A u \in Coroutines \ {s} : task'[u] = task[u] \/ (u \notin Syncs /\ task'[u] = Idle),
           UNCHANGED <<rec, now, connected, events, gone, refs, regressed>>,
           chat' \in Seq(Text), Len(chat) <= Len(chat'), \A m \in DOMAIN chat : chat'[m] = chat[m],
           \A m \in DOMAIN chat' : chat'[m].ver <= rec.ver,
           stored' \in 0..Len(chat'), lost' \in Nat, Len(chat') = lost' + one(stored' # 0),
           Fingerprints(last', chat', regressed), job' \in BOOLEAN, faults' \in Nat,
           faults' = 0 /\ ~regressed => faults = 0 /\ lost' = 0 /\ (chat' # <<>> => covered')
    PROVE  CardInv'
<1>1. /\ chat \in Seq(Text) /\ Len(chat) \in Nat /\ Len(chat') \in Nat /\ DOMAIN chat = 1..Len(chat)
      /\ DOMAIN chat' = 1..Len(chat') /\ DOMAIN chat \subseteq DOMAIN chat' /\ rec.ver \in Nat
  BY Basics, CardAssumption
<1>2. Carries(Idle, Len(chat'), rec.ver) /\ Idle.pc = "idle" /\ ~known(Idle)
  BY <1>1, IdleCarries
<1>3. \A u \in Coroutines : task'[u] = Idle \/ (u \notin Syncs /\ task'[u] = task[u])
                                            \/ (u \in Syncs /\ task'[u] = task[u] /\ task[u].pc = "idle")
  BY OthersIdle
<1>4. \A u \in Syncs : task'[u].pc = "idle"
  BY <1>2, <1>3, Basics
<1>5. \A u \in Coroutines : Carries(task'[u], Len(chat'), rec.ver)
  <2>1. \A x \in Task : Carries(x, Len(chat), rec.ver) => Carries(x, Len(chat'), rec.ver)
    <3> SUFFICES ASSUME NEW x \in Task, Carries(x, Len(chat), rec.ver) PROVE Carries(x, Len(chat'), rec.ver)
      OBVIOUS
    <3>1. x.ref \in Nat /\ x.view.card \in Nat /\ x.ref <= Len(chat) /\ x.view.card <= Len(chat)
      BY DEF Task, View, Carries
    <3>2. x.ref <= Len(chat') /\ x.view.card <= Len(chat')
      BY <1>1, <3>1
    <3> QED BY <3>2 DEF Carries
  <2> QED BY <1>2, <1>3, <2>1, TaskFacts
<1>6. StateInv'
  <2>1. TypeOK'
    BY <1>1 DEF CardInv, StateInv, TypeOK, Fingerprints
  <2>2. (refs <= Len(chat) /\ stored <= Len(chat) /\ \A m \in DOMAIN chat : chat[m].ver <= rec.ver)'
    BY <1>1, Basics
  <2>3. task'[Tick].pc \notin Posting \cup {"toggled"} /\ task'[Tap].pc \notin Posting \cup {"read"}
    BY <1>2, <1>3, Basics DEF CardInv, StateInv, Posting
  <2> QED BY <1>5, <2>1, <2>2, <2>3 DEF StateInv
<1>7. LockInv'
  BY <1>4, CardAssumption DEF LockInv, Posting
<1>8. CountInv'
  <2>1. ~unstored'
    BY <1>4 DEF unstored, Unstored
  <2> QED BY <1>1, <2>1 DEF CountInv, one
<1>9. ShownInv'
  <2> SUFFICES ASSUME ~regressed
               PROVE  /\ FingerprintNotAhead'
                      /\ \A u \in Coroutines :
                            known(task'[u]) => task'[u].text.ver <= chat'[task'[u].ref].ver
    BY DEF ShownInv
  <2>1. FingerprintNotAhead'
    BY DEF Fingerprints, FingerprintNotAhead
  <2>2. ASSUME NEW u \in Coroutines, known(task'[u])
        PROVE  task'[u].text.ver <= chat'[task'[u].ref].ver
    <3>1. task'[u] = task[u]
      BY <1>2, <1>3, <2>2
    <3>2. known(task[u]) /\ task[u].text.ver <= chat[task[u].ref].ver
      BY <2>2, <3>1 DEF CardInv, ShownInv
    <3>3. task[u].ref \in DOMAIN chat
      BY <3>2, TaskFacts, <1>1 DEF known, Carries
    <3> QED BY <3>1, <3>2, <3>3
  <2> QED BY <2>1, <2>2
<1>10. CoverInv'
  <2>1. ~\E u \in Syncs : task'[u].pc \in Posting
    BY <1>4 DEF Posting
  <2> QED BY <2>1 DEF CardInv, CoverInv
<1> QED BY <1>6, <1>7, <1>8, <1>9, <1>10 DEF CardInv

\* An observer that has brought what it could leaves the latest version shown, or an
\* event for it.
LEMMA NothingOwed ==
    ASSUME CardInv, NEW s \in Syncs, task[s].pc \in {"answered", "store"}, faults = 0, ~regressed,
           chat # <<>>
    PROVE  events > 0 \/ shows
<1>1. covered
  BY DEF CardInv, CoverInv
<1>2. \A u \in Syncs : ~brings(task[u], rec.ver)
  <2>1. ~brings(task[s], rec.ver)
    BY DEF brings
  <2>2. \A u \in Syncs : u # s => ~brings(task[u], rec.ver)
    BY OthersIdle, IdleBringsNothing
  <2> QED BY <2>1, <2>2
<1> QED BY <1>1, <1>2 DEF covered

LEMMA RefreshEndsKeeps ==
    ASSUME CardInv, NEW s \in Syncs, RefreshEnds(s)
    PROVE  CardInv'
<1>1. /\ task[s].pc = "answered" /\ Remember(s) /\ lock' = "free" /\ job' \in BOOLEAN
      /\ UNCHANGED <<rec, stored, now, connected, events, chat, gone, refs, faults, lost, regressed>>
      /\ s # Tick /\ Idle \in Task
  BY CardAssumption, IdleCarries, Basics DEF RefreshEnds, store, Carries
<1>2. /\ task' \in [Coroutines -> Task] /\ task'[s] = Idle
      /\ \A u \in Coroutines \ {s} : task'[u] = task[u] \/ (u \notin Syncs /\ task'[u] = Idle)
  <2>1. \/ task' = [task EXCEPT ![s] = Idle]
        \/ task' = [task EXCEPT ![s] = Idle, ![Tick] = Idle]
    BY DEF RefreshEnds, moveto, stopped
  <2> QED BY <1>1, <2>1, Basics, CardAssumption
<1>3. Fingerprints(last', chat, regressed)
  BY <1>1, RememberKeeps, Basics
<1>4. ~unstored /\ Len(chat) = lost + one(stored # 0) + one(unstored)
  BY <1>1, OthersIdle DEF unstored, Unstored, CardInv, CountInv
<1>5. Len(chat) = lost + one(stored # 0)
  BY <1>4, Basics DEF one
<1>6. faults = 0 /\ ~regressed => lost = 0 /\ (chat # <<>> => covered')
  <2>1. UNCHANGED shows
    BY <1>1 DEF shows
  <2> QED BY <1>1, <2>1, NothingOwed DEF CardInv, CoverInv, covered
<1> QED BY <1>1, <1>2, <1>3, <1>5, <1>6, Basics, SyncEnds

LEMMA StoreKeeps ==
    ASSUME CardInv, NEW s \in Syncs, StoreId(s) \/ StoreFails(s)
    PROVE  CardInv'
<1>1. /\ task[s].pc = "store" /\ lock' = "free" /\ job' \in BOOLEAN /\ task' = [task EXCEPT ![s] = Idle]
      /\ UNCHANGED <<rec, now, connected, events, chat, gone, refs, regressed, last>> /\ Idle \in Task
  BY IdleCarries, Basics DEF StoreId, StoreFails, store, Carries, moveto
<1>2. /\ task' \in [Coroutines -> Task] /\ task'[s] = Idle
      /\ \A u \in Coroutines \ {s} : task'[u] = task[u]
  BY <1>1, Basics
<1>3. /\ stored = 0 /\ unstored /\ Len(chat) = lost + one(stored # 0) + one(unstored)
      /\ task[s].ref \in 0..Len(chat) /\ task[s].ref # 0
  BY <1>1, TaskFacts, Basics DEF CardInv, LockInv, CountInv, unstored, Unstored, Posting, Carries
<1>4. Len(chat) = lost + 1 /\ lost \in Nat
  BY <1>3, Basics DEF one
<1>5. UNCHANGED shows
  BY <1>1 DEF shows
<1>6. CASE StoreId(s)
  <2>1. stored' = task[s].ref /\ faults' = faults /\ lost' = lost
    BY <1>6 DEF StoreId
  <2>2. Len(chat) = lost' + one(stored' # 0)
    BY <1>3, <1>4, <2>1 DEF one
  <2>3. faults = 0 /\ ~regressed => lost = 0 /\ (chat # <<>> => covered')
    BY <1>1, <1>5, NothingOwed DEF CardInv, CoverInv, covered
  <2>4. stored' \in 0..Len(chat') /\ Len(chat') = lost' + one(stored' # 0) /\ lost' \in Nat
    BY <1>1, <1>3, <1>4, <2>1, <2>2
  <2>5. faults' \in Nat /\ (faults' = 0 /\ ~regressed => faults = 0 /\ lost' = 0 /\ (chat' # <<>> => covered'))
    BY <1>1, <2>1, <2>3, Basics
  <2>6. /\ chat' \in Seq(Text) /\ Len(chat) <= Len(chat') /\ Fingerprints(last', chat', regressed)
        /\ \A m \in DOMAIN chat' : chat'[m].ver <= rec.ver
    BY <1>1, Basics
  <2> QED BY <1>1, <1>2, <2>4, <2>5, <2>6, SyncEnds
<1>7. CASE StoreFails(s)
  <2>1. stored' = stored /\ faults' = faults + 1 /\ lost' = lost + 1
    BY <1>7 DEF StoreFails, store, fault
  <2>2. Len(chat) = lost' + one(stored' # 0) /\ faults' \in Nat /\ faults' # 0 /\ lost' \in Nat
    BY <1>3, <1>4, <2>1, Basics DEF one
  <2>3. /\ chat' \in Seq(Text) /\ Len(chat) <= Len(chat') /\ Fingerprints(last', chat', regressed)
        /\ \A m \in DOMAIN chat' : chat'[m].ver <= rec.ver
    BY <1>1, Basics
  <2>4. stored' \in 0..Len(chat') /\ Len(chat') = lost' + one(stored' # 0)
    BY <1>1, <2>1, <2>2, Basics
  <2> QED BY <1>1, <1>2, <2>2, <2>3, <2>4, SyncEnds
<1> QED BY <1>6, <1>7

\* A new message, at the end of the chat.
LEMMA NewMessage ==
    ASSUME CardInv, NEW w \in Text, w.ver \in 0..rec.ver
    PROVE  LET c == Append(chat, w) IN
           /\ c \in Seq(Text) /\ Len(c) = Len(chat) + 1 /\ c[Len(chat) + 1] = w /\ c # <<>>
           /\ \A m \in DOMAIN chat : c[m] = chat[m] /\ m \in DOMAIN c
           /\ \A m \in DOMAIN c : c[m].ver <= rec.ver
           /\ Fingerprints(last, c, regressed)
<1> DEFINE c == Append(chat, w)
<1>1. /\ c \in Seq(Text) /\ Len(c) = Len(chat) + 1 /\ DOMAIN c = 1..Len(chat) + 1
      /\ c[Len(chat) + 1] = w /\ \A m \in 1..Len(chat) : c[m] = chat[m]
  BY Basics
<1> HIDE DEF c
<1>2. c # <<>> /\ \A m \in DOMAIN chat : c[m] = chat[m] /\ m \in DOMAIN c
  BY <1>1, Basics
<1>3. \A m \in DOMAIN c : c[m].ver <= rec.ver
  <2>1. \A m \in DOMAIN c : m = Len(chat) + 1 \/ m \in DOMAIN chat
    BY <1>1, Basics
  <2>2. \A m \in DOMAIN chat : c[m].ver \in 0..rec.ver
    BY <1>2, Basics
  <2>3. c[Len(chat) + 1].ver \in 0..rec.ver
    BY <1>1
  <2>4. rec.ver \in Nat
    BY Basics, CardAssumption
  <2> QED BY <2>1, <2>2, <2>3, <2>4
<1>4. Fingerprints(last, c, regressed)
  BY <1>2, Basics DEF Fingerprints
<1> QED BY <1>1, <1>2, <1>3, <1>4 DEF c

\* A send that fails may have posted a message that nobody will store.
LEMMA PostFailsKeeps ==
    ASSUME CardInv, NEW s \in Syncs, PostFails(s)
    PROVE  CardInv'
<1>1. /\ task[s].pc = "postSent" /\ lock' = "free" /\ task' = [task EXCEPT ![s] = Idle]
      /\ UNCHANGED <<rec, stored, now, connected, events, gone, refs, regressed, last, job>>
      /\ faults' = faults + 1 /\ Idle \in Task
  BY IdleCarries, Basics DEF PostFails, store, Carries, moveto, fault
<1>2. /\ task' \in [Coroutines -> Task] /\ task'[s] = Idle
      /\ \A u \in Coroutines \ {s} : task'[u] = task[u]
  BY <1>1, Basics
<1>3. stored = 0 /\ ~unstored /\ Len(chat) = lost + one(stored # 0) + one(unstored)
  BY <1>1, OthersIdle DEF CardInv, LockInv, CountInv, unstored, Unstored, Posting
<1>4. Len(chat) = lost /\ lost \in Nat /\ faults' \in Nat /\ faults' # 0 /\ task[s].text \in Text
  BY <1>1, <1>3, Basics, TaskFacts DEF one
<1>5. CASE UNCHANGED <<chat, lost>>
  <2>1. Len(chat') = lost' + one(stored' # 0)
    BY <1>1, <1>3, <1>4, <1>5 DEF one
  <2> QED BY <1>1, <1>2, <1>4, <1>5, <2>1, Basics, SyncEnds
<1>6. CASE chat' = Append(chat, task[s].text) /\ lost' = lost + 1
  <2>1. /\ chat' \in Seq(Text) /\ Len(chat') = Len(chat) + 1
        /\ \A m \in DOMAIN chat : chat'[m] = chat[m]
        /\ \A m \in DOMAIN chat' : chat'[m].ver <= rec.ver
        /\ Fingerprints(last', chat', regressed)
    BY <1>1, <1>4, <1>6, NewMessage, TaskFacts, Basics
  <2>2. /\ Len(chat') = lost' + one(stored' # 0) /\ lost' \in Nat /\ Len(chat) <= Len(chat')
        /\ stored' \in 0..Len(chat') /\ job' \in BOOLEAN
    BY <1>1, <1>3, <1>4, <1>6, <2>1, Basics DEF one
  <2> QED BY <1>1, <1>2, <1>4, <2>1, <2>2, SyncEnds
<1> QED BY <1>5, <1>6 DEF PostFails

\* The card appears: it is the first one unless another was lost.
LEMMA PostedKeeps ==
    ASSUME CardInv, NEW s \in Syncs, Posted(s)
    PROVE  CardInv'
<1> DEFINE x == task[s]
           n == Len(chat) + 1
           r == [x EXCEPT !.pc = "posted", !.ref = n]
<1>1. /\ task' = [task EXCEPT ![s] = r] /\ x.pc = "postSent" /\ chat' = Append(chat, x.text)
      /\ UNCHANGED <<rec, stored, now, connected, events, lock, refs, last, job, gone, faults, lost, regressed>>
  BY DEF Posted, moveto, store
<1>2. /\ Carries(x, Len(chat), rec.ver) /\ x \in Task /\ s \in Coroutines /\ x.text \in Text
      /\ x.text.ver \in 0..rec.ver /\ n \in Nat /\ lock = s /\ n # 0 /\ x.view.card \in 0..Len(chat)
  BY <1>1, TaskFacts, Basics
<1>3. stored = 0 /\ ~unstored /\ Len(chat) = lost + one(stored # 0) + one(unstored)
  BY <1>1, OthersIdle DEF CardInv, LockInv, CountInv, unstored, Unstored, Posting
<1>4. /\ chat' \in Seq(Text) /\ Len(chat') = n /\ chat'[n] = x.text /\ chat' # <<>>
      /\ \A m \in DOMAIN chat : chat'[m] = chat[m] /\ m \in DOMAIN chat'
      /\ \A m \in DOMAIN chat' : chat'[m].ver <= rec.ver
      /\ Fingerprints(last, chat', regressed)
  BY <1>1, <1>2, NewMessage
<1>5. \A u \in Syncs : u # s => task[u].pc = "idle"
  BY <1>1, OthersIdle
<1>6. brings(task[s], rec.ver) => x.text.ver = rec.ver
  BY <1>1 DEF brings
<1>7. task[s] = x
  OBVIOUS
<1> HIDE DEF x, n
<1>8. r \in Task /\ r.pc = "posted" /\ r.ref = n /\ r.view = x.view /\ r.text = x.text /\ r.res = x.res
  BY <1>2 DEF Task
<1> HIDE DEF r
<1>9. Len(chat) \in Nat /\ n = Len(chat) + 1 /\ rec.ver \in Nat
  BY Basics, CardAssumption DEF n
<1>10. Carries(r, n, rec.ver)
  BY <1>1, <1>2, <1>8, <1>9 DEF Carries
<1>11. /\ task' \in [Coroutines -> Task] /\ task'[s] = r
       /\ \A u \in Coroutines : u # s => task'[u] = task[u]
  BY <1>1, <1>2, <1>8, Basics
<1>12. \A u \in Coroutines : Carries(task'[u], Len(chat'), rec'.ver)
  <2>1. \A u \in Coroutines : u # s => Carries(task[u], n, rec.ver)
    <3> SUFFICES ASSUME NEW u \in Coroutines PROVE Carries(task[u], n, rec.ver)
      OBVIOUS
    <3>1. Carries(task[u], Len(chat), rec.ver) /\ task[u].ref \in 0..Len(chat)
            /\ task[u].view.card \in 0..Len(chat)
      BY TaskFacts
    <3>2. task[u].ref <= n /\ task[u].view.card <= n
      BY <1>9, <3>1
    <3> QED BY <3>1, <3>2 DEF Carries
  <2> QED BY <1>1, <1>4, <1>10, <1>11, <2>1
<1>13. StateInv'
  <2>1. TypeOK'
    <3>1. gone' \subseteq DOMAIN chat'
      BY <1>1, <1>4, Basics
    <3> QED BY <1>1, <1>4, <1>11, <3>1 DEF CardInv, StateInv, TypeOK, Fingerprints
  <2>2. refs' <= Len(chat') /\ stored' <= Len(chat') /\ \A m \in DOMAIN chat' : chat'[m].ver <= rec'.ver
    BY <1>1, <1>4, <1>9, Basics
  <2>3. /\ task'[Tick].pc \notin Posting \cup {"toggled"}
        /\ task'[Tap].pc \notin Posting \cup {"read"}
    BY <1>11, Basics, CardAssumption DEF CardInv, StateInv
  <2> QED BY <1>12, <2>1, <2>2, <2>3 DEF StateInv
<1>14. LockInv'
  BY <1>1, <1>2, <1>3, <1>5, <1>8, <1>11, Basics DEF CardInv, LockInv, Posting
<1>15. CountInv'
  <2>1. unstored'
    BY <1>2, <1>8, <1>11 DEF unstored, Unstored
  <2> QED BY <1>1, <1>3, <1>4, <1>9, <2>1, Basics DEF CountInv, one
<1>16. ShownInv'
  <2> SUFFICES ASSUME ~regressed
               PROVE  /\ FingerprintNotAhead'
                      /\ \A u \in Coroutines :
                            known(task'[u]) => task'[u].text.ver <= chat'[task'[u].ref].ver
    BY <1>1 DEF ShownInv
  <2>1. FingerprintNotAhead'
    BY <1>1, <1>4 DEF Fingerprints, FingerprintNotAhead
  <2>2. ASSUME NEW u \in Coroutines, known(task'[u])
        PROVE  task'[u].text.ver <= chat'[task'[u].ref].ver
    <3>1. CASE u = s
      <4>1. task'[u].text = x.text /\ chat'[task'[u].ref] = x.text /\ x.text.ver \in Int
        BY <1>2, <1>4, <1>8, <1>9, <1>11, <3>1
      <4>2. x.text.ver <= x.text.ver
        BY <4>1
      <4> QED BY <4>1, <4>2, Zenon
    <3>2. CASE u # s
      <4>1. task'[u] = task[u]
        BY <1>11, <3>2
      <4>2. known(task[u]) /\ task[u].text.ver <= chat[task[u].ref].ver
        BY <2>2, <4>1 DEF CardInv, ShownInv
      <4>3. task[u].ref \in DOMAIN chat
        BY <4>2, TaskFacts, Basics DEF known, Carries
      <4> QED BY <1>4, <4>1, <4>2, <4>3
    <3> QED BY <3>1, <3>2
  <2> QED BY <2>1, <2>2
<1>17. CoverInv'
  <2> SUFFICES ASSUME faults = 0, ~regressed
               PROVE  connected' /\ gone' = {} /\ lost' = 0 /\ covered'
    BY <1>1 DEF CoverInv
  <2>1. connected /\ gone = {} /\ lost = 0 /\ covered
    BY <1>1, <1>7 DEF CardInv, CoverInv, Posting
  <2>2. n = 1 /\ Len(chat) = 0
    BY <1>3, <1>9, <2>1, Basics DEF one
  <2>3. ~shows
    BY <2>2, Basics DEF shows
  <2>4. \A u \in Syncs : u # s => ~brings(task[u], rec.ver)
    BY <1>5, IdleBringsNothing
  <2>5. events > 0 \/ x.text.ver = rec.ver
    BY <1>6, <2>1, <2>3, <2>4 DEF covered
  <2>6. x.text.ver = rec.ver => shows'
    BY <1>1, <1>4, <2>2 DEF shows
  <2> QED BY <1>1, <2>1, <2>5, <2>6 DEF covered
<1> QED BY <1>13, <1>14, <1>15, <1>16, <1>17 DEF CardInv

\* An observer enters the lock; without a card and a vote to show there is nothing to do.
LEMMA SyncCardKeeps ==
    ASSUME CardInv, NEW s \in Syncs, SyncCard(s)
    PROVE  CardInv'
<1>1. /\ connected /\ events > 0 /\ lock = "free" /\ events' = events - 1 /\ s \in Coroutines
      /\ UNCHANGED <<rec, stored, now, connected, refs, last, job, chat, gone, faults, lost, regressed>>
  BY Basics DEF SyncCard, store
<1>2. \A u \in Syncs : task[u].pc = "idle"
  BY <1>1, CardAssumption DEF CardInv, LockInv
<1>3. ~unstored /\ Len(chat) = lost + one(stored # 0) + one(unstored) /\ events' \in Nat
  BY <1>1, <1>2, Basics DEF unstored, Unstored, CardInv, CountInv
<1>4. ASSUME NEW p \in {"read", "postRead"}, task' = [task EXCEPT ![s] = [Idle EXCEPT !.pc = p]],
             lock' = s, p = "read" <=> stored # 0
      PROVE  CardInv'
  <2> DEFINE r == [Idle EXCEPT !.pc = p]
  <2>1. Carries(Idle, Len(chat), rec.ver) /\ Idle \in Task /\ Idle.res = "none"
    BY IdleCarries, Basics, CardAssumption DEF Carries, Idle
  <2>2. /\ r \in Task /\ r.pc = p /\ r.ref = Idle.ref /\ r.view = Idle.view /\ r.text = Idle.text
        /\ r.res = Idle.res
    BY <2>1 DEF Task
  <2> HIDE DEF r
  <2>3. Carries(r, Len(chat), rec.ver) /\ ~known(r) /\ brings(r, rec.ver)
    BY <2>1, <2>2 DEF Carries, known, brings, Unstored
  <2>4. task' \in [Coroutines -> Task] /\ task'[s] = r /\ \A u \in Coroutines : u # s => task'[u] = task[u]
    BY <1>1, <1>4, <2>2, Basics DEF r
  <2>5. StateInv'
    <3>1. TypeOK'
      BY <1>1, <1>3, <1>4, <2>4 DEF CardInv, StateInv, TypeOK
    <3>2. /\ refs' <= Len(chat') /\ stored' <= Len(chat') /\ \A m \in DOMAIN chat' : chat'[m].ver <= rec'.ver
          /\ \A u \in Coroutines : Carries(task'[u], Len(chat'), rec'.ver)
      BY <1>1, <2>3, <2>4 DEF CardInv, StateInv
    <3>3. /\ task'[Tick].pc \notin Posting \cup {"toggled"}
          /\ task'[Tap].pc \notin Posting \cup {"read"}
      BY <2>4, Basics, CardAssumption DEF CardInv, StateInv
    <3> QED BY <3>1, <3>2, <3>3 DEF StateInv
  <2>6. LockInv'
    BY <1>1, <1>2, <1>4, <2>2, <2>4, Basics DEF LockInv, Posting
  <2>7. CountInv'
    <3>1. ~unstored'
      BY <1>2, <2>2, <2>4, Basics DEF unstored, Unstored
    <3> QED BY <1>1, <1>3, <3>1 DEF CountInv, one
  <2>8. ShownInv'
    BY <1>1, <2>3, <2>4 DEF CardInv, ShownInv, FingerprintNotAhead
  <2>9. CoverInv'
    <3>1. covered'
      BY <1>1, <2>3, <2>4 DEF covered
    <3> QED BY <1>1, <3>1 DEF CardInv, CoverInv
  <2> QED BY <2>5, <2>6, <2>7, <2>8, <2>9 DEF CardInv
<1>5. ASSUME stored = 0, UNCHANGED <<lock, task>>
      PROVE  CardInv'
  <2>1. StateInv' /\ LockInv' /\ CountInv' /\ ShownInv'
    BY <1>1, <1>3, <1>5
    DEF CardInv, StateInv, TypeOK, LockInv, CountInv, unstored, ShownInv, FingerprintNotAhead
  <2>2. faults = 0 /\ ~regressed => connected /\ gone = {} /\ lost = 0 /\ Len(chat) = 0
    BY <1>3, <1>5, Basics DEF CardInv, CoverInv, one
  <2>3. Len(chat) = 0 => chat = <<>>
    BY Basics
  <2>4. ~\E u \in Syncs : task'[u].pc \in Posting
    BY <1>2, <1>5 DEF Posting
  <2>5. CoverInv'
    BY <1>1, <2>2, <2>3, <2>4 DEF CoverInv
  <2> QED BY <2>1, <2>5 DEF CardInv
<1> QED
  <2>1. \/ stored # 0 /\ task' = [task EXCEPT ![s] = [Idle EXCEPT !.pc = "read"]] /\ lock' = s
        \/ stored = 0 /\ task' = [task EXCEPT ![s] = [Idle EXCEPT !.pc = "postRead"]] /\ lock' = s
        \/ stored = 0 /\ UNCHANGED <<lock, task>>
    BY DEF SyncCard, moveto
  <2> QED BY <1>4, <1>5, <2>1

\* A write to the record emits an event that will bring the card up to date; it moves no
\* coroutine but the button's.
LEMMA WriteKeeps ==
    ASSUME CardInv, NEW st \in Statuses, Write(st),
           UNCHANGED <<stored, now, connected, lock, refs, last, job, chat, gone, faults, lost, regressed>>,
           task' \in [Coroutines -> Task], \A u \in Coroutines \ {Tap} : task'[u] = task[u],
           task'[Tap] = task[Tap] \/ /\ Carries(task'[Tap], Len(chat), rec.ver + 1)
                                     /\ task'[Tap].pc = "toggled"
    PROVE  CardInv'
<1>1. /\ rec' \in [ver : 0..MaxVer, status : Statuses] /\ rec'.ver = rec.ver + 1
      /\ events' = (IF connected THEN events + 1 ELSE events) /\ events' \in Nat
      /\ rec.ver \in Nat /\ rec'.ver \in Nat
  <2>1. rec.ver \in 0..MaxVer /\ MaxVer \in Nat /\ events \in Nat
    BY Basics, CardAssumption
  <2>2. rec.ver \in Nat /\ rec.ver + 1 \in 0..MaxVer /\ rec.ver + 1 \in Nat
    BY <2>1 DEF Write
  <2>3. rec' = [ver |-> rec.ver + 1, status |-> st] /\ events' = IF connected THEN events + 1 ELSE events
    BY DEF Write
  <2> QED BY <2>1, <2>2, <2>3
<1>2. ~known(task'[Tap]) \/ task'[Tap] = task[Tap]
  BY DEF known, Unstored
<1>3. \A u \in Syncs : task'[u] = task[u] /\ u \in Coroutines
  BY CardAssumption DEF Coroutines
<1>4. \A u \in Coroutines : Carries(task'[u], Len(chat'), rec'.ver)
  <2>1. \A u \in Coroutines : Carries(task[u], Len(chat), rec'.ver)
    <3> SUFFICES ASSUME NEW u \in Coroutines PROVE Carries(task[u], Len(chat), rec'.ver)
      OBVIOUS
    <3>1. /\ Carries(task[u], Len(chat), rec.ver) /\ task[u].view.ver \in 0..rec.ver
          /\ task[u].text.ver \in 0..rec.ver
      BY TaskFacts
    <3>2. task[u].view.ver <= rec'.ver /\ task[u].text.ver <= rec'.ver
      BY <1>1, <3>1
    <3> QED BY <3>1, <3>2 DEF Carries
  <2> QED BY <1>1, <2>1
<1>5. StateInv'
  <2>1. TypeOK'
    BY <1>1 DEF CardInv, StateInv, TypeOK
  <2>2. refs' <= Len(chat') /\ stored' <= Len(chat')
    BY DEF CardInv, StateInv
  <2>3. \A m \in DOMAIN chat' : chat'[m].ver <= rec'.ver
    BY <1>1, Basics
  <2>4. /\ task'[Tick].pc \notin Posting \cup {"toggled"}
        /\ task'[Tap].pc \notin Posting \cup {"read"}
    BY Basics, CardAssumption DEF CardInv, StateInv, Posting
  <2> QED BY <1>4, <2>1, <2>2, <2>3, <2>4 DEF StateInv
<1>6. LockInv'
  BY <1>3 DEF CardInv, LockInv
<1>7. CountInv'
  <2>1. unstored' <=> unstored
    BY <1>3 DEF unstored
  <2> QED BY <2>1 DEF CardInv, CountInv, one
<1>8. ShownInv'
  <2>1. ~regressed => FingerprintNotAhead'
    BY DEF CardInv, ShownInv, FingerprintNotAhead
  <2>2. ~regressed => \A u \in Coroutines : known(task'[u]) => task'[u].text.ver <= chat'[task'[u].ref].ver
    BY <1>2 DEF CardInv, ShownInv
  <2> QED BY <2>1, <2>2 DEF ShownInv
<1>9. CoverInv'
  <2>1. connected => covered'
    BY <1>1, Basics DEF covered
  <2> QED BY <2>1 DEF CardInv, CoverInv
<1> QED BY <1>5, <1>6, <1>7, <1>8, <1>9 DEF CardInv

LEMMA RecordKeeps ==
    ASSUME CardInv, Record
    PROVE  CardInv'
<1>1. PICK st \in Statuses : Write(st)
  BY DEF Record, Statuses
<1>2. task' = task /\ UNCHANGED <<stored, now, connected, lock, refs, last, job, chat, gone, faults, lost, regressed>>
  BY DEF Record
<1> QED BY <1>1, <1>2, WriteKeeps, Basics

LEMMA BackKeeps ==
    ASSUME CardInv, Back
    PROVE  CardInv'
<1> DEFINE v == [current EXCEPT !.ver = @ + 1]
<1>1. PICK m \in DOMAIN chat \ gone :
         /\ Write(rec.status)
         /\ task' = [task EXCEPT ![Tap] = [Idle EXCEPT !.pc = "toggled", !.ref = m, !.view = v]]
  BY DEF Back, moveto
<1> DEFINE r == [Idle EXCEPT !.pc = "toggled", !.ref = m, !.view = v]
<1>2. UNCHANGED <<stored, now, connected, lock, refs, last, job, chat, gone, faults, lost, regressed>>
  BY DEF Back
<1>3. v \in View /\ v.ver = rec.ver + 1 /\ v.card = stored
  <2>1. current \in View /\ current.ver = rec.ver /\ current.card = stored /\ rec.ver < MaxVer
        /\ rec.ver \in Nat
    BY <1>1, Basics, CardAssumption DEF Write
  <2> DEFINE c == current
  <2> HIDE DEF c
  <2>2. c \in View /\ c.ver \in Nat /\ c.ver < MaxVer
    BY <2>1 DEF c
  <2>3. LET y == [c EXCEPT !.ver = @ + 1] IN y \in View /\ y.ver = c.ver + 1 /\ y.card = c.card
    BY <2>2, CardAssumption DEF View
  <2> QED BY <2>1, <2>3 DEF c
<1>4. m \in 1..Len(chat) /\ m \in Nat /\ Len(chat) \in Nat /\ rec.ver \in Nat
  BY <1>1, Basics, CardAssumption
<1>5. Carries(Idle, Len(chat), rec.ver) /\ Idle \in Task /\ Idle.res = "none" /\ Idle.text.ver = 0
  BY <1>4, IdleCarries DEF Carries, Idle, NoText
<1> HIDE DEF v
<1>6. /\ r \in Task /\ r.pc = "toggled" /\ r.ref = m /\ r.view = v /\ r.text = Idle.text /\ r.res = Idle.res
  BY <1>3, <1>4, <1>5 DEF Task
<1> HIDE DEF r
<1>7. Carries(r, Len(chat), rec.ver + 1)
  BY <1>3, <1>4, <1>5, <1>6, Basics DEF Carries
<1>8. task' \in [Coroutines -> Task] /\ task'[Tap] = r /\ \A u \in Coroutines \ {Tap} : task'[u] = task[u]
  BY <1>1, <1>6, Basics DEF r
<1> QED BY <1>1, <1>2, <1>6, <1>7, <1>8, WriteKeeps, Basics

\* The clock, a deletion and a reconnection move no coroutine and change no message.
LEMMA OutsideKeeps ==
    ASSUME CardInv, Minute \/ Delete \/ Attach \/ UNCHANGED vars
    PROVE  CardInv'
<1>1. /\ UNCHANGED <<rec, stored, events, lock, task, refs, last, job, chat, lost, regressed>>
      /\ now' \in 0..Ends /\ connected' \in BOOLEAN /\ faults' \in Nat /\ gone' \subseteq DOMAIN chat
      /\ faults' = 0 => faults = 0 /\ gone' = gone /\ (connected => connected')
  <2>1. connected \in BOOLEAN
    BY DEF CardInv, StateInv, TypeOK
  <2>2. CASE Minute
    BY <2>1, <2>2, Basics, CardAssumption DEF Minute, store
  <2>3. CASE Delete
    BY <2>1, <2>3, Basics DEF Delete, fault, store
  <2>4. CASE Attach
    BY <2>4, Basics DEF Attach, store
  <2>5. CASE UNCHANGED vars
    BY <2>1, <2>5, Basics DEF vars
  <2> QED BY <2>2, <2>3, <2>4, <2>5
<1>2. StateInv' /\ LockInv' /\ CountInv' /\ ShownInv'
  BY <1>1
  DEF CardInv, StateInv, TypeOK, LockInv, CountInv, unstored, ShownInv, FingerprintNotAhead
<1>3. CoverInv'
  <2>1. covered' <=> covered
    BY <1>1 DEF covered, shows
  <2> QED BY <1>1, <2>1 DEF CardInv, CoverInv
<1> QED BY <1>2, <1>3 DEF CardInv

\* A restart loses the message, if any, that the observer in the lock had not stored.
LEMMA StopKeeps ==
    ASSUME CardInv, Stop
    PROVE  CardInv'
<1> DEFINE U == {s \in Syncs : task[s].pc \in {"posted", "store"}}
<1>1. /\ connected' = FALSE /\ events' = 0 /\ lock' = "free" /\ faults' = faults + 1
      /\ task' = [t \in Coroutines |-> Idle] /\ refs' = 0 /\ last' = [m \in {} |-> NoText]
      /\ job' = FALSE /\ lost' = lost + Cardinality(U)
      /\ UNCHANGED <<rec, stored, now, chat, gone, regressed>>
  BY DEF Stop, store, fault
<1>2. Cardinality(U) = one(unstored)
  <2>1. CASE ~unstored
    <3>1. U = {}
      BY <2>1 DEF unstored, Unstored
    <3> QED BY <2>1, <3>1, FS_EmptySet DEF one
  <2>2. CASE unstored
    <3>1. PICK s \in Syncs : task[s].pc \in Unstored
      BY <2>2 DEF unstored
    <3>2. \A u \in Syncs : u # s => task[u].pc = "idle"
      BY <3>1, OthersIdle DEF Unstored
    <3>3. U = {s}
      BY <3>1, <3>2 DEF Unstored
    <3> QED BY <2>2, <3>3, FS_Singleton DEF one
  <2> QED BY <2>1, <2>2
<1>3. /\ Len(chat) \in Nat /\ rec.ver \in Nat /\ lost' \in Nat /\ faults' \in Nat /\ faults' # 0
      /\ Len(chat) = lost' + one(stored # 0) /\ chat \in Seq(Text)
  <2>1. Len(chat) = lost + one(stored # 0) + one(unstored) /\ lost \in Nat /\ Len(chat) \in Nat
    BY Basics DEF CardInv, CountInv
  <2>2. one(unstored) \in Nat /\ one(stored # 0) \in Nat /\ lost' = lost + one(unstored)
    BY <1>1, <1>2 DEF one
  <2>3. lost' \in Nat /\ Len(chat) = lost' + one(stored # 0)
    BY <2>1, <2>2
  <2>4. faults' \in Nat /\ faults' # 0 /\ rec.ver \in Nat /\ chat \in Seq(Text)
    BY <1>1, Basics, CardAssumption
  <2> QED BY <2>1, <2>3, <2>4
<1>4. /\ Carries(Idle, Len(chat), rec.ver) /\ Idle.pc = "idle" /\ ~known(Idle) /\ Idle \in Task
  BY <1>3, IdleCarries DEF Carries
<1>5. task' \in [Coroutines -> Task] /\ \A t \in Coroutines : task'[t] = Idle
  BY <1>1, <1>4
<1>6. StateInv'
  <2>1. TypeOK'
    BY <1>1, <1>3, <1>5 DEF CardInv, StateInv, TypeOK
  <2>2. /\ refs' <= Len(chat') /\ stored' <= Len(chat')
        /\ \A m \in DOMAIN chat' : chat'[m].ver <= rec'.ver
    BY <1>1, <1>3, Basics
  <2>3. \A t \in Coroutines : Carries(task'[t], Len(chat'), rec'.ver)
    BY <1>1, <1>4, <1>5
  <2>4. /\ task'[Tick].pc \notin Posting \cup {"toggled"}
        /\ task'[Tap].pc \notin Posting \cup {"read"}
    BY <1>4, <1>5, Basics DEF Posting
  <2> QED BY <2>1, <2>2, <2>3, <2>4 DEF StateInv
<1>7. LockInv'
  BY <1>1, <1>4, <1>5, Basics, CardAssumption DEF LockInv, Posting
<1>8. CountInv'
  <2>1. ~unstored'
    BY <1>4, <1>5, Basics DEF unstored, Unstored
  <2> QED BY <1>1, <1>3, <2>1 DEF CountInv, one
<1>9. ShownInv'
  BY <1>1, <1>4, <1>5 DEF ShownInv, FingerprintNotAhead
<1>10. CoverInv'
  BY <1>3 DEF CoverInv
<1> QED BY <1>6, <1>7, <1>8, <1>9, <1>10 DEF CardInv

LEMMA CardInit ==
    ASSUME Init
    PROVE  CardInv
<1>1. /\ Carries(Idle, 0, 0) /\ Idle.pc = "idle" /\ ~known(Idle) /\ Idle \in Task
  BY IdleCarries DEF Carries
<1>2. /\ rec.ver = 0 /\ stored = 0 /\ refs = 0 /\ Len(chat) = 0 /\ chat = <<>> /\ lost = 0 /\ gone = {}
      /\ lock = "free" /\ connected /\ DOMAIN last = {} /\ ~regressed /\ DOMAIN chat = {}
  BY DEF Init
<1>3. task \in [Coroutines -> Task] /\ \A t \in Coroutines : task[t] = Idle
  BY <1>1 DEF Init
<1>4. Tick \in Coroutines /\ Tap \in Coroutines /\ Syncs \subseteq Coroutines
  BY DEF Coroutines
<1>5. TypeOK
  <2>1. rec \in [ver : 0..MaxVer, status : Statuses] /\ now \in 0..Ends
    BY CardAssumption DEF Init, Statuses
  <2>2. chat \in Seq(Text)
    BY <1>2
  <2>3. DOMAIN last \subseteq DOMAIN chat /\ \A m \in DOMAIN last : last[m] \in Text
    BY <1>2
  <2>4. events \in Nat /\ faults \in Nat /\ job \in BOOLEAN /\ regressed \in BOOLEAN
    BY DEF Init
  <2> QED BY <1>2, <1>3, <2>1, <2>2, <2>3, <2>4 DEF TypeOK
<1>6. StateInv
  BY <1>1, <1>2, <1>3, <1>4, <1>5 DEF StateInv, Posting
<1>7. LockInv
  BY <1>1, <1>2, <1>3, <1>4, CardAssumption DEF LockInv, Posting
<1>8. ~unstored
  BY <1>1, <1>3, <1>4 DEF unstored, Unstored
<1>9. CountInv
  BY <1>2, <1>8 DEF CountInv, one
<1>10. ShownInv
  BY <1>1, <1>2, <1>3 DEF ShownInv, FingerprintNotAhead
<1>11. CoverInv
  BY <1>1, <1>2, <1>3, <1>4 DEF CoverInv, Posting
<1> QED BY <1>6, <1>7, <1>9, <1>10, <1>11 DEF CardInv

LEMMA CardStep ==
    ASSUME CardInv, [Next]_vars
    PROVE  CardInv'
<1>1. Syncs \subseteq Coroutines
  BY DEF Coroutines
<1>2. CASE Record \/ Back
  BY <1>2, RecordKeeps, BackKeeps
<1>3. CASE Editing
  BY <1>3, ReadKeeps, EditKeeps, EditedKeeps DEF Editing
<1>4. CASE Syncing
  BY <1>4, SyncCardKeeps, RefreshEndsKeeps, PostReadKeeps, PostRenderKeeps, PostedKeeps,
     PostAnsweredKeeps, StoreKeeps DEF Syncing
<1>5. CASE Ticking \/ Tapping
  BY <1>5, JobFiresKeeps, BackRefreshKeeps, EndKeeps DEF Ticking, Tapping
<1>6. CASE Failing
  BY <1>6, EditedKeeps, PostFailsKeeps, StoreKeeps, OutsideKeeps, StopKeeps DEF Failing
<1>7. CASE Minute \/ Attach \/ UNCHANGED vars
  BY <1>7, OutsideKeeps
<1> QED BY <1>2, <1>3, <1>4, <1>5, <1>6, <1>7 DEF Next

\* The invariant of the proposal card holds in every reachable state: one observer at
\* a time, every message on record, about to be or lost, and the latest version shown
\* or on its way until a call fails.
THEOREM CardInvariant == Spec => []CardInv
<1>1. Init => CardInv
  BY CardInit
<1>2. CardInv /\ [Next]_vars => CardInv'
  BY CardStep
<1> QED BY <1>1, <1>2, PTL DEF Spec

\* _sync_card never posts a second card except to make up for one whose id was lost
\* before it reached the store.
THEOREM NeverTwoCards == Spec => []OneCard
<1>1. CardInv => OneCard
  <2> SUFFICES ASSUME CardInv PROVE OneCard
    OBVIOUS
  <2>1. Len(chat) = lost + one(stored # 0) + one(unstored) /\ lost \in Nat
    BY Basics DEF CardInv, CountInv
  <2>2. ~(stored # 0 /\ unstored)
    BY DEF CardInv, LockInv, unstored, Unstored, Posting
  <2> QED BY <2>1, <2>2 DEF OneCard, one
<1> QED BY <1>1, CardInvariant, PTL

\* edit skips a request only when the message shows a version at least as late.
THEOREM SkippedEditsNotNeeded == Spec => []FingerprintNotAhead
<1>1. CardInv => FingerprintNotAhead
  BY DEF CardInv, ShownInv, FingerprintNotAhead
<1> QED BY <1>1, CardInvariant, PTL

\* However writes, reads and edits interleave, a card that nothing is in flight for
\* shows the latest version, unless a call failed or an edit landed out of order.
THEOREM QuietCardIsCurrent == Spec => []CardIsCurrent
<1>1. CardInv => CardIsCurrent
  <2> SUFFICES ASSUME CardInv, quiet, faults = 0, ~regressed, chat # <<>>
               PROVE  chat[stored].ver = rec.ver
    BY DEF CardIsCurrent
  <2>1. \A s \in Syncs : task[s].pc = "idle"
    BY Basics DEF quiet
  <2>2. covered /\ events = 0
    BY DEF CardInv, CoverInv, quiet
  <2>3. shows
    BY <2>1, <2>2, IdleBringsNothing DEF covered
  <2>4. ~unstored
    BY <2>1 DEF unstored, Unstored
  <2>5. Len(chat) <= 1 /\ lost = 0 /\ Len(chat) = lost + one(stored # 0) + one(unstored)
    BY OneMessage DEF CardInv, CountInv
  <2>6. stored \in 0..Len(chat) /\ Len(chat) \in Nat /\ Len(chat) # 0
    BY Basics
  <2>7. stored = 1
    BY <2>4, <2>5, <2>6 DEF one
  <2> QED BY <2>3, <2>7 DEF shows
<1> QED BY <1>1, CardInvariant, PTL

-----------------------------------------------------------------------------
(* The pitch flow.                                                         *)

LEMMA Least ==
    ASSUME NEW S, S \subseteq Nat, S # {}
    PROVE  \E i \in S : \A j \in S : i <= j
<1> DEFINE R == OpToRel(<, Nat)
<1>1. \E i \in S : \A j \in S : ~(<<j, i>> \in R)
  BY NatLessThanWellFounded, WFMin
<1>2. \A i, j \in Nat : j < i => <<j, i>> \in R
  BY DEF OpToRel
<1> HIDE DEF R
<1>3. PICK i \in S : \A j \in S : ~(<<j, i>> \in R)
  BY <1>1
<1>4. \A j \in S : i \in Nat /\ j \in Nat /\ ~(j < i)
  BY <1>2, <1>3, Zenon
<1>5. \A j \in S : i <= j
  BY <1>4
<1> QED BY <1>5

\* The newest of some messages is one of them.
LEMMA NewestIn ==
    ASSUME NEW S \in SUBSET Msgs, S # {}
    PROVE  Max(S) \in S
<1> DEFINE D == {MaxMessages - s : s \in S}
<1>1. MaxMessages \in Nat /\ \A s \in S : s \in Nat /\ s <= MaxMessages
  BY FlowAssumption DEF Msgs
<1>2. D \subseteq Nat /\ D # {}
  BY <1>1
<1>3. PICK d \in D : \A e \in D : d <= e
  BY <1>2, Least
<1>4. PICK s \in S : d = MaxMessages - s
  OBVIOUS
<1>5. \A t \in S : s >= t
  <2> TAKE t \in S
  <2>1. MaxMessages - s <= MaxMessages - t
    BY <1>3, <1>4
  <2> QED BY <1>1, <2>1
<1>6. \E x \in S : \A y \in S : x >= y
  BY <1>5
<1> QED BY <1>6 DEF Max

-----------------------------------------------------------------------------
FlowView == [pitches : SUBSET Msgs, pitch : [Msgs -> Pitch],
             by_msg : [Msgs -> 0..MaxMessages]]

\* The index and the list agree, and nothing is indexed that was not sent: the messages
\* of the chat are 1..n.
Indexed(v, n) ==
    /\ \A m \in Msgs : v.by_msg[m] \in v.pitches \cup {0}
    /\ \A p \in v.pitches : v.by_msg[p] = p
    /\ \A m \in Msgs : m > n => v.by_msg[m] = 0

\* Whatever counts as a fire stands in the chat, on a message indexed under that pitch.
Standing(v, standing) ==
    \A p \in v.pitches : \A f \in v.pitch[p].fires :
        f[1] # 0 => f \in standing /\ v.by_msg[f[1]] = p

\* A pitch whose callback was started is drafted.
Started(v, cb) == \A p \in v.pitches : cb[p] # "none" => v.pitch[p].drafted

Sound(v, n, standing, cb) ==
    v \in FlowView /\ Indexed(v, n) /\ Standing(v, standing) /\ Started(v, cb)

\* A draft is recorded by a callback that has not been started again since, and no message
\* has one before it is sent.
Recorded(n, cb, req) ==
    /\ cb \in [Msgs -> Outcomes] /\ req \in [Msgs -> Nat]
    /\ \A p \in Msgs : req[p] <= 1 /\ (cb[p] \in {"none", "running"} => req[p] = 0)
    /\ \A m \in Msgs : m > n => cb[m] = "none"

FlowInv ==
    /\ time \in 0..MaxTime /\ kind \in [Msgs -> MessageKinds]
    /\ \E n \in 0..MaxMessages :
          /\ sent = 1..n /\ Sound(view, n, credited, callback) /\ Recorded(n, callback, requested)
          /\ (\A s \in ships : s.reply \in 0..n) /\ (\A f \in credited : f[1] \in 1..n)

\* Facts about the parameters, and that a pitch of a view is a message.
LEMMA FlowBasics ==
    /\ MaxMessages \in Nat /\ MaxTime \in Nat /\ 0 \notin Msgs
           /\ NoPitch \in Pitch /\ NoPitch.fires = {} /\ NoPitch.drafted = FALSE
  BY FlowAssumption DEF Msgs, NoPitch, Pitch

\* _prune forgets a pitch everywhere or not at all.
LEMMA PruneGood ==
    ASSUME NEW v, NEW n \in Nat, NEW standing, NEW cb, Sound(v, n, standing, cb)
    PROVE  Sound(prune(v), n, standing, cb)
<1> DEFINE keep == kept(v)
           dropped == v.pitches \ keep
           w == prune(v)
<1>1. v \in FlowView /\ Indexed(v, n) /\ Standing(v, standing) /\ Started(v, cb)
  BY DEF Sound
<1>2. keep \subseteq v.pitches
  BY DEF kept
<1>3. /\ w.pitches = keep
      /\ w.pitch = [p \in Msgs |-> IF p \in dropped THEN NoPitch ELSE v.pitch[p]]
      /\ w.by_msg = [m \in Msgs |-> IF v.by_msg[m] \in dropped THEN 0 ELSE v.by_msg[m]]
      /\ w = [pitches |-> keep,
              pitch |-> [p \in Msgs |-> IF p \in dropped THEN NoPitch ELSE v.pitch[p]],
              by_msg |-> [m \in Msgs |-> IF v.by_msg[m] \in dropped THEN 0 ELSE v.by_msg[m]]]
  BY DEF prune
<1> HIDE DEF keep, w
<1>4. v.pitches \subseteq Msgs /\ v.pitch \in [Msgs -> Pitch]
        /\ v.by_msg \in [Msgs -> 0..MaxMessages]
  BY <1>1 DEF FlowView
<1>5. w \in FlowView
  <2>1. w.pitches \in SUBSET Msgs
    BY <1>2, <1>3, <1>4
  <2>2. w.pitch \in [Msgs -> Pitch]
    BY <1>3, <1>4, FlowBasics
  <2>3. w.by_msg \in [Msgs -> 0..MaxMessages]
    BY <1>3, <1>4, FlowBasics
  <2> QED BY <1>3, <2>1, <2>2, <2>3 DEF FlowView
<1>6. \A p \in keep : p \in v.pitches /\ p \in Msgs /\ w.pitch[p] = v.pitch[p]
  BY <1>2, <1>3, <1>4
<1>7. \A m \in Msgs : w.by_msg[m] = IF v.by_msg[m] \in dropped THEN 0 ELSE v.by_msg[m]
  BY <1>3
<1>8. Indexed(w, n)
  <2>1. \A m \in Msgs : w.by_msg[m] \in w.pitches \cup {0}
    BY <1>1, <1>3, <1>7 DEF Indexed
  <2>2. \A p \in w.pitches : w.by_msg[p] = p
    BY <1>1, <1>3, <1>6, <1>7 DEF Indexed
  <2>3. \A m \in Msgs : m > n => w.by_msg[m] = 0
    BY <1>1, <1>7 DEF Indexed
  <2> QED BY <2>1, <2>2, <2>3 DEF Indexed
<1>9. Standing(w, standing)
  <2> SUFFICES ASSUME NEW p \in keep, NEW f \in v.pitch[p].fires, f[1] # 0
               PROVE  f \in standing /\ w.by_msg[f[1]] = p
    BY <1>3, <1>6 DEF Standing
  <2>1. f \in standing /\ v.by_msg[f[1]] = p /\ p \in v.pitches
    BY <1>1, <1>6 DEF Standing
  <2>2. v.pitch[p] \in Pitch
    BY <1>4, <1>6
  <2>3. f[1] \in Msgs
    BY <2>2, FlowBasics DEF Pitch, Msgs
  <2> QED BY <1>7, <2>1, <2>3
<1>10. Started(w, cb)
  BY <1>1, <1>3, <1>6 DEF Started
<1> QED BY <1>5, <1>8, <1>9, <1>10 DEF Sound, w

\* A message that joins a pitch belonged to none before, so no counted fire is on it.
LEMMA ResolveGood ==
    ASSUME NEW v, NEW n \in Nat, NEW standing, NEW cb, Sound(v, n, standing, cb),
           NEW m \in Msgs, m <= n
    PROVE  Sound(resolve(v, m), n, standing, cb)
<1> DEFINE w == prune(v)
           near == {p \in w.pitches : p < m /\ m <= p + RiffWindow}
           top == Max(near)
           index == [w.by_msg EXCEPT ![m] = top]
           x == [w EXCEPT !.by_msg = index]
<1>1. Sound(w, n, standing, cb)
  BY PruneGood
<1>2. w \in FlowView /\ Indexed(w, n) /\ Standing(w, standing) /\ Started(w, cb)
  BY <1>1 DEF Sound
<1>3. resolve(v, m) = IF v.by_msg[m] # 0 \/ ~may_be_riff(m) THEN v
                      ELSE IF near = {} THEN w ELSE x
  BY DEF resolve
<1>4. v.by_msg[m] = 0 => w.by_msg[m] = 0
  BY DEF prune
<1> HIDE DEF w
<1>5. w.pitches \subseteq Msgs /\ w.pitch \in [Msgs -> Pitch]
        /\ w.by_msg \in [Msgs -> 0..MaxMessages]
  BY <1>2 DEF FlowView
<1>6. near \subseteq w.pitches
  OBVIOUS
<1> HIDE DEF near
<1>7. ASSUME near # {}, w.by_msg[m] = 0 PROVE Sound(x, n, standing, cb)
  <2>1. top \in w.pitches /\ top \in Msgs
    BY <1>5, <1>6, <1>7, NewestIn
  <2> HIDE DEF top
  <2>2. top \in 0..MaxMessages
    BY <2>1 DEF Msgs
  <2>3. index \in [Msgs -> 0..MaxMessages] /\ index[m] = top
        /\ \A k \in Msgs \ {m} : index[k] = w.by_msg[k]
    BY <1>5, <2>2
  <2> HIDE DEF index
  <2>4. x \in FlowView /\ x.pitches = w.pitches /\ x.pitch = w.pitch /\ x.by_msg = index
    BY <1>2, <2>3 DEF FlowView
  <2> HIDE DEF x
  <2>5. \A p \in w.pitches : p \in Msgs /\ p # m
    <3>1. \A p \in w.pitches : p \in Msgs /\ w.by_msg[p] = p /\ p # 0
      BY <1>2, <1>5, FlowBasics DEF Indexed
    <3> QED BY <1>7, <3>1
  <2>6. Indexed(x, n)
    <3>1. \A k \in Msgs : index[k] \in w.pitches \cup {0}
      BY <1>2, <2>1, <2>3 DEF Indexed
    <3>2. \A p \in w.pitches : index[p] = p
      BY <1>2, <2>3, <2>5 DEF Indexed
    <3>3. \A k \in Msgs : k > n => index[k] = 0
      <4>1. \A k \in Msgs : k > n => k # m
        BY DEF Msgs
      <4> QED BY <1>2, <2>3, <4>1 DEF Indexed
    <3> QED BY <2>4, <3>1, <3>2, <3>3 DEF Indexed
  <2>7. Standing(x, standing)
    <3> SUFFICES ASSUME NEW p \in w.pitches, NEW f \in w.pitch[p].fires, f[1] # 0
                 PROVE  f \in standing /\ index[f[1]] = p
      BY <2>4 DEF Standing
    <3>1. f \in standing /\ w.by_msg[f[1]] = p /\ p # 0
      BY <1>2, <2>5, FlowBasics DEF Standing
    <3>2. w.pitch[p] \in Pitch
      BY <1>5, <2>5
    <3>3. f[1] \in Msgs
      BY <3>2, FlowBasics DEF Pitch, Msgs
    <3> QED BY <1>7, <2>3, <3>1, <3>3
  <2>8. Started(x, cb)
    BY <1>2, <2>4 DEF Started
  <2> QED BY <2>4, <2>6, <2>7, <2>8 DEF Sound
<1> HIDE DEF x
<1> QED BY <1>1, <1>3, <1>4, <1>7

\* Handlers that hear a message: it is pruned for and may reveal a riff.
LEMMA HeardGood ==
    ASSUME NEW n \in Nat, sent = 1..n, Sound(view, n, credited, callback),
           NEW reply \in sent \cup {0}
    PROVE  Sound(heard(reply), n, credited, callback)
<1>1. Sound(prune(view), n, credited, callback)
  BY PruneGood
<1>2. reply # 0 => reply \in Msgs /\ reply <= n
  BY DEF sent
<1>3. reply # 0 => Sound(resolve(prune(view), reply), n, credited, callback)
  BY <1>1, <1>2, ResolveGood
<1> QED BY <1>1, <1>3 DEF heard

\* A handler that asks for nothing leaves its view.
LEMMA QuietGood ==
    ASSUME NEW v \in FlowView, no_request(v)
    PROVE  view' = v /\ callback' = callback
<1>1. v = [pitches |-> v.pitches, pitch |-> v.pitch, by_msg |-> v.by_msg]
  BY DEF FlowView
<1> QED BY <1>1 DEF no_request, view

\* An open pitch has been sent.
LEMMA OpenIsSent ==
    ASSUME NEW v, NEW n \in Nat, NEW standing, NEW cb, Sound(v, n, standing, cb),
           NEW p \in v.pitches
    PROVE  p \in Msgs /\ p <= n
<1>1. p \in Msgs /\ v.by_msg[p] = p /\ p # 0
  BY FlowBasics DEF Sound, FlowView, Indexed
<1>2. p \in Nat /\ ~(p > n)
  BY <1>1 DEF Sound, Indexed, Msgs
<1> QED BY <1>1, <1>2

\* _emit: drafted is set before the callback runs, and a pitch not drafted has no draft
\* recorded and no callback under way.
LEMMA EmitGood ==
    ASSUME NEW v, NEW n \in Nat, NEW standing, Sound(v, n, standing, callback),
           Recorded(n, callback, requested), NEW p \in v.pitches, ~v.pitch[p].drafted, emit(v, p)
    PROVE  Sound(view', n, standing, callback') /\ Recorded(n, callback', requested)
<1> DEFINE r == [v.pitch[p] EXCEPT !.drafted = TRUE]
           obj == [v.pitch EXCEPT ![p] = r]
           cb == [callback EXCEPT ![p] = "running"]
           w == [pitches |-> v.pitches, pitch |-> obj, by_msg |-> v.by_msg]
<1>1. view' = w /\ callback' = cb
  BY DEF emit, view
<1>2. p \in Msgs /\ p <= n
  BY OpenIsSent
<1>3. v \in FlowView /\ Indexed(v, n) /\ Standing(v, standing) /\ Started(v, callback)
  BY DEF Sound
<1>4. v.pitches \subseteq Msgs /\ v.pitch \in [Msgs -> Pitch]
        /\ v.by_msg \in [Msgs -> 0..MaxMessages]
  BY <1>3 DEF FlowView
<1>5. r \in Pitch /\ r.drafted = TRUE /\ r.fires = v.pitch[p].fires
  <2>1. v.pitch[p] \in Pitch
    BY <1>2, <1>4
  <2> QED BY <2>1 DEF Pitch
<1> HIDE DEF r
<1>6. obj \in [Msgs -> Pitch] /\ obj[p] = r /\ \A q \in Msgs \ {p} : obj[q] = v.pitch[q]
  BY <1>2, <1>4, <1>5
<1> HIDE DEF obj
<1>7. w \in FlowView /\ w.pitches = v.pitches /\ w.pitch = obj /\ w.by_msg = v.by_msg
  BY <1>4, <1>6 DEF FlowView
<1> HIDE DEF w
<1>8. callback \in [Msgs -> Outcomes] /\ callback[p] = "none" /\ requested[p] = 0
  <2>1. callback \in [Msgs -> Outcomes] /\ callback[p] = "none"
    BY <1>3 DEF Started, Recorded
  <2> QED BY <1>2, <2>1 DEF Recorded
<1>9. cb \in [Msgs -> Outcomes] /\ cb[p] = "running" /\ \A q \in Msgs \ {p} : cb[q] = callback[q]
  BY <1>2, <1>8 DEF Outcomes
<1> HIDE DEF cb
<1>10. Indexed(w, n)
  BY <1>3, <1>7 DEF Indexed
<1>11. Standing(w, standing)
  BY <1>3, <1>4, <1>5, <1>6, <1>7 DEF Standing
<1>12. Started(w, cb)
  BY <1>3, <1>4, <1>5, <1>6, <1>7, <1>9 DEF Started
<1>13. Recorded(n, cb, requested)
  <2>1. \A q \in Msgs : q > n => q # p
    BY <1>2 DEF Msgs
  <2> QED BY <1>8, <1>9, <2>1 DEF Recorded
<1> QED BY <1>1, <1>7, <1>10, <1>11, <1>12, <1>13 DEF Sound

\* With these fires on pitch p, every counted fire stands.
Backed(v, p, fires, standing) ==
    /\ fires \in SUBSET ((0..MaxMessages) \X Users)
    /\ \A f \in fires : f[1] # 0 => f \in standing /\ v.by_msg[f[1]] = p
    /\ \A q \in v.pitches \ {p} : \A f \in v.pitch[q].fires : f[1] # 0 => f \in standing

LEMMA FiresGood ==
    ASSUME NEW v, NEW n \in Nat, NEW before, NEW standing, NEW cb,
           Sound(v, n, before, cb), NEW p \in v.pitches,
           NEW fires, Backed(v, p, fires, standing)
    PROVE  Sound(with_fires(v, p, fires), n, standing, cb)
             /\ with_fires(v, p, fires).pitches = v.pitches
<1> DEFINE r == [v.pitch[p] EXCEPT !.fires = fires]
           obj == [v.pitch EXCEPT ![p] = r]
           w == [v EXCEPT !.pitch = obj]
<1>1. with_fires(v, p, fires) = w
  BY DEF with_fires
<1>2. v \in FlowView /\ Indexed(v, n) /\ Standing(v, before) /\ Started(v, cb)
  BY DEF Sound
<1>3. v.pitches \subseteq Msgs /\ v.pitch \in [Msgs -> Pitch]
        /\ v.by_msg \in [Msgs -> 0..MaxMessages]
  BY <1>2 DEF FlowView
<1>4. p \in Msgs /\ v.pitch[p] \in Pitch
  BY <1>3
<1>5. r \in Pitch /\ r.drafted = v.pitch[p].drafted /\ r.fires = fires
  BY <1>4 DEF Pitch, Backed
<1> HIDE DEF r
<1>6. obj \in [Msgs -> Pitch] /\ obj[p] = r /\ \A q \in Msgs \ {p} : obj[q] = v.pitch[q]
  BY <1>3, <1>4, <1>5
<1> HIDE DEF obj
<1>7. w \in FlowView /\ w.pitches = v.pitches /\ w.pitch = obj /\ w.by_msg = v.by_msg
  BY <1>2, <1>6 DEF FlowView
<1> HIDE DEF w
<1>8. Indexed(w, n)
  BY <1>2, <1>7 DEF Indexed
<1>9. Standing(w, standing)
  <2> SUFFICES ASSUME NEW q \in v.pitches, NEW f \in obj[q].fires, f[1] # 0
               PROVE  f \in standing /\ v.by_msg[f[1]] = q
    BY <1>7 DEF Standing
  <2>1. CASE q = p
    BY <1>5, <1>6, <2>1 DEF Backed
  <2>2. CASE q # p
    <3>1. f \in v.pitch[q].fires
      BY <1>3, <1>6, <2>2
    <3> QED BY <1>2, <2>2, <3>1 DEF Standing, Backed
  <2> QED BY <2>1, <2>2
<1>10. Started(w, cb)
  BY <1>2, <1>3, <1>5, <1>6, <1>7 DEF Started
<1>11. Sound(w, n, standing, cb) /\ w.pitches = v.pitches
  BY <1>7, <1>8, <1>9, <1>10 DEF Sound
<1> QED BY <1>1, <1>11

\* A new fire, and the draft request it may trigger.
LEMMA FireGood ==
    ASSUME NEW v, NEW n \in Nat, NEW standing, Sound(v, n, credited, callback),
           Recorded(n, callback, requested), credited \subseteq standing, NEW p \in v.pitches,
           NEW f \in (0..MaxMessages) \X Users, f[1] # 0 => f \in standing /\ v.by_msg[f[1]] = p,
           fire(v, p, f)
    PROVE  Sound(view', n, standing, callback') /\ Recorded(n, callback', requested)
<1> DEFINE fires == v.pitch[p].fires \cup {f}
           w == with_fires(v, p, fires)
<1>1. v \in FlowView /\ Standing(v, credited)
  BY DEF Sound
<1>2. v.pitches \subseteq Msgs /\ v.pitch \in [Msgs -> Pitch]
  BY <1>1 DEF FlowView
<1>3. v.pitch[p] \in Pitch
  BY <1>2
<1>4. fires \in SUBSET ((0..MaxMessages) \X Users)
  BY <1>3 DEF Pitch
<1>5. \A g \in fires : g[1] # 0 => g \in standing /\ v.by_msg[g[1]] = p
  BY <1>1 DEF Standing
<1>6. \A q \in v.pitches \ {p} : \A g \in v.pitch[q].fires : g[1] # 0 => g \in standing
  BY <1>1 DEF Standing
<1>7. (~w.pitch[p].drafted /\ emit(w, p)) \/ no_request(w)
  BY DEF fire
<1>11. Backed(v, p, fires, standing)
  BY <1>4, <1>5, <1>6 DEF Backed
<1> HIDE DEF fires
<1>8. Sound(w, n, standing, callback) /\ p \in w.pitches
  BY <1>11, FiresGood
<1> HIDE DEF w
<1>9. CASE no_request(w)
  <2>1. view' = w /\ callback' = callback
    BY <1>8, <1>9, QuietGood DEF Sound
  <2> QED BY <1>8, <2>1
<1>10. CASE ~w.pitch[p].drafted /\ emit(w, p)
  BY <1>8, <1>10, EmitGood
<1> QED BY <1>7, <1>9, <1>10

\* What holds of a chat of n messages holds when there are more.
LEMMA LaterGood ==
    ASSUME NEW v, NEW n \in Nat, NEW standing, NEW cb, NEW req
    PROVE  /\ Sound(v, n, standing, cb) => Sound(v, n + 1, standing, cb)
           /\ Recorded(n, cb, req) => Recorded(n + 1, cb, req)
<1>1. \A m \in Msgs : m > n + 1 => m > n
  BY DEF Msgs
<1> QED BY <1>1 DEF Sound, Indexed, Recorded

\* Telegram's next message id is the next number.
LEMMA SendsNext ==
    ASSUME NEW n \in 0..MaxMessages, sent = 1..n, kind \in [Msgs -> MessageKinds],
           NEW k \in MessageKinds \ {"none"}, send(next_id, k)
    PROVE  /\ next_id = n + 1 /\ n + 1 \in Msgs /\ n + 1 \in 0..MaxMessages
           /\ kind' \in [Msgs -> MessageKinds] /\ sent' = 1..(n + 1)
<1>1. n \in Nat /\ MaxMessages \in Nat
  BY FlowBasics
<1>2. Cardinality(1..n) = n
  <2>1. Cardinality(1..n) = IF 1 > n THEN 0 ELSE n - 1 + 1
    BY <1>1, FS_Interval
  <2> QED BY <1>1, <2>1
<1>3. next_id = n + 1
  BY <1>2 DEF next_id
<1>4. n + 1 \in Msgs /\ kind' = [kind EXCEPT ![n + 1] = k]
  BY <1>3 DEF send
<1>5. kind' \in [Msgs -> MessageKinds] /\ kind'[n + 1] # "none" /\ \A m \in Msgs \ {n + 1} :
      kind'[m] = kind[m]
  BY <1>4
<1>6. sent' = sent \cup {n + 1}
  BY <1>4, <1>5 DEF sent
<1>7. 1..(n + 1) = 1..n \cup {n + 1}
  BY <1>1
<1>8. n + 1 \in 0..MaxMessages
  BY <1>1, <1>4 DEF Msgs
<1> QED BY <1>3, <1>4, <1>5, <1>6, <1>7, <1>8

\* What a step starts from.
Under(n) ==
    /\ n \in 0..MaxMessages /\ n \in Nat /\ sent = 1..n
    /\ Sound(view, n, credited, callback) /\ Recorded(n, callback, requested)
    /\ (\A s \in ships : s.reply \in 0..n) /\ (\A f \in credited : f[1] \in 1..n)

LEMMA UnderSome ==
    ASSUME FlowInv
    PROVE  \E n \in 0..MaxMessages : Under(n)
  BY FlowBasics DEF FlowInv, Under

\* A handler of a new message.
LEMMA MessageKeeps ==
    ASSUME FlowInv, NEW n \in 0..MaxMessages, Under(n),
           NEW k \in MessageKinds \ {"none"}, send(next_id, k), UNCHANGED <<time, credited>>,
           Sound(view', n + 1, credited', callback'), Recorded(n + 1, callback', requested'),
           \A s \in ships' : s.reply \in 0..n
    PROVE  FlowInv'
<1>1. kind \in [Msgs -> MessageKinds] /\ n \in Nat /\ time \in 0..MaxTime
  BY FlowBasics DEF FlowInv
<1>2. n + 1 \in 0..MaxMessages /\ kind' \in [Msgs -> MessageKinds] /\ sent' = 1..(n + 1)
  BY <1>1, SendsNext DEF Under
<1>3. (\A s \in ships' : s.reply \in 0..(n + 1)) /\ (\A f \in credited' : f[1] \in 1..(n + 1))
  BY <1>1 DEF Under
<1> QED BY <1>1, <1>2, <1>3 DEF FlowInv

\* A message that asks for nothing.
LEMMA HearKeeps ==
    ASSUME FlowInv, NEW n \in 0..MaxMessages, Under(n), NEW reply \in sent \cup {0},
           send(next_id, "talk"), no_request(heard(reply)), UNCHANGED <<time, credited, requested>>,
           \A s \in ships' : s.reply \in 0..n
    PROVE  FlowInv'
<1>1. n \in Nat /\ sent = 1..n /\ Sound(view, n, credited, callback) /\ Recorded(n, callback, requested)
  BY DEF Under
<1>2. Sound(heard(reply), n, credited, callback)
  BY <1>1, HeardGood
<1>3. view' = heard(reply) /\ callback' = callback
  BY <1>2, QuietGood DEF Sound
<1>4. Sound(view', n + 1, credited', callback') /\ Recorded(n + 1, callback', requested')
  BY <1>1, <1>2, <1>3, LaterGood
<1>5. "talk" \in MessageKinds \ {"none"}
  BY DEF MessageKinds
<1> QED BY <1>4, <1>5, MessageKeeps

LEMMA TalkKeeps ==
    ASSUME FlowInv, NEW reply \in sent \cup {0},
           Talk(reply) \/ \E named : ShipIt(reply, named)
    PROVE  FlowInv'
<1>1. PICK n \in 0..MaxMessages : Under(n)
  BY UnderSome
<1>2. CASE Talk(reply)
  BY <1>1, <1>2, HearKeeps DEF Talk, Under, credited
<1>3. ASSUME NEW named, ShipIt(reply, named) PROVE FlowInv'
  <2>1. reply \in 0..n
    BY <1>1 DEF Under
  <2>2. \A s \in ships' : s.reply \in 0..n
    BY <1>3, <2>1 DEF ShipIt
  <2> QED BY <1>1, <1>3, <2>2, HearKeeps DEF ShipIt, credited
<1> QED BY <1>2, <1>3

\* A new pitch is its own message, with no fires and no callback yet.
LEMMA PitchKeeps ==
    ASSUME FlowInv, NEW u \in Users, NEW reply \in sent \cup {0},
           PitchMessage(u, reply)
    PROVE  FlowInv'
<1>1. PICK n \in 0..MaxMessages : Under(n)
  BY UnderSome
<1>2. /\ n \in Nat /\ sent = 1..n /\ Sound(view, n, credited, callback)
         /\ Recorded(n, callback, requested)
      /\ kind \in [Msgs -> MessageKinds] /\ time \in 0..MaxTime /\ "pitch" \in MessageKinds \ {"none"}
  BY <1>1 DEF Under, FlowInv, MessageKinds
<1> DEFINE m == next_id
           v == heard(reply)
           r == [NoPitch EXCEPT !.author = u, !.created_at = time]
           obj == [v.pitch EXCEPT ![m] = r]
           index == [v.by_msg EXCEPT ![m] = m]
           w == [pitches |-> v.pitches \cup {m}, pitch |-> obj, by_msg |-> index]
<1>3. send(m, "pitch") /\ no_request(prune(w)) /\ UNCHANGED <<time, credited, cards, ships, requested>>
  BY DEF PitchMessage, credited
<1>4. Sound(v, n, credited, callback)
  BY <1>2, HeardGood
<1>5. m = n + 1 /\ m \in Msgs
  BY <1>1, <1>2, <1>3, SendsNext
<1> HIDE DEF m, v
<1>6. v \in FlowView /\ Indexed(v, n) /\ Standing(v, credited) /\ Started(v, callback)
  BY <1>4 DEF Sound
<1>7. v.pitches \subseteq Msgs /\ v.pitch \in [Msgs -> Pitch]
        /\ v.by_msg \in [Msgs -> 0..MaxMessages]
  BY <1>6 DEF FlowView
<1>8. r \in Pitch /\ r.fires = {}
  BY <1>2, FlowBasics DEF NoPitch, Pitch
<1> HIDE DEF r
<1>9. obj \in [Msgs -> Pitch] /\ obj[m] = r /\ \A q \in Msgs \ {m} : obj[q] = v.pitch[q]
  BY <1>5, <1>7, <1>8
<1>10. index \in [Msgs -> 0..MaxMessages] /\ index[m] = m /\ \A q \in Msgs \ {m} :
       index[q] = v.by_msg[q]
  <2>1. m \in 0..MaxMessages
    BY <1>5, FlowBasics DEF Msgs
  <2> QED BY <1>5, <1>7, <2>1
<1> HIDE DEF obj, index
<1>11. w \in FlowView /\ w.pitches = v.pitches \cup {m} /\ w.pitch = obj /\ w.by_msg = index
  BY <1>5, <1>7, <1>9, <1>10 DEF FlowView
<1> HIDE DEF w
<1>12. v.by_msg[m] = 0 /\ callback[m] = "none"
  <2>1. m > n
    BY <1>2, <1>5
  <2> QED BY <1>2, <1>5, <1>6, <2>1 DEF Indexed, Recorded
<1>13. \A p \in v.pitches : p \in Msgs /\ p # m /\ p # 0
  <2>1. \A p \in v.pitches : p \in Msgs /\ v.by_msg[p] = p /\ p # 0
    BY <1>6, <1>7, FlowBasics DEF Indexed
  <2> QED BY <1>12, <2>1
<1>14. Indexed(w, n + 1)
  <2>1. \A q \in Msgs : w.by_msg[q] \in w.pitches \cup {0}
    BY <1>6, <1>10, <1>11 DEF Indexed
  <2>2. \A p \in w.pitches : w.by_msg[p] = p
    BY <1>6, <1>10, <1>11, <1>13 DEF Indexed
  <2>3. \A q \in Msgs : q > n + 1 => q > n /\ q # m
    BY <1>2, <1>5 DEF Msgs
  <2>4. \A q \in Msgs : q > n + 1 => w.by_msg[q] = 0
    BY <1>6, <1>10, <1>11, <2>3 DEF Indexed
  <2> QED BY <2>1, <2>2, <2>4 DEF Indexed
<1>15. Standing(w, credited)
  <2> SUFFICES ASSUME NEW p \in v.pitches, NEW f \in v.pitch[p].fires, f[1] # 0
               PROVE  f \in credited /\ index[f[1]] = p
    BY <1>8, <1>9, <1>11, <1>13 DEF Standing
  <2>1. f \in credited /\ v.by_msg[f[1]] = p /\ p # 0
    BY <1>6, <1>13 DEF Standing
  <2>2. v.pitch[p] \in Pitch
    BY <1>7, <1>13
  <2>3. f[1] \in Msgs
    BY <2>2, FlowBasics DEF Pitch, Msgs
  <2> QED BY <1>10, <1>12, <2>1, <2>3
<1>16. Started(w, callback)
  BY <1>6, <1>9, <1>11, <1>12, <1>13 DEF Started
<1>17. Sound(w, n + 1, credited, callback)
  BY <1>11, <1>14, <1>15, <1>16 DEF Sound
<1>18. Sound(prune(w), n + 1, credited, callback) /\ n + 1 \in Nat
  BY <1>2, <1>17, PruneGood
<1>19. view' = prune(w) /\ callback' = callback
  BY <1>3, <1>18, QuietGood DEF Sound
<1>20. Recorded(n + 1, callback, requested)
  BY <1>2, LaterGood
<1>21. \A s \in ships' : s.reply \in 0..n
  BY <1>1, <1>3 DEF Under
<1>22. Sound(view', n + 1, credited', callback') /\ Recorded(n + 1, callback', requested')
  BY <1>3, <1>18, <1>19, <1>20
<1> QED BY <1>1, <1>2, <1>3, <1>21, <1>22, MessageKeeps DEF m

LEMMA FireReplyKeeps ==
    ASSUME FlowInv, NEW u \in Users, NEW reply \in sent, FireReply(u, reply)
    PROVE  FlowInv'
<1>1. PICK n \in 0..MaxMessages : Under(n)
  BY UnderSome
<1>2. /\ n \in Nat /\ sent = 1..n /\ Sound(view, n, credited, callback)
         /\ Recorded(n, callback, requested)
      /\ "talk" \in MessageKinds \ {"none"} /\ reply \in Msgs /\ reply <= n
  BY <1>1 DEF Under, MessageKinds, sent
<1> DEFINE v == resolve(prune(view), reply)
           p == v.by_msg[reply]
<1>3. Sound(v, n, credited, callback)
  BY <1>2, PruneGood, ResolveGood
<1>4. /\ send(next_id, "talk") /\ UNCHANGED <<time, credited, cards, ships, requested>>
      /\ (p # 0 /\ fire(v, p, <<0, u>>)) \/ no_request(v)
  BY DEF FireReply, credited
<1> HIDE DEF v
<1>5. Sound(view', n, credited, callback') /\ Recorded(n, callback', requested)
  <2>1. CASE no_request(v)
    <3>1. view' = v /\ callback' = callback
      BY <1>3, <2>1, QuietGood DEF Sound
    <3> QED BY <1>2, <1>3, <3>1
  <2>2. CASE p # 0 /\ fire(v, p, <<0, u>>)
    <3>1. p \in v.pitches
      BY <1>2, <1>3, <2>2 DEF Sound, Indexed
    <3>2. <<0, u>> \in (0..MaxMessages) \X Users /\ <<0, u>>[1] = 0
      BY FlowBasics
    <3> HIDE DEF p
    <3>3. credited \subseteq credited
      OBVIOUS
    <3> QED BY <1>2, <1>3, <2>2, <3>1, <3>2, <3>3, FireGood
  <2> QED BY <1>4, <2>1, <2>2
<1>6. Sound(view', n + 1, credited', callback') /\ Recorded(n + 1, callback', requested')
  BY <1>2, <1>4, <1>5, LaterGood
<1>7. \A s \in ships' : s.reply \in 0..n
  BY <1>1, <1>4 DEF Under
<1> QED BY <1>1, <1>2, <1>4, <1>6, <1>7, MessageKeeps

\* No new message: the chat stays 1..n.
LEMMA QuietChat ==
    ASSUME FlowInv, NEW n \in 0..MaxMessages, Under(n), UNCHANGED <<time, kind>>,
           Sound(view', n, credited', callback'), Recorded(n, callback', requested'), ships' \subseteq ships,
           \A f \in credited' : f[1] \in 1..n
    PROVE  FlowInv'
<1>1. sent' = 1..n /\ kind' \in [Msgs -> MessageKinds] /\ time' \in 0..MaxTime
  BY DEF Under, FlowInv, sent
<1>2. \A s \in ships' : s.reply \in 0..n
  BY DEF Under
<1> QED BY <1>1, <1>2 DEF FlowInv

\* A fire counts for the pitch its message is indexed under.
LEMMA ReactKeeps ==
    ASSUME FlowInv, NEW u \in Users, NEW m \in Msgs, React(u, m)
    PROVE  FlowInv'
<1>1. PICK n \in 0..MaxMessages : Under(n)
  BY UnderSome
<1>2. /\ n \in Nat /\ m <= n /\ Sound(view, n, credited, callback) /\ Recorded(n, callback, requested)
  BY <1>1 DEF Under, React
<1> DEFINE v == resolve(view, m)
           p == v.by_msg[m]
           f == <<m, u>>
<1>3. Sound(v, n, credited, callback)
  BY <1>2, ResolveGood
<1>4. /\ credited' = credited \cup {f} /\ UNCHANGED <<time, kind, cards, ships, requested>>
      /\ (p # 0 /\ fire(v, p, f)) \/ (p = 0 /\ no_request(v))
  BY DEF React, credited
<1> HIDE DEF v
<1>5. Sound(view', n, credited', callback') /\ Recorded(n, callback', requested)
  <2>1. CASE no_request(v)
    <3>1. view' = v /\ callback' = callback
      BY <1>3, <2>1, QuietGood DEF Sound
    <3>2. Standing(v, credited')
      BY <1>3, <1>4 DEF Sound, Standing
    <3> QED BY <1>2, <1>3, <3>1, <3>2 DEF Sound
  <2>2. CASE p # 0 /\ fire(v, p, f)
    <3>1. p \in v.pitches
      BY <1>2, <1>3, <2>2 DEF Sound, Indexed
    <3>2. f \in (0..MaxMessages) \X Users /\ f[1] = m /\ f \in credited' /\ credited \subseteq credited'
      BY <1>4, FlowBasics DEF Msgs
    <3>3. f[1] # 0 => f \in credited' /\ v.by_msg[f[1]] = p
      BY <3>2
    <3> HIDE DEF p, f
    <3> QED BY <1>2, <1>3, <2>2, <3>1, <3>2, <3>3, FireGood
  <2> QED BY <1>4, <2>1, <2>2
<1>6. ships' \subseteq ships /\ Recorded(n, callback', requested') /\ \A g \in credited' : g[1] \in 1..n
  <2>1. m \in 1..n /\ f[1] = m
    BY <1>2 DEF Msgs
  <2> QED BY <1>1, <1>4, <1>5, <2>1 DEF Under
<1> QED BY <1>1, <1>4, <1>5, <1>6, QuietChat

\* A fire taken back is counted by no pitch: only the one its message is indexed under
\* could, and there it is removed.
LEMMA UnreactKeeps ==
    ASSUME FlowInv, NEW u \in Users, NEW m \in Msgs, Unreact(u, m)
    PROVE  FlowInv'
<1>1. PICK n \in 0..MaxMessages : Under(n)
  BY UnderSome
<1> DEFINE v == resolve(view, m)
           p == v.by_msg[m]
           f == <<m, u>>
           fires == v.pitch[p].fires \ {f}
           w == with_fires(v, p, fires)
<1>2. /\ n \in Nat /\ Sound(view, n, credited, callback) /\ Recorded(n, callback, requested)
      /\ f \in credited /\ f[1] = m /\ m # 0 /\ \A g \in credited : g[1] \in 1..n
  BY <1>1, FlowBasics DEF Under, Unreact, credited
<1>3. /\ credited \ {f} \subseteq credited' /\ credited' \subseteq credited
      /\ UNCHANGED <<time, kind, cards, ships, requested>>
      /\ (p # 0 /\ no_request(w)) \/ (p = 0 /\ no_request(v))
  BY DEF Unreact, credited
<1>4. Sound(v, n, credited, callback)
  <2>1. m <= n
    BY <1>2
  <2> QED BY <1>2, <2>1, ResolveGood
<1> HIDE DEF v
<1>5. v \in FlowView /\ Standing(v, credited) /\ Indexed(v, n)
  BY <1>4 DEF Sound
<1>6. v.pitches \subseteq Msgs /\ v.pitch \in [Msgs -> Pitch]
  BY <1>5 DEF FlowView
<1>7. \A q \in v.pitches : q # p => f \notin v.pitch[q].fires
  BY <1>2, <1>5 DEF Standing
<1>10. \A g \in credited' : g[1] \in 1..n
  BY <1>2, <1>3
<1> HIDE DEF f
<1>8. CASE p # 0 /\ no_request(w)
  <2>1. p \in v.pitches
    BY <1>5, <1>8 DEF Indexed
  <2>2. v.pitch[p] \in Pitch
    BY <1>6, <2>1
  <2> HIDE DEF p
  <2>3. fires \in SUBSET ((0..MaxMessages) \X Users)
    BY <2>2 DEF Pitch
  <2>4. Backed(v, p, fires, credited')
    <3>1. \A g \in fires : g[1] # 0 => g \in credited' /\ v.by_msg[g[1]] = p
      BY <1>3, <1>5, <2>1 DEF Standing
    <3>2. \A q \in v.pitches \ {p} : \A g \in v.pitch[q].fires : g[1] # 0 => g \in credited'
      BY <1>3, <1>5, <1>7 DEF Standing
    <3> QED BY <2>3, <3>1, <3>2 DEF Backed
  <2> HIDE DEF fires
  <2>5. Sound(w, n, credited', callback)
    BY <1>2, <1>4, <2>1, <2>4, FiresGood
  <2>6. view' = w /\ callback' = callback
    BY <1>8, <2>5, QuietGood DEF Sound
  <2> HIDE DEF w
  <2>7. Sound(view', n, credited', callback') /\ Recorded(n, callback', requested') /\ ships' \subseteq ships
    BY <1>2, <1>3, <2>5, <2>6
  <2> QED BY <1>1, <1>3, <1>10, <2>7, QuietChat
<1>9. CASE p = 0 /\ no_request(v)
  <2>1. \A q \in v.pitches : q # p
    BY <1>6, <1>9, FlowBasics
  <2> HIDE DEF p
  <2>2. Standing(v, credited')
    BY <1>3, <1>5, <1>7, <2>1 DEF Standing
  <2>3. view' = v /\ callback' = callback
    BY <1>5, <1>9, QuietGood
  <2>4. Sound(view', n, credited', callback') /\ Recorded(n, callback', requested') /\ ships' \subseteq ships
    BY <1>2, <1>3, <1>4, <2>2, <2>3 DEF Sound
  <2> QED BY <1>1, <1>3, <1>10, <2>4, QuietChat
<1> QED BY <1>3, <1>8, <1>9

\* A take-back that is ignored leaves the fire in every pitch that counts it.
LEMMA UnreactIgnoredKeeps ==
    ASSUME FlowInv, NEW u \in Users, NEW m \in Msgs, UnreactIgnored(u, m)
    PROVE  FlowInv'
<1>1. PICK n \in 0..MaxMessages : Under(n)
  BY UnderSome
<1> DEFINE f == <<m, u>>
           counted == UNION {pitch[p].fires : p \in pitches}
<1>2. /\ n \in Nat /\ Sound(view, n, credited, callback) /\ Recorded(n, callback, requested)
      /\ f \in credited /\ \A g \in credited : g[1] \in 1..n
  BY <1>1 DEF Under, UnreactIgnored, credited
<1>3. /\ credited \ {f} \subseteq credited' /\ credited' \subseteq credited
      /\ f \in counted => f \in credited'
      /\ view' = view /\ UNCHANGED <<time, kind, callback, ships, requested>>
  BY DEF UnreactIgnored, credited, view
<1>4. \A p \in pitches : \A g \in pitch[p].fires : g \in counted
  OBVIOUS
<1> HIDE DEF f, counted
<1>5. Standing(view, credited')
  BY <1>2, <1>3, <1>4 DEF Sound, Standing, view
<1>6. Sound(view', n, credited', callback') /\ Recorded(n, callback', requested')
      /\ ships' \subseteq ships /\ \A g \in credited' : g[1] \in 1..n
  BY <1>2, <1>3, <1>5 DEF Sound
<1> QED BY <1>1, <1>3, <1>6, QuietChat

\* The host's "ship it" drafts a pitch that is open after the lookup, and not drafted then.
LEMMA ShipKeeps ==
    ASSUME FlowInv, NEW s \in ships, ShipResolve(s) \/ ShipDropped(s)
    PROVE  FlowInv'
<1>1. PICK n \in 0..MaxMessages : Under(n)
  BY UnderSome
<1>2. /\ n \in Nat /\ sent = 1..n /\ Sound(view, n, credited, callback)
         /\ Recorded(n, callback, requested)
      /\ s.reply \in 0..n
  BY <1>1 DEF Under
<1>3. CASE ShipDropped(s)
  <2>1. /\ UNCHANGED <<time, kind>> /\ view' = view /\ callback' = callback /\ requested' = requested
        /\ credited' = credited /\ ships' \subseteq ships /\ \A g \in credited' : g[1] \in 1..n
    BY <1>1, <1>3 DEF ShipDropped, view, Under, credited
  <2>2. Sound(view', n, credited', callback') /\ Recorded(n, callback', requested')
    BY <1>2, <2>1
  <2> QED BY <1>1, <2>1, <2>2, QuietChat
<1>4. CASE ShipResolve(s)
  <2> DEFINE v == IF s.reply = 0 THEN view ELSE resolve(view, s.reply)
             replied == IF s.reply = 0 THEN 0 ELSE v.by_msg[s.reply]
             w == IF replied # 0 THEN v ELSE prune(v)
             named == {p \in s.named : p \in w.pitches /\ ~w.pitch[p].drafted}
             target == IF replied # 0 THEN {replied}
                       ELSE IF Cardinality(named) = 1 THEN named ELSE {}
  <2>1. s.reply # 0 => s.reply \in Msgs /\ s.reply <= n
    <3>1. s.reply # 0 => s.reply \in 1..n
      BY <1>2
    <3> QED BY <1>2, <3>1 DEF sent
  <2>2. Sound(v, n, credited, callback)
    BY <1>2, <2>1, ResolveGood
  <2>3. /\ UNCHANGED <<time, kind, credited, cards, requested>> /\ ships' = ships \ {s}
        /\ (\E p \in target : ~w.pitch[p].drafted /\ emit(w, p)) \/ no_request(w)
    BY <1>4 DEF ShipResolve, credited
  <2> HIDE DEF v
  <2>4. replied # 0 => replied \in v.pitches
    BY <2>1, <2>2 DEF Sound, Indexed
  <2> HIDE DEF replied
  <2>5. Sound(w, n, credited, callback)
    BY <1>2, <2>2, PruneGood
  <2>6. target \subseteq w.pitches
    BY <2>4
  <2> HIDE DEF w, target
  <2>7. Sound(view', n, credited, callback') /\ Recorded(n, callback', requested)
    <3>1. CASE no_request(w)
      <4>1. view' = w /\ callback' = callback
        BY <2>5, <3>1, QuietGood DEF Sound
      <4> QED BY <1>2, <2>5, <4>1
    <3>2. ASSUME NEW p \in target, ~w.pitch[p].drafted, emit(w, p)
          PROVE  Sound(view', n, credited, callback') /\ Recorded(n, callback', requested)
      BY <1>2, <2>5, <2>6, <3>2, EmitGood
    <3> QED BY <2>3, <3>1, <3>2
  <2>8. /\ Sound(view', n, credited', callback') /\ Recorded(n, callback', requested')
           /\ ships' \subseteq ships
        /\ \A g \in credited' : g[1] \in 1..n
    BY <1>1, <2>3, <2>7 DEF Under
  <2> QED BY <1>1, <2>3, <2>8, QuietChat
<1> QED BY <1>3, <1>4

\* The callback returns, and may be asked for again only if it raised.
LEMMA CallbackKeeps ==
    ASSUME FlowInv, NEW p \in Msgs,
           CallbackRecords(p) \/ CallbackGivesUp(p) \/ CallbackRaises(p)
    PROVE  FlowInv'
<1>1. PICK n \in 0..MaxMessages : Under(n)
  BY UnderSome
<1>2. /\ n \in Nat /\ Sound(view, n, credited, callback) /\ Recorded(n, callback, requested)
      /\ callback[p] = "running" /\ UNCHANGED <<time, kind, credited, cards, ships>>
      /\ \A g \in credited' : g[1] \in 1..n
  BY <1>1 DEF Under, CallbackRecords, CallbackRaises, CallbackGivesUp, credited
<1>3. /\ callback \in [Msgs -> Outcomes] /\ requested \in [Msgs -> Nat] /\ requested[p] = 0
      /\ \A q \in Msgs : q > n => q # p
  BY <1>2 DEF Recorded
<1>4. view \in FlowView /\ Indexed(view, n) /\ Standing(view, credited)
        /\ Started(view, callback)
  BY <1>2 DEF Sound
<1>5. CASE CallbackRaises(p)
  <2> DEFINE r == [pitch[p] EXCEPT !.drafted = FALSE]
             obj == [pitch EXCEPT ![p] = r]
             cb == [callback EXCEPT ![p] = "none"]
             w == [pitches |-> pitches, pitch |-> obj, by_msg |-> by_msg]
  <2>1. callback' = cb /\ view' = w /\ requested' = requested
    BY <1>5 DEF CallbackRaises, view
  <2>2. /\ view.pitches = pitches /\ view.pitch = pitch /\ view.by_msg = by_msg
        /\ pitches \subseteq Msgs /\ pitch \in [Msgs -> Pitch]
           /\ by_msg \in [Msgs -> 0..MaxMessages]
    BY <1>4 DEF view, FlowView
  <2>3. r \in Pitch /\ r.fires = pitch[p].fires
    <3>1. pitch[p] \in Pitch
      BY <2>2
    <3> QED BY <3>1 DEF Pitch
  <2> HIDE DEF r
  <2>4. obj \in [Msgs -> Pitch] /\ obj[p] = r /\ \A q \in Msgs \ {p} : obj[q] = pitch[q]
    BY <2>2, <2>3
  <2> HIDE DEF obj
  <2>5. cb \in [Msgs -> Outcomes] /\ cb[p] = "none" /\ \A q \in Msgs \ {p} : cb[q] = callback[q]
    BY <1>3 DEF Outcomes
  <2> HIDE DEF cb
  <2>6. w \in FlowView /\ w.pitches = pitches /\ w.pitch = obj /\ w.by_msg = by_msg
    BY <2>2, <2>4 DEF FlowView
  <2> HIDE DEF w
  <2>7. Indexed(w, n)
    BY <1>4, <2>2, <2>6 DEF Indexed
  <2>8. Standing(w, credited)
    BY <1>4, <2>2, <2>3, <2>4, <2>6 DEF Standing
  <2>9. Started(w, cb)
    BY <1>4, <2>2, <2>4, <2>5, <2>6 DEF Started
  <2>10. Recorded(n, cb, requested)
    BY <1>2, <1>3, <2>5 DEF Recorded
  <2>11. Sound(view', n, credited', callback') /\ Recorded(n, callback', requested') /\ ships' \subseteq ships
    BY <1>2, <2>1, <2>6, <2>7, <2>8, <2>9, <2>10 DEF Sound
  <2> QED BY <1>1, <1>2, <2>11, QuietChat
<1>6. ASSUME callback' = [callback EXCEPT ![p] = "done"], view' = view,
             requested' \in [Msgs -> Nat], requested'[p] <= 1,
             \A q \in Msgs \ {p} : requested'[q] = requested[q]
      PROVE  FlowInv'
  <2>1. /\ callback' \in [Msgs -> Outcomes] /\ callback'[p] = "done"
        /\ \A q \in Msgs \ {p} : callback'[q] = callback[q]
    BY <1>3, <1>6 DEF Outcomes
  <2>2. Started(view, callback')
    BY <1>2, <1>4, <2>1 DEF Started, FlowView
  <2>3. Recorded(n, callback', requested')
    BY <1>2, <1>3, <1>6, <2>1 DEF Recorded
  <2>4. Sound(view', n, credited', callback') /\ ships' \subseteq ships
    BY <1>2, <1>4, <1>6, <2>2 DEF Sound
  <2> QED BY <1>1, <1>2, <2>3, <2>4, QuietChat
<1>7. CASE CallbackRecords(p)
  <2>1. /\ callback' = [callback EXCEPT ![p] = "done"] /\ view' = view
        /\ requested' = [requested EXCEPT ![p] = @ + 1]
    BY <1>7 DEF CallbackRecords, view, flow
  <2>2. /\ requested' \in [Msgs -> Nat] /\ requested'[p] <= 1
        /\ \A q \in Msgs \ {p} : requested'[q] = requested[q]
    BY <1>3, <2>1
  <2> QED BY <1>6, <2>1, <2>2
<1>8. CASE CallbackGivesUp(p)
  <2>1. callback' = [callback EXCEPT ![p] = "done"] /\ view' = view /\ requested' = requested
    BY <1>8 DEF CallbackGivesUp, view, flow
  <2>2. /\ requested' \in [Msgs -> Nat] /\ requested'[p] <= 1
        /\ \A q \in Msgs \ {p} : requested'[q] = requested[q]
    BY <1>3, <2>1
  <2> QED BY <1>6, <2>1, <2>2
<1> QED BY <1>5, <1>7, <1>8

\* The bot's messages, the clock, and what Telegram tells the flow of a card.
LEMMA ChatKeeps ==
    ASSUME FlowInv,
           Riff \/ PostCard \/ TimePasses \/ (\E m \in Msgs : NoteCard(m))
             \/ UNCHANGED chat_vars
    PROVE  FlowInv'
<1>1. PICK n \in 0..MaxMessages : Under(n)
  BY UnderSome
<1>2. /\ n \in Nat /\ sent = 1..n /\ Sound(view, n, credited, callback)
         /\ Recorded(n, callback, requested)
      /\ (\A s \in ships : s.reply \in 0..n) /\ (\A f \in credited : f[1] \in 1..n)
  BY <1>1 DEF Under
<1>3. view' = view /\ UNCHANGED <<credited, callback, requested, ships>>
  BY DEF Riff, PostCard, TimePasses, NoteCard, chat_vars, flow, view, credited
<1>4. Sound(view', n, credited', callback') /\ Recorded(n, callback', requested')
  BY <1>2, <1>3
<1>5. ASSUME NEW k \in MessageKinds \ {"none"}, send(next_id, k), time' = time PROVE FlowInv'
  <2>1. Sound(view', n + 1, credited', callback') /\ Recorded(n + 1, callback', requested')
    BY <1>2, <1>4, LaterGood
  <2> QED BY <1>1, <1>2, <1>3, <1>5, <2>1, MessageKeeps
<1>6. CASE Riff \/ PostCard
  BY <1>5, <1>6 DEF Riff, PostCard, MessageKinds
<1>7. ASSUME kind' = kind, time' \in 0..MaxTime PROVE FlowInv'
  <2>1. sent' = 1..n /\ kind' \in [Msgs -> MessageKinds]
    BY <1>2, <1>7 DEF sent, FlowInv
  <2> QED BY <1>2, <1>3, <1>4, <1>7, <2>1 DEF FlowInv
<1>8. CASE TimePasses
  <2>1. time \in 0..MaxTime /\ MaxTime \in Nat
    BY FlowBasics DEF FlowInv
  <2>2. kind' = kind /\ time' \in 0..MaxTime
    BY <1>8, <2>1 DEF TimePasses
  <2> QED BY <1>7, <2>2
<1>9. ASSUME NEW m \in Msgs, NoteCard(m) PROVE FlowInv'
  BY <1>7, <1>9 DEF NoteCard, FlowInv
<1>10. CASE UNCHANGED chat_vars
  BY <1>7, <1>10 DEF chat_vars, FlowInv
<1> QED BY <1>6, <1>8, <1>9, <1>10

-----------------------------------------------------------------------------
LEMMA FlowStarts ==
    ASSUME FlowInit
    PROVE  FlowInv
<1>1. /\ time \in 0..MaxTime /\ kind \in [Msgs -> MessageKinds] /\ callback \in [Msgs -> Outcomes]
      /\ requested \in [Msgs -> Nat] /\ ships = {} /\ credited = {} /\ pitches = {}
      /\ \A m \in Msgs : kind[m] = "none" /\ callback[m] = "none" /\ requested[m] = 0 /\ by_msg[m] = 0
      /\ pitch \in [Msgs -> Pitch] /\ by_msg \in [Msgs -> 0..MaxMessages]
  BY FlowBasics DEF FlowInit, MessageKinds, Outcomes, credited
<1>2. view \in FlowView /\ view.pitches = {} /\ view.by_msg = by_msg
  BY <1>1 DEF view, FlowView
<1>3. Sound(view, 0, credited, callback)
  BY <1>1, <1>2 DEF Sound, Indexed, Standing, Started
<1>4. Recorded(0, callback, requested)
  BY <1>1 DEF Recorded
<1>5. sent = 1..0 /\ 0 \in 0..MaxMessages
  BY <1>1, FlowBasics DEF sent
<1> QED BY <1>1, <1>3, <1>4, <1>5 DEF FlowInv

LEMMA FlowSteps ==
    ASSUME FlowInv, [FlowNext]_chat_vars
    PROVE  FlowInv'
  BY PitchKeeps, TalkKeeps, FireReplyKeeps, ShipKeeps, ReactKeeps, UnreactKeeps,
     UnreactIgnoredKeeps, CallbackKeeps, ChatKeeps
     DEF FlowNext

\* Whatever is pruned, answered or revealed when: an indexed message leads to an open
\* pitch, and every open pitch is found by its own message.
THEOREM IndexIsOpen == FlowSpec => []IndexMatchesOpen
<1>1. FlowInv => IndexMatchesOpen
  BY DEF FlowInv, Sound, Indexed, IndexMatchesOpen, view
<1>2. FlowInit => FlowInv
  BY FlowStarts
<1>3. FlowInv /\ [FlowNext]_chat_vars => FlowInv'
  BY FlowSteps
<1> QED BY <1>1, <1>2, <1>3, PTL DEF FlowSpec

\* However fires, a "ship it" and callbacks that are slow, fail or raise interleave, a
\* pitch is drafted at most once; for any number of people, messages and pitches.
THEOREM DraftedOnce == FlowSpec => []OncePerPitch
<1>1. FlowInv => OncePerPitch
  BY DEF FlowInv, Recorded, OncePerPitch
<1>2. FlowInit => FlowInv
  BY FlowStarts
<1>3. FlowInv /\ [FlowNext]_chat_vars => FlowInv'
  BY FlowSteps
<1> QED BY <1>1, <1>2, <1>3, PTL DEF FlowSpec

\* A fire that was taken back never counts, whichever pitch its message joined, and also
\* after a callback that raised, unless the flow ignored the take-back because its author
\* was not authorized then.
THEOREM OnlyStandingFiresCount == FlowSpec => []CountedFiresStand
<1>1. FlowInv => CountedFiresStand
  BY DEF FlowInv, Sound, Standing, CountedFiresStand, view
<1>2. FlowInit => FlowInv
  BY FlowStarts
<1>3. FlowInv /\ [FlowNext]_chat_vars => FlowInv'
  BY FlowSteps
<1> QED BY <1>1, <1>2, <1>3, PTL DEF FlowSpec
=============================================================================
