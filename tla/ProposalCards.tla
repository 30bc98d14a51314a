---------------------------- MODULE ProposalCards ----------------------------
(***************************************************************************)
(* The proposal card of one proposal in one Telegram chat: the observer    *)
(* that posts or refreshes it after every write to the fund (_sync_card,   *)
(* serialized by an asyncio lock per proposal), the refresh job that edits *)
(* it every minute while the vote runs, and the back button, which edits   *)
(* it outside that lock.                                                   *)
(*                                                                         *)
(* All three are coroutines of the bot's event loop; a step is what runs   *)
(* between two awaits.  An edit is a request that Telegram carries out in  *)
(* its own time, so edits of two coroutines may land in any order.  The    *)
(* record is written by other threads (FundCoordination); what matters of  *)
(* it here is a version, the status and the stored message id.  What a     *)
(* card says is the version and status it was rendered from and, during    *)
(* the vote, the minutes left.                                             *)
(*                                                                         *)
(* Left out: the wording, photos, a record or chat binding that is         *)
(* deleted, an on-chain id that arrives after the card was posted.         *)
(***************************************************************************)
EXTENDS Naturals, Sequences, FiniteSets

CONSTANTS Syncs,        \* slots for _sync_card coroutines
          Tick, Tap,    \* the job's coroutine and the button handler's
          MaxVer,       \* bound: writes to the record
          Ends,         \* voting_ends_at, in minutes
          MaxFaults,    \* bound: failed calls, deletions and restarts
          JobQueue      \* the application has a PTB job queue

ASSUME CardAssumption ==
    /\ MaxVer \in Nat /\ Ends \in Nat /\ MaxFaults \in Nat /\ JobQueue \in BOOLEAN
    /\ Tick # Tap /\ Tick \notin Syncs /\ Tap \notin Syncs /\ "free" \notin Syncs

VARIABLES
    rec,        \* the proposal record in the fund's store
    stored,     \* its card_message_id; 0: none
    now,        \* the clock, in minutes
    connected,  \* the Telegram adapter is up
    events,     \* _sync_card coroutines submitted and not yet in the lock
    lock,       \* the holder of the card's asyncio lock, or "free"
    task,       \* the coroutines
    refs,       \* LiveCards.refs: the message edited for this card; 0: none
    last,       \* LiveCards._last: fingerprint of a message's known text
    job,        \* a refresh job is registered
    chat,       \* the messages posted as this card, and what each shows
    gone,       \* messages deleted from the chat
    faults,     \* failed calls, deletions and restarts so far
    lost,       \* history: posted messages whose id was never stored
    regressed   \* history: an edit replaced a later text

vars == <<rec, stored, now, connected, events, lock, task, refs, last, job, chat,
          gone, faults, lost, regressed>>

Statuses == {"draft", "proposed", "voting", "closed"}

View == [ver : 0..MaxVer, status : Statuses, card : Nat]

Text == [ver : 0..MaxVer, status : Statuses, left : 0..Ends]

NoView == [ver |-> 0, status |-> "draft", card |-> 0]

NoText == [ver |-> 0, status |-> "draft", left |-> 0]

Coroutines == Syncs \cup {Tick, Tap}

\* Where a coroutine awaits: a read of the record, the lookups of a render, a
\* request to Telegram, its answer, the answer to the tap, or the store.
Task == [pc : {"idle", "read", "render", "sent", "answered", "toggled",
               "postRead", "postRender", "postSent", "posted", "store"},
         view : View, ref : Nat, text : Text,
         res : {"none", "ok", "same", "gone", "error"}]

Idle == [pc |-> "idle", view |-> NoView, ref |-> 0, text |-> NoText, res |-> "none"]

Init ==
    /\ rec = [ver |-> 0, status |-> "draft"] /\ stored = 0
    /\ now = 0
    /\ connected = TRUE /\ events = 0 /\ lock = "free"
    /\ task = [t \in Coroutines |-> Idle]
    /\ refs = 0 /\ last = [m \in {} |-> NoText] /\ job = FALSE
    /\ chat = <<>> /\ gone = {}
    /\ faults = 0 /\ lost = 0 /\ regressed = FALSE

-----------------------------------------------------------------------------
\* render_proposal_card: the countdown is shown while the vote runs.
render(view) ==
    [ver |-> view.ver, status |-> view.status,
     left |-> IF view.status = "voting" THEN Ends - now ELSE 0]

\* gateway.proposal: what the store says now.
current == [ver |-> rec.ver, status |-> rec.status, card |-> stored]

\* _ref_for: the message in refs, else the one the record names.
ref_for(view) == IF refs # 0 THEN refs ELSE view.card

moveto(t, r) == task' = [task EXCEPT ![t] = r]

remember(m, text) == last' = [x \in DOMAIN last \cup {m} |-> IF x = m THEN text ELSE last[x]]

forget(m) == last' = [x \in DOMAIN last \ {m} |-> last[x]]

\* unwatch and stop_refresh: without a job queue the job's coroutine is
\* cancelled; a queued job is only not run again.
stopped(t) ==
    IF JobQueue THEN [task EXCEPT ![t] = Idle] ELSE [task EXCEPT ![t] = Idle, ![Tick] = Idle]

store == <<rec, stored>>

fault == faults < MaxFaults /\ faults' = faults + 1

-----------------------------------------------------------------------------
\* Mutant: a write that leaves the status alone emits no event.
QuietWrite(s) ==
    /\ rec.ver < MaxVer
    /\ rec' = [ver |-> rec.ver + 1, status |-> s]
    /\ events' = IF connected /\ s # rec.status THEN events + 1 ELSE events

\* A write to the record and the event it emits: on_event submits _sync_card, and
\* nothing while the adapter is down.
Write(s) ==
    /\ rec.ver < MaxVer
    /\ rec' = [ver |-> rec.ver + 1, status |-> s]
    /\ events' = IF connected THEN events + 1 ELSE events

\* Another thread records a status, a vote or a tally.
Record ==
    /\ \/ rec.status = "draft" /\ Write("proposed")
       \/ rec.status = "proposed" /\ \E s \in {"proposed", "voting", "closed"} : Write(s)
       \/ rec.status = "voting" /\ \E s \in {"voting", "closed"} : Write(s)
    /\ UNCHANGED <<stored, now, connected, lock, task, refs, last, job, chat, gone,
                   faults, lost, regressed>>

\* Mutant: _sync_card without its lock.
UnlockedSync(s) ==
    /\ connected /\ events > 0 /\ task[s].pc = "idle"
    /\ events' = events - 1
    /\ \/ /\ stored # 0
          /\ moveto(s, [Idle EXCEPT !.pc = "read"]) /\ UNCHANGED lock
       \/ /\ stored = 0 /\ rec.status \in {"proposed", "voting"}
          /\ moveto(s, [Idle EXCEPT !.pc = "postRead"]) /\ UNCHANGED lock
       \/ /\ stored = 0 /\ rec.status \notin {"proposed", "voting"}
          /\ UNCHANGED <<lock, task>>
    /\ UNCHANGED <<store, now, connected, refs, last, job, chat, gone, faults, lost, regressed>>

\* _sync_card enters its lock and decides on the record as it is now.
SyncCard(s) ==
    /\ connected /\ events > 0 /\ lock = "free" /\ task[s].pc = "idle"
    /\ events' = events - 1
    /\ \/ /\ stored # 0
          /\ moveto(s, [Idle EXCEPT !.pc = "read"]) /\ lock' = s
       \/ /\ stored = 0 /\ rec.status \in {"proposed", "voting"}
          /\ moveto(s, [Idle EXCEPT !.pc = "postRead"]) /\ lock' = s
       \/ /\ stored = 0 /\ rec.status \notin {"proposed", "voting"}
          /\ UNCHANGED <<lock, task>>
    /\ UNCHANGED <<store, now, connected, refs, last, job, chat, gone, faults, lost, regressed>>

\* The job fires; PTB runs one instance of it at a time.
JobFires ==
    /\ connected /\ job /\ task[Tick].pc = "idle"
    /\ moveto(Tick, [Idle EXCEPT !.pc = "read"])
    /\ UNCHANGED <<store, now, connected, events, lock, refs, last, job, chat, gone,
                   faults, lost, regressed>>

\* A member taps the button of message m: toggle_backer writes the vote, and the
\* handler keeps the record it wrote.
Back ==
    /\ connected /\ task[Tap].pc = "idle" /\ rec.status \in {"proposed", "voting"}
    /\ \E m \in DOMAIN chat \ gone :
        /\ chat[m].status \in {"proposed", "voting"}
        /\ Write(rec.status)
        /\ moveto(Tap, [Idle EXCEPT !.pc = "toggled", !.ref = m,
                                    !.view = [current EXCEPT !.ver = @ + 1]])
    /\ UNCHANGED <<stored, now, connected, lock, refs, last, job, chat, gone, faults,
                   lost, regressed>>

\* After answering the tap: refs.setdefault with the tapped message, then refresh.
BackRefresh ==
    /\ task[Tap].pc = "toggled"
    /\ refs' = IF refs # 0 THEN refs ELSE task[Tap].ref
    /\ moveto(Tap, [task[Tap] EXCEPT !.pc = "render", !.ref = refs'])
    /\ UNCHANGED <<store, now, connected, events, lock, last, job, chat, gone, faults,
                   lost, regressed>>

\* refresh: the record is read (in a worker thread) and the message looked up.
ReadView(t) ==
    /\ task[t].pc = "read"
    /\ refs' = ref_for(current)
    /\ moveto(t, [task[t] EXCEPT !.pc = IF refs' = 0 THEN "answered" ELSE "render",
                                 !.view = current, !.ref = refs'])
    /\ UNCHANGED <<store, now, connected, events, lock, last, job, chat, gone, faults,
                   lost, regressed>>

\* edit: nothing is sent when the message is known to show this text already.
Edit(t) ==
    /\ task[t].pc = "render"
    /\ LET text == render(task[t].view)
           m == task[t].ref IN
       moveto(t, [task[t] EXCEPT !.text = text,
                                 !.pc = IF m \in DOMAIN last /\ last[m] = text
                                        THEN "answered" ELSE "sent"])
    /\ UNCHANGED <<store, now, connected, events, lock, refs, last, job, chat, gone,
                   faults, lost, regressed>>

\* Telegram carries the edit out: changed, not modified, or no such message.
Edited(t) ==
    /\ task[t].pc = "sent"
    /\ LET m == task[t].ref
           text == task[t].text IN
       \/ /\ m \in gone
          /\ moveto(t, [task[t] EXCEPT !.pc = "answered", !.res = "gone"])
          /\ UNCHANGED <<chat, regressed>>
       \/ /\ m \notin gone
          /\ moveto(t, [task[t] EXCEPT !.pc = "answered",
                                       !.res = IF chat[m] = text THEN "same" ELSE "ok"])
          /\ chat' = [chat EXCEPT ![m] = text]
          /\ regressed' = (regressed \/ text.ver < chat[m].ver)
    /\ UNCHANGED <<store, now, connected, events, lock, refs, last, job, gone, faults, lost>>

\* Rate limit, timeout or network error: the edit may have landed all the same.
EditFails(t) ==
    /\ task[t].pc = "sent" /\ fault
    /\ moveto(t, [task[t] EXCEPT !.pc = "answered", !.res = "error"])
    /\ LET m == task[t].ref IN
       \/ UNCHANGED <<chat, regressed>>
       \/ /\ m \notin gone
          /\ chat' = [chat EXCEPT ![m] = task[t].text]
          /\ regressed' = (regressed \/ task[t].text.ver < chat[m].ver)
    /\ UNCHANGED <<store, now, connected, events, lock, refs, last, job, gone, lost>>

\* Mutant: a failed edit is remembered as shown.
RememberAlways(t) ==
    CASE task[t].res = "gone" -> forget(task[t].ref)
      [] task[t].res \in {"ok", "same", "error"} -> remember(task[t].ref, task[t].text)
      [] OTHER -> UNCHANGED last

\* What edit remembers when its answer is in.
Remember(t) ==
    CASE task[t].res = "gone" -> forget(task[t].ref)
      [] task[t].res \in {"ok", "same"} -> remember(task[t].ref, task[t].text)
      [] OTHER -> UNCHANGED last

\* The button handler ends after its edit, whatever became of it.
BackEnds ==
    /\ task[Tap].pc = "answered"
    /\ Remember(Tap)
    /\ moveto(Tap, Idle)
    /\ UNCHANGED <<store, now, connected, events, lock, refs, job, chat, gone, faults,
                   lost, regressed>>

\* Mutant: the job goes on for as long as the card can be edited.
endless(t) == task[t].res # "gone"

\* _tick: the job goes on while the record it read was voting and the window open.
still_voting(t) ==
    /\ task[t].res # "gone"
    /\ task[t].view.status = "voting" /\ now < Ends

TickEnds ==
    /\ task[Tick].pc = "answered"
    /\ Remember(Tick)
    /\ job' = (job /\ still_voting(Tick))
    /\ moveto(Tick, Idle)
    /\ UNCHANGED <<store, now, connected, events, lock, refs, chat, gone, faults, lost,
                   regressed>>

\* refresh_proposal_card after the edit: watch a vote, unwatch anything else.
RefreshEnds(s) ==
    /\ task[s].pc = "answered"
    /\ Remember(s)
    /\ lock' = "free"
    /\ \/ /\ task[s].res # "gone" /\ task[s].view.status = "voting"
          /\ job' = TRUE /\ moveto(s, Idle)
       \/ /\ task[s].res = "gone" \/ task[s].view.status # "voting"
          /\ job' = FALSE /\ task' = stopped(s)
    /\ UNCHANGED <<store, now, connected, events, refs, chat, gone, faults, lost, regressed>>

-----------------------------------------------------------------------------
\* ProposalCards.post: read, render, send.
PostRead(s) ==
    /\ task[s].pc = "postRead"
    /\ moveto(s, [task[s] EXCEPT !.pc = "postRender", !.view = current])
    /\ UNCHANGED <<store, now, connected, events, lock, refs, last, job, chat, gone,
                   faults, lost, regressed>>

PostRender(s) ==
    /\ task[s].pc = "postRender"
    /\ moveto(s, [task[s] EXCEPT !.pc = "postSent", !.text = render(task[s].view)])
    /\ UNCHANGED <<store, now, connected, events, lock, refs, last, job, chat, gone,
                   faults, lost, regressed>>

\* send_message arrives and the chat shows the card.
Posted(s) ==
    /\ task[s].pc = "postSent"
    /\ chat' = Append(chat, task[s].text)
    /\ moveto(s, [task[s] EXCEPT !.pc = "posted", !.ref = Len(chat) + 1])
    /\ UNCHANGED <<store, now, connected, events, lock, refs, last, job, gone, faults,
                   lost, regressed>>

\* The send fails, perhaps after the message was posted: the coroutine ends.
PostFails(s) ==
    /\ task[s].pc = "postSent" /\ fault
    /\ \/ UNCHANGED <<chat, lost>>
       \/ chat' = Append(chat, task[s].text) /\ lost' = lost + 1
    /\ lock' = "free"
    /\ moveto(s, Idle)
    /\ UNCHANGED <<store, now, connected, events, refs, last, job, gone, regressed>>

\* Its answer: the message is the card from now on, before the id is stored.
PostAnswered(s) ==
    /\ task[s].pc = "posted"
    /\ refs' = task[s].ref
    /\ remember(task[s].ref, task[s].text)
    /\ moveto(s, [task[s] EXCEPT !.pc = "store"])
    /\ UNCHANGED <<store, now, connected, events, lock, job, chat, gone, faults, lost, regressed>>

\* set_card_message_id, then watch.
StoreId(s) ==
    /\ task[s].pc = "store"
    /\ stored' = task[s].ref
    /\ job' = (job \/ task[s].view.status = "voting")
    /\ lock' = "free"
    /\ moveto(s, Idle)
    /\ UNCHANGED <<rec, now, connected, events, refs, last, chat, gone, faults, lost, regressed>>

\* The fund's file lock times out: neither the id nor the refresh job exists.
StoreFails(s) ==
    /\ task[s].pc = "store" /\ fault
    /\ lost' = lost + 1
    /\ lock' = "free"
    /\ moveto(s, Idle)
    /\ UNCHANGED <<store, now, connected, events, refs, last, job, chat, gone, regressed>>

-----------------------------------------------------------------------------
Minute ==
    /\ now < Ends
    /\ now' = now + 1
    /\ UNCHANGED <<store, connected, events, lock, task, refs, last, job, chat, gone,
                   faults, lost, regressed>>

\* An administrator deletes a card.
Delete ==
    /\ fault
    /\ \E m \in DOMAIN chat \ gone : gone' = gone \cup {m}
    /\ UNCHANGED <<store, now, connected, events, lock, task, refs, last, job, chat,
                   lost, regressed>>

\* Hermes stops: everything but the store and the chat is forgotten.
Stop ==
    /\ connected /\ fault
    /\ connected' = FALSE /\ events' = 0 /\ lock' = "free"
    /\ task' = [t \in Coroutines |-> Idle]
    /\ refs' = 0 /\ last' = [m \in {} |-> NoText] /\ job' = FALSE
    /\ lost' = lost + Cardinality({s \in Syncs : task[s].pc \in {"posted", "store"}})
    /\ UNCHANGED <<store, now, chat, gone, regressed>>

\* attach: the adapter connects again, with a new LiveCards.
Attach ==
    /\ ~connected /\ connected' = TRUE
    /\ UNCHANGED <<store, now, events, lock, task, refs, last, job, chat, gone, faults,
                   lost, regressed>>

Editing == \E t \in Coroutines : ReadView(t) \/ Edit(t) \/ Edited(t)

Syncing == \E s \in Syncs :
    \/ SyncCard(s) \/ RefreshEnds(s)
    \/ PostRead(s) \/ PostRender(s) \/ Posted(s) \/ PostAnswered(s) \/ StoreId(s)

Ticking == JobFires \/ TickEnds

Tapping == BackRefresh \/ BackEnds

Failing ==
    \/ \E t \in Coroutines : EditFails(t)
    \/ \E s \in Syncs : PostFails(s) \/ StoreFails(s)
    \/ Delete \/ Stop

Next == Record \/ Back \/ Editing \/ Syncing \/ Ticking \/ Tapping \/ Failing
        \/ Minute \/ Attach

Spec == Init /\ [][Next]_vars

\* The event loop runs every coroutine that can go on and the queue fires the job;
\* nobody has to write, tap, fail or restart.
FairSpec ==
    /\ Spec
    /\ \A t \in Coroutines : WF_vars(ReadView(t) \/ Edit(t) \/ Edited(t))
    /\ WF_vars(Syncing) /\ WF_vars(JobFires) /\ WF_vars(TickEnds) /\ WF_vars(Tapping)

-----------------------------------------------------------------------------
TypeOK ==
    /\ rec \in [ver : 0..MaxVer, status : Statuses]
    /\ stored \in Nat /\ refs \in Nat /\ now \in 0..Ends
    /\ connected \in BOOLEAN /\ job \in BOOLEAN /\ regressed \in BOOLEAN
    /\ events \in Nat /\ lock \in Syncs \cup {"free"}
    /\ task \in [Coroutines -> Task]
    /\ chat \in Seq(Text) /\ gone \subseteq DOMAIN chat
    /\ DOMAIN last \subseteq DOMAIN chat /\ \A m \in DOMAIN last : last[m] \in Text
    /\ faults \in Nat /\ lost \in Nat

\* _sync_card posts one card and edits it, "never two cards": every further one
\* makes up for a message whose id was lost before it reached the store, in a
\* failed send, a lock timeout or a restart.
OneCard == Len(chat) <= 1 + lost

\* The fingerprint that makes edit skip a request never stands for a later
\* version than the message shows, so a skipped edit was not needed.
FingerprintNotAhead ==
    ~regressed => \A m \in DOMAIN last : last[m].ver <= chat[m].ver

quiet == events = 0 /\ \A t \in Coroutines : task[t].pc = "idle"

\* Once nothing is in flight the card shows the record's latest version, unless a
\* call failed or Telegram carried out an edit of the button or of the job after
\* a later one: no write is forgotten however it falls between reads and edits.
CardIsCurrent ==
    (quiet /\ faults = 0 /\ ~regressed /\ chat # <<>>) => chat[stored].ver = rec.ver

\* The refresh job ends for good once the vote is over or its window has passed,
\* although an observer that still holds an older view may start it again.
JobStops == <>[]((rec.status # "voting" \/ now >= Ends) => ~job)
=============================================================================
