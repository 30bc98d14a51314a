------------------------------ MODULE CronJobs ------------------------------
(***************************************************************************)
(* What runs on Hermes' clock: the cron tick that reports new events of a  *)
(* fund past a cursor kept in a file (from the digest watchdog, a process  *)
(* of its own for all funds in turn, or from the agent's cron_tick tool    *)
(* inside Hermes), the AUM watchdog, and install-cron, which registers the *)
(* jobs.  The three share no state; each behaviour is about one of them.   *)
(*                                                                         *)
(* A tick reads the cursor, runs `session check`, filters, loads the file  *)
(* again and saves.  Reading, and loading again and saving, are sections   *)
(* under _CURSOR_LOCK, an asyncio.Lock, and Hermes runs each tool call on  *)
(* an event loop of its own in a worker thread: what the lock then does is *)
(* modelled at `lock`.  The digest has a process, and a lock, to itself.   *)
(* What a tick found is printed or returned after the save, the digest's   *)
(* for all funds at its end.                                               *)
(*                                                                         *)
(* A block of a fund holds an interesting event or none; messages and      *)
(* their time cursor go the same way and are left out, like exposure       *)
(* alerts, which keep no state.                                            *)
(***************************************************************************)
EXTENDS Integers, Sequences, FiniteSets, FiniteSetsExt

CONSTANTS Funds, NoFund, NoTool,
          Digest, Tools,        \* the digest process; tool calls inside Hermes
          MaxBlock,             \* bound: blocks of all funds
          MaxTvl, Threshold,    \* bound: value of a fund; aum_alert_threshold_pct
          Crons,                \* names of the plugin's jobs
          Installers,           \* install-cron processes
          MaxJobs               \* bound: jobs of one name

ASSUME CronAssumption ==
    /\ Digest \notin Tools /\ NoTool \notin Tools \cup {Digest} /\ NoFund \notin Funds
    /\ MaxBlock \in Nat /\ MaxTvl \in Nat
    /\ Threshold \in 1..100 /\ MaxJobs \in Nat

VARIABLES
    what,       \* the job this behaviour is about
    chain,      \* external: the blocks of each fund; TRUE: an interesting event
    cursors,    \* cron_cursor.json: the block of each fund
    tick,       \* the tick each runner is in
    held,       \* events a runner has found and not delivered yet
    gone,       \* history: events delivered, or whose runner ended before it delivered them
    lock,       \* the _CURSOR_LOCK of Hermes' process: locked; who waits; bound to a loop
    overlap,    \* history: two ticks of a fund, or two saves, overlapped
    tvl,        \* external: each fund's value
    aum,        \* watchdog_state.json: the last total; -1: none
    alarm,      \* what the last AUM tick printed; history: which one, if it read all funds, their value
    jobs,       \* external: Hermes' jobs by name
    install,    \* install-cron processes
    raced       \* history: two install-cron processes overlapped

ticks == <<chain, cursors, tick, held, gone, lock, overlap>>

watch == <<tvl, aum, alarm>>

installs == <<jobs, install, raced>>

vars == <<what, chain, cursors, tick, held, gone, lock, overlap, tvl, aum,
          alarm, jobs, install, raced>>

Runners == Tools \cup {Digest}

NoTick == [pc |-> "idle", fund |-> NoFund, cursor |-> 0, top |-> 0,
           file |-> [f \in Funds |-> 0]]

Idle == [pc |-> "idle", existing |-> [n \in Crons |-> 0], todo |-> {}]

NoAlarm == [turn |-> 0, rang |-> FALSE, whole |-> FALSE, was |-> 0]

Unlocked == [locked |-> FALSE, waiter |-> NoTool, bound |-> FALSE]

Init ==
    /\ what \in {"tick", "aum", "install"}
    /\ chain = [f \in Funds |-> <<>>] /\ cursors = [f \in Funds |-> 0]
    /\ tick = [r \in Runners |-> NoTick] /\ held = [r \in Runners |-> {}]
    /\ gone = {} /\ lock = Unlocked /\ overlap = FALSE
    /\ tvl = [f \in Funds |-> MaxTvl] /\ aum = -1 /\ alarm = NoAlarm
    /\ jobs = [n \in Crons |-> 0] /\ install = [i \in Installers |-> Idle] /\ raced = FALSE

-----------------------------------------------------------------------------
\* The ticks.
NewBlock(f) ==
    /\ what = "tick" /\ MapThenSumSet(LAMBDA g : Len(chain[g]), Funds) < MaxBlock
    /\ \E interesting \in BOOLEAN : chain' = [chain EXCEPT ![f] = Append(@, interesting)]
    /\ UNCHANGED <<what, cursors, tick, held, gone, lock, overlap, watch, installs>>

\* _CURSOR_LOCK as Hermes' worker threads use it.  A free lock is taken at once.  The
\* first call that finds it taken binds it to its own loop and waits there; calls on other
\* loops that find it taken, or somebody waiting, get a RuntimeError.  After that the test
\* for a free lock walks the queue of waiters, where a thread switch lets two calls in.
contended(r) == r # Digest /\ (lock.locked \/ lock.waiter # NoTool)

\* Entering a section; a waiter does so after a release, if its loop, which nothing wakes
\* from another thread, notices.
Entered(r) ==
    \/ r = Digest /\ UNCHANGED lock
    \/ /\ r \in Tools /\ lock.waiter = NoTool /\ (lock.locked => lock.bound)
       /\ lock' = [lock EXCEPT !.locked = TRUE]
    \/ /\ lock.waiter = r /\ ~lock.locked
       /\ lock' = [lock EXCEPT !.locked = TRUE, !.waiter = NoTool]

Waits(r) == contended(r) /\ ~lock.bound /\ lock' = [lock EXCEPT !.waiter = r, !.bound = TRUE]

Raises(r) == contended(r) /\ lock.bound /\ lock.waiter # r /\ UNCHANGED lock

\* Leaving it; where two calls were in, the second release raises.
Left(r) == lock' = IF r = Digest THEN lock ELSE [lock EXCEPT !.locked = FALSE]

releases(r) == r = Digest \/ lock.locked

\* A tool call begins its cron_tick.  One that the lock turns away here ends as it began.
TickBegins(r, f) ==
    /\ what = "tick" /\ r # Digest /\ tick[r].pc = "idle" /\ held[r] = {}
    /\ \/ Entered(r) /\ tick' = [tick EXCEPT ![r].pc = "loading", ![r].fund = f]
       \/ Waits(r) /\ tick' = [tick EXCEPT ![r].pc = "load", ![r].fund = f]
    /\ UNCHANGED <<what, chain, cursors, held, gone, overlap, watch, installs>>

TickEnters(r) ==
    /\ tick[r].pc = "load" /\ Entered(r)
    /\ tick' = [tick EXCEPT ![r].pc = "loading"]
    /\ UNCHANGED <<what, chain, cursors, held, gone, overlap, watch, installs>>

\* A tick that has taken its cursor and not saved it yet.
under_way(s) == tick[s].pc \in {"check", "save", "saving"}

\* The tick takes its fund's cursor; the digest, whose lock is always free, begins so, for
\* one fund after the other.
TickLoad(r, f) ==
    /\ what = "tick" /\ Left(r)
    /\ \/ tick[r].pc = "loading" /\ tick[r].fund = f
       \/ tick[r].pc = "idle" /\ r = Digest
    /\ IF releases(r)
       THEN /\ tick' = [tick EXCEPT ![r] = [NoTick EXCEPT !.pc = "check", !.fund = f, !.cursor = cursors[f]]]
            /\ overlap' = (overlap \/ \E s \in Runners \ {r} : under_way(s) /\ tick[s].fund = f)
       ELSE tick' = [tick EXCEPT ![r] = NoTick] /\ UNCHANGED overlap
    /\ UNCHANGED <<what, chain, cursors, held, gone, watch, installs>>

\* Mutant: the cursor moves on to the chain's head of the moment it is saved.
head_now(r) == Len(chain[tick[r].fund])

\* The greatest block `session check` showed, interesting or not.
max_block(r) == IF tick[r].top > tick[r].cursor THEN tick[r].top ELSE tick[r].cursor

\* Mutant: the block of the cursor is looked at again.
found_from(r) == {b \in 1..tick[r].top : b >= tick[r].cursor /\ chain[tick[r].fund][b]}

\* _filter_interesting: the interesting events past the cursor.
found(r) == {b \in 1..tick[r].top : b > tick[r].cursor /\ chain[tick[r].fund][b]}

\* `session check` answers with the chain as it is, or fails and the tick ends.
SessionCheck(r) ==
    /\ tick[r].pc = "check"
    /\ \/ tick' = [tick EXCEPT ![r].pc = "save", ![r].top = Len(chain[tick[r].fund])]
       \/ tick' = [tick EXCEPT ![r] = NoTick]
    /\ UNCHANGED <<what, chain, cursors, held, gone, lock, overlap, watch, installs>>

\* In the second section the file is loaded again ...
SaveLoad(r) ==
    /\ tick[r].pc = "save"
    /\ \/ /\ Entered(r)
          /\ tick' = [tick EXCEPT ![r].pc = "saving", ![r].file = cursors]
          /\ overlap' = (overlap \/ \E s \in Runners \ {r} : tick[s].pc = "saving")
       \/ Waits(r) /\ UNCHANGED <<tick, overlap>>
       \/ Raises(r) /\ tick' = [tick EXCEPT ![r] = NoTick] /\ UNCHANGED overlap
    /\ UNCHANGED <<what, chain, cursors, held, gone, watch, installs>>

\* ... and replaced with this fund's entry set; what was found is now the runner's, or is
\* lost when the release, or the exposure report that follows, raises.
SaveCursors(r) ==
    /\ tick[r].pc = "saving" /\ Left(r)
    /\ LET f == tick[r].fund
           new == {<<f, b>> : b \in found(r)} IN
       /\ cursors' = [tick[r].file EXCEPT ![f] = max_block(r)]
       /\ \/ releases(r) /\ held' = [held EXCEPT ![r] = @ \cup new] /\ UNCHANGED gone
          \/ gone' = gone \cup new /\ UNCHANGED held
    /\ tick' = [tick EXCEPT ![r] = NoTick]
    /\ UNCHANGED <<what, chain, overlap, watch, installs>>

\* The file cannot be written: the tick ends with an error.
SaveFails(r) ==
    /\ tick[r].pc = "saving" /\ Left(r)
    /\ tick' = [tick EXCEPT ![r] = NoTick]
    /\ UNCHANGED <<what, chain, cursors, held, gone, overlap, watch, installs>>

\* The digest prints at its end, a tool call returns.
Deliver(r) ==
    /\ tick[r].pc = "idle" /\ held[r] # {}
    /\ gone' = gone \cup held[r] /\ held' = [held EXCEPT ![r] = {}]
    /\ UNCHANGED <<what, chain, cursors, tick, lock, overlap, watch, installs>>

\* A process is killed, with every tick in it and its lock.
Killed(p) ==
    /\ what = "tick" /\ \E r \in p : tick[r].pc # "idle" \/ held[r] # {}
    /\ gone' = gone \cup UNION {held[r] : r \in p}
    /\ held' = [r \in Runners |-> IF r \in p THEN {} ELSE held[r]]
    /\ tick' = [r \in Runners |-> IF r \in p THEN NoTick ELSE tick[r]]
    /\ lock' = IF p = {Digest} THEN lock ELSE Unlocked
    /\ UNCHANGED <<what, chain, cursors, overlap, watch, installs>>

-----------------------------------------------------------------------------
\* The AUM watchdog.
Value(f) ==
    /\ what = "aum"
    /\ \E v \in 0..MaxTvl : v # tvl[f] /\ tvl' = [tvl EXCEPT ![f] = v]
    /\ UNCHANGED <<what, aum, alarm, ticks, installs>>

\* aggregate_exposure: the sum over the funds whose `vault info` answered.
total(read) == MapThenSumSet(LAMBDA f : tvl[f], read)

abs(x) == IF x < 0 THEN -x ELSE x

moved(prior, current) == prior > 0 /\ abs(current - prior) * 100 >= Threshold * prior

\* Mutant: only a reading that rang is kept.
kept_alarm(prior, current) == IF prior = -1 \/ moved(prior, current) THEN current ELSE prior

\* The reading the next tick compares with.
kept(prior, current) == current

\* _aum: compare with the last total, keep this one, print an alert or nothing.
AumTick(read) ==
    /\ what = "aum"
    /\ LET current == total(read) IN
       /\ alarm' = [turn |-> 1 - alarm.turn, rang |-> moved(aum, current),
                    whole |-> read = Funds, was |-> total(Funds)]
       /\ aum' = kept(aum, current)
    /\ UNCHANGED <<what, tvl, ticks, installs>>

-----------------------------------------------------------------------------
\* install-cron.

\* Mutant: a list that fails counts as an empty one.
as_empty(i) == [pc |-> "write", existing |-> Idle.existing, todo |-> Crons]

\* "creating blind would duplicate jobs": a list that fails ends the command.
list_failed(i) == Idle

\* `hermes cron list --all` is read once, before anything is written.
InstallList(i) ==
    /\ what = "install" /\ install[i].pc = "idle"
    /\ raced' = (raced \/ \E j \in Installers \ {i} : install[j].pc # "idle")
    /\ \/ install' = [install EXCEPT ![i] = [pc |-> "write", existing |-> jobs, todo |-> Crons]]
       \/ install' = [install EXCEPT ![i] = list_failed(i)]
    /\ UNCHANGED <<what, jobs, ticks, watch>>

\* write_wrappers replaces every script, or fails and the command ends; with
\* proposal_reasoning_enabled off one job is skipped.
WriteWrappers(i) ==
    /\ install[i].pc = "write"
    /\ \/ \E skip \in SUBSET Crons : /\ Cardinality(skip) <= 1
                                     /\ install' = [install EXCEPT ![i].pc = "jobs", ![i].todo = @ \ skip]
       \/ install' = [install EXCEPT ![i] = Idle]
    /\ UNCHANGED <<what, jobs, raced, ticks, watch>>

\* One job of the table: created when the list had none, else edited in place.  A
\* `hermes` that fails or times out may have created it all the same.
InstallJob(i, n) ==
    /\ install[i].pc = "jobs" /\ n \in install[i].todo
    /\ install' = [install EXCEPT ![i].todo = @ \ {n}]
    /\ \/ install[i].existing[n] = 0 /\ jobs[n] < MaxJobs /\ jobs' = [jobs EXCEPT ![n] = @ + 1]
       \/ UNCHANGED jobs
    /\ UNCHANGED <<what, raced, ticks, watch>>

InstallEnds(i) ==
    /\ install[i].pc = "jobs" /\ install[i].todo = {}
    /\ install' = [install EXCEPT ![i] = Idle]
    /\ UNCHANGED <<what, jobs, raced, ticks, watch>>

Next ==
    \/ \E f \in Funds : NewBlock(f) \/ Value(f)
    \/ \E r \in Runners : \/ \E f \in Funds : TickBegins(r, f) \/ TickLoad(r, f)
                          \/ TickEnters(r) \/ SessionCheck(r) \/ SaveLoad(r)
                          \/ SaveCursors(r) \/ SaveFails(r) \/ Deliver(r)
    \/ Killed(Tools) \/ Killed({Digest})
    \/ \E read \in SUBSET Funds : AumTick(read)
    \/ \E i \in Installers : \/ InstallList(i) \/ WriteWrappers(i) \/ InstallEnds(i)
                             \/ \E n \in Crons : InstallJob(i, n)

Spec == Init /\ [][Next]_vars

-----------------------------------------------------------------------------
TypeOK ==
    /\ chain \in [Funds -> Seq(BOOLEAN)] /\ cursors \in [Funds -> Nat]
    /\ \A r \in Runners : tick[r].pc # "idle" => tick[r].top \in 0..Len(chain[tick[r].fund])
    /\ jobs \in [Crons -> Nat] /\ aum \in Int

\* Events that were found.
known == gone \cup UNION {held[r] : r \in Runners}

\* Every interesting event at or below a fund's cursor was delivered, is in the hands
\* of a runner, or was lost with one: ticks that overlap, and saves that undo each
\* other, may repeat an event but never skip one.
NothingSkipped ==
    \A f \in Funds : \A b \in 1..cursors[f] :
        chain[f][b] => <<f, b>> \in known

\* A tick is about to save an event that was found before.
repeats ==
    \E r \in Runners : tick[r].pc = "saving" /\ \E b \in found(r) : <<tick[r].fund, b>> \in known

\* An event is found a second time only after two ticks of its fund, or two saves,
\* overlapped: loading the file again keeps ticks of other funds from undoing a save.
RepeatsNeedOverlap == repeats => overlap

\* Of two AUM ticks in a row that could read every fund, the second alerts exactly when
\* the true total moved by the threshold since the first: an alert neither repeats nor
\* adds up older moves.  (`turn` changes with every tick, so each is a step of `alarm`.)
AlarmIsNew ==
    [][alarm.whole /\ alarm'.whole => (alarm'.rang <=> moved(alarm.was, total(Funds)))]_alarm

\* install-cron, run again after any failure, never registers a job twice unless two
\* of them run at once ("creating blind would duplicate jobs").
OneJobEach == ~raced => \A n \in Crons : jobs[n] <= 1
=============================================================================
