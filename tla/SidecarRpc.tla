----------------------------- MODULE SidecarRpc -----------------------------
(***************************************************************************)
(* The XMTP sidecar, for one fund: the JSON-RPC client of sidecar.py, the  *)
(* node process it talks to over stdin and stdout, and the coroutines that *)
(* use it, all on the plugin's own event loop: Wire starts the sidecar and *)
(* its stream, a poster posts the summary of a chain event, Stop shuts it  *)
(* down.  Around them the lifecycle of the loop: ensure_streams starts it, *)
(* teardown (another thread) stops it and the Hermes process ends.         *)
(*                                                                         *)
(* A call takes the lock, registers a future, writes its request, drains   *)
(* stdin, releases the lock and waits; the reader resolves futures by id.  *)
(* drain only waits, with the lock held, while the pipe is full.           *)
(* The node process answers in any order, may crash, and may hang for a    *)
(* while or for ever (its loop blocked: stdin unread, SIGTERM unhandled).  *)
(*                                                                         *)
(* Every call of call() has a serial number, so that answers can be told   *)
(* apart from ids.  Left out: the build, keys, contents of messages,       *)
(* stderr, malformed lines, timer lengths.                                 *)
(***************************************************************************)
EXTENDS Naturals, Sequences, FiniteSets, Functions

CONSTANTS Wire, Stop, Posters,  \* the coroutines
          MaxPosts,             \* bound: summaries to post
          MaxEvents,            \* bound: stream events
          PipeMax               \* requests the pipe holds before drain waits

ASSUME SidecarAssumption ==
    /\ Wire # Stop /\ Wire \notin Posters /\ Stop \notin Posters
    /\ MaxPosts \in Nat /\ MaxEvents \in Nat /\ PipeMax \in Nat

VARIABLES
    bg,         \* BackgroundLoop: "none", "running", "closed"; "exited": Hermes ended
    lifecycle,  \* [streams_started, closed], ensure_streams' and teardown's progress
    proc,       \* Sidecar._proc is set
    lock,       \* the holder of Sidecar._lock, or "free"
    next_id, pending, buffer,   \* Sidecar._next_id, _pending, _response_buffer
    serial,     \* number of calls so far
    task,       \* the coroutines
    started, failed,            \* sidecar_state
    callback, mapped,           \* _on_stream_event registered; group_to_subdomain filled
    posts, events,              \* summaries begun, stream events sent
    node,       \* the process: "absent", "running", "hung", "dead"
    inbox, working, outbox,     \* its stdin, requests in handlers, its stdout
    client, stream, exiting,    \* its XMTP client, its stream, its pending exit
    lost,       \* history: a stream event was dropped for want of callback or map
    spared      \* history: stopping the streams took too long, or the sidecar was spawned after Stop

python == <<bg, lifecycle, proc, lock, next_id, pending, buffer, serial, task,
            started, failed, callback, mapped, posts>>

process == <<node, inbox, working, outbox, client, stream, exiting, events>>

vars == <<bg, lifecycle, proc, lock, next_id, pending, buffer, serial, task, started,
          failed, callback, mapped, posts, events, node, inbox, working, outbox, client,
          stream, exiting, lost, spared>>

Coroutines == Posters \cup {Wire, Stop}

\* The requests each coroutine makes one after the other.  Requests in a
\* row that fail alike are one: create_client and ping; the resolve_subdomain calls of
\* the membership check, of the map, of stream_start and of send_text and what follows.
Script(t) ==
    CASE t = Wire -> <<"create_client", "get_conversation", "stream_start">>
      [] t = Stop -> <<"shutdown">>
      [] OTHER -> <<"send_text">>

Off == [pc |-> "off", step |-> 0, call |-> 0, id |-> 0, got |-> 0, ok |-> FALSE]

none == [x \in {} |-> 0]

Init ==
    /\ bg = "none" /\ proc = FALSE /\ lock = "free"
    /\ lifecycle = [streams_started |-> FALSE, closed |-> FALSE, ensure |-> "no", teardown |-> "no"]
    /\ next_id = 1 /\ pending = none /\ buffer = none /\ serial = 0
    /\ task = [t \in Coroutines |-> Off]
    /\ started = FALSE /\ failed = FALSE /\ callback = FALSE /\ mapped = FALSE
    /\ posts = 0 /\ events = 0
    /\ node = "absent" /\ inbox = {} /\ working = {} /\ outbox = {}
    /\ client = FALSE /\ stream = FALSE /\ exiting = FALSE
    /\ lost = FALSE /\ spared = FALSE

-----------------------------------------------------------------------------
\* call(): coroutine t is at a point where its next request is to be made.
at(t, pc) == bg = "running" /\ task[t].pc = pc

method(t) == Script(t)[task[t].step]

without(f, x) == [y \in DOMAIN f \ {x} |-> f[y]]

with(f, x, v) == [y \in DOMAIN f \cup {x} |-> IF y = x THEN v ELSE f[y]]

unlocked(t) == IF lock = t THEN "free" ELSE lock

\* Mutant: the group is entered into the map once its stream runs.
mapped_late(step) == step = 3

\* group_to_subdomain is filled before the stream is asked for.
maps(step) == step = 2

\* What a coroutine does with an answer: Wire gives up for good before it is healthy,
\* registers its callback after the membership check however that went, and ends when
\* the fund is missing; a poster ends at the first failure; Stop sends SIGTERM and
\* waits for the process.
Continue(t, ok) ==
    LET k == task[t].step IN
    /\ task' = [task EXCEPT ![t] =
           CASE t = Stop -> [Off EXCEPT !.pc = "wait_proc"]
             [] t # Stop /\ ok /\ k < Len(Script(t)) -> [Off EXCEPT !.pc = "want", !.step = k + 1]
             [] OTHER -> [Off EXCEPT !.pc = IF t = Wire THEN "ended" ELSE "off"]]
    /\ started' = (started \/ (t = Wire /\ k = 1 /\ ok))
    /\ failed' = (failed \/ (t = Wire /\ k = 1 /\ ~ok))
    /\ callback' = (callback \/ (t = Wire /\ k = 2))
    /\ mapped' = (mapped \/ (t = Wire /\ ok /\ maps(k)))

\* Mutant: an id is the number of calls in flight.
in_flight == Cardinality(DOMAIN pending) + 1

take_id == next_id

\* Under the lock: the future is registered and the request written.  With the process
\* forgotten (shutdown) the assertion fails, with its pipe broken drain raises; the
\* future then stays in _pending.
Write(t) ==
    /\ at(t, "want") /\ lock = "free"
    /\ next_id' = next_id + 1 /\ serial' = serial + 1
    /\ pending' = with(pending, take_id, serial')
    /\ \/ /\ ~proc \/ node = "dead"
          /\ Continue(t, FALSE) /\ UNCHANGED <<lock, inbox, working>>
       \/ /\ proc
          /\ LET r == [id |-> take_id, call |-> serial', method |-> method(t)] IN
             /\ inbox' = IF node = "hung" THEN inbox \cup {r} ELSE inbox
             /\ working' = IF node = "running" THEN working \cup {r} ELSE working
          /\ LET full == Cardinality(inbox') > PipeMax IN
             /\ lock' = IF full THEN t ELSE "free"
             /\ task' = [task EXCEPT ![t].pc = IF full THEN "drain" ELSE "wait",
                                     ![t].call = serial', ![t].id = take_id]
          /\ UNCHANGED <<started, failed, callback, mapped>>
    /\ UNCHANGED <<bg, lifecycle, proc, buffer, posts, node, outbox, client, stream, exiting,
                   events, lost, spared>>

\* A drain that waited returns once the pipe has room; a response that is there by
\* then is taken.
Drain(t) ==
    /\ at(t, "drain") /\ Cardinality(inbox) <= PipeMax
    /\ lock' = "free"
    /\ LET i == task[t].id IN
       /\ task' = [task EXCEPT ![t].pc = "wait",
                   ![t].got = IF i \in DOMAIN buffer /\ @ = 0 THEN buffer[i].call ELSE @,
                   ![t].ok = IF i \in DOMAIN buffer /\ task[t].got = 0 THEN buffer[i].ok ELSE @]
       /\ buffer' = without(buffer, i)
    /\ UNCHANGED <<bg, lifecycle, proc, next_id, pending, serial, started, failed, callback,
                   mapped, posts, process, lost, spared>>

\* ... or it raises, the process having died.
DrainFails(t) ==
    /\ at(t, "drain") /\ node = "dead"
    /\ lock' = "free"
    /\ Continue(t, FALSE)
    /\ UNCHANGED <<bg, lifecycle, proc, next_id, pending, buffer, serial, posts, process, lost, spared>>

Answered(t) ==
    /\ at(t, "wait") /\ task[t].got # 0
    /\ pending' = without(pending, task[t].id)
    /\ Continue(t, task[t].ok)
    /\ UNCHANGED <<bg, lifecycle, proc, lock, next_id, buffer, serial, posts, process, lost, spared>>

\* Mutant: a call does not give up on a process that is gone.
while_alive(t) == node # "dead"

\* wait_for(shield(fut), timeout): whether a waiting call may time out.
expires(t) == task[t].got = 0

Timeout(t) ==
    /\ at(t, "wait") /\ task[t].got = 0 /\ expires(t)
    /\ pending' = without(pending, task[t].id)
    /\ Continue(t, FALSE)
    /\ UNCHANGED <<bg, lifecycle, proc, lock, next_id, buffer, serial, posts, process, lost, spared>>

\* _read_stdout: a response resolves the future registered under its id, if that is
\* not done; otherwise it is kept for a call to come.
ReadResponse(m) ==
    /\ bg = "running" /\ proc /\ m.id # 0
    /\ outbox' = outbox \ {m}
    /\ LET futures == {t \in Coroutines : /\ task[t].pc \in {"drain", "wait"} /\ m.id \in DOMAIN pending
                                          /\ m.id \in DOMAIN pending => task[t].call = pending[m.id]} IN
       \/ /\ m.id \in DOMAIN pending /\ \A t \in futures : task[t].got = 0
          /\ task' = [t \in Coroutines |-> IF t \in futures
                          THEN [task[t] EXCEPT !.got = m.call, !.ok = m.ok] ELSE task[t]]
          /\ UNCHANGED buffer
       \/ /\ m.id \notin DOMAIN pending \/ \E t \in futures : task[t].got # 0
          /\ buffer' = with(buffer, m.id, [call |-> m.call, ok |-> m.ok])
          /\ UNCHANGED task
    /\ UNCHANGED <<bg, lifecycle, proc, lock, next_id, pending, serial, started, failed, callback,
                   mapped, posts, node, inbox, working, client, stream, exiting, events, lost, spared>>

\* A stream_event goes to the callbacks registered, and by the map to the router.
ReadEvent(m) ==
    /\ bg = "running" /\ proc /\ m.id = 0
    /\ outbox' = outbox \ {m}
    /\ lost' = (lost \/ ~callback \/ ~mapped)
    /\ UNCHANGED <<python, node, inbox, working, client, stream, exiting, events, spared>>

-----------------------------------------------------------------------------
\* Sidecar.start: the process is spawned and its readers run; then create_client.
Spawn ==
    /\ at(Wire, "spawn")
    /\ proc' = TRUE /\ node' = "running"
    /\ task' = [task EXCEPT ![Wire] = [Off EXCEPT !.pc = "want", !.step = 1]]
    /\ spared' = (spared \/ task[Stop].pc = "done")
    /\ UNCHANGED <<bg, lifecycle, lock, next_id, pending, buffer, serial, started, failed, callback,
                   mapped, posts, inbox, working, outbox, client, stream, exiting, events, lost>>

\* The build or the spawn fails.
SpawnFails ==
    /\ at(Wire, "spawn")
    /\ failed' = TRUE
    /\ task' = [task EXCEPT ![Wire] = [Off EXCEPT !.pc = "ended"]]
    /\ UNCHANGED <<bg, lifecycle, proc, lock, next_id, pending, buffer, serial, started, callback,
                   mapped, posts, process, lost, spared>>

\* A chain event's summary: skipped when the sidecar was never started or has failed.
Post(p) ==
    /\ bg = "running" /\ task[p].pc = "off" /\ posts < MaxPosts
    /\ task[Wire].pc # "off"
    /\ posts' = posts + 1
    /\ task' = [task EXCEPT ![p].pc = "await"]
    /\ UNCHANGED <<bg, lifecycle, proc, lock, next_id, pending, buffer, serial, started, failed,
                   callback, mapped, process, lost, spared>>

\* _async_post stops waiting for the sidecar: it is up, it failed, or 30 s are over.
PostReady(p) ==
    /\ at(p, "await")
    /\ task' = [task EXCEPT ![p] = IF failed THEN Off ELSE [Off EXCEPT !.pc = "want", !.step = 1]]
    /\ UNCHANGED <<bg, lifecycle, proc, lock, next_id, pending, buffer, serial, started, failed,
                   callback, mapped, posts, process, lost, spared>>

-----------------------------------------------------------------------------
\* shutdown, after the streams were stopped (StreamSupervisor): nothing without a process.
Shutdown ==
    /\ at(Stop, "stop_all")
    /\ task' = [task EXCEPT ![Stop] = IF proc THEN [Off EXCEPT !.pc = "want", !.step = 1]
                                      ELSE [Off EXCEPT !.pc = "done"]]
    /\ UNCHANGED <<bg, lifecycle, proc, lock, next_id, pending, buffer, serial, started, failed,
                   callback, mapped, posts, process, lost, spared>>

\* Mutant: the bound on the shutdown request covers only its answer.
only_answer == {"wait"}

\* The outer wait_for covers the wait for the lock and the drain, too.
cancellable == {"want", "drain", "wait"}

ShutdownTimeout ==
    /\ bg = "running" /\ task[Stop].pc \in cancellable
    /\ lock' = unlocked(Stop)
    /\ pending' = IF task[Stop].pc = "wait" THEN without(pending, task[Stop].id) ELSE pending
    /\ task' = [task EXCEPT ![Stop] = [Off EXCEPT !.pc = "wait_proc"]]
    /\ UNCHANGED <<bg, lifecycle, proc, next_id, buffer, serial, started, failed, callback, mapped,
                   posts, process, lost, spared>>

\* Stop's wait returns, or after the grace period the process is killed; the readers
\* are cancelled and the sidecar is forgotten.
Reap ==
    /\ at(Stop, "wait_proc")
    /\ node' = "dead" /\ inbox' = {} /\ working' = {} /\ stream' = FALSE
    /\ proc' = FALSE /\ outbox' = {}
    /\ task' = [task EXCEPT ![Stop].pc = "done"]
    /\ UNCHANGED <<bg, lifecycle, lock, next_id, pending, buffer, serial, started, failed, callback,
                   mapped, posts, client, exiting, events, lost, spared>>

-----------------------------------------------------------------------------
\* ensure_streams: once per process, on the first turn ...
EnsureStreams ==
    /\ ~lifecycle.streams_started /\ ~lifecycle.closed /\ bg # "exited"
    /\ lifecycle' = [lifecycle EXCEPT !.streams_started = TRUE, !.ensure = "submit"]
    /\ UNCHANGED <<bg, proc, lock, next_id, pending, buffer, serial, task, started, failed, callback,
                   mapped, posts, process, lost, spared>>

\* ... and outside its lock: submit starts the loop, and raises on a closed one.
Submit ==
    /\ lifecycle.ensure = "submit"
    /\ lifecycle' = [lifecycle EXCEPT !.ensure = "done"]
    /\ IF bg \in {"none", "running"}
       THEN bg' = "running" /\ task' = [task EXCEPT ![Wire].pc = "spawn"]
       ELSE UNCHANGED <<bg, task>>
    /\ UNCHANGED <<proc, lock, next_id, pending, buffer, serial, started, failed, callback, mapped,
                   posts, process, lost, spared>>

\* A tool call starts the loop: sherwood_monitor_start hands a coroutine to it.
ToolCall ==
    /\ bg = "none" /\ bg' = "running"
    /\ UNCHANGED <<lifecycle, proc, lock, next_id, pending, buffer, serial, task, started, failed,
                   callback, mapped, posts, process, lost, spared>>

\* teardown at shutdown: marked closed once; a loop that never ran is only closed.
Teardown ==
    /\ ~lifecycle.closed
    /\ lifecycle' = [lifecycle EXCEPT !.closed = TRUE, !.teardown = "begun"]
    /\ UNCHANGED <<bg, proc, lock, next_id, pending, buffer, serial, task, started, failed, callback,
                   mapped, posts, process, lost, spared>>

TeardownStop ==
    /\ lifecycle.teardown = "begun"
    /\ IF bg = "running"
       THEN /\ task' = [task EXCEPT ![Stop].pc = "stop_all"]
            /\ lifecycle' = [lifecycle EXCEPT !.teardown = "running"] /\ UNCHANGED bg
       ELSE bg' = "closed" /\ lifecycle' = [lifecycle EXCEPT !.teardown = "closed"] /\ UNCHANGED task
    /\ UNCHANGED <<proc, lock, next_id, pending, buffer, serial, started, failed, callback, mapped,
                   posts, process, lost, spared>>

\* _stop is done, or 15 s are over and only the stream children are killed
\* (kill_all_sync): the loop is closed, no coroutine goes on and nobody reads what the
\* process still writes.  While a timer of shutdown's runs (two of 5 s)
\* that means that stopping the streams took long.
TeardownClose ==
    /\ lifecycle.teardown = "running"
    /\ lifecycle' = [lifecycle EXCEPT !.teardown = "closed"] /\ bg' = "closed"
    /\ spared' = (spared \/ task[Stop].pc \in cancellable \cup {"stop_all", "wait_proc"})
    /\ task' = [t \in Coroutines |-> Off] /\ lock' = "free"
    /\ pending' = none /\ buffer' = none /\ next_id' = 1 /\ serial' = 0
    /\ working' = {} /\ inbox' = {} /\ outbox' = {}
    /\ UNCHANGED <<proc, started, failed, callback, mapped, posts, node, client, stream, exiting,
                   events, lost>>

\* Hermes ends and the operating system closes the pipes.
HermesExits ==
    /\ lifecycle.teardown = "closed" /\ bg = "closed" /\ bg' = "exited"
    /\ UNCHANGED <<lifecycle, proc, lock, next_id, pending, buffer, serial, task, started, failed,
                   callback, mapped, posts, process, lost, spared>>

-----------------------------------------------------------------------------
\* dispatch: a handler ends and its response or error is written; handlers run
\* concurrently.
Handle(r) ==
    /\ node = "running" /\ r \in working /\ working' = working \ {r}
    /\ \E ok \in BOOLEAN :
        /\ r.method \in {"ping", "shutdown"} => ok
        /\ r.method = "send_text" => ok = client       \* its failure and success end alike
        /\ (r.method \in {"get_conversation", "stream_start"} /\ ~client) => ~ok
        /\ outbox' = outbox \cup {[id |-> r.id, call |-> r.call, ok |-> ok]}
        /\ client' = (client \/ (r.method = "create_client" /\ ok))
        /\ stream' = ((stream \/ (r.method = "stream_start" /\ ok)) /\ r.method # "shutdown")
        /\ exiting' = (exiting \/ r.method = "shutdown")
    /\ UNCHANGED <<python, node, inbox, events, lost, spared>>

\* A message of the group while its stream is active.
StreamEvent ==
    /\ node = "running" /\ stream /\ bg = "running" /\ events < MaxEvents
    /\ events' = events + 1
    /\ outbox' = outbox \cup {[id |-> 0, call |-> events', ok |-> TRUE]}
    /\ UNCHANGED <<python, node, inbox, working, client, stream, exiting, lost, spared>>

\* process.exit after a shutdown request, the SIGTERM of Stop or the end of stdin.
Exit ==
    /\ node = "running" /\ (exiting \/ task[Stop].pc = "wait_proc" \/ bg = "exited")
    /\ node' = "dead" /\ inbox' = {} /\ working' = {} /\ stream' = FALSE
    /\ UNCHANGED <<python, outbox, client, exiting, events, lost, spared>>

Crash ==
    /\ node = "running"
    /\ node' = "dead" /\ inbox' = {} /\ working' = {} /\ stream' = FALSE
    /\ UNCHANGED <<python, outbox, client, exiting, events, lost, spared>>

Hang ==
    /\ node = "running" /\ node' = "hung"
    /\ UNCHANGED <<python, inbox, working, outbox, client, stream, exiting, events, lost, spared>>

\* Its loop runs again and reads what has come in; a signal waits no longer.
Recover ==
    /\ node = "hung" /\ node' = "running"
    /\ working' = working \cup inbox /\ inbox' = {}
    /\ UNCHANGED <<python, outbox, client, stream, exiting, events, lost, spared>>

Calling(t) == Write(t) \/ Drain(t) \/ DrainFails(t) \/ Answered(t) \/ Timeout(t)

Reading == \E m \in outbox : ReadResponse(m) \/ ReadEvent(m)

Stopping == Shutdown \/ ShutdownTimeout \/ Reap

Lifecycle == Submit \/ TeardownStop \/ TeardownClose \/ HermesExits

Process == Exit \/ \E r \in working : Handle(r)

\* What the plugin's loop does by itself.
Loop ==
    \/ \E t \in Coroutines : Calling(t)
    \/ \E p \in Posters : PostReady(p)
    \/ Reading \/ Spawn \/ SpawnFails \/ Stopping

Next ==
    \/ Loop \/ Lifecycle \/ EnsureStreams \/ ToolCall \/ Teardown
    \/ \E p \in Posters : Post(p)
    \/ Process \/ StreamEvent \/ Crash \/ Hang \/ Recover

Spec == Init /\ [][Next]_vars

\* The loop runs while a coroutine can go on or a timer fires, threads of Hermes go
\* on, and a process told to end does; nobody has to post, answer, crash or recover.
FairSpec == Spec /\ WF_vars(Loop) /\ WF_vars(Lifecycle) /\ WF_vars(Exit)

-----------------------------------------------------------------------------
TypeOK ==
    /\ bg \in {"none", "running", "closed", "exited"} /\ lock \in Coroutines \cup {"free"}
    /\ next_id \in Nat /\ serial \in Nat
    /\ node \in {"absent", "running", "hung", "dead"}
    /\ \A t \in Coroutines : task[t].step \in 0..Len(Script(t))

\* Every call gets the answer to its own request, or none: late answers of calls that
\* gave up, kept for ever in _response_buffer, are never taken for another's.
OwnAnswer == \A t \in Coroutines : task[t].got \in {0, task[t].call}

\* No message of the group's stream is dropped for want of its callback or of the
\* fund's place in the map, however early the stream's first message comes.
NoEventDropped == ~lost

\* A summary's post ends, whatever becomes of the process, unless that hangs: the
\* reader of the fund's chain events goes on.
PostsEnd ==
    \A p \in Posters :
        task[p].pc # "off" ~> (task[p].pc = "off" \/ bg # "running" \/ node = "hung")

\* Once teardown begins, the process is gone in the end, also when it hangs with the
\* lock held by a call that cannot drain; only a hanging process that teardown had no
\* time for, or that was spawned after Stop looked, is left.
NodeGone == lifecycle.closed ~> (node \in {"absent", "dead"} \/ (node = "hung" /\ spared))
=============================================================================
