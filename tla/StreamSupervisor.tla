-------------------------- MODULE StreamSupervisor --------------------------
(***************************************************************************)
(* supervisor.py for one fund: a task that keeps one `sherwood session     *)
(* check --stream` child alive, the start and stop calls that race with it *)
(* and the status file the stream watchdog, another process, reads.        *)
(*                                                                         *)
(* Everything runs on the plugin's event loop, so a step is what happens   *)
(* between two awaits.  Children and the operating system are external.    *)
(* Hermes may be killed at any time and booted again.                      *)
(*                                                                         *)
(* Left out: the length of the backoff, the events themselves, a status    *)
(* write that fails (logged, best effort), start's wait for a pid.  A call *)
(* of start that finds a live task changes nothing and is no step.         *)
(***************************************************************************)
EXTENDS Naturals, FiniteSets

CONSTANTS MaxStarts,    \* bound: _State objects per Hermes process
          MaxSpawns,    \* bound: children per Hermes process
          MaxBoots,     \* bound: Hermes processes, one after the other
          Stoppers      \* callers of stop

ASSUME SupervisorAssumption ==
    MaxStarts \in Nat /\ MaxSpawns \in Nat /\ MaxBoots \in Nat \ {0}

VARIABLES
    mode,       \* Hermes: "up", "exited" (teardown ran) or "killed"
    boots,      \* how often it was started
    yields,     \* the Python it runs on: asyncio.wait_for suspends even if its
                \* coroutine would not (3.11 does, 3.12 and later do not)
    cur,        \* the _State in _states[subdomain], numbered; 0: none
    state,      \* the _State objects
    spawned,    \* children spawned so far; their pids are 1..spawned
    late,       \* history: those spawned for an object that a stop has marked
    alive,      \* the pids of this Hermes process' children that run
    stops,      \* the stop calls
    file        \* the fund's row in stream_status.json

supervisor == <<mode, boots, yields, cur, state, spawned, late, alive, stops, file>>

States == 1..MaxStarts

Pids == 1..MaxSpawns

\* A _State: its supervise task (where it awaits) and its fields; proc 0 is None.
\* NoState is an object that does not exist yet.
State == [task : {"none", "top", "spawning", "running", "draining", "sleeping", "done"},
          stop_requested : BOOLEAN, proc : Pids \cup {0}, restarting : BOOLEAN]

NoState == [task |-> "none", stop_requested |-> FALSE, proc |-> 0, restarting |-> FALSE]

\* A stop call: idle, in wait_for(proc.wait()), or awaiting the cancelled task.
Stop == [pc : {"idle", "grace", "joining"}, of : States \cup {0}, proc : Pids \cup {0}]

NoStop == [pc |-> "idle", of |-> 0, proc |-> 0]

\* left (history): Hermes found it at boot, written by another, and left it.
Row == [listed : BOOLEAN, pid : Pids \cup {0}, restarting : BOOLEAN, left : BOOLEAN]

NoRow == [listed |-> FALSE, pid |-> 0, restarting |-> FALSE, left |-> FALSE]

SupervisorInit ==
    /\ mode = "up" /\ boots = 1 /\ yields \in BOOLEAN
    /\ cur = 0
    /\ state = [g \in States |-> NoState]
    /\ spawned = 0 /\ late = {}
    /\ alive = {}
    /\ stops = [s \in Stoppers |-> NoStop]
    /\ file = NoRow

-----------------------------------------------------------------------------
\* write_status: the row of the current object, none once a stop was requested.
row(n, st) ==
    IF n = 0 THEN NoRow
    ELSE IF st[n].stop_requested THEN NoRow
    ELSE [listed |-> TRUE, pid |-> st[n].proc, restarting |-> st[n].restarting, left |-> FALSE]

write_status == file' = row(cur, state')

set(g, s) == state' = [state EXCEPT ![g] = s]

\* Mutant: start does not look at the running task.
StartAgain ==
    /\ mode = "up" /\ cur < MaxStarts /\ spawned < MaxSpawns
    /\ cur' = cur + 1
    /\ set(cur + 1, [NoState EXCEPT !.task = "top"])
    /\ UNCHANGED <<mode, boots, yields, spawned, late, alive, stops, file>>

\* start: a new object and a new task, unless the current task still runs.
Start ==
    /\ mode = "up" /\ cur < MaxStarts /\ spawned < MaxSpawns
    /\ cur # 0 => state[cur].task = "done"
    /\ cur' = cur + 1
    /\ set(cur + 1, [NoState EXCEPT !.task = "top"])
    /\ UNCHANGED <<mode, boots, yields, spawned, late, alive, stops, file>>

\* The head of _supervise's loop.
TaskTop(g) ==
    /\ state[g].task = "top"
    /\ set(g, [state[g] EXCEPT !.task = IF state[g].stop_requested THEN "done" ELSE "spawning"])
    /\ UNCHANGED <<mode, boots, yields, cur, spawned, late, alive, stops, file>>

\* _run_once: create_subprocess_exec returns; nobody looks at stop_requested here.
SpawnOk(g) ==
    /\ state[g].task = "spawning" /\ spawned < MaxSpawns
    /\ spawned' = spawned + 1
    /\ late' = IF state[g].stop_requested THEN late \cup {spawned + 1} ELSE late
    /\ alive' = alive \cup {spawned + 1}
    /\ set(g, [state[g] EXCEPT !.task = "running", !.proc = spawned + 1, !.restarting = FALSE])
    /\ write_status
    /\ UNCHANGED <<mode, boots, yields, cur, stops>>

\* A run is over: leave if asked to, else say so in the file and back off.
after_run(g) ==
    IF state[g].stop_requested
    THEN set(g, [state[g] EXCEPT !.task = "done"]) /\ UNCHANGED file
    ELSE set(g, [state[g] EXCEPT !.task = "sleeping", !.restarting = TRUE]) /\ write_status

\* create_subprocess_exec raises: logged, and retried like an exit.
SpawnFails(g) ==
    /\ state[g].task = "spawning"
    /\ after_run(g)
    /\ UNCHANGED <<mode, boots, yields, cur, spawned, late, alive, stops>>

\* The child ends, by itself (while another may be spawned) or once it was sent
\* SIGTERM.
ChildExits(c) ==
    /\ c \in alive
    /\ spawned < MaxSpawns \/ \E g \in States : state[g].proc = c /\ state[g].stop_requested
    /\ alive' = alive \ {c}
    /\ UNCHANGED <<mode, boots, yields, cur, state, spawned, late, stops, file>>

\* proc.wait() returns; the two readers get up to 2 s for what is in the pipes.
RunEnds(g) ==
    /\ state[g].task = "running" /\ state[g].proc \notin alive
    /\ set(g, [state[g] EXCEPT !.task = "draining"])
    /\ UNCHANGED <<mode, boots, yields, cur, spawned, late, alive, stops, file>>

\* Mutant: the status is only written when a child was spawned.
DrainedQuietly(g) ==
    /\ state[g].task = "draining"
    /\ set(g, [state[g] EXCEPT !.task = IF state[g].stop_requested THEN "done" ELSE "sleeping",
                               !.restarting = TRUE])
    /\ UNCHANGED <<mode, boots, yields, cur, spawned, late, alive, stops, file>>

Drained(g) ==
    /\ state[g].task = "draining"
    /\ after_run(g)
    /\ UNCHANGED <<mode, boots, yields, cur, spawned, late, alive, stops>>

\* Mutant: the loop ends after the first exit.
WakeOnce(g) ==
    /\ state[g].task = "sleeping"
    /\ set(g, [state[g] EXCEPT !.task = "done"])
    /\ UNCHANGED <<mode, boots, yields, cur, spawned, late, alive, stops, file>>

\* The backoff is over.
Wake(g) ==
    /\ state[g].task = "sleeping"
    /\ set(g, [state[g] EXCEPT !.task = "top"])
    /\ UNCHANGED <<mode, boots, yields, cur, spawned, late, alive, stops, file>>

\* _read_stdout: an event was routed and the last write is 30 s old.  A reader
\* may outlive its task.
EventWrites ==
    /\ mode = "up" /\ spawned > 0
    /\ UNCHANGED <<mode, boots, yields, cur, state, spawned, late, alive, stops>>
    /\ write_status

-----------------------------------------------------------------------------
(* stop.                                                                   *)

\* task.cancel() takes effect wherever the task awaits; a spawn that is cancelled
\* kills its own child.
cancelled(st) == [st EXCEPT !.task = "done", !.stop_requested = TRUE]

\* SIGTERM is sent and the child awaited, unless there is none, or it has exited
\* and wait_for returns at once.  Stopping a stopped stream does the same again.
StopBegin(s) ==
    /\ mode = "up" /\ stops[s].pc = "idle" /\ cur # 0
    /\ LET p == state[cur].proc
           waits == p # 0 /\ (p \in alive \/ yields)
       IN  /\ set(cur, IF waits THEN [state[cur] EXCEPT !.stop_requested = TRUE]
                       ELSE cancelled(state[cur]))
           /\ stops' = [stops EXCEPT ![s] = [pc |-> IF waits THEN "grace" ELSE "joining",
                                             of |-> cur, proc |-> p]]
    /\ UNCHANGED <<mode, boots, yields, cur, spawned, late, alive, file>>

\* The child the call knows has exited: the task is cancelled.
StopWaited(s) ==
    /\ stops[s].pc = "grace" /\ stops[s].proc \notin alive
    /\ set(stops[s].of, cancelled(state[stops[s].of]))
    /\ stops' = [stops EXCEPT ![s].pc = "joining"]
    /\ UNCHANGED <<mode, boots, yields, cur, spawned, late, alive, file>>

\* Mutant: after the grace period the task is cancelled and the child left alone.
StopForgets(s) ==
    /\ stops[s].pc = "grace" /\ stops[s].proc \in alive
    /\ set(stops[s].of, cancelled(state[stops[s].of]))
    /\ stops' = [stops EXCEPT ![s].pc = "joining"]
    /\ UNCHANGED <<mode, boots, yields, cur, spawned, late, alive, file>>

\* Mutant: there is no grace period's end.
StopWaitsOn(s) == stops[s].pc = "never" /\ UNCHANGED supervisor

\* The grace period is over: SIGKILL.
StopKills(s) ==
    /\ stops[s].pc = "grace" /\ stops[s].proc \in alive
    /\ alive' = alive \ {stops[s].proc}
    /\ set(stops[s].of, cancelled(state[stops[s].of]))
    /\ stops' = [stops EXCEPT ![s].pc = "joining"]
    /\ UNCHANGED <<mode, boots, yields, cur, spawned, late, file>>

\* The task has ended; the file is written with what is current by now.
StopReturns(s) ==
    /\ stops[s].pc = "joining"
    /\ stops' = [stops EXCEPT ![s] = NoStop]
    /\ UNCHANGED <<mode, boots, yields, cur, state, spawned, late, alive>>
    /\ write_status

-----------------------------------------------------------------------------
(* The life of the Hermes process.                                         *)

\* What was in memory is gone; children that survive are no longer supervised.
forget ==
    /\ cur' = 0 /\ spawned' = 0 /\ late' = {} /\ alive' = {}
    /\ state' = [g \in States |-> NoState]
    /\ stops' = [s \in Stoppers |-> NoStop]

\* teardown at exit: stop_all has ended, or the loop is stuck and kill_all_sync
\* sends SIGTERM to every child; either way the file ends up without a row.
Teardown ==
    /\ mode = "up"
    /\ mode' = "exited"
    /\ forget
    /\ file' = NoRow
    /\ UNCHANGED <<boots, yields>>

\* kill -9, OOM, reboot: the file stays as it was.
Killed ==
    /\ mode = "up"
    /\ mode' = "killed"
    /\ forget
    /\ UNCHANGED <<boots, yields, file>>

\* register: clear_stale_status blanks the rows of a writer that is dead.  It leaves
\* the file as it is if it cannot read it or if the writer's pid is in use again, by
\* this Hermes or by any other process.
Boot ==
    /\ mode # "up" /\ boots < MaxBoots
    /\ mode' = "up" /\ boots' = boots + 1
    /\ \/ file' = NoRow
       \/ file.listed /\ file' = [file EXCEPT !.left = TRUE]
    /\ UNCHANGED <<yields, cur, state, spawned, late, alive, stops>>

Task(g) == TaskTop(g) \/ SpawnOk(g) \/ SpawnFails(g) \/ RunEnds(g) \/ Drained(g) \/ Wake(g)

StopCall(s) == StopWaited(s) \/ StopKills(s) \/ StopReturns(s)

SupervisorNext ==
    \/ Start \/ EventWrites \/ Teardown \/ Killed \/ Boot
    \/ \E g \in States : Task(g)
    \/ \E c \in Pids : ChildExits(c)
    \/ \E s \in Stoppers : StopBegin(s) \/ StopCall(s)

SupervisorSpec == SupervisorInit /\ [][SupervisorNext]_supervisor

\* The event loop runs what is ready and its timers fire; the child's binary can
\* be started again and again.
TaskFairness ==
    /\ \A g \in States : WF_supervisor(Task(g)) /\ SF_supervisor(SpawnOk(g))
    /\ \A s \in Stoppers : WF_supervisor(StopCall(s))

-----------------------------------------------------------------------------
(* The watchdog, another process, reads the file now and then.             *)

\* _stream: a listed fund is dead if the process that wrote the file is, or if its
\* child is and nobody says it is being restarted.  (A stream that is only silent
\* is reported by the age of its last event: left out.)
dead(r) == r.listed /\ (mode # "up" \/ (~r.restarting /\ r.pid \notin alive))

-----------------------------------------------------------------------------
(* Properties.                                                             *)

SupervisorTypeOK ==
    /\ mode \in {"up", "exited", "killed"}
    /\ boots \in 1..MaxBoots /\ yields \in BOOLEAN
    /\ cur \in States \cup {0}
    /\ state \in [States -> State]
    /\ spawned \in 0..MaxSpawns
    /\ late \in SUBSET (1..spawned) /\ alive \in SUBSET (1..spawned)
    /\ stops \in [Stoppers -> Stop]
    /\ file \in Row

\* Of the children whose object nobody had stopped when they were spawned one runs:
\* however starts, stops, exits and backoffs interleave, no two of these stream the
\* fund's events.
OneStream == Cardinality(alive \ late) <= 1

\* A child that runs has a task that will see it exit or a stop that will kill it:
\* when the last stop has returned, nothing is left running.  What can be left is a
\* child whose spawn returned after its stop had begun, and only where wait_for
\* suspends for a child that has exited.
NoOrphan ==
    /\ \A c \in alive \ late : \E g \in States : state[g].proc = c /\ state[g].task = "running"
    /\ ~yields => late = {}

\* "one `sherwood session check --stream` subprocess per fund" (supervisor.py), on
\* every Python the package supports.  The code breaks it on 3.11.
OneSubprocess == Cardinality(alive) <= 1

\* What the stream watchdog reads: the pid of the running child, "restarting" in a
\* backoff, and nothing for a stopped stream, a Hermes that exited, or one that
\* has just booted after a crash, unless boot had to leave the row it found.  With
\* Hermes up it calls a stream dead only while the exit of the child is being noticed,
\* the first child is being spawned, or a stop is under way; a backoff is no alarm.
StatusFileTruth ==
    /\ mode = "exited" => file = NoRow
    /\ mode = "up" /\ cur = 0 => file = NoRow \/ file.left
    /\ cur # 0 =>
         LET c == state[cur]
             quiet == \A s \in Stoppers : stops[s].pc = "idle"
         IN  /\ c.task \in {"running", "draining"} /\ ~c.stop_requested
                  => file = [listed |-> TRUE, pid |-> c.proc, restarting |-> FALSE, left |-> FALSE]
             /\ c.restarting /\ ~c.stop_requested
                  => file = [listed |-> TRUE, pid |-> c.proc, restarting |-> TRUE, left |-> FALSE]
             /\ c.stop_requested /\ quiet => file = NoRow
             /\ dead(file) /\ quiet =>
                  \/ c.task \in {"running", "draining"} /\ c.proc \notin alive
                  \/ c.task \in {"top", "spawning"} /\ c.proc = 0 /\ ~c.restarting

\* A stream nobody stopped comes back after every exit and every failed spawn.
StreamRecovers ==
    \A g \in States :
        state[g].task \notin {"none", "done"}
            ~> state[g].proc \in alive \/ state[g].stop_requested \/ mode # "up"

\* stop returns, even if the child ignores SIGTERM and the task is in a backoff.
StopReturnsAlways == \A s \in Stoppers : stops[s].pc = "grace" ~> stops[s].pc = "idle"

=============================================================================
