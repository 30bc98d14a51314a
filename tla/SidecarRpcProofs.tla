-------------------------- MODULE SidecarRpcProofs --------------------------
(***************************************************************************)
(* Proofs about SidecarRpc, for any number of posters, posts and events    *)
(* and any size of the pipe.                                               *)
(*                                                                         *)
(* Ids and serial numbers are counted together, so everywhere a request or *)
(* an answer is on its way, in a buffer or registered, its id is its       *)
(* serial number (Ids): an answer kept for ever for a call that gave up    *)
(* meets no later call with its id.  And wherever a stream may come from,  *)
(* back to the coroutine that is about to ask for it, the callback and the *)
(* map are already there (Wired).                                          *)
(***************************************************************************)
EXTENDS SidecarRpc, TLAPS

Pcs == {"off", "spawn", "want", "drain", "wait", "await", "ended", "stop_all", "wait_proc", "done"}

Task == [pc : Pcs, step : Nat, call : Nat, id : Nat, got : Nat, ok : BOOLEAN]

Methods == {"create_client", "get_conversation", "stream_start", "shutdown", "send_text"}

Request == [id : Nat \ {0}, call : Nat, method : Methods]

Response == [id : Nat, call : Nat, ok : BOOLEAN]

Ids ==
    /\ next_id \in Nat /\ serial \in Nat /\ next_id = serial + 1
    /\ \A i \in DOMAIN pending : pending[i] = i
    /\ \A i \in DOMAIN buffer : i \in Nat /\ buffer[i].call = i /\ buffer[i].ok \in BOOLEAN
    /\ inbox \subseteq Request /\ working \subseteq Request /\ outbox \subseteq Response
    /\ \A r \in inbox \cup working : r.id = r.call
    /\ \A m \in outbox : m.id # 0 => m.id = m.call
    /\ events \in Nat

\* The coroutines: what they wait for, and how far in their script they are.
Tasks ==
    /\ task \in [Coroutines -> Task]
    /\ \A t \in Coroutines :
        /\ task[t].id = task[t].call /\ task[t].got \in {0, task[t].call}
        /\ task[t].pc = "want" => task[t].got = 0
        /\ task[t].pc \in {"want", "drain", "wait"} => task[t].step \in 1..Len(Script(t))

Wired ==
    /\ lost = FALSE /\ callback \in BOOLEAN /\ mapped \in BOOLEAN
    /\ \/ callback /\ mapped
       \/ /\ ~stream /\ task[Wire].step # 3
          /\ \A m \in outbox : m.id # 0
          /\ \A r \in inbox \cup working : r.method # "stream_start"

RpcInv == Ids /\ Tasks /\ Wired

-----------------------------------------------------------------------------
LEMMA ScriptLen ==
    /\ Script(Wire) = <<"create_client", "get_conversation", "stream_start">>
    /\ Len(Script(Wire)) = 3 /\ Wire \in Coroutines /\ Stop \in Coroutines /\ Posters \subseteq Coroutines
    /\ \A t \in Coroutines \ {Wire} : Len(Script(t)) = 1 /\ Script(t)[1] \in {"shutdown", "send_text"}
  BY SidecarAssumption DEF Script, Coroutines

LEMMA ScriptMethods ==
    ASSUME NEW t \in Coroutines, NEW k \in 1..Len(Script(t))
    PROVE  Script(t)[k] \in Methods /\ (Script(t)[k] = "stream_start" => t = Wire /\ k = 3)
<1>1. CASE t = Wire
  <2>1. Script(t) = <<"create_client", "get_conversation", "stream_start">>
    BY <1>1, ScriptLen
  <2>2. k = 1 \/ k = 2 \/ k = 3
    BY <2>1
  <2>3. /\ k = 1 => Script(t)[k] = "create_client"
        /\ k = 2 => Script(t)[k] = "get_conversation"
        /\ k = 3 => Script(t)[k] = "stream_start"
    BY <2>1
  <2> QED BY <1>1, <2>2, <2>3 DEF Methods
<1>2. CASE t # Wire
  <2>1. CASE t = Stop
    <3>1. Script(t) = <<"shutdown">>
      BY <1>2, <2>1 DEF Script
    <3>2. Len(Script(t)) = 1 /\ Script(t)[1] = "shutdown"
      BY <3>1
    <3>3. k = 1
      BY <3>2
    <3> QED BY <3>2, <3>3 DEF Methods
  <2>2. CASE t # Stop
    <3>1. Script(t) = <<"send_text">>
      BY <1>2, <2>2 DEF Script
    <3>2. Len(Script(t)) = 1 /\ Script(t)[1] = "send_text"
      BY <3>1
    <3>3. k = 1
      BY <3>2
    <3> QED BY <3>2, <3>3 DEF Methods
  <2> QED BY <2>1, <2>2
<1> QED BY <1>1, <1>2

LEMMA OffTyped ==
    /\ Off \in Task
    /\ \A pc \in Pcs, k \in Nat :
        LET o == [Off EXCEPT !.pc = pc, !.step = k] IN
        o \in Task /\ o.pc = pc /\ o.step = k /\ o.id = 0 /\ o.call = 0 /\ o.got = 0
    /\ \A pc \in Pcs :
        LET o == [Off EXCEPT !.pc = pc] IN
        o \in Task /\ o.pc = pc /\ o.step = 0 /\ o.id = 0 /\ o.call = 0 /\ o.got = 0
    /\ Off.pc = "off" /\ Off.step = 0 /\ Off.id = 0 /\ Off.call = 0 /\ Off.got = 0
  BY DEF Off, Task, Pcs

\* A coroutine that waits for the lock with its k-th request.
Want(k) == [Off EXCEPT !.pc = "want", !.step = k]

LEMMA WantTyped ==
    \A k \in Nat : /\ Want(k) \in Task /\ Want(k).pc = "want" /\ Want(k).step = k
                   /\ Want(k).id = 0 /\ Want(k).call = 0 /\ Want(k).got = 0
  BY DEF Want, Off, Task, Pcs

\* A coroutine that goes on from a request: its next task waits for nothing, and Wire
\* gets to the last of its requests only with the callback and the map in place.
LEMMA Continued ==
    ASSUME Tasks, NEW t \in Coroutines, NEW ok \in BOOLEAN, Continue(t, ok),
           task[t].pc \in {"want", "drain", "wait"},
           callback \in BOOLEAN, mapped \in BOOLEAN
    PROVE  /\ Tasks'
           /\ callback => callback'
           /\ mapped => mapped'
           /\ callback' \in BOOLEAN /\ mapped' \in BOOLEAN
           /\ task'[Wire].step = 3 => (task[Wire].step = 3 \/ (callback' /\ mapped'))
<1> DEFINE k == task[t].step
<1>1. k \in 1..Len(Script(t)) /\ Len(Script(t)) \in {1, 3} /\ k \in Nat
  BY ScriptLen DEF Tasks
<1>2. PICK o \in Task : /\ task' = [task EXCEPT ![t] = o]
                        /\ o.id = 0 /\ o.call = 0 /\ o.got = 0
                        /\ o.pc \in {"want", "drain", "wait"} => o.step \in 1..Len(Script(t))
                        /\ o.step # 0 => t # Stop /\ ok /\ o.step = k + 1
  <2>1. CASE t = Stop
    <3>1. task' = [task EXCEPT ![t] = [Off EXCEPT !.pc = "wait_proc"]]
      BY <2>1 DEF Continue
    <3> QED BY <3>1, OffTyped DEF Pcs
  <2>2. CASE t # Stop /\ ok /\ k < Len(Script(t))
    <3>1. task' = [task EXCEPT ![t] = [Off EXCEPT !.pc = "want", !.step = k + 1]]
      BY <2>2 DEF Continue
    <3>2. k + 1 \in Nat /\ k + 1 \in 1..Len(Script(t))
      BY <1>1, <2>2
    <3>3. "want" \in Pcs
      BY DEF Pcs
    <3> DEFINE o == Want(k + 1)
    <3>4. o \in Task /\ o.id = 0 /\ o.call = 0 /\ o.got = 0 /\ o.step = k + 1
      BY <3>2, WantTyped, Zenon
    <3> HIDE DEF o, k
    <3>5. task' = [task EXCEPT ![t] = o]
      BY <3>1 DEF o, Want
    <3> QED BY <2>2, <3>2, <3>4, <3>5
  <2>3. CASE t # Stop /\ ~(ok /\ k < Len(Script(t)))
    <3>1. task' = [task EXCEPT ![t] = [Off EXCEPT !.pc = IF t = Wire THEN "ended" ELSE "off"]]
      BY <2>3 DEF Continue
    <3>2. (IF t = Wire THEN "ended" ELSE "off") \in Pcs \ {"want", "drain", "wait"}
      BY DEF Pcs
    <3> QED BY <3>1, <3>2, OffTyped
  <2> QED BY <2>1, <2>2, <2>3
<1>3. Tasks'
  BY <1>2 DEF Tasks
<1>4. /\ callback' = (callback \/ (t = Wire /\ k = 2))
      /\ mapped' = (mapped \/ (t = Wire /\ ok /\ k = 2))
  BY DEF Continue, maps
<1>5. ASSUME task'[Wire].step = 3 PROVE task[Wire].step = 3 \/ (callback' /\ mapped')
  <2>1. CASE t = Wire
    BY <1>1, <1>2, <1>4, <1>5, <2>1 DEF Tasks
  <2>2. CASE t # Wire
    BY <1>2, <1>5, <2>2, ScriptLen DEF Tasks
  <2> QED BY <2>1, <2>2
<1> QED BY <1>3, <1>4, <1>5

-----------------------------------------------------------------------------
\* What steps that register, write and start nothing leave of Ids ...
LEMMA IdsKept ==
    ASSUME Ids, next_id' = next_id, serial' = serial, events' = events,
           DOMAIN pending' \subseteq DOMAIN pending, \A i \in DOMAIN pending' : pending'[i] = pending[i],
           DOMAIN buffer' \subseteq DOMAIN buffer, \A i \in DOMAIN buffer' : buffer'[i] = buffer[i],
           inbox' \cup working' \subseteq inbox \cup working, outbox' \subseteq outbox
    PROVE  Ids'
  BY DEF Ids

\* ... and of Wired.
LEMMA WiredKept ==
    ASSUME Wired, lost' = lost, callback' \in BOOLEAN, mapped' \in BOOLEAN,
           callback => callback', mapped => mapped', stream' => stream,
           task'[Wire].step = 3 => (task[Wire].step = 3 \/ (callback' /\ mapped')),
           inbox' \cup working' \subseteq inbox \cup working, outbox' \subseteq outbox
    PROVE  Wired'
  BY DEF Wired

\* A coroutine that is given a new task, waiting for nothing.
LEMMA TaskReset ==
    ASSUME Tasks, NEW t \in Coroutines, NEW o \in Task, task' = [task EXCEPT ![t] = o],
           o.id = 0, o.call = 0, o.got = 0, o.step # 3,
           o.pc \in {"want", "drain", "wait"} => o.step \in 1..Len(Script(t))
    PROVE  Tasks' /\ (task'[Wire].step = 3 => task[Wire].step = 3)
<1>1. Tasks'
  BY DEF Tasks
<1>2. task'[Wire].step = 3 => task[Wire].step = 3
  BY ScriptLen DEF Tasks
<1> QED BY <1>1, <1>2

\* A coroutine that only moves to a place outside call().
LEMMA TaskMoved ==
    ASSUME Tasks, NEW t \in Coroutines, NEW pc \in Pcs \ {"want", "drain", "wait"},
           task' = [task EXCEPT ![t].pc = pc]
    PROVE  Tasks' /\ task'[Wire].step = task[Wire].step
<1> DEFINE o == [task[t] EXCEPT !.pc = pc]
<1>1. /\ o \in Task /\ o.pc = pc /\ o.step = task[t].step
      /\ o.id = task[t].id /\ o.call = task[t].call /\ o.got = task[t].got
  BY DEF Tasks, Task
<1>2. task' = [task EXCEPT ![t] = o]
  OBVIOUS
<1> HIDE DEF o
<1>3. Tasks'
  BY <1>1, <1>2 DEF Tasks
<1>4. task'[Wire].step = task[Wire].step
  BY <1>1, <1>2, ScriptLen DEF Tasks
<1> QED BY <1>3, <1>4

LEMMA WithoutKeeps ==
    ASSUME NEW f, NEW x
    PROVE  DOMAIN without(f, x) \subseteq DOMAIN f /\ \A y \in DOMAIN without(f, x) : without(f, x)[y] = f[y]
  BY DEF without

-----------------------------------------------------------------------------
\* A call that ends without an answer or with one, and goes on.
LEMMA GoesOn ==
    ASSUME RpcInv, NEW t \in Coroutines, DrainFails(t) \/ Answered(t) \/ Timeout(t)
    PROVE  RpcInv'
<1>1. PICK ok \in BOOLEAN : Continue(t, ok) /\ task[t].pc \in {"want", "drain", "wait"}
  <2>1. task[t].ok \in BOOLEAN
    BY DEF RpcInv, Tasks, Task
  <2> QED BY <2>1 DEF DrainFails, Answered, Timeout, at
<1>2. /\ UNCHANGED <<next_id, serial, events, buffer, inbox, working, outbox, lost, stream>>
      /\ pending' = pending \/ pending' = without(pending, task[t].id)
  BY DEF DrainFails, Answered, Timeout, process
<1>3. Ids'
  BY <1>2, IdsKept, WithoutKeeps DEF RpcInv
<1>4. /\ Tasks' /\ (callback => callback') /\ (mapped => mapped')
      /\ callback' \in BOOLEAN /\ mapped' \in BOOLEAN
      /\ task'[Wire].step = 3 => (task[Wire].step = 3 \/ (callback' /\ mapped'))
  BY <1>1, Continued DEF RpcInv, Wired
<1>5. Wired'
  BY <1>2, <1>4, WiredKept DEF RpcInv
<1> QED BY <1>3, <1>4, <1>5 DEF RpcInv

\* A request is written under the next id, which is its serial number, too; the stream
\* is asked for only by Wire, at its last request.
LEMMA Writes ==
    ASSUME RpcInv, NEW t \in Coroutines, Write(t)
    PROVE  RpcInv'
<1>1. /\ next_id' = next_id + 1 /\ serial' = serial + 1 /\ take_id = serial'
      /\ next_id' \in Nat /\ serial' \in Nat \ {0} /\ next_id' = serial' + 1
      /\ pending' = with(pending, take_id, serial')
      /\ UNCHANGED <<buffer, outbox, events, stream, lost>>
  BY DEF Write, take_id, RpcInv, Ids
<1>2. \A i \in DOMAIN pending' : pending'[i] = i
  <2>1. \A i \in DOMAIN pending : pending[i] = i
    BY DEF RpcInv, Ids
  <2>2. pending' = [y \in DOMAIN pending \cup {serial'} |-> IF y = serial' THEN serial' ELSE pending[y]]
    BY <1>1 DEF with
  <2> QED BY <2>1, <2>2
<1>3. CASE Continue(t, FALSE) /\ UNCHANGED <<inbox, working>>
  <2>1. Ids'
    BY <1>1, <1>2, <1>3 DEF RpcInv, Ids
  <2>2. /\ Tasks' /\ (callback => callback') /\ (mapped => mapped')
        /\ callback' \in BOOLEAN /\ mapped' \in BOOLEAN
        /\ task'[Wire].step = 3 => (task[Wire].step = 3 \/ (callback' /\ mapped'))
    BY <1>3, Continued DEF RpcInv, Wired, Write, at
  <2>3. Wired'
    BY <1>1, <1>3, <2>2, WiredKept DEF RpcInv
  <2> QED BY <2>1, <2>2, <2>3 DEF RpcInv
<1>4. CASE /\ proc
           /\ LET r == [id |-> take_id, call |-> serial', method |-> method(t)] IN
              /\ inbox' = IF node = "hung" THEN inbox \cup {r} ELSE inbox
              /\ working' = IF node = "running" THEN working \cup {r} ELSE working
           /\ LET full == Cardinality(inbox') > PipeMax IN
              /\ lock' = IF full THEN t ELSE "free"
              /\ task' = [task EXCEPT ![t].pc = IF full THEN "drain" ELSE "wait",
                                      ![t].call = serial', ![t].id = take_id]
           /\ UNCHANGED <<started, failed, callback, mapped>>
  <2> DEFINE r == [id |-> serial', call |-> serial', method |-> method(t)]
  <2>1. task[t].pc = "want" /\ task[t].got = 0 /\ task[t].step \in 1..Len(Script(t))
    BY DEF Write, at, RpcInv, Tasks
  <2>2. method(t) \in Methods /\ (method(t) = "stream_start" => t = Wire /\ task[Wire].step = 3)
    BY <2>1, ScriptMethods DEF method
  <2>3. /\ r \in Request /\ r.id = serial' /\ r.call = serial' /\ r.method = method(t)
        /\ inbox' \subseteq inbox \cup {r} /\ working' \subseteq working \cup {r}
    BY <1>1, <1>4, <2>2 DEF Request
  <2> HIDE DEF r
  <2>4. Ids'
    BY <1>1, <1>2, <2>3 DEF RpcInv, Ids
  <2>5. PICK pc \in {"drain", "wait"} :
            task' = [task EXCEPT ![t].pc = pc, ![t].call = serial', ![t].id = serial']
    BY <1>1, <1>4
  <2> DEFINE o == [task[t] EXCEPT !.pc = pc, !.call = serial', !.id = serial']
  <2>6. /\ o \in Task /\ o.step = task[t].step /\ o.pc = pc
        /\ o.id = serial' /\ o.call = serial' /\ o.got = 0
    BY <1>1, <2>1 DEF RpcInv, Tasks, Task, Pcs
  <2>7. task' = [task EXCEPT ![t] = o]
    BY <2>5
  <2> HIDE DEF o
  <2>8. Tasks'
    BY <2>1, <2>6, <2>7 DEF RpcInv, Tasks
  <2>9. task'[Wire].step = task[Wire].step
    BY <2>6, <2>7, ScriptLen DEF RpcInv, Tasks
  <2>10. Wired'
    BY <1>1, <1>4, <2>2, <2>3, <2>9 DEF RpcInv, Wired
  <2> QED BY <2>4, <2>8, <2>10 DEF RpcInv
<1> QED BY <1>3, <1>4 DEF Write

\* A drain that returns finds under its id only the answer to its own call.
LEMMA Drains ==
    ASSUME RpcInv, NEW t \in Coroutines, Drain(t)
    PROVE  RpcInv'
<1> DEFINE i == task[t].id
           g == IF i \in DOMAIN buffer /\ task[t].got = 0 THEN buffer[i].call ELSE task[t].got
           k == IF i \in DOMAIN buffer /\ task[t].got = 0 THEN buffer[i].ok ELSE task[t].ok
           o == [task[t] EXCEPT !.pc = "wait", !.got = g, !.ok = k]
<1>1. /\ task[t] \in Task /\ i = task[t].call /\ task[t].got \in {0, i} /\ i \in Nat
      /\ task[t].pc = "drain" /\ task[t].step \in 1..Len(Script(t))
  BY DEF RpcInv, Tasks, Task, Drain, at
<1>2. g \in {0, i} /\ k \in BOOLEAN
  BY <1>1 DEF RpcInv, Ids, Task
<1>3. task' = [task EXCEPT ![t] = o]
  BY DEF Drain
<1>4. o \in Task /\ o.pc = "wait" /\ o.step = task[t].step /\ o.id = i /\ o.call = i /\ o.got = g
  BY <1>1, <1>2 DEF Task, Pcs
<1> HIDE DEF o, g, k
<1>5. Tasks'
  BY <1>1, <1>2, <1>3, <1>4 DEF RpcInv, Tasks
<1>6. task'[Wire].step = task[Wire].step
  BY <1>3, <1>4, ScriptLen DEF RpcInv, Tasks
<1>7. /\ UNCHANGED <<next_id, serial, events, pending, inbox, working, outbox, lost, stream, callback, mapped>>
      /\ buffer' = without(buffer, i)
  BY DEF Drain, process
<1>8. Ids'
  BY <1>7, IdsKept, WithoutKeeps DEF RpcInv
<1>9. Wired'
  BY <1>6, <1>7, WiredKept DEF RpcInv, Wired
<1> QED BY <1>5, <1>8, <1>9 DEF RpcInv

\* A response resolves only the future of the call it answers, or is kept under its id.
LEMMA Reads ==
    ASSUME RpcInv, NEW m \in outbox, ReadResponse(m)
    PROVE  RpcInv'
<1>1. /\ m \in Response /\ m.id \in Nat \ {0} /\ m.id = m.call /\ m.ok \in BOOLEAN
      /\ UNCHANGED <<next_id, serial, events, pending, inbox, working, lost, stream, callback, mapped>>
      /\ outbox' \subseteq outbox
  BY DEF RpcInv, Ids, Response, ReadResponse
<1>2. CASE \E F \in SUBSET Coroutines :
              /\ \A t \in F : task[t].pc \in {"drain", "wait"} /\ task[t].call = m.call
              /\ task' = [t \in Coroutines |-> IF t \in F
                              THEN [task[t] EXCEPT !.got = m.call, !.ok = m.ok] ELSE task[t]]
              /\ UNCHANGED buffer
  <2>1. PICK F \in SUBSET Coroutines :
              /\ \A t \in F : task[t].pc \in {"drain", "wait"} /\ task[t].call = m.call
              /\ task' = [t \in Coroutines |-> IF t \in F
                              THEN [task[t] EXCEPT !.got = m.call, !.ok = m.ok] ELSE task[t]]
              /\ UNCHANGED buffer
    BY <1>2
  <2>2. ASSUME NEW t \in Coroutines
        PROVE  /\ task'[t] \in Task /\ task'[t].pc = task[t].pc /\ task'[t].step = task[t].step
               /\ task'[t].id = task[t].id /\ task'[t].call = task[t].call
               /\ task'[t].got = task[t].got \/ (t \in F /\ task'[t].got = m.call)
    BY <1>1, <2>1 DEF RpcInv, Tasks, Task
  <2>3. task' \in [Coroutines -> Task]
    BY <2>1, <2>2
  <2>4. Tasks'
    <3>1. ASSUME NEW t \in Coroutines
          PROVE  /\ task'[t].id = task'[t].call /\ task'[t].got \in {0, task'[t].call}
                 /\ task'[t].pc = "want" => task'[t].got = 0
                 /\ task'[t].pc \in {"want", "drain", "wait"} => task'[t].step \in 1..Len(Script(t))
      <4>1. /\ task[t].id = task[t].call /\ task[t].got \in {0, task[t].call}
            /\ task[t].pc = "want" => task[t].got = 0
            /\ task[t].pc \in {"want", "drain", "wait"} => task[t].step \in 1..Len(Script(t))
        BY DEF RpcInv, Tasks
      <4>2. CASE task'[t].got = task[t].got
        BY <2>2, <4>1, <4>2
      <4>3. CASE t \in F /\ task'[t].got = m.call
        <5>1. task[t].pc # "want" /\ task[t].call = m.call
          BY <2>1, <4>3
        <5> QED BY <2>2, <4>1, <4>3, <5>1
      <4> QED BY <2>2, <4>2, <4>3
    <3> QED BY <2>3, <3>1 DEF Tasks
  <2>5. Ids'
    BY <1>1, <2>1, IdsKept DEF RpcInv
  <2>6. Wired'
    BY <1>1, <2>2, ScriptLen, WiredKept DEF RpcInv, Wired
  <2> QED BY <2>4, <2>5, <2>6 DEF RpcInv
<1>3. CASE buffer' = with(buffer, m.id, [call |-> m.call, ok |-> m.ok]) /\ UNCHANGED task
  <2>1. \A i \in DOMAIN buffer' : i \in Nat /\ buffer'[i].call = i /\ buffer'[i].ok \in BOOLEAN
    <3>1. \A i \in DOMAIN buffer : i \in Nat /\ buffer[i].call = i /\ buffer[i].ok \in BOOLEAN
      BY DEF RpcInv, Ids
    <3>2. buffer' = [y \in DOMAIN buffer \cup {m.id} |->
                        IF y = m.id THEN [call |-> m.call, ok |-> m.ok] ELSE buffer[y]]
      BY <1>3 DEF with
    <3> QED BY <1>1, <3>1, <3>2
  <2>2. Ids'
    BY <1>1, <2>1 DEF RpcInv, Ids
  <2>3. Tasks' /\ Wired'
    BY <1>1, <1>3 DEF RpcInv, Tasks, Wired
  <2> QED BY <2>2, <2>3 DEF RpcInv
<1>4. \/ buffer' = with(buffer, m.id, [call |-> m.call, ok |-> m.ok]) /\ UNCHANGED task
      \/ \E F \in SUBSET Coroutines :
              /\ \A t \in F : task[t].pc \in {"drain", "wait"} /\ task[t].call = m.call
              /\ task' = [t \in Coroutines |-> IF t \in F
                              THEN [task[t] EXCEPT !.got = m.call, !.ok = m.ok] ELSE task[t]]
              /\ UNCHANGED buffer
  <2> DEFINE F == {t \in Coroutines : /\ task[t].pc \in {"drain", "wait"} /\ m.id \in DOMAIN pending
                                      /\ m.id \in DOMAIN pending => task[t].call = pending[m.id]}
  <2>1. F \in SUBSET Coroutines
    OBVIOUS
  <2>2. \A t \in F : task[t].pc \in {"drain", "wait"} /\ task[t].call = m.call
    BY <1>1 DEF RpcInv, Ids
  <2>3. \/ buffer' = with(buffer, m.id, [call |-> m.call, ok |-> m.ok]) /\ UNCHANGED task
        \/ task' = [t \in Coroutines |-> IF t \in F
                       THEN [task[t] EXCEPT !.got = m.call, !.ok = m.ok] ELSE task[t]] /\ UNCHANGED buffer
    BY DEF ReadResponse
  <2> HIDE DEF F
  <2> QED BY <2>1, <2>2, <2>3
<1> QED BY <1>2, <1>3, <1>4

\* A stream event that is read finds its callback and its fund.
LEMMA ReadsEvent ==
    ASSUME RpcInv, NEW m \in outbox, ReadEvent(m)
    PROVE  RpcInv'
<1>1. /\ UNCHANGED <<next_id, serial, events, pending, buffer, inbox, working, stream, callback, mapped, task>>
      /\ outbox' \subseteq outbox /\ m.id = 0 /\ lost' = (lost \/ ~callback \/ ~mapped)
  BY DEF ReadEvent, python
<1>2. lost' = lost
  BY <1>1 DEF RpcInv, Wired
<1>3. Ids'
  BY <1>1, IdsKept DEF RpcInv
<1>4. Tasks' /\ Wired'
  BY <1>1, <1>2 DEF RpcInv, Tasks, Wired
<1> QED BY <1>3, <1>4 DEF RpcInv

\* A handler answers under the id of its request; the stream it may start was asked for
\* by Wire.
LEMMA Handles ==
    ASSUME RpcInv, NEW r \in working, Handle(r)
    PROVE  RpcInv'
<1>1. PICK ok \in BOOLEAN :
        /\ outbox' = outbox \cup {[id |-> r.id, call |-> r.call, ok |-> ok]}
        /\ stream' = ((stream \/ (r.method = "stream_start" /\ ok)) /\ r.method # "shutdown")
  BY DEF Handle
<1>2. /\ UNCHANGED <<next_id, serial, events, pending, buffer, inbox, lost, callback, mapped, task>>
      /\ working' \subseteq working
  BY DEF Handle, python
<1> DEFINE m == [id |-> r.id, call |-> r.call, ok |-> ok]
<1>3. m \in Response /\ m.id # 0 /\ m.id = m.call
  BY DEF RpcInv, Ids, Request, Response
<1>4. outbox' = outbox \cup {m}
  BY <1>1
<1> HIDE DEF m
<1>5. Ids'
  BY <1>2, <1>3, <1>4 DEF RpcInv, Ids
<1>6. Tasks'
  BY <1>2 DEF RpcInv, Tasks
<1>7. Wired'
  BY <1>1, <1>2, <1>3, <1>4 DEF RpcInv, Wired
<1> QED BY <1>5, <1>6, <1>7 DEF RpcInv

LEMMA Streams ==
    ASSUME RpcInv, StreamEvent
    PROVE  RpcInv'
<1> DEFINE m == [id |-> 0, call |-> events', ok |-> TRUE]
<1>1. /\ UNCHANGED <<next_id, serial, pending, buffer, inbox, working, lost, callback, mapped, task, stream>>
      /\ stream /\ events' \in Nat /\ outbox' = outbox \cup {m}
  BY DEF StreamEvent, python, RpcInv, Ids
<1>2. m \in Response /\ m.id = 0
  BY <1>1 DEF Response
<1> HIDE DEF m
<1>3. Ids'
  BY <1>1, <1>2 DEF RpcInv, Ids
<1>4. Tasks'
  BY <1>1 DEF RpcInv, Tasks
<1>5. Wired'
  BY <1>1 DEF RpcInv, Wired
<1> QED BY <1>3, <1>4, <1>5 DEF RpcInv

\* The process ends, hangs or goes on.
LEMMA NodeSteps ==
    ASSUME RpcInv, Exit \/ Crash \/ Hang \/ Recover
    PROVE  RpcInv'
<1>1. /\ UNCHANGED <<next_id, serial, events, pending, buffer, outbox, lost, callback, mapped, task>>
      /\ inbox' \cup working' \subseteq inbox \cup working
      /\ stream' = stream \/ stream' = FALSE
  BY DEF Exit, Crash, Hang, Recover, python
<1>2. Ids'
  BY <1>1, IdsKept DEF RpcInv
<1>3. Tasks' /\ Wired'
  BY <1>1 DEF RpcInv, Tasks, Wired
<1> QED BY <1>2, <1>3 DEF RpcInv

\* Coroutines that begin, end or move outside call().
LEMMA Moves ==
    ASSUME RpcInv,
           \/ Spawn \/ SpawnFails \/ Shutdown \/ ShutdownTimeout \/ Reap
           \/ \E p \in Posters : Post(p) \/ PostReady(p)
           \/ Submit \/ TeardownStop
    PROVE  RpcInv'
<1>1. /\ UNCHANGED <<next_id, serial, events, buffer, lost, callback, mapped>>
      /\ inbox' \cup working' \subseteq inbox \cup working
      /\ outbox' \subseteq outbox
      /\ stream' = stream \/ stream' = FALSE
      /\ pending' = pending \/ pending' = without(pending, task[Stop].id)
  BY DEF Spawn, SpawnFails, Shutdown, ShutdownTimeout, Reap, Post, PostReady, Submit, TeardownStop, process
<1>2. Ids'
  BY <1>1, IdsKept, WithoutKeeps DEF RpcInv
<1>3. Tasks' /\ (task'[Wire].step = 3 => task[Wire].step = 3)
  <2>1. CASE task' = task
    BY <2>1 DEF RpcInv, Tasks
  <2>2. CASE \E t \in Coroutines, pc \in {"await", "spawn", "stop_all", "done"} :
             task' = [task EXCEPT ![t].pc = pc]
    BY <2>2, TaskMoved DEF RpcInv, Pcs
  <2>3. CASE \E t \in Coroutines : task' = [task EXCEPT ![t] = Off]
    <3>1. PICK t \in Coroutines : task' = [task EXCEPT ![t] = Off]
      BY <2>3
    <3>2. Off \in Task /\ Off.step # 3 /\ Off.pc \notin {"want", "drain", "wait"}
      BY DEF Off, Task, Pcs
    <3> QED BY <3>1, <3>2, OffTyped, TaskReset DEF RpcInv
  <2>4. CASE \E t \in Coroutines, pc \in {"ended", "done", "wait_proc"} :
                task' = [task EXCEPT ![t] = [Off EXCEPT !.pc = pc]]
    <3>1. PICK t \in Coroutines, pc \in {"ended", "done", "wait_proc"} :
                task' = [task EXCEPT ![t] = [Off EXCEPT !.pc = pc]]
      BY <2>4
    <3> DEFINE o == [Off EXCEPT !.pc = pc]
    <3>2. pc \in Pcs /\ pc \notin {"want", "drain", "wait"}
      BY DEF Pcs
    <3>3. o \in Task /\ o.pc = pc /\ o.step = 0 /\ o.id = 0 /\ o.call = 0 /\ o.got = 0
      BY <3>2, OffTyped
    <3>4. task' = [task EXCEPT ![t] = o]
      BY <3>1
    <3> HIDE DEF o
    <3>5. Tasks /\ o.step # 3 /\ o.pc \notin {"want", "drain", "wait"}
      BY <3>2, <3>3 DEF RpcInv
    <3> QED BY <3>3, <3>4, <3>5, TaskReset
  <2>5. CASE \E t \in Coroutines : task' = [task EXCEPT ![t] = [Off EXCEPT !.pc = "want", !.step = 1]]
    <3>1. PICK t \in Coroutines : task' = [task EXCEPT ![t] = [Off EXCEPT !.pc = "want", !.step = 1]]
      BY <2>5
    <3> DEFINE o == Want(1)
    <3>2. 1 \in Nat
      OBVIOUS
    <3>3. o \in Task /\ o.step = 1 /\ o.id = 0 /\ o.call = 0 /\ o.got = 0
      BY <3>2, WantTyped, Zenon
    <3>4. task' = [task EXCEPT ![t] = o]
      BY <3>1 DEF Want
    <3>5. Len(Script(t)) \in {1, 3}
      BY ScriptLen
    <3> HIDE DEF o
    <3>6. o.step # 3 /\ o.step \in 1..Len(Script(t))
      <4>1. 1 \in 1..Len(Script(t))
        BY <3>5
      <4> QED BY <3>3, <4>1
    <3> QED BY <3>3, <3>4, <3>6, TaskReset DEF RpcInv
  <2> QED
    <3>1. CASE Spawn
      BY <3>1, <2>5, ScriptLen DEF Spawn
    <3>2. CASE SpawnFails \/ ShutdownTimeout
      BY <3>2, <2>4, ScriptLen DEF SpawnFails, ShutdownTimeout
    <3>3. CASE Shutdown
      BY <3>3, <2>4, <2>5, ScriptLen DEF Shutdown
    <3>4. CASE Reap \/ Submit \/ TeardownStop
      BY <3>4, <2>1, <2>2, ScriptLen DEF Reap, Submit, TeardownStop
    <3>5. ASSUME NEW p \in Posters, Post(p) PROVE Tasks' /\ (task'[Wire].step = 3 => task[Wire].step = 3)
      BY <3>5, <2>2, ScriptLen DEF Post
    <3>6. ASSUME NEW p \in Posters, PostReady(p) PROVE Tasks' /\ (task'[Wire].step = 3 => task[Wire].step = 3)
      BY <3>6, <2>3, <2>5, ScriptLen DEF PostReady
    <3> QED BY <3>1, <3>2, <3>3, <3>4, <3>5, <3>6
<1>4. Wired'
  BY <1>1, <1>3 DEF RpcInv, Wired
<1> QED BY <1>2, <1>3, <1>4 DEF RpcInv

\* The loop is closed: every coroutine, future and answer is gone.
LEMMA Closes ==
    ASSUME RpcInv, TeardownClose
    PROVE  RpcInv'
<1>1. /\ next_id' = 1 /\ serial' = 0 /\ pending' = none /\ buffer' = none
      /\ inbox' = {} /\ working' = {} /\ outbox' = {} /\ task' = [t \in Coroutines |-> Off]
      /\ UNCHANGED <<events, lost, callback, mapped, stream>>
  BY DEF TeardownClose
<1>2. Ids'
  BY <1>1 DEF RpcInv, Ids, none
<1>3. Tasks'
  BY <1>1, OffTyped DEF Tasks
<1>4. Wired'
  <2>1. task'[Wire].step = 0
    BY <1>1, OffTyped, ScriptLen
  <2> QED BY <1>1, <2>1 DEF RpcInv, Wired
<1> QED BY <1>2, <1>3, <1>4 DEF RpcInv

\* What the plugin does elsewhere.
LEMMA Others ==
    ASSUME RpcInv, EnsureStreams \/ ToolCall \/ Teardown \/ HermesExits \/ UNCHANGED vars
    PROVE  RpcInv'
<1>1. UNCHANGED <<next_id, serial, events, pending, buffer, inbox, working, outbox, lost, callback, mapped,
                  task, stream>>
  BY DEF EnsureStreams, ToolCall, Teardown, HermesExits, vars, process
<1> QED BY <1>1 DEF RpcInv, Ids, Tasks, Wired

LEMMA RpcInit == Init => RpcInv
<1> SUFFICES ASSUME Init PROVE RpcInv
  OBVIOUS
<1>1. Ids
  BY DEF Init, Ids, none
<1>2. Tasks
  BY OffTyped DEF Init, Tasks
<1>3. Wired
  <2>1. task[Wire].step # 3
    BY ScriptLen DEF Init, Off
  <2>2. lost = FALSE /\ callback = FALSE /\ mapped = FALSE /\ stream = FALSE
    BY DEF Init
  <2>3. inbox = {} /\ working = {} /\ outbox = {}
    BY DEF Init
  <2> QED BY <2>1, <2>2, <2>3 DEF Wired
<1> QED BY <1>1, <1>2, <1>3 DEF RpcInv

LEMMA RpcStep == RpcInv /\ [Next]_vars => RpcInv'
<1> SUFFICES ASSUME RpcInv, [Next]_vars PROVE RpcInv'
  OBVIOUS
<1>1. CASE Loop
  <2>1. ASSUME NEW t \in Coroutines, Calling(t) PROVE RpcInv'
    BY <2>1, GoesOn, Writes, Drains DEF Calling
  <2>2. CASE Reading
    BY <2>2, Reads, ReadsEvent DEF Reading
  <2>3. CASE Spawn \/ SpawnFails \/ Stopping \/ \E p \in Posters : PostReady(p)
    BY <2>3, Moves DEF Stopping
  <2> QED BY <1>1, <2>1, <2>2, <2>3 DEF Loop
<1>2. CASE Lifecycle
  BY <1>2, Moves, Closes, Others DEF Lifecycle
<1>3. CASE \E p \in Posters : Post(p)
  BY <1>3, Moves
<1>4. CASE Process
  BY <1>4, Handles, NodeSteps DEF Process
<1>5. CASE EnsureStreams \/ ToolCall \/ Teardown \/ UNCHANGED vars
  BY <1>5, Others
<1>6. CASE StreamEvent \/ Crash \/ Hang \/ Recover
  BY <1>6, Streams, NodeSteps
<1> QED BY <1>1, <1>2, <1>3, <1>4, <1>5, <1>6 DEF Next

-----------------------------------------------------------------------------
\* Sidecar.call: whatever gives up, hangs, crashes or answers late, a call gets the answer
\* to its own request or none.
THEOREM AnswersAreOwn == Spec => []OwnAnswer
<1>1. RpcInv => OwnAnswer
  BY DEF RpcInv, Tasks, OwnAnswer
<1> QED BY <1>1, RpcInit, RpcStep, PTL DEF Spec

\* _wire_sidecar registers its callback and fills the map before it asks for the stream:
\* no stream event is read before both are there, also after the sidecar's loop was closed.
THEOREM EveryEventHasAPlace == Spec => []NoEventDropped
<1>1. RpcInv => NoEventDropped
  BY DEF RpcInv, Wired, NoEventDropped
<1> QED BY <1>1, RpcInit, RpcStep, PTL DEF Spec
=============================================================================
