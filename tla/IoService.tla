----------------------------- MODULE IoService -----------------------------
(***************************************************************************)
(* tacopie's io_service, with the thread_pool that runs its callbacks and  *)
(* the tcp_server and tcp_clients that use it: what carries every message  *)
(* an IsenCoin process receives.                                           *)
(*                                                                         *)
(* The poll thread builds a set of descriptors from the table of tracked   *)
(* sockets, waits in select, and queues the callback of every descriptor   *)
(* that is ready.  One worker runs the callbacks.  Servers and clients     *)
(* change the table under the mutex the other two take, and wake the poll  *)
(* thread through a pipe; a step is what one thread does under that mutex, *)
(* or between two times it takes it.                                       *)
(*                                                                         *)
(* The table is keyed by descriptors, which the system gives out again as  *)
(* soon as they are closed.  A socket of the model is one life of a        *)
(* descriptor.  IsenCoin has one server at a time, with a read callback,   *)
(* and clients, which have none; no socket has a write callback.  The UI   *)
(* thread starts and stops the server; the server's own callback may stop  *)
(* it too, and the two meet in tcp_server::stop, which tests m_is_running, *)
(* stores it, untracks and closes in steps of their own.                   *)
(***************************************************************************)
EXTENDS Integers, Sequences, FiniteSets

CONSTANTS
  Servers,     \* the sockets the server listens on, one after the other
  Clients,     \* the sockets of clients, accepted or connected
  Fds,         \* the descriptors the system gives out
  NoSocket,
  MaxConnects  \* bound: connections made to the servers

Sockets == Servers \cup Clients

ASSUME SocketsAssumption == NoSocket \notin Sockets /\ Servers \cap Clients = {}
ASSUME FiniteAssumption  == IsFiniteSet(Sockets) /\ IsFiniteSet(Fds)
ASSUME BoundAssumption   == MaxConnects \in Nat

VARIABLES
  state,     \* where the owner of each socket is
  running,   \* the server's m_is_running
  ui,        \* where the UI thread is in tcp_server::stop
  target,    \* the server the UI thread stopped last
  fd,        \* the descriptor a socket has, or had last
  table,     \* m_tracked_sockets
  poll,      \* where the poll thread is
  watched,   \* m_polled_fds without the pipe: what init_poll_fds_info found
  ready,     \* m_rd_set without the pipe
  woken,     \* the pipe is set in m_rd_set after select
  pipe,      \* the pipe holds bytes
  tasks,     \* the queue of the thread_pool
  task,      \* the task the worker executes
  phase,     \* where the worker is in it
  waiting,   \* connections not yet accepted, per server
  connects,  \* connections made
  reused,    \* history: a descriptor was given out while still in use here
  crossed,   \* history: two threads passed the test of m_is_running together
  threw      \* history: a callback ended in an exception

ownerVars  == <<state, fd>>
serverVars == <<running, ui, target>>
pollVars   == <<poll, watched, ready, woken>>
workerVars == <<tasks, task, phase>>
netVars    == <<waiting, connects>>
history    == <<reused, crossed, threw>>
vars == <<state, fd, running, ui, target, table, poll, watched, ready, woken,
          pipe, tasks, task, phase, waiting, connects, reused, crossed, threw>>

-----------------------------------------------------------------------------
\* An entry of the table: whose read callback it holds, is_executing_rd_callback
\* and marked_for_untrack.
Entry   == [cb : Sockets \cup {NoSocket}, executing : BOOLEAN, marked : BOOLEAN]
NoEntry == [cb |-> NoSocket, executing |-> FALSE, marked |-> TRUE]
Fresh   == [cb |-> NoSocket, executing |-> FALSE, marked |-> FALSE]

Task   == [fd : Fds, cb : Sockets]
NoTask == [fd |-> NoSocket, cb |-> NoSocket]

Tracked(f) == table[f] # NoEntry

Queued == {tasks[i] : i \in DOMAIN tasks}
Tasks  == Queued \cup ({task} \ {NoTask})

Opened == {"open", "tracked", "armed", "serving", "removed"}
States == Opened \cup {"new", "closed", "dropped"}

Open(s) == state[s] \in Opened
OwnerOf(f) == {s \in Sockets : Open(s) /\ fd[s] = f}

\* The server's m_socket.
Listening == {s \in Servers : Open(s)}

Init ==
  /\ state = [s \in Sockets |-> "new"]
  /\ fd \in [Sockets -> Fds]
  /\ table = [f \in Fds |-> NoEntry]
  /\ poll = "init" /\ watched = {} /\ ready = {} /\ woken = FALSE
  /\ pipe = FALSE
  /\ tasks = <<>> /\ task = NoTask /\ phase = "idle"
  /\ waiting = [s \in Servers |-> 0] /\ connects = 0
  /\ running = FALSE /\ ui = "free" /\ target = NoSocket
  /\ reused = FALSE /\ crossed = FALSE /\ threw = FALSE

-----------------------------------------------------------------------------
(***************************************************************************)
(* The poll thread: init_poll_fds_info, select, process_events.            *)
(***************************************************************************)
\* Variant: the flag is not asked for.
Pollable_executing(f) == Tracked(f) /\ table[f].cb # NoSocket

Pollable(f) == Tracked(f) /\ table[f].cb # NoSocket /\ ~table[f].executing

BuildSets ==
  /\ poll = "init"
  /\ poll' = "select"
  /\ watched' = {f \in Fds : Pollable(f) \/ (Tracked(f) /\ table[f].marked)}
  /\ ready' = {f \in Fds : Pollable(f)}
  /\ UNCHANGED <<ownerVars, serverVars, table, woken, pipe, workerVars, netVars, history>>

Readable(f) == \E s \in OwnerOf(f) \cap Servers : waiting[s] > 0

\* select fails at once when a descriptor of the set is closed; then, as after
\* every return, the sets are built again.
Select ==
  /\ poll = "select"
  /\ IF \E f \in ready : OwnerOf(f) = {}
     THEN poll' = "init" /\ ready' = {} /\ woken' = FALSE
     ELSE /\ pipe \/ \E f \in ready : Readable(f)
          /\ poll' = "process"
          /\ ready' = {f \in ready : Readable(f)}
          /\ woken' = pipe
  /\ UNCHANGED <<ownerVars, serverVars, table, watched, pipe, workerVars, netVars, history>>

Fires(f) == f \in watched /\ f \in ready /\ Pollable(f)

\* A marked entry whose callback is not being executed is erased.
Erased(f) == f \in watched /\ table[f].marked /\ ~table[f].executing

Fired == {f \in Fds : Fires(f)}

\* The orders in which the elements of S can be met.
Orders(S) ==
  {q \in [1..Cardinality(S) -> S] :
     /\ \A x \in S : \E i \in 1..Cardinality(S) : q[i] = x
     /\ \A i, j \in 1..Cardinality(S) : q[i] = q[j] => i = j}

\* process_events, over the descriptors in the order of the table
ProcessEvents ==
  /\ poll = "process"
  /\ poll' = "init" /\ watched' = {} /\ ready' = {} /\ woken' = FALSE
  /\ pipe' = (pipe /\ ~woken)
  /\ \E q \in Orders(Fired) :
       tasks' = tasks \o [i \in 1..Cardinality(Fired) |->
                            [fd |-> q[i], cb |-> table[q[i]].cb]]
  /\ table' = [f \in Fds |->
                 CASE Fires(f) -> [table[f] EXCEPT !.executing = TRUE]
                   [] ~Fires(f) /\ Erased(f) -> NoEntry
                   [] OTHER -> table[f]]
  /\ UNCHANGED <<ownerVars, serverVars, task, phase, netVars, history>>

-----------------------------------------------------------------------------
(***************************************************************************)
(* The worker: thread_pool::run, tcp_server::on_read_available, and the    *)
(* end of the task process_rd_event queued.                                *)
(***************************************************************************)
FetchTask ==
  /\ phase = "idle"
  /\ tasks # <<>>
  /\ task' = Head(tasks)
  /\ tasks' = Tail(tasks)
  /\ phase' = "accept"
  /\ UNCHANGED <<ownerVars, serverVars, table, pollVars, pipe, netVars, history>>

\* Variant: accept does not block.
Accept_at_once ==
  /\ phase = "accept"
  /\ \E s \in Listening : waiting' = [waiting EXCEPT ![s] = @ - 1]
  /\ phase' = "handle"
  /\ UNCHANGED <<ownerVars, serverVars, table, pollVars, pipe, tasks, task, connects, history>>

\* accept blocks while no one has connected.
Accept ==
  /\ phase = "accept"
  /\ \E s \in Listening :
       /\ waiting[s] > 0
       /\ waiting' = [waiting EXCEPT ![s] = @ - 1]
  /\ phase' = "handle"
  /\ UNCHANGED <<ownerVars, serverVars, table, pollVars, pipe, tasks, task, connects, history>>

\* accept fails, at once when the server's socket is closed: the callback calls
\* tcp_server::stop.
AcceptFails ==
  /\ phase = "accept"
  /\ phase' = "stop"
  /\ UNCHANGED <<ownerVars, serverVars, table, pollVars, pipe, tasks, task, netVars,
                 history>>

\* on_new_connection_callback: see Tracker.
EndHandler ==
  /\ phase = "handle"
  /\ phase' = "finish"
  /\ UNCHANGED <<ownerVars, serverVars, table, pollVars, pipe, tasks, task, netVars, history>>

\* An exception that is no tacopie_error is caught by thread_pool::run: the rest
\* of the task is skipped.
HandlerThrows ==
  /\ phase = "handle"
  /\ phase' = "idle"
  /\ task' = NoTask
  /\ threw' = TRUE
  /\ UNCHANGED <<ownerVars, serverVars, table, pollVars, pipe, tasks, netVars, reused, crossed>>

Executing(f) == Tracked(f) /\ table[f].executing

\* Variant: the entry is not marked.
Untrack_unmarked(f) ==
  /\ table' = [table EXCEPT ![f] = IF Executing(f) THEN @ ELSE NoEntry]
  /\ pipe' = TRUE

\* untrack of descriptor f
Untrack(f) ==
  /\ table' = [table EXCEPT ![f] = IF Executing(f) THEN [@ EXCEPT !.marked = TRUE]
                                   ELSE NoEntry]
  /\ pipe' = (pipe \/ Tracked(f))

\* untrack of the server's m_socket, which tracks nothing when it is closed.
UntrackServer ==
  IF Listening = {} THEN UNCHANGED <<table, pipe>>
                    ELSE \E s \in Listening : Untrack(fd[s])

\* The close of the server's m_socket leaves s in state l.
CloseServer(l) ==
  /\ state' = [s \in Sockets |-> IF s \in Listening THEN l ELSE state[s]]
  /\ waiting' = [s \in Servers |-> IF s \in Listening THEN 0 ELSE waiting[s]]

(***************************************************************************)
(* tcp_server::stop by the callback itself, which does not wait.           *)
(***************************************************************************)
StopInCallback ==
  /\ phase = "stop"
  /\ phase' = IF running THEN "passed" ELSE "finish"
  /\ crossed' = (crossed \/ (running /\ ui = "passed"))
  /\ UNCHANGED <<ownerVars, serverVars, table, pollVars, pipe, tasks, task, netVars,
                 reused, threw>>

ClearInCallback ==
  /\ phase = "passed"
  /\ phase' = "cleared"
  /\ running' = FALSE
  /\ UNCHANGED <<ownerVars, ui, target, table, pollVars, pipe, tasks, task, netVars,
                 history>>

UntrackInCallback ==
  /\ phase = "cleared"
  /\ phase' = "close"
  /\ UntrackServer
  /\ UNCHANGED <<ownerVars, serverVars, pollVars, tasks, task, netVars, history>>

CloseInCallback ==
  /\ phase = "close"
  /\ phase' = "finish"
  /\ CloseServer("dropped")
  /\ UNCHANGED <<fd, serverVars, table, pollVars, pipe, tasks, task, connects, history>>

\* Variant: the entry is not marked as executing no longer.
FinishTask_keeps_flag ==
  /\ phase = "finish"
  /\ phase' = "idle"
  /\ task' = NoTask
  /\ IF Tracked(task.fd) /\ table[task.fd].marked
     THEN /\ table' = [table EXCEPT ![task.fd] = NoEntry]
          /\ pipe' = TRUE
     ELSE UNCHANGED <<table, pipe>>
  /\ UNCHANGED <<ownerVars, serverVars, pollVars, tasks, netVars, history>>

FinishTask ==
  /\ phase = "finish"
  /\ phase' = "idle"
  /\ task' = NoTask
  /\ IF Tracked(task.fd)
     THEN /\ table' = [table EXCEPT ![task.fd] =
                         IF @.marked THEN NoEntry ELSE [@ EXCEPT !.executing = FALSE]]
          /\ pipe' = TRUE
     ELSE UNCHANGED <<table, pipe>>
  /\ UNCHANGED <<ownerVars, serverVars, pollVars, tasks, netVars, history>>

-----------------------------------------------------------------------------
(***************************************************************************)
(* The owners of the sockets.  A descriptor is given out again while a     *)
(* task or the sets of the poll thread still name it: reused.              *)
(***************************************************************************)
InUse(f) ==
  \/ \E t \in Tasks : t.fd = f
  \/ f \in ready
  \/ Tracked(f)

\* For a server: tcp_server::start, which throws while the server runs or has a
\* socket, and which the UI thread calls after stop.
OpenSocket(s, f) ==
  /\ state[s] = "new"
  /\ OwnerOf(f) = {}
  /\ s \in Servers => Listening = {} /\ ~running /\ ui = "free"
  /\ state' = [state EXCEPT ![s] = "open"]
  /\ fd' = [fd EXCEPT ![s] = f]
  /\ reused' = (reused \/ InUse(f))
  /\ UNCHANGED <<serverVars, table, pollVars, pipe, workerVars, netVars, crossed, threw>>

Track(s) ==
  /\ state[s] = "open"
  /\ state' = [state EXCEPT ![s] = "tracked"]
  /\ table' = [table EXCEPT ![fd[s]] = Fresh]
  /\ pipe' = TRUE
  /\ UNCHANGED <<fd, serverVars, pollVars, workerVars, netVars, history>>

\* Variant: the poll thread is not woken.
SetRdCallback_silent(s) ==
  /\ state[s] = "tracked" /\ s \in Servers
  /\ state' = [state EXCEPT ![s] = "armed"]
  /\ table' = [table EXCEPT ![fd[s]].cb = s]
  /\ UNCHANGED <<fd, serverVars, pollVars, pipe, workerVars, netVars, history>>

SetRdCallback(s) ==
  /\ state[s] = "tracked" /\ s \in Servers
  /\ state' = [state EXCEPT ![s] = "armed"]
  /\ table' = [table EXCEPT ![fd[s]] =
                 IF Tracked(fd[s]) THEN [@ EXCEPT !.cb = s] ELSE [Fresh EXCEPT !.cb = s]]
  /\ pipe' = TRUE
  /\ UNCHANGED <<fd, serverVars, pollVars, workerVars, netVars, history>>

\* The end of tcp_server::start
SetRunning(s) ==
  /\ state[s] = "armed" /\ s \in Servers
  /\ state' = [state EXCEPT ![s] = "serving"]
  /\ running' = TRUE
  /\ UNCHANGED <<fd, ui, target, table, pollVars, pipe, workerVars, netVars, history>>

(***************************************************************************)
(* tcp_server::stop(true, true) by the UI thread.                          *)
(***************************************************************************)
Stop ==
  /\ ui = "free"
  /\ running
  /\ ui' = "passed"
  /\ target' \in IF Listening = {} THEN {NoSocket} ELSE Listening
  /\ crossed' = (crossed \/ phase = "passed")
  /\ UNCHANGED <<ownerVars, running, table, pollVars, pipe, workerVars, netVars,
                 reused, threw>>

ClearRunning ==
  /\ ui = "passed"
  /\ ui' = "cleared"
  /\ running' = FALSE
  /\ UNCHANGED <<ownerVars, target, table, pollVars, pipe, workerVars, netVars, history>>

UntrackByUi ==
  /\ ui = "cleared"
  /\ ui' = "wait"
  /\ UntrackServer
  /\ UNCHANGED <<ownerVars, running, target, pollVars, workerVars, netVars, history>>

\* Variant: wait_for_removal waits for no one.
WaitForRemoval_returns ==
  /\ ui = "wait"
  /\ ui' = "close"
  /\ UNCHANGED <<ownerVars, running, target, table, pollVars, pipe, workerVars, netVars,
                 history>>

\* The table is searched for the descriptor m_socket has now, and a closed socket
\* has none.
WaitForRemoval ==
  /\ ui = "wait"
  /\ \A s \in Listening : ~Tracked(fd[s])
  /\ ui' = "close"
  /\ UNCHANGED <<ownerVars, running, target, table, pollVars, pipe, workerVars, netVars,
                 history>>

CloseByUi ==
  /\ ui = "close"
  /\ ui' = "free"
  /\ CloseServer("closed")
  /\ UNCHANGED <<fd, running, target, table, pollVars, pipe, workerVars, connects, history>>

\* tcp_client::disconnect, which does not wait.
Disconnect(s) ==
  /\ state[s] = "tracked" /\ s \in Clients
  /\ Untrack(fd[s])
  /\ state' = [state EXCEPT ![s] = "removed"]
  /\ UNCHANGED <<fd, serverVars, pollVars, workerVars, netVars, history>>

CloseSocket(s) ==
  /\ state[s] = "removed"
  /\ state' = [state EXCEPT ![s] = "closed"]
  /\ UNCHANGED <<fd, serverVars, table, pollVars, pipe, workerVars, netVars, history>>

Connect(s) ==
  /\ s \in Listening
  /\ connects < MaxConnects
  /\ connects' = connects + 1
  /\ waiting' = [waiting EXCEPT ![s] = @ + 1]
  /\ UNCHANGED <<ownerVars, serverVars, table, pollVars, pipe, workerVars, history>>

-----------------------------------------------------------------------------
PollThread == BuildSets \/ Select \/ ProcessEvents

StopServer ==
  StopInCallback \/ ClearInCallback \/ UntrackInCallback \/ CloseInCallback

Worker ==
  \/ FetchTask \/ Accept \/ (Listening = {} /\ AcceptFails)
  \/ EndHandler \/ StopServer \/ FinishTask

Owner(s) == Track(s) \/ SetRdCallback(s) \/ SetRunning(s) \/ CloseSocket(s)

StopByUi == ClearRunning \/ UntrackByUi \/ WaitForRemoval \/ CloseByUi

Next ==
  \/ PollThread
  \/ Worker \/ AcceptFails \/ HandlerThrows
  \/ \E s \in Sockets :
       \/ \E f \in Fds : OpenSocket(s, f)
       \/ Owner(s) \/ Disconnect(s)
  \/ \E s \in Servers : Connect(s)
  \/ Stop \/ StopByUi

Spec == Init /\ [][Next]_vars

\* The threads run; nothing makes a server stop or a peer connect.
Fairness ==
  /\ WF_vars(PollThread)
  /\ WF_vars(Worker)
  /\ \A s \in Sockets : WF_vars(Owner(s))
  /\ WF_vars(StopByUi)

FairSpec == Spec /\ Fairness

-----------------------------------------------------------------------------
(***************************************************************************)
(* Properties.                                                             *)
(***************************************************************************)
TypeOK ==
  /\ state \in [Sockets -> States]
  /\ fd \in [Sockets -> Fds]
  /\ table \in [Fds -> Entry]
  /\ poll \in {"init", "select", "process"}
  /\ watched \subseteq Fds /\ ready \subseteq Fds
  /\ woken \in BOOLEAN /\ pipe \in BOOLEAN
  /\ tasks \in Seq(Task) /\ task \in Task \cup {NoTask}
  /\ phase \in {"idle", "accept", "handle", "stop", "passed", "cleared", "close", "finish"}
  /\ waiting \in [Servers -> Nat] /\ connects \in 0..MaxConnects
  /\ running \in BOOLEAN
  /\ ui \in {"free", "passed", "cleared", "wait", "close"}
  /\ target \in Servers \cup {NoSocket}
  /\ reused \in BOOLEAN /\ crossed \in BOOLEAN /\ threw \in BOOLEAN

\* A callback is queued once: no second task of a server waits or runs beside
\* another.  is_executing_rd_callback is all that sees to it, and it is only as
\* good as the descriptor it is kept under.
OneTaskAtATime ==
  ~reused =>
    /\ \A i, j \in DOMAIN tasks : i # j => tasks[i].cb # tasks[j].cb
    /\ \A i \in DOMAIN tasks : tasks[i].cb # task.cb

\* No callback of the server the UI thread stopped is queued or runs.
Quiescent ==
  ui \in {"free", "close"} => \A t \in Tasks : t.cb # target

\* wait_for_removal: "wait until the socket has been effectively removed, basically
\* wait until all pending callbacks are executed" (io_service.cpp:334-335).
WaitEndsCallbacks == ~reused => Quiescent

\* That holds unless the callback called stop as well and both passed the test of
\* m_is_running before either stored it: the callback then closes the socket the
\* UI thread looks up.
QuietAfterWait == ~reused /\ ~crossed => Quiescent

\* A server is never deaf: a callback that is said to execute is queued or runs,
\* unless one threw and took the end of its task with it.
NotDeaf ==
  ~threw => \A f \in Fds : Executing(f) => \E t \in Tasks : t.fd = f

\* Every connection to a server that waits for them is accepted.
ConnectionsAccepted ==
  \A s \in Servers :
    (state[s] \in {"armed", "serving"} /\ waiting[s] > 0)
      ~> (waiting[s] = 0 \/ ~Open(s) \/ reused \/ threw)

\* The UI thread comes back from stop, whoever else stops the server.
StopReturns == (ui # "free") ~> (ui = "free" \/ reused \/ threw)
=============================================================================
