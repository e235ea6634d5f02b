-------------------------- MODULE IoService_proofs --------------------------
(***************************************************************************)
(* Proofs about IoService, for any number of sockets and descriptors.      *)
(*                                                                         *)
(* OneTaskAtATime and QuietAfterWait are not inductive: what they rest on  *)
(* is that a queued or running task has an entry of its own in the table,  *)
(* which is executing and which only the end of that task clears, and that *)
(* the thread that passed the test of m_is_running is alone in stop until  *)
(* it has closed the socket, unless the two threads crossed.               *)
(***************************************************************************)
EXTENDS IoService, TLAPS, SequenceTheorems, FiniteSetTheorems

-----------------------------------------------------------------------------
\* No two open sockets have the same descriptor.
OwnFds ==
  \A s, o \in Sockets : Open(s) /\ Open(o) /\ fd[s] = fd[o] => s = o

\* A socket just opened is not in the table yet.
NotYetTracked ==
  \A s \in Sockets : state[s] = "open" => ~Tracked(fd[s])

\* A callback is kept under the descriptor of its server, from the time it is
\* set until the entry is removed, and no other socket has that descriptor.
CallbackHome ==
  \A f \in Fds : Tracked(f) /\ table[f].cb # NoSocket =>
    /\ f = fd[table[f].cb]
    /\ state[table[f].cb] \in {"armed", "serving", "closed", "dropped"}
    /\ OwnerOf(f) \subseteq {table[f].cb}

\* A task has an entry, which says that its callback is being executed.
TaskEntry ==
  \A t \in Tasks : Executing(t.fd) /\ table[t.fd].cb = t.cb

\* No two tasks are about the same descriptor.
OwnEntries ==
  /\ \A i, j \in DOMAIN tasks : i # j => tasks[i].fd # tasks[j].fd
  /\ task # NoTask => \A i \in DOMAIN tasks : tasks[i].fd # task.fd

WorkerHasTask == phase = "idle" <=> task = NoTask

\* A process has one server at a time.
OneServer == \A s, o \in Servers : Open(s) /\ Open(o) => s = o

Serving  == {s \in Servers : state[s] = "serving"}
Stopping == phase \in {"passed", "cleared", "close"}

\* One thread at a time is past the test of m_is_running, and the server it stops
\* is open until it closes it.
StopsAlone ==
  /\ running => Serving # {}
  /\ ui # "free" => target \in Serving /\ ~Stopping
  /\ Stopping => Serving # {}
  /\ ui \in {"cleared", "wait", "close"} \/ phase \in {"cleared", "close"} => ~running

\* Once wait_for_removal has returned, no entry has the callback of that server.
TargetGone ==
  target # NoSocket /\ ui \in {"free", "close"} =>
    /\ \A f \in Fds : Tracked(f) => table[f].cb # target
    /\ ui = "free" => state[target] = "closed"

Unreused == NotYetTracked /\ CallbackHome /\ TaskEntry /\ OwnEntries

IInv ==
  /\ TypeOK
  /\ OwnFds
  /\ WorkerHasTask
  /\ NotDeaf
  /\ OneServer
  /\ ~reused => Unreused
  /\ ~crossed => StopsAlone
  /\ ~reused /\ ~crossed => TargetGone
-----------------------------------------------------------------------------
(***************************************************************************)
(* Sequences of tasks, and what a step does to the set of tasks.           *)
(***************************************************************************)
LEMMA EntryFacts ==
  /\ NoEntry \in Entry /\ Fresh \in Entry /\ Fresh # NoEntry
  /\ NoTask \notin Task
BY SocketsAssumption DEF NoEntry, Entry, Fresh, NoTask, Task

\* What process_events queues.
LEMMA FiredTasks ==
  ASSUME TypeOK, NEW q \in Orders(Fired)
  PROVE  [i \in 1..Cardinality(Fired) |-> [fd |-> q[i], cb |-> table[q[i]].cb]]
           \in Seq(Task)
<1> DEFINE n == Cardinality(Fired)
<1>1. IsFiniteSet(Fds) /\ Fired \subseteq Fds
  BY FiniteAssumption DEF Fired
<1>2. n \in Nat
  BY <1>1, FS_Subset, FS_CardinalityType
<1>3. \A i \in 1..n : q[i] \in Fired
  BY DEF Orders
<1>4. \A f \in Fired : [fd |-> f, cb |-> table[f].cb] \in Task
  <2> SUFFICES ASSUME NEW f \in Fired
               PROVE  [fd |-> f, cb |-> table[f].cb] \in Task
    OBVIOUS
  <2>1. f \in Fds /\ table[f] \in Entry /\ table[f].cb # NoSocket
    BY DEF TypeOK, Fired, Fires, Pollable
  <2> QED
    BY <2>1 DEF Entry, Task
<1>5. \A i \in 1..n : [fd |-> q[i], cb |-> table[q[i]].cb] \in Task
  BY <1>3, <1>4
<1> HIDE DEF n
<1> QED
  BY <1>2, <1>5, IsASeq DEF n

-----------------------------------------------------------------------------
(***************************************************************************)
(* Type correctness.                                                       *)
(***************************************************************************)
LEMMA InitType == Init => TypeOK
<1> SUFFICES ASSUME Init PROVE TypeOK
  OBVIOUS
<1>1. tasks \in Seq(Task) /\ task \in Task \cup {NoTask}
  BY DEF Init
<1>2. state \in [Sockets -> States] /\ table \in [Fds -> Entry]
  BY EntryFacts DEF Init, States
<1>3. waiting \in [Servers -> Nat] /\ connects \in 0..MaxConnects
  BY BoundAssumption DEF Init
<1> QED
  BY <1>1, <1>2, <1>3 DEF Init, TypeOK

LEMMA UntrackType ==
  ASSUME table \in [Fds -> Entry], NEW f \in Fds, Untrack(f)
  PROVE  table' \in [Fds -> Entry] /\ pipe' \in BOOLEAN
<1>1. [table[f] EXCEPT !.marked = TRUE] \in Entry
  BY DEF Entry
<1> QED
  BY <1>1, EntryFacts DEF Untrack

LEMMA UntrackServerType ==
  ASSUME TypeOK, UntrackServer
  PROVE  table' \in [Fds -> Entry] /\ pipe' \in BOOLEAN
<1>1. CASE Listening = {}
  BY <1>1 DEF UntrackServer, TypeOK
<1>2. CASE Listening # {}
  <2>1. PICK s \in Listening : Untrack(fd[s])
    BY <1>2 DEF UntrackServer
  <2>2. fd[s] \in Fds
    BY DEF Listening, Sockets, TypeOK
  <2> QED
    BY <2>1, <2>2, UntrackType DEF TypeOK
<1> QED
  BY <1>1, <1>2

LEMMA CloseServerType ==
  ASSUME TypeOK, NEW l \in States, CloseServer(l)
  PROVE  state' \in [Sockets -> States] /\ waiting' \in [Servers -> Nat]
BY DEF TypeOK, CloseServer

LEMMA PollType ==
  ASSUME TypeOK, PollThread
  PROVE  TypeOK'
<1>1. CASE BuildSets
  BY <1>1 DEF TypeOK, BuildSets, ownerVars, serverVars, workerVars, netVars, history
<1>2. CASE Select
  <2>1. /\ poll' \in {"init", "select", "process"} /\ ready' \subseteq Fds
        /\ woken' \in BOOLEAN
    BY <1>2 DEF TypeOK, Select
  <2> QED
    BY <1>2, <2>1 DEF TypeOK, Select, ownerVars, serverVars, workerVars, netVars, history
<1>3. CASE ProcessEvents
  <2>1. table' \in [Fds -> Entry]
    <3>1. \A f \in Fds : [table[f] EXCEPT !.executing = TRUE] \in Entry
      BY DEF TypeOK, Entry
    <3> QED
      BY <1>3, <3>1, EntryFacts DEF TypeOK, ProcessEvents
  <2>2. tasks' \in Seq(Task)
    BY <1>3, FiredTasks, ConcatProperties DEF TypeOK, ProcessEvents
  <2>3. poll' = "init" /\ watched' = {} /\ ready' = {} /\ woken' = FALSE
    BY <1>3 DEF ProcessEvents
  <2>4. pipe' \in BOOLEAN
    BY <1>3 DEF ProcessEvents
  <2> QED
    BY <1>3, <2>1, <2>2, <2>3, <2>4
    DEF TypeOK, ProcessEvents, ownerVars, serverVars, netVars, history
<1> QED
  BY <1>1, <1>2, <1>3 DEF PollThread

LEMMA WorkerType ==
  ASSUME TypeOK, Worker \/ AcceptFails \/ HandlerThrows
  PROVE  TypeOK'
<1>1. CASE FetchTask
  BY <1>1, HeadTailProperties
  DEF TypeOK, FetchTask, ownerVars, serverVars, pollVars, netVars, history
<1>2. CASE Accept
  BY <1>2, SocketsAssumption
  DEF TypeOK, Accept, Listening, ownerVars, serverVars, pollVars, history
<1>3. CASE AcceptFails \/ EndHandler
  BY <1>3 DEF TypeOK, AcceptFails, EndHandler, ownerVars, serverVars, pollVars, netVars,
     history
<1>9. CASE ClearInCallback
  <2>1. running' \in BOOLEAN /\ phase' = "cleared"
    BY <1>9 DEF ClearInCallback
  <2>2. UNCHANGED <<ui, target, ownerVars, table, pollVars, pipe, tasks, task, netVars, history>>
    BY <1>9 DEF ClearInCallback
  <2> QED
    BY <2>1, <2>2 DEF TypeOK, ownerVars, pollVars, netVars, history
<1>8. CASE HandlerThrows
  BY <1>8 DEF TypeOK, HandlerThrows, ownerVars, serverVars, pollVars, netVars
<1>7. CASE StopInCallback
  <2>1. phase' \in {"passed", "finish"} /\ crossed' \in BOOLEAN
    BY <1>7 DEF TypeOK, StopInCallback
  <2> QED
    BY <1>7, <2>1 DEF TypeOK, StopInCallback, ownerVars, serverVars, pollVars, netVars
<1>4. CASE UntrackInCallback
  <2>1. table' \in [Fds -> Entry] /\ pipe' \in BOOLEAN
    BY <1>4, UntrackServerType DEF UntrackInCallback
  <2> QED
    BY <1>4, <2>1
    DEF TypeOK, UntrackInCallback, ownerVars, serverVars, pollVars, netVars, history
<1>5. CASE CloseInCallback
  <2>1. "dropped" \in States
    BY DEF States
  <2>2. state' \in [Sockets -> States] /\ waiting' \in [Servers -> Nat]
    BY <1>5, <2>1, CloseServerType DEF CloseInCallback
  <2> QED
    BY <1>5, <2>2 DEF TypeOK, CloseInCallback, serverVars, pollVars, history
<1>6. CASE FinishTask
  <2>1. table' \in [Fds -> Entry] /\ pipe' \in BOOLEAN
    <3>1. CASE Tracked(task.fd) /\ task.fd \in Fds
      <4>1. [table[task.fd] EXCEPT !.executing = FALSE] \in Entry
        BY <3>1 DEF TypeOK, Entry
      <4> QED
        BY <1>6, <3>1, <4>1, EntryFacts DEF TypeOK, FinishTask
    <3>2. CASE ~(task.fd \in Fds)
      BY <1>6, <3>2 DEF TypeOK, FinishTask
    <3>3. CASE ~Tracked(task.fd)
      BY <1>6, <3>3 DEF TypeOK, FinishTask
    <3> QED
      BY <3>1, <3>2, <3>3
  <2> QED
    BY <1>6, <2>1 DEF TypeOK, FinishTask, ownerVars, serverVars, pollVars, netVars, history
<1> QED
  BY <1>1, <1>2, <1>3, <1>4, <1>5, <1>6, <1>7, <1>8, <1>9 DEF Worker, StopServer

LEMMA OwnerType ==
  ASSUME TypeOK, NEW s \in Sockets,
         \/ \E f \in Fds : OpenSocket(s, f)
         \/ Owner(s) \/ Disconnect(s)
         \/ s \in Servers /\ Connect(s)
  PROVE  TypeOK'
<1>0. fd[s] \in Fds /\ table[fd[s]] \in Entry
  BY DEF TypeOK
<1>1. CASE \E f \in Fds : OpenSocket(s, f)
  BY <1>1 DEF TypeOK, OpenSocket, States, Opened, serverVars, pollVars, workerVars, netVars
<1>2. CASE Track(s)
  BY <1>2, EntryFacts
  DEF TypeOK, Track, States, Opened, serverVars, pollVars, workerVars, netVars, history
<1>3. CASE SetRdCallback(s)
  <2>1. [table[fd[s]] EXCEPT !.cb = s] \in Entry /\ [Fresh EXCEPT !.cb = s] \in Entry
    BY <1>0 DEF Entry, Fresh
  <2> QED
    BY <1>3, <2>1
    DEF TypeOK, SetRdCallback, States, Opened, serverVars, pollVars, workerVars, netVars,
        history
<1>4. CASE Disconnect(s)
  <2>1. table' \in [Fds -> Entry] /\ pipe' \in BOOLEAN
    BY <1>0, <1>4, UntrackType DEF TypeOK, Disconnect
  <2> QED
    BY <1>4, <2>1
    DEF TypeOK, Disconnect, States, Opened, serverVars, pollVars, workerVars, netVars,
        history
<1>5. CASE SetRunning(s)
  BY <1>5
  DEF TypeOK, SetRunning, States, Opened, pollVars, workerVars, netVars, history
<1>6. CASE CloseSocket(s)
  BY <1>6
  DEF TypeOK, CloseSocket, States, Opened, serverVars, pollVars, workerVars, netVars, history
<1>7. CASE s \in Servers /\ Connect(s)
  BY <1>7, BoundAssumption
  DEF TypeOK, Connect, ownerVars, serverVars, pollVars, workerVars, history
<1> QED
  BY <1>1, <1>2, <1>3, <1>4, <1>5, <1>6, <1>7 DEF Owner

LEMMA UiType ==
  ASSUME TypeOK, Stop \/ StopByUi
  PROVE  TypeOK'
<1>1. CASE Stop
  <2>1. target' \in Servers \cup {NoSocket} /\ crossed' \in BOOLEAN
    BY <1>1 DEF TypeOK, Stop, Listening
  <2> QED
    BY <1>1, <2>1 DEF TypeOK, Stop, ownerVars, pollVars, workerVars, netVars
<1>2. CASE ClearRunning
  <2>1. running' \in BOOLEAN /\ ui' = "cleared"
    BY <1>2 DEF ClearRunning
  <2>2. UNCHANGED <<target, ownerVars, table, pollVars, pipe, workerVars, netVars, history>>
    BY <1>2 DEF ClearRunning
  <2> QED
    BY <2>1, <2>2 DEF TypeOK, ownerVars, pollVars, workerVars, netVars, history
<1>5. CASE WaitForRemoval
  BY <1>5 DEF TypeOK, WaitForRemoval, ownerVars, pollVars, workerVars, netVars, history
<1>3. CASE UntrackByUi
  <2>1. table' \in [Fds -> Entry] /\ pipe' \in BOOLEAN
    BY <1>3, UntrackServerType DEF UntrackByUi
  <2> QED
    BY <1>3, <2>1
    DEF TypeOK, UntrackByUi, ownerVars, pollVars, workerVars, netVars, history
<1>4. CASE CloseByUi
  <2>1. "closed" \in States
    BY DEF States
  <2>2. state' \in [Sockets -> States] /\ waiting' \in [Servers -> Nat]
    BY <1>4, <2>1, CloseServerType DEF CloseByUi
  <2> QED
    BY <1>4, <2>2 DEF TypeOK, CloseByUi, pollVars, workerVars, history
<1> QED
  BY <1>1, <1>2, <1>3, <1>4, <1>5 DEF StopByUi

LEMMA NextType == TypeOK /\ [Next]_vars => TypeOK'
<1> SUFFICES ASSUME TypeOK, [Next]_vars PROVE TypeOK'
  OBVIOUS
<1>1. CASE PollThread
  BY <1>1, PollType
<1>2. CASE Worker \/ AcceptFails \/ HandlerThrows
  BY <1>2, WorkerType
<1>3. CASE \E s \in Sockets : \/ \E f \in Fds : OpenSocket(s, f)
                              \/ Owner(s) \/ Disconnect(s)
  BY <1>3, OwnerType
<1>4. CASE \E s \in Servers : Connect(s)
  BY <1>4, OwnerType DEF Sockets
<1>5. CASE Stop \/ StopByUi
  BY <1>5, UiType
<1>6. CASE UNCHANGED vars
  BY <1>6 DEF TypeOK, vars
<1> QED
  BY <1>1, <1>2, <1>3, <1>4, <1>5, <1>6 DEF Next

\* The table, the queue and the states of the sockets have their types.
THEOREM TypeCorrect == Spec => []TypeOK
BY InitType, NextType, PTL DEF Spec

-----------------------------------------------------------------------------
(***************************************************************************)
(* The sockets and their descriptors.                                      *)
(***************************************************************************)
LEMMA StepOwnFds ==
  ASSUME TypeOK, OwnFds, [Next]_vars
  PROVE  OwnFds'
<1>1. ASSUME NEW s \in Sockets, NEW f \in Fds, OpenSocket(s, f)
      PROVE  OwnFds'
  <2>1. \A o \in Sockets \ {s} : fd'[o] = fd[o] /\ (Open(o)' => Open(o))
    BY <1>1 DEF TypeOK, OpenSocket, Open
  <2>2. fd'[s] = f
    BY <1>1 DEF TypeOK, OpenSocket
  <2>3. \A o \in Sockets \ {s} : Open(o)' => fd'[o] # f
    BY <1>1, <2>1 DEF OpenSocket, OwnerOf
  <2> QED
    BY <2>1, <2>2, <2>3 DEF OwnFds
<1>2. CASE fd' = fd /\ \A o \in Sockets : Open(o)' => Open(o)
  BY <1>2 DEF OwnFds
<1>3. CASE PollThread \/ UNCHANGED vars
  BY <1>2, <1>3
  DEF PollThread, BuildSets, Select, ProcessEvents, ownerVars, vars, Open
<1>4. CASE Worker \/ AcceptFails \/ HandlerThrows
  BY <1>2, <1>4
  DEF Worker, FetchTask, Accept, AcceptFails, EndHandler, StopServer, StopInCallback,
      ClearInCallback, UntrackInCallback, CloseInCallback, CloseServer, FinishTask,
      HandlerThrows, ownerVars, Open, Opened, TypeOK
<1>5. ASSUME NEW s \in Sockets, Owner(s) \/ Disconnect(s) \/ Connect(s)
      PROVE  OwnFds'
  BY <1>2, <1>5
  DEF Owner, Track, SetRdCallback, SetRunning, CloseSocket, Disconnect, Connect,
      ownerVars, Open, Opened, TypeOK
<1>6. CASE Stop \/ StopByUi
  BY <1>2, <1>6
  DEF Stop, StopByUi, ClearRunning, UntrackByUi, WaitForRemoval, CloseByUi, CloseServer,
      ownerVars, Open, Opened, TypeOK
<1> QED
  BY <1>1, <1>3, <1>4, <1>5, <1>6 DEF Next, Sockets

LEMMA StepWorkerHasTask ==
  ASSUME TypeOK, WorkerHasTask, [Next]_vars
  PROVE  WorkerHasTask'
<1>1. CASE UNCHANGED <<task, phase>>
  BY <1>1 DEF WorkerHasTask
<1>2. CASE PollThread \/ UNCHANGED vars
  BY <1>1, <1>2
  DEF PollThread, BuildSets, Select, ProcessEvents, workerVars, vars
<1>3. CASE FetchTask
  BY <1>3, HeadTailProperties, EntryFacts DEF FetchTask, TypeOK, WorkerHasTask
<1>4. CASE (Worker /\ ~FetchTask) \/ AcceptFails \/ HandlerThrows
  BY <1>4
  DEF WorkerHasTask, Worker, Accept, AcceptFails, EndHandler, StopServer,
      StopInCallback, ClearInCallback, UntrackInCallback, CloseInCallback, FinishTask,
      HandlerThrows, workerVars
<1>5. ASSUME NEW s \in Sockets,
             \/ \E f \in Fds : OpenSocket(s, f)
             \/ Owner(s) \/ Disconnect(s) \/ Connect(s)
      PROVE  WorkerHasTask'
  BY <1>1, <1>5
  DEF OpenSocket, Owner, Track, SetRdCallback, SetRunning, CloseSocket, Disconnect,
      Connect, workerVars
<1>6. CASE Stop \/ StopByUi
  BY <1>1, <1>6
  DEF Stop, StopByUi, ClearRunning, UntrackByUi, WaitForRemoval, CloseByUi, workerVars
<1> QED
  BY <1>2, <1>3, <1>4, <1>5, <1>6 DEF Next, Sockets

-----------------------------------------------------------------------------
(***************************************************************************)
(* What a step does to the set of tasks.                                   *)
(***************************************************************************)
NewTasks == {[fd |-> f, cb |-> table[f].cb] : f \in Fired}

LEMMA TasksType ==
  ASSUME TypeOK
  PROVE  Tasks \subseteq Task
<1>1. \A i \in DOMAIN tasks : tasks[i] \in Task
  BY LenProperties, ElementOfSeq DEF TypeOK
<1> QED
  BY <1>1 DEF Tasks, Queued, TypeOK

LEMMA FetchTasks ==
  ASSUME TypeOK, WorkerHasTask, FetchTask
  PROVE  Tasks' = Tasks
<1> USE DEF FetchTask
<1>1. tasks \in Seq(Task) /\ tasks # <<>>
  BY DEF TypeOK
<1>2. task = NoTask /\ task' # NoTask /\ task' = tasks[1]
  BY <1>1, HeadTailProperties, EntryFacts DEF WorkerHasTask
<1>3. Queued = Queued' \cup {tasks[1]}
  <2>1. Len(tasks) \in Nat \ {0} /\ DOMAIN tasks = 1..Len(tasks)
    BY <1>1, LenProperties, EmptySeq
  <2>2. /\ DOMAIN tasks' = 1..Len(tasks) - 1
        /\ \A i \in 1..Len(tasks) - 1 : tasks'[i] = tasks[i + 1]
    BY <1>1, <2>1, HeadTailProperties, LenProperties
  <2>3. Queued' \subseteq Queued
    <3> SUFFICES ASSUME NEW i \in DOMAIN tasks' PROVE tasks'[i] \in Queued
      BY DEF Queued
    <3> QED
      BY <2>1, <2>2 DEF Queued
  <2>4. Queued \subseteq Queued' \cup {tasks[1]}
    <3> SUFFICES ASSUME NEW i \in DOMAIN tasks, i # 1 PROVE tasks[i] \in Queued'
      BY DEF Queued
    <3>1. i - 1 \in DOMAIN tasks' /\ tasks[i] = tasks'[i - 1]
      BY <2>1, <2>2
    <3> QED
      BY <3>1 DEF Queued
  <2>5. tasks[1] \in Queued
    BY <2>1 DEF Queued
  <2> QED
    BY <2>3, <2>4, <2>5
<1> QED
  BY <1>2, <1>3 DEF Tasks

LEMMA ProcessTasks ==
  ASSUME TypeOK, ProcessEvents
  PROVE  Tasks' = Tasks \cup NewTasks
<1> DEFINE n == Cardinality(Fired)
<1>1. PICK q \in Orders(Fired) :
        tasks' = tasks \o [i \in 1..n |-> [fd |-> q[i], cb |-> table[q[i]].cb]]
  BY DEF ProcessEvents
<1> DEFINE r == [i \in 1..n |-> [fd |-> q[i], cb |-> table[q[i]].cb]]
<1>2. r \in Seq(Task) /\ tasks \in Seq(Task) /\ tasks' = tasks \o r
  BY <1>1, FiredTasks DEF TypeOK
<1>3. {r[i] : i \in 1..n} = NewTasks
  <2>1. \A i \in 1..n : q[i] \in Fired
    BY DEF Orders
  <2>2. \A f \in Fired : \E i \in 1..n : q[i] = f
    BY DEF Orders
  <2> QED
    BY <2>1, <2>2 DEF NewTasks
<1>4. Queued' = Queued \cup {r[i] : i \in 1..n}
  <2>1. DOMAIN r = 1..n
    OBVIOUS
  <2> HIDE DEF r, n
  <2>2. Len(r) \in Nat /\ 1..n = 1..Len(r) /\ Len(tasks) \in Nat
    BY <1>2, <2>1, LenProperties
  <2>3. /\ DOMAIN tasks = 1..Len(tasks)
        /\ DOMAIN tasks' = 1..Len(tasks) + Len(r)
        /\ \A i \in 1..Len(tasks) + Len(r) :
             tasks'[i] = IF i <= Len(tasks) THEN tasks[i] ELSE r[i - Len(tasks)]
    <3>1. tasks' \in Seq(Task) /\ Len(tasks') = Len(tasks) + Len(r)
      BY <1>2, ConcatProperties
    <3>2. DOMAIN tasks = 1..Len(tasks) /\ DOMAIN tasks' = 1..Len(tasks')
      BY <1>2, <3>1, LenProperties
    <3>3. \A i \in 1..Len(tasks) + Len(r) :
             (tasks \o r)[i] = IF i <= Len(tasks) THEN tasks[i] ELSE r[i - Len(tasks)]
      BY <1>2, ConcatProperties
    <3> QED
      BY <1>2, <3>1, <3>2, <3>3
  <2>4. \A i \in 1..Len(tasks) : tasks[i] = tasks'[i] /\ i \in DOMAIN tasks'
    BY <2>2, <2>3
  <2>5. \A i \in 1..Len(r) : r[i] = tasks'[Len(tasks) + i] /\ Len(tasks) + i \in DOMAIN tasks'
    BY <2>2, <2>3
  <2>6. \A i \in DOMAIN tasks' : \/ i \in 1..Len(tasks) /\ tasks'[i] = tasks[i]
                                 \/ i - Len(tasks) \in 1..Len(r) /\ tasks'[i] = r[i - Len(tasks)]
    BY <2>2, <2>3
  <2> DEFINE R == {r[i] : i \in 1..n}
  <2>7. R = {r[i] : i \in 1..Len(r)}
    BY <2>2
  <2>8. Queued' \subseteq Queued \cup R
    <3> SUFFICES ASSUME NEW i \in DOMAIN tasks' PROVE tasks'[i] \in Queued \cup R
      BY DEF Queued
    <3> QED
      BY <2>3, <2>6, <2>7 DEF Queued
  <2>9. Queued \subseteq Queued'
    BY <2>3, <2>4 DEF Queued
  <2>10. R \subseteq Queued'
    <3> SUFFICES ASSUME NEW i \in 1..Len(r) PROVE r[i] \in Queued'
      BY <2>7
    <3> QED
      BY <2>5 DEF Queued
  <2> QED
    BY <2>8, <2>9, <2>10
<1>5. task' = task
  BY DEF ProcessEvents
<1> QED
  BY <1>3, <1>4, <1>5 DEF Tasks

\* A task that ends leaves the queued ones.
LEMMA EndTasks ==
  ASSUME TypeOK, WorkerHasTask, FinishTask \/ HandlerThrows
  PROVE  Tasks' = Queued /\ Tasks = Queued \cup {task} /\ task \in Task
<1>1. task # NoTask /\ task' = NoTask /\ tasks' = tasks
  BY DEF FinishTask, HandlerThrows, WorkerHasTask
<1> QED
  BY <1>1 DEF Tasks, Queued, TypeOK

-----------------------------------------------------------------------------
(***************************************************************************)
(* NotDeaf is inductive, whether descriptors are used again or not: an     *)
(* entry is set to executing with a task, and the end of the task clears   *)
(* it.                                                                     *)
(***************************************************************************)
LEMMA UntrackTable ==
  ASSUME TypeOK, NEW f \in Fds, Untrack(f)
  PROVE  /\ \A g \in Fds \ {f} : table'[g] = table[g]
         /\ Executing(f) => Executing(f)' /\ table'[f].cb = table[f].cb
         /\ ~Executing(f) => ~Tracked(f)'
<1>0. table[f] \in Entry
  BY DEF TypeOK
<1>1. \A g \in Fds \ {f} : table'[g] = table[g]
  BY DEF Untrack, TypeOK
<1>2. CASE Executing(f)
  <2>1. table'[f] = [table[f] EXCEPT !.marked = TRUE]
    BY <1>2 DEF Untrack, TypeOK
  <2>2. table'[f].executing /\ table'[f].cb = table[f].cb
    BY <1>0, <1>2, <2>1 DEF Entry, Executing
  <2>3. table'[f] # NoEntry
    BY <2>2 DEF NoEntry
  <2> QED
    BY <1>1, <1>2, <2>2, <2>3 DEF Executing, Tracked
<1>3. CASE ~Executing(f)
  BY <1>1, <1>3 DEF Untrack, TypeOK, Tracked
<1> QED
  BY <1>2, <1>3

\* untrack of the server's socket writes to no entry, or is Untrack of one.
LEMMA UntrackServerTable ==
  ASSUME TypeOK, UntrackServer
  PROVE  table' = table \/ \E f \in Fds : Untrack(f)
BY DEF UntrackServer, Listening, Sockets, TypeOK

LEMMA UntrackServerExecuting ==
  ASSUME TypeOK, UntrackServer
  PROVE  \A f \in Fds : Executing(f)' => Executing(f)
<1>1. CASE table' = table
  BY <1>1 DEF Executing, Tracked
<1>2. ASSUME NEW g \in Fds, Untrack(g)
      PROVE  \A f \in Fds : Executing(f)' => Executing(f)
  <2>1. \A f \in Fds \ {g} : table'[f] = table[f]
    BY <1>2, UntrackTable
  <2>2. Executing(g)' => Executing(g)
    BY <1>2, UntrackTable DEF Executing
  <2> QED
    BY <2>1, <2>2 DEF Executing, Tracked
<1> QED
  BY <1>1, <1>2, UntrackServerTable

\* Steps of the owners of sockets, on which no task begins or ends.
OwnerStep(s) ==
  \/ \E f \in Fds : OpenSocket(s, f)
  \/ Owner(s) \/ Disconnect(s)
  \/ s \in Servers /\ Connect(s)

LEMMA OwnerTable ==
  ASSUME TypeOK, NEW s \in Sockets, OwnerStep(s)
  PROVE  /\ \A f \in Fds : Executing(f)' => Executing(f)
         /\ UNCHANGED workerVars
<1>0. fd[s] \in Fds /\ Fresh # NoEntry
  BY EntryFacts DEF TypeOK
<1>1. UNCHANGED workerVars
  BY DEF OwnerStep, OpenSocket, Owner, Track, SetRdCallback, SetRunning, CloseSocket,
         Disconnect, Connect
<1>2. CASE table' = table
  BY <1>1, <1>2 DEF Executing, Tracked
<1>3. CASE Track(s)
  BY <1>0, <1>1, <1>3 DEF Track, Executing, Tracked, TypeOK, Fresh
<1>4. CASE SetRdCallback(s)
  <2>1. table' = [table EXCEPT ![fd[s]] =
                    IF Tracked(fd[s]) THEN [@ EXCEPT !.cb = s] ELSE [Fresh EXCEPT !.cb = s]]
    BY <1>4 DEF SetRdCallback
  <2>2. \A f \in Fds \ {fd[s]} : table'[f] = table[f]
    BY <2>1 DEF TypeOK
  <2>3. table'[fd[s]].executing => Executing(fd[s])
    BY <1>0, <2>1 DEF TypeOK, Entry, Fresh, Executing
  <2> QED
    BY <1>1, <2>2, <2>3 DEF Executing, Tracked
<1>5. CASE Untrack(fd[s])
  <2>1. PICK f \in Fds : f = fd[s]
    BY <1>0
  <2>2. Executing(f)' => Executing(f)
    BY <1>5, <2>1, UntrackTable DEF Executing
  <2>3. \A g \in Fds \ {f} : table'[g] = table[g]
    BY <1>5, <2>1, UntrackTable
  <2> QED
    BY <1>1, <2>2, <2>3 DEF Executing, Tracked
<1> QED
  BY <1>2, <1>3, <1>4, <1>5
  DEF OwnerStep, OpenSocket, Owner, SetRunning, CloseSocket, Disconnect, Connect

LEMMA ProcessTable ==
  ASSUME TypeOK, ProcessEvents
  PROVE  \A f \in Fds :
           /\ f \in Fired =>
                /\ ~Executing(f) /\ Tracked(f) /\ table[f].cb \in Sockets
                /\ Executing(f)' /\ table'[f].cb = table[f].cb
           /\ f \notin Fired =>
                \/ table'[f] = table[f]
                \/ ~Executing(f) /\ ~Tracked(f)'
<1> SUFFICES ASSUME NEW f \in Fds
             PROVE  /\ f \in Fired =>
                         /\ ~Executing(f) /\ Tracked(f) /\ table[f].cb \in Sockets
                         /\ Executing(f)' /\ table'[f].cb = table[f].cb
                    /\ f \notin Fired =>
                         \/ table'[f] = table[f]
                         \/ ~Executing(f) /\ ~Tracked(f)'
  OBVIOUS
<1>0. table[f] \in Entry
  BY DEF TypeOK
<1>1. CASE f \in Fired
  <2>1. table[f].cb \in Sockets /\ ~Executing(f) /\ Tracked(f)
    BY <1>0, <1>1 DEF Fired, Fires, Pollable, Executing, Entry
  <2>2. table'[f] = [table[f] EXCEPT !.executing = TRUE]
    BY <1>1 DEF ProcessEvents, Fired
  <2>3. table'[f].executing /\ table'[f].cb = table[f].cb
    BY <1>0, <2>2 DEF Entry
  <2>4. table'[f] # NoEntry
    BY <2>1, <2>3, SocketsAssumption DEF NoEntry
  <2> QED
    BY <1>1, <2>1, <2>3, <2>4 DEF Executing, Tracked
<1>2. CASE f \notin Fired /\ Erased(f)
  BY <1>2 DEF ProcessEvents, Fired, Erased, Executing, Tracked
<1>3. CASE f \notin Fired /\ ~Erased(f)
  BY <1>3 DEF ProcessEvents, Fired
<1> QED
  BY <1>1, <1>2, <1>3

LEMMA FinishTable ==
  ASSUME TypeOK, WorkerHasTask, FinishTask
  PROVE  /\ task.fd \in Fds
         /\ \A f \in Fds : f = task.fd => ~Executing(f)'
         /\ \A f \in Fds \ {task.fd} : table'[f] = table[f]
<1>1. PICK f \in Fds : f = task.fd
  BY EndTasks DEF Task
<1>2. CASE Tracked(f)
  <2>1. table[f] \in Entry
    BY DEF TypeOK
  <2>2. table' = [table EXCEPT ![f] = IF table[f].marked THEN NoEntry
                                      ELSE [table[f] EXCEPT !.executing = FALSE]]
    BY <1>1, <1>2 DEF FinishTask
  <2>3. ~table'[f].executing
    BY <2>1, <2>2 DEF NoEntry, Entry, TypeOK
  <2>4. \A g \in Fds \ {f} : table'[g] = table[g]
    BY <2>2 DEF TypeOK
  <2> QED
    BY <1>1, <2>3, <2>4 DEF Executing
<1>3. CASE ~Tracked(f)
  BY <1>1, <1>3 DEF FinishTask, Executing, Tracked
<1> QED
  BY <1>2, <1>3

LEMMA FinishEntries ==
  ASSUME TypeOK, WorkerHasTask, FinishTask
  PROVE  \A f \in Fds : Tracked(f)' => Tracked(f) /\ table'[f].cb = table[f].cb
<1> SUFFICES ASSUME NEW f \in Fds, Tracked(f)'
             PROVE  Tracked(f) /\ table'[f].cb = table[f].cb
  OBVIOUS
<1>1. CASE f # task.fd
  BY <1>1, FinishTable DEF Tracked
<1>2. CASE f = task.fd /\ ~Tracked(f)
  BY <1>2 DEF FinishTask, Tracked
<1>3. CASE f = task.fd /\ Tracked(f)
  <2>1. table' = [table EXCEPT ![f] = IF table[f].marked THEN NoEntry
                                      ELSE [table[f] EXCEPT !.executing = FALSE]]
    BY <1>3 DEF FinishTask
  <2>2. table'[f] = [table[f] EXCEPT !.executing = FALSE] /\ table[f] \in Entry
    BY <2>1 DEF TypeOK, Tracked
  <2> QED
    BY <1>3, <2>2 DEF Entry
<1> QED
  BY <1>1, <1>2, <1>3

LEMMA StepNotDeaf ==
  ASSUME TypeOK, WorkerHasTask, NotDeaf, [Next]_vars
  PROVE  NotDeaf'
<1>1. CASE /\ Tasks' = Tasks /\ threw' = threw
           /\ \A f \in Fds : Executing(f)' => Executing(f)
  BY <1>1 DEF NotDeaf
<1>2. CASE BuildSets \/ Select \/ UNCHANGED vars
  BY <1>1, <1>2
  DEF BuildSets, Select, workerVars, history, vars, Tasks, Queued, Executing, Tracked
<1>3. CASE ProcessEvents
  <2>1. Tasks' = Tasks \cup NewTasks /\ threw' = threw
    BY <1>3, ProcessTasks DEF ProcessEvents, history
  <2>2. \A f \in Fds : Executing(f)' => Executing(f) \/ f \in Fired
    BY <1>3, ProcessTable DEF Executing, Tracked
  <2>3. \A f \in Fired : \E t \in NewTasks : t.fd = f
    <3> SUFFICES ASSUME NEW f \in Fired PROVE \E t \in NewTasks : t.fd = f
      OBVIOUS
    <3>1. [fd |-> f, cb |-> table[f].cb] \in NewTasks
      BY DEF NewTasks
    <3> QED
      BY <3>1
  <2> QED
    BY <2>1, <2>2, <2>3 DEF NotDeaf
<1>4. CASE FetchTask
  BY <1>1, <1>4, FetchTasks DEF FetchTask, history, Executing, Tracked
<1>5. CASE Accept \/ AcceptFails \/ EndHandler \/ StopInCallback \/ ClearInCallback
           \/ CloseInCallback
  BY <1>1, <1>5
  DEF Accept, AcceptFails, EndHandler, StopInCallback, ClearInCallback, CloseInCallback,
      history, Tasks, Queued, Executing, Tracked
<1>6. CASE UntrackInCallback
  <2>1. \A f \in Fds : Executing(f)' => Executing(f)
    BY <1>6, UntrackServerExecuting DEF UntrackInCallback
  <2> QED
    BY <1>1, <1>6, <2>1 DEF UntrackInCallback, history, Tasks, Queued
<1>7. CASE FinishTask
  <2>1. /\ Tasks' = Queued /\ Tasks = Queued \cup {task}
        /\ threw' = threw
    BY <1>7, EndTasks DEF FinishTask, history
  <2>2. \A f \in Fds : Executing(f)' => Executing(f) /\ f # task.fd
    BY <1>7, FinishTable DEF Executing, Tracked
  <2> QED
    BY <2>1, <2>2 DEF NotDeaf
<1>8. CASE HandlerThrows
  BY <1>8 DEF HandlerThrows, NotDeaf
<1>9. ASSUME NEW s \in Sockets, OwnerStep(s)
      PROVE  NotDeaf'
  <2>1. threw' = threw
    BY <1>9
    DEF OwnerStep, OpenSocket, Owner, Track, SetRdCallback, SetRunning, CloseSocket,
        Disconnect, Connect, history
  <2>2. Tasks' = Tasks
    BY <1>9, OwnerTable DEF workerVars, Tasks, Queued
  <2> QED
    BY <1>1, <1>9, <2>1, <2>2, OwnerTable
<1>10. CASE Stop \/ StopByUi
  <2>1. \A f \in Fds : Executing(f)' => Executing(f)
    <3>1. CASE UntrackByUi
      BY <3>1, UntrackServerExecuting DEF UntrackByUi
    <3>2. CASE table' = table
      BY <3>2 DEF Executing, Tracked
    <3> QED
      BY <1>10, <3>1, <3>2 DEF Stop, StopByUi, ClearRunning, WaitForRemoval, CloseByUi
  <2> QED
    BY <1>1, <1>10, <2>1
    DEF Stop, StopByUi, ClearRunning, UntrackByUi, WaitForRemoval, CloseByUi, workerVars,
        history, Tasks, Queued
<1> QED
  BY <1>2, <1>3, <1>4, <1>5, <1>6, <1>7, <1>8, <1>9, <1>10
  DEF Next, PollThread, Worker, StopServer, OwnerStep, Sockets

-----------------------------------------------------------------------------
(***************************************************************************)
(* Unreused is inductive as long as no descriptor is used again.           *)
(***************************************************************************)
\* The owner of a socket, or the callback of its server, untracks it.
LEMMA UntrackUnreused ==
  ASSUME TypeOK, Unreused, NEW g \in Fds, Untrack(g), UNCHANGED <<fd, tasks, task>>,
         \/ UNCHANGED state
         \/ \E s \in Clients : state[s] = "tracked" /\ state' = [state EXCEPT ![s] = "removed"]
  PROVE  Unreused'
<1>2. /\ \A f \in Fds \ {g} : table'[f] = table[f]
      /\ Executing(g) => Executing(g)' /\ table'[g].cb = table[g].cb
      /\ ~Executing(g) => ~Tracked(g)'
  BY UntrackTable
<1>3. \A f \in Fds : Tracked(f)' => Tracked(f) /\ table'[f].cb = table[f].cb
  BY <1>2 DEF Executing, Tracked
<1>4. /\ \A o \in Sockets : Open(o)' => Open(o)
      /\ \A o \in Sockets : state'[o] # state[o] => state[o] = "tracked" /\ state'[o] = "removed"
  BY DEF Open, Opened, TypeOK, Sockets
<1>5. NotYetTracked'
  <2> SUFFICES ASSUME NEW o \in Sockets, state'[o] = "open", Tracked(fd[o])'
               PROVE  FALSE
    BY DEF NotYetTracked
  <2>1. state[o] = "open"
    BY <1>4
  <2>2. fd[o] \in Fds /\ fd' = fd
    BY DEF TypeOK
  <2>3. Tracked(fd[o])
    BY <1>3, <2>2 DEF Tracked
  <2> QED
    BY <2>1, <2>3 DEF NotYetTracked, Unreused
<1>6. CallbackHome'
  <2> SUFFICES ASSUME NEW f \in Fds, Tracked(f)', table'[f].cb # NoSocket
               PROVE  /\ f = fd'[table'[f].cb]
                      /\ state'[table'[f].cb] \in {"armed", "serving", "closed", "dropped"}
                      /\ OwnerOf(f)' \subseteq {table'[f].cb}
    BY DEF CallbackHome
  <2> DEFINE c == table[f].cb
  <2>1. Tracked(f) /\ table'[f].cb = c
    BY <1>3
  <2>2. /\ f = fd[c] /\ c \in Sockets
        /\ state[c] \in {"armed", "serving", "closed", "dropped"}
        /\ OwnerOf(f) \subseteq {c}
    BY <2>1 DEF CallbackHome, TypeOK, Entry, Unreused
  <2>3. state'[c] \in {"armed", "serving", "closed", "dropped"}
    BY <1>4, <2>2
  <2>4. OwnerOf(f)' \subseteq OwnerOf(f)
    BY <1>4 DEF OwnerOf
  <2> QED
    BY <2>1, <2>2, <2>3, <2>4
<1>7. TaskEntry'
  <2>1. Tasks' = Tasks
    BY DEF Tasks, Queued
  <2>2. \A f \in Fds : Executing(f) => Executing(f)' /\ table'[f].cb = table[f].cb
    BY <1>2 DEF Executing, Tracked
  <2>3. \A t \in Tasks : t.fd \in Fds
    BY TasksType DEF Task
  <2> QED
    BY <2>1, <2>2, <2>3 DEF TaskEntry, Unreused
<1>8. OwnEntries'
  BY DEF OwnEntries, Unreused
<1> QED
  BY <1>5, <1>6, <1>7, <1>8 DEF Unreused

LEMMA OpenUnreused ==
  ASSUME TypeOK, ~reused => Unreused, NEW s \in Sockets, NEW g \in Fds,
         OpenSocket(s, g), ~reused'
  PROVE  Unreused'
<1>1. ~reused /\ ~InUse(g) /\ UNCHANGED <<table, tasks, task>>
  BY DEF OpenSocket, workerVars
<1>2. Unreused /\ ~Tracked(g)
  BY <1>1 DEF InUse
<1>3. /\ state' = [state EXCEPT ![s] = "open"] /\ fd' = [fd EXCEPT ![s] = g]
      /\ state[s] = "new"
  BY DEF OpenSocket
<1>4. NotYetTracked'
  <2> SUFFICES ASSUME NEW o \in Sockets, state'[o] = "open" PROVE ~Tracked(fd[o])'
    BY DEF NotYetTracked
  <2> QED
    BY <1>1, <1>2, <1>3 DEF TypeOK, Tracked, NotYetTracked, Unreused
<1>5. CallbackHome'
  <2> SUFFICES ASSUME NEW f \in Fds, Tracked(f)', table'[f].cb # NoSocket
               PROVE  /\ f = fd'[table'[f].cb]
                      /\ state'[table'[f].cb] \in {"armed", "serving", "closed", "dropped"}
                      /\ OwnerOf(f)' \subseteq {table'[f].cb}
    BY DEF CallbackHome
  <2> DEFINE c == table[f].cb
  <2>1. Tracked(f) /\ table'[f].cb = c /\ f # g
    BY <1>1, <1>2 DEF Tracked
  <2>2. /\ f = fd[c] /\ c \in Sockets
        /\ state[c] \in {"armed", "serving", "closed", "dropped"}
        /\ OwnerOf(f) \subseteq {c}
    BY <1>1, <1>2, <2>1 DEF CallbackHome, TypeOK, Entry, Unreused
  <2>3. c # s
    BY <1>3, <2>2
  <2>4. OwnerOf(f)' \subseteq OwnerOf(f)
    <3> SUFFICES ASSUME NEW o \in Sockets, Open(o)', fd'[o] = f PROVE o \in OwnerOf(f)
      BY DEF OwnerOf
    <3>1. o # s
      BY <1>3, <2>1 DEF TypeOK
    <3> QED
      BY <1>3, <3>1 DEF OwnerOf, Open, TypeOK
  <2> QED
    BY <1>3, <2>1, <2>2, <2>3, <2>4 DEF TypeOK
<1>6. TaskEntry' /\ OwnEntries'
  BY <1>1, <1>2 DEF TaskEntry, OwnEntries, Unreused, Tasks, Queued, Executing, Tracked
<1> QED
  BY <1>4, <1>5, <1>6 DEF Unreused

\* The table is not written, and sockets only come closer to their end.
LEMMA AgeUnreused ==
  ASSUME TypeOK, Unreused, UNCHANGED <<fd, table, tasks, task>>,
         \A o \in Sockets :
           \/ state'[o] = state[o]
           \/ state[o] = "armed" /\ state'[o] = "serving"
           \/ state[o] \in Opened /\ state'[o] \in {"closed", "dropped"}
  PROVE  Unreused'
<1>1. \A o \in Sockets : /\ Open(o)' => Open(o)
                         /\ state'[o] = "open" => state[o] = "open"
  BY DEF Open, Opened, TypeOK
<1>2. NotYetTracked'
  BY <1>1 DEF NotYetTracked, Tracked, Unreused
<1>3. CallbackHome'
  <2> SUFFICES ASSUME NEW f \in Fds, Tracked(f), table[f].cb # NoSocket
               PROVE  /\ f = fd[table[f].cb]
                      /\ state'[table[f].cb] \in {"armed", "serving", "closed", "dropped"}
                      /\ OwnerOf(f)' \subseteq {table[f].cb}
    BY DEF CallbackHome, Tracked
  <2>1. /\ f = fd[table[f].cb] /\ table[f].cb \in Sockets
        /\ state[table[f].cb] \in {"armed", "serving", "closed", "dropped"}
        /\ OwnerOf(f) \subseteq {table[f].cb}
    BY DEF CallbackHome, Unreused, TypeOK, Entry
  <2>2. state'[table[f].cb] \in {"armed", "serving", "closed", "dropped"}
    BY <2>1 DEF TypeOK
  <2>3. OwnerOf(f)' \subseteq OwnerOf(f)
    BY <1>1 DEF OwnerOf
  <2> QED
    BY <2>1, <2>2, <2>3
<1>4. TaskEntry' /\ OwnEntries'
  BY DEF TaskEntry, OwnEntries, Unreused, Tasks, Queued, Executing, Tracked
<1> QED
  BY <1>2, <1>3, <1>4 DEF Unreused

\* A socket is tracked, or a server sets its callback: no task is about its
\* descriptor.
LEMMA TrackUnreused ==
  ASSUME TypeOK, OwnFds, Unreused, NEW s \in Sockets, Track(s) \/ SetRdCallback(s)
  PROVE  Unreused'
<1>1. PICK g \in Fds : g = fd[s]
  BY DEF TypeOK
<1>2. /\ UNCHANGED <<fd, tasks, task>>
      /\ Open(s)
      /\ \A f \in Fds \ {g} : table'[f] = table[f]
      /\ \A o \in Sockets : o # s => state'[o] = state[o]
      /\ state'[s] \in {"tracked", "armed"}
  BY <1>1
  DEF Track, SetRdCallback, TypeOK, Open, Opened, workerVars
<1>3. \A o \in Sockets : Open(o)' => Open(o)
  BY <1>2 DEF Open
<1>4. Tracked(g) => table[g].cb = NoSocket
  <2>1. s \in OwnerOf(g)
    BY <1>1, <1>2 DEF OwnerOf
  <2>2. state[s] \in {"open", "tracked"}
    BY DEF Track, SetRdCallback
  <2> QED
    BY <2>1, <2>2 DEF CallbackHome, Unreused
<1>5. \A t \in Tasks : t.fd \in Fds /\ t.fd # g
  BY <1>4, TasksType, SocketsAssumption DEF TaskEntry, Unreused, Task, Executing
<1>6. table'[g].cb # NoSocket => table'[g].cb = s /\ state'[s] = "armed"
  <2>1. CASE Track(s)
    BY <1>1, <2>1 DEF Track, Fresh, TypeOK
  <2>2. CASE SetRdCallback(s)
    <3>1. table[g] \in Entry /\ Fresh \in Entry
      BY EntryFacts DEF TypeOK
    <3>2. table'[g].cb = s
      BY <1>1, <2>2, <3>1 DEF SetRdCallback, TypeOK, Entry
    <3>3. state'[s] = "armed"
      BY <2>2 DEF SetRdCallback, TypeOK
    <3> QED
      BY <3>2, <3>3
  <2> QED
    BY <2>1, <2>2
<1>7. NotYetTracked'
  <2> SUFFICES ASSUME NEW o \in Sockets, state'[o] = "open" PROVE ~Tracked(fd[o])'
    BY DEF NotYetTracked
  <2>1. o # s /\ state[o] = "open"
    BY <1>2
  <2>2. fd[o] \in Fds \ {g}
    BY <1>1, <1>2, <2>1 DEF OwnFds, TypeOK, Open, Opened
  <2> QED
    BY <1>2, <2>1, <2>2 DEF NotYetTracked, Unreused, Tracked
<1>8. CallbackHome'
  <2> SUFFICES ASSUME NEW f \in Fds, Tracked(f)', table'[f].cb # NoSocket
               PROVE  /\ f = fd'[table'[f].cb]
                      /\ state'[table'[f].cb] \in {"armed", "serving", "closed", "dropped"}
                      /\ OwnerOf(f)' \subseteq {table'[f].cb}
    BY DEF CallbackHome
  <2>0. OwnerOf(f)' \subseteq OwnerOf(f)
    BY <1>2, <1>3 DEF OwnerOf
  <2>1. CASE f = g
    <3>1. OwnerOf(g) \subseteq {s}
      BY <1>1, <1>2 DEF OwnerOf, OwnFds
    <3> QED
      BY <1>1, <1>2, <1>6, <2>0, <2>1, <3>1
  <2>2. CASE f # g
    <3>1. Tracked(f) /\ table'[f] = table[f]
      BY <1>2, <2>2 DEF Tracked
    <3>2. /\ f = fd[table[f].cb] /\ table[f].cb \in Sockets
          /\ state[table[f].cb] \in {"armed", "serving", "closed", "dropped"}
          /\ OwnerOf(f) \subseteq {table[f].cb}
      BY <3>1 DEF CallbackHome, Unreused, TypeOK, Entry
    <3>3. table[f].cb # s
      BY <1>1, <2>2, <3>2
    <3> QED
      BY <1>2, <2>0, <3>1, <3>2, <3>3
  <2> QED
    BY <2>1, <2>2
<1>9. TaskEntry'
  <2>1. Tasks' = Tasks
    BY <1>2 DEF Tasks, Queued
  <2>2. \A f \in Fds \ {g} : Executing(f) => Executing(f)' /\ table'[f].cb = table[f].cb
    BY <1>2 DEF Executing, Tracked
  <2> QED
    BY <1>5, <2>1, <2>2 DEF TaskEntry, Unreused
<1>10. OwnEntries'
  BY <1>2 DEF OwnEntries, Unreused
<1> QED
  BY <1>7, <1>8, <1>9, <1>10 DEF Unreused

\* The worker takes a task.
LEMMA FetchUnreused ==
  ASSUME TypeOK, WorkerHasTask, Unreused, FetchTask
  PROVE  Unreused'
<1>1. tasks \in Seq(Task) /\ tasks # <<>>
  BY DEF TypeOK, FetchTask
<1>2. Len(tasks) \in Nat \ {0} /\ DOMAIN tasks = 1..Len(tasks)
  BY <1>1, LenProperties, EmptySeq
<1>3. /\ DOMAIN tasks' = 1..Len(tasks) - 1
      /\ \A i \in 1..Len(tasks) - 1 : tasks'[i] = tasks[i + 1]
  BY <1>1, <1>2, HeadTailProperties, LenProperties DEF FetchTask
<1>4. task' = tasks[1]
  BY <1>1 DEF FetchTask
<1>5. OwnEntries'
  <2>1. \A i, j \in 1..Len(tasks) : i # j => tasks[i].fd # tasks[j].fd
    BY <1>2 DEF OwnEntries, Unreused
  <2>2. \A i, j \in DOMAIN tasks' : i # j => tasks'[i].fd # tasks'[j].fd
    <3> SUFFICES ASSUME NEW i \in 1..Len(tasks) - 1, NEW j \in 1..Len(tasks) - 1, i # j
                 PROVE  tasks[i + 1].fd # tasks[j + 1].fd
      BY <1>3
    <3> QED
      BY <1>2, <2>1
  <2>3. \A i \in DOMAIN tasks' : tasks'[i].fd # task'.fd
    <3> SUFFICES ASSUME NEW i \in 1..Len(tasks) - 1
                 PROVE  tasks[i + 1].fd # tasks[1].fd
      BY <1>3, <1>4
    <3>1. i + 1 \in 1..Len(tasks) /\ 1 \in 1..Len(tasks) /\ i + 1 # 1
      BY <1>2
    <3> QED
      BY <2>1, <3>1
  <2> QED
    BY <2>2, <2>3 DEF OwnEntries
<1>6. UNCHANGED <<state, fd, table>>
  BY DEF FetchTask, ownerVars
<1>7. TaskEntry'
  BY <1>6, FetchTasks DEF TaskEntry, Unreused, Executing, Tracked
<1>8. NotYetTracked' /\ CallbackHome'
  BY <1>6 DEF NotYetTracked, CallbackHome, Unreused, Tracked, OwnerOf, Open
<1> QED
  BY <1>5, <1>7, <1>8 DEF Unreused

\* The worker ends a task, with or without clearing its entry.
LEMMA EndUnreused ==
  ASSUME TypeOK, WorkerHasTask, Unreused, FinishTask \/ HandlerThrows
  PROVE  Unreused'
<1>0. task' = NoTask /\ UNCHANGED <<state, fd, tasks>>
  BY DEF FinishTask, HandlerThrows, ownerVars
<1>1. Tasks' = Queued /\ task \in Task /\ task # NoTask
  BY EndTasks, EntryFacts
<1>2. \A f \in Fds : Tracked(f)' => Tracked(f) /\ table'[f].cb = table[f].cb
  BY FinishEntries DEF HandlerThrows, Tracked
<1>3. NotYetTracked'
  BY <1>0, <1>2 DEF NotYetTracked, Unreused, TypeOK, Tracked
<1>4. CallbackHome'
  BY <1>0, <1>2 DEF CallbackHome, Unreused, OwnerOf, Open
<1>5. TaskEntry'
  <2>1. \A t \in Queued : t \in Tasks /\ t.fd \in Fds /\ t.fd # task.fd
    BY <1>1, TasksType DEF Tasks, Queued, OwnEntries, Unreused, Task
  <2>2. \A f \in Fds \ {task.fd} : table'[f] = table[f]
    <3>1. CASE HandlerThrows
      BY <3>1 DEF HandlerThrows
    <3>2. CASE FinishTask
      BY <3>2, FinishTable
    <3> QED
      BY <3>1, <3>2
  <2> QED
    BY <1>1, <2>1, <2>2 DEF TaskEntry, Unreused, Executing, Tracked
<1>6. OwnEntries'
  BY <1>0 DEF OwnEntries, Unreused
<1> QED
  BY <1>3, <1>4, <1>5, <1>6 DEF Unreused

\* The poll thread queues the callbacks of descriptors no task is about.
LEMMA ProcessUnreused ==
  ASSUME TypeOK, Unreused, ProcessEvents
  PROVE  Unreused'
<1> DEFINE n == Cardinality(Fired)
<1>1. PICK q \in Orders(Fired) :
        tasks' = tasks \o [i \in 1..n |-> [fd |-> q[i], cb |-> table[q[i]].cb]]
  BY DEF ProcessEvents
<1> DEFINE r == [i \in 1..n |-> [fd |-> q[i], cb |-> table[q[i]].cb]]
<1>2. UNCHANGED <<state, fd, task>>
  BY DEF ProcessEvents, ownerVars
<1>3. \A f \in Fds : Tracked(f)' => Tracked(f) /\ table'[f].cb = table[f].cb
  BY ProcessTable DEF Tracked
<1>4. NotYetTracked'
  BY <1>2, <1>3 DEF NotYetTracked, Unreused, TypeOK, Tracked
<1>5. CallbackHome'
  BY <1>2, <1>3 DEF CallbackHome, Unreused, OwnerOf, Open
<1>6. \A t \in Tasks : t.fd \in Fds /\ t.fd \notin Fired /\ Executing(t.fd)
  BY TasksType, ProcessTable DEF TaskEntry, Unreused, Task
<1>7. TaskEntry'
  <2>1. \A t \in Tasks : Executing(t.fd)' /\ table'[t.fd].cb = t.cb
    <3> SUFFICES ASSUME NEW t \in Tasks PROVE Executing(t.fd)' /\ table'[t.fd].cb = t.cb
      OBVIOUS
    <3>1. table'[t.fd] = table[t.fd]
      BY <1>6, ProcessTable
    <3> QED
      BY <1>6, <3>1 DEF TaskEntry, Unreused, Executing, Tracked
  <2>2. \A t \in NewTasks : Executing(t.fd)' /\ table'[t.fd].cb = t.cb
    <3> SUFFICES ASSUME NEW f \in Fired
                 PROVE  Executing(f)' /\ table'[f].cb = table[f].cb
      BY DEF NewTasks
    <3>1. f \in Fds
      BY DEF Fired
    <3> QED
      BY <3>1, ProcessTable
  <2> QED
    BY <2>1, <2>2, ProcessTasks DEF TaskEntry
<1>8. OwnEntries'
  <2>1. r \in Seq(Task) /\ tasks \in Seq(Task) /\ tasks' = tasks \o r
    BY <1>1, FiredTasks DEF TypeOK
  <2>2. /\ \A i \in 1..n : r[i].fd \in Fired
        /\ \A i, j \in 1..n : i # j => r[i].fd # r[j].fd
        /\ DOMAIN r = 1..n
    BY DEF Orders
  <2> HIDE DEF r, n
  <2>3. Len(r) \in Nat /\ 1..n = 1..Len(r) /\ Len(tasks) \in Nat
        /\ DOMAIN tasks = 1..Len(tasks)
    BY <2>1, <2>2, LenProperties
  <2>4. /\ \A i \in 1..Len(r) : r[i].fd \in Fired
        /\ \A i, j \in 1..Len(r) : i # j => r[i].fd # r[j].fd
    BY <2>2, <2>3
  <2>5. /\ DOMAIN tasks' = 1..Len(tasks) + Len(r)
        /\ \A i \in 1..Len(tasks) + Len(r) :
             tasks'[i] = IF i <= Len(tasks) THEN tasks[i] ELSE r[i - Len(tasks)]
    <3>1. tasks' \in Seq(Task) /\ Len(tasks') = Len(tasks) + Len(r)
      BY <2>1, ConcatProperties
    <3>2. DOMAIN tasks' = 1..Len(tasks')
      BY <3>1, LenProperties
    <3>3. \A i \in 1..Len(tasks) + Len(r) :
             (tasks \o r)[i] = IF i <= Len(tasks) THEN tasks[i] ELSE r[i - Len(tasks)]
      BY <2>1, ConcatProperties
    <3> QED
      BY <2>1, <3>1, <3>2, <3>3
  <2>6. \A i \in 1..Len(tasks) : tasks[i].fd \notin Fired
    BY <1>6, <2>3 DEF Tasks, Queued
  <2>7. \A i, j \in 1..Len(tasks) : i # j => tasks[i].fd # tasks[j].fd
    BY <2>3 DEF OwnEntries, Unreused
  <2>8. \A i, j \in DOMAIN tasks' : i # j => tasks'[i].fd # tasks'[j].fd
    <3> SUFFICES ASSUME NEW i \in DOMAIN tasks', NEW j \in DOMAIN tasks', i # j
                 PROVE  tasks'[i].fd # tasks'[j].fd
      OBVIOUS
    <3>1. CASE i <= Len(tasks) /\ j <= Len(tasks)
      BY <2>3, <2>5, <2>7, <3>1
    <3>2. CASE i <= Len(tasks) /\ ~(j <= Len(tasks))
      <4>1. i \in 1..Len(tasks) /\ j - Len(tasks) \in 1..Len(r)
        BY <2>3, <2>5, <3>2
      <4> QED
        BY <2>4, <2>5, <2>6, <3>2, <4>1
    <3>3. CASE ~(i <= Len(tasks)) /\ j <= Len(tasks)
      <4>1. j \in 1..Len(tasks) /\ i - Len(tasks) \in 1..Len(r)
        BY <2>3, <2>5, <3>3
      <4> QED
        BY <2>4, <2>5, <2>6, <3>3, <4>1
    <3>4. CASE ~(i <= Len(tasks)) /\ ~(j <= Len(tasks))
      <4>1. /\ i - Len(tasks) \in 1..Len(r) /\ j - Len(tasks) \in 1..Len(r)
            /\ i - Len(tasks) # j - Len(tasks)
        BY <2>3, <2>5, <3>4
      <4> QED
        BY <2>4, <2>5, <3>4, <4>1
    <3> QED
      BY <3>1, <3>2, <3>3, <3>4
  <2>9. task # NoTask => \A i \in DOMAIN tasks' : tasks'[i].fd # task.fd
    <3> SUFFICES ASSUME task # NoTask, NEW i \in DOMAIN tasks'
                 PROVE  tasks'[i].fd # task.fd
      OBVIOUS
    <3>1. CASE i <= Len(tasks)
      BY <2>3, <2>5, <3>1 DEF OwnEntries, Unreused
    <3>2. CASE ~(i <= Len(tasks))
      <4>1. i - Len(tasks) \in 1..Len(r)
        BY <2>3, <2>5, <3>2
      <4>2. task \in Tasks
        BY DEF Tasks
      <4> QED
        BY <1>6, <2>4, <2>5, <3>2, <4>1, <4>2
    <3> QED
      BY <3>1, <3>2
  <2> QED
    BY <1>2, <2>8, <2>9 DEF OwnEntries
<1> QED
  BY <1>4, <1>5, <1>7, <1>8 DEF Unreused

LEMMA StepUnreused ==
  ASSUME TypeOK, OwnFds, WorkerHasTask, ~reused => Unreused, [Next]_vars, ~reused'
  PROVE  Unreused'
<1>1. ASSUME NEW s \in Sockets, NEW f \in Fds, OpenSocket(s, f)
      PROVE  Unreused'
  BY <1>1, OpenUnreused
<1>2. ASSUME reused' = reused
      PROVE  Unreused
  BY <1>2
<1>3. CASE UNCHANGED <<state, fd, table, tasks, task, reused>>
  BY <1>2, <1>3
  DEF Unreused, NotYetTracked, CallbackHome, TaskEntry, OwnEntries, Tasks, Queued,
      Executing, Tracked, OwnerOf, Open
<1>4. CASE BuildSets \/ Select \/ Accept \/ AcceptFails \/ EndHandler \/ StopInCallback
           \/ ClearInCallback \/ Stop \/ ClearRunning \/ WaitForRemoval \/ UNCHANGED vars
  BY <1>3, <1>4
  DEF BuildSets, Select, Accept, AcceptFails, EndHandler, StopInCallback, ClearInCallback,
      Stop, ClearRunning, WaitForRemoval, vars, ownerVars, workerVars, history
<1>5. CASE ProcessEvents
  BY <1>2, <1>5, ProcessUnreused DEF ProcessEvents, history
<1>6. CASE FetchTask
  BY <1>2, <1>6, FetchUnreused DEF FetchTask, history
<1>7. CASE FinishTask \/ HandlerThrows
  BY <1>2, <1>7, EndUnreused DEF FinishTask, HandlerThrows, history
<1>8. CASE UntrackInCallback \/ UntrackByUi
  <2>1. UNCHANGED <<state, fd, tasks, task, reused>> /\ UntrackServer
    BY <1>8 DEF UntrackInCallback, UntrackByUi, ownerVars, workerVars, history
  <2>2. ASSUME NEW f \in Fds, Untrack(f)
        PROVE  Unreused'
    BY <1>2, <2>1, <2>2, UntrackUnreused
  <2> QED
    BY <1>3, <2>1, <2>2, UntrackServerTable
<1>9. ASSUME NEW s \in Sockets, Track(s) \/ SetRdCallback(s)
      PROVE  Unreused'
  BY <1>2, <1>9, TrackUnreused DEF Track, SetRdCallback, history
<1>10. CASE CloseInCallback \/ CloseByUi
  <2>1. \A o \in Sockets : \/ state'[o] = state[o]
                           \/ state[o] \in Opened /\ state'[o] \in {"closed", "dropped"}
    BY <1>10 DEF CloseInCallback, CloseByUi, CloseServer, Listening, Open, Sockets
  <2> QED
    BY <1>2, <1>10, <2>1, AgeUnreused DEF CloseInCallback, CloseByUi, workerVars, history
<1>11. ASSUME NEW s \in Sockets, SetRunning(s) \/ CloseSocket(s) \/ Connect(s)
       PROVE  Unreused'
  <2>1. \A o \in Sockets : \/ state'[o] = state[o]
                           \/ state[o] = "armed" /\ state'[o] = "serving"
                           \/ state[o] \in Opened /\ state'[o] \in {"closed", "dropped"}
    BY <1>11 DEF SetRunning, CloseSocket, Connect, ownerVars, TypeOK, Opened
  <2> QED
    BY <1>2, <1>11, <2>1, AgeUnreused
    DEF SetRunning, CloseSocket, Connect, ownerVars, workerVars, history
<1>12. ASSUME NEW s \in Sockets, Disconnect(s)
       PROVE  Unreused'
  <2>1. fd[s] \in Fds
    BY DEF TypeOK
  <2> QED
    BY <1>2, <1>12, <2>1, UntrackUnreused DEF Disconnect, workerVars, history
<1> QED
  BY <1>1, <1>4, <1>5, <1>6, <1>7, <1>8, <1>9, <1>10, <1>11, <1>12
  DEF Next, PollThread, Worker, StopServer, StopByUi, Owner, Sockets

-----------------------------------------------------------------------------
(***************************************************************************)
(* Who stops the server.                                                   *)
(***************************************************************************)
\* The steps that change neither the life of a server nor what the threads do in
\* stop.
Outside == UNCHANGED <<running, ui, target, crossed>> /\ Stopping' = Stopping

LEMMA WorkerOutside ==
  ASSUME \/ PollThread \/ FetchTask \/ Accept \/ AcceptFails \/ EndHandler \/ HandlerThrows
         \/ FinishTask \/ UNCHANGED vars
  PROVE  /\ Outside /\ UNCHANGED <<state, fd>>
         /\ phase' \notin {"passed", "cleared", "close"} \/ UNCHANGED phase
BY DEF Outside, Stopping, PollThread, BuildSets, Select, ProcessEvents, FetchTask, Accept,
   AcceptFails, EndHandler, HandlerThrows, FinishTask, vars, ownerVars, serverVars,
   workerVars, history

LEMMA OwnerOutside ==
  ASSUME TypeOK, NEW s \in Sockets,
         \/ \E f \in Fds : OpenSocket(s, f)
         \/ Track(s) \/ SetRdCallback(s) \/ CloseSocket(s) \/ Disconnect(s) \/ Connect(s)
  PROVE  /\ Outside /\ UNCHANGED phase
         /\ \A o \in Sockets : state'[o] # state[o] =>
              o = s /\ state[o] \notin {"serving", "closed"} /\ state'[o] # "serving"
BY DEF Outside, Stopping, OpenSocket, Track, SetRdCallback, CloseSocket, Disconnect, Connect,
   ownerVars, serverVars, workerVars, history, TypeOK

LEMMA StepOneServer ==
  ASSUME TypeOK, OneServer, [Next]_vars
  PROVE  OneServer'
<1>1. ASSUME NEW s \in Sockets, NEW f \in Fds, OpenSocket(s, f)
      PROVE  OneServer'
  <2>1. state' = [state EXCEPT ![s] = "open"] /\ (s \in Servers => Listening = {})
    BY <1>1 DEF OpenSocket
  <2> QED
    BY <2>1 DEF OneServer, Listening, Open, TypeOK, Sockets
<1>2. CASE \A o \in Servers : Open(o)' => Open(o)
  BY <1>2 DEF OneServer
<1>3. CASE UNCHANGED state
  BY <1>2, <1>3 DEF Open
<1>4. CASE CloseInCallback \/ CloseByUi
  BY <1>2, <1>4 DEF CloseInCallback, CloseByUi, CloseServer, Open, Opened, Sockets
<1>5. ASSUME NEW s \in Sockets, Owner(s) \/ Disconnect(s) \/ Connect(s)
      PROVE  OneServer'
  BY <1>2, <1>5
  DEF Owner, Track, SetRdCallback, SetRunning, CloseSocket, Disconnect, Connect, ownerVars,
      Open, Opened, TypeOK, Sockets
<1>6. CASE StopInCallback \/ ClearInCallback \/ UntrackInCallback \/ Stop \/ ClearRunning
           \/ UntrackByUi \/ WaitForRemoval
  BY <1>3, <1>6
  DEF StopInCallback, ClearInCallback, UntrackInCallback, Stop, ClearRunning, UntrackByUi,
      WaitForRemoval, ownerVars
<1> QED
  BY <1>1, <1>3, <1>4, <1>5, <1>6, WorkerOutside
  DEF Next, Worker, StopServer, StopByUi, Sockets

LEMMA ServingIsOpen ==
  ASSUME OneServer, NEW s \in Serving
  PROVE  s \in Servers /\ Listening = {s} /\ Serving = {s}
BY DEF Serving, Listening, OneServer, Open, Opened

LEMMA HistoryKept ==
  ASSUME [Next]_vars
  PROVE  (reused => reused') /\ (crossed => crossed')
<1>1. CASE PollThread \/ FetchTask \/ Accept \/ AcceptFails \/ EndHandler \/ HandlerThrows
           \/ FinishTask \/ UNCHANGED vars
  BY <1>1
  DEF PollThread, BuildSets, Select, ProcessEvents, FetchTask, Accept, AcceptFails,
      EndHandler, HandlerThrows, FinishTask, vars, history
<1>2. CASE ClearInCallback \/ UntrackInCallback \/ CloseInCallback \/ StopByUi
  BY <1>2
  DEF ClearInCallback, UntrackInCallback, CloseInCallback, StopByUi, ClearRunning,
      UntrackByUi, WaitForRemoval, CloseByUi, history
<1>4. CASE StopInCallback \/ Stop
  <2>1. UNCHANGED reused
    BY <1>4 DEF StopInCallback, Stop
  <2>2. crossed => crossed'
    BY <1>4, Zenon DEF StopInCallback, Stop
  <2> QED
    BY <2>1, <2>2
<1>3. ASSUME NEW s \in Sockets,
             Owner(s) \/ Disconnect(s) \/ Connect(s)
      PROVE  (reused => reused') /\ (crossed => crossed')
  BY <1>3
  DEF Owner, Track, SetRdCallback, SetRunning, CloseSocket, Disconnect, Connect, history
<1>5. ASSUME NEW s \in Sockets, NEW f \in Fds, OpenSocket(s, f)
      PROVE  (reused => reused') /\ (crossed => crossed')
  <2>1. UNCHANGED crossed
    BY <1>5 DEF OpenSocket
  <2>2. reused => reused'
    BY <1>5, Zenon DEF OpenSocket
  <2> QED
    BY <2>1, <2>2
<1> QED
  BY <1>1, <1>2, <1>3, <1>4, <1>5 DEF Next, Worker, StopServer, Sockets

LEMMA StepStopsAlone ==
  ASSUME TypeOK, OneServer, ~crossed => StopsAlone, [Next]_vars, ~crossed'
  PROVE  StopsAlone'
<1>0. ~crossed /\ StopsAlone
  BY HistoryKept
<1>1. CASE Outside /\ UNCHANGED state
           /\ (phase' \notin {"passed", "cleared", "close"} \/ UNCHANGED phase)
  BY <1>0, <1>1 DEF StopsAlone, Outside, Stopping, Serving
<1>2. ASSUME NEW s \in Sockets,
             \/ \E f \in Fds : OpenSocket(s, f)
             \/ Track(s) \/ SetRdCallback(s) \/ CloseSocket(s) \/ Disconnect(s) \/ Connect(s)
      PROVE  StopsAlone'
  <2>1. /\ UNCHANGED <<running, ui, target, phase>>
        /\ \A o \in Servers : state[o] = "serving" <=> state'[o] = "serving"
    BY <1>2, OwnerOutside DEF Outside, Sockets
  <2>2. Serving' = Serving
    BY <2>1 DEF Serving
  <2> QED
    BY <1>0, <2>1, <2>2 DEF StopsAlone, Stopping
<1>3. ASSUME NEW s \in Sockets, SetRunning(s)
      PROVE  StopsAlone'
  <2>1. state[s] = "armed" /\ state' = [state EXCEPT ![s] = "serving"] /\ running'
        /\ UNCHANGED <<ui, target, phase>>
    BY <1>3 DEF SetRunning, workerVars
  <2>2. s \in Servers
    BY <1>3 DEF SetRunning
  <2>3. Serving = {}
    BY <2>1, <2>2, ServingIsOpen DEF Listening, Open, Opened, Serving
  <2>4. s \in Serving'
    BY <2>1, <2>2 DEF Serving, TypeOK
  <2>5. ui = "free" /\ ~Stopping
    BY <1>0, <2>3 DEF StopsAlone
  <2> QED
    BY <2>1, <2>4, <2>5 DEF StopsAlone, Stopping
<1>4. CASE StopInCallback
  <2>1. UNCHANGED <<running, ui, target, state>>
        /\ (phase' = "finish" \/ (running /\ phase' = "passed" /\ ui # "passed"))
    BY <1>0, <1>4 DEF StopInCallback, ownerVars, serverVars
  <2>2. Serving' = Serving
    BY <2>1 DEF Serving
  <2> QED
    BY <1>0, <2>1, <2>2 DEF StopsAlone, Stopping, TypeOK
<1>5. CASE ClearInCallback \/ UntrackInCallback
  <2>1. UNCHANGED <<ui, target, state>> /\ Stopping /\ Stopping' /\ ~running'
    BY <1>0, <1>5
    DEF ClearInCallback, UntrackInCallback, ownerVars, serverVars, Stopping, StopsAlone
  <2>2. Serving' = Serving
    BY <2>1 DEF Serving
  <2> QED
    BY <1>0, <2>1, <2>2 DEF StopsAlone
<1>6. CASE CloseInCallback
  BY <1>0, <1>6 DEF CloseInCallback, serverVars, StopsAlone, Stopping, TypeOK
<1>7. CASE Stop
  <2>1. /\ UNCHANGED <<running, phase, state>> /\ running /\ ui' = "passed"
        /\ phase # "passed" /\ target' \in IF Listening = {} THEN {NoSocket} ELSE Listening
    BY <1>0, <1>7 DEF Stop, ownerVars, workerVars
  <2>2. PICK s \in Serving : TRUE
    BY <1>0, <2>1 DEF StopsAlone
  <2>3. target' = s /\ Serving' = Serving
    BY <2>1, <2>2, ServingIsOpen DEF Serving
  <2> QED
    BY <1>0, <2>1, <2>2, <2>3 DEF StopsAlone, Stopping
<1>8. CASE ClearRunning \/ UntrackByUi \/ WaitForRemoval
  <2>1. UNCHANGED <<target, phase, state>> /\ ui # "free" /\ ui' # "free" /\ ~running'
    BY <1>0, <1>8
    DEF ClearRunning, UntrackByUi, WaitForRemoval, ownerVars, workerVars, StopsAlone
  <2>2. Serving' = Serving
    BY <2>1 DEF Serving
  <2> QED
    BY <1>0, <2>1, <2>2 DEF StopsAlone, Stopping
<1>9. CASE CloseByUi
  BY <1>0, <1>9 DEF CloseByUi, workerVars, StopsAlone, Stopping
<1> QED
  BY <1>1, <1>2, <1>3, <1>4, <1>5, <1>6, <1>7, <1>8, <1>9, WorkerOutside
  DEF Next, Worker, StopServer, StopByUi, Owner, Sockets

-----------------------------------------------------------------------------
(***************************************************************************)
(* What is left of a server that was stopped.                              *)
(***************************************************************************)
LEMMA ClosedForGood ==
  ASSUME TypeOK, [Next]_vars, NEW s \in Sockets, state[s] = "closed"
  PROVE  state'[s] = "closed"
<1>1. CASE UNCHANGED state
  BY <1>1
<1>2. CASE CloseInCallback \/ CloseByUi
  BY <1>2 DEF CloseInCallback, CloseByUi, CloseServer, Listening, Open, Opened
<1>3. ASSUME NEW o \in Sockets,
             \/ \E f \in Fds : OpenSocket(o, f)
             \/ Owner(o) \/ Disconnect(o) \/ Connect(o)
      PROVE  state'[s] = "closed"
  BY <1>3
  DEF OpenSocket, Owner, Track, SetRdCallback, SetRunning, CloseSocket, Disconnect, Connect,
      ownerVars, TypeOK
<1>4. CASE StopInCallback \/ ClearInCallback \/ UntrackInCallback \/ Stop \/ ClearRunning
           \/ UntrackByUi \/ WaitForRemoval
  BY <1>1, <1>4
  DEF StopInCallback, ClearInCallback, UntrackInCallback, Stop, ClearRunning, UntrackByUi,
      WaitForRemoval, ownerVars
<1> QED
  BY <1>1, <1>2, <1>3, <1>4, WorkerOutside DEF Next, Worker, StopServer, StopByUi, Sockets

\* Only the owner of a socket brings an entry into the table, or a callback.
EntriesLeave == \A f \in Fds : Tracked(f)' => Tracked(f) /\ table'[f].cb = table[f].cb

LEMMA StepEntries ==
  ASSUME TypeOK, WorkerHasTask, [Next]_vars
  PROVE  EntriesLeave \/ \E s \in Sockets : Track(s) \/ SetRdCallback(s)
<1>1. CASE UNCHANGED table
  BY <1>1 DEF EntriesLeave, Tracked
<1>2. ASSUME NEW f \in Fds, Untrack(f)
      PROVE  EntriesLeave
  BY <1>2, UntrackTable DEF EntriesLeave, Executing, Tracked
<1>3. CASE UntrackInCallback \/ UntrackByUi
  BY <1>1, <1>2, <1>3, UntrackServerTable DEF UntrackInCallback, UntrackByUi
<1>4. CASE ProcessEvents
  BY <1>4, ProcessTable DEF EntriesLeave, Tracked
<1>5. CASE FinishTask
  <2>1. \A f \in Fds : Tracked(f)' => Tracked(f) /\ table'[f].cb = table[f].cb
    BY <1>5, FinishEntries
  <2> QED
    BY <2>1 DEF EntriesLeave
<1>6. ASSUME NEW s \in Sockets, Disconnect(s)
      PROVE  EntriesLeave
  <2>1. PICK f \in Fds : f = fd[s]
    BY DEF TypeOK
  <2>2. Untrack(f)
    BY <1>6, <2>1 DEF Disconnect
  <2> QED
    BY <1>2, <2>2
<1>7. ASSUME NEW s \in Sockets,
             \/ \E f \in Fds : OpenSocket(s, f)
             \/ SetRunning(s) \/ CloseSocket(s) \/ Connect(s)
      PROVE  EntriesLeave
  <2>1. UNCHANGED table
    BY <1>7 DEF OpenSocket, SetRunning, CloseSocket, Connect
  <2> QED
    BY <2>1 DEF EntriesLeave, Tracked
<1>8. CASE \/ BuildSets \/ Select \/ FetchTask \/ Accept \/ AcceptFails \/ EndHandler
           \/ HandlerThrows \/ StopInCallback \/ ClearInCallback \/ CloseInCallback \/ Stop
           \/ ClearRunning \/ WaitForRemoval \/ CloseByUi \/ UNCHANGED vars
  BY <1>1, <1>8
  DEF BuildSets, Select, FetchTask, Accept, AcceptFails, EndHandler, HandlerThrows,
      StopInCallback, ClearInCallback, CloseInCallback, Stop, ClearRunning, WaitForRemoval,
      CloseByUi, vars
<1> QED
  BY <1>3, <1>4, <1>5, <1>6, <1>7, <1>8
  DEF Next, PollThread, Worker, StopServer, StopByUi, Owner, Sockets

LEMMA UiAndTarget ==
  ASSUME [Next]_vars
  PROVE  \/ UNCHANGED <<ui, target>>
         \/ ui' \notin {"free", "close"}
         \/ WaitForRemoval \/ CloseByUi
<1>1. ASSUME NEW s \in Sockets,
             \/ \E f \in Fds : OpenSocket(s, f)
             \/ Owner(s) \/ Disconnect(s) \/ Connect(s)
      PROVE  UNCHANGED <<ui, target>>
  BY <1>1
  DEF OpenSocket, Owner, Track, SetRdCallback, SetRunning, CloseSocket, Disconnect, Connect,
      serverVars
<1>2. CASE StopServer
  BY <1>2
  DEF StopServer, StopInCallback, ClearInCallback, UntrackInCallback, CloseInCallback,
      serverVars
<1>3. CASE Stop \/ ClearRunning \/ UntrackByUi
  BY <1>3 DEF Stop, ClearRunning, UntrackByUi
<1> QED
  BY <1>1, <1>2, <1>3, WorkerOutside DEF Next, Worker, StopByUi, Outside, Sockets

LEMMA StepTargetGone ==
  ASSUME TypeOK, WorkerHasTask, ~reused => Unreused, ~crossed => StopsAlone,
         ~reused /\ ~crossed => TargetGone, [Next]_vars, ~reused', ~crossed'
  PROVE  TargetGone'
<1>0. Unreused /\ StopsAlone /\ TargetGone
  BY HistoryKept
<1>1. SUFFICES ASSUME target' # NoSocket, ui' \in {"free", "close"}
               PROVE  /\ \A f \in Fds : Tracked(f)' => table'[f].cb # target'
                      /\ ui' = "free" => state'[target'] = "closed"
  BY DEF TargetGone
<1>2. CASE WaitForRemoval
  <2>1. UNCHANGED <<table, target>> /\ target \in Serving /\ ui' = "close"
    BY <1>0, <1>2 DEF WaitForRemoval, StopsAlone
  <2>2. target \in Listening /\ ~Tracked(fd[target])
    BY <1>2, <2>1 DEF WaitForRemoval, Serving, Listening, Open, Opened
  <2>3. \A f \in Fds : Tracked(f) => table[f].cb # target
    BY <1>0, <1>1, <2>1, <2>2 DEF Unreused, CallbackHome
  <2> QED
    BY <2>1, <2>3 DEF Tracked
<1>3. CASE CloseByUi
  <2>1. UNCHANGED <<table, target>> /\ target \in Serving /\ ui = "close"
    BY <1>0, <1>3 DEF CloseByUi, StopsAlone
  <2>2. state'[target] = "closed"
    BY <1>3, <2>1 DEF CloseByUi, CloseServer, Serving, Listening, Open, Opened, Sockets
  <2> QED
    BY <1>0, <1>1, <2>1, <2>2 DEF TargetGone, Tracked
<1>4. CASE UNCHANGED <<ui, target>>
  <2>1. /\ \A f \in Fds : Tracked(f) => table[f].cb # target
        /\ ui = "free" => state[target] = "closed"
        /\ target \in Servers
    BY <1>0, <1>1, <1>4 DEF TargetGone, TypeOK
  <2>2. ui' = "free" => state'[target'] = "closed"
    BY <1>4, <2>1, ClosedForGood DEF Sockets
  <2>3. CASE EntriesLeave
    BY <1>4, <2>1, <2>2, <2>3 DEF EntriesLeave
  <2>4. ASSUME NEW s \in Sockets, Track(s) \/ SetRdCallback(s)
        PROVE  \A f \in Fds : Tracked(f)' => table'[f].cb # target
    <3>1. s # target /\ fd[s] \in Fds
      <4>1. state[s] \in {"open", "tracked"}
        BY <2>4 DEF Track, SetRdCallback
      <4>2. state[target] \in {"closed", "serving"}
        BY <1>0, <1>1, <1>4, <2>1 DEF StopsAlone, Serving
      <4> QED
        BY <4>1, <4>2 DEF TypeOK
    <3>2. \A f \in Fds \ {fd[s]} : table'[f] = table[f]
      BY <2>4, <3>1 DEF Track, SetRdCallback, TypeOK
    <3>3. table'[fd[s]].cb \in {NoSocket, s}
      <4>1. table[fd[s]] \in Entry /\ Fresh \in Entry
        BY <3>1, EntryFacts DEF TypeOK
      <4> QED
        BY <2>4, <3>1, <4>1 DEF Track, SetRdCallback, TypeOK, Entry, Fresh
    <3> QED
      BY <1>1, <1>4, <2>1, <3>1, <3>2, <3>3 DEF Tracked
  <2> QED
    BY <1>4, <2>2, <2>3, <2>4, StepEntries
<1> QED
  BY <1>1, <1>2, <1>3, <1>4, UiAndTarget

-----------------------------------------------------------------------------
(***************************************************************************)
(* The invariant, and what follows from it.                                *)
(***************************************************************************)
LEMMA InitInv == Init => IInv
<1> SUFFICES ASSUME Init PROVE IInv
  OBVIOUS
<1>1. OwnFds /\ NotYetTracked
  BY DEF Init, OwnFds, NotYetTracked, Open, Opened
<1>2. \A f \in Fds : ~Tracked(f)
  BY DEF Init, Tracked
<1>3. Tasks = {} /\ OwnEntries
  BY DEF Init, Tasks, Queued, OwnEntries
<1>4. OneServer /\ StopsAlone /\ TargetGone
  BY DEF Init, OneServer, StopsAlone, TargetGone, Stopping, Open, Opened, Sockets
<1> QED
  BY <1>1, <1>2, <1>3, <1>4, InitType
  DEF Init, IInv, WorkerHasTask, NotDeaf, Unreused, CallbackHome, TaskEntry, Executing

LEMMA NextInv == IInv /\ [Next]_vars => IInv'
BY NextType, StepOwnFds, StepWorkerHasTask, StepNotDeaf, StepUnreused, StepOneServer,
   StepStopsAlone, StepTargetGone
DEF IInv

LEMMA InvQuiet == IInv => QuietAfterWait
<1> SUFFICES ASSUME IInv, ~reused, ~crossed, ui \in {"free", "close"},
                    NEW t \in Tasks, t.cb = target
             PROVE  FALSE
  BY DEF QuietAfterWait, Quiescent
<1>1. t.fd \in Fds /\ Tracked(t.fd) /\ table[t.fd].cb = target
  BY TasksType DEF IInv, Unreused, TaskEntry, Executing, Task
<1>2. target # NoSocket
  BY TasksType, SocketsAssumption DEF IInv, Task
<1> QED
  BY <1>1, <1>2 DEF IInv, TargetGone

LEMMA InvOneTask == IInv => OneTaskAtATime
<1> SUFFICES ASSUME IInv, ~reused PROVE OneTaskAtATime
  BY DEF OneTaskAtATime
<1>1. \A t \in Tasks : t.fd \in Fds /\ t.cb \in Sockets /\ t.fd = fd[t.cb]
  <2> SUFFICES ASSUME NEW t \in Tasks
               PROVE  t.fd \in Fds /\ t.cb \in Sockets /\ t.fd = fd[t.cb]
    OBVIOUS
  <2>1. t.fd \in Fds /\ t.cb \in Sockets /\ t.cb # NoSocket
    BY TasksType, SocketsAssumption DEF IInv, Task
  <2>2. Tracked(t.fd) /\ table[t.fd].cb = t.cb
    BY DEF IInv, Unreused, TaskEntry, Executing
  <2> QED
    BY <2>1, <2>2 DEF IInv, Unreused, CallbackHome
<1>2. \A i \in DOMAIN tasks : tasks[i] \in Tasks
  BY DEF Tasks, Queued
<1>3. \A i, j \in DOMAIN tasks : i # j => tasks[i].cb # tasks[j].cb
  BY <1>1, <1>2 DEF IInv, Unreused, OwnEntries
<1>4. \A i \in DOMAIN tasks : tasks[i].cb # task.cb
  <2>1. CASE task = NoTask
    BY <1>1, <1>2, <2>1, SocketsAssumption DEF NoTask
  <2>2. CASE task # NoTask
    BY <1>1, <1>2, <2>2 DEF IInv, Unreused, OwnEntries, Tasks
  <2> QED
    BY <2>1, <2>2
<1> QED
  BY <1>3, <1>4 DEF OneTaskAtATime

\* The invariant holds in every state.
THEOREM InvAlways == Spec => []IInv
BY InitInv, NextInv, PTL DEF Spec

\* For any number of servers, clients and descriptors, no callback is queued or
\* runs twice at a time, unless a descriptor was given out while it was in use.
THEOREM OneTask == Spec => []OneTaskAtATime
BY InvAlways, InvOneTask, PTL

\* When wait_for_removal has returned, no callback of the server the UI thread
\* stopped is queued or runs, under the same condition, unless its callback called
\* stop too and both threads passed the test of m_is_running.
THEOREM Quiet == Spec => []QuietAfterWait
BY InvAlways, InvQuiet, PTL

\* No entry stays executing without its task, unless a callback threw.
THEOREM NeverDeaf == Spec => []NotDeaf
<1>1. IInv => NotDeaf
  BY DEF IInv
<1> QED
  BY <1>1, InvAlways, PTL
=============================================================================
