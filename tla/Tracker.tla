------------------------------ MODULE Tracker ------------------------------
(***************************************************************************)
(* The network side of a set of IsenCoin processes: Tracker with its list  *)
(* of nodes, its server and its client threads, and the part of the main   *)
(* window and of Chain::fetch_genesis that drives it.                      *)
(*                                                                         *)
(* In each process there are the UI thread, the one worker thread of       *)
(* tacopie, in which the server handles one connection at a time, the      *)
(* detached threads of add_node, and the mining threads, which propagate   *)
(* the blocks they mine.  All of them read and write m_nodes without a     *)
(* lock; an operation on the vector (the search, push_back, erase) is one  *)
(* step.                                                                   *)
(*                                                                         *)
(* A client is one use of a tcp_client object: a thread of add_node, or    *)
(* one call of propagate.  It opens connections, which wait in the backlog *)
(* of a listening socket until the server accepts them.                    *)
(***************************************************************************)
EXTENDS Integers, Sequences, FiniteSets

CONSTANTS
  Procs,        \* the processes, one on each host
  Ports,        \* the ports a tracker may use
  DEFAULT_PORT, \* the port a process starts with
  Clients,      \* the clients of the behaviour; bounds it
  NoPort, NoClient

ASSUME ProcsAssumption   == IsFiniteSet(Procs) /\ Procs # {}
ASSUME PortsAssumption   == DEFAULT_PORT \in Ports /\ NoPort \notin Ports
ASSUME ClientsAssumption == IsFiniteSet(Clients) /\ NoClient \notin Clients

VARIABLES
  alive,      \* the process runs
  port,       \* Tracker::m_port
  nodes,      \* Tracker::m_nodes
  running,    \* tcp_server::m_is_running
  listen,     \* the port the server's socket listens on
  bare,       \* fetch_genesis has emptied Chain::m_blocks
  backlog,    \* the connections that wait to be accepted
  conn,       \* the connection the server is handling
  srv,        \* where the server's callback is
  ui,         \* where the UI thread is, when it is not free
  pc,         \* where each client is
  local,      \* the variables of each client
  announced,  \* history: the ports a process has put in a "hello"
  disturbed   \* history: a node left a list, or changed its port

procVars   == <<alive, port, nodes, running, listen, bare>>
serverVars == <<backlog, conn, srv>>
clientVars == <<pc, local>>
history    == <<announced, disturbed>>
vars == <<procVars, serverVars, ui, clientVars, history>>

-----------------------------------------------------------------------------
Node == [host : Procs, port : Ports]

\* A connection, with the process it comes from and what it carries: the port
\* of a "hello" is NoPort until the client has sent it.
Connection == [client : Clients, from : Procs, port : Ports \cup {NoPort},
               body : {"hello", "block", "ask_block"}]
NoConnection == [client |-> NoClient, body |-> "none"]

\* The variables of a client: its process, the node it connects to, the state of
\* the connection and the port it was answered; for a propagate, its message,
\* the range it iterates over and the iterator, and whether the UI thread waits.
Local == [owner : Procs, target : Node, link : {"none", "open", "shut", "reset"},
          heard : Ports \cup {NoPort}, body : {"block", "ask_block"},
          list : Seq(Node), at : Nat \ {0}, ui : BOOLEAN]
Fresh == LET n == CHOOSE n \in Procs : TRUE
         IN  [owner |-> n, target |-> [host |-> n, port |-> DEFAULT_PORT],
              link |-> "none", heard |-> NoPort, body |-> "block",
              list |-> <<>>, at |-> 1, ui |-> FALSE]

Handshaking == {"connect", "hello", "wait", "check", "push"}
Ended       == {"idle", "done"}

\* contains_node compares the address and the port.
contains_node(n, node) == \E i \in DOMAIN nodes[n] : nodes[n][i] = node

push_back(n, node) == nodes' = [nodes EXCEPT ![n] = Append(@, node)]

erase(s, i) == SubSeq(s, 1, i - 1) \o SubSeq(s, i + 1, Len(s))

\* A process listens where the node says.
Up(node) == listen[node.host] = node.port

Pending(n) == {backlog[n][i].client : i \in DOMAIN backlog[n]}

\* The other end of the connections of these clients is closed.
Close(clients, how) ==
  [c \in Clients |-> IF c \in clients /\ local[c].link = "open"
                     THEN [local[c] EXCEPT !.link = how] ELSE local[c]]

Go(c, from, to) == pc[c] = from /\ pc' = [pc EXCEPT ![c] = to]

\* A client that ends drops its variables.
End(c, from) == Go(c, from, "done") /\ local' = [local EXCEPT ![c] = Fresh]

\* An exception nobody catches, or a signal: the threads of n are gone, and the
\* connections to it are reset.
Die(n) ==
  /\ alive' = [alive EXCEPT ![n] = FALSE]
  /\ nodes' = [nodes EXCEPT ![n] = <<>>]
  /\ running' = [running EXCEPT ![n] = FALSE]
  /\ listen' = [listen EXCEPT ![n] = NoPort]
  /\ backlog' = [backlog EXCEPT ![n] = <<>>]
  /\ conn' = [conn EXCEPT ![n] = NoConnection]
  /\ srv' = [srv EXCEPT ![n] = "idle"]
  /\ ui' = [ui EXCEPT ![n] = "free"]
  /\ LET own    == {c \in Clients : pc[c] \notin Ended /\ local[c].owner = n}
         others == Close(Pending(n) \cup {conn[n].client}, "reset")
     IN  /\ pc' = [c \in Clients |-> IF c \in own THEN "done" ELSE pc[c]]
         /\ local' = [c \in Clients |-> IF c \in own THEN Fresh ELSE others[c]]
  /\ disturbed' = TRUE
  /\ UNCHANGED <<port, bare, announced>>

-----------------------------------------------------------------------------
Init ==
  /\ alive = [n \in Procs |-> TRUE]
  /\ port = [n \in Procs |-> DEFAULT_PORT]
  /\ nodes = [n \in Procs |-> <<>>]
  /\ running = [n \in Procs |-> TRUE]
  /\ listen = [n \in Procs |-> DEFAULT_PORT]
  /\ bare = [n \in Procs |-> FALSE]
  /\ backlog = [n \in Procs |-> <<>>]
  /\ conn = [n \in Procs |-> NoConnection]
  /\ srv = [n \in Procs |-> "idle"]
  /\ ui = [n \in Procs |-> "free"]
  /\ pc = [c \in Clients |-> "idle"]
  /\ local = [c \in Clients |-> Fresh]
  /\ announced = [n \in Procs |-> {}]
  /\ disturbed = FALSE

\* A process is killed.
Kill(n) == alive[n] /\ Die(n)

\* main: the Tracker starts its server, with an empty list, on the default port.
Restart(n) ==
  /\ ~alive[n]
  /\ alive' = [alive EXCEPT ![n] = TRUE]
  /\ port' = [port EXCEPT ![n] = DEFAULT_PORT]
  /\ running' = [running EXCEPT ![n] = TRUE]
  /\ listen' = [listen EXCEPT ![n] = DEFAULT_PORT]
  /\ bare' = [bare EXCEPT ![n] = FALSE]
  /\ UNCHANGED <<nodes, serverVars, ui, clientVars, history>>

-----------------------------------------------------------------------------
(***************************************************************************)
(* add_node: called for config.vili at start, by the window "Add Node" and *)
(* for a "peer" message.  A known node is ignored.                         *)
(***************************************************************************)
AddNode(n, node, c) ==
  /\ alive[n]
  /\ ~contains_node(n, node)
  /\ Go(c, "idle", "connect")
  /\ local' = [local EXCEPT ![c].owner = n, ![c].target = node]
  /\ UNCHANGED <<procVars, serverVars, ui, history>>

Connect(c) ==
  /\ Go(c, "connect", "hello")
  /\ Up(local[c].target)
  /\ backlog' = [backlog EXCEPT ![local[c].target.host] =
                   Append(@, [client |-> c, from |-> local[c].owner,
                              port |-> NoPort, body |-> "hello"])]
  /\ local' = [local EXCEPT ![c].link = "open"]
  /\ UNCHANGED <<procVars, conn, srv, ui, history>>

\* Nobody listens, or the connection times out.
ConnectFails(c) ==
  /\ End(c, "connect")
  /\ UNCHANGED <<procVars, serverVars, ui, history>>

\* The bytes of the message arrive in the connection, wherever it waits.
SendHello(c) ==
  LET p == port[local[c].owner]
      Filled(k) == IF k.client = c THEN [k EXCEPT !.port = p] ELSE k
  IN
  /\ Go(c, "hello", "wait")
  /\ backlog' = [n \in Procs |-> [i \in DOMAIN backlog[n] |-> Filled(backlog[n][i])]]
  /\ conn' = [n \in Procs |-> Filled(conn[n])]
  /\ announced' = [announced EXCEPT ![local[c].owner] = @ \cup {p}]
  /\ UNCHANGED <<procVars, srv, ui, local, disturbed>>

\* Only connect is in the try block: the exception of a send on a connection
\* that was reset leaves the detached thread.
SendHelloFails(c) ==
  /\ pc[c] = "hello"
  /\ local[c].link = "reset"
  /\ Die(local[c].owner)

\* Variant: the port of the answer is not compared.
RecvHello_any_port(c) ==
  /\ \/ /\ local[c].heard # NoPort
        /\ Go(c, "wait", "check")
        /\ UNCHANGED local
     \/ /\ local[c].heard = NoPort
        /\ local[c].link \in {"shut", "reset"}
        /\ End(c, "wait")
  /\ UNCHANGED <<procVars, serverVars, ui, history>>

\* recv_msg turns the error of a closed connection into an empty message, which
\* use_msg refuses.
RecvHello(c) ==
  /\ \/ /\ local[c].heard = local[c].target.port
        /\ Go(c, "wait", "check")
        /\ UNCHANGED local
     \/ /\ local[c].heard \notin {local[c].target.port, NoPort}
        /\ End(c, "wait")
     \/ /\ local[c].heard = NoPort
        /\ local[c].link \in {"shut", "reset"}
        /\ End(c, "wait")
  /\ UNCHANGED <<procVars, serverVars, ui, history>>

CheckNode(c) ==
  /\ \/ /\ contains_node(local[c].owner, local[c].target)
        /\ End(c, "check")
     \/ /\ ~contains_node(local[c].owner, local[c].target)
        /\ Go(c, "check", "push")
        /\ UNCHANGED local
  /\ UNCHANGED <<procVars, serverVars, ui, history>>

PushNode(c) ==
  /\ End(c, "push")
  /\ push_back(local[c].owner, local[c].target)
  /\ UNCHANGED <<alive, port, running, listen, bare, serverVars, ui, history>>

-----------------------------------------------------------------------------
(***************************************************************************)
(* propagate: by the UI thread when a transaction is sent and in           *)
(* fetch_genesis, by a mining thread when a block is mined.                *)
(***************************************************************************)
StartPropagate(n, c, msg, byUi) ==
  /\ alive[n]
  /\ Go(c, "idle", "next")
  /\ local' = [local EXCEPT ![c].owner = n, ![c].list = nodes[n],
                            ![c].body = msg, ![c].ui = byUi]
  /\ byUi => ui[n] = "free"
  /\ ui' = IF byUi THEN [ui EXCEPT ![n] = "propagate"] ELSE ui
  /\ UNCHANGED <<alive, port, nodes, running, listen, serverVars, history>>

PropagateTransaction(n, c) == StartPropagate(n, c, "block", TRUE) /\ UNCHANGED bare

PropagateBlock(n, c) == StartPropagate(n, c, "block", FALSE) /\ UNCHANGED bare

\* "Force Sync" on a chain of at most two blocks (on a longer one nothing
\* happens): with nodes to ask, the blocks go and the first one is asked for.
FetchGenesis(n, c) ==
  /\ nodes[n] # <<>>
  /\ StartPropagate(n, c, "ask_block", TRUE)
  /\ bare' = [bare EXCEPT ![n] = TRUE]

\* Without nodes a new genesis block is mined.
FetchGenesisAlone(n) ==
  /\ alive[n]
  /\ ui[n] = "free"
  /\ nodes[n] = <<>>
  /\ bare' = [bare EXCEPT ![n] = FALSE]
  /\ UNCHANGED <<alive, port, nodes, running, listen, serverVars, ui, clientVars,
                 history>>

\* Some node of the range is still to come.
Propagating(c) == pc[c] = "next" /\ local[c].at <= Len(local[c].list)

\* The next node is sent the message: connect, send, disconnect.
PropagateSend(c) ==
  /\ Propagating(c)
  /\ LET node == local[c].list[local[c].at] IN
       /\ Up(node)
       /\ backlog' = [backlog EXCEPT ![node.host] =
                        Append(@, [client |-> c, from |-> local[c].owner,
                                   port |-> NoPort, body |-> local[c].body])]
  /\ local' = [local EXCEPT ![c].at = @ + 1]
  /\ UNCHANGED <<procVars, conn, srv, ui, pc, history>>

\* connect failed: Node::operator== holds of any two nodes, and remove takes all
\* of them.  The loop goes on over the range it started with.
PropagateFail(c) ==
  /\ Propagating(c)
  /\ nodes' = [nodes EXCEPT ![local[c].owner] = <<>>]
  /\ local' = [local EXCEPT ![c].at = @ + 1]
  /\ disturbed' = TRUE
  /\ UNCHANGED <<alive, port, running, listen, bare, serverVars, ui, pc,
                 announced>>

\* The vector has changed under the iterators: what the loop reads is what the
\* node was, or nothing a connection can be made to, or memory that is no node.
PropagateStale(c) ==
  /\ Propagating(c)
  /\ nodes[local[c].owner] # local[c].list
  /\ Die(local[c].owner)

EndPropagate(c) ==
  /\ ~Propagating(c)
  /\ End(c, "next")
  /\ ui' = IF local[c].ui THEN [ui EXCEPT ![local[c].owner] = "free"] ELSE ui
  /\ UNCHANGED <<procVars, serverVars, history>>

-----------------------------------------------------------------------------
(***************************************************************************)
(* The server: accept, recv_msg, handle_message, disconnect, one           *)
(* connection after the other.                                             *)
(***************************************************************************)
ServerGo(n, from, to) == srv[n] = from /\ srv' = [srv EXCEPT ![n] = to]

Accept(n) ==
  /\ running[n]
  /\ backlog[n] # <<>>
  /\ ServerGo(n, "idle", "recv")
  /\ conn' = [conn EXCEPT ![n] = Head(backlog[n])]
  /\ backlog' = [backlog EXCEPT ![n] = Tail(@)]
  /\ UNCHANGED <<procVars, ui, clientVars, history>>

\* Variant: the connection of a client that is gone is waited on.
RecvMsg_waits(n) ==
  /\ ServerGo(n, "recv", conn[n].body)
  /\ conn[n].body = "hello" => conn[n].port # NoPort
  /\ UNCHANGED <<procVars, backlog, conn, ui, clientVars, history>>

\* Variant: a "hello" is handled before its port has come.
RecvMsg_unchecked(n) ==
  /\ ServerGo(n, "recv", conn[n].body)
  /\ UNCHANGED <<procVars, backlog, conn, ui, clientVars, history>>

\* recv blocks until the client has sent or is gone.
RecvMsg(n) ==
  /\ \/ /\ ServerGo(n, "recv", conn[n].body)
        /\ conn[n].body = "hello" => conn[n].port # NoPort
     \/ /\ ServerGo(n, "recv", "disconnect")
        /\ conn[n].body = "hello"
        /\ conn[n].port = NoPort
        /\ pc[conn[n].client] = "done"
  /\ UNCHANGED <<procVars, backlog, conn, ui, clientVars, history>>

Sender(n) == [host |-> conn[n].from, port |-> conn[n].port]

\* A node that is in the list already is not answered.
AnswerHello(n) ==
  \/ /\ ServerGo(n, "hello", "disconnect")
     /\ contains_node(n, Sender(n))
     /\ UNCHANGED <<procVars, backlog, conn, ui, clientVars, history>>
  \/ /\ ServerGo(n, "hello", "emplace")
     /\ ~contains_node(n, Sender(n))
     /\ local' = [local EXCEPT ![conn[n].client].heard =
                    IF pc[conn[n].client] = "wait" THEN port[n] ELSE @]
     /\ announced' = [announced EXCEPT ![n] = @ \cup {port[n]}]
     /\ UNCHANGED <<procVars, backlog, conn, ui, pc, disturbed>>

\* Variant: the server does not keep the node it answered.
EmplaceNode_left_out(n) ==
  /\ ServerGo(n, "emplace", "disconnect")
  /\ UNCHANGED <<procVars, backlog, conn, ui, clientVars, history>>

EmplaceNode(n) ==
  /\ ServerGo(n, "emplace", "disconnect")
  /\ push_back(n, Sender(n))
  /\ UNCHANGED <<alive, port, running, listen, bare, backlog, conn, ui,
                 clientVars, history>>

\* A chain that has the block.  The answer is sent to the port the client called
\* from, where nobody listens.  The tacopie_error is no except::Exception: it
\* leaves handle_message, and tcp_server stops on it.
AnswerAskBlock(n) ==
  /\ ~bare[n]
  /\ ServerGo(n, "ask_block", "idle")
  /\ conn' = [conn EXCEPT ![n] = NoConnection]
  /\ IF running[n]
     THEN /\ running' = [running EXCEPT ![n] = FALSE]
          /\ listen' = [listen EXCEPT ![n] = NoPort]
          /\ backlog' = [backlog EXCEPT ![n] = <<>>]
          /\ local' = Close(Pending(n), "reset")
     ELSE UNCHANGED <<running, listen, backlog, local>>
  /\ UNCHANGED <<alive, port, nodes, bare, ui, pc, history>>

\* A chain that has not: "no_block" goes to a client that is gone.
AnswerNoBlock(n) ==
  /\ bare[n]
  /\ ServerGo(n, "ask_block", "disconnect")
  /\ UNCHANGED <<procVars, backlog, conn, ui, clientVars, history>>

\* A transaction or a block.  What it does to the chain is not part of this
\* module, but that a block may give an empty chain its first block again (or
\* end the process, which Kill does: set_new_block pops from an empty vector).
UseMsg(n) ==
  /\ ServerGo(n, "block", "disconnect")
  /\ \E e \in {bare[n], FALSE} : bare' = [bare EXCEPT ![n] = e]
  /\ UNCHANGED <<alive, port, nodes, running, listen, backlog, conn, ui,
                 clientVars, history>>

\* Variant: a connection that was answered is left open.
Disconnect_left_out(n) ==
  /\ ServerGo(n, "disconnect", "idle")
  /\ conn' = [conn EXCEPT ![n] = NoConnection]
  /\ UNCHANGED <<procVars, backlog, ui, clientVars, history>>

Disconnect(n) ==
  /\ ServerGo(n, "disconnect", "idle")
  /\ conn' = [conn EXCEPT ![n] = NoConnection]
  /\ local' = Close({conn[n].client}, "shut")
  /\ UNCHANGED <<procVars, backlog, ui, pc, history>>

-----------------------------------------------------------------------------
(***************************************************************************)
(* The main window: "Remove Node" and "Apply Port".                        *)
(***************************************************************************)

\* The selected index is uninitialised until a node is selected and stays when
\* the list shrinks; past the end, erase takes the last node.
RemoveNode(n) ==
  /\ alive[n]
  /\ ui[n] = "free"
  /\ \E i \in DOMAIN nodes[n] : nodes' = [nodes EXCEPT ![n] = erase(@, i)]
  /\ disturbed' = TRUE
  /\ UNCHANGED <<alive, port, running, listen, bare, serverVars, ui, clientVars,
                 announced>>

UiGo(n, from, to) == ui[n] = from /\ ui' = [ui EXCEPT ![n] = to]

SetPort(n, p) ==
  /\ alive[n]
  /\ UiGo(n, "free", "restart")
  /\ port' = [port EXCEPT ![n] = p]
  /\ disturbed' = TRUE
  /\ UNCHANGED <<alive, nodes, running, listen, bare, serverVars, clientVars,
                 announced>>

\* start_server: a server that runs takes no more connections ...
StopServer(n) ==
  /\ UiGo(n, "restart", IF running[n] THEN "stopping" ELSE "starting")
  /\ running' = [running EXCEPT ![n] = FALSE]
  /\ UNCHANGED <<alive, port, nodes, listen, bare, serverVars, clientVars,
                 history>>

\* ... and its socket is closed once the callback has returned.
CloseServer(n) ==
  /\ srv[n] = "idle"
  /\ UiGo(n, "stopping", "starting")
  /\ listen' = [listen EXCEPT ![n] = NoPort]
  /\ backlog' = [backlog EXCEPT ![n] = <<>>]
  /\ local' = Close(Pending(n), "reset")
  /\ UNCHANGED <<alive, port, nodes, running, bare, conn, srv, pc, history>>

StartServer(n) ==
  /\ UiGo(n, "starting", "free")
  /\ running' = [running EXCEPT ![n] = TRUE]
  /\ listen' = [listen EXCEPT ![n] = port[n]]
  /\ UNCHANGED <<alive, port, nodes, bare, serverVars, clientVars, history>>

\* Another program has the port, or connections of the old server linger on it:
\* the exception of bind leaves main.
StartServerFails(n) == ui[n] = "starting" /\ Die(n)

-----------------------------------------------------------------------------
ClientMoves(c) ==
  \/ Connect(c)   \/ ConnectFails(c)  \/ SendHello(c) \/ SendHelloFails(c)
  \/ RecvHello(c) \/ CheckNode(c)     \/ PushNode(c)
  \/ PropagateSend(c) \/ PropagateFail(c) \/ PropagateStale(c) \/ EndPropagate(c)

ServerMoves(n) ==
  \/ Accept(n) \/ RecvMsg(n) \/ AnswerHello(n) \/ EmplaceNode(n)
  \/ AnswerAskBlock(n) \/ AnswerNoBlock(n) \/ UseMsg(n) \/ Disconnect(n)

UiMoves(n) ==
  StopServer(n) \/ CloseServer(n) \/ StartServer(n) \/ StartServerFails(n)

Begin(n) ==
  \/ \E node \in Node, c \in Clients : AddNode(n, node, c)
  \/ \E c \in Clients : \/ PropagateTransaction(n, c) \/ PropagateBlock(n, c)
                        \/ FetchGenesis(n, c)
  \/ FetchGenesisAlone(n) \/ RemoveNode(n)
  \/ \E p \in Ports : SetPort(n, p)

Next ==
  \/ \E n \in Procs : \/ Kill(n) \/ Restart(n) \/ Begin(n)
                      \/ ServerMoves(n) \/ UiMoves(n)
  \/ \E c \in Clients : ClientMoves(c)

Spec == Init /\ [][Next]_vars

\* The scheduler runs every thread.
Fairness ==
  /\ \A c \in Clients : WF_vars(ClientMoves(c))
  /\ \A n \in Procs : WF_vars(ServerMoves(n)) /\ WF_vars(UiMoves(n))

FairSpec == Spec /\ Fairness

-----------------------------------------------------------------------------
TypeOK ==
  /\ alive \in [Procs -> BOOLEAN]
  /\ port \in [Procs -> Ports]
  /\ nodes \in [Procs -> Seq(Node)]
  /\ running \in [Procs -> BOOLEAN]
  /\ listen \in [Procs -> Ports \cup {NoPort}]
  /\ bare \in [Procs -> BOOLEAN]
  /\ backlog \in [Procs -> Seq(Connection)]
  /\ conn \in [Procs -> Connection \cup {NoConnection}]
  /\ srv \in [Procs -> {"idle", "recv", "hello", "emplace", "ask_block", "block",
                        "disconnect"}]
  /\ \A n \in Procs : srv[n] # "idle" => conn[n] \in Connection
  /\ \A n \in Procs : srv[n] \in {"hello", "emplace"} => conn[n].port \in Ports
  /\ ui \in [Procs -> {"free", "propagate", "restart", "stopping", "starting"}]
  /\ pc \in [Clients -> Handshaking \cup Ended \cup {"next"}]
  /\ local \in [Clients -> Local]
  /\ announced \in [Procs -> SUBSET Ports]
  /\ disturbed \in BOOLEAN

\* Every node of a list has named its port itself: an address somebody typed is
\* listed only after the process behind it has answered with the port it was
\* called on, even while that process is moving to another port.
PeersVouched ==
  \A n \in Procs : \A i \in DOMAIN nodes[n] :
    nodes[n][i].port \in announced[nodes[n][i].host]

Quiet ==
  /\ \A n \in Procs : srv[n] = "idle"
  /\ \A c \in Clients : pc[c] \notin Handshaking

Knows(n, m) == contains_node(n, [host |-> m, port |-> port[m]])

\* Handshakes in both directions, at the same time and with oneself, leave two
\* processes that know each other or do not, as long as none was removed, died
\* or changed its port.
HandshakeSymmetric ==
  Quiet /\ ~disturbed => \A n, m \in Procs : Knows(n, m) <=> Knows(m, n)

\* Every thread of add_node and every propagate ends: nothing waits for an
\* answer that will not come, whatever dies, stops or restarts on the other side.
ClientsEnd == \A c \in Clients : <>[](pc[c] \in Ended)

\* "Apply Port" does not hang in tcp_server::stop, which waits for the callback.
UiComesBack == \A n \in Procs : []<>(ui[n] # "stopping")

-----------------------------------------------------------------------------
(***************************************************************************)
(* What the source says of the program, and the behaviours refute.         *)
(***************************************************************************)

\* "Asked block {} found in Blockchain, sending.. {}": the server goes on after
\* it has sent a block.
ServerKeepsServing ==
  \A n \in Procs : alive[n] /\ ui[n] = "free" => running[n]
=============================================================================
