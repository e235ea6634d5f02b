--------------------------- MODULE Tracker_proofs ---------------------------
(***************************************************************************)
(* Theorems about Tracker, for every number of processes, ports, clients.  *)
(***************************************************************************)
EXTENDS Tracker, SequenceTheorems, TLAPS

LEMMA FreshType == Fresh \in Local
<1> DEFINE n == CHOOSE n \in Procs : TRUE
<1>1. n \in Procs
  BY ProcsAssumption
<1>2. [host |-> n, port |-> DEFAULT_PORT] \in Node
  BY <1>1, PortsAssumption DEF Node
<1> QED
  BY <1>1, <1>2 DEF Fresh, Local

\* What closing connections does to the variables of the clients.
LEMMA CloseType ==
  ASSUME local \in [Clients -> Local], NEW S, NEW how \in {"shut", "reset"}
  PROVE  Close(S, how) \in [Clients -> Local]
<1> SUFFICES ASSUME NEW c \in Clients
             PROVE  [local[c] EXCEPT !.link = how] \in Local
  BY DEF Close
<1> QED
  BY DEF Local

LEMMA InitType == Init => TypeOK
<1> SUFFICES ASSUME Init PROVE TypeOK
  OBVIOUS
<1>1. local \in [Clients -> Local]
  BY FreshType DEF Init
<1>2. nodes \in [Procs -> Seq(Node)] /\ backlog \in [Procs -> Seq(Connection)]
  BY DEF Init
<1>3. pc \in [Clients -> Handshaking \cup Ended \cup {"next"}]
  BY DEF Init, Ended
<1>4. listen \in [Procs -> Ports \cup {NoPort}] /\ port \in [Procs -> Ports]
  BY PortsAssumption DEF Init
<1> QED
  BY <1>1, <1>2, <1>3, <1>4 DEF Init, TypeOK

\* A process that dies.
LEMMA DieType ==
  ASSUME TypeOK, NEW n \in Procs, Die(n)
  PROVE  TypeOK'
<1>1. local' \in [Clients -> Local]
  <2>1. Close(Pending(n) \cup {conn[n].client}, "reset") \in [Clients -> Local]
    BY CloseType DEF TypeOK
  <2> QED
    BY <2>1, FreshType DEF Die
<1>2. pc' \in [Clients -> Handshaking \cup Ended \cup {"next"}]
  BY DEF Die, TypeOK, Ended
<1>3. /\ nodes' \in [Procs -> Seq(Node)]
      /\ backlog' \in [Procs -> Seq(Connection)]
  BY DEF Die, TypeOK
<1>4. /\ conn' \in [Procs -> Connection \cup {NoConnection}]
      /\ \A m \in Procs : srv'[m] # "idle" => conn'[m] \in Connection
      /\ \A m \in Procs : srv'[m] \in {"hello", "emplace"} => conn'[m].port \in Ports
  BY DEF Die, TypeOK
<1> QED
  BY <1>1, <1>2, <1>3, <1>4 DEF Die, TypeOK

\* Steps of a client that leave the processes and the servers alone.
LEMMA ClientType ==
  ASSUME TypeOK, NEW c \in Clients,
         \/ ConnectFails(c) \/ RecvHello(c) \/ CheckNode(c) \/ EndPropagate(c)
  PROVE  TypeOK'
<1>1. local' \in [Clients -> Local]
  BY FreshType DEF TypeOK, ConnectFails, RecvHello, CheckNode, EndPropagate, End
<1>2. pc' \in [Clients -> Handshaking \cup Ended \cup {"next"}]
  BY DEF TypeOK, ConnectFails, RecvHello, CheckNode, EndPropagate, End, Go,
         Handshaking, Ended
<1>3. ui' \in [Procs -> {"free", "propagate", "restart", "stopping", "starting"}]
  BY DEF TypeOK, ConnectFails, RecvHello, CheckNode, EndPropagate
<1> QED
  BY <1>1, <1>2, <1>3 DEF TypeOK, ConnectFails, RecvHello, CheckNode, EndPropagate,
     procVars, serverVars, history

LEMMA AddNodeType ==
  ASSUME TypeOK, NEW n \in Procs, NEW node \in Node, NEW c \in Clients,
         AddNode(n, node, c)
  PROVE  TypeOK'
<1>1. local' \in [Clients -> Local]
  <2>1. local[c] \in Local
    BY DEF TypeOK
  <2>2. [local[c] EXCEPT !.owner = n] \in Local
    BY <2>1 DEF Local
  <2>3. [[local[c] EXCEPT !.owner = n] EXCEPT !.target = node] \in Local
    BY <2>2 DEF Local
  <2> QED
    BY <2>3 DEF TypeOK, AddNode
<1>2. pc' \in [Clients -> Handshaking \cup Ended \cup {"next"}]
  BY DEF TypeOK, AddNode, Go, Handshaking
<1> QED
  BY <1>1, <1>2 DEF TypeOK, AddNode, procVars, serverVars, history

\* A connection that a client opens joins the queue.
LEMMA OpenType ==
  ASSUME TypeOK, NEW c \in Clients, Connect(c) \/ PropagateSend(c)
  PROVE  TypeOK'
<1>0. local[c] \in Local
  BY DEF TypeOK
<1>1. CASE Connect(c)
  <2>1. [client |-> c, from |-> local[c].owner, port |-> NoPort, body |-> "hello"]
          \in Connection
    BY <1>0 DEF Connection, Local
  <2>2. local[c].target.host \in Procs
    BY <1>0 DEF Local, Node
  <2>3. backlog' \in [Procs -> Seq(Connection)]
    BY <1>1, <2>1, <2>2 DEF TypeOK, Connect
  <2>4. local' \in [Clients -> Local]
    <3>1. [local[c] EXCEPT !.link = "open"] \in Local
      BY <1>0 DEF Local
    <3> QED
      BY <1>1, <3>1 DEF TypeOK, Connect
  <2>5. pc' \in [Clients -> Handshaking \cup Ended \cup {"next"}]
    BY <1>1 DEF TypeOK, Connect, Go, Handshaking
  <2> QED
    BY <1>1, <2>3, <2>4, <2>5 DEF TypeOK, Connect, procVars, history
<1>2. CASE PropagateSend(c)
  <2> DEFINE node == local[c].list[local[c].at]
             k == [client |-> c, from |-> local[c].owner, port |-> NoPort,
                   body |-> local[c].body]
  <2>1. k \in Connection
    BY <1>0 DEF Connection, Local
  <2>2. node \in Node
    BY <1>0, <1>2 DEF Local, PropagateSend, Propagating
  <2>3. backlog' = [backlog EXCEPT ![node.host] = Append(@, k)] /\ node.host \in Procs
    BY <1>2, <2>2 DEF PropagateSend, Node
  <2>4. backlog' \in [Procs -> Seq(Connection)]
    <3> HIDE DEF k, node
    <3> QED
      BY <2>1, <2>3 DEF TypeOK
  <2>5. local' \in [Clients -> Local]
    <3>1. [local[c] EXCEPT !.at = @ + 1] \in Local
      BY <1>0 DEF Local
    <3> QED
      BY <1>2, <3>1 DEF TypeOK, PropagateSend
  <2> QED
    BY <1>2, <2>4, <2>5 DEF TypeOK, PropagateSend, procVars, history
<1> QED
  BY <1>1, <1>2

\* The port of a "hello" arrives in the connection.
LEMMA SendHelloType ==
  ASSUME TypeOK, NEW c \in Clients, SendHello(c)
  PROVE  TypeOK'
<1> DEFINE p == port[local[c].owner]
           Filled(k) == IF k.client = c THEN [k EXCEPT !.port = p] ELSE k
<1>1. local[c] \in Local /\ local[c].owner \in Procs /\ p \in Ports
  BY DEF TypeOK, Local
<1>2. ASSUME NEW k \in Connection
      PROVE  Filled(k) \in Connection /\ (k.port \in Ports => Filled(k).port \in Ports)
  BY <1>1 DEF Connection
<1>3. Filled(NoConnection) = NoConnection
  BY ClientsAssumption DEF NoConnection
<1>4. /\ backlog' = [n \in Procs |-> [i \in DOMAIN backlog[n] |-> Filled(backlog[n][i])]]
      /\ conn' = [n \in Procs |-> Filled(conn[n])]
  BY DEF SendHello
<1> HIDE DEF Filled, p
<1>5. backlog' \in [Procs -> Seq(Connection)]
  <2> SUFFICES ASSUME NEW n \in Procs
               PROVE  [i \in DOMAIN backlog[n] |-> Filled(backlog[n][i])] \in Seq(Connection)
    BY <1>4
  <2>1. backlog[n] \in Seq(Connection)
    BY DEF TypeOK
  <2> QED
    BY <1>2, <2>1
<1>6. /\ conn' \in [Procs -> Connection \cup {NoConnection}]
      /\ \A n \in Procs : srv'[n] # "idle" => conn'[n] \in Connection
      /\ \A n \in Procs : srv'[n] \in {"hello", "emplace"} => conn'[n].port \in Ports
  <2>1. srv' = srv
    BY DEF SendHello
  <2> QED
    BY <1>2, <1>3, <1>4, <2>1 DEF TypeOK
<1>7. announced' \in [Procs -> SUBSET Ports]
  BY <1>1 DEF TypeOK, SendHello, p
<1>8. pc' \in [Clients -> Handshaking \cup Ended \cup {"next"}]
  BY DEF TypeOK, SendHello, Go, Handshaking
<1> QED
  BY <1>5, <1>6, <1>7, <1>8 DEF TypeOK, SendHello, procVars

LEMMA PushType ==
  ASSUME nodes \in [Procs -> Seq(Node)], NEW n \in Procs, NEW node \in Node,
         push_back(n, node)
  PROVE  nodes' \in [Procs -> Seq(Node)]
BY DEF push_back

LEMMA PushNodeType ==
  ASSUME TypeOK, NEW c \in Clients, PushNode(c)
  PROVE  TypeOK'
<1>1. local[c].owner \in Procs /\ local[c].target \in Node
  BY DEF TypeOK, Local
<1>2. nodes' \in [Procs -> Seq(Node)]
  BY <1>1, PushType DEF TypeOK, PushNode
<1>3. local' \in [Clients -> Local]
  BY FreshType DEF TypeOK, PushNode, End
<1>4. pc' \in [Clients -> Handshaking \cup Ended \cup {"next"}]
  BY DEF TypeOK, PushNode, End, Go, Ended
<1> QED
  BY <1>2, <1>3, <1>4 DEF TypeOK, PushNode, serverVars, history

LEMMA StartPropagateType ==
  ASSUME TypeOK, NEW n \in Procs, NEW c \in Clients,
         \/ PropagateTransaction(n, c) \/ PropagateBlock(n, c) \/ FetchGenesis(n, c)
  PROVE  TypeOK'
<1>1. PICK msg \in {"block", "ask_block"}, byUi \in BOOLEAN :
        StartPropagate(n, c, msg, byUi)
  BY DEF PropagateTransaction, PropagateBlock, FetchGenesis
<1>2. bare' \in [Procs -> BOOLEAN]
  BY DEF TypeOK, PropagateTransaction, PropagateBlock, FetchGenesis
<1>3. local' \in [Clients -> Local]
  <2> DEFINE l1 == [local[c] EXCEPT !.owner = n]
             l2 == [l1 EXCEPT !.list = nodes[n]]
             l3 == [l2 EXCEPT !.body = msg]
             l4 == [l3 EXCEPT !.ui = byUi]
  <2>1. local[c] \in Local /\ nodes[n] \in Seq(Node)
    BY DEF TypeOK
  <2>2. l1 \in Local
    BY <2>1 DEF Local
  <2>3. l2 \in Local
    <3> HIDE DEF l1
    <3> QED
      BY <2>1, <2>2 DEF Local
  <2>4. l3 \in Local
    <3> HIDE DEF l2
    <3> QED
      BY <2>3 DEF Local
  <2>5. l4 \in Local
    <3> HIDE DEF l3
    <3> QED
      BY <2>4 DEF Local
  <2>6. local' = [local EXCEPT ![c] = l4]
    BY <1>1 DEF StartPropagate, TypeOK
  <2> HIDE DEF l4
  <2> QED
    BY <2>5, <2>6 DEF TypeOK
<1>4. pc' \in [Clients -> Handshaking \cup Ended \cup {"next"}]
  BY <1>1 DEF TypeOK, StartPropagate, Go
<1>5. ui' \in [Procs -> {"free", "propagate", "restart", "stopping", "starting"}]
  BY <1>1 DEF TypeOK, StartPropagate
<1> QED
  BY <1>1, <1>2, <1>3, <1>4, <1>5 DEF TypeOK, StartPropagate, serverVars, history

LEMMA PropagateFailType ==
  ASSUME TypeOK, NEW c \in Clients, PropagateFail(c)
  PROVE  TypeOK'
<1>1. local' \in [Clients -> Local]
  <2>1. local[c] \in Local
    BY DEF TypeOK
  <2>2. [local[c] EXCEPT !.at = @ + 1] \in Local
    BY <2>1 DEF Local
  <2> QED
    BY <2>2 DEF TypeOK, PropagateFail
<1>2. nodes' \in [Procs -> Seq(Node)]
  <2>1. local[c].owner \in Procs /\ <<>> \in Seq(Node)
    BY DEF TypeOK, Local
  <2> QED
    BY <2>1 DEF TypeOK, PropagateFail
<1> QED
  BY <1>1, <1>2 DEF TypeOK, PropagateFail, serverVars

\* The main window and the start of a process.
LEMMA WindowType ==
  ASSUME TypeOK, NEW n \in Procs,
         \/ Restart(n) \/ FetchGenesisAlone(n)
         \/ \E p \in Ports : SetPort(n, p)
         \/ StopServer(n) \/ CloseServer(n) \/ StartServer(n)
  PROVE  TypeOK'
<1>1. CASE Restart(n)
  BY <1>1, PortsAssumption DEF TypeOK, Restart, serverVars, clientVars, history
<1>2. CASE FetchGenesisAlone(n)
  BY <1>2 DEF TypeOK, FetchGenesisAlone, serverVars, clientVars, history
<1>3. CASE \E p \in Ports : SetPort(n, p)
  BY <1>3 DEF TypeOK, SetPort, UiGo, serverVars, clientVars
<1>4. CASE StopServer(n)
  BY <1>4 DEF TypeOK, StopServer, UiGo, serverVars, clientVars, history
<1>5. CASE CloseServer(n)
  <2>1. local' \in [Clients -> Local]
    BY <1>5, CloseType DEF TypeOK, CloseServer
  <2>2. backlog' \in [Procs -> Seq(Connection)]
    BY <1>5 DEF TypeOK, CloseServer
  <2> QED
    BY <1>5, <2>1, <2>2 DEF TypeOK, CloseServer, UiGo, history
<1>6. CASE StartServer(n)
  BY <1>6 DEF TypeOK, StartServer, UiGo, serverVars, clientVars, history
<1> QED
  BY <1>1, <1>2, <1>3, <1>4, <1>5, <1>6

\* A list without one of its nodes is a list of nodes.
LEMMA EraseType ==
  ASSUME NEW s \in Seq(Node), NEW i \in DOMAIN s
  PROVE  /\ erase(s, i) \in Seq(Node)
         /\ \A j \in DOMAIN erase(s, i) : \E k \in DOMAIN s : erase(s, i)[j] = s[k]
<1> DEFINE l == SubSeq(s, 1, i - 1)
           r == SubSeq(s, i + 1, Len(s))
<1>1. i \in 1..Len(s) /\ Len(s) \in Nat
  OBVIOUS
<1>2. /\ l \in Seq(Node) /\ Len(l) = i - 1
      /\ \A j \in 1..(i - 1) : l[j] = s[j]
  BY <1>1
<1>3. /\ r \in Seq(Node) /\ Len(r) = Len(s) - i
      /\ \A j \in 1..(Len(s) - i) : r[j] = s[i + j]
  BY <1>1
<1>4. erase(s, i) = l \o r
  BY DEF erase
<1> HIDE DEF l, r
<1>5. /\ l \o r \in Seq(Node)
      /\ Len(l \o r) = Len(l) + Len(r)
      /\ \A j \in 1..(Len(l) + Len(r)) :
           (l \o r)[j] = IF j <= Len(l) THEN l[j] ELSE r[j - Len(l)]
  BY <1>2, <1>3, ConcatProperties, Zenon
<1>6. ASSUME NEW j \in 1..(Len(s) - 1)
      PROVE  \E k \in DOMAIN s : (l \o r)[j] = s[k]
  <2>1. j \in 1..(Len(l) + Len(r)) /\ Len(l) = i - 1 /\ DOMAIN s = 1..Len(s)
    BY <1>1, <1>2, <1>3
  <2>2. CASE j <= i - 1
    <3>1. (l \o r)[j] = l[j]
      BY <1>5, <2>1, <2>2
    <3>2. l[j] = s[j] /\ j \in DOMAIN s
      BY <1>1, <1>2, <2>1, <2>2
    <3> QED
      BY <3>1, <3>2
  <2>3. CASE ~(j <= i - 1)
    <3> DEFINE k == j - (i - 1)
    <3>1. (l \o r)[j] = r[k]
      BY <1>5, <2>1, <2>3
    <3>2. k \in 1..(Len(s) - i) /\ i + k \in DOMAIN s
      BY <1>1, <2>1, <2>3
    <3>3. r[k] = s[i + k]
      BY <1>3, <3>2
    <3> QED
      BY <3>1, <3>2, <3>3
  <2> QED
    BY <2>2, <2>3
<1>7. DOMAIN (l \o r) = 1..(Len(s) - 1)
  BY <1>1, <1>2, <1>3, <1>5
<1> QED
  BY <1>4, <1>5, <1>6, <1>7

LEMMA RemoveNodeType ==
  ASSUME TypeOK, NEW n \in Procs, RemoveNode(n)
  PROVE  TypeOK'
<1>1. PICK i \in DOMAIN nodes[n] : nodes' = [nodes EXCEPT ![n] = erase(@, i)]
  BY DEF RemoveNode
<1>2. erase(nodes[n], i) \in Seq(Node)
  BY EraseType DEF TypeOK
<1>3. nodes' \in [Procs -> Seq(Node)]
  BY <1>1, <1>2 DEF TypeOK
<1> QED
  BY <1>3 DEF TypeOK, RemoveNode, serverVars, clientVars

\* The server.
LEMMA AcceptType ==
  ASSUME TypeOK, NEW n \in Procs, Accept(n)
  PROVE  TypeOK'
<1>1. Head(backlog[n]) \in Connection /\ Tail(backlog[n]) \in Seq(Connection)
  BY DEF TypeOK, Accept
<1>2. /\ conn' \in [Procs -> Connection \cup {NoConnection}]
      /\ \A m \in Procs : srv'[m] # "idle" => conn'[m] \in Connection
      /\ \A m \in Procs : srv'[m] \in {"hello", "emplace"} => conn'[m].port \in Ports
  BY <1>1 DEF TypeOK, Accept, ServerGo
<1>3. backlog' \in [Procs -> Seq(Connection)]
  BY <1>1 DEF TypeOK, Accept
<1> QED
  BY <1>2, <1>3 DEF TypeOK, Accept, ServerGo, procVars, clientVars, history

LEMMA RecvMsgType ==
  ASSUME TypeOK, NEW n \in Procs, RecvMsg(n)
  PROVE  TypeOK'
<1>1. conn[n] \in Connection
  BY DEF TypeOK, RecvMsg, ServerGo
<1>2. conn[n].body \in {"hello", "block", "ask_block"} /\ conn[n].port \in Ports \cup {NoPort}
  BY <1>1 DEF Connection
<1> QED
  BY <1>1, <1>2 DEF TypeOK, RecvMsg, ServerGo, procVars, clientVars, history

LEMMA AnswerType ==
  ASSUME TypeOK, NEW n \in Procs,
         \/ AnswerHello(n) \/ AnswerNoBlock(n) \/ UseMsg(n)
         \/ EmplaceNode(n) \/ Disconnect(n) \/ AnswerAskBlock(n)
  PROVE  TypeOK'
<1>0. conn[n] \in Connection
  BY DEF TypeOK, AnswerHello, AnswerNoBlock, UseMsg, EmplaceNode, Disconnect,
         AnswerAskBlock, ServerGo
<1>1. CASE AnswerHello(n)
  <2>1. conn[n].client \in Clients
    BY <1>0 DEF Connection
  <2>2. local' \in [Clients -> Local]
    <3>0. local[conn[n].client] \in Local
      BY <2>1 DEF TypeOK
    <3>1. ASSUME NEW p \in Ports \cup {NoPort}
          PROVE  [local[conn[n].client] EXCEPT !.heard = p] \in Local
      BY <3>0 DEF Local
    <3>2. CASE local' = local
      BY <3>2 DEF TypeOK
    <3>3. CASE local' = [local EXCEPT ![conn[n].client].heard =
                           IF pc[conn[n].client] = "wait" THEN port[n] ELSE @]
      <4>1. local[conn[n].client].heard \in Ports \cup {NoPort}
        BY <2>1 DEF TypeOK, Local
      <4>2. port[n] \in Ports \cup {NoPort}
        BY DEF TypeOK
      <4> QED
        BY <2>1, <3>1, <3>3, <4>1, <4>2 DEF TypeOK
    <3> QED
      BY <1>1, <3>2, <3>3 DEF AnswerHello, clientVars
  <2>3. announced' \in [Procs -> SUBSET Ports]
    <3>1. announced' = announced \/ announced' = [announced EXCEPT ![n] = @ \cup {port[n]}]
      BY <1>1, Zenon DEF AnswerHello, history
    <3>2. announced[n] \cup {port[n]} \in SUBSET Ports
      BY DEF TypeOK
    <3> QED
      BY <3>1, <3>2 DEF TypeOK
  <2>4. /\ srv' \in [Procs -> {"idle", "recv", "hello", "emplace", "ask_block",
                               "block", "disconnect"}]
        /\ conn' = conn
        /\ \A m \in Procs : srv'[m] # "idle" => srv[m] # "idle"
        /\ \A m \in Procs : srv'[m] \in {"hello", "emplace"} => srv[m] \in {"hello", "emplace"}
    BY <1>1 DEF TypeOK, AnswerHello, ServerGo
  <2> QED
    BY <1>1, <2>2, <2>3, <2>4 DEF TypeOK, AnswerHello, procVars, clientVars, history
<1>2. CASE AnswerNoBlock(n)
  BY <1>2 DEF TypeOK, AnswerNoBlock, ServerGo, procVars, clientVars, history
<1>3. CASE UseMsg(n)
  BY <1>3 DEF TypeOK, UseMsg, ServerGo, clientVars, history
<1>4. CASE EmplaceNode(n)
  <2>1. Sender(n) \in Node
    BY <1>0, <1>4 DEF TypeOK, EmplaceNode, ServerGo, Sender, Node, Connection
  <2>2. nodes' \in [Procs -> Seq(Node)]
    BY <1>4, <2>1, PushType DEF TypeOK, EmplaceNode
  <2> QED
    BY <1>4, <2>2 DEF TypeOK, EmplaceNode, ServerGo, clientVars, history
<1>5. CASE Disconnect(n)
  <2>1. local' \in [Clients -> Local]
    BY <1>5, CloseType DEF TypeOK, Disconnect
  <2>2. /\ conn' \in [Procs -> Connection \cup {NoConnection}]
        /\ \A m \in Procs : srv'[m] # "idle" => conn'[m] \in Connection
        /\ \A m \in Procs : srv'[m] \in {"hello", "emplace"} => conn'[m].port \in Ports
    BY <1>5 DEF TypeOK, Disconnect, ServerGo
  <2> QED
    BY <1>5, <2>1, <2>2 DEF TypeOK, Disconnect, ServerGo, procVars, history
<1>6. CASE AnswerAskBlock(n)
  <2>1. local' \in [Clients -> Local]
    BY <1>6, CloseType DEF TypeOK, AnswerAskBlock
  <2>2. /\ conn' \in [Procs -> Connection \cup {NoConnection}]
        /\ \A m \in Procs : srv'[m] # "idle" => conn'[m] \in Connection
        /\ \A m \in Procs : srv'[m] \in {"hello", "emplace"} => conn'[m].port \in Ports
    BY <1>6 DEF TypeOK, AnswerAskBlock, ServerGo
  <2>3. /\ running' \in [Procs -> BOOLEAN]
        /\ listen' \in [Procs -> Ports \cup {NoPort}]
        /\ backlog' \in [Procs -> Seq(Connection)]
    <3>1. CASE running[n]
      <4>1. /\ running' = [running EXCEPT ![n] = FALSE]
            /\ listen' = [listen EXCEPT ![n] = NoPort]
            /\ backlog' = [backlog EXCEPT ![n] = <<>>]
        BY <1>6, <3>1 DEF AnswerAskBlock
      <4>2. <<>> \in Seq(Connection)
        OBVIOUS
      <4> QED
        BY <4>1, <4>2 DEF TypeOK
    <3>2. CASE ~running[n]
      BY <1>6, <3>2 DEF TypeOK, AnswerAskBlock
    <3> QED
      BY <3>1, <3>2
  <2> QED
    BY <1>6, <2>1, <2>2, <2>3 DEF TypeOK, AnswerAskBlock, ServerGo, history
<1> QED
  BY <1>1, <1>2, <1>3, <1>4, <1>5, <1>6

LEMMA NextType == TypeOK /\ [Next]_vars => TypeOK'
<1> SUFFICES ASSUME TypeOK, [Next]_vars PROVE TypeOK'
  OBVIOUS
<1>1. ASSUME NEW n \in Procs, Kill(n) \/ Restart(n) \/ Begin(n) PROVE TypeOK'
  BY <1>1, DieType, WindowType, RemoveNodeType, StartPropagateType, AddNodeType
  DEF Kill, Begin
<1>2. ASSUME NEW n \in Procs, ServerMoves(n) \/ UiMoves(n) PROVE TypeOK'
  BY <1>2, DieType, WindowType, AcceptType, RecvMsgType, AnswerType
  DEF ServerMoves, UiMoves, StartServerFails
<1>3. ASSUME NEW c \in Clients, ClientMoves(c) PROVE TypeOK'
  <2>1. local[c].owner \in Procs
    BY DEF TypeOK, Local
  <2> QED
    BY <1>3, <2>1, DieType, ClientType, OpenType, SendHelloType, PushNodeType,
       PropagateFailType
    DEF ClientMoves, SendHelloFails, PropagateStale
<1>4. CASE UNCHANGED vars
  BY <1>4 DEF TypeOK, vars, procVars, serverVars, clientVars, history
<1> QED
  BY <1>1, <1>2, <1>3, <1>4 DEF Next

\* Every variable of every process, and of every client, has its type; what the
\* server handles is a connection, and a "hello" it answers has brought its port.
THEOREM TypeCorrect == Spec => []TypeOK
BY InitType, NextType, PTL DEF Spec

-----------------------------------------------------------------------------
(***************************************************************************)
(* PeersVouched is not inductive: what a client heard and what a queued    *)
(* connection brings must have been announced too, and must concern the    *)
(* processes the client and the connection say.                            *)
(***************************************************************************)

\* The connections at process n: waiting, or being handled.
At(n) == {backlog[n][i] : i \in DOMAIN backlog[n]}
           \cup (IF srv[n] = "idle" THEN {} ELSE {conn[n]})

Honest(n, k) ==
  /\ k.port # NoPort => k.port \in announced[k.from]
  /\ pc[k.client] # "idle"
  /\ pc[k.client] # "done" => k.from = local[k.client].owner
  /\ pc[k.client] \in Handshaking => local[k.client].target.host = n

Answered(c) ==
  /\ pc[c] = "idle" => local[c].heard = NoPort
  /\ pc[c] \in Handshaking /\ local[c].heard # NoPort =>
       local[c].heard \in announced[local[c].target.host]
  /\ pc[c] \in {"check", "push"} =>
       local[c].target.port \in announced[local[c].target.host]

Vouched ==
  /\ \A n \in Procs : \A k \in At(n) : Honest(n, k)
  /\ \A c \in Clients : Answered(c)
  /\ PeersVouched

\* How a step may treat a client without disturbing what Honest and Answered say.
Keeps(c) ==
  \/ pc'[c] = "done"
  \/ /\ pc'[c] = pc[c] \/ {pc[c], pc'[c]} \subseteq Handshaking
     /\ local'[c].owner = local[c].owner
     /\ local'[c].target = local[c].target

Recalls(c) ==
  \/ pc'[c] = "done"
  \/ /\ Keeps(c)
     /\ local'[c].heard = local[c].heard
     /\ pc'[c] \in {"check", "push"} =>
          pc[c] \in {"check", "push"} \/ local[c].heard = local[c].target.port

Grows == \A n \in Procs : announced[n] \subseteq announced'[n]

LEMMA AtType ==
  ASSUME TypeOK, NEW n \in Procs
  PROVE  At(n) \subseteq Connection
<1>1. backlog[n] \in Seq(Connection) /\ (srv[n] # "idle" => conn[n] \in Connection)
  BY DEF TypeOK
<1> QED
  BY <1>1 DEF At

LEMMA HonestKept ==
  ASSUME TypeOK, Grows, NEW n \in Procs, NEW k \in Connection, Honest(n, k),
         Keeps(k.client)
  PROVE  Honest(n, k)'
<1>1. k.from \in Procs
  BY DEF Connection
<1>2. "done" \notin Handshaking /\ "idle" \notin Handshaking
  BY DEF Handshaking
<1> QED
  BY <1>1, <1>2 DEF Honest, Keeps, Grows

LEMMA AnsweredKept ==
  ASSUME TypeOK, Grows, NEW c \in Clients, Answered(c), Recalls(c)
  PROVE  Answered(c)'
<1>1. /\ local[c].target.host \in Procs
      /\ local[c].target.port \in Ports
  BY DEF TypeOK, Local, Node
<1>2. /\ {"done", "idle"} \cap Handshaking = {}
      /\ {"check", "push"} \subseteq Handshaking
  BY DEF Handshaking
<1>3. CASE pc'[c] = "done"
  BY <1>2, <1>3 DEF Answered
<1>4. CASE pc'[c] # "done"
  <2>1. /\ pc'[c] = pc[c] \/ {pc[c], pc'[c]} \subseteq Handshaking
        /\ local'[c].target = local[c].target
        /\ local'[c].heard = local[c].heard
    BY <1>4 DEF Recalls, Keeps
  <2>2. pc'[c] \in {"check", "push"} =>
          local[c].target.port \in announced[local[c].target.host]
    <3>1. pc'[c] \in {"check", "push"} => pc[c] \in Handshaking
      BY <1>2, <2>1
    <3> QED
      BY <1>1, <1>4, <3>1, PortsAssumption DEF Recalls, Answered
  <2> QED
    BY <1>1, <1>2, <2>1, <2>2 DEF Answered, Grows
<1> QED
  BY <1>3, <1>4

\* A list keeps its promise while announced grows.
LEMMA PeersKept ==
  ASSUME TypeOK, Grows, PeersVouched, nodes' = nodes
  PROVE  PeersVouched'
<1> SUFFICES ASSUME NEW n \in Procs, NEW i \in DOMAIN nodes[n]
             PROVE  nodes[n][i].port \in announced'[nodes[n][i].host]
  BY DEF PeersVouched
<1>1. nodes[n] \in Seq(Node)
  BY DEF TypeOK
<1>2. nodes[n][i] \in Node
  BY <1>1
<1>3. nodes[n][i].host \in Procs
  BY <1>2 DEF Node
<1> QED
  BY <1>3 DEF PeersVouched, Grows

\* The steps that open no connection and add no node.
LEMMA VouchedKept ==
  ASSUME TypeOK, Vouched, Grows,
         \A c \in Clients : Recalls(c),
         \A n \in Procs : At(n)' \subseteq At(n),
         nodes' = nodes \/ PeersVouched'
  PROVE  Vouched'
<1>1. ASSUME NEW n \in Procs, NEW k \in At(n)'
      PROVE  Honest(n, k)'
  <2>1. k \in At(n) /\ k \in Connection
    BY AtType
  <2>2. k.client \in Clients
    BY <2>1 DEF Connection
  <2>3. Keeps(k.client)
    BY <2>2 DEF Recalls, Keeps
  <2> QED
    BY <2>1, <2>3, HonestKept DEF Vouched
<1>2. \A c \in Clients : Answered(c)'
  BY AnsweredKept DEF Vouched
<1>3. PeersVouched'
  BY PeersKept DEF Vouched
<1> QED
  BY <1>1, <1>2, <1>3 DEF Vouched

LEMMA CloseKeeps ==
  ASSUME TypeOK, NEW S, NEW how, NEW c \in Clients
  PROVE  /\ Close(S, how)[c].owner = local[c].owner
         /\ Close(S, how)[c].target = local[c].target
         /\ Close(S, how)[c].heard = local[c].heard
<1>1. local[c] \in Local
  BY DEF TypeOK
<1> QED
  BY <1>1 DEF Close, Local

LEMMA InitVouched == Init => Vouched
<1> SUFFICES ASSUME Init PROVE Vouched
  OBVIOUS
<1>1. \A n \in Procs : At(n) = {}
  BY DEF Init, At
<1>2. \A c \in Clients : Answered(c)
  BY DEF Init, Answered, Fresh, Handshaking
<1>3. PeersVouched
  BY DEF Init, PeersVouched
<1> QED
  BY <1>1, <1>2, <1>3 DEF Vouched

LEMMA DieVouched ==
  ASSUME TypeOK, Vouched, NEW n \in Procs, Die(n)
  PROVE  Vouched'
<1>1. Grows
  BY DEF Die, Grows
<1>2. \A c \in Clients : Recalls(c)
  <2> SUFFICES ASSUME NEW c \in Clients PROVE Recalls(c)
    OBVIOUS
  <2> DEFINE gone == pc[c] \notin Ended /\ local[c].owner = n
  <2>1. CASE gone
    BY <2>1 DEF Die, Recalls
  <2>2. CASE ~gone
    <3>1. /\ pc'[c] = pc[c]
          /\ local'[c] = Close(Pending(n) \cup {conn[n].client}, "reset")[c]
      BY <2>2 DEF Die
    <3> QED
      BY <3>1, CloseKeeps DEF Recalls, Keeps
  <2> QED
    BY <2>1, <2>2
<1>3. \A m \in Procs : At(m)' \subseteq At(m)
  BY DEF TypeOK, Die, At
<1>4. PeersVouched'
  <2>1. announced' = announced /\ nodes' = [nodes EXCEPT ![n] = <<>>]
    BY DEF Die
  <2> QED
    BY <2>1 DEF TypeOK, Vouched, PeersVouched
<1> QED
  BY <1>1, <1>2, <1>3, <1>4, VouchedKept

\* A client that moves, alone.
LEMMA ClientVouched ==
  ASSUME TypeOK, Vouched, NEW c \in Clients,
         \/ ConnectFails(c) \/ RecvHello(c) \/ CheckNode(c) \/ EndPropagate(c)
         \/ PropagateFail(c)
  PROVE  Vouched'
<1>0. local[c] \in Local
  BY DEF TypeOK
<1>1. Grows
  BY DEF ConnectFails, RecvHello, CheckNode, EndPropagate, PropagateFail, history, Grows
<1>2. \A n \in Procs : At(n)' \subseteq At(n)
  BY DEF ConnectFails, RecvHello, CheckNode, EndPropagate, PropagateFail, serverVars, At
<1>3. \A d \in Clients : Recalls(d)
  <2> SUFFICES ASSUME NEW d \in Clients PROVE Recalls(d)
    OBVIOUS
  <2>1. CASE d # c
    BY <2>1 DEF TypeOK, ConnectFails, RecvHello, CheckNode, EndPropagate, PropagateFail,
       End, Go, Recalls, Keeps
  <2>2. CASE d = c
    <3>1. CASE ConnectFails(c) \/ EndPropagate(c)
      BY <2>2, <3>1 DEF TypeOK, ConnectFails, EndPropagate, End, Go, Recalls
    <3>2. CASE RecvHello(c)
      BY <2>2, <3>2 DEF TypeOK, RecvHello, End, Go, Recalls, Keeps, Handshaking
    <3>3. CASE CheckNode(c)
      BY <2>2, <3>3 DEF TypeOK, CheckNode, End, Go, Recalls, Keeps, Handshaking
    <3>4. CASE PropagateFail(c)
      BY <1>0, <2>2, <3>4 DEF TypeOK, Local, PropagateFail, Recalls, Keeps
    <3> QED
      BY <3>1, <3>2, <3>3, <3>4
  <2> QED
    BY <2>1, <2>2
<1>4. nodes' = nodes \/ PeersVouched'
  <2>1. CASE PropagateFail(c)
    <3>1. /\ nodes' = [nodes EXCEPT ![local[c].owner] = <<>>]
          /\ announced' = announced
      BY <2>1 DEF PropagateFail
    <3> QED
      BY <3>1 DEF TypeOK, Vouched, PeersVouched
  <2>2. CASE ~PropagateFail(c)
    BY <2>2 DEF ConnectFails, RecvHello, CheckNode, EndPropagate, procVars
  <2> QED
    BY <2>1, <2>2
<1> QED
  BY <1>1, <1>2, <1>3, <1>4, VouchedKept

\* A client that starts: no connection is its own yet.
LEMMA BeginVouched ==
  ASSUME TypeOK, Vouched, NEW n \in Procs, NEW c \in Clients,
         \/ \E node \in Node : AddNode(n, node, c)
         \/ PropagateTransaction(n, c) \/ PropagateBlock(n, c) \/ FetchGenesis(n, c)
  PROVE  Vouched'
<1>0. local[c] \in Local
  BY DEF TypeOK
<1>1. /\ pc[c] = "idle"
      /\ pc' = [pc EXCEPT ![c] = "connect"] \/ pc' = [pc EXCEPT ![c] = "next"]
      /\ announced' = announced
      /\ nodes' = nodes
      /\ backlog' = backlog /\ conn' = conn /\ srv' = srv
  BY DEF AddNode, PropagateTransaction, PropagateBlock, FetchGenesis, StartPropagate,
         Go, procVars, serverVars, history
<1>2. /\ \A d \in Clients \ {c} : local'[d] = local[d]
      /\ local'[c].heard = local[c].heard
  <2>1. ASSUME NEW node \in Node, AddNode(n, node, c)
        PROVE  /\ \A d \in Clients \ {c} : local'[d] = local[d]
               /\ local'[c].heard = local[c].heard
    BY <1>0, <2>1 DEF TypeOK, Local, AddNode
  <2>2. ASSUME NEW msg, NEW byUi, StartPropagate(n, c, msg, byUi)
        PROVE  /\ \A d \in Clients \ {c} : local'[d] = local[d]
               /\ local'[c].heard = local[c].heard
    BY <1>0, <2>2 DEF TypeOK, Local, StartPropagate
  <2> QED
    BY <2>1, <2>2 DEF PropagateTransaction, PropagateBlock, FetchGenesis
<1>3. \A m \in Procs : At(m)' = At(m)
  BY <1>1 DEF At
<1>4. Grows
  BY <1>1 DEF Grows
<1>5. ASSUME NEW m \in Procs, NEW k \in At(m)'
      PROVE  Honest(m, k)'
  <2>1. k \in At(m) /\ k \in Connection /\ Honest(m, k)
    BY <1>3, AtType DEF Vouched
  <2>2. k.client \in Clients /\ k.client # c
    BY <1>1, <2>1 DEF Connection, Honest
  <2>3. Keeps(k.client)
    BY <1>1, <1>2, <2>2 DEF TypeOK, Keeps
  <2> QED
    BY <1>4, <2>1, <2>3, HonestKept
<1>6. ASSUME NEW d \in Clients
      PROVE  Answered(d)'
  <2>1. CASE d # c
    <3>1. Recalls(d)
      BY <1>1, <1>2, <2>1 DEF TypeOK, Recalls, Keeps
    <3> QED
      BY <1>4, <3>1, AnsweredKept DEF Vouched
  <2>2. CASE d = c
    <3>1. local'[c].heard = NoPort
      <4>1. Answered(c) /\ pc[c] = "idle" /\ local'[c].heard = local[c].heard
        BY <1>1, <1>2 DEF Vouched
      <4> QED
        BY <4>1 DEF Answered
    <3>2. pc'[c] \in {"connect", "next"}
      BY <1>1 DEF TypeOK
    <3> QED
      BY <2>2, <3>1, <3>2 DEF Answered
  <2> QED
    BY <2>1, <2>2
<1>7. PeersVouched'
  BY <1>1, <1>4, PeersKept DEF Vouched
<1> QED
  BY <1>5, <1>6, <1>7 DEF Vouched

\* A connection that is opened comes from its client, and a "hello" goes to the
\* node the client adds.
LEMMA OpenVouched ==
  ASSUME TypeOK, Vouched, NEW c \in Clients, Connect(c) \/ PropagateSend(c)
  PROVE  Vouched'
<1> DEFINE host == IF Connect(c) THEN local[c].target.host
                   ELSE local[c].list[local[c].at].host
           k == [client |-> c, from |-> local[c].owner, port |-> NoPort,
                 body |-> IF Connect(c) THEN "hello" ELSE local[c].body]
<1>0. local[c] \in Local
  BY DEF TypeOK
<1>1. /\ backlog' = [backlog EXCEPT ![host] = Append(@, k)]
      /\ conn' = conn /\ srv' = srv /\ announced' = announced /\ nodes' = nodes
      /\ Connect(c) => pc[c] = "connect" /\ pc' = [pc EXCEPT ![c] = "hello"]
      /\ ~Connect(c) => pc[c] = "next" /\ pc' = pc
  BY DEF Connect, PropagateSend, Propagating, Go, procVars, history
<1>2. /\ \A d \in Clients \ {c} : local'[d] = local[d]
      /\ local'[c].owner = local[c].owner
      /\ local'[c].target = local[c].target
      /\ local'[c].heard = local[c].heard
  <2>1. CASE Connect(c)
    BY <1>0, <2>1 DEF TypeOK, Local, Connect
  <2>2. CASE PropagateSend(c)
    BY <1>0, <2>2 DEF TypeOK, Local, PropagateSend
  <2> QED
    BY <2>1, <2>2
<1>3. Grows
  BY <1>1 DEF Grows
<1>4. \A d \in Clients : Recalls(d)
  BY <1>1, <1>2 DEF TypeOK, Recalls, Keeps, Handshaking
<1>5. k.client = c /\ k.from = local[c].owner /\ k.port = NoPort
  OBVIOUS
<1>6. Connect(c) => host = local[c].target.host
  OBVIOUS
<1> HIDE DEF k, host
<1>7. ASSUME NEW n \in Procs, NEW h \in At(n)'
      PROVE  h \in At(n) \/ (h = k /\ n = host)
  <2>1. backlog[n] \in Seq(Connection)
    BY DEF TypeOK
  <2>2. CASE n # host
    BY <1>1, <2>2 DEF TypeOK, At
  <2>3. CASE n = host
    <3>1. backlog'[n] = Append(backlog[n], k)
      BY <1>1, <2>3 DEF TypeOK
    <3>2. \A i \in DOMAIN backlog'[n] : backlog'[n][i] = k \/ \E j \in DOMAIN backlog[n] : backlog'[n][i] = backlog[n][j]
      BY <2>1, <3>1
    <3> QED
      BY <1>1, <2>3, <3>2 DEF At
  <2> QED
    BY <2>2, <2>3
<1>8. ASSUME NEW n \in Procs, NEW h \in At(n)'
      PROVE  Honest(n, h)'
  <2>1. CASE h \in At(n)
    <3>1. h \in Connection /\ Honest(n, h) /\ h.client \in Clients
      BY <2>1, AtType DEF Vouched, Connection
    <3>2. Keeps(h.client)
      BY <1>4, <3>1 DEF Recalls, Keeps
    <3> QED
      BY <1>3, <3>1, <3>2, HonestKept
  <2>2. CASE h = k /\ n = host
    <3>1. pc'[c] \in {"hello", "next"} /\ (pc'[c] \in Handshaking => Connect(c))
      BY <1>1 DEF TypeOK, Handshaking
    <3> QED
      BY <1>2, <1>5, <1>6, <2>2, <3>1 DEF Honest
  <2> QED
    BY <1>7, <2>1, <2>2
<1>9. \A d \in Clients : Answered(d)'
  BY <1>3, <1>4, AnsweredKept DEF Vouched
<1>10. PeersVouched'
  BY <1>1, <1>3, PeersKept DEF Vouched
<1> QED
  BY <1>8, <1>9, <1>10 DEF Vouched

\* The port of a "hello" is announced by the client that sends it.
LEMMA SendHelloVouched ==
  ASSUME TypeOK, Vouched, NEW c \in Clients, SendHello(c)
  PROVE  Vouched'
<1> DEFINE p == port[local[c].owner]
           Filled(k) == IF k.client = c THEN [k EXCEPT !.port = p] ELSE k
<1>1. /\ local[c].owner \in Procs
      /\ announced' = [announced EXCEPT ![local[c].owner] = @ \cup {p}]
      /\ pc[c] = "hello" /\ pc' = [pc EXCEPT ![c] = "wait"]
      /\ local' = local /\ nodes' = nodes /\ srv' = srv
      /\ backlog' = [n \in Procs |-> [i \in DOMAIN backlog[n] |-> Filled(backlog[n][i])]]
      /\ conn' = [n \in Procs |-> Filled(conn[n])]
  BY DEF TypeOK, Local, SendHello, Go, procVars
<1>2. Grows /\ p \in announced'[local[c].owner]
  BY <1>1 DEF TypeOK, Grows
<1>3. \A d \in Clients : Recalls(d)
  BY <1>1 DEF TypeOK, Recalls, Keeps, Handshaking
<1>4. ASSUME NEW k \in Connection
      PROVE  /\ Filled(k) \in Connection \/ Filled(k).port = p
             /\ Filled(k).client = k.client
             /\ Filled(k).from = k.from
             /\ Filled(k).port = IF k.client = c THEN p ELSE k.port
  BY DEF Connection
<1> HIDE DEF p, Filled
<1>5. ASSUME NEW n \in Procs, NEW h \in At(n)'
      PROVE  \E k \in At(n) : h = Filled(k)
  BY <1>1 DEF At
<1>6. ASSUME NEW n \in Procs, NEW h \in At(n)'
      PROVE  Honest(n, h)'
  <2>1. PICK k \in At(n) : h = Filled(k)
    BY <1>5
  <2>2. k \in Connection /\ Honest(n, k) /\ k.client \in Clients
    BY AtType DEF Vouched, Connection
  <2>3. Honest(n, k)'
    BY <1>2, <1>3, <2>2, HonestKept DEF Recalls, Keeps
  <2>4. k.client = c => k.from = local[c].owner
    BY <1>1, <2>2 DEF Honest
  <2> QED
    BY <1>2, <1>4, <2>1, <2>2, <2>3, <2>4 DEF Honest
<1>7. \A d \in Clients : Answered(d)'
  BY <1>2, <1>3, AnsweredKept DEF Vouched
<1>8. PeersVouched'
  BY <1>1, <1>2, PeersKept DEF Vouched
<1> QED
  BY <1>6, <1>7, <1>8 DEF Vouched

\* A node whose port was announced may join a list.
LEMMA PushVouched ==
  ASSUME TypeOK, PeersVouched, NEW n \in Procs, NEW node \in Node,
         push_back(n, node), node.port \in announced[node.host], announced' = announced
  PROVE  PeersVouched'
<1> SUFFICES ASSUME NEW m \in Procs, NEW i \in DOMAIN nodes'[m]
             PROVE  nodes'[m][i].port \in announced[nodes'[m][i].host]
  BY DEF PeersVouched
<1>1. nodes[n] \in Seq(Node)
  BY DEF TypeOK
<1>2. CASE m # n
  BY <1>2 DEF TypeOK, push_back, PeersVouched
<1>3. CASE m = n
  <2>1. nodes'[m] = Append(nodes[n], node)
    BY <1>3 DEF TypeOK, push_back
  <2>2. nodes'[m][i] = node \/ (i \in DOMAIN nodes[n] /\ nodes'[m][i] = nodes[n][i])
    BY <1>1, <2>1
  <2> QED
    BY <2>2 DEF PeersVouched
<1> QED
  BY <1>2, <1>3

LEMMA PushNodeVouched ==
  ASSUME TypeOK, Vouched, NEW c \in Clients, PushNode(c)
  PROVE  Vouched'
<1>1. /\ local[c].owner \in Procs /\ local[c].target \in Node
      /\ pc[c] = "push" /\ pc' = [pc EXCEPT ![c] = "done"]
      /\ \A d \in Clients \ {c} : local'[d] = local[d]
      /\ announced' = announced
      /\ backlog' = backlog /\ conn' = conn /\ srv' = srv
  BY DEF TypeOK, Local, PushNode, End, Go, serverVars, history
<1>2. \A d \in Clients : Recalls(d)
  BY <1>1 DEF TypeOK, Recalls, Keeps
<1>3. PeersVouched'
  BY <1>1, PushVouched DEF PushNode, Vouched, Answered
<1>4. Grows /\ \A n \in Procs : At(n)' \subseteq At(n)
  BY <1>1 DEF Grows, At
<1> QED
  BY <1>2, <1>3, <1>4, VouchedKept

\* The main window.
LEMMA WindowVouched ==
  ASSUME TypeOK, Vouched, NEW n \in Procs,
         \/ Restart(n) \/ FetchGenesisAlone(n)
         \/ \E p \in Ports : SetPort(n, p)
         \/ StopServer(n) \/ CloseServer(n) \/ StartServer(n)
  PROVE  Vouched'
<1>1. announced' = announced /\ nodes' = nodes /\ pc' = pc /\ conn' = conn /\ srv' = srv
  BY DEF Restart, FetchGenesisAlone, SetPort, StopServer, CloseServer, StartServer,
         serverVars, clientVars, history
<1>2. \A m \in Procs : At(m)' \subseteq At(m)
  <2>1. backlog' = backlog \/ backlog' = [backlog EXCEPT ![n] = <<>>]
    BY DEF Restart, FetchGenesisAlone, SetPort, StopServer, CloseServer, StartServer,
           serverVars
  <2> SUFFICES ASSUME NEW m \in Procs PROVE At(m)' \subseteq At(m)
    OBVIOUS
  <2>2. backlog'[m] = backlog[m] \/ backlog'[m] = <<>>
    BY <2>1 DEF TypeOK
  <2>3. CASE backlog'[m] = <<>>
    <3>1. DOMAIN backlog'[m] = {}
      BY <2>3
    <3> QED
      BY <1>1, <3>1 DEF At
  <2> QED
    BY <1>1, <2>2, <2>3 DEF At
<1>3. \A c \in Clients : Recalls(c)
  <2>1. CASE CloseServer(n)
    BY <1>1, <2>1, CloseKeeps DEF CloseServer, Recalls, Keeps
  <2>2. CASE ~CloseServer(n)
    <3>1. local' = local
      BY <2>2 DEF Restart, FetchGenesisAlone, SetPort, StopServer, StartServer, clientVars
    <3> QED
      BY <1>1, <3>1 DEF Recalls, Keeps
  <2> QED
    BY <2>1, <2>2
<1> QED
  BY <1>1, <1>2, <1>3, VouchedKept DEF Grows

LEMMA RemoveNodeVouched ==
  ASSUME TypeOK, Vouched, NEW n \in Procs, RemoveNode(n)
  PROVE  Vouched'
<1>1. PICK i \in DOMAIN nodes[n] : nodes' = [nodes EXCEPT ![n] = erase(@, i)]
  BY DEF RemoveNode
<1>2. /\ announced' = announced /\ pc' = pc /\ local' = local
      /\ backlog' = backlog /\ conn' = conn /\ srv' = srv
  BY DEF RemoveNode, serverVars, clientVars
<1>3. PeersVouched'
  <2> SUFFICES ASSUME NEW m \in Procs, NEW j \in DOMAIN nodes'[m]
               PROVE  nodes'[m][j].port \in announced[nodes'[m][j].host]
    BY <1>2 DEF PeersVouched
  <2>1. CASE m # n
    BY <1>1, <2>1 DEF TypeOK, Vouched, PeersVouched
  <2>2. CASE m = n
    <3>1. nodes'[m] = erase(nodes[n], i) /\ nodes[n] \in Seq(Node)
      BY <1>1, <2>2 DEF TypeOK
    <3>2. PICK k \in DOMAIN nodes[n] : nodes'[m][j] = nodes[n][k]
      BY <3>1, EraseType
    <3> QED
      BY <3>2 DEF Vouched, PeersVouched
  <2> QED
    BY <2>1, <2>2
<1>4. Grows /\ \A m \in Procs : At(m)' \subseteq At(m)
  BY <1>2 DEF Grows, At
<1>5. \A c \in Clients : Recalls(c)
  BY <1>2 DEF Recalls, Keeps
<1> QED
  BY <1>3, <1>4, <1>5, VouchedKept

\* The server: it takes a connection from the queue, answers and drops it.
LEMMA ServerVouched ==
  ASSUME TypeOK, Vouched, NEW n \in Procs,
         \/ Accept(n) \/ RecvMsg(n) \/ AnswerNoBlock(n) \/ UseMsg(n)
         \/ Disconnect(n) \/ AnswerAskBlock(n)
  PROVE  Vouched'
<1>1. /\ announced' = announced /\ nodes' = nodes /\ pc' = pc
  BY DEF Accept, RecvMsg, AnswerNoBlock, UseMsg, Disconnect, AnswerAskBlock,
         procVars, clientVars, history
<1>2. \A m \in Procs : At(m)' \subseteq At(m)
  <2>1. CASE Accept(n)
    <3>1. /\ backlog[n] \in Seq(Connection) /\ backlog[n] # <<>>
          /\ backlog' = [backlog EXCEPT ![n] = Tail(@)]
          /\ conn' = [conn EXCEPT ![n] = Head(backlog[n])]
          /\ srv' = [srv EXCEPT ![n] = "recv"]
      BY <2>1 DEF TypeOK, Accept, ServerGo
    <3>2. /\ Head(backlog[n]) = backlog[n][1] /\ 1 \in DOMAIN backlog[n]
          /\ \A i \in DOMAIN Tail(backlog[n]) :
               i + 1 \in DOMAIN backlog[n] /\ Tail(backlog[n])[i] = backlog[n][i + 1]
      BY <3>1
    <3> QED
      BY <3>1, <3>2 DEF TypeOK, At
  <2>2. CASE RecvMsg(n) \/ AnswerNoBlock(n) \/ UseMsg(n)
    <3>1. backlog' = backlog /\ conn' = conn /\ \A m \in Procs : srv[m] = "idle" => srv'[m] = "idle"
      BY <2>2 DEF TypeOK, RecvMsg, AnswerNoBlock, UseMsg, ServerGo
    <3> QED
      BY <3>1 DEF At
  <2>3. CASE Disconnect(n) \/ AnswerAskBlock(n)
    <3>1. /\ srv' = [srv EXCEPT ![n] = "idle"]
          /\ conn' = [conn EXCEPT ![n] = NoConnection]
          /\ backlog' = backlog \/ backlog' = [backlog EXCEPT ![n] = <<>>]
      BY <2>3 DEF Disconnect, AnswerAskBlock, ServerGo
    <3> QED
      BY <3>1 DEF TypeOK, At
  <2> QED
    BY <2>1, <2>2, <2>3
<1>3. \A c \in Clients : Recalls(c)
  <2>1. \/ local' = local
        \/ \E S : \E how : local' = Close(S, how)
    BY DEF Accept, RecvMsg, AnswerNoBlock, UseMsg, Disconnect, AnswerAskBlock, clientVars
  <2> QED
    BY <1>1, <2>1, CloseKeeps DEF Recalls, Keeps
<1> QED
  BY <1>1, <1>2, <1>3, VouchedKept DEF Grows

\* The answer to a "hello" goes to the client that called this process, with a
\* port it thereby announces.
LEMMA AnswerHelloVouched ==
  ASSUME TypeOK, Vouched, NEW n \in Procs, AnswerHello(n)
  PROVE  Vouched'
<1> DEFINE k == conn[n]
           c == k.client
<1>1. /\ k \in Connection /\ c \in Clients /\ k \in At(n)
      /\ nodes' = nodes /\ pc' = pc /\ backlog' = backlog /\ conn' = conn
      /\ \A m \in Procs : srv[m] = "idle" => srv'[m] = "idle"
  BY DEF TypeOK, AnswerHello, ServerGo, Connection, At, procVars, clientVars
<1>2. \A m \in Procs : At(m)' \subseteq At(m)
  BY <1>1 DEF At
<1>3. CASE local' = local /\ announced' = announced
  BY <1>1, <1>2, <1>3, VouchedKept DEF Grows, Recalls, Keeps
<1>4. CASE /\ local' = [local EXCEPT ![c].heard = IF pc[c] = "wait" THEN port[n] ELSE @]
           /\ announced' = [announced EXCEPT ![n] = @ \cup {port[n]}]
  <2>1. Grows /\ port[n] \in announced'[n]
    BY <1>4 DEF TypeOK, Grows
  <2>2. local[c] \in Local
    BY <1>1 DEF TypeOK
  <2>3. /\ \A d \in Clients \ {c} : local'[d] = local[d]
        /\ local'[c].owner = local[c].owner
        /\ local'[c].target = local[c].target
        /\ local'[c].heard = IF pc[c] = "wait" THEN port[n] ELSE local[c].heard
    BY <1>1, <1>4, <2>2 DEF TypeOK, Local
  <2>4. \A d \in Clients : Keeps(d)
    BY <1>1, <2>3 DEF Keeps
  <2>5. ASSUME NEW m \in Procs, NEW h \in At(m)'
        PROVE  Honest(m, h)'
    <3>1. h \in At(m) /\ h \in Connection /\ Honest(m, h) /\ h.client \in Clients
      BY <1>2, AtType DEF Vouched, Connection
    <3> QED
      BY <2>1, <2>4, <3>1, HonestKept
  <2>6. ASSUME NEW d \in Clients
        PROVE  Answered(d)'
    <3>1. CASE d = c /\ pc[c] = "wait"
      <4>1. local[c].target.host = n
        BY <1>1, <3>1 DEF Vouched, Honest, Handshaking
      <4> QED
        BY <1>1, <2>1, <2>3, <3>1, <4>1 DEF Answered
    <3>2. CASE ~(d = c /\ pc[c] = "wait")
      <4>1. Recalls(d)
        BY <1>1, <2>3, <2>4, <3>2 DEF Recalls
      <4> QED
        BY <2>1, <4>1, AnsweredKept DEF Vouched
    <3> QED
      BY <3>1, <3>2
  <2>7. PeersVouched'
    BY <1>1, <2>1, PeersKept DEF Vouched
  <2> QED
    BY <2>5, <2>6, <2>7 DEF Vouched
<1> QED
  BY <1>3, <1>4 DEF AnswerHello, clientVars, history

LEMMA EmplaceNodeVouched ==
  ASSUME TypeOK, Vouched, NEW n \in Procs, EmplaceNode(n)
  PROVE  Vouched'
<1>1. /\ conn[n] \in Connection /\ conn[n] \in At(n) /\ conn[n].port \in Ports
      /\ announced' = announced /\ pc' = pc /\ local' = local
      /\ backlog' = backlog /\ conn' = conn
      /\ \A m \in Procs : srv[m] = "idle" => srv'[m] = "idle"
  BY DEF TypeOK, EmplaceNode, ServerGo, At, clientVars, history
<1>2. /\ Sender(n) \in Node
      /\ Sender(n).host = conn[n].from /\ Sender(n).port = conn[n].port
  BY <1>1 DEF Sender, Node, Connection
<1>3. conn[n].port \in announced[conn[n].from]
  BY <1>1, PortsAssumption DEF Vouched, Honest
<1>4. PeersVouched'
  BY <1>1, <1>2, <1>3, PushVouched DEF EmplaceNode, Vouched
<1>5. Grows /\ \A m \in Procs : At(m)' \subseteq At(m)
  BY <1>1 DEF Grows, At
<1>6. \A c \in Clients : Recalls(c)
  BY <1>1 DEF Recalls, Keeps
<1> QED
  BY <1>4, <1>5, <1>6, VouchedKept

LEMMA NextVouched == TypeOK /\ Vouched /\ [Next]_vars => Vouched'
<1> SUFFICES ASSUME TypeOK, Vouched, [Next]_vars PROVE Vouched'
  OBVIOUS
<1>1. ASSUME NEW n \in Procs, Kill(n) \/ Restart(n) \/ Begin(n) PROVE Vouched'
  BY <1>1, DieVouched, WindowVouched, RemoveNodeVouched, BeginVouched DEF Kill, Begin
<1>2. ASSUME NEW n \in Procs, ServerMoves(n) \/ UiMoves(n) PROVE Vouched'
  BY <1>2, DieVouched, WindowVouched, ServerVouched, AnswerHelloVouched,
     EmplaceNodeVouched
  DEF ServerMoves, UiMoves, StartServerFails
<1>3. ASSUME NEW c \in Clients, ClientMoves(c) PROVE Vouched'
  <2>1. local[c].owner \in Procs
    BY DEF TypeOK, Local
  <2> QED
    BY <1>3, <2>1, DieVouched, ClientVouched, OpenVouched, SendHelloVouched,
       PushNodeVouched
    DEF ClientMoves, SendHelloFails, PropagateStale
<1>4. CASE UNCHANGED vars
  <2>1. Grows /\ nodes' = nodes /\ \A n \in Procs : At(n)' \subseteq At(n)
    BY <1>4 DEF vars, procVars, serverVars, history, Grows, At
  <2>2. \A c \in Clients : Recalls(c)
    BY <1>4 DEF vars, clientVars, Recalls, Keeps
  <2> QED
    BY <2>1, <2>2, VouchedKept
<1> QED
  BY <1>1, <1>2, <1>3, <1>4 DEF Next

\* Whatever is lost, restarted or moved to another port, and for any number of
\* processes and clients, a node is in a list only with a port that the process
\* behind it has itself announced.
THEOREM PeersAlwaysVouched == Spec => []PeersVouched
<1>1. Init => Vouched
  BY InitVouched
<1>2. TypeOK /\ Vouched /\ [Next]_vars => Vouched'
  BY NextVouched
<1>3. Vouched => PeersVouched
  BY DEF Vouched
<1> QED
  BY <1>1, <1>2, <1>3, TypeCorrect, PTL DEF Spec

-----------------------------------------------------------------------------
(***************************************************************************)
(* HandshakeSymmetric.  It speaks of the lists while no handshake is under *)
(* way, and is not inductive.  Symmetric says what the two sides of a      *)
(* handshake owe each other in the middle of it, until somebody moves.     *)
(***************************************************************************)

\* A client that was answered.  Nothing but the end of its process keeps it
\* from adding the node it called.
Hears(c) == pc[c] \in {"wait", "check", "push"} /\ local[c].heard # NoPort

\* m has a client that was answered by n.
Pledged(m, n) ==
  \E c \in Clients :
    Hears(c) /\ local[c].owner = m /\ local[c].target.host = n

\* The server of m has answered a client of n, and will add it.
Promised(m, n) == srv[m] = "emplace" /\ conn[m].from = n

\* What one side knows, the other knows or is about to learn.
Agreed ==
  /\ \A n, m \in Procs :
       Knows(n, m) => Knows(m, n) \/ Pledged(m, n) \/ Promised(m, n)
  /\ \A n \in Procs : srv[n] = "emplace" =>
       Knows(conn[n].from, n) \/ Pledged(conn[n].from, n)
  /\ \A c \in Clients : Hears(c) =>
       \/ Knows(local[c].target.host, local[c].owner)
       \/ Promised(local[c].target.host, local[c].owner)

\* Nobody has moved.
Undisturbed(n) ==
  /\ alive[n]
  /\ port[n] = DEFAULT_PORT
  /\ listen[n] \in {DEFAULT_PORT, NoPort}
  /\ ui[n] \in {"free", "propagate"}

\* A connection k to n that was not answered: its client has not given up.
Waits(n, k) ==
  IF k.body = "hello"
  THEN /\ pc[k.client] \in {"hello", "wait"}
       /\ local[k.client].owner = k.from
       /\ local[k.client].target.host = n
       /\ local[k.client].link = "open"
       /\ local[k.client].heard = NoPort
       /\ k.port = IF pc[k.client] = "hello" THEN NoPort ELSE DEFAULT_PORT
  ELSE pc[k.client] \in {"next", "done"}

\* The connection that the server of n handles.
Served(n) ==
  /\ srv[n] \in {"recv", "hello"} => Waits(n, conn[n])
  /\ srv[n] \in {"hello", "emplace"} =>
       conn[n].body = "hello" /\ conn[n].port = DEFAULT_PORT
  /\ srv[n] \notin {"idle", "recv", "hello"} =>
       /\ pc[conn[n].client] \notin {"idle", "connect", "hello"}
       /\ pc[conn[n].client] = "wait" => local[conn[n].client].target.host = n

\* The connections to n.  No client of a handshake has two.
Line(n) ==
  /\ \A i \in DOMAIN backlog[n] : Waits(n, backlog[n][i])
  /\ \A i, j \in DOMAIN backlog[n] :
       /\ backlog[n][i].body = "hello"
       /\ backlog[n][j].body = "hello"
       /\ backlog[n][i].client = backlog[n][j].client
       => i = j
  /\ srv[n] # "idle" =>
       \A i \in DOMAIN backlog[n] :
         backlog[n][i].body = "hello" => backlog[n][i].client # conn[n].client
  /\ Served(n)

\* Where a client is tells what it has heard, and whether it is connected.
Calling(c) ==
  /\ pc[c] \in {"hello", "wait", "check", "push"} =>
       local[c].target.port = DEFAULT_PORT
  /\ pc[c] \in {"check", "push"} => local[c].heard # NoPort
  /\ pc[c] \notin {"wait", "check", "push"} => local[c].heard = NoPort
  /\ pc[c] \in {"idle", "connect", "next", "done"} => local[c].link = "none"
  /\ local[c].heard \in {NoPort, DEFAULT_PORT}

Sides ==
  /\ \A n \in Procs : Undisturbed(n) /\ Line(n)
  /\ \A c \in Clients : Calling(c)
  /\ Agreed

Symmetric == ~disturbed => Sides

\* What a step may do to a client without a word to the line of n.
Apart(n, c) ==
  \/ pc'[c] = pc[c] /\ local'[c] = local[c]
  \/ pc[c] \in {"idle", "connect"}
  \/ pc[c] = "next" /\ pc'[c] = "done"
  \/ /\ pc[c] \in {"wait", "check", "push"}
     /\ local[c].heard # NoPort \/ local[c].link # "open"
     /\ pc'[c] \in {"check", "push", "done"}
  \/ /\ pc'[c] = pc[c]
     /\ local'[c].target = local[c].target
     /\ pc[c] \in {"hello", "wait"} => local[c].target.host # n

\* A connection keeps waiting while nothing is done to its client.
LEMMA WaitsKept ==
  ASSUME NEW n \in Procs, NEW k \in Connection, Waits(n, k), Apart(n, k.client)
  PROVE  Waits(n, k)'
<1> DEFINE c == k.client
<1> c \in Clients
  BY DEF Connection
<1>1. CASE k.body = "hello"
  BY <1>1 DEF Waits, Apart
<1>2. CASE k.body # "hello"
  BY <1>2 DEF Waits, Apart
<1> QED
  BY <1>1, <1>2

\* So do the connections of a queue, and the one that is handled.
LEMMA QueueKept ==
  ASSUME TypeOK, NEW n \in Procs, Line(n),
         NEW i \in DOMAIN backlog[n], NEW k, k = backlog[n][i], Apart(n, k.client)
  PROVE  k \in Connection /\ k.client \in Clients /\ Waits(n, k) /\ Waits(n, k)'
<1>1. k \in Connection
  BY DEF TypeOK
<1>2. k.client \in Clients
  BY <1>1 DEF Connection
<1>3. Waits(n, k)
  BY DEF Line
<1> QED
  BY <1>1, <1>2, <1>3, WaitsKept

LEMMA ServedKept ==
  ASSUME TypeOK, NEW n \in Procs, Served(n), \A c \in Clients : Apart(n, c),
         conn'[n] = conn[n], srv'[n] = srv[n]
  PROVE  Served(n)'
<1>1. \A k \in Connection : k.client \in Clients
  BY DEF Connection
<1>2. ASSUME srv[n] \in {"recv", "hello"}
      PROVE  (Waits(n, conn[n]))'
  <2>1. conn[n] \in Connection /\ Waits(n, conn[n]) /\ Apart(n, conn[n].client)
    BY <1>1, <1>2 DEF Served, TypeOK
  <2>2. ASSUME NEW k \in Connection, Waits(n, k), Apart(n, k.client), conn'[n] = k
        PROVE  (Waits(n, conn[n]))'
    <3>1. Waits(n, k)'
      BY <2>2, WaitsKept
    <3> QED
      BY <2>2, <3>1 DEF Waits
  <2> QED
    BY <2>1, <2>2
<1>3. ASSUME srv[n] \notin {"idle", "recv", "hello"}
      PROVE  /\ pc'[conn[n].client] \notin {"idle", "connect", "hello"}
             /\ pc'[conn[n].client] = "wait" => local'[conn[n].client].target.host = n
  <2>1. conn[n].client \in Clients /\ Apart(n, conn[n].client)
    BY <1>1, <1>3 DEF TypeOK
  <2>2. /\ pc[conn[n].client] \notin {"idle", "connect", "hello"}
        /\ pc[conn[n].client] = "wait" => local[conn[n].client].target.host = n
    BY <1>3 DEF Served
  <2> QED
    BY <2>1, <2>2 DEF Apart
<1> QED
  BY <1>2, <1>3 DEF Served

\* A line to which nothing is done.
LEMMA LineKept ==
  ASSUME TypeOK, NEW n \in Procs, Line(n), \A c \in Clients : Apart(n, c),
         backlog'[n] = backlog[n], conn'[n] = conn[n], srv'[n] = srv[n]
  PROVE  Line(n)'
<1>1. Served(n)'
  BY ServedKept DEF Line
<1>2. (\A i \in DOMAIN backlog[n] : Waits(n, backlog[n][i]))'
  <2> SUFFICES ASSUME NEW i \in DOMAIN backlog[n], NEW k, k = backlog[n][i]
               PROVE  Waits(n, k)'
    BY DEF Waits
  <2>1. k \in Connection
    BY DEF TypeOK
  <2>2. Apart(n, k.client)
    BY <2>1 DEF Connection
  <2> QED
    BY <2>2, QueueKept
<1> QED
  BY <1>1, <1>2 DEF Line

\* A connection that joins the end of the queue.
LEMMA LineGrows ==
  ASSUME TypeOK, NEW n \in Procs, Line(n), \A c \in Clients : Apart(n, c),
         NEW k \in Connection, backlog'[n] = Append(backlog[n], k),
         conn'[n] = conn[n], srv'[n] = srv[n], Waits(n, k)',
         k.body = "hello" => pc[k.client] = "connect"
  PROVE  Line(n)'
<1> DEFINE s == backlog[n]
           t == Append(s, k)
<1>1. Served(n)'
  BY ServedKept DEF Line
<1>2. /\ s \in Seq(Connection) /\ Len(s) \in Nat
      /\ DOMAIN t = 1..(Len(s) + 1) /\ DOMAIN s = 1..Len(s)
      /\ t[Len(s) + 1] = k
      /\ \A i \in DOMAIN s : t[i] = s[i]
  BY DEF TypeOK
<1>3. \A i \in DOMAIN t : i = Len(s) + 1 \/ i \in DOMAIN s
  BY <1>2
<1>4. ASSUME k.body = "hello", NEW i \in DOMAIN s
      PROVE  s[i].body = "hello" => s[i].client # k.client
  <2>1. Waits(n, s[i])
    BY DEF Line
  <2> QED
    BY <1>4, <2>1 DEF Waits
<1>5. ASSUME k.body = "hello", srv[n] # "idle"
      PROVE  k.client # conn[n].client
  <2>1. Served(n)
    BY DEF Line
  <2> QED
    BY <1>5, <2>1 DEF Served, Waits
<1>6. backlog'[n] = t
  OBVIOUS
<1>7. (\A i \in DOMAIN backlog[n] : Waits(n, backlog[n][i]))'
  <2> SUFFICES ASSUME NEW i \in DOMAIN t, NEW h, h = t[i]
               PROVE  Waits(n, h)'
    BY <1>6 DEF Waits
  <2>1. CASE i = Len(s) + 1
    BY <1>2, <2>1
  <2>2. CASE i \in DOMAIN s
    <3>1. h = backlog[n][i]
      BY <1>2, <2>2
    <3>2. h \in Connection
      BY <2>2, <3>1 DEF TypeOK
    <3>3. Apart(n, h.client)
      BY <3>2 DEF Connection
    <3> QED
      BY <2>2, <3>1, <3>3, QueueKept
  <2> QED
    BY <1>3, <2>1, <2>2
<1>8. ASSUME NEW i \in DOMAIN t, NEW j \in DOMAIN t,
             t[i].body = "hello", t[j].body = "hello", t[i].client = t[j].client
      PROVE  i = j
  <2>1. CASE i \in DOMAIN s /\ j \in DOMAIN s
    BY <1>2, <1>8, <2>1 DEF Line
  <2>2. CASE i = Len(s) + 1 /\ j \in DOMAIN s
    BY <1>2, <1>4, <1>8, <2>2
  <2>3. CASE i \in DOMAIN s /\ j = Len(s) + 1
    BY <1>2, <1>4, <1>8, <2>3
  <2> QED
    BY <1>3, <2>1, <2>2, <2>3
<1>9. ASSUME srv[n] # "idle", NEW i \in DOMAIN t, t[i].body = "hello"
      PROVE  t[i].client # conn[n].client
  <2>1. CASE i \in DOMAIN s
    BY <1>2, <1>9, <2>1 DEF Line
  <2>2. CASE i = Len(s) + 1
    BY <1>2, <1>5, <1>9, <2>2
  <2> QED
    BY <1>3, <2>1, <2>2
<1> HIDE DEF s, t
<1> QED
  BY <1>1, <1>6, <1>7, <1>8, <1>9 DEF Line

\* A server that moves on with its connection, or ends it.
LEMMA LineServed ==
  ASSUME TypeOK, NEW n \in Procs, Line(n), srv[n] # "idle",
         backlog'[n] = backlog[n], srv'[n] = "idle" \/ conn'[n] = conn[n],
         \A i \in DOMAIN backlog[n] : Apart(n, backlog[n][i].client),
         Served(n)'
  PROVE  Line(n)'
<1>1. (\A i \in DOMAIN backlog[n] : Waits(n, backlog[n][i]))'
  <2> SUFFICES ASSUME NEW i \in DOMAIN backlog[n], NEW k, k = backlog[n][i]
               PROVE  Waits(n, k)'
    BY DEF Waits
  <2> QED
    BY QueueKept
<1> QED
  BY <1>1 DEF Line

\* What keeps the two sides agreed: a promise is kept until its node is known,
\* and whoever learns of a node, or answers, has the other's promise.
LEMMA AgreedKept ==
  ASSUME TypeOK, TypeOK', Agreed,
         \A n, m \in Procs : Knows(n, m) => Knows(n, m)',
         \A n, m \in Procs : Pledged(m, n) => Pledged(m, n)' \/ Knows(m, n)',
         \A n, m \in Procs : Promised(m, n) => Promised(m, n)' \/ Knows(m, n)',
         \A n, m \in Procs : Knows(n, m)' =>
            Knows(n, m) \/ Knows(m, n)' \/ Pledged(m, n)' \/ Promised(m, n)',
         \A n, m \in Procs : Promised(n, m)' =>
            Promised(n, m) \/ Knows(m, n)' \/ Pledged(m, n)',
         \A c \in Clients : Hears(c)' =>
            \/ /\ Hears(c)
               /\ local'[c].owner = local[c].owner
               /\ local'[c].target = local[c].target
            \/ \E n, m \in Procs :
                 /\ local'[c].owner = m
                 /\ local'[c].target.host = n
                 /\ Promised(n, m)'
  PROVE  Agreed'
<1>1. ASSUME NEW n \in Procs, NEW m \in Procs, Knows(n, m)'
      PROVE  Knows(m, n)' \/ Pledged(m, n)' \/ Promised(m, n)'
  BY <1>1 DEF Agreed
<1>2. ASSUME NEW n \in Procs, srv'[n] = "emplace"
      PROVE  (Knows(conn[n].from, n) \/ Pledged(conn[n].from, n))'
  <2>1. PICK m \in Procs : conn'[n].from = m
    <3>1. conn'[n] \in Connection
      BY <1>2 DEF TypeOK
    <3> QED
      BY <3>1 DEF Connection
  <2>2. Promised(n, m)'
    BY <1>2, <2>1 DEF Promised
  <2>3. Promised(n, m) => Knows(m, n) \/ Pledged(m, n)
    BY DEF Agreed, Promised
  <2>4. Knows(m, n)' \/ Pledged(m, n)'
    BY <2>2, <2>3
  <2> QED
    BY <2>1, <2>4 DEF Knows, Pledged, contains_node
<1>3. ASSUME NEW c \in Clients, Hears(c)'
      PROVE  (\/ Knows(local[c].target.host, local[c].owner)
              \/ Promised(local[c].target.host, local[c].owner))'
  <2>1. PICK n, m \in Procs : local'[c].owner = m /\ local'[c].target.host = n
    BY DEF TypeOK, Local, Node
  <2>2. Knows(n, m)' \/ Promised(n, m)'
    <3>1. CASE Hears(c) /\ local'[c].owner = local[c].owner
                        /\ local'[c].target = local[c].target
      <4>1. Knows(n, m) \/ Promised(n, m)
        BY <2>1, <3>1 DEF Agreed
      <4> QED
        BY <4>1
    <3> QED
      BY <1>3, <2>1, <3>1
  <2> QED
    BY <2>1, <2>2 DEF Knows, Promised, contains_node
<1>4. (\A n, m \in Procs :
         Knows(n, m) => Knows(m, n) \/ Pledged(m, n) \/ Promised(m, n))'
  BY <1>1
<1> QED
  BY <1>2, <1>3, <1>4 DEF Agreed

\* A step that answers nobody and adds no node.
LEMMA AgreedSame ==
  ASSUME TypeOK, TypeOK', Agreed,
         nodes' = nodes, port' = port,
         \A n \in Procs : srv'[n] = "emplace" <=> srv[n] = "emplace",
         \A n \in Procs : srv[n] = "emplace" => conn'[n].from = conn[n].from,
         \A c \in Clients :
           /\ Hears(c)' <=> Hears(c)
           /\ Hears(c) => /\ local'[c].owner = local[c].owner
                          /\ local'[c].target = local[c].target
  PROVE  Agreed'
<1>1. \A n, m \in Procs : Knows(n, m)' <=> Knows(n, m)
  BY DEF Knows, contains_node
<1>2. \A n, m \in Procs : Promised(n, m)' <=> Promised(n, m)
  BY DEF Promised
<1>3. \A n, m \in Procs : Pledged(m, n) => Pledged(m, n)'
  BY DEF Pledged
<1> QED
  BY <1>1, <1>2, <1>3, AgreedKept

\* A node that joins a list is known, and whoever was known still is.
LEMMA PushKnows ==
  ASSUME TypeOK, NEW n \in Procs, NEW m \in Procs, NEW node \in Node,
         push_back(n, node), port' = port, node.host = m, node.port = port[m]
  PROVE  /\ \A x, y \in Procs : Knows(x, y) => Knows(x, y)'
         /\ \A x, y \in Procs : Knows(x, y)' => Knows(x, y) \/ (x = n /\ y = m)
         /\ Knows(n, m)'
<1>1. /\ nodes[n] \in Seq(Node)
      /\ nodes'[n] = Append(nodes[n], node)
      /\ \A x \in Procs \ {n} : nodes'[x] = nodes[x]
  BY DEF TypeOK, push_back
<1>2. node = [host |-> m, port |-> port[m]]
  BY DEF Node
<1>3. ASSUME NEW x \in Procs, NEW y \in Procs
      PROVE  Knows(x, y)' <=> Knows(x, y) \/ (x = n /\ y = m)
  <2>1. CASE x # n
    BY <1>1, <2>1 DEF Knows, contains_node
  <2>2. CASE x = n
    <3> DEFINE p == [host |-> y, port |-> port[y]]
               s == nodes[n]
    <3>1. p = node <=> y = m
      BY <1>2
    <3>2. \A i \in DOMAIN s : i \in DOMAIN Append(s, node) /\ Append(s, node)[i] = s[i]
      BY <1>1
    <3>3. /\ DOMAIN Append(s, node) = 1..(Len(s) + 1) /\ Len(s) \in Nat
          /\ Append(s, node)[Len(s) + 1] = node /\ DOMAIN s = 1..Len(s)
      BY <1>1
    <3>4. (\E i \in DOMAIN Append(s, node) : Append(s, node)[i] = p)
            <=> (\E i \in DOMAIN s : s[i] = p) \/ p = node
      <4>1. \A i \in DOMAIN Append(s, node) : i \in DOMAIN s \/ i = Len(s) + 1
        BY <3>3
      <4>2. Len(s) + 1 \in DOMAIN Append(s, node)
        BY <3>3
      <4> HIDE DEF s, p
      <4> QED
        BY <3>2, <3>3, <4>1, <4>2
    <3>5. Knows(x, y)' <=> (\E i \in DOMAIN Append(s, node) : Append(s, node)[i] = p)
      BY <1>1, <2>2 DEF Knows, contains_node
    <3>6. Knows(x, y) <=> (\E i \in DOMAIN s : s[i] = p)
      BY <2>2 DEF Knows, contains_node
    <3> QED
      BY <2>2, <3>1, <3>4, <3>5, <3>6
  <2> QED
    BY <2>1, <2>2
<1> QED
  BY <1>3

LEMMA FreshIs == Fresh.heard = NoPort /\ Fresh.link = "none"
BY DEF Fresh

LEMMA InitSides == Init => Sides
<1> SUFFICES ASSUME Init PROVE Sides
  OBVIOUS
<1>1. \A n \in Procs : Undisturbed(n)
  BY DEF Init, Undisturbed
<1>2. \A n \in Procs : Line(n)
  BY DEF Init, Line, Served
<1>3. \A c \in Clients : pc[c] = "idle" /\ local[c] = Fresh
  BY DEF Init
<1>4. \A c \in Clients : Calling(c) /\ ~Hears(c)
  BY <1>3, FreshIs DEF Calling, Hears
<1>5. Agreed
  <2>1. \A n, m \in Procs : ~Knows(n, m)
    BY DEF Init, Knows, contains_node
  <2>2. \A n \in Procs : srv[n] # "emplace"
    BY DEF Init
  <2> QED
    BY <1>4, <2>1, <2>2 DEF Agreed
<1> QED
  BY <1>1, <1>2, <1>4, <1>5 DEF Sides

\* A client that starts.
LEMMA BeginSides ==
  ASSUME TypeOK, TypeOK', Sides, NEW n \in Procs, NEW c \in Clients,
         \/ \E node \in Node : AddNode(n, node, c)
         \/ PropagateTransaction(n, c) \/ PropagateBlock(n, c) \/ FetchGenesis(n, c)
  PROVE  Sides'
<1>0. local[c] \in Local
  BY DEF TypeOK
<1>1. /\ pc[c] = "idle"
      /\ pc' = [pc EXCEPT ![c] = "connect"] \/ pc' = [pc EXCEPT ![c] = "next"]
      /\ alive' = alive /\ port' = port /\ nodes' = nodes /\ listen' = listen
      /\ backlog' = backlog /\ conn' = conn /\ srv' = srv
      /\ ui' = ui \/ ui' = [ui EXCEPT ![n] = "propagate"]
  BY DEF AddNode, PropagateTransaction, PropagateBlock, FetchGenesis, StartPropagate,
         Go, procVars, serverVars, history
<1>2. /\ \A d \in Clients \ {c} : local'[d] = local[d]
      /\ local'[c].heard = local[c].heard
      /\ local'[c].link = local[c].link
  <2>1. ASSUME NEW node \in Node, AddNode(n, node, c)
        PROVE  /\ \A d \in Clients \ {c} : local'[d] = local[d]
               /\ local'[c].heard = local[c].heard
               /\ local'[c].link = local[c].link
    <3>1. local' = [local EXCEPT ![c].owner = n, ![c].target = node]
      BY <2>1 DEF AddNode
    <3>2. \A d \in Clients \ {c} : local'[d] = local[d]
      BY <3>1 DEF TypeOK
    <3>3. local'[c].heard = local[c].heard
      BY <1>0, <3>1 DEF TypeOK, Local
    <3>4. local'[c].link = local[c].link
      BY <1>0, <3>1 DEF TypeOK, Local
    <3> QED
      BY <3>2, <3>3, <3>4
  <2>2. ASSUME NEW msg, NEW byUi, StartPropagate(n, c, msg, byUi)
        PROVE  /\ \A d \in Clients \ {c} : local'[d] = local[d]
               /\ local'[c].heard = local[c].heard
               /\ local'[c].link = local[c].link
    <3>1. local' = [local EXCEPT ![c].owner = n, ![c].list = nodes[n],
                                 ![c].body = msg, ![c].ui = byUi]
      BY <2>2 DEF StartPropagate
    <3>2. \A d \in Clients \ {c} : local'[d] = local[d]
      BY <3>1 DEF TypeOK
    <3>3. local'[c].heard = local[c].heard
      BY <1>0, <3>1 DEF TypeOK, Local
    <3>4. local'[c].link = local[c].link
      BY <1>0, <3>1 DEF TypeOK, Local
    <3> QED
      BY <3>2, <3>3, <3>4
  <2> QED
    BY <2>1, <2>2 DEF PropagateTransaction, PropagateBlock, FetchGenesis
<1>3. \A d \in Clients \ {c} : pc'[d] = pc[d]
  BY <1>1 DEF TypeOK
<1>4. pc'[c] \in {"connect", "next"}
  BY <1>1 DEF TypeOK
<1>5. \A m \in Procs, d \in Clients : Apart(m, d)
  BY <1>1, <1>2, <1>3 DEF Apart
<1>6. \A m \in Procs : Undisturbed(m)'
  BY <1>1 DEF TypeOK, Sides, Undisturbed
<1>7. \A m \in Procs : Line(m)'
  BY <1>1, <1>5, LineKept DEF Sides
<1>8. \A d \in Clients : Calling(d)' /\ (Hears(d)' <=> Hears(d))
  <2> SUFFICES ASSUME NEW d \in Clients PROVE Calling(d)' /\ (Hears(d)' <=> Hears(d))
    OBVIOUS
  <2>1. Calling(d)
    BY DEF Sides
  <2>2. CASE d # c
    BY <1>2, <1>3, <2>1, <2>2 DEF Calling, Hears
  <2>3. CASE d = c
    BY <1>1, <1>2, <1>4, <2>1, <2>3 DEF Calling, Hears
  <2> QED
    BY <2>2, <2>3
<1>9. Agreed'
  <2>1. \A d \in Clients : Hears(d) => d # c
    BY <1>1 DEF Hears
  <2> QED
    BY <1>1, <1>2, <1>8, <2>1, AgreedSame DEF Sides
<1> QED
  BY <1>6, <1>7, <1>8, <1>9 DEF Sides

\* A client that ends, or goes on because of what it has heard.
LEMMA ClientSides ==
  ASSUME TypeOK, TypeOK', Sides, NEW c \in Clients,
         ConnectFails(c) \/ RecvHello(c) \/ CheckNode(c) \/ EndPropagate(c)
  PROVE  Sides'
<1>1. /\ alive' = alive /\ port' = port /\ nodes' = nodes /\ listen' = listen
      /\ backlog' = backlog /\ conn' = conn /\ srv' = srv
      /\ ui' = ui \/ ui' = [ui EXCEPT ![local[c].owner] = "free"]
      /\ \A d \in Clients \ {c} : pc'[d] = pc[d] /\ local'[d] = local[d]
  BY DEF TypeOK, ConnectFails, RecvHello, CheckNode, EndPropagate, End, Go,
         procVars, serverVars, history
<1>2. Calling(c) /\ local[c].target.port \in Ports /\ local[c].target.host \in Procs
      /\ local[c].owner \in Procs
  BY DEF Sides, TypeOK, Local, Node
<1>3. \/ pc[c] = "connect" /\ pc'[c] = "done" /\ local'[c] = Fresh
      \/ pc[c] = "next" /\ pc'[c] = "done" /\ local'[c] = Fresh
      \/ /\ pc[c] = "wait" /\ pc'[c] = "check" /\ local'[c] = local[c]
         /\ local[c].heard # NoPort
      \/ /\ pc[c] = "wait" /\ pc'[c] = "done" /\ local'[c] = Fresh
         /\ local[c].heard = NoPort /\ local[c].link # "open"
      \/ /\ pc[c] = "check" /\ pc'[c] = "push" /\ local'[c] = local[c]
         /\ local[c].heard # NoPort
      \/ /\ pc[c] = "check" /\ pc'[c] = "done" /\ local'[c] = Fresh
         /\ local[c].heard # NoPort
         /\ Knows(local[c].owner, local[c].target.host)
  <2>1. CASE ConnectFails(c) \/ EndPropagate(c)
    BY <2>1 DEF TypeOK, ConnectFails, EndPropagate, End, Go
  <2>2. CASE RecvHello(c)
    BY <1>2, <2>2, PortsAssumption DEF TypeOK, RecvHello, End, Go, Calling
  <2>3. CASE CheckNode(c)
    <3>1. pc[c] = "check"
      BY <2>3 DEF CheckNode, End, Go
    <3>2. local[c].target = [host |-> local[c].target.host,
                             port |-> port[local[c].target.host]]
      BY <1>2, <3>1 DEF TypeOK, Local, Node, Calling, Sides, Undisturbed
    <3>3. contains_node(local[c].owner, local[c].target) =>
            Knows(local[c].owner, local[c].target.host)
      BY <3>2 DEF Knows
    <3> QED
      BY <1>2, <2>3, <3>1, <3>3 DEF TypeOK, CheckNode, End, Go, Calling
  <2> QED
    BY <2>1, <2>2, <2>3
<1>4. \A m \in Procs, d \in Clients : Apart(m, d)
  <2>1. \A m \in Procs : Apart(m, c)
    BY <1>3 DEF Apart
  <2> QED
    BY <1>1, <2>1 DEF Apart
<1>5. \A m \in Procs : Undisturbed(m)'
  BY <1>1 DEF TypeOK, Sides, Undisturbed
<1>6. \A m \in Procs : Line(m)'
  BY <1>1, <1>4, LineKept DEF Sides
<1>7. \A d \in Clients : Calling(d)'
  <2>1. Calling(c)'
    BY <1>2, <1>3, FreshIs DEF Calling
  <2>2. \A d \in Clients \ {c} : Calling(d) /\ pc'[d] = pc[d] /\ local'[d] = local[d]
    BY <1>1 DEF Sides
  <2> QED
    BY <2>1, <2>2 DEF Calling
<1>8. \A d \in Clients : Hears(d)' => /\ Hears(d)
                                     /\ local'[d].owner = local[d].owner
                                     /\ local'[d].target = local[d].target
  BY <1>1, <1>3 DEF Hears
<1>9. \A n, m \in Procs : Pledged(m, n) => Pledged(m, n)' \/ Knows(m, n)
  <2> SUFFICES ASSUME NEW n \in Procs, NEW m \in Procs, NEW d \in Clients,
                      Hears(d), local[d].owner = m, local[d].target.host = n
               PROVE  Pledged(m, n)' \/ Knows(m, n)
    BY DEF Pledged
  <2>1. (Hears(d)' /\ local'[d] = local[d]) \/ Knows(m, n)
    BY <1>1, <1>3 DEF Hears
  <2> QED
    BY <2>1 DEF Pledged
<1>10. Agreed'
  <2>1. \A n, m \in Procs : Knows(n, m)' <=> Knows(n, m)
    BY <1>1 DEF Knows, contains_node
  <2>2. \A n, m \in Procs : Promised(n, m)' <=> Promised(n, m)
    BY <1>1 DEF Promised
  <2>3. Agreed
    BY DEF Sides
  <2> QED
    BY <1>8, <1>9, <2>1, <2>2, <2>3, AgreedKept
<1> QED
  BY <1>5, <1>6, <1>7, <1>10 DEF Sides

LEMMA PushNodeSides ==
  ASSUME TypeOK, TypeOK', Sides, NEW c \in Clients, PushNode(c)
  PROVE  Sides'
<1>1. /\ alive' = alive /\ port' = port /\ listen' = listen /\ ui' = ui
      /\ backlog' = backlog /\ conn' = conn /\ srv' = srv
      /\ \A d \in Clients \ {c} : pc'[d] = pc[d] /\ local'[d] = local[d]
      /\ pc[c] = "push" /\ pc'[c] = "done" /\ local'[c] = Fresh
      /\ push_back(local[c].owner, local[c].target)
  BY DEF TypeOK, PushNode, End, Go, serverVars
<1>2. PICK n \in Procs, m \in Procs :
        local[c].owner = n /\ local[c].target.host = m
  BY DEF TypeOK, Local, Node
<1>3. /\ Calling(c) /\ Hears(c)
      /\ local[c].target \in Node /\ local[c].target.port = port[m]
  <2>1. Calling(c) /\ Undisturbed(m)
    BY DEF Sides
  <2> QED
    BY <1>1, <2>1 DEF TypeOK, Local, Calling, Hears, Undisturbed
<1>4. /\ \A x, y \in Procs : Knows(x, y) => Knows(x, y)'
      /\ \A x, y \in Procs : Knows(x, y)' => Knows(x, y) \/ (x = n /\ y = m)
      /\ Knows(n, m)'
  BY <1>1, <1>2, <1>3, PushKnows
<1>5. \A x \in Procs, d \in Clients : Apart(x, d)
  BY <1>1, <1>3 DEF Apart, Hears
<1>6. \A x \in Procs : Undisturbed(x)' /\ Line(x)'
  <2>1. \A x \in Procs : Line(x)'
    BY <1>1, <1>5, LineKept DEF Sides
  <2> QED
    BY <1>1, <2>1 DEF Sides, Undisturbed
<1>7. \A d \in Clients : Calling(d)'
  <2>1. Calling(c)'
    BY <1>1, <1>3, FreshIs DEF Calling
  <2>2. \A d \in Clients \ {c} : Calling(d) /\ pc'[d] = pc[d] /\ local'[d] = local[d]
    BY <1>1 DEF Sides
  <2> QED
    BY <2>1, <2>2 DEF Calling
<1>8. \A d \in Clients : Hears(d)' => Hears(d) /\ local'[d] = local[d]
  BY <1>1 DEF Hears
<1>9. \A x, y \in Procs : Promised(x, y)' <=> Promised(x, y)
  BY <1>1 DEF Promised
<1>10. \A x, y \in Procs : Pledged(y, x) => Pledged(y, x)' \/ Knows(y, x)'
  <2> SUFFICES ASSUME NEW x \in Procs, NEW y \in Procs, NEW d \in Clients,
                      Hears(d), local[d].owner = y, local[d].target.host = x
               PROVE  Pledged(y, x)' \/ Knows(y, x)'
    BY DEF Pledged
  <2>1. CASE d = c
    BY <1>2, <1>4, <2>1
  <2>2. CASE d # c
    <3>1. Hears(d)' /\ local'[d].owner = y /\ local'[d].target.host = x
      BY <1>1, <2>2 DEF Hears
    <3> QED
      BY <3>1 DEF Pledged
  <2> QED
    BY <2>1, <2>2
<1>11. Knows(m, n)' \/ Promised(m, n)'
  BY <1>2, <1>3, <1>4, <1>9 DEF Sides, Agreed
<1>12. \A x, y \in Procs : Knows(x, y)' =>
         Knows(x, y) \/ Knows(y, x)' \/ Pledged(y, x)' \/ Promised(y, x)'
  BY <1>4, <1>11
<1>13. Agreed'
  <2>1. Agreed
    BY DEF Sides
  <2> QED
    BY <1>4, <1>8, <1>9, <1>10, <1>12, <2>1, AgreedKept
<1> QED
  BY <1>6, <1>7, <1>13 DEF Sides

\* A client that connects has no other connection; a propagate may have many,
\* and waits for nothing.
LEMMA ConnectSides ==
  ASSUME TypeOK, TypeOK', Sides, NEW c \in Clients, Connect(c)
  PROVE  Sides'
<1>0. PICK k : k = [client |-> c, from |-> local[c].owner, port |-> NoPort,
                    body |-> "hello"]
  OBVIOUS
<1>1. PICK m \in Procs : local[c].target.host = m
  BY DEF TypeOK, Local, Node
<1>2. /\ alive' = alive /\ port' = port /\ nodes' = nodes /\ listen' = listen
      /\ conn' = conn /\ srv' = srv /\ ui' = ui
      /\ \A d \in Clients \ {c} : pc'[d] = pc[d] /\ local'[d] = local[d]
      /\ pc[c] = "connect" /\ pc'[c] = "hello"
      /\ backlog'[m] = Append(backlog[m], k)
      /\ \A n \in Procs \ {m} : backlog'[n] = backlog[n]
  BY <1>0, <1>1 DEF TypeOK, Connect, Go, procVars
<1>3. /\ local'[c].owner = local[c].owner
      /\ local'[c].target = local[c].target
      /\ local'[c].heard = local[c].heard
      /\ local'[c].link = "open"
  <2>1. local[c] \in Local /\ local'[c] = [local[c] EXCEPT !.link = "open"]
    BY DEF TypeOK, Connect
  <2> QED
    BY <2>1 DEF Local
<1>4. k \in Connection /\ local[c].target.port \in Ports
  BY <1>0 DEF TypeOK, Local, Connection, Node
<1>5. \A n \in Procs, d \in Clients : Apart(n, d)
  BY <1>2 DEF Apart
<1>6. Calling(c) /\ local[c].target.port = DEFAULT_PORT
  <2>1. Calling(c) /\ Undisturbed(m)
    BY DEF Sides
  <2>2. local[c].target.port = listen[m]
    BY <1>1 DEF Connect, Up
  <2> QED
    BY <1>4, <2>1, <2>2, PortsAssumption DEF Undisturbed
<1>7. Waits(m, k)'
  BY <1>0, <1>1, <1>2, <1>3, <1>6 DEF Waits, Calling
<1>8. \A n \in Procs : Line(n)'
  <2>1. Line(m)'
    <3>1. Line(m) /\ k.client = c
      BY <1>0 DEF Sides
    <3> QED
      BY <1>2, <1>4, <1>5, <1>7, <3>1, LineGrows
  <2>2. \A n \in Procs \ {m} : Line(n)'
    BY <1>2, <1>5, LineKept DEF Sides
  <2> QED
    BY <2>1, <2>2
<1>9. \A n \in Procs : Undisturbed(n)'
  BY <1>2 DEF Sides, Undisturbed
<1>10. \A d \in Clients : Calling(d)'
  <2>1. Calling(c)'
    BY <1>2, <1>3, <1>6 DEF Calling
  <2>2. \A d \in Clients \ {c} : Calling(d) /\ pc'[d] = pc[d] /\ local'[d] = local[d]
    BY <1>2 DEF Sides
  <2> QED
    BY <2>1, <2>2 DEF Calling
<1>11. Agreed'
  <2>1. \A d \in Clients :
          /\ Hears(d)' <=> Hears(d)
          /\ Hears(d) => /\ local'[d].owner = local[d].owner
                         /\ local'[d].target = local[d].target
    BY <1>2 DEF Hears
  <2>2. Agreed
    BY DEF Sides
  <2> QED
    BY <1>2, <2>1, <2>2, AgreedSame
<1> QED
  BY <1>8, <1>9, <1>10, <1>11 DEF Sides

LEMMA PropagateSendSides ==
  ASSUME TypeOK, TypeOK', Sides, NEW c \in Clients, PropagateSend(c)
  PROVE  Sides'
<1>0. local[c] \in Local
  BY DEF TypeOK
<1>k. PICK k : k = [client |-> c, from |-> local[c].owner, port |-> NoPort,
                    body |-> local[c].body]
  OBVIOUS
<1>1. PICK m \in Procs : local[c].list[local[c].at].host = m
  <2>1. /\ local[c].list \in Seq(Node) /\ local[c].at \in Nat \ {0}
        /\ local[c].at <= Len(local[c].list)
    BY <1>0 DEF PropagateSend, Propagating, Local
  <2>2. local[c].list[local[c].at] \in Node
    BY <2>1
  <2> QED
    BY <2>2 DEF Node
<1>2. /\ alive' = alive /\ port' = port /\ nodes' = nodes /\ listen' = listen
      /\ conn' = conn /\ srv' = srv /\ ui' = ui /\ pc' = pc /\ pc[c] = "next"
      /\ \A d \in Clients \ {c} : local'[d] = local[d]
      /\ backlog'[m] = Append(backlog[m], k)
      /\ \A n \in Procs \ {m} : backlog'[n] = backlog[n]
  BY <1>1, <1>k DEF TypeOK, PropagateSend, Propagating, procVars
<1>3. /\ local'[c].owner = local[c].owner
      /\ local'[c].target = local[c].target
      /\ local'[c].heard = local[c].heard
      /\ local'[c].link = local[c].link
  <2>1. local'[c] = [local[c] EXCEPT !.at = @ + 1]
    BY DEF TypeOK, PropagateSend
  <2> QED
    BY <1>0, <2>1 DEF Local
<1>4. k \in Connection /\ k.body # "hello" /\ k.client = c
  BY <1>0, <1>k DEF Local, Connection
<1>5. \A n \in Procs, d \in Clients : Apart(n, d)
  BY <1>2, <1>3 DEF Apart
<1>6. Waits(m, k)'
  BY <1>2, <1>4 DEF Waits
<1>7. \A n \in Procs : Line(n)'
  <2>1. Line(m)'
    <3>1. Line(m)
      BY DEF Sides
    <3> QED
      BY <1>2, <1>4, <1>5, <1>6, <3>1, LineGrows
  <2>2. \A n \in Procs \ {m} : Line(n)'
    BY <1>2, <1>5, LineKept DEF Sides
  <2> QED
    BY <2>1, <2>2
<1>8. \A n \in Procs : Undisturbed(n)'
  BY <1>2 DEF Sides, Undisturbed
<1>9. \A d \in Clients : Calling(d)'
  BY <1>2, <1>3 DEF Sides, Calling
<1>10. Agreed'
  <2>1. \A d \in Clients :
          /\ Hears(d)' <=> Hears(d)
          /\ Hears(d) => /\ local'[d].owner = local[d].owner
                         /\ local'[d].target = local[d].target
    BY <1>2, <1>3 DEF Hears
  <2>2. Agreed
    BY DEF Sides
  <2> QED
    BY <1>2, <2>1, <2>2, AgreedSame
<1> QED
  BY <1>7, <1>8, <1>9, <1>10 DEF Sides

\* The port reaches the connection wherever it is.
LEMMA SendHelloSides ==
  ASSUME TypeOK, TypeOK', Sides, NEW c \in Clients, SendHello(c)
  PROVE  Sides'
<1>p. PICK p : p = port[local[c].owner]
  OBVIOUS
<1> DEFINE Filled(k) == IF k.client = c THEN [k EXCEPT !.port = p] ELSE k
<1>1. /\ local[c].owner \in Procs
      /\ pc[c] = "hello" /\ pc' = [pc EXCEPT ![c] = "wait"]
      /\ alive' = alive /\ port' = port /\ nodes' = nodes /\ listen' = listen
      /\ local' = local /\ srv' = srv /\ ui' = ui
      /\ backlog' = [n \in Procs |-> [i \in DOMAIN backlog[n] |-> Filled(backlog[n][i])]]
      /\ conn' = [n \in Procs |-> Filled(conn[n])]
  BY <1>p DEF TypeOK, Local, SendHello, Go, procVars
<1>2. p = DEFAULT_PORT /\ DEFAULT_PORT # NoPort
  BY <1>1, <1>p, PortsAssumption DEF Sides, Undisturbed
<1>3. pc'[c] = "wait" /\ \A d \in Clients \ {c} : pc'[d] = pc[d]
  BY <1>1 DEF TypeOK
<1>4. ASSUME NEW k \in Connection
      PROVE  /\ Filled(k).client = k.client
             /\ Filled(k).from = k.from
             /\ Filled(k).body = k.body
             /\ Filled(k).port = IF k.client = c THEN p ELSE k.port
  BY DEF Connection
<1> HIDE DEF Filled
<1>5. ASSUME NEW n \in Procs, NEW k \in Connection, Waits(n, k)
      PROVE  Waits(n, Filled(k))'
  <2>0. k.client \in Clients
    BY DEF Connection
  <2> SUFFICES ASSUME NEW h, h = Filled(k) PROVE Waits(n, h)'
    BY DEF Waits
  <2>1. CASE k.client = c
    BY <1>1, <1>2, <1>3, <1>4, <1>5, <2>1 DEF Waits
  <2>2. CASE k.client # c
    BY <1>1, <1>3, <1>4, <1>5, <2>0, <2>2 DEF Waits
  <2> QED
    BY <2>1, <2>2
<1>6. ASSUME NEW n \in Procs
      PROVE  Line(n)'
  <2>0. Line(n)
    BY DEF Sides
  <2>1. \A i \in DOMAIN backlog[n] : backlog[n][i] \in Connection
    BY DEF TypeOK
  <2>2. /\ DOMAIN backlog'[n] = DOMAIN backlog[n]
        /\ \A i \in DOMAIN backlog[n] : backlog'[n][i] = Filled(backlog[n][i])
        /\ conn'[n] = Filled(conn[n])
    BY <1>1
  <2>3. (\A i \in DOMAIN backlog[n] : Waits(n, backlog[n][i]))'
    <3> SUFFICES ASSUME NEW i \in DOMAIN backlog[n], NEW k, k = backlog[n][i]
                 PROVE  Waits(n, Filled(k))'
      BY <2>2 DEF Waits
    <3> QED
      BY <1>5, <2>0, <2>1 DEF Line
  <2>4. ASSUME srv[n] # "idle"
        PROVE  /\ conn[n] \in Connection /\ conn[n].client \in Clients
               /\ conn'[n].client = conn[n].client
               /\ conn'[n].body = conn[n].body
    BY <1>4, <2>2, <2>4 DEF TypeOK, Connection
  <2>5. (srv[n] # "idle" => \A i \in DOMAIN backlog[n] :
           backlog[n][i].body = "hello" => backlog[n][i].client # conn[n].client)'
    BY <1>1, <1>4, <2>0, <2>1, <2>2, <2>4 DEF Line
  <2>6. (\A i, j \in DOMAIN backlog[n] :
           /\ backlog[n][i].body = "hello"
           /\ backlog[n][j].body = "hello"
           /\ backlog[n][i].client = backlog[n][j].client
           => i = j)'
    BY <1>4, <2>0, <2>1, <2>2 DEF Line
  <2>7. Served(n)'
    <3>1. Served(n)
      BY <2>0 DEF Line
    <3>2. ASSUME srv[n] \in {"recv", "hello"}
          PROVE  (Waits(n, conn[n]))'
      <4> SUFFICES ASSUME NEW k, k = conn[n] PROVE Waits(n, Filled(k))'
        BY <2>2 DEF Waits
      <4> QED
        BY <1>5, <2>4, <3>1, <3>2 DEF Served
    <3>3. ASSUME srv[n] \in {"hello", "emplace"}
          PROVE  conn'[n].body = "hello" /\ conn'[n].port = DEFAULT_PORT
      BY <1>2, <1>4, <2>2, <2>4, <3>1, <3>3 DEF Served
    <3>4. ASSUME srv[n] \notin {"idle", "recv", "hello"}
          PROVE  /\ pc'[conn[n].client] \notin {"idle", "connect", "hello"}
                 /\ pc'[conn[n].client] = "wait" =>
                      local[conn[n].client].target.host = n
      BY <1>1, <1>3, <2>4, <3>1, <3>4 DEF Served
    <3> QED
      BY <1>1, <2>4, <3>2, <3>3, <3>4 DEF Served
  <2> QED
    BY <2>3, <2>5, <2>6, <2>7 DEF Line
<1>7. \A n \in Procs : Undisturbed(n)'
  BY <1>1 DEF Sides, Undisturbed
<1>8. \A d \in Clients : Calling(d)' /\ (Hears(d)' <=> Hears(d))
  <2> SUFFICES ASSUME NEW d \in Clients PROVE Calling(d)' /\ (Hears(d)' <=> Hears(d))
    OBVIOUS
  <2>1. Calling(d)
    BY DEF Sides
  <2>2. CASE d = c
    BY <1>1, <1>3, <2>1, <2>2 DEF Calling, Hears
  <2>3. CASE d # c
    BY <1>1, <1>3, <2>1, <2>3 DEF Calling, Hears
  <2> QED
    BY <2>2, <2>3
<1>9. Agreed'
  <2>1. \A n \in Procs : srv[n] = "emplace" => conn'[n].from = conn[n].from
    BY <1>1, <1>4 DEF TypeOK
  <2>2. Agreed
    BY DEF Sides
  <2> QED
    BY <1>1, <1>8, <2>1, <2>2, AgreedSame
<1> QED
  BY <1>6, <1>7, <1>8, <1>9 DEF Sides

LEMMA AcceptSides ==
  ASSUME TypeOK, TypeOK', Sides, NEW n \in Procs, Accept(n)
  PROVE  Sides'
<1> DEFINE s == backlog[n]
<1>1. /\ alive' = alive /\ port' = port /\ nodes' = nodes /\ listen' = listen
      /\ ui' = ui /\ pc' = pc /\ local' = local
      /\ srv[n] = "idle" /\ srv'[n] = "recv"
      /\ s # <<>> /\ conn'[n] = Head(s) /\ backlog'[n] = Tail(s)
      /\ \A m \in Procs \ {n} :
           backlog'[m] = backlog[m] /\ conn'[m] = conn[m] /\ srv'[m] = srv[m]
  BY DEF TypeOK, Accept, ServerGo, procVars, clientVars
<1>2. Line(n) /\ s \in Seq(Connection)
  BY DEF Sides, TypeOK
<1>3. /\ 1 \in DOMAIN s /\ Head(s) = s[1] /\ DOMAIN s = 1..Len(s)
      /\ Len(s) \in Nat /\ DOMAIN Tail(s) = 1..(Len(s) - 1)
      /\ \A i \in DOMAIN Tail(s) : Tail(s)[i] = s[i + 1]
  BY <1>1, <1>2
<1>4. \A i \in DOMAIN Tail(s) : i + 1 \in DOMAIN s /\ i + 1 # 1 /\ i \in Int
  BY <1>3
<1>5. Line(n)'
  <2>1. (\A i \in DOMAIN backlog[n] : Waits(n, backlog[n][i]))'
    BY <1>1, <1>2, <1>3, <1>4 DEF Line, Waits
  <2>2. (Waits(n, conn[n]))'
    BY <1>1, <1>2, <1>3 DEF Line, Waits
  <2>3. \A i, j \in DOMAIN Tail(s) :
          /\ Tail(s)[i].body = "hello"
          /\ Tail(s)[j].body = "hello"
          /\ Tail(s)[i].client = Tail(s)[j].client
          => i = j
    <3> SUFFICES ASSUME NEW i \in DOMAIN Tail(s), NEW j \in DOMAIN Tail(s),
                        Tail(s)[i].body = "hello", Tail(s)[j].body = "hello",
                        Tail(s)[i].client = Tail(s)[j].client
                 PROVE  i = j
      OBVIOUS
    <3>1. i + 1 = j + 1
      BY <1>2, <1>3, <1>4 DEF Line
    <3> QED
      BY <1>4, <3>1
  <2>4. \A i \in DOMAIN Tail(s) :
          Tail(s)[i].body = "hello" => Tail(s)[i].client # Head(s).client
    <3> SUFFICES ASSUME NEW i \in DOMAIN Tail(s), Tail(s)[i].body = "hello",
                        Tail(s)[i].client = Head(s).client
                 PROVE  FALSE
      OBVIOUS
    <3>1. s[1].body = "hello"
      <4>1. Waits(n, s[i + 1]) /\ Waits(n, s[1])
        BY <1>2, <1>3, <1>4 DEF Line
      <4> QED
        BY <1>3, <4>1 DEF Waits
    <3> QED
      BY <1>2, <1>3, <1>4, <3>1 DEF Line
  <2>5. Served(n)'
    BY <1>1, <2>2 DEF Served
  <2> HIDE DEF s
  <2> QED
    BY <1>1, <2>1, <2>3, <2>4, <2>5 DEF Line
<1>6. \A m \in Procs : Line(m)'
  <2>1. \A m \in Procs, c \in Clients : Apart(m, c)
    BY <1>1 DEF Apart
  <2> QED
    BY <1>1, <1>5, <2>1, LineKept DEF Sides
<1>7. /\ \A m \in Procs : Undisturbed(m)'
      /\ \A c \in Clients : Calling(c)'
  BY <1>1 DEF Sides, Undisturbed, Calling
<1>8. Agreed'
  <2>1. \A m \in Procs : /\ srv'[m] = "emplace" <=> srv[m] = "emplace"
                         /\ srv[m] = "emplace" => conn'[m].from = conn[m].from
    BY <1>1
  <2>2. \A c \in Clients : Hears(c)' <=> Hears(c)
    BY <1>1 DEF Hears
  <2>3. Agreed
    BY DEF Sides
  <2> QED
    BY <1>1, <2>1, <2>2, <2>3, AgreedSame
<1> QED
  BY <1>6, <1>7, <1>8 DEF Sides

\* A server that has read a message, or is done with it, and answers nobody.
LEMMA ServeSides ==
  ASSUME TypeOK, TypeOK', Sides, NEW n \in Procs,
         \/ RecvMsg(n) \/ AnswerNoBlock(n) \/ UseMsg(n)
         \/ AnswerHello(n) /\ srv'[n] = "disconnect"
  PROVE  Sides'
<1>1. /\ alive' = alive /\ port' = port /\ nodes' = nodes /\ listen' = listen
      /\ ui' = ui /\ pc' = pc /\ local' = local /\ backlog' = backlog /\ conn' = conn
      /\ srv[n] \in {"recv", "hello", "ask_block", "block"}
      /\ \A m \in Procs \ {n} : srv'[m] = srv[m]
  BY DEF TypeOK, RecvMsg, AnswerNoBlock, UseMsg, AnswerHello, ServerGo, procVars,
         clientVars
<1>2. Line(n) /\ Served(n) /\ conn[n] \in Connection
  BY <1>1 DEF Sides, Line, TypeOK
<1>3. srv'[n] \notin {"idle", "recv", "emplace"}
      /\ (srv'[n] = "hello" => /\ conn[n].body = "hello" /\ conn[n].port # NoPort
                               /\ srv[n] = "recv")
      /\ (srv[n] = "recv" => \/ srv'[n] = conn[n].body
                             \/ conn[n].body = "hello" /\ pc[conn[n].client] = "done")
      /\ (srv[n] = "recv" /\ srv'[n] = conn[n].body /\ conn[n].body = "hello" =>
            conn[n].port # NoPort)
  BY <1>2 DEF TypeOK, RecvMsg, AnswerNoBlock, UseMsg, AnswerHello, ServerGo, Connection
<1>4. Served(n)'
  <2>1. srv'[n] = "hello" => Waits(n, conn[n]) /\ conn[n].port = DEFAULT_PORT
    BY <1>2, <1>3 DEF Served, Waits
  <2>2. srv'[n] # "hello" =>
          /\ pc[conn[n].client] \notin {"idle", "connect", "hello"}
          /\ pc[conn[n].client] = "wait" => local[conn[n].client].target.host = n
    <3>1. CASE srv[n] = "recv"
      BY <1>2, <1>3, <3>1 DEF Served, Waits
    <3>2. CASE srv[n] = "hello"
      BY <1>2, <3>2, PortsAssumption DEF Served, Waits
    <3>3. CASE srv[n] \in {"ask_block", "block"}
      BY <1>2, <3>3 DEF Served
    <3> QED
      BY <1>1, <3>1, <3>2, <3>3
  <2>3. srv'[n] = "hello" => conn[n].body = "hello"
    BY <1>3
  <2> QED
    BY <1>1, <1>3, <2>1, <2>2, <2>3 DEF Served, Waits
<1>5. \A m \in Procs, c \in Clients : Apart(m, c)
  BY <1>1 DEF Apart
<1>6. Line(n)'
  <2>1. \A i \in DOMAIN backlog[n] : Apart(n, backlog[n][i].client)
    BY <1>1 DEF Apart
  <2> QED
    BY <1>1, <1>2, <1>4, <2>1, LineServed
<1>7. \A m \in Procs : Line(m)'
  BY <1>1, <1>5, <1>6, LineKept DEF Sides
<1>8. /\ \A m \in Procs : Undisturbed(m)'
      /\ \A c \in Clients : Calling(c)'
  BY <1>1 DEF Sides, Undisturbed, Calling
<1>9. Agreed'
  <2>1. \A m \in Procs : srv'[m] = "emplace" <=> srv[m] = "emplace"
    BY <1>1, <1>3
  <2>2. \A c \in Clients : Hears(c)' <=> Hears(c)
    BY <1>1 DEF Hears
  <2>3. Agreed
    BY DEF Sides
  <2> QED
    BY <1>1, <2>1, <2>2, <2>3, AgreedSame
<1> QED
  BY <1>7, <1>8, <1>9 DEF Sides

\* The answer to a "hello": the client hears it, the server will add it.
LEMMA AnswerHelloSides ==
  ASSUME TypeOK, TypeOK', Sides, NEW n \in Procs, AnswerHello(n),
         srv'[n] # "disconnect"
  PROVE  Sides'
<1>1. /\ alive' = alive /\ port' = port /\ nodes' = nodes /\ listen' = listen
      /\ ui' = ui /\ pc' = pc /\ backlog' = backlog /\ conn' = conn
      /\ srv[n] = "hello" /\ srv'[n] = "emplace"
      /\ \A m \in Procs \ {n} : srv'[m] = srv[m]
      /\ local' = [local EXCEPT ![conn[n].client].heard =
                     IF pc[conn[n].client] = "wait" THEN port[n] ELSE @]
  BY DEF TypeOK, AnswerHello, ServerGo, procVars
<1>2. PICK k \in Connection : k = conn[n]
  BY <1>1 DEF TypeOK
<1>3. PICK c \in Clients : k.client = c
  BY DEF Connection
<1>4. PICK m \in Procs : k.from = m
  BY DEF Connection
<1>5. Line(n) /\ Served(n) /\ Undisturbed(n) /\ Calling(c)
  BY DEF Sides, Line
<1>6. /\ k.body = "hello" /\ k.port = DEFAULT_PORT
      /\ pc[c] = "wait" /\ local[c].owner = m /\ local[c].target.host = n
      /\ local[c].link = "open" /\ local[c].heard = NoPort
  BY <1>1, <1>2, <1>3, <1>4, <1>5, PortsAssumption DEF Served, Waits
<1>7. /\ \A d \in Clients \ {c} : local'[d] = local[d]
      /\ local'[c].owner = local[c].owner /\ local'[c].target = local[c].target
      /\ local'[c].link = local[c].link /\ local'[c].heard = DEFAULT_PORT
  <2>1. local[c] \in Local /\ local' = [local EXCEPT ![c].heard = DEFAULT_PORT]
    BY <1>1, <1>2, <1>3, <1>5, <1>6 DEF TypeOK, Undisturbed
  <2> QED
    BY <2>1 DEF TypeOK, Local
<1>8. \A x \in Procs, d \in Clients : x # n \/ d # c => Apart(x, d)
  BY <1>1, <1>6, <1>7 DEF Apart
<1>9. Line(n)'
  <2>1. Served(n)'
    BY <1>1, <1>2, <1>3, <1>6, <1>7 DEF Served
  <2>2. \A i \in DOMAIN backlog[n] : Apart(n, backlog[n][i].client)
    <3> SUFFICES ASSUME NEW i \in DOMAIN backlog[n], NEW h, h = backlog[n][i]
                 PROVE  Apart(n, h.client)
      OBVIOUS
    <3>1. h \in Connection
      BY DEF TypeOK
    <3>2. Waits(n, h) /\ (h.body = "hello" => h.client # c)
      BY <1>1, <1>2, <1>3, <1>5 DEF Line
    <3>3. h.client \in Clients /\ h.client # c
      BY <1>6, <3>1, <3>2 DEF Connection, Waits
    <3> QED
      BY <1>8, <3>3
  <2> QED
    BY <1>1, <1>5, <2>1, <2>2, LineServed
<1>10. \A x \in Procs : Line(x)'
  BY <1>1, <1>8, <1>9, LineKept DEF Sides
<1>11. \A x \in Procs : Undisturbed(x)'
  BY <1>1 DEF Sides, Undisturbed
<1>12. \A d \in Clients : Calling(d)'
  <2>1. Calling(c)'
    BY <1>1, <1>5, <1>6, <1>7 DEF Calling
  <2>2. \A d \in Clients \ {c} : Calling(d)'
    BY <1>1, <1>7 DEF Sides, Calling
  <2> QED
    BY <2>1, <2>2
<1>13. /\ Hears(c)' /\ \A d \in Clients \ {c} : Hears(d)' <=> Hears(d)
       /\ \A d \in Clients : /\ local'[d].owner = local[d].owner
                             /\ local'[d].target = local[d].target
  BY <1>1, <1>6, <1>7, PortsAssumption DEF Hears
<1>14. /\ Promised(n, m)'
       /\ \A x, y \in Procs : Promised(x, y) => Promised(x, y)'
       /\ \A x, y \in Procs : Promised(x, y)' => Promised(x, y) \/ (x = n /\ y = m)
  BY <1>1, <1>2, <1>4 DEF Promised
<1>15. Pledged(m, n)'
  BY <1>6, <1>7, <1>13 DEF Pledged
<1>16. \A x, y \in Procs : Pledged(y, x) => Pledged(y, x)'
  BY <1>13 DEF Pledged
<1>17. Agreed'
  <2>1. \A x, y \in Procs : Knows(x, y)' <=> Knows(x, y)
    BY <1>1 DEF Knows, contains_node
  <2>2. \A x, y \in Procs :
          Promised(x, y)' => Promised(x, y) \/ Knows(y, x)' \/ Pledged(y, x)'
    BY <1>14, <1>15
  <2>3. \A d \in Clients : Hears(d)' =>
          \/ Hears(d) /\ local'[d].owner = local[d].owner
                      /\ local'[d].target = local[d].target
          \/ \E x, y \in Procs : /\ local'[d].owner = y
                                 /\ local'[d].target.host = x
                                 /\ Promised(x, y)'
    BY <1>6, <1>7, <1>13, <1>14
  <2>4. Agreed
    BY DEF Sides
  <2> QED
    BY <1>14, <1>16, <2>1, <2>2, <2>3, <2>4, AgreedKept
<1> QED
  BY <1>10, <1>11, <1>12, <1>17 DEF Sides

LEMMA EmplaceNodeSides ==
  ASSUME TypeOK, TypeOK', Sides, NEW n \in Procs, EmplaceNode(n)
  PROVE  Sides'
<1>1. /\ alive' = alive /\ port' = port /\ listen' = listen /\ ui' = ui
      /\ pc' = pc /\ local' = local /\ backlog' = backlog /\ conn' = conn
      /\ srv[n] = "emplace" /\ srv'[n] = "disconnect"
      /\ \A x \in Procs \ {n} : srv'[x] = srv[x]
      /\ push_back(n, Sender(n))
  BY DEF TypeOK, EmplaceNode, ServerGo, clientVars
<1>2. PICK m \in Procs : conn[n].from = m
  <2>1. conn[n] \in Connection
    BY <1>1 DEF TypeOK
  <2> QED
    BY <2>1 DEF Connection
<1>3. Line(n) /\ Served(n) /\ Undisturbed(m) /\ Agreed
  BY DEF Sides, Line
<1>4. Sender(n) \in Node /\ Sender(n).host = m /\ Sender(n).port = port[m]
  BY <1>1, <1>2, <1>3, PortsAssumption DEF Sender, Node, Served, Undisturbed
<1>5. /\ \A x, y \in Procs : Knows(x, y) => Knows(x, y)'
      /\ \A x, y \in Procs : Knows(x, y)' => Knows(x, y) \/ (x = n /\ y = m)
      /\ Knows(n, m)'
  BY <1>1, <1>4, PushKnows
<1>6. \A x \in Procs, d \in Clients : Apart(x, d)
  BY <1>1 DEF Apart
<1>7. Line(n)'
  <2>1. Served(n)'
    BY <1>1, <1>3 DEF Served
  <2>2. \A i \in DOMAIN backlog[n] : Apart(n, backlog[n][i].client)
    BY <1>1 DEF Apart
  <2> QED
    BY <1>1, <1>3, <2>1, <2>2, LineServed
<1>8. \A x \in Procs : Line(x)'
  BY <1>1, <1>6, <1>7, LineKept DEF Sides
<1>9. /\ \A x \in Procs : Undisturbed(x)'
      /\ \A d \in Clients : Calling(d)'
  BY <1>1 DEF Sides, Undisturbed, Calling
<1>10. \A d \in Clients : Hears(d)' <=> Hears(d)
  BY <1>1 DEF Hears
<1>11. \A x, y \in Procs : Pledged(y, x)' <=> Pledged(y, x)
  BY <1>1, <1>10 DEF Pledged
<1>12. /\ \A x, y \in Procs : Promised(x, y) => Promised(x, y)' \/ Knows(x, y)'
       /\ \A x, y \in Procs : Promised(x, y)' => Promised(x, y)
  BY <1>1, <1>2, <1>5 DEF Promised
<1>13. Knows(m, n) \/ Pledged(m, n)
  BY <1>1, <1>2, <1>3 DEF Agreed
<1>14. Agreed'
  <2>1. \A x, y \in Procs : Knows(x, y)' =>
          Knows(x, y) \/ Knows(y, x)' \/ Pledged(y, x)' \/ Promised(y, x)'
    BY <1>5, <1>11, <1>13
  <2> QED
    BY <1>1, <1>3, <1>5, <1>10, <1>11, <1>12, <2>1, AgreedKept
<1> QED
  BY <1>8, <1>9, <1>14 DEF Sides

\* Only a client that is calling has a connection that can be closed.
LEMMA CloseIs ==
  ASSUME TypeOK, NEW S, NEW how, NEW c \in Clients, Calling(c),
         local'[c] = Close(S, how)[c]
  PROVE  \/ local'[c] = local[c]
         \/ /\ c \in S
            /\ local[c].link = "open"
            /\ pc[c] \in {"hello", "wait", "check", "push"}
            /\ local'[c].owner = local[c].owner
            /\ local'[c].target = local[c].target
            /\ local'[c].heard = local[c].heard
<1>1. local[c] \in Local
  BY DEF TypeOK
<1>2. pc[c] \in Handshaking \cup Ended \cup {"next"}
  BY DEF TypeOK
<1>3. CASE c \in S /\ local[c].link = "open"
  <2>1. local'[c] = [local[c] EXCEPT !.link = how]
    BY <1>3 DEF Close
  <2>2. pc[c] \in {"hello", "wait", "check", "push"}
    BY <1>2, <1>3 DEF Calling, Handshaking, Ended
  <2> QED
    BY <1>1, <1>3, <2>1, <2>2 DEF Local
<1>4. CASE ~(c \in S /\ local[c].link = "open")
  BY <1>4 DEF Close
<1> QED
  BY <1>3, <1>4

LEMMA DisconnectSides ==
  ASSUME TypeOK, TypeOK', Sides, NEW n \in Procs, Disconnect(n)
  PROVE  Sides'
<1>1. /\ alive' = alive /\ port' = port /\ nodes' = nodes /\ listen' = listen
      /\ ui' = ui /\ pc' = pc /\ backlog' = backlog
      /\ srv[n] = "disconnect" /\ srv'[n] = "idle"
      /\ \A x \in Procs \ {n} : srv'[x] = srv[x] /\ conn'[x] = conn[x]
      /\ local' = Close({conn[n].client}, "shut")
  BY DEF TypeOK, Disconnect, ServerGo, procVars
<1>2. PICK c \in Clients : conn[n].client = c
  <2>1. conn[n] \in Connection
    BY <1>1 DEF TypeOK
  <2> QED
    BY <2>1 DEF Connection
<1>3. Line(n) /\ Served(n) /\ Agreed /\ \A d \in Clients : Calling(d)
  BY DEF Sides, Line
<1>4. \A d \in Clients :
        \/ local'[d] = local[d]
        \/ /\ d = c
           /\ pc[d] \in {"wait", "check", "push"}
           /\ pc[d] = "wait" => local[d].target.host = n
           /\ local'[d].owner = local[d].owner
           /\ local'[d].target = local[d].target
           /\ local'[d].heard = local[d].heard
  <2>1. /\ pc[c] \notin {"idle", "connect", "hello"}
        /\ pc[c] = "wait" => local[c].target.host = n
    BY <1>1, <1>2, <1>3 DEF Served
  <2>2. \A d \in Clients :
          \/ local'[d] = local[d]
          \/ /\ d \in {c}
             /\ local[d].link = "open"
             /\ pc[d] \in {"hello", "wait", "check", "push"}
             /\ local'[d].owner = local[d].owner
             /\ local'[d].target = local[d].target
             /\ local'[d].heard = local[d].heard
    BY <1>1, <1>2, <1>3, CloseIs
  <2> QED
    BY <2>1, <2>2
<1>5. \A x \in Procs, d \in Clients : x # n \/ d # c => Apart(x, d)
  BY <1>1, <1>4 DEF Apart
<1>6. Line(n)'
  <2>1. Served(n)'
    BY <1>1 DEF Served
  <2>2. \A i \in DOMAIN backlog[n] : Apart(n, backlog[n][i].client)
    <3> SUFFICES ASSUME NEW i \in DOMAIN backlog[n], NEW h, h = backlog[n][i]
                 PROVE  Apart(n, h.client)
      OBVIOUS
    <3>1. h \in Connection
      BY DEF TypeOK
    <3>2. h.client \in Clients
      BY <3>1 DEF Connection
    <3>3. Waits(n, h) /\ (h.body = "hello" => h.client # c)
      BY <1>1, <1>2, <1>3 DEF Line
    <3>4. CASE h.client = c
      BY <1>1, <1>4, <3>2, <3>3, <3>4 DEF Apart, Waits
    <3> QED
      BY <1>5, <3>2, <3>4
  <2> QED
    BY <1>1, <1>3, <2>1, <2>2, LineServed
<1>7. \A x \in Procs : Line(x)'
  BY <1>1, <1>5, <1>6, LineKept DEF Sides
<1>8. /\ \A x \in Procs : Undisturbed(x)'
      /\ \A d \in Clients : Calling(d)'
  <2>1. \A x \in Procs : Undisturbed(x)'
    BY <1>1 DEF Sides, Undisturbed
  <2>2. ASSUME NEW d \in Clients PROVE Calling(d)'
    <3>1. Calling(d) /\ pc'[d] = pc[d]
      BY <1>1, <1>3
    <3>2. CASE local'[d] = local[d]
      BY <3>1, <3>2 DEF Calling
    <3>3. CASE local'[d] # local[d]
      <4>1. /\ pc[d] \in {"wait", "check", "push"}
            /\ local'[d].target = local[d].target
            /\ local'[d].heard = local[d].heard
        BY <1>4, <3>3
      <4> QED
        BY <3>1, <4>1 DEF Calling
    <3> QED
      BY <3>2, <3>3
  <2> QED
    BY <2>1, <2>2
<1>9. Agreed'
  <2>1. \A d \in Clients :
          /\ Hears(d)' <=> Hears(d)
          /\ local'[d].owner = local[d].owner
          /\ local'[d].target = local[d].target
    BY <1>1, <1>4 DEF Hears
  <2>2. \A x \in Procs : /\ srv'[x] = "emplace" <=> srv[x] = "emplace"
                         /\ srv[x] = "emplace" => conn'[x].from = conn[x].from
    BY <1>1
  <2> QED
    BY <1>1, <1>3, <2>1, <2>2, AgreedSame
<1> QED
  BY <1>7, <1>8, <1>9 DEF Sides

\* The server that answers "ask_block" drops its queue.
LEMMA AnswerAskBlockSides ==
  ASSUME TypeOK, TypeOK', Sides, NEW n \in Procs, AnswerAskBlock(n)
  PROVE  Sides'
<1>1. /\ alive' = alive /\ port' = port /\ nodes' = nodes /\ ui' = ui /\ pc' = pc
      /\ listen' = listen \/ listen' = [listen EXCEPT ![n] = NoPort]
      /\ srv[n] = "ask_block" /\ srv'[n] = "idle"
      /\ \A x \in Procs \ {n} :
           srv'[x] = srv[x] /\ conn'[x] = conn[x] /\ backlog'[x] = backlog[x]
      /\ \/ backlog'[n] = <<>> /\ local' = Close(Pending(n), "reset")
         \/ backlog'[n] = backlog[n] /\ local' = local
  BY DEF TypeOK, AnswerAskBlock, ServerGo
<1>2. Line(n) /\ Agreed /\ \A d \in Clients : Calling(d)
  BY DEF Sides
<1>3. \A d \in Clients :
        \/ local'[d] = local[d]
        \/ /\ backlog'[n] = <<>>
           /\ pc[d] \in {"hello", "wait"} /\ local[d].target.host = n
           /\ local'[d].owner = local[d].owner
           /\ local'[d].target = local[d].target
           /\ local'[d].heard = local[d].heard
  <2> SUFFICES ASSUME NEW d \in Clients, local'[d] # local[d]
               PROVE  /\ backlog'[n] = <<>>
                      /\ pc[d] \in {"hello", "wait"} /\ local[d].target.host = n
                      /\ local'[d].owner = local[d].owner
                      /\ local'[d].target = local[d].target
                      /\ local'[d].heard = local[d].heard
    OBVIOUS
  <2>1. /\ backlog'[n] = <<>> /\ local'[d] = Close(Pending(n), "reset")[d]
    BY <1>1
  <2>2. /\ d \in Pending(n)
        /\ pc[d] \in {"hello", "wait", "check", "push"}
        /\ local'[d].owner = local[d].owner
        /\ local'[d].target = local[d].target
        /\ local'[d].heard = local[d].heard
    BY <1>2, <2>1, CloseIs
  <2>3. PICK i \in DOMAIN backlog[n] : backlog[n][i].client = d
    BY <2>2 DEF Pending
  <2>4. Waits(n, backlog[n][i])
    BY <1>2 DEF Line
  <2> QED
    BY <2>1, <2>2, <2>3, <2>4 DEF Waits
<1>4. \A x \in Procs \ {n}, d \in Clients : Apart(x, d)
  BY <1>1, <1>3 DEF Apart
<1>5. Line(n)'
  <2>1. CASE backlog'[n] = <<>>
    BY <1>1, <2>1 DEF Line, Served
  <2>2. CASE backlog'[n] = backlog[n] /\ local' = local
    <3>1. Served(n)'
      BY <1>1 DEF Served
    <3>2. \A i \in DOMAIN backlog[n] : Apart(n, backlog[n][i].client)
      BY <1>1, <2>2 DEF Apart
    <3> QED
      BY <1>1, <1>2, <2>2, <3>1, <3>2, LineServed
  <2> QED
    BY <1>1, <2>1, <2>2
<1>6. \A x \in Procs : Line(x)'
  BY <1>1, <1>4, <1>5, LineKept DEF Sides
<1>7. /\ \A x \in Procs : Undisturbed(x)'
      /\ \A d \in Clients : Calling(d)'
  <2>1. \A x \in Procs : Undisturbed(x)'
    BY <1>1 DEF TypeOK, Sides, Undisturbed
  <2>2. \A d \in Clients : Calling(d)'
    BY <1>1, <1>2, <1>3 DEF Calling
  <2> QED
    BY <2>1, <2>2
<1>8. Agreed'
  <2>1. \A d \in Clients :
          /\ Hears(d)' <=> Hears(d)
          /\ local'[d].owner = local[d].owner
          /\ local'[d].target = local[d].target
    BY <1>1, <1>3 DEF Hears
  <2>2. \A x \in Procs : /\ srv'[x] = "emplace" <=> srv[x] = "emplace"
                         /\ srv[x] = "emplace" => conn'[x].from = conn[x].from
    BY <1>1
  <2> QED
    BY <1>1, <1>2, <2>1, <2>2, AgreedSame
<1> QED
  BY <1>6, <1>7, <1>8 DEF Sides

LEMMA NextSymmetric == TypeOK /\ Symmetric /\ [Next]_vars => Symmetric'
<1> SUFFICES ASSUME TypeOK, Symmetric, [Next]_vars, ~disturbed' PROVE Sides'
  BY DEF Symmetric
<1>0. TypeOK'
  BY NextType
<1>1. ASSUME NEW n \in Procs, Die(n) PROVE FALSE
  BY <1>1 DEF Die
<1>2. ~disturbed
  <2>1. ASSUME NEW n \in Procs,
               Kill(n) \/ Restart(n) \/ Begin(n) \/ ServerMoves(n) \/ UiMoves(n)
        PROVE  ~disturbed
    BY <1>1, <2>1 DEF Kill, Restart, Begin, ServerMoves, UiMoves, AddNode,
       PropagateTransaction, PropagateBlock, FetchGenesis, StartPropagate,
       FetchGenesisAlone, RemoveNode, SetPort, Accept, RecvMsg, AnswerHello, EmplaceNode,
       AnswerAskBlock, AnswerNoBlock, UseMsg, Disconnect, StopServer, CloseServer,
       StartServer, StartServerFails, history
  <2>2. ASSUME NEW c \in Clients, ClientMoves(c)
        PROVE  ~disturbed
    <3>1. local[c].owner \in Procs
      BY DEF TypeOK, Local
    <3> QED
      BY <1>1, <2>2, <3>1 DEF ClientMoves, Connect, ConnectFails, SendHello,
         SendHelloFails, RecvHello, CheckNode, PushNode, PropagateSend, PropagateFail,
         PropagateStale, EndPropagate, history
  <2> QED
    BY <2>1, <2>2 DEF Next, vars, history
<1>3. Sides
  BY <1>2 DEF Symmetric
<1>4. ASSUME NEW n \in Procs, Kill(n) \/ Restart(n) \/ UiMoves(n)
      PROVE  FALSE
  <2>1. Undisturbed(n)
    BY <1>3 DEF Sides
  <2> QED
    BY <1>1, <1>4, <2>1 DEF Undisturbed, Kill, Restart, UiMoves, StopServer, CloseServer,
       StartServer, StartServerFails, UiGo
<1>5. ASSUME NEW n \in Procs, Begin(n) PROVE Sides'
  <2>1. ~(RemoveNode(n) \/ \E p \in Ports : SetPort(n, p))
    BY DEF RemoveNode, SetPort
  <2>2. CASE FetchGenesisAlone(n)
    BY <1>0, <1>3, <2>2 DEF FetchGenesisAlone, serverVars, clientVars, Sides, Undisturbed,
       Line, Served, Waits, Calling, Agreed, Hears, Knows, contains_node, Pledged, Promised
  <2> QED
    BY <1>0, <1>3, <1>5, <2>1, <2>2, BeginSides DEF Begin
<1>6. ASSUME NEW n \in Procs, ServerMoves(n) PROVE Sides'
  BY <1>0, <1>3, <1>6, AcceptSides, ServeSides, AnswerHelloSides, EmplaceNodeSides,
     AnswerAskBlockSides, DisconnectSides DEF ServerMoves
<1>7. ASSUME NEW c \in Clients, ClientMoves(c) PROVE Sides'
  <2>1. ~(SendHelloFails(c) \/ PropagateFail(c) \/ PropagateStale(c))
    <3>1. local[c].owner \in Procs
      BY DEF TypeOK, Local
    <3> QED
      BY <1>1, <3>1 DEF SendHelloFails, PropagateFail, PropagateStale
  <2> QED
    BY <1>0, <1>3, <1>7, <2>1, ConnectSides, ClientSides, SendHelloSides, PushNodeSides,
       PropagateSendSides DEF ClientMoves
<1>8. CASE UNCHANGED vars
  BY <1>3, <1>8 DEF vars, procVars, serverVars, clientVars, Sides, Undisturbed, Line,
     Served, Waits, Calling, Agreed, Hears, Knows, contains_node, Pledged, Promised
<1> QED
  BY <1>4, <1>5, <1>6, <1>7, <1>8 DEF Next

\* Whatever handshakes cross, in whatever order their steps interleave, and for
\* any number of processes and clients: when none is under way and nobody has
\* moved, two processes know each other or do not.
THEOREM HandshakesSymmetric == Spec => []HandshakeSymmetric
<1>1. Init => Symmetric
  BY InitSides DEF Symmetric
<1>2. TypeOK /\ Symmetric /\ [Next]_vars => Symmetric'
  BY NextSymmetric
<1>3. Symmetric => HandshakeSymmetric
  <2> SUFFICES ASSUME Symmetric, Quiet, ~disturbed, NEW n \in Procs, NEW m \in Procs,
                      Knows(n, m)
               PROVE  Knows(m, n)
    BY DEF HandshakeSymmetric
  <2>1. ~Promised(m, n)
    BY DEF Quiet, Promised
  <2>2. ~Pledged(m, n)
    BY DEF Quiet, Pledged, Hears, Handshaking
  <2> QED
    BY <2>1, <2>2 DEF Symmetric, Sides, Agreed
<1> QED
  BY <1>1, <1>2, <1>3, TypeCorrect, PTL DEF Spec

=============================================================================
