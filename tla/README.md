# IsenCoin in TLA+

TLA+ specifications of IsenCoin (a peer-to-peer proof-of-work ledger with a
graphical wallet), model-checked with TLC and, for the theorems, proved with
TLAPS. Paths and line numbers below are relative to the repository; `Block.cpp:238` is line
238 of `src/Block.cpp`.

## 1. The system

One process runs these threads, and nothing in the program's own classes takes a
lock:

- the **UI thread** (`main`, then `ui::main`), which starts the server, loads
  the chain and runs every button's action;
- the **poll thread** of tacopie's io service, which waits in `select`;
- the **network thread**: the single worker of that io service, which runs
  the server's callback, one connection after the other;
- one detached **mining thread** per `Chain::mine_and_next` that goes through,
  each with `Block::mining_threads` **workers**;
- one detached **client thread** per `Tracker::add_node`;
- one detached **key thread** per press of "Create Wallet".

What survives a process are three files: `blockchain.vili`, `wallets.vili` and
`addresses.vili`. Each is truncated and written again, line by line, at every change.

| Component | State | Operations | Interacts with |
|---|---|---|---|
| Block (`Block.cpp`) | transactions, header hash, timestamp, nonce, `m_validated`, `m_mining`, `m_sagain` | `add_transaction`, `mine`, `interrupt`, `validate`, `dump`, `get_hash` | every thread of the process, without a lock |
| Chain (`Chain.cpp`) | `m_blocks`, `blockchain.vili`, `auto_mining`, `minimum_tx_amount` | load at start, `mine_and_next`, `create_new_block`, `set_new_block`, `fetch_genesis`, `save` | Block; Tracker, to which it gives mined blocks; the file |
| Tracker (`Tracker.cpp`) | `m_nodes`, `m_port`, the server | `add_node`, `propagate`, `handle_message`, `set_port`, `remove_node_at_index`, `send` | peers by TCP; Chain and Block from the handlers |
| P2P (`P2P.cpp`) | none | `build_msg`, `use_msg`, `check_requirement`, `send_msg`, `recv_msg`, base58 conversions | Tracker, Transaction |
| Node (`Node.cpp`) | address and port | construction with validation, `operator==` | Tracker |
| Transaction (`Transaction.cpp`) | sender, receiver, amount, signature | `validate`, `is_reward`, merkle root | Block, Wallet |
| Wallet (`Wallet.cpp`) | a key pair | `generate`, `get_funds` over the chain | Chain, UI |
| WalletList, AddressBook (`Ui.cpp`) | the wallets, the addresses, a file each | load, add, save | UI, key threads |
| UI (`Ui.cpp`) | windows, the selected indices | the buttons; "Create Wallet" with a thread of its own | all of the above |
| Start (`main.cpp`) | none | server, then `config.vili`, then the chain, then the UI | all of the above |
| io service, sockets (`extlibs/tacopie`) | table of sockets, poll sets, task queue | `track`, `untrack`, `set_rd_callback`, `wait_for_removal`, `poll`; `start`, `stop`, `connect` | Tracker |
| msgpack11, base58, vili (`extlibs`) | none | `dump`, `parse`; `encode`, `decode`; a tree read from a file and written to it | P2P; Chain, UI |

What is hard, and what must hold:

- **Mining.** `mine` protects a block with two flags that it tests and sets in
  separate statements (`Block.cpp:238-252`), that `add_transaction` and
  `interrupt` clear from other threads, and that the workers poll. Correct
  means: the spin loop never waits for a flag nobody will clear; a worker never
  publishes a nonce for contents the block no longer has; a sealed block is the
  block that was solved, and stays so; the file can be loaded again; submitted
  transactions are neither lost nor left behind.
- **The chain across processes.** A block of a peer replaces the pending block;
  Force Sync empties the chain; the file is rewritten at every block, and a
  process may die in the middle; the server runs before the chain exists. Correct
  means: blocks follow one another, what is called valid is what was hashed, the
  file loads again, nobody spends what is not theirs, the ledger only grows.
- **Peers.** `m_nodes` is shared by the client threads, the server, the mining
  threads and the UI; connections fail, are reset, wait in an accept queue; the
  server is restarted on another port while it is used; processes die and come
  back with an empty list. Correct means: only nodes that named their port are
  listed, the relation is symmetric, everything that waits is answered or gives
  up.
- **Descriptors.** The io service knows a socket by its descriptor, which the
  system gives out again, and two threads may stop the server at once. Correct means: one callback of a server at a time,
  none after `stop` has returned, no connection forgotten, `stop` returns.
- **Keys.** Loading a list rewrites its file once per element; a name is what the
  user typed, and some of its characters mean something to vili; a thread stores a
  pair of keys in two statements while the window reads them. Correct means: a
  key the user kept is not lost, the two halves of a pair belong together, the
  program starts again.
- **Formats.** msgpack11 changes the type of a number to the narrowest that
  holds it, base58 estimates its buffers, an odd merkle round repeats its last
  signature, an odd difficulty ends in half a byte. Correct means: what arrives is
  what was sent, at the limits too.

`PROJECT.json` lists every hazard at its line, with the properties that cover
it or the reason why none does.

## 2. Modules

| Module | What it is |
|---|---|
| `Mining` | one process: `add_transaction`, `mine` and its workers, `interrupt`, `mine_and_next`, `create_new_block`, `save`, a store at a time |
| `Chain` | several processes: start, load, create, save, peers' blocks and transactions, Force Sync, funds, death; implements `Ledger` |
| `Ledger` | abstract specification: what a user may rely on |
| `Tracker` | several processes: `add_node`, `propagate`, the server and its handlers, the peer buttons, `fetch_genesis`'s messages, deaths and restarts |
| `IoService` | the poll thread, the worker, the table of sockets and their owners |
| `Keyring` | wallets, addresses, their files, the key threads |
| `Wire` | a message built, written, read and given to the handlers |
| `Base58`, `Merkle` | the two conversions; the merkle root and the test of a nonce |
| `Loops` | two loops over a vector, each as a function of how far it is: what a `remove_if` keeps (`Kept`), a running sum (`Total`) |
| `MCMining`, `MCChain`, `MCTracker`, `MCIoService`, `MCKeyring`, `MCAlgorithms` | finite instances for TLC: constants, symmetry, constraints |
| `Mining_proofs`, `MiningSound_proofs`, `Chain_proofs`, `Tracker_proofs`, `IoService_proofs`, `Keyring_proofs` | the theorems of each module |
| `Algorithms_proofs` | the theorems of `Wire`, `Base58` and `Merkle` |
| `Loops_proofs` | induction up to a number, and what it gives for the loops; the other proofs use it |

The modules meet where the components do. `Mining` opens up what is one step in
`Chain` (a mining thread and its workers); `Chain` takes from `Tracker` that
messages arrive late, twice or not at all, and that the answer to `ask_block`
never does; `Tracker`'s `Accept` and `StopServer` are what `IoService` shows
in detail; `Wire` and `Base58` say why a field may be taken for what was sent.

Definitions whose comment begins with "Variant" are mistakes somebody could make
in the code. The specifications do not use them; replacing the definition they vary
makes one of the properties fail, which shows that the property is about that
code.

### Mining

State: `blocks` (the members of each block of `m_blocks`), `file`, `wire` (the
block messages given to `propagate`), `autoMining`; for each call, `pc`, `blk`
(the reference the thread holds) and `base` (`thread_base_hash`); for each
worker, `wpc` and `found`; `caller` says which call the UI thread and the
network thread are in. `fault` is set when an exception leaves a detached thread, which ends the
process: nothing moves afterwards.

A step is one load or one store of a shared member. `add_transaction` is
`ClearMining`, `PushTransaction`, `Invalidate`, `GenerateTimestamp`, in that
order (`Block.cpp:180-196`); the body of `mine` is `SpinOnMining` ...
`EndSagain`, a worker is `LoopMining` ... `SetValidated`; after `mine` the
thread goes through `Recheck`, `Propagate`, `Seal`, `Save`, `PushBlock`
(`Chain.cpp:104-108`). "Start Mining Now" and both ways a transaction comes in
start a call; a transaction with a bad signature only takes the network thread.

Abstractions:

- An operation on a whole container (push_back, remove_if, hashing the
  transactions, dumping the chain) is one step. The data races inside such an
  operation are therefore not explored.
- A hash is the record of what is hashed, a nonce is the set of contents it
  solves; `is_nonce_valid` is membership. Two contents never hash alike.
- Two calls of `generate_timestamp` never give the same timestamp.
- `save` replaces the file in one step; `file` is the set of dumped blocks, each with
  its depth.
- The chain starts as its genesis block and one pending block.

**The unprotected windows.** `raced` is a history variable: it becomes TRUE when a
thread stores to a block while another relies on something it has read of it
(`Fragile`: from leaving the spin loop to copying the header, and from the last
look at `m_mining` to pushing the next block), or to a block that is not the
pending one. What the flags promise is checked and proved of the behaviours that
stay out of those windows (the properties named `...UnlessRaced`); what happens
inside is shown by `invalid_block` (section 4). Properties without that name hold
with races.

### Chain and Ledger

State of a process: `chain` and `nothing` (`m_blocks`, and the `null_block`
that is current while it is empty), `file`, `pc` for each of its three threads
(UI, network, miner), `snap` (the dump a thread is about to write). Between
processes: `net`, the messages sent and not read. History: `solved` (everything
that was hashed, and by whom), `paid`, `returned` (what a server added again of the
payments of its own user), `raced`, and the counters of the bounds.
A block's hash is its place in `solved`: a block that names an entry is valid
when it says the same.

| Actions | Code |
|---|---|
| `Start`, `LoadChain` | `main`: the server runs (`Start`), then the constructor of `Chain` reads the file or mines a genesis block |
| `Truncate`, `WriteFile`, `PushNext` | `create_new_block`, with the save between the opening of the file and its end |
| `StartMining`, `Interrupt`, `CleanBlock`, `Solve`, `PropagateBlock` | `mine_and_next`; the second press of the button |
| `Send`, `ReceiveTransaction` | `TxCreateWindow`'s Send with `get_funds`; the "transaction" handler. Before the chain exists, the handler dereferences a null pointer and the process dies |
| `ReceiveBlock`, `ReceiveBlockTooEarly` | the "block" handler and `set_new_block`, whose copy of the block has no transactions |
| `ForceSync`, `MineGenesis`, `GenesisAborted` | `fetch_genesis` with peers (the chain stays empty) and without |
| `Dangle` | the block a thread mines was destroyed by another |
| `Kill` | the process ends from outside |

`Die` is every end of a process: a thread between the opening and the end of its
save leaves any prefix of the dump, the last entry perhaps cut in its middle
(`Torn`). `propagate` reaches any set of the processes that run. The sender may be one
of them: the shipped `config.vili` lists `127.0.0.1:15317`, `main.cpp:68-69` adds it
without a test, and the server then adds the user's own transaction once more, whatever
the funds (`Tracker.cpp:113-119`), and is given the process's own blocks. A message stays in `net`
until its reader dies: a peer that is
listed more than once gets it more than once, in any order.

Abstractions: a handler is one step except where it writes the file or works for
long; one mining thread at a time and no automatic mining (`Mining` has both);
several copies of a transaction in one block, at most two (`MaxCopies`).

`Ledger` is the abstract specification: a process's ledger is the sequence of its
sealed blocks; blocks are made, and a ledger is extended by one block that its
owner made on top of it. Three exceptions are spelt out: `Restart` (Force
Sync, of a ledger of at most one block), `Lose` (death in a save leaves a prefix)
and `Spoil` (two threads have used the chain at once; nothing holds of it).
`ImplementsLedger` maps `ledger` to what the file holds while the process is down
or starts, to the chain while it writes the first time, and to all of the
chain but the pending block while it serves.

### Tracker

State of a process: `alive`, `port`, `nodes`, `running` and `listen` (the server
believes it runs; its socket listens), `backlog` (the accept queue), `conn` and
`srv` (the connection the callback handles and where it is), `ui`, and `bare`
(`fetch_genesis` has emptied the chain). A *client* is one use of a
`tcp_client`: a thread of `add_node` or a call of `propagate`, with its local
variables in `local`. `announced` and `disturbed` are history variables: the ports a process has
sent in a "hello", and whether a node was removed, died or changed its port.

| Actions | Code |
|---|---|
| `AddNode`, `Connect`, `ConnectFails`, `SendHello`, `SendHelloFails`, `RecvHello`, `CheckNode`, `PushNode` | `Tracker::add_node` and its thread |
| `PropagateTransaction`, `PropagateBlock`, `FetchGenesis`, `FetchGenesisAlone` | the callers of `propagate` |
| `PropagateSend`, `PropagateFail`, `PropagateStale`, `EndPropagate` | the loop of `Tracker::propagate` |
| `Accept`, `RecvMsg`, `AnswerHello`, `EmplaceNode`, `AnswerAskBlock`, `AnswerNoBlock`, `UseMsg`, `Disconnect` | the server's callback and `handle_message` |
| `RemoveNode`, `SetPort`, `StopServer`, `CloseServer`, `StartServer`, `StartServerFails` | the peer buttons and `start_server` |
| `Kill`, `Restart` | the process ends (its peers see their connections reset); `main` again |

What the vendored tacopie does is taken from its source: a connection waits in
the queue until the one worker accepts it; `recv` blocks until bytes come or the
other end closes; the errors of `connect`, `send` and `bind` are `tacopie_error`,
which `use_msg` does not catch and on which `tcp_server` stops; `stop(true,
true)` waits for the running callback, then closes the socket.

Abstractions: a message arrives whole; a host is a process; an operation on
`m_nodes` is one step; a loop over `m_nodes` that somebody changes either goes
on over the nodes it began with, or fails to connect, or ends the process
(`PropagateStale`); "block" stands for every message that is handled without an
answer. `Node::operator==` holds of any two nodes (`Node.cpp:50`), so
`PropagateFail` empties the list.

### IoService

State: `table` (`m_tracked_sockets`, by descriptor: whose read callback,
`is_executing_rd_callback`, `marked_for_untrack`), `poll`, `watched`, `ready`,
`woken` and `pipe` (the poll thread, its sets and the pipe that wakes it),
`tasks`, `task` and `phase` (the queue, and where the worker is in a task),
`waiting` (the accept queues), and for each socket `state` (where its owner is)
and `fd`. Of the server that the sockets of `Servers` are the successive `m_socket`s of:
`running` (`m_is_running`), `ui` (where the UI thread is in `stop`) and `target` (the
socket it stopped last). History: `reused` (a descriptor was given out while the table, a
task or the sets still name it), `crossed` (the UI thread and the callback were both
between the test and the store of `m_is_running`), `threw` (a callback ended in an
exception).

| Actions | Code |
|---|---|
| `BuildSets`, `Select`, `ProcessEvents` | `io_service::poll`: `init_poll_fds_info`, `select`, `process_events` |
| `FetchTask`, `Accept`, `AcceptFails`, `EndHandler`, `HandlerThrows`, `FinishTask` | `thread_pool::run`, `tcp_server::on_read_available`, the end of the task `process_rd_event` queued |
| `StopInCallback`, `ClearInCallback`, `UntrackInCallback`, `CloseInCallback` | the `stop` a callback makes of its own server: the test of `m_is_running`, its store, `untrack`, `close` |
| `Stop`, `ClearRunning`, `UntrackByUi`, `WaitForRemoval`, `CloseByUi` | `stop(true, true)` by the UI thread: the same steps, with the wait for the callback |
| `OpenSocket`, `Track`, `SetRdCallback`, `SetRunning`, `Disconnect`, `CloseSocket` | `tcp_server::start`; `tcp_client::connect` and `disconnect` |
| `Connect` | a peer |

What `untrack`, `wait_for_removal` and `close` do is done to the `m_socket` that is open
by then (`Listening`), or to none. A start whose socket another thread closes goes no
further, and the store of the handler (`tcp_server.cpp:57`), which comes after the callback
is set, is not told apart from it.

A step is what one thread does under the mutex of the table, or between two times it
takes it. A socket of the model is one life of a descriptor. Sockets have no
write callbacks (the program sets none), and only servers have read callbacks.

### Keyring

State: the lists `wallets` and `book`, the two files (their entries, and whether
the last one is cut), `loading`, `writing` and `lines` (how far a load and a save
are), the window's `creating` and `creator`, its `thread`s, and `ui`. History:
`overlapped` (two key threads at once), `asked`, `kept`, `spoiled` (the files a
death has cut short), `clashed` (the files given two names that vili reads alike),
`odd` (the names given, file by file, that vili does not read as a name of their own).

| Actions | Code |
|---|---|
| `Start`, `LoadWallet`, `OpenBook`, `LoadAddress`, `ShowWindow` | the constructors of `WalletList` and `AddressBook`: elements are added one by one, and each addition saves the list |
| `FailToStart` | an exception of the parser, or of the access to an entry that was read, which nobody catches: the file keeps what was loaded before |
| `WriteLine` | `vili`'s writer, line by line |
| `Create`, `Draw`, `StorePublic`, `CheckPrefix`, `Created` | the key thread and `Wallet::generate` |
| `Keep`, `AddWallet`, `AddKeptAddress`, `ResetWindow`, `AddWalletThrows`, `AddAddress` | "Keep this wallet !", with the exception of a name that `save` does not find again, and "Add Address" |
| `Kill` | the program ends between any two lines |

Two conversions matter and are modelled by what they do. A vili node has one child
of a name (`Collapse`). And a line of a file is read by its grammar, of which a name that
the user typed may be a part (`Read`). A name is a model value; the constant `Grammar`
says for each file what the parser makes of a line that begins with it:

| Kind | Example | What is read |
|---|---|---|
| `entry` | `plain`, `p lain`, `x[plain` | an entry under the name without its spaces, or what follows the bracket (`ViliParser.cpp:182`, `:194`) |
| `inside` | four spaces before a wallet | a node inside the wallet before it, whose keys its own replace, since they are indented once (`:158-173`, `:215`) |
| `broken` | a wallet `x]`, an address `plain:x` | an entry that throws when it is loaded: no keys under it, or a value that is no string (`Ui.cpp:105`, `:175`) |
| `nothing` | an address `#a`, or one that begins with a quotation mark | no entry: the line is skipped |
| `path` | a wallet `x/y` | nothing: `save` creates the node, does not find it at the path, and throws (`Ui.cpp:91`) |

A failing start leaves in the file the entries before the one that fails, since each
was saved as it was loaded (`FailToStart`). Two lines may make the parser itself throw,
which leaves the file as it was: a second value of another type, or a wallet inside one
that has no name (`Unparsable`).

### Wire, Base58, Merkle

One-step modules: a step sends any message, or takes any bytes, signatures or
hash within the bounds, and the properties compare what the algorithm makes of
it with what it should be. `Wire` is `build_msg`, the choice of a format by
`dump`, the table of `parse`, `is_msgpack_valid`, `check_requirement` and
`use_msg`; an integer of `w` bytes has `2 * Half[w]` values, so that the limits are
parameters. `Base58` converts digit by digit in buffers of the estimated size,
as the code does (`Carries` is the inner loop, `Steps` the outer one, each as a
function of how far it is; `Fits` its assertion that no carry is left), and
`decode_b58` copies into an array. `Merkle` is `get_merkel_root`, round by round
(SHA-512 taken to be without collisions), and `is_nonce_valid`. Its sort is
described by ranks: fewer than k elements are less than the k-th, and at least k
are no greater.

No operator is declared RECURSIVE, and none is a fold or a selection of the
library: a loop is a function of how far it is, about which facts can be proved.

## 3. Runs that pass

| Run | Instance | Checks |
|---|---|---|
| `mining_races` | 2 calls, 1 worker, all races, fair | `TypeOK`, `FlagsOwned`, `TransactionsKept`, `MinersFinish`, `AutoMined` |
| `mining_unraced` | 3 calls, 2 workers, up to the first race | `SoundUnlessRaced`, `FileReloadsUnlessRaced`, `WireUnlessRaced`, `SealedImmutable` |
| `chain` | 2 processes, 5 blocks, 3 payments, 1 kill, 1 Force Sync; or 1 that lists itself, 3 blocks | `TypeOK`, `OwnAfterFirst`, `SealedChain`, `FileLoads`, `OverdraftBounded`, `ImplementsLedger` |
| `tracker_ports` | 2 processes, 2 clients, 2 ports, one process stays | `PeersVouched`, `HandshakeSymmetric` |
| `tracker_clients` | 2 processes, 2 clients, 1 port, fair | `TypeOK`, `ClientsEnd`, `UiComesBack` |
| `io_service` | 2 servers, 1 client, 2 descriptors, 2 connections, fair | `TypeOK`, `OneTaskAtATime`, `QuietAfterWait`, `NotDeaf`, `ConnectionsAccepted`, `StopReturns` |
| `keys` | 2 keys, 8 names of all kinds, 2 key threads, 2 wallets, 1 address, fair | `TypeOK`, `KeysKept`, `AddressesKept`, `StartsUnlessCut`, `KeptAsAsked`, `CreationEnds` |
| `algorithms` | every limit of the formats, 4 bytes, 5 signatures, difficulty 5 | `NumbersSurvive`, `OneHandlerRuns`, `ArraysSurvive`, `BuffersSuffice`, `RootDecides`, `DifficultyCounted` |

What they show:

- `FlagsOwned`: `m_mining` and `m_sagain` are set only while a mining thread that
  will clear them is between its own store and its own clear. With
  `MinersFinish` this says that the spin loop of `Block.cpp:238` is not a
  livelock, races included.
- `TransactionsKept`: interruptions and `clean_block` take reward transactions
  only.
- `SoundUnlessRaced`: every sealed block is solved by its nonce, its header is
  that of its transactions, exactly one of which is a reward, and the next
  block names its hash; no exception escapes. `FileReloadsUnlessRaced` and
  `WireUnlessRaced` say the same of the file and of the messages;
  `SealedImmutable` that no later step changes a sealed block.
- `AutoMined`: with automatic mining, a transaction that interrupts the mining
  of a block gets into a sealed block, and at some time none waits in the pending one.
- `OwnAfterFirst`: processes never come to agree. A peer's block only ever
  becomes the first of a chain; every later block is the process's own.
- `SealedChain`: blocks follow one another by depth and hash, and what a valid
  block says is what was hashed, except that the copy of a peer's block has lost
  its transactions.
- `FileLoads`: the complete list of reasons why a process cannot load its own
  file: it died while it wrote it, a transaction came twice and is kept once,
  or the first block is a peer's, saved without its transactions.
- `OverdraftBounded`: `get_funds` counts the reward of the block being mined,
  which the transaction to be sent takes back, and the server adds a payment that comes
  back to its sender once more. Up to the first race of a process the
  overdraft is never more than one reward and what came back (`returned`), and no
  interleaving of blocks, syncs and restarts adds to it. After a race there is no bound:
  the pending block may hold the reward of a block that was solved and is mined again.
  Both exceptions happen in `chain`, alone and together (section 4).
- `ImplementsLedger`: see section 2.
- `PeersVouched`: a process is listed with a port it has itself announced, even
  when it restarts or changes its port in the middle of the handshake.
- `HandshakeSymmetric`: crossing handshakes, and handshakes with oneself (which
  the default `config.vili` makes), leave two processes that know each other or
  do not, until a node is lost.
- `ClientsEnd`, `UiComesBack`: no thread waits for ever, though neither `recv`
  has a timeout; "Apply Port", which blocks the UI until the server's callback
  has returned, comes back.
- `OneTaskAtATime`, `QuietAfterWait`: `is_executing_rd_callback` and
  `marked_for_untrack` do what they are for until a descriptor is given out
  too soon; and when `wait_for_removal` has returned, no callback of the server is
  queued or runs, unless the callback stopped the server too and both threads passed the
  test of `m_is_running` (without that exception it is refuted by `stop_crossed`). `NotDeaf`, `ConnectionsAccepted`, `StopReturns`: no wake-up is lost,
  and only a callback that throws leaves the server deaf, or `stop` waiting.
- `KeysKept`, `AddressesKept`: whatever was kept is still in its file after any
  number of deaths and failed starts, unless a save (or the load, which saves) was cut or
  is under way, a name was given that vili does not read as a name of its own, or two names
  are read alike. Each exception is of one file: a name may be plain in one of them
  and not in the other. `StartsUnlessCut`: the program fails to start only when a death
  has cut the file of the wallets, or a name that breaks its line was given.
  `KeptAsAsked`: a wallet that was generated by one thread alone
  has both halves of one pair, and the prefix asked for. `CreationEnds`: the window
  is told.
- `NumbersSurvive`, `OneHandlerRuns`: the types `check_requirement` accepts
  follow the formats `dump` chooses, for every message the program sends.
  `ArraysSurvive`, `BuffersSuffice`: no zero and no carry is lost on the way through
  base58. `RootDecides`: equal roots are of equal sets of transactions, and
  the order of arrival does not matter. `DifficultyCounted`: the loop over bytes
  counts hexadecimal digits.

### Bounds

`Mining`: two calls are the least with which a call meets the mining thread of
another; three let a block be interrupted, mined again and interrupted again, or
two mining threads compete for one block while a third adds to it. Two workers
are the least that can publish twice.

`Chain`: two processes, each with a genesis block, and three blocks more
(`MaxBlocks`): enough for a block of a peer that fits, one that comes too late, and a
chain whose file has a prefix that is neither empty nor all of it. The payments
are one that needs no funds, one that takes a whole reward, and a negative one.
The constraint `OneOrTwo` explores two situations. In `OneListens` no process lists itself:
`n1` mines while `n2` listens, pays and dies; the order of the two genesis blocks is
fixed, processes are killed only after that, and one block less is mined
when both a kill and a Force Sync are used. In `ListsItself`, `n1` lists itself, as
`config.vili` has it, and `n2` never runs: `n1` gets its own blocks and its own two
payments, which its server adds up to `MaxCopies` times, with three blocks, or one less
for a kill and for a Force Sync; that is enough to earn a reward, to send
it, to get it back and to lose the next one to an interruption, and to seal a block with
a repeated transaction and load it. `Unraced` cuts a behaviour at the first race, beyond which every
property is vacuous (`raced` is never reset) but `TypeOK` and `OwnAfterFirst`,
which are therefore checked up to the first race, and proved without that limit.

`Tracker`: a process with itself and two processes calling each other are within
two processes and two clients; a client is used once, so that `Clients` bounds
the number of calls, and with it the length of the lists. The number of deaths,
restarts and port changes is not bounded. `OnlyOneMoves` explores handshakes
between a process that stays and one that dies, restarts and moves; propagations
and the disturbance of both at once are in `tracker_clients`.

`IoService`: two lives of the server and one client over two descriptors are the
least in which a descriptor is given out again to a socket of the other kind, or
of the same one; two connections let one wait while another is handled.

`Keyring`: two keys, two threads and two wallets let a pair be mixed and a file
hold two entries. Of the names, two are read alike and a third as itself; five are odd,
one of each kind in each file. `OddAlone`: an odd name is used beside the first name and
other odd ones (so that it meets a good one before it, after it and under the same
reading, through saves, deaths and loads), where one thread at a time creates the wallets,
the first with `k1` and the second with `k2`.
`OneHazardAtATime`: threads overlap, and files are cut, before a second wallet
is kept.

`MCAlgorithms`: `Half` is 128, 200, 300 and 400, so that the four widths have
limits close to one another, and the numbers tried stand on both sides of each.
Bytes 0, 1, 57, 58 and 255 stand on both sides of a digit of base 58. Five
signatures have an odd round below an odd round.

State constraints: `Unraced` cuts a behaviour at the first step that sets `raced`,
which is never reset; the properties of those runs are implications from
`~raced` (but for `chain`, see above), so that nothing is lost. `mining_races` has no constraint.

Calls, workers and clients are interchangeable in the specifications, so the
safety runs of `Mining` and `Tracker` use symmetry; runs with liveness properties
do not.

Deadlock is checked in `algorithms` alone: elsewhere every behaviour may end,
when its calls, clients, blocks or connections are used up, when `fault` ends a
process, or when a program cannot start again.

### Fairness

`Mining`: weak fairness of every call, mining thread and worker (the operating
system schedules them, and none waits for a lock), and strong fairness of
`FindNonce` for each worker: a worker that goes on trying new nonces finds one.
The starting of calls is not fair. `Tracker`: weak fairness of every client, of
each server and of the UI thread once it is in `start_server`. `Begin`, `Kill` and
`Restart` are not fair. `recv` is enabled only when there is something to
receive or the other end is closed. `IoService`: weak fairness of the poll
thread, of the worker (for which `AcceptFails` counts only when nothing listens), of
the UI thread once it is in `stop`, and of the owner of each socket; nothing makes a peer connect or a server stop.
`Keyring`: weak fairness of each key thread, and strong fairness of the drawing of
each key, which is random. `Chain` and the algorithms have no liveness properties
and no fairness.

## 4. What the source says and the code does not keep

These runs are expected to fail. Each checks one sentence the source says of the
program. The findings in `PROJECT.json` have the details.

| Run | Property | What happens |
|---|---|---|
| `invalid_block` | `NoInvalidBlockManipulated` | `mine` tests `m_validated` (`Block.cpp:290`), a transaction clears it (`:188`), and `get_hash` (`:299`) throws in a thread without a catch: the process ends |
| `server_stops` | `ServerKeepsServing` | answering `ask_block` connects to the caller's ephemeral port; the error stops the server |
| `peer_blocks` | `BlockIsCompared` | `set_new_block` compares a peer's block with `get_hash` of the pending block, which throws: on a chain of more than one block, none is accepted or refused for its hash |
| `stop_crossed` | `WaitEndsCallbacks` | the UI thread and the server's callback both pass the test of `m_is_running`; the callback closes the socket, and `wait_for_removal` finds no descriptor to wait for |

More disagreements are modelled and have no run, because a property against them
would restate a step or another run:

- Send counts the reward of the block being mined and takes it back by interrupting the
  mining: a user owes a reward they do not have, though `Ui.cpp:517` refuses those without
  funds (`OverdraftBounded` says how much at most);
- a transaction added around the seal changes a block's hash after its successor
  named it (inside the windows of `Mining`);
- an interrupted miner removes the reward of a block its own worker validated;
  the file will not load (the same);
- the server and a client thread check, then push: the same node is listed twice
  (`Tracker.cpp:59`, `Tracker.cpp:71`);
- a peer that still lists a restarted process does not answer it: the process rejects a correct
  node for its silence (`Tracker.cpp:63`, `Tracker.cpp:102`);
- one node that cannot be reached empties the list (`PropagateFail`); the send
  after `connect` is outside of the `try` (`SendHelloFails`);
- a mining thread looks the current block up late and may mine an empty one
  (`StartThread`);
- an index into the peers that is uninitialised or stale (`RemoveNode`);
- a process that lists itself adds each of its payments twice (`ReceiveTransaction`),
  which is another way to an overdraft, and to a block that will not load;
- names that vili takes for grammar: a wallet that replaces the keys of the one before
  it (`inside`), one that ends the program (`path`, or no name at all: `AddWalletThrows`), an
  address that is not read (`nothing`), and a line with which no start comes
  through (`broken`, `FailToStart`);
- two key threads can leave a wallet with halves of two pairs (`overlapped`).

## 5. What is proved

Every invariant and every action property of the runs that pass is a
theorem, and so is the refinement of `Ledger`; liveness is not. Every theorem is
for any values of the constants that satisfy the assumptions named in its module, and
of the specification alone: it does not have the constraints of the runs.

`Mining_proofs`, for any sets of calls and workers (finite, workers not empty) and
any positive `MinTx`:

- `TypeCorrect`: `Spec => []TypeOK`. The part that is not a matter of types is
  `blk[c] \in 1..Len(blocks)`: a thread's reference is to a block of the chain. `TypeOK` is
  inductive as it stands; the proof has one lemma per group of actions.
- `FlagsAlwaysOwned`: `Spec => []FlagsOwned`. Inductive together with `TypeOK`: a
  flag becomes TRUE in `SetMining` and `SetSagain` alone, which leave the thread
  where the invariant wants it; a thread leaves those places only by `EndMining`
  and `EndSagain`, which clear the flag of the block it refers to; the reference
  changes in `StartThread` only, outside of `mine`, and when an ended thread drops it.
- `TransactionsAlwaysKept`: `Spec => TransactionsKept`. From `TypeOK` for the
  state before the step; only `CleanBlock` removes anything.

`MiningSound_proofs`, under the same assumptions: `SealedSound`, `FileReloads`,
`WireCarriesTheChain` and `SealedStays` (for `SoundUnlessRaced`,
`FileReloadsUnlessRaced`, `WireUnlessRaced` and `SealedImmutable`). These
speak of sealed blocks, and what makes them sound was decided while they were
mined, so that none is inductive. `SoundInv == TypeOK /\ (~raced => Sound)` is:

- *Local*: what each mining thread and its workers have established where they
  are. Workers run only while their thread waits for them (`WorkersInPlace`), on
  the last block (`AtTip`), with its flags up (`FlagsUp`) and an exact copy of its
  header (`CopyIsExact`); a nonce in hand solves that copy (`FoundIsGood`), what
  was stored first is right (`PublishedIsGood`), a block is valid only once a worker
  has won (`ValidIsWon`), and it holds the one reward of the thread (`OneReward`).
- *Pair*: two threads with the same block keep out of each other's way
  (`Alone`), and a caller in the middle of `add_transaction` has not disturbed a
  block that is being solved (`NotDisturbed`).
- `RewardIsHeld`: a reward in the pending block is that of a thread at work;
  `FileIs` and `WireIs` say exactly which blocks are in the file and have been sent.

`OthersAway` derives from `~raced` that no other thread is inside the block
that a step stores to; `ActStep`, `WorkerStepSound`, `AfterStep`,
`PushBlockSound` and `CallerStep` are the cases of the induction.

`Chain_proofs`, for any processes, payments, reward (a natural number) and bounds: `TypeTheorem`, `OwnTheorem`, `SealedTheorem`, `FileTheorem`,
`OverdraftTheorem` and `LedgerTheorem` (for `TypeOK`, `OwnAfterFirst`, `SealedChain`,
`FileLoads`, `OverdraftBounded` and `ImplementsLedger`). `Inv == TypeOK /\ Order /\
Unraced`:

- `Order` holds of every process, raced or not. Whatever was hashed follows what it
  names, and from depth 2 on that is the same process's (`Sound`); a message tells
  of a block its reader has not made, or has no transactions (`Mail`); blocks in
  memory, in the file and in a dump about to be written say what was hashed
  (`Process`). `TypeOK` and `OwnAfterFirst` follow from `TypeOK /\ Order`, which is
  inductive without the rest.
- `Unraced` says of every process that has not raced what its file is (`Readable`,
  `Boots`) and that its chain is as it should be wherever its threads are
  (`Stands`): blocks follow one another and say what was hashed (`Chained`); the
  last one holds a reward only while it is mined, and without it the owner is not
  deeper in debt than one reward and what came back (`Pays`); the server's thread seals a block only
  while nobody else does, and only in a chain of one (`Relays`); the file holds
  what is sealed, unless a thread is saving it (`Stored`). Of its own blocks that reach a
  process again it says that `set_new_block` takes none: they are of depth 0, or not as deep
  as the chain, or as deep as its last block while the miner is sealing that (`Echoes`);
  and a chain of one block begins at depth 0 unless the server's thread is sealing a
  peer's (`Rooted`). All of this is needed because a block is sealed by one step and what
  makes it sound was decided by earlier ones, of three threads.

Each action is proved to keep `Order` and, unless it races, `Unraced`. The
refinement has one lemma per kind of step of `Ledger`: a sealed block extends the
ledger (`PushNext`, `ReceiveBlock`), Force Sync restarts it, a death in a save
leaves a prefix of it, a step that sets `raced` spoils it, everything else stutters.

`Tracker_proofs`, for any finite sets of processes (not empty) and clients and any
set of ports that holds the default one:

- `TypeCorrect`: `Spec => []TypeOK`, inductive as it stands. What needs an argument is that
  a server that is not idle handles a connection (whatever drops one in the middle of a
  handler frees the server too), and that a "hello" it answers carries a port
  (`RecvMsg` enters the handler only after `SendHello`).
- `PeersAlwaysVouched`: `Spec => []PeersVouched`. The invariant says nothing of what
  is on its way to a list, so it is not inductive. `Vouched` adds, for every
  connection that waits or is being handled, that its port was announced by the
  process it comes from and that it joins the two processes its client is at
  work for (`Honest`); and for every client, that the port it heard was
  announced by the process it called (`Answered`). A port enters a connection in
  `SendHello` and a client in `AnswerHello`, which both announce it; lists grow in
  `EmplaceNode` and `PushNode`, from these two; nothing is ever taken out of
  `announced`, not even by a restart; and a step that only removes nodes,
  connections or clients keeps all three (`VouchedKept`, the lemma
  most actions go through).
- `HandshakesSymmetric`: `Spec => []HandshakeSymmetric`. The property speaks of
  processes that are quiet, and says nothing of what happens between two
  quiet states. `Symmetric == ~disturbed => Sides` says how far each handshake is:
  the client of a connection that waits, or is handled, has not given up, and has
  no second one (`Line`, `Calling`); and a process that is known by another knows it
  too, or has a client that was answered by it and will add it (`Pledged`), or a
  server that answered one of its clients and will (`Promised`); this is `Agreed`.
  One handshake may keep the promise of another, so that no bijection between the
  lists and the handshakes is needed.

`IoService_proofs`, for any finite sets of servers, clients and descriptors:
`TypeCorrect`, `OneTask`, `Quiet`, `NeverDeaf`. The invariant `IInv` adds that
two open sockets have two descriptors (`OwnFds`), that one server is open at a time
(`OneServer`), that the worker has a task
unless it is idle, and, as long as no descriptor was reused, that a callback is kept under
the descriptor of its own server (`CallbackHome`) and that every task has an
entry that says so (`TaskEntry`), and no two tasks the same one (`OwnEntries`). `Quiet`
needs more, as long as the two stops have not crossed: one thread at a time is
past the test of `m_is_running`, and the server it stops is open until that
thread closes it (`StopsAlone`); so the descriptor that `wait_for_removal` looks up is the
one `untrack` was given, and when it returns no entry has the callback of that server, and
none will again (`TargetGone`).

`Algorithms_proofs`:

- of `Wire`, for any `Half` that begins with 128 and grows, the real limits
  among them, and any messages of the kinds the program sends:
  `NumbersAlwaysSurvive`, `OneHandlerAlwaysRuns`. An integer arrives as itself, in
  an unsigned type no wider than its own (`Arrives`, one lemma per `Dump`); what
  `check_requirement` accepts contains all of these.
- of `Merkle`, for any signatures and digests: `RootAlwaysDecides`,
  `DifficultyAlwaysCounted`. Two roots are compared round by round from the top: if
  they are equal there were equally many rounds, and what each round combined
  is equal (`SameLevels`, `BranchParts`), down to the signatures, of which the
  last may be there once or twice; and two lists with the same elements, equally often, are rearrangements of each
  other, have the same ranks and hence the same `Sorted`.
- of `Base58`, for any bytes: `ArraysAlwaysSurvive`, `BuffersAlwaysSuffice`. The inner
  loop computes `F * Amount + digit` and leaves the carry that does not fit
  (`AccumulateIs`); the two estimates, 138/100 and 733/1000, are enough for every
  length because 256^8 <= 58^11 and 58^71 <= 256^52 (`EstimatesSuffice`); digits
  without leading zeroes are decided by their number (`DigitsDecided`), and
  leading zeroes are counted on both ways (`RoundTrip`). Sizes are natural numbers:
  the width of `size_t` is not modelled.

`Keyring_proofs`, for any keys, names, prefixes and threads, and any grammar
(`NamesAssumption`: a line that is not broken is read under a name whose own line is
not broken either). `TypeCorrect` is of the types of each list and file
(`Types`). `WalletsKeptAsAsked` is from `AloneInv` (without an
overlap, where the one thread is tells which halves of the pair are stored; once
the window is told, both are). `KeysAlwaysKept` and `AddressesAlwaysKept` are from
`KeyInv`. Its part `Held(f)` says, as long as the file `f` is neither
spoiled nor clashed and was given no odd name: the names in `All(f)`, which is memory and
what is still to be read, are plain and distinct; the file and the lines still to be
written are what is in memory (`Synced`); and what was kept is in `All(f)` (`Has`). A list
of plain, distinct names is read back under the readings of its names (`ReadAsItIs`),
which are plain again, so that such a load never meets an entry without a name
(`HeldFail`), unless the file ended in a wallet without its keys, which is only while
it is being written or when it is spoiled (`Mended`). `AlwaysStartsUnlessCut` is from `Fine`: as long as nothing excuses a failure, no
list, file or save has a name that breaks its line (`Tamed`), so that the file parses
(`TameParses`) and its entries load (`TameLoads`). The runs limit themselves to one
hazard at a time; the theorems do not.

`Loops_proofs` is about no component. Induction is stated there for a set of
numbers (`SetInduction`, `SetInductionUpTo`, `Greatest`), which the provers can
instantiate where they cannot instantiate an operator; from it come the
existence and uniqueness of a function defined along a loop (`Course`, `SameCourse`) and
what `Kept` and `Total` return, preserve and bound.

Model-checked only: liveness under fairness (`MinersFinish`, `AutoMined`, `ClientsEnd`,
`UiComesBack`, `ConnectionsAccepted`, `StopReturns`, `CreationEnds`), which the
prover does not reason about; and the counterexamples of section 4.

## 6. Plan

Done: all of the above. What is left, in this order:

1. `Sync`: `Chain` composed with the connections of `Tracker`, so that a message
   is lost or repeated because of what its connection went through. `Chain`
   allows all of these outcomes already.
2. Messages in segments, if `recv_msg` should learn to read more than once.

## 7. Not modelled, and why

- Of the repository's lines, nine in ten are vendored libraries and headers
  (ImGui, fmt, spdlog, argh, the fields and tables of Ed25519, `stb_*`): they
  draw, format or compute, and neither read nor change the state of the program.
- SHA-512 and Ed25519: compression of 1024 bits and arithmetic modulo 2^255 are
  out of TLC's reach; what the models rely on is that hashes do not collide and
  signatures verify.
- Text: the parsing of addresses (`is_address_valid`, `split`,
  `is_string_numeric`, `rtrim`) and of the command line. `is_string_numeric` compares iterators `is_string_numeric` compares iterators of two
  temporaries, which has no defined result to model. Of vili, flags, links,
  arrays as values, includes and the cache: the files are what the program itself wrote.
- Names whose effect is not one of `Grammar`'s kinds: an unbalanced quotation mark, a slash at
  the end, parentheses or a semicolon (inheritance and instructions of vili), `public` and
  `private` or the path of a value (the cast of a node to another type has no
  defined result), several labels that are read under the text of their keys. An
  address with an empty label is one of these: its line has the key where the name
  should be. The public key of "Add Address" is text of the user too, and is taken to be a
  key. The two lines of keys of a wallet are one step.
- A start without `blockchain.vili`, `wallets.vili` or `addresses.vili`: `parseFile` throws
  (`ViliParser.cpp:443`), and the program does not start. The repository ships all of
  them, empty, and nothing removes them.
- `check_requirement` is declared to return a `bool` and has no `return`, which
  is undefined; its caller ignores the value, and `Wire` takes it to return.
- Segments of a TCP stream: `recv_msg` reads once, and a message in two segments
  is cut. Showing what is left of it would take the bytes of every message.
- Data races inside a container operation, and what follows an access outside of
  a container: undefined, and without a state to continue from.
- Of tacopie: asynchronous reads and writes, write callbacks and the change of
  the number of workers, which the program does not use, and the Windows variants.
- Drawing, the explorer windows, logging, the transaction viewer
  (`ImguiTxViewer.hpp`): no state that a property is about.

## 8. Running

    tlc -workers 2 -config MCMining_races.cfg MCMining.tla
    tlc -workers 2 -config MCMining_unraced.cfg MCMining.tla
    tlc -workers 2 -config MCChain_ledger.cfg MCChain.tla
    tlc -workers 2 -config MCTracker_ports.cfg MCTracker.tla
    tlc -workers 2 -config MCTracker_clients.cfg MCTracker.tla
    tlc -workers 2 -config MCIoService_threads.cfg MCIoService.tla
    tlc -workers 2 -config MCKeyring_crashes.cfg MCKeyring.tla
    tlc -workers 2 -config MCAlgorithms_edges.cfg MCAlgorithms.tla

The runs of section 4 have the configurations `V_*.cfg` (`MCMining`, `MCTracker`,
`MCChain` and `MCIoService`). The proofs:

    tlapm Loops_proofs.tla
    tlapm Mining_proofs.tla
    tlapm MiningSound_proofs.tla
    tlapm Chain_proofs.tla
    tlapm Tracker_proofs.tla
    tlapm IoService_proofs.tla
    tlapm Algorithms_proofs.tla
    tlapm Keyring_proofs.tla

`chain`, `mining_races` and `io_service` take about three minutes on two cores, the other runs
less than two; the proofs of `Chain`, `Keyring`, `Tracker` and the algorithms take several
minutes each, the others two or less.
