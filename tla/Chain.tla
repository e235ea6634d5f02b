------------------------------- MODULE Chain -------------------------------
(***************************************************************************)
(* The chain of an IsenCoin process and its life: start, blockchain.vili,  *)
(* blocks and transactions from the user and from peers, Force Sync, and   *)
(* the death of the process.                                               *)
(*                                                                         *)
(* A process has three threads that reach the chain: the UI thread (which  *)
(* also starts the process), the server's thread ("net"), and the thread a *)
(* mine_and_next detaches ("miner").  Mining shows what these do to one    *)
(* block, a store at a time; here a handler is one step, except where it   *)
(* writes the file or works for long: create_new_block is three steps      *)
(* (truncate the file, write it, push the next block), mining is two.      *)
(*                                                                         *)
(* A hash is known by the block it was mined for: solved lists what was    *)
(* hashed, and a block that names an entry is valid when it says the same. *)
(***************************************************************************)
EXTENDS Integers, Sequences, FiniteSets, SequencesExt, Loops

CONSTANTS
  Procs,     \* the processes, and the owners of their wallets
  Payments,  \* the payments their users make: [from, to, amount]
  Reward,    \* config::ISENCOIN_REWARD
  Mint,      \* config::ISENCOIN_NULL_ADDRESS, the sender of rewards
  MaxBlocks, \* bound: blocks ever mined, by all processes
  MaxKills,  \* bound: processes killed from outside
  MaxSyncs   \* bound: uses of Force Sync

ASSUME PaymentsAssumption == Payments \subseteq [from : Procs, to : Procs, amount : Int]
ASSUME RewardAssumption == Reward \in Nat
ASSUME MintAssumption   == Mint \notin Procs
ASSUME BoundsAssumption == {MaxBlocks, MaxKills, MaxSyncs} \subseteq Nat

VARIABLES
  chain,   \* Chain::m_blocks of each process
  nothing, \* Chain::null_block, current while m_blocks is empty
  file,    \* blockchain.vili
  pc,      \* what each thread of each process is doing
  snap,    \* the dump a thread is about to write
  net,     \* messages sent and not yet read
  paid,    \* the payments made so far
  solved,  \* history: what was mined, and by whom
  raced,   \* history: a thread used the chain while another was sealing it
  returned,\* history: what the server added again of its own user's payments
  kills,   \* how often a process was killed
  syncs    \* how often Force Sync was used

vars == <<chain, nothing, file, pc, snap, net, paid, solved, raced, returned,
          kills, syncs>>

-----------------------------------------------------------------------------
(***************************************************************************)
(* Transactions and blocks.                                                *)
(***************************************************************************)
reward(n)  == [from |-> Mint, to |-> n, amount |-> Reward, serial |-> Len(solved)]
payment(p) == [from |-> p.from, to |-> p.to, amount |-> p.amount, serial |-> 0]

is_reward(tx) == tx.from = Mint

NoBlock == 0    \* the zero hash

PendingBlock(depth, prev) ==
  [depth |-> depth, prev |-> prev, txs |-> <<>>, id |-> NoBlock,
   valid |-> FALSE]

\* What a block is hashed from.  The order of the transactions does not count,
\* and nothing here changes it.
Header(b) == [depth |-> b.depth, prev |-> b.prev, txs |-> b.txs]

\* Block::validate, of a block a message or the file describes
Validates(b) ==
  b.id \in DOMAIN solved /\ solved[b.id].header = Header(b)

\* A transaction is kept under its signature: once.
Once(txs) == Kept(txs, {i \in DOMAIN txs : \A j \in 1..i - 1 : txs[j] # txs[i]})

Dumped(b) == [b EXCEPT !.txs = Once(@)]

Valids(blocks) == Kept(blocks, {i \in DOMAIN blocks : blocks[i].valid})

WithoutRewards(txs) == Kept(txs, {i \in DOMAIN txs : ~is_reward(txs[i])})

\* Variant: the file is written without the rewards.
Dump_without_rewards(blocks) ==
  [i \in DOMAIN Valids(blocks) |-> [Valids(blocks)[i] EXCEPT !.txs = WithoutRewards(@)]]

Dump(blocks) == [i \in DOMAIN Valids(blocks) |-> Dumped(Valids(blocks)[i])]

\* An entry of which only a part was written.
Torn == PendingBlock(0, NoBlock)

\* Wallet::get_funds, of one transaction, of a block and of the blocks of a chain
Effect(tx, owner) ==
  CASE tx.from = owner -> - tx.amount
    [] tx.from # owner /\ tx.to = owner -> tx.amount
    [] OTHER -> 0

Income(txs, owner) == Total([i \in DOMAIN txs |-> Effect(txs[i], owner)])

\* Variant: the current block is counted once more.
get_funds_current_twice(blocks, owner) ==
  LET all == IF blocks = <<>> THEN <<>> ELSE Append(blocks, Last(blocks))
  IN  Total([i \in DOMAIN all |-> Income(all[i].txs, owner)])

get_funds(blocks, owner) == Total([i \in DOMAIN blocks |-> Income(blocks[i].txs, owner)])

-----------------------------------------------------------------------------
(***************************************************************************)
(* Processes and threads.                                                  *)
(***************************************************************************)
Threads == {"ui", "net", "miner"}

Starting == {"boot", "seal", "write", "push"}

UiPcs    == Starting \cup {"down", "free", "genesis", "aborted"}
NetPcs   == {"idle", "seal", "write", "push"}
MinerPcs == NetPcs \cup {"mining", "stopping", "mined", "dangling"}

Off == [ui |-> "down", net |-> "idle", miner |-> "idle"]

At(n, t, from) == pc[n][t] = from
Go(n, t, to)   == pc' = [pc EXCEPT ![n][t] = to]

Up(n)     == pc[n].ui # "down"
\* s_blockchain is set once the constructor of Chain is through.
Serves(n) == pc[n].ui \in UiPcs \ (Starting \cup {"down"})

Size(n)  == Len(chain[n])
Tip(n)   == chain[n][Size(n)]

get_current_block(n) == IF chain[n] = <<>> THEN nothing[n] ELSE Tip(n)

SetCurrent(n, b) ==
  IF chain[n] = <<>>
  THEN nothing' = [nothing EXCEPT ![n] = b] /\ UNCHANGED chain
  ELSE chain' = [chain EXCEPT ![n][Size(n)] = b] /\ UNCHANGED nothing

Sealing(n, t) == pc[n][t] \in {"mined", "seal", "write", "push"}

\* Thread t uses the chain: another thread may be in the middle of sealing it.
Trespass(n, t) ==
  raced' = [raced EXCEPT ![n] = @ \/ \E o \in Threads \ {t} : Sealing(n, o)]

\* What is in the file when its process dies: a thread between the opening and
\* the end of its save leaves any part of the dump.
Remains(n) ==
  {file[n]} \cup UNION {LET d == snap[n][t]
                        IN  {SubSeq(d, 1, k) : k \in 0..Len(d)}
                            \cup {Append(SubSeq(d, 1, k), Torn) : k \in 0..Len(d) - 1} :
                        t \in {o \in Threads : At(n, o, "write")}}

\* The process ends, killed or by an exception no one catches.
Die(n) ==
  /\ chain' = [chain EXCEPT ![n] = <<>>]
  /\ nothing' = [nothing EXCEPT ![n] = PendingBlock(0, NoBlock)]
  /\ \E left \in Remains(n) : file' = [file EXCEPT ![n] = left]
  /\ pc' = [pc EXCEPT ![n] = Off]
  /\ snap' = [snap EXCEPT ![n] = [t \in Threads |-> <<>>]]
  /\ net' = {m \in net : m.to # n}

Init ==
  /\ chain = [n \in Procs |-> <<>>]
  /\ nothing = [n \in Procs |-> PendingBlock(0, NoBlock)]
  /\ file = [n \in Procs |-> <<>>]
  /\ pc = [n \in Procs |-> Off]
  /\ snap = [n \in Procs |-> [t \in Threads |-> <<>>]]
  /\ net = {}
  /\ paid = {}
  /\ solved = <<>>
  /\ raced = [n \in Procs |-> FALSE]
  /\ returned = [n \in Procs |-> 0]
  /\ kills = 0
  /\ syncs = 0

-----------------------------------------------------------------------------
(***************************************************************************)
(* The start of a process, in the thread that becomes the UI thread: the   *)
(* server runs before there is a chain.                                    *)
(***************************************************************************)
Start(n) ==
  /\ At(n, "ui", "down")
  /\ Go(n, "ui", "boot")
  /\ UNCHANGED <<chain, nothing, file, snap, net, paid, solved, raced, returned, kills,
                 syncs>>

Mine(n, b) ==
  /\ Len(solved) < MaxBlocks
  /\ solved' = Append(solved, [by |-> n, header |-> Header(b)])

Solved(b) == [b EXCEPT !.id = Len(solved) + 1, !.valid = TRUE]

\* The constructor of Chain up to its create_new_block.
LoadChain(n) ==
  /\ At(n, "ui", "boot")
  /\ \/ /\ file[n] # <<>>
        /\ \A i \in DOMAIN file[n] : Validates(file[n][i])
        /\ chain' = [chain EXCEPT ![n] = [i \in DOMAIN file[n] |->
                                            [file[n][i] EXCEPT !.valid = TRUE]]]
        /\ Go(n, "ui", "seal")
        /\ UNCHANGED <<nothing, file, snap, net, solved>>
     \/ /\ \E i \in DOMAIN file[n] : ~Validates(file[n][i])
        /\ Die(n)
        /\ UNCHANGED solved
     \/ /\ file[n] = <<>>
        /\ Mine(n, PendingBlock(0, NoBlock))
        /\ chain' = [chain EXCEPT ![n] = <<Solved(PendingBlock(0, NoBlock))>>]
        /\ Go(n, "ui", "seal")
        /\ UNCHANGED <<nothing, file, snap, net>>
  /\ UNCHANGED <<paid, raced, returned, kills, syncs>>

-----------------------------------------------------------------------------
(***************************************************************************)
(* Chain::create_new_block, of any thread.  An exception is caught only in *)
(* the handler of a message.                                               *)
(***************************************************************************)
\* Variant: every thread returns to the user interface.
After_free(t) == "free"

After(t) == IF t = "ui" THEN "free" ELSE "idle"

Fail(n, t) ==
  IF t = "net"
  THEN Go(n, t, "idle") /\ UNCHANGED <<chain, nothing, file, snap, net>>
  ELSE Die(n)

\* back() of an empty m_blocks is no block: the process crashes.
Truncate(n, t) ==
  /\ At(n, t, "seal")
  /\ CASE chain[n] = <<>> -> Die(n)
       [] chain[n] # <<>> /\ ~Tip(n).valid -> Fail(n, t)
       [] OTHER ->
            /\ file' = [file EXCEPT ![n] = <<>>]
            /\ snap' = [snap EXCEPT ![n][t] = Dump(chain[n])]
            /\ Go(n, t, "write")
            /\ UNCHANGED <<chain, nothing, net>>
  /\ Trespass(n, t)
  /\ UNCHANGED <<paid, solved, returned, kills, syncs>>

\* Two threads that write at once leave a mixture; raced says so.
WriteFile(n, t) ==
  /\ At(n, t, "write")
  /\ file' = [file EXCEPT ![n] = snap[n][t]]
  /\ snap' = [snap EXCEPT ![n][t] = <<>>]
  /\ Go(n, t, "push")
  /\ Trespass(n, t)
  /\ UNCHANGED <<chain, nothing, net, paid, solved, returned, kills, syncs>>

PushNext(n, t) ==
  /\ At(n, t, "push")
  /\ CASE chain[n] = <<>> -> Die(n)
       [] chain[n] # <<>> /\ ~Tip(n).valid -> Fail(n, t)
       [] OTHER ->
            /\ chain' = [chain EXCEPT ![n] =
                           Append(@, PendingBlock(Size(n), Tip(n).id))]
            /\ Go(n, t, After(t))
            /\ UNCHANGED <<nothing, file, snap, net>>
  /\ Trespass(n, t)
  /\ UNCHANGED <<paid, solved, returned, kills, syncs>>

-----------------------------------------------------------------------------
(***************************************************************************)
(* Chain::mine_and_next by the "Start mining now" button, with the user's  *)
(* wallet for the reward.  mine looks the block up once, what follows it   *)
(* looks the current block up again.                                       *)
(***************************************************************************)
StartMining(n) ==
  /\ At(n, "ui", "free")
  /\ At(n, "miner", "idle")
  /\ LET b == get_current_block(n)
     IN  /\ b.txs # <<>>
         /\ SetCurrent(n, [b EXCEPT !.txs = Append(@, reward(n)), !.valid = FALSE])
  /\ Go(n, "miner", "mining")
  /\ Trespass(n, "ui")
  /\ UNCHANGED <<file, snap, net, paid, solved, returned, kills, syncs>>

\* The button again: Block::interrupt.
Interrupt(n) ==
  /\ At(n, "ui", "free")
  /\ At(n, "miner", "mining")
  /\ Go(n, "miner", "stopping")
  /\ UNCHANGED <<chain, nothing, file, snap, net, paid, solved, raced, returned, kills,
                 syncs>>

\* The workers give up and clean_block removes the reward.
CleanBlock(n) ==
  /\ At(n, "miner", "stopping")
  /\ SetCurrent(n, [get_current_block(n) EXCEPT !.txs = WithoutRewards(@)])
  /\ Go(n, "miner", "mined")
  /\ UNCHANGED <<file, snap, net, paid, solved, raced, returned, kills, syncs>>

Solve(n) ==
  /\ At(n, "miner", "mining")
  /\ Mine(n, get_current_block(n))
  /\ SetCurrent(n, Solved(get_current_block(n)))
  /\ Go(n, "miner", "mined")
  /\ UNCHANGED <<file, snap, net, paid, raced, returned, kills, syncs>>

\* The block being mined was destroyed: the process crashes, or the thread
\* finds its way out of mine and asks the current block if it is valid.
Dangle(n) ==
  /\ At(n, "miner", "dangling")
  /\ \/ Die(n)
     \/ Go(n, "miner", "mined") /\ UNCHANGED <<chain, nothing, file, snap, net>>
  /\ UNCHANGED <<paid, solved, raced, returned, kills, syncs>>

\* propagate reaches the processes that are listed and run.  config.vili lists the
\* process itself, and no one takes it off the list.
BlockMessages(b, to) ==
  {[to |-> m, kind |-> "block", body |-> b] : m \in {o \in to : Up(o)}}

PropagateBlock(n) ==
  /\ At(n, "miner", "mined")
  /\ LET b == get_current_block(n)
     IN  IF b.valid
         THEN /\ \E to \in SUBSET Procs : net' = net \cup BlockMessages(b, to)
              /\ Go(n, "miner", "seal")
         ELSE Go(n, "miner", "idle") /\ UNCHANGED net
  /\ UNCHANGED <<chain, nothing, file, snap, paid, solved, raced, returned, kills, syncs>>

-----------------------------------------------------------------------------
(***************************************************************************)
(* Transactions.  add_transaction interrupts the mining of the block and   *)
(* makes it invalid.                                                       *)
(***************************************************************************)
Interrupted(n) ==
  {[pc[n] EXCEPT !.miner = IF @ = "mining" THEN "stopping" ELSE @,
                 !.ui = u] :
     u \in IF At(n, "ui", "genesis") THEN {"genesis", "aborted"} ELSE {pc[n].ui}}

\* Variant: the block stays valid.
add_transaction_keeps_valid(n, tx) ==
  /\ SetCurrent(n, [get_current_block(n) EXCEPT !.txs = Append(@, tx)])
  /\ \E p \in Interrupted(n) : pc' = [pc EXCEPT ![n] = p]

add_transaction(n, tx) ==
  /\ SetCurrent(n, [get_current_block(n) EXCEPT !.txs = Append(@, tx),
                                                 !.valid = FALSE])
  /\ \E p \in Interrupted(n) : pc' = [pc EXCEPT ![n] = p]

\* TxCreateWindow's Send.  A negative amount passes the test of the funds and
\* is refused by an exception that ends the process.
Send(n, p) ==
  /\ At(n, "ui", "free")
  /\ p.from = n /\ p \notin paid
  /\ get_funds(chain[n], n) >= p.amount
  /\ IF p.amount < 0
     THEN Die(n) /\ UNCHANGED <<raced>>
     ELSE /\ add_transaction(n, payment(p))
          /\ \E to \in SUBSET Procs :
               net' = net \cup {[to |-> m, kind |-> "transaction",
                                 body |-> payment(p)] : m \in {o \in to : Up(o)}}
          /\ Trespass(n, "ui")
          /\ UNCHANGED <<file, snap>>
  /\ paid' = paid \cup {p}
  /\ UNCHANGED <<solved, returned, kills, syncs>>

\* A process may be listed more than once and then gets a message as often: no
\* message leaves net before its reader dies.
MaxCopies == 2  \* bound: copies of a transaction a block takes from messages

Copies(txs, tx) == Cardinality({i \in DOMAIN txs : txs[i] = tx})

ReceiveTransaction(n, m) ==
  /\ m \in net /\ m.to = n /\ m.kind = "transaction"
  /\ Up(n)
  /\ At(n, "net", "idle")
  /\ IF Serves(n)
     THEN /\ Copies(get_current_block(n).txs, m.body) < MaxCopies
          /\ add_transaction(n, m.body)
          /\ returned' = [returned EXCEPT ![n] = @ + IF m.body.from = n THEN m.body.amount ELSE 0]
          /\ Trespass(n, "net")
          /\ UNCHANGED <<file, snap, net>>
     ELSE Die(n) /\ UNCHANGED <<raced, returned>>     \* *s_blockchain is null
  /\ UNCHANGED <<paid, solved, kills, syncs>>

-----------------------------------------------------------------------------
(***************************************************************************)
(* The "block" message and Chain::set_new_block.                           *)
(***************************************************************************)

\* Block's copy constructor leaves the transactions behind.
Copy(b) == [b EXCEPT !.txs = <<>>, !.valid = TRUE]

\* The last block goes, and whoever mines it is left with a dangling reference.
Lost(n) ==
  [pc[n] EXCEPT !.miner = IF @ \in {"mining", "stopping"} THEN "dangling" ELSE @,
                !.ui = IF @ = "genesis" THEN "aborted" ELSE @]

Replace(n, b) ==
  /\ chain' = [chain EXCEPT ![n] = Append(Front(@), Copy(b))]
  /\ pc' = [pc EXCEPT ![n] = [Lost(n) EXCEPT !.net = "seal"]]

\* Variant: the new block is compared with the one before the pending block.
Compatible_with_sealed(n, b) ==
  Size(n) > 1 => b.prev = chain[n][Size(n) - 1].id

\* previous_hash == get_hash() of the last block, which throws unless valid
Compatible(n, b) == Size(n) > 1 => Tip(n).valid /\ b.prev = Tip(n).id

ReceiveBlock(n, m) ==
  /\ m \in net /\ m.to = n /\ m.kind = "block"
  /\ Serves(n)
  /\ At(n, "net", "idle")
  /\ LET b == m.body
         fits == Validates(b) /\ b.depth = Size(n)
     IN  CASE fits /\ chain[n] = <<>> -> Die(n) /\ UNCHANGED raced \* pop_back
           [] fits /\ chain[n] # <<>> /\ Compatible(n, b) ->
                /\ Replace(n, b)
                /\ Trespass(n, "net")
                /\ UNCHANGED <<nothing, file, snap, net>>
           [] OTHER -> UNCHANGED <<chain, nothing, file, snap, net, pc, raced>>
  /\ UNCHANGED <<paid, solved, returned, kills, syncs>>

ReceiveBlockTooEarly(n, m) ==
  /\ m \in net /\ m.to = n /\ m.kind = "block"
  /\ pc[n].ui \in Starting
  /\ Validates(m.body)
  /\ Die(n)
  /\ UNCHANGED <<paid, solved, raced, returned, kills, syncs>>

-----------------------------------------------------------------------------
(***************************************************************************)
(* Chain::fetch_genesis.  Peers that are listed are asked for block 0;     *)
(* their answer never arrives (see Tracker), and the chain stays empty.    *)
(***************************************************************************)
\* Variant: a chain of any size is given up.
ForceSync_any_size(n) ==
  /\ At(n, "ui", "free")
  /\ syncs < MaxSyncs
  /\ syncs' = syncs + 1
  /\ file' = [file EXCEPT ![n] = <<>>]
  /\ chain' = [chain EXCEPT ![n] = <<>>]
  /\ pc' = [pc EXCEPT ![n] = Lost(n)]
  /\ Trespass(n, "ui")
  /\ UNCHANGED <<nothing, snap, net, paid, solved, returned, kills>>

ForceSync(n) ==
  /\ At(n, "ui", "free")
  /\ syncs < MaxSyncs
  /\ syncs' = syncs + 1
  /\ Size(n) <= 2
  /\ file' = [file EXCEPT ![n] = <<>>]
  /\ \/ /\ chain' = [chain EXCEPT ![n] = <<>>]
        /\ pc' = [pc EXCEPT ![n] = Lost(n)]
     \/ /\ chain' = [chain EXCEPT ![n] = <<PendingBlock(0, NoBlock)>>]
        /\ pc' = [pc EXCEPT ![n] = [Lost(n) EXCEPT !.ui = "genesis"]]
  /\ Trespass(n, "ui")
  /\ UNCHANGED <<nothing, snap, net, paid, solved, returned, kills>>

\* The new genesis block is current; no pending block follows it.
MineGenesis(n) ==
  /\ At(n, "ui", "genesis")
  /\ Mine(n, Tip(n))
  /\ chain' = [chain EXCEPT ![n] = <<Solved(Tip(n))>>]
  /\ Go(n, "ui", "free")
  /\ UNCHANGED <<nothing, file, snap, net, paid, raced, returned, kills, syncs>>

\* validate throws of a block that is not solved, in the UI thread.
GenesisAborted(n) ==
  /\ At(n, "ui", "aborted")
  /\ Die(n)
  /\ UNCHANGED <<paid, solved, raced, returned, kills, syncs>>

Kill(n) ==
  /\ Up(n)
  /\ kills < MaxKills
  /\ kills' = kills + 1
  /\ Die(n)
  /\ UNCHANGED <<paid, solved, raced, returned, syncs>>

-----------------------------------------------------------------------------
CreateNewBlock(n) ==
  \E t \in Threads : Truncate(n, t) \/ WriteFile(n, t) \/ PushNext(n, t)

Next ==
  \E n \in Procs :
    \/ Start(n) \/ LoadChain(n) \/ CreateNewBlock(n)
    \/ StartMining(n) \/ Interrupt(n) \/ CleanBlock(n) \/ Solve(n)
    \/ Dangle(n) \/ PropagateBlock(n)
    \/ \E p \in Payments : Send(n, p)
    \/ \E m \in net : \/ ReceiveTransaction(n, m)
                      \/ ReceiveBlock(n, m)
                      \/ ReceiveBlockTooEarly(n, m)
    \/ ForceSync(n) \/ MineGenesis(n) \/ GenesisAborted(n)
    \/ Kill(n)

Spec == Init /\ [][Next]_vars

-----------------------------------------------------------------------------
(***************************************************************************)
(* Properties.                                                             *)
(***************************************************************************)
Tx == [from : Procs \cup {Mint}, to : Procs, amount : Int, serial : Nat]

Headers == [depth : Nat, prev : Nat, txs : Seq(Tx)]
Blocks  == [depth : Nat, prev : Nat, txs : Seq(Tx), id : Nat, valid : BOOLEAN]

Messages ==
  [to : Procs, kind : {"block"}, body : Blocks]
    \cup [to : Procs, kind : {"transaction"}, body : Tx]

TypeOK ==
  /\ chain \in [Procs -> Seq(Blocks)]
  /\ nothing \in [Procs -> Blocks]
  /\ file \in [Procs -> Seq(Blocks)]
  /\ pc \in [Procs -> [ui : UiPcs, net : NetPcs, miner : MinerPcs]]
  /\ snap \in [Procs -> [Threads -> Seq(Blocks)]]
  /\ net \subseteq Messages
  /\ paid \subseteq Payments
  /\ solved \in Seq([by : Procs, header : Headers])
  /\ raced \in [Procs -> BOOLEAN]
  /\ returned \in [Procs -> Nat]
  /\ kills \in 0..MaxKills /\ syncs \in 0..MaxSyncs

Sealed(n) == {i \in DOMAIN chain[n] : chain[n][i].valid}

\* The processes never come to agree: a peer's block is only ever the first of
\* a chain, which set_new_block put in the place of the process's own genesis
\* block.  Every later block was mined by the process itself.
OwnAfterFirst ==
  \A n \in Procs : \A i \in Sealed(n) :
    i > 1 => solved[chain[n][i].id].by = n

\* A process that has not used its chain from two threads at once holds blocks
\* that follow one another from depth 1 on, and what a valid block says is what
\* was hashed, unless it is a copy of a peer's, whose transactions are lost.
SealedChain ==
  \A n \in Procs : ~raced[n] =>
    /\ \A i \in DOMAIN chain[n] : i > 1 =>
         /\ chain[n][i].depth = i - 1
         /\ chain[n][i - 1].valid /\ chain[n][i].prev = chain[n][i - 1].id
    /\ \A i \in Sealed(n) :
         \/ Validates(chain[n][i])
         \/ i = 1 /\ solved[chain[n][i].id].by # n /\ chain[n][i].txs = <<>>

\* Why an entry of the file does not load, and the process never starts again:
\* the process died while it wrote it, a transaction came twice and is kept
\* once, or the block is a peer's, saved without its transactions.
Repeats(txs) == Once(txs) # txs

FileLoads ==
  \A n \in Procs : ~raced[n] => \A i \in DOMAIN file[n] :
    \/ Validates(file[n][i])
    \/ file[n][i] = Torn /\ i = Len(file[n])
    \/ Repeats(solved[file[n][i].id].header.txs)
    \/ i = 1 /\ solved[file[n][i].id].by # n
            /\ solved[file[n][i].id].header.txs # <<>>

\* Send counts the reward of the block being mined, and interrupts the mining,
\* which takes the reward back; and a process that lists itself adds its own
\* payment a second time, whatever its funds.  A user can so spend more than they
\* own, but never more than one reward beyond what came back.  (Once two threads
\* have raced the pending block may hold the reward of a block that was solved and
\* is mined again.)
OverdraftBounded ==
  \A n \in Procs : ~raced[n] => get_funds(chain[n], n) >= - Reward - returned[n]

\* Chain implements Ledger.  What a process has sealed is what precedes its
\* current block; while it is down or starts, what its file holds.
Ids(blocks) == Kept([i \in DOMAIN blocks |-> blocks[i].id],
                    {i \in DOMAIN blocks : blocks[i].id # NoBlock})

LedgerOf(n) ==
  CASE pc[n].ui \in {"down", "boot", "seal"} -> Ids(file[n])
    [] pc[n].ui \in {"write", "push"} -> Ids(chain[n])
    [] Serves(n) /\ chain[n] # <<>> -> Ids(Front(chain[n]))
    [] OTHER -> <<>>

Abstract == INSTANCE Ledger WITH
  made   <- [i \in DOMAIN solved |-> [by   |-> solved[i].by,
                                      prev |-> solved[i].header.prev]],
  ledger <- [n \in Procs |-> LedgerOf(n)],
  saving <- [n \in Procs |-> \E t \in Threads : At(n, t, "write")],
  raced  <- raced

ImplementsLedger == Abstract!Spec

\* set_new_block compares a peer's block with the hash of the last block of the
\* chain and logs "incompatible previous_hash" of one that does not match; the
\* last block is the pending one, which has no hash.
BlockIsCompared ==
  \A m \in net :
    (/\ m.kind = "block" /\ Serves(m.to) /\ At(m.to, "net", "idle")
     /\ Validates(m.body) /\ m.body.depth = Size(m.to) /\ Size(m.to) > 1)
    => Tip(m.to).valid
=============================================================================
