------------------------------- MODULE Mining -------------------------------
(***************************************************************************)
(* The mining pipeline of one IsenCoin process: Block::add_transaction,    *)
(* Block::mine with its worker threads, Block::interrupt, and              *)
(* Chain::mine_and_next with the Chain::create_new_block and Chain::save   *)
(* it ends in.                                                             *)
(*                                                                         *)
(* Nothing in these classes takes a lock.  The UI thread and the network   *)
(* thread call add_transaction and mine_and_next; every mine_and_next that *)
(* goes through detaches a mining thread, and every mining thread runs     *)
(* Block::mining_threads workers.  They all share the blocks, of which the *)
(* last one (get_current_block) is the pending one.  A step of the model   *)
(* is one load or one store of a shared member, so that every interleaving *)
(* of those is a behaviour; an operation on a whole container (push_back,  *)
(* remove_if, the iteration of fill_block_hash, the dump of the chain) is  *)
(* one step.                                                               *)
(*                                                                         *)
(* SHA-512 is abstracted to what it is used for: the hash of a block is    *)
(* the record of what goes into it, and a nonce is the set of the puzzles  *)
(* (header contents and timestamp) for which it gives the leading zeros.   *)
(***************************************************************************)
EXTENDS Integers, Sequences, FiniteSets

CONSTANTS
  Calls,     \* the calls the two threads make; bounds the behaviour
  Workers,   \* the worker threads of one Block::mine (mining_threads)
  NoCall,    \* no call is running
  NoWorker,  \* the nonce comes from no worker of this process
  MinTx      \* Chain::minimum_tx_amount

ASSUME WorkersAssumption == IsFiniteSet(Workers) /\ Workers # {}
ASSUME CallsAssumption   == IsFiniteSet(Calls)
ASSUME NoneAssumption    == NoCall \notin Calls /\ NoWorker \notin Workers
ASSUME MinTxAssumption   == MinTx \in Nat \ {0}

VARIABLES
  blocks,      \* Chain::m_blocks
  file,        \* blockchain.vili, as the last save wrote it (in order of depth)
  wire,        \* the block messages handed to Tracker::propagate
  autoMining,  \* Chain::auto_mining
  caller,      \* the call each of the two threads is executing
  pc,          \* where each call, then the mining thread it detaches, is
  blk,         \* the block a call holds a reference to
  base,        \* thread_base_hash: the header contents a mining thread took
  wpc,         \* where each worker is
  found,       \* the nonce a worker left its loop with
  fault,       \* which exception left a detached thread (std::terminate)
  raced        \* history: a step entered one of the unprotected windows

chainVars  == <<blocks, file, wire>>
threadVars == <<pc, blk, base>>
workerVars == <<wpc, found>>
vars == <<blocks, file, wire, autoMining, caller, pc, blk, base, wpc, found,
          fault, raced>>

-----------------------------------------------------------------------------
(***************************************************************************)
(* Blocks.  A transaction is known by the call that made it: the           *)
(* transaction the call submits, or the reward its mining thread adds.  A  *)
(* timestamp is known by what generate_timestamp was called for.  Depth    *)
(* and previous hash never change after construction, so the header        *)
(* contents that can differ are the transactions of the merkle root.       *)
(***************************************************************************)
Tx == {"user", "reward"} \X Calls

is_reward(tx) == tx[1] = "reward"

Created == <<"created", NoCall>>
Stamps  == Tx \cup {Created}

Puzzle == [txs : SUBSET Tx, stamp : Stamps]
Nonce  == [finder : Workers \cup {NoWorker}, solves : SUBSET Puzzle]
Unsolved(w) == [finder |-> w, solves |-> {}]
Solution(w, p) == [finder |-> w, solves |-> {p}]

Hash == [header : SUBSET Tx, stamp : Stamps, nonce : Nonce]
ZeroHash == [header |-> {}, stamp |-> Created, nonce |-> Unsolved(NoWorker)]

Block == [txs       : SUBSET Tx,    \* m_transactions
          header    : SUBSET Tx,    \* m_current_hash
          stamp     : Stamps,       \* m_timestamp
          nonce     : Nonce,        \* m_nonce
          previous  : Hash,         \* m_previous_hash
          validated : BOOLEAN,      \* m_validated
          mining    : BOOLEAN,      \* m_mining
          sagain    : BOOLEAN]      \* m_sagain

\* What a block leaves in blockchain.vili and in a "block" message.
Dumped == [depth : Nat, txs : SUBSET Tx, stamp : Stamps, nonce : Nonce,
           previous : Hash]

PendingBlock(previous) ==
  [txs |-> {}, header |-> {}, stamp |-> Created, nonce |-> Unsolved(NoWorker),
   previous |-> previous, validated |-> FALSE, mining |-> FALSE,
   sagain |-> FALSE]

\* get_hash of a nonce in a header also writes the current m_timestamp into it.
is_nonce_valid(header, stamp, nonce) ==
  [txs |-> header, stamp |-> stamp] \in nonce.solves

\* Sorting and combining the signatures makes the merkle root a function of the
\* set of transactions.
fill_block_hash(b) == b.txs

get_hash(b) == [header |-> b.header, stamp |-> b.stamp, nonce |-> b.nonce]

get_tx_amount(b) == Cardinality(b.txs)

Dump(b) == [depth |-> b - 1, txs |-> blocks[b].txs, stamp |-> blocks[b].stamp,
            nonce |-> blocks[b].nonce, previous |-> blocks[b].previous]

Tip == Len(blocks)
get_current_block == blocks[Tip]

GenesisBlock ==
  [txs |-> {}, header |-> {}, stamp |-> Created,
   nonce |-> Solution(NoWorker, [txs |-> {}, stamp |-> Created]),
   previous |-> ZeroHash, validated |-> TRUE, mining |-> FALSE,
   sagain |-> FALSE]

-----------------------------------------------------------------------------
(***************************************************************************)
(* Threads.                                                                *)
(***************************************************************************)
Threads == {"ui", "net"}

TxPcs     == {"txClear", "txPush", "txInvalidate", "txStamp"}
CallPcs   == TxPcs \cup {"ask", "count", "interrupt"}
RewardPcs == {"rwClear", "rwPush", "rwInvalidate", "rwStamp"}
EndPcs    == {"endMining", "endValidated", "endHash", "clean"}
SealPcs   == {"propagate", "seal", "save", "push"}
Pcs == {"idle", "spawned", "gateMining", "gateSagain", "setMining",
        "setSagain", "header", "join", "clearMining", "clearSagain",
        "recheck", "done"}
       \cup CallPcs \cup RewardPcs \cup EndPcs \cup SealPcs

PublishPcs == {"checkValidated", "setNonce", "setHeader", "setValidated"}
WorkerPcs  == {"off", "loopMining", "loopValidated", "try", "checkMining",
               "won", "lost"} \cup PublishPcs

\* An exception that leaves a detached thread is std::terminate: after it no
\* thread takes a step.
At(c, from) == fault = "none" /\ pc[c] = from

Go(c, from, to) == At(c, from) /\ pc' = [pc EXCEPT ![c] = to]

Throw(c, from, what) == At(c, from) /\ fault' = what /\ UNCHANGED pc

WorkerGo(c, w, from, to) ==
  /\ fault = "none"
  /\ wpc[c][w] = from
  /\ wpc' = [wpc EXCEPT ![c][w] = to]

Free(t) == caller[t] = NoCall

\* The locals of mine and of its workers die with the mining thread.
DropLocals(c) ==
  /\ blk' = [blk EXCEPT ![c] = 1]
  /\ base' = [base EXCEPT ![c] = {}]
  /\ wpc' = [wpc EXCEPT ![c] = [w \in Workers |-> "off"]]
  /\ found' = [found EXCEPT ![c] = [w \in Workers |-> Unsolved(NoWorker)]]

\* The calling thread is done with c and may make another call.
Release(c) ==
  caller' = [t \in Threads |-> IF caller[t] = c THEN NoCall ELSE caller[t]]

-----------------------------------------------------------------------------
(***************************************************************************)
(* The windows nothing protects.  A mining thread d on block b is fragile  *)
(* while another thread's store to b can slip between a check of d and the *)
(* act that relies on it: from the moment it left the spin loop to the     *)
(* copy of the header, from the moment a worker saw m_mining still set to  *)
(* the moment the next block is pushed.  While every worker of d is still  *)
(* searching, or has given up, it is not: that is when an interruption is  *)
(* safe.                                                                   *)
(***************************************************************************)
Fragile(d, b) ==
  /\ blk[d] = b
  /\ \/ pc[d] \in RewardPcs \cup {"setMining", "setSagain", "header"}
     \/ /\ pc[d] \in EndPcs \cup SealPcs
                     \cup {"join", "clearMining", "clearSagain", "recheck"}
        /\ \E w \in Workers : wpc[d][w] \in PublishPcs \cup {"won"}

OnFragile(c, b) == \E d \in Calls \ {c} : Fragile(d, b)

\* A store of c to block b outside of the protocol's safe moments.
Trespass(c, b) == raced' = (raced \/ b # Tip \/ OnFragile(c, b))

-----------------------------------------------------------------------------
(***************************************************************************)
(* The initial state: a process that has mined its genesis block, or       *)
(* loaded it, and pushed the first pending block.                          *)
(***************************************************************************)
Init ==
  /\ blocks = <<GenesisBlock, PendingBlock(get_hash(GenesisBlock))>>
  /\ file = {[depth |-> 0, txs |-> {}, stamp |-> Created,
              nonce |-> GenesisBlock.nonce, previous |-> ZeroHash]}
  /\ wire = {}
  /\ autoMining = FALSE
  /\ caller = [t \in Threads |-> NoCall]
  /\ pc = [c \in Calls |-> "idle"]
  /\ blk = [c \in Calls |-> 1]
  /\ base = [c \in Calls |-> {}]
  /\ wpc = [c \in Calls |-> [w \in Workers |-> "off"]]
  /\ found = [c \in Calls |-> [w \in Workers |-> Unsolved(NoWorker)]]
  /\ fault = "none"
  /\ raced = FALSE

-----------------------------------------------------------------------------
(***************************************************************************)
(* What the UI thread and the network thread start.                        *)
(***************************************************************************)

\* TxCreateWindow's Send, or a "transaction" message whose signature is good:
\* the reference to the current block is taken before add_transaction runs.
SubmitTransaction(t, c) ==
  /\ Free(t)
  /\ Go(c, "idle", "txClear")
  /\ caller' = [caller EXCEPT ![t] = c]
  /\ blk' = [blk EXCEPT ![c] = Tip]
  /\ UNCHANGED <<chainVars, workerVars, autoMining, base, fault, raced>>

\* A "transaction" message whose signature is bad: add_transaction only logs
\* it, and mine_and_next runs all the same.
ReceiveBadTransaction(c) ==
  /\ Free("net")
  /\ Go(c, "idle", "ask")
  /\ caller' = [caller EXCEPT !["net"] = c]
  /\ UNCHANGED <<chainVars, workerVars, autoMining, blk, base, fault, raced>>

\* The button exists only while automatic mining is off; force skips the
\* first condition of mine_and_next.
StartMiningNow(c) ==
  /\ Free("ui")
  /\ ~autoMining
  /\ Go(c, "idle", "count")
  /\ caller' = [caller EXCEPT !["ui"] = c]
  /\ UNCHANGED <<chainVars, workerVars, autoMining, blk, base, fault, raced>>

ToggleAutoMining ==
  /\ fault = "none"
  /\ Free("ui")
  /\ autoMining' = ~autoMining
  /\ UNCHANGED <<chainVars, threadVars, workerVars, caller, fault, raced>>

-----------------------------------------------------------------------------
(***************************************************************************)
(* Block::add_transaction, for the caller's transaction and for the reward *)
(* of a mining thread: four stores to the block of the call.               *)
(***************************************************************************)
ClearMining(c, from, to) ==
  /\ Go(c, from, to)
  /\ blocks' = [blocks EXCEPT ![blk[c]].mining = FALSE]
  /\ Trespass(c, blk[c])
  /\ UNCHANGED <<file, wire, autoMining, caller, blk, base, workerVars, fault>>

PushTransaction(c, tx, from, to) ==
  /\ Go(c, from, to)
  /\ blocks' = [blocks EXCEPT ![blk[c]].txs = @ \cup {tx}]
  /\ Trespass(c, blk[c])
  /\ UNCHANGED <<file, wire, autoMining, caller, blk, base, workerVars, fault>>

Invalidate(c, from, to) ==
  /\ Go(c, from, to)
  /\ blocks' = [blocks EXCEPT ![blk[c]].validated = FALSE]
  /\ Trespass(c, blk[c])
  /\ UNCHANGED <<file, wire, autoMining, caller, blk, base, workerVars, fault>>

GenerateTimestamp(c, tx, from, to) ==
  /\ Go(c, from, to)
  /\ blocks' = [blocks EXCEPT ![blk[c]].stamp = tx]
  /\ Trespass(c, blk[c])
  /\ UNCHANGED <<file, wire, autoMining, caller, blk, base, workerVars, fault>>

AddTransaction(c) ==
  \/ ClearMining(c, "txClear", "txPush")
  \/ PushTransaction(c, <<"user", c>>, "txPush", "txInvalidate")
  \/ Invalidate(c, "txInvalidate", "txStamp")
  \/ GenerateTimestamp(c, <<"user", c>>, "txStamp", "ask")

AddReward(c) ==
  \/ ClearMining(c, "rwClear", "rwPush")
  \/ PushTransaction(c, <<"reward", c>>, "rwPush", "rwInvalidate")
  \/ Invalidate(c, "rwInvalidate", "rwStamp")
  \/ GenerateTimestamp(c, <<"reward", c>>, "rwStamp", "setMining")

-----------------------------------------------------------------------------
(***************************************************************************)
(* Chain::mine_and_next up to the detached thread.  The current block is   *)
(* looked up again by every line, and once more inside the thread.         *)
(***************************************************************************)
\* Variant: more than the minimum is asked for.
AskAutoMining_more_than_minimum(c) ==
  /\ At(c, "ask")
  /\ IF autoMining /\ get_tx_amount(get_current_block) > MinTx
     THEN pc' = [pc EXCEPT ![c] = "count"] /\ UNCHANGED caller
     ELSE pc' = [pc EXCEPT ![c] = "done"] /\ Release(c)
  /\ UNCHANGED <<chainVars, workerVars, autoMining, blk, base, fault, raced>>

AskAutoMining(c) ==
  /\ At(c, "ask")
  /\ IF autoMining /\ get_tx_amount(get_current_block) >= MinTx
     THEN pc' = [pc EXCEPT ![c] = "count"] /\ UNCHANGED caller
     ELSE pc' = [pc EXCEPT ![c] = "done"] /\ Release(c)
  /\ UNCHANGED <<chainVars, workerVars, autoMining, blk, base, fault, raced>>

CountPending(c) ==
  /\ At(c, "count")
  /\ IF get_tx_amount(get_current_block) > 0
     THEN pc' = [pc EXCEPT ![c] = "interrupt"] /\ UNCHANGED caller
     ELSE pc' = [pc EXCEPT ![c] = "done"] /\ Release(c)
  /\ UNCHANGED <<chainVars, workerVars, autoMining, blk, base, fault, raced>>

Interrupt(c) ==
  /\ Go(c, "interrupt", "spawned")
  /\ blocks' = [blocks EXCEPT ![Tip].mining = FALSE]
  /\ Trespass(c, Tip)
  /\ Release(c)
  /\ UNCHANGED <<file, wire, autoMining, blk, base, workerVars, fault>>

\* Variant: the index of the current block is off by one.
StartThread_off_by_one(c) ==
  /\ Go(c, "spawned", "gateMining")
  /\ blk' = [blk EXCEPT ![c] = Tip + 1]
  /\ UNCHANGED <<chainVars, workerVars, autoMining, caller, base, fault, raced>>

StartThread(c) ==
  /\ Go(c, "spawned", "gateMining")
  /\ blk' = [blk EXCEPT ![c] = Tip]
  /\ UNCHANGED <<chainVars, workerVars, autoMining, caller, base, fault, raced>>

-----------------------------------------------------------------------------
(***************************************************************************)
(* Block::mine in the mining thread.                                       *)
(***************************************************************************)

\* while (m_mining || m_sagain) {}: two loads, and round again if either is set.
SpinOnMining(c) ==
  /\ ~blocks[blk[c]].mining
  /\ Go(c, "gateMining", "gateSagain")
  /\ UNCHANGED <<chainVars, workerVars, autoMining, caller, blk, base, fault,
                 raced>>

SpinAgain(c) ==
  /\ blocks[blk[c]].sagain
  /\ Go(c, "gateSagain", "gateMining")
  /\ UNCHANGED <<chainVars, workerVars, autoMining, caller, blk, base, fault,
                 raced>>

\* Passing while another call is in the middle of its stores is a trespass too.
LeaveSpin(c) ==
  /\ ~blocks[blk[c]].sagain
  /\ Go(c, "gateSagain", "rwClear")
  /\ raced' = (raced \/ \E d \in Calls \ {c} : /\ blk[d] = blk[c]
                                               /\ pc[d] \in TxPcs \ {"txClear"})
  /\ UNCHANGED <<chainVars, workerVars, autoMining, caller, blk, base, fault>>

SetMining(c) ==
  /\ Go(c, "setMining", "setSagain")
  /\ blocks' = [blocks EXCEPT ![blk[c]].mining = TRUE]
  /\ Trespass(c, blk[c])
  /\ UNCHANGED <<file, wire, autoMining, caller, blk, base, workerVars, fault>>

SetSagain(c) ==
  /\ Go(c, "setSagain", "header")
  /\ blocks' = [blocks EXCEPT ![blk[c]].sagain = TRUE]
  /\ Trespass(c, blk[c])
  /\ UNCHANGED <<file, wire, autoMining, caller, blk, base, workerVars, fault>>

\* Variant: the workers start from the header the block had before the reward.
StartWorkers_on_old_header(c) ==
  /\ Go(c, "header", "join")
  /\ base' = [base EXCEPT ![c] = blocks[blk[c]].txs \ {<<"reward", c>>}]
  /\ wpc' = [wpc EXCEPT ![c] = [w \in Workers |-> "loopMining"]]
  /\ UNCHANGED <<chainVars, autoMining, caller, blk, found, fault, raced>>

\* fill_block_hash, and the worker threads start on a copy of it.
StartWorkers(c) ==
  /\ Go(c, "header", "join")
  /\ base' = [base EXCEPT ![c] = fill_block_hash(blocks[blk[c]])]
  /\ wpc' = [wpc EXCEPT ![c] = [w \in Workers |-> "loopMining"]]
  /\ UNCHANGED <<chainVars, autoMining, caller, blk, found, fault, raced>>

JoinWorkers(c) ==
  /\ \A w \in Workers : wpc[c][w] \in {"won", "lost"}
  /\ Go(c, "join", "endMining")
  /\ UNCHANGED <<chainVars, workerVars, autoMining, caller, blk, base, fault,
                 raced>>

\* if (m_mining && m_validated): two loads.
EndCheckMining(c) ==
  /\ At(c, "endMining")
  /\ pc' = [pc EXCEPT ![c] = IF blocks[blk[c]].mining THEN "endValidated"
                                                      ELSE "clean"]
  /\ UNCHANGED <<chainVars, workerVars, autoMining, caller, blk, base, fault,
                 raced>>

EndCheckValidated(c) ==
  /\ At(c, "endValidated")
  /\ pc' = [pc EXCEPT ![c] = IF blocks[blk[c]].validated THEN "endHash"
                                                         ELSE "clean"]
  /\ UNCHANGED <<chainVars, workerVars, autoMining, caller, blk, base, fault,
                 raced>>

\* get_hash for the log throws InvalidBlockException when m_validated was reset.
EndHash(c) ==
  /\ IF blocks[blk[c]].validated
     THEN Go(c, "endHash", "clearMining") /\ UNCHANGED fault
     ELSE Throw(c, "endHash", "get_hash")
  /\ UNCHANGED <<chainVars, workerVars, autoMining, caller, blk, base, raced>>

\* Variant: every transaction goes.
CleanBlock_of_everything(c) ==
  /\ Go(c, "clean", "clearMining")
  /\ blocks' = [blocks EXCEPT ![blk[c]].txs = {}]
  /\ UNCHANGED <<file, wire, autoMining, caller, blk, base, workerVars, fault,
                 raced>>

\* clean_block: the reward transactions go, whosever they are.
CleanBlock(c) ==
  /\ Go(c, "clean", "clearMining")
  /\ blocks' = [blocks EXCEPT ![blk[c]].txs = {tx \in @ : ~is_reward(tx)}]
  /\ UNCHANGED <<file, wire, autoMining, caller, blk, base, workerVars, fault,
                 raced>>

EndMining(c) ==
  /\ Go(c, "clearMining", "clearSagain")
  /\ blocks' = [blocks EXCEPT ![blk[c]].mining = FALSE]
  /\ UNCHANGED <<file, wire, autoMining, caller, blk, base, workerVars, fault,
                 raced>>

\* Variant: m_sagain is not reset.
EndSagain_left_out(c) ==
  /\ Go(c, "clearSagain", "recheck")
  /\ UNCHANGED <<chainVars, autoMining, caller, blk, base, workerVars, fault,
                 raced>>

EndSagain(c) ==
  /\ Go(c, "clearSagain", "recheck")
  /\ blocks' = [blocks EXCEPT ![blk[c]].sagain = FALSE]
  /\ UNCHANGED <<file, wire, autoMining, caller, blk, base, workerVars, fault,
                 raced>>

-----------------------------------------------------------------------------
(***************************************************************************)
(* A worker thread of Block::mine.                                         *)
(***************************************************************************)
WorkerStep(c, w, from, to) ==
  /\ WorkerGo(c, w, from, to)
  /\ UNCHANGED <<chainVars, threadVars, autoMining, caller, fault, raced>>

LoopMining(c, w) ==
  \/ /\ blocks[blk[c]].mining
     /\ WorkerStep(c, w, "loopMining", "loopValidated")
     /\ UNCHANGED found
  \/ /\ ~blocks[blk[c]].mining
     /\ WorkerStep(c, w, "loopMining", "checkMining")
     /\ found' = [found EXCEPT ![c][w] = Unsolved(w)]

LoopValidated(c, w) ==
  \/ /\ ~blocks[blk[c]].validated
     /\ WorkerStep(c, w, "loopValidated", "try")
     /\ UNCHANGED found
  \/ /\ blocks[blk[c]].validated
     /\ WorkerStep(c, w, "loopValidated", "checkMining")
     /\ found' = [found EXCEPT ![c][w] = Unsolved(w)]

\* is_nonce_valid writes the block's current timestamp into the worker's header.
TryNonce(c, w) ==
  /\ WorkerStep(c, w, "try", "loopMining")
  /\ UNCHANGED found

FindNonce(c, w) ==
  /\ WorkerStep(c, w, "try", "checkMining")
  /\ found' = [found EXCEPT ![c][w] =
                 Solution(w, [txs |-> base[c], stamp |-> blocks[blk[c]].stamp])]

\* Once out of the loop a worker tests m_mining again, then m_validated.
CheckMining(c, w) ==
  /\ \/ blocks[blk[c]].mining /\ WorkerStep(c, w, "checkMining", "checkValidated")
     \/ ~blocks[blk[c]].mining /\ WorkerStep(c, w, "checkMining", "lost")
  /\ UNCHANGED found

\* Variant: the second test of m_validated is dropped.
CheckValidated_left_out(c, w) ==
  /\ WorkerStep(c, w, "checkValidated", "setNonce")
  /\ UNCHANGED found

CheckValidated(c, w) ==
  /\ \/ ~blocks[blk[c]].validated /\ WorkerStep(c, w, "checkValidated", "setNonce")
     \/ blocks[blk[c]].validated /\ WorkerStep(c, w, "checkValidated", "lost")
  /\ UNCHANGED found

Publish(c, w, from, to, block) ==
  /\ WorkerGo(c, w, from, to)
  /\ blocks' = [blocks EXCEPT ![blk[c]] = block]
  /\ UNCHANGED <<file, wire, autoMining, caller, threadVars, found, fault, raced>>

SetNonce(c, w) ==
  Publish(c, w, "setNonce", "setHeader",
          [blocks[blk[c]] EXCEPT !.nonce = found[c][w]])

SetHeader(c, w) ==
  Publish(c, w, "setHeader", "setValidated",
          [blocks[blk[c]] EXCEPT !.header = base[c]])

SetValidated(c, w) ==
  Publish(c, w, "setValidated", "won",
          [blocks[blk[c]] EXCEPT !.validated = TRUE])

WorkerMoves(c, w) ==
  \/ LoopMining(c, w)   \/ LoopValidated(c, w) \/ TryNonce(c, w)
  \/ FindNonce(c, w)    \/ CheckMining(c, w)   \/ CheckValidated(c, w)
  \/ SetNonce(c, w)     \/ SetHeader(c, w)     \/ SetValidated(c, w)

-----------------------------------------------------------------------------
(***************************************************************************)
(* The end of mine_and_next: whatever happened in mine, a current block    *)
(* that is valid is propagated and the chain goes on to the next one.      *)
(***************************************************************************)
\* Variant: a mining thread that comes out of mine always goes on.
Recheck_left_out(c) ==
  /\ Go(c, "recheck", "propagate")
  /\ UNCHANGED <<chainVars, workerVars, autoMining, caller, blk, base, fault,
                 raced>>

Recheck(c) ==
  /\ At(c, "recheck")
  /\ IF get_current_block.validated
     THEN /\ pc' = [pc EXCEPT ![c] = "propagate"]
          /\ raced' = (raced \/ \A w \in Workers : wpc[c][w] # "won")
          /\ UNCHANGED <<blk, base, workerVars>>
     ELSE /\ pc' = [pc EXCEPT ![c] = "done"]
          /\ DropLocals(c)
          /\ UNCHANGED raced
  /\ UNCHANGED <<chainVars, autoMining, caller, fault>>

Propagate(c) ==
  /\ Go(c, "propagate", "seal")
  /\ wire' = wire \cup {Dump(Tip)}
  /\ UNCHANGED <<blocks, file, workerVars, autoMining, caller, blk, base, fault,
                 raced>>

\* create_new_block refuses a block that is no longer valid.
Seal(c) ==
  /\ IF get_current_block.validated
     THEN Go(c, "seal", "save") /\ UNCHANGED fault
     ELSE Throw(c, "seal", "create_new_block")
  /\ UNCHANGED <<chainVars, workerVars, autoMining, caller, blk, base, raced>>

\* Block::dump writes the valid blocks only, and validates again those that
\* hold transactions; the exception leaves the file as it was.
Dumpable(b) ==
  blocks[b].txs # {} =>
    is_nonce_valid(blocks[b].header, blocks[b].stamp, blocks[b].nonce)

Valid == {b \in 1..Len(blocks) : blocks[b].validated}

Save(c) ==
  /\ IF \A b \in Valid : Dumpable(b)
     THEN /\ Go(c, "save", "push")
          /\ file' = {Dump(b) : b \in Valid}
          /\ UNCHANGED fault
     ELSE Throw(c, "save", "save") /\ UNCHANGED file
  /\ UNCHANGED <<blocks, wire, workerVars, autoMining, caller, blk, base, raced>>

\* The previous hash of the next block is the hash of the last one by now.
PushBlock(c) ==
  /\ IF get_current_block.validated
     THEN /\ Go(c, "push", "done")
          /\ blocks' = Append(blocks, PendingBlock(get_hash(get_current_block)))
          /\ DropLocals(c)
          /\ UNCHANGED fault
     ELSE /\ Throw(c, "push", "get_hash")
          /\ UNCHANGED <<blocks, blk, base, workerVars>>
  /\ UNCHANGED <<file, wire, autoMining, caller, raced>>

-----------------------------------------------------------------------------
Mine(c) ==
  \/ SpinOnMining(c) \/ SpinAgain(c)      \/ LeaveSpin(c)
  \/ AddReward(c)    \/ SetMining(c)      \/ SetSagain(c)
  \/ StartWorkers(c) \/ JoinWorkers(c)    \/ EndCheckMining(c)
  \/ EndHash(c)      \/ EndCheckValidated(c) \/ CleanBlock(c)
  \/ EndMining(c)    \/ EndSagain(c)

CallMoves(c) ==
  \/ AddTransaction(c) \/ AskAutoMining(c) \/ CountPending(c) \/ Interrupt(c)

ThreadMoves(c) ==
  \/ StartThread(c) \/ Mine(c)
  \/ Recheck(c) \/ Propagate(c) \/ Seal(c) \/ Save(c) \/ PushBlock(c)

Begin(c) ==
  \/ \E t \in Threads : SubmitTransaction(t, c)
  \/ ReceiveBadTransaction(c)
  \/ StartMiningNow(c)

Next ==
  \/ ToggleAutoMining
  \/ \E c \in Calls : Begin(c) \/ CallMoves(c) \/ ThreadMoves(c)
  \/ \E c \in Calls, w \in Workers : WorkerMoves(c, w)

Spec == Init /\ [][Next]_vars

\* The scheduler runs every thread; a search over all nonces finds one.
Fairness ==
  /\ \A c \in Calls : WF_vars(CallMoves(c) \/ ThreadMoves(c))
  /\ \A c \in Calls, w \in Workers :
       WF_vars(WorkerMoves(c, w)) /\ SF_vars(FindNonce(c, w))

FairSpec == Spec /\ Fairness

-----------------------------------------------------------------------------
TypeOK ==
  /\ blocks \in Seq(Block)
  /\ Len(blocks) >= 2
  /\ file \subseteq Dumped
  /\ wire \subseteq Dumped
  /\ autoMining \in BOOLEAN
  /\ caller \in [Threads -> Calls \cup {NoCall}]
  /\ pc \in [Calls -> Pcs]
  /\ blk \in [Calls -> Nat]
  /\ \A c \in Calls : blk[c] \in 1..Len(blocks)
  /\ base \in [Calls -> SUBSET Tx]
  /\ wpc \in [Calls -> [Workers -> WorkerPcs]]
  /\ found \in [Calls -> [Workers -> Nonce]]
  /\ fault \in {"none", "get_hash", "create_new_block", "save"}
  /\ raced \in BOOLEAN

(***************************************************************************)
(* Safety.                                                                 *)
(***************************************************************************)
FlagPcs   == {"header", "join", "clearMining"} \cup EndPcs
MiningPcs == FlagPcs \cup {"setSagain"}
SagainPcs == FlagPcs \cup {"clearSagain"}

\* The spin loop of mine (Block.cpp:238) waits for m_mining and m_sagain, which
\* add_transaction, interrupt and other mining threads store to at any time.  A
\* flag is only ever set while a thread that is going to clear it is between
\* its own store and its own clear: no flag is orphaned, whatever races happen.
FlagsOwned ==
  \A b \in 1..Len(blocks) :
    /\ blocks[b].mining => \E c \in Calls : blk[c] = b /\ pc[c] \in MiningPcs
    /\ blocks[b].sagain => \E c \in Calls : blk[c] = b /\ pc[c] \in SagainPcs

Solved(b) == is_nonce_valid(blocks[b].header, blocks[b].stamp, blocks[b].nonce)

Rewards(b) == {tx \in blocks[b].txs : is_reward(tx)}

\* A block below the pending one is what a peer and a restart will recompute:
\* its nonce solves it, its header is that of the transactions it holds, one of
\* them is the miner's reward, and the next block names its hash.
SoundBlock(b) ==
  /\ blocks[b].validated
  /\ Solved(b)
  /\ blocks[b].header = blocks[b].txs
  /\ b > 1 => Cardinality(Rewards(b)) = 1
  /\ blocks[b + 1].previous = get_hash(blocks[b])

\* As long as no thread has stepped into one of the windows of Fragile, adding
\* transactions to a block that is being mined, interrupting it and mining it
\* again, with any number of workers racing for the nonce, leaves every sealed
\* block sound and no exception escapes a thread.
SoundUnlessRaced ==
  ~raced => /\ fault = "none"
            /\ \A b \in 1..(Len(blocks) - 1) : SoundBlock(b)

\* The header of a loaded block is computed from its transactions, and the
\* constructor validates it (Block.cpp:164-165).
Reloads(d) == is_nonce_valid(fill_block_hash(d), d.stamp, d.nonce)

\* blockchain.vili holds the sealed blocks as they are in memory (and, until it
\* is sealed, the one just mined), and the next start will load every one.
FileReloadsUnlessRaced ==
  ~raced => /\ \E n \in {Len(blocks) - 1, Len(blocks)} :
                 file = {Dump(b) : b \in 1..n}
            /\ \A d \in file : Reloads(d)

\* What mine_and_next hands to propagate is a block that a peer can validate,
\* and every sealed block but the genesis has been propagated as it is.
WireUnlessRaced ==
  ~raced => /\ \A d \in wire : Reloads(d)
            /\ \A b \in 2..(Len(blocks) - 1) : Dump(b) \in wire

\* A block below the pending one never changes again, and none is ever dropped.
SealedImmutable ==
  [][~raced' => \A b \in 1..(Len(blocks) - 1) : blocks'[b] = blocks[b]]_vars

\* clean_block and the interruptions only ever take reward transactions away: a
\* transaction a caller has added stays in the block it was added to.
TransactionsKept ==
  [][\A b \in 1..Len(blocks) :
       {tx \in blocks[b].txs : ~is_reward(tx)} \subseteq blocks'[b].txs]_vars

(***************************************************************************)
(* Liveness.                                                               *)
(***************************************************************************)

\* The spin loop lets every mining thread through, its workers notice an
\* interruption or find a nonce, and the thread ends, unless an exception ends
\* the process.
MinersFinish ==
  <>[](\/ fault # "none"
       \/ \A c \in Calls : pc[c] \in {"idle", "done"})

\* With automatic mining on (and a minimum of one transaction), a transaction
\* that interrupts the mining of a block is not left behind: a mining thread
\* takes it into a sealed block, and there comes a time when none is left in the
\* pending one.
AutoMined ==
  (\E c \in Calls : pc[c] = "ask" /\ <<"user", c>> \in blocks[blk[c]].txs)
    ~> (~autoMining \/ raced \/ \A tx \in blocks[Len(blocks)].txs : is_reward(tx))

-----------------------------------------------------------------------------
(***************************************************************************)
(* What the source says of the program, and the interleavings refute.      *)
(***************************************************************************)

\* "Can't manipulate Invalid Block (mine it before manipulation)": no thread
\* manipulates an invalid block, which would end the process.
NoInvalidBlockManipulated == fault = "none"
=============================================================================
