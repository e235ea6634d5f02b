---------------------------- MODULE Mining_proofs ----------------------------
(***************************************************************************)
(* Theorems about Mining, for every number of calls and of workers.        *)
(***************************************************************************)
EXTENDS Mining, TLAPS

\* Overwriting one block of the chain leaves a chain of the same length.
LEMMA WriteBlock ==
  ASSUME NEW s \in Seq(Block), NEW i \in 1..Len(s), NEW r \in Block
  PROVE  /\ [s EXCEPT ![i] = r] \in Seq(Block)
         /\ Len([s EXCEPT ![i] = r]) = Len(s)
         /\ \A b \in 1..Len(s) :
              [s EXCEPT ![i] = r][b] = IF b = i THEN r ELSE s[b]
  OBVIOUS

LEMMA AppendBlock ==
  ASSUME NEW s \in Seq(Block), NEW r \in Block
  PROVE  /\ Append(s, r) \in Seq(Block)
         /\ Len(Append(s, r)) = Len(s) + 1
         /\ \A b \in 1..Len(s) : Append(s, r)[b] = s[b]
         /\ Append(s, r)[Len(s) + 1] = r
  OBVIOUS

LEMMA PendingBlockType ==
  ASSUME NEW h \in Hash
  PROVE  PendingBlock(h) \in Block
  BY DEF PendingBlock, Block, Unsolved, Nonce, Stamps

LEMMA HashType ==
  ASSUME NEW b \in Block
  PROVE  get_hash(b) \in Hash
  BY DEF get_hash, Block, Hash

LEMMA GenesisType == ZeroHash \in Hash /\ GenesisBlock \in Block
<1>1. ZeroHash \in Hash
  BY DEF ZeroHash, Hash, Unsolved, Nonce, Stamps
<1>2. [txs |-> {}, stamp |-> Created] \in Puzzle
  BY DEF Puzzle, Stamps
<1>3. Solution(NoWorker, [txs |-> {}, stamp |-> Created]) \in Nonce
  BY <1>2 DEF Solution, Nonce
<1>4. Created \in Stamps
  BY DEF Stamps
<1>5. GenesisBlock \in Block
  BY <1>1, <1>3, <1>4 DEF GenesisBlock, Block
<1> QED
  BY <1>1, <1>5

LEMMA InitType == Init => TypeOK
<1> SUFFICES ASSUME Init PROVE TypeOK
  OBVIOUS
<1>1. get_hash(GenesisBlock) \in Hash
  BY GenesisType, HashType
<1>2. PendingBlock(get_hash(GenesisBlock)) \in Block
  BY <1>1, PendingBlockType
<1>3. blocks \in Seq(Block) /\ Len(blocks) = 2
  BY <1>2, GenesisType DEF Init
<1>4. file \subseteq Dumped
  <2>1. GenesisBlock.nonce \in Nonce /\ ZeroHash \in Hash /\ Created \in Stamps
    BY GenesisType DEF Block, Stamps
  <2> QED
    BY <2>1 DEF Init, Dumped
<1>5. /\ pc \in [Calls -> Pcs]
      /\ wpc \in [Calls -> [Workers -> WorkerPcs]]
  BY DEF Init, Pcs, WorkerPcs
<1>6. found \in [Calls -> [Workers -> Nonce]]
  BY DEF Init, Unsolved, Nonce
<1>7. /\ blk \in [Calls -> Nat]
      /\ \A c \in Calls : blk[c] \in 1..Len(blocks)
      /\ base \in [Calls -> SUBSET Tx]
      /\ caller \in [Threads -> Calls \cup {NoCall}]
      /\ wire \subseteq Dumped
  BY <1>3 DEF Init
<1>8. /\ autoMining \in BOOLEAN
      /\ raced \in BOOLEAN
      /\ fault \in {"none", "get_hash", "create_new_block", "save"}
  BY DEF Init
<1> QED
  BY <1>3, <1>4, <1>5, <1>6, <1>7, <1>8 DEF TypeOK

\* Every store to a block: the new value has the type, the rest is unchanged.
LEMMA StoreType ==
  ASSUME TypeOK, NEW b \in 1..Len(blocks), NEW r \in Block,
         blocks' = [blocks EXCEPT ![b] = r]
  PROVE  blocks' \in Seq(Block) /\ Len(blocks') = Len(blocks)
  BY WriteBlock DEF TypeOK

LEMMA CallerStoreType ==
  ASSUME TypeOK, NEW c \in Calls, NEW from, NEW to \in Pcs, NEW tx \in Tx,
         \/ ClearMining(c, from, to) \/ PushTransaction(c, tx, from, to)
         \/ Invalidate(c, from, to)  \/ GenerateTimestamp(c, tx, from, to)
  PROVE  TypeOK'
<1>1. blk[c] \in 1..Len(blocks) /\ blocks[blk[c]] \in Block
  BY DEF TypeOK
<1>2. \E r \in Block : blocks' = [blocks EXCEPT ![blk[c]] = r]
  <2>1. CASE ClearMining(c, from, to)
    BY <1>1, <2>1 DEF ClearMining, Block
  <2>2. CASE PushTransaction(c, tx, from, to)
    BY <1>1, <2>2 DEF PushTransaction, Block
  <2>3. CASE Invalidate(c, from, to)
    BY <1>1, <2>3 DEF Invalidate, Block
  <2>4. CASE GenerateTimestamp(c, tx, from, to)
    BY <1>1, <2>4 DEF GenerateTimestamp, Block, Stamps
  <2> QED
    BY <2>1, <2>2, <2>3, <2>4
<1>3. blocks' \in Seq(Block) /\ Len(blocks') = Len(blocks)
  BY <1>1, <1>2, StoreType
<1>4. raced' \in BOOLEAN
  BY DEF ClearMining, PushTransaction, Invalidate, GenerateTimestamp, Trespass
<1>5. pc' \in [Calls -> Pcs]
  BY DEF ClearMining, PushTransaction, Invalidate, GenerateTimestamp, Go, At, TypeOK
<1> QED
  BY <1>3, <1>4, <1>5
  DEF TypeOK, ClearMining, PushTransaction, Invalidate, GenerateTimestamp,
      workerVars

LEMMA BeginType ==
  ASSUME TypeOK, NEW c \in Calls, Begin(c)
  PROVE  TypeOK'
<1>1. CASE \E t \in Threads : SubmitTransaction(t, c)
  <2> PICK t \in Threads : SubmitTransaction(t, c)
    BY <1>1
  <2>1. Len(blocks) \in 1..Len(blocks) /\ Len(blocks) \in Nat
    BY DEF TypeOK
  <2> QED
    BY <2>1 DEF SubmitTransaction, Go, At, TypeOK, Tip, chainVars, workerVars, Pcs,
                CallPcs, TxPcs
<1>2. CASE ReceiveBadTransaction(c)
  BY <1>2 DEF ReceiveBadTransaction, Go, At, TypeOK, chainVars, workerVars, Pcs,
              CallPcs, Threads
<1>3. CASE StartMiningNow(c)
  BY <1>3 DEF StartMiningNow, Go, At, TypeOK, chainVars, workerVars, Pcs, CallPcs,
              Threads
<1> QED
  BY <1>1, <1>2, <1>3 DEF Begin

LEMMA ToggleType == TypeOK /\ ToggleAutoMining => TypeOK'
  BY DEF TypeOK, ToggleAutoMining, chainVars, threadVars, workerVars

LEMMA CallMovesType ==
  ASSUME TypeOK, NEW c \in Calls, CallMoves(c)
  PROVE  TypeOK'
<1>1. CASE AddTransaction(c)
  <2>1. /\ {"txPush", "txInvalidate", "txStamp", "ask"} \subseteq Pcs
        /\ <<"user", c>> \in Tx
    BY DEF Pcs, CallPcs, TxPcs, Tx
  <2> QED
    BY <1>1, <2>1, CallerStoreType DEF AddTransaction
<1>2. CASE AskAutoMining(c)
  BY <1>2 DEF AskAutoMining, Release, At, TypeOK, chainVars, workerVars, Pcs, CallPcs
<1>3. CASE CountPending(c)
  BY <1>3 DEF CountPending, Release, At, TypeOK, chainVars, workerVars, Pcs, CallPcs
<1>4. CASE Interrupt(c)
  <2>1. Tip \in 1..Len(blocks) /\ blocks[Tip] \in Block
    BY DEF TypeOK, Tip
  <2>2. PICK r \in Block : blocks' = [blocks EXCEPT ![Tip] = r]
    BY <1>4, <2>1 DEF Interrupt, Block
  <2>3. blocks' \in Seq(Block) /\ Len(blocks') = Len(blocks)
    BY <2>1, <2>2, StoreType
  <2>4. pc' \in [Calls -> Pcs] /\ caller' \in [Threads -> Calls \cup {NoCall}]
    BY <1>4 DEF Interrupt, Go, At, Release, TypeOK, Pcs
  <2> QED
    BY <1>4, <2>3, <2>4 DEF Interrupt, Trespass, TypeOK, workerVars
<1> QED
  BY <1>1, <1>2, <1>3, <1>4 DEF CallMoves

\* The steps of a mining thread that store nothing to the chain.
LEMMA MineReadType ==
  ASSUME TypeOK, NEW c \in Calls,
         \/ StartThread(c)    \/ SpinOnMining(c)   \/ SpinAgain(c)
         \/ LeaveSpin(c)      \/ StartWorkers(c)   \/ JoinWorkers(c)
         \/ EndCheckMining(c) \/ EndCheckValidated(c) \/ EndHash(c)
  PROVE  TypeOK'
<1>1. /\ {"gateMining", "gateSagain", "rwClear", "join", "endMining",
          "endValidated", "clean", "endHash", "clearMining"} \subseteq Pcs
      /\ {"loopMining"} \subseteq WorkerPcs
  BY DEF Pcs, RewardPcs, EndPcs, WorkerPcs
<1>2. CASE StartThread(c)
  <2>1. Len(blocks) \in 1..Len(blocks) /\ Len(blocks) \in Nat
    BY DEF TypeOK
  <2> QED
    BY <1>1, <1>2, <2>1 DEF StartThread, Go, At, TypeOK, Tip, chainVars, workerVars
<1>3. CASE SpinOnMining(c)
  BY <1>1, <1>3 DEF SpinOnMining, Go, At, TypeOK, chainVars, workerVars
<1>4. CASE SpinAgain(c)
  BY <1>1, <1>4 DEF SpinAgain, Go, At, TypeOK, chainVars, workerVars
<1>5. CASE LeaveSpin(c)
  BY <1>1, <1>5 DEF LeaveSpin, Go, At, TypeOK, chainVars, workerVars
<1>6. CASE StartWorkers(c)
  <2>1. fill_block_hash(blocks[blk[c]]) \in SUBSET Tx
    <3>1. blocks[blk[c]] \in Block
      BY DEF TypeOK
    <3> QED
      BY <3>1 DEF fill_block_hash, Block
  <2> QED
    BY <1>1, <1>6, <2>1 DEF StartWorkers, Go, At, TypeOK, chainVars
<1>7. CASE JoinWorkers(c)
  BY <1>1, <1>7 DEF JoinWorkers, Go, At, TypeOK, chainVars, workerVars
<1>8. CASE EndCheckMining(c)
  BY <1>1, <1>8 DEF EndCheckMining, At, TypeOK, chainVars, workerVars
<1>9. CASE EndCheckValidated(c)
  BY <1>1, <1>9 DEF EndCheckValidated, At, TypeOK, chainVars, workerVars
<1>10. CASE EndHash(c)
  BY <1>1, <1>10 DEF EndHash, Go, Throw, At, TypeOK, chainVars, workerVars
<1> QED
  BY <1>2, <1>3, <1>4, <1>5, <1>6, <1>7, <1>8, <1>9, <1>10

\* The steps of a mining thread that store to its block.
LEMMA MineStoreType ==
  ASSUME TypeOK, NEW c \in Calls,
         \/ SetMining(c) \/ SetSagain(c) \/ CleanBlock(c)
         \/ EndMining(c) \/ EndSagain(c)
  PROVE  TypeOK'
<1>1. {"setSagain", "header", "clearMining", "clearSagain", "recheck"} \subseteq Pcs
  BY DEF Pcs
<1>2. blk[c] \in 1..Len(blocks) /\ blocks[blk[c]] \in Block
  BY DEF TypeOK
<1>3. \E r \in Block : blocks' = [blocks EXCEPT ![blk[c]] = r]
  <2>1. CASE SetMining(c)
    BY <1>2, <2>1 DEF SetMining, Block
  <2>2. CASE SetSagain(c)
    BY <1>2, <2>2 DEF SetSagain, Block
  <2>3. CASE CleanBlock(c)
    BY <1>2, <2>3 DEF CleanBlock, Block
  <2>4. CASE EndMining(c)
    BY <1>2, <2>4 DEF EndMining, Block
  <2>5. CASE EndSagain(c)
    BY <1>2, <2>5 DEF EndSagain, Block
  <2> QED
    BY <2>1, <2>2, <2>3, <2>4, <2>5
<1>4. blocks' \in Seq(Block) /\ Len(blocks') = Len(blocks)
  BY <1>2, <1>3, StoreType
<1>5. pc' \in [Calls -> Pcs]
  BY <1>1 DEF SetMining, SetSagain, CleanBlock, EndMining, EndSagain, Go, At, TypeOK
<1>6. raced' \in BOOLEAN
  BY DEF SetMining, SetSagain, CleanBlock, EndMining, EndSagain, Trespass, TypeOK
<1> QED
  BY <1>4, <1>5, <1>6
  DEF TypeOK, SetMining, SetSagain, CleanBlock, EndMining, EndSagain, workerVars

\* Overwriting the local of one worker of one mining thread.
LEMMA WriteLocal ==
  ASSUME NEW S, NEW f \in [Calls -> [Workers -> S]],
         NEW c \in Calls, NEW w \in Workers, NEW v \in S
  PROVE  [f EXCEPT ![c][w] = v] \in [Calls -> [Workers -> S]]
<1>1. [f[c] EXCEPT ![w] = v] \in [Workers -> S]
  OBVIOUS
<1> QED
  BY <1>1

\* The steps of a worker that only read the block.
LEMMA WorkerReadType ==
  ASSUME TypeOK, NEW c \in Calls, NEW w \in Workers,
         \/ LoopMining(c, w) \/ LoopValidated(c, w) \/ TryNonce(c, w)
         \/ FindNonce(c, w)  \/ CheckMining(c, w)   \/ CheckValidated(c, w)
  PROVE  TypeOK'
<1>1. {"loopMining", "loopValidated", "try", "checkMining", "checkValidated",
       "setNonce", "lost"} \subseteq WorkerPcs
  BY DEF WorkerPcs, PublishPcs
<1>2. wpc' \in [Calls -> [Workers -> WorkerPcs]]
  <2>1. PICK to \in WorkerPcs : wpc' = [wpc EXCEPT ![c][w] = to]
    BY <1>1 DEF LoopMining, LoopValidated, TryNonce, FindNonce, CheckMining,
                CheckValidated, WorkerStep, WorkerGo
  <2>2. wpc \in [Calls -> [Workers -> WorkerPcs]]
    BY DEF TypeOK
  <2> QED
    BY <2>1, <2>2, WriteLocal
<1>3. found' \in [Calls -> [Workers -> Nonce]]
  <2>1. Unsolved(w) \in Nonce
    BY DEF Unsolved, Nonce
  <2>2. Solution(w, [txs |-> base[c], stamp |-> blocks[blk[c]].stamp]) \in Nonce
    <3>1. base[c] \in SUBSET Tx /\ blocks[blk[c]] \in Block
      BY DEF TypeOK
    <3>2. [txs |-> base[c], stamp |-> blocks[blk[c]].stamp] \in Puzzle
      BY <3>1 DEF Puzzle, Block
    <3> QED
      BY <3>2 DEF Solution, Nonce
  <2>3. \/ found' = found
        \/ \E v \in Nonce : found' = [found EXCEPT ![c][w] = v]
    BY <2>1, <2>2 DEF LoopMining, LoopValidated, TryNonce, FindNonce,
                      CheckMining, CheckValidated
  <2>4. found \in [Calls -> [Workers -> Nonce]]
    BY DEF TypeOK
  <2>5. ASSUME NEW v \in Nonce, found' = [found EXCEPT ![c][w] = v]
        PROVE  found' \in [Calls -> [Workers -> Nonce]]
    BY <2>4, <2>5, WriteLocal
  <2> QED
    BY <2>3, <2>4, <2>5
<1>4. UNCHANGED <<blocks, file, wire, pc, blk, base, autoMining, caller, fault,
                  raced>>
  BY DEF LoopMining, LoopValidated, TryNonce, FindNonce, CheckMining,
         CheckValidated, WorkerStep, chainVars, threadVars
<1> QED
  BY <1>2, <1>3, <1>4 DEF TypeOK

LEMMA PublishType ==
  ASSUME TypeOK, NEW c \in Calls, NEW w \in Workers,
         SetNonce(c, w) \/ SetHeader(c, w) \/ SetValidated(c, w)
  PROVE  TypeOK'
<1>1. blk[c] \in 1..Len(blocks) /\ blocks[blk[c]] \in Block
  BY DEF TypeOK
<1>2. \E r \in Block : blocks' = [blocks EXCEPT ![blk[c]] = r]
  <2>1. CASE SetNonce(c, w)
    <3>1. found[c][w] \in Nonce
      BY DEF TypeOK
    <3>2. [blocks[blk[c]] EXCEPT !.nonce = found[c][w]] \in Block
      BY <1>1, <3>1 DEF Block
    <3> QED
      BY <2>1, <3>2 DEF SetNonce, Publish
  <2>2. CASE SetHeader(c, w)
    <3>1. base[c] \in SUBSET Tx
      BY DEF TypeOK
    <3>2. [blocks[blk[c]] EXCEPT !.header = base[c]] \in Block
      BY <1>1, <3>1 DEF Block
    <3> QED
      BY <2>2, <3>2 DEF SetHeader, Publish
  <2>3. CASE SetValidated(c, w)
    <3>1. [blocks[blk[c]] EXCEPT !.validated = TRUE] \in Block
      BY <1>1 DEF Block
    <3> QED
      BY <2>3, <3>1 DEF SetValidated, Publish
  <2> QED
    BY <2>1, <2>2, <2>3
<1>3. blocks' \in Seq(Block) /\ Len(blocks') = Len(blocks)
  BY <1>1, <1>2, StoreType
<1>4. wpc' \in [Calls -> [Workers -> WorkerPcs]]
  <2>1. PICK to \in WorkerPcs : wpc' = [wpc EXCEPT ![c][w] = to]
    BY DEF SetNonce, SetHeader, SetValidated, Publish, WorkerGo, WorkerPcs,
           PublishPcs
  <2>2. wpc \in [Calls -> [Workers -> WorkerPcs]]
    BY DEF TypeOK
  <2> QED
    BY <2>1, <2>2, WriteLocal
<1> QED
  BY <1>3, <1>4 DEF SetNonce, SetHeader, SetValidated, Publish, TypeOK, threadVars

LEMMA DumpType ==
  ASSUME TypeOK, NEW b \in 1..Len(blocks)
  PROVE  Dump(b) \in Dumped
<1>1. blocks[b] \in Block /\ b - 1 \in Nat
  BY DEF TypeOK
<1> QED
  BY <1>1 DEF Dump, Dumped, Block

LEMMA DropLocalsType ==
  ASSUME TypeOK, NEW c \in Calls, DropLocals(c)
  PROVE  /\ blk' \in [Calls -> Nat]
         /\ \A d \in Calls : blk'[d] \in 1..Len(blocks)
         /\ base' \in [Calls -> SUBSET Tx]
         /\ wpc' \in [Calls -> [Workers -> WorkerPcs]]
         /\ found' \in [Calls -> [Workers -> Nonce]]
<1>1. [w \in Workers |-> Unsolved(NoWorker)] \in [Workers -> Nonce]
  BY DEF Unsolved, Nonce
<1>2. [w \in Workers |-> "off"] \in [Workers -> WorkerPcs]
  BY DEF WorkerPcs
<1>3. 1 \in 1..Len(blocks) /\ 1 \in Nat
  BY DEF TypeOK
<1> QED
  BY <1>1, <1>2, <1>3 DEF DropLocals, TypeOK

LEMMA EndType ==
  ASSUME TypeOK, NEW c \in Calls,
         Recheck(c) \/ Propagate(c) \/ Seal(c) \/ Save(c) \/ PushBlock(c)
  PROVE  TypeOK'
<1>1. {"propagate", "seal", "save", "push", "done"} \subseteq Pcs
  BY DEF Pcs, SealPcs
<1>2. Tip \in 1..Len(blocks) /\ blocks[Tip] \in Block
  BY DEF TypeOK, Tip
<1>3. CASE Recheck(c)
  <2>1. CASE get_current_block.validated
    BY <1>1, <1>3, <2>1 DEF Recheck, At, TypeOK, chainVars, workerVars
  <2>2. CASE ~get_current_block.validated
    <3>1. DropLocals(c) /\ pc' = [pc EXCEPT ![c] = "done"]
      BY <1>3, <2>2 DEF Recheck
    <3> QED
      BY <1>1, <1>3, <2>2, <3>1, DropLocalsType DEF Recheck, TypeOK, chainVars
  <2> QED
    BY <2>1, <2>2
<1>4. CASE Propagate(c)
  BY <1>1, <1>2, <1>4, DumpType DEF Propagate, Go, At, TypeOK, workerVars
<1>5. CASE Seal(c)
  BY <1>1, <1>5 DEF Seal, Go, Throw, At, TypeOK, chainVars, workerVars
<1>6. CASE Save(c)
  <2>1. {Dump(b) : b \in Valid} \subseteq Dumped
    BY DumpType DEF Valid
  <2> QED
    BY <1>1, <1>6, <2>1 DEF Save, Go, Throw, At, TypeOK, workerVars
<1>7. CASE PushBlock(c)
  <2>1. CASE get_current_block.validated
    <3>1. PendingBlock(get_hash(get_current_block)) \in Block
      BY <1>2, HashType, PendingBlockType DEF get_current_block
    <3>2. /\ blocks' \in Seq(Block)
          /\ Len(blocks') = Len(blocks) + 1
      <4>1. blocks' = Append(blocks, PendingBlock(get_hash(get_current_block)))
        BY <1>7, <2>1 DEF PushBlock
      <4>2. blocks \in Seq(Block)
        BY DEF TypeOK
      <4> QED
        BY <3>1, <4>1, <4>2, AppendBlock
    <3>3. DropLocals(c) /\ pc' = [pc EXCEPT ![c] = "done"] /\ UNCHANGED fault
      BY <1>7, <2>1 DEF PushBlock, Go
    <3> QED
      BY <1>1, <1>7, <3>2, <3>3, DropLocalsType DEF PushBlock, TypeOK
  <2>2. CASE ~get_current_block.validated
    BY <1>7, <2>2 DEF PushBlock, Throw, At, TypeOK, workerVars
  <2> QED
    BY <2>1, <2>2
<1> QED
  BY <1>3, <1>4, <1>5, <1>6, <1>7

LEMMA MineType ==
  ASSUME TypeOK, NEW c \in Calls, ThreadMoves(c)
  PROVE  TypeOK'
<1>1. CASE AddReward(c)
  <2>1. /\ {"rwPush", "rwInvalidate", "rwStamp", "setMining"} \subseteq Pcs
        /\ <<"reward", c>> \in Tx
    BY DEF Pcs, RewardPcs, Tx
  <2> QED
    BY <1>1, <2>1, CallerStoreType DEF AddReward
<1> QED
  BY <1>1, MineReadType, MineStoreType, EndType DEF ThreadMoves, Mine

LEMMA NextType == TypeOK /\ [Next]_vars => TypeOK'
<1> SUFFICES ASSUME TypeOK, [Next]_vars PROVE TypeOK'
  OBVIOUS
<1>1. CASE ToggleAutoMining
  BY <1>1, ToggleType
<1>2. ASSUME NEW c \in Calls, Begin(c) \/ CallMoves(c) \/ ThreadMoves(c)
      PROVE  TypeOK'
  BY <1>2, BeginType, CallMovesType, MineType
<1>3. ASSUME NEW c \in Calls, NEW w \in Workers, WorkerMoves(c, w)
      PROVE  TypeOK'
  BY <1>3, WorkerReadType, PublishType DEF WorkerMoves
<1>4. CASE UNCHANGED vars
  BY <1>4 DEF vars, TypeOK
<1> QED
  BY <1>1, <1>2, <1>3, <1>4 DEF Next

\* Every thread of every instance stays within the types of the model: in
\* particular the reference a thread holds is to a block of the chain, which
\* only grows, at every step of any interleaving.
THEOREM TypeCorrect == Spec => []TypeOK
<1>1. Init => TypeOK
  BY InitType
<1>2. TypeOK /\ [Next]_vars => TypeOK'
  BY NextType
<1> QED
  BY <1>1, <1>2, PTL DEF Spec

-----------------------------------------------------------------------------
(***************************************************************************)
(* No flag of the spin loop is ever orphaned.  TypeOK /\ FlagsOwned is     *)
(* inductive: a flag is only set by a thread that enters its region, and a *)
(* thread leaves the region by clearing the flag, whoever had set it.      *)
(***************************************************************************)

\* A step that sets no flag, and in which no thread that owns a flag moves out
\* of its region or changes block, keeps every flag owned.
LEMMA FlagsKept ==
  ASSUME FlagsOwned,
         \A b \in 1..Len(blocks') :
           \/ /\ b \in 1..Len(blocks)
              /\ blocks'[b].mining => blocks[b].mining
              /\ blocks'[b].sagain => blocks[b].sagain
           \/ ~blocks'[b].mining /\ ~blocks'[b].sagain,
         \A d \in Calls :
           /\ pc[d] \in MiningPcs => pc'[d] \in MiningPcs /\ blk'[d] = blk[d]
           /\ pc[d] \in SagainPcs => pc'[d] \in SagainPcs /\ blk'[d] = blk[d]
  PROVE  FlagsOwned'
<1> SUFFICES ASSUME NEW b \in 1..Len(blocks')
             PROVE  /\ blocks'[b].mining =>
                         \E c \in Calls : blk'[c] = b /\ pc'[c] \in MiningPcs
                    /\ blocks'[b].sagain =>
                         \E c \in Calls : blk'[c] = b /\ pc'[c] \in SagainPcs
  BY DEF FlagsOwned, MiningPcs, SagainPcs, FlagPcs, EndPcs
<1>1. ASSUME blocks'[b].mining
      PROVE  \E c \in Calls : blk'[c] = b /\ pc'[c] \in MiningPcs
  <2>1. b \in 1..Len(blocks) /\ blocks[b].mining
    BY <1>1
  <2>2. PICK d \in Calls : blk[d] = b /\ pc[d] \in MiningPcs
    BY <2>1 DEF FlagsOwned
  <2> QED
    BY <2>2
<1>2. ASSUME blocks'[b].sagain
      PROVE  \E c \in Calls : blk'[c] = b /\ pc'[c] \in SagainPcs
  <2>1. b \in 1..Len(blocks) /\ blocks[b].sagain
    BY <1>2
  <2>2. PICK d \in Calls : blk[d] = b /\ pc[d] \in SagainPcs
    BY <2>1 DEF FlagsOwned
  <2> QED
    BY <2>2
<1> QED
  BY <1>1, <1>2

\* The same for a store to one block that leaves the flags or clears them.
LEMMA FlagsKeptByStore ==
  ASSUME TypeOK, FlagsOwned, NEW i \in 1..Len(blocks), NEW r \in Block,
         blocks' = [blocks EXCEPT ![i] = r],
         r.mining => blocks[i].mining,
         r.sagain => blocks[i].sagain,
         \A d \in Calls :
           /\ pc[d] \in MiningPcs => pc'[d] \in MiningPcs /\ blk'[d] = blk[d]
           /\ pc[d] \in SagainPcs => pc'[d] \in SagainPcs /\ blk'[d] = blk[d]
  PROVE  FlagsOwned'
<1>1. blocks \in Seq(Block)
  BY DEF TypeOK
<1>2. /\ Len(blocks') = Len(blocks)
      /\ \A b \in 1..Len(blocks) :
           blocks'[b] = IF b = i THEN r ELSE blocks[b]
  BY <1>1, WriteBlock
<1>3. \A b \in 1..Len(blocks') :
        /\ b \in 1..Len(blocks)
        /\ blocks'[b].mining => blocks[b].mining
        /\ blocks'[b].sagain => blocks[b].sagain
  BY <1>2
<1> QED
  BY <1>3, FlagsKept

LEMMA CallerStoreFlags ==
  ASSUME TypeOK, FlagsOwned, NEW c \in Calls,
         NEW from \in TxPcs \cup RewardPcs, NEW to, NEW tx \in Tx,
         \/ ClearMining(c, from, to) \/ PushTransaction(c, tx, from, to)
         \/ Invalidate(c, from, to)  \/ GenerateTimestamp(c, tx, from, to)
  PROVE  FlagsOwned'
<1>1. blk[c] \in 1..Len(blocks) /\ blocks[blk[c]] \in Block
  BY DEF TypeOK
<1>2. /\ from \notin MiningPcs \cup SagainPcs
      /\ pc[c] = from
      /\ \A d \in Calls \ {c} : pc'[d] = pc[d]
      /\ UNCHANGED blk
  BY DEF ClearMining, PushTransaction, Invalidate, GenerateTimestamp, Go, At,
         TypeOK, MiningPcs, SagainPcs, FlagPcs, EndPcs, TxPcs, RewardPcs
<1>3. \A d \in Calls :
        /\ pc[d] \in MiningPcs => pc'[d] \in MiningPcs /\ blk'[d] = blk[d]
        /\ pc[d] \in SagainPcs => pc'[d] \in SagainPcs /\ blk'[d] = blk[d]
  BY <1>2
<1>4. \E r \in Block : /\ blocks' = [blocks EXCEPT ![blk[c]] = r]
                       /\ r.mining => blocks[blk[c]].mining
                       /\ r.sagain => blocks[blk[c]].sagain
  <2>1. CASE ClearMining(c, from, to)
    <3> DEFINE r == [blocks[blk[c]] EXCEPT !.mining = FALSE]
    <3>1. r \in Block /\ ~r.mining /\ r.sagain = blocks[blk[c]].sagain
      BY <1>1 DEF Block
    <3>2. blocks' = [blocks EXCEPT ![blk[c]] = r]
      BY <2>1 DEF ClearMining
    <3> QED
      BY <3>1, <3>2
  <2>2. CASE PushTransaction(c, tx, from, to)
    <3> DEFINE r == [blocks[blk[c]] EXCEPT !.txs = @ \cup {tx}]
    <3>1. /\ r \in Block
          /\ r.mining = blocks[blk[c]].mining
          /\ r.sagain = blocks[blk[c]].sagain
      BY <1>1 DEF Block
    <3>2. blocks' = [blocks EXCEPT ![blk[c]] = r]
      BY <2>2 DEF PushTransaction
    <3> QED
      BY <3>1, <3>2
  <2>3. CASE Invalidate(c, from, to)
    <3> DEFINE r == [blocks[blk[c]] EXCEPT !.validated = FALSE]
    <3>1. /\ r \in Block
          /\ r.mining = blocks[blk[c]].mining
          /\ r.sagain = blocks[blk[c]].sagain
      BY <1>1 DEF Block
    <3>2. blocks' = [blocks EXCEPT ![blk[c]] = r]
      BY <2>3 DEF Invalidate
    <3> QED
      BY <3>1, <3>2
  <2>4. CASE GenerateTimestamp(c, tx, from, to)
    <3> DEFINE r == [blocks[blk[c]] EXCEPT !.stamp = tx]
    <3>1. /\ r \in Block
          /\ r.mining = blocks[blk[c]].mining
          /\ r.sagain = blocks[blk[c]].sagain
      BY <1>1 DEF Block, Stamps
    <3>2. blocks' = [blocks EXCEPT ![blk[c]] = r]
      BY <2>4 DEF GenerateTimestamp
    <3> QED
      BY <3>1, <3>2
  <2> QED
    BY <2>1, <2>2, <2>3, <2>4
<1> QED
  BY <1>1, <1>3, <1>4, FlagsKeptByStore

\* The steps that store nothing to the chain and move no owner of a flag out of
\* its region: what the two threads begin, and most of what threads read.
LEMMA ReadFlags ==
  ASSUME TypeOK, FlagsOwned, NEW c \in Calls,
         \/ Begin(c) \/ AskAutoMining(c) \/ CountPending(c)
         \/ StartThread(c)    \/ SpinOnMining(c)   \/ SpinAgain(c)
         \/ LeaveSpin(c)      \/ StartWorkers(c)   \/ JoinWorkers(c)
         \/ EndCheckMining(c) \/ EndCheckValidated(c) \/ EndHash(c)
         \/ Recheck(c) \/ Propagate(c) \/ Seal(c) \/ Save(c)
  PROVE  FlagsOwned'
<1> USE DEF MiningPcs, SagainPcs, FlagPcs, EndPcs
<1>1. UNCHANGED blocks
  BY DEF Begin, SubmitTransaction, ReceiveBadTransaction, StartMiningNow,
         AskAutoMining, CountPending, StartThread, SpinOnMining, SpinAgain,
         LeaveSpin, StartWorkers, JoinWorkers, EndCheckMining, EndCheckValidated,
         EndHash, Recheck, Propagate, Seal, Save, chainVars
<1>2. \A d \in Calls \ {c} : pc'[d] = pc[d] /\ blk'[d] = blk[d]
  BY DEF Begin, SubmitTransaction, ReceiveBadTransaction, StartMiningNow,
         AskAutoMining, CountPending, StartThread, SpinOnMining, SpinAgain,
         LeaveSpin, StartWorkers, JoinWorkers, EndCheckMining, EndCheckValidated,
         EndHash, Recheck, Propagate, Seal, Save, Go, At, Throw, DropLocals,
         TypeOK
<1>3. /\ pc[c] \in MiningPcs => pc'[c] \in MiningPcs /\ blk'[c] = blk[c]
      /\ pc[c] \in SagainPcs => pc'[c] \in SagainPcs /\ blk'[c] = blk[c]
  <2>1. CASE pc[c] \notin MiningPcs \cup SagainPcs
    BY <2>1
  <2>2. CASE StartWorkers(c)
    BY <2>2 DEF StartWorkers, Go, At, TypeOK
  <2>3. CASE JoinWorkers(c)
    BY <2>3 DEF JoinWorkers, Go, At, TypeOK
  <2>4. CASE EndCheckMining(c)
    BY <2>4 DEF EndCheckMining, At, TypeOK
  <2>5. CASE EndCheckValidated(c)
    BY <2>5 DEF EndCheckValidated, At, TypeOK
  <2>6. CASE EndHash(c)
    BY <2>6 DEF EndHash, Go, At, Throw, TypeOK
  <2> QED
    BY <2>1, <2>2, <2>3, <2>4, <2>5, <2>6
    DEF Begin, SubmitTransaction, ReceiveBadTransaction, StartMiningNow,
        AskAutoMining, CountPending, StartThread, SpinOnMining, SpinAgain,
        LeaveSpin, Recheck, Propagate, Seal, Save, Go, At, Throw
<1>4. \A b \in 1..Len(blocks') :
        /\ b \in 1..Len(blocks)
        /\ blocks'[b].mining => blocks[b].mining
        /\ blocks'[b].sagain => blocks[b].sagain
  BY <1>1
<1>5. \A d \in Calls :
        /\ pc[d] \in MiningPcs => pc'[d] \in MiningPcs /\ blk'[d] = blk[d]
        /\ pc[d] \in SagainPcs => pc'[d] \in SagainPcs /\ blk'[d] = blk[d]
  BY <1>2, <1>3
<1> QED
  BY <1>4, <1>5, FlagsKept

LEMMA InterruptFlags ==
  ASSUME TypeOK, FlagsOwned, NEW c \in Calls, Interrupt(c)
  PROVE  FlagsOwned'
<1> DEFINE r == [blocks[Tip] EXCEPT !.mining = FALSE]
<1>1. Tip \in 1..Len(blocks) /\ blocks[Tip] \in Block
  BY DEF TypeOK, Tip
<1>2. r \in Block /\ ~r.mining /\ r.sagain = blocks[Tip].sagain
  BY <1>1 DEF Block
<1>3. blocks' = [blocks EXCEPT ![Tip] = r]
  BY DEF Interrupt
<1>4. \A d \in Calls :
        /\ pc[d] \in MiningPcs => pc'[d] \in MiningPcs /\ blk'[d] = blk[d]
        /\ pc[d] \in SagainPcs => pc'[d] \in SagainPcs /\ blk'[d] = blk[d]
  BY DEF Interrupt, Go, At, TypeOK, MiningPcs, SagainPcs, FlagPcs, EndPcs
<1> HIDE DEF r
<1> QED
  BY <1>1, <1>2, <1>3, <1>4, FlagsKeptByStore

LEMMA CleanFlags ==
  ASSUME TypeOK, FlagsOwned, NEW c \in Calls, CleanBlock(c)
  PROVE  FlagsOwned'
<1> DEFINE r == [blocks[blk[c]] EXCEPT !.txs = {tx \in @ : ~is_reward(tx)}]
<1>1. blk[c] \in 1..Len(blocks) /\ blocks[blk[c]] \in Block
  BY DEF TypeOK
<1>2. /\ r \in Block
      /\ r.mining = blocks[blk[c]].mining
      /\ r.sagain = blocks[blk[c]].sagain
  BY <1>1 DEF Block
<1>3. blocks' = [blocks EXCEPT ![blk[c]] = r]
  BY DEF CleanBlock
<1>4. \A d \in Calls :
        /\ pc[d] \in MiningPcs => pc'[d] \in MiningPcs /\ blk'[d] = blk[d]
        /\ pc[d] \in SagainPcs => pc'[d] \in SagainPcs /\ blk'[d] = blk[d]
  BY DEF CleanBlock, Go, At, TypeOK, MiningPcs, SagainPcs, FlagPcs, EndPcs
<1> HIDE DEF r
<1> QED
  BY <1>1, <1>2, <1>3, <1>4, FlagsKeptByStore

LEMMA WorkerFlags ==
  ASSUME TypeOK, FlagsOwned, NEW c \in Calls, NEW w \in Workers, WorkerMoves(c, w)
  PROVE  FlagsOwned'
<1>1. UNCHANGED <<pc, blk>>
  BY DEF WorkerMoves, LoopMining, LoopValidated, TryNonce, FindNonce, CheckMining,
         CheckValidated, WorkerStep, SetNonce, SetHeader, SetValidated, Publish,
         threadVars
<1>2. CASE UNCHANGED blocks
  BY <1>1, <1>2, FlagsKept
<1>3. ASSUME NEW r, blocks' = [blocks EXCEPT ![blk[c]] = r],
             \/ r = [blocks[blk[c]] EXCEPT !.nonce = found[c][w]]
             \/ r = [blocks[blk[c]] EXCEPT !.header = base[c]]
             \/ r = [blocks[blk[c]] EXCEPT !.validated = TRUE]
      PROVE  FlagsOwned'
  <2>1. blk[c] \in 1..Len(blocks) /\ blocks[blk[c]] \in Block
    BY DEF TypeOK
  <2>2. found[c][w] \in Nonce /\ base[c] \in SUBSET Tx
    BY DEF TypeOK
  <2>3. /\ r \in Block
        /\ r.mining = blocks[blk[c]].mining
        /\ r.sagain = blocks[blk[c]].sagain
    BY <1>3, <2>1, <2>2 DEF Block
  <2> QED
    BY <1>1, <1>3, <2>1, <2>3, FlagsKeptByStore
<1> QED
  BY <1>2, <1>3
  DEF WorkerMoves, LoopMining, LoopValidated, TryNonce, FindNonce, CheckMining,
      CheckValidated, WorkerStep, SetNonce, SetHeader, SetValidated, Publish,
      chainVars

\* The four stores to the flags in mine.
LEMMA SetMiningFlags ==
  ASSUME TypeOK, FlagsOwned, NEW c \in Calls, SetMining(c)
  PROVE  FlagsOwned'
<1> USE DEF MiningPcs, SagainPcs, FlagPcs, EndPcs
<1> DEFINE i == blk[c]
           r == [blocks[i] EXCEPT !.mining = TRUE]
<1>1. i \in 1..Len(blocks) /\ blocks[i] \in Block /\ blocks \in Seq(Block)
  BY DEF TypeOK
<1>2. r \in Block
  BY <1>1 DEF Block
<1>3. r.mining = TRUE /\ r.sagain = blocks[i].sagain
  BY <1>1 DEF Block
<1>4. blocks' = [blocks EXCEPT ![i] = r]
  BY DEF SetMining
<1>5. /\ Len(blocks') = Len(blocks)
      /\ \A b \in 1..Len(blocks) : blocks'[b] = IF b = i THEN r ELSE blocks[b]
  <2> HIDE DEF r
  <2> QED
    BY <1>1, <1>2, <1>4, WriteBlock
<1>6. /\ pc[c] = "setMining" /\ pc'[c] = "setSagain" /\ UNCHANGED blk
      /\ \A d \in Calls \ {c} : pc'[d] = pc[d]
  BY DEF SetMining, Go, At, TypeOK
<1> HIDE DEF r
<1>7. ASSUME NEW b \in 1..Len(blocks'), blocks'[b].mining
      PROVE  \E d \in Calls : blk'[d] = b /\ pc'[d] \in MiningPcs
  <2>1. CASE b = i
    BY <1>3, <1>5, <1>6, <1>7, <2>1 DEF FlagsOwned
  <2>2. CASE b # i
    <3>1. PICK d \in Calls : blk[d] = b /\ pc[d] \in MiningPcs
      BY <1>5, <1>7, <2>2 DEF FlagsOwned
    <3> QED
      BY <1>6, <2>2, <3>1
  <2> QED
    BY <2>1, <2>2
<1>8. ASSUME NEW b \in 1..Len(blocks'), blocks'[b].sagain
      PROVE  \E d \in Calls : blk'[d] = b /\ pc'[d] \in SagainPcs
  <2>1. CASE b = i
    BY <1>3, <1>5, <1>6, <1>8, <2>1 DEF FlagsOwned
  <2>2. CASE b # i
    <3>1. PICK d \in Calls : blk[d] = b /\ pc[d] \in SagainPcs
      BY <1>5, <1>8, <2>2 DEF FlagsOwned
    <3> QED
      BY <1>6, <2>2, <3>1
  <2> QED
    BY <2>1, <2>2
<1> QED
  BY <1>7, <1>8 DEF FlagsOwned

LEMMA SetSagainFlags ==
  ASSUME TypeOK, FlagsOwned, NEW c \in Calls, SetSagain(c)
  PROVE  FlagsOwned'
<1> USE DEF MiningPcs, SagainPcs, FlagPcs, EndPcs
<1> DEFINE i == blk[c]
           r == [blocks[i] EXCEPT !.sagain = TRUE]
<1>1. i \in 1..Len(blocks) /\ blocks[i] \in Block /\ blocks \in Seq(Block)
  BY DEF TypeOK
<1>2. r \in Block
  BY <1>1 DEF Block
<1>3. r.sagain = TRUE /\ r.mining = blocks[i].mining
  BY <1>1 DEF Block
<1>4. blocks' = [blocks EXCEPT ![i] = r]
  BY DEF SetSagain
<1>5. /\ Len(blocks') = Len(blocks)
      /\ \A b \in 1..Len(blocks) : blocks'[b] = IF b = i THEN r ELSE blocks[b]
  <2> HIDE DEF r
  <2> QED
    BY <1>1, <1>2, <1>4, WriteBlock
<1>6. /\ pc[c] = "setSagain" /\ pc'[c] = "header" /\ UNCHANGED blk
      /\ \A d \in Calls \ {c} : pc'[d] = pc[d]
  BY DEF SetSagain, Go, At, TypeOK
<1> HIDE DEF r
<1>7. ASSUME NEW b \in 1..Len(blocks'), blocks'[b].mining
      PROVE  \E d \in Calls : blk'[d] = b /\ pc'[d] \in MiningPcs
  <2>1. CASE b = i
    BY <1>3, <1>5, <1>6, <1>7, <2>1 DEF FlagsOwned
  <2>2. CASE b # i
    <3>1. PICK d \in Calls : blk[d] = b /\ pc[d] \in MiningPcs
      BY <1>5, <1>7, <2>2 DEF FlagsOwned
    <3> QED
      BY <1>6, <2>2, <3>1
  <2> QED
    BY <2>1, <2>2
<1>8. ASSUME NEW b \in 1..Len(blocks'), blocks'[b].sagain
      PROVE  \E d \in Calls : blk'[d] = b /\ pc'[d] \in SagainPcs
  <2>1. CASE b = i
    BY <1>3, <1>5, <1>6, <1>8, <2>1 DEF FlagsOwned
  <2>2. CASE b # i
    <3>1. PICK d \in Calls : blk[d] = b /\ pc[d] \in SagainPcs
      BY <1>5, <1>8, <2>2 DEF FlagsOwned
    <3> QED
      BY <1>6, <2>2, <3>1
  <2> QED
    BY <2>1, <2>2
<1> QED
  BY <1>7, <1>8 DEF FlagsOwned

LEMMA EndMiningFlags ==
  ASSUME TypeOK, FlagsOwned, NEW c \in Calls, EndMining(c)
  PROVE  FlagsOwned'
<1> USE DEF MiningPcs, SagainPcs, FlagPcs, EndPcs
<1> DEFINE i == blk[c]
           r == [blocks[i] EXCEPT !.mining = FALSE]
<1>1. i \in 1..Len(blocks) /\ blocks[i] \in Block /\ blocks \in Seq(Block)
  BY DEF TypeOK
<1>2. r \in Block
  BY <1>1 DEF Block
<1>3. r.mining = FALSE /\ r.sagain = blocks[i].sagain
  BY <1>1 DEF Block
<1>4. blocks' = [blocks EXCEPT ![i] = r]
  BY DEF EndMining
<1>5. /\ Len(blocks') = Len(blocks)
      /\ \A b \in 1..Len(blocks) : blocks'[b] = IF b = i THEN r ELSE blocks[b]
  <2> HIDE DEF r
  <2> QED
    BY <1>1, <1>2, <1>4, WriteBlock
<1>6. /\ pc[c] = "clearMining" /\ pc'[c] = "clearSagain" /\ UNCHANGED blk
      /\ \A d \in Calls \ {c} : pc'[d] = pc[d]
  BY DEF EndMining, Go, At, TypeOK
<1> HIDE DEF r
<1>7. ASSUME NEW b \in 1..Len(blocks'), blocks'[b].mining
      PROVE  \E d \in Calls : blk'[d] = b /\ pc'[d] \in MiningPcs
  <2>1. CASE b = i
    BY <1>3, <1>5, <1>6, <1>7, <2>1 DEF FlagsOwned
  <2>2. CASE b # i
    <3>1. PICK d \in Calls : blk[d] = b /\ pc[d] \in MiningPcs
      BY <1>5, <1>7, <2>2 DEF FlagsOwned
    <3> QED
      BY <1>6, <2>2, <3>1
  <2> QED
    BY <2>1, <2>2
<1>8. ASSUME NEW b \in 1..Len(blocks'), blocks'[b].sagain
      PROVE  \E d \in Calls : blk'[d] = b /\ pc'[d] \in SagainPcs
  <2>1. CASE b = i
    BY <1>3, <1>5, <1>6, <1>8, <2>1 DEF FlagsOwned
  <2>2. CASE b # i
    <3>1. PICK d \in Calls : blk[d] = b /\ pc[d] \in SagainPcs
      BY <1>5, <1>8, <2>2 DEF FlagsOwned
    <3> QED
      BY <1>6, <2>2, <3>1
  <2> QED
    BY <2>1, <2>2
<1> QED
  BY <1>7, <1>8 DEF FlagsOwned

LEMMA EndSagainFlags ==
  ASSUME TypeOK, FlagsOwned, NEW c \in Calls, EndSagain(c)
  PROVE  FlagsOwned'
<1> USE DEF MiningPcs, SagainPcs, FlagPcs, EndPcs
<1> DEFINE i == blk[c]
           r == [blocks[i] EXCEPT !.sagain = FALSE]
<1>1. i \in 1..Len(blocks) /\ blocks[i] \in Block /\ blocks \in Seq(Block)
  BY DEF TypeOK
<1>2. r \in Block
  BY <1>1 DEF Block
<1>3. r.sagain = FALSE /\ r.mining = blocks[i].mining
  BY <1>1 DEF Block
<1>4. blocks' = [blocks EXCEPT ![i] = r]
  BY DEF EndSagain
<1>5. /\ Len(blocks') = Len(blocks)
      /\ \A b \in 1..Len(blocks) : blocks'[b] = IF b = i THEN r ELSE blocks[b]
  <2> HIDE DEF r
  <2> QED
    BY <1>1, <1>2, <1>4, WriteBlock
<1>6. /\ pc[c] = "clearSagain" /\ pc'[c] = "recheck" /\ UNCHANGED blk
      /\ \A d \in Calls \ {c} : pc'[d] = pc[d]
  BY DEF EndSagain, Go, At, TypeOK
<1> HIDE DEF r
<1>7. ASSUME NEW b \in 1..Len(blocks'), blocks'[b].mining
      PROVE  \E d \in Calls : blk'[d] = b /\ pc'[d] \in MiningPcs
  <2>1. CASE b = i
    BY <1>3, <1>5, <1>6, <1>7, <2>1 DEF FlagsOwned
  <2>2. CASE b # i
    <3>1. PICK d \in Calls : blk[d] = b /\ pc[d] \in MiningPcs
      BY <1>5, <1>7, <2>2 DEF FlagsOwned
    <3> QED
      BY <1>6, <2>2, <3>1
  <2> QED
    BY <2>1, <2>2
<1>8. ASSUME NEW b \in 1..Len(blocks'), blocks'[b].sagain
      PROVE  \E d \in Calls : blk'[d] = b /\ pc'[d] \in SagainPcs
  <2>1. CASE b = i
    BY <1>3, <1>5, <1>6, <1>8, <2>1 DEF FlagsOwned
  <2>2. CASE b # i
    <3>1. PICK d \in Calls : blk[d] = b /\ pc[d] \in SagainPcs
      BY <1>5, <1>8, <2>2 DEF FlagsOwned
    <3> QED
      BY <1>6, <2>2, <3>1
  <2> QED
    BY <2>1, <2>2
<1> QED
  BY <1>7, <1>8 DEF FlagsOwned

LEMMA PushFlags ==
  ASSUME TypeOK, FlagsOwned, NEW c \in Calls, PushBlock(c)
  PROVE  FlagsOwned'
<1> USE DEF MiningPcs, SagainPcs, FlagPcs, EndPcs
<1>1. \A d \in Calls :
        /\ pc[d] \in MiningPcs => pc'[d] \in MiningPcs /\ blk'[d] = blk[d]
        /\ pc[d] \in SagainPcs => pc'[d] \in SagainPcs /\ blk'[d] = blk[d]
  BY DEF PushBlock, DropLocals, Go, At, Throw, TypeOK
<1>2. CASE UNCHANGED blocks
  BY <1>1, <1>2, FlagsKept
<1>3. CASE blocks' = Append(blocks, PendingBlock(get_hash(get_current_block)))
  <2> DEFINE r == PendingBlock(get_hash(get_current_block))
  <2>1. Tip \in 1..Len(blocks) /\ blocks[Tip] \in Block /\ blocks \in Seq(Block)
    BY DEF TypeOK, Tip
  <2>2. r \in Block
    BY <2>1, HashType, PendingBlockType DEF get_current_block
  <2>3. ~r.mining /\ ~r.sagain
    BY DEF PendingBlock
  <2> HIDE DEF r
  <2>4. /\ Len(blocks') = Len(blocks) + 1
        /\ \A b \in 1..Len(blocks) : blocks'[b] = blocks[b]
        /\ blocks'[Len(blocks) + 1] = r
    BY <1>3, <2>1, <2>2, AppendBlock DEF r
  <2>5. Len(blocks) \in Nat
    BY <2>1
  <2>6. \A b \in 1..Len(blocks') :
          \/ /\ b \in 1..Len(blocks)
             /\ blocks'[b].mining => blocks[b].mining
             /\ blocks'[b].sagain => blocks[b].sagain
          \/ ~blocks'[b].mining /\ ~blocks'[b].sagain
    <3> TAKE b \in 1..Len(blocks')
    <3>1. CASE b \in 1..Len(blocks)
      BY <2>4, <3>1
    <3>2. CASE b \notin 1..Len(blocks)
      <4>1. b = Len(blocks) + 1
        BY <2>4, <2>5, <3>2
      <4> QED
        BY <2>3, <2>4, <4>1
    <3> QED
      BY <3>1, <3>2
  <2> QED
    BY <1>1, <2>6, FlagsKept
<1> QED
  BY <1>2, <1>3 DEF PushBlock

LEMMA NextFlags == TypeOK /\ FlagsOwned /\ [Next]_vars => FlagsOwned'
<1> SUFFICES ASSUME TypeOK, FlagsOwned, [Next]_vars PROVE FlagsOwned'
  OBVIOUS
<1>1. CASE UNCHANGED <<blocks, pc, blk>>
  BY <1>1, FlagsKept
<1>2. ASSUME NEW c \in Calls, AddTransaction(c) \/ AddReward(c)
      PROVE  FlagsOwned'
  <2>1. <<"user", c>> \in Tx /\ <<"reward", c>> \in Tx
    BY DEF Tx
  <2>2. {"txClear", "txPush", "txInvalidate", "txStamp", "rwClear", "rwPush",
         "rwInvalidate", "rwStamp"} \subseteq TxPcs \cup RewardPcs
    BY DEF TxPcs, RewardPcs
  <2> QED
    BY <1>2, <2>1, <2>2, CallerStoreFlags DEF AddTransaction, AddReward
<1>3. ASSUME NEW c \in Calls, Begin(c) \/ CallMoves(c)
      PROVE  FlagsOwned'
  BY <1>2, <1>3, ReadFlags, InterruptFlags DEF CallMoves
<1>4. ASSUME NEW c \in Calls, Mine(c)
      PROVE  FlagsOwned'
  BY <1>2, <1>4, ReadFlags, SetMiningFlags, SetSagainFlags, CleanFlags,
     EndMiningFlags, EndSagainFlags DEF Mine
<1>5. ASSUME NEW c \in Calls, ThreadMoves(c)
      PROVE  FlagsOwned'
  BY <1>4, <1>5, ReadFlags, PushFlags DEF ThreadMoves
<1>6. ASSUME NEW c \in Calls, NEW w \in Workers, WorkerMoves(c, w)
      PROVE  FlagsOwned'
  BY <1>6, WorkerFlags
<1> QED
  BY <1>1, <1>3, <1>5, <1>6
  DEF Next, ToggleAutoMining, vars, chainVars, threadVars

\* With any number of calls racing on the flags, m_mining and m_sagain of a block
\* are only ever set while a mining thread that is on its way to clearing them is
\* in mine on that block: the spin loop never waits for a flag that nobody is
\* going to clear.
THEOREM FlagsAlwaysOwned == Spec => []FlagsOwned
<1>1. Init => FlagsOwned
  <2> SUFFICES ASSUME Init PROVE FlagsOwned
    OBVIOUS
  <2>1. blocks = <<GenesisBlock, PendingBlock(get_hash(GenesisBlock))>>
    BY DEF Init
  <2>2. ~GenesisBlock.mining /\ ~GenesisBlock.sagain
    BY DEF GenesisBlock
  <2>3. \A h : ~PendingBlock(h).mining /\ ~PendingBlock(h).sagain
    BY DEF PendingBlock
  <2>4. ASSUME NEW b \in 1..Len(blocks)
        PROVE  ~blocks[b].mining /\ ~blocks[b].sagain
    <3>1. Len(blocks) = 2 /\ blocks[1] = GenesisBlock
          /\ blocks[2] = PendingBlock(get_hash(GenesisBlock))
      BY <2>1
    <3>2. b = 1 \/ b = 2
      BY <3>1
    <3> QED
      BY <3>1, <3>2, <2>2, <2>3
  <2> QED
    BY <2>4 DEF FlagsOwned
<1>2. TypeOK /\ FlagsOwned /\ [Next]_vars => FlagsOwned'
  BY NextFlags
<1> QED
  BY <1>1, <1>2, TypeCorrect, PTL DEF Spec

-----------------------------------------------------------------------------
(***************************************************************************)
(* Transactions.                                                           *)
(***************************************************************************)
UserTxs(b) == {tx \in b.txs : ~is_reward(tx)}

\* A store to one block that leaves its user transactions in.
LEMMA KeptByStore ==
  ASSUME TypeOK, NEW i \in 1..Len(blocks), NEW r \in Block,
         blocks' = [blocks EXCEPT ![i] = r],
         UserTxs(blocks[i]) \subseteq r.txs
  PROVE  \A b \in 1..Len(blocks) : UserTxs(blocks[b]) \subseteq blocks'[b].txs
<1>1. blocks \in Seq(Block)
  BY DEF TypeOK
<1>2. \A b \in 1..Len(blocks) : blocks'[b] = IF b = i THEN r ELSE blocks[b]
  BY <1>1, WriteBlock
<1> QED
  BY <1>2 DEF UserTxs

LEMMA StepKept ==
  ASSUME TypeOK, [Next]_vars
  PROVE  \A b \in 1..Len(blocks) : UserTxs(blocks[b]) \subseteq blocks'[b].txs
<1> DEFINE Kept == \A b \in 1..Len(blocks) :
                     UserTxs(blocks[b]) \subseteq blocks'[b].txs
<1>1. CASE UNCHANGED blocks
  BY <1>1 DEF UserTxs
<1>2. ASSUME NEW i \in 1..Len(blocks), NEW r \in Block,
             blocks' = [blocks EXCEPT ![i] = r],
             UserTxs(blocks[i]) \subseteq r.txs
      PROVE  Kept
  BY <1>2, KeptByStore
<1> HIDE DEF Kept
<1>3. Tip \in 1..Len(blocks) /\ \A c \in Calls : blk[c] \in 1..Len(blocks)
  BY DEF TypeOK, Tip
<1>4. \A b \in 1..Len(blocks) :
        /\ blocks[b] \in Block
        /\ [blocks[b] EXCEPT !.mining = FALSE] \in Block
        /\ [blocks[b] EXCEPT !.mining = TRUE] \in Block
        /\ [blocks[b] EXCEPT !.sagain = FALSE] \in Block
        /\ [blocks[b] EXCEPT !.sagain = TRUE] \in Block
        /\ [blocks[b] EXCEPT !.validated = FALSE] \in Block
        /\ [blocks[b] EXCEPT !.validated = TRUE] \in Block
  <2>1. \A b \in 1..Len(blocks) : blocks[b] \in Block
    BY DEF TypeOK
  <2> QED
    BY <2>1 DEF Block
<1>5. ASSUME NEW i \in 1..Len(blocks), NEW r \in Block,
             blocks' = [blocks EXCEPT ![i] = r],
             r.txs = blocks[i].txs
      PROVE  Kept
  BY <1>2, <1>5 DEF UserTxs
<1>6. ASSUME NEW c \in Calls, NEW from, NEW to, NEW tx \in Tx,
             \/ ClearMining(c, from, to) \/ PushTransaction(c, tx, from, to)
             \/ Invalidate(c, from, to)  \/ GenerateTimestamp(c, tx, from, to)
      PROVE  Kept
  <2>1. CASE ClearMining(c, from, to)
    <3>1. blocks' = [blocks EXCEPT ![blk[c]] =
                       [blocks[blk[c]] EXCEPT !.mining = FALSE]]
      BY <2>1 DEF ClearMining
    <3>2. [blocks[blk[c]] EXCEPT !.mining = FALSE].txs = blocks[blk[c]].txs
      BY <1>3, <1>4 DEF Block
    <3> QED
      BY <1>3, <1>4, <1>5, <3>1, <3>2
  <2>2. CASE PushTransaction(c, tx, from, to)
    <3> DEFINE r == [blocks[blk[c]] EXCEPT !.txs = @ \cup {tx}]
    <3>1. blocks' = [blocks EXCEPT ![blk[c]] = r]
      BY <2>2 DEF PushTransaction
    <3>2. r \in Block /\ blocks[blk[c]].txs \subseteq r.txs
      BY <1>3, <1>4 DEF Block
    <3> QED
      BY <1>2, <1>3, <3>1, <3>2 DEF UserTxs
  <2>3. CASE Invalidate(c, from, to)
    <3>1. blocks' = [blocks EXCEPT ![blk[c]] =
                       [blocks[blk[c]] EXCEPT !.validated = FALSE]]
      BY <2>3 DEF Invalidate
    <3>2. [blocks[blk[c]] EXCEPT !.validated = FALSE].txs = blocks[blk[c]].txs
      BY <1>3, <1>4 DEF Block
    <3> QED
      BY <1>3, <1>4, <1>5, <3>1, <3>2
  <2>4. CASE GenerateTimestamp(c, tx, from, to)
    <3> DEFINE r == [blocks[blk[c]] EXCEPT !.stamp = tx]
    <3>1. blocks' = [blocks EXCEPT ![blk[c]] = r]
      BY <2>4 DEF GenerateTimestamp
    <3>2. r \in Block /\ r.txs = blocks[blk[c]].txs
      BY <1>3, <1>4 DEF Block, Stamps
    <3> QED
      BY <1>3, <1>5, <3>1, <3>2
  <2> QED
    BY <1>6, <2>1, <2>2, <2>3, <2>4
<1>7. ASSUME NEW c \in Calls, Begin(c) \/ CallMoves(c)
      PROVE  Kept
  <2>1. CASE AddTransaction(c)
    <3>1. <<"user", c>> \in Tx
      BY DEF Tx
    <3> QED
      BY <1>6, <2>1, <3>1 DEF AddTransaction
  <2>2. CASE Interrupt(c)
    <3>1. blocks' = [blocks EXCEPT ![Tip] =
                       [blocks[Tip] EXCEPT !.mining = FALSE]]
      BY <2>2 DEF Interrupt
    <3>2. [blocks[Tip] EXCEPT !.mining = FALSE].txs = blocks[Tip].txs
      BY <1>3, <1>4 DEF Block
    <3> QED
      BY <1>3, <1>4, <1>5, <3>1, <3>2
  <2>3. CASE Begin(c) \/ AskAutoMining(c) \/ CountPending(c)
    BY <1>1, <2>3 DEF Begin, SubmitTransaction, ReceiveBadTransaction,
                      StartMiningNow, AskAutoMining, CountPending, chainVars, Kept
  <2> QED
    BY <1>7, <2>1, <2>2, <2>3 DEF CallMoves
<1>8. ASSUME NEW c \in Calls, Mine(c)
      PROVE  Kept
  <2>1. CASE AddReward(c)
    <3>1. <<"reward", c>> \in Tx
      BY DEF Tx
    <3> QED
      BY <1>6, <2>1, <3>1 DEF AddReward
  <2>2. CASE SetMining(c) \/ EndMining(c)
    <3>1. PICK f \in BOOLEAN :
            blocks' = [blocks EXCEPT ![blk[c]] =
                         [blocks[blk[c]] EXCEPT !.mining = f]]
      BY <2>2 DEF SetMining, EndMining
    <3> DEFINE r == [blocks[blk[c]] EXCEPT !.mining = f]
    <3>2. r \in Block /\ r.txs = blocks[blk[c]].txs
      BY <1>3, <1>4 DEF Block
    <3> QED
      BY <1>3, <1>5, <3>1, <3>2
  <2>3. CASE SetSagain(c) \/ EndSagain(c)
    <3>1. PICK f \in BOOLEAN :
            blocks' = [blocks EXCEPT ![blk[c]] =
                         [blocks[blk[c]] EXCEPT !.sagain = f]]
      BY <2>3 DEF SetSagain, EndSagain
    <3> DEFINE r == [blocks[blk[c]] EXCEPT !.sagain = f]
    <3>2. r \in Block /\ r.txs = blocks[blk[c]].txs
      BY <1>3, <1>4 DEF Block
    <3> QED
      BY <1>3, <1>5, <3>1, <3>2
  <2>4. CASE CleanBlock(c)
    <3> DEFINE r == [blocks[blk[c]] EXCEPT !.txs = {tx \in @ : ~is_reward(tx)}]
    <3>1. blocks' = [blocks EXCEPT ![blk[c]] = r]
      BY <2>4 DEF CleanBlock
    <3>2. r \in Block /\ r.txs = UserTxs(blocks[blk[c]])
      BY <1>3, <1>4 DEF Block, UserTxs
    <3> QED
      BY <1>2, <1>3, <3>1, <3>2
  <2>5. CASE \/ SpinOnMining(c) \/ SpinAgain(c) \/ LeaveSpin(c)
             \/ StartWorkers(c) \/ JoinWorkers(c) \/ EndCheckMining(c)
             \/ EndHash(c) \/ EndCheckValidated(c)
    BY <1>1, <2>5 DEF SpinOnMining, SpinAgain, LeaveSpin, StartWorkers,
                      JoinWorkers, EndCheckMining, EndCheckValidated, EndHash,
                      chainVars, Kept
  <2> QED
    BY <1>8, <2>1, <2>2, <2>3, <2>4, <2>5 DEF Mine
<1>9. ASSUME NEW c \in Calls, ThreadMoves(c)
      PROVE  Kept
  <2>1. CASE PushBlock(c)
    <3>1. ASSUME blocks' = Append(blocks, PendingBlock(get_hash(get_current_block)))
          PROVE  Kept
      <4>1. PendingBlock(get_hash(get_current_block)) \in Block
        BY <1>3, <1>4, HashType, PendingBlockType DEF get_current_block
      <4>2. \A b \in 1..Len(blocks) : blocks'[b] = blocks[b]
        BY <3>1, <4>1, AppendBlock DEF TypeOK
      <4> QED
        BY <4>2 DEF Kept, UserTxs
    <3> QED
      BY <1>1, <2>1, <3>1 DEF PushBlock, Kept
  <2>2. CASE StartThread(c) \/ Recheck(c) \/ Propagate(c) \/ Seal(c) \/ Save(c)
    BY <1>1, <2>2 DEF StartThread, Recheck, Propagate, Seal, Save, chainVars, Kept
  <2> QED
    BY <1>8, <1>9, <2>1, <2>2 DEF ThreadMoves
<1>10. ASSUME NEW c \in Calls, NEW w \in Workers, WorkerMoves(c, w)
       PROVE  Kept
  <2>1. CASE UNCHANGED blocks
    BY <1>1, <2>1 DEF Kept
  <2>2. ASSUME NEW r, blocks' = [blocks EXCEPT ![blk[c]] = r],
               \/ r = [blocks[blk[c]] EXCEPT !.nonce = found[c][w]]
               \/ r = [blocks[blk[c]] EXCEPT !.header = base[c]]
               \/ r = [blocks[blk[c]] EXCEPT !.validated = TRUE]
        PROVE  Kept
    <3>1. found[c][w] \in Nonce /\ base[c] \in SUBSET Tx
      BY DEF TypeOK
    <3>2. r \in Block /\ r.txs = blocks[blk[c]].txs
      BY <1>3, <1>4, <2>2, <3>1 DEF Block
    <3> QED
      BY <1>3, <1>5, <2>2, <3>2
  <2> QED
    BY <1>10, <2>1, <2>2
    DEF WorkerMoves, LoopMining, LoopValidated, TryNonce, FindNonce, CheckMining,
        CheckValidated, WorkerStep, SetNonce, SetHeader, SetValidated, Publish,
        chainVars
<1>11. ASSUME ToggleAutoMining
       PROVE  Kept
  BY <1>1, <1>11 DEF ToggleAutoMining, chainVars, Kept
<1>12. Kept
  <2>1. CASE UNCHANGED vars
    BY <1>1, <2>1 DEF vars, Kept
  <2>2. CASE Next
    BY <1>7, <1>9, <1>10, <1>11, <2>2 DEF Next
  <2> QED
    BY <2>1, <2>2
<1> QED
  BY <1>12 DEF Kept

\* No step of any interleaving removes from a block a transaction that a caller
\* added to it: clean_block and an aborted miner take away rewards only.
THEOREM TransactionsAlwaysKept == Spec => TransactionsKept
<1>1. TypeOK /\ [Next]_vars =>
        [\A b \in 1..Len(blocks) :
           {tx \in blocks[b].txs : ~is_reward(tx)} \subseteq blocks'[b].txs]_vars
  BY StepKept DEF UserTxs
<1> QED
  BY <1>1, TypeCorrect, PTL DEF Spec, TransactionsKept

=============================================================================
