-------------------------- MODULE MiningSound_proofs --------------------------
(***************************************************************************)
(* What Mining promises of sealed blocks, of the file and of the messages, *)
(* as long as no thread has stepped into one of the unprotected windows,   *)
(* for every number of calls and of workers.                               *)
(*                                                                         *)
(* None of it is inductive: it speaks of blocks that are sealed, and what  *)
(* makes them sound was decided while they were mined.  Sound below adds   *)
(* what every mining thread and its workers have established (Local), how  *)
(* the threads keep out of each other's way (Pair), and where the reward   *)
(* of the pending block comes from.                                        *)
(***************************************************************************)
EXTENDS Mining_proofs, FiniteSetTheorems

-----------------------------------------------------------------------------
(***************************************************************************)
(* The invariant.                                                          *)
(***************************************************************************)
\* A mining thread that has begun to add its reward, has left the spin loop
\* behind, or comes out of mine; a call in the middle of add_transaction.
Inside   == (RewardPcs \ {"rwClear"}) \cup {"setMining", "setSagain"}
AfterPcs == {"recheck"} \cup SealPcs
MidTx    == TxPcs \ {"txClear"}

\* The reward of the thread is in its block.
HeldPcs  == {"rwInvalidate", "rwStamp", "setMining", "setSagain", "header",
             "join", "endMining", "endValidated", "endHash", "clean"}

Won(c)        == \E w \in Workers : wpc[c][w] = "won"
Publishing(c) == \E w \in Workers : wpc[c][w] \in PublishPcs \cup {"won"}
Owns(c)       == pc[c] \in SagainPcs \/ Won(c)
Live(c)       == (pc[c] = "join" /\ blocks[blk[c]].mining) \/ Won(c)
Held(c)       == pc[c] \in HeldPcs \/ Won(c)
Good(c, n)    == is_nonce_valid(base[c], blocks[blk[c]].stamp, n)

\* Workers run while the thread joins them; a thread that seals has a winner.
WorkersInPlace(c) ==
  /\ pc[c] \notin (SagainPcs \ {"header"}) \cup AfterPcs =>
       \A w \in Workers : wpc[c][w] = "off"
  /\ pc[c] # "join" => \A w \in Workers : wpc[c][w] \in {"off", "won", "lost"}
  /\ pc[c] \in SealPcs \cup {"endHash"} => Won(c)
  /\ pc[c] = "clean" => ~Won(c)

\* Mining is of the pending block.
AtTip(c) == pc[c] \in Inside \/ Owns(c) => blk[c] = Tip

\* m_sagain stays set, and m_mining as long as a worker publishes or has won.
FlagsUp(c) ==
  /\ pc[c] \in SagainPcs => blocks[blk[c]].sagain
  /\ Publishing(c) /\ pc[c] \notin {"clearSagain"} \cup AfterPcs =>
       blocks[blk[c]].mining

\* While m_mining is set the block is the one the workers hash.
CopyIsExact(c) == Live(c) => base[c] = blocks[blk[c]].txs

FoundIsGood(c) ==
  pc[c] = "join" /\ blocks[blk[c]].mining =>
    \A w \in Workers :
      /\ wpc[c][w] \in {"checkMining", "checkValidated"} =>
           Good(c, found[c][w]) \/ blocks[blk[c]].validated
      /\ wpc[c][w] \in {"setNonce", "setHeader", "setValidated"} =>
           Good(c, found[c][w])

PublishedIsGood(c) ==
  Live(c) =>
    \A w \in Workers :
      /\ wpc[c][w] \in {"setHeader", "setValidated", "won"} =>
           Good(c, blocks[blk[c]].nonce)
      /\ wpc[c][w] \in {"setValidated", "won"} => blocks[blk[c]].header = base[c]

\* The block is valid when, and only when, a worker has won.
ValidIsWon(c) ==
  pc[c] \in {"rwStamp", "setMining", "setSagain"} \/ Owns(c) =>
    (blocks[blk[c]].validated <=> Won(c))

OneReward(c) == Held(c) => Rewards(blk[c]) = {<<"reward", c>>}

Local(c) ==
  /\ WorkersInPlace(c) /\ AtTip(c) /\ FlagsUp(c) /\ CopyIsExact(c)
  /\ FoundIsGood(c) /\ PublishedIsGood(c) /\ ValidIsWon(c) /\ OneReward(c)

\* A thread that owns its block is alone; another may have left the spin loop,
\* but not stored anything, once the owner has cleared m_sagain.
Alone(c, d) ==
  Owns(c) => /\ pc[d] \notin Inside
             /\ ~Owns(d)
             /\ pc[c] \in SagainPcs => pc[d] # "rwClear"

\* No call is in the middle of adding to a block whose miner relies on it.
NotDisturbed(c, d) ==
  pc[d] \in MidTx =>
    /\ ~Fragile(c, blk[d])
    /\ ~(pc[c] = "join" /\ blocks[blk[c]].mining)

Pair(c, d) == c # d /\ blk[c] = blk[d] => Alone(c, d) /\ NotDisturbed(c, d)

SealedAreSound == \A b \in 1..(Len(blocks) - 1) : SoundBlock(b)

RewardIsHeld ==
  Rewards(Tip) # {} => \E c \in Calls : blk[c] = Tip /\ Held(c)

\* The file is ahead of the chain between save and the next push_back.
Saved == 1..(IF \E c \in Calls : pc[c] = "push" THEN Len(blocks)
                                                ELSE Len(blocks) - 1)

FileIs == file = {Dump(b) : b \in Saved}

WireIs ==
  /\ \A d \in wire : Reloads(d)
  /\ \A b \in 2..(Len(blocks) - 1) : Dump(b) \in wire
  /\ (\E c \in Calls : pc[c] \in {"seal", "save", "push"}) => Dump(Tip) \in wire

Sound ==
  /\ fault = "none"
  /\ \A c \in Calls : Local(c)
  /\ \A c, d \in Calls : Pair(c, d)
  /\ SealedAreSound
  /\ RewardIsHeld
  /\ FileIs
  /\ WireIs

SoundInv == TypeOK /\ (~raced => Sound)

-----------------------------------------------------------------------------
(***************************************************************************)
(* What follows from it, and what a step leaves alone.                     *)
(***************************************************************************)
LEMMA HeldBusy ==
  ASSUME NEW c \in Calls, Held(c)
  PROVE  pc[c] \in Inside \/ Owns(c)
  BY DEF Held, Owns, HeldPcs, Inside, SagainPcs, FlagPcs, EndPcs, RewardPcs

\* Fragile, in the terms of the invariant.
LEMMA FragileIs ==
  ASSUME NEW c \in Calls, WorkersInPlace(c)
  PROVE  Fragile(c, blk[c]) <=>
           \/ pc[c] \in Inside \cup {"rwClear", "header"}
           \/ Publishing(c)
<1>1. ASSUME Publishing(c)
      PROVE  pc[c] \in EndPcs \cup SealPcs
                       \cup {"join", "clearMining", "clearSagain", "recheck"}
  BY <1>1 DEF WorkersInPlace, Publishing, PublishPcs, SagainPcs, FlagPcs, AfterPcs
<1> QED
  BY <1>1 DEF Fragile, Publishing, Inside, RewardPcs

LEMMA WonPublishes ==
  ASSUME NEW c \in Calls, Won(c)
  PROVE  Publishing(c)
  BY DEF Won, Publishing

\* The thread that takes the step is the only one that changes.
OthersKept(c) ==
  \A d \in Calls \ {c} :
    /\ pc'[d] = pc[d] /\ blk'[d] = blk[d] /\ base'[d] = base[d]
    /\ wpc'[d] = wpc[d] /\ found'[d] = found[d]

\* Only block i is stored to.
Stored(i) ==
  /\ Len(blocks') = Len(blocks)
  /\ \A b \in 1..Len(blocks) : b # i => blocks'[b] = blocks[b]
  /\ blocks'[i].previous = blocks[i].previous

-----------------------------------------------------------------------------
(***************************************************************************)
(* What the others have established survives a step of c.                  *)
(***************************************************************************)
Busy(d) == pc[d] \in Inside \/ Owns(d)

LEMMA LocalSame ==
  ASSUME NEW c \in Calls, NEW d \in Calls \ {c}, OthersKept(c), Local(d),
         blocks'[blk[d]] = blocks[blk[d]], Len(blocks') = Len(blocks)
  PROVE  Local(d)'
<1>1. /\ pc'[d] = pc[d] /\ blk'[d] = blk[d] /\ base'[d] = base[d]
      /\ wpc'[d] = wpc[d] /\ found'[d] = found[d]
  BY DEF OthersKept
<1>2. /\ WorkersInPlace(d)' /\ AtTip(d)'
  BY <1>1 DEF Local, WorkersInPlace, AtTip, Won, Owns, Tip
<1>3. FlagsUp(d)' /\ CopyIsExact(d)'
  BY <1>1 DEF Local, FlagsUp, CopyIsExact, Live, Won, Publishing
<1>4. FoundIsGood(d)' /\ PublishedIsGood(d)'
  BY <1>1 DEF Local, FoundIsGood, PublishedIsGood, Live, Won, Good
<1>5. ValidIsWon(d)' /\ OneReward(d)'
  BY <1>1 DEF Local, ValidIsWon, OneReward, Owns, Won, Held, Rewards
<1> QED
  BY <1>2, <1>3, <1>4, <1>5 DEF Local

\* A thread that is not busy relies on nothing in its block.
LEMMA LocalIdle ==
  ASSUME NEW c \in Calls, NEW d \in Calls \ {c}, OthersKept(c), Local(d), ~Busy(d)
  PROVE  Local(d)'
<1>1. /\ pc'[d] = pc[d] /\ blk'[d] = blk[d] /\ base'[d] = base[d]
      /\ wpc'[d] = wpc[d] /\ found'[d] = found[d]
  BY DEF OthersKept
<1>2. /\ pc'[d] \notin Inside \cup SagainPcs \cup HeldPcs /\ ~Won(d)'
      /\ pc'[d] # "join"
  BY <1>1, HeldBusy
  DEF Busy, Owns, Won, Held, SagainPcs, FlagPcs
<1>3. WorkersInPlace(d)'
  BY <1>1 DEF Local, WorkersInPlace, Won
<1>4. ~Publishing(d)' \/ pc'[d] \in AfterPcs
  BY <1>2, <1>3 DEF WorkersInPlace, Publishing, PublishPcs, Won
<1>5. AtTip(d)' /\ FlagsUp(d)' /\ CopyIsExact(d)' /\ FoundIsGood(d)'
      /\ PublishedIsGood(d)'
  BY <1>2, <1>4 DEF AtTip, FlagsUp, CopyIsExact, FoundIsGood, PublishedIsGood,
     Live, Owns
<1>6. ValidIsWon(d)' /\ OneReward(d)'
  BY <1>2 DEF ValidIsWon, OneReward, Held, Owns, Inside, RewardPcs
<1> QED
  BY <1>3, <1>5, <1>6 DEF Local

\* A store of add_transaction or interrupt to the block of a thread that is not
\* fragile, and whose block is the same as long as it is being mined.
LEMMA LocalCallerStore ==
  ASSUME NEW c \in Calls, NEW d \in Calls \ {c}, OthersKept(c), Local(d),
         ~Fragile(d, blk[d]), Len(blocks') = Len(blocks),
         blocks'[blk[d]].sagain = blocks[blk[d]].sagain,
         blocks'[blk[d]].validated => blocks[blk[d]].validated,
         Rewards(blk[d])' = Rewards(blk[d]),
         blocks'[blk[d]].mining /\ pc[d] = "join" =>
           blocks'[blk[d]] = blocks[blk[d]]
  PROVE  Local(d)'
<1>1. /\ pc'[d] = pc[d] /\ blk'[d] = blk[d] /\ base'[d] = base[d]
      /\ wpc'[d] = wpc[d] /\ found'[d] = found[d]
  BY DEF OthersKept
<1>2. /\ pc[d] \notin Inside \cup {"header"} /\ ~Publishing(d) /\ ~Won(d)
  BY FragileIs, WonPublishes DEF Local
<1>3. ~Publishing(d)' /\ ~Won(d)'
  BY <1>1, <1>2 DEF Publishing, Won
<1>4. WorkersInPlace(d)' /\ AtTip(d)'
  BY <1>1 DEF Local, WorkersInPlace, AtTip, Won, Owns, Tip
<1>5. FlagsUp(d)'
  BY <1>1, <1>3 DEF Local, FlagsUp
<1>6. CASE blocks'[blk[d]].mining /\ pc[d] = "join"
  BY <1>6, LocalSame
<1>7. CASE ~(blocks'[blk[d]].mining /\ pc[d] = "join")
  <2>1. CopyIsExact(d)' /\ FoundIsGood(d)' /\ PublishedIsGood(d)'
    BY <1>1, <1>3, <1>7 DEF CopyIsExact, FoundIsGood, PublishedIsGood, Live
  <2>2. ValidIsWon(d)'
    BY <1>1, <1>2, <1>3 DEF Local, ValidIsWon, Owns, Inside, RewardPcs
  <2>3. OneReward(d)'
    BY <1>1, <1>2, <1>3 DEF Local, OneReward, Held
  <2> QED
    BY <1>4, <1>5, <2>1, <2>2, <2>3 DEF Local
<1> QED
  BY <1>6, <1>7

\* Two threads that do not move, when m_mining of a block with workers is not set.
LEMMA PairKept ==
  ASSUME NEW c \in Calls, NEW d \in Calls \ {c}, NEW e \in Calls \ {c},
         OthersKept(c), Pair(d, e),
         pc[d] = "join" /\ blocks'[blk[d]].mining => blocks[blk[d]].mining
  PROVE  Pair(d, e)'
<1>1. /\ pc'[d] = pc[d] /\ blk'[d] = blk[d] /\ wpc'[d] = wpc[d]
      /\ pc'[e] = pc[e] /\ blk'[e] = blk[e] /\ wpc'[e] = wpc[e]
  BY DEF OthersKept
<1>2. Alone(d, e) => Alone(d, e)'
  BY <1>1 DEF Alone, Owns, Won
<1>3. NotDisturbed(d, e) => NotDisturbed(d, e)'
  BY <1>1 DEF NotDisturbed, Fragile
<1> QED
  BY <1>1, <1>2, <1>3 DEF Pair

-----------------------------------------------------------------------------
(***************************************************************************)
(* The sealed blocks, the file and the messages.                           *)
(***************************************************************************)
LEMMA SameDump ==
  ASSUME NEW b, blocks'[b] = blocks[b]
  PROVE  Dump(b)' = Dump(b) /\ Rewards(b)' = Rewards(b) /\ Solved(b)' = Solved(b)
  BY DEF Dump, Rewards, Solved

LEMMA SealedKept ==
  ASSUME TypeOK, SealedAreSound, Stored(Tip)
  PROVE  SealedAreSound'
<1> SUFFICES ASSUME NEW b \in 1..(Len(blocks) - 1)
             PROVE  SoundBlock(b)'
  BY DEF SealedAreSound, Stored
<1>1. /\ Len(blocks) \in Nat /\ b \in 1..Len(blocks) /\ b # Tip
      /\ b + 1 \in 1..Len(blocks) /\ SoundBlock(b)
  BY DEF TypeOK, Tip, SealedAreSound
<1>2. /\ blocks'[b] = blocks[b]
      /\ blocks'[b + 1].previous = blocks[b + 1].previous
  BY <1>1 DEF Stored
<1>3. Rewards(b)' = Rewards(b) /\ Solved(b)' = Solved(b)
  BY <1>2, SameDump
<1> QED
  BY <1>1, <1>2, <1>3 DEF SoundBlock

LEMMA GlobalStore ==
  ASSUME TypeOK, SealedAreSound, FileIs, WireIs, Stored(Tip), UNCHANGED <<file, wire>>,
         \A e \in Calls : pc[e] \notin SealPcs /\ pc'[e] \notin SealPcs
  PROVE  SealedAreSound' /\ FileIs' /\ WireIs'
<1>1. Len(blocks) \in Nat /\ Len(blocks') = Len(blocks)
  BY DEF TypeOK, Stored
<1>2. \A b \in 1..(Len(blocks) - 1) : Dump(b)' = Dump(b)
  BY <1>1, SameDump DEF Stored, Tip
<1>3. Saved = 1..(Len(blocks) - 1) /\ Saved' = 1..(Len(blocks) - 1)
  BY <1>1 DEF Saved, SealPcs
<1>4. FileIs'
  BY <1>2, <1>3 DEF FileIs
<1>5. \A b \in 2..(Len(blocks) - 1) : Dump(b)' \in wire
  BY <1>1, <1>2 DEF WireIs
<1>6. WireIs'
  BY <1>1, <1>5 DEF WireIs, SealPcs, Reloads, is_nonce_valid, fill_block_hash
<1> QED
  BY <1>4, <1>6, SealedKept

LEMMA GlobalRead ==
  ASSUME SealedAreSound, FileIs, WireIs, UNCHANGED <<blocks, file, wire>>,
         (\E e \in Calls : pc[e] = "push") <=> (\E e \in Calls : pc'[e] = "push"),
         (\E e \in Calls : pc'[e] \in {"seal", "save", "push"}) =>
           \E e \in Calls : pc[e] \in {"seal", "save", "push"}
  PROVE  SealedAreSound' /\ FileIs' /\ WireIs'
<1>1. \A b : Dump(b)' = Dump(b) /\ Rewards(b)' = Rewards(b) /\ Solved(b)' = Solved(b)
  BY SameDump
<1>2. SealedAreSound'
  BY <1>1 DEF SealedAreSound, SoundBlock
<1>3. Saved' = Saved
  BY DEF Saved
<1>4. FileIs'
  BY <1>1, <1>3 DEF FileIs
<1>5. WireIs'
  BY <1>1 DEF WireIs, Reloads, is_nonce_valid, fill_block_hash, Tip
<1> QED
  BY <1>2, <1>4, <1>5

\* A thread that seals has won, on the pending block.
LEMMA SealersWon ==
  ASSUME NEW e \in Calls, Local(e), pc[e] \in SealPcs
  PROVE  Won(e) /\ Owns(e) /\ blk[e] = Tip /\ Fragile(e, Tip)
<1>1. Won(e) /\ Owns(e) /\ blk[e] = Tip
  BY DEF Local, WorkersInPlace, AtTip, Owns
<1> QED
  BY <1>1, FragileIs, WonPublishes DEF Local

LEMMA NobodySeals ==
  ASSUME NEW c \in Calls, \A d \in Calls : Local(d), pc[c] \notin SealPcs,
         ~OnFragile(c, Tip)
  PROVE  \A e \in Calls : pc[e] \notin SealPcs
  BY SealersWon DEF OnFragile

-----------------------------------------------------------------------------
(***************************************************************************)
(* Putting a step of c together.                                           *)
(***************************************************************************)
LEMMA Assemble ==
  ASSUME NEW c \in Calls, fault' = "none", Local(c)',
         \A d \in Calls \ {c} : Local(d)' /\ Pair(c, d)' /\ Pair(d, c)',
         \A d, e \in Calls \ {c} : Pair(d, e)',
         SealedAreSound', RewardIsHeld', FileIs', WireIs'
  PROVE  Sound'
<1>1. \A d \in Calls : Local(d)'
  OBVIOUS
<1>2. Pair(c, c)'
  BY DEF Pair
<1>3. \A d, e \in Calls : Pair(d, e)'
  BY <1>2
<1> QED
  BY <1>1, <1>3 DEF Sound

LEMMA RewardKept ==
  ASSUME NEW c \in Calls, OthersKept(c), RewardIsHeld, Len(blocks') = Len(blocks),
         Rewards(Tip)' \subseteq Rewards(Tip),
         Held(c) => Held(c)' /\ blk'[c] = blk[c]
  PROVE  RewardIsHeld'
<1> SUFFICES ASSUME Rewards(Tip)' # {}
             PROVE  \E d \in Calls : blk'[d] = Tip' /\ Held(d)'
  BY DEF RewardIsHeld
<1>1. PICK d \in Calls : blk[d] = Tip /\ Held(d)
  BY DEF RewardIsHeld
<1>2. Tip' = Tip
  BY DEF Tip
<1>3. CASE d = c
  BY <1>1, <1>2, <1>3
<1>4. CASE d # c
  <2>1. Held(d)' /\ blk'[d] = blk[d]
    BY <1>1, <1>4 DEF OthersKept, Held, Won
  <2> QED
    BY <1>1, <1>2, <2>1
<1> QED
  BY <1>3, <1>4

\* Where a call or a mining thread relies on nothing.
AwayPcs == {"idle", "txClear", "ask", "count", "interrupt", "spawned", "gateMining",
            "gateSagain", "done"}
IdlePcs == AwayPcs \cup MidTx

LEMMA IdlePcsApart ==
  ASSUME NEW p \in IdlePcs \cup {"rwClear"}
  PROVE  /\ p \notin Inside \cup SagainPcs \cup HeldPcs \cup AfterPcs \cup SealPcs
         /\ p \notin {"join", "rwStamp", "setMining", "setSagain", "endHash", "clean"}
         /\ p \in RewardPcs => p = "rwClear"
  BY DEF IdlePcs, AwayPcs, MidTx, TxPcs, Inside, RewardPcs, SagainPcs, FlagPcs, EndPcs,
     HeldPcs, AfterPcs, SealPcs

LEMMA IdleNow ==
  ASSUME NEW c \in Calls, pc[c] \in IdlePcs \cup {"rwClear"}, Local(c)
  PROVE  /\ \A w \in Workers : wpc[c][w] = "off"
         /\ ~Owns(c) /\ ~Held(c) /\ ~Publishing(c)
         /\ pc[c] \notin Inside \cup SealPcs
  BY IdlePcsApart
  DEF Local, WorkersInPlace, Owns, Held, Won, Publishing, PublishPcs

LEMMA IdleNext ==
  ASSUME NEW c \in Calls, pc'[c] \in IdlePcs \cup {"rwClear"},
         \A w \in Workers : wpc'[c][w] = "off"
  PROVE  /\ Local(c)' /\ ~Owns(c)' /\ pc'[c] \notin Inside \cup SealPcs
         /\ pc'[c] # "rwClear" => \A b : ~Fragile(c, b)'
<1>1. /\ pc'[c] \notin Inside \cup SagainPcs \cup HeldPcs \cup AfterPcs \cup SealPcs
      /\ pc'[c] \notin {"join", "rwStamp", "setMining", "setSagain", "endHash", "clean"}
      /\ pc'[c] \in RewardPcs => pc'[c] = "rwClear"
  BY IdlePcsApart
<1>2. ~Won(c)' /\ ~Publishing(c)'
  BY DEF Won, Publishing, PublishPcs
<1>3. WorkersInPlace(c)' /\ AtTip(c)' /\ FlagsUp(c)'
  BY <1>1, <1>2 DEF WorkersInPlace, AtTip, FlagsUp, Owns
<1>4. CopyIsExact(c)' /\ FoundIsGood(c)' /\ PublishedIsGood(c)' /\ ValidIsWon(c)'
      /\ OneReward(c)'
  BY <1>1, <1>2 DEF CopyIsExact, FoundIsGood, PublishedIsGood, ValidIsWon, OneReward,
     Live, Owns, Held
<1>5. pc'[c] # "rwClear" => \A b : ~Fragile(c, b)'
  BY <1>1, <1>2 DEF Fragile, Publishing, SagainPcs, FlagPcs
<1> QED
  BY <1>1, <1>2, <1>3, <1>4, <1>5 DEF Local, Owns

\* A thread that relies on nothing is no one's concern.
LEMMA IdlePairs ==
  ASSUME NEW c \in Calls, NEW d \in Calls, pc'[c] \in IdlePcs,
         \A w \in Workers : wpc'[c][w] = "off"
  PROVE  Pair(c, d)'
<1>1. pc'[c] # "join" /\ pc'[c] # "rwClear"
  BY DEF IdlePcs, AwayPcs, MidTx, TxPcs
<1>2. ~Owns(c)' /\ (\A b : ~Fragile(c, b)')
  BY <1>1, IdleNext
<1> QED
  BY <1>1, <1>2 DEF Pair, Alone, NotDisturbed

LEMMA AwayPairs ==
  ASSUME NEW c \in Calls, NEW d \in Calls, pc'[c] \in AwayPcs,
         \A w \in Workers : wpc'[c][w] = "off"
  PROVE  Pair(d, c)'
<1>1. pc'[c] \notin MidTx \cup {"rwClear"} /\ pc'[c] \in IdlePcs
  BY DEF IdlePcs, AwayPcs, MidTx, TxPcs
<1>2. ~Owns(c)' /\ pc'[c] \notin Inside
  BY <1>1, IdleNext
<1> QED
  BY <1>1, <1>2 DEF Pair, Alone, NotDisturbed

-----------------------------------------------------------------------------
(***************************************************************************)
(* The calls, up to the mining thread, and the spin loop.                  *)
(***************************************************************************)
LEMMA AwayStep ==
  ASSUME Sound, NEW c \in Calls, OthersKept(c), ~Held(c), pc[c] \notin SealPcs,
         pc'[c] \in AwayPcs, \A w \in Workers : wpc'[c][w] = "off",
         UNCHANGED <<blocks, file, wire, fault>>
  PROVE  Sound'
<1>1. pc'[c] \in IdlePcs /\ pc'[c] \notin {"seal", "save", "push"}
  BY DEF IdlePcs, AwayPcs
<1>2. Local(c)' /\ \A d \in Calls : Pair(c, d)' /\ Pair(d, c)'
  BY <1>1, IdleNext, IdlePairs, AwayPairs
<1>3. \A d \in Calls \ {c} : Local(d)'
  BY LocalSame DEF Sound
<1>4. \A d, e \in Calls \ {c} : Pair(d, e)'
  BY PairKept DEF Sound
<1>5. RewardIsHeld'
  BY RewardKept DEF Sound, Rewards, Tip
<1>6. SealedAreSound' /\ FileIs' /\ WireIs'
  <2>1. pc[c] \notin {"seal", "save", "push"}
    BY DEF SealPcs
  <2>2. \A e \in Calls, p \in {"seal", "save", "push"} : pc'[e] = p <=> pc[e] = p
    BY <1>1, <2>1 DEF OthersKept
  <2>3. /\ (\E e \in Calls : pc[e] = "push") <=> (\E e \in Calls : pc'[e] = "push")
        /\ (\E e \in Calls : pc'[e] \in {"seal", "save", "push"}) =>
             \E e \in Calls : pc[e] \in {"seal", "save", "push"}
    BY <2>2
  <2> QED
    BY <2>3, GlobalRead DEF Sound
<1> QED
  BY <1>2, <1>3, <1>4, <1>5, <1>6, Assemble DEF Sound

LEMMA BeginSound ==
  ASSUME TypeOK, Sound, NEW c \in Calls,
         \/ Begin(c) \/ AskAutoMining(c) \/ CountPending(c)
         \/ StartThread(c) \/ SpinOnMining(c) \/ SpinAgain(c)
  PROVE  Sound'
<1> USE DEF Begin, SubmitTransaction, ReceiveBadTransaction, StartMiningNow,
        AskAutoMining, CountPending, StartThread, SpinOnMining, SpinAgain
<1>1. pc[c] \in AwayPcs /\ pc'[c] \in AwayPcs
  BY DEF Go, At, AwayPcs, TypeOK
<1>2. OthersKept(c)
  BY DEF OthersKept, Go, At, TypeOK, chainVars, workerVars
<1>3. UNCHANGED <<blocks, file, wire, fault, wpc>>
  BY DEF chainVars, workerVars
<1>4. /\ \A w \in Workers : wpc[c][w] = "off"
      /\ ~Held(c) /\ pc[c] \notin SealPcs
  BY <1>1, IdleNow DEF Sound, IdlePcs
<1> QED
  BY <1>1, <1>2, <1>3, <1>4, AwayStep

LEMMA LeaveSpinSound ==
  ASSUME TypeOK, Sound, NEW c \in Calls, LeaveSpin(c), ~raced'
  PROVE  Sound'
<1>1. /\ pc[c] = "gateSagain" /\ pc'[c] = "rwClear"
      /\ ~blocks[blk[c]].sagain /\ blk'[c] = blk[c]
  BY DEF LeaveSpin, Go, At, TypeOK
<1>2. OthersKept(c)
  BY DEF LeaveSpin, OthersKept, Go, At, TypeOK, chainVars, workerVars
<1>3. UNCHANGED <<blocks, file, wire, fault, wpc>>
  BY DEF LeaveSpin, chainVars, workerVars
<1>4. /\ \A w \in Workers : wpc[c][w] = "off"
      /\ ~Held(c) /\ pc[c] \notin SealPcs
  BY <1>1, IdleNow DEF Sound, IdlePcs, AwayPcs
<1>5. Local(c)' /\ ~Owns(c)' /\ pc'[c] \notin Inside
  BY <1>1, <1>3, <1>4, IdleNext
<1>6. ASSUME NEW d \in Calls \ {c}
      PROVE  Pair(c, d)' /\ Pair(d, c)'
  <2>1. pc'[d] = pc[d] /\ blk'[d] = blk[d] /\ wpc'[d] = wpc[d]
    BY <1>2 DEF OthersKept
  <2>2. ASSUME blk[c] = blk[d]
        PROVE  pc[d] \notin MidTx /\ pc[d] \notin SagainPcs
    <3>1. pc[d] \notin MidTx
      BY <2>2 DEF LeaveSpin, MidTx
    <3>2. pc[d] \notin SagainPcs
      BY <1>1, <2>2 DEF Sound, Local, FlagsUp
    <3> QED
      BY <3>1, <3>2
  <2>3. Pair(c, d)'
    BY <1>1, <1>5, <2>1, <2>2 DEF Pair, Alone, NotDisturbed
  <2>4. Pair(d, c)'
    BY <1>1, <1>5, <2>1, <2>2 DEF Pair, Alone, NotDisturbed, MidTx, TxPcs
  <2> QED
    BY <2>3, <2>4
<1>7. \A d \in Calls \ {c} : Local(d)'
  BY <1>2, <1>3, LocalSame DEF Sound
<1>8. \A d, e \in Calls \ {c} : Pair(d, e)'
  BY <1>2, <1>3, PairKept DEF Sound
<1>9. RewardIsHeld'
  BY <1>2, <1>3, <1>4, RewardKept DEF Sound, Rewards, Tip
<1>10. SealedAreSound' /\ FileIs' /\ WireIs'
  <2>1. \A e \in Calls, p \in {"seal", "save", "push"} : pc'[e] = p <=> pc[e] = p
    BY <1>1, <1>2 DEF OthersKept
  <2>2. /\ (\E e \in Calls : pc[e] = "push") <=> (\E e \in Calls : pc'[e] = "push")
        /\ (\E e \in Calls : pc'[e] \in {"seal", "save", "push"}) =>
             \E e \in Calls : pc[e] \in {"seal", "save", "push"}
    BY <2>1
  <2> QED
    BY <1>3, <2>2, GlobalRead DEF Sound
<1> QED
  BY <1>3, <1>5, <1>6, <1>7, <1>8, <1>9, <1>10, Assemble DEF Sound

-----------------------------------------------------------------------------
(***************************************************************************)
(* The stores of add_transaction and of interrupt.                         *)
(***************************************************************************)
LEMMA StoreEffect ==
  ASSUME TypeOK, NEW i \in 1..Len(blocks), NEW r \in Block,
         r.previous = blocks[i].previous, blocks' = [blocks EXCEPT ![i] = r]
  PROVE  Stored(i) /\ blocks'[i] = r
<1>1. blocks \in Seq(Block)
  BY DEF TypeOK
<1> QED
  BY <1>1, WriteBlock DEF Stored

\* What a store of the transactions to the pending block must leave to others.
LEMMA CallerStep ==
  ASSUME TypeOK, Sound, NEW c \in Calls, OthersKept(c), ~OnFragile(c, Tip),
         pc[c] \in IdlePcs, pc'[c] \in IdlePcs, blk'[c] = blk[c],
         UNCHANGED <<file, wire, fault, wpc>>, Stored(Tip),
         blocks'[Tip].sagain = blocks[Tip].sagain,
         blocks'[Tip].validated => blocks[Tip].validated,
         blocks'[Tip].mining => blocks[Tip].mining /\ pc[c] \in MidTx,
         pc[c] \in MidTx \/ pc'[c] \in MidTx => blk[c] = Tip,
         Rewards(Tip)' = Rewards(Tip)
  PROVE  Sound'
<1>1. /\ \A w \in Workers : wpc[c][w] = "off"
      /\ ~Held(c) /\ pc[c] \notin SealPcs
  BY IdleNow DEF Sound
<1>2. Local(c)' /\ ~Owns(c)' /\ pc'[c] \notin Inside \cup SealPcs
  BY <1>1, IdleNext
<1>3. /\ pc[c] # "rwClear" /\ pc'[c] # "rwClear" /\ Len(blocks') = Len(blocks)
  BY DEF IdlePcs, AwayPcs, MidTx, TxPcs, Stored
<1>4. ASSUME NEW d \in Calls \ {c}
      PROVE  /\ blk[d] # Tip => blocks'[blk[d]] = blocks[blk[d]]
             /\ blk[d] = Tip => /\ ~Fragile(d, blk[d])
                                /\ ~(pc[d] = "join" /\ blocks'[Tip].mining)
  <2>1. blk[d] \in 1..Len(blocks)
    BY DEF TypeOK
  <2>2. ASSUME blk[d] = Tip, pc[d] = "join", blocks'[Tip].mining
        PROVE  FALSE
    <3>1. Pair(d, c)
      BY DEF Sound
    <3>2. pc[c] \in MidTx /\ blocks[Tip].mining /\ blk[c] = Tip
      BY <2>2
    <3> QED
      BY <2>2, <3>1, <3>2 DEF Pair, NotDisturbed
  <2> QED
    BY <2>1, <2>2 DEF Stored, OnFragile
<1>5. ASSUME NEW d \in Calls \ {c}
      PROVE  Local(d)' /\ Pair(c, d)' /\ Pair(d, c)'
  <2>1. Local(d)'
    <3>1. CASE blk[d] = Tip
      <4>1. Rewards(blk[d])' = Rewards(blk[d])
        BY <1>3, <3>1 DEF Rewards, Tip, OthersKept
      <4>2. /\ Local(d) /\ ~Fragile(d, blk[d])
            /\ blocks'[blk[d]].sagain = blocks[blk[d]].sagain
            /\ blocks'[blk[d]].validated => blocks[blk[d]].validated
            /\ ~(pc[d] = "join" /\ blocks'[blk[d]].mining)
        BY <1>4, <3>1 DEF Sound
      <4> QED
        BY <1>3, <4>1, <4>2, LocalCallerStore
    <3>2. CASE blk[d] # Tip
      BY <1>3, <1>4, <3>2, LocalSame DEF Sound
    <3> QED
      BY <3>1, <3>2
  <2>2. Pair(c, d)'
    BY <1>1, IdlePairs
  <2>3. Pair(d, c)'
    <3>1. pc'[d] = pc[d] /\ blk'[d] = blk[d] /\ wpc'[d] = wpc[d]
      BY DEF OthersKept
    <3>2. Alone(d, c)'
      BY <1>2, <1>3 DEF Alone
    <3>3. blk'[d] = blk'[c] => NotDisturbed(d, c)'
      <4> SUFFICES ASSUME blk[d] = Tip, blk[c] = Tip
                   PROVE  NotDisturbed(d, c)'
        BY <1>3, <3>1 DEF NotDisturbed
      <4>1. ~Fragile(d, Tip)' /\ Tip' = Tip
        BY <1>3, <1>4, <3>1 DEF Fragile, Tip
      <4> QED
        BY <1>4, <3>1, <4>1 DEF NotDisturbed, Tip
    <3> QED
      BY <3>2, <3>3 DEF Pair
  <2> QED
    BY <2>1, <2>2, <2>3
<1>6. \A d, e \in Calls \ {c} : Pair(d, e)'
  BY <1>4, PairKept DEF Sound
<1>7. RewardIsHeld'
  BY <1>1, <1>3, RewardKept DEF Sound
<1>8. SealedAreSound' /\ FileIs' /\ WireIs'
  <2>1. \A e \in Calls : pc[e] \notin SealPcs
    BY <1>1, NobodySeals DEF Sound
  <2>2. \A e \in Calls : pc'[e] \notin SealPcs
    BY <1>2, <2>1 DEF OthersKept
  <2> QED
    BY <2>1, <2>2, GlobalStore DEF Sound
<1> QED
  BY <1>2, <1>5, <1>6, <1>7, <1>8, Assemble DEF Sound

\* What the four stores of add_transaction have in common outside of the windows.
LEMMA AddEffect ==
  ASSUME TypeOK, NEW c \in Calls, NEW from, NEW to, NEW tx \in Tx, ~raced',
         \/ ClearMining(c, from, to) \/ PushTransaction(c, tx, from, to)
         \/ Invalidate(c, from, to)  \/ GenerateTimestamp(c, tx, from, to)
  PROVE  /\ pc[c] = from /\ pc'[c] = to /\ blk[c] = Tip /\ blk'[c] = blk[c]
         /\ OthersKept(c) /\ ~OnFragile(c, Tip)
         /\ UNCHANGED <<file, wire, fault, wpc, base>>
<1> USE DEF ClearMining, PushTransaction, Invalidate, GenerateTimestamp
<1>1. pc[c] = from /\ pc'[c] = to
  BY DEF Go, At, TypeOK
<1>2. blk[c] = Tip /\ ~OnFragile(c, Tip)
  BY DEF Trespass
<1>3. OthersKept(c)
  BY DEF OthersKept, Go, At, TypeOK, workerVars
<1> QED
  BY <1>1, <1>2, <1>3 DEF workerVars

\* What each of them stores.
LEMMA AddStores ==
  ASSUME TypeOK, NEW c \in Calls, NEW from, NEW to, NEW tx \in Tx, blk[c] = Tip,
         NEW r \in Block,
         \/ /\ ClearMining(c, from, to)
            /\ r = [blocks[Tip] EXCEPT !.mining = FALSE]
         \/ /\ PushTransaction(c, tx, from, to)
            /\ r = [blocks[Tip] EXCEPT !.txs = @ \cup {tx}]
         \/ /\ Invalidate(c, from, to)
            /\ r = [blocks[Tip] EXCEPT !.validated = FALSE]
         \/ /\ GenerateTimestamp(c, tx, from, to)
            /\ r = [blocks[Tip] EXCEPT !.stamp = tx]
  PROVE  Stored(Tip) /\ blocks'[Tip] = r /\ Len(blocks') = Len(blocks)
<1>1. Tip \in 1..Len(blocks) /\ blocks[Tip] \in Block
  BY DEF TypeOK, Tip
<1>2. r.previous = blocks[Tip].previous
  BY <1>1 DEF Block
<1>3. blocks' = [blocks EXCEPT ![Tip] = r]
  BY DEF ClearMining, PushTransaction, Invalidate, GenerateTimestamp
<1> QED
  BY <1>1, <1>2, <1>3, StoreEffect DEF Stored

LEMMA TransactionSound ==
  ASSUME TypeOK, Sound, NEW c \in Calls, AddTransaction(c), ~raced'
  PROVE  Sound'
<1> DEFINE tx == <<"user", c>>
           b  == blocks[Tip]
<1>1. tx \in Tx /\ tx \in Stamps /\ ~is_reward(tx) /\ b \in Block
  BY DEF Tx, Stamps, is_reward, TypeOK, Tip
<1>2. {"txClear", "txPush", "txInvalidate", "txStamp", "ask"} \subseteq IdlePcs
      /\ {"txPush", "txInvalidate", "txStamp"} \subseteq MidTx
  BY DEF IdlePcs, AwayPcs, MidTx, TxPcs
<1>3. PICK from \in IdlePcs, to \in IdlePcs :
        \/ ClearMining(c, from, to)
        \/ from \in MidTx /\ PushTransaction(c, tx, from, to)
        \/ from \in MidTx /\ Invalidate(c, from, to)
        \/ from \in MidTx /\ GenerateTimestamp(c, tx, from, to)
  BY <1>2 DEF AddTransaction
<1>4. /\ pc[c] = from /\ pc'[c] = to /\ blk[c] = Tip /\ blk'[c] = blk[c]
      /\ OthersKept(c) /\ ~OnFragile(c, Tip)
      /\ UNCHANGED <<file, wire, fault, wpc, base>>
  BY <1>1, <1>3, AddEffect
<1>5. PICK r \in Block :
        /\ Stored(Tip) /\ blocks'[Tip] = r /\ Len(blocks') = Len(blocks)
        /\ r.sagain = b.sagain
        /\ r.validated => b.validated
        /\ r.mining => b.mining /\ pc[c] \in MidTx
        /\ {t \in r.txs : is_reward(t)} = {t \in b.txs : is_reward(t)}
  <2>1. CASE ClearMining(c, from, to)
    <3> DEFINE r == [b EXCEPT !.mining = FALSE]
    <3>1. /\ r \in Block /\ r.sagain = b.sagain /\ r.validated = b.validated
          /\ ~r.mining /\ r.txs = b.txs
      BY <1>1 DEF Block
    <3>2. Stored(Tip) /\ blocks'[Tip] = r /\ Len(blocks') = Len(blocks)
      BY <1>1, <1>4, <2>1, <3>1, AddStores
    <3> QED
      BY <3>1, <3>2
  <2>2. CASE from \in MidTx /\ PushTransaction(c, tx, from, to)
    <3> DEFINE r == [b EXCEPT !.txs = @ \cup {tx}]
    <3>1. /\ r \in Block /\ r.sagain = b.sagain /\ r.validated = b.validated
          /\ r.mining = b.mining /\ r.txs = b.txs \cup {tx}
      BY <1>1 DEF Block
    <3>2. Stored(Tip) /\ blocks'[Tip] = r /\ Len(blocks') = Len(blocks)
      BY <1>1, <1>4, <2>2, <3>1, AddStores
    <3>3. {t \in r.txs : is_reward(t)} = {t \in b.txs : is_reward(t)}
      BY <1>1, <3>1
    <3>4. pc[c] \in MidTx
      BY <1>4, <2>2
    <3> HIDE DEF r, tx, b
    <3> QED
      BY <3>1, <3>2, <3>3, <3>4
  <2>3. CASE from \in MidTx /\ Invalidate(c, from, to)
    <3> DEFINE r == [b EXCEPT !.validated = FALSE]
    <3>1. /\ r \in Block /\ r.sagain = b.sagain /\ ~r.validated
          /\ r.mining = b.mining /\ r.txs = b.txs
      BY <1>1 DEF Block
    <3>2. Stored(Tip) /\ blocks'[Tip] = r /\ Len(blocks') = Len(blocks)
      BY <1>1, <1>4, <2>3, <3>1, AddStores
    <3> QED
      BY <1>4, <2>3, <3>1, <3>2
  <2>4. CASE from \in MidTx /\ GenerateTimestamp(c, tx, from, to)
    <3> DEFINE r == [b EXCEPT !.stamp = tx]
    <3>1. /\ r \in Block /\ r.sagain = b.sagain /\ r.validated = b.validated
          /\ r.mining = b.mining /\ r.txs = b.txs
      BY <1>1 DEF Block
    <3>2. Stored(Tip) /\ blocks'[Tip] = r /\ Len(blocks') = Len(blocks)
      BY <1>1, <1>4, <2>4, <3>1, AddStores
    <3> QED
      BY <1>4, <2>4, <3>1, <3>2
  <2> QED
    BY <1>3, <2>1, <2>2, <2>3, <2>4
<1>6. Rewards(Tip)' = Rewards(Tip)
  BY <1>5 DEF Rewards, Tip
<1> HIDE DEF tx, b
<1>7. /\ blocks'[Tip].sagain = blocks[Tip].sagain
      /\ blocks'[Tip].validated => blocks[Tip].validated
      /\ blocks'[Tip].mining => blocks[Tip].mining /\ pc[c] \in MidTx
  BY <1>5 DEF b
<1> QED
  BY <1>3, <1>4, <1>5, <1>6, <1>7, CallerStep

LEMMA InterruptSound ==
  ASSUME TypeOK, Sound, NEW c \in Calls, Interrupt(c), ~raced'
  PROVE  Sound'
<1>1. /\ pc[c] = "interrupt" /\ pc'[c] = "spawned" /\ blk'[c] = blk[c]
      /\ ~OnFragile(c, Tip) /\ UNCHANGED <<file, wire, fault, wpc>>
  BY DEF Interrupt, Go, At, TypeOK, Trespass, workerVars
<1>2. OthersKept(c)
  BY DEF Interrupt, OthersKept, Go, At, TypeOK, workerVars
<1>3. Tip \in 1..Len(blocks) /\ blocks[Tip] \in Block
  BY DEF TypeOK, Tip
<1>4. /\ blocks' = [blocks EXCEPT ![Tip] = [blocks[Tip] EXCEPT !.mining = FALSE]]
      /\ [blocks[Tip] EXCEPT !.mining = FALSE] \in Block
      /\ [blocks[Tip] EXCEPT !.mining = FALSE].previous = blocks[Tip].previous
  BY <1>3 DEF Interrupt, Block
<1>5. /\ Stored(Tip) /\ blocks'[Tip] = [blocks[Tip] EXCEPT !.mining = FALSE]
      /\ Len(blocks') = Len(blocks)
  BY <1>3, <1>4, StoreEffect DEF Stored
<1>6. /\ ~blocks'[Tip].mining /\ blocks'[Tip].sagain = blocks[Tip].sagain
      /\ blocks'[Tip].validated = blocks[Tip].validated
      /\ Rewards(Tip)' = Rewards(Tip)
  BY <1>3, <1>5 DEF Block, Rewards, Tip
<1>7. /\ pc[c] \in IdlePcs \ MidTx /\ pc'[c] \in IdlePcs \ MidTx
  BY <1>1 DEF IdlePcs, AwayPcs, MidTx, TxPcs
<1> QED
  BY <1>1, <1>2, <1>5, <1>6, <1>7, CallerStep

-----------------------------------------------------------------------------
(***************************************************************************)
(* The steps of a mining thread that has its block for itself: outside of  *)
(* the windows from the spin loop on, and always once m_sagain is set.     *)
(***************************************************************************)
Acts(c) ==
  \/ pc[c] \in Inside \cup {"rwClear"} /\ blk[c] = Tip /\ ~OnFragile(c, Tip)
  \/ Owns(c)

\* The moments at which c must not be disturbed.
Exposed(c) == Fragile(c, blk[c]) \/ (pc[c] = "join" /\ blocks[blk[c]].mining)

LEMMA OthersAway ==
  ASSUME Sound, NEW c \in Calls, Acts(c), NEW d \in Calls \ {c}, blk[d] = blk[c]
  PROVE  /\ ~Busy(d)
         /\ pc[d] = "rwClear" => pc[c] \notin Inside \cup SagainPcs \cup {"rwClear"}
         /\ pc[d] \in MidTx => ~Exposed(c)
<1>1. Pair(c, d) /\ Pair(d, c) /\ Local(d) /\ Local(c)
  BY DEF Sound
<1>2. pc[d] \in MidTx => ~Exposed(c)
  BY <1>1 DEF Pair, NotDisturbed, Exposed
<1>3. CASE pc[c] \in Inside \cup {"rwClear"} /\ blk[c] = Tip /\ ~OnFragile(c, Tip)
  <2>1. ~Fragile(d, blk[d])
    BY <1>3 DEF OnFragile
  <2>2. pc[d] \notin Inside \cup {"rwClear", "header"} /\ ~Won(d)
    BY <1>1, <2>1, FragileIs, WonPublishes DEF Local
  <2>3. pc[d] \notin SagainPcs
    BY <1>1, <1>3 DEF Pair, Alone, Owns
  <2> QED
    BY <1>2, <2>2, <2>3 DEF Busy, Owns
<1>4. CASE Owns(c)
  <2>1. /\ pc[d] \notin Inside /\ ~Owns(d)
        /\ pc[c] \in SagainPcs => pc[d] # "rwClear"
    BY <1>1, <1>4 DEF Pair, Alone
  <2>2. pc[c] \notin Inside \cup {"rwClear"}
    <3>1. CASE pc[c] \in SagainPcs
      BY <3>1 DEF SagainPcs, FlagPcs, EndPcs, Inside, RewardPcs
    <3>2. CASE Won(c)
      BY <1>1, <3>2 DEF Local, WorkersInPlace, Won, SagainPcs, FlagPcs, EndPcs, AfterPcs,
         SealPcs, Inside, RewardPcs
    <3> QED
      BY <1>4, <3>1, <3>2 DEF Owns
  <2> QED
    BY <1>2, <2>1, <2>2 DEF Busy
<1> QED
  BY <1>3, <1>4 DEF Acts

LEMMA RewardIsMine ==
  ASSUME Sound, NEW c \in Calls, Acts(c), blk[c] = Tip, ~Held(c)
  PROVE  Rewards(Tip) = {}
<1> SUFFICES ASSUME Rewards(Tip) # {}
             PROVE  FALSE
  OBVIOUS
<1>1. PICK d \in Calls : blk[d] = Tip /\ Held(d)
  BY DEF Sound, RewardIsHeld
<1>2. d # c /\ Busy(d)
  BY <1>1, HeldBusy DEF Busy
<1> QED
  BY <1>1, <1>2, OthersAway

LEMMA ActStep ==
  ASSUME TypeOK, Sound, NEW c \in Calls, Acts(c), OthersKept(c), blk[c] = Tip,
         blk'[c] = blk[c], UNCHANGED <<file, wire>>, fault' = "none", Stored(Tip),
         pc[c] \notin SealPcs, pc'[c] \notin SealPcs \cup MidTx,
         pc'[c] \in SagainPcs => pc[c] \in Inside \cup SagainPcs \cup {"rwClear"},
         Exposed(c)' => Exposed(c), Local(c)', Rewards(Tip)' # {} => Held(c)'
  PROVE  Sound'
<1>1. Len(blocks') = Len(blocks) /\ Tip' = Tip
  BY DEF Stored, Tip
<1>2. ASSUME NEW d \in Calls \ {c}
      PROVE  /\ pc'[d] = pc[d] /\ blk'[d] = blk[d] /\ wpc'[d] = wpc[d]
             /\ blk[d] \in 1..Len(blocks)
             /\ blk[d] # Tip => blocks'[blk[d]] = blocks[blk[d]]
             /\ blk[d] = Tip => ~Busy(d)
  BY OthersAway DEF OthersKept, TypeOK, Stored
<1>3. ASSUME NEW d \in Calls \ {c}
      PROVE  Local(d)'
  BY <1>1, <1>2, <1>3, LocalIdle, LocalSame DEF Sound
<1>4. ASSUME NEW d \in Calls \ {c}
      PROVE  Pair(c, d)' /\ Pair(d, c)'
  <2> SUFFICES ASSUME blk[d] = Tip
               PROVE  Alone(c, d)' /\ NotDisturbed(c, d)'
                      /\ Alone(d, c)' /\ NotDisturbed(d, c)'
    BY <1>2, <1>4 DEF Pair
  <2>1. /\ pc[d] \notin Inside /\ ~Owns(d)' /\ ~Owns(d)
        /\ pc[d] = "rwClear" => pc[c] \notin Inside \cup SagainPcs \cup {"rwClear"}
        /\ pc[d] \in MidTx => ~Exposed(c)
    BY <1>2, <1>4, OthersAway DEF Busy, Owns, Won
  <2>2. Alone(c, d)' /\ Alone(d, c)'
    BY <1>2, <1>4, <2>1 DEF Alone
  <2>3. NotDisturbed(c, d)'
    BY <1>2, <1>4, <2>1 DEF NotDisturbed, Exposed
  <2>4. NotDisturbed(d, c)'
    BY DEF NotDisturbed
  <2> QED
    BY <2>2, <2>3, <2>4
<1>5. ASSUME NEW d \in Calls \ {c}, NEW e \in Calls \ {c}
      PROVE  Pair(d, e)'
  <2>1. pc[d] = "join" => blk[d] # Tip
    BY <1>2, <1>5 DEF Busy, Owns, SagainPcs, FlagPcs
  <2> QED
    BY <1>2, <1>5, <2>1, PairKept DEF Sound
<1>6. RewardIsHeld'
  BY <1>1 DEF RewardIsHeld
<1>7. SealedAreSound' /\ FileIs' /\ WireIs'
  <2>1. \A e \in Calls \ {c} : pc[e] \notin SealPcs
    <3> SUFFICES ASSUME NEW e \in Calls \ {c}, pc[e] \in SealPcs
                 PROVE  FALSE
      OBVIOUS
    <3>1. Owns(e) /\ blk[e] = Tip
      BY SealersWon DEF Sound
    <3> QED
      BY <3>1, <1>2 DEF Busy
  <2>2. \A e \in Calls : pc[e] \notin SealPcs /\ pc'[e] \notin SealPcs
    BY <1>2, <2>1
  <2> QED
    BY <2>2, GlobalStore DEF Sound
<1> QED
  BY <1>3, <1>4, <1>5, <1>6, <1>7, Assemble

-----------------------------------------------------------------------------
(***************************************************************************)
(* The reward and the flags.                                               *)
(***************************************************************************)
LEMMA LocalInside ==
  ASSUME NEW c \in Calls, pc'[c] \in Inside \cup {"header"}, blk'[c] = Tip',
         \A w \in Workers : wpc'[c][w] = "off",
         pc'[c] \notin {"rwPush", "rwInvalidate"} => ~blocks'[blk'[c]].validated,
         pc'[c] = "header" => blocks'[blk'[c]].sagain,
         pc'[c] # "rwPush" => OneReward(c)'
  PROVE  Local(c)' /\ (pc'[c] # "rwPush" => Held(c)')
<1>1. /\ pc'[c] \notin (SagainPcs \ {"header"}) \cup AfterPcs
      /\ pc'[c] \notin SealPcs \cup {"endHash", "clean", "join"}
      /\ pc'[c] \in SagainPcs => pc'[c] = "header"
      /\ pc'[c] # "rwPush" <=> pc'[c] \in HeldPcs
  BY DEF Inside, RewardPcs, SagainPcs, FlagPcs, EndPcs, AfterPcs, SealPcs, HeldPcs
<1>2. ~Won(c)' /\ ~Publishing(c)'
  BY DEF Won, Publishing, PublishPcs
<1>3. WorkersInPlace(c)' /\ AtTip(c)' /\ FlagsUp(c)'
  BY <1>1, <1>2 DEF WorkersInPlace, AtTip, FlagsUp
<1>4. CopyIsExact(c)' /\ FoundIsGood(c)' /\ PublishedIsGood(c)'
  BY <1>1, <1>2 DEF CopyIsExact, FoundIsGood, PublishedIsGood, Live
<1>5. ValidIsWon(c)'
  BY <1>1, <1>2 DEF ValidIsWon, Owns
<1>6. OneReward(c)' /\ (pc'[c] # "rwPush" => Held(c)')
  BY <1>1, <1>2 DEF OneReward, Held
<1> QED
  BY <1>3, <1>4, <1>5, <1>6 DEF Local

LEMMA InsideSound ==
  ASSUME TypeOK, Sound, NEW c \in Calls, ~raced',
         AddReward(c) \/ SetMining(c) \/ SetSagain(c)
  PROVE  Sound'
<1> DEFINE tx == <<"reward", c>>
           b  == blocks[Tip]
<1>1. /\ tx \in Tx /\ tx \in Stamps /\ is_reward(tx) /\ b \in Block
      /\ Tip \in 1..Len(blocks)
  BY DEF Tx, Stamps, is_reward, TypeOK, Tip
<1>2. /\ pc[c] \in Inside \cup {"rwClear"} /\ pc'[c] \in Inside \cup {"header"}
      /\ blk[c] = Tip /\ blk'[c] = blk[c] /\ ~OnFragile(c, Tip) /\ OthersKept(c)
      /\ UNCHANGED <<file, wire, fault, wpc>>
  <2>1. CASE AddReward(c)
    <3>1. PICK from \in {"rwClear", "rwPush", "rwInvalidate", "rwStamp"},
               to \in {"rwPush", "rwInvalidate", "rwStamp", "setMining"} :
            \/ ClearMining(c, from, to) \/ PushTransaction(c, tx, from, to)
            \/ Invalidate(c, from, to)  \/ GenerateTimestamp(c, tx, from, to)
      BY <2>1 DEF AddReward
    <3>2. /\ pc[c] = from /\ pc'[c] = to /\ blk[c] = Tip /\ blk'[c] = blk[c]
          /\ OthersKept(c) /\ ~OnFragile(c, Tip)
          /\ UNCHANGED <<file, wire, fault, wpc, base>>
      BY <1>1, <3>1, AddEffect
    <3> QED
      BY <3>2 DEF Inside, RewardPcs
  <2>2. CASE SetMining(c) \/ SetSagain(c)
    <3>1. OthersKept(c)
      BY <2>2 DEF SetMining, SetSagain, OthersKept, Go, At, TypeOK, workerVars
    <3> QED
      BY <2>2, <3>1
      DEF SetMining, SetSagain, Go, At, TypeOK, Trespass, workerVars, Inside
  <2> QED
    BY <2>1, <2>2
<1>3. Acts(c) /\ Exposed(c) /\ fault' = "none"
  BY <1>2 DEF Acts, Exposed, Fragile, Inside, RewardPcs, Sound
<1>4. /\ pc[c] \notin SealPcs /\ pc'[c] \notin SealPcs \cup MidTx
      /\ \A w \in Workers : wpc[c][w] = "off"
      /\ ~Won(c)
  <2>1. /\ pc[c] \notin SealPcs /\ pc'[c] \notin SealPcs \cup MidTx
        /\ pc[c] \notin (SagainPcs \ {"header"}) \cup AfterPcs
    BY <1>2 DEF Inside, RewardPcs, SealPcs, SagainPcs, FlagPcs, EndPcs, AfterPcs, MidTx,
       TxPcs
  <2>2. \A w \in Workers : wpc[c][w] = "off"
    BY <2>1 DEF Sound, Local, WorkersInPlace
  <2> QED
    BY <2>1, <2>2 DEF Won
<1>5. /\ Held(c) <=> pc[c] \in {"rwInvalidate", "rwStamp", "setMining", "setSagain"}
      /\ Held(c) => Rewards(Tip) = {tx}
      /\ ~Held(c) => Rewards(Tip) = {}
      /\ pc[c] \in {"rwStamp", "setMining", "setSagain"} => ~b.validated
  <2>1. Held(c) <=> pc[c] \in {"rwInvalidate", "rwStamp", "setMining", "setSagain"}
    BY <1>2, <1>4 DEF Held, HeldPcs, Inside, RewardPcs
  <2>2. Local(c)
    BY DEF Sound
  <2> QED
    BY <1>2, <1>3, <1>4, <2>1, <2>2, RewardIsMine DEF Local, OneReward, ValidIsWon
<1>6. PICK r \in Block :
        /\ Stored(Tip) /\ blocks'[Tip] = r /\ Len(blocks') = Len(blocks)
        /\ pc'[c] \notin {"rwPush", "rwInvalidate"} => ~r.validated
        /\ pc'[c] = "header" => r.sagain
        /\ {t \in r.txs : is_reward(t)} = IF pc'[c] = "rwPush" THEN {} ELSE {tx}
  <2> DEFINE rewards == {t \in b.txs : is_reward(t)}
  <2>0. rewards = Rewards(Tip)
    BY DEF Rewards
  <2>1. CASE ClearMining(c, "rwClear", "rwPush")
    <3> DEFINE r == [b EXCEPT !.mining = FALSE]
    <3>1. r \in Block /\ r.txs = b.txs
      BY <1>1 DEF Block
    <3>2. Stored(Tip) /\ blocks'[Tip] = r /\ Len(blocks') = Len(blocks)
      BY <1>1, <1>2, <2>1, <3>1, AddStores
    <3>3. pc[c] = "rwClear" /\ pc'[c] = "rwPush"
      BY <2>1 DEF ClearMining, Go, At, TypeOK
    <3> QED
      BY <1>5, <2>0, <3>1, <3>2, <3>3
  <2>2. CASE PushTransaction(c, tx, "rwPush", "rwInvalidate")
    <3> DEFINE r == [b EXCEPT !.txs = @ \cup {tx}]
    <3>1. r \in Block /\ r.txs = b.txs \cup {tx}
      BY <1>1 DEF Block
    <3>2. Stored(Tip) /\ blocks'[Tip] = r /\ Len(blocks') = Len(blocks)
      BY <1>1, <1>2, <2>2, <3>1, AddStores
    <3>3. pc[c] = "rwPush" /\ pc'[c] = "rwInvalidate"
      BY <2>2 DEF PushTransaction, Go, At, TypeOK
    <3>4. {t \in r.txs : is_reward(t)} = {tx}
      BY <1>1, <1>5, <2>0, <3>1, <3>3
    <3> HIDE DEF r, tx, b
    <3> QED
      BY <3>1, <3>2, <3>3, <3>4
  <2>3. CASE Invalidate(c, "rwInvalidate", "rwStamp")
    <3> DEFINE r == [b EXCEPT !.validated = FALSE]
    <3>1. r \in Block /\ r.txs = b.txs /\ ~r.validated
      BY <1>1 DEF Block
    <3>2. Stored(Tip) /\ blocks'[Tip] = r /\ Len(blocks') = Len(blocks)
      BY <1>1, <1>2, <2>3, <3>1, AddStores
    <3>3. pc[c] = "rwInvalidate" /\ pc'[c] = "rwStamp"
      BY <2>3 DEF Invalidate, Go, At, TypeOK
    <3> QED
      BY <1>5, <2>0, <3>1, <3>2, <3>3
  <2>4. CASE GenerateTimestamp(c, tx, "rwStamp", "setMining")
    <3> DEFINE r == [b EXCEPT !.stamp = tx]
    <3>1. r \in Block /\ r.txs = b.txs /\ r.validated = b.validated
      BY <1>1 DEF Block
    <3>2. Stored(Tip) /\ blocks'[Tip] = r /\ Len(blocks') = Len(blocks)
      BY <1>1, <1>2, <2>4, <3>1, AddStores
    <3>3. pc[c] = "rwStamp" /\ pc'[c] = "setMining"
      BY <2>4 DEF GenerateTimestamp, Go, At, TypeOK
    <3> QED
      BY <1>5, <2>0, <3>1, <3>2, <3>3
  <2>5. CASE SetMining(c)
    <3> DEFINE r == [b EXCEPT !.mining = TRUE]
    <3>1. /\ r \in Block /\ r.txs = b.txs /\ r.validated = b.validated
          /\ r.previous = b.previous
      BY <1>1 DEF Block
    <3>2. Stored(Tip) /\ blocks'[Tip] = r /\ Len(blocks') = Len(blocks)
      <4>1. blocks' = [blocks EXCEPT ![Tip] = r]
        BY <1>2, <2>5 DEF SetMining
      <4> QED
        BY <1>1, <3>1, <4>1, StoreEffect DEF Stored
    <3>3. pc[c] = "setMining" /\ pc'[c] = "setSagain"
      BY <2>5 DEF SetMining, Go, At, TypeOK
    <3> QED
      BY <1>5, <2>0, <3>1, <3>2, <3>3
  <2>6. CASE SetSagain(c)
    <3> DEFINE r == [b EXCEPT !.sagain = TRUE]
    <3>1. /\ r \in Block /\ r.txs = b.txs /\ r.validated = b.validated /\ r.sagain
          /\ r.previous = b.previous
      BY <1>1 DEF Block
    <3>2. Stored(Tip) /\ blocks'[Tip] = r /\ Len(blocks') = Len(blocks)
      <4>1. blocks' = [blocks EXCEPT ![Tip] = r]
        BY <1>2, <2>6 DEF SetSagain
      <4> QED
        BY <1>1, <3>1, <4>1, StoreEffect DEF Stored
    <3>3. pc[c] = "setSagain" /\ pc'[c] = "header"
      BY <2>6 DEF SetSagain, Go, At, TypeOK
    <3> QED
      BY <1>5, <2>0, <3>1, <3>2, <3>3
  <2> QED
    BY <2>1, <2>2, <2>3, <2>4, <2>5, <2>6 DEF AddReward
<1>7. Tip' = Tip /\ Rewards(Tip)' = IF pc'[c] = "rwPush" THEN {} ELSE {tx}
  BY <1>6 DEF Tip, Rewards
<1>8. pc'[c] # "rwPush" => OneReward(c)'
  BY <1>2, <1>7 DEF OneReward
<1>9. Local(c)' /\ (pc'[c] # "rwPush" => Held(c)')
  BY <1>2, <1>4, <1>6, <1>7, <1>8, LocalInside
<1>10. Stored(Tip) /\ (Rewards(Tip)' # {} => Held(c)')
  BY <1>6, <1>7, <1>9
<1> HIDE DEF tx, b
<1> QED
  BY <1>2, <1>3, <1>4, <1>9, <1>10, ActStep

-----------------------------------------------------------------------------
(***************************************************************************)
(* The mining thread from the header to the end of mine.                   *)
(***************************************************************************)
\* A step of the thread that stores nothing.
LEMMA OwnerRead ==
  ASSUME TypeOK, Sound, NEW c \in Calls, pc[c] \in SagainPcs, OthersKept(c),
         blk'[c] = blk[c], UNCHANGED <<blocks, file, wire, fault>>,
         pc'[c] \in SagainPcs \ {"header"}, pc'[c] # "join" \/ pc[c] = "header",
         Local(c)', Held(c) => Held(c)',
         Publishing(c)' => Publishing(c) \/ pc[c] = "header"
  PROVE  Sound'
<1>1. Acts(c) /\ blk[c] = Tip
  BY DEF Acts, Owns, Sound, Local, AtTip
<1>2. /\ pc[c] \notin SealPcs /\ pc'[c] \notin SealPcs \cup MidTx
      /\ pc'[c] \in {"join", "endMining", "endValidated", "endHash", "clean", "clearMining",
                     "clearSagain"}
  BY DEF SagainPcs, FlagPcs, EndPcs, SealPcs, MidTx, TxPcs
<1>3. Stored(Tip)
  BY DEF Stored
<1>4. Exposed(c)' => Exposed(c)
  <2>1. CASE pc[c] = "header"
    BY <2>1 DEF Exposed, Fragile
  <2>2. CASE pc[c] # "header"
    <3>1. pc[c] \in EndPcs \cup {"join", "clearMining", "clearSagain"}
      BY <2>2 DEF SagainPcs, FlagPcs
    <3>2. Publishing(c) => Exposed(c)
      BY <3>1 DEF Publishing, Exposed, Fragile
    <3>3. Exposed(c)' => Publishing(c)'
      BY <1>2, <2>2 DEF Exposed, Fragile, Publishing, RewardPcs
    <3> QED
      BY <2>2, <3>2, <3>3
  <2> QED
    BY <2>1, <2>2
<1>5. Rewards(Tip)' # {} => Held(c)'
  <2>1. Rewards(Tip)' = Rewards(Tip)
    BY DEF Rewards, Tip
  <2> QED
    BY <1>1, <2>1, RewardIsMine
<1> QED
  BY <1>1, <1>2, <1>3, <1>4, <1>5, ActStep DEF Sound

LEMMA StartWorkersSound ==
  ASSUME TypeOK, Sound, NEW c \in Calls, StartWorkers(c)
  PROVE  Sound'
<1>1. /\ pc[c] = "header" /\ pc'[c] = "join" /\ blk'[c] = blk[c]
      /\ base'[c] = blocks[blk[c]].txs
      /\ wpc'[c] = [w \in Workers |-> "loopMining"]
      /\ UNCHANGED <<blocks, file, wire, fault>>
  BY DEF StartWorkers, Go, At, TypeOK, chainVars, fill_block_hash
<1>2. OthersKept(c)
  BY DEF StartWorkers, OthersKept, Go, At, TypeOK, chainVars
<1>3. /\ pc[c] \in SagainPcs /\ pc'[c] \in SagainPcs
      /\ pc[c] \in HeldPcs /\ pc'[c] \in HeldPcs
      /\ pc[c] \notin (SagainPcs \ {"header"}) \cup AfterPcs
      /\ pc'[c] \notin SealPcs \cup {"endHash", "clean"}
  BY <1>1 DEF SagainPcs, FlagPcs, HeldPcs, AfterPcs, SealPcs
<1>4. Local(c)
  BY DEF Sound
<1>5. ~Won(c)
  BY <1>3, <1>4 DEF Local, WorkersInPlace, Won
<1>6. ~Won(c)' /\ ~Publishing(c)'
  BY <1>1 DEF Won, Publishing, PublishPcs
<1>7. Local(c)'
  <2>1. WorkersInPlace(c)'
    BY <1>1, <1>3 DEF WorkersInPlace
  <2>2. AtTip(c)'
    BY <1>1, <1>3, <1>4 DEF Local, AtTip, Owns, Tip
  <2>3. FlagsUp(c)'
    BY <1>1, <1>3, <1>4, <1>6 DEF Local, FlagsUp
  <2>4. CopyIsExact(c)' /\ FoundIsGood(c)' /\ PublishedIsGood(c)'
    BY <1>1 DEF CopyIsExact, FoundIsGood, PublishedIsGood
  <2>5. ValidIsWon(c)'
    BY <1>1, <1>3, <1>4, <1>5, <1>6 DEF Local, ValidIsWon, Owns
  <2>6. OneReward(c)'
    BY <1>1, <1>3, <1>4 DEF Local, OneReward, Held, Rewards
  <2> QED
    BY <2>1, <2>2, <2>3, <2>4, <2>5, <2>6 DEF Local
<1> QED
  BY <1>1, <1>2, <1>3, <1>6, <1>7, OwnerRead DEF Held

\* The thread comes to its end: what its workers have established stays.
LEMMA LocalEnds ==
  ASSUME NEW c \in Calls, Local(c), pc[c] \in SagainPcs \ {"header", "clearSagain"},
         pc'[c] \in EndPcs \cup {"clearMining", "clearSagain"},
         blk'[c] = blk[c], base'[c] = base[c], wpc'[c] = wpc[c],
         Len(blocks') = Len(blocks), blocks'[blk[c]].sagain = blocks[blk[c]].sagain,
         blocks'[blk[c]].validated = blocks[blk[c]].validated,
         blocks'[blk[c]].mining = blocks[blk[c]].mining \/ pc'[c] = "clearSagain",
         Won(c) => blocks'[blk[c]].txs = blocks[blk[c]].txs,
         blocks'[blk[c]].stamp = blocks[blk[c]].stamp,
         blocks'[blk[c]].nonce = blocks[blk[c]].nonce,
         blocks'[blk[c]].header = blocks[blk[c]].header,
         pc'[c] \in HeldPcs => pc[c] \in HeldPcs
                               /\ blocks'[blk[c]].txs = blocks[blk[c]].txs,
         \A w \in Workers : wpc[c][w] \in {"off", "won", "lost"},
         pc'[c] = "endHash" => Won(c), pc'[c] = "clean" => ~Won(c)
  PROVE  Local(c)'
<1>1. /\ pc'[c] \in SagainPcs \ {"header", "join"} /\ pc'[c] \notin AfterPcs
      /\ pc'[c] \notin SealPcs /\ pc'[c] # "join"
  BY DEF SagainPcs, FlagPcs, EndPcs, AfterPcs, SealPcs
<1>2. (Won(c)' <=> Won(c)) /\ (Publishing(c)' <=> Won(c))
  BY DEF Won, Publishing, PublishPcs
<1>3. WorkersInPlace(c)'
  BY <1>1, <1>2 DEF WorkersInPlace
<1>4. AtTip(c)'
  BY <1>1 DEF Local, AtTip, Owns, Tip
<1>5. FlagsUp(c)'
  <2>1. pc[c] \notin {"clearSagain"} \cup AfterPcs
    BY DEF SagainPcs, FlagPcs, EndPcs, AfterPcs, SealPcs
  <2> QED
    BY <1>1, <1>2, <2>1, WonPublishes DEF Local, FlagsUp
<1>6. CopyIsExact(c)' /\ FoundIsGood(c)' /\ PublishedIsGood(c)'
  BY <1>1, <1>2 DEF Local, CopyIsExact, FoundIsGood, PublishedIsGood, Live, Good
<1>7. ValidIsWon(c)' /\ OneReward(c)'
  BY <1>1, <1>2 DEF Local, ValidIsWon, OneReward, Owns, Held, Rewards
<1> QED
  BY <1>3, <1>4, <1>5, <1>6, <1>7 DEF Local

LEMMA EndReadSound ==
  ASSUME TypeOK, Sound, NEW c \in Calls,
         \/ JoinWorkers(c) \/ EndCheckMining(c) \/ EndCheckValidated(c) \/ EndHash(c)
  PROVE  Sound'
<1> USE DEF JoinWorkers, EndCheckMining, EndCheckValidated, EndHash
<1>1. Local(c) /\ fault = "none"
  BY DEF Sound
<1>2. /\ pc[c] \in {"join", "endMining", "endValidated", "endHash"}
      /\ pc[c] = "endHash" => blocks[blk[c]].validated
      /\ pc[c] # "join" => \A w \in Workers : wpc[c][w] \in {"off", "won", "lost"}
      /\ pc[c] \in SagainPcs \ {"header", "clearSagain"} /\ pc[c] \in HeldPcs
      /\ blocks[blk[c]].validated <=> Won(c)
      /\ Won(c) => blocks[blk[c]].mining
  <2>1. pc[c] \in {"join", "endMining", "endValidated", "endHash"}
    BY DEF Go, Throw, At
  <2>2. /\ pc[c] \in SagainPcs \ {"header", "clearSagain"} /\ pc[c] \in HeldPcs
        /\ pc[c] \notin {"clearSagain"} \cup AfterPcs
    BY <2>1 DEF SagainPcs, FlagPcs, EndPcs, HeldPcs, AfterPcs, SealPcs
  <2>3. blocks[blk[c]].validated <=> Won(c)
    BY <1>1, <2>2 DEF Local, ValidIsWon, Owns
  <2>4. Won(c) => blocks[blk[c]].mining
    BY <1>1, <2>2, WonPublishes DEF Local, FlagsUp
  <2> QED
    BY <1>1, <2>1, <2>2, <2>3, <2>4 DEF Local, WorkersInPlace
<1>3. /\ pc'[c] \in {"endMining", "endValidated", "endHash", "clean", "clearMining"}
      /\ blk'[c] = blk[c] /\ base'[c] = base[c] /\ wpc'[c] = wpc[c]
      /\ UNCHANGED <<blocks, file, wire, fault>>
      /\ pc'[c] = "endHash" => Won(c)
      /\ pc'[c] = "clean" => ~Won(c)
      /\ pc'[c] = "clearMining" => Won(c)
      /\ \A w \in Workers : wpc[c][w] \in {"off", "won", "lost"}
  <2>1. CASE JoinWorkers(c)
    BY <2>1 DEF Go, At, TypeOK, chainVars, workerVars
  <2>2. CASE EndCheckMining(c)
    BY <1>2, <2>2 DEF At, TypeOK, chainVars, workerVars
  <2>3. CASE EndCheckValidated(c)
    BY <1>2, <2>3 DEF At, TypeOK, chainVars, workerVars
  <2>4. CASE EndHash(c)
    <3>1. pc[c] = "endHash"
      BY <2>4 DEF Go, Throw, At
    <3>2. Go(c, "endHash", "clearMining") /\ fault' = fault
      BY <1>2, <2>4, <3>1
    <3> QED
      BY <1>2, <2>4, <3>1, <3>2 DEF Go, At, TypeOK, chainVars, workerVars
  <2> QED
    BY <2>1, <2>2, <2>3, <2>4
<1>4. OthersKept(c)
  BY DEF OthersKept, Go, Throw, At, TypeOK, workerVars
<1>5. /\ pc'[c] \in SagainPcs \ {"header", "join"}
      /\ pc'[c] \in EndPcs \cup {"clearMining", "clearSagain"}
  BY <1>3 DEF SagainPcs, FlagPcs, EndPcs
<1>6. Local(c)'
  BY <1>1, <1>2, <1>3, <1>5, LocalEnds
<1>7. Held(c)' /\ (Publishing(c)' => Publishing(c))
  BY <1>3 DEF Held, HeldPcs, Won, Publishing
<1> QED
  BY <1>2, <1>3, <1>4, <1>5, <1>6, <1>7, OwnerRead

\* The stores at the end of mine.
LEMMA EndStoreSound ==
  ASSUME TypeOK, Sound, NEW c \in Calls, CleanBlock(c) \/ EndMining(c)
  PROVE  Sound'
<1> DEFINE b == blocks[blk[c]]
           r == IF CleanBlock(c) THEN [b EXCEPT !.txs = {tx \in @ : ~is_reward(tx)}]
                                 ELSE [b EXCEPT !.mining = FALSE]
<1>1. Local(c) /\ fault = "none" /\ blk[c] \in 1..Len(blocks) /\ b \in Block
  BY DEF Sound, TypeOK
<1>2. /\ pc[c] \in {"clean", "clearMining"} /\ pc'[c] \in {"clearMining", "clearSagain"}
      /\ pc[c] = "clean" <=> CleanBlock(c)
      /\ pc'[c] = "clearSagain" <=> ~CleanBlock(c)
      /\ blocks' = [blocks EXCEPT ![blk[c]] = r]
      /\ blk'[c] = blk[c] /\ base'[c] = base[c] /\ wpc'[c] = wpc[c]
      /\ UNCHANGED <<file, wire, fault>>
  BY DEF CleanBlock, EndMining, Go, At, TypeOK, workerVars
<1>3. OthersKept(c)
  BY DEF OthersKept, CleanBlock, EndMining, Go, At, TypeOK, workerVars
<1>4. /\ pc[c] \in SagainPcs \ {"header", "clearSagain"}
      /\ pc[c] \in EndPcs \cup {"join", "clearMining", "clearSagain", "recheck"}
      /\ pc[c] # "join" /\ pc[c] \notin SealPcs
      /\ pc'[c] \in EndPcs \cup {"clearMining", "clearSagain"}
      /\ pc'[c] \notin HeldPcs /\ pc'[c] \notin {"endHash", "clean", "join"}
      /\ pc'[c] \notin SealPcs \cup MidTx
      /\ pc'[c] \notin RewardPcs \cup {"setMining", "setSagain", "header"}
  BY <1>2 DEF SagainPcs, FlagPcs, EndPcs, SealPcs, HeldPcs, MidTx, TxPcs, RewardPcs
<1>5. /\ Acts(c) /\ blk[c] = Tip /\ (CleanBlock(c) => ~Won(c))
      /\ \A w \in Workers : wpc[c][w] \in {"off", "won", "lost"}
  BY <1>1, <1>2, <1>4 DEF Acts, Owns, Local, AtTip, WorkersInPlace
<1>6. /\ r \in Block /\ r.previous = b.previous /\ r.sagain = b.sagain
      /\ r.validated = b.validated /\ r.stamp = b.stamp /\ r.nonce = b.nonce
      /\ r.header = b.header
      /\ r.mining = b.mining \/ ~CleanBlock(c)
      /\ CleanBlock(c) \/ r.txs = b.txs
      /\ CleanBlock(c) => r.txs = {tx \in b.txs : ~is_reward(tx)}
  BY <1>1 DEF Block
<1> HIDE DEF r
<1>7. /\ Stored(Tip) /\ blocks'[blk[c]] = r /\ Len(blocks') = Len(blocks)
  BY <1>1, <1>2, <1>5, <1>6, StoreEffect DEF Stored
<1>8. Rewards(Tip)' # {} => Held(c)'
  <2>1. CASE CleanBlock(c)
    BY <1>5, <1>6, <1>7, <2>1 DEF Rewards, Tip
  <2>2. CASE ~CleanBlock(c)
    <3>1. Rewards(Tip)' = Rewards(Tip)
      BY <1>5, <1>6, <1>7, <2>2 DEF Rewards, Tip
    <3>2. Held(c) => Held(c)'
      BY <1>2, <2>2 DEF Held, HeldPcs, Won
    <3> QED
      BY <1>5, <3>1, <3>2, RewardIsMine
  <2> QED
    BY <2>1, <2>2
<1>9. Exposed(c)' => Exposed(c)
  BY <1>2, <1>4 DEF Exposed, Fragile
<1>10. Local(c)'
  BY <1>1, <1>2, <1>4, <1>5, <1>6, <1>7, LocalEnds
<1> QED
  BY <1>1, <1>2, <1>3, <1>4, <1>5, <1>7, <1>8, <1>9, <1>10, ActStep

LEMMA EndSagainSound ==
  ASSUME TypeOK, Sound, NEW c \in Calls, EndSagain(c)
  PROVE  Sound'
<1> DEFINE r == [blocks[blk[c]] EXCEPT !.sagain = FALSE]
<1>1. /\ Local(c) /\ fault = "none" /\ blk[c] \in 1..Len(blocks)
      /\ blocks[blk[c]] \in Block
  BY DEF Sound, TypeOK
<1>2. /\ pc[c] = "clearSagain" /\ pc'[c] = "recheck"
      /\ blocks' = [blocks EXCEPT ![blk[c]] = r]
      /\ blk'[c] = blk[c] /\ base'[c] = base[c] /\ wpc'[c] = wpc[c]
      /\ UNCHANGED <<file, wire, fault>>
  BY DEF EndSagain, Go, At, TypeOK, workerVars
<1>3. OthersKept(c)
  BY DEF OthersKept, EndSagain, Go, At, TypeOK, workerVars
<1>4. /\ pc[c] \in SagainPcs /\ pc[c] \notin SealPcs \cup HeldPcs
      /\ pc'[c] \in AfterPcs /\ pc'[c] \notin SealPcs \cup MidTx \cup SagainPcs \cup HeldPcs
      /\ pc'[c] \notin {"join", "endHash", "clean", "rwStamp", "setMining", "setSagain"}
      /\ pc'[c] \notin Inside
  BY <1>2
  DEF SagainPcs, FlagPcs, EndPcs, SealPcs, HeldPcs, MidTx, TxPcs, AfterPcs, Inside,
      RewardPcs
<1>5. /\ Acts(c) /\ blk[c] = Tip
      /\ \A w \in Workers : wpc[c][w] \in {"off", "won", "lost"}
      /\ blocks[blk[c]].validated <=> Won(c)
  BY <1>1, <1>2, <1>4 DEF Acts, Owns, Local, AtTip, WorkersInPlace, ValidIsWon
<1>6. /\ r \in Block /\ r.previous = blocks[blk[c]].previous
      /\ r.validated = blocks[blk[c]].validated /\ r.stamp = blocks[blk[c]].stamp
      /\ r.nonce = blocks[blk[c]].nonce /\ r.header = blocks[blk[c]].header
      /\ r.txs = blocks[blk[c]].txs
  BY <1>1 DEF Block
<1> HIDE DEF r
<1>7. /\ Stored(Tip) /\ blocks'[blk[c]] = r /\ Len(blocks') = Len(blocks)
  BY <1>1, <1>2, <1>5, <1>6, StoreEffect DEF Stored
<1>8. (Won(c)' <=> Won(c)) /\ (Held(c)' <=> Held(c))
  BY <1>2, <1>4 DEF Held, Won
<1>9. Rewards(Tip)' # {} => Held(c)'
  <2>1. Rewards(Tip)' = Rewards(Tip)
    BY <1>5, <1>6, <1>7 DEF Rewards, Tip
  <2> QED
    BY <1>5, <1>8, <2>1, RewardIsMine
<1>10. Exposed(c)' => Exposed(c)
  BY <1>2 DEF Exposed, Fragile, RewardPcs
<1>11. Local(c)'
  <2>1. WorkersInPlace(c)' /\ FlagsUp(c)'
    BY <1>2, <1>4, <1>5 DEF WorkersInPlace, FlagsUp
  <2>2. AtTip(c)'
    BY <1>2, <1>4, <1>5, <1>7 DEF AtTip, Owns, Tip
  <2>3. CopyIsExact(c)' /\ FoundIsGood(c)' /\ PublishedIsGood(c)'
    BY <1>1, <1>2, <1>4, <1>6, <1>7, <1>8
    DEF Local, CopyIsExact, FoundIsGood, PublishedIsGood, Live, Good
  <2>4. ValidIsWon(c)' /\ OneReward(c)'
    BY <1>1, <1>2, <1>4, <1>5, <1>6, <1>7, <1>8
    DEF Local, ValidIsWon, OneReward, Owns, Rewards
  <2> QED
    BY <2>1, <2>2, <2>3, <2>4 DEF Local
<1> QED
  BY <1>1, <1>2, <1>3, <1>4, <1>5, <1>7, <1>9, <1>10, <1>11, ActStep

-----------------------------------------------------------------------------
(***************************************************************************)
(* The workers.                                                            *)
(***************************************************************************)
\* Worker w goes from one place to another, leaves nonce x in its local, and the
\* block is then r.
WorkerMove(c, w, from, to, x, r) ==
  /\ wpc[c][w] = from
  /\ \A v \in Workers : wpc'[c][v] = IF v = w THEN to ELSE wpc[c][v]
  /\ \A v \in Workers : found'[c][v] = IF v = w THEN x ELSE found[c][v]
  /\ UNCHANGED <<file, wire, pc, blk, base, fault>>
  /\ Stored(blk[c]) /\ blocks'[blk[c]] = r

\* What it may have put there: r holds a solution as soon as w has published one.
WorkerKeeps(c, to, x, r) ==
  /\ r.txs = blocks[blk[c]].txs /\ r.stamp = blocks[blk[c]].stamp
  /\ r.mining = blocks[blk[c]].mining /\ r.sagain = blocks[blk[c]].sagain
  /\ r.validated <=> (blocks[blk[c]].validated \/ to = "won")
  /\ r.nonce = blocks[blk[c]].nonce \/ Good(c, r.nonce)
  /\ r.header = blocks[blk[c]].header \/ r.header = base[c]
  /\ to \in PublishPcs \cup {"won"} => blocks[blk[c]].mining
  /\ to \in {"checkMining", "checkValidated"} /\ blocks[blk[c]].mining =>
       Good(c, x) \/ blocks[blk[c]].validated
  /\ to \in {"setNonce", "setHeader", "setValidated"} => Good(c, x)
  /\ to \in {"setHeader", "setValidated", "won"} => Good(c, r.nonce)
  /\ to \in {"setValidated", "won"} => r.header = base[c]

LEMMA WorkerStepSound ==
  ASSUME TypeOK, Sound, NEW c \in Calls, NEW w \in Workers, NEW x, NEW r \in Block,
         NEW from \in WorkerPcs \ {"off", "won", "lost"}, NEW to \in WorkerPcs \ {"off"},
         OthersKept(c), WorkerMove(c, w, from, to, x, r), WorkerKeeps(c, to, x, r)
  PROVE  Sound'
<1> USE DEF WorkerMove, WorkerKeeps
<1>1. Local(c) /\ fault = "none"
  BY DEF Sound
<1>2. pc[c] = "join" /\ pc'[c] = "join"
  BY <1>1 DEF Local, WorkersInPlace
<1>3. /\ pc[c] \in SagainPcs \ {"header"} /\ pc[c] \notin SealPcs \cup MidTx \cup AfterPcs
      /\ pc[c] \notin RewardPcs \cup {"setMining", "setSagain", "header"}
      /\ pc[c] \notin SealPcs \cup {"clearSagain", "endHash", "clean"}
      /\ pc[c] \in HeldPcs
  BY <1>2
  DEF SagainPcs, FlagPcs, EndPcs, SealPcs, MidTx, TxPcs, HeldPcs, AfterPcs, RewardPcs
<1>4. Acts(c) /\ blk[c] = Tip /\ blk'[c] = blk[c] /\ base'[c] = base[c]
  BY <1>1, <1>3 DEF Acts, Owns, Local, AtTip
<1>5. Tip' = Tip /\ \A n : Good(c, n)' <=> Good(c, n)
  BY <1>4 DEF Stored, Tip, Good
<1>6. (Won(c)' <=> (Won(c) \/ to = "won")) /\ (Won(c) => Publishing(c))
  BY WonPublishes DEF Won
<1>7. /\ Publishing(c)' => blocks[blk[c]].mining
      /\ Publishing(c) => blocks[blk[c]].mining
  BY <1>1, <1>3 DEF Local, FlagsUp, Publishing
<1>8. Local(c)'
  <2>1. WorkersInPlace(c)'
    BY <1>2, <1>3 DEF WorkersInPlace
  <2>2. AtTip(c)' /\ FlagsUp(c)'
    BY <1>1, <1>3, <1>4, <1>5, <1>7 DEF AtTip, Local, FlagsUp
  <2>3. Live(c)' <=> blocks[blk[c]].mining
    BY <1>2, <1>4, <1>6, <1>7, WonPublishes DEF Live, Publishing, Won
  <2>4. blocks[blk[c]].mining => Live(c)
    BY <1>2 DEF Live
  <2>5. CopyIsExact(c)'
    BY <1>1, <1>4, <2>3, <2>4 DEF Local, CopyIsExact
  <2>6. FoundIsGood(c)'
    BY <1>1, <1>2, <1>4, <1>5 DEF Local, FoundIsGood
  <2>7. PublishedIsGood(c)'
    BY <1>1, <1>4, <1>5, <2>3, <2>4 DEF Local, PublishedIsGood
  <2>8. ValidIsWon(c)'
    BY <1>1, <1>3, <1>4, <1>6 DEF Local, ValidIsWon, Owns
  <2>9. OneReward(c)'
    BY <1>1, <1>3, <1>4 DEF Local, OneReward, Held, Rewards
  <2> QED
    BY <2>1, <2>2, <2>5, <2>6, <2>7, <2>8, <2>9 DEF Local
<1>9. Exposed(c)' => Exposed(c)
  BY <1>2, <1>3, <1>4, <1>7 DEF Exposed, Fragile, Publishing
<1>10. Held(c)'
  BY <1>3 DEF Held
<1> QED
  BY <1>1, <1>3, <1>4, <1>8, <1>9, <1>10, ActStep

LEMMA WorkerReadSound ==
  ASSUME TypeOK, Sound, NEW c \in Calls, NEW w \in Workers,
         \/ LoopMining(c, w) \/ LoopValidated(c, w) \/ TryNonce(c, w)
         \/ FindNonce(c, w)  \/ CheckMining(c, w)   \/ CheckValidated(c, w)
  PROVE  Sound'
<1> USE DEF LoopMining, LoopValidated, TryNonce, FindNonce, CheckMining, CheckValidated
<1>1. /\ blk[c] \in 1..Len(blocks) /\ blocks[blk[c]] \in Block
      /\ wpc \in [Calls -> [Workers -> WorkerPcs]]
      /\ found \in [Calls -> [Workers -> Nonce]]
      /\ Local(c)
  BY DEF TypeOK, Sound
<1>2. /\ UNCHANGED <<blocks, file, wire, pc, blk, base, fault>>
      /\ Stored(blk[c]) /\ blocks'[blk[c]] = blocks[blk[c]]
  BY DEF WorkerStep, chainVars, threadVars, Stored
<1>3. OthersKept(c)
  BY <1>1, <1>2 DEF OthersKept, WorkerStep, WorkerGo
<1>4. pc[c] = "join"
  BY <1>1 DEF WorkerStep, WorkerGo, Local, WorkersInPlace
<1>5. wpc[c][w] \in PublishPcs => blocks[blk[c]].mining
  <2>1. pc[c] \notin {"clearSagain"} \cup AfterPcs
    BY <1>4 DEF AfterPcs, SealPcs
  <2> QED
    BY <1>1, <2>1 DEF Local, FlagsUp, Publishing
<1>6. PICK from \in WorkerPcs \ {"off", "won", "lost"}, to \in WorkerPcs \ {"off", "won"} :
        /\ wpc[c][w] = from /\ wpc' = [wpc EXCEPT ![c][w] = to]
        /\ to \notin {"setHeader", "setValidated", "won"}
        /\ to \in PublishPcs => blocks[blk[c]].mining
        /\ to = "checkMining" => \/ ~blocks[blk[c]].mining \/ blocks[blk[c]].validated
                                 \/ FindNonce(c, w)
        /\ to = "checkValidated" => from = "checkMining" /\ found' = found
        /\ to = "setNonce" => /\ from = "checkValidated" /\ found' = found
                              /\ ~blocks[blk[c]].validated
  BY <1>5 DEF WorkerStep, WorkerGo, WorkerPcs, PublishPcs
<1>7. \A v \in Workers : wpc'[c][v] = IF v = w THEN to ELSE wpc[c][v]
  BY <1>1, <1>6
<1>8. \A v \in Workers : found'[c][v] = IF v = w THEN found'[c][w] ELSE found[c][v]
  BY <1>1
<1>9. FindNonce(c, w) => Good(c, found'[c][w])
  BY <1>1 DEF Good, is_nonce_valid, Solution
<1>10. /\ to \in {"checkMining", "checkValidated"} /\ blocks[blk[c]].mining =>
            Good(c, found'[c][w]) \/ blocks[blk[c]].validated
       /\ to = "setNonce" => Good(c, found'[c][w])
  <2>1. /\ from \in {"checkMining", "checkValidated"} /\ blocks[blk[c]].mining =>
             Good(c, found[c][w]) \/ blocks[blk[c]].validated
    BY <1>1, <1>4, <1>6 DEF Local, FoundIsGood
  <2>2. to = "setNonce" => blocks[blk[c]].mining
    BY <1>6 DEF PublishPcs
  <2> QED
    BY <1>6, <1>9, <2>1, <2>2
<1>11. WorkerMove(c, w, from, to, found'[c][w], blocks[blk[c]])
  BY <1>2, <1>6, <1>7, <1>8 DEF WorkerMove
<1>12. WorkerKeeps(c, to, found'[c][w], blocks[blk[c]])
  BY <1>6, <1>10 DEF WorkerKeeps
<1> QED
  BY <1>1, <1>3, <1>11, <1>12, WorkerStepSound

LEMMA PublishSound ==
  ASSUME TypeOK, Sound, NEW c \in Calls, NEW w \in Workers,
         SetNonce(c, w) \/ SetHeader(c, w) \/ SetValidated(c, w)
  PROVE  Sound'
<1> DEFINE b == blocks[blk[c]]
<1>1. /\ blk[c] \in 1..Len(blocks) /\ b \in Block
      /\ wpc \in [Calls -> [Workers -> WorkerPcs]]
      /\ found[c][w] \in Nonce /\ base[c] \in SUBSET Tx
      /\ Local(c)
  BY DEF TypeOK, Sound
<1>2. PICK from \in PublishPcs \ {"checkValidated"}, to \in WorkerPcs \ {"off"}, r \in Block :
        /\ WorkerGo(c, w, from, to) /\ blocks' = [blocks EXCEPT ![blk[c]] = r]
        /\ r.previous = b.previous
        /\ UNCHANGED <<file, wire, pc, blk, base, fault, found>>
        /\ \/ /\ from = "setNonce" /\ to = "setHeader"
              /\ r = [b EXCEPT !.nonce = found[c][w]]
           \/ /\ from = "setHeader" /\ to = "setValidated"
              /\ r = [b EXCEPT !.header = base[c]]
           \/ /\ from = "setValidated" /\ to = "won"
              /\ r = [b EXCEPT !.validated = TRUE]
  <2>1. CASE SetNonce(c, w)
    <3>1. /\ [b EXCEPT !.nonce = found[c][w]] \in Block
          /\ [b EXCEPT !.nonce = found[c][w]].previous = b.previous
      BY <1>1 DEF Block
    <3> QED
      BY <2>1, <3>1 DEF SetNonce, Publish, PublishPcs, WorkerPcs, threadVars
  <2>2. CASE SetHeader(c, w)
    <3>1. /\ [b EXCEPT !.header = base[c]] \in Block
          /\ [b EXCEPT !.header = base[c]].previous = b.previous
      BY <1>1 DEF Block
    <3> QED
      BY <2>2, <3>1 DEF SetHeader, Publish, PublishPcs, WorkerPcs, threadVars
  <2>3. CASE SetValidated(c, w)
    <3>1. /\ [b EXCEPT !.validated = TRUE] \in Block
          /\ [b EXCEPT !.validated = TRUE].previous = b.previous
      BY <1>1 DEF Block
    <3> QED
      BY <2>3, <3>1 DEF SetValidated, Publish, PublishPcs, WorkerPcs, threadVars
  <2> QED
    BY <2>1, <2>2, <2>3
<1>3. /\ wpc[c][w] = from /\ wpc' = [wpc EXCEPT ![c][w] = to]
      /\ from \in WorkerPcs \ {"off", "won", "lost"}
  BY <1>2 DEF WorkerGo, WorkerPcs, PublishPcs
<1>4. OthersKept(c)
  BY <1>1, <1>2, <1>3 DEF OthersKept
<1>5. pc[c] = "join" /\ pc[c] \notin {"clearSagain"} \cup AfterPcs
  BY <1>1, <1>3 DEF Local, WorkersInPlace, AfterPcs, SealPcs
<1>6. b.mining
  BY <1>1, <1>2, <1>3, <1>5 DEF Local, FlagsUp, Publishing
<1>7. /\ Good(c, found[c][w])
      /\ from \in {"setHeader", "setValidated"} => Good(c, b.nonce)
      /\ from = "setValidated" => b.header = base[c]
  <2>1. from \in {"setNonce", "setHeader", "setValidated"}
    BY <1>2
  <2> QED
    BY <1>1, <1>3, <1>5, <1>6, <2>1 DEF Local, FoundIsGood, PublishedIsGood, Live
<1>8. WorkerMove(c, w, from, to, found[c][w], r)
  <2>1. Stored(blk[c]) /\ blocks'[blk[c]] = r
    BY <1>1, <1>2, StoreEffect
  <2> QED
    BY <1>1, <1>2, <1>3, <2>1 DEF WorkerMove
<1>9. WorkerKeeps(c, to, found[c][w], r)
  <2>1. CASE from = "setNonce"
    <3>1. /\ r.txs = b.txs /\ r.stamp = b.stamp /\ r.mining = b.mining
          /\ r.sagain = b.sagain /\ r.validated = b.validated
          /\ r.header = b.header /\ r.nonce = found[c][w] /\ to = "setHeader"
      BY <1>1, <1>2, <2>1 DEF Block
    <3> QED
      BY <1>6, <1>7, <3>1 DEF WorkerKeeps
  <2>2. CASE from = "setHeader"
    <3>1. /\ r.txs = b.txs /\ r.stamp = b.stamp /\ r.mining = b.mining
          /\ r.sagain = b.sagain /\ r.validated = b.validated
          /\ r.header = base[c] /\ r.nonce = b.nonce /\ to = "setValidated"
      BY <1>1, <1>2, <2>2 DEF Block
    <3> QED
      BY <1>6, <1>7, <2>2, <3>1 DEF WorkerKeeps
  <2>3. CASE from = "setValidated"
    <3>1. /\ r.txs = b.txs /\ r.stamp = b.stamp /\ r.mining = b.mining
          /\ r.sagain = b.sagain /\ r.validated
          /\ r.header = b.header /\ r.nonce = b.nonce /\ to = "won"
      BY <1>1, <1>2, <2>3 DEF Block
    <3> QED
      BY <1>6, <1>7, <2>3, <3>1 DEF WorkerKeeps
  <2> QED
    BY <1>2, <2>1, <2>2, <2>3
<1> QED
  BY <1>3, <1>4, <1>8, <1>9, WorkerStepSound

-----------------------------------------------------------------------------
(***************************************************************************)
(* The end of mine_and_next.                                               *)
(***************************************************************************)
LEMMA WonHere ==
  ASSUME TypeOK, Sound, NEW c \in Calls, Won(c), pc[c] \in AfterPcs
  PROVE  /\ blk[c] = Tip /\ Owns(c) /\ Acts(c) /\ Local(c)
         /\ blocks[Tip].validated /\ Solved(Tip) /\ blocks[Tip].header = blocks[Tip].txs
         /\ Rewards(Tip) = {<<"reward", c>>}
         /\ \A d \in Calls \ {c} : ~Busy(d) /\ pc[d] \notin SealPcs
<1>1. Local(c) /\ Owns(c) /\ Acts(c) /\ Live(c) /\ Held(c)
  BY DEF Sound, Owns, Acts, Live, Held
<1>2. blk[c] = Tip /\ blocks[Tip].validated /\ Rewards(Tip) = {<<"reward", c>>}
  BY <1>1 DEF Local, AtTip, ValidIsWon, OneReward
<1>3. /\ base[c] = blocks[Tip].txs /\ blocks[Tip].header = base[c]
      /\ Good(c, blocks[Tip].nonce)
  BY <1>1, <1>2 DEF Local, CopyIsExact, PublishedIsGood, Won
<1>4. ASSUME NEW d \in Calls \ {c}
      PROVE  ~Busy(d) /\ pc[d] \notin SealPcs
  <2>1. ~Busy(d)
    BY <1>1, <1>2, <1>4, OthersAway DEF Busy, Sound, Local, AtTip
  <2> QED
    BY <1>4, <2>1, SealersWon DEF Sound, Busy
<1> QED
  BY <1>1, <1>2, <1>3, <1>4 DEF Solved, Good

\* A thread with a winner goes on towards the next block.
LEMMA AfterStep ==
  ASSUME TypeOK, Sound, NEW c \in Calls, OthersKept(c), Won(c), pc[c] \in AfterPcs,
         pc'[c] \in SealPcs, UNCHANGED <<blocks, fault, blk, base, wpc, found>>,
         FileIs', WireIs'
  PROVE  Sound'
<1>1. /\ Local(c) /\ blk[c] = Tip /\ Acts(c)
      /\ \A d \in Calls \ {c} : ~Busy(d)
  BY WonHere
<1>2. /\ pc[c] \notin SagainPcs \cup {"join"} \cup MidTx \cup HeldPcs
      /\ pc[c] \notin {"rwStamp", "setMining", "setSagain"}
      /\ pc'[c] \notin SagainPcs \cup {"join", "clean"} \cup MidTx \cup HeldPcs
      /\ pc'[c] \notin Inside \cup {"rwClear"} /\ pc'[c] \in AfterPcs
      /\ pc'[c] \notin {"rwStamp", "setMining", "setSagain"}
  BY DEF AfterPcs, SealPcs, SagainPcs, FlagPcs, EndPcs, MidTx, TxPcs, Inside, RewardPcs,
     HeldPcs
<1>3. Won(c)' /\ Owns(c) /\ Owns(c)'
  BY DEF Won, Owns
<1>4. Local(c)'
  <2>1. WorkersInPlace(c)'
    BY <1>1, <1>2, <1>3 DEF Local, WorkersInPlace, AfterPcs, SealPcs
  <2>2. AtTip(c)' /\ FlagsUp(c)'
    BY <1>1, <1>2, <1>3 DEF AtTip, FlagsUp, Tip
  <2>3. CopyIsExact(c)' /\ FoundIsGood(c)' /\ PublishedIsGood(c)'
    BY <1>1, <1>2 DEF Local, CopyIsExact, FoundIsGood, PublishedIsGood, Live, Good
  <2>4. ValidIsWon(c)' /\ OneReward(c)'
    BY <1>1, <1>2, <1>3 DEF Local, ValidIsWon, OneReward, Held, Rewards, Won
  <2> QED
    BY <2>1, <2>2, <2>3, <2>4 DEF Local
<1>5. ASSUME NEW d \in Calls \ {c}
      PROVE  Local(d)' /\ Pair(c, d)' /\ Pair(d, c)'
  <2>1. Local(d)'
    BY <1>1, <1>5, LocalIdle DEF Sound
  <2>2. pc'[d] = pc[d] /\ ~Busy(d) /\ ~Owns(d)'
    BY <1>1, <1>5 DEF OthersKept, Busy, Owns, Won
  <2>3. blk[d] = Tip => (pc[d] \in MidTx => ~Exposed(c))
    BY <1>1, <1>5, OthersAway
  <2>4. Exposed(c)
    BY <1>1, FragileIs, WonPublishes DEF Local, Exposed
  <2>5. Pair(c, d)'
    BY <1>1, <1>2, <2>2, <2>3, <2>4 DEF Pair, Alone, NotDisturbed, Busy, OthersKept
  <2>6. Pair(d, c)'
    BY <1>2, <2>2 DEF Pair, Alone, NotDisturbed
  <2> QED
    BY <2>1, <2>5, <2>6
<1>6. \A d, e \in Calls \ {c} : Pair(d, e)'
  BY PairKept DEF Sound
<1>7. RewardIsHeld'
  BY <1>1, <1>3 DEF RewardIsHeld, Held, Tip
<1>8. SealedAreSound'
  <2>1. \A b : Rewards(b)' = Rewards(b) /\ Solved(b)' = Solved(b)
    BY SameDump
  <2> QED
    BY <2>1 DEF Sound, SealedAreSound, SoundBlock
<1> QED
  BY <1>4, <1>5, <1>6, <1>7, <1>8, Assemble DEF Sound

LEMMA RecheckSound ==
  ASSUME TypeOK, Sound, NEW c \in Calls, Recheck(c), ~raced'
  PROVE  Sound'
<1>1. /\ pc[c] = "recheck" /\ pc[c] \in AfterPcs /\ pc[c] \notin SealPcs \cup HeldPcs
      /\ UNCHANGED <<blocks, file, wire, fault>>
  BY DEF Recheck, At, AfterPcs, SealPcs, HeldPcs, chainVars
<1>2. OthersKept(c)
  BY DEF Recheck, OthersKept, At, TypeOK, DropLocals, workerVars
<1>3. CASE get_current_block.validated
  <2>1. Won(c)
    BY <1>3 DEF Recheck, Won
  <2>2. pc'[c] = "propagate" /\ UNCHANGED <<blk, base, wpc, found>>
    BY <1>3 DEF Recheck, At, TypeOK, workerVars
  <2>3. FileIs' /\ WireIs'
    <3>1. \A e \in Calls, p \in {"seal", "save", "push"} : pc'[e] = p <=> pc[e] = p
      BY <1>1, <1>2, <2>2 DEF OthersKept
    <3>2. /\ (\E e \in Calls : pc[e] = "push") <=> (\E e \in Calls : pc'[e] = "push")
          /\ (\E e \in Calls : pc'[e] \in {"seal", "save", "push"}) =>
               \E e \in Calls : pc[e] \in {"seal", "save", "push"}
      BY <3>1
    <3> QED
      BY <1>1, <3>2, GlobalRead DEF Sound
  <2>4. pc'[c] \in SealPcs
    BY <2>2 DEF SealPcs
  <2> QED
    BY <1>1, <1>2, <2>1, <2>2, <2>3, <2>4, AfterStep
<1>4. CASE ~get_current_block.validated
  <2>1. ~Won(c)
    BY <1>1, <1>4, WonHere DEF get_current_block
  <2>2. pc'[c] = "done" /\ \A w \in Workers : wpc'[c][w] = "off"
    BY <1>4 DEF Recheck, At, TypeOK, DropLocals
  <2>3. ~Held(c)
    BY <1>1, <2>1 DEF Held
  <2> QED
    BY <1>1, <1>2, <2>2, <2>3, AwayStep DEF AwayPcs
<1> QED
  BY <1>3, <1>4

LEMMA PropagateSound ==
  ASSUME TypeOK, Sound, NEW c \in Calls, Propagate(c) \/ Seal(c) \/ Save(c)
  PROVE  Sound'
<1> USE DEF Propagate, Seal, Save
<1>1. /\ pc[c] \in {"propagate", "seal", "save"} /\ pc[c] \in AfterPcs
      /\ pc[c] \in SealPcs
  BY DEF Go, Throw, At, AfterPcs, SealPcs
<1>2. Won(c)
  BY <1>1 DEF Sound, Local, WorkersInPlace
<1>3. /\ blk[c] = Tip /\ blocks[Tip].validated /\ Solved(Tip)
      /\ blocks[Tip].header = blocks[Tip].txs
      /\ \A d \in Calls \ {c} : pc[d] \notin SealPcs
      /\ Tip \in Nat
  BY <1>1, <1>2, WonHere DEF TypeOK, Tip
<1>4. Valid = 1..Len(blocks) /\ \A b \in Valid : Dumpable(b)
  <2>1. \A b \in 1..Len(blocks) : b # Tip => b \in 1..(Len(blocks) - 1)
    BY <1>3 DEF Tip
  <2>2. \A b \in 1..Len(blocks) : blocks[b].validated /\ Solved(b)
    BY <1>3, <2>1 DEF Sound, SealedAreSound, SoundBlock
  <2> QED
    BY <2>2 DEF Valid, Dumpable, Solved
<1>5. /\ \/ pc[c] = "propagate" /\ pc'[c] = "seal" /\ wire' = wire \cup {Dump(Tip)}
            /\ file' = file
         \/ pc[c] = "seal" /\ pc'[c] = "save" /\ UNCHANGED <<file, wire>>
         \/ pc[c] = "save" /\ pc'[c] = "push" /\ wire' = wire
            /\ file' = {Dump(b) : b \in Valid}
      /\ UNCHANGED <<blocks, fault, blk, base, wpc, found>>
  BY <1>3, <1>4 DEF Go, At, TypeOK, chainVars, workerVars, get_current_block
<1>6. OthersKept(c)
  BY <1>5 DEF OthersKept, Go, Throw, At, TypeOK
<1>7. \A b : Dump(b)' = Dump(b)
  BY <1>5, SameDump
<1>8. FileIs'
  <2>1. ~\E e \in Calls : pc[e] = "push"
    BY <1>3, <1>5 DEF SealPcs
  <2>2. Saved' = IF pc'[c] = "push" THEN Valid ELSE Saved
    BY <1>3, <1>4, <1>5, <1>6, <2>1 DEF Saved, OthersKept, SealPcs
  <2>3. CASE pc'[c] = "push"
    BY <1>5, <1>7, <2>2, <2>3 DEF FileIs
  <2>4. CASE pc'[c] # "push"
    BY <1>5, <1>7, <2>2, <2>4 DEF FileIs, Sound
  <2> QED
    BY <2>3, <2>4
<1>9. WireIs'
  <2>1. Reloads(Dump(Tip))
    BY <1>3 DEF Reloads, Dump, fill_block_hash, Solved
  <2>2. \A d \in wire' : Reloads(d)'
    <3>1. \A d \in wire' : Reloads(d)
      BY <1>5, <2>1 DEF Sound, WireIs
    <3> QED
      BY <3>1 DEF Reloads, is_nonce_valid, fill_block_hash
  <2>3. wire \subseteq wire' /\ Dump(Tip) \in wire'
    BY <1>5 DEF Sound, WireIs
  <2>4. \A b \in 2..(Len(blocks) - 1) : Dump(b) \in wire'
    BY <2>3 DEF Sound, WireIs
  <2> QED
    BY <1>5, <1>7, <2>2, <2>3, <2>4 DEF WireIs, Tip
<1>10. pc'[c] \in SealPcs
  BY <1>5 DEF SealPcs
<1> QED
  BY <1>1, <1>2, <1>5, <1>6, <1>8, <1>9, <1>10, AfterStep

LEMMA PushBlockSound ==
  ASSUME TypeOK, Sound, NEW c \in Calls, PushBlock(c)
  PROVE  Sound'
<1> DEFINE r == PendingBlock(get_hash(get_current_block))
<1>1. /\ pc[c] = "push" /\ pc[c] \in AfterPcs /\ pc[c] \in SealPcs
  BY DEF PushBlock, Go, Throw, At, AfterPcs, SealPcs
<1>2. Won(c) /\ Len(blocks) \in Nat /\ Len(blocks) >= 2 /\ blocks \in Seq(Block)
  BY <1>1 DEF Sound, Local, WorkersInPlace, TypeOK
<1>3. /\ blk[c] = Tip /\ blocks[Tip].validated /\ Solved(Tip)
      /\ blocks[Tip].header = blocks[Tip].txs
      /\ Rewards(Tip) = {<<"reward", c>>}
      /\ \A d \in Calls \ {c} : ~Busy(d) /\ pc[d] \notin SealPcs
  BY <1>1, <1>2, WonHere
<1>4. /\ pc'[c] = "done" /\ blocks' = Append(blocks, r)
      /\ \A w \in Workers : wpc'[c][w] = "off"
      /\ UNCHANGED <<file, wire, fault>>
  BY <1>3 DEF PushBlock, Go, At, TypeOK, DropLocals, get_current_block
<1>5. OthersKept(c)
  BY DEF PushBlock, OthersKept, Go, Throw, At, TypeOK, DropLocals, workerVars
<1>6. r.txs = {} /\ r.previous = get_hash(blocks[Tip])
  BY DEF PendingBlock, get_current_block
<1>7. r \in Block
  <2>1. blocks[Tip] \in Block
    BY <1>2 DEF Tip
  <2> QED
    BY <2>1, HashType, PendingBlockType DEF get_current_block
<1> HIDE DEF r
<1>8. /\ Len(blocks') = Len(blocks) + 1
      /\ \A b \in 1..Len(blocks) : blocks'[b] = blocks[b]
      /\ blocks'[Len(blocks) + 1] = r
  BY <1>2, <1>4, <1>7
<1>9. \A b \in 1..Len(blocks) :
        Dump(b)' = Dump(b) /\ Rewards(b)' = Rewards(b) /\ Solved(b)' = Solved(b)
  BY <1>8, SameDump
<1>10. Local(c)' /\ \A d \in Calls : Pair(c, d)' /\ Pair(d, c)'
  BY <1>4, IdleNext, IdlePairs, AwayPairs DEF AwayPcs, IdlePcs
<1>11. \A d \in Calls \ {c} : Local(d)'
  BY <1>3, <1>5, LocalIdle DEF Sound
<1>12. ASSUME NEW d \in Calls \ {c}, NEW e \in Calls \ {c}
       PROVE  Pair(d, e)'
  <2>1. pc[d] # "join"
    BY <1>3, <1>12 DEF Busy, Owns, SagainPcs, FlagPcs
  <2> QED
    BY <1>5, <1>12, <2>1, PairKept DEF Sound
<1>13. SealedAreSound'
  <2> SUFFICES ASSUME NEW b \in 1..Len(blocks)
               PROVE  SoundBlock(b)'
    BY <1>2, <1>8 DEF SealedAreSound
  <2>1. CASE b = Tip
    <3>1. Cardinality(Rewards(b)) = 1
      BY <1>3, <2>1, FS_Singleton
    <3>2. blocks'[b + 1].previous = get_hash(blocks[b])
      BY <1>6, <1>8, <2>1 DEF Tip
    <3> QED
      BY <1>3, <1>8, <1>9, <2>1, <3>1, <3>2 DEF SoundBlock, get_hash
  <2>2. CASE b # Tip
    <3>1. b \in 1..(Len(blocks) - 1) /\ b + 1 \in 1..Len(blocks)
      BY <1>2, <2>2 DEF Tip
    <3> QED
      BY <1>8, <1>9, <3>1 DEF Sound, SealedAreSound, SoundBlock, get_hash
  <2> QED
    BY <2>1, <2>2
<1>14. RewardIsHeld'
  <2>1. Rewards(Tip)' = {}
    BY <1>6, <1>8 DEF Rewards, Tip
  <2> QED
    BY <2>1 DEF RewardIsHeld
<1>15. FileIs'
  <2>1. Saved = 1..Len(blocks)
    BY <1>1 DEF Saved
  <2>2. ~\E e \in Calls : pc'[e] = "push"
    BY <1>3, <1>4, <1>5 DEF OthersKept, SealPcs
  <2>3. Saved' = 1..Len(blocks)
    BY <1>2, <1>8, <2>2 DEF Saved
  <2> QED
    BY <1>4, <1>9, <2>1, <2>3 DEF Sound, FileIs
<1>16. WireIs'
  <2>1. \A b \in 2..Len(blocks) : Dump(b) \in wire
    <3>1. Dump(Tip) \in wire
      BY <1>1 DEF Sound, WireIs
    <3>2. \A b \in 2..Len(blocks) : b = Tip \/ b \in 2..(Len(blocks) - 1)
      BY <1>2 DEF Tip
    <3> QED
      BY <3>1, <3>2 DEF Sound, WireIs
  <2>2. \A b \in 2..(Len(blocks') - 1) : Dump(b)' \in wire'
    BY <1>2, <1>4, <1>8, <1>9, <2>1
  <2>3. ~\E e \in Calls : pc'[e] \in {"seal", "save", "push"}
    BY <1>3, <1>4, <1>5 DEF OthersKept, SealPcs
  <2>4. \A d \in wire' : Reloads(d)'
    BY <1>4 DEF Sound, WireIs, Reloads, is_nonce_valid, fill_block_hash
  <2> QED
    BY <2>2, <2>3, <2>4 DEF WireIs
<1> QED
  BY <1>4, <1>10, <1>11, <1>12, <1>13, <1>14, <1>15, <1>16, Assemble DEF Sound

-----------------------------------------------------------------------------
(***************************************************************************)
(* The invariant of the specification.                                     *)
(***************************************************************************)
LEMMA SoundAtStart == Init => Sound
<1> SUFFICES ASSUME Init
             PROVE  Sound
  OBVIOUS
<1>1. /\ blocks = <<GenesisBlock, PendingBlock(get_hash(GenesisBlock))>>
      /\ fault = "none" /\ wire = {} /\ Len(blocks) = 2 /\ Tip = 2
      /\ blocks[1] = GenesisBlock
      /\ blocks[2] = PendingBlock(get_hash(GenesisBlock))
  BY DEF Init, Tip
<1>2. \A c \in Calls : pc[c] = "idle" /\ \A w \in Workers : wpc[c][w] = "off"
  BY DEF Init
<1>3. ASSUME NEW c \in Calls
      PROVE  Local(c) /\ ~Owns(c) /\ pc[c] \notin MidTx
  <2>1. /\ pc[c] \notin Inside \cup SagainPcs \cup HeldPcs \cup AfterPcs \cup SealPcs
        /\ pc[c] \notin {"join", "rwStamp", "setMining", "setSagain", "endHash", "clean"}
        /\ pc[c] \notin MidTx
    BY <1>2, IdlePcsApart DEF IdlePcs, AwayPcs, MidTx, TxPcs
  <2>2. ~Won(c) /\ ~Publishing(c)
    BY <1>2 DEF Won, Publishing, PublishPcs
  <2>3. WorkersInPlace(c) /\ AtTip(c) /\ FlagsUp(c)
    BY <1>2, <2>1, <2>2 DEF WorkersInPlace, AtTip, FlagsUp, Owns
  <2>4. CopyIsExact(c) /\ FoundIsGood(c) /\ PublishedIsGood(c) /\ ValidIsWon(c)
        /\ OneReward(c)
    BY <2>1, <2>2 DEF CopyIsExact, FoundIsGood, PublishedIsGood, ValidIsWon, OneReward,
       Live, Owns, Held
  <2> QED
    BY <2>1, <2>2, <2>3, <2>4 DEF Local, Owns
<1>4. \A c, d \in Calls : Pair(c, d)
  BY <1>3 DEF Pair, Alone, NotDisturbed
<1>5. SealedAreSound
  <2>1. SoundBlock(1)
    BY <1>1 DEF SoundBlock, Solved, is_nonce_valid, GenesisBlock, Solution, PendingBlock
  <2> QED
    BY <1>1, <2>1 DEF SealedAreSound
<1>6. RewardIsHeld
  BY <1>1 DEF RewardIsHeld, Rewards, PendingBlock
<1>7. FileIs
  <2>1. Saved = {1}
    BY <1>1, <1>2 DEF Saved
  <2>2. Dump(1) = [depth |-> 0, txs |-> {}, stamp |-> Created,
                   nonce |-> GenesisBlock.nonce, previous |-> ZeroHash]
    BY <1>1 DEF Dump, GenesisBlock
  <2> QED
    BY <2>1, <2>2 DEF FileIs, Init
<1>8. WireIs
  BY <1>1, <1>2 DEF WireIs
<1> QED
  BY <1>1, <1>3, <1>4, <1>5, <1>6, <1>7, <1>8 DEF Sound

\* Nothing takes the history variable back.
LEMMA RacedStays == [Next]_vars /\ raced => raced'
<1> SUFFICES ASSUME [Next]_vars, raced
             PROVE  raced'
  OBVIOUS
<1>1. ASSUME NEW c \in Calls, NEW w \in Workers, WorkerMoves(c, w)
      PROVE  raced'
  BY <1>1 DEF WorkerMoves, LoopMining, LoopValidated, TryNonce, FindNonce, CheckMining,
     CheckValidated, SetNonce, SetHeader, SetValidated, WorkerStep, Publish
<1>2. ASSUME NEW c \in Calls, Begin(c) \/ CallMoves(c)
      PROVE  raced'
  BY <1>2 DEF Begin, SubmitTransaction, ReceiveBadTransaction, StartMiningNow, CallMoves,
     AddTransaction, ClearMining, PushTransaction, Invalidate, GenerateTimestamp,
     AskAutoMining, CountPending, Interrupt, Trespass
<1>3. ASSUME NEW c \in Calls, ThreadMoves(c)
      PROVE  raced'
  BY <1>3 DEF ThreadMoves, StartThread, Mine, SpinOnMining, SpinAgain, LeaveSpin,
     AddReward, ClearMining, PushTransaction, Invalidate, GenerateTimestamp, SetMining,
     SetSagain, StartWorkers, JoinWorkers, EndCheckMining, EndCheckValidated, EndHash,
     CleanBlock, EndMining, EndSagain, Recheck, Propagate, Seal, Save, PushBlock, Trespass
<1> QED
  BY <1>1, <1>2, <1>3 DEF Next, ToggleAutoMining, vars

LEMMA SoundWhenIdle ==
  ASSUME Sound, UNCHANGED <<chainVars, threadVars, workerVars, fault>>
  PROVE  Sound'
<1> USE DEF chainVars, threadVars, workerVars
<1>1. \A c \in Calls : Local(c)'
  BY DEF Sound, Local, WorkersInPlace, AtTip, FlagsUp, CopyIsExact, FoundIsGood,
     PublishedIsGood, ValidIsWon, OneReward, Won, Publishing, Owns, Live, Held, Good,
     Rewards, Tip
<1>2. \A c, d \in Calls : Pair(c, d)'
  BY DEF Sound, Pair, Alone, NotDisturbed, Owns, Won, Fragile
<1>3. SealedAreSound' /\ FileIs' /\ WireIs'
  BY GlobalRead DEF Sound
<1>4. RewardIsHeld'
  BY DEF Sound, RewardIsHeld, Rewards, Tip, Held, Won
<1> QED
  BY <1>1, <1>2, <1>3, <1>4 DEF Sound

LEMMA SoundStep ==
  ASSUME TypeOK, Sound, [Next]_vars, ~raced'
  PROVE  Sound'
<1>1. ASSUME ToggleAutoMining \/ UNCHANGED vars
      PROVE  Sound'
  BY <1>1, SoundWhenIdle DEF ToggleAutoMining, vars, chainVars, threadVars, workerVars
<1>2. ASSUME NEW c \in Calls, Begin(c) \/ CallMoves(c)
      PROVE  Sound'
  BY <1>2, BeginSound, TransactionSound, InterruptSound DEF CallMoves
<1>3. ASSUME NEW c \in Calls, ThreadMoves(c)
      PROVE  Sound'
  <2>1. CASE StartThread(c) \/ SpinOnMining(c) \/ SpinAgain(c)
    BY <2>1, BeginSound
  <2>2. CASE LeaveSpin(c)
    BY <2>2, LeaveSpinSound
  <2>3. CASE AddReward(c) \/ SetMining(c) \/ SetSagain(c)
    BY <2>3, InsideSound
  <2>4. CASE StartWorkers(c)
    BY <2>4, StartWorkersSound
  <2>5. CASE JoinWorkers(c) \/ EndCheckMining(c) \/ EndCheckValidated(c) \/ EndHash(c)
    BY <2>5, EndReadSound
  <2>6. CASE CleanBlock(c) \/ EndMining(c)
    BY <2>6, EndStoreSound
  <2>7. CASE EndSagain(c)
    BY <2>7, EndSagainSound
  <2>8. CASE Recheck(c)
    BY <2>8, RecheckSound
  <2>9. CASE Propagate(c) \/ Seal(c) \/ Save(c)
    BY <2>9, PropagateSound
  <2>10. CASE PushBlock(c)
    BY <2>10, PushBlockSound
  <2> QED
    BY <1>3, <2>1, <2>2, <2>3, <2>4, <2>5, <2>6, <2>7, <2>8, <2>9, <2>10
    DEF ThreadMoves, Mine
<1>4. ASSUME NEW c \in Calls, NEW w \in Workers, WorkerMoves(c, w)
      PROVE  Sound'
  BY <1>4, WorkerReadSound, PublishSound DEF WorkerMoves
<1> QED
  BY <1>1, <1>2, <1>3, <1>4 DEF Next

\* Sound is inductive: every step of every thread preserves it, as long as no
\* thread has stepped into an unprotected window.
THEOREM SoundInvHolds == Spec => []SoundInv
<1>1. Init => SoundInv
  BY InitType, SoundAtStart DEF SoundInv
<1>2. SoundInv /\ [Next]_vars => SoundInv'
  BY NextType, SoundStep, RacedStays DEF SoundInv
<1> QED
  BY <1>1, <1>2, PTL DEF Spec

-----------------------------------------------------------------------------
(***************************************************************************)
(* The properties.                                                         *)
(***************************************************************************)
\* Mining is safe outside of the windows: however many calls add transactions
\* to a block that is being mined, interrupt it or mine it again, every sealed
\* block is valid, is that of its transactions and pays one reward, names the
\* hash of the one before, and no exception escapes a thread.
THEOREM SealedSound == Spec => []SoundUnlessRaced
<1>1. SoundInv => SoundUnlessRaced
  BY DEF SoundInv, Sound, SealedAreSound, SoundUnlessRaced
<1> QED
  BY <1>1, SoundInvHolds, PTL

\* blockchain.vili holds the blocks of the chain as Chain::save found them, and
\* the next start will load every one of them.
THEOREM FileReloads == Spec => []FileReloadsUnlessRaced
<1>1. ASSUME TypeOK, Sound
      PROVE  /\ \E n \in {Len(blocks) - 1, Len(blocks)} : file = {Dump(b) : b \in 1..n}
             /\ \A d \in file : Reloads(d)
  <2>1. Len(blocks) \in Nat
    BY <1>1 DEF TypeOK
  <2>2. PICK n \in {Len(blocks) - 1, Len(blocks)} :
          Saved = 1..n /\ (n = Len(blocks) => \E c \in Calls : pc[c] = "push")
    BY DEF Saved
  <2>3. file = {Dump(b) : b \in 1..n}
    BY <1>1, <2>2 DEF Sound, FileIs
  <2>4. ASSUME NEW b \in 1..n
        PROVE  Solved(b) /\ blocks[b].header = blocks[b].txs
    <3>1. CASE b \in 1..(Len(blocks) - 1)
      BY <1>1, <3>1 DEF Sound, SealedAreSound, SoundBlock
    <3>2. CASE b \notin 1..(Len(blocks) - 1)
      <4>1. n = Len(blocks) /\ b = Tip
        BY <2>1, <2>2, <3>2 DEF Tip
      <4>2. PICK c \in Calls : pc[c] = "push"
        BY <2>2, <4>1
      <4>3. Won(c) /\ pc[c] \in AfterPcs
        BY <1>1, <4>2 DEF Sound, Local, WorkersInPlace, AfterPcs, SealPcs
      <4> QED
        BY <1>1, <4>1, <4>3, WonHere
    <3> QED
      BY <3>1, <3>2
  <2>5. \A b \in 1..n : Reloads(Dump(b))
    BY <2>4 DEF Reloads, Dump, fill_block_hash, Solved
  <2> QED
    BY <2>3, <2>5
<1>2. SoundInv => FileReloadsUnlessRaced
  BY <1>1 DEF SoundInv, FileReloadsUnlessRaced
<1> QED
  BY <1>2, SoundInvHolds, PTL

\* mine_and_next hands every sealed block to propagate, and only blocks that a
\* peer can validate.
THEOREM WireCarriesTheChain == Spec => []WireUnlessRaced
<1>1. SoundInv => WireUnlessRaced
  BY DEF SoundInv, Sound, WireIs, WireUnlessRaced
<1> QED
  BY <1>1, SoundInvHolds, PTL

LEMMA SealedStep ==
  ASSUME TypeOK, Sound, [Next]_vars, ~raced', NEW b \in 1..(Len(blocks) - 1)
  PROVE  blocks'[b] = blocks[b]
<1>1. b \in 1..Len(blocks) /\ b # Tip /\ blocks \in Seq(Block)
      /\ Len(blocks) \in Nat
  BY DEF TypeOK, Tip
<1>3. ASSUME NEW c \in Calls, pc[c] \in SagainPcs
      PROVE  blk[c] = Tip
  BY <1>3 DEF Sound, Local, AtTip, Owns
<1>4. ASSUME ToggleAutoMining \/ UNCHANGED vars
      PROVE  blocks'[b] = blocks[b]
  BY <1>4 DEF ToggleAutoMining, vars, chainVars
<1>2. ASSUME NEW c \in Calls, NEW from, NEW to, NEW tx,
             \/ ClearMining(c, from, to) \/ PushTransaction(c, tx, from, to)
             \/ Invalidate(c, from, to)  \/ GenerateTimestamp(c, tx, from, to)
      PROVE  blocks'[b] = blocks[b]
  <2>1. blk[c] = Tip
    BY <1>2 DEF ClearMining, PushTransaction, Invalidate, GenerateTimestamp, Trespass
  <2> QED
    BY <1>1, <1>2, <2>1 DEF ClearMining, PushTransaction, Invalidate, GenerateTimestamp
<1>5. ASSUME NEW c \in Calls, Begin(c) \/ CallMoves(c)
      PROVE  blocks'[b] = blocks[b]
  <2>1. CASE AddTransaction(c)
    BY <1>2, <2>1 DEF AddTransaction
  <2>2. CASE Interrupt(c)
    BY <1>1, <2>2 DEF Interrupt
  <2>3. CASE ~AddTransaction(c) /\ ~Interrupt(c)
    BY <1>5, <2>3 DEF Begin, SubmitTransaction, ReceiveBadTransaction, StartMiningNow,
       CallMoves, AskAutoMining, CountPending, chainVars
  <2> QED
    BY <2>1, <2>2, <2>3
<1>6. ASSUME NEW c \in Calls, ThreadMoves(c)
      PROVE  blocks'[b] = blocks[b]
  <2>1. CASE AddReward(c)
    BY <1>2, <2>1 DEF AddReward
  <2>2. CASE SetMining(c) \/ SetSagain(c)
    <3>1. blk[c] = Tip
      BY <2>2 DEF SetMining, SetSagain, Trespass
    <3> QED
      BY <1>1, <2>2, <3>1 DEF SetMining, SetSagain
  <2>3. CASE CleanBlock(c) \/ EndMining(c) \/ EndSagain(c)
    <3>1. pc[c] \in SagainPcs
      BY <2>3 DEF CleanBlock, EndMining, EndSagain, Go, At, SagainPcs, FlagPcs, EndPcs
    <3>2. blk[c] = Tip
      BY <1>3, <3>1
    <3> QED
      BY <1>1, <2>3, <3>2 DEF CleanBlock, EndMining, EndSagain
  <2>4. CASE PushBlock(c)
    BY <1>1, <2>4 DEF PushBlock
  <2>5. CASE \/ StartThread(c) \/ SpinOnMining(c) \/ SpinAgain(c) \/ LeaveSpin(c)
             \/ StartWorkers(c) \/ JoinWorkers(c) \/ EndCheckMining(c)
             \/ EndCheckValidated(c) \/ EndHash(c) \/ Recheck(c) \/ Propagate(c)
             \/ Seal(c) \/ Save(c)
    BY <2>5 DEF StartThread, SpinOnMining, SpinAgain, LeaveSpin, StartWorkers,
       JoinWorkers, EndCheckMining, EndCheckValidated, EndHash, Recheck, Propagate, Seal,
       Save, chainVars
  <2> QED
    BY <1>6, <2>1, <2>2, <2>3, <2>4, <2>5 DEF ThreadMoves, Mine
<1>7. ASSUME NEW c \in Calls, NEW w \in Workers, WorkerMoves(c, w)
      PROVE  blocks'[b] = blocks[b]
  <2>1. CASE SetNonce(c, w) \/ SetHeader(c, w) \/ SetValidated(c, w)
    <3>1. wpc[c][w] \notin {"off", "won", "lost"}
      BY <2>1 DEF SetNonce, SetHeader, SetValidated, Publish, WorkerGo
    <3>2. pc[c] = "join"
      BY <3>1 DEF Sound, Local, WorkersInPlace
    <3>3. blk[c] = Tip
      BY <1>3, <3>2 DEF SagainPcs, FlagPcs
    <3> QED
      BY <1>1, <2>1, <3>3 DEF SetNonce, SetHeader, SetValidated, Publish
  <2>2. CASE ~(SetNonce(c, w) \/ SetHeader(c, w) \/ SetValidated(c, w))
    BY <1>7, <2>2 DEF WorkerMoves, LoopMining, LoopValidated, TryNonce, FindNonce,
       CheckMining, CheckValidated, WorkerStep, chainVars
  <2> QED
    BY <2>1, <2>2
<1> QED
  BY <1>4, <1>5, <1>6, <1>7 DEF Next

\* No call and no mining thread ever changes a sealed block or drops it.
THEOREM SealedStays == Spec => SealedImmutable
<1>1. SoundInv /\ [Next]_vars =>
        [~raced' => \A b \in 1..(Len(blocks) - 1) : blocks'[b] = blocks[b]]_vars
  BY SealedStep, RacedStays DEF SoundInv
<1> QED
  BY <1>1, SoundInvHolds, PTL DEF Spec, SealedImmutable
=============================================================================
