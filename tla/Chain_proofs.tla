---------------------------- MODULE Chain_proofs ----------------------------
(***************************************************************************)
(* Theorems about Chain, for any processes, payments, reward and bounds.   *)
(***************************************************************************)
EXTENDS Chain, Loops_proofs, SequenceTheorems

-----------------------------------------------------------------------------
(***************************************************************************)
(* The inductive invariant.  Order holds of every process, whatever its    *)
(* threads do.                                                             *)
(***************************************************************************)
\* The parts are about a history h, which is solved, and so have no state.
Histories == Seq([by : Procs, header : Headers])

\* What a valid block says of its place is what was hashed.
Hashed(h, b) ==
  /\ b.id \in DOMAIN h
  /\ h[b.id].header.depth = b.depth /\ h[b.id].header.prev = b.prev

\* A block, or its header, names a block that exists; from depth 2 on one that
\* n mined.
Follows(h, n, b) ==
  /\ b.prev \in 0..Len(h)
  /\ b.depth >= 2 => b.prev \in DOMAIN h /\ h[b.prev].by = n

\* A block in a process's hands: it mined the block, or has no transactions of
\* it.
Held(h, n, b) ==
  /\ Follows(h, n, b) /\ b.id \in 0..Len(h)
  /\ b.valid => Hashed(h, b) /\ (b.txs = <<>> \/ h[b.id].by = n)

\* Blocks in a process's hands, all but the first mined by it.
Home(h, n, s) ==
  \A i \in DOMAIN s : Held(h, n, s[i]) /\ (i > 1 /\ s[i].valid => h[s[i].id].by = n)

Saved(h, n, s) == Home(h, n, s) /\ \A i \in DOMAIN s : s[i].valid \/ s[i] = Torn

Sound(h) == \A i \in DOMAIN h : Follows(h, h[i].by, h[i].header)

\* A message tells of a block that was mined, or of a payment.
Mail(h, m) ==
  IF m.kind = "block"
  THEN m.body.id \in DOMAIN h
  ELSE m.body.from \in Procs /\ m.body.amount >= 0

Process(n) ==
  /\ pc[n].ui \in Starting \cup {"down"} => At(n, "net", "idle") /\ At(n, "miner", "idle")
  /\ pc[n].ui \in {"down", "boot"} => chain[n] = <<>>
  /\ At(n, "ui", "genesis") =>
        Size(n) = 1 /\ ~Tip(n).valid /\ pc[n].miner \notin {"mining", "stopping"}
  /\ Held(solved, n, nothing[n]) /\ nothing[n].depth = 0
  /\ Home(solved, n, chain[n]) /\ Saved(solved, n, file[n])
  /\ \A t \in Threads : Saved(solved, n, snap[n][t])

Order ==
  /\ Sound(solved) /\ \A m \in net : Mail(solved, m)
  /\ \A n \in Procs : Process(n)

-----------------------------------------------------------------------------
(***************************************************************************)
(* Steady holds of a process whose threads have not raced.  f is what      *)
(* precedes the last block b of a chain, m what the miner is doing, back   *)
(* the payments that came back to the process.                             *)
(***************************************************************************)
Says(h, b) == b.id \in DOMAIN h /\ h[b.id].header = Header(b)

\* A block follows the one before it.
Linked(s, i) == i > 1 => s[i].depth = i - 1 /\ s[i].prev = s[i - 1].id

\* What a valid block says was hashed, or it is the copy of a peer's.
Genuine(h, n, b, first) ==
  /\ b.valid /\ b.id \in DOMAIN h
  /\ Says(h, b) \/ (first /\ h[b.id].by # n /\ b.txs = <<>>)

Solvent(n, back, s) == get_funds(s, n) >= - Reward - back

\* Blocks that are sealed.
Closed(h, n, back, s) ==
  \A i \in DOMAIN s :
    Genuine(h, n, s[i], i = 1) /\ Linked(s, i) /\ Solvent(n, back, SubSeq(s, 1, i))

\* A block that is or will be sealed next.
Ends(f, b) == f # <<>> => b.depth = Len(f) /\ b.prev = f[Len(f)].id

Chained(h, n, back, f, b) ==
  /\ Closed(h, n, back, f) /\ Ends(f, b)
  /\ b.valid => Genuine(h, n, b, f = <<>>) /\ Solvent(n, back, Append(f, b))

\* The reward is in the last block while it is mined, and in no open block
\* else; without it the owner is not deeper in debt than one reward.
Bare(b) == \A i \in DOMAIN b.txs : ~is_reward(b.txs[i])

Mined == {"mining", "stopping"}
Seals == {"seal", "write", "push"}

Pays(n, back, f, b, m) ==
  /\ m \in Mined => /\ ~b.valid
                    /\ Income(b.txs, n) = Income(WithoutRewards(b.txs), n) + Reward
  /\ (~b.valid /\ m \notin Mined) \/ m \in {"idle", "dangling"} => Bare(b)
  /\ ~b.valid => get_funds(f, n) + Income(WithoutRewards(b.txs), n) >= - Reward - back
  /\ m \in Seals => b.valid
  /\ f # <<>> /\ b.valid => m \in Seals \cup {"mined"}

\* The server's thread seals a block only while nobody else does, and only in
\* a chain of one.
Relays(f, b, p) ==
  p.net \in Seals =>
    f = <<>> /\ b.valid /\ p.ui # "genesis" /\ p.miner \in {"idle", "dangling", "mined", "seal"}

\* The file has what is sealed, unless a thread is saving it.
Stored(f, b, p, stored, dumps) ==
  /\ {p.net, p.miner} \cap {"write", "push"} = {} => Ids(stored) = Ids(f)
  /\ \A t \in {"net", "miner"} :
       /\ p[t] = "write" => stored = <<>> /\ dumps[t] = Dump(Append(f, b))
       /\ p[t] = "push" => Ids(stored) = Ids(Append(f, b))

\* An entry of the file was hashed so, is a peer's, or was not written whole.
Entry(h, n, s, i) ==
  \/ s[i] = Torn /\ i = Len(s)
  \/ /\ s[i].valid /\ Linked(s, i) /\ s[i].id \in DOMAIN h
     /\ h[s[i].id].header.depth = s[i].depth /\ h[s[i].id].header.prev = s[i].prev
     /\ \/ s[i].txs = Once(h[s[i].id].header.txs)
        \/ i = 1 /\ h[s[i].id].by # n /\ s[i].txs = <<>>

Readable(h, n, back, s) ==
  /\ \A i \in DOMAIN s : Entry(h, n, s, i)
  /\ \A k \in DOMAIN s : (\A i \in 1..k : Says(h, s[i])) => Solvent(n, back, SubSeq(s, 1, k))

Boots(n, back) ==
  pc[n].ui \in Seals =>
    /\ chain[n] # <<>> /\ Closed(solved, n, back, chain[n])
    /\ At(n, "ui", "seal") => \/ Ids(file[n]) = Ids(chain[n])
                              \/ file[n] = <<>> /\ Len(chain[n]) = 1
    /\ At(n, "ui", "write") => file[n] = <<>> /\ snap[n]["ui"] = Dump(chain[n])
    /\ At(n, "ui", "push") => Ids(file[n]) = Ids(chain[n])

Upright(h, n, back, f, b, p, stored, dumps) ==
  /\ Chained(h, n, back, f, b) /\ Pays(n, back, f, b, p.miner)
  /\ Relays(f, b, p) /\ Stored(f, b, p, stored, dumps)

Stands(n, back) ==
  /\ chain[n] = <<>> =>
       file[n] = <<>> /\ At(n, "net", "idle") /\ pc[n].miner \notin {"write", "push"}
  /\ chain[n] # <<>> =>
       Upright(solved, n, back, Front(chain[n]), Tip(n), pc[n], file[n], snap[n])

Steady(n, back) ==
  Readable(solved, n, back, file[n]) /\ Boots(n, back) /\ (Serves(n) => Stands(n, back))

\* A block a process sent itself is not deeper than its chain, and is at the depth
\* of the last block only until that is sealed: set_new_block takes none of them.
Echo(n, m) ==
  /\ m.to = n /\ m.kind = "block"
  /\ m.body.txs # <<>> /\ solved[m.body.id].by = n

Echoes(n) ==
  \A m \in net : Echo(n, m) =>
    \/ m.body.depth = 0 \/ m.body.depth + 1 < Size(n)
    \/ m.body.depth + 1 = Size(n) /\ pc[n].miner \in Seals

\* A chain of one is a process's own, unless the server's thread is sealing a peer's
\* block.
Rooted(n) ==
  Serves(n) /\ Size(n) = 1 =>
    IF pc[n].net \in Seals THEN chain[n][1].txs = <<>> ELSE chain[n][1].depth = 0

Unraced ==
  \A n \in Procs : ~raced[n] => Steady(n, returned[n]) /\ Echoes(n) /\ Rooted(n)

-----------------------------------------------------------------------------
(***************************************************************************)
(* Types of the operators.                                                 *)
(***************************************************************************)
LEMMA PendingType ==
  ASSUME NEW d \in Nat, NEW p \in Nat
  PROVE  PendingBlock(d, p) \in Blocks
BY DEF PendingBlock, Blocks, NoBlock

LEMMA OnceType ==
  ASSUME NEW txs \in Seq(Tx)
  PROVE  Once(txs) \in Seq(Tx)
BY KeptType DEF Once

LEMMA WithoutRewardsType ==
  ASSUME NEW txs \in Seq(Tx)
  PROVE  WithoutRewards(txs) \in Seq(Tx)
BY KeptType DEF WithoutRewards

LEMMA ValidsType ==
  ASSUME NEW s \in Seq(Blocks)
  PROVE  Valids(s) \in Seq(Blocks)
BY KeptType DEF Valids

LEMMA DumpedType ==
  ASSUME NEW b \in Blocks
  PROVE  Dumped(b) \in Blocks
<1>1. Once(b.txs) \in Seq(Tx)
  BY OnceType DEF Blocks
<1>2. QED
  BY <1>1 DEF Dumped, Blocks

\* A function on the places of a sequence is a sequence.
LEMMA MapType ==
  ASSUME NEW T, NEW U, NEW s \in Seq(T), NEW f,
         f = [i \in DOMAIN s |-> f[i]], \A i \in DOMAIN s : f[i] \in U
  PROVE  f \in Seq(U) /\ Len(f) = Len(s)
<1>1. DOMAIN s = 1..Len(s) /\ Len(s) \in Nat
  OBVIOUS
<1>2. f \in [1..Len(s) -> U]
  BY <1>1
<1>3. QED
  BY <1>1, <1>2

LEMMA DumpType ==
  ASSUME NEW s \in Seq(Blocks)
  PROVE  /\ Dump(s) \in Seq(Blocks) /\ Len(Dump(s)) = Len(Valids(s))
         /\ \A i \in DOMAIN Dump(s) : Dump(s)[i] = Dumped(Valids(s)[i])
<1> DEFINE v == Valids(s)
    f == [i \in DOMAIN v |-> Dumped(v[i])]
<1>1. v \in Seq(Blocks)
  BY ValidsType
<1> HIDE DEF v
<1>2. \A i \in DOMAIN v : f[i] \in Blocks
  <2>1. TAKE i \in DOMAIN v
  <2>2. v[i] \in Blocks
    BY <1>1
  <2>3. QED
    BY <2>2, DumpedType
<1>3. f = [i \in DOMAIN v |-> f[i]]
  OBVIOUS
<1>4. f \in Seq(Blocks) /\ Len(f) = Len(v)
  <2> HIDE DEF f
  <2>1. QED
    BY <1>1, <1>2, <1>3, MapType
<1>5. Dump(s) = f
  BY DEF Dump, v
<1>6. QED
  BY <1>1, <1>4, <1>5 DEF v

LEMMA CurrentType ==
  ASSUME TypeOK, NEW n \in Procs
  PROVE  get_current_block(n) \in Blocks
<1>1. chain[n] \in Seq(Blocks) /\ nothing[n] \in Blocks
  BY DEF TypeOK
<1>2. CASE chain[n] = <<>>
  BY <1>1, <1>2 DEF get_current_block
<1>3. CASE chain[n] # <<>>
  <2>1. Len(chain[n]) \in DOMAIN chain[n]
    BY <1>1, <1>3
  <2>2. QED
    BY <1>1, <1>3, <2>1 DEF get_current_block, Tip, Size
<1>4. QED
  BY <1>2, <1>3

LEMMA SetCurrentType ==
  ASSUME TypeOK, NEW n \in Procs, NEW b \in Blocks, SetCurrent(n, b)
  PROVE  chain' \in [Procs -> Seq(Blocks)] /\ nothing' \in [Procs -> Blocks]
<1>1. chain \in [Procs -> Seq(Blocks)] /\ nothing \in [Procs -> Blocks]
  BY DEF TypeOK
<1>2. CASE chain[n] = <<>>
  BY <1>1, <1>2 DEF SetCurrent
<1>3. CASE chain[n] # <<>>
  <2>1. Size(n) \in DOMAIN chain[n]
    BY <1>1, <1>3 DEF Size
  <2>2. [chain[n] EXCEPT ![Size(n)] = b] \in Seq(Blocks)
    BY <1>1, <2>1
  <2>3. chain' = [chain EXCEPT ![n] = [chain[n] EXCEPT ![Size(n)] = b]]
        /\ nothing' = nothing
    BY <1>3 DEF SetCurrent
  <2>4. QED
    BY <1>1, <2>2, <2>3
<1>4. QED
  BY <1>2, <1>3
-----------------------------------------------------------------------------
(***************************************************************************)
(* What the steps have in common.                                          *)
(***************************************************************************)
Pcs == [ui : UiPcs, net : NetPcs, miner : MinerPcs]

\* A thread that goes on leaves the others where they are.
LEMMA GoEffect ==
  ASSUME TypeOK, NEW n \in Procs, NEW t \in Threads, NEW to, Go(n, t, to),
         t = "ui" => to \in UiPcs, t = "net" => to \in NetPcs,
         t = "miner" => to \in MinerPcs
  PROVE  /\ pc' \in [Procs -> Pcs]
         /\ pc'[n][t] = to /\ \A o \in Threads \ {t} : pc'[n][o] = pc[n][o]
         /\ \A p \in Procs \ {n} : pc'[p] = pc[p]
<1>1. pc \in [Procs -> Pcs] /\ pc' = [pc EXCEPT ![n][t] = to]
  BY DEF TypeOK, Go, Pcs
<1>2. CASE t = "ui"
  BY <1>1, <1>2 DEF Pcs, Threads
<1>3. CASE t = "net"
  BY <1>1, <1>3 DEF Pcs, Threads
<1>4. CASE t = "miner"
  BY <1>1, <1>4 DEF Pcs, Threads
<1>5. QED
  BY <1>2, <1>3, <1>4 DEF Threads

LEMMA TornType == Torn \in Blocks
BY PendingType DEF Torn, NoBlock

LEMMA RemainsType ==
  ASSUME TypeOK, NEW n \in Procs, NEW left \in Remains(n)
  PROVE  left \in Seq(Blocks)
<1>1. file[n] \in Seq(Blocks)
  BY DEF TypeOK
<1>2. ASSUME NEW t \in Threads, NEW k \in 0..Len(snap[n][t])
      PROVE  SubSeq(snap[n][t], 1, k) \in Seq(Blocks)
             /\ Append(SubSeq(snap[n][t], 1, k), Torn) \in Seq(Blocks)
  <2>1. snap[n][t] \in Seq(Blocks)
    BY DEF TypeOK
  <2>2. SubSeq(snap[n][t], 1, k) \in Seq(Blocks)
    BY <2>1, <1>2
  <2>3. QED
    BY <2>2, TornType
<1>3. left = file[n]
      \/ \E t \in Threads : \E k \in 0..Len(snap[n][t]) :
           left = SubSeq(snap[n][t], 1, k) \/ left = Append(SubSeq(snap[n][t], 1, k), Torn)
  <2>1. ASSUME left # file[n]
        PROVE  \E t \in Threads : \E k \in 0..Len(snap[n][t]) :
                 left = SubSeq(snap[n][t], 1, k) \/ left = Append(SubSeq(snap[n][t], 1, k), Torn)
    <3>1. PICK t \in Threads :
            left \in {SubSeq(snap[n][t], 1, k) : k \in 0..Len(snap[n][t])}
              \cup {Append(SubSeq(snap[n][t], 1, k), Torn) : k \in 0..Len(snap[n][t]) - 1}
      BY <2>1 DEF Remains
    <3>2. snap[n][t] \in Seq(Blocks)
      BY DEF TypeOK
    <3>3. QED
      BY <3>1, <3>2
  <2>2. QED
    BY <2>1
<1>4. QED
  BY <1>1, <1>2, <1>3

\* A process that dies leaves nothing but its file.
LEMMA DieEffect ==
  ASSUME TypeOK, NEW n \in Procs, Die(n)
  PROVE  /\ chain' \in [Procs -> Seq(Blocks)] /\ nothing' \in [Procs -> Blocks]
         /\ file' \in [Procs -> Seq(Blocks)] /\ pc' \in [Procs -> Pcs]
         /\ snap' \in [Procs -> [Threads -> Seq(Blocks)]] /\ net' \subseteq net
         /\ chain'[n] = <<>> /\ nothing'[n] = PendingBlock(0, NoBlock)
         /\ pc'[n] = Off /\ file'[n] \in Remains(n)
         /\ \A t \in Threads : snap'[n][t] = <<>>
         /\ \A p \in Procs \ {n} :
              /\ chain'[p] = chain[p] /\ nothing'[p] = nothing[p]
              /\ file'[p] = file[p] /\ pc'[p] = pc[p] /\ snap'[p] = snap[p]
<1>1. chain' \in [Procs -> Seq(Blocks)] /\ chain'[n] = <<>>
      /\ \A p \in Procs \ {n} : chain'[p] = chain[p]
  BY DEF Die, TypeOK
<1>2. nothing' \in [Procs -> Blocks] /\ nothing'[n] = PendingBlock(0, NoBlock)
      /\ \A p \in Procs \ {n} : nothing'[p] = nothing[p]
  <2>1. PendingBlock(0, NoBlock) \in Blocks
    BY PendingType DEF NoBlock
  <2>2. QED
    BY <2>1 DEF Die, TypeOK
<1>3. file' \in [Procs -> Seq(Blocks)] /\ file'[n] \in Remains(n)
      /\ \A p \in Procs \ {n} : file'[p] = file[p]
  <2>1. PICK left \in Remains(n) : file' = [file EXCEPT ![n] = left]
    BY DEF Die
  <2>2. left \in Seq(Blocks)
    BY RemainsType
  <2>3. QED
    BY <2>1, <2>2 DEF TypeOK
<1>4. pc' \in [Procs -> Pcs] /\ pc'[n] = Off /\ \A p \in Procs \ {n} : pc'[p] = pc[p]
  BY DEF Die, TypeOK, Pcs, Off, UiPcs, NetPcs, MinerPcs
<1>5. snap' \in [Procs -> [Threads -> Seq(Blocks)]]
      /\ (\A t \in Threads : snap'[n][t] = <<>>)
      /\ \A p \in Procs \ {n} : snap'[p] = snap[p]
  BY DEF Die, TypeOK
<1>6. net' \subseteq net
  BY DEF Die
<1>7. QED
  BY <1>1, <1>2, <1>3, <1>4, <1>5, <1>6
\* The first elements of a sequence.
LEMMA Prefix ==
  ASSUME NEW T, NEW s \in Seq(T), NEW k \in 0..Len(s)
  PROVE  /\ SubSeq(s, 1, k) \in Seq(T) /\ Len(SubSeq(s, 1, k)) = k
         /\ \A i \in 1..k : SubSeq(s, 1, k)[i] = s[i]
<1>1. Len(s) \in Nat
  OBVIOUS
<1>2. SubSeq(s, 1, k) \in Seq(T)
  OBVIOUS
<1>3. Len(SubSeq(s, 1, k)) = k
  BY <1>1
<1>4. \A i \in 1..k : SubSeq(s, 1, k)[i] = s[i]
  BY <1>1
<1>5. QED
  BY <1>2, <1>3, <1>4

\* The last block and what precedes it.
LEMMA FrontAndTip ==
  ASSUME NEW T, NEW s \in Seq(T), s # <<>>
  PROVE  /\ Front(s) \in Seq(T) /\ Len(Front(s)) = Len(s) - 1 /\ s[Len(s)] \in T
         /\ s = Append(Front(s), s[Len(s)])
         /\ \A i \in 1..Len(s) - 1 : Front(s)[i] = s[i]
<1> DEFINE f == SubSeq(s, 1, Len(s) - 1)
    e == Append(f, s[Len(s)])
<1>1. Len(s) \in Nat \ {0} /\ s[Len(s)] \in T
  OBVIOUS
<1>2. f \in Seq(T) /\ Len(f) = Len(s) - 1 /\ \A i \in 1..Len(s) - 1 : f[i] = s[i]
  <2>1. Len(s) - 1 \in 0..Len(s)
    BY <1>1
  <2>2. QED
    BY <2>1, Prefix
<1>3. e \in Seq(T) /\ Len(e) = Len(s)
  <2> HIDE DEF f
  <2>1. QED
    BY <1>1, <1>2
<1>4. \A i \in 1..Len(s) : s[i] = e[i]
  <2> HIDE DEF f
  <2>1. QED
    BY <1>1, <1>2
<1>5. s = e
  <2> HIDE DEF e
  <2>1. QED
    BY <1>3, <1>4, SeqEqual
<1>6. QED
  BY <1>1, <1>2, <1>5 DEF Front

\* A block in the place of the current one.
LEMMA SetCurrentEffect ==
  ASSUME TypeOK, NEW n \in Procs, NEW b \in Blocks, SetCurrent(n, b)
  PROVE  /\ chain[n] = <<>> => chain'[n] = <<>> /\ nothing'[n] = b
         /\ chain[n] # <<>> => /\ chain'[n] = Append(Front(chain[n]), b)
                               /\ nothing'[n] = nothing[n]
         /\ \A p \in Procs \ {n} : chain'[p] = chain[p] /\ nothing'[p] = nothing[p]
<1>1. chain \in [Procs -> Seq(Blocks)] /\ nothing \in [Procs -> Blocks]
  BY DEF TypeOK
<1>2. CASE chain[n] = <<>>
  BY <1>1, <1>2 DEF SetCurrent
<1>3. CASE chain[n] # <<>>
  <2>1. chain' = [chain EXCEPT ![n] = [chain[n] EXCEPT ![Len(chain[n])] = b]]
        /\ nothing' = nothing
    BY <1>3 DEF SetCurrent, Size
  <2>2. [chain[n] EXCEPT ![Len(chain[n])] = b] = Append(Front(chain[n]), b)
    <3> DEFINE c == chain[n]
    <3>1. c \in Seq(Blocks) /\ c # <<>>
      BY <1>1, <1>3
    <3> HIDE DEF c
    <3> DEFINE d == [c EXCEPT ![Len(c)] = b]
        e == Append(Front(c), b)
    <3>2. /\ d \in Seq(Blocks) /\ Len(d) = Len(c)
          /\ \A i \in 1..Len(c) : d[i] = IF i = Len(c) THEN b ELSE c[i]
      BY <3>1
    <3>3. /\ Front(c) \in Seq(Blocks) /\ Len(Front(c)) = Len(c) - 1
          /\ \A i \in 1..Len(c) - 1 : Front(c)[i] = c[i]
      BY <3>1, FrontAndTip
    <3>4. /\ e \in Seq(Blocks) /\ Len(e) = Len(c)
          /\ \A i \in 1..Len(c) : e[i] = IF i = Len(c) THEN b ELSE c[i]
      BY <3>1, <3>3
    <3>5. \A i \in 1..Len(d) : d[i] = e[i]
      BY <3>2, <3>4
    <3> HIDE DEF d, e
    <3>6. d = e
      BY <3>2, <3>4, <3>5, SeqEqual
    <3>7. QED
      BY <3>6 DEF c, d, e
  <2>3. QED
    BY <1>1, <1>3, <2>1, <2>2
<1>4. QED
  BY <1>2, <1>3

LEMMA TrespassEffect ==
  ASSUME TypeOK, NEW n \in Procs, NEW t, Trespass(n, t)
  PROVE  /\ raced' \in [Procs -> BOOLEAN]
         /\ raced'[n] = (raced[n] \/ \E o \in Threads \ {t} : Sealing(n, o))
         /\ \A p \in Procs \ {n} : raced'[p] = raced[p]
BY DEF TypeOK, Trespass

LEMMA MineEffect ==
  ASSUME TypeOK, NEW n \in Procs, NEW b \in Blocks, Mine(n, b)
  PROVE  /\ solved' \in Seq([by : Procs, header : Headers])
         /\ Solved(b) \in Blocks
<1>1. Header(b) \in Headers
  BY DEF Header, Headers, Blocks
<1>2. Len(solved) + 1 \in Nat
  BY DEF TypeOK
<1>3. [by |-> n, header |-> Header(b)] \in [by : Procs, header : Headers]
  BY <1>1
<1>4. solved' \in Seq([by : Procs, header : Headers])
  BY <1>3 DEF Mine, TypeOK
<1>5. Solved(b) \in Blocks
  BY <1>2 DEF Solved, Blocks
<1>6. QED
  BY <1>4, <1>5

\* The other processes.
Others(n) ==
  \A p \in Procs \ {n} :
    /\ chain'[p] = chain[p] /\ nothing'[p] = nothing[p] /\ file'[p] = file[p]
    /\ pc'[p] = pc[p] /\ snap'[p] = snap[p] /\ raced'[p] = raced[p]
    /\ returned'[p] = returned[p]

Typed(n) == TypeOK' /\ Others(n)

LEMMA StartType ==
  ASSUME TypeOK, NEW n \in Procs, Start(n)
  PROVE  Typed(n)
<1>1. pc' \in [Procs -> Pcs] /\ \A p \in Procs \ {n} : pc'[p] = pc[p]
  BY GoEffect DEF Start, Threads, UiPcs, Starting
<1>2. QED
  BY <1>1 DEF Start, Typed, Others, TypeOK, Pcs

LEMMA DieType ==
  ASSUME TypeOK, NEW n \in Procs, Die(n), raced' \in [Procs -> BOOLEAN],
         \A p \in Procs \ {n} : raced'[p] = raced[p],
         paid' \subseteq Payments, solved' = solved, returned' = returned,
         kills' \in 0..MaxKills, syncs' \in 0..MaxSyncs
  PROVE  Typed(n)
BY DieEffect DEF Typed, Others, TypeOK, Pcs

LEMMA LoadChainType ==
  ASSUME TypeOK, NEW n \in Procs, LoadChain(n)
  PROVE  Typed(n)
<1>1. ASSUME Go(n, "ui", "seal")
      PROVE  pc' \in [Procs -> Pcs] /\ \A p \in Procs \ {n} : pc'[p] = pc[p]
  BY <1>1, GoEffect DEF Threads, UiPcs, Starting
<1>2. CASE /\ chain' = [chain EXCEPT ![n] = [i \in DOMAIN file[n] |->
                                            [file[n][i] EXCEPT !.valid = TRUE]]]
           /\ Go(n, "ui", "seal")
           /\ UNCHANGED <<nothing, file, snap, net, solved>>
           /\ UNCHANGED <<paid, raced, returned, kills, syncs>>
  <2> DEFINE c == [i \in DOMAIN file[n] |-> [file[n][i] EXCEPT !.valid = TRUE]]
  <2>1. file[n] \in Seq(Blocks)
    BY DEF TypeOK
  <2>2. c = [i \in DOMAIN file[n] |-> c[i]]
    OBVIOUS
  <2>3. \A i \in DOMAIN file[n] : c[i] \in Blocks
    <3>1. TAKE i \in DOMAIN file[n]
    <3>2. file[n][i] \in Blocks
      BY <2>1
    <3>3. QED
      BY <3>2 DEF Blocks
  <2>4. c \in Seq(Blocks)
    <3> HIDE DEF c
    <3>1. QED
      BY <2>1, <2>2, <2>3, MapType
  <2>5. chain' \in [Procs -> Seq(Blocks)] /\ \A p \in Procs \ {n} : chain'[p] = chain[p]
    BY <1>2, <2>4 DEF TypeOK
  <2>6. QED
    BY <1>1, <1>2, <2>5 DEF Typed, Others, TypeOK, Pcs
<1>3. CASE Die(n) /\ UNCHANGED <<solved, paid, raced, returned, kills, syncs>>
  BY <1>3, DieType DEF TypeOK
<1>4. CASE /\ Mine(n, PendingBlock(0, NoBlock))
           /\ chain' = [chain EXCEPT ![n] = <<Solved(PendingBlock(0, NoBlock))>>]
           /\ Go(n, "ui", "seal")
           /\ UNCHANGED <<nothing, file, snap, net>>
           /\ UNCHANGED <<paid, raced, returned, kills, syncs>>
  <2>1. PendingBlock(0, NoBlock) \in Blocks
    BY PendingType DEF NoBlock
  <2>2. solved' \in Seq([by : Procs, header : Headers])
        /\ Solved(PendingBlock(0, NoBlock)) \in Blocks
    BY <1>4, <2>1, MineEffect
  <2>3. chain' \in [Procs -> Seq(Blocks)] /\ \A p \in Procs \ {n} : chain'[p] = chain[p]
    BY <1>4, <2>2 DEF TypeOK
  <2>4. QED
    BY <1>1, <1>4, <2>2, <2>3 DEF Typed, Others, TypeOK, Pcs
<1>5. QED
  BY <1>2, <1>3, <1>4 DEF LoadChain
LEMMA FailType ==
  ASSUME TypeOK, NEW n \in Procs, NEW t \in Threads, Fail(n, t),
         raced' \in [Procs -> BOOLEAN], \A p \in Procs \ {n} : raced'[p] = raced[p],
         UNCHANGED <<paid, solved, returned, kills, syncs>>
  PROVE  Typed(n)
<1>1. CASE t = "net"
  <2>1. Go(n, "net", "idle") /\ UNCHANGED <<chain, nothing, file, snap, net>>
    BY <1>1 DEF Fail
  <2>2. pc' \in [Procs -> Pcs] /\ \A p \in Procs \ {n} : pc'[p] = pc[p]
    BY <2>1, GoEffect DEF Threads, NetPcs
  <2>3. QED
    BY <2>1, <2>2 DEF Typed, Others, TypeOK, Pcs
<1>2. CASE t # "net"
  BY <1>2, DieType DEF Fail, TypeOK
<1>3. QED
  BY <1>1, <1>2

LEMMA TruncateType ==
  ASSUME TypeOK, NEW n \in Procs, NEW t \in Threads, Truncate(n, t)
  PROVE  Typed(n)
<1>1. raced' \in [Procs -> BOOLEAN] /\ \A p \in Procs \ {n} : raced'[p] = raced[p]
  BY TrespassEffect DEF Truncate
<1>2. UNCHANGED <<paid, solved, returned, kills, syncs>>
  BY DEF Truncate
<1>3. CASE Die(n)
  BY <1>1, <1>2, <1>3, DieType DEF TypeOK
<1>4. CASE Fail(n, t)
  BY <1>1, <1>2, <1>4, FailType
<1>5. CASE /\ file' = [file EXCEPT ![n] = <<>>]
           /\ snap' = [snap EXCEPT ![n][t] = Dump(chain[n])]
           /\ Go(n, t, "write")
           /\ UNCHANGED <<chain, nothing, net>>
  <2>1. pc' \in [Procs -> Pcs] /\ \A p \in Procs \ {n} : pc'[p] = pc[p]
    BY <1>5, GoEffect DEF UiPcs, Starting, NetPcs, MinerPcs
  <2>2. Dump(chain[n]) \in Seq(Blocks)
    BY DumpType DEF TypeOK
  <2>3. snap' \in [Procs -> [Threads -> Seq(Blocks)]]
        /\ \A p \in Procs \ {n} : snap'[p] = snap[p]
    BY <1>5, <2>2 DEF TypeOK
  <2>4. QED
    BY <1>1, <1>2, <1>5, <2>1, <2>3 DEF Typed, Others, TypeOK, Pcs
<1>6. QED
  BY <1>3, <1>4, <1>5 DEF Truncate

LEMMA WriteFileType ==
  ASSUME TypeOK, NEW n \in Procs, NEW t \in Threads, WriteFile(n, t)
  PROVE  Typed(n)
<1>1. raced' \in [Procs -> BOOLEAN] /\ \A p \in Procs \ {n} : raced'[p] = raced[p]
  BY TrespassEffect DEF WriteFile
<1>2. pc' \in [Procs -> Pcs] /\ \A p \in Procs \ {n} : pc'[p] = pc[p]
  BY GoEffect DEF WriteFile, UiPcs, Starting, NetPcs, MinerPcs
<1>3. /\ snap' \in [Procs -> [Threads -> Seq(Blocks)]]
      /\ file' \in [Procs -> Seq(Blocks)]
      /\ \A p \in Procs \ {n} : snap'[p] = snap[p] /\ file'[p] = file[p]
  BY DEF WriteFile, TypeOK
<1>4. QED
  BY <1>1, <1>2, <1>3 DEF WriteFile, Typed, Others, TypeOK, Pcs

LEMMA PushNextType ==
  ASSUME TypeOK, NEW n \in Procs, NEW t \in Threads, PushNext(n, t)
  PROVE  Typed(n)
<1>1. raced' \in [Procs -> BOOLEAN] /\ \A p \in Procs \ {n} : raced'[p] = raced[p]
  BY TrespassEffect DEF PushNext
<1>2. UNCHANGED <<paid, solved, returned, kills, syncs>>
  BY DEF PushNext
<1>3. CASE Die(n)
  BY <1>1, <1>2, <1>3, DieType DEF TypeOK
<1>4. CASE Fail(n, t)
  BY <1>1, <1>2, <1>4, FailType
<1>5. CASE /\ chain[n] # <<>>
           /\ chain' = [chain EXCEPT ![n] =
                           Append(@, PendingBlock(Size(n), Tip(n).id))]
           /\ Go(n, t, After(t))
           /\ UNCHANGED <<nothing, file, snap, net>>
  <2>1. pc' \in [Procs -> Pcs] /\ \A p \in Procs \ {n} : pc'[p] = pc[p]
    BY <1>5, GoEffect DEF UiPcs, Starting, NetPcs, MinerPcs, After
  <2>2. Tip(n) \in Blocks
    BY <1>5, CurrentType DEF get_current_block
  <2>3. Tip(n).id \in Nat /\ Size(n) \in Nat
    BY <2>2 DEF Blocks, Size, TypeOK
  <2>4. PendingBlock(Size(n), Tip(n).id) \in Blocks
    BY <2>3, PendingType
  <2>5. chain' \in [Procs -> Seq(Blocks)] /\ \A p \in Procs \ {n} : chain'[p] = chain[p]
    BY <1>5, <2>4 DEF TypeOK
  <2>6. QED
    BY <1>1, <1>2, <1>5, <2>1, <2>5 DEF Typed, Others, TypeOK, Pcs
<1>6. QED
  BY <1>3, <1>4, <1>5 DEF PushNext

LEMMA RewardType ==
  ASSUME TypeOK, NEW n \in Procs
  PROVE  reward(n) \in Tx
BY RewardAssumption DEF reward, Tx, TypeOK

LEMMA StartMiningType ==
  ASSUME TypeOK, NEW n \in Procs, StartMining(n)
  PROVE  Typed(n)
<1> DEFINE b == get_current_block(n)
    c == [b EXCEPT !.txs = Append(@, reward(n)), !.valid = FALSE]
<1>1. raced' \in [Procs -> BOOLEAN] /\ \A p \in Procs \ {n} : raced'[p] = raced[p]
  BY TrespassEffect DEF StartMining
<1>2. pc' \in [Procs -> Pcs] /\ \A p \in Procs \ {n} : pc'[p] = pc[p]
  BY GoEffect DEF StartMining, MinerPcs, Threads
<1>3. b \in Blocks
  BY CurrentType
<1>4. Append(b.txs, reward(n)) \in Seq(Tx)
  BY <1>3, RewardType DEF Blocks
<1>5. c \in Blocks /\ SetCurrent(n, c)
  BY <1>3, <1>4 DEF Blocks, StartMining
<1>6. /\ chain' \in [Procs -> Seq(Blocks)] /\ nothing' \in [Procs -> Blocks]
      /\ \A p \in Procs \ {n} : chain'[p] = chain[p] /\ nothing'[p] = nothing[p]
  <2> HIDE DEF c
  <2>1. QED
    BY <1>5, SetCurrentType, SetCurrentEffect
<1>7. QED
  BY <1>1, <1>2, <1>6 DEF StartMining, Typed, Others, TypeOK, Pcs

LEMMA InterruptType ==
  ASSUME TypeOK, NEW n \in Procs, Interrupt(n)
  PROVE  Typed(n)
<1>1. pc' \in [Procs -> Pcs] /\ \A p \in Procs \ {n} : pc'[p] = pc[p]
  BY GoEffect DEF Interrupt, MinerPcs, Threads
<1>2. QED
  BY <1>1 DEF Interrupt, Typed, Others, TypeOK, Pcs

LEMMA CleanBlockType ==
  ASSUME TypeOK, NEW n \in Procs, CleanBlock(n)
  PROVE  Typed(n)
<1> DEFINE b == get_current_block(n)
    c == [b EXCEPT !.txs = WithoutRewards(@)]
<1>1. pc' \in [Procs -> Pcs] /\ \A p \in Procs \ {n} : pc'[p] = pc[p]
  BY GoEffect DEF CleanBlock, MinerPcs, Threads
<1>2. b \in Blocks
  BY CurrentType
<1>3. WithoutRewards(b.txs) \in Seq(Tx)
  BY <1>2, WithoutRewardsType DEF Blocks
<1>4. c \in Blocks /\ SetCurrent(n, c)
  BY <1>2, <1>3 DEF Blocks, CleanBlock
<1>5. /\ chain' \in [Procs -> Seq(Blocks)] /\ nothing' \in [Procs -> Blocks]
      /\ \A p \in Procs \ {n} : chain'[p] = chain[p] /\ nothing'[p] = nothing[p]
  <2> HIDE DEF c
  <2>1. QED
    BY <1>4, SetCurrentType, SetCurrentEffect
<1>6. QED
  BY <1>1, <1>5 DEF CleanBlock, Typed, Others, TypeOK, Pcs

LEMMA SolveType ==
  ASSUME TypeOK, NEW n \in Procs, Solve(n)
  PROVE  Typed(n)
<1> DEFINE b == get_current_block(n)
<1>1. pc' \in [Procs -> Pcs] /\ \A p \in Procs \ {n} : pc'[p] = pc[p]
  BY GoEffect DEF Solve, MinerPcs, Threads
<1>2. b \in Blocks
  BY CurrentType
<1>3. solved' \in Seq([by : Procs, header : Headers]) /\ Solved(b) \in Blocks
  BY <1>2, MineEffect DEF Solve
<1>4. /\ chain' \in [Procs -> Seq(Blocks)] /\ nothing' \in [Procs -> Blocks]
      /\ \A p \in Procs \ {n} : chain'[p] = chain[p] /\ nothing'[p] = nothing[p]
  BY <1>3, SetCurrentType, SetCurrentEffect DEF Solve
<1>5. QED
  BY <1>1, <1>3, <1>4 DEF Solve, Typed, Others, TypeOK, Pcs

LEMMA DangleType ==
  ASSUME TypeOK, NEW n \in Procs, Dangle(n)
  PROVE  Typed(n)
<1>1. CASE Die(n)
  BY <1>1, DieType DEF Dangle, TypeOK
<1>2. CASE Go(n, "miner", "mined") /\ UNCHANGED <<chain, nothing, file, snap, net>>
  <2>1. pc' \in [Procs -> Pcs] /\ \A p \in Procs \ {n} : pc'[p] = pc[p]
    BY <1>2, GoEffect DEF MinerPcs, Threads
  <2>2. QED
    BY <1>2, <2>1 DEF Dangle, Typed, Others, TypeOK, Pcs
<1>3. QED
  BY <1>1, <1>2 DEF Dangle

LEMMA PropagateBlockType ==
  ASSUME TypeOK, NEW n \in Procs, PropagateBlock(n)
  PROVE  Typed(n)
<1> DEFINE b == get_current_block(n)
<1>1. b \in Blocks
  BY CurrentType
<1>2. net' \subseteq Messages
  <2>1. CASE b.valid
    <3>1. PICK to \in SUBSET Procs : net' = net \cup BlockMessages(b, to)
      BY <2>1 DEF PropagateBlock
    <3>2. BlockMessages(b, to) \subseteq Messages
      BY <1>1 DEF BlockMessages, Messages
    <3>3. QED
      BY <3>1, <3>2 DEF TypeOK
  <2>2. CASE ~b.valid
    BY <2>2 DEF PropagateBlock, TypeOK
  <2>3. QED
    BY <2>1, <2>2
<1>3. pc' \in [Procs -> Pcs] /\ \A p \in Procs \ {n} : pc'[p] = pc[p]
  BY GoEffect DEF PropagateBlock, MinerPcs, NetPcs, Threads
<1>4. QED
  BY <1>2, <1>3 DEF PropagateBlock, Typed, Others, TypeOK, Pcs
\* Where an addition leaves the threads.
LEMMA InterruptedType ==
  ASSUME TypeOK, NEW n \in Procs, NEW p \in Interrupted(n), pc' = [pc EXCEPT ![n] = p]
  PROVE  pc' \in [Procs -> Pcs] /\ \A o \in Procs \ {n} : pc'[o] = pc[o]
<1>1. pc \in [Procs -> Pcs] /\ pc[n] \in Pcs
  BY DEF TypeOK, Pcs
<1>2. p \in Pcs
  BY <1>1 DEF Interrupted, Pcs, MinerPcs, UiPcs
<1>3. QED
  BY <1>1, <1>2

LEMMA AddTransactionType ==
  ASSUME TypeOK, NEW n \in Procs, NEW tx \in Tx, add_transaction(n, tx)
  PROVE  /\ chain' \in [Procs -> Seq(Blocks)] /\ nothing' \in [Procs -> Blocks]
         /\ pc' \in [Procs -> Pcs]
         /\ \A p \in Procs \ {n} :
              chain'[p] = chain[p] /\ nothing'[p] = nothing[p] /\ pc'[p] = pc[p]
<1> DEFINE b == get_current_block(n)
    c == [b EXCEPT !.txs = Append(@, tx), !.valid = FALSE]
<1>1. b \in Blocks
  BY CurrentType
<1>2. Append(b.txs, tx) \in Seq(Tx)
  BY <1>1 DEF Blocks
<1>3. c \in Blocks /\ SetCurrent(n, c)
  BY <1>1, <1>2 DEF Blocks, add_transaction
<1>4. /\ chain' \in [Procs -> Seq(Blocks)] /\ nothing' \in [Procs -> Blocks]
      /\ \A p \in Procs \ {n} : chain'[p] = chain[p] /\ nothing'[p] = nothing[p]
  <2> HIDE DEF c
  <2>1. QED
    BY <1>3, SetCurrentType, SetCurrentEffect
<1>5. pc' \in [Procs -> Pcs] /\ \A p \in Procs \ {n} : pc'[p] = pc[p]
  BY InterruptedType DEF add_transaction
<1>6. QED
  BY <1>4, <1>5

LEMMA PaymentType ==
  ASSUME NEW p \in Payments
  PROVE  payment(p) \in Tx
BY PaymentsAssumption DEF payment, Tx

LEMMA SendType ==
  ASSUME TypeOK, NEW n \in Procs, NEW p \in Payments, Send(n, p)
  PROVE  Typed(n)
<1>1. paid' \subseteq Payments /\ UNCHANGED <<solved, returned, kills, syncs>>
  BY DEF Send, TypeOK
<1>2. CASE Die(n) /\ UNCHANGED <<raced>>
  BY <1>1, <1>2, DieType DEF TypeOK
<1>3. CASE /\ add_transaction(n, payment(p))
           /\ \E to \in SUBSET Procs :
               net' = net \cup {[to |-> m, kind |-> "transaction",
                                 body |-> payment(p)] : m \in {o \in to : Up(o)}}
           /\ Trespass(n, "ui")
           /\ UNCHANGED <<file, snap>>
  <2>1. net' \subseteq Messages
    BY <1>3, PaymentType DEF TypeOK, Messages
  <2>2. raced' \in [Procs -> BOOLEAN] /\ \A o \in Procs \ {n} : raced'[o] = raced[o]
    BY <1>3, TrespassEffect
  <2>3. QED
    BY <1>1, <1>3, <2>1, <2>2, PaymentType, AddTransactionType
       DEF Typed, Others, TypeOK, Pcs
<1>4. QED
  BY <1>2, <1>3 DEF Send

\* What comes back is a payment, and so not negative.
LEMMA ReturnedEffect ==
  ASSUME TypeOK, Order, NEW n \in Procs, NEW m \in net, m.kind = "transaction",
         returned' = [returned EXCEPT ![n] = @ + IF m.body.from = n THEN m.body.amount ELSE 0]
  PROVE  /\ returned' \in [Procs -> Nat] /\ \A o \in Procs \ {n} : returned'[o] = returned[o]
         /\ returned'[n] = returned[n] + IF m.body.from = n THEN m.body.amount ELSE 0
<1> DEFINE more == IF m.body.from = n THEN m.body.amount ELSE 0
<1>1. m \in Messages /\ Mail(solved, m) /\ returned \in [Procs -> Nat]
  BY DEF TypeOK, Order
<1>2. m.body.amount \in Int /\ m.body.amount >= 0
  BY <1>1 DEF Messages, Tx, Mail
<1>3. more \in Nat
  BY <1>2
<1>4. returned' = [returned EXCEPT ![n] = @ + more]
  OBVIOUS
<1> HIDE DEF more
<1>5. /\ returned' \in [Procs -> Nat] /\ \A o \in Procs \ {n} : returned'[o] = returned[o]
      /\ returned'[n] = returned[n] + more
  BY <1>1, <1>3, <1>4
<1>6. QED
  BY <1>5 DEF more

LEMMA ReceiveTransactionType ==
  ASSUME TypeOK, Order, NEW n \in Procs, NEW m \in net, ReceiveTransaction(n, m)
  PROVE  Typed(n)
<1>1. m.body \in Tx
  BY DEF ReceiveTransaction, TypeOK, Messages
<1>2. UNCHANGED <<paid, solved, kills, syncs>>
  BY DEF ReceiveTransaction
<1>3. CASE Die(n) /\ UNCHANGED <<raced, returned>>
  BY <1>2, <1>3, DieType DEF TypeOK
<1>4. CASE /\ add_transaction(n, m.body)
           /\ returned' = [returned EXCEPT ![n] = @ + IF m.body.from = n THEN m.body.amount ELSE 0]
           /\ Trespass(n, "net")
           /\ UNCHANGED <<file, snap, net>>
  <2>1. raced' \in [Procs -> BOOLEAN] /\ \A o \in Procs \ {n} : raced'[o] = raced[o]
    BY <1>4, TrespassEffect
  <2>2. returned' \in [Procs -> Nat] /\ \A o \in Procs \ {n} : returned'[o] = returned[o]
    BY <1>4, ReturnedEffect DEF ReceiveTransaction
  <2>3. QED
    BY <1>1, <1>2, <1>4, <2>1, <2>2, AddTransactionType DEF Typed, Others, TypeOK, Pcs
<1>5. QED
  BY <1>3, <1>4 DEF ReceiveTransaction

LEMMA LostType ==
  ASSUME TypeOK, NEW n \in Procs
  PROVE  /\ Lost(n) \in Pcs
         /\ [Lost(n) EXCEPT !.net = "seal"] \in Pcs
         /\ [Lost(n) EXCEPT !.ui = "genesis"] \in Pcs
<1>1. pc[n] \in Pcs
  BY DEF TypeOK, Pcs
<1>2. Lost(n) \in Pcs
  BY <1>1 DEF Lost, Pcs, MinerPcs, UiPcs
<1>3. QED
  BY <1>2 DEF Pcs, NetPcs, UiPcs

LEMMA CopyType ==
  ASSUME NEW b \in Blocks
  PROVE  Copy(b) \in Blocks
<1>1. <<>> \in Seq(Tx)
  OBVIOUS
<1>2. QED
  BY <1>1 DEF Copy, Blocks

LEMMA ReceiveBlockType ==
  ASSUME TypeOK, NEW n \in Procs, NEW m \in net, ReceiveBlock(n, m)
  PROVE  Typed(n)
<1>1. m.body \in Blocks
  BY DEF ReceiveBlock, TypeOK, Messages
<1>2. UNCHANGED <<paid, solved, returned, kills, syncs>>
  BY DEF ReceiveBlock
<1>3. CASE Die(n) /\ UNCHANGED raced
  BY <1>2, <1>3, DieType DEF TypeOK
<1>4. CASE /\ chain[n] # <<>>
           /\ Replace(n, m.body)
           /\ Trespass(n, "net")
           /\ UNCHANGED <<nothing, file, snap, net>>
  <2>1. raced' \in [Procs -> BOOLEAN] /\ \A o \in Procs \ {n} : raced'[o] = raced[o]
    BY <1>4, TrespassEffect
  <2>2. chain[n] \in Seq(Blocks) /\ chain[n] # <<>>
    BY <1>4 DEF TypeOK
  <2>3. Append(Front(chain[n]), Copy(m.body)) \in Seq(Blocks)
    BY <1>1, <2>2, FrontAndTip, CopyType
  <2>4. chain' \in [Procs -> Seq(Blocks)] /\ \A o \in Procs \ {n} : chain'[o] = chain[o]
    BY <1>4, <2>3 DEF Replace, TypeOK
  <2>5. pc' \in [Procs -> Pcs] /\ \A o \in Procs \ {n} : pc'[o] = pc[o]
    BY <1>4, LostType DEF Replace, TypeOK, Pcs
  <2>6. QED
    BY <1>2, <1>4, <2>1, <2>4, <2>5 DEF Typed, Others, TypeOK, Pcs
<1>5. CASE UNCHANGED <<chain, nothing, file, snap, net, pc, raced>>
  BY <1>2, <1>5 DEF Typed, Others, TypeOK
<1>6. QED
  BY <1>3, <1>4, <1>5 DEF ReceiveBlock

LEMMA ReceiveBlockTooEarlyType ==
  ASSUME TypeOK, NEW n \in Procs, NEW m \in net, ReceiveBlockTooEarly(n, m)
  PROVE  Typed(n)
BY DieType DEF ReceiveBlockTooEarly, TypeOK

LEMMA ForceSyncType ==
  ASSUME TypeOK, NEW n \in Procs, ForceSync(n)
  PROVE  Typed(n)
<1>1. raced' \in [Procs -> BOOLEAN] /\ \A p \in Procs \ {n} : raced'[p] = raced[p]
  BY TrespassEffect DEF ForceSync
<1>2. PendingBlock(0, NoBlock) \in Blocks
  BY PendingType DEF NoBlock
<1>3. chain' \in [Procs -> Seq(Blocks)] /\ \A p \in Procs \ {n} : chain'[p] = chain[p]
  <2> DEFINE e == <<>>
      g == <<PendingBlock(0, NoBlock)>>
  <2>0. e \in Seq(Blocks) /\ g \in Seq(Blocks)
    BY <1>2
  <2>1. chain' = [chain EXCEPT ![n] = e] \/ chain' = [chain EXCEPT ![n] = g]
    BY DEF ForceSync
  <2> HIDE DEF e, g
  <2>2. QED
    BY <2>0, <2>1 DEF TypeOK
<1>4. pc' \in [Procs -> Pcs] /\ \A p \in Procs \ {n} : pc'[p] = pc[p]
  BY LostType DEF ForceSync, TypeOK, Pcs
<1>5. syncs' \in 0..MaxSyncs
  BY BoundsAssumption DEF ForceSync, TypeOK
<1>6. file' \in [Procs -> Seq(Blocks)] /\ \A p \in Procs \ {n} : file'[p] = file[p]
  BY DEF ForceSync, TypeOK
<1>7. QED
  BY <1>1, <1>3, <1>4, <1>5, <1>6 DEF ForceSync, Typed, Others, TypeOK, Pcs

LEMMA MineGenesisType ==
  ASSUME TypeOK, NEW n \in Procs, MineGenesis(n), chain[n] # <<>>
  PROVE  Typed(n)
<1>1. Tip(n) \in Blocks
  BY CurrentType DEF get_current_block
<1>2. solved' \in Seq([by : Procs, header : Headers]) /\ Solved(Tip(n)) \in Blocks
  BY <1>1, MineEffect DEF MineGenesis
<1>3. chain' \in [Procs -> Seq(Blocks)] /\ \A p \in Procs \ {n} : chain'[p] = chain[p]
  BY <1>2 DEF MineGenesis, TypeOK
<1>4. pc' \in [Procs -> Pcs] /\ \A p \in Procs \ {n} : pc'[p] = pc[p]
  BY GoEffect DEF MineGenesis, UiPcs, Threads
<1>5. QED
  BY <1>2, <1>3, <1>4 DEF MineGenesis, Typed, Others, TypeOK, Pcs

LEMMA GenesisAbortedType ==
  ASSUME TypeOK, NEW n \in Procs, GenesisAborted(n)
  PROVE  Typed(n)
BY DieType DEF GenesisAborted, TypeOK

LEMMA KillType ==
  ASSUME TypeOK, NEW n \in Procs, Kill(n)
  PROVE  Typed(n)
<1>1. kills' \in 0..MaxKills
  BY BoundsAssumption DEF Kill, TypeOK
<1>2. QED
  BY <1>1, DieType DEF Kill, TypeOK
-----------------------------------------------------------------------------
(***************************************************************************)
(* The history only grows, and what is said of it stays.                   *)
(***************************************************************************)
Grown(h, k) ==
  /\ Len(k) >= Len(h)
  /\ \A i \in DOMAIN h : i \in DOMAIN k /\ k[i] = h[i]

LEMMA GrownByOne ==
  ASSUME NEW h \in Histories, NEW e \in [by : Procs, header : Headers]
  PROVE  Append(h, e) \in Histories /\ Grown(h, h) /\ Grown(h, Append(h, e))
BY DEF Grown, Histories

LEMMA HeldGrows ==
  ASSUME NEW h \in Histories, NEW k \in Histories, Grown(h, k), NEW n, NEW b,
         Held(h, n, b)
  PROVE  Held(k, n, b)
BY DEF Grown, Histories, Held, Follows, Hashed

LEMMA HomeGrows ==
  ASSUME NEW h \in Histories, NEW k \in Histories, Grown(h, k), NEW n, NEW s,
         Home(h, n, s)
  PROVE  Home(k, n, s)
<1>1. \A i \in DOMAIN s : Held(k, n, s[i])
  BY HeldGrows DEF Home
<1>2. \A i \in DOMAIN s : i > 1 /\ s[i].valid => k[s[i].id].by = n
  BY DEF Home, Held, Hashed, Grown
<1>3. QED
  BY <1>1, <1>2 DEF Home

LEMMA SavedGrows ==
  ASSUME NEW h \in Histories, NEW k \in Histories, Grown(h, k), NEW n, NEW s,
         Saved(h, n, s)
  PROVE  Saved(k, n, s)
BY HomeGrows DEF Saved

LEMMA MailGrows ==
  ASSUME NEW h \in Histories, NEW k \in Histories, Grown(h, k), NEW m, Mail(h, m)
  PROVE  Mail(k, m)
BY DEF Mail, Grown

\* A block that is mined follows what its miner holds.
LEMMA SoundGrows ==
  ASSUME NEW h \in Histories, Sound(h), NEW n \in Procs, NEW b \in Blocks,
         Follows(h, n, b)
  PROVE  Sound(Append(h, [by |-> n, header |-> Header(b)]))
<1> DEFINE e == [by |-> n, header |-> Header(b)]
    k == Append(h, e)
<1>1. e \in [by : Procs, header : Headers]
  BY DEF Header, Headers, Blocks
<1>2. k \in Histories /\ Len(k) = Len(h) + 1 /\ k[Len(h) + 1] = e /\ Len(h) \in Nat
      /\ (\A i \in 1..Len(h) : k[i] = h[i]) /\ DOMAIN h = 1..Len(h)
      /\ DOMAIN k = 1..Len(h) + 1
  BY <1>1 DEF Histories
<1> HIDE DEF k
<1>3. ASSUME NEW m, NEW c, Follows(h, m, c)
      PROVE  Follows(k, m, c)
  BY <1>2, <1>3 DEF Follows
<1>4. ASSUME NEW i \in DOMAIN k
      PROVE  Follows(k, k[i].by, k[i].header)
  <2>1. CASE i \in DOMAIN h
    BY <1>2, <1>3, <2>1 DEF Sound
  <2>2. CASE i = Len(h) + 1
    <3>1. k[i].by = n /\ k[i].header.depth = b.depth /\ k[i].header.prev = b.prev
      BY <1>2, <2>2 DEF Header
    <3>2. Follows(k, n, b)
      BY <1>3
    <3>3. QED
      BY <3>1, <3>2 DEF Follows
  <2>3. QED
    BY <1>2, <2>1, <2>2
<1>5. QED
  BY <1>4 DEF Sound, k
-----------------------------------------------------------------------------
(***************************************************************************)
(* What a process does to the blocks it holds.                             *)
(***************************************************************************)
LEMMA HomeEmpty ==
  ASSUME NEW h, NEW n
  PROVE  Home(h, n, <<>>) /\ Saved(h, n, <<>>)
BY DEF Home, Saved

LEMMA HeldPending ==
  ASSUME NEW h \in Histories, NEW n
  PROVE  Held(h, n, PendingBlock(0, NoBlock))
BY DEF Held, Follows, PendingBlock, NoBlock, Histories

LEMMA HeldTorn ==
  ASSUME NEW h \in Histories, NEW n
  PROVE  Held(h, n, Torn) /\ ~Torn.valid /\ Torn.id = NoBlock
BY HeldPending DEF Torn, PendingBlock

LEMMA HomeAppend ==
  ASSUME NEW h, NEW n, NEW s \in Seq(Blocks), Home(h, n, s),
         NEW b \in Blocks, Held(h, n, b), s # <<>> /\ b.valid => h[b.id].by = n
  PROVE  Home(h, n, Append(s, b))
<1> DEFINE r == Append(s, b)
<1>1. /\ DOMAIN s = 1..Len(s) /\ DOMAIN r = 1..Len(s) + 1 /\ Len(s) \in Nat
      /\ r[Len(s) + 1] = b /\ \A i \in 1..Len(s) : r[i] = s[i]
  OBVIOUS
<1>2. s # <<>> <=> Len(s) + 1 > 1
  OBVIOUS
<1> HIDE DEF r
<1>3. ASSUME NEW i \in DOMAIN r
      PROVE  Held(h, n, r[i]) /\ (i > 1 /\ r[i].valid => h[r[i].id].by = n)
  <2>1. CASE i \in DOMAIN s
    <3>1. r[i] = s[i]
      BY <1>1, <2>1
    <3>2. QED
      BY <2>1, <3>1 DEF Home
  <2>2. CASE i = Len(s) + 1
    BY <1>1, <1>2, <2>2
  <2>3. QED
    BY <1>1, <2>1, <2>2
<1>4. QED
  BY <1>3 DEF Home, r

LEMMA HomePrefix ==
  ASSUME NEW h, NEW n, NEW s \in Seq(Blocks), Home(h, n, s), NEW k \in 0..Len(s)
  PROVE  Home(h, n, SubSeq(s, 1, k))
<1> DEFINE r == SubSeq(s, 1, k)
<1>1. r \in Seq(Blocks) /\ Len(r) = k /\ \A i \in 1..k : r[i] = s[i]
  BY Prefix
<1> HIDE DEF r
<1>2. DOMAIN r = 1..k /\ \A i \in 1..k : i \in DOMAIN s
  BY <1>1
<1>3. QED
  BY <1>1, <1>2 DEF Home, r

LEMMA HomeFront ==
  ASSUME NEW h, NEW n, NEW s \in Seq(Blocks), Home(h, n, s), s # <<>>
  PROVE  /\ Home(h, n, Front(s)) /\ Held(h, n, s[Len(s)])
         /\ Len(s) > 1 /\ s[Len(s)].valid => h[s[Len(s)].id].by = n
<1>1. Len(s) \in DOMAIN s /\ Len(s) - 1 \in 0..Len(s)
  OBVIOUS
<1>2. Home(h, n, Front(s))
  BY <1>1, HomePrefix DEF Front
<1>3. QED
  BY <1>1, <1>2 DEF Home

\* What is saved of a chain: the valid blocks, none earlier than it was.
LEMMA DumpFrom ==
  ASSUME NEW s \in Seq(Blocks)
  PROVE  \A k \in DOMAIN Dump(s) :
           \E i \in DOMAIN s : i >= k /\ s[i].valid /\ Dump(s)[k] = Dumped(s[i])
<1> DEFINE I == {i \in DOMAIN s : s[i].valid}
    v == Valids(s)
<1>1. v = Kept(s, I)
  BY DEF Valids
<1> HIDE DEF v
<1>2. v \in Seq(Blocks) /\ Dump(s) \in Seq(Blocks) /\ Len(Dump(s)) = Len(v)
      /\ \A k \in DOMAIN Dump(s) : Dump(s)[k] = Dumped(v[k])
  BY ValidsType, DumpType DEF v
<1>3. \A k \in DOMAIN v : \E i \in DOMAIN s : i \in I /\ i >= k /\ v[k] = s[i]
  <2> HIDE DEF I
  <2>1. QED
    BY <1>1, KeptFrom
<1>4. DOMAIN v = DOMAIN Dump(s)
  BY <1>2
<1>5. QED
  BY <1>2, <1>3, <1>4

LEMMA OnceEmpty == Once(<<>>) = <<>>
<1>1. <<>> \in Seq(Tx) /\ DOMAIN <<>> = {}
  OBVIOUS
<1>2. QED
  BY <1>1, KeptAll DEF Once

LEMMA DumpedFields ==
  ASSUME NEW b \in Blocks
  PROVE  /\ Dumped(b).depth = b.depth /\ Dumped(b).prev = b.prev
         /\ Dumped(b).id = b.id /\ Dumped(b).valid = b.valid
         /\ Dumped(b).txs = Once(b.txs)
BY DEF Dumped, Blocks

LEMMA SavedDump ==
  ASSUME NEW h, NEW n, NEW s \in Seq(Blocks), Home(h, n, s)
  PROVE  Saved(h, n, Dump(s))
<1>1. ASSUME NEW k \in DOMAIN Dump(s)
      PROVE  /\ Held(h, n, Dump(s)[k]) /\ Dump(s)[k].valid
             /\ k > 1 => h[Dump(s)[k].id].by = n
  <2>1. PICK i \in DOMAIN s : i >= k /\ s[i].valid /\ Dump(s)[k] = Dumped(s[i])
    BY DumpFrom
  <2> DEFINE b == s[i]
  <2>2. b \in Blocks /\ k \in Int /\ i \in Int
    BY DumpType
  <2>3. Held(h, n, b) /\ b.valid /\ (i > 1 => h[b.id].by = n)
    BY <2>1 DEF Home
  <2> HIDE DEF b
  <2>4. b.txs = <<>> => Dumped(b).txs = <<>>
    BY <2>2, DumpedFields, OnceEmpty
  <2>5. Held(h, n, Dumped(b)) /\ Dumped(b).valid /\ Dumped(b).id = b.id
    BY <2>2, <2>3, <2>4, DumpedFields DEF Held, Follows, Hashed
  <2>6. QED
    BY <2>1, <2>2, <2>3, <2>5 DEF b
<1>2. QED
  BY <1>1 DEF Saved, Home

\* The start of what was saved, with a torn entry after it.
LEMMA SavedPrefix ==
  ASSUME NEW h \in Histories, NEW n, NEW s \in Seq(Blocks), Saved(h, n, s),
         NEW k \in 0..Len(s)
  PROVE  Saved(h, n, SubSeq(s, 1, k)) /\ Saved(h, n, Append(SubSeq(s, 1, k), Torn))
<1> DEFINE r == SubSeq(s, 1, k)
<1>1. r \in Seq(Blocks) /\ Len(r) = k /\ (\A i \in 1..k : r[i] = s[i]) /\ Home(h, n, r)
  BY Prefix, HomePrefix DEF Saved
<1> HIDE DEF r
<1>2. \A i \in DOMAIN r : r[i].valid \/ r[i] = Torn
  BY <1>1 DEF Saved
<1>3. Home(h, n, Append(r, Torn))
  BY <1>1, HeldTorn, TornType, HomeAppend
<1>4. \A i \in DOMAIN Append(r, Torn) :
         Append(r, Torn)[i].valid \/ Append(r, Torn)[i] = Torn
  BY <1>1, <1>2
<1>5. QED
  BY <1>1, <1>2, <1>3, <1>4 DEF Saved, r

\* What may be left in a file.
LEMMA RemainsForm ==
  ASSUME TypeOK, NEW n \in Procs, NEW left \in Remains(n)
  PROVE  left = file[n]
         \/ \E t \in Threads :
              /\ At(n, t, "write")
              /\ \E k \in 0..Len(snap[n][t]) :
                   \/ left = SubSeq(snap[n][t], 1, k)
                   \/ k < Len(snap[n][t]) /\ left = Append(SubSeq(snap[n][t], 1, k), Torn)
<1>1. SUFFICES ASSUME left # file[n]
      PROVE  \E t \in Threads :
              /\ At(n, t, "write")
              /\ \E k \in 0..Len(snap[n][t]) :
                   \/ left = SubSeq(snap[n][t], 1, k)
                   \/ k < Len(snap[n][t]) /\ left = Append(SubSeq(snap[n][t], 1, k), Torn)
  OBVIOUS
<1>2. PICK t \in {o \in Threads : At(n, o, "write")} :
        left \in {SubSeq(snap[n][t], 1, k) : k \in 0..Len(snap[n][t])}
          \cup {Append(SubSeq(snap[n][t], 1, k), Torn) : k \in 0..Len(snap[n][t]) - 1}
  BY <1>1 DEF Remains
<1>3. Len(snap[n][t]) \in Nat
  BY DEF TypeOK
<1>4. CASE \E k \in 0..Len(snap[n][t]) : left = SubSeq(snap[n][t], 1, k)
  BY <1>4, Zenon
<1>5. CASE \E k \in 0..Len(snap[n][t]) - 1 : left = Append(SubSeq(snap[n][t], 1, k), Torn)
  <2>1. PICK k \in 0..Len(snap[n][t]) - 1 : left = Append(SubSeq(snap[n][t], 1, k), Torn)
    BY <1>5
  <2>2. k \in 0..Len(snap[n][t]) /\ k < Len(snap[n][t])
    BY <1>3
  <2>3. QED
    BY <2>1, <2>2, Zenon
<1>6. QED
  BY <1>2, <1>4, <1>5, Zenon

LEMMA SavedRemains ==
  ASSUME TypeOK, NEW n \in Procs, Process(n), NEW left \in Remains(n)
  PROVE  Saved(solved, n, left)
<1>1. CASE left = file[n]
  BY <1>1 DEF Process
<1>2. ASSUME NEW t \in Threads, NEW k \in 0..Len(snap[n][t]),
             \/ left = SubSeq(snap[n][t], 1, k)
             \/ left = Append(SubSeq(snap[n][t], 1, k), Torn)
      PROVE  Saved(solved, n, left)
  <2>1. snap[n][t] \in Seq(Blocks) /\ solved \in Histories
    BY DEF TypeOK, Histories
  <2>2. Saved(solved, n, snap[n][t])
    BY DEF Process
  <2>3. QED
    BY <1>2, <2>1, <2>2, SavedPrefix
<1>3. QED
  BY <1>1, <1>2, RemainsForm
-----------------------------------------------------------------------------
(***************************************************************************)
(* Order is kept: the process that takes the step.                         *)
(***************************************************************************)
Growing == solved' \in Histories /\ Grown(solved, solved')

\* What a step of n has to keep.
Keeps(n) ==
  /\ Growing /\ Sound(solved') /\ \A m \in net' : Mail(solved', m)
  /\ Process(n)'

LEMMA Unsolved ==
  ASSUME TypeOK, Order, solved' = solved
  PROVE  Growing /\ Sound(solved')
BY DEF Growing, Grown, TypeOK, Order, Histories

LEMMA NetOrder ==
  ASSUME TypeOK, Order, Growing, net' \subseteq net
  PROVE  \A m \in net' : Mail(solved', m)
<1>1. solved \in Histories
  BY DEF TypeOK, Histories
<1>2. QED
  BY <1>1, MailGrows DEF Growing, Order

LEMMA OthersOrder ==
  ASSUME TypeOK, Order, Growing, NEW n \in Procs, Others(n)
  PROVE  \A p \in Procs \ {n} : Process(p)'
<1>1. SUFFICES ASSUME NEW p \in Procs \ {n} PROVE Process(p)'
  OBVIOUS
<1>2. Process(p) /\ solved \in Histories
  BY DEF Order, TypeOK, Histories
<1>3. /\ chain'[p] = chain[p] /\ nothing'[p] = nothing[p] /\ file'[p] = file[p]
      /\ pc'[p] = pc[p] /\ snap'[p] = snap[p]
  BY DEF Others
<1>4. Held(solved', p, nothing'[p]) /\ nothing'[p].depth = 0
  BY <1>2, <1>3, HeldGrows DEF Process, Growing
<1>5. Home(solved', p, chain'[p])
  BY <1>2, <1>3, HomeGrows DEF Process, Growing
<1>6. Saved(solved', p, file'[p]) /\ \A t \in Threads : Saved(solved', p, snap'[p][t])
  BY <1>2, <1>3, SavedGrows DEF Process, Growing
<1>7. QED
  BY <1>2, <1>3, <1>4, <1>5, <1>6 DEF Process, At, Size, Tip

\* Only threads move.
LEMMA MoveOrder ==
  ASSUME TypeOK, Order, solved' = solved, net' \subseteq net, NEW n \in Procs,
         chain'[n] = chain[n], nothing'[n] = nothing[n],
         Saved(solved, n, file'[n]), \A t \in Threads : Saved(solved, n, snap'[n][t]),
         pc'[n].ui \in Starting \cup {"down"} => pc'[n].net = "idle" /\ pc'[n].miner = "idle",
         pc'[n].ui \in {"down", "boot"} => chain[n] = <<>>,
         pc'[n].ui = "genesis" =>
           pc[n].ui = "genesis" /\ pc'[n].miner \notin {"mining", "stopping"}
  PROVE  Keeps(n)
<1>1. Growing /\ Sound(solved') /\ \A m \in net' : Mail(solved', m)
  BY Unsolved, NetOrder
<1>2. Process(n)
  BY DEF Order
<1>3. QED
  BY <1>1, <1>2 DEF Keeps, Process, At, Size, Tip

LEMMA DieOrder ==
  ASSUME TypeOK, Order, NEW n \in Procs, Die(n), solved' = solved
  PROVE  Keeps(n)
<1>1. solved \in Histories /\ Process(n)
  BY DEF TypeOK, Histories, Order
<1>2. /\ net' \subseteq net
      /\ chain'[n] = <<>> /\ nothing'[n] = PendingBlock(0, NoBlock)
      /\ pc'[n] = Off /\ file'[n] \in Remains(n)
      /\ \A t \in Threads : snap'[n][t] = <<>>
  BY DieEffect
<1>3. Growing /\ Sound(solved') /\ \A m \in net' : Mail(solved', m)
  BY <1>2, Unsolved, NetOrder
<1>4. Held(solved, n, nothing'[n]) /\ nothing'[n].depth = 0
  <2>1. PendingBlock(0, NoBlock).depth = 0
    BY DEF PendingBlock
  <2>2. QED
    BY <1>1, <1>2, <2>1, HeldPending
<1>5. Home(solved, n, chain'[n]) /\ \A t \in Threads : Saved(solved, n, snap'[n][t])
  BY <1>2, HomeEmpty
<1>6. Saved(solved, n, file'[n])
  BY <1>1, <1>2, SavedRemains
<1>7. QED
  BY <1>2, <1>3, <1>4, <1>5, <1>6 DEF Keeps, Process, At, Off

LEMMA FailOrder ==
  ASSUME TypeOK, Order, NEW n \in Procs, NEW t \in Threads, Fail(n, t),
         ~At(n, t, "idle"), solved' = solved
  PROVE  Keeps(n)
<1>1. CASE t = "net"
  <2>1. Go(n, "net", "idle") /\ UNCHANGED <<chain, nothing, file, snap, net>>
    BY <1>1 DEF Fail
  <2>2. pc'[n].net = "idle" /\ pc'[n].ui = pc[n].ui /\ pc'[n].miner = pc[n].miner
    BY <2>1, GoEffect DEF Threads, NetPcs
  <2>3. Process(n)
    BY DEF Order
  <2>4. QED
    BY <2>1, <2>2, <2>3, MoveOrder DEF Process, At
<1>2. CASE t # "net"
  BY <1>2, DieOrder DEF Fail
<1>3. QED
  BY <1>1, <1>2

LEMMA StartOrder ==
  ASSUME TypeOK, Order, NEW n \in Procs, Start(n)
  PROVE  Keeps(n)
<1>1. pc'[n].ui = "boot" /\ pc'[n].net = pc[n].net /\ pc'[n].miner = pc[n].miner
  BY GoEffect DEF Start, Threads, UiPcs, Starting
<1>2. Process(n)
  BY DEF Order
<1>3. QED
  BY <1>1, <1>2, MoveOrder DEF Start, Process, At

LEMMA CurrentHeld ==
  ASSUME TypeOK, NEW n \in Procs, Process(n)
  PROVE  /\ Held(solved, n, get_current_block(n))
         /\ chain[n] = <<>> => get_current_block(n).depth = 0
         /\ Size(n) > 1 /\ get_current_block(n).valid =>
              solved[get_current_block(n).id].by = n
<1>1. chain[n] \in Seq(Blocks)
  BY DEF TypeOK
<1>2. CASE chain[n] = <<>>
  BY <1>2 DEF get_current_block, Process, Size
<1>3. CASE chain[n] # <<>>
  BY <1>1, <1>3, HomeFront DEF get_current_block, Process, Tip, Size
<1>4. QED
  BY <1>2, <1>3

\* Another block in the place of the current one.
LEMMA SetCurrentOrder ==
  ASSUME TypeOK, Growing, NEW n \in Procs, Process(n), NEW b \in Blocks,
         SetCurrent(n, b), Held(solved', n, b),
         b.depth = get_current_block(n).depth,
         Size(n) > 1 /\ b.valid => solved'[b.id].by = n
  PROVE  /\ Held(solved', n, nothing'[n]) /\ nothing'[n].depth = 0
         /\ Home(solved', n, chain'[n])
         /\ chain'[n] = <<>> <=> chain[n] = <<>>
         /\ Len(chain'[n]) = Len(chain[n])
         /\ chain[n] # <<>> => chain'[n][Len(chain[n])] = b
<1>1. chain[n] \in Seq(Blocks) /\ solved \in Histories
  BY DEF TypeOK, Histories
<1>2. CASE chain[n] = <<>>
  <2>1. chain'[n] = <<>> /\ nothing'[n] = b
    BY <1>2, SetCurrentEffect
  <2>2. b.depth = 0
    BY <1>2 DEF get_current_block, Process
  <2>3. QED
    BY <1>2, <2>1, <2>2, HomeEmpty
<1>3. CASE chain[n] # <<>>
  <2> DEFINE f == Front(chain[n])
  <2>1. chain'[n] = Append(f, b) /\ nothing'[n] = nothing[n]
    BY <1>3, SetCurrentEffect
  <2>2. f \in Seq(Blocks) /\ Len(f) = Len(chain[n]) - 1 /\ Len(chain[n]) \in Nat
    BY <1>1, <1>3, FrontAndTip
  <2>3. Home(solved, n, f)
    BY <1>1, <1>3, HomeFront DEF Process
  <2>4. Home(solved', n, f)
    BY <1>1, <2>3, HomeGrows DEF Growing
  <2>5. f # <<>> => Size(n) > 1
    BY <2>2 DEF Size
  <2> HIDE DEF f
  <2>6. Home(solved', n, chain'[n])
    BY <2>1, <2>2, <2>4, <2>5, HomeAppend
  <2>7. Held(solved', n, nothing'[n]) /\ nothing'[n].depth = 0
    BY <1>1, <2>1, HeldGrows DEF Process, Growing
  <2>8. Len(chain'[n]) = Len(chain[n]) /\ chain'[n][Len(chain[n])] = b /\ chain'[n] # <<>>
    BY <2>1, <2>2
  <2>9. QED
    BY <1>3, <2>6, <2>7, <2>8
<1>4. QED
  BY <1>2, <1>3
\* A block that is solved is in the hands of who solved it.
LEMMA SolvedOrder ==
  ASSUME TypeOK, Order, NEW n \in Procs, NEW b \in Blocks, Follows(solved, n, b),
         Mine(n, b)
  PROVE  /\ Growing /\ Sound(solved') /\ Solved(b) \in Blocks
         /\ Held(solved', n, Solved(b)) /\ solved'[Solved(b).id].by = n
         /\ solved'[Solved(b).id].header = Header(b)
<1> DEFINE e == [by |-> n, header |-> Header(b)]
<1>1. solved \in Histories /\ solved' = Append(solved, e)
  BY DEF TypeOK, Histories, Mine
<1>2. e \in [by : Procs, header : Headers]
  BY DEF Header, Headers, Blocks
<1>3. Growing
  BY <1>1, <1>2, GrownByOne DEF Growing
<1>4. Sound(solved')
  BY <1>1, SoundGrows DEF Order
<1>5. Solved(b) \in Blocks
  BY MineEffect
<1>6. /\ Solved(b).id = Len(solved) + 1 /\ Solved(b).valid
      /\ Solved(b).depth = b.depth /\ Solved(b).prev = b.prev /\ Solved(b).txs = b.txs
  BY DEF Solved, Blocks
<1>7. /\ Len(solved) \in Nat /\ Len(solved') = Len(solved) + 1
      /\ solved'[Len(solved) + 1] = e /\ DOMAIN solved' = 1..Len(solved) + 1
      /\ \A i \in 1..Len(solved) : solved'[i] = solved[i]
  BY <1>1, <1>2 DEF Histories
<1>8. e.by = n /\ e.header = Header(b) /\ Header(b).depth = b.depth /\ Header(b).prev = b.prev
  BY DEF Header
<1> HIDE DEF e
<1>9. DOMAIN solved = 1..Len(solved)
  BY <1>1 DEF Histories
<1>10. Follows(solved', n, Solved(b))
  BY <1>6, <1>7, <1>9 DEF Follows
<1>11. Hashed(solved', Solved(b)) /\ solved'[Solved(b).id].by = n
       /\ solved'[Solved(b).id].header = Header(b)
  BY <1>6, <1>7, <1>8 DEF Hashed
<1>12. Solved(b).id \in 0..Len(solved')
  BY <1>6, <1>7
<1>13. QED
  BY <1>3, <1>4, <1>5, <1>10, <1>11, <1>12 DEF Held

LEMMA LoadChainOrder ==
  ASSUME TypeOK, Order, NEW n \in Procs, LoadChain(n)
  PROVE  Keeps(n)
<1>1. Process(n) /\ solved \in Histories /\ At(n, "ui", "boot")
  BY DEF Order, TypeOK, Histories, LoadChain
<1>2. ASSUME Go(n, "ui", "seal"), UNCHANGED <<nothing, file, snap, net>>,
             Growing, Sound(solved'), Home(solved', n, chain'[n])
      PROVE  Keeps(n)
  <2>1. pc'[n].ui = "seal" /\ pc'[n].net = "idle" /\ pc'[n].miner = "idle"
    BY <1>1, <1>2, GoEffect DEF Threads, UiPcs, Starting, Process, At
  <2>2. \A m \in net' : Mail(solved', m)
    BY <1>2, NetOrder
  <2>3. Held(solved', n, nothing'[n]) /\ nothing'[n].depth = 0
    BY <1>1, <1>2, HeldGrows DEF Process, Growing
  <2>4. Saved(solved', n, file'[n]) /\ \A t \in Threads : Saved(solved', n, snap'[n][t])
    BY <1>1, <1>2, SavedGrows DEF Process, Growing
  <2>5. QED
    BY <1>2, <2>1, <2>2, <2>3, <2>4 DEF Keeps, Process, At
<1>3. CASE /\ \A i \in DOMAIN file[n] : Validates(file[n][i])
           /\ chain' = [chain EXCEPT ![n] = [i \in DOMAIN file[n] |->
                                            [file[n][i] EXCEPT !.valid = TRUE]]]
           /\ Go(n, "ui", "seal")
           /\ UNCHANGED <<nothing, file, snap, net, solved>>
  <2> DEFINE f == file[n]
  <2>1. f \in Seq(Blocks) /\ Saved(solved, n, f)
    BY <1>1 DEF Process, TypeOK
  <2>2. chain'[n] = [i \in DOMAIN f |-> [f[i] EXCEPT !.valid = TRUE]]
    BY <1>3 DEF TypeOK
  <2>3. \A i \in DOMAIN f : f[i].valid /\ f[i] \in Blocks
    <3>1. TAKE i \in DOMAIN f
    <3>2. f[i].id \in DOMAIN solved
      BY <1>3 DEF Validates
    <3>3. f[i].id # 0
      BY <1>1, <3>2 DEF Histories
    <3>4. f[i] # Torn
      BY <1>1, <3>3, HeldTorn DEF NoBlock
    <3>5. QED
      BY <2>1, <3>4 DEF Saved
  <2> HIDE DEF f
  <2>4. \A i \in DOMAIN f : [f[i] EXCEPT !.valid = TRUE] = f[i]
    BY <2>3 DEF Blocks
  <2>5. chain'[n] = [i \in DOMAIN f |-> f[i]]
    BY <2>2, <2>4
  <2>6. DOMAIN chain'[n] = DOMAIN f /\ \A i \in DOMAIN f : chain'[n][i] = f[i]
    BY <2>5
  <2>7. Home(solved, n, chain'[n])
    BY <2>1, <2>6 DEF Saved, Home
  <2>8. Growing /\ Sound(solved') /\ solved' = solved
    BY <1>3, Unsolved
  <2>9. QED
    BY <1>2, <1>3, <2>7, <2>8
<1>4. CASE Die(n) /\ UNCHANGED solved
  BY <1>4, DieOrder
<1>5. CASE /\ Mine(n, PendingBlock(0, NoBlock))
           /\ chain' = [chain EXCEPT ![n] = <<Solved(PendingBlock(0, NoBlock))>>]
           /\ Go(n, "ui", "seal")
           /\ UNCHANGED <<nothing, file, snap, net>>
  <2> DEFINE g == PendingBlock(0, NoBlock)
  <2>1. g \in Blocks /\ Follows(solved, n, g)
    BY <1>1, PendingType, HeldPending DEF NoBlock, Held
  <2> HIDE DEF g
  <2>2. chain'[n] = <<Solved(g)>>
    BY <1>5 DEF TypeOK, g
  <2>3. /\ Growing /\ Sound(solved') /\ Solved(g) \in Blocks
        /\ Held(solved', n, Solved(g)) /\ solved'[Solved(g).id].by = n
    BY <1>5, <2>1, SolvedOrder DEF g
  <2>4. Home(solved', n, <<Solved(g)>>)
    BY <2>3 DEF Home
  <2>5. QED
    BY <1>2, <1>5, <2>2, <2>3, <2>4
<1>6. QED
  BY <1>3, <1>4, <1>5 DEF LoadChain
LEMMA TruncateOrder ==
  ASSUME TypeOK, Order, NEW n \in Procs, NEW t \in Threads, Truncate(n, t)
  PROVE  Keeps(n)
<1>1. At(n, t, "seal") /\ solved' = solved /\ Process(n)
  BY DEF Truncate, Order
<1>2. CASE Die(n)
  BY <1>1, <1>2, DieOrder
<1>3. CASE Fail(n, t)
  BY <1>1, <1>3, FailOrder DEF At
<1>4. CASE /\ file' = [file EXCEPT ![n] = <<>>]
           /\ snap' = [snap EXCEPT ![n][t] = Dump(chain[n])]
           /\ Go(n, t, "write")
           /\ UNCHANGED <<chain, nothing, net>>
  <2>1. pc'[n][t] = "write" /\ \A o \in Threads \ {t} : pc'[n][o] = pc[n][o]
    BY <1>4, GoEffect DEF UiPcs, Starting, NetPcs, MinerPcs
  <2>2. Saved(solved, n, Dump(chain[n]))
    BY <1>1, SavedDump DEF Process, TypeOK
  <2>3. \A o \in Threads : Saved(solved, n, snap'[n][o])
    BY <1>1, <1>4, <2>2 DEF Process, TypeOK
  <2>4. Saved(solved, n, file'[n])
    BY <1>4, HomeEmpty DEF TypeOK
  <2>5. /\ pc'[n].ui \in Starting \cup {"down"} => pc'[n].net = "idle" /\ pc'[n].miner = "idle"
        /\ pc'[n].ui \in {"down", "boot"} => chain[n] = <<>>
        /\ pc'[n].ui = "genesis" =>
             pc[n].ui = "genesis" /\ pc'[n].miner \notin {"mining", "stopping"}
    BY <1>1, <2>1 DEF Process, At, Threads, Starting
  <2>6. QED
    BY <1>1, <1>4, <2>3, <2>4, <2>5, MoveOrder
<1>5. QED
  BY <1>2, <1>3, <1>4 DEF Truncate

LEMMA WriteFileOrder ==
  ASSUME TypeOK, Order, NEW n \in Procs, NEW t \in Threads, WriteFile(n, t)
  PROVE  Keeps(n)
<1>1. At(n, t, "write") /\ solved' = solved /\ Process(n)
  BY DEF WriteFile, Order
<1>2. pc'[n][t] = "push" /\ \A o \in Threads \ {t} : pc'[n][o] = pc[n][o]
  BY GoEffect DEF WriteFile, UiPcs, Starting, NetPcs, MinerPcs
<1>3. Saved(solved, n, file'[n]) /\ \A o \in Threads : Saved(solved, n, snap'[n][o])
  BY <1>1, HomeEmpty DEF WriteFile, Process, TypeOK
<1>4. /\ pc'[n].ui \in Starting \cup {"down"} => pc'[n].net = "idle" /\ pc'[n].miner = "idle"
      /\ pc'[n].ui \in {"down", "boot"} => chain[n] = <<>>
      /\ pc'[n].ui = "genesis" =>
           pc[n].ui = "genesis" /\ pc'[n].miner \notin {"mining", "stopping"}
  BY <1>1, <1>2 DEF Process, At, Threads, Starting
<1>5. QED
  BY <1>1, <1>3, <1>4, MoveOrder DEF WriteFile

\* The block that follows the last.
LEMMA NextBlockHeld ==
  ASSUME TypeOK, NEW n \in Procs, Process(n), chain[n] # <<>>, Tip(n).valid
  PROVE  /\ PendingBlock(Size(n), Tip(n).id) \in Blocks
         /\ Held(solved, n, PendingBlock(Size(n), Tip(n).id))
         /\ Home(solved, n, Append(chain[n], PendingBlock(Size(n), Tip(n).id)))
<1> DEFINE b == PendingBlock(Size(n), Tip(n).id)
<1>1. chain[n] \in Seq(Blocks) /\ solved \in Histories /\ Size(n) \in Nat
  BY DEF TypeOK, Histories, Size
<1>2. Tip(n) \in Blocks /\ Held(solved, n, Tip(n)) /\ (Size(n) > 1 => solved[Tip(n).id].by = n)
  <2> DEFINE c == chain[n]
  <2>1. c \in Seq(Blocks) /\ c # <<>> /\ Home(solved, n, c) /\ c[Len(c)].valid
    BY <1>1 DEF Process, Tip, Size
  <2> HIDE DEF c
  <2>2. c[Len(c)] \in Blocks
    BY <2>1, FrontAndTip
  <2>3. Held(solved, n, c[Len(c)]) /\ (Len(c) > 1 => solved[c[Len(c)].id].by = n)
    BY <2>1, HomeFront
  <2>4. QED
    BY <2>2, <2>3 DEF c, Tip, Size
<1>3. b.depth = Size(n) /\ b.prev = Tip(n).id /\ b.id = 0 /\ ~b.valid /\ b \in Blocks
  <2>1. Tip(n).id \in Nat
    BY <1>2 DEF Blocks
  <2>2. QED
    BY <1>1, <2>1, PendingType DEF PendingBlock, NoBlock
<1> HIDE DEF b
<1>4. Tip(n).id \in DOMAIN solved /\ Tip(n).id \in 0..Len(solved)
  BY <1>2 DEF Held, Hashed
<1>5. Held(solved, n, b)
  BY <1>1, <1>2, <1>3, <1>4 DEF Held, Follows, Histories
<1>6. Home(solved, n, Append(chain[n], b))
  BY <1>1, <1>3, <1>5, HomeAppend DEF Process
<1>7. QED
  BY <1>3, <1>5, <1>6 DEF b

LEMMA PushNextOrder ==
  ASSUME TypeOK, Order, NEW n \in Procs, NEW t \in Threads, PushNext(n, t)
  PROVE  Keeps(n)
<1>1. At(n, t, "push") /\ solved' = solved /\ Process(n)
  BY DEF PushNext, Order
<1>2. CASE Die(n)
  BY <1>1, <1>2, DieOrder
<1>3. CASE Fail(n, t)
  BY <1>1, <1>3, FailOrder DEF At
<1>4. CASE /\ chain[n] # <<>> /\ Tip(n).valid
           /\ chain' = [chain EXCEPT ![n] =
                           Append(@, PendingBlock(Size(n), Tip(n).id))]
           /\ Go(n, t, After(t))
           /\ UNCHANGED <<nothing, file, snap, net>>
  <2>1. pc'[n][t] = After(t) /\ \A o \in Threads \ {t} : pc'[n][o] = pc[n][o]
    BY <1>4, GoEffect DEF UiPcs, Starting, NetPcs, MinerPcs, After
  <2>2. Home(solved, n, chain'[n])
    <3>1. chain'[n] = Append(chain[n], PendingBlock(Size(n), Tip(n).id))
      BY <1>4 DEF TypeOK
    <3>2. QED
      BY <1>1, <1>4, <3>1, NextBlockHeld
  <2>3. Growing /\ Sound(solved') /\ \A m \in net' : Mail(solved', m)
    BY <1>1, <1>4, Unsolved, NetOrder
  <2>4. /\ pc'[n].ui \notin Starting \cup {"down", "genesis"}
    <3>1. pc[n].ui # "genesis"
      BY <1>1, <1>4 DEF Process, At
    <3>2. CASE t = "ui"
      BY <2>1, <3>2 DEF After, Starting
    <3>3. CASE t # "ui"
      <4>1. pc'[n].ui = pc[n].ui
        BY <2>1, <3>3 DEF Threads
      <4>2. t = "net" \/ t = "miner"
        BY <3>3 DEF Threads
      <4>3. pc[n].ui \notin Starting \cup {"down"}
        BY <1>1, <4>2 DEF Process, At
      <4>4. QED
        BY <3>1, <4>1, <4>3
    <3>4. QED
      BY <3>2, <3>3
  <2>5. QED
    BY <1>1, <1>4, <2>2, <2>3, <2>4 DEF Keeps, Process, At, Starting
<1>5. QED
  BY <1>2, <1>3, <1>4 DEF PushNext

LEMMA InterruptOrder ==
  ASSUME TypeOK, Order, NEW n \in Procs, Interrupt(n)
  PROVE  Keeps(n)
<1>1. pc'[n].miner = "stopping" /\ pc'[n].ui = "free" /\ pc'[n].net = pc[n].net
  BY GoEffect DEF Interrupt, Threads, MinerPcs, At
<1>2. Process(n)
  BY DEF Order
<1>3. QED
  BY <1>1, <1>2, MoveOrder DEF Interrupt, Process, Starting

LEMMA DangleOrder ==
  ASSUME TypeOK, Order, NEW n \in Procs, Dangle(n)
  PROVE  Keeps(n)
<1>1. CASE Die(n)
  BY <1>1, DieOrder DEF Dangle
<1>2. CASE Go(n, "miner", "mined") /\ UNCHANGED <<chain, nothing, file, snap, net>>
  <2>1. pc'[n].miner = "mined" /\ pc'[n].ui = pc[n].ui /\ pc'[n].net = pc[n].net
    BY <1>2, GoEffect DEF Threads, MinerPcs
  <2>2. Process(n) /\ pc[n].miner = "dangling"
    BY DEF Order, Dangle, At
  <2>3. QED
    BY <1>2, <2>1, <2>2, MoveOrder DEF Dangle, Process, At
<1>3. QED
  BY <1>1, <1>2 DEF Dangle

LEMMA ReceiveBlockTooEarlyOrder ==
  ASSUME TypeOK, Order, NEW n \in Procs, NEW m \in net, ReceiveBlockTooEarly(n, m)
  PROVE  Keeps(n)
BY DieOrder DEF ReceiveBlockTooEarly

LEMMA GenesisAbortedOrder ==
  ASSUME TypeOK, Order, NEW n \in Procs, GenesisAborted(n)
  PROVE  Keeps(n)
BY DieOrder DEF GenesisAborted

LEMMA KillOrder ==
  ASSUME TypeOK, Order, NEW n \in Procs, Kill(n)
  PROVE  Keeps(n)
BY DieOrder DEF Kill
\* The current block changes and threads move.
LEMMA CurrentOrder ==
  ASSUME TypeOK, Order, Growing, Sound(solved'), \A m \in net' : Mail(solved', m),
         NEW n \in Procs, NEW b \in Blocks, SetCurrent(n, b), Held(solved', n, b),
         b.depth = get_current_block(n).depth,
         Size(n) > 1 /\ b.valid => solved'[b.id].by = n,
         file'[n] = file[n], snap'[n] = snap[n],
         pc'[n].ui \notin Starting \cup {"down"},
         pc'[n].ui = "genesis" =>
           /\ pc[n].ui = "genesis" /\ ~b.valid
           /\ pc'[n].miner \notin {"mining", "stopping"}
  PROVE  Keeps(n)
<1>1. Process(n) /\ solved \in Histories
  BY DEF Order, TypeOK, Histories
<1>2. /\ Held(solved', n, nothing'[n]) /\ nothing'[n].depth = 0
      /\ Home(solved', n, chain'[n])
      /\ Len(chain'[n]) = Len(chain[n])
      /\ chain[n] # <<>> => chain'[n][Len(chain[n])] = b
  BY <1>1, SetCurrentOrder
<1>3. Saved(solved', n, file'[n]) /\ \A t \in Threads : Saved(solved', n, snap'[n][t])
  BY <1>1, SavedGrows DEF Process, Growing
<1>4. ASSUME pc'[n].ui = "genesis"
      PROVE  Len(chain'[n]) = 1 /\ ~chain'[n][Len(chain'[n])].valid
  <2>1. Len(chain[n]) = 1
    BY <1>1, <1>4 DEF Process, At, Size
  <2>2. chain[n] # <<>>
    BY <2>1
  <2>3. QED
    BY <1>2, <1>4, <2>1, <2>2
<1>5. pc'[n].ui \notin {"down", "boot"}
  BY DEF Starting
<1>6. QED
  BY <1>2, <1>3, <1>4, <1>5 DEF Keeps, Process, At, Size, Tip

\* A block with other transactions that is not valid.
LEMMA HeldOpen ==
  ASSUME NEW h, NEW n, NEW b \in Blocks, Held(h, n, b), NEW txs \in Seq(Tx)
  PROVE  LET c == [b EXCEPT !.txs = txs, !.valid = FALSE]
         IN  c \in Blocks /\ Held(h, n, c) /\ ~c.valid /\ c.depth = b.depth
BY DEF Blocks, Held, Follows

LEMMA StartMiningOrder ==
  ASSUME TypeOK, Order, NEW n \in Procs, StartMining(n)
  PROVE  Keeps(n)
<1> DEFINE b == get_current_block(n)
    c == [b EXCEPT !.txs = Append(@, reward(n)), !.valid = FALSE]
    txs == Append(b.txs, reward(n))
<1>1. Process(n) /\ solved' = solved /\ net' = net
  BY DEF Order, StartMining
<1>2. b \in Blocks /\ Held(solved, n, b)
  BY <1>1, CurrentType, CurrentHeld
<1>3. txs \in Seq(Tx)
  BY <1>2, RewardType DEF Blocks
<1>4. SetCurrent(n, c) /\ file'[n] = file[n] /\ snap'[n] = snap[n]
  BY DEF StartMining
<1>5. c = [b EXCEPT !.txs = txs, !.valid = FALSE]
  OBVIOUS
<1>6. pc'[n].ui = "free"
  BY GoEffect DEF StartMining, Threads, MinerPcs, At
<1> HIDE DEF b, txs
<1>7. c \in Blocks /\ Held(solved, n, c) /\ ~c.valid /\ c.depth = b.depth
  <2>1. LET d == [b EXCEPT !.txs = txs, !.valid = FALSE]
        IN  d \in Blocks /\ Held(solved, n, d) /\ ~d.valid /\ d.depth = b.depth
    BY <1>2, <1>3, HeldOpen
  <2>2. QED
    BY <1>5, <2>1
<1>8. Growing /\ Sound(solved') /\ \A m \in net' : Mail(solved', m)
  BY <1>1, Unsolved, NetOrder
<1> HIDE DEF c
<1>9. QED
  BY <1>1, <1>4, <1>6, <1>7, <1>8, CurrentOrder DEF b, Starting

LEMMA WithoutRewardsEmpty == WithoutRewards(<<>>) = <<>>
<1>1. <<>> \in Seq(Tx) /\ DOMAIN <<>> = {}
  OBVIOUS
<1>2. QED
  BY <1>1, KeptAll DEF WithoutRewards

LEMMA CleanBlockOrder ==
  ASSUME TypeOK, Order, NEW n \in Procs, CleanBlock(n)
  PROVE  Keeps(n)
<1> DEFINE b == get_current_block(n)
    c == [b EXCEPT !.txs = WithoutRewards(@)]
<1>1. Process(n) /\ solved' = solved /\ net' = net
  BY DEF Order, CleanBlock
<1>2. /\ b \in Blocks /\ Held(solved, n, b)
      /\ Size(n) > 1 /\ b.valid => solved[b.id].by = n
  BY <1>1, CurrentType, CurrentHeld
<1>3. SetCurrent(n, c) /\ file'[n] = file[n] /\ snap'[n] = snap[n]
  BY DEF CleanBlock
<1>4. pc[n].ui \notin Starting \cup {"down", "genesis"} /\ pc'[n].ui = pc[n].ui
  BY <1>1, GoEffect DEF CleanBlock, Threads, MinerPcs, At, Process
<1>5. WithoutRewards(b.txs) \in Seq(Tx) /\ (b.txs = <<>> => WithoutRewards(b.txs) = <<>>)
  BY <1>2, WithoutRewardsType, WithoutRewardsEmpty DEF Blocks
<1> HIDE DEF b
<1>6. /\ c \in Blocks /\ c.depth = b.depth /\ c.prev = b.prev /\ c.id = b.id
      /\ c.valid = b.valid /\ c.txs = WithoutRewards(b.txs)
  BY <1>2, <1>5 DEF Blocks
<1> HIDE DEF c
<1>7. Held(solved, n, c)
  BY <1>2, <1>5, <1>6 DEF Held, Follows, Hashed
<1>8. Growing /\ Sound(solved') /\ \A m \in net' : Mail(solved', m)
  BY <1>1, Unsolved, NetOrder
<1>9. QED
  BY <1>1, <1>2, <1>3, <1>4, <1>6, <1>7, <1>8, CurrentOrder DEF b

LEMMA SolveOrder ==
  ASSUME TypeOK, Order, NEW n \in Procs, Solve(n)
  PROVE  Keeps(n)
<1> DEFINE b == get_current_block(n)
<1>1. Process(n)
  BY DEF Order
<1>2. b \in Blocks /\ Held(solved, n, b)
  BY <1>1, CurrentType, CurrentHeld
<1>3. SetCurrent(n, Solved(b)) /\ Mine(n, b) /\ file'[n] = file[n] /\ snap'[n] = snap[n]
      /\ net' = net
  BY DEF Solve
<1>4. pc[n].ui \notin Starting \cup {"down", "genesis"} /\ pc'[n].ui = pc[n].ui
  BY <1>1, GoEffect DEF Solve, Threads, MinerPcs, At, Process
<1>5. Solved(b).depth = b.depth
  BY <1>2 DEF Solved, Blocks
<1> HIDE DEF b
<1>6. /\ Growing /\ Sound(solved') /\ Solved(b) \in Blocks
      /\ Held(solved', n, Solved(b)) /\ solved'[Solved(b).id].by = n
  BY <1>2, <1>3, SolvedOrder DEF Held
<1>7. \A m \in net' : Mail(solved', m)
  BY <1>3, <1>6, NetOrder
<1>8. QED
  BY <1>3, <1>4, <1>5, <1>6, <1>7, CurrentOrder DEF b

LEMMA PropagateBlockOrder ==
  ASSUME TypeOK, Order, NEW n \in Procs, PropagateBlock(n)
  PROVE  Keeps(n)
<1> DEFINE b == get_current_block(n)
<1>1. Process(n) /\ solved' = solved /\ Growing /\ Sound(solved')
  BY Unsolved DEF Order, PropagateBlock
<1>2. \A m \in net' : Mail(solved', m)
  <2>1. \A m \in net : Mail(solved', m)
    BY <1>1 DEF Order
  <2>2. CASE b.valid
    <3>1. PICK to \in SUBSET Procs : net' = net \cup BlockMessages(b, to)
      BY <2>2 DEF PropagateBlock
    <3>2. Held(solved, n, b)
      BY <1>1, CurrentHeld
    <3> HIDE DEF b
    <3>3. \A m \in BlockMessages(b, to) : Mail(solved', m)
      BY <1>1, <2>2, <3>2 DEF BlockMessages, Mail, Held, Hashed
    <3>4. QED
      BY <2>1, <3>1, <3>3
  <2>3. CASE ~b.valid
    BY <2>1, <2>3 DEF PropagateBlock
  <2>4. QED
    BY <2>2, <2>3
<1>3. /\ pc'[n].miner \in {"seal", "idle"} /\ pc'[n].ui = pc[n].ui
      /\ pc'[n].net = pc[n].net /\ pc[n].miner = "mined"
  BY GoEffect DEF PropagateBlock, Threads, MinerPcs, NetPcs, At
<1>4. /\ chain'[n] = chain[n] /\ nothing'[n] = nothing[n] /\ file'[n] = file[n]
      /\ snap'[n] = snap[n]
  BY DEF PropagateBlock
<1>5. QED
  BY <1>1, <1>2, <1>3, <1>4 DEF Keeps, Process, At, Size, Tip
LEMMA InterruptedEffect ==
  ASSUME TypeOK, NEW n \in Procs, NEW p \in Interrupted(n), pc' = [pc EXCEPT ![n] = p]
  PROVE  /\ pc'[n].net = pc[n].net
         /\ pc'[n].miner = IF pc[n].miner = "mining" THEN "stopping" ELSE pc[n].miner
         /\ pc'[n].ui = pc[n].ui \/ (pc[n].ui = "genesis" /\ pc'[n].ui = "aborted")
<1>1. pc \in [Procs -> Pcs] /\ pc[n] \in Pcs
  BY DEF TypeOK, Pcs
<1>2. pc'[n] = p
  BY <1>1
<1>3. PICK u \in IF At(n, "ui", "genesis") THEN {"genesis", "aborted"} ELSE {pc[n].ui} :
        p = [pc[n] EXCEPT !.miner = IF @ = "mining" THEN "stopping" ELSE @, !.ui = u]
  BY DEF Interrupted
<1>4. u = pc[n].ui \/ (pc[n].ui = "genesis" /\ u = "aborted")
  BY DEF At
<1>5. QED
  BY <1>1, <1>2, <1>3, <1>4 DEF Pcs

LEMMA AddTransactionOrder ==
  ASSUME TypeOK, Order, solved' = solved, \A m \in net' : Mail(solved', m),
         NEW n \in Procs, NEW tx \in Tx, add_transaction(n, tx),
         file'[n] = file[n], snap'[n] = snap[n], pc[n].ui \notin Starting \cup {"down"}
  PROVE  Keeps(n)
<1> DEFINE b == get_current_block(n)
    c == [b EXCEPT !.txs = Append(@, tx), !.valid = FALSE]
    txs == Append(b.txs, tx)
<1>1. Process(n)
  BY DEF Order
<1>2. b \in Blocks /\ Held(solved, n, b)
  BY <1>1, CurrentType, CurrentHeld
<1>3. txs \in Seq(Tx)
  BY <1>2 DEF Blocks
<1>4. SetCurrent(n, c) /\ c = [b EXCEPT !.txs = txs, !.valid = FALSE]
  BY DEF add_transaction
<1>5. /\ pc'[n].miner = IF pc[n].miner = "mining" THEN "stopping" ELSE pc[n].miner
      /\ pc'[n].ui = pc[n].ui \/ (pc[n].ui = "genesis" /\ pc'[n].ui = "aborted")
  BY InterruptedEffect DEF add_transaction
<1>6. /\ pc'[n].ui \notin Starting \cup {"down"}
      /\ pc'[n].ui = "genesis" =>
           pc[n].ui = "genesis" /\ pc'[n].miner \notin {"mining", "stopping"}
  BY <1>1, <1>5 DEF Process, At, Starting
<1> HIDE DEF b, txs
<1>7. c \in Blocks /\ Held(solved, n, c) /\ ~c.valid /\ c.depth = b.depth
  <2>1. LET d == [b EXCEPT !.txs = txs, !.valid = FALSE]
        IN  d \in Blocks /\ Held(solved, n, d) /\ ~d.valid /\ d.depth = b.depth
    BY <1>2, <1>3, HeldOpen
  <2>2. QED
    BY <1>4, <2>1
<1>8. Growing /\ Sound(solved')
  BY Unsolved
<1> HIDE DEF c
<1>9. QED
  BY <1>4, <1>6, <1>7, <1>8, CurrentOrder DEF b

\* A payment is made by a process, and to send it is to tell others of it.
LEMMA SendOrder ==
  ASSUME TypeOK, Order, NEW n \in Procs, NEW p \in Payments, Send(n, p)
  PROVE  Keeps(n)
<1>1. solved' = solved /\ pc[n].ui = "free" /\ p.from = n
  BY DEF Send, At
<1>2. CASE Die(n)
  BY <1>1, <1>2, DieOrder
<1>3. CASE /\ ~(p.amount < 0)
           /\ add_transaction(n, payment(p))
           /\ \E to \in SUBSET Procs :
               net' = net \cup {[to |-> m, kind |-> "transaction",
                                 body |-> payment(p)] : m \in {o \in to : Up(o)}}
           /\ UNCHANGED <<file, snap>>
  <2>1. \A m \in net : Mail(solved', m)
    BY <1>1 DEF Order
  <2>2. PICK to \in SUBSET Procs :
           net' = net \cup {[to |-> m, kind |-> "transaction",
                             body |-> payment(p)] : m \in {o \in to : Up(o)}}
    BY <1>3
  <2>3. payment(p).from = n /\ payment(p).amount = p.amount /\ p.amount \in Int
    BY <1>1, PaymentsAssumption DEF payment
  <2>4. \A m \in net' : Mail(solved', m)
    <3>1. SUFFICES ASSUME NEW m \in Procs
          PROVE  Mail(solved', [to |-> m, kind |-> "transaction", body |-> payment(p)])
      BY <2>1, <2>2
    <3>2. QED
      BY <1>3, <2>3 DEF Mail
  <2>5. QED
    BY <1>1, <1>3, <2>4, PaymentType, AddTransactionOrder DEF Starting
<1>4. QED
  BY <1>2, <1>3 DEF Send

LEMMA ReceiveTransactionOrder ==
  ASSUME NEW back \in Nat, TypeOK, Order, NEW n \in Procs, NEW m \in net,
         ReceiveTransaction(n, m)
  PROVE  Keeps(n)
<1>1. m.body \in Tx /\ solved' = solved
  BY DEF ReceiveTransaction, TypeOK, Messages
<1>2. CASE Die(n)
  BY <1>1, <1>2, DieOrder
<1>3. CASE /\ Serves(n) /\ add_transaction(n, m.body) /\ UNCHANGED <<file, snap, net>>
  <2>1. \A o \in net' : Mail(solved', o)
    BY <1>1, <1>3 DEF Order
  <2>2. QED
    BY <1>1, <1>3, <2>1, AddTransactionOrder DEF Serves
<1>4. QED
  BY <1>2, <1>3 DEF ReceiveTransaction

\* A peer's block takes the place of the last.  It is the first of its chain, or
\* it was mined by the process that it comes back to.
LEMMA ReplaceOrder ==
  ASSUME TypeOK, Order, solved' = solved, net' = net, NEW n \in Procs, NEW b \in Blocks,
         Validates(b), b.depth = Size(n), chain[n] # <<>>, Compatible(n, b),
         Replace(n, b), Serves(n), UNCHANGED <<nothing, file, snap>>
  PROVE  Keeps(n)
<1>1. Process(n) /\ solved \in Histories /\ chain[n] \in Seq(Blocks) /\ Sound(solved)
  BY DEF Order, TypeOK, Histories
<1>2. /\ b.id \in DOMAIN solved /\ solved[b.id].header.depth = b.depth
      /\ solved[b.id].header.prev = b.prev
  BY DEF Validates, Header
<1>3. /\ Copy(b) \in Blocks /\ Copy(b).depth = b.depth /\ Copy(b).prev = b.prev
      /\ Copy(b).id = b.id /\ Copy(b).txs = <<>> /\ Copy(b).valid
  BY CopyType DEF Copy, Blocks
<1>4. Follows(solved, solved[b.id].by, solved[b.id].header)
  BY <1>1, <1>2 DEF Sound
<1>5. Size(n) \in Nat /\ Size(n) # 0
  BY <1>1 DEF Size
<1>6. ASSUME Size(n) > 1
      PROVE  solved[b.id].by = n
  <2>1. Tip(n).valid /\ b.prev = Tip(n).id
    BY <1>6 DEF Compatible
  <2>2. solved[Tip(n).id].by = n
    BY <1>1, <1>6, <2>1, HomeFront DEF Process, Tip, Size
  <2>3. b.depth >= 2
    BY <1>5, <1>6
  <2>4. solved[b.prev].by = solved[b.id].by
    BY <1>2, <1>4, <2>3 DEF Follows
  <2>5. QED
    BY <2>1, <2>2, <2>4
<1>7. Held(solved, n, Copy(b))
  <2>1. Follows(solved, n, Copy(b))
    BY <1>2, <1>3, <1>4, <1>5, <1>6 DEF Follows
  <2>2. Hashed(solved, Copy(b)) /\ Copy(b).id \in 0..Len(solved)
    BY <1>1, <1>2, <1>3 DEF Hashed, Histories
  <2>3. QED
    BY <1>3, <2>1, <2>2 DEF Held
<1>8. Home(solved, n, chain'[n])
  <2> DEFINE f == Front(chain[n])
  <2>1. chain'[n] = Append(f, Copy(b))
    BY DEF Replace, TypeOK
  <2>2. f \in Seq(Blocks) /\ Len(f) = Size(n) - 1 /\ Home(solved, n, f)
    BY <1>1, FrontAndTip, HomeFront DEF Process, Size
  <2>3. f # <<>> => Size(n) > 1
    BY <1>5, <2>2
  <2> HIDE DEF f
  <2>4. QED
    BY <1>3, <1>6, <1>7, <2>1, <2>2, <2>3, HomeAppend
<1>9. pc'[n].ui = IF pc[n].ui = "genesis" THEN "aborted" ELSE pc[n].ui
  BY DEF Replace, Lost, TypeOK
<1>10. Growing /\ \A m \in net' : Mail(solved', m)
  BY Unsolved, NetOrder
<1>11. /\ nothing'[n] = nothing[n] /\ file'[n] = file[n] /\ snap'[n] = snap[n]
  OBVIOUS
<1>12. pc'[n].ui \notin Starting \cup {"down", "genesis"}
  BY <1>9 DEF Serves, Starting
<1>13. QED
  BY <1>1, <1>8, <1>10, <1>11, <1>12 DEF Keeps, Process, At, Starting

LEMMA ReceiveBlockOrder ==
  ASSUME TypeOK, Order, NEW n \in Procs, NEW m \in net, ReceiveBlock(n, m)
  PROVE  Keeps(n)
<1>1. m.body \in Blocks /\ solved' = solved /\ Serves(n)
  BY DEF ReceiveBlock, TypeOK, Messages
<1>3. CASE Die(n)
  BY <1>1, <1>3, DieOrder
<1>4. CASE /\ Validates(m.body) /\ m.body.depth = Size(n) /\ chain[n] # <<>>
           /\ Compatible(n, m.body) /\ Replace(n, m.body)
           /\ UNCHANGED <<nothing, file, snap, net>>
  BY <1>1, <1>4, ReplaceOrder
<1>5. CASE UNCHANGED <<chain, nothing, file, snap, net, pc, raced>>
  <2>1. Process(n)
    BY DEF Order
  <2>2. QED
    BY <1>1, <1>5, <2>1, MoveOrder DEF Process, At
<1>6. QED
  BY <1>1, <1>3, <1>4, <1>5 DEF ReceiveBlock

LEMMA ForceSyncOrder ==
  ASSUME TypeOK, Order, NEW n \in Procs, ForceSync(n)
  PROVE  Keeps(n)
<1>1. Process(n) /\ solved \in Histories /\ solved' = solved /\ net' = net
  BY DEF Order, TypeOK, Histories, ForceSync
<1>2. Growing /\ Sound(solved') /\ \A m \in net' : Mail(solved', m)
  BY <1>1, Unsolved, NetOrder
<1>3. file'[n] = <<>> /\ nothing'[n] = nothing[n] /\ snap'[n] = snap[n]
  BY DEF ForceSync, TypeOK
<1>4. Saved(solved, n, file'[n])
  BY <1>3, HomeEmpty
<1>5. pc[n] \in Pcs /\ pc[n].ui = "free"
  BY DEF TypeOK, Pcs, ForceSync, At
<1>6. CASE chain' = [chain EXCEPT ![n] = <<>>] /\ pc' = [pc EXCEPT ![n] = Lost(n)]
  <2>1. chain'[n] = <<>> /\ pc'[n].ui = "free"
    BY <1>5, <1>6 DEF TypeOK, Lost, Pcs
  <2>2. Home(solved, n, chain'[n])
    BY <2>1, HomeEmpty
  <2>3. QED
    BY <1>1, <1>2, <1>3, <1>4, <2>1, <2>2 DEF Keeps, Process, At, Starting
<1>7. CASE /\ chain' = [chain EXCEPT ![n] = <<PendingBlock(0, NoBlock)>>]
           /\ pc' = [pc EXCEPT ![n] = [Lost(n) EXCEPT !.ui = "genesis"]]
  <2> DEFINE g == PendingBlock(0, NoBlock)
  <2>1. Held(solved, n, g) /\ ~g.valid
    BY <1>1, HeldPending DEF PendingBlock
  <2> HIDE DEF g
  <2>2. chain'[n] = <<g>>
    BY <1>7 DEF TypeOK, g
  <2>3. pc'[n].ui = "genesis" /\ pc'[n].miner \notin {"mining", "stopping"}
    BY <1>5, <1>7 DEF TypeOK, Lost, Pcs
  <2>4. Home(solved, n, chain'[n]) /\ Len(chain'[n]) = 1 /\ ~chain'[n][1].valid
    BY <2>1, <2>2 DEF Home
  <2>5. QED
    BY <1>1, <1>2, <1>3, <1>4, <2>3, <2>4 DEF Keeps, Process, At, Size, Tip, Starting
<1>8. QED
  BY <1>6, <1>7 DEF ForceSync

LEMMA MineGenesisOrder ==
  ASSUME TypeOK, Order, NEW n \in Procs, MineGenesis(n)
  PROVE  Keeps(n)
<1> DEFINE b == Tip(n)
<1>1. Process(n) /\ solved \in Histories /\ chain[n] \in Seq(Blocks)
  BY DEF Order, TypeOK, Histories
<1>2. chain[n] # <<>>
  <2>1. Len(chain[n]) = 1
    BY <1>1 DEF MineGenesis, Process, At, Size
  <2>2. QED
    BY <2>1
<1>3. b = get_current_block(n)
  BY <1>2 DEF get_current_block
<1>4. b \in Blocks /\ Follows(solved, n, b)
  BY <1>1, <1>3, CurrentType, CurrentHeld DEF Held
<1>5. /\ Mine(n, b) /\ chain'[n] = <<Solved(b)>> /\ nothing'[n] = nothing[n]
      /\ file'[n] = file[n] /\ snap'[n] = snap[n] /\ net' = net
  BY DEF MineGenesis, TypeOK
<1>6. pc'[n].ui = "free"
  BY GoEffect DEF MineGenesis, Threads, UiPcs
<1> HIDE DEF b
<1>7. /\ Growing /\ Sound(solved') /\ Solved(b) \in Blocks
      /\ Held(solved', n, Solved(b)) /\ solved'[Solved(b).id].by = n
  BY <1>4, <1>5, SolvedOrder
<1>8. Home(solved', n, chain'[n])
  BY <1>5, <1>7 DEF Home
<1>9. Held(solved', n, nothing'[n]) /\ nothing'[n].depth = 0
  BY <1>1, <1>5, <1>7, HeldGrows DEF Process, Growing
<1>10. Saved(solved', n, file'[n]) /\ \A t \in Threads : Saved(solved', n, snap'[n][t])
  BY <1>1, <1>5, <1>7, SavedGrows DEF Process, Growing
<1>11. \A m \in net' : Mail(solved', m)
  BY <1>5, <1>7, NetOrder
<1>12. QED
  BY <1>6, <1>7, <1>8, <1>9, <1>10, <1>11 DEF Keeps, Process, At, Starting
-----------------------------------------------------------------------------
(***************************************************************************)
(* Types, and what holds of every process.                                 *)
(***************************************************************************)
LEMMA OrderInit ==
  ASSUME Init
  PROVE  TypeOK /\ Order
<1>1. PendingBlock(0, NoBlock) \in Blocks /\ PendingBlock(0, NoBlock).depth = 0
  BY PendingType DEF NoBlock, PendingBlock
<1>2. Off \in Pcs
  BY DEF Off, Pcs, UiPcs, NetPcs, MinerPcs
<1>3. <<>> \in Seq(Blocks) /\ <<>> \in Histories
  BY DEF Histories
<1>4. TypeOK
  BY <1>1, <1>2, <1>3, BoundsAssumption DEF Init, TypeOK, Pcs, Histories
<1>5. Sound(solved) /\ \A m \in net : Mail(solved, m)
  BY DEF Init, Sound
<1>6. \A n \in Procs : Process(n)
  <2>1. TAKE n \in Procs
  <2>2. Held(solved, n, nothing[n]) /\ nothing[n].depth = 0
    BY <1>1, <1>3, HeldPending DEF Init
  <2>3. Home(solved, n, chain[n]) /\ Saved(solved, n, file[n])
        /\ \A t \in Threads : Saved(solved, n, snap[n][t])
    BY HomeEmpty DEF Init
  <2>4. QED
    BY <2>2, <2>3 DEF Init, Process, At, Off
<1>7. QED
  BY <1>4, <1>5, <1>6 DEF Order

\* One action at a time.
LEMMA StepOrder ==
  ASSUME TypeOK, Order, NEW n \in Procs,
         \/ Start(n) \/ LoadChain(n) \/ CreateNewBlock(n)
         \/ StartMining(n) \/ Interrupt(n) \/ CleanBlock(n) \/ Solve(n)
         \/ Dangle(n) \/ PropagateBlock(n)
         \/ \E p \in Payments : Send(n, p)
         \/ \E m \in net : \/ ReceiveTransaction(n, m)
                           \/ ReceiveBlock(n, m)
                           \/ ReceiveBlockTooEarly(n, m)
         \/ ForceSync(n) \/ MineGenesis(n) \/ GenesisAborted(n)
         \/ Kill(n)
  PROVE  Typed(n) /\ Keeps(n)
<1>1. CASE Start(n)
  BY <1>1, StartType, StartOrder
<1>2. CASE LoadChain(n)
  BY <1>2, LoadChainType, LoadChainOrder
<1>3. CASE CreateNewBlock(n)
  <2>1. PICK t \in Threads : Truncate(n, t) \/ WriteFile(n, t) \/ PushNext(n, t)
    BY <1>3 DEF CreateNewBlock
  <2>2. CASE Truncate(n, t)
    BY <2>2, TruncateType, TruncateOrder
  <2>3. CASE WriteFile(n, t)
    BY <2>3, WriteFileType, WriteFileOrder
  <2>4. CASE PushNext(n, t)
    BY <2>4, PushNextType, PushNextOrder
  <2>5. QED
    BY <2>1, <2>2, <2>3, <2>4
<1>4. CASE StartMining(n)
  BY <1>4, StartMiningType, StartMiningOrder
<1>5. CASE Interrupt(n)
  BY <1>5, InterruptType, InterruptOrder
<1>6. CASE CleanBlock(n)
  BY <1>6, CleanBlockType, CleanBlockOrder
<1>7. CASE Solve(n)
  BY <1>7, SolveType, SolveOrder
<1>8. CASE Dangle(n)
  BY <1>8, DangleType, DangleOrder
<1>9. CASE PropagateBlock(n)
  BY <1>9, PropagateBlockType, PropagateBlockOrder
<1>10. CASE \E p \in Payments : Send(n, p)
  BY <1>10, SendType, SendOrder
<1>11. CASE \E m \in net : ReceiveTransaction(n, m)
  BY <1>11, ReceiveTransactionType, ReceiveTransactionOrder
<1>12. CASE \E m \in net : ReceiveBlock(n, m)
  BY <1>12, ReceiveBlockType, ReceiveBlockOrder
<1>13. CASE \E m \in net : ReceiveBlockTooEarly(n, m)
  BY <1>13, ReceiveBlockTooEarlyType, ReceiveBlockTooEarlyOrder
<1>14. CASE ForceSync(n)
  BY <1>14, ForceSyncType, ForceSyncOrder
<1>15. CASE MineGenesis(n)
  <2>1. Process(n) /\ At(n, "ui", "genesis")
    BY <1>15 DEF Order, MineGenesis
  <2>2. Len(chain[n]) = 1
    BY <2>1 DEF Process, Size
  <2>3. chain[n] # <<>>
    BY <2>2
  <2>4. QED
    BY <1>15, <2>3, MineGenesisType, MineGenesisOrder
<1>16. CASE GenesisAborted(n)
  BY <1>16, GenesisAbortedType, GenesisAbortedOrder
<1>17. CASE Kill(n)
  BY <1>17, KillType, KillOrder
<1>18. QED
  BY <1>1, <1>2, <1>3, <1>4, <1>5, <1>6, <1>7, <1>8, <1>9, <1>10, <1>11, <1>12,
     <1>13, <1>14, <1>15, <1>16, <1>17

LEMMA OrderNext ==
  ASSUME TypeOK, Order, [Next]_vars
  PROVE  TypeOK' /\ Order'
<1>1. CASE UNCHANGED vars
  <2>1. Sound(solved)' /\ \A m \in net' : Mail(solved', m)
    BY <1>1 DEF vars, Order
  <2>2. \A n \in Procs : Process(n)'
    BY <1>1 DEF vars, Order, Process, At, Size, Tip
  <2>3. TypeOK'
    BY <1>1 DEF vars, TypeOK
  <2>4. QED
    BY <2>1, <2>2, <2>3 DEF Order
<1>2. CASE Next
  <2>1. PICK n \in Procs : Typed(n) /\ Keeps(n)
    BY <1>2, StepOrder DEF Next
  <2>2. \A p \in Procs : Process(p)'
    BY <2>1, OthersOrder DEF Typed, Keeps
  <2>3. QED
    BY <2>1, <2>2 DEF Typed, Keeps, Order
<1>3. QED
  BY <1>1, <1>2

\* Whatever its threads do, a process holds, saves and sends only blocks that were
\* mined, and from the second on only its own: the part that needs no absence of races.
THEOREM OrderTheorem == Spec => [](TypeOK /\ Order)
<1>1. Init => TypeOK /\ Order
  BY OrderInit
<1>2. TypeOK /\ Order /\ [Next]_vars => (TypeOK /\ Order)'
  BY OrderNext
<1>3. QED
  BY <1>1, <1>2, PTL DEF Spec

\* Every variable keeps its type: whatever the threads of a process do to one
\* another, the chain, the file and the messages stay what they are.
THEOREM TypeTheorem == Spec => []TypeOK
BY OrderTheorem, PTL

\* Every block of a chain after the first was mined by the process that has it,
\* raced or not.
THEOREM OwnTheorem == Spec => []OwnAfterFirst
<1>1. TypeOK /\ Order => OwnAfterFirst
  BY DEF Order, Process, Home, OwnAfterFirst, Sealed
<1>2. QED
  BY <1>1, OrderTheorem, PTL
-----------------------------------------------------------------------------
(***************************************************************************)
(* Funds.                                                                  *)
(***************************************************************************)
LEMMA EffectType ==
  ASSUME NEW tx \in Tx, NEW o
  PROVE  Effect(tx, o) \in Int
BY DEF Effect, Tx

LEMMA EffectsType ==
  ASSUME NEW txs \in Seq(Tx), NEW o
  PROVE  /\ [i \in DOMAIN txs |-> Effect(txs[i], o)] \in Seq(Int)
         /\ Len([i \in DOMAIN txs |-> Effect(txs[i], o)]) = Len(txs)
<1> DEFINE f == [i \in DOMAIN txs |-> Effect(txs[i], o)]
<1>1. f = [i \in DOMAIN txs |-> f[i]]
  OBVIOUS
<1>2. \A i \in DOMAIN txs : f[i] \in Int
  <2>1. TAKE i \in DOMAIN txs
  <2>2. txs[i] \in Tx
    OBVIOUS
  <2>3. QED
    BY <2>2, EffectType
<1> HIDE DEF f
<1>3. f \in Seq(Int) /\ Len(f) = Len(txs)
  BY <1>1, <1>2, MapType
<1>4. QED
  BY <1>3 DEF f

LEMMA IncomeType ==
  ASSUME NEW txs \in Seq(Tx), NEW o
  PROVE  Income(txs, o) \in Int
BY EffectsType, TotalType DEF Income

LEMMA IncomeEmpty ==
  ASSUME NEW o
  PROVE  Income(<<>>, o) = 0
<1>1. [i \in DOMAIN <<>> |-> Effect(<<>>[i], o)] = <<>>
  OBVIOUS
<1>2. QED
  BY <1>1, TotalEmpty DEF Income

\* Another transaction has its effect on the income.
LEMMA IncomeAppend ==
  ASSUME NEW txs \in Seq(Tx), NEW tx \in Tx, NEW o
  PROVE  Income(Append(txs, tx), o) = Income(txs, o) + Effect(tx, o)
<1> DEFINE r == Append(txs, tx)
    f == [i \in DOMAIN txs |-> Effect(txs[i], o)]
    g == [i \in DOMAIN r |-> Effect(r[i], o)]
    e == Effect(tx, o)
    a == Append(f, e)
<1>1. /\ r \in Seq(Tx) /\ Len(r) = Len(txs) + 1 /\ Len(txs) \in Nat
      /\ r[Len(txs) + 1] = tx /\ \A i \in 1..Len(txs) : r[i] = txs[i]
  OBVIOUS
<1>2. f \in Seq(Int) /\ Len(f) = Len(txs) /\ e \in Int
  BY EffectsType, EffectType
<1>3. g \in Seq(Int) /\ Len(g) = Len(r)
  <2> HIDE DEF r
  <2>1. QED
    BY <1>1, EffectsType
<1>4. \A i \in 1..Len(txs) : f[i] = Effect(txs[i], o)
  OBVIOUS
<1>5. \A i \in 1..Len(r) : g[i] = Effect(r[i], o)
  <2> HIDE DEF r
  <2>1. QED
    BY <1>1
<1> HIDE DEF r, f, g, e
<1>6. a \in Seq(Int) /\ Len(a) = Len(txs) + 1 /\ a[Len(txs) + 1] = e
      /\ \A i \in 1..Len(txs) : a[i] = f[i]
  BY <1>1, <1>2
<1> HIDE DEF a
<1>7. \A i \in 1..Len(g) : g[i] = a[i]
  <2>1. TAKE i \in 1..Len(g)
  <2>2. CASE i = Len(txs) + 1
    BY <1>1, <1>3, <1>5, <1>6, <2>2 DEF e
  <2>3. CASE i # Len(txs) + 1
    <3>1. i \in 1..Len(txs) /\ i \in 1..Len(r)
      BY <1>1, <1>3, <2>3
    <3>2. QED
      BY <1>1, <1>4, <1>5, <1>6, <3>1
  <2>4. QED
    BY <2>2, <2>3
<1>8. g = a
  BY <1>1, <1>3, <1>6, <1>7, SeqEqual
<1>9. Total(g) = Total(f) + e
  BY <1>2, <1>8, TotalAppend DEF a
<1>10. QED
  BY <1>9 DEF Income, e, f, g, r

LEMMA IncomesType ==
  ASSUME NEW s \in Seq(Blocks), NEW o
  PROVE  /\ [i \in DOMAIN s |-> Income(s[i].txs, o)] \in Seq(Int)
         /\ Len([i \in DOMAIN s |-> Income(s[i].txs, o)]) = Len(s)
<1> DEFINE f == [i \in DOMAIN s |-> Income(s[i].txs, o)]
<1>1. f = [i \in DOMAIN s |-> f[i]]
  OBVIOUS
<1>2. \A i \in DOMAIN s : f[i] \in Int
  <2>1. TAKE i \in DOMAIN s
  <2>2. s[i] \in Blocks
    OBVIOUS
  <2>3. s[i].txs \in Seq(Tx)
    BY <2>2 DEF Blocks
  <2>4. QED
    BY <2>3, IncomeType
<1> HIDE DEF f
<1>3. f \in Seq(Int) /\ Len(f) = Len(s)
  BY <1>1, <1>2, MapType
<1>4. QED
  BY <1>3 DEF f

LEMMA FundsType ==
  ASSUME NEW s \in Seq(Blocks), NEW o
  PROVE  get_funds(s, o) \in Int
BY IncomesType, TotalType DEF get_funds

LEMMA FundsEmpty ==
  ASSUME NEW o
  PROVE  get_funds(<<>>, o) = 0
<1>1. [i \in DOMAIN <<>> |-> Income(<<>>[i].txs, o)] = <<>>
  OBVIOUS
<1>2. QED
  BY <1>1, TotalEmpty DEF get_funds

\* Another block adds its income to the funds.
LEMMA FundsAppend ==
  ASSUME NEW s \in Seq(Blocks), NEW b \in Blocks, NEW o
  PROVE  get_funds(Append(s, b), o) = get_funds(s, o) + Income(b.txs, o)
<1> DEFINE r == Append(s, b)
    f == [i \in DOMAIN s |-> Income(s[i].txs, o)]
    g == [i \in DOMAIN r |-> Income(r[i].txs, o)]
    e == Income(b.txs, o)
    a == Append(f, e)
<1>1. /\ r \in Seq(Blocks) /\ Len(r) = Len(s) + 1 /\ Len(s) \in Nat
      /\ r[Len(s) + 1] = b /\ \A i \in 1..Len(s) : r[i] = s[i]
  OBVIOUS
<1>2. f \in Seq(Int) /\ Len(f) = Len(s) /\ e \in Int
  <2>1. b.txs \in Seq(Tx)
    BY DEF Blocks
  <2>2. QED
    BY <2>1, IncomesType, IncomeType
<1>3. g \in Seq(Int) /\ Len(g) = Len(r)
  <2> HIDE DEF r
  <2>1. QED
    BY <1>1, IncomesType
<1>4. \A i \in 1..Len(s) : f[i] = Income(s[i].txs, o)
  OBVIOUS
<1>5. \A i \in 1..Len(r) : g[i] = Income(r[i].txs, o)
  <2> HIDE DEF r
  <2>1. QED
    BY <1>1
<1> HIDE DEF r, f, g, e
<1>6. a \in Seq(Int) /\ Len(a) = Len(s) + 1 /\ a[Len(s) + 1] = e
      /\ \A i \in 1..Len(s) : a[i] = f[i]
  BY <1>1, <1>2
<1> HIDE DEF a
<1>7. \A i \in 1..Len(g) : g[i] = a[i]
  <2>1. TAKE i \in 1..Len(g)
  <2>2. CASE i = Len(s) + 1
    BY <1>1, <1>3, <1>5, <1>6, <2>2 DEF e
  <2>3. CASE i # Len(s) + 1
    <3>1. i \in 1..Len(s) /\ i \in 1..Len(r)
      BY <1>1, <1>3, <2>3
    <3>2. QED
      BY <1>1, <1>4, <1>5, <1>6, <3>1
  <2>4. QED
    BY <2>2, <2>3
<1>8. g = a
  BY <1>1, <1>3, <1>6, <1>7, SeqEqual
<1>9. Total(g) = Total(f) + e
  BY <1>2, <1>8, TotalAppend DEF a
<1>10. QED
  BY <1>9 DEF get_funds, e, f, g, r

LEMMA FundsOne ==
  ASSUME NEW b \in Blocks, NEW o
  PROVE  get_funds(<<b>>, o) = Income(b.txs, o)
<1>1. <<>> \in Seq(Blocks) /\ Append(<<>>, b) = <<b>>
  OBVIOUS
<1>2. get_funds(<<b>>, o) = get_funds(<<>>, o) + Income(b.txs, o)
  BY <1>1, FundsAppend, Zenon
<1>3. b.txs \in Seq(Tx)
  BY DEF Blocks
<1>4. QED
  BY <1>2, <1>3, FundsEmpty, IncomeType

\* Funds depend on the transactions alone.
LEMMA FundsSame ==
  ASSUME NEW s, NEW r, NEW o, DOMAIN s = DOMAIN r,
         \A i \in DOMAIN s : s[i].txs = r[i].txs
  PROVE  get_funds(s, o) = get_funds(r, o)
<1>1. [i \in DOMAIN s |-> Income(s[i].txs, o)] = [i \in DOMAIN r |-> Income(r[i].txs, o)]
  <2>1. \A i \in DOMAIN s : Income(s[i].txs, o) = Income(r[i].txs, o)
    BY Zenon
  <2>2. QED
    BY <2>1
<1>2. QED
  BY <1>1, Zenon DEF get_funds

\* What is left of the transactions without the rewards.
LEMMA BareWhole ==
  ASSUME NEW b \in Blocks, Bare(b)
  PROVE  WithoutRewards(b.txs) = b.txs
<1>1. b.txs \in Seq(Tx)
  BY DEF Blocks
<1>2. DOMAIN b.txs \subseteq {i \in DOMAIN b.txs : ~is_reward(b.txs[i])}
  BY DEF Bare
<1>3. QED
  BY <1>1, <1>2, KeptAll DEF WithoutRewards

LEMMA WithoutRewardsBare ==
  ASSUME NEW txs \in Seq(Tx)
  PROVE  /\ \A i \in DOMAIN WithoutRewards(txs) : ~is_reward(WithoutRewards(txs)[i])
         /\ WithoutRewards(WithoutRewards(txs)) = WithoutRewards(txs)
<1> DEFINE I == {i \in DOMAIN txs : ~is_reward(txs[i])}
    w == WithoutRewards(txs)
<1>1. w = Kept(txs, I) /\ w \in Seq(Tx)
  BY WithoutRewardsType DEF WithoutRewards
<1> HIDE DEF w
<1>2. \A k \in DOMAIN w : \E i \in DOMAIN txs : i \in I /\ i >= k /\ w[k] = txs[i]
  <2> HIDE DEF I
  <2>1. QED
    BY <1>1, KeptFrom
<1>3. \A k \in DOMAIN w : ~is_reward(w[k])
  BY <1>2
<1>4. DOMAIN w \subseteq {i \in DOMAIN w : ~is_reward(w[i])}
  BY <1>3
<1>5. WithoutRewards(w) = w
  BY <1>1, <1>4, KeptAll DEF WithoutRewards
<1>6. QED
  BY <1>3, <1>5 DEF w

LEMMA WithoutRewardsAppend ==
  ASSUME NEW txs \in Seq(Tx), NEW tx \in Tx
  PROVE  WithoutRewards(Append(txs, tx)) =
           IF is_reward(tx) THEN WithoutRewards(txs) ELSE Append(WithoutRewards(txs), tx)
<1> DEFINE r == Append(txs, tx)
    I == {i \in DOMAIN txs : ~is_reward(txs[i])}
    J == {i \in DOMAIN r : ~is_reward(r[i])}
<1>1. /\ DOMAIN txs = 1..Len(txs) /\ DOMAIN r = 1..Len(txs) + 1 /\ Len(txs) \in Nat
      /\ r[Len(txs) + 1] = tx /\ \A i \in 1..Len(txs) : r[i] = txs[i]
  OBVIOUS
<1>2. \A i \in DOMAIN txs : i \in I <=> i \in J
  <2> HIDE DEF r
  <2>1. QED
    BY <1>1
<1>3. Len(txs) + 1 \in J <=> ~is_reward(tx)
  <2> HIDE DEF r
  <2>1. QED
    BY <1>1
<1>4. Kept(r, J) = IF Len(txs) + 1 \in J THEN Append(Kept(txs, I), tx) ELSE Kept(txs, I)
  <2> HIDE DEF I, J
  <2>1. QED
    BY <1>2, KeptAppend
<1>5. WithoutRewards(r) = Kept(r, J) /\ WithoutRewards(txs) = Kept(txs, I)
  BY DEF WithoutRewards
<1>6. QED
  BY <1>3, <1>4, <1>5, Zenon
-----------------------------------------------------------------------------
(***************************************************************************)
(* Sealed blocks.                                                          *)
(***************************************************************************)
\* A sequence and one more element.
LEMMA FrontOfAppend ==
  ASSUME NEW T, NEW f \in Seq(T), NEW b \in T
  PROVE  LET r == Append(f, b)
         IN  /\ r \in Seq(T) /\ r # <<>> /\ Front(r) = f /\ r[Len(r)] = b
             /\ Len(r) = Len(f) + 1 /\ DOMAIN f = 1..Len(f) /\ Len(f) \in Nat
             /\ \A i \in 1..Len(f) : r[i] = f[i]
<1> DEFINE r == Append(f, b)
<1>1. /\ r \in Seq(T) /\ r # <<>> /\ r[Len(r)] = b
      /\ Len(r) = Len(f) + 1 /\ DOMAIN f = 1..Len(f) /\ Len(f) \in Nat
      /\ \A i \in 1..Len(f) : r[i] = f[i]
  OBVIOUS
<1> HIDE DEF r
<1>2. /\ Front(r) \in Seq(T) /\ Len(Front(r)) = Len(f)
      /\ \A i \in 1..Len(f) : Front(r)[i] = f[i]
  BY <1>1, FrontAndTip
<1>3. Front(r) = f
  BY <1>1, <1>2, SeqEqual
<1>4. QED
  BY <1>1, <1>3 DEF r

\* What precedes place i is the same in a longer sequence.
LEMMA PrefixOfAppend ==
  ASSUME NEW T, NEW f \in Seq(T), NEW b \in T, NEW i \in 0..Len(f)
  PROVE  SubSeq(Append(f, b), 1, i) = SubSeq(f, 1, i)
<1> DEFINE r == Append(f, b)
    x == SubSeq(r, 1, i)
    y == SubSeq(f, 1, i)
<1>1. r \in Seq(T) /\ Len(r) = Len(f) + 1 /\ Len(f) \in Nat /\ \A j \in 1..Len(f) : r[j] = f[j]
  OBVIOUS
<1> HIDE DEF r
<1>2. i \in 0..Len(r)
  BY <1>1
<1>3. x \in Seq(T) /\ Len(x) = i /\ \A j \in 1..i : x[j] = r[j]
  BY <1>1, <1>2, Prefix
<1>4. y \in Seq(T) /\ Len(y) = i /\ \A j \in 1..i : y[j] = f[j]
  BY Prefix
<1> HIDE DEF x, y
<1>5. \A j \in 1..Len(x) : x[j] = y[j]
  BY <1>1, <1>3, <1>4
<1>6. x = y
  BY <1>3, <1>4, <1>5, SeqEqual
<1>7. QED
  BY <1>6 DEF x, y, r

LEMMA WholePrefix ==
  ASSUME NEW T, NEW s \in Seq(T)
  PROVE  SubSeq(s, 1, Len(s)) = s
OBVIOUS

\* The ids of the blocks that have one.
LEMMA IdsType ==
  ASSUME NEW s \in Seq(Blocks)
  PROVE  /\ Ids(s) \in Seq(Nat)
         /\ [i \in DOMAIN s |-> s[i].id] \in Seq(Nat)
         /\ Len([i \in DOMAIN s |-> s[i].id]) = Len(s)
<1> DEFINE f == [i \in DOMAIN s |-> s[i].id]
<1>1. f = [i \in DOMAIN s |-> f[i]]
  OBVIOUS
<1>2. \A i \in DOMAIN s : f[i] \in Nat
  <2>1. TAKE i \in DOMAIN s
  <2>2. s[i] \in Blocks
    OBVIOUS
  <2>3. QED
    BY <2>2 DEF Blocks
<1> HIDE DEF f
<1>3. f \in Seq(Nat) /\ Len(f) = Len(s)
  BY <1>1, <1>2, MapType
<1>4. Kept(f, {i \in DOMAIN s : s[i].id # NoBlock}) \in Seq(Nat)
  BY <1>3, KeptType
<1>5. QED
  BY <1>3, <1>4 DEF Ids, f

\* They are ids of s, and all if every block has one.
LEMMA IdsAll ==
  ASSUME NEW s \in Seq(Blocks), \A i \in DOMAIN s : s[i].id # NoBlock
  PROVE  Ids(s) \in Seq(Nat) /\ Len(Ids(s)) = Len(s) /\ \A i \in DOMAIN s : Ids(s)[i] = s[i].id
<1> DEFINE f == [i \in DOMAIN s |-> s[i].id]
    I == {i \in DOMAIN s : s[i].id # NoBlock}
<1>1. f \in Seq(Nat) /\ Len(f) = Len(s) /\ DOMAIN f = DOMAIN s
      /\ \A i \in DOMAIN s : f[i] = s[i].id
  BY IdsType
<1>2. Ids(s) = Kept(f, I)
  BY DEF Ids
<1>3. DOMAIN f \subseteq I
  BY <1>1
<1> HIDE DEF f, I
<1>4. Kept(f, I) = f
  BY <1>1, <1>3, KeptAll
<1>5. QED
  BY <1>1, <1>2, <1>4

LEMMA IdsFrom ==
  ASSUME NEW s \in Seq(Blocks)
  PROVE  \A k \in DOMAIN Ids(s) :
           \E i \in DOMAIN s : s[i].id # NoBlock /\ Ids(s)[k] = s[i].id
<1> DEFINE f == [i \in DOMAIN s |-> s[i].id]
    I == {i \in DOMAIN s : s[i].id # NoBlock}
<1>1. f \in Seq(Nat) /\ Len(f) = Len(s) /\ DOMAIN f = DOMAIN s
      /\ \A i \in DOMAIN s : f[i] = s[i].id
  BY IdsType
<1>2. Ids(s) = Kept(f, I)
  BY DEF Ids
<1> HIDE DEF f
<1>3. \A k \in DOMAIN Kept(f, I) :
        \E i \in DOMAIN f : i \in I /\ i >= k /\ Kept(f, I)[k] = f[i]
  <2> HIDE DEF I
  <2>1. QED
    BY <1>1, KeptFrom
<1>4. QED
  BY <1>1, <1>2, <1>3

LEMMA IdsEmpty == Ids(<<>>) = <<>>
<1>1. <<>> \in Seq(Blocks) /\ DOMAIN <<>> = {}
  OBVIOUS
<1>2. Ids(<<>>) \in Seq(Nat) /\ Len(Ids(<<>>)) = Len(<<>>)
  BY <1>1, IdsAll
<1>3. QED
  BY <1>2

LEMMA IdsSame ==
  ASSUME NEW s, NEW r, DOMAIN s = DOMAIN r, \A i \in DOMAIN s : s[i].id = r[i].id
  PROVE  Ids(s) = Ids(r)
<1>1. [i \in DOMAIN s |-> s[i].id] = [i \in DOMAIN r |-> r[i].id]
  OBVIOUS
<1>2. {i \in DOMAIN s : s[i].id # NoBlock} = {i \in DOMAIN r : r[i].id # NoBlock}
  OBVIOUS
<1>3. QED
  BY <1>1, <1>2, Zenon DEF Ids

LEMMA IdsAppend ==
  ASSUME NEW s \in Seq(Blocks), NEW b \in Blocks
  PROVE  Ids(Append(s, b)) = IF b.id = NoBlock THEN Ids(s) ELSE Append(Ids(s), b.id)
<1> DEFINE r == Append(s, b)
    f == [i \in DOMAIN s |-> s[i].id]
    g == [i \in DOMAIN r |-> r[i].id]
    a == Append(f, b.id)
    I == {i \in DOMAIN s : s[i].id # NoBlock}
    J == {i \in DOMAIN r : r[i].id # NoBlock}
<1>1. /\ r \in Seq(Blocks) /\ Len(r) = Len(s) + 1 /\ Len(s) \in Nat
      /\ DOMAIN s = 1..Len(s) /\ DOMAIN r = 1..Len(s) + 1
      /\ r[Len(s) + 1] = b /\ \A i \in 1..Len(s) : r[i] = s[i]
  OBVIOUS
<1>2. f \in Seq(Nat) /\ Len(f) = Len(s) /\ \A i \in 1..Len(s) : f[i] = s[i].id
  BY <1>1, IdsType
<1>3. g \in Seq(Nat) /\ Len(g) = Len(r) /\ \A i \in 1..Len(r) : g[i] = r[i].id
  <2> HIDE DEF r
  <2>1. QED
    BY <1>1, IdsType
<1>4. b.id \in Nat
  BY DEF Blocks
<1>5. \A i \in DOMAIN s : i \in I <=> i \in J
  <2> HIDE DEF r
  <2>1. QED
    BY <1>1
<1>6. Len(s) + 1 \in J <=> b.id # NoBlock
  <2> HIDE DEF r
  <2>1. QED
    BY <1>1
<1>7. Ids(s) = Kept(f, I) /\ Ids(r) = Kept(g, J)
  BY DEF Ids
<1> HIDE DEF r, f, g
<1>8. a \in Seq(Nat) /\ Len(a) = Len(s) + 1 /\ a[Len(s) + 1] = b.id
      /\ \A i \in 1..Len(s) : a[i] = f[i]
  BY <1>1, <1>2, <1>4
<1> HIDE DEF a
<1>9. \A i \in 1..Len(g) : g[i] = a[i]
  <2>1. TAKE i \in 1..Len(g)
  <2>2. CASE i = Len(s) + 1
    BY <1>1, <1>3, <1>8, <2>2
  <2>3. CASE i # Len(s) + 1
    <3>1. i \in 1..Len(s) /\ i \in 1..Len(r)
      BY <1>1, <1>3, <2>3
    <3>2. QED
      BY <1>1, <1>2, <1>3, <1>8, <3>1
  <2>4. QED
    BY <2>2, <2>3
<1>10. g = a
  BY <1>1, <1>3, <1>8, <1>9, SeqEqual
<1> HIDE DEF I, J
<1>11. \A i \in DOMAIN f : i \in I <=> i \in J
  BY <1>1, <1>2, <1>5
<1>12. Kept(g, J) = IF Len(f) + 1 \in J THEN Append(Kept(f, I), b.id) ELSE Kept(f, I)
  <2>1. Kept(Append(f, b.id), J) =
          IF Len(f) + 1 \in J THEN Append(Kept(f, I), b.id) ELSE Kept(f, I)
    <3> DEFINE N == Nat
        x == b.id
    <3>1. f \in Seq(N) /\ x \in N
      BY <1>2, <1>4
    <3> HIDE DEF N, x
    <3>2. Kept(Append(f, x), J) =
            IF Len(f) + 1 \in J THEN Append(Kept(f, I), x) ELSE Kept(f, I)
      BY <3>1, <1>11, KeptAppend
    <3>3. QED
      BY <3>2 DEF x
  <2>2. QED
    BY <1>10, <2>1 DEF a
<1>13. QED
  BY <1>2, <1>6, <1>7, <1>12 DEF r
\* A block that is sealed has an id, and what is sealed leaves its owner with
\* no more than one reward of debt.
LEMMA ClosedFields ==
  ASSUME NEW back \in Nat, NEW h \in Histories, NEW n, NEW s \in Seq(Blocks),
         Closed(h, n, back, s)
  PROVE  /\ \A i \in DOMAIN s : s[i].valid /\ s[i].id \in DOMAIN h /\ s[i].id # NoBlock
         /\ Valids(s) = s
<1>1. \A i \in DOMAIN s : s[i].valid /\ s[i].id \in DOMAIN h
  BY DEF Closed, Genuine
<1>2. DOMAIN h = 1..Len(h) /\ Len(h) \in Nat
  BY DEF Histories
<1>3. DOMAIN s \subseteq {i \in DOMAIN s : s[i].valid}
  BY <1>1
<1>4. QED
  BY <1>1, <1>2, <1>3, KeptAll DEF NoBlock, Valids

LEMMA ClosedSolvent ==
  ASSUME NEW back \in Nat, NEW h, NEW n, NEW s \in Seq(Blocks), Closed(h, n, back, s)
  PROVE  Solvent(n, back, s)
<1>1. CASE s = <<>>
  BY <1>1, FundsEmpty, RewardAssumption DEF Solvent
<1>2. CASE s # <<>>
  <2>1. Len(s) \in DOMAIN s
    BY <1>2
  <2>2. Solvent(n, back, SubSeq(s, 1, Len(s)))
    BY <2>1 DEF Closed
  <2>3. QED
    BY <2>2, WholePrefix
<1>3. QED
  BY <1>1, <1>2

\* The last block is sealed.
LEMMA CloseByOne ==
  ASSUME NEW back \in Nat, NEW h, NEW n, NEW f \in Seq(Blocks), NEW b \in Blocks,
         Closed(h, n, back, f),
         Ends(f, b), Genuine(h, n, b, f = <<>>), Solvent(n, back, Append(f, b))
  PROVE  Closed(h, n, back, Append(f, b))
<1> DEFINE r == Append(f, b)
<1>1. /\ r \in Seq(Blocks) /\ r[Len(r)] = b /\ Len(r) = Len(f) + 1
      /\ DOMAIN f = 1..Len(f) /\ Len(f) \in Nat
      /\ \A i \in 1..Len(f) : r[i] = f[i]
  BY FrontOfAppend
<1>2. f = <<>> <=> Len(f) = 0
  OBVIOUS
<1>3. \A i \in 1..Len(f) : SubSeq(r, 1, i) = SubSeq(f, 1, i)
  BY <1>1, PrefixOfAppend
<1>4. Solvent(n, back, SubSeq(r, 1, Len(r)))
  <2>1. SubSeq(r, 1, Len(r)) = r
    BY <1>1, WholePrefix
  <2>2. QED
    BY <2>1
<1> HIDE DEF r
<1>5. ASSUME NEW i \in DOMAIN r
      PROVE  Genuine(h, n, r[i], i = 1) /\ Linked(r, i) /\ Solvent(n, back, SubSeq(r, 1, i))
  <2>1. i \in 1..Len(f) + 1
    BY <1>1
  <2>2. CASE i \in 1..Len(f)
    <3>1. Genuine(h, n, f[i], i = 1) /\ Linked(f, i) /\ Solvent(n, back, SubSeq(f, 1, i))
      BY <1>1, <2>2 DEF Closed
    <3>2. Linked(r, i)
      BY <1>1, <2>2, <3>1 DEF Linked
    <3>3. QED
      BY <1>1, <1>3, <2>2, <3>1, <3>2
  <2>3. CASE i = Len(f) + 1
    <3>1. r[i] = b /\ Solvent(n, back, SubSeq(r, 1, i))
      BY <1>1, <1>4, <2>3
    <3>2. (i = 1) <=> (f = <<>>)
      BY <1>1, <1>2, <2>3
    <3>3. Linked(r, i)
      BY <1>1, <1>2, <2>3, <3>1 DEF Linked, Ends
    <3>4. (i = 1) = (f = <<>>)
      BY <3>2
    <3>5. QED
      BY <3>1, <3>3, <3>4
  <2>4. QED
    BY <1>1, <2>1, <2>2, <2>3
<1>6. QED
  BY <1>5 DEF Closed, r

LEMMA ClosedEmpty ==
  ASSUME NEW back \in Nat, NEW h, NEW n
  PROVE  Closed(h, n, back, <<>>)
BY DEF Closed

\* What was hashed stays.
LEMMA SaysStays ==
  ASSUME NEW h \in Histories, NEW k \in Histories, Grown(h, k), NEW b,
         b.id \in 0..Len(h)
  PROVE  Says(k, b) <=> Says(h, b)
<1>1. DOMAIN h = 1..Len(h) /\ DOMAIN k = 1..Len(k) /\ Len(h) \in Nat /\ Len(k) \in Nat
  BY DEF Histories
<1>2. QED
  BY <1>1 DEF Says, Grown

LEMMA GenuineGrows ==
  ASSUME NEW h \in Histories, NEW k \in Histories, Grown(h, k), NEW n, NEW b,
         NEW first, Genuine(h, n, b, first)
  PROVE  Genuine(k, n, b, first)
BY DEF Genuine, Says, Grown

LEMMA ClosedGrows ==
  ASSUME NEW back \in Nat, NEW h \in Histories, NEW k \in Histories, Grown(h, k),
         NEW n, NEW s,
         Closed(h, n, back, s)
  PROVE  Closed(k, n, back, s)
BY GenuineGrows DEF Closed

LEMMA ReadableGrows ==
  ASSUME NEW back \in Nat, NEW h \in Histories, NEW k \in Histories, Grown(h, k), NEW n,
         NEW s \in Seq(Blocks), Home(h, n, s), Readable(h, n, back, s)
  PROVE  Readable(k, n, back, s)
<1>1. \A i \in DOMAIN s : Entry(k, n, s, i)
  <2>1. TAKE i \in DOMAIN s
  <2>2. Entry(h, n, s, i)
    BY DEF Readable
  <2>3. s[i].id \in DOMAIN h => s[i].id \in DOMAIN k /\ k[s[i].id] = h[s[i].id]
    BY DEF Grown
  <2>4. QED
    BY <2>2, <2>3 DEF Entry
<1>2. ASSUME NEW j \in DOMAIN s, \A i \in 1..j : Says(k, s[i]), 1..j \subseteq DOMAIN s
      PROVE  Solvent(n, back, SubSeq(s, 1, j))
  <2>1. ASSUME NEW i \in 1..j
        PROVE  Says(h, s[i])
    <3>1. i \in DOMAIN s /\ Says(k, s[i])
      BY <1>2
    <3>2. s[i].id \in 0..Len(h)
      BY <3>1 DEF Home, Held
    <3>3. QED
      BY <3>1, <3>2, SaysStays
  <2>2. QED
    BY <2>1 DEF Readable
<1>3. \A j \in DOMAIN s : 1..j \subseteq DOMAIN s
  OBVIOUS
<1>4. QED
  BY <1>1, <1>2, <1>3 DEF Readable

\* What is saved of sealed blocks: all of them.
LEMMA DumpClosed ==
  ASSUME NEW back \in Nat, NEW h \in Histories, NEW n, NEW s \in Seq(Blocks),
         Closed(h, n, back, s)
  PROVE  /\ Dump(s) \in Seq(Blocks) /\ Len(Dump(s)) = Len(s)
         /\ \A i \in DOMAIN s :
              /\ Dump(s)[i].depth = s[i].depth /\ Dump(s)[i].prev = s[i].prev
              /\ Dump(s)[i].id = s[i].id /\ Dump(s)[i].valid
              /\ Dump(s)[i].txs = Once(s[i].txs)
         /\ Ids(Dump(s)) = Ids(s)
<1> DEFINE d == Dump(s)
<1>1. d \in Seq(Blocks) /\ Len(d) = Len(s) /\ \A i \in DOMAIN d : d[i] = Dumped(s[i])
  BY ClosedFields, DumpType
<1> HIDE DEF d
<1>2. DOMAIN d = DOMAIN s
  BY <1>1
<1>3. \A i \in DOMAIN s :
        /\ d[i].depth = s[i].depth /\ d[i].prev = s[i].prev
        /\ d[i].id = s[i].id /\ d[i].valid /\ d[i].txs = Once(s[i].txs)
  <2>1. TAKE i \in DOMAIN s
  <2>2. s[i] \in Blocks /\ s[i].valid
    BY ClosedFields
  <2>3. QED
    BY <1>1, <1>2, <2>2, DumpedFields
<1>4. Ids(d) = Ids(s)
  BY <1>2, <1>3, IdsSame
<1>5. QED
  BY <1>1, <1>3, <1>4 DEF d

\* One entry of it.
LEMMA DumpEntry ==
  ASSUME NEW back \in Nat, NEW h \in Histories, NEW n, NEW s \in Seq(Blocks),
         Closed(h, n, back, s),
         Home(h, n, s), NEW r \in Seq(Blocks), NEW i \in DOMAIN s,
         \A j \in 1..i : r[j] = Dump(s)[j]
  PROVE  /\ Entry(h, n, r, i)
         /\ Says(h, r[i]) => r[i].txs = s[i].txs
<1>1. i \in Nat /\ i >= 1 /\ \A j \in 1..i : j \in DOMAIN s
  OBVIOUS
<1>2. \A j \in 1..i : /\ r[j].depth = s[j].depth /\ r[j].prev = s[j].prev
                      /\ r[j].id = s[j].id /\ r[j].valid /\ r[j].txs = Once(s[j].txs)
  BY <1>1, DumpClosed
<1>3. Genuine(h, n, s[i], i = 1) /\ Linked(s, i) /\ Held(h, n, s[i])
  BY DEF Closed, Home
<1>4. Linked(r, i)
  BY <1>1, <1>2, <1>3 DEF Linked
<1>5. /\ r[i].valid /\ r[i].id \in DOMAIN h
      /\ h[r[i].id].header.depth = r[i].depth /\ h[r[i].id].header.prev = r[i].prev
  BY <1>1, <1>2, <1>3 DEF Genuine, Held, Hashed
<1>6. CASE Says(h, s[i])
  <2>1. h[r[i].id].header.txs = s[i].txs
    BY <1>1, <1>2, <1>6 DEF Says, Header
  <2>2. Says(h, r[i]) => h[r[i].id].header.txs = r[i].txs
    BY DEF Says, Header
  <2>3. QED
    BY <1>1, <1>2, <1>4, <1>5, <2>1, <2>2 DEF Entry
<1>7. CASE i = 1 /\ h[s[i].id].by # n /\ s[i].txs = <<>>
  <2>1. r[i].txs = <<>> /\ h[r[i].id].by # n
    BY <1>1, <1>2, <1>7, OnceEmpty
  <2>2. QED
    BY <1>4, <1>5, <1>7, <2>1 DEF Entry
<1>8. QED
  BY <1>3, <1>6, <1>7 DEF Genuine

\* The file can be read, whenever its writing stops.
LEMMA DumpReadable ==
  ASSUME NEW back \in Nat, NEW h \in Histories, NEW n, NEW s \in Seq(Blocks),
         Closed(h, n, back, s),
         Home(h, n, s), NEW k \in 0..Len(s)
  PROVE  /\ Readable(h, n, back, SubSeq(Dump(s), 1, k))
         /\ Readable(h, n, back, Append(SubSeq(Dump(s), 1, k), Torn))
<1> DEFINE d == Dump(s)
    p == SubSeq(d, 1, k)
<1>1. d \in Seq(Blocks) /\ Len(d) = Len(s) /\ Len(s) \in Nat /\ DOMAIN s = 1..Len(s)
  BY DumpClosed
<1>2. p \in Seq(Blocks) /\ Len(p) = k /\ (\A j \in 1..k : p[j] = d[j]) /\ DOMAIN p = 1..k
  <2> HIDE DEF d
  <2>1. p \in Seq(Blocks) /\ Len(p) = k /\ \A j \in 1..k : p[j] = d[j]
    BY <1>1, Prefix
  <2> HIDE DEF p
  <2>2. QED
    BY <1>1, <2>1
<1>3. ASSUME NEW r \in Seq(Blocks), Len(r) >= k, \A j \in 1..k : r[j] = d[j],
             NEW j \in 1..k
      PROVE  /\ Entry(h, n, r, j)
             /\ (\A i \in 1..j : Says(h, r[i])) => Solvent(n, back, SubSeq(r, 1, j))
  <2> HIDE DEF p
  <2>1. \A i \in 1..j : i \in DOMAIN s /\ i \in 1..k /\ \A l \in 1..i : l \in 1..k
    BY <1>1
  <2>2. \A i \in 1..j : Entry(h, n, r, i) /\ (Says(h, r[i]) => r[i].txs = s[i].txs)
    BY <1>3, <2>1, DumpEntry
  <2>3. ASSUME \A i \in 1..j : Says(h, r[i])
        PROVE  Solvent(n, back, SubSeq(r, 1, j))
    <3> DEFINE x == SubSeq(r, 1, j)
        y == SubSeq(s, 1, j)
    <3> HIDE DEF d
    <3>1. j \in 0..Len(r) /\ j \in 0..Len(s) /\ j \in DOMAIN s
      BY <1>1, <1>3
    <3>2. x \in Seq(Blocks) /\ Len(x) = j /\ \A i \in 1..j : x[i] = r[i]
      BY <3>1, Prefix
    <3>3. y \in Seq(Blocks) /\ Len(y) = j /\ \A i \in 1..j : y[i] = s[i]
      BY <3>1, Prefix
    <3> HIDE DEF x, y
    <3>4. DOMAIN x = 1..j /\ DOMAIN y = 1..j
      BY <3>2, <3>3
    <3>5. \A i \in DOMAIN x : x[i].txs = y[i].txs
      BY <2>2, <2>3, <3>2, <3>3, <3>4
    <3>6. get_funds(x, n) = get_funds(y, n)
      BY <3>4, <3>5, FundsSame
    <3>7. Solvent(n, back, y)
      BY <3>1 DEF Closed, y
    <3>8. QED
      BY <3>6, <3>7 DEF Solvent, x
  <2>4. j \in 1..j
    BY <1>1
  <2>5. QED
    BY <2>2, <2>3, <2>4
<1> HIDE DEF d, p
<1>4. Readable(h, n, back, p)
  <2>1. \A j \in 1..k : /\ Entry(h, n, p, j)
                        /\ (\A i \in 1..j : Says(h, p[i])) => Solvent(n, back, SubSeq(p, 1, j))
    BY <1>1, <1>2, <1>3
  <2>2. QED
    BY <1>2, <2>1 DEF Readable
<1>5. Readable(h, n, back, Append(p, Torn))
  <2> DEFINE r == Append(p, Torn)
  <2>1. r \in Seq(Blocks) /\ Len(r) = k + 1 /\ r[k + 1] = Torn /\ \A j \in 1..k : r[j] = p[j]
    BY <1>2, TornType, FrontOfAppend
  <2> HIDE DEF r
  <2>2. DOMAIN r = 1..k + 1 /\ k \in Nat
    BY <1>1, <2>1
  <2>3. \A j \in 1..k : /\ Entry(h, n, r, j)
                        /\ (\A i \in 1..j : Says(h, r[i])) => Solvent(n, back, SubSeq(r, 1, j))
    <3>1. r \in Seq(Blocks) /\ Len(r) >= k /\ \A j \in 1..k : r[j] = d[j]
      BY <1>1, <1>2, <2>1, <2>2
    <3>2. QED
      BY <1>3, <3>1
  <2>4. Entry(h, n, r, k + 1) /\ ~Says(h, r[k + 1])
    <3>1. 0 \notin DOMAIN h
      BY DEF Histories
    <3>2. QED
      BY <2>1, <3>1, HeldTorn DEF Entry, Says, NoBlock
  <2>5. \A j \in DOMAIN r : j \in 1..k \/ j = k + 1
    BY <2>2
  <2>6. k + 1 \in 1..k + 1
    BY <2>2
  <2>7. QED
    BY <2>2, <2>3, <2>4, <2>5, <2>6 DEF Readable, r
<1>6. QED
  BY <1>4, <1>5 DEF p, d
-----------------------------------------------------------------------------
(***************************************************************************)
(* Steady is kept: what the steps have in common.                          *)
(***************************************************************************)
LEMMA ChainParts ==
  ASSUME TypeOK, NEW n \in Procs, chain[n] # <<>>
  PROVE  /\ Front(chain[n]) \in Seq(Blocks) /\ Tip(n) \in Blocks
         /\ chain[n] = Append(Front(chain[n]), Tip(n))
         /\ Size(n) = Len(Front(chain[n])) + 1 /\ Size(n) \in Nat
         /\ get_current_block(n) = Tip(n) /\ Tip(n).txs \in Seq(Tx)
<1>1. chain[n] \in Seq(Blocks)
  BY DEF TypeOK
<1>2. /\ Front(chain[n]) \in Seq(Blocks) /\ chain[n][Len(chain[n])] \in Blocks
      /\ chain[n] = Append(Front(chain[n]), chain[n][Len(chain[n])])
      /\ Len(Front(chain[n])) = Len(chain[n]) - 1
  BY <1>1, FrontAndTip
<1>3. Len(chain[n]) \in Nat
  BY <1>1
<1>4. Tip(n).txs \in Seq(Tx)
  BY <1>2 DEF Tip, Size, Blocks
<1>5. QED
  BY <1>2, <1>3, <1>4 DEF Tip, Size, get_current_block

LEMMA UprightGrows ==
  ASSUME NEW back \in Nat, NEW h \in Histories, NEW k \in Histories, Grown(h, k),
         NEW n, NEW f, NEW b,
         NEW p, NEW stored, NEW dumps, Upright(h, n, back, f, b, p, stored, dumps)
  PROVE  Upright(k, n, back, f, b, p, stored, dumps)
BY ClosedGrows, GenuineGrows DEF Upright, Chained

\* What a chain that ends in b has to show.
LEMMA StandsAppend ==
  ASSUME NEW back \in Nat, NEW n, NEW f \in Seq(Blocks), NEW b \in Blocks,
         chain'[n] = Append(f, b),
         Upright(solved', n, back, f, b, pc'[n], file'[n], snap'[n])
  PROVE  Stands(n, back)'
<1>1. chain'[n] # <<>> /\ Front(chain'[n]) = f /\ chain'[n][Len(chain'[n])] = b
  BY FrontOfAppend
<1>2. Tip(n)' = b
  BY <1>1 DEF Tip, Size
<1>3. QED
  BY <1>1, <1>2 DEF Stands

LEMMA ReadableEmpty ==
  ASSUME NEW back \in Nat, NEW h, NEW n
  PROVE  Readable(h, n, back, <<>>)
BY DEF Readable

LEMMA FileStays ==
  ASSUME NEW back \in Nat, TypeOK, Order, Growing, NEW n \in Procs, Steady(n, back),
         file'[n] = file[n]
  PROVE  Readable(solved', n, back, file'[n])
<1>1. solved \in Histories /\ file[n] \in Seq(Blocks)
  BY DEF TypeOK, Histories
<1>2. Home(solved, n, file[n]) /\ Readable(solved, n, back, file[n])
  BY DEF Order, Process, Saved, Steady
<1>3. QED
  BY <1>1, <1>2, ReadableGrows DEF Growing

LEMMA OthersSteady ==
  ASSUME NEW back \in Nat, TypeOK, Order, Growing, NEW n \in Procs, Others(n),
         NEW p \in Procs \ {n},
         Steady(p, back)
  PROVE  Steady(p, back)'
<1>1. /\ chain'[p] = chain[p] /\ file'[p] = file[p] /\ pc'[p] = pc[p] /\ snap'[p] = snap[p]
  BY DEF Others
<1>2. Readable(solved', p, back, file'[p])
  BY <1>1, FileStays
<1>3. solved \in Histories
  BY DEF TypeOK, Histories
<1>4. Boots(p, back)'
  <2>1. Closed(solved, p, back, chain[p]) => Closed(solved', p, back, chain[p])
    BY <1>3, ClosedGrows DEF Growing
  <2>2. QED
    BY <1>1, <2>1 DEF Steady, Boots, At
<1>5. Stands(p, back) => Stands(p, back)'
  <2>1. ASSUME Upright(solved, p, back, Front(chain[p]), Tip(p), pc[p], file[p], snap[p])
        PROVE  Upright(solved', p, back, Front(chain[p]), Tip(p), pc[p], file[p], snap[p])
    BY <1>3, <2>1, UprightGrows DEF Growing
  <2>2. QED
    BY <1>1, <2>1 DEF Stands, At, Tip, Size
<1>6. QED
  BY <1>1, <1>2, <1>4, <1>5 DEF Steady, Serves

\* A process that serves.
LEMMA Running ==
  ASSUME NEW back \in Nat, TypeOK, Order, NEW n \in Procs, Steady(n, back),
         pc[n].net # "idle" \/ pc[n].miner # "idle" \/ pc[n].ui \notin Starting \cup {"down"}
  PROVE  Serves(n) /\ Stands(n, back) /\ pc[n].ui \notin Seals
<1>1. Process(n) /\ pc[n] \in Pcs
  BY DEF Order, TypeOK, Pcs
<1>2. pc[n].ui \in UiPcs \ (Starting \cup {"down"})
  BY <1>1 DEF Process, At, Pcs
<1>3. QED
  BY <1>2 DEF Steady, Serves, Starting, Seals

\* The last block is sealed by whoever is past the test of it.
LEMMA TipCloses ==
  ASSUME NEW back \in Nat, NEW h, NEW n, NEW f \in Seq(Blocks), NEW b \in Blocks,
         Chained(h, n, back, f, b), b.valid
  PROVE  Closed(h, n, back, Append(f, b))
BY CloseByOne DEF Chained

LEMMA SealsChain ==
  ASSUME NEW back \in Nat, TypeOK, Order, NEW n \in Procs, Steady(n, back),
         NEW t \in Threads, pc[n][t] \in Seals
  PROVE  /\ chain[n] # <<>> =>
              Closed(solved, n, back, chain[n]) /\ Tip(n).valid /\ Home(solved, n, chain[n])
         /\ chain[n] = <<>> => t = "miner" /\ pc[n][t] = "seal"
         /\ pc[n][t] = "write" => file[n] = <<>> /\ snap[n][t] = Dump(chain[n])
         /\ pc[n][t] = "push" => Ids(file[n]) = Ids(chain[n])
<1>1. solved \in Histories /\ chain[n] \in Seq(Blocks)
  BY DEF TypeOK, Histories
<1>2. Home(solved, n, chain[n])
  BY DEF Order, Process
<1>3. CASE t = "ui"
  <2>1. chain[n] # <<>> /\ Closed(solved, n, back, chain[n])
    BY <1>3 DEF Steady, Boots
  <2>2. Tip(n).valid
    <3>1. Len(chain[n]) \in DOMAIN chain[n]
      BY <1>1, <2>1
    <3>2. QED
      BY <1>1, <2>1, <3>1, ClosedFields DEF Tip, Size
  <2>3. QED
    BY <1>2, <1>3, <2>1, <2>2 DEF Steady, Boots, At
<1>4. CASE t \in {"net", "miner"}
  <2>1. Stands(n, back)
    BY <1>4, Running DEF Seals
  <2>2. CASE chain[n] = <<>>
    BY <1>4, <2>1, <2>2 DEF Stands, At, Seals
  <2>3. CASE chain[n] # <<>>
    <3> DEFINE f == Front(chain[n])
        b == Tip(n)
    <3>1. f \in Seq(Blocks) /\ b \in Blocks /\ chain[n] = Append(f, b)
      BY <2>3, ChainParts
    <3>2. /\ Chained(solved, n, back, f, b) /\ Pays(n, back, f, b, pc[n].miner) /\ Relays(f, b, pc[n])
          /\ Stored(f, b, pc[n], file[n], snap[n])
      BY <2>1, <2>3 DEF Stands, Upright
    <3>3. b.valid
      BY <1>4, <3>2 DEF Pays, Relays
    <3> HIDE DEF f, b
    <3>4. Closed(solved, n, back, chain[n])
      BY <3>1, <3>2, <3>3, TipCloses
    <3>5. pc[n][t] = "write" => file[n] = <<>> /\ snap[n][t] = Dump(chain[n])
      BY <1>4, <3>1, <3>2 DEF Stored
    <3>6. pc[n][t] = "push" => Ids(file[n]) = Ids(chain[n])
      BY <1>4, <3>1, <3>2 DEF Stored
    <3>7. QED
      BY <1>2, <2>3, <3>3, <3>4, <3>5, <3>6 DEF b
  <2>4. QED
    BY <2>2, <2>3
<1>5. QED
  BY <1>3, <1>4 DEF Threads

\* A process that dies can read what it left.
LEMMA DieSteady ==
  ASSUME NEW back \in Nat, TypeOK, Order, NEW n \in Procs, Steady(n, back), Die(n),
         solved' = solved
  PROVE  Steady(n, back)'
<1>1. pc'[n] = Off /\ file'[n] \in Remains(n)
  BY DieEffect
<1>2. Readable(solved, n, back, file'[n])
  <2>1. CASE file'[n] = file[n]
    BY <2>1 DEF Steady
  <2>2. ASSUME NEW t \in Threads, At(n, t, "write"), NEW k \in 0..Len(snap[n][t]),
               \/ file'[n] = SubSeq(snap[n][t], 1, k)
               \/ file'[n] = Append(SubSeq(snap[n][t], 1, k), Torn)
        PROVE  Readable(solved, n, back, file'[n])
    <3>1. pc[n][t] = "write"
      BY <2>2 DEF At
    <3>2. chain[n] # <<>>
      BY <3>1, SealsChain DEF Seals
    <3>3. /\ Closed(solved, n, back, chain[n]) /\ Home(solved, n, chain[n])
          /\ snap[n][t] = Dump(chain[n])
      BY <3>1, <3>2, SealsChain DEF Seals
    <3>4. solved \in Histories /\ chain[n] \in Seq(Blocks)
      BY DEF TypeOK, Histories
    <3>5. Len(snap[n][t]) = Len(chain[n])
      BY <3>3, <3>4, DumpClosed
    <3>6. k \in 0..Len(chain[n])
      BY <3>5
    <3>7. QED
      BY <2>2, <3>3, <3>4, <3>6, DumpReadable
  <2>3. QED
    BY <1>1, <2>1, <2>2, RemainsForm
<1>3. QED
  BY <1>1, <1>2 DEF Steady, Boots, Serves, Off, Seals, Starting
-----------------------------------------------------------------------------
(***************************************************************************)
(* Steady is kept: the process that takes the step.                        *)
(***************************************************************************)
\* While its threads do not race no thread uses a chain another is sealing.
LEMMA Alone ==
  ASSUME TypeOK, NEW n \in Procs, NEW t \in Threads, Trespass(n, t), ~raced'[n]
  PROVE  /\ \A o \in Threads \ {t} : pc[n][o] \notin {"mined", "seal", "write", "push"}
         /\ t # "net" => pc[n].net = "idle"
         /\ t # "miner" => pc[n].miner \in {"idle", "mining", "stopping", "dangling"}
<1>1. \A o \in Threads \ {t} : ~Sealing(n, o)
  BY TrespassEffect
<1>2. pc[n].net \in NetPcs /\ pc[n].miner \in MinerPcs
  BY DEF TypeOK
<1>3. QED
  BY <1>1, <1>2 DEF Sealing, Threads, NetPcs, MinerPcs

LEMMA CurrentSteady ==
  ASSUME NEW back \in Nat, TypeOK, Order, Growing, NEW n \in Procs, Steady(n, back),
         NEW c \in Blocks,
         SetCurrent(n, c), file'[n] = file[n], snap'[n] = snap[n], Serves(n),
         pc'[n].ui \notin Seals, pc'[n].net = pc[n].net,
         chain[n] = <<>> => pc'[n].miner \notin {"write", "push"},
         chain[n] # <<>> =>
           Upright(solved', n, back, Front(chain[n]), c, pc'[n], file[n], snap[n])
  PROVE  Steady(n, back)'
<1>1. Readable(solved', n, back, file'[n])
  BY FileStays
<1>2. CASE chain[n] = <<>>
  <2>1. chain'[n] = <<>>
    BY <1>2, SetCurrentEffect
  <2>2. QED
    BY <1>1, <1>2, <2>1 DEF Steady, Boots, Stands, At
<1>3. CASE chain[n] # <<>>
  <2>1. chain'[n] = Append(Front(chain[n]), c) /\ Front(chain[n]) \in Seq(Blocks)
    BY <1>3, SetCurrentEffect, ChainParts
  <2>2. Stands(n, back)'
    BY <1>3, <2>1, StandsAppend
  <2>3. QED
    BY <1>1, <2>2 DEF Steady, Boots
<1>4. QED
  BY <1>2, <1>3

\* Only threads move.
LEMMA MoveSteady ==
  ASSUME NEW back \in Nat, TypeOK, Order, solved' = solved, NEW n \in Procs,
         Steady(n, back), Serves(n),
         chain'[n] = chain[n], file'[n] = file[n], snap'[n] = snap[n],
         pc'[n].ui \notin Seals,
         chain[n] = <<>> => pc'[n].net = "idle" /\ pc'[n].miner \notin {"write", "push"},
         chain[n] # <<>> =>
           Upright(solved, n, back, Front(chain[n]), Tip(n), pc'[n], file[n], snap[n])
  PROVE  Steady(n, back)'
<1>1. Readable(solved', n, back, file'[n])
  BY DEF Steady
<1>2. Stands(n, back)'
  BY DEF Steady, Stands, At, Tip, Size
<1>3. QED
  BY <1>1, <1>2 DEF Steady, Boots

LEMMA StartSteady ==
  ASSUME NEW back \in Nat, TypeOK, Order, NEW n \in Procs, Steady(n, back), Start(n)
  PROVE  Steady(n, back)'
<1>1. pc'[n].ui = "boot"
  BY GoEffect DEF Start, Threads, UiPcs, Starting
<1>2. file' = file /\ solved' = solved
  BY DEF Start
<1>3. QED
  BY <1>1, <1>2 DEF Steady, Boots, Serves, Starting, Seals

\* A file that is loaded is a chain of sealed blocks.
LEMMA LoadedClosed ==
  ASSUME NEW back \in Nat, NEW h \in Histories, NEW n, NEW s \in Seq(Blocks),
         Readable(h, n, back, s),
         \A i \in DOMAIN s : Says(h, s[i]) /\ s[i].valid
  PROVE  Closed(h, n, back, s)
<1>1. ASSUME NEW i \in DOMAIN s
      PROVE  Genuine(h, n, s[i], i = 1) /\ Linked(s, i) /\ Solvent(n, back, SubSeq(s, 1, i))
  <2>1. s[i].valid /\ Says(h, s[i])
    OBVIOUS
  <2>2. Genuine(h, n, s[i], i = 1)
    BY <2>1 DEF Genuine, Says
  <2>3. s[i] # Torn
    BY <2>1, HeldTorn
  <2>4. Linked(s, i)
    BY <2>3 DEF Readable, Entry
  <2>5. \A j \in 1..i : Says(h, s[j])
    <3>1. \A j \in 1..i : j \in DOMAIN s
      OBVIOUS
    <3>2. QED
      BY <3>1
  <2>6. Solvent(n, back, SubSeq(s, 1, i))
    BY <2>5 DEF Readable
  <2>7. QED
    BY <2>2, <2>4, <2>6
<1>2. QED
  BY <1>1 DEF Closed

\* A block of no transactions that was just mined.
LEMMA GenesisCloses ==
  ASSUME NEW back \in Nat, NEW h \in Histories, NEW n, NEW b \in Blocks, b.valid,
         Says(h, b),
         Income(b.txs, n) >= - Reward - back
  PROVE  Closed(h, n, back, <<b>>) /\ Genuine(h, n, b, TRUE) /\ Solvent(n, back, <<b>>)
<1>1. <<>> \in Seq(Blocks) /\ Append(<<>>, b) = <<b>>
  OBVIOUS
<1>2. get_funds(<<b>>, n) = Income(b.txs, n)
  BY FundsOne
<1>3. Genuine(h, n, b, TRUE) /\ Solvent(n, back, <<b>>)
  BY <1>2 DEF Genuine, Says, Solvent
<1>4. Closed(h, n, back, <<>>) /\ Ends(<<>>, b)
  BY ClosedEmpty DEF Ends
<1>5. Closed(h, n, back, Append(<<>>, b))
  <2>1. (<<>> = <<>>) = TRUE
    OBVIOUS
  <2>2. Genuine(h, n, b, <<>> = <<>>) /\ Solvent(n, back, Append(<<>>, b))
    BY <1>1, <1>3, <2>1
  <2>3. QED
    BY <1>1, <1>4, <2>2, CloseByOne
<1>6. QED
  BY <1>1, <1>3, <1>5

LEMMA LoadChainSteady ==
  ASSUME NEW back \in Nat, TypeOK, Order, NEW n \in Procs, Steady(n, back), LoadChain(n)
  PROVE  Steady(n, back)'
<1>1. Process(n) /\ solved \in Histories /\ At(n, "ui", "boot") /\ file[n] \in Seq(Blocks)
      /\ Readable(solved, n, back, file[n])
  BY DEF Order, TypeOK, Histories, LoadChain, Steady
<1>2. Go(n, "ui", "seal") => pc'[n].ui = "seal"
  BY GoEffect DEF Threads, UiPcs, Starting
<1>3. CASE /\ file[n] # <<>>
           /\ \A i \in DOMAIN file[n] : Validates(file[n][i])
           /\ chain' = [chain EXCEPT ![n] = [i \in DOMAIN file[n] |->
                                            [file[n][i] EXCEPT !.valid = TRUE]]]
           /\ Go(n, "ui", "seal")
           /\ UNCHANGED <<nothing, file, snap, net, solved>>
  <2> DEFINE f == file[n]
  <2>1. f \in Seq(Blocks) /\ Saved(solved, n, f)
    BY <1>1 DEF Process
  <2>2. chain'[n] = [i \in DOMAIN f |-> [f[i] EXCEPT !.valid = TRUE]]
    BY <1>3 DEF TypeOK
  <2>3. \A i \in DOMAIN f : f[i].valid /\ f[i] \in Blocks /\ Says(solved, f[i])
    <3>1. TAKE i \in DOMAIN f
    <3>2. f[i].id \in DOMAIN solved /\ Says(solved, f[i])
      BY <1>3 DEF Validates, Says
    <3>3. f[i].id # 0
      BY <1>1, <3>2 DEF Histories
    <3>4. f[i] # Torn
      BY <1>1, <3>3, HeldTorn DEF NoBlock
    <3>5. QED
      BY <2>1, <3>2, <3>4 DEF Saved
  <2> HIDE DEF f
  <2>4. \A i \in DOMAIN f : [f[i] EXCEPT !.valid = TRUE] = f[i]
    BY <2>3 DEF Blocks
  <2>5. chain'[n] = f
    <3>1. chain'[n] = [i \in DOMAIN f |-> f[i]]
      BY <2>2, <2>4
    <3>2. QED
      BY <2>1, <3>1
  <2>6. Closed(solved, n, back, f)
    BY <1>1, <2>1, <2>3, LoadedClosed DEF f
  <2>7. QED
    BY <1>1, <1>2, <1>3, <2>5, <2>6 DEF Steady, Boots, Serves, At, Starting, f
<1>4. CASE Die(n) /\ UNCHANGED solved
  BY <1>4, DieSteady
<1>5. CASE /\ file[n] = <<>>
           /\ Mine(n, PendingBlock(0, NoBlock))
           /\ chain' = [chain EXCEPT ![n] = <<Solved(PendingBlock(0, NoBlock))>>]
           /\ Go(n, "ui", "seal")
           /\ UNCHANGED <<nothing, file, snap, net>>
  <2> DEFINE g == PendingBlock(0, NoBlock)
      c == Solved(g)
  <2>1. g \in Blocks /\ Follows(solved, n, g)
    BY <1>1, PendingType, HeldPending DEF NoBlock, Held
  <2>2. g.txs = <<>>
    BY DEF PendingBlock
  <2>3. c.valid /\ c.txs = g.txs /\ c.depth = g.depth /\ c.prev = g.prev
    BY <2>1 DEF Solved, Blocks
  <2>4. chain'[n] = <<c>>
    BY <1>5 DEF TypeOK
  <2> HIDE DEF g
  <2>5. /\ Growing /\ c \in Blocks /\ Held(solved', n, c)
        /\ solved'[c.id].header = Header(g)
    BY <1>5, <2>1, SolvedOrder DEF g
  <2>6. Says(solved', c)
    BY <2>3, <2>5 DEF Says, Header, Held, Hashed
  <2> HIDE DEF c
  <2>7. Income(c.txs, n) >= - Reward - back
    BY <2>2, <2>3, IncomeEmpty, RewardAssumption
  <2>8. Closed(solved', n, back, chain'[n])
    BY <2>3, <2>4, <2>5, <2>6, <2>7, GenesisCloses DEF Growing
  <2>9. file'[n] = <<>> /\ Len(chain'[n]) = 1 /\ chain'[n] # <<>>
    BY <1>5, <2>4
  <2>10. QED
    BY <1>2, <1>5, <2>8, <2>9, ReadableEmpty DEF Steady, Boots, Serves, At, Starting
<1>6. QED
  BY <1>3, <1>4, <1>5 DEF LoadChain
\* Whoever seals a chain that has blocks finds the last one valid.
LEMMA NoFailure ==
  ASSUME NEW back \in Nat, TypeOK, Order, NEW n \in Procs, Steady(n, back),
         NEW t \in Threads, pc[n][t] \in Seals
  PROVE  ~(chain[n] # <<>> /\ ~Tip(n).valid)
BY SealsChain

LEMMA TruncateSteady ==
  ASSUME NEW back \in Nat, TypeOK, Order, NEW n \in Procs, Steady(n, back),
         NEW t \in Threads, Truncate(n, t),
         ~raced'[n]
  PROVE  Steady(n, back)'
<1>1. pc[n][t] = "seal" /\ solved' = solved /\ Trespass(n, t)
  BY DEF Truncate, At
<1>2. ~(chain[n] # <<>> /\ ~Tip(n).valid)
  BY <1>1, NoFailure DEF Seals
<1>3. CASE Die(n)
  BY <1>1, <1>3, DieSteady
<1>4. CASE /\ chain[n] # <<>>
           /\ file' = [file EXCEPT ![n] = <<>>]
           /\ snap' = [snap EXCEPT ![n][t] = Dump(chain[n])]
           /\ Go(n, t, "write")
           /\ UNCHANGED <<chain, nothing, net>>
  <2>1. pc'[n][t] = "write" /\ \A o \in Threads \ {t} : pc'[n][o] = pc[n][o]
    BY <1>4, GoEffect DEF UiPcs, Starting, NetPcs, MinerPcs
  <2>2. file'[n] = <<>> /\ snap'[n][t] = Dump(chain[n]) /\ chain'[n] = chain[n]
    BY <1>4 DEF TypeOK
  <2>3. Readable(solved', n, back, file'[n])
    BY <2>2, ReadableEmpty
  <2>4. Closed(solved, n, back, chain[n]) /\ Tip(n).valid
    BY <1>1, <1>4, SealsChain DEF Seals
  <2>5. CASE t = "ui"
    <3>1. pc'[n].ui = "write"
      BY <2>1, <2>5
    <3>2. Boots(n, back)'
      BY <1>1, <1>4, <2>2, <2>4, <2>5, <3>1 DEF Boots, At
    <3>3. QED
      BY <2>3, <3>1, <3>2 DEF Steady, Serves, Starting
  <2>6. CASE t \in {"net", "miner"}
    <3> DEFINE f == Front(chain[n])
        b == Tip(n)
    <3>1. Serves(n) /\ Stands(n, back) /\ pc[n].ui \notin Seals
      BY <1>1, <2>6, Running
    <3>2. Upright(solved, n, back, f, b, pc[n], file[n], snap[n]) /\ b.valid
      BY <1>4, <2>4, <3>1 DEF Stands
    <3>3. f \in Seq(Blocks) /\ b \in Blocks /\ chain[n] = Append(f, b)
      BY <1>4, ChainParts
    <3>4. pc'[n].ui = pc[n].ui
      BY <2>1, <2>6 DEF Threads
    <3>5. \A o \in Threads \ {t} : pc[n][o] \notin {"mined", "seal", "write", "push"}
      BY <1>1, Alone
    <3> HIDE DEF f, b
    <3>6. Chained(solved, n, back, f, b)
      BY <3>2 DEF Upright
    <3>7. Pays(n, back, f, b, pc'[n].miner)
      BY <1>1, <2>1, <2>6, <3>2 DEF Upright, Pays, Threads, Mined, Seals
    <3>8. Relays(f, b, pc'[n])
      BY <1>1, <2>1, <2>6, <3>2, <3>4, <3>5 DEF Upright, Relays, Threads, Seals
    <3>9. Stored(f, b, pc'[n], file'[n], snap'[n])
      BY <1>1, <2>1, <2>2, <2>6, <3>3, <3>5 DEF Stored, Threads
    <3>10. Stands(n, back)'
      BY <1>1, <2>2, <3>3, <3>6, <3>7, <3>8, <3>9, StandsAppend DEF Upright
    <3>11. QED
      BY <2>3, <3>1, <3>4, <3>10 DEF Steady, Boots
  <2>7. QED
    BY <2>5, <2>6 DEF Threads
<1>5. QED
  BY <1>2, <1>3, <1>4 DEF Truncate

LEMMA WriteFileSteady ==
  ASSUME NEW back \in Nat, TypeOK, Order, NEW n \in Procs, Steady(n, back),
         NEW t \in Threads, WriteFile(n, t),
         ~raced'[n]
  PROVE  Steady(n, back)'
<1>1. pc[n][t] = "write" /\ solved' = solved /\ Trespass(n, t)
  BY DEF WriteFile, At
<1>2. pc'[n][t] = "push" /\ \A o \in Threads \ {t} : pc'[n][o] = pc[n][o]
  BY GoEffect DEF WriteFile, UiPcs, Starting, NetPcs, MinerPcs
<1>3. chain[n] # <<>>
  BY <1>1, SealsChain DEF Seals
<1>4. /\ Closed(solved, n, back, chain[n]) /\ Home(solved, n, chain[n])
      /\ snap[n][t] = Dump(chain[n]) /\ Tip(n).valid
  BY <1>1, <1>3, SealsChain DEF Seals
<1>5. file'[n] = Dump(chain[n]) /\ chain'[n] = chain[n]
  BY <1>4 DEF WriteFile, TypeOK
<1>6. solved \in Histories /\ chain[n] \in Seq(Blocks)
  BY DEF TypeOK, Histories
<1>7. Ids(file'[n]) = Ids(chain[n])
  BY <1>4, <1>5, <1>6, DumpClosed
<1>8. Readable(solved', n, back, file'[n])
  <2> DEFINE d == Dump(chain[n])
  <2>1. d \in Seq(Blocks) /\ Len(d) = Len(chain[n])
    BY <1>4, <1>6, DumpClosed
  <2>2. Len(chain[n]) \in 0..Len(chain[n])
    BY <1>6
  <2>3. SubSeq(d, 1, Len(d)) = d
    <3> HIDE DEF d
    <3>1. QED
      BY <2>1, WholePrefix
  <2>4. Readable(solved, n, back, SubSeq(d, 1, Len(chain[n])))
    BY <1>4, <1>6, <2>2, DumpReadable
  <2> HIDE DEF d
  <2>5. QED
    BY <1>1, <1>5, <2>1, <2>3, <2>4 DEF d
<1>9. CASE t = "ui"
  <2>1. pc'[n].ui = "push"
    BY <1>2, <1>9
  <2>2. Boots(n, back)'
    BY <1>1, <1>3, <1>4, <1>5, <1>7, <1>9, <2>1 DEF Boots, At
  <2>3. QED
    BY <1>8, <2>1, <2>2 DEF Steady, Serves, Starting
<1>10. CASE t \in {"net", "miner"}
  <2> DEFINE f == Front(chain[n])
      b == Tip(n)
  <2>1. Serves(n) /\ Stands(n, back) /\ pc[n].ui \notin Seals
    BY <1>1, <1>10, Running
  <2>2. Upright(solved, n, back, f, b, pc[n], file[n], snap[n]) /\ b.valid
    BY <1>3, <1>4, <2>1 DEF Stands
  <2>3. f \in Seq(Blocks) /\ b \in Blocks /\ chain[n] = Append(f, b)
    BY <1>3, ChainParts
  <2>4. pc'[n].ui = pc[n].ui
    BY <1>2, <1>10 DEF Threads
  <2>5. \A o \in Threads \ {t} : pc[n][o] \notin {"mined", "seal", "write", "push"}
    BY <1>1, Alone
  <2> HIDE DEF f, b
  <2>6. Chained(solved, n, back, f, b)
    BY <2>2 DEF Upright
  <2>7. Pays(n, back, f, b, pc'[n].miner)
    BY <1>1, <1>2, <1>10, <2>2 DEF Upright, Pays, Threads, Mined, Seals
  <2>8. Relays(f, b, pc'[n])
    BY <1>1, <1>2, <1>10, <2>2, <2>4, <2>5 DEF Upright, Relays, Threads, Seals
  <2>9. Stored(f, b, pc'[n], file'[n], snap'[n])
    BY <1>1, <1>2, <1>7, <1>10, <2>3, <2>5 DEF Stored, Threads
  <2>10. Stands(n, back)'
    BY <1>1, <1>5, <2>3, <2>6, <2>7, <2>8, <2>9, StandsAppend DEF Upright
  <2>11. QED
    BY <1>8, <2>1, <2>4, <2>10 DEF Steady, Boots
<1>11. QED
  BY <1>9, <1>10 DEF Threads

\* The next pending block, after a chain that is sealed and saved.
LEMMA PendingUpright ==
  ASSUME NEW back \in Nat, NEW h, NEW n, NEW s \in Seq(Blocks), s # <<>>,
         Closed(h, n, back, s), NEW p,
         p.net = "idle", p.miner \in {"idle", "dangling"}, NEW stored, NEW dumps,
         Ids(stored) = Ids(s)
  PROVE  Upright(h, n, back, s, PendingBlock(Len(s), s[Len(s)].id), p, stored, dumps)
<1> DEFINE b == PendingBlock(Len(s), s[Len(s)].id)
<1>1. ~b.valid /\ b.txs = <<>> /\ b.depth = Len(s) /\ b.prev = s[Len(s)].id
  BY DEF PendingBlock
<1> HIDE DEF b
<1>2. Chained(h, n, back, s, b)
  BY <1>1 DEF Chained, Ends
<1>3. Income(WithoutRewards(b.txs), n) = 0
  BY <1>1, WithoutRewardsEmpty, IncomeEmpty
<1>4. get_funds(s, n) >= - Reward - back /\ get_funds(s, n) \in Int
  BY ClosedSolvent, FundsType DEF Solvent
<1>5. Bare(b)
  BY <1>1 DEF Bare
<1>6. get_funds(s, n) + Income(WithoutRewards(b.txs), n) >= - Reward - back
  BY <1>3, <1>4
<1>7. Pays(n, back, s, b, p.miner)
  BY <1>1, <1>5, <1>6 DEF Pays, Mined, Seals
<1>8. Relays(s, b, p) /\ Stored(s, b, p, stored, dumps)
  BY DEF Relays, Stored, Seals
<1>9. QED
  BY <1>2, <1>7, <1>8 DEF Upright, b

LEMMA PushNextSteady ==
  ASSUME NEW back \in Nat, TypeOK, Order, NEW n \in Procs, Steady(n, back),
         NEW t \in Threads, PushNext(n, t),
         ~raced'[n]
  PROVE  Steady(n, back)'
<1>1. pc[n][t] = "push" /\ solved' = solved /\ Trespass(n, t)
  BY DEF PushNext, At
<1>2. chain[n] # <<>>
  BY <1>1, SealsChain DEF Seals
<1>3. Closed(solved, n, back, chain[n]) /\ Tip(n).valid /\ Ids(file[n]) = Ids(chain[n])
  BY <1>1, <1>2, SealsChain DEF Seals
<1>4. /\ chain' = [chain EXCEPT ![n] = Append(@, PendingBlock(Size(n), Tip(n).id))]
      /\ Go(n, t, After(t))
      /\ UNCHANGED <<nothing, file, snap, net>>
  BY <1>2, <1>3 DEF PushNext
<1>5. pc'[n][t] = After(t) /\ \A o \in Threads \ {t} : pc'[n][o] = pc[n][o]
  BY <1>4, GoEffect DEF UiPcs, Starting, NetPcs, MinerPcs, After
<1>6. Process(n) /\ chain[n] \in Seq(Blocks) /\ pc[n] \in Pcs
  BY DEF Order, TypeOK, Pcs
<1>7. pc'[n].net = "idle" /\ pc'[n].miner \in {"idle", "dangling"}
      /\ pc'[n].ui \notin Seals
  <2>1. CASE t = "ui"
    <3>1. pc[n].net = "idle" /\ pc[n].miner = "idle"
      BY <1>1, <1>6, <2>1 DEF Process, At, Starting
    <3>2. QED
      BY <1>5, <2>1, <3>1 DEF After, Threads, Seals
  <2>2. CASE t = "net"
    <3>1. Stands(n, back) /\ pc[n].ui \notin Seals
      BY <1>1, <2>2, Running
    <3>2. Relays(Front(chain[n]), Tip(n), pc[n])
      BY <1>2, <3>1 DEF Stands, Upright
    <3>3. pc[n].miner \in {"idle", "dangling", "mined", "seal"}
      BY <1>1, <2>2, <3>2 DEF Relays, Seals
    <3>4. pc[n].miner \in {"idle", "mining", "stopping", "dangling"}
      BY <1>1, <2>2, Alone
    <3>5. QED
      BY <1>5, <2>2, <3>1, <3>3, <3>4 DEF After, Threads
  <2>3. CASE t = "miner"
    <3>1. pc[n].ui \notin Seals
      BY <1>1, <2>3, Running
    <3>2. pc[n].net = "idle"
      BY <1>1, <2>3, Alone
    <3>3. QED
      BY <1>5, <2>3, <3>1, <3>2 DEF After, Threads
  <2>4. QED
    BY <2>1, <2>2, <2>3 DEF Threads
<1>8. file'[n] = file[n] /\ snap'[n] = snap[n]
  BY <1>4
<1>9. chain'[n] = Append(chain[n], PendingBlock(Len(chain[n]), chain[n][Len(chain[n])].id))
  BY <1>4 DEF TypeOK, Size, Tip
<1>10. Upright(solved, n, back, chain[n], PendingBlock(Len(chain[n]), chain[n][Len(chain[n])].id),
               pc'[n], file'[n], snap'[n])
  BY <1>2, <1>3, <1>6, <1>7, <1>8, PendingUpright
<1>11. PendingBlock(Len(chain[n]), chain[n][Len(chain[n])].id) \in Blocks
  BY <1>2, <1>3, <1>6, NextBlockHeld DEF Size, Tip
<1>12. Stands(n, back)'
  BY <1>1, <1>6, <1>9, <1>10, <1>11, StandsAppend
<1>13. Readable(solved', n, back, file'[n])
  BY <1>1, <1>8 DEF Steady
<1>14. QED
  BY <1>7, <1>12, <1>13 DEF Steady, Boots
\* A reward is an income of its owner, and is not among what is left without it.
LEMMA RewardEffect ==
  ASSUME TypeOK, NEW n \in Procs
  PROVE  reward(n) \in Tx /\ is_reward(reward(n)) /\ Effect(reward(n), n) = Reward
<1>1. reward(n).from # n /\ reward(n).to = n /\ reward(n).amount = Reward
      /\ reward(n).from = Mint
  BY MintAssumption DEF reward
<1>2. QED
  BY <1>1, RewardType DEF Effect, is_reward

LEMMA StartMiningSteady ==
  ASSUME NEW back \in Nat, TypeOK, Order, NEW n \in Procs, Steady(n, back),
         StartMining(n), ~raced'[n]
  PROVE  Steady(n, back)'
<1> DEFINE b == get_current_block(n)
    c == [b EXCEPT !.txs = Append(@, reward(n)), !.valid = FALSE]
<1>1. pc[n].ui = "free" /\ pc[n].miner = "idle" /\ solved' = solved /\ Trespass(n, "ui")
      /\ SetCurrent(n, c) /\ file'[n] = file[n] /\ snap'[n] = snap[n]
  BY DEF StartMining, At
<1>2. pc'[n].miner = "mining" /\ pc'[n].ui = "free" /\ pc'[n].net = "idle" /\ pc[n].net = "idle"
  <2>1. pc[n].net = "idle"
    BY <1>1, Alone DEF Threads
  <2>2. QED
    BY <1>1, <2>1, GoEffect DEF StartMining, Threads, MinerPcs
<1>3. Serves(n) /\ Stands(n, back)
  BY <1>1, Running DEF Starting
<1>4. b \in Blocks /\ b.txs \in Seq(Tx)
  BY CurrentType DEF Blocks
<1>5. /\ c \in Blocks /\ ~c.valid /\ c.depth = b.depth /\ c.prev = b.prev
      /\ c.txs = Append(b.txs, reward(n))
  <2>1. Append(b.txs, reward(n)) \in Seq(Tx)
    BY <1>4, RewardType
  <2>2. QED
    BY <1>4, <2>1 DEF Blocks
<1> HIDE DEF c
<1>6. ASSUME chain[n] # <<>>
      PROVE  Upright(solved', n, back, Front(chain[n]), c, pc'[n], file[n], snap[n])
  <2> DEFINE f == Front(chain[n])
  <2>1. f \in Seq(Blocks) /\ b = Tip(n)
    BY <1>6, ChainParts
  <2>2. Upright(solved, n, back, f, b, pc[n], file[n], snap[n])
    BY <1>3, <1>6, <2>1 DEF Stands
  <2> HIDE DEF f, b
  <2>3. Chained(solved', n, back, f, c)
    BY <1>1, <1>5, <2>2 DEF Upright, Chained, Ends
  <2>4. Bare(b) /\ WithoutRewards(b.txs) = b.txs
    BY <1>1, <1>4, <2>2, BareWhole DEF Upright, Pays
  <2>5. WithoutRewards(c.txs) = b.txs
    BY <1>4, <1>5, <2>4, RewardEffect, WithoutRewardsAppend
  <2>6. Income(c.txs, n) = Income(b.txs, n) + Reward
    BY <1>4, <1>5, RewardEffect, IncomeAppend
  <2>7. get_funds(f, n) + Income(b.txs, n) >= - Reward - back
    <3>1. CASE b.valid
      BY <1>4, <2>1, <2>2, <3>1, FundsAppend DEF Upright, Chained, Solvent
    <3>2. CASE ~b.valid
      BY <2>2, <2>4, <3>2 DEF Upright, Pays
    <3>3. QED
      BY <3>1, <3>2
  <2>8. Pays(n, back, f, c, pc'[n].miner)
    BY <1>2, <1>5, <2>5, <2>6, <2>7 DEF Pays, Mined, Seals
  <2>9. Relays(f, c, pc'[n])
    BY <1>2 DEF Relays, Seals
  <2>10. Stored(f, c, pc'[n], file[n], snap[n])
    BY <1>1, <1>2, <2>2 DEF Upright, Stored
  <2>11. QED
    BY <2>3, <2>8, <2>9, <2>10 DEF Upright, f
<1>7. Growing
  BY <1>1, Unsolved
<1>8. QED
  BY <1>1, <1>2, <1>3, <1>5, <1>6, <1>7, CurrentSteady DEF Seals

LEMMA InterruptSteady ==
  ASSUME NEW back \in Nat, TypeOK, Order, NEW n \in Procs, Steady(n, back), Interrupt(n)
  PROVE  Steady(n, back)'
<1>1. /\ pc[n].ui = "free" /\ pc[n].miner = "mining" /\ solved' = solved
      /\ chain'[n] = chain[n] /\ file'[n] = file[n] /\ snap'[n] = snap[n]
  BY DEF Interrupt, At
<1>2. pc'[n].miner = "stopping" /\ pc'[n].ui = "free" /\ pc'[n].net = pc[n].net
  BY <1>1, GoEffect DEF Interrupt, Threads, MinerPcs
<1>3. Serves(n) /\ Stands(n, back)
  BY <1>1, Running DEF Starting
<1>4. ASSUME chain[n] # <<>>
      PROVE  Upright(solved, n, back, Front(chain[n]), Tip(n), pc'[n], file[n], snap[n])
  <2> DEFINE f == Front(chain[n])
      b == Tip(n)
  <2>1. Upright(solved, n, back, f, b, pc[n], file[n], snap[n])
    BY <1>3, <1>4 DEF Stands
  <2> HIDE DEF f, b
  <2>2. Pays(n, back, f, b, pc'[n].miner)
    BY <1>1, <1>2, <2>1 DEF Upright, Pays, Mined, Seals
  <2>3. Relays(f, b, pc'[n])
    BY <1>1, <1>2, <2>1 DEF Upright, Relays, Seals
  <2>4. Stored(f, b, pc'[n], file[n], snap[n])
    BY <1>1, <1>2, <2>1 DEF Upright, Stored
  <2>5. QED
    BY <2>1, <2>2, <2>3, <2>4 DEF Upright, f, b
<1>5. chain[n] = <<>> => pc'[n].net = "idle"
  BY <1>2, <1>3 DEF Stands, At
<1>6. QED
  BY <1>1, <1>2, <1>3, <1>4, <1>5, MoveSteady DEF Seals

LEMMA CleanBlockSteady ==
  ASSUME NEW back \in Nat, TypeOK, Order, NEW n \in Procs, Steady(n, back),
         CleanBlock(n)
  PROVE  Steady(n, back)'
<1> DEFINE b == get_current_block(n)
    c == [b EXCEPT !.txs = WithoutRewards(@)]
<1>1. pc[n].miner = "stopping" /\ solved' = solved
      /\ SetCurrent(n, c) /\ file'[n] = file[n] /\ snap'[n] = snap[n]
  BY DEF CleanBlock, At
<1>2. pc'[n].miner = "mined" /\ pc'[n].ui = pc[n].ui /\ pc'[n].net = pc[n].net
  BY GoEffect DEF CleanBlock, Threads, MinerPcs
<1>3. Serves(n) /\ Stands(n, back) /\ pc[n].ui \notin Seals
  BY <1>1, Running
<1>4. b \in Blocks /\ b.txs \in Seq(Tx)
  BY CurrentType DEF Blocks
<1>5. /\ c \in Blocks /\ c.valid = b.valid /\ c.depth = b.depth /\ c.prev = b.prev
      /\ c.txs = WithoutRewards(b.txs)
  <2>1. WithoutRewards(b.txs) \in Seq(Tx)
    BY <1>4, WithoutRewardsType
  <2>2. QED
    BY <1>4, <2>1 DEF Blocks
<1> HIDE DEF c
<1>6. ASSUME chain[n] # <<>>
      PROVE  Upright(solved', n, back, Front(chain[n]), c, pc'[n], file[n], snap[n])
  <2> DEFINE f == Front(chain[n])
  <2>1. f \in Seq(Blocks) /\ b = Tip(n)
    BY <1>6, ChainParts
  <2>2. Upright(solved, n, back, f, b, pc[n], file[n], snap[n])
    BY <1>3, <1>6, <2>1 DEF Stands
  <2> HIDE DEF f, b
  <2>3. ~b.valid /\ get_funds(f, n) + Income(WithoutRewards(b.txs), n) >= - Reward - back
    BY <1>1, <2>2 DEF Upright, Pays, Mined
  <2>4. Chained(solved', n, back, f, c)
    BY <1>1, <1>5, <2>2, <2>3 DEF Upright, Chained, Ends
  <2>5. Bare(c) /\ WithoutRewards(c.txs) = WithoutRewards(b.txs)
    BY <1>4, <1>5, WithoutRewardsBare DEF Bare
  <2>6. Pays(n, back, f, c, pc'[n].miner)
    BY <1>2, <1>5, <2>3, <2>5 DEF Pays, Mined, Seals
  <2>7. Relays(f, c, pc'[n])
    BY <1>1, <1>2, <2>2 DEF Upright, Relays, Seals
  <2>8. Stored(f, c, pc'[n], file[n], snap[n])
    <3>1. pc[n].net \notin {"write", "push"}
      BY <1>1, <2>2 DEF Upright, Relays, Seals
    <3>2. QED
      BY <1>1, <1>2, <2>2, <3>1 DEF Upright, Stored
  <2>9. QED
    BY <2>4, <2>6, <2>7, <2>8 DEF Upright, f
<1>7. Growing
  BY <1>1, Unsolved
<1>8. QED
  BY <1>1, <1>2, <1>3, <1>5, <1>6, <1>7, CurrentSteady

LEMMA SolveSteady ==
  ASSUME NEW back \in Nat, TypeOK, Order, NEW n \in Procs, Steady(n, back), Solve(n)
  PROVE  Steady(n, back)'
<1> DEFINE b == get_current_block(n)
    c == Solved(b)
<1>1. pc[n].miner = "mining" /\ Mine(n, b)
      /\ SetCurrent(n, c) /\ file'[n] = file[n] /\ snap'[n] = snap[n]
  BY DEF Solve, At
<1>2. pc'[n].miner = "mined" /\ pc'[n].ui = pc[n].ui /\ pc'[n].net = pc[n].net
  BY GoEffect DEF Solve, Threads, MinerPcs
<1>3. Serves(n) /\ Stands(n, back) /\ pc[n].ui \notin Seals
  BY <1>1, Running
<1>4. b \in Blocks /\ b.txs \in Seq(Tx) /\ Follows(solved, n, b)
  BY CurrentType, CurrentHeld DEF Blocks, Order, Held
<1>5. c.valid /\ c.depth = b.depth /\ c.prev = b.prev /\ c.txs = b.txs
  BY <1>4 DEF Solved, Blocks
<1> HIDE DEF b
<1>6. /\ Growing /\ c \in Blocks /\ Held(solved', n, c)
      /\ solved'[c.id].header = Header(b)
  BY <1>1, <1>4, SolvedOrder
<1>7. Says(solved', c)
  BY <1>5, <1>6 DEF Says, Header, Held, Hashed
<1> HIDE DEF c
<1>8. ASSUME chain[n] # <<>>
      PROVE  Upright(solved', n, back, Front(chain[n]), c, pc'[n], file[n], snap[n])
  <2> DEFINE f == Front(chain[n])
  <2>1. f \in Seq(Blocks) /\ b = Tip(n)
    BY <1>8, ChainParts DEF b
  <2>2. Upright(solved, n, back, f, b, pc[n], file[n], snap[n])
    BY <1>3, <1>8, <2>1 DEF Stands
  <2> HIDE DEF f
  <2>3. Closed(solved', n, back, f) /\ Ends(f, c)
    <3>1. Closed(solved, n, back, f) /\ Ends(f, b) /\ solved \in Histories
      BY <2>2 DEF Upright, Chained, TypeOK, Histories
    <3>2. Closed(solved', n, back, f)
      BY <1>6, <3>1, ClosedGrows DEF Growing
    <3>3. QED
      BY <1>5, <3>1, <3>2 DEF Ends
  <2>4. Solvent(n, back, Append(f, c))
    <3>1. get_funds(Append(f, c), n) = get_funds(f, n) + Income(c.txs, n)
      BY <1>6, <2>1, FundsAppend
    <3>2. get_funds(f, n) + Income(WithoutRewards(b.txs), n) >= - Reward - back
          /\ Income(b.txs, n) = Income(WithoutRewards(b.txs), n) + Reward
      BY <1>1, <2>2 DEF Upright, Pays, Mined
    <3>3. get_funds(f, n) \in Int /\ Income(WithoutRewards(b.txs), n) \in Int
      BY <1>4, <2>1, FundsType, IncomeType, WithoutRewardsType
    <3>4. QED
      BY <1>5, <3>1, <3>2, <3>3, RewardAssumption DEF Solvent
  <2>5. Chained(solved', n, back, f, c)
    BY <1>5, <1>7, <2>3, <2>4 DEF Chained, Genuine, Says
  <2>6. Pays(n, back, f, c, pc'[n].miner)
    BY <1>2, <1>5 DEF Pays, Mined, Seals
  <2>7. Relays(f, c, pc'[n])
    BY <1>1, <1>2, <2>2 DEF Upright, Relays, Seals
  <2>8. Stored(f, c, pc'[n], file[n], snap[n])
    <3>1. pc[n].net \notin {"write", "push"}
      BY <1>1, <2>2 DEF Upright, Relays, Seals
    <3>2. QED
      BY <1>1, <1>2, <2>2, <3>1 DEF Upright, Stored
  <2>9. QED
    BY <2>5, <2>6, <2>7, <2>8 DEF Upright, f
<1>9. QED
  BY <1>1, <1>2, <1>3, <1>6, <1>8, CurrentSteady

LEMMA DangleSteady ==
  ASSUME NEW back \in Nat, TypeOK, Order, NEW n \in Procs, Steady(n, back), Dangle(n)
  PROVE  Steady(n, back)'
<1>1. pc[n].miner = "dangling" /\ solved' = solved
  BY DEF Dangle, At
<1>2. CASE Die(n)
  BY <1>1, <1>2, DieSteady
<1>3. CASE Go(n, "miner", "mined") /\ UNCHANGED <<chain, nothing, file, snap, net>>
  <2>1. pc'[n].miner = "mined" /\ pc'[n].ui = pc[n].ui /\ pc'[n].net = pc[n].net
    BY <1>3, GoEffect DEF Threads, MinerPcs
  <2>2. Serves(n) /\ Stands(n, back) /\ pc[n].ui \notin Seals
    BY <1>1, Running
  <2>3. ASSUME chain[n] # <<>>
        PROVE  Upright(solved, n, back, Front(chain[n]), Tip(n), pc'[n], file[n], snap[n])
    <3> DEFINE f == Front(chain[n])
        b == Tip(n)
    <3>1. Upright(solved, n, back, f, b, pc[n], file[n], snap[n])
      BY <2>2, <2>3 DEF Stands
    <3> HIDE DEF f, b
    <3>2. Pays(n, back, f, b, pc'[n].miner)
      BY <1>1, <2>1, <3>1 DEF Upright, Pays, Mined, Seals
    <3>3. Relays(f, b, pc'[n])
      BY <1>1, <2>1, <3>1 DEF Upright, Relays, Seals
    <3>4. Stored(f, b, pc'[n], file[n], snap[n])
      BY <1>1, <2>1, <3>1 DEF Upright, Stored
    <3>5. QED
      BY <3>1, <3>2, <3>3, <3>4 DEF Upright, f, b
  <2>4. chain[n] = <<>> => pc'[n].net = "idle"
    BY <2>1, <2>2 DEF Stands, At
  <2>5. chain'[n] = chain[n] /\ file'[n] = file[n] /\ snap'[n] = snap[n]
    BY <1>3
  <2>6. QED
    BY <1>1, <2>1, <2>2, <2>3, <2>4, <2>5, MoveSteady
<1>4. QED
  BY <1>2, <1>3 DEF Dangle

LEMMA PropagateBlockSteady ==
  ASSUME NEW back \in Nat, TypeOK, Order, NEW n \in Procs, Steady(n, back),
         PropagateBlock(n)
  PROVE  Steady(n, back)'
<1>1. /\ pc[n].miner = "mined" /\ solved' = solved
      /\ chain'[n] = chain[n] /\ file'[n] = file[n] /\ snap'[n] = snap[n]
  BY DEF PropagateBlock, At
<1>2. /\ pc'[n].miner = IF get_current_block(n).valid THEN "seal" ELSE "idle"
      /\ pc'[n].ui = pc[n].ui /\ pc'[n].net = pc[n].net
  BY GoEffect DEF PropagateBlock, Threads, MinerPcs, NetPcs
<1>3. Serves(n) /\ Stands(n, back) /\ pc[n].ui \notin Seals
  BY <1>1, Running
<1>4. ASSUME chain[n] # <<>>
      PROVE  Upright(solved, n, back, Front(chain[n]), Tip(n), pc'[n], file[n], snap[n])
  <2> DEFINE f == Front(chain[n])
      b == Tip(n)
  <2>1. Upright(solved, n, back, f, b, pc[n], file[n], snap[n])
    BY <1>3, <1>4 DEF Stands
  <2>2. get_current_block(n) = b
    BY <1>4, ChainParts
  <2> HIDE DEF f, b
  <2>3. Pays(n, back, f, b, pc'[n].miner)
    BY <1>1, <1>2, <2>1, <2>2 DEF Upright, Pays, Mined, Seals
  <2>4. Relays(f, b, pc'[n])
    BY <1>1, <1>2, <2>1, <2>2 DEF Upright, Relays, Seals
  <2>5. Stored(f, b, pc'[n], file[n], snap[n])
    BY <1>1, <1>2, <2>1 DEF Upright, Stored
  <2>6. QED
    BY <2>1, <2>3, <2>4, <2>5 DEF Upright, f, b
<1>5. chain[n] = <<>> => pc'[n].net = "idle" /\ pc'[n].miner \notin {"write", "push"}
  BY <1>2, <1>3 DEF Stands, At
<1>6. QED
  BY <1>1, <1>2, <1>3, <1>4, <1>5, MoveSteady
\* What the owner has without the reward that is being mined for, and with it.
LEMMA Balance ==
  ASSUME NEW back \in Nat, NEW h, NEW n, NEW f \in Seq(Blocks), NEW b \in Blocks,
         NEW p, NEW stored, NEW dumps,
         Upright(h, n, back, f, b, p, stored, dumps),
         p.miner \in {"idle", "mining", "stopping", "dangling"}
  PROVE  LET without == get_funds(f, n) + Income(WithoutRewards(b.txs), n)
         IN  /\ without \in Int /\ without >= - Reward - back
             /\ get_funds(Append(f, b), n) <= without + Reward
             /\ get_funds(Append(f, b), n) > without => p.miner \in Mined
<1> DEFINE w == Income(WithoutRewards(b.txs), n)
    i == Income(b.txs, n)
    g == get_funds(f, n)
<1>1. b.txs \in Seq(Tx)
  BY DEF Blocks
<1>2. w \in Int /\ i \in Int /\ g \in Int /\ Reward \in Nat
  BY <1>1, IncomeType, WithoutRewardsType, FundsType, RewardAssumption
<1>3. get_funds(Append(f, b), n) = g + i
  BY FundsAppend
<1>4. CASE p.miner \in Mined
  <2>1. ~b.valid /\ i = w + Reward
    BY <1>4 DEF Upright, Pays
  <2>2. g + w >= - Reward - back
    BY <2>1 DEF Upright, Pays
  <2> HIDE DEF w, i, g
  <2>3. QED
    BY <1>2, <1>3, <1>4, <2>1, <2>2 DEF w, g
<1>5. CASE p.miner \in {"idle", "dangling"}
  <2>1. Bare(b)
    BY <1>5 DEF Upright, Pays
  <2>2. w = i
    BY <2>1, BareWhole
  <2>3. g + w >= - Reward - back
    <3>1. CASE b.valid
      <4>1. get_funds(Append(f, b), n) >= - Reward - back
        BY <3>1 DEF Upright, Chained, Solvent
      <4>2. QED
        BY <1>3, <2>2, <4>1
    <3>2. CASE ~b.valid
      BY <3>2 DEF Upright, Pays
    <3>3. QED
      BY <3>1, <3>2
  <2> HIDE DEF w, i, g
  <2>4. QED
    BY <1>2, <1>3, <2>2, <2>3 DEF w, g
<1>6. QED
  BY <1>4, <1>5 DEF Mined

LEMMA AddTransactionSteady ==
  ASSUME NEW back \in Nat, TypeOK, Order, solved' = solved, NEW n \in Procs,
         Steady(n, back), NEW tx \in Tx,
         add_transaction(n, tx), ~is_reward(tx), Serves(n),
         file'[n] = file[n], snap'[n] = snap[n], pc[n].net = "idle",
         pc[n].miner \in {"idle", "mining", "stopping", "dangling"},
         chain[n] # <<>> =>
           get_funds(Front(chain[n]), n) + Income(WithoutRewards(Tip(n).txs), n)
             + Effect(tx, n) >= - Reward - back
  PROVE  Steady(n, back)'
<1> DEFINE b == get_current_block(n)
    c == [b EXCEPT !.txs = Append(@, tx), !.valid = FALSE]
<1>1. SetCurrent(n, c)
  BY DEF add_transaction
<1>2. /\ pc'[n].net = "idle"
      /\ pc'[n].miner = IF pc[n].miner = "mining" THEN "stopping" ELSE pc[n].miner
      /\ pc'[n].ui = pc[n].ui \/ pc'[n].ui = "aborted"
  BY InterruptedEffect DEF add_transaction
<1>3. Stands(n, back) /\ pc'[n].ui \notin Seals
  BY <1>2 DEF Steady, Serves, Starting, Seals
<1>4. b \in Blocks /\ b.txs \in Seq(Tx)
  BY CurrentType DEF Blocks
<1>5. /\ c \in Blocks /\ ~c.valid /\ c.depth = b.depth /\ c.prev = b.prev
      /\ c.txs = Append(b.txs, tx)
  <2>1. Append(b.txs, tx) \in Seq(Tx)
    BY <1>4
  <2>2. QED
    BY <1>4, <2>1 DEF Blocks
<1> HIDE DEF c
<1>6. ASSUME chain[n] # <<>>
      PROVE  Upright(solved', n, back, Front(chain[n]), c, pc'[n], file[n], snap[n])
  <2> DEFINE f == Front(chain[n])
      w == WithoutRewards(b.txs)
  <2>1. f \in Seq(Blocks) /\ b = Tip(n)
    BY <1>6, ChainParts
  <2>2. Upright(solved, n, back, f, b, pc[n], file[n], snap[n])
    BY <1>3, <1>6, <2>1 DEF Stands
  <2>3. get_funds(f, n) + Income(w, n) + Effect(tx, n) >= - Reward - back
    BY <1>6, <2>1
  <2> HIDE DEF f, b
  <2>4. Chained(solved', n, back, f, c)
    BY <1>5, <2>2 DEF Upright, Chained, Ends
  <2>5. w \in Seq(Tx) /\ WithoutRewards(c.txs) = Append(w, tx)
    BY <1>4, <1>5, WithoutRewardsType, WithoutRewardsAppend
  <2> HIDE DEF w
  <2>6. /\ Income(c.txs, n) = Income(b.txs, n) + Effect(tx, n)
        /\ Income(WithoutRewards(c.txs), n) = Income(w, n) + Effect(tx, n)
    BY <1>4, <1>5, <2>5, IncomeAppend
  <2>7. /\ Income(b.txs, n) \in Int /\ Income(w, n) \in Int /\ Effect(tx, n) \in Int
        /\ get_funds(f, n) \in Int /\ Reward \in Nat
    BY <1>4, <2>1, <2>5, IncomeType, EffectType, FundsType, RewardAssumption
  <2>8. get_funds(f, n) + Income(WithoutRewards(c.txs), n) >= - Reward - back
    BY <2>3, <2>6, <2>7
  <2>9. pc'[n].miner \in Mined =>
          Income(c.txs, n) = Income(WithoutRewards(c.txs), n) + Reward
    <3>1. SUFFICES ASSUME pc'[n].miner \in Mined
                   PROVE  Income(c.txs, n) = Income(WithoutRewards(c.txs), n) + Reward
      OBVIOUS
    <3>2. pc[n].miner \in Mined
      BY <1>2, <3>1 DEF Mined
    <3>3. Income(b.txs, n) = Income(w, n) + Reward
      BY <2>2, <3>2 DEF Upright, Pays, w
    <3>4. QED
      BY <2>6, <2>7, <3>3
  <2>10. pc'[n].miner \notin Mined => Bare(c)
    <3>1. SUFFICES ASSUME pc'[n].miner \notin Mined PROVE Bare(c)
      OBVIOUS
    <3>2. pc[n].miner \in {"idle", "dangling"}
      BY <1>2, <3>1 DEF Mined
    <3>3. Bare(b)
      BY <2>2, <3>2 DEF Upright, Pays
    <3>4. \A i \in DOMAIN c.txs : (i \in DOMAIN b.txs /\ c.txs[i] = b.txs[i]) \/ c.txs[i] = tx
      BY <1>4, <1>5
    <3>5. QED
      BY <3>3, <3>4 DEF Bare
  <2>11. pc'[n].miner \in {"idle", "stopping", "dangling"}
    BY <1>2
  <2>12. Pays(n, back, f, c, pc'[n].miner)
    BY <1>5, <2>8, <2>9, <2>10, <2>11 DEF Pays, Mined, Seals
  <2>13. Relays(f, c, pc'[n])
    BY <1>2 DEF Relays, Seals
  <2>14. Stored(f, c, pc'[n], file[n], snap[n])
    BY <1>2, <2>2, <2>11 DEF Upright, Stored
  <2>15. QED
    BY <2>4, <2>12, <2>13, <2>14 DEF Upright, f
<1>7. Growing
  BY Unsolved
<1>8. pc'[n].miner \notin {"write", "push"}
  BY <1>2
<1>9. QED
  BY <1>1, <1>2, <1>3, <1>5, <1>6, <1>7, <1>8, CurrentSteady

\* A payment is no more than what Send counts, the reward included.
LEMMA SendSteady ==
  ASSUME NEW back \in Nat, TypeOK, Order, NEW n \in Procs, Steady(n, back),
         NEW p \in Payments, Send(n, p),
         ~raced'[n]
  PROVE  Steady(n, back)'
<1>1. /\ pc[n].ui = "free" /\ solved' = solved /\ p.from = n
      /\ get_funds(chain[n], n) >= p.amount
  BY DEF Send, At
<1>2. CASE Die(n)
  BY <1>1, <1>2, DieSteady
<1>3. CASE /\ ~(p.amount < 0) /\ add_transaction(n, payment(p)) /\ Trespass(n, "ui")
           /\ UNCHANGED <<file, snap>>
  <2> DEFINE tx == payment(p)
  <2>1. pc[n].net = "idle" /\ pc[n].miner \in {"idle", "mining", "stopping", "dangling"}
    BY <1>3, Alone DEF Threads
  <2>2. p.amount \in Int /\ p.amount >= 0
    BY <1>3, PaymentsAssumption
  <2>3. tx \in Tx /\ ~is_reward(tx) /\ Effect(tx, n) = - p.amount
    <3>1. tx.from = n /\ tx.amount = p.amount
      BY <1>1 DEF payment
    <3>2. QED
      BY <3>1, MintAssumption, PaymentType DEF is_reward, Effect
  <2>4. Serves(n) /\ Stands(n, back)
    BY <1>1, Running DEF Starting
  <2>5. ASSUME chain[n] # <<>>
        PROVE  get_funds(Front(chain[n]), n) + Income(WithoutRewards(Tip(n).txs), n)
                 + Effect(tx, n) >= - Reward - back
    <3> DEFINE f == Front(chain[n])
        b == Tip(n)
        without == get_funds(f, n) + Income(WithoutRewards(b.txs), n)
    <3>1. f \in Seq(Blocks) /\ b \in Blocks /\ chain[n] = Append(f, b)
      BY <2>5, ChainParts
    <3>2. Upright(solved, n, back, f, b, pc[n], file[n], snap[n])
      BY <2>4, <2>5 DEF Stands
    <3> HIDE DEF f, b
    <3>3. without \in Int /\ get_funds(Append(f, b), n) <= without + Reward
      BY <2>1, <3>1, <3>2, Balance
    <3>4. get_funds(Append(f, b), n) >= p.amount /\ get_funds(Append(f, b), n) \in Int
      <4>1. chain[n] \in Seq(Blocks)
        BY DEF TypeOK
      <4>2. get_funds(chain[n], n) \in Int
        BY <4>1, FundsType
      <4>3. QED
        BY <1>1, <3>1, <4>2
    <3> HIDE DEF without
    <3>5. without + (- p.amount) >= - Reward - back
      BY <2>2, <3>3, <3>4, RewardAssumption
    <3>6. QED
      BY <2>3, <3>5 DEF without, f, b
  <2> HIDE DEF tx
  <2>6. add_transaction(n, tx) /\ file'[n] = file[n] /\ snap'[n] = snap[n]
    BY <1>3 DEF tx
  <2>7. QED
    BY <1>1, <2>1, <2>3, <2>4, <2>5, <2>6, AddTransactionSteady
<1>4. QED
  BY <1>2, <1>3 DEF Send

\* A debt that may be larger is no harder to keep to.
LEMMA MoreBack ==
  ASSUME TypeOK, NEW back \in Nat, NEW more \in Nat, back <= more,
         NEW n \in Procs, Steady(n, back)
  PROVE  Steady(n, more)
<1>1. /\ Reward \in Nat /\ chain[n] \in Seq(Blocks) /\ file[n] \in Seq(Blocks)
  BY RewardAssumption DEF TypeOK
<1>2. ASSUME NEW s \in Seq(Blocks), Solvent(n, back, s)
      PROVE  Solvent(n, more, s)
  <2>1. get_funds(s, n) \in Int
    BY FundsType
  <2>2. QED
    BY <1>1, <1>2, <2>1 DEF Solvent
<1>3. ASSUME NEW s \in Seq(Blocks), NEW i \in DOMAIN s
      PROVE  SubSeq(s, 1, i) \in Seq(Blocks)
  <2>1. i \in 0..Len(s)
    OBVIOUS
  <2>2. QED
    BY <2>1, Prefix
<1>4. Readable(solved, n, more, file[n])
  BY <1>1, <1>2, <1>3 DEF Steady, Readable
<1>5. ASSUME NEW s \in Seq(Blocks), Closed(solved, n, back, s)
      PROVE  Closed(solved, n, more, s)
  BY <1>2, <1>3, <1>5 DEF Closed
<1>6. Boots(n, more)
  BY <1>1, <1>5 DEF Steady, Boots
<1>7. ASSUME chain[n] # <<>>, NEW p,
             Upright(solved, n, back, Front(chain[n]), Tip(n), p, file[n], snap[n])
      PROVE  Upright(solved, n, more, Front(chain[n]), Tip(n), p, file[n], snap[n])
  <2> DEFINE f == Front(chain[n])
      b == Tip(n)
  <2>1. f \in Seq(Blocks) /\ b \in Blocks /\ b.txs \in Seq(Tx) /\ chain[n] = Append(f, b)
    BY <1>7, ChainParts
  <2> HIDE DEF f, b
  <2>2. get_funds(f, n) \in Int /\ Income(WithoutRewards(b.txs), n) \in Int
    BY <2>1, FundsType, IncomeType, WithoutRewardsType
  <2>3. Pays(n, back, f, b, p.miner) => Pays(n, more, f, b, p.miner)
    BY <1>1, <2>2 DEF Pays
  <2>4. Chained(solved, n, back, f, b) => Chained(solved, n, more, f, b)
    BY <1>1, <1>2, <1>5, <2>1 DEF Chained
  <2>5. QED
    BY <1>7, <2>3, <2>4 DEF Upright, f, b
<1>8. Serves(n) => Stands(n, more)
  BY <1>7 DEF Steady, Stands
<1>9. QED
  BY <1>4, <1>6, <1>8 DEF Steady

LEMMA ReceiveTransactionSteady ==
  ASSUME TypeOK, Order, NEW n \in Procs, Steady(n, returned[n]), NEW m \in net,
         ReceiveTransaction(n, m), ~raced'[n], NEW more \in Nat, more = returned'[n]
  PROVE  Steady(n, more)'
<1> DEFINE back == returned[n]
<1>1. /\ solved' = solved /\ m.to = n /\ m.kind = "transaction" /\ m.body \in Tx
      /\ pc[n].net = "idle" /\ back \in Nat
  BY DEF ReceiveTransaction, TypeOK, Messages, At
<1>2. CASE Die(n) /\ UNCHANGED returned
  BY <1>1, <1>2, DieSteady
<1>3. CASE /\ Serves(n) /\ add_transaction(n, m.body) /\ Trespass(n, "net")
           /\ returned' = [returned EXCEPT ![n] = @ + IF m.body.from = n THEN m.body.amount ELSE 0]
           /\ UNCHANGED <<file, snap, net>>
  <2> DEFINE tx == m.body
  <2>1. pc[n].miner \in {"idle", "mining", "stopping", "dangling"}
    BY <1>3, Alone DEF Threads
  <2>2. /\ ~is_reward(tx) /\ Effect(tx, n) \in Int
        /\ back <= more /\ back + Effect(tx, n) + (more - back) >= back
    <3>1. Mail(solved, m)
      BY DEF Order
    <3>2. tx.from \in Procs /\ tx.amount >= 0 /\ tx.amount \in Int
      BY <1>1, <3>1 DEF Mail, Tx
    <3>3. Effect(tx, n) \in Int
      BY <1>1, EffectType
    <3>4. more = back + IF tx.from = n THEN tx.amount ELSE 0
      BY <1>1, <1>3, ReturnedEffect
    <3>5. CASE tx.from = n
      <4>1. Effect(tx, n) = - tx.amount
        BY <3>5 DEF Effect
      <4> HIDE DEF back, tx
      <4>2. QED
        BY <1>1, <3>2, <3>4, <3>5, <4>1, MintAssumption DEF is_reward
    <3>6. CASE tx.from # n
      <4>1. Effect(tx, n) >= 0
        BY <3>2, <3>6 DEF Effect
      <4> HIDE DEF back, tx
      <4>2. QED
        BY <1>1, <3>2, <3>3, <3>4, <3>6, <4>1, MintAssumption DEF is_reward
    <3>7. QED
      BY <3>5, <3>6
  <2>3. Stands(n, back)
    BY <1>3 DEF Steady
  <2>4. ASSUME chain[n] # <<>>
        PROVE  get_funds(Front(chain[n]), n) + Income(WithoutRewards(Tip(n).txs), n)
                 + Effect(tx, n) >= - Reward - more
    <3> DEFINE f == Front(chain[n])
        b == Tip(n)
        without == get_funds(f, n) + Income(WithoutRewards(b.txs), n)
    <3>1. f \in Seq(Blocks) /\ b \in Blocks /\ chain[n] = Append(f, b)
      BY <2>4, ChainParts
    <3>2. Upright(solved, n, back, f, b, pc[n], file[n], snap[n])
      BY <2>3, <2>4 DEF Stands
    <3> HIDE DEF f, b, back
    <3>3. without \in Int /\ without >= - Reward - back
      BY <1>1, <2>1, <3>1, <3>2, Balance
    <3> HIDE DEF without, tx
    <3>4. without + Effect(tx, n) >= - Reward - more
      BY <1>1, <2>2, <3>3, RewardAssumption
    <3>5. QED
      BY <3>4 DEF without, f, b
  <2>5. file'[n] = file[n] /\ snap'[n] = snap[n] /\ tx \in Tx
    BY <1>1, <1>3
  <2>6. Steady(n, more)
    BY <1>1, <2>2, MoreBack
  <2>7. QED
    BY <1>1, <1>3, <2>1, <2>2, <2>4, <2>5, <2>6, AddTransactionSteady
<1>4. QED
  BY <1>2, <1>3 DEF ReceiveTransaction
\* A peer's block takes the place of the last only in a chain of one, and
\* nobody mines it any more.
LEMMA ReplaceSteady ==
  ASSUME NEW back \in Nat, TypeOK, Order, solved' = solved, NEW n \in Procs,
         Steady(n, back), NEW b \in Blocks,
         Validates(b), b.depth = Size(n), chain[n] # <<>>, Compatible(n, b),
         b.txs = <<>> \/ solved[b.id].by # n, Replace(n, b), Serves(n), pc[n].net = "idle",
         pc[n].miner \in {"idle", "mining", "stopping", "dangling"},
         file'[n] = file[n], snap'[n] = snap[n]
  PROVE  Steady(n, back)'
<1> DEFINE f == Front(chain[n])
    t == Tip(n)
    c == Copy(b)
<1>1. pc[n] \in Pcs /\ solved \in Histories
  BY DEF TypeOK, Pcs, Histories
<1>2. f \in Seq(Blocks) /\ Size(n) = Len(f) + 1
  BY ChainParts
<1>3. Upright(solved, n, back, f, t, pc[n], file[n], snap[n])
  BY DEF Steady, Stands
<1>4. f = <<>>
  <2>1. SUFFICES ASSUME f # <<>> PROVE FALSE
    OBVIOUS
  <2>2. Size(n) > 1
    BY <1>2, <2>1
  <2>3. t.valid
    BY <2>2 DEF Compatible
  <2>4. pc[n].miner \in Seals \cup {"mined"}
    <3> HIDE DEF f, t
    <3>1. QED
      BY <1>3, <2>1, <2>3 DEF Upright, Pays
  <2>5. QED
    BY <2>4 DEF Seals
<1>5. /\ c \in Blocks /\ c.depth = b.depth /\ c.prev = b.prev
      /\ c.id = b.id /\ c.txs = <<>> /\ c.valid
  BY CopyType DEF Copy, Blocks
<1>6. chain'[n] = Append(f, c)
  BY DEF Replace, TypeOK
<1>7. /\ pc'[n].net = "seal" /\ pc'[n].miner \in {"idle", "dangling"}
      /\ pc'[n].ui = IF pc[n].ui = "genesis" THEN "aborted" ELSE pc[n].ui
  BY <1>1 DEF Replace, Lost, TypeOK, Pcs
<1> HIDE DEF f, t, c
<1>8. Genuine(solved, n, c, f = <<>>)
  <2>1. b.id \in DOMAIN solved /\ solved[b.id].header = Header(b)
    BY DEF Validates
  <2>2. CASE b.txs = <<>>
    BY <1>5, <2>1, <2>2 DEF Genuine, Says, Header
  <2>3. CASE solved[b.id].by # n
    BY <1>4, <1>5, <2>1, <2>3 DEF Genuine
  <2>4. QED
    BY <2>2, <2>3
<1>9. Solvent(n, back, Append(f, c))
  <2>1. Append(f, c) = <<c>>
    BY <1>4, <1>5
  <2>2. get_funds(<<c>>, n) = 0
    BY <1>5, FundsOne, IncomeEmpty
  <2>3. QED
    BY <2>1, <2>2, RewardAssumption DEF Solvent
<1>10. Chained(solved, n, back, f, c)
  BY <1>4, <1>8, <1>9, ClosedEmpty DEF Chained, Ends
<1>11. Pays(n, back, f, c, pc'[n].miner)
  BY <1>4, <1>5, <1>7 DEF Pays, Mined, Seals, Bare
<1>12. Relays(f, c, pc'[n])
  BY <1>4, <1>5, <1>7 DEF Relays
<1>13. Stored(f, c, pc'[n], file[n], snap[n])
  BY <1>3, <1>7 DEF Upright, Stored
<1>14. Stands(n, back)'
  BY <1>2, <1>5, <1>6, <1>10, <1>11, <1>12, <1>13, StandsAppend DEF Upright
<1>15. Readable(solved', n, back, file'[n])
  BY DEF Steady
<1>16. pc'[n].ui \notin Seals
  BY <1>7 DEF Serves, Starting, Seals
<1>17. QED
  BY <1>14, <1>15, <1>16 DEF Steady, Boots

LEMMA ReceiveBlockSteady ==
  ASSUME NEW back \in Nat, TypeOK, Order, NEW n \in Procs, Steady(n, back),
         NEW m \in net, ReceiveBlock(n, m),
         ~raced'[n], Echoes(n)
  PROVE  Steady(n, back)'
<1>1. m.body \in Blocks /\ solved' = solved /\ Serves(n) /\ pc[n].net = "idle"
  BY DEF ReceiveBlock, TypeOK, Messages, At
<1>2. m.kind = "block" /\ m.to = n
  BY DEF ReceiveBlock
<1>3. CASE Die(n)
  BY <1>1, <1>3, DieSteady
<1>4. CASE /\ Validates(m.body) /\ m.body.depth = Size(n) /\ chain[n] # <<>>
           /\ Compatible(n, m.body) /\ Replace(n, m.body) /\ Trespass(n, "net")
           /\ UNCHANGED <<nothing, file, snap, net>>
  <2>1. m.body.txs = <<>> \/ solved[m.body.id].by # n
    <3>1. Size(n) \in Nat /\ Size(n) # 0
      BY <1>4 DEF TypeOK, Size
    <3>2. ~(m.body.depth = 0 \/ m.body.depth + 1 < Size(n) \/ m.body.depth + 1 = Size(n))
      BY <1>4, <3>1
    <3>3. QED
      BY <1>2, <3>2 DEF Echoes, Echo
  <2>2. pc[n].miner \in {"idle", "mining", "stopping", "dangling"}
    BY <1>4, Alone DEF Threads
  <2>3. file'[n] = file[n] /\ snap'[n] = snap[n]
    BY <1>4
  <2>4. QED
    BY <1>1, <1>4, <2>1, <2>2, <2>3, ReplaceSteady
<1>5. CASE UNCHANGED <<chain, nothing, file, snap, net, pc, raced>>
  BY <1>1, <1>5 DEF Steady, Boots, Serves, Stands, At, Tip, Size
<1>6. QED
  BY <1>1, <1>3, <1>4, <1>5 DEF ReceiveBlock

LEMMA ForceSyncSteady ==
  ASSUME NEW back \in Nat, TypeOK, Order, NEW n \in Procs, Steady(n, back),
         ForceSync(n), ~raced'[n]
  PROVE  Steady(n, back)'
<1>1. /\ solved' = solved /\ file'[n] = <<>> /\ pc[n] \in Pcs /\ pc[n].ui = "free"
      /\ Trespass(n, "ui")
  BY DEF ForceSync, TypeOK, Pcs, At
<1>2. pc[n].net = "idle" /\ pc[n].miner \in {"idle", "mining", "stopping", "dangling"}
  BY <1>1, Alone DEF Threads
<1>3. Readable(solved', n, back, file'[n])
  BY <1>1, ReadableEmpty
<1>4. CASE chain' = [chain EXCEPT ![n] = <<>>] /\ pc' = [pc EXCEPT ![n] = Lost(n)]
  <2>1. /\ chain'[n] = <<>> /\ pc'[n].ui = "free" /\ pc'[n].net = "idle"
        /\ pc'[n].miner \in {"idle", "dangling"}
    BY <1>1, <1>2, <1>4 DEF TypeOK, Lost, Pcs
  <2>2. QED
    BY <1>1, <1>3, <2>1 DEF Steady, Boots, Stands, At, Seals
<1>5. CASE /\ chain' = [chain EXCEPT ![n] = <<PendingBlock(0, NoBlock)>>]
           /\ pc' = [pc EXCEPT ![n] = [Lost(n) EXCEPT !.ui = "genesis"]]
  <2> DEFINE g == PendingBlock(0, NoBlock)
  <2>1. /\ pc'[n].ui = "genesis" /\ pc'[n].net = "idle" /\ pc'[n].miner \in {"idle", "dangling"}
    BY <1>1, <1>2, <1>5 DEF TypeOK, Lost, Pcs
  <2>2. g \in Blocks /\ ~g.valid /\ g.txs = <<>>
    BY PendingType DEF NoBlock, PendingBlock
  <2>3. chain'[n] = <<g>>
    BY <1>5 DEF TypeOK
  <2> HIDE DEF g
  <2>4. chain'[n] = Append(<<>>, g) /\ <<>> \in Seq(Blocks)
    BY <2>3
  <2>5. Chained(solved', n, back, <<>>, g)
    BY <2>2, ClosedEmpty DEF Chained, Ends
  <2>6. Bare(g) /\ get_funds(<<>>, n) + Income(WithoutRewards(g.txs), n) >= - Reward - back
    BY <2>2, FundsEmpty, IncomeEmpty, WithoutRewardsEmpty, RewardAssumption DEF Bare
  <2>7. Pays(n, back, <<>>, g, pc'[n].miner)
    BY <2>1, <2>2, <2>6 DEF Pays, Mined, Seals
  <2>8. Relays(<<>>, g, pc'[n])
    BY <2>1 DEF Relays, Seals
  <2>9. Stored(<<>>, g, pc'[n], file'[n], snap'[n])
    BY <1>1, <2>1 DEF Stored
  <2>10. Stands(n, back)'
    BY <2>2, <2>4, <2>5, <2>7, <2>8, <2>9, StandsAppend DEF Upright
  <2>11. QED
    BY <1>3, <2>1, <2>10 DEF Steady, Boots, Seals
<1>6. QED
  BY <1>4, <1>5 DEF ForceSync

LEMMA MineGenesisSteady ==
  ASSUME NEW back \in Nat, TypeOK, Order, NEW n \in Procs, Steady(n, back),
         MineGenesis(n)
  PROVE  Steady(n, back)'
<1> DEFINE b == Tip(n)
    c == Solved(b)
    f == Front(chain[n])
<1>1. Process(n) /\ pc[n].ui = "genesis" /\ pc[n] \in Pcs
  BY DEF Order, MineGenesis, At, TypeOK, Pcs
<1>2. Size(n) = 1 /\ ~b.valid /\ pc[n].miner \notin Mined
  BY <1>1 DEF Process, At, Mined
<1>3. chain[n] # <<>>
  BY <1>2 DEF Size
<1>4. f = <<>>
  <2>1. f \in Seq(Blocks) /\ Size(n) = Len(f) + 1
    BY <1>3, ChainParts
  <2> HIDE DEF f
  <2>2. QED
    BY <1>2, <2>1
<1>5. /\ b \in Blocks /\ b.txs \in Seq(Tx) /\ b = get_current_block(n)
      /\ Follows(solved, n, b)
  BY <1>1, <1>3, ChainParts, CurrentHeld DEF Held
<1>6. Serves(n) /\ Stands(n, back)
  BY <1>1, Running DEF Starting
<1>7. Upright(solved, n, back, f, b, pc[n], file[n], snap[n])
  BY <1>3, <1>6 DEF Stands
<1>8. /\ Mine(n, b) /\ chain'[n] = <<c>> /\ file'[n] = file[n] /\ snap'[n] = snap[n]
  BY DEF MineGenesis, TypeOK
<1>9. pc'[n].ui = "free" /\ pc'[n].net = pc[n].net /\ pc'[n].miner = pc[n].miner
  BY GoEffect DEF MineGenesis, Threads, UiPcs
<1>10. c.valid /\ c.depth = b.depth /\ c.prev = b.prev /\ c.txs = b.txs
  BY <1>5 DEF Solved, Blocks
<1> HIDE DEF b, f
<1>11. /\ Growing /\ c \in Blocks /\ Held(solved', n, c)
       /\ solved'[c.id].header = Header(b)
  BY <1>5, <1>8, SolvedOrder
<1>12. Says(solved', c)
  BY <1>10, <1>11 DEF Says, Header, Held, Hashed
<1> HIDE DEF c
<1>13. Bare(b)
  BY <1>2, <1>7 DEF Upright, Pays
<1>14. Income(c.txs, n) >= - Reward - back
  <2>1. get_funds(<<>>, n) + Income(WithoutRewards(b.txs), n) >= - Reward - back
    BY <1>2, <1>4, <1>7 DEF Upright, Pays
  <2>2. WithoutRewards(b.txs) = b.txs
    BY <1>5, <1>13, BareWhole
  <2>3. Income(b.txs, n) \in Int
    BY <1>5, IncomeType
  <2>4. QED
    BY <1>10, <2>1, <2>2, <2>3, FundsEmpty
<1>15. Genuine(solved', n, c, TRUE) /\ Solvent(n, back, <<c>>)
  BY <1>10, <1>11, <1>12, <1>14, GenesisCloses DEF Growing
<1>16. <<c>> = Append(<<>>, c) /\ <<>> \in Seq(Blocks) /\ (<<>> = <<>>) = TRUE
  OBVIOUS
<1>17. Chained(solved', n, back, <<>>, c)
  BY <1>15, <1>16, ClosedEmpty DEF Chained, Ends
<1>18. pc[n].miner \notin Seals
  BY <1>2, <1>7 DEF Upright, Pays
<1>19. Pays(n, back, <<>>, c, pc'[n].miner)
  BY <1>2, <1>9, <1>10, <1>13, <1>18 DEF Pays, Bare
<1>20. pc[n].net \notin Seals
  BY <1>1, <1>7 DEF Upright, Relays
<1>21. Relays(<<>>, c, pc'[n])
  BY <1>9, <1>20 DEF Relays
<1>22. Stored(<<>>, c, pc'[n], file'[n], snap'[n])
  BY <1>4, <1>7, <1>8, <1>9, <1>18, <1>20 DEF Upright, Stored, Seals
<1>23. Stands(n, back)'
  BY <1>8, <1>11, <1>16, <1>17, <1>19, <1>21, <1>22, StandsAppend DEF Upright
<1>24. Readable(solved', n, back, file'[n])
  BY <1>8, <1>11, FileStays
<1>25. QED
  BY <1>9, <1>23, <1>24 DEF Steady, Boots, Seals
-----------------------------------------------------------------------------
(***************************************************************************)
(* What a process sent itself: a step of the process keeps Sheltered.      *)
(***************************************************************************)
\* No block of its own gets to a process but from itself.
LEMMA EchoesKept ==
  ASSUME TypeOK, Order, Growing, NEW n \in Procs, Echoes(n),
         \A m \in net' : (Echo(n, m))' => m \in net,
         Size(n) \in Nat, Size(n)' \in Nat, Size(n)' >= Size(n),
         pc[n].miner \in Seals => pc'[n].miner \in Seals \/ Size(n)' > Size(n)
  PROVE  Echoes(n)'
<1>1. SUFFICES ASSUME NEW m \in net', (Echo(n, m))'
               PROVE  \/ m.body.depth = 0 \/ m.body.depth + 1 < Size(n)'
                      \/ m.body.depth + 1 = Size(n)' /\ pc'[n].miner \in Seals
  BY DEF Echoes
<1>2. m \in net /\ m.kind = "block" /\ Mail(solved, m)
  BY <1>1 DEF Echo, Order
<1>3. solved'[m.body.id] = solved[m.body.id]
  BY <1>2 DEF Mail, Growing, Grown
<1>4. Echo(n, m)
  BY <1>1, <1>3 DEF Echo
<1>5. m.body.depth \in Nat
  BY <1>2 DEF TypeOK, Messages, Blocks
<1>6. \/ m.body.depth = 0 \/ m.body.depth + 1 < Size(n)
      \/ m.body.depth + 1 = Size(n) /\ pc[n].miner \in Seals
  BY <1>2, <1>4 DEF Echoes
<1>7. QED
  BY <1>5, <1>6

\* A step that sends no block.
LEMMA NoEcho ==
  ASSUME TypeOK, NEW n \in Procs,
         \A m \in net' : m \in net \/ m.kind # "block"
  PROVE  \A m \in net' : (Echo(n, m))' => m \in net
BY DEF Echo

LEMMA SizeType ==
  ASSUME TypeOK, NEW n \in Procs
  PROVE  Size(n) \in Nat /\ (Size(n) = 0 <=> chain[n] = <<>>)
BY DEF TypeOK, Size

Sheltered(n) == Echoes(n) /\ Rooted(n)

LEMMA DieSheltered ==
  ASSUME NEW n \in Procs, Die(n), TypeOK
  PROVE  Sheltered(n)'
<1>1. net' = {m \in net : m.to # n} /\ pc'[n].ui = "down"
  BY DieEffect DEF Die, Off
<1>2. QED
  BY <1>1 DEF Sheltered, Echoes, Echo, Rooted, Serves

\* A process that starts has no chain, or no thread that could send from it.
LEMMA StartSheltered ==
  ASSUME TypeOK, Order, NEW n \in Procs, Typed(n), Keeps(n), Sheltered(n),
         Start(n) \/ LoadChain(n)
  PROVE  Sheltered(n)'
<1>1. CASE Die(n)
  BY <1>1, DieSheltered
<1>2. CASE /\ pc[n].ui \in {"down", "boot"} /\ pc'[n].ui \in {"boot", "seal"}
           /\ pc'[n].miner = pc[n].miner /\ net' = net
  <2>1. Size(n) = 0 /\ Size(n)' \in Nat
    BY <1>2, SizeType DEF Order, Process, Typed, TypeOK, Size
  <2>2. pc[n].miner \notin Seals
    BY <1>2 DEF Order, Process, At, Seals, Starting
  <2>3. Echoes(n)'
    BY <1>2, <2>1, <2>2, NoEcho, EchoesKept DEF Keeps, Sheltered
  <2>4. QED
    BY <1>2, <2>3 DEF Sheltered, Rooted, Serves, Starting
<1>3. CASE Start(n)
  <2>1. pc'[n].ui = "boot" /\ pc'[n].miner = pc[n].miner
    BY <1>3, GoEffect DEF Start, Threads, UiPcs, Starting
  <2>2. QED
    BY <1>2, <1>3, <2>1 DEF Start, At
<1>4. CASE LoadChain(n) /\ Go(n, "ui", "seal") /\ net' = net
  <2>1. pc'[n].ui = "seal" /\ pc'[n].miner = pc[n].miner
    BY <1>4, GoEffect DEF Threads, UiPcs, Starting
  <2>2. QED
    BY <1>2, <1>4, <2>1 DEF LoadChain, At
<1>5. QED
  BY <1>1, <1>3, <1>4 DEF LoadChain

\* A step that keeps the place of the last block.
LEMMA CurrentSheltered ==
  ASSUME TypeOK, Order, Growing, NEW n \in Procs, Sheltered(n), NEW c \in Blocks,
         SetCurrent(n, c), c.depth = get_current_block(n).depth,
         Serves(n), pc'[n].net = pc[n].net, pc[n].net \notin Seals,
         pc[n].miner \notin Seals, \A m \in net' : m \in net \/ m.kind # "block"
  PROVE  Sheltered(n)'
<1>1. CASE chain[n] = <<>>
  <2>1. chain'[n] = <<>>
    BY <1>1, SetCurrentEffect
  <2>2. Size(n)' = 0 /\ Size(n) = 0
    BY <1>1, <2>1 DEF Size
  <2>3. QED
    BY <2>2, NoEcho, EchoesKept DEF Sheltered, Rooted
<1>2. CASE chain[n] # <<>>
  <2> DEFINE f == Front(chain[n])
  <2>1. /\ chain'[n] = Append(f, c) /\ f \in Seq(Blocks) /\ Size(n) = Len(f) + 1
        /\ chain[n] = Append(f, Tip(n)) /\ c.depth = Tip(n).depth /\ Tip(n) \in Blocks
    BY <1>2, SetCurrentEffect, ChainParts
  <2> HIDE DEF f
  <2>2. Size(n)' = Size(n) /\ Size(n) \in Nat
    BY <2>1 DEF Size
  <2>3. Echoes(n)'
    BY <2>2, NoEcho, EchoesKept DEF Sheltered
  <2>4. Size(n) = 1 => chain'[n][1] = c /\ chain[n][1] = Tip(n)
    BY <2>1
  <2>5. QED
    BY <2>1, <2>2, <2>3, <2>4 DEF Sheltered, Rooted
<1>3. QED
  BY <1>1, <1>2

\* A step in which only threads move.
LEMMA MoveSheltered ==
  ASSUME TypeOK, Order, Growing, NEW n \in Procs, Sheltered(n), chain'[n] = chain[n],
         Serves(n)' => Serves(n), pc'[n].net \in Seals <=> pc[n].net \in Seals,
         pc[n].miner \in Seals => pc'[n].miner \in Seals,
         \A m \in net' : m \in net \/ m.kind # "block"
  PROVE  Sheltered(n)'
<1>1. Size(n)' = Size(n) /\ Size(n) \in Nat
  BY SizeType DEF Size
<1>2. Echoes(n)'
  BY <1>1, NoEcho, EchoesKept DEF Sheltered
<1>3. QED
  BY <1>1, <1>2 DEF Sheltered, Rooted

\* A thread that is sealing.
LEMMA SealSheltered ==
  ASSUME TypeOK, Order, NEW back \in Nat, NEW n \in Procs, Typed(n), Keeps(n),
         Steady(n, back), Sheltered(n), NEW t \in Threads,
         Truncate(n, t) \/ WriteFile(n, t) \/ PushNext(n, t)
  PROVE  Sheltered(n)'
<1>1. CASE Die(n)
  BY <1>1, DieSheltered
<1>2. pc[n][t] \in Seals /\ pc[n] \in Pcs /\ solved' = solved
  BY DEF Truncate, WriteFile, PushNext, At, Seals, TypeOK, Pcs
<1>3. ~(chain[n] # <<>> /\ ~Tip(n).valid)
  BY <1>2, NoFailure
<1>4. CASE /\ chain'[n] = chain[n] /\ net' = net
           /\ ~Serves(n) \/ t # "ui"
           /\ Go(n, t, "write") \/ Go(n, t, "push")
  <2>1. PICK to \in {"write", "push"} : Go(n, t, to)
    BY <1>4
  <2>2. pc'[n][t] = to /\ \A o \in Threads \ {t} : pc'[n][o] = pc[n][o]
    BY <2>1, GoEffect DEF UiPcs, NetPcs, MinerPcs, Starting
  <2>3. /\ pc'[n].net \in Seals <=> pc[n].net \in Seals
        /\ pc[n].miner \in Seals => pc'[n].miner \in Seals
    BY <1>2, <2>2 DEF Threads, Seals
  <2>4. Serves(n)' => Serves(n)
    BY <1>4, <2>2 DEF Serves, Threads, Starting
  <2>5. QED
    BY <1>4, <2>3, <2>4, MoveSheltered DEF Keeps
<1>5. CASE /\ chain[n] # <<>> /\ net' = net /\ Go(n, t, After(t))
           /\ chain' = [chain EXCEPT ![n] = Append(@, PendingBlock(Size(n), Tip(n).id))]
  <2>1. chain \in [Procs -> Seq(Blocks)]
    BY DEF TypeOK
  <2>2. Size(n)' = Size(n) + 1 /\ Size(n) \in Nat /\ Size(n) # 0
    BY <1>5, <2>1, SizeType DEF Size
  <2>3. Echoes(n)'
    BY <1>5, <2>2, NoEcho, EchoesKept DEF Keeps, Sheltered
  <2>4. QED
    BY <2>2, <2>3 DEF Sheltered, Rooted
<1>6. CASE t = "ui"
  <2>1. ~Serves(n)
    BY <1>2, <1>6 DEF Serves, Seals, Starting
  <2>2. QED
    BY <1>1, <1>3, <1>4, <1>5, <2>1 DEF Truncate, WriteFile, PushNext
<1>7. CASE t # "ui"
  BY <1>1, <1>3, <1>4, <1>5, <1>7 DEF Truncate, WriteFile, PushNext
<1>8. QED
  BY <1>6, <1>7

\* Nobody seals while a thread mines, or while another uses the chain.
LEMMA NotSealing ==
  ASSUME TypeOK, Order, NEW back \in Nat, NEW n \in Procs, Steady(n, back),
         pc[n].miner \in Mined \/ pc[n].ui = "genesis"
  PROVE  pc[n].net \notin Seals
<1>1. Serves(n) /\ Stands(n, back)
  BY Running DEF Mined, Starting
<1>2. CASE chain[n] = <<>>
  BY <1>1, <1>2 DEF Stands, At, Seals
<1>3. CASE chain[n] # <<>>
  BY <1>1, <1>3 DEF Stands, Upright, Relays, Mined
<1>4. QED
  BY <1>2, <1>3

LEMMA MiningSheltered ==
  ASSUME TypeOK, Order, NEW back \in Nat, NEW n \in Procs, Typed(n), Keeps(n),
         Steady(n, back), Sheltered(n), ~raced'[n],
         StartMining(n) \/ Interrupt(n) \/ CleanBlock(n) \/ Solve(n) \/ Dangle(n)
  PROVE  Sheltered(n)'
<1> DEFINE b == get_current_block(n)
<1>1. b \in Blocks /\ b.txs \in Seq(Tx) /\ Growing
  BY CurrentType DEF Blocks, Keeps
<1>2. CASE StartMining(n)
  <2> DEFINE c == [b EXCEPT !.txs = Append(@, reward(n)), !.valid = FALSE]
  <2>1. Append(b.txs, reward(n)) \in Seq(Tx)
    BY <1>1, RewardType
  <2>2. c \in Blocks /\ c.depth = b.depth
    BY <1>1, <2>1 DEF Blocks
  <2>3. SetCurrent(n, c) /\ Trespass(n, "ui") /\ pc[n].miner = "idle" /\ pc[n].ui = "free"
        /\ net' = net
    BY <1>2 DEF StartMining, At
  <2>4. pc[n].net = "idle"
    BY <2>3, Alone DEF Threads
  <2>5. pc'[n].net = pc[n].net /\ Serves(n)
    BY <1>2, <2>3, GoEffect DEF StartMining, Threads, MinerPcs, Serves, UiPcs, Starting
  <2> HIDE DEF b, c
  <2>6. QED
    BY <1>1, <2>2, <2>3, <2>4, <2>5, CurrentSheltered DEF Seals, b
<1>3. CASE Interrupt(n)
  <2>1. /\ pc'[n].ui = pc[n].ui /\ pc'[n].net = pc[n].net /\ pc[n].miner = "mining"
        /\ chain' = chain /\ net' = net
    BY <1>3, GoEffect DEF Interrupt, Threads, MinerPcs, At
  <2>2. QED
    BY <1>1, <2>1, MoveSheltered DEF Serves, Seals
<1>4. CASE CleanBlock(n)
  <2> DEFINE c == [b EXCEPT !.txs = WithoutRewards(@)]
  <2>1. WithoutRewards(b.txs) \in Seq(Tx)
    BY <1>1, WithoutRewardsType
  <2>2. c \in Blocks /\ c.depth = b.depth
    BY <1>1, <2>1 DEF Blocks
  <2>3. SetCurrent(n, c) /\ pc[n].miner = "stopping" /\ net' = net
    BY <1>4 DEF CleanBlock, At
  <2>4. pc[n].net \notin Seals /\ Serves(n)
    BY <2>3, NotSealing, Running DEF Mined
  <2>5. pc'[n].net = pc[n].net
    BY <1>4, GoEffect DEF CleanBlock, Threads, MinerPcs
  <2> HIDE DEF b, c
  <2>6. QED
    BY <1>1, <2>2, <2>3, <2>4, <2>5, CurrentSheltered DEF Seals, b
<1>5. CASE Solve(n)
  <2>1. SetCurrent(n, Solved(b)) /\ Mine(n, b) /\ pc[n].miner = "mining" /\ net' = net
    BY <1>5 DEF Solve, At
  <2>2. Solved(b) \in Blocks /\ Solved(b).depth = b.depth
    BY <1>1, <2>1, MineEffect DEF Solved, Blocks
  <2>3. pc[n].net \notin Seals /\ Serves(n)
    BY <2>1, NotSealing, Running DEF Mined
  <2>4. pc'[n].net = pc[n].net
    BY <1>5, GoEffect DEF Solve, Threads, MinerPcs
  <2> HIDE DEF b
  <2>5. QED
    BY <1>1, <2>1, <2>2, <2>3, <2>4, CurrentSheltered DEF Seals, b
<1>6. CASE Dangle(n)
  <2>1. CASE Die(n)
    BY <2>1, DieSheltered
  <2>2. CASE Go(n, "miner", "mined") /\ UNCHANGED <<chain, nothing, file, snap, net>>
    <3>1. pc'[n].ui = pc[n].ui /\ pc'[n].net = pc[n].net /\ pc[n].miner = "dangling"
      BY <1>6, <2>2, GoEffect DEF Dangle, Threads, MinerPcs, At
    <3>2. QED
      BY <1>1, <2>2, <3>1, MoveSheltered DEF Serves, Seals
  <2>3. QED
    BY <1>6, <2>1, <2>2 DEF Dangle
<1>7. QED
  BY <1>2, <1>3, <1>4, <1>5, <1>6

\* What is sent is the last block, which is about to be sealed.
LEMMA PropagateSheltered ==
  ASSUME TypeOK, Order, NEW back \in Nat, NEW n \in Procs, Typed(n), Keeps(n),
         Steady(n, back), Sheltered(n), PropagateBlock(n)
  PROVE  Sheltered(n)'
<1> DEFINE b == get_current_block(n)
<1>1. /\ chain'[n] = chain[n] /\ pc[n].miner = "mined" /\ solved' = solved
      /\ Size(n)' = Size(n) /\ Size(n) \in Nat /\ Growing
  BY SizeType DEF PropagateBlock, At, Size, Keeps
<1>2. pc'[n].ui = pc[n].ui /\ pc'[n].net = pc[n].net
      /\ pc'[n].miner = IF b.valid THEN "seal" ELSE "idle"
  BY GoEffect DEF PropagateBlock, Threads, MinerPcs, NetPcs
<1>3. Rooted(n)'
  BY <1>1, <1>2 DEF Sheltered, Rooted, Serves
<1>4. CASE ~b.valid
  <2>1. net' = net
    BY <1>4 DEF PropagateBlock
  <2>2. pc[n].miner \notin Seals
    BY <1>1 DEF Seals
  <2>3. Echoes(n)'
    BY <1>1, <2>1, <2>2, NoEcho, EchoesKept DEF Sheltered
  <2>4. QED
    BY <1>3, <2>3 DEF Sheltered
<1>5. CASE b.valid
  <2>1. PICK to \in SUBSET Procs : net' = net \cup BlockMessages(b, to)
    BY <1>5 DEF PropagateBlock
  <2>2. Serves(n) /\ Stands(n, back) /\ pc'[n].miner \in Seals
    BY <1>1, <1>2, <1>5, Running DEF Seals
  <2>3. b.txs # <<>> => b.depth = 0 \/ b.depth + 1 = Size(n)
    <3>1. CASE chain[n] = <<>>
      BY <3>1 DEF get_current_block, Order, Process
    <3>2. CASE chain[n] # <<>> /\ Size(n) = 1
      <4>1. b = chain[n][1]
        BY <3>2 DEF get_current_block, Tip
      <4>2. QED
        BY <2>2, <3>2, <4>1 DEF Sheltered, Rooted
    <3>3. CASE chain[n] # <<>> /\ Size(n) # 1
      <4> DEFINE f == Front(chain[n])
      <4>1. Size(n) = Len(f) + 1 /\ f \in Seq(Blocks) /\ b = Tip(n)
        BY <3>3, ChainParts
      <4>2. Ends(f, Tip(n))
        BY <2>2, <3>3 DEF Stands, Upright, Chained
      <4> HIDE DEF f, b
      <4>3. f # <<>> /\ Len(f) \in Nat
        BY <3>3, <4>1
      <4>4. QED
        BY <4>1, <4>2, <4>3 DEF Ends
    <3>4. QED
      BY <3>1, <3>2, <3>3
  <2> HIDE DEF b
  <2>4. ASSUME NEW m \in net', (Echo(n, m))'
        PROVE  \/ m.body.depth = 0 \/ m.body.depth + 1 < Size(n)'
               \/ m.body.depth + 1 = Size(n)' /\ pc'[n].miner \in Seals
    <3>1. CASE m \in net
      <4>1. Echo(n, m)
        BY <1>1, <2>4 DEF Echo
      <4>2. QED
        BY <1>1, <2>2, <3>1, <4>1 DEF Sheltered, Echoes
    <3>2. CASE m \in BlockMessages(b, to)
      <4>1. m.body = b /\ b.txs # <<>>
        BY <2>4, <3>2 DEF BlockMessages, Echo
      <4>2. QED
        BY <1>1, <2>2, <2>3, <4>1
    <3>3. QED
      BY <2>1, <3>1, <3>2
  <2>5. Echoes(n)'
    BY <2>4 DEF Echoes
  <2>6. QED
    BY <1>3, <2>5 DEF Sheltered
<1>6. QED
  BY <1>4, <1>5

LEMMA AddTransactionSheltered ==
  ASSUME TypeOK, Order, Growing, NEW n \in Procs, Sheltered(n), NEW tx \in Tx,
         add_transaction(n, tx), Serves(n), pc[n].net = "idle", pc[n].miner \notin Seals,
         \A m \in net' : m \in net \/ m.kind # "block"
  PROVE  Sheltered(n)'
<1> DEFINE b == get_current_block(n)
    c == [b EXCEPT !.txs = Append(@, tx), !.valid = FALSE]
<1>1. b \in Blocks /\ b.txs \in Seq(Tx)
  BY CurrentType DEF Blocks
<1>2. Append(b.txs, tx) \in Seq(Tx)
  BY <1>1
<1>3. c \in Blocks /\ c.depth = b.depth /\ SetCurrent(n, c)
  BY <1>1, <1>2 DEF Blocks, add_transaction
<1>4. pc'[n].net = pc[n].net /\ pc[n].net \notin Seals
  BY InterruptedEffect DEF add_transaction, Seals
<1> HIDE DEF b, c
<1>5. QED
  BY <1>3, <1>4, CurrentSheltered DEF b

LEMMA TransactionSheltered ==
  ASSUME TypeOK, Order, NEW back \in Nat, NEW n \in Procs, Typed(n), Keeps(n),
         Steady(n, back), Sheltered(n), ~raced'[n],
         \/ \E p \in Payments : Send(n, p)
         \/ \E m \in net : ReceiveTransaction(n, m)
  PROVE  Sheltered(n)'
<1>1. CASE Die(n)
  BY <1>1, DieSheltered
<1>2. ASSUME NEW t \in {"ui", "net"}, Trespass(n, t), Serves(n), NEW tx \in Tx,
             add_transaction(n, tx), t = "net" => pc[n].net = "idle",
             \A m \in net' : m \in net \/ m.kind # "block"
      PROVE  Sheltered(n)'
  <2>1. pc[n].net = "idle" /\ pc[n].miner \notin Seals
    BY <1>2, Alone DEF Threads, Seals
  <2>2. QED
    BY <1>2, <2>1, AddTransactionSheltered DEF Keeps
<1>3. ASSUME NEW p \in Payments, Send(n, p), ~Die(n)
      PROVE  Sheltered(n)'
  <2>1. /\ Trespass(n, "ui") /\ add_transaction(n, payment(p)) /\ payment(p) \in Tx
        /\ \A m \in net' : m \in net \/ m.kind # "block"
    BY <1>3, PaymentType DEF Send
  <2>2. Serves(n)
    BY <1>3 DEF Send, At, Serves, UiPcs, Starting
  <2>3. QED
    BY <1>2, <2>1, <2>2
<1>4. ASSUME NEW m \in net, ReceiveTransaction(n, m), ~Die(n)
      PROVE  Sheltered(n)'
  <2>1. /\ Trespass(n, "net") /\ add_transaction(n, m.body) /\ Serves(n) /\ net' = net
        /\ pc[n].net = "idle"
    BY <1>4 DEF ReceiveTransaction, At
  <2>2. m.body \in Tx
    BY <1>4 DEF ReceiveTransaction, TypeOK, Messages
  <2>3. QED
    BY <1>2, <2>1, <2>2
<1>5. QED
  BY <1>1, <1>3, <1>4

LEMMA ReceiveBlockSheltered ==
  ASSUME TypeOK, Order, NEW back \in Nat, NEW n \in Procs, Typed(n), Keeps(n),
         Steady(n, back), Sheltered(n), ~raced'[n], NEW m \in net, ReceiveBlock(n, m)
  PROVE  Sheltered(n)'
<1>1. CASE Die(n)
  BY <1>1, DieSheltered
<1>2. CASE UNCHANGED <<chain, nothing, file, snap, net, pc, raced>>
  BY <1>2, MoveSheltered DEF Keeps, Serves
<1>3. CASE Replace(n, m.body) /\ chain[n] # <<>> /\ Trespass(n, "net") /\ net' = net
  <2>1. pc[n].miner \notin Seals
    BY <1>3, Alone DEF Threads, Seals
  <2>2. /\ pc'[n].net = "seal" /\ chain'[n] = Append(Front(chain[n]), Copy(m.body))
    BY <1>3 DEF Replace, TypeOK
  <2>3. /\ Size(n) = Len(Front(chain[n])) + 1 /\ Front(chain[n]) \in Seq(Blocks)
        /\ Size(n) \in Nat
    BY <1>3, ChainParts
  <2>4. Copy(m.body).txs = <<>>
    BY CopyType DEF Copy, ReceiveBlock, TypeOK, Messages, Blocks
  <2>5. Size(n)' = Size(n) /\ (Size(n) = 1 => chain'[n][1] = Copy(m.body))
    BY <2>2, <2>3 DEF Size
  <2>6. Echoes(n)'
    BY <1>3, <2>1, <2>3, <2>5, NoEcho, EchoesKept DEF Keeps, Sheltered
  <2>7. QED
    BY <2>2, <2>4, <2>5, <2>6 DEF Sheltered, Rooted, Seals
<1>4. QED
  BY <1>1, <1>2, <1>3 DEF ReceiveBlock

\* Only a chain whose second block is open is given up, and nothing but the first
\* was sent from it.
LEMMA GenesisSheltered ==
  ASSUME TypeOK, Order, NEW back \in Nat, NEW n \in Procs, Typed(n), Keeps(n),
         Steady(n, back), Sheltered(n), ~raced'[n], ForceSync(n) \/ MineGenesis(n)
  PROVE  Sheltered(n)'
<1>1. CASE ForceSync(n)
  <2>1. /\ Trespass(n, "ui") /\ Size(n) <= 2 /\ net' = net /\ solved' = solved
        /\ Size(n) \in Nat
    BY <1>1, SizeType DEF ForceSync
  <2>2. pc[n].net = "idle" /\ pc[n].miner \notin Seals
    BY <2>1, Alone DEF Threads, Seals
  <2>3. ASSUME NEW m \in net, Echo(n, m)
        PROVE  m.body.depth = 0
    <3>1. m.body.depth \in Nat
      BY <2>3 DEF Echo, TypeOK, Messages, Blocks
    <3>2. m.body.depth = 0 \/ m.body.depth + 1 < Size(n)
      BY <2>2, <2>3 DEF Sheltered, Echoes
    <3>3. QED
      BY <2>1, <3>1, <3>2
  <2>4. Echoes(n)'
    BY <2>1, <2>3 DEF Echoes, Echo
  <2>5. CASE chain' = [chain EXCEPT ![n] = <<>>]
    <3>1. Size(n)' = 0
      BY <2>5 DEF TypeOK, Size
    <3>2. QED
      BY <2>4, <3>1 DEF Sheltered, Rooted
  <2>6. CASE /\ chain' = [chain EXCEPT ![n] = <<PendingBlock(0, NoBlock)>>]
             /\ pc' = [pc EXCEPT ![n] = [Lost(n) EXCEPT !.ui = "genesis"]]
    <3>1. chain'[n][1].depth = 0
      BY <2>6 DEF TypeOK, PendingBlock
    <3>2. pc'[n].net = "idle"
      BY <2>2, <2>6 DEF TypeOK, Lost
    <3>3. QED
      BY <2>4, <3>1, <3>2 DEF Sheltered, Rooted, Seals
  <2>7. QED
    BY <1>1, <2>5, <2>6 DEF ForceSync
<1>2. CASE MineGenesis(n)
  <2>1. /\ pc[n].ui = "genesis" /\ net' = net /\ chain'[n] = <<Solved(Tip(n))>>
    BY <1>2 DEF MineGenesis, At, TypeOK
  <2>2. Size(n) = 1 /\ chain[n] \in Seq(Blocks)
    BY <2>1 DEF Order, Process, At, TypeOK
  <2>3. pc[n].net \notin Seals
    BY <2>1, NotSealing
  <2>4. /\ pc'[n].net = pc[n].net /\ pc'[n].miner = pc[n].miner
    BY <1>2, GoEffect DEF MineGenesis, Threads, UiPcs
  <2>5. Size(n)' = 1
    BY <2>1 DEF Size
  <2>6. Solved(Tip(n)).depth = chain[n][1].depth
    <3>1. Tip(n) = chain[n][1] /\ Tip(n) \in Blocks
      BY <2>2 DEF Tip, Size
    <3>2. QED
      BY <3>1 DEF Solved, Blocks
  <2>7. Serves(n)
    BY <2>1 DEF Serves, UiPcs, Starting
  <2>8. Echoes(n)'
    BY <2>1, <2>2, <2>4, <2>5, NoEcho, EchoesKept DEF Keeps, Sheltered
  <2>9. QED
    BY <2>1, <2>2, <2>3, <2>4, <2>6, <2>7, <2>8 DEF Sheltered, Rooted
<1>3. QED
  BY <1>1, <1>2

\* The other processes: nobody sends another a block that the other mined, but as a
\* copy without transactions.
LEMMA OthersSheltered ==
  ASSUME TypeOK, Order, Growing, NEW n \in Procs, Others(n), NEW p \in Procs \ {n},
         Sheltered(p),
         \A m \in net' : \/ m \in net \/ m.kind # "block" \/ m.body.txs = <<>>
                         \/ solved'[m.body.id].by = n
  PROVE  Sheltered(p)'
<1>1. chain'[p] = chain[p] /\ pc'[p] = pc[p]
  BY DEF Others
<1>2. Size(p)' = Size(p) /\ Size(p) \in Nat
  BY <1>1, SizeType DEF Size
<1>3. \A m \in net' : (Echo(p, m))' => m \in net
  BY DEF Echo
<1>4. Echoes(p)'
  BY <1>1, <1>2, <1>3, EchoesKept DEF Sheltered
<1>5. QED
  BY <1>1, <1>2, <1>4 DEF Sheltered, Rooted, Serves

LEMMA StepNet ==
  ASSUME TypeOK, Order, NEW n \in Procs, Growing,
         \/ Start(n) \/ LoadChain(n) \/ CreateNewBlock(n)
         \/ StartMining(n) \/ Interrupt(n) \/ CleanBlock(n) \/ Solve(n)
         \/ Dangle(n) \/ PropagateBlock(n)
         \/ \E p \in Payments : Send(n, p)
         \/ \E m \in net : \/ ReceiveTransaction(n, m)
                           \/ ReceiveBlock(n, m)
                           \/ ReceiveBlockTooEarly(n, m)
         \/ ForceSync(n) \/ MineGenesis(n) \/ GenesisAborted(n)
         \/ Kill(n)
  PROVE  \A m \in net' : \/ m \in net \/ m.kind # "block" \/ m.body.txs = <<>>
                         \/ solved'[m.body.id].by = n
<1>1. CASE PropagateBlock(n) /\ get_current_block(n).valid
  <2> DEFINE b == get_current_block(n)
  <2>1. PICK to \in SUBSET Procs : net' = net \cup BlockMessages(b, to)
    BY <1>1 DEF PropagateBlock
  <2>2. Held(solved, n, b) /\ solved' = solved
    BY <1>1, CurrentHeld DEF Order, PropagateBlock
  <2>3. b.txs = <<>> \/ solved'[b.id].by = n
    BY <1>1, <2>2 DEF Held
  <2> HIDE DEF b
  <2>4. QED
    BY <2>1, <2>3 DEF BlockMessages
<1>2. CASE Die(n)
  <2>1. net' \subseteq net
    BY <1>2, DieEffect
  <2>2. QED
    BY <2>1
<1>3. CASE \E p \in Payments : Send(n, p)
  BY <1>2, <1>3 DEF Send
<1>4. CASE net' = net
  BY <1>4
<1>5. CASE CreateNewBlock(n)
  <2>1. Die(n) \/ net' = net
    BY <1>5 DEF CreateNewBlock, Truncate, WriteFile, PushNext, Fail
  <2>2. QED
    BY <1>2, <1>4, <2>1
<1>6. CASE \E m \in net : ReceiveTransaction(n, m) \/ ReceiveBlock(n, m)
  <2>1. Die(n) \/ net' = net
    BY <1>6 DEF ReceiveTransaction, ReceiveBlock
  <2>2. QED
    BY <1>2, <1>4, <2>1
<1>7. Start(n) \/ LoadChain(n) \/ StartMining(n) \/ Interrupt(n) \/ CleanBlock(n)
      \/ Solve(n) \/ Dangle(n) \/ ForceSync(n) \/ MineGenesis(n) \/ GenesisAborted(n)
      \/ Kill(n) \/ (\E m \in net : ReceiveBlockTooEarly(n, m))
      \/ (PropagateBlock(n) /\ ~get_current_block(n).valid)
        => Die(n) \/ net' = net
  BY DEF Start, LoadChain, StartMining, Interrupt, CleanBlock, Solve, Dangle, ForceSync,
     MineGenesis, GenesisAborted, Kill, ReceiveBlockTooEarly, PropagateBlock
<1>8. QED
  BY <1>1, <1>2, <1>3, <1>4, <1>5, <1>6, <1>7
-----------------------------------------------------------------------------
(***************************************************************************)
(* What holds of a process whose threads have not raced.                   *)
(***************************************************************************)
\* To have raced is never taken back.
LEMMA RacedStays ==
  ASSUME TypeOK, NEW n \in Procs, raced[n],
         raced' = raced \/ (\E p \in Procs : \E t \in Threads : Trespass(p, t))
  PROVE  raced'[n]
<1>1. CASE raced' = raced
  BY <1>1
<1>2. ASSUME NEW p \in Procs, NEW t \in Threads, Trespass(p, t)
      PROVE  raced'[n]
  <2>1. CASE p = n
    BY <1>2, <2>1, TrespassEffect
  <2>2. CASE p # n
    BY <1>2, <2>2, TrespassEffect
  <2>3. QED
    BY <2>1, <2>2
<1>3. QED
  BY <1>1, <1>2

LEMMA StepRaced ==
  ASSUME Next
  PROVE  raced' = raced \/ (\E p \in Procs : \E t \in Threads : Trespass(p, t))
<1>1. "ui" \in Threads /\ "net" \in Threads
  BY DEF Threads
<1>2. QED
  BY <1>1 DEF Next, Start, LoadChain, CreateNewBlock, Truncate, WriteFile, PushNext,
     StartMining, Interrupt, CleanBlock, Solve, Dangle, PropagateBlock, Send,
     ReceiveTransaction, ReceiveBlock, ReceiveBlockTooEarly, ForceSync, MineGenesis,
     GenesisAborted, Kill

\* One action at a time, and what comes back to the process with it.
LEMMA StepSteady ==
  ASSUME TypeOK, Order, NEW n \in Procs, Steady(n, returned[n]), Echoes(n), ~raced'[n],
         NEW more \in Nat, more = returned'[n],
         \/ Start(n) \/ LoadChain(n) \/ CreateNewBlock(n)
         \/ StartMining(n) \/ Interrupt(n) \/ CleanBlock(n) \/ Solve(n)
         \/ Dangle(n) \/ PropagateBlock(n)
         \/ \E p \in Payments : Send(n, p)
         \/ \E m \in net : \/ ReceiveTransaction(n, m)
                           \/ ReceiveBlock(n, m)
                           \/ ReceiveBlockTooEarly(n, m)
         \/ ForceSync(n) \/ MineGenesis(n) \/ GenesisAborted(n)
         \/ Kill(n)
  PROVE  Steady(n, more)'
<1>1. CASE \E m \in net : ReceiveTransaction(n, m)
  BY <1>1, ReceiveTransactionSteady
<1>2. ASSUME returned' = returned
      PROVE  Steady(n, more)
  BY <1>2
<1>3. CASE CreateNewBlock(n)
  <2>1. PICK t \in Threads : Truncate(n, t) \/ WriteFile(n, t) \/ PushNext(n, t)
    BY <1>3 DEF CreateNewBlock
  <2>2. Steady(n, more)
    BY <1>2, <2>1 DEF Truncate, WriteFile, PushNext
  <2>3. QED
    BY <2>1, <2>2, TruncateSteady, WriteFileSteady, PushNextSteady
<1>4. CASE Start(n) \/ LoadChain(n)
  <2>1. Steady(n, more)
    BY <1>2, <1>4 DEF Start, LoadChain
  <2>2. QED
    BY <1>4, <2>1, StartSteady, LoadChainSteady
<1>5. CASE StartMining(n) \/ Interrupt(n) \/ CleanBlock(n) \/ Solve(n)
  <2>1. Steady(n, more)
    BY <1>2, <1>5 DEF StartMining, Interrupt, CleanBlock, Solve
  <2>2. QED
    BY <1>5, <2>1, StartMiningSteady, InterruptSteady, CleanBlockSteady, SolveSteady
<1>6. CASE Dangle(n) \/ PropagateBlock(n)
  <2>1. Steady(n, more)
    BY <1>2, <1>6 DEF Dangle, PropagateBlock
  <2>2. QED
    BY <1>6, <2>1, DangleSteady, PropagateBlockSteady
<1>7. CASE \E p \in Payments : Send(n, p)
  <2>1. Steady(n, more)
    BY <1>2, <1>7 DEF Send
  <2>2. QED
    BY <1>7, <2>1, SendSteady
<1>8. CASE \E m \in net : ReceiveBlock(n, m)
  <2>1. Steady(n, more)
    BY <1>2, <1>8 DEF ReceiveBlock
  <2>2. QED
    BY <1>8, <2>1, ReceiveBlockSteady
<1>9. CASE ForceSync(n) \/ MineGenesis(n)
  <2>1. Steady(n, more)
    BY <1>2, <1>9 DEF ForceSync, MineGenesis
  <2>2. QED
    BY <1>9, <2>1, ForceSyncSteady, MineGenesisSteady
<1>10. CASE (\E m \in net : ReceiveBlockTooEarly(n, m)) \/ GenesisAborted(n) \/ Kill(n)
  <2>1. Steady(n, more) /\ Die(n) /\ solved' = solved
    BY <1>2, <1>10 DEF ReceiveBlockTooEarly, GenesisAborted, Kill
  <2>2. QED
    BY <2>1, DieSteady
<1>11. QED
  BY <1>1, <1>3, <1>4, <1>5, <1>6, <1>7, <1>8, <1>9, <1>10

LEMMA StepSheltered ==
  ASSUME TypeOK, Order, NEW n \in Procs, NEW back \in Nat, Steady(n, back),
         Sheltered(n),
         ~raced'[n], Typed(n), Keeps(n),
         \/ Start(n) \/ LoadChain(n) \/ CreateNewBlock(n)
         \/ StartMining(n) \/ Interrupt(n) \/ CleanBlock(n) \/ Solve(n)
         \/ Dangle(n) \/ PropagateBlock(n)
         \/ \E p \in Payments : Send(n, p)
         \/ \E m \in net : \/ ReceiveTransaction(n, m)
                           \/ ReceiveBlock(n, m)
                           \/ ReceiveBlockTooEarly(n, m)
         \/ ForceSync(n) \/ MineGenesis(n) \/ GenesisAborted(n)
         \/ Kill(n)
  PROVE  Sheltered(n)'
<1>1. CASE CreateNewBlock(n)
  BY <1>1, SealSheltered DEF CreateNewBlock
<1>2. CASE Start(n) \/ LoadChain(n)
  BY <1>2, StartSheltered
<1>3. CASE StartMining(n) \/ Interrupt(n) \/ CleanBlock(n) \/ Solve(n) \/ Dangle(n)
  BY <1>3, MiningSheltered
<1>4. CASE PropagateBlock(n)
  BY <1>4, PropagateSheltered
<1>5. CASE (\E p \in Payments : Send(n, p)) \/ (\E m \in net : ReceiveTransaction(n, m))
  BY <1>5, TransactionSheltered
<1>6. CASE \E m \in net : ReceiveBlock(n, m)
  BY <1>6, ReceiveBlockSheltered
<1>7. CASE ForceSync(n) \/ MineGenesis(n)
  BY <1>7, GenesisSheltered
<1>8. CASE (\E m \in net : ReceiveBlockTooEarly(n, m)) \/ GenesisAborted(n) \/ Kill(n)
  BY <1>8, DieSheltered DEF ReceiveBlockTooEarly, GenesisAborted, Kill
<1>9. QED
  BY <1>1, <1>2, <1>3, <1>4, <1>5, <1>6, <1>7, <1>8

LEMMA UnracedInit ==
  ASSUME Init
  PROVE  Unraced
BY ReadableEmpty DEF Init, Unraced, Steady, Boots, Serves, Off, Seals, Starting, Echoes,
   Rooted

\* Steady of what came back, after the step.
LEMMA SteadyThen ==
  ASSUME TypeOK', NEW n \in Procs, NEW more \in Nat, more = returned'[n],
         Steady(n, more)'
  PROVE  (Steady(n, returned[n]))'
BY DEF Steady, Boots, Stands, Serves, At, Tip, Size

LEMMA UnracedNext ==
  ASSUME TypeOK, Order, Unraced, [Next]_vars
  PROVE  Unraced'
<1>1. CASE UNCHANGED vars
  BY <1>1 DEF vars, Unraced, Steady, Boots, Serves, Stands, At, Tip, Size, Echoes, Echo,
     Rooted
<1>2. CASE Next
  <2>1. \A p \in Procs : ~raced'[p] => Steady(p, returned[p]) /\ Sheltered(p)
    BY <1>2, StepRaced, RacedStays DEF Unraced, Sheltered
  <2>2. PICK n \in Procs :
         \/ Start(n) \/ LoadChain(n) \/ CreateNewBlock(n)
         \/ StartMining(n) \/ Interrupt(n) \/ CleanBlock(n) \/ Solve(n)
         \/ Dangle(n) \/ PropagateBlock(n)
         \/ \E p \in Payments : Send(n, p)
         \/ \E m \in net : \/ ReceiveTransaction(n, m)
                           \/ ReceiveBlock(n, m)
                           \/ ReceiveBlockTooEarly(n, m)
         \/ ForceSync(n) \/ MineGenesis(n) \/ GenesisAborted(n)
         \/ Kill(n)
    BY <1>2 DEF Next
  <2>3. Typed(n) /\ Keeps(n)
    BY <2>2, StepOrder
  <2>4. /\ TypeOK' /\ \A p \in Procs : returned[p] \in Nat /\ returned'[p] \in Nat
    BY <2>3 DEF Typed, TypeOK
  <2>5. ASSUME ~raced'[n]
        PROVE  (Steady(n, returned[n]))' /\ Sheltered(n)'
    <3>1. PICK more \in Nat : more = returned'[n]
      BY <2>4
    <3>2. Steady(n, more)'
      BY <2>1, <2>2, <2>5, <3>1, StepSteady DEF Sheltered
    <3>3. Sheltered(n)'
      BY <2>1, <2>2, <2>3, <2>4, <2>5, StepSheltered
    <3>4. QED
      BY <2>4, <3>1, <3>2, <3>3, SteadyThen
  <2>6. ASSUME NEW p \in Procs \ {n}, ~raced'[p]
        PROVE  (Steady(p, returned[p]))' /\ Sheltered(p)'
    <3>1. PICK back \in Nat : back = returned[p]
      BY <2>4
    <3>2. Growing /\ Others(n) /\ returned'[p] = back
      BY <2>3, <3>1 DEF Typed, Keeps, Others
    <3>3. Steady(p, back)'
      BY <2>1, <2>6, <3>1, <3>2, OthersSteady
    <3>4. Sheltered(p)'
      BY <2>1, <2>2, <2>6, <3>2, StepNet, OthersSheltered
    <3>5. QED
      BY <2>4, <3>2, <3>3, <3>4, SteadyThen
  <2>7. QED
    BY <2>5, <2>6 DEF Unraced, Sheltered
<1>3. QED
  BY <1>1, <1>2

Inv == TypeOK /\ Order /\ Unraced

\* What every reachable state is like, as one invariant that is inductive: types,
\* the order of the steps, and the state of a process whose threads have not raced.
THEOREM InvTheorem == Spec => []Inv
<1>1. Init => Inv
  BY OrderInit, UnracedInit DEF Inv
<1>2. Inv /\ [Next]_vars => Inv'
  BY OrderNext, UnracedNext DEF Inv
<1>3. QED
  BY <1>1, <1>2, PTL DEF Spec

\* A chain that is started, saved or used is one of blocks that follow one
\* another, with at most a pending one at the end.
LEMMA SealedOne ==
  ASSUME NEW back \in Nat, TypeOK, Order, NEW n \in Procs, Steady(n, back)
  PROVE  /\ \A i \in DOMAIN chain[n] : i > 1 =>
              /\ chain[n][i].depth = i - 1
              /\ chain[n][i - 1].valid /\ chain[n][i].prev = chain[n][i - 1].id
         /\ \A i \in Sealed(n) : Genuine(solved, n, chain[n][i], i = 1)
         /\ get_funds(chain[n], n) >= - Reward - back
<1>1. Process(n) /\ solved \in Histories /\ chain[n] \in Seq(Blocks) /\ pc[n] \in Pcs
  BY DEF Order, TypeOK, Histories, Pcs
<1>2. CASE chain[n] = <<>>
  BY <1>2, FundsEmpty, RewardAssumption DEF Sealed
<1>3. CASE pc[n].ui \in Seals /\ chain[n] # <<>>
  <2> DEFINE s == chain[n]
  <2>1. Closed(solved, n, back, s) /\ s \in Seq(Blocks)
    BY <1>1, <1>3 DEF Steady, Boots
  <2> HIDE DEF s
  <2>2. \A i \in DOMAIN s : Genuine(solved, n, s[i], i = 1) /\ Linked(s, i)
    BY <2>1 DEF Closed
  <2>3. get_funds(s, n) >= - Reward - back
    BY <2>1, ClosedSolvent DEF Solvent
  <2>4. ASSUME NEW i \in DOMAIN s, i > 1
        PROVE  s[i].depth = i - 1 /\ s[i - 1].valid /\ s[i].prev = s[i - 1].id
    <3>1. i - 1 \in DOMAIN s
      BY <2>1, <2>4
    <3>2. QED
      BY <2>2, <2>4, <3>1 DEF Linked, Genuine
  <2>5. QED
    BY <2>2, <2>3, <2>4 DEF Sealed, s
<1>4. CASE pc[n].ui \notin Seals /\ chain[n] # <<>>
  <2> DEFINE f == Front(chain[n])
      b == Tip(n)
      s == Append(f, b)
  <2>1. /\ f \in Seq(Blocks) /\ b \in Blocks /\ chain[n] = s /\ b.txs \in Seq(Tx)
    BY <1>4, ChainParts
  <2>2. Stands(n, back)
    BY <1>1, <1>4, Running DEF Process, Starting, Seals
  <2>3. Upright(solved, n, back, f, b, pc[n], file[n], snap[n])
    BY <1>4, <2>2 DEF Stands
  <2> HIDE DEF f, b
  <2>4. /\ Len(s) = Len(f) + 1 /\ Len(f) \in Nat /\ DOMAIN s = 1..Len(f) + 1 /\ s[Len(f) + 1] = b
        /\ DOMAIN f = 1..Len(f) /\ (\A i \in 1..Len(f) : s[i] = f[i])
        /\ (f = <<>> <=> Len(f) = 0)
    BY <2>1
  <2> HIDE DEF s
  <2>5. /\ Closed(solved, n, back, f) /\ Ends(f, b)
        /\ b.valid => Genuine(solved, n, b, f = <<>>) /\ Solvent(n, back, s)
    BY <2>3 DEF Upright, Chained, s
  <2>6. ASSUME NEW i \in DOMAIN s, i > 1
        PROVE  s[i].depth = i - 1 /\ s[i - 1].valid /\ s[i].prev = s[i - 1].id
    <3>1. i - 1 \in DOMAIN f /\ f[i - 1].valid /\ s[i - 1] = f[i - 1]
      BY <2>4, <2>5, <2>6 DEF Closed, Genuine
    <3>2. CASE i = Len(f) + 1
      BY <2>4, <2>5, <2>6, <3>1, <3>2 DEF Ends
    <3>3. CASE i # Len(f) + 1
      <4>1. i \in DOMAIN f /\ s[i] = f[i]
        BY <2>4, <3>3
      <4>2. Linked(f, i)
        BY <2>5, <4>1 DEF Closed
      <4>3. QED
        BY <2>6, <3>1, <4>1, <4>2 DEF Linked
    <3>4. QED
      BY <3>2, <3>3
  <2>7. ASSUME NEW i \in DOMAIN s, s[i].valid
        PROVE  Genuine(solved, n, s[i], i = 1)
    <3>1. CASE i = Len(f) + 1
      <4>1. (i = 1) = (f = <<>>)
        BY <2>4, <3>1
      <4>2. QED
        BY <2>4, <2>5, <2>7, <3>1, <4>1
    <3>2. CASE i # Len(f) + 1
      <4>1. i \in DOMAIN f /\ s[i] = f[i]
        BY <2>4, <3>2
      <4>2. QED
        BY <2>5, <4>1 DEF Closed
    <3>3. QED
      BY <3>1, <3>2
  <2>8. get_funds(s, n) >= - Reward - back
    <3>1. CASE b.valid
      BY <2>5, <3>1 DEF Solvent
    <3>2. CASE ~b.valid
      <4> DEFINE w == Income(WithoutRewards(b.txs), n)
          x == Income(b.txs, n)
      <4>1. get_funds(s, n) = get_funds(f, n) + x
        BY <2>1, FundsAppend DEF s
      <4>2. w \in Int /\ x \in Int /\ get_funds(f, n) \in Int
        BY <2>1, FundsType, IncomeType, WithoutRewardsType
      <4>3. x = w + Reward \/ x = w
        <5>1. CASE pc[n].miner \in Mined
          BY <2>3, <5>1 DEF Upright, Pays
        <5>2. CASE pc[n].miner \notin Mined
          <6>1. Bare(b)
            BY <2>3, <3>2, <5>2 DEF Upright, Pays
          <6>2. QED
            BY <2>1, <6>1, BareWhole
        <5>3. QED
          BY <5>1, <5>2
      <4>4. get_funds(f, n) + w >= - Reward - back
        BY <2>3, <3>2 DEF Upright, Pays
      <4> HIDE DEF w, x
      <4>5. QED
        BY <4>1, <4>2, <4>3, <4>4, RewardAssumption
    <3>3. QED
      BY <3>1, <3>2
  <2>9. QED
    BY <2>1, <2>6, <2>7, <2>8 DEF Sealed
<1>5. QED
  BY <1>2, <1>3, <1>4

\* The blocks of a process whose threads have not raced follow one another, and
\* the sealed ones say what was hashed, but for a first block that is a copy of
\* a peer's: whatever was mined, sent, killed or given up on the way.
THEOREM SealedTheorem == Spec => []SealedChain
<1>1. Inv => SealedChain
  <2>1. SUFFICES ASSUME Inv, NEW n \in Procs, ~raced[n]
        PROVE  /\ \A i \in DOMAIN chain[n] : i > 1 =>
                    /\ chain[n][i].depth = i - 1
                    /\ chain[n][i - 1].valid /\ chain[n][i].prev = chain[n][i - 1].id
               /\ \A i \in Sealed(n) :
                    \/ Validates(chain[n][i])
                    \/ i = 1 /\ solved[chain[n][i].id].by # n /\ chain[n][i].txs = <<>>
    BY DEF SealedChain
  <2>2. TypeOK /\ Order /\ Steady(n, returned[n]) /\ returned[n] \in Nat
    BY <2>1 DEF Inv, Unraced, TypeOK
  <2>3. \A i \in Sealed(n) : Genuine(solved, n, chain[n][i], i = 1)
    BY <2>2, SealedOne
  <2>4. \A i \in Sealed(n) :
          \/ Validates(chain[n][i])
          \/ i = 1 /\ solved[chain[n][i].id].by # n /\ chain[n][i].txs = <<>>
    BY <2>3 DEF Genuine, Says, Validates
  <2>5. QED
    BY <2>2, <2>4, SealedOne
<1>2. QED
  BY <1>1, InvTheorem, PTL

\* An entry of the file of such a process that does not load is one of the three
\* kinds FileLoads lists: a save that was cut short, a transaction that came
\* twice, a peer's block without its transactions.
THEOREM FileTheorem == Spec => []FileLoads
<1>1. Inv => FileLoads
  <2>1. SUFFICES ASSUME Inv, NEW n \in Procs, ~raced[n], NEW i \in DOMAIN file[n]
        PROVE  \/ Validates(file[n][i])
               \/ file[n][i] = Torn /\ i = Len(file[n])
               \/ Repeats(solved[file[n][i].id].header.txs)
               \/ i = 1 /\ solved[file[n][i].id].by # n
                       /\ solved[file[n][i].id].header.txs # <<>>
    BY DEF FileLoads
  <2> DEFINE e == file[n][i]
      d == solved[e.id].header
  <2>2. Entry(solved, n, file[n], i)
    BY <2>1 DEF Inv, Unraced, Steady, Readable
  <2>3. SUFFICES ASSUME e # Torn \/ i # Len(file[n])
        PROVE  \/ Validates(e) \/ Repeats(d.txs)
               \/ i = 1 /\ solved[e.id].by # n /\ d.txs # <<>>
    OBVIOUS
  <2>4. /\ e.id \in DOMAIN solved /\ d.depth = e.depth /\ d.prev = e.prev
        /\ e.txs = Once(d.txs) \/ (i = 1 /\ solved[e.id].by # n /\ e.txs = <<>>)
    BY <2>2, <2>3 DEF Entry
  <2>5. d \in Headers
    <3> DEFINE R == [by : Procs, header : Headers]
        k == e.id
    <3>1. k \in DOMAIN solved /\ solved \in Seq(R)
      BY <2>1, <2>4 DEF Inv, TypeOK
    <3> HIDE DEF R, k
    <3>2. solved[k] \in R
      BY <3>1
    <3>3. QED
      BY <3>2 DEF R, k
  <2> HIDE DEF d
  <2>6. ASSUME e.txs = d.txs
        PROVE  Validates(e)
    <3>1. d = Header(e)
      BY <2>4, <2>5, <2>6 DEF Headers, Header
    <3>2. QED
      BY <2>4, <3>1 DEF Validates, d
  <2>7. QED
    BY <2>4, <2>6 DEF Repeats
<1>2. QED
  BY <1>1, InvTheorem, PTL

\* No user whose threads have not raced spends more than one reward they do not
\* have, and what their own server added of their payments a second time: however
\* often they start and interrupt the mining between payments, and whoever lists
\* themselves.
THEOREM OverdraftTheorem == Spec => []OverdraftBounded
<1>1. Inv => OverdraftBounded
  <2>1. SUFFICES ASSUME Inv, NEW n \in Procs, ~raced[n]
                 PROVE  get_funds(chain[n], n) >= - Reward - returned[n]
    BY DEF OverdraftBounded
  <2>2. TypeOK /\ Order /\ Steady(n, returned[n]) /\ returned[n] \in Nat
    BY <2>1 DEF Inv, Unraced, TypeOK
  <2>3. QED
    BY <2>2, SealedOne
<1>2. QED
  BY <1>1, InvTheorem, PTL
-----------------------------------------------------------------------------
(***************************************************************************)
(* Chain implements Ledger: what a step does to the ledger of the process  *)
(* that takes it.                                                          *)
(***************************************************************************)
\* What precedes the last block of a chain.
Fronts(s) == IF s = <<>> THEN <<>> ELSE Ids(Front(s))

\* A block that may be put at the end of the ledger of n.
Suits(n, b) ==
  LedgerOf(n) # <<>> =>
    solved[b].by = n /\ solved[b].header.prev = LedgerOf(n)[Len(LedgerOf(n))]

Gaining(n) ==
  \E b \in DOMAIN solved : Suits(n, b) /\ LedgerOf(n)' = Append(LedgerOf(n), b)

Losing(n) ==
  /\ \E t \in Threads : At(n, t, "write")
  /\ \E k \in 0..Len(LedgerOf(n)) : LedgerOf(n)' = SubSeq(LedgerOf(n), 1, k)

Making(n) ==
  /\ LedgerOf(n)' = LedgerOf(n)
  /\ \E b \in Blocks : b.prev \in 0..Len(solved) /\ Mine(n, b)

Refines(n) ==
  \/ Making(n)
  \/ /\ solved' = solved
     /\ \/ raced'[n]
        \/ LedgerOf(n)' = LedgerOf(n)
        \/ Gaining(n)
        \/ Len(LedgerOf(n)) <= 1 /\ LedgerOf(n)' = <<>>
        \/ Losing(n)

LEMMA IdsHome ==
  ASSUME NEW h \in Histories, NEW n, NEW s \in Seq(Blocks), Home(h, n, s)
  PROVE  Ids(s) \in Seq(1..Len(h))
<1>1. Ids(s) \in Seq(Nat)
  BY IdsType
<1>2. \A k \in DOMAIN Ids(s) : Ids(s)[k] \in 1..Len(h)
  <2>1. TAKE k \in DOMAIN Ids(s)
  <2>2. PICK i \in DOMAIN s : s[i].id # NoBlock /\ Ids(s)[k] = s[i].id
    BY IdsFrom
  <2>3. s[i].id \in 0..Len(h)
    BY DEF Home, Held
  <2>4. Len(h) \in Nat
    BY DEF Histories
  <2>5. QED
    BY <2>2, <2>3, <2>4 DEF NoBlock
<1> DEFINE r == Ids(s)
    N == 1..Len(h)
<1> HIDE DEF r
<1>3. r \in [1..Len(r) -> N] /\ Len(r) \in Nat
  BY <1>1, <1>2 DEF r
<1> HIDE DEF N
<1>4. r \in Seq(N)
  BY <1>3
<1>5. QED
  BY <1>4 DEF r, N

LEMMA LedgerServes ==
  ASSUME NEW n, Serves(n)
  PROVE  LedgerOf(n) = Fronts(chain[n])
BY DEF LedgerOf, Serves, Starting, Fronts

\* A ledger is of blocks that were mined.
LEMMA LedgerIds ==
  ASSUME NEW h \in Histories, NEW n, NEW s \in Seq(Blocks), Home(h, n, s)
  PROVE  Ids(s) \in Seq(1..Len(h)) /\ Fronts(s) \in Seq(1..Len(h))
<1>1. CASE s = <<>>
  <2>1. <<>> \in Seq(1..Len(h))
    OBVIOUS
  <2>2. QED
    BY <1>1, <2>1, IdsHome DEF Fronts
<1>2. CASE s # <<>>
  <2>1. Front(s) \in Seq(Blocks) /\ Home(h, n, Front(s))
    BY <1>2, FrontAndTip, HomeFront
  <2>2. QED
    BY <1>2, <2>1, IdsHome DEF Fronts
<1>3. QED
  BY <1>1, <1>2

LEMMA SameFronts ==
  ASSUME TypeOK, NEW n \in Procs, NEW b \in Blocks, SetCurrent(n, b)
  PROVE  Fronts(chain'[n]) = Fronts(chain[n])
<1>1. CASE chain[n] = <<>>
  BY <1>1, SetCurrentEffect
<1>2. CASE chain[n] # <<>>
  <2>1. Front(chain[n]) \in Seq(Blocks) /\ chain'[n] = Append(Front(chain[n]), b)
    BY <1>2, SetCurrentEffect, ChainParts
  <2>2. chain'[n] # <<>> /\ Front(chain'[n]) = Front(chain[n])
    BY <2>1, FrontOfAppend
  <2>3. QED
    BY <1>2, <2>2 DEF Fronts
<1>3. QED
  BY <1>1, <1>2

LEMMA SameLedger ==
  ASSUME NEW n, Serves(n), Serves(n)', Fronts(chain'[n]) = Fronts(chain[n])
  PROVE  LedgerOf(n)' = LedgerOf(n)
BY LedgerServes DEF LedgerOf, Serves, Starting, Fronts

LEMMA CutIds ==
  ASSUME NEW back \in Nat, NEW h \in Histories, NEW n, NEW s \in Seq(Blocks),
         Closed(h, n, back, s),
         NEW k \in 0..Len(s)
  PROVE  /\ Ids(SubSeq(Dump(s), 1, k)) = SubSeq(Ids(s), 1, k)
         /\ Ids(Append(SubSeq(Dump(s), 1, k), Torn)) = SubSeq(Ids(s), 1, k)
         /\ Len(Ids(s)) = Len(s)
<1> DEFINE d == Dump(s)
    p == SubSeq(d, 1, k)
    x == Ids(s)
    y == SubSeq(x, 1, k)
<1>1. /\ d \in Seq(Blocks) /\ Len(d) = Len(s) /\ Len(s) \in Nat
      /\ \A i \in DOMAIN s : d[i].id = s[i].id
  BY DumpClosed
<1>2. \A i \in DOMAIN s : s[i].id # NoBlock
  BY ClosedFields
<1>3. x \in Seq(Nat) /\ Len(x) = Len(s) /\ \A i \in DOMAIN s : x[i] = s[i].id
  BY <1>2, IdsAll
<1> HIDE DEF d, x
<1>4. p \in Seq(Blocks) /\ Len(p) = k /\ \A i \in 1..k : p[i] = d[i]
  BY <1>1, Prefix
<1>5. y \in Seq(Nat) /\ Len(y) = k /\ \A i \in 1..k : y[i] = x[i]
  <2> DEFINE N == Nat
  <2>1. x \in Seq(N) /\ k \in 0..Len(x)
    BY <1>3
  <2> HIDE DEF N
  <2>2. SubSeq(x, 1, k) \in Seq(N) /\ Len(SubSeq(x, 1, k)) = k
        /\ \A i \in 1..k : SubSeq(x, 1, k)[i] = x[i]
    BY <2>1, Prefix
  <2>3. QED
    BY <2>2 DEF N
<1> HIDE DEF p, y
<1>6. \A i \in 1..k : i \in DOMAIN s
  BY <1>1
<1>7. DOMAIN p = 1..k
  BY <1>1, <1>4
<1>8. \A i \in DOMAIN p : p[i].id # NoBlock
  BY <1>1, <1>2, <1>4, <1>6, <1>7
<1>9. Ids(p) \in Seq(Nat) /\ Len(Ids(p)) = k /\ \A i \in 1..k : Ids(p)[i] = p[i].id
  BY <1>4, <1>7, <1>8, IdsAll
<1>10. \A i \in 1..Len(y) : Ids(p)[i] = y[i]
  BY <1>1, <1>3, <1>4, <1>5, <1>6, <1>9
<1>11. Ids(p) = y
  <2> DEFINE q == Ids(p)
  <2>1. q \in Seq(Nat) /\ Len(q) = Len(y) /\ \A i \in 1..Len(q) : q[i] = y[i]
    BY <1>5, <1>9, <1>10
  <2> HIDE DEF q
  <2>2. q = y
    BY <1>5, <2>1, SeqEqual
  <2>3. QED
    BY <2>2 DEF q
<1>12. Ids(Append(p, Torn)) = Ids(p)
  BY <1>4, TornType, IdsAppend DEF Torn, PendingBlock
<1>13. QED
  BY <1>3, <1>11, <1>12 DEF p, y, d, x

\* The last of the sealed blocks has the last id, and follows the others.
LEMMA LastSuits ==
  ASSUME NEW back \in Nat, NEW h \in Histories, NEW n, NEW f \in Seq(Blocks),
         NEW b \in Blocks,
         Closed(h, n, back, Append(f, b))
  PROVE  /\ b.id \in DOMAIN h /\ b.id # NoBlock /\ b.valid
         /\ \A i \in DOMAIN f : f[i].id # NoBlock
<1> DEFINE s == Append(f, b)
<1>1. /\ s \in Seq(Blocks) /\ Len(s) = Len(f) + 1 /\ s[Len(f) + 1] = b
      /\ DOMAIN f = 1..Len(f) /\ Len(f) \in Nat /\ \A i \in 1..Len(f) : s[i] = f[i]
  OBVIOUS
<1> HIDE DEF s
<1>2. DOMAIN s = 1..Len(f) + 1 /\ Len(f) + 1 \in DOMAIN s
  BY <1>1
<1>3. Closed(h, n, back, s)
  BY DEF s
<1>4. \A i \in DOMAIN s : s[i].valid /\ s[i].id \in DOMAIN h /\ s[i].id # NoBlock
  BY <1>1, <1>3, ClosedFields
<1>5. b.id \in DOMAIN h /\ b.id # NoBlock /\ b.valid
  BY <1>1, <1>2, <1>4
<1>6. \A i \in DOMAIN f : f[i].id # NoBlock
  BY <1>1, <1>2, <1>4
<1>7. QED
  BY <1>5, <1>6

LEMMA LastIds ==
  ASSUME NEW f \in Seq(Blocks), NEW b \in Blocks, b.id # NoBlock,
         \A i \in DOMAIN f : f[i].id # NoBlock
  PROVE  /\ Ids(Append(f, b)) = Append(Ids(f), b.id)
         /\ Ids(f) \in Seq(Nat) /\ Len(Ids(f)) = Len(f)
         /\ \A i \in DOMAIN f : Ids(f)[i] = f[i].id
<1>1. Ids(f) \in Seq(Nat) /\ Len(Ids(f)) = Len(f) /\ \A i \in DOMAIN f : Ids(f)[i] = f[i].id
  BY IdsAll
<1>2. Ids(Append(f, b)) = Append(Ids(f), b.id)
  BY IdsAppend
<1>3. QED
  BY <1>1, <1>2

LEMMA LastFollows ==
  ASSUME NEW back \in Nat, NEW h \in Histories, NEW n, NEW f \in Seq(Blocks),
         NEW b \in Blocks,
         Closed(h, n, back, Append(f, b)), Home(h, n, Append(f, b)), Ids(f) # <<>>
  PROVE  h[b.id].by = n /\ h[b.id].header.prev = Ids(f)[Len(Ids(f))]
<1> DEFINE s == Append(f, b)
<1>1. /\ s \in Seq(Blocks) /\ Len(s) = Len(f) + 1 /\ s[Len(f) + 1] = b
      /\ DOMAIN f = 1..Len(f) /\ Len(f) \in Nat /\ \A i \in 1..Len(f) : s[i] = f[i]
  OBVIOUS
<1> HIDE DEF s
<1>2. Ids(f) \in Seq(Nat) /\ Len(Ids(f)) = Len(f) /\ b.valid
      /\ \A i \in DOMAIN f : Ids(f)[i] = f[i].id
  <2>1. b.id # NoBlock /\ b.valid /\ \A i \in DOMAIN f : f[i].id # NoBlock
    BY LastSuits
  <2>2. QED
    BY <2>1, LastIds
<1>3. DOMAIN s = 1..Len(f) + 1 /\ Len(f) + 1 \in DOMAIN s
  BY <1>1
<1>4. Closed(h, n, back, s) /\ Home(h, n, s)
  BY DEF s
<1>5. f # <<>>
  BY IdsEmpty
<1>6. Len(f) \in 1..Len(f) /\ Len(f) + 1 > 1
  BY <1>1, <1>5
<1>7. Says(h, b) /\ b.prev = s[Len(f)].id
  <2>1. Genuine(h, n, s[Len(f) + 1], Len(f) + 1 = 1) /\ Linked(s, Len(f) + 1)
    BY <1>3, <1>4 DEF Closed
  <2>2. (Len(f) + 1 = 1) = FALSE /\ Len(f) + 1 - 1 = Len(f)
    BY <1>1, <1>6
  <2>3. QED
    BY <1>1, <1>6, <2>1, <2>2 DEF Genuine, Linked
<1>8. h[b.id].by = n
  BY <1>1, <1>2, <1>3, <1>4, <1>6 DEF Home
<1>9. h[b.id].header.prev = b.prev
  BY <1>7 DEF Says, Header
<1>10. QED
  BY <1>1, <1>2, <1>6, <1>7, <1>8, <1>9
\* A sealed chain becomes the ledger.
LEMMA GainChain ==
  ASSUME NEW back \in Nat, TypeOK, Order, NEW n \in Procs, chain[n] # <<>>,
         Closed(solved, n, back, chain[n]),
         LedgerOf(n) = Ids(Front(chain[n])), LedgerOf(n)' = Ids(chain[n])
  PROVE  Gaining(n)
<1> DEFINE f == Front(chain[n])
    b == Tip(n)
<1>1. f \in Seq(Blocks) /\ b \in Blocks /\ chain[n] = Append(f, b)
  BY ChainParts
<1>2. solved \in Histories /\ Home(solved, n, chain[n])
  BY DEF TypeOK, Histories, Order, Process
<1> HIDE DEF f, b
<1>3. Closed(solved, n, back, Append(f, b)) /\ Home(solved, n, Append(f, b))
  BY <1>1, <1>2
<1>4. Ids(chain[n]) = Append(Ids(f), b.id) /\ b.id \in DOMAIN solved
  <2>1. b.id \in DOMAIN solved /\ b.id # NoBlock /\ \A i \in DOMAIN f : f[i].id # NoBlock
    BY <1>1, <1>2, <1>3, LastSuits
  <2>2. Ids(Append(f, b)) = Append(Ids(f), b.id)
    BY <1>1, <2>1, LastIds
  <2>3. QED
    BY <1>1, <2>1, <2>2
<1>5. ASSUME Ids(f) # <<>>
      PROVE  solved[b.id].by = n /\ solved[b.id].header.prev = Ids(f)[Len(Ids(f))]
  BY <1>1, <1>2, <1>3, <1>5, LastFollows
<1>6. LedgerOf(n) = Ids(f)
  BY DEF f
<1>7. QED
  BY <1>4, <1>5, <1>6 DEF Gaining, Suits

\* What a process that dies leaves: its ledger, the start of it, or one block
\* more when it died between the file and the next pending block.
LEMMA DieRefines ==
  ASSUME NEW back \in Nat, TypeOK, Order, NEW n \in Procs, Steady(n, back), Die(n),
         solved' = solved
  PROVE  Refines(n)
<1>1. /\ pc'[n] = Off /\ file'[n] \in Remains(n) /\ LedgerOf(n)' = Ids(file'[n])
  BY DieEffect DEF LedgerOf, Off
<1>2. solved \in Histories /\ chain[n] \in Seq(Blocks) /\ pc[n] \in Pcs
  BY DEF TypeOK, Histories, Pcs
<1>3. CASE \E t \in Threads : pc[n][t] = "write"
  <2>1. PICK t \in Threads : pc[n][t] = "write"
    BY <1>3
  <2>2. chain[n] # <<>> /\ file[n] = <<>>
    BY <2>1, SealsChain DEF Seals
  <2>3. Closed(solved, n, back, chain[n])
    BY <2>1, <2>2, SealsChain DEF Seals
  <2>4. \A o \in Threads : At(n, o, "write") => snap[n][o] = Dump(chain[n])
    BY <2>2, SealsChain DEF Seals, At
  <2>5. Len(Dump(chain[n])) = Len(chain[n]) /\ Len(chain[n]) \in Nat
    BY <1>2, <2>3, DumpClosed
  <2>6. PICK k \in 0..Len(chain[n]) : Ids(file'[n]) = SubSeq(Ids(chain[n]), 1, k)
    <3>1. CASE file'[n] = <<>>
      <4>1. Ids(SubSeq(Dump(chain[n]), 1, 0)) = SubSeq(Ids(chain[n]), 1, 0) /\ 0 \in 0..Len(chain[n])
        BY <1>2, <2>3, <2>5, CutIds
      <4>2. SubSeq(Ids(chain[n]), 1, 0) = <<>>
        OBVIOUS
      <4>3. QED
        BY <3>1, <4>1, <4>2, IdsEmpty
    <3>2. CASE file'[n] # <<>>
      <4>1. PICK o \in Threads : /\ At(n, o, "write")
              /\ \E k \in 0..Len(snap[n][o]) :
                   \/ file'[n] = SubSeq(snap[n][o], 1, k)
                   \/ file'[n] = Append(SubSeq(snap[n][o], 1, k), Torn)
        BY <1>1, <2>2, <3>2, RemainsForm
      <4>2. snap[n][o] = Dump(chain[n])
        BY <2>4, <4>1
      <4>3. PICK k \in 0..Len(chain[n]) :
                   \/ file'[n] = SubSeq(Dump(chain[n]), 1, k)
                   \/ file'[n] = Append(SubSeq(Dump(chain[n]), 1, k), Torn)
        BY <2>5, <4>1, <4>2
      <4>4. QED
        BY <1>2, <2>3, <4>3, CutIds
    <3>3. QED
      BY <3>1, <3>2
  <2>7. Ids(chain[n]) \in Seq(Nat) /\ Len(Ids(chain[n])) = Len(chain[n])
    BY <1>2, <2>3, <2>5, CutIds, IdsType
  <2>8. CASE t = "ui"
    <3>1. LedgerOf(n) = Ids(chain[n])
      BY <2>1, <2>8 DEF LedgerOf, Serves, Starting
    <3>2. k \in 0..Len(LedgerOf(n))
      BY <2>7, <3>1
    <3>3. QED
      BY <1>1, <2>1, <2>6, <3>1, <3>2 DEF Refines, Losing, At
  <2>9. CASE t # "ui"
    <3> DEFINE f == Front(chain[n])
        b == Tip(n)
    <3>1. Serves(n)
      BY <2>1, <2>9, Running DEF Threads
    <3>2. LedgerOf(n) = Ids(f)
      BY <2>2, <3>1, LedgerServes DEF Fronts
    <3>3. f \in Seq(Blocks) /\ b \in Blocks /\ chain[n] = Append(f, b) /\ Len(chain[n]) = Len(f) + 1
      BY <2>2, ChainParts DEF Size
    <3>4. Home(solved, n, chain[n])
      BY DEF Order, Process
    <3> HIDE DEF f, b
    <3>5. Closed(solved, n, back, Append(f, b)) /\ Home(solved, n, Append(f, b))
      BY <2>3, <3>3, <3>4
    <3>6. /\ Ids(chain[n]) = Append(Ids(f), b.id) /\ b.id \in DOMAIN solved
          /\ Ids(f) \in Seq(Nat) /\ Len(Ids(f)) = Len(f)
      <4>1. b.id \in DOMAIN solved /\ b.id # NoBlock /\ \A i \in DOMAIN f : f[i].id # NoBlock
        BY <1>2, <3>3, <3>5, LastSuits
      <4>2. /\ Ids(Append(f, b)) = Append(Ids(f), b.id)
            /\ Ids(f) \in Seq(Nat) /\ Len(Ids(f)) = Len(f)
        BY <3>3, <4>1, LastIds
      <4>3. QED
        BY <3>3, <4>1, <4>2
    <3>7. CASE k = Len(chain[n])
      <4>1. LedgerOf(n)' = Ids(chain[n])
        <5> DEFINE x == Ids(chain[n])
            N == Nat
        <5>1. x \in Seq(N) /\ k = Len(x) /\ LedgerOf(n)' = SubSeq(x, 1, k)
          BY <1>1, <2>6, <2>7, <3>7
        <5> HIDE DEF x, N
        <5>2. QED
          BY <5>1, WholePrefix DEF x
      <4>2. Gaining(n)
        BY <2>2, <2>3, <3>2, <4>1, GainChain DEF f
      <4>3. QED
        BY <4>2 DEF Refines
    <3>8. CASE k # Len(chain[n])
      <4>1. k \in 0..Len(Ids(f))
        BY <2>5, <3>3, <3>6, <3>8
      <4>2. SubSeq(Append(Ids(f), b.id), 1, k) = SubSeq(Ids(f), 1, k)
        <5> DEFINE x == Ids(f)
            y == b.id
            N == Nat
        <5>1. x \in Seq(N) /\ y \in N /\ k \in 0..Len(x)
          BY <3>3, <3>6, <4>1 DEF Blocks
        <5> HIDE DEF x, y, N
        <5>2. SubSeq(Append(x, y), 1, k) = SubSeq(x, 1, k)
          BY <5>1, PrefixOfAppend
        <5>3. QED
          BY <5>2 DEF x, y
      <4>3. LedgerOf(n)' = SubSeq(LedgerOf(n), 1, k) /\ k \in 0..Len(LedgerOf(n))
        BY <1>1, <2>6, <3>2, <3>6, <4>1, <4>2
      <4>4. QED
        BY <2>1, <4>3 DEF Refines, Losing, At
    <3>9. QED
      BY <3>7, <3>8
  <2>10. QED
    BY <2>8, <2>9
<1>4. CASE \A t \in Threads : pc[n][t] # "write"
  <2>1. file'[n] = file[n]
    BY <1>1, <1>4, RemainsForm DEF At
  <2>2. CASE pc[n].ui \in {"down", "boot", "seal"}
    BY <1>1, <2>1, <2>2 DEF Refines, LedgerOf, Serves, Starting
  <2>3. CASE pc[n].ui = "push"
    <3>1. Ids(file[n]) = Ids(chain[n])
      BY <2>3 DEF Steady, Boots, Seals, At
    <3>2. QED
      BY <1>1, <2>1, <2>3, <3>1 DEF Refines, LedgerOf, Serves, Starting
  <2>4. CASE pc[n].ui \notin {"down", "boot", "seal", "write", "push"}
    <3>1. Serves(n) /\ Stands(n, back)
      BY <1>2, <2>4, Running DEF Starting
    <3>2. CASE chain[n] = <<>>
      <4>1. file[n] = <<>> /\ LedgerOf(n) = <<>>
        BY <3>1, <3>2, LedgerServes DEF Stands, Fronts
      <4>2. QED
        BY <1>1, <2>1, <4>1, IdsEmpty DEF Refines
    <3>3. CASE chain[n] # <<>>
      <4>1. LedgerOf(n) = Ids(Front(chain[n]))
        BY <3>1, <3>3, LedgerServes DEF Fronts
      <4>2. CASE \E t \in {"net", "miner"} : pc[n][t] = "push"
        <5>1. PICK t \in {"net", "miner"} : pc[n][t] = "push"
          BY <4>2
        <5>2. t \in Threads /\ pc[n][t] \in Seals
          BY <5>1 DEF Threads, Seals
        <5>3. Ids(file[n]) = Ids(chain[n]) /\ Closed(solved, n, back, chain[n])
          BY <3>3, <5>1, <5>2, SealsChain
        <5>4. LedgerOf(n)' = Ids(chain[n])
          BY <1>1, <2>1, <5>3
        <5>5. QED
          BY <3>3, <4>1, <5>3, <5>4, GainChain DEF Refines
      <4>3. CASE \A t \in {"net", "miner"} : pc[n][t] # "push"
        <5>1. {pc[n].net, pc[n].miner} \cap {"write", "push"} = {}
          BY <1>4, <4>3 DEF Threads
        <5>2. Ids(file[n]) = Ids(Front(chain[n]))
          BY <3>1, <3>3, <5>1 DEF Stands, Upright, Stored
        <5>3. QED
          BY <1>1, <2>1, <4>1, <5>2 DEF Refines
      <4>4. QED
        BY <4>2, <4>3
    <3>4. QED
      BY <3>2, <3>3
  <2>5. QED
    BY <1>4, <2>2, <2>3, <2>4 DEF Threads
<1>5. QED
  BY <1>3, <1>4
\* Steps of a process that serves, and that leave what precedes the last block.
LEMMA FrontsRefines ==
  ASSUME TypeOK, NEW n \in Procs, Serves(n), Serves(n)', solved' = solved,
         \/ chain'[n] = chain[n]
         \/ \E b \in Blocks : SetCurrent(n, b)
  PROVE  Refines(n)
<1>1. Fronts(chain'[n]) = Fronts(chain[n])
  BY SameFronts
<1>2. QED
  BY <1>1, SameLedger DEF Refines

LEMMA StartRefines ==
  ASSUME TypeOK, NEW n \in Procs, Start(n)
  PROVE  Refines(n)
<1>1. pc[n].ui = "down" /\ file' = file /\ solved' = solved
  BY DEF Start, At
<1>2. pc'[n].ui = "boot"
  BY GoEffect DEF Start, Threads, UiPcs, Starting
<1>3. QED
  BY <1>1, <1>2 DEF Refines, LedgerOf, Serves, Starting

\* The genesis block a process makes at its start is not in its ledger yet.
LEMMA LoadChainRefines ==
  ASSUME NEW back \in Nat, TypeOK, Order, NEW n \in Procs,
         ~raced'[n] => Steady(n, back), LoadChain(n)
  PROVE  Refines(n)
<1>1. pc[n].ui = "boot"
  BY DEF LoadChain, At
<1>2. ASSUME Go(n, "ui", "seal"), UNCHANGED file
      PROVE  LedgerOf(n)' = LedgerOf(n)
  <2>1. pc'[n].ui = "seal"
    BY <1>2, GoEffect DEF Threads, UiPcs, Starting
  <2>2. QED
    BY <1>1, <1>2, <2>1 DEF LedgerOf, Serves, Starting
<1>3. CASE Go(n, "ui", "seal") /\ UNCHANGED <<nothing, file, snap, net, solved>>
  BY <1>2, <1>3 DEF Refines
<1>4. CASE Die(n) /\ UNCHANGED solved
  BY <1>4, DieRefines DEF Refines
<1>5. CASE /\ Mine(n, PendingBlock(0, NoBlock)) /\ Go(n, "ui", "seal")
           /\ UNCHANGED <<nothing, file, snap, net>>
  <2>1. PendingBlock(0, NoBlock) \in Blocks /\ PendingBlock(0, NoBlock).prev = 0
    BY PendingType DEF NoBlock, PendingBlock
  <2>2. 0 \in 0..Len(solved)
    BY DEF TypeOK
  <2>3. QED
    BY <1>2, <1>5, <2>1, <2>2 DEF Refines, Making
<1>6. QED
  BY <1>3, <1>4, <1>5 DEF LoadChain

LEMMA TruncateRefines ==
  ASSUME NEW back \in Nat, TypeOK, Order, NEW n \in Procs, Steady(n, back),
         NEW t \in Threads, Truncate(n, t)
  PROVE  Refines(n)
<1>1. pc[n][t] = "seal" /\ solved' = solved
  BY DEF Truncate, At
<1>2. ~(chain[n] # <<>> /\ ~Tip(n).valid)
  BY <1>1, NoFailure DEF Seals
<1>3. CASE Die(n)
  BY <1>1, <1>3, DieRefines
<1>4. CASE /\ chain[n] # <<>> /\ Go(n, t, "write") /\ UNCHANGED <<chain, nothing, net>>
  <2>1. pc'[n][t] = "write" /\ \A o \in Threads \ {t} : pc'[n][o] = pc[n][o]
    BY <1>4, GoEffect DEF UiPcs, Starting, NetPcs, MinerPcs
  <2>2. CASE t = "ui"
    <3>1. LedgerOf(n) = Ids(file[n])
      BY <1>1, <2>2 DEF LedgerOf, Serves, Starting
    <3>2. LedgerOf(n)' = Ids(chain[n])
      BY <1>4, <2>1, <2>2 DEF LedgerOf, Serves, Starting
    <3>3. Closed(solved, n, back, chain[n])
      BY <1>1, <1>4, SealsChain DEF Seals
    <3>4. CASE Ids(file[n]) = Ids(chain[n])
      BY <1>1, <3>1, <3>2, <3>4 DEF Refines
    <3>5. CASE file[n] = <<>> /\ Len(chain[n]) = 1
      <4>1. Front(chain[n]) = <<>>
        <5>1. Front(chain[n]) \in Seq(Blocks) /\ Len(Front(chain[n])) = 0
          BY <1>4, <3>5, ChainParts DEF Size
        <5>2. QED
          BY <5>1
      <4>2. QED
        BY <1>1, <1>4, <3>1, <3>2, <3>3, <3>5, <4>1, GainChain DEF Refines
    <3>6. QED
      BY <1>1, <2>2, <3>4, <3>5 DEF Steady, Boots, At, Seals
  <2>3. CASE t # "ui"
    <3>1. Serves(n) /\ pc'[n].ui = pc[n].ui
      BY <1>1, <2>1, <2>3, Running DEF Threads
    <3>2. QED
      BY <1>1, <1>4, <3>1, FrontsRefines DEF Serves
  <2>4. QED
    BY <2>2, <2>3
<1>5. QED
  BY <1>2, <1>3, <1>4 DEF Truncate

LEMMA WriteFileRefines ==
  ASSUME NEW back \in Nat, TypeOK, Order, NEW n \in Procs, Steady(n, back),
         NEW t \in Threads, WriteFile(n, t)
  PROVE  Refines(n)
<1>1. pc[n][t] = "write" /\ solved' = solved /\ chain' = chain
  BY DEF WriteFile, At
<1>2. pc'[n][t] = "push" /\ \A o \in Threads \ {t} : pc'[n][o] = pc[n][o]
  BY GoEffect DEF WriteFile, UiPcs, Starting, NetPcs, MinerPcs
<1>3. CASE t = "ui"
  BY <1>1, <1>2, <1>3 DEF Refines, LedgerOf, Serves, Starting
<1>4. CASE t # "ui"
  <2>1. Serves(n) /\ pc'[n].ui = pc[n].ui
    BY <1>1, <1>2, <1>4, Running DEF Threads
  <2>2. QED
    BY <1>1, <2>1, FrontsRefines DEF Serves
<1>5. QED
  BY <1>3, <1>4

\* The next pending block puts the one before it into the ledger.
LEMMA PushNextRefines ==
  ASSUME NEW back \in Nat, TypeOK, Order, NEW n \in Procs, Steady(n, back),
         NEW t \in Threads, PushNext(n, t)
  PROVE  Refines(n)
<1>1. pc[n][t] = "push" /\ solved' = solved
  BY DEF PushNext, At
<1>2. chain[n] # <<>> => Closed(solved, n, back, chain[n]) /\ Tip(n).valid
  BY <1>1, SealsChain DEF Seals
<1>3. CASE Die(n)
  BY <1>1, <1>3, DieRefines
<1>4. CASE /\ chain[n] # <<>>
           /\ chain' = [chain EXCEPT ![n] = Append(@, PendingBlock(Size(n), Tip(n).id))]
           /\ Go(n, t, After(t))
  <2>1. pc'[n][t] = After(t) /\ \A o \in Threads \ {t} : pc'[n][o] = pc[n][o]
    BY <1>4, GoEffect DEF After, UiPcs, NetPcs, MinerPcs
  <2>2. chain'[n] # <<>> /\ Front(chain'[n]) = chain[n]
    <3> DEFINE b == PendingBlock(Size(n), Tip(n).id)
    <3>1. chain[n] \in Seq(Blocks) /\ chain'[n] = Append(chain[n], b)
      BY <1>4 DEF TypeOK
    <3>2. b \in Blocks
      <4>1. Tip(n).id \in Nat /\ Size(n) \in Nat
        BY <1>4, ChainParts DEF Blocks
      <4>2. QED
        BY <4>1, PendingType
    <3> HIDE DEF b
    <3>3. QED
      BY <3>1, <3>2, FrontOfAppend
  <2>3. Serves(n)'
    <3>1. CASE t = "ui"
      BY <2>1, <3>1 DEF After, Serves, Starting, UiPcs
    <3>2. CASE t # "ui"
      <4>1. Serves(n) /\ pc'[n].ui = pc[n].ui
        BY <1>1, <2>1, <3>2, Running DEF Threads
      <4>2. QED
        BY <4>1 DEF Serves
    <3>3. QED
      BY <3>1, <3>2
  <2>4. LedgerOf(n)' = Ids(chain[n])
    BY <2>2, <2>3 DEF LedgerOf, Serves, Starting
  <2>5. CASE t = "ui"
    <3>1. LedgerOf(n) = Ids(chain[n])
      BY <1>1, <2>5 DEF LedgerOf, Serves, Starting
    <3>2. QED
      BY <1>1, <2>4, <3>1 DEF Refines
  <2>6. CASE t # "ui"
    <3>1. Serves(n)
      BY <1>1, <2>6, Running DEF Threads
    <3>2. LedgerOf(n) = Ids(Front(chain[n]))
      BY <1>4, <3>1, LedgerServes DEF Fronts
    <3>3. QED
      BY <1>1, <1>2, <1>4, <2>4, <3>2, GainChain DEF Refines
  <2>7. QED
    BY <2>5, <2>6
<1>5. QED
  BY <1>2, <1>3, <1>4 DEF PushNext
\* A thread other than the UI thread is busy only in a process that serves.
LEMMA Busy ==
  ASSUME TypeOK, Order, NEW n \in Procs, pc[n].net # "idle" \/ pc[n].miner # "idle"
  PROVE  Serves(n)
<1>1. pc[n] \in Pcs /\ Process(n)
  BY DEF TypeOK, Order, Pcs
<1>2. QED
  BY <1>1 DEF Process, At, Pcs, Serves

\* The miner and the button leave what is sealed.
LEMMA MinerRefines ==
  ASSUME TypeOK, Order, NEW n \in Procs,
         StartMining(n) \/ Interrupt(n) \/ CleanBlock(n) \/ PropagateBlock(n)
  PROVE  Refines(n)
<1> DEFINE b == get_current_block(n)
<1>1. b \in Blocks /\ b.txs \in Seq(Tx)
  BY CurrentType DEF Blocks
<1>2. Serves(n)
  <2>1. pc[n].ui = "free" \/ pc[n].miner # "idle"
    BY DEF StartMining, Interrupt, CleanBlock, PropagateBlock, At
  <2>2. QED
    BY <2>1, Busy DEF Serves, UiPcs, Starting
<1>3. pc'[n].ui = pc[n].ui
  <2>1. \E to \in MinerPcs : Go(n, "miner", to)
    BY DEF StartMining, Interrupt, CleanBlock, PropagateBlock, MinerPcs, NetPcs
  <2>2. PICK to \in MinerPcs : Go(n, "miner", to)
    BY <2>1
  <2>3. "miner" \in Threads /\ "ui" \in Threads \ {"miner"}
    BY DEF Threads
  <2>4. QED
    BY <2>2, <2>3, GoEffect
<1>4. Serves(n)'
  BY <1>2, <1>3 DEF Serves
<1>5. CASE StartMining(n)
  <2> DEFINE c == [b EXCEPT !.txs = Append(@, reward(n)), !.valid = FALSE]
  <2>1. Append(b.txs, reward(n)) \in Seq(Tx)
    BY <1>1, RewardType
  <2>2. c \in Blocks
    BY <1>1, <2>1 DEF Blocks
  <2>3. SetCurrent(n, c) /\ solved' = solved
    BY <1>5 DEF StartMining
  <2>4. QED
    BY <1>2, <1>4, <2>2, <2>3, FrontsRefines
<1>6. CASE CleanBlock(n)
  <2> DEFINE c == [b EXCEPT !.txs = WithoutRewards(@)]
  <2>1. WithoutRewards(b.txs) \in Seq(Tx)
    BY <1>1, WithoutRewardsType
  <2>2. c \in Blocks
    BY <1>1, <2>1 DEF Blocks
  <2>3. SetCurrent(n, c) /\ solved' = solved
    BY <1>6 DEF CleanBlock
  <2>4. QED
    BY <1>2, <1>4, <2>2, <2>3, FrontsRefines
<1>7. CASE Interrupt(n) \/ PropagateBlock(n)
  BY <1>2, <1>4, <1>7, FrontsRefines DEF Interrupt, PropagateBlock
<1>8. QED
  BY <1>5, <1>6, <1>7

\* A block that is solved is made, and is not yet in the ledger.
LEMMA SolveRefines ==
  ASSUME TypeOK, Order, NEW n \in Procs, Solve(n)
  PROVE  Refines(n)
<1> DEFINE b == get_current_block(n)
<1>1. b \in Blocks /\ b.prev \in 0..Len(solved)
  BY CurrentType, CurrentHeld DEF Order, Held, Follows
<1>2. Mine(n, b) /\ SetCurrent(n, Solved(b)) /\ Go(n, "miner", "mined") /\ pc[n].miner = "mining"
  BY DEF Solve, At
<1> HIDE DEF b
<1>3. Serves(n)
  BY <1>2, Busy
<1>4. Serves(n)'
  <2>1. pc'[n].ui = pc[n].ui
    BY <1>2, GoEffect DEF Threads, MinerPcs
  <2>2. QED
    BY <1>3, <2>1 DEF Serves
<1>5. Solved(b) \in Blocks
  BY <1>1, <1>2, MineEffect
<1>6. LedgerOf(n)' = LedgerOf(n)
  BY <1>2, <1>3, <1>4, <1>5, SameFronts, SameLedger
<1>7. QED
  BY <1>1, <1>2, <1>6 DEF Refines, Making

LEMMA DangleRefines ==
  ASSUME NEW back \in Nat, TypeOK, Order, NEW n \in Procs, Steady(n, back), Dangle(n)
  PROVE  Refines(n)
<1>1. pc[n].miner = "dangling" /\ solved' = solved
  BY DEF Dangle, At
<1>2. CASE Die(n)
  BY <1>1, <1>2, DieRefines
<1>3. CASE Go(n, "miner", "mined") /\ UNCHANGED <<chain, nothing, file, snap, net>>
  <2>1. Serves(n)
    BY <1>1, Busy
  <2>2. pc'[n].ui = pc[n].ui
    BY <1>3, GoEffect DEF Threads, MinerPcs
  <2>3. QED
    BY <1>1, <1>3, <2>1, <2>2, FrontsRefines DEF Serves
<1>4. QED
  BY <1>2, <1>3 DEF Dangle

\* A transaction changes the pending block alone.
LEMMA AddTransactionRefines ==
  ASSUME TypeOK, NEW n \in Procs, NEW tx \in Tx, add_transaction(n, tx), Serves(n),
         solved' = solved
  PROVE  Refines(n)
<1> DEFINE b == get_current_block(n)
    c == [b EXCEPT !.txs = Append(@, tx), !.valid = FALSE]
<1>1. b \in Blocks /\ b.txs \in Seq(Tx)
  BY CurrentType DEF Blocks
<1>2. c \in Blocks
  <2>1. Append(b.txs, tx) \in Seq(Tx)
    BY <1>1
  <2>2. QED
    BY <1>1, <2>1 DEF Blocks
<1>3. SetCurrent(n, c)
  BY DEF add_transaction
<1>4. Serves(n)'
  <2>1. pc'[n].ui = pc[n].ui \/ pc'[n].ui = "aborted"
    BY InterruptedEffect DEF add_transaction
  <2>2. QED
    BY <2>1 DEF Serves, UiPcs, Starting
<1>5. QED
  BY <1>2, <1>3, <1>4, FrontsRefines

LEMMA SendRefines ==
  ASSUME NEW back \in Nat, TypeOK, Order, NEW n \in Procs, Steady(n, back),
         NEW p \in Payments, Send(n, p)
  PROVE  Refines(n)
<1>1. pc[n].ui = "free" /\ solved' = solved
  BY DEF Send, At
<1>2. CASE Die(n)
  BY <1>1, <1>2, DieRefines
<1>3. CASE add_transaction(n, payment(p))
  BY <1>1, <1>3, PaymentType, AddTransactionRefines DEF Serves, UiPcs, Starting
<1>4. QED
  BY <1>2, <1>3 DEF Send

LEMMA ReceiveTransactionRefines ==
  ASSUME NEW back \in Nat, TypeOK, Order, NEW n \in Procs, Steady(n, back),
         NEW m \in net, ReceiveTransaction(n, m)
  PROVE  Refines(n)
<1>1. m.body \in Tx /\ solved' = solved
  BY DEF ReceiveTransaction, TypeOK, Messages
<1>2. CASE Die(n)
  BY <1>1, <1>2, DieRefines
<1>3. CASE Serves(n) /\ add_transaction(n, m.body)
  BY <1>1, <1>3, AddTransactionRefines
<1>4. QED
  BY <1>2, <1>3 DEF ReceiveTransaction

\* A peer's block takes the place of the pending one.
LEMMA ReceiveBlockRefines ==
  ASSUME NEW back \in Nat, TypeOK, Order, NEW n \in Procs, Steady(n, back),
         NEW m \in net, ReceiveBlock(n, m)
  PROVE  Refines(n)
<1>1. m.body \in Blocks /\ solved' = solved /\ Serves(n)
  BY DEF ReceiveBlock, TypeOK, Messages
<1>2. CASE Die(n)
  BY <1>1, <1>2, DieRefines
<1>3. CASE chain[n] # <<>> /\ Replace(n, m.body)
  <2> DEFINE f == Front(chain[n])
      c == Copy(m.body)
  <2>1. f \in Seq(Blocks) /\ c \in Blocks
    BY <1>1, <1>3, ChainParts, CopyType
  <2>2. chain'[n] = Append(f, c)
    BY <1>3 DEF Replace, TypeOK
  <2>3. pc'[n].ui = pc[n].ui \/ pc'[n].ui = "aborted"
    BY <1>3, LostType DEF Replace, TypeOK, Lost, Pcs
  <2>4. Serves(n)'
    BY <1>1, <2>3 DEF Serves, UiPcs, Starting
  <2> HIDE DEF c
  <2>5. chain'[n] # <<>> /\ Front(chain'[n]) = f
    <3> HIDE DEF f
    <3>1. QED
      BY <2>1, <2>2, FrontOfAppend
  <2>6. Fronts(chain'[n]) = Fronts(chain[n])
    BY <1>3, <2>5 DEF Fronts
  <2>7. QED
    BY <1>1, <2>4, <2>6, SameLedger DEF Refines
<1>4. CASE UNCHANGED <<chain, pc>>
  BY <1>1, <1>4, FrontsRefines DEF Serves
<1>5. QED
  BY <1>2, <1>3, <1>4 DEF ReceiveBlock

LEMMA FrontOfOne ==
  ASSUME NEW b \in Blocks
  PROVE  <<b>> # <<>> /\ Front(<<b>>) = <<>>
<1> DEFINE s == <<b>>
<1>1. s \in Seq(Blocks) /\ Len(s) = 1 /\ s # <<>>
  OBVIOUS
<1> HIDE DEF s
<1>2. Front(s) \in Seq(Blocks) /\ Len(Front(s)) = 0
  BY <1>1, FrontAndTip
<1>3. QED
  BY <1>1, <1>2 DEF s

\* Force Sync gives up at most one sealed block.
LEMMA ForceSyncRefines ==
  ASSUME NEW back \in Nat, TypeOK, Order, NEW n \in Procs, Steady(n, back), ForceSync(n)
  PROVE  Refines(n)
<1>1. pc[n].ui = "free" /\ solved' = solved /\ Size(n) <= 2 /\ pc[n] \in Pcs
  BY DEF ForceSync, At, TypeOK, Pcs
<1>2. Serves(n) /\ Stands(n, back)
  BY <1>1, Running DEF Starting
<1>3. Len(LedgerOf(n)) <= 1
  <2>1. CASE chain[n] = <<>>
    BY <1>2, <2>1, LedgerServes DEF Fronts
  <2>2. CASE chain[n] # <<>>
    <3> DEFINE f == Front(chain[n])
    <3>1. f \in Seq(Blocks) /\ Size(n) = Len(f) + 1 /\ LedgerOf(n) = Ids(f)
      BY <1>2, <2>2, ChainParts, LedgerServes DEF Fronts
    <3>2. Closed(solved, n, back, f) /\ solved \in Histories
      BY <1>2, <2>2 DEF Stands, Upright, Chained, TypeOK, Histories
    <3> HIDE DEF f
    <3>3. \A i \in DOMAIN f : f[i].id # NoBlock
      BY <3>1, <3>2, ClosedFields
    <3>4. Len(Ids(f)) = Len(f)
      BY <3>1, <3>3, IdsAll
    <3>5. Len(f) \in Nat
      BY <3>1
    <3>6. QED
      BY <1>1, <3>1, <3>4, <3>5
  <2>3. QED
    BY <2>1, <2>2
<1>4. Fronts(chain'[n]) = <<>> /\ pc'[n].ui \in {"free", "genesis"}
  <2>1. CASE chain' = [chain EXCEPT ![n] = <<>>] /\ pc' = [pc EXCEPT ![n] = Lost(n)]
    BY <1>1, <2>1 DEF TypeOK, Lost, Pcs, Fronts
  <2>2. CASE /\ chain' = [chain EXCEPT ![n] = <<PendingBlock(0, NoBlock)>>]
             /\ pc' = [pc EXCEPT ![n] = [Lost(n) EXCEPT !.ui = "genesis"]]
    <3>1. pc'[n].ui = "genesis"
      BY <1>1, <2>2 DEF TypeOK, Lost, Pcs
    <3> DEFINE g == PendingBlock(0, NoBlock)
    <3>2. chain'[n] = <<g>> /\ g \in Blocks
      BY <2>2, PendingType DEF TypeOK, NoBlock
    <3> HIDE DEF g
    <3>3. Front(chain'[n]) = <<>>
      BY <3>2, FrontOfOne
    <3>4. QED
      BY <3>1, <3>3, IdsEmpty DEF Fronts
  <2>3. QED
    BY <2>1, <2>2 DEF ForceSync
<1>5. LedgerOf(n)' = <<>>
  BY <1>4 DEF LedgerOf, Serves, Starting, Fronts
<1>6. QED
  BY <1>1, <1>3, <1>5 DEF Refines

LEMMA MineGenesisRefines ==
  ASSUME TypeOK, Order, NEW n \in Procs, MineGenesis(n)
  PROVE  Refines(n)
<1> DEFINE b == Tip(n)
<1>1. /\ pc[n].ui = "genesis" /\ Mine(n, b) /\ chain[n] \in Seq(Blocks) /\ Process(n)
      /\ chain'[n] = <<Solved(b)>> /\ Go(n, "ui", "free")
  BY DEF MineGenesis, At, TypeOK, Order
<1>2. Len(chain[n]) = 1 /\ chain[n] # <<>>
  <2>1. Len(chain[n]) = 1
    BY <1>1 DEF Process, At, Size
  <2>2. QED
    BY <2>1
<1>3. b = get_current_block(n) /\ Front(chain[n]) \in Seq(Blocks) /\ Len(Front(chain[n])) = 0
  BY <1>2, ChainParts DEF Size
<1>4. b \in Blocks /\ b.prev \in 0..Len(solved)
  BY <1>1, <1>3, CurrentType, CurrentHeld DEF Held, Follows
<1> HIDE DEF b
<1>5. Front(chain[n]) = <<>>
  BY <1>3
<1>6. Solved(b) \in Blocks
  BY <1>1, <1>4, MineEffect
<1>7. chain'[n] # <<>> /\ Front(chain'[n]) = <<>>
  <2> DEFINE c == Solved(b)
  <2>1. c \in Blocks /\ chain'[n] = <<c>>
    BY <1>1, <1>6
  <2> HIDE DEF c
  <2>2. QED
    BY <2>1, FrontOfOne
<1>8. Serves(n) /\ Serves(n)'
  <2>1. pc'[n].ui = "free"
    BY <1>1, GoEffect DEF Threads, UiPcs
  <2>2. QED
    BY <1>1, <2>1 DEF Serves, UiPcs, Starting
<1>9. LedgerOf(n)' = LedgerOf(n)
  BY <1>2, <1>5, <1>7, <1>8, SameLedger DEF Fronts
<1>10. QED
  BY <1>1, <1>4, <1>9 DEF Refines, Making
-----------------------------------------------------------------------------
(***************************************************************************)
(* Chain implements Ledger: the mapping of a step.                         *)
(***************************************************************************)
Made(h) == [i \in DOMAIN h |-> [by |-> h[i].by, prev |-> h[i].header.prev]]

Ledgers == [p \in Procs |-> LedgerOf(p)]

LEMMA MadeType ==
  ASSUME NEW h \in Histories
  PROVE  /\ Made(h) \in Seq([by : Procs, prev : Nat]) /\ Len(Made(h)) = Len(h)
         /\ \A i \in DOMAIN h : Made(h)[i].by = h[i].by /\ Made(h)[i].prev = h[i].header.prev
<1> DEFINE R == [by : Procs, header : Headers]
    C == [by : Procs, prev : Nat]
    f == Made(h)
<1>1. h \in Seq(R)
  BY DEF Histories
<1>2. \A r \in R : [by |-> r.by, prev |-> r.header.prev] \in C
  BY DEF Headers
<1> HIDE DEF R, C
<1>3. \A i \in DOMAIN h : h[i] \in R
  BY <1>1
<1>4. \A i \in DOMAIN h : f[i] = [by |-> h[i].by, prev |-> h[i].header.prev]
  BY DEF Made
<1>5. f = [i \in DOMAIN h |-> f[i]]
  BY DEF Made
<1>6. \A i \in DOMAIN h : f[i] \in C
  BY <1>2, <1>3, <1>4
<1> HIDE DEF f
<1>7. f \in Seq(C) /\ Len(f) = Len(h)
  BY <1>1, <1>5, <1>6, MapType
<1>8. \A i \in DOMAIN h : f[i].by = h[i].by /\ f[i].prev = h[i].header.prev
  <2>1. TAKE i \in DOMAIN h
  <2>2. f[i] = [by |-> h[i].by, prev |-> h[i].header.prev]
    BY <1>4
  <2>3. QED
    BY <2>2
<1>9. QED
  BY <1>7, <1>8 DEF f, C

LEMMA MadeAppend ==
  ASSUME NEW h \in Histories, NEW n \in Procs, NEW d \in Headers
  PROVE  Made(Append(h, [by |-> n, header |-> d])) = Append(Made(h), [by |-> n, prev |-> d.prev])
<1> DEFINE e == [by |-> n, header |-> d]
    k == Append(h, e)
    c == [by |-> n, prev |-> d.prev]
    x == Made(k)
    y == Append(Made(h), c)
    C == [by : Procs, prev : Nat]
<1>1. e \in [by : Procs, header : Headers] /\ e.by = n /\ e.header = d
  OBVIOUS
<1>2. c \in C
  BY DEF Headers
<1>3. Made(h) \in Seq(C) /\ Len(Made(h)) = Len(h)
  BY MadeType
<1>4. Made(h) = [i \in DOMAIN h |-> [by |-> h[i].by, prev |-> h[i].header.prev]]
  BY DEF Made
<1> HIDE DEF e
<1>5. /\ k \in Histories /\ Len(k) = Len(h) + 1 /\ Len(h) \in Nat /\ DOMAIN h = 1..Len(h)
      /\ k[Len(h) + 1] = e /\ \A i \in 1..Len(h) : k[i] = h[i]
  BY <1>1 DEF Histories
<1> HIDE DEF k
<1>6. x \in Seq(C) /\ Len(x) = Len(h) + 1
  BY <1>5, MadeType
<1>7. DOMAIN k = 1..Len(h) + 1
  BY <1>5 DEF Histories
<1>8. \A i \in 1..Len(h) + 1 : x[i] = [by |-> k[i].by, prev |-> k[i].header.prev]
  BY <1>7 DEF Made
<1> HIDE DEF C, x
<1>9. y \in Seq(C) /\ Len(y) = Len(h) + 1 /\ y[Len(h) + 1] = c
      /\ \A i \in 1..Len(h) : y[i] = Made(h)[i]
  BY <1>2, <1>3, <1>5
<1> HIDE DEF y
<1>10. x[Len(h) + 1] = c
  <2>1. Len(h) + 1 \in 1..Len(h) + 1
    BY <1>5
  <2>2. QED
    BY <1>1, <1>5, <1>8, <2>1
<1>11. \A i \in 1..Len(h) : x[i] = Made(h)[i]
  BY <1>4, <1>5, <1>8
<1>12. \A i \in 1..Len(x) : x[i] = y[i]
  BY <1>5, <1>6, <1>9, <1>10, <1>11
<1>13. x = y
  BY <1>6, <1>9, <1>12, SeqEqual
<1>14. QED
  BY <1>13 DEF x, y, k, e

LEMMA LedgerInit ==
  ASSUME Init
  PROVE  Abstract!Init
<1>1. \A p \in Procs : LedgerOf(p) = <<>> /\ ~\E t \in Threads : At(p, t, "write")
  BY IdsEmpty DEF Init, LedgerOf, Off, At, Threads, Serves, Starting
<1>2. Made(solved) = <<>>
  BY DEF Init, Made
<1>3. QED
  BY <1>1, <1>2 DEF Init, Abstract!Init, Made

\* What a step does to the ledger of one process is a step of Ledger.
LEMMA LedgerStep ==
  ASSUME TypeOK, Order, TypeOK', Order', NEW n \in Procs, Others(n), Refines(n),
         raced[n] => raced'[n]
  PROVE  Abstract!Next
<1> DEFINE saving == [p \in Procs |-> \E t \in Threads : At(p, t, "write")]
<1>1. saving' \in [Procs -> BOOLEAN]
  OBVIOUS
<1>2. raced' \in [Procs -> BOOLEAN] /\ \A p \in Procs : raced[p] => raced'[p]
  BY DEF TypeOK, Others
<1>3. Ledgers' = [Ledgers EXCEPT ![n] = LedgerOf(n)']
  <2>1. \A p \in Procs \ {n} : LedgerOf(p)' = LedgerOf(p)
    BY DEF Others, LedgerOf, Serves
  <2>2. QED
    BY <2>1 DEF Ledgers
<1>4. Ledgers[n] = LedgerOf(n) /\ Ledgers'[n] = LedgerOf(n)'
  BY DEF Ledgers
<1>5. solved \in Histories /\ Len(solved) \in Nat
  BY DEF TypeOK, Histories
<1>6. /\ Len(Made(solved)) = Len(solved) /\ DOMAIN solved = 1..Len(solved)
      /\ \A i \in DOMAIN solved :
           Made(solved)[i].by = solved[i].by /\ Made(solved)[i].prev = solved[i].header.prev
  BY <1>5, MadeType
<1>7. CASE Making(n)
  <2>1. PICK b \in Blocks : b.prev \in 0..Len(solved) /\ Mine(n, b)
    BY <1>7 DEF Making
  <2>2. Header(b) \in Headers /\ Header(b).prev = b.prev
    BY DEF Blocks, Headers, Header
  <2>3. Made(solved') = Append(Made(solved), [by |-> n, prev |-> b.prev])
    BY <1>5, <2>1, <2>2, MadeAppend DEF Mine
  <2>4. Ledgers' = Ledgers
    BY <1>3, <1>7 DEF Making, Ledgers
  <2>5. b.prev \in 1..Len(Made(solved)) \cup {0}
    BY <1>5, <1>6, <2>1
  <2>6. Abstract!Make(n, b.prev)
    BY <2>3, <2>4 DEF Abstract!Make, Made, Ledgers
  <2>7. b.prev \in Abstract!Blocks \cup {Abstract!None}
    BY <2>5 DEF Abstract!Blocks, Abstract!None, Made
  <2>8. QED
    BY <1>1, <1>2, <2>6, <2>7 DEF Abstract!Next
<1>8. CASE solved' = solved /\ LedgerOf(n)' = LedgerOf(n)
  <2>1. Ledgers' = Ledgers /\ Made(solved)' = Made(solved)
    BY <1>3, <1>8 DEF Ledgers, Made
  <2>2. Abstract!Rest
    BY <2>1 DEF Abstract!Rest, Made, Ledgers
  <2>3. QED
    BY <1>1, <1>2, <2>2 DEF Abstract!Next
<1>9. CASE solved' = solved /\ Gaining(n)
  <2>1. PICK b \in DOMAIN solved : Suits(n, b) /\ LedgerOf(n)' = Append(LedgerOf(n), b)
    BY <1>9 DEF Gaining
  <2>2. /\ Ledgers[n] # <<>> =>
             Made(solved)[b].by = n /\ Made(solved)[b].prev = Ledgers[n][Len(Ledgers[n])]
        /\ Ledgers' = [Ledgers EXCEPT ![n] = Append(Ledgers[n], b)]
        /\ Made(solved') = Made(solved)
    BY <1>3, <1>4, <1>6, <1>9, <2>1 DEF Suits
  <2>3. Abstract!Extend(n, b)
    BY <2>2 DEF Abstract!Extend, Abstract!Fits, Made, Ledgers
  <2>4. b \in Abstract!Blocks
    BY <1>6, <2>1 DEF Abstract!Blocks, Made
  <2>5. QED
    BY <1>1, <1>2, <2>3, <2>4 DEF Abstract!Next
<1>10. CASE solved' = solved /\ Len(LedgerOf(n)) <= 1 /\ LedgerOf(n)' = <<>>
  <2>1. /\ Len(Ledgers[n]) <= 1 /\ Ledgers' = [Ledgers EXCEPT ![n] = <<>>]
        /\ Made(solved') = Made(solved)
    BY <1>3, <1>4, <1>10
  <2>2. Abstract!Restart(n)
    BY <2>1 DEF Abstract!Restart, Made, Ledgers
  <2>3. QED
    BY <1>1, <1>2, <2>2 DEF Abstract!Next
<1>11. CASE solved' = solved /\ Losing(n)
  <2>1. PICK k \in 0..Len(LedgerOf(n)) : LedgerOf(n)' = SubSeq(LedgerOf(n), 1, k)
    BY <1>11 DEF Losing
  <2> DEFINE l == SubSeq(Ledgers[n], 1, k)
  <2>2. /\ saving[n] /\ l \in Abstract!Cuts(Ledgers[n])
        /\ Ledgers' = [Ledgers EXCEPT ![n] = l] /\ Made(solved') = Made(solved)
    BY <1>3, <1>4, <1>11, <2>1 DEF Losing, Abstract!Cuts
  <2>3. Abstract!Lose(n)
    BY <2>2 DEF Abstract!Lose, Made, Ledgers
  <2>4. QED
    BY <1>1, <1>2, <2>3 DEF Abstract!Next
<1>12. CASE solved' = solved /\ raced'[n]
  <2>1. Ledgers'[n] \in Seq(1..Len(Made(solved)))
    <3>1. /\ Home(solved', n, chain'[n]) /\ Home(solved', n, file'[n])
          /\ chain'[n] \in Seq(Blocks) /\ file'[n] \in Seq(Blocks)
      BY DEF TypeOK, Order, Process, Saved
    <3>2. /\ Ids(file'[n]) \in Seq(1..Len(solved)) /\ Ids(chain'[n]) \in Seq(1..Len(solved))
          /\ Fronts(chain'[n]) \in Seq(1..Len(solved))
      BY <1>5, <1>12, <3>1, LedgerIds
    <3>3. LedgerOf(n)' \in Seq(1..Len(solved))
      <4>1. <<>> \in Seq(1..Len(solved))
        OBVIOUS
      <4>2. chain'[n] # <<>> => Ids(Front(chain'[n])) \in Seq(1..Len(solved))
        BY <3>2 DEF Fronts
      <4>3. QED
        BY <3>2, <4>1, <4>2 DEF LedgerOf
    <3>4. QED
      BY <1>4, <1>6, <3>3
  <2>2. Ledgers' = [Ledgers EXCEPT ![n] = Ledgers'[n]] /\ Made(solved') = Made(solved)
    BY <1>3, <1>4, <1>12
  <2>3. Abstract!Spoil(n)
    BY <1>12, <2>1, <2>2 DEF Abstract!Spoil, Abstract!Blocks, Made, Ledgers
  <2>4. QED
    BY <1>1, <1>2, <2>3 DEF Abstract!Next
<1>13. QED
  BY <1>7, <1>8, <1>9, <1>10, <1>11, <1>12 DEF Refines
LEMMA StepRefines ==
  ASSUME NEW back \in Nat, TypeOK, Order, NEW n \in Procs,
         ~raced'[n] => Steady(n, back),
         \/ Start(n) \/ LoadChain(n) \/ CreateNewBlock(n)
         \/ StartMining(n) \/ Interrupt(n) \/ CleanBlock(n) \/ Solve(n)
         \/ Dangle(n) \/ PropagateBlock(n)
         \/ \E p \in Payments : Send(n, p)
         \/ \E m \in net : \/ ReceiveTransaction(n, m)
                           \/ ReceiveBlock(n, m)
                           \/ ReceiveBlockTooEarly(n, m)
         \/ ForceSync(n) \/ MineGenesis(n) \/ GenesisAborted(n)
         \/ Kill(n)
  PROVE  Refines(n)
<1>1. CASE Start(n) \/ LoadChain(n) \/ Solve(n) \/ MineGenesis(n)
  BY <1>1, StartRefines, LoadChainRefines, SolveRefines, MineGenesisRefines
<1>2. CASE StartMining(n) \/ Interrupt(n) \/ CleanBlock(n) \/ PropagateBlock(n)
  BY <1>2, MinerRefines
<1>3. CASE CreateNewBlock(n)
  <2>1. PICK t \in Threads : Truncate(n, t) \/ WriteFile(n, t) \/ PushNext(n, t)
    BY <1>3 DEF CreateNewBlock
  <2>2. solved' = solved
    BY <2>1 DEF Truncate, WriteFile, PushNext
  <2>3. QED
    BY <2>1, <2>2, TruncateRefines, WriteFileRefines, PushNextRefines DEF Refines
<1>4. CASE Dangle(n) \/ ForceSync(n) \/ GenesisAborted(n) \/ Kill(n)
  <2>1. solved' = solved
    BY <1>4 DEF Dangle, ForceSync, GenesisAborted, Kill
  <2>2. QED
    BY <1>4, <2>1, DangleRefines, ForceSyncRefines, DieRefines
       DEF Refines, GenesisAborted, Kill
<1>5. CASE \E p \in Payments : Send(n, p)
  <2>1. PICK p \in Payments : Send(n, p)
    BY <1>5
  <2>2. solved' = solved
    BY <2>1 DEF Send
  <2>3. QED
    BY <2>1, <2>2, SendRefines DEF Refines
<1>6. CASE \E m \in net : \/ ReceiveTransaction(n, m)
                          \/ ReceiveBlock(n, m)
                          \/ ReceiveBlockTooEarly(n, m)
  <2>1. PICK m \in net : \/ ReceiveTransaction(n, m)
                         \/ ReceiveBlock(n, m)
                         \/ ReceiveBlockTooEarly(n, m)
    BY <1>6
  <2>2. solved' = solved
    BY <2>1 DEF ReceiveTransaction, ReceiveBlock, ReceiveBlockTooEarly
  <2>3. QED
    BY <2>1, <2>2, ReceiveTransactionRefines, ReceiveBlockRefines, DieRefines
       DEF Refines, ReceiveBlockTooEarly
<1>7. QED
  BY <1>1, <1>2, <1>3, <1>4, <1>5, <1>6

LEMMA LedgerNext ==
  ASSUME Inv, Inv', [Next]_vars
  PROVE  [Abstract!Next]_(Abstract!vars)
<1>1. CASE UNCHANGED vars
  BY <1>1 DEF vars, Abstract!vars, LedgerOf, Serves, At
<1>2. CASE Next
  <2>1. \A p \in Procs : returned[p] \in Nat /\ (~raced'[p] => Steady(p, returned[p]))
    BY <1>2, StepRaced, RacedStays DEF Inv, Unraced, TypeOK
  <2>2. PICK n \in Procs :
         \/ Start(n) \/ LoadChain(n) \/ CreateNewBlock(n)
         \/ StartMining(n) \/ Interrupt(n) \/ CleanBlock(n) \/ Solve(n)
         \/ Dangle(n) \/ PropagateBlock(n)
         \/ \E p \in Payments : Send(n, p)
         \/ \E m \in net : \/ ReceiveTransaction(n, m)
                           \/ ReceiveBlock(n, m)
                           \/ ReceiveBlockTooEarly(n, m)
         \/ ForceSync(n) \/ MineGenesis(n) \/ GenesisAborted(n)
         \/ Kill(n)
    BY <1>2 DEF Next
  <2>3. Refines(n)
    BY <2>1, <2>2, StepRefines DEF Inv
  <2>4. Others(n)
    BY <2>2, StepOrder DEF Inv, Typed
  <2>5. raced[n] => raced'[n]
    BY <1>2, StepRaced, RacedStays DEF Inv
  <2>6. QED
    BY <2>3, <2>4, <2>5, LedgerStep DEF Inv
<1>3. QED
  BY <1>1, <1>2

\* Chain implements Ledger: a user who has not let two threads of the process use
\* the chain at once sees their blocks only ever extended by one of their own,
\* but for what Force Sync empties and a death in a save cuts off.
THEOREM LedgerTheorem == Spec => ImplementsLedger
<1>1. Init => Abstract!Init
  BY LedgerInit
<1>2. Inv /\ Inv' /\ [Next]_vars => [Abstract!Next]_(Abstract!vars)
  BY LedgerNext
<1>3. QED
  BY <1>1, <1>2, InvTheorem, PTL DEF Spec, ImplementsLedger, Abstract!Spec
=============================================================================
