--------------------------- MODULE Keyring_proofs ---------------------------
(***************************************************************************)
(* Theorems about Keyring, for any keys, names, prefixes and threads.      *)
(***************************************************************************)
EXTENDS Keyring, Loops_proofs, SequenceTheorems, TLAPS

-----------------------------------------------------------------------------
(***************************************************************************)
(* The window and its threads, as long as one thread runs at a time.       *)
(***************************************************************************)
IsList(s) == \E S : s \in Seq(S)

\* What a thread that runs alone has done so far.
Progress(t) ==
  /\ creating = 1
  /\ thread[t].prefix = asked
  /\ thread[t].at \in {"draw", "public", "check", "created"}
  /\ thread[t].at = "public" => thread[t].key = creator.private
  /\ thread[t].at \in {"check", "created"} => creator.private = creator.public
  /\ thread[t].at = "created" => creator.public \in asked

Ready == creator.private = creator.public /\ creator.public \in asked

Shapes ==
  /\ DOMAIN thread = Creators
  /\ \A t \in Creators : DOMAIN thread[t] = {"at", "prefix", "key"}
  /\ DOMAIN creator = {"public", "private"}
  /\ IsList(wallets)

AloneInv ==
  /\ Shapes
  /\ ui \in {"keep", "kept", "reset"} => creating = 2
  /\ ~overlapped =>
       /\ \A t \in Creators :
            thread[t].at # "idle" =>
              Progress(t) /\ \A u \in Creators \ {t} : thread[u].at = "idle"
       /\ creating = 2 => Ready
       /\ ui = "keep" => copied.value = creator.public

LEMMA AppendIsList ==
  ASSUME NEW s, IsList(s), NEW e
  PROVE  IsList(Append(s, e)) /\ Last(Append(s, e)) = e
<1>1. PICK S : s \in Seq(S)
  BY DEF IsList
<1>2. s \in Seq(S \cup {e}) /\ e \in S \cup {e}
  BY <1>1
<1>3. Append(s, e) \in Seq(S \cup {e}) /\ Len(Append(s, e)) = Len(s) + 1
      /\ Append(s, e)[Len(s) + 1] = e
  BY <1>2, AppendProperties
<1> QED
  BY <1>3 DEF IsList, Last

LEMMA AloneInit == Init => AloneInv
<1> SUFFICES ASSUME Init PROVE AloneInv
  OBVIOUS
<1>1. Shapes
  <2>1. wallets \in Seq({})
    BY DEF Init
  <2> QED
    BY <2>1 DEF Init, Shapes, Idle, IsList
<1>2. \A t \in Creators : thread[t].at = "idle"
  BY DEF Init, Idle
<1>3. creating = 0 /\ ui = "off"
  BY DEF Init
<1> QED
  BY <1>1, <1>2, <1>3 DEF AloneInv

\* A program that has ended.
LEMMA AloneDie ==
  ASSUME NEW why \in {"off", "failed"}, Die(why)
  PROVE  AloneInv'
<1>1. Shapes'
  <2>1. wallets' \in Seq({})
    BY DEF Die
  <2> QED
    BY <2>1 DEF Die, Shapes, Idle, IsList
<1>2. \A t \in Creators : thread'[t].at = "idle"
  BY DEF Die, Idle
<1>3. creating' = 0 /\ ui' \in {"off", "failed"}
  BY DEF Die
<1> QED
  BY <1>1, <1>2, <1>3 DEF AloneInv

\* Nothing else of the program matters to the window while it copies no wallet.
LEMMA AloneElsewhere ==
  ASSUME AloneInv, UNCHANGED <<creating, creator, thread, overlapped, asked>>, IsList(wallets)',
         ui' # "keep", ui' \in {"kept", "reset"} => ui \in {"keep", "kept", "reset"}
  PROVE  AloneInv'
<1>1. Shapes'
  BY DEF AloneInv, Shapes
<1>2. \A t \in Creators : Progress(t) => Progress(t)'
  BY DEF Progress
<1> QED
  BY <1>1, <1>2 DEF AloneInv, Ready

LEMMA AloneThread ==
  ASSUME AloneInv, NEW t \in Creators, ThreadStep(t)
  PROVE  AloneInv'
<1> USE DEF AloneInv
<1>1. UNCHANGED <<ui, wallets, copied, overlapped, asked>>
  BY DEF ThreadStep, Draw, StorePublic, CheckPrefix, Created, lists, history
<1>2. thread[t].at # "idle"
  BY DEF ThreadStep, Draw, StorePublic, CheckPrefix, Created
<1>3. Shapes'
  BY <1>1 DEF ThreadStep, Draw, StorePublic, CheckPrefix, Created, Shapes, Idle
<1>4. creating' \in {creating, 2}
  BY DEF ThreadStep, Draw, StorePublic, CheckPrefix, Created
<1>5. ASSUME ~overlapped
      PROVE  /\ \A u \in Creators :
                  thread'[u].at # "idle" =>
                    Progress(u)' /\ \A v \in Creators \ {u} : thread'[v].at = "idle"
             /\ creating' = 2 => Ready'
             /\ ui # "keep"
  <2>1. Progress(t) /\ ui \notin {"keep", "kept", "reset"}
        /\ \A u \in Creators \ {t} : thread[u].at = "idle"
    BY <1>2, <1>5 DEF Progress
  <2>2. \A u \in Creators \ {t} : thread'[u].at = "idle"
    <3>1. \A u \in Creators \ {t} : thread'[u] = thread[u]
      BY DEF ThreadStep, Draw, StorePublic, CheckPrefix, Created, Shapes
    <3> QED
      BY <2>1, <3>1
  <2>3. (thread'[t].at # "idle" => Progress(t)') /\ (creating' = 2 => Ready')
    <3>1. ASSUME NEW key \in Keys, Draw(t, key)
          PROVE  Progress(t)' /\ creating' = 1
      BY <1>1, <2>1, <3>1 DEF Draw, Progress, Shapes
    <3>2. CASE StorePublic(t)
      BY <1>1, <2>1, <3>2 DEF StorePublic, Progress, Shapes
    <3>3. CASE CheckPrefix(t)
      BY <1>1, <2>1, <3>3 DEF CheckPrefix, Progress, Shapes
    <3>4. CASE Created(t)
      <4>1. thread'[t].at = "idle" /\ creator' = creator
        BY <3>4 DEF Created, Idle, Shapes
      <4> QED
        BY <1>1, <2>1, <3>4, <4>1 DEF Created, Progress, Ready
    <3> QED
      BY <3>1, <3>2, <3>3, <3>4 DEF ThreadStep
  <2> QED
    BY <2>1, <2>2, <2>3
<1> QED
  BY <1>1, <1>3, <1>4, <1>5

LEMMA AloneCreate ==
  ASSUME AloneInv, NEW t \in Creators, NEW prefix \in Wanted, Create(t, prefix)
  PROVE  AloneInv'
<1> DEFINE started == [at |-> "draw", prefix |-> prefix, key |-> NoKey]
<1>1. /\ ui = "window" /\ thread[t].at = "idle" /\ creating' = 1
      /\ thread' = [thread EXCEPT ![t] = started]
      /\ overlapped' = Busy /\ asked' = prefix
      /\ UNCHANGED <<ui, wallets, creator, copied>>
  BY DEF Create, lists
<1>2. DOMAIN thread' = Creators /\ thread'[t] = started
      /\ \A u \in Creators \ {t} : thread'[u] = thread[u]
  BY <1>1 DEF AloneInv, Shapes
<1>3. Shapes'
  BY <1>1, <1>2 DEF AloneInv, Shapes
<1>4. ~overlapped' => \A u \in Creators \ {t} : thread'[u].at = "idle"
  BY <1>1, <1>2 DEF Busy
<1>5. Progress(t)'
  BY <1>1, <1>2 DEF Progress
<1> QED
  BY <1>1, <1>3, <1>4, <1>5 DEF AloneInv

LEMMA AloneNext == AloneInv /\ [Next]_vars => AloneInv'
<1> SUFFICES ASSUME AloneInv, [Next]_vars PROVE AloneInv'
  OBVIOUS
<1>0. IsList(wallets)
  BY DEF AloneInv, Shapes
<1>1. CASE Start
  BY <1>0, <1>1, AloneElsewhere DEF Start, window, history
<1>2. CASE FailToStart \/ Kill
  BY <1>2, AloneDie DEF FailToStart, Kill
<1>3. CASE LoadWallet
  BY <1>0, <1>3, AppendIsList, AloneElsewhere DEF LoadWallet, window, history
<1>4. CASE OpenBook
  BY <1>0, <1>4, AloneElsewhere DEF OpenBook, window, history
<1>5. CASE LoadAddress
  BY <1>0, <1>5, AloneElsewhere DEF LoadAddress, window, history
<1>6. CASE ShowWindow
  BY <1>0, <1>6, AloneElsewhere DEF ShowWindow, window, history
<1>7. CASE WriteLine
  <2>1. UNCHANGED <<ui, wallets, creating, creator, thread, copied, overlapped, asked>>
    BY <1>7 DEF WriteLine, window, history
  <2>2. \A t \in Creators : Progress(t) => Progress(t)'
    BY <2>1 DEF Progress
  <2> QED
    BY <1>0, <2>1, <2>2 DEF AloneInv, Shapes, Ready
<1>8. ASSUME NEW t \in Creators, ThreadStep(t) \/ \E prefix \in Wanted : Create(t, prefix)
      PROVE  AloneInv'
  BY <1>8, AloneThread, AloneCreate
<1>9. ASSUME NEW name \in Names \cup {NoName}, Keep(name)
      PROVE  AloneInv'
  <2>1. /\ creating = 2 /\ ui' = "keep" /\ copied'.value = creator.public
        /\ UNCHANGED <<wallets, creating, creator, thread, overlapped, asked>>
    BY <1>9 DEF Keep, Entry, history
  <2>2. \A t \in Creators : Progress(t) => Progress(t)'
    BY <2>1 DEF Progress
  <2> QED
    BY <2>1, <2>2 DEF AloneInv, Shapes, Ready
<1>10. CASE AddWallet
  BY <1>0, <1>10, AppendIsList, AloneElsewhere DEF AddWallet, window
<1>11. CASE AddWalletThrows
  BY <1>11, AloneDie DEF AddWalletThrows
<1>12. CASE AddKeptAddress
  BY <1>0, <1>12, AloneElsewhere DEF AddKeptAddress, window
<1>13. CASE ResetWindow
  <2>1. /\ creating' = 0 /\ ui' = "window"
        /\ UNCHANGED <<wallets, creator, thread, overlapped, asked>>
    BY <1>13 DEF ResetWindow, history
  <2>2. creating = 2
    BY <1>13 DEF ResetWindow, AloneInv
  <2>3. ~overlapped => \A t \in Creators : thread[t].at = "idle"
    BY <2>2 DEF AloneInv, Progress
  <2> QED
    BY <2>1, <2>3 DEF AloneInv, Shapes
<1>14. ASSUME NEW name \in Names, NEW key \in Keys, AddAddress(name, key)
       PROVE  AloneInv'
  BY <1>0, <1>14, AloneElsewhere DEF AddAddress, window
<1>15. CASE UNCHANGED vars
  <2>1. UNCHANGED <<ui, wallets, creating, creator, thread, copied, overlapped, asked>>
    BY <1>15 DEF vars, lists, window, history
  <2>2. \A t \in Creators : Progress(t) => Progress(t)'
    BY <2>1 DEF Progress
  <2> QED
    BY <1>0, <2>1, <2>2 DEF AloneInv, Shapes, Ready
<1> QED
  BY <1>1, <1>2, <1>3, <1>4, <1>5, <1>6, <1>7, <1>8, <1>9, <1>10, <1>11, <1>12, <1>13, <1>14,
     <1>15 DEF Next

\* What a step may do, as KeptAsAsked says it.
KeepsAsAsked ==
  ui = "keep" /\ ui' = "kept" /\ ~overlapped =>
    LET wallet == Last(wallets').value
    IN wallet.private = wallet.public /\ wallet.public \in asked

LEMMA AloneKeeps == AloneInv /\ [Next]_vars => KeepsAsAsked
<1> SUFFICES ASSUME AloneInv, [Next]_vars, ui = "keep", ui' = "kept", ~overlapped
             PROVE  /\ Last(wallets').value.private = Last(wallets').value.public
                    /\ Last(wallets').value.public \in asked
  BY DEF KeepsAsAsked
<1>1. AddWallet
  BY DEF Next, Start, FailToStart, Kill, Die, LoadWallet, OpenBook, LoadAddress, ShowWindow, WriteLine,
         ThreadStep, Draw, StorePublic, CheckPrefix, Created, Create, Keep, AddWalletThrows,
         AddKeptAddress, ResetWindow, AddAddress, vars, lists
<1> DEFINE wallet == Entry(copied.name, [public |-> copied.value, private |-> creator.private])
<1>2. wallets' = Append(wallets, wallet)
  BY <1>1 DEF AddWallet
<1>3. Last(wallets') = wallet
  BY <1>2, AppendIsList DEF AloneInv, Shapes
<1>4. copied.value = creator.public /\ Ready
  BY DEF AloneInv
<1> QED
  BY <1>3, <1>4 DEF Entry, Ready

\* A wallet that one thread generated alone is kept with the private key of its
\* public key, and with the prefix that was asked for, however the steps of that
\* thread fall between those of the window, of the files and of crashes (Wallet
\* generate, CreateWalletWindow::update).
THEOREM WalletsKeptAsAsked == Spec => KeptAsAsked
<1>1. AloneInv /\ [Next]_vars => [KeepsAsAsked]_vars
  BY AloneKeeps
<1> QED
  BY <1>1, AloneInit, AloneNext, PTL DEF Spec, KeptAsAsked, KeepsAsAsked
-----------------------------------------------------------------------------
(***************************************************************************)
(* What a list is when it comes back from its file.                        *)
(***************************************************************************)
Named(N, V) == [name : N, value : V]
Element(V)  == Named(Names, V)

LEMMA ListsAre == \A V : Lists(V) = Seq(Element(V)) /\ Reads(V) = Seq(Named(Names \cup {NoName}, V))
BY DEF Lists, Reads, Element, Named

LEMMA EntryIs ==
  /\ \A n, v : Entry(n, v).name = n /\ Entry(n, v).value = v
  /\ \A N, V : \A n \in N, v \in V : Entry(n, v) \in Named(N, V)
  /\ \A N, V : \A e \in Named(N, V) : /\ Entry(e.name, e.value) = e
                                     /\ e.name \in N /\ e.value \in V
BY DEF Entry, Named

\* The last of the entries that have the name of the i-th.
LEMMA LatestIs ==
  ASSUME NEW N, NEW V, NEW list \in Seq(Named(N, V)), NEW i \in DOMAIN list
  PROVE  \E j \in DOMAIN list :
            /\ list[j].name = list[i].name
            /\ \A k \in j + 1..Len(list) : list[k].name # list[i].name
<1> DEFINE S == {j \in DOMAIN list : list[j].name = list[i].name}
<1>1. Len(list) \in Nat /\ DOMAIN list = 1..Len(list)
  OBVIOUS
<1>2. S \subseteq 1..Len(list) /\ S # {}
  BY <1>1
<1>3. PICK m \in S : \A k \in S : k <= m
  <2> HIDE DEF S
  <2> QED
    BY <1>1, <1>2, Greatest
<1>4. ASSUME NEW k \in m + 1..Len(list), list[k].name = list[i].name PROVE FALSE
  <2>1. m \in 1..Len(list) /\ k \in 1..Len(list)
    BY <1>1, <1>2, <1>3
  <2>2. k \in S
    BY <1>1, <1>4, <2>1
  <2> QED
    BY <1>3, <2>1, <2>2
<1> QED
  BY <1>3, <1>4

\* A list keeps its type, and if its names differ it comes back as it was.
LEMMA CollapseIs ==
  ASSUME NEW N, NEW V, NEW list \in Seq(Named(N, V))
  PROVE  /\ Collapse(list) \in Seq(Named(N, V))
         /\ (\A i, j \in DOMAIN list : list[i].name = list[j].name => i = j)
              => Collapse(list) = list
<1> DEFINE firsts == {i \in DOMAIN list : \A j \in 1..i - 1 : list[j].name # list[i].name}
           Latest(name) == CHOOSE i \in DOMAIN list :
                             /\ list[i].name = name
                             /\ \A j \in i + 1..Len(list) : list[j].name # name
           Merged(e) == Entry(e.name, list[Latest(e.name)].value)
           merged == [i \in DOMAIN list |-> Merged(list[i])]
<1>0. Len(list) \in Nat /\ DOMAIN list = 1..Len(list)
  OBVIOUS
<1>1. Collapse(list) = Kept(merged, firsts)
  BY DEF Collapse
<1>2. \A i \in DOMAIN list : list[i] \in Named(N, V)
  BY <1>0
<1>3. ASSUME NEW i \in DOMAIN list
      PROVE  Latest(list[i].name) \in DOMAIN list
             /\ list[Latest(list[i].name)].name = list[i].name
  <2>1. \E j \in DOMAIN list :
          /\ list[j].name = list[i].name
          /\ \A k \in j + 1..Len(list) : list[k].name # list[i].name
    BY LatestIs
  <2> QED
    BY <2>1
<1> HIDE DEF Latest
<1>4. ASSUME NEW i \in DOMAIN list
      PROVE  Merged(list[i]) \in Named(N, V)
  BY <1>2, <1>3, EntryIs
<1>5. merged \in Seq(Named(N, V))
  <2>1. merged \in [1..Len(list) -> Named(N, V)]
    BY <1>0, <1>4
  <2> HIDE DEF merged
  <2> QED
    BY <1>0, <2>1
<1>6. Collapse(list) \in Seq(Named(N, V))
  <2> HIDE DEF merged, firsts
  <2> QED
    BY <1>1, <1>5, KeptType
<1>7. ASSUME \A i, j \in DOMAIN list : list[i].name = list[j].name => i = j
      PROVE  Collapse(list) = list
  <2>1. \A i \in DOMAIN list : Merged(list[i]) = list[i]
    BY <1>2, <1>3, <1>7, EntryIs
  <2>2. merged = list
    BY <1>0, <2>1
  <2>3. DOMAIN list \subseteq firsts
    BY <1>0, <1>7
  <2>4. Kept(list, firsts) = list
    <3> HIDE DEF firsts
    <3> QED
      BY <1>0, <2>3, KeptAll
  <2> QED
    BY <1>1, <2>2, <2>4
<1> QED
  BY <1>6, <1>7

-----------------------------------------------------------------------------
(***************************************************************************)
(* Types.  What a list, a file and a save hold depends on which it is, and *)
(* a public key that is looked at was stored.                              *)
(***************************************************************************)
Kind(f)   == IF f = "wallets" THEN Pairs ELSE Keys
FileOf(f) ==
  [entries : Lists(Kind(f)), cut : {NoName} \cup IF f = "wallets" THEN Names ELSE {}]

FilesTyped ==
  /\ DOMAIN file = Files
  /\ \A f \in Files : file[f] \in FileOf(f)
  /\ writing \in Files \cup {"none"}
  /\ lines \in (IF writing \in Files THEN Lists(Kind(writing)) ELSE {<<>>})

ListsTyped ==
  /\ wallets \in Lists(Pairs) /\ book \in Lists(Keys)
  /\ loading \in (IF ui \in Files THEN Reads(Kind(ui)) ELSE {<<>>})
  /\ kept \in Seq([wallet : Element(Pairs), alone : BOOLEAN])

Thread ==
  [at : {"idle", "draw", "public", "check", "created"}, prefix : Wanted \cup {{}},
   key : Keys \cup {NoKey}]

ThreadsTyped ==
  /\ creating \in 0..2 /\ creator \in Pairs /\ overlapped \in BOOLEAN
  /\ thread \in [Creators -> Thread]
  /\ \A t \in Creators :
       /\ thread[t].at = "idle" \/ thread[t].prefix \in Wanted
       /\ thread[t].at = "public" => thread[t].key # NoKey
       /\ thread[t].at \in {"check", "created"} => creator.public # NoKey
  /\ creating = 2 => creator.public # NoKey

CopyTyped ==
  /\ ui \in {"off", "failed", "wallets", "book", "window", "keep", "kept", "reset"}
  /\ copied \in [name : Names \cup {NoName}, value : Keys \cup {NoKey}]
  /\ ui \in {"keep", "kept"} => copied.value # NoKey /\ creator.public # NoKey
  /\ ui = "kept" => copied.name # NoName

Types == FilesTyped /\ ListsTyped /\ ThreadsTyped /\ CopyTyped

LEMMA EmptyIs == \A V : <<>> \in Lists(V) /\ <<>> \in Reads(V)
<1> SUFFICES ASSUME NEW V PROVE <<>> \in Lists(V) /\ <<>> \in Reads(V)
  OBVIOUS
<1>1. <<>> \in Seq(Element(V)) /\ <<>> \in Seq(Named(Names \cup {NoName}, V))
  OBVIOUS
<1> QED
  BY <1>1, ListsAre

\* What is read from a list, and what is left of it.
LEMMA HeadTypes ==
  ASSUME NEW V, NEW list \in Lists(V), list # <<>>
  PROVE  Head(list) \in Element(V) /\ Tail(list) \in Lists(V)
<1>1. list \in Seq(Element(V)) /\ Lists(V) = Seq(Element(V))
  BY ListsAre
<1>2. Head(list) \in Element(V) /\ Tail(list) \in Seq(Element(V))
  BY <1>1
<1> QED
  BY <1>1, <1>2

LEMMA ReadHeadTypes ==
  ASSUME NEW V, NEW list \in Reads(V), list # <<>>
  PROVE  /\ Head(list).name # NoName => Head(list) \in Element(V)
         /\ Tail(list) \in Reads(V)
<1> DEFINE E == Named(Names \cup {NoName}, V)
<1>1. list \in Seq(E) /\ Reads(V) = Seq(E)
  BY ListsAre
<1> HIDE DEF E
<1>2. Head(list) \in E /\ Tail(list) \in Seq(E)
  BY <1>1
<1>3. Head(list).name # NoName => Head(list) \in Element(V)
  BY <1>2 DEF E, Element, Named
<1> QED
  BY <1>1, <1>2, <1>3

LEMMA AppendTypes ==
  ASSUME NEW V, NEW list \in Lists(V), NEW e \in Element(V)
  PROVE  Append(list, e) \in Lists(V)
<1>1. list \in Seq(Element(V)) /\ Lists(V) = Seq(Element(V))
  BY ListsAre
<1>2. Append(list, e) \in Seq(Element(V))
  BY <1>1
<1> QED
  BY <1>1, <1>2

LEMMA DieTypes ==
  ASSUME Types, NEW why \in {"off", "failed"}, Die(why)
  PROVE  Types'
<1>1. FilesTyped'
  BY DEF Types, FilesTyped, Die, Files
<1>2. ListsTyped'
  BY EmptyIs DEF Types, ListsTyped, Die, Files
<1>3. ThreadsTyped'
  <2>1. Idle \in Thread /\ Idle.at = "idle"
    BY DEF Idle, Thread
  <2>2. /\ creating' = 0 /\ overlapped' = FALSE
        /\ creator' \in Pairs
        /\ thread' = [t \in Creators |-> Idle]
    BY DEF Die, Pairs
  <2>3. thread' \in [Creators -> Thread] /\ \A t \in Creators : thread'[t].at = "idle"
    BY <2>1, <2>2
  <2>4. creating' \in 0..2 /\ creating' # 2
    BY <2>2
  <2>5. overlapped' \in BOOLEAN
    BY <2>2
  <2> QED
    BY <2>2, <2>3, <2>4, <2>5 DEF ThreadsTyped
<1>4. CopyTyped'
  BY DEF CopyTyped, Die, Entry
<1> QED
  BY <1>1, <1>2, <1>3, <1>4 DEF Types

LEMMA InitTypes == Init => Types
<1> SUFFICES ASSUME Init PROVE Types
  OBVIOUS
<1>1. FilesTyped
  <2> DEFINE none == [entries |-> <<>>, cut |-> NoName]
  <2>1. \A f \in Files : none \in FileOf(f)
    BY EmptyIs DEF FileOf
  <2>2. file = [f \in Files |-> none] /\ writing = "none" /\ lines = <<>>
    BY DEF Init
  <2> HIDE DEF none
  <2> QED
    BY <2>1, <2>2 DEF FilesTyped, Files
<1>2. ListsTyped
  BY EmptyIs DEF Init, ListsTyped, Files
<1>3. ThreadsTyped
  <2>1. Idle \in Thread /\ Idle.at = "idle"
    BY DEF Idle, Thread
  <2>2. /\ creating = 0 /\ overlapped = FALSE
        /\ creator \in Pairs
        /\ thread = [t \in Creators |-> Idle]
    BY DEF Init, Pairs
  <2>3. thread \in [Creators -> Thread] /\ \A t \in Creators : thread[t].at = "idle"
    BY <2>1, <2>2
  <2>4. creating \in 0..2 /\ creating # 2
    BY <2>2
  <2>5. overlapped \in BOOLEAN
    BY <2>2
  <2> QED
    BY <2>2, <2>3, <2>4, <2>5 DEF ThreadsTyped
<1>4. CopyTyped
  BY DEF CopyTyped, Init, Entry
<1> QED
  BY <1>1, <1>2, <1>3, <1>4 DEF Types

LEMMA SaveTypes ==
  ASSUME FilesTyped, NEW f \in Files, NEW list \in Lists(Kind(f)), Save(f, list)
  PROVE  FilesTyped'
<1> DEFINE new == [entries |-> <<>>, cut |-> NoName]
<1>1. writing' = f /\ lines' = Collapse(list) /\ file' = [file EXCEPT ![f] = new]
  BY DEF Save
<1>2. new \in FileOf(f)
  BY EmptyIs DEF FileOf
<1> HIDE DEF new
<1>3. /\ DOMAIN file' = Files
      /\ \A g \in Files : file'[g] \in FileOf(g)
  BY <1>1, <1>2 DEF FilesTyped
<1>4. lines' \in Lists(Kind(f))
  <2>1. Collapse(list) \in Seq(Named(Names, Kind(f)))
    BY CollapseIs, ListsAre DEF Element
  <2> QED
    BY <1>1, <2>1, ListsAre DEF Element
<1> QED
  BY <1>1, <1>3, <1>4 DEF FilesTyped

LEMMA WriteLineTypes ==
  ASSUME FilesTyped, WriteLine
  PROVE  FilesTyped'
<1> DEFINE w == writing
<1>1. w \in Files /\ file[w] \in FileOf(w)
      /\ lines \in Lists(Kind(w))
  BY DEF FilesTyped, WriteLine
<1>2. CASE lines = <<>>
  <2>1. writing' = "none" /\ lines' = lines /\ file' = file
    BY <1>2 DEF WriteLine
  <2> QED
    BY <1>2, <2>1 DEF FilesTyped, Files
<1>3. CASE lines # <<>> /\ w = "wallets" /\ file[w].cut = NoName
  <2> DEFINE new == [entries |-> file[w].entries, cut |-> Head(lines).name]
  <2>1. writing' = w /\ lines' = lines /\ file' = [file EXCEPT ![w].cut = Head(lines).name]
    BY <1>3 DEF WriteLine
  <2>2. Head(lines).name \in Names
    <3>1. Head(lines) \in Element(Kind(w))
      BY <1>1, <1>3, HeadTypes
    <3> QED
      BY <3>1, EntryIs DEF Element
  <2>3. new \in FileOf(w)
    BY <1>1, <1>3, <2>2 DEF FileOf
  <2>4. file' = [file EXCEPT ![w] = new]
    <3>1. [file[w] EXCEPT !.cut = Head(lines).name] = new
      BY <1>1 DEF FileOf
    <3> QED
      BY <2>1, <3>1
  <2> HIDE DEF new
  <2> QED
    BY <1>1, <2>1, <2>3, <2>4 DEF FilesTyped
<1>4. CASE lines # <<>> /\ ~(w = "wallets" /\ file[w].cut = NoName)
  <2> DEFINE new == [entries |-> Append(file[w].entries, Head(lines)), cut |-> NoName]
  <2>1. writing' = w /\ lines' = Tail(lines) /\ file' = [file EXCEPT ![w] = new]
    BY <1>4 DEF WriteLine
  <2>2. Tail(lines) \in Lists(Kind(w)) /\ Head(lines) \in Element(Kind(w))
    BY <1>1, <1>4, HeadTypes
  <2>3. Append(file[w].entries, Head(lines)) \in Lists(Kind(w))
    BY <1>1, <2>2, AppendTypes DEF FileOf
  <2>4. new \in FileOf(w)
    BY <2>3 DEF FileOf
  <2> HIDE DEF new
  <2> QED
    BY <1>1, <2>1, <2>2, <2>4 DEF FilesTyped
<1> QED
  BY <1>2, <1>3, <1>4

\* The last line of an entry.
LEMMA LastUnderIs ==
  ASSUME NEW f, NEW S, NEW list \in Seq(S), NEW i \in DOMAIN list
  PROVE  /\ LastUnder(f, list, i) \in i..Len(list)
         /\ \A k \in i + 1..LastUnder(f, list, i) : Nested(f, list, k)
<1> DEFINE T == {j \in i..Len(list) : \A k \in i + 1..j : Nested(f, list, k)}
<1>1. Len(list) \in Nat /\ DOMAIN list = 1..Len(list) /\ i \in 1..Len(list)
  OBVIOUS
<1>2. i \in T /\ T \subseteq 1..Len(list)
  BY <1>1
<1>3. PICK m \in T : \A k \in T : k <= m
  <2> HIDE DEF T
  <2> QED
    BY <1>1, <1>2, Greatest
<1> DEFINE end == Len(list)
<1>4. m \in i..end /\ \A k \in i + 1..m : Nested(f, list, k)
  OBVIOUS
<1> HIDE DEF T, end
<1>0. end \in Nat /\ i \in Nat /\ m \in Nat /\ i <= m /\ m <= end
  <2>1. m \in i..end
    BY <1>4
  <2>2. end \in Nat /\ i \in Nat
    BY <1>1 DEF end
  <2> QED
    BY <2>1, <2>2
<1>5. m = end \/ ~Nested(f, list, m + 1)
  <2> SUFFICES ASSUME m # end, Nested(f, list, m + 1) PROVE FALSE
    OBVIOUS
  <2>1. m < end
    BY <1>0
  <2>2. m + 1 \in i..end
    BY <1>0, <2>1
  <2>3. \A k \in i + 1..m + 1 : k \in i + 1..m \/ k = m + 1
    BY <1>0
  <2>4. \A k \in i + 1..m + 1 : Nested(f, list, k)
    BY <1>4, <2>3
  <2>5. m + 1 \in T
    BY <2>2, <2>4 DEF T, end
  <2>6. m + 1 <= m
    BY <1>3, <2>5
  <2> QED
    BY <1>0, <2>6
<1> QED
  BY <1>4, <1>5 DEF LastUnder, end

\* What a file is read as has the names of its lines, as vili reads them, and the
\* values of the list.
LEMMA ReadIs ==
  ASSUME NEW f, NEW N, NEW V, NEW list \in Lists(V),
         \A i \in DOMAIN list :
           (IF Grammar[f][list[i].name].kind = "broken" THEN NoName
            ELSE Grammar[f][list[i].name].as) \in N
  PROVE  Read(f, list) \in Seq(Named(N, V))
<1> DEFINE Line(i) == Grammar[f][list[i].name]
           Opened(i) == Entry(IF Line(i).kind = "broken" THEN NoName ELSE Line(i).as,
                              list[LastUnder(f, list, i)].value)
           opening == {i \in DOMAIN list : ~Nested(f, list, i) /\ Line(i).kind # "nothing"}
           opened == [i \in DOMAIN list |-> Opened(i)]
<1>1. list \in Seq(Element(V)) /\ DOMAIN list = 1..Len(list) /\ Len(list) \in Nat
  BY ListsAre
<1>2. ASSUME NEW i \in DOMAIN list
      PROVE  Opened(i) \in Named(N, V)
  <2>1. LastUnder(f, list, i) \in i..Len(list)
    BY <1>1, LastUnderIs
  <2>2. LastUnder(f, list, i) \in DOMAIN list
    BY <1>1, <2>1
  <2>3. list[LastUnder(f, list, i)] \in Element(V)
    BY <1>1, <2>2
  <2>4. list[LastUnder(f, list, i)].value \in V
    BY <2>3, EntryIs DEF Element
  <2> QED
    BY <2>4, EntryIs
<1>3. Read(f, list) = Collapse(Kept(opened, opening))
  BY DEF Read
<1>4. opened \in Seq(Named(N, V))
  <2> HIDE DEF Opened
  <2>1. opened \in [1..Len(list) -> Named(N, V)]
    BY <1>1, <1>2
  <2> HIDE DEF opened
  <2> QED
    BY <1>1, <2>1
<1> HIDE DEF opened, opening
<1>5. Kept(opened, opening) \in Seq(Named(N, V))
  BY <1>4, KeptType
<1> QED
  BY <1>3, <1>5, CollapseIs

LEMMA NamesOfLists ==
  ASSUME NEW V, NEW list \in Lists(V), NEW i \in DOMAIN list
  PROVE  list[i].name \in Names /\ list[i].value \in V
<1>1. list \in Seq(Element(V))
  BY ListsAre
<1>2. list[i] \in Element(V)
  BY <1>1
<1> QED
  BY <1>2, EntryIs DEF Element

LEMMA ReadTypes ==
  ASSUME NEW f \in Files, NEW V, NEW list \in Lists(V)
  PROVE  Read(f, list) \in Reads(V)
<1>1. \A i \in DOMAIN list :
        (IF Grammar[f][list[i].name].kind = "broken" THEN NoName
         ELSE Grammar[f][list[i].name].as) \in Names \cup {NoName}
  BY NamesOfLists, NamesAssumption
<1> QED
  BY <1>1, ReadIs, ListsAre

LEMMA LoadedTypes ==
  ASSUME Types, NEW f \in Files
  PROVE  Load(f) \in Reads(Kind(f))
<1> DEFINE E == Named(Names \cup {NoName}, Kind(f))
           half == Halved(file[f].cut, file[f].entries)
<1>1. file[f].entries \in Lists(Kind(f)) /\ (f # "wallets" => file[f].cut = NoName)
  BY DEF Types, FilesTyped, FileOf
<1>2. Read(f, file[f].entries) \in Seq(E) /\ Reads(Kind(f)) = Seq(E)
  BY <1>1, ReadTypes, ListsAre
<1>3. half \in Seq(E)
  <2> DEFINE nobody == Entry(NoName, [public |-> NoKey, private |-> NoKey])
  <2>1. half = <<>> \/ (half = <<nobody>> /\ f = "wallets")
    BY <1>1 DEF Halved
  <2>2. f = "wallets" => nobody \in E
    BY EntryIs DEF Kind, Pairs
  <2> HIDE DEF nobody, E, half
  <2>3. CASE half = <<>>
    <3>1. <<>> \in Seq(E)
      OBVIOUS
    <3> QED
      BY <2>3, <3>1
  <2>4. CASE half = <<nobody>> /\ f = "wallets"
    <3>1. <<nobody>> \in Seq(E)
      BY <2>2, <2>4
    <3> QED
      BY <2>4, <3>1
  <2> QED
    BY <2>1, <2>3, <2>4
<1> HIDE DEF E, half
<1>4. Read(f, file[f].entries) \o half \in Seq(E)
  BY <1>2, <1>3, ConcatProperties
<1> QED
  BY <1>2, <1>4 DEF Load, half

LEMMA LoadTypes ==
  ASSUME Types, Start \/ OpenBook
  PROVE  Types'
<1>1. /\ UNCHANGED <<file, writing, lines, wallets, book, kept>>
      /\ UNCHANGED <<creating, creator, overlapped, thread, copied>>
      /\ ui' \in Files /\ loading' = Load(ui')
  BY DEF Start, OpenBook, window, history, Files
<1>2. loading' \in (IF ui' \in Files THEN Reads(Kind(ui')) ELSE {<<>>})
  BY <1>1, LoadedTypes
<1> QED
  BY <1>1, <1>2 DEF Types, FilesTyped, ListsTyped, ThreadsTyped, CopyTyped, Files

LEMMA AddTypes ==
  ASSUME Types, LoadWallet \/ LoadAddress
  PROVE  Types'
<1>1. /\ UNCHANGED <<ui, kept, creating, creator, overlapped, thread, copied>>
      /\ ui \in Files /\ loading # <<>> /\ loading' = Tail(loading)
      /\ Head(loading).name # NoName
  BY DEF LoadWallet, LoadAddress, window, history, Files
<1>2. Head(loading) \in Element(Kind(ui)) /\ Tail(loading) \in Reads(Kind(ui))
  <2>1. loading \in Reads(Kind(ui))
    BY <1>1 DEF Types, ListsTyped
  <2> QED
    BY <1>1, <2>1, ReadHeadTypes
<1>3. wallets' \in Lists(Pairs) /\ book' \in Lists(Keys) /\ FilesTyped'
  <2>1. CASE LoadWallet
    <3>1. ui = "wallets" /\ wallets' = Append(wallets, Head(loading)) /\ book' = book
          /\ Save("wallets", wallets')
      BY <2>1 DEF LoadWallet
    <3>2. wallets' \in Lists(Pairs)
      BY <1>2, <3>1, AppendTypes DEF Types, ListsTyped, Kind
    <3> QED
      BY <3>1, <3>2, SaveTypes DEF Types, ListsTyped, Kind, Files
  <2>2. CASE LoadAddress
    <3>1. ui = "book" /\ book' = Append(book, Head(loading)) /\ wallets' = wallets
          /\ Save("book", book')
      BY <2>2 DEF LoadAddress
    <3>2. book' \in Lists(Keys)
      BY <1>2, <3>1, AppendTypes DEF Types, ListsTyped, Kind
    <3> QED
      BY <3>1, <3>2, SaveTypes DEF Types, ListsTyped, Kind, Files
  <2> QED
    BY <2>1, <2>2
<1> QED
  BY <1>1, <1>2, <1>3 DEF Types, ListsTyped, ThreadsTyped, CopyTyped

LEMMA ThreadTypes ==
  ASSUME Types, NEW t \in Creators, ThreadStep(t)
  PROVE  Types'
<1>1. UNCHANGED <<lists, copied, overlapped, kept>>
  BY DEF ThreadStep, Draw, StorePublic, CheckPrefix, Created, history
<1>2. thread \in [Creators -> Thread] /\ creator \in Pairs /\ thread[t] \in Thread
  BY DEF Types, ThreadsTyped
<1> DEFINE pair == creator
           busy == thread[t]
<1>3. /\ pair.public \in Keys \cup {NoKey} /\ pair.private \in Keys \cup {NoKey}
      /\ busy.prefix \in Wanted \cup {{}} /\ busy.key \in Keys \cup {NoKey}
      /\ busy.at # "idle" => busy.prefix \in Wanted
  BY <1>2 DEF Types, ThreadsTyped, Pairs, Thread
<1>4. /\ creator' \in Pairs /\ creating' \in {creating, 2}
      /\ creator.public # NoKey => creator'.public # NoKey
      /\ creating' # creating => creator'.public # NoKey
      /\ \E new \in Thread :
           /\ thread' = [thread EXCEPT ![t] = new]
           /\ new.at = "idle" \/ new.prefix \in Wanted
           /\ new.at = "public" => new.key # NoKey
           /\ new.at \in {"check", "created"} => creator'.public # NoKey
  <2>1. CASE \E key \in Keys : Draw(t, key)
    <3>0. PICK key \in Keys : Draw(t, key)
      BY <2>1
    <3> DEFINE new == [busy EXCEPT !.at = "public", !.key = key]
    <3>1. new \in Thread /\ new.at = "public" /\ new.prefix \in Wanted /\ new.key = key
      BY <1>2, <1>3, <3>0 DEF Draw, Thread
    <3>2. thread' = [thread EXCEPT ![t] = new]
      BY <1>2, <3>0 DEF Draw, Thread
    <3>3. creator' \in Pairs /\ creator'.public = creator.public /\ creating' = creating
      BY <1>2, <3>0 DEF Draw, Pairs
    <3>4. key # NoKey
      BY KeysAssumption
    <3> HIDE DEF new
    <3> QED
      BY <3>1, <3>2, <3>3, <3>4
  <2>2. CASE StorePublic(t)
    <3> DEFINE new == [busy EXCEPT !.at = "check", !.key = NoKey]
    <3>1. new \in Thread /\ new.at = "check" /\ new.prefix \in Wanted
      BY <1>2, <1>3, <2>2 DEF StorePublic, Thread
    <3>2. thread' = [thread EXCEPT ![t] = new]
      BY <1>2, <2>2 DEF StorePublic, Thread
    <3>3. busy.key # NoKey
      BY <2>2 DEF StorePublic, Types, ThreadsTyped
    <3>4. creator' \in Pairs /\ creator'.public # NoKey /\ creating' = creating
      BY <1>2, <1>3, <2>2, <3>3 DEF StorePublic, Pairs
    <3> HIDE DEF new
    <3> QED
      BY <3>1, <3>2, <3>4
  <2>3. CASE CheckPrefix(t)
    <3> DEFINE next == IF creator.public \in thread[t].prefix THEN "created" ELSE "draw"
               new == [busy EXCEPT !.at = next]
    <3>1. new \in Thread /\ new.at \in {"created", "draw"} /\ new.prefix \in Wanted
      BY <1>2, <1>3, <2>3 DEF CheckPrefix, Thread
    <3>2. thread' = [thread EXCEPT ![t] = new]
      BY <1>2, <2>3 DEF CheckPrefix, Thread
    <3>3. creator.public # NoKey /\ creator' = creator /\ creating' = creating
      BY <2>3 DEF CheckPrefix, Types, ThreadsTyped
    <3> HIDE DEF new
    <3> QED
      BY <1>2, <3>1, <3>2, <3>3
  <2>4. CASE Created(t)
    <3>1. Idle \in Thread /\ Idle.at = "idle"
      BY DEF Idle, Thread
    <3>2. /\ creator.public # NoKey /\ creator' = creator /\ creating' = 2
          /\ thread' = [thread EXCEPT ![t] = Idle]
      BY <2>4 DEF Created, Types, ThreadsTyped
    <3> QED
      BY <1>2, <3>1, <3>2
  <2> QED
    BY <2>1, <2>2, <2>3, <2>4 DEF ThreadStep
<1>5. ThreadsTyped'
  <2>1. PICK new \in Thread :
           /\ thread' = [thread EXCEPT ![t] = new]
           /\ new.at = "idle" \/ new.prefix \in Wanted
           /\ new.at = "public" => new.key # NoKey
           /\ new.at \in {"check", "created"} => creator'.public # NoKey
    BY <1>4
  <2>2. thread' \in [Creators -> Thread]
    BY <1>2, <2>1
  <2>3. ASSUME NEW u \in Creators
        PROVE  /\ thread'[u].at = "idle" \/ thread'[u].prefix \in Wanted
               /\ thread'[u].at = "public" => thread'[u].key # NoKey
               /\ thread'[u].at \in {"check", "created"} => creator'.public # NoKey
    <3>1. CASE u = t
      BY <1>2, <2>1, <3>1
    <3>2. CASE u # t
      <4>1. thread'[u] = thread[u]
        BY <1>2, <2>1, <3>2
      <4> QED
        BY <1>4, <4>1 DEF Types, ThreadsTyped
    <3> QED
      BY <3>1, <3>2
  <2>4. creating' \in 0..2
    BY <1>4 DEF Types, ThreadsTyped
  <2>5. overlapped' \in BOOLEAN
    BY <1>1 DEF Types, ThreadsTyped
  <2>6. creating' = 2 => creator'.public # NoKey
    BY <1>4 DEF Types, ThreadsTyped
  <2> QED
    BY <1>4, <2>2, <2>3, <2>4, <2>5, <2>6 DEF ThreadsTyped
<1>6. CopyTyped'
  BY <1>1, <1>4 DEF Types, CopyTyped, lists
<1> QED
  BY <1>1, <1>5, <1>6 DEF Types, lists, FilesTyped, ListsTyped

LEMMA CreateTypes ==
  ASSUME Types, NEW t \in Creators, NEW prefix \in Wanted, Create(t, prefix)
  PROVE  Types'
<1> DEFINE started == [at |-> "draw", prefix |-> prefix, key |-> NoKey]
<1>1. /\ UNCHANGED <<lists, creator, copied, kept>>
      /\ creating' = 1 /\ overlapped' = Busy
      /\ thread' = [thread EXCEPT ![t] = started]
  BY DEF Create
<1>2. started \in Thread /\ started.at = "draw" /\ started.prefix = prefix
  BY DEF Thread
<1> HIDE DEF started
<1>3. thread' \in [Creators -> Thread]
      /\ \A u \in Creators : thread'[u] = IF u = t THEN started ELSE thread[u]
  BY <1>1, <1>2 DEF Types, ThreadsTyped
<1>4. ThreadsTyped'
  <2>1. overlapped' \in BOOLEAN
    BY <1>1 DEF Busy
  <2>2. creating' \in 0..2 /\ creating' # 2
    BY <1>1
  <2> QED
    BY <1>1, <1>2, <1>3, <2>1, <2>2 DEF Types, ThreadsTyped
<1> QED
  BY <1>1, <1>4 DEF Types, lists, FilesTyped, ListsTyped, CopyTyped

LEMMA KeepTypes ==
  ASSUME Types, NEW name \in Names \cup {NoName}, Keep(name)
  PROVE  Types'
<1>1. /\ creating = 2 /\ ui = "window" /\ ui' = "keep" /\ copied' = Entry(name, creator.public)
      /\ UNCHANGED <<loading, writing, lines, wallets, book, file, creating, creator, thread>>
      /\ UNCHANGED <<overlapped, kept>>
  BY DEF Keep, history
<1>2. creator.public \in Keys \cup {NoKey} /\ creator.public # NoKey
  BY <1>1 DEF Types, ThreadsTyped, Pairs
<1>3. CopyTyped'
  BY <1>1, <1>2 DEF CopyTyped, Entry
<1>4. ListsTyped'
  BY <1>1 DEF Types, ListsTyped, Files
<1> QED
  BY <1>1, <1>3, <1>4 DEF Types, FilesTyped, ThreadsTyped

LEMMA AddWalletTypes ==
  ASSUME Types, AddWallet
  PROVE  Types'
<1> DEFINE wallet == Entry(copied.name, [public |-> copied.value, private |-> creator.private])
           note == [wallet |-> wallet, alone |-> ~overlapped]
<1>1. /\ ui = "keep" /\ ui' = "kept" /\ copied.name # NoName
      /\ wallets' = Append(wallets, wallet) /\ Save("wallets", wallets')
      /\ kept' = Append(kept, note)
      /\ UNCHANGED <<loading, book, creating, creator, thread, copied, overlapped>>
  BY DEF AddWallet, Found, window
<1>2. wallet \in Element(Pairs)
  <2>1. copied.name \in Names /\ copied.value \in Keys \cup {NoKey}
        /\ creator.private \in Keys \cup {NoKey}
    BY <1>1 DEF Types, CopyTyped, ThreadsTyped, Pairs
  <2>2. [public |-> copied.value, private |-> creator.private] \in Pairs
    BY <2>1 DEF Pairs
  <2> QED
    BY <2>1, <2>2, EntryIs DEF Element
<1>3. note \in [wallet : Element(Pairs), alone : BOOLEAN]
  <2>1. (~overlapped) \in BOOLEAN
    OBVIOUS
  <2> HIDE DEF wallet
  <2> QED
    BY <1>2, <2>1
<1> HIDE DEF wallet, note
<1>4. wallets' \in Lists(Pairs)
  BY <1>1, <1>2, AppendTypes DEF Types, ListsTyped
<1>5. FilesTyped'
  BY <1>1, <1>4, SaveTypes DEF Types, Files, Kind
<1>6. kept' \in Seq([wallet : Element(Pairs), alone : BOOLEAN])
  BY <1>1, <1>3, AppendProperties DEF Types, ListsTyped
<1>7. ListsTyped'
  BY <1>1, <1>4, <1>6 DEF Types, ListsTyped, Files
<1>8. CopyTyped'
  BY <1>1 DEF Types, CopyTyped
<1> QED
  BY <1>1, <1>5, <1>7, <1>8 DEF Types, ThreadsTyped

\* An address that is added to the book.
LEMMA BookTypes ==
  ASSUME Types, NEW name \in Names, NEW key \in Keys,
         book' = Append(book, Entry(name, key)), Save("book", book'),
         ui \notin Files, ui' \in {"window", "reset"},
         UNCHANGED <<loading, wallets, kept, creating, creator, thread, copied, overlapped>>
  PROVE  Types'
<1>1. Entry(name, key) \in Element(Keys)
  BY EntryIs DEF Element
<1>2. book' \in Lists(Keys)
  BY <1>1, AppendTypes DEF Types, ListsTyped
<1>3. FilesTyped'
  BY <1>2, SaveTypes DEF Types, Files, Kind
<1>4. ListsTyped'
  BY <1>2 DEF Types, ListsTyped, Files
<1>5. CopyTyped'
  BY DEF Types, CopyTyped
<1> QED
  BY <1>3, <1>4, <1>5 DEF Types, ThreadsTyped

LEMMA ResetTypes ==
  ASSUME Types, ResetWindow
  PROVE  Types'
<1>1. /\ ui = "reset" /\ ui' = "window" /\ creating' = 0 /\ copied' = Entry(NoName, NoKey)
      /\ UNCHANGED <<loading, writing, lines, wallets, book, file, creator, thread>>
      /\ UNCHANGED <<overlapped, kept>>
  BY DEF ResetWindow, history
<1>2. creating' \in 0..2 /\ creating' # 2
  BY <1>1
<1>3. ListsTyped' /\ CopyTyped'
  BY <1>1 DEF Types, ListsTyped, CopyTyped, Entry, Files
<1> QED
  BY <1>1, <1>2, <1>3 DEF Types, FilesTyped, ThreadsTyped

LEMMA NextTypes == Types /\ [Next]_vars => Types'
<1> SUFFICES ASSUME Types, [Next]_vars PROVE Types'
  OBVIOUS
<1>1. CASE Start
  BY <1>1, LoadTypes
<1>2. CASE FailToStart \/ Kill
  BY <1>2, DieTypes DEF FailToStart, Kill
<1>3. CASE LoadWallet
  BY <1>3, AddTypes
<1>4. CASE OpenBook
  BY <1>4, LoadTypes
<1>5. CASE LoadAddress
  BY <1>5, AddTypes
<1>6. CASE ShowWindow
  BY <1>6 DEF ShowWindow, window, history, Types, FilesTyped, ListsTyped, ThreadsTyped, CopyTyped,
              Files
<1>7. CASE WriteLine
  <2>1. /\ UNCHANGED <<ui, loading, wallets, book, kept>>
        /\ UNCHANGED <<creating, creator, thread, copied, overlapped>>
    BY <1>7 DEF WriteLine, window, history
  <2>2. FilesTyped'
    BY <1>7, WriteLineTypes DEF Types
  <2> QED
    BY <2>1, <2>2 DEF Types, ListsTyped, ThreadsTyped, CopyTyped
<1>8. ASSUME NEW t \in Creators, ThreadStep(t) \/ \E prefix \in Wanted : Create(t, prefix)
      PROVE  Types'
  BY <1>8, ThreadTypes, CreateTypes
<1>9. ASSUME NEW name \in Names \cup {NoName}, Keep(name)
      PROVE  Types'
  BY <1>9, KeepTypes
<1>10. CASE AddWallet
  BY <1>10, AddWalletTypes
<1>11. CASE AddWalletThrows
  BY <1>11, DieTypes DEF AddWalletThrows
<1>12. CASE AddKeptAddress
  <2>1. copied.name \in Names /\ creator.public \in Keys
    BY <1>12 DEF AddKeptAddress, Types, CopyTyped, ThreadsTyped, Pairs
  <2> QED
    BY <1>12, <2>1, BookTypes DEF AddKeptAddress, window, Files
<1>13. CASE ResetWindow
  BY <1>13, ResetTypes
<1>14. ASSUME NEW name \in Names, NEW key \in Keys, AddAddress(name, key)
       PROVE  Types'
  BY <1>14, BookTypes DEF AddAddress, window, Files
<1>15. CASE UNCHANGED vars
  BY <1>15 DEF vars, lists, window, history, Types, FilesTyped, ListsTyped, ThreadsTyped, CopyTyped
<1> QED
  BY <1>1, <1>2, <1>3, <1>4, <1>5, <1>6, <1>7, <1>8, <1>9, <1>10, <1>11, <1>12, <1>13, <1>14,
     <1>15 DEF Next

LEMMA TypesGive == Types => TypeOK
<1> SUFFICES ASSUME Types PROVE TypeOK
  OBVIOUS
<1>1. /\ file["wallets"].entries \in Lists(Pairs) /\ file["book"].entries \in Lists(Keys)
      /\ lines \in Lists(Pairs) \cup Lists(Keys) /\ (writing = "none" => lines = <<>>)
  BY EmptyIs DEF Types, FilesTyped, FileOf, Files, Kind
<1>2. loading \in Reads(Pairs) \cup Reads(Keys)
  BY EmptyIs DEF Types, ListsTyped, Files, Kind
<1>3. ASSUME NEW t \in Creators
      PROVE  /\ thread[t].at \in {"idle", "draw", "public", "check", "created"}
             /\ thread[t].at \in {"check", "created"} => creator.public # NoKey
             /\ thread[t].at = "idle" \/ thread[t].prefix \in Wanted
  BY DEF Types, ThreadsTyped, Thread
<1>4. copied.name \in Names \cup {NoName} /\ (ui \in {"keep", "kept"} => copied.value \in Keys)
  BY DEF Types, CopyTyped
<1> QED
  BY <1>1, <1>2, <1>3, <1>4 DEF Types, FilesTyped, FileOf, ListsTyped, ThreadsTyped, CopyTyped,
                                TypeOK, Files

\* The lists, their files and what is still to be written or read hold the entries
\* of their kind, and a public key is looked at only once it was stored, in whatever
\* order the creators store and the window looks (Wallet generate,
\* CreateWalletWindow::update, WalletList and AddressBook save).
THEOREM TypeCorrect == Spec => []TypeOK
<1> QED
  BY InitTypes, NextTypes, TypesGive, PTL DEF Spec

-----------------------------------------------------------------------------
(***************************************************************************)
(* Lists whose names vili reads as they are, each as another one.          *)
(***************************************************************************)
AllPlain(f, list) == \A i \in DOMAIN list : list[i].name \in Names /\ Plain(f, list[i].name)

Distinct(f, list) ==
  \A i, j \in DOMAIN list : Reading(f, list[i].name) = Reading(f, list[j].name) => i = j

Holds(f, list, name, value) ==
  \E i \in DOMAIN list : Reading(f, list[i].name) = Reading(f, name) /\ list[i].value = value

Clashes(f, list, name) == \E i \in DOMAIN list : Reading(f, list[i].name) = Reading(f, name)

LEMMA SavedAsItIs ==
  ASSUME NEW f, NEW V, NEW list \in Lists(V), Distinct(f, list)
  PROVE  Collapse(list) = list
<1>1. \A i, j \in DOMAIN list : list[i].name = list[j].name => i = j
  BY DEF Distinct, Reading
<1> QED
  BY <1>1, CollapseIs, ListsAre DEF Element

\* What a plain name is read as, and what that is read as.
LEMMA PlainIs ==
  ASSUME NEW f \in Files, NEW name \in Names, Plain(f, name)
  PROVE  /\ Grammar[f][name].kind = "entry" /\ Reading(f, name) \in Names
         /\ Grammar[f][Reading(f, name)] = [kind |-> "entry", as |-> Reading(f, name)]
         /\ Plain(f, Reading(f, name)) /\ Reading(f, Reading(f, name)) = Reading(f, name)
<1> DEFINE as == Grammar[f][name].as
<1>1. Grammar[f][name].kind = "entry" /\ Grammar[f][as] = [kind |-> "entry", as |-> as]
  BY DEF Plain
<1>2. as \in Names
  BY <1>1, NamesAssumption
<1>3. Grammar[f][as].kind = "entry" /\ Grammar[f][as].as = as
  BY <1>1
<1> QED
  BY <1>1, <1>2, <1>3 DEF Plain, Reading

LEMMA ReadAsItIs ==
  ASSUME NEW f \in Files, NEW V, NEW list \in Lists(V), AllPlain(f, list), Distinct(f, list)
  PROVE  /\ Read(f, list) \in Lists(V)
         /\ AllPlain(f, Read(f, list)) /\ Distinct(f, Read(f, list))
         /\ Read(f, list) = <<>> => list = <<>>
         /\ \A name, value : Holds(f, list, name, value) => Holds(f, Read(f, list), name, value)
<1> DEFINE Line(i) == Grammar[f][list[i].name]
           Opened(i) == Entry(IF Line(i).kind = "broken" THEN NoName ELSE Line(i).as,
                              list[LastUnder(f, list, i)].value)
           opening == {i \in DOMAIN list : ~Nested(f, list, i) /\ Line(i).kind # "nothing"}
           u == [i \in DOMAIN list |-> Opened(i)]
<1>1. list \in Seq(Element(V)) /\ DOMAIN list = 1..Len(list) /\ Len(list) \in Nat
  BY ListsAre
<1>2. \A i \in DOMAIN list : Line(i).kind = "entry" /\ ~Nested(f, list, i)
  <2> SUFFICES ASSUME NEW i \in DOMAIN list
               PROVE  Line(i).kind = "entry" /\ ~Nested(f, list, i)
    OBVIOUS
  <2>1. list[i].name \in Names /\ Plain(f, list[i].name)
    BY DEF AllPlain
  <2>2. Line(i).kind = "entry"
    BY <2>1, PlainIs
  <2> QED
    BY <2>2 DEF Nested
<1>3. ASSUME NEW i \in DOMAIN list
      PROVE  LastUnder(f, list, i) = i
  <2> DEFINE m == LastUnder(f, list, i)
  <2>1. m \in i..Len(list) /\ \A k \in i + 1..m : Nested(f, list, k)
    BY <1>1, LastUnderIs
  <2> HIDE DEF m
  <2>2. SUFFICES ASSUME m # i PROVE FALSE
    BY DEF m
  <2>3. i + 1 \in i + 1..m /\ i + 1 \in DOMAIN list
    BY <1>1, <2>1, <2>2
  <2> QED
    BY <1>2, <2>1, <2>3
<1>4. ASSUME NEW i \in DOMAIN list
      PROVE  /\ Opened(i).name = Reading(f, list[i].name) /\ Opened(i).value = list[i].value
             /\ Opened(i) \in Element(V)
             /\ Plain(f, Opened(i).name)
             /\ Reading(f, Opened(i).name) = Reading(f, list[i].name)
  <2>1. Line(i).kind = "entry"
    BY <1>2
  <2>2. Opened(i) = Entry(Reading(f, list[i].name), list[i].value)
    BY <1>3, <2>1 DEF Reading
  <2>3. list[i].name \in Names /\ list[i].value \in V /\ Plain(f, list[i].name)
    BY NamesOfLists DEF AllPlain
  <2>4. /\ Reading(f, list[i].name) \in Names
        /\ Plain(f, Reading(f, list[i].name))
        /\ Reading(f, Reading(f, list[i].name)) = Reading(f, list[i].name)
    BY <2>3, PlainIs
  <2> HIDE DEF Opened
  <2> QED
    BY <2>2, <2>3, <2>4, EntryIs DEF Element
<1>5. Read(f, list) = Collapse(Kept(u, opening))
  BY DEF Read
<1>6. DOMAIN list \subseteq opening
  BY <1>2
<1> HIDE DEF Opened, opening
<1>7. /\ DOMAIN u = DOMAIN list
      /\ \A i \in DOMAIN list :
           /\ u[i].name = Reading(f, list[i].name) /\ u[i].value = list[i].value
           /\ u[i] \in Element(V) /\ Plain(f, u[i].name)
           /\ Reading(f, u[i].name) = Reading(f, list[i].name)
  BY <1>4
<1>8. u \in Lists(V)
  <2>1. u \in [1..Len(list) -> Element(V)]
    BY <1>1, <1>4
  <2> HIDE DEF u
  <2> QED
    BY <1>1, <2>1, ListsAre
<1> HIDE DEF u
<1>9. Kept(u, opening) = u
  BY <1>6, <1>7, <1>8, ListsAre, KeptAll
<1>10. Distinct(f, u)
  BY <1>7 DEF Distinct
<1>11. Read(f, list) = u
  BY <1>5, <1>8, <1>9, <1>10, SavedAsItIs
<1>12. AllPlain(f, u)
  BY <1>7, <1>8, NamesOfLists DEF AllPlain
<1>13. u = <<>> => list = <<>>
  <2> SUFFICES ASSUME u = <<>> PROVE list = <<>>
    OBVIOUS
  <2>1. DOMAIN list = {}
    BY <1>7
  <2>2. Len(list) = 0
    BY <1>1, <2>1
  <2> QED
    BY <1>1, <2>2
<1>14. \A name, value : Holds(f, list, name, value) => Holds(f, u, name, value)
  BY <1>7 DEF Holds
<1> QED
  BY <1>8, <1>10, <1>11, <1>12, <1>13, <1>14

LEMMA AppendAddsTo ==
  ASSUME NEW f, NEW V, NEW list \in Lists(V), NEW e \in Element(V)
  PROVE  /\ Append(list, e) \in Lists(V) /\ Append(list, e) # <<>>
         /\ Distinct(f, list) /\ ~Clashes(f, list, e.name) => Distinct(f, Append(list, e))
         /\ AllPlain(f, list) /\ Plain(f, e.name) => AllPlain(f, Append(list, e))
         /\ Holds(f, Append(list, e), e.name, e.value)
         /\ \A name, value :
              Holds(f, list, name, value) => Holds(f, Append(list, e), name, value)
<1> DEFINE more == Append(list, e)
<1>1. list \in Seq(Element(V)) /\ Len(list) \in Nat /\ DOMAIN list = 1..Len(list)
  BY ListsAre
<1>2. /\ more \in Lists(V) /\ more # <<>> /\ DOMAIN more = 1..Len(list) + 1
      /\ more[Len(list) + 1] = e /\ \A i \in 1..Len(list) : more[i] = list[i]
  <2>1. more \in Seq(Element(V)) /\ Len(more) = Len(list) + 1
        /\ more[Len(list) + 1] = e /\ \A i \in 1..Len(list) : more[i] = list[i]
    BY <1>1, AppendProperties
  <2>2. more # <<>>
    BY <1>1, <2>1
  <2> QED
    BY <1>1, <2>1, <2>2, AppendTypes
<1> HIDE DEF more
<1>3. /\ Len(list) + 1 \in DOMAIN more
      /\ \A i \in DOMAIN list : i \in DOMAIN more /\ more[i] = list[i]
      /\ \A i \in DOMAIN more : i \in DOMAIN list \/ i = Len(list) + 1
  BY <1>1, <1>2
<1>4. ASSUME Distinct(f, list), ~Clashes(f, list, e.name)
      PROVE  Distinct(f, more)
  BY <1>2, <1>3, <1>4 DEF Distinct, Clashes
<1>5. Holds(f, more, e.name, e.value)
  BY <1>2, <1>3 DEF Holds
<1>6. \A name, value : Holds(f, list, name, value) => Holds(f, more, name, value)
  BY <1>3 DEF Holds
<1>7. AllPlain(f, list) /\ Plain(f, e.name) => AllPlain(f, more)
  <2>1. e.name \in Names
    BY EntryIs DEF Element
  <2> QED
    BY <1>2, <1>3, <2>1 DEF AllPlain
<1> QED
  BY <1>2, <1>4, <1>5, <1>6, <1>7 DEF more

\* The beginning of a list.
LEMMA BeginningDistinct ==
  ASSUME NEW f, NEW S, NEW list \in Seq(S), NEW rest \in Seq(S), Distinct(f, list \o rest)
  PROVE  Distinct(f, list)
<1>1. Len(list) \in Nat /\ Len(rest) \in Nat /\ DOMAIN list = 1..Len(list)
  OBVIOUS
<1>2. \A i \in DOMAIN list : i \in DOMAIN (list \o rest) /\ (list \o rest)[i] = list[i]
  <2>1. /\ list \o rest \in Seq(S)
        /\ Len(list \o rest) = Len(list) + Len(rest)
        /\ \A i \in 1..Len(list) + Len(rest) :
             (list \o rest)[i] = IF i <= Len(list) THEN list[i] ELSE rest[i - Len(list)]
    BY <1>1, ConcatProperties
  <2>2. DOMAIN (list \o rest) = 1..Len(list \o rest)
    BY <2>1, LenProperties
  <2> QED
    BY <1>1, <2>1, <2>2
<1> QED
  BY <1>2 DEF Distinct

\* An entry that goes from the front of one list to the end of another.
LEMMA Passed ==
  ASSUME NEW E, NEW list \in Seq(E), NEW rest \in Seq(E), rest # <<>>
  PROVE  Append(list, Head(rest)) \o Tail(rest) = list \o rest
<1> DEFINE more == Append(list, Head(rest))
<1>1. Len(list) \in Nat /\ Len(rest) \in Nat
  OBVIOUS
<1>2. /\ Head(rest) \in E /\ Head(rest) = rest[1] /\ Tail(rest) \in Seq(E)
      /\ Len(rest) >= 1 /\ Len(Tail(rest)) = Len(rest) - 1
      /\ \A i \in 1..Len(Tail(rest)) : Tail(rest)[i] = rest[i + 1]
  BY <1>1
<1>3. /\ more \in Seq(E) /\ Len(more) = Len(list) + 1 /\ more[Len(list) + 1] = rest[1]
      /\ \A i \in 1..Len(list) : more[i] = list[i]
  BY <1>1, <1>2, AppendProperties
<1> HIDE DEF more
<1>4. /\ more \o Tail(rest) \in Seq(E)
      /\ Len(more \o Tail(rest)) = Len(list) + Len(rest)
      /\ \A i \in 1..Len(list) + Len(rest) : (more \o Tail(rest))[i] =
           IF i <= Len(list) + 1 THEN more[i] ELSE Tail(rest)[i - (Len(list) + 1)]
  <2>1. /\ more \o Tail(rest) \in Seq(E)
        /\ Len(more \o Tail(rest)) = Len(more) + Len(Tail(rest))
        /\ \A i \in 1..Len(more) + Len(Tail(rest)) : (more \o Tail(rest))[i] =
             IF i <= Len(more) THEN more[i] ELSE Tail(rest)[i - Len(more)]
    BY <1>2, <1>3, ConcatProperties
  <2>2. Len(more) + Len(Tail(rest)) = Len(list) + Len(rest)
    BY <1>1, <1>2, <1>3
  <2> QED
    BY <1>3, <2>1, <2>2
<1>5. /\ list \o rest \in Seq(E)
      /\ Len(list \o rest) = Len(list) + Len(rest)
      /\ \A i \in 1..Len(list) + Len(rest) :
           (list \o rest)[i] = IF i <= Len(list) THEN list[i] ELSE rest[i - Len(list)]
  BY <1>1, ConcatProperties
<1>6. ASSUME NEW i \in 1..Len(list) + Len(rest)
      PROVE  (more \o Tail(rest))[i] = (list \o rest)[i]
  <2>1. CASE i <= Len(list)
    BY <1>1, <1>3, <1>4, <1>5, <2>1
  <2>2. CASE i = Len(list) + 1
    BY <1>1, <1>3, <1>4, <1>5, <2>2
  <2>3. CASE i > Len(list) + 1
    <3>1. i - (Len(list) + 1) \in 1..Len(Tail(rest))
      BY <1>1, <1>2, <2>3
    <3>2. Tail(rest)[i - (Len(list) + 1)] = rest[i - (Len(list) + 1) + 1]
      BY <1>2, <3>1
    <3>3. i - (Len(list) + 1) + 1 = i - Len(list)
      BY <1>1
    <3> QED
      BY <1>1, <1>4, <1>5, <2>3, <3>2, <3>3
  <2>4. i <= Len(list) \/ i = Len(list) + 1 \/ i > Len(list) + 1
    BY <1>1
  <2> QED
    BY <2>1, <2>2, <2>3, <2>4
<1>7. Len(more \o Tail(rest)) = Len(list \o rest)
      /\ \A i \in 1..Len(more \o Tail(rest)) : (more \o Tail(rest))[i] = (list \o rest)[i]
  BY <1>4, <1>5, <1>6
<1> QED
  BY <1>4, <1>5, <1>7, SeqEqual DEF more

LEMMA NothingAdded ==
  ASSUME NEW S, NEW list \in Seq(S)
  PROVE  list \o <<>> = list /\ <<>> \o list = list
BY ConcatEmptySeq

-----------------------------------------------------------------------------
(***************************************************************************)
(* Where the entries of a list are: still in its file before it is read,   *)
(* then in memory, and in what has still to be added of the file.  As long *)
(* as no save was cut short, and no name given that vili does not read as  *)
(* it is or reads as one it has, they have plain names, no two of them the *)
(* same, and the file, with the lines that are still to be written, is the *)
(* list in memory.                                                         *)
(***************************************************************************)
InMemory(f) == IF f = "wallets" THEN wallets ELSE book
Unread(f)   == ui \in {"off", "failed"} \/ (f = "book" /\ ui = "wallets")
Opening(f)  == ui = f /\ InMemory(f) = <<>> /\ loading # <<>>

All(f) ==
  IF Unread(f) THEN file[f].entries
  ELSE IF ui = f THEN InMemory(f) \o loading
  ELSE InMemory(f)
OnDisk(f) == file[f].entries \o (IF writing = f THEN lines ELSE <<>>)

\* What the list named f is to hold of the wallets that were kept: the book has the
\* address of the last one after the list of wallets has the wallet.
Owed(f, i)  == f = "book" => kept[i].alone /\ ~(ui = "kept" /\ i = Len(kept))
Worth(f, v) == IF f = "wallets" THEN v ELSE v.public

Synced(f) == ~Unread(f) /\ ~Opening(f) => OnDisk(f) = InMemory(f)
Has(f) ==
  \A i \in DOMAIN kept :
    Owed(f, i) => Holds(f, All(f), kept[i].wallet.name, Worth(f, kept[i].wallet.value))
Stored(f) == AllPlain(f, All(f)) /\ Distinct(f, All(f)) /\ Synced(f) /\ Has(f)
Safe(f)   == f \notin spoiled /\ f \notin clashed /\ \A n \in Names : <<f, n>> \notin odd
Held(f)   == Safe(f) => Stored(f)

Quiet ==
  /\ ui \in {"off", "failed", "keep"} => writing = "none"
  /\ \A f \in Files : Unread(f) => InMemory(f) = <<>> /\ writing # f

\* A wallet without its keys is about to get them, unless the program ended then.
Mended ==
  file["wallets"].cut # NoName =>
    \/ writing = "wallets" /\ lines # <<>>
    \/ "wallets" \in spoiled

\* Until its address is added, the wallet kept last is the one the window holds.
LastKept ==
  ui = "kept" =>
    LET last == kept[Len(kept)]
    IN /\ kept # <<>>
       /\ last.wallet.name = copied.name
       /\ last.alone => ~overlapped /\ last.wallet.value.public = creator.public

LEMMA KnownLists ==
  ASSUME Types, NEW f \in Files
  PROVE  /\ file[f].entries \in Lists(Kind(f)) /\ InMemory(f) \in Lists(Kind(f))
         /\ writing = f => lines \in Lists(Kind(f))
         /\ ui = f => loading \in Reads(Kind(f))
         /\ ui \notin Files => loading = <<>>
BY DEF Types, FilesTyped, FileOf, ListsTyped, InMemory, Kind, Files

\* Nothing happened to the names and the files that are noted.
Noted == UNCHANGED <<spoiled, clashed, odd>>

\* Nothing happened to the list.
LEMMA Elsewhere ==
  ASSUME NEW f \in Files, ui # f, ui' # f, Unread(f)' <=> Unread(f), file'[f] = file[f],
         InMemory(f)' = InMemory(f), writing # f, writing' # f
  PROVE  All(f)' = All(f) /\ (Synced(f) => Synced(f)')
<1>1. All(f)' = All(f)
  BY DEF All
<1>2. OnDisk(f)' = OnDisk(f)
  BY DEF OnDisk
<1>3. ~Opening(f) /\ ~Opening(f)'
  BY DEF Opening
<1> QED
  BY <1>1, <1>2, <1>3 DEF Synced

\* Neither did anything happen to the wallets kept.
LEMMA HeldElsewhere ==
  ASSUME NEW f \in Files, Held(f), All(f)' = All(f), Synced(f) => Synced(f)',
         Safe(f)' => Safe(f), kept' = kept, ui = "kept" => ui' = "kept"
  PROVE  Held(f)'
<1>1. \A i \in DOMAIN kept : Owed(f, i)' => Owed(f, i)
  BY DEF Owed
<1> QED
  BY <1>1 DEF Held, Stored, Has

LEMMA SaveSyncs ==
  ASSUME Types, NEW f \in Files, NEW list \in Lists(Kind(f)), Save(f, list), Distinct(f, list),
         InMemory(f)' = list
  PROVE  Synced(f)'
<1> DEFINE new == [entries |-> <<>>, cut |-> NoName]
<1>1. writing' = f /\ lines' = list /\ file' = [file EXCEPT ![f] = new]
  BY SavedAsItIs DEF Save
<1>2. file'[f].entries = <<>>
  BY <1>1 DEF Types, FilesTyped
<1>3. OnDisk(f)' = <<>> \o list
  BY <1>1, <1>2 DEF OnDisk
<1> QED
  BY <1>3, NothingAdded, ListsAre DEF Synced

LEMMA SaveSpares ==
  ASSUME Types, NEW f \in Files, NEW list, Save(f, list), NEW g \in Files, g # f
  PROVE  file'[g] = file[g] /\ writing' # g
BY DEF Save, Types, FilesTyped

\* Start and OpenBook: a list begins to be read.
LEMMA HeldRead ==
  ASSUME Types, Mended, NEW f \in Files, Held(f), Unread(f), InMemory(f) = <<>>,
         InMemory(f)' = <<>>, writing # f,
         ui # "kept", ui' = f, loading' = Load(f), file' = file,
         writing' = "none", kept' = kept, Noted
  PROVE  Held(f)'
<1> SUFFICES ASSUME Safe(f)' PROVE Stored(f)'
  BY DEF Held
<1> DEFINE old == file[f].entries
           new == Read(f, old)
<1>1. old \in Lists(Kind(f))
  BY KnownLists
<1>2. All(f) = old /\ AllPlain(f, old) /\ Distinct(f, old) /\ Has(f) /\ f \notin spoiled
  BY DEF Held, Stored, Safe, All, Noted
<1>3. /\ new \in Lists(Kind(f)) /\ AllPlain(f, new) /\ Distinct(f, new)
      /\ new = <<>> => old = <<>>
      /\ \A name, value : Holds(f, old, name, value) => Holds(f, new, name, value)
  BY <1>1, <1>2, ReadAsItIs
<1>4. ~Unread(f)'
  BY DEF Unread, Files
<1>5. Load(f) = new
  <2>1. file[f].cut = NoName
    BY <1>2 DEF Mended, Types, FilesTyped, FileOf
  <2>2. Load(f) = new \o <<>>
    BY <2>1 DEF Load, Halved
  <2> QED
    BY <1>3, <2>2, NothingAdded, ListsAre
<1> HIDE DEF new
<1>6. All(f)' = new
  <2>1. All(f)' = <<>> \o new
    BY <1>4, <1>5 DEF All
  <2> QED
    BY <1>3, <2>1, NothingAdded, ListsAre
<1>7. Synced(f)'
  <2>1. CASE new = <<>>
    <3>1. OnDisk(f)' = <<>> \o <<>>
      BY <1>3, <2>1 DEF OnDisk, Files
    <3>2. OnDisk(f)' = <<>>
      BY <1>1, <1>3, <2>1, <3>1, NothingAdded, ListsAre
    <3> QED
      BY <3>2 DEF Synced
  <2>2. CASE new # <<>>
    BY <1>5, <2>2 DEF Synced, Opening
  <2> QED
    BY <2>1, <2>2
<1>8. Has(f)'
  <2>1. \A i \in DOMAIN kept : Owed(f, i)' => Owed(f, i)
    BY DEF Owed
  <2> HIDE DEF old
  <2> QED
    BY <1>2, <1>3, <1>6, <2>1 DEF Has
<1> QED
  BY <1>3, <1>6, <1>7, <1>8 DEF Stored

\* LoadWallet and LoadAddress.
LEMMA HeldLoad ==
  ASSUME Types, NEW f \in Files, Held(f), NEW g \in Files, ui = g, ui' = g,
         writing = "none", loading # <<>>, Head(loading).name # NoName,
         loading' = Tail(loading),
         InMemory(g)' = Append(InMemory(g), Head(loading)), Save(g, InMemory(g)'),
         g # f => InMemory(f)' = InMemory(f), kept' = kept, Noted
  PROVE  Held(f)'
<1>1. CASE f # g
  <2>1. file'[f] = file[f] /\ writing' # f
    BY <1>1, SaveSpares
  <2>2. Unread(f)' <=> Unread(f)
    BY DEF Unread
  <2>3. All(f)' = All(f) /\ (Synced(f) => Synced(f)')
    BY <1>1, <2>1, <2>2, Elsewhere DEF Files
  <2> QED
    BY <2>3, HeldElsewhere DEF Safe, Noted
<1>2. CASE f = g
  <2> DEFINE mem == InMemory(f)
           R == Named(Names \cup {NoName}, Kind(f))
  <2>1. mem \in Lists(Kind(f)) /\ loading \in Reads(Kind(f))
    BY <1>2, KnownLists
  <2>2. Head(loading) \in Element(Kind(f)) /\ Tail(loading) \in Reads(Kind(f))
    BY <2>1, ReadHeadTypes
  <2>3. Append(mem, Head(loading)) \in Lists(Kind(f))
    BY <2>1, <2>2, AppendTypes
  <2>0. /\ mem \in Seq(R) /\ loading \in Seq(R) /\ Tail(loading) \in Seq(R)
        /\ Append(mem, Head(loading)) \in Seq(R)
    <3>1. Element(Kind(f)) \subseteq R
      BY DEF Element, Named
    <3>2. \A e \in Seq(Element(Kind(f))) : e \in Seq(R)
      BY <3>1, SeqMonotonic
    <3> QED
      BY <2>1, <2>2, <2>3, <3>2, ListsAre
  <2>4. ~Unread(f) /\ ~Unread(f)'
    BY <1>2 DEF Unread, Files
  <2> HIDE DEF R
  <2>5. All(f) = mem \o loading /\ All(f)' = Append(mem, Head(loading)) \o Tail(loading)
    BY <1>2, <2>4 DEF All
  <2>6. All(f)' = All(f)
    BY <2>0, <2>5, Passed
  <2>7. Safe(f) => Distinct(f, Append(mem, Head(loading)))
    <3> SUFFICES ASSUME Safe(f) PROVE Distinct(f, Append(mem, Head(loading)))
      OBVIOUS
    <3>1. Distinct(f, Append(mem, Head(loading)) \o Tail(loading))
      BY <2>5, <2>6 DEF Held, Stored
    <3> QED
      BY <2>0, <3>1, BeginningDistinct
  <2>8. Safe(f) => Synced(f)'
    BY <1>2, <2>3, <2>7, SaveSyncs
  <2> QED
    <3>1. \A i \in DOMAIN kept : Owed(f, i)' => Owed(f, i)
      BY DEF Owed
    <3> QED
      BY <2>6, <2>8, <3>1 DEF Held, Stored, Has, Safe, Noted
<1> QED
  BY <1>1, <1>2

\* A list whose file has all been read.
LEMMA HeldOpened ==
  ASSUME Types, NEW f \in Files, Held(f), ui = f, loading = <<>>, ui' # f, ~Unread(f)',
         writing = "none", UNCHANGED <<writing, file, wallets, book, kept>>, Noted
  PROVE  Held(f)'
<1>1. InMemory(f) \in Lists(Kind(f)) /\ InMemory(f)' = InMemory(f)
  BY KnownLists DEF InMemory
<1>2. ~Unread(f) /\ ~Opening(f)
  BY DEF Unread, Files, Opening
<1>3. All(f) = InMemory(f) \o <<>> /\ All(f)' = InMemory(f)
  BY <1>1, <1>2 DEF All
<1>4. All(f)' = All(f)
  BY <1>1, <1>3, NothingAdded, ListsAre
<1>5. Synced(f) => Synced(f)'
  <2>1. OnDisk(f)' = OnDisk(f)
    BY DEF OnDisk, Files
  <2> QED
    BY <1>1, <1>2, <2>1 DEF Synced
<1>6. ui # "kept"
  BY DEF Files
<1> QED
  BY <1>4, <1>5, <1>6, HeldElsewhere DEF Safe, Noted

LEMMA HeldWrite ==
  ASSUME Types, Quiet, NEW f \in Files, Held(f), WriteLine
  PROVE  Held(f)'
<1>1. UNCHANGED <<ui, loading, wallets, book, kept>> /\ Noted /\ writing \in Files
  BY DEF WriteLine, history, Noted, Types, FilesTyped
<1>2. DOMAIN file = Files
  BY DEF Types, FilesTyped
<1>3. InMemory(f)' = InMemory(f) /\ (Unread(f)' <=> Unread(f)) /\ (Opening(f)' <=> Opening(f))
  BY <1>1 DEF InMemory, Unread, Opening
<1>4. file'[f] = file[f] \/ writing = f
  <2>1. ASSUME writing # f PROVE file'[f] = file[f]
    BY <1>1, <1>2, <2>1 DEF WriteLine
  <2> QED
    BY <2>1
<1>5. OnDisk(f)' = OnDisk(f)
  <2>1. CASE writing # f
    <3>1. file'[f] = file[f] /\ writing' # f
      BY <1>4, <2>1 DEF WriteLine, Files
    <3> QED
      BY <2>1, <3>1 DEF OnDisk
  <2>2. CASE writing = f /\ lines = <<>>
    <3>1. file' = file /\ writing' = "none"
      BY <2>2 DEF WriteLine
    <3> QED
      BY <2>2, <3>1 DEF OnDisk, Files
  <2>3. CASE writing = f /\ lines # <<>> /\ f = "wallets" /\ file[f].cut = NoName
    <3>1. /\ file' = [file EXCEPT ![f].cut = Head(lines).name]
          /\ writing' = f /\ lines' = lines
      BY <2>3 DEF WriteLine
    <3>2. file[f] \in FileOf(f)
      BY DEF Types, FilesTyped
    <3>3. file'[f].entries = file[f].entries
      BY <1>2, <3>1, <3>2 DEF FileOf
    <3> QED
      BY <2>3, <3>1, <3>3 DEF OnDisk
  <2>4. CASE writing = f /\ lines # <<>> /\ ~(f = "wallets" /\ file[f].cut = NoName)
    <3> DEFINE new == [entries |-> Append(file[f].entries, Head(lines)), cut |-> NoName]
    <3>1. file' = [file EXCEPT ![f] = new] /\ writing' = f /\ lines' = Tail(lines)
      BY <2>4 DEF WriteLine
    <3>2. file'[f].entries = Append(file[f].entries, Head(lines))
      BY <1>2, <3>1
    <3>3. file[f].entries \in Lists(Kind(f)) /\ lines \in Lists(Kind(f))
      BY <2>4, KnownLists
    <3>4. Append(file[f].entries, Head(lines)) \o Tail(lines) = file[f].entries \o lines
      BY <2>4, <3>3, Passed, ListsAre
    <3> QED
      BY <2>4, <3>1, <3>2, <3>4 DEF OnDisk
  <2> QED
    BY <2>1, <2>2, <2>3, <2>4
<1>6. All(f)' = All(f)
  <2>1. Unread(f) => file'[f] = file[f]
    BY <1>4 DEF Quiet
  <2> QED
    BY <1>1, <1>3, <2>1 DEF All
<1>7. Synced(f) => Synced(f)'
  BY <1>3, <1>5 DEF Synced
<1> QED
  BY <1>1, <1>6, <1>7, HeldElsewhere DEF Safe, Noted

\* The end of the program, when it cuts the file no shorter than the list.
LEMMA HeldDie ==
  ASSUME Types, Quiet, NEW f \in Files, Held(f), NEW why \in {"off", "failed"}, Die(why),
         Safe(f)' => Safe(f) /\ f \notin Unsettled
  PROVE  Held(f)'
<1> SUFFICES ASSUME Safe(f)' PROVE Stored(f)'
  BY DEF Held
<1>1. Safe(f) /\ Stored(f) /\ f \notin Unsettled
  BY DEF Held
<1>2. ui' \in {"off", "failed"} /\ file' = file /\ kept' = kept
  BY DEF Die
<1>3. All(f)' = file[f].entries
  BY <1>2 DEF All, Unread
<1>4. writing # f /\ (ui = f => loading = <<>>) /\ (f = "book" => ui # "kept")
  BY <1>1 DEF Unsettled, Files
<1>5. file[f].entries \in Lists(Kind(f)) /\ InMemory(f) \in Lists(Kind(f))
  BY KnownLists
<1>6. All(f) = file[f].entries
  <2>1. CASE Unread(f)
    BY <2>1 DEF All
  <2>2. CASE ~Unread(f)
    <3>1. OnDisk(f) = file[f].entries \o <<>> /\ OnDisk(f) = InMemory(f)
      BY <1>1, <1>4, <2>2 DEF OnDisk, Stored, Synced, Opening
    <3>2. file[f].entries = InMemory(f)
      BY <1>5, <3>1, NothingAdded, ListsAre
    <3>3. All(f) = InMemory(f)
      <4>1. CASE ui = f
        <5>1. All(f) = InMemory(f) \o <<>>
          BY <1>4, <2>2, <4>1 DEF All
        <5> QED
          BY <1>5, <5>1, NothingAdded, ListsAre
      <4>2. CASE ui # f
        BY <2>2, <4>2 DEF All
      <4> QED
        BY <4>1, <4>2
    <3> QED
      BY <3>2, <3>3
  <2> QED
    BY <2>1, <2>2
<1>7. Synced(f)'
  BY <1>2 DEF Synced, Unread
<1>8. \A i \in DOMAIN kept : Owed(f, i)' => Owed(f, i)
  BY <1>2, <1>4 DEF Owed
<1> QED
  BY <1>1, <1>2, <1>3, <1>6, <1>7, <1>8 DEF Stored, Has

\* An entry is added to a list by the window.
LEMMA HeldAdd ==
  ASSUME Types, NEW f \in Files, Held(f), NEW e \in Element(Kind(f)),
         ui \notin Files, ui' \notin Files, ~Unread(f), ~Unread(f)',
         InMemory(f)' = Append(InMemory(f), e), Save(f, InMemory(f)'),
         Note(f, InMemory(f), e.name), spoiled' = spoiled, Safe(f)'
  PROVE  /\ Safe(f) /\ Has(f)
         /\ AllPlain(f, All(f))' /\ Distinct(f, All(f))' /\ Synced(f)'
         /\ Holds(f, All(f)', e.name, e.value)
         /\ \A name, value : Holds(f, All(f), name, value) => Holds(f, All(f)', name, value)
<1> DEFINE mem == InMemory(f)
           more == Append(InMemory(f), e)
<1>1. mem \in Lists(Kind(f))
  BY KnownLists
<1>2. clashed' = IF Clashes(f, mem, e.name) THEN clashed \cup {f} ELSE clashed
  BY DEF Note, Clashes, Reading
<1>3. ~Clashes(f, mem, e.name) /\ Plain(f, e.name) /\ Safe(f)
  <2>1. e.name \in Names
    BY EntryIs DEF Element
  <2> QED
    BY <1>2, <2>1 DEF Safe, Note
<1>4. All(f) = mem /\ All(f)' = more
  BY DEF All
<1>5. AllPlain(f, mem) /\ Distinct(f, mem) /\ Has(f)
  BY <1>3, <1>4 DEF Held, Stored
<1>6. /\ more \in Lists(Kind(f)) /\ AllPlain(f, more) /\ Distinct(f, more)
      /\ Holds(f, more, e.name, e.value)
      /\ \A name, value : Holds(f, mem, name, value) => Holds(f, more, name, value)
  BY <1>1, <1>3, <1>5, AppendAddsTo
<1>7. Synced(f)'
  BY <1>6, SaveSyncs
<1> HIDE DEF mem, more
<1>8. AllPlain(f, All(f))' /\ Distinct(f, All(f))'
  BY <1>4, <1>6
<1> QED
  BY <1>3, <1>4, <1>5, <1>6, <1>7, <1>8

LEMMA HeldKeep ==
  ASSUME Types, AloneInv, NEW f \in Files, Held(f), Quiet, AddWallet
  PROVE  Held(f)'
<1> DEFINE wallet == Entry(copied.name, [public |-> copied.value, private |-> creator.private])
           note == [wallet |-> wallet, alone |-> ~overlapped]
<1>1. /\ ui = "keep" /\ ui' = "kept" /\ copied.name # NoName
      /\ wallets' = Append(wallets, wallet) /\ Save("wallets", wallets')
      /\ kept' = Append(kept, note) /\ Note("wallets", wallets, copied.name)
      /\ book' = book /\ spoiled' = spoiled
  BY DEF AddWallet, Found
<1>2. wallet \in Element(Pairs) /\ wallet.name = copied.name
  <2>1. copied.name \in Names /\ copied.value \in Keys \cup {NoKey}
        /\ creator.private \in Keys \cup {NoKey}
    BY <1>1 DEF Types, CopyTyped, ThreadsTyped, Pairs
  <2>2. [public |-> copied.value, private |-> creator.private] \in Pairs
    BY <2>1 DEF Pairs
  <2> QED
    BY <2>1, <2>2, EntryIs DEF Element
<1>3. note.wallet = wallet
  OBVIOUS
<1> HIDE DEF wallet, note
<1>4. /\ DOMAIN kept' = 1..Len(kept) + 1 /\ DOMAIN kept = 1..Len(kept) /\ Len(kept) \in Nat
      /\ kept'[Len(kept) + 1] = note /\ Len(kept') = Len(kept) + 1
      /\ \A i \in DOMAIN kept : kept'[i] = kept[i]
  <2>1. kept \in Seq([wallet : Element(Pairs), alone : BOOLEAN])
    BY DEF Types, ListsTyped
  <2>2. note \in [wallet : Element(Pairs), alone : BOOLEAN]
    <3>1. (~overlapped) \in BOOLEAN
      OBVIOUS
    <3> QED
      BY <1>2, <3>1 DEF note
  <2> QED
    BY <1>1, <2>1, <2>2, AppendProperties
<1>5. ~Unread(f) /\ ~Unread(f)' /\ ui \notin Files /\ ui' \notin Files
  BY <1>1 DEF Unread, Files
<1>6. CASE f = "wallets"
  <2> SUFFICES ASSUME Safe(f)' PROVE Stored(f)'
    BY DEF Held
  <2>1. /\ wallet \in Element(Kind(f)) /\ InMemory(f)' = Append(InMemory(f), wallet)
        /\ Save(f, InMemory(f)') /\ Note(f, InMemory(f), wallet.name)
    BY <1>1, <1>2, <1>6 DEF Kind, InMemory
  <2>2. /\ Safe(f) /\ Has(f)
        /\ AllPlain(f, All(f))' /\ Distinct(f, All(f))' /\ Synced(f)'
        /\ Holds(f, All(f)', wallet.name, wallet.value)
        /\ \A name, value : Holds(f, All(f), name, value) => Holds(f, All(f)', name, value)
    BY <1>1, <1>5, <2>1, HeldAdd
  <2>3. ASSUME NEW i \in DOMAIN kept'
        PROVE  Holds(f, All(f)', kept'[i].wallet.name, kept'[i].wallet.value)
    <3>1. CASE i = Len(kept) + 1
      BY <1>3, <1>4, <2>2, <3>1
    <3>2. CASE i # Len(kept) + 1
      <4>1. i \in DOMAIN kept /\ kept'[i] = kept[i]
        BY <1>4, <3>2
      <4>2. Holds(f, All(f), kept[i].wallet.name, kept[i].wallet.value)
        BY <1>6, <2>2, <4>1 DEF Has, Owed, Worth
      <4> QED
        BY <2>2, <4>1, <4>2
    <3> QED
      BY <3>1, <3>2
  <2>4. Has(f)'
    BY <1>6, <2>3 DEF Has, Worth
  <2> QED
    BY <2>2, <2>4 DEF Stored
<1>7. CASE f # "wallets"
  <2>1. f = "book" /\ InMemory(f)' = InMemory(f)
    BY <1>1, <1>7 DEF Files, InMemory
  <2>2. file'[f] = file[f] /\ writing' # f /\ writing # f
    BY <1>1, <1>7, SaveSpares DEF Files, Quiet
  <2>3. All(f)' = All(f) /\ (Synced(f) => Synced(f)')
    BY <1>5, <2>1, <2>2, Elsewhere
  <2>4. Safe(f)' => Safe(f)
    BY <1>1, <1>7 DEF Safe, Note
  <2>5. Has(f) => Has(f)'
    <3> SUFFICES ASSUME Has(f), NEW i \in DOMAIN kept', Owed(f, i)'
                 PROVE  Holds(f, All(f)', kept'[i].wallet.name, Worth(f, kept'[i].wallet.value))
      BY DEF Has
    <3>1. i # Len(kept) + 1 /\ kept'[i].alone
      BY <1>1, <1>4, <2>1 DEF Owed
    <3>2. i \in DOMAIN kept /\ kept'[i] = kept[i]
      BY <1>4, <3>1
    <3>3. Owed(f, i)
      BY <1>1, <3>1, <3>2 DEF Owed
    <3> QED
      BY <2>3, <3>2, <3>3 DEF Has
  <2> QED
    BY <2>3, <2>4, <2>5 DEF Held, Stored
<1> QED
  BY <1>6, <1>7

\* AddKeptAddress and AddAddress.
LEMMA HeldBook ==
  ASSUME Types, LastKept, NEW f \in Files, Held(f), NEW name \in Names, NEW key \in Keys,
         book' = Append(book, Entry(name, key)), Save("book", book'),
         Note("book", book, name), writing = "none",
         UNCHANGED <<wallets, kept, spoiled>>,
         \/ ui = "kept" /\ ui' = "reset" /\ name = copied.name /\ key = creator.public
         \/ ui = "window" /\ ui' = "window"
  PROVE  Held(f)'
<1> DEFINE e == Entry(name, key)
<1>1. e \in Element(Keys) /\ e.name = name /\ e.value = key
  BY EntryIs DEF Element
<1>2. ui \notin Files /\ ui' \notin Files /\ ~Unread(f) /\ ~Unread(f)'
  BY DEF Unread, Files
<1> HIDE DEF e
<1>3. CASE f = "book"
  <2> SUFFICES ASSUME Safe(f)' PROVE Stored(f)'
    BY DEF Held
  <2>1. /\ e \in Element(Kind(f)) /\ InMemory(f)' = Append(InMemory(f), e)
        /\ Save(f, InMemory(f)') /\ Note(f, InMemory(f), e.name)
    BY <1>1, <1>3 DEF Kind, InMemory, e
  <2>2. /\ Safe(f) /\ Has(f)
        /\ AllPlain(f, All(f))' /\ Distinct(f, All(f))' /\ Synced(f)'
        /\ Holds(f, All(f)', name, key)
        /\ \A n, v : Holds(f, All(f), n, v) => Holds(f, All(f)', n, v)
    BY <1>1, <1>2, <2>1, HeldAdd
  <2>3. ASSUME NEW i \in DOMAIN kept, Owed(f, i)'
        PROVE  Holds(f, All(f)', kept[i].wallet.name, kept[i].wallet.value.public)
    <3>1. CASE Owed(f, i)
      <4>1. Holds(f, All(f), kept[i].wallet.name, kept[i].wallet.value.public)
        BY <1>3, <2>2, <3>1 DEF Has, Worth
      <4> QED
        BY <2>2, <4>1
    <3>2. CASE ~Owed(f, i)
      <4>1. kept[i].alone /\ ui = "kept" /\ i = Len(kept)
        BY <1>3, <2>3, <3>2 DEF Owed
      <4>2. kept[i].wallet.name = name /\ kept[i].wallet.value.public = key
        BY <4>1 DEF LastKept
      <4> QED
        BY <2>2, <4>2
    <3> QED
      BY <3>1, <3>2
  <2>4. Has(f)'
    BY <1>3, <2>3 DEF Has, Worth
  <2> QED
    BY <2>2, <2>4 DEF Stored
<1>4. CASE f # "book"
  <2>1. InMemory(f)' = InMemory(f) /\ file'[f] = file[f] /\ writing' # f /\ writing # f
    BY <1>4, SaveSpares DEF Files, InMemory
  <2>2. All(f)' = All(f) /\ (Synced(f) => Synced(f)')
    BY <1>2, <2>1, Elsewhere
  <2>3. Safe(f)' => Safe(f)
    BY <1>4 DEF Safe, Note
  <2>4. \A i \in DOMAIN kept : Owed(f, i)
    BY <1>4 DEF Owed
  <2> QED
    BY <2>2, <2>3, <2>4 DEF Held, Stored, Has
<1> QED
  BY <1>3, <1>4

\* Nothing but the threads and the window changes.
LEMMA HeldStill ==
  ASSUME NEW f \in Files, Held(f), UNCHANGED <<lists, kept>> /\ Noted
  PROVE  Held(f)'
<1>1. All(f)' = All(f)
  BY DEF lists, All, Unread, InMemory
<1>2. Synced(f) => Synced(f)'
  BY DEF lists, Synced, Unread, Opening, OnDisk, InMemory
<1>3. ui' = ui
  BY DEF lists
<1> QED
  BY <1>1, <1>2, <1>3, HeldElsewhere DEF Safe, Noted

LEMMA HeldUi ==
  ASSUME Types, NEW f \in Files, Held(f), ui \notin Files, ui' \notin Files, ui # "kept",
         ~Unread(f), ~Unread(f)', writing = "none",
         UNCHANGED <<writing, wallets, book, file, kept>>, Noted
  PROVE  Held(f)'
<1>1. InMemory(f)' = InMemory(f)
  BY DEF InMemory
<1>2. All(f)' = All(f) /\ (Synced(f) => Synced(f)')
  BY <1>1, Elsewhere DEF Files
<1> QED
  BY <1>2, HeldElsewhere DEF Safe, Noted

LEMMA HeldOpen ==
  ASSUME Types, Quiet, Mended, NEW f \in Files, Held(f), Start \/ OpenBook
  PROVE  Held(f)'
<1>1. /\ UNCHANGED <<writing, wallets, book, file, kept>> /\ Noted /\ ui # "kept"
      /\ InMemory(f)' = InMemory(f) /\ file'[f] = file[f]
  BY DEF Start, OpenBook, window, history, InMemory, Noted
<1>2. CASE Start
  <2>1. /\ ui \in {"off", "failed"} /\ writing = "none" /\ Unread(f) /\ InMemory(f) = <<>>
        /\ ui' = "wallets" /\ loading' = Load("wallets")
    BY <1>2 DEF Start, Quiet, Unread
  <2>2. CASE f = "book"
    <3>1. Unread(f)' /\ ui' # f
      BY <2>1, <2>2 DEF Unread
    <3>2. All(f)' = All(f) /\ (Synced(f) => Synced(f)')
      BY <1>1, <2>1, <3>1, Elsewhere DEF Files
    <3> QED
      BY <1>1, <3>2, HeldElsewhere DEF Safe, Noted
  <2>3. CASE f = "wallets"
    BY <1>1, <2>1, <2>3, HeldRead
  <2> QED
    BY <2>2, <2>3 DEF Files
<1>3. CASE OpenBook
  <2>1. ui = "wallets" /\ writing = "none" /\ ui' = "book" /\ loading = <<>>
        /\ loading' = Load("book")
    BY <1>3 DEF OpenBook
  <2>2. CASE f = "book"
    <3>1. Unread(f) /\ InMemory(f) = <<>>
      BY <2>1, <2>2 DEF Quiet, Unread
    <3> QED
      BY <1>1, <2>1, <2>2, <3>1, HeldRead
  <2>3. CASE f = "wallets"
    <3>1. ~Unread(f)'
      BY <2>1, <2>3 DEF Unread
    <3> QED
      BY <1>1, <2>1, <2>3, <3>1, HeldOpened
  <2> QED
    BY <2>2, <2>3 DEF Files
<1> QED
  BY <1>2, <1>3

\* What a failure to start leaves of a list whose names are plain.
LEMMA HeldFail ==
  ASSUME Types, Quiet, NEW f \in Files, Held(f), FailToStart
  PROVE  Held(f)'
<1>1. Die("failed") /\ Noted /\ writing = "none" /\ ui \in {"off", "failed", "wallets", "book"}
      /\ (loading # <<>> /\ ui \in Files => Head(loading).name = NoName)
  BY DEF FailToStart, Noted, Quiet, Files
<1>2. ASSUME Safe(f), ui = f, loading # <<>>
      PROVE  FALSE
  <2> DEFINE R == Named(Names \cup {NoName}, Kind(f))
             mem == InMemory(f)
  <2>1. All(f) = mem \o loading /\ AllPlain(f, All(f))
    BY <1>2 DEF Held, Stored, All, Unread, Files
  <2>2. mem \in Lists(Kind(f)) /\ loading \in Reads(Kind(f))
    BY <1>2, KnownLists
  <2>3. mem \in Seq(R) /\ loading \in Seq(R)
    <3>1. Element(Kind(f)) \subseteq R
      BY DEF Element, Named
    <3>2. \A e \in Seq(Element(Kind(f))) : e \in Seq(R)
      BY <3>1, SeqMonotonic
    <3> QED
      BY <2>2, <3>2, ListsAre
  <2> HIDE DEF R, mem
  <2>4. Len(mem) \in Nat /\ Len(loading) \in Nat /\ Len(loading) >= 1 /\ Head(loading) = loading[1]
    BY <1>2, <2>3
  <2>5. /\ Len(mem \o loading) = Len(mem) + Len(loading)
        /\ mem \o loading \in Seq(R)
        /\ \A i \in 1..Len(mem) + Len(loading) :
             (mem \o loading)[i] = IF i <= Len(mem) THEN mem[i] ELSE loading[i - Len(mem)]
    BY <2>3, ConcatProperties
  <2>6. Len(mem) + 1 \in DOMAIN (mem \o loading)
    <3>1. DOMAIN (mem \o loading) = 1..Len(mem) + Len(loading)
      BY <2>5, LenProperties
    <3> QED
      BY <2>4, <3>1
  <2>7. (mem \o loading)[Len(mem) + 1] = loading[1]
    <3>1. Len(mem) + 1 \in 1..Len(mem) + Len(loading) /\ ~(Len(mem) + 1 <= Len(mem))
          /\ Len(mem) + 1 - Len(mem) = 1
      BY <2>4
    <3> QED
      BY <2>5, <3>1
  <2>8. Head(loading).name \in Names
    BY <2>1, <2>4, <2>6, <2>7 DEF AllPlain
  <2> QED
    BY <1>1, <1>2, <2>8, NamesAssumption
<1>3. Safe(f)' => Safe(f) /\ f \notin Unsettled
  <2>1. Safe(f)' => Safe(f)
    BY <1>1 DEF Safe, Noted
  <2>2. f \in Unsettled => ui = f /\ loading # <<>>
    BY <1>1 DEF Unsettled, Files
  <2> QED
    BY <1>2, <2>1, <2>2
<1> QED
  BY <1>1, <1>3, HeldDie

LEMMA HeldNext ==
  Types /\ AloneInv /\ Quiet /\ Mended /\ LastKept /\ [Next]_vars =>
    \A f \in Files : Held(f) => Held(f)'
<1> SUFFICES ASSUME Types, AloneInv, Quiet, Mended, LastKept, [Next]_vars, NEW f \in Files,
                    Held(f)
             PROVE  Held(f)'
  OBVIOUS
<1>1. CASE Start
  BY <1>1, HeldOpen
<1>2. CASE Kill
  <2>1. Die("off") /\ (Safe(f)' => Safe(f) /\ f \notin Unsettled)
    BY <1>2 DEF Kill, Safe
  <2> QED
    BY <2>1, HeldDie
<1>3. CASE LoadWallet
  <2>1. /\ ui = "wallets" /\ ui' = "wallets" /\ writing = "none" /\ loading # <<>>
        /\ Head(loading).name # NoName
        /\ loading' = Tail(loading) /\ UNCHANGED <<book, kept>> /\ Noted
        /\ InMemory("wallets")' = Append(InMemory("wallets"), Head(loading))
        /\ Save("wallets", InMemory("wallets")')
    BY <1>3 DEF LoadWallet, history, InMemory, Noted
  <2>2. f # "wallets" => InMemory(f)' = InMemory(f)
    BY <2>1 DEF InMemory
  <2> QED
    BY <2>1, <2>2, HeldLoad DEF Files
<1>4. CASE OpenBook
  BY <1>4, HeldOpen
<1>5. CASE LoadAddress
  <2>1. /\ ui = "book" /\ ui' = "book" /\ writing = "none" /\ loading # <<>>
        /\ Head(loading).name # NoName
        /\ loading' = Tail(loading) /\ UNCHANGED <<wallets, kept>> /\ Noted
        /\ InMemory("book")' = Append(InMemory("book"), Head(loading))
        /\ Save("book", InMemory("book")')
    BY <1>5 DEF LoadAddress, history, InMemory, Noted
  <2>2. f # "book" => InMemory(f)' = InMemory(f)
    BY <2>1 DEF InMemory, Files
  <2> QED
    BY <2>1, <2>2, HeldLoad DEF Files
<1>6. CASE ShowWindow
  <2>1. /\ ui = "book" /\ writing = "none" /\ loading = <<>> /\ ui' = "window"
        /\ UNCHANGED <<writing, file, wallets, book, kept>> /\ Noted
    BY <1>6 DEF ShowWindow, history, Noted
  <2>2. ~Unread(f) /\ ~Unread(f)'
    BY <2>1 DEF Unread
  <2>3. CASE f = "book"
    BY <2>1, <2>2, <2>3, HeldOpened
  <2>4. CASE f # "book"
    <3>1. InMemory(f)' = InMemory(f)
      BY <2>1 DEF InMemory
    <3>2. All(f)' = All(f) /\ (Synced(f) => Synced(f)')
      BY <2>1, <2>2, <2>4, <3>1, Elsewhere DEF Files
    <3> QED
      BY <2>1, <3>2, HeldElsewhere DEF Safe, Noted
  <2> QED
    BY <2>3, <2>4
<1>7. CASE WriteLine
  BY <1>7, HeldWrite
<1>8. ASSUME NEW t \in Creators, ThreadStep(t) \/ \E prefix \in Wanted : Create(t, prefix)
      PROVE  Held(f)'
  <2>1. UNCHANGED <<lists, kept>> /\ Noted
    BY <1>8 DEF ThreadStep, Draw, StorePublic, CheckPrefix, Created, Create, history, Noted
  <2> QED
    BY <2>1, HeldStill
<1>9. ASSUME NEW name \in Names \cup {NoName}, Keep(name)
      PROVE  Held(f)'
  BY <1>9, HeldUi DEF Keep, history, Files, Unread, Noted
<1>10. CASE AddWallet
  BY <1>10, HeldKeep
<1>11. CASE AddWalletThrows
  <2>1. Die("off") /\ ui = "keep" /\ Noted
    BY <1>11 DEF AddWalletThrows, Noted
  <2>2. writing = "none" /\ loading = <<>>
    BY <2>1, KnownLists DEF Quiet, Files
  <2>3. f \notin Unsettled
    BY <2>1, <2>2 DEF Unsettled
  <2> QED
    BY <2>1, <2>3, HeldDie DEF Safe, Noted
<1>12. CASE AddKeptAddress
  <2>1. copied.name \in Names /\ creator.public \in Keys
    BY <1>12 DEF AddKeptAddress, Types, CopyTyped, ThreadsTyped, Pairs
  <2> QED
    BY <1>12, <2>1, HeldBook DEF AddKeptAddress
<1>13. CASE ResetWindow
  BY <1>13, HeldUi DEF ResetWindow, history, Files, Unread, Noted
<1>14. ASSUME NEW name \in Names, NEW key \in Keys, AddAddress(name, key)
       PROVE  Held(f)'
  BY <1>14, HeldBook DEF AddAddress
<1>15. CASE UNCHANGED vars
  BY <1>15, HeldStill DEF vars, history, Noted
<1>16. CASE FailToStart
  BY <1>16, HeldFail
<1> QED
  BY <1>1, <1>2, <1>3, <1>4, <1>5, <1>6, <1>7, <1>8, <1>9, <1>10, <1>11, <1>12, <1>13, <1>14,
     <1>15, <1>16 DEF Next

\* Steps after which a list is in memory only once its file is read, and nothing is
\* written while it may not be.
LEMMA QuietNext == Types /\ Quiet /\ [Next]_vars => Quiet'
<1> SUFFICES ASSUME Types, Quiet, [Next]_vars PROVE Quiet'
  OBVIOUS
<1>1. CASE Start
  BY <1>1 DEF Start, Quiet, Unread, InMemory
<1>2. CASE FailToStart \/ Kill \/ AddWalletThrows
  BY <1>2 DEF FailToStart, Kill, AddWalletThrows, Die, Quiet, InMemory, Files
<1>3. CASE LoadWallet
  <2>1. ui = "wallets" /\ ui' = "wallets" /\ writing' = "wallets" /\ book' = book
    BY <1>3 DEF LoadWallet, Save
  <2> QED
    BY <2>1 DEF Quiet, Unread, InMemory, Files
<1>4. CASE OpenBook
  BY <1>4 DEF OpenBook, Quiet, Unread
<1>5. CASE LoadAddress \/ ShowWindow
  BY <1>5 DEF LoadAddress, ShowWindow, Quiet, Unread
<1>6. CASE WriteLine
  <2>1. /\ UNCHANGED <<ui, wallets, book>> /\ writing' \in {writing, "none"}
    BY <1>6 DEF WriteLine
  <2> QED
    BY <2>1 DEF Quiet, Unread, InMemory, Files
<1>7. ASSUME NEW t \in Creators, ThreadStep(t) \/ \E prefix \in Wanted : Create(t, prefix)
      PROVE  Quiet'
  <2>1. UNCHANGED lists
    BY <1>7 DEF ThreadStep, Draw, StorePublic, CheckPrefix, Created, Create
  <2> QED
    BY <2>1 DEF lists, Quiet, Unread, InMemory
<1>8. ASSUME NEW name \in Names \cup {NoName}, Keep(name)
      PROVE  Quiet'
  BY <1>8 DEF Keep, Quiet, Unread
<1>9. CASE AddWallet \/ AddKeptAddress \/ ResetWindow
  BY <1>9 DEF AddWallet, AddKeptAddress, ResetWindow, Quiet, Unread
<1>10. ASSUME NEW name \in Names, NEW key \in Keys, AddAddress(name, key)
       PROVE  Quiet'
  BY <1>10 DEF AddAddress, Quiet, Unread
<1>11. CASE UNCHANGED vars
  BY <1>11 DEF vars, lists, Quiet, Unread, InMemory
<1> QED
  BY <1>1, <1>2, <1>3, <1>4, <1>5, <1>6, <1>7, <1>8, <1>9, <1>10, <1>11 DEF Next

LEMMA LastKeptNext == Types /\ AloneInv /\ LastKept /\ [Next]_vars => LastKept'
<1> SUFFICES ASSUME Types, AloneInv, LastKept, [Next]_vars, ui' = "kept" PROVE LastKept'
  BY DEF LastKept
<1>1. CASE AddWallet
  <2> DEFINE wallet == Entry(copied.name, [public |-> copied.value, private |-> creator.private])
             note == [wallet |-> wallet, alone |-> ~overlapped]
  <2>1. /\ ui = "keep" /\ kept' = Append(kept, note)
        /\ UNCHANGED <<creating, creator, thread, copied, overlapped>>
    BY <1>1 DEF AddWallet, window
  <2>2. note.wallet.name = copied.name /\ note.wallet.value.public = copied.value
        /\ note.alone = ~overlapped
    BY DEF Entry
  <2>3. ~overlapped => copied.value = creator.public
    BY <2>1 DEF AloneInv
  <2> HIDE DEF note
  <2>4. kept' # <<>> /\ kept'[Len(kept')] = note
    <3>1. kept \in Seq([wallet : Element(Pairs), alone : BOOLEAN])
      BY DEF Types, ListsTyped
    <3> DEFINE S == [wallet : Element(Pairs), alone : BOOLEAN] \cup {note}
    <3>2. kept \in Seq(S) /\ note \in S
      BY <3>1, SeqMonotonic
    <3> HIDE DEF S
    <3>3. /\ Len(kept') = Len(kept) + 1 /\ kept'[Len(kept) + 1] = note /\ Len(kept) \in Nat
          /\ kept' \in Seq(S)
      BY <2>1, <3>2, AppendProperties
    <3> QED
      BY <3>3
  <2> QED
    BY <2>1, <2>2, <2>3, <2>4 DEF LastKept
<1>2. CASE ~AddWallet
  <2>1. ui = "kept" /\ UNCHANGED <<kept, copied, overlapped>>
    BY <1>2 DEF Next, Start, FailToStart, Kill, Die, LoadWallet, OpenBook, LoadAddress, ShowWindow, WriteLine,
           ThreadStep, Draw, StorePublic, CheckPrefix, Created, Create, Keep, AddWalletThrows,
           AddKeptAddress, ResetWindow, AddAddress, vars, lists, window, history
  <2>2. ~overlapped => creator' = creator
    <3> SUFFICES ASSUME ~overlapped, creator' # creator PROVE FALSE
      OBVIOUS
    <3>1. PICK t \in Creators : ThreadStep(t)
      BY <1>2, <2>1 DEF Next, Start, FailToStart, Kill, Die, LoadWallet, OpenBook, LoadAddress, ShowWindow,
           WriteLine, Create, Keep, AddWalletThrows, AddKeptAddress, ResetWindow, AddAddress,
           vars, lists, window
    <3>2. thread[t].at # "idle"
      BY <3>1 DEF ThreadStep, Draw, StorePublic, CheckPrefix, Created
    <3>3. creating = 1
      BY <3>2 DEF AloneInv, Progress
    <3> QED
      BY <2>1, <3>3 DEF AloneInv
  <2> QED
    BY <2>1, <2>2 DEF LastKept
<1> QED
  BY <1>1, <1>2

-----------------------------------------------------------------------------
(***************************************************************************)
(* A wallet whose keys are not written yet.                                *)
(***************************************************************************)
\* What saving a list leaves of it.
LEMMA SaveMends ==
  ASSUME Types, Mended, writing = "none", NEW f \in Files, NEW list, Save(f, list),
         spoiled' = spoiled
  PROVE  Mended'
<1>1. file' = [file EXCEPT ![f] = [entries |-> <<>>, cut |-> NoName]]
  BY DEF Save
<1>2. file'["wallets"].cut # NoName => file'["wallets"] = file["wallets"]
  BY <1>1 DEF Types, FilesTyped, Files
<1> QED
  BY <1>2 DEF Mended

LEMMA MendedNext == Types /\ Quiet /\ Mended /\ [Next]_vars => Mended'
<1> SUFFICES ASSUME Types, Quiet, Mended, [Next]_vars PROVE Mended'
  OBVIOUS
<1>1. CASE Start \/ OpenBook \/ ShowWindow
  <2>1. UNCHANGED <<file, writing, lines, spoiled>>
    BY <1>1 DEF Start, OpenBook, ShowWindow, history
  <2> QED
    BY <2>1 DEF Mended
<1>2. CASE Kill
  <2>1. file' = file /\ spoiled' = spoiled \cup Unsettled
    BY <1>2 DEF Kill, Die
  <2>2. writing = "wallets" => "wallets" \in Unsettled
    BY DEF Unsettled
  <2> QED
    BY <2>1, <2>2 DEF Mended
<1>3. CASE FailToStart \/ AddWalletThrows
  <2>1. file' = file /\ spoiled' = spoiled /\ writing = "none"
    BY <1>3 DEF FailToStart, AddWalletThrows, Die, Quiet
  <2> QED
    BY <2>1 DEF Mended
<1>4. CASE LoadWallet
  BY <1>4, SaveMends DEF LoadWallet, history, Files
<1>5. CASE LoadAddress
  BY <1>5, SaveMends DEF LoadAddress, history, Files
<1>6. CASE WriteLine
  <2>0. writing \in Files /\ spoiled' = spoiled /\ DOMAIN file = Files
    BY <1>6 DEF WriteLine, history, Types, FilesTyped
  <2>1. CASE lines = <<>>
    <3>1. file' = file
      BY <1>6, <2>1 DEF WriteLine
    <3> QED
      BY <2>0, <2>1, <3>1 DEF Mended
  <2>2. CASE lines # <<>> /\ writing = "wallets" /\ file[writing].cut = NoName
    <3>1. lines' = lines /\ writing' = writing
      BY <1>6, <2>2 DEF WriteLine
    <3> QED
      BY <2>2, <3>1 DEF Mended
  <2>3. CASE lines # <<>> /\ ~(writing = "wallets" /\ file[writing].cut = NoName)
    <3> DEFINE new == [entries |-> Append(file[writing].entries, Head(lines)), cut |-> NoName]
    <3>1. file' = [file EXCEPT ![writing] = new] /\ writing' = writing
      BY <1>6, <2>3 DEF WriteLine
    <3>2. new.cut = NoName
      OBVIOUS
    <3> HIDE DEF new
    <3>3. CASE writing = "wallets"
      <4>1. file'["wallets"] = new
        BY <2>0, <3>1, <3>3
      <4> QED
        BY <3>2, <4>1 DEF Mended
    <3>4. CASE writing # "wallets"
      <4>1. file'["wallets"] = file["wallets"]
        BY <2>0, <3>1, <3>4 DEF Files
      <4> QED
        BY <2>0, <3>4, <4>1 DEF Mended
    <3> QED
      BY <3>3, <3>4
  <2> QED
    BY <2>1, <2>2, <2>3
<1>7. ASSUME NEW t \in Creators, ThreadStep(t) \/ \E prefix \in Wanted : Create(t, prefix)
      PROVE  Mended'
  <2>1. UNCHANGED <<lists, spoiled>>
    BY <1>7 DEF ThreadStep, Draw, StorePublic, CheckPrefix, Created, Create, history
  <2> QED
    BY <2>1 DEF lists, Mended
<1>8. ASSUME NEW name \in Names \cup {NoName}, Keep(name)
      PROVE  Mended'
  BY <1>8 DEF Keep, history, Mended
<1>9. CASE AddWallet
  <2>1. writing = "none"
    BY <1>9 DEF AddWallet, Quiet
  <2> QED
    BY <1>9, <2>1, SaveMends DEF AddWallet, Files
<1>10. CASE AddKeptAddress
  BY <1>10, SaveMends DEF AddKeptAddress, Files
<1>11. CASE ResetWindow
  BY <1>11 DEF ResetWindow, history, Mended
<1>12. ASSUME NEW name \in Names, NEW key \in Keys, AddAddress(name, key)
       PROVE  Mended'
  BY <1>12, SaveMends DEF AddAddress, Files
<1>13. CASE UNCHANGED vars
  BY <1>13 DEF vars, lists, history, Mended
<1> QED
  BY <1>1, <1>2, <1>3, <1>4, <1>5, <1>6, <1>7, <1>8, <1>9, <1>10, <1>11, <1>12, <1>13 DEF Next

KeyInv ==
  /\ Types /\ AloneInv /\ Quiet /\ Mended /\ LastKept
  /\ \A f \in Files : Held(f)

LEMMA KeyInit == Init => KeyInv
<1> SUFFICES ASSUME Init PROVE KeyInv
  OBVIOUS
<1>1. Types /\ AloneInv
  BY InitTypes, AloneInit
<1>2. /\ ui = "off" /\ writing = "none" /\ wallets = <<>> /\ book = <<>> /\ kept = <<>>
      /\ \A f \in Files : file[f].entries = <<>> /\ file[f].cut = NoName
  BY DEF Init
<1>3. Quiet /\ Mended /\ LastKept
  BY <1>2 DEF Quiet, Mended, LastKept, InMemory, Files
<1>4. ASSUME NEW f \in Files PROVE Held(f)
  <2>1. All(f) = <<>> /\ Unread(f)
    BY <1>2 DEF All, Unread
  <2>2. Distinct(f, <<>>) /\ AllPlain(f, <<>>)
    BY DEF Distinct, AllPlain
  <2>3. DOMAIN kept = {}
    BY <1>2
  <2> QED
    BY <2>1, <2>2, <2>3 DEF Held, Stored, Has, Synced
<1> QED
  BY <1>1, <1>3, <1>4 DEF KeyInv

LEMMA KeyNext == KeyInv /\ [Next]_vars => KeyInv'
BY NextTypes, AloneNext, QuietNext, MendedNext, LastKeptNext, HeldNext DEF KeyInv

THEOREM KeysInvariant == Spec => []KeyInv
<1> QED
  BY KeyInit, KeyNext, PTL DEF Spec

\* What a settled file has.
LEMMA SettledFile ==
  ASSUME KeyInv, NEW f \in Files, Settled(f), NEW i \in DOMAIN kept, Owed(f, i)
  PROVE  Holds(f, file[f].entries, kept[i].wallet.name, Worth(f, kept[i].wallet.value))
<1>1. Types /\ Stored(f) /\ f \notin Unsettled
  BY DEF Settled, KeyInv, Held, Safe
<1>2. Holds(f, All(f), kept[i].wallet.name, Worth(f, kept[i].wallet.value))
  BY <1>1 DEF Stored, Has
<1>3. writing # f /\ (ui = f => loading = <<>>)
  BY DEF Settled, Unsettled, Files
<1>4. file[f].entries \in Lists(Kind(f)) /\ InMemory(f) \in Lists(Kind(f))
  BY <1>1, KnownLists
<1>5. All(f) = file[f].entries
  <2>1. CASE Unread(f)
    BY <2>1 DEF All
  <2>2. CASE ~Unread(f)
    <3>1. OnDisk(f) = file[f].entries \o <<>> /\ OnDisk(f) = InMemory(f)
      BY <1>1, <1>3, <2>2 DEF OnDisk, Stored, Synced, Opening
    <3>2. file[f].entries = InMemory(f)
      BY <1>4, <3>1, NothingAdded, ListsAre
    <3>3. CASE ui = f
      <4>1. All(f) = InMemory(f) \o <<>>
        BY <1>3, <2>2, <3>3 DEF All
      <4> QED
        BY <1>4, <3>2, <4>1, NothingAdded, ListsAre
    <3>4. CASE ui # f
      BY <2>2, <3>2, <3>4 DEF All
    <3> QED
      BY <3>3, <3>4
  <2> QED
    BY <2>1, <2>2
<1> QED
  BY <1>2, <1>5

LEMMA KeptIs == \A k \in ToSet(kept) : \E i \in DOMAIN kept : kept[i] = k
BY DEF ToSet

\* No wallet that was kept is missing from its file, whichever crash came between
\* whichever lines, unless a save was cut short, a name that vili does not read as
\* it is was given to a wallet, or what it reads of a name was used twice (WalletList
\* add_wallet, save and vili writeFile, parseFile).
THEOREM KeysAlwaysKept == Spec => []KeysKept
<1>1. KeyInv => KeysKept
  <2> SUFFICES ASSUME KeyInv, Settled("wallets"), NEW k \in ToSet(kept)
               PROVE  \E i \in DOMAIN file["wallets"].entries :
                        LET entry == file["wallets"].entries[i]
                        IN /\ Reading("wallets", entry.name) = Reading("wallets", k.wallet.name)
                           /\ entry.value = k.wallet.value
    BY DEF KeysKept
  <2>1. PICK i \in DOMAIN kept : kept[i] = k
    BY KeptIs
  <2>2. Owed("wallets", i)
    BY DEF Owed
  <2>3. Holds("wallets", file["wallets"].entries, k.wallet.name, Worth("wallets", k.wallet.value))
    BY <2>1, <2>2, SettledFile DEF Files
  <2> QED
    BY <2>3 DEF Holds, Worth
<1> QED
  BY <1>1, KeysInvariant, PTL

\* The book has the address of every wallet that one thread generated alone and that
\* was kept: what the window holds when it adds the address is still the wallet that
\* it added before, though the two saves lie between (CreateWalletWindow::update).
\* The exceptions are those of the wallets, by the names of the book.
THEOREM AddressesAlwaysKept == Spec => []AddressesKept
<1>1. KeyInv => AddressesKept
  <2> SUFFICES ASSUME KeyInv, Settled("book"), NEW k \in ToSet(kept), k.alone
               PROVE  \E i \in DOMAIN file["book"].entries :
                        LET entry == file["book"].entries[i]
                        IN /\ Reading("book", entry.name) = Reading("book", k.wallet.name)
                           /\ entry.value = k.wallet.value.public
    BY DEF AddressesKept
  <2>1. PICK i \in DOMAIN kept : kept[i] = k
    BY KeptIs
  <2>2. Owed("book", i)
    BY <2>1 DEF Owed, Settled, Unsettled
  <2>3. Holds("book", file["book"].entries, k.wallet.name, Worth("book", k.wallet.value))
    BY <2>1, <2>2, SettledFile DEF Files
  <2> QED
    BY <2>3 DEF Holds, Worth
<1> QED
  BY <1>1, KeysInvariant, PTL

-----------------------------------------------------------------------------
(***************************************************************************)
(* What keeps the program from starting: a file of wallets cut short, or a *)
(* name that breaks its line.  As long as there was neither, no list, file *)
(* or save has such a name.                                                *)
(***************************************************************************)
Tame(f)  == {n \in Names : Grammar[f][n].kind # "broken"}
Tames(f) == Seq(Named(Tame(f), Kind(f)))

Excuse ==
  \/ "wallets" \in spoiled
  \/ \E f \in Files, n \in Names : <<f, n>> \in odd /\ Grammar[f][n].kind = "broken"

Tamed(f) ==
  /\ file[f].entries \in Tames(f) /\ InMemory(f) \in Tames(f)
  /\ writing = f => lines \in Tames(f)
  /\ ui = f => loading \in Tames(f)

Fine ==
  /\ ~Excuse => \A f \in Files : Tamed(f)
  /\ ui = "failed" => Excuse

LEMMA TameIs ==
  ASSUME NEW f \in Files, NEW list \in Tames(f)
  PROVE  /\ list \in Lists(Kind(f))
         /\ \A i \in DOMAIN list : list[i].name \in Tame(f)
         /\ list # <<>> => Head(list) \in Named(Tame(f), Kind(f)) /\ Tail(list) \in Tames(f)
<1> DEFINE E == Named(Tame(f), Kind(f))
<1>1. list \in Seq(E)
  BY DEF Tames
<1>2. E \subseteq Element(Kind(f)) /\ \A e \in E : e.name \in Tame(f)
  BY DEF Named, Element, Tame
<1> HIDE DEF E
<1>3. list \in Seq(Element(Kind(f)))
  BY <1>1, <1>2, SeqMonotonic
<1>4. \A i \in DOMAIN list : list[i] \in E
  BY <1>1
<1>5. list # <<>> => Head(list) \in E /\ Tail(list) \in Seq(E)
  BY <1>1
<1> QED
  BY <1>2, <1>3, <1>4, <1>5, ListsAre DEF Tames, E

LEMMA NoneTamed == \A f : <<>> \in Tames(f)
<1> SUFFICES ASSUME NEW f PROVE <<>> \in Tames(f)
  OBVIOUS
<1> DEFINE E == Named(Tame(f), Kind(f))
<1> HIDE DEF E
<1>1. <<>> \in Seq(E)
  OBVIOUS
<1> QED
  BY <1>1 DEF Tames, E

LEMMA SaveTamed ==
  ASSUME Types, NEW f \in Files, NEW list \in Tames(f), Save(f, list)
  PROVE  /\ file'[f].entries \in Tames(f) /\ lines' \in Tames(f)
         /\ \A g \in Files : g # f => file'[g] = file[g] /\ writing' # g
<1>1. Collapse(list) \in Tames(f)
  BY CollapseIs DEF Tames
<1>2. file'[f].entries = <<>>
  BY DEF Save, Types, FilesTyped
<1>3. lines' = Collapse(list)
  BY DEF Save
<1> QED
  BY <1>1, <1>2, <1>3, NoneTamed, SaveSpares

\* An entry is added to a list.
LEMMA AddTamed ==
  ASSUME Types, NEW f \in Files, \A g \in Files : Tamed(g),
         NEW e \in Named(Tame(f), Kind(f)),
         InMemory(f)' = Append(InMemory(f), e), Save(f, InMemory(f)'),
         \A g \in Files : /\ g # f => InMemory(g)' = InMemory(g)
                          /\ ui' = g => loading' \in Tames(g)
  PROVE  \A g \in Files : Tamed(g)'
<1>1. Append(InMemory(f), e) \in Tames(f)
  <2> DEFINE E == Named(Tame(f), Kind(f))
  <2>1. InMemory(f) \in Seq(E) /\ e \in E
    BY DEF Tamed, Tames
  <2> HIDE DEF E
  <2>2. Append(InMemory(f), e) \in Seq(E)
    BY <2>1
  <2> QED
    BY <2>2 DEF E, Tames
<1>2. InMemory(f)' \in Tames(f)
  BY <1>1
<1>3. /\ file'[f].entries \in Tames(f) /\ lines' \in Tames(f)
      /\ \A g \in Files : g # f => file'[g] = file[g] /\ writing' # g
  BY <1>2, SaveTamed
<1>4. ASSUME NEW g \in Files
      PROVE  Tamed(g)'
  <2>1. CASE g = f
    BY <1>2, <1>3, <2>1 DEF Tamed
  <2>2. CASE g # f
    BY <1>3, <2>2 DEF Tamed
  <2> QED
    BY <2>1, <2>2
<1> QED
  BY <1>4

\* A name given that does not break its line.
LEMMA NotedTame ==
  ASSUME NEW f \in Files, NEW list, NEW name \in Names, Note(f, list, name), ~Excuse'
  PROVE  name \in Tame(f)
<1> SUFFICES ASSUME Grammar[f][name].kind = "broken" PROVE FALSE
  BY DEF Tame
<1>1. ~Plain(f, name)
  BY DEF Plain
<1>2. <<f, name>> \in odd'
  BY <1>1 DEF Note
<1> QED
  BY <1>2 DEF Excuse

\* A file that is whole is read as a list of such names.
LEMMA LoadTamed ==
  ASSUME NEW f \in Files, file[f].entries \in Tames(f), file[f].cut = NoName
  PROVE  Load(f) \in Tames(f)
<1> DEFINE old == file[f].entries
<1>1. old \in Lists(Kind(f)) /\ \A i \in DOMAIN old : old[i].name \in Tame(f)
  BY TameIs
<1> HIDE DEF old
<1>2. ASSUME NEW i \in DOMAIN old
      PROVE  (IF Grammar[f][old[i].name].kind = "broken" THEN NoName
              ELSE Grammar[f][old[i].name].as) \in Tame(f)
  <2>1. old[i].name \in Names /\ Grammar[f][old[i].name].kind # "broken"
    BY <1>1 DEF Tame
  <2> QED
    BY <2>1, NamesAssumption DEF Tame
<1>3. Read(f, old) \in Seq(Named(Tame(f), Kind(f)))
  BY <1>1, <1>2, ReadIs
<1>4. Load(f) = Read(f, old) \o <<>>
  BY DEF Load, Halved, old
<1> QED
  BY <1>3, <1>4, NothingAdded DEF Tames

LEMMA ExcuseStays == [Next]_vars /\ Excuse => Excuse'
<1> SUFFICES ASSUME [Next]_vars PROVE spoiled \subseteq spoiled' /\ odd \subseteq odd'
  BY DEF Excuse
<1>1. CASE Start \/ OpenBook \/ LoadWallet \/ LoadAddress \/ ShowWindow \/ WriteLine
  BY <1>1 DEF Start, OpenBook, LoadWallet, LoadAddress, ShowWindow, WriteLine, history
<1>2. CASE FailToStart \/ Kill \/ AddWalletThrows
  BY <1>2 DEF FailToStart, Kill, AddWalletThrows
<1>3. ASSUME NEW t \in Creators, ThreadStep(t) \/ \E prefix \in Wanted : Create(t, prefix)
      PROVE  spoiled' = spoiled /\ odd' = odd
  BY <1>3 DEF ThreadStep, Draw, StorePublic, CheckPrefix, Created, Create, history
<1>4. ASSUME NEW name \in Names \cup {NoName}, Keep(name)
      PROVE  spoiled' = spoiled /\ odd' = odd
  BY <1>4 DEF Keep, history
<1>5. CASE AddWallet \/ AddKeptAddress
  BY <1>5 DEF AddWallet, AddKeptAddress, Note
<1>6. CASE ResetWindow
  BY <1>6 DEF ResetWindow, history
<1>7. ASSUME NEW name \in Names, NEW key \in Keys, AddAddress(name, key)
      PROVE  spoiled' = spoiled /\ odd \subseteq odd'
  BY <1>7 DEF AddAddress, Note
<1>8. CASE UNCHANGED vars
  BY <1>8 DEF vars, history
<1> QED
  BY <1>1, <1>2, <1>3, <1>4, <1>5, <1>6, <1>7, <1>8 DEF Next

\* Without an excuse, what is read can be read.
LEMMA TameParses ==
  ASSUME NEW f \in Files, Tamed(f)
  PROVE  ~Unparsable(f, file[f].entries)
<1>1. \A i \in DOMAIN file[f].entries : Grammar[f][file[f].entries[i].name].kind # "broken"
  BY TameIs DEF Tamed, Tame
<1> QED
  BY <1>1 DEF Unparsable

LEMMA TameLoads ==
  ASSUME NEW f \in Files, Tamed(f), ui = f, loading # <<>>
  PROVE  Head(loading) \in Named(Tame(f), Kind(f)) /\ Tail(loading) \in Tames(f)
         /\ Head(loading).name # NoName
<1>1. Head(loading) \in Named(Tame(f), Kind(f)) /\ Tail(loading) \in Tames(f)
  BY TameIs DEF Tamed
<1>2. Head(loading).name \in Names
  BY <1>1, EntryIs DEF Tame
<1> QED
  BY <1>1, <1>2, NamesAssumption

\* Nothing happened to the lists.
LEMMA TamedStill ==
  ASSUME \A f \in Files : Tamed(f),
         UNCHANGED <<file, writing, lines, wallets, book>>,
         \A f \in Files : ui' = f => loading' \in Tames(f)
  PROVE  \A f \in Files : Tamed(f)'
BY DEF Tamed, InMemory

LEMMA TamedWrite ==
  ASSUME Types, \A f \in Files : Tamed(f), WriteLine
  PROVE  \A f \in Files : Tamed(f)'
<1>1. UNCHANGED <<ui, loading, wallets, book>> /\ writing \in Files /\ DOMAIN file = Files
  BY DEF WriteLine, Types, FilesTyped
<1>2. ASSUME NEW f \in Files
      PROVE  Tamed(f)'
  <2>0. InMemory(f)' = InMemory(f) /\ Tamed(f)
    BY <1>1 DEF InMemory
  <2>1. CASE writing # f
    <3>1. file'[f] = file[f] /\ writing' # f
      BY <1>1, <2>1 DEF WriteLine, Files
    <3> QED
      BY <1>1, <2>0, <3>1 DEF Tamed
  <2>2. CASE writing = f /\ lines = <<>>
    <3>1. file' = file /\ lines' = lines
      BY <2>2 DEF WriteLine
    <3> QED
      BY <1>1, <2>0, <2>2, <3>1, NoneTamed DEF Tamed
  <2>3. CASE writing = f /\ lines # <<>> /\ f = "wallets" /\ file[f].cut = NoName
    <3>1. /\ file' = [file EXCEPT ![f].cut = Head(lines).name]
          /\ writing' = f /\ lines' = lines
      BY <2>3 DEF WriteLine
    <3>2. file'[f].entries = file[f].entries
      <4>1. file[f] \in FileOf(f)
        BY DEF Types, FilesTyped
      <4> QED
        BY <1>1, <3>1, <4>1 DEF FileOf
    <3> QED
      BY <1>1, <2>0, <2>3, <3>1, <3>2 DEF Tamed
  <2>4. CASE writing = f /\ lines # <<>> /\ ~(f = "wallets" /\ file[f].cut = NoName)
    <3> DEFINE new == [entries |-> Append(file[f].entries, Head(lines)), cut |-> NoName]
               T == Named(Tame(f), Kind(f))
    <3>1. file' = [file EXCEPT ![f] = new] /\ writing' = f /\ lines' = Tail(lines)
      BY <2>4 DEF WriteLine
    <3>2. file'[f].entries = Append(file[f].entries, Head(lines))
      BY <1>1, <3>1
    <3>3. file[f].entries \in Seq(T) /\ Head(lines) \in T /\ Tail(lines) \in Tames(f)
      BY <2>0, <2>4, TameIs DEF Tamed, Tames
    <3> HIDE DEF T, new
    <3>4. Append(file[f].entries, Head(lines)) \in Seq(T)
      BY <3>3
    <3>5. file'[f].entries \in Tames(f)
      BY <3>2, <3>4 DEF T, Tames
    <3> QED
      BY <1>1, <2>0, <3>1, <3>3, <3>5 DEF Tamed
  <2> QED
    BY <2>1, <2>2, <2>3, <2>4
<1> QED
  BY <1>2

LEMMA FineNext == KeyInv /\ Fine /\ [Next]_vars => Fine'
<1> SUFFICES ASSUME KeyInv, Fine, [Next]_vars, ~Excuse'
             PROVE  (\A f \in Files : Tamed(f)') /\ ui' # "failed"
  BY DEF Fine
<1>0. /\ Types /\ Quiet /\ Mended
      /\ ~Excuse /\ (\A f \in Files : Tamed(f)) /\ ui # "failed" /\ "wallets" \notin spoiled
  BY ExcuseStays DEF Fine, KeyInv, Excuse
<1>1. CASE Start
  <2>1. /\ writing = "none" /\ ui' = "wallets" /\ loading' = Load("wallets")
        /\ UNCHANGED <<file, writing, lines, wallets, book>>
    BY <1>0, <1>1 DEF Start, Quiet
  <2>2. Load("wallets") \in Tames("wallets")
    BY <1>0, <2>1, LoadTamed DEF Mended, Files, Tamed
  <2> QED
    BY <1>0, <2>1, <2>2, TamedStill DEF Files
<1>2. CASE FailToStart
  <2>1. CASE Unparsable("wallets", file["wallets"].entries)
    BY <1>0, <2>1, TameParses DEF Files
  <2>2. CASE Unparsable("book", file["book"].entries)
    BY <1>0, <2>2, TameParses DEF Files
  <2>3. CASE ui \in Files /\ loading # <<>> /\ Head(loading).name = NoName
    BY <1>0, <2>3, TameLoads
  <2> QED
    BY <1>2, <2>1, <2>2, <2>3 DEF FailToStart, Files
<1>3. CASE Kill \/ AddWalletThrows
  <2>1. Die("off")
    BY <1>3 DEF Kill, AddWalletThrows
  <2>2. /\ ui' = "off" /\ writing' = "none" /\ file' = file
        /\ \A f \in Files : InMemory(f)' = <<>>
    BY <2>1 DEF Die, InMemory
  <2> QED
    BY <1>0, <2>2, NoneTamed DEF Tamed, Files
<1>4. CASE LoadWallet
  <2>1. /\ ui = "wallets" /\ ui' = "wallets" /\ loading # <<>> /\ loading' = Tail(loading)
        /\ InMemory("wallets")' = Append(InMemory("wallets"), Head(loading))
        /\ InMemory("book")' = InMemory("book") /\ Save("wallets", InMemory("wallets")')
    BY <1>4 DEF LoadWallet, InMemory
  <2>2. Head(loading) \in Named(Tame("wallets"), Kind("wallets"))
        /\ Tail(loading) \in Tames("wallets")
    BY <1>0, <2>1, TameLoads DEF Files
  <2>3. \A g \in Files : /\ g # "wallets" => InMemory(g)' = InMemory(g)
                         /\ ui' = g => loading' \in Tames(g)
    BY <2>1, <2>2 DEF Files
  <2> QED
    BY <1>0, <2>1, <2>2, <2>3, AddTamed DEF Files
<1>5. CASE OpenBook
  <2>1. /\ writing = "none" /\ ui' = "book" /\ loading' = Load("book")
        /\ UNCHANGED <<file, writing, lines, wallets, book>>
    BY <1>5 DEF OpenBook
  <2>2. file["book"].cut = NoName
    BY <1>0 DEF Types, FilesTyped, FileOf, Files
  <2>3. Load("book") \in Tames("book")
    BY <1>0, <2>2, LoadTamed DEF Files, Tamed
  <2> QED
    BY <1>0, <2>1, <2>3, TamedStill DEF Files
<1>6. CASE LoadAddress
  <2>1. /\ ui = "book" /\ ui' = "book" /\ loading # <<>> /\ loading' = Tail(loading)
        /\ InMemory("book")' = Append(InMemory("book"), Head(loading))
        /\ InMemory("wallets")' = InMemory("wallets") /\ Save("book", InMemory("book")')
    BY <1>6 DEF LoadAddress, InMemory
  <2>2. Head(loading) \in Named(Tame("book"), Kind("book")) /\ Tail(loading) \in Tames("book")
    BY <1>0, <2>1, TameLoads DEF Files
  <2>3. \A g \in Files : /\ g # "book" => InMemory(g)' = InMemory(g)
                         /\ ui' = g => loading' \in Tames(g)
    BY <2>1, <2>2 DEF Files
  <2> QED
    BY <1>0, <2>1, <2>2, <2>3, AddTamed DEF Files
<1>7. CASE ShowWindow
  <2>1. ui' = "window" /\ UNCHANGED <<file, writing, lines, wallets, book>>
    BY <1>7 DEF ShowWindow
  <2> QED
    BY <1>0, <2>1, TamedStill DEF Files
<1>8. CASE WriteLine
  <2>1. ui' = ui
    BY <1>8 DEF WriteLine
  <2> QED
    BY <1>0, <1>8, <2>1, TamedWrite
<1>9. CASE UNCHANGED lists
  <2>1. UNCHANGED <<ui, loading, file, writing, lines, wallets, book>>
    BY <1>9 DEF lists
  <2> QED
    BY <1>0, <2>1, TamedStill DEF Tamed
<1>10. ASSUME NEW t \in Creators, ThreadStep(t) \/ \E prefix \in Wanted : Create(t, prefix)
       PROVE  UNCHANGED lists
  BY <1>10 DEF ThreadStep, Draw, StorePublic, CheckPrefix, Created, Create
<1>11. ASSUME NEW name \in Names \cup {NoName}, Keep(name)
       PROVE  (\A f \in Files : Tamed(f)') /\ ui' # "failed"
  <2>1. ui' = "keep" /\ UNCHANGED <<file, writing, lines, wallets, book>>
    BY <1>11 DEF Keep
  <2> QED
    BY <1>0, <2>1, TamedStill DEF Files
<1>12. CASE AddWallet
  <2> DEFINE wallet == Entry(copied.name, [public |-> copied.value, private |-> creator.private])
  <2>1. /\ ui = "keep" /\ ui' = "kept" /\ copied.name # NoName
        /\ InMemory("wallets")' = Append(InMemory("wallets"), wallet)
        /\ InMemory("book")' = InMemory("book") /\ Save("wallets", InMemory("wallets")')
        /\ Note("wallets", wallets, copied.name)
    BY <1>12 DEF AddWallet, Found, InMemory
  <2>2. copied.name \in Names /\ [public |-> copied.value, private |-> creator.private] \in Pairs
    BY <1>0, <2>1 DEF Types, CopyTyped, ThreadsTyped, Pairs
  <2>3. copied.name \in Tame("wallets")
    BY <2>1, <2>2, NotedTame DEF Files
  <2>4. wallet \in Named(Tame("wallets"), Kind("wallets"))
    BY <2>2, <2>3, EntryIs DEF Kind
  <2> HIDE DEF wallet
  <2>5. \A g \in Files : /\ g # "wallets" => InMemory(g)' = InMemory(g)
                         /\ ui' = g => loading' \in Tames(g)
    BY <2>1 DEF Files
  <2> QED
    BY <1>0, <2>1, <2>4, <2>5, AddTamed DEF Files
<1>13. ASSUME NEW name \in Names, NEW key \in Keys, book' = Append(book, Entry(name, key)),
              Save("book", book'), Note("book", book, name), wallets' = wallets,
              ui' \in {"reset", "window"}
       PROVE  (\A f \in Files : Tamed(f)') /\ ui' # "failed"
  <2>1. name \in Tame("book")
    BY <1>13, NotedTame DEF Files
  <2>2. Entry(name, key) \in Named(Tame("book"), Kind("book"))
    BY <2>1, EntryIs DEF Kind
  <2>3. /\ InMemory("book")' = Append(InMemory("book"), Entry(name, key))
        /\ Save("book", InMemory("book")')
        /\ \A g \in Files : /\ g # "book" => InMemory(g)' = InMemory(g)
                            /\ ui' = g => loading' \in Tames(g)
    BY <1>13 DEF InMemory, Files
  <2> QED
    BY <1>0, <1>13, <2>2, <2>3, AddTamed DEF Files
<1>14. CASE AddKeptAddress
  <2>1. copied.name \in Names /\ creator.public \in Keys
    BY <1>0, <1>14 DEF AddKeptAddress, Types, CopyTyped, ThreadsTyped, Pairs
  <2> QED
    BY <1>13, <1>14, <2>1 DEF AddKeptAddress
<1>15. CASE ResetWindow
  <2>1. ui' = "window" /\ UNCHANGED <<file, writing, lines, wallets, book>>
    BY <1>15 DEF ResetWindow
  <2> QED
    BY <1>0, <2>1, TamedStill DEF Files
<1>16. ASSUME NEW name \in Names, NEW key \in Keys, AddAddress(name, key)
       PROVE  (\A f \in Files : Tamed(f)') /\ ui' # "failed"
  <2>1. /\ book' = Append(book, Entry(name, key)) /\ Save("book", book')
        /\ Note("book", book, name) /\ wallets' = wallets /\ ui' = "window"
    BY <1>16 DEF AddAddress
  <2> QED
    BY <1>13, <2>1
<1>17. CASE UNCHANGED vars
  <2>1. UNCHANGED lists
    BY <1>17 DEF vars
  <2> QED
    BY <1>9, <2>1
<1> QED
  BY <1>1, <1>2, <1>3, <1>4, <1>5, <1>6, <1>7, <1>8, <1>9, <1>10, <1>11, <1>12, <1>14, <1>15,
     <1>16, <1>17 DEF Next

LEMMA FineInit == Init => Fine
<1> SUFFICES ASSUME Init PROVE Fine
  OBVIOUS
<1>1. /\ ui = "off" /\ writing = "none" /\ wallets = <<>> /\ book = <<>>
      /\ \A f \in Files : file[f].entries = <<>>
  BY DEF Init
<1> QED
  BY <1>1, NoneTamed DEF Fine, Tamed, InMemory, Files

\* However the program ended before, and whatever it loads, it fails to start only
\* when its end has cut the file of the wallets short, or when the user gave a name
\* that breaks the line it is written on (WalletList::WalletList,
\* AddressBook::AddressBook, vili parseFile and writeFile).
THEOREM AlwaysStartsUnlessCut == Spec => []StartsUnlessCut
<1>1. Fine => StartsUnlessCut
  BY DEF Fine, StartsUnlessCut, Excuse
<1> QED
  BY <1>1, FineInit, FineNext, KeysInvariant, PTL DEF Spec
=============================================================================
