------------------------------ MODULE Keyring ------------------------------
(***************************************************************************)
(* The keys of the user: the list of wallets, the address book, the two    *)
(* files they are kept in, and the window that creates a wallet with       *)
(* threads of its own.                                                     *)
(*                                                                         *)
(* Each list is loaded by adding its elements one at a time, and each      *)
(* addition truncates the file and writes it again.  A crash may come      *)
(* between any two lines.  A name is what the user typed, written without  *)
(* any quotes: some of its characters mean something to vili, which reads  *)
(* the file.                                                               *)
(***************************************************************************)
EXTENDS Integers, Sequences, SequencesExt, Loops

CONSTANTS
  Keys,        \* key pairs; the public and the private key of a pair bear its name
  NoKey,       \* the keys of a wallet that was never generated: zeros
  Names,       \* names of wallets and labels of addresses, none of them empty
  NoName,      \* the empty name
  Grammar,     \* what vili makes of a line of a file that has a name
  Wanted,      \* what may be asked of a public key, as the keys that have it
  Creators,    \* threads of CreateWalletWindow
  MaxWallets,  \* bound of the wallets kept in all
  MaxAddresses \* bound of the book, when an address is added

Files == {"wallets", "book"}

(***************************************************************************)
(* A line with a name is of one of these kinds.                            *)
(*   "entry"    It opens an entry, read under the name "as": the spaces    *)
(*              are dropped, and what precedes a bracket.                  *)
(*   "broken"   It opens an entry that cannot be loaded.  A wallet "a]" is *)
(*              a node of an empty name, whose keys go to the root; the    *)
(*              value of an address "a:b" is not a string.                 *)
(*   "inside"   Four spaces before the name of a wallet are an indentation.*)
(*              The first line opens an entry all the same; any other is a *)
(*              node inside the entry before it, and its keys, indented    *)
(*              once, replace the keys of that entry.                      *)
(*   "nothing"  An address "#a" is written without its name, and its line  *)
(*              is skipped.                                                *)
(*   "path"     A wallet "a/b" is not found where it was just created: the *)
(*              file is not written.                                       *)
(***************************************************************************)
Kinds(f) == {"entry", "broken"} \cup IF f = "wallets" THEN {"inside", "path"} ELSE {"nothing"}

ASSUME NamesAssumption ==
  /\ NoName \notin Names
  /\ Grammar \in [Files -> [Names -> [kind : STRING, as : Names \cup {NoName}]]]
  /\ \A f \in Files, n \in Names :
       LET line == Grammar[f][n]
       IN /\ line.kind \in Kinds(f)
          /\ line.kind # "broken" => line.as \in Names /\ Grammar[f][line.as].kind # "broken"
ASSUME KeysAssumption ==
  /\ NoKey \notin Keys
  /\ Wanted \subseteq (SUBSET Keys) \ {{}}

VARIABLES
  ui,           \* where the thread of the window is
  loading,      \* what a list has still to add of its file
  writing,      \* the file being written, or "none"
  lines,        \* what is still to be written to it
  wallets,      \* WalletList m_wallets
  book,         \* AddressBook m_addresses
  file,         \* "wallets.vili" and "addresses.vili", and the name of a wallet
                \* whose keys are not written yet
  creating,     \* CreateWalletWindow creating_wallet
  creator,      \* CreateWalletWindow wallet_creator
  thread,       \* the creators
  copied,       \* the name and the public key add_wallet has copied so far
  \* History, which the code does not keep:
  overlapped,   \* a creator was started while another one ran
  asked,        \* the prefix last asked for
  kept,         \* the wallets the user kept
  spoiled,      \* the files a crash has cut short
  clashed,      \* the files two entries of which have one name
  odd           \* the names given, per file, that are not plain

lists   == <<ui, loading, writing, lines, wallets, book, file>>
window  == <<creating, creator, thread, copied>>
history == <<overlapped, asked, kept, spoiled, clashed, odd>>
vars    == <<lists, window, history>>

Pairs == [public : Keys \cup {NoKey}, private : Keys \cup {NoKey}]
Entry(name, value) == [name |-> name, value |-> value]

Idle == [at |-> "idle", prefix |-> {}, key |-> NoKey]

Init ==
  /\ ui = "off" /\ loading = <<>> /\ writing = "none" /\ lines = <<>>
  /\ wallets = <<>> /\ book = <<>>
  /\ file = [f \in Files |-> [entries |-> <<>>, cut |-> NoName]]
  /\ creating = 0 /\ creator = [public |-> NoKey, private |-> NoKey]
  /\ thread = [t \in Creators |-> Idle] /\ copied = Entry(NoName, NoKey)
  /\ overlapped = FALSE /\ asked = {} /\ kept = <<>> /\ spoiled = {} /\ clashed = {} /\ odd = {}

-----------------------------------------------------------------------------
(***************************************************************************)
(* Files.  A vili node has one child of a name: a second entry of the same *)
(* name replaces the value of the first.                                   *)
(***************************************************************************)
Collapse(entries) ==
  LET firsts == {i \in DOMAIN entries : \A j \in 1..i - 1 : entries[j].name # entries[i].name}
      Latest(name) == CHOOSE i \in DOMAIN entries :
                        /\ entries[i].name = name
                        /\ \A j \in i + 1..Len(entries) : entries[j].name # name
      Merged(e) == Entry(e.name, entries[Latest(e.name)].value)
  IN Kept([i \in DOMAIN entries |-> Merged(entries[i])], firsts)

\* A name that is read back as it is, or under one name that is.
Plain(f, name) ==
  LET line == Grammar[f][name]
  IN line.kind = "entry" /\ Grammar[f][line.as] = [kind |-> "entry", as |-> line.as]

Nested(f, entries, i) == i # 1 /\ Grammar[f][entries[i].name].kind = "inside"

\* The last line of the entry that line i opens
LastUnder(f, entries, i) ==
  CHOOSE j \in i..Len(entries) :
    /\ \A k \in i + 1..j : Nested(f, entries, k)
    /\ j = Len(entries) \/ ~Nested(f, entries, j + 1)

\* parseFile: the entries of a file, those that cannot be loaded without a name
Read(f, entries) ==
  LET Line(i) == Grammar[f][entries[i].name]
      Opened(i) == Entry(IF Line(i).kind = "broken" THEN NoName ELSE Line(i).as,
                         entries[LastUnder(f, entries, i)].value)
      opening == {i \in DOMAIN entries : ~Nested(f, entries, i) /\ Line(i).kind # "nothing"}
  IN Collapse(Kept([i \in DOMAIN entries |-> Opened(i)], opening))

\* A wallet without its keys cannot be loaded, unless its line was one more of an
\* entry that has keys.
Halved(cut, entries) ==
  LET line == Grammar["wallets"][cut]
      read == Read("wallets", entries)
  IN IF \/ cut = NoName
        \/ line.kind = "inside" /\ entries # <<>>
        \/ \E i \in DOMAIN read : read[i].name = line.as
     THEN <<>>
     ELSE <<Entry(NoName, [public |-> NoKey, private |-> NoKey])>>

Load(f) == Read(f, file[f].entries) \o Halved(file[f].cut, file[f].entries)

\* The parser throws over a second value of another type, and over a wallet inside
\* the one that has no name.
Unparsable(f, entries) ==
  LET Line(i) == Grammar[f][entries[i].name]
  IN \E i, j \in DOMAIN entries :
       /\ Line(i).kind = "broken"
       /\ \/ Line(j).kind = "entry" /\ Line(j).as = Line(i).as
          \/ i < j /\ \A k \in i + 1..j : Nested(f, entries, k)

\* save, up to the opening of the file, which truncates it
Save(f, list) ==
  /\ writing' = f
  /\ lines' = Collapse(list)
  /\ file' = [file EXCEPT ![f] = [entries |-> <<>>, cut |-> NoName]]

\* The name given to one more element of a list
Note(f, list, name) ==
  /\ clashed' = IF \E i \in DOMAIN list : Grammar[f][list[i].name].as = Grammar[f][name].as
                THEN clashed \cup {f} ELSE clashed
  /\ odd' = IF Plain(f, name) THEN odd ELSE odd \cup {<<f, name>>}

\* Variant: the last line of the file is never written.
WriteLine_but_one ==
  /\ writing # "none"
  /\ IF lines = <<>>
     THEN writing' = "none" /\ UNCHANGED <<lines, file>>
     ELSE /\ UNCHANGED writing
          /\ IF writing = "wallets" /\ file[writing].cut = NoName
             THEN /\ file' = [file EXCEPT ![writing].cut = Head(lines).name]
                  /\ lines' = IF Len(lines) = 1 THEN <<>> ELSE lines
             ELSE /\ file' = [file EXCEPT
                        ![writing] = [entries |-> Append(@.entries, Head(lines)), cut |-> NoName]]
                  /\ lines' = Tail(lines)
  /\ UNCHANGED <<ui, loading, wallets, book, window, history>>

\* writeFile: every line is flushed.  A wallet has its name on one line, and its
\* keys on the next ones, without which it cannot be loaded.
WriteLine ==
  /\ writing # "none"
  /\ IF lines = <<>>
     THEN writing' = "none" /\ UNCHANGED <<lines, file>>
     ELSE /\ UNCHANGED writing
          /\ IF writing = "wallets" /\ file[writing].cut = NoName
             THEN /\ file' = [file EXCEPT ![writing].cut = Head(lines).name]
                  /\ UNCHANGED lines
             ELSE /\ file' = [file EXCEPT
                        ![writing] = [entries |-> Append(@.entries, Head(lines)), cut |-> NoName]]
                  /\ lines' = Tail(lines)
  /\ UNCHANGED <<ui, loading, wallets, book, window, history>>

-----------------------------------------------------------------------------
(***************************************************************************)
(* Start and end of the program.                                           *)
(***************************************************************************)
\* What is left of the program when it ends, and why it did.
Die(why) ==
  /\ ui' = why /\ loading' = <<>> /\ writing' = "none" /\ lines' = <<>>
  /\ wallets' = <<>> /\ book' = <<>>
  /\ creating' = 0 /\ creator' = [public |-> NoKey, private |-> NoKey]
  /\ thread' = [t \in Creators |-> Idle] /\ copied' = Entry(NoName, NoKey)
  /\ overlapped' = FALSE /\ asked' = {}
  /\ UNCHANGED <<file, kept>>

\* The files that the end of the program would cut short.
Unsettled ==
  (IF writing = "none" THEN {} ELSE {writing})
    \cup (IF loading # <<>> THEN {ui} ELSE {})
    \cup (IF ui = "kept" THEN {"book"} ELSE {})

Kill ==
  /\ ui \notin {"off", "failed"}
  /\ Die("off")
  /\ spoiled' = spoiled \cup Unsettled
  /\ UNCHANGED <<clashed, odd>>

\* WalletList
Start ==
  /\ ui \in {"off", "failed"} /\ ~Unparsable("wallets", file["wallets"].entries)
  /\ ui' = "wallets"
  /\ loading' = Load("wallets")
  /\ UNCHANGED <<writing, lines, wallets, book, file, window, history>>

\* Nobody catches an exception of parseFile, or of the access to an entry that cannot
\* be loaded: the entries before it have been added, and the file is left with them.
FailToStart ==
  /\ \/ ui \in {"off", "failed"} /\ Unparsable("wallets", file["wallets"].entries)
     \/ /\ ui = "wallets" /\ writing = "none" /\ loading = <<>>
        /\ Unparsable("book", file["book"].entries)
     \/ /\ ui \in {"wallets", "book"} /\ writing = "none" /\ loading # <<>>
        /\ Head(loading).name = NoName
  /\ Die("failed")
  /\ UNCHANGED <<spoiled, clashed, odd>>

LoadWallet ==
  /\ ui = "wallets" /\ writing = "none" /\ loading # <<>> /\ Head(loading).name # NoName
  /\ wallets' = Append(wallets, Head(loading))
  /\ Save("wallets", wallets')
  /\ loading' = Tail(loading)
  /\ UNCHANGED <<ui, book, window, history>>

OpenBook ==
  /\ ui = "wallets" /\ writing = "none" /\ loading = <<>>
  /\ ~Unparsable("book", file["book"].entries)
  /\ ui' = "book"
  /\ loading' = Load("book")
  /\ UNCHANGED <<writing, lines, wallets, book, file, window, history>>

\* Variant: save comes before emplace_back.
LoadAddress_unsaved ==
  /\ ui = "book" /\ writing = "none" /\ loading # <<>> /\ Head(loading).name # NoName
  /\ book' = Append(book, Head(loading))
  /\ Save("book", book)
  /\ loading' = Tail(loading)
  /\ UNCHANGED <<ui, wallets, window, history>>

LoadAddress ==
  /\ ui = "book" /\ writing = "none" /\ loading # <<>> /\ Head(loading).name # NoName
  /\ book' = Append(book, Head(loading))
  /\ Save("book", book')
  /\ loading' = Tail(loading)
  /\ UNCHANGED <<ui, wallets, window, history>>

ShowWindow ==
  /\ ui = "book" /\ writing = "none" /\ loading = <<>>
  /\ ui' = "window"
  /\ UNCHANGED <<loading, writing, lines, wallets, book, file, window, history>>

-----------------------------------------------------------------------------
(***************************************************************************)
(* The threads that create wallets.                                        *)
(***************************************************************************)
Busy == \E t \in Creators : thread[t].at # "idle"

\* Variant: the window takes the wallet for created.
Create_ready(t, prefix) ==
  /\ ui = "window" /\ writing = "none" /\ thread[t].at = "idle"
  /\ creating' = 2
  /\ thread' = [thread EXCEPT ![t] = [at |-> "draw", prefix |-> prefix, key |-> NoKey]]
  /\ overlapped' = Busy /\ asked' = prefix
  /\ UNCHANGED <<lists, creator, copied, kept, spoiled, clashed, odd>>

\* The button: nothing keeps it from being pressed while a creator runs.
Create(t, prefix) ==
  /\ ui = "window" /\ writing = "none" /\ thread[t].at = "idle"
  /\ creating' = 1
  /\ thread' = [thread EXCEPT ![t] = [at |-> "draw", prefix |-> prefix, key |-> NoKey]]
  /\ overlapped' = Busy /\ asked' = prefix
  /\ UNCHANGED <<lists, creator, copied, kept, spoiled, clashed, odd>>

\* Wallet generate: a pair of keys is drawn, and the private key is stored first.
Draw(t, key) ==
  /\ thread[t].at = "draw"
  /\ creator' = [creator EXCEPT !.private = key]
  /\ thread' = [thread EXCEPT ![t].at = "public", ![t].key = key]
  /\ UNCHANGED <<lists, creating, copied, history>>

StorePublic(t) ==
  /\ thread[t].at = "public"
  /\ creator' = [creator EXCEPT !.public = thread[t].key]
  /\ thread' = [thread EXCEPT ![t].at = "check", ![t].key = NoKey]
  /\ UNCHANGED <<lists, creating, copied, history>>

\* Variant: the loop ends with the first pair.
CheckPrefix_any(t) ==
  /\ thread[t].at = "check"
  /\ thread' = [thread EXCEPT ![t].at = "created"]
  /\ UNCHANGED <<lists, creating, creator, copied, history>>

CheckPrefix(t) ==
  /\ thread[t].at = "check"
  /\ thread' = [thread EXCEPT
       ![t].at = IF creator.public \in thread[t].prefix THEN "created" ELSE "draw"]
  /\ UNCHANGED <<lists, creating, creator, copied, history>>

\* Variant: the window is not told.
Created_silent(t) ==
  /\ thread[t].at = "created"
  /\ thread' = [thread EXCEPT ![t] = Idle]
  /\ UNCHANGED <<lists, creating, creator, copied, history>>

Created(t) ==
  /\ thread[t].at = "created"
  /\ creating' = 2
  /\ thread' = [thread EXCEPT ![t] = Idle]
  /\ UNCHANGED <<lists, creator, copied, history>>

-----------------------------------------------------------------------------
(***************************************************************************)
(* "Keep this wallet !" and "Add Address".                                 *)
(***************************************************************************)
\* add_wallet copies the wallet, its public key first.
Keep(name) ==
  /\ ui = "window" /\ writing = "none" /\ creating = 2
  /\ Len(kept) < MaxWallets
  /\ ui' = "keep"
  /\ copied' = Entry(name, creator.public)
  /\ UNCHANGED <<loading, writing, lines, wallets, book, file, creating, creator, thread, history>>

\* vili finds the node of a wallet again by its name.
Found(name) == name # NoName /\ Grammar["wallets"][name].kind # "path"

\* Variant: save comes before emplace_back.
AddWallet_saves_first ==
  /\ ui = "keep" /\ Found(copied.name)
  /\ LET wallet == Entry(copied.name, [public |-> copied.value, private |-> creator.private])
     IN /\ wallets' = Append(wallets, wallet)
        /\ Save("wallets", wallets)
        /\ kept' = Append(kept, [wallet |-> wallet, alone |-> ~overlapped])
  /\ Note("wallets", wallets, copied.name)
  /\ ui' = "kept"
  /\ UNCHANGED <<loading, book, window, overlapped, asked, spoiled>>

AddWallet ==
  /\ ui = "keep" /\ Found(copied.name)
  /\ LET wallet == Entry(copied.name, [public |-> copied.value, private |-> creator.private])
     IN /\ wallets' = Append(wallets, wallet)
        /\ Save("wallets", wallets')
        /\ kept' = Append(kept, [wallet |-> wallet, alone |-> ~overlapped])
  /\ Note("wallets", wallets, copied.name)
  /\ ui' = "kept"
  /\ UNCHANGED <<loading, book, window, overlapped, asked, spoiled>>

\* save throws before it opens the file, and nobody catches it.
AddWalletThrows ==
  /\ ui = "keep" /\ ~Found(copied.name)
  /\ Die("off")
  /\ UNCHANGED <<spoiled, clashed, odd>>

\* add_address, with the public key that the window holds by now
AddKeptAddress ==
  /\ ui = "kept" /\ writing = "none"
  /\ book' = Append(book, Entry(copied.name, creator.public))
  /\ Save("book", book')
  /\ Note("book", book, copied.name)
  /\ ui' = "reset"
  /\ UNCHANGED <<loading, wallets, window, overlapped, asked, kept, spoiled>>

ResetWindow ==
  /\ ui = "reset" /\ writing = "none"
  /\ ui' = "window"
  /\ creating' = 0 /\ copied' = Entry(NoName, NoKey)
  /\ UNCHANGED <<loading, writing, lines, wallets, book, file, creator, thread, history>>

AddAddress(name, key) ==
  /\ ui = "window" /\ writing = "none" /\ Len(book) < MaxAddresses
  /\ book' = Append(book, Entry(name, key))
  /\ Save("book", book')
  /\ Note("book", book, name)
  /\ UNCHANGED <<ui, loading, wallets, window, overlapped, asked, kept, spoiled>>

-----------------------------------------------------------------------------
ThreadStep(t) ==
  \/ \E key \in Keys : Draw(t, key)
  \/ StorePublic(t)
  \/ CheckPrefix(t)
  \/ Created(t)

Next ==
  \/ Start \/ FailToStart \/ Kill
  \/ LoadWallet \/ OpenBook \/ LoadAddress \/ ShowWindow
  \/ WriteLine
  \/ \E t \in Creators : ThreadStep(t) \/ \E prefix \in Wanted : Create(t, prefix)
  \/ \E name \in Names \cup {NoName} : Keep(name)
  \/ AddWallet \/ AddWalletThrows \/ AddKeptAddress \/ ResetWindow
  \/ \E name \in Names, key \in Keys : AddAddress(name, key)

Spec == Init /\ [][Next]_vars

\* The threads run, and the keys are drawn at random: what is drawn for ever has
\* every prefix at some time.
Fairness ==
  \A t \in Creators :
    /\ WF_vars(ThreadStep(t))
    /\ \A key \in Keys : SF_vars(Draw(t, key))

FairSpec == Spec /\ Fairness

-----------------------------------------------------------------------------
Lists(values) == Seq([name : Names, value : values])
Reads(values) == Seq([name : Names \cup {NoName}, value : values])

TypeOK ==
  /\ ui \in {"off", "failed", "wallets", "book", "window", "keep", "kept", "reset"}
  /\ writing \in Files \cup {"none"} /\ (writing = "none" => lines = <<>>)
  /\ wallets \in Lists(Pairs) /\ book \in Lists(Keys)
  /\ file["wallets"].entries \in Lists(Pairs) /\ file["book"].entries \in Lists(Keys)
  /\ \A f \in Files : file[f].cut \in Names \cup {NoName}
  /\ lines \in Lists(Pairs) \cup Lists(Keys) /\ loading \in Reads(Pairs) \cup Reads(Keys)
  /\ creating \in 0..2 /\ creator \in Pairs
  /\ \A t \in Creators : /\ thread[t].at \in {"idle", "draw", "public", "check", "created"}
                         /\ thread[t].at \in {"check", "created"} => creator.public # NoKey
                         /\ thread[t].at = "idle" \/ thread[t].prefix \in Wanted
  /\ copied.name \in Names \cup {NoName} /\ (ui \in {"keep", "kept"} => copied.value \in Keys)

\* A wallet that was generated alone is kept as it was asked for: its private key
\* belongs to its public key, which has the prefix.  The thread stores one after
\* the other while the window reads them.
KeptAsAsked ==
  [][ui = "keep" /\ ui' = "kept" /\ ~overlapped =>
       LET wallet == Last(wallets').value
       IN wallet.private = wallet.public /\ wallet.public \in asked]_vars

Settled(f) == f \notin Unsettled \cup spoiled \cup clashed /\ \A n \in Names : <<f, n>> \notin odd

Reading(f, name) == Grammar[f][name].as

\* No wallet that was ever kept is missing from its file, unless a save was cut
\* short, a name that vili does not read as one was given to a wallet, or what vili
\* reads of a name was used twice.
KeysKept ==
  Settled("wallets") =>
    \A k \in ToSet(kept) : \E i \in DOMAIN file["wallets"].entries :
      LET entry == file["wallets"].entries[i]
      IN /\ Reading("wallets", entry.name) = Reading("wallets", k.wallet.name)
         /\ entry.value = k.wallet.value

\* Every wallet generated alone that was ever kept has its address in the book, under
\* its name: the two lists and the two files are changed one after the other, and
\* a name may be plain in one file and not in the other.
AddressesKept ==
  Settled("book") =>
    \A k \in ToSet(kept) :
      k.alone =>
        \E i \in DOMAIN file["book"].entries :
          LET entry == file["book"].entries[i]
          IN /\ Reading("book", entry.name) = Reading("book", k.wallet.name)
             /\ entry.value = k.wallet.value.public

\* The program fails to start only when its end has cut the file of the wallets
\* short, or when a wallet or an address was given a name that breaks its line.
StartsUnlessCut ==
  ui = "failed" =>
    \/ "wallets" \in spoiled
    \/ \E f \in Files, n \in Names : <<f, n>> \in odd /\ Grammar[f][n].kind = "broken"

\* A wallet that is generated alone is created in the end, unless the program ends
\* or another one is asked for.
CreationEnds ==
  (creating = 1 /\ ~overlapped) ~> (creating # 1 \/ overlapped)
=============================================================================
