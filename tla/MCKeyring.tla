----------------------------- MODULE MCKeyring -----------------------------
(* Finite instances of Keyring for TLC. *)
EXTENDS Keyring

CONSTANTS k1, k2, t1, plain, spaced, other, indented, closed, quoted, colon, slash

As(name) == [kind |-> "entry", as |-> name]

\* "spaced" is "pl ain" or "x[plain".  The odd names: "    plain", "x]", the key in
\* quotes, "plain:x" and "x/y".
OddNames == {indented, closed, quoted, colon, slash}
MCNames == {plain, spaced, other} \cup OddNames
MCGrammar ==
  [f \in Files |->
    [n \in MCNames |->
      CASE n = spaced -> As(plain)
        [] n = indented -> [kind |-> IF f = "wallets" THEN "inside" ELSE "entry", as |-> plain]
        [] n = closed -> IF f = "wallets" THEN [kind |-> "broken", as |-> NoName] ELSE As(quoted)
        [] n = quoted -> [kind |-> IF f = "book" THEN "nothing" ELSE "entry", as |-> quoted]
        [] n = colon -> IF f = "book" THEN [kind |-> "broken", as |-> plain] ELSE As(colon)
        [] n = slash -> [kind |-> IF f = "wallets" THEN "path" ELSE "entry", as |-> slash]
        [] OTHER -> As(n)]]

MCWanted == {{k1, k2}, {k1}}

\* Threads overlap, and files are cut, before a second wallet is kept.
OneHazardAtATime ==
  /\ overlapped => kept = <<>> /\ book = <<>> /\ spoiled = {}
  /\ spoiled # {} => Len(kept) <= 1

\* The names in the lists, in the files and in the window, and those there were
NamesOf(list) == {list[i].name : i \in DOMAIN list}
Typed ==
  {copied.name} \cup NamesOf(wallets) \cup NamesOf(book)
    \cup {kept[i].wallet.name : i \in DOMAIN kept} \cup {o[2] : o \in odd}
    \cup UNION {NamesOf(file[f].entries) \cup {file[f].cut} : f \in Files}

\* Odd names are given where one thread at a time creates at most two wallets, the
\* first one with k1 and the second one with k2.
OddAlone ==
  Typed \cap OddNames # {} =>
    /\ Typed \cap {spaced, other} = {}
    /\ \A t \in Creators : thread[t] # Idle => t = t1 /\ thread[t].prefix = {k1, k2}
    /\ Busy => Len(kept) < MaxWallets
    /\ ~overlapped
    /\ creator.private = k2 => kept # <<>>
    /\ \A i \in DOMAIN kept : kept[i].wallet.value.private = <<k1, k2>>[i]
    /\ \A i \in DOMAIN book : book[i].value = k2 => Len(kept) = 2

Bounded == OneHazardAtATime /\ OddAlone
=============================================================================
