------------------------------- MODULE Ledger -------------------------------
(***************************************************************************)
(* What a user of IsenCoin may rely on: the ledger of a process, as the    *)
(* sequence of its sealed blocks, is only ever extended by one block at a  *)
(* time.  It says nothing of threads, of messages or of pending blocks;    *)
(* Chain is shown to implement it.                                         *)
(*                                                                         *)
(* Three things break the rule and are spelt out: "Force Sync" empties a   *)
(* ledger of at most one block, a process that dies while it writes its    *)
(* file may lose blocks, and nothing holds of a process in which two       *)
(* threads have used the chain at the same time.                           *)
(***************************************************************************)
EXTENDS Integers, Sequences

CONSTANT Procs

VARIABLES
  made,    \* every block ever mined: its miner and the block it follows
  ledger,  \* the sealed blocks of each process, by their place in made
  saving,  \* the process is writing its file
  raced    \* two threads of the process have used the chain at once

vars == <<made, ledger, saving, raced>>

\* No block: what the first block of a ledger follows.
None == 0

Blocks == 1..Len(made)

Cuts(l) == {SubSeq(l, 1, k) : k \in 0..Len(l)}

\* A block fits the end of a ledger, which was made by the owner unless empty.
Fits(n, b, l) ==
  l # <<>> => made[b].by = n /\ made[b].prev = l[Len(l)]

Init ==
  /\ made = <<>>
  /\ ledger = [n \in Procs |-> <<>>]
  /\ saving = [n \in Procs |-> FALSE]
  /\ raced = [n \in Procs |-> FALSE]

Make(n, prev) ==
  /\ made' = Append(made, [by |-> n, prev |-> prev])
  /\ UNCHANGED ledger

Extend(n, b) ==
  /\ Fits(n, b, ledger[n])
  /\ ledger' = [ledger EXCEPT ![n] = Append(@, b)]
  /\ UNCHANGED made

\* Force Sync.
Restart(n) ==
  /\ Len(ledger[n]) <= 1
  /\ ledger' = [ledger EXCEPT ![n] = <<>>]
  /\ UNCHANGED made

\* The process dies in a save: what is left is the start of what it wrote.
Lose(n) ==
  /\ saving[n]
  /\ \E l \in Cuts(ledger[n]) : ledger' = [ledger EXCEPT ![n] = l]
  /\ UNCHANGED made

Spoil(n) ==
  /\ raced'[n]
  /\ ledger' = [ledger EXCEPT ![n] = ledger'[n]]
  /\ ledger'[n] \in Seq(Blocks)
  /\ UNCHANGED made

Rest == UNCHANGED <<made, ledger>>

Next ==
  /\ saving' \in [Procs -> BOOLEAN]
  /\ raced' \in [Procs -> BOOLEAN]
  /\ \A n \in Procs : raced[n] => raced'[n]
  /\ \/ Rest
     \/ \E n \in Procs :
          \/ \E prev \in Blocks \cup {None} : Make(n, prev)
          \/ \E b \in Blocks : Extend(n, b)
          \/ Restart(n)
          \/ Lose(n)
          \/ Spoil(n)

Spec == Init /\ [][Next]_vars
=============================================================================
