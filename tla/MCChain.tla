------------------------------ MODULE MCChain ------------------------------
(* Finite instances of Chain for TLC. *)
EXTENDS Chain

CONSTANTS n1, n2, mint

\* A payment of nothing, which needs no funds, one of a whole reward,
\* and a negative one.
MCPayments == {[from |-> n1, to |-> n2, amount |-> 0],
               [from |-> n1, to |-> n2, amount |-> Reward],
               [from |-> n2, to |-> n1, amount |-> -1]}

\* Nothing holds of a process whose threads have raced; raced stays TRUE.
Unraced == \A n \in Procs : ~raced[n]

\* The process a message comes from
Sender(m) == IF m.kind = "block" THEN solved[m.body.id].by ELSE m.body.from

\* n2 listens: its user does not mine, and makes at most one process die.  n1
\* starts first; no process is killed before both have their genesis blocks,
\* and a Force Sync and a kill leave one block less to mine.
OneListens ==
  /\ \A m \in net : m.to # Sender(m)
  /\ pc[n2].miner = "idle"
  /\ Up(n2) => solved # <<>>
  /\ (\E p \in paid : p.from = n2) => kills = 0
  /\ kills > 0 => Len(solved) > 1
  /\ kills > 0 /\ syncs > 0 => Len(solved) < MaxBlocks
  /\ \A i \in DOMAIN solved : i <= 2 => solved[i].by = <<n1, n2>>[i]

\* n1 lists itself, as config.vili has it, and n2 is not there.
ListsItself ==
  /\ ~Up(n2) /\ n2 \notin {solved[i].by : i \in DOMAIN solved}
  /\ Len(solved) + kills + syncs <= 3

OneOrTwo == Unraced /\ (OneListens \/ ListsItself)
=============================================================================
