---------------------------- MODULE MCAlgorithms ----------------------------
(* Finite instances of Wire, Base58 and Merkle for TLC. *)
EXTENDS Wire, Base58, Merkle

MCHalf == [w \in Widths |-> CASE w = 1 -> 128 [] w = 2 -> 200 [] w = 4 -> 300 [] w = 8 -> 400]

\* Numbers on both sides of every limit of dump and of parse.
Edges ==
  {0, 1, 15, 16, 31, 32, 33, 127, 128, 199, 200, 201, 255, 256, 299, 300, 399, 400, 401,
   599, 600, 601, 799}

\* Bodies with one field away from the smallest number.
MCBodies ==
  {[kind |-> k,
    fields |-> [f \in DOMAIN Sends(k) |->
                  Value(Sends(k)[f], IF f = g THEN n ELSE 0)]] :
      k \in Kinds, g \in {"port", "timestamp", "amount", "signature", "previous_hash",
                          "depth", "txs", "asked"}, n \in Edges}

MCBodiesTyped ==
  {b \in MCBodies : \A f \in DOMAIN b.fields :
                      b.fields[f].number \in Numbers(b.fields[f].type)}

MCVars == <<vars, array, blockVars>>

MCInit == Init /\ InitArray /\ InitList /\ InitHash

\* One algorithm at a time.
MCNext ==
  \/ Next /\ InitArray /\ InitList /\ InitHash /\ UNCHANGED <<array, blockVars>>
  \/ NextArray /\ Init /\ InitList /\ InitHash /\ UNCHANGED <<vars, blockVars>>
  \/ AddTransactions /\ Init /\ InitArray /\ InitHash /\ UNCHANGED <<vars, array>>
  \/ Hash /\ Init /\ InitArray /\ InitList /\ UNCHANGED <<vars, array>>

MCSpec == MCInit /\ [][MCNext]_MCVars
=============================================================================
