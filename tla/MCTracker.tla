----------------------------- MODULE MCTracker -----------------------------
(* Finite instances of Tracker for TLC. *)
EXTENDS Tracker, TLC

CONSTANTS a, b, p1, p2, c1, c2, c3

\* The clients are interchangeable: no definition of Tracker names one.
ClientSymmetry == Permutations(Clients)

\* Explores handshakes in which only b dies, restarts and changes its port.
OnlyOneMoves ==
  /\ alive[a]
  /\ ui[a] = "free"
  /\ \A c \in Clients : pc[c] # "next"
=============================================================================
