------------------------------- MODULE Loops -------------------------------
(***************************************************************************)
(* Two loops the code makes over its vectors, each as a function of how    *)
(* far the loop is.                                                        *)
(***************************************************************************)
EXTENDS Integers, Sequences

\* What is kept of s: the elements at the places in I, in their order.
Kept(s, I) ==
  LET upTo[i \in 0..Len(s)] ==
        IF i = 0 THEN <<>>
        ELSE IF i \in I THEN Append(upTo[i - 1], s[i])
        ELSE upTo[i - 1]
  IN  upTo[Len(s)]

\* The sum of the elements of s.
Total(s) ==
  LET upTo[i \in 0..Len(s)] == IF i = 0 THEN 0 ELSE upTo[i - 1] + s[i]
  IN  upTo[Len(s)]
=============================================================================
