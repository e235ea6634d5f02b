---------------------------- MODULE Loops_proofs ----------------------------
(***************************************************************************)
(* What the loops of Loops compute, for every sequence.                    *)
(*                                                                         *)
(* A recursive function is some function that satisfies its equation; that *)
(* there is one is an induction.  The induction theorems of the library    *)
(* are about operators, which the provers cannot instantiate; here         *)
(* induction is about a set, and comes from the least element of what is   *)
(* missing from it.                                                        *)
(***************************************************************************)
EXTENDS Loops, TLAPS, WellFoundedInduction

Below == {ss \in Nat \X Nat : ss[1] < ss[2]}

\* The numbers have no infinite descent.
LEMMA BelowWellFounded == IsWellFoundedOn(Below, Nat)
BY NatLessThanWellFounded DEF OpToRel, Below

\* A set with 0 and the successors of its numbers has every number.
LEMMA SetInduction ==
  ASSUME NEW S, 0 \in S, \A n \in Nat : n \in S => n + 1 \in S
  PROVE  Nat \subseteq S
<1> DEFINE T == Nat \ S
<1>1. SUFFICES ASSUME T # {} PROVE FALSE
  OBVIOUS
<1>2. PICK x \in T : \A y \in T : <<y, x>> \notin Below
  <2> HIDE DEF T
  <2>1. T \subseteq Nat
    BY DEF T
  <2>2. QED
    BY <1>1, <2>1, BelowWellFounded, WFMin
<1>3. x \in Nat /\ x # 0 /\ x \notin S
  BY DEF T
<1>4. x - 1 \in Nat /\ x - 1 < x
  BY <1>3
<1>5. <<x - 1, x>> \in Below
  BY <1>3, <1>4 DEF Below
<1>6. x - 1 \in S
  BY <1>2, <1>4, <1>5 DEF T
<1>7. x - 1 + 1 = x
  BY <1>3
<1>8. QED
  BY <1>3, <1>4, <1>6, <1>7

\* A set of numbers up to n has a greatest.
LEMMA Greatest ==
  ASSUME NEW n \in Nat, NEW S, S \subseteq 1..n, S # {}
  PROVE  \E m \in S : \A k \in S : k <= m
<1> DEFINE T == {n - m : m \in S}
<1>1. T \subseteq Nat /\ T # {}
  <2>1. \A m \in S : m \in 1..n /\ n - m \in Nat
    OBVIOUS
  <2>2. PICK m \in S : TRUE
    OBVIOUS
  <2>3. n - m \in T
    BY <2>2
  <2>4. QED
    BY <2>1, <2>3
<1>2. PICK x \in T : \A y \in T : <<y, x>> \notin Below
  <2> HIDE DEF T
  <2>1. QED
    BY <1>1, BelowWellFounded, WFMin
<1>3. PICK m \in S : x = n - m
  BY <1>2
<1>4. ASSUME NEW k \in S PROVE k <= m
  <2>1. n - k \in T /\ n - k \in Nat /\ x \in Nat /\ k \in Int /\ m \in Int
    BY <1>1, <1>2
  <2>2. ~(n - k < x)
    BY <1>2, <2>1 DEF Below
  <2>3. QED
    BY <1>3, <2>1, <2>2
<1>5. QED
  BY <1>4

\* Induction up to a bound.
LEMMA SetInductionUpTo ==
  ASSUME NEW N \in Nat, NEW S, 0 \in S, \A i \in 1..N : i - 1 \in S => i \in S
  PROVE  0..N \subseteq S
<1> DEFINE T == S \cup {i \in Nat : i > N}
<1>1. \A n \in Nat : n \in T => n + 1 \in T
  <2>1. SUFFICES ASSUME NEW n \in Nat, n \in T PROVE n + 1 \in T
    OBVIOUS
  <2>2. CASE n + 1 > N
    BY <2>2
  <2>3. CASE n + 1 <= N
    <3>1. n + 1 \in 1..N /\ n + 1 - 1 = n /\ n \in S
      BY <2>1, <2>3
    <3>2. QED
      BY <3>1
  <2>4. QED
    BY <2>2, <2>3
<1>2. 0 \in T
  OBVIOUS
<1>3. Nat \subseteq T
  <2> HIDE DEF T
  <2>1. QED
    BY <1>1, <1>2, SetInduction
<1>4. QED
  BY <1>3

\* What each of the N turns of a loop does to its value.
Turns(V, N) == [1..N -> [V -> V]]

IsCourse(f, V, b, N, step) ==
  f \in [0..N -> V] /\ f[0] = b /\ \A i \in 1..N : f[i] = step[i][f[i - 1]]

\* A loop of N turns has a course: its value before the first turn and after
\* each.
LEMMA Course ==
  ASSUME NEW V, NEW b \in V, NEW N \in Nat, NEW step \in Turns(V, N)
  PROVE  \E f : IsCourse(f, V, b, N, step)
<1> DEFINE Runs(f, k) ==
      f[0] = b /\ \A i \in 1..k : f[i] = step[i][f[i - 1]]
    S == {k \in 0..N : \E f \in [0..k -> V] : Runs(f, k)}
<1>1. 0 \in S
  <2> DEFINE g == [i \in 0..0 |-> b]
  <2>1. g \in [0..0 -> V] /\ g[0] = b /\ \A i \in 1..0 : g[i] = step[i][g[i - 1]]
    OBVIOUS
  <2>2. \E f \in [0..0 -> V] : Runs(f, 0)
    <3> HIDE DEF g
    <3>1. QED
      BY <2>1
  <2>3. QED
    BY <2>2
<1>2. \A k \in 1..N : k - 1 \in S => k \in S
  <2>1. SUFFICES ASSUME NEW k \in 1..N, k - 1 \in S PROVE k \in S
    OBVIOUS
  <2>2. PICK f \in [0..k - 1 -> V] : Runs(f, k - 1)
    BY <2>1
  <2> DEFINE g == [i \in 0..k |-> IF i = k THEN step[k][f[k - 1]] ELSE f[i]]
  <2>3. f[k - 1] \in V /\ step[k][f[k - 1]] \in V
    BY DEF Turns
  <2>4. g \in [0..k -> V]
    BY <2>3
  <2>5. \A i \in 1..k : g[i] = step[i][g[i - 1]]
    <3>1. TAKE i \in 1..k
    <3>2. i - 1 \in 0..k /\ i \in 0..k /\ i - 1 # k /\ g[i - 1] = f[i - 1]
      OBVIOUS
    <3>3. CASE i = k
      BY <3>2, <3>3
    <3>4. CASE i # k
      BY <2>2, <3>2, <3>4
    <3>5. QED
      BY <3>3, <3>4
  <2>6. g[0] = b
    BY <2>2
  <2>7. \E h \in [0..k -> V] : Runs(h, k)
    <3> HIDE DEF g
    <3>1. QED
      BY <2>4, <2>5, <2>6
  <2>8. QED
    BY <2>7
<1>3. 0..N \subseteq S
  <2> HIDE DEF S
  <2>1. QED
    BY <1>1, <1>2, SetInductionUpTo
<1>4. N \in S
  BY <1>3
<1>5. QED
  BY <1>4 DEF IsCourse

\* Two loops that start alike and go on alike end alike.
LEMMA SameCourse ==
  ASSUME NEW N \in Nat, NEW f, NEW g, f[0] = g[0],
         \A i \in 1..N : f[i - 1] = g[i - 1] => f[i] = g[i]
  PROVE  \A i \in 0..N : f[i] = g[i]
<1> DEFINE S == {i \in 0..N : f[i] = g[i]}
<1>1. 0 \in S
  OBVIOUS
<1>2. \A i \in 1..N : i - 1 \in S => i \in S
  OBVIOUS
<1>3. 0..N \subseteq S
  <2> HIDE DEF S
  <2>1. QED
    BY <1>1, <1>2, SetInductionUpTo
<1>4. QED
  BY <1>3

-----------------------------------------------------------------------------
IsKeeping(f, s, I) ==
  f[0] = <<>> /\ \A i \in 1..Len(s) :
     f[i] = IF i \in I THEN Append(f[i - 1], s[i]) ELSE f[i - 1]

\* The loop of Kept.
LEMMA KeptCourse ==
  ASSUME NEW T, NEW s \in Seq(T), NEW I
  PROVE  \E f \in [0..Len(s) -> Seq(T)] : IsKeeping(f, s, I) /\ Kept(s, I) = f[Len(s)]
<1> DEFINE step == [i \in 1..Len(s) |-> [v \in Seq(T) |->
                IF i \in I THEN Append(v, s[i]) ELSE v]]
    upTo[i \in 0..Len(s)] ==
        IF i = 0 THEN <<>>
        ELSE IF i \in I THEN Append(upTo[i - 1], s[i])
        ELSE upTo[i - 1]
<1>1. Len(s) \in Nat /\ <<>> \in Seq(T)
  OBVIOUS
<1>2. step \in [1..Len(s) -> [Seq(T) -> Seq(T)]]
  OBVIOUS
<1>3. PICK f \in [0..Len(s) -> Seq(T)] :
        f[0] = <<>> /\ \A i \in 1..Len(s) : f[i] = step[i][f[i - 1]]
  <2> DEFINE V == Seq(T)
      N == Len(s)
      b == <<>>
  <2>1. b \in V /\ N \in Nat /\ step \in Turns(V, N)
    BY <1>1, <1>2 DEF Turns
  <2> HIDE DEF step, V, N, b, upTo
  <2>2. \E f : IsCourse(f, V, b, N, step)
    BY <2>1, Course
  <2>3. QED
    BY <2>2, Zenon DEF V, N, b, IsCourse
<1>4. \A i \in 1..Len(s) : f[i] = IF i \in I THEN Append(f[i - 1], s[i]) ELSE f[i - 1]
  <2>1. TAKE i \in 1..Len(s)
  <2>2. i - 1 \in 0..Len(s) /\ f[i - 1] \in Seq(T)
    BY <1>1
  <2>3. step[i][f[i - 1]] = IF i \in I THEN Append(f[i - 1], s[i]) ELSE f[i - 1]
    BY <2>2
  <2>4. QED
    BY <1>3, <2>3
<1>5. f = [i \in 0..Len(s) |->
             IF i = 0 THEN <<>>
             ELSE IF i \in I THEN Append(f[i - 1], s[i])
             ELSE f[i - 1]]
  <2>1. \A i \in 0..Len(s) : i = 0 \/ i \in 1..Len(s)
    BY <1>1
  <2>2. \A i \in 0..Len(s) : f[i] = IF i = 0 THEN <<>>
                                   ELSE IF i \in I THEN Append(f[i - 1], s[i])
                                   ELSE f[i - 1]
    BY <1>3, <1>4, <2>1, Zenon
  <2>3. QED
    BY <2>2, Zenon
<1>6. upTo = [i \in 0..Len(s) |->
             IF i = 0 THEN <<>>
             ELSE IF i \in I THEN Append(upTo[i - 1], s[i])
             ELSE upTo[i - 1]]
  BY <1>5, Zenon
<1>7. \A i \in 0..Len(s) : upTo[i] = f[i]
  <2> HIDE DEF upTo
  <2>1. upTo[0] = f[0]
    BY <1>1, <1>3, <1>6
  <2>2. \A i \in 1..Len(s) : upTo[i - 1] = f[i - 1] => upTo[i] = f[i]
    <3>1. TAKE i \in 1..Len(s)
    <3>2. i \in 0..Len(s) /\ i # 0
      BY <1>1
    <3>3. upTo[i] = IF i = 0 THEN <<>>
                    ELSE IF i \in I THEN Append(upTo[i - 1], s[i])
                    ELSE upTo[i - 1]
      BY <1>6, <3>2, Zenon
    <3>4. f[i] = IF i \in I THEN Append(f[i - 1], s[i]) ELSE f[i - 1]
      BY <1>4, Zenon
    <3>5. CASE i \in I
      BY <3>2, <3>3, <3>4, <3>5, Zenon
    <3>6. CASE i \notin I
      BY <3>2, <3>3, <3>4, <3>6, Zenon
    <3>7. QED
      BY <3>5, <3>6
  <2>3. QED
    BY <1>1, <2>1, <2>2, SameCourse
<1>8. Kept(s, I) = upTo[Len(s)]
  BY Zenon DEF Kept
<1>9. Kept(s, I) = f[Len(s)]
  <2>1. Len(s) \in 0..Len(s)
    BY <1>1
  <2>2. QED
    BY <1>7, <1>8, <2>1, Zenon
<1>10. QED
  BY <1>3, <1>4, <1>9 DEF IsKeeping
\* What is kept are elements of s.
LEMMA KeptType ==
  ASSUME NEW T, NEW s \in Seq(T), NEW I
  PROVE  Kept(s, I) \in Seq(T)
<1>1. PICK f \in [0..Len(s) -> Seq(T)] : IsKeeping(f, s, I) /\ Kept(s, I) = f[Len(s)]
  BY KeptCourse
<1>2. Len(s) \in 0..Len(s)
  OBVIOUS
<1>3. QED
  BY <1>1, <1>2, Zenon

\* Each was at a place in I, no earlier than where it is now.
LEMMA KeptFrom ==
  ASSUME NEW T, NEW s \in Seq(T), NEW I
  PROVE  \A k \in DOMAIN Kept(s, I) :
            \E i \in DOMAIN s : i \in I /\ i >= k /\ Kept(s, I)[k] = s[i]
<1>1. PICK f \in [0..Len(s) -> Seq(T)] : IsKeeping(f, s, I) /\ Kept(s, I) = f[Len(s)]
  BY KeptCourse
<1> DEFINE From(i) == \A k \in DOMAIN f[i] :
             k <= i /\ \E j \in 1..i : j \in I /\ j >= k /\ f[i][k] = s[j]
    S == {i \in 0..Len(s) : From(i)}
<1>2. Len(s) \in Nat /\ DOMAIN s = 1..Len(s)
  OBVIOUS
<1>3. 0 \in S
  BY <1>1, <1>2 DEF IsKeeping
<1>4. \A i \in 1..Len(s) : i - 1 \in S => i \in S
  <2>1. SUFFICES ASSUME NEW i \in 1..Len(s), From(i - 1) PROVE From(i)
    BY <1>2
  <2>2. f[i] = (IF i \in I THEN Append(f[i - 1], s[i]) ELSE f[i - 1])
        /\ f[i - 1] \in Seq(T) /\ s[i] \in T
    BY <1>1, <1>2 DEF IsKeeping
  <2>3. SUFFICES ASSUME NEW k \in DOMAIN f[i]
                 PROVE  k <= i /\ \E j \in 1..i : j \in I /\ j >= k /\ f[i][k] = s[j]
    OBVIOUS
  <2>4. CASE k \in DOMAIN f[i - 1]
    <3>1. f[i][k] = f[i - 1][k]
      BY <2>2, <2>4
    <3>2. k <= i - 1 /\ \E j \in 1..i - 1 : j \in I /\ j >= k /\ f[i - 1][k] = s[j]
      BY <2>1, <2>4
    <3>3. k \in Int
      BY <2>2, <2>4
    <3>4. QED
      BY <1>2, <3>1, <3>2, <3>3
  <2>5. CASE k \notin DOMAIN f[i - 1]
    <3>1. i \in I /\ k = Len(f[i - 1]) + 1 /\ f[i][k] = s[i]
      BY <2>2, <2>5
    <3>2. Len(f[i - 1]) <= i - 1
      <4>1. CASE f[i - 1] = <<>>
        BY <2>2, <4>1
      <4>2. CASE f[i - 1] # <<>>
        BY <2>1, <2>2, <4>2
      <4>3. QED
        BY <4>1, <4>2
    <3>3. QED
      BY <1>2, <2>2, <3>1, <3>2
  <2>6. QED
    BY <2>4, <2>5
<1>5. 0..Len(s) \subseteq S
  <2> HIDE DEF S
  <2>1. QED
    BY <1>2, <1>3, <1>4, SetInductionUpTo
<1>6. From(Len(s))
  BY <1>2, <1>5
<1>7. QED
  BY <1>1, <1>2, <1>6

\* All is kept when I has every place.
LEMMA KeptAll ==
  ASSUME NEW T, NEW s \in Seq(T), NEW I, DOMAIN s \subseteq I
  PROVE  Kept(s, I) = s
<1>1. PICK f \in [0..Len(s) -> Seq(T)] : IsKeeping(f, s, I) /\ Kept(s, I) = f[Len(s)]
  BY KeptCourse
<1> DEFINE g == [i \in 0..Len(s) |-> SubSeq(s, 1, i)]
<1>2. Len(s) \in Nat /\ DOMAIN s = 1..Len(s)
  OBVIOUS
<1>3. f[0] = g[0]
  BY <1>1, <1>2 DEF IsKeeping
<1>4. \A i \in 1..Len(s) : f[i - 1] = g[i - 1] => f[i] = g[i]
  <2>1. SUFFICES ASSUME NEW i \in 1..Len(s), f[i - 1] = g[i - 1] PROVE f[i] = g[i]
    OBVIOUS
  <2>2. i \in I /\ f[i] = Append(f[i - 1], s[i])
    BY <1>1, <1>2 DEF IsKeeping
  <2>3. Append(SubSeq(s, 1, i - 1), s[i]) = SubSeq(s, 1, i)
    OBVIOUS
  <2>4. g[i - 1] = SubSeq(s, 1, i - 1) /\ g[i] = SubSeq(s, 1, i)
    BY <1>2
  <2>5. QED
    BY <2>1, <2>2, <2>3, <2>4
<1>5. \A i \in 0..Len(s) : f[i] = g[i]
  <2> HIDE DEF g
  <2>1. Len(s) \in Nat
    OBVIOUS
  <2>2. QED
    BY <2>1, <1>3, <1>4, SameCourse
<1>6. g[Len(s)] = s
  BY <1>2
<1>7. QED
  BY <1>1, <1>2, <1>5, <1>6

\* What is kept of a longer sequence.
LEMMA KeptAppend ==
  ASSUME NEW T, NEW s \in Seq(T), NEW x \in T, NEW I, NEW J,
         \A i \in DOMAIN s : i \in I <=> i \in J
  PROVE  Kept(Append(s, x), J) =
           IF Len(s) + 1 \in J THEN Append(Kept(s, I), x) ELSE Kept(s, I)
<1> DEFINE r == Append(s, x)
<1>1. r \in Seq(T) /\ Len(r) = Len(s) + 1 /\ Len(s) \in Nat /\ r[Len(s) + 1] = x
      /\ DOMAIN s = 1..Len(s) /\ \A i \in 1..Len(s) : r[i] = s[i]
  OBVIOUS
<1> HIDE DEF r
<1>2. PICK f \in [0..Len(s) -> Seq(T)] : IsKeeping(f, s, I) /\ Kept(s, I) = f[Len(s)]
  BY KeptCourse
<1>3. PICK g \in [0..Len(r) -> Seq(T)] : IsKeeping(g, r, J) /\ Kept(r, J) = g[Len(r)]
  BY <1>1, KeptCourse
<1>4. \A i \in 0..Len(s) : f[i] = g[i]
  <2>1. f[0] = g[0]
    BY <1>2, <1>3 DEF IsKeeping
  <2>2. \A i \in 1..Len(s) : f[i - 1] = g[i - 1] => f[i] = g[i]
    <3>1. TAKE i \in 1..Len(s)
    <3>2. i \in 1..Len(r) /\ r[i] = s[i] /\ (i \in I <=> i \in J)
      BY <1>1
    <3>3. f[i] = IF i \in I THEN Append(f[i - 1], s[i]) ELSE f[i - 1]
      BY <1>2 DEF IsKeeping
    <3>4. g[i] = IF i \in J THEN Append(g[i - 1], r[i]) ELSE g[i - 1]
      BY <1>3, <3>2 DEF IsKeeping
    <3>5. QED
      BY <3>2, <3>3, <3>4
  <2>3. Len(s) \in Nat
    OBVIOUS
  <2>4. QED
    <3> DEFINE S == {i \in 0..Len(s) : f[i] = g[i]}
    <3>1. 0 \in S /\ \A i \in 1..Len(s) : i - 1 \in S => i \in S
      BY <2>1, <2>2, <2>3
    <3>2. 0..Len(s) \subseteq S
      <4> HIDE DEF S
      <4>1. QED
        BY <2>3, <3>1, SetInductionUpTo
    <3>3. QED
      BY <3>2
<1>5. f[Len(s)] = g[Len(s)]
  BY <1>1, <1>4
<1>6. g[Len(s) + 1] = IF Len(s) + 1 \in J THEN Append(g[Len(s)], x) ELSE g[Len(s)]
  BY <1>1, <1>3 DEF IsKeeping
<1>7. QED
  BY <1>1, <1>2, <1>3, <1>5, <1>6 DEF r
-----------------------------------------------------------------------------
IsAdding(f, s) == f[0] = 0 /\ \A i \in 1..Len(s) : f[i] = f[i - 1] + s[i]

\* The loop of Total.
LEMMA TotalCourse ==
  ASSUME NEW s \in Seq(Int)
  PROVE  \E f \in [0..Len(s) -> Int] : IsAdding(f, s) /\ Total(s) = f[Len(s)]
<1> DEFINE step == [i \in 1..Len(s) |-> [v \in Int |-> v + s[i]]]
    upTo[i \in 0..Len(s)] == IF i = 0 THEN 0 ELSE upTo[i - 1] + s[i]
<1>1. Len(s) \in Nat /\ 0 \in Int
  OBVIOUS
<1>2. step \in [1..Len(s) -> [Int -> Int]]
  OBVIOUS
<1>3. PICK f \in [0..Len(s) -> Int] :
        f[0] = 0 /\ \A i \in 1..Len(s) : f[i] = step[i][f[i - 1]]
  <2> DEFINE V == Int
      N == Len(s)
      b == 0
  <2>1. b \in V /\ N \in Nat /\ step \in Turns(V, N)
    BY <1>1, <1>2 DEF Turns
  <2> HIDE DEF step, V, N, b, upTo
  <2>2. \E f : IsCourse(f, V, b, N, step)
    BY <2>1, Course
  <2>3. QED
    BY <2>2, Zenon DEF V, N, b, IsCourse
<1>4. \A i \in 1..Len(s) : f[i] = f[i - 1] + s[i]
  <2>1. TAKE i \in 1..Len(s)
  <2>2. i - 1 \in 0..Len(s) /\ f[i - 1] \in Int
    BY <1>1
  <2>3. step[i][f[i - 1]] = f[i - 1] + s[i]
    BY <2>2
  <2>4. QED
    BY <1>3, <2>3
<1>5. f = [i \in 0..Len(s) |-> IF i = 0 THEN 0 ELSE f[i - 1] + s[i]]
  <2>1. \A i \in 0..Len(s) : i = 0 \/ i \in 1..Len(s)
    BY <1>1
  <2>2. \A i \in 0..Len(s) : f[i] = IF i = 0 THEN 0 ELSE f[i - 1] + s[i]
    BY <1>3, <1>4, <2>1, Zenon
  <2>3. QED
    BY <2>2, Zenon
<1>6. upTo = [i \in 0..Len(s) |-> IF i = 0 THEN 0 ELSE upTo[i - 1] + s[i]]
  BY <1>5, Zenon
<1>7. \A i \in 0..Len(s) : upTo[i] = f[i]
  <2> HIDE DEF upTo
  <2>1. upTo[0] = f[0]
    BY <1>1, <1>3, <1>6
  <2>2. \A i \in 1..Len(s) : upTo[i - 1] = f[i - 1] => upTo[i] = f[i]
    <3>1. TAKE i \in 1..Len(s)
    <3>2. i \in 0..Len(s) /\ i # 0
      BY <1>1
    <3>3. upTo[i] = upTo[i - 1] + s[i]
      BY <1>6, <3>2, Zenon
    <3>4. f[i] = f[i - 1] + s[i]
      BY <1>4, Zenon
    <3>5. QED
      BY <3>3, <3>4, Zenon
  <2>3. QED
    BY <1>1, <2>1, <2>2, SameCourse
<1>8. Total(s) = upTo[Len(s)]
  BY Zenon DEF Total
<1>9. Total(s) = f[Len(s)]
  <2>1. Len(s) \in 0..Len(s)
    BY <1>1
  <2>2. QED
    BY <1>7, <1>8, <2>1, Zenon
<1>10. QED
  BY <1>3, <1>4, <1>9 DEF IsAdding

\* A sum of integers is one, and nothing sums to 0.
LEMMA TotalType ==
  ASSUME NEW s \in Seq(Int)
  PROVE  Total(s) \in Int
<1>1. PICK f \in [0..Len(s) -> Int] : IsAdding(f, s) /\ Total(s) = f[Len(s)]
  BY TotalCourse
<1>2. Len(s) \in 0..Len(s)
  OBVIOUS
<1>3. QED
  BY <1>1, <1>2, Zenon

LEMMA TotalEmpty == Total(<<>>) = 0
<1>1. <<>> \in Seq(Int) /\ Len(<<>>) = 0
  OBVIOUS
<1>2. PICK f \in [0..Len(<<>>) -> Int] : IsAdding(f, <<>>) /\ Total(<<>>) = f[Len(<<>>)]
  BY <1>1, TotalCourse, Zenon
<1>3. QED
  BY <1>1, <1>2, Zenon DEF IsAdding

\* The sum of a longer sequence.
LEMMA TotalAppend ==
  ASSUME NEW s \in Seq(Int), NEW x \in Int
  PROVE  Total(Append(s, x)) = Total(s) + x
<1> DEFINE r == Append(s, x)
<1>1. r \in Seq(Int) /\ Len(r) = Len(s) + 1 /\ Len(s) \in Nat /\ r[Len(s) + 1] = x
      /\ \A i \in 1..Len(s) : r[i] = s[i]
  OBVIOUS
<1> HIDE DEF r
<1>2. PICK f \in [0..Len(s) -> Int] : IsAdding(f, s) /\ Total(s) = f[Len(s)]
  BY TotalCourse
<1>3. PICK g \in [0..Len(r) -> Int] : IsAdding(g, r) /\ Total(r) = g[Len(r)]
  BY <1>1, TotalCourse
<1> DEFINE S == {i \in 0..Len(s) : f[i] = g[i]}
<1>4. 0 \in S
  BY <1>1, <1>2, <1>3 DEF IsAdding
<1>5. \A i \in 1..Len(s) : i - 1 \in S => i \in S
  <2>1. TAKE i \in 1..Len(s)
  <2>2. i \in 1..Len(r) /\ r[i] = s[i] /\ i \in 0..Len(s)
    BY <1>1
  <2>3. f[i] = f[i - 1] + s[i]
    BY <1>2 DEF IsAdding
  <2>4. g[i] = g[i - 1] + r[i]
    BY <1>3, <2>2 DEF IsAdding
  <2>5. QED
    BY <2>2, <2>3, <2>4
<1>6. 0..Len(s) \subseteq S
  <2> HIDE DEF S
  <2>1. Len(s) \in Nat
    OBVIOUS
  <2>2. QED
    BY <2>1, <1>4, <1>5, SetInductionUpTo
<1>7. f[Len(s)] = g[Len(s)]
  BY <1>1, <1>6
<1>8. g[Len(s) + 1] = g[Len(s)] + x
  <2>1. Len(s) + 1 \in 1..Len(r) /\ Len(s) + 1 - 1 = Len(s)
    BY <1>1
  <2>2. \A i \in 1..Len(r) : g[i] = g[i - 1] + r[i]
    BY <1>3, Zenon DEF IsAdding
  <2>3. QED
    BY <1>1, <2>1, <2>2
<1>9. QED
  BY <1>1, <1>2, <1>3, <1>7, <1>8 DEF r
=============================================================================
