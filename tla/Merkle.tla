------------------------------- MODULE Merkle -------------------------------
(***************************************************************************)
(* The merkle root of the transactions of a block (Transaction::           *)
(* get_merkel_root), which is all of them that a block's hash covers, and  *)
(* the test a miner and validate put a hash to (Block::is_nonce_valid).    *)
(*                                                                         *)
(* Signatures are numbers, of which the order matters; SHA-512 is taken to *)
(* have no collisions: what it makes of two signatures is the pair.        *)
(***************************************************************************)
EXTENDS Integers, Sequences, SequencesExt

CONSTANTS
  Signatures,     \* signatures of transactions: numbers
  MaxSignatures,  \* bound: how many there are in a block
  HashBytes,      \* values of the bytes of the hashes that are tried
  MaxDifficulty   \* bound: difficulties that are tried

ASSUME MerkleAssumption ==
  /\ Signatures \subseteq Nat /\ Signatures # {} /\ MaxSignatures \in Nat \ {0}
  /\ HashBytes \subseteq 0..255 /\ MaxDifficulty \in Nat

Leaf(signature) == <<signature>>
combine(s, t) == <<s, t>>

\* Variant: the last of an odd number is left alone.
Branch_dropping(s) == [i \in 1..(Len(s) \div 2) |-> combine(s[2 * i - 1], s[2 * i])]

\* One round: the last of an odd number is combined with itself.
Branch(s) ==
  [i \in 1..((Len(s) + 1) \div 2) |->
     combine(s[2 * i - 1], IF 2 * i <= Len(s) THEN s[2 * i] ELSE s[2 * i - 1])]

\* The rounds, until one is left; as many as there are leaves are enough.
Root(leaves) ==
  LET branches[n \in 0..Len(leaves)] ==
        IF n = 0 THEN leaves
        ELSE IF Len(branches[n - 1]) = 1 THEN branches[n - 1]
        ELSE Branch(branches[n - 1])
  IN branches[Len(leaves)][1]

\* How many of a list are less than x, and how many are no greater.
Less(list, x)      == Cardinality({i \in DOMAIN list : list[i] < x})
NoGreater(list, x) == Cardinality({i \in DOMAIN list : list[i] <= x})

\* std::sort: fewer than k are less than the k-th, and at least k no greater.
Sorted(list) ==
  [k \in DOMAIN list |->
     CHOOSE x \in ToSet(list) : Less(list, x) < k /\ k <= NoGreater(list, x)]

get_merkel_root(list) ==
  LET sorted == Sorted(list)
  IN Root([i \in DOMAIN sorted |-> Leaf(sorted[i])])

-----------------------------------------------------------------------------
\* The bytes is_nonce_valid looks at, ceil(difficulty / 2).
Looked(difficulty) == (difficulty + 1) \div 2

\* Variant: the half byte is the lower one.
is_nonce_valid_lower(bytes, difficulty) ==
  \A i \in 0..Looked(difficulty) - 1 :
    IF difficulty % 2 = 1 /\ i = difficulty \div 2 THEN bytes[i + 1] % 16 = 0
                                                   ELSE bytes[i + 1] = 0

\* The first byte that decides ends the loop; the half byte is the last.
is_nonce_valid(bytes, difficulty) ==
  \A i \in 0..Looked(difficulty) - 1 :
    IF difficulty % 2 = 1 /\ i = difficulty \div 2 THEN bytes[i + 1] \div 16 = 0
                                                   ELSE bytes[i + 1] = 0

-----------------------------------------------------------------------------
VARIABLES
  signatures,  \* those of the transactions of a block
  hash         \* a hash of it

blockVars == <<signatures, hash>>

Lists == UNION {[1..n -> Signatures] : n \in 1..MaxSignatures}

InitList == signatures = [i \in 1..1 |-> CHOOSE x \in Signatures : TRUE]
InitHash == hash = [i \in 1..Looked(MaxDifficulty) |-> 0]

AddTransactions == signatures' \in Lists /\ UNCHANGED hash
Hash == hash' \in [DOMAIN hash -> HashBytes] /\ UNCHANGED signatures

BlockSpec == InitList /\ InitHash /\ [][AddTransactions \/ Hash]_blockVars

\* What there is to know about every list.
Facts == {[root |-> get_merkel_root(s), bag |-> ToBag(s), set |-> ToSet(s)] : s \in Lists}

\* Two processes that hold the same transactions compute the same root, in
\* whatever order they received them; two blocks of the same root hold the same
\* transactions, though perhaps not as many times each.
RootDecides ==
  LET root == get_merkel_root(signatures)
  IN \A other \in Facts : /\ other.bag = ToBag(signatures) => other.root = root
                          /\ other.root = root => other.set = ToSet(signatures)

\* The digits of a hash in base 16, from the first.
Nibble(i) == IF i % 2 = 1 THEN hash[(i + 1) \div 2] \div 16 ELSE hash[i \div 2] % 16

\* A hash is good when as many of its hexadecimal digits as the difficulty says
\* are zeroes, for an odd difficulty as for an even one.
DifficultyCounted ==
  \A difficulty \in 0..MaxDifficulty :
    is_nonce_valid(hash, difficulty) <=> \A i \in 1..difficulty : Nibble(i) = 0
=============================================================================
