------------------------------- MODULE Base58 -------------------------------
(***************************************************************************)
(* The base58 text of keys, signatures and hashes (extlibs/base58), and    *)
(* how P2P reads such a text into an array of fixed size.                  *)
(*                                                                         *)
(* A character is its index in the alphabet, a byte its value.  Both       *)
(* directions convert a number digit by digit in a buffer whose size is an *)
(* estimate; the digits that do not fit are the carry, which an assertion  *)
(* says is none.                                                           *)
(***************************************************************************)
EXTENDS Integers, Sequences, SequencesExt

CONSTANTS
  Bytes,    \* bytes of the texts that are tried
  MaxSize   \* bound: how many there are in one

ASSUME Base58Assumption == Bytes \subseteq 0..255 /\ MaxSize \in Nat

Zeroes(n) == [i \in 1..n |-> 0]

\* The number of zeroes a sequence begins with.
LeadingZeroes(s) ==
  CHOOSE n \in 0..Len(s) : (\A i \in 1..n : s[i] = 0) /\ (n < Len(s) => s[n + 1] # 0)

WithoutZeroes(s) == SubSeq(s, LeadingZeroes(s) + 1, Len(s))

\* One step of either direction is number * factor + digit in base, from the last
\* digit of the buffer to the first: the carry after so many of them.
Carries(buffer, digit, factor, base) ==
  LET carry[j \in 0..Len(buffer)] ==
        IF j = 0 THEN digit
        ELSE (carry[j - 1] + factor * buffer[Len(buffer) + 1 - j]) \div base
  IN carry

Accumulate(buffer, digit, factor, base) ==
  LET carry == Carries(buffer, digit, factor, base)
  IN [digits |-> [i \in 1..Len(buffer) |-> (carry[Len(buffer) - i] + factor * buffer[i]) % base],
      carry  |-> carry[Len(buffer)]]

\* The steps, one for each digit.
Steps(digits, size, factor, base) ==
  LET step[n \in 0..Len(digits)] ==
        IF n = 0 THEN [digits |-> Zeroes(size), carry |-> 0]
        ELSE Accumulate(step[n - 1].digits, digits[n], factor, base)
  IN step

Convert(digits, size, factor, base) == Steps(digits, size, factor, base)[Len(digits)].digits

\* The assertions: after each of the digits, the carry is none.
Fits(digits, size, factor, base) ==
  \A n \in 1..Len(digits) : Steps(digits, size, factor, base)[n].carry = 0

\* Variant: the estimate is rounded down.
EncodedSize_down(n) == (n * 138) \div 100

EncodedSize(n) == (n * 138) \div 100 + 1

DecodedSize(n) == (n * 733) \div 1000 + 1

\* Variant: the zeroes in front are not written.
encode_bare(bytes) ==
  WithoutZeroes(Convert(WithoutZeroes(bytes), EncodedSize(Len(WithoutZeroes(bytes))), 256, 58))

encode(bytes) ==
  LET rest == WithoutZeroes(bytes)
  IN Zeroes(LeadingZeroes(bytes))
       \o WithoutZeroes(Convert(rest, EncodedSize(Len(rest)), 256, 58))

decode(text) ==
  LET rest == WithoutZeroes(text)
  IN Zeroes(LeadingZeroes(text))
       \o WithoutZeroes(Convert(rest, DecodedSize(Len(rest)), 58, 256))

\* decode_b58 copies what the text decodes to over the beginning of an array.
decode_b58(text, array) ==
  LET bytes == decode(text)
  IN [i \in 1..Len(array) |-> IF i <= Len(bytes) THEN bytes[i] ELSE array[i]]

-----------------------------------------------------------------------------
VARIABLE array   \* a key, a signature or a hash

InitArray == array = <<>>

NextArray == \E n \in 1..MaxSize : array' \in [1..n -> Bytes]

TextSpec == InitArray /\ [][NextArray]_array

\* A key, a signature or a hash that is written and read again is the same,
\* whatever the array it is read into held: none of its zeroes is lost, and none
\* of what was there is left.
ArraysSurvive ==
  \A old \in Bytes : decode_b58(encode(array), [i \in DOMAIN array |-> old]) = array

\* The buffers are never too small: the assertions on the carry hold.
BuffersSuffice ==
  LET rest == WithoutZeroes(array)
      text == WithoutZeroes(encode(array))
  IN /\ Fits(rest, EncodedSize(Len(rest)), 256, 58)
     /\ Fits(text, DecodedSize(Len(text)), 58, 256)
=============================================================================
