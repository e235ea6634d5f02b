------------------------- MODULE Algorithms_proofs -------------------------
(***************************************************************************)
(* Theorems about Wire, for the real limits of msgpack11 and any messages, *)
(* about Merkle, for any signatures and hashes, and about Base58, for any  *)
(* number of bytes.                                                        *)
(***************************************************************************)
EXTENDS Wire, Base58, Merkle, Loops_proofs, SequenceTheorems, FiniteSetTheorems, FunctionTheorems, TLAPS

-----------------------------------------------------------------------------
(***************************************************************************)
(* What dump and parse make of an integer that is not negative: the same   *)
(* integer, in the same type or a narrower unsigned one.                   *)
(***************************************************************************)
\* The types that a number v of w bytes may arrive as.
Arrives(item, v, w) ==
  \E u \in Widths : u <= w /\ Parse(item) = Value(UINT(u), v)

LEMMA HalfFacts ==
  /\ Half[1] = 128 /\ Half[2] \in Nat /\ Half[4] \in Nat /\ Half[8] \in Nat
  /\ Half[1] < Half[2] /\ Half[2] < Half[4] /\ Half[4] < Half[8]
BY HalfAssumption DEF Widths

LEMMA Wide ==
  ASSUME NEW u \in Widths, NEW w \in Widths, u <= w, NEW v, NEW item, Arrives(item, v, u)
  PROVE  Arrives(item, v, w)
BY DEF Arrives, Widths

LEMMA CarriedU8 ==
  ASSUME NEW v \in 0..255
  PROVE  Arrives(DumpU8(v), v, 1)
<1>1. CASE v >= 128
  BY <1>1 DEF DumpU8, Parse, Item, Arrives, Widths
<1>2. CASE v < 128
  BY <1>2 DEF DumpU8, Parse, Item, Arrives, Widths
<1> QED
  BY <1>1, <1>2

LEMMA CarriedU16 ==
  ASSUME NEW v \in Nat, v < Lim(2)
  PROVE  Arrives(DumpU16(v), v, 2)
<1>1. CASE v < Lim(1)
  BY <1>1, HalfFacts, CarriedU8, Wide DEF DumpU16, Lim, Widths
<1>2. CASE v >= Lim(1)
  <2>1. DumpU16(v) = Item(205, v)
    BY <1>2, HalfFacts DEF DumpU16, Lim
  <2>2. Parse(Item(205, v)) = Value(UINT(2), v)
    BY DEF Parse, Item
  <2> QED
    BY <2>1, <2>2 DEF Arrives, Widths
<1> QED
  BY <1>1, <1>2, HalfFacts DEF Lim

LEMMA CarriedU32 ==
  ASSUME NEW v \in Nat, v < Lim(4)
  PROVE  Arrives(DumpU32(v), v, 4)
<1>1. CASE v < Lim(2)
  BY <1>1, CarriedU16, Wide DEF DumpU32, Widths
<1>2. CASE v >= Lim(2)
  <2>1. DumpU32(v) = Item(206, v)
    BY <1>2, HalfFacts DEF DumpU32, Lim
  <2>2. Parse(Item(206, v)) = Value(UINT(4), v)
    BY DEF Parse, Item
  <2> QED
    BY <2>1, <2>2 DEF Arrives, Widths
<1> QED
  BY <1>1, <1>2, HalfFacts DEF Lim

LEMMA CarriedU64 ==
  ASSUME NEW v \in Nat, v < Lim(8)
  PROVE  Arrives(DumpU64(v), v, 8)
<1>1. CASE v < Lim(4)
  BY <1>1, CarriedU32, Wide DEF DumpU64, Widths
<1>2. CASE v >= Lim(4)
  <2>1. DumpU64(v) = Item(207, v)
    BY <1>2, HalfFacts DEF DumpU64, Lim
  <2>2. Parse(Item(207, v)) = Value(UINT(8), v)
    BY DEF Parse, Item
  <2> QED
    BY <2>1, <2>2 DEF Arrives, Widths
<1> QED
  BY <1>1, <1>2, HalfFacts DEF Lim

\* An int, which the depth that is asked for is, is written as a uint32_t unless
\* it is zero.
LEMMA CarriedI32 ==
  ASSUME NEW v \in Nat, v < Half[4]
  PROVE  Arrives(DumpI32(v), v, 4)
<1>1. CASE v = 0
  <2>1. DumpI32(v) = Item(0, Nothing)
    BY <1>1, HalfFacts DEF DumpI32, DumpI16, DumpI8
  <2>2. Parse(Item(0, Nothing)) = Value(UINT(1), 0)
    BY DEF Parse, Item
  <2> QED
    BY <1>1, <2>1, <2>2 DEF Arrives, Widths
<1>2. CASE v > 0
  <2>1. DumpI32(v) = DumpU32(v)
    BY <1>2, HalfFacts DEF DumpI32
  <2>2. v < Lim(4)
    BY HalfFacts DEF Lim
  <2> QED
    BY <2>1, <2>2, CarriedU32
<1> QED
  BY <1>1, <1>2

-----------------------------------------------------------------------------
(***************************************************************************)
(* What the other types are received as: themselves.                       *)
(***************************************************************************)
LEMMA CarriedString ==
  ASSUME NEW n \in Nat, n < Lim(4)
  PROVE  Parse(DumpString(n)) = Value(Other("STRING"), n)
<1>1. CASE n <= 31
  <2>1. DumpString(n) = Item(160 + n, Nothing) /\ 160 + n \in 160..191
    BY <1>1, HalfFacts DEF DumpString, Lim
  <2>2. \A b \in 160..191 : Parse(Item(b, Nothing)) = Value(Other("STRING"), b % 32)
    BY DEF Parse, Item
  <2>3. (160 + n) % 32 = n
    BY <1>1
  <2> QED
    BY <2>1, <2>2, <2>3
<1>2. CASE n > 31
  <2>1. \E b \in 217..219 : DumpString(n) = Item(b, n)
    BY <1>2, HalfFacts DEF DumpString, Lim
  <2>2. \A b \in 217..219 : Parse(Item(b, n)) = Value(Other("STRING"), n)
    BY DEF Parse, Item
  <2> QED
    BY <2>1, <2>2
<1> QED
  BY <1>1, <1>2

LEMMA CarriedArray ==
  ASSUME NEW n \in Nat, n < Lim(4)
  PROVE  Parse(DumpArray(n)) = Value(Other("ARRAY"), n)
<1>1. CASE n <= 15
  <2>1. DumpArray(n) = Item(144 + n, Nothing) /\ 144 + n \in 144..159
    BY <1>1, HalfFacts DEF DumpArray, Lim
  <2>2. \A b \in 144..159 : Parse(Item(b, Nothing)) = Value(Other("ARRAY"), b % 16)
    BY DEF Parse, Item
  <2>3. (144 + n) % 16 = n
    BY <1>1
  <2> QED
    BY <2>1, <2>2, <2>3
<1>2. CASE n > 15
  <2>1. \E b \in 220..221 : DumpArray(n) = Item(b, n)
    BY <1>2, HalfFacts DEF DumpArray, Lim
  <2>2. \A b \in 220..221 : Parse(Item(b, n)) = Value(Other("ARRAY"), n)
    BY DEF Parse, Item
  <2> QED
    BY <2>1, <2>2
<1> QED
  BY <1>1, <1>2

\* The types of the fields of the messages, and what a field of one may arrive as.
Sendable == {UINT(1), UINT(2), UINT(4), UINT(8), INT(4), Other("STRING"), Other("ARRAY"),
             Other("BOOL"), Other("FLOAT32")}

ArrivesAs(type) ==
  IF type.kind \in {"UINT", "INT"} THEN {UINT(u) : u \in {u \in Widths : u <= type.width}}
                                   ELSE {type}

LEMMA CarriedField ==
  ASSUME NEW type \in Sendable, NEW n \in Numbers(type)
  PROVE  /\ Carried(Value(type, n)).number = n
         /\ Carried(Value(type, n)).type \in ArrivesAs(type)
<1> DEFINE value == Value(type, n)
<1>0. value.type = type /\ value.number = n
  BY DEF Value
<1>1. ASSUME NEW w \in {1, 2, 4, 8}, type = UINT(w) \/ (type = INT(w) /\ w = 4)
      PROVE  Arrives(Dump(value), n, w) /\ type.width = w /\ type.kind \in {"UINT", "INT"}
  <2>1. CASE type = UINT(1)
    <3>1. n \in 0..255 /\ w = 1
      BY <1>1, <2>1, HalfFacts DEF Numbers, UINT, INT, Lim
    <3>2. Dump(value) = DumpU8(n)
      BY <1>0, <2>1 DEF Dump, DumpInteger, Integral, Widths, UINT, INT, Other
    <3> QED
      BY <2>1, <3>1, <3>2, CarriedU8 DEF UINT
  <2>2. CASE type = UINT(2)
    <3>1. n \in Nat /\ n < Lim(2) /\ w = 2
      BY <1>1, <2>2, HalfFacts DEF Numbers, UINT, INT, Lim
    <3>2. Dump(value) = DumpU16(n)
      BY <1>0, <2>2 DEF Dump, DumpInteger, Integral, Widths, UINT, INT, Other
    <3> QED
      BY <2>2, <3>1, <3>2, CarriedU16 DEF UINT
  <2>3. CASE type = UINT(4)
    <3>1. n \in Nat /\ n < Lim(4) /\ w = 4
      BY <1>1, <2>3, HalfFacts DEF Numbers, UINT, INT, Lim
    <3>2. Dump(value) = DumpU32(n)
      BY <1>0, <2>3 DEF Dump, DumpInteger, Integral, Widths, UINT, INT, Other
    <3> QED
      BY <2>3, <3>1, <3>2, CarriedU32 DEF UINT
  <2>4. CASE type = UINT(8)
    <3>1. n \in Nat /\ n < Lim(8) /\ w = 8
      BY <1>1, <2>4, HalfFacts DEF Numbers, UINT, INT, Lim
    <3>2. Dump(value) = DumpU64(n)
      BY <1>0, <2>4 DEF Dump, DumpInteger, Integral, Widths, UINT, INT, Other
    <3> QED
      BY <2>4, <3>1, <3>2, CarriedU64 DEF UINT
  <2>5. CASE type = INT(4)
    <3>1. n \in Nat /\ n < Half[4] /\ w = 4
      BY <1>1, <2>5, HalfFacts DEF Numbers, UINT, INT
    <3>2. Dump(value) = DumpI32(n)
      BY <1>0, <2>5 DEF Dump, DumpInteger, Integral, Widths, UINT, INT, Other
    <3> QED
      BY <2>5, <3>1, <3>2, CarriedI32 DEF INT
  <2> QED
    BY <1>1, <2>1, <2>2, <2>3, <2>4, <2>5
<1>2. CASE type \in {UINT(1), UINT(2), UINT(4), UINT(8), INT(4)}
  <2>1. PICK w \in {1, 2, 4, 8} : type = UINT(w) \/ (type = INT(w) /\ w = 4)
    BY <1>2
  <2>2. Arrives(Dump(value), n, w) /\ type.width = w /\ type.kind \in {"UINT", "INT"}
    BY <1>1, <2>1
  <2>3. PICK u \in Widths : u <= w /\ Parse(Dump(value)) = Value(UINT(u), n)
    BY <2>2 DEF Arrives
  <2> QED
    BY <2>2, <2>3 DEF Carried, Value, ArrivesAs
<1>3. CASE type = Other("STRING")
  <2>1. n \in Nat /\ n < Lim(4)
    BY <1>3, HalfFacts DEF Numbers, Other, Lim
  <2>2. Dump(value) = DumpString(n)
    BY <1>0, <1>3 DEF Dump, Integral, UINT, INT, Other
  <2> QED
    BY <1>3, <2>1, <2>2, CarriedString DEF Carried, Value, ArrivesAs, Other
<1>4. CASE type = Other("ARRAY")
  <2>1. n \in Nat /\ n < Lim(4)
    BY <1>4, HalfFacts DEF Numbers, Other, Lim
  <2>2. Dump(value) = DumpArray(n)
    BY <1>0, <1>4 DEF Dump, Integral, UINT, INT, Other
  <2> QED
    BY <1>4, <2>1, <2>2, CarriedArray DEF Carried, Value, ArrivesAs, Other
<1>5. CASE type = Other("BOOL")
  <2>1. n \in {0, 1}
    BY <1>5 DEF Numbers, Other
  <2>2. Dump(value) = Item(194 + n, Nothing)
    BY <1>0, <1>5 DEF Dump, Integral, UINT, INT, Other
  <2>3. Parse(Item(194 + n, Nothing)) = Value(Other("BOOL"), n)
    BY <2>1 DEF Parse, Item
  <2> QED
    BY <1>5, <2>2, <2>3 DEF Carried, Value, ArrivesAs, Other
<1>6. CASE type = Other("FLOAT32")
  <2>1. Dump(value) = Item(202, n)
    BY <1>0, <1>6 DEF Dump, Integral, UINT, INT, Other
  <2>2. Parse(Item(202, n)) = Value(Other("FLOAT32"), n)
    BY DEF Parse, Item
  <2> QED
    BY <1>6, <2>1, <2>2 DEF Carried, Value, ArrivesAs, Other
<1> QED
  BY <1>2, <1>3, <1>4, <1>5, <1>6 DEF Sendable

-----------------------------------------------------------------------------
(***************************************************************************)
(* Whole messages.                                                         *)
(***************************************************************************)
\* The fields a process gives a message of a kind.
Typed(kind, fields) ==
  /\ DOMAIN fields = DOMAIN Sends(kind)
  /\ \A f \in DOMAIN fields :
       \E n \in Numbers(Sends(kind)[f]) : fields[f] = Value(Sends(kind)[f], n)

Inv ==
  \E kind \in Kinds : \E fields :
    /\ Typed(kind, fields)
    /\ sent = BuildMsg(kind, fields)
    /\ found = Received(sent)

LEMMA SendsFacts ==
  ASSUME NEW kind \in Kinds
  PROVE  /\ \A f \in DOMAIN Sends(kind) : Sends(kind)[f] \in Sendable
         /\ "ic" \notin DOMAIN Sends(kind) /\ "isencoin" \notin DOMAIN Sends(kind)
         /\ DOMAIN Requirements(kind) \subseteq DOMAIN Sends(kind)
         /\ \A f \in DOMAIN Requirements(kind) :
              \A found_ \in ArrivesAs(Sends(kind)[f]) : Accepts(Requirements(kind)[f], found_)
<1>1. CASE kind = "hello"
  BY <1>1
  DEF Sends, Requirements, Sendable, ArrivesAs, Accepts, Narrower, Widths, UINT, INT, Other
<1>2. CASE kind = "transaction"
  BY <1>2
  DEF Sends, Requirements, Sendable, ArrivesAs, Accepts, Narrower, Widths, UINT, INT, Other
<1>3. CASE kind = "peer"
  BY <1>3
  DEF Sends, Requirements, Sendable, ArrivesAs, Accepts, Narrower, Widths, UINT, INT, Other
<1>4. CASE kind = "block"
  BY <1>4
  DEF Sends, Requirements, Sendable, ArrivesAs, Accepts, Narrower, Widths, UINT, INT, Other
<1>5. CASE kind = "ask_block"
  BY <1>5
  DEF Sends, Requirements, Sendable, ArrivesAs, Accepts, Narrower, Widths, UINT, INT, Other
<1>6. CASE kind = "no_block"
  BY <1>6
  DEF Sends, Requirements, Sendable, ArrivesAs, Accepts, Narrower, Widths, UINT, INT, Other
<1> QED
  BY <1>1, <1>2, <1>3, <1>4, <1>5, <1>6 DEF Kinds

LEMMA HeadersCarried ==
  /\ Carried(True) = True
  /\ Carried(Value(UINT(1), VERSION)) = Value(UINT(1), VERSION)
  /\ DOMAIN Headers = {"ic", "isencoin"}
  /\ Headers["ic"] = True /\ Headers["isencoin"] = Value(UINT(1), VERSION)
<1>1. Carried(True) = True
  <2>1. Dump(True) = Item(195, Nothing)
    BY DEF Dump, True, Value, Integral, UINT, INT, Other
  <2>2. Parse(Item(195, Nothing)) = Value(Other("BOOL"), 1)
    BY DEF Parse, Item
  <2> QED
    BY <2>1, <2>2 DEF Carried, True
<1>2. Carried(Value(UINT(1), VERSION)) = Value(UINT(1), VERSION)
  <2>1. Dump(Value(UINT(1), VERSION)) = DumpU8(VERSION)
    BY DEF Dump, DumpInteger, Value, Integral, Widths, UINT, INT, Other
  <2>2. PICK u \in Widths : u <= 1 /\ Parse(DumpU8(VERSION)) = Value(UINT(u), VERSION)
    BY VersionAssumption, CarriedU8 DEF Arrives
  <2>3. u = 1
    BY <2>2 DEF Widths
  <2> QED
    BY <2>1, <2>2, <2>3 DEF Carried
<1> QED
  BY <1>1, <1>2 DEF Headers

\* A message of a process, as its receiver finds it.
LEMMA Delivered ==
  ASSUME NEW kind \in Kinds, NEW fields, Typed(kind, fields),
         NEW msg, msg = BuildMsg(kind, fields), NEW got, got = Received(msg)
  PROVE  /\ msg.kind = kind /\ got.kind = kind
         /\ \A f \in DOMAIN msg.fields : got.fields[f].number = msg.fields[f].number
         /\ \A f \in DOMAIN Sends(kind) :
              f \in DOMAIN got.fields /\ got.fields[f].type \in ArrivesAs(Sends(kind)[f])
         /\ Valid(got)
<1>1. /\ msg.kind = kind /\ got.kind = kind
      /\ DOMAIN msg.fields = DOMAIN fields \cup {"ic", "isencoin"}
      /\ DOMAIN got.fields = DOMAIN msg.fields
      /\ \A f \in DOMAIN msg.fields : got.fields[f] = Carried(msg.fields[f])
  BY HeadersCarried DEF BuildMsg, Received
<1>2. \A f \in DOMAIN fields : msg.fields[f] = fields[f]
  BY DEF BuildMsg
<1>3. "ic" \notin DOMAIN fields /\ "isencoin" \notin DOMAIN fields
  BY SendsFacts DEF Typed
<1>4. msg.fields["ic"] = True /\ msg.fields["isencoin"] = Value(UINT(1), VERSION)
  BY <1>1, <1>3, HeadersCarried DEF BuildMsg
<1>5. got.fields["ic"] = True /\ got.fields["isencoin"] = Value(UINT(1), VERSION)
  BY <1>1, <1>4, HeadersCarried
<1>6. ASSUME NEW f \in DOMAIN fields
      PROVE  /\ got.fields[f].number = msg.fields[f].number
             /\ got.fields[f].type \in ArrivesAs(Sends(kind)[f])
  <2>1. PICK n \in Numbers(Sends(kind)[f]) : fields[f] = Value(Sends(kind)[f], n)
    BY <1>6 DEF Typed
  <2>2. Sends(kind)[f] \in Sendable
    BY <1>6, SendsFacts DEF Typed
  <2>3. /\ Carried(fields[f]).number = n
        /\ Carried(fields[f]).type \in ArrivesAs(Sends(kind)[f])
    BY <2>1, <2>2, CarriedField
  <2>4. got.fields[f] = Carried(fields[f])
    BY <1>1, <1>2, <1>6
  <2> QED
    BY <1>2, <1>6, <2>1, <2>3, <2>4 DEF Value
<1>7. \A f \in DOMAIN msg.fields : got.fields[f].number = msg.fields[f].number
  BY <1>1, <1>4, <1>5, <1>6
<1>8. Valid(got)
  BY <1>1, <1>5 DEF Valid, Field
<1> QED
  BY <1>1, <1>6, <1>7, <1>8 DEF Typed

\* The handlers check the types they are given as the sender chose them.
LEMMA Handled ==
  ASSUME NEW kind \in Kinds, NEW fields, Typed(kind, fields),
         NEW msg, msg = BuildMsg(kind, fields), NEW got, got = Received(msg),
         NEW handler \in Kinds
  PROVE  UseMsg(got, handler) = IF handler = msg.kind THEN "success" ELSE "neither"
<1>1. /\ msg.kind = kind /\ got.kind = kind
      /\ \A f \in DOMAIN Sends(kind) :
           f \in DOMAIN got.fields /\ got.fields[f].type \in ArrivesAs(Sends(kind)[f])
      /\ Valid(got)
  BY Delivered
<1>2. Satisfies(got, Requirements(kind))
  BY <1>1, SendsFacts DEF Satisfies, Field
<1> QED
  BY <1>1, <1>2 DEF UseMsg

-----------------------------------------------------------------------------
LEMMA InvInit == Init => Inv
<1> DEFINE none == [f \in {} |-> Missing]
<1>1. Typed("no_block", none)
  BY DEF Typed, Sends, Requirements
<1> QED
  BY <1>1 DEF Init, Inv, Kinds

LEMMA InvNext == Inv /\ [Next]_vars => Inv'
<1> SUFFICES ASSUME Inv, [Next]_vars PROVE Inv'
  OBVIOUS
<1>1. CASE Next
  <2>1. PICK body \in Bodies : Send(body)
    BY <1>1 DEF Next
  <2>2. body.kind \in Kinds /\ Typed(body.kind, body.fields)
    BY BodiesAssumption DEF Typed
  <2> QED
    BY <2>1, <2>2 DEF Send, Inv
<1>2. CASE UNCHANGED vars
  BY <1>2 DEF Inv, vars
<1> QED
  BY <1>1, <1>2

LEMMA InvAlways == Spec => []Inv
BY InvInit, InvNext, PTL DEF Spec

\* msgpack11 changes the type of what it carries, never the number: for the real
\* limits of its integers and any messages of the program (Msgpack dump and parse).
THEOREM NumbersAlwaysSurvive == Spec => []NumbersSurvive
<1>1. Inv => NumbersSurvive
  BY Delivered DEF Inv, NumbersSurvive
<1> QED
  BY <1>1, InvAlways, PTL

\* Whatever integers a message carries, check_requirement accepts the types that
\* dump chose for them: the handler of its kind runs, and the others let it pass
\* (P2P use_msg).
THEOREM OneHandlerAlwaysRuns == Spec => []OneHandlerRuns
<1>1. Inv => OneHandlerRuns
  BY Handled DEF Inv, OneHandlerRuns
<1> QED
  BY <1>1, InvAlways, PTL

-----------------------------------------------------------------------------
(***************************************************************************)
(* The test of a hash.                                                     *)
(***************************************************************************)
HashTyped == hash \in [1..Looked(MaxDifficulty) -> 0..255]

LEMMA ByteHalves ==
  ASSUME NEW b \in 0..255
  PROVE  b = 0 <=> b \div 16 = 0 /\ b % 16 = 0
<1>1. b = 16 * (b \div 16) + (b % 16)
  OBVIOUS
<1> QED
  BY <1>1

LEMMA Halving ==
  ASSUME NEW d \in Nat
  PROVE  /\ d \div 2 \in Nat /\ (d + 1) \div 2 \in Nat
         /\ d % 2 = 1 => d = 2 * (d \div 2) + 1 /\ (d + 1) \div 2 = d \div 2 + 1
         /\ d % 2 # 1 => d = 2 * (d \div 2) /\ (d + 1) \div 2 = d \div 2
OBVIOUS

\* The loop over bytes is the loop over digits.
LEMMA NonceDigits ==
  ASSUME HashTyped, MaxDifficulty \in Nat, NEW difficulty \in 0..MaxDifficulty
  PROVE  is_nonce_valid(hash, difficulty) <=> \A i \in 1..difficulty : Nibble(i) = 0
<1> DEFINE d == difficulty
           h == d \div 2
<1>1. /\ d \in Nat /\ h \in Nat /\ Looked(d) \in Nat
      /\ d % 2 = 1 => d = 2 * h + 1 /\ Looked(d) = h + 1
      /\ d % 2 # 1 => d = 2 * h /\ Looked(d) = h
  BY Halving DEF Looked
<1>2. Looked(d) <= Looked(MaxDifficulty) /\ Looked(MaxDifficulty) \in Nat
  BY <1>1, Halving DEF Looked
<1>3. ASSUME NEW j \in 0..Looked(d) - 1
      PROVE  hash[j + 1] \in 0..255
  <2>1. j + 1 \in 1..Looked(MaxDifficulty)
    BY <1>1, <1>2
  <2> QED
    BY <2>1 DEF HashTyped
<1>4. ASSUME NEW j \in Nat
      PROVE  /\ Nibble(2 * j + 1) = hash[j + 1] \div 16
             /\ Nibble(2 * j + 2) = hash[j + 1] % 16
  <2>1. /\ (2 * j + 1) % 2 = 1 /\ ((2 * j + 1) + 1) \div 2 = j + 1
        /\ (2 * j + 2) % 2 = 0 /\ (2 * j + 2) \div 2 = j + 1
    OBVIOUS
  <2> QED
    BY <2>1 DEF Nibble
<1>5. ASSUME is_nonce_valid(hash, d), NEW i \in 1..d
      PROVE  Nibble(i) = 0
  <2>1. PICK j \in Nat : i = 2 * j + 1 \/ i = 2 * j + 2
    <3>1. (i - 1) \div 2 \in Nat
          /\ (i = 2 * ((i - 1) \div 2) + 1 \/ i = 2 * ((i - 1) \div 2) + 2)
      BY <1>1
    <3> QED
      BY <3>1
  <2>2. j \in 0..Looked(d) - 1
    BY <1>1, <2>1
  <2>3. IF d % 2 = 1 /\ j = h THEN hash[j + 1] \div 16 = 0 ELSE hash[j + 1] = 0
    BY <1>5, <2>2 DEF is_nonce_valid
  <2>4. CASE i = 2 * j + 1
    <3>1. hash[j + 1] \div 16 = 0
      BY <1>3, <2>2, <2>3, ByteHalves
    <3> QED
      BY <1>4, <2>4, <3>1
  <2>5. CASE i = 2 * j + 2
    <3>1. ~(d % 2 = 1 /\ j = h)
      BY <1>1, <2>5
    <3>2. hash[j + 1] % 16 = 0
      BY <1>3, <2>2, <2>3, <3>1, ByteHalves
    <3> QED
      BY <1>4, <2>5, <3>2
  <2> QED
    BY <2>1, <2>4, <2>5
<1>6. ASSUME \A i \in 1..d : Nibble(i) = 0
      PROVE  is_nonce_valid(hash, d)
  <2> SUFFICES ASSUME NEW j \in 0..Looked(d) - 1
               PROVE  IF d % 2 = 1 /\ j = h THEN hash[j + 1] \div 16 = 0 ELSE hash[j + 1] = 0
    BY DEF is_nonce_valid
  <2>1. j \in Nat /\ 2 * j + 1 \in 1..d
    BY <1>1
  <2>2. hash[j + 1] \div 16 = 0
    BY <1>4, <1>6, <2>1
  <2>3. CASE d % 2 = 1 /\ j = h
    BY <2>2, <2>3
  <2>4. CASE ~(d % 2 = 1 /\ j = h)
    <3>1. 2 * j + 2 \in 1..d
      BY <1>1, <2>1, <2>4
    <3>2. hash[j + 1] % 16 = 0
      BY <1>4, <1>6, <2>1, <3>1
    <3>3. hash[j + 1] = 0
      BY <1>3, <2>2, <3>2, ByteHalves
    <3> QED
      BY <2>4, <3>3
  <2> QED
    BY <2>3, <2>4
<1> QED
  BY <1>5, <1>6

\* What the miners and validate test of a hash, byte by byte with half a byte for an
\* odd difficulty, is that so many of its hexadecimal digits are zeroes, for every
\* hash and every difficulty (Block::is_nonce_valid).
THEOREM DifficultyAlwaysCounted == BlockSpec => []DifficultyCounted
<1>1. InitHash => HashTyped
  <2>1. Looked(MaxDifficulty) \in Nat
    BY MerkleAssumption, Halving DEF Looked
  <2> QED
    BY <2>1 DEF InitHash, HashTyped
<1>2. HashTyped /\ [AddTransactions \/ Hash]_blockVars => HashTyped'
  BY MerkleAssumption DEF HashTyped, AddTransactions, Hash, blockVars
<1>3. HashTyped => DifficultyCounted
  BY NonceDigits, MerkleAssumption DEF DifficultyCounted
<1> QED
  BY <1>1, <1>2, <1>3, PTL DEF BlockSpec

-----------------------------------------------------------------------------
(***************************************************************************)
(* The rounds of the merkle root, for any leaves.  A sequence is a         *)
(* function of 1..n here: what a leaf or a branch is does not matter until *)
(* the rounds of two roots are compared.                                   *)
(***************************************************************************)
IsList(s) == Len(s) \in Nat /\ s \in Seq(ToSet(s)) /\ DOMAIN s = 1..Len(s)

LEMMA FunctionIsList ==
  ASSUME NEW n \in Nat, NEW s, s = [i \in 1..n |-> s[i]]
  PROVE  IsList(s) /\ Len(s) = n
<1> DEFINE S == ToSet(s)
<1>1. \A i \in 1..n : s[i] \in S
  BY DEF ToSet
<1> HIDE DEF S
<1>2. s \in [1..n -> S]
  BY <1>1
<1>3. s \in Seq(S) /\ Len(s) = n
  BY <1>2
<1> QED
  BY <1>2, <1>3 DEF IsList, S

LEMMA HalfOf ==
  ASSUME NEW n \in Nat
  PROVE  /\ (n + 1) \div 2 \in Nat
         /\ n = 2 * ((n + 1) \div 2) \/ n = 2 * ((n + 1) \div 2) - 1
OBVIOUS

LEMMA Halves ==
  ASSUME NEW n \in Nat, NEW h, h = (n + 1) \div 2
  PROVE  /\ h \in Nat
         /\ \A i \in 1..h : 2 * i - 1 \in 1..n /\ (2 * i <= n => 2 * i \in 1..n)
         /\ \A j \in 1..n : \E i \in 1..h : j = 2 * i - 1 \/ j = 2 * i
<1>1. h \in Nat /\ (n = 2 * h \/ n = 2 * h - 1)
  BY HalfOf
<1>2. \A i \in 1..h : 2 * i - 1 \in 1..n /\ (2 * i <= n => 2 * i \in 1..n)
  BY <1>1
<1>3. ASSUME NEW j \in 1..n
      PROVE  \E i \in 1..h : j = 2 * i - 1 \/ j = 2 * i
  <2>1. PICK i \in Nat : j = 2 * i - 1 \/ j = 2 * i
    <3>1. j \in Nat
      OBVIOUS
    <3> QED
      BY <3>1, HalfOf
  <2>2. i \in 1..h
    BY <1>1, <2>1
  <2> QED
    BY <2>1, <2>2
<1> QED
  BY <1>1, <1>2, <1>3

LEMMA BranchIs ==
  ASSUME NEW s, IsList(s), Len(s) > 1
  PROVE  /\ IsList(Branch(s)) /\ Len(Branch(s)) = (Len(s) + 1) \div 2
         /\ \A i \in DOMAIN Branch(s) :
              /\ 2 * i - 1 \in DOMAIN s
              /\ \E j \in DOMAIN s : Branch(s)[i] = combine(s[2 * i - 1], s[j])
         /\ \A j \in DOMAIN s : \E i \in DOMAIN Branch(s) :
              \E x, y \in ToSet(s) : Branch(s)[i] = combine(x, y) /\ s[j] \in {x, y}
<1> DEFINE n == Len(s)
           h == (Len(s) + 1) \div 2
           b == Branch(s)
           pick(i) == IF 2 * i <= Len(s) THEN 2 * i ELSE 2 * i - 1
<1>0. n \in Nat /\ n > 1 /\ DOMAIN s = 1..n
  BY DEF IsList
<1>1. /\ h \in Nat
      /\ \A i \in 1..h : 2 * i - 1 \in 1..n /\ (2 * i <= n => 2 * i \in 1..n)
      /\ \A j \in 1..n : \E i \in 1..h : j = 2 * i - 1 \/ j = 2 * i
  <2> HIDE DEF n
  <2> QED
    BY <1>0, Halves DEF n
<1>2. b = [i \in 1..h |-> combine(s[2 * i - 1], s[pick(i)])]
  <2>1. \A i \in 1..h : s[pick(i)] = IF 2 * i <= Len(s) THEN s[2 * i] ELSE s[2 * i - 1]
    OBVIOUS
  <2> QED
    BY <2>1 DEF Branch
<1> HIDE DEF b
<1>3. DOMAIN b = 1..h /\ \A i \in 1..h : b[i] = combine(s[2 * i - 1], s[pick(i)])
  BY <1>2
<1>4. IsList(b) /\ Len(b) = h
  <2>1. b = [i \in 1..h |-> b[i]]
    BY <1>2
  <2> QED
    BY <1>1, <2>1, FunctionIsList
<1>5. ASSUME NEW i \in 1..h
      PROVE  2 * i - 1 \in 1..n /\ pick(i) \in 1..n
  <2>1. 2 * i - 1 \in 1..n /\ (2 * i <= n => 2 * i \in 1..n)
    BY <1>1
  <2> QED
    BY <2>1
<1>6. ASSUME NEW j \in 1..n
      PROVE  \E i \in 1..h : \E x, y \in ToSet(s) : b[i] = combine(x, y) /\ s[j] \in {x, y}
  <2>1. \E i \in 1..h : j = 2 * i - 1 \/ j = pick(i)
    <3>1. PICK i \in 1..h : j = 2 * i - 1 \/ j = 2 * i
      BY <1>1
    <3>2. j = 2 * i => pick(i) = j
      BY <1>0
    <3> HIDE DEF pick, h
    <3> QED
      BY <3>1, <3>2
  <2>2. PICK i \in 1..h : j = 2 * i - 1 \/ j = pick(i)
    BY <2>1
  <2> HIDE DEF pick
  <2>3. s[2 * i - 1] \in ToSet(s) /\ s[pick(i)] \in ToSet(s)
    BY <1>0, <1>5 DEF ToSet
  <2> QED
    BY <1>3, <2>2, <2>3
<1> HIDE DEF pick, h
<1> QED
  BY <1>0, <1>3, <1>4, <1>5, <1>6 DEF b, h

\* The elements of the branches are the pairs of elements of the list: of the
\* branches one gets back the elements, though not how many times each is there.
Parts(S) == {p[1] : p \in S} \cup {p[2] : p \in S}

LEMMA BranchParts ==
  ASSUME NEW s, IsList(s), Len(s) > 1
  PROVE  Parts(ToSet(Branch(s))) = ToSet(s)
<1> DEFINE b == Branch(s)
<1>1. /\ \A i \in DOMAIN b :
           /\ 2 * i - 1 \in DOMAIN s
           /\ \E j \in DOMAIN s : b[i] = combine(s[2 * i - 1], s[j])
      /\ \A j \in DOMAIN s : \E i \in DOMAIN b :
           \E x, y \in ToSet(s) : b[i] = combine(x, y) /\ s[j] \in {x, y}
  BY BranchIs
<1>2. \A x, y : combine(x, y)[1] = x /\ combine(x, y)[2] = y
  BY DEF combine
<1> HIDE DEF b
<1>3. ASSUME NEW p \in ToSet(b)
      PROVE  p[1] \in ToSet(s) /\ p[2] \in ToSet(s)
  <2>1. PICK i \in DOMAIN b : p = b[i]
    BY DEF ToSet
  <2>2. PICK j \in DOMAIN s : 2 * i - 1 \in DOMAIN s /\ p = combine(s[2 * i - 1], s[j])
    BY <1>1, <2>1
  <2> QED
    BY <1>2, <2>2 DEF ToSet
<1>4. ASSUME NEW e \in ToSet(s)
      PROVE  e \in Parts(ToSet(b))
  <2>1. PICK j \in DOMAIN s : e = s[j]
    BY DEF ToSet
  <2>2. PICK i \in DOMAIN b : \E x, y \in ToSet(s) : b[i] = combine(x, y) /\ s[j] \in {x, y}
    BY <1>1
  <2>3. e = b[i][1] \/ e = b[i][2]
    BY <1>2, <2>1, <2>2
  <2>4. b[i] \in ToSet(b)
    BY DEF ToSet
  <2> QED
    BY <2>3, <2>4 DEF Parts
<1>5. Parts(ToSet(b)) \subseteq ToSet(s)
  BY <1>3 DEF Parts
<1> QED
  BY <1>4, <1>5 DEF b

-----------------------------------------------------------------------------
Round(s) == IF Len(s) = 1 THEN s ELSE Branch(s)

\* f is n rounds that begin with the leaves.
Rounds(f, leaves, n) ==
  DOMAIN f = 0..n /\ f[0] = leaves /\ \A i \in 1..n : f[i] = Round(f[i - 1])

LEMMA RoundsExist ==
  ASSUME NEW leaves, NEW N \in Nat
  PROVE  \E f : Rounds(f, leaves, N)
<1> DEFINE S == {k \in Nat : \E f : Rounds(f, leaves, k)}
<1>1. 0 \in S
  <2> DEFINE g == [i \in 0..0 |-> leaves]
  <2>1. DOMAIN g = 0..0 /\ g[0] = leaves
    OBVIOUS
  <2> HIDE DEF g
  <2>2. Rounds(g, leaves, 0)
    BY <2>1 DEF Rounds
  <2> QED
    BY <2>2
<1>2. ASSUME NEW k \in Nat, k \in S
      PROVE  k + 1 \in S
  <2>1. PICK f : Rounds(f, leaves, k)
    BY <1>2
  <2> DEFINE g == [i \in 0..k + 1 |-> IF i = k + 1 THEN Round(f[k]) ELSE f[i]]
  <2>2. DOMAIN g = 0..k + 1 /\ g[k + 1] = Round(f[k]) /\ \A i \in 0..k : g[i] = f[i]
    OBVIOUS
  <2> HIDE DEF g
  <2>3. g[0] = leaves
    BY <2>1, <2>2 DEF Rounds
  <2>4. \A i \in 1..k + 1 : g[i] = Round(g[i - 1])
    <3> TAKE i \in 1..k + 1
    <3>1. CASE i = k + 1
      <4>1. i - 1 = k /\ k \in 0..k
        BY <3>1
      <4> QED
        BY <2>2, <3>1, <4>1
    <3>2. CASE i # k + 1
      <4>1. i \in 1..k /\ i \in 0..k /\ i - 1 \in 0..k
        BY <3>2
      <4> QED
        BY <2>1, <2>2, <4>1 DEF Rounds
    <3> QED
      BY <3>1, <3>2
  <2>5. Rounds(g, leaves, k + 1)
    BY <2>2, <2>3, <2>4 DEF Rounds
  <2> QED
    BY <2>5
<1>3. Nat \subseteq S
  <2> HIDE DEF S
  <2> QED
    BY <1>1, <1>2, SetInduction
<1>4. N \in S
  <2> HIDE DEF S
  <2> QED
    BY <1>3
<1> QED
  BY <1>4

LEMMA RootIs ==
  ASSUME NEW leaves, Len(leaves) \in Nat
  PROVE  \E f : Rounds(f, leaves, Len(leaves)) /\ Root(leaves) = f[Len(leaves)][1]
<1> DEFINE N == Len(leaves)
           branches[n \in 0..N] ==
             IF n = 0 THEN leaves
             ELSE IF Len(branches[n - 1]) = 1 THEN branches[n - 1]
             ELSE Branch(branches[n - 1])
           Body(g) == [n \in 0..N |->
                         IF n = 0 THEN leaves
                         ELSE IF Len(g[n - 1]) = 1 THEN g[n - 1]
                         ELSE Branch(g[n - 1])]
<1>0. N \in Nat
  OBVIOUS
<1>1. PICK f : Rounds(f, leaves, N)
  <2> HIDE DEF N, branches, Body
  <2> QED
    BY <1>0, RoundsExist
<1> DEFINE h == [i \in 0..N |-> f[i]]
<1>2. h = Body(h)
  <2>1. \A i \in 0..N : i = 0 \/ (i \in 1..N /\ i - 1 \in 0..N)
    OBVIOUS
  <2>2. \A i \in 0..N : h[i] = f[i]
    OBVIOUS
  <2>3. \A i \in 0..N : f[i] = IF i = 0 THEN leaves
                               ELSE IF Len(h[i - 1]) = 1 THEN h[i - 1] ELSE Branch(h[i - 1])
    <3> TAKE i \in 0..N
    <3>1. CASE i = 0
      BY <1>1, <3>1 DEF Rounds
    <3>2. CASE i # 0
      BY <1>1, <2>1, <2>2, <3>2, Zenon DEF Round, Rounds
    <3> QED
      BY <3>1, <3>2
  <2> QED
    BY <2>3, Zenon
<1>3. branches = Body(branches)
  <2> HIDE DEF h
  <2> QED
    BY <1>2, Zenon
<1>4. Root(leaves) = branches[N][1]
  BY Zenon DEF Root
<1> HIDE DEF branches
<1>5. Rounds(branches, leaves, N)
  <2>1. \A i \in 0..N : branches[i] = IF i = 0 THEN leaves
                                      ELSE IF Len(branches[i - 1]) = 1 THEN branches[i - 1]
                                      ELSE Branch(branches[i - 1])
    BY <1>3, Zenon
  <2>2. 0 \in 0..N /\ \A i \in 1..N : i \in 0..N /\ i # 0
    OBVIOUS
  <2>3. branches[0] = leaves
    BY <2>1, <2>2, Zenon
  <2>4. \A i \in 1..N : branches[i] = Round(branches[i - 1])
    BY <2>1, <2>2, Zenon DEF Round
  <2>5. DOMAIN branches = 0..N
    BY <1>3
  <2> QED
    BY <2>3, <2>4, <2>5 DEF Rounds
<1> QED
  BY <1>4, <1>5

-----------------------------------------------------------------------------
\* The rounds that combine: D of them, each of several elements, up to one.
Climbs(f, leaves, D) ==
  /\ D \in Nat /\ f[0] = leaves
  /\ \A i \in 0..D : IsList(f[i])
  /\ \A i \in 0..D - 1 : Len(f[i]) > 1 /\ f[i + 1] = Branch(f[i])
  /\ Len(f[D]) = 1

LEMMA MoreThanOne == \A n \in Nat : n > 0 /\ n # 1 => n > 1
OBVIOUS

LEMMA HalfLess ==
  ASSUME NEW n \in Nat, n > 1
  PROVE  (n + 1) \div 2 \in 1..n - 1
OBVIOUS

\* Every round leaves fewer, so that as many rounds as leaves leave one.
LEMMA RoundsShrink ==
  ASSUME NEW f, NEW leaves, NEW N \in Nat \ {0}, Rounds(f, leaves, N), IsList(leaves),
         Len(leaves) = N
  PROVE  \A i \in 0..N :
           IsList(f[i]) /\ Len(f[i]) > 0 /\ (Len(f[i]) = 1 \/ Len(f[i]) <= N - i)
<1> DEFINE S == {i \in 0..N :
                   IsList(f[i]) /\ Len(f[i]) > 0 /\ (Len(f[i]) = 1 \/ Len(f[i]) <= N - i)}
<1>1. 0 \in S
  <2>1. f[0] = leaves
    BY DEF Rounds
  <2> QED
    BY <2>1
<1>2. ASSUME NEW i \in 1..N, i - 1 \in S
      PROVE  i \in S
  <2> DEFINE b == f[i - 1]
  <2>1. /\ f[i] = Round(b) /\ IsList(b) /\ Len(b) \in Nat /\ Len(b) > 0
        /\ Len(b) = 1 \/ Len(b) <= N - (i - 1)
    BY <1>2 DEF Rounds, IsList
  <2> HIDE DEF b
  <2>2. CASE Len(b) = 1
    <3>1. f[i] = b
      BY <2>1, <2>2, Zenon DEF Round
    <3>2. IsList(f[i]) /\ Len(f[i]) = 1
      BY <2>1, <2>2, <3>1
    <3>3. i \in 0..N /\ Len(f[i]) > 0
      BY <3>2
    <3> QED
      BY <3>2, <3>3
  <2>3. CASE Len(b) # 1
    <3>0. Len(b) > 1 /\ Len(b) \in Nat
      BY <2>1, <2>3, MoreThanOne
    <3>1. f[i] = Branch(b) /\ Len(b) > 1 /\ Len(b) \in Nat
      BY <2>1, <2>3, <3>0, Zenon DEF Round
    <3>2. IsList(f[i]) /\ Len(f[i]) = (Len(b) + 1) \div 2
      BY <2>1, <3>1, BranchIs
    <3>3. Len(f[i]) \in 1..Len(b) - 1
      BY <3>1, <3>2, HalfLess
    <3>4. Len(f[i]) > 0 /\ Len(f[i]) <= N - i
      BY <2>1, <2>3, <3>1, <3>3
    <3> QED
      BY <3>2, <3>4
  <2> QED
    BY <2>2, <2>3
<1>3. 0..N \subseteq S
  <2> HIDE DEF S
  <2> QED
    BY <1>1, <1>2, SetInductionUpTo
<1> QED
  BY <1>3

LEMMA Least ==
  ASSUME NEW n \in Nat, NEW T, T \subseteq 0..n, T # {}
  PROVE  \E m \in T : \A k \in T : m <= k
<1> DEFINE U == {n + 1 - k : k \in T}
<1>1. U \subseteq 1..n + 1 /\ U # {}
  <2>1. \A k \in T : n + 1 - k \in 1..n + 1
    OBVIOUS
  <2> QED
    BY <2>1
<1>2. PICK u \in U : \A v \in U : v <= u
  <2> HIDE DEF U
  <2>1. n + 1 \in Nat
    OBVIOUS
  <2> QED
    BY <1>1, <2>1, Greatest
<1>3. PICK m \in T : u = n + 1 - m
  OBVIOUS
<1>4. ASSUME NEW k \in T PROVE m <= k
  <2>1. n + 1 - k <= n + 1 - m
    BY <1>2, <1>3
  <2>2. m \in 0..n /\ k \in 0..n
    OBVIOUS
  <2> QED
    BY <2>1, <2>2
<1> QED
  BY <1>4

LEMMA RootClimbs ==
  ASSUME NEW leaves, IsList(leaves), Len(leaves) > 0
  PROVE  \E f, D : Climbs(f, leaves, D) /\ Root(leaves) = f[D][1]
<1>1. PICK N : N = Len(leaves)
  OBVIOUS
<1>2. N \in Nat \ {0}
  BY <1>1 DEF IsList
<1>3. PICK f : Rounds(f, leaves, N) /\ Root(leaves) = f[N][1]
  BY <1>1, <1>2, RootIs
<1>4. \A i \in 0..N : IsList(f[i]) /\ Len(f[i]) > 0 /\ (Len(f[i]) = 1 \/ Len(f[i]) <= N - i)
  BY <1>1, <1>2, <1>3, RoundsShrink
<1> DEFINE T == {i \in 0..N : Len(f[i]) = 1}
<1>5. PICK D \in T : \A k \in T : D <= k
  <2>1. N \in T
    <3>1. N \in 0..N
      BY <1>2
    <3>2. Len(f[N]) \in Nat /\ Len(f[N]) > 0 /\ (Len(f[N]) = 1 \/ Len(f[N]) <= N - N)
      BY <1>4, <3>1 DEF IsList
    <3> QED
      BY <1>2, <3>1, <3>2
  <2>2. T \subseteq 0..N /\ T # {}
    BY <2>1
  <2> HIDE DEF T
  <2> QED
    BY <1>2, <2>2, Least
<1>6. D \in 0..N /\ Len(f[D]) = 1
  BY <1>5
<1>7. ASSUME NEW i \in 0..D - 1
      PROVE  Len(f[i]) > 1 /\ f[i + 1] = Branch(f[i])
  <2>1. i \in 0..N /\ i + 1 \in 1..N /\ i < D
    BY <1>2, <1>6
  <2>2. Len(f[i]) # 1
    BY <1>2, <1>5, <1>6, <2>1
  <2>3. Len(f[i]) > 1
    <3>1. Len(f[i]) \in Nat /\ Len(f[i]) > 0
      BY <1>4, <2>1 DEF IsList
    <3> QED
      BY <2>2, <3>1, MoreThanOne
  <2>4. f[i + 1] = Round(f[i + 1 - 1]) /\ i + 1 - 1 = i
    BY <1>3, <2>1 DEF Rounds
  <2>5. f[i + 1] = Round(f[i])
    BY <2>4
  <2> QED
    BY <2>2, <2>3, <2>5 DEF Round
<1>8. f[N] = f[D]
  <2> DEFINE S == {i \in 0..N : i >= D => f[i] = f[D]}
  <2>1. 0 \in S
    BY <1>2, <1>6
  <2>2. ASSUME NEW i \in 1..N, i - 1 \in S
        PROVE  i \in S
    <3>1. CASE i <= D
      BY <1>6, <3>1
    <3>2. CASE i > D
      <4>1. f[i - 1] = f[D] /\ f[i] = Round(f[i - 1])
        BY <1>3, <1>6, <2>2, <3>2 DEF Rounds
      <4> QED
        BY <1>6, <4>1 DEF Round
    <3> QED
      BY <1>6, <3>1, <3>2
  <2>3. 0..N \subseteq S
    <3> HIDE DEF S
    <3> QED
      BY <1>2, <2>1, <2>2, SetInductionUpTo
  <2> QED
    BY <1>2, <1>6, <2>3
<1>9. D \in Nat /\ \A i \in 0..D : i \in 0..N
  BY <1>2, <1>6
<1>10. Climbs(f, leaves, D)
  BY <1>3, <1>4, <1>6, <1>7, <1>9 DEF Climbs, Rounds
<1> QED
  BY <1>3, <1>8, <1>10

\* Two climbs to one root have the same elements at the same distance from it.
LEMMA SameLevels ==
  ASSUME NEW f, NEW leaves, NEW D, Climbs(f, leaves, D),
         NEW g, NEW others, NEW E, Climbs(g, others, E),
         f[D][1] = g[E][1], NEW K \in Nat, K <= D, K <= E
  PROVE  ToSet(f[D - K]) = ToSet(g[E - K])
<1> DEFINE S == {j \in 0..K : ToSet(f[D - j]) = ToSet(g[E - j])}
<1>0. D \in Nat /\ E \in Nat
  BY DEF Climbs
<1>1. 0 \in S
  <2>1. D - 0 = D /\ E - 0 = E /\ D \in 0..D /\ E \in 0..E
    BY <1>0
  <2>2. DOMAIN f[D] = 1..1 /\ DOMAIN g[E] = 1..1
    BY <2>1 DEF Climbs, IsList
  <2>3. ToSet(f[D]) = {f[D][1]} /\ ToSet(g[E]) = {g[E][1]}
    BY <2>2 DEF ToSet
  <2> QED
    BY <2>1, <2>3
<1>2. ASSUME NEW j \in 1..K, j - 1 \in S
      PROVE  j \in S
  <2>1. D - j \in 0..D - 1 /\ E - j \in 0..E - 1 /\ D - j \in 0..D /\ E - j \in 0..E
        /\ D - j + 1 = D - (j - 1) /\ E - j + 1 = E - (j - 1)
    BY <1>0
  <2>2. IsList(f[D - j]) /\ Len(f[D - j]) > 1 /\ f[D - (j - 1)] = Branch(f[D - j])
    <3>1. f[D - j + 1] = Branch(f[D - j])
      BY <2>1 DEF Climbs
    <3> QED
      BY <2>1, <3>1 DEF Climbs
  <2>3. IsList(g[E - j]) /\ Len(g[E - j]) > 1 /\ g[E - (j - 1)] = Branch(g[E - j])
    <3>1. g[E - j + 1] = Branch(g[E - j])
      BY <2>1 DEF Climbs
    <3> QED
      BY <2>1, <3>1 DEF Climbs
  <2>4. ToSet(f[D - j]) = Parts(ToSet(f[D - (j - 1)]))
        /\ ToSet(g[E - j]) = Parts(ToSet(g[E - (j - 1)]))
    BY <2>2, <2>3, BranchParts
  <2>5. ToSet(f[D - (j - 1)]) = ToSet(g[E - (j - 1)])
    BY <1>2
  <2> QED
    BY <2>4, <2>5
<1>3. 0..K \subseteq S
  <2> HIDE DEF S
  <2> QED
    BY <1>1, <1>2, SetInductionUpTo
<1> QED
  BY <1>3

AreLeaves(s) == IsList(s) /\ Len(s) > 0 /\ \A i \in DOMAIN s : \E x : s[i] = Leaf(x)

LEMMA LeafIsNoBranch == \A x, y, z : Leaf(x) # combine(y, z)
<1> TAKE x, y, z
<1>1. DOMAIN Leaf(x) = 1..1 /\ DOMAIN combine(y, z) = 1..2
  BY DEF Leaf, combine
<1>2. 1..1 # 1..2
  OBVIOUS
<1> QED
  BY <1>1, <1>2

\* No climb begins with a round of another.
LEMMA NotHigher ==
  ASSUME NEW f, NEW leaves, NEW D, Climbs(f, leaves, D), AreLeaves(leaves),
         NEW g, NEW others, NEW E, Climbs(g, others, E),
         f[D][1] = g[E][1]
  PROVE  E <= D
<1> SUFFICES ASSUME ~(E <= D) PROVE FALSE
  OBVIOUS
<1>0. D \in Nat /\ E \in Nat /\ D < E
  BY DEF Climbs
<1>1. ToSet(f[D - D]) = ToSet(g[E - D])
  <2>1. PICK K \in Nat : K = D
    BY <1>0
  <2>2. K <= D /\ K <= E
    BY <1>0, <2>1
  <2>3. ToSet(f[D - K]) = ToSet(g[E - K])
    BY <2>2, SameLevels
  <2> QED
    BY <2>1, <2>3
<1>2. f[D - D] = leaves
  BY <1>0 DEF Climbs
<1>3. PICK h \in 0..E - 1 : E - D = h + 1
  <2>1. E - D - 1 \in 0..E - 1 /\ E - D = E - D - 1 + 1
    BY <1>0
  <2> QED
    BY <2>1
<1>4. IsList(g[h]) /\ Len(g[h]) > 1 /\ g[h + 1] = Branch(g[h])
  <2>1. h \in 0..E
    BY <1>0
  <2> QED
    BY <2>1 DEF Climbs
<1>5. 1 \in DOMAIN leaves
  BY DEF AreLeaves, IsList
<1>6. PICK x : leaves[1] = Leaf(x)
  BY <1>5 DEF AreLeaves
<1>7. Leaf(x) \in ToSet(Branch(g[h]))
  <2>1. leaves[1] \in ToSet(leaves)
    BY <1>5 DEF ToSet
  <2> QED
    BY <1>1, <1>2, <1>3, <1>4, <1>6, <2>1
<1>8. PICK i \in DOMAIN Branch(g[h]) : Leaf(x) = Branch(g[h])[i]
  BY <1>7 DEF ToSet
<1>9. \E y, z : Branch(g[h])[i] = combine(y, z)
  <2> DEFINE b == g[h]
  <2>1. \A k \in DOMAIN Branch(b) : \E j \in DOMAIN b : Branch(b)[k] = combine(b[2 * k - 1], b[j])
    <3> HIDE DEF b
    <3>1. IsList(b) /\ Len(b) > 1
      BY <1>4 DEF b
    <3> QED
      BY <3>1, BranchIs
  <2> QED
    BY <2>1
<1> QED
  BY <1>8, <1>9, LeafIsNoBranch

LEMMA RootGivesLeaves ==
  ASSUME NEW leaves, AreLeaves(leaves), NEW others, AreLeaves(others),
         Root(leaves) = Root(others)
  PROVE  ToSet(leaves) = ToSet(others)
<1>1. PICK f, D : Climbs(f, leaves, D) /\ Root(leaves) = f[D][1]
  BY RootClimbs DEF AreLeaves
<1>2. PICK g, E : Climbs(g, others, E) /\ Root(others) = g[E][1]
  BY RootClimbs DEF AreLeaves
<1>3. D \in Nat /\ E \in Nat /\ f[0] = leaves /\ g[0] = others
  BY <1>1, <1>2 DEF Climbs
<1>4. E <= D /\ D <= E
  BY <1>1, <1>2, NotHigher
<1>5. D = E
  BY <1>3, <1>4
<1>6. ToSet(f[D - D]) = ToSet(g[E - D])
  <2>1. PICK K \in Nat : K = D
    BY <1>3
  <2>2. K <= D /\ K <= E
    BY <1>3, <1>5, <2>1
  <2>3. ToSet(f[D - K]) = ToSet(g[E - K])
    <3>1. f[D][1] = g[E][1] /\ Climbs(f, leaves, D) /\ Climbs(g, others, E)
      BY <1>1, <1>2
    <3> QED
      BY <2>2, <3>1, SameLevels
  <2> QED
    BY <2>1, <2>3
<1>7. D - D = 0 /\ E - D = 0
  BY <1>3, <1>5
<1> QED
  BY <1>3, <1>6, <1>7

-----------------------------------------------------------------------------
(***************************************************************************)
(* Sorting, by how many of a list are less than an element or no greater.  *)
(***************************************************************************)
LEMMA Counts ==
  ASSUME NEW n \in Nat, NEW I, I \subseteq 1..n, NEW J, J \subseteq I
  PROVE  /\ IsFiniteSet(I) /\ Cardinality(I) \in 0..n
         /\ IsFiniteSet(J) /\ Cardinality(J) \in 0..n /\ Cardinality(J) <= Cardinality(I)
         /\ Cardinality(J) = Cardinality(I) => J = I
<1>1. IsFiniteSet(1..n) /\ Cardinality(1..n) = n
  BY FS_Interval
<1>2. IsFiniteSet(I) /\ Cardinality(I) <= n
  BY <1>1, FS_Subset
<1>3. IsFiniteSet(J) /\ Cardinality(J) <= Cardinality(I)
      /\ (Cardinality(I) = Cardinality(J) => I = J)
  BY <1>2, FS_Subset
<1>4. Cardinality(I) \in Nat /\ Cardinality(J) \in Nat
  BY <1>2, <1>3, FS_CardinalityType
<1> QED
  BY <1>2, <1>3, <1>4

LEMMA GreatestAmong ==
  ASSUME NEW n \in Nat, NEW s \in [1..n -> Nat], NEW I, I \subseteq 1..n, I # {}
  PROVE  \E m \in I : \A i \in I : s[i] <= s[m]
<1> DEFINE Has(J) == J # {} => \E m \in J : \A i \in J : s[i] <= s[m]
           S == {k \in 0..n : \A J \in SUBSET (1..k) : Has(J)}
<1>1. 0 \in S
  <2>1. 1..0 = {}
    OBVIOUS
  <2>2. \A J \in SUBSET (1..0) : Has(J)
    <3> SUFFICES ASSUME NEW J, J \subseteq 1..0 PROVE J = {}
      OBVIOUS
    <3> QED
      BY <2>1
  <2>3. 0 \in 0..n
    OBVIOUS
  <2> HIDE DEF Has
  <2> QED
    BY <2>2, <2>3
<1>2. ASSUME NEW k \in 1..n, k - 1 \in S
      PROVE  k \in S
  <2> SUFFICES ASSUME NEW J \in SUBSET (1..k), J # {}
               PROVE  \E m \in J : \A i \in J : s[i] <= s[m]
    OBVIOUS
  <2> DEFINE K == J \ {k}
  <2>1. K \in SUBSET (1..k - 1)
    OBVIOUS
  <2>2. CASE K = {}
    <3>1. J = {k}
      BY <2>2
    <3> QED
      BY <3>1
  <2>3. CASE K # {}
    <3>1. PICK m \in K : \A i \in K : s[i] <= s[m]
      BY <1>2, <2>1, <2>3
    <3>2. CASE k \in J /\ s[k] > s[m]
      <4>1. \A i \in J : s[i] <= s[k]
        BY <3>1, <3>2
      <4> QED
        BY <3>2, <4>1
    <3>3. CASE ~(k \in J /\ s[k] > s[m])
      <4>1. m \in J /\ \A i \in J : s[i] <= s[m]
        BY <3>1, <3>3
      <4> QED
        BY <4>1
    <3> QED
      BY <3>2, <3>3
  <2> QED
    BY <2>2, <2>3
<1>3. 0..n \subseteq S
  <2> HIDE DEF S
  <2> QED
    BY <1>1, <1>2, SetInductionUpTo
<1> QED
  BY <1>3

LEMMA LeastOfSome ==
  ASSUME NEW S, S \subseteq Nat, S # {}
  PROVE  \E x \in S : \A y \in S : x <= y
<1>1. PICK n \in S : TRUE
  OBVIOUS
<1> DEFINE T == {y \in S : y <= n}
<1>2. n \in Nat /\ T \subseteq 0..n /\ n \in T
  <2>1. n \in Nat /\ \A y \in S : y \in Nat
    BY <1>1
  <2>2. T \subseteq 0..n
    <3> SUFFICES ASSUME NEW y \in T PROVE y \in 0..n
      OBVIOUS
    <3> QED
      BY <2>1
  <2>3. n <= n
    BY <2>1
  <2> QED
    BY <1>1, <2>1, <2>2, <2>3
<1>3. PICK x \in T : \A y \in T : x <= y
  <2> HIDE DEF T
  <2> QED
    BY <1>2, Least
<1> QED
  BY <1>2, <1>3

\* The positions of a list that hold less than x, and that hold no more than x.
Lower(s, x) == {i \in DOMAIN s : s[i] < x}
UpTo(s, x)  == {i \in DOMAIN s : s[i] <= x}

LEMMA CountsOf ==
  ASSUME NEW n \in Nat, NEW s \in [1..n -> Nat], NEW x \in Nat
  PROVE  /\ Less(s, x) \in 0..n /\ NoGreater(s, x) \in 0..n
         /\ Less(s, x) = Cardinality(Lower(s, x)) /\ NoGreater(s, x) = Cardinality(UpTo(s, x))
         /\ Lower(s, x) \subseteq UpTo(s, x) /\ UpTo(s, x) \subseteq 1..n
<1>1. Lower(s, x) \subseteq UpTo(s, x) /\ UpTo(s, x) \subseteq 1..n
  BY DEF Lower, UpTo
<1>2. Less(s, x) = Cardinality(Lower(s, x)) /\ NoGreater(s, x) = Cardinality(UpTo(s, x))
  BY DEF Less, NoGreater, Lower, UpTo
<1> QED
  BY <1>1, <1>2, Counts

LEMMA LessThanGreater ==
  ASSUME NEW n \in Nat, NEW s \in [1..n -> Nat], NEW x \in Nat, NEW y \in Nat, x < y
  PROVE  NoGreater(s, x) <= Less(s, y)
<1>1. UpTo(s, x) \subseteq Lower(s, y) /\ Lower(s, y) \subseteq 1..n
  BY DEF UpTo, Lower
<1>2. Cardinality(UpTo(s, x)) <= Cardinality(Lower(s, y))
  BY <1>1, Counts
<1> QED
  BY <1>2, CountsOf

LEMMA LessThanItself ==
  ASSUME NEW n \in Nat, NEW s \in [1..n -> Nat], NEW p \in 1..n
  PROVE  Less(s, s[p]) < NoGreater(s, s[p])
<1> DEFINE x == s[p]
<1>1. x \in Nat /\ p \in UpTo(s, x) /\ p \notin Lower(s, x)
  BY DEF UpTo, Lower
<1> HIDE DEF x
<1>2. Lower(s, x) \subseteq UpTo(s, x) /\ UpTo(s, x) \subseteq 1..n
  BY <1>1, CountsOf
<1>3. Cardinality(Lower(s, x)) <= Cardinality(UpTo(s, x))
      /\ Cardinality(Lower(s, x)) # Cardinality(UpTo(s, x))
  BY <1>1, <1>2, Counts
<1>4. Less(s, x) < NoGreater(s, x)
  <2>1. Less(s, x) \in 0..n /\ NoGreater(s, x) \in 0..n
        /\ Less(s, x) = Cardinality(Lower(s, x)) /\ NoGreater(s, x) = Cardinality(UpTo(s, x))
    BY <1>1, CountsOf
  <2> QED
    BY <1>3, <2>1
<1> QED
  BY <1>4 DEF x

LEMMA RanksExist ==
  ASSUME NEW n \in Nat, NEW s \in [1..n -> Nat], NEW k \in 1..n
  PROVE  \E x \in ToSet(s) : Less(s, x) < k /\ k <= NoGreater(s, x)
<1> DEFINE V == {x \in ToSet(s) : k <= NoGreater(s, x)}
<1>0. ToSet(s) \subseteq Nat /\ ToSet(s) = {s[i] : i \in 1..n}
  BY DEF ToSet
<1>1. V # {}
  <2>1. PICK m \in 1..n : \A i \in 1..n : s[i] <= s[m]
    BY GreatestAmong
  <2>2. UpTo(s, s[m]) = 1..n
    BY <2>1 DEF UpTo
  <2>3. Cardinality(1..n) = n
    BY FS_Interval
  <2>4. s[m] \in Nat
    OBVIOUS
  <2>5. NoGreater(s, s[m]) = n
    BY <2>2, <2>3, <2>4, CountsOf
  <2> QED
    BY <1>0, <2>5
<1>2. PICK x \in V : \A y \in V : x <= y
  <2>1. V \subseteq Nat
    BY <1>0
  <2> HIDE DEF V
  <2> QED
    BY <1>1, <2>1, LeastOfSome
<1>3. x \in ToSet(s) /\ x \in Nat /\ k <= NoGreater(s, x)
  BY <1>0
<1>4. Less(s, x) < k
  <2>1. CASE Lower(s, x) = {}
    <3>1. Less(s, x) = 0
      <4>1. Less(s, x) = Cardinality(Lower(s, x))
        BY <1>3, CountsOf
      <4>2. Cardinality({}) = 0
        BY FS_EmptySet, Zenon
      <4> QED
        BY <2>1, <4>1, <4>2
    <3> QED
      BY <3>1
  <2>2. CASE Lower(s, x) # {}
    <3>1. Lower(s, x) \subseteq 1..n
      BY DEF Lower
    <3>2. PICK m \in Lower(s, x) : \A i \in Lower(s, x) : s[i] <= s[m]
      BY <2>2, <3>1, GreatestAmong
    <3>3. m \in 1..n /\ s[m] \in Nat /\ s[m] < x
      BY <3>1 DEF Lower
    <3>4. UpTo(s, s[m]) = Lower(s, x)
      BY <1>3, <3>1, <3>2, <3>3 DEF UpTo, Lower
    <3>5. NoGreater(s, s[m]) = Less(s, x)
      BY <1>3, <3>3, <3>4, CountsOf
    <3>6. s[m] \notin V
      BY <1>2, <1>3, <3>3
    <3>7. ~(k <= NoGreater(s, s[m]))
      BY <1>0, <3>3, <3>6
    <3>8. Less(s, x) \in Nat
      BY <1>3, CountsOf
    <3> QED
      BY <3>5, <3>7, <3>8
  <2> QED
    BY <2>1, <2>2
<1> QED
  BY <1>3, <1>4

LEMMA SortedHas ==
  ASSUME NEW n \in Nat, NEW s \in [1..n -> Nat]
  PROVE  DOMAIN Sorted(s) = 1..n /\ ToSet(Sorted(s)) = ToSet(s)
<1> DEFINE r == Sorted(s)
           Rank(x, k) == Less(s, x) < k /\ k <= NoGreater(s, x)
<1>0. ToSet(s) = {s[i] : i \in 1..n} /\ ToSet(s) \subseteq Nat
  BY DEF ToSet
<1>1. r = [k \in 1..n |-> CHOOSE x \in ToSet(s) : Rank(x, k)]
  BY DEF Sorted
<1>2. \A k \in 1..n : \E x \in ToSet(s) : Rank(x, k)
  BY RanksExist
<1>3. ASSUME NEW k \in 1..n
      PROVE  r[k] \in ToSet(s) /\ Rank(r[k], k)
  <2>1. r[k] = CHOOSE x \in ToSet(s) : Rank(x, k)
    BY <1>1
  <2> HIDE DEF r, Rank
  <2> QED
    BY <1>2, <2>1, Zenon
<1>4. ASSUME NEW p \in 1..n
      PROVE  \E k \in 1..n : r[k] = s[p]
  <2>1. PICK x \in Nat : x = s[p]
    OBVIOUS
  <2>2. Less(s, x) < NoGreater(s, x)
    BY <2>1, LessThanItself
  <2>3. Less(s, x) \in 0..n /\ NoGreater(s, x) \in 0..n
    BY CountsOf
  <2>4. PICK k \in 1..n : k = NoGreater(s, x)
    BY <2>2, <2>3
  <2>5. PICK y \in Nat : y = r[k] /\ Rank(y, k)
    BY <1>0, <1>3
  <2>6. Less(s, y) \in 0..n /\ NoGreater(s, y) \in 0..n
    BY CountsOf
  <2>7. ~(y < x)
    <3>1. y < x => NoGreater(s, y) <= Less(s, x)
      BY LessThanGreater
    <3> QED
      BY <2>2, <2>3, <2>4, <2>5, <2>6, <3>1
  <2>8. ~(x < y)
    <3>1. x < y => NoGreater(s, x) <= Less(s, y)
      BY LessThanGreater
    <3> QED
      BY <2>3, <2>4, <2>5, <2>6, <3>1
  <2> QED
    BY <2>1, <2>5, <2>7, <2>8
<1>5. DOMAIN r = 1..n
  BY <1>1
<1> HIDE DEF r
<1>6. ToSet(r) = ToSet(s)
  BY <1>0, <1>3, <1>4, <1>5 DEF ToSet
<1> QED
  BY <1>5, <1>6 DEF r

-----------------------------------------------------------------------------
(***************************************************************************)
(* Two lists of the same bag: the one is the other rearranged, so that     *)
(* they have the same ranks, and the same sorted list.                     *)
(***************************************************************************)
At(s, x) == {i \in DOMAIN s : s[i] = x}

LEMMA BagIs ==
  ASSUME NEW n \in Nat, NEW s \in [1..n -> Nat], NEW m \in Nat, NEW t \in [1..m -> Nat],
         ToBag(s) = ToBag(t)
  PROVE  /\ ToSet(s) = ToSet(t)
         /\ \A x \in ToSet(s) : \E g : g \in Bijection(At(s, x), At(t, x))
<1>1. /\ ToBag(s) = [x \in ToSet(s) |-> Cardinality(At(s, x))]
      /\ ToBag(t) = [x \in ToSet(t) |-> Cardinality(At(t, x))]
  BY DEF ToBag, Range, ToSet, At
<1>2. ToSet(s) = ToSet(t)
  <2>1. DOMAIN ToBag(s) = ToSet(s) /\ DOMAIN ToBag(t) = ToSet(t)
    BY <1>1
  <2> QED
    BY <2>1
<1>3. ASSUME NEW x \in ToSet(s)
      PROVE  \E g : g \in Bijection(At(s, x), At(t, x))
  <2>1. ToBag(s)[x] = Cardinality(At(s, x)) /\ ToBag(t)[x] = Cardinality(At(t, x))
    BY <1>1, <1>2
  <2>2. At(s, x) \subseteq 1..n /\ At(t, x) \subseteq 1..m
    BY DEF At
  <2>3. IsFiniteSet(At(s, x)) /\ IsFiniteSet(At(t, x))
    BY <2>2, Counts
  <2>4. Cardinality(At(s, x)) = Cardinality(At(t, x))
    BY <2>1
  <2>5. ExistsBijection(At(s, x), At(t, x))
    BY <2>3, <2>4, FS_SameCardinalityBij
  <2> QED
    BY <2>5, Fun_ExistsBij
<1> QED
  BY <1>2, <1>3

\* p takes the positions of s to those of t, one to one, and keeps what is there.
Rearranges(p, s, n, t, m) ==
  /\ p \in [1..n -> 1..m]
  /\ \A i \in 1..n : t[p[i]] = s[i]
  /\ \A i, j \in 1..n : p[i] = p[j] => i = j
  /\ \A k \in 1..m : \E i \in 1..n : p[i] = k

LEMMA Rearranged ==
  ASSUME NEW n \in Nat, NEW s \in [1..n -> Nat], NEW m \in Nat, NEW t \in [1..m -> Nat],
         ToBag(s) = ToBag(t)
  PROVE  \E p : Rearranges(p, s, n, t, m)
<1> DEFINE to == [x \in ToSet(s) |-> CHOOSE g : g \in Bijection(At(s, x), At(t, x))]
           p  == [i \in 1..n |-> to[s[i]][i]]
<1>0. /\ ToSet(s) = {s[i] : i \in 1..n} /\ ToSet(t) = {t[j] : j \in 1..m}
      /\ ToSet(s) = ToSet(t)
  <2>1. ToSet(s) = {s[i] : i \in 1..n} /\ ToSet(t) = {t[j] : j \in 1..m}
    BY DEF ToSet
  <2> QED
    BY <2>1, BagIs
<1>1. ASSUME NEW x \in ToSet(s)
      PROVE  /\ to[x] \in [At(s, x) -> At(t, x)]
             /\ \A a, b \in At(s, x) : to[x][a] = to[x][b] => a = b
             /\ \A k \in At(t, x) : \E a \in At(s, x) : to[x][a] = k
  <2>1. \E g : g \in Bijection(At(s, x), At(t, x))
    BY BagIs
  <2>2. to[x] = CHOOSE g : g \in Bijection(At(s, x), At(t, x))
    OBVIOUS
  <2> HIDE DEF to
  <2>3. to[x] \in Bijection(At(s, x), At(t, x))
    BY <2>1, <2>2, Zenon
  <2> QED
    BY <2>3, Fun_BijectionProperties
<1> HIDE DEF to
<1>2. ASSUME NEW i \in 1..n
      PROVE  s[i] \in ToSet(s) /\ i \in At(s, s[i]) /\ p[i] = to[s[i]][i]
             /\ p[i] \in At(t, s[i]) /\ p[i] \in 1..m /\ t[p[i]] = s[i]
  <2>1. s[i] \in ToSet(s) /\ i \in At(s, s[i]) /\ p[i] = to[s[i]][i]
    BY <1>0 DEF At
  <2>2. p[i] \in At(t, s[i])
    BY <1>1, <2>1
  <2> QED
    BY <2>1, <2>2 DEF At
<1>3. p \in [1..n -> 1..m]
  BY <1>2
<1> HIDE DEF p
<1>4. ASSUME NEW i \in 1..n, NEW j \in 1..n, p[i] = p[j]
      PROVE  i = j
  <2>1. s[i] = s[j]
    BY <1>2, <1>4
  <2>2. to[s[i]][i] = to[s[i]][j] /\ i \in At(s, s[i]) /\ j \in At(s, s[i])
    BY <1>2, <1>4, <2>1
  <2> QED
    BY <1>1, <1>2, <2>2
<1>5. ASSUME NEW k \in 1..m
      PROVE  \E i \in 1..n : p[i] = k
  <2>1. t[k] \in ToSet(s) /\ k \in At(t, t[k])
    BY <1>0 DEF At
  <2>2. PICK a \in At(s, t[k]) : to[t[k]][a] = k
    BY <1>1, <2>1
  <2>3. a \in 1..n /\ s[a] = t[k]
    BY DEF At
  <2> QED
    BY <1>2, <2>2, <2>3
<1>6. Rearranges(p, s, n, t, m)
  <2>1. \A i \in 1..n : t[p[i]] = s[i]
    BY <1>2
  <2>2. \A i, j \in 1..n : p[i] = p[j] => i = j
    BY <1>4
  <2>3. \A k \in 1..m : \E i \in 1..n : p[i] = k
    BY <1>5
  <2> QED
    BY <1>3, <2>1, <2>2, <2>3 DEF Rearranges
<1> QED
  BY <1>6

\* The positions that hold values of Q are as many in the one as in the other.
Count(s, Q) == Cardinality({i \in DOMAIN s : s[i] \in Q})

LEMMA SameCount ==
  ASSUME NEW n \in Nat, NEW s \in [1..n -> Nat], NEW m \in Nat, NEW t \in [1..m -> Nat],
         NEW p, Rearranges(p, s, n, t, m), NEW Q
  PROVE  Count(s, Q) = Count(t, Q)
<1> DEFINE S == {i \in 1..n : s[i] \in Q}
           T == {k \in 1..m : t[k] \in Q}
           f == [i \in S |-> p[i]]
<1>0. /\ p \in [1..n -> 1..m]
      /\ \A i \in 1..n : t[p[i]] = s[i]
      /\ \A i, j \in 1..n : p[i] = p[j] => i = j
      /\ \A k \in 1..m : \E i \in 1..n : p[i] = k
  BY DEF Rearranges
<1>1. f \in [S -> T]
  BY <1>0
<1>2. \A a, b \in S : f[a] = f[b] => a = b
  BY <1>0
<1>3. \A k \in T : \E a \in S : f[a] = k
  <2> SUFFICES ASSUME NEW k \in T PROVE \E a \in S : f[a] = k
    OBVIOUS
  <2>1. PICK i \in 1..n : p[i] = k
    BY <1>0
  <2>2. i \in S
    BY <1>0, <2>1
  <2> QED
    BY <2>1, <2>2
<1>4. S \subseteq 1..n
  OBVIOUS
<1> HIDE DEF S, T, f
<1>5. f \in Bijection(S, T)
  BY <1>1, <1>2, <1>3, Fun_IsBij
<1>6. ExistsBijection(S, T)
  BY <1>5, Fun_ExistsBij
<1>7. IsFiniteSet(S)
  BY <1>4, Counts
<1>8. Cardinality(T) = Cardinality(S)
  BY <1>6, <1>7, FS_Bijection
<1> QED
  BY <1>8 DEF S, T, Count

LEMMA SameSorted ==
  ASSUME NEW n \in Nat, NEW s \in [1..n -> Nat], NEW m \in Nat, NEW t \in [1..m -> Nat],
         ToBag(s) = ToBag(t)
  PROVE  Sorted(s) = Sorted(t)
<1>1. ToSet(s) = ToSet(t) /\ DOMAIN s = 1..n /\ DOMAIN t = 1..m
  BY BagIs
<1>2. PICK p : Rearranges(p, s, n, t, m)
  BY Rearranged
<1>3. \A Q : Count(s, Q) = Count(t, Q)
  BY <1>2, SameCount
<1>4. n = m
  <2>1. {i \in 1..n : s[i] \in Nat} = 1..n /\ {k \in 1..m : t[k] \in Nat} = 1..m
    OBVIOUS
  <2>2. Cardinality(1..n) = Cardinality(1..m)
    <3>1. Count(s, Nat) = Count(t, Nat)
      BY <1>3
    <3> QED
      BY <1>1, <2>1, <3>1 DEF Count
  <2>3. Cardinality(1..n) = n /\ Cardinality(1..m) = m
    BY FS_Interval
  <2> QED
    BY <2>2, <2>3
<1>5. ASSUME NEW x
      PROVE  Less(s, x) = Less(t, x) /\ NoGreater(s, x) = NoGreater(t, x)
  <2> DEFINE L == {y \in Nat : y < x}
             U == {y \in Nat : y <= x}
  <2>1. /\ {i \in 1..n : s[i] \in L} = {i \in 1..n : s[i] < x}
        /\ {i \in 1..m : t[i] \in L} = {i \in 1..m : t[i] < x}
        /\ {i \in 1..n : s[i] \in U} = {i \in 1..n : s[i] <= x}
        /\ {i \in 1..m : t[i] \in U} = {i \in 1..m : t[i] <= x}
    OBVIOUS
  <2>2. /\ Cardinality({i \in 1..n : s[i] \in L}) = Cardinality({k \in 1..m : t[k] \in L})
        /\ Cardinality({i \in 1..n : s[i] \in U}) = Cardinality({k \in 1..m : t[k] \in U})
    <3> HIDE DEF L, U
    <3>1. Count(s, L) = Count(t, L) /\ Count(s, U) = Count(t, U)
      BY <1>3
    <3> QED
      BY <1>1, <3>1 DEF Count
  <2> QED
    BY <1>1, <2>1, <2>2 DEF Less, NoGreater
<1> DEFINE D == 1..n
           V == ToSet(s)
<1>6. Sorted(s) = [k \in D |-> CHOOSE x \in V : Less(s, x) < k /\ k <= NoGreater(s, x)]
  BY <1>1 DEF Sorted
<1>7. Sorted(t) = [k \in D |-> CHOOSE x \in V : Less(t, x) < k /\ k <= NoGreater(t, x)]
  BY <1>1, <1>4 DEF Sorted
<1> HIDE DEF D, V
<1> QED
  BY <1>5, <1>6, <1>7

\* What there is to know of a list of signatures and its root.
LEMMA LeavesOf ==
  ASSUME NEW n \in Nat, n > 0, NEW s \in [1..n -> Nat]
  PROVE  \E leaves : /\ AreLeaves(leaves) /\ get_merkel_root(s) = Root(leaves)
                     /\ ToSet(leaves) = {Leaf(x) : x \in ToSet(s)}
<1> DEFINE r == Sorted(s)
           leaves == [i \in 1..n |-> Leaf(r[i])]
<1>1. DOMAIN r = 1..n /\ ToSet(r) = ToSet(s)
  BY SortedHas
<1> HIDE DEF r
<1>2. get_merkel_root(s) = Root(leaves)
  BY <1>1 DEF get_merkel_root, r
<1>3. IsList(leaves) /\ Len(leaves) = n /\ DOMAIN leaves = 1..n
  <2>1. leaves = [i \in 1..n |-> leaves[i]] /\ DOMAIN leaves = 1..n
    OBVIOUS
  <2> HIDE DEF leaves
  <2> QED
    BY <2>1, FunctionIsList
<1>4. AreLeaves(leaves)
  BY <1>3 DEF AreLeaves
<1>5. ToSet(leaves) = {Leaf(x) : x \in ToSet(s)}
  <2>1. ToSet(s) = {r[i] : i \in 1..n}
    BY <1>1 DEF ToSet
  <2>2. ToSet(leaves) = {leaves[i] : i \in 1..n}
    BY <1>3 DEF ToSet
  <2> QED
    BY <2>1, <2>2
<1> HIDE DEF leaves
<1> QED
  BY <1>2, <1>4, <1>5

LEMMA SameRoot ==
  ASSUME NEW n \in Nat, n > 0, NEW s \in [1..n -> Nat],
         NEW m \in Nat, m > 0, NEW t \in [1..m -> Nat],
         get_merkel_root(s) = get_merkel_root(t)
  PROVE  ToSet(s) = ToSet(t)
<1>1. PICK u : /\ AreLeaves(u) /\ get_merkel_root(s) = Root(u)
               /\ ToSet(u) = {Leaf(x) : x \in ToSet(s)}
  BY LeavesOf
<1>2. PICK v : /\ AreLeaves(v) /\ get_merkel_root(t) = Root(v)
               /\ ToSet(v) = {Leaf(x) : x \in ToSet(t)}
  BY LeavesOf
<1>3. ToSet(u) = ToSet(v)
  <2>1. Root(u) = Root(v)
    BY <1>1, <1>2
  <2> QED
    BY <1>1, <1>2, <2>1, RootGivesLeaves
<1>4. \A x, y : Leaf(x) = Leaf(y) => x = y
  BY DEF Leaf
<1>5. \A x : x \in ToSet(s) <=> Leaf(x) \in ToSet(u)
  BY <1>1, <1>4
<1>6. \A x : x \in ToSet(t) <=> Leaf(x) \in ToSet(v)
  BY <1>2, <1>4
<1> QED
  BY <1>3, <1>5, <1>6

LEMMA RootIsDecided ==
  ASSUME NEW s \in Lists, NEW t \in Lists
  PROVE  /\ ToBag(s) = ToBag(t) => get_merkel_root(s) = get_merkel_root(t)
         /\ get_merkel_root(s) = get_merkel_root(t) => ToSet(s) = ToSet(t)
<1>1. PICK n \in 1..MaxSignatures : s \in [1..n -> Signatures]
  BY DEF Lists
<1>2. PICK m \in 1..MaxSignatures : t \in [1..m -> Signatures]
  BY DEF Lists
<1>3. n \in Nat /\ n > 0 /\ s \in [1..n -> Nat] /\ m \in Nat /\ m > 0 /\ t \in [1..m -> Nat]
  <2>1. MaxSignatures \in Nat /\ \A x \in Signatures : x \in Nat
    BY MerkleAssumption
  <2>2. n \in Nat /\ n > 0 /\ m \in Nat /\ m > 0
    BY <2>1
  <2>3. s \in [1..n -> Nat]
    BY <1>1, <2>1
  <2>4. t \in [1..m -> Nat]
    BY <1>2, <2>1
  <2> QED
    BY <2>2, <2>3, <2>4
<1>4. ToBag(s) = ToBag(t) => get_merkel_root(s) = get_merkel_root(t)
  <2> SUFFICES ASSUME ToBag(s) = ToBag(t) PROVE get_merkel_root(s) = get_merkel_root(t)
    OBVIOUS
  <2>1. Sorted(s) = Sorted(t)
    BY <1>3, SameSorted
  <2> QED
    BY <2>1 DEF get_merkel_root
<1>5. get_merkel_root(s) = get_merkel_root(t) => ToSet(s) = ToSet(t)
  BY <1>3, SameRoot
<1> QED
  BY <1>4, <1>5

\* Whatever a block's transactions are, and in whatever order they came, the root
\* that its hash covers is that of the transactions, and of no others
\* (Transaction::get_merkel_root): for any number of transactions.
THEOREM RootAlwaysDecides == BlockSpec => []RootDecides
<1>1. InitList => signatures \in Lists
  <2> SUFFICES ASSUME InitList PROVE signatures \in Lists
    OBVIOUS
  <2>1. \E x \in Signatures : TRUE
    BY MerkleAssumption
  <2>2. PICK x : x = CHOOSE y \in Signatures : TRUE
    OBVIOUS
  <2>3. x \in Signatures
    BY <2>1, <2>2, Zenon
  <2>4. signatures = [i \in 1..1 |-> x]
    BY <2>2 DEF InitList
  <2>5. signatures \in [1..1 -> Signatures] /\ 1 \in 1..MaxSignatures
    BY <2>3, <2>4, MerkleAssumption
  <2> QED
    BY <2>5 DEF Lists
<1>2. signatures \in Lists /\ [AddTransactions \/ Hash]_blockVars => (signatures \in Lists)'
  BY DEF AddTransactions, Hash, blockVars
<1>3. signatures \in Lists => RootDecides
  <2> SUFFICES ASSUME signatures \in Lists, NEW other \in Facts
               PROVE  /\ other.bag = ToBag(signatures) => other.root = get_merkel_root(signatures)
                      /\ other.root = get_merkel_root(signatures) => other.set = ToSet(signatures)
    BY DEF RootDecides
  <2>1. PICK s \in Lists : other = [root |-> get_merkel_root(s), bag |-> ToBag(s), set |-> ToSet(s)]
    BY DEF Facts
  <2>2. /\ ToBag(s) = ToBag(signatures) => get_merkel_root(s) = get_merkel_root(signatures)
        /\ get_merkel_root(s) = get_merkel_root(signatures) => ToSet(s) = ToSet(signatures)
    BY RootIsDecided
  <2> QED
    BY <2>1, <2>2
<1> QED
  BY <1>1, <1>2, <1>3, PTL DEF BlockSpec

-----------------------------------------------------------------------------
(***************************************************************************)
(* Powers of natural numbers.                                              *)
(***************************************************************************)
IsPowers(f, b, n) == f \in [0..n -> Nat] /\ f[0] = 1 /\ \A i \in 1..n : f[i] = b * f[i - 1]
Power(b, n) == (CHOOSE f : IsPowers(f, b, n))[n]

LEMMA PowersExist ==
  ASSUME NEW b \in Nat, NEW n \in Nat
  PROVE  \E f : IsPowers(f, b, n)
<1> DEFINE step == [i \in 1..n |-> [v \in Nat |-> b * v]]
           V == Nat
           one == 1
<1>0. \A x \in Nat : b * x \in Nat
  OBVIOUS
<1>1. step \in Turns(V, n) /\ one \in V
  BY <1>0 DEF Turns
<1>2. PICK f : IsCourse(f, V, one, n, step)
  <2> HIDE DEF step, V, one
  <2> QED
    BY <1>1, Course
<1>3. f \in [0..n -> Nat] /\ f[0] = 1 /\ \A i \in 1..n : f[i] = step[i][f[i - 1]]
  BY <1>2, Zenon DEF IsCourse, V, one
<1>4. \A i \in 1..n : f[i] = b * f[i - 1]
  <2> TAKE i \in 1..n
  <2>1. i - 1 \in 0..n
    OBVIOUS
  <2>2. f[i - 1] \in Nat
    BY <1>3, <2>1
  <2>3. step[i][f[i - 1]] = b * f[i - 1]
    BY <2>2
  <2> QED
    BY <1>3, <2>3
<1>5. IsPowers(f, b, n)
  BY <1>3, <1>4 DEF IsPowers
<1> QED
  BY <1>5

LEMMA PowerStep ==
  ASSUME NEW b \in Nat, NEW n \in Nat
  PROVE  Power(b, 0) = 1 /\ Power(b, n) \in Nat /\ Power(b, n + 1) = b * Power(b, n)
<1>1. ASSUME NEW m \in Nat
      PROVE  \E f : IsPowers(f, b, m) /\ Power(b, m) = f[m]
  <2>1. \E f : IsPowers(f, b, m)
    BY <1>1, PowersExist
  <2>2. PICK g : g = CHOOSE f : IsPowers(f, b, m)
    OBVIOUS
  <2>3. IsPowers(g, b, m)
    BY <2>1, <2>2, Zenon
  <2>4. Power(b, m) = g[m]
    BY <2>2, Zenon DEF Power
  <2> QED
    BY <2>3, <2>4
<1>2. PICK f : IsPowers(f, b, 0) /\ Power(b, 0) = f[0]
  BY <1>1
<1>3. PICK g : IsPowers(g, b, n) /\ Power(b, n) = g[n]
  BY <1>1
<1>4. PICK h : IsPowers(h, b, n + 1) /\ Power(b, n + 1) = h[n + 1]
  <2>1. n + 1 \in Nat
    OBVIOUS
  <2> QED
    BY <1>1, <2>1
<1>5. g[0] = h[0] /\ \A i \in 1..n : g[i - 1] = h[i - 1] => g[i] = h[i]
  <2>1. \A i \in 1..n : i \in 1..n + 1
    OBVIOUS
  <2> QED
    BY <1>3, <1>4, <2>1 DEF IsPowers
<1>6. \A i \in 0..n : g[i] = h[i]
  BY <1>5, SameCourse
<1>7. g[n] = h[n]
  BY <1>6
<1>8. h[n + 1] = b * h[n] /\ h[n] \in Nat
  <2>1. n + 1 \in 1..n + 1 /\ n + 1 - 1 = n /\ n \in 0..n + 1
    OBVIOUS
  <2> QED
    BY <1>4, <2>1 DEF IsPowers
<1> QED
  BY <1>2, <1>3, <1>4, <1>7, <1>8 DEF IsPowers

LEMMA Multiply ==
  ASSUME NEW x \in Nat, NEW y \in Nat, NEW z \in Nat
  PROVE  x * y \in Nat /\ x * (y * z) = y * (x * z) /\ (x * y) * z = x * (y * z) /\ x * y = y * x
OBVIOUS

LEMMA MultiplyUp ==
  ASSUME NEW x \in Nat, NEW y \in Nat, NEW u \in Nat, NEW v \in Nat, x <= y, u <= v
  PROVE  x * u <= y * v
<1>1. x * u <= y * u
  <2>1. PICK d \in Nat : y = x + d
    <3>1. y - x \in Nat /\ y = x + (y - x)
      OBVIOUS
    <3> QED
      BY <3>1
  <2>2. (x + d) * u = x * u + d * u /\ d * u \in Nat /\ x * u \in Nat
    OBVIOUS
  <2> QED
    BY <2>1, <2>2
<1>2. y * u <= y * v
  <2>1. PICK d \in Nat : v = u + d
    <3>1. v - u \in Nat /\ v = u + (v - u)
      OBVIOUS
    <3> QED
      BY <3>1
  <2>2. y * (u + d) = y * u + y * d /\ y * d \in Nat /\ y * u \in Nat
    OBVIOUS
  <2> QED
    BY <2>1, <2>2
<1>3. x * u \in Nat /\ y * u \in Nat /\ y * v \in Nat
  OBVIOUS
<1> QED
  BY <1>1, <1>2, <1>3

LEMMA PowerPlus ==
  ASSUME NEW b \in Nat, NEW m \in Nat, NEW n \in Nat
  PROVE  Power(b, m + n) = Power(b, m) * Power(b, n)
<1> DEFINE S == {k \in Nat : Power(b, m + k) = Power(b, m) * Power(b, k)}
<1>1. 0 \in S
  <2>1. Power(b, 0) = 1 /\ Power(b, m) \in Nat /\ m + 0 = m
    BY PowerStep
  <2>2. Power(b, m) * 1 = Power(b, m)
    BY <2>1
  <2> QED
    BY <2>1, <2>2
<1>2. ASSUME NEW k \in Nat, k \in S
      PROVE  k + 1 \in S
  <2>1. Power(b, k + 1) = b * Power(b, k) /\ Power(b, k) \in Nat /\ Power(b, m) \in Nat
    BY PowerStep
  <2>2. Power(b, (m + k) + 1) = b * Power(b, m + k)
    <3>1. m + k \in Nat
      OBVIOUS
    <3> QED
      BY <3>1, PowerStep
  <2>3. b * (Power(b, m) * Power(b, k)) = Power(b, m) * (b * Power(b, k))
    BY <2>1, Multiply
  <2>4. (m + k) + 1 = m + (k + 1)
    OBVIOUS
  <2>5. Power(b, m + (k + 1)) = Power(b, m) * Power(b, k + 1)
    BY <1>2, <2>1, <2>2, <2>3, <2>4
  <2> QED
    BY <2>5
<1>3. Nat \subseteq S
  <2> HIDE DEF S
  <2> QED
    BY <1>1, <1>2, SetInduction
<1> QED
  BY <1>3

LEMMA PowerTimes ==
  ASSUME NEW b \in Nat, NEW m \in Nat, NEW n \in Nat
  PROVE  Power(b, m * n) = Power(Power(b, m), n)
<1> DEFINE S == {k \in Nat : Power(b, m * k) = Power(Power(b, m), k)}
<1>0. Power(b, m) \in Nat
  BY PowerStep
<1>1. 0 \in S
  <2>1. Power(b, 0) = 1 /\ Power(Power(b, m), 0) = 1 /\ m * 0 = 0
    BY <1>0, PowerStep
  <2> QED
    BY <2>1
<1>2. ASSUME NEW k \in Nat, k \in S
      PROVE  k + 1 \in S
  <2>1. m * k \in Nat /\ m * (k + 1) = m + m * k
    OBVIOUS
  <2>2. Power(b, m + m * k) = Power(b, m) * Power(b, m * k)
    BY <2>1, PowerPlus
  <2>3. Power(Power(b, m), k + 1) = Power(b, m) * Power(Power(b, m), k)
    BY <1>0, PowerStep
  <2>4. Power(b, m * (k + 1)) = Power(Power(b, m), k + 1)
    BY <1>2, <2>1, <2>2, <2>3
  <2> QED
    BY <2>4
<1>3. Nat \subseteq S
  <2> HIDE DEF S
  <2> QED
    BY <1>1, <1>2, SetInduction
<1> QED
  BY <1>3

LEMMA PowerUp ==
  ASSUME NEW x \in Nat, NEW y \in Nat, x <= y, NEW n \in Nat
  PROVE  Power(x, n) <= Power(y, n)
<1> DEFINE S == {k \in Nat : Power(x, k) <= Power(y, k)}
<1>1. 0 \in S
  <2>1. Power(x, 0) = 1 /\ Power(y, 0) = 1
    BY PowerStep
  <2> QED
    BY <2>1
<1>2. ASSUME NEW k \in Nat, k \in S
      PROVE  k + 1 \in S
  <2>1. /\ Power(x, k) \in Nat /\ Power(y, k) \in Nat
        /\ Power(x, k + 1) = x * Power(x, k) /\ Power(y, k + 1) = y * Power(y, k)
    BY PowerStep
  <2>2. x * Power(x, k) <= y * Power(y, k)
    BY <1>2, <2>1, MultiplyUp
  <2> QED
    BY <2>1, <2>2
<1>3. Nat \subseteq S
  <2> HIDE DEF S
  <2> QED
    BY <1>1, <1>2, SetInduction
<1> QED
  BY <1>3

LEMMA PowerGrows ==
  ASSUME NEW b \in Nat, b > 1, NEW m \in Nat, NEW n \in Nat
  PROVE  /\ Power(b, n) > 0
         /\ m < n => Power(b, m) < Power(b, n)
         /\ m <= n => Power(b, m) <= Power(b, n)
<1> DEFINE S == {k \in Nat : Power(b, k) > 0 /\ Power(b, m) <= Power(b, m + k)
                             /\ (k > 0 => Power(b, m) < Power(b, m + k))}
           T == {k \in Nat : Power(b, k) > 0}
<1>1. Nat \subseteq T
  <2>1. 0 \in T
    <3>1. Power(b, 0) = 1
      BY PowerStep
    <3> QED
      BY <3>1
  <2>2. ASSUME NEW k \in Nat, k \in T
        PROVE  k + 1 \in T
    <3>1. Power(b, k + 1) = b * Power(b, k) /\ Power(b, k) \in Nat
      BY PowerStep
    <3>2. 1 * 1 <= b * Power(b, k)
      BY <2>2, <3>1, MultiplyUp
    <3>3. b * Power(b, k) \in Nat
      BY <3>1
    <3> QED
      BY <3>1, <3>2, <3>3
  <2> HIDE DEF T
  <2> QED
    BY <2>1, <2>2, SetInduction
<1>2. \A k \in Nat : Power(b, k) \in Nat /\ Power(b, k) > 0 /\ Power(b, k + 1) = b * Power(b, k)
  BY <1>1, PowerStep
<1>3. \A k \in Nat : Power(b, k) < Power(b, k + 1)
  <2> TAKE k \in Nat
  <2>1. Power(b, k) \in Nat /\ Power(b, k) > 0 /\ Power(b, k + 1) = b * Power(b, k)
    BY <1>2
  <2>2. 2 * Power(b, k) <= b * Power(b, k)
    BY <2>1, MultiplyUp
  <2>3. b * Power(b, k) \in Nat
    BY <2>1
  <2> QED
    BY <2>1, <2>2, <2>3
<1>4. 0 \in S
  <2>1. m + 0 = m /\ Power(b, m) \in Nat
    BY <1>2
  <2> QED
    BY <1>2, <2>1
<1>5. ASSUME NEW k \in Nat, k \in S
      PROVE  k + 1 \in S
  <2>1. m + k \in Nat /\ (m + k) + 1 = m + (k + 1) /\ k + 1 \in Nat /\ m + (k + 1) \in Nat
    OBVIOUS
  <2>2. Power(b, m + k) < Power(b, m + (k + 1))
    BY <1>3, <2>1
  <2>3. /\ Power(b, m) \in Nat /\ Power(b, m + k) \in Nat /\ Power(b, m + (k + 1)) \in Nat
        /\ Power(b, k + 1) > 0
    BY <1>2, <2>1
  <2>4. Power(b, m) < Power(b, m + (k + 1)) /\ Power(b, m) <= Power(b, m + (k + 1))
    BY <1>5, <2>2, <2>3
  <2> QED
    BY <2>1, <2>3, <2>4
<1>6. Nat \subseteq S
  <2> HIDE DEF S
  <2> QED
    BY <1>4, <1>5, SetInduction
<1>7. ASSUME m <= n
      PROVE  Power(b, m) <= Power(b, n) /\ (m < n => Power(b, m) < Power(b, n))
  <2>1. PICK k \in Nat : n = m + k
    <3>1. n - m \in Nat /\ n = m + (n - m)
      BY <1>7
    <3> QED
      BY <3>1
  <2>2. k \in S
    BY <1>6
  <2>3. m < n => k > 0
    BY <2>1
  <2> QED
    BY <2>1, <2>2, <2>3
<1> QED
  BY <1>2, <1>7

\* A number of n digits in base A fits into k digits in base B, when p digits of the
\* one fit into q of the other and n digits are less than so much.
LEMMA Fitting ==
  ASSUME NEW A \in Nat, A > 1, NEW B \in Nat, B > 1, NEW p \in Nat, NEW q \in Nat,
         Power(A, p) <= Power(B, q), NEW n \in Nat, NEW k \in Nat, q * n < p * k
  PROVE  Power(A, n) < Power(B, k)
<1> SUFFICES ASSUME Power(B, k) <= Power(A, n)
             PROVE  FALSE
  BY PowerStep
<1>1. /\ Power(A, n) \in Nat /\ Power(B, k) \in Nat /\ Power(A, p) \in Nat /\ Power(B, q) \in Nat
      /\ q * n \in Nat /\ p * k \in Nat /\ p * k = k * p /\ p * n = n * p /\ p * n \in Nat
  BY PowerStep
<1>2. Power(Power(B, k), p) <= Power(Power(A, n), p)
  BY <1>1, PowerUp
<1>3. Power(Power(A, p), n) <= Power(Power(B, q), n)
  BY <1>1, PowerUp
<1>4. Power(B, k * p) = Power(Power(B, k), p) /\ Power(A, n * p) = Power(Power(A, n), p)
  BY PowerTimes
<1>5. Power(A, p * n) = Power(Power(A, p), n) /\ Power(B, q * n) = Power(Power(B, q), n)
  BY PowerTimes
<1>6. Power(B, q * n) < Power(B, p * k)
  BY <1>1, PowerGrows
<1>7. Power(B, p * k) <= Power(A, p * n)
  BY <1>1, <1>2, <1>4
<1>8. Power(A, p * n) <= Power(B, q * n)
  BY <1>3, <1>5
<1>9. Power(B, q * n) \in Nat /\ Power(B, p * k) \in Nat /\ Power(A, p * n) \in Nat
  BY <1>1, PowerStep
<1> QED
  BY <1>6, <1>7, <1>8, <1>9

LEMMA SmallPowers ==
  ASSUME NEW b \in Nat
  PROVE  /\ Power(b, 1) = b /\ Power(b, 2) = b * b
         /\ Power(b, 3) = b * (b * b) /\ Power(b, 4) = (b * b) * (b * b)
<1>1. Power(b, 0) = 1 /\ Power(b, 0 + 1) = b * Power(b, 0)
  BY PowerStep
<1>2. Power(b, 1) = b
  BY <1>1
<1>3. Power(b, 1 + 1) = Power(b, 1) * Power(b, 1)
  BY PowerPlus
<1>4. Power(b, 1 + 2) = Power(b, 1) * Power(b, 2) /\ Power(b, 2 + 2) = Power(b, 2) * Power(b, 2)
  BY PowerPlus
<1> QED
  BY <1>2, <1>3, <1>4

LEMMA Bytes256 ==
  /\ Power(256, 0) = 1 /\ Power(256, 1) = 256 /\ Power(256, 2) = 65536
  /\ Power(256, 3) = 16777216 /\ Power(256, 4) = 4294967296
  /\ Power(256, 5) = 1099511627776 /\ Power(256, 8) = 18446744073709551616
<1>1. /\ Power(256, 1) = 256 /\ Power(256, 2) = 256 * 256
      /\ Power(256, 3) = 256 * (256 * 256) /\ Power(256, 4) = (256 * 256) * (256 * 256)
  BY SmallPowers
<1>2. Power(256, 4 + 4) = Power(256, 4) * Power(256, 4)
  BY PowerPlus
<1>3. Power(256, 4 + 1) = Power(256, 4) * Power(256, 1)
  BY PowerPlus
<1>4. Power(256, 0) = 1
  BY PowerStep
<1> QED
  BY <1>1, <1>2, <1>3, <1>4

LEMMA Digits58 ==
  /\ Power(58, 3) = 195112 /\ Power(58, 4) = 11316496 /\ Power(58, 7) = 2207984167552
  /\ Power(58, 8) = 128063081718016 /\ Power(58, 11) = 24986644000165537792
<1>1. Power(58, 3) = 58 * (58 * 58) /\ Power(58, 4) = (58 * 58) * (58 * 58)
  BY SmallPowers
<1>2. Power(58, 3) = 195112 /\ Power(58, 4) = 11316496
  BY <1>1
<1>3. Power(58, 3 + 4) = Power(58, 3) * Power(58, 4)
  BY PowerPlus
<1>4. Power(58, 4 + 4) = Power(58, 4) * Power(58, 4)
  BY PowerPlus
<1>5. Power(58, 3 + 8) = Power(58, 3) * Power(58, 8)
  BY PowerPlus
<1>6. Power(58, 7) = 2207984167552 /\ Power(58, 8) = 128063081718016
  BY <1>2, <1>3, <1>4
<1> QED
  BY <1>2, <1>5, <1>6

\* Estimates of powers of 58 by small multiples of powers of 256.
Estimate(a, m, c) == Power(58, a) <= m * Power(256, c)

LEMMA Estimates ==
  ASSUME NEW a \in Nat, NEW m \in Nat, NEW c \in Nat, Estimate(a, m, c),
         NEW b \in Nat, NEW n \in Nat, NEW d \in Nat, Estimate(b, n, d),
         NEW r \in Nat, NEW e \in Nat, m * n <= r * Power(256, e)
  PROVE  Estimate(a + b, r, (c + d) + e)
<1> DEFINE X == Power(256, c)
           Y == Power(256, d)
           E == Power(256, e)
           P == Power(58, a)
           Q == Power(58, b)
<1>1. X \in Nat /\ Y \in Nat /\ E \in Nat /\ P \in Nat /\ Q \in Nat
  <2>1. 58 \in Nat /\ 256 \in Nat
    OBVIOUS
  <2>2. X \in Nat /\ Y \in Nat /\ E \in Nat
    BY <2>1, PowerStep
  <2>3. P \in Nat /\ Q \in Nat
    BY <2>1, PowerStep
  <2> QED
    BY <2>2, <2>3
<1>2. Power(58, a + b) = P * Q
  BY PowerPlus
<1>3. Power(256, (c + d) + e) = (X * Y) * E
  <2>1. c + d \in Nat
    OBVIOUS
  <2> QED
    BY <2>1, PowerPlus
<1>4. P <= m * X /\ Q <= n * Y /\ m * n <= r * E
  BY DEF Estimate
<1> HIDE DEF X, Y, E, P, Q
<1>5. m * X \in Nat /\ n * Y \in Nat /\ m * n \in Nat /\ r * E \in Nat /\ X * Y \in Nat
  BY <1>1
<1>6. P * Q <= (m * X) * (n * Y)
  BY <1>1, <1>4, <1>5, MultiplyUp
<1>7. (m * n) * (X * Y) <= (r * E) * (X * Y)
  BY <1>4, <1>5, MultiplyUp
<1>8. (m * X) * (n * Y) = (m * n) * (X * Y) /\ (r * E) * (X * Y) = r * ((X * Y) * E)
  BY <1>1
<1>9. P * Q \in Nat /\ (m * n) * (X * Y) \in Nat /\ (r * E) * (X * Y) \in Nat
  BY <1>1, <1>5
<1>10. P * Q <= r * ((X * Y) * E)
  BY <1>6, <1>7, <1>8, <1>9
<1> QED
  BY <1>2, <1>3, <1>10 DEF Estimate

LEMMA EncodedBase == Power(256, 8) <= Power(58, 11)
BY Bytes256, Digits58

LEMMA DecodedBase == Power(58, 71) <= Power(256, 52)
<1>1. Estimate(8, 29818, 4)
  BY Bytes256, Digits58 DEF Estimate
<1>2. Estimate(16, 13567, 10)
  <2>1. 29818 * 29818 <= 13567 * Power(256, 2)
    BY Bytes256
  <2>2. Estimate(8 + 8, 13567, (4 + 4) + 2)
    BY <1>1, <2>1, Estimates
  <2> QED
    BY <2>2
<1>3. Estimate(32, 2809, 22)
  <2>1. 13567 * 13567 <= 2809 * Power(256, 2)
    BY Bytes256
  <2>2. Estimate(16 + 16, 2809, (10 + 10) + 2)
    BY <1>2, <2>1, Estimates
  <2> QED
    BY <2>2
<1>4. Estimate(64, 7890481, 44)
  <2>1. 2809 * 2809 <= 7890481 * Power(256, 0)
    BY Bytes256
  <2>2. Estimate(32 + 32, 7890481, (22 + 22) + 0)
    BY <1>3, <2>1, Estimates
  <2> QED
    BY <2>2
<1>5. Estimate(7, 131607, 3)
  BY Bytes256, Digits58 DEF Estimate
<1>6. Estimate(71, 1, 52)
  <2>1. 7890481 * 131607 <= 1 * Power(256, 5)
    BY Bytes256
  <2>2. Estimate(64 + 7, 1, (44 + 3) + 5)
    BY <1>4, <1>5, <2>1, Estimates
  <2> QED
    BY <2>2
<1>7. Power(256, 52) \in Nat
  BY PowerStep
<1> QED
  BY <1>6, <1>7 DEF Estimate

\* The estimates of encode and decode are enough, for any number of digits.
LEMMA EstimatesSuffice ==
  ASSUME NEW n \in Nat
  PROVE  /\ EncodedSize(n) \in Nat /\ DecodedSize(n) \in Nat
         /\ Power(256, n) < Power(58, EncodedSize(n))
         /\ Power(58, n) < Power(256, DecodedSize(n))
<1>1. EncodedSize(n) \in Nat /\ 11 * n < 8 * EncodedSize(n)
  <2>1. (n * 138) \div 100 \in Nat /\ n * 138 < 100 * ((n * 138) \div 100 + 1)
    OBVIOUS
  <2> QED
    BY <2>1 DEF EncodedSize
<1>2. DecodedSize(n) \in Nat /\ 52 * n < 71 * DecodedSize(n)
  <2>1. (n * 733) \div 1000 \in Nat /\ n * 733 < 1000 * ((n * 733) \div 1000 + 1)
    OBVIOUS
  <2> QED
    BY <2>1 DEF DecodedSize
<1>3. Power(256, n) < Power(58, EncodedSize(n))
  BY <1>1, EncodedBase, Fitting
<1>4. Power(58, n) < Power(256, DecodedSize(n))
  BY <1>2, DecodedBase, Fitting
<1> QED
  BY <1>1, <1>2, <1>3, <1>4

-----------------------------------------------------------------------------
(***************************************************************************)
(* The number a sequence of digits stands for, and what a step of either   *)
(* direction makes of it.  A sequence is a function of 1..n here.          *)
(***************************************************************************)
Bases == {58, 256}
Digits(n, B) == [1..n -> 0..B - 1]

IsAmounts(f, s, n, B) ==
  f \in [0..n -> Nat] /\ f[0] = 0 /\ \A i \in 1..n : f[i] = B * f[i - 1] + s[i]
Amount(s, n, B) == (CHOOSE f : IsAmounts(f, s, n, B))[n]

LEMMA AmountsExist ==
  ASSUME NEW B \in Nat, NEW n \in Nat, NEW s \in [1..n -> Nat]
  PROVE  \E f : IsAmounts(f, s, n, B)
<1> DEFINE step == [i \in 1..n |-> [v \in Nat |-> B * v + s[i]]]
           V == Nat
           none == 0
<1>0. \A i \in 1..n, v \in Nat : B * v + s[i] \in Nat
  <2> TAKE i \in 1..n, v \in Nat
  <2>1. s[i] \in Nat /\ B * v \in Nat
    OBVIOUS
  <2> QED
    BY <2>1
<1>1. step \in Turns(V, n) /\ none \in V
  BY <1>0 DEF Turns
<1>2. PICK f : IsCourse(f, V, none, n, step)
  <2> HIDE DEF step, V, none
  <2> QED
    BY <1>1, Course
<1>3. f \in [0..n -> Nat] /\ f[0] = 0 /\ \A i \in 1..n : f[i] = step[i][f[i - 1]]
  BY <1>2, Zenon DEF IsCourse, V, none
<1>4. \A i \in 1..n : f[i] = B * f[i - 1] + s[i]
  <2> TAKE i \in 1..n
  <2>1. i - 1 \in 0..n
    OBVIOUS
  <2>2. f[i - 1] \in Nat
    BY <1>3, <2>1
  <2>3. step[i][f[i - 1]] = B * f[i - 1] + s[i]
    BY <2>2
  <2> QED
    BY <1>3, <2>3
<1>5. IsAmounts(f, s, n, B)
  BY <1>3, <1>4 DEF IsAmounts
<1> QED
  BY <1>5

LEMMA AmountOf ==
  ASSUME NEW B, NEW n \in Nat, NEW s, NEW g, IsAmounts(g, s, n, B)
  PROVE  Amount(s, n, B) = g[n] /\ Amount(s, n, B) \in Nat
<1>1. PICK h : h = CHOOSE f : IsAmounts(f, s, n, B)
  OBVIOUS
<1>2. IsAmounts(h, s, n, B)
  BY <1>1, Zenon
<1>3. Amount(s, n, B) = h[n]
  BY <1>1, Zenon DEF Amount
<1>4. g[0] = h[0] /\ \A i \in 1..n : g[i - 1] = h[i - 1] => g[i] = h[i]
  BY <1>2 DEF IsAmounts
<1>5. \A i \in 0..n : g[i] = h[i]
  BY <1>4, SameCourse
<1>6. n \in 0..n
  OBVIOUS
<1> QED
  BY <1>2, <1>3, <1>5, <1>6 DEF IsAmounts

LEMMA OneMore ==
  ASSUME NEW B \in Nat, NEW P \in Nat, NEW x \in Nat, x < P, NEW d \in 0..B - 1
  PROVE  B * x + d < B * P
<1>1. B * (x + 1) <= B * P
  BY MultiplyUp
<1>2. B * (x + 1) = B * x + B /\ B * x \in Nat /\ B * P \in Nat
  OBVIOUS
<1> QED
  BY <1>1, <1>2

LEMMA AmountsBelow ==
  ASSUME NEW B \in Nat, B > 1, NEW n \in Nat, NEW s \in Digits(n, B), NEW f, IsAmounts(f, s, n, B)
  PROVE  \A i \in 0..n : f[i] < Power(B, i)
<1> DEFINE S == {i \in 0..n : f[i] < Power(B, i)}
<1>1. 0 \in S
  <2>1. Power(B, 0) = 1 /\ f[0] = 0
    BY PowerStep DEF IsAmounts
  <2> QED
    BY <2>1
<1>2. ASSUME NEW i \in 1..n, i - 1 \in S
      PROVE  i \in S
  <2>1. i - 1 \in Nat /\ i = (i - 1) + 1 /\ i - 1 \in 0..n
    OBVIOUS
  <2>2. Power(B, i) = B * Power(B, i - 1) /\ Power(B, i - 1) \in Nat
    BY <2>1, PowerStep
  <2>3. f[i] = B * f[i - 1] + s[i] /\ f[i - 1] \in Nat /\ f[i - 1] < Power(B, i - 1)
    BY <1>2, <2>1 DEF IsAmounts
  <2>4. s[i] \in 0..B - 1
    BY DEF Digits
  <2>5. B * f[i - 1] + s[i] < B * Power(B, i - 1)
    BY <2>2, <2>3, <2>4, OneMore
  <2> QED
    BY <2>2, <2>3, <2>5
<1>3. 0..n \subseteq S
  <2> HIDE DEF S
  <2> QED
    BY <1>1, <1>2, SetInductionUpTo
<1> QED
  BY <1>3

LEMMA Division ==
  ASSUME NEW x \in Nat, NEW B \in Bases
  PROVE  x \div B \in Nat /\ x % B \in 0..B - 1 /\ x = B * (x \div B) + (x % B)
<1>1. CASE B = 58
  BY <1>1
<1>2. CASE B = 256
  BY <1>2
<1> QED
  BY <1>1, <1>2 DEF Bases

IsCarries(c, buffer, L, digit, F, B) ==
  /\ c \in [0..L -> Nat] /\ c[0] = digit
  /\ \A j \in 1..L : c[j] = (c[j - 1] + F * buffer[L + 1 - j]) \div B

\* What the step adds up at a digit.
LEMMA SumTyped ==
  ASSUME NEW L \in Nat, NEW B \in Bases, NEW F \in Nat, NEW buffer \in Digits(L, B),
         NEW j \in 1..L, NEW v \in Nat
  PROVE  /\ L + 1 - j \in 1..L /\ buffer[L + 1 - j] \in 0..B - 1
         /\ v + F * buffer[L + 1 - j] \in Nat
         /\ (v + F * buffer[L + 1 - j]) \div B \in Nat
<1>1. L + 1 - j \in 1..L
  OBVIOUS
<1>2. buffer[L + 1 - j] \in 0..B - 1 /\ buffer[L + 1 - j] \in Nat
  BY <1>1 DEF Digits, Bases
<1>3. F * buffer[L + 1 - j] \in Nat
  BY <1>2
<1>4. v + F * buffer[L + 1 - j] \in Nat
  BY <1>3
<1> QED
  BY <1>1, <1>2, <1>4, Division

LEMMA CarriesAre ==
  ASSUME NEW L \in Nat, NEW B \in Bases, NEW F \in Nat, NEW buffer \in Digits(L, B),
         NEW digit \in Nat, Len(buffer) = L
  PROVE  IsCarries(Carries(buffer, digit, F, B), buffer, L, digit, F, B)
<1> DEFINE add(j, v) == (v + F * buffer[L + 1 - j]) \div B
           step == [j \in 1..L |-> [v \in Nat |-> add(j, v)]]
           V == Nat
           carry[j \in 0..L] == IF j = 0 THEN digit ELSE add(j, carry[j - 1])
<1>1. step \in Turns(V, L) /\ digit \in V
  <2>1. \A j \in 1..L, v \in Nat : add(j, v) \in Nat
    BY SumTyped
  <2> HIDE DEF add
  <2> QED
    BY <2>1 DEF Turns
<1>2. PICK f : IsCourse(f, V, digit, L, step)
  <2> HIDE DEF step, V
  <2> QED
    BY <1>1, Course
<1>3. f \in [0..L -> Nat] /\ f[0] = digit /\ \A j \in 1..L : f[j] = step[j][f[j - 1]]
  BY <1>2, Zenon DEF IsCourse, V
<1> HIDE DEF add
<1>4. \A j \in 1..L : f[j] = add(j, f[j - 1])
  <2> TAKE j \in 1..L
  <2>1. j - 1 \in 0..L
    OBVIOUS
  <2>2. f[j - 1] \in Nat
    BY <1>3, <2>1
  <2>3. step[j][f[j - 1]] = add(j, f[j - 1])
    BY <2>2
  <2> QED
    BY <1>3, <2>3
<1>5. f = [j \in 0..L |-> IF j = 0 THEN digit ELSE add(j, f[j - 1])]
  <2>1. \A j \in 0..L : j = 0 \/ j \in 1..L
    OBVIOUS
  <2>2. \A j \in 0..L : f[j] = IF j = 0 THEN digit ELSE add(j, f[j - 1])
    BY <1>3, <1>4, <2>1, Zenon
  <2> QED
    BY <1>3, <2>2, Zenon
<1>6. carry = [j \in 0..L |-> IF j = 0 THEN digit ELSE add(j, carry[j - 1])]
  BY <1>5, Zenon
<1> HIDE DEF carry
<1>7. \A j \in 0..L : carry[j] = f[j]
  <2>1. carry[0] = f[0]
    BY <1>3, <1>6
  <2>2. \A j \in 1..L : carry[j - 1] = f[j - 1] => carry[j] = f[j]
    <3> TAKE j \in 1..L
    <3>1. j \in 0..L /\ j # 0
      OBVIOUS
    <3>2. carry[j] = add(j, carry[j - 1])
      BY <1>6, <3>1, Zenon
    <3> QED
      BY <1>4, <3>2, Zenon
  <2> QED
    BY <2>1, <2>2, SameCourse
<1>8. carry = f
  <2>1. DOMAIN carry = 0..L /\ DOMAIN f = 0..L
    BY <1>3, <1>6
  <2> QED
    BY <1>3, <1>6, <1>7
<1>9. Carries(buffer, digit, F, B) = carry
  BY Zenon DEF Carries, carry, add
<1>10. IsCarries(f, buffer, L, digit, F, B)
  BY <1>3, <1>4 DEF IsCarries, add
<1> QED
  BY <1>8, <1>9, <1>10

LEMMA BasesTyped ==
  ASSUME NEW B \in Bases
  PROVE  B \in Nat /\ B > 1 /\ 0..B - 1 \subseteq Nat
BY DEF Bases

LEMMA DigitsTyped ==
  ASSUME NEW B \in Bases, NEW n \in Nat, NEW s \in Digits(n, B)
  PROVE  s \in [1..n -> Nat] /\ Len(s) = n
<1>1. \A i \in 1..n : s[i] \in Nat
  BY BasesTyped DEF Digits
<1>2. s \in [1..n -> Nat]
  BY <1>1 DEF Digits
<1> QED
  BY <1>2

\* A step multiplies by the factor and adds the digit, but for what it carries out.
LEMMA AccumulateIs ==
  ASSUME NEW L \in Nat, NEW B \in Bases, NEW F \in Bases, NEW buffer \in Digits(L, B),
         NEW digit \in Nat, NEW r, r = Accumulate(buffer, digit, F, B)
  PROVE  /\ r.digits \in Digits(L, B) /\ r.carry \in Nat
         /\ F * Amount(buffer, L, B) + digit = Amount(r.digits, L, B) + r.carry * Power(B, L)
<1> DEFINE c == Carries(buffer, digit, F, B)
           d == [i \in 1..L |-> (c[L - i] + F * buffer[i]) % B]
<1>0. Len(buffer) = L /\ buffer \in [1..L -> Nat]
  BY DigitsTyped
<1>1. F \in Nat /\ B \in Nat /\ B > 1 /\ 0..B - 1 \subseteq Nat
  BY BasesTyped
<1>2. IsCarries(c, buffer, L, digit, F, B)
  BY <1>0, <1>1, CarriesAre
<1>3. r.digits = d /\ r.carry = c[L]
  BY <1>0 DEF Accumulate
<1> HIDE DEF c
<1>4. c \in [0..L -> Nat] /\ c[0] = digit
  BY <1>2 DEF IsCarries
<1>5. ASSUME NEW i \in 1..L
      PROVE  /\ L - i \in 0..L /\ L - (i - 1) \in 0..L /\ c[L - i] \in Nat /\ c[L - (i - 1)] \in Nat
             /\ buffer[i] \in Nat /\ d[i] \in 0..B - 1
             /\ c[L - i] + F * buffer[i] = B * c[L - (i - 1)] + d[i]
  <2>1. PICK j \in 1..L : j = L + 1 - i
    OBVIOUS
  <2>2. L + 1 - j = i /\ j - 1 = L - i /\ j = L - (i - 1)
    BY <2>1
  <2>3. L - i \in 0..L /\ L - (i - 1) \in 0..L
    OBVIOUS
  <2>4. c[j] = (c[j - 1] + F * buffer[L + 1 - j]) \div B
    BY <1>2 DEF IsCarries
  <2>5. c[L - (i - 1)] = (c[L - i] + F * buffer[i]) \div B
    BY <2>2, <2>4
  <2>6. c[L - i] \in Nat /\ c[L - (i - 1)] \in Nat /\ buffer[i] \in Nat
    BY <1>0, <1>4, <2>3
  <2>7. PICK x \in Nat : x = c[L - i] + F * buffer[i]
    <3>1. F * buffer[i] \in Nat
      BY <1>1, <2>6
    <3> QED
      BY <2>6, <3>1
  <2>8. x \div B \in Nat /\ x % B \in 0..B - 1 /\ x = B * (x \div B) + (x % B)
    BY Division
  <2>9. d[i] = x % B
    BY <2>7
  <2> HIDE DEF d
  <2> QED
    BY <2>3, <2>5, <2>6, <2>7, <2>8, <2>9
<1>6. d \in Digits(L, B)
  <2>1. \A i \in 1..L : d[i] \in 0..B - 1
    BY <1>5
  <2> QED
    BY <2>1 DEF Digits
<1> HIDE DEF d
<1>7. PICK v : IsAmounts(v, buffer, L, B)
  BY <1>0, <1>1, AmountsExist
<1>8. PICK w : IsAmounts(w, d, L, B)
  <2>1. d \in [1..L -> Nat]
    BY <1>6, DigitsTyped
  <2> QED
    BY <1>1, <2>1, AmountsExist
<1>9. v \in [0..L -> Nat] /\ w \in [0..L -> Nat]
  BY <1>7, <1>8 DEF IsAmounts
<1>10. c[L] \in Nat
  BY <1>4
<1> DEFINE S == {i \in 0..L : F * v[i] + c[L - i] = w[i] + c[L] * Power(B, i)}
<1>11. 0 \in S
  <2>1. Power(B, 0) = 1 /\ v[0] = 0 /\ w[0] = 0
    BY <1>1, <1>7, <1>8, PowerStep DEF IsAmounts
  <2>2. L - 0 = L /\ F * 0 = 0 /\ c[L] * 1 = c[L]
    BY <1>1, <1>10
  <2> QED
    BY <1>10, <2>1, <2>2
<1>12. ASSUME NEW i \in 1..L, i - 1 \in S
       PROVE  i \in S
  <2>0. i - 1 \in Nat /\ i - 1 \in 0..L /\ i = (i - 1) + 1 /\ i \in 0..L
    OBVIOUS
  <2>1. v[i] = B * v[i - 1] + buffer[i] /\ w[i] = B * w[i - 1] + d[i]
    BY <1>7, <1>8 DEF IsAmounts
  <2>2. v[i - 1] \in Nat /\ w[i - 1] \in Nat /\ d[i] \in Nat
    BY <1>1, <1>5, <1>9, <2>0
  <2>3. Power(B, i - 1) \in Nat /\ Power(B, i) = B * Power(B, i - 1)
    BY <1>1, <2>0, PowerStep
  <2>4. F * v[i - 1] + c[L - (i - 1)] = w[i - 1] + c[L] * Power(B, i - 1)
    BY <1>12
  <2>5. c[L - i] + F * buffer[i] = B * c[L - (i - 1)] + d[i]
    BY <1>5
  <2>6. F * (B * v[i - 1] + buffer[i]) + c[L - i] = (B * w[i - 1] + d[i]) + c[L] * (B * Power(B, i - 1))
    <3> DEFINE x == v[i - 1]
               y == w[i - 1]
               b == buffer[i]
               u == c[L - i]
               e == c[L - (i - 1)]
               g == d[i]
               k == c[L]
               P == Power(B, i - 1)
    <3>1. /\ x \in Nat /\ y \in Nat /\ b \in Nat /\ u \in Nat /\ e \in Nat /\ g \in Nat
          /\ k \in Nat /\ P \in Nat /\ u + F * b = B * e + g /\ F * x + e = y + k * P
      BY <1>5, <1>10, <2>2, <2>3, <2>4, <2>5
    <3> HIDE DEF x, y, b, u, e, g, k, P
    <3>2. B * (F * x + e) = B * (y + k * P)
      BY <3>1
    <3>3. B * (F * x + e) = B * (F * x) + B * e /\ B * (y + k * P) = B * y + B * (k * P)
      BY <1>1, <3>1
    <3>4. B * (F * x) = F * (B * x) /\ B * (k * P) = k * (B * P)
      BY <1>1, <3>1, Multiply
    <3>5. F * (B * x + b) = F * (B * x) + F * b
      BY <1>1, <3>1
    <3>6. /\ F * (B * x) \in Nat /\ F * b \in Nat /\ B * e \in Nat /\ B * y \in Nat
          /\ k * (B * P) \in Nat /\ B * (k * P) \in Nat
      BY <1>1, <3>1
    <3>7. F * (B * x + b) + u = (B * y + g) + k * (B * P)
      BY <3>1, <3>2, <3>3, <3>4, <3>5, <3>6
    <3> QED
      BY <3>7 DEF x, y, b, u, e, g, k, P
  <2>7. F * v[i] + c[L - i] = w[i] + c[L] * Power(B, i)
    BY <2>1, <2>3, <2>6
  <2> QED
    BY <2>0, <2>7
<1>13. 0..L \subseteq S
  <2> HIDE DEF S
  <2> QED
    BY <1>11, <1>12, SetInductionUpTo
<1>14. F * v[L] + c[L - L] = w[L] + c[L] * Power(B, L)
  BY <1>13
<1>15. c[L - L] = digit
  BY <1>4
<1>16. Amount(buffer, L, B) = v[L] /\ Amount(d, L, B) = w[L]
  BY <1>7, <1>8, AmountOf
<1> QED
  BY <1>3, <1>6, <1>10, <1>14, <1>15, <1>16

LEMMA NoCarry ==
  ASSUME NEW x \in Nat, NEW a \in Nat, NEW k \in Nat, NEW P \in Nat, x = a + k * P, x < P
  PROVE  k = 0 /\ a = x
<1>1. k = 0
  <2> SUFFICES ASSUME k # 0 PROVE FALSE
    OBVIOUS
  <2>1. 1 * P <= k * P
    BY MultiplyUp
  <2>2. k * P \in Nat
    OBVIOUS
  <2> QED
    BY <2>1, <2>2
<1>2. 0 * P = 0
  OBVIOUS
<1> QED
  BY <1>1, <1>2

LEMMA ZeroesAmount ==
  ASSUME NEW n \in Nat, NEW B \in Bases
  PROVE  Zeroes(n) \in Digits(n, B) /\ Amount(Zeroes(n), n, B) = 0
<1> DEFINE f == [i \in 0..n |-> 0]
<1>1. B \in Nat /\ B > 1
  BY BasesTyped
<1>2. Zeroes(n) \in Digits(n, B)
  BY <1>1 DEF Zeroes, Digits
<1>3. IsAmounts(f, Zeroes(n), n, B)
  <2>1. f \in [0..n -> Nat] /\ f[0] = 0
    OBVIOUS
  <2>2. \A i \in 1..n : f[i] = B * f[i - 1] + Zeroes(n)[i]
    BY <1>1 DEF Zeroes
  <2> QED
    BY <2>1, <2>2 DEF IsAmounts
<1>4. f[n] = 0
  OBVIOUS
<1> HIDE DEF f
<1> QED
  BY <1>2, <1>3, <1>4, AmountOf

State(size, B) == [digits : Digits(size, B), carry : Nat]

IsSteps(f, digits, N, size, F, B) ==
  /\ f \in [0..N -> State(size, B)]
  /\ f[0] = [digits |-> Zeroes(size), carry |-> 0]
  /\ \A n \in 1..N : f[n] = Accumulate(f[n - 1].digits, digits[n], F, B)

LEMMA StepTyped ==
  ASSUME NEW size \in Nat, NEW B \in Bases, NEW F \in Bases, NEW v \in State(size, B),
         NEW digit \in Nat
  PROVE  Accumulate(v.digits, digit, F, B) \in State(size, B)
<1> DEFINE r == Accumulate(v.digits, digit, F, B)
<1>1. v.digits \in Digits(size, B)
  BY DEF State
<1>2. r.digits \in Digits(size, B) /\ r.carry \in Nat
  BY <1>1, AccumulateIs
<1>3. \E x, y : r = [digits |-> x, carry |-> y]
  BY DEF Accumulate
<1> HIDE DEF r
<1>4. r \in State(size, B)
  BY <1>2, <1>3 DEF State
<1> QED
  BY <1>4 DEF r

LEMMA StepsAre ==
  ASSUME NEW N \in Nat, NEW size \in Nat, NEW F \in Bases, NEW B \in Bases,
         NEW digits \in Digits(N, F)
  PROVE  IsSteps(Steps(digits, size, F, B), digits, N, size, F, B)
<1> DEFINE V == State(size, B)
           zero == [digits |-> Zeroes(size), carry |-> 0]
           next(n, v) == Accumulate(v.digits, digits[n], F, B)
           turn == [n \in 1..N |-> [v \in V |-> next(n, v)]]
           step[n \in 0..N] == IF n = 0 THEN zero ELSE next(n, step[n - 1])
<1>0. digits \in [1..N -> Nat] /\ Len(digits) = N
  BY DigitsTyped
<1>1. zero \in V
  <2>1. Zeroes(size) \in Digits(size, B)
    BY ZeroesAmount
  <2> QED
    BY <2>1 DEF State
<1>2. turn \in Turns(V, N)
  <2>1. \A n \in 1..N, v \in V : next(n, v) \in V
    BY <1>0, StepTyped
  <2> HIDE DEF next, V
  <2> QED
    BY <2>1 DEF Turns
<1>3. PICK f : IsCourse(f, V, zero, N, turn)
  <2> HIDE DEF turn, V, zero
  <2> QED
    BY <1>1, <1>2, Course
<1>4. f \in [0..N -> V] /\ f[0] = zero /\ \A n \in 1..N : f[n] = turn[n][f[n - 1]]
  <2> HIDE DEF turn, V, zero
  <2> QED
    BY <1>3, Zenon DEF IsCourse
<1> HIDE DEF next, V, zero
<1>5. \A n \in 1..N : f[n] = next(n, f[n - 1])
  <2> TAKE n \in 1..N
  <2>1. n - 1 \in 0..N
    OBVIOUS
  <2>2. f[n - 1] \in V
    BY <1>4, <2>1
  <2>3. turn[n][f[n - 1]] = next(n, f[n - 1])
    BY <2>2
  <2> QED
    BY <1>4, <2>3
<1>6. f = [n \in 0..N |-> IF n = 0 THEN zero ELSE next(n, f[n - 1])]
  <2>1. \A n \in 0..N : n = 0 \/ n \in 1..N
    OBVIOUS
  <2>2. \A n \in 0..N : f[n] = IF n = 0 THEN zero ELSE next(n, f[n - 1])
    BY <1>4, <1>5, <2>1, Zenon
  <2> QED
    BY <1>4, <2>2, Zenon
<1>7. step = [n \in 0..N |-> IF n = 0 THEN zero ELSE next(n, step[n - 1])]
  BY <1>6, Zenon
<1> HIDE DEF step
<1>8. \A n \in 0..N : step[n] = f[n]
  <2>1. step[0] = f[0]
    BY <1>4, <1>7
  <2>2. \A n \in 1..N : step[n - 1] = f[n - 1] => step[n] = f[n]
    <3> TAKE n \in 1..N
    <3>1. n \in 0..N /\ n # 0
      OBVIOUS
    <3>2. step[n] = next(n, step[n - 1])
      BY <1>7, <3>1, Zenon
    <3> QED
      BY <1>5, <3>2, Zenon
  <2> QED
    BY <2>1, <2>2, SameCourse
<1>9. step = f
  <2>1. DOMAIN step = 0..N /\ DOMAIN f = 0..N
    BY <1>4, <1>7
  <2> QED
    BY <1>4, <1>7, <1>8
<1>10. Steps(digits, size, F, B) = step
  BY <1>0, Zenon DEF Steps, step, next, zero
<1>11. IsSteps(f, digits, N, size, F, B)
  BY <1>4, <1>5 DEF IsSteps, next, V, zero
<1> QED
  BY <1>9, <1>10, <1>11

\* The result stands for the same number in the other base, and nothing was carried
\* out on the way, when the buffer has digits enough.
LEMMA ConvertIs ==
  ASSUME NEW N \in Nat, NEW size \in Nat, NEW F \in Bases, NEW B \in Bases,
         NEW digits \in Digits(N, F), Power(F, N) < Power(B, size)
  PROVE  /\ Fits(digits, size, F, B)
         /\ Convert(digits, size, F, B) \in Digits(size, B)
         /\ Amount(Convert(digits, size, F, B), size, B) = Amount(digits, N, F)
<1> DEFINE f == Steps(digits, size, F, B)
<1>0. digits \in [1..N -> Nat] /\ Len(digits) = N
  BY DigitsTyped
<1>1. IsSteps(f, digits, N, size, F, B)
  BY StepsAre
<1>2. Convert(digits, size, F, B) = f[N].digits
  BY <1>0 DEF Convert
<1>3. (\A n \in 1..N : f[n].carry = 0) => Fits(digits, size, F, B)
  BY <1>0 DEF Fits
<1> HIDE DEF f
<1>4. F \in Nat /\ F > 1 /\ B \in Nat
  BY BasesTyped
<1>5. PICK p : IsAmounts(p, digits, N, F)
  BY <1>0, <1>4, AmountsExist
<1>6. \A n \in 0..N : p[n] \in Nat /\ p[n] < Power(F, n)
  BY <1>4, <1>5, AmountsBelow DEF IsAmounts
<1>7. \A n \in 0..N : f[n] \in State(size, B) /\ f[n].digits \in Digits(size, B) /\ f[n].carry \in Nat
  BY <1>1 DEF IsSteps, State
<1> DEFINE S == {n \in 0..N : f[n].carry = 0 /\ Amount(f[n].digits, size, B) = p[n]}
<1>8. 0 \in S
  <2>1. f[0] = [digits |-> Zeroes(size), carry |-> 0] /\ p[0] = 0
    BY <1>1, <1>5 DEF IsSteps, IsAmounts
  <2>2. f[0].digits = Zeroes(size) /\ f[0].carry = 0
    BY <2>1
  <2>3. Amount(Zeroes(size), size, B) = 0
    BY ZeroesAmount
  <2> QED
    BY <2>1, <2>2, <2>3
<1>9. ASSUME NEW n \in 1..N, n - 1 \in S
      PROVE  n \in S
  <2>1. n - 1 \in 0..N /\ n \in 0..N /\ n \in Nat /\ n <= N
    OBVIOUS
  <2>2. PICK b : b = f[n - 1].digits
    OBVIOUS
  <2>3. PICK r : r = Accumulate(b, digits[n], F, B)
    OBVIOUS
  <2>4. f[n] = r
    BY <1>1, <2>2, <2>3 DEF IsSteps
  <2>5. b \in Digits(size, B) /\ digits[n] \in Nat
    BY <1>0, <1>7, <2>1, <2>2
  <2>6. /\ r.digits \in Digits(size, B) /\ r.carry \in Nat
        /\ F * Amount(b, size, B) + digits[n] = Amount(r.digits, size, B) + r.carry * Power(B, size)
    BY <2>3, <2>5, AccumulateIs
  <2>7. Amount(b, size, B) = p[n - 1]
    BY <1>9, <2>2
  <2>8. p[n] = F * p[n - 1] + digits[n]
    BY <1>5 DEF IsAmounts
  <2>9. Power(F, n) <= Power(F, N) /\ Power(F, n) \in Nat /\ Power(F, N) \in Nat /\ Power(B, size) \in Nat
    BY <1>4, <2>1, PowerGrows, PowerStep
  <2>10. p[n] \in Nat /\ p[n] < Power(B, size)
    BY <1>6, <2>1, <2>9
  <2>11. Amount(r.digits, size, B) \in Nat
    <3>1. r.digits \in [1..size -> Nat]
      BY <2>6, DigitsTyped
    <3>2. \E g : IsAmounts(g, r.digits, size, B)
      BY <1>4, <3>1, AmountsExist
    <3> QED
      BY <3>2, AmountOf
  <2>12. p[n] = Amount(r.digits, size, B) + r.carry * Power(B, size)
    BY <2>6, <2>7, <2>8
  <2>13. r.carry = 0 /\ Amount(r.digits, size, B) = p[n]
    BY <2>6, <2>9, <2>10, <2>11, <2>12, NoCarry
  <2> QED
    BY <2>1, <2>4, <2>13
<1>10. 0..N \subseteq S
  <2> HIDE DEF S
  <2> QED
    BY <1>8, <1>9, SetInductionUpTo
<1>11. N \in 0..N /\ Amount(f[N].digits, size, B) = p[N]
  BY <1>10
<1>12. \A n \in 1..N : f[n].carry = 0
  BY <1>10
<1>13. Amount(digits, N, F) = p[N]
  BY <1>5, AmountOf
<1> QED
  BY <1>2, <1>3, <1>7, <1>11, <1>12, <1>13

-----------------------------------------------------------------------------
(***************************************************************************)
(* The zeroes in front, and that digits without them are decided by the    *)
(* number they stand for.                                                  *)
(***************************************************************************)
Leads(z, s, n) == z \in 0..n /\ (\A i \in 1..z : s[i] = 0) /\ (z < n => s[z + 1] # 0)
Stripped(s, n) == n > 0 => s[1] # 0

LEMMA FunctionIsSeq ==
  ASSUME NEW S, NEW n \in Nat, NEW s \in [1..n -> S]
  PROVE  s \in Seq(S) /\ Len(s) = n
OBVIOUS

LEMMA LeadingIs ==
  ASSUME NEW n \in Nat, NEW s, Len(s) = n
  PROVE  Leads(LeadingZeroes(s), s, n)
<1> DEFINE T == {k \in 0..n : k < n => s[k + 1] # 0}
<1>1. T \subseteq 0..n /\ n \in T
  OBVIOUS
<1>2. PICK z \in T : \A k \in T : z <= k
  <2> HIDE DEF T
  <2> QED
    BY <1>1, Least
<1>3. \A i \in 1..z : s[i] = 0
  <2> TAKE i \in 1..z
  <2>1. i - 1 \in 0..n /\ i - 1 < n /\ (i - 1) + 1 = i /\ ~(z <= i - 1)
    BY <1>1, <1>2
  <2>2. i - 1 \notin T
    BY <1>2, <2>1
  <2> QED
    BY <2>1, <2>2
<1>4. Leads(z, s, n)
  BY <1>3 DEF Leads
<1>5. LeadingZeroes(s) = CHOOSE k \in 0..n : (\A i \in 1..k : s[i] = 0) /\ (k < n => s[k + 1] # 0)
  BY DEF LeadingZeroes
<1>6. PICK y : y = LeadingZeroes(s)
  OBVIOUS
<1>7. \E k \in 0..n : (\A i \in 1..k : s[i] = 0) /\ (k < n => s[k + 1] # 0)
  BY <1>4, Zenon DEF Leads
<1>8. y \in 0..n /\ (\A i \in 1..y : s[i] = 0) /\ (y < n => s[y + 1] # 0)
  BY <1>5, <1>6, <1>7, Zenon
<1> QED
  BY <1>6, <1>8 DEF Leads

LEMMA LeadsOnce ==
  ASSUME NEW n \in Nat, NEW s, NEW y, NEW z, Leads(y, s, n), Leads(z, s, n)
  PROVE  y = z
<1>1. y \in 0..n /\ z \in 0..n
  BY DEF Leads
<1>2. ~(y < z)
  <2> SUFFICES ASSUME y < z PROVE FALSE
    OBVIOUS
  <2>1. y + 1 \in 1..z /\ y < n
    BY <1>1
  <2> QED
    BY <2>1 DEF Leads
<1>3. ~(z < y)
  <2> SUFFICES ASSUME z < y PROVE FALSE
    OBVIOUS
  <2>1. z + 1 \in 1..y /\ z < n
    BY <1>1
  <2> QED
    BY <2>1 DEF Leads
<1> QED
  BY <1>1, <1>2, <1>3

LEMMA WithoutIs ==
  ASSUME NEW B \in Bases, NEW n \in Nat, NEW s \in Digits(n, B), NEW z, Leads(z, s, n)
  PROVE  /\ LeadingZeroes(s) = z /\ n - z \in Nat
         /\ WithoutZeroes(s) \in Digits(n - z, B)
         /\ \A i \in 1..n - z : WithoutZeroes(s)[i] = s[z + i]
         /\ Stripped(WithoutZeroes(s), n - z)
         /\ Amount(WithoutZeroes(s), n - z, B) = Amount(s, n, B)
<1> DEFINE w == WithoutZeroes(s)
<1>0. s \in [1..n -> Nat] /\ Len(s) = n
  BY DigitsTyped
<1>1. LeadingZeroes(s) = z
  BY <1>0, LeadingIs, LeadsOnce
<1>2. z \in 0..n /\ (\A i \in 1..z : s[i] = 0) /\ (z < n => s[z + 1] # 0)
  BY DEF Leads
<1>3. PICK m \in Nat : m = n - z
  BY <1>2
<1>4. w = [i \in 1..m |-> s[z + i]]
  <2>1. w = SubSeq(s, z + 1, n)
    BY <1>0, <1>1 DEF WithoutZeroes
  <2>2. s \in Seq(Nat)
    BY <1>0, FunctionIsSeq
  <2>3. SubSeq(s, z + 1, n) = [i \in 1..m |-> s[z + i]]
    BY <1>0, <1>2, <1>3, <2>2
  <2> QED
    BY <2>1, <2>3
<1> HIDE DEF w
<1>5. \A i \in 1..m : z + i \in 1..n /\ w[i] = s[z + i]
  BY <1>2, <1>3, <1>4
<1>6. w \in Digits(m, B)
  <2>1. \A i \in 1..m : s[z + i] \in 0..B - 1
    BY <1>5 DEF Digits
  <2> QED
    BY <1>4, <2>1 DEF Digits
<1>7. Stripped(w, m)
  <2> SUFFICES ASSUME m > 0 PROVE w[1] # 0
    BY DEF Stripped
  <2>1. 1 \in 1..m /\ z < n
    BY <1>2, <1>3
  <2> QED
    BY <1>2, <1>5, <2>1
<1>8. B \in Nat
  BY BasesTyped
<1>9. PICK f : IsAmounts(f, s, n, B)
  BY <1>0, <1>8, AmountsExist
<1>10. f[z] = 0
  <2> DEFINE S == {i \in 0..z : f[i] = 0}
  <2>1. 0 \in S
    BY <1>2, <1>9 DEF IsAmounts
  <2>2. ASSUME NEW i \in 1..z, i - 1 \in S
        PROVE  i \in S
    <3>1. i \in 1..n /\ s[i] = 0 /\ i \in 0..z
      BY <1>2
    <3>2. f[i] = B * f[i - 1] + s[i]
      BY <1>9, <3>1 DEF IsAmounts
    <3>3. f[i] = B * 0 + 0
      BY <2>2, <3>1, <3>2
    <3> QED
      BY <1>8, <3>1, <3>3
  <2>3. 0..z \subseteq S
    <3>1. z \in Nat
      BY <1>2
    <3> HIDE DEF S
    <3> QED
      BY <2>1, <2>2, <3>1, SetInductionUpTo
  <2>4. z \in 0..z
    BY <1>2
  <2> QED
    BY <2>3, <2>4
<1> DEFINE g == [i \in 0..m |-> f[z + i]]
<1>11. IsAmounts(g, w, m, B)
  <2>1. f \in [0..n -> Nat]
    BY <1>9 DEF IsAmounts
  <2>2. g \in [0..m -> Nat]
    <3>1. \A i \in 0..m : z + i \in 0..n
      BY <1>2, <1>3
    <3> QED
      BY <2>1, <3>1
  <2>3. g[0] = 0
    <3>1. z + 0 = z /\ 0 \in 0..m
      BY <1>2
    <3> QED
      BY <1>10, <3>1
  <2>4. ASSUME NEW i \in 1..m
        PROVE  g[i] = B * g[i - 1] + w[i]
    <3>1. z + i \in 1..n /\ (z + i) - 1 = z + (i - 1) /\ i \in 0..m /\ i - 1 \in 0..m
      BY <1>2, <1>3
    <3>2. f[z + i] = B * f[(z + i) - 1] + s[z + i]
      BY <1>9, <3>1 DEF IsAmounts
    <3>3. g[i] = f[z + i] /\ g[i - 1] = f[z + (i - 1)]
      BY <3>1
    <3> QED
      BY <1>5, <3>1, <3>2, <3>3
  <2> HIDE DEF g
  <2> QED
    BY <2>2, <2>3, <2>4 DEF IsAmounts
<1>12. g[m] = f[n]
  BY <1>2, <1>3
<1> HIDE DEF g
<1>13. Amount(w, m, B) = Amount(s, n, B)
  BY <1>9, <1>11, <1>12, AmountOf
<1> QED
  BY <1>1, <1>3, <1>5, <1>6, <1>7, <1>13 DEF w

LEMMA AmountFrom ==
  ASSUME NEW B \in Bases, NEW n \in Nat, n > 0, NEW s \in Digits(n, B), Stripped(s, n),
         NEW f, IsAmounts(f, s, n, B)
  PROVE  Power(B, n - 1) <= f[n]
<1> DEFINE S == {i \in 0..n : i > 0 => Power(B, i - 1) <= f[i]}
<1>1. 0 \in S
  OBVIOUS
<1>2. ASSUME NEW i \in 1..n, i - 1 \in S
      PROVE  i \in S
  <2>1. B \in Nat /\ B > 1 /\ s[i] \in Nat /\ f \in [0..n -> Nat] /\ f[i] = B * f[i - 1] + s[i]
    BY BasesTyped, DigitsTyped DEF IsAmounts
  <2>2. i - 1 \in 0..n /\ i \in 0..n /\ f[i - 1] \in Nat
    BY <2>1
  <2>3. CASE i = 1
    <3>1. f[0] = 0 /\ s[1] # 0 /\ Power(B, 0) = 1
      BY <2>1, PowerStep DEF IsAmounts, Stripped
    <3>2. i - 1 = 0 /\ B * 0 = 0
      BY <2>1, <2>3
    <3>3. f[i] = s[1]
      BY <2>1, <2>3, <3>1, <3>2
    <3> QED
      BY <2>1, <2>2, <2>3, <3>1, <3>2, <3>3
  <2>4. CASE i # 1
    <3>1. i - 2 \in Nat /\ (i - 2) + 1 = i - 1 /\ i - 1 > 0 /\ (i - 1) - 1 = i - 2
      BY <2>4
    <3>2. Power(B, i - 1) = B * Power(B, i - 2) /\ Power(B, i - 2) \in Nat
      BY <2>1, <3>1, PowerStep
    <3>3. Power(B, i - 2) <= f[i - 1]
      BY <1>2, <3>1
    <3>4. B * Power(B, i - 2) <= B * f[i - 1]
      BY <2>1, <2>2, <3>2, <3>3, MultiplyUp
    <3>5. B * Power(B, i - 2) \in Nat /\ B * f[i - 1] \in Nat
      BY <2>1, <2>2, <3>2
    <3>6. Power(B, i - 1) <= f[i]
      BY <2>1, <3>2, <3>4, <3>5
    <3> QED
      BY <2>2, <3>6
  <2> QED
    BY <2>3, <2>4
<1>3. 0..n \subseteq S
  <2> HIDE DEF S
  <2> QED
    BY <1>1, <1>2, SetInductionUpTo
<1> QED
  BY <1>3

LEMMA NotShorter ==
  ASSUME NEW B \in Bases, NEW n \in Nat, NEW s \in Digits(n, B),
         NEW m \in Nat, NEW t \in Digits(m, B), Stripped(t, m),
         NEW f, IsAmounts(f, s, n, B), NEW g, IsAmounts(g, t, m, B), f[n] = g[m]
  PROVE  ~(n < m)
<1> SUFFICES ASSUME n < m PROVE FALSE
  OBVIOUS
<1>1. B \in Nat /\ B > 1
  BY BasesTyped
<1>2. f[n] < Power(B, n) /\ f[n] \in Nat
  <2>1. n \in 0..n
    OBVIOUS
  <2> QED
    BY <1>1, <2>1, AmountsBelow DEF IsAmounts
<1>3. Power(B, m - 1) <= g[m]
  BY AmountFrom
<1>4. m - 1 \in Nat /\ n <= m - 1
  OBVIOUS
<1>5. Power(B, n) <= Power(B, m - 1)
  BY <1>1, <1>4, PowerGrows
<1>6. Power(B, n) \in Nat /\ Power(B, m - 1) \in Nat
  BY <1>1, <1>4, PowerStep
<1> QED
  BY <1>2, <1>3, <1>5, <1>6

LEMMA LastDigit ==
  ASSUME NEW B \in Bases, NEW x \in Nat, NEW y \in Nat, NEW d \in 0..B - 1, NEW e \in 0..B - 1,
         B * x + d = B * y + e
  PROVE  x = y /\ d = e
<1>1. CASE B = 58
  BY <1>1
<1>2. CASE B = 256
  BY <1>2
<1> QED
  BY <1>1, <1>2 DEF Bases

LEMMA DigitsDecided ==
  ASSUME NEW B \in Bases, NEW n \in Nat, NEW s \in Digits(n, B), Stripped(s, n),
         NEW m \in Nat, NEW t \in Digits(m, B), Stripped(t, m),
         Amount(s, n, B) = Amount(t, m, B)
  PROVE  n = m /\ s = t
<1>1. B \in Nat /\ s \in [1..n -> Nat] /\ t \in [1..m -> Nat]
  BY BasesTyped, DigitsTyped
<1>2. PICK f : IsAmounts(f, s, n, B)
  BY <1>1, AmountsExist
<1>3. PICK g : IsAmounts(g, t, m, B)
  BY <1>1, AmountsExist
<1>4. f[n] = g[m]
  BY <1>2, <1>3, AmountOf
<1>5. ~(n < m) /\ ~(m < n)
  BY <1>2, <1>3, <1>4, NotShorter
<1>6. n = m
  BY <1>5
<1>7. f \in [0..n -> Nat] /\ g \in [0..n -> Nat]
  BY <1>2, <1>3, <1>6 DEF IsAmounts
<1>8. ASSUME NEW i \in 1..n, f[i] = g[i]
      PROVE  f[i - 1] = g[i - 1] /\ s[i] = t[i]
  <2>1. i - 1 \in 0..n
    OBVIOUS
  <2>2. f[i - 1] \in Nat /\ g[i - 1] \in Nat
    BY <1>7, <2>1
  <2>3. f[i] = B * f[i - 1] + s[i] /\ g[i] = B * g[i - 1] + t[i]
    BY <1>2, <1>3, <1>6 DEF IsAmounts
  <2>4. s[i] \in 0..B - 1 /\ t[i] \in 0..B - 1
    BY <1>6 DEF Digits
  <2>5. B * f[i - 1] + s[i] = B * g[i - 1] + t[i]
    BY <1>8, <2>3
  <2> QED
    BY <2>2, <2>4, <2>5, LastDigit
<1> DEFINE S == {k \in 0..n : f[n - k] = g[n - k]}
<1>9. 0 \in S
  <2>1. n - 0 = n
    OBVIOUS
  <2> QED
    BY <1>4, <1>6, <2>1
<1>10. ASSUME NEW k \in 1..n, k - 1 \in S
       PROVE  k \in S
  <2>1. PICK i \in 1..n : i = n - (k - 1)
    OBVIOUS
  <2>2. i - 1 = n - k
    BY <2>1
  <2>3. f[i] = g[i]
    BY <1>10, <2>1
  <2>4. f[i - 1] = g[i - 1]
    BY <1>8, <2>3
  <2> QED
    BY <2>2, <2>4
<1>11. 0..n \subseteq S
  <2> HIDE DEF S
  <2> QED
    BY <1>9, <1>10, SetInductionUpTo
<1>12. \A i \in 1..n : f[i] = g[i]
  <2> TAKE i \in 1..n
  <2>1. n - i \in 0..n /\ n - (n - i) = i
    OBVIOUS
  <2> QED
    BY <1>11, <2>1
<1>13. \A i \in 1..n : s[i] = t[i]
  BY <1>8, <1>12
<1> QED
  BY <1>1, <1>6, <1>13

\* Zeroes in front of digits that begin with none.
LEMMA Joined ==
  ASSUME NEW B \in Bases, NEW z \in Nat, NEW k \in Nat, NEW w \in Digits(k, B), Stripped(w, k)
  PROVE  /\ Zeroes(z) \o w \in Digits(z + k, B)
         /\ LeadingZeroes(Zeroes(z) \o w) = z
         /\ WithoutZeroes(Zeroes(z) \o w) = w
<1> DEFINE s == Zeroes(z) \o w
<1>1. w \in [1..k -> Nat] /\ Zeroes(z) \in [1..z -> Nat] /\ w \in Seq(Nat) /\ Zeroes(z) \in Seq(Nat)
      /\ Len(w) = k /\ Len(Zeroes(z)) = z /\ \A i \in 1..z : Zeroes(z)[i] = 0
  <2>1. w \in [1..k -> Nat]
    BY DigitsTyped
  <2>2. Zeroes(z) \in [1..z -> Nat] /\ \A i \in 1..z : Zeroes(z)[i] = 0
    BY DEF Zeroes
  <2> QED
    BY <2>1, <2>2, FunctionIsSeq
<1>2. /\ s \in Seq(Nat) /\ Len(s) = z + k
      /\ \A i \in 1..z + k : s[i] = IF i <= z THEN Zeroes(z)[i] ELSE w[i - z]
  <2>1. PICK y : y = Zeroes(z)
    OBVIOUS
  <2>2. y \in Seq(Nat) /\ w \in Seq(Nat)
    BY <1>1, <2>1
  <2>3. /\ y \o w \in Seq(Nat) /\ Len(y \o w) = Len(y) + Len(w)
        /\ \A i \in 1..Len(y) + Len(w) :
             (y \o w)[i] = IF i <= Len(y) THEN y[i] ELSE w[i - Len(y)]
    BY <2>2, ConcatProperties
  <2>4. Len(y) = z /\ Len(w) = k
    BY <1>1, <2>1
  <2> QED
    BY <2>1, <2>3, <2>4
<1> HIDE DEF s
<1>3. DOMAIN s = 1..z + k /\ s = [i \in 1..z + k |-> s[i]]
  BY <1>2
<1>4. \A i \in 1..z : s[i] = 0
  <2> TAKE i \in 1..z
  <2>1. i \in 1..z + k /\ i <= z
    OBVIOUS
  <2> QED
    BY <1>1, <1>2, <2>1
<1>5. \A i \in 1..k : s[z + i] = w[i]
  <2> TAKE i \in 1..k
  <2>1. z + i \in 1..z + k /\ ~(z + i <= z) /\ (z + i) - z = i
    OBVIOUS
  <2> QED
    BY <1>2, <2>1
<1>6. s \in Digits(z + k, B)
  <2>1. B \in Nat /\ B > 1
    BY BasesTyped
  <2>2. ASSUME NEW i \in 1..z + k
        PROVE  s[i] \in 0..B - 1
    <3>1. CASE i <= z
      <4>1. i \in 1..z
        BY <3>1
      <4> QED
        BY <1>4, <2>1, <4>1
    <3>2. CASE ~(i <= z)
      <4>1. i - z \in 1..k /\ z + (i - z) = i
        BY <3>2
      <4>2. w[i - z] \in 0..B - 1
        BY <4>1 DEF Digits
      <4> QED
        BY <1>5, <4>1, <4>2
    <3> QED
      BY <3>1, <3>2
  <2> QED
    BY <1>3, <2>2 DEF Digits
<1>7. Leads(z, s, z + k)
  <2>1. z < z + k => s[z + 1] # 0
    <3> SUFFICES ASSUME z < z + k PROVE s[z + 1] # 0
      OBVIOUS
    <3>1. k > 0 /\ 1 \in 1..k
      OBVIOUS
    <3> QED
      BY <1>5, <3>1 DEF Stripped
  <2>2. z \in 0..z + k
    OBVIOUS
  <2> QED
    BY <1>4, <2>1, <2>2 DEF Leads
<1>8. z + k \in Nat /\ (z + k) - z = k
  OBVIOUS
<1>9. /\ LeadingZeroes(s) = z /\ WithoutZeroes(s) \in Digits(k, B)
      /\ \A i \in 1..k : WithoutZeroes(s)[i] = s[z + i]
  <2>1. PICK n \in Nat : n = z + k /\ n - z = k
    BY <1>8
  <2>2. s \in Digits(n, B) /\ Leads(z, s, n)
    BY <1>6, <1>7, <2>1
  <2>3. /\ LeadingZeroes(s) = z
        /\ WithoutZeroes(s) \in Digits(n - z, B)
        /\ \A i \in 1..n - z : WithoutZeroes(s)[i] = s[z + i]
    BY <2>2, WithoutIs
  <2> QED
    BY <2>1, <2>3
<1>10. WithoutZeroes(s) = w
  <2>1. WithoutZeroes(s) \in [1..k -> 0..B - 1] /\ w \in [1..k -> 0..B - 1]
    BY <1>9 DEF Digits
  <2>2. \A i \in 1..k : WithoutZeroes(s)[i] = w[i]
    BY <1>5, <1>9
  <2> QED
    BY <2>1, <2>2
<1> QED
  BY <1>6, <1>9, <1>10 DEF s

\* The zeroes of a sequence and the rest of it are the sequence.
LEMMA Rejoined ==
  ASSUME NEW B \in Bases, NEW n \in Nat, NEW s \in Digits(n, B), NEW z, Leads(z, s, n)
  PROVE  Zeroes(z) \o WithoutZeroes(s) = s
<1> DEFINE w == WithoutZeroes(s)
           k == n - z
           t == Zeroes(z) \o w
<1>1. k \in Nat /\ w \in Digits(k, B) /\ Stripped(w, k) /\ \A i \in 1..k : w[i] = s[z + i]
  BY WithoutIs
<1>2. z \in Nat /\ z + k = n /\ \A i \in 1..z : s[i] = 0
  BY DEF Leads
<1> HIDE DEF w, k
<1>3. w \in Seq(Nat) /\ Len(w) = k
  <2>1. w \in [1..k -> Nat]
    BY <1>1, DigitsTyped
  <2> QED
    BY <1>1, <2>1, FunctionIsSeq
<1>4. Zeroes(z) \in Seq(Nat) /\ Len(Zeroes(z)) = z /\ \A i \in 1..z : Zeroes(z)[i] = 0
  <2>1. Zeroes(z) \in [1..z -> Nat] /\ \A i \in 1..z : Zeroes(z)[i] = 0
    BY DEF Zeroes
  <2> QED
    BY <1>2, <2>1, FunctionIsSeq
<1>5. /\ t \in Seq(Nat) /\ Len(t) = z + k
      /\ \A i \in 1..z + k : t[i] = IF i <= z THEN Zeroes(z)[i] ELSE w[i - z]
  <2>1. PICK y : y = Zeroes(z)
    OBVIOUS
  <2>2. y \in Seq(Nat) /\ w \in Seq(Nat)
    BY <1>3, <1>4, <2>1
  <2>3. /\ y \o w \in Seq(Nat) /\ Len(y \o w) = Len(y) + Len(w)
        /\ \A i \in 1..Len(y) + Len(w) :
             (y \o w)[i] = IF i <= Len(y) THEN y[i] ELSE w[i - Len(y)]
    BY <2>2, ConcatProperties
  <2>4. Len(y) = z /\ Len(w) = k
    BY <1>3, <1>4, <2>1
  <2> QED
    BY <2>1, <2>3, <2>4
<1> HIDE DEF t
<1>6. t \in [1..n -> Nat] /\ s \in [1..n -> Nat]
  <2>1. s \in [1..n -> Nat]
    BY DigitsTyped
  <2>2. t \in [1..Len(t) -> Nat]
    BY <1>5
  <2> QED
    BY <1>2, <1>5, <2>1, <2>2
<1>7. ASSUME NEW i \in 1..n
      PROVE  t[i] = s[i]
  <2>1. i \in 1..z + k
    BY <1>2
  <2>2. CASE i <= z
    <3>1. i \in 1..z
      BY <1>2, <2>2
    <3> QED
      BY <1>2, <1>4, <1>5, <2>1, <2>2, <3>1
  <2>3. CASE ~(i <= z)
    <3>1. i - z \in 1..k /\ z + (i - z) = i
      BY <1>1, <1>2, <2>3
    <3> QED
      BY <1>1, <1>5, <2>1, <2>3, <3>1
  <2> QED
    BY <2>2, <2>3
<1>8. t = s
  BY <1>6, <1>7
<1> QED
  BY <1>8 DEF t, w

\* One direction: the digits that are left stand for the same number.
LEMMA ConvertedIs ==
  ASSUME NEW N \in Nat, NEW size \in Nat, NEW F \in Bases, NEW B \in Bases,
         NEW digits \in Digits(N, F), Power(F, N) < Power(B, size)
  PROVE  LET w == WithoutZeroes(Convert(digits, size, F, B))
         IN \E k \in Nat : /\ w \in Digits(k, B) /\ Stripped(w, k) /\ Len(w) = k
                           /\ Amount(w, k, B) = Amount(digits, N, F)
<1>1. PICK c : c = Convert(digits, size, F, B)
  OBVIOUS
<1>2. c \in Digits(size, B) /\ Amount(c, size, B) = Amount(digits, N, F)
  BY <1>1, ConvertIs
<1>3. Len(c) = size
  BY <1>2, DigitsTyped
<1>4. PICK z : Leads(z, c, size)
  BY <1>3, LeadingIs
<1>5. PICK k \in Nat : k = size - z
  BY <1>2, <1>4, WithoutIs
<1>6. /\ WithoutZeroes(c) \in Digits(k, B) /\ Stripped(WithoutZeroes(c), k)
      /\ Amount(WithoutZeroes(c), k, B) = Amount(c, size, B)
  BY <1>2, <1>4, <1>5, WithoutIs
<1>7. Len(WithoutZeroes(c)) = k
  BY <1>6, DigitsTyped
<1> QED
  BY <1>1, <1>2, <1>6, <1>7

\* A text that is written and read again, for any number of bytes.
LEMMA RoundTrip ==
  ASSUME NEW n \in Nat, NEW a \in Digits(n, 256)
  PROVE  /\ decode(encode(a)) = a
         /\ LET rest == WithoutZeroes(a)
                text == WithoutZeroes(encode(a))
            IN /\ Fits(rest, EncodedSize(Len(rest)), 256, 58)
               /\ Fits(text, DecodedSize(Len(text)), 58, 256)
<1>0. 58 \in Bases /\ 256 \in Bases
  BY DEF Bases
<1>1. Len(a) = n
  BY <1>0, DigitsTyped
<1>2. PICK z : z = LeadingZeroes(a) /\ Leads(z, a, n)
  BY <1>1, LeadingIs
<1>3. PICK r \in Nat : r = n - z
  BY <1>0, <1>2, WithoutIs
<1>4. PICK rest : rest = WithoutZeroes(a)
  OBVIOUS
<1>5. rest \in Digits(r, 256) /\ Stripped(rest, r) /\ z \in Nat
  BY <1>0, <1>2, <1>3, <1>4, WithoutIs DEF Leads
<1>6. Len(rest) = r
  BY <1>0, <1>5, DigitsTyped
<1>7. EncodedSize(r) \in Nat /\ Power(256, r) < Power(58, EncodedSize(r))
  BY EstimatesSuffice
<1>8. Fits(rest, EncodedSize(r), 256, 58)
  BY <1>0, <1>5, <1>7, ConvertIs
<1>9. PICK w : w = WithoutZeroes(Convert(rest, EncodedSize(r), 256, 58))
  OBVIOUS
<1>10. PICK k \in Nat : /\ w \in Digits(k, 58) /\ Stripped(w, k) /\ Len(w) = k
                        /\ Amount(w, k, 58) = Amount(rest, r, 256)
  BY <1>0, <1>5, <1>7, <1>9, ConvertedIs
<1>11. encode(a) = Zeroes(z) \o w
  BY <1>2, <1>4, <1>6, <1>9 DEF encode
<1>12. LeadingZeroes(encode(a)) = z /\ WithoutZeroes(encode(a)) = w
  BY <1>0, <1>5, <1>10, <1>11, Joined
<1>13. DecodedSize(k) \in Nat /\ Power(58, k) < Power(256, DecodedSize(k))
  BY EstimatesSuffice
<1>14. Fits(w, DecodedSize(k), 58, 256)
  BY <1>0, <1>10, <1>13, ConvertIs
<1>15. PICK d : d = WithoutZeroes(Convert(w, DecodedSize(k), 58, 256))
  OBVIOUS
<1>16. PICK q \in Nat : /\ d \in Digits(q, 256) /\ Stripped(d, q)
                        /\ Amount(d, q, 256) = Amount(w, k, 58)
  BY <1>0, <1>10, <1>13, <1>15, ConvertedIs
<1>17. d = rest
  BY <1>0, <1>5, <1>10, <1>16, DigitsDecided
<1>18. decode(encode(a)) = Zeroes(z) \o d
  BY <1>10, <1>12, <1>15 DEF decode
<1>19. Zeroes(z) \o WithoutZeroes(a) = a
  BY <1>0, <1>2, Rejoined
<1> QED
  BY <1>4, <1>6, <1>8, <1>10, <1>12, <1>14, <1>17, <1>18, <1>19

ArrayTyped == \E n \in Nat : array \in Digits(n, 256)

LEMMA ArrayTypedAlways == TextSpec => []ArrayTyped
<1>1. InitArray => ArrayTyped
  <2> SUFFICES ASSUME InitArray PROVE ArrayTyped
    OBVIOUS
  <2>1. array = [i \in 1..0 |-> 0]
    BY DEF InitArray
  <2>2. array \in Digits(0, 256)
    BY <2>1 DEF Digits
  <2> QED
    BY <2>2 DEF ArrayTyped
<1>2. ArrayTyped /\ [NextArray]_array => ArrayTyped'
  <2> SUFFICES ASSUME ArrayTyped, [NextArray]_array PROVE ArrayTyped'
    OBVIOUS
  <2>1. CASE NextArray
    <3>1. PICK n \in 1..MaxSize : array' \in [1..n -> Bytes]
      BY <2>1 DEF NextArray
    <3>2. n \in Nat /\ Bytes \subseteq 0..255
      BY Base58Assumption
    <3>3. array' \in [1..n -> 0..255]
      BY <3>1, <3>2
    <3>4. 256 - 1 = 255
      OBVIOUS
    <3>5. array' \in Digits(n, 256)
      BY <3>3, <3>4 DEF Digits
    <3> QED
      BY <3>2, <3>5 DEF ArrayTyped
  <2>2. CASE UNCHANGED array
    BY <2>2 DEF ArrayTyped
  <2> QED
    BY <2>1, <2>2
<1> QED
  BY <1>1, <1>2, PTL DEF TextSpec

\* A key, a signature or a hash of any length is the same after it has been written
\* and read again, whatever the array held that it is read into (base58::encode,
\* base58::decode, decode_b58 of P2P).
THEOREM ArraysAlwaysSurvive == TextSpec => []ArraysSurvive
<1>1. ArrayTyped => ArraysSurvive
  <2> SUFFICES ASSUME ArrayTyped, NEW old \in Bytes
               PROVE  decode_b58(encode(array), [i \in DOMAIN array |-> old]) = array
    BY DEF ArraysSurvive
  <2>1. PICK n \in Nat : array \in Digits(n, 256)
    BY DEF ArrayTyped
  <2>2. PICK b : b = [i \in DOMAIN array |-> old]
    OBVIOUS
  <2>3. Len(array) = n /\ DOMAIN array = 1..n /\ array = [i \in 1..n |-> array[i]]
    <3>1. 256 \in Bases
      BY DEF Bases
    <3>2. array \in [1..n -> Nat] /\ Len(array) = n
      BY <2>1, <3>1, DigitsTyped
    <3> QED
      BY <3>2
  <2>4. Len(b) = n
    <3>1. b \in [1..n -> Bytes]
      BY <2>2, <2>3
    <3> QED
      BY <3>1, FunctionIsSeq
  <2>5. decode(encode(array)) = array
    BY <2>1, RoundTrip
  <2>6. decode_b58(encode(array), b) = [i \in 1..n |-> IF i <= n THEN array[i] ELSE b[i]]
    BY <2>3, <2>4, <2>5 DEF decode_b58
  <2>7. \A i \in 1..n : i <= n
    OBVIOUS
  <2>8. decode_b58(encode(array), b) = [i \in 1..n |-> array[i]]
    BY <2>6, <2>7
  <2> QED
    BY <2>2, <2>3, <2>8
<1> QED
  BY <1>1, ArrayTypedAlways, PTL

\* The assertions on the carry hold for any number of bytes: 138/100 is more than
\* log(256)/log(58), and 733/1000 more than log(58)/log(256) (base58::encode,
\* base58::decode).
THEOREM BuffersAlwaysSuffice == TextSpec => []BuffersSuffice
<1>1. ArrayTyped => BuffersSuffice
  BY RoundTrip DEF ArrayTyped, BuffersSuffice
<1> QED
  BY <1>1, ArrayTypedAlways, PTL
=============================================================================
