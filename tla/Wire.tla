-------------------------------- MODULE Wire --------------------------------
(***************************************************************************)
(* A message on its way: built (P2P build_msg), written by msgpack11, read *)
(* by msgpack11, and given to the handlers (P2P use_msg), which check the  *)
(* types of its fields.                                                    *)
(*                                                                         *)
(* msgpack11 writes an integer in the narrowest format that holds it, so   *)
(* that the type a handler finds is seldom the type the sender gave: what  *)
(* check_requirement accepts has to follow what dump chooses.              *)
(*                                                                         *)
(* An integer of w bytes has one of 2 * Half[w] values.  An item is its    *)
(* first byte and the number that follows it: a value, or a length.        *)
(***************************************************************************)
EXTENDS Integers

CONSTANTS
  Half,      \* half the values of an integer, by its width in bytes
  VERSION,   \* ISENCOIN_VERSION, a uint8_t
  Bodies     \* the kinds and fields of the messages that are sent

Widths == {1, 2, 4, 8}

ASSUME HalfAssumption ==
  /\ Half \in [Widths -> Nat]
  /\ Half[1] = 128 /\ Half[1] < Half[2] /\ Half[2] < Half[4] /\ Half[4] < Half[8]
ASSUME VersionAssumption == VERSION \in 0..255

Lim(w) == 2 * Half[w]

-----------------------------------------------------------------------------
(***************************************************************************)
(* Types, and values of them.                                              *)
(***************************************************************************)
UINT(w) == [kind |-> "UINT", width |-> w]
INT(w)  == [kind |-> "INT", width |-> w]
Other(k) == [kind |-> k, width |-> 0]

Integral == {UINT(w) : w \in Widths} \cup {INT(w) : w \in Widths}
Others   == {"NUL", "BOOL", "FLOAT32", "FLOAT64", "STRING", "BINARY", "ARRAY",
             "OBJECT", "EXTENSION"}
Types    == Integral \cup {Other(k) : k \in Others}

InRange(v, type) ==
  IF type.kind = "UINT" THEN v \in 0..Lim(type.width) - 1
                        ELSE v \in -Half[type.width]..Half[type.width] - 1

-----------------------------------------------------------------------------
(***************************************************************************)
(* dump: the item an integer is written as.                                *)
(***************************************************************************)
Nothing == 0
Item(byte, data) == [byte |-> byte, data |-> data]

\* Variant: one value too many is written as its own byte.
DumpU8_above(v) == IF v > 128 THEN Item(204, v) ELSE Item(v, Nothing)

DumpU8(v) == IF v >= 128 THEN Item(204, v) ELSE Item(v, Nothing)

DumpU16(v) == IF v < Lim(1) THEN DumpU8(v) ELSE Item(205, v)

DumpU32(v) == IF v < Lim(2) THEN DumpU16(v) ELSE Item(206, v)
DumpU64(v) == IF v < Lim(4) THEN DumpU32(v) ELSE Item(207, v)

DumpI8(v) == IF v < -32 THEN Item(208, v % Lim(1)) ELSE Item(v % 256, Nothing)

DumpI16(v) ==
  IF v < -Half[1] THEN Item(209, v % Lim(2)) ELSE IF v <= 0 THEN DumpI8(v) ELSE DumpU16(v)
DumpI32(v) ==
  IF v < -Half[2] THEN Item(210, v % Lim(4)) ELSE IF v <= 0 THEN DumpI16(v) ELSE DumpU32(v)
DumpI64(v) ==
  IF v < -Half[4] THEN Item(211, v % Lim(8)) ELSE IF v <= 0 THEN DumpI32(v) ELSE DumpU64(v)

DumpInteger(v, type) ==
  CASE type = UINT(1) -> DumpU8(v)
    [] type = UINT(2) -> DumpU16(v)
    [] type = UINT(4) -> DumpU32(v)
    [] type = UINT(8) -> DumpU64(v)
    [] type = INT(1) -> DumpI8(v)
    [] type = INT(2) -> DumpI16(v)
    [] type = INT(4) -> DumpI32(v)
    [] type = INT(8) -> DumpI64(v)

\* The header of a string of n characters, of an array and of an object of n
\* elements.
DumpString(n) ==
  CASE n <= 31 -> Item(160 + n, Nothing)
    [] n > 31 /\ n < Lim(1) -> Item(217, n)
    [] n >= Lim(1) /\ n < Lim(2) -> Item(218, n)
    [] n >= Lim(2) /\ n < Lim(4) -> Item(219, n)

DumpArray(n) ==
  CASE n <= 15 -> Item(144 + n, Nothing)
    [] n > 15 /\ n < Lim(2) -> Item(220, n)
    [] n >= Lim(2) /\ n < Lim(4) -> Item(221, n)

DumpObject(n) ==
  CASE n <= 15 -> Item(128 + n, Nothing)
    [] n > 15 /\ n < Lim(2) -> Item(222, n)
    [] n >= Lim(2) /\ n < Lim(4) -> Item(223, n)

-----------------------------------------------------------------------------
(***************************************************************************)
(* parse: the type and the number, or the length, of an item.              *)
(***************************************************************************)
Value(type, number) == [type |-> type, number |-> number]

\* The bits of a signed integer, read as one.
Signed(bits, w) == IF bits < Half[w] THEN bits ELSE bits - Lim(w)

\* The table of parsers, by the first byte.
Parse(item) ==
  LET b == item.byte
      n == item.data
  IN CASE b \in 0..127   -> Value(UINT(1), b)
       [] b \in 128..143 -> Value(Other("OBJECT"), b % 16)
       [] b \in 144..159 -> Value(Other("ARRAY"), b % 16)
       [] b \in 160..191 -> Value(Other("STRING"), b % 32)
       [] b \in 192..193 -> Value(Other("NUL"), 0)
       [] b \in 194..195 -> Value(Other("BOOL"), b - 194)
       [] b \in 196..198 -> Value(Other("BINARY"), n)
       [] b \in 199..201 -> Value(Other("EXTENSION"), n)
       [] b = 202        -> Value(Other("FLOAT32"), n)
       [] b = 203        -> Value(Other("FLOAT64"), n)
       [] b = 204        -> Value(UINT(1), n)
       [] b = 205        -> Value(UINT(2), n)
       [] b = 206        -> Value(UINT(4), n)
       [] b = 207        -> Value(UINT(8), n)
       [] b = 208        -> Value(INT(1), Signed(n, 1))
       [] b = 209        -> Value(INT(2), Signed(n, 2))
       [] b = 210        -> Value(INT(4), Signed(n, 4))
       [] b = 211        -> Value(INT(8), Signed(n, 8))
       [] b \in 212..216 -> Value(Other("EXTENSION"), n)
       [] b \in 217..219 -> Value(Other("STRING"), n)
       [] b \in 220..221 -> Value(Other("ARRAY"), n)
       [] b \in 222..223 -> Value(Other("OBJECT"), n)
       [] b \in 224..255 -> Value(INT(1), Signed(b, 1))

\* A value as its reader finds it.
Dump(value) ==
  CASE value.type \in Integral        -> DumpInteger(value.number, value.type)
    [] value.type = Other("STRING")   -> DumpString(value.number)
    [] value.type = Other("ARRAY")    -> DumpArray(value.number)
    [] value.type = Other("OBJECT")   -> DumpObject(value.number)
    [] value.type = Other("BOOL")     -> Item(194 + value.number, Nothing)
    [] value.type = Other("FLOAT32")  -> Item(202, value.number)
    [] value.type = Other("FLOAT64")  -> Item(203, value.number)
    [] value.type = Other("NUL")      -> Item(192, Nothing)

Carried(value) == Parse(Dump(value))

-----------------------------------------------------------------------------
(***************************************************************************)
(* The handlers.                                                           *)
(***************************************************************************)
\* Variant: the narrowest type is forgotten.
Narrower_but_one(type) ==
  {UINT(w) : w \in {w \in Widths \ {1} : type.kind = "UINT" /\ w < type.width}}

\* The types that stand for a wider one.
Narrower(type) ==
  CASE type.kind = "UINT" -> {UINT(w) : w \in {u \in Widths : u < type.width}}
    [] type.kind = "INT" -> {INT(w) : w \in {u \in Widths : u < type.width}}
    [] type = Other("FLOAT64") -> {Other("FLOAT32")}
    [] OTHER -> {}

\* check_requirement looks at no other type of the message when it requires one
\* that no narrower type stands for.
Checked == (Integral \ {UINT(1), INT(1)}) \cup {Other("FLOAT64")}

Accepts(type, found) ==
  \/ found = type
  \/ type \notin Checked
  \/ found \in Narrower(type)

Missing == Value(Other("NUL"), 0)

\* operator[] of an object
Field(msg, name) == IF name \in DOMAIN msg THEN msg[name] ELSE Missing

True == Value(Other("BOOL"), 1)

Kinds == {"hello", "transaction", "peer", "block", "ask_block", "no_block"}

\* build_msg puts the headers in with insert, which leaves what is there alone.
Headers == [ic |-> True, isencoin |-> Value(UINT(1), VERSION)]
BuildMsg(kind, fields) ==
  [kind |-> kind,
   fields |-> [f \in DOMAIN fields \cup DOMAIN Headers |->
                 IF f \in DOMAIN fields THEN fields[f] ELSE Headers[f]]]

Received(msg) ==
  [kind |-> msg.kind, fields |-> [f \in DOMAIN msg.fields |-> Carried(msg.fields[f])]]

\* is_msgpack_valid, which throws otherwise.
Valid(msg) ==
  /\ Field(msg.fields, "ic") = True
  /\ Field(msg.fields, "isencoin") = Value(UINT(1), VERSION)

\* What the handler of a kind requires.
Requirements(kind) ==
  CASE kind = "hello" -> [port |-> UINT(2)]
    [] kind = "transaction" ->
         [signature |-> Other("STRING"), timestamp |-> UINT(8), amount |-> Other("FLOAT32"),
          sender |-> Other("STRING"), receiver |-> Other("STRING")]
    [] kind = "peer" -> [host |-> Other("STRING"), port |-> UINT(2)]
    [] kind = "block" ->
         [previous_hash |-> Other("STRING"), timestamp |-> UINT(8), nonce |-> UINT(8),
          depth |-> UINT(8)]
    [] kind = "ask_block" -> [depth |-> UINT(8)]
    [] kind = "no_block" -> [f \in {} |-> UINT(1)]

Satisfies(msg, requirements) ==
  \A f \in DOMAIN requirements : Accepts(requirements[f], Field(msg.fields, f).type)

\* use_msg: the callback it makes.
UseMsg(msg, kind) ==
  CASE ~Valid(msg) -> "failure"
    [] Valid(msg) /\ msg.kind # kind -> "neither"
    [] Valid(msg) /\ msg.kind = kind /\ Satisfies(msg, Requirements(kind)) -> "success"
    [] OTHER -> "failure"

-----------------------------------------------------------------------------
(***************************************************************************)
(* A process sends messages, another receives them.                        *)
(***************************************************************************)
\* The types a process gives the fields of its messages.  No code sends "peer".
\* The number that stands for a string or an array is its length; for a float it
\* is its bits, of which there are as many as a uint32_t has.
Sends(kind) ==
  CASE kind = "hello" -> [port |-> UINT(2)]
    [] kind = "transaction" -> Requirements("transaction")
    [] kind = "peer" -> Requirements("peer")
    [] kind = "block" ->
         [previous_hash |-> Other("STRING"), timestamp |-> UINT(8), nonce |-> UINT(8),
          depth |-> UINT(8), txs |-> Other("ARRAY"), asked |-> Other("BOOL")]
    [] kind = "ask_block" -> [depth |-> INT(4)]
    [] kind = "no_block" -> Requirements("no_block")

\* Numbers the sender can give for a type; a depth that is asked for is never
\* negative.
Numbers(type) ==
  CASE type.kind = "UINT" -> 0..Lim(type.width) - 1
    [] type.kind = "INT"  -> 0..Half[type.width] - 1
    [] type.kind = "BOOL" -> {0, 1}
    [] OTHER -> 0..Lim(4) - 1

ASSUME BodiesAssumption ==
  \A body \in Bodies :
    /\ body.kind \in Kinds
    /\ DOMAIN body.fields = DOMAIN Sends(body.kind)
    /\ \A f \in DOMAIN body.fields :
         \E n \in Numbers(Sends(body.kind)[f]) : body.fields[f] = Value(Sends(body.kind)[f], n)

VARIABLES
  sent,   \* the message last sent
  found   \* what its receiver made of it

vars == <<sent, found>>

Init == sent = BuildMsg("no_block", [f \in {} |-> Missing]) /\ found = Received(sent)

Send(body) ==
  /\ sent' = BuildMsg(body.kind, body.fields)
  /\ found' = Received(sent')

Next == \E body \in Bodies : Send(body)

Spec == Init /\ [][Next]_vars

-----------------------------------------------------------------------------
\* What a message says survives the change of its types: every number and every
\* length is received as it was sent.
NumbersSurvive ==
  \A f \in DOMAIN sent.fields : found.fields[f].number = sent.fields[f].number

\* Every message a process sends makes one handler of its receiver run, and none
\* complain: check_requirement follows the formats that dump chooses.
OneHandlerRuns ==
  \A kind \in Kinds : UseMsg(found, kind) = IF kind = sent.kind THEN "success" ELSE "neither"
=============================================================================
