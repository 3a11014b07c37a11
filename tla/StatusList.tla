----------------------------- MODULE StatusList -----------------------------
(***************************************************************************)
(* StatusList of swiyu-core: slots of one or two bits packed into bytes,   *)
(* the lowest slot in the lowest bits.  Shifts and masks are divisions and *)
(* remainders by powers of two; compression and base64 are left out.       *)
(***************************************************************************)
EXTENDS Sequences, StatusValues

CONSTANTS
  U64,        \* 2^64: one more than the largest u64
  Widths,     \* the widths asked for
  Capacities, \* the capacities asked for
  Indices,    \* the slots asked for
  Values,     \* the values written
  Bitstrings  \* the bytes received

Byte == 0 .. 255

ASSUME ArgumentsAssumption ==
  /\ U64 \in Nat \ {0}
  /\ Widths \subseteq Byte
  /\ Capacities \subseteq 0 .. U64 - 1
  /\ Indices \subseteq 0 .. U64 - 1
  /\ Values \subseteq StatusValue
  /\ Bitstrings \subseteq Seq(Byte)

VARIABLES list, \* [bits, bytes]
          call  \* the latest call and its answer

vars == <<list, call>>

List == [bits : {1, 2}, bytes : Seq(Byte)]

(* An object is seen as its "bits" member and the bytes of its "lst", or   *)
(* the error that reading "lst" ends in.                                   *)
LstErrors == {"MissingField", "InvalidFieldType", "InvalidBase64", "Decompress"}

Objects ==
  LET Bits == Widths \cup {Absent, Malformed, 256}
  IN  [bits : Bits, lst : {"Ok"}, bytes : Bitstrings]
        \cup [bits : Bits, lst : LstErrors, bytes : {<< >>}]

-----------------------------------------------------------------------------
SlotsPerByte(bits) == 8 \div bits

Slots(l) == Len(l.bytes) * SlotsPerByte(l.bits)

Weight == <<1, 2, 4, 8, 16, 32, 64, 128>>  \* Weight[k + 1] is 1 << k

(* (byte >> shift) & mask                                                  *)
Field(byte, shift, bits) ==
  (byte \div Weight[shift + 1]) % Weight[bits + 1]

(* (byte & !(mask << shift)) | ((raw & mask) << shift)                     *)
WithField(byte, shift, bits, raw) ==
  byte + ((raw % Weight[bits + 1]) - Field(byte, shift, bits)) * Weight[shift + 1]

(* Faulty: eight slots a byte whatever the width.                          *)
ByteIdxOfBits(bits, idx) == idx \div 8

ByteIdx(bits, idx) == idx \div SlotsPerByte(bits)

(* Faulty: the shift counts slots, not bits.                               *)
ShiftUnscaled(bits, idx) == idx % SlotsPerByte(bits)

Shift(bits, idx) == (idx % SlotsPerByte(bits)) * bits

(* bytes.get(byte_idx) has an answer.                                      *)
InBounds(l, idx) == ByteIdx(l.bits, idx) < Len(l.bytes)

FromRaw(raw, bits) ==
  CASE raw = 0 -> Valid
    [] raw = 1 -> Revoked
    [] raw = 2 /\ bits = 2 -> Suspended
    [] OTHER -> Reserved(raw)

MaxRaw(bits) == IF bits = 1 THEN 1 ELSE 3

(* to_raw gives a number.                                                  *)
Fits(value, bits) == value.number <= MaxRaw(bits)

SlotValue(l, idx) ==
  FromRaw(Field(l.bytes[ByteIdx(l.bits, idx) + 1], Shift(l.bits, idx), l.bits),
          l.bits)

Supported(bits) == bits = 1 \/ bits = 2

-----------------------------------------------------------------------------
Init ==
  \E bits \in Widths, bytes \in Bitstrings :
    /\ Supported(bits)
    /\ list = [bits |-> bits, bytes |-> bytes]
    /\ call = Call("from_raw", bits, 0, Valid, Ok)

Capacious(bits, capacity) ==
  /\ capacity * bits < U64
  /\ (capacity * bits) % 8 = 0

(* Faulty: any width that fills whole bytes.                               *)
NewAnswerAnyWidth(bits, capacity) ==
  IF Capacious(bits, capacity) THEN Ok ELSE Error("InvalidCapacity")

NewAnswer(bits, capacity) ==
  CASE ~Supported(bits) -> Error("UnsupportedBits")
    [] Supported(bits) /\ ~Capacious(bits, capacity) -> Error("InvalidCapacity")
    [] OTHER -> Ok

(* StatusList::new: refused, or a list of zero bytes.                      *)
New(bits, capacity) ==
  /\ call' = Call("new", bits, capacity, Valid, NewAnswer(bits, capacity))
  /\ list' = IF NewAnswer(bits, capacity) = Ok
             THEN [bits  |-> bits,
                   bytes |-> [i \in 1 .. (capacity * bits) \div 8 |-> 0]]
             ELSE list

(* StatusList::from_raw: bytes that were written at any width.             *)
Wrap(bits, bytes) ==
  \/ /\ Supported(bits)
     /\ call' = Call("from_raw", bits, 0, Valid, Ok)
     /\ list' = [bits |-> bits, bytes |-> bytes]
  \/ /\ ~Supported(bits)
     /\ call' = Call("from_raw", bits, 0, Valid, Error("UnsupportedBits"))
     /\ UNCHANGED list

ParsedBits(o) == IF o.bits = Absent THEN 1 ELSE o.bits

ParseAnswer(o) ==
  CASE ParsedBits(o) \notin Byte -> Error("InvalidFieldType")
    [] ParsedBits(o) \in Byte /\ ~Supported(ParsedBits(o)) -> Error("UnsupportedBits")
    [] Supported(ParsedBits(o)) -> Error(o.lst)

(* TryFrom<&Value>: the width is looked at before the bytes.               *)
Parse(o) ==
  /\ call' = Call("try_from", o.bits, 0, Valid, ParseAnswer(o))
  /\ list' = IF ParseAnswer(o) = Ok
             THEN [bits |-> ParsedBits(o), bytes |-> o.bytes]
             ELSE list

SetAnswer(idx, value) ==
  CASE ~Fits(value, list.bits) -> Error("ValueOutOfRange")
    [] Fits(value, list.bits) /\ ~InBounds(list, idx) -> Error("IdxOutOfRange")
    [] OTHER -> Ok

(* StatusList::set_at.                                                     *)
SetAt(idx, value) ==
  LET b == ByteIdx(list.bits, idx) + 1
  IN  /\ call' = Call("set_at", list.bits, idx, value, SetAnswer(idx, value))
      /\ list' = IF SetAnswer(idx, value) = Ok
                 THEN [list EXCEPT !.bytes[b] =
                         WithField(@, Shift(list.bits, idx), list.bits, value.number)]
                 ELSE list

ReadAnswer(idx) ==
  IF InBounds(list, idx) THEN SlotValue(list, idx) ELSE Error("IdxOutOfRange")

(* StatusList::value_at.                                                   *)
ValueAt(idx) ==
  /\ call' = Call("value_at", list.bits, idx, Valid, ReadAnswer(idx))
  /\ UNCHANGED list

Next ==
  \/ \E bits \in Widths, capacity \in Capacities : New(bits, capacity)
  \/ \E bits \in Widths, bytes \in Bitstrings : Wrap(bits, bytes)
  \/ \E o \in Objects : Parse(o)
  \/ \E idx \in Indices, value \in Values : SetAt(idx, value)
  \/ \E idx \in Indices : ValueAt(idx)

Spec == Init /\ [][Next]_vars

-----------------------------------------------------------------------------
(* A list is made of bytes and has one of the two widths that value_at,    *)
(* set_at and len know: what new, from_raw and try_from look at keeps      *)
(* `8 / self.bits` defined and the UnsupportedBits arms out of reach.      *)
TypeOK ==
  /\ list \in List
  /\ call.idx \in 0 .. U64 - 1
  /\ call.value \in StatusValue

(* The bytes of a list as an array of values.                              *)
Array == INSTANCE StatusSlots
  WITH width    <- list.bits,
       capacity <- Slots(list),
       slots    <- [i \in 0 .. Slots(list) - 1 |-> SlotValue(list, i)]

(* value_at and set_at agree on where a slot is: whatever was written,     *)
(* read, received or refused before, a list behaves as an array of values, *)
(* and a write disturbs no slot that shares its byte.                      *)
SlotsSpec == Array!Spec
=============================================================================
