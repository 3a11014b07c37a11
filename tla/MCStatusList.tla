---------------------------- MODULE MCStatusList ----------------------------
(***************************************************************************)
(* StatusList on lists of up to two bytes.                                 *)
(***************************************************************************)
EXTENDS StatusList, Bitwise

(* The boundaries of the value space and of both widths.                   *)
MCValues == {Valid, Revoked, Suspended, Reserved(1), Reserved(3), Reserved(4)}

MCBitstrings == {<< >>, <<0, 0>>, <<228, 27>>}

(* (byte & !(mask << shift)) | ((raw & mask) << shift), bit by bit, with   *)
(* the numbers that set_at has for each width.                             *)
WrittenByte(byte, bits, idx, raw) ==
  LET weight == IF bits = 1 THEN 2 ^ (idx % 8) ELSE 2 ^ ((idx % 4) * 2)
      mask   == IF bits = 1 THEN 1 ELSE 3
  IN  (byte & (255 - mask * weight)) | ((raw & mask) * weight)

(* A write of set_at gives the byte of the slot the bits that the masks of *)
(* the code give it, and leaves every other byte alone: the arithmetic of  *)
(* the model is that of the machine.                                       *)
WritesAreMasked ==
  [][call'.op = "set_at" /\ call'.answer = Ok =>
       LET b == call'.idx \div (IF list.bits = 1 THEN 8 ELSE 4) + 1
       IN  /\ DOMAIN list'.bytes = DOMAIN list.bytes
           /\ \A i \in DOMAIN list.bytes :
                list'.bytes[i] =
                  IF i = b
                  THEN WrittenByte(list.bytes[i], list.bits, call'.idx, call'.value.number)
                  ELSE list.bytes[i]]_vars
=============================================================================
