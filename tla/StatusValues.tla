---------------------------- MODULE StatusValues ----------------------------
(***************************************************************************)
(* The meanings of a slot of a status list, and the answers of the calls   *)
(* on a list.  A value is its name and its number (From<StatusValue> for   *)
(* u8); an answer is Ok, a value that was read, or an error.               *)
(***************************************************************************)
EXTENDS Integers

Valid     == [name |-> "Valid",     number |-> 0]
Revoked   == [name |-> "Revoked",   number |-> 1]
Suspended == [name |-> "Suspended", number |-> 2]
Reserved(n) == [name |-> "Reserved", number |-> n]

StatusValue == {Valid, Revoked, Suspended} \cup {Reserved(n) : n \in 0 .. 255}

Ok == [name |-> "Ok", number |-> 0]
Error(name) == [name |-> name, number |-> 0]

(* What the "bits" member of a JSON object may be besides a number.        *)
Absent == -1
Malformed == -2

(* The latest call: "new", "from_raw" and "try_from" with the width they   *)
(* were given, "new" with its capacity as idx.                             *)
Call(op, width, idx, value, answer) ==
  [op |-> op, width |-> width, idx |-> idx, value |-> value, answer |-> answer]
=============================================================================
