---------------------------- MODULE StatusSlots ----------------------------
(***************************************************************************)
(* What a status list promises to the issuer who writes it and to the      *)
(* verifier who reads it: it is an array of status values.  A write        *)
(* changes the slot it names and no other, or nothing when it is refused;  *)
(* a read answers what the slot holds.  No byte is mentioned.              *)
(***************************************************************************)
EXTENDS StatusValues

CONSTANT U64        \* 2^64: one more than the largest u64

VARIABLES width,    \* how wide a slot is
          capacity, \* how many slots there are
          slots,    \* the value of each slot
          call      \* the latest call and its answer

vars == <<width, capacity, slots, call>>

(* The values a slot of the width can hold.                                *)
Storable(w) ==
  IF w = 1 THEN {Valid, Revoked} ELSE {Valid, Revoked, Suspended, Reserved(3)}

IsArray(w, n, s) ==
  /\ w \in {1, 2}
  /\ n \in Nat
  /\ s \in [0 .. n - 1 -> Storable(w)]

Init ==
  /\ IsArray(width, capacity, slots)
  /\ call.op = "from_raw" /\ call.answer = Ok

Made(w, n) == w \in {1, 2} /\ n * w < U64 /\ (n * w) % 8 = 0

(* A list of the caller's choice: all valid, or whatever was received.  A  *)
(* received list without a width has slots of one bit.                     *)
Replaced ==
  /\ call'.op \in {"new", "from_raw", "try_from"}
  /\ call'.answer = Ok
  /\ IsArray(width', capacity', slots')
  /\ width' = IF call'.width = Absent THEN 1 ELSE call'.width
  /\ call'.op = "new" =>
       /\ Made(call'.width, call'.idx)
       /\ capacity' = call'.idx
       /\ slots' = [i \in 0 .. capacity' - 1 |-> Valid]

(* A refused list leaves the present one in place.                         *)
NotReplaced ==
  /\ call'.op \in {"new", "from_raw", "try_from"}
  /\ call'.answer # Ok
  /\ call'.op = "new" => ~Made(call'.width, call'.idx)
  /\ UNCHANGED <<width, capacity, slots>>

(* Values are stored by their number: Reserved(1) is Revoked.              *)
Written ==
  /\ call'.op = "set_at"
  /\ call'.answer = Ok
  /\ call'.idx \in 0 .. capacity - 1
  /\ \E v \in Storable(width) :
       /\ v.number = call'.value.number
       /\ slots' = [slots EXCEPT ![call'.idx] = v]
  /\ UNCHANGED <<width, capacity>>

NotWritten ==
  /\ call'.op = "set_at"
  /\ \/ /\ call'.answer = Error("ValueOutOfRange")
        /\ \A v \in Storable(width) : v.number # call'.value.number
     \/ /\ call'.answer = Error("IdxOutOfRange")
        /\ \E v \in Storable(width) : v.number = call'.value.number
        /\ call'.idx \notin 0 .. capacity - 1
  /\ UNCHANGED <<width, capacity, slots>>

Read ==
  /\ call'.op = "value_at"
  /\ call'.answer = IF call'.idx \in 0 .. capacity - 1
                    THEN slots[call'.idx]
                    ELSE Error("IdxOutOfRange")
  /\ UNCHANGED <<width, capacity, slots>>

Next == Replaced \/ NotReplaced \/ Written \/ NotWritten \/ Read

Spec == Init /\ [][Next]_vars
=============================================================================
