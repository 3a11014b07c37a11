------------------------------- MODULE DidLog -------------------------------
(***************************************************************************)
(* The did:tdw 0.3 log as a value: its entries, the check of verify_log    *)
(* and the entries that `did rotate` and `did deactivate` build.  No state *)
(* here: Didtool keeps logs in files, in processes and at the registry.    *)
(*                                                                         *)
(* A key is the serial number of its generation and a hash the serial      *)
(* number of the entry it was computed for: keys are random and SHA-256 is *)
(* taken to be collision free, so two of them are equal only when they     *)
(* come from the same step.  Serials start at 1.                           *)
(***************************************************************************)
EXTENDS Naturals, Sequences

Roles == {"authorized", "authentication", "assertion"}

(* The number that the genesis entry has in place of a previous versionId. *)
Scid == 0

(* The DID document: the two keys it lists.  The id never differs here.    *)
Doc == [authentication : Nat, assertion : Nat]

(* <<seq, hash>> is the versionId, prev the previous versionId's hash that *)
(* was hashed in its place.  `announces` says whether parameters.updateKeys*)
(* is present at all; when it is not, updateKeys is empty.                 *)
Entry == [seq : Nat, hash : Nat, prev : Nat,
          announces : BOOLEAN, updateKeys : SUBSET Nat,
          deactivated : BOOLEAN, doc : Doc, signer : Nat]

LastEntry(log) == log[Len(log)]

(* k may sign entry i + 1: it is among the updateKeys announced last,      *)
(* which are carried forward over the entries that announce none.          *)
Authorised(log, i, k) ==
  \E j \in 1 .. i :
    /\ log[j].announces
    /\ k \in log[j].updateKeys
    /\ \A m \in (j + 1) .. i : ~log[m].announces

(* The versionId of entry i carries its position and hashes its predecessor*)
ChainedAt(log, i) ==
  /\ log[i].seq = i
  /\ log[i].prev = IF i = 1 THEN Scid ELSE log[i - 1].hash

(* The proof of entry i is by a key its predecessors allow; the genesis    *)
(* entry vouches for itself and must announce its keys.                    *)
AuthorisedAt(log, i) ==
  IF i = 1 THEN log[1].announces /\ log[1].signer \in log[1].updateKeys
           ELSE Authorised(log, i - 1, log[i].signer)

Verifies(log) ==
  /\ log # << >>
  /\ \A i \in 1 .. Len(log) : ChainedAt(log, i) /\ AuthorisedAt(log, i)

Deactivated(log) == log # << >> /\ LastEntry(log).deactivated

GenesisLog ==
  << [seq |-> 1, hash |-> 1, prev |-> Scid,
      announces |-> TRUE, updateKeys |-> {1}, deactivated |-> FALSE,
      doc |-> [authentication |-> 1, assertion |-> 1], signer |-> 1] >>

(* Mutants of RotationEntry: the two keys of the document exchanged, and   *)
(* the signing key announced instead of its successor.                     *)
SwappedRotationEntry(log, h, signer, staged) ==
  [seq |-> Len(log) + 1, hash |-> h, prev |-> LastEntry(log).hash,
   announces |-> staged["authorized"] # signer,
   updateKeys |-> IF staged["authorized"] # signer
                    THEN {staged["authorized"]} ELSE {},
   deactivated |-> FALSE,
   doc |-> [authentication |-> staged["assertion"],
            assertion |-> staged["authentication"]],
   signer |-> signer]
StaleRotationEntry(log, h, signer, staged) ==
  [seq |-> Len(log) + 1, hash |-> h, prev |-> LastEntry(log).hash,
   announces |-> staged["authorized"] # signer,
   updateKeys |-> IF staged["authorized"] # signer THEN {signer} ELSE {},
   deactivated |-> FALSE,
   doc |-> [authentication |-> staged["authentication"],
            assertion |-> staged["assertion"]],
   signer |-> signer]

(* The entry of `did rotate`: updateKeys only when the authorized key of   *)
(* the staged set differs from the one that signs.                         *)
RotationEntry(log, h, signer, staged) ==
  [seq |-> Len(log) + 1, hash |-> h, prev |-> LastEntry(log).hash,
   announces |-> staged["authorized"] # signer,
   updateKeys |-> IF staged["authorized"] # signer
                    THEN {staged["authorized"]} ELSE {},
   deactivated |-> FALSE,
   doc |-> [authentication |-> staged["authentication"],
            assertion |-> staged["assertion"]],
   signer |-> signer]

(* Mutant of DeactivationEntry: the document is not carried over.          *)
BareDeactivationEntry(log, h, signer) ==
  [seq |-> Len(log) + 1, hash |-> h, prev |-> LastEntry(log).hash,
   announces |-> TRUE, updateKeys |-> {}, deactivated |-> TRUE,
   signer |-> signer]

(* The entry of `did deactivate`: nobody may sign after it, document kept. *)
DeactivationEntry(log, h, signer) ==
  [seq |-> Len(log) + 1, hash |-> h, prev |-> LastEntry(log).hash,
   announces |-> TRUE, updateKeys |-> {}, deactivated |-> TRUE,
   doc |-> LastEntry(log).doc, signer |-> signer]

-----------------------------------------------------------------------------
(* Notions the properties are stated with.                                 *)

(* Everything about the log is in order except, perhaps, who signed the    *)
(* last entry.                                                             *)
VerifiesButLast(log) ==
  /\ log # << >>
  /\ \A i \in 1 .. Len(log) : ChainedAt(log, i)
  /\ \A i \in 1 .. Len(log) - 1 : AuthorisedAt(log, i)

(* At most one entry follows a deactivation, and it does not deactivate.   *)
DeactivatedOnce(log) ==
  \A i \in 1 .. Len(log) :
    log[i].deactivated =>
      /\ i >= Len(log) - 1
      /\ \A j \in 1 .. Len(log) : log[j].deactivated => j = i
=============================================================================
