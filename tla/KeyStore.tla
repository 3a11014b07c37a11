------------------------------ MODULE KeyStore ------------------------------
(***************************************************************************)
(* The directory of one DID in the key store: numbered snapshot            *)
(* directories, each with one private key file per role.  A key store is a *)
(* function from the numbers present on disk to snapshots; NoKey is a file *)
(* that is absent or was truncated and not yet filled, which load_eddsa    *)
(* and load_ecdsa both answer with an error.  The public key files repeat  *)
(* the private ones and are left out.                                      *)
(***************************************************************************)
EXTENDS Naturals, DidLog

CONSTANT MaxVersion      \* the largest four-digit directory name: 9999

ASSUME MaxVersionAssumption == MaxVersion \in Nat \ {0}

NoKey == 0

Snapshot == [Roles -> Nat]
EmptySnapshot == [r \in Roles |-> NoKey]

IsKeyStore(ks) == DOMAIN ks \subseteq Nat /\ ks \in [DOMAIN ks -> Snapshot]

(* What `create` committed: version 1 with the first key of every role.    *)
InitialKeyStore == [v \in {1} |-> [r \in Roles |-> 1]]

(* latest_version looks at names of exactly four digits only.              *)
Visible(ks) == {v \in DOMAIN ks : v <= MaxVersion}

(* Mutant of IsLatest: the first snapshot.                                 *)
IsFirst(ks, v) == v \in Visible(ks) /\ \A w \in Visible(ks) : v <= w

IsLatest(ks, v) == v \in Visible(ks) /\ \A w \in Visible(ks) : w <= v

(* add_version, first part: create_dir_all keeps a directory that exists.  *)
CreateVersion(ks, v) ==
  [w \in DOMAIN ks \cup {v} |-> IF w \in DOMAIN ks THEN ks[w] ELSE EmptySnapshot]

(* add_version, one key file: create, truncate and write.                  *)
WriteKey(ks, v, role, key) == [ks EXCEPT ![v] = [@ EXCEPT ![role] = key]]

Readable(ks, v, roles) == \A r \in roles : ks[v][r] # NoKey

Complete(ks, v) == Readable(ks, v, Roles)
=============================================================================
