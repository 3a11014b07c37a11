----------------------------- MODULE PopTokens ------------------------------
(***************************************************************************)
(* Proofs of possession: `pop create` signs one with a key of the key      *)
(* store, `pop verify` accepts it on the word of the key store or of the   *)
(* log, while rotations and a deactivation go on and the clocks of the two *)
(* commands differ.  `key versions` is here too, for it reads the same     *)
(* snapshots.                                                              *)
(*                                                                         *)
(* A key is its role and its serial number; the DID of the key store and   *)
(* of the log is "this".  A hash is the place of its entry: entries of two *)
(* logs that branch are never put together.  A command that is killed, or  *)
(* that cannot write, half way is in Didtool.                              *)
(***************************************************************************)
EXTENDS KeyStore, FiniteSets

CONSTANTS Skew,        \* IAT_SKEW_SECS
          PopJobs,     \* command lines of `pop create`
          VerifyJobs,  \* command lines of `pop verify`, and how far its clock is behind
          Plans,       \* command lines of `did rotate`: what becomes of each role's key
          OtherTokens, \* tokens that this tool did not make
          Nonces, NoNonce,
          MaxPops, MaxSerial, MaxPopClock, \* bounds: tokens, keys of a role, the clock
          MaxCopies                        \* bound: logs in files

VARIABLES keys,     \* the key store entry
          didlog,   \* the log that the registry serves
          copies,   \* logs in files: of --input, of --out, pending ones
          popClock,
          pops,     \* the tokens made, in order
          popFile   \* whether the file of --out exists

popVars == <<keys, didlog, copies, popClock, pops, popFile>>

Key == Roles \X (1 .. MaxSerial)
AlgOf(key) == IF key[1] = "authorized" THEN "EdDSA" ELSE "ES256"

(* kid: <<"did:key", key>>, <<"fragment", did, role>> or <<"malformed">>.  *)
PopToken ==
  [shape : {"ok", "malformed"}, alg : {"EdDSA", "ES256", "none"},
   kid : ({"did:key"} \X Key) \cup ({"fragment"} \X {"this", "other"} \X (Roles \cup {"?"}))
         \cup {<<"malformed">>},
   key : Key, iss : {"this", "other"}, iat : Nat, exp : Nat, nonce : Nonces]

PopJob == [role : Roles, version : 0 .. MaxVersion, ttl : Nat, nonce : Nonces,
           out : {"stdout", "file"}, force : BOOLEAN]
VerifyJob == [jwt : {"given", "both", "none", "unreadable"}, log : {"none", "this", "unloadable"},
              nonce : Nonces \cup {NoNonce}, allow_expired : BOOLEAN, lag : Nat]

ASSUME PopAssumption ==
  /\ Skew \in Nat /\ MaxPops \in Nat /\ MaxSerial \in 1 .. MaxVersion /\ MaxPopClock \in Nat
  /\ MaxCopies \in Nat
  /\ PopJobs \subseteq PopJob /\ VerifyJobs \subseteq VerifyJob
  /\ OtherTokens \subseteq PopToken
  /\ Plans \subseteq [Roles -> {"keep", "generate", "import"}]
  /\ NoNonce \notin Nonces

PopInit ==
  /\ keys = InitialKeyStore /\ didlog = GenesisLog /\ copies = {GenesisLog}
  /\ popClock = 0 /\ pops = << >> /\ popFile = FALSE

-----------------------------------------------------------------------------
(* pop create.                                                             *)

ResolveVersion(version) ==
  IF version # 0 THEN version ELSE CHOOSE v \in DOMAIN keys : IsLatest(keys, v)

(* resolve_role: the key and the kid that a verifier is to find it by.     *)
KidOf(role, key) ==
  IF role = "authorized" THEN <<"did:key", key>> ELSE <<"fragment", "this", role>>

MakePop(j) ==
  LET key == <<j.role, keys[ResolveVersion(j.version)][j.role]>> IN
  [shape |-> "ok", alg |-> AlgOf(key), kid |-> KidOf(j.role, key), key |-> key,
   iss |-> "this", iat |-> popClock, exp |-> popClock + j.ttl, nonce |-> j.nonce]

(* The error of cmd_create_pop, or "ok" when it writes a token.            *)
PopError(j) ==
  CASE j.ttl = 0 -> "InvalidTtl"
    [] j.ttl # 0 /\ j.force /\ j.out = "stdout" -> "ForceWithoutOut"
    [] j.ttl # 0 /\ ~(j.force /\ j.out = "stdout")
         /\ ResolveVersion(j.version) \notin DOMAIN keys -> "NotFound"
    [] j.ttl # 0 /\ ResolveVersion(j.version) \in DOMAIN keys
         /\ j.out = "file" /\ popFile /\ ~j.force -> "FileExists"
    [] OTHER -> "ok"

(* The token reaches the verifier; with --out, by a file that stays, even  *)
(* when it could not be filled.                                            *)
CreatePop ==
  /\ Len(pops) < MaxPops
  /\ \E j \in PopJobs :
       /\ PopError(j) = "ok"
       /\ \/ pops' = Append(pops, MakePop(j))
          \/ UNCHANGED pops
       /\ popFile' = (popFile \/ j.out = "file")
  /\ UNCHANGED <<keys, didlog, copies, popClock>>

-----------------------------------------------------------------------------
(* pop verify, which changes nothing: its answer to a token.               *)

(* Mutant of LatestUpdateKeys: a key that was ever announced will do.      *)
EveryUpdateKey == UNION {didlog[i].updateKeys : i \in DOMAIN didlog}

(* The keys of the last entry that announces any.                          *)
LatestUpdateKeys ==
  UNION {didlog[i].updateKeys :
           i \in {j \in DOMAIN didlog : /\ didlog[j].announces
                                        /\ \A k \in DOMAIN didlog : k > j => ~didlog[k].announces}}

(* find_vm_key_in_log and resolve_via_keystore: the key of a role.         *)
KeyInLog(role) == <<role, LastEntry(didlog).doc[role]>>
KeyInStore(role) == <<role, keys[ResolveVersion(0)][role]>>

(* resolve_context: an error, or the key and whether iss must be "this".   *)
Refused(error) == [error |-> error]
Resolved(key, iss) == [error |-> "ok", key |-> key, iss |-> iss]

(* load_log verifies what it loads.                                        *)
Unloadable(a) == a.log = "unloadable" \/ (a.log = "this" /\ ~Verifies(didlog))

ResolveContext(t, a) ==
  IF t.kid[1] = "did:key" THEN
    IF t.kid[2][1] # "authorized" THEN Refused("UnsupportedAlg")
    ELSE IF a.log = "none" THEN Resolved(t.kid[2], FALSE)
    ELSE IF Unloadable(a) THEN Refused("Log")
    ELSE IF t.kid[2][2] \notin LatestUpdateKeys THEN Refused("MultikeyNotInUpdateKeys")
    ELSE Resolved(t.kid[2], TRUE)
  ELSE IF Unloadable(a) THEN Refused("Log")
  ELSE IF t.kid[2] # "this" THEN Refused(IF a.log = "none" THEN "NotFound" ELSE "DidMismatch")
  ELSE IF t.kid[3] \notin {"authentication", "assertion"}
    THEN Refused("VerificationMethodMissing")
  ELSE Resolved(IF a.log = "none" THEN KeyInStore(t.kid[3]) ELSE KeyInLog(t.kid[3]), TRUE)

(* Mutant of Early: no allowance for clocks.                               *)
EarlyBySecond(t, now) == t.iat > now

Early(t, now) == t.iat > now + Skew

CheckClaims(t, a, now) ==
  CASE Early(t, now) -> "NotYetIssued"
    [] ~Early(t, now) /\ now >= t.exp /\ ~a.allow_expired -> "Expired"
    [] ~Early(t, now) /\ (now < t.exp \/ a.allow_expired)
         /\ a.nonce \notin {NoNonce, t.nonce} -> "NonceMismatch"
    [] OTHER -> "valid"

(* current_unix_seconds, where the verifier runs.                          *)
VerifierClock(a) == IF popClock > a.lag THEN popClock - a.lag ELSE 0

CheckToken(t, a, context) ==
  IF context.error # "ok" THEN context.error
  ELSE IF t.alg # AlgOf(context.key) THEN "AlgKeyMismatch"
  ELSE IF t.key # context.key THEN "SignatureInvalid"
  ELSE IF context.iss /\ t.iss # "this" THEN "IssMismatch"
  ELSE CheckClaims(t, a, VerifierClock(a))

VerifyPop(t, a) ==
  IF a.jwt # "given"
    THEN CASE a.jwt = "both" -> "AmbiguousJwt" [] a.jwt = "none" -> "NoJwt"
           [] a.jwt = "unreadable" -> "ReadJwt"
  ELSE IF t.shape = "malformed" THEN "JwtMalformed"
  ELSE IF t.alg = "none" THEN "UnsupportedAlg"
  ELSE IF t.kid = <<"malformed">> THEN "KidMalformed"
  ELSE CheckToken(t, a, ResolveContext(t, a))

-----------------------------------------------------------------------------
(* key versions.                                                           *)

(* Mutant of ChangedRoles: compared with the first snapshot.               *)
ChangedSinceFirst(v) == {r \in Roles : keys[v][r] # keys[1][r]}

(* The roles on the line of a version; on the first it says "initial".     *)
ChangedRoles(v) == IF v = 1 THEN {} ELSE {r \in Roles : keys[v][r] # keys[v - 1][r]}

-----------------------------------------------------------------------------
(* What happens to the key store and the log meanwhile.                    *)

LatestVersion == ResolveVersion(0)
SigningKey == keys[LatestVersion]["authorized"]

(* load_log, with --did or with --input: a log that does not verify is     *)
(* refused, one that is older than the newest snapshot is not.             *)
Sources == {log \in {didlog} \cup copies : Verifies(log)}

(* Where a log with a new entry goes: to the registry unless the upload is *)
(* left out or fails, and to a file, in place of the one of --input, of    *)
(* --out or as pending file, unless --did was all there was.               *)
Deliver(log, new) ==
  /\ didlog' \in {didlog, new}
  /\ \/ copies' = copies \cup {new} /\ Cardinality(copies') <= MaxCopies
     \/ copies' = (copies \ {log}) \cup {new} /\ log \in copies
     \/ copies' = copies /\ log = didlog

(* stage_keys: a key that is imported may be one that was used before.     *)
Staged(action, role) ==
  CASE action = "keep" -> {keys[LatestVersion][role]}
    [] action = "generate" -> {LatestVersion + 1}
    [] action = "import" -> {keys[v][role] : v \in DOMAIN keys} \cup {LatestVersion + 1}

(* `did rotate`: the snapshot is numbered by the key store, the entry by   *)
(* the log, and a key is announced when it is not the one that signs.      *)
RotateDid ==
  /\ LatestVersion < MaxSerial
  /\ \E log \in Sources, plan \in Plans, staged \in [Roles -> 1 .. LatestVersion + 1] :
       /\ \A r \in Roles : staged[r] \in Staged(plan[r], r)
       /\ keys' = [v \in DOMAIN keys \cup {LatestVersion + 1} |->
                     IF v = LatestVersion + 1 THEN staged ELSE keys[v]]
       /\ Deliver(log, Append(log, RotationEntry(log, Len(log) + 1, SigningKey, staged)))
  /\ UNCHANGED <<popClock, pops, popFile>>

(* `did deactivate`, which refuses a deactivated log.                      *)
DeactivateDid ==
  /\ \E log \in Sources :
       /\ ~Deactivated(log)
       /\ Deliver(log, Append(log, DeactivationEntry(log, Len(log) + 1, SigningKey)))
  /\ UNCHANGED <<keys, popClock, pops, popFile>>

(* The log of a file is uploaded by hand, be it the newest or not.         *)
UploadCopy ==
  /\ didlog' \in copies
  /\ UNCHANGED <<keys, copies, popClock, pops, popFile>>

PopClockTicks ==
  /\ popClock < MaxPopClock
  /\ popClock' = popClock + 1
  /\ UNCHANGED <<keys, didlog, copies, pops, popFile>>

PopNext == CreatePop \/ RotateDid \/ DeactivateDid \/ UploadCopy \/ PopClockTicks

PopSpec == PopInit /\ [][PopNext]_popVars

-----------------------------------------------------------------------------
(* What must hold.                                                         *)

AllTokens == {pops[k] : k \in DOMAIN pops} \cup OtherTokens

(* The keys that the log vouches for: those that may sign its next entry,  *)
(* and those of its document.                                              *)
Vouched ==
  {k \in Key : IF k[1] = "authorized" THEN Authorised(didlog, Len(didlog), k[2])
                                      ELSE LastEntry(didlog).doc[k[1]] = k[2]}

(* A token that `pop verify --did` accepts is this DID's, and its key is   *)
(* one that the log vouches for now: after a rotation is published the     *)
(* replaced key proves nothing, after a deactivation no authorized key     *)
(* does, whichever entry announced it.                                     *)
AcceptedPopIsVouched ==
  \A t \in AllTokens, a \in VerifyJobs :
    (a.log = "this" /\ VerifyPop(t, a) = "valid") => t.key \in Vouched /\ t.iss = "this"

(* A token made with the latest keys is accepted by whoever sees the same  *)
(* keys, in the key store or in a log that verifies, from Skew seconds     *)
(* before its iat on the verifier's clock until it expires.                *)
FreshPopIsAccepted ==
  \A k \in DOMAIN pops, a \in VerifyJobs :
    LET t == pops[k] IN
    ( /\ a.jwt = "given" /\ a.nonce \in {NoNonce, t.nonce}
      /\ t.iat <= VerifierClock(a) + Skew /\ VerifierClock(a) < t.exp
      /\ \/ a.log = "none" /\ t.key[2] = keys[ResolveVersion(0)][t.key[1]]
         \/ a.log = "this" /\ Verifies(didlog) /\ t.key \in Vouched )
      => VerifyPop(t, a) = "valid"

(* The documents of a log are those of snapshots, in their order.          *)
PlacedAt(log, at) ==
  /\ \A i \in DOMAIN log, r \in Roles \ {"authorized"} : log[i].doc[r] = keys[at[i]][r]
  /\ \A i, j \in DOMAIN log : i < j => at[i] <= at[j]

Replaced(log, i, j) == {r \in Roles \ {"authorized"} : log[i].doc[r] # log[j].doc[r]}

(* `key versions` explains every log there is, at the registry or in a     *)
(* file, although uploads fail, old copies are uploaded again and version  *)
(* v does not belong to entry v: each document has the keys of one         *)
(* snapshot, and a role whose key differs between two entries is on the    *)
(* line of a version after the first one's snapshot, not after the         *)
(* second's.                                                               *)
VersionsExplainTheLog ==
  \A log \in {didlog} \cup copies :
    \E at \in [DOMAIN log -> DOMAIN keys] :
      /\ PlacedAt(log, at)
      /\ \A i, j \in DOMAIN log : i < j =>
           Replaced(log, i, j) \subseteq UNION {ChangedRoles(v) : v \in at[i] + 1 .. at[j]}
=============================================================================
