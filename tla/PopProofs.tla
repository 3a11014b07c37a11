------------------------------ MODULE PopProofs ------------------------------
(***************************************************************************)
(* Theorems about PopTokens, for every skew of the clocks, every set of    *)
(* command lines and every set of tokens that the tool did not make.  The  *)
(* inductive invariant places the documents of every log among the         *)
(* snapshots of the key store, although uploads fail and old copies come   *)
(* back.                                                                   *)
(***************************************************************************)
EXTENDS PopTokens, Integers, WellFoundedInduction, TLAPS

-----------------------------------------------------------------------------
(* The inductive invariant.                                                *)

(* The snapshots are numbered from 1 without a gap.                        *)
StoreNumbered(n) ==
  /\ n \in 1 .. MaxSerial
  /\ keys \in [1 .. n -> [Roles -> 1 .. MaxSerial]]

(* The documents of the log are those of snapshots of ks, in their order.  *)
PlacedBy(ks, log, at) ==
  /\ \A i \in DOMAIN log, r \in Roles \ {"authorized"} : log[i].doc[r] = ks[at[i]][r]
  /\ \A i, j \in DOMAIN log : i < j => at[i] <= at[j]

PlacedIn(ks, log) == \E at \in [DOMAIN log -> DOMAIN ks] : PlacedBy(ks, log, at)

SoundLog(ks, log) == log \in Seq(Entry) /\ log # << >> /\ PlacedIn(ks, log)

Logs == {didlog} \cup copies

(* A token of this tool names its own key.                                 *)
OwnToken(t) ==
  /\ t \in PopToken
  /\ t.shape = "ok" /\ t.alg = AlgOf(t.key) /\ t.kid = KidOf(t.key[1], t.key) /\ t.iss = "this"

PopInv ==
  /\ \E n \in Nat : StoreNumbered(n)
  /\ \A log \in Logs : SoundLog(keys, log)
  /\ popClock \in Nat
  /\ pops \in Seq(PopToken)
  /\ \A k \in DOMAIN pops : OwnToken(pops[k])

-----------------------------------------------------------------------------
(* latest_version, with snapshots numbered without a gap.                  *)
LEMMA LatestIsLast ==
  ASSUME NEW n \in Nat, StoreNumbered(n)
  PROVE  LatestVersion = n /\ DOMAIN keys = 1 .. n /\ n >= 1
<1>1. /\ MaxVersion \in Nat /\ MaxSerial \in 1 .. MaxVersion /\ n \in 1 .. MaxSerial
      /\ DOMAIN keys = 1 .. n
  BY MaxVersionAssumption, PopAssumption DEF StoreNumbered
<1>2. n \in DOMAIN keys /\ n >= 1
  BY <1>1
<1>3. IsLatest(keys, n)
  BY <1>1 DEF IsLatest, Visible
<1>4. \A v \in DOMAIN keys : IsLatest(keys, v) => v = n
  BY <1>1, <1>2, <1>3 DEF IsLatest, Visible
<1>5. QED BY <1>1, <1>2, <1>3, <1>4 DEF LatestVersion, ResolveVersion

(* What rotate and deactivate append is an entry.                          *)
LEMMA AppendedTypes ==
  ASSUME NEW log \in Seq(Entry), log # << >>,
         NEW h \in Nat, NEW signer \in Nat, NEW new \in [Roles -> Nat]
  PROVE  /\ RotationEntry(log, h, signer, new) \in Entry
         /\ DeactivationEntry(log, h, signer) \in Entry
<1>1. LastEntry(log) \in Entry /\ Len(log) + 1 \in Nat
  BY DEF LastEntry
<1>2. {new["authorized"]} \in SUBSET Nat /\ {} \in SUBSET Nat
      /\ new["authentication"] \in Nat /\ new["assertion"] \in Nat
  BY DEF Roles
<1>3. RotationEntry(log, h, signer, new) \in Entry
  BY <1>1, <1>2 DEF RotationEntry, Entry, Doc
<1>4. DeactivationEntry(log, h, signer) \in Entry
  BY <1>1, <1>2 DEF DeactivationEntry, Entry
<1>5. QED BY <1>3, <1>4

(* A snapshot more leaves every document where it was.                     *)
LEMMA PlacedInMore ==
  ASSUME NEW ks, NEW more, NEW log,
         \A v \in DOMAIN ks : v \in DOMAIN more /\ more[v] = ks[v], PlacedIn(ks, log)
  PROVE  PlacedIn(more, log)
<1>1. PICK at \in [DOMAIN log -> DOMAIN ks] : PlacedBy(ks, log, at)
  BY DEF PlacedIn
<1>2. \A i \in DOMAIN log : at[i] \in DOMAIN ks
  OBVIOUS
<1>3. at \in [DOMAIN log -> DOMAIN more]
  BY <1>2
<1>4. PlacedBy(more, log, at)
  BY <1>1, <1>2 DEF PlacedBy
<1>5. QED BY <1>3, <1>4 DEF PlacedIn

(* An entry with the keys of the latest snapshot comes last, one with the  *)
(* document of its predecessor stays there.                                *)
LEMMA PlacedAppend ==
  ASSUME NEW n \in Nat, n >= 1, NEW ks, DOMAIN ks = 1 .. n, NEW log, SoundLog(ks, log),
         NEW e \in Entry,
         \/ \A r \in Roles \ {"authorized"} : e.doc[r] = ks[n][r]
         \/ e.doc = LastEntry(log).doc
  PROVE  SoundLog(ks, Append(log, e))
<1> DEFINE new == Append(log, e)
<1>1. PICK m \in Nat : m = Len(log) /\ m >= 1
  BY DEF SoundLog
<1>2. /\ log \in Seq(Entry) /\ new \in Seq(Entry) /\ new # << >>
      /\ DOMAIN log = 1 .. m /\ DOMAIN new = 1 .. m + 1
      /\ new[m + 1] = e /\ \A i \in 1 .. m : new[i] = log[i]
  BY <1>1 DEF SoundLog
<1>3. PICK at \in [1 .. m -> 1 .. n] : PlacedBy(ks, log, at)
  BY <1>2 DEF SoundLog, PlacedIn
<1>4. PICK v \in 1 .. n :
        /\ \A r \in Roles \ {"authorized"} : e.doc[r] = ks[v][r]
        /\ at[m] <= v
  <2>1. at[m] \in 1 .. n /\ m \in 1 .. m
    BY <1>1, <1>3
  <2>2. CASE \A r \in Roles \ {"authorized"} : e.doc[r] = ks[n][r]
    BY <2>1, <2>2
  <2>3. CASE e.doc = LastEntry(log).doc
    <3>1. \A r \in Roles \ {"authorized"} : e.doc[r] = ks[at[m]][r]
      BY <1>1, <1>2, <1>3, <2>1, <2>3 DEF PlacedBy, LastEntry
    <3>2. QED BY <2>1, <3>1
  <2>4. QED BY <2>2, <2>3
<1> DEFINE to == [i \in 1 .. m + 1 |-> IF i = m + 1 THEN v ELSE at[i]]
<1>5. \A i \in 1 .. m + 1 : i # m + 1 => i \in 1 .. m
  BY <1>1
<1>6. to \in [DOMAIN new -> DOMAIN ks]
  BY <1>2, <1>3, <1>4, <1>5
<1>7. \A i \in DOMAIN new, r \in Roles \ {"authorized"} : new[i].doc[r] = ks[to[i]][r]
  <2>1. SUFFICES ASSUME NEW i \in 1 .. m + 1, NEW r \in Roles \ {"authorized"}
                 PROVE  new[i].doc[r] = ks[to[i]][r]
    BY <1>2
  <2>2. CASE i = m + 1
    <3>1. to[i] = v /\ new[i] = e
      BY <1>2, <2>2
    <3>2. QED BY <1>4, <3>1
  <2>3. CASE i # m + 1
    <3>1. i \in 1 .. m /\ to[i] = at[i] /\ new[i] = log[i]
      BY <1>2, <1>5, <2>3
    <3>. HIDE DEF new, to
    <3>2. log[i].doc[r] = ks[at[i]][r]
      BY <1>2, <1>3, <3>1 DEF PlacedBy
    <3>3. QED BY <3>1, <3>2
  <2>4. QED BY <2>2, <2>3
<1>8. \A i \in 1 .. m : to[i] = at[i] /\ to[i] \in 1 .. n /\ to[i] <= at[m]
  <2>1. SUFFICES ASSUME NEW i \in 1 .. m
                 PROVE  to[i] = at[i] /\ to[i] \in 1 .. n /\ to[i] <= at[m]
    OBVIOUS
  <2>2. i # m + 1 /\ i \in 1 .. m + 1 /\ m \in 1 .. m
    BY <1>1
  <2>3. to[i] = at[i] /\ at[i] \in 1 .. n /\ at[m] \in 1 .. n
    BY <1>3, <2>2
  <2>4. i < m => at[i] <= at[m]
    BY <1>2, <1>3, <2>2 DEF PlacedBy
  <2>5. at[m] <= at[m]
    BY <2>2, <2>3
  <2>6. i < m \/ i = m
    BY <1>1, <2>1
  <2>7. at[i] <= at[m]
    BY <2>4, <2>5, <2>6
  <2>8. to[i] = at[i]
    BY <2>3
  <2>. HIDE DEF to
  <2>9. QED BY <2>3, <2>7, <2>8
<1>9. to[m + 1] = v /\ at[m] \in 1 .. n
  BY <1>1, <1>3
<1> HIDE DEF new, to
<1>10. ASSUME NEW i \in DOMAIN new, NEW j \in DOMAIN new, i < j PROVE to[i] <= to[j]
  <2>1. i \in 1 .. m /\ j \in 1 .. m + 1
    BY <1>1, <1>2, <1>10
  <2>2. CASE j = m + 1
    <3>1. to[i] \in 1 .. n /\ to[i] <= at[m] /\ to[j] = v
      BY <1>8, <1>9, <2>1, <2>2
    <3>2. QED BY <1>4, <1>9, <3>1
  <2>3. CASE j # m + 1
    <3>1. j \in 1 .. m
      BY <1>1, <2>1, <2>3
    <3>2. to[i] = at[i] /\ to[j] = at[j]
      BY <1>8, <2>1, <3>1
    <3>3. at[i] <= at[j]
      BY <1>2, <1>3, <1>10, <2>1, <3>1 DEF PlacedBy
    <3>4. QED BY <3>2, <3>3
  <2>4. QED BY <2>2, <2>3
<1>11. QED BY <1>2, <1>6, <1>7, <1>10 DEF SoundLog, PlacedIn, PlacedBy, new

(* did create leaves one entry and the snapshot it was made from.          *)
LEMMA PopInitInv == PopInit => PopInv
<1> SUFFICES ASSUME PopInit PROVE PopInv
  OBVIOUS
<1>1. MaxSerial \in Nat /\ MaxSerial >= 1
  BY PopAssumption, MaxVersionAssumption
<1>2. StoreNumbered(1)
  <2>1. keys \in [{1} -> [Roles -> 1 .. MaxSerial]]
    BY <1>1 DEF PopInit, InitialKeyStore
  <2>2. 1 .. 1 = {1}
    OBVIOUS
  <2>3. QED BY <1>1, <2>1, <2>2 DEF StoreNumbered
<1>3. SoundLog(keys, GenesisLog)
  <2>1. GenesisLog \in Seq(Entry) /\ GenesisLog # << >> /\ DOMAIN GenesisLog = {1}
    BY DEF GenesisLog, Entry, Doc, Scid
  <2>2. GenesisLog[1].doc["authentication"] = 1 /\ GenesisLog[1].doc["assertion"] = 1
    BY DEF GenesisLog
  <2>3. DOMAIN keys = {1} /\ keys[1]["authentication"] = 1 /\ keys[1]["assertion"] = 1
    BY DEF PopInit, InitialKeyStore, Roles
  <2> DEFINE at == [i \in {1} |-> 1]
  <2>4. at \in [DOMAIN GenesisLog -> DOMAIN keys] /\ at[1] = 1
    BY <2>1, <2>3
  <2>5. PlacedBy(keys, GenesisLog, at)
    BY <2>1, <2>2, <2>3, <2>4 DEF PlacedBy, Roles
  <2>6. QED BY <2>1, <2>4, <2>5 DEF SoundLog, PlacedIn
<1>4. didlog = GenesisLog /\ copies = {GenesisLog}
  BY DEF PopInit
<1>5. popClock \in Nat /\ pops \in Seq(PopToken) /\ DOMAIN pops = {}
  BY DEF PopInit
<1>6. QED BY <1>2, <1>3, <1>4, <1>5 DEF PopInv, Logs

(* pop create signs with a key of a snapshot that exists, under the name   *)
(* that a verifier finds this key by.                                      *)
LEMMA MadeTokens ==
  ASSUME PopInv, NEW j \in PopJobs, PopError(j) = "ok"
  PROVE  OwnToken(MakePop(j))
<1> DEFINE key == <<j.role, keys[ResolveVersion(j.version)][j.role]>>
<1>1. PICK n \in Nat : StoreNumbered(n)
  BY DEF PopInv
<1>2. /\ j.role \in Roles /\ j.ttl \in Nat /\ j.nonce \in Nonces
  BY PopAssumption DEF PopJob
<1>3. ResolveVersion(j.version) \in DOMAIN keys
  BY DEF PopError
<1>4. key \in Key /\ key[1] = j.role
  BY <1>1, <1>2, <1>3 DEF StoreNumbered, Key
<1>5. popClock \in Nat /\ popClock + j.ttl \in Nat
  BY <1>2 DEF PopInv
<1> HIDE DEF key
<1>6. AlgOf(key) \in {"EdDSA", "ES256", "none"}
  BY DEF AlgOf
<1>7. KidOf(j.role, key) \in ({"did:key"} \X Key)
                             \cup ({"fragment"} \X {"this", "other"} \X (Roles \cup {"?"}))
                             \cup {<<"malformed">>}
  BY <1>2, <1>4 DEF KidOf
<1>8. MakePop(j) =
        [shape |-> "ok", alg |-> AlgOf(key), kid |-> KidOf(j.role, key), key |-> key,
         iss |-> "this", iat |-> popClock, exp |-> popClock + j.ttl, nonce |-> j.nonce]
  BY DEF MakePop, key
<1>9. MakePop(j) \in PopToken
  <2> DEFINE Kids == ({"did:key"} \X Key)
                     \cup ({"fragment"} \X {"this", "other"} \X (Roles \cup {"?"}))
                     \cup {<<"malformed">>}
  <2>1. KidOf(j.role, key) \in Kids
    BY <1>7
  <2>2. PopToken =
          [shape : {"ok", "malformed"}, alg : {"EdDSA", "ES256", "none"}, kid : Kids,
           key : Key, iss : {"this", "other"}, iat : Nat, exp : Nat, nonce : Nonces]
    BY DEF PopToken
  <2> HIDE DEF Kids
  <2>3. QED BY <1>2, <1>4, <1>5, <1>6, <1>8, <2>1, <2>2
<1>10. /\ MakePop(j).shape = "ok" /\ MakePop(j).alg = AlgOf(key)
       /\ MakePop(j).kid = KidOf(j.role, key) /\ MakePop(j).key = key
       /\ MakePop(j).iss = "this"
  BY <1>8
<1>11. QED BY <1>4, <1>9, <1>10 DEF OwnToken

(* Rotations, deactivations and uploads leave every log placed.            *)
LEMMA PopNextInv == PopInv /\ [PopNext]_popVars => PopInv'
<1> SUFFICES ASSUME PopInv, [PopNext]_popVars PROVE PopInv'
  OBVIOUS
<1>1. PICK n \in Nat : StoreNumbered(n)
  BY DEF PopInv
<1>2. /\ LatestVersion = n /\ DOMAIN keys = 1 .. n /\ n >= 1 /\ n \in 1 .. MaxSerial
      /\ MaxSerial \in Nat /\ \A v \in 1 .. n : keys[v] \in [Roles -> 1 .. MaxSerial]
  BY <1>1, LatestIsLast, PopAssumption, MaxVersionAssumption DEF StoreNumbered
<1>3. SigningKey \in Nat
  BY <1>2 DEF SigningKey, Roles
<1>4. \A log \in Logs : SoundLog(keys, log)
  BY DEF PopInv
<1>5. ASSUME UNCHANGED pops
      PROVE  pops' \in Seq(PopToken) /\ \A k \in DOMAIN pops' : OwnToken(pops'[k])
  BY <1>5 DEF PopInv
<1>6. popClock \in Nat
  BY DEF PopInv
<1>7. ASSUME UNCHANGED keys PROVE \E k \in Nat : StoreNumbered(k)'
  BY <1>1, <1>7 DEF StoreNumbered
<1>8. ASSUME NEW log, NEW new, Deliver(log, new)
      PROVE  Logs' \subseteq Logs \cup {new}
  BY <1>8 DEF Deliver, Logs
<1>9. CASE CreatePop
  <2>1. /\ UNCHANGED <<keys, didlog, copies, popClock>>
        /\ \/ pops' = pops
           \/ \E j \in PopJobs : PopError(j) = "ok" /\ pops' = Append(pops, MakePop(j))
    BY <1>9 DEF CreatePop
  <2>2. ASSUME NEW j \in PopJobs, PopError(j) = "ok", pops' = Append(pops, MakePop(j))
        PROVE  pops' \in Seq(PopToken) /\ \A k \in DOMAIN pops' : OwnToken(pops'[k])
    <3>1. OwnToken(MakePop(j)) /\ MakePop(j) \in PopToken
      BY <2>2, MadeTokens DEF OwnToken
    <3>2. pops \in Seq(PopToken) /\ \A k \in DOMAIN pops : OwnToken(pops[k])
      BY DEF PopInv
    <3>3. QED BY <2>2, <3>1, <3>2
  <2>3. pops' \in Seq(PopToken) /\ \A k \in DOMAIN pops' : OwnToken(pops'[k])
    BY <1>5, <2>1, <2>2
  <2>4. QED BY <1>4, <1>6, <1>7, <2>1, <2>3 DEF PopInv, Logs
<1>10. CASE RotateDid
  <2>1. /\ n < MaxSerial /\ UNCHANGED <<popClock, pops, popFile>>
    BY <1>2, <1>10 DEF RotateDid
  <2>2. PICK log \in Sources, staged \in [Roles -> 1 .. n + 1] :
          /\ keys' = [v \in DOMAIN keys \cup {n + 1} |-> IF v = n + 1 THEN staged ELSE keys[v]]
          /\ Deliver(log, Append(log, RotationEntry(log, Len(log) + 1, SigningKey, staged)))
    BY <1>2, <1>10 DEF RotateDid
  <2> DEFINE e == RotationEntry(log, Len(log) + 1, SigningKey, staged)
  <2>3. /\ DOMAIN keys' = 1 .. n + 1 /\ keys'[n + 1] = staged
        /\ \A v \in DOMAIN keys : v \in DOMAIN keys' /\ keys'[v] = keys[v]
    BY <1>2, <2>2
  <2>4. StoreNumbered(n + 1)'
    <3>1. staged \in [Roles -> 1 .. MaxSerial]
      BY <1>2, <2>1
    <3>2. ASSUME NEW v \in 1 .. n + 1 PROVE keys'[v] \in [Roles -> 1 .. MaxSerial]
      <4>1. CASE v = n + 1
        BY <2>3, <3>1, <4>1
      <4>2. CASE v # n + 1
        <5>1. v \in 1 .. n
          BY <1>2, <4>2
        <5>2. keys'[v] = keys[v]
          BY <1>2, <2>3, <5>1
        <5>3. QED BY <1>2, <5>1, <5>2
      <4>3. QED BY <4>1, <4>2
    <3>3. keys' = [v \in 1 .. n + 1 |-> keys'[v]]
      BY <2>2, <2>3
    <3>4. keys' \in [1 .. n + 1 -> [Roles -> 1 .. MaxSerial]]
      BY <3>2, <3>3
    <3>5. n + 1 \in 1 .. MaxSerial
      BY <1>2, <2>1
    <3>6. QED BY <3>4, <3>5 DEF StoreNumbered
  <2>5. \A l \in Logs : SoundLog(keys', l)
    BY <1>4, <2>3, PlacedInMore DEF SoundLog
  <2>6. SoundLog(keys', Append(log, e))
    <3>1. SoundLog(keys', log) /\ log \in Seq(Entry) /\ log # << >>
      BY <2>5 DEF Sources, Logs, SoundLog
    <3>2. e \in Entry
      <4>1. Len(log) + 1 \in Nat /\ staged \in [Roles -> Nat]
        BY <3>1
      <4>2. QED BY <1>3, <3>1, <4>1, AppendedTypes
    <3>3. \A r \in Roles \ {"authorized"} : e.doc[r] = keys'[n + 1][r]
      BY <2>3 DEF RotationEntry, Roles
    <3> HIDE DEF e
    <3>4. n + 1 \in Nat /\ n + 1 >= 1
      BY <1>2
    <3>5. QED BY <2>3, <3>1, <3>2, <3>3, <3>4, PlacedAppend
  <2>7. \A l \in Logs' : SoundLog(keys', l)
    BY <1>8, <2>2, <2>5, <2>6
  <2>8. QED BY <1>5, <1>6, <2>1, <2>4, <2>7 DEF PopInv
<1>11. CASE DeactivateDid
  <2>1. UNCHANGED <<keys, popClock, pops, popFile>>
    BY <1>11 DEF DeactivateDid
  <2>2. PICK log \in Sources :
          Deliver(log, Append(log, DeactivationEntry(log, Len(log) + 1, SigningKey)))
    BY <1>11 DEF DeactivateDid
  <2> DEFINE e == DeactivationEntry(log, Len(log) + 1, SigningKey)
  <2>3. SoundLog(keys, log) /\ log \in Seq(Entry) /\ log # << >>
    BY <1>4 DEF Sources, Logs, SoundLog
  <2>4. e \in Entry
    <3>1. Len(log) + 1 \in Nat /\ keys[1] \in [Roles -> Nat]
      BY <1>2, <2>3
    <3>2. QED BY <1>3, <2>3, <3>1, AppendedTypes
  <2>5. e.doc = LastEntry(log).doc
    BY DEF DeactivationEntry
  <2> HIDE DEF e
  <2>6. SoundLog(keys, Append(log, e))
    BY <1>2, <2>3, <2>4, <2>5, PlacedAppend
  <2>7. \A l \in Logs' : SoundLog(keys, l)
    BY <1>4, <1>8, <2>2, <2>6 DEF e
  <2>8. QED BY <1>5, <1>6, <1>7, <2>1, <2>7 DEF PopInv
<1>12. CASE UploadCopy
  <2>1. UNCHANGED <<keys, popClock, pops>> /\ Logs' \subseteq Logs
    BY <1>12 DEF UploadCopy, Logs
  <2>2. QED BY <1>4, <1>5, <1>6, <1>7, <2>1 DEF PopInv
<1>13. CASE PopClockTicks
  <2>1. UNCHANGED <<keys, didlog, copies, pops>> /\ popClock' \in Nat
    BY <1>6, <1>13 DEF PopClockTicks
  <2>2. QED BY <1>4, <1>5, <1>7, <2>1 DEF PopInv, Logs
<1>14. CASE UNCHANGED popVars
  <2>1. UNCHANGED <<keys, didlog, copies, pops, popClock>>
    BY <1>14 DEF popVars
  <2>2. QED BY <1>4, <1>5, <1>6, <1>7, <2>1 DEF PopInv, Logs
<1>15. QED BY <1>9, <1>10, <1>11, <1>12, <1>13, <1>14 DEF PopNext

(* Snapshots are numbered without a gap, every log has its place among     *)
(* them, and every token names its key, in every state.                    *)
THEOREM PopInvariant == PopSpec => []PopInv
BY PopInitInv, PopNextInv, PTL DEF PopSpec

-----------------------------------------------------------------------------
(* What `pop verify` accepts.                                              *)

(* The update keys pop verify collects are the keys that verify_log would  *)
(* let sign the next entry.                                                *)
LEMMA UpdateKeysAuthorise ==
  ASSUME didlog \in Seq(Entry)
  PROVE  \A k : k \in LatestUpdateKeys <=> Authorised(didlog, Len(didlog), k)
<1>1. DOMAIN didlog = 1 .. Len(didlog) /\ Len(didlog) \in Nat
  OBVIOUS
<1>2. \A j \in 1 .. Len(didlog) :
        (\A i \in DOMAIN didlog : i > j => ~didlog[i].announces)
          <=> (\A i \in (j + 1) .. Len(didlog) : ~didlog[i].announces)
  BY <1>1
<1>3. QED BY <1>1, <1>2 DEF LatestUpdateKeys, Authorised

(* The parts of an answer "valid" with a log at hand: the key comes from   *)
(* the log and has signed, and iss is this DID.                            *)
LEMMA ValidMeans ==
  ASSUME NEW t, NEW a \in VerifyJobs, a.log = "this", VerifyPop(t, a) = "valid"
  PROVE  /\ t.iss = "this"
         /\ \/ t.key[1] = "authorized" /\ t.key[2] \in LatestUpdateKeys
            \/ \E role \in {"authentication", "assertion"} : t.key = KeyInLog(role)
<1> DEFINE context == ResolveContext(t, a)
<1>1. CheckToken(t, a, context) = "valid"
  <2>1. a.jwt \in {"given", "both", "none", "unreadable"}
    BY PopAssumption DEF VerifyJob
  <2>2. QED BY <2>1 DEF VerifyPop
<1>2. \/ \E error : context = Refused(error) /\ error # "ok" /\ error # "valid"
      \/ /\ context = Resolved(t.kid[2], TRUE) /\ t.kid[2][1] = "authorized"
         /\ t.kid[2][2] \in LatestUpdateKeys
      \/ \E role \in {"authentication", "assertion"} : context = Resolved(KeyInLog(role), TRUE)
  BY DEF ResolveContext
<1> HIDE DEF context
<1>3. ASSUME NEW error, context = Refused(error), error # "ok", error # "valid" PROVE FALSE
  BY <1>1, <1>3 DEF CheckToken, Refused
<1>4. ASSUME NEW key, context = Resolved(key, TRUE) PROVE t.key = key /\ t.iss = "this"
  <2>1. context.error = "ok" /\ context.key = key /\ context.iss
    BY <1>4 DEF Resolved
  <2>2. t.key = key
    BY <1>1, <2>1 DEF CheckToken
  <2>3. t.iss = "this"
    BY <1>1, <2>1 DEF CheckToken
  <2>4. QED BY <2>2, <2>3
<1>5. QED BY <1>2, <1>3, <1>4

(* pop verify --did and --input accept only what the log vouches for: a    *)
(* replaced key is of no use once its rotation is published, nor any       *)
(* authorized key after a deactivation, whoever made the token.            *)
THEOREM AcceptedPopsAreVouched == PopSpec => []AcceptedPopIsVouched
<1>1. PopInv => AcceptedPopIsVouched
  <2>1. SUFFICES ASSUME PopInv, NEW t \in AllTokens, NEW a \in VerifyJobs,
                        a.log = "this", VerifyPop(t, a) = "valid"
                 PROVE  t.key \in Vouched /\ t.iss = "this"
    BY DEF AcceptedPopIsVouched
  <2>2. t \in PopToken /\ didlog \in Seq(Entry)
    BY <2>1, PopAssumption DEF AllTokens, PopInv, Logs, SoundLog
  <2>3. t.key \in Key
    BY <2>2 DEF PopToken
  <2>4. CASE t.key[1] = "authorized" /\ t.key[2] \in LatestUpdateKeys
    BY <2>1, <2>2, <2>3, <2>4, ValidMeans, UpdateKeysAuthorise DEF Vouched
  <2>5. ASSUME NEW role \in {"authentication", "assertion"}, t.key = KeyInLog(role)
        PROVE  t.key \in Vouched /\ t.iss = "this"
    <3>1. t.key[1] = role /\ t.key[2] = LastEntry(didlog).doc[role] /\ role # "authorized"
      BY <2>5 DEF KeyInLog
    <3>2. QED BY <2>1, <2>3, <3>1, ValidMeans DEF Vouched
  <2>6. QED BY <2>1, <2>4, <2>5, ValidMeans
<1>2. QED BY <1>1, PopInvariant, PTL

(* pop create and pop verify agree about a key: whoever sees the key that  *)
(* made the token accepts it while it is fresh, however far the clocks are *)
(* apart within the allowance.                                             *)
THEOREM FreshPopsAreAccepted == PopSpec => []FreshPopIsAccepted
<1>1. PopInv => FreshPopIsAccepted
  <2>1. SUFFICES ASSUME PopInv, NEW k \in DOMAIN pops, NEW a \in VerifyJobs,
                        a.jwt = "given", a.nonce \in {NoNonce, pops[k].nonce},
                        pops[k].iat <= VerifierClock(a) + Skew, VerifierClock(a) < pops[k].exp,
                        \/ a.log = "none" /\ pops[k].key[2] = keys[ResolveVersion(0)][pops[k].key[1]]
                        \/ a.log = "this" /\ Verifies(didlog) /\ pops[k].key \in Vouched
                 PROVE  VerifyPop(pops[k], a) = "valid"
    BY DEF FreshPopIsAccepted
  <2> DEFINE t == pops[k]
             context == ResolveContext(t, a)
             role == t.key[1]
  <2>2. /\ t \in PopToken /\ didlog \in Seq(Entry)
        /\ t.shape = "ok" /\ t.alg = AlgOf(t.key) /\ t.kid = KidOf(role, t.key) /\ t.iss = "this"
    BY <2>1 DEF PopInv, OwnToken, Logs, SoundLog
  <2>3. /\ t.key \in Key /\ t.iat \in Nat /\ t.exp \in Nat /\ role \in Roles
        /\ t.key = <<role, t.key[2]>>
    BY <2>2 DEF PopToken, Key
  <2>4. VerifierClock(a) \in Nat /\ Skew \in Nat
    BY <2>1, PopAssumption DEF PopInv, VerifierClock, VerifyJob
  <2>5. CheckClaims(t, a, VerifierClock(a)) = "valid"
    BY <2>1, <2>3, <2>4 DEF CheckClaims, Early
  <2>6. \/ context = Resolved(t.key, TRUE)
        \/ context = Resolved(t.key, FALSE)
    <3>1. CASE role = "authorized"
      <4>1. t.kid[1] = "did:key" /\ t.kid[2] = t.key
        BY <2>2, <3>1 DEF KidOf
      <4>2. CASE a.log = "none"
        BY <3>1, <4>1, <4>2 DEF ResolveContext
      <4>3. CASE a.log = "this"
        <5>1. t.key[2] \in LatestUpdateKeys
          BY <2>1, <2>2, <3>1, <4>3, UpdateKeysAuthorise DEF Vouched
        <5>2. QED BY <2>1, <3>1, <4>1, <4>3, <5>1 DEF ResolveContext, Unloadable
      <4>4. QED BY <2>1, <4>2, <4>3
    <3>2. CASE role # "authorized"
      <4>1. role \in {"authentication", "assertion"}
        BY <2>3, <3>2 DEF Roles
      <4>2. t.kid[1] = "fragment" /\ t.kid[2] = "this" /\ t.kid[3] = role
        BY <2>2, <3>2 DEF KidOf
      <4>3. CASE a.log = "none"
        <5>1. KeyInStore(role) = t.key
          BY <2>1, <2>3, <4>3 DEF KeyInStore
        <5>2. QED BY <4>1, <4>2, <4>3, <5>1 DEF ResolveContext, Unloadable
      <4>4. CASE a.log = "this"
        <5>1. KeyInLog(role) = t.key
          BY <2>1, <2>3, <3>2, <4>4 DEF KeyInLog, Vouched
        <5>2. QED BY <2>1, <4>1, <4>2, <4>4, <5>1 DEF ResolveContext, Unloadable
      <4>5. QED BY <2>1, <4>3, <4>4
    <3>3. QED BY <3>1, <3>2
  <2> HIDE DEF context
  <2>7. CheckToken(t, a, context) = "valid"
    <3>1. context.error = "ok" /\ context.key = t.key
      BY <2>6 DEF Resolved
    <3>2. QED BY <2>2, <2>5, <3>1 DEF CheckToken
  <2>8. t.alg # "none" /\ t.kid # <<"malformed">>
    <3>1. t.alg # "none"
      BY <2>2 DEF AlgOf
    <3>2. t.kid[1] \in {"did:key", "fragment"}
      BY <2>2 DEF KidOf
    <3>3. <<"malformed">>[1] = "malformed"
      OBVIOUS
    <3>4. QED BY <3>1, <3>2, <3>3
  <2>9. QED BY <2>1, <2>2, <2>7, <2>8 DEF VerifyPop, context
<1>2. QED BY <1>1, PopInvariant, PTL

-----------------------------------------------------------------------------
(* What `key versions` tells.                                              *)

(* A key that differs between two snapshots was replaced at a version      *)
(* after the first: right after the last one that still has the old key.   *)
LEMMA ReplacedAtAVersion ==
  ASSUME NEW n \in Nat, StoreNumbered(n), NEW a \in 1 .. n, NEW b \in 1 .. n, a <= b,
         NEW r \in Roles, keys[a][r] # keys[b][r]
  PROVE  \E v \in a + 1 .. b : r \in ChangedRoles(v)
<1> DEFINE same == {v \in a .. b : keys[v][r] = keys[a][r]}
           left == {b - v : v \in same}
<1>1. a \in same /\ b \notin same
  OBVIOUS
<1>2. left \subseteq Nat /\ left # {}
  <2>1. \A v \in same : b - v \in Nat
    OBVIOUS
  <2>2. QED BY <1>1, <2>1
<1>3. PICK x \in left : \A y \in left : ~(<<y, x>> \in OpToRel(<, Nat))
  BY <1>2, NatLessThanWellFounded, WFMin, Zenon
<1>4. \A y \in left : ~(y < x)
  BY <1>2, <1>3 DEF OpToRel
<1>5. PICK v \in same : x = b - v
  OBVIOUS
<1>6. v \in a .. b /\ v < b /\ v + 1 \in a + 1 .. b /\ keys[v][r] = keys[a][r]
  BY <1>1
<1>7. v + 1 \notin same
  <2>1. ASSUME v + 1 \in same PROVE FALSE
    <3>1. b - (v + 1) \in left /\ b - (v + 1) < b - v
      BY <1>6, <2>1
    <3>2. QED BY <1>4, <1>5, <3>1
  <2>2. QED BY <2>1
<1>8. keys[v + 1][r] # keys[v][r] /\ v + 1 # 1 /\ (v + 1) - 1 = v
  BY <1>6, <1>7
<1>9. r \in ChangedRoles(v + 1)
  BY <1>8 DEF ChangedRoles
<1>10. QED BY <1>6, <1>9

(* Whatever uploads fail and whichever copy comes back, the versions       *)
(* account for every key that a log replaces.                              *)
THEOREM LogsAreExplained == PopSpec => []VersionsExplainTheLog
<1>1. PopInv => VersionsExplainTheLog
  <2>1. SUFFICES ASSUME PopInv, NEW log \in {didlog} \cup copies
                 PROVE  \E at \in [DOMAIN log -> DOMAIN keys] :
                          /\ PlacedAt(log, at)
                          /\ \A i, j \in DOMAIN log : i < j =>
                               Replaced(log, i, j) \subseteq
                                 UNION {ChangedRoles(v) : v \in at[i] + 1 .. at[j]}
    BY DEF VersionsExplainTheLog
  <2>2. PICK n \in Nat : StoreNumbered(n)
    BY <2>1 DEF PopInv
  <2>3. DOMAIN keys = 1 .. n
    BY <2>2, LatestIsLast
  <2>4. PICK at \in [DOMAIN log -> DOMAIN keys] : PlacedBy(keys, log, at)
    BY <2>1 DEF PopInv, Logs, SoundLog, PlacedIn
  <2>5. PlacedAt(log, at)
    BY <2>4 DEF PlacedAt, PlacedBy
  <2>6. ASSUME NEW i \in DOMAIN log, NEW j \in DOMAIN log, i < j, NEW r \in Replaced(log, i, j)
        PROVE  r \in UNION {ChangedRoles(v) : v \in at[i] + 1 .. at[j]}
    <3>1. at[i] \in 1 .. n /\ at[j] \in 1 .. n /\ at[i] <= at[j]
      BY <2>3, <2>4, <2>6 DEF PlacedBy
    <3>2. r \in Roles /\ keys[at[i]][r] # keys[at[j]][r]
      BY <2>4, <2>6 DEF Replaced, PlacedBy
    <3>3. \E v \in at[i] + 1 .. at[j] : r \in ChangedRoles(v)
      BY <2>2, <3>1, <3>2, ReplacedAtAVersion
    <3>4. QED BY <3>3
  <2>7. QED BY <2>5, <2>6
<1>2. QED BY <1>1, PopInvariant, PTL
=============================================================================
