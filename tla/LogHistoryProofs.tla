-------------------------- MODULE LogHistoryProofs --------------------------
(***************************************************************************)
(* The logs of LogHistory are sound: the lemmas are about what verify_log  *)
(* says of a log and of the same log with one entry more.                  *)
(***************************************************************************)
EXTENDS LogHistory, TLAPS

(* A log without its newest line is a log, and has the same lines.         *)
LEMMA FrontIsLog ==
  ASSUME NEW log \in Seq(Entry), Len(log) > 1
  PROVE  /\ Front(log) \in Seq(Entry)
         /\ Len(Front(log)) = Len(log) - 1
         /\ Front(log) # << >>
         /\ \A i \in 1 .. Len(log) - 1 : Front(log)[i] = log[i]
<1>1. Len(log) \in Nat OBVIOUS
<1>2. Front(log) \in Seq(Entry) /\ Len(Front(log)) = Len(log) - 1
  BY <1>1 DEF Front
<1>3. \A i \in 1 .. Len(log) - 1 : Front(log)[i] = log[i]
  BY <1>1 DEF Front
<1>4. QED BY <1>1, <1>2, <1>3

(* The keys carried forward to an entry depend on the entries before it    *)
(* only, so verify_log judges an entry the same in every log it starts.    *)
LEMMA FrontAgrees ==
  ASSUME NEW log \in Seq(Entry), Len(log) > 1,
         NEW i \in 1 .. Len(log) - 1
  PROVE  /\ ChainedAt(Front(log), i) <=> ChainedAt(log, i)
         /\ AuthorisedAt(Front(log), i) <=> AuthorisedAt(log, i)
<1>1. /\ Len(log) \in Nat
      /\ \A j \in 1 .. Len(log) - 1 : Front(log)[j] = log[j]
  BY FrontIsLog
<1>2. ChainedAt(Front(log), i) <=> ChainedAt(log, i)
  BY <1>1 DEF ChainedAt
<1>3. \A k : i > 1 => (Authorised(Front(log), i - 1, k) <=> Authorised(log, i - 1, k))
  <2>1. SUFFICES ASSUME NEW k, i > 1
                 PROVE  Authorised(Front(log), i - 1, k) <=> Authorised(log, i - 1, k)
    OBVIOUS
  <2>2. \A j \in 1 .. i - 1 : Front(log)[j] = log[j]
    BY <1>1
  <2>3. \A j \in 1 .. i - 1 : \A m \in (j + 1) .. (i - 1) : Front(log)[m] = log[m]
    BY <1>1
  <2>4. QED BY <2>2, <2>3 DEF Authorised
<1>4. AuthorisedAt(Front(log), i) <=> AuthorisedAt(log, i)
  <2>1. CASE i = 1 BY <2>1, <1>1 DEF AuthorisedAt
  <2>2. CASE i > 1 BY <2>2, <1>1, <1>3 DEF AuthorisedAt
  <2>3. QED BY <2>1, <2>2
<1>5. QED BY <1>2, <1>4

(* In a log that verifies, a deactivation can only be the last entry: no   *)
(* key is left to sign another one.                                        *)
LEMMA NothingFollowsDeactivation ==
  ASSUME NEW log \in Seq(Entry), Verifies(log), DeactivationLeavesNoKey(log),
         NEW i \in 1 .. Len(log), log[i].deactivated
  PROVE  i = Len(log)
<1>1. SUFFICES ASSUME i < Len(log) PROVE FALSE
  OBVIOUS
<1>2. Len(log) \in Nat /\ i + 1 \in 1 .. Len(log) /\ i + 1 # 1 /\ (i + 1) - 1 = i
  BY <1>1
<1>3. Authorised(log, i, log[i + 1].signer)
  <2>1. AuthorisedAt(log, i + 1)
    BY <1>2 DEF Verifies
  <2>2. QED BY <1>2, <2>1 DEF AuthorisedAt
<1>4. PICK j \in 1 .. i : /\ log[j].announces
                          /\ log[i + 1].signer \in log[j].updateKeys
                          /\ \A m \in (j + 1) .. i : ~log[m].announces
  BY <1>3 DEF Authorised
<1>5. log[i].announces /\ log[i].updateKeys = {}
  BY DEF DeactivationLeavesNoKey
<1>6. j = i
  BY <1>4, <1>5
<1>7. QED BY <1>4, <1>5, <1>6

(* One entry on top of a sound log that verifies gives a sound log.        *)
LEMMA GrowthIsSound ==
  ASSUME NEW log \in Seq(Entry), Len(log) > 1,
         Sound(Front(log)), GrownFrom(Front(log), log)
  PROVE  Sound(log)
<1> DEFINE base == Front(log)
<1>1. /\ Len(log) \in Nat
      /\ base \in Seq(Entry)
      /\ Len(base) = Len(log) - 1
      /\ \A i \in 1 .. Len(log) - 1 : base[i] = log[i]
  BY FrontIsLog
<1>2. /\ Verifies(base)
      /\ DeactivationLeavesNoKey(base)
      /\ DeactivatedOnce(base)
      /\ ChainedAt(log, Len(log))
  BY DEF Sound, GrownFrom
<1>3. VerifiesButLast(log)
  <2>1. \A i \in 1 .. Len(log) - 1 : ChainedAt(log, i) /\ AuthorisedAt(log, i)
    <3>1. TAKE i \in 1 .. Len(log) - 1
    <3>2. ChainedAt(base, i) /\ AuthorisedAt(base, i)
      BY <1>1, <1>2 DEF Verifies
    <3>3. QED BY <3>2, FrontAgrees
  <2>2. QED BY <1>1, <1>2, <2>1 DEF VerifiesButLast
<1>4. DeactivationLeavesNoKey(log)
  <2>1. \A i \in 1 .. Len(log) - 1 :
          log[i].deactivated => log[i].announces /\ log[i].updateKeys = {}
    BY <1>1, <1>2 DEF DeactivationLeavesNoKey
  <2>2. log[Len(log)].deactivated =>
          log[Len(log)].announces /\ log[Len(log)].updateKeys = {}
    BY DEF GrownFrom, LastEntry
  <2>3. QED BY <1>1, <2>1, <2>2 DEF DeactivationLeavesNoKey
<1>5. \A i \in 1 .. Len(log) - 1 : log[i].deactivated => i = Len(log) - 1
  BY <1>1, <1>2, NothingFollowsDeactivation
<1>6. log[Len(log)].deactivated => \A i \in 1 .. Len(log) - 1 : ~log[i].deactivated
  <2>1. SUFFICES ASSUME log[Len(log)].deactivated
                 PROVE  \A i \in 1 .. Len(log) - 1 : ~log[i].deactivated
    OBVIOUS
  <2>2. ~base[Len(base)].deactivated
    BY <2>1 DEF GrownFrom, LastEntry
  <2>3. QED BY <1>1, <1>5, <2>2
<1>7. DeactivatedOnce(log)
  BY <1>1, <1>5, <1>6 DEF DeactivatedOnce
<1>8. QED BY <1>3, <1>4, <1>7 DEF Sound

(* The log that `did create` writes is sound.                              *)
LEMMA GenesisIsSound == Sound(GenesisLog)
<1>1. GenesisLog \in Seq(Entry) /\ Len(GenesisLog) = 1 /\ GenesisLog # << >>
  BY DEF GenesisLog, Entry, Doc, Scid
<1>2. ChainedAt(GenesisLog, 1) /\ ~GenesisLog[1].deactivated
  BY DEF GenesisLog, ChainedAt
<1>3. QED
  BY <1>1, <1>2 DEF Sound, VerifiesButLast, DeactivationLeavesNoKey, DeactivatedOnce

(* Whatever is appended, lost or forgotten, every log in existence is sound*)
THEOREM HistoryIsSound == Spec => []AllSound
<1>1. Init => AllSound
  BY GenesisIsSound DEF Init, AllSound
<1>2. AllSound /\ [Next]_logs => AllSound'
  <2> SUFFICES ASSUME AllSound, [Next]_logs, NEW log \in logs'
               PROVE  Sound(log)
    BY DEF AllSound
  <2>1. CASE log \in logs
    BY <2>1 DEF AllSound
  <2>2. CASE log \notin logs
    <3>1. Next
      BY <2>2
    <3>2. /\ log \in Seq(Entry) /\ Len(log) > 1
          /\ Front(log) \in logs /\ GrownFrom(Front(log), log)
      BY <2>2, <3>1 DEF Next
    <3>3. QED BY <3>2, GrowthIsSound DEF AllSound
  <2>3. QED BY <2>1, <2>2
<1>3. QED BY <1>1, <1>2, PTL DEF Spec
=============================================================================
