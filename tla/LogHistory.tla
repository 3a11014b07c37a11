----------------------------- MODULE LogHistory -----------------------------
(***************************************************************************)
(* What rotate and deactivate promise together, whoever runs them and      *)
(* whatever fails: the DID logs in existence are a growing tree of which   *)
(* branches may be forgotten.  A new log is an existing log that verifies  *)
(* with one chained entry appended; that entry may be wrongly signed (the  *)
(* key store need not agree with the log), but then nothing grows from it. *)
(***************************************************************************)
EXTENDS DidLog

VARIABLE logs

Init == logs = {GenesisLog}

Front(log) == SubSeq(log, 1, Len(log) - 1)

(* A deactivation leaves no key, and is not appended to a deactivation.    *)
GrownFrom(base, log) ==
  /\ Verifies(base)
  /\ ChainedAt(log, Len(log))
  /\ LastEntry(log).deactivated =>
       /\ LastEntry(log).announces
       /\ LastEntry(log).updateKeys = {}
       /\ ~LastEntry(base).deactivated

Next ==
  \A log \in logs' \ logs :
    /\ log \in Seq(Entry)
    /\ Len(log) > 1
    /\ Front(log) \in logs
    /\ GrownFrom(Front(log), log)

Spec == Init /\ [][Next]_logs

-----------------------------------------------------------------------------
(* A deactivation announces the empty set of update keys.                  *)
DeactivationLeavesNoKey(log) ==
  \A i \in 1 .. Len(log) :
    log[i].deactivated => log[i].announces /\ log[i].updateKeys = {}

(* Every log is in order but for the signer of its last entry, and holds   *)
(* at most one deactivation, with at most one entry after it.              *)
Sound(log) ==
  /\ log \in Seq(Entry)
  /\ VerifiesButLast(log)
  /\ DeactivationLeavesNoKey(log)
  /\ DeactivatedOnce(log)

AllSound == \A log \in logs : Sound(log)
=============================================================================
