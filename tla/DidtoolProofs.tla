---------------------------- MODULE DidtoolProofs ----------------------------
(***************************************************************************)
(* Theorems about Didtool, for every number of invocations running at once,*)
(* every set of command lines and every fault.  The inductive invariant is *)
(* IInv: the types of Sign need the log it extends to be non-empty and the *)
(* snapshot it reads to be there, which earlier steps have established.    *)
(***************************************************************************)
EXTENDS Didtool, TLAPS

HistoryProofs == INSTANCE LogHistoryProofs WITH logs <- Held

USE DEF NoKey, NoInode

(* What the commands append is an entry.                                   *)
LEMMA NewEntryTypes ==
  ASSUME NEW log \in Seq(Entry), log # << >>,
         NEW h \in Nat, NEW signer \in Nat, NEW keys \in [Roles -> Nat]
  PROVE  /\ RotationEntry(log, h, signer, keys) \in Entry
         /\ DeactivationEntry(log, h, signer) \in Entry
<1>1. LastEntry(log) \in Entry /\ Len(log) + 1 \in Nat
  BY DEF LastEntry
<1>2. {keys["authorized"]} \in SUBSET Nat /\ {} \in SUBSET Nat
      /\ keys["authentication"] \in Nat /\ keys["assertion"] \in Nat
  BY DEF Roles
<1>3. RotationEntry(log, h, signer, keys) \in Entry
  BY <1>1, <1>2 DEF RotationEntry, Entry, Doc
<1>4. DeactivationEntry(log, h, signer) \in Entry
  BY <1>1, <1>2 DEF DeactivationEntry, Entry
<1>5. QED BY <1>3, <1>4

(* The log that did create leaves behind is a log of one entry.            *)
LEMMA GenesisType == GenesisLog \in Seq(Entry) /\ GenesisLog # << >>
BY DEF GenesisLog, Entry, Doc, Scid

(* create_dir_all keeps a key store a key store and every snapshot in it.  *)
LEMMA CreateVersionTypes ==
  ASSUME NEW ks, IsKeyStore(ks), NEW v \in Nat
  PROVE  /\ IsKeyStore(CreateVersion(ks, v))
         /\ DOMAIN ks \subseteq DOMAIN CreateVersion(ks, v)
<1>1. EmptySnapshot \in Snapshot
  BY DEF EmptySnapshot, Snapshot
<1>2. QED BY <1>1 DEF IsKeyStore, CreateVersion

(* Writing a key file adds no snapshot and removes none.                   *)
LEMMA WriteKeyTypes ==
  ASSUME NEW ks, IsKeyStore(ks), NEW v, NEW r \in Roles, NEW k \in Nat
  PROVE  /\ IsKeyStore(WriteKey(ks, v, r, k))
         /\ DOMAIN WriteKey(ks, v, r, k) = DOMAIN ks
BY DEF IsKeyStore, WriteKey, Snapshot

(* What did create leaves behind is a file, a registry and a key store     *)
(* that agree in their types, and no command is under way.                 *)
LEMMA InitEstablishes == Init => IInv
<1> SUFFICES ASSUME Init PROVE IInv
  OBVIOUS
<1>1. FirstInode \in Inodes /\ (CHOOSE j \in Jobs : TRUE) \in Jobs
  BY FilesAssumption, JobsAssumption DEF FirstInode
<1>2. InitialKeyStore \in [{1} -> Snapshot]
  BY DEF InitialKeyStore, Snapshot
<1>3. IsKeyStore(keystore)
  BY <1>2 DEF Init, IsKeyStore, InitialKeyStore
<1>4. NoKeys \in Snapshot
  BY DEF NoKeys, EmptySnapshot, Snapshot
<1>5. << >> \in Seq(Entry)
  OBVIOUS
<1>6. TypeOK
  <2>1. dir \in [Names -> Inodes \cup {NoInode}] /\ data \in [Inodes -> Seq(Entry)]
    BY <1>1, <1>5, GenesisType DEF Init
  <2>2. /\ registry \in Seq(Entry) /\ \A log \in delayed : log \in Seq(Entry)
        /\ loaded \in [Procs -> Seq(Entry)] /\ updated \in [Procs -> Seq(Entry)]
    BY <1>5, GenesisType DEF Init
  <2>3. /\ pc \in [Procs -> Steps] /\ outcome \in [Procs -> Outcomes]
        /\ job \in [Procs -> Jobs]
    BY <1>1 DEF Init, Steps, Outcomes
  <2>4. /\ version \in [Procs -> Nat] /\ staged \in [Procs -> Snapshot]
        /\ path \in [Procs -> Names \cup {NoName}]
        /\ fd \in [Procs -> Inodes \cup {NoInode}]
        /\ serial \in Nat \ {0} /\ runs \in Nat
    BY <1>4 DEF Init
  <2>5. QED BY <1>3, <2>1, <2>2, <2>3, <2>4 DEF TypeOK
<1>7. LoadedUsable /\ SnapshotPresent /\ PathNamed
  BY DEF Init, LoadedUsable, SnapshotPresent, PathNamed
<1>8. QED BY <1>6, <1>7 DEF IInv

(* Ending a command, or going on after the log or the keys are written,    *)
(* leaves the program counters well typed and outside load and sign.       *)
LEMMA Continuations ==
  ASSUME TypeOK, NEW p \in Procs
  PROVE  /\ \A how \in Outcomes : Stop(p, how) =>
              /\ pc' = [pc EXCEPT ![p] = "idle"]
              /\ pc' \in [Procs -> Steps] /\ outcome' \in [Procs -> Outcomes]
         /\ \A step \in Steps : Goto(p, step) => pc' \in [Procs -> Steps]
         /\ AfterCommit(p) \/ AfterWrite(p) =>
              /\ \E step \in {"idle", "commit", "publish"} : pc' = [pc EXCEPT ![p] = step]
              /\ pc' \in [Procs -> Steps] /\ outcome' \in [Procs -> Outcomes]
<1>1. pc \in [Procs -> Steps] /\ outcome \in [Procs -> Outcomes]
  BY DEF TypeOK
<1>2. \A how \in Outcomes : Stop(p, how) =>
        /\ pc' = [pc EXCEPT ![p] = "idle"]
        /\ pc' \in [Procs -> Steps] /\ outcome' \in [Procs -> Outcomes]
  BY <1>1 DEF Stop, Goto, Steps
<1>3. \A step \in Steps : Goto(p, step) => pc' \in [Procs -> Steps]
  BY <1>1 DEF Goto
<1>4. AfterCommit(p) =>
        /\ \E step \in {"idle", "commit", "publish"} : pc' = [pc EXCEPT ![p] = step]
        /\ pc' \in [Procs -> Steps] /\ outcome' \in [Procs -> Outcomes]
  BY <1>1 DEF AfterCommit, Stop, Goto, Steps, Outcomes
<1>5. AfterWrite(p) =>
        /\ \E step \in {"idle", "commit", "publish"} : pc' = [pc EXCEPT ![p] = step]
        /\ pc' \in [Procs -> Steps] /\ outcome' \in [Procs -> Outcomes]
  BY <1>1, <1>4 DEF AfterWrite, Goto, Steps
<1>6. QED BY <1>2, <1>3, <1>4, <1>5

(* Checking the arguments forgets the previous invocation of the process.  *)
LEMMA StartPreserves ==
  ASSUME IInv, NEW p \in Procs, NEW j \in Jobs, Start(p, j)
  PROVE  IInv'
<1> USE DEF IInv
<1>1. << >> \in Seq(Entry) /\ NoKeys \in Snapshot
  BY DEF NoKeys, EmptySnapshot, Snapshot
<1>2. /\ pc' \in [Procs -> Steps] /\ outcome' \in [Procs -> Outcomes]
      /\ \E step \in {"idle", "load"} : pc' = [pc EXCEPT ![p] = step]
  BY DEF Start, Stop, Goto, TypeOK, Steps, Outcomes
<1>3. TypeOK'
  BY <1>1, <1>2 DEF Start, TypeOK, files, net
<1>4. LoadedUsable' /\ SnapshotPresent' /\ PathNamed'
  BY <1>2 DEF Start, TypeOK, LoadedUsable, SnapshotPresent, PathNamed, files
<1>5. QED BY <1>3, <1>4

(* load_log hands on a log that verify_log accepted, hence a non-empty     *)
(* one, or ends the command.                                               *)
LEMMA LoadPreserves ==
  ASSUME IInv, NEW p \in Procs, Load(p)
  PROVE  IInv'
<1> USE DEF IInv
<1> DEFINE log == IF job[p].did THEN registry ELSE Content(InputFile)
<1>1. log \in Seq(Entry)
  <2>1. << >> \in Seq(Entry) OBVIOUS
  <2>2. Content(InputFile) \in Seq(Entry)
    BY <2>1, FilesAssumption DEF Content, TypeOK
  <2>3. QED BY <2>2 DEF TypeOK
<1>2. \/ /\ Usable(job[p], log) /\ pc' = [pc EXCEPT ![p] = "version"]
         /\ loaded' = [loaded EXCEPT ![p] = log] /\ outcome' = outcome
      \/ Stop(p, "load_failed") /\ loaded' = loaded
  BY DEF Load, Goto
<1>3. pc' \in [Procs -> Steps] /\ outcome' \in [Procs -> Outcomes]
  BY <1>2 DEF Stop, Goto, TypeOK, Steps, Outcomes
<1>4. TypeOK'
  <2>1. loaded' \in [Procs -> Seq(Entry)]
    <3> HIDE DEF log
    <3>1. loaded \in [Procs -> Seq(Entry)]
      BY DEF TypeOK
    <3>2. QED BY <1>1, <1>2, <3>1
  <2>2. QED BY <1>3, <2>1 DEF Load, TypeOK, files, net, counts
<1>5. LoadedUsable'
  BY <1>2 DEF Load, TypeOK, LoadedUsable, Stop, Goto
<1>6. SnapshotPresent' /\ PathNamed'
  BY <1>2 DEF Load, TypeOK, SnapshotPresent, PathNamed, Stop, Goto
<1>7. QED BY <1>4, <1>5, <1>6

(* latest_version is a snapshot that exists: the command ends when there   *)
(* is none.                                                                *)
LEMMA FindVersionPreserves ==
  ASSUME IInv, NEW p \in Procs, FindVersion(p)
  PROVE  IInv'
<1> USE DEF IInv
<1>1. PICK v \in Visible(keystore) : version' = [version EXCEPT ![p] = v]
  BY DEF FindVersion
<1>2. v \in DOMAIN keystore /\ v \in Nat
  BY <1>1 DEF Visible, TypeOK, IsKeyStore
<1>3. TypeOK'
  <2>1. pc' \in [Procs -> Steps] /\ version' \in [Procs -> Nat]
    BY <1>1, <1>2 DEF FindVersion, TypeOK, Goto, Steps
  <2>2. QED BY <2>1 DEF FindVersion, TypeOK, files, net, counts
<1>4. LoadedUsable' /\ SnapshotPresent' /\ PathNamed'
  BY <1>1, <1>2 DEF FindVersion, TypeOK, Goto, LoadedUsable, SnapshotPresent, PathNamed
<1>5. QED BY <1>3, <1>4

(* The one step that makes a log: an entry of the right type is appended   *)
(* to the verified log that the process holds.                             *)
LEMMA SignMakesEntry ==
  ASSUME IInv, NEW p \in Procs, Sign(p), updated' # updated
  PROVE  /\ pc[p] = "sign" /\ Usable(job[p], loaded[p])
         /\ \E e \in Entry :
              /\ updated' = [updated EXCEPT ![p] = Append(loaded[p], e)]
              /\ \/ \E k \in [Roles -> Nat] :
                      e = RotationEntry(loaded[p], serial + 1,
                                        keystore[version[p]]["authorized"], k)
                 \/ /\ job[p].cmd # "rotate"
                    /\ e = DeactivationEntry(loaded[p], serial + 1,
                                             keystore[version[p]]["authorized"])
<1> DEFINE signer == keystore[version[p]]["authorized"]
<1>1. pc[p] = "sign"
  BY DEF Sign
<1>2. Usable(job[p], loaded[p]) /\ version[p] \in DOMAIN keystore
  BY <1>1 DEF IInv, LoadedUsable, SnapshotPresent
<1>3. signer \in Nat
  BY <1>2 DEF IInv, TypeOK, IsKeyStore, Snapshot, Roles
<1>4. loaded[p] \in Seq(Entry) /\ loaded[p] # << >> /\ serial + 1 \in Nat
  BY <1>2 DEF IInv, TypeOK, Usable, Verifies
<1>5. CASE job[p].cmd = "rotate"
  <2>1. PICK s \in StagedChoices(job[p], keystore[version[p]]) :
          updated' = [updated EXCEPT ![p] =
            Append(loaded[p], RotationEntry(loaded[p], serial + 1, signer, s))]
    BY <1>5 DEF Sign
  <2>2. s \in [Roles -> Nat]
    BY <1>4 DEF StagedChoices
  <2>3. RotationEntry(loaded[p], serial + 1, signer, s) \in Entry
    BY <1>3, <1>4, <2>2, NewEntryTypes
  <2>4. QED BY <1>1, <1>2, <2>1, <2>2, <2>3
<1>6. CASE job[p].cmd # "rotate"
  <2>1. updated' = [updated EXCEPT ![p] =
            Append(loaded[p], DeactivationEntry(loaded[p], serial + 1, signer))]
    BY <1>6 DEF Sign
  <2>2. [r \in Roles |-> 0] \in [Roles -> Nat]
    OBVIOUS
  <2>3. DeactivationEntry(loaded[p], serial + 1, signer) \in Entry
    BY <1>3, <1>4, <2>2, NewEntryTypes
  <2>4. QED BY <1>1, <1>2, <1>6, <2>1, <2>3
<1>7. QED BY <1>5, <1>6

(* The entry that is signed has the types of an entry, for the log it      *)
(* extends is not empty (LoadedUsable) and the keys are read from a        *)
(* snapshot that is there (SnapshotPresent).                               *)
LEMMA SignPreserves ==
  ASSUME IInv, NEW p \in Procs, Sign(p)
  PROVE  IInv'
<1> USE DEF IInv
<1>1. /\ pc' \in [Procs -> Steps] /\ outcome' \in [Procs -> Outcomes]
      /\ \E step \in {"idle", "write"} : pc' = [pc EXCEPT ![p] = step]
  BY DEF Sign, Stop, Goto, TypeOK, Steps, Outcomes
<1>2. staged' \in [Procs -> Snapshot] /\ serial' \in Nat \ {0}
  <2>1. \A s \in StagedChoices(job[p], keystore[version[p]]) : s \in Snapshot
    BY DEF StagedChoices, Snapshot, TypeOK
  <2>2. staged' = staged \/ \E s \in Snapshot : staged' = [staged EXCEPT ![p] = s]
    BY <2>1 DEF Sign
  <2>3. serial' = serial \/ serial' = serial + 1
    BY DEF Sign
  <2>4. staged \in [Procs -> Snapshot] /\ serial \in Nat \ {0}
    BY DEF TypeOK
  <2>5. staged' \in [Procs -> Snapshot]
    BY <2>2, <2>4
  <2>6. serial' \in Nat \ {0}
    BY <2>3, <2>4
  <2>7. QED BY <2>5, <2>6
<1>3. updated' \in [Procs -> Seq(Entry)]
  <2>1. CASE updated' = updated
    BY <2>1 DEF TypeOK
  <2>2. CASE updated' # updated
    <3>1. PICK e \in Entry : updated' = [updated EXCEPT ![p] = Append(loaded[p], e)]
      BY <2>2, SignMakesEntry
    <3>2. loaded[p] \in Seq(Entry) /\ updated \in [Procs -> Seq(Entry)]
      BY DEF TypeOK
    <3>3. Append(loaded[p], e) \in Seq(Entry)
      BY <3>2
    <3>4. QED BY <3>1, <3>2, <3>3
  <2>3. QED BY <2>1, <2>2
<1>4. TypeOK'
  BY <1>1, <1>2, <1>3 DEF Sign, TypeOK, files, net
<1>5. LoadedUsable' /\ SnapshotPresent' /\ PathNamed'
  BY <1>1 DEF Sign, TypeOK, LoadedUsable, SnapshotPresent, PathNamed
<1>6. QED BY <1>4, <1>5

(* The steps after Sign leave the read log, the keys that were chosen and  *)
(* the entry alone, and never lead back to load or sign.                   *)
LEMMA Elsewhere ==
  ASSUME IInv, NEW p \in Procs, NEW step \in Steps \ {"version", "sign", "open"},
         pc' = [pc EXCEPT ![p] = step], UNCHANGED <<job, loaded, version, path>>,
         DOMAIN keystore \subseteq DOMAIN keystore'
  PROVE  LoadedUsable' /\ SnapshotPresent' /\ PathNamed'
BY DEF IInv, TypeOK, LoadedUsable, SnapshotPresent, PathNamed

(* write_log chooses a name to write to, or ends where a file must not be  *)
(* replaced.                                                               *)
LEMMA WriteLogPreserves ==
  ASSUME IInv, NEW p \in Procs, WriteLog(p)
  PROVE  IInv'
<1> USE DEF IInv
<1>1. job[p].out \in Names \cup {NoName}
  BY JobsAssumption DEF TypeOK, Job
<1>2. \/ /\ \E step \in {"idle", "commit", "publish"} : pc' = [pc EXCEPT ![p] = step]
         /\ pc' \in [Procs -> Steps] /\ outcome' \in [Procs -> Outcomes]
         /\ path' = path
      \/ /\ pc' = [pc EXCEPT ![p] = "open"]
         /\ pc' \in [Procs -> Steps] /\ outcome' = outcome
         /\ \E n \in Names : path' = [path EXCEPT ![p] = n]
  <2>1. "file_exists" \in Outcomes /\ "open" \in Steps
    BY DEF Outcomes, Steps
  <2>2. TempPath \in Names
    BY FilesAssumption DEF TempPath
  <2>3. QED BY <1>1, <2>1, <2>2, Continuations DEF WriteLog, Goto
<1>3. path' \in [Procs -> Names \cup {NoName}] /\ outcome' \in [Procs -> Outcomes]
      /\ pc' \in [Procs -> Steps]
  BY <1>2 DEF TypeOK
<1>4. TypeOK'
  BY <1>3 DEF WriteLog, TypeOK, files, net, counts
<1>5. LoadedUsable' /\ SnapshotPresent' /\ PathNamed'
  BY <1>2 DEF WriteLog, TypeOK, LoadedUsable, SnapshotPresent, PathNamed
<1>6. QED BY <1>4, <1>5

(* fs::write binds the name it was given (PathNamed) to an inode.          *)
LEMMA OpenPreserves ==
  ASSUME IInv, NEW p \in Procs, Open(p)
  PROVE  /\ IInv'
         /\ \E i \in Inodes : data' = [data EXCEPT ![i] = << >>]
<1> USE DEF IInv
<1>1. path[p] \in Names
  BY DEF Open, PathNamed
<1>2. PICK i \in Inodes : /\ dir' = [dir EXCEPT ![path[p]] = i]
                          /\ data' = [data EXCEPT ![i] = << >>]
                          /\ fd' = [fd EXCEPT ![p] = i]
  <2>1. CASE dir[path[p]] # NoInode
    BY <1>1, <2>1 DEF Open, TypeOK
  <2>2. CASE dir[path[p]] = NoInode
    <3> DEFINE free == Inodes \ InodesInUse
               k == CHOOSE k \in free : TRUE
    <3>1. k \in free
      BY <2>2 DEF Open
    <3>2. QED BY <2>2, <3>1 DEF Open
  <2>3. QED BY <2>1, <2>2
<1>3. /\ pc' = [pc EXCEPT ![p] = "fill"]
      /\ UNCHANGED <<keystore, registry, delayed, job, loaded, version, staged,
                     updated, path, outcome, serial, runs>>
  BY DEF Open, Goto, net, memory, counts
<1>4. TypeOK'
  <2>1. << >> \in Seq(Entry) OBVIOUS
  <2>2. data' \in [Inodes -> Seq(Entry)] /\ dir' \in [Names -> Inodes \cup {NoInode}]
        /\ fd' \in [Procs -> Inodes \cup {NoInode}]
    BY <1>1, <1>2, <2>1 DEF TypeOK
  <2>3. pc' \in [Procs -> Steps]
    BY <1>3 DEF TypeOK, Steps
  <2>4. QED BY <1>3, <2>2, <2>3 DEF TypeOK
<1>5. LoadedUsable' /\ SnapshotPresent' /\ PathNamed'
  BY <1>3, Elsewhere DEF Steps
<1>6. QED BY <1>2, <1>4, <1>5

(* What is filled into the open file is the updated log, or what is no log *)
(* where two processes fill one inode.                                     *)
LEMMA FillPreserves ==
  ASSUME IInv, NEW p \in Procs, Fill(p)
  PROVE  IInv'
<1> USE DEF IInv
<1>1. /\ UNCHANGED <<dir, keystore, registry, delayed, job, loaded, version, staged,
                     updated, path, serial, runs>>
      /\ fd' = [fd EXCEPT ![p] = NoInode]
      /\ \/ data' = [data EXCEPT ![fd[p]] = updated[p]]
         \/ data' = [data EXCEPT ![fd[p]] = << >>]
  BY DEF Fill, net, memory, counts
<1>2. /\ \E step \in Steps \ {"version", "sign", "open"} : pc' = [pc EXCEPT ![p] = step]
      /\ pc' \in [Procs -> Steps] /\ outcome' \in [Procs -> Outcomes]
  <2>1. {"idle", "commit", "publish", "rename"} \subseteq Steps \ {"version", "sign", "open"}
        /\ "salvaged" \in Outcomes
    BY DEF Steps, Outcomes
  <2>2. outcome \in [Procs -> Outcomes]
    BY DEF TypeOK
  <2>3. CASE AfterWrite(p)
    BY <2>1, <2>3, Continuations
  <2>4. CASE Goto(p, "rename") /\ UNCHANGED outcome
    BY <2>1, <2>2, <2>4, Continuations DEF Goto
  <2>5. CASE Stop(p, "salvaged")
    BY <2>1, <2>5, Continuations
  <2>6. QED BY <2>3, <2>4, <2>5 DEF Fill
<1>3. TypeOK'
  <2>1. << >> \in Seq(Entry) OBVIOUS
  <2>2. data' \in [Inodes -> Seq(Entry)]
    BY <1>1, <2>1 DEF TypeOK
  <2>3. fd' \in [Procs -> Inodes \cup {NoInode}]
    BY <1>1 DEF TypeOK
  <2>4. QED BY <1>1, <1>2, <2>2, <2>3 DEF TypeOK
<1>4. LoadedUsable' /\ SnapshotPresent' /\ PathNamed'
  BY <1>1, <1>2, Elsewhere
<1>5. QED BY <1>3, <1>4

(* A rename moves an inode that is there, or ends the command.             *)
LEMMA RenamePreserves ==
  ASSUME IInv, NEW p \in Procs, Rename(p)
  PROVE  IInv'
<1> USE DEF IInv
<1>1. UNCHANGED <<data, keystore, registry, delayed, job, loaded, version, staged,
                  updated, path, fd, serial, runs>>
  BY DEF Rename, net, memory, counts
<1>2. /\ \E step \in Steps \ {"version", "sign", "open"} : pc' = [pc EXCEPT ![p] = step]
      /\ pc' \in [Procs -> Steps] /\ outcome' \in [Procs -> Outcomes]
  <2>1. {"idle", "commit", "publish"} \subseteq Steps \ {"version", "sign", "open"}
        /\ "write_failed" \in Outcomes
    BY DEF Steps, Outcomes
  <2>2. CASE AfterWrite(p)
    BY <2>1, <2>2, Continuations
  <2>3. CASE Stop(p, "write_failed")
    BY <2>1, <2>3, Continuations
  <2>4. QED BY <2>2, <2>3 DEF Rename
<1>3. dir' \in [Names -> Inodes \cup {NoInode}]
  BY FilesAssumption DEF Rename, TypeOK, TempPath
<1>4. TypeOK'
  BY <1>1, <1>2, <1>3 DEF TypeOK
<1>5. LoadedUsable' /\ SnapshotPresent' /\ PathNamed'
  BY <1>1, <1>2, Elsewhere
<1>6. QED BY <1>4, <1>5

(* add_version takes the number after the latest snapshot.                 *)
LEMMA NextVersionPreserves ==
  ASSUME IInv, NEW p \in Procs, NextVersion(p)
  PROVE  IInv'
<1> USE DEF IInv
<1>1. PICK v \in Visible(keystore) : version' = [version EXCEPT ![p] = v + 1]
  BY DEF NextVersion
<1>2. v + 1 \in Nat
  BY DEF Visible, TypeOK, IsKeyStore
<1>3. pc' = [pc EXCEPT ![p] = "mkdir"] /\ pc[p] = "commit"
  BY DEF NextVersion, Goto
<1>4. UNCHANGED <<dir, data, keystore, registry, delayed, job, loaded, staged, updated,
                  path, fd, outcome, serial, runs>>
  BY DEF NextVersion, files, net, counts
<1>5. TypeOK'
  <2>1. version' \in [Procs -> Nat] /\ pc' \in [Procs -> Steps]
    BY <1>1, <1>2, <1>3 DEF TypeOK, Steps
  <2>2. QED BY <1>4, <2>1 DEF TypeOK
<1>6. LoadedUsable' /\ SnapshotPresent' /\ PathNamed'
  <2>1. \A q \in Procs : pc'[q] = pc[q] \/ pc'[q] = "mkdir"
    BY <1>3 DEF TypeOK
  <2>2. \A q \in Procs : pc'[q] = "sign" => pc[q] = "sign" /\ version'[q] = version[q]
    BY <1>1, <1>3 DEF TypeOK
  <2>3. QED BY <1>4, <2>1, <2>2 DEF LoadedUsable, PathNamed, SnapshotPresent
<1>7. QED BY <1>5, <1>6

(* create_dir_all adds a snapshot and removes none, so the versions other  *)
(* commands have read stay there.                                          *)
LEMMA CreateSnapshotPreserves ==
  ASSUME IInv, NEW p \in Procs, CreateSnapshot(p)
  PROVE  IInv'
<1> USE DEF IInv
<1>1. /\ UNCHANGED <<dir, data, registry, delayed, job, loaded, version, staged,
                     updated, path, fd, outcome, serial, runs>>
      /\ keystore' = CreateVersion(keystore, version[p])
      /\ pc' = [pc EXCEPT ![p] = "authorized"]
  BY DEF CreateSnapshot, Goto, files, net, memory, counts
<1>2. IsKeyStore(keystore)' /\ DOMAIN keystore \subseteq DOMAIN keystore'
  BY <1>1, CreateVersionTypes DEF TypeOK
<1>3. TypeOK'
  <2>1. pc' \in [Procs -> Steps]
    BY <1>1 DEF TypeOK, Steps, Roles
  <2>2. QED BY <1>1, <1>2, <2>1 DEF TypeOK
<1>4. \A q \in Procs : pc'[q] = pc[q] \/ pc'[q] = "authorized"
  BY <1>1 DEF TypeOK
<1>5. LoadedUsable' /\ SnapshotPresent' /\ PathNamed'
  BY <1>1, <1>2, <1>4 DEF LoadedUsable, PathNamed, SnapshotPresent
<1>6. QED BY <1>3, <1>5

(* A key file is written into a snapshot, and no snapshot goes.            *)
LEMMA WriteKeyFilePreserves ==
  ASSUME IInv, NEW p \in Procs, NEW r \in Roles, WriteKeyFile(p, r)
  PROVE  IInv'
<1> USE DEF IInv
<1>1. /\ UNCHANGED <<dir, data, registry, delayed, job, loaded, version, staged,
                     updated, path, fd, serial, runs>>
      /\ keystore' = WriteKey(keystore, version[p], r, staged[p][r])
  BY DEF WriteKeyFile, files, net, memory, counts
<1>2. version[p] \in Nat /\ staged[p][r] \in Nat
  BY DEF TypeOK, Snapshot
<1>3. IsKeyStore(keystore)' /\ DOMAIN keystore' = DOMAIN keystore
  <2>1. IsKeyStore(keystore)
    BY DEF TypeOK
  <2>2. /\ IsKeyStore(WriteKey(keystore, version[p], r, staged[p][r]))
        /\ DOMAIN WriteKey(keystore, version[p], r, staged[p][r]) = DOMAIN keystore
    BY <1>2, <2>1, WriteKeyTypes
  <2>3. QED BY <1>1, <2>2 DEF IsKeyStore
<1>4. /\ \E step \in Steps \ {"version", "sign", "open"} : pc' = [pc EXCEPT ![p] = step]
      /\ pc' \in [Procs -> Steps] /\ outcome' \in [Procs -> Outcomes]
  <2>1. {"idle", "commit", "publish", "authentication", "assertion"}
          \subseteq Steps \ {"version", "sign", "open"}
    BY DEF Steps, Roles
  <2>2. outcome \in [Procs -> Outcomes]
    BY DEF TypeOK
  <2>3. QED BY <2>1, <2>2, Continuations DEF WriteKeyFile, Goto
<1>5. TypeOK'
  BY <1>1, <1>3, <1>4 DEF TypeOK
<1>6. LoadedUsable' /\ SnapshotPresent' /\ PathNamed'
  BY <1>1, <1>3, <1>4, Elsewhere
<1>7. QED BY <1>5, <1>6

(* publish_entry uploads the updated log, which is answered, refused, lost *)
(* or late; without credentials the command ends before.                   *)
LEMMA PublishPreserves ==
  ASSUME IInv, NEW p \in Procs, MissCredentials(p) \/ Publish(p) \/ PublishFails(p)
  PROVE  IInv'
<1> USE DEF IInv
<1>1. UNCHANGED <<dir, data, keystore, job, loaded, version, staged, updated, path,
                  fd, serial, runs>>
  BY DEF MissCredentials, Publish, PublishFails, files, memory, counts
<1>2. /\ \E step \in Steps \ {"version", "sign", "open"} : pc' = [pc EXCEPT ![p] = step]
      /\ pc' \in [Procs -> Steps] /\ outcome' \in [Procs -> Outcomes]
  <2>1. /\ {"idle", "salvage"} \subseteq Steps \ {"version", "sign", "open"}
        /\ {"no_credentials", "publish_failed", "ok"} \subseteq Outcomes
        /\ outcome \in [Procs -> Outcomes]
    BY DEF Steps, Outcomes, TypeOK
  <2>2. QED BY <2>1, Continuations DEF MissCredentials, Publish, PublishFails, Goto
<1>3. registry' \in Seq(Entry) /\ \A log \in delayed' : log \in Seq(Entry)
  <2>1. updated[p] \in Seq(Entry)
    BY DEF TypeOK
  <2>2. QED
    BY <2>1 DEF TypeOK, MissCredentials, Publish, PublishFails, Unanswered, net
<1>4. TypeOK'
  BY <1>1, <1>2, <1>3 DEF TypeOK
<1>5. LoadedUsable' /\ SnapshotPresent' /\ PathNamed'
  BY <1>1, <1>2, Elsewhere
<1>6. QED BY <1>4, <1>5

(* write_pending_log picks a pending name that is free, or gives up.       *)
LEMMA PickPendingPreserves ==
  ASSUME IInv, NEW p \in Procs, PickPending(p)
  PROVE  IInv'
<1> USE DEF IInv
<1>1. UNCHANGED <<dir, data, keystore, registry, delayed, job, loaded, version, staged,
                  updated, fd, serial, runs>>
  BY DEF PickPending, files, net, counts
<1>2. \/ /\ pc' = [pc EXCEPT ![p] = "open"] /\ outcome' = outcome
         /\ \E n \in Names : path' = [path EXCEPT ![p] = n]
      \/ Stop(p, "exhausted") /\ path' = path
  <2>1. \A n \in 1 .. Len(PendingFiles) : PendingFiles[n] \in Names
    BY FilesAssumption
  <2>2. QED BY <2>1 DEF PickPending, Goto
<1>3. /\ pc' \in [Procs -> Steps] /\ outcome' \in [Procs -> Outcomes]
      /\ path' \in [Procs -> Names \cup {NoName}]
  BY <1>2 DEF TypeOK, Stop, Goto, Steps, Outcomes
<1>4. TypeOK'
  BY <1>1, <1>3 DEF TypeOK
<1>5. LoadedUsable' /\ SnapshotPresent' /\ PathNamed'
  BY <1>1, <1>2 DEF TypeOK, Stop, Goto, LoadedUsable, SnapshotPresent, PathNamed
<1>6. QED BY <1>4, <1>5

(* A process that dies leaves files, key store and registry as they are.   *)
LEMMA CrashPreserves ==
  ASSUME IInv, NEW p \in Procs, Crash(p)
  PROVE  IInv'
<1> USE DEF IInv
<1>1. /\ UNCHANGED <<dir, data, job, loaded, version, staged, updated, path, serial, runs>>
      /\ fd' = [fd EXCEPT ![p] = NoInode]
  BY DEF Crash, files, memory, counts
<1>2. IsKeyStore(keystore)' /\ DOMAIN keystore \subseteq DOMAIN keystore'
  <2>1. CASE keystore' = keystore
    BY <2>1 DEF TypeOK
  <2>2. CASE pc[p] \in Roles /\ keystore' = WriteKey(keystore, version[p], pc[p], NoKey)
    BY <2>2, WriteKeyTypes DEF TypeOK
  <2>3. QED BY <2>1, <2>2 DEF Crash
<1>3. /\ "idle" \in Steps \ {"version", "sign", "open"} /\ pc' = [pc EXCEPT ![p] = "idle"]
      /\ pc' \in [Procs -> Steps] /\ outcome' \in [Procs -> Outcomes]
  BY Continuations DEF Crash, Steps, Outcomes
<1>4. registry' \in Seq(Entry) /\ \A log \in delayed' : log \in Seq(Entry)
  <2>1. updated[p] \in Seq(Entry)
    BY DEF TypeOK
  <2>2. QED BY <2>1 DEF TypeOK, Crash, Unanswered, net
<1>5. TypeOK'
  <2>1. fd' \in [Procs -> Inodes \cup {NoInode}]
    BY <1>1 DEF TypeOK
  <2>2. QED BY <1>1, <1>2, <1>3, <1>4, <2>1 DEF TypeOK
<1>6. LoadedUsable' /\ SnapshotPresent' /\ PathNamed'
  BY <1>1, <1>2, <1>3, Elsewhere
<1>7. QED BY <1>5, <1>6

(* An upload that arrives late puts a log at the registry.                 *)
LEMMA ArrivePreserves ==
  ASSUME IInv, NEW log \in delayed, Arrive(log)
  PROVE  IInv'
<1> USE DEF IInv
<1>1. TypeOK'
  BY DEF Arrive, TypeOK, files, memory, counts
<1>2. LoadedUsable' /\ SnapshotPresent' /\ PathNamed'
  BY DEF Arrive, LoadedUsable, SnapshotPresent, PathNamed, memory
<1>3. QED BY <1>1, <1>2

(* Nothing changes in a step of something else.                            *)
LEMMA StutterPreserves ==
  ASSUME IInv, UNCHANGED vars
  PROVE  IInv'
<1>1. TypeOK'
  BY DEF IInv, vars, files, net, memory, counts, TypeOK
<1>2. LoadedUsable' /\ SnapshotPresent' /\ PathNamed'
  BY DEF IInv, vars, memory, LoadedUsable, SnapshotPresent, PathNamed
<1>3. QED BY <1>1, <1>2 DEF IInv

(* IInv is inductive, one lemma for each action.                           *)
LEMMA NextPreserves == IInv /\ [Next]_vars => IInv'
<1> SUFFICES ASSUME IInv, [Next]_vars PROVE IInv'
  OBVIOUS
<1>1. ASSUME NEW p \in Procs, NEW j \in Jobs, Start(p, j) PROVE IInv'
  BY <1>1, StartPreserves
<1>2. ASSUME NEW p \in Procs, Step(p) PROVE IInv'
  <2>1. CASE Load(p) BY <2>1, LoadPreserves
  <2>2. CASE FindVersion(p) BY <2>2, FindVersionPreserves
  <2>3. CASE Sign(p) BY <2>3, SignPreserves
  <2>4. CASE WriteLog(p) BY <2>4, WriteLogPreserves
  <2>5. CASE Open(p) BY <2>5, OpenPreserves
  <2>6. CASE Fill(p) BY <2>6, FillPreserves
  <2>7. CASE Rename(p) BY <2>7, RenamePreserves
  <2>8. CASE NextVersion(p) BY <2>8, NextVersionPreserves
  <2>9. CASE CreateSnapshot(p) BY <2>9, CreateSnapshotPreserves
  <2>10. CASE \E r \in Roles : WriteKeyFile(p, r) BY <2>10, WriteKeyFilePreserves
  <2>11. CASE MissCredentials(p) \/ Publish(p) \/ PublishFails(p)
    BY <2>11, PublishPreserves
  <2>12. CASE PickPending(p) BY <2>12, PickPendingPreserves
  <2>13. QED
    BY <1>2, <2>1, <2>2, <2>3, <2>4, <2>5, <2>6, <2>7, <2>8, <2>9, <2>10,
       <2>11, <2>12 DEF Step
<1>3. ASSUME NEW p \in Procs, Crash(p) PROVE IInv'
  BY <1>3, CrashPreserves
<1>4. ASSUME NEW log \in delayed, Arrive(log) PROVE IInv'
  BY <1>4, ArrivePreserves
<1>5. CASE UNCHANGED vars
  BY <1>5, StutterPreserves
<1>6. QED
  BY <1>1, <1>2, <1>3, <1>4, <1>5 DEF Next, Finished

(* No interleaving of invocations, crashes and late uploads leaves IInv.   *)
THEOREM InductiveInvariant == Spec => []IInv
BY InitEstablishes, NextPreserves, PTL DEF Spec

(* Whatever is interleaved, dies or is lost, the files, the key store, the *)
(* registry and the memory of every process stay what load_log, load_eddsa *)
(* and the registry client take them for.                                  *)
THEOREM TypeCorrect == Spec => []TypeOK
<1>1. IInv => TypeOK
  BY DEF IInv
<1>2. QED BY <1>1, InductiveInvariant, PTL

-----------------------------------------------------------------------------
(* Refinement of LogHistory.  Only Sign makes a log that did not exist.    *)

Kept == Held \cup {<< >>}

(* A file, the registry, an upload or a buffer is empty or holds a log     *)
(* that is held.                                                           *)
LEMMA WhereLogsAre ==
  /\ \A i \in Inodes : data[i] \in Kept
  /\ registry \in Kept
  /\ \A log \in delayed : log \in Kept
  /\ \A p \in Procs : loaded[p] \in Kept /\ updated[p] \in Kept
BY DEF Kept, Held

(* When all of these hold what was held somewhere before, no log is new.   *)
LEMMA HeldFrom ==
  ASSUME \A i \in Inodes : data'[i] \in Kept,
         registry' \in Kept,
         \A log \in delayed' : log \in Kept,
         \A p \in Procs : loaded'[p] \in Kept /\ updated'[p] \in Kept
  PROVE  Held' \subseteq Held
BY DEF Held, Kept

(* Copying a log to a file, a buffer or the registry makes no new one.     *)
LEMMA OthersMakeNoLog ==
  ASSUME IInv, Next, ~(\E p \in Procs : Sign(p) /\ updated' # updated)
  PROVE  Held' \subseteq Held
<1> USE DEF IInv
<1>1. << >> \in Kept
  BY DEF Kept
<1>2. ASSUME NEW p \in Procs, NEW j \in Jobs, Start(p, j) PROVE Held' \subseteq Held
  BY <1>1, <1>2, WhereLogsAre, HeldFrom DEF Start, TypeOK, files, net
<1>3. ASSUME NEW p \in Procs, Load(p) PROVE Held' \subseteq Held
  <2>1. Content(InputFile) \in Kept
    BY <1>1, WhereLogsAre, FilesAssumption DEF Content, TypeOK
  <2>2. PICK log \in Kept : loaded' = [loaded EXCEPT ![p] = log] \/ loaded' = loaded
    BY <1>3, <2>1, WhereLogsAre DEF Load
  <2>3. \A q \in Procs : loaded'[q] \in Kept
    BY <2>2, WhereLogsAre DEF TypeOK
  <2>4. QED BY <1>3, <2>3, WhereLogsAre, HeldFrom DEF Load, files, net
<1>4. ASSUME NEW p \in Procs, FindVersion(p) \/ WriteLog(p) \/ Rename(p)
                               \/ NextVersion(p) \/ CreateSnapshot(p) \/ (\E r \in Roles : WriteKeyFile(p, r))
                               \/ MissCredentials(p) \/ PickPending(p)
      PROVE  Held' \subseteq Held
  <2>1. UNCHANGED <<data, registry, delayed, loaded, updated>>
    BY <1>4 DEF FindVersion, WriteLog, Rename, NextVersion, CreateSnapshot, WriteKeyFile,
                MissCredentials, PickPending, files, net, memory
  <2>2. QED BY <2>1, WhereLogsAre, HeldFrom
<1>5. ASSUME NEW p \in Procs, Sign(p), updated' = updated PROVE Held' \subseteq Held
  BY <1>5, WhereLogsAre, HeldFrom DEF Sign, files, net
<1>6. ASSUME NEW p \in Procs, Open(p) PROVE Held' \subseteq Held
  <2>1. \A i \in Inodes : data'[i] \in Kept
    BY <1>1, <1>6, OpenPreserves, WhereLogsAre DEF TypeOK
  <2>2. QED BY <1>6, <2>1, WhereLogsAre, HeldFrom DEF Open, net, memory
<1>7. ASSUME NEW p \in Procs, Fill(p) PROVE Held' \subseteq Held
  <2>1. PICK log \in Kept : data' = [data EXCEPT ![fd[p]] = log]
    BY <1>1, <1>7, WhereLogsAre DEF Fill
  <2>2. \A i \in Inodes : data'[i] \in Kept
    BY <2>1, WhereLogsAre DEF TypeOK
  <2>3. QED BY <1>7, <2>2, WhereLogsAre, HeldFrom DEF Fill, net, memory
<1>8. ASSUME NEW p \in Procs, Publish(p) \/ PublishFails(p) \/ Crash(p)
      PROVE  Held' \subseteq Held
  <2>1. UNCHANGED <<data, loaded, updated>>
    BY <1>8 DEF Publish, PublishFails, Crash, files, memory
  <2>2. registry' \in Kept /\ \A log \in delayed' : log \in Kept
    BY <1>8, WhereLogsAre DEF Publish, PublishFails, Crash, Unanswered, net
  <2>3. QED BY <2>1, <2>2, WhereLogsAre, HeldFrom
<1>9. ASSUME NEW log \in delayed, Arrive(log) PROVE Held' \subseteq Held
  BY <1>9, WhereLogsAre, HeldFrom DEF Arrive, files, memory
<1>10. CASE Finished
  BY <1>10, WhereLogsAre, HeldFrom DEF Finished, vars, files, net, memory
<1>11. QED
  BY <1>2, <1>3, <1>4, <1>5, <1>6, <1>7, <1>8, <1>9, <1>10 DEF Next, Step

(* LogHistory reads DidLog on its own; its operators are the same.         *)
LEMMA SameOperators ==
  /\ History!Entry = Entry
  /\ History!GenesisLog = GenesisLog
  /\ \A log : /\ History!Verifies(log) <=> Verifies(log)
              /\ History!LastEntry(log) = LastEntry(log)
              /\ History!VerifiesButLast(log) <=> VerifiesButLast(log)
              /\ History!DeactivatedOnce(log) <=> DeactivatedOnce(log)
  /\ \A log, i : History!ChainedAt(log, i) <=> ChainedAt(log, i)
BY DEF History!Entry, Entry, History!Doc, Doc, History!GenesisLog, GenesisLog,
       History!Scid, Scid, History!Verifies, Verifies, History!LastEntry, LastEntry,
       History!VerifiesButLast, VerifiesButLast, History!DeactivatedOnce, DeactivatedOnce,
       History!ChainedAt, ChainedAt, History!AuthorisedAt, AuthorisedAt,
       History!Authorised, Authorised

(* The entry that Sign appends is chained to a log that verifies, and is a *)
(* deactivation only when that log is not deactivated.                     *)
LEMMA SignGrowsLog ==
  ASSUME IInv, NEW p \in Procs, Sign(p), updated' # updated
  PROVE  /\ updated'[p] \in Seq(Entry) /\ Len(updated'[p]) > 1
         /\ History!Front(updated'[p]) = loaded[p]
         /\ History!GrownFrom(loaded[p], updated'[p])
         /\ \A q \in Procs : q # p => updated'[q] = updated[q]
<1> DEFINE base == loaded[p]
           log == updated'[p]
<1>1. Usable(job[p], base) /\ job[p] \in Job
  BY SignMakesEntry, JobsAssumption DEF IInv, TypeOK
<1>2. PICK e \in Entry :
        /\ updated' = [updated EXCEPT ![p] = Append(base, e)]
        /\ \/ \E k \in [Roles -> Nat] :
                e = RotationEntry(base, serial + 1,
                                  keystore[version[p]]["authorized"], k)
           \/ /\ job[p].cmd # "rotate"
              /\ e = DeactivationEntry(base, serial + 1,
                                       keystore[version[p]]["authorized"])
  BY SignMakesEntry
<1>3. base \in Seq(Entry) /\ base # << >> /\ Len(base) \in Nat \ {0} /\ Verifies(base)
  BY <1>1 DEF IInv, TypeOK, Usable, Verifies
<1>4. /\ log = Append(base, e) /\ log \in Seq(Entry) /\ Len(log) = Len(base) + 1
      /\ \A q \in Procs : q # p => updated'[q] = updated[q]
      /\ log[Len(log)] = e /\ log[Len(log) - 1] = base[Len(base)]
  BY <1>2, <1>3 DEF IInv, TypeOK
<1>5. History!Front(log) = base
  BY <1>3, <1>4 DEF History!Front
<1>6. e.seq = Len(base) + 1 /\ e.prev = LastEntry(base).hash
  BY <1>2 DEF RotationEntry, DeactivationEntry
<1>7. ChainedAt(log, Len(log))
  BY <1>3, <1>4, <1>6 DEF ChainedAt, LastEntry
<1>8. e.deactivated => /\ e.announces /\ e.updateKeys = {}
                       /\ ~LastEntry(base).deactivated
  <2>1. ASSUME NEW k \in [Roles -> Nat],
               e = RotationEntry(base, serial + 1, keystore[version[p]]["authorized"], k)
        PROVE  ~e.deactivated
    BY <2>1 DEF RotationEntry
  <2>2. ASSUME e = DeactivationEntry(base, serial + 1,
                                     keystore[version[p]]["authorized"])
        PROVE  e.announces /\ e.updateKeys = {}
    BY <2>2 DEF DeactivationEntry
  <2>3. job[p].cmd # "rotate" => ~LastEntry(base).deactivated
    BY <1>1, <1>3 DEF Usable, Deactivated, Job
  <2>4. QED BY <1>2, <2>1, <2>2, <2>3
<1>9. History!GrownFrom(base, log)
  BY <1>3, <1>4, <1>7, <1>8, SameOperators DEF History!GrownFrom, LastEntry
<1>10. QED BY <1>3, <1>4, <1>5, <1>9

(* At first there is the log of did create and no other.                   *)
LEMMA InitRefines == Init => History!Init
<1> SUFFICES ASSUME Init PROVE Held = {GenesisLog}
  BY SameOperators DEF History!Init
<1>1. FirstInode \in Inodes /\ data[FirstInode] = GenesisLog /\ GenesisLog # << >>
  BY FilesAssumption, GenesisType DEF Init, FirstInode
<1>2. QED BY <1>1 DEF Init, Held

(* Only signing an entry makes a log that did not exist, and it makes one  *)
(* that has grown from a log that verifies; all other steps copy or        *)
(* forget logs.                                                            *)
LEMMA NextRefines == IInv /\ [Next]_vars => [History!Next]_Held
<1> SUFFICES ASSUME IInv, [Next]_vars PROVE [History!Next]_Held
  OBVIOUS
<1>1. CASE UNCHANGED vars
  BY <1>1 DEF vars, files, net, memory, Held
<1>2. CASE Next /\ ~(\E p \in Procs : Sign(p) /\ updated' # updated)
  BY <1>2, OthersMakeNoLog DEF History!Next
<1>3. CASE \E p \in Procs : Sign(p) /\ updated' # updated
  <2>1. PICK p \in Procs : Sign(p) /\ updated' # updated
    BY <1>3
  <2>2. SUFFICES ASSUME NEW log \in Held' \ Held
                 PROVE  /\ log \in Seq(Entry) /\ Len(log) > 1
                        /\ History!Front(log) \in Held
                        /\ History!GrownFrom(History!Front(log), log)
    BY SameOperators DEF History!Next
  <2>3. log = updated'[p]
    <3>1. UNCHANGED <<data, registry, delayed, loaded>>
      BY <2>1 DEF Sign, files, net
    <3>2. \A q \in Procs : q # p => updated'[q] = updated[q]
      BY <2>1, SignGrowsLog
    <3>3. log \in {updated'[q] : q \in Procs} /\ log \notin {updated[q] : q \in Procs}
      BY <2>2, <3>1 DEF Held
    <3>4. PICK q \in Procs : log = updated'[q] /\ log # updated[q]
      BY <3>3
    <3>5. QED BY <3>2, <3>4
  <2>4. loaded[p] # << >>
    BY <2>1, SignMakesEntry DEF Usable, Verifies
  <2>5. loaded[p] \in Held
    BY <2>4 DEF Held
  <2>6. QED BY <2>1, <2>3, <2>5, SignGrowsLog
<1>4. QED BY <1>1, <1>2, <1>3

(* Rotate and deactivate, run by anybody at any time with any faults, only *)
(* ever grow the tree of logs by one entry on a log that verifies.         *)
THEOREM Refinement == Spec => HistorySpec
<1>1. Spec => []IInv
  BY InductiveInvariant
<1>2. QED
  BY <1>1, InitRefines, NextRefines, PTL DEF Spec, HistorySpec, History!Spec

(* The instance of the proved module is the instance of the specification. *)
LEMMA SameHistory ==
  /\ History!Init => HistoryProofs!Init
  /\ [History!Next]_Held => [HistoryProofs!Next]_Held
  /\ HistoryProofs!AllSound => LogsSound
<1>1. /\ HistoryProofs!Entry = History!Entry
      /\ HistoryProofs!GenesisLog = History!GenesisLog
      /\ \A log : /\ HistoryProofs!Verifies(log) <=> History!Verifies(log)
                  /\ HistoryProofs!LastEntry(log) = History!LastEntry(log)
                  /\ HistoryProofs!Front(log) = History!Front(log)
                  /\ HistoryProofs!VerifiesButLast(log) <=> VerifiesButLast(log)
                  /\ HistoryProofs!DeactivatedOnce(log) <=> DeactivatedOnce(log)
      /\ \A log, i : HistoryProofs!ChainedAt(log, i) <=> History!ChainedAt(log, i)
  BY DEF History!Entry, History!Doc, History!GenesisLog, History!Scid,
         History!Verifies, History!LastEntry, History!Front, History!ChainedAt,
         History!AuthorisedAt, History!Authorised,
         HistoryProofs!Entry, HistoryProofs!Doc, HistoryProofs!GenesisLog,
         HistoryProofs!Scid, HistoryProofs!Verifies, HistoryProofs!LastEntry,
         HistoryProofs!Front, HistoryProofs!ChainedAt, HistoryProofs!AuthorisedAt,
         HistoryProofs!Authorised, HistoryProofs!VerifiesButLast,
         HistoryProofs!DeactivatedOnce, Scid, ChainedAt, AuthorisedAt, Authorised,
         VerifiesButLast, DeactivatedOnce
<1>2. \A base, log : HistoryProofs!GrownFrom(base, log) <=> History!GrownFrom(base, log)
  BY <1>1 DEF HistoryProofs!GrownFrom, History!GrownFrom
<1>3. History!Init => HistoryProofs!Init
  BY <1>1 DEF History!Init, HistoryProofs!Init
<1>4. History!Next => HistoryProofs!Next
  BY <1>1, <1>2 DEF History!Next, HistoryProofs!Next
<1>5. HistoryProofs!AllSound => LogsSound
  BY <1>1 DEF HistoryProofs!AllSound, HistoryProofs!Sound, LogsSound
<1>6. QED BY <1>3, <1>4, <1>5

(* Every log anywhere verifies up to its last signature, and is deactivated*)
(* at most once with at most one entry after it.                           *)
THEOREM LogsAreSound == Spec => []LogsSound
<1>1. HistoryProofs!Spec => []HistoryProofs!AllSound
  BY HistoryProofs!HistoryIsSound
<1>2. QED
  BY <1>1, Refinement, SameHistory, PTL
  DEF HistorySpec, History!Spec, HistoryProofs!Spec
=============================================================================
