-------------------------- MODULE SequentialProofs --------------------------
(***************************************************************************)
(* Theorems about Didtool when one invocation runs at a time: what its     *)
(* documents promise of the local log, of the snapshots and of the keys of *)
(* what is published.  Command lines, crashes and the ways of an upload    *)
(* are as many as in Didtool.                                              *)
(***************************************************************************)
EXTENDS DidtoolProofs

-----------------------------------------------------------------------------
(* The circumstances.                                                      *)

(* p is the only process; there are fewer invocations than names of four   *)
(* digits for snapshots; no pending file has the name of a temporary file. *)
Alone(p) ==
  /\ Procs = {p}
  /\ MaxRuns < MaxVersion
  /\ \A n \in DOMAIN PendingFiles : PendingFiles[n] # TmpFile

-----------------------------------------------------------------------------
(* The inductive invariant, for the one process p.                         *)

(* The file the command line leads to: the source itself, or at last a     *)
(* pending file.                                                           *)
InPlace(p) == job[p].out = NoName /\ ~job[p].did
Salvaging(p) == job[p].out = NoName /\ job[p].did

(* Two names never share an inode, and the source file is always there.    *)
NamesApart ==
  /\ \A m, n \in Names : dir[m] = dir[n] /\ dir[m] # NoInode => m = n
  /\ dir[InputFile] # NoInode

(* Where the process is with its files.                                    *)
Writing(p) ==
  /\ pc[p] \in {"open", "fill"} =>
       /\ path[p] \in Names
       /\ job[p].out # NoName => path[p] = job[p].out
       /\ InPlace(p) => path[p] = TmpFile
       /\ Salvaging(p) => path[p] # TmpFile /\ path[p] # InputFile
  /\ pc[p] = "fill" => /\ fd[p] = dir[path[p]] /\ fd[p] # NoInode
                       /\ data[fd[p]] = << >>
  /\ pc[p] # "fill" => fd[p] = NoInode
  /\ pc[p] = "rename" => /\ InPlace(p)
                         /\ dir[TmpFile] # NoInode /\ data[dir[TmpFile]] = updated[p]
  /\ pc[p] = "salvage" => Salvaging(p)
  /\ pc[p] # "idle" => Accepted(job[p])

(* The source file is as it was read until it is replaced.                 *)
SourceKept(p) ==
  pc[p] \in {"version", "sign", "write", "open", "fill", "rename"} /\ InPlace(p) =>
    data[dir[InputFile]] = loaded[p]

Committing == {"commit", "mkdir"} \cup Roles

(* Once write_log is over the file it reports has the new log.             *)
Written(p) ==
  pc[p] \in Committing \cup {"publish"} /\ ~Salvaging(p) =>
    /\ WrittenTo(job[p]) \in Names
    /\ dir[WrittenTo(job[p])] # NoInode /\ data[dir[WrittenTo(job[p])]] = updated[p]

(* What was signed: one entry on the log that was verified.                *)
Signed(p) ==
  LET e == LastEntry(updated[p]) IN
  pc[p] \notin {"idle", "load", "version", "sign"} =>
    /\ loaded[p] # << >>
    /\ job[p].cmd = "rotate" =>
         /\ updated[p] =
              Append(loaded[p], RotationEntry(loaded[p], e.hash, e.signer, staged[p]))
         /\ \A r \in Roles : staged[p][r] # NoKey
    /\ job[p].cmd = "deactivate" =>
         updated[p] = Append(loaded[p], DeactivationEntry(loaded[p], e.hash, e.signer))

(* The command has not made a snapshot yet.                                *)
Uncommitted(p) ==
  \/ pc[p] \in {"load", "version", "sign", "write", "rename", "commit", "mkdir"}
  \/ pc[p] \in {"open", "fill"} /\ ~Salvaging(p)

(* The roles add_version has written when it is at a role.                 *)
WrittenRoles(step) ==
  {r \in Roles : \/ r = "authorized" /\ step # "authorized"
                 \/ r = "authentication" /\ step = "assertion"}

(* Every invocation makes one snapshot at most, with the next number, and  *)
(* fills it role by role.                                                  *)
Numbered(p) ==
  /\ runs <= MaxRuns
  /\ \A v \in DOMAIN keystore : v <= runs + 1
  /\ Uncommitted(p) => \A v \in DOMAIN keystore : v <= runs
  /\ pc[p] \in Committing => job[p].cmd = "rotate"
  /\ pc[p] = "mkdir" => /\ version[p] <= runs + 1
                        /\ \A v \in DOMAIN keystore : v < version[p]
  /\ pc[p] \in Roles =>
       /\ version[p] \in DOMAIN keystore /\ \A v \in DOMAIN keystore : v <= version[p]
       /\ \A r \in Roles : keystore[version[p]][r] =
            IF r \in WrittenRoles(pc[p]) THEN staged[p][r] ELSE NoKey
  /\ pc[p] = "publish" /\ job[p].cmd = "rotate" =>
       /\ version[p] \in DOMAIN keystore /\ \A v \in DOMAIN keystore : v <= version[p]
       /\ keystore[version[p]] = staged[p]

KeysComplete(log) ==
  Verifies(log) /\ ~Deactivated(log) =>
    \E v \in DOMAIN keystore : Complete(keystore, v) /\ KeysFor(log, keystore[v])

(* The keys of what is at the registry, or on its way, are held.           *)
PublishedHeld == \A log \in {registry} \cup delayed : KeysComplete(log)

(* The entry of the last command that ended, where no upload comes late.   *)
EndedHeld(p) ==
  "delay" \notin Faults =>
    /\ delayed = {}
    /\ pc[p] = "idle" /\ outcome[p] \in {"ok", "publish_failed", "salvaged"} =>
         \/ updated[p] = registry
         \/ \E n \in Names : dir[n] # NoInode /\ data[dir[n]] = updated[p]

SInv(p) ==
  /\ IInv /\ NamesApart /\ Writing(p) /\ SourceKept(p) /\ Written(p) /\ Signed(p)
  /\ Numbered(p) /\ PublishedHeld /\ EndedHeld(p)

-----------------------------------------------------------------------------
(* SInv is inductive: one lemma for each action.                           *)

(* What p reads and writes has the types of IInv.                          *)
LEMMA OwnTypes ==
  ASSUME IInv, NEW p \in Procs
  PROVE  /\ pc[p] \in Steps /\ job[p] \in Job /\ loaded[p] \in Seq(Entry)
         /\ updated[p] \in Seq(Entry) /\ version[p] \in Nat /\ staged[p] \in Snapshot
         /\ path[p] \in Names \cup {NoName} /\ fd[p] \in Inodes \cup {NoInode}
         /\ \A n \in Names : dir[n] \in Inodes \cup {NoInode}
         /\ \A i \in Inodes : data[i] \in Seq(Entry)
         /\ DOMAIN keystore \subseteq Nat
         /\ \A v \in DOMAIN keystore : keystore[v] \in Snapshot
BY JobsAssumption DEF IInv, TypeOK, IsKeyStore

(* Where a process is after it has gone on, ended, written its log or      *)
(* committed its keys.                                                     *)
LEMMA Whereabouts ==
  ASSUME IInv, NEW p \in Procs
  PROVE  /\ \A step : Goto(p, step) => pc'[p] = step
         /\ \A how : Stop(p, how) => pc'[p] = "idle" /\ outcome'[p] = how
         /\ AfterCommit(p) =>
              \/ job[p].publish /\ pc'[p] = "publish"
              \/ ~job[p].publish /\ pc'[p] = "idle" /\ outcome'[p] = "ok"
         /\ AfterWrite(p) =>
              \/ job[p].cmd = "rotate" /\ pc'[p] = "commit"
              \/ /\ job[p].cmd = "deactivate"
                 /\ \/ job[p].publish /\ pc'[p] = "publish"
                    \/ ~job[p].publish /\ pc'[p] = "idle" /\ outcome'[p] = "ok"
<1>1. pc \in [Procs -> Steps] /\ outcome \in [Procs -> Outcomes]
  BY DEF IInv, TypeOK
<1>2. \A step : Goto(p, step) => pc'[p] = step
  BY <1>1 DEF Goto
<1>3. \A how : Stop(p, how) => pc'[p] = "idle" /\ outcome'[p] = how
  BY <1>1 DEF Stop, Goto
<1>4. AfterCommit(p) => \/ job[p].publish /\ pc'[p] = "publish"
                        \/ ~job[p].publish /\ pc'[p] = "idle" /\ outcome'[p] = "ok"
  BY <1>2, <1>3 DEF AfterCommit
<1>5. job[p].cmd \in {"rotate", "deactivate"}
  BY OwnTypes DEF Job
<1>6. QED BY <1>2, <1>3, <1>4, <1>5 DEF AfterWrite

(* At first nothing is under way and the one snapshot goes with the one    *)
(* log there is.                                                           *)
LEMMA InitAlone ==
  ASSUME NEW p, Alone(p), Init
  PROVE  SInv(p)
<1>1. /\ p \in Procs /\ pc[p] = "idle" /\ fd[p] = NoInode /\ outcome[p] = "none" /\ runs = 0
      /\ FirstInode \in Inodes
  BY FilesAssumption DEF Alone, Init, FirstInode
<1>2. IInv
  BY InitEstablishes
<1>3. NamesApart /\ Writing(p) /\ SourceKept(p) /\ Written(p) /\ Signed(p)
  BY <1>1, FilesAssumption DEF Init, NoInode, NamesApart, Writing, SourceKept, Written,
     Signed, Committing, Roles
<1>4. DOMAIN keystore = {1} /\ keystore[1] = [r \in Roles |-> 1]
  BY DEF Init, InitialKeyStore
<1>5. Numbered(p)
  BY <1>1, <1>4, FaultsAssumption DEF Numbered, Uncommitted, Committing, Roles
<1>6. Complete(keystore, 1) /\ KeysFor(GenesisLog, keystore[1])
  BY <1>4 DEF Complete, Readable, KeysFor, GenesisLog, Authorised, LastEntry, Roles, NoKey
<1>7. PublishedHeld
  BY <1>4, <1>6 DEF PublishedHeld, KeysComplete, Init
<1>8. EndedHeld(p)
  BY <1>1 DEF EndedHeld, Init
<1>9. QED BY <1>2, <1>3, <1>5, <1>7, <1>8 DEF SInv

(* A new invocation raises the number of runs, so no snapshot is numbered  *)
(* higher than that.                                                       *)
LEMMA StartAlone ==
  ASSUME NEW p, Alone(p), SInv(p), IInv', NEW j \in Jobs, Start(p, j)
  PROVE  SInv(p)'
<1> USE DEF SInv
<1>1. p \in Procs
  BY DEF Alone
<1>2. /\ UNCHANGED <<dir, data, keystore, registry, delayed, fd>>
      /\ pc[p] = "idle" /\ runs < MaxRuns /\ runs' = runs + 1
      /\ pc'[p] \in {"load", "idle"}
      /\ pc'[p] = "idle" => outcome'[p] = "rejected"
      /\ job'[p] = j
      /\ pc'[p] = "load" => Accepted(j)
  BY <1>1, Whereabouts DEF IInv, TypeOK, Start, files, net
<1>3. NamesApart' /\ Writing(p)' /\ Written(p)' /\ Signed(p)' /\ SourceKept(p)'
  BY <1>2 DEF NamesApart, Writing, Written, Signed, SourceKept, Committing, Roles,
     InPlace, Salvaging
<1>4. PublishedHeld' /\ EndedHeld(p)'
  BY <1>2 DEF PublishedHeld, KeysComplete, EndedHeld
<1>5. runs \in Nat /\ MaxRuns \in Nat /\ DOMAIN keystore \subseteq Nat
  BY <1>1, OwnTypes, FaultsAssumption DEF IInv, TypeOK
<1>6. Numbered(p)'
  BY <1>2, <1>5 DEF Numbered, Uncommitted, Committing, Roles
<1>7. QED BY <1>3, <1>4, <1>6

(* What load_log returns for a local source is what the file has.          *)
LEMMA LoadAlone ==
  ASSUME NEW p, Alone(p), SInv(p), IInv', Load(p)
  PROVE  SInv(p)'
<1> USE DEF SInv
<1>1. p \in Procs /\ loaded \in [Procs -> Seq(Entry)]
  BY DEF Alone, IInv, TypeOK
<1>2. /\ UNCHANGED <<dir, data, keystore, registry, delayed, job, version, staged,
                     updated, path, fd, runs>>
      /\ pc[p] = "load" /\ pc'[p] \in {"version", "idle"}
      /\ pc'[p] = "idle" => outcome'[p] = "load_failed"
      /\ pc'[p] = "version" => loaded'[p] = IF job[p].did THEN registry ELSE Content(InputFile)
  BY <1>1, Whereabouts DEF Load, files, net, counts
<1>3. NamesApart' /\ Writing(p)' /\ Written(p)' /\ Signed(p)'
  BY <1>2 DEF NamesApart, Writing, Written, Signed, Committing, Roles, InPlace, Salvaging
<1>4. SourceKept(p)'
  BY <1>2 DEF SourceKept, InPlace, Content, NamesApart
<1>5. Numbered(p)' /\ PublishedHeld' /\ EndedHeld(p)'
  BY <1>2 DEF Numbered, Uncommitted, Committing, Roles, PublishedHeld, KeysComplete,
     EndedHeld, Salvaging
<1>6. QED BY <1>3, <1>4, <1>5

(* Looking for the latest version reads the key store only.                *)
LEMMA FindVersionAlone ==
  ASSUME NEW p, Alone(p), SInv(p), IInv', FindVersion(p)
  PROVE  SInv(p)'
<1> USE DEF SInv
<1>1. p \in Procs
  BY DEF Alone
<1>2. /\ UNCHANGED <<dir, data, keystore, registry, delayed, job, loaded, staged,
                     updated, path, fd, outcome, runs>>
      /\ pc[p] = "version" /\ pc'[p] = "sign"
  BY <1>1, Whereabouts DEF FindVersion, files, net, counts
<1>3. NamesApart' /\ Writing(p)' /\ Written(p)' /\ Signed(p)' /\ SourceKept(p)'
  BY <1>2 DEF NamesApart, Writing, Written, Signed, SourceKept, Committing, Roles,
     InPlace, Salvaging
<1>4. Numbered(p)' /\ PublishedHeld' /\ EndedHeld(p)'
  BY <1>2 DEF Numbered, Uncommitted, Committing, Roles, PublishedHeld, KeysComplete,
     EndedHeld, Salvaging
<1>5. QED BY <1>3, <1>4

(* The staged keys are those of the snapshot that were readable, fresh     *)
(* ones, and ones from files.                                              *)
LEMMA SignAlone ==
  ASSUME NEW p, Alone(p), SInv(p), IInv', Sign(p)
  PROVE  SInv(p)'
<1> USE DEF SInv
<1> DEFINE current == keystore[version[p]]
           signer == current["authorized"]
<1>1. /\ p \in Procs /\ loaded[p] \in Seq(Entry) /\ loaded[p] # << >>
      /\ job[p].cmd \in {"rotate", "deactivate"} /\ job[p].plan \in Plan
      /\ serial \in Nat
      /\ updated \in [Procs -> Seq(Entry)] /\ staged \in [Procs -> Snapshot]
  <2>1. p \in Procs /\ pc[p] = "sign"
    BY DEF Alone, Sign
  <2>2. Usable(job[p], loaded[p])
    BY <2>1 DEF IInv, LoadedUsable
  <2>3. QED BY <2>1, <2>2, OwnTypes DEF Usable, Verifies, Job, IInv, TypeOK
<1>2. /\ UNCHANGED <<dir, data, keystore, registry, delayed, job, loaded, version,
                     path, fd, runs>>
      /\ pc[p] = "sign" /\ pc'[p] \in {"write", "idle"}
      /\ pc'[p] = "idle" => outcome'[p] = "key_error"
  BY <1>1, Whereabouts DEF Sign, files, net, counts
<1>3. NamesApart' /\ Writing(p)' /\ Written(p)' /\ SourceKept(p)'
  BY <1>2 DEF NamesApart, Writing, Written, SourceKept, Committing, Roles,
     InPlace, Salvaging
<1>4. Numbered(p)' /\ PublishedHeld' /\ EndedHeld(p)'
  BY <1>2 DEF Numbered, Uncommitted, Committing, Roles, PublishedHeld, KeysComplete,
     EndedHeld, Salvaging
<1>5. ASSUME pc'[p] = "write", job[p].cmd = "rotate"
      PROVE  /\ updated'[p] =
                  Append(loaded[p], RotationEntry(loaded[p], serial + 1, signer, staged'[p]))
             /\ \A r \in Roles : staged'[p][r] # NoKey
  <2>1. /\ Readable(keystore, version[p], KeysNeeded(job[p]))
        /\ \E s \in StagedChoices(job[p], current) :
             /\ staged' = [staged EXCEPT ![p] = s]
             /\ updated' = [updated EXCEPT ![p] =
                  Append(loaded[p], RotationEntry(loaded[p], serial + 1, signer, s))]
    BY <1>1, <1>5, Whereabouts DEF Sign
  <2>2. PICK s \in StagedChoices(job[p], current) :
          /\ staged' = [staged EXCEPT ![p] = s]
          /\ updated' = [updated EXCEPT ![p] =
               Append(loaded[p], RotationEntry(loaded[p], serial + 1, signer, s))]
    BY <2>1
  <2>3. staged'[p] = s
        /\ updated'[p] = Append(loaded[p], RotationEntry(loaded[p], serial + 1, signer, s))
    BY <1>1, <2>2
  <2>4. \A r \in Roles : s[r] # NoKey
    <3>1. SUFFICES ASSUME NEW r \in Roles PROVE s[r] # NoKey
      OBVIOUS
    <3>2. job[p].plan[r] = "keep" => current[r] # NoKey
      BY <1>5, <2>1 DEF Readable, KeysNeeded
    <3>3. s[r] \in 1 .. serial + 1 /\ (job[p].plan[r] = "keep" => s[r] = current[r])
      BY <2>2 DEF StagedChoices
    <3>4. QED BY <1>1, <3>2, <3>3 DEF NoKey
  <2>5. QED BY <2>3, <2>4
<1>6. ASSUME pc'[p] = "write", job[p].cmd = "deactivate"
      PROVE  updated'[p] = Append(loaded[p], DeactivationEntry(loaded[p], serial + 1, signer))
  BY <1>1, <1>6, Whereabouts DEF Sign
<1>7. Signed(p)'
  <2>1. CASE pc'[p] = "idle"
    BY <2>1 DEF Signed
  <2>2. CASE pc'[p] = "write" /\ job[p].cmd = "rotate"
    <3>1. LastEntry(updated'[p]) = RotationEntry(loaded[p], serial + 1, signer, staged'[p])
      BY <1>1, <1>5, <2>2 DEF LastEntry
    <3>2. /\ LastEntry(updated'[p]).hash = serial + 1
          /\ LastEntry(updated'[p]).signer = signer
      BY <3>1 DEF RotationEntry
    <3>3. QED BY <1>1, <1>2, <1>5, <2>2, <3>2 DEF Signed
  <2>3. CASE pc'[p] = "write" /\ job[p].cmd = "deactivate"
    <3>1. LastEntry(updated'[p]) = DeactivationEntry(loaded[p], serial + 1, signer)
      BY <1>1, <1>6, <2>3 DEF LastEntry
    <3>2. /\ LastEntry(updated'[p]).hash = serial + 1
          /\ LastEntry(updated'[p]).signer = signer
      BY <3>1 DEF DeactivationEntry
    <3>3. QED BY <1>1, <1>2, <1>6, <2>3, <3>2 DEF Signed
  <2>4. QED BY <1>1, <1>2, <2>1, <2>2, <2>3
<1>8. QED BY <1>3, <1>4, <1>7

(* Nothing is written when the registry was the source and no --out was    *)
(* given; such a command publishes, or it would have been rejected.        *)
LEMMA WriteLogAlone ==
  ASSUME NEW p, Alone(p), SInv(p), IInv', WriteLog(p)
  PROVE  SInv(p)'
<1> USE DEF SInv
<1>1. /\ p \in Procs /\ path \in [Procs -> Names \cup {NoName}]
      /\ job[p].out \in Names \cup {NoName} /\ job[p].cmd \in {"rotate", "deactivate"}
  BY OwnTypes DEF Alone, IInv, TypeOK, Job
<1>2. /\ UNCHANGED <<dir, data, keystore, registry, delayed, job, loaded, version, staged,
                     updated, fd, runs>>
      /\ pc[p] = "write"
  BY DEF WriteLog, files, net, counts
<1>3. \/ pc'[p] = "idle" /\ outcome'[p] = "file_exists"
      \/ pc'[p] = "open" /\ job[p].out # NoName /\ path'[p] = job[p].out
      \/ pc'[p] = "open" /\ InPlace(p) /\ path'[p] = TmpFile
      \/ Salvaging(p) /\ job[p].cmd = "rotate" /\ pc'[p] = "commit"
      \/ Salvaging(p) /\ job[p].cmd = "deactivate" /\ pc'[p] = "publish"
  <2>1. Salvaging(p) => job[p].publish
    BY <1>2 DEF Writing, Accepted, Salvaging
  <2>2. QED BY <1>1, <2>1, Whereabouts DEF WriteLog, TempPath, InPlace, Salvaging
<1>4. Accepted(job[p]) /\ fd[p] = NoInode
  BY <1>2 DEF Writing
<1>5. NamesApart' /\ Writing(p)'
  BY <1>1, <1>2, <1>3, <1>4, FilesAssumption DEF NamesApart, Writing, InPlace, Salvaging
<1>6. SourceKept(p)' /\ Written(p)' /\ Signed(p)'
  BY <1>1, <1>2, <1>3 DEF SourceKept, Written, Signed, Committing, Roles, InPlace, Salvaging
<1>7. Numbered(p)' /\ PublishedHeld' /\ EndedHeld(p)'
  BY <1>2, <1>3 DEF Numbered, Uncommitted, Committing, Roles, PublishedHeld, KeysComplete,
     EndedHeld, Salvaging, InPlace
<1>8. QED BY <1>5, <1>6, <1>7

(* fs::write truncates the file of that name only: no other name leads to  *)
(* its inode.                                                              *)
LEMMA OpenAlone ==
  ASSUME NEW p, Alone(p), SInv(p), IInv', Open(p)
  PROVE  SInv(p)'
<1> USE DEF SInv
<1> DEFINE free == Inodes \ InodesInUse
           i == IF dir[path[p]] # NoInode THEN dir[path[p]] ELSE CHOOSE k \in free : TRUE
<1>1. /\ p \in Procs /\ pc[p] = "open" /\ path[p] \in Names /\ i \in Inodes
      /\ \A n \in Names : n # path[p] => dir[n] # i
  <2>1. p \in Procs /\ pc[p] = "open" /\ path[p] \in Names
    BY DEF Alone, Open, Writing
  <2>2. CASE dir[path[p]] # NoInode
    BY <2>1, <2>2, OwnTypes DEF NamesApart
  <2>3. CASE dir[path[p]] = NoInode
    <3>1. free # {}
      BY <2>3 DEF Open
    <3>2. i \in free
      BY <2>3, <3>1
    <3>3. QED BY <2>1, <3>2 DEF InodesInUse
  <2>4. QED BY <2>1, <2>2, <2>3
<1>2. /\ UNCHANGED <<keystore, registry, delayed, job, loaded, version, staged,
                     updated, path, outcome, runs>>
      /\ pc'[p] = "fill"
  BY <1>1, Whereabouts DEF Open, net, memory, counts
<1>3. /\ dir' = [dir EXCEPT ![path[p]] = i]
      /\ data' = [data EXCEPT ![i] = << >>]
      /\ fd' = [fd EXCEPT ![p] = i]
  BY DEF Open
<1> HIDE DEF i
<1>4. /\ dir \in [Names -> Inodes \cup {NoInode}] /\ data \in [Inodes -> Seq(Entry)]
      /\ fd \in [Procs -> Inodes \cup {NoInode}] /\ NoInode \notin Inodes
      /\ InputFile \in Names
  BY FilesAssumption DEF IInv, TypeOK
<1>5. /\ dir'[path[p]] = i /\ data'[i] = << >> /\ fd'[p] = i /\ i # NoInode
      /\ \A n \in Names : n # path[p] => dir'[n] = dir[n]
      /\ \A k \in Inodes : k # i => data'[k] = data[k]
  BY <1>1, <1>3, <1>4
<1>6. NamesApart'
  BY <1>1, <1>4, <1>5 DEF NamesApart
<1>7. Writing(p)'
  BY <1>1, <1>2, <1>5 DEF Writing, InPlace, Salvaging
<1>8. SourceKept(p)'
  <2>1. InPlace(p) => path[p] = TmpFile
    BY <1>1 DEF Writing
  <2>2. InPlace(p) => dir'[InputFile] = dir[InputFile] /\ dir[InputFile] # i
                      /\ dir[InputFile] \in Inodes
    BY <1>1, <1>4, <1>5, <2>1, FilesAssumption DEF NamesApart
  <2>3. InPlace(p)' <=> InPlace(p)
    BY <1>2 DEF InPlace
  <2>4. QED BY <1>1, <1>2, <1>5, <2>2, <2>3 DEF SourceKept
<1>9. Written(p)' /\ Signed(p)'
  BY <1>1, <1>2 DEF Written, Signed, Committing, Roles
<1>10. Numbered(p)' /\ PublishedHeld' /\ EndedHeld(p)'
  BY <1>1, <1>2 DEF Numbered, Uncommitted, Committing, Roles, PublishedHeld, KeysComplete,
     EndedHeld, Salvaging
<1>11. QED BY <1>6, <1>7, <1>8, <1>9, <1>10

(* The file the process opened is still its own when it is filled.         *)
LEMMA FillAlone ==
  ASSUME NEW p, Alone(p), SInv(p), IInv', Fill(p)
  PROVE  SInv(p)'
<1> USE DEF SInv
<1>1. /\ p \in Procs /\ pc[p] = "fill" /\ path[p] \in Names
      /\ fd[p] = dir[path[p]] /\ fd[p] # NoInode /\ fd[p] \in Inodes
      /\ data[fd[p]] = << >> /\ Accepted(job[p])
      /\ job[p].out \in Names \cup {NoName} /\ job[p].cmd \in {"rotate", "deactivate"}
  BY OwnTypes DEF Alone, Fill, Writing, Job
<1>2. /\ UNCHANGED <<dir, keystore, registry, delayed, job, loaded, version, staged,
                     updated, path, runs>>
      /\ data' = [data EXCEPT ![fd[p]] = updated[p]]
      /\ fd' = [fd EXCEPT ![p] = NoInode]
  BY <1>1 DEF Fill, net, memory, counts
<1>3. /\ dir \in [Names -> Inodes \cup {NoInode}] /\ data \in [Inodes -> Seq(Entry)]
      /\ fd \in [Procs -> Inodes \cup {NoInode}] /\ InputFile \in Names
  BY FilesAssumption DEF IInv, TypeOK
<1>4. /\ data'[dir[path[p]]] = updated[p] /\ fd'[p] = NoInode
      /\ \A n \in Names : n # path[p] /\ dir[n] # NoInode => data'[dir[n]] = data[dir[n]]
  BY <1>1, <1>2, <1>3 DEF NamesApart
<1>5. CASE job[p].out # NoName
  <2>1. path[p] = job[p].out /\ ~InPlace(p) /\ ~Salvaging(p) /\ WrittenTo(job[p]) = path[p]
    BY <1>1, <1>5 DEF Writing, InPlace, Salvaging, WrittenTo
  <2>2. AfterWrite(p)
    BY <2>1 DEF Fill
  <2>3. \/ job[p].cmd = "rotate" /\ pc'[p] = "commit"
        \/ job[p].cmd = "deactivate" /\ pc'[p] = "publish"
        \/ job[p].cmd = "deactivate" /\ pc'[p] = "idle"
    BY <1>1, <2>2, Whereabouts
  <2>4. NamesApart' /\ Writing(p)' /\ SourceKept(p)' /\ Written(p)' /\ Signed(p)'
    BY <1>1, <1>2, <1>4, <2>1, <2>3 DEF NamesApart, Writing, SourceKept, Written, Signed,
       Committing, Roles, InPlace, Salvaging
  <2>5. Numbered(p)' /\ PublishedHeld' /\ EndedHeld(p)'
    BY <1>1, <1>2, <1>4, <2>1, <2>3 DEF Numbered, Uncommitted, Committing, Roles,
       PublishedHeld, KeysComplete, EndedHeld, Salvaging
  <2>6. QED BY <2>4, <2>5
<1>6. CASE InPlace(p)
  <2>1. path[p] = TmpFile /\ path[p] # job[p].out /\ ~Salvaging(p)
    BY <1>1, <1>6, FilesAssumption DEF Writing, InPlace, Salvaging
  <2>2. pc'[p] = "rename"
    BY <1>1, <2>1, Whereabouts DEF Fill, TempPath
  <2>3. dir[InputFile] # NoInode /\ InputFile # path[p] /\ data'[dir[InputFile]] = loaded[p]
    BY <1>1, <1>3, <1>4, <1>6, <2>1, FilesAssumption DEF NamesApart, SourceKept
  <2>4. NamesApart' /\ Writing(p)' /\ SourceKept(p)' /\ Written(p)' /\ Signed(p)'
    BY <1>1, <1>2, <1>4, <2>1, <2>2, <2>3 DEF NamesApart, Writing, SourceKept, Written,
       Signed, Committing, Roles, InPlace, Salvaging
  <2>5. Numbered(p)' /\ PublishedHeld' /\ EndedHeld(p)'
    BY <1>1, <1>2, <2>1, <2>2 DEF Numbered, Uncommitted, Committing, Roles,
       PublishedHeld, KeysComplete, EndedHeld, Salvaging
  <2>6. QED BY <2>4, <2>5
<1>7. CASE Salvaging(p)
  <2>1. path[p] # TmpFile /\ path[p] # job[p].out
    BY <1>1, <1>7, FilesAssumption DEF Writing, Salvaging
  <2>2. pc'[p] = "idle" /\ outcome'[p] = "salvaged"
    BY <1>1, <2>1, Whereabouts DEF Fill, TempPath
  <2>3. NamesApart' /\ Writing(p)' /\ SourceKept(p)' /\ Written(p)' /\ Signed(p)'
    BY <1>2, <1>4, <2>2 DEF NamesApart, Writing, SourceKept, Written, Signed,
       Committing, Roles
  <2>4. Numbered(p)' /\ PublishedHeld'
    BY <1>2, <2>2 DEF Numbered, Uncommitted, Committing, Roles, PublishedHeld, KeysComplete
  <2>5. EndedHeld(p)'
    BY <1>1, <1>2, <1>4 DEF EndedHeld
  <2>6. QED BY <2>3, <2>4, <2>5
<1>8. QED BY <1>5, <1>6, <1>7 DEF InPlace, Salvaging

(* The temporary file has the new log and becomes the source file.         *)
LEMMA RenameAlone ==
  ASSUME NEW p, Alone(p), SInv(p), IInv', Rename(p)
  PROVE  SInv(p)'
<1> USE DEF SInv
<1>1. /\ p \in Procs /\ pc[p] = "rename" /\ InPlace(p) /\ Accepted(job[p]) /\ fd[p] = NoInode
      /\ dir[TmpFile] # NoInode /\ data[dir[TmpFile]] = updated[p]
      /\ WrittenTo(job[p]) = InputFile /\ ~Salvaging(p)
  BY DEF Alone, Rename, Writing, WrittenTo, InPlace, Salvaging
<1>2. /\ UNCHANGED <<data, keystore, registry, delayed, job, loaded, version, staged,
                     updated, path, fd, runs>>
      /\ dir' = [dir EXCEPT ![InputFile] = dir[TmpFile], ![TmpFile] = NoInode]
      /\ AfterWrite(p)
  BY <1>1 DEF Rename, TempPath, net, memory, counts
<1>3. /\ dir \in [Names -> Inodes \cup {NoInode}] /\ InputFile \in Names /\ TmpFile \in Names
      /\ InputFile # TmpFile
  BY FilesAssumption DEF IInv, TypeOK
<1>4. /\ dir'[InputFile] = dir[TmpFile] /\ dir'[TmpFile] = NoInode
      /\ \A n \in Names : n # InputFile /\ n # TmpFile => dir'[n] = dir[n]
  BY <1>2, <1>3
<1>5. \/ job[p].cmd = "rotate" /\ pc'[p] = "commit"
      \/ job[p].cmd = "deactivate" /\ pc'[p] = "publish"
      \/ job[p].cmd = "deactivate" /\ pc'[p] = "idle"
  BY <1>1, <1>2, Whereabouts
<1>6. NamesApart'
  BY <1>1, <1>3, <1>4 DEF NamesApart
<1>7. Writing(p)' /\ SourceKept(p)' /\ Written(p)' /\ Signed(p)'
  BY <1>1, <1>2, <1>3, <1>4, <1>5 DEF Writing, SourceKept, Written, Signed,
     Committing, Roles, InPlace, Salvaging
<1>8. Numbered(p)' /\ PublishedHeld'
  BY <1>1, <1>2, <1>5 DEF Numbered, Uncommitted, Committing, Roles, PublishedHeld, KeysComplete
<1>9. EndedHeld(p)'
  BY <1>1, <1>2, <1>3, <1>4 DEF EndedHeld
<1>10. QED BY <1>6, <1>7, <1>8, <1>9

(* add_version looks at the key store again and takes the next number.     *)
LEMMA NextVersionAlone ==
  ASSUME NEW p, Alone(p), SInv(p), IInv', NextVersion(p)
  PROVE  SInv(p)'
<1> USE DEF SInv
<1>1. /\ p \in Procs /\ pc[p] = "commit" /\ pc'[p] = "mkdir"
      /\ UNCHANGED <<dir, data, keystore, registry, delayed, job, loaded, staged, updated,
                     path, fd, outcome, runs>>
  BY Whereabouts DEF Alone, NextVersion, files, net, counts
<1>2. PICK v \in Visible(keystore) :
        IsLatest(keystore, v) /\ version' = [version EXCEPT ![p] = v + 1]
  BY DEF NextVersion
<1>3. /\ DOMAIN keystore \subseteq Nat /\ runs \in Nat /\ MaxRuns \in Nat /\ MaxVersion \in Nat
      /\ MaxRuns < MaxVersion /\ version'[p] = v + 1 /\ v \in DOMAIN keystore
  BY <1>1, <1>2, OwnTypes, FaultsAssumption, MaxVersionAssumption
  DEF Alone, IInv, TypeOK, Visible
<1>4. \A w \in DOMAIN keystore : w <= runs /\ runs <= MaxRuns
  BY <1>1 DEF Numbered, Uncommitted
<1>5. \A w \in DOMAIN keystore : w <= v
  BY <1>2, <1>3, <1>4 DEF IsLatest, Visible
<1>6. NamesApart' /\ Writing(p)' /\ SourceKept(p)' /\ Written(p)' /\ Signed(p)'
  BY <1>1 DEF NamesApart, Writing, SourceKept, Written, WrittenTo, Signed, Committing,
     Roles, InPlace, Salvaging
<1>7. Numbered(p)'
  BY <1>1, <1>3, <1>4, <1>5 DEF Numbered, Uncommitted, Committing, Roles
<1>8. PublishedHeld' /\ EndedHeld(p)'
  BY <1>1 DEF PublishedHeld, KeysComplete, EndedHeld
<1>9. QED BY <1>6, <1>7, <1>8

(* A snapshot that is complete at one step is there, and the same, at the  *)
(* next.                                                                   *)
CompleteKept ==
  \A v \in DOMAIN keystore :
    Complete(keystore, v) => v \in DOMAIN keystore' /\ keystore'[v] = keystore[v]

(* Keys that are held stay held.                                           *)
LEMMA KeysStayHeld ==
  ASSUME CompleteKept
  PROVE  \A log : KeysComplete(log) => KeysComplete(log)'
BY DEF CompleteKept, KeysComplete, Complete, Readable

(* The next snapshot directory was not there, so it is created empty.      *)
LEMMA CreateSnapshotAlone ==
  ASSUME NEW p, Alone(p), SInv(p), IInv', CreateSnapshot(p)
  PROVE  SInv(p)' /\ CompleteKept
<1> USE DEF SInv
<1>1. /\ p \in Procs /\ pc[p] = "mkdir" /\ pc'[p] = "authorized"
      /\ UNCHANGED <<dir, data, registry, delayed, job, loaded, version, staged, updated,
                     path, fd, outcome, runs>>
  BY Whereabouts DEF Alone, CreateSnapshot, files, net, memory, counts
<1>2. /\ DOMAIN keystore \subseteq Nat /\ runs \in Nat /\ version[p] \in Nat
      /\ \A v \in DOMAIN keystore : v < version[p]
      /\ version[p] <= runs + 1 /\ version[p] \notin DOMAIN keystore
  BY <1>1, OwnTypes DEF IInv, TypeOK, Numbered
<1>3. /\ DOMAIN keystore' = DOMAIN keystore \cup {version[p]}
      /\ \A v \in DOMAIN keystore : keystore'[v] = keystore[v]
      /\ keystore'[version[p]] = EmptySnapshot
  BY <1>2 DEF CreateSnapshot, CreateVersion
<1>4. NamesApart' /\ Writing(p)' /\ SourceKept(p)' /\ Written(p)' /\ Signed(p)'
  BY <1>1 DEF NamesApart, Writing, SourceKept, Written, WrittenTo, Signed, Committing,
     Roles, InPlace, Salvaging
<1>5. Numbered(p)'
  <2>1. \A r \in Roles : keystore'[version[p]][r] = NoKey /\ r \notin WrittenRoles("authorized")
    BY <1>3 DEF EmptySnapshot, WrittenRoles, Roles
  <2>2. QED BY <1>1, <1>2, <1>3, <2>1 DEF Numbered, Uncommitted, Committing, Roles
<1>6. CompleteKept
  BY <1>3 DEF CompleteKept
<1>7. PublishedHeld' /\ EndedHeld(p)'
  BY <1>1, <1>6, KeysStayHeld DEF PublishedHeld, EndedHeld
<1>8. QED BY <1>4, <1>5, <1>6, <1>7

(* The snapshot being written is not complete before its last key file.    *)
LEMMA WriteKeyFileAlone ==
  ASSUME NEW p, Alone(p), SInv(p), IInv', NEW r \in Roles, WriteKeyFile(p, r)
  PROVE  /\ SInv(p)' /\ CompleteKept
         /\ pc'[p] \notin Roles =>
              /\ version[p] \in DOMAIN keystore' /\ keystore'[version[p]] = staged[p]
              /\ \A v \in DOMAIN keystore' : v <= version[p]
<1> USE DEF SInv
<1>1. /\ p \in Procs /\ pc[p] = r /\ fd[p] = NoInode /\ Accepted(job[p])
      /\ job[p].cmd = "rotate"
      /\ UNCHANGED <<dir, data, registry, delayed, job, loaded, version, staged, updated,
                     path, fd, runs>>
  BY DEF Alone, WriteKeyFile, files, net, memory, counts, Writing, Numbered, Committing, Roles
<1>2. \/ r = "authorized" /\ pc'[p] = "authentication"
      \/ r = "authentication" /\ pc'[p] = "assertion"
      \/ r = "assertion" /\ pc'[p] = "publish"
      \/ r = "assertion" /\ pc'[p] = "idle" /\ ~job[p].publish
  BY <1>1, Whereabouts DEF WriteKeyFile
<1>3. /\ version[p] \in DOMAIN keystore /\ keystore[version[p]] \in Snapshot
      /\ \A v \in DOMAIN keystore : v <= version[p]
      /\ \A q \in Roles : keystore[version[p]][q] =
           IF q \in WrittenRoles(r) THEN staged[p][q] ELSE NoKey
  BY <1>1, OwnTypes DEF Numbered, Committing
<1>4. /\ DOMAIN keystore' = DOMAIN keystore
      /\ \A v \in DOMAIN keystore : v # version[p] => keystore'[v] = keystore[v]
      /\ keystore'[version[p]] \in Snapshot
      /\ keystore'[version[p]][r] = staged[p][r]
      /\ \A q \in Roles : q # r => keystore'[version[p]][q] = keystore[version[p]][q]
  <2>1. keystore' =
          [keystore EXCEPT ![version[p]] = [keystore[version[p]] EXCEPT ![r] = staged[p][r]]]
    BY DEF WriteKeyFile, WriteKey
  <2>2. staged[p][r] \in Nat
    BY <1>1, OwnTypes DEF Snapshot
  <2>3. keystore \in [DOMAIN keystore -> Snapshot]
    BY DEF IInv, TypeOK, IsKeyStore
  <2>4. QED BY <1>3, <2>1, <2>2, <2>3 DEF Snapshot
<1>5. ~Complete(keystore, version[p])
  BY <1>3 DEF Complete, Readable, WrittenRoles, Roles
<1>6. CompleteKept
  BY <1>4, <1>5 DEF CompleteKept
<1>7. \A q \in Roles : keystore'[version[p]][q] =
        IF q \in WrittenRoles(r) \cup {r} THEN staged[p][q] ELSE NoKey
  BY <1>3, <1>4
<1>8. r = "assertion" => keystore'[version[p]] = staged[p]
  <2>1. WrittenRoles("assertion") \cup {"assertion"} = Roles
    BY DEF WrittenRoles, Roles
  <2>2. staged[p] \in Snapshot
    BY <1>1, OwnTypes
  <2>3. QED BY <1>4, <1>7, <2>1, <2>2 DEF Snapshot
<1>9. /\ r = "authorized" => WrittenRoles(r) \cup {r} = WrittenRoles("authentication")
      /\ r = "authentication" => WrittenRoles(r) \cup {r} = WrittenRoles("assertion")
  BY DEF WrittenRoles, Roles
<1>10. NamesApart' /\ Writing(p)' /\ SourceKept(p)' /\ Written(p)' /\ Signed(p)'
  BY <1>1, <1>2 DEF NamesApart, Writing, SourceKept, Written, WrittenTo, Signed, Committing,
     Roles, InPlace, Salvaging
<1>11. Numbered(p)'
  <2>1. pc'[p] \notin {"load", "version", "sign", "write", "open", "fill", "rename",
                       "commit", "mkdir"}
    BY <1>2
  <2>2. ~Uncommitted(p)'
    BY <2>1 DEF Uncommitted
  <2>3. pc'[p] \in Roles =>
          \A q \in Roles : keystore'[version[p]][q] =
            IF q \in WrittenRoles(pc'[p]) THEN staged[p][q] ELSE NoKey
    BY <1>2, <1>7, <1>9 DEF Roles
  <2>4. QED BY <1>1, <1>2, <1>3, <1>4, <1>8, <2>1, <2>2, <2>3 DEF Numbered
<1>12. PublishedHeld'
  BY <1>1, <1>6, KeysStayHeld DEF PublishedHeld
<1>13. EndedHeld(p)'
  <2>1. ASSUME pc'[p] = "idle" PROVE ~Salvaging(p)
    BY <1>1, <1>2, <2>1 DEF Salvaging, Accepted
  <2>2. ASSUME pc'[p] = "idle"
        PROVE  \E n \in Names : dir[n] # NoInode /\ data[dir[n]] = updated[p]
    BY <1>1, <2>1, <2>2 DEF Written, Committing
  <2>3. QED BY <1>1, <2>2 DEF EndedHeld
<1>14. pc'[p] \notin Roles =>
         /\ version[p] \in DOMAIN keystore' /\ keystore'[version[p]] = staged[p]
         /\ \A v \in DOMAIN keystore' : v <= version[p]
  BY <1>2, <1>3, <1>4, <1>8 DEF Roles
<1>15. QED BY <1>6, <1>10, <1>11, <1>12, <1>13, <1>14

(* A rotation whose log verifies has been signed by a key that was allowed *)
(* to: the staged keys are those with which that log can be followed up.   *)
LEMMA RotationKeys ==
  ASSUME NEW log \in Seq(Entry), log # << >>, NEW h, NEW k, NEW s,
         RotationEntry(log, h, k, s) \in Entry,
         Verifies(Append(log, RotationEntry(log, h, k, s)))
  PROVE  KeysFor(Append(log, RotationEntry(log, h, k, s)), s)
<1> DEFINE e == RotationEntry(log, h, k, s)
           new == Append(log, e)
           n == Len(log)
<1>1. /\ new \in Seq(Entry) /\ Len(new) = n + 1 /\ new[n + 1] = e /\ n \in Nat \ {0}
      /\ LastEntry(new) = e
  BY DEF LastEntry
<1>2. /\ e.announces <=> s["authorized"] # k
      /\ e.announces => e.updateKeys = {s["authorized"]}
      /\ e.signer = k
      /\ e.doc.authentication = s["authentication"] /\ e.doc.assertion = s["assertion"]
  BY DEF RotationEntry
<1>3. CASE e.announces
  <2>1. Authorised(new, n + 1, s["authorized"])
    <3> HIDE DEF new, e, n
    <3>1. n + 1 \in 1 .. n + 1 /\ \A m \in (n + 1) + 1 .. n + 1 : FALSE
      BY <1>1
    <3>2. QED BY <1>1, <1>2, <1>3, <3>1 DEF Authorised
  <2>2. QED BY <1>1, <1>2, <2>1 DEF KeysFor
<1>4. CASE ~e.announces
  <2>1. AuthorisedAt(new, n + 1)
    BY <1>1 DEF Verifies
  <2>2. Authorised(new, n, k)
    BY <1>1, <1>2, <2>1 DEF AuthorisedAt
  <2>3. Authorised(new, n + 1, k)
    <3> HIDE DEF new, e, n
    <3>1. PICK j \in 1 .. n : /\ new[j].announces /\ k \in new[j].updateKeys
                              /\ \A m \in (j + 1) .. n : ~new[m].announces
      BY <2>2 DEF Authorised
    <3>2. \A m \in (j + 1) .. (n + 1) : m \in (j + 1) .. n \/ m = n + 1
      BY <1>1
    <3>3. \A m \in (j + 1) .. (n + 1) : ~new[m].announces
      BY <1>1, <1>4, <3>1, <3>2
    <3>4. QED BY <1>1, <3>1, <3>3 DEF Authorised
  <2>4. QED BY <1>1, <1>2, <1>4, <2>3 DEF KeysFor
<1>5. QED BY <1>3, <1>4

(* What a command has signed: the staged keys go with a rotation that     *)
(* verifies, and a deactivated DID needs none.                             *)
LEMMA SignedKeys ==
  ASSUME NEW p, Alone(p), SInv(p), pc[p] \notin {"idle", "load", "version", "sign"}
  PROVE  /\ job[p].cmd = "deactivate" => Deactivated(updated[p])
         /\ job[p].cmd = "rotate" /\ Verifies(updated[p]) => KeysFor(updated[p], staged[p])
<1> USE DEF SInv
<1>1. /\ p \in Procs /\ loaded[p] \in Seq(Entry) /\ loaded[p] # << >>
      /\ updated[p] \in Seq(Entry)
  BY OwnTypes DEF Alone, Signed
<1> DEFINE e == LastEntry(updated[p])
<1>2. ASSUME job[p].cmd = "deactivate" PROVE Deactivated(updated[p])
  <2>1. updated[p] = Append(loaded[p], DeactivationEntry(loaded[p], e.hash, e.signer))
    BY <1>2 DEF Signed
  <2>2. LastEntry(updated[p]).deactivated
    BY <1>1, <2>1 DEF LastEntry, DeactivationEntry
  <2>3. QED BY <1>1, <2>1, <2>2 DEF Deactivated
<1>3. ASSUME job[p].cmd = "rotate", Verifies(updated[p])
      PROVE  KeysFor(updated[p], staged[p])
  <2> DEFINE new == RotationEntry(loaded[p], e.hash, e.signer, staged[p])
  <2>1. updated[p] = Append(loaded[p], new)
    BY <1>3 DEF Signed
  <2>2. new \in Entry
    <3>1. Len(updated[p]) = Len(loaded[p]) + 1 /\ updated[p][Len(loaded[p]) + 1] = new
      BY <1>1, <2>1
    <3>2. QED BY <1>1, <3>1
  <2> HIDE DEF e
  <2>3. Verifies(Append(loaded[p], new))
    BY <1>3, <2>1
  <2>4. KeysFor(Append(loaded[p], new), staged[p])
    BY <1>1, <2>2, <2>3, RotationKeys
  <2>5. QED BY <2>1, <2>4
<1>4. QED BY <1>2, <1>3

(* When a command comes to publish, its keys are in its snapshot.          *)
LEMMA PublishableKeys ==
  ASSUME NEW p, Alone(p), SInv(p), pc[p] = "publish"
  PROVE  KeysComplete(updated[p])
<1> USE DEF SInv
<1>1. job[p].cmd \in {"rotate", "deactivate"}
  BY OwnTypes DEF Alone, Job
<1>2. CASE job[p].cmd = "deactivate"
  BY <1>2, SignedKeys DEF KeysComplete
<1>3. CASE job[p].cmd = "rotate"
  <2>1. version[p] \in DOMAIN keystore /\ keystore[version[p]] = staged[p]
    BY <1>3 DEF Numbered
  <2>2. Complete(keystore, version[p])
    BY <1>3, <2>1 DEF Signed, Complete, Readable
  <2>3. QED BY <1>3, <2>1, <2>2, SignedKeys DEF KeysComplete
<1>4. QED BY <1>1, <1>2, <1>3

(* add_version comes before publish_entry, and write_log before both.      *)
LEMMA PublishAlone ==
  ASSUME NEW p, Alone(p), SInv(p), IInv',
         MissCredentials(p) \/ Publish(p) \/ PublishFails(p)
  PROVE  SInv(p)'
<1> USE DEF SInv
<1>1. /\ p \in Procs /\ pc[p] = "publish" /\ fd[p] = NoInode /\ Accepted(job[p])
      /\ UNCHANGED <<dir, data, keystore, job, loaded, version, staged, updated,
                     path, fd, runs>>
  BY DEF Alone, MissCredentials, Publish, PublishFails, files, memory, counts, Writing
<1>2. \/ /\ pc'[p] = "idle" /\ outcome'[p] = "no_credentials"
         /\ registry' = registry /\ delayed' = delayed
      \/ /\ pc'[p] = "idle" /\ outcome'[p] = "ok"
         /\ registry' = updated[p] /\ delayed' = delayed
      \/ /\ Unanswered(p)
         /\ \/ pc'[p] = "idle" /\ WrittenTo(job[p]) # NoName
            \/ pc'[p] = "salvage" /\ WrittenTo(job[p]) = NoName
  BY <1>1, Whereabouts DEF MissCredentials, Publish, PublishFails, net
<1>3. pc'[p] = "salvage" => Salvaging(p)
  <2>1. InputFile # NoName /\ job[p].out \in Names \cup {NoName}
    BY <1>1, OwnTypes, FilesAssumption DEF Job
  <2>2. QED BY <1>2, <2>1, FilesAssumption DEF WrittenTo, Salvaging
<1>4. NamesApart' /\ Writing(p)' /\ SourceKept(p)' /\ Written(p)' /\ Signed(p)'
  BY <1>1, <1>2, <1>3 DEF NamesApart, Writing, SourceKept, Written, Signed, Committing,
     Roles, InPlace, Salvaging
<1>5. Numbered(p)'
  BY <1>1, <1>2 DEF Numbered, Uncommitted, Committing, Roles
<1>6. PublishedHeld'
  <2>1. {registry'} \cup delayed' \subseteq {registry} \cup delayed \cup {updated[p]}
    BY <1>2 DEF Unanswered, net
  <2>2. \A log : KeysComplete(log) => KeysComplete(log)'
    BY <1>1 DEF KeysComplete
  <2>3. \A log \in {registry} \cup delayed \cup {updated[p]} : KeysComplete(log)
    BY <1>1, PublishableKeys DEF PublishedHeld
  <2>4. QED BY <2>1, <2>2, <2>3 DEF PublishedHeld
<1>7. EndedHeld(p)'
  <2>1. SUFFICES ASSUME "delay" \notin Faults
                 PROVE  /\ delayed' = {}
                        /\ pc'[p] = "idle" /\ outcome'[p] \in {"ok", "publish_failed", "salvaged"} =>
                             \/ updated[p] = registry'
                             \/ \E n \in Names : dir[n] # NoInode /\ data[dir[n]] = updated[p]
    BY <1>1 DEF EndedHeld
  <2>2. delayed' = {}
    BY <1>2, <2>1 DEF EndedHeld, Unanswered, net
  <2>3. ASSUME WrittenTo(job[p]) # NoName PROVE ~Salvaging(p)
    BY <2>3 DEF WrittenTo, Salvaging
  <2>4. ASSUME WrittenTo(job[p]) # NoName
        PROVE  \E n \in Names : dir[n] # NoInode /\ data[dir[n]] = updated[p]
    BY <1>1, <2>3, <2>4 DEF Written
  <2>5. QED BY <1>2, <2>2, <2>4
<1>8. QED BY <1>4, <1>5, <1>6, <1>7

(* A pending file is one that does not exist, so not the source file.      *)
LEMMA PickPendingAlone ==
  ASSUME NEW p, Alone(p), SInv(p), IInv', PickPending(p)
  PROVE  SInv(p)'
<1> USE DEF SInv
<1>1. /\ p \in Procs /\ pc[p] = "salvage" /\ Salvaging(p) /\ fd[p] = NoInode /\ Accepted(job[p])
      /\ UNCHANGED <<dir, data, keystore, registry, delayed, job, loaded, version, staged,
                     updated, fd, runs>>
  BY DEF Alone, PickPending, Writing, files, net, counts
<1>2. \/ pc'[p] = "idle" /\ outcome'[p] = "exhausted"
      \/ pc'[p] = "open" /\ \E n \in 1 .. Len(PendingFiles) :
           dir[PendingFiles[n]] = NoInode /\ path'[p] = PendingFiles[n]
  BY <1>1, Whereabouts DEF PickPending, IInv, TypeOK
<1>3. \A n \in 1 .. Len(PendingFiles) :
        /\ PendingFiles[n] \in Names /\ PendingFiles[n] # TmpFile
        /\ dir[PendingFiles[n]] = NoInode => PendingFiles[n] # InputFile
  BY FilesAssumption DEF Alone, NamesApart
<1>4. NamesApart' /\ Writing(p)'
  BY <1>1, <1>2, <1>3 DEF NamesApart, Writing, InPlace, Salvaging
<1>5. SourceKept(p)' /\ Written(p)' /\ Signed(p)'
  BY <1>1, <1>2 DEF SourceKept, Written, Signed, Committing, Roles, InPlace, Salvaging
<1>6. Numbered(p)' /\ PublishedHeld' /\ EndedHeld(p)'
  BY <1>1, <1>2 DEF Numbered, Uncommitted, Committing, Roles, PublishedHeld, KeysComplete,
     EndedHeld, Salvaging
<1>7. QED BY <1>4, <1>5, <1>6

(* A key file that is left truncated belongs to a snapshot that was not    *)
(* complete, and an upload takes with it a log whose keys are held.        *)
LEMMA CrashAlone ==
  ASSUME NEW p, Alone(p), SInv(p), IInv', Crash(p)
  PROVE  SInv(p)' /\ CompleteKept
<1> USE DEF SInv
<1>1. /\ p \in Procs /\ pc'[p] = "idle" /\ outcome'[p] = "crashed" /\ fd'[p] = NoInode
      /\ UNCHANGED <<dir, data, job, loaded, version, staged, updated, path, runs>>
  BY Whereabouts DEF Alone, Crash, files, memory, counts, IInv, TypeOK
<1>2. /\ DOMAIN keystore' = DOMAIN keystore
      /\ \/ keystore' = keystore
         \/ /\ pc[p] \in Roles
            /\ \A v \in DOMAIN keystore : v # version[p] => keystore'[v] = keystore[v]
  <2>1. CASE keystore' = keystore
    BY <2>1
  <2>2. CASE pc[p] \in Roles /\ keystore' = WriteKey(keystore, version[p], pc[p], NoKey)
    BY <2>2 DEF WriteKey, IInv, TypeOK, IsKeyStore
  <2>3. QED BY <2>1, <2>2 DEF Crash
<1>3. pc[p] \in Roles => ~Complete(keystore, version[p])
  BY DEF Numbered, Complete, Readable, WrittenRoles, Roles
<1>4. CompleteKept
  BY <1>2, <1>3 DEF CompleteKept
<1>5. NamesApart' /\ Writing(p)' /\ SourceKept(p)' /\ Written(p)' /\ Signed(p)'
  BY <1>1 DEF NamesApart, Writing, SourceKept, Written, Signed, Committing, Roles
<1>6. Numbered(p)'
  BY <1>1, <1>2 DEF Numbered, Uncommitted, Committing, Roles
<1>7. \/ registry' = registry /\ delayed' = delayed
      \/ pc[p] = "publish" /\ Unanswered(p)
  BY DEF Crash, net
<1>8. PublishedHeld'
  <2>1. \A log \in {registry'} \cup delayed' : KeysComplete(log)
    BY <1>7, PublishableKeys DEF PublishedHeld, Unanswered, net
  <2>2. QED BY <1>4, <2>1, KeysStayHeld DEF PublishedHeld
<1>9. EndedHeld(p)'
  BY <1>1, <1>7 DEF EndedHeld, Unanswered, net
<1>10. QED BY <1>4, <1>5, <1>6, <1>8, <1>9

(* A late upload is one whose keys are held.                               *)
LEMMA ArriveAlone ==
  ASSUME NEW p, Alone(p), SInv(p), IInv', NEW log \in delayed, Arrive(log)
  PROVE  SInv(p)'
<1> USE DEF SInv
<1>1. UNCHANGED <<dir, data, keystore, pc, job, loaded, version, staged, updated,
                  path, fd, outcome, runs>>
  BY DEF Arrive, files, memory, counts
<1>2. {registry'} \cup delayed' \subseteq {registry} \cup delayed
  BY DEF Arrive
<1>3. NamesApart' /\ Writing(p)' /\ SourceKept(p)' /\ Written(p)' /\ Signed(p)'
  BY <1>1 DEF NamesApart, Writing, SourceKept, Written, Signed, InPlace, Salvaging
<1>4. Numbered(p)' /\ PublishedHeld'
  BY <1>1, <1>2 DEF Numbered, Uncommitted, Salvaging, PublishedHeld, KeysComplete
<1>5. EndedHeld(p)'
  BY <1>1, <1>2 DEF EndedHeld
<1>6. QED BY <1>3, <1>4, <1>5

(* Nothing changes in a step of something else.                            *)
LEMMA StutterAlone ==
  ASSUME NEW p, SInv(p), IInv', UNCHANGED vars
  PROVE  SInv(p)'
<1> USE DEF SInv
<1>1. UNCHANGED <<dir, data, keystore, registry, delayed, pc, job, loaded, version, staged,
                  updated, path, fd, outcome, runs>>
  BY DEF vars, files, net, memory, counts
<1>2. NamesApart' /\ Writing(p)' /\ SourceKept(p)' /\ Written(p)' /\ Signed(p)'
  BY <1>1 DEF NamesApart, Writing, SourceKept, Written, Signed, InPlace, Salvaging
<1>3. Numbered(p)' /\ PublishedHeld' /\ EndedHeld(p)'
  BY <1>1 DEF Numbered, Uncommitted, Salvaging, PublishedHeld, KeysComplete, EndedHeld
<1>4. QED BY <1>2, <1>3

(* SInv is inductive, and no step takes a complete snapshot away.          *)
LEMMA NextAlone ==
  ASSUME NEW p, Alone(p), SInv(p), [Next]_vars
  PROVE  SInv(p)' /\ CompleteKept
<1>1. IInv'
  BY NextPreserves DEF SInv
<1>2. p \in Procs /\ \A q \in Procs : q = p
  BY DEF Alone
<1>3. ASSUME keystore' = keystore PROVE CompleteKept
  BY <1>3 DEF CompleteKept
<1>4. ASSUME NEW j \in Jobs, Start(p, j) PROVE SInv(p)' /\ CompleteKept
  BY <1>1, <1>3, <1>4, StartAlone DEF Start
<1>5. CASE Step(p)
  <2>1. CASE Load(p) BY <1>1, <1>3, <2>1, LoadAlone DEF Load
  <2>2. CASE FindVersion(p) BY <1>1, <1>3, <2>2, FindVersionAlone DEF FindVersion
  <2>3. CASE Sign(p) BY <1>1, <1>3, <2>3, SignAlone DEF Sign
  <2>4. CASE WriteLog(p) BY <1>1, <1>3, <2>4, WriteLogAlone DEF WriteLog
  <2>5. CASE Open(p) BY <1>1, <1>3, <2>5, OpenAlone DEF Open
  <2>6. CASE Fill(p) BY <1>1, <1>3, <2>6, FillAlone DEF Fill
  <2>7. CASE Rename(p) BY <1>1, <1>3, <2>7, RenameAlone DEF Rename
  <2>8. CASE NextVersion(p) BY <1>1, <1>3, <2>8, NextVersionAlone DEF NextVersion
  <2>9. CASE CreateSnapshot(p) BY <1>1, <2>9, CreateSnapshotAlone
  <2>10. CASE \E r \in Roles : WriteKeyFile(p, r) BY <1>1, <2>10, WriteKeyFileAlone
  <2>11. CASE MissCredentials(p) \/ Publish(p) \/ PublishFails(p)
    <3>1. keystore' = keystore
      BY <2>11 DEF MissCredentials, Publish, PublishFails
    <3>2. QED BY <1>1, <1>3, <2>11, <3>1, PublishAlone
  <2>12. CASE PickPending(p) BY <1>1, <1>3, <2>12, PickPendingAlone DEF PickPending
  <2>13. QED
    BY <1>5, <2>1, <2>2, <2>3, <2>4, <2>5, <2>6, <2>7, <2>8, <2>9, <2>10, <2>11, <2>12
    DEF Step
<1>6. CASE Crash(p)
  BY <1>1, <1>6, CrashAlone
<1>7. ASSUME NEW log \in delayed, Arrive(log) PROVE SInv(p)' /\ CompleteKept
  BY <1>1, <1>3, <1>7, ArriveAlone DEF Arrive
<1>8. CASE UNCHANGED vars
  BY <1>1, <1>3, <1>8, StutterAlone DEF vars
<1>9. QED
  BY <1>2, <1>4, <1>5, <1>6, <1>7, <1>8 DEF Next, Finished

-----------------------------------------------------------------------------
(* What holds whenever one invocation runs at a time.                      *)

(* The one process never leaves SInv.                                      *)
THEOREM SequentialInvariant ==
  ASSUME NEW CONSTANT p, Alone(p)
  PROVE  Spec => []SInv(p)
<1>1. Init => SInv(p)
  BY InitAlone
<1>2. SInv(p) /\ [Next]_vars => SInv(p)'
  BY NextAlone
<1>3. QED BY <1>1, <1>2, PTL DEF Spec

(* add_version never touches a snapshot that has all its keys, whatever    *)
(* crashes came before: a half-written snapshot keeps its number, and the  *)
(* next commit takes a higher one.                                         *)
THEOREM CompleteSnapshotsKept ==
  ASSUME NEW CONSTANT p, Alone(p)
  PROVE  Spec => SnapshotsKept
<1>1. Spec => []SInv(p)
  BY SequentialInvariant
<1>2. SInv(p) /\ [Next]_vars => [CompleteKept]_vars
  BY NextAlone
<1>3. [][CompleteKept]_vars => SnapshotsKept
  BY PTL DEF CompleteKept, SnapshotsKept
<1>4. QED BY <1>1, <1>2, <1>3, PTL DEF Spec

(* Because add_version comes before publish_entry, what the registry       *)
(* serves of an active DID can be followed up with one snapshot, even when *)
(* an upload arrives long after its command has ended or died.             *)
THEOREM RegistryKeysAreHeld ==
  ASSUME NEW CONSTANT p, Alone(p)
  PROVE  Spec => []RegistryKeysHeld
<1>1. SInv(p) => RegistryKeysHeld
  BY DEF SInv, PublishedHeld, KeysComplete, RegistryKeysHeld
<1>2. QED BY <1>1, SequentialInvariant, PTL

(* A command that reports success, or a file to retry with, has left its   *)
(* entry there, as long as no upload arrives after its command has ended.  *)
THEOREM EndedEntriesAreHeld ==
  ASSUME NEW CONSTANT p, Alone(p), "delay" \notin Faults
  PROVE  Spec => []EndedEntryHeld
<1>1. SInv(p) => EndedEntryHeld
  <2>1. SUFFICES ASSUME SInv(p), NEW q \in Procs, pc[q] = "idle",
                        outcome[q] \in {"ok", "publish_failed", "salvaged"}
                 PROVE  updated[q] = registry \/ \E n \in Names : updated[q] = Content(n)
    BY DEF EndedEntryHeld
  <2>2. q = p
    BY DEF Alone
  <2>3. QED BY <2>1, <2>2 DEF SInv, EndedHeld, Content
<1>2. QED BY <1>1, SequentialInvariant, PTL

-----------------------------------------------------------------------------
(* The source file, when no command line names it in --out.                *)

(* A step replaces the source file by itself with one entry more, or       *)
(* leaves it alone: every other file has an inode of its own.              *)
LEMMA InputStep ==
  ASSUME NEW p, Alone(p), \A j \in Jobs : j.out # InputFile, SInv(p), [Next]_vars
  PROVE  \/ Content(InputFile)' = Content(InputFile)
         \/ /\ Rename(p) /\ Content(InputFile)' = updated[p]
            /\ \E e \in Entry : updated[p] = Append(Content(InputFile), e)
<1> USE DEF SInv
<1>1. /\ p \in Procs /\ \A q \in Procs : q = p
      /\ InputFile \in Names /\ TmpFile \in Names /\ InputFile # TmpFile
      /\ dir \in [Names -> Inodes \cup {NoInode}] /\ data \in [Inodes -> Seq(Entry)]
      /\ dir[InputFile] # NoInode /\ dir[InputFile] \in Inodes
      /\ job[p].out # InputFile /\ Content(InputFile) = data[dir[InputFile]]
  BY FilesAssumption DEF Alone, IInv, TypeOK, NamesApart, Content
<1>2. pc[p] \in {"open", "fill"} => path[p] \in Names /\ path[p] # InputFile
  BY <1>1 DEF Writing, InPlace, Salvaging
<1>3. ASSUME dir' = dir, data' = data PROVE Content(InputFile)' = Content(InputFile)
  BY <1>3 DEF Content
<1>4. ASSUME NEW j \in Jobs, Start(p, j) PROVE Content(InputFile)' = Content(InputFile)
  BY <1>3, <1>4 DEF Start, files
<1>5. CASE Load(p) \/ FindVersion(p) \/ Sign(p) \/ WriteLog(p) \/ NextVersion(p)
           \/ CreateSnapshot(p) \/ (\E r \in Roles : WriteKeyFile(p, r))
           \/ MissCredentials(p) \/ Publish(p) \/ PublishFails(p) \/ PickPending(p) \/ Crash(p)
  BY <1>3, <1>5 DEF Load, FindVersion, Sign, WriteLog, NextVersion, CreateSnapshot,
     WriteKeyFile, MissCredentials, Publish, PublishFails, PickPending, Crash, files
<1>6. CASE Open(p)
  <2> DEFINE free == Inodes \ InodesInUse
             i == IF dir[path[p]] # NoInode THEN dir[path[p]] ELSE CHOOSE k \in free : TRUE
  <2>1. pc[p] = "open" /\ path[p] \in Names /\ path[p] # InputFile
        /\ dir' = [dir EXCEPT ![path[p]] = i] /\ data' = [data EXCEPT ![i] = << >>]
    BY <1>2, <1>6 DEF Open
  <2>2. i # dir[InputFile]
    <3>1. CASE dir[path[p]] # NoInode
      BY <1>1, <2>1, <3>1 DEF NamesApart
    <3>2. CASE dir[path[p]] = NoInode
      <4>1. i \in free
        BY <1>6, <3>2 DEF Open
      <4>2. QED BY <1>1, <4>1 DEF InodesInUse
    <3>3. QED BY <3>1, <3>2
  <2> HIDE DEF i
  <2>3. dir'[InputFile] = dir[InputFile] /\ data'[dir[InputFile]] = data[dir[InputFile]]
    BY <1>1, <2>1, <2>2
  <2>4. QED BY <1>1, <2>3 DEF Content
<1>7. CASE Fill(p)
  <2>1. /\ pc[p] = "fill" /\ dir' = dir /\ fd[p] = dir[path[p]]
        /\ path[p] \in Names /\ path[p] # InputFile
        /\ \E log : data' = [data EXCEPT ![fd[p]] = log]
    BY <1>2, <1>7 DEF Fill, Writing
  <2>2. fd[p] # dir[InputFile]
    BY <1>1, <2>1 DEF NamesApart
  <2>3. data'[dir[InputFile]] = data[dir[InputFile]]
    BY <1>1, <2>1, <2>2
  <2>4. QED BY <1>1, <2>1, <2>3 DEF Content
<1>8. CASE Rename(p)
  <2>1. /\ pc[p] = "rename" /\ InPlace(p) /\ data' = data
        /\ dir[TmpFile] # NoInode /\ data[dir[TmpFile]] = updated[p]
        /\ dir' = [dir EXCEPT ![InputFile] = dir[TmpFile], ![TmpFile] = NoInode]
    BY <1>8 DEF Rename, TempPath, Writing
  <2>2. data[dir[InputFile]] = loaded[p]
    BY <2>1 DEF SourceKept
  <2>3. Content(InputFile)' = updated[p]
    BY <1>1, <2>1 DEF Content
  <2>4. \E e \in Entry : updated[p] = Append(loaded[p], e)
    <3>1. /\ loaded[p] \in Seq(Entry) /\ updated[p] \in Seq(Entry)
          /\ job[p].cmd \in {"rotate", "deactivate"}
      BY <1>1, OwnTypes DEF Job
    <3>2. PICK e : updated[p] = Append(loaded[p], e)
      BY <2>1, <3>1 DEF Signed
    <3>3. updated[p][Len(loaded[p]) + 1] = e /\ Len(updated[p]) = Len(loaded[p]) + 1
      BY <3>1, <3>2
    <3>4. e \in Entry
      BY <3>1, <3>3
    <3>5. QED BY <3>2, <3>4
  <2>5. QED BY <1>1, <1>8, <2>2, <2>3, <2>4
<1>9. ASSUME NEW log \in delayed, Arrive(log) PROVE Content(InputFile)' = Content(InputFile)
  BY <1>3, <1>9 DEF Arrive, files
<1>10. CASE UNCHANGED vars
  BY <1>3, <1>10 DEF vars, files
<1>11. QED
  BY <1>1, <1>4, <1>5, <1>6, <1>7, <1>8, <1>9, <1>10 DEF Next, Finished, Step

(* write_atomic: however a command ends, the source file has its old text  *)
(* or the old text and one entry.                                          *)
THEOREM InputGrowsAtomically ==
  ASSUME NEW CONSTANT p, Alone(p), \A j \in Jobs : j.out # InputFile
  PROVE  Spec => InputGrowsByOne
<1> DEFINE Grows ==
      LET old == Content(InputFile)  new == Content(InputFile)' IN
        new # old => new # << >> /\ SubSeq(new, 1, Len(new) - 1) = old
<1>1. Spec => []SInv(p)
  BY SequentialInvariant
<1>2. SInv(p) /\ [Next]_vars => [Grows]_vars
  <2>1. SUFFICES ASSUME SInv(p), [Next]_vars PROVE Grows
    OBVIOUS
  <2>2. Content(InputFile) \in Seq(Entry)
    <3>1. << >> \in Seq(Entry)
      OBVIOUS
    <3>2. QED BY <2>1, <3>1, FilesAssumption DEF SInv, IInv, TypeOK, Content
  <2>3. \A log \in Seq(Entry), e \in Entry :
          Append(log, e) # << >> /\ SubSeq(Append(log, e), 1, Len(Append(log, e)) - 1) = log
    OBVIOUS
  <2>4. QED BY <2>1, <2>2, <2>3, InputStep
<1>3. [][Grows]_vars => InputGrowsByOne
  BY PTL DEF InputGrowsByOne
<1>4. QED BY <1>1, <1>2, <1>3, PTL DEF Spec

-----------------------------------------------------------------------------
(* One local file as the source of every command, and none cut short.      *)

Uninterrupted ==
  /\ "crash" \notin Faults
  /\ \A j \in Jobs : ~j.did /\ j.out = NoName

(* The log is deactivated or goes with the newest snapshot.                *)
LogCurrent(log) ==
  EndsInDeactivation(log) \/ \E v \in DOMAIN keystore :
    (\A w \in DOMAIN keystore : w <= v) /\ KeysFor(log, keystore[v])

(* The source file is current except while its new keys are committed, and *)
(* the key that signs is the newest.                                       *)
Following(p) ==
  /\ pc[p] \notin Committing => LogCurrent(Content(InputFile))
  /\ pc[p] = "sign" => \A w \in DOMAIN keystore : w <= version[p]
  /\ OnlyDeactivationBreaks

(* verify_log accepts a log it has accepted before, with one more entry    *)
(* that is chained to it and signed by a key it allows.                    *)
LEMMA GrownLogVerifies ==
  ASSUME NEW log \in Seq(Entry), Verifies(log), NEW e \in Entry,
         e.seq = Len(log) + 1, e.prev = LastEntry(log).hash,
         Authorised(log, Len(log), e.signer)
  PROVE  Verifies(Append(log, e))
<1> DEFINE new == Append(log, e)
           n == Len(log)
<1>1. /\ new \in Seq(Entry) /\ Len(new) = n + 1 /\ new[n + 1] = e /\ n \in Nat \ {0}
      /\ \A i \in 1 .. n : new[i] = log[i]
      /\ LastEntry(log) = log[n] /\ new # << >>
  BY DEF Verifies, LastEntry
<1> HIDE DEF new, n
<1>2. \A i \in 1 .. n : \A k : Authorised(log, i, k) => Authorised(new, i, k)
  <2>1. SUFFICES ASSUME NEW i \in 1 .. n, NEW k, Authorised(log, i, k)
                 PROVE  Authorised(new, i, k)
    OBVIOUS
  <2>2. PICK j \in 1 .. i : /\ log[j].announces /\ k \in log[j].updateKeys
                            /\ \A m \in (j + 1) .. i : ~log[m].announces
    BY <2>1 DEF Authorised
  <2>3. j \in 1 .. n /\ \A m \in (j + 1) .. i : m \in 1 .. n
    BY <1>1, <2>2
  <2>4. new[j] = log[j] /\ \A m \in (j + 1) .. i : new[m] = log[m]
    BY <1>1, <2>3
  <2>5. QED BY <2>2, <2>4 DEF Authorised
<1>3. ASSUME NEW i \in 1 .. n PROVE ChainedAt(new, i) /\ AuthorisedAt(new, i)
  <2>1. ChainedAt(log, i) /\ AuthorisedAt(log, i)
    BY <1>3 DEF Verifies, n
  <2>2. /\ new[i] = log[i] /\ new[1] = log[1]
        /\ i # 1 => i - 1 \in 1 .. n /\ new[i - 1] = log[i - 1]
    BY <1>1, <1>3
  <2>3. ChainedAt(new, i)
    BY <2>1, <2>2 DEF ChainedAt
  <2>4. AuthorisedAt(new, i)
    BY <1>2, <2>1, <2>2 DEF AuthorisedAt
  <2>5. QED BY <2>3, <2>4
<1>4. ChainedAt(new, n + 1) /\ AuthorisedAt(new, n + 1)
  <2>1. n + 1 # 1 /\ (n + 1) - 1 = n /\ n \in 1 .. n
    BY <1>1
  <2>2. new[(n + 1) - 1] = log[n] /\ new[n + 1].seq = n + 1
    BY <1>1, <2>1 DEF n
  <2>3. Authorised(new, (n + 1) - 1, new[n + 1].signer)
    BY <1>1, <1>2, <2>1 DEF n
  <2>4. ChainedAt(new, n + 1)
    BY <1>1, <2>1, <2>2 DEF ChainedAt
  <2>5. AuthorisedAt(new, n + 1)
    BY <2>1, <2>3 DEF AuthorisedAt
  <2>6. QED BY <2>4, <2>5
<1>5. \A i \in 1 .. Len(new) : i \in 1 .. n \/ i = n + 1
  BY <1>1
<1>6. Verifies(new)
  BY <1>1, <1>3, <1>4, <1>5 DEF Verifies
<1>7. QED BY <1>6 DEF new

(* A deactivation stays in the log.                                        *)
LEMMA DeactivationStays ==
  ASSUME NEW log \in Seq(Entry), NEW e \in Entry,
         EndsInDeactivation(log) \/ e.deactivated
  PROVE  EndsInDeactivation(Append(log, e))
<1>1. /\ Len(Append(log, e)) = Len(log) + 1 /\ Append(log, e)[Len(log) + 1] = e
      /\ Len(log) \in Nat
      /\ \A i \in 1 .. Len(log) : Append(log, e)[i] = log[i]
  OBVIOUS
<1>2. \A i \in 1 .. Len(log) : i \in 1 .. Len(log) + 1
  BY <1>1
<1>3. Len(log) + 1 \in 1 .. Len(log) + 1
  BY <1>1
<1>4. QED BY <1>1, <1>2, <1>3 DEF EndsInDeactivation

(* The command signs with the newest authorized key, which the log it has  *)
(* read allows unless it is deactivated.                                   *)
LEMMA SignFollows ==
  ASSUME NEW p, Alone(p), Uninterrupted, SInv(p), Following(p), SInv(p)', Sign(p)
  PROVE  OnlyDeactivationBreaks'
<1> USE DEF SInv
<1>1. /\ p \in Procs /\ pc[p] = "sign" /\ IInv /\ \A q \in Procs : q = p
      /\ job[p].out = NoName /\ ~job[p].did
      /\ loaded[p] \in Seq(Entry) /\ Verifies(loaded[p])
  BY OwnTypes DEF Alone, Sign, IInv, LoadedUsable, Usable, TypeOK, Uninterrupted
<1>2. UNCHANGED <<data, registry, delayed, loaded>>
  BY DEF Sign, files, net
<1>3. CASE updated' = updated
  BY <1>2, <1>3 DEF Following, OnlyDeactivationBreaks, Held
<1>4. CASE updated' # updated
  <2> DEFINE signer == keystore[version[p]]["authorized"]
  <2>1. PICK e \in Entry :
          /\ updated' = [updated EXCEPT ![p] = Append(loaded[p], e)]
          /\ \/ \E k \in [Roles -> Nat] :
                  e = RotationEntry(loaded[p], serial + 1, signer, k)
             \/ e = DeactivationEntry(loaded[p], serial + 1, signer)
    BY <1>1, <1>4, SignMakesEntry
  <2>2. /\ e.seq = Len(loaded[p]) + 1 /\ e.prev = LastEntry(loaded[p]).hash
        /\ e.signer = signer
    BY <2>1 DEF RotationEntry, DeactivationEntry
  <2>3. loaded[p] = Content(InputFile)
    BY <1>1 DEF SourceKept, InPlace, NamesApart, Content
  <2>4. LogCurrent(loaded[p])
    BY <1>1, <2>3 DEF Following, Committing, Roles
  <2>5. ASSUME ~EndsInDeactivation(loaded[p]) PROVE Authorised(loaded[p], Len(loaded[p]), signer)
    <3>1. PICK v \in DOMAIN keystore :
            (\A w \in DOMAIN keystore : w <= v) /\ KeysFor(loaded[p], keystore[v])
      BY <2>4, <2>5 DEF LogCurrent
    <3>2. version[p] \in DOMAIN keystore /\ \A w \in DOMAIN keystore : w <= version[p]
      BY <1>1 DEF Following, IInv, SnapshotPresent
    <3>3. v \in Nat /\ version[p] \in Nat /\ v <= version[p] /\ version[p] <= v
      BY <1>1, <3>1, <3>2, OwnTypes
    <3>4. v = version[p]
      BY <3>3
    <3>5. QED BY <3>1, <3>4 DEF KeysFor
  <2>6. Verifies(Append(loaded[p], e)) \/ EndsInDeactivation(Append(loaded[p], e))
    <3>1. CASE EndsInDeactivation(loaded[p])
      BY <1>1, <3>1, DeactivationStays
    <3>2. CASE ~EndsInDeactivation(loaded[p])
      <4>1. Authorised(loaded[p], Len(loaded[p]), e.signer)
        BY <2>2, <2>5, <3>2
      <4>2. QED BY <1>1, <2>2, <4>1, GrownLogVerifies
    <3>3. QED BY <3>1, <3>2
  <2>7. \A log \in Held' : log \in Held \/ log = Append(loaded[p], e)
    <3>1. \A q \in Procs : updated'[q] = Append(loaded[p], e)
      BY <1>1, <2>1 DEF IInv, TypeOK
    <3>2. QED BY <1>2, <3>1 DEF Held
  <2>8. QED BY <2>6, <2>7 DEF Following, OnlyDeactivationBreaks
<1>5. QED BY <1>3, <1>4

(* Only the commands of the one process change what Following is about.    *)
LEMMA NextFollows ==
  ASSUME NEW p, Alone(p), Uninterrupted, SInv(p), Following(p), [Next]_vars
  PROVE  Following(p)'
<1> USE DEF SInv
<1>1. /\ p \in Procs /\ \A q \in Procs : q = p
      /\ SInv(p)' /\ IInv
      /\ job[p] \in Job /\ job[p].out = NoName /\ ~job[p].did
  BY NextAlone, OwnTypes DEF Alone, Uninterrupted, IInv, TypeOK
<1>2. OnlyDeactivationBreaks'
  <2>1. CASE Sign(p)
    BY <1>1, <2>1, SignFollows
  <2>2. CASE ~Sign(p) /\ Next
    <3>1. Held' \subseteq Held
      BY <1>1, <2>2, OthersMakeNoLog
    <3>2. QED BY <3>1 DEF Following, OnlyDeactivationBreaks
  <2>3. CASE UNCHANGED vars
    BY <2>3 DEF Following, OnlyDeactivationBreaks, Held, vars, files, net, memory
  <2>4. QED BY <2>1, <2>2, <2>3
<1>3. InputFile # NoName /\ \A j \in Jobs : j.out # InputFile
  BY FilesAssumption DEF Uninterrupted
<1>4. ASSUME pc[p] \notin Committing, keystore' = keystore,
             Content(InputFile)' = Content(InputFile)
      PROVE  LogCurrent(Content(InputFile))'
  <2>1. LogCurrent(Content(InputFile))
    BY <1>4 DEF Following
  <2>2. QED BY <1>4, <2>1 DEF LogCurrent
<1>5. ASSUME ~Rename(p) PROVE Content(InputFile)' = Content(InputFile)
  BY <1>3, <1>5, InputStep
<1>6. ASSUME pc[p] \notin Committing, keystore' = keystore, ~Rename(p),
             pc'[p] = "sign" => pc[p] = "sign" /\ version' = version
      PROVE  Following(p)'
  BY <1>2, <1>4, <1>5, <1>6 DEF Following
<1>7. ASSUME NEW j \in Jobs, Start(p, j) PROVE Following(p)'
  <2>1. pc[p] = "idle" /\ keystore' = keystore /\ pc'[p] \in {"idle", "load"}
    BY <1>1, <1>7, Whereabouts DEF Start
  <2>2. QED BY <1>6, <2>1 DEF Committing, Roles, Rename
<1>8. CASE Load(p) \/ Sign(p) \/ WriteLog(p) \/ Open(p) \/ Fill(p)
           \/ MissCredentials(p) \/ Publish(p) \/ PublishFails(p) \/ PickPending(p)
  <2>1. /\ pc[p] \in {"load", "sign", "write", "open", "fill", "publish", "salvage"}
        /\ keystore' = keystore
    BY <1>8 DEF Load, Sign, WriteLog, Open, Fill, MissCredentials, Publish, PublishFails,
       PickPending
  <2>2. pc'[p] # "sign"
    BY <1>1, <1>8, Whereabouts DEF Load, Sign, WriteLog, Open, Fill, MissCredentials,
       Publish, PublishFails, PickPending
  <2>3. QED BY <1>6, <2>1, <2>2 DEF Committing, Roles, Rename
<1>9. CASE FindVersion(p)
  <2>1. /\ pc[p] = "version" /\ pc'[p] = "sign" /\ keystore' = keystore
    BY <1>1, <1>9, Whereabouts DEF FindVersion
  <2>2. PICK v \in Visible(keystore) :
          IsLatest(keystore, v) /\ version' = [version EXCEPT ![p] = v]
    BY <1>9 DEF FindVersion
  <2>3. version'[p] = v
    BY <1>1, <2>2 DEF IInv, TypeOK
  <2>4. \A w \in DOMAIN keystore : w \in Visible(keystore)
    <3>1. /\ DOMAIN keystore \subseteq Nat /\ runs \in Nat /\ MaxRuns \in Nat
          /\ MaxVersion \in Nat /\ MaxRuns < MaxVersion
      BY <1>1, OwnTypes, FaultsAssumption, MaxVersionAssumption DEF Alone, IInv, TypeOK
    <3>2. \A w \in DOMAIN keystore : w <= runs /\ runs <= MaxRuns
      BY <2>1 DEF Numbered, Uncommitted
    <3>3. QED BY <3>1, <3>2 DEF Visible
  <2>5. \A w \in DOMAIN keystore' : w <= version'[p]
    BY <2>1, <2>2, <2>3, <2>4 DEF IsLatest
  <2>6. LogCurrent(Content(InputFile))'
    BY <1>4, <1>5, <2>1 DEF Committing, Roles, Rename
  <2>7. QED BY <1>2, <2>5, <2>6 DEF Following
<1>10. CASE Rename(p)
  <2>1. pc[p] = "rename" /\ keystore' = keystore /\ pc'[p] # "sign"
    BY <1>1, <1>10, Whereabouts DEF Rename
  <2>2. CASE Content(InputFile)' = Content(InputFile)
    BY <1>2, <1>4, <2>1, <2>2 DEF Following, Committing, Roles
  <2>3. CASE Content(InputFile)' # Content(InputFile)
    <3>1. Content(InputFile)' = updated[p]
      BY <1>3, <2>3, InputStep
    <3>2. pc'[p] \notin Committing => job[p].cmd = "deactivate"
      BY <1>1, <1>10, <2>1, Whereabouts DEF Rename, Writing, TempPath, Committing
    <3>3. job[p].cmd = "deactivate" => EndsInDeactivation(updated[p])
      <4>1. job[p].cmd = "deactivate" => Deactivated(updated[p])
        BY <2>1, SignedKeys
      <4>2. updated[p] \in Seq(Entry)
        BY <1>1, OwnTypes
      <4>3. updated[p] # << >> => Len(updated[p]) \in 1 .. Len(updated[p])
        BY <4>2
      <4>4. QED BY <4>1, <4>3 DEF Deactivated, LastEntry, EndsInDeactivation
    <3>4. pc'[p] \notin Committing => LogCurrent(Content(InputFile))'
      BY <3>1, <3>2, <3>3 DEF LogCurrent
    <3>5. QED BY <1>2, <2>1, <3>4 DEF Following
  <2>4. QED BY <2>2, <2>3
<1>11. CASE NextVersion(p) \/ CreateSnapshot(p)
  <2>1. pc'[p] \in {"mkdir", "authorized"}
    BY <1>1, <1>11, Whereabouts DEF NextVersion, CreateSnapshot
  <2>2. QED BY <1>2, <2>1 DEF Following, Committing, Roles
<1>12. CASE \E r \in Roles : WriteKeyFile(p, r)
  <2>1. PICK r \in Roles : WriteKeyFile(p, r)
    BY <1>12
  <2>2. /\ pc[p] = r /\ pc[p] \in Committing /\ job[p].cmd = "rotate" /\ pc'[p] # "sign"
    BY <1>1, <2>1, Whereabouts DEF WriteKeyFile, Committing, Numbered
  <2>3. CASE pc'[p] \in Roles
    BY <1>2, <2>2, <2>3 DEF Following, Committing
  <2>4. CASE pc'[p] \notin Roles
    <3>1. /\ version[p] \in DOMAIN keystore' /\ keystore'[version[p]] = staged[p]
          /\ \A v \in DOMAIN keystore' : v <= version[p]
      BY <1>1, <2>1, <2>4, WriteKeyFileAlone
    <3>2. Content(InputFile)' = Content(InputFile)
      BY <1>5, <2>2 DEF Rename, Roles
    <3>3. Content(InputFile) = updated[p]
      BY <1>1, <2>2 DEF Written, WrittenTo, Salvaging, Content
    <3>4. Verifies(updated[p]) \/ EndsInDeactivation(updated[p])
      <4>1. updated[p] # << >>
        BY <1>1, <2>2, OwnTypes DEF Signed, Committing, Roles
      <4>2. updated[p] \in Held
        BY <1>1, <4>1 DEF Held
      <4>3. QED BY <4>2 DEF Following, OnlyDeactivationBreaks
    <3>5. Verifies(updated[p]) => KeysFor(updated[p], staged[p])
      BY <2>2, SignedKeys DEF Roles
    <3>6. LogCurrent(Content(InputFile))'
      BY <3>1, <3>2, <3>3, <3>4, <3>5 DEF LogCurrent
    <3>7. QED BY <1>2, <2>2, <3>6 DEF Following
  <2>5. QED BY <2>3, <2>4
<1>13. ASSUME NEW log \in delayed, Arrive(log) PROVE Following(p)'
  <2>1. UNCHANGED <<dir, data, keystore, pc, version>>
    BY <1>13 DEF Arrive, files, memory
  <2>2. QED BY <1>2, <2>1 DEF Following, LogCurrent, Content
<1>14. CASE UNCHANGED vars
  <2>1. UNCHANGED <<dir, data, keystore, pc, version>>
    BY <1>14 DEF vars, files, memory
  <2>2. QED BY <1>2, <2>1 DEF Following, LogCurrent, Content
<1>15. ~Crash(p)
  BY DEF Crash, Uninterrupted
<1>16. QED
  BY <1>1, <1>7, <1>8, <1>9, <1>10, <1>11, <1>12, <1>13, <1>14, <1>15
  DEF Next, Finished, Step

(* The first log verifies and the first snapshot has its keys.             *)
LEMMA InitFollows ==
  ASSUME NEW p, Alone(p), Init
  PROVE  Following(p)
<1>1. Verifies(GenesisLog)
  BY DEF Verifies, GenesisLog, ChainedAt, AuthorisedAt, Scid
<1>2. Held = {GenesisLog}
  BY InitRefines, SameOperators DEF History!Init
<1>3. pc[p] = "idle" /\ Content(InputFile) = GenesisLog
  <2>1. FirstInode \in Inodes /\ FirstInode # NoInode
    BY FilesAssumption DEF FirstInode
  <2>2. QED BY <2>1, FilesAssumption DEF Alone, Init, Content
<1>4. KeysFor(GenesisLog, keystore[1]) /\ DOMAIN keystore = {1}
  BY DEF Init, InitialKeyStore, KeysFor, GenesisLog, Authorised, LastEntry, Roles
<1>5. LogCurrent(GenesisLog)
  BY <1>4 DEF LogCurrent
<1>6. QED BY <1>1, <1>2, <1>3, <1>5 DEF Following, OnlyDeactivationBreaks

(* Both invariants hold together.                                          *)
THEOREM UninterruptedInvariant ==
  ASSUME NEW CONSTANT p, Alone(p), Uninterrupted
  PROVE  Spec => [](SInv(p) /\ Following(p))
<1>1. Init => SInv(p) /\ Following(p)
  BY InitAlone, InitFollows
<1>2. SInv(p) /\ Following(p) /\ [Next]_vars => SInv(p)' /\ Following(p)'
  BY NextAlone, NextFollows
<1>3. QED BY <1>1, <1>2, PTL DEF Spec

(* However many uploads fail or come late, the newest snapshot has the     *)
(* keys of the local log, so the next command can sign.                    *)
THEOREM LatestSnapshotStaysCurrent ==
  ASSUME NEW CONSTANT p, Alone(p), Uninterrupted
  PROVE  Spec => []LatestSnapshotIsCurrent
<1>1. SInv(p) /\ Following(p) => LatestSnapshotIsCurrent
  <2>1. SUFFICES ASSUME SInv(p), Following(p), AllIdle,
                        ~EndsInDeactivation(Content(InputFile))
                 PROVE  \E v \in Visible(keystore) :
                          IsLatest(keystore, v) /\ KeysFor(Content(InputFile), keystore[v])
    BY DEF LatestSnapshotIsCurrent
  <2>2. p \in Procs /\ pc[p] = "idle"
    BY <2>1 DEF Alone, AllIdle
  <2>3. PICK v \in DOMAIN keystore :
          (\A w \in DOMAIN keystore : w <= v) /\ KeysFor(Content(InputFile), keystore[v])
    BY <2>1, <2>2 DEF Following, LogCurrent, Committing, Roles
  <2>4. v <= MaxVersion
    <3>1. /\ v \in Nat /\ runs \in Nat /\ MaxRuns \in Nat
          /\ MaxVersion \in Nat /\ MaxRuns < MaxVersion /\ v <= runs + 1 /\ runs <= MaxRuns
      BY <2>1, <2>2, <2>3, OwnTypes, FaultsAssumption, MaxVersionAssumption
      DEF Alone, SInv, IInv, TypeOK, Numbered
    <3>2. QED BY <3>1
  <2>5. QED BY <2>3, <2>4 DEF Visible, IsLatest
<1>2. QED BY <1>1, UninterruptedInvariant, PTL

(* No log that fails verify_log ever comes to be, except by extending a    *)
(* log that has been deactivated.                                          *)
THEOREM OnlyDeactivationEverBreaks ==
  ASSUME NEW CONSTANT p, Alone(p), Uninterrupted
  PROVE  Spec => []OnlyDeactivationBreaks
<1>1. Following(p) => OnlyDeactivationBreaks
  BY DEF Following
<1>2. QED BY <1>1, UninterruptedInvariant, PTL
=============================================================================
