------------------------------- MODULE Didtool ------------------------------
(***************************************************************************)
(* Invocations of `didtool did rotate` and `didtool did deactivate` on one *)
(* DID that has been created and published.  Each invocation is a process; *)
(* they share the working directory, the DID's key store directory and the *)
(* identifier registry.  A step is one access to shared state, so two      *)
(* invocations interleave and an invocation dies wherever the operating    *)
(* system lets them.                                                       *)
(*                                                                         *)
(* A file is an inode (dir, data): std::fs::write truncates what the name  *)
(* refers to and fills what it opened, and rename moves an inode, even one *)
(* that another process still has open.  The empty log stands for every    *)
(* text no log can be loaded from: empty, torn or garbled.                 *)
(***************************************************************************)
EXTENDS DidLog, KeyStore, FiniteSets

CONSTANTS
  Procs,          \* invocations that can be running at one time
  Names,          \* paths in the working directory
  NoName,         \* no path: an option that was not given
  InputFile,      \* the path --input names, or the default did.jsonl
  TmpFile,        \* InputFile with .tmp appended
  PendingFiles,   \* did-pending-1.jsonl, did-pending-2.jsonl, ... in order
  Inodes,         \* numbers for files
  Jobs,           \* command lines a user may enter
  Faults,         \* what the environment may do: a subset of FaultKinds
  MaxRuns         \* bound on the number of invocations

FaultKinds == {"crash", "refuse", "lose", "delay"}

Plan == [Roles -> {"keep", "generate", "import"}]
Job == [cmd : {"rotate", "deactivate"}, plan : Plan, did : BOOLEAN,
        out : Names \cup {NoName}, force : BOOLEAN,
        publish : BOOLEAN, credentials : BOOLEAN]

NoInode == 0

ASSUME FilesAssumption ==
  /\ NoName \notin Names
  /\ InputFile \in Names /\ TmpFile \in Names /\ TmpFile # InputFile
  /\ PendingFiles \in Seq(Names)
  /\ Inodes \subseteq Nat \ {NoInode} /\ Inodes # {}
ASSUME JobsAssumption == Jobs \subseteq Job /\ Jobs # {}
ASSUME FaultsAssumption == Faults \subseteq FaultKinds /\ MaxRuns \in Nat

VARIABLES
  dir, data,      \* name |-> inode or NoInode, inode |-> log
  keystore,       \* the DID's snapshots
  registry,       \* the log the registry serves
  delayed,        \* PUT bodies whose sender has given up, not yet arrived
  pc, job,        \* per process: next step, command line
  loaded,         \* per process: the log load_log returned
  version,        \* per process: prev_version, later the version it creates
  staged,         \* per process: StagedKeys
  updated,        \* per process: the log with the new entry
  path, fd,       \* per process: file being written
  outcome,        \* per process: how its last invocation ended
  serial,         \* keys and hashes drawn so far
  runs            \* invocations so far

files   == <<dir, data>>
net     == <<registry, delayed>>
memory  == <<job, loaded, version, staged, updated, path>>
counts  == <<serial, runs>>
vars    == <<files, keystore, net, pc, memory, fd, outcome, counts>>

Steps == {"idle", "load", "version", "sign", "write", "open", "fill", "rename",
          "commit", "mkdir", "publish", "salvage"} \cup Roles

Outcomes == {"none", "rejected", "load_failed", "key_error", "file_exists",
             "write_failed", "no_credentials", "publish_failed", "salvaged",
             "exhausted", "ok", "crashed"}

NoKeys == EmptySnapshot

Content(name) == IF dir[name] = NoInode THEN << >> ELSE data[dir[name]]

(* Mutant of WrittenTo: the default path although nothing was written.     *)
AlwaysWrittenTo(j) == IF j.out # NoName THEN j.out ELSE InputFile

(* The path write_log reports: --out, else the source path, else none.     *)
WrittenTo(j) == IF j.out # NoName THEN j.out
                ELSE IF j.did THEN NoName ELSE InputFile

(* What `did create` left behind: did.jsonl, one snapshot, the published   *)
(* log.                                                                    *)
FirstInode == CHOOSE i \in Inodes : TRUE

Init ==
  /\ dir = [n \in Names |-> IF n = InputFile THEN FirstInode ELSE NoInode]
  /\ data = [i \in Inodes |-> IF i = FirstInode THEN GenesisLog ELSE << >>]
  /\ keystore = InitialKeyStore
  /\ registry = GenesisLog
  /\ delayed = {}
  /\ pc = [p \in Procs |-> "idle"]
  /\ job = [p \in Procs |-> CHOOSE j \in Jobs : TRUE]
  /\ loaded = [p \in Procs |-> << >>]
  /\ version = [p \in Procs |-> 0]
  /\ staged = [p \in Procs |-> NoKeys]
  /\ updated = [p \in Procs |-> << >>]
  /\ path = [p \in Procs |-> NoName]
  /\ fd = [p \in Procs |-> NoInode]
  /\ outcome = [p \in Procs |-> "none"]
  /\ serial = 1
  /\ runs = 0

Goto(p, step) == pc' = [pc EXCEPT ![p] = step]

Stop(p, how) ==
  /\ Goto(p, "idle")
  /\ outcome' = [outcome EXCEPT ![p] = how]

(* What runs before anything is read: NoChange and NoTarget.               *)
Accepted(j) ==
  /\ j.cmd = "rotate" => \E r \in Roles : j.plan[r] # "keep"
  /\ ~(j.did /\ j.out = NoName /\ ~j.publish)

Start(p, j) ==
  /\ pc[p] = "idle"
  /\ runs < MaxRuns
  /\ runs' = runs + 1
  /\ job' = [job EXCEPT ![p] = j]
  /\ loaded' = [loaded EXCEPT ![p] = << >>]
  /\ version' = [version EXCEPT ![p] = 0]
  /\ staged' = [staged EXCEPT ![p] = NoKeys]
  /\ updated' = [updated EXCEPT ![p] = << >>]
  /\ path' = [path EXCEPT ![p] = NoName]
  /\ IF Accepted(j)
       THEN Goto(p, "load") /\ outcome' = [outcome EXCEPT ![p] = "none"]
       ELSE Stop(p, "rejected")
  /\ UNCHANGED <<files, keystore, net, fd, serial>>

(* Mutants of Usable: nothing is verified; a second deactivation is allowed*)
UsableUnverified(j, log) ==
  log # << >> /\ (j.cmd = "deactivate" => ~Deactivated(log))
UsableTwice(j, log) == Verifies(log)

(* A log the command goes on with: load_log has verified it, and deactivate*)
(* refuses one that already ends in a deactivation.                        *)
Usable(j, log) ==
  /\ Verifies(log)
  /\ j.cmd = "deactivate" => ~Deactivated(log)

Load(p) ==
  LET log == IF job[p].did THEN registry ELSE Content(InputFile) IN
  /\ pc[p] = "load"
  /\ IF Usable(job[p], log)
       THEN /\ Goto(p, "version")
            /\ loaded' = [loaded EXCEPT ![p] = log]
            /\ UNCHANGED outcome
       ELSE Stop(p, "load_failed") /\ UNCHANGED loaded
  /\ UNCHANGED <<files, keystore, net, job, version, staged, updated, path, fd, counts>>

(* latest_version, which never fails: the first snapshot is always there.  *)
FindVersion(p) ==
  /\ pc[p] = "version"
  /\ \E v \in Visible(keystore) :
       /\ IsLatest(keystore, v)
       /\ version' = [version EXCEPT ![p] = v]
  /\ Goto(p, "sign")
  /\ UNCHANGED <<files, keystore, net, job, loaded, staged, updated, path, fd,
                 outcome, counts>>

(* The private keys the command loads from the snapshot.                   *)
KeysNeeded(j) ==
  {"authorized"} \cup
    (IF j.cmd = "rotate" THEN {r \in Roles : j.plan[r] = "keep"} ELSE {})

(* stage_keys: per role the current key, a fresh one, or one from a file,  *)
(* which may be any key that was ever made.                                *)
StagedChoices(j, current) ==
  {s \in [Roles -> 1 .. serial + 1] :
     \A r \in Roles :
       /\ j.plan[r] = "keep" => s[r] = current[r]
       /\ j.plan[r] = "generate" => s[r] = serial + 1
       /\ j.plan[r] = "import" => s[r] <= serial}

(* Loads the keys, builds and signs the entry and appends it to the lines  *)
(* that were read.  The signer is the authorized key of the snapshot.      *)
Sign(p) ==
  LET current == keystore[version[p]]
      signer  == current["authorized"] IN
  /\ pc[p] = "sign"
  /\ \/ /\ Readable(keystore, version[p], KeysNeeded(job[p]))
        /\ IF job[p].cmd = "rotate"
             THEN \E s \in StagedChoices(job[p], current) :
                    /\ staged' = [staged EXCEPT ![p] = s]
                    /\ updated' = [updated EXCEPT ![p] =
                         Append(loaded[p],
                                RotationEntry(loaded[p], serial + 1, signer, s))]
             ELSE /\ updated' = [updated EXCEPT ![p] =
                       Append(loaded[p],
                              DeactivationEntry(loaded[p], serial + 1, signer))]
                  /\ UNCHANGED staged
        /\ serial' = serial + 1
        /\ Goto(p, "write")
        /\ UNCHANGED outcome
     \/ /\ ~Readable(keystore, version[p], KeysNeeded(job[p]))
        /\ Stop(p, "key_error")
        /\ UNCHANGED <<staged, updated, serial>>
  /\ UNCHANGED <<files, keystore, net, job, loaded, version, path, fd, runs>>

(* Only a rotation has keys to commit; --no-publish ends the command.      *)
AfterCommit(p) ==
  IF job[p].publish THEN Goto(p, "publish") /\ UNCHANGED outcome
                    ELSE Stop(p, "ok")
(* Mutant of AfterWrite: the new keys are not added to the key store.      *)
AfterWriteUncommitted(p) == AfterCommit(p)
AfterWrite(p) ==
  IF job[p].cmd = "rotate" THEN Goto(p, "commit") /\ UNCHANGED outcome
                           ELSE AfterCommit(p)

(* Mutant of TempPath: the file is written in place.                       *)
TempPathInPlace == InputFile

(* The name write_atomic fills before it renames.                          *)
TempPath == TmpFile

(* write_log: --out, else the temporary file next to the source, else      *)
(* nothing is written.                                                     *)
WriteLog(p) ==
  LET out == job[p].out IN
  /\ pc[p] = "write"
  /\ \/ /\ out # NoName
        /\ dir[out] # NoInode /\ ~job[p].force
        /\ Stop(p, "file_exists")
        /\ UNCHANGED path
     \/ /\ out # NoName
        /\ dir[out] = NoInode \/ job[p].force
        /\ path' = [path EXCEPT ![p] = out]
        /\ Goto(p, "open")
        /\ UNCHANGED outcome
     \/ /\ out = NoName /\ ~job[p].did
        /\ path' = [path EXCEPT ![p] = TempPath]
        /\ Goto(p, "open")
        /\ UNCHANGED outcome
     \/ /\ out = NoName /\ job[p].did
        /\ AfterWrite(p)
        /\ UNCHANGED path
  /\ UNCHANGED <<files, keystore, net, job, loaded, version, staged, updated, fd, counts>>

InodesInUse == {dir[n] : n \in Names} \cup {fd[q] : q \in Procs}

(* fs::write, first part: an existing file is truncated.                   *)
Open(p) ==
  LET old  == dir[path[p]]
      free == Inodes \ InodesInUse
      i    == IF old # NoInode THEN old ELSE CHOOSE k \in free : TRUE IN
  /\ pc[p] = "open"
  /\ old = NoInode => free # {}
  /\ dir' = [dir EXCEPT ![path[p]] = i]
  /\ data' = [data EXCEPT ![i] = << >>]
  /\ fd' = [fd EXCEPT ![p] = i]
  /\ Goto(p, "fill")
  /\ UNCHANGED <<keystore, net, memory, outcome, counts>>

(* fs::write, second part, into the inode that was opened.  Written over   *)
(* the text of another process that had the same file open, the shorter    *)
(* text keeps the tail of the longer one and is of no use to anyone.       *)
Fill(p) ==
  /\ pc[p] = "fill"
  /\ \/ data' = [data EXCEPT ![fd[p]] = updated[p]]
     \/ /\ data[fd[p]] # << >>
        /\ data' = [data EXCEPT ![fd[p]] = << >>]
  /\ fd' = [fd EXCEPT ![p] = NoInode]
  /\ IF path[p] = job[p].out THEN AfterWrite(p)
     ELSE IF path[p] = TempPath THEN Goto(p, "rename") /\ UNCHANGED outcome
     ELSE Stop(p, "salvaged")
  /\ UNCHANGED <<dir, keystore, net, memory, counts>>

(* Mutant of Rename: waits until there is a temporary file.                *)
RenameWhenThere(p) ==
  /\ pc[p] = "rename"
  /\ dir[TempPath] # NoInode
  /\ dir' = [dir EXCEPT ![InputFile] = dir[TempPath], ![TempPath] = NoInode]
  /\ AfterWrite(p)
  /\ UNCHANGED <<data, keystore, net, memory, fd, counts>>

(* fs::rename; another process may have moved the temporary file away.     *)
Rename(p) ==
  /\ pc[p] = "rename"
  /\ IF dir[TempPath] # NoInode
       THEN /\ dir' = [dir EXCEPT ![InputFile] = dir[TempPath], ![TempPath] = NoInode]
            /\ AfterWrite(p)
       ELSE Stop(p, "write_failed") /\ UNCHANGED dir
  /\ UNCHANGED <<data, keystore, net, memory, fd, counts>>

(* add_version looks for the latest version again ...                      *)
NextVersion(p) ==
  /\ pc[p] = "commit"
  /\ \E v \in Visible(keystore) :
       /\ IsLatest(keystore, v)
       /\ version' = [version EXCEPT ![p] = v + 1]
  /\ Goto(p, "mkdir")
  /\ UNCHANGED <<files, keystore, net, job, loaded, staged, updated, path, fd,
                 outcome, counts>>

(* ... and creates the next, or finds it created by somebody else.         *)
CreateSnapshot(p) ==
  /\ pc[p] = "mkdir"
  /\ keystore' = CreateVersion(keystore, version[p])
  /\ Goto(p, "authorized")
  /\ UNCHANGED <<files, net, memory, fd, outcome, counts>>

(* add_version writes authorized, authentication, assertion in that order. *)
WriteKeyFile(p, r) ==
  /\ pc[p] = r
  /\ keystore' = WriteKey(keystore, version[p], r, staged[p][r])
  /\ \/ r = "authorized" /\ Goto(p, "authentication") /\ UNCHANGED outcome
     \/ r = "authentication" /\ Goto(p, "assertion") /\ UNCHANGED outcome
     \/ r = "assertion" /\ AfterCommit(p)
  /\ UNCHANGED <<files, net, memory, fd, counts>>

(* require_registry_credentials runs only now.                             *)
MissCredentials(p) ==
  /\ pc[p] = "publish"
  /\ ~job[p].credentials
  /\ Stop(p, "no_credentials")
  /\ UNCHANGED <<files, keystore, net, memory, fd, counts>>

(* The PUT replaces the whole log at the registry.                         *)
Publish(p) ==
  /\ pc[p] = "publish"
  /\ job[p].credentials
  /\ registry' = updated[p]
  /\ Stop(p, "ok")
  /\ UNCHANGED <<files, keystore, delayed, memory, fd, counts>>

(* What may have become of a PUT that was not answered: never arrived (or  *)
(* refused, or no token), arrived and the answer lost, still on its way.   *)
Unanswered(p) ==
  \/ "refuse" \in Faults /\ UNCHANGED net
  \/ "lose" \in Faults /\ registry' = updated[p] /\ UNCHANGED delayed
  \/ "delay" \in Faults /\ delayed' = delayed \cup {updated[p]} /\ UNCHANGED registry

PublishFails(p) ==
  /\ pc[p] = "publish"
  /\ job[p].credentials
  /\ Unanswered(p)
  /\ IF WrittenTo(job[p]) # NoName
       THEN Stop(p, "publish_failed")
       ELSE Goto(p, "salvage") /\ UNCHANGED outcome
  /\ UNCHANGED <<files, keystore, memory, fd, counts>>

(* Mutant of PickPending: with every name taken it looks again.            *)
PickPendingAgain(p) ==
  LET free == {n \in 1 .. Len(PendingFiles) : dir[PendingFiles[n]] = NoInode} IN
  /\ pc[p] = "salvage"
  /\ IF free = {} THEN UNCHANGED <<path, pc>>
     ELSE \E n \in free : path' = [path EXCEPT ![p] = PendingFiles[n]] /\ Goto(p, "open")
  /\ UNCHANGED <<files, keystore, net, job, loaded, version, staged, updated, fd, outcome, counts>>

(* write_pending_log: the first name that does not exist.                  *)
PickPending(p) ==
  LET free == {n \in 1 .. Len(PendingFiles) : dir[PendingFiles[n]] = NoInode} IN
  /\ pc[p] = "salvage"
  /\ \/ \E n \in free :
          /\ \A m \in free : n <= m
          /\ path' = [path EXCEPT ![p] = PendingFiles[n]]
          /\ Goto(p, "open")
          /\ UNCHANGED outcome
     \/ /\ free = {}
        /\ Stop(p, "exhausted")
        /\ UNCHANGED path
  /\ UNCHANGED <<files, keystore, net, job, loaded, version, staged, updated, fd, counts>>

(* The process dies.  A key file it was writing may be left truncated, and *)
(* a PUT it was waiting for takes any of its ways.                         *)
Crash(p) ==
  /\ "crash" \in Faults
  /\ pc[p] # "idle"
  /\ \/ UNCHANGED keystore
     \/ pc[p] \in Roles /\ keystore' = WriteKey(keystore, version[p], pc[p], NoKey)
  /\ \/ UNCHANGED net
     \/ pc[p] = "publish" /\ job[p].credentials /\ Unanswered(p)
  /\ Stop(p, "crashed")
  /\ fd' = [fd EXCEPT ![p] = NoInode]
  /\ UNCHANGED <<files, memory, counts>>

(* A PUT arrives after its sender gave up.                                 *)
Arrive(log) ==
  /\ log \in delayed
  /\ registry' = log
  /\ delayed' = delayed \ {log}
  /\ UNCHANGED <<files, keystore, pc, memory, fd, outcome, counts>>

(* The statements of one invocation, in whatever order its pc asks for.    *)
Step(p) ==
  \/ Load(p) \/ FindVersion(p) \/ Sign(p)
  \/ WriteLog(p) \/ Open(p) \/ Fill(p) \/ Rename(p)
  \/ NextVersion(p) \/ CreateSnapshot(p) \/ \E r \in Roles : WriteKeyFile(p, r)
  \/ MissCredentials(p) \/ Publish(p) \/ PublishFails(p) \/ PickPending(p)

(* Every invocation of the bound has been made and has ended.              *)
Finished ==
  /\ runs = MaxRuns
  /\ \A p \in Procs : pc[p] = "idle"
  /\ UNCHANGED vars

Next ==
  \/ \E p \in Procs : (\E j \in Jobs : Start(p, j)) \/ Step(p) \/ Crash(p)
  \/ \E log \in delayed : Arrive(log)
  \/ Finished

Spec == Init /\ [][Next]_vars

(* A process that can go on does; nobody has to start one, and a delayed   *)
(* PUT may never arrive.                                                   *)
FairSpec == Spec /\ \A p \in Procs : WF_vars(Step(p))

-----------------------------------------------------------------------------
(* Properties.                                                             *)

(* Every log that exists: in a file, at the registry, on its way, in the   *)
(* memory of a process.                                                    *)
Held ==
  ({data[i] : i \in Inodes} \cup {registry} \cup delayed
     \cup {loaded[p] : p \in Procs} \cup {updated[p] : p \in Procs}) \ {<< >>}

TypeOK ==
  /\ dir \in [Names -> Inodes \cup {NoInode}]
  /\ data \in [Inodes -> Seq(Entry)]
  /\ IsKeyStore(keystore)
  /\ registry \in Seq(Entry)
  /\ \A log \in delayed : log \in Seq(Entry)
  /\ pc \in [Procs -> Steps]
  /\ job \in [Procs -> Jobs]
  /\ loaded \in [Procs -> Seq(Entry)]
  /\ version \in [Procs -> Nat]
  /\ staged \in [Procs -> Snapshot]
  /\ updated \in [Procs -> Seq(Entry)]
  /\ path \in [Procs -> Names \cup {NoName}]
  /\ fd \in [Procs -> Inodes \cup {NoInode}]
  /\ outcome \in [Procs -> Outcomes]
  /\ serial \in Nat \ {0} /\ runs \in Nat

(* With the types, what a step relies on: a process goes on with a log that*)
(* load_log has verified, with a snapshot that is there, with a named file.*)
LoadedUsable ==
  \A p \in Procs : pc[p] \in {"version", "sign"} => Usable(job[p], loaded[p])
SnapshotPresent ==
  \A p \in Procs : pc[p] = "sign" => version[p] \in DOMAIN keystore
PathNamed ==
  \A p \in Procs : pc[p] = "open" => path[p] \in Names

IInv == TypeOK /\ LoadedUsable /\ SnapshotPresent /\ PathNamed

(* Every log that exists anywhere extends a log that verifies by at most   *)
(* the one entry of the command that made it, and a log that is deactivated*)
(* is deactivated once and extended at most once: verify_log stops the     *)
(* next command, whatever was interleaved, lost or cut short before.       *)
LogsSound == \A log \in Held : VerifiesButLast(log) /\ DeactivatedOnce(log)

(* The abstract specification of the tool: see LogHistory.                 *)
History == INSTANCE LogHistory WITH logs <- Held
HistorySpec == History!Spec

(* write_atomic: the file that --input names is replaced by itself with one*)
(* entry appended or not at all, even when the process dies half way.      *)
InputGrowsByOne ==
  [][LET old == Content(InputFile)  new == Content(InputFile)' IN
       new # old => new # << >> /\ SubSeq(new, 1, Len(new) - 1) = old]_vars

(* add_version: a complete snapshot is retained as it is.                  *)
SnapshotsKept ==
  [][\A v \in DOMAIN keystore :
       Complete(keystore, v) =>
         v \in DOMAIN keystore' /\ keystore'[v] = keystore[v]]_vars

(* The snapshot with which the newest entry of the log can be followed up. *)
KeysFor(log, snapshot) ==
  /\ Authorised(log, Len(log), snapshot["authorized"])
  /\ snapshot["authentication"] = LastEntry(log).doc.authentication
  /\ snapshot["assertion"] = LastEntry(log).doc.assertion

(* What the world sees of an active DID is under control: one snapshot has *)
(* the private keys of its document and one of its update keys, because    *)
(* add_version comes before publish_entry.                                 *)
RegistryKeysHeld ==
  Verifies(registry) /\ ~Deactivated(registry) =>
    \E v \in DOMAIN keystore : KeysFor(registry, keystore[v])

AllIdle == \A p \in Procs : pc[p] = "idle"

EndsInDeactivation(log) == \E i \in 1 .. Len(log) : log[i].deactivated

(* When nothing is cut short and one local file is the source of every     *)
(* command, the key store's latest snapshot always belongs to that file,   *)
(* however many uploads failed or came late.                               *)
LatestSnapshotIsCurrent ==
  AllIdle /\ ~EndsInDeactivation(Content(InputFile)) =>
    \E v \in Visible(keystore) :
      IsLatest(keystore, v) /\ KeysFor(Content(InputFile), keystore[v])

(* ... and the log stays in order wherever it is kept, unless somebody has *)
(* deactivated the DID.                                                    *)
OnlyDeactivationBreaks ==
  \A log \in Held : Verifies(log) \/ EndsInDeactivation(log)

(* An entry whose command ended after publishing, or with a message that   *)
(* names a file to retry with, is at the registry or in such a file.       *)
EndedEntryHeld ==
  \A p \in Procs :
    pc[p] = "idle" /\ outcome[p] \in {"ok", "publish_failed", "salvaged"} =>
      updated[p] = registry \/ \E n \in Names : updated[p] = Content(n)

(* Every invocation comes to an end, whatever it finds at the pending      *)
(* names and however its requests fail.                                    *)
Termination == \A p \in Procs : pc[p] # "idle" ~> pc[p] = "idle"

(* None waits for a file, a name or a snapshot that another one has taken  *)
(* or taken away: an invocation that has started can always go on.         *)
NoneWaits == \A p \in Procs : pc[p] # "idle" => ENABLED Step(p)

-----------------------------------------------------------------------------
(* What the documents say and the code does not do.                        *)

(* didtool.md: rotate commits the new keys before it writes the log, so    *)
(* the local log never asks for a key that the key store does not have.    *)
LocalKeyHeld ==
  LET log == Content(InputFile) IN
  AllIdle /\ Verifies(log) /\ ~Deactivated(log) =>
    \E v \in DOMAIN keystore : Authorised(log, Len(log), keystore[v]["authorized"])

(* didtool.md: deactivate appends a final entry.                           *)
DeactivationIsFinal ==
  \A log \in Held : \A i \in 1 .. Len(log) : log[i].deactivated => i = Len(log)

(* key-store.md: the subdirectory number matches the sequence number that  *)
(* prefixes the versionId of the corresponding entry.                      *)
SnapshotNumberIsSeq ==
  \A p \in Procs :
    outcome[p] = "ok" /\ job[p].cmd = "rotate" =>
      version[p] = LastEntry(updated[p]).seq

(* didtool.md and rotate.rs: an entry that would have nowhere to go is     *)
(* rejected early or salvaged, never signed, paid for with a key store     *)
(* version and dropped.                                                    *)
CommittedEntryHeld ==
  \A p \in Procs :
    pc[p] = "idle" /\ outcome[p] # "crashed" /\ staged[p] # NoKeys =>
      updated[p] = registry \/ \E n \in Names : updated[p] = Content(n)

(* didtool.md: the source file is updated atomically.                      *)
InputAlwaysReadable == Content(InputFile) # << >>
=============================================================================
