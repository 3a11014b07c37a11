# A verification development of swiyu-rs

swiyu-rs holds three crates: `swiyu-core` (DIDs, DID documents, the DID log, status lists, trust
statements; no I/O), `swiyu-registries` (asynchronous clients of the identifier, status and trust
registries) and `swiyu-didtool` (the command line tool `didtool`, which keeps private keys in a key
store, DID logs in files and publishes them). These modules model the part with state that outlives
a command (the DID log, the key store and the commands that change both), the status list, which an
issuer keeps and verifiers read, the JSON in which logs and documents are written and read, and the
commands that answer a question about a DID: trust verification and proofs of possession.

## Inventory

| component | state | operations | what makes it correct |
|---|---|---|---|
| DID log (`swiyu-core/src/didlog`) | none; a log is a value | parse, `verify_log`, build entries, hash | an entry is chained to its predecessor and signed by a key its predecessors announce; nothing follows a deactivation |
| `did rotate`, `did deactivate` (`swiyu-didtool/src/cmd/did`) | local log file, key store, registry | load, verify, sign, write, commit keys, publish, salvage | a log only grows by one entry; the keys of what is published are held; no entry is lost |
| `did create` | same, and an identifier allocated at the registry | allocate, generate, write, commit, publish | no key and no identifier without the other |
| log files (`cmd/didlog.rs`, `cmd/file.rs`) | files of the working directory | `load_log`, `write_log`, `write_atomic`, `write_pending_log` | the file is whole before and after; a pending file is nobody else's |
| key store (`keystore.rs`) | one directory per DID with numbered snapshots | `commit`, `lookup`, `latest_version`, `add_version`, `load_*`, export | old snapshots are retained, the latest is complete and is the one the log asks for |
| registry clients (`swiyu-registries`) | none; the registry has the log, identifiers, status lists | `allocate_did`, `publish_log_entry`, `fetch_log`, status `create`, `update`, `list`, trust `fetch` | an error tells whether to try again; a lost answer does no harm |
| OAuth2 (`oauth2.rs`) | none; the rotated refresh token is discarded | one grant per command | the token is used for one call |
| status list (`statuslist`) | bytes with 1 or 2 bits per slot | `new`, `from_raw`, `value_at`, `set_at`, encode, decode | a write changes one slot and nothing else; a read gives what was written |
| proof of possession (`cmd/pop`) | none | `create`, `verify` | accepted only in its time window, for its nonce, by a current key |
| trust (`cmd/trust`) | caches of one command | `lookup`, `verify` | trusted only if issuer, signature, dates and status all agree |
| DIDs and documents (`did`, `diddoc`) | none | parse, write, resolve a key, find the log | what is written is read back; a name leads to the key and the place its writer meant |
| `did:jwk`, OpenID4VCI metadata | none | conversions and constants | round trips |

The commands talk to the key store and the files through the file system, to the registry over HTTPS.
Nothing locks anything: two invocations of `didtool` interleave as the operating system schedules
them. A command runs its statements in order, never retries, and stops at the first error, leaving
what it has done so far. Hard are therefore: a crash or an error between two of its writes; two
commands on the same file, snapshot directory or temporary name; an upload whose answer is lost or
which arrives late; sequences of commands whose sources (file or registry) no longer agree; an answer
pieced together from several fetches while others rotate and revoke; and a text that is built in one
place, hashed in another and taken apart in a third.

## Modules

| module | models | how |
|---|---|---|
| `DidLog` | `didlog/mod.rs`, `didlog/verify.rs`, the entries of `create`, `rotate`, `deactivate` | constant operators: `Verifies` is `verify_log`, `ChainedAt` the versionId check of `verify_entry`, `AuthorisedAt` the key check of `verify_proof`, `Authorised` the carried-forward `updateKeys` |
| `KeyStore` | one DID's directory (`keystore.rs`) | a function from snapshot numbers to the private keys of the three roles; `CreateVersion` and `WriteKey` are the two kinds of write in `add_version` |
| `LogHistory` | what rotate and deactivate promise | abstract specification: the set of logs in existence grows by one entry on a log that verifies |
| `Didtool` | `cmd_rotate`, `cmd_deactivate`, `load_log`, `write_log`, `write_atomic`, `write_pending_log`, `add_version`, `publish_entry` | one process per invocation, one action per access to shared state |
| `StatusValues` | `StatusValue`, `StatusListError` (`statuslist/mod.rs`) | a value is its name and its number; the latest call and its answer are part of the state |
| `StatusSlots` | what a status list promises | abstract specification: an array of values, no bytes |
| `StatusList` | `new`, `from_raw`, `TryFrom<&Value>`, `value_at`, `set_at` | a sequence of bytes; shifts and masks are divisions and remainders by powers of two |
| `Json` | `serde_json::Value` as the code uses it | constant operators: values and their members, `Option` and `Result`, a filter, replacement at every level of an entry |
| `DidDocJson` | `diddoc`, `key_role.rs`, `find_verifying_key` | a document to and from JSON, with references, embedded methods, every kind of key; the key that a DID URL leads to |
| `LogEntryJson` | `didlog/mod.rs`, `scid.rs`, `entry_edits.rs`, `proof.rs` | the array of did:tdw and the object of did:webvh, parameters, states, proofs, the lines of a file |
| `LogWire` | `verify_log`, `load_log`, the pipelines of `create`, `rotate`, `deactivate`, `new_rotation`, `new_deactivation`, `did log entry` | one log as a file of lines over time; written, reformatted, damaged and restored |
| `DidPlace` | `url_to_did_components`, `DID`, `log_url`, `extract_identifier`, `extract_registry_identifier` | constant operators on texts cut at their separators |
| `TrustStatement` | `truststatement`, `sd_jwt.rs` | constant operators: from a token with its disclosures to the claims shown |
| `TrustVerify` | `cmd_verify`, `cmd_lookup`, the trust registry's GET | one invocation, one action per fetch and check; the authorities are actions of their own |
| `DidCreate` | `cmd_create`, `KeyStore::commit`, `lookup`, `key list`, `key show`, `key export`, `allocate_did`, `publish_log_entry` | one invocation after another, one action per request and write |
| `PopTokens` | `pop create`, `pop verify`, `key versions` | the key store and the log move on between a token's making and its check |
| `MCDidtool`, `MCStatusList`, `MCWire`, `MCCommands` | | the instances for TLC; `MCWire` also says what a line may become by a damage in one place |
| `LogHistoryProofs`, `DidtoolProofs`, `StatusListProofs`, `CreateProofs`, `TrustProofs`, `SequentialProofs`, `PopProofs`, `WireProofs` | | the theorems |

### State and actions of `Didtool`

`dir` and `data` are names and inodes: `fs::write` truncates the file the name refers to (`Open`)
and later fills the inode it opened (`Fill`), `fs::rename` (`Rename`) moves the inode. This is what
makes two processes that share `did.jsonl.tmp` interesting. A short text is handed to the kernel in
one call, so a file is empty or has a whole text, unless two processes fill one inode. `keystore` is
the DID's directory, `registry` the log it serves, `delayed` the uploads whose sender has given up.
Per process: `pc`, the command line `job`, what `load_log` returned, the version read and later the
version created, `StagedKeys`, the updated log, the path and the open file, and how it ended.

The order of the actions is that of the code: `Start` (arguments, `NoTarget`), `Load`, `FindVersion`
(`latest_version`), `Sign` (keys, entry, proof, text), `WriteLog`, `Open`, `Fill`, `Rename`,
`NextVersion`, `CreateSnapshot`, `WriteKeyFile` three times, then `Publish`, `PublishFails` or
`MissCredentials`, and `PickPending`, `Open`, `Fill` for the pending file. `deactivate` skips the key
store part. `Crash` ends a process anywhere; an I/O error of the operating system has the same effect
at that place. `Arrive` is a late upload. Reading and signing are one step because nothing else is
written between them; `--input` and `--did`, `--out`, `--force`, `--no-publish` and missing
credentials are fields of `job`.

Keys and hashes are serial numbers: two are equal only when they come from the same step.

### State and actions of `StatusList`

`list` is the width and the bytes, `call` the latest call with its answer. `New`, `Wrap` (`from_raw`)
and `Parse` (`TryFrom<&Value>`) replace the list or are refused, `SetAt` writes, `ValueAt` reads. The
two arms of `value_at` and `set_at` differ in their numbers only and are one definition with the
width as a parameter. Their third arm, `UnsupportedBits`, is out of reach: no list has another width
(`TypeOK`). A JSON object is its `bits` member and either the decompressed bytes of `lst` or the error
that reading `lst` ends in. `U64` is 2^64, beyond which `checked_mul` refuses; `usize` is assumed to
have 64 bits. `Reserved(1)` is written as the number 1 and is read as `Revoked`: `StatusSlots` says so.

### State and actions of `LogWire`

`file` is the text a reader finds as a sequence of JSON lines, `written` what the writers put there,
`keys` the current key set, `clock` the time, `format` did:tdw 0.3 or did:webvh 1.0. `Create` is the
pipeline of `cmd_create`: the template with `{SCID}`, the proof slot stripped, the SCID as hash of
that, substitution, entry hash, versionId, proof. `Rotate` and `Deactivate` append the raw entry of
the two commands, `CoreRotate` and `CoreDeactivate` the typed entry of the library, `ForeignEntry` a
document of another tool about this DID. `Load` is `load_log`, with the cases it does not verify. A hash is the value
it was taken of and a signature its key, document and configuration, so two are equal just when the
bytes are. `Reformat` leaves a blank line; `Damage` loses, repeats or breaks a line or puts one of
`Damages(line)` in its place, and `Restore` undoes it. `Damages` is a constant: in the run it loses or
overwrites one member, element or string anywhere inside the line, and the theorems hold for any. The
SCID is replaced down to the lists of a key, the deepest level of an entry that `create` writes.

`EffectiveKeys` and `VerifyLog` say what the loop of `verify_log` computes without its running
variables; `WrittenLogsVerify` compares the answer with `DidLog!Verifies`, which the proofs are about.

### State and actions of `TrustVerify`

`published` and `tokens` are what the authorities serve: the document of each DID and the token at
each status list URL. `docs` and `lists` are the two caches of `VerifyContext`, `statements` the
decoded array in its sorted order, `reports` those finished. `FetchStatements` is the registry's GET
with the decoding of all statements, `CheckIssuer`, `CheckSignature` and `CheckStatus` are the checks
of `verify_one`, `LoadSignerDoc`, `FetchList` and `LoadListDoc` the fetches on a cache miss, and
`VerifyList` is `parse_and_verify_status_list`. A fetch may fail in each of its ways. Between any two
of these steps `AuthorityRotates`, `AuthorityRevokes` and `TimePasses` change the world; `now` is read
once, as in the code. `seenDocs`, `seenTokens`, `fetches`, `failed` and `changes` are history.

### State and actions of `DidCreate`

`registry` has an identifier not handed out, handed out, or with a log; `local` is the file of
`--out`, emptied before it is filled; `store` says of each DID how many of the fourteen moments of
`commit` (seven files created and filled) are over. `Begin`, `Allocate`, `PrepareKeys`, `Truncate`,
`WriteLogFile`, `Commit`, `WriteEntry`, `Finish` and `Upload` follow `cmd_create`, each with the errors
it may end in; `Killed` ends the process anywhere. A POST or PUT may take effect although its answer is
lost or the process is killed meanwhile; that a PUT arrives after its sender has ended is in `Didtool`.
The other commands' view of the store is in operators: `Lookup`, `ResolveEntry`, `KeyShow`,
`KeyExport`, `KeyList`. A DID is its place, its key set and the time of its first entry, since its SCID
is a hash over these: two invocations within one second that import the same keys for the same URL
make the same DID. The command line itself never passes `--url`; `cmd_create` takes it all the same.

### State and actions of `PopTokens`

`keys` is the key store entry, `didlog` the log that the registry serves and `copies` the logs in files,
in the terms of `KeyStore` and `DidLog`; `pops` are the tokens made. `CreatePop` makes a token with any
role and version. `RotateDid` is `did rotate` seen from the next command: it loads any log that verifies,
from the registry or a file, be it older than the newest snapshot, deactivated or not; numbers the
snapshot by the key store and the entry by the log; announces an authorized key when it is not the one
that signs; and takes a role's key over, generates it or imports one, which may have been used before
(`Plans`). `Deliver` says where the new log goes: to the registry or not (`--no-publish`, a failed
upload), into the file it came from, into another one (`--out`, a pending file), or nowhere if it came
from the registry. `DeactivateDid` does the same for `did deactivate`, which does refuse a deactivated
log, and `UploadCopy` uploads the log of any file, the newest or an old one. So snapshots and entries get
out of step as they do in `SnapshotNumber`, and a deactivated log gets entries as in `FinalEntry`. A
command that dies or cannot write half way is in `Didtool` and not here. `VerifyPop` changes nothing and
is an operator: the answer to a token under a command line, whose verifier's clock may lag. Tokens of
others (`OtherTokens`) have one thing wrong each.

### Abstractions

`Didtool` leaves out did:webvh (refused by both commands), another format, a DID that is not in the
key store, `versionTime`, the text of entries, public key files, and the identity of the DID (there is
one); a signature is its signer's key. `LogWire` has the texts, the times and the formats for one
writer at a time. Left out everywhere: the characters of base58, base64, multibase, percent encoding
and PEM; ISO 8601 (a time is a number of seconds); zlib; and the layout of what is printed.

## Runs

| run | shows | bounds |
|---|---|---|
| `Sequential` | types; the keys of what the registry shows are held in one snapshot (`RegistryKeysHeld`); an entry reported as published, saved or salvaged is there (`EndedEntryHeld`); the local log is replaced by itself and one entry or not at all (`InputGrowsByOne`); complete snapshots are retained (`SnapshotsKept`); every command ends (`Termination`) | one process, 3 invocations of 8 command lines, crashes, refused uploads and lost answers |
| `Concurrent` | `LogsSound`; the refinement `HistorySpec`; an invocation that has started can always go on (`NoneWaits`) | 2 processes (symmetric), 3 invocations of 3 command lines, crashes and refused uploads |
| `LocalSource` | without crashes and with a local source the latest snapshot is the one the log asks for, and no log is spoiled unless the DID was deactivated | one process, 4 invocations of 6 command lines, refused, lost and delayed uploads |
| `StatusList` | `SlotsSpec`: the bytes implement an array, whatever was written, refused or received at another width before; `WritesAreMasked`: the arithmetic of `WithField` is the expression of masks and shifts in `set_at`, evaluated bit by bit | lists of up to three bytes, 3 bitstrings, 4 indices, 6 values, 3 widths, `U64` = 32 |
| `Wire` | what `create`, `rotate`, `deactivate` and the library write verifies just when `DidLog!Verifies` says so (`WrittenLogsVerify`); one damage in a file is noticed or leaves a prefix (`DamageIsNoticed`); a key found in an unverified file was generated for its role (`ResolvedKeyIsWritten`); a document survives reading and writing (`ReadIsStable`); times rise and stay in the past (`VersionTimesInPast`); the two views of an entry agree (`ViewsAgree`); URL, DID and registry identifier agree (`LogUrlLeadsBack`, `IdentifiersAgree`) | logs of 3 entries, damaged up to 2; 2 sets of rotated roles, 2 foreign documents, `Backdate` = 2 (5 s in the code), a clock of 4; every URL of up to 4 segments out of 6, with 6 hosts |
| `Commands` | trust: one fetch per source (`OneFetchEach`), only signed claims are shown (`ShownClaimsAreSigned`), a good report and the verdict are justified by keys and lists that were published (`TrustedIsJustified`), are complete and exact while nothing changes (`QuietVerdictIsExact`), and errors have their cause (`QuietErrorHasCause`); create: what is published or reported is held, what is listed is usable, orphaned identifiers and lone logs have a cause; pop: an accepted token's key is vouched for, a fresh one is accepted, `key versions` explains every log there is (`VersionsExplainTheLog`); both commands end (`TrustEnds`, `CreateEnds`) | 8 arrays of up to 3 statements, 2 DIDs, 2 lists, 2 changes during one verification; 2 invocations of `create` with 10 command lines; 1 token, snapshots up to 3, 2 logs in files, 3 plans of a rotation, clocks 1 apart with `Skew` = 1 (60 s in the code) |
| `ForeignKey` | a document the code disagrees with, below | `MCCommands` with one statement, 1 change |
| `CommitOrder`, `FinalEntry`, `SnapshotNumber`, `NoCredentials`, `SharedTmp` | documents the code disagrees with, below | 1 or 2 invocations |

Why the bounds are enough. A wrongly signed entry needs one command to make it and a second to meet
it; a third shows that nothing follows. The races are between two commands: a third process can only
repeat what the second does to a shared name. Two pending names and three commands exhaust the names.
Six inodes are as many as there are names and open files at one time. `MaxVersion` (9999 in the code)
is 9, more than the invocations can reach. In `StatusList` the indices are a slot at the start of a
byte, one in its middle, the first of the next byte at two bits and one past the end at two bits; the
writes reach every combination of values in these slots. All other bytes and indices are covered by
the proof. In `Wire` a third entry is the first whose keys may be carried forward over one that
announces none, and three entries with `Backdate` = 2 are enough for the times to catch up with the
clock. Damage is one place, for a disk or a transfer; two changes that fit together are a forgery and
not what `load_log` is for. In `Commands` two statements share a cache and a third comes after both; two
changes let a rotation and a revocation happen between any two steps; two invocations of `create`
meet on the file, the store or a second identifier. With two snapshots made after the first, a rotation
whose upload fails is followed by one whose entry carries the keys of both, and the older of two files
can be uploaded over the newer. The boundary of `Skew` is met with clocks 1 apart: a token made at 1 is seen
at 0, one of another maker with `iat` 2 is too early there.

`Wire` and `Commands` each hold sessions that share no state: a log or a URL; a verification, a
series of creations or proofs of possession. The variable `logUrl` or `session` is fixed at the start,
so the runs explore the sum of the sessions and not their product.

Fairness. `FairSpec` has weak fairness of `Step(p)` for each process: a process that can go on is
scheduled. Nobody is obliged to start a command, a process need not crash, and a late upload need not
arrive. Every request has an end: it is answered or given up (`PublishFails`). `Sequential` checks
`Termination` under it. For two invocations at a time `Concurrent` checks `NoneWaits`, which needs no
fairness: wherever the other one is and whatever it took away, a process that has started has a step
(`ENABLED`). `TrustSpec` and
`CreateSpec` likewise have weak fairness of the steps of a command that was started (`TrustStep`,
`CreateStep`): nobody has to start one, to kill one, or to rotate and revoke.

## What the runs found

* `ForeignKey`: `didtool.md:917-920` and `trust/verify.rs:104` have the key of a statement looked up in
  the issuer's document. `verify_signature` takes the document of the DID in the statement's `kid`, which
  is nowhere compared with `iss` (`trust/verify.rs:217`): a statement under the expected issuer's name,
  signed with another DID's key under that DID's `kid`, is trusted (`SignedByIssuer`).
* `CommitOrder`: `rotate` writes the log before it commits the keys (`rotate.rs:199`, `212`), while
  `didtool.md` has the two steps the other way round. After a crash in between the local log asks for
  a key that exists nowhere.
* `FinalEntry`: `rotate` does not look at `deactivated`. It appends one more entry to a deactivated
  log and publishes it; the log no longer verifies. `deactivate` does check.
* `SnapshotNumber`: snapshot numbers follow the directory and not the log. A failed upload from `--did`
  puts them out of step for good.
* `NoCredentials`: the credentials are looked at after the entry is signed and the keys are committed.
  With `--did` and without `--out` the entry is lost.
* `SharedTmp`: two invocations on one file share one temporary name; one can rename the file the other
  has just truncated.

Known without a run of their own: after a crash inside `add_version` the highest snapshot is
incomplete (`keystore.rs:275`, `key-store.md:25`); two invocations may fill one snapshot directory
(`keystore.rs:273`, `key-store.md:27`); snapshot 10000, made by the last of the 9999 promised updates,
is invisible (`keystore.rs:171`, `key-store.md:29`).

Met while modelling, and kept in the models as the code has it:

* `load_log` with `--input` verifies against the newest document's id; when that is no DID, the log is
  loaded unverified (`didlog.rs:182`; the comment above speaks of the genesis state).
  `DamageIsNoticed` names this exception.
* `verify_log` hashes the typed entry written again: unknown parameters are dropped and a missing
  `portable` is supplied. A log cut after any entry verifies: a prefix is a log.
* More than `Backdate` entries in quick succession bring `versionTime` up to the clock.
* `pop verify` with a log takes the keys of the document also after a deactivation, which leaves the
  document as it is; only the authorized key is gone.
* `did create` takes an identifier before it reads the key files (`OrphansHaveCause` lists the errors
  after which one stays unused), writes `--out` without asking whether it exists, and a commit that dies
  while `did.txt` is empty leaves a line without a DID in `key list`.
* `trust verify` does not verify the log it takes a document from: `published` is what the registry
  serves.
* `didtool.md:924` and `:1011` have a statement hold while `nbf ≤ now ≤ exp`; `check_freshness` calls it
  expired at `now = exp` (`trust/verify.rs:239`). `Timely` is the documented interval. In that one second
  the code says less than the document, so `TrustedIsJustified` holds; `QuietVerdictIsExact` leaves it
  and statements with a foreign `kid` out, and both say so.
* A colon in a URL's path is a separator in the DID; a log at the root is looked for under
  `.well-known`; an allocated URL that ends in `did.jsonl/` gives `create` and `rotate` different
  identifiers. The properties of `DidPlace` name these cases.

## Proofs

`LogHistoryProofs` proves `HistoryIsSound`: under the abstract specification every log in existence is
`Sound`: it verifies but for its last signature, a deactivation leaves no key, and at most one entry
follows it. The heart is `NothingFollowsDeactivation`: in a log that verifies, a deactivated entry is
the last, because the entry after it would need a key announced by an entry after the deactivation
and not later than itself. `GrowthIsSound` adds one entry.

`DidtoolProofs` proves, for any set of processes, names, inodes, command lines and faults that satisfies
the assumptions of the module:

* `TypeCorrect`: `Spec => []TypeOK`. `TypeOK` is not inductive: that `Sign` appends a well-typed entry
  needs the loaded log to be a non-empty log (`LoadedUsable`) and the snapshot to exist
  (`SnapshotPresent`); that `Open` binds a name needs `PathNamed`. Their conjunction `IInv` is
  inductive, one lemma per action.
* `Refinement`: `Spec => HistorySpec`. Only `Sign` makes a log that was not held before
  (`OthersMakeNoLog`), and it makes one that has grown from the log in memory (`SignGrowsLog`).
* `LogsAreSound`: `Spec => []LogsSound`, from `Refinement` and `HistoryIsSound`.

`SequentialProofs` proves what `Sequential` and `LocalSource` check, for any command lines and faults and
any number of invocations below `MaxVersion`, one at a time. `Alone(p)` states these circumstances, and
that no pending file has the name of the temporary file; `write_pending_log` makes its names from a
prefix of its own. The bound is the code's: snapshot 10000 is invisible to `latest_version`
(`keystore.rs:171`), and every invocation makes one snapshot at most. With two invocations at a time
they share the temporary file; `SharedTmp` shows what comes of it.

* `SequentialInvariant`: `SInv` is inductive. The properties speak of the moments between commands, so
  `SInv` says what a command has done so far: which file it is at and that no two names share an inode
  (`Writing`, `NamesApart`), that the source is as it was read until the rename (`SourceKept`), that
  what was written and signed is one entry on the loaded log (`Written`, `Signed`), which numbers
  snapshots have and which roles of the newest one are written (`Numbered`), and that the keys of a log
  on its way are held already (`PublishedHeld`).
* `CompleteSnapshotsKept`, `RegistryKeysAreHeld`: `SnapshotsKept` and `RegistryKeysHeld`, through crashes
  between any two steps and uploads that fail, get lost or arrive after their command. The order of
  `add_version` before `publish_entry` carries the second.
* `EndedEntriesAreHeld`: `EndedEntryHeld`, if no upload arrives late; a late upload of an older log
  replaces the entry of a command that has ended since.
* `InputGrowsAtomically`: `InputGrowsByOne`, if no `--out` names the source file, which would be written
  in place.
* `LatestSnapshotStaysCurrent` and `OnlyDeactivationEverBreaks`, if no command crashes and all work on
  the local file without `--out` (`Uninterrupted`): a crash between the rename and `add_version` leaves
  a log that is ahead of the key store, and a log from the registry may be older than the newest
  snapshot. `Following` adds to `SInv` that the newest snapshot goes with the log in the source file but
  during the commit, and that all logs verify up to a deactivation.

`PopProofs` proves the three invariants of `PopTokens`, for any skew of the clocks, any command lines, any
number of files and any tokens of other makers: `AcceptedPopsAreVouched`, `FreshPopsAreAccepted` and
`LogsAreExplained`. `PopInv` says that snapshots are numbered without a gap (`StoreNumbered`), that the
documents of every log, at the registry or in a file, are those of snapshots in their order (`PlacedIn`),
and that a token of this tool names its own key (`OwnToken`). A new snapshot is later than all to which a
document of any log belongs, so an entry can be appended to any of them (`PlacedAppend`), and no step
changes a snapshot (`PlacedInMore`). That a key replaced between two entries is on the line of a version
in between is the least snapshot at which the key has changed (`ReplacedAtAVersion`). Nothing is assumed
of the logs but that they came from these commands.

`StatusListProofs` proves, for bytes of any length and any arguments:

* `TypeCorrect`: after any calls the list has one of the two widths and is made of bytes.
* `ListImplementsArray`: `Spec => SlotsSpec`. A byte is taken apart into eight bits (`ByteHasBits`); a
  field is the bits at its shift (`FieldOfBits`), and writing it is replacing them
  (`WithFieldOfBits`), so the field holds what was written and the other fields are unchanged
  (`FieldWritten`). Two slots are in two bytes or at two shifts (`PlacesDiffer`). `WriteIsLocal` puts
  this together for a list, and one lemma per call maps its step to a step of `StatusSlots`.

`CreateProofs` proves, for any identifiers, key sets, command lines, errors and deaths of any number of
invocations of `did create`, the five invariants that `Commands` checks: `ServedKeysAreHeld`,
`ReportsAreTrue`, `ListingIsUsable`, `OrphansAreAccounted` and `LoneLogsAreAccounted`, besides
`CreateTypeCorrect`. None of them is inductive: that a PUT serves a DID whose keys are held needs to be
known of the process while it is still writing. `IInv` adds what the program counter says of the entry
being written (`Progress`, `Running`), that an identifier is taken by one invocation (`TakenOnce`), that
only this invocation writes an entry for it (`EntriesAreOwn`), and restates
the properties in terms of the fourteen moments of `commit` (`ServedIsWhole`, `ReportedIsWhole`,
`OrphansEnded`, `LoneEnded`). `UsableIsWhole` connects the two: every command finds what it needs just
when all fourteen are over. All endings that touch nothing are one lemma (`EndStep`).

`TrustProofs` proves, for any statements, documents, lists and changes of the world, the five
invariants of `trust verify`: `FetchesAreFew`, `TrustIsJustified`, `QuietVerdicts`, `QuietErrors` and
`ClaimsShown`, besides `TrustTypeCorrect`. `TInv` adds how far the loop is (`InTurn`), what the checks
so far have established of the statement at hand (`AtHand`), that both caches hold what was published
during the command (`CachesAreSeen`), that what was fetched is cached (`Counted`), that while nothing
changes what was seen is what is there (`Still`), and that every finished report is right about its
statement (`ReportsAreRight`). It does so in the code's reading (`InTime`, `Sustained`), with the document
of the `kid` and `exp` exclusive; `SustainedIsSupported` and `InTimeIsTimely` give the documented one
where the two agree. The world's changes are one lemma (`ChangeHolds`): documents and tokens
once seen stay seen, so what supported a statement goes on supporting it. `ClaimsShown` rests on
`DecodedIsSigned`, about the operators of `TrustStatement`.

`WireProofs` proves what the bytes of a log do, for logs, documents and paths of any length, any
documents of other tools, any damage and any clock:

* `WireInvariant`: `WireInv` is inductive. A line that was written is read as the entry it was built
  from (`LineInv`); the entry has its number, a full document with this DID's id, and one proof over
  that document by one key (`WellFormed`); its versionId is the hash of the entry with its
  predecessor's in its place (`Chained`); its time is later than the one before and at most one second
  per entry ahead of the backdated clock (`Dated`); and the SCID is the hash of the genesis entry with
  the placeholder put back (`ScidMatches`). One lemma per action keeps it; all rest on `LineWritten`,
  about the tail of the pipelines, and `EntryAppended`. `GenesisWritten` is about `create`, whose
  replacement of `{SCID}` the verifier reverses (`GenesisPartsReplaced`). TLC checks `WireInv` on the
  states of `Wire`.
* `WrittenLogsAlwaysVerify`: `WrittenLogsVerify`. `EntryVerifies` uses `WireInv` to discharge every check
  of `verify_entry` but who signed, and `EffectiveKeysAre` identifies the keys that `verify_log` carries
  forward with `DidLog!Authorised`.
* `TimesStayInPast` and `ViewsAlwaysAgree`: `VersionTimesInPast` and `ViewsAgree`. The second needs no more
  of the file than that it is a sequence of lines.
* `AlwaysStable`: `ReadIsStable`, for every JSON value. `DocMembers` says which members a document is
  written with, and one lemma per kind of member that it is read back (`JwkBack`, `MethodBack`,
  `ListedBack`, `ServiceBack`, ..., `DocBack`).
* `VersionIdFixesLog`: two logs that `verify_log` accepts for a DID and that end in the same versionId
  say the same in every entry, whoever made them. Nothing is assumed of the writers; a hash is taken
  to be injective, as everywhere in `LogWire`.
* `UrlsLeadBack` and `IdentifiersAlwaysAgree`: `LogUrlLeadsBack` and `IdentifiersAgree`, for a path of any
  number of segments.

The induction is over numbers, by a counterexample that is the least (`LeastNumber`) or the greatest
(`GreatestNumber`). `Dropping`, which removes empty segments and blank lines, is a recursive function
over the prefixes of a sequence: there is one such function for each length (`KeepsExists`,
`KeepsUnique`), and what it keeps follows step by step (`DroppingAppend`, `DroppingType`, `DroppingNone`,
`DroppingAll`, `DroppingLast`). `ReplacedIn` is defined level by level, so each level has its lemma.

The assumptions are `ArgumentsAssumption`, `FilesAssumption`, `JobsAssumption`, `FaultsAssumption`,
`MaxVersionAssumption`, `CreateAssumption`, `TrustAssumption`, `PopAssumption`, `UrlsAssumption` and
`WireAssumption`: numbers and names are what they are called, and marks such as `Missing` are none of
the values they stand beside. Model-checked only:

* `Termination`, `TrustEnds` and `CreateEnds`: liveness is outside the prover's reach, as is `NoneWaits`,
  which speaks of `ENABLED`.
* `WritesAreMasked`, which compares the model's arithmetic with the `Bitwise` operators; those are
  recursive.
* `DamageIsNoticed` and `ResolvedKeyIsWritten`. They are about what one damage can do to a line and are
  false for arbitrary `Damages`: one could be a forgery, or a key nobody generated. `MCDamages`, which
  damages a value in one place, is recursive over values of any depth.
* The violations under "What the runs found".

## Plan

Done: `DidLog`, `KeyStore`, `Didtool`, `LogHistory`, `StatusList`, `StatusSlots`, their runs and
theorems; the wire formats (`Json`, `DidDocJson`, `LogEntryJson`, `LogWire`, `DidPlace`); the other
commands (`DidCreate`, `TrustStatement`, `TrustVerify`, `PopTokens`).

The theorems cover the safety properties that the passing runs check, but for `NoneWaits`,
`WritesAreMasked`, `DamageIsNoticed` and `ResolvedKeyIsWritten`.

Left:

1. `SequentialProofs` for a source at the registry, where `LatestSnapshotIsCurrent` needs the newest log
   that was published rather than the local one.
2. `DamageIsNoticed` for a damage in one place: `VersionIdFixesLog` settles those that leave the last
   versionId as it was; for the others it has to be said what one place may become.

No module that is proved about reaches a RECURSIVE operator; `MCWire` declares one and `MCStatusList`
compares with recursive ones of the library, for TLC alone.

## Not modelled

* The status registry client: one request per call, no state, and no caller in this repository.
* `did:jwk` and the OpenID4VCI metadata: conversions and constants for other programs.
* The argument parser, the printed layout, and the encodings named under Abstractions.
* `KeyStore::remove` and `verify_with_embedded_jwk`, which no command calls.
