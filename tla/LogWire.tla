------------------------------ MODULE LogWire ------------------------------
(***************************************************************************)
(* One DID log as a file of lines: created, extended and ended as the tool *)
(* and as a user of the core crate write entries, read back through the    *)
(* parser and the verifier, and damaged in one place, as a file on a disk  *)
(* or at a registry may be.                                                *)
(*                                                                         *)
(* keys is the key set that the document and the next signature use, clock *)
(* the time in seconds.  `file` is what a reader finds, `written` what was *)
(* written: they differ only after a damage, and the file is then restored.*)
(***************************************************************************)
EXTENDS LogEntryJson

CONSTANTS Backdate,       \* seconds that a versionTime lies behind the clock
          RoleChoices,    \* the sets of roles that a rotation renews
          ForeignDocs(_), \* documents that other tools write for a SCID
          Damages(_),     \* what a damage may make of a line
          MaxEntries,     \* bound: entries of the log
          MaxDamaged,     \* bound: logs of at most this length are damaged
          MaxClock        \* bound: the clock stops here

ASSUME WireAssumption == Backdate \in Nat

VARIABLES file, written, keys, clock, format

vars == <<file, written, keys, clock, format>>

-----------------------------------------------------------------------------
(* verify_log.                                                             *)

(* Mutant of EffectiveKeys: nothing is carried forward.                    *)
EffectiveKeysOfEntry(entries, i) ==
  IF entries[i].parameters.f["updateKeys"] = None THEN << >>
  ELSE entries[i].parameters.f["updateKeys"][1].a

(* The keys announced last among the first i entries, carried forward.     *)
EffectiveKeys(entries, i) ==
  LET js == {j \in 1 .. i : entries[j].parameters.f["updateKeys"] # None} IN
  IF js = {} THEN << >>
  ELSE entries[CHOOSE j \in js : \A k \in js : k <= j].parameters.f["updateKeys"][1].a

(* "did:key:<mk>#<mk>" with the same multikey twice.                       *)
ParseDidKeyVm(s) ==
  IF "didkey" \in DOMAIN s /\ s.didkey[1] = s.didkey[2] THEN Some(s.didkey[1]) ELSE None

(* The first proof: its key is allowed, and its signature is over the      *)
(* document and the rest of the proof.                                     *)
VerifyProof(e, auth_keys) ==
  LET mk == ParseDidKeyVm(e.proofs[1].o["verificationMethod"])
      signature == e.proofs[1].o["proofValue"]
      config == Obj(Without(e.proofs[1].o, "proofValue")) IN
  IF e.proofs = << >> THEN "MissingProof"
  ELSE IF ~HasString(e.proofs[1], "verificationMethod") \/ mk = None THEN "MalformedProof"
  ELSE IF \A i \in DOMAIN auth_keys : auth_keys[i] # mk[1] THEN "ProofKeyNotAuthorized"
  ELSE IF "mk" \notin DOMAIN mk[1] \/ ~HasString(e.proofs[1], "proofValue")
            \/ "sig" \notin DOMAIN signature
    THEN "MalformedProof"
  ELSE IF signature = Signature(mk[1].mk, e.state.json, config) THEN "ok"
  ELSE "SignatureInvalid"

(* The typed entry written again, with the predecessor's versionId (the    *)
(* bare SCID for the first entry) in place of its own, and no proof.       *)
HashingForm(e, prev) ==
  Arr(<<prev, e.version_time, ParamsToJson(e.parameters), StateToJson(e.state)>>)

(* Mutant of HashMatches: the hash in the versionId is not compared.       *)
HashMatchesAlways(e, hashing) == TRUE

HashMatches(e, hashing) == e.version_id.hash = HashLogEntry(hashing)

VerifyEntry(entries, i, did) ==
  LET e == entries[i]
      hashing == HashingForm(e, IF i = 1 THEN did.did ELSE entries[i - 1].version_id) IN
  IF i = 1 /\ e.parameters.f["updateKeys"] = None THEN "MissingGenesisUpdateKeys"
  ELSE IF e.state.of = "patch" THEN "PatchState"
  ELSE IF ~HasString(e.state.json, "id") THEN "MalformedEntry"
  ELSE IF e.state.json.o["id"] # did THEN "DidIdentifierMismatch"
  ELSE IF "seq" \notin DOMAIN e.version_id \/ e.version_id.seq # i THEN "VersionIdSequenceMismatch"
  ELSE IF ~HashMatches(e, hashing) THEN "EntryHashMismatch"
  ELSE IF i = 1 /\ HashLogEntry(Replaced(hashing, did.did, Placeholder)) # did.did
    THEN "ScidMismatch"
  ELSE VerifyProof(e, EffectiveKeys(entries, IF i = 1 THEN 1 ELSE i - 1))

(* The answer of the first entry that fails.                               *)
VerifyLog(entries, did) ==
  IF entries = << >> THEN "Empty"
  ELSE IF \E i \in DOMAIN entries : entries[i].format # TDW03 THEN "UnsupportedFormat"
  ELSE LET bad == {i \in DOMAIN entries : VerifyEntry(entries, i, did) # "ok"} IN
       IF bad = {} THEN "ok"
       ELSE VerifyEntry(entries, CHOOSE i \in bad : \A j \in bad : i <= j, did)

(* load_log of a file: parsed, then verified against the DID it shows      *)
(* itself.  Only a did:tdw log whose DID can be read is verified.          *)
Load(lines, target) ==
  Then(LogFromLines(lines),
    LAMBDA entries :
      LET did == IF target # None THEN target ELSE CurrentDid(entries) IN
      IF entries = << >> \/ entries[1].format # TDW03 \/ did = None \/ ~IsDid(did[1])
        THEN Ok(entries)
        ELSE LET answer == VerifyLog(entries, did[1]) IN
             IF answer = "ok" THEN Ok(entries) ELSE Err("Verification", answer))

-----------------------------------------------------------------------------
(* `did log entry --at`: the selector and the two views of an entry.       *)

Index(n) == [t |-> "string", int |-> n]

ParseSelector(at) ==
  IF at = Text("latest") THEN Ok(None)
  ELSE IF "int" \in DOMAIN at /\ at.int >= 1 THEN Ok(Some(at.int))
  ELSE Err("BadSelector", "at")

ResolveSelector(sel, total) ==
  LET n == IF sel = None THEN total ELSE sel[1] IN
  IF n \in 1 .. total THEN Ok(n) ELSE Err("IndexOutOfRange", "at")

(* The raw line and the pretty form, of the typed entry written again.     *)
EntryViews(lines, target, at) ==
  Then(ParseSelector(at), LAMBDA sel : Then(Load(lines, target), LAMBDA entries :
    Then(ResolveSelector(sel, Len(entries)), LAMBDA n :
      Ok([n |-> n, raw |-> RawLines(lines)[n], pretty |-> EntryToJson(entries[n])]))))

-----------------------------------------------------------------------------
(* Writing entries.                                                        *)

(* Mutant of ComputeVersionTime: the predecessor's time is not looked at.  *)
BackdatedTime(prev) == clock - Backdate

(* compute_version_time: behind the clock, but after the predecessor.      *)
ComputeVersionTime(prev) ==
  IF "time" \in DOMAIN prev /\ prev.time + 1 > clock - Backdate
    THEN prev.time + 1 ELSE clock - Backdate

(* The last steps of every pipeline: hash the four parts, put the new      *)
(* versionId, sign the document, append the proof.                         *)
Finished(unsigned, fmt, seq, signer, purpose, time) ==
  LET id == VersionId(seq, HashLogEntry(unsigned))
      named == SetVersionId(unsigned, id, fmt)
      config == ProofConfig(signer, purpose, id, Time(time)) IN
  AppendProof(named, SignedProof(signer, DocumentOf(named, fmt), config), fmt)

Purpose(fmt) == IF fmt = TDW03 THEN "authentication" ELSE "assertionMethod"

GenesisLine(fmt, ks, now) ==
  LET prelim == StripProofSlot(EntryToJson(GenesisTemplate(fmt, ks, now)), fmt)
      scid == HashLogEntry(prelim) IN
  Finished(Replaced(prelim, Placeholder, scid), fmt, 1, ks.authorized, Purpose(fmt), now)

Log == LogFromLines(file).v
Last == Log[Len(Log)]
Did == CurrentDid(Log)[1]

(* What a reader finds is what was written, up to blank lines.             *)
Intact == RawLines(file) = written

Init ==
  /\ format \in Formats
  /\ clock = Backdate + 1
  /\ keys = [authorized |-> 1, authentication |-> 1, assertion |-> 11]
  /\ written = << >> /\ file = << >>

(* cmd_create.                                                             *)
Create ==
  /\ written = << >>
  /\ written' = <<GenesisLine(format, keys, clock - Backdate)>>
  /\ file' = written'
  /\ UNCHANGED <<keys, clock, format>>

(* A command goes on when the log it reads passes; a damaged file is       *)
(* restored before anything is appended to it.                             *)
Loaded == written # << >> /\ Intact /\ Len(written) < MaxEntries /\ Load(file, None).ok

(* The key set after a rotation of `roles`: fresh keys for those.          *)
Renewed(roles) ==
  [r \in DOMAIN keys |->
     IF r \notin roles THEN keys[r]
     ELSE IF r = "assertion" THEN 11 + Len(written) ELSE 1 + Len(written)]

(* build_updated_log: the lines that are not blank, then the new one.      *)
AppendEntry(unsigned, time, new) ==
  /\ file' = Append(RawLines(file),
                    Finished(unsigned, format, Len(Log) + 1, keys.authorized,
                             Purpose(format), time))
  /\ written' = file' /\ keys' = new
  /\ UNCHANGED <<clock, format>>

(* The four parts of an entry of did:tdw as raw JSON.                      *)
RawParts(time, params, doc) ==
  Arr(<<Last.version_id, Time(time), Obj(params), Obj("value" :> doc)>>)

(* cmd_rotate: updateKeys only when the authorized key changes.            *)
Rotate(roles) ==
  LET new == Renewed(roles)
      time == ComputeVersionTime(Last.version_time)
      params == IF new.authorized = keys.authorized THEN NoMembers
                ELSE "updateKeys" :> Arr(<<Multikey(new.authorized)>>)
      doc == NewGenesis(Did.did, new.authentication, new.assertion) IN
  /\ Loaded /\ Last.format = TDW03
  /\ AppendEntry(RawParts(time, params, DocToJson(doc)), time, new)

IsDeactivated(e) == e.parameters.f["deactivated"] = Some(Bool(TRUE))

(* cmd_deactivate: the previous document as it stands.                     *)
Deactivate ==
  LET time == ComputeVersionTime(Last.version_time)
      params == "deactivated" :> Bool(TRUE) @@ "updateKeys" :> Arr(<< >>) IN
  /\ Loaded /\ Last.format = TDW03
  /\ ~IsDeactivated(Last) /\ Last.state.of = "value"
  /\ AppendEntry(RawParts(time, params, Last.state.json), time, keys)

(* A user of the core crate extends the log in the way the comments of     *)
(* new_rotation and new_deactivation lay down, in either format.           *)
CoreRotate(roles) ==
  LET new == Renewed(roles)
      time == ComputeVersionTime(Last.version_time)
      entry == RotationTemplate(format, Last.version_id, Did.did, new, time) IN
  /\ Loaded /\ ~IsDeactivated(Last)
  /\ AppendEntry(StripProofSlot(EntryToJson(entry), format), time, new)

CoreDeactivate ==
  LET time == ComputeVersionTime(Last.version_time)
      doc == DocFromJson(Last.state.json)
      entry == DeactivationTemplate(format, Last.version_id, doc.v, time) IN
  /\ Loaded /\ ~IsDeactivated(Last) /\ doc.ok
  /\ AppendEntry(StripProofSlot(EntryToJson(entry), format), time, keys)

(* Another tool of the ecosystem puts a document of its own, of this DID,  *)
(* into the log.                                                           *)
ForeignEntry ==
  LET time == ComputeVersionTime(Last.version_time) IN
  /\ Loaded /\ Last.format = TDW03 /\ ~IsDeactivated(Last)
  /\ \E doc \in ForeignDocs(Did.did) :
       /\ HasString(doc, "id") /\ doc.o["id"] = Did
       /\ AppendEntry(RawParts(time, NoMembers, doc), time, keys)

Tick ==
  /\ clock < MaxClock
  /\ clock' = clock + 1
  /\ UNCHANGED <<file, written, keys, format>>

(* An editor leaves a blank line somewhere.                                *)
Reformat ==
  /\ file = written /\ written # << >>
  /\ \E i \in 0 .. Len(file) :
       file' = SubSeq(file, 1, i) \o <<Blank>> \o SubSeq(file, i + 1, Len(file))
  /\ UNCHANGED <<written, keys, clock, format>>

(* A line is lost, repeated, broken off or changed in one place.           *)
DamagedFiles(lines) ==
  UNION {{SubSeq(lines, 1, i - 1) \o SubSeq(lines, i + 1, Len(lines)),
          SubSeq(lines, 1, i) \o SubSeq(lines, i, Len(lines))}
           \cup {[lines EXCEPT ![i] = d] : d \in {Garbage} \cup Damages(lines[i])}
         : i \in DOMAIN lines}

Damage ==
  /\ file = written /\ Len(written) \in 1 .. MaxDamaged
  /\ file' \in DamagedFiles(file)
  /\ UNCHANGED <<written, keys, clock, format>>

Restore ==
  /\ ~Intact
  /\ file' = written
  /\ UNCHANGED <<written, keys, clock, format>>

Next ==
  \/ Create \/ Deactivate \/ CoreDeactivate \/ ForeignEntry
  \/ \E roles \in RoleChoices : Rotate(roles) \/ CoreRotate(roles)
  \/ Tick \/ Reformat \/ Damage \/ Restore

Spec == Init /\ [][Next]_vars

-----------------------------------------------------------------------------
(* What must hold.                                                         *)

Abstract == INSTANCE DidLog

(* A written entry as DidLog sees it; hashes are positions.                *)
AbstractEntry(i) ==
  LET e == Log[i]
      uk == e.parameters.f["updateKeys"] IN
  [seq |-> e.version_id.seq, hash |-> i, prev |-> i - 1,
   announces |-> uk # None,
   updateKeys |-> IF uk = None THEN {} ELSE {uk[1].a[j].mk : j \in DOMAIN uk[1].a},
   deactivated |-> IsDeactivated(e),
   signer |-> e.proofs[1].o["verificationMethod"].didkey[1].mk]

AbstractLog == [i \in DOMAIN Log |-> AbstractEntry(i)]

(* The verifier, on the bytes that the commands and the core crate write,  *)
(* accepts a did:tdw log exactly when DidLog!Verifies does: the genesis    *)
(* pipeline, the raw entries of rotate and deactivate, and the typed ones  *)
(* all hash and sign what verify_log hashes and checks again, and attach a *)
(* proof that the typed reader of proofs accepts.                          *)
WrittenLogsVerify ==
  (Intact /\ written # << >>) =>
    /\ format = TDW03 =>
         (VerifyLog(Log, Did) = "ok" <=> Abstract!Verifies(AbstractLog))
    /\ \A i \in DOMAIN Log : ProofFromJson(Log[i].proofs[1]).ok

Meaning(entries) == [i \in DOMAIN entries |-> EntryToJson([entries[i] EXCEPT !.proofs = << >>])]

Original == LogFromLines(written).v

SamePrefix(entries) ==
  /\ Len(entries) <= Len(Original)
  /\ Meaning(entries) = SubSeq(Meaning(Original), 1, Len(entries))

(* A did:tdw file with one change that load_log still accepts says what    *)
(* the written log says, or its first entries only.  When the file is read *)
(* with --input the exception is a newest id that is no DID: the log is    *)
(* then not verified at all.                                               *)
DamageIsNoticed ==
  (~Intact /\ format = TDW03) =>
    LET did == CurrentDid(Original)
        asked == Load(file, did)
        given == Load(file, None) IN
    /\ asked.ok => SamePrefix(asked.v)
    /\ given.ok =>
         \/ SamePrefix(given.v)
         \/ CurrentDid(given.v) = None
         \/ ~IsDid(CurrentDid(given.v)[1])

LastDoc(entries) == DocFromJson(entries[Len(entries)].state.json)

(* The keys that were ever generated for the two roles of a document.      *)
RoleKeys ==
  "authentication-key-01" :> 1 .. Len(written) @@ "assertion-key-01" :> 11 .. 10 + Len(written)

(* A verifier of tokens takes keys from a log it parses but does not       *)
(* verify: with one change in the file it finds, under the name of a role, *)
(* a key that was generated for that role, or none.                        *)
ResolvedKeyIsWritten ==
  LET read == LogFromLines(file) IN
  (read.ok /\ read.v # << >> /\ LastDoc(read.v).ok) =>
    \A name \in DOMAIN RoleKeys :
      LET key == FindVerifyingKey(LastDoc(read.v).v,
                                  DidUrl(CurrentDid(Original)[1].did, name)) IN
      key.ok => key.v \in RoleKeys[name]

(* Whatever document the parser accepts, written again and read again it   *)
(* is the same document: a deactivation through the typed document         *)
(* (new_deactivation) carries over all that was read.                      *)
ReadIsStable ==
  LET read == LogFromLines(file) IN
  read.ok =>
    \A i \in DOMAIN read.v :
      LET doc == DocFromJson(read.v[i].state.json) IN
      doc.ok => DocFromJson(DocToJson(doc.v)) = doc

(* The times of a written log rise, and an entry is dated before the clock *)
(* of its writer unless more than Backdate entries came in its stead: the  *)
(* registry refuses a versionTime that does not lie in the past.           *)
VersionTimesInPast ==
  (Intact /\ written # << >>) =>
    \A i \in DOMAIN Log :
      /\ i > 1 => Log[i].version_time.time > Log[i - 1].version_time.time
      /\ i <= Backdate => Log[i].version_time.time < clock

(* `did log entry --at` names one entry: the raw line it prints is the one *)
(* whose typed form the pretty view prints, whatever blank lines there     *)
(* are, and in a verified log the n-th carries the number n.               *)
ViewsAgree ==
  \A at \in {Text("latest")} \cup {Index(n) : n \in 0 .. MaxEntries} :
    LET view == EntryViews(file, None, at) IN
    view.ok =>
      /\ EntryFromJson(view.v.raw).ok
      /\ EntryToJson(EntryFromJson(view.v.raw).v) = view.v.pretty
      /\ (Intact /\ format = TDW03) => view.v.pretty.a[1].seq = view.v.n
=============================================================================
