---------------------------- MODULE LogEntryJson ----------------------------
(***************************************************************************)
(* DID log entries in their two wire formats: the five-element array of    *)
(* did:tdw 0.3 and the object of did:webvh 1.0, their typed form, their    *)
(* proofs, and the check of a log as it was read.                          *)
(*                                                                         *)
(* SHA-256 is collision free: the hash of a value is a string that holds   *)
(* the value.  A signature holds its key and what was signed.              *)
(***************************************************************************)
EXTENDS DidDocJson

TDW03 == "TDW03"
WebVH10 == "WebVH10"
Formats == {TDW03, WebVH10}

Placeholder == Text("{SCID}")
HashLogEntry(json) == [t |-> "string", of |-> json]
VersionId(seq, hash) == [t |-> "string", seq |-> seq, hash |-> hash]
Time(n) == [t |-> "string", time |-> n]
DidKeyUrl(k) == [t |-> "string", didkey |-> <<Multikey(k), Multikey(k)>>]

-----------------------------------------------------------------------------
(* Parameters: each member is None or Some of its JSON value.              *)

ParamOrder ==
  << <<"method", "string">>, <<"scid", "string">>, <<"updateKeys", "strings">>,
     <<"prerotation", "bool">>, <<"nextKeyHashes", "strings">>, <<"portable", "bool">>,
     <<"deactivated", "bool">>, <<"ttl", "number">>, <<"witness", "any">>,
     <<"watchers", "strings">> >>

ParamNames == {ParamOrder[i][1] : i \in DOMAIN ParamOrder}

(* string_field, bool_field, u64_field, string_array_field, or any value.  *)
FieldOf(o, name, kind) ==
  CASE kind = "string"  -> OptionalString(o, name)
    [] kind = "bool"    -> OptionalBool(o, name)
    [] kind = "number"  -> OptionalU64(o, name)
    [] kind = "strings" -> OptionalStrings(o, name)
    [] OTHER            -> Ok(IF name \in DOMAIN o THEN Some(o[name]) ELSE None)

(* new_tdw and new_webvh: the members in `some`, every other one None.     *)
NewParams(format, some) ==
  [format |-> format,
   f |-> [n \in ParamNames |-> IF n \in DOMAIN some THEN Some(some[n]) ELSE None]]

MinimalParams(format, authorized) ==
  NewParams(format, "method" :> Text(IF format = TDW03 THEN "did:tdw:0.3" ELSE "did:webvh:1.0")
                    @@ "scid" :> Placeholder
                    @@ "updateKeys" :> Arr(<<Multikey(authorized)>>))

(* Members no format knows are dropped; did:tdw has no watchers.           *)
ParamsFromJson(v, format) ==
  IF ~IsObject(v) THEN Err("InvalidFieldType", "parameters")
  ELSE LET known == IF format = WebVH10 THEN v.o ELSE Without(v.o, "watchers") IN
       Then(Collect([i \in DOMAIN ParamOrder |->
                       FieldOf(known, ParamOrder[i][1], ParamOrder[i][2])]),
            LAMBDA vs : Ok([format |-> format,
              f |-> [n \in ParamNames |->
                       vs[CHOOSE i \in DOMAIN ParamOrder : ParamOrder[i][1] = n]]]))

(* A did:tdw genesis entry, the one with an scid, is always written with   *)
(* `portable`, false unless it is given.                                   *)
ParamsToJson(p) ==
  Obj([n \in {n \in ParamNames : p.f[n] # None /\ (n # "watchers" \/ p.format = WebVH10)}
         |-> p.f[n][1]]
      @@ (IF p.format = TDW03 /\ p.f["scid"] # None
            THEN "portable" :> Bool(FALSE) ELSE NoMembers))

(* DIDDocState: <<"value", v>> or <<"patch", v>>.                          *)
StateFromJson(v) ==
  CASE ~IsObject(v)            -> Err("InvalidFieldType", "state")
    [] Member(v, "value") # None -> Ok([of |-> "value", json |-> v.o["value"]])
    [] Member(v, "value") = None /\ Member(v, "patch") # None ->
         Ok([of |-> "patch", json |-> v.o["patch"]])
    [] OTHER -> Err("InvalidFormat", "state")

StateToJson(s) == Obj(s.of :> s.json)
ValueState(doc) == [of |-> "value", json |-> DocToJson(doc)]

-----------------------------------------------------------------------------
(* Entries.                                                                *)

NewEntry(format, version_id, version_time, parameters, state) ==
  [format |-> format, version_id |-> version_id, version_time |-> version_time,
   parameters |-> parameters, state |-> state, proofs |-> << >>]

(* DIDLogEntry::new_genesis, new_rotation and new_deactivation.            *)
GenesisTemplate(format, keys, now) ==
  NewEntry(format, Placeholder, Time(now), MinimalParams(format, keys.authorized),
           ValueState(NewGenesis(Placeholder, keys.authentication, keys.assertion)))

RotationTemplate(format, prev, scid, keys, time) ==
  NewEntry(format, prev, Time(time),
           NewParams(format, "updateKeys" :> Arr(<<Multikey(keys.authorized)>>)),
           ValueState(NewGenesis(scid, keys.authentication, keys.assertion)))

DeactivationTemplate(format, prev, doc, time) ==
  NewEntry(format, prev, Time(time),
           NewParams(format, "updateKeys" :> Arr(<< >>) @@ "deactivated" :> Bool(TRUE)),
           ValueState(doc))

EntryToJson(e) ==
  IF e.format = TDW03
    THEN Arr(<<e.version_id, e.version_time, ParamsToJson(e.parameters),
               StateToJson(e.state), Arr(e.proofs)>>)
    ELSE Obj("versionId" :> e.version_id @@ "versionTime" :> e.version_time
             @@ "parameters" :> ParamsToJson(e.parameters)
             @@ "state" :> StateToJson(e.state) @@ "proof" :> Arr(e.proofs))

(* What both readers do with the five parts, in their order.               *)
EntryOfParts(format, version_id, version_time, parameters, state, proof) ==
  IF ~IsString(version_id) THEN Err("InvalidFieldType", "versionId")
  ELSE IF ~IsString(version_time) THEN Err("InvalidFieldType", "versionTime")
  ELSE Then(ParamsFromJson(parameters, format),
    LAMBDA p : Then(StateFromJson(state),
    LAMBDA s : IF ~IsArray(proof) THEN Err("InvalidFieldType", "proof")
               ELSE Ok([NewEntry(format, version_id, version_time, p, s)
                          EXCEPT !.proofs = proof.a])))

EntryFromArray(a) ==
  IF Len(a) # 5 THEN Err("InvalidFormat", "length")
  ELSE EntryOfParts(TDW03, a[1], a[2], a[3], a[4], a[5])

(* Which of several absent or ill-typed members is reported is left out.  *)
EntryFromObject(o) ==
  IF {"versionId", "versionTime", "parameters", "state", "proof"} \subseteq DOMAIN o
    THEN EntryOfParts(WebVH10, o["versionId"], o["versionTime"], o["parameters"],
                      o["state"], o["proof"])
    ELSE Err("MissingField", "entry")

EntryFromJson(v) ==
  CASE IsArray(v)  -> EntryFromArray(v.a)
    [] IsObject(v) -> EntryFromObject(v.o)
    [] OTHER       -> Err("InvalidFormat", "entry")

-----------------------------------------------------------------------------
(* A file is a sequence of lines; a line is a JSON value, blank, or not    *)
(* JSON at all.                                                            *)

Blank == [t |-> "blank"]
Garbage == [t |-> "garbage"]

(* Mutant of RawLines: blank lines are kept.                               *)
RawLinesAll(file) == file

RawLines(file) == Dropping(file, Blank)

LogFromLines(file) ==
  LET written == Dropping(file, Blank) IN
  Collect([i \in DOMAIN written |->
             IF written[i] = Garbage THEN Err("InvalidFormat", "line")
             ELSE EntryFromJson(written[i])])

HasString(v, k) == Member(v, k) # None /\ IsString(v.o[k])

(* current_did: the id of the newest full document that has one.           *)
CurrentDid(entries) ==
  LET ids == {i \in DOMAIN entries :
                /\ entries[i].state.of = "value"
                /\ HasString(entries[i].state.json, "id")} IN
  IF ids = {} THEN None
  ELSE Some(entries[CHOOSE i \in ids : \A j \in ids : j <= i].state.json.o["id"])

IsDid(s) == "did" \in DOMAIN s

-----------------------------------------------------------------------------
(* Proofs.                                                                 *)

(* ProofConfig as JSON; created and challenge are the entry's own.         *)
ProofConfig(k, purpose, challenge, created) ==
  Obj("type" :> Text("DataIntegrityProof") @@ "cryptosuite" :> Text("eddsa-jcs-2022")
      @@ "verificationMethod" :> DidKeyUrl(k) @@ "proofPurpose" :> Text(purpose)
      @@ "challenge" :> challenge @@ "created" :> created)

(* eddsa_jcs_2022_hash and the Ed25519 signature over it.                  *)
Signature(k, document, config) ==
  [t |-> "string", sig |-> [key |-> k, config |-> config, document |-> document]]

SignedProof(k, document, config) ==
  Obj(config.o @@ "proofValue" :> Signature(k, document, config))

(* TryFrom<&Value> for DataIntegrityProof: its seven strings.              *)
ProofFromJson(v) ==
  IF ~IsObject(v) THEN Err("InvalidField", "proof")
  ELSE Then(Collect(<<RequiredString(v.o, "type"), RequiredString(v.o, "cryptosuite"),
                      RequiredString(v.o, "verificationMethod"),
                      RequiredString(v.o, "proofPurpose"), RequiredString(v.o, "challenge"),
                      RequiredString(v.o, "created"), RequiredString(v.o, "proofValue")>>),
    LAMBDA s :
      IF s[1] # Text("DataIntegrityProof") THEN Err("InvalidField", "type")
      ELSE IF s[2] # Text("eddsa-jcs-2022") THEN Err("UnknownCryptosuite", "cryptosuite")
      ELSE IF s[4] \in {Text("authentication"), Text("assertionMethod")} THEN Ok(s)
      ELSE Err("UnknownProofPurpose", "proofPurpose"))

(* strip_proof_slot, set_version_id and append_proof on a serialised entry.*)
StripProofSlot(v, format) ==
  IF format = TDW03 THEN Arr(SubSeq(v.a, 1, Len(v.a) - 1)) ELSE Obj(Without(v.o, "proof"))

SetVersionId(v, id, format) ==
  IF format = TDW03 THEN Arr([v.a EXCEPT ![1] = id])
                    ELSE Obj([v.o EXCEPT !["versionId"] = id])

AppendProof(v, proof, format) ==
  IF format = TDW03 THEN Arr(Append(v.a, Arr(<<proof>>)))
                    ELSE Obj(v.o @@ "proof" :> Arr(<<proof>>))

DocumentOf(v, format) ==
  IF format = TDW03 THEN v.a[4].o["value"] ELSE v.o["state"].o["value"]
=============================================================================
