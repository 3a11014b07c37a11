----------------------------- MODULE DidCreate -----------------------------
(***************************************************************************)
(* `did create`, one invocation after another: the identifier that the     *)
(* registry hands out, the log file, the entry in the key store and the    *)
(* upload, with refused and lost requests and with a process that dies     *)
(* between any two of these.                                               *)
(*                                                                         *)
(* A DID is where its log is to be served, the key set it was made with    *)
(* and the time of its first entry: its SCID is a hash over these.  A log  *)
(* is written down as its DID.                                             *)
(***************************************************************************)
EXTENDS Integers, Sequences

CONSTANTS Spaces,    \* identifiers of the registry
          OwnUrls,   \* URLs of --url
          Jobs,      \* command lines
          Nothing,   \* no file, no directory, no identifier
          Torn,      \* a file that was emptied and not filled
          Allocated, \* an identifier that was handed out and has no log
          MaxRuns,   \* bound: invocations
          MaxTime    \* bound: the clock stops here

VARIABLES
  registry,  \* per identifier: not handed out, handed out, or the log there
  local,     \* the file --out: Nothing, Torn or a log
  store,     \* the key store: the directory of each DID
  time,
  pc, job, place, did,   \* the running invocation
  takenBy,   \* history: the invocation that an identifier was handed out to
  results    \* history: how each invocation ended, and with which DID

createVars == <<registry, local, store, time, pc, job, place, did, takenBy, results>>

Places == Spaces \cup OwnUrls
KeySets == 0 .. MaxRuns        \* 0: all three keys imported; n: made by run n
Did == [at : Places, keys : KeySets, time : 0 .. MaxTime]

(* Mutant of EntryFiles: the DID is written down first.                    *)
NamedFirst ==
  << <<"did.txt">>, <<"authorized", "private">>, <<"authorized", "public">>,
     <<"authentication", "private">>, <<"authentication", "public">>,
     <<"assertion", "private">>, <<"assertion", "public">> >>

(* The files of a new entry in the order they are written.                 *)
EntryFiles ==
  << <<"authorized", "private">>, <<"authorized", "public">>,
     <<"authentication", "private">>, <<"authentication", "public">>,
     <<"assertion", "private">>, <<"assertion", "public">>, <<"did.txt">> >>

(* How far an entry is: file i is there, empty, from 2i - 1 and holds what *)
(* it should from 2i.                                                      *)
Dir == 0 .. 14

Job == [url : {"none", "good", "bad"}, swiyu : BOOLEAN, no_publish : BOOLEAN, credentials : BOOLEAN,
        import : {"none", "some", "all", "same", "unreadable"}]

ArgumentErrors == {"NoPublishWithoutSwiyu", "AmbiguousUrlSource", "NoUrlSource", "RegistryArgs"}
Results == ArgumentErrors
  \cup {"OAuth2", "Registry", "Url", "KeyFile", "IdenticalKeys", "WriteLog", "AlreadyExists",
        "KeyStore", "PublishFailed", "Created", "Published", "killed"}

ASSUME CreateAssumption ==
  /\ Jobs \subseteq Job
  /\ MaxRuns \in Nat /\ MaxTime \in Nat
  /\ Spaces \cap OwnUrls = {}
  /\ Nothing \notin Did \cup Dir \cup Places \cup {Torn, Allocated} \cup Job
  /\ {Torn, Allocated} \cap Did = {}

Run == Len(results) + 1

-----------------------------------------------------------------------------

CreateInit ==
  /\ registry = [s \in Spaces |-> Nothing]
  /\ local = Nothing
  /\ store = [d \in Did |-> Nothing]
  /\ time = 0
  /\ pc = "idle" /\ job = Nothing /\ place = Nothing /\ did = Nothing
  /\ takenBy = [s \in Spaces |-> 0]
  /\ results = << >>

(* The invocation ends; its variables are gone.                            *)
EndWith(what) ==
  /\ results' = Append(results, [how |-> what, did |-> did, place |-> place])
  /\ pc' = "idle" /\ job' = Nothing /\ place' = Nothing /\ did' = Nothing

Goto(where) == pc' = where /\ UNCHANGED <<job, place, did, results>>

(* What is wrong with the arguments, "" when nothing is.                    *)
ArgumentError(j) ==
  IF j.no_publish /\ ~j.swiyu THEN "NoPublishWithoutSwiyu"
  ELSE IF j.url # "none" /\ j.swiyu THEN "AmbiguousUrlSource"
  ELSE IF j.url = "none" /\ ~j.swiyu THEN "NoUrlSource"
  ELSE IF j.swiyu /\ ~j.credentials THEN "RegistryArgs"
  ELSE ""

(* The arguments are looked at before anything is asked of anyone.         *)
Begin ==
  /\ pc = "idle" /\ Run <= MaxRuns
  /\ \E j \in Jobs :
       IF ArgumentError(j) # "" THEN EndWith(ArgumentError(j))
       ELSE /\ job' = j /\ UNCHANGED <<did, results>>
            /\ IF j.swiyu THEN pc' = "allocate" /\ UNCHANGED place
               ELSE pc' = "keys" /\ place' \in OwnUrls
  /\ UNCHANGED <<registry, local, store, time, takenBy>>

(* refresh_token_grant, made anew for every request: no credentials, a     *)
(* token that is refused, an answer that is lost or cannot be read.        *)
NotGranted(error) == EndWith(error) /\ UNCHANGED <<registry, takenBy>>

(* allocate_did: the registry refuses, or hands out an identifier whose    *)
(* answer is lost, comes too late for the process or cannot be read.       *)
PostAllocation ==
  \/ EndWith("Registry") /\ UNCHANGED <<registry, takenBy>>
  \/ \E s \in Spaces :
       /\ registry[s] = Nothing
       /\ registry' = [registry EXCEPT ![s] = Allocated]
       /\ takenBy' = [takenBy EXCEPT ![s] = Run]
       /\ \/ \E e \in {"Registry", "killed"} : EndWith(e)
          \/ /\ place' = s /\ pc' = "keys"
             /\ UNCHANGED <<job, did, results>>

Allocate ==
  /\ pc = "allocate"
  /\ NotGranted("OAuth2") \/ PostAllocation
  /\ UNCHANGED <<local, store, time>>

(* What url_to_did_components may say of the URL; one that the registry    *)
(* handed out is looked at like any other.                                 *)
UrlParses == IF job.url = "bad" THEN {FALSE} ELSE IF job.swiyu THEN BOOLEAN ELSE {TRUE}

(* The URL, prepare_keys, and the genesis entry, which fixes the DID.      *)
PrepareKeys ==
  /\ pc = "keys"
  /\ \E parses \in UrlParses :
       \/ ~parses /\ EndWith("Url")
       \/ parses /\ job.import = "unreadable" /\ EndWith("KeyFile")
       \/ parses /\ job.import = "same" /\ EndWith("IdenticalKeys")
       \/ /\ parses /\ job.import \notin {"unreadable", "same"}
          /\ did' = [at |-> place, keys |-> IF job.import = "all" THEN 0 ELSE Run, time |-> time]
          /\ pc' = "truncate" /\ UNCHANGED <<job, place, results>>
  /\ UNCHANGED <<registry, local, store, time, takenBy>>

(* fs::write: the file is emptied, then filled.                            *)
Truncate ==
  /\ pc = "truncate"
  /\ \/ local' = Torn /\ Goto("write")
     \/ EndWith("WriteLog") /\ UNCHANGED local
  /\ UNCHANGED <<registry, store, time, takenBy>>

(* Mutant of AfterWriting: the keys are not kept.                          *)
AfterWritingDone == "finish"

(* Mutant of AfterWriting: the log is written again and again.             *)
AfterWritingAgain == "truncate"

(* Mutant of AfterWriting: the log is uploaded before the keys are kept.   *)
AfterWritingUpload == IF job.swiyu /\ ~job.no_publish THEN "publish" ELSE "commit"

AfterWriting == "commit"

WriteLogFile ==
  /\ pc = "write"
  /\ \/ local' = did /\ Goto(AfterWriting)
     \/ EndWith("WriteLog") /\ UNCHANGED local
  /\ UNCHANGED <<registry, store, time, takenBy>>

-----------------------------------------------------------------------------
(* KeyStore::commit.                                                       *)

Commit ==
  /\ pc = "commit"
  /\ IF store[did] # Nothing THEN EndWith("AlreadyExists") /\ UNCHANGED store
     ELSE \/ store' = [store EXCEPT ![did] = 0] /\ Goto("files")
          \/ UNCHANGED store /\ EndWith("KeyStore")
  /\ UNCHANGED <<registry, local, time, takenBy>>

(* The next file is created, or filled.                                    *)
WriteEntry ==
  /\ pc = "files"
  /\ \/ /\ store' = [store EXCEPT ![did] = @ + 1]
        /\ Goto(IF store[did] + 1 = 2 * Len(EntryFiles) THEN "finish" ELSE "files")
     \/ EndWith("KeyStore") /\ UNCHANGED store
  /\ UNCHANGED <<registry, local, time, takenBy>>

(* Without --swiyu, or with --no-publish, the command is done.             *)
Finish ==
  /\ pc = "finish"
  /\ IF job.swiyu /\ ~job.no_publish THEN Goto("publish") ELSE EndWith("Created")
  /\ UNCHANGED <<registry, local, store, time, takenBy>>

(* Mutant of Uploaded: another identifier than the one handed out.         *)
UploadedAnywhere ==
  \E s \in Spaces : registry' = [registry EXCEPT ![s] = did]

(* Mutant of Uploaded: the log is not sent.                                *)
UploadedNowhere == UNCHANGED registry

Uploaded == registry' = [registry EXCEPT ![place] = did]

(* publish_log_entry: the PUT; when it fails, or when the process ends     *)
(* meanwhile, the log may be there all the same.                           *)
PutEntry ==
  \/ Uploaded /\ \E end \in {"Published", "PublishFailed", "killed"} : EndWith(end)
  \/ UNCHANGED registry /\ EndWith("PublishFailed")

Upload ==
  /\ pc = "publish"
  /\ NotGranted("PublishFailed") \/ (PutEntry /\ UNCHANGED takenBy)
  /\ UNCHANGED <<local, store, time>>

(* What an invocation that was started does by itself.                     *)
CreateStep ==
  \/ Allocate \/ PrepareKeys \/ Truncate \/ WriteLogFile \/ Commit \/ WriteEntry
  \/ Finish \/ Upload

-----------------------------------------------------------------------------

Killed ==
  /\ pc # "idle"
  /\ EndWith("killed")
  /\ UNCHANGED <<registry, local, store, time, takenBy>>

SecondPasses ==
  /\ time < MaxTime
  /\ time' = time + 1
  /\ UNCHANGED <<registry, local, store, pc, job, place, did, takenBy, results>>

CreateNext == Begin \/ CreateStep \/ Killed \/ SecondPasses

CreateSpec == CreateInit /\ [][CreateNext]_createVars /\ WF_createVars(CreateStep)

-----------------------------------------------------------------------------
(* What the other commands find in the key store.                          *)

There(d, f) == store[d] # Nothing /\ \E i \in 1 .. 7 : EntryFiles[i] = f /\ store[d] >= 2 * i - 1
Holds(d, f) == store[d] # Nothing /\ \E i \in 1 .. 7 : EntryFiles[i] = f /\ store[d] >= 2 * i

KeyRoles == {"authorized", "authentication", "assertion"}

(* lookup: no directory, no did.txt, another text in it, or the entry.     *)
Lookup(d) ==
  CASE store[d] = Nothing -> "None"
    [] store[d] # Nothing /\ ~There(d, <<"did.txt">>) -> "Io"
    [] There(d, <<"did.txt">>) /\ ~Holds(d, <<"did.txt">>) -> "Mismatch"
    [] OTHER -> "Entry"

(* resolve_entry, for a DID and for a hash; lookup_by_hash takes whatever  *)
(* did.txt says.                                                           *)
ResolveEntry(d, hash) ==
  IF hash /\ Lookup(d) = "Mismatch" THEN "Entry"
  ELSE IF Lookup(d) = "None" THEN "NotFound" ELSE Lookup(d)

(* public_key_pem and export_private_key: a file that is not there is      *)
(* NotFound; one that is there is handed on as it is.                      *)
KeyFile(d, role, visibility) ==
  IF ~There(d, <<role, visibility>>) THEN "NotFound"
  ELSE IF Holds(d, <<role, visibility>>) THEN "key" ELSE "empty"

(* `key show`, `key versions` and `key export`.                            *)
KeyShow(d, hash) ==
  IF ResolveEntry(d, hash) # "Entry" THEN {ResolveEntry(d, hash)}
  ELSE {KeyFile(d, role, "public") : role \in KeyRoles}

KeyExport(d, hash, role, visibility) ==
  IF ResolveEntry(d, hash) # "Entry" THEN ResolveEntry(d, hash)
  ELSE KeyFile(d, role, visibility)

(* `key list`: the entries with a did.txt.                                 *)
KeyList == {d \in Did : There(d, <<"did.txt">>)}

-----------------------------------------------------------------------------
(* What must hold.                                                         *)

CreateTypeOK ==
  /\ registry \in [Spaces -> Did \cup {Nothing, Allocated}]
  /\ local \in Did \cup {Nothing, Torn}
  /\ store \in [Did -> Dir \cup {Nothing}]
  /\ time \in 0 .. MaxTime
  /\ pc \in {"idle", "allocate", "keys", "truncate", "write", "commit", "files", "finish",
             "publish"}
  /\ job \in Jobs \cup {Nothing}
  /\ place \in Places \cup {Nothing}
  /\ did \in Did \cup {Nothing}
  /\ takenBy \in [Spaces -> 0 .. MaxRuns]
  /\ results \in Seq([how : Results, did : Did \cup {Nothing}, place : Places \cup {Nothing}])

(* All keys of an entry can be had, by its DID and by its hash.            *)
Usable(d) ==
  \A hash \in BOOLEAN :
    /\ KeyShow(d, hash) = {"key"}
    /\ \A role \in KeyRoles : KeyExport(d, hash, role, "private") = "key"

(* A log that the registry serves is the one made for that identifier, and *)
(* its keys are in the key store: a process that dies, a lost answer or a  *)
(* refused file never leaves a published DID without them.                 *)
PublishedIsHeld ==
  \A s \in Spaces :
    registry[s] \in Did => registry[s].at = s /\ Usable(registry[s])

(* A DID that `did create` reported, also one it could not publish ("the   *)
(* CLI keeps the local files, so the keys aren't lost"), is usable, and a  *)
(* published one is served under its own identifier.                       *)
ReportedIsHeld ==
  \A k \in DOMAIN results :
    /\ results[k].how \in {"Created", "Published", "PublishFailed"} => Usable(results[k].did)
    /\ results[k].how = "Published" => registry[results[k].place] = results[k].did

(* did.txt is the last file: what `key list` shows has all its keys, and a *)
(* commit that died is an entry that no command takes for a whole one.     *)
ListedIsUsable == \A d \in KeyList : Lookup(d) = "Entry" <=> Usable(d)

(* An identifier that was handed out and has no log is accounted for: the  *)
(* invocation that took it is running, or it left the DID of just this     *)
(* identifier with all its keys, for the user to upload, or it ended with  *)
(* an error after which only a new identifier helps.                       *)
OrphansHaveCause ==
  \A s \in Spaces : registry[s] = Allocated =>
    \/ takenBy[s] = Run
    \/ LET end == results[takenBy[s]] IN
       \/ end.how \in {"Created", "PublishFailed"} /\ end.did.at = s /\ Usable(end.did)
       \/ end.how \in {"Registry", "Url", "KeyFile", "IdenticalKeys", "WriteLog", "KeyStore",
                       "killed"}

(* A log file whose keys are nowhere: the commit is under way, or its      *)
(* invocation was killed or ended with an error that says so.              *)
LoneLogHasCause ==
  (local \in Did /\ ~Usable(local)) =>
    \/ did = local
    \/ \E k \in DOMAIN results :
         results[k].did = local /\ results[k].how \in {"killed", "KeyStore", "AlreadyExists"}

(* Every invocation ends.                                                  *)
CreateEnds == pc # "idle" ~> pc = "idle"
=============================================================================
