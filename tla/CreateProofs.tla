---------------------------- MODULE CreateProofs ----------------------------
(***************************************************************************)
(* The invariants of `did create`, for any identifiers, command lines and  *)
(* number of invocations.                                                  *)
(***************************************************************************)
EXTENDS DidCreate, TLAPS

Reporting == {"Created", "Published", "PublishFailed"}
Hopeless == {"Registry", "Url", "KeyFile", "IdenticalKeys", "WriteLog", "KeyStore", "killed"}
Result == [how : Results, did : Did \cup {Nothing}, place : Places \cup {Nothing}]

(* What an appended sequence holds.                                        *)
LEMMA AppendHolds ==
  ASSUME NEW S, NEW s \in Seq(S), NEW e \in S
  PROVE  /\ Append(s, e) \in Seq(S)
         /\ Len(Append(s, e)) = Len(s) + 1 /\ Len(s) \in Nat
         /\ DOMAIN s = 1 .. Len(s)
         /\ DOMAIN Append(s, e) = 1 .. Len(s) + 1
         /\ \A k \in 1 .. Len(s) : Append(s, e)[k] = s[k]
         /\ Append(s, e)[Len(s) + 1] = e
  OBVIOUS

(* The seven files are distinct.                                           *)
LEMMA FileOrder ==
  /\ Len(EntryFiles) = 7
  /\ EntryFiles[1] = <<"authorized", "private">> /\ EntryFiles[2] = <<"authorized", "public">>
  /\ EntryFiles[3] = <<"authentication", "private">>
  /\ EntryFiles[4] = <<"authentication", "public">>
  /\ EntryFiles[5] = <<"assertion", "private">> /\ EntryFiles[6] = <<"assertion", "public">>
  /\ EntryFiles[7] = <<"did.txt">>
  BY DEF EntryFiles

LEMMA NameIsLast == \A i \in 1 .. 6 : EntryFiles[i] # <<"did.txt">>
<1>1. \A x, y : <<x, y>> # <<"did.txt">>
  <2>1. SUFFICES ASSUME NEW x, NEW y, <<x, y>> = <<"did.txt">> PROVE FALSE
    OBVIOUS
  <2>2. Len(<<x, y>>) = 2 /\ Len(<<"did.txt">>) = 1
    OBVIOUS
  <2>. QED BY <2>1, <2>2
<1>. QED BY <1>1, FileOrder

(* An entry is usable, and found by its DID, just when it is whole.        *)
LEMMA UsableIsWhole ==
  ASSUME store \in [Did -> Dir \cup {Nothing}], NEW d \in Did
  PROVE  /\ Usable(d) <=> store[d] = 14
         /\ Lookup(d) = "Entry" <=> store[d] = 14
<1>0. store[d] # Nothing => store[d] \in 0 .. 14
  BY DEF Dir
<1>N. Nothing \notin 0 .. 14
  BY CreateAssumption DEF Dir
<1>1. There(d, <<"did.txt">>) <=> store[d] # Nothing /\ store[d] >= 13
  BY <1>0, FileOrder, NameIsLast DEF There
<1>2. Holds(d, <<"did.txt">>) <=> store[d] # Nothing /\ store[d] >= 14
  BY <1>0, FileOrder, NameIsLast DEF Holds
<1>3. Lookup(d) = "Entry" <=> store[d] = 14
  BY <1>0, <1>1, <1>2, <1>N DEF Lookup
<1>4. ASSUME store[d] = 14
      PROVE  \A i \in 1 .. 7 : There(d, EntryFiles[i]) /\ Holds(d, EntryFiles[i])
  BY <1>4, <1>N DEF There, Holds
<1>5. ASSUME store[d] = 14, NEW role \in KeyRoles, NEW v \in {"private", "public"}
      PROVE  KeyFile(d, role, v) = "key"
  <2>1. PICK i \in 1 .. 7 : EntryFiles[i] = <<role, v>>
    BY FileOrder DEF KeyRoles
  <2>. QED BY <2>1, <1>4, <1>5 DEF KeyFile
<1>6. ASSUME store[d] = 14 PROVE Usable(d)
  <2>1. \A hash \in BOOLEAN : ResolveEntry(d, hash) = "Entry"
    BY <1>3, <1>6 DEF ResolveEntry
  <2>2. {KeyFile(d, role, "public") : role \in KeyRoles} = {"key"}
    BY <1>5, <1>6 DEF KeyRoles
  <2>. QED BY <2>1, <2>2, <1>5, <1>6 DEF Usable, KeyShow, KeyExport
<1>7. ASSUME Usable(d) PROVE store[d] = 14
  <2>1. KeyExport(d, FALSE, "assertion", "private") = "key"
    BY <1>7 DEF Usable, KeyRoles
  <2>2. ResolveEntry(d, FALSE) = "Entry"
    BY <2>1 DEF KeyExport, ResolveEntry, Lookup
  <2>3. Lookup(d) = "Entry"
    BY <2>2 DEF ResolveEntry
  <2>. QED BY <2>3, <1>3
<1>. QED BY <1>3, <1>6, <1>7

-----------------------------------------------------------------------------
(* The inductive invariant.                                                *)

Later == {"truncate", "write", "commit", "files", "finish", "publish"}

Bounded == Len(results) <= MaxRuns /\ (pc # "idle" => Run <= MaxRuns)

(* What an invocation knows at each point.                                 *)
Running ==
  /\ pc \in {"idle", "allocate"} => place = Nothing
  /\ pc # "idle" => job \in Jobs
  /\ pc \in {"keys"} \cup Later => place \in Places /\ (job.swiyu => place \in Spaces)
  /\ pc \in Later => did \in Did /\ did.at = place
  /\ pc = "publish" => job.swiyu
  /\ (pc # "idle" /\ place \in Spaces) => takenBy[place] = Run /\ registry[place] = Allocated

(* An identifier is handed out once; the last one is that of the running   *)
(* invocation.                                                             *)
TakenOnce ==
  \A s \in Spaces :
    /\ takenBy[s] = 0 <=> registry[s] = Nothing
    /\ takenBy[s] <= Run
    /\ takenBy[s] = Run => pc # "idle" /\ place = s

Progress ==
  /\ pc = "write" => local = Torn
  /\ pc = "files" => store[did] \in 0 .. 13
  /\ pc \in {"finish", "publish"} => store[did] = 14

(* Only the invocation that an identifier was handed out to makes entries  *)
(* for it.                                                                 *)
EntriesAreOwn ==
  \A d \in Did : (store[d] # Nothing /\ d.at \in Spaces) =>
    /\ takenBy[d.at] # 0
    /\ takenBy[d.at] = Run => d = did /\ pc \in {"files", "finish", "publish"}

ServedIsWhole ==
  \A s \in Spaces : registry[s] \in Did => registry[s].at = s /\ store[registry[s]] = 14

ReportedIsWhole ==
  \A k \in 1 .. Len(results) :
    /\ results[k].place \in Spaces => takenBy[results[k].place] = k
    /\ results[k].how \in Reporting => results[k].did \in Did /\ store[results[k].did] = 14
    /\ results[k].how = "Published" =>
         results[k].place \in Spaces /\ registry[results[k].place] = results[k].did

OrphanEnded(s, end) ==
  \/ /\ end.how \in {"Created", "PublishFailed"}
     /\ end.did \in Did /\ end.did.at = s /\ store[end.did] = 14
  \/ end.how \in Hopeless

OrphansEnded ==
  \A s \in Spaces :
    registry[s] = Allocated => takenBy[s] = Run \/ OrphanEnded(s, results[takenBy[s]])

LoneEnded ==
  (local \in Did /\ store[local] # 14) =>
    \/ did = local /\ pc \in {"commit", "files"}
    \/ \E k \in 1 .. Len(results) :
         results[k].did = local /\ results[k].how \in {"killed", "KeyStore", "AlreadyExists"}

IInv ==
  /\ CreateTypeOK /\ Bounded /\ Running /\ TakenOnce /\ Progress /\ EntriesAreOwn
  /\ ServedIsWhole /\ ReportedIsWhole /\ OrphansEnded /\ LoneEnded

-----------------------------------------------------------------------------

LEMMA InitHolds == CreateInit => IInv
<1>. SUFFICES ASSUME CreateInit PROVE IInv
  OBVIOUS
<1>. USE CreateAssumption DEF CreateInit
<1>1. CreateTypeOK
  BY DEF CreateTypeOK
<1>2. Len(results) = 0 /\ Run = 1
  BY DEF Run
<1>3. Bounded /\ Running /\ TakenOnce /\ Progress
  BY <1>2 DEF Bounded, Running, TakenOnce, Progress, Later
<1>4. EntriesAreOwn /\ ServedIsWhole /\ ReportedIsWhole /\ LoneEnded
  BY <1>2 DEF EntriesAreOwn, ServedIsWhole, ReportedIsWhole, LoneEnded
<1>5. OrphansEnded
  BY DEF OrphansEnded
<1>. QED BY <1>1, <1>3, <1>4, <1>5 DEF IInv

(* The record that an invocation leaves, and the number of the next.       *)
LEMMA EndRecord ==
  ASSUME IInv, NEW what \in Results, EndWith(what)
  PROVE  /\ results' \in Seq(Result)
         /\ Len(results') = Len(results) + 1 /\ Len(results) \in Nat
         /\ Run' = Run + 1 /\ Run = Len(results) + 1
         /\ \A k \in 1 .. Len(results) : results'[k] = results[k]
         /\ results'[Run] = [how |-> what, did |-> did, place |-> place]
         /\ pc' = "idle" /\ job' = Nothing /\ place' = Nothing /\ did' = Nothing
<1>1. [how |-> what, did |-> did, place |-> place] \in Result
  BY DEF IInv, CreateTypeOK, Result
<1>2. results \in Seq(Result)
  BY DEF IInv, CreateTypeOK, Result
<1>. QED BY <1>1, <1>2, AppendHolds DEF EndWith, Run

(* An invocation that ends without touching anything.                      *)
LEMMA EndStep ==
  ASSUME IInv, NEW what \in Results, EndWith(what),
         UNCHANGED <<registry, local, store, time, takenBy>>,
         Run <= MaxRuns,
         what # "Published",
         what \in Reporting => pc \in {"finish", "publish"},
         what \in Reporting \cup Hopeless \/ place \notin Spaces,
         pc \in {"commit", "files"} => what \in {"killed", "KeyStore", "AlreadyExists"}
  PROVE  IInv'
<1>0. /\ results' \in Seq(Result)
      /\ Len(results') = Len(results) + 1 /\ Len(results) \in Nat
      /\ Run' = Run + 1 /\ Run = Len(results) + 1
      /\ \A k \in 1 .. Len(results) : results'[k] = results[k]
      /\ results'[Run] = [how |-> what, did |-> did, place |-> place]
      /\ pc' = "idle" /\ job' = Nothing /\ place' = Nothing /\ did' = Nothing
  BY EndRecord
<1>. USE <1>0, CreateAssumption DEF IInv
<1>1. CreateTypeOK'
  BY DEF CreateTypeOK, Result
<1>2. Bounded' /\ Running' /\ Progress'
  BY DEF Bounded, Running, Progress, Later, Run
<1>3. TakenOnce'
  BY DEF TakenOnce, CreateTypeOK, Run
<1>4. EntriesAreOwn'
  <2>1. SUFFICES ASSUME NEW d \in Did, store[d] # Nothing, d.at \in Spaces
                 PROVE  takenBy[d.at] # 0 /\ takenBy[d.at] # Run'
    BY DEF EntriesAreOwn
  <2>. QED BY <2>1 DEF EntriesAreOwn, TakenOnce, CreateTypeOK
<1>5. ServedIsWhole'
  BY DEF ServedIsWhole
<1>6. ReportedIsWhole'
  <2>1. SUFFICES ASSUME NEW k \in 1 .. Len(results')
                 PROVE  /\ results'[k].place \in Spaces => takenBy[results'[k].place] = k
                        /\ results'[k].how \in Reporting =>
                             results'[k].did \in Did /\ store[results'[k].did] = 14
                        /\ results'[k].how = "Published" =>
                             /\ results'[k].place \in Spaces
                             /\ registry[results'[k].place] = results'[k].did
    BY DEF ReportedIsWhole
  <2>2. CASE k \in 1 .. Len(results)
    BY <2>2 DEF ReportedIsWhole
  <2>3. CASE k = Run
    <3>1. place \in Spaces => takenBy[place] = Run
      BY DEF Running, Places
    <3>2. what \in Reporting => did \in Did /\ store[did] = 14
      BY DEF Running, Later, Progress
    <3>. QED BY <2>3, <3>1, <3>2
  <2>. QED BY <2>2, <2>3
<1>7. OrphansEnded'
  <2>1. SUFFICES ASSUME NEW s \in Spaces, registry[s] = Allocated
                 PROVE  OrphanEnded(s, results'[takenBy[s]])
    BY DEF OrphansEnded, OrphanEnded
  <2>2. CASE takenBy[s] = Run
    <3>1. pc # "idle" /\ place = s
      BY <2>2 DEF TakenOnce
    <3>2. CASE what \in Reporting
      <4>1. did \in Did /\ did.at = s /\ store[did] = 14
        BY <3>1, <3>2 DEF Running, Later, Progress
      <4>. QED BY <2>2, <3>2, <4>1 DEF OrphanEnded, Reporting
    <3>3. CASE what \in Hopeless
      BY <2>2, <3>3 DEF OrphanEnded
    <3>. QED BY <3>1, <3>2, <3>3
  <2>3. CASE takenBy[s] # Run
    <3>1. takenBy[s] \in 1 .. Len(results)
      BY <2>1, <2>3 DEF TakenOnce, CreateTypeOK
    <3>. QED BY <2>1, <2>3, <3>1 DEF OrphansEnded
  <2>. QED BY <2>2, <2>3
<1>8. LoneEnded'
  <2>1. SUFFICES ASSUME local \in Did, store[local] # 14
                 PROVE  \E k \in 1 .. Len(results') :
                          /\ results'[k].did = local
                          /\ results'[k].how \in {"killed", "KeyStore", "AlreadyExists"}
    BY DEF LoneEnded
  <2>2. CASE did = local /\ pc \in {"commit", "files"}
    <3>1. Run \in 1 .. Len(results')
      OBVIOUS
    <3>. QED BY <2>2, <3>1
  <2>3. CASE \E k \in 1 .. Len(results) :
               results[k].did = local /\ results[k].how \in {"killed", "KeyStore", "AlreadyExists"}
    BY <2>3
  <2>. QED BY <2>1, <2>2, <2>3 DEF LoneEnded
<1>. QED BY <1>1, <1>2, <1>3, <1>4, <1>5, <1>6, <1>7, <1>8 DEF IInv

-----------------------------------------------------------------------------
(* One lemma for each action.                                              *)

(* The fields of a command line.                                           *)
LEMMA JobFields ==
  ASSUME NEW j \in Jobs
  PROVE  j \in Job /\ j # Nothing
  BY CreateAssumption DEF Job

(* What the running invocation alone changes.                              *)
LEMMA RunKept == ASSUME results' = results PROVE Run' = Run
  BY DEF Run

LEMMA BeginHolds == ASSUME IInv, Begin PROVE IInv'
<1>1. PICK j \in Jobs :
        IF ArgumentError(j) # "" THEN EndWith(ArgumentError(j))
        ELSE /\ job' = j /\ UNCHANGED <<did, results>>
             /\ IF j.swiyu THEN pc' = "allocate" /\ UNCHANGED place
                ELSE pc' = "keys" /\ place' \in OwnUrls
  BY DEF Begin
<1>2. pc = "idle" /\ Run <= MaxRuns /\ UNCHANGED <<registry, local, store, time, takenBy>>
  BY DEF Begin
<1>3. CASE ArgumentError(j) # ""
  <2>1. ArgumentError(j) \in ArgumentErrors
    BY <1>3 DEF ArgumentError, ArgumentErrors
  <2>2. place \notin Spaces
    BY <1>2, CreateAssumption DEF IInv, Running, Places
  <2>. QED
    BY <1>1, <1>2, <1>3, <2>1, <2>2, EndStep DEF ArgumentErrors, Results, Reporting, Hopeless
<1>4. CASE ArgumentError(j) = ""
  <2>. USE <1>1, <1>2, <1>4, RunKept, CreateAssumption DEF IInv
  <2>1. j.swiyu \in BOOLEAN
    BY JobFields DEF Job
  <2>2. CreateTypeOK'
    BY DEF CreateTypeOK, Places
  <2>3. Bounded' /\ Progress'
    BY DEF Bounded, Progress
  <2>4. Running'
    BY <2>1 DEF Running, Later, Places
  <2>5. TakenOnce' /\ EntriesAreOwn' /\ ServedIsWhole' /\ ReportedIsWhole'
    BY DEF TakenOnce, EntriesAreOwn, ServedIsWhole, ReportedIsWhole
  <2>6. OrphansEnded' /\ LoneEnded'
    BY DEF OrphansEnded, OrphanEnded, LoneEnded
  <2>. QED BY <2>2, <2>3, <2>4, <2>5, <2>6 DEF IInv
<1>. QED BY <1>3, <1>4

(* An invocation that goes on without touching the registry.               *)
LEMMA GoOnHolds ==
  ASSUME IInv, UNCHANGED <<registry, time, takenBy, job, place, results>>,
         pc \notin {"idle", "allocate"},
         CreateTypeOK', Progress', EntriesAreOwn', LoneEnded',
         pc' \in Later, did' \in Did, did'.at = place,
         pc' = "publish" => job.swiyu,
         \A d \in Did : store[d] = 14 => store'[d] = 14
  PROVE  IInv'
<1>. USE RunKept DEF IInv
<1>1. Bounded' /\ TakenOnce'
  BY DEF Bounded, TakenOnce, Later
<1>2. Running'
  BY DEF Running, Later, CreateTypeOK
<1>3. ServedIsWhole' /\ ReportedIsWhole'
  BY DEF ServedIsWhole, ReportedIsWhole
<1>4. OrphansEnded'
  BY DEF OrphansEnded, OrphanEnded
<1>. QED BY <1>1, <1>2, <1>3, <1>4 DEF IInv

LEMMA PrepareKeysHolds == ASSUME IInv, PrepareKeys PROVE IInv'
<1>1. CASE \E e \in {"Url", "KeyFile", "IdenticalKeys"} : EndWith(e)
  BY <1>1, EndStep DEF PrepareKeys, Results, Reporting, Hopeless, IInv, Bounded
<1>2. CASE /\ did' = [at |-> place, keys |-> IF job.import = "all" THEN 0 ELSE Run, time |-> time]
           /\ pc' = "truncate" /\ UNCHANGED <<job, place, results>>
  <2>. USE <1>2, RunKept, CreateAssumption DEF IInv, PrepareKeys
  <2>1. Run \in 1 .. MaxRuns
    BY DEF Bounded, CreateTypeOK, Run
  <2>2. did' \in Did /\ did'.at = place
    BY <2>1 DEF Running, Did, KeySets, CreateTypeOK
  <2>3. CreateTypeOK'
    BY <2>2 DEF CreateTypeOK
  <2>4. Progress' /\ EntriesAreOwn' /\ LoneEnded'
    BY DEF Progress, EntriesAreOwn, LoneEnded
  <2>. QED BY <2>2, <2>3, <2>4, GoOnHolds DEF Later
<1>. QED BY <1>1, <1>2 DEF PrepareKeys

LEMMA TruncateHolds == ASSUME IInv, Truncate PROVE IInv'
<1>1. CASE EndWith("WriteLog") /\ UNCHANGED local
  BY <1>1, EndStep DEF Truncate, Results, Reporting, Hopeless, IInv, Bounded
<1>2. CASE local' = Torn /\ Goto("write")
  <2>. USE <1>2, RunKept, CreateAssumption DEF IInv, Truncate, Goto
  <2>1. CreateTypeOK'
    BY DEF CreateTypeOK
  <2>2. Progress' /\ EntriesAreOwn' /\ LoneEnded'
    BY DEF Progress, EntriesAreOwn, LoneEnded
  <2>. QED BY <2>1, <2>2, GoOnHolds DEF Later, Running
<1>. QED BY <1>1, <1>2 DEF Truncate

LEMMA WriteLogFileHolds == ASSUME IInv, WriteLogFile PROVE IInv'
<1>1. CASE EndWith("WriteLog") /\ UNCHANGED local
  BY <1>1, EndStep DEF WriteLogFile, Results, Reporting, Hopeless, IInv, Bounded
<1>2. CASE local' = did /\ Goto(AfterWriting)
  <2>. USE <1>2, RunKept, CreateAssumption DEF IInv, WriteLogFile, Goto, AfterWriting
  <2>1. CreateTypeOK'
    BY DEF CreateTypeOK, Running, Later
  <2>2. Progress' /\ EntriesAreOwn' /\ LoneEnded'
    BY DEF Progress, EntriesAreOwn, LoneEnded
  <2>. QED BY <2>1, <2>2, GoOnHolds DEF Later, Running
<1>. QED BY <1>1, <1>2 DEF WriteLogFile

(* An identifier of the registry has no entry yet when its keys are        *)
(* committed.                                                              *)
LEMMA CommitHolds == ASSUME IInv, Commit PROVE IInv'
<1>0. did \in Did /\ did.at = place /\ pc = "commit"
  BY DEF IInv, Running, Later, Commit
<1>1. CASE store[did] # Nothing
  <2>1. place \notin Spaces
    BY <1>0, <1>1 DEF IInv, EntriesAreOwn, Running
  <2>. QED BY <1>0, <1>1, <2>1, EndStep DEF Commit, Results, Reporting, Hopeless, IInv, Bounded
<1>2. CASE UNCHANGED store /\ EndWith("KeyStore")
  BY <1>2, EndStep DEF Commit, Results, Reporting, Hopeless, IInv, Bounded
<1>3. CASE store[did] = Nothing /\ store' = [store EXCEPT ![did] = 0] /\ Goto("files")
  <2>. USE <1>0, <1>3, RunKept, CreateAssumption DEF IInv, Commit, Goto
  <2>1. CreateTypeOK'
    BY DEF CreateTypeOK, Dir
  <2>2. Progress'
    BY DEF Progress, CreateTypeOK
  <2>3. EntriesAreOwn'
    BY DEF EntriesAreOwn, CreateTypeOK, Running, Run
  <2>4. LoneEnded' /\ \A d \in Did : store[d] = 14 => store'[d] = 14
    BY DEF LoneEnded, CreateTypeOK, Dir
  <2>. QED BY <2>1, <2>2, <2>3, <2>4, GoOnHolds DEF Later
<1>. QED BY <1>1, <1>2, <1>3 DEF Commit

LEMMA WriteEntryHolds == ASSUME IInv, WriteEntry PROVE IInv'
<1>0. did \in Did /\ did.at = place /\ pc = "files" /\ store[did] \in 0 .. 13
  BY DEF IInv, Running, Later, WriteEntry, Progress
<1>1. CASE EndWith("KeyStore") /\ UNCHANGED store
  BY <1>1, EndStep DEF WriteEntry, Results, Reporting, Hopeless, IInv, Bounded
<1>2. CASE /\ store' = [store EXCEPT ![did] = @ + 1]
           /\ Goto(IF store[did] + 1 = 2 * Len(EntryFiles) THEN "finish" ELSE "files")
  <2>. USE <1>0, <1>2, RunKept, FileOrder, CreateAssumption DEF IInv, WriteEntry, Goto
  <2>1. store' \in [Did -> Dir \cup {Nothing}]
    BY DEF CreateTypeOK, Dir
  <2>2. CreateTypeOK'
    BY <2>1 DEF CreateTypeOK
  <2>3. Progress'
    BY DEF Progress, CreateTypeOK
  <2>4. EntriesAreOwn'
    BY DEF EntriesAreOwn, CreateTypeOK, Dir
  <2>5. LoneEnded' /\ \A d \in Did : store[d] = 14 => store'[d] = 14
    BY DEF LoneEnded, CreateTypeOK
  <2>. QED BY <2>2, <2>3, <2>4, <2>5, GoOnHolds DEF Later
<1>. QED BY <1>1, <1>2 DEF WriteEntry

LEMMA FinishHolds == ASSUME IInv, Finish PROVE IInv'
<1>1. CASE EndWith("Created")
  BY <1>1, EndStep DEF Finish, Results, Reporting, Hopeless, IInv, Bounded
<1>2. CASE job.swiyu /\ Goto("publish")
  <2>. USE <1>2, RunKept DEF IInv, Finish, Goto
  <2>1. CreateTypeOK'
    BY DEF CreateTypeOK
  <2>2. Progress' /\ EntriesAreOwn' /\ LoneEnded'
    BY DEF Progress, EntriesAreOwn, LoneEnded
  <2>. QED BY <2>1, <2>2, GoOnHolds DEF Later, Running
<1>. QED BY <1>1, <1>2 DEF Finish

LEMMA KilledHolds == ASSUME IInv, Killed PROVE IInv'
  BY EndStep DEF Killed, Results, Reporting, Hopeless, IInv, Bounded

LEMMA SecondPassesHolds == ASSUME IInv, SecondPasses PROVE IInv'
<1>. USE RunKept, CreateAssumption DEF IInv, SecondPasses
<1>1. CreateTypeOK'
  BY DEF CreateTypeOK
<1>2. Bounded' /\ Running' /\ TakenOnce' /\ Progress' /\ EntriesAreOwn'
  BY DEF Bounded, Running, TakenOnce, Progress, EntriesAreOwn, Later
<1>3. ServedIsWhole' /\ ReportedIsWhole' /\ OrphansEnded' /\ LoneEnded'
  BY DEF ServedIsWhole, ReportedIsWhole, OrphansEnded, OrphanEnded, LoneEnded
<1>. QED BY <1>1, <1>2, <1>3 DEF IInv

(* The registry hands out an identifier that nobody has.                   *)
LEMMA AllocateHolds == ASSUME IInv, Allocate PROVE IInv'
<1>0. pc = "allocate" /\ place = Nothing /\ Run <= MaxRuns /\ UNCHANGED <<local, store, time>>
  BY DEF IInv, Allocate, Running, Bounded
<1>1. CASE \E e \in {"OAuth2", "Registry"} : EndWith(e) /\ UNCHANGED <<registry, takenBy>>
  <2>1. place \notin Spaces
    BY <1>0, CreateAssumption DEF Places
  <2>. QED BY <1>0, <1>1, <2>1, EndStep DEF Results, Reporting
<1>2. ASSUME NEW s \in Spaces, registry[s] = Nothing,
             registry' = [registry EXCEPT ![s] = Allocated],
             takenBy' = [takenBy EXCEPT ![s] = Run],
             \/ \E e \in {"Registry", "killed"} : EndWith(e)
             \/ place' = s /\ pc' = "keys" /\ UNCHANGED <<job, did, results>>
      PROVE  IInv'
  <2>. USE <1>0, <1>2, CreateAssumption DEF IInv
  <2>1. /\ Run \in 1 .. MaxRuns /\ Run = Len(results) + 1 /\ Len(results) \in Nat
        /\ takenBy[s] = 0 /\ takenBy'[s] = Run /\ registry'[s] = Allocated
        /\ \A r \in Spaces \ {s} : takenBy'[r] = takenBy[r] /\ registry'[r] = registry[r]
        /\ \A r \in Spaces : takenBy[r] < Run
    <3>1. Run \in 1 .. MaxRuns /\ Run = Len(results) + 1 /\ Len(results) \in Nat
      BY DEF CreateTypeOK, Run
    <3>2. \A r \in Spaces : takenBy[r] < Run
      BY <3>1 DEF TakenOnce, CreateTypeOK, Places
    <3>. QED BY <3>1, <3>2 DEF TakenOnce, CreateTypeOK
  <2>2. /\ registry' \in [Spaces -> Did \cup {Nothing, Allocated}]
        /\ takenBy' \in [Spaces -> 0 .. MaxRuns]
    BY <2>1 DEF CreateTypeOK
  <2>3. ServedIsWhole'
    BY <2>1 DEF ServedIsWhole
  <2>4. \A d \in Did : store[d] # Nothing => d.at # s
    BY <2>1 DEF EntriesAreOwn
  <2>5. \A k \in 1 .. Len(results) : results[k].place # s
    BY <2>1 DEF ReportedIsWhole
  <2>6. CASE \E e \in {"Registry", "killed"} : EndWith(e)
    <3>1. PICK e \in {"Registry", "killed"} : EndWith(e)
      BY <2>6
    <3>2. /\ results' \in Seq(Result)
          /\ Len(results') = Len(results) + 1
          /\ Run' = Run + 1
          /\ \A k \in 1 .. Len(results) : results'[k] = results[k]
          /\ results'[Run] = [how |-> e, did |-> did, place |-> place]
          /\ pc' = "idle" /\ job' = Nothing /\ place' = Nothing /\ did' = Nothing
      BY <3>1, EndRecord DEF Results
    <3>. USE <2>1, <2>2, <3>2
    <3>3. CreateTypeOK'
      BY DEF CreateTypeOK, Result
    <3>4. Bounded' /\ Running' /\ Progress'
      BY DEF Bounded, Running, Progress, Later
    <3>5. TakenOnce'
      BY DEF TakenOnce
    <3>6. EntriesAreOwn'
      BY <2>4 DEF EntriesAreOwn
    <3>7. ReportedIsWhole'
      <4>1. place \notin Spaces
        BY DEF Places
      <4>2. SUFFICES ASSUME NEW k \in 1 .. Len(results')
                     PROVE  /\ results'[k].place \in Spaces => takenBy'[results'[k].place] = k
                            /\ results'[k].how \in Reporting =>
                                 results'[k].did \in Did /\ store[results'[k].did] = 14
                            /\ results'[k].how = "Published" =>
                                 /\ results'[k].place \in Spaces
                                 /\ registry'[results'[k].place] = results'[k].did
        BY DEF ReportedIsWhole
      <4>3. CASE k \in 1 .. Len(results)
        BY <4>3, <2>5 DEF ReportedIsWhole
      <4>4. CASE k = Run
        BY <4>1, <4>4 DEF Reporting
      <4>. QED BY <4>3, <4>4
    <3>8. OrphansEnded'
      <4>1. SUFFICES ASSUME NEW r \in Spaces, registry'[r] = Allocated
                     PROVE  OrphanEnded(r, results'[takenBy'[r]])
        BY DEF OrphansEnded, OrphanEnded
      <4>2. CASE r = s
        BY <4>2 DEF OrphanEnded, Hopeless
      <4>3. CASE r # s
        <5>1. takenBy[r] \in 1 .. Len(results)
          BY <4>1, <4>3 DEF TakenOnce, CreateTypeOK
        <5>. QED BY <4>1, <4>3, <5>1 DEF OrphansEnded
      <4>. QED BY <4>2, <4>3
    <3>9. LoneEnded'
      BY DEF LoneEnded
    <3>. QED BY <2>3, <3>3, <3>4, <3>5, <3>6, <3>7, <3>8, <3>9 DEF IInv
  <2>7. CASE place' = s /\ pc' = "keys" /\ UNCHANGED <<job, did, results>>
    <3>. USE <2>1, <2>2, <2>7, RunKept
    <3>1. CreateTypeOK'
      BY DEF CreateTypeOK, Places
    <3>2. Bounded' /\ Running' /\ Progress'
      BY DEF Bounded, Running, Progress, Later, Places
    <3>3. TakenOnce'
      BY DEF TakenOnce
    <3>4. EntriesAreOwn' /\ ReportedIsWhole'
      BY <2>4, <2>5 DEF EntriesAreOwn, ReportedIsWhole
    <3>5. OrphansEnded' /\ LoneEnded'
      BY DEF OrphansEnded, OrphanEnded, LoneEnded
    <3>. QED BY <2>3, <3>1, <3>2, <3>3, <3>4, <3>5 DEF IInv
  <2>. QED BY <2>6, <2>7
<1>. QED BY <1>1, <1>2 DEF Allocate, NotGranted, PostAllocation

(* The log reaches the registry, whatever the process learns of it.        *)
LEMMA UploadedHolds ==
  ASSUME IInv, pc = "publish", Uploaded, UNCHANGED <<local, store, time, takenBy>>,
         NEW what \in Reporting \cup {"killed"}, EndWith(what)
  PROVE  IInv'
<1>0. /\ results' \in Seq(Result)
      /\ Len(results') = Len(results) + 1 /\ Len(results) \in Nat
      /\ Run' = Run + 1 /\ Run = Len(results) + 1
      /\ \A k \in 1 .. Len(results) : results'[k] = results[k]
      /\ results'[Run] = [how |-> what, did |-> did, place |-> place]
      /\ pc' = "idle" /\ job' = Nothing /\ place' = Nothing /\ did' = Nothing
  BY EndRecord DEF Results, Reporting
<1>. USE <1>0, CreateAssumption DEF IInv
<1>1. /\ place \in Spaces /\ takenBy[place] = Run /\ registry[place] = Allocated
      /\ did \in Did /\ did.at = place /\ store[did] = 14 /\ Run <= MaxRuns
  BY DEF Running, Later, Progress, Bounded
<1>2. /\ registry' \in [Spaces -> Did \cup {Nothing, Allocated}]
      /\ registry'[place] = did
      /\ \A r \in Spaces \ {place} : registry'[r] = registry[r]
  BY <1>1 DEF Uploaded, CreateTypeOK
<1>. USE <1>1, <1>2
<1>3. CreateTypeOK'
  BY DEF CreateTypeOK, Result
<1>4. Bounded' /\ Running' /\ Progress'
  BY DEF Bounded, Running, Progress, Later
<1>5. TakenOnce'
  BY DEF TakenOnce, CreateTypeOK
<1>6. EntriesAreOwn'
  <2>1. SUFFICES ASSUME NEW d \in Did, store[d] # Nothing, d.at \in Spaces
                 PROVE  takenBy[d.at] # 0 /\ takenBy[d.at] # Run'
    BY DEF EntriesAreOwn
  <2>. QED BY <2>1 DEF EntriesAreOwn, TakenOnce, CreateTypeOK
<1>7. ServedIsWhole'
  BY DEF ServedIsWhole
<1>8. ReportedIsWhole'
  <2>1. SUFFICES ASSUME NEW k \in 1 .. Len(results')
                 PROVE  /\ results'[k].place \in Spaces => takenBy[results'[k].place] = k
                        /\ results'[k].how \in Reporting =>
                             results'[k].did \in Did /\ store[results'[k].did] = 14
                        /\ results'[k].how = "Published" =>
                             /\ results'[k].place \in Spaces
                             /\ registry'[results'[k].place] = results'[k].did
    BY DEF ReportedIsWhole
  <2>2. CASE k \in 1 .. Len(results)
    <3>1. results[k].place # place
      BY <2>2 DEF ReportedIsWhole
    <3>. QED BY <2>2, <3>1 DEF ReportedIsWhole
  <2>3. CASE k = Run
    BY <2>3
  <2>. QED BY <2>2, <2>3
<1>9. OrphansEnded'
  <2>1. SUFFICES ASSUME NEW s \in Spaces, registry'[s] = Allocated
                 PROVE  OrphanEnded(s, results'[takenBy[s]])
    BY DEF OrphansEnded, OrphanEnded
  <2>2. s # place /\ registry[s] = Allocated
    BY <2>1
  <2>3. takenBy[s] \in 1 .. Len(results)
    BY <2>2 DEF TakenOnce, CreateTypeOK
  <2>. QED BY <2>2, <2>3 DEF OrphansEnded
<1>10. LoneEnded'
  BY DEF LoneEnded
<1>. QED BY <1>3, <1>4, <1>5, <1>6, <1>7, <1>8, <1>9, <1>10 DEF IInv

LEMMA UploadHolds == ASSUME IInv, Upload PROVE IInv'
<1>1. CASE EndWith("PublishFailed") /\ UNCHANGED <<registry, takenBy>>
  BY <1>1, EndStep DEF Upload, Results, Reporting, Hopeless, IInv, Bounded
<1>2. ASSUME Uploaded, UNCHANGED takenBy,
             NEW end \in {"Published", "PublishFailed", "killed"}, EndWith(end)
      PROVE  IInv'
  BY <1>2, UploadedHolds DEF Upload, Reporting
<1>. QED BY <1>1, <1>2 DEF Upload, NotGranted, PutEntry

-----------------------------------------------------------------------------

(* The strengthening holds throughout, whatever fails and whenever the     *)
(* process dies.                                                           *)
THEOREM CreateInvariant == CreateSpec => []IInv
<1>1. IInv /\ [CreateNext]_createVars => IInv'
  <2>. SUFFICES ASSUME IInv, [CreateNext]_createVars PROVE IInv'
    OBVIOUS
  <2>1. CASE UNCHANGED createVars
    <3>. USE <2>1, RunKept DEF IInv, createVars
    <3>1. CreateTypeOK' /\ Bounded' /\ Running' /\ TakenOnce' /\ Progress'
      BY DEF CreateTypeOK, Bounded, Running, TakenOnce, Progress
    <3>2. EntriesAreOwn' /\ ServedIsWhole' /\ ReportedIsWhole'
      BY DEF EntriesAreOwn, ServedIsWhole, ReportedIsWhole
    <3>3. OrphansEnded' /\ LoneEnded'
      BY DEF OrphansEnded, OrphanEnded, LoneEnded
    <3>. QED BY <3>1, <3>2, <3>3 DEF IInv
  <2>2. CASE Begin \/ Killed \/ SecondPasses
    BY <2>2, BeginHolds, KilledHolds, SecondPassesHolds
  <2>3. CASE Allocate \/ PrepareKeys \/ Truncate \/ WriteLogFile
    BY <2>3, AllocateHolds, PrepareKeysHolds, TruncateHolds, WriteLogFileHolds
  <2>4. CASE Commit \/ WriteEntry \/ Finish \/ Upload
    BY <2>4, CommitHolds, WriteEntryHolds, FinishHolds, UploadHolds
  <2>. QED BY <2>1, <2>2, <2>3, <2>4 DEF CreateNext, CreateStep
<1>. QED BY <1>1, InitHolds, PTL DEF CreateSpec

(* Every variable of `did create` keeps its type.                          *)
THEOREM CreateTypeCorrect == CreateSpec => []CreateTypeOK
<1>1. IInv => CreateTypeOK
  BY DEF IInv
<1>. QED BY <1>1, CreateInvariant, PTL

(* A log that the registry serves is the one made for its identifier, and  *)
(* all its keys are in the key store.                                      *)
THEOREM ServedKeysAreHeld == CreateSpec => []PublishedIsHeld
<1>1. IInv => PublishedIsHeld
  BY UsableIsWhole DEF IInv, CreateTypeOK, ServedIsWhole, PublishedIsHeld
<1>. QED BY <1>1, CreateInvariant, PTL

(* A DID that an invocation reported is usable, and served if it said so.  *)
THEOREM ReportsAreTrue == CreateSpec => []ReportedIsHeld
<1>1. ASSUME IInv PROVE ReportedIsHeld
  <2>1. DOMAIN results = 1 .. Len(results)
    BY <1>1 DEF IInv, CreateTypeOK
  <2>. QED
    BY <1>1, <2>1, UsableIsWhole DEF IInv, CreateTypeOK, ReportedIsWhole, ReportedIsHeld, Reporting
<1>. QED BY <1>1, CreateInvariant, PTL

(* What `key list` shows is found by its DID just when it has all keys.    *)
THEOREM ListingIsUsable == CreateSpec => []ListedIsUsable
<1>1. IInv => ListedIsUsable
  BY UsableIsWhole DEF IInv, CreateTypeOK, ListedIsUsable, KeyList
<1>. QED BY <1>1, CreateInvariant, PTL

(* An identifier without a log is being worked on, can still be uploaded   *)
(* to with keys that are held, or its invocation ended with an error.      *)
THEOREM OrphansAreAccounted == CreateSpec => []OrphansHaveCause
<1>1. ASSUME IInv PROVE OrphansHaveCause
  BY <1>1, UsableIsWhole
     DEF IInv, CreateTypeOK, OrphansEnded, OrphanEnded, OrphansHaveCause, Hopeless
<1>. QED BY <1>1, CreateInvariant, PTL

(* A log file without keys is being worked on, or an invocation ended with *)
(* the error that says so.                                                 *)
THEOREM LoneLogsAreAccounted == CreateSpec => []LoneLogHasCause
<1>1. ASSUME IInv PROVE LoneLogHasCause
  <2>1. DOMAIN results = 1 .. Len(results)
    BY <1>1 DEF IInv, CreateTypeOK
  <2>. QED BY <1>1, <2>1, UsableIsWhole DEF IInv, CreateTypeOK, LoneEnded, LoneLogHasCause
<1>. QED BY <1>1, CreateInvariant, PTL
=============================================================================
