---------------------------- MODULE TrustVerify ----------------------------
(***************************************************************************)
(* `trust verify` and `trust lookup`: one invocation, its two caches, and  *)
(* the authorities whose keys and status lists change while it runs.       *)
(*                                                                         *)
(* A document is a function from fragments to keys, Unresolved where there *)
(* is no P-256 key to be found.  A statement, or the token of a status list,  *)
(* names in `kid` where the key is that signed it, and holds in `key` the  *)
(* key that did.                                                           *)
(***************************************************************************)
EXTENDS TrustStatement

CONSTANTS Expected,    \* --trust-issuer, one of Dids
          Unresolved,
          Array,       \* what a trust registry may hold for the DID asked for
          FirstTokens, \* the status list tokens at the start, by URL
          Values, Valid,
          Requests,    \* command lines
          MaxIdx,      \* bound: the highest slot of a status list
          MaxChanges   \* bound: how often the world changes while the command runs

VARIABLES
  (* the world *)
  published, tokens, clock,
  (* the invocation *)
  request, stage, statements, reports, docs, lists, token, now, outcome,
  (* history: what was fetched and how often, what was published meanwhile, *)
  (* whether a fetch failed                                                  *)
  fetches, seenDocs, seenTokens, failed, changes

world == <<published, tokens, clock>>
invocation == <<request, stage, statements, reports, docs, lists, token, now, outcome,
                fetches, failed>>
history == <<seenDocs, seenTokens, changes>>
trustVars == <<world, invocation, history>>

IssuerDoc == [Fragments -> Keys \cup {Unresolved}]
Slots == UNION {[0 .. n -> Values] : n \in 0 .. MaxIdx}
Token == [alg : {"ES256", "EdDSA"}, kid : Kid, key : Keys, slots : Slots \cup {Missing}]
Check == {"ok", "fail", "skip"}
Report == [statement : Statement, iss : Check, signature : Check, freshness : Check,
           status : Check, verdict : BOOLEAN]
Request == [command : {"verify", "lookup"}, raw : BOOLEAN, url : BOOLEAN, issuer : BOOLEAN,
            did : BOOLEAN]
Errors == {"TrustRegistryUrlMissing", "TrustIssuerMissing", "Resolve", "Registry", "Statement",
           "Fetch", "IssuerResolution", "DidDoc", "StatusListMalformed",
           "StatusListSignatureInvalid", "StatusList"}
Verdicts == {"Trusted", "Untrusted"}
Outcomes == Verdicts \cup {"Found", "NoStatements"} \cup Errors

ASSUME TrustAssumption ==
  /\ Expected \in Dids
  /\ Dids \cap Urls = {}
  /\ Array \subseteq Seq(Wire)
  /\ FirstTokens \subseteq [Urls -> Token \cup {Malformed}]
  /\ Requests \subseteq Request
  /\ Unresolved \notin Keys
  /\ Missing \notin Dids \cup Fragments \cup Nat \cup Pointer \cup IssuerDoc \cup Slots
  /\ Missing \notin Token \cup Outcomes \cup {Malformed} \cup Request
  /\ Malformed \notin Token \cup Pointer \cup {Missing}

-----------------------------------------------------------------------------

TrustInit ==
  /\ published \in [Dids -> IssuerDoc]
  /\ tokens \in FirstTokens
  /\ clock = 1
  /\ request = Missing /\ stage = "idle"
  /\ statements = << >> /\ reports = << >>
  /\ docs = [d \in Dids |-> Missing] /\ lists = [u \in Urls |-> Missing]
  /\ token = Missing /\ now = 1 /\ outcome = Missing
  /\ fetches = [x \in Dids \cup Urls |-> 0]
  /\ seenDocs = [d \in Dids |-> {published[d]}]
  /\ seenTokens = [u \in Urls |-> {tokens[u]}]
  /\ failed = FALSE /\ changes = 0

(* The command ends; what it printed is in reports and outcome.            *)
End(what) == stage' = "done" /\ outcome' = what

(* A fetch of x, counted, that cannot be used ends the command.            *)
Fetched(x) == fetches' = [fetches EXCEPT ![x] = @ + 1]

(* cmd_verify, cmd_lookup: the first argument that is missing, or "".      *)
RequestError(r) ==
  IF ~r.url THEN "TrustRegistryUrlMissing"
  ELSE IF r.command = "verify" /\ ~r.issuer THEN "TrustIssuerMissing"
  ELSE IF ~r.did THEN "Resolve"
  ELSE ""

TrustStart ==
  /\ stage = "idle"
  /\ \E r \in Requests :
       /\ request' = r
       /\ IF RequestError(r) # "" THEN End(RequestError(r))
                                  ELSE stage' = "fetch" /\ UNCHANGED outcome
  /\ UNCHANGED <<world, statements, reports, docs, lists, token, now, fetches, failed,
                 history>>

(* sort_by_key(Reverse(iat)): newest first, equal ones in their order.     *)
IsSorting(f, a) ==
  \A j, k \in DOMAIN a : j < k =>
    \/ a[f[j]].iat > a[f[k]].iat
    \/ a[f[j]].iat = a[f[k]].iat /\ f[j] < f[k]

(* What the array makes the command do, once it is there.                  *)
Decode(a) ==
  IF a = << >> THEN
    /\ End(IF request.command = "verify" THEN "Untrusted" ELSE "NoStatements")
    /\ UNCHANGED <<statements, now>>
  ELSE IF request.command = "lookup" /\ request.raw THEN
    End("Found") /\ UNCHANGED <<statements, now>>
  ELSE IF \E k \in DOMAIN a : ~Decodes(a[k]) THEN
    End("Statement") /\ UNCHANGED <<statements, now>>
  ELSE
    /\ \E f \in [DOMAIN a -> DOMAIN a] :
         IsSorting(f, a) /\ statements' = [k \in DOMAIN a |-> Decoded(a[f[k]])]
    /\ now' = clock
    /\ IF request.command = "lookup" THEN End("Found")
                                     ELSE stage' = "one" /\ UNCHANGED outcome

(* fetch_statements: 404 is an empty array, any other refusal an error.    *)
FetchStatements ==
  /\ stage = "fetch"
  /\ \/ \E a \in Array : Decode(a) /\ UNCHANGED failed
     \/ Decode(<< >>) /\ UNCHANGED failed
     \/ End("Registry") /\ failed' = TRUE /\ UNCHANGED <<statements, now>>
  /\ UNCHANGED <<world, request, reports, docs, lists, token, fetches, history>>

-----------------------------------------------------------------------------
(* verify_one, for the statement after those that have a report.           *)

Current == statements[Len(reports) + 1]

CheckFreshness(s) ==
  IF \/ s.nbf # Missing /\ now < s.nbf
     \/ s.exp # Missing /\ now >= s.exp
    THEN "fail" ELSE "ok"

MakeReport(iss, signature, status) ==
  LET freshness == CheckFreshness(Current) IN
  [statement |-> Current, iss |-> iss, signature |-> signature, freshness |-> freshness,
   status |-> status,
   verdict |-> iss = "ok" /\ signature = "ok" /\ freshness = "ok" /\ status = "ok"]

(* Mutant of Verdict: the oldest statement decides.                        *)
VerdictOfLast(rs) == IF rs[Len(rs)].verdict THEN "Trusted" ELSE "Untrusted"

Verdict(rs) == IF \E k \in DOMAIN rs : rs[k].verdict THEN "Trusted" ELSE "Untrusted"

(* Mutant of Conclude: the loop does not go on to the next statement.      *)
ConcludeAgain(report) ==
  IF Len(reports) + 1 < Len(statements)
    THEN stage' = "one" /\ UNCHANGED <<reports, outcome>>
    ELSE reports' = Append(reports, report) /\ End(Verdict(Append(reports, report)))

(* The report is kept; after the last one the verdict is given.            *)
Conclude(report) ==
  /\ reports' = Append(reports, report)
  /\ IF Len(reports) + 1 < Len(statements)
       THEN stage' = "one" /\ UNCHANGED outcome
       ELSE End(Verdict(Append(reports, report)))

(* The allowlist, and what verify_signature refuses before it looks for a  *)
(* key.                                                                    *)
CheckIssuer ==
  /\ stage = "one"
  /\ IF Current.iss # Expected THEN Conclude(MakeReport("fail", "skip", "skip"))
     ELSE IF Current.alg # "ES256" \/ Current.kid[2] = Missing
       THEN Conclude(MakeReport("ok", "fail", "skip"))
     ELSE stage' = "signature" /\ UNCHANGED <<reports, outcome>>
  /\ UNCHANGED <<world, request, statements, docs, lists, token, now, fetches, failed,
                 history>>

(* Mutant of Remembered: the document is used and forgotten.               *)
Forgotten(did, next) == stage' = next /\ UNCHANGED docs

Remembered(did, next) == stage' = next /\ docs' = [docs EXCEPT ![did] = published[did]]

(* load_issuer_doc, on a miss: the log as it is now.                       *)
LoadIssuerDoc(did, next) ==
  /\ docs[did] = Missing
  /\ Fetched(did)
  /\ \/ Remembered(did, next) /\ UNCHANGED <<outcome, failed>>
     \/ /\ \E e \in {"Fetch", "IssuerResolution", "DidDoc"} : End(e)
        /\ failed' = TRUE /\ UNCHANGED docs
  /\ UNCHANGED <<world, request, statements, reports, lists, token, now, history>>

LoadSignerDoc == stage = "signature" /\ LoadIssuerDoc(Current.kid[1], "signature")

(* Mutant of SignatureHolds: any signature will do.                        *)
SignatureUnchecked == TRUE

SignatureHolds == docs[Current.kid[1]][Current.kid[2]] = Current.key

(* find_verifying_key and the signature; then whether there is a pointer.  *)
CheckSignature ==
  /\ stage = "signature"
  /\ docs[Current.kid[1]] # Missing
  /\ IF ~SignatureHolds THEN Conclude(MakeReport("ok", "fail", "skip"))
     ELSE IF Current.status = Missing THEN Conclude(MakeReport("ok", "ok", "fail"))
     ELSE stage' = "status" /\ UNCHANGED <<reports, outcome>>
  /\ UNCHANGED <<world, request, statements, docs, lists, token, now, fetches, failed,
                 history>>

-----------------------------------------------------------------------------
(* check_status.                                                           *)

Url == Current.status[1]
Idx == Current.status[2]

(* The header of a token that is worth a look at its signature.            *)
Acceptable(t) ==
  /\ t # Malformed
  /\ t.alg = "ES256" /\ t.kid[1] = Expected /\ t.kid[2] # Missing

(* load_status_list, on a miss: what the URL serves, or an error; a token  *)
(* that does not decode, or is not the expected issuer's, is refused.      *)
FetchList ==
  /\ stage = "status" /\ lists[Url] = Missing
  /\ Fetched(Url)
  /\ \/ /\ Acceptable(tokens[Url])
        /\ token' = tokens[Url] /\ stage' = "list"
        /\ UNCHANGED <<outcome, failed>>
     \/ /\ ~Acceptable(tokens[Url])
        /\ End("StatusListMalformed") /\ UNCHANGED <<token, failed>>
     \/ /\ \E e \in {"Fetch", "StatusListMalformed"} : End(e)
        /\ failed' = TRUE /\ UNCHANGED token
  /\ UNCHANGED <<world, request, statements, reports, docs, lists, now, history>>

LoadListDoc == stage = "list" /\ LoadIssuerDoc(Expected, "list")

(* Mutant of ListSigned: the signature of a list is not looked at.         *)
ListUnchecked == TRUE

ListSigned == docs[Expected][token.kid[2]] = token.key

(* parse_and_verify_status_list: key, signature, then the list, which is   *)
(* kept if it is one.                                                      *)
VerifyList ==
  /\ stage = "list" /\ docs[Expected] # Missing
  /\ token' = Missing
  /\ IF docs[Expected][token.kid[2]] = Unresolved THEN
       End("StatusListMalformed") /\ UNCHANGED lists
     ELSE IF ~ListSigned THEN
       End("StatusListSignatureInvalid") /\ UNCHANGED lists
     ELSE IF token.slots = Missing THEN
       (\E e \in {"StatusListMalformed", "StatusList"} : End(e)) /\ UNCHANGED lists
     ELSE
       /\ lists' = [lists EXCEPT ![Url] = token.slots]
       /\ stage' = "status" /\ UNCHANGED outcome
  /\ UNCHANGED <<world, request, statements, reports, docs, now, fetches, failed,
                 history>>

(* value_at: past the end of the list is an error of the command.          *)
CheckStatus ==
  /\ stage = "status" /\ lists[Url] # Missing
  /\ IF Idx \notin DOMAIN lists[Url] THEN End("StatusList") /\ UNCHANGED reports
     ELSE Conclude(MakeReport("ok", "ok", IF lists[Url][Idx] = Valid THEN "ok" ELSE "fail"))
  /\ UNCHANGED <<world, request, statements, docs, lists, token, now, fetches, failed,
                 history>>

(* What a command that was started does by itself.                         *)
TrustStep ==
  \/ FetchStatements \/ CheckIssuer \/ LoadSignerDoc \/ CheckSignature
  \/ FetchList \/ LoadListDoc \/ VerifyList \/ CheckStatus

-----------------------------------------------------------------------------
(* The authorities, while the command runs; what they did before it is in  *)
(* the initial states.                                                     *)

Changes ==
  /\ stage \notin {"idle", "done"}
  /\ changes < MaxChanges
  /\ changes' = changes + 1

(* A rotation: other keys in the document.                                 *)
AuthorityRotates ==
  /\ Changes
  /\ \E d \in Dids, doc \in IssuerDoc :
       /\ doc # published[d]
       /\ published' = [published EXCEPT ![d] = doc]
       /\ seenDocs' = [seenDocs EXCEPT ![d] = @ \cup {doc}]
  /\ UNCHANGED <<tokens, clock, invocation, seenTokens>>

(* A status list is published anew, with another value and the key of the  *)
(* day.                                                                    *)
AuthorityRevokes ==
  /\ Changes
  /\ \E u \in Urls, f \in Fragments, v \in Values :
       /\ tokens[u] # Malformed /\ tokens[u].slots # Missing
       /\ published[Expected][f] # Unresolved
       /\ \E i \in DOMAIN tokens[u].slots :
            LET new == [alg |-> "ES256", kid |-> <<Expected, f>>,
                        key |-> published[Expected][f],
                        slots |-> [tokens[u].slots EXCEPT ![i] = v]] IN
            /\ new # tokens[u]
            /\ tokens' = [tokens EXCEPT ![u] = new]
            /\ seenTokens' = [seenTokens EXCEPT ![u] = @ \cup {new}]
  /\ UNCHANGED <<published, clock, invocation, seenDocs>>

TimePasses ==
  /\ Changes
  /\ clock' = clock + 1
  /\ UNCHANGED <<published, tokens, invocation, seenDocs, seenTokens>>

TrustNext == TrustStart \/ TrustStep \/ AuthorityRotates \/ AuthorityRevokes \/ TimePasses

TrustSpec == TrustInit /\ [][TrustNext]_trustVars /\ WF_trustVars(TrustStep)

-----------------------------------------------------------------------------
(* What must hold.                                                         *)

TrustTypeOK ==
  /\ published \in [Dids -> IssuerDoc]
  /\ tokens \in [Urls -> Token \cup {Malformed}]
  /\ clock \in Nat /\ now \in Nat /\ changes \in Nat
  /\ request \in Request \cup {Missing}
  /\ stage \in {"idle", "fetch", "one", "signature", "status", "list", "done"}
  /\ statements \in Seq(Statement) /\ reports \in Seq(Report)
  /\ docs \in [Dids -> IssuerDoc \cup {Missing}]
  /\ lists \in [Urls -> Slots \cup {Missing}]
  /\ token \in Token \cup {Missing}
  /\ outcome \in Outcomes \cup {Missing}
  /\ fetches \in [Dids \cup Urls -> Nat]
  /\ seenDocs \in [Dids -> SUBSET IssuerDoc]
  /\ seenTokens \in [Urls -> SUBSET (Token \cup {Malformed})]
  /\ failed \in BOOLEAN

(* "At most one fetch per unique issuer DID and one per unique status-list *)
(* URL, regardless of how many statements reference them".                 *)
OneFetchEach == \A x \in Dids \cup Urls : fetches[x] <= 1

(* "The fields below only ever reflect authorised disclosures": a claim    *)
(* that `trust verify` or `trust lookup` shows is one its token commits to *)
(* under the signature, whatever disclosures come with the token and in    *)
(* whatever order.                                                         *)
ShownClaimsAreSigned == \A k \in DOMAIN statements : ClaimsAreSigned(statements[k])

(* "nbf <= now <= exp".                                                     *)
Timely(s, t) == (s.nbf = Missing \/ s.nbf <= t) /\ (s.exp = Missing \/ t <= s.exp)
NamesKey(s) == s.alg = "ES256" /\ s.kid[2] # Missing

(* "Find the verification method whose id equals the JWT's kid" in the     *)
(* issuer's log, given documents that each authority had published.        *)
IssuerSigned(s, someDocs) ==
  /\ NamesKey(s) /\ s.kid[1] = Expected
  /\ \E doc \in someDocs[Expected] : doc[s.kid[2]] = s.key

(* A statement that passes the checks of didtool.md, its dates apart.      *)
Supported(s, someDocs, someTokens) ==
  /\ s.iss = Expected /\ IssuerSigned(s, someDocs) /\ s.status # Missing
  /\ \E t \in someTokens[s.status[1]], doc \in someDocs[Expected] :
       /\ Acceptable(t) /\ doc[t.kid[2]] = t.key /\ t.slots # Missing
       /\ s.status[2] \in DOMAIN t.slots /\ t.slots[s.status[2]] = Valid

(* A kid of another DID than the issuer's: the documentation looks it up   *)
(* in the issuer's document, the code in the document of that DID.         *)
Foreign(s) == s.iss = Expected /\ s.kid[1] # Expected

(* A statement gets a good report only when it passes every check that the *)
(* documentation names, against keys and lists that were published while   *)
(* the command ran, and "Trusted" is said only of a good report:           *)
(* rotations, revocations and the two caches cannot make up a verdict.     *)
(* Statements with a foreign kid are left to SignedByIssuer.               *)
TrustedIsJustified ==
  /\ \A k \in DOMAIN reports :
       (reports[k].verdict /\ ~Foreign(statements[k])) =>
         Timely(statements[k], now) /\ Supported(statements[k], seenDocs, seenTokens)
  /\ outcome = "Trusted" => \E k \in DOMAIN reports : reports[k].verdict

(* The "issuer DID docs" are where the kid of a statement is resolved: the *)
(* key of one with a good report was in a document of the issuer.  This is *)
(* not so.                                                                 *)
SignedByIssuer ==
  \A k \in DOMAIN reports : reports[k].verdict => IssuerSigned(statements[k], seenDocs)

Quiet == changes = 0 /\ ~failed

(* While nothing changes and every fetch succeeds each statement has its   *)
(* report and the reports are exact: neither the order of the statements   *)
(* nor what one statement left in the caches decides over another.  Left   *)
(* out are a foreign kid, and the one second in which now is exp: by the   *)
(* documentation the statement still holds, check_freshness says expired.  *)
QuietVerdictIsExact ==
  (Quiet /\ outcome \in Verdicts) =>
    /\ Len(reports) = Len(statements)
    /\ \A k \in DOMAIN reports :
         LET s == statements[k] IN
         (~Foreign(s) /\ s.exp # clock) =>
           (reports[k].verdict <=> Timely(s, clock) /\ Supported(s, seenDocs, seenTokens))
    /\ outcome = "Trusted" <=> \E k \in DOMAIN reports : reports[k].verdict

(* The status of a statement is looked at only once its signature holds:   *)
(* while nothing changes, the command is ended by a broken list or by an   *)
(* index past its end only if a statement under the expected issuer's      *)
(* name, signed with the key that it names, points there.                  *)
QuietErrorHasCause ==
  (Quiet /\ outcome \in {"StatusListMalformed", "StatusListSignatureInvalid", "StatusList"}) =>
    \E k \in DOMAIN statements :
      LET s == statements[k] IN
      /\ s.iss = Expected /\ NamesKey(s) /\ s.status # Missing
      /\ published[s.kid[1]][s.kid[2]] = s.key
      /\ LET t == tokens[s.status[1]] IN
         \/ ~Acceptable(t) \/ published[Expected][t.kid[2]] # t.key
         \/ t.slots = Missing \/ s.status[2] \notin DOMAIN t.slots

(* Every invocation ends, whatever the authorities do meanwhile.           *)
TrustEnds == stage # "idle" ~> stage = "done"
=============================================================================
