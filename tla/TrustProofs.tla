---------------------------- MODULE TrustProofs ----------------------------
(***************************************************************************)
(* The invariants of `trust verify`, for any statements, authorities and   *)
(* changes of the world.                                                   *)
(***************************************************************************)
EXTENDS TrustVerify, Integers, WellFoundedInduction, TLAPS

-----------------------------------------------------------------------------
(* A decoded statement.                                                    *)

LEMMA LargestExists ==
  ASSUME NEW n \in Nat, NEW S \in SUBSET (1 .. n), S # {}
  PROVE  \E k \in S : \A j \in S : j <= k
<1> DEFINE T == {n - k : k \in S}
<1>1. T \subseteq Nat /\ T # {}
  <2>1. \A k \in S : n - k \in Nat
    OBVIOUS
  <2>. QED BY <2>1
<1>2. PICK x \in T : \A y \in T : ~(<<y, x>> \in OpToRel(<, Nat))
  BY <1>1, NatLessThanWellFounded, WFMin, Zenon
<1>3. \A y \in T : ~(y < x)
  BY <1>1, <1>2 DEF OpToRel
<1>4. PICK k \in S : x = n - k
  OBVIOUS
<1>5. \A j \in S : j <= k
  <2>1. SUFFICES ASSUME NEW j \in S PROVE j <= k
    OBVIOUS
  <2>2. n - j \in T /\ j \in Int /\ k \in Int
    OBVIOUS
  <2>. QED BY <1>3, <1>4, <2>2
<1>. QED BY <1>5

LEMMA LatestIsOne ==
  ASSUME NEW n \in Nat, NEW S \in SUBSET (1 .. n), S # {}
  PROVE  Latest(S) \in S
  BY LargestExists DEF Latest

(* A name that is shown is one that a committed disclosure has.            *)
LEMMA NameIsDisclosed ==
  ASSUME NEW w \in Wire, NEW l \in Languages, EntityName(w)[l] # Missing
  PROVE  \E k \in Committed(w) : /\ w.disclosures[k].name = "entityName"
                                 /\ w.disclosures[k].names[l] = EntityName(w)[l]
<1> DEFINE telling == {k \in Committed(w) : /\ w.disclosures[k].name = "entityName"
                                            /\ w.disclosures[k].names[l] # Missing}
<1>1. EntityName(w)[l] = IF telling = {} THEN Missing
                                         ELSE w.disclosures[Latest(telling)].names[l]
  BY DEF EntityName
<1>2. Len(w.disclosures) \in Nat /\ telling \in SUBSET (1 .. Len(w.disclosures))
  BY DEF Committed, Wire
<1>3. Latest(telling) \in telling
  BY <1>1, <1>2, LatestIsOne
<1>. QED BY <1>1, <1>3

LEMMA FlagIsDisclosed ==
  ASSUME NEW w \in Wire, IsStateActor(w) # Missing
  PROVE  \E k \in Committed(w) : /\ w.disclosures[k].name = "isStateActor"
                                 /\ w.disclosures[k].flag = IsStateActor(w)
<1> DEFINE telling == {k \in Committed(w) : /\ w.disclosures[k].name = "isStateActor"
                                            /\ w.disclosures[k].flag # Missing}
<1>1. IsStateActor(w) = IF telling = {} THEN Missing ELSE w.disclosures[Latest(telling)].flag
  BY DEF IsStateActor
<1>2. Len(w.disclosures) \in Nat /\ telling \in SUBSET (1 .. Len(w.disclosures))
  BY DEF Committed, Wire
<1>3. Latest(telling) \in telling
  BY <1>1, <1>2, LatestIsOne
<1>. QED BY <1>1, <1>3

LEMMA DecodedIsSigned ==
  ASSUME NEW w \in Wire PROVE ClaimsAreSigned(Decoded(w))
<1>1. /\ Decoded(w).entity_name = EntityName(w) /\ Decoded(w).is_state_actor = IsStateActor(w)
      /\ Decoded(w).signed = w.sd
  BY DEF Decoded
<1>2. \A k \in Committed(w) : w.disclosures[k] \in w.sd /\ w.disclosures[k].shape = "ok"
  BY DEF Committed
<1>3. ASSUME NEW l \in Languages, EntityName(w)[l] # Missing
      PROVE  \E d \in w.sd : d.shape = "ok" /\ d.name = "entityName"
                             /\ d.names[l] = EntityName(w)[l]
  BY <1>2, <1>3, NameIsDisclosed
<1>4. ASSUME IsStateActor(w) # Missing
      PROVE  \E d \in w.sd : d.shape = "ok" /\ d.name = "isStateActor"
                             /\ d.flag = IsStateActor(w)
  BY <1>2, <1>4, FlagIsDisclosed
<1>. QED BY <1>1, <1>3, <1>4 DEF ClaimsAreSigned

LEMMA DecodedIsStatement ==
  ASSUME NEW w \in Wire, Decodes(w) PROVE Decoded(w) \in Statement
<1>0. \A k \in Committed(w) : w.disclosures[k] \in Disclosure
  BY DEF Committed, Wire
<1>1. EntityName(w) \in Names
  <2>1. \A l \in Languages : EntityName(w)[l] \in Texts \cup {Missing}
    BY <1>0, NameIsDisclosed DEF Disclosure, Names
  <2>. QED BY <2>1 DEF Names, EntityName
<1>2. IsStateActor(w) \in BOOLEAN \cup {Missing}
  BY <1>0, FlagIsDisclosed DEF Disclosure
<1>3. /\ w.iss \in Dids \cup {Missing} /\ w.iat \in Nat /\ w.nbf \in Nat \cup {Missing}
      /\ w.exp \in Nat \cup {Missing} /\ w.status \in Pointer \cup {Missing} /\ w.kid \in Kid
      /\ w.alg \in {"ES256", "EdDSA"} /\ w.key \in Keys /\ w.sd \in SUBSET Disclosure
  BY DEF Wire, Decodes
<1>. QED BY <1>1, <1>2, <1>3 DEF Decoded, Statement

-----------------------------------------------------------------------------
(* The inductive invariant.                                                *)

Checking == {"one", "signature", "status", "list"}

(* How far the loop over the statements is.                                *)
InTurn ==
  /\ stage \in {"idle", "fetch"} => reports = << >> /\ statements = << >>
  /\ stage \in Checking => Len(reports) < Len(statements)
  /\ Len(reports) <= Len(statements)
  /\ outcome # Missing => stage = "done"

(* What is known of the statement at hand.                                 *)
AtHand ==
  /\ stage \in {"signature", "status", "list"} => Current.iss = Expected /\ NamesKey(Current)
  /\ stage \in {"status", "list"} =>
       /\ Current.status # Missing /\ docs[Current.kid[1]] # Missing
       /\ docs[Current.kid[1]][Current.kid[2]] = Current.key
  /\ stage = "list" =>
       /\ token \in seenTokens[Url] /\ token # Missing /\ token # Malformed
       /\ Acceptable(token) /\ lists[Url] = Missing

ListVouched(u, slots) ==
  \E t \in seenTokens[u], doc \in seenDocs[Expected] :
    Acceptable(t) /\ doc[t.kid[2]] = t.key /\ t.slots = slots

(* The caches hold what was published.                                     *)
CachesAreSeen ==
  /\ \A d \in Dids : published[d] \in seenDocs[d] /\ (docs[d] # Missing => docs[d] \in seenDocs[d])
  /\ \A u \in Urls : tokens[u] \in seenTokens[u] /\ (lists[u] # Missing => ListVouched(u, lists[u]))

Counted ==
  /\ \A d \in Dids : fetches[d] <= 1 /\ (fetches[d] = 1 => docs[d] # Missing \/ stage = "done")
  /\ \A u \in Urls : /\ fetches[u] <= 1
                     /\ fetches[u] = 1 => \/ lists[u] # Missing \/ stage = "done"
                                          \/ stage = "list" /\ u = Url

(* What the code asks of a statement: a foreign kid is looked up where it  *)
(* points, and exp itself is too late.                                     *)
InTime(s, t) == (s.nbf = Missing \/ s.nbf <= t) /\ (s.exp = Missing \/ t < s.exp)

Sustained(s, someDocs, someTokens) ==
  /\ s.iss = Expected /\ NamesKey(s) /\ s.status # Missing
  /\ \E doc \in someDocs[s.kid[1]] : doc[s.kid[2]] = s.key
  /\ \E t \in someTokens[s.status[1]], doc \in someDocs[Expected] :
       /\ Acceptable(t) /\ doc[t.kid[2]] = t.key /\ t.slots # Missing
       /\ s.status[2] \in DOMAIN t.slots /\ t.slots[s.status[2]] = Valid

Passes(s) == InTime(s, now) /\ Sustained(s, seenDocs, seenTokens)

(* While nothing changes everything that was seen is there.                *)
Still ==
  changes = 0 =>
    /\ clock = 1 /\ now = 1
    /\ \A d \in Dids : seenDocs[d] = {published[d]}
    /\ \A u \in Urls : seenTokens[u] = {tokens[u]}

ReportsAreRight ==
  \A k \in 1 .. Len(reports) :
    /\ reports[k].verdict => Passes(statements[k])
    /\ Quiet /\ ~reports[k].verdict => ~Passes(statements[k])

VerdictIsRight ==
  outcome \in Verdicts =>
    /\ Len(reports) = Len(statements)
    /\ outcome = "Trusted" <=> \E k \in 1 .. Len(reports) : reports[k].verdict

TInv ==
  /\ TrustTypeOK /\ InTurn /\ AtHand /\ CachesAreSeen /\ Counted /\ Still
  /\ ReportsAreRight /\ VerdictIsRight /\ QuietErrorHasCause /\ ShownClaimsAreSigned

-----------------------------------------------------------------------------

LEMMA InitHolds == TrustInit => TInv
<1>. SUFFICES ASSUME TrustInit PROVE TInv
  OBVIOUS
<1>. USE TrustAssumption DEF TrustInit
<1>1. TrustTypeOK
  <2>1. published \in [Dids -> IssuerDoc] /\ tokens \in [Urls -> Token \cup {Malformed}]
    OBVIOUS
  <2>2. /\ seenDocs \in [Dids -> SUBSET IssuerDoc]
        /\ seenTokens \in [Urls -> SUBSET (Token \cup {Malformed})]
    BY <2>1
  <2>3. statements \in Seq(Statement) /\ reports \in Seq(Report)
    OBVIOUS
  <2>4. /\ docs \in [Dids -> IssuerDoc \cup {Missing}] /\ lists \in [Urls -> Slots \cup {Missing}]
        /\ fetches \in [Dids \cup Urls -> Nat]
    OBVIOUS
  <2>. QED BY <2>1, <2>2, <2>3, <2>4 DEF TrustTypeOK
<1>2. Len(reports) = 0 /\ Len(statements) = 0 /\ DOMAIN statements = {}
  OBVIOUS
<1>3. Missing \notin Outcomes
  OBVIOUS
<1>4. InTurn /\ AtHand /\ CachesAreSeen /\ Counted /\ Still
  BY <1>2 DEF InTurn, AtHand, CachesAreSeen, Counted, Still, Checking
<1>5. ReportsAreRight
  BY <1>2 DEF ReportsAreRight
<1>6. VerdictIsRight /\ QuietErrorHasCause
  BY <1>3 DEF VerdictIsRight, QuietErrorHasCause, Outcomes, Verdicts, Errors
<1>7. ShownClaimsAreSigned
  BY <1>2 DEF ShownClaimsAreSigned
<1>. QED BY <1>1, <1>4, <1>5, <1>6, <1>7 DEF TInv

(* The fields of the statement at hand.                                    *)
LEMMA CurrentIsStatement ==
  ASSUME TrustTypeOK, InTurn, stage \in Checking
  PROVE  /\ Len(reports) \in Nat /\ Len(statements) \in Nat
         /\ Len(reports) + 1 \in 1 .. Len(statements)
         /\ Len(reports) + 1 < Len(statements) \/ Len(reports) + 1 = Len(statements)
         /\ DOMAIN statements = 1 .. Len(statements)
         /\ Current \in Statement /\ Current.kid \in Kid /\ Current.key \in Keys
         /\ Current.nbf \in Nat \cup {Missing} /\ Current.exp \in Nat \cup {Missing}
         /\ Current.status \in Pointer \cup {Missing}
         /\ Current.kid[1] \in Dids /\ Current.kid[2] \in Fragments \cup {Missing}
         /\ Current.status # Missing => Url \in Urls /\ Idx \in Nat
<1>1. /\ Len(reports) \in Nat /\ Len(statements) \in Nat
      /\ Len(reports) + 1 \in 1 .. Len(statements)
      /\ DOMAIN statements = 1 .. Len(statements)
  BY DEF TrustTypeOK, InTurn
<1>2. Current \in Statement
  BY <1>1 DEF Current, TrustTypeOK
<1>3. /\ Current.kid \in Kid /\ Current.key \in Keys
      /\ Current.nbf \in Nat \cup {Missing} /\ Current.exp \in Nat \cup {Missing}
      /\ Current.status \in Pointer \cup {Missing}
  BY <1>2 DEF Statement
<1>4. Len(reports) + 1 < Len(statements) \/ Len(reports) + 1 = Len(statements)
  <2>1. \A a, b \in Nat : a + 1 \in 1 .. b => a + 1 < b \/ a + 1 = b
    OBVIOUS
  <2>. QED BY <1>1, <2>1
<1>. QED BY <1>1, <1>2, <1>3, <1>4 DEF Kid, Pointer, Url, Idx

(* check_freshness reads the dates so.                                     *)
LEMMA FreshIsInTime ==
  ASSUME now \in Nat, NEW s, s.nbf \in Nat \cup {Missing}, s.exp \in Nat \cup {Missing}
  PROVE  CheckFreshness(s) = "ok" <=> InTime(s, now)
  BY TrustAssumption DEF CheckFreshness, InTime

LEMMA AppendHolds ==
  ASSUME NEW S, NEW q \in Seq(S), NEW e \in S
  PROVE  /\ Append(q, e) \in Seq(S)
         /\ Len(Append(q, e)) = Len(q) + 1 /\ Len(q) \in Nat
         /\ DOMAIN q = 1 .. Len(q) /\ DOMAIN Append(q, e) = 1 .. Len(q) + 1
         /\ \A k \in 1 .. Len(q) : Append(q, e)[k] = q[k]
         /\ Append(q, e)[Len(q) + 1] = e
  OBVIOUS

(* A report on the statement at hand, that its checks justify.             *)
LEMMA ConcludeHolds ==
  ASSUME TInv, NEW iss \in Check, NEW signature \in Check, NEW status \in Check,
         stage \in {"one", "signature", "status"},
         Conclude(MakeReport(iss, signature, status)),
         UNCHANGED <<world, request, statements, docs, lists, token, now, fetches, failed,
                     history>>,
         iss = "ok" /\ signature = "ok" /\ status = "ok" =>
           Sustained(Current, seenDocs, seenTokens),
         Quiet /\ ~(iss = "ok" /\ signature = "ok" /\ status = "ok") =>
           ~Sustained(Current, seenDocs, seenTokens)
  PROVE  TInv'
<1> DEFINE report == MakeReport(iss, signature, status)
<1> DEFINE n == Len(reports) + 1
<1>. USE TrustAssumption DEF TInv, world, history
<1>1. /\ Len(reports) \in Nat /\ Len(statements) \in Nat /\ n \in 1 .. Len(statements)
      /\ DOMAIN statements = 1 .. Len(statements)
      /\ Current \in Statement
      /\ Current.nbf \in Nat \cup {Missing} /\ Current.exp \in Nat \cup {Missing}
  BY CurrentIsStatement DEF Checking
<1>2. report \in Report
  BY <1>1 DEF MakeReport, Report, CheckFreshness, Check
<1>3. report.verdict <=> /\ iss = "ok" /\ signature = "ok" /\ status = "ok"
                         /\ CheckFreshness(Current) = "ok"
  BY DEF MakeReport
<1>4. /\ report.verdict => Passes(Current)
      /\ Quiet /\ ~report.verdict => ~Passes(Current)
  BY <1>1, <1>3, FreshIsInTime DEF Passes, TrustTypeOK
<1>5. /\ reports' = Append(reports, report) /\ reports' \in Seq(Report)
      /\ Len(reports') = n /\ DOMAIN reports' = 1 .. n
      /\ \A k \in 1 .. Len(reports) : reports'[k] = reports[k]
      /\ reports'[n] = report
  BY <1>2, AppendHolds DEF Conclude, TrustTypeOK
<1>6. /\ stage' \in {"one", "done"}
      /\ stage' = "one" => n < Len(statements)
      /\ stage' = "one" => outcome' = outcome
      /\ stage' = "done" => n = Len(statements) /\ outcome' = Verdict(reports')
  <2>1. CASE n < Len(statements)
    BY <2>1 DEF Conclude
  <2>2. CASE ~(n < Len(statements))
    <3>1. stage' = "done" /\ outcome' = Verdict(Append(reports, report))
      BY <2>2 DEF Conclude, End
    <3>2. n = Len(statements)
      BY <2>2, CurrentIsStatement DEF Checking
    <3>. QED BY <1>5, <3>1, <3>2
  <2>. QED BY <2>1, <2>2
<1>7. Verdict(reports') \in Verdicts
  BY DEF Verdict, Verdicts
<1>8. Missing \notin Verdicts /\ outcome = Missing
  BY DEF Outcomes, InTurn, Checking
<1>9. TrustTypeOK'
  BY <1>5, <1>6, <1>7 DEF TrustTypeOK, Outcomes
<1>10. InTurn'
  <2>1. Len(reports') = n /\ n <= Len(statements)
    BY <1>1, <1>5
  <2>2. outcome' # Missing => stage' = "done"
    BY <1>6, <1>8
  <2>. QED BY <1>6, <2>1, <2>2 DEF InTurn, Checking
<1>11. AtHand' /\ CachesAreSeen'
  BY <1>6 DEF AtHand, CachesAreSeen, ListVouched
<1>12. Still' /\ ShownClaimsAreSigned'
  BY DEF Still, ShownClaimsAreSigned
<1>13. ReportsAreRight'
  <2>1. SUFFICES ASSUME NEW k \in 1 .. n
                 PROVE  /\ reports'[k].verdict => Passes(statements[k])
                        /\ Quiet /\ ~reports'[k].verdict => ~Passes(statements[k])
    BY <1>5 DEF ReportsAreRight, Passes, Quiet
  <2>2. CASE k \in 1 .. Len(reports)
    BY <1>5, <2>2 DEF ReportsAreRight
  <2>3. CASE k = n
    BY <1>4, <1>5, <2>3 DEF Current
  <2>. QED BY <1>1, <2>2, <2>3
<1>14. VerdictIsRight'
  <2>1. CASE stage' = "one"
    BY <1>6, <1>8, <2>1 DEF VerdictIsRight, Verdicts
  <2>2. CASE stage' = "done"
    <3>1. n = Len(statements) /\ outcome' = Verdict(reports')
      BY <1>6, <2>2
    <3>2. outcome' = "Trusted" <=> \E k \in 1 .. n : reports'[k].verdict
      BY <1>5, <3>1 DEF Verdict
    <3>. QED BY <1>5, <3>1, <3>2 DEF VerdictIsRight
  <2>. QED BY <1>6, <2>1, <2>2
<1>15. Counted'
  BY <1>6 DEF Counted, Current, Url, AtHand
<1>16. QuietErrorHasCause'
  BY <1>6, <1>7, <1>8 DEF QuietErrorHasCause, Verdicts, Outcomes, Errors
<1>. QED BY <1>9, <1>10, <1>11, <1>12, <1>13, <1>14, <1>15, <1>16 DEF TInv

-----------------------------------------------------------------------------

ListErrors == {"StatusListMalformed", "StatusListSignatureInvalid", "StatusList"}

(* A failure is remembered.                                                *)
LEMMA FailedStays ==
  ASSUME failed \in BOOLEAN, failed' = failed \/ failed' = TRUE
  PROVE  failed' \in BOOLEAN /\ (failed => failed')
<1>1. CASE failed' = failed
  <2>1. failed' \in BOOLEAN
    BY <1>1
  <2>2. failed => failed'
    BY <1>1, Zenon
  <2>. QED BY <2>1, <2>2
<1>2. CASE failed' = TRUE
  BY <1>2, Zenon
<1>. QED BY <1>1, <1>2

(* The command ends without a verdict.                                     *)
LEMMA ErrorHolds ==
  ASSUME TInv, stage # "done", NEW e \in Outcomes \ Verdicts, End(e),
         UNCHANGED <<world, statements, reports, docs, lists, now, history>>,
         request' \in Request \cup {Missing}, token' \in Token \cup {Missing},
         fetches' \in [Dids \cup Urls -> Nat], \A x \in Dids \cup Urls : fetches'[x] <= 1,
         failed' \in BOOLEAN, failed => failed', e \in ListErrors => QuietErrorHasCause'
  PROVE  TInv'
<1>. USE TrustAssumption DEF TInv, world, history, End
<1>1. TrustTypeOK'
  BY DEF TrustTypeOK
<1>2. InTurn' /\ AtHand' /\ Counted' /\ Still'
  BY DEF InTurn, AtHand, Counted, Still, Checking
<1>3. CachesAreSeen' /\ ShownClaimsAreSigned'
  BY DEF CachesAreSeen, ListVouched, ShownClaimsAreSigned
<1>4. outcome' \notin Verdicts
  OBVIOUS
<1>5. VerdictIsRight'
  BY <1>4 DEF VerdictIsRight, Verdicts
<1>6. ReportsAreRight'
  BY DEF ReportsAreRight, Passes, Quiet, TrustTypeOK
<1>7. QuietErrorHasCause'
  BY DEF QuietErrorHasCause, ListErrors
<1>. QED BY <1>1, <1>2, <1>3, <1>5, <1>6, <1>7 DEF TInv

LEMMA TrustStartHolds == ASSUME TInv, TrustStart PROVE TInv'
<1>1. PICK r \in Requests :
        /\ request' = r
        /\ IF RequestError(r) # "" THEN End(RequestError(r))
                                   ELSE stage' = "fetch" /\ UNCHANGED outcome
  BY DEF TrustStart
<1>2. r \in Request
  BY TrustAssumption
<1>3. CASE RequestError(r) # ""
  <2>1. RequestError(r) \in {"TrustRegistryUrlMissing", "TrustIssuerMissing", "Resolve"}
    BY <1>3 DEF RequestError
  <2>2. RequestError(r) \in Outcomes \ Verdicts /\ RequestError(r) \notin ListErrors
    BY <2>1 DEF Outcomes, Errors, Verdicts, ListErrors
  <2>3. /\ token \in Token \cup {Missing} /\ fetches \in [Dids \cup Urls -> Nat]
        /\ failed \in BOOLEAN /\ \A x \in Dids \cup Urls : fetches[x] <= 1
    BY DEF TInv, TrustTypeOK, Counted
  <2>. QED BY <1>1, <1>2, <1>3, <2>2, <2>3, ErrorHolds DEF TrustStart
<1>4. CASE RequestError(r) = ""
  <2>. USE <1>1, <1>2, <1>4 DEF TInv, TrustStart, world, history
  <2>1. TrustTypeOK'
    BY DEF TrustTypeOK
  <2>2. InTurn' /\ AtHand' /\ Counted' /\ Still'
    BY DEF InTurn, AtHand, Counted, Still, Checking
  <2>3. CachesAreSeen' /\ ShownClaimsAreSigned' /\ ReportsAreRight'
    BY DEF CachesAreSeen, ListVouched, ShownClaimsAreSigned, ReportsAreRight, Passes, Quiet
  <2>4. VerdictIsRight' /\ QuietErrorHasCause'
    BY DEF VerdictIsRight, QuietErrorHasCause, Passes, Quiet
  <2>. QED BY <2>1, <2>2, <2>3, <2>4 DEF TInv
<1>. QED BY <1>3, <1>4

LEMMA SortedStatements ==
  ASSUME NEW a \in Array, NEW f \in [DOMAIN a -> DOMAIN a], a # << >>,
         \A k \in DOMAIN a : Decodes(a[k])
  PROVE  LET q == [k \in DOMAIN a |-> Decoded(a[f[k]])] IN
         /\ q \in Seq(Statement) /\ Len(q) = Len(a) /\ Len(a) >= 1 /\ Len(a) \in Nat
         /\ \A k \in DOMAIN q : ClaimsAreSigned(q[k])
<1>1. a \in Seq(Wire)
  BY TrustAssumption
<1>2. \A k \in DOMAIN a : a[k] \in Wire
  BY <1>1
<1>3. \A k \in DOMAIN a : Decoded(a[f[k]]) \in Statement /\ ClaimsAreSigned(Decoded(a[f[k]]))
  BY <1>2, DecodedIsSigned, DecodedIsStatement
<1>4. Len(a) \in Nat /\ Len(a) >= 1 /\ DOMAIN a = 1 .. Len(a)
  BY <1>1
<1>. QED BY <1>3, <1>4

LEMMA FetchStatementsHolds == ASSUME TInv, FetchStatements PROVE TInv'
<1>0. /\ stage = "fetch" /\ statements = << >> /\ reports = << >> /\ outcome = Missing
      /\ UNCHANGED <<world, request, reports, docs, lists, token, fetches, history>>
      /\ request \in Request \cup {Missing} /\ token \in Token \cup {Missing}
      /\ fetches \in [Dids \cup Urls -> Nat] /\ failed \in BOOLEAN
      /\ \A x \in Dids \cup Urls : fetches[x] <= 1
  BY DEF FetchStatements, TInv, InTurn, TrustTypeOK, Counted
<1>1. ASSUME NEW e \in {"NoStatements", "Found", "Statement", "Registry"}, End(e),
             UNCHANGED <<statements, now>>, failed' = failed \/ failed' = TRUE
      PROVE  TInv'
  <2>1. e \in Outcomes \ Verdicts /\ e \notin ListErrors
    BY DEF Outcomes, Errors, Verdicts, ListErrors
  <2>2. failed' \in BOOLEAN /\ (failed => failed')
    BY <1>0, <1>1, FailedStays
  <2>3. /\ UNCHANGED <<world, statements, reports, docs, lists, now, history>>
        /\ request' \in Request \cup {Missing} /\ token' \in Token \cup {Missing}
        /\ fetches' \in [Dids \cup Urls -> Nat] /\ \A x \in Dids \cup Urls : fetches'[x] <= 1
    BY <1>0, <1>1
  <2>4. stage # "done"
    BY <1>0
  <2>. QED BY <1>1, <2>1, <2>2, <2>3, <2>4, ErrorHolds
<1>2. ASSUME End("Untrusted"), UNCHANGED <<statements, now, failed>> PROVE TInv'
  <2>. USE <1>0, <1>2 DEF TInv, world, history, End
  <2>1. TrustTypeOK'
    BY DEF TrustTypeOK, Outcomes, Verdicts
  <2>2. InTurn' /\ AtHand' /\ Counted' /\ Still'
    BY DEF InTurn, AtHand, Counted, Still, Checking
  <2>3. CachesAreSeen' /\ ShownClaimsAreSigned' /\ ReportsAreRight'
    BY DEF CachesAreSeen, ListVouched, ShownClaimsAreSigned, ReportsAreRight, Passes, Quiet
  <2>4. VerdictIsRight'
    BY DEF VerdictIsRight
  <2>5. QuietErrorHasCause'
    BY DEF QuietErrorHasCause
  <2>. QED BY <2>1, <2>2, <2>3, <2>4, <2>5 DEF TInv
<1>3. ASSUME NEW a \in Array, a # << >>, \A k \in DOMAIN a : Decodes(a[k]),
             NEW f \in [DOMAIN a -> DOMAIN a],
             statements' = [k \in DOMAIN a |-> Decoded(a[f[k]])],
             now' = clock, UNCHANGED failed,
             \/ End("Found")
             \/ stage' = "one" /\ UNCHANGED outcome
      PROVE  TInv'
  <2>1. /\ statements' \in Seq(Statement) /\ Len(statements') >= 1 /\ Len(statements') \in Nat
        /\ \A k \in DOMAIN statements' : ClaimsAreSigned(statements'[k])
    BY <1>3, SortedStatements
  <2>2. Len(reports) = 0
    BY <1>0
  <2>. USE <1>0, <1>3, <2>1, <2>2 DEF TInv, world, history, End
  <2>3. outcome' \in {Missing, "Found"} /\ Missing \notin Outcomes
    BY TrustAssumption
  <2>4. TrustTypeOK'
    BY DEF TrustTypeOK, Outcomes
  <2>5. InTurn' /\ AtHand' /\ Counted'
    BY DEF InTurn, AtHand, Counted, Checking
  <2>6. CachesAreSeen' /\ Still'
    BY DEF CachesAreSeen, ListVouched, Still
  <2>7. ShownClaimsAreSigned' /\ ReportsAreRight'
    BY DEF ShownClaimsAreSigned, ReportsAreRight
  <2>8. VerdictIsRight' /\ QuietErrorHasCause'
    BY <2>3 DEF VerdictIsRight, QuietErrorHasCause, Outcomes, Verdicts, Errors
  <2>. QED BY <2>4, <2>5, <2>6, <2>7, <2>8 DEF TInv
<1>4. ASSUME Decode(<< >>), UNCHANGED failed PROVE TInv'
  BY <1>1, <1>2, <1>4 DEF Decode
<1>5. ASSUME NEW a \in Array, Decode(a), UNCHANGED failed, a # << >> PROVE TInv'
  <2>1. CASE request.command = "lookup" /\ request.raw
    BY <1>1, <1>5, <2>1 DEF Decode
  <2>2. CASE ~(request.command = "lookup" /\ request.raw) /\ \E k \in DOMAIN a : ~Decodes(a[k])
    BY <1>1, <1>5, <2>2 DEF Decode
  <2>3. CASE ~(request.command = "lookup" /\ request.raw) /\ \A k \in DOMAIN a : Decodes(a[k])
    <3>1. PICK f \in [DOMAIN a -> DOMAIN a] :
            statements' = [k \in DOMAIN a |-> Decoded(a[f[k]])]
      BY <1>5, <2>3 DEF Decode
    <3>2. /\ now' = clock
          /\ End("Found") \/ (stage' = "one" /\ UNCHANGED outcome)
      BY <1>5, <2>3 DEF Decode
    <3>. QED BY <1>3, <1>5, <2>3, <3>1, <3>2
  <2>. QED BY <2>1, <2>2, <2>3
<1>6. ASSUME End("Registry"), failed' = TRUE, UNCHANGED <<statements, now>> PROVE TInv'
  BY <1>1, <1>6
<1>. QED BY <1>4, <1>5, <1>6 DEF FetchStatements

-----------------------------------------------------------------------------
(* The checks of the statement at hand.                                    *)

(* On to the next check of the same statement.                             *)
LEMMA MoveHolds ==
  ASSUME TInv, stage \in {"one", "signature"}, stage' \in {"signature", "status"}, AtHand',
         UNCHANGED <<reports, outcome, world, request, statements, docs, lists, token, now,
                     fetches, failed, history>>
  PROVE  TInv'
<1>. USE DEF TInv, world, history
<1>1. TrustTypeOK' /\ InTurn' /\ Still'
  BY DEF TrustTypeOK, InTurn, Still, Checking
<1>2. Counted'
  BY DEF Counted, Current, Url
<1>3. CachesAreSeen' /\ ShownClaimsAreSigned'
  BY DEF CachesAreSeen, ListVouched, ShownClaimsAreSigned
<1>4. ReportsAreRight' /\ VerdictIsRight'
  BY DEF ReportsAreRight, VerdictIsRight, Passes, Quiet
<1>5. QuietErrorHasCause'
  BY DEF QuietErrorHasCause, Quiet
<1>. QED BY <1>1, <1>2, <1>3, <1>4, <1>5 DEF TInv

LEMMA CheckIssuerHolds == ASSUME TInv, CheckIssuer PROVE TInv'
<1>1. /\ stage = "one"
      /\ UNCHANGED <<world, request, statements, docs, lists, token, now, fetches, failed,
                     history>>
  BY DEF CheckIssuer
<1>2. {"ok", "fail", "skip"} = Check
  BY DEF Check
<1>3. CASE Current.iss # Expected
  <2>1. Conclude(MakeReport("fail", "skip", "skip"))
    BY <1>3 DEF CheckIssuer
  <2>2. ~Sustained(Current, seenDocs, seenTokens)
    BY <1>3 DEF Sustained
  <2>. QED BY <1>1, <1>2, <2>1, <2>2, ConcludeHolds
<1>4. CASE Current.iss = Expected /\ (Current.alg # "ES256" \/ Current.kid[2] = Missing)
  <2>1. Conclude(MakeReport("ok", "fail", "skip"))
    BY <1>4 DEF CheckIssuer
  <2>2. ~Sustained(Current, seenDocs, seenTokens)
    BY <1>4 DEF Sustained, NamesKey
  <2>. QED BY <1>1, <1>2, <2>1, <2>2, ConcludeHolds
<1>5. CASE Current.iss = Expected /\ Current.alg = "ES256" /\ Current.kid[2] # Missing
  <2>1. stage' = "signature" /\ UNCHANGED <<reports, outcome>>
    BY <1>5 DEF CheckIssuer
  <2>2. Current' = Current
    BY <1>1, <2>1 DEF Current
  <2>3. AtHand'
    BY <1>5, <2>1, <2>2 DEF AtHand, NamesKey
  <2>. QED BY <1>1, <2>1, <2>3, MoveHolds
<1>. QED BY <1>3, <1>4, <1>5

(* A document that is not cached was not fetched before.                   *)
LEMMA LoadIssuerDocHolds ==
  ASSUME TInv, NEW did \in Dids, stage \in {"signature", "list"}, LoadIssuerDoc(did, stage)
  PROVE  TInv'
<1>1. /\ docs[did] = Missing /\ fetches' = [fetches EXCEPT ![did] = @ + 1]
      /\ UNCHANGED <<world, request, statements, reports, lists, token, now, history>>
  BY DEF LoadIssuerDoc, Fetched
<1>2. /\ fetches \in [Dids \cup Urls -> Nat] /\ \A x \in Dids \cup Urls : fetches[x] <= 1
      /\ fetches[did] \in Nat /\ fetches[did] <= 1 /\ fetches[did] # 1
  BY <1>1 DEF TInv, TrustTypeOK, Counted
<1>3. fetches[did] = 0
  BY <1>2
<1>4. /\ fetches' \in [Dids \cup Urls -> Nat] /\ fetches'[did] = 1
      /\ \A x \in Dids \cup Urls : x # did => fetches'[x] = fetches[x]
  BY <1>1, <1>2, <1>3
<1>5. \A x \in Dids \cup Urls : fetches'[x] <= 1
  BY <1>2, <1>4
<1>6. CASE \E e \in {"Fetch", "IssuerResolution", "DidDoc"} :
             End(e) /\ failed' = TRUE /\ UNCHANGED docs
  <2>1. PICK e \in {"Fetch", "IssuerResolution", "DidDoc"} :
          End(e) /\ failed' = TRUE /\ UNCHANGED docs
    BY <1>6
  <2>2. e \in Outcomes \ Verdicts /\ e \notin ListErrors
    BY DEF Outcomes, Errors, Verdicts, ListErrors
  <2>3. /\ UNCHANGED <<world, statements, reports, docs, lists, now, history>>
        /\ request' \in Request \cup {Missing} /\ token' \in Token \cup {Missing}
        /\ failed' \in BOOLEAN /\ (failed => failed')
    BY <1>1, <2>1 DEF TInv, TrustTypeOK
  <2>. QED BY <1>4, <1>5, <2>1, <2>2, <2>3, ErrorHolds
<1>7. CASE stage' = stage /\ docs' = [docs EXCEPT ![did] = published[did]]
           /\ UNCHANGED <<outcome, failed>>
  <2>. USE TrustAssumption, <1>1, <1>4, <1>7 DEF TInv, world, history
  <2>1. published[did] \in IssuerDoc /\ published[did] # Missing
    BY DEF TrustTypeOK
  <2>2. /\ docs' \in [Dids -> IssuerDoc \cup {Missing}] /\ docs'[did] = published[did]
        /\ \A d \in Dids : d # did => docs'[d] = docs[d]
        /\ \A d \in Dids : docs[d] # Missing => docs'[d] = docs[d]
    BY <2>1 DEF TrustTypeOK
  <2>3. TrustTypeOK' /\ InTurn' /\ Still' /\ ShownClaimsAreSigned'
    BY <2>2 DEF TrustTypeOK, InTurn, Still, Checking, ShownClaimsAreSigned
  <2>4. Current' = Current /\ Url' = Url
    BY DEF Current, Url
  <2>5. Current.kid[1] \in Dids
    BY CurrentIsStatement DEF Checking
  <2>6. AtHand'
    BY <2>2, <2>4, <2>5 DEF AtHand
  <2>7. CachesAreSeen'
    BY <2>2 DEF CachesAreSeen, ListVouched
  <2>8. Counted'
    <3>1. \A u \in Urls : fetches'[u] = fetches[u]
      OBVIOUS
    <3>2. \A d \in Dids : fetches'[d] <= 1 /\ (fetches'[d] = 1 => docs'[d] # Missing \/ stage' = "done")
      BY <1>5, <2>1, <2>2 DEF Counted
    <3>. QED BY <2>4, <3>1, <3>2 DEF Counted
  <2>9. ReportsAreRight' /\ VerdictIsRight'
    BY DEF ReportsAreRight, VerdictIsRight, Passes, Quiet
  <2>10. QuietErrorHasCause'
    BY DEF QuietErrorHasCause, Quiet
  <2>. QED BY <2>3, <2>6, <2>7, <2>8, <2>9, <2>10 DEF TInv
<1>. QED BY <1>6, <1>7 DEF LoadIssuerDoc, Remembered

LEMMA LoadSignerDocHolds == ASSUME TInv, LoadSignerDoc PROVE TInv'
<1>1. stage = "signature" /\ LoadIssuerDoc(Current.kid[1], stage)
  BY DEF LoadSignerDoc
<1>2. Current.kid[1] \in Dids
  BY <1>1, CurrentIsStatement DEF TInv, Checking
<1>. QED BY <1>1, <1>2, LoadIssuerDocHolds

LEMMA LoadListDocHolds == ASSUME TInv, LoadListDoc PROVE TInv'
<1>1. stage = "list" /\ LoadIssuerDoc(Expected, stage)
  BY DEF LoadListDoc
<1>. QED BY <1>1, TrustAssumption, LoadIssuerDocHolds

(* While nothing changes a cached document is the published one, and what  *)
(* was seen of an authority or a list is what is there.                    *)
LEMMA QuietIsCurrent ==
  ASSUME TInv, changes = 0
  PROVE  /\ \A d \in Dids : seenDocs[d] = {published[d]}
         /\ \A d \in Dids : docs[d] # Missing => docs[d] = published[d]
         /\ \A u \in Urls : seenTokens[u] = {tokens[u]}
<1>1. /\ \A d \in Dids : seenDocs[d] = {published[d]}
      /\ \A u \in Urls : seenTokens[u] = {tokens[u]}
  BY DEF TInv, Still
<1>2. \A d \in Dids : docs[d] # Missing => docs[d] \in seenDocs[d]
  BY DEF TInv, CachesAreSeen
<1>. QED BY <1>1, <1>2

LEMMA CheckSignatureHolds == ASSUME TInv, CheckSignature PROVE TInv'
<1>1. /\ stage = "signature" /\ docs[Current.kid[1]] # Missing
      /\ UNCHANGED <<world, request, statements, docs, lists, token, now, fetches, failed,
                     history>>
  BY DEF CheckSignature
<1>2. {"ok", "fail", "skip"} = Check
  BY DEF Check
<1>3. Current.kid[1] \in Dids
  BY <1>1, CurrentIsStatement DEF TInv, Checking
<1>4. CASE ~SignatureHolds
  <2>1. Conclude(MakeReport("ok", "fail", "skip"))
    BY <1>4 DEF CheckSignature
  <2>2. ASSUME changes = 0 PROVE ~Sustained(Current, seenDocs, seenTokens)
    <3>1. \A d \in Dids : docs[d] # Missing => seenDocs[d] = {docs[d]}
      BY <2>2, QuietIsCurrent
    <3>2. seenDocs[Current.kid[1]] = {docs[Current.kid[1]]}
      BY <1>1, <1>3, <3>1
    <3>. QED BY <1>4, <3>2 DEF Sustained, SignatureHolds
  <2>3. Quiet => changes = 0
    BY DEF Quiet
  <2>. QED BY <1>1, <1>2, <2>1, <2>2, <2>3, ConcludeHolds
<1>5. CASE SignatureHolds /\ Current.status = Missing
  <2>1. Conclude(MakeReport("ok", "ok", "fail"))
    BY <1>5 DEF CheckSignature
  <2>2. ~Sustained(Current, seenDocs, seenTokens)
    BY <1>5 DEF Sustained
  <2>. QED BY <1>1, <1>2, <2>1, <2>2, ConcludeHolds
<1>6. CASE SignatureHolds /\ Current.status # Missing
  <2>1. stage' = "status" /\ UNCHANGED <<reports, outcome>>
    BY <1>6 DEF CheckSignature
  <2>2. Current' = Current
    BY <1>1, <2>1 DEF Current
  <2>3. AtHand'
    BY <1>1, <1>6, <2>1, <2>2 DEF TInv, AtHand, SignatureHolds
  <2>. QED BY <1>1, <2>1, <2>3, MoveHolds
<1>. QED BY <1>4, <1>5, <1>6

-----------------------------------------------------------------------------
(* The status list.                                                        *)

(* The statement at hand is the cause of an error over its list.           *)
LEMMA CauseHolds ==
  ASSUME TInv, stage \in {"status", "list"}, failed => failed',
         UNCHANGED <<world, statements, history>>,
         Quiet => \/ ~Acceptable(tokens[Url])
                  \/ published[Expected][tokens[Url].kid[2]] # tokens[Url].key
                  \/ tokens[Url].slots = Missing \/ Idx \notin DOMAIN tokens[Url].slots
  PROVE  QuietErrorHasCause'
<1> DEFINE n == Len(reports) + 1
<1>1. n \in DOMAIN statements /\ Current.kid[1] \in Dids
  BY CurrentIsStatement DEF TInv, Checking
<1>2. Quiet' => Quiet
  BY DEF Quiet, history
<1>3. /\ Current.iss = Expected /\ NamesKey(Current) /\ Current.status # Missing
      /\ docs[Current.kid[1]] # Missing /\ docs[Current.kid[1]][Current.kid[2]] = Current.key
  BY DEF TInv, AtHand
<1>4. Quiet => published[Current.kid[1]][Current.kid[2]] = Current.key
  <2>1. Quiet => changes = 0
    BY DEF Quiet
  <2>2. ASSUME changes = 0 PROVE published[Current.kid[1]][Current.kid[2]] = Current.key
    <3>1. \A d \in Dids : docs[d] # Missing => docs[d] = published[d]
      BY <2>2, QuietIsCurrent
    <3>2. docs[Current.kid[1]] = published[Current.kid[1]]
      BY <1>1, <1>3, <3>1
    <3>. QED BY <1>3, <3>2
  <2>. QED BY <2>1, <2>2
<1>5. UNCHANGED <<published, tokens, statements>>
  BY DEF world
<1>. QED BY <1>1, <1>2, <1>3, <1>4, <1>5 DEF QuietErrorHasCause, Current, Url, Idx

LEMMA FetchListHolds == ASSUME TInv, FetchList PROVE TInv'
<1>1. /\ stage = "status" /\ lists[Url] = Missing /\ fetches' = [fetches EXCEPT ![Url] = @ + 1]
      /\ UNCHANGED <<world, request, statements, reports, docs, lists, now, history>>
  BY DEF FetchList, Fetched
<1>2. Url \in Urls
  BY <1>1, CurrentIsStatement DEF TInv, Checking, AtHand
<1>3. /\ fetches \in [Dids \cup Urls -> Nat] /\ \A x \in Dids \cup Urls : fetches[x] <= 1
      /\ fetches[Url] \in Nat /\ fetches[Url] <= 1 /\ fetches[Url] # 1
  BY <1>1, <1>2 DEF TInv, TrustTypeOK, Counted
<1>4. fetches[Url] = 0
  BY <1>3
<1>5. /\ fetches' \in [Dids \cup Urls -> Nat] /\ fetches'[Url] = 1
      /\ \A x \in Dids \cup Urls : x # Url => fetches'[x] = fetches[x]
  BY <1>1, <1>2, <1>3, <1>4
<1>6. \A x \in Dids \cup Urls : fetches'[x] <= 1
  BY <1>3, <1>5
<1>7. ASSUME NEW e \in {"Fetch", "StatusListMalformed"}, End(e), UNCHANGED token,
             failed' = failed \/ failed' = TRUE, QuietErrorHasCause'
      PROVE  TInv'
  <2>1. e \in Outcomes \ Verdicts
    BY DEF Outcomes, Errors, Verdicts
  <2>2. failed \in BOOLEAN
    BY DEF TInv, TrustTypeOK
  <2>5. failed' \in BOOLEAN /\ (failed => failed')
    BY <1>7, <2>2, FailedStays
  <2>3. /\ UNCHANGED <<world, statements, reports, docs, lists, now, history>>
        /\ request' \in Request \cup {Missing} /\ token' \in Token \cup {Missing}
    BY <1>1, <1>7 DEF TInv, TrustTypeOK
  <2>4. stage # "done"
    BY <1>1
  <2>. QED BY <1>5, <1>6, <1>7, <2>1, <2>3, <2>4, <2>5, ErrorHolds
<1>8. CASE ~Acceptable(tokens[Url]) /\ End("StatusListMalformed") /\ UNCHANGED <<token, failed>>
  <2>1. QuietErrorHasCause'
    BY <1>1, <1>8, CauseHolds
  <2>. QED BY <1>7, <1>8, <2>1
<1>9. CASE (\E e \in {"Fetch", "StatusListMalformed"} : End(e)) /\ failed' = TRUE /\ UNCHANGED token
  <2>1. QuietErrorHasCause'
    BY <1>9 DEF QuietErrorHasCause, Quiet
  <2>. QED BY <1>7, <1>9, <2>1
<1>10. CASE /\ Acceptable(tokens[Url]) /\ token' = tokens[Url] /\ stage' = "list"
            /\ UNCHANGED <<outcome, failed>>
  <2>. USE TrustAssumption, <1>1, <1>2, <1>5, <1>10 DEF TInv, world, history
  <2>1. tokens[Url] \in Token
    BY DEF TrustTypeOK, Acceptable
  <2>2. TrustTypeOK'
    BY <2>1 DEF TrustTypeOK
  <2>3. InTurn' /\ Still' /\ ShownClaimsAreSigned'
    BY DEF InTurn, Still, Checking, ShownClaimsAreSigned
  <2>4. Current' = Current /\ Url' = Url
    BY DEF Current, Url
  <2>5. AtHand'
    BY <2>1, <2>4 DEF AtHand, CachesAreSeen
  <2>6. CachesAreSeen'
    BY DEF CachesAreSeen, ListVouched
  <2>7. Counted'
    <3>1. \A d \in Dids : fetches'[d] = fetches[d]
      OBVIOUS
    <3>2. \A u \in Urls : u # Url => fetches'[u] = fetches[u]
      OBVIOUS
    <3>. QED BY <1>6, <2>4, <3>1, <3>2 DEF Counted
  <2>8. ReportsAreRight' /\ VerdictIsRight'
    BY DEF ReportsAreRight, VerdictIsRight, Passes, Quiet
  <2>9. QuietErrorHasCause'
    BY DEF QuietErrorHasCause, Quiet
  <2>. QED BY <2>2, <2>3, <2>5, <2>6, <2>7, <2>8, <2>9 DEF TInv
<1>. QED BY <1>8, <1>9, <1>10 DEF FetchList

(* A list error that the statement at hand caused.                         *)
LEMMA ListErrorHolds ==
  ASSUME TInv, stage \in {"status", "list"}, NEW e \in ListErrors, End(e),
         UNCHANGED <<world, request, statements, reports, docs, lists, now, fetches, failed,
                     history>>,
         token' \in Token \cup {Missing},
         Quiet => \/ ~Acceptable(tokens[Url])
                  \/ published[Expected][tokens[Url].kid[2]] # tokens[Url].key
                  \/ tokens[Url].slots = Missing \/ Idx \notin DOMAIN tokens[Url].slots
  PROVE  TInv'
<1>1. e \in Outcomes \ Verdicts
  BY DEF ListErrors, Outcomes, Errors, Verdicts
<1>2. failed \in BOOLEAN
  BY DEF TInv, TrustTypeOK
<1>3. failed' \in BOOLEAN /\ (failed => failed')
  BY <1>2, FailedStays
<1>4. QuietErrorHasCause'
  BY <1>3, CauseHolds
<1>5. /\ UNCHANGED <<world, statements, reports, docs, lists, now, history>>
      /\ request' \in Request \cup {Missing}
      /\ fetches' \in [Dids \cup Urls -> Nat] /\ \A x \in Dids \cup Urls : fetches'[x] <= 1
  BY DEF TInv, TrustTypeOK, Counted
<1>6. stage # "done"
  OBVIOUS
<1>. QED BY <1>1, <1>3, <1>4, <1>5, <1>6, ErrorHolds

LEMMA VerifyListHolds == ASSUME TInv, VerifyList PROVE TInv'
<1>1. /\ stage = "list" /\ docs[Expected] # Missing /\ token' = Missing
      /\ UNCHANGED <<world, request, statements, reports, docs, now, fetches, failed, history>>
  BY DEF VerifyList
<1>2. /\ token \in Token /\ token \in seenTokens[Url] /\ Acceptable(token)
      /\ Url \in Urls /\ Expected \in Dids
  BY <1>1, TrustAssumption, CurrentIsStatement DEF TInv, TrustTypeOK, AtHand, Checking
<1>3. token.key \in Keys /\ token.slots \in Slots \cup {Missing}
  BY <1>2 DEF Token
<1>4. docs[Expected] \in seenDocs[Expected]
  BY <1>1, <1>2 DEF TInv, CachesAreSeen
<1>5. Quiet => tokens[Url] = token /\ published[Expected] = docs[Expected]
  <2>1. Quiet => changes = 0
    BY DEF Quiet
  <2>2. ASSUME changes = 0 PROVE tokens[Url] = token /\ published[Expected] = docs[Expected]
    BY <1>1, <1>2, <2>2, QuietIsCurrent
  <2>. QED BY <2>1, <2>2
<1>6. ASSUME NEW e \in ListErrors, End(e), UNCHANGED lists,
             docs[Expected][token.kid[2]] # token.key \/ token.slots = Missing
      PROVE  TInv'
  <2>1. Quiet => \/ published[Expected][tokens[Url].kid[2]] # tokens[Url].key
                 \/ tokens[Url].slots = Missing
    BY <1>5, <1>6
  <2>. QED BY <1>1, <1>6, <2>1, ListErrorHolds
<1>7. CASE docs[Expected][token.kid[2]] = Unresolved
  <2>1. End("StatusListMalformed") /\ UNCHANGED lists
    BY <1>7 DEF VerifyList
  <2>2. docs[Expected][token.kid[2]] # token.key
    BY <1>3, <1>7, TrustAssumption
  <2>. QED BY <1>6, <2>1, <2>2 DEF ListErrors
<1>8. CASE docs[Expected][token.kid[2]] # Unresolved /\ ~ListSigned
  <2>1. End("StatusListSignatureInvalid") /\ UNCHANGED lists
    BY <1>8 DEF VerifyList
  <2>. QED BY <1>6, <1>8, <2>1 DEF ListErrors, ListSigned
<1>9. CASE docs[Expected][token.kid[2]] # Unresolved /\ ListSigned /\ token.slots = Missing
  <2>1. PICK e \in {"StatusListMalformed", "StatusList"} : End(e) /\ UNCHANGED lists
    BY <1>9 DEF VerifyList
  <2>. QED BY <1>6, <1>9, <2>1 DEF ListErrors
<1>10. CASE docs[Expected][token.kid[2]] # Unresolved /\ ListSigned /\ token.slots # Missing
  <2>1. /\ lists' = [lists EXCEPT ![Url] = token.slots]
        /\ stage' = "status" /\ UNCHANGED outcome
    BY <1>10 DEF VerifyList
  <2>. USE TrustAssumption, <1>1, <1>2, <1>3, <1>10, <2>1 DEF TInv, world, history
  <2>2. /\ lists' \in [Urls -> Slots \cup {Missing}] /\ lists'[Url] = token.slots
        /\ \A u \in Urls : u # Url => lists'[u] = lists[u]
    BY DEF TrustTypeOK
  <2>3. TrustTypeOK'
    BY <2>2 DEF TrustTypeOK
  <2>4. InTurn' /\ Still' /\ ShownClaimsAreSigned'
    BY DEF InTurn, Still, Checking, ShownClaimsAreSigned
  <2>5. Current' = Current /\ Url' = Url
    BY DEF Current, Url
  <2>6. AtHand'
    BY <2>5 DEF AtHand
  <2>7. ListVouched(Url, token.slots)
    BY <1>4 DEF ListVouched, ListSigned
  <2>8. CachesAreSeen'
    <3>1. \A u \in Urls : lists'[u] # Missing => ListVouched(u, lists'[u])
      BY <2>2, <2>7 DEF CachesAreSeen
    <3>. QED BY <3>1 DEF CachesAreSeen, ListVouched
  <2>9. Counted'
    BY <2>2, <2>5 DEF Counted
  <2>10. ReportsAreRight' /\ VerdictIsRight'
    BY DEF ReportsAreRight, VerdictIsRight, Passes, Quiet
  <2>11. QuietErrorHasCause'
    BY DEF QuietErrorHasCause, Quiet
  <2>. QED BY <2>3, <2>4, <2>6, <2>8, <2>9, <2>10, <2>11 DEF TInv
<1>. QED BY <1>7, <1>8, <1>9, <1>10

LEMMA CheckStatusHolds == ASSUME TInv, CheckStatus PROVE TInv'
<1>1. /\ stage = "status" /\ lists[Url] # Missing
      /\ UNCHANGED <<world, request, statements, docs, lists, token, now, fetches, failed,
                     history>>
  BY DEF CheckStatus
<1>2. /\ Current.iss = Expected /\ NamesKey(Current) /\ Current.status # Missing
      /\ docs[Current.kid[1]] # Missing /\ docs[Current.kid[1]][Current.kid[2]] = Current.key
      /\ Current.kid[1] \in Dids /\ Url \in Urls
  BY <1>1, CurrentIsStatement DEF TInv, AtHand, Checking
<1>3. docs[Current.kid[1]] \in seenDocs[Current.kid[1]] /\ ListVouched(Url, lists[Url])
  BY <1>1, <1>2 DEF TInv, CachesAreSeen
<1>4. PICK t \in seenTokens[Url], doc \in seenDocs[Expected] :
        Acceptable(t) /\ doc[t.kid[2]] = t.key /\ t.slots = lists[Url]
  BY <1>3 DEF ListVouched
<1>5. Quiet => seenTokens[Url] = {t} /\ tokens[Url] = t
  <2>1. Quiet => changes = 0
    BY DEF Quiet
  <2>2. ASSUME changes = 0 PROVE seenTokens[Url] = {t} /\ tokens[Url] = t
    BY <1>2, <1>4, <2>2, QuietIsCurrent
  <2>. QED BY <2>1, <2>2
<1>6. CASE Idx \notin DOMAIN lists[Url]
  <2>1. End("StatusList") /\ UNCHANGED reports
    BY <1>6 DEF CheckStatus
  <2>2. Quiet => Idx \notin DOMAIN tokens[Url].slots
    BY <1>4, <1>5, <1>6
  <2>3. token' \in Token \cup {Missing}
    BY <1>1 DEF TInv, TrustTypeOK
  <2>. QED BY <1>1, <2>1, <2>2, <2>3, ListErrorHolds DEF ListErrors
<1>7. CASE Idx \in DOMAIN lists[Url] /\ lists[Url][Idx] = Valid
  <2>1. Conclude(MakeReport("ok", "ok", "ok"))
    BY <1>7 DEF CheckStatus
  <2>2. Sustained(Current, seenDocs, seenTokens)
    BY <1>1, <1>2, <1>3, <1>4, <1>7 DEF Sustained, Url, Idx
  <2>3. "ok" \in Check
    BY DEF Check
  <2>. QED BY <1>1, <2>1, <2>2, <2>3, ConcludeHolds
<1>8. CASE Idx \in DOMAIN lists[Url] /\ lists[Url][Idx] # Valid
  <2>1. Conclude(MakeReport("ok", "ok", "fail"))
    BY <1>8 DEF CheckStatus
  <2>2. Quiet => ~Sustained(Current, seenDocs, seenTokens)
    BY <1>4, <1>5, <1>8 DEF Sustained, Url, Idx
  <2>3. "ok" \in Check /\ "fail" \in Check
    BY DEF Check
  <2>. QED BY <1>1, <2>1, <2>2, <2>3, ConcludeHolds
<1>. QED BY <1>6, <1>7, <1>8

-----------------------------------------------------------------------------
(* The world changes while the command runs.                               *)

(* What was published stays seen, and every change is counted.             *)
LEMMA ChangeHolds ==
  ASSUME TInv, UNCHANGED invocation, changes' = changes + 1,
         published' \in [Dids -> IssuerDoc], tokens' \in [Urls -> Token \cup {Malformed}],
         clock' \in Nat,
         seenDocs' \in [Dids -> SUBSET IssuerDoc],
         seenTokens' \in [Urls -> SUBSET (Token \cup {Malformed})],
         \A d \in Dids : seenDocs[d] \subseteq seenDocs'[d] /\ published'[d] \in seenDocs'[d],
         \A u \in Urls : seenTokens[u] \subseteq seenTokens'[u] /\ tokens'[u] \in seenTokens'[u]
  PROVE  TInv'
<1>1. /\ UNCHANGED <<request, stage, statements, reports, docs, lists, token, now, outcome,
                     fetches, failed>>
      /\ Current' = Current /\ Url' = Url
  BY DEF invocation, Current, Url
<1>2. TrustTypeOK /\ TrustTypeOK'
  BY <1>1 DEF TInv, TrustTypeOK
<1>3. changes' # 0 /\ ~Quiet'
  BY <1>2 DEF TrustTypeOK, Quiet
<1>4. InTurn' /\ Counted' /\ ShownClaimsAreSigned'
  BY <1>1 DEF TInv, InTurn, Counted, ShownClaimsAreSigned
<1>5. Still' /\ QuietErrorHasCause'
  BY <1>3 DEF Still, QuietErrorHasCause
<1>6. AtHand'
  <2>1. stage = "list" => Url \in Urls
    BY CurrentIsStatement DEF TInv, AtHand, Checking
  <2>. QED BY <1>1, <2>1 DEF TInv, AtHand
<1>7. CachesAreSeen'
  <2>1. Expected \in Dids
    BY TrustAssumption
  <2>2. \A u \in Urls : lists[u] # Missing => ListVouched(u, lists[u])'
    BY <1>1, <2>1 DEF TInv, CachesAreSeen, ListVouched
  <2>. QED BY <1>1, <2>2 DEF TInv, CachesAreSeen
<1>8. ASSUME NEW k \in 1 .. Len(statements), Passes(statements[k]) PROVE Passes(statements[k])'
  <2>1. Expected \in Dids /\ statements[k] \in Statement
    BY <1>2, TrustAssumption DEF TrustTypeOK
  <2>2. statements[k].kid[1] \in Dids
    BY <2>1 DEF Statement, Kid
  <2>3. statements[k].status # Missing => statements[k].status[1] \in Urls
    BY <2>1 DEF Statement, Pointer
  <2>4. Sustained(statements[k], seenDocs', seenTokens')
    BY <1>8, <2>1, <2>2, <2>3 DEF Passes, Sustained
  <2>. QED BY <1>1, <1>8, <2>4 DEF Passes
<1>9. Len(reports) \in Nat /\ Len(statements) \in Nat /\ Len(reports) <= Len(statements)
  BY <1>2 DEF TInv, TrustTypeOK, InTurn
<1>10. ReportsAreRight'
  <2>1. \A k \in 1 .. Len(reports) : k \in 1 .. Len(statements)
    BY <1>9
  <2>. QED BY <1>1, <1>3, <1>8, <2>1 DEF TInv, ReportsAreRight
<1>11. VerdictIsRight'
  BY <1>1, <1>3, <1>8 DEF TInv, VerdictIsRight
<1>. QED BY <1>2, <1>4, <1>5, <1>6, <1>7, <1>10, <1>11 DEF TInv

LEMMA RotatesHolds == ASSUME TInv, AuthorityRotates PROVE TInv'
<1>1. /\ changes' = changes + 1 /\ UNCHANGED invocation
      /\ UNCHANGED <<tokens, clock, seenTokens>>
  BY DEF AuthorityRotates, Changes
<1>2. PICK d \in Dids, doc \in IssuerDoc :
        /\ published' = [published EXCEPT ![d] = doc]
        /\ seenDocs' = [seenDocs EXCEPT ![d] = @ \cup {doc}]
  BY DEF AuthorityRotates
<1>3. TrustTypeOK /\ CachesAreSeen
  BY DEF TInv
<1>4. /\ published' \in [Dids -> IssuerDoc] /\ seenDocs' \in [Dids -> SUBSET IssuerDoc]
      /\ \A x \in Dids : seenDocs[x] \subseteq seenDocs'[x] /\ published'[x] \in seenDocs'[x]
  BY <1>2, <1>3 DEF TrustTypeOK, CachesAreSeen
<1>5. /\ tokens' \in [Urls -> Token \cup {Malformed}] /\ clock' \in Nat
      /\ seenTokens' \in [Urls -> SUBSET (Token \cup {Malformed})]
      /\ \A u \in Urls : seenTokens[u] \subseteq seenTokens'[u] /\ tokens'[u] \in seenTokens'[u]
  BY <1>1, <1>3 DEF TrustTypeOK, CachesAreSeen
<1>. QED BY <1>1, <1>4, <1>5, ChangeHolds

LEMMA RevokesHolds == ASSUME TInv, AuthorityRevokes PROVE TInv'
<1>1. /\ changes' = changes + 1 /\ UNCHANGED invocation
      /\ UNCHANGED <<published, clock, seenDocs>>
  BY DEF AuthorityRevokes, Changes
<1>2. PICK u \in Urls, f \in Fragments, v \in Values :
        /\ tokens[u] # Malformed /\ tokens[u].slots # Missing
        /\ published[Expected][f] # Unresolved
        /\ \E i \in DOMAIN tokens[u].slots :
             LET new == [alg |-> "ES256", kid |-> <<Expected, f>>,
                         key |-> published[Expected][f],
                         slots |-> [tokens[u].slots EXCEPT ![i] = v]] IN
             /\ tokens' = [tokens EXCEPT ![u] = new]
             /\ seenTokens' = [seenTokens EXCEPT ![u] = @ \cup {new}]
  BY DEF AuthorityRevokes
<1>3. PICK i \in DOMAIN tokens[u].slots :
        LET new == [alg |-> "ES256", kid |-> <<Expected, f>>,
                    key |-> published[Expected][f],
                    slots |-> [tokens[u].slots EXCEPT ![i] = v]] IN
        /\ tokens' = [tokens EXCEPT ![u] = new]
        /\ seenTokens' = [seenTokens EXCEPT ![u] = @ \cup {new}]
  BY <1>2
<1> DEFINE slots == [tokens[u].slots EXCEPT ![i] = v]
<1> DEFINE new == [alg |-> "ES256", kid |-> <<Expected, f>>, key |-> published[Expected][f],
                   slots |-> slots]
<1>4. TrustTypeOK /\ CachesAreSeen
  BY DEF TInv
<1>5. tokens[u].slots \in Slots
  BY <1>2, <1>4 DEF TrustTypeOK, Token
<1>6. slots \in Slots
  <2>1. PICK n \in 0 .. MaxIdx : tokens[u].slots \in [0 .. n -> Values]
    BY <1>5 DEF Slots
  <2>2. slots \in [0 .. n -> Values]
    BY <2>1
  <2>. QED BY <2>1, <2>2 DEF Slots
<1>7. published[Expected][f] \in Keys
  <2>1. published[Expected] \in IssuerDoc
    BY <1>4, TrustAssumption DEF TrustTypeOK
  <2>. QED BY <1>2, <2>1 DEF IssuerDoc
<1>8. new \in Token
  <2>1. <<Expected, f>> \in Kid
    BY TrustAssumption DEF Kid
  <2>. QED BY <1>6, <1>7, <2>1 DEF Token
<1>9. tokens' = [tokens EXCEPT ![u] = new] /\ seenTokens' = [seenTokens EXCEPT ![u] = @ \cup {new}]
  BY <1>3
<1> HIDE DEF new
<1>10. /\ tokens' \in [Urls -> Token \cup {Malformed}]
       /\ seenTokens' \in [Urls -> SUBSET (Token \cup {Malformed})]
       /\ \A x \in Urls : seenTokens[x] \subseteq seenTokens'[x] /\ tokens'[x] \in seenTokens'[x]
  BY <1>4, <1>8, <1>9 DEF TrustTypeOK, CachesAreSeen
<1>11. /\ published' \in [Dids -> IssuerDoc] /\ clock' \in Nat
       /\ seenDocs' \in [Dids -> SUBSET IssuerDoc]
       /\ \A d \in Dids : seenDocs[d] \subseteq seenDocs'[d] /\ published'[d] \in seenDocs'[d]
  BY <1>1, <1>4 DEF TrustTypeOK, CachesAreSeen
<1>. QED BY <1>1, <1>10, <1>11, ChangeHolds

LEMMA TimePassesHolds == ASSUME TInv, TimePasses PROVE TInv'
<1>1. /\ changes' = changes + 1 /\ UNCHANGED invocation /\ clock' = clock + 1
      /\ UNCHANGED <<published, tokens, seenDocs, seenTokens>>
  BY DEF TimePasses, Changes
<1>2. /\ published' \in [Dids -> IssuerDoc] /\ tokens' \in [Urls -> Token \cup {Malformed}]
      /\ clock' \in Nat /\ seenDocs' \in [Dids -> SUBSET IssuerDoc]
      /\ seenTokens' \in [Urls -> SUBSET (Token \cup {Malformed})]
  BY <1>1 DEF TInv, TrustTypeOK
<1>3. /\ \A d \in Dids : seenDocs[d] \subseteq seenDocs'[d] /\ published'[d] \in seenDocs'[d]
      /\ \A u \in Urls : seenTokens[u] \subseteq seenTokens'[u] /\ tokens'[u] \in seenTokens'[u]
  BY <1>1 DEF TInv, CachesAreSeen
<1>. QED BY <1>1, <1>2, <1>3, ChangeHolds

LEMMA StutterHolds == ASSUME TInv, UNCHANGED trustVars PROVE TInv'
<1>. USE DEF TInv, trustVars, world, invocation, history
<1>1. TrustTypeOK' /\ InTurn' /\ Still' /\ ShownClaimsAreSigned'
  BY DEF TrustTypeOK, InTurn, Still, ShownClaimsAreSigned
<1>2. AtHand' /\ Counted'
  BY DEF AtHand, Counted, Current, Url
<1>3. CachesAreSeen'
  BY DEF CachesAreSeen, ListVouched
<1>4. ReportsAreRight' /\ VerdictIsRight'
  BY DEF ReportsAreRight, VerdictIsRight, Passes, Quiet
<1>5. QuietErrorHasCause'
  BY DEF QuietErrorHasCause, Quiet
<1>. QED BY <1>1, <1>2, <1>3, <1>4, <1>5 DEF TInv

-----------------------------------------------------------------------------
(* The theorems.                                                           *)

(* The inductive invariant holds in every state of every invocation of     *)
(* `trust verify` and `trust lookup`, whatever the registry serves and the *)
(* authorities do meanwhile.                                               *)
THEOREM TrustInvariant == TrustSpec => []TInv
<1>1. TInv /\ [TrustNext]_trustVars => TInv'
  <2>. SUFFICES ASSUME TInv, [TrustNext]_trustVars PROVE TInv'
    OBVIOUS
  <2>1. CASE TrustStep
    BY <2>1, FetchStatementsHolds, CheckIssuerHolds, LoadSignerDocHolds, CheckSignatureHolds,
       FetchListHolds, LoadListDocHolds, VerifyListHolds, CheckStatusHolds DEF TrustStep
  <2>. QED BY <2>1, TrustStartHolds, RotatesHolds, RevokesHolds, TimePassesHolds, StutterHolds
           DEF TrustNext
<1>. QED BY <1>1, InitHolds, PTL DEF TrustSpec

(* Every variable of an invocation keeps its type.                         *)
THEOREM TrustTypeCorrect == TrustSpec => []TrustTypeOK
<1>1. TInv => TrustTypeOK
  BY DEF TInv
<1>. QED BY <1>1, TrustInvariant, PTL

(* The two caches of `trust verify` keep their promise: no issuer document *)
(* and no status list is fetched twice, however many statements name it.   *)
THEOREM FetchesAreFew == TrustSpec => []OneFetchEach
<1>1. TInv => OneFetchEach
  BY DEF TInv, Counted, OneFetchEach
<1>. QED BY <1>1, TrustInvariant, PTL

(* The code and the documentation agree about a statement whose kid is the *)
(* issuer's, except in the second that is exp.                             *)
LEMMA SustainedIsSupported ==
  ASSUME NEW s, ~Foreign(s)
  PROVE  Sustained(s, seenDocs, seenTokens) <=> Supported(s, seenDocs, seenTokens)
  BY DEF Foreign, Sustained, Supported, IssuerSigned

LEMMA InTimeIsTimely ==
  ASSUME NEW s \in Statement, NEW t \in Nat
  PROVE  /\ InTime(s, t) => Timely(s, t)
         /\ s.exp # t => (InTime(s, t) <=> Timely(s, t))
<1>1. s.nbf \in Nat \cup {Missing} /\ s.exp \in Nat \cup {Missing}
  BY DEF Statement
<1>. QED BY <1>1 DEF InTime, Timely

(* Every report is about the statement of its place.                       *)
LEMMA ReportedStatements ==
  ASSUME TInv
  PROVE  /\ DOMAIN reports = 1 .. Len(reports) /\ now \in Nat
         /\ \A k \in DOMAIN reports : statements[k] \in Statement
<1>1. /\ DOMAIN reports = 1 .. Len(reports) /\ DOMAIN statements = 1 .. Len(statements)
      /\ Len(reports) \in Nat /\ Len(statements) \in Nat /\ Len(reports) <= Len(statements)
      /\ now \in Nat
  BY DEF TInv, TrustTypeOK, InTurn
<1>2. \A k \in DOMAIN reports : k \in DOMAIN statements
  BY <1>1
<1>. QED BY <1>1, <1>2 DEF TInv, TrustTypeOK

(* Whatever the authorities rotate or revoke while `trust verify` runs, it *)
(* reports well only of a statement that documents and lists published     *)
(* meanwhile support, and says "Trusted" only of a good report.            *)
THEOREM TrustIsJustified == TrustSpec => []TrustedIsJustified
<1>1. TInv => TrustedIsJustified
  <2>. SUFFICES ASSUME TInv PROVE TrustedIsJustified
    OBVIOUS
  <2>1. ASSUME NEW k \in DOMAIN reports, reports[k].verdict, ~Foreign(statements[k])
        PROVE  Timely(statements[k], now) /\ Supported(statements[k], seenDocs, seenTokens)
    <3>1. Passes(statements[k])
      BY <2>1, ReportedStatements DEF TInv, ReportsAreRight
    <3>2. Supported(statements[k], seenDocs, seenTokens)
      BY <2>1, <3>1, SustainedIsSupported DEF Passes
    <3>3. Timely(statements[k], now)
      BY <2>1, <3>1, ReportedStatements, InTimeIsTimely DEF Passes
    <3>. QED BY <3>2, <3>3
  <2>2. outcome = "Trusted" => \E k \in DOMAIN reports : reports[k].verdict
    BY ReportedStatements DEF TInv, VerdictIsRight, Verdicts
  <2>. QED BY <2>1, <2>2 DEF TrustedIsJustified
<1>. QED BY <1>1, TrustInvariant, PTL

(* While nothing changes and no fetch fails the reports of `trust verify`  *)
(* are complete and exact, for any statements in any order.                *)
THEOREM QuietVerdicts == TrustSpec => []QuietVerdictIsExact
<1>1. TInv => QuietVerdictIsExact
  <2>. SUFFICES ASSUME TInv, Quiet, outcome \in Verdicts
                PROVE  /\ Len(reports) = Len(statements)
                       /\ \A k \in DOMAIN reports :
                            (~Foreign(statements[k]) /\ statements[k].exp # clock) =>
                              (reports[k].verdict <=>
                                 /\ Timely(statements[k], clock)
                                 /\ Supported(statements[k], seenDocs, seenTokens))
                       /\ outcome = "Trusted" <=> \E k \in DOMAIN reports : reports[k].verdict
    BY DEF QuietVerdictIsExact
  <2>1. clock = now
    <3>1. changes = 0
      BY DEF Quiet
    <3>. QED BY <3>1 DEF TInv, Still
  <2>2. /\ Len(reports) = Len(statements)
        /\ outcome = "Trusted" <=> \E k \in DOMAIN reports : reports[k].verdict
    BY ReportedStatements DEF TInv, VerdictIsRight
  <2>3. ASSUME NEW k \in DOMAIN reports, ~Foreign(statements[k]), statements[k].exp # clock
        PROVE  reports[k].verdict <=> /\ Timely(statements[k], clock)
                                      /\ Supported(statements[k], seenDocs, seenTokens)
    <3>1. k \in 1 .. Len(reports) /\ statements[k] \in Statement /\ now \in Nat
      BY <2>3, ReportedStatements
    <3>2. InTime(statements[k], now) <=> Timely(statements[k], clock)
      BY <2>1, <2>3, <3>1, InTimeIsTimely
    <3>3. Sustained(statements[k], seenDocs, seenTokens)
            <=> Supported(statements[k], seenDocs, seenTokens)
      BY <2>3, SustainedIsSupported
    <3>4. /\ reports[k].verdict => Passes(statements[k])
          /\ ~reports[k].verdict => ~Passes(statements[k])
      BY <3>1 DEF TInv, ReportsAreRight
    <3>5. Passes(statements[k]) <=>
            InTime(statements[k], now) /\ Sustained(statements[k], seenDocs, seenTokens)
      BY DEF Passes
    <3>6. CASE reports[k].verdict
      BY <3>2, <3>3, <3>4, <3>5, <3>6
    <3>7. CASE ~reports[k].verdict
      BY <3>2, <3>3, <3>4, <3>5, <3>7
    <3>. QED BY <3>6, <3>7
  <2>. QED BY <2>2, <2>3
<1>. QED BY <1>1, TrustInvariant, PTL

(* While nothing changes, only a statement whose signature holds can end   *)
(* `trust verify` over its status list.                                    *)
THEOREM QuietErrors == TrustSpec => []QuietErrorHasCause
<1>1. TInv => QuietErrorHasCause
  BY DEF TInv
<1>. QED BY <1>1, TrustInvariant, PTL

(* The claims shown of any statement are ones that its token commits to    *)
(* under the signature.                                                    *)
THEOREM ClaimsShown == TrustSpec => []ShownClaimsAreSigned
<1>1. TInv => ShownClaimsAreSigned
  BY DEF TInv
<1>. QED BY <1>1, TrustInvariant, PTL
=============================================================================
