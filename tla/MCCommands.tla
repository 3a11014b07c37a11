----------------------------- MODULE MCCommands -----------------------------
(* The commands other than `did rotate` and `did deactivate`, for TLC.     *)
(* They share no state, so that a session is one of a check of a DID, a    *)
(* series of creations, and proofs of possession for one DID.              *)
EXTENDS TrustVerify, DidCreate, PopTokens

CONSTANTS d1, d2, u1, u2, f1, k1, k2

VARIABLE session

(* Disclosures: of a name in one or two languages, of the flag, and of a   *)
(* shape or with a salt that the signed part does not know.                *)
NameOf(salt, f) == [shape |-> "ok", salt |-> salt, name |-> "entityName",
                    names |-> [l \in Languages |-> IF l \in DOMAIN f THEN f[l] ELSE Missing],
                    flag |-> Missing]
Actor(salt, b) == [shape |-> "ok", salt |-> salt, name |-> "isStateActor",
                   names |-> [l \in Languages |-> Missing], flag |-> b]
Name1 == NameOf(1, [l \in {"de"} |-> "A"])
Name2 == NameOf(2, [l \in {"de", "fr"} |-> "B"])

(* One statement under the expected issuer's name, and its variations.     *)
Good == [shape |-> "ok", iat |-> 1, iss |-> d1, alg |-> "ES256", kid |-> <<d1, f1>>, key |-> k1,
         nbf |-> 1, exp |-> 2, status |-> <<u1, 0>>,
         sd |-> {Name1, Actor(1, TRUE)},
         disclosures |-> <<Name1, Name2, Actor(2, FALSE), [Name1 EXCEPT !.shape = "WrongLength"]>>]
Newer == [Good EXCEPT !.iat = 2, !.status = <<u2, 1>>, !.exp = Missing,
                      !.sd = {Name1, Name2, Actor(1, TRUE), Actor(2, FALSE)},
                      !.disclosures = <<Name2, Name1, Actor(2, FALSE), Actor(1, TRUE)>>]
NotYet == [Good EXCEPT !.iat = 2, !.nbf = 2, !.exp = 3]
Ended == [Good EXCEPT !.nbf = 0, !.exp = 0]
OtherIssuer == [Good EXCEPT !.iss = d2, !.kid = <<d2, f1>>, !.iat = 3]
OtherKid == [Good EXCEPT !.kid = <<d2, f1>>]
PastEnd == [Good EXCEPT !.status = <<u1, 1>>]
NoStatus == [Good EXCEPT !.status = Missing]
NoFragment == [Good EXCEPT !.kid = <<d1, Missing>>]
WrongAlg == [Good EXCEPT !.alg = "EdDSA", !.iss = Missing]
Broken == [Good EXCEPT !.disclosures[2].shape = "Json"]

MCArray == {<<Good, Newer>>, <<NotYet, Good>>, <<Good, Good, Newer>>, <<OtherKid, OtherIssuer>>,
            <<PastEnd, Newer>>, <<NoStatus, NoFragment, Good>>, <<WrongAlg, Ended>>, <<Good, Broken>>}

(* A statement under the expected issuer's name alone, signed by another.  *)
ForeignArray == {<<OtherKid>>}

List(value) == [i \in 0 .. 0 |-> value]
Pair(value) == [i \in 0 .. 1 |-> value]
Signed(slots) == [alg |-> "ES256", kid |-> <<d1, f1>>, key |-> k1, slots |-> slots]

TokensWith(a, b) == [u \in {u1, u2} |-> IF u = u1 THEN a ELSE b]
MCFirstTokens ==
  {TokensWith(a, Signed(Pair("valid"))) :
     a \in {Signed(List("valid")), Signed(List("revoked")),
            [Signed(Pair("valid")) EXCEPT !.key = k2], Malformed}}
  \cup
  {TokensWith(Signed(List("valid")), b) :
     b \in {Signed(Missing), [Signed(Pair("valid")) EXCEPT !.kid = <<d2, f1>>]}}

MCRequests ==
  {[command |-> c, raw |-> raw, url |-> TRUE, issuer |-> c = "verify", did |-> TRUE] :
     c \in {"verify", "lookup"}, raw \in {FALSE}}
  \cup {[command |-> "lookup", raw |-> TRUE, url |-> TRUE, issuer |-> FALSE, did |-> TRUE],
        [command |-> "verify", raw |-> FALSE, url |-> FALSE, issuer |-> TRUE, did |-> TRUE],
        [command |-> "verify", raw |-> FALSE, url |-> TRUE, issuer |-> FALSE, did |-> TRUE],
        [command |-> "lookup", raw |-> FALSE, url |-> TRUE, issuer |-> FALSE, did |-> FALSE]}

Swiyu == [url |-> "none", swiyu |-> TRUE, no_publish |-> FALSE, credentials |-> TRUE,
          import |-> "none"]
OwnUrl == [Swiyu EXCEPT !.url = "good", !.swiyu = FALSE]

MCJobs ==
  {Swiyu, [Swiyu EXCEPT !.no_publish = TRUE, !.import = "all"], [Swiyu EXCEPT !.import = "unreadable"],
   [Swiyu EXCEPT !.import = "same"], [Swiyu EXCEPT !.credentials = FALSE],
   [Swiyu EXCEPT !.url = "good"], [Swiyu EXCEPT !.swiyu = FALSE],
   [OwnUrl EXCEPT !.import = "all"], [OwnUrl EXCEPT !.url = "bad"],
   [OwnUrl EXCEPT !.no_publish = TRUE]}

PopJobOf(role, version, ttl) ==
  [role |-> role, version |-> version, ttl |-> ttl, nonce |-> "n1", out |-> "stdout",
   force |-> FALSE]
MCPopJobs ==
  {PopJobOf("authorized", 0, 1)}
  \cup {[PopJobOf("authentication", 1, 2) EXCEPT !.out = "file", !.force = force] : force \in BOOLEAN}
  \cup {PopJobOf("authorized", 0, 0), PopJobOf("authorized", 3, 1),
        [PopJobOf("authorized", 0, 1) EXCEPT !.force = TRUE]}

Keeping == [r \in Roles |-> "keep"]
MCPlans ==
  {[Keeping EXCEPT ![r] = "generate"] : r \in {"authorized", "assertion"}}
  \cup {[Keeping EXCEPT !["authentication"] = "import"]}

Plainly == [jwt |-> "given", log |-> "this", nonce |-> NoNonce, allow_expired |-> FALSE, lag |-> 0]
MCVerifyJobs ==
  {[Plainly EXCEPT !.log = log, !.lag = lag] : log \in {"none", "this"}, lag \in 0 .. 1}
  \cup {[Plainly EXCEPT !.nonce = nonce, !.allow_expired = TRUE] : nonce \in {"n1", "n2"}}
  \cup {[Plainly EXCEPT !.jwt = jwt, !.log = "none"] : jwt \in {"both", "none", "unreadable"}}
  \cup {[Plainly EXCEPT !.log = "unloadable"]}

(* Tokens with one thing wrong, and one with another DID's name on it.     *)
SomePop ==
  [shape |-> "ok", alg |-> "ES256", kid |-> <<"fragment", "this", "assertion">>,
   key |-> <<"assertion", 1>>, iss |-> "this", iat |-> 0, exp |-> 3, nonce |-> "n1"]
MCOtherTokens ==
  {[SomePop EXCEPT !.shape = "malformed"], [SomePop EXCEPT !.alg = "none"],
   [SomePop EXCEPT !.alg = "EdDSA"], [SomePop EXCEPT !.kid = <<"malformed">>],
   [SomePop EXCEPT !.kid = <<"fragment", "other", "assertion">>],
   [SomePop EXCEPT !.kid = <<"fragment", "this", "?">>],
   [SomePop EXCEPT !.kid = <<"did:key", <<"assertion", 1>>>>],
   [SomePop EXCEPT !.key = <<"authentication", 1>>], [SomePop EXCEPT !.iss = "other"],
   [SomePop EXCEPT !.iat = 2],
   [SomePop EXCEPT !.alg = "EdDSA", !.kid = <<"did:key", <<"authorized", 1>>>>,
                   !.key = <<"authorized", 1>>, !.iss = "other"]}

Init ==
  /\ TrustInit /\ CreateInit /\ PopInit
  /\ \/ session = "trust" /\ published[d2][f1] = k1
     \/ /\ session \in {"create", "pop"}
        /\ \A d \in Dids : \A f \in Fragments : published[d][f] = Unresolved
        /\ \A u \in Urls : tokens[u] \in {Signed(List("valid")), Signed(Pair("valid"))}

Next ==
  \/ session = "trust" /\ TrustNext /\ UNCHANGED <<createVars, popVars, session>>
  \/ session = "create" /\ CreateNext /\ UNCHANGED <<trustVars, popVars, session>>
  \/ session = "pop" /\ PopNext /\ UNCHANGED <<trustVars, createVars, session>>

vars == <<trustVars, createVars, popVars, session>>

(* The commands that were started go on; no behaviour is of two sessions.  *)
Steps ==
  \/ session = "trust" /\ TrustStep /\ UNCHANGED <<createVars, popVars, session>>
  \/ session = "create" /\ CreateStep /\ UNCHANGED <<trustVars, popVars, session>>

Spec == Init /\ [][Next]_vars /\ WF_vars(Steps)
=============================================================================
