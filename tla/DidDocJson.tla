----------------------------- MODULE DidDocJson -----------------------------
(***************************************************************************)
(* DID documents and public keys, their JSON form in both directions, and  *)
(* the key a verifier takes from a document.  A key is a number; the       *)
(* coordinates of key k are strings [coord |-> k], its multikey is         *)
(* [mk |-> k]: only the encoding of a key decodes to it.                   *)
(***************************************************************************)
EXTENDS Json

Multikey(k) == [t |-> "string", mk |-> k]
Coordinate(k, axis) == [t |-> "string", coord |-> k, axis |-> axis]
DidString(scid) == [t |-> "string", did |-> scid]
DidUrl(scid, fragment) == [t |-> "string", did |-> scid, fragment |-> fragment]

-----------------------------------------------------------------------------
(* Public keys: a JWK is its type, its required members in order, and the  *)
(* four optional members.                                                  *)

ECKey == <<"crv", "x", "y">>
OKPKey == <<"crv", "x">>
RSAKey == <<"n", "e">>
JwkMembers == "EC" :> ECKey @@ "OKP" :> OKPKey @@ "RSA" :> RSAKey

ParseKeyUse(o) ==
  Then(OptionalString(o, "use"),
       LAMBDA u : IF u = None \/ u[1] \in {Text("sig"), Text("enc")} THEN Ok(u)
                  ELSE Err("InvalidFormat", "use"))

(* ECKey, OKPKey, RSAKey::try_from_json: the members in the same order.    *)
KeyFromJson(kty, o) ==
  LET names == JwkMembers[kty] IN
  Then(Collect([i \in DOMAIN names |-> RequiredString(o, names[i])]),
    LAMBDA req : Then(Collect(<<ParseKeyUse(o), OptionalStrings(o, "key_ops"),
                                OptionalString(o, "alg"), OptionalString(o, "kid")>>),
      LAMBDA opt : Ok([kty |-> kty, req |-> req, opt |-> opt])))

JwkFromJson(v) ==
  IF ~IsObject(v) THEN Err("InvalidFieldType", "publicKeyJwk")
  ELSE Then(RequiredString(v.o, "kty"),
    LAMBDA kty : IF \E k \in DOMAIN JwkMembers : kty = Text(k)
                   THEN KeyFromJson(kty.s, v.o)
                   ELSE Err("InvalidFormat", "kty"))

(* Mutant of JwkOptionals: the key id is not written.                      *)
JwkOptionalsWithoutKid(opt) ==
  IfSome("use", opt[1]) @@ IfSome("key_ops", opt[2]) @@ IfSome("alg", opt[3])

JwkOptionals(opt) ==
  IfSome("use", opt[1]) @@ IfSome("key_ops", opt[2]) @@ IfSome("alg", opt[3])
    @@ IfSome("kid", opt[4])

JwkToJson(jwk) ==
  LET names == JwkMembers[jwk.kty] IN
  Obj("kty" :> Text(jwk.kty)
      @@ [n \in {names[i] : i \in DOMAIN names} |->
            jwk.req[CHOOSE i \in DOMAIN names : names[i] = n]]
      @@ JwkOptionals(jwk.opt))

(* Only base58btc, which every multikey of the model is.                   *)
MultibaseFromString(s) ==
  IF "mk" \in DOMAIN s THEN Ok(s) ELSE Err("InvalidFormat", "multibase")

P256Jwk(k, kid) ==
  [kty |-> "EC", req |-> <<Text("P-256"), Coordinate(k, "x"), Coordinate(k, "y")>>,
   opt |-> <<None, None, None, Some(Text(kid))>>]

-----------------------------------------------------------------------------
(* Documents.                                                              *)

Purposes == <<"authentication", "assertionMethod", "keyAgreement",
              "capabilityInvocation", "capabilityDelegation">>

(* DIDDoc::new; `listed` holds the five arrays of methods or references.   *)
NewDoc(id) ==
  [context |-> Arr(<<Text("https://www.w3.org/ns/did/v1")>>), id |-> id,
   also_known_as |-> << >>, controller |-> << >>, verification_method |-> << >>,
   listed |-> [p \in 1 .. 5 |-> << >>], service |-> << >>]

(* VerificationMethodOrRef: a listed method is a reference or embedded.    *)
Reference(url) == [is |-> "ref", url |-> url]
Embedded(vm) == [is |-> "embedded", vm |-> vm]

P256Method(scid, name, k) ==
  [id |-> DidUrl(scid, name), type |-> Text("JsonWebKey2020"),
   controller |-> DidString(scid), jwk |-> Some(P256Jwk(k, name)), multibase |-> None]

NewGenesis(scid, authentication, assertion) ==
  [NewDoc(DidString(scid)) EXCEPT
     !.context = Arr(<<Text("https://www.w3.org/ns/did/v1"),
                       Text("https://w3id.org/security/jwk/v1")>>),
     !.verification_method = <<P256Method(scid, "authentication-key-01", authentication),
                               P256Method(scid, "assertion-key-01", assertion)>>,
     !.listed[1] = <<Reference(DidUrl(scid, "authentication-key-01"))>>,
     !.listed[2] = <<Reference(DidUrl(scid, "assertion-key-01"))>>]

(* One element is written bare, several as an array.                       *)
StringOrArray(items) == IF DOMAIN items = {1} THEN items[1] ELSE Arr(items)

MethodToJson(vm) ==
  Obj("id" :> vm.id @@ "type" :> vm.type @@ "controller" :> vm.controller
      @@ (IF vm.jwk # None THEN "publicKeyJwk" :> JwkToJson(vm.jwk[1])
                           ELSE "publicKeyMultibase" :> vm.multibase[1]))

ListedToJson(m) == IF m.is = "ref" THEN m.url ELSE MethodToJson(m.vm)

ServiceToJson(s) ==
  Obj("id" :> s.id @@ "type" :> StringOrArray(s.type) @@ "serviceEndpoint" :> s.endpoint)

Mapped(items, Op(_)) == [i \in DOMAIN items |-> Op(items[i])]

DocToJson(d) ==
  Obj("@context" :> d.context @@ "id" :> d.id
      @@ IfAny("alsoKnownAs", d.also_known_as)
      @@ (IF d.controller = << >> THEN NoMembers
          ELSE "controller" :> StringOrArray(d.controller))
      @@ IfAny("verificationMethod", Mapped(d.verification_method, MethodToJson))
      @@ IfAny(Purposes[1], Mapped(d.listed[1], ListedToJson))
      @@ IfAny(Purposes[2], Mapped(d.listed[2], ListedToJson))
      @@ IfAny(Purposes[3], Mapped(d.listed[3], ListedToJson))
      @@ IfAny(Purposes[4], Mapped(d.listed[4], ListedToJson))
      @@ IfAny(Purposes[5], Mapped(d.listed[5], ListedToJson))
      @@ IfAny("service", Mapped(d.service, ServiceToJson)))

(* An absent array is empty, anything but an array an error.               *)
ArrayOf(o, k, Op(_)) ==
  IF k \notin DOMAIN o THEN Ok(<< >>)
  ELSE IF IsArray(o[k]) THEN Collect(Mapped(o[k].a, Op))
  ELSE Err("InvalidFieldType", k)

StringsOf(v, k) ==
  CASE IsString(v) -> Ok(<<v>>)
    [] IsArray(v)  -> Collect([i \in DOMAIN v.a |->
                                 IF IsString(v.a[i]) THEN Ok(v.a[i]) ELSE Err("InvalidFieldType", k)])
    [] OTHER       -> Err("InvalidFieldType", k)

OptionalStringOrArray(o, k) ==
  IF k \notin DOMAIN o THEN Ok(<< >>) ELSE StringsOf(o[k], k)

(* publicKeyJwk wins; publicKeyMultibase counts only when it is a string.  *)
PublicKeyFromJson(o) ==
  CASE "publicKeyJwk" \in DOMAIN o ->
         Then(JwkFromJson(o["publicKeyJwk"]), LAMBDA k : Ok(<<Some(k), None>>))
    [] "publicKeyJwk" \notin DOMAIN o /\ "publicKeyMultibase" \in DOMAIN o
         /\ IsString(o["publicKeyMultibase"]) ->
         Then(MultibaseFromString(o["publicKeyMultibase"]), LAMBDA m : Ok(<<None, Some(m)>>))
    [] OTHER -> Err("MissingField", "publicKey")

MethodFromJson(v) ==
  IF ~IsObject(v) THEN Err("InvalidFieldType", "verification method")
  ELSE Then(Collect(<<RequiredString(v.o, "id"), RequiredString(v.o, "type"),
                      RequiredString(v.o, "controller")>>),
    LAMBDA s : Then(PublicKeyFromJson(v.o),
      LAMBDA k : Ok([id |-> s[1], type |-> s[2], controller |-> s[3],
                     jwk |-> k[1], multibase |-> k[2]])))

ListedFromJson(v) ==
  IF IsString(v) THEN Ok(Reference(v)) ELSE Then(MethodFromJson(v), LAMBDA vm : Ok(Embedded(vm)))

ServiceFromJson(v) ==
  IF ~IsObject(v) THEN Err("InvalidFieldType", "service")
  ELSE Then(RequiredString(v.o, "id"),
    LAMBDA id : Then(IF "type" \in DOMAIN v.o THEN StringsOf(v.o["type"], "type")
                                              ELSE Err("MissingField", "type"),
      LAMBDA type : IF "serviceEndpoint" \in DOMAIN v.o
        THEN Ok([id |-> id, type |-> type, endpoint |-> v.o["serviceEndpoint"]])
        ELSE Err("MissingField", "serviceEndpoint")))

(* TryFrom<&Value> for DIDDoc: the first member in error decides.          *)
DocFromJson(v) ==
  IF ~IsObject(v) THEN Err("InvalidFormat", "document")
  ELSE IF "@context" \notin DOMAIN v.o THEN Err("MissingField", "@context")
  ELSE Then(RequiredString(v.o, "id"),
    LAMBDA id : Then(Collect(<<OptionalStringOrArray(v.o, "alsoKnownAs"),
                               OptionalStringOrArray(v.o, "controller")>>),
    LAMBDA names : Then(ArrayOf(v.o, "verificationMethod", MethodFromJson),
    LAMBDA methods : Then(Collect([p \in 1 .. 5 |-> ArrayOf(v.o, Purposes[p], ListedFromJson)]),
    LAMBDA listed : Then(ArrayOf(v.o, "service", ServiceFromJson),
    LAMBDA service :
      Ok([context |-> v.o["@context"], id |-> id, also_known_as |-> names[1],
          controller |-> names[2], verification_method |-> methods,
          listed |-> listed, service |-> service]))))))

-----------------------------------------------------------------------------
(* The verifying key of a method.                                          *)

(* TryFrom<&ECKey>: both coordinates decode and make a point on the curve. *)
EcPoint(x, y) ==
  IF "coord" \in DOMAIN x /\ "coord" \in DOMAIN y /\ x.coord = y.coord
       /\ x.axis = "x" /\ y.axis = "y"
    THEN Ok(x.coord) ELSE Err("MalformedJwk", "point")

(* TryFrom<&PublicKeyJWK> for VerifyingKey: <<alg, key>>.                  *)
VerifyingKey(jwk) ==
  CASE jwk.kty = "OKP" /\ jwk.req[1] = Text("Ed25519") ->
         IF "coord" \in DOMAIN jwk.req[2] THEN Ok(<<"EdDSA", jwk.req[2].coord>>)
                                          ELSE Err("MalformedJwk", "x")
    [] jwk.kty = "EC" /\ jwk.req[1] = Text("P-256") ->
         Then(EcPoint(jwk.req[2], jwk.req[3]), LAMBDA k : Ok(<<"ES256", k>>))
    [] OTHER -> Err("MalformedJwk", "kty or crv")

(* Mutant of FindVerifyingKey: the first method, whatever its id.          *)
FirstVerifyingKey(doc, kid) ==
  IF doc.verification_method = << >> \/ doc.verification_method[1].jwk = None
    THEN Err("Fail", "no method")
    ELSE Then(VerifyingKey(doc.verification_method[1].jwk[1]),
              LAMBDA k : IF k[1] = "ES256" THEN Ok(k[2]) ELSE Err("Fail", "alg"))

(* find_verifying_key: the first method with the id must be a P-256 JWK.   *)
FindVerifyingKey(doc, kid) ==
  LET vms == doc.verification_method
      hits == {i \in DOMAIN vms : vms[i].id = kid} IN
  IF hits = {} THEN Err("Fail", "no such method")
  ELSE LET vm == vms[CHOOSE i \in hits : \A j \in hits : i <= j] IN
       IF vm.jwk = None THEN Err("Fail", "not a JWK")
       ELSE Then(VerifyingKey(vm.jwk[1]),
                 LAMBDA k : IF k[1] = "ES256" THEN Ok(k[2]) ELSE Err("Fail", "alg"))
=============================================================================
