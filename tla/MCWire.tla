------------------------------- MODULE MCWire -------------------------------
(* The wire formats for TLC: a session is about one log, or about one URL. *)
EXTENDS LogWire, DidPlace

MCRoleChoices == {{"authorized"}, {"authentication", "assertion"}}

(* Documents as other tools write them: every kind of key, the optional    *)
(* members of a key, an embedded method, a service, single strings.        *)
RawMethod(id, key) ==
  Obj("id" :> Text(id) @@ "type" :> Text("Multikey") @@ "controller" :> Text("ctl") @@ key)

Rich(scid) ==
  Obj("@context" :> Text("https://www.w3.org/ns/did/v1") @@ "id" :> DidString(scid)
      @@ "alsoKnownAs" :> Text("alias") @@ "controller" :> Arr(<<Text("ctl")>>)
      @@ "verificationMethod" :>
           Arr(<<MethodToJson(P256Method(scid, "assertion-key-01", 11))>>)
      @@ "keyAgreement" :>
           Arr(<<Text("ref"),
                 RawMethod("embedded",
                   "publicKeyJwk" :> Obj("kty" :> Text("OKP") @@ "crv" :> Text("Ed25519")
                     @@ "x" :> Coordinate(1, "x") @@ "use" :> Text("sig")
                     @@ "key_ops" :> Arr(<<Text("verify")>>) @@ "kid" :> Text("k1")))>>)
      @@ "service" :>
           Arr(<<Obj("id" :> Text("svc") @@ "type" :> Text("LinkedDomains")
                     @@ "serviceEndpoint" :> Obj("origins" :> Arr(<<Text("o")>>)))>>))

Plain(scid) ==
  Obj("@context" :> Arr(<<Text("https://www.w3.org/ns/did/v1")>>) @@ "id" :> DidString(scid)
      @@ "controller" :> Arr(<<Text("ctl"), Text("ctl2")>>)
      @@ "verificationMethod" :>
           Arr(<<RawMethod("mk", "publicKeyMultibase" :> Multikey(1)),
                 RawMethod("rsa",
                   "publicKeyJwk" :> Obj("kty" :> Text("RSA") @@ "n" :> Text("n")
                     @@ "e" :> Text("e") @@ "alg" :> Text("RS256") @@ "ext" :> Bool(TRUE)))>>))

(* One member, element or string of a value lost or overwritten: what a    *)
(* damaged file or a careless tool makes of a line.                        *)
RECURSIVE MCDamages(_)
MCDamages(v) ==
  CASE IsObject(v) ->
         {Obj(Without(v.o, k)) : k \in DOMAIN v.o}
           \cup UNION {{Obj([v.o EXCEPT ![k] = d]) : d \in MCDamages(v.o[k])} : k \in DOMAIN v.o}
    [] IsArray(v) ->
         {Arr(SubSeq(v.a, 1, Len(v.a) - 1)) : i \in DOMAIN v.a \cap {1}}
           \cup {Num(0)}
           \cup UNION {{Arr([v.a EXCEPT ![i] = d]) : d \in MCDamages(v.a[i])} : i \in DOMAIN v.a}
    [] OTHER -> {Text("other"), Num(0)} \ {v}

MCForeignDocs(scid) == {Rich(scid), Plain(scid)}

(* URLs with and without a port, with empty labels and segments, with the  *)
(* two names that mean something, and with a colon in a segment.           *)
Segments == {<<"">>, <<"api">>, <<"id">>, <<"did.jsonl">>, <<".well-known">>, <<"a", "b">>}
Hosts == [labels : {<<"example", "ch">>, <<"example", "">>, <<"">>}, port : {None, Some("8443")}]
MCLogUrls ==
  [scheme : {"https", "http"}, host : Hosts, path : UNION {[1 .. n -> Segments] : n \in 0 .. 4}]
MCInit ==
  /\ Init
  /\ \/ logUrl = NoUrl
     \/ format = TDW03 /\ logUrl \in LogUrls

MCNext == logUrl = NoUrl /\ Next /\ UNCHANGED logUrl

MCSpec == MCInit /\ [][MCNext]_<<vars, logUrl>>
=============================================================================
