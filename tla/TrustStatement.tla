--------------------------- MODULE TrustStatement ---------------------------
(***************************************************************************)
(* What a trust statement says once it is decoded.  On the wire it is a    *)
(* signed token that commits, in `sd`, to disclosures, and the disclosures *)
(* that come with it; a digest is as good as the disclosure it is of.      *)
(***************************************************************************)
EXTENDS Naturals, Sequences

CONSTANTS Dids, Fragments, Keys,
          Urls,      \* where status lists are
          Languages, Texts,
          Missing,   \* there is no such claim, no such member, no such entry
          Malformed  \* there is one, and it does not decode

Kid == Dids \X (Fragments \cup {Missing})
Pointer == Urls \X Nat
Names == [Languages -> Texts \cup {Missing}]

(* Errors that fail the whole statement, and shapes that are passed over.  *)
Fatal == {"Base64", "Json", "NotArray"}
OffProfile == {"WrongLength", "SaltNotString", "NameNotString"}

Disclosure ==
  [shape : Fatal \cup OffProfile \cup {"ok"}, salt : Nat,
   name : {"entityName", "isStateActor", "other"},
   names : Names,                      \* the value, as an object of strings
   flag : BOOLEAN \cup {Missing}]      \* the value, as a boolean

Wire ==
  [shape : {"ok", "JwtShape", "Base64", "Json"}, alg : {"ES256", "EdDSA", Missing},
   kid : Kid \cup {Missing}, key : Keys,
   iss : Dids \cup {Missing}, iat : Nat \cup {Missing}, nbf : Nat \cup {Missing},
   exp : Nat \cup {Missing}, status : Pointer \cup {Missing, Malformed},
   sd : SUBSET Disclosure, disclosures : Seq(Disclosure)]

Statement ==
  [iss : Dids \cup {Missing}, iat : Nat, nbf : Nat \cup {Missing}, exp : Nat \cup {Missing},
   entity_name : Names, is_state_actor : BOOLEAN \cup {Missing},
   status : Pointer \cup {Missing}, kid : Kid, alg : {"ES256", "EdDSA"}, key : Keys,
   signed : SUBSET Disclosure]

(* try_from_jwt succeeds.                                                  *)
Decodes(w) ==
  /\ w.shape = "ok" /\ w.kid # Missing /\ w.alg # Missing
  /\ \A k \in DOMAIN w.disclosures : w.disclosures[k].shape \notin Fatal
  /\ w.iat # Missing /\ w.status # Malformed

(* Mutant of Committed: whatever comes with the token counts.              *)
Enclosed(w) == {k \in DOMAIN w.disclosures : w.disclosures[k].shape = "ok"}

(* The disclosures of the claims that the signed part commits to.          *)
Committed(w) ==
  {k \in DOMAIN w.disclosures :
     w.disclosures[k].shape = "ok" /\ w.disclosures[k] \in w.sd}

Latest(S) == CHOOSE k \in S : \A j \in S : j <= k

(* Names are put together over all disclosures, a later one wins.          *)
EntityName(w) ==
  [l \in Languages |->
     LET telling == {k \in Committed(w) : /\ w.disclosures[k].name = "entityName"
                                          /\ w.disclosures[k].names[l] # Missing} IN
     IF telling = {} THEN Missing ELSE w.disclosures[Latest(telling)].names[l]]

IsStateActor(w) ==
  LET telling == {k \in Committed(w) : /\ w.disclosures[k].name = "isStateActor"
                                       /\ w.disclosures[k].flag # Missing} IN
  IF telling = {} THEN Missing ELSE w.disclosures[Latest(telling)].flag

(* What try_from_jwt makes of a token that decodes; `signed` stands for    *)
(* signing_input.                                                          *)
Decoded(w) ==
  [iss |-> w.iss, iat |-> w.iat, nbf |-> w.nbf, exp |-> w.exp,
   entity_name |-> EntityName(w), is_state_actor |-> IsStateActor(w),
   status |-> w.status, kid |-> w.kid, alg |-> w.alg, key |-> w.key, signed |-> w.sd]

(* Every claim shown is one the signature covers.                          *)
ClaimsAreSigned(s) ==
  /\ \A l \in Languages : s.entity_name[l] # Missing =>
       \E d \in s.signed : d.shape = "ok" /\ d.name = "entityName"
                           /\ d.names[l] = s.entity_name[l]
  /\ s.is_state_actor # Missing =>
       \E d \in s.signed : d.shape = "ok" /\ d.name = "isStateActor"
                           /\ d.flag = s.is_state_actor
=============================================================================
