-------------------------------- MODULE Json --------------------------------
(***************************************************************************)
(* JSON values and the results of reading them.  A value is a record whose *)
(* field t is its type.  A string is kept as the record itself, so that a  *)
(* string with a structure (a versionId, a hash, a DID URL) can be told    *)
(* from a plain Text without being spelled out.                            *)
(***************************************************************************)
EXTENDS Integers, Sequences

(* The members of an object: one member, and the first with what else the  *)
(* second has.                                                             *)
k :> x == [m \in {k} |-> x]
f @@ g == [m \in DOMAIN f \cup DOMAIN g |-> IF m \in DOMAIN f THEN f[m] ELSE g[m]]

Text(s) == [t |-> "string", s |-> s]
Num(n)  == [t |-> "number", n |-> n]
Bool(b) == [t |-> "bool", b |-> b]
Arr(a)  == [t |-> "array", a |-> a]
Obj(o)  == [t |-> "object", o |-> o]

IsString(v) == v.t = "string"
IsNumber(v) == v.t = "number"
IsBool(v)   == v.t = "bool"
IsArray(v)  == v.t = "array"
IsObject(v) == v.t = "object"
IsStrings(v) == IsArray(v) /\ \A i \in DOMAIN v.a : IsString(v.a[i])

(* Rust's Option, and Result with `?` and `collect`.                       *)
None == << >>
Some(x) == <<x>>

Ok(v) == [ok |-> TRUE, v |-> v]
Err(kind, what) == [ok |-> FALSE, kind |-> kind, what |-> what]

Then(r, F(_)) == IF r.ok THEN F(r.v) ELSE r

Collect(rs) ==
  IF \A i \in DOMAIN rs : rs[i].ok
    THEN Ok([i \in DOMAIN rs |-> rs[i].v])
    ELSE LET first == CHOOSE i \in DOMAIN rs : ~rs[i].ok /\ \A j \in 1 .. i - 1 : rs[j].ok IN
         Err(rs[first].kind, rs[first].what)

Member(v, k) == IF IsObject(v) /\ k \in DOMAIN v.o THEN Some(v.o[k]) ELSE None

NoMembers == [k \in {} |-> k]
(* The members of an object that are written when they are present.        *)
IfSome(k, x) == IF x = None THEN NoMembers ELSE k :> x[1]
IfAny(k, items) == IF items = << >> THEN NoMembers ELSE k :> Arr(items)

Without(o, k) == [m \in DOMAIN o \ {k} |-> o[m]]

(* The elements of s that are not e, as SelectSeq gives them.              *)
Dropping(s, e) ==
  LET kept[i \in 0 .. Len(s)] ==
        IF i = 0 THEN << >>
        ELSE IF s[i] = e THEN kept[i - 1] ELSE Append(kept[i - 1], s[i])
  IN  kept[Len(s)]

(* s.replace(from, to) on the text of a value: `from` occurs as a whole    *)
(* string or inside a DID.                                                 *)
ReplacedString(v, from, to) ==
  CASE v = from -> to
    [] v # from /\ IsString(v) /\ "did" \in DOMAIN v /\ v.did = from -> [v EXCEPT !.did = to]
    [] OTHER -> v

ReplacedIn(v, from, to, Inside(_, _, _)) ==
  CASE IsObject(v) -> Obj([k \in DOMAIN v.o |-> Inside(v.o[k], from, to)])
    [] IsArray(v)  -> Arr([i \in DOMAIN v.a |-> Inside(v.a[i], from, to)])
    [] OTHER       -> ReplacedString(v, from, to)

(* The lists of a key, the key, its method, the list of methods, the       *)
(* document and the state are inside an entry: nothing lies deeper.        *)
ReplacedInList(v, from, to) == ReplacedIn(v, from, to, ReplacedString)
ReplacedInKey(v, from, to) == ReplacedIn(v, from, to, ReplacedInList)
ReplacedInMethod(v, from, to) == ReplacedIn(v, from, to, ReplacedInKey)
ReplacedInMethods(v, from, to) == ReplacedIn(v, from, to, ReplacedInMethod)
ReplacedInDoc(v, from, to) == ReplacedIn(v, from, to, ReplacedInMethods)
ReplacedInState(v, from, to) == ReplacedIn(v, from, to, ReplacedInDoc)
Replaced(v, from, to) == ReplacedIn(v, from, to, ReplacedInState)

-----------------------------------------------------------------------------
(* The accessors that the parsers of the core crate share.                 *)

RequiredString(o, k) ==
  IF k \notin DOMAIN o THEN Err("MissingField", k)
  ELSE IF IsString(o[k]) THEN Ok(o[k]) ELSE Err("InvalidFieldType", k)

(* An absent member is None, a member of the wrong type an error.          *)
OptionalOf(o, k, Is(_)) ==
  IF k \notin DOMAIN o THEN Ok(None)
  ELSE IF Is(o[k]) THEN Ok(Some(o[k])) ELSE Err("InvalidFieldType", k)

OptionalString(o, k)  == OptionalOf(o, k, IsString)
OptionalBool(o, k)    == OptionalOf(o, k, IsBool)
OptionalU64(o, k)     == OptionalOf(o, k, IsNumber)
OptionalStrings(o, k) == OptionalOf(o, k, IsStrings)
=============================================================================
