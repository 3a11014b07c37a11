------------------------------ MODULE DidPlace ------------------------------
(***************************************************************************)
(* From the URL of a log to its DID and back: what `did create` makes of   *)
(* the URL, how a DID is written and read, where a reader looks for the    *)
(* log, and under which identifier the registry is asked to keep it.       *)
(*                                                                         *)
(* A text with separators is the sequence of what is between them: a host  *)
(* is cut at its dots, a path at its slashes, a segment of a path and a    *)
(* DID at their colons.  Of a host, one port may be split off.             *)
(***************************************************************************)
EXTENDS Json

Ext == INSTANCE SequencesExt

CONSTANTS LogUrls,  \* URLs that a user or a registry may name
          NoUrl

ASSUME UrlsAssumption ==
  LogUrls \subseteq [scheme : STRING, host : [labels : Seq(STRING), port : Seq(STRING)],
                     path : Seq(Seq(STRING))]

VARIABLE logUrl     \* the one that is named

NoWord == ""
NoText == <<NoWord>>
Words(segments) == Ext!FlattenSeq(segments)
DidJsonl == <<"did.jsonl">>
WellKnown == <<".well-known">>

-----------------------------------------------------------------------------
(* url_to_did_components.                                                  *)

(* Mutant of PathSegments: the name of the file stays.                     *)
AllSegments(path) == Dropping(path, NoText)

(* The segments that are not empty, without the name of the file.          *)
PathSegments(path) ==
  LET segments == Dropping(path, NoText) IN
  IF segments # << >> /\ Ext!Last(segments) = DidJsonl THEN Ext!Front(segments) ELSE segments

DidPath(path) ==
  IF PathSegments(path) \in {<< >>, <<WellKnown>>} THEN None ELSE Some(Words(PathSegments(path)))

(* is_valid_domain: the port hangs on the last label.                      *)
IsValidDomain(d) ==
  \A i \in DOMAIN d.labels : d.labels[i] # NoWord \/ (i = Len(d.labels) /\ d.port # None)
IsValidPath(words) == \A i \in DOMAIN words : words[i] # NoWord

(* cmd_create as far as the DID: its components, checked by try_new_tdw    *)
(* and try_new_webvh.                                                      *)
UrlToDid(url) ==
  IF url.scheme # "https" \/ (url.host.labels = NoText /\ url.host.port = None)
    THEN Err("Url", "scheme or host")
  ELSE IF ~IsValidDomain(url.host) THEN Err("InvalidDomain", "domain")
  ELSE IF DidPath(url.path) # None /\ ~IsValidPath(DidPath(url.path)[1])
    THEN Err("InvalidPath", "path")
  ELSE Ok([scid |-> "scid", domain |-> url.host, path |-> DidPath(url.path)])

-----------------------------------------------------------------------------
(* DID.                                                                    *)

(* Display: the words after the method.                                    *)
DidToWords(did) == <<did.scid, did.domain>> \o (IF did.path = None THEN << >> ELSE did.path[1])

(* from_str: at most three parts, the rest is the path.                    *)
DidFromWords(words) ==
  IF Len(words) < 2 THEN Err("MissingDomain", "domain")
  ELSE IF ~IsValidDomain(words[2]) THEN Err("InvalidDomain", "domain")
  ELSE LET rest == SubSeq(words, 3, Len(words)) IN
       IF ~IsValidPath(rest) THEN Err("InvalidPath", "path")
       ELSE Ok([scid |-> words[1], domain |-> words[2],
                path |-> IF rest = << >> THEN None ELSE Some(rest)])

(* log_url.                                                                *)
LogUrl(did) ==
  [scheme |-> "https", host |-> did.domain,
   path |-> (IF did.path = None THEN <<WellKnown>>
             ELSE [i \in DOMAIN did.path[1] |-> <<did.path[1][i]>>]) \o <<DidJsonl>>]

-----------------------------------------------------------------------------
(* The identifier of the registry.                                         *)

(* A path without the slashes at its end.                                  *)
TrimEnd(path) ==
  LET full == {i \in DOMAIN path : path[i] # NoText} IN
  SubSeq(path, 1, IF full = {} THEN 0 ELSE CHOOSE i \in full : \A j \in full : j <= i)

(* extract_identifier, of the URL that an allocation answers with.  A URL  *)
(* without a path yields its host.                                         *)
ExtractIdentifier(url) ==
  LET stripped == IF url.path # << >> /\ Ext!Last(url.path) = DidJsonl
                    THEN Ext!Front(url.path) ELSE url.path
      path == TrimEnd(stripped) IN
  IF path = << >> THEN <<url.host>> ELSE Ext!Last(path)

(* Mutant of ExtractRegistryIdentifier: the first part of the path.        *)
FirstPartOfPath(did) == IF did.path = None THEN None ELSE Some(did.path[1][1])

(* extract_registry_identifier, of the DID that `did rotate` and           *)
(* `did deactivate` are given.                                             *)
ExtractRegistryIdentifier(did) ==
  IF did.path = None THEN None ELSE Some(Ext!Last(did.path[1]))

-----------------------------------------------------------------------------
(* What must hold.                                                         *)

(* A colon in a segment is lost in a DID.                                  *)
HasNoColon(url) == \A i \in DOMAIN url.path : Len(url.path[i]) = 1

Accepted == logUrl \in LogUrls /\ HasNoColon(logUrl) /\ UrlToDid(logUrl).ok

(* The log of a DID that `did create` made of a URL is looked for at one   *)
(* place, however often the DID is written and read, and at that URL       *)
(* itself if the URL names the file; the root alone is looked for under    *)
(* .well-known.                                                            *)
LogUrlLeadsBack ==
  Accepted =>
    LET did == UrlToDid(logUrl).v IN
    /\ DidFromWords(DidToWords(did)) = Ok(did)
    /\ UrlToDid(LogUrl(did)) = Ok(did)
    /\ ( /\ Len(logUrl.path) > 1 /\ Ext!Last(logUrl.path) = DidJsonl
         /\ \A i \in DOMAIN logUrl.path : logUrl.path[i] # NoText )
         => LogUrl(did) = logUrl

(* `did create` uploads to the identifier it reads off the allocated URL,  *)
(* `did rotate` and `did deactivate` to the one they read off the DID: it  *)
(* is the same one for a DID with a path, unless the URL has a slash after *)
(* the name of the file.                                                   *)
IdentifiersAgree ==
  Accepted =>
    LET did == UrlToDid(logUrl).v
        trimmed == TrimEnd(logUrl.path) IN
    (did.path # None /\ (trimmed = logUrl.path \/ Ext!Last(trimmed) # DidJsonl)) =>
      ExtractRegistryIdentifier(did) = Some(ExtractIdentifier(logUrl)[1])
=============================================================================
