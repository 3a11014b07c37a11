------------------------------ MODULE MCDidtool -----------------------------
(* Small instances of Didtool: the paths and the command lines.            *)
EXTENDS Didtool, TLC

MCNames == {"did.jsonl", "did.jsonl.tmp", "out.jsonl", "pending-1", "pending-2"}
MCPending == <<"pending-1", "pending-2">>
MCInodes == 1 .. 6

(* Invocations are interchangeable.                                        *)
Invocations == Permutations(Procs)

Keep == [r \in Roles |-> "keep"]
RotateAll == [r \in Roles |-> "generate"]
RotateAuthorized == [Keep EXCEPT !["authorized"] = "generate"]
RotateAuthentication == [Keep EXCEPT !["authentication"] = "generate"]
ImportAuthorized == [Keep EXCEPT !["authorized"] = "import"]

(* A command line with the default source, no --out, publishing.           *)
Default(cmd, plan) ==
  [cmd |-> cmd, plan |-> plan, did |-> FALSE, out |-> NoName, force |-> FALSE,
   publish |-> TRUE, credentials |-> TRUE]
Rotate(plan) == Default("rotate", plan)
Deactivate == Default("deactivate", Keep)

FromDid(j) == [j EXCEPT !.did = TRUE]
NoPublish(j) == [j EXCEPT !.publish = FALSE]
NoCredentials(j) == [j EXCEPT !.credentials = FALSE]
ToOut(j) == [j EXCEPT !.out = "out.jsonl"]
Force(j) == [j EXCEPT !.force = TRUE]

MixedJobs ==
  {Rotate(RotateAuthorized), Rotate(RotateAuthentication), Deactivate,
   FromDid(Rotate(RotateAll)), NoPublish(FromDid(Deactivate)),
   Force(ToOut(NoPublish(Rotate(RotateAll)))),
   NoCredentials(FromDid(Rotate(RotateAuthorized))),
   ToOut(NoPublish(Rotate(RotateAuthorized)))}

LocalJobs ==
  {Rotate(RotateAuthorized), Rotate(RotateAuthentication), Rotate(ImportAuthorized),
   NoPublish(Rotate(RotateAll)), Deactivate, NoPublish(Deactivate)}

ConcurrentJobs ==
  {Rotate(RotateAuthorized), FromDid(Rotate(RotateAuthorized)), Deactivate}

OneRotation == {Rotate(RotateAuthorized)}
OneDidRotation == {FromDid(Rotate(RotateAuthorized))}
RotateOrDeactivate == {Rotate(RotateAuthorized), Deactivate}
OneUnpublished == {NoPublish(Rotate(RotateAuthorized))}
OneWithoutCredentials == {NoCredentials(FromDid(Rotate(RotateAuthorized)))}
=============================================================================
