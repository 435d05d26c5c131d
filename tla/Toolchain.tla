------------------------------ MODULE Toolchain ------------------------------
(* A jgo command as the list of steps it has still to take, over the files *)
(* of one project.  The generators of Bindings and Contracts are such      *)
(* commands, and `jgo generate` of Project runs them one after the other.  *)
EXTENDS FileTransaction

CONSTANTS
  Absent,   \* the content of a path where there is no file
  Headless  \* what is left of code of protoc that lost the header it begins with

VARIABLES
  kind,     \* the --type of the project
  command,  \* the last command: its name, and the manifest it works on
  steps     \* what it has still to do

toolVars == <<kind, command, steps>>

HasWeb    == kind \in {"web", "mixed"}
HasGRPC   == kind \in {"grpc", "mixed", "proto"}
HasServer == kind # "proto"
ServesGRPC == HasGRPC /\ HasServer   \* it has internal/transport/grpc/register.go

Target == <<"target">>   \* the directory `jgo new` creates

GoMod == <<"go.mod">>   \* the protocol modules it requires
GoSum == <<"go.sum">>

At(p, content) == [q \in {p} |-> content]
Nothing == [q \in {} |-> Absent]

IsNext(step) == status = "working" /\ steps # <<>> /\ Head(steps) = step

Readable(p) == tree[p] \notin {Absent, Torn}

(* internal/service is the user's: the generators add files to it, after   *)
(* they have parsed all of it.                                             *)
ServiceFile == {p \in Path : p[1] \in {"handler", "stub", "http-stub", "rpc-stub"}}
Parses      == \A p \in ServiceFile : tree[p] # Torn

Start(name, manifest, taken, todo) ==
  /\ Begin(taken)
  /\ command' = [name |-> name, manifest |-> manifest]
  /\ steps' = todo
  /\ UNCHANGED kind

(* What a write in place that is cut short may leave.  Code of protoc is   *)
(* known by its header, and so little of it may be left that it is not.    *)
Remains(p) == IF p[1] \in {"pb.go", "grpc.pb.go"} THEN {Torn, Headless} ELSE {Torn}
Cuts(ps)   == {Nothing} \union UNION {{At(p, left) : left \in Remains(p)} : p \in ps}

(* A step writes these files if it can.  It may be cut short: some of them *)
(* are written then, and of those written in place one may be torn.        *)
Do(step, possible, new, inPlace) ==
  /\ IsNext(step)
  /\ UNCHANGED <<kind, command>>
  /\ \/ possible /\ Put(new) /\ steps' = Tail(steps)
     \/ /\ possible
        /\ \E done \in SUBSET DOMAIN new : \E cut \in Cuts(done) :
             /\ inPlace \/ cut = Nothing
             /\ LET written == [p \in done |-> IF p \in DOMAIN cut THEN cut[p] ELSE new[p]]
                IN Crash(written) \/ ((written # new \/ new = Nothing) /\ Interrupt(written))
        /\ steps' = <<>>
     \/ ~possible /\ Fail /\ steps' = <<>>

(* A step runs a tool over which the project's code decides.               *)
MayFail(step) == IsNext(step) /\ Fail /\ steps' = <<>> /\ UNCHANGED <<kind, command>>

(* A nested generator saves its files and goes on to its own steps.        *)
Enter(step, manifest, ps, todo) ==
  /\ IsNext(step)
  /\ TakeSnapshot(ps)
  /\ command' = [command EXCEPT !.manifest = manifest]
  /\ steps' = todo \o Tail(steps)
  /\ UNCHANGED kind

CommitStep ==
  /\ IsNext(<<"commit">>)
  /\ Commit
  /\ steps' = Tail(steps)
  /\ UNCHANGED <<kind, command>>

(* The innermost snapshot is put back file by file, in any order.  Files   *)
(* that are removed before they are written again are missing when that    *)
(* fails half-way; one that is written in place may be torn, whether or    *)
(* not the command had changed it.  Those to be removed are recognised by  *)
(* their header: one without it is neither removed nor was it saved.       *)
RollBack(removed, inPlace) ==
  LET Left(p)   == IF p \in removed /\ tree[p] # Headless THEN Absent ELSE tree[p]
      unsaved   == {p \in DOMAIN Top \intersect removed : Top[p] \in {Absent, Headless}}
      different == {p \in DOMAIN Top : Left(p) # Top[p]}
      written   == IF inPlace THEN {p \in DOMAIN Top : Top[p] # Absent} ELSE {}
  IN /\ \E missed \in SUBSET (different \ unsaved) : \E cut \in Cuts(written) :
          LET lost == missed \union DOMAIN cut \union (different \intersect unsaved)
          IN Undo([p \in lost |-> IF p \in DOMAIN cut THEN cut[p] ELSE Left(p)],
                  missed \union DOMAIN cut # {})
     /\ UNCHANGED toolVars

End ==
  /\ steps = <<>>
  /\ Finish \/ GiveUp
  /\ UNCHANGED toolVars

===============================================================================
