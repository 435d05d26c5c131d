------------------------------- MODULE Project -------------------------------
(***************************************************************************)
(* A project over its life: `jgo new` creates it, the developer edits it,  *)
(* the generators of Contracts and Bindings change it one command at a     *)
(* time, and `jgo generate` of internal/command/development.go runs them   *)
(* all under one snapshot.  A command may fail at any step, and may die.   *)
(***************************************************************************)
EXTENDS Bindings, Contracts

CONSTANTS
  Kind,         \* the --types tried
  MaxCommands,  \* bound on commands after `jgo new`
  MaxEdits      \* bound on what the developer and other processes do

ASSUME BoundsAssumption == MaxCommands \in Nat /\ MaxEdits \in Nat

VARIABLES commands, edits

vars == <<fileVars, toolVars, published, commands, edits>>

HttpPaths == {Contract, Models, ApiGen, RoutesGen} \union {HttpStub(o) : o \in Operation}
RpcPaths == Generated \union {RegisterGen, External} \union {Proto(f) : f \in ProtoFile}
              \union {RpcStub(f) : f \in ProtoFile}
              \union {HandlerFile(h) : h \in Handler}
              \union {StubFile(h, x) : h \in Handler, x \in Method}
ProjectPath == {Target, GoMod, GoSum, Manifest, LocalConfig, ClientsGen}
                 \union HttpPaths \union RpcPaths

ASSUME PathAssumption == Path = ProjectPath

Init ==
  /\ \E found \in {Absent, "empty"} :
       tree = [p \in Path |-> IF p = Target THEN found ELSE Absent]
  /\ FileInit
  /\ kind \in Kind
  /\ command = [name |-> "none", manifest |-> Nothing]
  /\ steps = <<>>
  /\ published = [s \in Service |-> IF s \in Versioned THEN Method ELSE {}]
  /\ commands = 0
  /\ edits = 0

-------------------------------------------------------------------------------
(* `jgo new`: the project is rendered in a directory beside the target,    *)
(* which it then replaces if that is missing or still empty.               *)

(* What the templates of each type hold.                                   *)
Template ==
  LET content(p) ==
        CASE p = Target -> "project"
          [] p \in {GoMod, GoSum} -> {}
          [] p = LocalConfig /\ HasServer -> {}
          [] p = ClientsGen /\ HasServer -> <<>>
          [] p = Contract /\ HasWeb -> [operations |-> {}, models |-> 0]
          [] p = Models /\ HasWeb -> 0
          [] p = RoutesGen /\ HasWeb -> {}
          [] p \in {External, RegisterGen} /\ ServesGRPC -> <<>>
          [] OTHER -> Absent
  IN [p \in Path |-> content(p)]

Vacant == tree[Target] \in {Absent, "empty"}

New ==
  /\ Vacant
  /\ Start("new", Nothing, <<Saved({Target})>>,
           (IF tree[Target] = "empty" THEN <<<<"clear">>>> ELSE <<>>)
             \o <<<<"publish">>, <<"commit">>>>)

ClearTarget == Do(<<"clear">>, tree[Target] = "empty", At(Target, Absent), FALSE)

PublishProject ==
  /\ IsNext(<<"publish">>)
  /\ UNCHANGED <<kind, command>>
  /\ IF Vacant
     THEN \/ Put(Template) /\ steps' = Tail(steps)
          \/ (Interrupt(Nothing) \/ Crash(Nothing) \/ Crash(Template)) /\ steps' = <<>>
     ELSE Fail /\ steps' = <<>>

-------------------------------------------------------------------------------
(* `jgo generate`: the snapshot holds all that the generators may write,   *)
(* but neither the configuration nor the contracts of protobuf.            *)

(* Mutant: the stubs a generator creates are not among them.               *)
GeneratorStateOfCode ==
  {GoMod, GoSum, Contract, ApiGen, RoutesGen, Manifest, External, ClientsGen, RegisterGen}
    \union Generated

GeneratorState ==
  {GoMod, GoSum, Contract, ApiGen, RoutesGen, Manifest, External, ClientsGen, RegisterGen}
    \union Generated \union ServiceFile

RunGenerators ==
  /\ tree[Target] = "project" /\ Readable(GoMod)
  /\ Start("generate", NoBindings, <<Saved(GeneratorState)>>,
           (IF HasWeb THEN <<<<"http">>>> ELSE <<>>)
             \o (IF HasGRPC THEN <<<<"pb">>>> ELSE <<>>)
             \o (IF HasServer THEN <<<<"rpc">>>> ELSE <<>>)
             \o <<<<"commit">>>>)

(* All of it is done, but what it has to say cannot be printed.            *)
PrintFails == command.name = "generate" /\ Len(snapshots) = 1 /\ MayFail(<<"commit">>)

NestedGenerator ==
  \/ (GenerateHTTP \/ GeneratePB) /\ UNCHANGED published
  \/ (MayFail(<<"http">>) \/ MayFail(<<"pb">>) \/ PrintFails) /\ UNCHANGED published
  \/ GenerateBindings \/ RefuseBindings

(* The snapshots of binding.go and development.go are put back in place;   *)
(* that of protobuf removes first what it knows for its files, as it knew  *)
(* those it saved; what openapi and new put back is renamed or created     *)
(* whole.                                                                  *)
Restore ==
  /\ status = "undoing" /\ snapshots # <<>>
  /\ RollBack(IF DOMAIN Top = PbOutputs THEN Generated ELSE {},
              Manifest \in DOMAIN Top \/ ModuleFiles \subseteq DOMAIN Top)

-------------------------------------------------------------------------------
(* The developer, between two commands.                                    *)

Edited(p) ==
  CASE p[1] = "stub" -> {[tree[p] EXCEPT !.edited = TRUE]}
    [] p[1] \in {"handler", "http-stub", "rpc-stub"} -> {"edited"}
    [] p = Models -> {1}
    [] p[1] = "proto" -> {"messages"}
    [] OTHER -> {}

Edit ==
  /\ AtRest
  /\ \E p \in ServiceFile \union {Models} \union {Proto(f) : f \in ProtoFile} :
       \/ tree[p] # Absent /\ p # Models /\ Outside(p, Absent)
       \/ Readable(p) /\ \E content \in Edited(p) \ {tree[p]} : Outside(p, content)
  /\ UNCHANGED <<toolVars, published>>

(* Another process takes the directory `jgo new` is about to fill.         *)
Occupy ==
  /\ status = "working" /\ command.name = "new"
  /\ Vacant
  /\ Outside(Target, "occupied")
  /\ UNCHANGED <<toolVars, published>>

Command ==
  \/ /\ \/ New \/ RunGenerators \/ APIGenerate \/ PBGenerate
        \/ \E o \in Operation : AddOperation(o)
        \/ \E f \in ProtoFile : AddService(f) \/ AddMethod(f)
     /\ UNCHANGED published
  \/ \E s \in Service : UnbindServer(s) \/ \E h \in Handler : BindServer(s, h)
  \/ \E c \in Client : UnbindClient(c) \/ \E s \in Service : BindClient(c, s)

Step ==
  \/ BindingStep \/ NestedGenerator
  \/ /\ ClearTarget \/ PublishProject \/ ContractStep \/ CommitStep \/ Restore \/ End
     /\ UNCHANGED published

Environment == Edit \/ Occupy \/ \E s \in Service, ms \in SUBSET Method : Publish(s, ms)

Next ==
  \/ Command /\ commands <= MaxCommands /\ commands' = commands + 1 /\ UNCHANGED edits
  \/ Step /\ UNCHANGED <<commands, edits>>
  \/ Environment /\ edits < MaxEdits /\ edits' = edits + 1 /\ UNCHANGED commands

Spec == Init /\ [][Next]_vars

-------------------------------------------------------------------------------
TypeOK ==
  /\ kind \in Kind
  /\ status \in {"ok", "working", "undoing", "failed", "crashed"}
  /\ AtRest => steps = <<>> /\ snapshots = <<>>
  /\ tree[Target] # "project" => \A p \in Path \ {Target} : tree[p] = Absent
  /\ \/ tree[Manifest] \in {Absent, Torn}
     \/ tree[Manifest] \in Manifests /\ ValidManifest(tree[Manifest])

(* A stub `jgo pb generate` created stays when a later step fails.         *)
LeftoverStub(p) ==
  command.name = "pb-generate" /\ p[1] = "rpc-stub" /\ before[p] = Absent

(* A command that fails leaves every file as it found it, but for what its *)
(* rollback did not put back: because it failed in its turn, or, of        *)
(* `jgo pb generate`, a file that was cut short before its header ended.   *)
AllOrNothing ==
  status = "failed" =>
    \A p \in Path : tree[p] # before[p] => p \in spoiled \/ LeftoverStub(p)

(* What the developer owns is never changed by a command, while it runs or *)
(* after, but by a rollback that is cut short.                             *)
UserCodeKept ==
  \A p \in ServiceFile \union {Models} :
    before[p] # Absent => tree[p] = before[p] \/ p \in spoiled

(* "A generation that fails leaves nothing half-done", whatever file it    *)
(* wrote, but for one its rollback did not put back.                       *)
NothingLeftBehind ==
  status = "failed" => \A p \in Path : tree[p] # before[p] => p \in spoiled

(* A command that succeeds leaves bindings that agree, if it found such:   *)
(* `jgo doctor` accepts them, and both generated files are those of the    *)
(* manifest, of which `jgo doctor` does not look at every one.             *)
InStep(t) ==
  /\ t[Manifest] # Torn
  /\ ServesGRPC => t[External] = ServerCode(ManifestOf(t))
  /\ t[ClientsGen] = ClientCode(ManifestOf(t))

Succeeds == status = "working" /\ status' = "ok"
BindingsAgree ==
  [][Succeeds /\ HasServer /\ before[Target] = "project"
       => (InStep(before) /\ Validate(before) => InStep(tree) /\ Validate(tree))]_vars

(* `jgo generate` that succeeds has brought all generated code in step     *)
(* with the contracts and the manifest, whatever edits, failures and       *)
(* crashes have left, but for one thing: of a contract that is gone it may *)
(* leave a file that has not even the header of generated code.            *)
HTTPInStep ==
  /\ tree[Contract].models = tree[Models]
  /\ tree[ApiGen] = tree[Contract]
  /\ tree[RoutesGen] = tree[Contract].operations
ProtobufInStep ==
  /\ \A f \in ProtoFile :
       IF tree[Proto(f)] = Absent
       THEN tree[Messages(f)] \in {Absent, Headless} /\ tree[Services(f)] \in {Absent, Headless}
       ELSE /\ tree[Messages(f)] = tree[Proto(f)]
            /\ Declares(f) => tree[Services(f)] = tree[Proto(f)]
  /\ HasServer =>
       /\ tree[RegisterGen] = [f \in Discovered |-> tree[Services(f)]]
       /\ \A f \in Implemented : tree[RpcStub(f)] # Absent
GenerateReconciles ==
  [][Succeeds /\ command.name = "generate"
       => /\ HasWeb => HTTPInStep
          /\ HasGRPC => ProtobufInStep
          /\ HasServer /\ Configured(tree) => Validate(tree)
          /\ HasServer /\ ManifestOf(tree) # NoBindings => InStep(tree)]_vars

===============================================================================
