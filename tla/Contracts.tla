------------------------------ MODULE Contracts ------------------------------
(***************************************************************************)
(* internal/generator/openapi and internal/generator/protobuf: the         *)
(* contracts a project owns, and the code generated from them.  A contract *)
(* and a file generated from it are written aside and renamed into place,  *)
(* so that neither is ever torn; what buf writes, and a new service stub   *)
(* of an operation, may be.                                                *)
(***************************************************************************)
EXTENDS Toolchain, FiniteSets

CONSTANTS
  Operation,  \* the HTTP operations
  ProtoFile   \* the protobuf files

Contract  == <<"openapi.yaml">>
Models    == <<"models">>         \* the package api/http/model
ApiGen    == <<"api.gen.go">>
RoutesGen == <<"routes.gen.go">>
HttpStub(o)  == <<"http-stub", o>>

Proto(f)     == <<"proto", f>>
Messages(f)  == <<"pb.go", f>>
Services(f)  == <<"grpc.pb.go", f>>
RegisterGen  == <<"register.gen.go">>
RpcStub(f)   == <<"rpc-stub", f>>

-------------------------------------------------------------------------------
(* HTTP: an operation joins the contract with the stub that implements it. *)

(* No file of the service package declares the method, or has its name.    *)
Unimplemented(o) == Parses /\ tree[HttpStub(o)] = Absent

AddOperation(o) ==
  /\ tree[Target] = "project" /\ HasWeb /\ Readable(Contract)
  /\ o \notin tree[Contract].operations
  /\ Unimplemented(o)
  /\ Start("api-add", o, <<Saved({HttpStub(o)})>>,
           <<<<"http-stub", o>>, <<"contract">>, <<"commit">>>>)

WriteHTTPStub(o) == Do(<<"http-stub", o>>, TRUE, At(HttpStub(o), "stub"), TRUE)

WriteContract ==
  Do(<<"contract">>, TRUE,
     At(Contract, [operations |-> tree[Contract].operations \union {command.manifest},
                   models |-> tree[Models]]), FALSE)

(* Step "http" of `jgo generate`, and `jgo api generate`: everything is    *)
(* rendered before the first of the three files is replaced.               *)
HTTPOutputs == {ApiGen, RoutesGen, Contract}
HTTPSteps   == <<<<"api">>, <<"routes">>, <<"sync">>, <<"commit">>>>
Synced      == [tree[Contract] EXCEPT !.models = tree[Models]]
Routes      == tree[Contract].operations

GenerateHTTP ==
  Readable(Contract) /\ Enter(<<"http">>, command.manifest, HTTPOutputs, HTTPSteps)

APIGenerate ==
  /\ tree[Target] = "project" /\ HasWeb /\ Readable(Contract)
  /\ Start("api-generate", Nothing, <<Saved(HTTPOutputs)>>, HTTPSteps)

WriteHTTP ==
  \/ Do(<<"api">>, TRUE, At(ApiGen, Synced), FALSE)
  \/ Do(<<"routes">>, TRUE, At(RoutesGen, Routes), FALSE)
  \/ Do(<<"sync">>, TRUE, At(Contract, Synced), FALSE)

-------------------------------------------------------------------------------
(* Protobuf: what a file declares is nothing but messages, a service, or a *)
(* service with an RPC.                                                    *)

ProtoLevel == {"messages", "service", "rpc"}
Generated == {Messages(f) : f \in ProtoFile} \union {Services(f) : f \in ProtoFile}
PbOutputs == Generated \union (IF HasServer THEN {RegisterGen} ELSE {})

HasContracts == \E f \in ProtoFile : tree[Proto(f)] # Absent
Declares(f)  == tree[Proto(f)] \in {"service", "rpc"}

(* `jgo pb service add` and `jgo pb method add` replace one contract.     *)
AddService(f) ==
  /\ tree[Target] = "project" /\ HasGRPC
  /\ ~Declares(f)
  /\ Start("pb-service-add", "service", <<>>, <<<<"proto", f>>>>)

AddMethod(f) ==
  /\ tree[Target] = "project" /\ HasGRPC
  /\ tree[Proto(f)] = "service"
  /\ Start("pb-method-add", "rpc", <<>>, <<<<"proto", f>>>>)

WriteProto(f) == Do(<<"proto", f>>, TRUE, At(Proto(f), command.manifest), FALSE)

(* Step "pb" of `jgo generate`, and `jgo pb generate`.  Without a contract *)
(* only the generated code goes.                                           *)
PbSteps ==
  IF ~HasContracts
  THEN <<<<"prune">>>> \o (IF HasServer THEN <<<<"register">>, <<"verify">>>> ELSE <<>>)
         \o <<<<"commit">>>>
  ELSE <<<<"buf">>, <<"prune">>>>
         \o (IF HasServer THEN <<<<"discover">>, <<"register">>, <<"rpc-stubs">>, <<"verify">>>>
                          ELSE <<>>)
         \o <<<<"commit">>>>

GeneratePB == Enter(<<"pb">>, {}, PbOutputs, PbSteps)

PBGenerate ==
  /\ tree[Target] = "project" /\ HasGRPC
  /\ Start("pb-generate", {}, <<Saved(PbOutputs)>>, PbSteps)

Buf ==
  LET files == {f \in ProtoFile : tree[Proto(f)] # Absent}
      outputs == {Messages(f) : f \in files} \union {Services(f) : f \in {g \in files : Declares(g)}}
  IN \/ Do(<<"buf">>, TRUE, [p \in outputs |-> tree[Proto(p[2])]], TRUE)
     \/ MayFail(<<"buf">>)

(* Mutant: the service code of a contract that is gone is forgotten.       *)
StaleMessages ==
  {p \in Generated : /\ p[1] = "pb.go" /\ tree[p] \notin {Absent, Headless}
                     /\ tree[Proto(p[2])] = Absent}

(* Generated files of a contract that is gone, as far as their header      *)
(* tells.  A file that lost only its service keeps the service code of     *)
(* before.                                                                 *)
Stale ==
  {p \in Generated : tree[p] \notin {Absent, Headless} /\ tree[Proto(p[2])] = Absent}

Prune ==
  /\ IsNext(<<"prune">>)
  /\ UNCHANGED kind
  /\ command' = [command EXCEPT !.manifest = Stale]
  /\ \/ Put([p \in Stale |-> Absent]) /\ steps' = Tail(steps)
     \/ /\ \E done \in SUBSET Stale :
             LET removed == [p \in done |-> Absent]
             IN Crash(removed) \/ (done # Stale /\ Interrupt(removed))
        /\ steps' = <<>>

(* The services there is code for, all of which must parse.                *)
Discovered == {f \in ProtoFile : tree[Services(f)] \notin {Absent, Headless}}
Implemented == {f \in Discovered : tree[Services(f)] = "rpc"}

Discover ==
  Do(<<"discover">>,
     Discovered # {} /\ \A f \in ProtoFile : tree[Services(f)] \notin {Torn, Headless},
     Nothing, FALSE)

WriteTransport ==
  Do(<<"register">>, TRUE, At(RegisterGen, [f \in Discovered |-> tree[Services(f)]]), FALSE)

(* A stub for every RPC that has no implementation, one after the other.   *)
CreateServiceStubs ==
  LET missing == {f \in Implemented : tree[RpcStub(f)] = Absent}
  IN Do(<<"rpc-stubs">>, Parses, [p \in {RpcStub(f) : f \in missing} |-> "stub"], FALSE)

(* Only where something was pruned does the whole project have to build.   *)
Verify ==
  LET pruned == command.manifest # {}
      builds == /\ \A f \in ProtoFile : tree[RpcStub(f)] # Absent => tree[Messages(f)] # Absent
                /\ \A p \in Generated : tree[p] # Headless
  IN \/ Do(<<"verify">>, pruned => builds, Nothing, FALSE)
     \/ IsNext(<<"verify">>) /\ pruned /\ MayFail(<<"verify">>)

ContractStep ==
  \/ \E o \in Operation : WriteHTTPStub(o)
  \/ WriteContract \/ WriteHTTP
  \/ \E f \in ProtoFile : WriteProto(f)
  \/ Buf \/ Prune \/ Discover \/ WriteTransport \/ CreateServiceStubs \/ Verify

===============================================================================
