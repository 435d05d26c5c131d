------------------------------ MODULE Bindings ------------------------------
(***************************************************************************)
(* internal/generator/rpcbinding: the services of shared protocol modules  *)
(* a project implements (server bind) or calls (client bind).  The         *)
(* manifest .jgo/rpc.json says which; external.gen.go, clients.gen.go,     *)
(* go.mod, the client configuration and the handlers follow from it.       *)
(***************************************************************************)
EXTENDS Toolchain

CONSTANTS
  Service,    \* the services protocol modules offer, one module each
  Versioned,  \* those bound as <module>@<version>; the others come from go.work
  Method, Handler, Client

ASSUME VersionedAssumption == Versioned \subseteq Service

VARIABLE published  \* the methods each service has now

Manifest    == <<"rpc.json">>
LocalConfig == <<"local.yaml">>
External    == <<"external.gen.go">>
ClientsGen  == <<"clients.gen.go">>
HandlerFile(h) == <<"handler", h>>
StubFile(h, m) == <<"stub", h, m>>

(* What a manifest can hold, and what a file with a method of a service.   *)
Manifests ==
  [servers : UNION {[ss -> [handler : Handler, methods : SUBSET Method]] : ss \in SUBSET Service},
   clients : UNION {[cs -> [service : Service, methods : SUBSET Method]] : cs \in SUBSET Client}]
StubType == [service : Service, edited : BOOLEAN]

(* A file that is missing, or was cut short, is none of what a command     *)
(* writes or renders.                                                      *)
ASSUME ContentAssumption ==
  /\ Absent # Torn /\ Headless \notin {Absent, Torn}
  /\ \A none \in {Absent, Torn, Headless} :
       /\ none # "project" /\ none # "template" /\ none # "stub"
       /\ none \notin Manifests /\ none \notin StubType
       /\ \A cs \in SUBSET Client : none # cs

NoBindings == [servers |-> <<>>, clients |-> <<>>]

(* A key is given a value, or taken out.                                   *)
Bound(f, k, v) == [x \in DOMAIN f \union {k} |-> IF x = k THEN v ELSE f[x]]
Unbound(f, k)  == [x \in DOMAIN f \ {k} |-> f[x]]

ManifestReadable == tree[Manifest] # Torn
LoadManifest == IF tree[Manifest] = Absent THEN NoBindings ELSE tree[Manifest]

(* No two services share a handler, so that no two of them share a file.   *)
ValidManifest(m) ==
  \A s, t \in DOMAIN m.servers : m.servers[s].handler = m.servers[t].handler => s = t

ClientServices(m) == {m.clients[c].service : c \in DOMAIN m.clients}
BoundServices(m)  == DOMAIN m.servers \union ClientServices(m)
WorkspaceBound(m) == ~(BoundServices(m) \subseteq Versioned)

(* What the generated files are rendered from.                             *)
ServerCode(m) == m.servers
ClientCode(m) == [c \in DOMAIN m.clients |-> m.clients[c].service]

(* The manifest with every service as it is now.                           *)
Resolved(m) ==
  [servers |-> [s \in DOMAIN m.servers |-> [m.servers[s] EXCEPT !.methods = published[s]]],
   clients |-> [c \in DOMAIN m.clients |->
                  [m.clients[c] EXCEPT !.methods = published[m.clients[c].service]]]]

HandlerFiles(m, ss) ==
  UNION {{HandlerFile(m.servers[s].handler)}
         \union {StubFile(m.servers[s].handler, x) : x \in m.servers[s].methods} : s \in ss}

ModuleFiles == {GoMod, GoSum}

-------------------------------------------------------------------------------
(* The commands: every refusal comes before the first write.               *)

TidyIf(cond) == IF cond THEN <<<<"tidy">>>> ELSE <<>>
Verified     == <<<<"compile">>, <<"commit">>>>

CanBind == tree[Target] = "project" /\ HasServer /\ ManifestReadable

(* Mutant: another service may already use the handler.                    *)
BindServerSharing(s, h) ==
  LET m     == LoadManifest
      next  == [m EXCEPT !.servers = Bound(@, s, [handler |-> h, methods |-> published[s]])]
      files == ModuleFiles \union {Manifest, External} \union HandlerFiles(next, {s})
  IN /\ CanBind /\ ServesGRPC /\ Readable(GoMod)
     /\ Start("server-bind", next, <<Saved(files)>>,
              <<<<"require", {s}>>, <<"external">>, <<"handler", s>>, <<"stubs", s>>,
                <<"manifest">>>> \o TidyIf(s \in Versioned) \o Verified)
     /\ UNCHANGED published

BindServer(s, h) ==
  LET m     == LoadManifest
      next  == [m EXCEPT !.servers = Bound(@, s, [handler |-> h, methods |-> published[s]])]
      files == ModuleFiles \union {Manifest, External} \union HandlerFiles(next, {s})
  IN /\ CanBind /\ ServesGRPC /\ Readable(GoMod)
     /\ s \in DOMAIN m.servers => h = m.servers[s].handler
     /\ ValidManifest(next)
     /\ Start("server-bind", next, <<Saved(files)>>,
              <<<<"require", {s}>>, <<"external">>, <<"handler", s>>, <<"stubs", s>>,
                <<"manifest">>>> \o TidyIf(s \in Versioned) \o Verified)
     /\ UNCHANGED published

BindClient(c, s) ==
  LET m        == LoadManifest
      replaced == c \in DOMAIN m.clients
      next     == [m EXCEPT !.clients = Bound(@, c, [service |-> s, methods |-> published[s]])]
  IN /\ CanBind /\ Readable(GoMod)
     /\ replaced => m.clients[c].service = s
     /\ Start("client-bind", next,
              <<Saved(ModuleFiles \union {Manifest, LocalConfig, ClientsGen})>>,
              <<<<"require", {s}>>, <<"clients">>>>
                \o (IF replaced THEN <<>> ELSE <<<<"add-config", c>>>>)
                \o <<<<"manifest">>>> \o TidyIf(s \in Versioned) \o Verified)
     /\ UNCHANGED published

(* Mutant: the registration of the service stays.                          *)
UnbindServerKeepingCode(s) ==
  LET m    == LoadManifest
      next == [m EXCEPT !.servers = Unbound(@, s)]
  IN /\ CanBind /\ ServesGRPC
     /\ s \in DOMAIN m.servers
     /\ Start("server-unbind", next, <<Saved(ModuleFiles \union {Manifest, External})>>,
              <<<<"manifest">>>> \o TidyIf(s \in Versioned) \o Verified)
     /\ UNCHANGED published

UnbindServer(s) ==
  LET m    == LoadManifest
      next == [m EXCEPT !.servers = Unbound(@, s)]
  IN /\ CanBind /\ ServesGRPC
     /\ s \in DOMAIN m.servers
     /\ Start("server-unbind", next, <<Saved(ModuleFiles \union {Manifest, External})>>,
              <<<<"external">>, <<"manifest">>>> \o TidyIf(s \in Versioned) \o Verified)
     /\ UNCHANGED published

UnbindClient(c) ==
  LET m    == LoadManifest
      next == [m EXCEPT !.clients = Unbound(@, c)]
  IN /\ CanBind
     /\ c \in DOMAIN m.clients
     /\ Start("client-unbind", next,
              <<Saved(ModuleFiles \union {Manifest, LocalConfig, ClientsGen})>>,
              <<<<"clients">>, <<"remove-config", c>>, <<"manifest">>>>
                \o TidyIf(m.clients[c].service \in Versioned /\ ~WorkspaceBound(next))
                \o Verified)
     /\ UNCHANGED published

(* The manifest names nothing, and yet a generated file registers or       *)
(* declares something: a file cut short shows nothing of that.             *)
OutputsStale ==
  \/ ServesGRPC /\ Readable(External) /\ tree[External] # <<>>
  \/ Readable(ClientsGen) /\ tree[ClientsGen] # <<>>

OutputFiles == {ClientsGen} \union (IF ServesGRPC THEN {External} ELSE {})
RewriteServer == IF ServesGRPC THEN <<<<"external">>>> ELSE <<>>

(* Step "rpc" of `jgo generate`.                                           *)
GenerateBindings ==
  LET m    == LoadManifest
      next == Resolved(m)
  IN /\ ManifestReadable
     /\ IF m.servers = <<>> /\ m.clients = <<>>
        THEN IF OutputsStale
             THEN Enter(<<"rpc">>, m, ModuleFiles \union OutputFiles,
                        RewriteServer \o <<<<"clients">>, <<"tidy">>>> \o Verified)
             ELSE Do(<<"rpc">>, TRUE, Nothing, FALSE)
        ELSE /\ Readable(GoMod)
             /\ Enter(<<"rpc">>, next,
                      ModuleFiles \union {Manifest} \union OutputFiles
                        \union HandlerFiles(next, DOMAIN m.servers),
                      <<<<"require", BoundServices(m)>>>> \o RewriteServer
                        \o <<<<"implement", DOMAIN m.servers>>, <<"clients">>, <<"manifest">>>>
                        \o TidyIf(~WorkspaceBound(m)) \o <<<<"commit">>>>)
     /\ UNCHANGED published

(* A service that cannot be resolved, or a manifest that cannot be read.   *)
RefuseBindings == MayFail(<<"rpc">>) /\ UNCHANGED published

-------------------------------------------------------------------------------
(* The steps: all of them write in place.                                  *)

(* The source a generated file holds, if the Go tools can read it.         *)
Code(p) == IF Readable(p) THEN tree[p] ELSE <<>>

Stubs == {p \in ServiceFile : p[1] = "stub" /\ Readable(p)}
Imported ==
  DOMAIN Code(External) \union {Code(ClientsGen)[c] : c \in DOMAIN Code(ClientsGen)}
    \union {tree[p].service : p \in Stubs}

AddRequirement(ss) ==
  LET versioned == ss \intersect Versioned
  IN Do(<<"require", ss>>, versioned # {} => Readable(GoMod),
        IF versioned = {} THEN Nothing ELSE At(GoMod, tree[GoMod] \union versioned), TRUE)

WriteServer ==
  Do(<<"external">>, Readable(GoMod), At(External, ServerCode(command.manifest)), TRUE)
WriteClients ==
  Do(<<"clients">>, Readable(GoMod), At(ClientsGen, ClientCode(command.manifest)), TRUE)

CreateServerHandler(s) ==
  LET file == HandlerFile(command.manifest.servers[s].handler)
  IN Do(<<"handler", s>>, Parses,
        IF tree[file] = Absent THEN At(file, "template") ELSE Nothing, TRUE)

(* Mutant: a method of another signature is replaced.                      *)
ReplaceServerStubs(s) ==
  LET binding == command.manifest.servers[s]
      files   == {StubFile(binding.handler, x) : x \in binding.methods}
      wrong   == {p \in files : tree[p] = Absent \/ (Readable(p) /\ tree[p].service # s)}
  IN Do(<<"stubs", s>>, Parses, [p \in wrong |-> [service |-> s, edited |-> FALSE]], TRUE)

(* A method the user has is kept if it has the signature of this service.  *)
Implements(stub, s) == stub.service = s

CreateServerStubs(s) ==
  LET binding == command.manifest.servers[s]
      files   == {StubFile(binding.handler, x) : x \in binding.methods}
      missing == {p \in files : tree[p] = Absent}
  IN Do(<<"stubs", s>>, Parses /\ \A p \in files \ missing : Implements(tree[p], s),
        [p \in missing |-> [service |-> s, edited |-> FALSE]], TRUE)

(* The loop over the services of the manifest, whose order is left open.   *)
ImplementServices(todo) ==
  /\ IsNext(<<"implement", todo>>)
  /\ \/ todo = {} /\ steps' = Tail(steps)
     \/ \E s \in todo :
          steps' = <<<<"handler", s>>, <<"stubs", s>>, <<"implement", todo \ {s}>>>>
                     \o Tail(steps)
  /\ UNCHANGED <<fileVars, kind, command>>

AddClientConfig(c) ==
  Do(<<"add-config", c>>, Readable(LocalConfig) /\ c \notin tree[LocalConfig],
     At(LocalConfig, tree[LocalConfig] \union {c}), TRUE)
RemoveClientConfig(c) ==
  Do(<<"remove-config", c>>, Readable(LocalConfig),
     At(LocalConfig, tree[LocalConfig] \ {c}), TRUE)

SaveManifest == Do(<<"manifest">>, TRUE, At(Manifest, command.manifest), TRUE)

(* go mod tidy and go build: both may fail for reasons of their own.       *)
Tidy ==
  LET required == Imported \intersect Versioned
  IN \/ Do(<<"tidy">>, Readable(GoMod), [p \in ModuleFiles |-> required], TRUE)
     \/ MayFail(<<"tidy">>)
Compile == Do(<<"compile">>, TRUE, Nothing, FALSE) \/ MayFail(<<"compile">>)

BindingStep ==
  /\ \/ \E ss \in SUBSET Service : AddRequirement(ss) \/ ImplementServices(ss)
     \/ WriteServer \/ WriteClients \/ SaveManifest \/ Tidy \/ Compile
     \/ \E s \in Service : CreateServerHandler(s) \/ CreateServerStubs(s)
     \/ \E c \in Client : AddClientConfig(c) \/ RemoveClientConfig(c)
  /\ UNCHANGED published

(* A workspace module is generated again with other methods.               *)
Publish(s, methods) ==
  /\ AtRest
  /\ s \in Service \ Versioned
  /\ methods # published[s]
  /\ published' = [published EXCEPT ![s] = methods]
  /\ UNCHANGED <<fileVars, toolVars>>

-------------------------------------------------------------------------------
(* What `jgo doctor` requires of the bindings in a tree: generated files    *)
(* are compared with the manifest only where it names a binding of their   *)
(* kind, and only a manifest that names none makes it look for leftovers.  *)
ManifestOf(t) == IF t[Manifest] = Absent THEN NoBindings ELSE t[Manifest]

Handled(t, m, s) ==
  /\ t[HandlerFile(m.servers[s].handler)] \notin {Absent, Torn}
  /\ \A x \in m.servers[s].methods :
       LET stub == t[StubFile(m.servers[s].handler, x)]
       IN stub \notin {Absent, Torn} /\ Implements(stub, s)

Configured(t) ==
  LET m == ManifestOf(t)
  IN m.clients # <<>> => t[LocalConfig] # Torn /\ DOMAIN m.clients \subseteq t[LocalConfig]

Validate(t) ==
  LET m == ManifestOf(t)
  IN /\ t[Manifest] # Torn
     /\ ValidManifest(m)
     /\ m = NoBindings => /\ t[External] \in {Absent, Torn, <<>>}
                          /\ t[ClientsGen] \in {Absent, Torn, <<>>}
     /\ m.servers # <<>> => t[External] = ServerCode(m)
     /\ m.clients # <<>> => t[ClientsGen] = ClientCode(m)
     /\ \A s \in DOMAIN m.servers : Handled(t, m, s)
     /\ m = Resolved(m)
     /\ Configured(t)

===============================================================================
