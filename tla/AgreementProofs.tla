---------------------------- MODULE AgreementProofs ----------------------------
(* What a command that succeeds leaves: bindings that agree, and generated *)
(* code that is in step with the contracts.                                *)
EXTENDS CommandProofs

-------------------------------------------------------------------------------
(* The inductive invariant: whatever a command that works has to bring in  *)
(* step is so already, or the step that does it is still ahead.            *)

(* What the files hold whose content is rendered from what they hold.      *)
Fits(p, content, grpc) ==
  /\ p = Contract => \/ content \in {Absent, Torn}
                     \/ content = [operations |-> content.operations, models |-> content.models]
  /\ p = LocalConfig => content \in {Absent, Torn} \/ content \in SUBSET Client
  /\ p = External /\ ~grpc => content \in {Absent, Torn, <<>>}

ContentInv ==
  /\ \A p \in Path : Fits(p, tree[p], ServesGRPC)
  /\ \A i \in 1..Len(snapshots) : \A p \in Path \intersect DOMAIN snapshots[i] :
       Fits(p, snapshots[i][p], ServesGRPC)

(* HTTP.                                                                   *)
HTTPAhead ==
  LET Ahead(k) == {"http", k} \intersect Kinds(steps) # {}
      contract == tree[Contract]
      whole    == contract = [operations |-> contract.operations, models |-> contract.models]
  IN /\ status = "working" /\ "sync" \in Kinds(steps) => whole
     /\ status = "working" /\ command.name = "generate" /\ HasWeb =>
       /\ "http" \in Kinds(steps) \/ whole
       /\ Ahead("api") \/ tree[ApiGen] = [contract EXCEPT !.models = tree[Models]]
       /\ Ahead("routes") \/ tree[RoutesGen] = contract.operations
       /\ Ahead("sync") \/ contract.models = tree[Models]

(* Protobuf: what is discovered is what buf and the pruning have left.     *)
Compiled(f) ==
  /\ tree[Messages(f)] = tree[Proto(f)]
  /\ Declares(f) => tree[Services(f)] = tree[Proto(f)]
Pruned(f) ==
  tree[Messages(f)] \in {Absent, Headless} /\ tree[Services(f)] \in {Absent, Headless}
Registered == tree[RegisterGen] = [f \in Discovered |-> tree[Services(f)]]
Stubbed    == \A f \in Implemented : tree[RpcStub(f)] # Absent

ProtobufAhead ==
  LET Ahead(k) == {"pb", k} \intersect Kinds(steps) # {}
      settled  == {"buf", "prune"} \intersect Kinds(steps) = {}
  IN status = "working" /\ command.name = "generate" /\ HasGRPC =>
       /\ Ahead("buf") \/ \A f \in ProtoFile : tree[Proto(f)] # Absent => Compiled(f)
       /\ Ahead("prune") \/ \A f \in ProtoFile : tree[Proto(f)] = Absent => Pruned(f)
       /\ HasServer =>
            /\ Ahead("register") \/ (settled /\ Registered)
            /\ Ahead("rpc-stubs") \/ (settled /\ Stubbed) \/ ~HasContracts

(* Bindings: m is the manifest a command works on, ahead are its steps.    *)
ResolvedBy(m, pub) ==
  [servers |-> [s \in DOMAIN m.servers |-> [m.servers[s] EXCEPT !.methods = pub[s]]],
   clients |-> [c \in DOMAIN m.clients |->
                  [m.clients[c] EXCEPT !.methods = pub[m.clients[c].service]]]]

Reaches(ahead, k, s) ==
  <<k, s>> \in ahead \/ \E x \in ahead : x[1] = "implement" /\ s \in x[2]
HasHandler(t, m, s) == t[HandlerFile(m.servers[s].handler)] \notin {Absent, Torn}
HasStubs(t, m, s) ==
  \A x \in m.servers[s].methods :
    LET stub == t[StubFile(m.servers[s].handler, x)]
    IN stub \notin {Absent, Torn} /\ Implements(stub, s)

Rendered(t, m, kinds, grpc) ==
  /\ "manifest" \in kinds \/ (t[Manifest] # Torn /\ ManifestOf(t) = m)
  /\ "external" \in kinds \/ (grpc => t[External] = ServerCode(m))
  /\ "clients" \in kinds \/ t[ClientsGen] = ClientCode(m)
Served(t, m, ahead) ==
  \A s \in DOMAIN m.servers :
    /\ Reaches(ahead, "handler", s) \/ HasHandler(t, m, s)
    /\ Reaches(ahead, "stubs", s) \/ HasStubs(t, m, s)
Reachable(t, m, ahead) ==
  /\ \A c \in DOMAIN m.clients :
       <<"add-config", c>> \in ahead \/ (t[LocalConfig] # Torn /\ c \in t[LocalConfig])
  /\ \A c : <<"remove-config", c>> \in ahead => c \notin DOMAIN m.clients

(* The bindings of a tree agree.                                           *)
Agree(t, pub, grpc) ==
  /\ Rendered(t, ManifestOf(t), {}, grpc)
  /\ Served(t, ManifestOf(t), {})
  /\ ManifestOf(t) = ResolvedBy(ManifestOf(t), pub)
  /\ Configured(t)

ConfigKinds == {"add-config", "remove-config"}
Binders     == {"server-bind", "server-unbind", "client-bind", "client-unbind"}
BindingFile ==
  {Manifest, External, ClientsGen, LocalConfig} \union {HandlerFile(h) : h \in Handler}
    \union {StubFile(h, x) : h \in Handler, x \in Method}
Untouched   == \A p \in BindingFile : tree[p] = before[p]

(* Nothing is bound, and no generated file shows anything that is.         *)
Unbinding(t, grpc) ==
  /\ t[Manifest] # Torn /\ ManifestOf(t) = NoBindings
  /\ grpc => t[External] \in {Absent, Torn, <<>>}
  /\ t[ClientsGen] \in {Absent, Torn, <<>>}

BindingsAhead ==
  status = "working" /\ HasServer =>
    /\ command.name = "new" => before[Target] # "project"
    /\ command.name \in Binders /\ Agree(before, published, ServesGRPC) =>
         /\ command.manifest = ResolvedBy(command.manifest, published)
         /\ Rendered(tree, command.manifest, Kinds(steps), ServesGRPC)
         /\ Served(tree, command.manifest, Of(steps))
         /\ Reachable(tree, command.manifest, Of(steps))
    /\ command.name \notin Binders \union {"new", "generate"} => Untouched
    /\ command.name = "generate" =>
         /\ "rpc" \in Kinds(steps) => Untouched
         /\ "rpc" \notin Kinds(steps) =>
              \/ /\ Untouched /\ Unbinding(before, ServesGRPC)
                 /\ Kinds(steps) \subseteq {"commit"}
              \/ /\ before[Manifest] # Torn /\ tree[LocalConfig] = before[LocalConfig]
                 /\ command.manifest = ResolvedBy(ManifestOf(before), published)
                 /\ Rendered(tree, command.manifest, Kinds(steps), ServesGRPC)
                 /\ Served(tree, command.manifest, Of(steps))
                 /\ Kinds(steps) \subseteq (BindingKinds \ ConfigKinds) \union {"commit"}

ProgressInv == ContentInv /\ HTTPAhead /\ ProtobufAhead /\ BindingsAhead

-------------------------------------------------------------------------------
(* What a step of a list does, whichever it is.                            *)

Took(step, new) ==
  /\ IsNext(step)
  /\ UNCHANGED <<kind, before>> /\ command'.name = command.name
  /\ snapshots' \in {snapshots, <<>>}
  /\ \A p \in Path : \/ tree'[p] = tree[p] \/ tree'[p] \in Remains(p)
                     \/ p \in DOMAIN new /\ tree'[p] = new[p]
  /\ status' = "working" =>
       /\ \A p \in Path : tree'[p] = IF p \in DOMAIN new THEN new[p] ELSE tree[p]
       /\ steps' = Tail(steps)

LEMMA WroteSome ==
  ASSUME NEW new, NEW w, Put(w) \/ Interrupt(w) \/ Crash(w),
         DOMAIN w \subseteq DOMAIN new, \A p \in DOMAIN w : w[p] = new[p] \/ w[p] \in Remains(p)
  PROVE  /\ before' = before /\ snapshots' \in {snapshots, <<>>}
         /\ \A p \in Path : \/ tree'[p] = tree[p] \/ tree'[p] \in Remains(p)
                            \/ p \in DOMAIN new /\ tree'[p] = new[p]
<1>1. before' = before /\ snapshots' \in {snapshots, <<>>} /\ tree' = With(w)
  BY DEF Put, Interrupt, Crash, CutShort
<1>2. \A p \in Path : tree'[p] = IF p \in DOMAIN w THEN w[p] ELSE tree[p]
  BY <1>1, WithNew
<1>. QED
  BY <1>1, <1>2

LEMMA TookDo ==
  ASSUME NEW step, NEW possible, NEW new, NEW inPlace, Do(step, possible, new, inPlace),
         new = [p \in DOMAIN new |-> new[p]]
  PROVE  Took(step, new) /\ command' = command /\ (status' = "working" => possible)
<1>1. IsNext(step) /\ UNCHANGED <<kind, command>>
  BY DEF Do
<1>2. CASE possible /\ Put(new) /\ steps' = Tail(steps)
  <2>1. /\ before' = before /\ snapshots' \in {snapshots, <<>>}
        /\ \A p \in Path : tree'[p] = IF p \in DOMAIN new THEN new[p] ELSE tree[p]
    BY <1>2, WithNew DEF Put
  <2>. QED
    BY <1>1, <1>2, <2>1 DEF Took
<1>3. ASSUME NEW w, Interrupt(w) \/ Crash(w), DOMAIN w \subseteq DOMAIN new,
             \A p \in DOMAIN w : w[p] = new[p] \/ w[p] \in Remains(p)
      PROVE  Took(step, new) /\ status' # "working"
  <2>1. status' # "working"
    BY <1>3 DEF Interrupt, Crash
  <2>. QED
    BY <1>1, <1>3, <2>1, WroteSome DEF Took
<1>4. CASE Fail
  <2>1. status' # "working" /\ UNCHANGED <<tree, snapshots, before>>
    BY <1>4 DEF Fail
  <2>. QED
    BY <1>1, <2>1 DEF Took
<1>. QED
  BY <1>1, <1>2, <1>3, <1>4, DoEffect

LEMMA TookFail ==
  ASSUME NEW step, MayFail(step)
  PROVE  Took(step, Nothing) /\ status' # "working"
BY DEF MayFail, Fail, Took

LEMMA TookPrune ==
  ASSUME Prune, SafetyInv
  PROVE  Took(<<"prune">>, [p \in Stale |-> Absent])
<1>. DEFINE new == [p \in Stale |-> Absent]
<1>1. IsNext(<<"prune">>) /\ kind' = kind /\ command'.name = command.name
  BY SameName DEF Prune
<1>2. ASSUME Put(new), steps' = Tail(steps)
      PROVE  Took(<<"prune">>, new)
  <2>1. /\ before' = before /\ snapshots' \in {snapshots, <<>>}
        /\ \A p \in Path : tree'[p] = IF p \in DOMAIN new THEN new[p] ELSE tree[p]
    BY <1>2, WithNew DEF Put
  <2>. HIDE DEF new
  <2>. QED
    BY <1>1, <1>2, <2>1 DEF Took
<1>3. ASSUME NEW done \in SUBSET Stale, NEW w, w = [p \in done |-> Absent],
             Crash(w) \/ Interrupt(w)
      PROVE  Took(<<"prune">>, new)
  <2>1. status' # "working"
    BY <1>3 DEF Interrupt, Crash
  <2>2. DOMAIN w \subseteq DOMAIN new /\ \A p \in DOMAIN w : w[p] = new[p]
    BY <1>3
  <2>. HIDE DEF new
  <2>. QED
    BY <1>1, <1>3, <2>1, <2>2, WroteSome DEF Took
<1>. QED
  BY <1>2, <1>3 DEF Prune

LEMMA TookPublish ==
  ASSUME PublishProject
  PROVE  Took(<<"publish">>, Template)
<1>1. IsNext(<<"publish">>) /\ UNCHANGED <<kind, command>>
  BY DEF PublishProject
<1>2. CASE Put(Template) /\ steps' = Tail(steps)
  <2>1. /\ before' = before /\ snapshots' \in {snapshots, <<>>}
        /\ \A p \in Path : tree'[p] = IF p \in DOMAIN Template THEN Template[p] ELSE tree[p]
    BY <1>2, WithNew DEF Put
  <2>. QED
    BY <1>1, <1>2, <2>1 DEF Took
<1>3. ASSUME NEW w \in {Nothing, Template}, Interrupt(w) \/ Crash(w)
      PROVE  Took(<<"publish">>, Template)
  <2>1. status' # "working"
    BY <1>3 DEF Interrupt, Crash
  <2>2. DOMAIN w \subseteq DOMAIN Template /\ \A p \in DOMAIN w : w[p] = Template[p]
    BY <1>3, NothingOf
  <2>. QED
    BY <1>1, <1>3, <2>1, <2>2, WroteSome DEF Took
<1>4. CASE Fail
  <2>1. status' # "working" /\ UNCHANGED <<tree, snapshots, before>>
    BY <1>4 DEF Fail
  <2>. QED
    BY <1>1, <2>1 DEF Took
<1>. QED
  BY <1>2, <1>3, <1>4 DEF PublishProject

LEMMA TookKinds ==
  ASSUME SafetyInv, NEW step, NEW new, Took(step, new), status' = "working"
  PROVE  /\ status = "working" /\ steps' = Tail(steps)
         /\ Kinds(steps) = {step[1]} \union Kinds(steps')
         /\ Of(steps) = {step} \union Of(steps')
<1>1. status = "working" /\ steps # <<>> /\ Head(steps) = step /\ steps' = Tail(steps)
  BY DEF Took, IsNext
<1>2. \E S : steps \in Seq(S)
  BY <1>1 DEF SafetyInv, PlanInv, Plan
<1>3. Kinds(steps) = {step[1]} \union Kinds(Tail(steps))
  BY <1>1, <1>2, KindsOfTail
<1>. DEFINE t == Tail(steps)
<1>4. /\ Len(steps) \in Nat /\ Len(t) = Len(steps) - 1
      /\ \A i \in 1..Len(t) : t[i] = steps[i + 1] /\ i + 1 \in 1..Len(steps)
      /\ step = steps[1] /\ 1 \in 1..Len(steps)
  BY <1>1, <1>2, TailOf
<1>. HIDE DEF t
<1>5. \A i \in 1..Len(steps) : i = 1 \/ (i - 1 \in 1..Len(t) /\ t[i - 1] = steps[i])
  <2>. SUFFICES ASSUME NEW i \in 1..Len(steps), i # 1
                PROVE  i - 1 \in 1..Len(t) /\ t[i - 1] = steps[i]
    OBVIOUS
  <2>1. i - 1 \in 1..Len(t) /\ (i - 1) + 1 = i
    BY <1>4
  <2>. QED
    BY <1>4, <2>1
<1>6. Of(steps) = {step} \union Of(t)
  BY <1>4, <1>5 DEF Of
<1>. QED
  BY <1>1, <1>3, <1>6 DEF t

(* A content that is none is as good as any.                               *)
LEMMA FitsNone ==
  ASSUME NEW p, NEW grpc
  PROVE  Fits(p, Absent, grpc) /\ \A left \in Remains(p) : Fits(p, left, grpc)
BY RemainsOf, Places DEF Fits

LEMMA FitsElsewhere ==
  ASSUME NEW p, NEW content, NEW grpc, p \notin {Contract, LocalConfig, External}
  PROVE  Fits(p, content, grpc)
BY DEF Fits

LEMMA SameKind ==
  ASSUME kind' = kind
  PROVE  /\ ServesGRPC' = ServesGRPC /\ HasServer' = HasServer
         /\ HasGRPC' = HasGRPC /\ HasWeb' = HasWeb
BY DEF ServesGRPC, HasServer, HasGRPC, HasWeb

LEMMA ContentTook ==
  ASSUME ContentInv, NEW step, NEW new, Took(step, new),
         \A p \in Path \intersect DOMAIN new : Fits(p, new[p], ServesGRPC)
  PROVE  ContentInv'
<1>1. ServesGRPC' = ServesGRPC
  BY SameKind DEF Took
<1>2. ASSUME NEW p \in Path
      PROVE  Fits(p, tree'[p], ServesGRPC)
  <2>1. \/ tree'[p] = tree[p] \/ tree'[p] \in Remains(p)
        \/ p \in DOMAIN new /\ tree'[p] = new[p]
    BY DEF Took
  <2>. QED
    BY <2>1, FitsNone DEF ContentInv
<1>3. \A i \in 1..Len(snapshots') : \A p \in Path \intersect DOMAIN snapshots'[i] :
        Fits(p, snapshots'[i][p], ServesGRPC)
  <2>1. CASE snapshots' = snapshots
    BY <2>1 DEF ContentInv
  <2>2. CASE snapshots' = <<>>
    BY <2>2, EmptySeqOfFrames
  <2>. QED
    BY <2>1, <2>2 DEF Took
<1>. QED
  BY <1>1, <1>2, <1>3 DEF ContentInv

(* A step that has nothing to do with HTTP, protobuf or bindings changes   *)
(* nothing of what is said of them.                                        *)
HTTPFile == {Contract, Models, ApiGen, RoutesGen}

LEMMA HTTPKept ==
  ASSUME HTTPAhead,
         status' = "working" =>
           /\ status = "working" /\ kind' = kind /\ command'.name = command.name
           /\ \A p \in HTTPFile : tree'[p] = tree[p]
           /\ \A k \in HTTPKinds \union {"http"} : k \in Kinds(steps) <=> k \in Kinds(steps')
  PROVE  HTTPAhead'
<1>. SUFFICES ASSUME status' = "working"
              PROVE  HTTPAhead'
  BY DEF HTTPAhead
<1>1. status = "working" /\ command'.name = command.name /\ HasWeb' = HasWeb
  BY SameKind
<1>2. /\ tree'[Contract] = tree[Contract] /\ tree'[Models] = tree[Models]
      /\ tree'[ApiGen] = tree[ApiGen] /\ tree'[RoutesGen] = tree[RoutesGen]
  BY DEF HTTPFile
<1>3. \A k \in {"http", "api", "routes", "sync"} : k \in Kinds(steps) <=> k \in Kinds(steps')
  BY DEF HTTPKinds
<1>. QED
  BY <1>1, <1>2, <1>3 DEF HTTPAhead

LEMMA HTTPTook ==
  ASSUME SafetyInv, HTTPAhead, NEW step, NEW new, Took(step, new),
         step[1] \notin HTTPKinds \union {"http"}, DOMAIN new \intersect HTTPFile = {}
  PROVE  HTTPAhead'
<1>1. HTTPFile \subseteq Path
  BY PathAssumption DEF HTTPFile, ProjectPath, HttpPaths
<1>2. ASSUME status' = "working"
      PROVE  /\ status = "working" /\ kind' = kind /\ command'.name = command.name
             /\ \A p \in HTTPFile : tree'[p] = tree[p]
             /\ \A k \in HTTPKinds \union {"http"} : k \in Kinds(steps) <=> k \in Kinds(steps')
  BY <1>1, <1>2, TookKinds DEF Took
<1>. QED
  BY <1>2, HTTPKept

PbAhead == {"pb", "buf", "prune", "register", "rpc-stubs"}
ProtobufFile == Generated \union {RegisterGen} \union {Proto(f) : f \in ProtoFile}

LEMMA ProtobufFiles ==
  /\ ProtobufFile \subseteq Path /\ RegisterGen \in ProtobufFile
  /\ \A f \in ProtoFile :
       /\ Messages(f) \in ProtobufFile /\ Services(f) \in ProtobufFile /\ Proto(f) \in ProtobufFile
       /\ RpcStub(f) \in Path /\ RpcStub(f) \in ServiceFile
<1>1. \A f \in ProtoFile : RpcStub(f) \in Path
  BY PathAssumption DEF ProjectPath, RpcPaths
<1>2. \A f \in ProtoFile : RpcStub(f) \in ServiceFile
  BY <1>1, Places DEF ServiceFile
<1>3. \A f \in ProtoFile :
        Messages(f) \in ProtobufFile /\ Services(f) \in ProtobufFile /\ Proto(f) \in ProtobufFile
  BY DEF ProtobufFile, Generated
<1>4. Generated \union {RegisterGen} \subseteq Path
  BY PathAssumption DEF ProjectPath, RpcPaths
<1>5. {Proto(f) : f \in ProtoFile} \subseteq Path
  BY PathAssumption DEF ProjectPath, RpcPaths
<1>6. ProtobufFile \subseteq Path /\ RegisterGen \in ProtobufFile
  BY <1>4, <1>5 DEF ProtobufFile
<1>. QED
  BY <1>1, <1>2, <1>3, <1>6

LEMMA SameProtobuf ==
  ASSUME \A p \in ProtobufFile : tree'[p] = tree[p],
         \A f \in ProtoFile : tree[RpcStub(f)] # Absent => tree'[RpcStub(f)] # Absent
  PROVE  /\ \A f \in ProtoFile : (Compiled(f) => Compiled(f)') /\ (Pruned(f) => Pruned(f)')
         /\ Discovered' = Discovered /\ Implemented' = Implemented
         /\ Registered => Registered'
         /\ Stubbed => Stubbed'
         /\ HasContracts' = HasContracts
<1>1. \A f \in ProtoFile :
        /\ tree'[Messages(f)] = tree[Messages(f)] /\ tree'[Services(f)] = tree[Services(f)]
        /\ tree'[Proto(f)] = tree[Proto(f)]
  BY ProtobufFiles
<1>2. \A f \in ProtoFile : (Compiled(f) => Compiled(f)') /\ (Pruned(f) => Pruned(f)')
  BY <1>1 DEF Compiled, Pruned, Declares
<1>3. Discovered' = Discovered
  BY <1>1 DEF Discovered
<1>4. Implemented' = Implemented
  BY <1>1, <1>3 DEF Implemented, Discovered
<1>5. Registered => Registered'
  <2>1. [f \in Discovered |-> tree'[Services(f)]] = [f \in Discovered |-> tree[Services(f)]]
    BY <1>1 DEF Discovered
  <2>2. tree'[RegisterGen] = tree[RegisterGen]
    BY ProtobufFiles
  <2>. QED
    BY <1>3, <2>1, <2>2 DEF Registered
<1>6. Stubbed => Stubbed'
  BY <1>4 DEF Stubbed, Implemented, Discovered
<1>7. HasContracts' = HasContracts
  BY <1>1 DEF HasContracts
<1>. QED
  BY <1>2, <1>3, <1>4, <1>5, <1>6, <1>7

LEMMA ProtobufKept ==
  ASSUME ProtobufAhead,
         status' = "working" =>
           /\ status = "working" /\ kind' = kind /\ command'.name = command.name
           /\ \A p \in ProtobufFile : tree'[p] = tree[p]
           /\ \A f \in ProtoFile : tree[RpcStub(f)] # Absent => tree'[RpcStub(f)] # Absent
           /\ \A k \in PbAhead : k \in Kinds(steps) <=> k \in Kinds(steps')
  PROVE  ProtobufAhead'
<1>. SUFFICES ASSUME status' = "working", command'.name = "generate", HasGRPC'
              PROVE  ProtobufAhead'
  BY DEF ProtobufAhead
<1>1. status = "working" /\ command.name = "generate" /\ HasGRPC /\ HasServer' = HasServer
  BY SameKind
<1>2. \A k \in {"pb", "buf", "prune", "register", "rpc-stubs"} :
        k \in Kinds(steps) <=> k \in Kinds(steps')
  BY DEF PbAhead
<1>3. /\ \A f \in ProtoFile : (Compiled(f) => Compiled(f)') /\ (Pruned(f) => Pruned(f)')
      /\ (Registered => Registered') /\ (Stubbed => Stubbed') /\ HasContracts' = HasContracts
  BY SameProtobuf
<1>4. \A f \in ProtoFile : tree'[Proto(f)] = tree[Proto(f)]
  BY ProtobufFiles
<1>. QED
  BY <1>1, <1>2, <1>3, <1>4 DEF ProtobufAhead

LEMMA ProtobufTook ==
  ASSUME SafetyInv, ProtobufAhead, NEW step, NEW new, Took(step, new),
         step[1] \notin PbAhead, DOMAIN new \intersect ProtobufFile = {},
         \A f \in ProtoFile : RpcStub(f) \notin DOMAIN new
  PROVE  ProtobufAhead'
<1>1. ASSUME status' = "working"
      PROVE  /\ status = "working" /\ kind' = kind /\ command'.name = command.name
             /\ \A p \in ProtobufFile : tree'[p] = tree[p]
             /\ \A f \in ProtoFile : tree'[RpcStub(f)] = tree[RpcStub(f)]
             /\ \A k \in PbAhead : k \in Kinds(steps) <=> k \in Kinds(steps')
  BY <1>1, TookKinds, ProtobufFiles DEF Took
<1>. QED
  BY <1>1, ProtobufKept

LEMMA BindingFiles ==
  /\ BindingFile \subseteq Path
  /\ Manifest \in BindingFile /\ External \in BindingFile /\ ClientsGen \in BindingFile
  /\ LocalConfig \in BindingFile
  /\ \A h \in Handler : HandlerFile(h) \in BindingFile /\ HandlerFile(h) \in ServiceFile
  /\ \A h \in Handler, x \in Method : StubFile(h, x) \in BindingFile /\ StubFile(h, x) \in ServiceFile
<1>1. {Manifest, External, ClientsGen, LocalConfig} \subseteq Path
  BY PathAssumption DEF ProjectPath, RpcPaths
<1>2. \A h \in Handler : HandlerFile(h) \in Path
  BY PathAssumption DEF ProjectPath, RpcPaths
<1>3. \A h \in Handler, x \in Method : StubFile(h, x) \in Path
  BY PathAssumption DEF ProjectPath, RpcPaths
<1>4. BindingFile \subseteq Path
  BY <1>1, <1>2, <1>3 DEF BindingFile
<1>5. \A h \in Handler : HandlerFile(h) \in ServiceFile
  BY <1>2, Places DEF ServiceFile
<1>6. \A h \in Handler, x \in Method : StubFile(h, x) \in ServiceFile
  BY <1>3, Places DEF ServiceFile
<1>. QED
  BY <1>4, <1>5, <1>6 DEF BindingFile

(* Steps of other generators, for which no binding is ahead.               *)
LEMMA BindingsTook ==
  ASSUME SafetyInv, BindingsAhead, NEW step, NEW new, Took(step, new), UNCHANGED published,
         step[1] \notin BindingKinds \union {"rpc", "commit"}, DOMAIN new \intersect BindingFile = {}
  PROVE  BindingsAhead'
<1>. SUFFICES ASSUME status' = "working", HasServer'
              PROVE  BindingsAhead'
  BY DEF BindingsAhead
<1>1. /\ status = "working" /\ HasServer /\ before' = before /\ command'.name = command.name
      /\ ServesGRPC' = ServesGRPC
  BY TookKinds, SameKind DEF Took
<1>2. Kinds(steps) = {step[1]} \union Kinds(steps')
  BY TookKinds
<1>3. Untouched => Untouched'
  BY BindingFiles DEF Took, Untouched
<1>4. command.name \notin Binders
  <2>1. Takes(command.name, step[1])
    BY AtStep DEF Took
  <2>. QED
    BY <2>1 DEF Takes, Binders
<1>5. CASE command.name = "generate"
  <2>1. CASE "rpc" \in Kinds(steps)
    BY <1>1, <1>2, <1>3, <1>4, <1>5, <2>1 DEF BindingsAhead
  <2>2. CASE "rpc" \notin Kinds(steps)
    <3>1. Untouched /\ Unbinding(before, ServesGRPC) /\ Kinds(steps) \subseteq {"commit"}
      BY <1>1, <1>2, <1>5, <2>2 DEF BindingsAhead
    <3>. QED
      BY <1>2, <3>1
  <2>. QED
    BY <2>1, <2>2
<1>6. CASE command.name # "generate"
  BY <1>1, <1>3, <1>4, <1>6 DEF BindingsAhead
<1>. QED
  BY <1>5, <1>6

LEMMA RenderedKept ==
  ASSUME NEW t, NEW u, NEW m, NEW kinds, NEW left, NEW grpc, Rendered(t, m, kinds, grpc),
         \/ ("manifest" \in kinds => "manifest" \in left) /\ u[Manifest] = t[Manifest]
         \/ u[Manifest] # Torn /\ ManifestOf(u) = m,
         \/ ("external" \in kinds => "external" \in left) /\ u[External] = t[External]
         \/ u[External] = ServerCode(m),
         \/ ("clients" \in kinds => "clients" \in left) /\ u[ClientsGen] = t[ClientsGen]
         \/ u[ClientsGen] = ClientCode(m)
  PROVE  Rendered(u, m, left, grpc)
BY DEF Rendered, ManifestOf

LEMMA ServedKept ==
  ASSUME NEW t, NEW u, NEW m \in Manifests, NEW ahead, NEW left, Served(t, m, ahead),
         \A p \in BindingFile \intersect ServiceFile : t[p] \notin {Absent, Torn} => u[p] = t[p],
         \A s \in DOMAIN m.servers :
           /\ Reaches(ahead, "handler", s) => Reaches(left, "handler", s) \/ HasHandler(u, m, s)
           /\ Reaches(ahead, "stubs", s) => Reaches(left, "stubs", s) \/ HasStubs(u, m, s)
  PROVE  Served(u, m, left)
<1>1. ASSUME NEW s \in DOMAIN m.servers
      PROVE  /\ HasHandler(t, m, s) => HasHandler(u, m, s)
             /\ HasStubs(t, m, s) => HasStubs(u, m, s)
  <2>1. m.servers[s].handler \in Handler /\ m.servers[s].methods \in SUBSET Method
    BY OfManifests DEF ServerBinding
  <2>2. HandlerFile(m.servers[s].handler) \in BindingFile \intersect ServiceFile
    BY <2>1, BindingFiles
  <2>3. \A x \in m.servers[s].methods :
          StubFile(m.servers[s].handler, x) \in BindingFile \intersect ServiceFile
    BY <2>1, BindingFiles
  <2>. QED
    BY <2>2, <2>3 DEF HasHandler, HasStubs
<1>. QED
  BY <1>1 DEF Served

LEMMA ReachableKept ==
  ASSUME NEW t, NEW u, NEW m, NEW ahead, NEW left, Reachable(t, m, ahead),
         u[LocalConfig] = t[LocalConfig],
         \A c : /\ <<"add-config", c>> \in ahead => <<"add-config", c>> \in left
                /\ <<"remove-config", c>> \in left => <<"remove-config", c>> \in ahead
  PROVE  Reachable(u, m, left)
BY DEF Reachable

-------------------------------------------------------------------------------
(* The steps of the binding commands.                                      *)

(* What a step has to do for the bindings to be right when the last one    *)
(* has been taken.                                                         *)
LEMMA BindingsBuilt ==
  ASSUME SafetyInv, BindingsAhead, NEW step, IsNext(step), step[1] \in BindingKinds,
         UNCHANGED <<kind, published>>,
         status' = "working" =>
           /\ before' = before /\ command' = command
           /\ Kinds(steps') \subseteq Kinds(steps) \union {"handler", "stubs", "implement"}
           /\ Rendered(tree, command.manifest, Kinds(steps), ServesGRPC) =>
                Rendered(tree', command.manifest, Kinds(steps'), ServesGRPC)
           /\ Served(tree, command.manifest, Of(steps)) =>
                Served(tree', command.manifest, Of(steps'))
           /\ Reachable(tree, command.manifest, Of(steps)) =>
                Reachable(tree', command.manifest, Of(steps'))
           /\ step[1] \notin ConfigKinds => tree'[LocalConfig] = tree[LocalConfig]
  PROVE  BindingsAhead'
<1>. SUFFICES ASSUME status' = "working", HasServer'
              PROVE  BindingsAhead'
  BY DEF BindingsAhead
<1>1. /\ status = "working" /\ HasServer /\ ServesGRPC' = ServesGRPC
      /\ before' = before /\ command' = command
  BY SameKind DEF IsNext
<1>2. Plan(steps, command.name, Len(snapshots)) /\ steps # <<>> /\ Head(steps) = step
  BY <1>1 DEF IsNext, SafetyInv, PlanInv
<1>3. step[1] \in Kinds(steps) /\ Kinds(steps) \intersect Generators = {}
  BY <1>2, StubsFirst DEF Plan
<1>4. command.name \in Binders \union {"generate"}
  <2>1. Takes(command.name, step[1])
    BY AtStep
  <2>. QED
    BY <2>1 DEF Takes, Binders, BindingKinds, HTTPKinds, PbKinds
<1>5. "rpc" \notin Kinds(steps) /\ "rpc" \notin Kinds(steps') /\ step[1] # "commit"
  BY <1>3 DEF Generators, BindingKinds
<1>6. CASE command.name \in Binders
  <2>1. "generate" \notin Binders /\ "new" \notin Binders
    BY DEF Binders
  <2>. QED
    BY <1>1, <1>6, <2>1 DEF BindingsAhead
<1>7. CASE command.name = "generate"
  <2>1. "generate" \notin Binders
    BY DEF Binders
  <2>2. /\ before[Manifest] # Torn /\ tree[LocalConfig] = before[LocalConfig]
        /\ command.manifest = ResolvedBy(ManifestOf(before), published)
        /\ Rendered(tree, command.manifest, Kinds(steps), ServesGRPC)
        /\ Served(tree, command.manifest, Of(steps))
        /\ Kinds(steps) \subseteq (BindingKinds \ ConfigKinds) \union {"commit"}
    BY <1>1, <1>3, <1>5, <1>7 DEF BindingsAhead
  <2>3. Kinds(steps') \subseteq (BindingKinds \ ConfigKinds) \union {"commit"}
    BY <2>2 DEF BindingKinds, ConfigKinds
  <2>4. step[1] \notin ConfigKinds
    BY <1>3, <2>2 DEF ConfigKinds
  <2>. QED
    BY <1>1, <1>5, <1>7, <2>1, <2>2, <2>3, <2>4 DEF BindingsAhead
<1>. QED
  BY <1>4, <1>6, <1>7

(* A step of the list that writes none of the files the manifest is about. *)
LEMMA BindingStepAside ==
  ASSUME SafetyInv, BindingsAhead, NEW step, NEW new, Took(step, new), UNCHANGED published,
         command' = command,
         step[1] \in BindingKinds \ {"external", "clients", "manifest", "handler", "stubs",
                                     "implement", "add-config", "remove-config"},
         DOMAIN new \intersect BindingFile = {}
  PROVE  BindingsAhead'
<1>. DEFINE m == command.manifest
<1>1. IsNext(step) /\ kind' = kind /\ m \in Manifests
  BY AtStep DEF Took, GoodManifest
<1>2. ASSUME status' = "working"
      PROVE  /\ before' = before /\ Kinds(steps') \subseteq Kinds(steps)
             /\ \A p \in BindingFile : tree'[p] = tree[p]
             /\ \A k \in Kinds(steps) : k = step[1] \/ k \in Kinds(steps')
             /\ \A x \in Of(steps) : x = step \/ x \in Of(steps')
             /\ Of(steps') \subseteq Of(steps)
  BY <1>2, TookKinds, BindingFiles DEF Took
<1>3. ASSUME status' = "working"
      PROVE  /\ Rendered(tree, m, Kinds(steps), ServesGRPC) =>
               Rendered(tree', m, Kinds(steps'), ServesGRPC)
             /\ Served(tree, m, Of(steps)) => Served(tree', m, Of(steps'))
             /\ Reachable(tree, m, Of(steps)) => Reachable(tree', m, Of(steps'))
  <2>1. \A k \in {"manifest", "external", "clients"} : k \in Kinds(steps) => k \in Kinds(steps')
    BY <1>2, <1>3
  <2>2. Rendered(tree, m, Kinds(steps), ServesGRPC) => Rendered(tree', m, Kinds(steps'), ServesGRPC)
    BY <1>2, <1>3, <2>1, BindingFiles, RenderedKept
  <2>3. \A k \in {"handler", "stubs"} : \A s : Reaches(Of(steps), k, s) => Reaches(Of(steps'), k, s)
    <3>1. \A k \in {"handler", "stubs"} : \A s : <<k, s>> # step
      <4>1. \A k \in {"handler", "stubs"} : \A s : <<k, s>>[1] = k
        OBVIOUS
      <4>. QED
        BY <4>1
    <3>. QED
      BY <1>2, <1>3, <3>1 DEF Reaches
  <2>4. Served(tree, m, Of(steps)) => Served(tree', m, Of(steps'))
    <3>1. \A p \in BindingFile \intersect ServiceFile : tree'[p] = tree[p]
      BY <1>2, <1>3
    <3>2. \A s : /\ Reaches(Of(steps), "handler", s) => Reaches(Of(steps'), "handler", s)
                 /\ Reaches(Of(steps), "stubs", s) => Reaches(Of(steps'), "stubs", s)
      BY <2>3
    <3>. QED
      BY ONLY <1>1, <3>1, <3>2, ServedKept
  <2>5. \A c : <<"add-config", c>> # step
    <3>1. \A c : <<"add-config", c>>[1] = "add-config"
      OBVIOUS
    <3>. QED
      BY <3>1
  <2>6. Reachable(tree, m, Of(steps)) => Reachable(tree', m, Of(steps'))
    BY <1>2, <1>3, <2>5, BindingFiles, ReachableKept
  <2>. QED
    BY <2>2, <2>4, <2>6
<1>. QED
  BY <1>1, <1>2, <1>3, BindingFiles, BindingsBuilt

(* What a list of steps has ahead when one of them has been taken.         *)
LEMMA BindingsAheadOf ==
  ASSUME SafetyInv, NEW step, NEW new, Took(step, new), status' = "working"
  PROVE  /\ before' = before /\ Kinds(steps') \subseteq Kinds(steps)
         /\ \A p \in BindingFile : tree'[p] = IF p \in DOMAIN new THEN new[p] ELSE tree[p]
         /\ \A k \in Kinds(steps) : k = step[1] \/ k \in Kinds(steps')
         /\ \A x \in Of(steps) : x = step \/ x \in Of(steps')
         /\ Of(steps') \subseteq Of(steps)
         /\ step[1] # "implement" =>
              \A k : step[1] # k => \A s : Reaches(Of(steps), k, s) => Reaches(Of(steps'), k, s)
<1>1. /\ before' = before /\ Kinds(steps') \subseteq Kinds(steps)
      /\ \A p \in BindingFile : tree'[p] = IF p \in DOMAIN new THEN new[p] ELSE tree[p]
      /\ \A k \in Kinds(steps) : k = step[1] \/ k \in Kinds(steps')
      /\ \A x \in Of(steps) : x = step \/ x \in Of(steps')
      /\ Of(steps') \subseteq Of(steps)
  BY TookKinds, BindingFiles DEF Took
<1>2. ASSUME step[1] # "implement", NEW k, step[1] # k, NEW s, Reaches(Of(steps), k, s)
      PROVE  Reaches(Of(steps'), k, s)
  <2>1. <<k, s>> # step
    <3>1. <<k, s>>[1] = k
      OBVIOUS
    <3>. QED
      BY <1>2, <3>1
  <2>. QED
    BY <1>1, <1>2, <2>1 DEF Reaches
<1>. QED
  BY <1>1, <1>2

LEMMA BindingStepRenders ==
  ASSUME SafetyInv, BindingsAhead, NEW step, NEW file, NEW content, Took(step, At(file, content)),
         UNCHANGED published, command' = command,
         \/ step[1] = "external" /\ file = External /\ content = ServerCode(command.manifest)
         \/ step[1] = "clients" /\ file = ClientsGen /\ content = ClientCode(command.manifest)
         \/ step[1] = "manifest" /\ file = Manifest /\ content = command.manifest
  PROVE  BindingsAhead'
<1>. DEFINE m == command.manifest
<1>1. IsNext(step) /\ kind' = kind /\ m \in Manifests /\ step[1] \in BindingKinds
  BY AtStep DEF Took, GoodManifest, BindingKinds
<1>2. DOMAIN At(file, content) = {file} /\ At(file, content)[file] = content
  BY AtOf
<1>. DEFINE new == At(file, content)
<1>. HIDE DEF new
<1>5. file \notin ServiceFile /\ file # LocalConfig
  BY Places DEF ServiceFile
<1>3. ASSUME status' = "working"
      PROVE  /\ Rendered(tree, m, Kinds(steps), ServesGRPC) =>
               Rendered(tree', m, Kinds(steps'), ServesGRPC)
             /\ Served(tree, m, Of(steps)) => Served(tree', m, Of(steps'))
             /\ Reachable(tree, m, Of(steps)) => Reachable(tree', m, Of(steps'))
             /\ tree'[LocalConfig] = tree[LocalConfig]
  <2>1. /\ \A p \in BindingFile : tree'[p] = IF p = file THEN content ELSE tree[p]
        /\ \A k \in Kinds(steps) : k = step[1] \/ k \in Kinds(steps')
        /\ \A x \in Of(steps) : x = step \/ x \in Of(steps')
        /\ Of(steps') \subseteq Of(steps)
        /\ \A k : step[1] # k => \A s : Reaches(Of(steps), k, s) => Reaches(Of(steps'), k, s)
    BY <1>2, <1>3, BindingsAheadOf DEF new
  <2>2. m # Absent /\ m # Torn
    BY <1>1, ContentAssumption
  <2>3. Manifest # External /\ Manifest # ClientsGen /\ External # ClientsGen
    BY Places
  <2>4. Rendered(tree, m, Kinds(steps), ServesGRPC) => Rendered(tree', m, Kinds(steps'), ServesGRPC)
    <3>1. CASE step[1] = "external"
      <4>1. tree'[External] = ServerCode(m) /\ \A p \in {Manifest, ClientsGen} : tree'[p] = tree[p]
        BY <2>1, <2>3, <3>1, BindingFiles
      <4>2. \A k \in {"manifest", "clients"} : k \in Kinds(steps) => k \in Kinds(steps')
        BY <2>1, <3>1
      <4>. QED
        BY <4>1, <4>2, RenderedKept
    <3>2. CASE step[1] = "clients"
      <4>1. tree'[ClientsGen] = ClientCode(m) /\ \A p \in {Manifest, External} : tree'[p] = tree[p]
        BY <2>1, <2>3, <3>2, BindingFiles
      <4>2. \A k \in {"manifest", "external"} : k \in Kinds(steps) => k \in Kinds(steps')
        BY <2>1, <3>2
      <4>. QED
        BY <4>1, <4>2, RenderedKept
    <3>3. CASE step[1] = "manifest"
      <4>1. tree'[Manifest] = m /\ \A p \in {ClientsGen, External} : tree'[p] = tree[p]
        BY <2>1, <2>3, <3>3, BindingFiles
      <4>2. \A k \in {"clients", "external"} : k \in Kinds(steps) => k \in Kinds(steps')
        BY <2>1, <3>3
      <4>3. tree'[Manifest] # Torn /\ ManifestOf(tree') = m
        BY <2>2, <4>1 DEF ManifestOf
      <4>. QED
        BY <4>1, <4>2, <4>3, RenderedKept
    <3>. QED
      BY <3>1, <3>2, <3>3
  <2>5. Served(tree, m, Of(steps)) => Served(tree', m, Of(steps'))
    <3>1. \A p \in BindingFile \intersect ServiceFile : tree'[p] = tree[p]
      BY <1>5, <2>1
    <3>2. \A s : /\ Reaches(Of(steps), "handler", s) => Reaches(Of(steps'), "handler", s)
                 /\ Reaches(Of(steps), "stubs", s) => Reaches(Of(steps'), "stubs", s)
      BY <2>1
    <3>. QED
      BY ONLY <1>1, <3>1, <3>2, ServedKept
  <2>6. tree'[LocalConfig] = tree[LocalConfig]
    BY <1>5, <2>1, BindingFiles
  <2>7. Reachable(tree, m, Of(steps)) => Reachable(tree', m, Of(steps'))
    <3>1. \A c : <<"add-config", c>> # step
      <4>1. \A c : <<"add-config", c>>[1] = "add-config"
        OBVIOUS
      <4>. QED
        BY <4>1
    <3>. QED
      BY <2>1, <2>6, <3>1, ReachableKept
  <2>. QED
    BY <2>4, <2>5, <2>6, <2>7
<1>4. ASSUME status' = "working"
      PROVE  before' = before /\ Kinds(steps') \subseteq Kinds(steps)
  BY <1>4, BindingsAheadOf
<1>. QED
  BY <1>1, <1>3, <1>4, BindingsBuilt

(* A step that adds files to the service package, for one service.         *)
LEMMA BindingStepImplements ==
  ASSUME SafetyInv, BindingsAhead, NEW k \in {"handler", "stubs"}, NEW s, NEW new,
         Took(<<k, s>>, new), UNCHANGED published, command' = command,
         \A p \in Path \intersect DOMAIN new : p \in ServiceFile /\ tree[p] = Absent,
         status' = "working" /\ s \in DOMAIN command.manifest.servers =>
           /\ k = "handler" => HasHandler(tree', command.manifest, s)
           /\ k = "stubs" => HasStubs(tree', command.manifest, s)
  PROVE  BindingsAhead'
<1>. DEFINE m    == command.manifest
            step == <<k, s>>
<1>1. step[1] = k /\ step[1] \in BindingKinds /\ step[1] \notin {"implement"} \union ConfigKinds
  BY DEF BindingKinds, ConfigKinds
<1>. HIDE DEF step
<1>2. IsNext(step) /\ kind' = kind /\ m \in Manifests
  BY <1>1, AtStep DEF Took, GoodManifest, step
<1>3. ASSUME status' = "working"
      PROVE  /\ Rendered(tree, m, Kinds(steps), ServesGRPC) =>
               Rendered(tree', m, Kinds(steps'), ServesGRPC)
             /\ Served(tree, m, Of(steps)) => Served(tree', m, Of(steps'))
             /\ Reachable(tree, m, Of(steps)) => Reachable(tree', m, Of(steps'))
             /\ tree'[LocalConfig] = tree[LocalConfig]
             /\ before' = before /\ Kinds(steps') \subseteq Kinds(steps)
  <2>1. /\ before' = before /\ Kinds(steps') \subseteq Kinds(steps)
        /\ \A p \in BindingFile : tree'[p] = IF p \in DOMAIN new THEN new[p] ELSE tree[p]
        /\ \A l \in Kinds(steps) : l = k \/ l \in Kinds(steps')
        /\ \A x \in Of(steps) : x = step \/ x \in Of(steps')
        /\ Of(steps') \subseteq Of(steps)
        /\ \A l : k # l => \A r : Reaches(Of(steps), l, r) => Reaches(Of(steps'), l, r)
    BY <1>1, <1>3, BindingsAheadOf DEF step
  <2>2. \A p \in {Manifest, External, ClientsGen, LocalConfig} : tree'[p] = tree[p]
    <3>1. \A p \in {Manifest, External, ClientsGen, LocalConfig} : p \in BindingFile /\ p \notin ServiceFile
      BY BindingFiles, Places DEF ServiceFile
    <3>. QED
      BY <2>1, <3>1, BindingFiles
  <2>3. Rendered(tree, m, Kinds(steps), ServesGRPC) => Rendered(tree', m, Kinds(steps'), ServesGRPC)
    <3>1. \A l \in {"manifest", "external", "clients"} : l \in Kinds(steps) => l \in Kinds(steps')
      BY <2>1
    <3>. QED
      BY <2>2, <3>1, RenderedKept
  <2>4. Served(tree, m, Of(steps)) => Served(tree', m, Of(steps'))
    <3>1. \A p \in BindingFile \intersect ServiceFile : tree[p] \notin {Absent, Torn} => tree'[p] = tree[p]
      BY <2>1, BindingFiles
    <3>2. ASSUME NEW r \in DOMAIN m.servers
          PROVE  /\ Reaches(Of(steps), "handler", r) =>
                      Reaches(Of(steps'), "handler", r) \/ HasHandler(tree', m, r)
                 /\ Reaches(Of(steps), "stubs", r) =>
                      Reaches(Of(steps'), "stubs", r) \/ HasStubs(tree', m, r)
      <4>1. CASE r = s
        BY <1>3, <2>1, <4>1
      <4>2. CASE r # s
        <5>1. \A l : <<l, r>> # step
          BY <4>2 DEF step
        <5>. QED
          BY <1>1, <2>1, <5>1 DEF Reaches
      <4>. QED
        BY <4>1, <4>2
    <3>. QED
      BY ONLY <1>2, <3>1, <3>2, ServedKept
  <2>5. Reachable(tree, m, Of(steps)) => Reachable(tree', m, Of(steps'))
    <3>1. \A c : <<"add-config", c>> # step
      <4>1. \A c : <<"add-config", c>>[1] = "add-config"
        OBVIOUS
      <4>. QED
        BY <1>1, <4>1
    <3>. QED
      BY <2>1, <2>2, <3>1, ReachableKept
  <2>. QED
    BY <2>1, <2>2, <2>3, <2>4, <2>5
<1>. QED
  BY <1>1, <1>2, <1>3, BindingsBuilt

(* What the steps of the binding commands write is nothing of the others.  *)
BindingPlaces == {"go.mod", "go.sum", "rpc.json", "local.yaml", "external.gen.go",
                  "clients.gen.go", "handler", "stub"}

LEMMA BindingWrites ==
  ASSUME SafetyInv, ProgressInv, NEW step, NEW new, Took(step, new), step[1] \in BindingKinds,
         \A p \in DOMAIN new : p[1] \in BindingPlaces,
         \A p \in Path \intersect DOMAIN new : Fits(p, new[p], ServesGRPC)
  PROVE  ContentInv' /\ HTTPAhead' /\ ProtobufAhead'
<1>1. step[1] \notin HTTPKinds \union {"http"} \union PbAhead
  BY DEF BindingKinds, HTTPKinds, PbAhead
<1>2. \A p \in HTTPFile : p[1] \in {"openapi.yaml", "models", "api.gen.go", "routes.gen.go"}
  <2>1. Models[1] = "models"
    BY DEF Models
  <2>. QED
    BY <2>1, Places DEF HTTPFile
<1>3. \A p \in ProtobufFile : p[1] \in {"pb.go", "grpc.pb.go", "register.gen.go", "proto"}
  BY Places DEF ProtobufFile
<1>4. \A f \in ProtoFile : RpcStub(f)[1] = "rpc-stub"
  BY Places
<1>5. /\ DOMAIN new \intersect HTTPFile = {} /\ DOMAIN new \intersect ProtobufFile = {}
      /\ \A f \in ProtoFile : RpcStub(f) \notin DOMAIN new
  BY <1>2, <1>3, <1>4 DEF BindingPlaces
<1>6. ContentInv /\ HTTPAhead /\ ProtobufAhead
  BY DEF ProgressInv
<1>. QED
  BY <1>1, <1>5, <1>6, ContentTook, HTTPTook, ProtobufTook

(* One file, or none.                                                      *)
LEMMA MaybeAt ==
  ASSUME NEW p, NEW c, NEW new \in {Nothing, At(p, c)}
  PROVE  DOMAIN new \subseteq {p} /\ new = [q \in DOMAIN new |-> new[q]]
<1>1. CASE new = Nothing
  <2>1. DOMAIN Nothing \subseteq {p} /\ Nothing = [q \in DOMAIN Nothing |-> Nothing[q]]
    BY NothingOf
  <2>. QED
    BY ONLY <1>1, <2>1, Zenon
<1>2. CASE new = At(p, c)
  <2>1. DOMAIN At(p, c) \subseteq {p} /\ At(p, c) = [q \in DOMAIN At(p, c) |-> At(p, c)[q]]
    BY AtOf
  <2>. QED
    BY ONLY <1>2, <2>1, Zenon
<1>. QED
  BY <1>1, <1>2

LEMMA RequireProgress ==
  ASSUME SafetyInv, ProgressInv, NEW ss, AddRequirement(ss), UNCHANGED published
  PROVE  ProgressInv'
<1>. DEFINE step == <<"require", ss>>
            new  == IF ss \intersect Versioned = {} THEN Nothing
                    ELSE At(GoMod, tree[GoMod] \union (ss \intersect Versioned))
<1>1. PICK possible : Do(step, possible, new, TRUE)
  BY DEF AddRequirement
<1>2. step[1] = "require"
  OBVIOUS
<1>. HIDE DEF step
<1>3. DOMAIN new \subseteq {GoMod} /\ new = [p \in DOMAIN new |-> new[p]]
  <2>. DEFINE c == tree[GoMod] \union (ss \intersect Versioned)
  <2>1. new \in {Nothing, At(GoMod, c)}
    OBVIOUS
  <2>. HIDE DEF new, c
  <2>. QED
    BY ONLY <2>1, MaybeAt
<1>. HIDE DEF new
<1>4. Took(step, new) /\ command' = command
  BY <1>1, <1>3, TookDo
<1>5. \A p \in DOMAIN new : p[1] = "go.mod"
  BY <1>3, Places
<1>6. /\ step[1] \in BindingKinds
      /\ step[1] \notin {"external", "clients", "manifest", "handler", "stubs", "implement",
                         "add-config", "remove-config"}
  BY <1>2 DEF BindingKinds
<1>7. \A p \in BindingFile : p[1] # "go.mod"
  BY Places DEF BindingFile
<1>8. ContentInv' /\ HTTPAhead' /\ ProtobufAhead'
  <2>1. \A p \in DOMAIN new : p \notin {Contract, LocalConfig, External}
    BY <1>5, Places
  <2>2. \A p \in DOMAIN new : p[1] \in BindingPlaces
    BY <1>5 DEF BindingPlaces
  <2>. QED
    BY <1>4, <1>6, <2>1, <2>2, FitsElsewhere, BindingWrites
<1>9. BindingsAhead'
  BY <1>4, <1>5, <1>6, <1>7, BindingStepAside DEF ProgressInv
<1>. QED
  BY <1>8, <1>9 DEF ProgressInv

LEMMA TidyProgress ==
  ASSUME SafetyInv, ProgressInv, Tidy, UNCHANGED published
  PROVE  ProgressInv'
<1>. DEFINE step == <<"tidy">>
            all  == [p \in ModuleFiles |-> Imported \intersect Versioned]
<1>1. Do(step, Readable(GoMod), all, TRUE) \/ MayFail(step)
  BY DEF Tidy
<1>2. step[1] = "tidy"
  OBVIOUS
<1>. HIDE DEF step
<1>3. PICK new : /\ Took(step, new) /\ command' = command
                 /\ DOMAIN new \subseteq ModuleFiles
  <2>1. DOMAIN all = ModuleFiles /\ all = [p \in DOMAIN all |-> all[p]]
    OBVIOUS
  <2>. HIDE DEF all
  <2>2. CASE Do(step, Readable(GoMod), all, TRUE)
    BY <2>1, <2>2, TookDo
  <2>3. CASE MayFail(step)
    BY <2>3, TookFail, NothingOf DEF MayFail
  <2>. QED
    BY <1>1, <2>2, <2>3
<1>5. \A p \in DOMAIN new : p[1] \in {"go.mod", "go.sum"}
  BY <1>3, Places DEF ModuleFiles
<1>6. /\ step[1] \in BindingKinds
      /\ step[1] \notin {"external", "clients", "manifest", "handler", "stubs", "implement",
                         "add-config", "remove-config"}
  BY <1>2 DEF BindingKinds
<1>7. \A p \in BindingFile : p[1] \notin {"go.mod", "go.sum"}
  BY Places DEF BindingFile
<1>8. ContentInv' /\ HTTPAhead' /\ ProtobufAhead'
  <2>1. \A p \in DOMAIN new : p \notin {Contract, LocalConfig, External}
    BY <1>5, Places
  <2>2. \A p \in DOMAIN new : p[1] \in BindingPlaces
    BY <1>5 DEF BindingPlaces
  <2>. QED
    BY <1>3, <1>6, <2>1, <2>2, FitsElsewhere, BindingWrites
<1>9. BindingsAhead'
  BY <1>3, <1>5, <1>6, <1>7, BindingStepAside DEF ProgressInv
<1>. QED
  BY <1>8, <1>9 DEF ProgressInv

LEMMA CompileProgress ==
  ASSUME SafetyInv, ProgressInv, Compile, UNCHANGED published
  PROVE  ProgressInv'
<1>. DEFINE step == <<"compile">>
<1>1. Do(step, TRUE, Nothing, FALSE) \/ MayFail(step)
  BY DEF Compile
<1>2. step[1] = "compile"
  OBVIOUS
<1>. HIDE DEF step
<1>3. Took(step, Nothing) /\ command' = command /\ DOMAIN Nothing = {}
  BY <1>1, NothingOf, TookDo, TookFail DEF MayFail
<1>4. /\ step[1] \in BindingKinds
      /\ step[1] \notin {"external", "clients", "manifest", "handler", "stubs", "implement",
                         "add-config", "remove-config"}
  BY <1>2 DEF BindingKinds
<1>5. ContentInv' /\ HTTPAhead' /\ ProtobufAhead'
  BY <1>3, <1>4, BindingWrites
<1>6. BindingsAhead'
  BY <1>3, <1>4, BindingStepAside DEF ProgressInv
<1>. QED
  BY <1>5, <1>6 DEF ProgressInv

LEMMA RenderProgress ==
  ASSUME SafetyInv, ProgressInv, UNCHANGED published, NEW step, NEW possible, NEW file, NEW content,
         Do(step, possible, At(file, content), TRUE),
         \/ step[1] = "external" /\ file = External /\ content = ServerCode(command.manifest)
         \/ step[1] = "clients" /\ file = ClientsGen /\ content = ClientCode(command.manifest)
         \/ step[1] = "manifest" /\ file = Manifest /\ content = command.manifest
  PROVE  ProgressInv'
<1>. DEFINE new == At(file, content)
<1>1. DOMAIN new = {file} /\ new[file] = content /\ new = [p \in DOMAIN new |-> new[p]]
  BY AtOf
<1>. HIDE DEF new
<1>2. Took(step, new) /\ command' = command /\ IsNext(step)
  BY <1>1, TookDo DEF new, Took
<1>3. step[1] \in BindingKinds /\ GoodManifest(command.manifest, ServesGRPC)
  BY <1>2, AtStep DEF BindingKinds
<1>4. Fits(file, content, ServesGRPC)
  <2>1. CASE file = External
    <3>1. content = command.manifest.servers
      BY <2>1, Places DEF ServerCode
    <3>2. External # Contract /\ External # LocalConfig
      BY Places
    <3>. QED
      BY <1>3, <2>1, <3>1, <3>2 DEF Fits, GoodManifest
  <2>2. CASE file # External
    BY <2>2, Places, FitsElsewhere
  <2>. QED
    BY <2>1, <2>2
<1>5. ContentInv' /\ HTTPAhead' /\ ProtobufAhead'
  <2>1. file[1] \in BindingPlaces
    BY Places DEF BindingPlaces
  <2>. QED
    BY <1>1, <1>2, <1>3, <1>4, <2>1, BindingWrites
<1>6. BindingsAhead'
  BY <1>2, BindingStepRenders DEF ProgressInv, new
<1>. QED
  BY <1>5, <1>6 DEF ProgressInv

(* Where the command stops, only contents are left to be right.            *)
LEMMA StoppedProgress ==
  ASSUME ContentInv', status' # "working"
  PROVE  ProgressInv'
BY DEF ProgressInv, HTTPAhead, ProtobufAhead, BindingsAhead

LEMMA FailProgress ==
  ASSUME ProgressInv, NEW step, Took(step, Nothing), status' # "working"
  PROVE  ProgressInv'
<1>1. ContentInv'
  BY NothingOf, ContentTook DEF ProgressInv
<1>. QED
  BY <1>1, StoppedProgress

LEMMA MayFailProgress ==
  ASSUME ProgressInv, NEW step, MayFail(step)
  PROVE  ProgressInv'
BY TookFail, FailProgress

LEMMA ConfigTook ==
  ASSUME SafetyInv, ProgressInv, UNCHANGED published, NEW c \in Client, NEW k \in ConfigKinds,
         NEW content, Took(<<k, c>>, At(LocalConfig, content)), command' = command,
         Readable(LocalConfig),
         k = "add-config" => content = tree[LocalConfig] \union {c},
         k = "remove-config" => content = tree[LocalConfig] \ {c}
  PROVE  ProgressInv'
<1>. DEFINE m    == command.manifest
            step == <<k, c>>
            new  == At(LocalConfig, content)
<1>1. step[1] = k /\ \A l : \A d : <<l, d>> = step <=> l = k /\ d = c
  OBVIOUS
<1>2. DOMAIN new = {LocalConfig} /\ new[LocalConfig] = content
  BY AtOf
<1>. HIDE DEF step, new
<1>3. /\ Took(step, new) /\ IsNext(step) /\ kind' = kind
      /\ k \in BindingKinds /\ k \notin {"manifest", "external", "clients", "implement", "handler", "stubs"}
  BY DEF step, new, Took, ConfigKinds, BindingKinds
<1>4. m \in Manifests /\ DOMAIN m.clients \subseteq Client
  BY <1>1, <1>3, AtStep, OfManifests DEF GoodManifest
<1>5. content \in SUBSET Client
  <2>1. LocalConfig \in Path
    BY BindingFiles
  <2>2. Fits(LocalConfig, tree[LocalConfig], ServesGRPC)
    BY <2>1 DEF ProgressInv, ContentInv
  <2>3. tree[LocalConfig] \in SUBSET Client
    BY <2>2 DEF Fits, Readable
  <2>. QED
    BY <2>3 DEF ConfigKinds
<1>6. content # Torn
  BY <1>5, ContentAssumption
<1>7. ContentInv' /\ HTTPAhead' /\ ProtobufAhead'
  <2>1. LocalConfig[1] \in BindingPlaces /\ LocalConfig \notin {Contract, External}
    BY Places DEF BindingPlaces
  <2>2. Fits(LocalConfig, content, ServesGRPC)
    BY <1>5, <2>1 DEF Fits
  <2>. QED
    BY <1>1, <1>2, <1>3, <2>1, <2>2, BindingWrites
<1>8. ASSUME status' = "working"
      PROVE  /\ before' = before /\ Kinds(steps') \subseteq Kinds(steps)
             /\ \A p \in BindingFile : tree'[p] = IF p = LocalConfig THEN content ELSE tree[p]
             /\ \A l \in Kinds(steps) : l = k \/ l \in Kinds(steps')
             /\ \A x \in Of(steps) : x = step \/ x \in Of(steps')
             /\ Of(steps') \subseteq Of(steps)
             /\ \A l : k # l => \A s : Reaches(Of(steps), l, s) => Reaches(Of(steps'), l, s)
             /\ step \in Of(steps)
  <2>1. step \in Of(steps)
    BY <1>3, <1>8, TookKinds
  <2>. QED
    BY <1>1, <1>2, <1>3, <1>8, <2>1, BindingsAheadOf
<1>9. ASSUME status' = "working"
      PROVE  /\ Rendered(tree, m, Kinds(steps), ServesGRPC) =>
               Rendered(tree', m, Kinds(steps'), ServesGRPC)
             /\ Served(tree, m, Of(steps)) => Served(tree', m, Of(steps'))
             /\ Reachable(tree, m, Of(steps)) => Reachable(tree', m, Of(steps'))
  <2>1. \A p \in {Manifest, External, ClientsGen} : tree'[p] = tree[p]
    BY <1>8, <1>9, BindingFiles, Places
  <2>2. \A l \in {"manifest", "external", "clients"} : l \in Kinds(steps) => l \in Kinds(steps')
    BY <1>3, <1>8, <1>9
  <2>3. Rendered(tree, m, Kinds(steps), ServesGRPC) => Rendered(tree', m, Kinds(steps'), ServesGRPC)
    BY <2>1, <2>2, RenderedKept
  <2>4. Served(tree, m, Of(steps)) => Served(tree', m, Of(steps'))
    <3>1. \A p \in BindingFile \intersect ServiceFile : tree'[p] = tree[p]
      BY <1>8, <1>9, Places DEF ServiceFile
    <3>2. \A s : /\ Reaches(Of(steps), "handler", s) => Reaches(Of(steps'), "handler", s)
                 /\ Reaches(Of(steps), "stubs", s) => Reaches(Of(steps'), "stubs", s)
      BY <1>3, <1>8, <1>9
    <3>. QED
      BY ONLY <1>4, <3>1, <3>2, ServedKept
  <2>5. Reachable(tree, m, Of(steps)) => Reachable(tree', m, Of(steps'))
    <3>. SUFFICES ASSUME Reachable(tree, m, Of(steps))
                  PROVE  Reachable(tree', m, Of(steps'))
      OBVIOUS
    <3>1. tree'[LocalConfig] = content
      BY <1>8, <1>9, BindingFiles
    <3>2. \A d : <<"remove-config", d>> \in Of(steps') => d \notin DOMAIN m.clients
      BY <1>8, <1>9 DEF Reachable
    <3>3. ASSUME NEW d \in DOMAIN m.clients
          PROVE  <<"add-config", d>> \in Of(steps') \/ d \in content
      <4>1. k = "remove-config" => d # c
        BY <1>1, <1>8, <1>9 DEF Reachable
      <4>2. CASE <<"add-config", d>> \in Of(steps)
        BY <1>1, <1>8, <1>9, <4>2
      <4>3. CASE d \in tree[LocalConfig]
        BY <4>1, <4>3 DEF ConfigKinds
      <4>. QED
        BY <4>2, <4>3 DEF Reachable
    <3>. QED
      BY <1>6, <3>1, <3>2, <3>3 DEF Reachable
  <2>. QED
    BY <2>3, <2>4, <2>5
<1>10. BindingsAhead'
  BY <1>1, <1>3, <1>8, <1>9, BindingsBuilt DEF ProgressInv
<1>. QED
  BY <1>7, <1>10 DEF ProgressInv

LEMMA ConfigProgress ==
  ASSUME SafetyInv, ProgressInv, UNCHANGED published, NEW c \in Client,
         AddClientConfig(c) \/ RemoveClientConfig(c)
  PROVE  ProgressInv'
<1>1. ASSUME NEW k \in ConfigKinds, NEW possible, NEW content,
             Do(<<k, c>>, possible, At(LocalConfig, content), TRUE),
             possible => Readable(LocalConfig),
             k = "add-config" => content = tree[LocalConfig] \union {c},
             k = "remove-config" => content = tree[LocalConfig] \ {c}
      PROVE  ProgressInv'
  <2>1. CASE possible
    <3>. DEFINE new == At(LocalConfig, content)
    <3>1. new = [p \in DOMAIN new |-> new[p]]
      BY AtOf
    <3>2. Took(<<k, c>>, new) /\ command' = command
      <4>. HIDE DEF new
      <4>1. Do(<<k, c>>, possible, new, TRUE)
        BY <1>1 DEF new
      <4>. QED
        BY <3>1, <4>1, TookDo
    <3>. QED
      BY <1>1, <2>1, <3>2, ConfigTook
  <2>2. CASE ~possible
    <3>. DEFINE step == <<k, c>>
                new  == At(LocalConfig, content)
    <3>1. Do(step, possible, new, TRUE)
      BY <1>1
    <3>. HIDE DEF step, new
    <3>2. Took(step, Nothing) /\ status' # "working"
      BY <2>2, <3>1 DEF Do, Fail, Took
    <3>. QED
      BY <3>2, FailProgress
  <2>. QED
    BY <2>1, <2>2
<1>2. CASE AddClientConfig(c)
  <2>. DEFINE possible == Readable(LocalConfig) /\ c \notin tree[LocalConfig]
              content  == tree[LocalConfig] \union {c}
  <2>1. Do(<<"add-config", c>>, possible, At(LocalConfig, content), TRUE)
    BY <1>2 DEF AddClientConfig
  <2>2. "add-config" \in ConfigKinds /\ (possible => Readable(LocalConfig))
        /\ content = tree[LocalConfig] \union {c}
    BY DEF ConfigKinds
  <2>. HIDE DEF possible, content
  <2>. QED
    BY <1>1, <2>1, <2>2
<1>3. CASE RemoveClientConfig(c)
  <2>. DEFINE possible == Readable(LocalConfig)
              content  == tree[LocalConfig] \ {c}
  <2>1. Do(<<"remove-config", c>>, possible, At(LocalConfig, content), TRUE)
    BY <1>3 DEF RemoveClientConfig
  <2>2. "remove-config" \in ConfigKinds /\ (possible => Readable(LocalConfig))
        /\ content = tree[LocalConfig] \ {c}
    BY DEF ConfigKinds
  <2>. HIDE DEF possible, content
  <2>. QED
    BY <1>1, <2>1, <2>2
<1>. QED
  BY <1>2, <1>3

LEMMA HandlerProgress ==
  ASSUME SafetyInv, ProgressInv, UNCHANGED published, NEW s, CreateServerHandler(s)
  PROVE  ProgressInv'
<1>. DEFINE m    == command.manifest
            file == HandlerFile(m.servers[s].handler)
            step == <<"handler", s>>
            new  == IF tree[file] = Absent THEN At(file, "template") ELSE Nothing
<1>1. Do(step, Parses, new, TRUE) /\ step[1] = "handler"
  BY DEF CreateServerHandler
<1>2. /\ new = [p \in DOMAIN new |-> new[p]] /\ DOMAIN new \subseteq {file}
      /\ tree[file] # Absent => DOMAIN new = {}
      /\ tree[file] = Absent => DOMAIN new = {file} /\ new[file] = "template"
  <2>1. CASE tree[file] = Absent
    <3>1. new = At(file, "template")
      BY <2>1
    <3>. HIDE DEF new, file
    <3>2. DOMAIN new = {file} /\ new[file] = "template"
      BY <3>1, AtOf
    <3>3. new = [p \in DOMAIN new |-> new[p]]
      BY ONLY <3>1, MaybeAt
    <3>. QED
      BY <2>1, <3>2, <3>3
  <2>2. CASE tree[file] # Absent
    <3>1. new = Nothing
      BY <2>2
    <3>. HIDE DEF new, file
    <3>2. new = [p \in DOMAIN new |-> new[p]]
      BY ONLY <3>1, MaybeAt
    <3>. QED
      BY <2>2, <3>1, <3>2, NothingOf
  <2>. QED
    BY <2>1, <2>2
<1>3. file[1] = "handler" /\ file \notin {Contract, LocalConfig, External}
  BY Places
<1>. HIDE DEF new, file
<1>4. Took(step, new) /\ command' = command /\ (status' = "working" => Parses)
  <2>. HIDE DEF step
  <2>1. Took(step, new) /\ command' = command
    BY <1>1, <1>2, TookDo
  <2>2. status' = "working" => Parses
    BY <1>1 DEF Do, Crash, Interrupt, Fail
  <2>. QED
    BY <2>1, <2>2
<1>5. ContentInv' /\ HTTPAhead' /\ ProtobufAhead'
  <2>1. step[1] \in BindingKinds /\ file[1] \in BindingPlaces
    BY <1>1, <1>3 DEF BindingKinds, BindingPlaces
  <2>. HIDE DEF step
  <2>. QED
    BY <1>2, <1>3, <1>4, <2>1, FitsElsewhere, BindingWrites
<1>6. BindingsAhead'
  <2>1. \A p \in Path \intersect DOMAIN new : p \in ServiceFile /\ tree[p] = Absent
    BY <1>2, <1>3 DEF ServiceFile
  <2>2. ASSUME status' = "working", s \in DOMAIN m.servers
        PROVE  HasHandler(tree', m, s)
    <3>1. m.servers[s].handler \in Handler
      <4>1. m \in Manifests
        BY <1>1, <1>4, AtStep DEF Took, GoodManifest, BindingKinds
      <4>. QED
        BY <2>2, <4>1, OfManifests DEF ServerBinding
    <3>2. file \in Path /\ file \in ServiceFile
      BY <3>1, BindingFiles DEF file
    <3>3. tree'[file] = IF file \in DOMAIN new THEN new[file] ELSE tree[file]
      BY <1>4, <2>2, <3>2 DEF Took
    <3>4. tree[file] # Torn
      BY <1>4, <2>2, <3>2 DEF Parses
    <3>5. tree'[file] \notin {Absent, Torn}
      BY <1>2, <3>3, <3>4, ContentAssumption
    <3>. QED
      BY <3>5 DEF HasHandler, file
  <2>3. BindingsAhead
    BY DEF ProgressInv
  <2>. QED
    BY <1>4, <2>1, <2>2, <2>3, BindingStepImplements
<1>. QED
  BY <1>5, <1>6 DEF ProgressInv

LEMMA StubsProgress ==
  ASSUME SafetyInv, ProgressInv, UNCHANGED published, NEW s, CreateServerStubs(s)
  PROVE  ProgressInv'
<1>. DEFINE m        == command.manifest
            files    == {StubFile(m.servers[s].handler, x) : x \in m.servers[s].methods}
            missing  == {p \in files : tree[p] = Absent}
            step     == <<"stubs", s>>
            possible == Parses /\ \A p \in files \ missing : Implements(tree[p], s)
            stub     == [service |-> s, edited |-> FALSE]
            new      == [p \in missing |-> stub]
<1>1. Do(step, possible, new, TRUE) /\ step[1] = "stubs"
  BY DEF CreateServerStubs
<1>2. /\ new = [p \in DOMAIN new |-> new[p]] /\ DOMAIN new = missing
      /\ \A p \in missing : new[p] = stub /\ p \in files /\ tree[p] = Absent
  OBVIOUS
<1>3. \A p \in files : p[1] = "stub" /\ p \notin {Contract, LocalConfig, External}
  BY Places
<1>4. Took(step, new) /\ command' = command /\ (status' = "working" => possible)
  <2>. HIDE DEF possible, new, step
  <2>1. Took(step, new) /\ command' = command
    BY <1>1, <1>2, TookDo
  <2>2. status' = "working" => possible
    BY <1>1 DEF Do, Crash, Interrupt, Fail
  <2>. QED
    BY <2>1, <2>2
<1>. HIDE DEF new, stub
<1>5. ContentInv' /\ HTTPAhead' /\ ProtobufAhead'
  <2>1. step[1] \in BindingKinds /\ \A p \in files : p[1] \in BindingPlaces
    BY <1>1, <1>3 DEF BindingKinds, BindingPlaces
  <2>. HIDE DEF step, files
  <2>. QED
    BY <1>2, <1>3, <1>4, <2>1, FitsElsewhere, BindingWrites
<1>6. BindingsAhead'
  <2>1. \A p \in Path \intersect DOMAIN new : p \in ServiceFile /\ tree[p] = Absent
    BY <1>2, <1>3 DEF ServiceFile
  <2>2. ASSUME status' = "working", s \in DOMAIN m.servers
        PROVE  HasStubs(tree', m, s)
    <3>1. m.servers[s].handler \in Handler /\ m.servers[s].methods \in SUBSET Method /\ s \in Service
      <4>1. m \in Manifests
        BY <1>1, <1>4, AtStep DEF Took, GoodManifest, BindingKinds
      <4>. QED
        BY <2>2, <4>1, OfManifests DEF ServerBinding
    <3>2. stub \notin {Absent, Torn} /\ stub.service = s
      <4>1. stub \in StubType
        BY <3>1 DEF StubType, stub
      <4>. QED
        BY <4>1, ContentAssumption DEF stub
    <3>3. ASSUME NEW p \in files
          PROVE  tree'[p] \notin {Absent, Torn} /\ Implements(tree'[p], s)
      <4>1. p \in Path /\ p \in ServiceFile
        BY <3>1, BindingFiles
      <4>2. tree'[p] = IF p \in DOMAIN new THEN new[p] ELSE tree[p]
        BY <1>4, <2>2, <4>1 DEF Took
      <4>3. CASE p \in missing
        BY <1>2, <3>2, <4>2, <4>3 DEF Implements
      <4>4. CASE p \notin missing
        <5>1. Parses /\ Implements(tree[p], s)
          BY <1>4, <2>2, <4>4
        <5>. QED
          BY <1>2, <4>1, <4>2, <4>4, <5>1 DEF Parses
      <4>. QED
        BY <4>3, <4>4
    <3>. QED
      BY <3>3 DEF HasStubs
  <2>3. BindingsAhead
    BY DEF ProgressInv
  <2>. HIDE DEF files, missing, possible
  <2>. QED
    BY <1>4, <2>1, <2>2, <2>3, BindingStepImplements
<1>. QED
  BY <1>5, <1>6 DEF ProgressInv

(* The loop over the services comes to the two steps of one of them.       *)
LEMMA OfTail ==
  ASSUME NEW s, \E S : s \in Seq(S), s # <<>>
  PROVE  Of(s) = {Head(s)} \union Of(Tail(s))
<1>. DEFINE t == Tail(s)
<1>1. /\ Len(s) \in Nat /\ Len(t) = Len(s) - 1
      /\ \A i \in 1..Len(t) : t[i] = s[i + 1] /\ i + 1 \in 1..Len(s)
      /\ Head(s) = s[1] /\ 1 \in 1..Len(s)
  BY TailOf
<1>. HIDE DEF t
<1>2. ASSUME NEW i \in 1..Len(s), i # 1
      PROVE  i - 1 \in 1..Len(t) /\ t[i - 1] = s[i]
  <2>1. i - 1 \in 1..Len(t) /\ (i - 1) + 1 = i
    BY <1>1, <1>2
  <2>. QED
    BY <1>1, <2>1
<1>3. Of(s) = {Head(s)} \union Of(t)
  BY <1>1, <1>2 DEF Of
<1>. QED
  BY <1>3 DEF t

LEMMA ServiceSteps ==
  ASSUME NEW s, NEW ss, NEW more, more = <<<<"handler", s>>, <<"stubs", s>>, <<"implement", ss>>>>
  PROVE  /\ \E S : more \in Seq(S)
         /\ Of(more) = {<<"handler", s>>, <<"stubs", s>>, <<"implement", ss>>}
         /\ Kinds(more) = {"handler", "stubs", "implement"}
<1>1. /\ more \in Seq({<<"handler", s>>, <<"stubs", s>>, <<"implement", ss>>})
      /\ Len(more) = 3
      /\ more[1] = <<"handler", s>> /\ more[2] = <<"stubs", s>> /\ more[3] = <<"implement", ss>>
  OBVIOUS
<1>2. /\ \A i \in 1..Len(more) : i \in {1, 2, 3}
      /\ 1 \in 1..Len(more) /\ 2 \in 1..Len(more) /\ 3 \in 1..Len(more)
  BY <1>1
<1>3. Of(more) = {<<"handler", s>>, <<"stubs", s>>, <<"implement", ss>>}
  BY <1>1, <1>2 DEF Of
<1>4. more[1][1] = "handler" /\ more[2][1] = "stubs" /\ more[3][1] = "implement"
  BY <1>1
<1>5. Kinds(more) = {"handler", "stubs", "implement"}
  BY <1>2, <1>4 DEF Kinds
<1>. QED
  BY <1>1, <1>3, <1>5

LEMMA LoopProgress ==
  ASSUME SafetyInv, ProgressInv, UNCHANGED published, NEW todo, ImplementServices(todo)
  PROVE  ProgressInv'
<1>. DEFINE m    == command.manifest
            step == <<"implement", todo>>
<1>1. /\ IsNext(step) /\ UNCHANGED <<tree, snapshots, status, before, kind, command>>
      /\ status = "working"
  BY DEF ImplementServices, fileVars, IsNext
<1>2. \E S : steps \in Seq(S)
  BY <1>1 DEF SafetyInv, PlanInv, Plan
<1>3. steps # <<>> /\ Head(steps) = step
  BY <1>1 DEF IsNext
<1>4. \E S : Tail(steps) \in Seq(S)
  BY <1>2, <1>3, TailOf
<1>5. /\ step[1] = "implement" /\ step[2] = todo
      /\ \A k : \A d : <<k, d>> = step => k = "implement"
  OBVIOUS
<1>. HIDE DEF step
<1>6. Of(steps) = {step} \union Of(Tail(steps))
  BY <1>2, <1>3, OfTail
<1>7. Kinds(steps) = {step[1]} \union Kinds(Tail(steps))
  BY <1>2, <1>3, KindsOfTail
<1>8. /\ \A k \in Kinds(steps) : k = "implement" \/ k \in Kinds(steps')
      /\ Kinds(steps') \subseteq Kinds(steps) \union {"handler", "stubs", "implement"}
      /\ \A x \in Of(steps) : x = step \/ x \in Of(steps')
      /\ \A d : <<"remove-config", d>> \in Of(steps') => <<"remove-config", d>> \in Of(steps)
      /\ \A k \in {"handler", "stubs"} : \A r : Reaches(Of(steps), k, r) => Reaches(Of(steps'), k, r)
  <2>1. CASE todo = {} /\ steps' = Tail(steps)
    <3>1. \A k \in {"handler", "stubs"} : \A r : Reaches(Of(steps), k, r) => Reaches(Of(steps'), k, r)
      BY <1>5, <1>6, <2>1 DEF Reaches
    <3>. QED
      BY <1>5, <1>6, <1>7, <2>1, <3>1
  <2>2. ASSUME NEW s \in todo, NEW more,
               more = <<<<"handler", s>>, <<"stubs", s>>, <<"implement", todo \ {s}>>>>,
               steps' = more \o Tail(steps)
        PROVE  /\ \A k \in Kinds(steps) : k = "implement" \/ k \in Kinds(steps')
               /\ Kinds(steps') \subseteq Kinds(steps) \union {"handler", "stubs", "implement"}
               /\ \A x \in Of(steps) : x = step \/ x \in Of(steps')
               /\ \A d : <<"remove-config", d>> \in Of(steps') => <<"remove-config", d>> \in Of(steps)
               /\ \A k \in {"handler", "stubs"} : \A r : Reaches(Of(steps), k, r) => Reaches(Of(steps'), k, r)
    <3>1. /\ \E S : more \in Seq(S)
          /\ Of(more) = {<<"handler", s>>, <<"stubs", s>>, <<"implement", todo \ {s}>>}
          /\ Kinds(more) = {"handler", "stubs", "implement"}
      BY <2>2, ServiceSteps
    <3>2. Kinds(steps') = Kinds(more) \union Kinds(Tail(steps))
          /\ Of(steps') = Of(more) \union Of(Tail(steps))
      BY <1>4, <2>2, <3>1, ConcatOf
    <3>3. ASSUME NEW k \in {"handler", "stubs"}, NEW r, Reaches(Of(steps), k, r)
          PROVE  Reaches(Of(steps'), k, r)
      <4>1. CASE r \in todo
        <5>1. CASE r = s
          BY <3>1, <3>2, <5>1 DEF Reaches
        <5>2. CASE r # s
          <6>. DEFINE rest == <<"implement", todo \ {s}>>
          <6>1. rest \in Of(steps') /\ rest[1] = "implement" /\ r \in rest[2]
            BY <3>1, <3>2, <4>1, <5>2
          <6>. HIDE DEF rest
          <6>. QED
            BY <6>1 DEF Reaches
        <5>. QED
          BY <5>1, <5>2
      <4>2. CASE r \notin todo
        BY <1>5, <1>6, <3>2, <3>3, <4>2 DEF Reaches
      <4>. QED
        BY <4>1, <4>2
    <3>4. \A d : <<"remove-config", d>> \notin Of(more)
      BY <3>1
    <3>. QED
      BY <1>5, <1>6, <1>7, <3>1, <3>2, <3>3, <3>4
  <2>. QED
    BY <2>1, <2>2 DEF ImplementServices
<1>9. ContentInv'
  BY <1>1, SameKind DEF ProgressInv, ContentInv
<1>10. HTTPAhead'
  <2>1. \A k \in HTTPKinds \union {"http"} : k \in Kinds(steps) <=> k \in Kinds(steps')
    BY <1>8 DEF HTTPKinds
  <2>. QED
    BY <1>1, <2>1, HTTPKept DEF ProgressInv
<1>11. ProtobufAhead'
  <2>1. \A k \in PbAhead : k \in Kinds(steps) <=> k \in Kinds(steps')
    BY <1>8 DEF PbAhead
  <2>. QED
    BY <1>1, <2>1, ProtobufKept DEF ProgressInv
<1>12. BindingsAhead'
  <2>1. m \in Manifests
    BY <1>1, <1>5, AtStep DEF GoodManifest, BindingKinds
  <2>2. Rendered(tree, m, Kinds(steps), ServesGRPC) => Rendered(tree', m, Kinds(steps'), ServesGRPC)
    <3>1. \A l \in {"manifest", "external", "clients"} : l \in Kinds(steps) => l \in Kinds(steps')
      BY <1>8
    <3>. QED
      BY <1>1, <3>1, RenderedKept
  <2>3. Served(tree, m, Of(steps)) => Served(tree', m, Of(steps'))
    <3>1. \A p \in BindingFile \intersect ServiceFile : tree'[p] = tree[p]
      BY <1>1
    <3>2. \A s : /\ Reaches(Of(steps), "handler", s) => Reaches(Of(steps'), "handler", s)
                 /\ Reaches(Of(steps), "stubs", s) => Reaches(Of(steps'), "stubs", s)
      BY <1>8
    <3>. QED
      BY ONLY <2>1, <3>1, <3>2, ServedKept
  <2>4. Reachable(tree, m, Of(steps)) => Reachable(tree', m, Of(steps'))
    <3>1. \A d : /\ <<"add-config", d>> \in Of(steps) => <<"add-config", d>> \in Of(steps')
                 /\ <<"remove-config", d>> \in Of(steps') => <<"remove-config", d>> \in Of(steps)
      BY <1>5, <1>8
    <3>. QED
      BY <1>1, <3>1, ReachableKept
  <2>5. step[1] \in BindingKinds /\ BindingsAhead
    BY <1>5 DEF BindingKinds, ProgressInv
  <2>. QED
    BY <1>1, <1>8, <2>2, <2>3, <2>4, <2>5, BindingsBuilt
<1>. QED
  BY <1>9, <1>10, <1>11, <1>12 DEF ProgressInv

LEMMA BindingStepProgress ==
  ASSUME SafetyInv, ProgressInv, BindingStep
  PROVE  ProgressInv'
<1>1. UNCHANGED published
  BY DEF BindingStep
<1>2. CASE WriteServer
  <2>. DEFINE step == <<"external">>
  <2>1. step[1] = "external"
    OBVIOUS
  <2>2. Do(step, Readable(GoMod), At(External, ServerCode(command.manifest)), TRUE)
    BY <1>2 DEF WriteServer
  <2>. HIDE DEF step
  <2>. QED
    BY <1>1, <2>1, <2>2, RenderProgress
<1>3. CASE WriteClients
  <2>. DEFINE step == <<"clients">>
  <2>1. step[1] = "clients"
    OBVIOUS
  <2>2. Do(step, Readable(GoMod), At(ClientsGen, ClientCode(command.manifest)), TRUE)
    BY <1>3 DEF WriteClients
  <2>. HIDE DEF step
  <2>. QED
    BY <1>1, <2>1, <2>2, RenderProgress
<1>4. CASE SaveManifest
  <2>. DEFINE step == <<"manifest">>
  <2>1. step[1] = "manifest"
    OBVIOUS
  <2>2. Do(step, TRUE, At(Manifest, command.manifest), TRUE)
    BY <1>4 DEF SaveManifest
  <2>. HIDE DEF step
  <2>. QED
    BY <1>1, <2>1, <2>2, RenderProgress
<1>. QED
  BY <1>1, <1>2, <1>3, <1>4, RequireProgress, LoopProgress, TidyProgress, CompileProgress,
     HandlerProgress, StubsProgress, ConfigProgress DEF BindingStep

-------------------------------------------------------------------------------
(* The steps of the contract generators.                                   *)

LEMMA PlacesOf ==
  /\ \A p \in BindingFile : p[1] \in BindingPlaces
  /\ \A p \in HTTPFile : p[1] \in {"openapi.yaml", "models", "api.gen.go", "routes.gen.go"}
  /\ \A p \in ProtobufFile : p[1] \in {"pb.go", "grpc.pb.go", "register.gen.go", "proto"}
<1>1. Models[1] = "models"
  BY DEF Models
<1>2. \A p \in BindingFile : p[1] \in BindingPlaces
  BY Places DEF BindingFile, BindingPlaces
<1>3. \A p \in HTTPFile : p[1] \in {"openapi.yaml", "models", "api.gen.go", "routes.gen.go"}
  BY <1>1, Places DEF HTTPFile
<1>4. \A p \in ProtobufFile : p[1] \in {"pb.go", "grpc.pb.go", "register.gen.go", "proto"}
  BY Places DEF ProtobufFile
<1>. QED
  BY <1>2, <1>3, <1>4

LEMMA HTTPWrites ==
  ASSUME SafetyInv, ProgressInv, UNCHANGED published, NEW step, NEW file, NEW content,
         Took(step, At(file, content)), step[1] \in HTTPKinds \union {"http-stub", "contract"},
         file[1] \in {"http-stub", "openapi.yaml", "api.gen.go", "routes.gen.go"},
         Fits(file, content, ServesGRPC)
  PROVE  ContentInv' /\ ProtobufAhead' /\ BindingsAhead'
<1>. DEFINE new == At(file, content)
<1>1. DOMAIN new = {file} /\ new[file] = content
  BY AtOf
<1>. HIDE DEF new
<1>2. Took(step, new)
  BY DEF new
<1>3. step[1] \notin PbAhead /\ step[1] \notin BindingKinds \union {"rpc", "commit"}
  BY DEF HTTPKinds, PbAhead, BindingKinds
<1>4. ContentInv'
  BY <1>1, <1>2, ContentTook DEF ProgressInv
<1>5. ProtobufAhead'
  <2>1. file \notin ProtobufFile /\ \A f \in ProtoFile : RpcStub(f) # file
    BY PlacesOf, Places
  <2>. QED
    BY <1>1, <1>2, <1>3, <2>1, ProtobufTook DEF ProgressInv
<1>6. BindingsAhead'
  <2>1. file \notin BindingFile
    BY PlacesOf DEF BindingPlaces
  <2>. QED
    BY <1>1, <1>2, <1>3, <2>1, BindingsTook DEF ProgressInv
<1>. QED
  BY <1>4, <1>5, <1>6

LEMMA PbWrites ==
  ASSUME SafetyInv, ProgressInv, UNCHANGED published, NEW step, NEW new,
         Took(step, new), step[1] \in PbKinds \union {"proto"},
         \A p \in DOMAIN new :
           p[1] \in {"proto", "pb.go", "grpc.pb.go", "register.gen.go", "rpc-stub"}
  PROVE  ContentInv' /\ HTTPAhead' /\ BindingsAhead'
<1>1. step[1] \notin HTTPKinds \union {"http"} /\ step[1] \notin BindingKinds \union {"rpc", "commit"}
  BY DEF HTTPKinds, PbKinds, BindingKinds
<1>2. ContentInv'
  <2>1. \A p \in DOMAIN new : p \notin {Contract, LocalConfig, External}
    BY Places
  <2>. QED
    BY <2>1, FitsElsewhere, ContentTook DEF ProgressInv
<1>3. HTTPAhead'
  <2>1. DOMAIN new \intersect HTTPFile = {}
    BY PlacesOf
  <2>. QED
    BY <1>1, <2>1, HTTPTook DEF ProgressInv
<1>4. BindingsAhead'
  <2>1. DOMAIN new \intersect BindingFile = {}
    BY PlacesOf DEF BindingPlaces
  <2>. QED
    BY <1>1, <2>1, BindingsTook DEF ProgressInv
<1>. QED
  BY <1>2, <1>3, <1>4

LEMMA DoAt ==
  ASSUME NEW step, NEW possible, NEW file, NEW content, NEW inPlace,
         Do(step, possible, At(file, content), inPlace)
  PROVE  Took(step, At(file, content)) /\ command' = command /\ IsNext(step)
<1>. DEFINE new == At(file, content)
<1>1. new = [p \in DOMAIN new |-> new[p]] /\ Do(step, possible, new, inPlace)
  BY AtOf
<1>. HIDE DEF new
<1>2. Took(step, new) /\ command' = command /\ IsNext(step)
  BY <1>1, TookDo DEF Took
<1>. QED
  BY <1>2 DEF new

LEMMA WroteAt ==
  ASSUME SafetyInv, NEW step, NEW file, NEW content, Took(step, At(file, content)),
         status' = "working"
  PROVE  /\ status = "working" /\ kind' = kind /\ command'.name = command.name
         /\ \A p \in Path : tree'[p] = IF p = file THEN content ELSE tree[p]
         /\ Kinds(steps) = {step[1]} \union Kinds(steps')
<1>. DEFINE new == At(file, content)
<1>1. DOMAIN new = {file} /\ new[file] = content /\ Took(step, new)
  BY AtOf
<1>. HIDE DEF new
<1>2. \A p \in Path : tree'[p] = IF p = file THEN content ELSE tree[p]
  BY <1>1 DEF Took
<1>. QED
  BY <1>1, <1>2, TookKinds DEF Took

LEMMA HTTPStubProgress ==
  ASSUME SafetyInv, ProgressInv, UNCHANGED published, NEW o, WriteHTTPStub(o)
  PROVE  ProgressInv'
<1>. DEFINE step == <<"http-stub", o>>
            file == HttpStub(o)
            new  == At(file, "stub")
<1>1. step[1] = "http-stub" /\ file[1] = "http-stub" /\ file \notin {Contract, LocalConfig, External}
  BY Places
<1>2. Took(step, new)
  BY DoAt DEF WriteHTTPStub
<1>. HIDE DEF step, file
<1>3. ContentInv' /\ ProtobufAhead' /\ BindingsAhead'
  BY <1>1, <1>2, FitsElsewhere, HTTPWrites
<1>4. HTTPAhead'
  <2>1. DOMAIN new = {file}
    BY AtOf
  <2>. HIDE DEF new
  <2>2. DOMAIN new \intersect HTTPFile = {}
    BY <1>1, <2>1, PlacesOf
  <2>3. step[1] \notin HTTPKinds \union {"http"}
    BY <1>1 DEF HTTPKinds
  <2>. QED
    BY <1>2, <2>2, <2>3, HTTPTook DEF ProgressInv
<1>. QED
  BY <1>3, <1>4 DEF ProgressInv

LEMMA ContractProgress ==
  ASSUME SafetyInv, ProgressInv, UNCHANGED published, WriteContract
  PROVE  ProgressInv'
<1>. DEFINE step    == <<"contract">>
            content == [operations |-> tree[Contract].operations \union {command.manifest},
                        models |-> tree[Models]]
<1>1. step[1] = "contract"
  OBVIOUS
<1>2. Took(step, At(Contract, content)) /\ IsNext(step)
  BY DoAt DEF WriteContract
<1>3. Fits(Contract, content, ServesGRPC)
  <2>1. Contract # LocalConfig /\ Contract # External
    BY Places
  <2>2. content = [operations |-> content.operations, models |-> content.models]
    OBVIOUS
  <2>. HIDE DEF content
  <2>. QED
    BY <2>1, <2>2 DEF Fits
<1>. HIDE DEF step, content
<1>4. ContentInv' /\ ProtobufAhead' /\ BindingsAhead'
  BY <1>1, <1>2, <1>3, Places, HTTPWrites
<1>5. HTTPAhead'
  <2>. SUFFICES ASSUME status' = "working"
                PROVE  HTTPAhead'
    BY DEF HTTPAhead
  <2>1. command.name = "api-add"
    <3>1. Takes(command.name, "contract")
      BY <1>1, <1>2, AtStep
    <3>. QED
      BY <3>1 DEF Takes, HTTPKinds, PbKinds, BindingKinds, Generators
  <2>2. command'.name = "api-add" /\ Kinds(steps') \subseteq Kinds(Tail(steps))
    BY <1>2, <2>1, TookKinds DEF Took
  <2>3. "sync" \notin Kinds(steps')
    <3>1. "sync" \in Kinds(Tail(steps)) => Takes(command.name, "sync")
      BY <1>2, AtStep
    <3>. QED
      BY <2>1, <2>2, <3>1 DEF Takes
  <2>. QED
    BY <2>2, <2>3 DEF HTTPAhead
<1>. QED
  BY <1>4, <1>5 DEF ProgressInv

LEMMA WriteHTTPProgress ==
  ASSUME SafetyInv, ProgressInv, UNCHANGED published, WriteHTTP
  PROVE  ProgressInv'
<1>. DEFINE whole(c) == c = [operations |-> c.operations, models |-> c.models]
<1>1. Contract \in Path /\ ApiGen \in Path /\ RoutesGen \in Path /\ Models \in Path
  BY PathAssumption DEF ProjectPath, HttpPaths
<1>2. /\ Contract # ApiGen /\ Contract # RoutesGen /\ ApiGen # RoutesGen
      /\ Models \notin {Contract, ApiGen, RoutesGen}
      /\ \A p \in {ApiGen, RoutesGen, Contract} : p \notin {LocalConfig, External}
  BY Places DEF Models
<1>3. CASE Do(<<"api">>, TRUE, At(ApiGen, Synced), FALSE)
  <2>1. Took(<<"api">>, At(ApiGen, Synced)) /\ <<"api">>[1] = "api"
    BY <1>3, DoAt
  <2>2. ContentInv' /\ ProtobufAhead' /\ BindingsAhead'
    BY <1>2, <2>1, Places, FitsElsewhere, HTTPWrites DEF HTTPKinds
  <2>3. ASSUME status' = "working"
        PROVE  HTTPAhead'
    <3>1. /\ status = "working" /\ kind' = kind /\ command'.name = command.name
          /\ tree'[ApiGen] = Synced /\ tree'[Contract] = tree[Contract]
          /\ tree'[Models] = tree[Models] /\ tree'[RoutesGen] = tree[RoutesGen]
          /\ \A k \in {"http", "routes", "sync"} : k \in Kinds(steps) <=> k \in Kinds(steps')
      BY <1>1, <1>2, <2>1, <2>3, WroteAt
    <3>. QED
      BY <3>1, SameKind DEF HTTPAhead, ProgressInv, Synced
  <2>. QED
    BY <2>2, <2>3, StoppedProgress DEF ProgressInv
<1>4. CASE Do(<<"routes">>, TRUE, At(RoutesGen, Routes), FALSE)
  <2>1. Took(<<"routes">>, At(RoutesGen, Routes)) /\ <<"routes">>[1] = "routes"
    BY <1>4, DoAt
  <2>2. ContentInv' /\ ProtobufAhead' /\ BindingsAhead'
    BY <1>2, <2>1, Places, FitsElsewhere, HTTPWrites DEF HTTPKinds
  <2>3. ASSUME status' = "working"
        PROVE  HTTPAhead'
    <3>1. /\ status = "working" /\ kind' = kind /\ command'.name = command.name
          /\ tree'[RoutesGen] = Routes /\ tree'[Contract] = tree[Contract]
          /\ tree'[Models] = tree[Models] /\ tree'[ApiGen] = tree[ApiGen]
          /\ \A k \in {"http", "api", "sync"} : k \in Kinds(steps) <=> k \in Kinds(steps')
      BY <1>1, <1>2, <2>1, <2>3, WroteAt
    <3>. QED
      BY <3>1, SameKind DEF HTTPAhead, ProgressInv, Routes
  <2>. QED
    BY <2>2, <2>3, StoppedProgress DEF ProgressInv
<1>5. CASE Do(<<"sync">>, TRUE, At(Contract, Synced), FALSE)
  <2>1. Took(<<"sync">>, At(Contract, Synced)) /\ <<"sync">>[1] = "sync" /\ IsNext(<<"sync">>)
    BY <1>5, DoAt
  <2>2. status = "working" /\ "sync" \in Kinds(steps)
    <3>1. status = "working" /\ steps # <<>> /\ Head(steps) = <<"sync">>
      BY <2>1 DEF IsNext
    <3>2. Head(steps)[1] \in Kinds(steps)
      BY <3>1, StubsFirst DEF SafetyInv, PlanInv
    <3>. QED
      BY <2>1, <3>1, <3>2
  <2>3. /\ whole(tree[Contract]) /\ whole(Synced)
        /\ Synced.operations = tree[Contract].operations /\ Synced.models = tree[Models]
    <3>1. whole(tree[Contract])
      BY <2>2 DEF HTTPAhead, ProgressInv
    <3>. QED
      BY <3>1 DEF Synced
  <2>4. ContentInv' /\ ProtobufAhead' /\ BindingsAhead'
    <3>1. Fits(Contract, Synced, ServesGRPC)
      BY <1>2, <2>3 DEF Fits
    <3>. QED
      BY <2>1, <3>1, Places, HTTPWrites DEF HTTPKinds
  <2>5. ASSUME status' = "working"
        PROVE  HTTPAhead'
    <3>1. /\ kind' = kind /\ command'.name = command.name
          /\ tree'[Contract] = Synced /\ tree'[RoutesGen] = tree[RoutesGen]
          /\ tree'[Models] = tree[Models] /\ tree'[ApiGen] = tree[ApiGen]
          /\ \A k \in {"http", "api", "routes"} : k \in Kinds(steps) <=> k \in Kinds(steps')
      BY <1>1, <1>2, <2>1, <2>5, WroteAt
    <3>2. [Synced EXCEPT !.models = tree[Models]] = [tree[Contract] EXCEPT !.models = tree[Models]]
      BY <2>3
    <3>. QED
      BY <2>2, <2>3, <3>1, <3>2, SameKind DEF HTTPAhead, ProgressInv
  <2>. QED
    BY <2>4, <2>5, StoppedProgress DEF ProgressInv
<1>. QED
  BY <1>3, <1>4, <1>5 DEF WriteHTTP

LEMMA PbTook ==
  ASSUME SafetyInv, NEW step, NEW new, Took(step, new), status' = "working", step[1] # "commit"
  PROVE  /\ status = "working" /\ command'.name = command.name
         /\ HasGRPC' = HasGRPC /\ HasServer' = HasServer
         /\ \A p \in Path : tree'[p] = IF p \in DOMAIN new THEN new[p] ELSE tree[p]
         /\ \A k : k \in Kinds(steps) <=> k = step[1] \/ k \in Kinds(steps')
         /\ \A k \in Kinds(steps') : k = "commit" \/ Precedes(step[1], k)
<1>1. /\ status = "working" /\ kind' = kind /\ command'.name = command.name /\ steps' = Tail(steps)
      /\ \A p \in Path : tree'[p] = IF p \in DOMAIN new THEN new[p] ELSE tree[p]
      /\ \A k : k \in Kinds(steps) <=> k = step[1] \/ k \in Kinds(steps')
  BY TookKinds DEF Took
<1>2. \A k \in Kinds(steps') : k = "commit" \/ Precedes(step[1], k)
  <2>1. IsNext(step)
    BY DEF Took
  <2>2. step[1] # "commit" =>
          \A k \in Kinds(Tail(steps)) : k = "commit" \/ Precedes(step[1], k)
    BY <2>1, AtStep
  <2>. QED
    BY <1>1, <2>2
<1>. QED
  BY <1>1, <1>2, SameKind

(* Steps that leave the contracts alone.                                   *)
LEMMA PbAheadKept ==
  ASSUME SafetyInv, ProtobufAhead, NEW step, NEW new, Took(step, new), status' = "working",
         step[1] \in {"buf", "prune", "register", "rpc-stubs"}, UNCHANGED HasContracts,
         \A f \in ProtoFile : tree'[Proto(f)] = tree[Proto(f)],
         \A f \in ProtoFile : tree[Proto(f)] # Absent /\ (step[1] = "buf" \/ Compiled(f)) => Compiled(f)',
         \A f \in ProtoFile : tree[Proto(f)] = Absent /\ (step[1] = "prune" \/ Pruned(f)) => Pruned(f)',
         step[1] \in {"register", "rpc-stubs"} =>
           /\ step[1] = "register" \/ Registered => Registered'
           /\ step[1] = "rpc-stubs" \/ Stubbed => Stubbed'
  PROVE  ProtobufAhead'
<1>. SUFFICES ASSUME command'.name = "generate", HasGRPC'
              PROVE  ProtobufAhead'
  BY DEF ProtobufAhead
<1>1. /\ status = "working" /\ command.name = "generate" /\ HasGRPC /\ HasServer' = HasServer
      /\ \A k : k \in Kinds(steps) <=> k = step[1] \/ k \in Kinds(steps')
      /\ \A k \in Kinds(steps') : k = "commit" \/ Precedes(step[1], k)
  BY PbTook
<1>2. step[1] \in {"register", "rpc-stubs"} => {"buf", "prune"} \intersect Kinds(steps') = {}
  BY <1>1, Ranks DEF Precedes
<1>. QED
  BY <1>1, <1>2 DEF ProtobufAhead

LEMMA PbFacts ==
  ASSUME NEW f \in ProtoFile
  PROVE  /\ Messages(f) \in Path /\ Services(f) \in Path /\ Proto(f) \in Path
         /\ RegisterGen \in Path /\ RpcStub(f) \in Path
         /\ Messages(f)[1] = "pb.go" /\ Services(f)[1] = "grpc.pb.go" /\ Proto(f)[1] = "proto"
         /\ RpcStub(f)[1] = "rpc-stub" /\ RegisterGen[1] = "register.gen.go"
         /\ Messages(f)[2] = f /\ Services(f)[2] = f
         /\ Messages(f) \in Generated /\ Services(f) \in Generated
<1>1. Messages(f) \in Generated /\ Services(f) \in Generated
  BY DEF Generated
<1>2. Messages(f)[1] = "pb.go" /\ Services(f)[1] = "grpc.pb.go"
  BY DEF Messages, Services
<1>3. Messages(f)[2] = f /\ Services(f)[2] = f
  BY DEF Messages, Services
<1>. QED
  BY <1>1, <1>2, <1>3, ProtobufFiles, Places

LEMMA BufProgress ==
  ASSUME SafetyInv, ProgressInv, UNCHANGED published, Buf
  PROVE  ProgressInv'
<1>. DEFINE files   == {f \in ProtoFile : tree[Proto(f)] # Absent}
            outputs == {Messages(f) : f \in files} \union {Services(f) : f \in {g \in files : Declares(g)}}
            step    == <<"buf">>
            new     == [p \in outputs |-> tree[Proto(p[2])]]
<1>1. Do(step, TRUE, new, TRUE) \/ MayFail(step)
  BY DEF Buf
<1>2. step[1] = "buf"
  OBVIOUS
<1>3. /\ new = [p \in DOMAIN new |-> new[p]] /\ DOMAIN new = outputs
      /\ \A p \in outputs : new[p] = tree[Proto(p[2])]
  OBVIOUS
<1>4. \A p \in outputs : p[1] \in {"pb.go", "grpc.pb.go"}
  BY PbFacts
<1>5. /\ \A f \in ProtoFile : tree[Proto(f)] # Absent => Messages(f) \in outputs
      /\ \A f \in ProtoFile : tree[Proto(f)] # Absent /\ Declares(f) => Services(f) \in outputs
      /\ \A f \in ProtoFile : tree[Proto(f)] = Absent => Messages(f) \notin outputs /\ Services(f) \notin outputs
  <2>1. \A f \in ProtoFile : tree[Proto(f)] = Absent => Messages(f) \notin outputs /\ Services(f) \notin outputs
    BY PbFacts
  <2>. QED
    BY <2>1
<1>. HIDE DEF step, new, outputs
<1>6. CASE Do(step, TRUE, new, TRUE)
  <2>1. Took(step, new)
    BY <1>3, <1>6, TookDo
  <2>2. ContentInv' /\ HTTPAhead' /\ BindingsAhead'
    BY <1>2, <1>3, <1>4, <2>1, PbWrites DEF PbKinds
  <2>3. ASSUME status' = "working"
        PROVE  ProtobufAhead'
    <3>1. \A p \in Path : tree'[p] = IF p \in outputs THEN tree[Proto(p[2])] ELSE tree[p]
      BY <1>3, <2>1, <2>3 DEF Took
    <3>2. \A f \in ProtoFile : tree'[Proto(f)] = tree[Proto(f)]
      BY <1>4, <3>1, PbFacts
    <3>3. \A f \in ProtoFile : tree[Proto(f)] # Absent => Compiled(f)'
      BY <1>5, <3>1, <3>2, PbFacts DEF Compiled, Declares
    <3>4. \A f \in ProtoFile : tree[Proto(f)] = Absent /\ Pruned(f) => Pruned(f)'
      BY <1>5, <3>1, PbFacts DEF Pruned
    <3>5. HasContracts' = HasContracts
      BY <3>2 DEF HasContracts
    <3>. QED
      BY <1>2, <2>1, <2>3, <3>2, <3>3, <3>4, <3>5, PbAheadKept DEF ProgressInv
  <2>. QED
    BY <2>2, <2>3, StoppedProgress DEF ProgressInv
<1>. QED
  BY <1>1, <1>6, MayFailProgress

LEMMA PruneProgress ==
  ASSUME SafetyInv, ProgressInv, UNCHANGED published, Prune
  PROVE  ProgressInv'
<1>. DEFINE step == <<"prune">>
            new  == [p \in Stale |-> Absent]
<1>1. Took(step, new) /\ step[1] = "prune"
  BY TookPrune
<1>2. DOMAIN new = Stale /\ \A p \in Stale : new[p] = Absent
  OBVIOUS
<1>3. \A p \in Stale : p \in Generated /\ p[1] \in {"pb.go", "grpc.pb.go"}
  BY Places DEF Stale
<1>. HIDE DEF step, new
<1>4. ContentInv' /\ HTTPAhead' /\ BindingsAhead'
  BY <1>1, <1>2, <1>3, PbWrites DEF PbKinds
<1>5. ASSUME status' = "working"
      PROVE  ProtobufAhead'
  <2>1. \A p \in Path : tree'[p] = IF p \in Stale THEN Absent ELSE tree[p]
    BY <1>1, <1>2, <1>5 DEF Took
  <2>2. \A f \in ProtoFile : tree'[Proto(f)] = tree[Proto(f)]
    BY <1>3, <2>1, PbFacts
  <2>3. \A f \in ProtoFile : tree[Proto(f)] # Absent /\ Compiled(f) => Compiled(f)'
    <3>. SUFFICES ASSUME NEW f \in ProtoFile, tree[Proto(f)] # Absent, Compiled(f)
                  PROVE  Compiled(f)'
      OBVIOUS
    <3>1. Messages(f) \notin Stale /\ Services(f) \notin Stale
      BY PbFacts DEF Stale
    <3>. QED
      BY <2>1, <2>2, <3>1, PbFacts DEF Compiled, Declares
  <2>4. \A f \in ProtoFile : tree[Proto(f)] = Absent => Pruned(f)'
    <3>. SUFFICES ASSUME NEW f \in ProtoFile, tree[Proto(f)] = Absent
                  PROVE  Pruned(f)'
      OBVIOUS
    <3>1. /\ tree[Messages(f)] \notin {Absent, Headless} => Messages(f) \in Stale
          /\ tree[Services(f)] \notin {Absent, Headless} => Services(f) \in Stale
      BY PbFacts DEF Stale
    <3>. QED
      BY <2>1, <3>1, PbFacts DEF Pruned
  <2>5. HasContracts' = HasContracts
    BY <2>2 DEF HasContracts
  <2>. QED
    BY <1>1, <1>5, <2>2, <2>3, <2>4, <2>5, PbAheadKept DEF ProgressInv
<1>. QED
  BY <1>4, <1>5, StoppedProgress DEF ProgressInv

LEMMA RegisterProgress ==
  ASSUME SafetyInv, ProgressInv, UNCHANGED published, WriteTransport
  PROVE  ProgressInv'
<1>. DEFINE step    == <<"register">>
            content == [f \in Discovered |-> tree[Services(f)]]
            new     == At(RegisterGen, content)
<1>1. Took(step, new) /\ step[1] = "register"
  BY DoAt DEF WriteTransport
<1>2. DOMAIN new = {RegisterGen} /\ new[RegisterGen] = content
  BY AtOf
<1>. HIDE DEF step, new
<1>4. ContentInv' /\ HTTPAhead' /\ BindingsAhead'
  BY <1>1, <1>2, Places, PbWrites DEF PbKinds
<1>5. ASSUME status' = "working"
      PROVE  ProtobufAhead'
  <2>1. \A p \in Path : tree'[p] = IF p = RegisterGen THEN content ELSE tree[p]
    BY <1>1, <1>2, <1>5 DEF Took
  <2>2. \A f \in ProtoFile :
          /\ tree'[Proto(f)] = tree[Proto(f)] /\ tree'[Messages(f)] = tree[Messages(f)]
          /\ tree'[Services(f)] = tree[Services(f)] /\ tree'[RpcStub(f)] = tree[RpcStub(f)]
    BY <2>1, PbFacts
  <2>3. \A f \in ProtoFile : (Compiled(f) => Compiled(f)') /\ (Pruned(f) => Pruned(f)')
    BY <2>2 DEF Compiled, Pruned, Declares
  <2>4. Discovered' = Discovered
    BY <2>2 DEF Discovered
  <2>5. Registered'
    <3>1. [f \in Discovered |-> tree'[Services(f)]] = content
      BY <2>2 DEF Discovered
    <3>2. tree'[RegisterGen] = content
      BY <2>1, ProtobufFiles
    <3>. QED
      BY <2>4, <3>1, <3>2 DEF Registered
  <2>6. Stubbed => Stubbed'
    BY <2>2, <2>4 DEF Stubbed, Implemented, Discovered
  <2>7. HasContracts' = HasContracts
    BY <2>2 DEF HasContracts
  <2>. QED
    BY <1>1, <1>5, <2>2, <2>3, <2>5, <2>6, <2>7, PbAheadKept DEF ProgressInv
<1>. QED
  BY <1>4, <1>5, StoppedProgress DEF ProgressInv

LEMMA RpcStubsProgress ==
  ASSUME SafetyInv, ProgressInv, UNCHANGED published, CreateServiceStubs
  PROVE  ProgressInv'
<1>. DEFINE step    == <<"rpc-stubs">>
            missing == {f \in Implemented : tree[RpcStub(f)] = Absent}
            paths   == {RpcStub(f) : f \in missing}
            new     == [p \in paths |-> "stub"]
<1>1. Do(step, Parses, new, FALSE) /\ step[1] = "rpc-stubs"
  BY DEF CreateServiceStubs
<1>2. /\ new = [p \in DOMAIN new |-> new[p]] /\ DOMAIN new = paths
      /\ \A p \in paths : new[p] = "stub"
  OBVIOUS
<1>3. \A p \in paths : p[1] = "rpc-stub"
  BY Places
<1>. HIDE DEF step, new
<1>4. Took(step, new)
  BY <1>1, <1>2, TookDo
<1>5. ContentInv' /\ HTTPAhead' /\ BindingsAhead'
  BY <1>1, <1>2, <1>3, <1>4, PbWrites DEF PbKinds
<1>6. ASSUME status' = "working"
      PROVE  ProtobufAhead'
  <2>1. \A p \in Path : tree'[p] = IF p \in paths THEN "stub" ELSE tree[p]
    BY <1>2, <1>4, <1>6 DEF Took
  <2>2. \A f \in ProtoFile :
          /\ tree'[Proto(f)] = tree[Proto(f)] /\ tree'[Messages(f)] = tree[Messages(f)]
          /\ tree'[Services(f)] = tree[Services(f)]
    BY <1>3, <2>1, PbFacts
  <2>3. tree'[RegisterGen] = tree[RegisterGen]
    BY <1>3, <2>1, Places, ProtobufFiles
  <2>4. \A f \in ProtoFile : (Compiled(f) => Compiled(f)') /\ (Pruned(f) => Pruned(f)')
    BY <2>2 DEF Compiled, Pruned, Declares
  <2>5. Discovered' = Discovered
    BY <2>2 DEF Discovered
  <2>6. Registered => Registered'
    <3>1. [f \in Discovered |-> tree'[Services(f)]] = [f \in Discovered |-> tree[Services(f)]]
      BY <2>2 DEF Discovered
    <3>. QED
      BY <2>3, <2>5, <3>1 DEF Registered
  <2>7. Stubbed'
    <3>1. Implemented' = Implemented
      BY <2>2, <2>5 DEF Implemented, Discovered
    <3>2. ASSUME NEW f \in Implemented
          PROVE  tree'[RpcStub(f)] # Absent
      <4>1. f \in ProtoFile
        BY DEF Implemented, Discovered
      <4>2. RpcStub(f) \in Path
        BY <4>1, PbFacts
      <4>3. CASE tree[RpcStub(f)] = Absent
        BY <2>1, <4>2, <4>3, ContentAssumption
      <4>4. CASE tree[RpcStub(f)] # Absent
        BY <2>1, <4>2, <4>4, ContentAssumption
      <4>. QED
        BY <4>3, <4>4
    <3>. QED
      BY <3>1, <3>2 DEF Stubbed
  <2>8. HasContracts' = HasContracts
    BY <2>2 DEF HasContracts
  <2>. QED
    BY <1>1, <1>4, <1>6, <2>2, <2>4, <2>6, <2>7, <2>8, PbAheadKept DEF ProgressInv
<1>. QED
  BY <1>5, <1>6, StoppedProgress DEF ProgressInv

(* Steps that write nothing.                                               *)
LEMMA PbAsideProgress ==
  ASSUME SafetyInv, ProgressInv, UNCHANGED published, Discover \/ Verify
  PROVE  ProgressInv'
<1>1. ASSUME NEW step, NEW possible, Do(step, possible, Nothing, FALSE),
             step[1] \in {"discover", "verify"}
      PROVE  ProgressInv'
  <2>1. Took(step, Nothing) /\ DOMAIN Nothing = {}
    BY <1>1, NothingOf, TookDo
  <2>2. ContentInv' /\ HTTPAhead' /\ BindingsAhead'
    BY <1>1, <2>1, PbWrites DEF PbKinds
  <2>3. ProtobufAhead'
    BY <1>1, <2>1, ProtobufTook DEF PbAhead, ProgressInv
  <2>. QED
    BY <2>2, <2>3 DEF ProgressInv
<1>2. CASE Discover
  <2>. DEFINE step     == <<"discover">>
              possible == /\ Discovered # {}
                          /\ \A f \in ProtoFile : tree[Services(f)] \notin {Torn, Headless}
  <2>1. step[1] = "discover" /\ Do(step, possible, Nothing, FALSE)
    BY <1>2 DEF Discover
  <2>. HIDE DEF step, possible
  <2>. QED
    BY <1>1, <2>1
<1>3. CASE Verify
  <2>. DEFINE step     == <<"verify">>
              builds   == /\ \A f \in ProtoFile :
                               tree[RpcStub(f)] # Absent => tree[Messages(f)] # Absent
                          /\ \A p \in Generated : tree[p] # Headless
              possible == command.manifest # {} => builds
  <2>1. step[1] = "verify" /\ (Do(step, possible, Nothing, FALSE) \/ MayFail(step))
    BY <1>3 DEF Verify
  <2>. HIDE DEF step, possible
  <2>. QED
    BY <1>1, <2>1, MayFailProgress
<1>. QED
  BY <1>2, <1>3

LEMMA ProtoProgress ==
  ASSUME SafetyInv, ProgressInv, UNCHANGED published, NEW f \in ProtoFile, WriteProto(f)
  PROVE  ProgressInv'
<1>. DEFINE step == <<"proto", f>>
            new  == At(Proto(f), command.manifest)
<1>1. step[1] = "proto" /\ Took(step, new) /\ IsNext(step)
  BY DoAt DEF WriteProto
<1>2. DOMAIN new = {Proto(f)}
  BY AtOf
<1>. HIDE DEF step, new
<1>3. ContentInv' /\ HTTPAhead' /\ BindingsAhead'
  BY <1>1, <1>2, Places, PbWrites
<1>4. ProtobufAhead'
  <2>1. Takes(command.name, "proto")
    BY <1>1, AtStep
  <2>2. command'.name # "generate"
    BY <1>1, <2>1 DEF Took, Takes, HTTPKinds, PbKinds, BindingKinds, Generators
  <2>. QED
    BY <2>2 DEF ProtobufAhead
<1>. QED
  BY <1>3, <1>4 DEF ProgressInv

LEMMA ContractStepProgress ==
  ASSUME SafetyInv, ProgressInv, UNCHANGED published, ContractStep
  PROVE  ProgressInv'
BY HTTPStubProgress, ContractProgress, WriteHTTPProgress, ProtoProgress, BufProgress, PruneProgress,
   PbAsideProgress, RegisterProgress, RpcStubsProgress DEF ContractStep

-------------------------------------------------------------------------------
(* `jgo new`, what ends a step list, and what others do.                   *)

LEMMA NewProgress ==
  ASSUME SafetyInv, ProgressInv, UNCHANGED published, NEW step, NEW new, Took(step, new),
         step[1] \in {"clear", "publish"},
         \A p \in Path \intersect DOMAIN new : Fits(p, new[p], ServesGRPC)
  PROVE  ProgressInv'
<1>1. ContentInv'
  BY ContentTook DEF ProgressInv
<1>2. IsNext(step) /\ before' = before /\ command'.name = command.name /\ kind' = kind
  BY DEF Took
<1>3. command.name = "new"
  BY <1>2, AtStep DEF Takes, HTTPKinds, PbKinds, BindingKinds, Generators
<1>4. ASSUME status' = "working"
      PROVE  HTTPAhead' /\ ProtobufAhead' /\ BindingsAhead'
  <2>1. status = "working" /\ Kinds(steps') = Kinds(Tail(steps))
    BY <1>4, TookKinds
  <2>2. "sync" \notin Kinds(steps')
    <3>1. "sync" \in Kinds(Tail(steps)) => Takes(command.name, "sync")
      BY <1>2, AtStep
    <3>. QED
      BY <1>3, <2>1, <3>1 DEF Takes
  <2>3. HTTPAhead' /\ ProtobufAhead'
    BY <1>2, <1>3, <2>2 DEF HTTPAhead, ProtobufAhead
  <2>4. BindingsAhead'
    BY <1>2, <1>3, <2>1, SameKind DEF BindingsAhead, ProgressInv, Binders
  <2>. QED
    BY <2>3, <2>4
<1>. QED
  BY <1>1, <1>4, StoppedProgress DEF ProgressInv

LEMMA ClearProgress ==
  ASSUME SafetyInv, ProgressInv, UNCHANGED published, ClearTarget
  PROVE  ProgressInv'
<1>. DEFINE step     == <<"clear">>
            possible == tree[Target] = "empty"
            new      == At(Target, Absent)
<1>1. step[1] = "clear" /\ Do(step, possible, new, FALSE)
  BY DEF ClearTarget
<1>2. DOMAIN new = {Target} /\ new[Target] = Absent
  BY AtOf
<1>. HIDE DEF step, possible
<1>3. Took(step, new)
  BY <1>1, DoAt
<1>. HIDE DEF new
<1>. QED
  BY <1>1, <1>2, <1>3, FitsNone, NewProgress

LEMMA PublishProjectProgress ==
  ASSUME SafetyInv, ProgressInv, UNCHANGED published, PublishProject
  PROVE  ProgressInv'
<1>. DEFINE step == <<"publish">>
<1>1. step[1] = "publish" /\ Took(step, Template)
  BY TookPublish
<1>2. \A p \in Path : Template[p] =
        IF p = Contract /\ HasWeb THEN [operations |-> {}, models |-> 0]
        ELSE IF p = LocalConfig /\ HasServer THEN {}
        ELSE IF p = External /\ ServesGRPC THEN <<>>
        ELSE IF p \in {Contract, LocalConfig, External} THEN Absent ELSE Template[p]
  BY Places DEF Template, Models
<1>3. Contract # LocalConfig /\ Contract # External /\ LocalConfig # External
  BY Places
<1>. HIDE DEF step
<1>4. ASSUME NEW p \in Path
      PROVE  Fits(p, Template[p], ServesGRPC)
  <2>1. CASE p = Contract
    BY <1>2, <1>3, <2>1 DEF Fits
  <2>2. CASE p = LocalConfig
    BY <1>2, <1>3, <2>2 DEF Fits
  <2>3. CASE p = External
    BY <1>2, <1>3, <2>3 DEF Fits
  <2>4. CASE p \notin {Contract, LocalConfig, External}
    BY <2>4, FitsElsewhere
  <2>. QED
    BY <2>1, <2>2, <2>3, <2>4
<1>. QED
  BY <1>1, <1>4, NewProgress

LEMMA CommitProgress ==
  ASSUME FileInv, SafetyInv, ProgressInv, UNCHANGED published, CommitStep
  PROVE  ProgressInv'
<1>. DEFINE m    == command.manifest
            step == <<"commit">>
<1>1. /\ status = "working" /\ steps # <<>> /\ Head(steps) = step /\ steps' = Tail(steps)
      /\ UNCHANGED <<kind, command, tree, before, status>>
      /\ snapshots # <<>> /\ snapshots' = SubSeq(snapshots, 1, Len(snapshots) - 1)
  BY DEF CommitStep, Commit, IsNext
<1>2. step[1] = "commit" /\ \A k : \A d : <<k, d>> # step
  OBVIOUS
<1>. HIDE DEF step
<1>3. \E S : steps \in Seq(S)
  BY <1>1 DEF SafetyInv, PlanInv, Plan
<1>4. Of(steps) = {step} \union Of(steps') /\ Kinds(steps) = {"commit"} \union Kinds(steps')
  BY <1>1, <1>2, <1>3, OfTail, KindsOfTail
<1>5. ContentInv'
  <2>1. /\ Len(snapshots) \in Nat /\ Len(snapshots') = Len(snapshots) - 1
        /\ \A i \in 1..(Len(snapshots) - 1) : snapshots'[i] = snapshots[i]
    BY <1>1, DropFrame DEF FileInv, Maps
  <2>2. \A i \in 1..Len(snapshots') : i \in 1..Len(snapshots) /\ snapshots'[i] = snapshots[i]
    BY <2>1
  <2>3. ServesGRPC' = ServesGRPC
    BY <1>1, SameKind
  <2>. QED
    BY <1>1, <2>2, <2>3 DEF ProgressInv, ContentInv
<1>6. HTTPAhead'
  <2>1. \A k \in HTTPKinds \union {"http"} : k \in Kinds(steps) <=> k \in Kinds(steps')
    BY <1>4 DEF HTTPKinds
  <2>. QED
    BY <1>1, <2>1, HTTPKept DEF ProgressInv
<1>7. ProtobufAhead'
  <2>1. \A k \in PbAhead : k \in Kinds(steps) <=> k \in Kinds(steps')
    BY <1>4 DEF PbAhead
  <2>. QED
    BY <1>1, <2>1, ProtobufKept DEF ProgressInv
<1>8. BindingsAhead'
  <2>1. \A t : Rendered(t, m, Kinds(steps), ServesGRPC) => Rendered(t, m, Kinds(steps'), ServesGRPC)
    BY <1>4 DEF Rendered
  <2>2. \A t : Served(t, m, Of(steps)) => Served(t, m, Of(steps'))
    <3>1. \A k : \A s : Reaches(Of(steps), k, s) => Reaches(Of(steps'), k, s)
      BY <1>2, <1>4 DEF Reaches
    <3>. QED
      BY <3>1 DEF Served
  <2>3. \A t : Reachable(t, m, Of(steps)) => Reachable(t, m, Of(steps'))
    BY <1>2, <1>4 DEF Reachable
  <2>4. HasServer' = HasServer /\ ServesGRPC' = ServesGRPC /\ (Untouched' <=> Untouched)
    BY <1>1, SameKind DEF Untouched
  <2>5. "rpc" \in Kinds(steps') <=> "rpc" \in Kinds(steps)
    BY <1>4
  <2>6. Kinds(steps') \subseteq Kinds(steps)
    BY <1>4
  <2>7. SUFFICES ASSUME HasServer, BindingsAhead
                 PROVE  BindingsAhead'
    BY <2>4 DEF ProgressInv, BindingsAhead
  <2>8. CASE command.name = "generate"
    <3>1. "generate" \notin Binders
      BY DEF Binders
    <3>. QED
      BY <1>1, <2>1, <2>2, <2>4, <2>5, <2>6, <2>7, <2>8, <3>1 DEF BindingsAhead
  <2>9. CASE command.name # "generate"
    BY <1>1, <2>1, <2>2, <2>3, <2>4, <2>7, <2>9 DEF BindingsAhead
  <2>. QED
    BY <2>8, <2>9
<1>. QED
  BY <1>5, <1>6, <1>7, <1>8 DEF ProgressInv

LEMMA EndProgress ==
  ASSUME ProgressInv, End
  PROVE  ProgressInv'
<1>1. UNCHANGED <<tree, snapshots, kind>> /\ status' # "working"
  BY DEF End, Finish, GiveUp, toolVars
<1>2. ContentInv'
  BY <1>1, SameKind DEF ProgressInv, ContentInv
<1>. QED
  BY <1>1, <1>2, StoppedProgress

LEMMA RestoreProgress ==
  ASSUME FileInv, ProgressInv, Restore
  PROVE  ProgressInv'
<1>1. PICK lost, fails :
        /\ Undo(lost, fails) /\ kind' = kind
        /\ \A p \in DOMAIN lost : lost[p] \in Remains(p) \union {Absent, tree[p]}
  BY RestoreIsUndo DEF toolVars
<1>2. status' # "working" /\ snapshots # <<>>
  BY <1>1 DEF Undo
<1>3. /\ Len(snapshots) \in Nat /\ Len(snapshots) > 0
      /\ Len(SubSeq(snapshots, 1, Len(snapshots) - 1)) = Len(snapshots) - 1
      /\ \A i \in 1..(Len(snapshots) - 1) : SubSeq(snapshots, 1, Len(snapshots) - 1)[i] = snapshots[i]
  BY <1>2, DropFrame DEF FileInv, Maps
<1>4. ServesGRPC' = ServesGRPC
  BY <1>1, SameKind
<1>5. ASSUME NEW p \in Path
      PROVE  Fits(p, tree'[p], ServesGRPC)
  <2>. DEFINE back == [q \in DOMAIN Top |-> IF q \in DOMAIN lost THEN lost[q] ELSE Top[q]]
  <2>1. tree'[p] = IF p \in DOMAIN back THEN back[p] ELSE tree[p]
    <3>1. tree' = With(back)
      BY <1>1 DEF Undo
    <3>. HIDE DEF back
    <3>. QED
      BY <3>1, WithNew
  <2>2. \/ tree'[p] \in Remains(p) \union {Absent, tree[p]}
        \/ p \in DOMAIN Top /\ tree'[p] = Top[p]
    BY <1>1, <2>1
  <2>3. Len(snapshots) \in 1..Len(snapshots)
    BY <1>3
  <2>. QED
    BY <2>2, <2>3, FitsNone DEF Top, ProgressInv, ContentInv
<1>6. \A i \in 1..Len(snapshots') : \A p \in Path \intersect DOMAIN snapshots'[i] :
        Fits(p, snapshots'[i][p], ServesGRPC)
  <2>1. CASE snapshots' = <<>>
    BY <2>1, EmptySeqOfFrames
  <2>2. CASE snapshots' = SubSeq(snapshots, 1, Len(snapshots) - 1)
    <3>1. \A i \in 1..Len(snapshots') : i \in 1..Len(snapshots) /\ snapshots'[i] = snapshots[i]
      BY <1>3, <2>2
    <3>. QED
      BY <3>1 DEF ProgressInv, ContentInv
  <2>. QED
    BY <1>1, <2>1, <2>2 DEF Undo
<1>7. ContentInv'
  BY <1>4, <1>5, <1>6 DEF ContentInv
<1>. QED
  BY <1>2, <1>7, StoppedProgress

LEMMA EditProgress ==
  ASSUME FileInv, SafetyInv, ProgressInv, Edit
  PROVE  ProgressInv'
<1>1. PICK p \in ServiceFile \union {Models} \union {Proto(f) : f \in ProtoFile} :
        \E content : Outside(p, content)
  BY DEF Edit, Readable
<1>2. PICK content : Outside(p, content)
  BY <1>1
<1>3. p \in Path /\ p \notin {Contract, LocalConfig, External}
  <2>1. CASE p \in Owned
    BY <2>1, Places DEF Owned, ServiceFile
  <2>2. ASSUME NEW f \in ProtoFile, p = Proto(f)
        PROVE  p \in Path /\ p \notin {Contract, LocalConfig, External}
    BY <2>2, Places, PathAssumption DEF ProjectPath, RpcPaths
  <2>. QED
    BY <1>1, <2>1, <2>2 DEF Owned
<1>4. AtRest /\ kind' = kind /\ status' = status
  BY <1>2 DEF Edit, toolVars, Outside
<1>5. snapshots' = <<>>
  <2>1. FileInv'
    BY <1>2, <1>3, OutsideInv
  <2>. QED
    BY <1>4, <2>1 DEF FileInv, Orderly, AtRest
<1>6. tree' = [tree EXCEPT ![p] = content]
  BY <1>2 DEF Outside
<1>7. \A q \in Path : q = p \/ tree'[q] = tree[q]
  BY <1>3, <1>6 DEF FileInv, Maps
<1>8. ServesGRPC' = ServesGRPC
  BY <1>4, SameKind
<1>9. \A q \in Path : Fits(q, tree'[q], ServesGRPC)
  BY <1>3, <1>7, FitsElsewhere DEF ProgressInv, ContentInv
<1>10. \A i \in 1..Len(snapshots') : FALSE
  BY <1>5, EmptySeqOfFrames
<1>11. ContentInv'
  BY <1>8, <1>9, <1>10 DEF ContentInv
<1>. QED
  BY <1>4, <1>11, StoppedProgress DEF AtRest

LEMMA OccupyProgress ==
  ASSUME FileInv, SafetyInv, ProgressInv, Occupy
  PROVE  ProgressInv'
<1>1. /\ status = "working" /\ command.name = "new"
      /\ UNCHANGED <<kind, command, steps, published>>
      /\ Outside(Target, "occupied")
  BY DEF Occupy, toolVars
<1>2. /\ tree' = [tree EXCEPT ![Target] = "occupied"]
      /\ before' = [before EXCEPT ![Target] = "occupied"]
      /\ snapshots' = [i \in DOMAIN snapshots |->
                         IF Target \in DOMAIN snapshots[i]
                         THEN [snapshots[i] EXCEPT ![Target] = "occupied"]
                         ELSE snapshots[i]]
  BY <1>1 DEF Outside
<1>3. /\ before'[Target] = "occupied" /\ \A q \in Path \ {Target} : tree'[q] = tree[q]
  BY <1>2, Places DEF FileInv, Maps
<1>4. Target \notin {Contract, LocalConfig, External}
  BY Places
<1>5. \A q \in Path : Fits(q, tree'[q], ServesGRPC)
  BY <1>3, <1>4, FitsElsewhere DEF ProgressInv, ContentInv
<1>6. \A i \in 1..Len(snapshots') : \A q \in Path \intersect DOMAIN snapshots'[i] :
        Fits(q, snapshots'[i][q], ServesGRPC)
  <2>1. DOMAIN snapshots = 1..Len(snapshots)
    BY LenProperties DEF FileInv, Maps, SeqOfFrames
  <2>2. FileInv'
    BY <1>1, OutsideInv, Places
  <2>3. DOMAIN snapshots' = 1..Len(snapshots')
    BY <2>2, LenProperties DEF FileInv, Maps, SeqOfFrames
  <2>4. 1..Len(snapshots') = 1..Len(snapshots)
    BY <1>2, <2>1, <2>3
  <2>5. \A i \in 1..Len(snapshots) : DOMAIN snapshots[i] = {Target}
    BY <1>1 DEF SafetyInv, TargetInv, Running
  <2>6. \A i \in 1..Len(snapshots) : snapshots'[i] = [snapshots[i] EXCEPT ![Target] = "occupied"]
    BY <1>2, <2>1, <2>5
  <2>7. \A i \in 1..Len(snapshots) : DOMAIN snapshots'[i] = {Target}
    BY <2>5, <2>6
  <2>. QED
    BY <1>4, <2>4, <2>7, FitsElsewhere
<1>7. ContentInv'
  BY <1>1, <1>5, <1>6, SameKind DEF ContentInv
<1>8. "sync" \notin Kinds(steps)
  BY <1>1 DEF SafetyInv, PlanInv, Plan, Takes, Kinds
<1>9. HTTPAhead' /\ ProtobufAhead'
  BY <1>1, <1>8 DEF HTTPAhead, ProtobufAhead
<1>10. BindingsAhead'
  BY <1>1, <1>3 DEF BindingsAhead, Binders
<1>. QED
  BY <1>7, <1>9, <1>10 DEF ProgressInv

LEMMA PublishProgress ==
  ASSUME ProgressInv, NEW s \in Service, NEW ms \in SUBSET Method, Publish(s, ms)
  PROVE  ProgressInv'
<1>1. UNCHANGED <<tree, snapshots, kind, status>> /\ status # "working"
  BY DEF Publish, fileVars, toolVars, AtRest
<1>2. ContentInv'
  BY <1>1, SameKind DEF ProgressInv, ContentInv
<1>. QED
  BY <1>1, <1>2, StoppedProgress

LEMMA StandstillProgress ==
  ASSUME ProgressInv, UNCHANGED vars
  PROVE  ProgressInv'
<1>1. UNCHANGED <<tree, snapshots, status, before, kind, command, steps, published>>
  BY DEF vars, fileVars, toolVars
<1>2. /\ ServesGRPC' = ServesGRPC /\ HasServer' = HasServer
      /\ HasGRPC' = HasGRPC /\ HasWeb' = HasWeb
  BY <1>1, SameKind
<1>3. ContentInv'
  BY <1>1, <1>2 DEF ProgressInv, ContentInv
<1>4. HTTPAhead'
  BY <1>1, <1>2 DEF ProgressInv, HTTPAhead
<1>5. ProtobufAhead'
  BY <1>1, ProtobufKept DEF ProgressInv
<1>6. Untouched' <=> Untouched
  BY <1>1 DEF Untouched
<1>7. BindingsAhead'
  BY <1>1, <1>2, <1>6 DEF ProgressInv, BindingsAhead
<1>. QED
  BY <1>3, <1>4, <1>5, <1>7 DEF ProgressInv

LEMMA EnvironmentProgress ==
  ASSUME FileInv, SafetyInv, ProgressInv, Environment
  PROVE  ProgressInv'
BY EditProgress, OccupyProgress, PublishProgress DEF Environment

-------------------------------------------------------------------------------
(* Which steps are in a list.                                              *)

Listed(s, of) == (\E S : s \in Seq(S)) /\ Of(s) = of

LEMMA ListedFew ==
  /\ Listed(<<>>, {})
  /\ \A a : Listed(<<a>>, {a})
  /\ \A a, b : Listed(<<a, b>>, {a, b})
  /\ \A a, b, c : Listed(<<a, b, c>>, {a, b, c})
  /\ \A a, b, c, d : Listed(<<a, b, c, d>>, {a, b, c, d})
  /\ \A a, b, c, d, e : Listed(<<a, b, c, d, e>>, {a, b, c, d, e})
<1>1. Listed(<<>>, {})
  <2>1. <<>> \in Seq({})
    OBVIOUS
  <2>. QED
    BY <2>1, OpenNothing DEF Listed
<1>2. ASSUME NEW a
      PROVE  Listed(<<a>>, {a})
  <2>. DEFINE s == <<a>>
  <2>1. /\ s \in Seq({a}) /\ Len(s) = 1
        /\ s[1] = a
    OBVIOUS
  <2>. HIDE DEF s
  <2>2. 1..Len(s) = {1}
    BY <2>1
  <2>3. Of(s) = {a}
    BY <2>1, <2>2 DEF Of
  <2>4. Listed(s, {a})
    BY <2>1, <2>3 DEF Listed
  <2>. QED
    BY <2>4 DEF s
<1>3. ASSUME NEW a, NEW b
      PROVE  Listed(<<a, b>>, {a, b})
  <2>. DEFINE s == <<a, b>>
  <2>1. /\ s \in Seq({a, b}) /\ Len(s) = 2
        /\ s[1] = a /\ s[2] = b
    OBVIOUS
  <2>. HIDE DEF s
  <2>2. 1..Len(s) = {1, 2}
    BY <2>1
  <2>3. Of(s) = {a, b}
    BY <2>1, <2>2 DEF Of
  <2>4. Listed(s, {a, b})
    BY <2>1, <2>3 DEF Listed
  <2>. QED
    BY <2>4 DEF s
<1>4. ASSUME NEW a, NEW b, NEW c
      PROVE  Listed(<<a, b, c>>, {a, b, c})
  <2>. DEFINE s == <<a, b, c>>
  <2>1. /\ s \in Seq({a, b, c}) /\ Len(s) = 3
        /\ s[1] = a /\ s[2] = b /\ s[3] = c
    OBVIOUS
  <2>. HIDE DEF s
  <2>2. 1..Len(s) = {1, 2, 3}
    BY <2>1
  <2>3. Of(s) = {a, b, c}
    BY <2>1, <2>2 DEF Of
  <2>4. Listed(s, {a, b, c})
    BY <2>1, <2>3 DEF Listed
  <2>. QED
    BY <2>4 DEF s
<1>5. ASSUME NEW a, NEW b, NEW c, NEW d
      PROVE  Listed(<<a, b, c, d>>, {a, b, c, d})
  <2>. DEFINE s == <<a, b, c, d>>
  <2>1. /\ s \in Seq({a, b, c, d}) /\ Len(s) = 4
        /\ s[1] = a /\ s[2] = b /\ s[3] = c /\ s[4] = d
    OBVIOUS
  <2>. HIDE DEF s
  <2>2. 1..Len(s) = {1, 2, 3, 4}
    BY <2>1
  <2>3. Of(s) = {a, b, c, d}
    BY <2>1, <2>2 DEF Of
  <2>4. Listed(s, {a, b, c, d})
    BY <2>1, <2>3 DEF Listed
  <2>. QED
    BY <2>4 DEF s
<1>6. ASSUME NEW a, NEW b, NEW c, NEW d, NEW e
      PROVE  Listed(<<a, b, c, d, e>>, {a, b, c, d, e})
  <2>. DEFINE s == <<a, b, c, d, e>>
  <2>1. /\ s \in Seq({a, b, c, d, e}) /\ Len(s) = 5
        /\ s[1] = a /\ s[2] = b /\ s[3] = c /\ s[4] = d /\ s[5] = e
    OBVIOUS
  <2>. HIDE DEF s
  <2>2. 1..Len(s) = {1, 2, 3, 4, 5}
    BY <2>1
  <2>3. Of(s) = {a, b, c, d, e}
    BY <2>1, <2>2 DEF Of
  <2>4. Listed(s, {a, b, c, d, e})
    BY <2>1, <2>3 DEF Listed
  <2>. QED
    BY <2>4 DEF s
<1>. QED
  BY <1>1, <1>2, <1>3, <1>4, <1>5, <1>6

LEMMA ListedConcat ==
  ASSUME NEW s, NEW t, NEW a, NEW b, Listed(s, a), Listed(t, b)
  PROVE  Listed(s \o t, a \union b)
BY ConcatOf DEF Listed

LEMMA ListedIf ==
  ASSUME NEW s, NEW a, NEW wanted, Listed(s, a)
  PROVE  Listed(IF wanted THEN s ELSE <<>>, IF wanted THEN a ELSE {})
BY ListedFew

LEMMA ListedEnd ==
  /\ Listed(Verified, {<<"compile">>, <<"commit">>})
  /\ \A wanted : Listed(TidyIf(wanted), IF wanted THEN {<<"tidy">>} ELSE {})
<1>1. Verified = <<<<"compile">>, <<"commit">>>>
  BY DEF Verified
<1>2. ASSUME NEW wanted
      PROVE  Listed(TidyIf(wanted), IF wanted THEN {<<"tidy">>} ELSE {})
  <2>1. Listed(<<<<"tidy">>>>, {<<"tidy">>})
    BY ListedFew
  <2>. QED
    BY <2>1, ListedIf DEF TidyIf
<1>. QED
  BY <1>1, <1>2, ListedFew

LEMMA ListedBinding ==
  ASSUME NEW s, NEW of, NEW wanted, Listed(s, of)
  PROVE  LET todo == s \o TidyIf(wanted) \o Verified
             ends == {<<"tidy">>, <<"compile">>, <<"commit">>}
         IN of \subseteq Of(todo) /\ Of(todo) \subseteq of \union ends
<1>. DEFINE a == IF wanted THEN {<<"tidy">>} ELSE {}
            b == {<<"compile">>, <<"commit">>}
<1>1. a \union b \subseteq {<<"tidy">>, <<"compile">>, <<"commit">>}
  OBVIOUS
<1>2. Listed(TidyIf(wanted), a) /\ Listed(Verified, b)
  BY ListedEnd
<1>. HIDE DEF a, b
<1>3. Listed((s \o TidyIf(wanted)) \o Verified, (of \union a) \union b)
  BY <1>2, ListedConcat
<1>. QED
  BY <1>1, <1>3 DEF Listed

-------------------------------------------------------------------------------
(* The commands start.                                                     *)

LEMMA StartContent ==
  ASSUME ProgressInv, NEW name, NEW manifest, NEW taken, NEW todo, NEW ps,
         taken \in {<<>>, <<Saved(ps)>>}, Start(name, manifest, taken, todo)
  PROVE  ContentInv'
<1>1. UNCHANGED <<tree, kind>> /\ snapshots' = taken
  BY DEF Start, Begin
<1>2. ASSUME NEW i \in 1..Len(taken), NEW p \in Path \intersect DOMAIN taken[i]
      PROVE  Fits(p, taken[i][p], ServesGRPC)
  <2>1. Len(<<>>) = 0 /\ Len(<<Saved(ps)>>) = 1 /\ <<Saved(ps)>>[1] = Saved(ps)
    OBVIOUS
  <2>2. taken[i] = Saved(ps)
    BY <1>2, <2>1
  <2>3. taken[i][p] = tree[p]
    BY <1>2, <2>2 DEF Saved
  <2>. QED
    BY <2>3 DEF ProgressInv, ContentInv
<1>. QED
  BY <1>1, <1>2, SameKind DEF ProgressInv, ContentInv

LEMMA StartTakes ==
  ASSUME SafetyInv', NEW name, NEW manifest, NEW taken, NEW todo,
         Start(name, manifest, taken, todo)
  PROVE  \A k \in Kinds(todo) : Takes(name, k)
<1>1. status' = "working" /\ steps' = todo /\ command'.name = name
  BY DEF Start, Begin
<1>. QED
  BY <1>1 DEF SafetyInv, PlanInv, Plan, Kinds

(* A command that leaves the bindings alone.                               *)
LEMMA StartAsideProgress ==
  ASSUME SafetyInv', ProgressInv, NEW name, NEW manifest, NEW taken, NEW todo, NEW ps,
         taken \in {<<>>, <<Saved(ps)>>}, Start(name, manifest, taken, todo),
         name \in {"new", "api-add", "api-generate", "pb-generate", "pb-service-add", "pb-method-add"},
         name = "new" => tree[Target] # "project",
         name = "api-generate" => Readable(Contract)
  PROVE  ProgressInv'
<1>1. /\ UNCHANGED <<tree, kind>> /\ before' = tree /\ status' = "working" /\ steps' = todo
      /\ command'.name = name
  BY DEF Start, Begin
<1>2. HTTPAhead'
  <2>1. "sync" \in Kinds(todo) => name = "api-generate"
    BY StartTakes DEF Takes, PbKinds
  <2>2. Contract \in Path
    BY PathAssumption DEF ProjectPath, HttpPaths
  <2>3. name = "api-generate" =>
          tree[Contract] = [operations |-> tree[Contract].operations, models |-> tree[Contract].models]
    BY <2>2 DEF ProgressInv, ContentInv, Fits, Readable
  <2>. QED
    BY <1>1, <2>1, <2>3 DEF HTTPAhead
<1>3. ProtobufAhead'
  BY <1>1 DEF ProtobufAhead
<1>4. BindingsAhead'
  BY <1>1 DEF BindingsAhead, Binders, Untouched
<1>. QED
  BY <1>2, <1>3, <1>4, StartContent DEF ProgressInv

LEMMA AsideCommandsProgress ==
  ASSUME SafetyInv', ProgressInv,
         \/ New \/ APIGenerate \/ PBGenerate
         \/ \E o \in Operation : AddOperation(o)
         \/ \E f \in ProtoFile : AddService(f) \/ AddMethod(f)
  PROVE  ProgressInv'
<1>1. Vacant => tree[Target] # "project"
  BY ContentAssumption DEF Vacant
<1>2. CASE New
  BY <1>1, <1>2, StartAsideProgress DEF New
<1>3. CASE APIGenerate
  BY <1>3, StartAsideProgress DEF APIGenerate
<1>4. CASE PBGenerate
  BY <1>4, StartAsideProgress DEF PBGenerate
<1>5. CASE \E o \in Operation : AddOperation(o)
  BY <1>5, StartAsideProgress DEF AddOperation
<1>6. CASE \E f \in ProtoFile : AddService(f) \/ AddMethod(f)
  BY <1>6, StartAsideProgress DEF AddService, AddMethod
<1>. QED
  BY <1>2, <1>3, <1>4, <1>5, <1>6

LEMMA RunGeneratorsProgress ==
  ASSUME SafetyInv', ProgressInv, RunGenerators
  PROVE  ProgressInv'
<1>. DEFINE x == <<"http">>
            y == <<"pb">>
            z == <<"rpc">>
            last == <<"commit">>
            a == IF HasWeb THEN {x} ELSE {}
            b == IF HasGRPC THEN {y} ELSE {}
            c == IF HasServer THEN {z} ELSE {}
            todo == (((IF HasWeb THEN <<x>> ELSE <<>>) \o (IF HasGRPC THEN <<y>> ELSE <<>>))
                       \o (IF HasServer THEN <<z>> ELSE <<>>)) \o <<last>>
            taken == <<Saved(GeneratorState)>>
            name == "generate"
<1>1. Start(name, NoBindings, taken, todo)
  BY DEF RunGenerators
<1>2. x[1] = "http" /\ y[1] = "pb" /\ z[1] = "rpc" /\ last[1] = "commit"
  OBVIOUS
<1>3. taken \in {<<>>, <<Saved(GeneratorState)>>}
  OBVIOUS
<1>. HIDE DEF x, y, z, last, taken
<1>4. Of(todo) = ((a \union b) \union c) \union {last}
  <2>1. /\ Listed(IF HasWeb THEN <<x>> ELSE <<>>, a) /\ Listed(IF HasGRPC THEN <<y>> ELSE <<>>, b)
        /\ Listed(IF HasServer THEN <<z>> ELSE <<>>, c) /\ Listed(<<last>>, {last})
    BY ListedFew, ListedIf
  <2>. HIDE DEF a, b, c
  <2>2. Listed(todo, ((a \union b) \union c) \union {last})
    BY <2>1, ListedConcat
  <2>. QED
    BY <2>2 DEF Listed
<1>. HIDE DEF todo
<1>5. /\ HasWeb => "http" \in Kinds(todo)
      /\ HasGRPC => "pb" \in Kinds(todo)
      /\ HasServer => "rpc" \in Kinds(todo)
      /\ "sync" \notin Kinds(todo)
  BY <1>2, <1>4, KindsOf
<1>6. /\ UNCHANGED <<tree, kind>> /\ before' = tree /\ status' = "working" /\ steps' = todo
      /\ command'.name = name
  BY <1>1 DEF Start, Begin
<1>7. /\ ServesGRPC' = ServesGRPC /\ HasServer' = HasServer
      /\ HasGRPC' = HasGRPC /\ HasWeb' = HasWeb
  BY <1>6, SameKind
<1>8. HTTPAhead'
  BY <1>5, <1>6, <1>7 DEF HTTPAhead
<1>9. ProtobufAhead'
  BY <1>5, <1>6, <1>7 DEF ProtobufAhead
<1>10. BindingsAhead'
  BY <1>5, <1>6, <1>7 DEF BindingsAhead, Binders, Untouched
<1>. QED
  BY <1>1, <1>3, <1>8, <1>9, <1>10, StartContent DEF ProgressInv

(* A manifest that is resolved has the methods of each service.            *)
LEMMA ResolvedMeans ==
  ASSUME NEW m \in Manifests, NEW pub
  PROVE  /\ DOMAIN ResolvedBy(m, pub).servers = DOMAIN m.servers
         /\ DOMAIN ResolvedBy(m, pub).clients = DOMAIN m.clients
         /\ m = ResolvedBy(m, pub) <=>
              /\ \A s \in DOMAIN m.servers : m.servers[s].methods = pub[s]
              /\ \A c \in DOMAIN m.clients : m.clients[c].methods = pub[m.clients[c].service]
<1>1. /\ m = [servers |-> m.servers, clients |-> m.clients]
      /\ m.servers \in [DOMAIN m.servers -> ServerBinding]
      /\ m.clients \in [DOMAIN m.clients -> ClientBinding]
  BY OfManifests
<1>. DEFINE servers == [s \in DOMAIN m.servers |-> [m.servers[s] EXCEPT !.methods = pub[s]]]
            clients == [c \in DOMAIN m.clients |->
                          [m.clients[c] EXCEPT !.methods = pub[m.clients[c].service]]]
<1>2. \A s \in DOMAIN m.servers :
        m.servers[s].methods = pub[s] <=> servers[s] = m.servers[s]
  BY <1>1 DEF ServerBinding
<1>3. \A c \in DOMAIN m.clients :
        m.clients[c].methods = pub[m.clients[c].service] <=> clients[c] = m.clients[c]
  BY <1>1 DEF ClientBinding
<1>4. DOMAIN servers = DOMAIN m.servers /\ servers = [s \in DOMAIN servers |-> servers[s]]
  OBVIOUS
<1>5. DOMAIN clients = DOMAIN m.clients /\ clients = [c \in DOMAIN clients |-> clients[c]]
  OBVIOUS
<1>6. ResolvedBy(m, pub) = [servers |-> servers, clients |-> clients]
  BY DEF ResolvedBy
<1>. HIDE DEF servers, clients
<1>7. m.servers = servers <=> \A s \in DOMAIN m.servers : servers[s] = m.servers[s]
  BY <1>1, <1>4
<1>8. m.clients = clients <=> \A c \in DOMAIN m.clients : clients[c] = m.clients[c]
  BY <1>1, <1>5
<1>9. m = [servers |-> servers, clients |-> clients] <=> m.servers = servers /\ m.clients = clients
  BY <1>1
<1>. QED
  BY <1>2, <1>3, <1>4, <1>5, <1>6, <1>7, <1>8, <1>9

(* What the commands load is what the tree has.                            *)
LEMMA Loaded ==
  ASSUME SafetyInv, ManifestReadable
  PROVE  /\ LoadManifest = ManifestOf(tree) /\ LoadManifest \in Manifests
         /\ GoodManifest(LoadManifest, ServesGRPC) /\ tree[Manifest] # Torn
BY LoadedGood DEF LoadManifest, ManifestOf, ManifestReadable, GoodManifest

LEMMA StartBindProgress ==
  ASSUME SafetyInv', ProgressInv, NEW name \in Binders, NEW next, NEW ps, NEW todo,
         Start(name, next, <<Saved(ps)>>, todo), UNCHANGED published,
         Agree(tree, published, ServesGRPC) =>
           /\ next = ResolvedBy(next, published)
           /\ Rendered(tree, next, Kinds(todo), ServesGRPC)
           /\ Served(tree, next, Of(todo))
           /\ Reachable(tree, next, Of(todo))
  PROVE  ProgressInv'
<1>1. /\ UNCHANGED <<tree, kind>> /\ before' = tree /\ status' = "working" /\ steps' = todo
      /\ command'.name = name /\ command'.manifest = next
  BY DEF Start, Begin
<1>2. name \notin {"new", "generate", "api-generate", "pb-generate"}
  BY DEF Binders
<1>3. "sync" \notin Kinds(todo)
  BY StartTakes DEF Takes, Binders, BindingKinds
<1>4. HTTPAhead' /\ ProtobufAhead'
  BY <1>1, <1>2, <1>3 DEF HTTPAhead, ProtobufAhead
<1>5. ServesGRPC' = ServesGRPC
  BY <1>1, SameKind
<1>6. BindingsAhead'
  BY <1>1, <1>2, <1>5 DEF BindingsAhead
<1>. QED
  BY <1>4, <1>6, StartContent DEF ProgressInv

LEMMA StartManifest ==
  ASSUME SafetyInv', NEW name, NEW manifest, NEW taken, NEW todo,
         Start(name, manifest, taken, todo), Kinds(todo) \intersect BindingKinds # {}
  PROVE  manifest \in Manifests
<1>1. steps' = todo /\ command'.manifest = manifest
  BY DEF Start
<1>. QED
  BY <1>1 DEF SafetyInv, ManifestInv, GoodManifest

LEMMA BindServerProgress ==
  ASSUME SafetyInv, SafetyInv', ProgressInv, NEW s \in Service, NEW h \in Handler, BindServer(s, h)
  PROVE  ProgressInv'
<1>. DEFINE m == LoadManifest
            servers == Bound(m.servers, s, [handler |-> h, methods |-> published[s]])
            next == [m EXCEPT !.servers = servers]
            files == ModuleFiles \union {Manifest, External} \union HandlerFiles(next, {s})
            a == <<"require", {s}>>
            b == <<"external">>
            c == <<"handler", s>>
            d == <<"stubs", s>>
            e == <<"manifest">>
            w == s \in Versioned
            todo == <<a, b, c, d, e>> \o TidyIf(w) \o Verified
            n == "server-bind"
<1>1. /\ ManifestReadable /\ UNCHANGED published
      /\ Start(n, next, <<Saved(files)>>, todo)
  BY DEF BindServer, CanBind
<1>2. n \in Binders
  BY DEF Binders
<1>3. b[1] = "external" /\ e[1] = "manifest"
  OBVIOUS
<1>4. \A x \in {a, b, c, d, e, <<"tidy">>, <<"compile">>, <<"commit">>} : x[1] # "remove-config"
  OBVIOUS
<1>. HIDE DEF n, files
<1>5. /\ {b, c, d, e} \subseteq Of(todo) /\ {"external", "manifest"} \subseteq Kinds(todo)
      /\ \A x \in Of(todo) : x[1] # "remove-config"
  <2>. HIDE DEF a, b, c, d, e, w
  <2>. DEFINE list == <<a, b, c, d, e>>
              of == {a, b, c, d, e}
              ends == {<<"tidy">>, <<"compile">>, <<"commit">>}
  <2>1. Listed(list, of)
    BY ListedFew
  <2>2. /\ {b, c, d, e} \subseteq of
        /\ \A x \in of \union ends : x[1] # "remove-config"
    BY <1>4
  <2>. HIDE DEF list, of, ends
  <2>3. of \subseteq Of(list \o TidyIf(w) \o Verified)
        /\ Of(list \o TidyIf(w) \o Verified) \subseteq of \union ends
    BY <2>1, ListedBinding DEF ends
  <2>4. of \subseteq Of(todo) /\ Of(todo) \subseteq of \union ends
    BY <2>3 DEF list
  <2>. HIDE DEF todo
  <2>5. {b, e} \subseteq Of(todo)
    BY <2>2, <2>4
  <2>6. {"external", "manifest"} \subseteq Kinds(todo)
    BY <1>3, <2>5, KindsOf
  <2>. QED
    BY <2>2, <2>4, <2>6
<1>6. m = ManifestOf(tree) /\ m \in Manifests /\ tree[Manifest] # Torn /\ GoodManifest(m, ServesGRPC)
  BY <1>1, Loaded
<1>. HIDE DEF m
<1>7. /\ m = [servers |-> m.servers, clients |-> m.clients]
      /\ DOMAIN m.servers \in SUBSET Service /\ m.servers \in [DOMAIN m.servers -> ServerBinding]
  BY <1>6, OfManifests
<1>8. /\ next.servers = servers /\ next.clients = m.clients
      /\ DOMAIN servers = DOMAIN m.servers \union {s}
      /\ \A t \in DOMAIN servers : t # s => servers[t] = m.servers[t]
      /\ servers[s] = [handler |-> h, methods |-> published[s]]
  BY <1>7 DEF Bound
<1>9. next \in Manifests
  <2>. HIDE DEF todo, next
  <2>. QED
    BY <1>1, <1>5, StartManifest DEF BindingKinds
<1>. HIDE DEF todo, next, servers
<1>10. ASSUME Agree(tree, published, ServesGRPC)
       PROVE  /\ next = ResolvedBy(next, published)
              /\ Rendered(tree, next, Kinds(todo), ServesGRPC)
              /\ Served(tree, next, Of(todo))
              /\ Reachable(tree, next, Of(todo))
  <2>1. /\ \A t \in DOMAIN m.servers : m.servers[t].methods = published[t]
        /\ \A t \in DOMAIN m.clients : m.clients[t].methods = published[m.clients[t].service]
    BY <1>6, <1>10, ResolvedMeans DEF Agree
  <2>2. next = ResolvedBy(next, published)
    <3>1. \A t \in DOMAIN next.servers : next.servers[t].methods = published[t]
      BY <1>8, <2>1
    <3>. QED
      BY <1>8, <1>9, <2>1, <3>1, ResolvedMeans
  <2>3. Rendered(tree, next, Kinds(todo), ServesGRPC)
    <3>1. ClientCode(next) = ClientCode(m)
      BY <1>8 DEF ClientCode
    <3>. QED
      BY <1>5, <1>6, <1>10, <3>1 DEF Agree, Rendered
  <2>4. Served(tree, next, Of(todo))
    <3>1. ASSUME NEW t \in DOMAIN m.servers, t # s
          PROVE  HasHandler(tree, next, t) /\ HasStubs(tree, next, t)
      <4>1. next.servers[t] = m.servers[t]
        BY <1>8, <3>1
      <4>2. HasHandler(tree, m, t) /\ HasStubs(tree, m, t)
        BY <1>6, <1>10 DEF Agree, Served, Reaches
      <4>. QED
        BY <4>1, <4>2 DEF HasHandler, HasStubs
    <3>2. Reaches(Of(todo), "handler", s) /\ Reaches(Of(todo), "stubs", s)
      BY <1>5 DEF Reaches
    <3>. QED
      BY <1>8, <3>1, <3>2 DEF Served
  <2>5. Reachable(tree, next, Of(todo))
    <3>1. \A x : <<"remove-config", x>> \notin Of(todo)
      <4>1. \A x : <<"remove-config", x>>[1] = "remove-config"
        OBVIOUS
      <4>. QED
        BY <1>5, <4>1
    <3>2. \A x \in DOMAIN m.clients : tree[LocalConfig] # Torn /\ x \in tree[LocalConfig]
      <4>1. m.clients = <<>> => DOMAIN m.clients = {}
        OBVIOUS
      <4>. QED
        BY <1>6, <1>10, <4>1 DEF Agree, Configured
    <3>. QED
      BY <1>8, <3>1, <3>2 DEF Reachable
  <2>. QED
    BY <2>2, <2>3, <2>4, <2>5
<1>. QED
  BY <1>1, <1>2, <1>10, StartBindProgress

LEMMA UnbindServerProgress ==
  ASSUME SafetyInv, SafetyInv', ProgressInv, NEW s \in Service, UnbindServer(s)
  PROVE  ProgressInv'
<1>. DEFINE m == LoadManifest
            servers == Unbound(m.servers, s)
            next == [m EXCEPT !.servers = servers]
            files == ModuleFiles \union {Manifest, External}
            a == <<"external">>
            b == <<"manifest">>
            w == s \in Versioned
            todo == <<a, b>> \o TidyIf(w) \o Verified
            n == "server-unbind"
<1>1. /\ ManifestReadable /\ UNCHANGED published
      /\ Start(n, next, <<Saved(files)>>, todo)
  BY DEF UnbindServer, CanBind
<1>2. n \in Binders
  BY DEF Binders
<1>3. a[1] = "external" /\ b[1] = "manifest"
  OBVIOUS
<1>4. \A x \in {a, b, <<"tidy">>, <<"compile">>, <<"commit">>} : x[1] # "remove-config"
  OBVIOUS
<1>. HIDE DEF n, files
<1>5. /\ {"external", "manifest"} \subseteq Kinds(todo)
      /\ \A x \in Of(todo) : x[1] # "remove-config"
  <2>. HIDE DEF a, b, w
  <2>. DEFINE list == <<a, b>>
              of == {a, b}
              ends == {<<"tidy">>, <<"compile">>, <<"commit">>}
  <2>1. Listed(list, of)
    BY ListedFew
  <2>2. a \in of /\ b \in of /\ \A x \in of \union ends : x[1] # "remove-config"
    BY <1>4
  <2>. HIDE DEF list, of, ends
  <2>3. of \subseteq Of(list \o TidyIf(w) \o Verified)
        /\ Of(list \o TidyIf(w) \o Verified) \subseteq of \union ends
    BY <2>1, ListedBinding DEF ends
  <2>4. of \subseteq Of(todo) /\ Of(todo) \subseteq of \union ends
    BY <2>3 DEF list
  <2>. HIDE DEF todo
  <2>5. {"external", "manifest"} \subseteq Kinds(todo)
    BY <1>3, <2>2, <2>4, KindsOf
  <2>. QED
    BY <2>2, <2>4, <2>5
<1>6. m = ManifestOf(tree) /\ m \in Manifests /\ tree[Manifest] # Torn
  BY <1>1, Loaded
<1>. HIDE DEF m
<1>7. /\ m = [servers |-> m.servers, clients |-> m.clients]
      /\ DOMAIN m.servers \in SUBSET Service /\ m.servers \in [DOMAIN m.servers -> ServerBinding]
  BY <1>6, OfManifests
<1>8. /\ next.servers = servers /\ next.clients = m.clients
      /\ \A t \in DOMAIN servers : t \in DOMAIN m.servers /\ servers[t] = m.servers[t]
  BY <1>7 DEF Unbound
<1>9. next \in Manifests
  <2>. HIDE DEF todo, next
  <2>. QED
    BY <1>1, <1>5, StartManifest DEF BindingKinds
<1>. HIDE DEF todo, next, servers
<1>10. ASSUME Agree(tree, published, ServesGRPC)
       PROVE  /\ next = ResolvedBy(next, published)
              /\ Rendered(tree, next, Kinds(todo), ServesGRPC)
              /\ Served(tree, next, Of(todo))
              /\ Reachable(tree, next, Of(todo))
  <2>1. /\ \A t \in DOMAIN m.servers : m.servers[t].methods = published[t]
        /\ \A t \in DOMAIN m.clients : m.clients[t].methods = published[m.clients[t].service]
    BY <1>6, <1>10, ResolvedMeans DEF Agree
  <2>2. next = ResolvedBy(next, published)
    BY <1>8, <1>9, <2>1, ResolvedMeans
  <2>3. Rendered(tree, next, Kinds(todo), ServesGRPC)
    <3>1. ClientCode(next) = ClientCode(m)
      BY <1>8 DEF ClientCode
    <3>. QED
      BY <1>5, <1>6, <1>10, <3>1 DEF Agree, Rendered
  <2>4. Served(tree, next, Of(todo))
    <3>1. ASSUME NEW t \in DOMAIN next.servers
          PROVE  HasHandler(tree, next, t) /\ HasStubs(tree, next, t)
      <4>1. t \in DOMAIN m.servers /\ next.servers[t] = m.servers[t]
        BY <1>8, <3>1
      <4>2. HasHandler(tree, m, t) /\ HasStubs(tree, m, t)
        BY <1>6, <1>10, <4>1 DEF Agree, Served, Reaches
      <4>. QED
        BY <4>1, <4>2 DEF HasHandler, HasStubs
    <3>. QED
      BY <3>1 DEF Served
  <2>5. Reachable(tree, next, Of(todo))
    <3>1. \A x : <<"remove-config", x>> \notin Of(todo)
      <4>1. \A x : <<"remove-config", x>>[1] = "remove-config"
        OBVIOUS
      <4>. QED
        BY <1>5, <4>1
    <3>2. \A x \in DOMAIN m.clients : tree[LocalConfig] # Torn /\ x \in tree[LocalConfig]
      <4>1. m.clients = <<>> => DOMAIN m.clients = {}
        OBVIOUS
      <4>. QED
        BY <1>6, <1>10, <4>1 DEF Agree, Configured
    <3>. QED
      BY <1>8, <3>1, <3>2 DEF Reachable
  <2>. QED
    BY <2>2, <2>3, <2>4, <2>5
<1>. QED
  BY <1>1, <1>2, <1>10, StartBindProgress

LEMMA BindClientProgress ==
  ASSUME SafetyInv, SafetyInv', ProgressInv, NEW c \in Client, NEW s \in Service, BindClient(c, s)
  PROVE  ProgressInv'
<1>. DEFINE m == LoadManifest
            replaced == c \in DOMAIN m.clients
            clients == Bound(m.clients, c, [service |-> s, methods |-> published[s]])
            next == [m EXCEPT !.clients = clients]
            files == ModuleFiles \union {Manifest, LocalConfig, ClientsGen}
            x == <<"require", {s}>>
            y == <<"clients">>
            z == <<"add-config", c>>
            u == <<"manifest">>
            w == s \in Versioned
            config == IF ~replaced THEN <<z>> ELSE <<>>
            list == (<<x, y>> \o config) \o <<u>>
            todo == list \o TidyIf(w) \o Verified
            n == "client-bind"
<1>1. /\ ManifestReadable /\ UNCHANGED published
      /\ Start(n, next, <<Saved(files)>>, todo)
  <2>1. config = IF replaced THEN <<>> ELSE <<z>>
    OBVIOUS
  <2>. HIDE DEF config, n, files, x, y, z, u, w
  <2>2. /\ ManifestReadable /\ UNCHANGED published
        /\ Start(n, next, <<Saved(files)>>,
                 <<x, y>> \o (IF replaced THEN <<>> ELSE <<z>>) \o <<u>> \o TidyIf(w) \o Verified)
    BY DEF BindClient, CanBind, n, files, x, y, z, u, w
  <2>. QED
    BY <2>1, <2>2
<1>2. n \in Binders
  BY DEF Binders
<1>3. x[1] = "require" /\ y[1] = "clients" /\ u[1] = "manifest"
  OBVIOUS
<1>4. \A v \in {x, y, z, u, <<"tidy">>, <<"compile">>, <<"commit">>} : v[1] # "remove-config"
  OBVIOUS
<1>. HIDE DEF n, files, config
<1>5. /\ {"clients", "manifest"} \subseteq Kinds(todo)
      /\ ~replaced => z \in Of(todo)
      /\ \A v \in Of(todo) : v[1] # "remove-config"
  <2>. HIDE DEF x, y, z, u, w, replaced
  <2>. DEFINE added == IF ~replaced THEN {z} ELSE {}
              of == ({x, y} \union added) \union {u}
              ends == {<<"tidy">>, <<"compile">>, <<"commit">>}
  <2>1. Listed(list, of)
    <3>1. Listed(<<x, y>>, {x, y}) /\ Listed(config, added) /\ Listed(<<u>>, {u})
      BY ListedFew, ListedIf DEF config
    <3>. HIDE DEF added
    <3>. QED
      BY <3>1, ListedConcat
  <2>2. /\ y \in of /\ u \in of /\ (~replaced => z \in of)
        /\ \A v \in of \union ends : v[1] # "remove-config"
    BY <1>4
  <2>. HIDE DEF list, of, ends
  <2>3. of \subseteq Of(list \o TidyIf(w) \o Verified)
        /\ Of(list \o TidyIf(w) \o Verified) \subseteq of \union ends
    BY <2>1, ListedBinding DEF ends
  <2>. HIDE DEF todo
  <2>4. of \subseteq Of(todo) /\ Of(todo) \subseteq of \union ends
    BY <2>3 DEF todo
  <2>5. {"clients", "manifest"} \subseteq Kinds(todo)
    BY <1>3, <2>2, <2>4, KindsOf
  <2>. QED
    BY <2>2, <2>4, <2>5
<1>6. m = ManifestOf(tree) /\ m \in Manifests /\ tree[Manifest] # Torn
  BY <1>1, Loaded
<1>. HIDE DEF m
<1>7. /\ m = [servers |-> m.servers, clients |-> m.clients]
      /\ DOMAIN m.clients \in SUBSET Client /\ m.clients \in [DOMAIN m.clients -> ClientBinding]
  BY <1>6, OfManifests
<1>8. /\ next.clients = clients /\ next.servers = m.servers
      /\ DOMAIN clients = DOMAIN m.clients \union {c}
      /\ \A t \in DOMAIN clients : t # c => clients[t] = m.clients[t]
      /\ clients[c] = [service |-> s, methods |-> published[s]]
  BY <1>7 DEF Bound
<1>9. next \in Manifests
  <2>. HIDE DEF todo, next
  <2>. QED
    BY <1>1, <1>5, StartManifest DEF BindingKinds
<1>. HIDE DEF todo, next, clients
<1>10. ASSUME Agree(tree, published, ServesGRPC)
       PROVE  /\ next = ResolvedBy(next, published)
              /\ Rendered(tree, next, Kinds(todo), ServesGRPC)
              /\ Served(tree, next, Of(todo))
              /\ Reachable(tree, next, Of(todo))
  <2>1. /\ \A t \in DOMAIN m.servers : m.servers[t].methods = published[t]
        /\ \A t \in DOMAIN m.clients : m.clients[t].methods = published[m.clients[t].service]
    BY <1>6, <1>10, ResolvedMeans DEF Agree
  <2>2. next = ResolvedBy(next, published)
    <3>1. \A t \in DOMAIN next.clients : next.clients[t].methods = published[next.clients[t].service]
      BY <1>8, <2>1
    <3>. QED
      BY <1>8, <1>9, <2>1, <3>1, ResolvedMeans
  <2>3. Rendered(tree, next, Kinds(todo), ServesGRPC)
    <3>1. ServerCode(next) = ServerCode(m)
      BY <1>8 DEF ServerCode
    <3>. QED
      BY <1>5, <1>6, <1>10, <3>1 DEF Agree, Rendered
  <2>4. Served(tree, next, Of(todo))
    <3>1. Served(tree, m, {})
      BY <1>6, <1>10 DEF Agree
    <3>. QED
      BY <1>8, <3>1 DEF Served, Reaches, HasHandler, HasStubs
  <2>5. Reachable(tree, next, Of(todo))
    <3>1. \A t : <<"remove-config", t>> \notin Of(todo)
      <4>1. \A t : <<"remove-config", t>>[1] = "remove-config"
        OBVIOUS
      <4>. QED
        BY <1>5, <4>1
    <3>2. \A t \in DOMAIN m.clients : tree[LocalConfig] # Torn /\ t \in tree[LocalConfig]
      <4>1. m.clients = <<>> => DOMAIN m.clients = {}
        OBVIOUS
      <4>. QED
        BY <1>6, <1>10, <4>1 DEF Agree, Configured
    <3>. QED
      BY <1>5, <1>8, <3>1, <3>2 DEF Reachable
  <2>. QED
    BY <2>2, <2>3, <2>4, <2>5
<1>. QED
  BY <1>1, <1>2, <1>10, StartBindProgress

LEMMA UnbindClientProgress ==
  ASSUME SafetyInv, SafetyInv', ProgressInv, NEW c \in Client, UnbindClient(c)
  PROVE  ProgressInv'
<1>. DEFINE m == LoadManifest
            clients == Unbound(m.clients, c)
            next == [m EXCEPT !.clients = clients]
            files == ModuleFiles \union {Manifest, LocalConfig, ClientsGen}
            x == <<"clients">>
            y == <<"remove-config", c>>
            z == <<"manifest">>
            w == m.clients[c].service \in Versioned /\ ~WorkspaceBound(next)
            list == <<x, y, z>>
            todo == list \o TidyIf(w) \o Verified
            n == "client-unbind"
<1>1. /\ ManifestReadable /\ UNCHANGED published
      /\ Start(n, next, <<Saved(files)>>, todo)
  BY DEF UnbindClient, CanBind
<1>2. n \in Binders
  BY DEF Binders
<1>3. x[1] = "clients" /\ z[1] = "manifest"
  OBVIOUS
<1>4. \A v \in {x, y, z, <<"tidy">>, <<"compile">>, <<"commit">>} : v[1] # "remove-config" \/ v = y
  OBVIOUS
<1>. HIDE DEF n, files
<1>5. /\ {"clients", "manifest"} \subseteq Kinds(todo)
      /\ \A v \in Of(todo) : v[1] # "remove-config" \/ v = y
  <2>. HIDE DEF x, y, z, w
  <2>. DEFINE of == {x, y, z}
              ends == {<<"tidy">>, <<"compile">>, <<"commit">>}
  <2>1. Listed(list, of)
    BY ListedFew
  <2>2. /\ x \in of /\ z \in of
        /\ \A v \in of \union ends : v[1] # "remove-config" \/ v = y
    BY <1>4
  <2>. HIDE DEF list, of, ends
  <2>3. of \subseteq Of(list \o TidyIf(w) \o Verified)
        /\ Of(list \o TidyIf(w) \o Verified) \subseteq of \union ends
    BY <2>1, ListedBinding DEF ends
  <2>. HIDE DEF todo
  <2>4. of \subseteq Of(todo) /\ Of(todo) \subseteq of \union ends
    BY <2>3 DEF todo
  <2>5. {"clients", "manifest"} \subseteq Kinds(todo)
    BY <1>3, <2>2, <2>4, KindsOf
  <2>. QED
    BY <2>2, <2>4, <2>5
<1>6. m = ManifestOf(tree) /\ m \in Manifests /\ tree[Manifest] # Torn
  BY <1>1, Loaded
<1>. HIDE DEF m
<1>7. /\ m = [servers |-> m.servers, clients |-> m.clients]
      /\ DOMAIN m.clients \in SUBSET Client /\ m.clients \in [DOMAIN m.clients -> ClientBinding]
  BY <1>6, OfManifests
<1>8. /\ next.clients = clients /\ next.servers = m.servers
      /\ DOMAIN clients = DOMAIN m.clients \ {c}
      /\ \A t \in DOMAIN clients : clients[t] = m.clients[t]
  BY <1>7 DEF Unbound
<1>9. next \in Manifests
  <2>. HIDE DEF todo, next
  <2>. QED
    BY <1>1, <1>5, StartManifest DEF BindingKinds
<1>. HIDE DEF todo, next, clients
<1>10. ASSUME Agree(tree, published, ServesGRPC)
       PROVE  /\ next = ResolvedBy(next, published)
              /\ Rendered(tree, next, Kinds(todo), ServesGRPC)
              /\ Served(tree, next, Of(todo))
              /\ Reachable(tree, next, Of(todo))
  <2>1. /\ \A t \in DOMAIN m.servers : m.servers[t].methods = published[t]
        /\ \A t \in DOMAIN m.clients : m.clients[t].methods = published[m.clients[t].service]
    BY <1>6, <1>10, ResolvedMeans DEF Agree
  <2>2. next = ResolvedBy(next, published)
    BY <1>8, <1>9, <2>1, ResolvedMeans
  <2>3. Rendered(tree, next, Kinds(todo), ServesGRPC)
    <3>1. ServerCode(next) = ServerCode(m)
      BY <1>8 DEF ServerCode
    <3>. QED
      BY <1>5, <1>6, <1>10, <3>1 DEF Agree, Rendered
  <2>4. Served(tree, next, Of(todo))
    <3>1. Served(tree, m, {})
      BY <1>6, <1>10 DEF Agree
    <3>. QED
      BY <1>8, <3>1 DEF Served, Reaches, HasHandler, HasStubs
  <2>5. Reachable(tree, next, Of(todo))
    <3>1. \A t : <<"remove-config", t>> \in Of(todo) => t = c
      <4>1. \A t : <<"remove-config", t>>[1] = "remove-config" /\ <<"remove-config", t>>[2] = t
        OBVIOUS
      <4>2. y[2] = c
        OBVIOUS
      <4>. HIDE DEF y
      <4>. QED
        BY <1>5, <4>1, <4>2
    <3>2. \A t \in DOMAIN m.clients : tree[LocalConfig] # Torn /\ t \in tree[LocalConfig]
      <4>1. m.clients = <<>> => DOMAIN m.clients = {}
        OBVIOUS
      <4>. QED
        BY <1>6, <1>10, <4>1 DEF Agree, Configured
    <3>. QED
      BY <1>8, <3>1, <3>2 DEF Reachable
  <2>. QED
    BY <2>2, <2>3, <2>4, <2>5
<1>. QED
  BY <1>1, <1>2, <1>10, StartBindProgress

LEMMA CommandProgress ==
  ASSUME SafetyInv, SafetyInv', ProgressInv, Command
  PROVE  ProgressInv'
BY AsideCommandsProgress, RunGeneratorsProgress, BindServerProgress, UnbindServerProgress,
   BindClientProgress, UnbindClientProgress DEF Command

-------------------------------------------------------------------------------
(* The generators of `jgo generate` begin.                                 *)

LEMMA EnterContent ==
  ASSUME FileInv, ProgressInv, NEW step, NEW manifest, NEW ps, NEW todo,
         Enter(step, manifest, ps, todo)
  PROVE  ContentInv'
<1>. DEFINE frame == Saved(ps)
<1>1. UNCHANGED <<tree, kind>> /\ snapshots' = Append(snapshots, frame)
  BY DEF Enter, TakeSnapshot
<1>2. \A p \in ps : frame[p] = tree[p]
  BY DEF Saved
<1>3. DOMAIN frame = ps
  BY DEF Saved
<1>. HIDE DEF frame
<1>4. /\ SeqOfFrames(snapshots) /\ Len(snapshots) \in Nat
      /\ Len(snapshots') = Len(snapshots) + 1
      /\ \A i \in 1..Len(snapshots) : snapshots'[i] = snapshots[i]
      /\ snapshots'[Len(snapshots) + 1] = frame
  BY <1>1, AppendFrame, LenProperties DEF FileInv, Maps, SeqOfFrames
<1>5. ASSUME NEW i \in 1..Len(snapshots'), NEW p \in Path \intersect DOMAIN snapshots'[i]
      PROVE  Fits(p, snapshots'[i][p], ServesGRPC)
  <2>1. CASE i \in 1..Len(snapshots)
    BY <1>4, <2>1 DEF ProgressInv, ContentInv
  <2>2. CASE i = Len(snapshots) + 1
    BY <1>2, <1>3, <1>4, <2>2 DEF ProgressInv, ContentInv
  <2>. QED
    BY <1>4, <2>1, <2>2
<1>. QED
  BY <1>1, <1>5, SameKind DEF ProgressInv, ContentInv

(* What is ahead when one has begun.                                       *)
LEMMA EnterOf ==
  ASSUME SafetyInv, NEW step, NEW manifest, NEW ps, NEW todo, NEW of,
         Enter(step, manifest, ps, todo), step[1] \in Generators, Listed(todo, of)
  PROVE  /\ status = "working" /\ UNCHANGED <<kind, tree, before, status>>
         /\ command.name = "generate" /\ command'.name = "generate" /\ command'.manifest = manifest
         /\ of \subseteq Of(steps')
         /\ Kinds(steps') = Kinds(todo) \union Kinds(Tail(steps))
         /\ Kinds(steps) = {step[1]} \union Kinds(Tail(steps))
         /\ \A k \in Kinds(Tail(steps)) : k = "commit" \/ (k \in Generators /\ Rank(step[1]) < Rank(k))
<1>1. /\ IsNext(step) /\ status = "working" /\ steps # <<>> /\ Head(steps) = step
      /\ steps' = todo \o Tail(steps) /\ command' = [command EXCEPT !.manifest = manifest]
      /\ UNCHANGED <<kind, tree, before, status>>
  BY DEF Enter, IsNext, TakeSnapshot
<1>2. command.name = "generate"
  BY <1>1, AtStep DEF Takes, HTTPKinds, PbKinds, BindingKinds, Generators
<1>3. command'.name = "generate" /\ command'.manifest = manifest
  BY <1>1, <1>2, SameName DEF SafetyInv
<1>4. \E S : steps \in Seq(S)
  BY <1>1 DEF SafetyInv, PlanInv, Plan
<1>5. Kinds(steps) = {step[1]} \union Kinds(Tail(steps))
  BY <1>1, <1>4, KindsOfTail
<1>6. \E S : Tail(steps) \in Seq(S)
  BY <1>1, <1>4, TailOf
<1>7. /\ Kinds(steps') = Kinds(todo) \union Kinds(Tail(steps))
      /\ Of(steps') = of \union Of(Tail(steps))
  <2>. DEFINE rest == Tail(steps)
  <2>1. (\E S : rest \in Seq(S)) /\ steps' = todo \o rest
    BY <1>1, <1>6
  <2>. HIDE DEF rest
  <2>2. /\ Kinds(todo \o rest) = Kinds(todo) \union Kinds(rest)
        /\ Of(todo \o rest) = Of(todo) \union Of(rest)
    BY <2>1, ConcatOf DEF Listed
  <2>. QED
    BY <2>1, <2>2 DEF rest, Listed
<1>8. \A k \in Kinds(Tail(steps)) : k = "commit" \/ (k \in Generators /\ Rank(step[1]) < Rank(k))
  BY <1>1, GeneratorsAhead
<1>. QED
  BY <1>1, <1>2, <1>3, <1>5, <1>7, <1>8

(* The generators of HTTP and protobuf come before that of the bindings.   *)
LEMMA EnterAside ==
  ASSUME SafetyInv, ProgressInv, NEW step, NEW manifest, NEW ps, NEW todo, NEW of,
         Enter(step, manifest, ps, todo), Listed(todo, of),
         step[1] \in {"http", "pb"}, "rpc" \notin Kinds(todo)
  PROVE  BindingsAhead'
<1>1. /\ status = "working" /\ UNCHANGED <<kind, tree, before, status>>
      /\ command.name = "generate" /\ command'.name = "generate"
      /\ Kinds(steps') = Kinds(todo) \union Kinds(Tail(steps))
      /\ Kinds(steps) = {step[1]} \union Kinds(Tail(steps))
  BY EnterOf DEF Generators
<1>2. HasServer' = HasServer /\ (Untouched' <=> Untouched)
  BY <1>1, SameKind DEF Untouched
<1>3. "rpc" \in Kinds(steps') <=> "rpc" \in Kinds(steps)
  BY <1>1
<1>4. HasServer => "rpc" \in Kinds(steps) /\ Untouched
  <2>1. step[1] \in Kinds(steps) /\ step[1] \notin (BindingKinds \ ConfigKinds) \union {"commit"}
        /\ step[1] \notin {"commit"}
    BY <1>1 DEF BindingKinds
  <2>. QED
    BY <1>1, <2>1 DEF ProgressInv, BindingsAhead
<1>5. "generate" \notin Binders
  BY DEF Binders
<1>. QED
  BY <1>1, <1>2, <1>3, <1>4, <1>5 DEF BindingsAhead

LEMMA GenerateHTTPProgress ==
  ASSUME FileInv, SafetyInv, ProgressInv, GenerateHTTP
  PROVE  ProgressInv'
<1>. DEFINE step == <<"http">>
            x == <<"api">>
            y == <<"routes">>
            z == <<"sync">>
            u == <<"commit">>
            of == {x, y, z, u}
<1>1. Enter(step, command.manifest, HTTPOutputs, HTTPSteps) /\ step[1] = "http"
  BY DEF GenerateHTTP
<1>2. Listed(HTTPSteps, of)
  BY ListedFew DEF HTTPSteps
<1>3. x[1] = "api" /\ y[1] = "routes" /\ z[1] = "sync" /\ u[1] = "commit"
  OBVIOUS
<1>. HIDE DEF step, x, y, z, u
<1>4. Kinds(HTTPSteps) = {"api", "routes", "sync", "commit"}
  BY <1>2, <1>3, KindsOf DEF Listed
<1>. HIDE DEF of
<1>5. step[1] \in Generators
  BY <1>1 DEF Generators
<1>6. /\ status = "working" /\ UNCHANGED <<kind, tree, before, status>>
      /\ command.name = "generate" /\ command'.name = "generate"
      /\ Kinds(steps') = {"api", "routes", "sync", "commit"} \union Kinds(Tail(steps))
      /\ Kinds(steps) = {"http"} \union Kinds(Tail(steps))
  BY <1>1, <1>2, <1>4, <1>5, EnterOf
<1>7. HTTPAhead'
  <2>1. Contract \in Path
    BY PathAssumption DEF ProjectPath, HttpPaths
  <2>2. tree[Contract] = [operations |-> tree[Contract].operations, models |-> tree[Contract].models]
    BY <2>1 DEF GenerateHTTP, ProgressInv, ContentInv, Fits, Readable
  <2>. QED
    BY <1>6, <2>2 DEF HTTPAhead
<1>8. ProtobufAhead'
  <2>1. \A k \in PbAhead : k \in Kinds(steps) <=> k \in Kinds(steps')
    BY <1>6 DEF PbAhead
  <2>. QED
    BY <1>6, <2>1, ProtobufKept DEF ProgressInv
<1>9. BindingsAhead'
  BY <1>1, <1>2, <1>4, EnterAside
<1>. QED
  BY <1>1, <1>7, <1>8, <1>9, EnterContent DEF ProgressInv

LEMMA ListedPb ==
  LET few  == IF HasServer THEN {<<"register">>, <<"verify">>} ELSE {}
      many == IF HasServer
              THEN {<<"discover">>, <<"register">>, <<"rpc-stubs">>, <<"verify">>} ELSE {}
  IN /\ ~HasContracts => Listed(PbSteps, {<<"prune">>} \union few \union {<<"commit">>})
     /\ HasContracts => Listed(PbSteps, {<<"buf">>, <<"prune">>} \union many \union {<<"commit">>})
<1>. DEFINE x == <<"buf">>
            y == <<"prune">>
            a == <<"discover">>
            b == <<"register">>
            c == <<"rpc-stubs">>
            d == <<"verify">>
            e == <<"commit">>
            server == HasServer
            few  == IF server THEN {b, d} ELSE {}
            many == IF server THEN {a, b, c, d} ELSE {}
            empty == IF server THEN <<b, d>> ELSE <<>>
            full  == IF server THEN <<a, b, c, d>> ELSE <<>>
<1>1. PbSteps = IF ~HasContracts THEN <<y>> \o empty \o <<e>> ELSE <<x, y>> \o full \o <<e>>
  BY DEF PbSteps
<1>. HIDE DEF x, y, a, b, c, d, e, server
<1>2. /\ Listed(<<y>>, {y}) /\ Listed(<<x, y>>, {x, y}) /\ Listed(<<e>>, {e})
      /\ Listed(empty, few) /\ Listed(full, many)
  BY ListedFew, ListedIf
<1>. HIDE DEF few, many, empty, full
<1>3. /\ Listed((<<y>> \o empty) \o <<e>>, ({y} \union few) \union {e})
      /\ Listed((<<x, y>> \o full) \o <<e>>, ({x, y} \union many) \union {e})
  BY <1>2, ListedConcat
<1>4. /\ ~HasContracts => Listed(PbSteps, {y} \union few \union {e})
      /\ HasContracts => Listed(PbSteps, {x, y} \union many \union {e})
  BY <1>1, <1>3
<1>. QED
  BY <1>4 DEF x, y, a, b, c, d, e, server, few, many

LEMMA GeneratePBProgress ==
  ASSUME FileInv, SafetyInv, ProgressInv, GeneratePB
  PROVE  ProgressInv'
<1>. DEFINE step == <<"pb">>
            few  == IF HasServer THEN {<<"register">>, <<"verify">>} ELSE {}
            many == IF HasServer
                    THEN {<<"discover">>, <<"register">>, <<"rpc-stubs">>, <<"verify">>} ELSE {}
            of == IF HasContracts THEN {<<"buf">>, <<"prune">>} \union many \union {<<"commit">>}
                                  ELSE {<<"prune">>} \union few \union {<<"commit">>}
            all == {<<"buf">>, <<"prune">>, <<"discover">>, <<"register">>, <<"rpc-stubs">>,
                    <<"verify">>, <<"commit">>}
<1>1. Enter(step, {}, PbOutputs, PbSteps) /\ step[1] = "pb"
  BY DEF GeneratePB
<1>2. Listed(PbSteps, of)
  BY ListedPb
<1>3. of \subseteq all /\ \A x \in all : x[1] \in PbKinds \union {"commit"}
  BY DEF PbKinds
<1>4. /\ <<"prune">> \in of
      /\ HasContracts => <<"buf">> \in of
      /\ HasServer => <<"register">> \in of
      /\ HasServer /\ HasContracts => <<"rpc-stubs">> \in of
  OBVIOUS
<1>. HIDE DEF of, all, step
<1>5. Kinds(PbSteps) = {x[1] : x \in of}
  BY <1>2, KindsOf DEF Listed
<1>6. Kinds(PbSteps) \subseteq PbKinds \union {"commit"}
  BY <1>3, <1>5
<1>7. /\ "prune" \in Kinds(PbSteps)
      /\ HasContracts => "buf" \in Kinds(PbSteps)
      /\ HasServer => "register" \in Kinds(PbSteps)
      /\ HasServer /\ HasContracts => "rpc-stubs" \in Kinds(PbSteps)
  <2>1. \A k : <<k>>[1] = k
    OBVIOUS
  <2>. QED
    BY <1>4, <1>5, <2>1
<1>8. step[1] \in Generators
  BY <1>1 DEF Generators
<1>9. /\ status = "working" /\ UNCHANGED <<kind, tree, before, status>>
      /\ command.name = "generate" /\ command'.name = "generate"
      /\ Kinds(steps') = Kinds(PbSteps) \union Kinds(Tail(steps))
      /\ Kinds(steps) = {"pb"} \union Kinds(Tail(steps))
  BY <1>1, <1>2, <1>8, EnterOf
<1>10. HTTPAhead'
  <2>1. \A k \in HTTPKinds \union {"http"} : k \in Kinds(steps) <=> k \in Kinds(steps')
    BY <1>6, <1>9 DEF HTTPKinds, PbKinds
  <2>. QED
    BY <1>9, <2>1, HTTPKept DEF ProgressInv
<1>11. ProtobufAhead'
  <2>1. HasServer' = HasServer /\ HasContracts' = HasContracts
    BY <1>9, SameKind DEF HasContracts
  <2>2. ~HasContracts => \A f \in ProtoFile : tree'[Proto(f)] = Absent
    BY <1>9 DEF HasContracts
  <2>. QED
    BY <1>7, <1>9, <2>1, <2>2 DEF ProtobufAhead
<1>12. BindingsAhead'
  <2>1. "rpc" \notin Kinds(PbSteps)
    BY <1>6 DEF PbKinds
  <2>. QED
    BY <1>1, <1>2, <2>1, EnterAside
<1>. QED
  BY <1>1, <1>10, <1>11, <1>12, EnterContent DEF ProgressInv

(* What the generator of the bindings finds, and what it leaves alone.     *)
LEMMA BindingsFound ==
  ASSUME SafetyInv, ProgressInv, status = "working", command.name = "generate",
         "rpc" \in Kinds(steps), HasServer, ManifestReadable
  PROVE  /\ Untouched /\ ManifestOf(before) = ManifestOf(tree) /\ before[Manifest] # Torn
         /\ \A p \in {Manifest, External, ClientsGen, LocalConfig} : tree[p] = before[p]
<1>1. Untouched
  BY DEF ProgressInv, BindingsAhead
<1>. QED
  BY <1>1 DEF Untouched, BindingFile, ManifestOf, ManifestReadable

LEMMA EnterBindingsProgress ==
  ASSUME FileInv, SafetyInv, ProgressInv, UNCHANGED published, ManifestReadable,
         NEW step, NEW manifest, NEW ps, NEW todo, NEW of,
         Enter(step, manifest, ps, todo), step[1] = "rpc", Listed(todo, of),
         Kinds(todo) \subseteq (BindingKinds \ ConfigKinds) \union {"commit"},
         manifest = ResolvedBy(ManifestOf(tree), published),
         "manifest" \in Kinds(todo) \/ ManifestOf(tree) = manifest,
         ServesGRPC => "external" \in Kinds(todo),
         "clients" \in Kinds(todo),
         \A s \in DOMAIN manifest.servers : <<"implement", DOMAIN manifest.servers>> \in of
  PROVE  ProgressInv'
<1>1. step[1] \in Generators
  BY DEF Generators
<1>2. /\ status = "working" /\ UNCHANGED <<kind, tree, before, status>>
      /\ command.name = "generate" /\ command'.name = "generate" /\ command'.manifest = manifest
      /\ of \subseteq Of(steps')
      /\ Kinds(steps') = Kinds(todo) \union Kinds(Tail(steps))
      /\ Kinds(steps) = {"rpc"} \union Kinds(Tail(steps))
      /\ \A k \in Kinds(Tail(steps)) : k = "commit" \/ (k \in Generators /\ Rank(step[1]) < Rank(k))
  BY <1>1, EnterOf
<1>3. Kinds(Tail(steps)) \subseteq {"commit"}
  BY <1>2, Ranks DEF Generators
<1>4. HTTPAhead'
  <2>1. \A k \in HTTPKinds \union {"http"} : k \in Kinds(steps) <=> k \in Kinds(steps')
    BY <1>2, <1>3 DEF HTTPKinds, BindingKinds
  <2>. QED
    BY <1>2, <2>1, HTTPKept DEF ProgressInv
<1>5. ProtobufAhead'
  <2>1. \A k \in PbAhead : k \in Kinds(steps) <=> k \in Kinds(steps')
    BY <1>2, <1>3 DEF PbAhead, BindingKinds
  <2>. QED
    BY <1>2, <2>1, ProtobufKept DEF ProgressInv
<1>6. ASSUME HasServer'
      PROVE  BindingsAhead'
  <2>1. HasServer /\ ServesGRPC' = ServesGRPC
    BY <1>2, <1>6, SameKind
  <2>2. /\ ManifestOf(before) = ManifestOf(tree) /\ before[Manifest] # Torn
        /\ \A p \in {Manifest, LocalConfig} : tree[p] = before[p]
    BY <1>2, <2>1, BindingsFound
  <2>3. Kinds(steps') \subseteq (BindingKinds \ ConfigKinds) \union {"commit"}
        /\ "rpc" \notin Kinds(steps')
    BY <1>2, <1>3 DEF BindingKinds
  <2>4. Rendered(tree', manifest, Kinds(steps'), ServesGRPC)
    BY <1>2, <2>2 DEF Rendered
  <2>5. Served(tree', manifest, Of(steps'))
    <3>1. \A s : <<"implement", s>>[1] = "implement" /\ <<"implement", s>>[2] = s
      OBVIOUS
    <3>2. ASSUME NEW s \in DOMAIN manifest.servers
          PROVE  \E x \in Of(steps') : x[1] = "implement" /\ s \in x[2]
      <4>1. <<"implement", DOMAIN manifest.servers>> \in Of(steps')
        BY <1>2, <3>2
      <4>. QED
        BY <3>1, <3>2, <4>1
    <3>. QED
      BY <3>2 DEF Served, Reaches
  <2>6. "generate" \notin Binders
    BY DEF Binders
  <2>. QED
    BY <1>2, <2>1, <2>2, <2>3, <2>4, <2>5, <2>6 DEF BindingsAhead
<1>. QED
  BY <1>4, <1>5, <1>6, EnterContent DEF ProgressInv, BindingsAhead

LEMMA ListedRewriting ==
  Listed(RewriteServer, IF ServesGRPC THEN {<<"external">>} ELSE {})
BY ListedFew DEF RewriteServer

LEMMA EnterStaleProgress ==
  ASSUME FileInv, SafetyInv, ProgressInv, UNCHANGED published, ManifestReadable,
         LoadManifest = NoBindings, NEW ps,
         Enter(<<"rpc">>, LoadManifest, ps, RewriteServer \o <<<<"clients">>, <<"tidy">>>> \o Verified)
  PROVE  ProgressInv'
<1>. DEFINE step == <<"rpc">>
            m == LoadManifest
            x == <<"external">>
            y == <<"clients">>
            z == <<"tidy">>
            a == IF ServesGRPC THEN {x} ELSE {}
            b == {<<"compile">>, <<"commit">>}
            of == (a \union {y, z}) \union b
            todo == (RewriteServer \o <<y, z>>) \o Verified
<1>1. Enter(step, m, ps, todo) /\ step[1] = "rpc" /\ x[1] = "external" /\ y[1] = "clients"
  OBVIOUS
<1>2. Kinds(todo) \subseteq (BindingKinds \ ConfigKinds) \union {"commit"}
  BY StaleList DEF BindingKinds, ConfigKinds
<1>3. m = ManifestOf(tree) /\ m \in Manifests
  BY Loaded
<1>4. DOMAIN m.servers = {} /\ DOMAIN m.clients = {}
  BY DEF NoBindings
<1>5. m = ResolvedBy(ManifestOf(tree), published)
  BY <1>3, <1>4, ResolvedMeans
<1>6. y \in of /\ (ServesGRPC => x \in of)
  OBVIOUS
<1>. HIDE DEF step, m, x, y, z
<1>7. Listed(RewriteServer, a)
  BY ListedRewriting DEF x
<1>. HIDE DEF a, b
<1>8. Listed(todo, of)
  <2>1. Listed(<<y, z>>, {y, z}) /\ Listed(Verified, b)
    BY ListedFew, ListedEnd DEF b
  <2>. QED
    BY <1>7, <2>1, ListedConcat
<1>. HIDE DEF of, todo
<1>9. "clients" \in Kinds(todo) /\ (ServesGRPC => "external" \in Kinds(todo))
  BY <1>1, <1>6, <1>8, KindsOf DEF Listed
<1>. QED
  BY <1>1, <1>2, <1>3, <1>4, <1>5, <1>8, <1>9, EnterBindingsProgress

LEMMA EnterBoundProgress ==
  ASSUME FileInv, SafetyInv, ProgressInv, UNCHANGED published, ManifestReadable,
         NEW ps, NEW bound, NEW wanted,
         Enter(<<"rpc">>, Resolved(LoadManifest), ps,
               <<<<"require", bound>>>> \o RewriteServer
                 \o <<<<"implement", DOMAIN LoadManifest.servers>>, <<"clients">>, <<"manifest">>>>
                 \o TidyIf(wanted) \o <<<<"commit">>>>)
  PROVE  ProgressInv'
<1>. DEFINE step == <<"rpc">>
            m == LoadManifest
            next == Resolved(m)
            ss == DOMAIN m.servers
            v == <<"require", bound>>
            w == <<"external">>
            x == <<"implement", ss>>
            y == <<"clients">>
            z == <<"manifest">>
            u == <<"commit">>
            a == IF ServesGRPC THEN {w} ELSE {}
            b == IF wanted THEN {<<"tidy">>} ELSE {}
            of == ((({v} \union a) \union {x, y, z}) \union b) \union {u}
            todo == (((<<v>> \o RewriteServer) \o <<x, y, z>>) \o TidyIf(wanted)) \o <<u>>
<1>1. /\ Enter(step, next, ps, todo) /\ step[1] = "rpc"
      /\ w[1] = "external" /\ y[1] = "clients" /\ z[1] = "manifest"
  OBVIOUS
<1>2. Kinds(todo) \subseteq (BindingKinds \ ConfigKinds) \union {"commit"}
  <2>1. Kinds(todo) \subseteq {"require", "external", "implement", "clients", "manifest",
                               "tidy", "commit"}
    BY BindingsList
  <2>. HIDE DEF todo
  <2>. QED
    BY <2>1 DEF BindingKinds, ConfigKinds
<1>3. m = ManifestOf(tree) /\ m \in Manifests
  BY Loaded
<1>4. next = ResolvedBy(ManifestOf(tree), published) /\ DOMAIN next.servers = ss
  <2>1. next = ResolvedBy(m, published)
    BY DEF Resolved, ResolvedBy
  <2>. HIDE DEF m, next
  <2>. QED
    BY <1>3, <2>1, ResolvedMeans
<1>5. y \in of /\ z \in of /\ (ServesGRPC => w \in of) /\ <<"implement", ss>> \in of
  OBVIOUS
<1>. HIDE DEF step, next, m, v, w, x, y, z, u
<1>6. Listed(RewriteServer, a) /\ Listed(TidyIf(wanted), b)
  BY ListedRewriting, ListedEnd DEF w
<1>. HIDE DEF a, b
<1>7. Listed(todo, of)
  <2>1. Listed(<<v>>, {v}) /\ Listed(<<x, y, z>>, {x, y, z}) /\ Listed(<<u>>, {u})
    BY ListedFew
  <2>2. Listed(<<v>> \o RewriteServer, {v} \union a)
    BY <1>6, <2>1, ListedConcat
  <2>3. Listed((<<v>> \o RewriteServer) \o <<x, y, z>>, ({v} \union a) \union {x, y, z})
    BY <2>1, <2>2, ListedConcat
  <2>4. Listed(((<<v>> \o RewriteServer) \o <<x, y, z>>) \o TidyIf(wanted),
               (({v} \union a) \union {x, y, z}) \union b)
    BY <1>6, <2>3, ListedConcat
  <2>. QED
    BY <2>1, <2>4, ListedConcat
<1>. HIDE DEF of, todo
<1>8. /\ "clients" \in Kinds(todo) /\ "manifest" \in Kinds(todo)
      /\ ServesGRPC => "external" \in Kinds(todo)
  BY <1>1, <1>5, <1>7, KindsOf DEF Listed
<1>. HIDE DEF ss
<1>. QED
  BY <1>1, <1>2, <1>4, <1>5, <1>7, <1>8, EnterBindingsProgress

(* Nothing is bound, and no file shows anything that was.                  *)
LEMMA NothingBoundProgress ==
  ASSUME SafetyInv, ProgressInv, UNCHANGED published, ManifestReadable,
         LoadManifest = NoBindings, ~OutputsStale, Do(<<"rpc">>, TRUE, Nothing, FALSE)
  PROVE  ProgressInv'
<1>. DEFINE step == <<"rpc">>
            new == Nothing
<1>1. step[1] = "rpc" /\ DOMAIN new = {}
  BY NothingOf
<1>. HIDE DEF step
<1>2. Took(step, new) /\ command' = command
  BY NothingOf, TookDo DEF step
<1>. HIDE DEF new
<1>3. ContentInv'
  BY <1>1, <1>2, ContentTook DEF ProgressInv
<1>4. HTTPAhead'
  BY <1>1, <1>2, HTTPTook DEF ProgressInv, HTTPKinds
<1>5. ProtobufAhead'
  BY <1>1, <1>2, ProtobufTook DEF ProgressInv, PbAhead
<1>6. BindingsAhead'
  <2>. SUFFICES ASSUME status' = "working", HasServer'
                PROVE  BindingsAhead'
    BY DEF BindingsAhead
  <2>1. /\ status = "working" /\ steps' = Tail(steps)
        /\ Kinds(steps) = {"rpc"} \union Kinds(steps')
    BY <1>1, <1>2, TookKinds
  <2>2. IsNext(step) /\ UNCHANGED <<kind, before>> /\ command' = command
        /\ \A p \in Path : tree'[p] = tree[p]
    BY <1>1, <1>2 DEF Took
  <2>3. command.name = "generate"
    BY <1>1, <2>2, AtStep DEF Takes, HTTPKinds, PbKinds, BindingKinds, Generators
  <2>4. Kinds(steps') \subseteq {"commit"}
    <3>1. step[1] \in Generators
      BY <1>1 DEF Generators
    <3>. QED
      BY <1>1, <2>1, <2>2, <3>1, GeneratorsAhead, Ranks DEF Generators
  <2>5. HasServer /\ ServesGRPC' = ServesGRPC
    BY <2>2, SameKind
  <2>6. /\ Untouched /\ ManifestOf(before) = ManifestOf(tree) /\ before[Manifest] # Torn
        /\ \A p \in {Manifest, External, ClientsGen, LocalConfig} : tree[p] = before[p]
    BY <2>1, <2>3, <2>5, BindingsFound
  <2>7. Untouched'
    <3>1. BindingFile \subseteq Path
      BY BindingFiles
    <3>. QED
      BY <2>2, <2>6, <3>1 DEF Untouched
  <2>8. Unbinding(before, ServesGRPC)
    <3>1. ManifestOf(tree) = NoBindings
      BY Loaded
    <3>. QED
      BY <2>6, <3>1 DEF Unbinding, OutputsStale, Readable
  <2>9. "generate" \notin Binders
    BY DEF Binders
  <2>. QED
    BY <2>2, <2>3, <2>4, <2>5, <2>7, <2>8, <2>9 DEF BindingsAhead
<1>. QED
  BY <1>3, <1>4, <1>5, <1>6 DEF ProgressInv

LEMMA GenerateBindingsProgress ==
  ASSUME FileInv, SafetyInv, ProgressInv, GenerateBindings
  PROVE  ProgressInv'
<1>1. ManifestReadable /\ UNCHANGED published
  BY DEF GenerateBindings
<1>2. LoadManifest = [servers |-> LoadManifest.servers, clients |-> LoadManifest.clients]
  BY <1>1, Loaded, OfManifests
<1>3. CASE LoadManifest.servers = <<>> /\ LoadManifest.clients = <<>>
  <2>1. LoadManifest = NoBindings
    BY <1>2, <1>3 DEF NoBindings
  <2>. QED
    BY <1>1, <1>3, <2>1, EnterStaleProgress, NothingBoundProgress DEF GenerateBindings
<1>4. CASE ~(LoadManifest.servers = <<>> /\ LoadManifest.clients = <<>>)
  BY <1>1, <1>4, EnterBoundProgress DEF GenerateBindings
<1>. QED
  BY <1>3, <1>4

LEMMA NestedProgress ==
  ASSUME FileInv, SafetyInv, ProgressInv, NestedGenerator
  PROVE  ProgressInv'
BY GenerateHTTPProgress, GeneratePBProgress, GenerateBindingsProgress, MayFailProgress
   DEF NestedGenerator, RefuseBindings, PrintFails

-------------------------------------------------------------------------------
(* Every step keeps it.                                                    *)

LEMMA StepProgress ==
  ASSUME FileInv, SafetyInv, ProgressInv, Step
  PROVE  ProgressInv'
BY BindingStepProgress, NestedProgress, ClearProgress, PublishProjectProgress,
   ContractStepProgress, CommitProgress, RestoreProgress, EndProgress DEF Step

LEMMA InitProgress ==
  ASSUME Init
  PROVE  ProgressInv
<1>1. PICK found \in {Absent, "empty"} :
        tree = [p \in Path |-> IF p = Target THEN found ELSE Absent]
  BY DEF Init
<1>2. snapshots = <<>> /\ status = "ok"
  BY DEF Init, FileInit
<1>3. ASSUME NEW p \in Path
      PROVE  Fits(p, tree[p], ServesGRPC)
  <2>1. CASE p = Target
    BY <2>1, Places, FitsElsewhere
  <2>2. CASE p # Target
    BY <1>1, <2>2, FitsNone
  <2>. QED
    BY <2>1, <2>2
<1>4. ContentInv
  BY <1>2, <1>3, EmptySeqOfFrames DEF ContentInv
<1>5. HTTPAhead /\ ProtobufAhead /\ BindingsAhead
  BY <1>2 DEF HTTPAhead, ProtobufAhead, BindingsAhead
<1>. QED
  BY <1>4, <1>5 DEF ProgressInv

(* Whatever a command has to bring in step is so, or the step for it is    *)
(* still ahead: no step undoes what an earlier one has done.               *)
THEOREM ProgressInvariant == Spec => [](FileInv /\ SafetyInv /\ ProgressInv)
<1>1. Init => FileInv /\ SafetyInv /\ ProgressInv
  BY InitSafe, InitProgress
<1>2. ASSUME FileInv, SafetyInv, ProgressInv, [Next]_vars, SafetyInv'
      PROVE  ProgressInv'
  <2>1. CASE Command
    BY <1>2, <2>1, CommandProgress
  <2>2. CASE Step
    BY <1>2, <2>2, StepProgress
  <2>3. CASE Environment
    BY <1>2, <2>3, EnvironmentProgress
  <2>4. CASE UNCHANGED vars
    BY <1>2, <2>4, StandstillProgress
  <2>. QED
    BY <1>2, <2>1, <2>2, <2>3, <2>4 DEF Next
<1>. QED
  BY <1>1, <1>2, SafetyInvariant, PTL DEF Spec

-------------------------------------------------------------------------------
(* What a command that succeeds leaves.                                    *)

LEMMA NoneBound ==
  ASSUME NEW m, m = NoBindings
  PROVE  /\ DOMAIN m.servers = {} /\ DOMAIN m.clients = {}
         /\ m.servers = <<>> /\ m.clients = <<>>
         /\ ServerCode(m) = <<>> /\ ClientCode(m) = <<>>
<1>1. m.servers = <<>> /\ m.clients = <<>> /\ DOMAIN m.servers = {} /\ DOMAIN m.clients = {}
  BY DEF NoBindings
<1>2. ClientCode(m) = <<>>
  BY <1>1 DEF ClientCode
<1>. QED
  BY <1>1, <1>2 DEF ServerCode

LEMMA ToAgree ==
  ASSUME NEW t, InStep(t), Validate(t)
  PROVE  Agree(t, published, ServesGRPC)
<1>1. Rendered(t, ManifestOf(t), {}, ServesGRPC)
  BY DEF InStep, Rendered
<1>2. Served(t, ManifestOf(t), {})
  BY DEF Validate, Handled, Served, HasHandler, HasStubs
<1>3. ManifestOf(t) = ResolvedBy(ManifestOf(t), published)
  BY DEF Validate, Resolved, ResolvedBy
<1>. QED
  BY <1>1, <1>2, <1>3 DEF Agree, Validate

LEMMA FromAgree ==
  ASSUME SafetyInv, ProgressInv, Agree(tree, published, ServesGRPC)
  PROVE  InStep(tree) /\ Validate(tree)
<1>. DEFINE m == ManifestOf(tree)
<1>1. InStep(tree)
  BY DEF Agree, Rendered, InStep
<1>2. GoodManifest(m, ServesGRPC)
  BY <1>1, NoBindingsGood DEF InStep, SafetyInv, ManifestInv, Loadable, ManifestOf
<1>3. ASSUME m = NoBindings
      PROVE  tree[External] \in {Absent, Torn, <<>>} /\ tree[ClientsGen] \in {Absent, Torn, <<>>}
  <2>1. External \in Path
    BY BindingFiles DEF BindingFile
  <2>. HIDE DEF m
  <2>2. ServerCode(m) = <<>> /\ ClientCode(m) = <<>>
    BY <1>3, NoneBound
  <2>3. ~ServesGRPC => tree[External] \in {Absent, Torn, <<>>}
    BY <2>1 DEF ProgressInv, ContentInv, Fits
  <2>. QED
    BY <1>1, <2>2, <2>3 DEF InStep, m
<1>4. m.servers # <<>> => tree[External] = ServerCode(m)
  BY <1>1, <1>2 DEF InStep, GoodManifest
<1>5. tree[ClientsGen] = ClientCode(m)
  BY <1>1 DEF InStep
<1>6. \A s \in DOMAIN m.servers : Handled(tree, m, s)
  BY DEF Agree, Served, Reaches, Handled, HasHandler, HasStubs
<1>7. m = Resolved(m) /\ Configured(tree)
  BY DEF Agree, Resolved, ResolvedBy
<1>8. tree[Manifest] # Torn /\ ValidManifest(m)
  BY <1>1, <1>2 DEF InStep, GoodManifest
<1>9. Validate(tree)
  BY <1>3, <1>4, <1>5, <1>6, <1>7, <1>8 DEF Validate
<1>. QED
  BY <1>1, <1>9

(* What has been resolved is.                                              *)
LEMMA ResolvedStays ==
  ASSUME NEW x, NEW pub, ResolvedBy(x, pub) \in Manifests
  PROVE  ResolvedBy(x, pub) = ResolvedBy(ResolvedBy(x, pub), pub)
<1>. DEFINE m == ResolvedBy(x, pub)
<1>1. /\ m.servers \in [DOMAIN m.servers -> ServerBinding]
      /\ m.clients \in [DOMAIN m.clients -> ClientBinding]
  BY OfManifests
<1>2. /\ DOMAIN m.servers = DOMAIN x.servers /\ DOMAIN m.clients = DOMAIN x.clients
      /\ \A s \in DOMAIN x.servers : m.servers[s] = [x.servers[s] EXCEPT !.methods = pub[s]]
      /\ \A c \in DOMAIN x.clients :
           m.clients[c] = [x.clients[c] EXCEPT !.methods = pub[x.clients[c].service]]
  BY DEF ResolvedBy
<1>. HIDE DEF m
<1>3. ASSUME NEW s \in DOMAIN m.servers
      PROVE  m.servers[s].methods = pub[s]
  <2>. DEFINE r == x.servers[s]
              v == pub[s]
  <2>1. m.servers[s] = [r EXCEPT !.methods = v] /\ m.servers[s] \in ServerBinding
    BY <1>1, <1>2, <1>3
  <2>. HIDE DEF r, v
  <2>2. "methods" \in DOMAIN m.servers[s]
    BY <2>1 DEF ServerBinding
  <2>3. DOMAIN m.servers[s] = DOMAIN r
    BY <2>1
  <2>4. m.servers[s]["methods"] = v
    BY <2>1, <2>2, <2>3
  <2>. QED
    BY <2>4 DEF v
<1>4. ASSUME NEW c \in DOMAIN m.clients
      PROVE  m.clients[c].methods = pub[m.clients[c].service]
  <2>. DEFINE r == x.clients[c]
              v == pub[r.service]
  <2>1. m.clients[c] = [r EXCEPT !.methods = v] /\ m.clients[c] \in ClientBinding
    BY <1>1, <1>2, <1>4
  <2>2. v = pub[r.service]
    OBVIOUS
  <2>. HIDE DEF r, v
  <2>3. "methods" \in DOMAIN m.clients[c] /\ "service" \in DOMAIN m.clients[c]
    BY <2>1 DEF ClientBinding
  <2>4. DOMAIN m.clients[c] = DOMAIN r
    BY <2>1
  <2>5. m.clients[c]["methods"] = v /\ m.clients[c]["service"] = r["service"]
    BY <2>1, <2>3, <2>4
  <2>. QED
    BY <2>2, <2>5
<1>5. m \in Manifests
  BY DEF m
<1>6. m = ResolvedBy(m, pub)
  BY <1>3, <1>4, <1>5, ResolvedMeans
<1>. QED
  BY <1>6 DEF m

(* A command succeeds when its list is done: nothing is ahead any more.    *)
LEMMA NothingAhead ==
  ASSUME SafetyInv, [Next]_vars, Succeeds, command.name \in Binders \union {"generate"}
  PROVE  Kinds(steps) = {} /\ Of(steps) = {}
<1>1. [FileNext]_fileVars
  BY CommandIsFile, StepIsFile, EnvironmentIsFile DEF Next, vars
<1>2. status = "working" /\ status' = "ok"
  BY DEF Succeeds
<1>3. Finish
  <2>1. FileNext
    BY <1>1, <1>2 DEF fileVars
  <2>2. ~Begin(<<>>) /\ (\A ps : ~Begin(<<Saved(ps)>>) /\ ~TakeSnapshot(ps))
    BY <1>2 DEF Begin, AtRest, TakeSnapshot
  <2>3. \A new : ~Put(new) /\ ~Interrupt(new) /\ ~Crash(new)
    BY <1>2 DEF Put, Interrupt, Crash
  <2>4. (\A lost, fails : ~Undo(lost, fails)) /\ (\A p \in Path : \A content : ~Outside(p, content))
    BY <1>2 DEF Undo, Outside
  <2>5. ~Fail /\ ~Commit /\ ~GiveUp
    BY <1>2 DEF Fail, Commit, GiveUp
  <2>. QED
    BY <2>1, <2>2, <2>3, <2>4, <2>5 DEF FileNext
<1>4. Len(snapshots) = 0
  BY <1>3 DEF Finish
<1>5. /\ \E S : steps \in Seq(S)
      /\ \A i \in 1..Len(steps) : Takes(command.name, steps[i][1]) /\ steps[i][1] = "proto"
  BY <1>2, <1>4 DEF SafetyInv, PlanInv, Plan, CommitsMatch
<1>6. ~Takes(command.name, "proto")
  BY DEF Takes, Binders, HTTPKinds, PbKinds, BindingKinds, Generators
<1>7. 1..Len(steps) = {}
  BY <1>5, <1>6
<1>. QED
  BY <1>7 DEF Kinds, Of

(* Bindings that agreed do so still in a tree whose bindings are the same. *)
LEMMA SameBindings ==
  ASSUME SafetyInv, ProgressInv, Untouched, Agree(before, published, ServesGRPC)
  PROVE  Agree(tree, published, ServesGRPC)
<1>. DEFINE m == ManifestOf(before)
<1>1. /\ tree[Manifest] = before[Manifest] /\ tree[External] = before[External]
      /\ tree[ClientsGen] = before[ClientsGen] /\ tree[LocalConfig] = before[LocalConfig]
  BY BindingFiles DEF Untouched
<1>2. ManifestOf(tree) = m
  BY <1>1 DEF ManifestOf
<1>3. Rendered(tree, m, {}, ServesGRPC)
  BY <1>1 DEF Agree, Rendered, ManifestOf
<1>4. m \in Manifests
  BY <1>2, <1>3, NoBindingsGood
    DEF Rendered, SafetyInv, ManifestInv, Loadable, ManifestOf, GoodManifest
<1>5. \A p \in BindingFile \intersect ServiceFile : tree[p] = before[p]
  BY DEF Untouched
<1>6. Served(before, m, {})
  BY DEF Agree
<1>. HIDE DEF m
<1>7. Served(tree, m, {})
  BY <1>4, <1>5, <1>6, ServedKept
<1>8. Configured(tree)
  BY <1>1, <1>2 DEF Agree, Configured, m
<1>. QED
  BY <1>2, <1>3, <1>7, <1>8 DEF Agree, m

(* What a binding command and `jgo generate` work on is what they leave.   *)
LEMMA SettledAgree ==
  ASSUME NEW m, m = ResolvedBy(m, published), Rendered(tree, m, {}, ServesGRPC),
         Served(tree, m, {}), Configured(tree)
  PROVE  Agree(tree, published, ServesGRPC)
<1>1. ManifestOf(tree) = m
  BY DEF Rendered
<1>. QED
  BY <1>1 DEF Agree

LEMMA CommandAgrees ==
  ASSUME SafetyInv, ProgressInv, [Next]_vars, Succeeds, HasServer, before[Target] = "project",
         Agree(before, published, ServesGRPC)
  PROVE  Agree(tree, published, ServesGRPC)
<1>1. status = "working" /\ BindingsAhead
  BY DEF Succeeds, ProgressInv
<1>2. CASE command.name \in Binders
  <2>. DEFINE m == command.manifest
  <2>1. Kinds(steps) = {} /\ Of(steps) = {}
    BY <1>2, NothingAhead
  <2>2. /\ m = ResolvedBy(m, published) /\ Rendered(tree, m, {}, ServesGRPC)
        /\ Served(tree, m, {}) /\ Reachable(tree, m, {})
    BY <1>1, <1>2, <2>1 DEF BindingsAhead
  <2>3. ManifestOf(tree) = m
    BY <2>2 DEF Rendered
  <2>4. tree[Manifest] # Torn
    BY <2>2 DEF Rendered
  <2>5. GoodManifest(m, ServesGRPC)
    BY <2>3, <2>4, NoBindingsGood DEF SafetyInv, ManifestInv, Loadable, ManifestOf
  <2>6. m \in Manifests
    BY <2>5 DEF GoodManifest
  <2>. HIDE DEF m
  <2>7. Configured(tree)
    <3>1. \A c \in DOMAIN m.clients : tree[LocalConfig] # Torn /\ c \in tree[LocalConfig]
      BY <2>2 DEF Reachable
    <3>2. ASSUME m.clients # <<>>
          PROVE  DOMAIN m.clients # {}
      <4>1. m.clients \in [DOMAIN m.clients -> ClientBinding]
        BY <2>6, OfManifests
      <4>2. \A f \in [{} -> ClientBinding] : f = <<>>
        OBVIOUS
      <4>. QED
        BY <3>2, <4>1, <4>2
    <3>. QED
      BY <2>3, <3>1, <3>2 DEF Configured
  <2>. QED
    BY <2>2, <2>7, SettledAgree
<1>3. CASE command.name = "generate"
  <2>1. Kinds(steps) = {} /\ Of(steps) = {}
    BY <1>3, NothingAhead
  <2>2. CASE Untouched
    BY <2>2, SameBindings
  <2>3. CASE ~Untouched
    <3>. DEFINE m == command.manifest
                n == ManifestOf(before)
    <3>1. /\ tree[LocalConfig] = before[LocalConfig]
          /\ m = ResolvedBy(n, published)
          /\ Rendered(tree, m, {}, ServesGRPC) /\ Served(tree, m, {})
      BY <1>1, <1>3, <2>1, <2>3 DEF BindingsAhead
    <3>2. n = ResolvedBy(n, published) /\ Configured(before)
      BY DEF Agree
    <3>3. m = n
      BY <3>1, <3>2
    <3>4. ManifestOf(tree) = m
      BY <3>1 DEF Rendered
    <3>5. Configured(tree)
      BY <3>1, <3>2, <3>3, <3>4 DEF Configured
    <3>. QED
      BY <3>1, <3>2, <3>3, <3>5, SettledAgree
  <2>. QED
    BY <2>2, <2>3
<1>4. CASE command.name \notin Binders \union {"generate"}
  <2>1. command.name # "new"
    BY <1>1 DEF BindingsAhead
  <2>2. Untouched
    BY <1>1, <1>4, <2>1 DEF BindingsAhead
  <2>. QED
    BY <2>2, SameBindings
<1>. QED
  BY <1>2, <1>3, <1>4

(* Bindings that agreed when a command began do so when it has succeeded,  *)
(* whichever command it is: each writes both generated files, the handlers *)
(* and the configuration of the manifest it saves, or touches none of      *)
(* them.                                                                   *)
THEOREM BindingsKeptInStep == Spec => BindingsAgree
<1>1. ASSUME SafetyInv, ProgressInv, [Next]_vars, Succeeds, HasServer,
             before[Target] = "project", InStep(before), Validate(before)
      PROVE  InStep(tree) /\ Validate(tree)
  BY <1>1, ToAgree, CommandAgrees, FromAgree
<1>2. SafetyInv /\ ProgressInv /\ [Next]_vars =>
        [Succeeds /\ HasServer /\ before[Target] = "project"
           => (InStep(before) /\ Validate(before) => InStep(tree) /\ Validate(tree))]_vars
  BY <1>1
<1>. QED
  BY <1>2, ProgressInvariant, PTL DEF Spec, BindingsAgree

LEMMA HTTPSettled ==
  ASSUME HTTPAhead, status = "working", command.name = "generate", HasWeb, Kinds(steps) = {}
  PROVE  HTTPInStep
<1>. DEFINE contract == tree[Contract]
<1>1. /\ contract = [operations |-> contract.operations, models |-> contract.models]
      /\ tree[ApiGen] = [contract EXCEPT !.models = tree[Models]]
      /\ tree[RoutesGen] = contract.operations
      /\ contract.models = tree[Models]
  BY DEF HTTPAhead
<1>. HIDE DEF contract
<1>2. tree[ApiGen] = contract
  BY <1>1
<1>. QED
  BY <1>1, <1>2 DEF HTTPInStep, contract

LEMMA ProtobufSettled ==
  ASSUME ProtobufAhead, status = "working", command.name = "generate", HasGRPC,
         Kinds(steps) = {}
  PROVE  ProtobufInStep
<1>1. /\ \A f \in ProtoFile : tree[Proto(f)] # Absent => Compiled(f)
      /\ \A f \in ProtoFile : tree[Proto(f)] = Absent => Pruned(f)
      /\ HasServer => Registered /\ (Stubbed \/ ~HasContracts)
  BY DEF ProtobufAhead
<1>2. ASSUME NEW f \in ProtoFile
      PROVE  IF tree[Proto(f)] = Absent
             THEN tree[Messages(f)] \in {Absent, Headless} /\ tree[Services(f)] \in {Absent, Headless}
             ELSE /\ tree[Messages(f)] = tree[Proto(f)]
                  /\ Declares(f) => tree[Services(f)] = tree[Proto(f)]
  BY <1>1, <1>2 DEF Compiled, Pruned
<1>3. ~HasContracts => Implemented = {}
  BY <1>2 DEF HasContracts, Implemented, Discovered
<1>4. HasServer => \A f \in Implemented : tree[RpcStub(f)] # Absent
  BY <1>1, <1>3 DEF Stubbed
<1>. QED
  BY <1>1, <1>2, <1>4 DEF ProtobufInStep, Registered

LEMMA NothingSettled ==
  ASSUME SafetyInv, ProgressInv, Unbinding(tree, ServesGRPC)
  PROVE  Validate(tree)
<1>. DEFINE m == ManifestOf(tree)
<1>1. m = NoBindings /\ tree[Manifest] # Torn
  BY DEF Unbinding
<1>2. DOMAIN m.servers = {} /\ m.servers = <<>> /\ m.clients = <<>> /\ DOMAIN m.clients = {}
  BY <1>1, NoneBound
<1>3. m \in Manifests /\ ValidManifest(m)
  BY <1>1, NoBindingsGood DEF GoodManifest
<1>4. tree[External] \in {Absent, Torn, <<>>} /\ tree[ClientsGen] \in {Absent, Torn, <<>>}
  <2>1. External \in Path
    BY BindingFiles
  <2>2. ~ServesGRPC => tree[External] \in {Absent, Torn, <<>>}
    BY <2>1 DEF ProgressInv, ContentInv, Fits
  <2>. QED
    BY <2>2 DEF Unbinding
<1>5. m = Resolved(m)
  <2>1. m = ResolvedBy(m, published)
    BY <1>2, <1>3, ResolvedMeans
  <2>. QED
    BY <2>1 DEF Resolved, ResolvedBy
<1>6. Configured(tree)
  BY <1>2 DEF Configured
<1>. QED
  BY <1>1, <1>2, <1>3, <1>4, <1>5, <1>6 DEF Validate

LEMMA BindingsSettled ==
  ASSUME SafetyInv, ProgressInv, status = "working", command.name = "generate", HasServer,
         Kinds(steps) = {}, Of(steps) = {}
  PROVE  /\ Configured(tree) => Validate(tree)
         /\ ManifestOf(tree) # NoBindings => InStep(tree)
<1>. DEFINE m == command.manifest
            n == ManifestOf(before)
<1>1. \/ Untouched /\ Unbinding(before, ServesGRPC)
      \/ /\ m = ResolvedBy(n, published)
         /\ Rendered(tree, m, {}, ServesGRPC) /\ Served(tree, m, {})
  BY DEF ProgressInv, BindingsAhead
<1>2. ASSUME Untouched, Unbinding(before, ServesGRPC)
      PROVE  Unbinding(tree, ServesGRPC)
  BY <1>2, BindingFiles DEF Untouched, Unbinding, ManifestOf
<1>3. ASSUME m = ResolvedBy(n, published), Rendered(tree, m, {}, ServesGRPC), Served(tree, m, {})
      PROVE  /\ Configured(tree) => Validate(tree)
             /\ InStep(tree)
  <2>1. ManifestOf(tree) = m /\ tree[Manifest] # Torn
    BY <1>3 DEF Rendered
  <2>2. m \in Manifests
    BY <2>1, NoBindingsGood DEF SafetyInv, ManifestInv, Loadable, ManifestOf, GoodManifest
  <2>3. m = ResolvedBy(m, published)
    <3>. HIDE DEF m, n
    <3>. QED
      BY <1>3, <2>2, ResolvedStays
  <2>4. Configured(tree) => Validate(tree)
    BY <1>3, <2>3, SettledAgree, FromAgree
  <2>5. InStep(tree)
    BY <1>3, <2>1 DEF Rendered, InStep
  <2>. QED
    BY <2>4, <2>5
<1>. QED
  BY <1>1, <1>2, <1>3, NothingSettled DEF Unbinding

(* `jgo generate` that succeeds leaves generated code that is what the     *)
(* contracts and the manifest render to, from any tree that edits and      *)
(* earlier commands, cut short or not, can leave: none of its generators   *)
(* undoes what an earlier one has written, and what one skips needs no     *)
(* writing.  What it may leave besides is a file of a contract that is     *)
(* gone, cut short before its header ended: it is not known as generated.  *)
THEOREM GenerationReconciles == Spec => GenerateReconciles
<1>1. ASSUME SafetyInv, ProgressInv, [Next]_vars, Succeeds, command.name = "generate"
      PROVE  /\ HasWeb => HTTPInStep
             /\ HasGRPC => ProtobufInStep
             /\ HasServer /\ Configured(tree) => Validate(tree)
             /\ HasServer /\ ManifestOf(tree) # NoBindings => InStep(tree)
  <2>1. Kinds(steps) = {} /\ Of(steps) = {}
    BY <1>1, NothingAhead
  <2>2. status = "working" /\ HTTPAhead /\ ProtobufAhead
    BY <1>1 DEF Succeeds, ProgressInv
  <2>. QED
    BY <1>1, <2>1, <2>2, HTTPSettled, ProtobufSettled, BindingsSettled
<1>2. SafetyInv /\ ProgressInv /\ [Next]_vars =>
        [Succeeds /\ command.name = "generate"
           => /\ HasWeb => HTTPInStep
              /\ HasGRPC => ProtobufInStep
              /\ HasServer /\ Configured(tree) => Validate(tree)
              /\ HasServer /\ ManifestOf(tree) # NoBindings => InStep(tree)]_vars
  BY <1>1
<1>. QED
  BY <1>2, ProgressInvariant, PTL DEF Spec, GenerateReconciles

===============================================================================
