# jgo in TLA+

TLA+ models of [jgo](https://github.com/eyesofblue/jgo), a Go framework of a
service runtime (process lifecycle, HTTP and gRPC servers, middleware,
readiness, metrics) and a command line that generates and maintains projects
built on it. Small instances are checked with TLC; what matters most is proved
with TLAPS for every value of the constants. Paths below are relative to the
repository's root; `PROJECT.json` maps every definition to the lines it models.

## 1. The system

A process is one `app.App` with *components*: `Start(ctx)` runs until stopped,
`Stop(ctx)` ends it, and a `StartupNotifier` announces that it has crossed its
startup boundary. The HTTP, gRPC and management servers and the gRPC client
manager are components.

```
            signal, parent ctx
                  |
   main --Run--> App --Start(ctx), in a goroutine each--> HTTP | gRPC | management | clients
                  |  --Stop(ctx), one at a time, last registered first-->
     /readyz: management --Check--> readiness registry --CheckReadiness--> App, clients, ...
     request: net/http -> metrics -> traceid -> accesslog -> timeout =goroutine=> recovery -> bodylimit -> handler
     RPC:     grpc-go  -> user interceptors -> activity tracker -> recovery ... -> security -> handler

     jgo generate: snapshot { http { .. } -> pb { .. } -> rpc { mutateFiles { .. } } }
     jgo rpc ... bind: mutateFiles { go.mod -> generated code -> handlers -> manifest -> tidy -> build }
```

| Component | State | Operations | What is hard | What makes it correct |
|---|---|---|---|---|
| **Process lifecycle** `app/` | registered components, New/Running/Stopped, ready flag; per Run: results channel, startup signals, stopper goroutine | `Add`, `Run`, `CheckReadiness` | startup signals, failing Starts, signals and the shutdown timer race in two selects; Start and Stop may fail, panic or hang | ready only between startup and shutdown; strict reverse stop; Run returns whatever components do; a clean return leaves nothing running |
| **gRPC activity tracker** `server/grpcx/interceptors.go` | `draining`, `active` (atomics), a channel of one token | `enter`, `leave`, `startDraining`, `wait` | check-then-act on two atomics, wake-ups through a lossy channel | nobody is inside once drained; no wake-up is lost |
| **gRPC server** `server/grpcx/server.go` | mutex, listener, published server, started/stopRequested | `Start`, `prepare`, `Stop` | Stop before, during, after Start; callbacks that panic while the mutex is held; drain, then graceful stop | one serve; a nil Stop leaves no RPC; the listener is closed; Stop ends by its deadline |
| **HTTP server** `server/httpx/` | mutex, listener, `http.Server`, started/stopRequested | `Start`, `Stop` | the same races; the base context | as above |
| **HTTP request path** `middleware/`, `response/`, `metrics/` | buffer and `timedOut`, recorder's business code and `finalized` | handler's goroutine, timeout's select, recovery, observer | the handler outlives its request and keeps its writer and its observer | answers are whole; late writes are refused; metrics agree with the answer |
| **Readiness registry** `readiness/` | entries, a running flag each; per Check: pending set, results channel | `Add`, `Check` | checkers hang, panic, answer after the deadline, while other Checks come | no two checkers of a dependency overlap; a report is complete and true; Check returns |
| **Management server** `management/` | mutex, listener, `http.Server`, started/stopped | `Start`, `Stop`, `/healthz`, `/readyz`, `/metrics` | probes arrive while the App drains; Shutdown's deadline, then Close | no late probe is told ready; a clean Stop leaves no probe and no listener; shutdown ends though checkers hang |
| **gRPC client manager** `client/grpcx/` | connections, started/closed, done channel | `Conn`, `CheckReadiness`, `Start`, `Stop` | connections closed outside the mutex, probes that hold one, concurrent Stops | none handed out after Stop, none open when Stop has returned; Start ends |
| **Health probe** `health/` | none | `Probe` | – | – |
| **Error catalog** `errors/` | registered definitions | register, `LookupCode`, `PublicValues` | – | codes are unique, internal text never public |
| **Tracing, logging, security** `telemetry/`, `logx/`, `security/` and small middlewares | configuration | wrap a library | – | – |
| **RPC binding generator** `internal/generator/rpcbinding/` | manifest `.jgo/rpc.json`, generated files, `go.mod`, client configuration, handlers and their methods | `BindServer`, `UnbindServer`, `BindClient`, `UnbindClient`, `Generate`, `Validate`, `mutateFiles` | several files change together; the developer has edited some; a step or the rollback fails, or the process dies | manifest, generated code and handlers agree; all or nothing; user code is kept |
| **Contract generators** `internal/generator/{protobuf,openapi}/` | contracts and generated files | add operation, service, method; generate both; restore | publish file by file, contracts that have gone | contract and code change together; nothing stale stays |
| **Project generator** `internal/generator/project/` | staging directory, target | create | remove-then-rename of an empty target, another process in between | the target is complete or untouched |
| **Development commands** `internal/command/development.go` | snapshot of the generated tree | `jgo generate`, restore, `jgo doctor` | three generators in a row under one more snapshot, each may fail | a failed run leaves the tree as it was; a successful one has everything in step |
| **Other commands** `internal/call/`, `internal/template/`, `cmd/jgo` | none | one-shot | – | – |

## 2. Modules

| Module | Models |
|---|---|
| `App` | `app/app.go`: one action per step another goroutine can see |
| `Lifecycle`, `AppLifecycle` | what App promises, without goroutines; the refinement mapping |
| `AppHistory` | App with a history variable: which component failed first |
| `ActivityTracker` | the tracker, atomic by atomic |
| `DrainGate` | what the tracker promises; instantiated in `ActivityTracker` |
| `GrpcServer` | `Start`, `prepare`, `Stop`; *extends* `ActivityTracker`, whose steps are the RPCs' and Stop's |
| `HttpRequest` | one request through timeout, recovery and metrics: two goroutines |
| `HttpServer` | `Start`, `Stop`; *extends* `HttpRequest`, whose steps are the requests' |
| `Readiness` | the registry and its concurrent Checks |
| `Operations` | the management server, `/readyz` and the gRPC client manager while the App takes them down; *extends* `Readiness`, whose Checks are the probes |
| `FileTransaction` | any command over a set of files: snapshots that nest, steps that write, rollback, crash; the abstract specification of the generators |
| `Toolchain` | a jgo command as the list of its remaining steps; *extends* `FileTransaction` |
| `Bindings` | `rpcbinding/binding.go`: four commands, the `rpc` step of `jgo generate`, doctor's `Validate` |
| `Contracts` | `openapi/` and `protobuf/`: adding to a contract, and both generators |
| `Project` | a project over its life: `jgo new`, every command of the two modules above, `jgo generate` around them, the developer's edits |
| `MCApp` | the instance of App for TLC: which components there are and what they are called |
| `*Proofs` | theorems and proofs about the module of that name; `HttpServerProofs` holds those about `HttpRequest` too, `GrpcServerProofs` those about `ActivityTracker` |
| `CommandProofs` | theorems about `Project` that need to know what each step of each command may write |
| `AgreementProofs` | theorems about `Project` that need to know what the steps taken so far have written; *extends* `CommandProofs` |

### Correspondence with the code

**App.** `pc` follows `Run`: `launching` (the loop of lines 110-135), `awaiting`
(the startup select), `serving` (the select after `ready` is stored),
`draining` (label `shutdown` reached, readiness not yet withdrawn),
`cancelling`, `stopAll`, `collect` (the select of `stopAll`), `finish`. Select
with several ready cases is a disjunction. `start[c]` is the goroutine that
calls `Start` (`returned`: its result is queued; `done`: `starts.Done` has run),
`waiter[c]` the one that forwards `Started()`, `stopper` the one of `stopAll`.
Registration, `beginRun` and `finishRun` are atomic because they hold `App.mu`.
A panic is the outcome `"panic"`, which `Failed` treats as the code's recover
does. Errors are the set of components they stem from.

**ActivityTracker.** Each atomic load, add or store is one action, named for
it: `FirstCheck`, `CountIn`, `SecondCheck`, `BackOff`, `CountOut`, `Notify`,
`StoreDraining`, `NotifyDraining`, `LoadActive`, `Wake`, `TimeOut`.

**GrpcServer.** A variable `mu` is needed only because registration callbacks
run user code under the mutex; all other locked sections are one action.
`server` is the grpc-go object: `new`, `serving`, `quitting` (GracefulStop
called), `stopped`. `CloseServed` is what grpc-go does to listeners: it closes
those `Serve` was given and no other. An RPC's stream (`rpc`) opens only on a
server whose `Serve` was given the listener (`Served`), maybe on a connection
accepted before it quit, before the RPC reaches the tracker, and closes after the
RPC has left it, as `New`'s order of interceptors has it (lines 67-70).

**HttpRequest.** `main` is the goroutine net/http runs the chain in, `handler`
the one the timeout middleware spawns, recovery included. `Reply` stands for a
pair of HTTP status and business code: success, a business error, the error of
a panic, that of a timeout; a response is written as business code, status,
body, in that order, and each is a step. A handler may respond any number of
times (`Respond`), or return or panic in between: the first status stays
(`timeout/timeout.go:84`, and `header`, the same guard in the writer recovery looks
at), bodies are appended (a body is the set of answers whose envelopes it holds),
the last business code counts (`metrics/metrics.go:218`). `given` is a history of the
answers begun, which only the properties read. `buffer` is the `bufferWriter`,
`wire` what reached the connection, `code` the recorder's business code, `recorded`
what was counted. `ctx` distinguishes the deadline from a cancellation because
the select's second case does.

**HttpServer.** One locked section per operation. Shutdown waits for requests
net/http is working on (`Active`), not for goroutines middleware left behind.
`baseDone` is the context of `Start`, from which every request's derives. A Start
whose `Serve` comes after Shutdown returns without having served (`late`).

**Readiness.** `checker[c][d]` is the goroutine Check `c` spawned for `d`:
`running` (in `checkDependency`), `sent` (its result is in the channel, `finish`
has yet to run), `over`. The channel has room for every entry, so it is the set
of answers still pending.

**Operations.** A Check of `Readiness` is one GET of `/readyz`: `Request` is the
handler's call of `Check`, `Respond` its return. The entries are those a
generated program registers (`managementx/management.go.tmpl:15-32`): `process`,
which asks the App, and one per client, which asks the manager. `phase` is all of
`App.Run` that matters here, its ready flag and that it has reached its label
`shutdown`; the App stops the management server first and the manager after it,
as `main.go.tmpl` registers them. `held[c]` are connections `Conn` has handed to
a probe's checker: between that and `GetState` the manager may be closed.
`closed`, `toClose` and `stopper` follow `Manager.Stop`: the flag under the
mutex, the connections one by one outside it; the second caller of Stop (`other`)
returns at once. Connection states are DOWN, READY and SHUTDOWN. `serving` and
`stopping` follow the management server's `Start` and `Stop`. Each component is
started once, so `ErrAlreadyStarted`, which changes nothing, is left out.

**Files.** `tree` gives each path its content: an abstract value of what was
rendered (the services registered, the clients declared, the operations routed),
`Absent`, or `Torn` for a file whose writing was cut short. The files buf writes are
known as generated by their first line, so they may also be left `Headless`, with
less than that line: then the protobuf generator's snapshot, rollback and pruning
pass over them (`protobuf/generate.go:275,386`), reading the services fails, and so
does a build. What is written aside
and renamed is never torn (`Do`'s last argument; `openapi/document.go:345`,
`protobuf/add.go:278`); what `os.WriteFile`, buf and the Go tools write may be.
`snapshots` is the stack of what the commands under way have saved: `mutateFiles`
has one, the generators of contracts have theirs, `jgo generate` encloses all of
them (`Enter` pushes, `CommitStep` pops, `RollBack` restores). A step (`Do`) writes
its files, or some of them before it fails (`Interrupt`) or the process dies
(`Crash`); its own preconditions may make it fail too; a step that runs buf, `go
mod tidy` or `go build` may fail for any reason (`MayFail`). A rollback may miss
paths or be cut short, and that of the protobuf generator leaves headless files;
`spoiled` are those it did not put back, `exposed` those no outermost snapshot holds.

**Bindings.** A manifest is a function from services to their handler and methods
and one from clients to their service. The commands' refusals are the guards of
`BindServer`, `BindClient`, `UnbindServer`, `UnbindClient`; what their callback of
`mutateFiles` does is the list of steps they start. The loop of `Generate` over the
manifest's services (lines 750-757) is the step `ImplementServices`, which takes them
one by one in any order (the code sorts the manifest by name; no property depends on it). `CreateServerStubs` keeps a
method that has the signature of the service (`Implements`) and refuses another.
`Publish` is a workspace module whose methods change under the project.
`Validate` is what `jgo doctor` checks, with its gaps.

**Contracts.** A protobuf file declares messages, a service, or a service with an
RPC; `Messages(f)` and `Services(f)` are its two generated files. `Prune` removes
the generated code of contracts that are gone, as far as it has its header, and only
if it removed something does `Verify` build.

**Project.** `New` renders aside, so only `ClearTarget` and `PublishProject` touch
anything: `Occupy` is another process that fills the target in between. The
developer edits, deletes and changes contracts between commands (`Edit`).

External, modelled from how the code uses it: user components, handlers and
checkers (they answer, fail, panic or hang), grpc-go's and net/http's server
objects and connections, contexts and their timers; buf and the Go tools, the
file system, the developer.

## 3. What TLC checks

| Run | Instance | Shows |
|---|---|---|
| `app` | 2 callers of Run; 4 components: a notifier and another, one with a taken name, one with a blank name | types; ready implies started; not ready while draining; strict reverse stop, also behind a Run that gave up; a clean return is quiescent; App implements `Lifecycle`; Run returns after cancellation or an exit, whatever components do; the stopper's goroutine ends if components keep their contract |
| `app_rootcause` | 2 components | **violated**, finding 1 |
| `tracker` | 3 RPCs, 1 Stop | nobody inside once drained; no lost wake-up; a drained tracker is noticed without the deadline; the tracker implements `DrainGate` |
| `grpc` | 1 RPC, 2 Starts, 2 Stops, with and without a listener option | a nil Stop leaves no RPC; the listener is closed; one serve; Stop ends by its deadline though handlers hang and registration panics; Start follows |
| `grpc_deadline` | 1 each | **violated**, finding 2 |
| `grpc_panic` | 1 each | **violated**, finding 3 |
| `readiness` | 2 dependencies, 2 Checks | no overlapping checkers; complete and true reports; Check returns; a dependency is not busy for ever |
| `operations` | 1 probe, `process` and 1 connection, 2 callers of the manager's Stop | a probe that comes late is not told ready; a clean Stop leaves no probe, no listener and no connection; shutdown ends though checkers hang |
| `http` | 1 request; its handler answers with success or a business error, once, again or in part, panics or hangs; 2 Starts, 1 Stop | answers whole but for what the handler mixed itself; late writes refused; the metrics count the status sent with the last business code; a nil Stop leaves no request and later Starts open nothing; a request ends though its handler hangs; Stop ends by its deadline; Start follows |
| `http_drain` | 1 each | **violated**, finding 4 |
| `project` | a mixed and a protocol project; 2 services, one versioned and one from the workspace, 1 method, 1 handler, 1 client, 1 operation, 1 contract; `jgo new` and 3 commands, 1 fault, 1 edit | a failed command undoes itself; user code is kept; a command that succeeds leaves bindings that agree if it found such; `jgo generate` that succeeds has everything in step |
| `generate_leftovers` | a gRPC project, 2 contracts; `jgo new` and 5 commands, no fault, 1 edit | **violated**, finding 5 |

Safety and liveness of a component are checked in one run, so no symmetry is
used: it would be unsound for liveness.

**Bounds.** In the runs of the service runtime the constants are the only bounds:
no counter is capped, since every caller makes its call once. Why they are
enough: App's loops treat components alike, and of the components of `app` at most
two get into the list at once (three exceed what can be checked): a notifier
before or after another shows the order of starts, of stops and the count of
startup signals, and the safety properties, the refinement included, are proved
for any number; two callers show every race on a mutex; the tracker's lost
wake-up needs an RPC backing off, one leaving and one in between; what two Starts
and two Stops can do to each other includes every order of a locked section, a
Serve and a drain; two Checks are one that is stuck and one that comes later. RPCs
and requests share nothing but the tracker (checked with three) and the server,
so one stands for all; `Answer` has the two kinds of answer a handler may mix
(`http_drain` needs one). A second Stop of the HTTP server reads what the first has
left under the mutex and calls Shutdown again: `http` has one, and the safety of any
number is proved. So does one probe in `operations` stand for all, as two probes meet only
in the registry, which `readiness` checks with two, and its safety is proved for
any number of probes and connections.

The runs of the generators have three counters. `MaxCommands`: three commands after
`jgo new` suffice for every hazard of the list that needs a history, as bind,
crash, generate; `MaxFaults`: one error or one crash, because a fault only leaves
a tree that a later command meets, and a second one while the first is being
undone only adds to `spoiled`; `MaxEdits`: one change by the developer or another
process. Two services compete for one handler; the versioned one drives
go.mod and tidy, the other changes its methods. What commands may do to files
beyond these bounds is proved (`ProjectCommandsUndone`). Where a safety property is
proved the bound does not matter.

**Deadlock** is not checked: every one of these systems ends, when Run, Stop,
Check or the request has returned, or the commands have been used up. What must
not block is stated as liveness.

**Fairness.** Weak fairness of the goroutines jgo itself spawns or runs in (the
Go scheduler is fair to runnable goroutines, and a select with a ready case
proceeds) and of deadlines that have been set. Never of user code: components,
handlers, interceptors and checkers may hang, with these exceptions, each
written into the formula that makes it: `Cooperation`, the premise of `StopsAll` (components keep the
contract of `app/component.go`), `FairTransportSpec` (interceptors outside the
tracker return; finding 2 shows why it is needed), and gRPC registration
callbacks return or panic. `OpsFairness` leaves out even the shutdown deadline:
probes are bounded by the registry's own. The generators have no liveness: a
command runs to its end or dies.

### Findings

1. `app_rootcause`: if a component's Start fails and a signal arrives before
   Run's select looks, both cases are ready and the select may drop the error
   (`app/app.go:152`); `docs/architecture-and-roadmap.md:341` has App keep and
   return the root cause.
2. `grpc_deadline`: `GracefulStop` takes no context (`server/grpcx/server.go:210`)
   and waits for streams held by interceptors outside the tracker, against line
   186: "Stop attempts a graceful stop until ctx expires, then force-stops the
   server."
3. `grpc_panic`: if a registration callback panics the listener is open and
   grpc-go does not know it yet, so nobody closes it, against lines 170-172:
   "without deadlocking or leaking the listener".
4. `http_drain`: `BaseContext` is Start's context (`server/httpx/server.go:159`),
   which `App.Run` cancels before it calls Stop. Requests in flight are abandoned
   with an empty answer and Shutdown does not wait for their handlers, against
   `docs/architecture-and-roadmap.md:670`.
5. `generate_leftovers`: `createServiceStubs` writes outside the snapshot
   (`internal/generator/protobuf/generate.go:237`). When a contract was removed and
   another gained an RPC, `jgo pb generate` takes back the generated code after its
   `go build` fails and leaves the new stubs, against
   `docs/architecture-and-roadmap.md:93`: generation "leaves nothing half-done when
   it fails". `jgo generate` has them in its own snapshot and takes them back.

Seen on the way, while these models were checked:

- A readiness checker's goroutine sends its result before the deferred `finish`
  (`readiness/readiness.go:118-119`), so the Check right after a READY one may
  report the dependency busy; `BusyEnds` says that this passes.
- The business code of a handler that answers after the timeout may replace the
  timeout's before the snapshot (`metrics/metrics.go:217`): a 504 is then counted
  with the handler's code. `MetricsMatchAnswer` is about answers that were sent in
  time only.
- A handler that responds a second time keeps its first status
  (`middleware/timeout/timeout.go:84`) and is counted with its last business code
  (`metrics/metrics.go:218`): a pair no single answer has. `MetricsMatchAnswer` says
  just that, and that the pair is the answer's if the handler gave one. The body then
  holds both envelopes; `NeverMixed` excludes only mixing with the framework's answers.
- Answers that bypass `response` (a 404 of `ServeMux`, a raw write) are counted with
  business code 0.
- The protobuf generator knows its files by their header
  (`protobuf/generate.go:275,386`). If buf fails so early that a file has less than
  that, say on a full disk, `jgo pb generate` fails and the fragment stays:
  `AllOrNothing` counts it among what a rollback does not put back. (`jgo generate`
  puts it back.) If buf is killed there and the contract is removed afterwards, `jgo
  generate` passes over the fragment, finds nothing to build for and succeeds, though
  `CHANGELOG.md:72` promises "Reconciliation of stale protobuf outputs when contracts
  or entire proto files are removed": `GenerateReconciles` excepts these files and no
  others. Were it to ask for `Absent` there, TLC would find this run of `project`:
  `jgo new`, `jgo pb service add`, `jgo pb generate` killed in buf, the contract
  deleted, `jgo generate`. If the fragment is a `_grpc.pb.go` and another contract is
  left, every `jgo generate` fails on it until it is removed by hand.
- `Validate` compares a generated file only when the manifest has a binding of its
  kind, and looks for leftovers only when it has none at all: after a crash of the
  first server bind and a client bind that succeeds, doctor accepts an
  `external.gen.go` that registers a service the manifest does not have. `InStep`
  is the stronger agreement, and `BindingsAgree` assumes and keeps both.
- `bindingOutputsStale` looks for markers, which a torn file may lack: `jgo
  generate` leaves a torn `external.gen.go` alone while the manifest is empty. This
  is why `GenerateReconciles` asks for `InStep` only when the manifest names
  something.
- A torn `rpc.json` makes every binding command refuse; a crash between
  `addClientConfig` and `saveManifest` makes binding that client again refuse.
- A contract that keeps its messages and loses its service keeps its
  `_grpc.pb.go` (`protobuf/generate.go:351-368` prunes per proto file): the service
  stays registered, as `ProtobufInStep` allows.
- `UnbindServer` tidies if the service removed was versioned even when workspace
  bindings remain, which `UnbindClient` and `Generate` avoid.

## 4. What is proved

All theorems are of the modules' specifications, for every value of the
constants, from the assumptions named in the modules and no others:
`AppAssumption` (finitely many components, each with a name; `None` is not one),
`TrackerAssumption` (finitely many RPCs, which `Cardinality` needs), `ServerAssumption` (`Nobody` is no Start), `ReadinessAssumption`
(required dependencies are dependencies), `OperationsAssumption` (the entries are
the process, which is required, and the connections; the App is one of the
manager's stoppers), `PathAssumption` (which paths a project has),
`ContentAssumption` (a missing or torn file is not one of the contents a command
writes: the constants `Absent`, `Torn` and `Headless` differ and are neither a
manifest, a handler nor a stub), `AnswerAssumption` (a handler's own answers are a
success or a business error). `FaultsAssumption`,
`BoundsAssumption` and `VersionedAssumption` type the constants of the generators.

| Theorem | Property |
|---|---|
| `AppProofs!TypeCorrect`, `ReadinessIsEarned`, `DrainingIsNotReady`, `OneRun`, `StopsInReverse`, `CleanReturn` | the invariants of `app`, and that one Run gets through |
| `AppProofs!Implementation` | App implements `Lifecycle` |
| `GrpcServerProofs!TrackerTypes`, `DrainIsSafe`, `WakeupIsNotLost` | the tracker's types and invariants (the last for one Stop, as in the run) |
| `GrpcServerProofs!TrackerImplementsGate` | the tracker implements `DrainGate` |
| `GrpcServerProofs!ServerTypes`, `GracefulStopIsFinal`, `OneServe`, `ListenerIsReleased`, `DrainIsSafeInServer` | the invariants of `grpc`, and the tracker's inside the server |
| `ReadinessProofs!ReadinessTypes`, `NoOverlap`, `ReportsAreHonest` | the registry's types and the invariants of `readiness` |
| `OperationsProofs!OperationsTypes`, `LateProbesAreNotReady`, `StopsLeaveNothing`, `RegistryInOperations` | the invariants of `operations`, and the registry's inside the program |
| `ProjectProofs!CommandsUndone` | a command over files that fails has changed only what it wrote outside its outermost snapshot and what its rollback did not put back |
| `ProjectProofs!ProjectImplementsTransactions`, `ProjectCommandsUndone` | every command of the project is such a transaction, so it undoes itself |
| `CommandProofs!ProjectTypes` | the types of all files, snapshots and variables of a project |
| `CommandProofs!FailureLeavesNothing` | a command that fails leaves nothing but the stubs of `jgo pb generate` and what its rollback did not put back: it failed in its turn, or met a headless file |
| `CommandProofs!DeveloperCodeKept` | no command changes what the developer wrote |
| `AgreementProofs!BindingsKeptInStep` | `BindingsAgree`: a command that succeeds leaves bindings that agree if it found such |
| `AgreementProofs!GenerationReconciles` | `GenerateReconciles`: what `jgo generate` leaves is in step with contracts and manifest, from every tree that edits, faults and crashes can leave, but for headless files of contracts that are gone |
| `HttpServerProofs!RequestTypes`, `AnswersAreWhole`, `CountsMatch`, `LateWritesAreRefused` | the request's invariants and its action property of `http` |
| `HttpServerProofs!ServerTypes`, `StopIsFinal`, `AnswersAreWholeInServer` | the server's invariants of `http`, and a request's inside the server |

Each rests on an inductive invariant, kept at the end of the module it is about
(for the files, `FileInv` in `ProjectProofs`, `SafetyInv` in `CommandProofs` and
`ProgressInv` in `AgreementProofs`).

- **App, `IInv`.** The properties are not inductive: *ready implies started*
  needs to know that Run's local count is the number of notifiers it has yet to
  hear from (`CountMatches`), which needs that only launched notifiers have a
  forwarder (`LaunchedPrefix`) and that ready is stored only when the count is
  zero (`ReadyWindow`). *Reverse stop* needs the loop index (`StopPrefix`): below
  it nothing is stopped, above it everything is. `RunPosition` ties Run's
  position to the mutex-protected state. The refinement is proved step by step
  from `IInv`: most steps are stutters of `Lifecycle`, and the ones that are not
  need `LaunchedPrefix` (launch in order), `ReadyWindow` (become ready) and
  `StopPrefix` (stop in order).
- **Tracker, `TrackerInv`.** `active` is the number of RPCs between their
  increment and their decrement (`ActiveCounts`), and a Stop that has begun has
  closed the gate (`GateClosed`); an RPC admitted after that would have had to
  read `draining` false in its second check.
- **gRPC server, `ServerInv`.** Who will still close the listener
  (`ListenerPosition`), how far the only Start has got (`StartPosition`), what a
  Stop that is waiting or has returned knows (`StopPosition`). The tracker's
  theorems carry over because every step of the server is a tracker step or
  leaves the tracker alone (`ServerTracks`).
- **Readiness, `ReadinessInv`.** `RunningIsOne`: the flag is set by exactly one
  goroutine between `begin` and `finish`. `ReportGrows`: nothing is reported
  about what is pending, everything about the rest.
- **Operations, `OpsInv`.** `ReadinessInv` carries over (`CheckersAlone`,
  `InvIsHonest`). `Lateness`: a probe that began while the App was draining, or the
  manager closed, has been given no connection and no `nil` since.
  `ManagerPosition`: what is not shut down is in `toClose`, and while anything is,
  the Stop that took the flag is still closing. `ManagementPosition`: who has the
  listener, and that a server shut down has no new probe once Shutdown has seen none.
- **Files, `FileInv`.** `Orderly`: a command at rest
  has no snapshot, and one that works has spoiled nothing. `FramesTrue`: what a
  snapshot saved is what the command found, but for exposed paths and those the
  outermost snapshot holds when this one is further in. `TreeTrue`: the tree is what
  the command found wherever it is not held, exposed or spoiled. `Maps`: tree and
  snapshots are functions over paths. That every command is such a transaction is proved step
  by step: `Do`, `MayFail`, `Enter` and `RollBack` are (`DoIsFile`, ...), and each step of
  `Bindings`, `Contracts` and `Project` is one of these.
- **Commands, `SafetyInv`.** `FileInv` holds of any command, whatever its steps write.
  That the stubs are *all* a failure leaves, and that developer code is never in a
  step's way, depends on which steps a command still has to take, so the invariant
  speaks of the list of them. `PlanInv`: they are steps of that command in the order
  of the code (`Takes`, `Rank`), with as many commits among them as there are
  snapshots, and no binding step shares the list with a generator still to be entered,
  as `command.manifest` is the one the binding steps are about. `CoverInv`: the
  outermost snapshot holds whatever they may write (`Held`), except what ends the
  command: the contract of `AddMethod`, and the new stubs of `jgo pb generate`, after
  which no stub is created; so a step that fails has exposed nothing else.
  `TargetInv`: only `jgo new` works where there is no project, and its two steps find
  none. `ManifestInv`: the manifest that is read, saved or put back can be loaded
  (`ValidManifest`, no servers where no gRPC is served), which the type of the
  generated code and `HandlerFiles` need. `UserInv`: every snapshot has what the
  developer has, and the HTTP stub still to be written is missing. The proof first
  shows how a list of steps changes when its head is taken, a commit passed, a
  generator entered (`PlanTail`, `PlanCommit`, `PlanEnter`, `PlanLoop`), then what any
  step does to the rest of the invariant (`AdvanceKeeps`, `CutKeeps`, `FailKeeps`),
  then that each step of the source writes what it may (`HTTPStepsKeep`,
  `PbStepsKeep`, `BindingStepKeeps`, ...), then that each command starts with such a
  plan (`StartClosed`, `StartBindKeeps`, `NestedKeeps`).
- **Commands, `ProgressInv`.** That a command which succeeds has done all it had to
  do is no invariant while it runs, so each part says: it is done, or the step that
  does it is still in the list. `HTTPAhead` and `ProtobufAhead` say so of each file
  `jgo generate` renders from a contract; what is discovered counts as rendered only
  when neither `buf` nor the pruning is ahead, and a contract without its file asks for
  no stub. `BindingsAhead` says so of the manifest, both generated files, every
  service's handler and stubs (the loop of `ImplementServices` is ahead for the
  services it still has) and every client's configuration, against the manifest the
  command works on, which is resolved. For `jgo generate` it starts at the step `rpc`,
  before which no binding file has changed (`Untouched`); the commands that are not
  about bindings touch none of them at all. `ContentInv` gives the contract and the
  configuration the type that rendering them needs, in the tree and in every snapshot,
  as a rollback puts those back. The proof first shows what any step of a list leaves
  alone (`HTTPTook`, `ProtobufTook`, `BindingsTook`), then for each step of the source
  that it brings about what it takes out of the list (`BindingStepRenders`,
  `StubsProgress`, `BufProgress`, ...), then that each command lists a step for
  everything its start leaves to do (`BindServerProgress`, `EnterBoundProgress`, ...).
  A command succeeds when its list is empty (`NothingAhead`), and then all is done:
  `ToAgree` and `FromAgree` tie that to doctor's `Validate`.
- **Request, `RequestInv`.** `AnswerPosition`: while the middleware listens the
  connection is untouched, and afterwards it carries what the branch taken put
  there. `GivenPosition`: how far the answers begun have got; a panic's answer is the
  last, and the only one whose body is in the buffer. `BufferPosition`: the buffer has
  the first status written and bodies of answers begun. `CodePosition`: until the
  middleware stops listening the business code is that of the last answer begun.
- **HTTP server, `ServerInv`.** Only the one Start past the check publishes a
  server, and a Stop that has returned nil has either seen none and keeps it from
  being published, or has shut it down (`StopPosition`); before Serve no request
  exists (`NoEarlyRequest`). Requests keep `RequestInv` because every step of the
  server is a request's or leaves them alone (`ServerServes`).

**Model-checked only:** all liveness (`RunReturns`, `StartupAbortReturns`,
`StopsAll`, `DrainNoticed`, `StopHonoursDeadline`, `StartFollowsStop`,
`CheckReturns`, `BusyEnds`, `RequestsEnd`, `ShutdownEnds`), which is beyond the proof
system's backends; and the violations above.

## 5. Not modelled

- Health probe, one-shot client calls, tool installation, `jgo run` and `jgo build`,
  tracing, logging, security, access log, trace ids, body limit: stateless wrappers
  or sequential I/O; nothing interleaves and no file of a project changes.
- The error catalog: a map filled during package initialisation and read afterwards.
- Of the generators: the text of what they render and parse, symlinks and file modes,
  empty directories, temporary files a crash leaves behind, several services or
  versions per module, `--skip-tidy`, two jgo commands at once (they take no lock and
  would restore over each other), edits while a command runs (a rollback reverts
  them). A Go declaration and the file that holds it are one; a method's signature
  is the service it is for. A single command whose message cannot be printed after its
  files are committed (`internal/command/api.go:43,70`) ends in an error with all of
  them written: `AllOrNothing` is about the generators, and about printing only for
  `jgo generate`, which undoes itself then (`PrintFails`).
- Of the request path: handlers that write to the response without `response`, and
  flushing or hijacking, which the buffer does not offer.
- Of the client manager: dialling, credentials, the interceptors.
- Option validation, logging, JSON, routes, headers: data the properties do not
  tell apart.
- Two concurrent Stops of the gRPC server sharing the tracker's single token: App
  calls Stop once; only safety is claimed for two.

## 6. Plan

Done, in this order: App, tracker, gRPC server, readiness, HTTP request and server;
the generators over a file system that fails, and `jgo generate` around them; the
management server and the client manager under the App's shutdown. What is left:

1. `ServerContract`: what App assumes of a component (Start ends after Stop, no
   serving after a nil Stop) as one abstract specification that `GrpcServer`,
   `HttpServer` and `Operations`' management server and client manager each implement.
2. Two jgo commands at once, once the code takes a lock.
3. Theorems: what `ServerContract` promises, once it is stated; the liveness
   properties stay with TLC.
