--------------------------------- MODULE App ---------------------------------
(***************************************************************************)
(* The process lifecycle of app/app.go: registration, Run, and the         *)
(* shutdown sequence.  The goroutines that run concurrently are            *)
(*                                                                         *)
(*   - callers of Add and of Run (App is documented safe for both);        *)
(*   - the one Run that gets past beginRun (program counter pc);           *)
(*   - one goroutine per component that calls Start and sends its result;  *)
(*   - one goroutine per StartupNotifier that forwards its startup signal; *)
(*   - the goroutine stopAll spawns, which stops the components in turn;   *)
(*   - the timer of shutdownCtx, and whoever cancels the parent context or *)
(*     sends a signal.                                                     *)
(*                                                                         *)
(* Components are external: their Start and Stop return when they like,    *)
(* with any outcome, or never.  Run has one body, so its local variables   *)
(* are variables here.  The options (name, timeout) are valid.             *)
(***************************************************************************)
EXTENDS Integers, Sequences, FiniteSets

CONSTANTS
  Component,   \* the component objects the program may register
  Notifier,    \* those that implement StartupNotifier
  NameOf,      \* what Component.Name() returns, trimmed
  Blank,       \* the empty name
  Caller,      \* goroutines that call Run
  None         \* no component: a nil error

ASSUME AppAssumption ==
  /\ IsFiniteSet(Component)
  /\ Notifier \subseteq Component
  /\ DOMAIN NameOf = Component
  /\ None \notin Component

VARIABLES
  state,         \* App.state
  components,    \* App.components, in registration order
  ready,         \* App.ready
  caller,        \* what became of each call of Run
  pc,            \* where the running Run is
  launched,      \* components whose goroutines Run has spawned (a prefix)
  startupCount,  \* Run's local of that name
  cancelled,     \* signalCtx is done
  start,         \* each component's Start goroutine
  startup,       \* each component's Started() channel is closed
  waiter,        \* each notifier's forwarding goroutine
  results,       \* channel of Start results
  runErr,        \* Run's local: the component whose Start failed, or None
  stopper,       \* the goroutine of stopAll
  stopNext,      \* its loop index: components[stopNext] is next
  stop,          \* each component's Stop call
  stopErrors,    \* its local of that name: who failed
  deadline,      \* shutdownCtx has expired
  result         \* what Run returns

runVars  == <<launched, startupCount, runErr, result>>
compVars == <<start, startup, waiter, results>>
stopVars == <<stopper, stopNext, stop, stopErrors, deadline>>
vars == <<state, components, ready, caller, pc, cancelled,
          runVars, compVars, stopVars>>

Outcome == {"nil", "error", "panic"}
Result  == [comp : Component, failed : BOOLEAN]
Report  == [start : Component \union {None}, stop : SUBSET Component, timeout : BOOLEAN]

Registered == {components[i] : i \in DOMAIN components}

(* startComponent and stopComponent turn a panic into an error.            *)
Failed(outcome) == outcome \in {"error", "panic"}

TypeOK ==
  /\ state \in {"New", "Running", "Stopped"}
  /\ components \in Seq(Component)
  /\ ready \in BOOLEAN
  /\ caller \in [Caller -> {"idle", "running", "refused", "returned"}]
  /\ pc \in {"idle", "launching", "awaiting", "serving", "draining",
             "cancelling", "stopAll", "collect", "finish", "returned"}
  /\ launched \in 0 .. Len(components)
  /\ startupCount \in Int
  /\ cancelled \in BOOLEAN
  /\ start \in [Component -> {"idle", "spawned", "running", "returned", "done"}]
  /\ startup \in [Component -> BOOLEAN]
  /\ waiter \in [Component -> {"none", "waiting", "sent", "received", "left"}]
  /\ results \in Seq(Result)
  /\ runErr \in Component \union {None}
  /\ stopper \in {"none", "looping", "done"}
  /\ stopNext \in 0 .. Len(components)
  /\ stop \in [Component -> {"idle", "running", "returned"}]
  /\ stopErrors \in SUBSET Component
  /\ deadline \in BOOLEAN
  /\ result \in Report

Init ==
  /\ state = "New"
  /\ components = <<>>
  /\ ready = FALSE
  /\ caller = [r \in Caller |-> "idle"]
  /\ pc = "idle"
  /\ launched = 0
  /\ startupCount = 0
  /\ cancelled = FALSE
  /\ start = [c \in Component |-> "idle"]
  /\ startup = [c \in Component |-> FALSE]
  /\ waiter = [c \in Component |-> "none"]
  /\ results = <<>>
  /\ runErr = None
  /\ stopper = "none"
  /\ stopNext = 0
  /\ stop = [c \in Component |-> "idle"]
  /\ stopErrors = {}
  /\ deadline = FALSE
  /\ result = [start |-> None, stop |-> {}, timeout |-> FALSE]

-----------------------------------------------------------------------------
(* Calls of the exported methods, serialised by App.mu.                    *)

Add(c) ==
  /\ state = "New"
  /\ NameOf[c] # Blank
  /\ \A d \in Registered : NameOf[d] # NameOf[c]
  /\ components' = Append(components, c)
  /\ UNCHANGED <<state, ready, caller, pc, cancelled, runVars, compVars, stopVars>>

beginRun(r) ==
  /\ caller[r] = "idle"
  /\ state = "New"
  /\ components # <<>>
  /\ state' = "Running"
  /\ caller' = [caller EXCEPT ![r] = "running"]
  /\ pc' = "launching"
  /\ UNCHANGED <<components, ready, cancelled, runVars, compVars, stopVars>>

(* ErrAlreadyRun or ErrNoComponents: nothing else changes.                 *)
refuseRun(r) ==
  /\ caller[r] = "idle"
  /\ state # "New" \/ components = <<>>
  /\ caller' = [caller EXCEPT ![r] = "refused"]
  /\ UNCHANGED <<state, components, ready, pc, cancelled, runVars, compVars, stopVars>>

-----------------------------------------------------------------------------
(* The body of Run up to the label shutdown.                               *)

Launch ==
  /\ pc = "launching"
  /\ launched < Len(components)
  /\ LET c == components[launched + 1] IN
       /\ start' = [start EXCEPT ![c] = "spawned"]
       /\ IF c \in Notifier
          THEN /\ waiter' = [waiter EXCEPT ![c] = "waiting"]
               /\ startupCount' = startupCount + 1
          ELSE UNCHANGED <<waiter, startupCount>>
  /\ launched' = launched + 1
  /\ pc' = IF launched' = Len(components) THEN "awaiting" ELSE "launching"
  /\ UNCHANGED <<state, components, ready, caller, cancelled, startup, results,
                 runErr, result, stopVars>>

(* Case <-started of the startup loop.                                     *)
ReceiveStarted(c) ==
  /\ pc = "awaiting"
  /\ startupCount > 0
  /\ waiter[c] = "sent"
  /\ waiter' = [waiter EXCEPT ![c] = "received"]
  /\ startupCount' = startupCount - 1
  /\ UNCHANGED <<state, components, ready, caller, pc, launched, cancelled, start,
                 startup, results, runErr, result, stopVars>>

(* Mutant: the startup loop ends one notifier early.                       *)
BecomeReadyEarly ==
  /\ pc = "awaiting"
  /\ startupCount <= 1
  /\ ready' = TRUE
  /\ pc' = "serving"
  /\ UNCHANGED <<state, components, caller, cancelled, runVars, compVars, stopVars>>

BecomeReady ==
  /\ pc = "awaiting"
  /\ startupCount = 0
  /\ ready' = TRUE
  /\ pc' = "serving"
  /\ UNCHANGED <<state, components, caller, cancelled, runVars, compVars, stopVars>>

(* Run is blocked in one of its two selects.                               *)
Selecting == pc = "serving" \/ (pc = "awaiting" /\ startupCount > 0)

(* Case result := <-results of either select.                              *)
TakeResult ==
  /\ Selecting
  /\ results # <<>>
  /\ runErr' = IF Head(results).failed THEN Head(results).comp ELSE None
  /\ results' = Tail(results)
  /\ pc' = "draining"
  /\ UNCHANGED <<state, components, ready, caller, launched, startupCount, cancelled,
                 start, startup, waiter, result, stopVars>>

(* Mutant: the startup loop has no case for the signal context.            *)
SeeCancelledServing ==
  /\ pc = "serving"
  /\ cancelled
  /\ pc' = "draining"
  /\ UNCHANGED <<state, components, ready, caller, cancelled, runVars, compVars, stopVars>>

(* Case <-signalCtx.Done() of either select.                               *)
SeeCancelled ==
  /\ Selecting
  /\ cancelled
  /\ pc' = "draining"
  /\ UNCHANGED <<state, components, ready, caller, cancelled, runVars, compVars, stopVars>>

-----------------------------------------------------------------------------
(* The body of Run from the label shutdown on.                             *)

(* Mutant: readiness is not withdrawn at the label.                        *)
StoreNotReadyForgotten ==
  /\ pc = "draining"
  /\ pc' = "cancelling"
  /\ UNCHANGED <<state, components, ready, caller, cancelled, runVars, compVars, stopVars>>

StoreNotReady ==
  /\ pc = "draining"
  /\ ready' = FALSE
  /\ pc' = "cancelling"
  /\ UNCHANGED <<state, components, caller, cancelled, runVars, compVars, stopVars>>

CancelRun ==
  /\ pc = "cancelling"
  /\ cancelled' = TRUE
  /\ pc' = "stopAll"
  /\ UNCHANGED <<state, components, ready, caller, runVars, compVars, stopVars>>

(* Mutant: the loop starts one past the last component.                    *)
stopAllOffByOne ==
  /\ pc = "stopAll"
  /\ stopper' = "looping"
  /\ stopNext' = Len(components) + 1
  /\ pc' = "collect"
  /\ UNCHANGED <<state, components, ready, caller, cancelled, runVars, compVars,
                 stop, stopErrors, deadline>>

stopAll ==
  /\ pc = "stopAll"
  /\ stopper' = "looping"
  /\ stopNext' = Len(components)
  /\ pc' = "collect"
  /\ UNCHANGED <<state, components, ready, caller, cancelled, runVars, compVars,
                 stop, stopErrors, deadline>>

(* Case err := <-done: an expired deadline is reported beside the errors.  *)
CollectDone ==
  /\ pc = "collect"
  /\ stopper = "done"
  /\ result' = [start |-> runErr, stop |-> stopErrors, timeout |-> deadline]
  /\ pc' = "finish"
  /\ UNCHANGED <<state, components, ready, caller, launched, startupCount, cancelled,
                 runErr, compVars, stopVars>>

(* Mutant: the deadline does not interrupt the wait for done.              *)
CollectDeadlineLate ==
  /\ pc = "collect"
  /\ deadline
  /\ stopper = "done"
  /\ result' = [start |-> runErr, stop |-> {}, timeout |-> TRUE]
  /\ pc' = "finish"
  /\ UNCHANGED <<state, components, ready, caller, launched, startupCount, cancelled,
                 runErr, compVars, stopVars>>

(* Case <-shutdownCtx.Done(): the stop errors collected so far are lost.   *)
CollectDeadline ==
  /\ pc = "collect"
  /\ deadline
  /\ result' = [start |-> runErr, stop |-> {}, timeout |-> TRUE]
  /\ pc' = "finish"
  /\ UNCHANGED <<state, components, ready, caller, launched, startupCount, cancelled,
                 runErr, compVars, stopVars>>

finishRun(r) ==
  /\ pc = "finish"
  /\ caller[r] = "running"
  /\ state' = "Stopped"
  /\ caller' = [caller EXCEPT ![r] = "returned"]
  /\ pc' = "returned"
  /\ UNCHANGED <<components, ready, cancelled, runVars, compVars, stopVars>>

-----------------------------------------------------------------------------
(* The goroutines Run spawns.                                              *)

BeginStart(c) ==
  /\ start[c] = "spawned"
  /\ start' = [start EXCEPT ![c] = "running"]
  /\ UNCHANGED <<state, components, ready, caller, pc, cancelled, runVars, startup,
                 waiter, results, stopVars>>

(* Start returns or panics, and the result is sent; the channel has room   *)
(* for every component, so the send does not block.                        *)
StartReturns(c, outcome) ==
  /\ start[c] = "running"
  /\ start' = [start EXCEPT ![c] = "returned"]
  /\ results' = Append(results, [comp |-> c, failed |-> Failed(outcome)])
  /\ UNCHANGED <<state, components, ready, caller, pc, cancelled, runVars, startup,
                 waiter, stopVars>>

(* The deferred starts.Done().                                             *)
StartsDone(c) ==
  /\ start[c] = "returned"
  /\ start' = [start EXCEPT ![c] = "done"]
  /\ UNCHANGED <<state, components, ready, caller, pc, cancelled, runVars, startup,
                 waiter, results, stopVars>>

(* External: the component closes its Started() channel.                   *)
CloseStartup(c) ==
  /\ c \in Notifier
  /\ start[c] = "running"
  /\ ~startup[c]
  /\ startup' = [startup EXCEPT ![c] = TRUE]
  /\ UNCHANGED <<state, components, ready, caller, pc, cancelled, runVars, start,
                 waiter, results, stopVars>>

(* Mutant: the forwarding goroutine reports cancellation as startup.       *)
ForwardStartupAlways(c) ==
  /\ waiter[c] = "waiting"
  /\ startup[c] \/ cancelled
  /\ waiter' = [waiter EXCEPT ![c] = "sent"]
  /\ UNCHANGED <<state, components, ready, caller, pc, cancelled, runVars, start,
                 startup, results, stopVars>>

(* The forwarding goroutine: a random choice when both cases are ready.    *)
ForwardStartup(c) ==
  /\ waiter[c] = "waiting"
  /\ \/ startup[c] /\ waiter' = [waiter EXCEPT ![c] = "sent"]
     \/ cancelled  /\ waiter' = [waiter EXCEPT ![c] = "left"]
  /\ UNCHANGED <<state, components, ready, caller, pc, cancelled, runVars, start,
                 startup, results, stopVars>>

(* Mutant: components are stopped in registration order.                   *)
BeginStopForward ==
  /\ stopper = "looping"
  /\ stopNext > 0
  /\ LET c == components[Len(components) + 1 - stopNext] IN
       /\ stop[c] = "idle"
       /\ stop' = [stop EXCEPT ![c] = "running"]
  /\ UNCHANGED <<state, components, ready, caller, pc, cancelled, runVars, compVars,
                 stopper, stopNext, stopErrors, deadline>>

BeginStop ==
  /\ stopper = "looping"
  /\ stopNext > 0
  /\ stop[components[stopNext]] = "idle"
  /\ stop' = [stop EXCEPT ![components[stopNext]] = "running"]
  /\ UNCHANGED <<state, components, ready, caller, pc, cancelled, runVars, compVars,
                 stopper, stopNext, stopErrors, deadline>>

StopReturns(outcome) ==
  /\ stopper = "looping"
  /\ stopNext > 0
  /\ LET c == components[stopNext] IN
       /\ stop[c] = "running"
       /\ stop' = [stop EXCEPT ![c] = "returned"]
       /\ stopErrors' = IF Failed(outcome) THEN stopErrors \union {c} ELSE stopErrors
  /\ stopNext' = stopNext - 1
  /\ UNCHANGED <<state, components, ready, caller, pc, cancelled, runVars, compVars,
                 stopper, deadline>>

(* Mutants: no starts.Wait(), and a count of goroutines never spawned.     *)
WaitStartsSkipped ==
  /\ stopper = "looping"
  /\ stopNext = 0
  /\ stopper' = "done"
  /\ UNCHANGED <<state, components, ready, caller, pc, cancelled, runVars, compVars,
                 stopNext, stop, stopErrors, deadline>>
WaitStartsOvercounted ==
  /\ stopper = "looping"
  /\ stopNext = 0
  /\ \A c \in Component : start[c] = "done"
  /\ stopper' = "done"
  /\ UNCHANGED <<state, components, ready, caller, pc, cancelled, runVars, compVars,
                 stopNext, stop, stopErrors, deadline>>

(* starts.Wait(), then the send on done.                                   *)
WaitStarts ==
  /\ stopper = "looping"
  /\ stopNext = 0
  /\ \A c \in Registered : start[c] = "done"
  /\ stopper' = "done"
  /\ UNCHANGED <<state, components, ready, caller, pc, cancelled, runVars, compVars,
                 stopNext, stop, stopErrors, deadline>>

-----------------------------------------------------------------------------
(* The environment.                                                        *)

(* The parent context is cancelled, or SIGINT or SIGTERM arrives.          *)
Cancel ==
  /\ ~cancelled
  /\ cancelled' = TRUE
  /\ UNCHANGED <<state, components, ready, caller, pc, runVars, compVars, stopVars>>

DeadlineExpires ==
  /\ pc = "collect"
  /\ ~deadline
  /\ deadline' = TRUE
  /\ UNCHANGED <<state, components, ready, caller, pc, cancelled, runVars, compVars,
                 stopper, stopNext, stop, stopErrors>>

-----------------------------------------------------------------------------
RunStep ==
  \/ Launch
  \/ \E c \in Component : ReceiveStarted(c)
  \/ BecomeReady \/ TakeResult \/ SeeCancelled
  \/ StoreNotReady \/ CancelRun \/ stopAll \/ CollectDone \/ CollectDeadline
  \/ \E r \in Caller : finishRun(r)

ComponentStep(c) ==
  \/ BeginStart(c) \/ StartsDone(c) \/ CloseStartup(c) \/ ForwardStartup(c)
  \/ \E outcome \in Outcome : StartReturns(c, outcome)

StopperStep ==
  \/ BeginStop \/ WaitStarts
  \/ \E outcome \in Outcome : StopReturns(outcome)

Next ==
  \/ \E c \in Component : Add(c)
  \/ \E r \in Caller : beginRun(r) \/ refuseRun(r)
  \/ RunStep
  \/ \E c \in Component : ComponentStep(c)
  \/ StopperStep
  \/ Cancel \/ DeadlineExpires

(* The scheduler runs every goroutine and the timer fires.  Nothing is     *)
(* assumed of callers, of signals or of the components.                    *)
Fairness ==
  /\ WF_vars(RunStep)
  /\ WF_vars(DeadlineExpires)
  /\ \A c \in Component :
       /\ WF_vars(BeginStart(c))
       /\ WF_vars(StartsDone(c))
       /\ WF_vars(ForwardStartup(c))
  /\ WF_vars(BeginStop)
  /\ WF_vars(WaitStarts)

Spec == Init /\ [][Next]_vars /\ Fairness

(* Components that keep the contract of component.go: Stop returns, and    *)
(* Start returns once Stop has asked it to.                                *)
Cooperation ==
  /\ WF_vars(\E outcome \in Outcome : StopReturns(outcome))
  /\ \A c \in Component :
       WF_vars(stop[c] # "idle" /\ \E outcome \in Outcome : StartReturns(c, outcome))

-----------------------------------------------------------------------------
(* Properties.                                                             *)

(* A process that reports ready has launched every registered component    *)
(* and every startup-aware one has crossed its startup boundary            *)
(* (CheckReadiness, app.go:170-177).                                       *)
ReadyImpliesStarted ==
  ready => \A c \in Registered :
             /\ start[c] # "idle"
             /\ c \in Notifier => startup[c]

(* The process is not ready while any component is being, or has been,     *)
(* stopped: readiness is withdrawn before draining begins.                 *)
NotReadyWhileDraining ==
  ready => \A c \in Component : stop[c] = "idle"

(* Stop of a component begins only after Stop of every component           *)
(* registered later has returned, whether or not the deadline has passed.  *)
ReverseStopOrder ==
  \A i, j \in DOMAIN components :
    (i < j /\ stop[components[i]] # "idle") => stop[components[j]] = "returned"

(* When Run returns without ErrShutdownTimeout, every component registered *)
(* has been stopped, and no Start goroutine is left behind.                *)
CleanReturnIsQuiescent ==
  (pc = "returned" /\ ~result.timeout) =>
     \A c \in Registered : start[c] = "done" /\ stop[c] = "returned"

(* Concurrent calls of Run: at most one gets past beginRun.                *)
RunsOnce ==
  \A r, s \in Caller :
    (caller[r] \in {"running", "returned"} /\ caller[s] \in {"running", "returned"})
       => r = s

(* Once Run is under way, cancellation or the exit of a component makes    *)
(* it return, however long Start and Stop of the components take.          *)
RunReturns ==
  (pc = "serving" /\ (cancelled \/ results # <<>>)) ~> (pc = "returned")

(* The same while startup is still awaited.                                *)
StartupAbortReturns ==
  (pc = "awaiting" /\ (cancelled \/ results # <<>>)) ~> (pc = "returned")

(* If the components keep their contract, the goroutine of stopAll stops   *)
(* them all and sees every Start return: nobody waits forever.             *)
StopsAll == Cooperation => ((pc = "collect") ~> (stopper = "done"))

-----------------------------------------------------------------------------
(* The inductive invariant, in named parts.                                *)

DistinctComponents ==
  \A i, j \in DOMAIN components : components[i] = components[j] => i = j

(* Where Run is, what the mutex-protected state says, who runs.            *)
RunPosition ==
  /\ state = "New" <=> pc = "idle"
  /\ pc = "idle" => launched = 0
  /\ pc = "launching" => launched < Len(components)
  /\ pc \notin {"idle", "launching"} => launched = Len(components)
  /\ pc # "idle" => components # <<>>
  /\ pc \in {"stopAll", "collect", "finish", "returned"} => cancelled
  /\ state = "New" => \A r \in Caller : caller[r] \in {"idle", "refused"}
  /\ RunsOnce

(* Only a prefix of the components has been launched, and only launched    *)
(* notifiers have a forwarding goroutine.                                  *)
LaunchedPrefix ==
  /\ \A i \in DOMAIN components :
       /\ (start[components[i]] # "idle") <=> (i <= launched)
       /\ (waiter[components[i]] # "none")
            <=> (i <= launched /\ components[i] \in Notifier)
  /\ \A c \in Component \ Registered : start[c] = "idle" /\ waiter[c] = "none"
  /\ \A c \in Component : waiter[c] \in {"sent", "received"} => startup[c]

(* Notifiers Run has yet to hear from.                                     *)
Awaited == {c \in Component : waiter[c] \in {"waiting", "sent", "left"}}

CountMatches == startupCount = Cardinality(Awaited)

ReadyWindow ==
  /\ ready => pc \in {"serving", "draining"} /\ Awaited = {}
  /\ pc = "serving" => ready

(* The stopper goroutine is stopNext calls of Stop away from its end.      *)
StopPrefix ==
  /\ stopper = "none" <=> pc \notin {"collect", "finish", "returned"}
  /\ stopper = "none" => stopNext = 0 /\ \A c \in Component : stop[c] = "idle"
  /\ stopper = "done" => stopNext = 0 /\ \A c \in Registered : start[c] = "done"
  /\ stopper # "none" =>
       \A i \in DOMAIN components :
         /\ i < stopNext => stop[components[i]] = "idle"
         /\ i = stopNext => stop[components[i]] \in {"idle", "running"}
         /\ i > stopNext => stop[components[i]] = "returned"
  /\ \A c \in Component \ Registered : stop[c] = "idle"
  /\ (pc \in {"finish", "returned"} /\ ~result.timeout) => stopper = "done"

IInv ==
  /\ TypeOK
  /\ DistinctComponents
  /\ RunPosition
  /\ LaunchedPrefix
  /\ CountMatches
  /\ ReadyWindow
  /\ StopPrefix

=============================================================================
