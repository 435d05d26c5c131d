------------------------------ MODULE GrpcServer ------------------------------
(***************************************************************************)
(* Server of server/grpcx/server.go: Start, prepare and Stop, on top of    *)
(* the activity tracker every RPC passes.  grpc-go is external: a server   *)
(* object that serves at most one listener, runs a goroutine per RPC, and  *)
(* is ended by Stop (at once) or GracefulStop (when every RPC is over).    *)
(* An RPC is open in the transport before it reaches the tracker and after *)
(* it has left it: interceptors given as options run outside it.           *)
(***************************************************************************)
EXTENDS ActivityTracker

CONSTANTS
  Starter,   \* goroutines that call Start; those that call Stop are Waiter
  Nobody     \* holds no mutex

ASSUME ServerAssumption == Nobody \notin Starter

VARIABLES
  mu,            \* who holds Server.mu across a step: a Start in prepare
  listener,      \* the listener in Server.listener
  server,        \* Server.server is published, and what became of it
  stopRequested, \* Server.stopRequested
  startup,       \* Server.startup is closed
  start,         \* where each Start is
  stop,          \* where each Stop is
  rpc            \* each RPC's stream in the transport

serverVars == <<mu, listener, server, stopRequested, startup, start, stop, rpc>>

StartState ==
  {"idle",
   "rejected",     \* returned ErrAlreadyStarted
   "refused",      \* returned nil without serving
   "failed",       \* returned the error of Listen or of Serve
   "registering",  \* in prepare, calling the registration callbacks
   "panicked",     \* a callback panicked
   "prepared",     \* prepare has returned
   "serving",      \* in grpc.Server.Serve
   "returned"}     \* returned nil after serving

StopState ==
  {"idle", "locking", "draining", "graceful",
   "nil", "timeout", "closeError"}   \* what Stop returned

ServerTypeOK ==
  /\ TypeOK
  /\ mu \in Starter \union {Nobody}
  /\ listener \in {"none", "open", "closed"}
  /\ server \in {"none", "new", "serving", "quitting", "stopped"}
  /\ stopRequested \in BOOLEAN
  /\ startup \in BOOLEAN
  /\ start \in [Starter -> StartState]
  /\ stop \in [Waiter -> StopState]
  /\ rpc \in [Request -> {"none", "open", "closed"}]

(* A listener may have been given as an option.                            *)
ServerInit ==
  /\ Init
  /\ mu = Nobody
  /\ listener \in {"none", "open"}
  /\ server = "none"
  /\ stopRequested = FALSE
  /\ startup = FALSE
  /\ start = [s \in Starter |-> "idle"]
  /\ stop = [w \in Waiter |-> "idle"]
  /\ rpc = [r \in Request |-> "none"]

(* The Starts that got past the checks of prepare: Server.started is set.  *)
Started == {s \in Starter : start[s] \notin {"idle", "rejected", "refused"}}
started == Started # {}

StartMoves(s, from, to) == start[s] = from /\ start' = [start EXCEPT ![s] = to]
StopMoves(w, from, to) == stop[w] = from /\ stop' = [stop EXCEPT ![w] = to]

-----------------------------------------------------------------------------
(* Start and prepare                                                       *)

RejectStart(s) ==
  /\ mu = Nobody
  /\ started
  /\ StartMoves(s, "idle", "rejected")
  /\ UNCHANGED <<trackerVars, mu, listener, server, stopRequested, startup, stop, rpc>>

(* Stop has been called, or the context is done: it may be at any time.    *)
RefuseStart(s) ==
  /\ mu = Nobody
  /\ ~started
  /\ StartMoves(s, "idle", "refused")
  /\ UNCHANGED <<trackerVars, mu, listener, server, stopRequested, startup, stop, rpc>>

ListenFails(s) ==
  /\ mu = Nobody
  /\ ~started /\ ~stopRequested
  /\ listener = "none"
  /\ StartMoves(s, "idle", "failed")
  /\ UNCHANGED <<trackerVars, mu, listener, server, stopRequested, startup, stop, rpc>>

(* Mutant: prepare does not look at stopRequested.                         *)
PublishRegardless(s) ==
  /\ mu = Nobody
  /\ ~started
  /\ StartMoves(s, "idle", "registering")
  /\ mu' = s
  /\ listener' = IF listener = "none" THEN "open" ELSE listener
  /\ server' = "new"
  /\ UNCHANGED <<trackerVars, stopRequested, startup, stop, rpc>>

(* Mutant: Server.started is never set.                                    *)
PublishAgain(s) ==
  /\ mu = Nobody
  /\ ~stopRequested
  /\ StartMoves(s, "idle", "registering")
  /\ mu' = s
  /\ listener' = IF listener = "none" THEN "open" ELSE listener
  /\ server' = "new"
  /\ UNCHANGED <<trackerVars, stopRequested, startup, stop, rpc>>

(* Listen unless a listener was given, and publish the server.             *)
Publish(s) ==
  /\ mu = Nobody
  /\ ~started /\ ~stopRequested
  /\ StartMoves(s, "idle", "registering")
  /\ mu' = s
  /\ listener' = IF listener = "none" THEN "open" ELSE listener
  /\ server' = "new"
  /\ UNCHANGED <<trackerVars, stopRequested, startup, stop, rpc>>

(* The callbacks return, startup is closed, the mutex is released.         *)
RegisterReturns(s) ==
  /\ StartMoves(s, "registering", "prepared")
  /\ mu' = Nobody
  /\ startup' = TRUE
  /\ UNCHANGED <<trackerVars, listener, server, stopRequested, stop, rpc>>

(* Mutant: the mutex is not released by a defer.                           *)
RegisterPanicsLocked(s) ==
  /\ StartMoves(s, "registering", "panicked")
  /\ UNCHANGED <<trackerVars, mu, listener, server, stopRequested, startup, stop, rpc>>

RegisterPanics(s) ==
  /\ StartMoves(s, "registering", "panicked")
  /\ mu' = Nobody
  /\ UNCHANGED <<trackerVars, listener, server, stopRequested, startup, stop, rpc>>

(* grpc.Server.Serve: once Stop or GracefulStop has been called it closes  *)
(* the listener and returns ErrServerStopped, which Start makes nil.       *)
Serve(s) ==
  /\ \/ /\ server = "new"
        /\ StartMoves(s, "prepared", "serving")
        /\ server' = "serving"
        /\ UNCHANGED listener
     \/ /\ server \in {"quitting", "stopped"}
        /\ StartMoves(s, "prepared", "returned")
        /\ listener' = "closed"
        /\ UNCHANGED server
  /\ UNCHANGED <<trackerVars, mu, stopRequested, startup, stop, rpc>>

(* Serve waits until the Stop or GracefulStop that ended it has returned.  *)
ServeReturns(s) ==
  /\ server = "stopped"
  /\ StartMoves(s, "serving", "returned")
  /\ UNCHANGED <<trackerVars, mu, listener, server, stopRequested, startup, stop, rpc>>

(* The listener fails: Serve closes it; open connections live on.          *)
ServeFails(s) ==
  /\ server = "serving"
  /\ StartMoves(s, "serving", "failed")
  /\ listener' = "closed"
  /\ UNCHANGED <<trackerVars, mu, server, stopRequested, startup, stop, rpc>>

-----------------------------------------------------------------------------
(* Stop                                                                    *)

CallStop(w) ==
  /\ StopMoves(w, "idle", "locking")
  /\ UNCHANGED <<trackerVars, mu, listener, server, stopRequested, startup, start, rpc>>

(* Mutant: without a server there is nothing to close.                     *)
LockStopLeaks(w) ==
  /\ mu = Nobody
  /\ stopRequested' = TRUE
  /\ StopMoves(w, "locking", IF server = "none" THEN "nil" ELSE "draining")
  /\ UNCHANGED <<trackerVars, mu, listener, server, startup, start, rpc>>

(* The locked section, and the return when no server was published: a      *)
(* listener given as an option is closed, a second time if need be.        *)
LockStop(w) ==
  /\ mu = Nobody
  /\ stopRequested' = TRUE
  /\ \/ /\ server # "none"
        /\ StopMoves(w, "locking", "draining")
        /\ UNCHANGED listener
     \/ /\ server = "none"
        /\ StopMoves(w, "locking", IF listener = "closed" THEN "closeError" ELSE "nil")
        /\ listener' = IF listener = "none" THEN "none" ELSE "closed"
  /\ UNCHANGED <<trackerVars, mu, server, startup, start, rpc>>

(* startDraining and wait: the steps of the tracker.                       *)
Drain(w) ==
  /\ stop[w] = "draining"
  /\ WaitStep(w)
  /\ UNCHANGED serverVars

(* grpc-go knows only the listener that Serve was given.                   *)
CloseServed ==
  IF \E s \in Starter : start[s] = "serving" THEN "closed" ELSE listener

(* wait returned the context's error: grpc.Server.Stop, which does not     *)
(* wait for handlers.                                                      *)
ForceStop(w) ==
  /\ waiter[w] = "timedOut"
  /\ StopMoves(w, "draining", "timeout")
  /\ server' = "stopped"
  /\ listener' = CloseServed
  /\ UNCHANGED <<trackerVars, mu, stopRequested, startup, start, rpc>>

GracefulStop(w) ==
  /\ waiter[w] = "drained"
  /\ StopMoves(w, "draining", "graceful")
  /\ server' = IF server = "stopped" THEN "stopped" ELSE "quitting"
  /\ listener' = CloseServed
  /\ UNCHANGED <<trackerVars, mu, stopRequested, startup, start, rpc>>

(* Mutant: a graceful stop that does not wait, as server.Stop().           *)
GracefulStopHasty(w) ==
  /\ StopMoves(w, "graceful", "nil")
  /\ server' = "stopped"
  /\ UNCHANGED <<trackerVars, mu, listener, stopRequested, startup, start, rpc>>

GracefulStopReturns(w) ==
  /\ \A r \in Request : rpc[r] # "open"
  /\ StopMoves(w, "graceful", "nil")
  /\ server' = "stopped"
  /\ UNCHANGED <<trackerVars, mu, listener, stopRequested, startup, start, rpc>>

-----------------------------------------------------------------------------
(* RPCs                                                                    *)

(* Serve has been given the listener: its Start is in it, or it has failed *)
(* and the connections it accepted live on.                                *)
Served == \E s \in Starter : start[s] \in {"serving", "failed"}

(* A client opens a stream, if Serve has accepted its connection.  It may  *)
(* do so while the server is quitting, until it has seen the GOAWAY.       *)
Open(r) ==
  /\ server \in {"serving", "quitting"}
  /\ Served
  /\ rpc[r] = "none"
  /\ rpc' = [rpc EXCEPT ![r] = "open"]
  /\ UNCHANGED <<trackerVars, mu, listener, server, stopRequested, startup, start, stop>>

(* Through the tracker's interceptor to the handler and back.              *)
Track(r) ==
  /\ rpc[r] = "open"
  /\ EnterStep(r) \/ CountOut(r) \/ Notify(r)
  /\ UNCHANGED serverVars

(* The stream ends: an outer interceptor has turned the RPC away, or the   *)
(* tracker's has returned and the outer ones after it.                     *)
Close(r) ==
  /\ rpc[r] = "open"
  /\ req[r] \in {"idle", "refused", "done"}
  /\ rpc' = [rpc EXCEPT ![r] = "closed"]
  /\ UNCHANGED <<trackerVars, mu, listener, server, stopRequested, startup, start, stop>>

-----------------------------------------------------------------------------
StartStep(s) ==
  \/ RejectStart(s) \/ RefuseStart(s) \/ ListenFails(s) \/ Publish(s)
  \/ RegisterReturns(s) \/ RegisterPanics(s)
  \/ Serve(s) \/ ServeReturns(s) \/ ServeFails(s)

StopStep(w) ==
  \/ LockStop(w) \/ Drain(w)
  \/ ForceStop(w) \/ GracefulStop(w) \/ GracefulStopReturns(w)

Deadline(w) == stop[w] # "idle" /\ Expire(w) /\ UNCHANGED serverVars

Next ==
  \/ \E s \in Starter : StartStep(s)
  \/ \E w \in Waiter : CallStop(w) \/ StopStep(w) \/ Deadline(w)
  \/ \E r \in Request : Open(r) \/ Track(r) \/ Close(r)

vars == <<trackerVars, serverVars>>

(* The goroutines of Start and Stop are scheduled, an RPC moves on inside  *)
(* the tracker, the deadline of a Stop passes, and registration callbacks  *)
(* return or panic.  Handlers and interceptors may run for ever.           *)
Fairness ==
  /\ \A s \in Starter :
       WF_vars(RegisterReturns(s) \/ RegisterPanics(s) \/ Serve(s) \/ ServeReturns(s))
  /\ \A w \in Waiter : WF_vars(StopStep(w)) /\ WF_vars(Deadline(w))
  /\ \A r \in Request :
       WF_vars(Track(r) /\ (CountIn(r) \/ SecondCheck(r) \/ BackOff(r) \/ Notify(r)))

Spec == ServerInit /\ [][Next]_vars /\ Fairness

(* Interceptors outside the tracker return.                                *)
FairTransportSpec ==
  Spec /\ \A r \in Request : WF_vars(Close(r) \/ (Track(r) /\ FirstCheck(r)))

-----------------------------------------------------------------------------
Over(s) == start[s] \in {"rejected", "refused", "failed", "panicked", "returned"}

(* Once Stop has returned nil no RPC is open and none ever will be: a      *)
(* graceful stop loses nothing and leaves nothing behind.                  *)
StoppedServesNothing ==
  (\E w \in Waiter : stop[w] = "nil") => \A r \in Request : rpc[r] # "open"

(* When a Stop has returned and every Start is over, the listener is       *)
(* closed, one given as an option included (unless registration panicked). *)
ListenerReleased ==
  (/\ \E w \in Waiter : stop[w] \in {"nil", "timeout", "closeError"}
   /\ \A s \in Starter : start[s] # "panicked" /\ (start[s] = "idle" \/ Over(s)))
     => listener # "open"

(* server.go:170-172: when a registration callback panics, Stop can be     *)
(* called "without deadlocking or leaking the listener".                   *)
PanicLeaksNothing ==
  (/\ \E w \in Waiter : stop[w] \in {"nil", "timeout", "closeError"}
   /\ \A s \in Starter : start[s] = "idle" \/ Over(s))
     => listener # "open"

(* Of several Starts at most one gets past prepare's check, even when the  *)
(* first has already returned.                                             *)
ServesOnce == \A s, t \in Started : s = t

(* server.go:186: Stop attempts a graceful stop until its context expires. *)
StopHonoursDeadline ==
  \A w \in Waiter : (stop[w] # "idle") ~> (stop[w] \in {"nil", "timeout", "closeError"})

(* When a Stop has returned, every Start returns: App waits for both.      *)
StartFollowsStop ==
  \A w \in Waiter, s \in Starter :
    (stop[w] \in {"nil", "timeout", "closeError"} /\ start[s] # "idle") ~> Over(s)

-----------------------------------------------------------------------------
(* The inductive invariant, in named parts.                                *)

(* What the Start that got past prepare's check has done.                  *)
StartPosition ==
  /\ ServesOnce
  /\ \A s \in Starter :
       /\ start[s] = "registering" <=> mu = s
       /\ start[s] \in {"registering", "panicked", "prepared"}
            => server \in {"new", "quitting", "stopped"}
       /\ start[s] = "serving" => server \in {"serving", "quitting", "stopped"}
       /\ start[s] = "returned" => server \in {"quitting", "stopped"}
  /\ server # "none" => started
  /\ server \in {"quitting", "stopped"} => stopRequested

(* Who is going to close the listener.                                     *)
ListenerPosition ==
  /\ server # "none" => listener # "none"
  /\ (server # "none" /\ listener = "open") =>
       \E s \in Starter :
         \/ start[s] \in {"registering", "panicked", "prepared"}
         \/ start[s] = "serving" /\ server = "serving"

StopPosition ==
  \A w \in Waiter :
    /\ stop[w] \notin {"idle", "locking"} => stopRequested
    /\ stop[w] = "draining" => server # "none"
    /\ stop[w] = "graceful" => server \in {"quitting", "stopped"}
    /\ stop[w] = "timeout" => server = "stopped"
    /\ stop[w] = "closeError" => server = "none" /\ listener # "open"
    /\ stop[w] = "nil" =>
         \/ server = "none" /\ listener # "open"
         \/ server = "stopped" /\ \A r \in Request : rpc[r] # "open"

(* An RPC needs a Start that has reached Serve.                            *)
NoEarlyRPC ==
  (\E r \in Request : rpc[r] # "none") =>
    /\ server \notin {"none", "new"}
    /\ \E s \in Starter : start[s] \in {"serving", "failed", "returned"}

ServerInv ==
  /\ ServerTypeOK
  /\ StartPosition
  /\ ListenerPosition
  /\ StopPosition
  /\ NoEarlyRPC

=============================================================================
