------------------------------ MODULE HttpServer ------------------------------
(***************************************************************************)
(* Server of server/httpx/server.go: Start and Stop, around the requests   *)
(* of HttpRequest.  net/http is external: Serve accepts on one listener    *)
(* until Shutdown, and Shutdown waits for requests, not for the goroutines *)
(* the timeout middleware has left behind.  The context given to Start is  *)
(* the base context of every request.                                      *)
(***************************************************************************)
EXTENDS HttpRequest, FiniteSets

CONSTANTS
  Starter,  \* goroutines that call Start
  Stopper   \* goroutines that call Stop

VARIABLES
  listener,      \* Server.listener
  server,        \* Server.server, and what became of it
  stopRequested, \* Server.stopRequested
  start,         \* where each Start is
  stop,          \* where each Stop is
  expired,       \* the context of each Stop is done
  baseDone,      \* the context given to Start is done
  gone           \* requests whose client has gone away

serverVars == <<listener, server, stopRequested, start, stop, expired, baseDone, gone>>
vars == <<requestVars, serverVars>>

StartState ==
  {"idle", "rejected", "refused",
   "failed",     \* returned the error of Listen or of Serve
   "bound",      \* has published its server
   "serving",    \* in http.Server.Serve
   "returned",   \* returned nil after serving
   "late"}       \* returned nil because Shutdown came before Serve
StopState == {"idle", "called", "draining", "nil", "error"}

ServerTypeOK ==
  /\ TypeOK
  /\ listener \in {"none", "open", "closed"}
  /\ server \in {"none", "new", "serving", "shutdown"}
  /\ stopRequested \in BOOLEAN
  /\ start \in [Starter -> StartState]
  /\ stop \in [Stopper -> StopState]
  /\ expired \in [Stopper -> BOOLEAN]
  /\ baseDone \in BOOLEAN
  /\ gone \subseteq Request

ServerInit ==
  /\ Init
  /\ listener = "none"
  /\ server = "none"
  /\ stopRequested = FALSE
  /\ start = [s \in Starter |-> "idle"]
  /\ stop = [w \in Stopper |-> "idle"]
  /\ expired = [w \in Stopper |-> FALSE]
  /\ baseDone = FALSE
  /\ gone = {}

(* Server.started.                                                         *)
Started == {s \in Starter : start[s] \notin {"idle", "rejected", "refused"}}

StartMoves(s, from, to) == start[s] = from /\ start' = [start EXCEPT ![s] = to]
StopMoves(w, from, to) == stop[w] \in from /\ stop' = [stop EXCEPT ![w] = to]

(* A request net/http is working on.                                       *)
Active(r) == main[r] \notin {"idle", "done"}

-----------------------------------------------------------------------------
(* Start: one locked section, then Serve.                                  *)

RejectStart(s) ==
  /\ Started # {}
  /\ StartMoves(s, "idle", "rejected")
  /\ UNCHANGED <<requestVars, listener, server, stopRequested, stop, expired, baseDone, gone>>

RefuseStart(s) ==
  /\ Started = {}
  /\ stopRequested \/ baseDone
  /\ StartMoves(s, "idle", "refused")
  /\ UNCHANGED <<requestVars, listener, server, stopRequested, stop, expired, baseDone, gone>>

ListenFails(s) ==
  /\ Started = {}
  /\ ~stopRequested /\ ~baseDone
  /\ StartMoves(s, "idle", "failed")
  /\ UNCHANGED <<requestVars, listener, server, stopRequested, stop, expired, baseDone, gone>>

(* Mutant: Start forgets that Stop has been called.                        *)
BindRegardless(s) ==
  /\ Started = {}
  /\ ~baseDone
  /\ StartMoves(s, "idle", "bound")
  /\ listener' = "open"
  /\ server' = "new"
  /\ UNCHANGED <<requestVars, stopRequested, stop, expired, baseDone, gone>>

Bind(s) ==
  /\ Started = {}
  /\ ~stopRequested /\ ~baseDone
  /\ StartMoves(s, "idle", "bound")
  /\ listener' = "open"
  /\ server' = "new"
  /\ UNCHANGED <<requestVars, stopRequested, stop, expired, baseDone, gone>>

(* After Shutdown, Serve closes the listener and returns ErrServerClosed.  *)
Serve(s) ==
  /\ \/ /\ server = "new"
        /\ StartMoves(s, "bound", "serving")
        /\ server' = "serving"
        /\ UNCHANGED listener
     \/ /\ server = "shutdown"
        /\ StartMoves(s, "bound", "late")
        /\ listener' = "closed"
        /\ UNCHANGED server
  /\ UNCHANGED <<requestVars, stopRequested, stop, expired, baseDone, gone>>

ServeReturns(s) ==
  /\ server = "shutdown"
  /\ StartMoves(s, "serving", "returned")
  /\ UNCHANGED <<requestVars, listener, server, stopRequested, stop, expired, baseDone, gone>>

ServeFails(s) ==
  /\ server = "serving"
  /\ StartMoves(s, "serving", "failed")
  /\ listener' = "closed"
  /\ UNCHANGED <<requestVars, server, stopRequested, stop, expired, baseDone, gone>>

-----------------------------------------------------------------------------
(* Stop                                                                    *)

CallStop(w) ==
  /\ StopMoves(w, {"idle"}, "called")
  /\ UNCHANGED <<requestVars, listener, server, stopRequested, start, expired, baseDone, gone>>

(* The locked section; Shutdown first closes the listener Serve was given. *)
LockStop(w) ==
  /\ StopMoves(w, {"called"}, IF server = "none" THEN "nil" ELSE "draining")
  /\ stopRequested' = TRUE
  /\ server' = IF server = "none" THEN "none" ELSE "shutdown"
  /\ listener' = IF \E s \in Starter : start[s] = "serving" THEN "closed" ELSE listener
  /\ UNCHANGED <<requestVars, start, expired, baseDone, gone>>

ShutdownReturns(w) ==
  /\ \A r \in Request : ~Active(r)
  /\ StopMoves(w, {"draining"}, "nil")
  /\ UNCHANGED <<requestVars, listener, server, stopRequested, start, expired, baseDone, gone>>

(* Mutant: Shutdown is given a context without the deadline.               *)
ShutdownExpiresNever(w) ==
  /\ \A r \in Request : ~Active(r)
  /\ expired[w]
  /\ StopMoves(w, {"draining"}, "error")
  /\ UNCHANGED <<requestVars, listener, server, stopRequested, start, expired, baseDone, gone>>

(* Its context is done first: requests are left to themselves.             *)
ShutdownExpires(w) ==
  /\ expired[w]
  /\ StopMoves(w, {"draining"}, "error")
  /\ UNCHANGED <<requestVars, listener, server, stopRequested, start, expired, baseDone, gone>>

-----------------------------------------------------------------------------
(* Requests.  A connection Serve accepted just before Shutdown may still   *)
(* bring one while Shutdown waits.                                         *)
AcceptRequest(r) ==
  /\ \/ server = "serving"
     \/ server = "shutdown" /\ \A w \in Stopper : stop[w] # "nil"
  /\ \E s \in Starter : start[s] \in {"serving", "returned", "failed"}
  /\ Accept(r)
  /\ UNCHANGED serverVars

ServeRequest(r) ==
  /\ MainStep(r) \/ HandlerStep(r) \/ DeadlinePasses(r)
  /\ UNCHANGED serverVars

ClientLeaves(r) ==
  /\ CancelRequest(r)
  /\ gone' = gone \union {r}
  /\ UNCHANGED <<listener, server, stopRequested, start, stop, expired, baseDone>>

(* The base context is done, and so is every request's.                    *)
CancelByBase(r) ==
  /\ baseDone
  /\ CancelRequest(r)
  /\ UNCHANGED serverVars

(* App.Run cancels the context it gave to Start before it calls Stop.      *)
CancelBase ==
  /\ ~baseDone
  /\ baseDone' = TRUE
  /\ UNCHANGED <<requestVars, listener, server, stopRequested, start, stop, expired, gone>>

Expire(w) ==
  /\ stop[w] = "draining" /\ ~expired[w]
  /\ expired' = [expired EXCEPT ![w] = TRUE]
  /\ UNCHANGED <<requestVars, listener, server, stopRequested, start, stop, baseDone, gone>>

-----------------------------------------------------------------------------
StartStep(s) ==
  \/ RejectStart(s) \/ RefuseStart(s) \/ ListenFails(s) \/ Bind(s)
  \/ Serve(s) \/ ServeReturns(s) \/ ServeFails(s)

StopStep(w) == LockStop(w) \/ ShutdownReturns(w) \/ ShutdownExpires(w)

Next ==
  \/ \E s \in Starter : StartStep(s)
  \/ \E w \in Stopper : CallStop(w) \/ StopStep(w) \/ Expire(w)
  \/ \E r \in Request :
       AcceptRequest(r) \/ ServeRequest(r) \/ ClientLeaves(r) \/ CancelByBase(r)
  \/ CancelBase

(* Start, Stop and the deadlines go on; nothing is assumed of requests.    *)
Fairness ==
  /\ \A s \in Starter : WF_vars(Serve(s) \/ ServeReturns(s))
  /\ \A w \in Stopper : WF_vars(StopStep(w)) /\ WF_vars(Expire(w))

Spec == ServerInit /\ [][Next]_vars /\ Fairness

-----------------------------------------------------------------------------
Over(s) == start[s] \in {"rejected", "refused", "failed", "returned", "late"}

(* Once Stop has returned nil no request is being served, and none ever    *)
(* will be, also when Stop came before Start (server.go:175-176).          *)
StoppedServesNothing ==
  (\E w \in Stopper : stop[w] = "nil") => \A r \in Request : ~Active(r)

(* Stop returns within its context's deadline, whatever the handlers do.   *)
StopHonoursDeadline ==
  \A w \in Stopper : (stop[w] # "idle") ~> (stop[w] \in {"nil", "error"})

(* When a Stop has returned, every Start returns: App waits for both.      *)
StartFollowsStop ==
  \A w \in Stopper, s \in Starter :
    (stop[w] \in {"nil", "error"} /\ start[s] # "idle") ~> Over(s)

(* A request is answered although its handler hangs, provided its own      *)
(* goroutine is scheduled and its timer fires; inside a server as well.    *)
RequestsEnd == RequestFairness => RequestEnds

(* docs/architecture-and-roadmap.md:670: Shutdown waits for the requests   *)
(* being processed.  When Stop has returned nil, no handler is running but *)
(* those whose request timed out or whose client went away.                *)
ShutdownWaits ==
  (\E w \in Stopper : stop[w] = "nil") =>
    \A r \in Request :
      \/ handler[r] \in {"none", "finished"}
      \/ ctx[r] = "deadline"
      \/ r \in gone

-----------------------------------------------------------------------------
(* The inductive invariant: who has published the server, and what a Stop  *)
(* that waits or has returned knows.                                       *)
StopPosition ==
  /\ server # "none" => Started # {}
  /\ server = "shutdown" => stopRequested
  /\ \A w \in Stopper :
       /\ stop[w] = "draining" => server = "shutdown"
       /\ stop[w] = "nil" => stopRequested /\ server \in {"none", "shutdown"}

(* A request needs a Start that has reached Serve.                         *)
NoEarlyRequest ==
  (\E r \in Request : main[r] # "idle") =>
    /\ server \notin {"none", "new"}
    /\ \E s \in Starter : start[s] \in {"serving", "returned", "failed"}

ServerInv == ServerTypeOK /\ StopPosition /\ NoEarlyRequest /\ StoppedServesNothing

=============================================================================
