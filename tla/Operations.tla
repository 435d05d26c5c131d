------------------------------ MODULE Operations ------------------------------
(***************************************************************************)
(* What an operator sees of a generated program: the management server of  *)
(* management/server.go answers /readyz from the registry of Readiness,    *)
(* which asks the App whether it is ready and the gRPC client manager of   *)
(* client/grpcx/manager.go about its connections, while the App takes all  *)
(* of them down.  A Check of Readiness is here one request to /readyz.     *)
(* Each component is started once, as the App does.                        *)
(***************************************************************************)
EXTENDS Readiness

CONSTANTS
  Process,     \* the entry that asks the App
  Connection,  \* the entries that ask the client manager
  Stopper      \* the callers of the manager's Stop, "app" among them

ASSUME OperationsAssumption ==
  /\ Dependency = {Process} \union Connection
  /\ Process \in Required \ Connection
  /\ "app" \in Stopper

VARIABLES
  phase,       \* of App.Run: its flag ready is up only in "ready"
  connection,  \* the state of each grpc.ClientConn
  closed,      \* Manager.closed
  toClose,     \* connections closeConnections has still to close
  stopper,     \* where each Manager.Stop is
  waiting,     \* where Manager.Start is
  held,        \* connections Conn has handed to each request's checker
  serving,     \* where Server.Start is
  listener,    \* the management listener
  shutdown,    \* http.Server.Shutdown or Close has been called
  stopping,    \* where Server.Stop is
  begun,       \* whether the program was draining, the manager closed, at each request
  answered     \* requests whose handler has returned

managerVars    == <<connection, closed, toClose, stopper, waiting>>
managementVars == <<serving, listener, shutdown, stopping>>
requestVars    == <<held, begun, answered>>

opsVars == <<vars, phase, managerVars, managementVars, requestVars>>

OpsInit ==
  /\ Init
  /\ phase = "starting"
  /\ connection = [d \in Connection |-> "DOWN"]
  /\ closed = FALSE /\ toClose = {}
  /\ stopper = [s \in Stopper |-> "idle"] /\ waiting = "idle"
  /\ serving = "idle" /\ listener = "none" /\ shutdown = FALSE /\ stopping = "idle"
  /\ held = [c \in Check |-> {}]
  /\ begun = [c \in Check |-> [draining |-> FALSE, closed |-> FALSE]]
  /\ answered = {}

Handling(c) == pc[c] # "idle" /\ c \notin answered
Stopped     == stopping \in {"clean", "forced"}

-------------------------------------------------------------------------------
(* The checkers of the registry's entries.                                 *)

(* Mutant: Conn does not look whether the manager is closed.               *)
ConnRegardless(c, d) ==
  /\ checker[c][d] = "running" /\ d \notin held[c]
  /\ held' = [held EXCEPT ![c] = @ \union {d}] /\ UNCHANGED vars

CheckProcess(c) ==
  Answers(c, Process, IF phase = "ready" THEN "nil" ELSE "error") /\ UNCHANGED held

Conn(c, d) ==
  /\ checker[c][d] = "running" /\ d \notin held[c]
  /\ \/ closed /\ Answers(c, d, "error") /\ UNCHANGED held
     \/ ~closed /\ held' = [held EXCEPT ![c] = @ \union {d}] /\ UNCHANGED vars

(* What the connection says now, closed since or not.  That an idle one is *)
(* told to connect is left to the network.                                 *)
CheckConnection(c, d) ==
  /\ d \in held[c]
  /\ Answers(c, d, IF connection[d] = "READY" THEN "nil" ELSE "error")
  /\ held' = [held EXCEPT ![c] = @ \ {d}]

CheckerStep ==
  /\ \E c \in Check :
       \/ CheckProcess(c)
       \/ \E d \in Connection : Conn(c, d) \/ CheckConnection(c, d)
  /\ UNCHANGED <<phase, managerVars, managementVars, begun, answered>>

-------------------------------------------------------------------------------
(* A request to /readyz.                                                   *)

Request(c) ==
  /\ serving = "serving" /\ ~shutdown
  /\ BeginCheck(c)
  /\ begun' = [begun EXCEPT ![c] = [draining |-> phase = "draining", closed |-> closed]]
  /\ UNCHANGED <<phase, managerVars, managementVars, held, answered>>

Respond(c) ==
  /\ pc[c] = "returned" /\ c \notin answered
  /\ answered' = answered \union {c}
  /\ UNCHANGED <<vars, phase, managerVars, managementVars, held, begun>>

(* The rest of the registry is as in Readiness.  The program registers its *)
(* entries before it starts a component, the App first.                    *)
RegistryStep ==
  /\ \/ /\ serving = "idle" /\ waiting = "idle" /\ phase = "starting"
        /\ \E d \in Dependency : Add(d) /\ Process \in entries'
     \/ \E c \in Check :
          \/ pc[c] # "idle" /\ CheckStep(c)
          \/ Expire(c)
          \/ \E d \in Dependency : Finish(c, d)
  /\ UNCHANGED <<phase, managerVars, managementVars, requestVars>>

-------------------------------------------------------------------------------
(* The client manager.                                                     *)

ManagerStart ==
  /\ waiting = "idle"
  /\ waiting' = IF closed THEN "returned" ELSE "waiting"
  /\ UNCHANGED <<connection, closed, toClose, stopper>>

(* Its select: the App's context is cancelled, or the manager stopped.     *)
ManagerStartReturns ==
  /\ waiting = "waiting"
  /\ phase = "draining" \/ closed
  /\ waiting' = "returned"
  /\ UNCHANGED <<connection, closed, toClose, stopper>>

ManagerStop(s) ==
  /\ stopper[s] = "idle"
  /\ s = "app" => Stopped
  /\ closed' = TRUE
  /\ stopper' = [stopper EXCEPT ![s] = IF closed THEN "returned" ELSE "closing"]
  /\ toClose' = IF closed THEN toClose ELSE Connection
  /\ UNCHANGED <<connection, waiting>>

(* One round of closeConnections: a connection its user has closed already *)
(* is an error, which the loop keeps.                                      *)
CloseConnection(d) ==
  /\ d \in toClose
  /\ toClose' = toClose \ {d}
  /\ connection' = [connection EXCEPT ![d] = "SHUTDOWN"]
  /\ UNCHANGED <<closed, stopper, waiting>>

ManagerStopReturns(s) ==
  /\ stopper[s] = "closing" /\ toClose = {}
  /\ stopper' = [stopper EXCEPT ![s] = "returned"]
  /\ UNCHANGED <<connection, closed, toClose, waiting>>

(* The network and the users of a connection.                              *)
ConnectionChanges(d) ==
  /\ connection[d] # "SHUTDOWN"
  /\ \E state \in {"DOWN", "READY", "SHUTDOWN"} :
       connection' = [connection EXCEPT ![d] = state]
  /\ UNCHANGED <<closed, toClose, stopper, waiting>>

ManagerStep ==
  /\ \/ ManagerStart \/ ManagerStartReturns
     \/ \E s \in Stopper : ManagerStop(s) \/ ManagerStopReturns(s)
     \/ \E d \in Connection : CloseConnection(d) \/ ConnectionChanges(d)
  /\ UNCHANGED <<vars, phase, managementVars, requestVars>>

-------------------------------------------------------------------------------
(* The management server.                                                  *)

(* Under the mutex: nothing once stopped, and a Listen that fails leaves   *)
(* no server behind.                                                       *)
Listen ==
  /\ serving = "idle"
  /\ \/ stopping # "idle" /\ serving' = "returned" /\ UNCHANGED listener
     \/ stopping = "idle" /\ serving' = "returned" /\ UNCHANGED listener
     \/ stopping = "idle" /\ serving' = "listening" /\ listener' = "open"
  /\ UNCHANGED <<shutdown, stopping>>

(* http.Server.Serve after the mutex is released.  On a server that is     *)
(* shut down it closes the listener and returns.                           *)
Serve ==
  /\ serving = "listening"
  /\ serving' = IF shutdown THEN "returned" ELSE "serving"
  /\ listener' = IF shutdown THEN "closed" ELSE listener
  /\ UNCHANGED <<shutdown, stopping>>

ServeReturns ==
  /\ serving = "serving" /\ shutdown
  /\ serving' = "returned"
  /\ UNCHANGED <<listener, shutdown, stopping>>

(* Stop, called by the App once it drains.  Shutdown closes the listener   *)
(* Serve has registered.                                                   *)
Stop ==
  /\ stopping = "idle" /\ phase = "draining"
  /\ \/ /\ listener = "none"
        /\ stopping' = "clean" /\ UNCHANGED <<listener, shutdown>>
     \/ /\ listener # "none"
        /\ stopping' = "draining" /\ shutdown' = TRUE
        /\ listener' = IF serving = "serving" THEN "closed" ELSE listener
  /\ UNCHANGED serving

(* Mutant: Close instead of Shutdown, which waits for no request.          *)
DrainedAtOnce ==
  /\ stopping = "draining"
  /\ stopping' = "clean"
  /\ UNCHANGED <<serving, listener, shutdown>>

(* Shutdown has seen no request left.                                      *)
Drained ==
  /\ stopping = "draining"
  /\ \A c \in Check : ~Handling(c)
  /\ stopping' = "clean"
  /\ UNCHANGED <<serving, listener, shutdown>>

(* The App's shutdown deadline has passed: Shutdown returns its error, and  *)
(* Close cuts the requests off.                                            *)
ForceClose ==
  /\ stopping = "draining"
  /\ stopping' = "forced"
  /\ UNCHANGED <<serving, listener, shutdown>>

ManagementStep ==
  /\ Listen \/ Serve \/ ServeReturns \/ Stop \/ Drained \/ ForceClose
  /\ UNCHANGED <<vars, phase, managerVars, requestVars>>

-------------------------------------------------------------------------------
(* App.Run, of which only this much matters here: it becomes ready, and    *)
(* drops its flag before it stops anything.                                *)
AppStep ==
  /\ \/ phase = "starting" /\ phase' = "ready"
     \/ phase # "draining" /\ phase' = "draining"
  /\ UNCHANGED <<vars, managerVars, managementVars, requestVars>>

OpsNext ==
  \/ \E c \in Check : Request(c) \/ Respond(c)
  \/ RegistryStep \/ CheckerStep \/ ManagerStep \/ ManagementStep \/ AppStep

(* As in Readiness, and of the steps of the App, the manager and the       *)
(* server, but neither of the shutdown deadline nor of the network.        *)
OpsFairness ==
  /\ Fairness
  /\ \A c \in Check : WF_opsVars(Respond(c))
  /\ WF_opsVars(ManagementStep /\ (Listen \/ Serve \/ ServeReturns \/ Drained))
  /\ WF_opsVars(ManagementStep /\ Stop)
  /\ WF_opsVars(ManagerStep /\ (ManagerStart \/ ManagerStartReturns))
  /\ WF_opsVars(ManagerStep /\ (ManagerStop("app") \/ ManagerStopReturns("app")
                                  \/ \E d \in Connection : CloseConnection(d)))

OpsSpec == OpsInit /\ [][OpsNext]_opsVars /\ OpsFairness

-------------------------------------------------------------------------------
OpsTypeOK ==
  /\ TypeOK
  /\ phase \in {"starting", "ready", "draining"}
  /\ connection \in [Connection -> {"DOWN", "READY", "SHUTDOWN"}]
  /\ closed \in BOOLEAN /\ toClose \subseteq Connection
  /\ stopper \in [Stopper -> {"idle", "closing", "returned"}]
  /\ waiting \in {"idle", "waiting", "returned"}
  /\ serving \in {"idle", "listening", "serving", "returned"}
  /\ listener \in {"none", "open", "closed"} /\ shutdown \in BOOLEAN
  /\ stopping \in {"idle", "draining", "clean", "forced"}
  /\ held \in [Check -> SUBSET Connection]
  /\ begun \in [Check -> [draining : BOOLEAN, closed : BOOLEAN]]
  /\ answered \subseteq Check

(* No load balancer is told to send requests to a program that is going    *)
(* away: a probe that arrives when the App drains is not answered ready,   *)
(* and one that arrives when the client manager is closed does not call    *)
(* any of its connections READY, though they are closed only later         *)
(* (manager.go:183, 242-245).                                          *)
NeverReadyLate ==
  \A c \in Check : pc[c] = "returned" =>
    /\ begun[c].draining /\ Process \in snapshot[c] => ~Ready(c)
    /\ begun[c].closed => \A d \in Connection : report[c][d] # "READY"

(* A management Stop that returns nil leaves no probe being answered, the  *)
(* listener is free when Start has returned too, and the manager's first   *)
(* Stop leaves no connection open, whatever closing one of them says.      *)
StoppedIsQuiet ==
  /\ stopping = "clean" => \A c \in Check : ~Handling(c)
  /\ serving = "returned" => listener # "open"
  /\ closed /\ (\A s \in Stopper : stopper[s] # "closing")
       => \A d \in Connection : connection[d] = "SHUTDOWN"

(* Shutdown ends though checkers hang, and although its deadline may never *)
(* pass: the registry bounds what a probe can take.                        *)
ShutdownEnds ==
  phase = "draining"
    ~> (Stopped /\ serving = "returned" /\ waiting = "returned" /\ stopper["app"] = "returned")

(* The inductive invariant: what a request that begins late cannot have    *)
(* been told, what the manager has still to close, and what keeps a server *)
(* that is stopped from being asked.                                       *)
Lateness ==
  \A c \in Check :
    /\ begun[c].draining => phase = "draining" /\ answer[c][Process] # "nil"
    /\ begun[c].closed => closed /\ held[c] = {} /\ \A d \in Connection : answer[c][d] # "nil"
    /\ pc[c] = "idle" =>
         held[c] = {} /\ \A d \in Dependency : checker[c][d] = "none" /\ answer[c][d] = "none"

ManagerPosition ==
  /\ closed => \A d \in Connection \ toClose : connection[d] = "SHUTDOWN"
  /\ closed /\ toClose # {} => \E s \in Stopper : stopper[s] = "closing"
  /\ ~closed => toClose = {} /\ \A s \in Stopper : stopper[s] = "idle"

ManagementPosition ==
  /\ serving = "idle" => listener = "none"
  /\ serving \in {"listening", "serving"} => listener # "none"
  /\ listener = "none" => ~shutdown /\ \A c \in Check : pc[c] = "idle"
  /\ listener = "open" => serving \in {"listening", "serving"}
  /\ serving = "serving" /\ shutdown => listener = "closed"
  /\ stopping # "idle" /\ listener # "none" => shutdown
  /\ stopping = "clean" => \A c \in Check : ~Handling(c)

OpsInv == ReadinessInv /\ OpsTypeOK /\ Lateness /\ ManagerPosition /\ ManagementPosition

===============================================================================
