-------------------------- MODULE OperationsProofs --------------------------
(* Proofs about Operations, for any connections, any number of requests    *)
(* and any callers of the manager's Stop.                                  *)
EXTENDS Operations, ReadinessProofs

(* Each step is one of the registry or leaves it alone.                    *)
LEMMA RegistryServes == [OpsNext]_opsVars => [Next]_vars
<1>. SUFFICES ASSUME [OpsNext]_opsVars
              PROVE  [Next]_vars
  OBVIOUS
<1>1. ASSUME NEW c \in Check, Request(c) PROVE [Next]_vars
  BY <1>1 DEF Request, Next, CheckStep
<1>2. CASE RegistryStep
  BY <1>2 DEF RegistryStep, Next
<1>3. CASE CheckerStep
  <2>1. PICK c \in Check : CheckProcess(c) \/ \E d \in Connection : Conn(c, d) \/ CheckConnection(c, d)
    BY <1>3 DEF CheckerStep
  <2>2. \/ UNCHANGED vars
        \/ \E d \in Dependency, err \in {"nil", "error"} : Answers(c, d, err)
    BY <2>1, OperationsAssumption DEF CheckProcess, Conn, CheckConnection
  <2>. QED
    BY <2>2 DEF Next, Answer
<1>4. CASE \/ \E c \in Check : Respond(c)
           \/ ManagerStep \/ ManagementStep \/ AppStep \/ UNCHANGED opsVars
  BY <1>4 DEF Respond, ManagerStep, ManagementStep, AppStep, opsVars
<1>. QED
  BY <1>1, <1>2, <1>3, <1>4 DEF OpsNext

LEMMA OpsInit_Inv == OpsInit => OpsInv
<1>. SUFFICES ASSUME OpsInit
              PROVE  OpsInv
  OBVIOUS
<1>1. Init
  BY DEF OpsInit
<1>2. ReadinessInv /\ TypeOK
  BY <1>1, InvInit DEF ReadinessInv
<1>3. OpsTypeOK
  BY <1>2 DEF OpsInit, OpsTypeOK
<1>4. Lateness /\ ManagerPosition /\ ManagementPosition
  BY <1>1, OperationsAssumption
  DEF OpsInit, Init, Lateness, ManagerPosition, ManagementPosition, Handling
<1>. QED
  BY <1>2, <1>3, <1>4 DEF OpsInv

(* A step of the registry is about a request that has begun.               *)
Kept ==
  /\ \A c \in Check : pc'[c] = "idle" <=> pc[c] = "idle"
  /\ \A c \in Check : pc[c] = "idle" =>
       \A d \in Dependency : checker'[c][d] = checker[c][d] /\ answer'[c][d] = answer[c][d]

LEMMA AnswersKeep ==
  ASSUME OpsInv, NEW c \in Check, NEW d \in Dependency, NEW err, Answers(c, d, err)
  PROVE  Kept /\ pc[c] # "idle" /\ pc' = pc
         /\ answer' = [answer EXCEPT ![c][d] = err]
BY DEF OpsInv, OpsTypeOK, TypeOK, Lateness, Answers, Kept

LEMMA RequestsStay ==
  ASSUME OpsInv, RegistryStep \/ CheckerStep
  PROVE  Kept
<1>. USE DEF OpsInv, OpsTypeOK, TypeOK
<1>1. CASE RegistryStep
  <2>1. ASSUME NEW d \in Dependency, Add(d)
        PROVE  Kept
    BY <2>1 DEF Add, Kept
  <2>2. ASSUME NEW c \in Check, pc[c] # "idle", CheckStep(c)
        PROVE  Kept
    <3>1. ASSUME NEW d \in Dependency, Ask(c, d)
          PROVE  Kept
      BY <2>2, <3>1 DEF Ask, AskingOr, Kept
    <3>2. ASSUME NEW d \in Dependency, Collect(c, d)
          PROVE  Kept
      BY <2>2, <3>2 DEF Collect, Kept
    <3>3. CASE CutOff(c) \/ Collected(c)
      BY <2>2, <3>3 DEF CutOff, Collected, Kept
    <3>. QED
      BY <2>2, <3>1, <3>2, <3>3 DEF CheckStep, BeginCheck
  <2>3. ASSUME NEW c \in Check, Expire(c)
        PROVE  Kept
    BY <2>3 DEF Expire, Kept
  <2>4. ASSUME NEW c \in Check, NEW d \in Dependency, Finish(c, d)
        PROVE  Kept
    BY <2>4 DEF Finish, Lateness, Kept
  <2>. QED
    BY <1>1, <2>1, <2>2, <2>3, <2>4 DEF RegistryStep
<1>2. CASE CheckerStep
  <2>1. PICK c \in Check : CheckProcess(c) \/ \E d \in Connection : Conn(c, d) \/ CheckConnection(c, d)
    BY <1>2 DEF CheckerStep
  <2>2. \/ UNCHANGED vars
        \/ \E d \in Dependency, err \in {"nil", "error"} : Answers(c, d, err)
    BY <2>1, OperationsAssumption DEF CheckProcess, Conn, CheckConnection
  <2>3. CASE UNCHANGED vars
    BY <2>3 DEF vars, Kept
  <2>. QED
    BY <2>2, <2>3, AnswersKeep
<1>. QED
  BY <1>1, <1>2

(* Only Finish and the checkers move answers in the registry's own steps:  *)
(* what it answers itself is that a checker is busy.                       *)
LEMMA RegistryAnswersBusy ==
  ASSUME OpsInv, RegistryStep
  PROVE  \A c \in Check, d \in Dependency : answer'[c][d] \in {answer[c][d], "busy"}
<1>. USE DEF OpsInv, OpsTypeOK, TypeOK
<1>1. ASSUME NEW c \in Check, NEW d \in Dependency, Ask(c, d)
      PROVE  \A b \in Check, e \in Dependency : answer'[b][e] \in {answer[b][e], "busy"}
  <2>1. answer' = answer \/ answer' = [answer EXCEPT ![c][d] = "busy"]
    BY <1>1 DEF Ask
  <2>2. CASE answer' = answer
    BY <2>2
  <2>3. CASE answer' = [answer EXCEPT ![c][d] = "busy"]
    BY <2>3
  <2>. QED
    BY <2>1, <2>2, <2>3
<1>2. ASSUME NEW c \in Check, NEW d \in Dependency, Collect(c, d) \/ Finish(c, d) \/ Add(d)
      PROVE  answer' = answer
  BY <1>2 DEF Collect, Finish, Add
<1>3. ASSUME NEW c \in Check, CutOff(c) \/ Collected(c) \/ Expire(c) \/ BeginCheck(c)
      PROVE  answer' = answer
  BY <1>3 DEF CutOff, Collected, Expire, BeginCheck
<1>. QED
  BY <1>1, <1>2, <1>3 DEF RegistryStep, CheckStep, Add

-------------------------------------------------------------------------------
(* OpsInv is preserved, part by part.                                      *)

LEMMA TypesKept ==
  ASSUME OpsInv, [OpsNext]_opsVars, TypeOK'
  PROVE  OpsTypeOK'
<1>. USE DEF OpsInv, OpsTypeOK
<1>1. ASSUME NEW c \in Check, Request(c) PROVE OpsTypeOK'
  BY <1>1 DEF Request, managerVars, managementVars
<1>2. ASSUME NEW c \in Check, Respond(c) PROVE OpsTypeOK'
  BY <1>2 DEF Respond, managerVars, managementVars
<1>3. CASE RegistryStep
  BY <1>3 DEF RegistryStep, managerVars, managementVars, requestVars
<1>4. CASE CheckerStep
  <2>1. held' \in [Check -> SUBSET Connection]
    BY <1>4 DEF CheckerStep, CheckProcess, Conn, CheckConnection
  <2>. QED
    BY <1>4, <2>1 DEF CheckerStep, managerVars, managementVars
<1>5. CASE ManagerStep
  <2>1. UNCHANGED <<phase, serving, listener, shutdown, stopping, held, begun, answered>>
    BY <1>5 DEF ManagerStep, managementVars, requestVars
  <2>2. /\ connection' \in [Connection -> {"DOWN", "READY", "SHUTDOWN"}]
        /\ closed' \in BOOLEAN /\ toClose' \subseteq Connection
        /\ stopper' \in [Stopper -> {"idle", "closing", "returned"}]
        /\ waiting' \in {"idle", "waiting", "returned"}
    <3>1. CASE ManagerStart \/ ManagerStartReturns
      BY <3>1 DEF ManagerStart, ManagerStartReturns
    <3>2. ASSUME NEW s \in Stopper, ManagerStop(s) \/ ManagerStopReturns(s)
          PROVE  <2>2!:
      BY <3>2 DEF ManagerStop, ManagerStopReturns
    <3>3. ASSUME NEW d \in Connection, CloseConnection(d) \/ ConnectionChanges(d)
          PROVE  <2>2!:
      BY <3>3 DEF CloseConnection, ConnectionChanges
    <3>. QED
      BY <1>5, <3>1, <3>2, <3>3 DEF ManagerStep
  <2>. QED
    BY <2>1, <2>2
<1>6. CASE ManagementStep
  <2>1. UNCHANGED <<phase, connection, closed, toClose, stopper, waiting, held, begun, answered>>
    BY <1>6 DEF ManagementStep, managerVars, requestVars
  <2>2. /\ serving' \in {"idle", "listening", "serving", "returned"}
        /\ listener' \in {"none", "open", "closed"} /\ shutdown' \in BOOLEAN
        /\ stopping' \in {"idle", "draining", "clean", "forced"}
    BY <1>6 DEF ManagementStep, Listen, Serve, ServeReturns, Stop, Drained, ForceClose
  <2>. QED
    BY <2>1, <2>2
<1>7. CASE AppStep
  BY <1>7 DEF AppStep, managerVars, managementVars, requestVars
<1>8. CASE UNCHANGED opsVars
  BY <1>8 DEF opsVars, managerVars, managementVars, requestVars
<1>. QED
  BY <1>1, <1>2, <1>3, <1>4, <1>5, <1>6, <1>7, <1>8 DEF OpsNext

LEMMA LatenessKept ==
  ASSUME OpsInv, [OpsNext]_opsVars
  PROVE  Lateness'
<1>. USE DEF OpsInv, OpsTypeOK, TypeOK
<1>0. Process \in Dependency /\ Connection \subseteq Dependency /\ Process \notin Connection
  BY OperationsAssumption
<1>1. ASSUME NEW c \in Check, Request(c) PROVE Lateness'
  <2>1. /\ pc[c] = "idle" /\ pc' = [pc EXCEPT ![c] = AskingOr(entries)]
        /\ UNCHANGED <<checker, answer, phase, closed, held>>
        /\ begun' = [begun EXCEPT ![c] = [draining |-> phase = "draining", closed |-> closed]]
    BY <1>1 DEF Request, BeginCheck, managerVars
  <2>2. held[c] = {} /\ \A d \in Dependency : answer[c][d] = "none"
    BY <2>1 DEF Lateness
  <2>3. ASSUME NEW b \in Check, b # c
        PROVE  begun'[b] = begun[b] /\ pc'[b] = pc[b]
    BY <2>1, <2>3
  <2>4. begun'[c].draining = (phase = "draining") /\ begun'[c].closed = closed /\ pc'[c] # "idle"
    BY <2>1 DEF AskingOr
  <2>. QED
    BY <1>0, <2>1, <2>2, <2>3, <2>4 DEF Lateness
<1>2. CASE RegistryStep
  <2>1. UNCHANGED <<phase, closed, held, begun>>
    BY <1>2 DEF RegistryStep, managerVars, requestVars
  <2>2. Kept
    BY <1>2, RequestsStay
  <2>3. \A c \in Check, d \in Dependency : answer'[c][d] \in {answer[c][d], "busy"}
    BY <1>2, RegistryAnswersBusy
  <2>. QED
    BY <1>0, <2>1, <2>2, <2>3 DEF Kept, Lateness
<1>3. CASE CheckerStep
  <2>1. UNCHANGED <<phase, closed, begun>>
    BY <1>3 DEF CheckerStep, managerVars
  <2>2. PICK c \in Check : CheckProcess(c) \/ \E d \in Connection : Conn(c, d) \/ CheckConnection(c, d)
    BY <1>3 DEF CheckerStep
  <2>3. CASE CheckProcess(c)
    <3>1. PICK err \in {"nil", "error"} :
            /\ Answers(c, Process, err) /\ UNCHANGED held
            /\ phase = "draining" => err # "nil"
      BY <2>3 DEF CheckProcess
    <3>2. Kept /\ answer' = [answer EXCEPT ![c][Process] = err]
      BY <1>0, <3>1, AnswersKeep
    <3>. QED
      BY <1>0, <2>1, <3>1, <3>2 DEF Kept, Lateness
  <2>4. ASSUME NEW d \in Connection, Conn(c, d)
        PROVE  Lateness'
    <3>1. CASE closed
      <4>1. Answers(c, d, "error") /\ UNCHANGED held
        BY <2>4, <3>1 DEF Conn
      <4>2. Kept /\ answer' = [answer EXCEPT ![c][d] = "error"]
        BY <1>0, <4>1, AnswersKeep
      <4>. QED
        BY <1>0, <2>1, <4>1, <4>2 DEF Kept, Lateness
    <3>2. CASE ~closed
      <4>1. /\ held' = [held EXCEPT ![c] = @ \union {d}] /\ UNCHANGED <<pc, checker, answer>>
            /\ checker[c][d] = "running"
        BY <2>4, <3>2 DEF Conn, vars
      <4>2. pc[c] # "idle" /\ ~begun[c].closed
        BY <1>0, <3>2, <4>1 DEF Lateness
      <4>. QED
        BY <1>0, <2>1, <4>1, <4>2 DEF Lateness
    <3>. QED
      BY <3>1, <3>2
  <2>5. ASSUME NEW d \in Connection, CheckConnection(c, d)
        PROVE  Lateness'
    <3>1. PICK err \in {"nil", "error"} : Answers(c, d, err) /\ d \in held[c]
                                           /\ held' = [held EXCEPT ![c] = @ \ {d}]
      BY <2>5 DEF CheckConnection
    <3>2. Kept /\ pc[c] # "idle" /\ pc' = pc /\ answer' = [answer EXCEPT ![c][d] = err]
      BY <1>0, <3>1, AnswersKeep
    <3>3. ~begun[c].closed
      BY <3>1 DEF Lateness
    <3>. QED
      BY <1>0, <2>1, <3>1, <3>2, <3>3 DEF Kept, Lateness
  <2>. QED
    BY <2>2, <2>3, <2>4, <2>5
<1>4. CASE ManagerStep
  <2>1. UNCHANGED <<vars, phase, held, begun>>
    BY <1>4 DEF ManagerStep, requestVars
  <2>2. closed => closed'
    BY <1>4 DEF ManagerStep, ManagerStart, ManagerStartReturns, ManagerStop, ManagerStopReturns,
                CloseConnection, ConnectionChanges
  <2>. QED
    BY <2>1, <2>2 DEF vars, Lateness
<1>5. CASE AppStep
  BY <1>5 DEF AppStep, managerVars, requestVars, vars, Lateness
<1>6. CASE ManagementStep \/ (\E c \in Check : Respond(c)) \/ UNCHANGED opsVars
  <2>1. UNCHANGED <<vars, phase, closed, held, begun>>
    BY <1>6 DEF ManagementStep, Respond, opsVars, managerVars, requestVars
  <2>. QED
    BY <2>1 DEF vars, Lateness
<1>. QED
  BY <1>1, <1>2, <1>3, <1>4, <1>5, <1>6 DEF OpsNext

LEMMA ManagerKept ==
  ASSUME OpsInv, [OpsNext]_opsVars
  PROVE  ManagerPosition'
<1>. USE DEF OpsInv, OpsTypeOK, ManagerPosition
<1>1. CASE ManagerStep
  <2>1. CASE ManagerStart \/ ManagerStartReturns
    BY <2>1 DEF ManagerStart, ManagerStartReturns
  <2>2. ASSUME NEW s \in Stopper, ManagerStop(s)
        PROVE  ManagerPosition'
    BY <2>2 DEF ManagerStop
  <2>3. ASSUME NEW s \in Stopper, ManagerStopReturns(s)
        PROVE  ManagerPosition'
    BY <2>3 DEF ManagerStopReturns
  <2>4. ASSUME NEW d \in Connection, CloseConnection(d)
        PROVE  ManagerPosition'
    BY <2>4 DEF CloseConnection
  <2>5. ASSUME NEW d \in Connection, ConnectionChanges(d)
        PROVE  ManagerPosition'
    BY <2>5 DEF ConnectionChanges
  <2>. QED
    BY <1>1, <2>1, <2>2, <2>3, <2>4, <2>5 DEF ManagerStep
<1>2. CASE UNCHANGED managerVars
  BY <1>2 DEF managerVars
<1>. QED
  BY <1>1, <1>2 DEF OpsNext, Request, Respond, RegistryStep, CheckerStep, ManagementStep, AppStep,
                    opsVars

LEMMA ManagementKept ==
  ASSUME OpsInv, [OpsNext]_opsVars
  PROVE  ManagementPosition'
<1>. USE DEF OpsInv, OpsTypeOK, ManagementPosition
<1>1. ASSUME NEW c \in Check, Request(c) PROVE ManagementPosition'
  <2>1. /\ serving = "serving" /\ ~shutdown
        /\ UNCHANGED <<serving, listener, shutdown, stopping>>
    BY <1>1 DEF Request, managementVars
  <2>. QED
    BY <2>1
<1>2. ASSUME NEW c \in Check, Respond(c) PROVE ManagementPosition'
  BY <1>2 DEF Respond, managementVars, vars, Handling
<1>3. CASE RegistryStep \/ CheckerStep
  <2>1. UNCHANGED <<serving, listener, shutdown, stopping, answered>>
    BY <1>3 DEF RegistryStep, CheckerStep, managementVars, requestVars
  <2>2. \A c \in Check : pc'[c] = "idle" <=> pc[c] = "idle"
    BY <1>3, RequestsStay DEF Kept
  <2>. QED
    BY <2>1, <2>2 DEF Handling
<1>4. CASE ManagementStep
  <2>1. UNCHANGED <<pc, answered>>
    BY <1>4 DEF ManagementStep, vars, requestVars
  <2>2. CASE Listen
    BY <2>1, <2>2 DEF Listen, Handling
  <2>3. CASE Serve \/ ServeReturns
    BY <2>1, <2>3 DEF Serve, ServeReturns, Handling
  <2>4. CASE Stop
    BY <2>1, <2>4 DEF Stop, Handling
  <2>5. CASE Drained \/ ForceClose
    BY <2>1, <2>5 DEF Drained, ForceClose, Handling
  <2>. QED
    BY <1>4, <2>2, <2>3, <2>4, <2>5 DEF ManagementStep
<1>5. CASE ManagerStep \/ AppStep \/ UNCHANGED opsVars
  BY <1>5 DEF ManagerStep, AppStep, opsVars, vars, managementVars, requestVars, Handling
<1>. QED
  BY <1>1, <1>2, <1>3, <1>4, <1>5 DEF OpsNext

-------------------------------------------------------------------------------
(* The inductive invariant, of the registry and of what is around it.      *)
THEOREM OperationsInvariant == OpsSpec => []OpsInv
<1>1. OpsInv /\ [OpsNext]_opsVars => OpsInv'
  <2>. SUFFICES ASSUME OpsInv, [OpsNext]_opsVars
                PROVE  OpsInv'
    OBVIOUS
  <2>1. ReadinessInv'
    BY RegistryServes, InvStep DEF OpsInv
  <2>2. TypeOK'
    BY <2>1 DEF ReadinessInv
  <2>. QED
    BY <2>1, <2>2, TypesKept, LatenessKept, ManagerKept, ManagementKept DEF OpsInv
<1>. QED
  BY <1>1, OpsInit_Inv, PTL DEF OpsSpec

(* The variables of the App, the manager and the server keep their types.  *)
THEOREM OperationsTypes == OpsSpec => []OpsTypeOK
<1>1. OpsInv => OpsTypeOK
  BY DEF OpsInv
<1>. QED
  BY <1>1, OperationsInvariant, PTL

(* What Readiness promises of any calls of Check holds of the requests to  *)
(* /readyz, whatever the App, the manager and the server do meanwhile.     *)
THEOREM RegistryInOperations == OpsSpec => [](OneChecker /\ HonestReport)
<1>1. ReadinessInv => OneChecker /\ HonestReport
  BY CheckersAlone, InvIsHonest
<1>. QED
  BY <1>1, OperationsInvariant, PTL DEF OpsInv

(* A probe that arrives while the program goes away is not answered ready. *)
THEOREM LateProbesAreNotReady == OpsSpec => []NeverReadyLate
<1>1. OpsInv => NeverReadyLate
  <2>. SUFFICES ASSUME OpsInv, NEW c \in Check, pc[c] = "returned"
                PROVE  /\ begun[c].draining /\ Process \in snapshot[c] => ~Ready(c)
                       /\ begun[c].closed => \A d \in Connection : report[c][d] # "READY"
    BY DEF NeverReadyLate
  <2>1. HonestReport
    BY InvIsHonest DEF OpsInv
  <2>2. begun[c].draining /\ Process \in snapshot[c] => ~Ready(c)
    BY <2>1, OperationsAssumption DEF OpsInv, Lateness, HonestReport
  <2>3. begun[c].closed => \A d \in Connection : report[c][d] # "READY"
    BY <2>1, OperationsAssumption DEF OpsInv, Lateness, HonestReport
  <2>. QED
    BY <2>2, <2>3
<1>. QED
  BY <1>1, OperationsInvariant, PTL

(* Both Stops leave nothing behind: no probe being answered, no listener,  *)
(* no open connection.                                                     *)
THEOREM StopsLeaveNothing == OpsSpec => []StoppedIsQuiet
<1>1. OpsInv => StoppedIsQuiet
  BY DEF OpsInv, ManagementPosition, ManagerPosition, StoppedIsQuiet
<1>. QED
  BY <1>1, OperationsInvariant, PTL

===============================================================================
