--------------------------- MODULE HttpServerProofs ---------------------------
(* Theorems about HttpRequest, for any number of requests, and about       *)
(* HttpServer, for any number of Starts and Stops too.                     *)
EXTENDS HttpServer, TLAPS

-------------------------------------------------------------------------------
(* The requests alone.                                                     *)

LEMMA InvInit == Init => RequestInv
BY DEF Init, RequestInv, TypeOK, Position, AnswerPosition, GivenPosition, BufferPosition,
       CodePosition, Nothing, Uncounted, Written, Count, Reply, MainState, HandlerState, OrOK

(* What one request may do.                                                *)
Step(r) ==
  Accept(r) \/ MainStep(r) \/ HandlerStep(r) \/ DeadlinePasses(r) \/ CancelRequest(r)

(* A step of one request leaves every other where it is.                   *)
LEMMA Elsewhere ==
  ASSUME RequestInv, NEW r \in Request, Step(r), NEW q \in Request, q # r
  PROVE  Position(q)'
<1>1. /\ main'[q] = main[q] /\ handler'[q] = handler[q]
      /\ reply'[q] = reply[q] /\ given'[q] = given[q]
  BY DEF Step, RequestInv, TypeOK, MainStep, HandlerStep, Accept, Commit, SeeDeadline,
     TimeoutCode, TimeoutRespond, SeeCancelled, Observe, Respond, Panic, WriteHeader, Write,
     Finish, DeadlinePasses, CancelRequest, MainMoves, HandlerMoves, Begin, answerVars, handlerVars
<1>2. header'[q] = header[q] /\ buffer'[q] = buffer[q]
  BY DEF Step, RequestInv, TypeOK, MainStep, HandlerStep, Accept, Commit, SeeDeadline,
     TimeoutCode, TimeoutRespond, SeeCancelled, Observe, Respond, Panic, WriteHeader, Write,
     Finish, DeadlinePasses, CancelRequest, handlerVars
<1>3. /\ timedOut'[q] = timedOut[q] /\ wire'[q] = wire[q]
      /\ code'[q] = code[q] /\ recorded'[q] = recorded[q]
  BY DEF Step, RequestInv, TypeOK, MainStep, HandlerStep, Accept, Commit, SeeDeadline,
     TimeoutCode, TimeoutRespond, SeeCancelled, Observe, Respond, Panic, WriteHeader, Write,
     Finish, DeadlinePasses, CancelRequest, SetBusinessCode
<1>4. Position(q)
  BY DEF RequestInv
<1> QED
  BY <1>1, <1>2, <1>3, <1>4 DEF Position, AnswerPosition, GivenPosition, BufferPosition,
     CodePosition

LEMMA InvStep == RequestInv /\ [RequestNext]_requestVars => RequestInv'
<1> SUFFICES ASSUME RequestInv, [RequestNext]_requestVars PROVE RequestInv'
  OBVIOUS
<1>0. ASSUME NEW r \in Request, Step(r), TypeOK', Position(r)' PROVE RequestInv'
  BY <1>0, Elsewhere DEF RequestInv
<1> USE AnswerAssumption DEF RequestInv, TypeOK, Position, AnswerPosition, GivenPosition,
        BufferPosition, CodePosition, Nothing, Uncounted, Written, Whole, Count, Reply, MainState,
        HandlerState, OrOK, SetBusinessCode, Begin, MainMoves, HandlerMoves, handlerVars, answerVars
<1>1. ASSUME NEW r \in Request, NEW a \in Answer, Respond(r, a)
      PROVE  TypeOK' /\ Position(r)'
  <2>1. TypeOK'
    BY <1>1 DEF Respond
  <2>2. AnswerPosition(r)'
    BY <1>1 DEF Respond
  <2>3. GivenPosition(r)'
    BY <1>1 DEF Respond
  <2>4. BufferPosition(r)'
    BY <1>1 DEF Respond
  <2>5. CodePosition(r)'
    BY <1>1 DEF Respond
  <2> QED BY <2>1, <2>2, <2>3, <2>4, <2>5
<1>2. ASSUME NEW r \in Request, Panic(r)
      PROVE  TypeOK' /\ Position(r)'
  <2>1. TypeOK'
    BY <1>2 DEF Panic
  <2>2. AnswerPosition(r)'
    BY <1>2 DEF Panic
  <2>3. GivenPosition(r)'
    BY <1>2 DEF Panic
  <2>4. BufferPosition(r)'
    BY <1>2 DEF Panic
  <2>5. CodePosition(r)'
    BY <1>2 DEF Panic
  <2> QED BY <2>1, <2>2, <2>3, <2>4, <2>5
<1>3. ASSUME NEW r \in Request, WriteHeader(r)
      PROVE  TypeOK' /\ Position(r)'
  <2>0. /\ handler[r] = "coded" /\ handler'[r] = "headed"
        /\ UNCHANGED <<main, reply, given, timedOut, wire, code, recorded>>
    BY <1>3 DEF WriteHeader
  <2>1. header' \in [Request -> Reply \union {"none"}] /\ buffer' \in [Request -> Written]
    BY <1>3 DEF WriteHeader
  <2>2. TypeOK'
    BY <1>3, <2>1 DEF WriteHeader
  <2>3. header'[r] = IF header[r] = "none" THEN reply[r] ELSE header[r]
    BY <1>3 DEF WriteHeader
  <2>4. buffer'[r] = IF header[r] # "none" \/ timedOut[r] THEN buffer[r]
                     ELSE [status |-> reply[r], body |-> {}]
    <3>1. header[r] = "none" => buffer[r] = Nothing
      OBVIOUS
    <3>2. CASE header[r] # "none" \/ timedOut[r]
      BY <1>3, <3>2 DEF WriteHeader
    <3>3. CASE header[r] = "none" /\ ~timedOut[r]
      <4>1. buffer' = [buffer EXCEPT ![r].status = reply[r]]
        BY <1>3, <3>1, <3>3 DEF WriteHeader
      <4>2. buffer \in [Request -> Written]
        OBVIOUS
      <4> HIDE DEF RequestInv, TypeOK, Position, Written, Nothing
      <4>3. buffer'[r] = [buffer[r] EXCEPT !.status = reply[r]]
        BY <4>1, <4>2
      <4>4. buffer[r] = [status |-> "none", body |-> {}]
        BY <3>1, <3>3 DEF Nothing
      <4> QED BY <3>3, <4>3, <4>4
    <3> QED BY <3>2, <3>3
  <2>5. AnswerPosition(r)'
    BY <2>0
  <2>6. reply[r] # "none" => given[r] # {} /\ reply[r] \in given[r]
    OBVIOUS
  <2>7. reply[r] # "none"
    BY <2>0
  <2>8. GivenPosition(r)'
    BY <2>0, <2>3, <2>4, <2>6, <2>7
  <2>9. BufferPosition(r)'
    BY <2>0, <2>3, <2>4, <2>6, <2>7
  <2>10. CodePosition(r)'
    BY <2>0
  <2> QED BY <2>2, <2>5, <2>8, <2>9, <2>10
<1>4. ASSUME NEW r \in Request, Write(r)
      PROVE  TypeOK' /\ Position(r)'
  <2>1. TypeOK'
    BY <1>4 DEF Write
  <2>2. AnswerPosition(r)'
    BY <1>4 DEF Write
  <2>3. GivenPosition(r)'
    BY <1>4 DEF Write
  <2>4. BufferPosition(r)'
    BY <1>4 DEF Write
  <2>5. CodePosition(r)'
    BY <1>4 DEF Write
  <2> QED BY <2>1, <2>2, <2>3, <2>4, <2>5
<1>5. ASSUME NEW r \in Request, Finish(r)
      PROVE  TypeOK' /\ Position(r)'
  <2>1. TypeOK'
    BY <1>5 DEF Finish
  <2>2. AnswerPosition(r)'
    BY <1>5 DEF Finish
  <2>3. GivenPosition(r)'
    BY <1>5 DEF Finish
  <2>4. BufferPosition(r)'
    BY <1>5 DEF Finish
  <2>5. CodePosition(r)'
    BY <1>5 DEF Finish
  <2> QED BY <2>1, <2>2, <2>3, <2>4, <2>5
<1>6. ASSUME NEW r \in Request, Accept(r)
      PROVE  TypeOK' /\ Position(r)'
  <2>1. TypeOK'
    BY <1>6 DEF Accept
  <2>2. AnswerPosition(r)'
    BY <1>6 DEF Accept
  <2>3. GivenPosition(r)'
    BY <1>6 DEF Accept
  <2>4. BufferPosition(r)'
    BY <1>6 DEF Accept
  <2>5. CodePosition(r)'
    BY <1>6 DEF Accept
  <2> QED BY <2>1, <2>2, <2>3, <2>4, <2>5
<1>7. ASSUME NEW r \in Request, Commit(r)
      PROVE  TypeOK' /\ Position(r)'
  <2>1. TypeOK'
    BY <1>7 DEF Commit
  <2>2. AnswerPosition(r)'
    BY <1>7 DEF Commit
  <2>3. GivenPosition(r)'
    BY <1>7 DEF Commit
  <2>4. BufferPosition(r)'
    BY <1>7 DEF Commit
  <2>5. CodePosition(r)'
    BY <1>7 DEF Commit
  <2> QED BY <2>1, <2>2, <2>3, <2>4, <2>5
<1>8. ASSUME NEW r \in Request, SeeDeadline(r)
      PROVE  TypeOK' /\ Position(r)'
  <2>1. TypeOK'
    BY <1>8 DEF SeeDeadline
  <2>2. AnswerPosition(r)'
    BY <1>8 DEF SeeDeadline
  <2>3. GivenPosition(r)'
    BY <1>8 DEF SeeDeadline
  <2>4. BufferPosition(r)'
    BY <1>8 DEF SeeDeadline
  <2>5. CodePosition(r)'
    BY <1>8 DEF SeeDeadline
  <2> QED BY <2>1, <2>2, <2>3, <2>4, <2>5
<1>9. ASSUME NEW r \in Request, TimeoutCode(r)
      PROVE  TypeOK' /\ Position(r)'
  <2>1. TypeOK'
    BY <1>9 DEF TimeoutCode
  <2>2. AnswerPosition(r)'
    BY <1>9 DEF TimeoutCode
  <2>3. GivenPosition(r)'
    BY <1>9 DEF TimeoutCode
  <2>4. BufferPosition(r)'
    BY <1>9 DEF TimeoutCode
  <2>5. CodePosition(r)'
    BY <1>9 DEF TimeoutCode
  <2> QED BY <2>1, <2>2, <2>3, <2>4, <2>5
<1>10. ASSUME NEW r \in Request, TimeoutRespond(r)
      PROVE  TypeOK' /\ Position(r)'
  <2>1. TypeOK'
    BY <1>10 DEF TimeoutRespond
  <2>2. AnswerPosition(r)'
    BY <1>10 DEF TimeoutRespond
  <2>3. GivenPosition(r)'
    BY <1>10 DEF TimeoutRespond
  <2>4. BufferPosition(r)'
    BY <1>10 DEF TimeoutRespond
  <2>5. CodePosition(r)'
    BY <1>10 DEF TimeoutRespond
  <2> QED BY <2>1, <2>2, <2>3, <2>4, <2>5
<1>11. ASSUME NEW r \in Request, SeeCancelled(r)
      PROVE  TypeOK' /\ Position(r)'
  <2>1. TypeOK'
    BY <1>11 DEF SeeCancelled
  <2>2. AnswerPosition(r)'
    BY <1>11 DEF SeeCancelled
  <2>3. GivenPosition(r)'
    BY <1>11 DEF SeeCancelled
  <2>4. BufferPosition(r)'
    BY <1>11 DEF SeeCancelled
  <2>5. CodePosition(r)'
    BY <1>11 DEF SeeCancelled
  <2> QED BY <2>1, <2>2, <2>3, <2>4, <2>5
<1>12. ASSUME NEW r \in Request, Observe(r)
      PROVE  TypeOK' /\ Position(r)'
  <2>1. TypeOK'
    BY <1>12 DEF Observe
  <2>2. AnswerPosition(r)'
    BY <1>12 DEF Observe
  <2>3. GivenPosition(r)'
    BY <1>12 DEF Observe
  <2>4. BufferPosition(r)'
    BY <1>12 DEF Observe
  <2>5. CodePosition(r)'
    <3>1. recorded'[r] = [status |-> OrOK(wire[r].status), code |-> code[r]] /\ main'[r] = "done"
      BY <1>12 DEF Observe
    <3>2. UNCHANGED <<timedOut, wire, code, reply>>
      BY <1>12 DEF Observe
    <3>3. wire[r] # Nothing => wire[r].status # "none"
      <4>1. wire[r] # Nothing /\ timedOut[r] => wire[r] = Whole("timeout")
        OBVIOUS
      <4>2. wire[r] # Nothing /\ ~timedOut[r] =>
              wire[r] = [status |-> OrOK(buffer[r].status), body |-> buffer[r].body]
        OBVIOUS
      <4> HIDE DEF RequestInv, TypeOK, Position, Nothing
      <4> QED BY <4>1, <4>2
    <3>4. recorded'[r] # Uncounted
      BY <3>1
    <3> QED BY <3>1, <3>2, <3>3, <3>4
  <2> QED BY <2>1, <2>2, <2>3, <2>4, <2>5
<1>13. ASSUME NEW r \in Request, DeadlinePasses(r)
      PROVE  TypeOK' /\ Position(r)'
  <2>1. TypeOK'
    BY <1>13 DEF DeadlinePasses
  <2>2. AnswerPosition(r)'
    BY <1>13 DEF DeadlinePasses
  <2>3. GivenPosition(r)'
    BY <1>13 DEF DeadlinePasses
  <2>4. BufferPosition(r)'
    BY <1>13 DEF DeadlinePasses
  <2>5. CodePosition(r)'
    BY <1>13 DEF DeadlinePasses
  <2> QED BY <2>1, <2>2, <2>3, <2>4, <2>5
<1>14. ASSUME NEW r \in Request, CancelRequest(r)
      PROVE  TypeOK' /\ Position(r)'
  <2>1. TypeOK'
    BY <1>14 DEF CancelRequest
  <2>2. AnswerPosition(r)'
    BY <1>14 DEF CancelRequest
  <2>3. GivenPosition(r)'
    BY <1>14 DEF CancelRequest
  <2>4. BufferPosition(r)'
    BY <1>14 DEF CancelRequest
  <2>5. CodePosition(r)'
    BY <1>14 DEF CancelRequest
  <2> QED BY <2>1, <2>2, <2>3, <2>4, <2>5
<1> HIDE DEF RequestInv, TypeOK, Position, MainMoves, HandlerMoves, SetBusinessCode, Begin,
        handlerVars, answerVars
<1>15. ASSUME NEW r \in Request, Step(r) PROVE TypeOK' /\ Position(r)'
  BY <1>1, <1>2, <1>3, <1>4, <1>5, <1>6, <1>7, <1>8, <1>9, <1>10, <1>11, <1>12, <1>13, <1>14, <1>15
  DEF Step, MainStep, HandlerStep
<1>16. CASE UNCHANGED requestVars
  BY <1>16 DEF requestVars, handlerVars, answerVars, RequestInv, TypeOK, Position
<1> QED BY <1>0, <1>15, <1>16 DEF RequestNext, Step

(* The inductive invariant of a request.                                   *)
THEOREM RequestInvariant == RequestSpec => []RequestInv
BY InvInit, InvStep, PTL DEF RequestSpec

(* The variables of a request keep their types.                            *)
THEOREM RequestTypes == RequestSpec => []TypeOK
<1>1. RequestInv => TypeOK
  BY DEF RequestInv
<1> QED BY <1>1, RequestInvariant, PTL

LEMMA InvIsWhole == RequestInv => NeverMixed
<1> SUFFICES ASSUME RequestInv, NEW r \in Request, wire[r] # Nothing, ~timedOut[r]
             PROVE  /\ handler[r] = "finished"
                    /\ wire[r] = [status |-> OrOK(buffer[r].status), body |-> buffer[r].body]
                    /\ "timeout" \notin wire[r].body
                    /\ "internal" \in wire[r].body => wire[r] = Whole("internal")
                    /\ \A a \in Reply :
                         given[r] = {a} => wire[r].status = a /\ wire[r].body \subseteq {a}
  BY DEF RequestInv, Position, AnswerPosition, NeverMixed
<1>1. TypeOK /\ Position(r)
  BY DEF RequestInv
<1>2. /\ handler[r] = "finished"
      /\ wire[r] = [status |-> OrOK(buffer[r].status), body |-> buffer[r].body]
      /\ buffer[r].body \subseteq given[r]
      /\ "timeout" \notin wire[r].body
  BY <1>1 DEF Position, AnswerPosition, GivenPosition, BufferPosition
<1>3. ASSUME "internal" \in wire[r].body PROVE wire[r] = Whole("internal")
  <2>1. "internal" \in given[r] /\ buffer[r].body = {"internal"}
    BY <1>1, <1>2, <1>3 DEF Position, GivenPosition
  <2>2. buffer[r].status = "internal"
    BY <1>1, <1>2, <2>1 DEF Position, GivenPosition, BufferPosition
  <2> QED BY <1>2, <2>1, <2>2 DEF Whole, OrOK
<1>4. ASSUME NEW a \in Reply, given[r] = {a} PROVE wire[r].status = a /\ wire[r].body \subseteq {a}
  <2>1. buffer[r].status = a
    BY <1>1, <1>2, <1>4 DEF Position, GivenPosition, BufferPosition, Reply
  <2> QED BY <1>2, <1>4, <2>1 DEF OrOK, Reply
<1> QED BY <1>2, <1>3, <1>4

(* The client never gets a mixture of two answers, or part of one, but     *)
(* what a handler that responds in different ways has mixed itself.        *)
THEOREM AnswersAreWhole == RequestSpec => []NeverMixed
<1>1. RequestInv => NeverMixed
  BY InvIsWhole
<1> QED BY <1>1, RequestInvariant, PTL

(* The metrics count the status sent with the business code of the last    *)
(* answer: for a handler that responds in one way, those of its answer.    *)
THEOREM CountsMatch == RequestSpec => []MetricsMatchAnswer
<1>1. RequestInv => MetricsMatchAnswer
  <2> SUFFICES ASSUME RequestInv, NEW r \in Request,
                      recorded[r] # Uncounted, wire[r] # Nothing, ~timedOut[r]
               PROVE  /\ recorded[r] = [status |-> wire[r].status, code |-> OrOK(reply[r])]
                      /\ \A a \in Reply : given[r] = {a} => recorded[r] = [status |-> a, code |-> a]
    BY DEF MetricsMatchAnswer
  <2>1. TypeOK /\ Position(r)
    BY DEF RequestInv
  <2>2. recorded[r] = [status |-> wire[r].status, code |-> OrOK(reply[r])]
    BY <2>1 DEF Position, CodePosition
  <2>3. ASSUME NEW a \in Reply, given[r] = {a} PROVE wire[r].status = a /\ OrOK(reply[r]) = a
    BY <2>1, <2>3 DEF Position, AnswerPosition, GivenPosition, BufferPosition, OrOK, Reply
  <2> QED BY <2>2, <2>3
<1> QED BY <1>1, RequestInvariant, PTL

(* Once the middleware has stopped listening neither the buffer nor the    *)
(* answer changes.                                                         *)
THEOREM LateWritesAreRefused == RequestSpec => LateWritesRefused
<1>1. RequestInv /\ [RequestNext]_requestVars => [RefusesLateWrites]_requestVars
  <2> SUFFICES ASSUME RequestInv, RequestNext PROVE RefusesLateWrites
    OBVIOUS
  <2> USE DEF RequestInv, TypeOK, Position, AnswerPosition, RefusesLateWrites, MainMoves, HandlerMoves,
          handlerVars
  <2>1. ASSUME NEW r \in Request, WriteHeader(r) \/ Write(r) PROVE RefusesLateWrites
    BY <2>1 DEF WriteHeader, Write
  <2>2. ASSUME NEW r \in Request, Commit(r) \/ TimeoutRespond(r) PROVE RefusesLateWrites
    BY <2>2 DEF Commit, TimeoutRespond
  <2>3. ASSUME NEW r \in Request, UNCHANGED <<buffer, wire>> PROVE RefusesLateWrites
    BY <2>3
  <2> QED
    BY <2>1, <2>2, <2>3 DEF RequestNext, MainStep, HandlerStep, Accept, SeeDeadline, TimeoutCode,
       SeeCancelled, Observe, Respond, Panic, Finish, DeadlinePasses, CancelRequest
<1> QED BY <1>1, RequestInvariant, PTL DEF RequestSpec, LateWritesRefused

-------------------------------------------------------------------------------
(* The server around them.                                                 *)

(* A step of the server is a step of one request, or leaves all alone.     *)
LEMMA ServerServes == Next => [RequestNext]_requestVars
BY DEF Next, StartStep, StopStep, RejectStart, RefuseStart, ListenFails, Bind, Serve,
       ServeReturns, ServeFails, CallStop, LockStop, ShutdownReturns, ShutdownExpires,
       Expire, AcceptRequest, ServeRequest, ClientLeaves, CancelByBase, CancelBase, RequestNext

LEMMA RequestsInside == Spec => []RequestInv
<1>1. ServerInit => RequestInv
  BY InvInit DEF ServerInit
<1>2. RequestInv /\ [Next]_vars => RequestInv'
  BY InvStep, ServerServes DEF vars
<1> QED BY <1>1, <1>2, PTL DEF Spec

LEMMA ServerInvInit == ServerInit => ServerInv
<1> SUFFICES ASSUME ServerInit PROVE ServerInv
  OBVIOUS
<1>1. TypeOK
  BY InvInit DEF ServerInit, RequestInv
<1>2. ServerTypeOK
  BY <1>1 DEF ServerInit, ServerTypeOK, StartState, StopState
<1>3. StopPosition /\ NoEarlyRequest /\ StoppedServesNothing
  BY DEF ServerInit, Init, StopPosition, NoEarlyRequest, StoppedServesNothing
<1> QED BY <1>2, <1>3 DEF ServerInv

(* Requests keep their types by RequestInv; no request becomes active but  *)
(* by AcceptRequest.                                                       *)
LEMMA StaysInactive ==
  ASSUME TypeOK, NEW q \in Request,
         MainStep(q) \/ HandlerStep(q) \/ DeadlinePasses(q) \/ CancelRequest(q),
         NEW r \in Request
  PROVE  (main[r] = "idle" => main'[r] = "idle") /\ (~Active(r) => ~Active(r)')
BY DEF TypeOK, Active, MainStep, HandlerStep, Commit, SeeDeadline, TimeoutCode, TimeoutRespond,
       SeeCancelled, Observe, Respond, Panic, WriteHeader, Write, Finish, DeadlinePasses,
       CancelRequest, MainMoves

LEMMA ServerInvStep == ServerInv /\ TypeOK' /\ [Next]_vars => ServerInv'
<1> SUFFICES ASSUME ServerInv, TypeOK', [Next]_vars PROVE ServerInv'
  OBVIOUS
<1> USE DEF ServerInv, ServerTypeOK, StartState, StopState, StopPosition, NoEarlyRequest,
            StoppedServesNothing, StartMoves, StopMoves
<1>1. ASSUME NEW s \in Starter, StartStep(s) PROVE ServerInv'
  <2> USE <1>1 DEF StartStep, RejectStart, RefuseStart, ListenFails, Bind, Serve, ServeReturns, ServeFails
  <2>1. UNCHANGED <<requestVars, stopRequested, stop, expired, baseDone, gone>>
    OBVIOUS
  <2>2. ServerTypeOK'
    BY <2>1
  <2>3. Started \subseteq Started'
    BY DEF Started
  <2>4. server' # "none" => Started' # {}
    BY <2>3 DEF Started
  <2>5. \/ server' = server
        \/ server = "none" /\ server' = "new" /\ ~stopRequested
        \/ server = "new" /\ server' = "serving"
    OBVIOUS
  <2>6. StopPosition'
    BY <2>1, <2>4, <2>5
  <2>7. NoEarlyRequest' /\ StoppedServesNothing'
    BY <2>1, <2>5 DEF requestVars, Active
  <2> QED BY <2>2, <2>6, <2>7
<1>2. ASSUME NEW w \in Stopper, CallStop(w) \/ StopStep(w) \/ Expire(w) PROVE ServerInv'
  <2> USE <1>2 DEF StopStep, CallStop, LockStop, ShutdownReturns, ShutdownExpires, Expire
  <2>1. UNCHANGED <<requestVars, start, baseDone, gone>>
    OBVIOUS
  <2>2. ServerTypeOK'
    BY <2>1
  <2>3. StopPosition'
    BY <2>1 DEF Started
  <2>4. NoEarlyRequest'
    BY <2>1 DEF requestVars
  <2>5. StoppedServesNothing'
    BY <2>1 DEF requestVars, Active
  <2> QED BY <2>2, <2>3, <2>4, <2>5
<1>3. ASSUME NEW q \in Request, AcceptRequest(q) PROVE ServerInv'
  <2>1. UNCHANGED serverVars /\ main' = [main EXCEPT ![q] = "waiting"]
    BY <1>3 DEF AcceptRequest, Accept, MainMoves
  <2>2. /\ server \in {"serving", "shutdown"} /\ \A w \in Stopper : stop[w] # "nil"
        /\ \E s \in Starter : start[s] \in {"serving", "returned", "failed"}
    BY <1>3 DEF AcceptRequest
  <2> QED BY <2>1, <2>2 DEF serverVars, Started
<1>4. ASSUME NEW q \in Request, ServeRequest(q) \/ ClientLeaves(q) \/ CancelByBase(q)
      PROVE  ServerInv'
  <2>1. UNCHANGED <<listener, server, stopRequested, start, stop, expired, baseDone>>
    BY <1>4 DEF ServeRequest, ClientLeaves, CancelByBase, serverVars
  <2>2. gone' = gone \/ gone' = gone \union {q}
    BY <1>4 DEF ServeRequest, ClientLeaves, CancelByBase, serverVars
  <2>3. \A r \in Request : (main[r] = "idle" => main'[r] = "idle") /\ (~Active(r) => ~Active(r)')
    BY <1>4, StaysInactive DEF ServeRequest, ClientLeaves, CancelByBase
  <2> QED BY <2>1, <2>2, <2>3 DEF Started
<1>5. ASSUME CancelBase \/ UNCHANGED vars PROVE ServerInv'
  BY <1>5 DEF CancelBase, vars, serverVars, requestVars, Active, Started
<1> QED BY <1>1, <1>2, <1>3, <1>4, <1>5 DEF Next

(* The inductive invariant of the HTTP server.                             *)
THEOREM ServerInvariant == Spec => []ServerInv
<1>1. RequestInv => TypeOK
  BY DEF RequestInv
<1> QED BY <1>1, RequestsInside, ServerInvInit, ServerInvStep, PTL DEF Spec

(* The variables of the server and of its requests keep their types.       *)
THEOREM ServerTypes == Spec => []ServerTypeOK
<1>1. ServerInv => ServerTypeOK
  BY DEF ServerInv
<1> QED BY <1>1, ServerInvariant, PTL

(* Once a Stop has returned nil no request is being served, ever after.    *)
THEOREM StopIsFinal == Spec => []StoppedServesNothing
<1>1. ServerInv => StoppedServesNothing
  BY DEF ServerInv
<1> QED BY <1>1, ServerInvariant, PTL

(* Inside the server, too, the client never gets a mixture of two answers. *)
THEOREM AnswersAreWholeInServer == Spec => []NeverMixed
<1>1. RequestInv => NeverMixed
  BY InvIsWhole
<1> QED BY <1>1, RequestsInside, PTL

=============================================================================
