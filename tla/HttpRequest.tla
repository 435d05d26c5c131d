------------------------------ MODULE HttpRequest ------------------------------
(***************************************************************************)
(* One HTTP request through the default chain of server/httpx/server.go:   *)
(* metrics, access log, timeout, recovery, handler.  The timeout           *)
(* middleware runs what is inside it in a goroutine of its own, on a       *)
(* buffered writer, and stops listening when the request's context is      *)
(* done; that goroutine lives on for as long as the handler likes, and     *)
(* shares with the request the buffer and the metrics observer.            *)
(***************************************************************************)
CONSTANTS
  Request,
  Answer     \* how handlers answer

ASSUME AnswerAssumption == Answer \subseteq {"success", "failure"}

VARIABLES
  main,      \* the goroutine net/http runs the chain in
  ctx,       \* the context the timeout middleware gives the request
  handler,   \* the goroutine of the timeout middleware
  reply,     \* the answer it is writing, or has written last
  given,     \* the answers it has begun: a history, for the properties
  header,    \* recovery's writer: the status first written through it
  buffer,    \* bufferWriter: status and body written so far
  timedOut,  \* bufferWriter.timedOut
  wire,      \* what has been written to the connection: status and body
  code,      \* statusRecorder.businessCode
  recorded   \* status and business code counted by the metrics

answerVars == <<reply, given>>
handlerVars == <<handler, answerVars, header, buffer>>
requestVars == <<main, ctx, handlerVars, timedOut, wire, code, recorded>>

(* Answers, standing for their HTTP status and business code: a success, a *)
(* business error, the error of a panic and that of a timeout.  A body is  *)
(* the set of answers whose envelopes it holds.                            *)
Reply == {"success", "failure", "internal", "timeout"}
Nothing == [status |-> "none", body |-> {}]
Written == [status : Reply \union {"none"}, body : SUBSET Reply]
Whole(a) == [status |-> a, body |-> {a}]
Uncounted == [status |-> "none", code |-> "none"]
Count == [status : Reply, code : Reply]

MainState == {"idle", "waiting", "timingOut", "timeoutCoded", "answered", "done"}
HandlerState == {"none", "running", "coded", "headed", "written", "finished"}

TypeOK ==
  /\ main \in [Request -> MainState]
  /\ ctx \in [Request -> {"live", "deadline", "cancelled"}]
  /\ handler \in [Request -> HandlerState]
  /\ reply \in [Request -> Reply \union {"none"}]
  /\ given \in [Request -> SUBSET Reply]
  /\ header \in [Request -> Reply \union {"none"}]
  /\ buffer \in [Request -> Written]
  /\ timedOut \in [Request -> BOOLEAN]
  /\ wire \in [Request -> Written]
  /\ code \in [Request -> Reply]
  /\ recorded \in [Request -> Count \union {Uncounted}]

(* statusRecorder starts with status 200 and business code 0.              *)
Init ==
  /\ main = [r \in Request |-> "idle"]
  /\ ctx = [r \in Request |-> "live"]
  /\ handler = [r \in Request |-> "none"]
  /\ reply = [r \in Request |-> "none"]
  /\ given = [r \in Request |-> {}]
  /\ header = [r \in Request |-> "none"]
  /\ buffer = [r \in Request |-> Nothing]
  /\ timedOut = [r \in Request |-> FALSE]
  /\ wire = [r \in Request |-> Nothing]
  /\ code = [r \in Request |-> "success"]
  /\ recorded = [r \in Request |-> Uncounted]

(* A status never written is sent and recorded as 200.                     *)
OrOK(status) == IF status = "none" THEN "success" ELSE status

(* SetBusinessCode, which the snapshot of the metrics finalises.           *)
SetBusinessCode(r, c) ==
  code' = IF main[r] = "done" THEN code ELSE [code EXCEPT ![r] = c]

MainMoves(r, from, to) == main[r] = from /\ main' = [main EXCEPT ![r] = to]
HandlerMoves(r, from, to) == handler[r] \in from /\ handler' = [handler EXCEPT ![r] = to]

-----------------------------------------------------------------------------
(* The handler's goroutine, recovery included.                             *)

(* The next answer, to a request that may have had one or half of one.     *)
Begin(r, a) ==
  /\ reply' = [reply EXCEPT ![r] = a]
  /\ given' = [given EXCEPT ![r] = @ \union {a}]

(* response.Success or response.Error: first the business code.  A handler *)
(* may respond again, say because its first answer could not be encoded.   *)
Respond(r, a) ==
  /\ reply[r] # "internal"
  /\ HandlerMoves(r, {"running", "headed", "written"}, "coded")
  /\ Begin(r, a)
  /\ SetBusinessCode(r, a)
  /\ UNCHANGED <<main, ctx, header, buffer, timedOut, wire, recorded>>

(* Mutant: the recovered error does not reach the observer.                *)
PanicUnobserved(r) ==
  /\ reply[r] # "internal" /\ header[r] = "none"
  /\ HandlerMoves(r, {"running", "coded"}, "coded")
  /\ Begin(r, "internal")
  /\ UNCHANGED <<main, ctx, header, buffer, timedOut, wire, code, recorded>>

(* The handler panics before it has written a status: recovery responds.   *)
Panic(r) ==
  /\ reply[r] # "internal" /\ header[r] = "none"
  /\ HandlerMoves(r, {"running", "coded"}, "coded")
  /\ Begin(r, "internal")
  /\ SetBusinessCode(r, "internal")
  /\ UNCHANGED <<main, ctx, header, buffer, timedOut, wire, recorded>>

(* Mutant: WriteHeader does not look at timedOut.                          *)
WriteHeaderLate(r) ==
  /\ HandlerMoves(r, {"coded"}, "headed")
  /\ header' = [header EXCEPT ![r] = IF @ = "none" THEN reply[r] ELSE @]
  /\ buffer' = IF header[r] # "none" \/ buffer[r].status # "none" THEN buffer
               ELSE [buffer EXCEPT ![r].status = reply[r]]
  /\ UNCHANGED <<main, ctx, answerVars, timedOut, wire, code, recorded>>

(* Through recovery's writer to the buffer: in both the first status stays. *)
WriteHeader(r) ==
  /\ HandlerMoves(r, {"coded"}, "headed")
  /\ header' = [header EXCEPT ![r] = IF @ = "none" THEN reply[r] ELSE @]
  /\ buffer' = IF header[r] # "none" \/ timedOut[r] \/ buffer[r].status # "none" THEN buffer
               ELSE [buffer EXCEPT ![r].status = reply[r]]
  /\ UNCHANGED <<main, ctx, answerVars, timedOut, wire, code, recorded>>

Write(r) ==
  /\ HandlerMoves(r, {"headed"}, "written")
  /\ buffer' = IF timedOut[r] THEN buffer
               ELSE [buffer EXCEPT ![r].body = @ \union {reply[r]}]
  /\ UNCHANGED <<main, ctx, answerVars, header, timedOut, wire, code, recorded>>

(* It returns, without a response or with half of one if it likes; a panic *)
(* after the status was written is swallowed by recovery.                  *)
Finish(r) ==
  /\ handler[r] = "coded" => header[r] # "none"
  /\ HandlerMoves(r, {"running", "coded", "headed", "written"}, "finished")
  /\ UNCHANGED <<main, ctx, answerVars, header, buffer, timedOut, wire, code, recorded>>

-----------------------------------------------------------------------------
(* The request's goroutine: the select of the timeout middleware and the   *)
(* way back through access log and metrics.                                *)

Accept(r) ==
  /\ MainMoves(r, "idle", "waiting")
  /\ handler' = [handler EXCEPT ![r] = "running"]
  /\ UNCHANGED <<ctx, answerVars, header, buffer, timedOut, wire, code, recorded>>

(* Case result := <-finished: commit.                                      *)
Commit(r) ==
  /\ handler[r] = "finished"
  /\ MainMoves(r, "waiting", "answered")
  /\ wire' = [wire EXCEPT ![r] =
                [status |-> OrOK(buffer[r].status), body |-> buffer[r].body]]
  /\ UNCHANGED <<ctx, handlerVars, timedOut, code, recorded>>

(* Mutants: the deadline commits what the buffer holds; the select has no  *)
(* case for the context.                                                   *)
SeeDeadlineCommits(r) ==
  /\ ctx[r] = "deadline"
  /\ MainMoves(r, "waiting", "answered")
  /\ wire' = [wire EXCEPT ![r] =
                [status |-> OrOK(buffer[r].status), body |-> buffer[r].body]]
  /\ UNCHANGED <<ctx, handlerVars, timedOut, code, recorded>>
SeeDeadlineNever(r) ==
  /\ ctx[r] = "deadline"
  /\ handler[r] = "finished"
  /\ MainMoves(r, "waiting", "timingOut")
  /\ timedOut' = [timedOut EXCEPT ![r] = TRUE]
  /\ UNCHANGED <<ctx, handlerVars, wire, code, recorded>>

(* Case <-ctx.Done() at the deadline.                                      *)
SeeDeadline(r) ==
  /\ ctx[r] = "deadline"
  /\ MainMoves(r, "waiting", "timingOut")
  /\ timedOut' = [timedOut EXCEPT ![r] = TRUE]
  /\ UNCHANGED <<ctx, handlerVars, wire, code, recorded>>

(* response.Error of the timeout: the business code, then the response.    *)
TimeoutCode(r) ==
  /\ MainMoves(r, "timingOut", "timeoutCoded")
  /\ SetBusinessCode(r, "timeout")
  /\ UNCHANGED <<ctx, handlerVars, timedOut, wire, recorded>>

TimeoutRespond(r) ==
  /\ MainMoves(r, "timeoutCoded", "answered")
  /\ wire' = [wire EXCEPT ![r] = Whole("timeout")]
  /\ UNCHANGED <<ctx, handlerVars, timedOut, code, recorded>>

(* Case <-ctx.Done() otherwise: nothing is written, and net/http answers   *)
(* an empty 200 if the client is still there.                              *)
SeeCancelled(r) ==
  /\ ctx[r] = "cancelled"
  /\ MainMoves(r, "waiting", "answered")
  /\ timedOut' = [timedOut EXCEPT ![r] = TRUE]
  /\ UNCHANGED <<ctx, handlerVars, wire, code, recorded>>

(* Mutant: the recorder starts without a status.                           *)
ObserveUnset(r) ==
  /\ MainMoves(r, "answered", "done")
  /\ recorded' = [recorded EXCEPT ![r] = [status |-> wire[r].status, code |-> code[r]]]
  /\ UNCHANGED <<ctx, handlerVars, timedOut, wire, code>>

(* The metrics take their snapshot and the chain returns to net/http.      *)
Observe(r) ==
  /\ MainMoves(r, "answered", "done")
  /\ recorded' = [recorded EXCEPT ![r] =
                    [status |-> OrOK(wire[r].status), code |-> code[r]]]
  /\ UNCHANGED <<ctx, handlerVars, timedOut, wire, code>>

-----------------------------------------------------------------------------
(* The request's timeout passes; its parent is cancelled, by a client that *)
(* goes away or with the server's base context.                            *)
DeadlinePasses(r) ==
  /\ main[r] = "waiting" /\ ctx[r] = "live"
  /\ ctx' = [ctx EXCEPT ![r] = "deadline"]
  /\ UNCHANGED <<main, handlerVars, timedOut, wire, code, recorded>>

CancelRequest(r) ==
  /\ main[r] = "waiting" /\ ctx[r] = "live"
  /\ ctx' = [ctx EXCEPT ![r] = "cancelled"]
  /\ UNCHANGED <<main, handlerVars, timedOut, wire, code, recorded>>

MainStep(r) ==
  \/ Commit(r) \/ SeeDeadline(r) \/ TimeoutCode(r) \/ TimeoutRespond(r)
  \/ SeeCancelled(r) \/ Observe(r)

HandlerStep(r) ==
  \/ \E a \in Answer : Respond(r, a)
  \/ Panic(r) \/ WriteHeader(r) \/ Write(r) \/ Finish(r)

RequestNext ==
  \E r \in Request :
    Accept(r) \/ MainStep(r) \/ HandlerStep(r) \/ DeadlinePasses(r) \/ CancelRequest(r)

(* The request's goroutine is scheduled and the timer fires; the handler   *)
(* may hang.                                                               *)
RequestFairness ==
  \A r \in Request : WF_requestVars(MainStep(r)) /\ WF_requestVars(DeadlinePasses(r))

RequestSpec == Init /\ [][RequestNext]_requestVars /\ RequestFairness

-----------------------------------------------------------------------------
(* The connection carries the timeout response, whole, or what the handler *)
(* had buffered when it finished: never half of a response still being     *)
(* written, never the timeout's or a panic's with some of another, and     *)
(* never the status of one and the body of another but for a handler that  *)
(* has responded in different ways itself.                                 *)
NeverMixed ==
  \A r \in Request : wire[r] # Nothing =>
    \/ wire[r] = Whole("timeout")
    \/ /\ handler[r] = "finished" /\ ~timedOut[r]
       /\ wire[r] = [status |-> OrOK(buffer[r].status), body |-> buffer[r].body]
       /\ "timeout" \notin wire[r].body
       /\ "internal" \in wire[r].body => wire[r] = Whole("internal")
       /\ \A a \in Reply : given[r] = {a} => wire[r].status = a /\ wire[r].body \subseteq {a}

(* What a late handler writes is refused: once the middleware has stopped  *)
(* listening the buffer does not change, and an answer is never replaced.  *)
RefusesLateWrites ==
  \A r \in Request :
    /\ timedOut[r] => buffer'[r] = buffer[r]
    /\ wire[r] # Nothing => wire'[r] = wire[r]
LateWritesRefused == [][RefusesLateWrites]_requestVars

(* When what the handler wrote is sent, the metrics count its status with  *)
(* the business code of the last answer it began, panics included: for a   *)
(* handler that responds in one way, the status and the code of its answer. *)
MetricsMatchAnswer ==
  \A r \in Request :
    (recorded[r] # Uncounted /\ wire[r] # Nothing /\ ~timedOut[r]) =>
      /\ recorded[r] = [status |-> wire[r].status, code |-> OrOK(reply[r])]
      /\ \A a \in Reply : given[r] = {a} => recorded[r] = [status |-> a, code |-> a]

(* A request is answered although its handler hangs.                       *)
RequestEnds == \A r \in Request : (main[r] = "waiting") ~> (main[r] = "done")

-----------------------------------------------------------------------------
(* The inductive invariant of a request: who may still write what.         *)
AnswerPosition(r) ==
  /\ main[r] = "idle" => handler[r] = "none"
  /\ main[r] \in {"idle", "waiting"} => ~timedOut[r]
  /\ main[r] \in {"idle", "waiting", "timingOut", "timeoutCoded"} => wire[r] = Nothing
  /\ main[r] \in {"timingOut", "timeoutCoded"} => timedOut[r]
  /\ main[r] \in {"answered", "done"} /\ ~timedOut[r] => handler[r] = "finished"
  /\ wire[r] # Nothing /\ timedOut[r] => wire[r] = Whole("timeout")
  /\ wire[r] # Nothing /\ ~timedOut[r] =>
       /\ handler[r] = "finished"
       /\ wire[r] = [status |-> OrOK(buffer[r].status), body |-> buffer[r].body]

(* What the handler has begun: a panic's answer is its last, and the only  *)
(* one in the buffer.                                                      *)
GivenPosition(r) ==
  /\ handler[r] \in {"none", "running"} => given[r] = {}
  /\ handler[r] = "coded" => given[r] # {}
  /\ handler[r] \in {"headed", "written"} => header[r] # "none"
  /\ handler[r] = "finished" /\ given[r] # {} => header[r] # "none"
  /\ IF given[r] = {} THEN reply[r] = "none" ELSE reply[r] \in given[r]
  /\ header[r] \in given[r] \union {"none"}
  /\ "timeout" \notin given[r]
  /\ "internal" \in given[r] =>
       /\ reply[r] = "internal"
       /\ header[r] \in {"none", "internal"}
       /\ buffer[r].body \subseteq {"internal"}

BufferPosition(r) ==
  /\ header[r] = "none" => buffer[r] = Nothing
  /\ buffer[r].status \in {"none", header[r]}
  /\ buffer[r].body \subseteq given[r]
  /\ ~timedOut[r] => buffer[r].status = header[r]

(* Until the middleware stops listening, the code is that of the reply.    *)
CodePosition(r) ==
  /\ ~timedOut[r] => code[r] = OrOK(reply[r])
  /\ recorded[r] = Uncounted <=> main[r] # "done"
  /\ recorded[r] # Uncounted /\ wire[r] # Nothing /\ ~timedOut[r]
       => recorded[r] = [status |-> wire[r].status, code |-> code[r]]

Position(r) == AnswerPosition(r) /\ GivenPosition(r) /\ BufferPosition(r) /\ CodePosition(r)

RequestInv == TypeOK /\ \A r \in Request : Position(r)

=============================================================================
