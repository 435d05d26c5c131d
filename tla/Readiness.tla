------------------------------- MODULE Readiness -------------------------------
(***************************************************************************)
(* Registry of readiness/readiness.go: concurrent calls of Check over the  *)
(* dependencies registered with Add.  Each Check asks every dependency in  *)
(* a goroutine of its own, but never while an earlier checker of the same  *)
(* dependency is still running, and returns at its deadline whatever the   *)
(* checkers do.  Checkers are external: they answer, panic or hang.        *)
(***************************************************************************)
EXTENDS FiniteSets

CONSTANTS
  Dependency,  \* what may be registered, by trimmed name
  Required,    \* those registered as required
  Check        \* calls of Check

ASSUME ReadinessAssumption == Required \subseteq Dependency

VARIABLES
  entries,   \* Registry.entries
  running,   \* checkState.running of each entry
  pc,        \* where each Check is
  snapshot,  \* the entries each Check works on
  pending,   \* its local of that name
  checker,   \* what each Check has done about each dependency
  answer,    \* what was sent on its channel results about each
  expired,   \* its checkCtx is done
  report     \* its Report: the dependencies READY and those NOT_READY

vars == <<entries, running, pc, snapshot, pending, checker, answer, expired, report>>

Answer == {"nil", "error", "panic", "busy"}

TypeOK ==
  /\ entries \subseteq Dependency
  /\ running \in [Dependency -> BOOLEAN]
  /\ pc \in [Check -> {"idle", "asking", "collecting", "returned"}]
  /\ snapshot \in [Check -> SUBSET Dependency]
  /\ pending \in [Check -> SUBSET Dependency]
  /\ checker \in [Check -> [Dependency -> {"none", "running", "sent", "over"}]]
  /\ answer \in [Check -> [Dependency -> Answer \union {"none"}]]
  /\ expired \in [Check -> BOOLEAN]
  /\ report \in [Check -> [Dependency -> {"none", "READY", "NOT_READY"}]]

Init ==
  /\ entries = {}
  /\ running = [d \in Dependency |-> FALSE]
  /\ pc = [c \in Check |-> "idle"]
  /\ snapshot = [c \in Check |-> {}]
  /\ pending = [c \in Check |-> {}]
  /\ checker = [c \in Check |-> [d \in Dependency |-> "none"]]
  /\ answer = [c \in Check |-> [d \in Dependency |-> "none"]]
  /\ expired = [c \in Check |-> FALSE]
  /\ report = [c \in Check |-> [d \in Dependency |-> "none"]]

(* Entries Check has still to ask, and results in its channel.  The code   *)
(* asks in name order and the channel keeps its order: the report depends  *)
(* on neither.                                                             *)
ToAsk(c)  == {d \in snapshot[c] : checker[c][d] = "none" /\ answer[c][d] = "none"}
Queued(c) == {d \in pending[c] : answer[c][d] # "none"}

(* Where Check is when it has still to ask about deps.                     *)
AskingOr(deps) == IF deps = {} THEN "collecting" ELSE "asking"

-----------------------------------------------------------------------------
Add(d) ==
  /\ d \notin entries
  /\ entries' = entries \union {d}
  /\ UNCHANGED <<running, pc, snapshot, pending, checker, answer, expired, report>>

BeginCheck(c) ==
  /\ pc[c] = "idle"
  /\ snapshot' = [snapshot EXCEPT ![c] = entries]
  /\ pending' = [pending EXCEPT ![c] = entries]
  /\ pc' = [pc EXCEPT ![c] = AskingOr(entries)]
  /\ UNCHANGED <<entries, running, checker, answer, expired, report>>

(* Mutant: begin does not look whether a checker is running.               *)
AskRegardless(c, d) ==
  /\ pc[c] = "asking"
  /\ d \in ToAsk(c)
  /\ running' = [running EXCEPT ![d] = TRUE]
  /\ checker' = [checker EXCEPT ![c][d] = "running"]
  /\ pc' = [pc EXCEPT ![c] = AskingOr(ToAsk(c) \ {d})]
  /\ UNCHANGED <<answer, entries, snapshot, pending, expired, report>>

(* begin: spawn a checker, or answer errCheckInProgress at once.           *)
Ask(c, d) ==
  /\ pc[c] = "asking"
  /\ d \in ToAsk(c)
  /\ running' = [running EXCEPT ![d] = TRUE]
  /\ \/ /\ ~running[d]
        /\ checker' = [checker EXCEPT ![c][d] = "running"]
        /\ UNCHANGED answer
     \/ /\ running[d]
        /\ answer' = [answer EXCEPT ![c][d] = "busy"]
        /\ UNCHANGED checker
  /\ pc' = [pc EXCEPT ![c] = AskingOr(ToAsk(c) \ {d})]
  /\ UNCHANGED <<entries, snapshot, pending, expired, report>>

(* The checker returns or panics, and its result is sent: the channel has  *)
(* room for every entry, also when Check has returned long ago.            *)
Answers(c, d, err) ==
  /\ checker[c][d] = "running"
  /\ checker' = [checker EXCEPT ![c][d] = "sent"]
  /\ answer' = [answer EXCEPT ![c][d] = err]
  /\ UNCHANGED <<entries, running, pc, snapshot, pending, expired, report>>

(* Mutant: finish is not deferred, and a panic skips it.                   *)
FinishUnlessPanic(c, d) ==
  /\ checker[c][d] = "sent"
  /\ answer[c][d] # "panic"
  /\ checker' = [checker EXCEPT ![c][d] = "over"]
  /\ running' = [running EXCEPT ![d] = FALSE]
  /\ UNCHANGED <<entries, pc, snapshot, pending, answer, expired, report>>

(* The deferred finish.                                                    *)
Finish(c, d) ==
  /\ checker[c][d] = "sent"
  /\ checker' = [checker EXCEPT ![c][d] = "over"]
  /\ running' = [running EXCEPT ![d] = FALSE]
  /\ UNCHANGED <<entries, pc, snapshot, pending, answer, expired, report>>

(* Mutant: the error itself is reported as the status.                     *)
CollectRaw(c, d) ==
  /\ pc[c] = "collecting"
  /\ d \in Queued(c)
  /\ pending' = [pending EXCEPT ![c] = @ \ {d}]
  /\ report' = [report EXCEPT ![c][d] = IF answer[c][d] = "nil" THEN "READY" ELSE answer[c][d]]
  /\ UNCHANGED <<entries, running, pc, snapshot, checker, answer, expired>>

(* addResult for one result of the channel.                                *)
Collect(c, d) ==
  /\ pc[c] = "collecting"
  /\ d \in Queued(c)
  /\ pending' = [pending EXCEPT ![c] = @ \ {d}]
  /\ report' = [report EXCEPT ![c][d] = IF answer[c][d] = "nil" THEN "READY" ELSE "NOT_READY"]
  /\ UNCHANGED <<entries, running, pc, snapshot, checker, answer, expired>>

(* Mutants: the deadline reports nothing about what is pending; it is not  *)
(* looked at while a checker is silent.                                    *)
CutOffSilently(c) ==
  /\ pc[c] = "collecting"
  /\ pending[c] # {}
  /\ expired[c]
  /\ pc' = [pc EXCEPT ![c] = "returned"]
  /\ UNCHANGED <<entries, running, snapshot, pending, checker, answer, expired, report>>
CutOffLate(c) ==
  /\ pc[c] = "collecting"
  /\ pending[c] # {} /\ Queued(c) = pending[c]
  /\ expired[c]
  /\ report' = [report EXCEPT ![c] =
                  [d \in Dependency |-> IF d \in pending[c] THEN "NOT_READY" ELSE @[d]]]
  /\ pc' = [pc EXCEPT ![c] = "returned"]
  /\ UNCHANGED <<entries, running, snapshot, pending, checker, answer, expired>>

(* Case <-checkCtx.Done(): everything pending is NOT_READY, a result that  *)
(* is in the channel included.                                             *)
CutOff(c) ==
  /\ pc[c] = "collecting"
  /\ pending[c] # {}
  /\ expired[c]
  /\ report' = [report EXCEPT ![c] =
                  [d \in Dependency |-> IF d \in pending[c] THEN "NOT_READY" ELSE @[d]]]
  /\ pc' = [pc EXCEPT ![c] = "returned"]
  /\ UNCHANGED <<entries, running, snapshot, pending, checker, answer, expired>>

Collected(c) ==
  /\ pc[c] = "collecting"
  /\ pending[c] = {}
  /\ pc' = [pc EXCEPT ![c] = "returned"]
  /\ UNCHANGED <<entries, running, snapshot, pending, checker, answer, expired, report>>

(* The registry's timeout passes, or the request's context is cancelled.   *)
Expire(c) ==
  /\ pc[c] \in {"asking", "collecting"}
  /\ ~expired[c]
  /\ expired' = [expired EXCEPT ![c] = TRUE]
  /\ UNCHANGED <<entries, running, pc, snapshot, pending, checker, answer, report>>

-----------------------------------------------------------------------------
CheckStep(c) ==
  \/ BeginCheck(c) \/ CutOff(c) \/ Collected(c)
  \/ \E d \in Dependency : Ask(c, d) \/ Collect(c, d)

Next ==
  \/ \E d \in Dependency : Add(d)
  \/ \E c \in Check :
       \/ CheckStep(c) \/ Expire(c)
       \/ \E d \in Dependency : Finish(c, d) \/ \E err \in Answer \ {"busy"} : Answers(c, d, err)

(* Goroutines are scheduled and the deadline passes; checkers may hang.    *)
Fairness ==
  \A c \in Check :
    /\ WF_vars(pc[c] # "idle" /\ CheckStep(c))
    /\ WF_vars(Expire(c))
    /\ \A d \in Dependency : WF_vars(Finish(c, d))

Spec == Init /\ [][Next]_vars /\ Fairness

-----------------------------------------------------------------------------
(* Report.Ready.                                                           *)
Ready(c) == pc[c] = "returned" /\ \A d \in Required : report[c][d] # "NOT_READY"

(* A stuck checker is never joined by a second one, however often Check is *)
(* called (begin, readiness.go:44-52).                                     *)
OneChecker ==
  \A b, c \in Check, d \in Dependency :
    (checker[b][d] = "running" /\ checker[c][d] = "running") => b = c

(* Check reports on every entry registered when it began; what it calls    *)
(* READY has answered nil to this very call; and it calls the process      *)
(* ready only if every required entry has.                                 *)
HonestReport ==
  \A c \in Check : pc[c] = "returned" =>
    /\ \A d \in Dependency :
         /\ report[c][d] # "none" <=> d \in snapshot[c]
         /\ report[c][d] = "READY" => answer[c][d] = "nil"
    /\ Ready(c) => \A d \in Required \intersect snapshot[c] : answer[c][d] = "nil"

(* A Check returns although checkers hang.                                 *)
CheckReturns == \A c \in Check : (pc[c] # "idle") ~> (pc[c] = "returned")

(* A dependency is not busy for ever: when no checker of it runs, the next *)
(* Check may ask it again.                                                 *)
BusyEnds ==
  \A d \in Dependency :
    (running[d] /\ \A c \in Check : checker[c][d] # "running")
      ~> (~running[d] \/ \E c \in Check : checker[c][d] = "running")

(* The inductive invariant: running is set exactly while one goroutine is  *)
(* between begin and finish, and a report grows out of answers.            *)
RunningIsOne ==
  /\ \A b, c \in Check, d \in Dependency :
       (checker[b][d] \in {"running", "sent"} /\ checker[c][d] \in {"running", "sent"}) => b = c
  /\ \A c \in Check, d \in Dependency :
       checker[c][d] \in {"running", "sent"} => running[d]

ReportGrows ==
  \A c \in Check, d \in Dependency :
    /\ pc[c] = "idle" => snapshot[c] = {} /\ pending[c] = {}
    /\ checker[c][d] = "running" => answer[c][d] = "none"
    /\ pending[c] \subseteq snapshot[c]
    /\ (d \notin snapshot[c] \/ (d \in pending[c] /\ pc[c] # "returned")) => report[c][d] = "none"
    /\ (d \in snapshot[c] \ pending[c] \/ (d \in snapshot[c] /\ pc[c] = "returned"))
         => report[c][d] # "none"
    /\ report[c][d] = "READY" => answer[c][d] = "nil"

ReadinessInv == TypeOK /\ RunningIsOne /\ ReportGrows

=============================================================================
