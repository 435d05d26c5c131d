--------------------------- MODULE ActivityTracker ---------------------------
(***************************************************************************)
(* activityTracker of server/grpcx/interceptors.go: the lock-free gate     *)
(* every RPC passes on its way to its handler, and that Stop closes and    *)
(* waits on.  Each atomic load, store and add, and each channel operation, *)
(* is a step of its own.                                                   *)
(***************************************************************************)
EXTENDS Integers, FiniteSets

CONSTANTS
  Request,   \* RPCs: the goroutines that call enter and leave
  Waiter     \* goroutines of Server.Stop: they call startDraining and wait

ASSUME TrackerAssumption == IsFiniteSet(Request)

VARIABLES
  draining,  \* activityTracker.draining
  active,    \* activityTracker.active
  changed,   \* activityTracker.changed holds its one token
  req,       \* where each RPC is
  waiter,    \* where each Stop is
  expired    \* each Stop's context is done

trackerVars == <<draining, active, changed, req, waiter, expired>>

RequestState ==
  {"idle",        \* has not called enter
   "checked",     \* enter: saw draining false
   "counted",     \* enter: has added itself to active
   "backoff",     \* enter: saw draining true after counting itself
   "backoffNotify", \* enter: has subtracted itself, is about to notify
   "admitted",    \* enter returned true: the handler runs
   "leaveNotify", \* leave: has subtracted itself, is about to notify
   "refused",     \* enter returned false: Unavailable
   "done"}        \* leave returned

WaiterState ==
  {"idle", "notifying", "loading", "blocked", "drained", "timedOut"}

TypeOK ==
  /\ draining \in BOOLEAN
  /\ active \in Nat
  /\ changed \in BOOLEAN
  /\ req \in [Request -> RequestState]
  /\ waiter \in [Waiter -> WaiterState]
  /\ expired \in [Waiter -> BOOLEAN]

Init ==
  /\ draining = FALSE
  /\ active = 0
  /\ changed = FALSE
  /\ req = [r \in Request |-> "idle"]
  /\ waiter = [w \in Waiter |-> "idle"]
  /\ expired = [w \in Waiter |-> FALSE]

Move(r, from, to) == req[r] = from /\ req' = [req EXCEPT ![r] = to]
Step(w, from, to) == waiter[w] = from /\ waiter' = [waiter EXCEPT ![w] = to]

-----------------------------------------------------------------------------
(* enter                                                                   *)

(* Mutant: the deferred leave also runs for an RPC refused at once.        *)
FirstCheckUncounted(r) ==
  /\ Move(r, "idle", IF draining THEN "backoff" ELSE "checked")
  /\ UNCHANGED <<draining, active, changed, waiter, expired>>

FirstCheck(r) ==
  /\ Move(r, "idle", IF draining THEN "refused" ELSE "checked")
  /\ UNCHANGED <<draining, active, changed, waiter, expired>>

CountIn(r) ==
  /\ Move(r, "checked", "counted")
  /\ active' = active + 1
  /\ UNCHANGED <<draining, changed, waiter, expired>>

(* Mutant: enter does not look at draining again.                          *)
SecondCheckDropped(r) ==
  /\ Move(r, "counted", "admitted")
  /\ UNCHANGED <<draining, active, changed, waiter, expired>>

SecondCheck(r) ==
  /\ Move(r, "counted", IF draining THEN "backoff" ELSE "admitted")
  /\ UNCHANGED <<draining, active, changed, waiter, expired>>

(* Mutant: the refused RPC does not notify.                                *)
BackOffSilently(r) ==
  /\ Move(r, "backoff", "refused")
  /\ active' = active - 1
  /\ UNCHANGED <<draining, changed, waiter, expired>>

BackOff(r) ==
  /\ Move(r, "backoff", "backoffNotify")
  /\ active' = active - 1
  /\ UNCHANGED <<draining, changed, waiter, expired>>

(* leave: the handler has returned or panicked.                            *)
CountOut(r) ==
  /\ Move(r, "admitted", "leaveNotify")
  /\ active' = active - 1
  /\ UNCHANGED <<draining, changed, waiter, expired>>

(* notify: a send that a full channel drops.                               *)
Notify(r) ==
  /\ \/ Move(r, "backoffNotify", "refused")
     \/ Move(r, "leaveNotify", "done")
  /\ changed' = TRUE
  /\ UNCHANGED <<draining, active, waiter, expired>>

-----------------------------------------------------------------------------
(* startDraining and wait                                                  *)

StoreDraining(w) ==
  /\ Step(w, "idle", "notifying")
  /\ draining' = TRUE
  /\ UNCHANGED <<active, changed, req, expired>>

NotifyDraining(w) ==
  /\ Step(w, "notifying", "loading")
  /\ changed' = TRUE
  /\ UNCHANGED <<draining, active, req, expired>>

(* Mutant: wait trusts the token and returns without loading active again. *)
WakeDrained(w) ==
  /\ Step(w, "blocked", "drained")
  /\ changed
  /\ changed' = FALSE
  /\ UNCHANGED <<draining, active, req, expired>>

LoadActive(w) ==
  /\ Step(w, "loading", IF active = 0 THEN "drained" ELSE "blocked")
  /\ UNCHANGED <<draining, active, changed, req, expired>>

Wake(w) ==
  /\ Step(w, "blocked", "loading")
  /\ changed
  /\ changed' = FALSE
  /\ UNCHANGED <<draining, active, req, expired>>

TimeOut(w) ==
  /\ Step(w, "blocked", "timedOut")
  /\ expired[w]
  /\ UNCHANGED <<draining, active, changed, req, expired>>

(* The environment: the shutdown deadline passes.                          *)
Expire(w) ==
  /\ ~expired[w]
  /\ expired' = [expired EXCEPT ![w] = TRUE]
  /\ UNCHANGED <<draining, active, changed, req, waiter>>

-----------------------------------------------------------------------------
EnterStep(r) == FirstCheck(r) \/ CountIn(r) \/ SecondCheck(r) \/ BackOff(r)
WaitStep(w) == StoreDraining(w) \/ NotifyDraining(w) \/ LoadActive(w) \/ Wake(w) \/ TimeOut(w)

TrackerNext ==
  \/ \E r \in Request : EnterStep(r) \/ CountOut(r) \/ Notify(r)
  \/ \E w \in Waiter : WaitStep(w) \/ Expire(w)

(* Goroutines inside enter, notify and wait are scheduled.  Handlers may   *)
(* run for ever, RPCs need not arrive, Stop need not be called and the     *)
(* deadline need not pass.                                                 *)
TrackerFairness ==
  /\ \A r \in Request :
       WF_trackerVars(CountIn(r) \/ SecondCheck(r) \/ BackOff(r) \/ Notify(r))
  /\ \A w \in Waiter :
       WF_trackerVars(NotifyDraining(w) \/ LoadActive(w) \/ Wake(w) \/ TimeOut(w))

TrackerSpec == Init /\ [][TrackerNext]_trackerVars /\ TrackerFairness

-----------------------------------------------------------------------------
(* RPCs that active counts.                                                *)
Counted == {r \in Request : req[r] \in {"counted", "backoff", "admitted"}}

(* Once wait has returned nil, no handler is running and none will ever    *)
(* run: Stop may go on to GracefulStop (server.go:205-210).                *)
DrainedMeansIdle ==
  (\E w \in Waiter : waiter[w] = "drained") =>
     \A r \in Request : req[r] # "admitted"

(* No wake-up is lost: while the one Stop sleeps on a tracker that has     *)
(* become idle, a token is in the channel or about to be put there.        *)
NoLostWakeup ==
  \A w \in Waiter :
    (waiter[w] = "blocked" /\ active = 0) =>
       changed \/ \E r \in Request : req[r] \in {"backoffNotify", "leaveNotify"}

(* When no handler is left, Stop notices without the help of the deadline. *)
DrainNoticed ==
  \A w \in Waiter :
    (waiter[w] # "idle" /\ \A r \in Request : req[r] # "admitted")
      ~> (waiter[w] \in {"drained", "timedOut"})

(* The lock-free gate implements the abstract one: an RPC is inside from   *)
(* its second look at draining until it has subtracted itself.             *)
Gate == INSTANCE DrainGate WITH
          inside <- {r \in Request : req[r] = "admitted"},
          closed <- draining,
          passed <- {w \in Waiter : waiter[w] = "drained"}

ImplementsGate == Gate!Spec

(* The inductive invariant: the counter counts, and a Stop that has begun  *)
(* has closed the gate.                                                    *)
ActiveCounts == active = Cardinality(Counted)
GateClosed   == \A w \in Waiter : waiter[w] # "idle" => draining
TrackerInv   == TypeOK /\ ActiveCounts /\ GateClosed /\ DrainedMeansIdle

=============================================================================
