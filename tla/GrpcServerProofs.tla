--------------------------- MODULE GrpcServerProofs ---------------------------
(* Proofs about ActivityTracker, and about GrpcServer on top of it, for    *)
(* any finite set of RPCs and any number of callers of Start and Stop.     *)
EXTENDS GrpcServer, FiniteSetTheorems, TLAPS

-------------------------------------------------------------------------------
(* The tracker by itself.                                                  *)

LEMMA CountedFinite == IsFiniteSet(Counted) /\ Cardinality(Counted) \in Nat
  BY TrackerAssumption, FS_Subset, FS_CardinalityType DEF Counted

(* What a step does to the set of counted RPCs.                            *)
LEMMA CountedGrows ==
  ASSUME NEW r \in Request, TypeOK, CountIn(r)
  PROVE  Counted' = Counted \union {r} /\ r \notin Counted
  BY DEF CountIn, Move, Counted, TypeOK, RequestState

LEMMA CountedShrinks ==
  ASSUME NEW r \in Request, TypeOK, BackOff(r) \/ CountOut(r)
  PROVE  Counted' = Counted \ {r} /\ r \in Counted
  BY DEF BackOff, CountOut, Move, Counted, TypeOK, RequestState

LEMMA CountedStays ==
  ASSUME NEW r \in Request, TypeOK, FirstCheck(r) \/ SecondCheck(r) \/ Notify(r)
  PROVE  Counted' = Counted
  BY DEF FirstCheck, SecondCheck, Notify, Move, Counted, TypeOK, RequestState

(* The counter counts, so it is never negative; the gate stays closed; and *)
(* nobody is inside once a Stop has passed.                                *)
LEMMA TrackerStep == TrackerInv /\ [TrackerNext]_trackerVars => TrackerInv'
<1> SUFFICES ASSUME TrackerInv, [TrackerNext]_trackerVars PROVE TrackerInv'
  OBVIOUS
<1> USE DEF TrackerInv, TypeOK, RequestState, WaiterState, GateClosed, DrainedMeansIdle,
            Move, Step
<1>1. ASSUME NEW r \in Request, FirstCheck(r) \/ SecondCheck(r) \/ Notify(r)
      PROVE  TrackerInv'
  <2>1. Counted' = Counted
    BY <1>1, CountedStays
  <2>2. ActiveCounts'
    BY <1>1, <2>1 DEF ActiveCounts, FirstCheck, SecondCheck, Notify
  <2>3. CASE FirstCheck(r) BY <2>2, <2>3 DEF FirstCheck
  <2>4. CASE SecondCheck(r) BY <2>2, <2>4 DEF SecondCheck
  <2>5. CASE Notify(r) BY <2>2, <2>5 DEF Notify
  <2> QED BY <1>1, <2>3, <2>4, <2>5
<1>2. ASSUME NEW r \in Request, CountIn(r) PROVE TrackerInv'
  <2>1. Cardinality(Counted') = Cardinality(Counted) + 1
    BY <1>2, CountedGrows, CountedFinite, FS_AddElement
  <2>2. ActiveCounts'
    BY <1>2, <2>1 DEF ActiveCounts, CountIn
  <2> QED BY <1>2, <2>2 DEF CountIn
<1>3. ASSUME NEW r \in Request, BackOff(r) \/ CountOut(r) PROVE TrackerInv'
  <2>1. Cardinality(Counted') = Cardinality(Counted) - 1 /\ Cardinality(Counted') \in Nat
    BY <1>3, CountedShrinks, CountedFinite, FS_RemoveElement, FS_CardinalityType
  <2>2. active' = active - 1
    BY <1>3 DEF BackOff, CountOut
  <2>3. ActiveCounts' /\ active' \in Nat
    BY <2>1, <2>2 DEF ActiveCounts
  <2>4. CASE BackOff(r) BY <2>3, <2>4 DEF BackOff
  <2>5. CASE CountOut(r) BY <2>3, <2>5 DEF CountOut
  <2> QED BY <1>3, <2>4, <2>5
<1>4. ASSUME NEW w \in Waiter, LoadActive(w) PROVE TrackerInv'
  <2>1. active = 0 => Counted = {}
    BY CountedFinite, FS_EmptySet DEF ActiveCounts
  <2>2. active = 0 => \A r \in Request : req[r] # "admitted"
    BY <2>1 DEF Counted
  <2>3. ActiveCounts'
    BY <1>4 DEF ActiveCounts, Counted, LoadActive
  <2> QED BY <1>4, <2>2, <2>3 DEF LoadActive
<1>5. ASSUME NEW w \in Waiter,
             StoreDraining(w) \/ NotifyDraining(w) \/ Wake(w) \/ TimeOut(w) \/ Expire(w)
      PROVE  TrackerInv'
  <2>1. ActiveCounts'
    BY <1>5 DEF ActiveCounts, Counted, StoreDraining, NotifyDraining, Wake, TimeOut, Expire
  <2>2. CASE StoreDraining(w) BY <2>1, <2>2 DEF StoreDraining
  <2>3. CASE NotifyDraining(w) BY <2>1, <2>3 DEF NotifyDraining
  <2>4. CASE Wake(w) BY <2>1, <2>4 DEF Wake
  <2>5. CASE TimeOut(w) BY <2>1, <2>5 DEF TimeOut
  <2>6. CASE Expire(w) BY <2>1, <2>6 DEF Expire
  <2> QED BY <1>5, <2>2, <2>3, <2>4, <2>5, <2>6
<1>6. CASE UNCHANGED trackerVars
  BY <1>6 DEF trackerVars, ActiveCounts, Counted
<1> QED BY <1>1, <1>2, <1>3, <1>4, <1>5, <1>6 DEF TrackerNext, EnterStep, WaitStep

LEMMA TrackerInit == Init => TrackerInv
<1> SUFFICES ASSUME Init PROVE TrackerInv
  OBVIOUS
<1>1. Counted = {}
  BY DEF Init, Counted
<1>2. ActiveCounts
  BY <1>1, FS_EmptySet DEF Init, ActiveCounts
<1>3. TypeOK
  BY DEF Init, TypeOK, RequestState, WaiterState
<1>4. GateClosed /\ DrainedMeansIdle
  BY DEF Init, GateClosed, DrainedMeansIdle
<1> QED BY <1>2, <1>3, <1>4 DEF TrackerInv

(* The inductive invariant, with the types, holds for any number of RPCs   *)
(* and of concurrent calls of Stop.                                        *)
THEOREM TrackerInvariant == TrackerSpec => []TrackerInv
BY TrackerInit, TrackerStep, PTL DEF TrackerSpec

(* active is never negative and every goroutine is where it can be.        *)
THEOREM TrackerTypes == TrackerSpec => []TypeOK
<1>1. TrackerInv => TypeOK
  BY DEF TrackerInv
<1> QED BY <1>1, TrackerInvariant, PTL

(* No handler runs once a Stop has passed the gate.                        *)
THEOREM DrainIsSafe == TrackerSpec => []DrainedMeansIdle
<1>1. TrackerInv => DrainedMeansIdle
  BY DEF TrackerInv
<1> QED BY <1>1, TrackerInvariant, PTL

(* With the single Stop that App makes, no wake-up is ever lost.  With two *)
(* concurrent calls the statement is false: one may take the other's token. *)
THEOREM WakeupIsNotLost ==
  ASSUME \A v, w \in Waiter : v = w
  PROVE  TrackerSpec => []NoLostWakeup
<1>1. Init => NoLostWakeup
  BY DEF Init, NoLostWakeup
<1>2. TrackerInv /\ NoLostWakeup /\ [TrackerNext]_trackerVars => NoLostWakeup'
  <2> SUFFICES ASSUME TrackerInv, NoLostWakeup, [TrackerNext]_trackerVars PROVE NoLostWakeup'
    OBVIOUS
  <2> USE DEF TrackerInv, TypeOK, RequestState, WaiterState, NoLostWakeup, Move, Step
  <2>1. ASSUME NEW r \in Request, FirstCheck(r) \/ SecondCheck(r) PROVE NoLostWakeup'
    BY <2>1 DEF FirstCheck, SecondCheck
  <2>2. ASSUME NEW r \in Request, CountIn(r) PROVE NoLostWakeup'
    BY <2>2 DEF CountIn
  <2>3. ASSUME NEW r \in Request, BackOff(r) \/ CountOut(r) PROVE NoLostWakeup'
    BY <2>3 DEF BackOff, CountOut
  <2>4. ASSUME NEW r \in Request, Notify(r) PROVE NoLostWakeup'
    BY <2>4 DEF Notify
  <2>5. ASSUME NEW w \in Waiter, WaitStep(w) \/ Expire(w) PROVE NoLostWakeup'
    BY <2>5 DEF WaitStep, StoreDraining, NotifyDraining, LoadActive, Wake, TimeOut, Expire
  <2>6. CASE UNCHANGED trackerVars
    BY <2>6 DEF trackerVars
  <2> QED BY <2>1, <2>2, <2>3, <2>4, <2>5, <2>6 DEF TrackerNext, EnterStep
<1> QED BY <1>1, <1>2, TrackerInvariant, PTL DEF TrackerSpec

(* The steps of the tracker, seen by Stop, are steps of the abstract gate. *)
LEMMA GateStep == TrackerInv /\ [TrackerNext]_trackerVars => [Gate!Next]_(Gate!vars)
<1> SUFFICES ASSUME TrackerInv, [TrackerNext]_trackerVars PROVE [Gate!Next]_(Gate!vars)
  OBVIOUS
<1> DEFINE inside == {r \in Request : req[r] = "admitted"}
           passed == {w \in Waiter : waiter[w] = "drained"}
<1> USE DEF TrackerInv, TypeOK, RequestState, WaiterState, Move, Step, Gate!vars
<1>1. ASSUME NEW r \in Request, FirstCheck(r) \/ CountIn(r) \/ BackOff(r) \/ Notify(r)
      PROVE  UNCHANGED Gate!vars
  <2>1. inside' = inside
    BY <1>1 DEF FirstCheck, CountIn, BackOff, Notify
  <2>2. UNCHANGED <<draining, waiter>>
    BY <1>1 DEF FirstCheck, CountIn, BackOff, Notify
  <2> QED BY <2>1, <2>2
<1>2. ASSUME NEW r \in Request, SecondCheck(r) PROVE [Gate!Next]_(Gate!vars)
  <2>1. UNCHANGED <<draining, passed>>
    BY <1>2 DEF SecondCheck
  <2>2. CASE draining
    <3>1. inside' = inside
      BY <1>2, <2>2 DEF SecondCheck
    <3> QED BY <2>1, <3>1
  <2>3. CASE ~draining
    <3>1. inside' = inside \union {r} /\ r \notin inside
      BY <1>2, <2>3 DEF SecondCheck
    <3>2. Gate!Enter(r)
      BY <2>1, <2>3, <3>1 DEF Gate!Enter
    <3> QED BY <3>2 DEF Gate!Next
  <2> QED BY <2>2, <2>3
<1>3. ASSUME NEW r \in Request, CountOut(r) PROVE [Gate!Next]_(Gate!vars)
  <2>1. inside' = inside \ {r} /\ r \in inside
    BY <1>3 DEF CountOut
  <2>2. UNCHANGED <<draining, passed>>
    BY <1>3 DEF CountOut
  <2>3. Gate!Leave(r)
    BY <2>1, <2>2 DEF Gate!Leave
  <2> QED BY <2>3 DEF Gate!Next
<1>4. ASSUME NEW w \in Waiter, StoreDraining(w) PROVE [Gate!Next]_(Gate!vars)
  <2>1. draining' = TRUE /\ inside' = inside /\ passed' = passed
    BY <1>4 DEF StoreDraining
  <2>2. Gate!Close
    BY <2>1 DEF Gate!Close
  <2> QED BY <2>2 DEF Gate!Next
<1>5. ASSUME NEW w \in Waiter, NotifyDraining(w) \/ Wake(w) \/ TimeOut(w) \/ Expire(w)
      PROVE  UNCHANGED Gate!vars
  <2>1. draining' = draining /\ inside' = inside
    BY <1>5 DEF NotifyDraining, Wake, TimeOut, Expire
  <2>2. passed' = passed
    BY <1>5 DEF NotifyDraining, Wake, TimeOut, Expire
  <2> QED BY <2>1, <2>2
<1>6. ASSUME NEW w \in Waiter, LoadActive(w) PROVE [Gate!Next]_(Gate!vars)
  <2>1. draining' = draining /\ inside' = inside
    BY <1>6 DEF LoadActive
  <2>2. CASE active = 0
    <3>1. Counted = {}
      BY <2>2, CountedFinite, FS_EmptySet DEF ActiveCounts
    <3>2. inside = {} /\ draining
      BY <1>6, <3>1 DEF Counted, LoadActive, GateClosed
    <3>3. passed' = passed \union {w}
      BY <1>6, <2>2 DEF LoadActive
    <3>4. Gate!Pass(w)
      BY <2>1, <3>2, <3>3 DEF Gate!Pass
    <3> QED BY <3>4 DEF Gate!Next
  <2>3. CASE active # 0
    <3>1. passed' = passed
      BY <1>6, <2>3 DEF LoadActive
    <3> QED BY <2>1, <3>1
  <2> QED BY <2>2, <2>3
<1>7. CASE UNCHANGED trackerVars
  BY <1>7 DEF trackerVars
<1> QED BY <1>1, <1>2, <1>3, <1>4, <1>5, <1>6, <1>7 DEF TrackerNext, EnterStep, WaitStep

(* The activity tracker implements the abstract gate.                      *)
THEOREM TrackerImplementsGate == TrackerSpec => ImplementsGate
<1>1. Init => Gate!Init
  BY DEF Init, Gate!Init
<1> QED BY <1>1, GateStep, TrackerInvariant, PTL DEF TrackerSpec, ImplementsGate, Gate!Spec

-------------------------------------------------------------------------------
(* The server.                                                             *)

(* A step of the server is a step of the tracker or leaves it alone: the   *)
(* tracker's invariant holds inside the server.                            *)
LEMMA ServerTracks == Next => [TrackerNext]_trackerVars
BY DEF Next, StartStep, StopStep, RejectStart, RefuseStart, ListenFails, Publish,
       RegisterReturns, RegisterPanics, Serve, ServeReturns, ServeFails, CallStop, LockStop,
       Drain, ForceStop, GracefulStop, GracefulStopReturns, Deadline, Open, Track, Close,
       TrackerNext

LEMMA TrackerInside == Spec => []TrackerInv
<1>1. ServerInit => TrackerInv
  BY TrackerInit DEF ServerInit
<1>2. TrackerInv /\ [Next]_vars => TrackerInv'
  <2>1. UNCHANGED vars => UNCHANGED trackerVars
    BY DEF vars
  <2> QED BY <2>1, ServerTracks, TrackerStep
<1> QED BY <1>1, <1>2, PTL DEF Spec

(* Inside the server, too, no handler runs once a Stop has passed the gate. *)
THEOREM DrainIsSafeInServer == Spec => []DrainedMeansIdle
<1>1. TrackerInv => DrainedMeansIdle
  BY DEF TrackerInv
<1> QED BY <1>1, TrackerInside, PTL

LEMMA ServerInvInit == ServerInit => ServerInv
<1> SUFFICES ASSUME ServerInit PROVE ServerInv
  OBVIOUS
<1>1. ServerTypeOK
  <2>1. TypeOK
    BY TrackerInit DEF ServerInit, TrackerInv
  <2> QED BY <2>1 DEF ServerInit, ServerTypeOK, StartState, StopState
<1>2. StartPosition /\ ListenerPosition /\ StopPosition /\ NoEarlyRPC
  BY ServerAssumption DEF ServerInit, StartPosition, ListenerPosition, StopPosition,
     NoEarlyRPC, ServesOnce, Started
<1> QED BY <1>1, <1>2 DEF ServerInv

(* The tracker has its own invariant; every step keeps the server's.        *)
LEMMA ServerInvStep == ServerInv /\ TrackerInv' /\ [Next]_vars => ServerInv'
<1> SUFFICES ASSUME ServerInv, TrackerInv', [Next]_vars PROVE ServerInv'
  OBVIOUS
<1>0. TypeOK'
  BY DEF TrackerInv
<1> USE ServerAssumption, <1>0 DEF ServerInv, ServerTypeOK, StartState, StopState, StartPosition,
        ListenerPosition, StopPosition, NoEarlyRPC, ServesOnce, Started, started,
        StartMoves, StopMoves, CloseServed
<1>1. ASSUME NEW s \in Starter, RejectStart(s) PROVE ServerInv'
  BY <1>1 DEF RejectStart
<1>2. ASSUME NEW s \in Starter, RefuseStart(s) PROVE ServerInv'
  BY <1>2 DEF RefuseStart
<1>3. ASSUME NEW s \in Starter, ListenFails(s) PROVE ServerInv'
  BY <1>3 DEF ListenFails
<1>4. ASSUME NEW s \in Starter, Publish(s) PROVE ServerInv'
  BY <1>4 DEF Publish
<1>5. ASSUME NEW s \in Starter, RegisterReturns(s) PROVE ServerInv'
  BY <1>5 DEF RegisterReturns
<1>6. ASSUME NEW s \in Starter, RegisterPanics(s) PROVE ServerInv'
  BY <1>6 DEF RegisterPanics
<1>7. ASSUME NEW s \in Starter, Serve(s) PROVE ServerInv'
  BY <1>7 DEF Serve
<1>8. ASSUME NEW s \in Starter, ServeReturns(s) PROVE ServerInv'
  BY <1>8 DEF ServeReturns
<1>9. ASSUME NEW s \in Starter, ServeFails(s) PROVE ServerInv'
  BY <1>9 DEF ServeFails
<1>10. ASSUME NEW w \in Waiter, CallStop(w) PROVE ServerInv'
  BY <1>10 DEF CallStop
<1>11. ASSUME NEW w \in Waiter, LockStop(w) PROVE ServerInv'
  BY <1>11 DEF LockStop
<1>12. ASSUME NEW w \in Waiter, ForceStop(w) PROVE ServerInv'
  BY <1>12 DEF ForceStop
<1>13. ASSUME NEW w \in Waiter, GracefulStop(w) PROVE ServerInv'
  BY <1>13 DEF GracefulStop
<1>14. ASSUME NEW w \in Waiter, GracefulStopReturns(w) PROVE ServerInv'
  BY <1>14 DEF GracefulStopReturns
<1>15. ASSUME NEW r \in Request, Open(r) PROVE ServerInv'
  BY <1>15 DEF Open, Served
<1>16. ASSUME NEW r \in Request, Close(r) PROVE ServerInv'
  BY <1>16 DEF Close
<1>17. CASE UNCHANGED serverVars
  BY <1>17 DEF serverVars
<1>18. CASE UNCHANGED vars
  BY <1>17, <1>18 DEF vars
<1> QED
  BY <1>1, <1>2, <1>3, <1>4, <1>5, <1>6, <1>7, <1>8, <1>9, <1>10, <1>11, <1>12, <1>13,
     <1>14, <1>15, <1>16, <1>17, <1>18
  DEF Next, StartStep, StopStep, Drain, Deadline, Track

(* The inductive invariant of the server.                                  *)
THEOREM ServerInvariant == Spec => []ServerInv
BY ServerInvInit, ServerInvStep, TrackerInside, PTL DEF Spec

(* The server's variables keep their types.                                *)
THEOREM ServerTypes == Spec => []ServerTypeOK
<1>1. ServerInv => ServerTypeOK
  BY DEF ServerInv
<1> QED BY <1>1, ServerInvariant, PTL

(* After a Stop that returned nil no RPC is open, now or ever again.       *)
THEOREM GracefulStopIsFinal == Spec => []StoppedServesNothing
<1>1. ServerInv => StoppedServesNothing
  BY DEF ServerInv, StopPosition, NoEarlyRPC, StoppedServesNothing
<1> QED BY <1>1, ServerInvariant, PTL

(* One Start serves.                                                       *)
THEOREM OneServe == Spec => []ServesOnce
<1>1. ServerInv => ServesOnce
  BY DEF ServerInv, StartPosition
<1> QED BY <1>1, ServerInvariant, PTL

(* The listener does not outlive Stop and Start, registration panics aside. *)
THEOREM ListenerIsReleased == Spec => []ListenerReleased
<1>1. ServerInv => ListenerReleased
  BY DEF ServerInv, StopPosition, StartPosition, ListenerPosition, ListenerReleased, Over
<1> QED BY <1>1, ServerInvariant, PTL

=============================================================================
