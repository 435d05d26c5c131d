------------------------------ MODULE AppProofs ------------------------------
(***************************************************************************)
(* Proofs about App, for every set of components, notifiers and callers:   *)
(* its type invariant, the inductive invariant IInv, the safety            *)
(* properties that follow from it, and that App implements Lifecycle.      *)
(***************************************************************************)
EXTENDS AppLifecycle, FiniteSetTheorems, SequenceTheorems, TLAPS

(* Every variable keeps its type, whatever the interleaving.               *)
THEOREM TypeCorrect == Spec => []TypeOK
<1>1. Init => TypeOK
  <2> SUFFICES ASSUME Init PROVE TypeOK
    OBVIOUS
  <2>1. components \in Seq(Component) /\ Len(components) = 0
    BY EmptySeq DEF Init
  <2>2. results \in Seq(Result)
    BY EmptySeq DEF Init
  <2>3. result \in Report
    BY DEF Init, Report
  <2>4. launched \in 0 .. Len(components) /\ stopNext \in 0 .. Len(components)
    BY <2>1 DEF Init
  <2>5. /\ caller \in [Caller -> {"idle", "running", "refused", "returned"}]
        /\ start \in [Component -> {"idle", "spawned", "running", "returned", "done"}]
        /\ startup \in [Component -> BOOLEAN]
        /\ waiter \in [Component -> {"none", "waiting", "sent", "received", "left"}]
        /\ stop \in [Component -> {"idle", "running", "returned"}]
    BY DEF Init
  <2>6. /\ state \in {"New", "Running", "Stopped"}
        /\ pc \in {"idle", "launching", "awaiting", "serving", "draining",
                   "cancelling", "stopAll", "collect", "finish", "returned"}
        /\ stopper \in {"none", "looping", "done"}
    BY DEF Init
  <2>7. ready \in BOOLEAN /\ cancelled \in BOOLEAN /\ deadline \in BOOLEAN
    BY DEF Init
  <2>8. /\ startupCount \in Int
        /\ runErr \in Component \union {None}
        /\ stopErrors \in SUBSET Component
    BY DEF Init
  <2> QED BY <2>1, <2>2, <2>3, <2>4, <2>5, <2>6, <2>7, <2>8 DEF TypeOK
<1>2. TypeOK /\ [Next]_vars => TypeOK'
  <2> SUFFICES ASSUME TypeOK, [Next]_vars PROVE TypeOK'
    OBVIOUS
  <2> USE DEF TypeOK, runVars, compVars, stopVars
  <2>1. ASSUME NEW c \in Component, Add(c) PROVE TypeOK'
    BY <2>1 DEF Add
  <2>2. ASSUME NEW r \in Caller, beginRun(r) \/ refuseRun(r) PROVE TypeOK'
    <3>1. CASE beginRun(r) BY <3>1 DEF beginRun
    <3>2. CASE refuseRun(r) BY <3>2 DEF refuseRun
    <3> QED BY <2>2, <3>1, <3>2
  <2>3. CASE Launch
    <3>1. components[launched + 1] \in Component
      BY <2>3 DEF Launch
    <3> QED BY <2>3, <3>1 DEF Launch
  <2>4. ASSUME NEW c \in Component, ReceiveStarted(c) PROVE TypeOK'
    BY <2>4 DEF ReceiveStarted
  <2>5. CASE BecomeReady \/ SeeCancelled \/ StoreNotReady \/ CancelRun \/ stopAll
    <3>1. CASE BecomeReady BY <3>1 DEF BecomeReady
    <3>2. CASE SeeCancelled BY <3>2 DEF SeeCancelled
    <3>3. CASE StoreNotReady BY <3>3 DEF StoreNotReady
    <3>4. CASE CancelRun BY <3>4 DEF CancelRun
    <3>5. CASE stopAll BY <3>5 DEF stopAll
    <3> QED BY <2>5, <3>1, <3>2, <3>3, <3>4, <3>5
  <2>6. CASE TakeResult
    <3>1. Head(results) \in Result /\ Tail(results) \in Seq(Result)
      BY <2>6, HeadTailProperties DEF TakeResult
    <3>2. runErr' \in Component \union {None}
      BY <2>6, <3>1 DEF TakeResult, Result
    <3> QED BY <2>6, <3>1, <3>2 DEF TakeResult
  <2>7. CASE CollectDone \/ CollectDeadline
    <3>1. CASE CollectDone
      <4>1. result' \in Report
        BY <3>1 DEF CollectDone, Report
      <4> QED BY <3>1, <4>1 DEF CollectDone
    <3>2. CASE CollectDeadline
      <4>1. result' \in Report
        BY <3>2 DEF CollectDeadline, Report
      <4> QED BY <3>2, <4>1 DEF CollectDeadline
    <3> QED BY <2>7, <3>1, <3>2
  <2>8. ASSUME NEW r \in Caller, finishRun(r) PROVE TypeOK'
    BY <2>8 DEF finishRun
  <2>9. ASSUME NEW c \in Component,
               BeginStart(c) \/ StartsDone(c) \/ CloseStartup(c) \/ ForwardStartup(c)
        PROVE  TypeOK'
    <3>1. CASE BeginStart(c) BY <3>1 DEF BeginStart
    <3>2. CASE StartsDone(c) BY <3>2 DEF StartsDone
    <3>3. CASE CloseStartup(c) BY <3>3 DEF CloseStartup
    <3>4. CASE ForwardStartup(c) BY <3>4 DEF ForwardStartup
    <3> QED BY <2>9, <3>1, <3>2, <3>3, <3>4
  <2>10. ASSUME NEW c \in Component, NEW outcome \in Outcome, StartReturns(c, outcome)
         PROVE  TypeOK'
    <3>1. results' \in Seq(Result)
      BY <2>10, AppendProperties DEF StartReturns, Failed, Result
    <3> QED BY <2>10, <3>1 DEF StartReturns
  <2>11. CASE BeginStop
    BY <2>11 DEF BeginStop
  <2>12. ASSUME NEW outcome \in Outcome, StopReturns(outcome) PROVE TypeOK'
    BY <2>12 DEF StopReturns
  <2>13. CASE WaitStarts \/ Cancel \/ DeadlineExpires
    <3>1. CASE WaitStarts BY <3>1 DEF WaitStarts
    <3>2. CASE Cancel BY <3>2 DEF Cancel
    <3>3. CASE DeadlineExpires BY <3>3 DEF DeadlineExpires
    <3> QED BY <2>13, <3>1, <3>2, <3>3
  <2>14. CASE UNCHANGED vars
    BY <2>14 DEF vars
  <2> QED
    BY <2>1, <2>2, <2>3, <2>4, <2>5, <2>6, <2>7, <2>8, <2>9, <2>10, <2>11,
       <2>12, <2>13, <2>14 DEF Next, RunStep, ComponentStep, StopperStep
<1> QED BY <1>1, <1>2, PTL DEF Spec

(* The parts of the inductive invariant beside the types.                  *)
Parts ==
  /\ DistinctComponents
  /\ RunPosition
  /\ LaunchedPrefix
  /\ CountMatches
  /\ ReadyWindow
  /\ StopPrefix

(* The startup count of Run is the size of a finite set.                   *)
LEMMA AwaitedFinite == IsFiniteSet(Awaited)
  BY AppAssumption, FS_Subset DEF Awaited

(* Nothing has happened yet: every part holds.                             *)
LEMMA PartsInit == Init => Parts
<1> SUFFICES ASSUME Init PROVE Parts
  OBVIOUS
<1>1. Len(components) = 0 /\ DOMAIN components = {}
  BY EmptySeq DEF Init
<1>2. Awaited = {}
  BY DEF Init, Awaited
<1>3. CountMatches
  BY <1>2, FS_EmptySet DEF Init, CountMatches
<1>4. DistinctComponents /\ LaunchedPrefix /\ ReadyWindow
  BY <1>1 DEF Init, DistinctComponents, LaunchedPrefix, ReadyWindow
<1>5. RunPosition
  BY <1>1 DEF Init, RunPosition, RunsOnce
<1>6. StopPrefix
  BY <1>1 DEF Init, StopPrefix
<1> QED BY <1>3, <1>4, <1>5, <1>6 DEF Parts

(* Every step of every goroutine preserves the parts.                      *)
LEMMA PartsStep == TypeOK /\ TypeOK' /\ Parts /\ [Next]_vars => Parts'
<1> SUFFICES ASSUME TypeOK, TypeOK', Parts, [Next]_vars PROVE Parts'
  OBVIOUS
<1> USE DEF TypeOK, Parts, runVars, compVars, stopVars, Registered
<1>1. ASSUME NEW c \in Component, Add(c) PROVE Parts'
  <2>1. /\ Len(components') = Len(components) + 1
        /\ \A i \in DOMAIN components : components'[i] = components[i]
        /\ components'[Len(components) + 1] = c
        /\ DOMAIN components' = 1 .. (Len(components) + 1)
        /\ DOMAIN components = 1 .. Len(components)
    BY <1>1, AppendProperties DEF Add
  <2>2. c \notin Registered /\ Registered' = Registered \union {c}
    <3>1. c \notin Registered
      BY <1>1 DEF Add
    <3>2. ASSUME NEW i \in DOMAIN components' PROVE components'[i] \in Registered \union {c}
      <4>1. CASE i = Len(components) + 1
        BY <2>1, <4>1
      <4>2. CASE i \in DOMAIN components
        BY <2>1, <4>2
      <4> QED BY <2>1, <4>1, <4>2
    <3>3. c \in Registered'
      BY <2>1
    <3>4. \A d \in Registered : d \in Registered'
      BY <2>1
    <3>5. Registered' \subseteq Registered \union {c}
      BY <3>2
    <3>6. Registered \union {c} \subseteq Registered'
      BY <3>3, <3>4
    <3> HIDE DEF Registered
    <3> QED BY <3>1, <3>5, <3>6
  <2>3. DistinctComponents'
    BY <2>1, <2>2 DEF DistinctComponents
  <2>4. pc = "idle" /\ launched = 0 /\ stopper = "none"
    BY <1>1 DEF Add, RunPosition, StopPrefix
  <2>5. RunPosition' /\ CountMatches' /\ ReadyWindow' /\ StopPrefix'
    BY <1>1, <2>4 DEF Add, RunPosition, RunsOnce, CountMatches, Awaited, ReadyWindow, StopPrefix
  <2>6. start[c] = "idle" /\ waiter[c] = "none"
    BY <2>2 DEF LaunchedPrefix
  <2>7. LaunchedPrefix'
    BY <1>1, <2>1, <2>2, <2>4, <2>6 DEF Add, LaunchedPrefix
  <2> QED BY <2>3, <2>5, <2>7
<1>2. ASSUME NEW r \in Caller, beginRun(r) PROVE Parts'
  BY <1>2 DEF beginRun, DistinctComponents, RunPosition, RunsOnce, LaunchedPrefix,
         CountMatches, Awaited, ReadyWindow, StopPrefix
<1>3. ASSUME NEW r \in Caller, refuseRun(r) PROVE Parts'
  BY <1>3 DEF refuseRun, DistinctComponents, RunPosition, RunsOnce, LaunchedPrefix,
         CountMatches, Awaited, ReadyWindow, StopPrefix
<1>4. CASE Launch
  <2> DEFINE d == components[launched + 1]
  <2>1. d \in Component /\ launched + 1 \in DOMAIN components
    BY <1>4 DEF Launch
  <2>2. start[d] = "idle" /\ waiter[d] = "none"
    BY <2>1 DEF LaunchedPrefix
  <2>3. DistinctComponents' /\ RunPosition' /\ ReadyWindow' /\ StopPrefix'
    BY <1>4 DEF Launch, DistinctComponents, RunPosition, RunsOnce, ReadyWindow, StopPrefix
  <2>4. LaunchedPrefix'
    BY <1>4, <2>1, <2>2 DEF Launch, DistinctComponents, LaunchedPrefix
  <2>5. CountMatches'
    <3>1. CASE d \in Notifier
      <4>1. Awaited' = Awaited \union {d} /\ d \notin Awaited
        BY <1>4, <2>1, <2>2, <3>1 DEF Launch, Awaited
      <4>2. Cardinality(Awaited') = Cardinality(Awaited) + 1
        BY <4>1, AwaitedFinite, FS_AddElement
      <4> QED BY <1>4, <3>1, <4>2 DEF Launch, CountMatches
    <3>2. CASE d \notin Notifier
      BY <1>4, <3>2 DEF Launch, CountMatches, Awaited
    <3> QED BY <3>1, <3>2
  <2> QED BY <2>3, <2>4, <2>5
<1>5. ASSUME NEW c \in Component, ReceiveStarted(c) PROVE Parts'
  <2>1. Awaited' = Awaited \ {c} /\ c \in Awaited
    BY <1>5 DEF ReceiveStarted, Awaited
  <2>2. Cardinality(Awaited') = Cardinality(Awaited) - 1
    BY <2>1, AwaitedFinite, FS_RemoveElement
  <2>3. CountMatches'
    BY <1>5, <2>2 DEF ReceiveStarted, CountMatches
  <2>4. DistinctComponents' /\ RunPosition' /\ LaunchedPrefix'
    BY <1>5 DEF ReceiveStarted, DistinctComponents, RunPosition, RunsOnce, LaunchedPrefix
  <2>5. ReadyWindow' /\ StopPrefix'
    BY <1>5 DEF ReceiveStarted, ReadyWindow, StopPrefix
  <2> QED BY <2>3, <2>4, <2>5
<1>6. CASE BecomeReady
  <2>1. Awaited = {}
    BY <1>6, AwaitedFinite, FS_EmptySet DEF BecomeReady, CountMatches
  <2>2. Awaited' = Awaited
    BY <1>6 DEF BecomeReady, Awaited
  <2>3. ReadyWindow' /\ CountMatches'
    BY <1>6, <2>1, <2>2 DEF BecomeReady, ReadyWindow, CountMatches
  <2>4. DistinctComponents' /\ RunPosition' /\ LaunchedPrefix' /\ StopPrefix'
    BY <1>6 DEF BecomeReady, DistinctComponents, RunPosition, RunsOnce, LaunchedPrefix, StopPrefix
  <2> QED BY <2>3, <2>4
<1>7. CASE TakeResult
  BY <1>7 DEF TakeResult, Selecting, DistinctComponents, RunPosition, RunsOnce, LaunchedPrefix,
         CountMatches, Awaited, ReadyWindow, StopPrefix
<1>8. CASE SeeCancelled
  BY <1>8 DEF SeeCancelled, Selecting, DistinctComponents, RunPosition, RunsOnce, LaunchedPrefix,
         CountMatches, Awaited, ReadyWindow, StopPrefix
<1>9. CASE StoreNotReady
  BY <1>9 DEF StoreNotReady, DistinctComponents, RunPosition, RunsOnce, LaunchedPrefix,
         CountMatches, Awaited, ReadyWindow, StopPrefix
<1>10. CASE CancelRun
  BY <1>10 DEF CancelRun, DistinctComponents, RunPosition, RunsOnce, LaunchedPrefix,
         CountMatches, Awaited, ReadyWindow, StopPrefix
<1>11. CASE stopAll
  BY <1>11 DEF stopAll, DistinctComponents, RunPosition, RunsOnce, LaunchedPrefix,
         CountMatches, Awaited, ReadyWindow, StopPrefix
<1>12. CASE CollectDone
  BY <1>12 DEF CollectDone, DistinctComponents, RunPosition, RunsOnce, LaunchedPrefix,
         CountMatches, Awaited, ReadyWindow, StopPrefix
<1>13. CASE CollectDeadline
  BY <1>13 DEF CollectDeadline, DistinctComponents, RunPosition, RunsOnce, LaunchedPrefix,
         CountMatches, Awaited, ReadyWindow, StopPrefix
<1>14. ASSUME NEW r \in Caller, finishRun(r) PROVE Parts'
  BY <1>14 DEF finishRun, DistinctComponents, RunPosition, RunsOnce, LaunchedPrefix,
         CountMatches, Awaited, ReadyWindow, StopPrefix
<1>15. ASSUME NEW c \in Component, BeginStart(c) PROVE Parts'
  BY <1>15 DEF BeginStart, DistinctComponents, RunPosition, RunsOnce, LaunchedPrefix,
         CountMatches, Awaited, ReadyWindow, StopPrefix
<1>16. ASSUME NEW c \in Component, StartsDone(c) PROVE Parts'
  BY <1>16 DEF StartsDone, DistinctComponents, RunPosition, RunsOnce, LaunchedPrefix,
         CountMatches, Awaited, ReadyWindow, StopPrefix
<1>17. ASSUME NEW c \in Component, CloseStartup(c) PROVE Parts'
  BY <1>17 DEF CloseStartup, DistinctComponents, RunPosition, RunsOnce, LaunchedPrefix,
         CountMatches, Awaited, ReadyWindow, StopPrefix
<1>18. ASSUME NEW c \in Component, ForwardStartup(c) PROVE Parts'
  <2>1. Awaited' = Awaited
    BY <1>18 DEF ForwardStartup, Awaited
  <2>2. CountMatches' /\ ReadyWindow'
    BY <1>18, <2>1 DEF ForwardStartup, CountMatches, ReadyWindow
  <2>3. DistinctComponents' /\ RunPosition' /\ StopPrefix'
    BY <1>18 DEF ForwardStartup, DistinctComponents, RunPosition, RunsOnce, StopPrefix
  <2>4. LaunchedPrefix'
    BY <1>18 DEF ForwardStartup, LaunchedPrefix
  <2> QED BY <2>2, <2>3, <2>4
<1>19. ASSUME NEW c \in Component, NEW outcome \in Outcome, StartReturns(c, outcome) PROVE Parts'
  BY <1>19 DEF StartReturns, DistinctComponents, RunPosition, RunsOnce, LaunchedPrefix,
         CountMatches, Awaited, ReadyWindow, StopPrefix
<1>20. CASE BeginStop
  BY <1>20 DEF BeginStop, DistinctComponents, RunPosition, RunsOnce, LaunchedPrefix,
         CountMatches, Awaited, ReadyWindow, StopPrefix
<1>21. ASSUME NEW outcome \in Outcome, StopReturns(outcome) PROVE Parts'
  BY <1>21 DEF StopReturns, DistinctComponents, RunPosition, RunsOnce, LaunchedPrefix,
         CountMatches, Awaited, ReadyWindow, StopPrefix
<1>22. CASE WaitStarts
  BY <1>22 DEF WaitStarts, DistinctComponents, RunPosition, RunsOnce, LaunchedPrefix,
         CountMatches, Awaited, ReadyWindow, StopPrefix
<1>23. CASE Cancel
  BY <1>23 DEF Cancel, DistinctComponents, RunPosition, RunsOnce, LaunchedPrefix,
         CountMatches, Awaited, ReadyWindow, StopPrefix
<1>24. CASE DeadlineExpires
  BY <1>24 DEF DeadlineExpires, DistinctComponents, RunPosition, RunsOnce, LaunchedPrefix,
         CountMatches, Awaited, ReadyWindow, StopPrefix
<1>25. CASE UNCHANGED vars
  BY <1>25 DEF vars, DistinctComponents, RunPosition, RunsOnce, LaunchedPrefix,
         CountMatches, Awaited, ReadyWindow, StopPrefix
<1> QED BY <1>1, <1>2, <1>3, <1>4, <1>5, <1>6, <1>7, <1>8, <1>9, <1>10, <1>11, <1>12,
     <1>13, <1>14, <1>15, <1>16, <1>17, <1>18, <1>19, <1>20, <1>21, <1>22, <1>23,
     <1>24, <1>25 DEF Next, RunStep, ComponentStep, StopperStep

(* The inductive invariant holds in every reachable state.                 *)
THEOREM Inductive == Spec => []IInv
<1>1. Init => Parts
  BY PartsInit
<1>2. TypeOK /\ TypeOK' /\ Parts /\ [Next]_vars => Parts'
  BY PartsStep
<1>3. TypeOK /\ Parts => IInv
  BY DEF Parts, IInv
<1> QED BY <1>1, <1>2, <1>3, TypeCorrect, PTL DEF Spec

(* App.CheckReadiness succeeds only after every startup-aware component    *)
(* has crossed its startup boundary.                                       *)
THEOREM ReadinessIsEarned == Spec => []ReadyImpliesStarted
<1>1. IInv => ReadyImpliesStarted
  <2> SUFFICES ASSUME IInv, ready, NEW c \in Registered
               PROVE  start[c] # "idle" /\ (c \in Notifier => startup[c])
    BY DEF ReadyImpliesStarted
  <2> USE DEF IInv, TypeOK, Registered
  <2>1. launched = Len(components) /\ Awaited = {}
    BY DEF ReadyWindow, RunPosition
  <2>2. PICK i \in DOMAIN components : c = components[i]
    OBVIOUS
  <2>3. start[c] # "idle" /\ (c \in Notifier => waiter[c] # "none")
    BY <2>1, <2>2 DEF LaunchedPrefix
  <2>4. c \in Component
    BY <2>2
  <2>5. c \in Notifier => waiter[c] = "received"
    BY <2>1, <2>3, <2>4 DEF Awaited
  <2> QED BY <2>3, <2>4, <2>5 DEF LaunchedPrefix
<1> QED BY <1>1, Inductive, PTL

(* However many goroutines call Run, one at most gets past beginRun.       *)
THEOREM OneRun == Spec => []RunsOnce
<1>1. IInv => RunsOnce
  BY DEF IInv, RunPosition
<1> QED BY <1>1, Inductive, PTL

(* Readiness is withdrawn before any component is asked to stop.           *)
THEOREM DrainingIsNotReady == Spec => []NotReadyWhileDraining
<1>1. IInv => NotReadyWhileDraining
  BY DEF IInv, TypeOK, ReadyWindow, StopPrefix, NotReadyWhileDraining
<1> QED BY <1>1, Inductive, PTL

(* Components are stopped one at a time, in reverse order of registration. *)
THEOREM StopsInReverse == Spec => []ReverseStopOrder
<1>1. IInv => ReverseStopOrder
  <2> SUFFICES ASSUME IInv, NEW i \in DOMAIN components, NEW j \in DOMAIN components,
                      i < j, stop[components[i]] # "idle"
               PROVE  stop[components[j]] = "returned"
    BY DEF ReverseStopOrder
  <2> USE DEF IInv, TypeOK
  <2>1. stopper # "none"
    BY DEF StopPrefix
  <2>2. i >= stopNext
    BY <2>1 DEF StopPrefix
  <2> QED BY <2>1, <2>2 DEF StopPrefix
<1> QED BY <1>1, Inductive, PTL

(* A return without ErrShutdownTimeout leaves no component running.        *)
THEOREM CleanReturn == Spec => []CleanReturnIsQuiescent
<1>1. IInv => CleanReturnIsQuiescent
  <2> SUFFICES ASSUME IInv, pc = "returned", ~result.timeout, NEW c \in Registered
               PROVE  start[c] = "done" /\ stop[c] = "returned"
    BY DEF CleanReturnIsQuiescent
  <2> USE DEF IInv, TypeOK, Registered
  <2>1. stopper = "done" /\ stopNext = 0
    BY DEF StopPrefix
  <2>2. PICK i \in DOMAIN components : c = components[i]
    OBVIOUS
  <2>3. i > stopNext
    BY <2>1, <2>2
  <2> QED BY <2>1, <2>2, <2>3 DEF StopPrefix
<1> QED BY <1>1, Inductive, PTL

-----------------------------------------------------------------------------
(* The steps that show on the abstract lifecycle, one lemma each where the *)
(* mapping takes work.                                                     *)

(* The components launched so far are a prefix of the registration order.  *)
LEMMA BegunPrefix ==
  ASSUME IInv
  PROVE  /\ begunOf = {components[j] : j \in 1 .. launched}
         /\ Registered \subseteq Component
<1> USE DEF IInv, TypeOK, Registered
<1>1. ASSUME NEW c \in Component, start[c] # "idle"
      PROVE  c \in {components[j] : j \in 1 .. launched}
  <2>1. PICK i \in DOMAIN components : c = components[i]
    BY <1>1 DEF LaunchedPrefix
  <2>2. i \in 1 .. launched
    BY <1>1, <2>1 DEF LaunchedPrefix
  <2> QED BY <2>1, <2>2
<1>2. ASSUME NEW j \in 1 .. launched PROVE components[j] \in begunOf
  <2>1. j \in DOMAIN components
    OBVIOUS
  <2> QED BY <2>1 DEF LaunchedPrefix, begunOf
<1>3. Registered \subseteq Component
  OBVIOUS
<1> QED BY <1>1, <1>2, <1>3 DEF begunOf

(* The components stopped so far are a suffix of the registration order.   *)
LEMMA StoppedSuffix ==
  ASSUME IInv, stopper # "none"
  PROVE  stoppedOf = {components[j] : j \in (stopNext + 1) .. Len(components)}
<1> USE DEF IInv, TypeOK, Registered
<1>1. ASSUME NEW c \in Component, stop[c] = "returned"
      PROVE  c \in {components[j] : j \in (stopNext + 1) .. Len(components)}
  <2>1. PICK i \in DOMAIN components : c = components[i]
    BY <1>1 DEF StopPrefix
  <2>2. i \in (stopNext + 1) .. Len(components)
    BY <1>1, <2>1 DEF StopPrefix
  <2> QED BY <2>1, <2>2
<1>2. ASSUME NEW j \in (stopNext + 1) .. Len(components) PROVE components[j] \in stoppedOf
  <2>1. j \in DOMAIN components
    OBVIOUS
  <2> QED BY <2>1 DEF StopPrefix, stoppedOf
<1> QED BY <1>1, <1>2 DEF stoppedOf

(* The initial states of App are initial states of Lifecycle.              *)
LEMMA LifecycleInit == Init => L!Init
<1> SUFFICES ASSUME Init PROVE L!Init
  OBVIOUS
<1>1. phaseOf = "new" /\ components = <<>>
  BY DEF Init, phaseOf
<1>2. begunOf = {} /\ upOf = {} /\ goneOf = {} /\ stoppingOf = {} /\ stoppedOf = {}
  BY DEF Init, begunOf, upOf, goneOf, stoppingOf, stoppedOf
<1>3. cleanOf = FALSE
  BY DEF Init, cleanOf
<1> QED BY <1>1, <1>2, <1>3 DEF L!Init

(* At most the component at stopNext is being stopped.                     *)
LEMMA OneStopping ==
  ASSUME IInv, NEW c \in Component, stop[c] = "running"
  PROVE  stopNext \in DOMAIN components /\ c = components[stopNext]
<1> USE DEF IInv, TypeOK, Registered
<1>1. stopper # "none"
  BY DEF StopPrefix
<1>2. PICK i \in DOMAIN components : c = components[i]
  BY DEF StopPrefix
<1>3. i = stopNext
  BY <1>1, <1>2 DEF StopPrefix
<1> QED BY <1>2, <1>3

(* When nobody is awaited any more, every notifier has started up.         *)
LEMMA ReadyAfter ==
  ASSUME IInv, BecomeReady
  PROVE  \A c \in Registered \intersect Notifier : startup[c]
<1> USE DEF IInv, TypeOK, Registered
<1>1. Awaited = {}
  BY AwaitedFinite, FS_EmptySet DEF BecomeReady, CountMatches
<1>2. launched = Len(components)
  BY DEF BecomeReady, RunPosition
<1> SUFFICES ASSUME NEW i \in DOMAIN components, components[i] \in Notifier
             PROVE  startup[components[i]]
  OBVIOUS
<1>3. components[i] \in Component /\ waiter[components[i]] # "none"
  BY <1>2 DEF LaunchedPrefix
<1>4. waiter[components[i]] = "received"
  BY <1>1, <1>3 DEF Awaited
<1> QED BY <1>3, <1>4 DEF LaunchedPrefix

(* Past the loop that launches, every component has begun.                 *)
LEMMA BegunAll ==
  ASSUME IInv, pc \notin {"idle", "launching"}
  PROVE  begunOf = Registered
<1>1. launched = Len(components) /\ components \in Seq(Component)
  BY DEF IInv, RunPosition, TypeOK
<1>2. begunOf = {components[j] : j \in 1 .. launched}
  BY BegunPrefix
<1>3. Registered = {components[j] : j \in 1 .. launched}
  BY <1>1, LenProperties DEF Registered
<1> QED BY <1>2, <1>3

(* Every step of App is a step of Lifecycle or leaves its variables alone. *)
LEMMA LifecycleStep == IInv /\ [Next]_vars => [L!Next]_(L!vars)
<1> SUFFICES ASSUME IInv, [Next]_vars PROVE [L!Next]_(L!vars)
  OBVIOUS
<1> USE DEF IInv, TypeOK, runVars, compVars, stopVars, Registered, L!vars
<1>1. ASSUME NEW c \in Component, Add(c) PROVE [L!Next]_(L!vars)
  <2>1. c \notin Registered
    BY <1>1 DEF Add
  <2>2. phaseOf = "new" /\ phaseOf' = "new"
    BY <1>1 DEF Add, phaseOf, RunPosition, ReadyWindow
  <2>3. UNCHANGED <<begunOf, upOf, goneOf, stoppingOf, stoppedOf, cleanOf>>
    BY <1>1 DEF Add, begunOf, upOf, goneOf, stoppingOf, stoppedOf, cleanOf
  <2>4. L!Register(c)
    BY <1>1, <2>1, <2>2, <2>3 DEF Add, L!Register, L!Members
  <2> QED BY <2>4 DEF L!Next
<1>2. ASSUME NEW r \in Caller, beginRun(r) PROVE [L!Next]_(L!vars)
  <2>1. phaseOf = "new" /\ phaseOf' = "starting"
    BY <1>2 DEF beginRun, phaseOf, RunPosition, ReadyWindow
  <2>2. UNCHANGED <<components, begunOf, upOf, goneOf, stoppingOf, stoppedOf, cleanOf>>
    BY <1>2 DEF beginRun, begunOf, upOf, goneOf, stoppingOf, stoppedOf, cleanOf, RunPosition
  <2>3. L!Begin
    BY <1>2, <2>1, <2>2 DEF beginRun, L!Begin
  <2> QED BY <2>3 DEF L!Next
<1>3. ASSUME NEW r \in Caller, refuseRun(r) PROVE [L!Next]_(L!vars)
  BY <1>3 DEF refuseRun, phaseOf, begunOf, upOf, goneOf, stoppingOf, stoppedOf, cleanOf,
         RunPosition, ReadyWindow
<1>4. CASE Launch
  <2> DEFINE i == launched + 1
  <2>1. i \in DOMAIN components /\ components[i] \in Component
    BY <1>4 DEF Launch
  <2>2. begunOf = {components[j] : j \in 1 .. (i - 1)}
    BY BegunPrefix
  <2>3. begunOf' = begunOf \union {components[i]}
    BY <1>4, <2>1 DEF Launch, begunOf
  <2>4. phaseOf = "starting" /\ phaseOf' = "starting"
    BY <1>4 DEF Launch, phaseOf, ReadyWindow
  <2>5. UNCHANGED <<components, upOf, goneOf, stoppingOf, stoppedOf, cleanOf>>
    BY <1>4, <2>1 DEF Launch, upOf, goneOf, stoppingOf, stoppedOf, cleanOf, LaunchedPrefix
  <2>6. L!Launch
    BY <2>1, <2>2, <2>3, <2>4, <2>5 DEF L!Launch
  <2> QED BY <2>6 DEF L!Next
<1>5. ASSUME NEW c \in Component, ReceiveStarted(c) PROVE [L!Next]_(L!vars)
  BY <1>5 DEF ReceiveStarted, phaseOf, begunOf, upOf, goneOf, stoppingOf, stoppedOf, cleanOf,
         RunPosition, ReadyWindow
<1>6. CASE BecomeReady
  <2>1. begunOf = Registered
    BY <1>6, BegunAll DEF BecomeReady
  <2>2. Registered \intersect Notifier \subseteq upOf
    BY <1>6, ReadyAfter, BegunPrefix DEF ReadyImpliesStarted, BecomeReady, upOf
  <2>3. phaseOf = "starting" /\ phaseOf' = "ready"
    BY <1>6 DEF BecomeReady, phaseOf, ReadyWindow
  <2>4. UNCHANGED <<components, begunOf, upOf, goneOf, stoppingOf, stoppedOf, cleanOf>>
    BY <1>6 DEF BecomeReady, begunOf, upOf, goneOf, stoppingOf, stoppedOf, cleanOf
  <2>5. L!BecomeReady
    BY <2>1, <2>2, <2>3, <2>4 DEF L!BecomeReady, L!Members
  <2> QED BY <2>5 DEF L!Next
<1>7. CASE TakeResult
  BY <1>7 DEF TakeResult, Selecting, phaseOf, begunOf, upOf, goneOf, stoppingOf, stoppedOf, cleanOf,
         RunPosition, ReadyWindow
<1>8. CASE SeeCancelled
  BY <1>8 DEF SeeCancelled, Selecting, phaseOf, begunOf, upOf, goneOf, stoppingOf, stoppedOf, cleanOf,
         RunPosition, ReadyWindow
<1>9. CASE StoreNotReady
  <2>1. begunOf = Registered
    BY <1>9, BegunAll DEF StoreNotReady
  <2>2. phaseOf \in {"starting", "ready"} /\ phaseOf' = "draining"
    BY <1>9 DEF StoreNotReady, phaseOf
  <2>3. UNCHANGED <<components, begunOf, upOf, goneOf, stoppingOf, stoppedOf, cleanOf>>
    BY <1>9 DEF StoreNotReady, begunOf, upOf, goneOf, stoppingOf, stoppedOf, cleanOf
  <2>4. L!Drain
    BY <2>1, <2>2, <2>3 DEF L!Drain, L!Members
  <2> QED BY <2>4 DEF L!Next
<1>10. CASE CancelRun
  BY <1>10 DEF CancelRun, phaseOf, begunOf, upOf, goneOf, stoppingOf, stoppedOf, cleanOf,
         RunPosition, ReadyWindow
<1>11. CASE stopAll
  BY <1>11 DEF stopAll, phaseOf, begunOf, upOf, goneOf, stoppingOf, stoppedOf, cleanOf,
         RunPosition, ReadyWindow
<1>12. CASE CollectDone
  <2>1. phaseOf = "draining" /\ phaseOf' = "ended"
    BY <1>12 DEF CollectDone, phaseOf, ReadyWindow
  <2>2. stoppedOf = Registered
    BY <1>12, StoppedSuffix DEF CollectDone, StopPrefix
  <2>3. \A c \in Registered : start[c] = "done"
    BY <1>12 DEF CollectDone, StopPrefix
  <2>4. goneOf = Registered
    BY <2>3, BegunPrefix DEF goneOf, LaunchedPrefix
  <2>5. UNCHANGED <<components, begunOf, upOf, goneOf, stoppingOf, stoppedOf>>
    BY <1>12 DEF CollectDone, begunOf, upOf, goneOf, stoppingOf, stoppedOf
  <2>6. cleanOf' \in BOOLEAN
    BY <1>12 DEF CollectDone, cleanOf
  <2>7. L!End
    BY <2>1, <2>2, <2>4, <2>5, <2>6 DEF L!End, L!Members
  <2> QED BY <2>7 DEF L!Next
<1>13. CASE CollectDeadline
  <2>1. phaseOf = "draining" /\ phaseOf' = "ended"
    BY <1>13 DEF CollectDeadline, phaseOf, ReadyWindow
  <2>2. UNCHANGED <<components, begunOf, upOf, goneOf, stoppingOf, stoppedOf>>
    BY <1>13 DEF CollectDeadline, begunOf, upOf, goneOf, stoppingOf, stoppedOf
  <2>3. ~cleanOf'
    BY <1>13 DEF CollectDeadline, cleanOf
  <2>4. cleanOf' \in BOOLEAN
    BY <1>13 DEF CollectDeadline, cleanOf
  <2>5. L!End
    BY <2>1, <2>2, <2>3, <2>4 DEF L!End
  <2> QED BY <2>5 DEF L!Next
<1>14. ASSUME NEW r \in Caller, finishRun(r) PROVE [L!Next]_(L!vars)
  BY <1>14 DEF finishRun, phaseOf, begunOf, upOf, goneOf, stoppingOf, stoppedOf, cleanOf,
         RunPosition, ReadyWindow
<1>15. ASSUME NEW c \in Component, BeginStart(c) PROVE [L!Next]_(L!vars)
  BY <1>15 DEF BeginStart, phaseOf, begunOf, upOf, goneOf, stoppingOf, stoppedOf, cleanOf,
         RunPosition, ReadyWindow
<1>16. ASSUME NEW c \in Component, StartsDone(c) PROVE [L!Next]_(L!vars)
  <2>1. c \in begunOf \ goneOf /\ goneOf' = goneOf \union {c}
    BY <1>16 DEF StartsDone, begunOf, goneOf
  <2>2. UNCHANGED <<phaseOf, components, begunOf, upOf, stoppingOf, stoppedOf, cleanOf>>
    BY <1>16 DEF StartsDone, phaseOf, begunOf, upOf, stoppingOf, stoppedOf, cleanOf
  <2>3. L!Exit(c)
    BY <2>1, <2>2 DEF L!Exit
  <2> QED BY <2>3 DEF L!Next
<1>17. ASSUME NEW c \in Component, CloseStartup(c) PROVE [L!Next]_(L!vars)
  <2>1. c \in (begunOf \intersect Notifier) \ upOf /\ upOf' = upOf \union {c}
    BY <1>17 DEF CloseStartup, begunOf, upOf
  <2>2. UNCHANGED <<phaseOf, components, begunOf, goneOf, stoppingOf, stoppedOf, cleanOf>>
    BY <1>17 DEF CloseStartup, phaseOf, begunOf, goneOf, stoppingOf, stoppedOf, cleanOf
  <2>3. L!CrossStartup(c)
    BY <2>1, <2>2 DEF L!CrossStartup
  <2> QED BY <2>3 DEF L!Next
<1>18. ASSUME NEW c \in Component, ForwardStartup(c) PROVE [L!Next]_(L!vars)
  BY <1>18 DEF ForwardStartup, phaseOf, begunOf, upOf, goneOf, stoppingOf, stoppedOf, cleanOf,
         RunPosition, ReadyWindow
<1>19. ASSUME NEW c \in Component, NEW outcome \in Outcome, StartReturns(c, outcome) PROVE [L!Next]_(L!vars)
  BY <1>19 DEF StartReturns, phaseOf, begunOf, upOf, goneOf, stoppingOf, stoppedOf, cleanOf,
         RunPosition, ReadyWindow
<1>20. CASE BeginStop
  <2> DEFINE i == stopNext
             c == components[i]
  <2>1. i \in DOMAIN components /\ c \in Component
    BY <1>20 DEF BeginStop
  <2>2. stoppedOf = {components[j] : j \in (i + 1) .. Len(components)}
    BY <1>20, StoppedSuffix DEF BeginStop
  <2>3. stoppingOf = {} /\ stoppingOf' = {c}
    BY <1>20, <2>1, OneStopping DEF BeginStop, stoppingOf
  <2>4. phaseOf \in {"draining", "ended"}
    BY <1>20 DEF BeginStop, phaseOf, StopPrefix, ReadyWindow
  <2>5. UNCHANGED <<phaseOf, components, begunOf, upOf, goneOf, stoppedOf, cleanOf>>
    BY <1>20, <2>1 DEF BeginStop, phaseOf, begunOf, upOf, goneOf, stoppedOf, cleanOf
  <2>6. L!BeginStop(c)
    BY <2>1, <2>2, <2>3, <2>4, <2>5 DEF L!BeginStop
  <2> QED BY <2>1, <2>6 DEF L!Next
<1>21. ASSUME NEW outcome \in Outcome, StopReturns(outcome) PROVE [L!Next]_(L!vars)
  <2> DEFINE c == components[stopNext]
  <2>1. stopNext \in DOMAIN components /\ c \in Component /\ stop[c] = "running"
    BY <1>21 DEF StopReturns
  <2>2. stoppingOf = {c}
    BY <1>21, <2>1, OneStopping DEF StopReturns, stoppingOf
  <2>3. stoppingOf' = {} /\ stoppedOf' = stoppedOf \union {c}
    BY <1>21, <2>1, <2>2 DEF StopReturns, stoppingOf, stoppedOf
  <2>4. UNCHANGED <<phaseOf, components, begunOf, upOf, goneOf, cleanOf>>
    BY <1>21 DEF StopReturns, phaseOf, begunOf, upOf, goneOf, cleanOf
  <2>5. L!EndStop(c)
    BY <2>2, <2>3, <2>4 DEF L!EndStop
  <2> QED BY <2>1, <2>5 DEF L!Next
<1>22. CASE WaitStarts
  BY <1>22 DEF WaitStarts, phaseOf, begunOf, upOf, goneOf, stoppingOf, stoppedOf, cleanOf,
         RunPosition, ReadyWindow
<1>23. CASE Cancel
  BY <1>23 DEF Cancel, phaseOf, begunOf, upOf, goneOf, stoppingOf, stoppedOf, cleanOf,
         RunPosition, ReadyWindow
<1>24. CASE DeadlineExpires
  BY <1>24 DEF DeadlineExpires, phaseOf, begunOf, upOf, goneOf, stoppingOf, stoppedOf, cleanOf,
         RunPosition, ReadyWindow
<1>25. CASE UNCHANGED vars
  BY <1>25 DEF vars, phaseOf, begunOf, upOf, goneOf, stoppingOf, stoppedOf, cleanOf,
         RunPosition, ReadyWindow
<1> QED BY <1>1, <1>2, <1>3, <1>4, <1>5, <1>6, <1>7, <1>8, <1>9, <1>10, <1>11, <1>12,
     <1>13, <1>14, <1>15, <1>16, <1>17, <1>18, <1>19, <1>20, <1>21, <1>22, <1>23,
     <1>24, <1>25 DEF Next, RunStep, ComponentStep, StopperStep

(* App implements Lifecycle: every behaviour of the goroutines of app.go,  *)
(* seen through the mapping, is a behaviour of the abstract lifecycle.     *)
THEOREM Implementation == Spec => ImplementsLifecycle
<1>1. Init => L!Init
  BY LifecycleInit
<1>2. IInv /\ [Next]_vars => [L!Next]_(L!vars)
  BY LifecycleStep
<1> QED BY <1>1, <1>2, Inductive, PTL DEF Spec, ImplementsLifecycle, L!Spec

=============================================================================
