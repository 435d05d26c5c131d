--------------------------- MODULE ReadinessProofs ---------------------------
(* Proofs about Readiness, for any dependencies and any number of calls of *)
(* Check.                                                                  *)
EXTENDS Readiness, TLAPS

LEMMA InvInit == Init => ReadinessInv
BY DEF Init, ReadinessInv, TypeOK, RunningIsOne, ReportGrows, Answer

LEMMA InvStep == ReadinessInv /\ [Next]_vars => ReadinessInv'
<1> SUFFICES ASSUME ReadinessInv, [Next]_vars PROVE ReadinessInv'
  OBVIOUS
<1> USE DEF ReadinessInv, TypeOK, Answer, RunningIsOne, ReportGrows
<1>1. ASSUME NEW d \in Dependency, Add(d) PROVE ReadinessInv'
  BY <1>1 DEF Add
<1>2. ASSUME NEW c \in Check, BeginCheck(c) PROVE ReadinessInv'
  BY <1>2 DEF BeginCheck, AskingOr
<1>3. ASSUME NEW c \in Check, NEW d \in Dependency, Ask(c, d) PROVE ReadinessInv'
  <2>1. CASE running[d]
    <3>1. /\ answer' = [answer EXCEPT ![c][d] = "busy"]
          /\ UNCHANGED <<entries, checker, snapshot, pending, expired, report>>
          /\ running' = [running EXCEPT ![d] = TRUE]
          /\ pc[c] = "asking" /\ pc' = [pc EXCEPT ![c] = AskingOr(ToAsk(c) \ {d})]
      BY <1>3, <2>1 DEF Ask
    <3>2. answer[c][d] = "none" /\ checker[c][d] = "none"
      BY <1>3 DEF Ask, ToAsk
    <3>3. TypeOK'
      BY <3>1 DEF AskingOr
    <3>4. RunningIsOne'
      BY <3>1
    <3>5. ReportGrows'
      BY <3>1, <3>2 DEF AskingOr
    <3> QED BY <3>3, <3>4, <3>5
  <2>2. CASE ~running[d]
    <3>1. /\ checker' = [checker EXCEPT ![c][d] = "running"]
          /\ UNCHANGED <<entries, answer, snapshot, pending, expired, report>>
          /\ running' = [running EXCEPT ![d] = TRUE]
          /\ pc[c] = "asking" /\ pc' = [pc EXCEPT ![c] = AskingOr(ToAsk(c) \ {d})]
      BY <1>3, <2>2 DEF Ask
    <3>2. answer[c][d] = "none" /\ \A b \in Check : checker[b][d] \notin {"running", "sent"}
      BY <1>3, <2>2 DEF Ask, ToAsk
    <3>3. TypeOK'
      BY <3>1 DEF AskingOr
    <3>4. RunningIsOne'
      BY <3>1, <3>2
    <3>5. ReportGrows'
      BY <3>1, <3>2 DEF AskingOr
    <3> QED BY <3>3, <3>4, <3>5
  <2> QED BY <2>1, <2>2
<1>4. ASSUME NEW c \in Check, NEW d \in Dependency, NEW err \in Answer \ {"busy"},
             Answers(c, d, err)
      PROVE  ReadinessInv'
  <2>1. /\ checker' = [checker EXCEPT ![c][d] = "sent"]
        /\ answer' = [answer EXCEPT ![c][d] = err]
        /\ UNCHANGED <<entries, running, pc, snapshot, pending, expired, report>>
        /\ checker[c][d] = "running" /\ answer[c][d] = "none"
    BY <1>4 DEF Answers
  <2>2. TypeOK'
    BY <2>1
  <2>3. RunningIsOne'
    BY <2>1
  <2>4. ReportGrows'
    BY <2>1
  <2> QED BY <2>2, <2>3, <2>4
<1>5. ASSUME NEW c \in Check, NEW d \in Dependency, Finish(c, d) PROVE ReadinessInv'
  BY <1>5 DEF Finish
<1>6. ASSUME NEW c \in Check, NEW d \in Dependency, Collect(c, d) PROVE ReadinessInv'
  BY <1>6 DEF Collect, Queued
<1>7. ASSUME NEW c \in Check, CutOff(c) PROVE ReadinessInv'
  BY <1>7 DEF CutOff
<1>8. ASSUME NEW c \in Check, Collected(c) PROVE ReadinessInv'
  BY <1>8 DEF Collected
<1>9. ASSUME NEW c \in Check, Expire(c) PROVE ReadinessInv'
  BY <1>9 DEF Expire
<1>10. CASE UNCHANGED vars
  BY <1>10 DEF vars
<1> QED
  BY <1>1, <1>2, <1>3, <1>4, <1>5, <1>6, <1>7, <1>8, <1>9, <1>10 DEF Next, CheckStep

(* The inductive invariant of the registry.                                *)
THEOREM ReadinessInvariant == Spec => []ReadinessInv
BY InvInit, InvStep, PTL DEF Spec

(* The registry's variables keep their types.                              *)
THEOREM ReadinessTypes == Spec => []TypeOK
<1>1. ReadinessInv => TypeOK
  BY DEF ReadinessInv
<1> QED BY <1>1, ReadinessInvariant, PTL

LEMMA CheckersAlone == ReadinessInv => OneChecker
BY DEF ReadinessInv, RunningIsOne, OneChecker

(* A stuck checker is never joined by a second one.                        *)
THEOREM NoOverlap == Spec => []OneChecker
BY CheckersAlone, ReadinessInvariant, PTL

LEMMA InvIsHonest == ReadinessInv => HonestReport
<1>. SUFFICES ASSUME ReadinessInv, NEW c \in Check, pc[c] = "returned"
              PROVE  /\ \A d \in Dependency :
                          /\ report[c][d] # "none" <=> d \in snapshot[c]
                          /\ report[c][d] = "READY" => answer[c][d] = "nil"
                     /\ Ready(c) => \A d \in Required \intersect snapshot[c] : answer[c][d] = "nil"
  BY DEF HonestReport
<1>1. \A d \in Dependency :
         /\ report[c][d] # "none" <=> d \in snapshot[c]
         /\ report[c][d] = "READY" => answer[c][d] = "nil"
  BY DEF ReadinessInv, ReportGrows
<1>2. \A d \in Dependency : report[c][d] \in {"none", "READY", "NOT_READY"}
  BY DEF ReadinessInv, TypeOK
<1>. QED
  BY <1>1, <1>2, ReadinessAssumption DEF Ready

(* What a report says was answered to the very call that reports it.       *)
THEOREM ReportsAreHonest == Spec => []HonestReport
BY InvIsHonest, ReadinessInvariant, PTL

=============================================================================
