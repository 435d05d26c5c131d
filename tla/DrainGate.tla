------------------------------ MODULE DrainGate ------------------------------
(***************************************************************************)
(* What the activity tracker promises Stop: a gate that lets RPCs in until *)
(* it is closed, and that a Stop passes only when the gate is closed and   *)
(* nobody is inside.                                                       *)
(***************************************************************************)
CONSTANTS Request, Waiter

VARIABLES inside, closed, passed

vars == <<inside, closed, passed>>

Init == inside = {} /\ closed = FALSE /\ passed = {}

Enter(r) ==
  /\ ~closed
  /\ r \notin inside
  /\ inside' = inside \union {r}
  /\ UNCHANGED <<closed, passed>>

Leave(r) ==
  /\ r \in inside
  /\ inside' = inside \ {r}
  /\ UNCHANGED <<closed, passed>>

Close ==
  /\ closed' = TRUE
  /\ UNCHANGED <<inside, passed>>

Pass(w) ==
  /\ closed
  /\ inside = {}
  /\ passed' = passed \union {w}
  /\ UNCHANGED <<inside, closed>>

Next ==
  \/ \E r \in Request : Enter(r) \/ Leave(r)
  \/ Close
  \/ \E w \in Waiter : Pass(w)

Spec == Init /\ [][Next]_vars
=============================================================================
