------------------------------ MODULE Lifecycle ------------------------------
(***************************************************************************)
(* What App promises a process, without goroutines, channels or timers:    *)
(* it starts what was registered, calls itself ready between startup and   *)
(* shutdown only, stops everything one at a time in reverse order, and     *)
(* returns cleanly only when nothing is left running.                      *)
(***************************************************************************)
EXTENDS Integers, Sequences

CONSTANTS Component, Notifier

VARIABLES
  phase,     \* "new", "starting", "ready", "draining", "ended"
  order,     \* the registered components
  begun,     \* those whose Start may have been called
  up,        \* those that crossed their startup boundary
  gone,      \* those whose Start has returned for good
  stopping,  \* the component being stopped, if any: a set of at most one
  stopped,   \* those whose Stop has returned
  clean      \* the process ended with nothing left running

vars == <<phase, order, begun, up, gone, stopping, stopped, clean>>

Members == {order[i] : i \in DOMAIN order}

Init ==
  /\ phase = "new"
  /\ order = <<>>
  /\ begun = {} /\ up = {} /\ gone = {}
  /\ stopping = {} /\ stopped = {}
  /\ clean = FALSE

Register(c) ==
  /\ phase = "new"
  /\ c \notin Members
  /\ order' = Append(order, c)
  /\ UNCHANGED <<phase, begun, up, gone, stopping, stopped, clean>>

Begin ==
  /\ phase = "new"
  /\ order # <<>>
  /\ phase' = "starting"
  /\ UNCHANGED <<order, begun, up, gone, stopping, stopped, clean>>

(* Components are launched in registration order.                          *)
Launch ==
  /\ phase = "starting"
  /\ \E i \in DOMAIN order :
       /\ begun = {order[j] : j \in 1 .. (i - 1)}
       /\ begun' = begun \union {order[i]}
  /\ UNCHANGED <<phase, order, up, gone, stopping, stopped, clean>>

CrossStartup(c) ==
  /\ c \in (begun \intersect Notifier) \ up
  /\ up' = up \union {c}
  /\ UNCHANGED <<phase, order, begun, gone, stopping, stopped, clean>>

Exit(c) ==
  /\ c \in begun \ gone
  /\ gone' = gone \union {c}
  /\ UNCHANGED <<phase, order, begun, up, stopping, stopped, clean>>

BecomeReady ==
  /\ phase = "starting"
  /\ begun = Members
  /\ Members \intersect Notifier \subseteq up
  /\ phase' = "ready"
  /\ UNCHANGED <<order, begun, up, gone, stopping, stopped, clean>>

Drain ==
  /\ phase \in {"starting", "ready"}
  /\ begun = Members
  /\ phase' = "draining"
  /\ UNCHANGED <<order, begun, up, gone, stopping, stopped, clean>>

(* Everything registered after c has been stopped.                         *)
BeginStop(c) ==
  /\ phase \in {"draining", "ended"}
  /\ stopping = {}
  /\ \E i \in DOMAIN order :
       /\ c = order[i]
       /\ stopped = {order[j] : j \in (i + 1) .. Len(order)}
  /\ stopping' = {c}
  /\ UNCHANGED <<phase, order, begun, up, gone, stopped, clean>>

EndStop(c) ==
  /\ stopping = {c}
  /\ stopping' = {}
  /\ stopped' = stopped \union {c}
  /\ UNCHANGED <<phase, order, begun, up, gone, clean>>

End ==
  /\ phase = "draining"
  /\ phase' = "ended"
  /\ clean' \in BOOLEAN
  /\ clean' => (stopped = Members /\ gone = Members)
  /\ UNCHANGED <<order, begun, up, gone, stopping, stopped>>

Next ==
  \/ Begin \/ Launch \/ BecomeReady \/ Drain \/ End
  \/ \E c \in Component :
       Register(c) \/ CrossStartup(c) \/ Exit(c) \/ BeginStop(c) \/ EndStop(c)

Spec == Init /\ [][Next]_vars
=============================================================================
