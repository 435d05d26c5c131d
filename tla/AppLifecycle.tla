---------------------------- MODULE AppLifecycle ----------------------------
(* The refinement mapping from App to Lifecycle.  The phase is read off    *)
(* what a caller can see: readiness is App.ready itself, so the window in  *)
(* which Run has decided to shut down but has not yet stored false still   *)
(* counts as ready.                                                        *)
EXTENDS App

phaseOf ==
  CASE ready -> "ready"
    [] ~ready /\ pc = "idle" -> "new"
    [] ~ready /\ pc \in {"launching", "awaiting", "draining"} -> "starting"
    [] ~ready /\ pc \in {"serving", "cancelling", "stopAll", "collect"} -> "draining"
    [] ~ready /\ pc \in {"finish", "returned"} -> "ended"

begunOf    == {c \in Component : start[c] # "idle"}
upOf       == {c \in Component : startup[c]}
goneOf     == {c \in Component : start[c] = "done"}
stoppingOf == {c \in Component : stop[c] = "running"}
stoppedOf  == {c \in Component : stop[c] = "returned"}
cleanOf    == pc \in {"finish", "returned"} /\ ~result.timeout

L == INSTANCE Lifecycle WITH
       phase <- phaseOf, order <- components, begun <- begunOf, up <- upOf,
       gone <- goneOf, stopping <- stoppingOf, stopped <- stoppedOf,
       clean <- cleanOf

(* App implements Lifecycle: whatever the goroutines of app.go do, what a  *)
(* caller sees is a behaviour of the abstract lifecycle.                   *)
ImplementsLifecycle == L!Spec

=============================================================================
