----------------------------- MODULE AppHistory -----------------------------
(* App with one history variable: the component whose failure brought the  *)
(* process down, that is the first Start to return, with an error, before  *)
(* anybody asked for shutdown.                                             *)
EXTENDS MCApp

VARIABLE rootCause

Fails(c) ==
  /\ start[c] = "running" /\ start'[c] = "returned"
  /\ results'[Len(results')].failed

HistoryInit == Init /\ rootCause = None

HistoryNext ==
  /\ Next
  /\ IF /\ ~cancelled
        /\ \A c \in Component : start[c] \notin {"returned", "done"}
        /\ \E c \in Component : Fails(c)
     THEN rootCause' = CHOOSE c \in Component : Fails(c)
     ELSE UNCHANGED rootCause

HistorySpec == HistoryInit /\ [][HistoryNext]_<<vars, rootCause>>

(* docs/architecture-and-roadmap.md:341 has App keep and return the root   *)
(* cause error: when a component fails before anything else ends the       *)
(* process, Run returns that component's error.                            *)
RootCauseReturned ==
  (pc = "returned" /\ rootCause # None) => result.start = rootCause

=============================================================================
