------------------------ MODULE AsyncTaskLifecycle ------------------------
(***************************************************************************)
(* What the async runtime promises about a task, whatever its pool does:   *)
(* a task is submitted or refused once, its body begins at most once and   *)
(* never after a cancellation was requested, its first terminal state is   *)
(* its last, and it is reported completed only if it ran and nobody had    *)
(* asked for its cancellation before it finished.                          *)
(***************************************************************************)
CONSTANT Tasks

VARIABLES
  phase,  \* of each task: "new", "submitted", "running", "completed", "cancelled"
  asked   \* tasks whose cancellation was requested

vars == <<phase, asked>>

Phases == {"new", "submitted", "running", "completed", "cancelled"}

TypeOK == phase \in [Tasks -> Phases] /\ asked \subseteq Tasks

Init ==
  /\ phase = [t \in Tasks |-> "new"]
  /\ asked = {}

\* The moves of one task
Submit(t)   == phase[t] = "new" /\ phase'[t] = "submitted"
Refuse(t)   == phase[t] = "new" /\ phase'[t] = "cancelled"
Begin(t)    == phase[t] = "submitted" /\ t \notin asked /\ phase'[t] = "running"
Complete(t) == phase[t] = "running" /\ t \notin asked /\ phase'[t] = "completed"
CancelTask(t) == phase[t] \in {"submitted", "running"} /\ phase'[t] = "cancelled"
Stay(t)     == phase'[t] = phase[t]

\* One step of the runtime may move several tasks: an abort cancels all that
\* are queued.  A request is only made of a task that exists, and stays.
Move ==
  /\ phase' \in [Tasks -> Phases]
  /\ \A t \in Tasks :
       \/ Submit(t) \/ Refuse(t) \/ Begin(t) \/ Complete(t)
       \/ CancelTask(t) \/ Stay(t)
  /\ asked \subseteq asked' /\ asked' \subseteq Tasks
  /\ \A t \in asked' \ asked : phase[t] # "new"

Spec == Init /\ [][Move]_vars
=============================================================================
