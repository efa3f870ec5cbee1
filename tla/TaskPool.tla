------------------------------ MODULE TaskPool ------------------------------
(***************************************************************************)
(* What the thread pool of src/threadpool.c promises to its callers, with  *)
(* no threads, no lock and no queue order: a task that is accepted is      *)
(* started at most once, a graceful shutdown returns only after every      *)
(* accepted task has been run, and nothing is started once an immediate    *)
(* shutdown has begun.                                                     *)
(***************************************************************************)
CONSTANT Tasks

VARIABLES
  status,   \* of each task
  phase     \* of the pool: "open", "graceful", "immediate", "returned"

poolVars == <<status, phase>>

PoolTypeOK ==
  /\ status \in [Tasks -> {"new", "refused", "queued", "running", "ran", "dropped"}]
  /\ phase  \in {"open", "graceful", "immediate", "returned"}

PoolInit == status = [t \in Tasks |-> "new"] /\ phase = "open"

Becomes(t, from, to) == status[t] = from /\ status' = [status EXCEPT ![t] = to]

Accept(t) == phase = "open" /\ Becomes(t, "new", "queued") /\ UNCHANGED phase
Refuse(t) == Becomes(t, "new", "refused") /\ UNCHANGED phase
Start(t)  == /\ phase \in {"open", "graceful"}
             /\ Becomes(t, "queued", "running") /\ UNCHANGED phase
Finish(t) == Becomes(t, "running", "ran") /\ UNCHANGED phase

ShutDown ==
  /\ phase = "open"
  /\ phase' \in {"graceful", "immediate"}
  /\ UNCHANGED status

Return ==
  /\ phase \in {"graceful", "immediate"}
  /\ \A t \in Tasks : status[t] # "running"
  /\ phase = "graceful" => \A t \in Tasks : status[t] # "queued"
  /\ phase'  = "returned"
  /\ status' = [t \in Tasks |-> IF status[t] = "queued" THEN "dropped" ELSE status[t]]

PoolNext == \/ \E t \in Tasks : Accept(t) \/ Refuse(t) \/ Start(t) \/ Finish(t)
            \/ ShutDown \/ Return

PoolSpec == PoolInit /\ [][PoolNext]_poolVars
=============================================================================
