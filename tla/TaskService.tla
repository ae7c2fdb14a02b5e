---------------------------- MODULE TaskService ----------------------------
(***************************************************************************)
(* What the code runner promises to the server that sends it tasks, seen   *)
(* from the outside: the life of each task.  A task is run at most once;   *)
(* it goes back to the queue only before it was given to a worker; an      *)
(* answer is final, and so is the loss of a task.  CloudMaster implements  *)
(* this specification.                                                     *)
(***************************************************************************)
CONSTANT Tasks

VARIABLE status    \* status[t]: where task t is in its life

Status == {"absent", "queued", "taken", "running", "answered", "discarded", "lost"}

TypeInvariant == status \in [Tasks -> Status]

Init == status = [t \in Tasks |-> "absent"]

Becomes(t, from, to) ==
  /\ status[t] \in from
  /\ status' = [status EXCEPT ![t] = to]

Arrive(t)  == Becomes(t, {"absent"}, "queued")
Take(t)    == Becomes(t, {"queued"}, "taken")
Return(t)  == Becomes(t, {"taken"}, "queued")     \* over the rate limit
Discard(t) == Becomes(t, {"taken"}, "discarded")  \* outdated
Run(t)     == Becomes(t, {"taken"}, "running")
Answer(t)  == Becomes(t, {"running"}, "answered")

\* A connection, a worker or the whole runner goes away with the tasks it has
Lose(S) ==
  /\ \A t \in S : status[t] \in {"taken", "running"}
  /\ status' = [t \in Tasks |-> IF t \in S THEN "lost" ELSE status[t]]

Next ==
  \/ \E t \in Tasks : \/ Arrive(t) \/ Take(t) \/ Return(t) \/ Discard(t)
                      \/ Run(t) \/ Answer(t)
  \/ \E S \in SUBSET Tasks : Lose(S)

Spec == Init /\ [][Next]_status

=============================================================================
