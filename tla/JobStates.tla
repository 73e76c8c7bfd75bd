----------------------------- MODULE JobStates -----------------------------
(***************************************************************************)
(* The states of a queue job (queue_job/job.py) and the groups of states   *)
(* the runner, the channels and the sweep of dead jobs test for.           *)
(***************************************************************************)

WaitDependencies == "wait_dependencies"
Pending   == "pending"
Enqueued  == "enqueued"
Started   == "started"
Done      == "done"
Cancelled == "cancelled"
Failed    == "failed"

States == {WaitDependencies, Pending, Enqueued, Started, Done, Cancelled, Failed}

\* What the runner loads when it starts (channels.py).
NotDone == {WaitDependencies, Pending, Enqueued, Started, Failed}

\* Mutant: the sweep forgets the started jobs.
ActiveNotStarted == {Enqueued}

\* The states that occupy a place in a channel, and that the sweep looks at.
Active == {Enqueued, Started}
=============================================================================
