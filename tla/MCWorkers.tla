----------------------------- MODULE MCWorkers -----------------------------
(* Instances of QueueJob: a job alone; a group of two jobs and the one after it. *)
EXTENDS QueueJob, TLC

CONSTANTS p, q, c, d, w1, w2, admin

\* One job on which users press buttons.
MCAlone == {p}
MCAloneParents == p :> {}
MCAloneRetries == p :> 1
MCAloneOutcomes == p :> {"ok", "nothing", "retry", "ignore", "conflict", "fail"}

\* A group of two jobs, then a job.
MCGroup == {p, q, c}
MCGroupParents == (p :> {}) @@ (q :> {}) @@ (c :> {p, q})
MCGroupRetries == (p :> 2) @@ (q :> 1) @@ (c :> 2)
MCGroupOutcomes == (p :> {"ok", "retry"}) @@ (q :> {"nothing", "fail"}) @@ (c :> {"ok", "retry"})

\* A job without limit of retries.
MCEndless == p :> 0
MCEndlessOutcomes == p :> {"ok", "retry"}

\* Two jobs; c waits for both, d for the first alone.
MCFork == {p, q, c, d}
MCForkParents == (p :> {}) @@ (q :> {}) @@ (c :> {p, q}) @@ (d :> {p})
MCForkRetries == [j \in MCFork |-> 1]
MCForkOutcomes == [j \in MCFork |-> {"ok"}]

MCWorkers == {w1, w2}
Symmetry == Permutations(MCWorkers)
=============================================================================
