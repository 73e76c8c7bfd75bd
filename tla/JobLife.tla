------------------------------ MODULE JobLife ------------------------------
(***************************************************************************)
(* What the state of a job promises, without workers, requests, locks and  *)
(* retries: the steps of the rows of queue.job that their readers may      *)
(* count on (the states of job.py, README.rst), and when the work of the   *)
(* method counts as done.  QueueJob implements it while no live worker is  *)
(* taken for dead and users at most cancel.                                *)
(***************************************************************************)
EXTENDS Naturals, JobStates

CONSTANTS Job, Parents

VARIABLES
  state,     \* of the row
  commits    \* how often the work of the job was committed

lifeVars == <<state, commits>>

AllDone(S) == \A p \in S : state[p] = Done

\* The rows S get the state s.
Become(S, s) == state' = [j \in Job |-> IF j \in S THEN s ELSE state[j]]

\* The end of their last parent releases jobs.
Release(S) ==
  /\ \A c \in S : state[c] = WaitDependencies /\ AllDone(Parents[c])
  /\ Become(S, Pending)
  /\ UNCHANGED commits

\* Only what waits for a worker is handed to one.  A job that a user cancelled
\* after the runner had read it is enqueued all the same.
Hand(j) ==
  /\ state[j] \in {Pending, Cancelled}
  /\ AllDone(Parents[j])
  /\ Become({j}, Enqueued)
  /\ UNCHANGED commits

Take(j) ==
  /\ state[j] = Enqueued
  /\ Become({j}, Started)
  /\ UNCHANGED commits

\* The work and the state are one commit.
Complete(j) ==
  /\ state[j] = Started
  /\ Become({j}, Done)
  /\ commits' = [commits EXCEPT ![j] = @ + 1]

\* A job that did not end is tried again, or failed for good.
TryAgain(j) ==
  /\ state[j] \in Active
  /\ Become({j}, Pending)
  /\ UNCHANGED commits

GiveUp(j) ==
  /\ state[j] \in Active
  /\ Become({j}, Failed)
  /\ UNCHANGED commits

\* A user cancels a job nobody works on; children that wait for it go along.
Cancel(j, S) ==
  /\ state[j] \in {Pending, Enqueued, Failed}
  /\ \A c \in S : state[c] = WaitDependencies /\ j \in Parents[c]
  /\ Become({j} \cup S, Cancelled)
  /\ UNCHANGED commits

LifeInit ==
  /\ state = [j \in Job |-> IF Parents[j] = {} THEN Pending ELSE WaitDependencies]
  /\ commits = [j \in Job |-> 0]

LifeNext ==
  \/ \E S \in SUBSET Job : Release(S)
  \/ \E j \in Job :
       \/ Hand(j) \/ Take(j) \/ Complete(j) \/ TryAgain(j) \/ GiveUp(j)
       \/ \E S \in SUBSET Job : Cancel(j, S)

LifeSpec == LifeInit /\ [][LifeNext]_lifeVars
=============================================================================
