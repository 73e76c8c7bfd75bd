------------------------------ MODULE QueueJob ------------------------------
(***************************************************************************)
(* The rows of queue.job and the transactions on them: the worker that     *)
(* serves /queue_job/runjob (controllers/main.py, job.py), the buttons of  *)
(* the users (models/queue_job.py) and the two statements of the runner    *)
(* (set_job_enqueued and the sweep of dead jobs, jobrunner/runner.py).     *)
(*                                                                         *)
(* Transactions of Odoo are REPEATABLE READ: one that updates a row        *)
(* somebody else committed after its snapshot fails with a serialization   *)
(* error.  tx[a].fresh says that no row the transaction of a is about to   *)
(* write was committed by another since its snapshot.                      *)
(***************************************************************************)
EXTENDS Naturals, FiniteSets, JobStates

CONSTANTS
  Job,
  Worker,       \* the request handlers that may perform jobs at the same time
  Admin,        \* the session of a user who presses buttons
  Parents,      \* [Job -> SUBSET Job]: dependencies.depends_on
  MaxRetries,   \* [Job -> Nat], 0 is "infinite retries"
  Outcomes,     \* [Job -> SUBSET Outcome]: what the method of the job may do
  Buttons,      \* the buttons users press
  Prompt,       \* a live worker is never without its lock for long enough that
                \* the sweep, with its buffer of 10 seconds, takes it for dead
  Lossy,        \* a request to run a job may get lost
  MaxRuns,      \* bound on the times a job is started
  MaxRequests,  \* bound on the requests on their way for a job
  MaxCrashes,   \* bound on the crashes of workers
  MaxPresses    \* bound on the buttons pressed

VARIABLES
  state,        \* queue_job.state
  retry,        \* queue_job.retry
  lockRow,      \* the jobs with a row in queue_job_lock
  requests,     \* runjob requests on their way, by job
  tx,           \* the transactions of the workers and of the user
  noticed,      \* the jobs the runner holds as ready to be enqueued
  runs,         \* history: how often each job was started
  commits,      \* history: how often the work of each job was committed
  crashes,      \* history: crashes so far
  presses       \* history: buttons pressed so far

rows == <<state, retry, lockRow>>
history == <<runs, commits, crashes, presses>>
dbVars == <<rows, requests, tx, history>>
qjVars == <<dbVars, noticed>>

Outcome == {"ok", "nothing", "retry", "ignore", "conflict", "fail"}
Actor == Worker \cup {Admin}

ASSUME QueueJobAssumption ==
  /\ IsFiniteSet(Job) /\ Job # {}
  /\ Admin \notin Worker
  /\ Parents \in [Job -> SUBSET Job]
  /\ MaxRetries \in [Job -> Nat]
  /\ Outcomes \in [Job -> SUBSET Outcome]
  /\ Buttons \subseteq {"set_done", "set_cancelled", "set_pending"}
  /\ Prompt \in BOOLEAN
  /\ Lossy \in BOOLEAN
  /\ MaxRuns \in Nat /\ MaxRequests \in Nat /\ MaxCrashes \in Nat /\ MaxPresses \in Nat

Steps == {"idle", "started", "locking", "performing", "postpone", "fail",
          "done", "release", "set_done", "set_cancelled", "set_pending"}

Tx == [at : Steps,            \* where the code stands
       job : Job,             \* the Job object
       retry : Nat,           \* its retry
       ready : BOOLEAN,       \* its depends_on, as cached: they were all done
       locked : BOOLEAN,      \* holds FOR UPDATE the row of queue_job_lock
       fresh : BOOLEAN,
       wake : SUBSET Job]     \* the dependent rows its statement updates

Children(j) == {c \in Job : j \in Parents[c]}

\* The rows a transaction with a snapshot is going to update.
Watched(t) ==
  CASE t.at \in {"locking", "performing"} -> {t.job}
    [] t.at = "release" -> t.wake
    [] t.at \in {"set_done", "set_cancelled", "set_pending"} -> {t.job} \cup t.wake
    [] OTHER -> {}

Continue(w, t) == tx' = [tx EXCEPT ![w] = t]

\* A commit on the rows S makes the snapshots of the others stale.
Committed(T, S) ==
  [a \in Actor |-> [T[a] EXCEPT !.fresh = @ /\ Watched(T[a]) \cap S = {}]]

IdleTx == [at |-> "idle", job |-> CHOOSE j \in Job : TRUE, retry |-> 0, ready |-> TRUE,
           locked |-> FALSE, fresh |-> TRUE, wake |-> {}]

\* Mutant: without the condition on the other parents.
DependentsOfOne(j, s) == {c \in Children(j) : state[c] = WaitDependencies}

\* _get_common_dependent_jobs_query: the children of j waiting for it whose
\* parents all have the state s, when j has it.
Dependents(j, s) ==
  {c \in Children(j) : /\ state[c] = WaitDependencies
                       /\ \A p \in Parents[c] \ {j} : state[p] = s}

ParentsDone(j) == \A p \in Parents[j] : state[p] = Done

\* Job.set_pending
SetPending(ready) == IF ready THEN Pending ELSE WaitDependencies

-----------------------------------------------------------------------------
(* RunJobController.runjob *)

\* The request finds the job enqueued, locks its row, sets it started, adds
\* its lock record and commits.
StartJob(w, j) ==
  /\ tx[w].at = "idle"
  /\ requests[j] > 0
  /\ state[j] = Enqueued
  /\ runs[j] < MaxRuns
  /\ requests' = [requests EXCEPT ![j] = @ - 1]
  /\ state' = [state EXCEPT ![j] = Started]
  /\ lockRow' = lockRow \cup {j}
  /\ tx' = Committed([tx EXCEPT ![w] =
             [at |-> "started", job |-> j, retry |-> retry[j], ready |-> ParentsDone(j),
              locked |-> FALSE, fresh |-> TRUE, wake |-> {}]], {j})
  /\ runs' = [runs EXCEPT ![j] = @ + 1]
  /\ UNCHANGED <<retry, commits, crashes, presses>>

\* The request finds the job in another state, or gone.
RefuseJob(j) ==
  /\ requests[j] > 0
  /\ state[j] # Enqueued
  /\ requests' = [requests EXCEPT ![j] = @ - 1]
  /\ UNCHANGED <<rows, tx, history>>

\* Job.lock: the statement takes its snapshot; without a started row there is
\* nothing to lock and RetryableJobError is raised.
TryLock(w) ==
  /\ tx[w].at = "started"
  /\ Continue(w, [tx[w] EXCEPT !.fresh = TRUE,
                    !.at = IF state[tx[w].job] = Started THEN "locking" ELSE "postpone"])
  /\ UNCHANGED <<rows, requests, history>>

LockedBy(j) == {a \in Actor : tx[a].locked /\ tx[a].job = j}

\* Mutant: the try is not counted.
LockUncounted(w) ==
  /\ tx[w].at = "locking"
  /\ LockedBy(tx[w].job) = {}
  /\ Continue(w, [tx[w] EXCEPT !.at = "performing", !.locked = TRUE])
  /\ UNCHANGED <<rows, requests, history>>

\* ... and waits for the row lock.  Then Job.perform counts a try.
Lock(w) ==
  /\ tx[w].at = "locking"
  /\ LockedBy(tx[w].job) = {}
  /\ Continue(w, [tx[w] EXCEPT !.at = "performing", !.locked = TRUE, !.retry = @ + 1])
  /\ UNCHANGED <<rows, requests, history>>

Performing(w, outcome) ==
  /\ tx[w].at = "performing"
  /\ outcome \in Outcomes[tx[w].job]

\* Mutant: the work is committed before the job is stored.
CommitDoneUnstored(w) ==
  /\ commits' = [commits EXCEPT ![tx[w].job] = @ + 1]
  /\ Continue(w, [tx[w] EXCEPT !.at = "done", !.locked = FALSE])
  /\ UNCHANGED <<rows, requests, runs, crashes, presses>>

\* set_done, store and commit, together with the work of the method.
CommitDone(w) ==
  LET j == tx[w].job IN
  /\ state' = [state EXCEPT ![j] = Done]
  /\ retry' = [retry EXCEPT ![j] = tx[w].retry]
  /\ commits' = [commits EXCEPT ![j] = @ + 1]
  /\ tx' = Committed([tx EXCEPT ![w] = [tx[w] EXCEPT !.at = "done", !.locked = FALSE]], {j})
  /\ UNCHANGED <<lockRow, requests, runs, crashes, presses>>

\* Mutant: the update of a stale row succeeds, as in READ COMMITTED.
ReturnStale(w) == Performing(w, "ok") /\ CommitDone(w)

\* The method returns.  A serialization error of the update of the row (the
\* transaction is aborted, its locks are released) postpones the job.
Return(w) ==
  /\ Performing(w, "ok")
  /\ \/ tx[w].fresh /\ CommitDone(w)
     \/ /\ ~tx[w].fresh
        /\ Continue(w, [tx[w] EXCEPT !.at = "postpone", !.locked = FALSE])
        /\ UNCHANGED <<rows, requests, history>>

\* NothingToDoJob: done as well; here a serialization error is not handled.
NothingToDo(w) ==
  /\ Performing(w, "nothing")
  /\ \/ tx[w].fresh /\ CommitDone(w)
     \/ /\ ~tx[w].fresh
        /\ tx' = [tx EXCEPT ![w] = IdleTx]
        /\ UNCHANGED <<rows, requests, history>>

\* RetryableJobError: with retries exhausted it becomes FailedJobError.
RaiseRetryable(w) ==
  /\ Performing(w, "retry")
  /\ LET max == MaxRetries[tx[w].job] IN
     Continue(w, [tx[w] EXCEPT
                    !.at = IF max # 0 /\ tx[w].retry >= max THEN "fail" ELSE "postpone"])
  /\ UNCHANGED <<rows, requests, history>>

\* RetryableJobError with ignore_retry.
RaiseIgnored(w) ==
  /\ Performing(w, "ignore")
  /\ Continue(w, [tx[w] EXCEPT !.at = "postpone", !.retry = @ - 1])
  /\ UNCHANGED <<rows, requests, history>>

\* A concurrency error of PostgreSQL: the aborted transaction has no locks.
RaiseConflict(w) ==
  /\ Performing(w, "conflict")
  /\ Continue(w, [tx[w] EXCEPT !.at = "postpone", !.locked = FALSE])
  /\ UNCHANGED <<rows, requests, history>>

\* Any other exception, of Python or (locks released) of PostgreSQL.
RaiseOther(w) ==
  /\ Performing(w, "fail")
  /\ \E locked \in BOOLEAN : Continue(w, [tx[w] EXCEPT !.at = "fail", !.locked = locked])
  /\ UNCHANGED <<rows, requests, history>>

\* Mutant: the tries are not stored.
StoreWithoutRetry(w, newState) ==
  /\ state' = [state EXCEPT ![tx[w].job] = newState]
  /\ tx' = Committed([tx EXCEPT ![w] = IdleTx], {tx[w].job})
  /\ UNCHANGED <<retry, lockRow, requests, history>>

\* retry_postpone and set_failed write the Job object in a new transaction,
\* whatever the row says by then; the first one is rolled back afterwards.
StoreAndLeave(w, newState) ==
  LET j == tx[w].job IN
  /\ state' = [state EXCEPT ![j] = newState]
  /\ retry' = [retry EXCEPT ![j] = tx[w].retry]
  /\ tx' = Committed([tx EXCEPT ![w] = IdleTx], {j})
  /\ UNCHANGED <<lockRow, requests, history>>

Postpone(w) ==
  /\ tx[w].at = "postpone"
  /\ StoreAndLeave(w, SetPending(tx[w].ready))

Fail(w) ==
  /\ tx[w].at = "fail"
  /\ StoreAndLeave(w, Failed)

\* enqueue_waiting, one statement in a transaction of its own: its snapshot ...
SelectDependents(w) ==
  /\ tx[w].at = "done"
  /\ Continue(w, [tx[w] EXCEPT !.at = "release", !.fresh = TRUE,
                    !.wake = {c \in Dependents(tx[w].job, Done) : state[tx[w].job] = Done}])
  /\ UNCHANGED <<rows, requests, history>>

\* ... and its update.  A serialization error aborts the transaction, in which
\* the retry of _enqueue_dependent_jobs cannot execute anything.
EnqueueWaiting(w) ==
  /\ tx[w].at = "release"
  /\ state' = [j \in Job |-> IF tx[w].fresh /\ j \in tx[w].wake THEN Pending ELSE state[j]]
  /\ tx' = Committed([tx EXCEPT ![w] = IdleTx], IF tx[w].fresh THEN tx[w].wake ELSE {})
  /\ UNCHANGED <<retry, lockRow, requests, history>>

\* The process of the worker dies: its transaction is rolled back.
Crash(w) ==
  /\ tx[w].at # "idle"
  /\ crashes < MaxCrashes
  /\ crashes' = crashes + 1
  /\ tx' = [tx EXCEPT ![w] = IdleTx]
  /\ UNCHANGED <<rows, requests, runs, commits, presses>>

-----------------------------------------------------------------------------
(* The buttons of queue.job, one record at a time *)

\* What the button's transaction loads.  The wizards let a user press "done" in
\* any state, "requeue" in any but one, "cancel" in three.
Press(op, j) ==
  /\ tx[Admin].at = "idle"
  /\ op \in Buttons
  /\ presses < MaxPresses
  /\ op = "set_pending" => state[j] # WaitDependencies
  /\ op = "set_cancelled" => state[j] \in {Pending, Failed, Enqueued}
  /\ presses' = presses + 1
  /\ tx' = [tx EXCEPT ![Admin] =
             [at |-> op, job |-> j, retry |-> IF op = "set_pending" THEN 0 ELSE retry[j],
              ready |-> ParentsDone(j), locked |-> FALSE, fresh |-> TRUE,
              wake |-> CASE op = "set_done" -> Dependents(j, Done)
                         [] op = "set_cancelled" -> Dependents(j, Cancelled)
                         [] OTHER -> {}]]
  /\ UNCHANGED <<rows, requests, runs, commits, crashes>>

\* store, then enqueue_waiting or cancel_dependent_jobs, in one transaction.
CommitPress ==
  LET t == tx[Admin] IN
  /\ t.at \in {"set_done", "set_cancelled", "set_pending"}
  /\ t.fresh
  /\ state' = [i \in Job |->
       CASE t.at = "set_pending" /\ i = t.job -> SetPending(t.ready)
         [] t.at = "set_done" /\ i = t.job -> Done
         [] t.at = "set_cancelled" /\ i = t.job -> Cancelled
         [] i \in t.wake \ {t.job} -> IF t.at = "set_done" THEN Pending ELSE Cancelled
         [] OTHER -> state[i]]
  /\ retry' = [retry EXCEPT ![t.job] = t.retry]
  /\ tx' = Committed([tx EXCEPT ![Admin] = IdleTx], {t.job} \cup t.wake)
  /\ UNCHANGED <<lockRow, requests, history>>

\* A serialization error: rolled back (Odoo replays the request: Press again).
RollBackPress ==
  /\ tx[Admin].at \in {"set_done", "set_cancelled", "set_pending"}
  /\ ~tx[Admin].fresh
  /\ tx' = [tx EXCEPT ![Admin] = IdleTx]
  /\ UNCHANGED <<rows, requests, history>>

-----------------------------------------------------------------------------
(* The runner, as the database sees it *)

\* Database.set_job_enqueued, whatever the row says, and _async_http_get.
SetJobEnqueued(j) ==
  /\ requests[j] < MaxRequests
  /\ state' = [state EXCEPT ![j] = Enqueued]
  /\ requests' = [requests EXCEPT ![j] = @ + 1]
  /\ tx' = Committed(tx, {j})
  /\ UNCHANGED <<retry, lockRow, history>>

LoseRequest(j) ==
  /\ Lossy
  /\ requests[j] > 0
  /\ requests' = [requests EXCEPT ![j] = @ - 1]
  /\ UNCHANGED <<rows, tx, history>>

\* The workers with a Job object whose row they may still write.
Holding == {"started", "locking", "performing", "postpone", "fail"}
Owners(j) == {w \in Worker : tx[w].at \in Holding /\ tx[w].job = j}

\* Mutant: without SKIP LOCKED.
RequeueLockedJob(j) ==
  /\ j \in lockRow
  /\ state[j] \in Active
  /\ Prompt => \A w \in Owners(j) : tx[w].locked
  /\ state' = [state EXCEPT ![j] = IF retry[j] > MaxRetries[j] THEN Failed ELSE Pending]
  /\ retry' = [retry EXCEPT ![j] = IF state[j] = Started THEN @ + 1 ELSE @]
  /\ tx' = Committed(tx, {j})
  /\ UNCHANGED <<lockRow, requests, history>>

\* Database.requeue_dead_jobs, one row of the statement: a lock record exists
\* and nobody holds its row.  The 10 seconds of the code run from date_enqueued,
\* not from the start of the worker: what the request waited before counts, so
\* that Prompt asks more of a slow server than 10 seconds from start to lock.
RequeueDeadJob(j) ==
  /\ j \in lockRow
  /\ state[j] \in Active
  /\ LockedBy(j) = {}
  /\ Prompt => \A w \in Owners(j) : tx[w].locked
  /\ state' = [state EXCEPT ![j] = IF retry[j] > MaxRetries[j] THEN Failed ELSE Pending]
  /\ retry' = [retry EXCEPT ![j] = IF state[j] = Started THEN @ + 1 ELSE @]
  /\ tx' = Committed(tx, {j})
  /\ UNCHANGED <<lockRow, requests, history>>

\* The runner's copy, read after a notification and possibly stale when used:
\* the channels hold the job as ready, drop it, or let it run.
Notice(j) ==
  /\ state[j] = Pending
  /\ j \notin noticed
  /\ noticed' = noticed \cup {j}
  /\ UNCHANGED dbVars

Forget(S) ==
  /\ S # {}
  /\ noticed' = noticed \ S
  /\ UNCHANGED dbVars

Enqueue(j) ==
  /\ j \in noticed
  /\ SetJobEnqueued(j)
  /\ noticed' = noticed \ {j}

-----------------------------------------------------------------------------

QjInit ==
  /\ state = [j \in Job |-> SetPending(Parents[j] = {})]
  /\ retry = [j \in Job |-> 0]
  /\ lockRow = {}
  /\ requests = [j \in Job |-> 0]
  /\ tx = [a \in Actor |-> IdleTx]
  /\ noticed = {}
  /\ runs = [j \in Job |-> 0]
  /\ commits = [j \in Job |-> 0]
  /\ crashes = 0
  /\ presses = 0

Serve(j) == RefuseJob(j) \/ \E w \in Worker : StartJob(w, j)

Execute(w) ==
  \/ TryLock(w) \/ Lock(w)
  \/ Return(w) \/ NothingToDo(w)
  \/ RaiseRetryable(w) \/ RaiseIgnored(w) \/ RaiseConflict(w) \/ RaiseOther(w)
  \/ Fail(w)
  \/ SelectDependents(w) \/ EnqueueWaiting(w)

Perform(w) == Execute(w) \/ Postpone(w)

User == CommitPress \/ RollBackPress \/ \E op \in Buttons, j \in Job : Press(op, j)

\* The steps that leave the runner's copy alone.
Database ==
  \/ \E j \in Job : Serve(j) \/ RequeueDeadJob(j) \/ LoseRequest(j)
  \/ \E w \in Worker : Perform(w) \/ Crash(w)
  \/ User

QjNext ==
  \/ Database /\ UNCHANGED noticed
  \/ \E j \in Job : Notice(j) \/ Enqueue(j)
  \/ \E S \in SUBSET noticed : Forget(S)

QjSpec == QjInit /\ [][QjNext]_qjVars

\* Fairness: the process of the worker runs (Perform); the runner hears of a
\* job, sweeps and, whatever restarts it, completes a pass (Enqueue); the
\* requests of a job are not only served when it is not enqueued (StartJob).
\* Users, crashes and lost requests are not bound to happen.
QjFairness ==
  /\ \A w \in Worker : WF_qjVars(Perform(w) /\ UNCHANGED noticed)
  /\ \A j \in Job :
       /\ WF_qjVars(Notice(j))
       /\ SF_qjVars(Enqueue(j))
       /\ SF_qjVars((\E w \in Worker : StartJob(w, j)) /\ UNCHANGED noticed)
       /\ WF_qjVars(RefuseJob(j) /\ UNCHANGED noticed)
       /\ WF_qjVars(RequeueDeadJob(j) /\ UNCHANGED noticed)

QjFairSpec == QjSpec /\ QjFairness

-----------------------------------------------------------------------------
(* Properties *)

\* Every variable has its type.
QjTypeOK ==
  /\ state \in [Job -> States]
  /\ retry \in [Job -> Nat]
  /\ lockRow \subseteq Job
  /\ requests \in [Job -> Nat]
  /\ tx \in [Actor -> Tx]
  /\ noticed \subseteq Job
  /\ runs \in [Job -> Nat]
  /\ commits \in [Job -> Nat]
  /\ crashes \in Nat
  /\ presses \in Nat

\* The work of a method is committed only on a row that is still started: a
\* job cancelled, requeued, set done or swept while a worker performed it is
\* not committed by that worker.  This rests on the snapshot of Job.lock.
CommitsOnlyStarted ==
  [][\A j \in Job : commits'[j] # commits[j] =>
       /\ state[j] = Started
       /\ commits'[j] = commits[j] + 1]_qjVars

\* When users at most cancel and no live worker is taken for dead: whoever has a
\* Job object whose row it will write is alone with it, and the row is started.
SingleOwner ==
  \A w \in Worker : tx[w].at \in Holding =>
    /\ state[tx[w].job] = Started
    /\ Owners(tx[w].job) = {w}
    /\ tx[w].fresh

\* Then, the work of a job is committed once and exactly when its row says
\* done, in spite of crashes, sweeps, repeated requests and retries.
CommittedOnce == \A j \in Job : commits[j] = IF state[j] = Done THEN 1 ELSE 0

\* ... a child leaves wait_dependencies only once all its parents are done, unless
\* it is cancelled, although two workers release it from snapshots of their own
\* and a stale copy of the row of a cancelled job may queue it again,
ReleasedWhenDone ==
  \A j \in Job : state[j] \notin {WaitDependencies, Cancelled} => ParentsDone(j)

\* ... and a job whose method only succeeds, fails or asks for a retry is
\* started at most max_retries + 2 times: perform counts the tries up to
\* max_retries, the sweep of dead jobs two more.
AttemptsBounded ==
  \A j \in Job :
    MaxRetries[j] > 0 /\ Outcomes[j] \subseteq {"ok", "nothing", "retry", "fail"}
      => runs[j] <= MaxRetries[j] + 2

\* Every job is eventually done, failed or cancelled for good, in spite of crashes,
\* sweeps, retries and users who cancel; a child may wait for a parent that failed
\* or was cancelled, or, when there was a crash, because its parent's worker died
\* before it could release it.
EveryJobEnds ==
  \A j \in Job : <>[](\/ state[j] \in {Done, Failed, Cancelled}
                      \/ /\ state[j] = WaitDependencies
                         /\ ~ParentsDone(j) \/ crashes > 0)

\* When no live worker is taken for dead and users at most cancel, a row moves as
\* JobLife says, whatever requests, sweeps, stale copies and crashes there are: a
\* job that is done or failed is never queued again by a worker, a sweep or a
\* runner that comes late, nor is one that waits handed over too early.
Life == INSTANCE JobLife
ImplementsJobLife == Life!LifeSpec

-----------------------------------------------------------------------------
(* Claims of the documentation that the code does not keep *)

\* README.rst:329 "A value of 0 means infinite retries": such a job, whose
\* method never raises another exception, is never failed.
InfiniteRetries ==
  \A j \in Job :
    MaxRetries[j] = 0 /\ "fail" \notin Outcomes[j] => state[j] # Failed

\* README.rst:165 "Jobs that remain in enqueued or started state [...] will be
\* automatically re-queued", and runner.py:387 "Set started and enqueued jobs
\* but not locked to pending": no job remains enqueued.
EnqueuedIsRequeued == \A j \in Job : state[j] = Enqueued ~> state[j] # Enqueued

\* README.rst:274 "They remain in a state wait_dependencies until their parent
\* job is successful": a child whose parents are all done is released.
ChildrenFollow ==
  \A c \in Job : state[c] = WaitDependencies /\ ParentsDone(c) ~> state[c] # WaitDependencies
=============================================================================
