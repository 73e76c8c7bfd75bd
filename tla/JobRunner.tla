----------------------------- MODULE JobRunner -----------------------------
(***************************************************************************)
(* The runner at work on a database (queue_job/jobrunner/runner.py): the   *)
(* channels of Channels, the rows and transactions of QueueJob, and what   *)
(* is between them: the notifications the trigger on queue_job sends at    *)
(* each commit (post_init_hook.py), the load of the rows when the database *)
(* is opened, and set_job_enqueued for each job the root channel lets go.  *)
(*                                                                         *)
(* A notification only carries the uuid: the row is read when it is        *)
(* handled.  The jobs of a pass come from what was read before the pass.   *)
(***************************************************************************)
EXTENDS Channels

CONSTANTS
  ChannelOf, Priority,      \* [Job -> Channel], [Job -> Nat]: columns of the row
  Delay,                    \* the seconds by which a postponed job is delayed
  Worker, Admin, Parents, MaxRetries, Outcomes, Buttons, Prompt, Lossy,
  MaxRuns, MaxRequests, MaxCrashes, MaxPresses      \* see QueueJob

VARIABLES
  state, retry, lockRow, requests, tx, runs, commits, crashes, presses,
  eta,          \* queue_job.eta
  notes         \* the notifications the connection of the runner received

chState == <<placement, pause, todo, passNow, clock, phase, lastPass>>
dbState == <<state, retry, lockRow, requests, tx, runs, commits, crashes, presses, eta>>
vars == <<chState, dbState, notes>>

\* The jobs in a queue of some channel.
Ready == {j \in Job : \E c \in Channel : j \in queue[c]}

Jobs == INSTANCE QueueJob WITH noticed <- Ready

ASSUME RunnerAssumption ==
  /\ ChannelOf \in [Job -> Channel]
  /\ Priority \in [Job -> Nat]
  /\ Delay \in Nat

\* What QueueJob assumes of its constants.
ASSUME RowsAssumption ==
  /\ Job # {}
  /\ Admin \notin Worker
  /\ Parents \in [Job -> SUBSET Job]
  /\ MaxRetries \in [Job -> Nat]
  /\ Outcomes \in [Job -> SUBSET Jobs!Outcome]
  /\ Buttons \subseteq {"set_done", "set_cancelled", "set_pending"}
  /\ Prompt \in BOOLEAN /\ Lossy \in BOOLEAN
  /\ MaxRuns \in Nat /\ MaxRequests \in Nat /\ MaxCrashes \in Nat /\ MaxPresses \in Nat

RowAttr(j) == [channel |-> ChannelOf[j], priority |-> Priority[j], eta |-> eta[j]]

\* queue_job_notify: a commit notifies the rows it wrote to whoever listens.
Notifying ==
  notes' = IF phase = "down" THEN {}
           ELSE notes \cup {j \in Job : <<state[j], retry[j], eta[j]>>'
                                        # <<state[j], retry[j], eta[j]>>}

-----------------------------------------------------------------------------
(* The steps of the workers and of the users *)

ServeJobs ==
  /\ \/ \E j \in Job : Jobs!Serve(j) \/ Jobs!LoseRequest(j)
     \/ \E w \in Worker : Jobs!Execute(w) \/ Jobs!Crash(w)
     \/ Jobs!User
  /\ UNCHANGED <<chState, eta>>
  /\ Notifying

\* Job.postpone gives the row a new eta.
PostponeJob(w) ==
  /\ Jobs!Postpone(w)
  /\ eta' = [eta EXCEPT ![tx[w].job] = clock + Delay]
  /\ UNCHANGED chState
  /\ Notifying

-----------------------------------------------------------------------------
(* QueueJobRunner.run *)

\* initialize_databases: LISTEN, then the rows that are not done are notified;
\* those that change meanwhile are notified again before the first pass.
InitializeDatabases ==
  /\ Open
  /\ notes' = {j \in Job : state[j] \in NotDone}
  /\ UNCHANGED dbState

\* requeue_dead_jobs, at the start of each turn of the loop.
RequeueDeadJobs ==
  /\ phase = "listen"
  /\ \E j \in Job : Jobs!RequeueDeadJob(j)
  /\ UNCHANGED <<chState, eta>>
  /\ Notifying

\* Mutant: whoever is notified is taken for pending.
ProcessAsPending(j) ==
  /\ j \in notes
  /\ HandleRow(j, RowAttr(j), Pending)
  /\ notes' = notes \ {j}
  /\ UNCHANGED dbState

\* process_notifications, one at a time.
ProcessNotification(j) ==
  /\ j \in notes
  /\ HandleRow(j, RowAttr(j), state[j])
  /\ notes' = notes \ {j}
  /\ UNCHANGED dbState

\* run_jobs begins when there are no more of them.
BeginRunJobs ==
  /\ notes = {}
  /\ RunJobs
  /\ UNCHANGED <<dbState, notes>>

AfterStep == phase' = IF Root \in todo' THEN "pass" ELSE "asleep"

\* A step of get_jobs_to_run below the root, or without a job.
StepRunJobs ==
  /\ phase = "pass"
  /\ \E c \in Channel : \/ Exhaust(c)
                        \/ c # Root /\ \E j \in queue[c] : LetThrough(c, j)
  /\ AfterStep
  /\ UNCHANGED <<clock, dbState, notes>>

\* get_jobs_to_run yields j.
RunJob(j) ==
  /\ phase = "pass"
  /\ LetThrough(Root, j)
  /\ AfterStep
  /\ Jobs!SetJobEnqueued(j)
  /\ UNCHANGED <<clock, eta>>
  /\ Notifying

\* wait_notification returns: something was received, or its timeout ended.
WaitNotification ==
  /\ WakeUp
  /\ UNCHANGED <<dbState, notes>>

\* An exception in the loop, then close_databases.
CloseDatabases ==
  /\ Close
  /\ notes' = {}
  /\ UNCHANGED dbState

\* set_job_enqueued raises, for the job the root yields.  (When its statement
\* was committed and only the answer is lost, the rows see RunJob, the loss of
\* the request and CloseDatabases.)
AbandonRunJob(j) ==
  /\ Abandon(j)
  /\ notes' = {}
  /\ UNCHANGED dbState

Time ==
  /\ Tick
  /\ UNCHANGED <<dbState, notes>>

RunnerInit ==
  /\ ChInit
  /\ Jobs!QjInit
  /\ eta = [j \in Job |-> 0]
  /\ notes = {}

RunnerNext ==
  \/ ServeJobs
  \/ \E w \in Worker : PostponeJob(w)
  \/ InitializeDatabases
  \/ RequeueDeadJobs
  \/ \E j \in Job : ProcessNotification(j)
  \/ BeginRunJobs
  \/ StepRunJobs
  \/ \E j \in Job : RunJob(j)
  \/ WaitNotification
  \/ CloseDatabases
  \/ \E j \in Job : AbandonRunJob(j)
  \/ Time

RunnerSpec == RunnerInit /\ [][RunnerNext]_vars

-----------------------------------------------------------------------------
(* Properties *)

\* Every variable has its type.
RunnerTypeOK ==
  /\ ChTypeOK
  /\ Jobs!QjTypeOK
  /\ eta \in [Job -> Nat]
  /\ notes \subseteq Job

\* The jobs a channel and the channels upstream of it keep busy: the rows.
ActiveIn(c) == {j \in Job : state[j] \in Active /\ c \in Above[ChannelOf[j]]}

\* Never more jobs enqueued or started than the capacity of a channel, whatever
\* the users do, the workers crash, the runner restarts and its copy is stale.
CapacityRespected ==
  \A c \in Channel : Capacity[c] > 0 => Cardinality(ActiveIn(c)) <= Capacity[c]

\* The workers alive with a Job object keep to the capacities as well, so long
\* as no live worker is taken for dead and no user requeues a started job.
PerformersWithinCapacity ==
  \A c \in Channel : Capacity[c] > 0 =>
    Cardinality({w \in Worker : /\ tx[w].at \in Jobs!Holding
                                /\ c \in Above[ChannelOf[tx[w].job]]}) <= Capacity[c]

\* A runner with nothing left to process agrees with the rows: every pending
\* job is queued, every active one occupies its whole path, every failed one
\* is noted, and no other one takes a place.
InSync ==
  phase \in {"listen", "asleep"} /\ notes = {} =>
    \A j \in Job :
      /\ state[j] = Pending <=> j \in Ready
      /\ state[j] \in Active <=> \A c \in Above[ChannelOf[j]] : j \in running[c]
      /\ state[j] = Failed <=> j \in failed[ChannelOf[j]]

\* The runner and the channels only do to the rows what QueueJob lets a runner
\* do with the set of jobs it noticed.
ImplementsQueueJob == Jobs!QjSpec
=============================================================================
