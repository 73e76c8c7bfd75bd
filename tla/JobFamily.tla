----------------------------- MODULE JobFamily -----------------------------
(***************************************************************************)
(* The rows of a graph of jobs from their creation to their deletion: the  *)
(* transaction that stores the graph, the crons that are delayed with an   *)
(* identity key (queue_job_cron/models/ir_cron.py), the jobs a finished or *)
(* cancelled one releases or takes along, the buttons, and autovacuum      *)
(* (queue_job/models/queue_job.py).                                        *)
(*                                                                         *)
(* A worker is its start, its end and the release of the dependents, each  *)
(* a transaction; QueueJob has what is inside them.  A button is pressed   *)
(* at the snapshot of its transaction and commits unless one of the rows   *)
(* it writes was written since.  Pending stands for enqueued as well.  A   *)
(* reference to a deleted row has no effect in the code, which joins       *)
(* existing rows: parents keeps it.                                        *)
(***************************************************************************)
EXTENDS Delayables, JobStates

CONSTANTS
  CronJob,    \* the jobs that crons delay
  NoParallel, \* those of crons with no_parallel_queue_job_run
  Caller,     \* the transaction that delays the graph
  Key,        \* the identity key of each job, or NoKey; of a job of a cron, the
              \* hash of its model, method, records and arguments
  NoKey,
  MaxPresses, \* bound on the buttons pressed
  Together    \* bound: whether crons run and users press buttons in one behaviour

VARIABLES
  row,        \* what queue_job holds of each job
  tx,         \* the transactions that create jobs
  releasing,  \* the jobs whose worker committed done and is to release others
  pressed,    \* the open transactions of the users
  finished,   \* history: the jobs that have been done
  lost,       \* history: the jobs deleted while not done
  left,       \* history: the jobs that were started or ended
  unreleased, \* history: the jobs whose worker ended without the release
  skewed,     \* history: the jobs left waiting by a user's stale snapshot
  presses     \* history: buttons pressed so far

history == <<finished, lost, left, unreleased, skewed, presses>>
familyVars == <<row, tx, releasing, pressed, history>>
jfVars == <<dyVars, familyVars>>

Job == Leaf \cup CronJob
Session == CronJob \cup {Caller}
Absent == "absent"
Deleted == "deleted"

ASSUME JobFamilyAssumption ==
  /\ Leaf \cap CronJob = {} /\ Caller \notin Job
  /\ DOMAIN Key = Job /\ NoParallel \subseteq CronJob
  /\ MaxPresses \in Nat /\ Together \in BOOLEAN

NoRow == [state |-> Absent, parents |-> {}, dated |-> FALSE]
Stored == {j \in Job : row[j].state \in States}

\* A cron passes identity_exact only when it must not run in parallel.
KeyOf(j) == IF j \in CronJob \ NoParallel THEN NoKey ELSE Key[j]

\* job_record_with_same_identity_key looks at the jobs in these states.
Queued == {WaitDependencies, Pending}
QueuedKeys == {KeyOf(j) : j \in {i \in Stored : row[i].state \in Queued}} \ {NoKey}

\* The jobs a transaction delays: a whole graph, or with_delay() of one.
Wanted(s) == IF s = Caller THEN plan.node ELSE {s}
KeysOf(s) == {KeyOf(j) : j \in Wanted(s)} \ {NoKey}

-----------------------------------------------------------------------------
(* The creation of jobs *)

\* The transaction of a caller whose graph is ready, or of a cron, takes its
\* snapshot.  What the caller meant has been compared with the graph.
Begin(s) ==
  /\ tx[s].at = "new"
  /\ IF s = Caller THEN plan.at = "planned"
     ELSE plan.at # "building" /\ (Together \/ presses = 0)
  /\ LET open == {t \in Session : tx[t].at = "open"} IN
     tx' = [t \in Session |->
              CASE t = s -> [at |-> "open", seen |-> QueuedKeys, alone |-> open = {}]
                [] t \in open -> [tx[t] EXCEPT !.alone = FALSE]
                [] OTHER -> tx[t]]
  /\ plan' = IF s = Caller THEN [plan EXCEPT !.meant = {}, !.straight = TRUE] ELSE plan
  /\ UNCHANGED <<made, graph, after, direct, row, releasing, pressed, history>>

\* Job.__init__ and add_depends of each edge, as Job.store inserts it.
NewRow(j) ==
  LET parents == IF j \in Leaf THEN ParentsIn(j) ELSE {} IN
  [state |-> IF parents = {} THEN Pending ELSE WaitDependencies,
   parents |-> parents, dated |-> FALSE]

Close(s) == tx' = [tx EXCEPT ![s].at = "closed", ![s].seen = {}]

\* The rows that the transaction r of a user writes.
Writes(r) == {r.job} \cup r.along

\* A commit wrote the rows S.  The transactions that are open miss it; those
\* that write one of these rows cannot be serialized: they roll back, now or
\* later, without effect (the request is tried again, a press of its own).
Written(open, S) ==
  pressed' = {[r EXCEPT !.changed = @ \cup S] : r \in {q \in open : Writes(q) \cap S = {}}}

\* Mutant: the jobs are stored whatever jobs exist.
StoreAnyway(s) ==
  /\ tx[s].at = "open"
  /\ row' = [j \in Job |-> IF j \in Wanted(s) THEN NewRow(j) ELSE row[j]]
  /\ Written(pressed, Wanted(s))
  /\ Close(s)
  /\ UNCHANGED <<dyVars, releasing, history>>

\* The end of DelayableGraph.delay: when all the keys of the graph are those of
\* queued jobs, nothing of it is stored, else all of it; then the commit.
Store(s) ==
  /\ tx[s].at = "open"
  /\ IF KeysOf(s) # {} /\ KeysOf(s) \subseteq tx[s].seen
     THEN UNCHANGED <<row, pressed>>
     ELSE /\ row' = [j \in Job |-> IF j \in Wanted(s) THEN NewRow(j) ELSE row[j]]
          /\ Written(pressed, Wanted(s))
  /\ Close(s)
  /\ UNCHANGED <<dyVars, releasing, history>>

\* The caller raises an error after delay().
RollBack(s) ==
  /\ tx[s].at = "open"
  /\ Close(s)
  /\ UNCHANGED <<dyVars, row, releasing, pressed, history>>

-----------------------------------------------------------------------------
(* The life of rows *)

ExistingParents(j) == row[j].parents \cap Stored

\* Mutant: without the condition on the other parents.
WaitingChildren(j, s) ==
  {c \in Stored : j \in row[c].parents /\ row[c].state = WaitDependencies}

\* _get_common_dependent_jobs_query: the rows that wait for j and have no
\* existing parent in another state than s, when j has it.
DependentsOf(j, s) ==
  {c \in Stored : /\ j \in row[c].parents
                  /\ row[c].state = WaitDependencies
                  /\ \A p \in ExistingParents(c) \ {j} : row[p].state = s}

\* The row j with a new state and date, and the rows S, which keep their date.
Change(j, newState, dated, S, followed) ==
  row' = [c \in Job |->
            CASE c = j -> [row[c] EXCEPT !.state = newState, !.dated = dated]
              [] c \in S \ {j} -> [row[c] EXCEPT !.state = followed]
              [] OTHER -> row[c]]

Start(j) ==
  /\ row[j].state = Pending
  /\ Change(j, Started, FALSE, {}, Pending)
  /\ Written(pressed, {j})
  /\ left' = left \cup {j}
  /\ UNCHANGED <<dyVars, tx, releasing, finished, lost, unreleased, skewed, presses>>

\* _try_perform_job: set_done, store and the commit.
Finish(j) ==
  /\ row[j].state = Started
  /\ Change(j, Done, TRUE, {}, Pending)
  /\ Written(pressed, {j})
  /\ releasing' = releasing \cup {j}
  /\ finished' = finished \cup {j}
  /\ left' = left \cup {j}
  /\ UNCHANGED <<dyVars, tx, lost, unreleased, skewed, presses>>

\* _enqueue_dependent_jobs, in the next transaction of the worker: j is one of
\* the parents that must be done.  The bound: when j ended twice and no release
\* was made yet, one stands for both.
Release(j) ==
  /\ j \in releasing \cap Stored
  /\ LET along == IF row[j].state = Done THEN DependentsOf(j, Done) ELSE {} IN
     /\ Change(j, row[j].state, row[j].dated, along, Pending)
     /\ Written(pressed, along)
  /\ releasing' = releasing \ {j}
  /\ UNCHANGED <<dyVars, tx, history>>

\* The worker crashes before it, the update cannot be serialized (its retries
\* run in the aborted transaction), or the row of j is deleted.
LoseRelease(j) ==
  /\ j \in releasing
  /\ releasing' = releasing \ {j}
  /\ unreleased' = unreleased \cup {j}
  /\ UNCHANGED <<dyVars, row, tx, pressed, finished, lost, left, skewed, presses>>

\* set_failed: when the commit raises, after set_done, the date stays.
Fail(j) ==
  /\ row[j].state = Started
  /\ \E dated \in BOOLEAN : Change(j, Failed, dated, {}, Pending)
  /\ Written(pressed, {j})
  /\ UNCHANGED <<dyVars, tx, releasing, history>>

-----------------------------------------------------------------------------
(* The buttons *)

\* A user's transaction reads the rows: what it will do to j and others.
Press(j, newState, along) ==
  /\ presses < MaxPresses
  /\ Together \/ \A s \in CronJob : tx[s].at = "new"
  /\ presses' = presses + 1
  /\ pressed' = pressed \cup {[job |-> j, new |-> newState, along |-> along, changed |-> {}]}
  /\ UNCHANGED <<dyVars, row, tx, releasing, finished, lost, left, unreleased, skewed>>

\* Mutants: the dependents are left to the worker; only the job is cancelled.
PressDoneAlone(j) ==
  /\ j \in Stored
  /\ Press(j, Done, {})
PressCancelledAlone(j) ==
  /\ row[j].state \in {Pending, Failed}
  /\ Press(j, Cancelled, {})

PressDone(j) ==
  /\ j \in Stored
  /\ Press(j, Done, DependentsOf(j, Done))

\* The wizard leaves out the other states; cancel_dependent_jobs stops at the
\* children.
PressCancelled(j) ==
  /\ row[j].state \in {Pending, Failed}
  /\ Press(j, Cancelled, DependentsOf(j, Cancelled))

\* set_pending looks at the parents that exist.
PressRequeue(j) ==
  /\ j \in Stored
  /\ row[j].state # WaitDependencies
  /\ Press(j, IF \A p \in ExistingParents(j) : row[p].state = Done
              THEN Pending ELSE WaitDependencies, {})

\* Mutant: set_pending keeps the dates of the job.
DatesOrKeeps(r) == r.new \in {Done, Cancelled} \/ row[r.job].dated

\* set_done and set_cancelled date the job, and not those that follow it.
Dates(r) == r.new \in {Done, Cancelled}

\* The jobs r leaves waiting, or makes wait, although its snapshot is stale:
\* it or one of its parents, not r.job, was written meanwhile and has ended.
Missed(r) ==
  {c \in Stored :
     /\ row'[c].state = WaitDependencies
     /\ r.job \in {c} \cup row[c].parents
     /\ c \in r.changed \/ \E p \in row[c].parents \cap r.changed : row[p].state \notin NotDone}

\* The commit of a transaction none of whose rows was written meanwhile.
CommitPress(r) ==
  /\ Change(r.job, r.new, Dates(r), r.along, IF r.new = Done THEN Pending ELSE Cancelled)
  /\ Written(pressed \ {r}, Writes(r))
  /\ finished' = IF r.new = Done THEN finished \cup {r.job} ELSE finished
  /\ left' = left \cup CASE r.new = Done -> {r.job}
                        [] r.new = Cancelled -> Writes(r)
                        [] OTHER -> {}
  /\ skewed' = skewed \cup Missed(r)
  /\ UNCHANGED <<dyVars, tx, releasing, lost, unreleased, presses>>

-----------------------------------------------------------------------------

\* autovacuum: a row whose date_done or date_cancelled is old enough, whatever
\* its state.
Autovacuum(j) ==
  /\ j \in Stored
  /\ row[j].dated
  /\ row' = [row EXCEPT ![j].state = Deleted, ![j].dated = FALSE]
  /\ Written(pressed, {j})
  /\ lost' = IF row[j].state = Done THEN lost ELSE lost \cup {j}
  /\ UNCHANGED <<dyVars, tx, releasing, finished, left, unreleased, skewed, presses>>

JfInit ==
  /\ DyInit
  /\ row = [j \in Job |-> NoRow]
  /\ tx = [s \in Session |-> [at |-> "new", seen |-> {}, alone |-> TRUE]]
  /\ releasing = {} /\ pressed = {}
  /\ finished = {} /\ lost = {} /\ left = {} /\ unreleased = {} /\ skewed = {}
  /\ presses = 0

Live(j) ==
  \/ Start(j) \/ Finish(j) \/ Release(j) \/ LoseRelease(j) \/ Fail(j)
  \/ PressDone(j) \/ PressCancelled(j) \/ PressRequeue(j)
  \/ Autovacuum(j)

JfNext ==
  \/ DyNext /\ UNCHANGED familyVars
  \/ \E s \in Session : Begin(s) \/ Store(s) \/ RollBack(s)
  \/ \E j \in Job : Live(j)
  \/ \E r \in pressed : CommitPress(r)

JfSpec == JfInit /\ [][JfNext]_jfVars

-----------------------------------------------------------------------------
(* Properties *)

\* Every variable has its type, and only what is stored has a date.
JfTypeOK ==
  /\ GraphOfLeaves
  /\ row \in [Job -> [state : States \cup {Absent, Deleted},
                      parents : SUBSET Leaf, dated : BOOLEAN]]
  /\ \A s \in Session : tx[s].at \in {"new", "open", "closed"} /\ tx[s].alone \in BOOLEAN
  /\ releasing \cup finished \cup lost \cup left \cup unreleased \cup skewed \subseteq Job
  /\ pressed \subseteq [job : Job, new : States, along : SUBSET Job, changed : SUBSET Job]
  /\ presses \in Nat
  /\ \A j \in Job : row[j].dated => row[j].state \in {Done, Cancelled, Failed}

\* A job is queued, started or failed only after every job it depends on was
\* done, or was deleted without: requeues of parents and children, buttons and
\* autovacuum notwithstanding.
RunsAfterParents ==
  \A j \in Stored : row[j].state \in {Pending, Started, Failed}
    => row[j].parents \subseteq finished \cup lost

\* A job waits only while one of the jobs it depends on is not done; or one was
\* deleted without; or its worker has not made its release yet, or ended without
\* it; or a user changed the job or one of its parents in a transaction that
\* overlapped the end of another one, which neither then sees.  Nothing else
\* strands a job: not the order in which workers and users end its parents, nor
\* requeues, nor the deletion of done parents.
WaitsForSomeone ==
  \A j \in Stored : row[j].state = WaitDependencies =>
    \/ \E p \in ExistingParents(j) : row[p].state # Done
    \/ row[j].parents \cap (lost \cup releasing \cup unreleased) # {}
    \/ j \in skewed

\* A job that never left its queue and whose parents never ran to their end is not
\* left waiting for cancelled ones, except when one of them was itself taken along
\* by a parent of its own (it has no date): cancel_dependent_jobs goes one level;
\* or when a user cancelled one while another one was being ended, which neither
\* transaction sees.
CancelledTogether ==
  \A c \in Stored \ (left \cup skewed) :
    /\ row[c].state = WaitDependencies
    /\ \A p \in row[c].parents : row[p].state = Cancelled /\ p \notin finished
    => \E p \in row[c].parents : ~row[p].dated

\* Two jobs with the same identity key are both queued for the first time only
\* when the transactions that created them overlapped, or one is part of a graph
\* with another key, which is then stored as a whole.
IdentityKept ==
  \A s, t \in Session : \A i \in Wanted(s) \cap Stored, j \in Wanted(t) \cap Stored :
    /\ s # t /\ tx[s].alone
    /\ KeyOf(i) = KeyOf(j) /\ KeyOf(i) # NoKey
    /\ row[i].state \in Queued /\ row[j].state \in Queued
    /\ {i, j} \cap left = {}
    => KeysOf(s) # {KeyOf(i)} \/ KeysOf(t) # {KeyOf(j)}
=============================================================================
